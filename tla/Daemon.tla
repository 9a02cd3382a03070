------------------------------ MODULE Daemon ------------------------------
(***************************************************************************)
(* Starting, finding, replacing and stopping the daemon on the device.     *)
(*                                                                         *)
(* A client is a shex that looks for a daemon (cmd_shex.c): it reads a     *)
(* socket name from its cache file and connects; failing that it runs      *)
(* start-daemon on the device, caches the name that prints, and connects;  *)
(* failing that it connects without a daemon.  A command is start-daemon   *)
(* or stop-daemon on its own.  start-daemon is run_stub_daemon             *)
(* (stubdaemon.c): it asks the running daemon, found through a file on the *)
(* device, for its hello line; if it cannot use it, it stops it and        *)
(* becomes the daemon itself.                                              *)
(*                                                                         *)
(* A daemon's random socket name is the name of the process that started   *)
(* it.  Names have one length and every writer writes at offset 0, so the  *)
(* device's file holds one whole name or nothing.                          *)
(***************************************************************************)
EXTENDS Integers, Sequences, FiniteSets

CONSTANTS
  Clients, Commands,  \* the processes: shex, and start-daemon or stop-daemon
  Ver,                \* [Procs -> build_fingerprint]
  NoFile, Empty,      \* no file, or a file without contents
  MaxFailures         \* bound: failures in one behaviour

Procs == Clients \cup Commands

ASSUME DaemonAssumption ==
  /\ Clients \cap Commands = {} /\ NoFile # Empty /\ MaxFailures \in Nat
  /\ {NoFile, Empty, "none", "eof", "ok"} \cap Procs = {}

VARIABLES
  pc,        \* where each process is
  got,       \* what it goes by: a socket name it was told, or the daemon's
             \* answer: "none" yet, "eof", "ok" or a hello
  stopper,   \* the processes that run stop-daemon
  attempt,   \* a client's first or second connect_fb_adb_daemon
  fd,        \* the cache file a client has open
  file,      \* daemon-socket-name on the device
  cache,     \* the file behind socket-name-cache: NoFile or who created it
  content,   \* content[h]: contents of the cache file created by h
  dmn,       \* dmn[d]: the daemon started by d
  ctl,       \* ctl[d]: backlog of d's control socket
  cli,       \* cli[d]: backlog of d's listening socket
  failures,  \* how many failures there have been
  overlap,   \* two launches have overlapped
  disturbed  \* a process ran alongside another or saw a daemon fail

procs == <<pc, got, stopper>>
host == <<attempt, fd, cache, content>>
device == <<file, dmn, ctl, cli>>
ghosts == <<failures, overlap, disturbed>>
dvars == <<procs, host, device, ghosts>>

Active(h) == pc[h] \notin {"idle", "connected", "normal", "done"}
Launching(h) == h \notin stopper /\ pc[h] \in {"launch", "ping", "pinged", "stop", "kill",
                                               "stopping", "listen", "truncate", "write"}
Listening(d) == d \in Procs /\ dmn[d] \in {"setup", "serve", "exiting"}

(* Process h goes on at l with v in hand.                                  *)
Goto(h, l, v) == pc' = [pc EXCEPT ![h] = l] /\ got' = [got EXCEPT ![h] = v]

BeginLaunch(h) == overlap' = (overlap \/ \E g \in Procs \ {h} : Launching(g))
Disturb == disturbed' = (disturbed \/ \E h \in Procs : Active(h))
Fail == failures < MaxFailures /\ failures' = failures + 1 /\ Disturb

----------------------------------------------------------------------------
(* A client: connect_fb_adb_daemon, under catch_error.                     *)

(* Every failure after the stat also unlinks the cache file, by name.      *)
ConnectFails(h, unlink) ==
  /\ cache' = IF unlink THEN NoFile ELSE cache
  /\ fd' = [fd EXCEPT ![h] = NoFile]
  /\ IF attempt[h] = 1 THEN Goto(h, "launch", Empty) /\ BeginLaunch(h)
                       ELSE Goto(h, "normal", Empty) /\ UNCHANGED overlap
  /\ UNCHANGED <<stopper, attempt, content, device, failures, disturbed>>

(* There is no cache file, or it is from the future (the clock was set     *)
(* back), and then it stays.  The second attempt comes right after it was  *)
(* written.                                                                *)
StatCache(h) ==
  /\ pc[h] = "stat"
  /\ \/ (cache = NoFile \/ attempt[h] = 1) /\ ConnectFails(h, FALSE)
     \/ /\ cache # NoFile /\ Goto(h, "open", Empty)
        /\ UNCHANGED <<stopper, host, device, ghosts>>

(* The cache file is older than DAEMON_TIMEOUT_MS, which the one that the  *)
(* second attempt finds is not, either.                                    *)
CacheStale(h) ==
  pc[h] = "stat" /\ attempt[h] = 1 /\ cache # NoFile /\ ConnectFails(h, TRUE)

OpenCache(h) ==
  /\ pc[h] = "open"
  /\ \/ cache = NoFile /\ ConnectFails(h, TRUE)
     \/ /\ cache # NoFile /\ fd' = [fd EXCEPT ![h] = cache] /\ Goto(h, "read", Empty)
        /\ UNCHANGED <<stopper, attempt, cache, content, device, ghosts>>

(* Under a shared lock.  A file that was created and not yet written has   *)
(* an invalid format.                                                      *)
ReadCache(h) ==
  /\ pc[h] = "read"
  /\ LET c == content[fd[h]]
     IN  \/ c = Empty /\ ConnectFails(h, TRUE)
         \/ /\ c # Empty /\ Goto(h, "dial", c) /\ fd' = [fd EXCEPT ![h] = NoFile]
            /\ UNCHANGED <<stopper, attempt, cache, content, device, ghosts>>

(* connect_to_device_socket, then chat_read_line waits for stub's hello.   *)
Dial(h) ==
  /\ pc[h] = "dial"
  /\ \/ ~Listening(got[h]) /\ ConnectFails(h, TRUE)
     \/ /\ Listening(got[h]) /\ Goto(h, "greet", "none")
        /\ cli' = [cli EXCEPT ![got[h]] = Append(@, h)]
        /\ UNCHANGED <<stopper, host, file, dmn, ctl, ghosts>>

UsableHello(h) == got[h] \in Procs /\ Ver[got[h]] = Ver[h]

Greeted(h) ==
  /\ pc[h] = "greet" /\ got[h] # "none"
  /\ \/ ~UsableHello(h) /\ ConnectFails(h, TRUE)
     \/ /\ UsableHello(h) /\ Goto(h, "connected", got[h])
        /\ UNCHANGED <<stopper, host, device, ghosts>>

(* complete_start_daemon_attempt, once start-daemon has printed a hello.   *)
OpenNewCache(h) ==
  /\ pc[h] = "cache" /\ Goto(h, "store", got[h])
  /\ cache' = IF cache = NoFile THEN h ELSE cache
  /\ content' = IF cache = NoFile THEN [content EXCEPT ![h] = Empty] ELSE content
  /\ fd' = [fd EXCEPT ![h] = cache']
  /\ UNCHANGED <<stopper, attempt, device, ghosts>>

(* Under an exclusive lock: truncate and write.                            *)
WriteCache(h) ==
  /\ pc[h] = "store" /\ Goto(h, "stat", Empty)
  /\ content' = [content EXCEPT ![fd[h]] = got[h]]
  /\ fd' = [fd EXCEPT ![h] = NoFile]
  /\ attempt' = [attempt EXCEPT ![h] = 2]
  /\ UNCHANGED <<stopper, cache, device, ghosts>>

----------------------------------------------------------------------------
(* start-daemon and stop-daemon on the device.                             *)

(* The launch printed the hello of daemon d.                               *)
Launched(h, d) ==
  IF h \in Clients THEN Goto(h, "cache", d) ELSE Goto(h, "done", Empty)

(* start-daemon exits with an error: a client connects without a daemon.   *)
LaunchFailed(h) == Goto(h, IF h \in Clients THEN "normal" ELSE "done", Empty)

(* No daemon could be asked for its hello, or stopped.                     *)
NoReuse(h) == Goto(h, "stop", Empty)
AfterStop(h) == Goto(h, IF h \in stopper THEN "done" ELSE "listen", Empty)
Unanswered(h) == IF pc[h] \in {"launch", "ping", "pinged"} THEN NoReuse(h) ELSE AfterStop(h)

(* read_daemon_socket_name, for try_reuse_current_daemon or stop_daemon.   *)
ReadName(h) ==
  /\ pc[h] \in {"launch", "stop"}
  /\ \/ file = NoFile /\ Unanswered(h)
     \/ file # NoFile /\ Goto(h, IF pc[h] = "launch" THEN "ping" ELSE "kill", file)
  /\ UNCHANGED <<stopper, host, device, ghosts>>

(* connect_to_daemon_control and the command.                              *)
SendCommand(h) ==
  /\ pc[h] \in {"ping", "kill"}
  /\ \/ ~Listening(got[h]) /\ Unanswered(h) /\ UNCHANGED ctl
     \/ /\ Listening(got[h])
        /\ ctl' = [ctl EXCEPT ![got[h]] = Append(@, [who |-> h, cmd |-> pc[h]])]
        /\ Goto(h, IF pc[h] = "ping" THEN "pinged" ELSE "stopping", "none")
  /\ UNCHANGED <<stopper, host, file, dmn, cli, ghosts>>

(* Mutant: a daemon of another version is not stopped.                     *)
PongNoReplace(h) ==
  /\ pc[h] = "pinged" /\ got[h] # "none"
  /\ \/ UsableHello(h) /\ Launched(h, got[h])
     \/ ~UsableHello(h) /\ Goto(h, "listen", Empty)
  /\ UNCHANGED <<stopper, host, device, ghosts>>

(* Mutant: a daemon of any version is used.                                *)
PongAnyVersion(h) ==
  /\ pc[h] = "pinged" /\ got[h] # "none"
  /\ \/ got[h] \in Procs /\ Launched(h, got[h])
     \/ got[h] \notin Procs /\ NoReuse(h)
  /\ UNCHANGED <<stopper, host, device, ghosts>>

(* try_reuse_current_daemon: a daemon of our version is used.              *)
Pong(h) ==
  /\ pc[h] = "pinged" /\ got[h] # "none"
  /\ \/ UsableHello(h) /\ Launched(h, got[h])
     \/ ~UsableHello(h) /\ NoReuse(h)
  /\ UNCHANGED <<stopper, host, device, ghosts>>

StopReply(h) ==
  /\ pc[h] = "stopping" /\ got[h] # "none" /\ AfterStop(h)
  /\ UNCHANGED <<stopper, host, device, ghosts>>

(* Both sockets are bound and listen; then become_daemon forks.            *)
Listen(h) ==
  /\ pc[h] = "listen" /\ Goto(h, "truncate", Empty)
  /\ dmn' = [dmn EXCEPT ![h] = "setup"]
  /\ UNCHANGED <<stopper, host, file, ctl, cli, ghosts>>

(* stub_daemon_setup: truncate under an exclusive lock, write after it.    *)
TruncateName(h) ==
  /\ pc[h] = "truncate" /\ file' = Empty /\ Goto(h, "write", Empty)
  /\ UNCHANGED <<stopper, host, dmn, ctl, cli, ghosts>>

(* The daemon then prints its hello and reports success to its parent.     *)
WriteName(h) ==
  /\ pc[h] = "write" /\ file' = h /\ Launched(h, h)
  /\ dmn' = [dmn EXCEPT ![h] = "serve"]
  /\ UNCHANGED <<stopper, host, ctl, cli, ghosts>>

----------------------------------------------------------------------------
(* The daemon's loop in run_stub_daemon.                                   *)

(* Those in who get answer a, unless they have gone.                       *)
Waits(h) == pc[h] \in {"pinged", "stopping", "greet"}
Answer(who, a) == got' = [h \in Procs |-> IF h \in who /\ Waits(h) THEN a ELSE got[h]]

(* Mutant: a stub that the daemon forked keeps its listening socket open.  *)
QueuedOnControl(d) == {ctl[d][i].who : i \in 1 .. Len(ctl[d])}

(* Who waits in connections that d has not accepted.                       *)
Queued(d) == {ctl[d][i].who : i \in 1 .. Len(ctl[d])} \cup {cli[d][i] : i \in 1 .. Len(cli[d])}

(* The process ends and its sockets close, with the connections that were  *)
(* not accepted; whoever waits in them reads end of file.                  *)
Ended(d) ==
  /\ dmn' = [dmn EXCEPT ![d] = "exited"]
  /\ ctl' = [ctl EXCEPT ![d] = <<>>] /\ cli' = [cli EXCEPT ![d] = <<>>]

(* handle_control_connection.  The sockets still listen while the daemon   *)
(* that was told to exit unwinds; it exits although its answer may fail.   *)
ServeControl(d) ==
  /\ dmn[d] = "serve" /\ ctl[d] # <<>>
  /\ LET c == Head(ctl[d])
     IN  /\ dmn' = [dmn EXCEPT ![d] = IF c.cmd = "kill" THEN "exiting" ELSE @]
         /\ Answer({c.who}, IF c.cmd = "kill" THEN "ok" ELSE d)
  /\ ctl' = [ctl EXCEPT ![d] = Tail(@)]
  /\ UNCHANGED <<pc, stopper, host, file, cli, ghosts>>

(* Control connections come first.  The forked stub greets the client.     *)
ServeClient(d) ==
  /\ dmn[d] = "serve" /\ ctl[d] = <<>> /\ cli[d] # <<>>
  /\ Answer({Head(cli[d])}, d)
  /\ cli' = [cli EXCEPT ![d] = Tail(@)]
  /\ UNCHANGED <<pc, stopper, host, file, dmn, ctl, ghosts>>

(* xpoll saw no connection for DAEMON_TIMEOUT_MS.                          *)
Timeout(d) ==
  /\ dmn[d] = "serve" /\ ctl[d] = <<>> /\ cli[d] = <<>>
  /\ dmn' = [dmn EXCEPT ![d] = "exiting"] /\ Disturb
  /\ UNCHANGED <<procs, host, file, ctl, cli, failures, overlap>>

Unwind(d) ==
  /\ dmn[d] = "exiting" /\ Ended(d) /\ Answer(Queued(d), "eof")
  /\ UNCHANGED <<pc, stopper, host, file, ghosts>>

----------------------------------------------------------------------------
(* Failures.                                                               *)

(* fork fails: the connection is closed.                                   *)
ForkFails(d) ==
  /\ dmn[d] = "serve" /\ ctl[d] = <<>> /\ cli[d] # <<>> /\ Fail
  /\ Answer({Head(cli[d])}, "eof")
  /\ cli' = [cli EXCEPT ![d] = Tail(@)]
  /\ UNCHANGED <<pc, stopper, host, file, dmn, ctl, overlap>>

(* The system kills a daemon.                                              *)
DaemonKilled(d) ==
  /\ dmn[d] = "serve" /\ Fail /\ Ended(d) /\ Answer(Queued(d), "eof")
  /\ UNCHANGED <<pc, stopper, host, file, overlap>>

(* stub_daemon_setup fails; become_daemon's parent exits with an error.    *)
SetupFails(h) ==
  /\ pc[h] \in {"truncate", "write"} /\ Fail /\ Ended(h)
  /\ pc' = [pc EXCEPT ![h] = IF h \in Clients THEN "normal" ELSE "done"]
  /\ Answer(Queued(h), "eof")
  /\ UNCHANGED <<stopper, host, file, overlap>>

(* start-daemon or stop-daemon is killed while it waits for an answer.     *)
Killed(h) ==
  /\ pc[h] \in {"pinged", "stopping"} /\ Fail /\ LaunchFailed(h)
  /\ UNCHANGED <<stopper, host, device, overlap>>

----------------------------------------------------------------------------
Init ==
  /\ pc = [h \in Procs |-> "idle"] /\ got = [h \in Procs |-> Empty] /\ stopper = {}
  /\ attempt = [h \in Procs |-> 1] /\ fd = [h \in Procs |-> NoFile]
  /\ cache = NoFile /\ content = [h \in Procs |-> Empty]
  /\ file = NoFile /\ dmn = [d \in Procs |-> "none"]
  /\ ctl = [d \in Procs |-> <<>>] /\ cli = [d \in Procs |-> <<>>]
  /\ failures = 0 /\ overlap = FALSE /\ disturbed = FALSE

BeginClient(h) ==
  /\ h \in Clients /\ pc[h] = "idle" /\ Goto(h, "stat", Empty) /\ Disturb
  /\ UNCHANGED <<stopper, host, device, failures, overlap>>

(* start-daemon, or start-daemon --replace, which does not ask first.      *)
BeginStart(h) ==
  /\ h \in Commands /\ pc[h] = "idle" /\ Disturb /\ BeginLaunch(h)
  /\ \E l \in {"launch", "stop"} : Goto(h, l, Empty)
  /\ UNCHANGED <<stopper, host, device, failures>>

BeginStop(h) ==
  /\ h \in Commands /\ pc[h] = "idle" /\ Disturb
  /\ Goto(h, "stop", Empty) /\ stopper' = stopper \cup {h}
  /\ UNCHANGED <<host, device, failures, overlap>>

ProcStep(h) ==
  \/ StatCache(h) \/ CacheStale(h) \/ OpenCache(h) \/ ReadCache(h) \/ Dial(h) \/ Greeted(h)
  \/ OpenNewCache(h) \/ WriteCache(h)
  \/ ReadName(h) \/ SendCommand(h) \/ Pong(h) \/ StopReply(h)
  \/ Listen(h) \/ TruncateName(h) \/ WriteName(h)
DaemonStep(d) == ServeControl(d) \/ ServeClient(d) \/ Unwind(d)
Failure(h) == ForkFails(h) \/ DaemonKilled(h) \/ SetupFails(h) \/ Killed(h)

(* Every process and every daemon has ended.                               *)
Over ==
  /\ \A h \in Procs : pc[h] # "idle" /\ ~Active(h) /\ dmn[h] \in {"none", "exited"}
  /\ UNCHANGED dvars

Next ==
  \/ \E h \in Procs : \/ BeginClient(h) \/ BeginStart(h) \/ BeginStop(h)
                      \/ ProcStep(h) \/ DaemonStep(h) \/ Timeout(h) \/ Failure(h)
  \/ Over

Spec == Init /\ [][Next]_dvars

----------------------------------------------------------------------------
(* Properties                                                              *)

Places ==
  {"idle", "stat", "open", "read", "dial", "greet", "connected", "cache", "store", "launch",
   "ping", "pinged", "stop", "kill", "stopping", "listen", "truncate", "write", "normal", "done"}

DTypeOK ==
  /\ pc \in [Procs -> Places]
  /\ attempt \in [Procs -> 1 .. 2]
  /\ got \in [Procs -> Procs \cup {Empty, "none", "eof", "ok"}]
  /\ fd \in [Procs -> Clients \cup {NoFile}] /\ cache \in Clients \cup {NoFile}
  /\ file \in Procs \cup {NoFile, Empty} /\ content \in [Procs -> Procs \cup {Empty}]
  /\ dmn \in [Procs -> {"none", "setup", "serve", "exiting", "exited"}]
  /\ ctl \in [Procs -> Seq([who: Procs, cmd: {"ping", "kill"}])]
  /\ cli \in [Procs -> Seq(Clients)]
  /\ stopper \subseteq Commands /\ failures \in 0 .. MaxFailures
  /\ overlap \in BOOLEAN /\ disturbed \in BOOLEAN

(* Launches that do not overlap leave one daemon at most that has not been *)
(* told to exit, whatever fails, times out or is stopped meanwhile, and    *)
(* that daemon can be found (run_stub_daemon, "We try to make sure we only *)
(* have one daemon around at a time").                                     *)
OneDaemon ==
  ~overlap =>
    /\ Cardinality({d \in Procs : dmn[d] \in {"setup", "serve"}}) <= 1
    /\ \A d \in Procs : dmn[d] = "serve" => file = d

(* A client that is alone finds or starts a daemon and connects to it: of  *)
(* another version, stale, empty or outdated, no state that an earlier     *)
(* process left in either file makes it do without (connect_fb_adb_daemon, *)
(* run_stub_daemon).                                                       *)
AloneGetsDaemon == ~disturbed => \A h \in Clients : pc[h] # "normal"

(* Whoever waits for an answer waits in the backlog of a daemon whose      *)
(* sockets are open: it is answered or reads end of file, however launches *)
(* overlap, daemons are replaced, killed or time out, so no client hangs   *)
(* (run_stub_daemon, connect_fb_adb_daemon, send_control_command).         *)
NobodyStranded ==
  \A h \in Procs : Waits(h) /\ got[h] = "none" =>
    \E d \in Procs :
      /\ Listening(d)
      /\ \/ \E i \in 1 .. Len(cli[d]) : cli[d][i] = h
         \/ \E i \in 1 .. Len(ctl[d]) : ctl[d][i].who = h

============================================================================

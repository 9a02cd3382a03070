------------------------------- MODULE Connect ------------------------------
(***************************************************************************)
(* How fb-adb reaches a stub of its own build on the device: it starts the *)
(* installed stub through "adb shell", installs its own when the build     *)
(* fingerprints differ, has the stub re-exec itself as root or as an       *)
(* application, and moves the connection to a socket (start_stub_adb,      *)
(* tc_connect_normal, tc_connect_user and stub_main_1 up to the hello      *)
(* message).                                                               *)
(*                                                                         *)
(* Several clients, perhaps of different builds, do this at once on one    *)
(* device.  They share the installed file and the copy of it in the        *)
(* application's directory.  What a file holds is a build, or "none",      *)
(* "part" (while cat writes it) or "alien" (a stub for another processor). *)
(* A connection that goes through the daemon is the matter of Daemon; here *)
(* it only appears when run-as does not work and the package's service     *)
(* starts one.                                                             *)
(***************************************************************************)
EXTENDS Naturals, Sequences, FiniteSets

CONSTANTS
  Clients,
  Ver,        \* Ver[c]: the build fingerprint of client c
  Requests,   \* Requests[c]: what c may be asked for: [user, transport]
  Devices,    \* the devices and adb versions to consider
  NStubs,     \* number of stubs a client carries, one per processor
  MaxFaults   \* bound: stubs lost and clients killed

(* A build is no other content of a file; what else the code tells apart.  *)
ASSUME ConnectAssumption ==
  /\ \A c \in Clients : Ver[c] \notin {"none", "part", "alien"}
  /\ \A c \in Clients :
       Requests[c] \subseteq [user : {"shell", "root", "app"}, transport : {"shell", "unix", "tcp"}]
  /\ Devices \subseteq
       [api : Nat, abi : Nat \ {0}, uid : {"shell", "root"}, runas : {"", "unknown", "notPermitted"},
        oldAdb : BOOLEAN, mv : BOOLEAN, selinux : BOOLEAN, su : BOOLEAN, net : BOOLEAN,
        bind : BOOLEAN, service : BOOLEAN]
  /\ NStubs \in Nat /\ MaxFaults \in Nat

VARIABLES
  dev,     \* the device
  req,     \* req[c]: user in shell, root, app; transport in shell, unix, tcp
  file,    \* /data/local/tmp/fb-adb
  copy,    \* fb-adb in the application's directory
  tmp,     \* tmp[c]: the file client c sent under a name of its own
  cl,      \* cl[c]: the client
  stub,    \* stub[c]: the stub it talks to
  to,      \* to[c]: messages to the stub
  from,    \* from[c]: lines and messages to the client
  conn,    \* conn[c]: the two ends of the new socket are connected
  fwd,     \* the clients for which adb forwards a local socket
  sig,     \* sig[c]: SIGCHLD for "adb shell" is pending
  faults,  \* faults so far
  hurt     \* hurt[c]: a fault or another build got in c's way

connvars == <<dev, req, file, copy, tmp, cl, stub, to, from, conn, fwd, sig, faults, hurt>>
localButFwd == <<dev, req, file, copy, tmp, faults, hurt>>
local == <<localButFwd, fwd>>

----------------------------------------------------------------------------
(* ver: the build it runs, or the one the script has copied.              *)
NoStub == [pc |-> "none", ver |-> "none", uid |-> "shell", in |-> "pty", path |-> "file",
           rebound |-> FALSE, packets |-> FALSE, why |-> ""]

(* A new attempt: try_adb_stub_memory is fresh, shell_thunk is remembered. *)
Attempt(thunk) ==
  [pc |-> "try", phase |-> "installed", i |-> 0, oldAdb |-> FALSE, thunk |-> thunk,
   todo |-> <<>>, writer |-> "adb", monitor |-> TRUE]

Line(ver, uid, err) == [kind |-> "line", ver |-> ver, uid |-> uid, err |-> err]
Msg(type) == [kind |-> "msg", ver |-> "", uid |-> "", err |-> type]
ErrorPacket == [kind |-> "packet", ver |-> "", uid |-> "", err |-> ""]

Builds == {Ver[c] : c \in Clients}

ConnectInit ==
  /\ dev \in Devices
  /\ req \in {r \in [Clients -> UNION {Requests[c] : c \in Clients}] :
               \A c \in Clients : r[c] \in Requests[c]}
  /\ file \in Builds \cup {"none"}
  /\ copy = "none"
  /\ tmp = [c \in Clients |-> "none"]
  /\ cl = [c \in Clients |-> Attempt(FALSE)]
  /\ stub = [c \in Clients |-> NoStub]
  /\ to = [c \in Clients |-> <<>>]
  /\ from = [c \in Clients |-> <<>>]
  /\ conn = [c \in Clients |-> FALSE]
  /\ fwd = {}
  /\ sig = [c \in Clients |-> FALSE]
  /\ faults = 0
  /\ hurt = [c \in Clients |-> FALSE]

(* Client c changes a file that the others use, to what they may not want. *)
Meddle(c, content) ==
  hurt' = [d \in Clients |-> hurt[d] \/ (d # c /\ content # Ver[d])]

----------------------------------------------------------------------------
(* The client ends with an error; its cleanups kill "adb shell".           *)
Fail(c) ==
  /\ cl' = [cl EXCEPT ![c].pc = "failed"]
  /\ stub' = [stub EXCEPT ![c].pc = "dead"]
  /\ UNCHANGED <<to, from, conn, sig>>

(* child_kill and child_wait.                                              *)
Reap(c) ==
  /\ stub' = [stub EXCEPT ![c].pc = "dead"]
  /\ to' = [to EXCEPT ![c] = <<>>]
  /\ from' = [from EXCEPT ![c] = <<>>]
  /\ sig' = [sig EXCEPT ![c] = FALSE]
  /\ UNCHANGED conn

(* try_adb_stub: "adb shell -t -t" is refused by an old adb or for an old  *)
(* device, and then "adb shell" is run without options.                    *)
TryStub(c) ==
  /\ cl[c].pc = "try"
  /\ IF dev.oldAdb /\ ~cl[c].oldAdb
     THEN cl' = [cl EXCEPT ![c].oldAdb = TRUE] /\ UNCHANGED <<stub, sig>>
     ELSE /\ cl' = [cl EXCEPT ![c].pc = "awaitHello"]
          /\ stub' = [stub EXCEPT ![c] =
               [NoStub EXCEPT !.pc = "boot", !.uid = dev.uid,
                              !.path = IF cl[c].phase = "probe" THEN "tmp" ELSE "file"]]
          /\ sig' = [sig EXCEPT ![c] = FALSE]
  /\ to' = [to EXCEPT ![c] = <<>>]
  /\ from' = [from EXCEPT ![c] = <<>>]
  /\ UNCHANGED <<conn, local>>

(* What a connection still needs, in the order of tc_connect_normal and    *)
(* tc_connect_user_attempt.                                                *)
Plan(c) ==
  CASE req[c].user = "app" /\ dev.api < 19 -> <<"upgrade", "switch", "hello">>
    [] req[c].user = "app" /\ dev.api >= 19 -> <<"switch", "upgrade", "hello">>
    [] req[c].user = "root" /\ dev.uid # "root" -> <<"switch", "upgrade", "hello">>
    [] OTHER -> <<"upgrade", "hello">>

(* The end of try_adb_stub_2 and the rest of start_stub_adb.               *)
ReadHello(c) ==
  /\ cl[c].pc = "awaitHello"
  /\ from[c] # <<>>
  /\ LET good == Head(from[c]).ver = Ver[c]
         phase == cl[c].phase
     IN  CASE good /\ phase # "probe" ->
                /\ cl' = [cl EXCEPT ![c].pc = "next", ![c].todo = Plan(c),
                                    ![c].thunk = @ \/ (req[c].user = "app" /\ dev.api >= 21)]
                /\ from' = [from EXCEPT ![c] = Tail(@)]
                /\ UNCHANGED <<stub, to, conn, sig>>
           [] good /\ phase = "probe" -> Reap(c) /\ cl' = [cl EXCEPT ![c].pc = "rename"]
           [] ~good /\ (phase = "installed" \/ (phase = "probe" /\ cl[c].i < NStubs)) ->
                Reap(c) /\ cl' = [cl EXCEPT ![c].pc = "send", ![c].i = @ + 1]
           [] OTHER -> Fail(c)
  /\ UNCHANGED local

(* send_stub: the i-th of the stubs, under a temporary name.               *)
adb_send_file(c, content) == tmp' = [tmp EXCEPT ![c] = content]

SendStub(c) ==
  /\ cl[c].pc = "send"
  /\ adb_send_file(c, IF cl[c].i = dev.abi THEN Ver[c] ELSE "alien")
  /\ cl' = [cl EXCEPT ![c].pc = "try", ![c].phase = "probe"]
  /\ UNCHANGED <<dev, req, file, copy, stub, to, from, conn, sig, faults, hurt, fwd>>

(* adb_rename_file: mv, or cat where mv is not permitted.                  *)
Rename(c) ==
  /\ cl[c].pc = "rename"
  /\ IF dev.mv
     THEN /\ file' = tmp[c]
          /\ tmp' = [tmp EXCEPT ![c] = "none"]
          /\ cl' = [cl EXCEPT ![c].pc = "try", ![c].phase = "final"]
          /\ Meddle(c, tmp[c])
     ELSE /\ file' = "part"
          /\ cl' = [cl EXCEPT ![c].pc = "cat"]
          /\ Meddle(c, "part")
          /\ UNCHANGED tmp
  /\ UNCHANGED <<dev, req, copy, stub, to, from, conn, sig, faults, fwd>>

CatDone(c) ==
  /\ cl[c].pc = "cat"
  /\ file' = tmp[c]
  /\ tmp' = [tmp EXCEPT ![c] = "none"]
  /\ cl' = [cl EXCEPT ![c].pc = "try", ![c].phase = "final"]
  /\ Meddle(c, tmp[c])
  /\ UNCHANGED <<dev, req, copy, stub, to, from, conn, sig, faults, fwd>>

----------------------------------------------------------------------------
(* tc_sendmsg, with the writer of the connection.                          *)
Send(c, type) ==
  to' = [to EXCEPT ![c] = Append(@, [type |-> type, enc |-> cl[c].writer, thunk |-> cl[c].thunk])]

Todo(c, step) == cl[c].pc = "next" /\ Head(cl[c].todo) = step
Goto(c, pc) == cl' = [cl EXCEPT ![c].pc = pc, ![c].todo = Tail(@)]

(* command_re_exec_as_root and command_re_exec_as_user_1.                  *)
Switch(c) ==
  /\ Todo(c, "switch")
  /\ Send(c, IF req[c].user = "root" THEN "execRoot" ELSE "execUser")
  /\ Goto(c, "awaitSwitch")
  /\ UNCHANGED <<stub, from, conn, sig, local>>

(* The end of a tc_connect_user_attempt that is to be repeated: its        *)
(* resources are released, the file sent under a temporary name included.  *)
Again(c, thunk) ==
  /\ cl' = [cl EXCEPT ![c] = Attempt(thunk)]
  /\ tmp' = [tmp EXCEPT ![c] = "none"]
  /\ stub' = [stub EXCEPT ![c].pc = "dead"]
  /\ conn' = [conn EXCEPT ![c] = FALSE]
  /\ UNCHANGED <<dev, req, file, copy, to, from, sig, faults, hurt, fwd>>

(* What the service that the package has, if it has one, starts: a daemon  *)
(* that runs as the application, of the same build, and whose stub's first *)
(* line has been read.                                                     *)
ServiceStub(c) ==
  [NoStub EXCEPT !.pc = "read", !.ver = Ver[c], !.uid = "app", !.in = "sock", !.packets = TRUE]

(* try_service_hack_connect                                                *)
ViaService(c) ==
  /\ IF dev.service
     THEN /\ cl' = [cl EXCEPT ![c].pc = "next", ![c].writer = "raw", ![c].monitor = FALSE,
                              ![c].todo = IF req[c].transport = "tcp"
                                          THEN <<"upgrade", "hello">> ELSE <<"hello">>]
          /\ stub' = [stub EXCEPT ![c] = ServiceStub(c)]
          /\ to' = [to EXCEPT ![c] = <<>>]
          /\ from' = [from EXCEPT ![c] = <<>>]
          /\ conn' = [conn EXCEPT ![c] = FALSE]
          /\ sig' = [sig EXCEPT ![c] = FALSE]
     ELSE Fail(c)
  /\ UNCHANGED local

(* re_exec_error_permission_denied_p; re_exec_error_package_unknown_p and  *)
(* re_exec_error_not_permitted_p                                           *)
PermissionDenied(line) == line.err = "denied"
Unavailable(line) == line.err \in {"unknown", "notPermitted"}

(* Mutant: the build of the re-execed stub is not compared.                *)
SwitchedUnchecked(c) ==
  /\ cl[c].pc = "awaitSwitch" /\ from[c] # <<>>
  /\ LET line == Head(from[c])
     IN  IF line.ver # "none"
         THEN /\ cl' = [cl EXCEPT ![c].pc = "next"]
              /\ from' = [from EXCEPT ![c] = Tail(@)]
              /\ UNCHANGED <<stub, to, conn, sig, local>>
         ELSE Fail(c) /\ UNCHANGED local

(* What the re-execed stub, or the failed attempt, printed.                *)
Switched(c) ==
  /\ cl[c].pc = "awaitSwitch"
  /\ from[c] # <<>>
  /\ LET line == Head(from[c])
         asRoot == req[c].user = "root"
         ok == IF asRoot THEN line.ver # "none" /\ line.uid = "root" ELSE line.ver = Ver[c]
     IN  CASE ok ->
                /\ cl' = [cl EXCEPT ![c].pc = "next"]
                /\ from' = [from EXCEPT ![c] = Tail(@)]
                /\ UNCHANGED <<stub, to, conn, sig, local>>
           [] ~ok /\ ~asRoot /\ line.ver # "none" -> Again(c, cl[c].thunk)
           [] ~asRoot /\ line.ver = "none" /\ PermissionDenied(line) /\ ~cl[c].thunk -> Again(c, TRUE)
           [] ~asRoot /\ line.ver = "none" /\ Unavailable(line) -> ViaService(c)
           [] OTHER -> Fail(c) /\ UNCHANGED local

(* tc_upgrade and tcp_upgrade_daemon_connection.                           *)
Upgrade(c) ==
  /\ Todo(c, "upgrade")
  /\ CASE req[c].transport = "shell" -> Goto(c, "next") /\ UNCHANGED to
       [] req[c].transport = "unix" -> Send(c, "rebindUnix") /\ Goto(c, "awaitListening")
       [] req[c].transport = "tcp" -> Send(c, "rebindTcp") /\ Goto(c, "accept")
  /\ UNCHANGED <<stub, from, conn, sig, local>>

(* The client has a socket now and writes to it as it is.                  *)
Switchover(c) ==
  /\ cl' = [cl EXCEPT ![c].pc = "next", ![c].writer = "raw"]
  /\ to' = [to EXCEPT ![c] = <<>>]
  /\ from' = [from EXCEPT ![c] = <<>>]

adb_add_forward(c) == fwd' = fwd \cup {c}
remove_forward_cleanup(c) == fwd' = fwd \ {c}

(* reconnect_over_unix_socket: the stub listens, so a local socket is      *)
(* forwarded to it ...                                                     *)
Listening(c) ==
  /\ cl[c].pc = "awaitListening"
  /\ from[c] # <<>>
  /\ IF Head(from[c]).kind = "msg"
     THEN /\ cl' = [cl EXCEPT ![c].pc = "forwarded"]
          /\ adb_add_forward(c)
          /\ UNCHANGED <<stub, to, from, conn, sig>>
     ELSE Fail(c) /\ UNCHANGED fwd
  /\ UNCHANGED localButFwd

(* ... connected to, and the forwarding removed by remove_forward_cleanup. *)
connect_to_device_socket(c) ==
  /\ cl[c].pc = "forwarded"
  /\ Switchover(c)
  /\ conn' = [conn EXCEPT ![c] = TRUE]
  /\ remove_forward_cleanup(c)
  /\ UNCHANGED <<stub, sig, localButFwd>>

(* Mutant: the child's death is not noticed during accept.                 *)
AcceptDeaf(c) ==
  /\ cl[c].pc = "accept" /\ conn[c]
  /\ Switchover(c) /\ UNCHANGED <<stub, conn, sig>>
  /\ UNCHANGED local

(* reconnect_over_tcp_socket: accept, unless "adb shell" ends first, or,   *)
(* with a daemon, TCP_CALLBACK_MS pass.                                    *)
Accept(c) ==
  /\ cl[c].pc = "accept"
  /\ \/ conn[c] /\ Switchover(c) /\ UNCHANGED <<stub, conn, sig>>
     \/ (IF cl[c].monitor THEN sig[c] ELSE TRUE) /\ Fail(c)
  /\ UNCHANGED local

(* The hello message of shex_main_common.                                  *)
SendHello(c) ==
  /\ Todo(c, "hello")
  /\ Send(c, "hello")
  /\ Goto(c, "done")
  /\ UNCHANGED <<stub, from, conn, sig, local>>

(* Nothing more will come from a stub that has gone.                       *)
LostConnection(c) ==
  /\ cl[c].pc \in {"awaitHello", "awaitSwitch", "awaitListening"}
  /\ from[c] = <<>> /\ stub[c].pc = "dead"
  /\ Fail(c)
  /\ UNCHANGED local

(* The cleanups of the whole program: delete_device_tmpfile_cleanup.       *)
Exit(c) ==
  /\ cl[c].pc \in {"done", "failed"}
  /\ stub[c].pc \in {"session", "dead"}
  /\ cl' = [cl EXCEPT ![c].pc = IF @ = "done" THEN "exited" ELSE "exitedFailed"]
  /\ tmp' = [tmp EXCEPT ![c] = "none"]
  /\ UNCHANGED <<dev, req, file, copy, stub, to, from, conn, sig, faults, hurt, fwd>>

ClientStep(c) ==
  \/ TryStub(c) \/ ReadHello(c) \/ SendStub(c) \/ Rename(c) \/ CatDone(c)
  \/ Switch(c) \/ Switched(c) \/ Upgrade(c) \/ Listening(c) \/ connect_to_device_socket(c) \/ Accept(c)
  \/ SendHello(c) \/ LostConnection(c) \/ Exit(c)

----------------------------------------------------------------------------
(* The stub.                                                               *)

Content(c) ==
  CASE stub[c].path = "tmp" -> tmp[c]
    [] stub[c].path = "copy" -> copy
    [] OTHER -> file

(* It ends; "adb shell" does, too, unless it has nothing to do with it.    *)
Gone(c, why) ==
  /\ stub' = [stub EXCEPT ![c].pc = "dead", ![c].why = why]
  /\ sig' = [sig EXCEPT ![c] = cl[c].monitor]

(* The file is executed and prints its hello line, or cannot be executed.  *)
Boot(c) ==
  /\ stub[c].pc = "boot"
  /\ LET refused == stub[c].uid = "app" /\ stub[c].path = "file" /\ dev.selinux
     IN  IF Content(c) \in Builds /\ ~refused
         THEN /\ stub' = [stub EXCEPT ![c].pc = "read", ![c].ver = Content(c),
                                      ![c].rebound = FALSE, ![c].packets = TRUE]
              /\ from' = [from EXCEPT ![c] = Append(@, Line(Content(c), stub[c].uid, ""))]
              /\ UNCHANGED sig
         ELSE /\ Gone(c, "exec")
              /\ from' = [from EXCEPT ![c] =
                   Append(@, Line("none", "", IF refused THEN "denied" ELSE "noexec"))]
  /\ UNCHANGED <<cl, to, conn, local>>

(* How stub_main_1 reads: a terminal's input is encoded.                   *)
Reader(s) == IF s.in = "pty" THEN "adb" ELSE "raw"

(* An error in the stub, told in a packet or in text.                      *)
Dies(c) ==
  /\ Gone(c, "error")
  /\ from' = [from EXCEPT ![c] =
                Append(@, IF stub[c].packets THEN ErrorPacket ELSE Line("none", "", "text"))]
  /\ UNCHANGED conn

(* re_exec_as_root and re_exec_as_user: su or run-as takes over.           *)
ReExec(c, m) ==
  LET asRoot == m.type = "execRoot"
      refusal == IF asRoot THEN (IF dev.su THEN "" ELSE "noSu") ELSE dev.runas
  IN  /\ IF refusal = ""
         THEN /\ stub' = [stub EXCEPT
                   ![c].pc = IF ~asRoot /\ m.thunk THEN "thunk" ELSE "boot",
                   ![c].path = "file", ![c].packets = FALSE,
                   ![c].uid = IF asRoot THEN "root" ELSE "app"]
              /\ UNCHANGED <<from, sig>>
         ELSE /\ Gone(c, "switch")
              /\ from' = [from EXCEPT ![c] = Append(@, Line("none", "", refusal))]
      /\ UNCHANGED conn

(* Mutant: after the rebinding, messages are still taken as encoded.       *)
StubReadStaysEncoded(c) ==
  /\ stub[c].pc = "read" /\ to[c] # <<>>
  /\ to' = [to EXCEPT ![c] = Tail(@)]
  /\ LET m == Head(to[c])
         rdr == IF stub[c].rebound THEN "adb" ELSE Reader(stub[c])
     IN  CASE m.enc # rdr -> Gone(c, "garbled") /\ UNCHANGED <<from, conn>>
           [] m.enc = rdr /\ m.type = "rebindUnix" /\ ~stub[c].rebound ->
                /\ stub' = [stub EXCEPT ![c].pc = "accept"]
                /\ from' = [from EXCEPT ![c] = Append(@, Msg("listening"))]
                /\ UNCHANGED <<conn, sig>>
           [] m.enc = rdr /\ m.type = "hello" ->
                stub' = [stub EXCEPT ![c].pc = "session"] /\ UNCHANGED <<from, conn, sig>>
           [] OTHER -> Dies(c)
  /\ UNCHANGED <<cl, local>>

(* read_msg and what stub_main_1 does with the message.                    *)
StubRead(c) ==
  /\ stub[c].pc = "read" /\ to[c] # <<>>
  /\ to' = [to EXCEPT ![c] = Tail(@)]
  /\ LET m == Head(to[c])
         clear == m.enc = Reader(stub[c])
     IN  CASE ~clear -> Gone(c, "garbled") /\ UNCHANGED <<from, conn>>
           [] clear /\ m.type = "rebindUnix" /\ ~stub[c].rebound /\ dev.bind ->
                /\ stub' = [stub EXCEPT ![c].pc = "accept"]
                /\ from' = [from EXCEPT ![c] = Append(@, Msg("listening"))]
                /\ UNCHANGED <<conn, sig>>
           [] clear /\ m.type = "rebindTcp" /\ ~stub[c].rebound /\ dev.net ->
                /\ stub' = [stub EXCEPT ![c].in = "sock", ![c].rebound = TRUE]
                /\ conn' = [conn EXCEPT ![c] = TRUE]
                /\ UNCHANGED <<from, sig>>
           [] clear /\ m.type \in {"execRoot", "execUser"} -> ReExec(c, m)
           [] clear /\ m.type = "hello" ->
                /\ stub' = [stub EXCEPT ![c].pc = "session", ![c].packets = FALSE]
                /\ UNCHANGED <<from, conn, sig>>
           [] OTHER -> Dies(c)
  /\ UNCHANGED <<cl, local>>

(* connect_peer_unix_socket: accept.                                       *)
StubAccept(c) ==
  /\ stub[c].pc = "accept" /\ conn[c]
  /\ stub' = [stub EXCEPT ![c].pc = "read", ![c].in = "sock", ![c].rebound = TRUE]
  /\ UNCHANGED <<cl, to, from, conn, sig, local>>

(* Mutant: whatever is in the directory is executed.                       *)
ThunkNoCopy(c) ==
  /\ stub[c].pc = "thunk"
  /\ stub' = [stub EXCEPT ![c].pc = "boot", ![c].path = "copy"]
  /\ UNCHANGED <<dev, req, file, copy, tmp, cl, to, from, conn, sig, faults, hurt, fwd>>

(* selinux_workaround: cmp, and cp to a name of the script's own unless    *)
(* the copy is the same.  A stub has been started from the file, so there  *)
(* is one; a file that someone is writing gives a copy of no build.        *)
Thunk(c) ==
  /\ stub[c].pc = "thunk"
  /\ stub' = [stub EXCEPT ![c] =
       IF copy = file THEN [@ EXCEPT !.pc = "boot", !.path = "copy"]
       ELSE [@ EXCEPT !.pc = "move", !.ver = IF file \in Builds THEN file ELSE "none"]]
  /\ UNCHANGED <<dev, req, file, copy, tmp, cl, to, from, conn, sig, faults, hurt, fwd>>

(* ... then mv to the name that is executed.                               *)
ThunkMove(c) ==
  /\ stub[c].pc = "move"
  /\ copy' = stub[c].ver
  /\ Meddle(c, stub[c].ver)
  /\ stub' = [stub EXCEPT ![c].pc = "boot", ![c].path = "copy"]
  /\ UNCHANGED <<dev, req, file, tmp, cl, to, from, conn, sig, faults, fwd>>

StubStep(c) == Boot(c) \/ StubRead(c) \/ StubAccept(c) \/ Thunk(c) \/ ThunkMove(c)

----------------------------------------------------------------------------
(* Faults.                                                                 *)

StubLost(c) ==
  /\ stub[c].pc \notin {"none", "dead", "session"}
  /\ faults < MaxFaults
  /\ faults' = faults + 1
  /\ hurt' = [hurt EXCEPT ![c] = TRUE]
  /\ Gone(c, "lost")
  /\ UNCHANGED <<dev, req, file, copy, tmp, cl, to, from, conn, fwd>>

ClientKilled(c) ==
  /\ cl[c].pc \notin {"done", "failed", "exited", "exitedFailed", "killed"}
  /\ faults < MaxFaults
  /\ faults' = faults + 1
  /\ cl' = [cl EXCEPT ![c].pc = "killed"]
  /\ stub' = [stub EXCEPT ![c].pc = "dead"]
  /\ hurt' = [d \in Clients |-> hurt[d] \/ file = "part"]
  /\ UNCHANGED <<dev, req, file, copy, tmp, to, from, conn, sig, fwd>>

ConnectNext ==
  \E c \in Clients :
    \/ ClientStep(c) \/ StubStep(c) \/ StubLost(c) \/ ClientKilled(c)

(* Processes run and what adb carries arrives.                             *)
ConnectFairness ==
  \A c \in Clients : WF_connvars(ClientStep(c)) /\ WF_connvars(StubStep(c))

ConnectSpec == ConnectInit /\ [][ConnectNext]_connvars /\ ConnectFairness

----------------------------------------------------------------------------
(* Every message is read in the encoding it was written in, through every  *)
(* re-exec and change of transport; and the client never takes a packet    *)
(* for text or text for a packet (the writer of struct childcom, rdr and   *)
(* should_send_error_packet of cmd_stub.c).                                *)
Understood ==
  \A c \in Clients :
    /\ stub[c].why # "garbled"
    /\ from[c] # <<>> =>
         /\ cl[c].pc \in {"awaitHello", "awaitSwitch"} => Head(from[c]).kind = "line"
         /\ cl[c].pc = "awaitListening" => Head(from[c]).kind # "line"

(* A stub that reads the hello runs as who was asked for and over the      *)
(* transport that was asked for; and a client that reaches the session is  *)
(* served by a stub of its own build, whoever replaces the installed file  *)
(* or the copy meanwhile (command_re_exec_as_user compares the builds, and *)
(* tc_connect_user tries again; command_re_exec_as_root does not compare). *)
RunsAsAsked ==
  \A c \in Clients :
    stub[c].pc = "session" =>
      /\ req[c].user \in {"root", "app"} => stub[c].uid = req[c].user
      /\ req[c].transport \in {"unix", "tcp"} => stub[c].in = "sock"
      /\ cl[c].pc = "done" /\ req[c].user # "root" => stub[c].ver = Ver[c]

(* A client that was not killed leaves no file with a temporary name and   *)
(* no forwarding.                                                          *)
NoLitter ==
  \A c \in Clients :
    cl[c].pc \in {"exited", "exitedFailed"} => tmp[c] = "none" /\ c \notin fwd

(* The device can do what client c is asked for.                           *)
Able(c) ==
  /\ dev.abi <= NStubs
  /\ req[c].transport = "tcp" => dev.net
  /\ req[c].transport = "unix" => dev.bind
  /\ req[c].user = "root" => dev.su \/ dev.uid = "root"
  /\ req[c].user = "app" => dev.runas = "" \/ (dev.service /\ req[c].transport # "tcp")

(* On an able device, a client fails only if its stub was lost or another  *)
(* build got in its way: old adb, old device, other processors, SELinux    *)
(* and a forbidden mv are all coped with.                                  *)
AbleConnects == \A c \in Clients : cl[c].pc = "failed" /\ Able(c) => hurt[c]

(* How attempts end: well where they can, and without a trace where they   *)
(* cannot (try_adb_stub, delete_device_tmpfile).                           *)
EndsWell == AbleConnects /\ NoLitter

Settled(c) == cl[c].pc \in {"exited", "exitedFailed", "killed"}

(* Every client reaches the session or gives up: no accept, no read and no *)
(* retry goes on for ever.  The one exception is a client that runs as an  *)
(* application and another of a different build that does so, too: each    *)
(* can install its stub between the other's start and re-exec for ever     *)
(* (tc_connect_user has no limit on its attempts).                         *)
Settles ==
  \A c \in Clients :
    \/ <>Settled(c)
    \/ \E d \in Clients \ {c} :
         [](~Settled(d) /\ Ver[d] # Ver[c] /\ req[c].user = "app" /\ req[d].user = "app")

=============================================================================

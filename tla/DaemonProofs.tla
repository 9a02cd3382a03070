---------------------------- MODULE DaemonProofs ----------------------------
(* Proofs about Daemon.tla, for any number of shex and start-daemon or     *)
(* stop-daemon processes, of any versions, and any number of failures.     *)
EXTENDS Daemon, SequenceTheorems, FiniteSetTheorems, TLAPS

----------------------------------------------------------------------------
(* Types, and who is where.                                                *)

Command == [who: Procs, cmd: {"ping", "kill"}]
Words == Procs \cup {Empty, "none", "eof", "ok"}

ProcsOK == pc \in [Procs -> Places] /\ got \in [Procs -> Words] /\ stopper \subseteq Commands
HostOK ==
  /\ attempt \in [Procs -> 1 .. 2] /\ fd \in [Procs -> Clients \cup {NoFile}]
  /\ cache \in Clients \cup {NoFile} /\ content \in [Procs -> Procs \cup {Empty}]
DeviceOK ==
  /\ file \in Procs \cup {NoFile, Empty}
  /\ dmn \in [Procs -> {"none", "setup", "serve", "exiting", "exited"}]
  /\ ctl \in [Procs -> Seq(Command)] /\ cli \in [Procs -> Seq(Clients)]
GhostsOK == failures \in 0 .. MaxFailures /\ overlap \in BOOLEAN /\ disturbed \in BOOLEAN

(* What only a client does is done by clients, what a process goes by is   *)
(* there, stop-daemon does not start one, and a daemon is being set up as  *)
(* long as its starter says so.                                            *)
Role(h) ==
  /\ pc[h] \in {"stat", "open", "read", "dial", "greet", "connected", "cache", "store", "normal"}
       => h \in Clients
  /\ pc[h] \in {"read", "store"} => fd[h] \in Clients
  /\ pc[h] \in {"cache", "store", "dial"} => got[h] \in Procs
  /\ h \in stopper => pc[h] \in {"stop", "kill", "stopping", "done"}
  /\ dmn[h] = "setup" <=> pc[h] \in {"truncate", "write"}

TypeInv == ProcsOK /\ HostOK /\ DeviceOK /\ GhostsOK /\ \A h \in Procs : Role(h)

(* At the start nothing runs, and there is no file.                        *)
LEMMA TypeInit ==
  ASSUME Init
  PROVE  TypeInv
<1>1. <<>> \in Seq(Command) /\ <<>> \in Seq(Clients)
  BY EmptySeq
<1>2. ProcsOK
  BY DEF Init, ProcsOK, Places, Words
<1>3. HostOK
  BY DEF Init, HostOK
<1>4. DeviceOK
  BY <1>1 DEF Init, DeviceOK
<1>5. GhostsOK
  <2>1. failures \in 0 .. MaxFailures
    BY DaemonAssumption DEF Init
  <2>2. overlap \in BOOLEAN /\ disturbed \in BOOLEAN
    BY Zenon DEF Init
  <2>3. QED
    BY <2>1, <2>2 DEF GhostsOK
<1>6. ASSUME NEW h \in Procs PROVE Role(h)
  BY DEF Init, Role
<1>7. QED
  BY <1>2, <1>3, <1>4, <1>5, <1>6 DEF TypeInv

(* The invariant is the type invariant of the model, and more.             *)
LEMMA TypeImplied ==
  ASSUME TypeInv
  PROVE  DTypeOK
BY DEF TypeInv, ProcsOK, HostOK, DeviceOK, GhostsOK, DTypeOK, Command, Words

(* A process goes on, and no other does.                                   *)
LEMMA GotoFacts ==
  ASSUME ProcsOK, NEW h \in Procs, NEW l \in Places, NEW v \in Words, Goto(h, l, v),
         stopper' \subseteq Commands
  PROVE  /\ ProcsOK' /\ pc'[h] = l /\ got'[h] = v
         /\ \A g \in Procs : g # h => pc'[g] = pc[g] /\ got'[g] = got[g]
BY DEF ProcsOK, Goto

(* Ghost variables are Boolean.                                            *)
LEMMA GhostFacts ==
  ASSUME GhostsOK
  PROVE  /\ Disturb => disturbed' \in BOOLEAN
         /\ Fail => failures' \in 0 .. MaxFailures /\ disturbed' \in BOOLEAN
         /\ \A h \in Procs : BeginLaunch(h) => overlap' \in BOOLEAN
<1>1. Disturb => disturbed' \in BOOLEAN
  BY Zenon DEF Disturb
<1>2. ASSUME Fail PROVE failures' \in 0 .. MaxFailures
  BY <1>2, DaemonAssumption DEF Fail, GhostsOK
<1>3. Fail => Disturb
  BY DEF Fail
<1>4. \A h \in Procs : BeginLaunch(h) => overlap' \in BOOLEAN
  BY Zenon DEF BeginLaunch
<1>5. QED
  BY <1>1, <1>2, <1>3, <1>4

(* Roles are kept when the process that goes on keeps its own.             *)
LEMMA RolesKept ==
  ASSUME \A g \in Procs : Role(g), NEW h \in Procs, Role(h)',
         \A g \in Procs : g # h => /\ pc'[g] = pc[g] /\ got'[g] = got[g] /\ fd'[g] = fd[g]
                                   /\ dmn'[g] = "setup" <=> dmn[g] = "setup",
         stopper' \ {h} \subseteq stopper
  PROVE  \A g \in Procs : Role(g)'
BY DEF Role

(* A client whose connect_fb_adb_daemon failed.                            *)
LEMMA TypeConnectFails ==
  ASSUME TypeInv, NEW h \in Procs, NEW u \in BOOLEAN, ConnectFails(h, u),
         pc[h] \in {"stat", "open", "read", "dial", "greet"}
  PROVE  TypeInv' /\ pc'[h] \in {"launch", "normal"}
<1>1. h \in Clients /\ h \notin stopper /\ dmn[h] # "setup"
  BY DEF TypeInv, Role
<1>2. PICK l \in {"launch", "normal"} : Goto(h, l, Empty)
  BY DEF ConnectFails
<1>3. l \in Places /\ Empty \in Words /\ stopper' = stopper /\ UNCHANGED device
  BY DEF Places, Words, ConnectFails
<1>4. ProcsOK' /\ pc'[h] = l /\ got'[h] = Empty /\ \A g \in Procs : g # h => pc'[g] = pc[g] /\ got'[g] = got[g]
  BY <1>2, <1>3, GotoFacts DEF TypeInv, ProcsOK
<1>5. HostOK' /\ \A g \in Procs : g # h => fd'[g] = fd[g]
  BY DEF ConnectFails, TypeInv, HostOK
<1>6. GhostsOK'
  BY GhostFacts DEF ConnectFails, TypeInv, GhostsOK
<1>7. DeviceOK'
  BY <1>3 DEF TypeInv, DeviceOK, device
<1>8. Role(h)'
  BY <1>1, <1>3, <1>4 DEF Role, device
<1>9. \A g \in Procs : Role(g)'
  BY <1>3, <1>4, <1>5, <1>8, RolesKept DEF TypeInv, device
<1>10. QED
  BY <1>4, <1>5, <1>6, <1>7, <1>9 DEF TypeInv

(* A step of process h that leaves the daemons, their queues and the       *)
(* device's file alone.                                                    *)
LEMMA TypeMoves ==
  ASSUME TypeInv, NEW h \in Procs, NEW l \in Places, NEW v \in Words, Goto(h, l, v),
         stopper' \subseteq Commands, stopper' \ {h} \subseteq stopper,
         HostOK', GhostsOK', UNCHANGED device, \A g \in Procs : g # h => fd'[g] = fd[g], Role(h)'
  PROVE  TypeInv'
<1>1. ProcsOK' /\ \A g \in Procs : g # h => pc'[g] = pc[g] /\ got'[g] = got[g]
  BY GotoFacts DEF TypeInv
<1>2. DeviceOK'
  BY DEF TypeInv, DeviceOK, device
<1>3. \A g \in Procs : Role(g)'
  BY <1>1, RolesKept DEF TypeInv, device
<1>4. QED
  BY <1>1, <1>2, <1>3 DEF TypeInv

(* The steps of connect_fb_adb_daemon and complete_start_daemon_attempt.   *)
LEMMA TypeClient ==
  ASSUME TypeInv, NEW h \in Procs,
         StatCache(h) \/ CacheStale(h) \/ OpenCache(h) \/ ReadCache(h) \/ Dial(h) \/ Greeted(h)
         \/ OpenNewCache(h) \/ WriteCache(h)
  PROVE  TypeInv'
<1>1. CASE \E u \in BOOLEAN : ConnectFails(h, u) /\ pc[h] \in {"stat", "open", "read", "dial", "greet"}
  BY <1>1, TypeConnectFails
<1> SUFFICES ASSUME ~\E u \in BOOLEAN : ConnectFails(h, u) /\ pc[h] \in {"stat", "open", "read", "dial", "greet"}
             PROVE  TypeInv'
  BY <1>1
<1>2. ProcsOK /\ HostOK /\ DeviceOK /\ GhostsOK /\ Role(h) /\ stopper \subseteq Commands
  BY DEF TypeInv, ProcsOK
<1>3. UNCHANGED ghosts => GhostsOK'
  BY <1>2 DEF GhostsOK, ghosts
<1>4. UNCHANGED host => HostOK' /\ fd' = fd
  BY <1>2 DEF HostOK, host
<1>5. CASE StatCache(h) \/ CacheStale(h)
  <2>1. Goto(h, "open", Empty) /\ UNCHANGED <<stopper, host, device, ghosts>> /\ pc[h] = "stat"
    BY <1>5 DEF StatCache, CacheStale
  <2>2. "open" \in Places /\ Empty \in Words /\ pc'[h] = "open"
    BY <1>2, <2>1 DEF Places, Words, Goto, ProcsOK
  <2>3. Role(h)'
    BY <1>2, <2>1, <2>2 DEF Role, device
  <2>4. QED
    BY <1>2, <1>3, <1>4, <2>1, <2>2, <2>3, TypeMoves
<1>6. CASE OpenCache(h)
  <2>1. /\ Goto(h, "read", Empty) /\ cache # NoFile /\ fd' = [fd EXCEPT ![h] = cache] /\ pc[h] = "open"
        /\ UNCHANGED <<stopper, attempt, cache, content, device, ghosts>>
    BY <1>6 DEF OpenCache
  <2>2. "read" \in Places /\ Empty \in Words /\ pc'[h] = "read" /\ cache \in Clients
    BY <1>2, <2>1 DEF Places, Words, Goto, ProcsOK, HostOK
  <2>3. HostOK' /\ fd'[h] \in Clients /\ \A g \in Procs : g # h => fd'[g] = fd[g]
    BY <1>2, <2>1, <2>2 DEF HostOK
  <2>4. Role(h)'
    BY <1>2, <2>1, <2>2, <2>3 DEF Role, device
  <2>5. QED
    BY <1>2, <1>3, <2>1, <2>2, <2>3, <2>4, TypeMoves
<1>7. CASE ReadCache(h)
  <2>1. /\ Goto(h, "dial", content[fd[h]]) /\ content[fd[h]] # Empty /\ fd' = [fd EXCEPT ![h] = NoFile]
        /\ pc[h] = "read" /\ UNCHANGED <<stopper, attempt, cache, content, device, ghosts>>
    BY <1>7 DEF ReadCache
  <2>2. content[fd[h]] \in Procs
    BY <1>2, <2>1 DEF Role, HostOK, Procs
  <2>3. "dial" \in Places /\ content[fd[h]] \in Words /\ pc'[h] = "dial" /\ got'[h] \in Procs
    BY <1>2, <2>1, <2>2 DEF Places, Words, Goto, ProcsOK
  <2>4. HostOK' /\ \A g \in Procs : g # h => fd'[g] = fd[g]
    BY <1>2, <2>1, <2>2 DEF HostOK
  <2>5. Role(h)'
    BY <1>2, <2>1, <2>2, <2>3 DEF Role, device
  <2>6. QED
    BY <1>2, <1>3, <2>1, <2>3, <2>4, <2>5, TypeMoves
<1>8. CASE Dial(h)
  <2>1. /\ Goto(h, "greet", "none") /\ cli' = [cli EXCEPT ![got[h]] = Append(cli[got[h]], h)]
        /\ pc[h] = "dial" /\ UNCHANGED <<stopper, host, file, dmn, ctl, ghosts>>
    BY <1>8 DEF Dial
  <2>2. h \in Clients /\ got[h] \in Procs
    BY <1>2, <2>1 DEF Role
  <2>3. Append(cli[got[h]], h) \in Seq(Clients)
    BY <1>2, <2>2, AppendProperties DEF DeviceOK
  <2>4. DeviceOK'
    BY <1>2, <2>1, <2>2, <2>3 DEF DeviceOK
  <2>5. "greet" \in Places /\ "none" \in Words /\ stopper' \subseteq Commands
    BY <1>2, <2>1 DEF Places, Words
  <2>6. ProcsOK' /\ pc'[h] = "greet" /\ \A g \in Procs : g # h => pc'[g] = pc[g] /\ got'[g] = got[g]
    BY <1>2, <2>1, <2>5, GotoFacts
  <2>7. Role(h)'
    BY <1>2, <2>1, <2>2, <2>6 DEF Role
  <2>8. \A g \in Procs : Role(g)'
    BY <1>4, <2>1, <2>6, <2>7, RolesKept DEF TypeInv
  <2>9. QED
    BY <1>3, <1>4, <2>1, <2>4, <2>6, <2>8 DEF TypeInv
<1>9. CASE Greeted(h)
  <2>1. Goto(h, "connected", got[h]) /\ UNCHANGED <<stopper, host, device, ghosts>> /\ pc[h] = "greet"
    BY <1>9 DEF Greeted
  <2>2. "connected" \in Places /\ got[h] \in Words /\ pc'[h] = "connected"
    BY <1>2, <2>1 DEF Places, Goto, ProcsOK
  <2>3. Role(h)'
    BY <1>2, <2>1, <2>2 DEF Role, device
  <2>4. QED
    BY <1>2, <1>3, <1>4, <2>1, <2>2, <2>3, TypeMoves
<1>10. CASE OpenNewCache(h)
  <2>1. /\ Goto(h, "store", got[h]) /\ fd' = [fd EXCEPT ![h] = cache'] /\ pc[h] = "cache"
        /\ UNCHANGED <<stopper, attempt, device, ghosts>>
    BY <1>10 DEF OpenNewCache
  <2>2. h \in Clients /\ got[h] \in Procs
    BY <1>2, <2>1 DEF Role
  <2>3. "store" \in Places /\ got[h] \in Words /\ pc'[h] = "store" /\ got'[h] = got[h]
    BY <1>2, <2>1 DEF Places, Goto, ProcsOK
  <2>4. cache' \in Clients
    BY <1>2, <1>10, <2>2 DEF OpenNewCache, HostOK
  <2>5. content' \in [Procs -> Procs \cup {Empty}]
    BY <1>2, <1>10 DEF OpenNewCache, HostOK
  <2>6. HostOK' /\ fd'[h] \in Clients /\ \A g \in Procs : g # h => fd'[g] = fd[g]
    BY <1>2, <2>1, <2>4, <2>5 DEF HostOK
  <2>7. Role(h)'
    BY <1>2, <2>1, <2>2, <2>3, <2>6 DEF Role, device
  <2>8. QED
    BY <1>2, <1>3, <2>1, <2>3, <2>6, <2>7, TypeMoves
<1>11. CASE WriteCache(h)
  <2>1. /\ Goto(h, "stat", Empty) /\ fd' = [fd EXCEPT ![h] = NoFile] /\ pc[h] = "store"
        /\ content' = [content EXCEPT ![fd[h]] = got[h]] /\ attempt' = [attempt EXCEPT ![h] = 2]
        /\ UNCHANGED <<stopper, cache, device, ghosts>>
    BY <1>11 DEF WriteCache
  <2>2. "stat" \in Places /\ Empty \in Words /\ pc'[h] = "stat"
    BY <1>2, <2>1 DEF Places, Words, Goto, ProcsOK
  <2>3. got[h] \in Procs
    BY <1>2, <2>1 DEF Role
  <2>4. HostOK' /\ \A g \in Procs : g # h => fd'[g] = fd[g]
    <3>1. attempt' \in [Procs -> 1 .. 2]
      BY <1>2, <2>1 DEF HostOK
    <3>2. content' \in [Procs -> Procs \cup {Empty}]
      BY <1>2, <2>1, <2>3 DEF HostOK
    <3>3. fd' \in [Procs -> Clients \cup {NoFile}] /\ \A g \in Procs : g # h => fd'[g] = fd[g]
      BY <1>2, <2>1 DEF HostOK
    <3>4. QED
      BY <1>2, <2>1, <3>1, <3>2, <3>3 DEF HostOK
  <2>5. Role(h)'
    BY <1>2, <2>1, <2>2 DEF Role, device
  <2>6. QED
    BY <1>2, <1>3, <2>1, <2>2, <2>4, <2>5, TypeMoves
<1>12. QED
  BY <1>5, <1>6, <1>7, <1>8, <1>9, <1>10, <1>11

(* The steps of start-daemon and stop-daemon that leave the device alone.  *)
LEMMA TypeAsks ==
  ASSUME TypeInv, NEW h \in Procs,
         ReadName(h) \/ (SendCommand(h) /\ ~Listening(got[h])) \/ Pong(h) \/ StopReply(h)
  PROVE  TypeInv'
<1>1. ProcsOK /\ HostOK /\ DeviceOK /\ GhostsOK /\ Role(h) /\ stopper \subseteq Commands
  BY DEF TypeInv, ProcsOK
<1>2. UNCHANGED <<stopper, host, device, ghosts>>
  BY DEF ReadName, SendCommand, Pong, StopReply, device
<1>3. h \in Procs \ Clients => h \in Commands
  BY DEF Procs
<1>4. PICK l \in {"ping", "kill", "stop", "listen", "done", "cache"}, v \in Words :
        /\ Goto(h, l, v) /\ (l = "cache" => h \in Clients /\ v \in Procs) /\ (l \in {"listen", "ping", "cache"} => h \notin stopper)
        /\ dmn[h] # "setup"
  <2>1. Empty \in Words /\ file # NoFile => file \in Words
    BY <1>1 DEF Words, DeviceOK
  <2>2. CASE ReadName(h)
    BY <1>1, <2>1, <2>2 DEF ReadName, Unanswered, NoReuse, AfterStop, Role, Words
  <2>3. CASE SendCommand(h) /\ ~Listening(got[h])
    BY <1>1, <2>3 DEF SendCommand, Unanswered, NoReuse, AfterStop, Role, Words
  <2>4. CASE Pong(h)
    BY <1>1, <2>4 DEF Pong, UsableHello, Launched, NoReuse, Role, Words
  <2>5. CASE StopReply(h)
    BY <1>1, <2>5 DEF StopReply, AfterStop, Role, Words
  <2>6. QED
    BY <2>2, <2>3, <2>4, <2>5
<1>5. l \in Places /\ pc'[h] = l /\ got'[h] = v
  BY <1>1, <1>4 DEF Places, Goto, ProcsOK
<1>6. HostOK' /\ GhostsOK' /\ fd' = fd
  BY <1>1, <1>2 DEF HostOK, GhostsOK, host, ghosts
<1>7. Role(h)'
  BY <1>1, <1>2, <1>4, <1>5 DEF Role, device
<1>8. QED
  BY <1>1, <1>2, <1>4, <1>5, <1>6, <1>7, TypeMoves

(* The steps of start-daemon that send a command or become the daemon.     *)
LEMMA TypeStarts ==
  ASSUME TypeInv, NEW h \in Procs,
         (SendCommand(h) /\ Listening(got[h])) \/ Listen(h) \/ TruncateName(h) \/ WriteName(h)
  PROVE  TypeInv'
<1>1. ProcsOK /\ HostOK /\ DeviceOK /\ GhostsOK /\ Role(h) /\ stopper \subseteq Commands
  BY DEF TypeInv, ProcsOK
<1>2. UNCHANGED <<stopper, host, ghosts>>
  BY DEF SendCommand, Listen, TruncateName, WriteName
<1>3. HostOK' /\ GhostsOK' /\ fd' = fd
  BY <1>1, <1>2 DEF HostOK, GhostsOK, host, ghosts
<1>4. ASSUME NEW l \in Places, NEW v \in Words, Goto(h, l, v), DeviceOK', Role(h)',
             \A g \in Procs : g # h => dmn'[g] = dmn[g]
      PROVE  TypeInv'
  <2>1. ProcsOK' /\ \A g \in Procs : g # h => pc'[g] = pc[g] /\ got'[g] = got[g]
    BY <1>1, <1>2, <1>4, GotoFacts
  <2>2. \A g \in Procs : Role(g)'
    BY <1>2, <1>3, <1>4, <2>1, RolesKept DEF TypeInv
  <2>3. QED
    BY <1>3, <1>4, <2>1, <2>2 DEF TypeInv
<1>5. CASE SendCommand(h) /\ Listening(got[h])
  <2>1. PICK l \in {"pinged", "stopping"} :
          /\ Goto(h, l, "none") /\ (l = "pinged" => pc[h] = "ping")
          /\ got[h] \in Procs /\ pc[h] \in {"ping", "kill"}
          /\ ctl' = [ctl EXCEPT ![got[h]] = Append(ctl[got[h]], [who |-> h, cmd |-> pc[h]])]
          /\ UNCHANGED <<file, dmn, cli>>
    BY <1>5 DEF SendCommand, Listening
  <2>2. [who |-> h, cmd |-> pc[h]] \in Command /\ ctl[got[h]] \in Seq(Command)
    BY <1>1, <2>1 DEF Command, DeviceOK
  <2>3. Append(ctl[got[h]], [who |-> h, cmd |-> pc[h]]) \in Seq(Command)
    BY <2>2, AppendProperties
  <2>4. DeviceOK'
    BY <1>1, <2>1, <2>3 DEF DeviceOK
  <2>5. l \in Places /\ "none" \in Words /\ pc'[h] = l
    BY <1>1, <2>1 DEF Places, Words, Goto, ProcsOK
  <2>6. Role(h)'
    BY <1>1, <1>2, <2>1, <2>5 DEF Role
  <2>7. QED
    BY <1>4, <2>1, <2>4, <2>5, <2>6
<1>6. CASE Listen(h)
  <2>1. DeviceOK' /\ dmn'[h] = "setup" /\ (\A g \in Procs : g # h => dmn'[g] = dmn[g]) /\ Goto(h, "truncate", Empty) /\ pc[h] = "listen"
    BY <1>1, <1>6 DEF Listen, DeviceOK
  <2>2. "truncate" \in Places /\ Empty \in Words /\ pc'[h] = "truncate"
    BY <1>1, <2>1 DEF Places, Words, Goto, ProcsOK
  <2>3. Role(h)'
    BY <1>1, <1>2, <2>1, <2>2 DEF Role
  <2>4. QED
    BY <1>4, <2>1, <2>2, <2>3
<1>7. CASE TruncateName(h)
  <2>1. DeviceOK' /\ dmn' = dmn /\ Goto(h, "write", Empty) /\ pc[h] = "truncate"
    BY <1>1, <1>7 DEF TruncateName, DeviceOK
  <2>2. "write" \in Places /\ Empty \in Words /\ pc'[h] = "write"
    BY <1>1, <2>1 DEF Places, Words, Goto, ProcsOK
  <2>3. Role(h)'
    BY <1>1, <1>2, <2>1, <2>2 DEF Role
  <2>4. QED
    BY <1>4, <2>1, <2>2, <2>3
<1>8. CASE WriteName(h)
  <2>1. DeviceOK' /\ dmn'[h] = "serve" /\ (\A g \in Procs : g # h => dmn'[g] = dmn[g]) /\ pc[h] = "write"
    BY <1>1, <1>8 DEF WriteName, DeviceOK
  <2>2. PICK l \in {"cache", "done"}, v \in Words : Goto(h, l, v) /\ (l = "cache" => h \in Clients /\ v \in Procs)
    BY <1>8 DEF WriteName, Launched, Words
  <2>3. l \in Places /\ pc'[h] = l /\ got'[h] = v
    BY <1>1, <2>2 DEF Places, Goto, ProcsOK
  <2>4. Role(h)'
    BY <1>1, <1>2, <2>1, <2>2, <2>3 DEF Role
  <2>5. QED
    BY <1>4, <2>1, <2>2, <2>3, <2>4
<1>9. QED
  BY <1>5, <1>6, <1>7, <1>8

(* The beginnings of processes, and a process that is killed.              *)
LEMMA TypeBegin ==
  ASSUME TypeInv, NEW h \in Procs, BeginClient(h) \/ BeginStart(h) \/ BeginStop(h) \/ Killed(h)
  PROVE  TypeInv'
<1>1. ProcsOK /\ HostOK /\ DeviceOK /\ GhostsOK /\ Role(h) /\ stopper \subseteq Commands
  BY DEF TypeInv, ProcsOK
<1>2. UNCHANGED <<host, device>>
  BY DEF BeginClient, BeginStart, BeginStop, Killed
<1>3. HostOK' /\ fd' = fd
  BY <1>1, <1>2 DEF HostOK, host
<1>4. GhostsOK'
  BY <1>1, GhostFacts DEF BeginClient, BeginStart, BeginStop, Killed, GhostsOK
<1>5. PICK l \in {"stat", "launch", "stop", "normal", "done"} :
        /\ Goto(h, l, Empty) /\ dmn[h] # "setup"
        /\ l \in {"stat", "normal"} => h \in Clients /\ h \notin stopper'
        /\ l = "launch" => h \notin stopper'
        /\ stopper' \subseteq Commands /\ stopper' \ {h} \subseteq stopper
  <2>1. CASE BeginClient(h)
    BY <1>1, <2>1 DEF BeginClient, Role
  <2>2. CASE BeginStart(h)
    BY <1>1, <2>2 DEF BeginStart, Role
  <2>3. CASE BeginStop(h)
    BY <1>1, <2>3 DEF BeginStop, Role
  <2>4. CASE Killed(h)
    BY <1>1, <2>4, DaemonAssumption DEF Killed, LaunchFailed, Role
  <2>5. QED
    BY <2>1, <2>2, <2>3, <2>4
<1>6. l \in Places /\ Empty \in Words /\ pc'[h] = l
  BY <1>1, <1>5 DEF Places, Words, Goto, ProcsOK
<1>7. Role(h)'
  BY <1>1, <1>2, <1>5, <1>6 DEF Role, device
<1>8. QED
  BY <1>2, <1>3, <1>4, <1>5, <1>6, <1>7, TypeMoves

(* Daemons answer, and those they answer have been waiting.                *)
LEMMA AnswerFacts ==
  ASSUME ProcsOK, NEW who, NEW a \in Words, Answer(who, a)
  PROVE  /\ got' \in [Procs -> Words]
         /\ \A h \in Procs : h \in who /\ Waits(h) => got'[h] = a
         /\ \A h \in Procs : ~(h \in who /\ Waits(h)) => got'[h] = got[h]
BY DEF Answer, ProcsOK

(* Daemons that serve, end and fail.                                       *)
LEMMA TypeDaemon ==
  ASSUME TypeInv, NEW d \in Procs,
         DaemonStep(d) \/ Timeout(d) \/ ForkFails(d) \/ DaemonKilled(d) \/ SetupFails(d)
  PROVE  TypeInv'
<1>1. ProcsOK /\ HostOK /\ DeviceOK /\ GhostsOK /\ stopper \subseteq Commands
  BY DEF TypeInv, ProcsOK
<1>2. /\ ctl[d] \in Seq(Command) /\ cli[d] \in Seq(Clients)
      /\ ctl[d] # <<>> => Tail(ctl[d]) \in Seq(Command)
      /\ cli[d] # <<>> => Tail(cli[d]) \in Seq(Clients)
      /\ <<>> \in Seq(Command) /\ <<>> \in Seq(Clients)
  BY <1>1, HeadTailProperties, EmptySeq DEF DeviceOK
<1>3. "eof" \in Words /\ "ok" \in Words /\ d \in Words
  BY DEF Words
<1>4. UNCHANGED <<stopper, host>>
  BY DEF DaemonStep, ServeControl, ServeClient, Unwind, Timeout, ForkFails, DaemonKilled, SetupFails, procs
<1>5. HostOK' /\ fd' = fd
  BY <1>1, <1>4 DEF HostOK, host
<1>6. GhostsOK'
  BY <1>1, GhostFacts
     DEF DaemonStep, ServeControl, ServeClient, Unwind, Timeout, ForkFails, DaemonKilled, SetupFails, GhostsOK, ghosts
<1>7. DeviceOK'
  <2>1. CASE ServeControl(d)
    BY <1>1, <1>2, <2>1 DEF ServeControl, DeviceOK
  <2>2. CASE ServeClient(d) \/ ForkFails(d)
    BY <1>1, <1>2, <2>2 DEF ServeClient, ForkFails, DeviceOK
  <2>3. CASE Timeout(d)
    BY <1>1, <2>3 DEF Timeout, DeviceOK
  <2>4. CASE Unwind(d) \/ DaemonKilled(d) \/ SetupFails(d)
    BY <1>1, <1>2, <2>4, ZenonT(30) DEF Unwind, DaemonKilled, SetupFails, Ended, DeviceOK
  <2>5. QED
    BY <2>1, <2>2, <2>3, <2>4 DEF DaemonStep
<1>8. got' \in [Procs -> Words] /\ \A h \in Procs : got'[h] # got[h] => Waits(h)
  <2>1. CASE Timeout(d)
    BY <1>1, <2>1 DEF Timeout, procs, ProcsOK
  <2>2. CASE ~Timeout(d)
    <3>1. PICK who \in SUBSET Procs, a \in Words : Answer(who, a) \/ got' = got
      <4>1. ctl[d] # <<>> => Head(ctl[d]).who \in Procs
        <5>1. ctl[d] # <<>> => Head(ctl[d]) \in Command
          BY <1>2, HeadTailProperties
        <5>2. QED
          BY <5>1 DEF Command
      <4>2. cli[d] # <<>> => Head(cli[d]) \in Procs
        BY <1>2, HeadTailProperties DEF Procs
      <4>3. Queued(d) \in SUBSET Procs
        <5>1. \A i \in 1 .. Len(ctl[d]) : ctl[d][i] \in Command
          BY <1>2, ElementOfSeq
        <5>2. \A i \in 1 .. Len(cli[d]) : cli[d][i] \in Clients
          BY <1>2, ElementOfSeq
        <5>3. QED
          BY <5>1, <5>2 DEF Queued, Command, Procs
      <4>4. QED
        BY <1>3, <2>2, <4>1, <4>2, <4>3
           DEF DaemonStep, ServeControl, ServeClient, Unwind, ForkFails, DaemonKilled, SetupFails
    <3>2. QED
      BY <1>1, <3>1, AnswerFacts DEF ProcsOK
  <2>3. QED
    BY <2>1, <2>2
<1>9. CASE SetupFails(d)
  <2>1. PICK l \in {"normal", "done"} : pc' = [pc EXCEPT ![d] = l] /\ (l = "normal" => d \in Clients)
    BY <1>9 DEF SetupFails
  <2>2. pc' \in [Procs -> Places] /\ pc'[d] = l /\ \A g \in Procs : g # d => pc'[g] = pc[g]
    BY <1>1, <2>1 DEF ProcsOK, Places
  <2>3. dmn'[d] = "exited" /\ (\A g \in Procs : g # d => dmn'[g] = dmn[g]) /\ pc[d] \in {"truncate", "write"}
    BY <1>1, <1>9 DEF SetupFails, Ended, DeviceOK
  <2>4. Role(d)'
    BY <1>4, <2>1, <2>2, <2>3 DEF TypeInv, Role
  <2>5. ASSUME NEW g \in Procs, g # d PROVE Role(g)'
    BY <1>4, <1>5, <1>8, <2>2, <2>3, <2>5 DEF TypeInv, Role, Waits
  <2>6. QED
    BY <1>1, <1>4, <1>5, <1>6, <1>7, <1>8, <2>2, <2>4, <2>5 DEF TypeInv, ProcsOK
<1>10. CASE ~SetupFails(d)
  <2>1. pc' = pc
    BY <1>10 DEF DaemonStep, ServeControl, ServeClient, Unwind, Timeout, ForkFails, DaemonKilled, procs
  <2>2. /\ dmn[d] # "setup" /\ dmn'[d] # "setup"
        /\ \A g \in Procs : g # d => dmn'[g] = dmn[g]
    BY <1>1, <1>10
       DEF DaemonStep, ServeControl, ServeClient, Unwind, Timeout, ForkFails, DaemonKilled, Ended, DeviceOK
  <2>3. ASSUME NEW g \in Procs PROVE Role(g)'
    BY <1>4, <1>5, <1>8, <2>1, <2>2 DEF TypeInv, Role, Waits
  <2>4. QED
    BY <1>1, <1>4, <1>5, <1>6, <1>7, <1>8, <2>1, <2>3 DEF TypeInv, ProcsOK
<1>11. QED
  BY <1>9, <1>10

(* Every step keeps the types and the roles.                               *)
LEMMA TypeNext ==
  ASSUME TypeInv, [Next]_dvars
  PROVE  TypeInv'
<1>1. CASE UNCHANGED dvars
  BY <1>1 DEF dvars, procs, host, device, ghosts, TypeInv, ProcsOK, HostOK, DeviceOK, GhostsOK, Role
<1>2. ASSUME NEW h \in Procs, ProcStep(h) PROVE TypeInv'
  BY <1>2, TypeClient, TypeAsks, TypeStarts DEF ProcStep
<1>3. QED
  BY <1>1, <1>2, TypeBegin, TypeDaemon DEF Next, Failure, Over

----------------------------------------------------------------------------
(* Connections that wait to be accepted.                                   *)

(* Process h waits for an answer, or has ended.                            *)
Pending(h) == Waits(h) /\ got[h] = "none"
Gone(h) == pc[h] \in {"normal", "done"}

(* A process waits in one connection at most, of one kind.                 *)
CtlOnce ==
  \A d, e \in Procs : \A i \in 1 .. Len(ctl[d]), j \in 1 .. Len(ctl[e]) :
    ctl[d][i].who = ctl[e][j].who => d = e /\ i = j
CliOnce ==
  \A d, e \in Procs : \A i \in 1 .. Len(cli[d]), j \in 1 .. Len(cli[e]) :
    cli[d][i] = cli[e][j] => d = e /\ i = j
OneKind ==
  \A d, e \in Procs : \A i \in 1 .. Len(ctl[d]), j \in 1 .. Len(cli[e]) : ctl[d][i].who # cli[e][j]

(* Whoever waits in a connection waits for what it asked for, unless it    *)
(* was killed.                                                             *)
CtlFor ==
  \A d \in Procs : \A i \in 1 .. Len(ctl[d]) :
    \/ Gone(ctl[d][i].who)
    \/ /\ got[ctl[d][i].who] = "none"
       /\ pc[ctl[d][i].who] = (IF ctl[d][i].cmd = "kill" THEN "stopping" ELSE "pinged")
CliFor ==
  \A d \in Procs : \A i \in 1 .. Len(cli[d]) :
    Gone(cli[d][i]) \/ (got[cli[d][i]] = "none" /\ pc[cli[d][i]] = "greet")

QueueInv == CtlOnce /\ CliOnce /\ OneKind /\ CtlFor /\ CliFor /\ NobodyStranded

(* At the start nobody waits.                                              *)
LEMMA QueueInit ==
  ASSUME Init
  PROVE  QueueInv
<1>1. \A d \in Procs : Len(ctl[d]) = 0 /\ Len(cli[d]) = 0 /\ pc[d] = "idle"
  BY DEF Init
<1>2. QED
  BY <1>1 DEF QueueInv, CtlOnce, CliOnce, OneKind, CtlFor, CliFor, NobodyStranded, Waits

(* Connections are made by processes.                                      *)
LEMMA QueueTypes ==
  ASSUME TypeInv, NEW d \in Procs
  PROVE  /\ Len(ctl[d]) \in Nat /\ Len(cli[d]) \in Nat
         /\ ctl[d] \in Seq(Command) /\ cli[d] \in Seq(Clients)
         /\ \A i \in 1 .. Len(ctl[d]) : ctl[d][i].who \in Procs /\ ctl[d][i].cmd \in {"ping", "kill"}
         /\ \A i \in 1 .. Len(cli[d]) : cli[d][i] \in Procs /\ cli[d][i] \in Clients
<1>1. ctl[d] \in Seq(Command) /\ cli[d] \in Seq(Clients)
  BY DEF TypeInv, DeviceOK
<1>2. \A i \in 1 .. Len(ctl[d]) : ctl[d][i] \in Command
  BY <1>1, ElementOfSeq
<1>3. \A i \in 1 .. Len(cli[d]) : cli[d][i] \in Clients
  BY <1>1, ElementOfSeq
<1>4. QED
  BY <1>1, <1>2, <1>3, LenProperties DEF Command, Procs

(* A process that is in no connection goes on, or one that is in one ends. *)
LEMMA QueueMoves ==
  ASSUME TypeInv, QueueInv, NEW h \in Procs, UNCHANGED <<ctl, cli>>,
         \A d \in Procs : Listening(d) => Listening(d)',
         \A g \in Procs : g # h => pc'[g] = pc[g] /\ got'[g] = got[g],
         ~Gone(h), ~Pending(h)', Pending(h) => Gone(h)'
  PROVE  QueueInv'
<1>1. CtlOnce' /\ CliOnce' /\ OneKind'
  BY DEF QueueInv, CtlOnce, CliOnce, OneKind
<1>2. CtlFor'
  <2>1. SUFFICES ASSUME NEW d \in Procs, NEW i \in 1 .. Len(ctl[d])
                 PROVE  \/ pc'[ctl[d][i].who] \in {"normal", "done"}
                        \/ /\ got'[ctl[d][i].who] = "none"
                           /\ pc'[ctl[d][i].who] = (IF ctl[d][i].cmd = "kill" THEN "stopping" ELSE "pinged")
    BY DEF CtlFor, Gone
  <2>2. ctl[d][i].who \in Procs
    BY QueueTypes
  <2>3. CASE ctl[d][i].who = h
    BY <2>2, <2>3 DEF QueueInv, CtlFor, Gone, Pending, Waits
  <2>4. CASE ctl[d][i].who # h
    BY <2>2, <2>4 DEF QueueInv, CtlFor, Gone
  <2>5. QED
    BY <2>3, <2>4
<1>3. CliFor'
  <2>1. SUFFICES ASSUME NEW d \in Procs, NEW i \in 1 .. Len(cli[d])
                 PROVE  pc'[cli[d][i]] \in {"normal", "done"} \/ (got'[cli[d][i]] = "none" /\ pc'[cli[d][i]] = "greet")
    BY DEF CliFor, Gone
  <2>2. cli[d][i] \in Procs
    BY QueueTypes
  <2>3. QED
    BY <2>2 DEF QueueInv, CliFor, Gone, Pending, Waits
<1>4. NobodyStranded'
  BY DEF QueueInv, NobodyStranded, Pending, Waits
<1>5. QED
  BY <1>1, <1>2, <1>3, <1>4 DEF QueueInv

(* A process that has not ended and waits for nothing is in no connection. *)
LEMMA NotQueued ==
  ASSUME TypeInv, QueueInv, NEW h \in Procs, ~Gone(h), ~Pending(h), NEW d \in Procs
  PROVE  /\ \A i \in 1 .. Len(ctl[d]) : ctl[d][i].who # h
         /\ \A i \in 1 .. Len(cli[d]) : cli[d][i] # h
<1>1. ASSUME NEW i \in 1 .. Len(ctl[d]), ctl[d][i].who = h PROVE FALSE
  <2>1. got[h] = "none" /\ pc[h] \in {"stopping", "pinged"}
    BY <1>1 DEF QueueInv, CtlFor, Gone
  <2>2. QED
    BY <2>1 DEF Pending, Waits
<1>2. ASSUME NEW i \in 1 .. Len(cli[d]), cli[d][i] = h PROVE FALSE
  BY <1>2 DEF QueueInv, CliFor, Gone, Pending, Waits
<1>3. QED
  BY <1>1, <1>2

(* It connects to a control socket and sends a command.                    *)
LEMMA QueueSend ==
  ASSUME TypeInv, QueueInv, NEW h \in Procs, SendCommand(h), Listening(got[h])
  PROVE  QueueInv'
<1>1. PICK l \in {"pinged", "stopping"} :
        /\ Goto(h, l, "none") /\ (l = "pinged" <=> pc[h] = "ping")
        /\ got[h] \in Procs /\ pc[h] \in {"ping", "kill"}
        /\ ctl' = [ctl EXCEPT ![got[h]] = Append(ctl[got[h]], [who |-> h, cmd |-> pc[h]])]
        /\ UNCHANGED <<dmn, cli>>
  BY DEF SendCommand, Listening
<1>2. /\ pc'[h] = l /\ got'[h] = "none"
      /\ \A g \in Procs : g # h => pc'[g] = pc[g] /\ got'[g] = got[g]
  BY <1>1 DEF Goto, TypeInv, ProcsOK
<1>3. ~Gone(h) /\ ~Pending(h)
  BY <1>1 DEF Gone, Pending, Waits
<1> DEFINE t == got[h]
           n == Len(ctl[t])
           c == [who |-> h, cmd |-> pc[h]]
<1>4. /\ t \in Procs /\ n \in Nat /\ Len(ctl'[t]) = n + 1 /\ ctl'[t][n + 1] = c
      /\ \A i \in 1 .. n : ctl'[t][i] = ctl[t][i]
      /\ \A d \in Procs : d # t => ctl'[d] = ctl[d]
  <2>1. c \in Command /\ ctl[t] \in Seq(Command) /\ t \in Procs
    BY <1>1, QueueTypes DEF Command
  <2>2. ctl'[t] = Append(ctl[t], c) /\ \A d \in Procs : d # t => ctl'[d] = ctl[d]
    BY <1>1 DEF TypeInv, DeviceOK
  <2>3. QED
    BY <2>1, <2>2, AppendProperties, LenProperties
<1> HIDE DEF t, n, c
<1>5. c.who = h /\ c.cmd = pc[h]
  BY DEF c
<1>6. \A d \in Procs : \A i \in 1 .. Len(ctl'[d]) :
        \/ d = t /\ i = n + 1 /\ ctl'[d][i] = c
        \/ i \in 1 .. Len(ctl[d]) /\ ctl'[d][i] = ctl[d][i] /\ ctl[d][i].who # h /\ ctl[d][i].who \in Procs
  <2>1. SUFFICES ASSUME NEW d \in Procs, NEW i \in 1 .. Len(ctl'[d])
                 PROVE  \/ d = t /\ i = n + 1 /\ ctl'[d][i] = c
                        \/ i \in 1 .. Len(ctl[d]) /\ ctl'[d][i] = ctl[d][i] /\ ctl[d][i].who # h /\ ctl[d][i].who \in Procs
    OBVIOUS
  <2>2. CASE d = t /\ i = n + 1
    BY <1>4, <2>2
  <2>3. CASE ~(d = t /\ i = n + 1)
    <3>1. i \in 1 .. Len(ctl[d]) /\ ctl'[d][i] = ctl[d][i]
      BY <1>4, <2>3 DEF n
    <3>2. QED
      BY <1>3, <3>1, NotQueued, QueueTypes
  <2>4. QED
    BY <2>2, <2>3
<1>7. CtlOnce'
  <2>1. SUFFICES ASSUME NEW d \in Procs, NEW e \in Procs, NEW i \in 1 .. Len(ctl'[d]), NEW j \in 1 .. Len(ctl'[e]),
                        ctl'[d][i].who = ctl'[e][j].who
                 PROVE  d = e /\ i = j
    BY DEF CtlOnce
  <2>2. CASE ctl'[d][i].who = h
    <3>1. d = t /\ i = n + 1
      BY <1>6, <2>2
    <3>2. ctl'[e][j].who = h
      BY <2>1, <2>2
    <3>3. e = t /\ j = n + 1
      BY <1>6, <3>2
    <3>4. QED
      BY <3>1, <3>3
  <2>3. CASE ctl'[d][i].who # h
    <3>1. i \in 1 .. Len(ctl[d]) /\ ctl'[d][i] = ctl[d][i]
      BY <1>5, <1>6, <2>3
    <3>2. j \in 1 .. Len(ctl[e]) /\ ctl'[e][j] = ctl[e][j]
      BY <1>5, <1>6, <2>1, <2>3
    <3>3. QED
      BY <2>1, <3>1, <3>2 DEF QueueInv, CtlOnce
  <2>4. QED
    BY <2>2, <2>3
<1>8. CliOnce' /\ OneKind'
  <2>1. CliOnce'
    BY <1>1 DEF QueueInv, CliOnce
  <2>2. \A e \in Procs : \A j \in 1 .. Len(cli[e]) : cli[e][j] # h
    BY <1>3, NotQueued
  <2>3. OneKind'
    <3>1. SUFFICES ASSUME NEW d \in Procs, NEW e \in Procs,
                          NEW i \in 1 .. Len(ctl'[d]), NEW j \in 1 .. Len(cli[e])
                   PROVE  ctl'[d][i].who # cli[e][j]
      BY <1>1 DEF OneKind
    <3>2. CASE ctl'[d][i] = c
      BY <1>5, <2>2, <3>2
    <3>3. CASE i \in 1 .. Len(ctl[d]) /\ ctl'[d][i] = ctl[d][i]
      <4>1. OneKind
        BY DEF QueueInv
      <4>2. QED
        BY ONLY <3>3, <4>1, d \in Procs, e \in Procs, j \in 1 .. Len(cli[e]) DEF OneKind
    <3>4. QED
      BY <1>6, <3>2, <3>3
  <2>4. QED
    BY <2>1, <2>3
<1>9. CtlFor'
  <2>1. SUFFICES ASSUME NEW d \in Procs, NEW i \in 1 .. Len(ctl'[d])
                 PROVE  \/ pc'[ctl'[d][i].who] \in {"normal", "done"}
                        \/ /\ got'[ctl'[d][i].who] = "none"
                           /\ pc'[ctl'[d][i].who] = (IF ctl'[d][i].cmd = "kill" THEN "stopping" ELSE "pinged")
    BY DEF CtlFor, Gone
  <2>2. CASE ctl'[d][i] = c
    BY <1>1, <1>2, <1>5, <2>2
  <2>3. CASE i \in 1 .. Len(ctl[d]) /\ ctl'[d][i] = ctl[d][i] /\ ctl[d][i].who # h /\ ctl[d][i].who \in Procs
    <3>1. pc'[ctl[d][i].who] = pc[ctl[d][i].who] /\ got'[ctl[d][i].who] = got[ctl[d][i].who]
      BY <1>2, <2>3
    <3>2. QED
      BY <2>3, <3>1 DEF QueueInv, CtlFor, Gone
  <2>4. QED
    BY <1>6, <2>2, <2>3
<1>10. CliFor'
  <2>1. SUFFICES ASSUME NEW d \in Procs, NEW i \in 1 .. Len(cli[d])
                 PROVE  pc'[cli[d][i]] \in {"normal", "done"} \/ (got'[cli[d][i]] = "none" /\ pc'[cli[d][i]] = "greet")
    BY <1>1 DEF CliFor, Gone
  <2>2. cli[d][i] \in Procs /\ cli[d][i] # h
    BY <1>3, NotQueued, QueueTypes
  <2>3. pc'[cli[d][i]] = pc[cli[d][i]] /\ got'[cli[d][i]] = got[cli[d][i]]
    BY <1>2, <2>2
  <2>4. QED
    BY <2>3 DEF QueueInv, CliFor, Gone
<1>11. NobodyStranded'
  <2>1. \A d \in Procs : Listening(d)' <=> Listening(d)
    BY <1>1 DEF Listening
  <2>2. \A d \in Procs : \A i \in 1 .. Len(ctl[d]) : i \in 1 .. Len(ctl'[d]) /\ ctl'[d][i] = ctl[d][i]
    BY <1>4 DEF n
  <2>3. n + 1 \in 1 .. Len(ctl'[t]) /\ ctl'[t][n + 1].who = h /\ Listening(t)
    BY <1>4, <1>5 DEF t
  <2>4. ASSUME NEW g \in Procs, Pending(g)'
        PROVE  \E d \in Procs :
                 /\ Listening(d)'
                 /\ \/ \E i \in 1 .. Len(cli'[d]) : cli'[d][i] = g
                    \/ \E i \in 1 .. Len(ctl'[d]) : ctl'[d][i].who = g
    <3>1. CASE g = h
      BY <1>4, <2>1, <2>3, <3>1
    <3>2. CASE g # h
      <4>1. Waits(g) /\ got[g] = "none"
        BY <1>2, <2>4, <3>2 DEF Pending, Waits
      <4>2. PICK d \in Procs : /\ Listening(d)
                              /\ \/ \E i \in 1 .. Len(cli[d]) : cli[d][i] = g
                                 \/ \E i \in 1 .. Len(ctl[d]) : ctl[d][i].who = g
        BY <4>1 DEF QueueInv, NobodyStranded
      <4>3. QED
        BY <1>1, <2>1, <2>2, <4>2
    <3>3. QED
      BY <3>1, <3>2
  <2>5. QED
    BY <2>4 DEF NobodyStranded, Pending
<1>12. QED
  BY <1>7, <1>8, <1>9, <1>10, <1>11 DEF QueueInv

(* A client connects to a listening socket.                                *)
LEMMA QueueDial ==
  ASSUME TypeInv, QueueInv, NEW h \in Procs, Dial(h), Listening(got[h]), Goto(h, "greet", "none"),
         cli' = [cli EXCEPT ![got[h]] = Append(cli[got[h]], h)], UNCHANGED <<dmn, ctl>>
  PROVE  QueueInv'
<1>1. pc[h] = "dial" /\ got[h] \in Procs /\ h \in Clients
  BY DEF Dial, TypeInv, Role
<1>2. /\ pc'[h] = "greet" /\ got'[h] = "none"
      /\ \A g \in Procs : g # h => pc'[g] = pc[g] /\ got'[g] = got[g]
  BY DEF Goto, TypeInv, ProcsOK
<1>3. ~Gone(h) /\ ~Pending(h)
  BY <1>1 DEF Gone, Pending, Waits
<1> DEFINE t == got[h]
           n == Len(cli[t])
<1>4. /\ t \in Procs /\ n \in Nat /\ Len(cli'[t]) = n + 1 /\ cli'[t][n + 1] = h
      /\ \A i \in 1 .. n : cli'[t][i] = cli[t][i]
      /\ \A d \in Procs : d # t => cli'[d] = cli[d]
  <2>1. cli[t] \in Seq(Clients) /\ t \in Procs
    BY <1>1, QueueTypes
  <2>2. cli'[t] = Append(cli[t], h) /\ \A d \in Procs : d # t => cli'[d] = cli[d]
    BY <1>1 DEF TypeInv, DeviceOK
  <2>3. QED
    BY <1>1, <2>1, <2>2, AppendProperties, LenProperties
<1> HIDE DEF t, n
<1>5. \A d \in Procs : \A i \in 1 .. Len(cli'[d]) :
        \/ d = t /\ i = n + 1 /\ cli'[d][i] = h
        \/ i \in 1 .. Len(cli[d]) /\ cli'[d][i] = cli[d][i] /\ cli[d][i] # h /\ cli[d][i] \in Procs
  <2>1. SUFFICES ASSUME NEW d \in Procs, NEW i \in 1 .. Len(cli'[d])
                 PROVE  \/ d = t /\ i = n + 1 /\ cli'[d][i] = h
                        \/ i \in 1 .. Len(cli[d]) /\ cli'[d][i] = cli[d][i] /\ cli[d][i] # h /\ cli[d][i] \in Procs
    OBVIOUS
  <2>2. CASE d = t /\ i = n + 1
    BY <1>4, <2>2
  <2>3. CASE ~(d = t /\ i = n + 1)
    <3>1. i \in 1 .. Len(cli[d]) /\ cli'[d][i] = cli[d][i]
      BY <1>4, <2>3 DEF n
    <3>2. QED
      BY <1>3, <3>1, NotQueued, QueueTypes
  <2>4. QED
    BY <2>2, <2>3
<1>6. CliOnce'
  <2>1. SUFFICES ASSUME NEW d \in Procs, NEW e \in Procs, NEW i \in 1 .. Len(cli'[d]), NEW j \in 1 .. Len(cli'[e]),
                        cli'[d][i] = cli'[e][j]
                 PROVE  d = e /\ i = j
    BY DEF CliOnce
  <2>2. CASE cli'[d][i] = h
    <3>1. d = t /\ i = n + 1
      BY <1>5, <2>2
    <3>2. e = t /\ j = n + 1
      BY <1>5, <2>1, <2>2
    <3>3. QED
      BY <3>1, <3>2
  <2>3. CASE cli'[d][i] # h
    <3>1. i \in 1 .. Len(cli[d]) /\ cli'[d][i] = cli[d][i]
      BY <1>5, <2>3
    <3>2. j \in 1 .. Len(cli[e]) /\ cli'[e][j] = cli[e][j]
      BY <1>5, <2>1, <2>3
    <3>3. QED
      BY <2>1, <3>1, <3>2 DEF QueueInv, CliOnce
  <2>4. QED
    BY <2>2, <2>3
<1>7. CtlOnce' /\ OneKind'
  <2>1. CtlOnce'
    BY DEF QueueInv, CtlOnce
  <2>2. \A e \in Procs : \A j \in 1 .. Len(ctl[e]) : ctl[e][j].who # h
    BY <1>3, NotQueued
  <2>3. OneKind'
    BY <1>5, <2>2 DEF QueueInv, OneKind
  <2>4. QED
    BY <2>1, <2>3
<1>8. CliFor'
  <2>1. SUFFICES ASSUME NEW d \in Procs, NEW i \in 1 .. Len(cli'[d])
                 PROVE  pc'[cli'[d][i]] \in {"normal", "done"} \/ (got'[cli'[d][i]] = "none" /\ pc'[cli'[d][i]] = "greet")
    BY DEF CliFor, Gone
  <2>2. CASE cli'[d][i] = h
    BY <1>2, <2>2
  <2>3. CASE i \in 1 .. Len(cli[d]) /\ cli'[d][i] = cli[d][i] /\ cli[d][i] # h /\ cli[d][i] \in Procs
    <3>1. pc'[cli[d][i]] = pc[cli[d][i]] /\ got'[cli[d][i]] = got[cli[d][i]]
      BY <1>2, <2>3
    <3>2. QED
      BY <2>3, <3>1 DEF QueueInv, CliFor, Gone
  <2>4. QED
    BY <1>5, <2>2, <2>3
<1>9. CtlFor'
  <2>1. SUFFICES ASSUME NEW d \in Procs, NEW i \in 1 .. Len(ctl[d])
                 PROVE  \/ pc'[ctl[d][i].who] \in {"normal", "done"}
                        \/ /\ got'[ctl[d][i].who] = "none"
                           /\ pc'[ctl[d][i].who] = (IF ctl[d][i].cmd = "kill" THEN "stopping" ELSE "pinged")
    BY DEF CtlFor, Gone
  <2>2. ctl[d][i].who \in Procs /\ ctl[d][i].who # h
    BY <1>3, NotQueued, QueueTypes
  <2>3. pc'[ctl[d][i].who] = pc[ctl[d][i].who] /\ got'[ctl[d][i].who] = got[ctl[d][i].who]
    BY <1>2, <2>2
  <2>4. QED
    BY <2>3 DEF QueueInv, CtlFor, Gone
<1>10. NobodyStranded'
  <2>1. \A d \in Procs : Listening(d)' <=> Listening(d)
    BY DEF Listening
  <2>2. \A d \in Procs : \A i \in 1 .. Len(cli[d]) : i \in 1 .. Len(cli'[d]) /\ cli'[d][i] = cli[d][i]
    BY <1>4 DEF n
  <2>3. n + 1 \in 1 .. Len(cli'[t]) /\ cli'[t][n + 1] = h /\ Listening(t)
    BY <1>4 DEF t
  <2>4. ASSUME NEW g \in Procs, Pending(g)'
        PROVE  \E d \in Procs :
                 /\ Listening(d)'
                 /\ \/ \E i \in 1 .. Len(cli'[d]) : cli'[d][i] = g
                    \/ \E i \in 1 .. Len(ctl'[d]) : ctl'[d][i].who = g
    <3>1. CASE g = h
      BY <1>4, <2>1, <2>3, <3>1
    <3>2. CASE g # h
      <4>1. Waits(g) /\ got[g] = "none"
        BY <1>2, <2>4, <3>2 DEF Pending, Waits
      <4>2. PICK d \in Procs : /\ Listening(d)
                              /\ \/ \E i \in 1 .. Len(cli[d]) : cli[d][i] = g
                                 \/ \E i \in 1 .. Len(ctl[d]) : ctl[d][i].who = g
        BY <4>1 DEF QueueInv, NobodyStranded
      <4>3. QED
        BY <2>1, <2>2, <4>2
    <3>3. QED
      BY <3>1, <3>2
  <2>5. QED
    BY <2>4 DEF NobodyStranded, Pending
<1>11. QED
  BY <1>6, <1>7, <1>8, <1>9, <1>10 DEF QueueInv

(* The same, at given places.                                              *)
LEMMA CtlOnceAt ==
  ASSUME QueueInv, NEW d \in Procs, NEW e \in Procs, NEW i \in 1 .. Len(ctl[d]), NEW j \in 1 .. Len(ctl[e]),
         ctl[d][i].who = ctl[e][j].who
  PROVE  d = e /\ i = j
BY DEF QueueInv, CtlOnce

(* And for the clients of daemons.                                         *)
LEMMA CliOnceAt ==
  ASSUME QueueInv, NEW d \in Procs, NEW e \in Procs, NEW i \in 1 .. Len(cli[d]), NEW j \in 1 .. Len(cli[e]),
         cli[d][i] = cli[e][j]
  PROVE  d = e /\ i = j
BY DEF QueueInv, CliOnce

(* Connections are taken out of the queues, and whoever was in one and is  *)
(* in none any more has been answered: what is common to accepting a       *)
(* connection and to closing the sockets.  What stays is found at another  *)
(* place: o[d] and p[d] are how far they have moved up.                    *)
LEMMA QueueLeave ==
  ASSUME TypeInv, TypeInv', QueueInv, NEW o \in [Procs -> Nat], NEW p \in [Procs -> Nat],
         \A d \in Procs : \A i \in 1 .. Len(ctl'[d]) :
            i + o[d] \in 1 .. Len(ctl[d]) /\ ctl'[d][i] = ctl[d][i + o[d]],
         \A d \in Procs : \A i \in 1 .. Len(cli'[d]) :
            i + p[d] \in 1 .. Len(cli[d]) /\ cli'[d][i] = cli[d][i + p[d]],
         \A g \in Procs : pc'[g] = pc[g] \/ (Gone(g)' /\ ~Waits(g)),
         \A g \in Procs : got'[g] = got[g] \/ got'[g] # "none",
         \A d \in Procs : \A i \in 1 .. Len(ctl'[d]) : got'[ctl'[d][i].who] = got[ctl'[d][i].who],
         \A d \in Procs : \A i \in 1 .. Len(cli'[d]) : got'[cli'[d][i]] = got[cli'[d][i]],
         \A d \in Procs : Listening(d) =>
            /\ \A i \in 1 .. Len(ctl[d]) : Pending(ctl[d][i].who) /\ got'[ctl[d][i].who] = "none" =>
                  Listening(d)' /\ \E j \in 1 .. Len(ctl'[d]) : ctl'[d][j].who = ctl[d][i].who
            /\ \A i \in 1 .. Len(cli[d]) : Pending(cli[d][i]) /\ got'[cli[d][i]] = "none" =>
                  Listening(d)' /\ \E j \in 1 .. Len(cli'[d]) : cli'[d][j] = cli[d][i]
  PROVE  QueueInv'
<1>1. CtlOnce'
  <2>1. SUFFICES ASSUME NEW d \in Procs, NEW e \in Procs, NEW i \in 1 .. Len(ctl'[d]), NEW j \in 1 .. Len(ctl'[e]),
                        ctl'[d][i].who = ctl'[e][j].who
                 PROVE  d = e /\ i = j
    BY DEF CtlOnce
  <2>2. PICK x \in 1 .. Len(ctl[d]) : x = i + o[d] /\ ctl'[d][i] = ctl[d][x]
    OBVIOUS
  <2>3. PICK y \in 1 .. Len(ctl[e]) : y = j + o[e] /\ ctl'[e][j] = ctl[e][y]
    OBVIOUS
  <2>4. ctl[d][x].who = ctl[e][y].who
    BY <2>1, <2>2, <2>3
  <2>5. d = e /\ x = y
    BY ONLY <2>4, CtlOnceAt, QueueInv, d \in Procs, e \in Procs, x \in 1 .. Len(ctl[d]), y \in 1 .. Len(ctl[e])
  <2>6. o[d] \in Nat
    OBVIOUS
  <2>7. QED
    BY ONLY <2>2, <2>3, <2>5, <2>6, i \in 1 .. Len(ctl'[d]), j \in 1 .. Len(ctl'[e])
<1>2. CliOnce'
  <2>1. SUFFICES ASSUME NEW d \in Procs, NEW e \in Procs, NEW i \in 1 .. Len(cli'[d]), NEW j \in 1 .. Len(cli'[e]),
                        cli'[d][i] = cli'[e][j]
                 PROVE  d = e /\ i = j
    BY DEF CliOnce
  <2>2. PICK x \in 1 .. Len(cli[d]) : x = i + p[d] /\ cli'[d][i] = cli[d][x]
    OBVIOUS
  <2>3. PICK y \in 1 .. Len(cli[e]) : y = j + p[e] /\ cli'[e][j] = cli[e][y]
    OBVIOUS
  <2>4. cli[d][x] = cli[e][y]
    BY <2>1, <2>2, <2>3
  <2>5. d = e /\ x = y
    BY ONLY <2>4, CliOnceAt, QueueInv, d \in Procs, e \in Procs, x \in 1 .. Len(cli[d]), y \in 1 .. Len(cli[e])
  <2>6. p[d] \in Nat
    OBVIOUS
  <2>7. QED
    BY ONLY <2>2, <2>3, <2>5, <2>6, i \in 1 .. Len(cli'[d]), j \in 1 .. Len(cli'[e])
<1>3. OneKind'
  <2>1. SUFFICES ASSUME NEW d \in Procs, NEW e \in Procs, NEW i \in 1 .. Len(ctl'[d]), NEW j \in 1 .. Len(cli'[e])
                 PROVE  ctl'[d][i].who # cli'[e][j]
    BY DEF OneKind
  <2>2. PICK x \in 1 .. Len(ctl[d]) : ctl'[d][i] = ctl[d][x]
    OBVIOUS
  <2>3. PICK y \in 1 .. Len(cli[e]) : cli'[e][j] = cli[e][y]
    OBVIOUS
  <2>4. QED
    BY <2>2, <2>3 DEF QueueInv, OneKind
<1>4. CtlFor'
  <2>1. SUFFICES ASSUME NEW d \in Procs, NEW i \in 1 .. Len(ctl'[d])
                 PROVE  \/ pc'[ctl'[d][i].who] \in {"normal", "done"}
                        \/ /\ got'[ctl'[d][i].who] = "none"
                           /\ pc'[ctl'[d][i].who] = (IF ctl'[d][i].cmd = "kill" THEN "stopping" ELSE "pinged")
    BY DEF CtlFor, Gone
  <2>2. PICK j \in 1 .. Len(ctl[d]) : ctl'[d][i] = ctl[d][j]
    OBVIOUS
  <2>3. ctl[d][j].who \in Procs
    BY QueueTypes
  <2>4. \/ pc[ctl[d][j].who] \in {"normal", "done"}
        \/ /\ got[ctl[d][j].who] = "none"
           /\ pc[ctl[d][j].who] = (IF ctl[d][j].cmd = "kill" THEN "stopping" ELSE "pinged")
    BY DEF QueueInv, CtlFor, Gone
  <2>5. got'[ctl[d][j].who] = got[ctl[d][j].who]
    <3>1. got'[ctl'[d][i].who] = got[ctl'[d][i].who]
      OBVIOUS
    <3>2. QED
      BY ONLY <2>2, <3>1
  <2>6. pc'[ctl[d][j].who] = pc[ctl[d][j].who] \/ pc'[ctl[d][j].who] \in {"normal", "done"}
    BY <2>3 DEF Gone
  <2>7. QED
    BY <2>2, <2>4, <2>5, <2>6
<1>5. CliFor'
  <2>1. SUFFICES ASSUME NEW d \in Procs, NEW i \in 1 .. Len(cli'[d])
                 PROVE  pc'[cli'[d][i]] \in {"normal", "done"} \/ (got'[cli'[d][i]] = "none" /\ pc'[cli'[d][i]] = "greet")
    BY DEF CliFor, Gone
  <2>2. PICK j \in 1 .. Len(cli[d]) : cli'[d][i] = cli[d][j]
    OBVIOUS
  <2>3. cli[d][j] \in Procs
    BY QueueTypes
  <2>4. pc[cli[d][j]] \in {"normal", "done"} \/ (got[cli[d][j]] = "none" /\ pc[cli[d][j]] = "greet")
    BY DEF QueueInv, CliFor, Gone
  <2>5. got'[cli[d][j]] = got[cli[d][j]]
    <3>1. got'[cli'[d][i]] = got[cli'[d][i]]
      OBVIOUS
    <3>2. QED
      BY ONLY <2>2, <3>1
  <2>6. pc'[cli[d][j]] = pc[cli[d][j]] \/ pc'[cli[d][j]] \in {"normal", "done"}
    BY <2>3 DEF Gone
  <2>7. QED
    BY <2>2, <2>4, <2>5, <2>6
<1>6. NobodyStranded'
  <2>1. SUFFICES ASSUME NEW g \in Procs, Pending(g)'
                 PROVE  \E d \in Procs :
                          /\ Listening(d)'
                          /\ \/ \E i \in 1 .. Len(cli'[d]) : cli'[d][i] = g
                             \/ \E i \in 1 .. Len(ctl'[d]) : ctl'[d][i].who = g
    BY DEF NobodyStranded, Pending
  <2>2. Waits(g) /\ got[g] = "none" /\ got'[g] = "none"
    BY <2>1 DEF Pending, Waits, Gone
  <2>3. PICK d \in Procs : /\ Listening(d)
                          /\ \/ \E i \in 1 .. Len(cli[d]) : cli[d][i] = g
                             \/ \E i \in 1 .. Len(ctl[d]) : ctl[d][i].who = g
    BY <2>2 DEF QueueInv, NobodyStranded
  <2>4. Pending(g)
    BY <2>2 DEF Pending
  <2>5. CASE \E i \in 1 .. Len(cli[d]) : cli[d][i] = g
    <3>1. PICK i \in 1 .. Len(cli[d]) : cli[d][i] = g
      BY <2>5
    <3>2. Pending(cli[d][i]) /\ got'[cli[d][i]] = "none"
      BY <2>2, <2>4, <3>1
    <3>3. Listening(d)' /\ \E j \in 1 .. Len(cli'[d]) : cli'[d][j] = cli[d][i]
      BY <2>3, <3>2
    <3>4. QED
      BY <3>1, <3>3
  <2>6. CASE \E i \in 1 .. Len(ctl[d]) : ctl[d][i].who = g
    <3>1. PICK i \in 1 .. Len(ctl[d]) : ctl[d][i].who = g
      BY <2>6
    <3>2. Pending(ctl[d][i].who) /\ got'[ctl[d][i].who] = "none"
      BY <2>2, <2>4, <3>1
    <3>3. Listening(d)' /\ \E j \in 1 .. Len(ctl'[d]) : ctl'[d][j].who = ctl[d][i].who
      BY <2>3, <3>2
    <3>4. QED
      BY <3>1, <3>3
  <2>7. QED
    BY <2>3, <2>5, <2>6
<1>7. QED
  BY <1>1, <1>2, <1>3, <1>4, <1>5, <1>6 DEF QueueInv

(* What is left of a sequence when its head is taken.                      *)
LEMMA TailFacts ==
  ASSUME NEW S, NEW s \in Seq(S), s # <<>>
  PROVE  /\ Len(s) \in Nat \ {0} /\ Head(s) = s[1]
         /\ Len(Tail(s)) = Len(s) - 1 /\ \A i \in 1 .. Len(Tail(s)) : Tail(s)[i] = s[i + 1]
BY EmptySeq, HeadTailProperties, LenProperties

(* handle_control_connection answers the first control connection.         *)
LEMMA QueueServeControl ==
  ASSUME TypeInv, TypeInv', QueueInv, NEW d \in Procs, ServeControl(d)
  PROVE  QueueInv'
<1> DEFINE c == ctl[d][1]
<1>1. /\ ctl[d] \in Seq(Command) /\ Len(ctl[d]) \in Nat \ {0} /\ Head(ctl[d]) = c
      /\ ctl'[d] = Tail(ctl[d]) /\ Len(ctl'[d]) = Len(ctl[d]) - 1
      /\ \A i \in 1 .. Len(ctl'[d]) : ctl'[d][i] = ctl[d][i + 1]
      /\ \A e \in Procs : e # d => ctl'[e] = ctl[e]
  <2>1. ctl[d] \in Seq(Command) /\ ctl[d] # <<>> /\ ctl'[d] = Tail(ctl[d]) /\ \A e \in Procs : e # d => ctl'[e] = ctl[e]
    BY QueueTypes DEF ServeControl, TypeInv, DeviceOK
  <2>2. QED
    BY <2>1, TailFacts
<1>2. PICK a \in {"ok", d} : Answer({c.who}, a)
  BY <1>1 DEF ServeControl
<1>3. a # "none" /\ a \in Words
  BY <1>2, DaemonAssumption DEF Words
<1>4. /\ \A g \in Procs : g = c.who /\ Waits(g) => got'[g] = a
      /\ \A g \in Procs : ~(g = c.who /\ Waits(g)) => got'[g] = got[g]
  BY <1>2, <1>3, AnswerFacts DEF TypeInv
<1>5. pc' = pc /\ cli' = cli /\ \A e \in Procs : Listening(e) => Listening(e)'
  BY DEF ServeControl, Listening, TypeInv, DeviceOK
<1> DEFINE o == [e \in Procs |-> IF e = d THEN 1 ELSE 0]
           p == [e \in Procs |-> 0]
<1>6. \A e \in Procs : \A i \in 1 .. Len(ctl'[e]) : i + o[e] \in 1 .. Len(ctl[e]) /\ ctl'[e][i] = ctl[e][i + o[e]]
  <2>1. ASSUME NEW e \in Procs, NEW i \in 1 .. Len(ctl'[e])
        PROVE  i + o[e] \in 1 .. Len(ctl[e]) /\ ctl'[e][i] = ctl[e][i + o[e]]
    <3>1. CASE e = d
      <4>1. o[e] = 1 /\ i \in 1 .. (Len(ctl[d]) - 1)
        BY <1>1, <3>1
      <4>2. i + 1 \in 1 .. Len(ctl[d]) /\ ctl'[d][i] = ctl[d][i + 1]
        BY <1>1, <3>1, <4>1
      <4>3. QED
        BY <3>1, <4>1, <4>2
    <3>2. CASE e # d
      BY <1>1, <3>2, QueueTypes
    <3>3. QED
      BY <3>1, <3>2
  <2>2. QED
    BY <2>1
<1>7. \A e \in Procs : \A i \in 1 .. Len(cli'[e]) : i + p[e] \in 1 .. Len(cli[e]) /\ cli'[e][i] = cli[e][i + p[e]]
  BY <1>5
<1>8. \A e \in Procs : \A i \in 1 .. Len(ctl'[e]) : ctl'[e][i].who \in Procs /\ ctl'[e][i].who # c.who
  <2>1. SUFFICES ASSUME NEW e \in Procs, NEW i \in 1 .. Len(ctl'[e])
                 PROVE  ctl'[e][i].who \in Procs /\ ctl'[e][i].who # c.who
    OBVIOUS
  <2>2. PICK x \in 1 .. Len(ctl[e]) : ctl'[e][i] = ctl[e][x] /\ (e = d => x # 1)
    BY <1>6
  <2>3. 1 \in 1 .. Len(ctl[d])
    BY <1>1
  <2>4. ctl[e][x].who # ctl[d][1].who
    BY <2>2, <2>3 DEF QueueInv, CtlOnce
  <2>5. QED
    BY <2>2, <2>4, QueueTypes
<1>9. \A e \in Procs : \A i \in 1 .. Len(ctl'[e]) : got'[ctl'[e][i].who] = got[ctl'[e][i].who]
  BY <1>4, <1>8
<1>10. \A e \in Procs : \A i \in 1 .. Len(cli'[e]) : got'[cli'[e][i]] = got[cli'[e][i]]
  <2>1. \A e \in Procs : \A i \in 1 .. Len(cli[e]) : cli[e][i] \in Procs /\ cli[e][i] # c.who
    BY <1>1, QueueTypes DEF QueueInv, OneKind
  <2>2. QED
    BY <1>4, <1>5, <2>1
<1>11. ASSUME NEW e \in Procs, Listening(e)
       PROVE  /\ \A i \in 1 .. Len(ctl[e]) : Pending(ctl[e][i].who) /\ got'[ctl[e][i].who] = "none" =>
                    Listening(e)' /\ \E j \in 1 .. Len(ctl'[e]) : ctl'[e][j].who = ctl[e][i].who
              /\ \A i \in 1 .. Len(cli[e]) : Pending(cli[e][i]) /\ got'[cli[e][i]] = "none" =>
                    Listening(e)' /\ \E j \in 1 .. Len(cli'[e]) : cli'[e][j] = cli[e][i]
  <2>1. ASSUME NEW i \in 1 .. Len(ctl[e]), Pending(ctl[e][i].who), got'[ctl[e][i].who] = "none"
        PROVE  \E j \in 1 .. Len(ctl'[e]) : ctl'[e][j].who = ctl[e][i].who
    <3>1. ctl[e][i].who \in Procs
      BY QueueTypes
    <3>2. ctl[e][i].who # c.who
      BY <1>3, <1>4, <2>1, <3>1 DEF Pending
    <3>3. CASE e # d
      BY <1>1, <3>3
    <3>4. CASE e = d
      <4>1. i # 1 /\ i - 1 \in 1 .. Len(ctl'[d]) /\ ctl'[d][i - 1] = ctl[d][i]
        BY <1>1, <3>2, <3>4
      <4>2. QED
        BY <3>4, <4>1
    <3>5. QED
      BY <3>3, <3>4
  <2>2. QED
    BY <1>5, <1>11, <2>1
<1> o \in [Procs -> Nat] /\ p \in [Procs -> Nat]
  OBVIOUS
<1> HIDE DEF o, p, c
<1>12. \A g \in Procs : got'[g] = got[g] \/ got'[g] # "none"
  BY <1>3, <1>4
<1>13. QED
  BY <1>5, <1>6, <1>7, <1>9, <1>10, <1>11, <1>12, QueueLeave

(* The first client is accepted, and gets a greeting or end of file.       *)
LEMMA QueueServeClient ==
  ASSUME TypeInv, TypeInv', QueueInv, NEW d \in Procs, cli[d] # <<>>, NEW a \in {"eof", d},
         Answer({Head(cli[d])}, a), cli' = [cli EXCEPT ![d] = Tail(cli[d])], UNCHANGED <<pc, dmn, ctl>>
  PROVE  QueueInv'
<1> DEFINE c == cli[d][1]
<1>1. /\ cli[d] \in Seq(Clients) /\ Len(cli[d]) \in Nat \ {0} /\ Head(cli[d]) = c
      /\ cli'[d] = Tail(cli[d]) /\ Len(cli'[d]) = Len(cli[d]) - 1
      /\ \A i \in 1 .. Len(cli'[d]) : cli'[d][i] = cli[d][i + 1]
      /\ \A e \in Procs : e # d => cli'[e] = cli[e]
  <2>1. cli[d] \in Seq(Clients) /\ cli[d] # <<>> /\ cli'[d] = Tail(cli[d]) /\ \A e \in Procs : e # d => cli'[e] = cli[e]
    BY QueueTypes DEF TypeInv, DeviceOK
  <2>2. /\ Len(cli[d]) \in Nat \ {0} /\ Head(cli[d]) = c /\ Len(Tail(cli[d])) = Len(cli[d]) - 1
        /\ \A i \in 1 .. Len(Tail(cli[d])) : Tail(cli[d])[i] = cli[d][i + 1]
    BY <2>1, TailFacts
  <2>3. QED
    BY <2>1, <2>2
<1>2. Answer({c}, a)
  BY <1>1
<1>3. a # "none" /\ a \in Words
  BY DaemonAssumption DEF Words
<1>4. /\ \A g \in Procs : g = c /\ Waits(g) => got'[g] = a
      /\ \A g \in Procs : ~(g = c /\ Waits(g)) => got'[g] = got[g]
  BY <1>2, <1>3, AnswerFacts DEF TypeInv
<1>5. \A e \in Procs : Listening(e) => Listening(e)'
  BY DEF Listening
<1> DEFINE o == [e \in Procs |-> 0]
           p == [e \in Procs |-> IF e = d THEN 1 ELSE 0]
<1>6. \A e \in Procs : \A i \in 1 .. Len(cli'[e]) : i + p[e] \in 1 .. Len(cli[e]) /\ cli'[e][i] = cli[e][i + p[e]]
  <2>1. ASSUME NEW e \in Procs, NEW i \in 1 .. Len(cli'[e])
        PROVE  i + p[e] \in 1 .. Len(cli[e]) /\ cli'[e][i] = cli[e][i + p[e]]
    <3>1. CASE e = d
      <4>1. p[e] = 1 /\ i \in 1 .. (Len(cli[d]) - 1)
        BY <1>1, <3>1
      <4>2. i + 1 \in 1 .. Len(cli[d]) /\ cli'[d][i] = cli[d][i + 1]
        BY <1>1, <3>1, <4>1
      <4>3. QED
        BY <3>1, <4>1, <4>2
    <3>2. CASE e # d
      BY <1>1, <3>2, QueueTypes
    <3>3. QED
      BY <3>1, <3>2
  <2>2. QED
    BY <2>1
<1>7. \A e \in Procs : \A i \in 1 .. Len(ctl'[e]) : i + o[e] \in 1 .. Len(ctl[e]) /\ ctl'[e][i] = ctl[e][i + o[e]]
  OBVIOUS
<1>8. \A e \in Procs : \A i \in 1 .. Len(cli'[e]) : cli'[e][i] \in Procs /\ cli'[e][i] # c
  <2>1. SUFFICES ASSUME NEW e \in Procs, NEW i \in 1 .. Len(cli'[e])
                 PROVE  cli'[e][i] \in Procs /\ cli'[e][i] # c
    OBVIOUS
  <2>2. PICK x \in 1 .. Len(cli[e]) : cli'[e][i] = cli[e][x] /\ (e = d => x # 1)
    BY <1>6
  <2>3. 1 \in 1 .. Len(cli[d])
    BY <1>1
  <2>4. cli[e][x] # cli[d][1]
    BY <2>2, <2>3 DEF QueueInv, CliOnce
  <2>5. QED
    BY <2>2, <2>4, QueueTypes
<1>9. \A e \in Procs : \A i \in 1 .. Len(cli'[e]) : got'[cli'[e][i]] = got[cli'[e][i]]
  BY <1>4, <1>8
<1>10. \A e \in Procs : \A i \in 1 .. Len(ctl'[e]) : got'[ctl'[e][i].who] = got[ctl'[e][i].who]
  <2>1. \A e \in Procs : \A i \in 1 .. Len(ctl[e]) : ctl[e][i].who \in Procs /\ ctl[e][i].who # c
    BY <1>1, QueueTypes DEF QueueInv, OneKind
  <2>2. QED
    BY <1>4, <2>1
<1>11. ASSUME NEW e \in Procs, Listening(e)
       PROVE  /\ \A i \in 1 .. Len(ctl[e]) : Pending(ctl[e][i].who) /\ got'[ctl[e][i].who] = "none" =>
                    Listening(e)' /\ \E j \in 1 .. Len(ctl'[e]) : ctl'[e][j].who = ctl[e][i].who
              /\ \A i \in 1 .. Len(cli[e]) : Pending(cli[e][i]) /\ got'[cli[e][i]] = "none" =>
                    Listening(e)' /\ \E j \in 1 .. Len(cli'[e]) : cli'[e][j] = cli[e][i]
  <2>1. ASSUME NEW i \in 1 .. Len(cli[e]), Pending(cli[e][i]), got'[cli[e][i]] = "none"
        PROVE  \E j \in 1 .. Len(cli'[e]) : cli'[e][j] = cli[e][i]
    <3>1. cli[e][i] \in Procs
      BY QueueTypes
    <3>2. cli[e][i] # c
      BY <1>3, <1>4, <2>1, <3>1 DEF Pending
    <3>3. CASE e # d
      BY <1>1, <3>3
    <3>4. CASE e = d
      <4>1. i # 1 /\ i - 1 \in 1 .. Len(cli'[d]) /\ cli'[d][i - 1] = cli[d][i]
        BY <1>1, <3>2, <3>4
      <4>2. QED
        BY <3>4, <4>1
    <3>5. QED
      BY <3>3, <3>4
  <2>2. QED
    BY <1>5, <1>11, <2>1
<1> o \in [Procs -> Nat] /\ p \in [Procs -> Nat]
  OBVIOUS
<1> HIDE DEF o, p, c
<1>12. \A g \in Procs : got'[g] = got[g] \/ got'[g] # "none"
  BY <1>3, <1>4
<1>13. QED
  BY <1>6, <1>7, <1>9, <1>10, <1>11, <1>12, QueueLeave

(* A daemon's sockets are closed, and whoever waited reads end of file.    *)
LEMMA QueueEnds ==
  ASSUME TypeInv, TypeInv', QueueInv, NEW d \in Procs, Ended(d), Answer(Queued(d), "eof"),
         \A g \in Procs : pc'[g] = pc[g] \/ (Gone(g)' /\ ~Waits(g))
  PROVE  QueueInv'
<1>1. /\ ctl'[d] = <<>> /\ cli'[d] = <<>> /\ Len(ctl'[d]) = 0 /\ Len(cli'[d]) = 0
      /\ \A e \in Procs : e # d => ctl'[e] = ctl[e] /\ cli'[e] = cli[e] /\ dmn'[e] = dmn[e]
  BY DEF Ended, TypeInv, DeviceOK
<1>2. "eof" \in Words /\ "eof" # "none"
  BY DEF Words
<1>3. /\ \A g \in Procs : g \in Queued(d) /\ Waits(g) => got'[g] = "eof"
      /\ \A g \in Procs : ~(g \in Queued(d) /\ Waits(g)) => got'[g] = got[g]
  BY <1>2, AnswerFacts DEF TypeInv
<1> DEFINE o == [e \in Procs |-> 0]
<1>4. \A e \in Procs : \A i \in 1 .. Len(ctl'[e]) : i + o[e] \in 1 .. Len(ctl[e]) /\ ctl'[e][i] = ctl[e][i + o[e]]
  BY <1>1
<1>5. \A e \in Procs : \A i \in 1 .. Len(cli'[e]) : i + o[e] \in 1 .. Len(cli[e]) /\ cli'[e][i] = cli[e][i + o[e]]
  BY <1>1
<1>6. \A e \in Procs : \A i \in 1 .. Len(ctl'[e]) :
        e # d /\ ctl'[e] = ctl[e] /\ ctl[e][i].who \in Procs /\ ctl[e][i].who \notin Queued(d)
  <2>1. SUFFICES ASSUME NEW e \in Procs, NEW i \in 1 .. Len(ctl'[e])
                 PROVE  e # d /\ ctl'[e] = ctl[e] /\ ctl[e][i].who \in Procs /\ ctl[e][i].who \notin Queued(d)
    OBVIOUS
  <2>2. e # d /\ ctl'[e] = ctl[e] /\ i \in 1 .. Len(ctl[e])
    BY <1>1
  <2>3. \A j \in 1 .. Len(ctl[d]) : ctl[d][j].who # ctl[e][i].who
    BY <2>2, CtlOnceAt
  <2>4. \A j \in 1 .. Len(cli[d]) : cli[d][j] # ctl[e][i].who
    BY <2>2 DEF QueueInv, OneKind
  <2>5. QED
    BY <2>2, <2>3, <2>4, QueueTypes DEF Queued
<1>7. \A e \in Procs : \A i \in 1 .. Len(cli'[e]) :
        e # d /\ cli'[e] = cli[e] /\ cli[e][i] \in Procs /\ cli[e][i] \notin Queued(d)
  <2>1. SUFFICES ASSUME NEW e \in Procs, NEW i \in 1 .. Len(cli'[e])
                 PROVE  e # d /\ cli'[e] = cli[e] /\ cli[e][i] \in Procs /\ cli[e][i] \notin Queued(d)
    OBVIOUS
  <2>2. e # d /\ cli'[e] = cli[e] /\ i \in 1 .. Len(cli[e])
    BY <1>1
  <2>3. \A j \in 1 .. Len(ctl[d]) : ctl[d][j].who # cli[e][i]
    BY <2>2 DEF QueueInv, OneKind
  <2>4. \A j \in 1 .. Len(cli[d]) : cli[d][j] # cli[e][i]
    BY <2>2 DEF QueueInv, CliOnce
  <2>5. QED
    BY <2>2, <2>3, <2>4, QueueTypes DEF Queued
<1>8. \A e \in Procs : \A i \in 1 .. Len(ctl'[e]) : got'[ctl'[e][i].who] = got[ctl'[e][i].who]
  BY <1>3, <1>6
<1>9. \A e \in Procs : \A i \in 1 .. Len(cli'[e]) : got'[cli'[e][i]] = got[cli'[e][i]]
  BY <1>3, <1>7
<1>10. ASSUME NEW e \in Procs, Listening(e)
       PROVE  /\ \A i \in 1 .. Len(ctl[e]) : Pending(ctl[e][i].who) /\ got'[ctl[e][i].who] = "none" =>
                    Listening(e)' /\ \E j \in 1 .. Len(ctl'[e]) : ctl'[e][j].who = ctl[e][i].who
              /\ \A i \in 1 .. Len(cli[e]) : Pending(cli[e][i]) /\ got'[cli[e][i]] = "none" =>
                    Listening(e)' /\ \E j \in 1 .. Len(cli'[e]) : cli'[e][j] = cli[e][i]
  <2>1. CASE e # d
    BY <1>1, <1>10, <2>1 DEF Listening
  <2>2. CASE e = d
    <3>1. \A i \in 1 .. Len(ctl[d]) : ctl[d][i].who \in Queued(d) /\ ctl[d][i].who \in Procs
      BY QueueTypes DEF Queued
    <3>2. \A i \in 1 .. Len(cli[d]) : cli[d][i] \in Queued(d) /\ cli[d][i] \in Procs
      BY QueueTypes DEF Queued
    <3>3. QED
      BY <1>2, <1>3, <2>2, <3>1, <3>2 DEF Pending
  <2>3. QED
    BY <2>1, <2>2
<1>11. \A g \in Procs : got'[g] = got[g] \/ got'[g] # "none"
  BY <1>2, <1>3
<1> o \in [Procs -> Nat]
  OBVIOUS
<1> HIDE DEF o
<1>12. QED
  BY <1>4, <1>5, <1>8, <1>9, <1>10, <1>11, QueueLeave

(* Every step leaves whoever waits where it will be answered.              *)
LEMMA QueueNext ==
  ASSUME TypeInv, QueueInv, [Next]_dvars
  PROVE  QueueInv'
<1>1. TypeInv'
  BY TypeNext
<1>2. pc \in [Procs -> Places] /\ got \in [Procs -> Words] /\ "none" \notin Procs /\ Empty \notin Procs
  BY DaemonAssumption DEF TypeInv, ProcsOK
<1>3. CASE UNCHANGED dvars
  BY <1>3 DEF dvars, procs, device, QueueInv, CtlOnce, CliOnce, OneKind, CtlFor, CliFor, NobodyStranded, Gone, Waits, Listening
<1>4. ASSUME NEW h \in Procs, NEW l, NEW v, Goto(h, l, v), UNCHANGED <<ctl, cli>>,
             \A d \in Procs : dmn'[d] = dmn[d] \/ dmn'[d] \in {"setup", "serve"},
             pc[h] \notin {"normal", "done"}, l \notin {"pinged", "stopping", "greet"},
             pc[h] \in {"pinged", "stopping", "greet"} => got[h] # "none" \/ l \in {"normal", "done"}
      PROVE  QueueInv'
  <2>1. pc'[h] = l /\ \A g \in Procs : g # h => pc'[g] = pc[g] /\ got'[g] = got[g]
    BY <1>2, <1>4 DEF Goto
  <2>2. ~Gone(h) /\ ~Pending(h)' /\ (Pending(h) => Gone(h)')
    BY <1>4, <2>1 DEF Gone, Pending, Waits
  <2>3. \A d \in Procs : Listening(d) => Listening(d)'
    BY <1>4 DEF Listening
  <2>4. QED
    BY <1>4, <2>1, <2>2, <2>3, QueueMoves
<1>5. ASSUME NEW h \in Procs, NEW u \in BOOLEAN, ConnectFails(h, u), pc[h] \in {"stat", "open", "read", "dial", "greet"},
             pc[h] = "greet" => got[h] # "none"
      PROVE  QueueInv'
  <2>1. PICK l \in {"launch", "normal"} : Goto(h, l, Empty) /\ UNCHANGED device
    BY <1>5 DEF ConnectFails
  <2>2. QED
    BY <1>4, <1>5, <2>1 DEF device
<1>6. ASSUME NEW h \in Procs, ProcStep(h) PROVE QueueInv'
  <2>1. CASE \E u \in BOOLEAN : /\ ConnectFails(h, u) /\ pc[h] \in {"stat", "open", "read", "dial", "greet"}
                                /\ (pc[h] = "greet" => got[h] # "none")
    BY <1>5, <2>1
  <2> SUFFICES ASSUME ~\E u \in BOOLEAN : /\ ConnectFails(h, u) /\ pc[h] \in {"stat", "open", "read", "dial", "greet"}
                                          /\ (pc[h] = "greet" => got[h] # "none")
               PROVE  QueueInv'
    BY <2>1
  <2>2. CASE StatCache(h) \/ CacheStale(h)
    BY <1>4, <2>2 DEF StatCache, CacheStale, device
  <2>3. CASE OpenCache(h)
    BY <1>4, <2>3 DEF OpenCache, device
  <2>4. CASE ReadCache(h)
    <3>1. pc[h] = "read" /\ UNCHANGED device /\ Goto(h, "dial", content[fd[h]])
      BY <2>4 DEF ReadCache
    <3>2. QED
      BY <1>4, <3>1 DEF device
  <2>5. CASE Dial(h)
    BY <2>5, QueueDial DEF Dial
  <2>6. CASE Greeted(h)
    BY <1>4, <2>6 DEF Greeted, device
  <2>7. CASE OpenNewCache(h)
    BY <1>4, <2>7 DEF OpenNewCache, device
  <2>8. CASE WriteCache(h)
    BY <1>4, <2>8 DEF WriteCache, device
  <2>9. CASE ReadName(h)
    BY <1>4, <2>9 DEF ReadName, Unanswered, NoReuse, AfterStop, device
  <2>10. CASE SendCommand(h)
    <3>1. CASE Listening(got[h])
      BY <2>10, <3>1, QueueSend
    <3>2. CASE ~Listening(got[h])
      BY <1>4, <2>10, <3>2 DEF SendCommand, Unanswered, NoReuse, AfterStop
    <3>3. QED
      BY <3>1, <3>2
  <2>11. CASE Pong(h)
    BY <1>4, <2>11 DEF Pong, Launched, NoReuse, device
  <2>12. CASE StopReply(h)
    BY <1>4, <2>12 DEF StopReply, AfterStop, device
  <2>13. CASE Listen(h)
    <3>1. \A d \in Procs : dmn'[d] = dmn[d] \/ dmn'[d] \in {"setup", "serve"}
      BY <2>13 DEF Listen, TypeInv, DeviceOK
    <3>2. QED
      BY <1>4, <2>13, <3>1 DEF Listen
  <2>14. CASE TruncateName(h)
    BY <1>4, <2>14 DEF TruncateName
  <2>15. CASE WriteName(h)
    <3>1. \A d \in Procs : dmn'[d] = dmn[d] \/ dmn'[d] \in {"setup", "serve"}
      BY <2>15 DEF WriteName, TypeInv, DeviceOK
    <3>2. QED
      BY <1>4, <2>15, <3>1 DEF WriteName, Launched
  <2>16. QED
    BY <1>6, <2>2, <2>3, <2>4, <2>5, <2>6, <2>7, <2>8, <2>9, <2>10, <2>11, <2>12, <2>13, <2>14, <2>15 DEF ProcStep
<1>7. ASSUME NEW h \in Procs, BeginClient(h) \/ BeginStart(h) \/ BeginStop(h) \/ Killed(h) PROVE QueueInv'
  BY <1>4, <1>7 DEF BeginClient, BeginStart, BeginStop, Killed, LaunchFailed, device
<1>8. ASSUME NEW d \in Procs, DaemonStep(d) \/ Timeout(d) \/ ForkFails(d) \/ DaemonKilled(d) \/ SetupFails(d)
      PROVE  QueueInv'
  <2>1. CASE ServeControl(d)
    BY <1>1, <2>1, QueueServeControl
  <2>2. CASE ServeClient(d)
    BY <1>1, <2>2, QueueServeClient DEF ServeClient
  <2>3. CASE ForkFails(d)
    BY <1>1, <2>3, QueueServeClient DEF ForkFails
  <2>4. CASE Unwind(d) \/ DaemonKilled(d)
    BY <1>1, <2>4, QueueEnds DEF Unwind, DaemonKilled
  <2>5. CASE SetupFails(d)
    <3>1. \A g \in Procs : pc'[g] = pc[g] \/ (Gone(g)' /\ ~Waits(g))
      BY <1>2, <2>5 DEF SetupFails, Gone, Waits
    <3>2. QED
      BY <1>1, <2>5, <3>1, QueueEnds DEF SetupFails
  <2>6. CASE Timeout(d)
    <3>1. \A e \in Procs : Listening(e) => Listening(e)'
      BY <2>6 DEF Timeout, Listening, TypeInv, DeviceOK
    <3>2. UNCHANGED <<pc, got, ctl, cli>>
      BY <2>6 DEF Timeout, procs
    <3>3. NobodyStranded'
      BY <3>1, <3>2 DEF QueueInv, NobodyStranded, Waits
    <3>4. QED
      BY <3>2, <3>3 DEF QueueInv, CtlOnce, CliOnce, OneKind, CtlFor, CliFor, Gone
  <2>7. QED
    BY <1>8, <2>1, <2>2, <2>3, <2>4, <2>5, <2>6 DEF DaemonStep
<1>9. QED
  BY <1>3, <1>6, <1>7, <1>8 DEF Next, Failure, Over

(* Whoever waits for a daemon's answer waits where it will be answered or  *)
(* read end of file: no client of connect_fb_adb_daemon, and no            *)
(* start-daemon, hangs because a daemon was replaced, timed out, was       *)
(* killed or failed to fork.                                               *)
THEOREM WaitersAreServed == Spec => []NobodyStranded
<1>1. Init => TypeInv /\ QueueInv
  BY TypeInit, QueueInit
<1>2. TypeInv /\ QueueInv /\ [Next]_dvars => (TypeInv /\ QueueInv)'
  BY TypeNext, QueueNext
<1>3. QueueInv => NobodyStranded
  BY DEF QueueInv
<1>4. QED
  BY <1>1, <1>2, <1>3, PTL DEF Spec

----------------------------------------------------------------------------
(* One daemon.                                                             *)

(* A launch that has found that no daemon serves.                          *)
Cleared(h) ==
  pc[h] \in {"listen", "truncate", "write"} \/ (pc[h] = "stopping" /\ got[h] # "none")

(* As long as no two launches overlap: the daemon that serves is the one   *)
(* the device's file names; a launch that is about to stop a daemon has    *)
(* read its name; one that waits for it to stop waits in its queue; and    *)
(* one that goes on from there goes on alone.                              *)
AloneLaunching == \A g, h \in Procs : Launching(g) /\ Launching(h) => g = h
Named == \A d \in Procs : dmn[d] = "serve" => file = d
StopsIt ==
  \A h \in Procs : Launching(h) =>
    /\ Cleared(h) => \A d \in Procs : dmn[d] # "serve"
    /\ pc[h] = "kill" => \A d \in Procs : dmn[d] = "serve" => got[h] = d
    /\ pc[h] = "stopping" /\ got[h] = "none" =>
         \A d \in Procs : dmn[d] = "serve" => \E i \in 1 .. Len(ctl[d]) : ctl[d][i].who = h

LaunchInv == ~overlap => AloneLaunching /\ Named /\ StopsIt

(* At the start there is no daemon and no launch.                          *)
LEMMA LaunchInit ==
  ASSUME Init
  PROVE  LaunchInv
BY DEF Init, LaunchInv, AloneLaunching, Named, StopsIt, Launching

(* Overlaps are not forgotten.                                             *)
LEMMA OverlapStays ==
  ASSUME [Next]_dvars
  PROVE  ~overlap' => ~overlap
<1>1. CASE UNCHANGED overlap
  BY <1>1, Zenon
<1>2. CASE \E h \in Procs : BeginLaunch(h)
  BY <1>2, Zenon DEF BeginLaunch
<1>3. (UNCHANGED overlap) \/ \E h \in Procs : BeginLaunch(h)
  <2>1. ASSUME NEW h \in Procs, ProcStep(h) PROVE (UNCHANGED overlap) \/ BeginLaunch(h)
    BY <2>1 DEF ProcStep, StatCache, CacheStale, OpenCache, ReadCache, Dial, Greeted, OpenNewCache, WriteCache,
       ReadName, SendCommand, Pong, StopReply, Listen, TruncateName, WriteName, ConnectFails, ghosts
  <2>2. ASSUME NEW h \in Procs, DaemonStep(h) \/ Timeout(h) \/ Failure(h) PROVE UNCHANGED overlap
    BY <2>2 DEF DaemonStep, ServeControl, ServeClient, Unwind, Timeout, Failure, ForkFails, DaemonKilled, SetupFails,
       Killed, ghosts
  <2>3. ASSUME NEW h \in Procs, BeginClient(h) \/ BeginStart(h) \/ BeginStop(h)
        PROVE  (UNCHANGED overlap) \/ BeginLaunch(h)
    BY <2>3 DEF BeginClient, BeginStart, BeginStop
  <2>4. UNCHANGED dvars => UNCHANGED overlap
    BY DEF dvars, ghosts
  <2>5. QED
    BY <2>1, <2>2, <2>3, <2>4 DEF Next, Over
<1>4. QED
  BY <1>1, <1>2, <1>3

(* A launch goes on, or a process begins one while nobody else does: the   *)
(* daemons, their queues and the file are as they were.                    *)
LEMMA LaunchMoves ==
  ASSUME TypeInv, AloneLaunching, Named, StopsIt, UNCHANGED device, NEW h \in Procs,
         NEW l \in Places, NEW v \in Words, Goto(h, l, v), stopper \subseteq stopper', stopper' \ {h} \subseteq stopper,
         Launching(h)' => Launching(h) \/ \A g \in Procs \ {h} : ~Launching(g),
         Launching(h)' => /\ Cleared(h)' => \A d \in Procs : dmn[d] # "serve"
                          /\ l = "kill" => \A d \in Procs : dmn[d] = "serve" => v = d
                          /\ ~(l = "stopping" /\ v = "none")
  PROVE  AloneLaunching' /\ Named' /\ StopsIt'
<1>1. pc'[h] = l /\ got'[h] = v /\ \A g \in Procs : g # h => pc'[g] = pc[g] /\ got'[g] = got[g]
  BY GotoFacts DEF TypeInv, ProcsOK, Goto
<1>2. \A g \in Procs : g # h => (Launching(g)' <=> Launching(g)) /\ (Cleared(g)' <=> Cleared(g))
  BY <1>1 DEF Launching, Cleared
<1>3. AloneLaunching'
  BY <1>2 DEF AloneLaunching
<1>4. Named'
  BY DEF Named, device
<1>5. StopsIt'
  <2>1. SUFFICES ASSUME NEW g \in Procs, Launching(g)'
                 PROVE  /\ Cleared(g)' => \A d \in Procs : dmn[d] # "serve"
                        /\ pc'[g] = "kill" => \A d \in Procs : dmn[d] = "serve" => got'[g] = d
                        /\ pc'[g] = "stopping" /\ got'[g] = "none" =>
                             \A d \in Procs : dmn[d] = "serve" => \E i \in 1 .. Len(ctl[d]) : ctl[d][i].who = g
    BY DEF StopsIt, device
  <2>2. CASE g = h
    BY <1>1, <2>1, <2>2
  <2>3. CASE g # h
    BY <1>1, <1>2, <2>1, <2>3 DEF StopsIt
  <2>4. QED
    BY <2>2, <2>3
<1>6. QED
  BY <1>3, <1>4, <1>5

(* A daemon does something, and no more daemons serve than before: a       *)
(* launch that waits for one to stop still waits in its queue, or none     *)
(* serves any more.                                                        *)
LEMMA LaunchServed ==
  ASSUME TypeInv, AloneLaunching, Named, StopsIt, UNCHANGED <<file, stopper>>,
         \A g \in Procs : pc'[g] = pc[g] \/ pc'[g] \in {"normal", "done"},
         \A d \in Procs : dmn'[d] = "serve" => dmn[d] = "serve",
         \A g \in Procs : got'[g] = got[g] \/ (Waits(g) /\ got'[g] # "none"),
         \A g, d \in Procs : Launching(g) /\ pc[g] = "stopping" /\ got[g] = "none" /\ dmn'[d] = "serve"
            => got'[g] = "none" /\ \E i \in 1 .. Len(ctl'[d]) : ctl'[d][i].who = g
  PROVE  AloneLaunching' /\ Named' /\ StopsIt'
<1>1. \A g \in Procs : Launching(g)' => Launching(g) /\ pc'[g] = pc[g]
  BY DEF Launching
<1>2. AloneLaunching' /\ Named'
  BY <1>1 DEF AloneLaunching, Named
<1>3. StopsIt'
  <2>1. SUFFICES ASSUME NEW g \in Procs, Launching(g)'
                 PROVE  /\ Cleared(g)' => \A d \in Procs : dmn'[d] # "serve"
                        /\ pc'[g] = "kill" => \A d \in Procs : dmn'[d] = "serve" => got'[g] = d
                        /\ pc'[g] = "stopping" /\ got'[g] = "none" =>
                             \A d \in Procs : dmn'[d] = "serve" => \E i \in 1 .. Len(ctl'[d]) : ctl'[d][i].who = g
    BY DEF StopsIt
  <2>2. Launching(g) /\ pc'[g] = pc[g]
    BY <1>1, <2>1
  <2>3. ASSUME Cleared(g)', NEW d \in Procs, dmn'[d] = "serve" PROVE FALSE
    <3>1. CASE Cleared(g)
      BY <2>2, <2>3, <3>1 DEF StopsIt
    <3>2. CASE ~Cleared(g)
      BY <2>2, <2>3, <3>2 DEF Cleared
    <3>3. QED
      BY <3>1, <3>2
  <2>4. ASSUME pc'[g] = "kill", NEW d \in Procs, dmn'[d] = "serve" PROVE got'[g] = d
    BY <2>2, <2>4 DEF StopsIt, Waits
  <2>5. ASSUME pc'[g] = "stopping", got'[g] = "none", NEW d \in Procs, dmn'[d] = "serve"
        PROVE  \E i \in 1 .. Len(ctl'[d]) : ctl'[d][i].who = g
    <3>1. got[g] = "none"
      BY <2>5
    <3>2. QED
      BY <2>2, <2>5, <3>1
  <2>6. QED
    BY <2>3, <2>4, <2>5
<1>4. QED
  BY <1>2, <1>3

(* The steps of daemons, and their failures.                               *)
LEMMA LaunchDaemon ==
  ASSUME TypeInv, QueueInv, AloneLaunching, Named, StopsIt, NEW d \in Procs,
         DaemonStep(d) \/ Timeout(d) \/ ForkFails(d) \/ DaemonKilled(d) \/ SetupFails(d)
  PROVE  AloneLaunching' /\ Named' /\ StopsIt'
<1>1. ProcsOK /\ DeviceOK /\ "ok" \in Words /\ "eof" \in Words /\ d \in Words /\ d # "none"
  BY DaemonAssumption DEF TypeInv, Words
<1>2. UNCHANGED <<file, stopper>>
  BY DEF DaemonStep, ServeControl, ServeClient, Unwind, Timeout, ForkFails, DaemonKilled, SetupFails, procs
<1>3. \A g, e \in Procs : Launching(g) /\ pc[g] = "stopping" /\ got[g] = "none" /\ dmn[e] = "serve"
         => \E i \in 1 .. Len(ctl[e]) : ctl[e][i].who = g
  BY DEF StopsIt
<1>4. CASE ServeControl(d)
  <2> DEFINE c == ctl[d][1]
  <2>1. /\ Len(ctl[d]) \in Nat \ {0} /\ Len(ctl'[d]) = Len(ctl[d]) - 1
        /\ \A i \in 1 .. Len(ctl'[d]) : ctl'[d][i] = ctl[d][i + 1]
        /\ \A e \in Procs : e # d => ctl'[e] = ctl[e] /\ dmn'[e] = dmn[e]
        /\ dmn'[d] = (IF c.cmd = "kill" THEN "exiting" ELSE "serve") /\ dmn[d] = "serve"
        /\ Answer({c.who}, IF c.cmd = "kill" THEN "ok" ELSE d) /\ pc' = pc
    <3>1. ctl[d] \in Seq(Command) /\ ctl[d] # <<>>
      BY <1>1, <1>4 DEF ServeControl, DeviceOK
    <3>2. /\ Len(ctl[d]) \in Nat \ {0} /\ Head(ctl[d]) = c /\ Len(Tail(ctl[d])) = Len(ctl[d]) - 1
          /\ \A i \in 1 .. Len(Tail(ctl[d])) : Tail(ctl[d])[i] = ctl[d][i + 1]
      BY <3>1, TailFacts
    <3>3. QED
      BY <1>1, <1>4, <3>2 DEF ServeControl, DeviceOK
  <2> HIDE DEF c
  <2>2. PICK a \in {"ok", d} : Answer({c.who}, a)
    BY <2>1
  <2>3. a \in Words /\ a # "none"
    BY <1>1, <2>2
  <2>4. /\ \A g \in Procs : g = c.who /\ Waits(g) => got'[g] = a
        /\ \A g \in Procs : ~(g = c.who /\ Waits(g)) => got'[g] = got[g]
    BY <1>1, <2>2, <2>3, AnswerFacts
  <2>5. ASSUME NEW g \in Procs, NEW e \in Procs, Launching(g), pc[g] = "stopping", got[g] = "none", dmn'[e] = "serve"
        PROVE  got'[g] = "none" /\ \E i \in 1 .. Len(ctl'[e]) : ctl'[e][i].who = g
    <3>1. dmn[e] = "serve"
      BY <2>1, <2>5
    <3>2. PICK i \in 1 .. Len(ctl[e]) : ctl[e][i].who = g
      BY <1>3, <2>5, <3>1
    <3>3. g # c.who
      <4>1. SUFFICES ASSUME g = c.who PROVE FALSE
        OBVIOUS
      <4>2. 1 \in 1 .. Len(ctl[d]) /\ ctl[d][1].who = g
        BY <2>1, <4>1 DEF c
      <4>3. e = d
        BY <3>2, <4>2, CtlOnceAt
      <4>4. c.cmd = "kill"
        BY <2>5, <4>2 DEF QueueInv, CtlFor, Gone, c
      <4>5. QED
        BY <2>1, <2>5, <4>3, <4>4
    <3>4. got'[g] = "none"
      BY <2>4, <2>5, <3>3
    <3>5. CASE e # d
      BY <2>1, <3>2, <3>4, <3>5
    <3>6. CASE e = d
      <4>1. i # 1
        BY <3>2, <3>3, <3>6 DEF c
      <4>2. i - 1 \in 1 .. Len(ctl'[d]) /\ ctl'[d][i - 1] = ctl[d][i]
        BY <2>1, <3>6, <4>1
      <4>3. QED
        BY <3>2, <3>4, <3>6, <4>2
    <3>7. QED
      BY <3>5, <3>6
  <2>6. \A e \in Procs : dmn'[e] = "serve" => dmn[e] = "serve"
    BY <2>1
  <2>7. \A g \in Procs : got'[g] = got[g] \/ (Waits(g) /\ got'[g] # "none")
    BY <2>3, <2>4
  <2>8. QED
    BY <1>2, <2>1, <2>5, <2>6, <2>7, LaunchServed
<1>5. CASE ServeClient(d) \/ ForkFails(d)
  <2>1. PICK a \in {"eof", d} : Answer({Head(cli[d])}, a) /\ UNCHANGED <<pc, dmn, ctl>> /\ cli[d] # <<>>
    BY <1>5 DEF ServeClient, ForkFails
  <2>2. a \in Words /\ a # "none"
    BY <1>1, <2>1
  <2>3. /\ \A g \in Procs : g = Head(cli[d]) /\ Waits(g) => got'[g] = a
        /\ \A g \in Procs : ~(g = Head(cli[d]) /\ Waits(g)) => got'[g] = got[g]
    BY <1>1, <2>1, <2>2, AnswerFacts
  <2>4. 1 \in 1 .. Len(cli[d]) /\ Head(cli[d]) = cli[d][1]
    <3>1. cli[d] \in Seq(Clients)
      BY <1>1 DEF DeviceOK
    <3>2. Len(cli[d]) \in Nat \ {0} /\ Head(cli[d]) = cli[d][1]
      BY <2>1, <3>1, TailFacts
    <3>3. QED
      BY <3>2
  <2>5. pc[Head(cli[d])] # "stopping"
    BY <2>4 DEF QueueInv, CliFor, Gone
  <2>6. QED
    BY <1>2, <1>3, <2>1, <2>2, <2>3, <2>5, LaunchServed
<1>6. CASE Timeout(d)
  <2>1. UNCHANGED <<pc, got, ctl>> /\ \A e \in Procs : dmn'[e] = "serve" => dmn[e] = "serve"
    BY <1>1, <1>6 DEF Timeout, procs, DeviceOK
  <2>2. QED
    BY <1>2, <1>3, <2>1, LaunchServed
<1>7. CASE Unwind(d) \/ DaemonKilled(d) \/ SetupFails(d)
  <2>1. Ended(d) /\ Answer(Queued(d), "eof") /\ \A g \in Procs : pc'[g] = pc[g] \/ pc'[g] \in {"normal", "done"}
    BY <1>1, <1>7 DEF Unwind, DaemonKilled, SetupFails, ProcsOK
  <2>2. dmn'[d] = "exited" /\ \A e \in Procs : e # d => dmn'[e] = dmn[e] /\ ctl'[e] = ctl[e]
    BY <1>1, <2>1 DEF Ended, DeviceOK
  <2>3. /\ \A g \in Procs : g \in Queued(d) /\ Waits(g) => got'[g] = "eof"
        /\ \A g \in Procs : ~(g \in Queued(d) /\ Waits(g)) => got'[g] = got[g]
    BY <1>1, <2>1, AnswerFacts
  <2>4. ASSUME NEW g \in Procs, NEW e \in Procs, Launching(g), pc[g] = "stopping", got[g] = "none", dmn'[e] = "serve"
        PROVE  got'[g] = "none" /\ \E i \in 1 .. Len(ctl'[e]) : ctl'[e][i].who = g
    <3>1. e # d /\ dmn[e] = "serve" /\ ctl'[e] = ctl[e]
      BY <2>2, <2>4
    <3>2. PICK i \in 1 .. Len(ctl[e]) : ctl[e][i].who = g
      BY <1>3, <2>4, <3>1
    <3>3. \A j \in 1 .. Len(ctl[d]) : ctl[d][j].who # g
      BY <3>1, <3>2, CtlOnceAt
    <3>4. \A j \in 1 .. Len(cli[d]) : cli[d][j] # g
      BY <3>2 DEF QueueInv, OneKind
    <3>5. g \notin Queued(d)
      BY <3>3, <3>4 DEF Queued
    <3>6. QED
      BY <2>3, <2>4, <3>1, <3>2, <3>5
  <2>5. \A e \in Procs : dmn'[e] = "serve" => dmn[e] = "serve"
    BY <2>2
  <2>6. \A g \in Procs : got'[g] = got[g] \/ (Waits(g) /\ got'[g] # "none")
    BY <2>3
  <2>7. QED
    BY <1>2, <2>1, <2>4, <2>5, <2>6, LaunchServed
<1>8. QED
  BY <1>4, <1>5, <1>6, <1>7 DEF DaemonStep

(* A process sends a command to a daemon that listens.                     *)
LEMMA LaunchSend ==
  ASSUME TypeInv, QueueInv, AloneLaunching, Named, StopsIt, NEW h \in Procs, SendCommand(h), Listening(got[h])
  PROVE  AloneLaunching' /\ Named' /\ StopsIt'
<1>1. PICK l \in {"pinged", "stopping"} :
        /\ Goto(h, l, "none") /\ (l = "pinged" <=> pc[h] = "ping")
        /\ got[h] \in Procs /\ pc[h] \in {"ping", "kill"}
        /\ ctl' = [ctl EXCEPT ![got[h]] = Append(ctl[got[h]], [who |-> h, cmd |-> pc[h]])]
        /\ UNCHANGED <<dmn, cli, file, stopper>>
  BY DEF SendCommand, Listening
<1>2. /\ pc'[h] = l /\ got'[h] = "none"
      /\ \A g \in Procs : g # h => pc'[g] = pc[g] /\ got'[g] = got[g]
  BY <1>1 DEF Goto, TypeInv, ProcsOK
<1>3. /\ Len(ctl[got[h]]) \in Nat /\ Len(ctl'[got[h]]) = Len(ctl[got[h]]) + 1
      /\ ctl'[got[h]][Len(ctl[got[h]]) + 1] = [who |-> h, cmd |-> pc[h]]
      /\ \A i \in 1 .. Len(ctl[got[h]]) : ctl'[got[h]][i] = ctl[got[h]][i]
      /\ \A d \in Procs : d # got[h] => ctl'[d] = ctl[d]
  <2>1. [who |-> h, cmd |-> pc[h]] \in Command /\ ctl[got[h]] \in Seq(Command)
    BY <1>1, QueueTypes DEF Command
  <2>2. ctl'[got[h]] = Append(ctl[got[h]], [who |-> h, cmd |-> pc[h]]) /\ \A d \in Procs : d # got[h] => ctl'[d] = ctl[d]
    BY <1>1 DEF TypeInv, DeviceOK
  <2>3. QED
    BY <2>1, <2>2, AppendProperties, LenProperties
<1>4. \A d \in Procs : \A i \in 1 .. Len(ctl[d]) : i \in 1 .. Len(ctl'[d]) /\ ctl'[d][i] = ctl[d][i]
  BY <1>1, <1>3
<1>5. \E i \in 1 .. Len(ctl'[got[h]]) : ctl'[got[h]][i].who = h
  BY <1>3
<1>6. \A g \in Procs : Launching(g)' <=> Launching(g)
  BY <1>1, <1>2 DEF Launching
<1>7. AloneLaunching' /\ Named'
  BY <1>1, <1>6 DEF AloneLaunching, Named
<1>8. StopsIt'
  <2>1. SUFFICES ASSUME NEW g \in Procs, Launching(g)'
                 PROVE  /\ Cleared(g)' => \A d \in Procs : dmn[d] # "serve"
                        /\ pc'[g] = "kill" => \A d \in Procs : dmn[d] = "serve" => got'[g] = d
                        /\ pc'[g] = "stopping" /\ got'[g] = "none" =>
                             \A d \in Procs : dmn[d] = "serve" => \E i \in 1 .. Len(ctl'[d]) : ctl'[d][i].who = g
    BY <1>1 DEF StopsIt
  <2>2. Launching(g)
    BY <1>6, <2>1
  <2>3. CASE g = h
    <3>1. ~Cleared(g)' /\ pc'[g] # "kill"
      BY <1>1, <1>2, <2>3 DEF Cleared
    <3>2. ASSUME pc'[g] = "stopping", NEW d \in Procs, dmn[d] = "serve"
          PROVE  \E i \in 1 .. Len(ctl'[d]) : ctl'[d][i].who = g
      <4>1. pc[h] = "kill" /\ got[h] = d
        BY <1>1, <1>2, <2>2, <2>3, <3>2 DEF StopsIt
      <4>2. QED
        BY <1>5, <2>3, <4>1
    <3>3. QED
      BY <3>1, <3>2
  <2>4. CASE g # h
    <3>1. pc'[g] = pc[g] /\ got'[g] = got[g] /\ (Cleared(g)' <=> Cleared(g))
      BY <1>2, <2>4 DEF Cleared
    <3>2. ASSUME pc'[g] = "stopping", got'[g] = "none", NEW d \in Procs, dmn[d] = "serve"
          PROVE  \E i \in 1 .. Len(ctl'[d]) : ctl'[d][i].who = g
      <4>1. PICK i \in 1 .. Len(ctl[d]) : ctl[d][i].who = g
        BY <2>2, <3>1, <3>2 DEF StopsIt
      <4>2. QED
        BY <1>4, <4>1
    <3>3. QED
      BY <2>2, <3>1, <3>2 DEF StopsIt
  <2>5. QED
    BY <2>3, <2>4
<1>9. QED
  BY <1>7, <1>8

(* A process becomes the daemon: no other serves, and it is the only one   *)
(* that launches.                                                          *)
LEMMA LaunchBecomes ==
  ASSUME TypeInv, AloneLaunching, Named, StopsIt, NEW h \in Procs, Listen(h) \/ TruncateName(h) \/ WriteName(h)
  PROVE  AloneLaunching' /\ Named' /\ StopsIt'
<1>1. pc[h] \in {"listen", "truncate", "write"} /\ UNCHANGED stopper
  BY DEF Listen, TruncateName, WriteName
<1>2. h \notin stopper /\ Launching(h) /\ Cleared(h)
  BY <1>1 DEF TypeInv, Role, Launching, Cleared
<1>3. \A d \in Procs : dmn[d] # "serve"
  BY <1>2 DEF StopsIt
<1>4. \A g \in Procs : g # h => ~Launching(g)
  BY <1>2 DEF AloneLaunching
<1>5. \A g \in Procs : g # h => pc'[g] = pc[g]
  BY DEF Listen, TruncateName, WriteName, Launched, Goto, TypeInv, ProcsOK
<1>6. \A g \in Procs : g # h => ~Launching(g)'
  BY <1>1, <1>4, <1>5 DEF Launching
<1>7. AloneLaunching'
  BY <1>6 DEF AloneLaunching
<1>8. CASE WriteName(h)
  <2>1. pc'[h] \in {"cache", "done"} /\ file' = h /\ \A d \in Procs : dmn'[d] = "serve" => d = h
    BY <1>3, <1>8 DEF WriteName, Launched, Goto, TypeInv, ProcsOK, DeviceOK
  <2>2. ~Launching(h)'
    BY <2>1 DEF Launching
  <2>3. QED
    BY <1>6, <1>7, <2>1, <2>2 DEF Named, StopsIt
<1>9. CASE Listen(h) \/ TruncateName(h)
  <2>1. \A d \in Procs : dmn'[d] # "serve"
    BY <1>3, <1>9 DEF Listen, TruncateName, TypeInv, DeviceOK
  <2>2. QED
    BY <1>7, <2>1 DEF Named, StopsIt
<1>10. QED
  BY <1>8, <1>9

(* Every step.                                                             *)
LEMMA LaunchNext ==
  ASSUME TypeInv, QueueInv, LaunchInv, [Next]_dvars
  PROVE  LaunchInv'
<1>1. SUFFICES ASSUME ~overlap' PROVE AloneLaunching' /\ Named' /\ StopsIt'
  BY DEF LaunchInv
<1>2. ~overlap /\ AloneLaunching /\ Named /\ StopsIt
  BY <1>1, OverlapStays DEF LaunchInv
<1>3. /\ stopper \subseteq Commands /\ Empty \in Words /\ NoFile \notin Procs
      /\ \A h \in Procs : got[h] \in Words /\ pc[h] \in Places
  BY DaemonAssumption DEF TypeInv, ProcsOK, Words
<1>4. \A h \in Procs : BeginLaunch(h) => \A g \in Procs \ {h} : ~Launching(g)
  BY <1>1, Zenon DEF BeginLaunch
<1>5. CASE UNCHANGED dvars
  BY <1>2, <1>5 DEF dvars, procs, device, AloneLaunching, Named, StopsIt, Launching, Cleared
<1>6. ASSUME NEW h \in Procs, NEW l \in Places, NEW v \in Words, Goto(h, l, v), UNCHANGED device,
             UNCHANGED stopper \/ (stopper' = stopper \cup {h} /\ l = "stop"),
             l \in {"launch", "stop"} => Launching(h) \/ h \in stopper' \/ BeginLaunch(h),
             l \notin {"truncate", "write", "pinged", "stopping"},
             l \in {"ping", "kill", "listen"} => Launching(h) \/ h \in stopper,
             l = "listen" => \A d \in Procs : dmn[d] # "serve",
             l = "kill" /\ h \notin stopper => \A d \in Procs : dmn[d] = "serve" => v = d
      PROVE  AloneLaunching' /\ Named' /\ StopsIt'
  <2>1. pc'[h] = l /\ got'[h] = v
    BY <1>6 DEF Goto, TypeInv, ProcsOK
  <2>2. stopper \subseteq stopper' /\ stopper' \ {h} \subseteq stopper
    BY <1>6
  <2>3. Cleared(h)' => l = "listen"
    BY <1>6, <2>1 DEF Cleared
  <2>4. Launching(h)' => Launching(h) \/ \A g \in Procs \ {h} : ~Launching(g)
    BY <1>4, <1>6, <2>1 DEF Launching
  <2>5. Launching(h)' => h \notin stopper
    BY <2>2 DEF Launching
  <2>6. QED
    BY <1>2, <1>6, <2>2, <2>3, <2>4, <2>5, LaunchMoves
<1>7. ASSUME NEW h \in Procs, NEW u \in BOOLEAN, ConnectFails(h, u), pc[h] \in {"stat", "open", "read", "dial", "greet"}
      PROVE  AloneLaunching' /\ Named' /\ StopsIt'
  <2>1. PICK l \in {"launch", "normal"} : Goto(h, l, Empty) /\ UNCHANGED <<stopper, device>> /\ (l = "launch" => BeginLaunch(h))
    BY <1>7 DEF ConnectFails
  <2>2. l \in Places
    BY <2>1 DEF Places
  <2>3. QED
    BY <1>3, <1>6, <2>1, <2>2
<1>8. ASSUME NEW h \in Procs, ProcStep(h) PROVE AloneLaunching' /\ Named' /\ StopsIt'
  <2>1. CASE \E u \in BOOLEAN : ConnectFails(h, u) /\ pc[h] \in {"stat", "open", "read", "dial", "greet"}
    BY <1>7, <2>1
  <2> SUFFICES ASSUME ~\E u \in BOOLEAN : ConnectFails(h, u) /\ pc[h] \in {"stat", "open", "read", "dial", "greet"}
               PROVE  AloneLaunching' /\ Named' /\ StopsIt'
    BY <2>1
  <2>2. CASE StatCache(h) \/ CacheStale(h) \/ OpenCache(h) \/ ReadCache(h) \/ Greeted(h) \/ OpenNewCache(h) \/ WriteCache(h)
    <3>1. PICK l \in {"open", "read", "dial", "connected", "store", "stat"}, v \in Words :
            Goto(h, l, v) /\ UNCHANGED <<stopper, device>>
      <4>1. pc[h] = "read" => content[fd[h]] \in Words
        BY DEF TypeInv, Role, HostOK, Words, Procs
      <4>2. CASE ReadCache(h)
        <5>1. pc[h] = "read" /\ Goto(h, "dial", content[fd[h]]) /\ UNCHANGED <<stopper, device>>
          BY <4>2 DEF ReadCache
        <5>2. QED
          BY <4>1, <5>1
      <4>3. CASE ~ReadCache(h)
        BY <1>3, <2>2, <4>3 DEF StatCache, CacheStale, OpenCache, Greeted, OpenNewCache, WriteCache
      <4>4. QED
        BY <4>2, <4>3
    <3>2. l \in Places
      BY <3>1 DEF Places
    <3>3. QED
      BY <1>6, <3>1, <3>2
  <2>3. CASE Dial(h)
    <3>1. /\ Goto(h, "greet", "none") /\ UNCHANGED <<stopper, file, dmn, ctl>>
      BY <2>3 DEF Dial
    <3>2. pc'[h] = "greet" /\ \A g \in Procs : g # h => pc'[g] = pc[g] /\ got'[g] = got[g]
      BY <3>1 DEF Goto, TypeInv, ProcsOK
    <3>3. \A g \in Procs : Launching(g)' => Launching(g) /\ g # h /\ (Cleared(g)' <=> Cleared(g))
      BY <3>1, <3>2 DEF Launching, Cleared
    <3>4. AloneLaunching' /\ Named'
      BY <1>2, <3>1, <3>3 DEF AloneLaunching, Named
    <3>5. StopsIt'
      BY <1>2, <3>1, <3>2, <3>3 DEF StopsIt
    <3>6. QED
      BY <3>4, <3>5
  <2>4. CASE ReadName(h)
    <3>1. pc[h] \in {"launch", "stop"} /\ UNCHANGED <<stopper, device>> /\ (Launching(h) \/ h \in stopper)
      BY <2>4 DEF ReadName, Launching
    <3>2. CASE file = NoFile /\ Unanswered(h)
      <4>1. \A d \in Procs : dmn[d] # "serve"
        BY <1>2, <1>3, <3>2 DEF Named
      <4>2. PICK l \in {"stop", "listen", "done"} : Goto(h, l, Empty) /\ (l = "listen" => h \notin stopper)
        BY <3>2 DEF Unanswered, NoReuse, AfterStop
      <4>3. l \in Places
        BY <4>2 DEF Places
      <4>4. QED
        BY <1>3, <1>6, <3>1, <4>1, <4>2, <4>3
    <3>3. CASE file # NoFile
      <4>1. PICK l \in {"ping", "kill"} : Goto(h, l, file)
        BY <2>4, <3>3 DEF ReadName
      <4>2. l \in Places /\ file \in Words
        BY <3>3, <4>1 DEF Places, TypeInv, DeviceOK, Words
      <4>3. \A d \in Procs : dmn[d] = "serve" => file = d
        BY <1>2 DEF Named
      <4>4. QED
        BY <1>6, <3>1, <4>1, <4>2, <4>3
    <3>4. QED
      BY <2>4, <3>2, <3>3 DEF ReadName
  <2>5. CASE SendCommand(h)
    <3>1. CASE Listening(got[h])
      BY <1>2, <2>5, <3>1, LaunchSend
    <3>2. CASE ~Listening(got[h])
      <4>1. /\ pc[h] \in {"ping", "kill"} /\ UNCHANGED <<stopper, device>> /\ Unanswered(h)
            /\ (Launching(h) \/ h \in stopper)
        BY <2>5, <3>2 DEF SendCommand, Launching, device
      <4>2. PICK l \in {"stop", "listen", "done"} :
              Goto(h, l, Empty) /\ (l = "listen" => h \notin stopper /\ pc[h] = "kill")
        BY <4>1 DEF Unanswered, NoReuse, AfterStop
      <4>3. l \in Places
        BY <4>2 DEF Places
      <4>4. l = "listen" => \A d \in Procs : dmn[d] # "serve"
        BY <1>2, <3>2, <4>1, <4>2 DEF StopsIt, Listening
      <4>5. QED
        BY <1>3, <1>6, <4>1, <4>2, <4>3, <4>4
    <3>3. QED
      BY <3>1, <3>2
  <2>6. CASE Pong(h)
    <3>1. pc[h] = "pinged" /\ UNCHANGED <<stopper, device>> /\ (Launching(h) \/ h \in stopper)
      BY <2>6 DEF Pong, Launching
    <3>2. PICK l \in {"cache", "done", "stop"}, v \in Words : Goto(h, l, v)
      BY <1>3, <2>6 DEF Pong, Launched, NoReuse
    <3>3. l \in Places
      BY <3>2 DEF Places
    <3>4. QED
      BY <1>6, <3>1, <3>2, <3>3
  <2>7. CASE StopReply(h)
    <3>1. pc[h] = "stopping" /\ UNCHANGED <<stopper, device>> /\ (Launching(h) \/ h \in stopper) /\ got[h] # "none"
      BY <2>7 DEF StopReply, Launching
    <3>2. PICK l \in {"done", "listen"} : Goto(h, l, Empty) /\ (l = "listen" => h \notin stopper)
      BY <2>7 DEF StopReply, AfterStop
    <3>3. l \in Places
      BY <3>2 DEF Places
    <3>4. l = "listen" => \A d \in Procs : dmn[d] # "serve"
      BY <1>2, <3>1, <3>2 DEF StopsIt, Cleared
    <3>5. QED
      BY <1>3, <1>6, <3>1, <3>2, <3>3, <3>4
  <2>8. CASE Listen(h) \/ TruncateName(h) \/ WriteName(h)
    BY <1>2, <2>8, LaunchBecomes
  <2>9. QED
    BY <1>8, <2>2, <2>3, <2>4, <2>5, <2>6, <2>7, <2>8 DEF ProcStep
<1>9. ASSUME NEW h \in Procs, BeginClient(h) \/ BeginStart(h) \/ BeginStop(h) \/ Killed(h)
      PROVE  AloneLaunching' /\ Named' /\ StopsIt'
  <2>1. UNCHANGED device
    BY <1>9 DEF BeginClient, BeginStart, BeginStop, Killed
  <2>2. PICK l \in {"stat", "launch", "stop", "normal", "done"} :
          /\ Goto(h, l, Empty) /\ (UNCHANGED stopper \/ (stopper' = stopper \cup {h} /\ l = "stop"))
          /\ l \in {"launch", "stop"} => h \in stopper' \/ BeginLaunch(h)
    <3>1. CASE BeginClient(h)
      BY <3>1 DEF BeginClient
    <3>2. CASE BeginStart(h)
      BY <3>2 DEF BeginStart
    <3>3. CASE BeginStop(h)
      BY <3>3 DEF BeginStop
    <3>4. CASE Killed(h)
      BY <3>4 DEF Killed, LaunchFailed
    <3>5. QED
      BY <1>9, <3>1, <3>2, <3>3, <3>4
  <2>3. l \in Places
    BY <2>2 DEF Places
  <2>4. QED
    BY <1>3, <1>6, <2>1, <2>2, <2>3
<1>10. ASSUME NEW d \in Procs, DaemonStep(d) \/ Timeout(d) \/ ForkFails(d) \/ DaemonKilled(d) \/ SetupFails(d)
       PROVE  AloneLaunching' /\ Named' /\ StopsIt'
  BY <1>2, <1>10, LaunchDaemon
<1>11. QED
  BY <1>5, <1>8, <1>9, <1>10 DEF Next, Failure, Over

(* At most one process launches or serves, and what serves is named.       *)
LEMMA OneImplied ==
  ASSUME TypeInv, LaunchInv
  PROVE  OneDaemon
<1>1. SUFFICES ASSUME ~overlap
               PROVE  /\ Cardinality({d \in Procs : dmn[d] \in {"setup", "serve"}}) <= 1
                      /\ \A d \in Procs : dmn[d] = "serve" => file = d
  BY DEF OneDaemon
<1>2. AloneLaunching /\ Named /\ StopsIt
  BY <1>1 DEF LaunchInv
<1> DEFINE D == {d \in Procs : dmn[d] \in {"setup", "serve"}}
<1>3. ASSUME NEW d \in Procs, dmn[d] = "setup" PROVE Launching(d) /\ Cleared(d)
  BY <1>3 DEF TypeInv, Role, Launching, Cleared
<1>4. \A d, e \in D : d = e
  <2>1. SUFFICES ASSUME NEW d \in D, NEW e \in D PROVE d = e
    OBVIOUS
  <2>2. CASE dmn[d] = "serve" /\ dmn[e] = "serve"
    BY <1>2, <2>2 DEF Named
  <2>3. CASE dmn[d] = "setup" /\ dmn[e] = "setup"
    BY <1>2, <1>3, <2>3 DEF AloneLaunching
  <2>4. CASE dmn[d] # dmn[e]
    BY <1>2, <1>3, <2>4 DEF StopsIt
  <2>5. QED
    BY <2>2, <2>3, <2>4
<1>5. Cardinality(D) <= 1
  <2>1. CASE D = {}
    BY <2>1, FS_EmptySet
  <2>2. CASE D # {}
    <3>1. PICK d \in D : TRUE
      BY <2>2
    <3>2. D = {d}
      BY <1>4, <3>1
    <3>3. QED
      BY <3>2, FS_Singleton, SMTT(30)
  <2>3. QED
    BY <2>1, <2>2
<1>6. QED
  BY <1>2, <1>5 DEF Named

(* Launches that do not overlap leave one daemon at most that has not been *)
(* told to exit, and the device's file names it, whatever fails meanwhile. *)
THEOREM AtMostOneDaemon == Spec => []OneDaemon
<1>1. Init => TypeInv /\ QueueInv /\ LaunchInv
  BY TypeInit, QueueInit, LaunchInit
<1>2. TypeInv /\ QueueInv /\ LaunchInv /\ [Next]_dvars => (TypeInv /\ QueueInv /\ LaunchInv)'
  BY TypeNext, QueueNext, LaunchNext
<1>3. TypeInv /\ LaunchInv => OneDaemon
  BY OneImplied
<1>4. QED
  BY <1>1, <1>2, <1>3, PTL DEF Spec

----------------------------------------------------------------------------
(* A client that is alone.                                                 *)

(* Daemon d can serve client h.                                            *)
Good(d, h) == d \in Procs /\ Ver[d] = Ver[h] /\ dmn[d] = "serve"

(* As long as nothing has disturbed a process: one at most is active,      *)
(* nobody has left a connection behind, and a client whose launch found or *)
(* started a daemon goes by the name of one that serves, in the file it    *)
(* opened, in the file it is about to open or in hand.                     *)
OneActive == \A g, h \in Procs : Active(g) /\ Active(h) => g = h
NobodyLeft ==
  \A d \in Procs : /\ \A i \in 1 .. Len(ctl[d]) : ~Gone(ctl[d][i].who)
                   /\ \A i \in 1 .. Len(cli[d]) : ~Gone(cli[d][i])
Retries(h) ==
  /\ pc[h] \in {"stat", "open"} => cache \in Procs /\ Good(content[cache], h)
  /\ pc[h] = "read" => Good(content[fd[h]], h)
  /\ pc[h] = "dial" => Good(got[h], h)
  /\ pc[h] = "greet" /\ got[h] = "none" =>
       \E d \in Procs : Good(d, h) /\ \E i \in 1 .. Len(cli[d]) : cli[d][i] = h
  /\ pc[h] = "greet" /\ got[h] # "none" => Good(got[h], h)
Finds(h) ==
  /\ pc[h] # "normal"
  /\ pc[h] = "idle" => attempt[h] = 1
  /\ pc[h] = "pinged" /\ got[h] \in Procs => dmn[got[h]] = "serve"
  /\ pc[h] \in {"cache", "store"} => Good(got[h], h)
  /\ pc[h] = "store" => cache \in Procs /\ fd[h] = cache
  /\ attempt[h] = 2 => Retries(h)

AloneInv == ~disturbed => OneActive /\ NobodyLeft /\ \A h \in Clients : Finds(h)

(* At the start nothing is active.                                         *)
LEMMA AloneInit ==
  ASSUME Init
  PROVE  AloneInv
<1>1. \A h \in Procs : pc[h] = "idle" /\ attempt[h] = 1 /\ ~Active(h) /\ Len(ctl[h]) = 0 /\ Len(cli[h]) = 0
  BY DEF Init, Active
<1>2. OneActive /\ NobodyLeft
  BY <1>1 DEF OneActive, NobodyLeft
<1>3. \A h \in Clients : Finds(h)
  BY <1>1 DEF Finds, Procs
<1>4. QED
  BY <1>2, <1>3 DEF AloneInv

(* A disturbance is not forgotten, and what may disturb a process disturbs *)
(* none when nothing is active.                                            *)
LEMMA DisturbedStays ==
  ASSUME [Next]_dvars, ~disturbed'
  PROVE  ~disturbed /\ (Disturb => \A h \in Procs : ~Active(h))
<1>1. CASE UNCHANGED disturbed
  BY <1>1, Zenon DEF Disturb
<1>2. CASE Disturb
  BY <1>2, Zenon DEF Disturb
<1>3. (UNCHANGED disturbed) \/ Disturb
  <2>1. ASSUME NEW h \in Procs, ProcStep(h) PROVE UNCHANGED disturbed
    BY <2>1 DEF ProcStep, StatCache, CacheStale, OpenCache, ReadCache, Dial, Greeted, OpenNewCache, WriteCache,
       ReadName, SendCommand, Pong, StopReply, Listen, TruncateName, WriteName, ConnectFails, ghosts
  <2>2. ASSUME NEW h \in Procs, DaemonStep(h) PROVE UNCHANGED disturbed
    BY <2>2 DEF DaemonStep, ServeControl, ServeClient, Unwind, ghosts
  <2>3. ASSUME NEW h \in Procs, BeginClient(h) \/ BeginStart(h) \/ BeginStop(h) \/ Timeout(h) \/ Failure(h)
        PROVE  Disturb
    BY <2>3 DEF BeginClient, BeginStart, BeginStop, Timeout, Failure, ForkFails, DaemonKilled, SetupFails, Killed, Fail
  <2>4. UNCHANGED dvars => UNCHANGED disturbed
    BY DEF dvars, ghosts
  <2>5. QED
    BY <2>1, <2>2, <2>3, <2>4 DEF Next, Over
<1>4. QED
  BY <1>1, <1>2, <1>3

(* A client that does nothing looks for nothing.                           *)
LEMMA Rests ==
  ASSUME NEW g \in Clients, Finds(g), ~Active(g), pc'[g] = pc[g], attempt'[g] = attempt[g]
  PROVE  Finds(g)'
<1>1. pc'[g] \in {"idle", "connected", "done"} /\ pc'[g] = pc[g] /\ attempt'[g] = attempt[g]
  BY DEF Active, Finds
<1>2. Retries(g)'
  BY <1>1 DEF Retries
<1>3. QED
  BY <1>1, <1>2 DEF Finds

(* The only active process takes a step, or one begins while none is.      *)
LEMMA AloneSteps ==
  ASSUME OneActive, \A g \in Clients : Finds(g), NEW h \in Procs,
         Active(h) \/ \A g \in Procs : ~Active(g),
         \A g \in Procs : g # h => pc'[g] = pc[g] /\ attempt'[g] = attempt[g],
         h \in Clients => Finds(h)'
  PROVE  OneActive' /\ \A g \in Clients : Finds(g)'
<1>1. \A g \in Procs : g # h => ~Active(g) /\ ~Active(g)'
  BY DEF OneActive, Active
<1>2. OneActive'
  BY <1>1 DEF OneActive
<1>3. ASSUME NEW g \in Clients, g # h PROVE Finds(g)'
  BY <1>1, <1>3, Rests DEF Procs
<1>4. QED
  BY <1>2, <1>3

(* A process that ends is in no connection.                                *)
LEMMA LeftMoves ==
  ASSUME TypeInv, QueueInv, NobodyLeft, NEW h \in Procs, UNCHANGED <<ctl, cli>>,
         \A g \in Procs : g # h => pc'[g] = pc[g], ~Gone(h), ~Pending(h) \/ ~Gone(h)'
  PROVE  NobodyLeft'
<1>1. SUFFICES ASSUME NEW d \in Procs
               PROVE  /\ \A i \in 1 .. Len(ctl[d]) : pc'[ctl[d][i].who] \notin {"normal", "done"}
                      /\ \A i \in 1 .. Len(cli[d]) : pc'[cli[d][i]] \notin {"normal", "done"}
  BY DEF NobodyLeft, Gone
<1>2. /\ \A i \in 1 .. Len(ctl[d]) : ctl[d][i].who \in Procs /\ pc[ctl[d][i].who] \notin {"normal", "done"}
      /\ \A i \in 1 .. Len(cli[d]) : cli[d][i] \in Procs /\ pc[cli[d][i]] \notin {"normal", "done"}
  BY QueueTypes DEF NobodyLeft, Gone
<1>3. CASE ~Pending(h)
  <2>1. /\ \A i \in 1 .. Len(ctl[d]) : ctl[d][i].who # h
        /\ \A i \in 1 .. Len(cli[d]) : cli[d][i] # h
    BY <1>3, NotQueued
  <2>2. QED
    BY <1>2, <2>1
<1>4. CASE pc'[h] \notin {"normal", "done"}
  BY <1>2, <1>4
<1>5. QED
  BY <1>3, <1>4 DEF Gone

(* The second connect_fb_adb_daemon of a client finds the daemon.          *)
LEMMA FindsClient ==
  ASSUME TypeInv, NEW h \in Clients, Finds(h),
         StatCache(h) \/ CacheStale(h) \/ OpenCache(h) \/ ReadCache(h) \/ Dial(h) \/ Greeted(h)
         \/ OpenNewCache(h) \/ WriteCache(h)
  PROVE  /\ Finds(h)'
         /\ pc[h] \in {"stat", "open", "read", "dial", "greet", "cache", "store"} /\ (pc[h] = "greet" => got[h] # "none")
         /\ \A g \in Procs : g # h => pc'[g] = pc[g] /\ attempt'[g] = attempt[g]
         /\ pc'[h] \notin {"normal", "done"}
<1>1. /\ h \in Procs /\ NoFile \notin Procs /\ Empty \notin Procs /\ "none" \notin Procs
      /\ pc \in [Procs -> Places] /\ got \in [Procs -> Words]
  BY DaemonAssumption DEF Procs, TypeInv, ProcsOK
<1>2. attempt \in [Procs -> 1 .. 2] /\ fd \in [Procs -> Clients \cup {NoFile}] /\ content \in [Procs -> Procs \cup {Empty}]
  BY DEF TypeInv, HostOK
<1>3. dmn \in [Procs -> {"none", "setup", "serve", "exiting", "exited"}] /\ cli \in [Procs -> Seq(Clients)]
  BY DEF TypeInv, DeviceOK
<1> DEFINE Goal == /\ Finds(h)'
                   /\ pc[h] \in {"stat", "open", "read", "dial", "greet", "cache", "store"}
                   /\ (pc[h] = "greet" => got[h] # "none")
                   /\ \A g \in Procs : g # h => pc'[g] = pc[g] /\ attempt'[g] = attempt[g]
                   /\ pc'[h] \notin {"normal", "done"}
<1>4. ASSUME NEW u \in BOOLEAN, ConnectFails(h, u), attempt[h] # 2, pc[h] \in {"stat", "open", "read", "dial", "greet"},
             pc[h] = "greet" => got[h] # "none"
      PROVE  Goal
  <2>1. attempt[h] = 1
    BY <1>1, <1>2, <1>4
  <2>2. Goto(h, "launch", Empty) /\ UNCHANGED attempt
    BY <1>4, <2>1 DEF ConnectFails
  <2>3. pc'[h] = "launch" /\ \A g \in Procs : g # h => pc'[g] = pc[g]
    BY <1>1, <2>2 DEF Goto
  <2>4. Finds(h)'
    BY <2>1, <2>2, <2>3 DEF Finds
  <2>5. QED
    BY <1>4, <2>2, <2>3, <2>4
<1>5. CASE StatCache(h) \/ CacheStale(h)
  <2>1. pc[h] = "stat"
    BY <1>5 DEF StatCache, CacheStale
  <2>2. CASE \E u \in BOOLEAN : ConnectFails(h, u) /\ (cache = NoFile \/ attempt[h] = 1)
    BY <1>1, <1>4, <2>1, <2>2 DEF Finds, Retries
  <2>3. CASE Goto(h, "open", Empty) /\ UNCHANGED <<host, device>>
    <3>1. pc'[h] = "open" /\ \A g \in Procs : g # h => pc'[g] = pc[g]
      BY <1>1, <2>3 DEF Goto
    <3>2. Finds(h)'
      BY <2>1, <2>3, <3>1 DEF Finds, Retries, Good, host, device
    <3>3. QED
      BY <2>1, <2>3, <3>1, <3>2 DEF host
  <2>4. QED
    BY <1>5, <2>2, <2>3 DEF StatCache, CacheStale
<1>6. CASE OpenCache(h)
  <2>1. pc[h] = "open"
    BY <1>6 DEF OpenCache
  <2>2. CASE cache = NoFile /\ ConnectFails(h, TRUE)
    BY <1>1, <1>4, <2>1, <2>2 DEF Finds, Retries
  <2>3. CASE Goto(h, "read", Empty) /\ fd' = [fd EXCEPT ![h] = cache] /\ UNCHANGED <<attempt, cache, content, device>>
    <3>1. pc'[h] = "read" /\ fd'[h] = cache /\ \A g \in Procs : g # h => pc'[g] = pc[g]
      BY <1>1, <1>2, <2>3 DEF Goto
    <3>2. Finds(h)'
      BY <2>1, <2>3, <3>1 DEF Finds, Retries, Good, device
    <3>3. QED
      BY <2>1, <2>3, <3>1, <3>2
  <2>4. QED
    BY <1>6, <2>2, <2>3 DEF OpenCache
<1>7. CASE ReadCache(h)
  <2>1. pc[h] = "read"
    BY <1>7 DEF ReadCache
  <2>2. CASE content[fd[h]] = Empty /\ ConnectFails(h, TRUE)
    BY <1>1, <1>4, <2>1, <2>2 DEF Finds, Retries, Good
  <2>3. CASE Goto(h, "dial", content[fd[h]]) /\ UNCHANGED <<attempt, cache, content, device>>
    <3>1. pc'[h] = "dial" /\ got'[h] = content[fd[h]] /\ \A g \in Procs : g # h => pc'[g] = pc[g]
      BY <1>1, <2>3 DEF Goto
    <3>2. Finds(h)'
      BY <2>1, <2>3, <3>1 DEF Finds, Retries, Good, device
    <3>3. QED
      BY <2>1, <2>3, <3>1, <3>2
  <2>4. QED
    BY <1>7, <2>2, <2>3 DEF ReadCache
<1>8. CASE Dial(h)
  <2>1. pc[h] = "dial" /\ got[h] \in Procs
    BY <1>1, <1>8 DEF Dial, TypeInv, Role
  <2>2. CASE ~Listening(got[h]) /\ ConnectFails(h, TRUE)
    BY <1>1, <1>4, <2>1, <2>2 DEF Finds, Retries, Good, Listening
  <2>3. CASE /\ Goto(h, "greet", "none") /\ cli' = [cli EXCEPT ![got[h]] = Append(cli[got[h]], h)]
             /\ UNCHANGED <<host, dmn>>
    <3>1. pc'[h] = "greet" /\ got'[h] = "none" /\ \A g \in Procs : g # h => pc'[g] = pc[g]
      BY <1>1, <2>3 DEF Goto
    <3>2. \E i \in 1 .. Len(cli'[got[h]]) : cli'[got[h]][i] = h
      <4>1. cli'[got[h]] = Append(cli[got[h]], h) /\ cli[got[h]] \in Seq(Clients)
        BY <1>3, <2>1, <2>3
      <4>2. Len(cli[got[h]]) \in Nat /\ Len(cli'[got[h]]) = Len(cli[got[h]]) + 1 /\ cli'[got[h]][Len(cli[got[h]]) + 1] = h
        BY <4>1, AppendProperties, LenProperties
      <4>3. QED
        BY <4>2
    <3>3. attempt[h] = 2 => got[h] \in Procs /\ Ver[got[h]] = Ver[h] /\ dmn'[got[h]] = "serve"
      BY <2>1, <2>3 DEF Finds, Retries, Good
    <3>4. Finds(h)'
      BY <2>1, <2>3, <3>1, <3>2, <3>3 DEF Finds, Retries, Good, host
    <3>5. QED
      BY <2>1, <2>3, <3>1, <3>4 DEF host
  <2>4. QED
    BY <1>8, <2>2, <2>3 DEF Dial
<1>9. CASE Greeted(h)
  <2>1. pc[h] = "greet" /\ got[h] # "none"
    BY <1>9 DEF Greeted
  <2>2. CASE ~UsableHello(h) /\ ConnectFails(h, TRUE)
    BY <1>1, <1>4, <2>1, <2>2 DEF Finds, Retries, Good, UsableHello
  <2>3. CASE Goto(h, "connected", got[h]) /\ UNCHANGED <<host, device>>
    <3>1. pc'[h] = "connected" /\ \A g \in Procs : g # h => pc'[g] = pc[g]
      BY <1>1, <2>3 DEF Goto
    <3>2. Finds(h)'
      BY <3>1 DEF Finds, Retries
    <3>3. QED
      BY <2>1, <2>3, <3>1, <3>2 DEF host
  <2>4. QED
    BY <1>9, <2>2, <2>3 DEF Greeted
<1>10. CASE OpenNewCache(h)
  <2>1. /\ pc[h] = "cache" /\ Goto(h, "store", got[h]) /\ fd' = [fd EXCEPT ![h] = cache'] /\ UNCHANGED <<attempt, device>>
        /\ cache' \in Procs
    BY <1>1, <1>10 DEF OpenNewCache, TypeInv, HostOK, Procs
  <2>2. pc'[h] = "store" /\ got'[h] = got[h] /\ fd'[h] = cache' /\ \A g \in Procs : g # h => pc'[g] = pc[g]
    BY <1>1, <1>2, <2>1 DEF Goto
  <2>3. Finds(h)'
    BY <2>1, <2>2 DEF Finds, Retries, Good, device
  <2>4. QED
    BY <2>1, <2>2, <2>3
<1>11. CASE WriteCache(h)
  <2>1. /\ pc[h] = "store" /\ Goto(h, "stat", Empty) /\ content' = [content EXCEPT ![fd[h]] = got[h]]
        /\ attempt' = [attempt EXCEPT ![h] = 2] /\ UNCHANGED <<cache, device>>
    BY <1>11 DEF WriteCache
  <2>2. pc'[h] = "stat" /\ \A g \in Procs : g # h => pc'[g] = pc[g] /\ attempt'[g] = attempt[g]
    BY <1>1, <1>2, <2>1 DEF Goto
  <2>3. cache \in Procs /\ content'[cache] = got[h] /\ Good(got[h], h)
    BY <1>2, <2>1 DEF Finds
  <2>4. Finds(h)'
    BY <2>1, <2>2, <2>3 DEF Finds, Retries, Good, device
  <2>5. QED
    BY <2>1, <2>2, <2>4
<1>12. QED
  BY <1>5, <1>6, <1>7, <1>8, <1>9, <1>10, <1>11

(* The launch of a client ends with a daemon that serves.                  *)
LEMMA FindsLaunch ==
  ASSUME TypeInv, NEW h \in Clients, Finds(h),
         ReadName(h) \/ SendCommand(h) \/ Pong(h) \/ StopReply(h) \/ Listen(h) \/ TruncateName(h) \/ WriteName(h)
  PROVE  Finds(h)'
<1>1. /\ h \in Procs /\ "none" \notin Procs /\ h \notin stopper
      /\ pc \in [Procs -> Places] /\ got \in [Procs -> Words]
  BY DaemonAssumption DEF Procs, TypeInv, ProcsOK
<1>2. UNCHANGED <<attempt, cache, content, fd>>
  BY DEF ReadName, SendCommand, Pong, StopReply, Listen, TruncateName, WriteName, host
<1>3. ASSUME NEW l \in {"ping", "kill", "stop", "listen", "stopping", "truncate", "write"}, NEW v, Goto(h, l, v)
      PROVE  Finds(h)'
  <2>1. pc'[h] = l
    BY <1>1, <1>3 DEF Goto
  <2>2. QED
    BY <1>3, <2>1 DEF Finds, Retries
<1>4. ASSUME Goto(h, "pinged", "none") PROVE Finds(h)'
  <2>1. pc'[h] = "pinged" /\ got'[h] = "none"
    BY <1>1, <1>4 DEF Goto
  <2>2. QED
    BY <1>1, <2>1 DEF Finds, Retries
<1>5. ASSUME NEW d \in Procs, Goto(h, "cache", d), Ver[d] = Ver[h], dmn'[d] = "serve" PROVE Finds(h)'
  <2>1. pc'[h] = "cache" /\ got'[h] = d
    BY <1>1, <1>5 DEF Goto
  <2>2. QED
    BY <1>5, <2>1 DEF Finds, Retries, Good
<1>6. CASE ReadName(h)
  BY <1>1, <1>3, <1>6 DEF ReadName, Unanswered, NoReuse, AfterStop
<1>7. CASE SendCommand(h)
  BY <1>1, <1>3, <1>4, <1>7 DEF SendCommand, Unanswered, NoReuse, AfterStop
<1>8. CASE Pong(h)
  <2>1. CASE UsableHello(h) /\ Launched(h, got[h])
    <3>1. got[h] \in Procs /\ Ver[got[h]] = Ver[h] /\ Goto(h, "cache", got[h]) /\ pc[h] = "pinged" /\ dmn' = dmn
      BY <1>8, <2>1 DEF UsableHello, Launched, Pong, device
    <3>2. dmn[got[h]] = "serve"
      BY <3>1 DEF Finds
    <3>3. QED
      BY <1>5, <3>1, <3>2
  <2>2. CASE NoReuse(h)
    BY <1>3, <2>2 DEF NoReuse
  <2>3. QED
    BY <1>8, <2>1, <2>2 DEF Pong
<1>9. CASE StopReply(h)
  BY <1>1, <1>3, <1>9 DEF StopReply, AfterStop
<1>10. CASE Listen(h) \/ TruncateName(h)
  BY <1>3, <1>10 DEF Listen, TruncateName
<1>11. CASE WriteName(h)
  <2>1. Goto(h, "cache", h) /\ dmn'[h] = "serve"
    BY <1>1, <1>11 DEF WriteName, Launched, TypeInv, DeviceOK
  <2>2. QED
    BY <1>1, <1>5, <2>1
<1>12. QED
  BY <1>6, <1>7, <1>8, <1>9, <1>10, <1>11

(* A process makes a connection and waits in it.                           *)
LEMMA LeftJoins ==
  ASSUME TypeInv, NobodyLeft, NEW h \in Procs, \A g \in Procs : g # h => pc'[g] = pc[g], ~Gone(h)',
         \A d \in Procs : \A i \in 1 .. Len(ctl'[d]) :
           ctl'[d][i].who = h \/ (i \in 1 .. Len(ctl[d]) /\ ctl'[d][i] = ctl[d][i]),
         \A d \in Procs : \A i \in 1 .. Len(cli'[d]) :
           cli'[d][i] = h \/ (i \in 1 .. Len(cli[d]) /\ cli'[d][i] = cli[d][i])
  PROVE  NobodyLeft'
<1>1. SUFFICES ASSUME NEW d \in Procs
               PROVE  /\ \A i \in 1 .. Len(ctl'[d]) : pc'[ctl'[d][i].who] \notin {"normal", "done"}
                      /\ \A i \in 1 .. Len(cli'[d]) : pc'[cli'[d][i]] \notin {"normal", "done"}
  BY DEF NobodyLeft, Gone
<1>2. /\ \A i \in 1 .. Len(ctl[d]) : ctl[d][i].who \in Procs /\ pc[ctl[d][i].who] \notin {"normal", "done"}
      /\ \A i \in 1 .. Len(cli[d]) : cli[d][i] \in Procs /\ pc[cli[d][i]] \notin {"normal", "done"}
  BY QueueTypes DEF NobodyLeft, Gone
<1>3. pc'[h] \notin {"normal", "done"}
  BY DEF Gone
<1>4. QED
  BY <1>2, <1>3, SMTT(30)

(* Every step of the process that is alone.                                *)
LEMMA AloneProc ==
  ASSUME TypeInv, QueueInv, OneActive, NobodyLeft, \A g \in Clients : Finds(g), NEW h \in Procs, ProcStep(h)
  PROVE  OneActive' /\ NobodyLeft' /\ \A g \in Clients : Finds(g)'
<1> DEFINE C == StatCache(h) \/ CacheStale(h) \/ OpenCache(h) \/ ReadCache(h) \/ Dial(h) \/ Greeted(h)
                \/ OpenNewCache(h) \/ WriteCache(h)
           L == ReadName(h) \/ SendCommand(h) \/ Pong(h) \/ StopReply(h) \/ Listen(h) \/ TruncateName(h) \/ WriteName(h)
<1>1. /\ pc \in [Procs -> Places] /\ got \in [Procs -> Words] /\ Clients \subseteq Procs
      /\ ctl \in [Procs -> Seq(Command)] /\ cli \in [Procs -> Seq(Clients)]
  BY DEF TypeInv, ProcsOK, DeviceOK, Procs
<1>2. ASSUME C PROVE h \in Clients
  <2>1. pc[h] \in {"stat", "open", "read", "dial", "greet", "cache", "store"}
    BY <1>2 DEF StatCache, CacheStale, OpenCache, ReadCache, Dial, Greeted, OpenNewCache, WriteCache
  <2>2. QED
    BY <2>1 DEF TypeInv, Role
<1>3. ASSUME L
      PROVE  /\ pc[h] \in {"launch", "stop", "ping", "kill", "pinged", "stopping", "listen", "truncate", "write"}
             /\ pc[h] \in {"pinged", "stopping"} => got[h] # "none"
             /\ \A g \in Procs : g # h => pc'[g] = pc[g] /\ attempt'[g] = attempt[g]
  <2>1. UNCHANGED attempt
    BY <1>3 DEF ReadName, SendCommand, Pong, StopReply, Listen, TruncateName, WriteName, host
  <2>2. \E l, v : Goto(h, l, v)
    BY <1>3 DEF ReadName, SendCommand, Pong, StopReply, Listen, TruncateName, WriteName, Unanswered, NoReuse, AfterStop, Launched
  <2>3. \A g \in Procs : g # h => pc'[g] = pc[g]
    BY <1>1, <2>2 DEF Goto
  <2>4. QED
    BY <1>3, <2>1, <2>3 DEF ReadName, SendCommand, Pong, StopReply, Listen, TruncateName, WriteName
<1>4. /\ Active(h) /\ (pc[h] \in {"pinged", "stopping", "greet"} => got[h] # "none") /\ ~Gone(h) /\ ~Pending(h)
      /\ \A g \in Procs : g # h => pc'[g] = pc[g] /\ attempt'[g] = attempt[g]
      /\ h \in Clients => Finds(h)'
  <2>1. CASE C
    <3>1. /\ pc[h] \in {"stat", "open", "read", "dial", "greet", "cache", "store"} /\ (pc[h] = "greet" => got[h] # "none")
          /\ \A g \in Procs : g # h => pc'[g] = pc[g] /\ attempt'[g] = attempt[g]
          /\ Finds(h)'
      BY <1>2, <2>1, FindsClient
    <3>2. QED
      BY <3>1 DEF Active, Gone, Pending, Waits
  <2>2. CASE L
    <3>1. h \in Clients => Finds(h)'
      BY <2>2, FindsLaunch
    <3>2. QED
      BY <1>3, <2>2, <3>1 DEF Active, Gone, Pending, Waits
  <2>3. QED
    BY <2>1, <2>2 DEF ProcStep
<1>5. OneActive' /\ \A g \in Clients : Finds(g)'
  BY <1>4, AloneSteps
<1>6. NobodyLeft'
  <2>1. CASE UNCHANGED <<ctl, cli>>
    BY <1>4, <2>1, LeftMoves
  <2>2. CASE ~UNCHANGED <<ctl, cli>> /\ C
    <3>1. /\ Goto(h, "greet", "none") /\ cli' = [cli EXCEPT ![got[h]] = Append(cli[got[h]], h)]
          /\ UNCHANGED ctl /\ got[h] \in Procs
      BY <2>2 DEF StatCache, CacheStale, OpenCache, ReadCache, Dial, Greeted, OpenNewCache, WriteCache, ConnectFails, device, Listening
    <3>2. ~Gone(h)'
      BY <1>1, <3>1 DEF Goto, Gone
    <3>3. ASSUME NEW d \in Procs, NEW i \in 1 .. Len(cli'[d])
          PROVE  cli'[d][i] = h \/ (i \in 1 .. Len(cli[d]) /\ cli'[d][i] = cli[d][i])
      <4>1. CASE d # got[h]
        BY <1>1, <3>1, <3>3, <4>1
      <4>2. CASE d = got[h]
        <5>1. cli'[d] = Append(cli[d], h) /\ cli[d] \in Seq(Clients) /\ h \in Clients
          BY <1>1, <1>2, <2>2, <3>1, <4>2
        <5>2. /\ Len(cli[d]) \in Nat /\ Len(cli'[d]) = Len(cli[d]) + 1 /\ cli'[d][Len(cli[d]) + 1] = h
              /\ \A j \in 1 .. Len(cli[d]) : cli'[d][j] = cli[d][j]
          BY <5>1, AppendProperties, LenProperties
        <5>3. QED
          BY <5>2, <3>3
      <4>3. QED
        BY <4>1, <4>2
    <3>4. QED
      BY <1>4, <3>1, <3>2, <3>3, LeftJoins
  <2>3. CASE ~UNCHANGED <<ctl, cli>> /\ L
    <3>1. PICK l \in {"pinged", "stopping"} :
            /\ Goto(h, l, "none") /\ pc[h] \in {"ping", "kill"} /\ UNCHANGED cli /\ got[h] \in Procs
            /\ ctl' = [ctl EXCEPT ![got[h]] = Append(ctl[got[h]], [who |-> h, cmd |-> pc[h]])]
      <4>1. SendCommand(h) /\ Listening(got[h])
        BY <2>3 DEF ReadName, SendCommand, Pong, StopReply, Listen, TruncateName, WriteName, device
      <4>2. QED
        BY <4>1 DEF SendCommand, Listening
    <3>2. ~Gone(h)'
      BY <1>1, <3>1 DEF Goto, Gone
    <3>3. ASSUME NEW d \in Procs, NEW i \in 1 .. Len(ctl'[d])
          PROVE  ctl'[d][i].who = h \/ (i \in 1 .. Len(ctl[d]) /\ ctl'[d][i] = ctl[d][i])
      <4>1. CASE d # got[h]
        BY <1>1, <3>1, <3>3, <4>1
      <4>2. CASE d = got[h]
        <5> DEFINE c == [who |-> h, cmd |-> pc[h]]
        <5>1. ctl'[d] = Append(ctl[d], c) /\ ctl[d] \in Seq(Command) /\ c \in Command /\ c.who = h
          BY <1>1, <3>1, <4>2 DEF Command
        <5> HIDE DEF c
        <5>2. /\ Len(ctl[d]) \in Nat /\ Len(ctl'[d]) = Len(ctl[d]) + 1 /\ ctl'[d][Len(ctl[d]) + 1] = c
              /\ \A j \in 1 .. Len(ctl[d]) : ctl'[d][j] = ctl[d][j]
          BY <5>1, AppendProperties, LenProperties
        <5>3. QED
          BY <5>1, <5>2, <3>3
      <4>3. QED
        BY <4>1, <4>2
    <3>4. QED
      BY <1>4, <3>1, <3>2, <3>3, LeftJoins
  <2>4. QED
    BY <2>1, <2>2, <2>3 DEF ProcStep
<1>7. QED
  BY <1>5, <1>6

(* Connections are accepted or closed while nobody goes on.                *)
LEMMA LeftServed ==
  ASSUME NobodyLeft, pc' = pc,
         \A d \in Procs : \A i \in 1 .. Len(ctl'[d]) : \E j \in 1 .. Len(ctl[d]) : ctl'[d][i] = ctl[d][j],
         \A d \in Procs : \A i \in 1 .. Len(cli'[d]) : \E j \in 1 .. Len(cli[d]) : cli'[d][i] = cli[d][j]
  PROVE  NobodyLeft'
<1>1. SUFFICES ASSUME NEW d \in Procs
               PROVE  /\ \A i \in 1 .. Len(ctl'[d]) : pc[ctl'[d][i].who] \notin {"normal", "done"}
                      /\ \A i \in 1 .. Len(cli'[d]) : pc[cli'[d][i]] \notin {"normal", "done"}
  BY DEF NobodyLeft, Gone
<1>2. /\ \A i \in 1 .. Len(ctl[d]) : pc[ctl[d][i].who] \notin {"normal", "done"}
      /\ \A i \in 1 .. Len(cli[d]) : pc[cli[d][i]] \notin {"normal", "done"}
  BY DEF NobodyLeft, Gone
<1>3. ASSUME NEW i \in 1 .. Len(ctl'[d]) PROVE pc[ctl'[d][i].who] \notin {"normal", "done"}
  <2>1. PICK j \in 1 .. Len(ctl[d]) : ctl'[d][i] = ctl[d][j]
    BY <1>3
  <2>2. QED
    BY <1>2, <2>1
<1>4. ASSUME NEW i \in 1 .. Len(cli'[d]) PROVE pc[cli'[d][i]] \notin {"normal", "done"}
  <2>1. PICK j \in 1 .. Len(cli[d]) : cli'[d][i] = cli[d][j]
    BY <1>4
  <2>2. QED
    BY <1>2, <2>1
<1>5. QED
  BY <1>3, <1>4

(* The queues of a daemon that accepts a connection, and of one that ends. *)
LEMMA QueueShrinks ==
  ASSUME TypeInv, NEW d \in Procs
  PROVE  /\ ctl[d] # <<>> /\ ctl' = [ctl EXCEPT ![d] = Tail(@)] =>
              \A e \in Procs : \A i \in 1 .. Len(ctl'[e]) : \E j \in 1 .. Len(ctl[e]) : ctl'[e][i] = ctl[e][j]
         /\ cli[d] # <<>> /\ cli' = [cli EXCEPT ![d] = Tail(@)] =>
              \A e \in Procs : \A i \in 1 .. Len(cli'[e]) : \E j \in 1 .. Len(cli[e]) : cli'[e][i] = cli[e][j]
         /\ Ended(d) =>
              /\ \A e \in Procs : \A i \in 1 .. Len(ctl'[e]) : \E j \in 1 .. Len(ctl[e]) : ctl'[e][i] = ctl[e][j]
              /\ \A e \in Procs : \A i \in 1 .. Len(cli'[e]) : \E j \in 1 .. Len(cli[e]) : cli'[e][i] = cli[e][j]
<1>1. ctl \in [Procs -> Seq(Command)] /\ cli \in [Procs -> Seq(Clients)] /\ ctl[d] \in Seq(Command) /\ cli[d] \in Seq(Clients)
  BY DEF TypeInv, DeviceOK
<1>2. ASSUME ctl[d] # <<>>, ctl' = [ctl EXCEPT ![d] = Tail(ctl[d])], NEW e \in Procs, NEW i \in 1 .. Len(ctl'[e])
      PROVE  \E j \in 1 .. Len(ctl[e]) : ctl'[e][i] = ctl[e][j]
  <2>1. CASE e # d
    BY <1>1, <1>2, <2>1
  <2>2. CASE e = d
    <3>1. ctl'[d] = Tail(ctl[d])
      BY <1>1, <1>2
    <3>2. /\ Len(ctl[d]) \in Nat \ {0} /\ Len(Tail(ctl[d])) = Len(ctl[d]) - 1
          /\ \A k \in 1 .. Len(Tail(ctl[d])) : Tail(ctl[d])[k] = ctl[d][k + 1]
      BY <1>1, <1>2, TailFacts
    <3>3. i \in 1 .. Len(Tail(ctl[d])) /\ i \in 1 .. (Len(ctl[d]) - 1) /\ ctl'[d][i] = Tail(ctl[d])[i]
      BY <1>2, <2>2, <3>1, <3>2
    <3>4. i + 1 \in 1 .. Len(ctl[d]) /\ ctl'[d][i] = ctl[d][i + 1]
      BY <3>2, <3>3
    <3>5. QED
      BY <2>2, <3>4
  <2>3. QED
    BY <2>1, <2>2
<1>3. ASSUME cli[d] # <<>>, cli' = [cli EXCEPT ![d] = Tail(cli[d])], NEW e \in Procs, NEW i \in 1 .. Len(cli'[e])
      PROVE  \E j \in 1 .. Len(cli[e]) : cli'[e][i] = cli[e][j]
  <2>1. CASE e # d
    BY <1>1, <1>3, <2>1
  <2>2. CASE e = d
    <3>1. cli'[d] = Tail(cli[d])
      BY <1>1, <1>3
    <3>2. /\ Len(cli[d]) \in Nat \ {0} /\ Len(Tail(cli[d])) = Len(cli[d]) - 1
          /\ \A k \in 1 .. Len(Tail(cli[d])) : Tail(cli[d])[k] = cli[d][k + 1]
      BY <1>1, <1>3, TailFacts
    <3>3. i \in 1 .. Len(Tail(cli[d])) /\ i \in 1 .. (Len(cli[d]) - 1) /\ cli'[d][i] = Tail(cli[d])[i]
      BY <1>3, <2>2, <3>1, <3>2
    <3>4. i + 1 \in 1 .. Len(cli[d]) /\ cli'[d][i] = cli[d][i + 1]
      BY <3>2, <3>3
    <3>5. QED
      BY <2>2, <3>4
  <2>3. QED
    BY <2>1, <2>2
<1>4. ASSUME Ended(d), NEW e \in Procs
      PROVE  /\ \A i \in 1 .. Len(ctl'[e]) : \E j \in 1 .. Len(ctl[e]) : ctl'[e][i] = ctl[e][j]
             /\ \A i \in 1 .. Len(cli'[e]) : \E j \in 1 .. Len(cli[e]) : cli'[e][i] = cli[e][j]
  <2>1. CASE e # d
    <3>1. ctl'[e] = ctl[e] /\ cli'[e] = cli[e]
      BY <1>1, <1>4, <2>1 DEF Ended
    <3>2. QED
      BY <3>1
  <2>2. CASE e = d
    <3>1. Len(ctl'[e]) = 0 /\ Len(cli'[e]) = 0
      BY <1>1, <1>4, <2>2 DEF Ended
    <3>2. QED
      BY <3>1
  <2>3. QED
    BY <2>1, <2>2
<1>5. QED
  BY <1>2, <1>3, <1>4

(* Daemons serve and end without disturbing the client that is alone.      *)
LEMMA AloneDaemon ==
  ASSUME TypeInv, QueueInv, OneActive, NobodyLeft, \A g \in Clients : Finds(g), NEW d \in Procs, DaemonStep(d)
  PROVE  OneActive' /\ NobodyLeft' /\ \A g \in Clients : Finds(g)'
<1>1. /\ ProcsOK /\ DeviceOK /\ Clients \subseteq Procs /\ "ok" \in Words /\ "eof" \in Words /\ d \in Words
      /\ d # "none" /\ "none" \notin Procs /\ "eof" \notin Procs /\ "ok" \notin Procs
  BY DaemonAssumption DEF TypeInv, Words, Procs
<1>2. pc' = pc /\ UNCHANGED host
  BY DEF DaemonStep, ServeControl, ServeClient, Unwind
<1>3. OneActive'
  BY <1>2 DEF OneActive, Active
<1>4. UNCHANGED <<attempt, fd, cache, content>>
  BY <1>2 DEF host
<1>5. CASE ServeControl(d)
  <2> DEFINE c == ctl[d][1]
             a == IF c.cmd = "kill" THEN "ok" ELSE d
  <2>1. ctl[d] # <<>> /\ ctl' = [ctl EXCEPT ![d] = Tail(@)] /\ cli' = cli
    BY <1>5 DEF ServeControl
  <2>2. NobodyLeft'
    BY <1>2, <2>1, LeftServed, QueueShrinks
  <2>3. Len(ctl[d]) \in Nat \ {0} /\ Head(ctl[d]) = c
    BY <1>1, <2>1, TailFacts DEF DeviceOK
  <2>4. /\ dmn[d] = "serve" /\ dmn' = [dmn EXCEPT ![d] = IF c.cmd = "kill" THEN "exiting" ELSE @]
        /\ Answer({c.who}, a)
    BY <1>5, <2>3 DEF ServeControl
  <2>5. /\ c.who \in Procs /\ got[c.who] = "none"
        /\ pc[c.who] = (IF c.cmd = "kill" THEN "stopping" ELSE "pinged") /\ Active(c.who)
    <3>1. 1 \in 1 .. Len(ctl[d])
      BY <2>3
    <3>2. ~Gone(c.who) /\ c.who \in Procs
      BY <3>1, QueueTypes DEF NobodyLeft
    <3>3. QED
      BY <3>1, <3>2 DEF QueueInv, CtlFor, Active
  <2>6. a \in Words
    BY <1>1
  <2>7. got'[c.who] = a
    BY <1>1, <2>4, <2>5, <2>6, AnswerFacts DEF Waits
  <2> HIDE DEF c
  <2>8. ASSUME NEW g \in Clients PROVE Finds(g)'
    <3>1. CASE g # c.who
      <4>1. ~Active(g) /\ Finds(g)
        BY <1>1, <2>5, <2>8, <3>1 DEF OneActive
      <4>2. QED
        BY <1>2, <1>4, <4>1, Rests
    <3>2. CASE g = c.who
      <4>1. pc'[g] \in {"stopping", "pinged"} /\ got'[g] \in {"ok", d} /\ (pc'[g] = "pinged" => dmn'[d] = "serve")
        BY <1>1, <1>2, <2>4, <2>5, <2>7, <3>2 DEF DeviceOK
      <4>2. QED
        BY <1>1, <4>1 DEF Finds, Retries
    <3>3. QED
      BY <3>1, <3>2
  <2>9. QED
    BY <1>3, <2>2, <2>8
<1>6. CASE ServeClient(d)
  <2> DEFINE c == cli[d][1]
  <2>1. cli[d] # <<>> /\ cli' = [cli EXCEPT ![d] = Tail(@)] /\ ctl' = ctl /\ dmn' = dmn /\ dmn[d] = "serve"
    BY <1>6 DEF ServeClient
  <2>2. NobodyLeft'
    BY <1>2, <2>1, LeftServed, QueueShrinks
  <2>3. Len(cli[d]) \in Nat \ {0} /\ Head(cli[d]) = c
    BY <1>1, <2>1, TailFacts DEF DeviceOK
  <2>4. c \in Procs /\ got[c] = "none" /\ pc[c] = "greet" /\ Active(c) /\ 1 \in 1 .. Len(cli[d])
    <3>1. 1 \in 1 .. Len(cli[d])
      BY <2>3
    <3>2. ~Gone(c) /\ c \in Procs
      BY <3>1, QueueTypes DEF NobodyLeft
    <3>3. QED
      BY <3>1, <3>2 DEF QueueInv, CliFor, Active
  <2>5. got'[c] = d
    BY <1>1, <1>6, <2>3, <2>4, AnswerFacts DEF ServeClient, Waits
  <2>6. ASSUME NEW g \in Clients PROVE Finds(g)'
    <3>1. CASE g # c
      <4>1. ~Active(g) /\ Finds(g)
        BY <1>1, <2>4, <2>6, <3>1 DEF OneActive
      <4>2. QED
        BY <1>2, <1>4, <4>1, Rests
    <3>2. CASE g = c
      <4>1. ASSUME attempt[g] = 2 PROVE Good(d, g)
        <5>1. PICK e \in Procs : Good(e, g) /\ \E i \in 1 .. Len(cli[e]) : cli[e][i] = g
          BY <2>4, <2>6, <3>2, <4>1 DEF Finds, Retries
        <5>2. PICK i \in 1 .. Len(cli[e]) : cli[e][i] = g
          BY <5>1
        <5>3. e = d
          BY <2>4, <3>2, <5>2 DEF QueueInv, CliOnce
        <5>4. QED
          BY <5>1, <5>3
      <4>2. pc'[g] = "greet" /\ got'[g] = d
        BY <1>2, <2>4, <2>5, <3>2
      <4>3. QED
        BY <1>1, <1>4, <2>1, <4>1, <4>2 DEF Finds, Retries, Good
    <3>3. QED
      BY <3>1, <3>2
  <2>7. QED
    BY <1>3, <2>2, <2>6
<1>7. CASE Unwind(d)
  <2>1. Ended(d) /\ dmn[d] = "exiting" /\ Answer(Queued(d), "eof")
    BY <1>7 DEF Unwind
  <2>2. NobodyLeft'
    BY <1>2, <2>1, LeftServed, QueueShrinks
  <2>3. \A e \in Procs : dmn[e] = "serve" => e # d /\ dmn'[e] = "serve" /\ cli'[e] = cli[e]
    BY <1>1, <2>1 DEF Ended, DeviceOK
  <2>4. /\ \A g \in Procs : g \in Queued(d) /\ Waits(g) => got'[g] = "eof"
        /\ \A g \in Procs : ~(g \in Queued(d) /\ Waits(g)) => got'[g] = got[g]
    BY <1>1, <2>1, AnswerFacts
  <2>5. ASSUME NEW g \in Clients PROVE Finds(g)'
    <3>1. g \in Procs /\ Finds(g) /\ pc'[g] = pc[g]
      BY <1>1, <1>2, <2>5
    <3>2. ASSUME pc[g] = "greet", attempt[g] = 2 PROVE got'[g] = got[g]
      <4>1. CASE got[g] = "none"
        <5>1. PICK e \in Procs : Good(e, g) /\ \E i \in 1 .. Len(cli[e]) : cli[e][i] = g
          BY <3>1, <3>2, <4>1 DEF Finds, Retries
        <5>2. PICK i \in 1 .. Len(cli[e]) : cli[e][i] = g
          BY <5>1
        <5>3. e # d
          BY <2>3, <5>1 DEF Good
        <5>4. \A j \in 1 .. Len(cli[d]) : cli[d][j] # g
          BY <5>2, <5>3 DEF QueueInv, CliOnce
        <5>5. \A j \in 1 .. Len(ctl[d]) : ctl[d][j].who # g
          BY <5>2 DEF QueueInv, OneKind
        <5>6. g \notin Queued(d)
          BY <5>4, <5>5 DEF Queued
        <5>7. QED
          BY <2>4, <3>1, <5>6
      <4>2. CASE got[g] # "none"
        <5>1. ~Gone(g) /\ ~Pending(g)
          BY <3>2, <4>2 DEF Gone, Pending
        <5>2. g \notin Queued(d)
          BY <3>1, <5>1, NotQueued DEF Queued
        <5>3. QED
          BY <2>4, <3>1, <5>2
      <4>3. QED
        BY <4>1, <4>2
    <3>3. pc[g] \in {"cache", "store", "dial"} => got'[g] = got[g]
      BY <2>4, <3>1 DEF Waits
    <3>4. pc'[g] = "pinged" /\ got'[g] \in Procs => dmn'[got'[g]] = "serve"
      BY <1>1, <2>3, <2>4, <3>1 DEF Finds
    <3>5. ASSUME NEW x, Good(x, g) PROVE x \in Procs /\ Ver[x] = Ver[g] /\ dmn'[x] = "serve"
      BY <2>3, <3>5 DEF Good
    <3>6. pc'[g] \in {"cache", "store"} => Good(got[g], g)'
      BY <3>1, <3>3, <3>5 DEF Finds, Good
    <3>7. attempt[g] = 2 => Retries(g)'
      <4>1. SUFFICES ASSUME attempt[g] = 2 PROVE Retries(g)'
        OBVIOUS
      <4>2. Retries(g)
        BY <3>1, <4>1 DEF Finds
      <4>3. pc[g] \in {"stat", "open"} => Good(content[cache], g)'
        BY <1>4, <3>5, <4>2 DEF Retries, Good
      <4>4. pc[g] = "read" => Good(content[fd[g]], g)'
        BY <1>4, <3>5, <4>2 DEF Retries, Good
      <4>5. pc[g] = "dial" => Good(got[g], g)'
        BY <3>3, <3>5, <4>2 DEF Retries, Good
      <4>6. pc[g] = "greet" /\ got'[g] # "none" => Good(got[g], g)'
        BY <3>2, <3>5, <4>1, <4>2 DEF Retries, Good
      <4>7. ASSUME pc[g] = "greet", got'[g] = "none"
            PROVE  \E e \in Procs : Ver[e] = Ver[g] /\ dmn'[e] = "serve" /\ \E i \in 1 .. Len(cli'[e]) : cli'[e][i] = g
        <5>1. got[g] = "none"
          BY <3>2, <4>1, <4>7
        <5>2. PICK e \in Procs : Good(e, g) /\ \E i \in 1 .. Len(cli[e]) : cli[e][i] = g
          BY <4>2, <4>7, <5>1 DEF Retries
        <5>3. QED
          BY <2>3, <5>2 DEF Good
      <4>8. QED
        BY <1>4, <3>1, <4>2, <4>3, <4>4, <4>5, <4>6, <4>7 DEF Retries, Good
    <3>8. QED
      BY <1>4, <3>1, <3>4, <3>6, <3>7 DEF Finds
  <2>6. QED
    BY <1>3, <2>2, <2>5
<1>8. QED
  BY <1>5, <1>6, <1>7 DEF DaemonStep

(* Every step.                                                             *)
LEMMA AloneNext ==
  ASSUME TypeInv, QueueInv, AloneInv, [Next]_dvars
  PROVE  AloneInv'
<1>1. SUFFICES ASSUME ~disturbed' PROVE OneActive' /\ NobodyLeft' /\ \A g \in Clients : Finds(g)'
  BY DEF AloneInv
<1>2. ~disturbed /\ (Disturb => \A h \in Procs : ~Active(h))
  BY <1>1, DisturbedStays
<1>3. OneActive /\ NobodyLeft /\ \A g \in Clients : Finds(g)
  BY <1>2 DEF AloneInv
<1>4. pc \in [Procs -> Places] /\ got \in [Procs -> Words] /\ Clients \subseteq Procs /\ Clients \cap Commands = {}
  BY DaemonAssumption DEF TypeInv, ProcsOK, Procs
<1>5. CASE UNCHANGED dvars
  BY <1>3, <1>5 DEF dvars, procs, host, device, OneActive, Active, NobodyLeft, Gone, Finds, Retries, Good
<1>6. ASSUME NEW h \in Procs, ProcStep(h) PROVE OneActive' /\ NobodyLeft' /\ \A g \in Clients : Finds(g)'
  BY <1>3, <1>6, AloneProc
<1>7. ASSUME NEW d \in Procs, DaemonStep(d) PROVE OneActive' /\ NobodyLeft' /\ \A g \in Clients : Finds(g)'
  BY <1>3, <1>7, AloneDaemon
<1>8. ASSUME NEW h \in Procs, BeginClient(h) \/ BeginStart(h) \/ BeginStop(h)
      PROVE  OneActive' /\ NobodyLeft' /\ \A g \in Clients : Finds(g)'
  <2>1. PICK l \in {"stat", "launch", "stop"} : Goto(h, l, Empty) /\ (l = "stat" \/ h \in Commands)
    BY <1>8 DEF BeginClient, BeginStart, BeginStop
  <2>2. /\ \A g \in Procs : ~Active(g)
        /\ UNCHANGED <<attempt, ctl, cli>> /\ pc[h] = "idle"
    BY <1>2, <1>8 DEF BeginClient, BeginStart, BeginStop, host, device
  <2>3. pc'[h] = l /\ \A g \in Procs : g # h => pc'[g] = pc[g]
    BY <1>4, <2>1 DEF Goto
  <2>4. h \in Clients => Finds(h)'
    <3>1. SUFFICES ASSUME h \in Clients PROVE Finds(h)'
      OBVIOUS
    <3>2. pc'[h] = "stat" /\ attempt'[h] = 1
      BY <1>3, <1>4, <2>1, <2>2, <2>3, <3>1 DEF Finds
    <3>3. QED
      BY <3>2 DEF Finds
  <2>5. NobodyLeft'
    <3>1. ~Gone(h) /\ ~Gone(h)'
      BY <2>2, <2>3 DEF Gone
    <3>2. QED
      BY <1>3, <2>2, <2>3, <3>1, LeftMoves
  <2>6. QED
    BY <1>3, <2>2, <2>3, <2>4, <2>5, AloneSteps
<1>9. ASSUME NEW d \in Procs, Timeout(d) \/ ForkFails(d) \/ DaemonKilled(d)
      PROVE  OneActive' /\ NobodyLeft' /\ \A g \in Clients : Finds(g)'
  <2>1. /\ \A g \in Procs : ~Active(g)
        /\ pc' = pc /\ UNCHANGED attempt
    BY <1>2, <1>9 DEF Timeout, ForkFails, DaemonKilled, Fail, host, procs
  <2>2. OneActive'
    BY <2>1 DEF OneActive, Active
  <2>3. \A g \in Clients : Finds(g)'
    BY <1>3, <1>4, <2>1, Rests
  <2>4. NobodyLeft'
    <3>1. CASE Timeout(d)
      BY <1>3, <2>1, <3>1, LeftServed DEF Timeout
    <3>2. CASE ForkFails(d)
      BY <1>3, <2>1, <3>2, LeftServed, QueueShrinks DEF ForkFails
    <3>3. CASE DaemonKilled(d)
      BY <1>3, <2>1, <3>3, LeftServed, QueueShrinks DEF DaemonKilled
    <3>4. QED
      BY <1>9, <3>1, <3>2, <3>3
  <2>5. QED
    BY <2>2, <2>3, <2>4
<1>10. ASSUME NEW h \in Procs, SetupFails(h) \/ Killed(h) PROVE FALSE
  <2>1. Disturb /\ Active(h)
    BY <1>10 DEF SetupFails, Killed, Fail, Active
  <2>2. QED
    BY <1>2, <2>1
<1>11. QED
  BY <1>5, <1>6, <1>7, <1>8, <1>9, <1>10 DEF Next, Failure, Over

(* A client that is alone finds or starts a daemon and connects to it,     *)
(* whatever an earlier process left in the device's file, in the cache     *)
(* file or among the daemons (connect_fb_adb_daemon, run_stub_daemon).     *)
THEOREM AloneConnects == Spec => []AloneGetsDaemon
<1>1. Init => TypeInv /\ QueueInv /\ AloneInv
  BY TypeInit, QueueInit, AloneInit
<1>2. TypeInv /\ QueueInv /\ AloneInv /\ [Next]_dvars => (TypeInv /\ QueueInv /\ AloneInv)'
  BY TypeNext, QueueNext, AloneNext
<1>3. AloneInv => AloneGetsDaemon
  BY DEF AloneInv, AloneGetsDaemon, Finds
<1>4. QED
  BY <1>1, <1>2, <1>3, PTL DEF Spec

=============================================================================

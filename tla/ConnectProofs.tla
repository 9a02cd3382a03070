---------------------------- MODULE ConnectProofs ---------------------------
(***************************************************************************)
(* Proofs about Connect, for any clients, builds, requests, devices and    *)
(* numbers of faults: what is sent is understood, the stub that serves a   *)
(* session runs as asked, and an attempt fails only for a reason.          *)
(***************************************************************************)
EXTENDS Connect, TLAPS

----------------------------------------------------------------------------
(* The inductive invariant.  It is stated for each client, since clients   *)
(* meet only in the installed file, the copy and hurt.                     *)

(* What may be left to do.                                                 *)
H == <<"hello">>
UH == <<"upgrade", "hello">>
SH == <<"switch", "hello">>
SUH == <<"switch", "upgrade", "hello">>
USH == <<"upgrade", "switch", "hello">>

ToSwitch(c) == cl[c].todo \in {SH, SUH, USH}
ToUpgrade(c) == cl[c].todo \in {UH, SUH, USH}

(* Who a re-exec leads to, and the message for it.                         *)
Other(c) == IF req[c].user = "root" THEN "root" ELSE "app"
ExecType(c) == IF req[c].user = "root" THEN "execRoot" ELSE "execUser"

Alive(c) == stub[c].pc # "dead"

(* The encoding in which the stub reads what the client sends next.        *)
Expects(c) == IF stub[c].pc = "accept" /\ conn[c] THEN "raw" ELSE Reader(stub[c])

Listens(c) == stub[c].pc = "read" \/ (stub[c].pc = "accept" /\ conn[c])

Idle(c) == to[c] = <<>> /\ from[c] = <<>>
Sent(c, type) ==
  /\ to[c] = <<[type |-> type, enc |-> cl[c].writer, thunk |-> cl[c].thunk]>>
  /\ from[c] = <<>>
OwnLine(c) == Line(stub[c].ver, stub[c].uid, "")
Got(c) == from[c] = <<Head(from[c])>>

(* The stub's build, user and transport, as far as they are settled.       *)
Fits(c) ==
  /\ req[c].user # "root" => stub[c].ver = Ver[c]
  /\ ~ToSwitch(c) /\ req[c].user \in {"root", "app"} => stub[c].uid = req[c].user
OnSocket(c) == ~ToUpgrade(c) /\ req[c].transport \in {"unix", "tcp"} => cl[c].writer = "raw"
Upgradable(c) == ToUpgrade(c) => ~conn[c] /\ ~stub[c].rebound

AtStart(c) ==
  cl[c].pc \in {"try", "send", "rename", "cat"} =>
    /\ cl[c].writer = "adb" /\ cl[c].monitor /\ ~conn[c] /\ stub[c].pc \in {"none", "dead"}

AtHello(c) ==
  cl[c].pc = "awaitHello" =>
    /\ cl[c].writer = "adb" /\ cl[c].monitor /\ ~conn[c]
    /\ stub[c].in = "pty" /\ ~stub[c].rebound /\ stub[c].uid = dev.uid
    /\ to[c] = <<>>
    /\ stub[c].path = IF cl[c].phase = "probe" THEN "tmp" ELSE "file"
    /\ \/ stub[c].pc = "boot" /\ from[c] = <<>>
       \/ stub[c].pc = "read" /\ from[c] = <<OwnLine(c)>>
       \/ stub[c].pc = "dead" /\ (from[c] = <<>> \/ (Got(c) /\ Head(from[c]).kind = "line"))
    /\ cl[c].phase = "probe" /\ from[c] # <<>> => Head(from[c]).ver \in {"none", tmp[c]}

AtNext(c) ==
  cl[c].pc = "next" =>
    /\ cl[c].todo \in {H, UH, SH, SUH, USH}
    /\ ToSwitch(c) => req[c].user \in {"root", "app"}
    /\ from[c] = <<>>
    /\ Alive(c) =>
         /\ Listens(c) /\ Idle(c) /\ Expects(c) = cl[c].writer
         /\ Fits(c) /\ OnSocket(c) /\ Upgradable(c)

AtSwitch(c) ==
  cl[c].pc = "awaitSwitch" =>
    /\ cl[c].todo \in {H, UH} /\ req[c].user \in {"root", "app"}
    /\ Alive(c) =>
         /\ Expects(c) = cl[c].writer /\ OnSocket(c) /\ Upgradable(c)
         /\ \/ Listens(c) /\ Sent(c, ExecType(c))
            \/ stub[c].pc \in {"boot", "thunk", "move"} /\ Idle(c) /\ stub[c].uid = Other(c)
            \/ /\ stub[c].pc = "read" /\ to[c] = <<>> /\ from[c] = <<OwnLine(c)>>
               /\ stub[c].uid = Other(c)
    /\ ~Alive(c) => from[c] = <<>> \/ (Got(c) /\ Head(from[c]).kind = "line")

AtUpgrade(c) ==
  /\ cl[c].pc \in {"awaitListening", "forwarded", "accept"} =>
       /\ cl[c].todo \in {H, SH}
       /\ ToSwitch(c) => req[c].user \in {"root", "app"}
       /\ Alive(c) => Fits(c)
  /\ cl[c].pc = "awaitListening" =>
       /\ Alive(c) =>
            /\ ~conn[c] /\ Reader(stub[c]) = cl[c].writer
            /\ \/ stub[c].pc = "read" /\ ~stub[c].rebound /\ Sent(c, "rebindUnix")
               \/ stub[c].pc = "accept" /\ to[c] = <<>> /\ from[c] = <<Msg("listening")>>
       /\ ~Alive(c) => from[c] = <<>> \/ (Got(c) /\ Head(from[c]).kind # "line")
  /\ cl[c].pc = "forwarded" => stub[c].pc \in {"accept", "dead"} /\ (Alive(c) => ~conn[c])
  /\ cl[c].pc = "accept" /\ Alive(c) =>
       /\ stub[c].pc = "read"
       /\ \/ ~conn[c] /\ ~stub[c].rebound /\ Reader(stub[c]) = cl[c].writer /\ Sent(c, "rebindTcp")
          \/ conn[c] /\ stub[c].in = "sock" /\ Idle(c)

AtEnd(c) ==
  /\ cl[c].pc = "done" /\ Alive(c) =>
       /\ cl[c].todo = <<>> /\ Fits(c) /\ OnSocket(c)
       /\ \/ Listens(c) /\ Expects(c) = cl[c].writer /\ Sent(c, "hello")
          \/ stub[c].pc = "session" /\ Reader(stub[c]) = cl[c].writer
  /\ cl[c].pc = "exited" /\ Alive(c) =>
       /\ stub[c].pc = "session"
       /\ req[c].user \in {"root", "app"} => stub[c].uid = req[c].user
       /\ req[c].transport \in {"unix", "tcp"} => stub[c].in = "sock"
  /\ cl[c].pc \in {"failed", "exitedFailed", "killed"} => ~Alive(c)

(* What does not depend on where the client is.                            *)
Always(c) ==
  /\ stub[c].why # "garbled"
  /\ stub[c].pc \in {"read", "accept"} => stub[c].packets
  /\ sig[c] => ~Alive(c)
  /\ c \in fwd => cl[c].pc \in {"forwarded", "killed"}
  /\ cl[c].pc \in {"exited", "exitedFailed"} => tmp[c] = "none"
  /\ cl[c].pc \in {"rename", "cat"} => tmp[c] = Ver[c]

Talks(c) ==
  AtStart(c) /\ AtHello(c) /\ AtNext(c) /\ AtSwitch(c) /\ AtUpgrade(c) /\ AtEnd(c) /\ Always(c)

(* What more is true of a client that can connect and that nothing and     *)
(* nobody has disturbed: its stub lives, ...                               *)
StubLives(c) ==
  /\ cl[c].pc # "failed"
  /\ cl[c].pc \in {"next", "awaitListening", "forwarded", "accept"} => Alive(c)
  /\ cl[c].pc \in {"awaitSwitch", "awaitListening", "forwarded", "accept"} => cl[c].monitor
  /\ cl[c].pc = "next" /\ ~cl[c].monitor => cl[c].todo = H
  /\ cl[c].pc = "awaitListening" => req[c].transport = "unix"
  /\ cl[c].pc = "accept" => req[c].transport = "tcp"
  /\ cl[c].pc \in {"next", "awaitListening", "forwarded", "accept"} /\ ToSwitch(c) =>
       cl[c].monitor /\ (req[c].user = "root" => dev.su)

(* ... is or will be installed, ...                                        *)
Installed(c) ==
  /\ cl[c].pc \in {"next", "awaitSwitch", "awaitListening", "forwarded", "accept"} /\ cl[c].monitor =>
       file = Ver[c]
  /\ cl[c].pc \in {"try", "awaitHello"} /\ cl[c].phase = "final" => file = Ver[c]
  /\ cl[c].pc \in {"try", "awaitHello"} /\ cl[c].phase = "installed" => cl[c].i = 0
  /\ cl[c].pc = "send" => cl[c].i <= dev.abi
  /\ cl[c].pc \in {"try", "awaitHello"} /\ cl[c].phase = "probe" =>
       cl[c].i <= dev.abi /\ tmp[c] = IF cl[c].i = dev.abi THEN Ver[c] ELSE "alien"

Greets(c) ==
  cl[c].pc = "awaitHello" =>
    /\ ~Alive(c) => Got(c) /\ Head(from[c]).ver = "none"
    /\ stub[c].pc = "read" /\ cl[c].phase # "probe" /\ stub[c].ver = Ver[c] => file = Ver[c]
    /\ cl[c].phase = "final" \/ (cl[c].phase = "probe" /\ cl[c].i = dev.abi) =>
         Alive(c) /\ (stub[c].pc = "read" => stub[c].ver = Ver[c])

(* ... and is re-execed, or the client is told what to do instead.         *)
Switches(c) ==
  cl[c].pc = "awaitSwitch" =>
    /\ req[c].user = "root" => Alive(c) /\ dev.su
    /\ ~Alive(c) =>
         /\ Got(c) /\ Head(from[c]).ver = "none"
         /\ \/ Head(from[c]).err = dev.runas /\ dev.runas # ""
            \/ Head(from[c]).err = "denied" /\ ~cl[c].thunk
    /\ stub[c].pc \in {"thunk", "move"} => req[c].user = "app"
    /\ stub[c].pc = "move" => stub[c].ver = Ver[c]
    /\ stub[c].pc = "boot" =>
         /\ req[c].user = "root" => stub[c].path = "file"
         /\ cl[c].thunk /\ req[c].user = "app" => stub[c].path = "copy"
         /\ stub[c].path = "copy" => copy = Ver[c]
         /\ stub[c].path # "tmp"
    /\ from[c] # <<>> /\ Alive(c) => stub[c].ver = Ver[c]

Smooth(c) == StubLives(c) /\ Installed(c) /\ Greets(c) /\ Switches(c)

Undisturbed(c) == ~hurt[c] /\ Able(c) => Smooth(c)

ClientPcs ==
  {"try", "awaitHello", "send", "rename", "cat", "next", "awaitSwitch", "awaitListening",
   "forwarded", "accept", "done", "failed", "exited", "exitedFailed", "killed"}
StubPcs == {"none", "boot", "thunk", "move", "read", "accept", "session", "dead"}
Uids == {"shell", "root", "app"}

ClientRecords ==
  [pc : ClientPcs, phase : {"installed", "probe", "final"}, i : Nat, oldAdb : BOOLEAN,
   thunk : BOOLEAN, todo : {<<>>, H, UH, SH, SUH, USH}, writer : {"adb", "raw"}, monitor : BOOLEAN]
StubRecords ==
  [pc : StubPcs, ver : Builds \cup {"none"}, uid : Uids, in : {"pty", "sock"},
   path : {"file", "tmp", "copy"}, rebound : BOOLEAN, packets : BOOLEAN,
   why : {"", "garbled", "error", "switch", "exec", "lost"}]

ConnectTypeOK ==
  /\ dev \in Devices
  /\ req \in [Clients -> [user : {"shell", "root", "app"}, transport : {"shell", "unix", "tcp"}]]
  /\ cl \in [Clients -> ClientRecords] /\ stub \in [Clients -> StubRecords]
  /\ DOMAIN to = Clients /\ DOMAIN from = Clients /\ DOMAIN tmp = Clients
  /\ conn \in [Clients -> BOOLEAN] /\ sig \in [Clients -> BOOLEAN]
  /\ hurt \in [Clients -> BOOLEAN]

ConnectInv == ConnectTypeOK /\ \A c \in Clients : Talks(c) /\ Undisturbed(c)

----------------------------------------------------------------------------
(* Facts about the operators.                                              *)

LEMMA OneFacts ==
  ASSUME NEW x
  PROVE  /\ Append(<<>>, x) = <<x>> /\ Head(<<x>>) = x /\ Tail(<<x>>) = <<>> /\ <<x>> # <<>>
OBVIOUS

LEMMA TodoFacts ==
  /\ Head(H) = "hello" /\ Tail(H) = <<>>
  /\ Head(UH) = "upgrade" /\ Tail(UH) = H
  /\ Head(SH) = "switch" /\ Tail(SH) = H
  /\ Head(SUH) = "switch" /\ Tail(SUH) = UH
  /\ Head(USH) = "upgrade" /\ Tail(USH) = SH
BY DEF H, UH, SH, SUH, USH

LEMMA TodoDistinct ==
  /\ H \notin {<<>>, UH, SH, SUH, USH} /\ UH \notin {<<>>, SH, SUH, USH}
  /\ SH \notin {<<>>, SUH, USH} /\ SUH \notin {<<>>, USH} /\ USH # <<>>
BY DEF H, UH, SH, SUH, USH

LEMMA DevFacts ==
  ASSUME ConnectTypeOK
  PROVE  /\ dev.api \in Nat /\ dev.abi \in Nat /\ dev.abi # 0 /\ dev.uid \in {"shell", "root"}
         /\ dev.runas \in {"", "unknown", "notPermitted"}
         /\ dev.oldAdb \in BOOLEAN /\ dev.mv \in BOOLEAN /\ dev.selinux \in BOOLEAN
         /\ dev.su \in BOOLEAN /\ dev.net \in BOOLEAN /\ dev.bind \in BOOLEAN
         /\ dev.service \in BOOLEAN
BY ConnectAssumption DEF ConnectTypeOK

LEMMA PlanFacts ==
  ASSUME ConnectTypeOK, NEW c \in Clients
  PROVE  Plan(c) = IF req[c].user = "app" THEN (IF dev.api < 19 THEN USH ELSE SUH)
                   ELSE IF req[c].user = "root" /\ dev.uid # "root" THEN SUH ELSE UH
<1>1. dev.api \in Nat
  BY DevFacts
<1>2. CASE req[c].user = "app" /\ dev.api < 19
  BY <1>1, <1>2 DEF Plan, USH
<1>3. CASE req[c].user = "app" /\ dev.api >= 19
  BY <1>1, <1>3 DEF Plan, SUH
<1>4. CASE req[c].user = "root" /\ dev.uid # "root"
  BY <1>4 DEF Plan, SUH
<1>5. CASE req[c].user # "app" /\ ~(req[c].user = "root" /\ dev.uid # "root")
  BY <1>5 DEF Plan, UH
<1> QED
  BY <1>1, <1>2, <1>3, <1>4, <1>5

LEMMA BuildFacts ==
  ASSUME NEW c \in Clients
  PROVE  /\ Ver[c] \in Builds /\ Ver[c] \notin {"none", "part", "alien"}
         /\ "none" \notin Builds /\ "part" \notin Builds /\ "alien" \notin Builds
BY ConnectAssumption DEF Builds

----------------------------------------------------------------------------
(* What a step of client c or of its stub leaves alone of the others.      *)

Apart(c) ==
  /\ dev' = dev /\ req' = req
  /\ \A d \in Clients \ {c} :
       /\ cl'[d] = cl[d] /\ stub'[d] = stub[d] /\ to'[d] = to[d] /\ from'[d] = from[d]
       /\ conn'[d] = conn[d] /\ sig'[d] = sig[d] /\ tmp'[d] = tmp[d]
       /\ d \in fwd' <=> d \in fwd
       /\ hurt[d] => hurt'[d]
       /\ ~hurt'[d] => file' \in {file, Ver[d]} /\ copy' \in {copy, Ver[d]}

LEMMA UntouchedKeeps ==
  ASSUME ConnectInv, NEW d \in Clients,
         /\ cl'[d] = cl[d] /\ stub'[d] = stub[d] /\ to'[d] = to[d] /\ from'[d] = from[d]
         /\ conn'[d] = conn[d] /\ sig'[d] = sig[d] /\ tmp'[d] = tmp[d]
         /\ d \in fwd' <=> d \in fwd
         /\ hurt[d] => hurt'[d]
         /\ ~hurt'[d] => file' \in {file, Ver[d]} /\ copy' \in {copy, Ver[d]}
         /\ dev' = dev /\ req' = req
  PROVE  Talks(d)' /\ Undisturbed(d)'
<1>1. /\ cl'[d] = cl[d] /\ stub'[d] = stub[d] /\ to'[d] = to[d] /\ from'[d] = from[d]
      /\ conn'[d] = conn[d] /\ sig'[d] = sig[d] /\ tmp'[d] = tmp[d]
      /\ d \in fwd' <=> d \in fwd
      /\ hurt[d] => hurt'[d]
      /\ ~hurt'[d] => file' \in {file, Ver[d]} /\ copy' \in {copy, Ver[d]}
      /\ dev' = dev /\ req' = req
  OBVIOUS
<1>2. Talks(d) /\ Undisturbed(d)
  BY DEF ConnectInv
<1>3. /\ ToSwitch(d)' <=> ToSwitch(d)
      /\ ToUpgrade(d)' <=> ToUpgrade(d)
      /\ Alive(d)' <=> Alive(d)
      /\ Listens(d)' <=> Listens(d)
      /\ Idle(d)' <=> Idle(d)
      /\ Got(d)' <=> Got(d)
      /\ \A type : Sent(d, type)' <=> Sent(d, type)
      /\ Expects(d)' = Expects(d) /\ OwnLine(d)' = OwnLine(d)
      /\ Other(d)' = Other(d) /\ ExecType(d)' = ExecType(d)
  BY <1>1 DEF ToSwitch, ToUpgrade, Alive, Listens, Idle, Got, Sent, Expects, OwnLine, Other, ExecType
<1>4. /\ Fits(d)' <=> Fits(d)
      /\ OnSocket(d)' <=> OnSocket(d)
      /\ Upgradable(d)' <=> Upgradable(d)
      /\ Able(d)' <=> Able(d)
  BY <1>1, <1>3 DEF Fits, OnSocket, Upgradable, Able
<1>5. Talks(d)'
  <2>1. AtStart(d)'
    BY <1>1, <1>2 DEF Talks, AtStart
  <2>2. AtHello(d)'
    BY <1>1, <1>2, <1>3 DEF Talks, AtHello
  <2>3. AtNext(d)'
    BY <1>1, <1>2, <1>3, <1>4 DEF Talks, AtNext
  <2>4. AtSwitch(d)'
    BY <1>1, <1>2, <1>3, <1>4 DEF Talks, AtSwitch
  <2>5. AtUpgrade(d)'
    BY <1>1, <1>2, <1>3, <1>4 DEF Talks, AtUpgrade
  <2>6. AtEnd(d)'
    BY <1>1, <1>2, <1>3, <1>4 DEF Talks, AtEnd
  <2>7. Always(d)'
    BY <1>1, <1>2, <1>3, <1>4 DEF Talks, Always
  <2> QED
    BY <2>1, <2>2, <2>3, <2>4, <2>5, <2>6, <2>7 DEF Talks
<1>6. ASSUME ~hurt'[d], Able(d)' PROVE Smooth(d)'
  <2>1. Smooth(d)
    BY <1>1, <1>2, <1>4, <1>6 DEF Undisturbed
  <2>2. StubLives(d)'
    BY <1>1, <1>3, <2>1 DEF Smooth, StubLives
  <2>3. Installed(d)'
    BY <1>1, <1>6, <2>1 DEF Smooth, Installed
  <2>4. Greets(d)'
    BY <1>1, <1>3, <1>6, <2>1 DEF Smooth, Greets
  <2>5. Switches(d)'
    BY <1>1, <1>3, <1>6, <2>1 DEF Smooth, Switches
  <2> QED
    BY <2>2, <2>3, <2>4, <2>5 DEF Smooth
<1> QED
  BY <1>5, <1>6 DEF Undisturbed

LEMMA ApartKeeps ==
  ASSUME ConnectInv, NEW c \in Clients, Apart(c), NEW d \in Clients, d # c
  PROVE  Talks(d)' /\ Undisturbed(d)'
BY UntouchedKeeps DEF Apart

----------------------------------------------------------------------------
(* The steps of client c.  What each must show:                            *)
Kept(c) == ConnectTypeOK' /\ Apart(c) /\ Talks(c)' /\ Undisturbed(c)'

LEMMA ActorFacts ==
  ASSUME ConnectInv, NEW c \in Clients
  PROVE  /\ Talks(c) /\ Undisturbed(c) /\ ConnectTypeOK
         /\ cl[c] \in ClientRecords /\ stub[c] \in StubRecords
         /\ conn[c] \in BOOLEAN /\ sig[c] \in BOOLEAN /\ hurt[c] \in BOOLEAN
         /\ req[c].user \in {"shell", "root", "app"} /\ req[c].transport \in {"shell", "unix", "tcp"}
BY DEF ConnectInv, ConnectTypeOK

LEMMA FailKept ==
  ASSUME ConnectInv, NEW c \in Clients, Fail(c), UNCHANGED local, c \notin fwd,
         Able(c) => hurt[c]
  PROVE  Kept(c)
<1>1. /\ cl[c] \in ClientRecords /\ stub[c] \in StubRecords /\ ConnectTypeOK /\ Talks(c)
  BY ActorFacts
<1>2. /\ cl' = [cl EXCEPT ![c].pc = "failed"] /\ stub' = [stub EXCEPT ![c].pc = "dead"]
      /\ UNCHANGED <<to, from, conn, sig, dev, req, file, copy, tmp, faults, hurt, fwd>>
  BY DEF Fail, local, localButFwd
<1>3. /\ cl'[c] = [cl[c] EXCEPT !.pc = "failed"] /\ stub'[c] = [stub[c] EXCEPT !.pc = "dead"]
      /\ \A d \in Clients \ {c} : cl'[d] = cl[d] /\ stub'[d] = stub[d]
  BY <1>1, <1>2 DEF ConnectTypeOK
<1>4. /\ cl'[c].pc = "failed" /\ cl'[c].monitor = cl[c].monitor
      /\ stub'[c].pc = "dead" /\ stub'[c].why = stub[c].why
      /\ cl'[c] \in ClientRecords /\ stub'[c] \in StubRecords
  BY <1>1, <1>3 DEF ClientRecords, StubRecords, ClientPcs, StubPcs
<1>5. ConnectTypeOK'
  BY <1>1, <1>2, <1>4 DEF ConnectTypeOK
<1>6. Apart(c)
  BY <1>2, <1>3 DEF Apart
<1>7. Talks(c)'
  BY <1>1, <1>2, <1>4 DEF Talks, AtStart, AtHello, AtNext, AtSwitch, AtUpgrade, AtEnd, Always, Alive
<1>8. Undisturbed(c)'
  BY <1>2 DEF Undisturbed, Able
<1> QED
  BY <1>5, <1>6, <1>7, <1>8 DEF Kept

LEMMA LostConnectionKept ==
  ASSUME ConnectInv, NEW c \in Clients, LostConnection(c)
  PROVE  Kept(c)
<1>1. Talks(c) /\ Undisturbed(c) /\ hurt[c] \in BOOLEAN
  BY ActorFacts
<1>2. c \notin fwd
  BY <1>1 DEF LostConnection, Talks, Always
<1>3. ASSUME Smooth(c) PROVE FALSE
  BY <1>3, OneFacts DEF LostConnection, Smooth, StubLives, Greets, Switches, Got, Alive
<1>4. Able(c) => hurt[c]
  BY <1>1, <1>3 DEF Undisturbed
<1> QED
  BY <1>2, <1>4, FailKept DEF LostConnection

LEMMA ExitKept ==
  ASSUME ConnectInv, NEW c \in Clients, Exit(c)
  PROVE  Kept(c)
<1>1. /\ cl[c] \in ClientRecords /\ stub[c] \in StubRecords /\ ConnectTypeOK /\ Talks(c)
      /\ req[c].user \in {"shell", "root", "app"} /\ req[c].transport \in {"shell", "unix", "tcp"}
  BY ActorFacts
<1> DEFINE e == IF cl[c].pc = "done" THEN "exited" ELSE "exitedFailed"
<1>2. /\ cl[c].pc \in {"done", "failed"} /\ stub[c].pc \in {"session", "dead"}
      /\ cl' = [cl EXCEPT ![c] = [cl[c] EXCEPT !.pc = e]]
      /\ tmp' = [tmp EXCEPT ![c] = "none"]
      /\ UNCHANGED <<stub, to, from, conn, sig, dev, req, file, copy, faults, hurt, fwd>>
  BY <1>1 DEF Exit, ConnectTypeOK
<1>3. e \in {"exited", "exitedFailed"} /\ (e = "exited" <=> cl[c].pc = "done")
  OBVIOUS
<1> HIDE DEF e
<1>4. /\ cl'[c] = [cl[c] EXCEPT !.pc = e] /\ tmp'[c] = "none" /\ DOMAIN tmp' = Clients
      /\ \A d \in Clients \ {c} : cl'[d] = cl[d] /\ tmp'[d] = tmp[d]
  BY <1>1, <1>2 DEF ConnectTypeOK
<1>5. /\ cl'[c].pc = e /\ cl'[c].monitor = cl[c].monitor /\ cl'[c] \in ClientRecords
  BY <1>1, <1>3, <1>4 DEF ClientRecords, ClientPcs
<1>6. ConnectTypeOK'
  BY <1>1, <1>2, <1>4, <1>5 DEF ConnectTypeOK
<1>7. Apart(c)
  BY <1>2, <1>4 DEF Apart
<1>8. AtEnd(c)'
  <2>1. CASE stub[c].pc = "dead"
    BY <1>2, <1>3, <1>5, <2>1 DEF AtEnd, Alive
  <2>2. CASE stub[c].pc = "session"
    <3>1. cl[c].pc = "done"
      BY <1>1, <1>2, <2>2 DEF Talks, AtEnd, Alive
    <3>2. /\ cl[c].todo = <<>> /\ Fits(c) /\ OnSocket(c) /\ Reader(stub[c]) = cl[c].writer
      BY <1>1, <2>2, <3>1 DEF Talks, AtEnd, Alive, Listens
    <3>3. ~ToSwitch(c) /\ ~ToUpgrade(c)
      BY <3>2, TodoDistinct DEF ToSwitch, ToUpgrade
    <3>4. /\ req[c].user \in {"root", "app"} => stub[c].uid = req[c].user
          /\ req[c].transport \in {"unix", "tcp"} => stub[c].in = "sock"
      BY <1>1, <3>2, <3>3 DEF Fits, OnSocket, Reader, StubRecords
    <3> QED
      BY <1>2, <1>3, <1>5, <2>2, <3>1, <3>4 DEF AtEnd, Alive
  <2> QED
    BY <1>2, <2>1, <2>2
<1>9. Talks(c)'
  BY <1>1, <1>2, <1>3, <1>4, <1>5, <1>8 DEF Talks, AtStart, AtHello, AtNext, AtSwitch, AtUpgrade, Always, Alive
<1>10. Undisturbed(c)'
  BY <1>3, <1>5 DEF Undisturbed, Smooth, StubLives, Installed, Greets, Switches
<1> QED
  BY <1>6, <1>7, <1>9, <1>10 DEF Kept

LEMMA TryStubKept ==
  ASSUME ConnectInv, NEW c \in Clients, TryStub(c)
  PROVE  Kept(c)
<1>1. /\ cl[c] \in ClientRecords /\ stub[c] \in StubRecords /\ ConnectTypeOK /\ Talks(c)
      /\ Undisturbed(c) /\ cl[c].pc = "try"
  BY ActorFacts DEF TryStub
<1>2. /\ to' = [to EXCEPT ![c] = <<>>] /\ from' = [from EXCEPT ![c] = <<>>]
      /\ UNCHANGED <<conn, dev, req, file, copy, tmp, faults, hurt, fwd>>
  BY DEF TryStub, local, localButFwd
<1>3. /\ to'[c] = <<>> /\ from'[c] = <<>> /\ DOMAIN to' = Clients /\ DOMAIN from' = Clients
      /\ \A d \in Clients \ {c} : to'[d] = to[d] /\ from'[d] = from[d]
  BY <1>1, <1>2 DEF ConnectTypeOK
<1>4. /\ cl[c].writer = "adb" /\ cl[c].monitor /\ ~conn[c] /\ stub[c].pc \in {"none", "dead"}
      /\ c \notin fwd
  BY <1>1 DEF Talks, AtStart, Always
<1>5. CASE dev.oldAdb /\ ~cl[c].oldAdb
  <2>1. /\ cl' = [cl EXCEPT ![c] = [cl[c] EXCEPT !.oldAdb = TRUE]] /\ UNCHANGED <<stub, sig>>
    BY <1>1, <1>5 DEF TryStub, ConnectTypeOK
  <2>2. /\ cl'[c] = [cl[c] EXCEPT !.oldAdb = TRUE]
        /\ \A d \in Clients \ {c} : cl'[d] = cl[d]
    BY <1>1, <2>1 DEF ConnectTypeOK
  <2>3. /\ cl'[c].pc = "try" /\ cl'[c].monitor = cl[c].monitor /\ cl'[c].writer = cl[c].writer
        /\ cl'[c].phase = cl[c].phase /\ cl'[c].i = cl[c].i /\ cl'[c] \in ClientRecords
    BY <1>1, <2>2 DEF ClientRecords
  <2>4. ConnectTypeOK'
    BY <1>1, <1>2, <1>3, <2>1, <2>3 DEF ConnectTypeOK
  <2>5. Apart(c)
    BY <1>2, <1>3, <2>1, <2>2 DEF Apart
  <2>6. Talks(c)'
    BY <1>1, <1>2, <1>3, <1>4, <2>1, <2>3
       DEF Talks, AtStart, AtHello, AtNext, AtSwitch, AtUpgrade, AtEnd, Always, Alive
  <2>7. Undisturbed(c)'
    BY <1>1, <1>2, <2>1, <2>3
       DEF Undisturbed, Able, Smooth, StubLives, Installed, Greets, Switches, ToSwitch
  <2> QED
    BY <2>4, <2>5, <2>6, <2>7 DEF Kept
<1>6. CASE ~(dev.oldAdb /\ ~cl[c].oldAdb)
  <2> DEFINE p == IF cl[c].phase = "probe" THEN "tmp" ELSE "file"
             S == [NoStub EXCEPT !.pc = "boot", !.uid = dev.uid, !.path = p]
  <2>1. /\ cl' = [cl EXCEPT ![c] = [cl[c] EXCEPT !.pc = "awaitHello"]]
        /\ stub' = [stub EXCEPT ![c] = S] /\ sig' = [sig EXCEPT ![c] = FALSE]
    BY <1>1, <1>6 DEF TryStub, ConnectTypeOK
  <2>2. /\ S.pc = "boot" /\ S.uid = dev.uid /\ S.path = p /\ S.in = "pty" /\ S.rebound = FALSE
        /\ S.why = "" /\ S \in StubRecords
    BY ZenonT(60), <1>1, DevFacts DEF NoStub, StubRecords, StubPcs, Uids
  <2> HIDE DEF S
  <2>3. /\ cl'[c] = [cl[c] EXCEPT !.pc = "awaitHello"] /\ stub'[c] = S /\ sig'[c] = FALSE
        /\ \A d \in Clients \ {c} : cl'[d] = cl[d] /\ stub'[d] = stub[d] /\ sig'[d] = sig[d]
        /\ sig' \in [Clients -> BOOLEAN]
    BY <1>1, <2>1 DEF ConnectTypeOK
  <2>4. /\ cl'[c].pc = "awaitHello" /\ cl'[c].monitor = cl[c].monitor
        /\ cl'[c].writer = cl[c].writer
        /\ cl'[c].phase = cl[c].phase /\ cl'[c].i = cl[c].i /\ cl'[c] \in ClientRecords
    BY <1>1, <2>3 DEF ClientRecords, ClientPcs
  <2>5. ConnectTypeOK'
    BY <1>1, <1>2, <1>3, <2>1, <2>2, <2>3, <2>4 DEF ConnectTypeOK
  <2>6. Apart(c)
    BY <1>2, <1>3, <2>3 DEF Apart
  <2>7. AtHello(c)'
    BY ZenonT(60), <1>2, <1>3, <1>4, <2>2, <2>3, <2>4 DEF AtHello
  <2>8. Talks(c)'
    BY <1>1, <1>2, <1>4, <2>2, <2>3, <2>4, <2>7
       DEF Talks, AtStart, AtNext, AtSwitch, AtUpgrade, AtEnd, Always, Alive
  <2>9. ASSUME ~hurt'[c], Able(c)' PROVE Smooth(c)'
    <3>1. Smooth(c)
      BY <1>1, <1>2, <2>9 DEF Undisturbed, Able
    <3>2. StubLives(c)' /\ Switches(c)'
      BY <2>4 DEF StubLives, Switches
    <3>3. Installed(c)'
      BY <1>1, <1>2, <2>4, <3>1 DEF Smooth, Installed
    <3>4. Greets(c)'
      BY <2>2, <2>3 DEF Greets, Alive
    <3> QED
      BY <3>2, <3>3, <3>4 DEF Smooth
  <2>10. Undisturbed(c)'
    BY <2>9 DEF Undisturbed
  <2> QED
    BY <2>5, <2>6, <2>8, <2>10 DEF Kept
<1> QED
  BY <1>5, <1>6

LEMMA SendStubKept ==
  ASSUME ConnectInv, NEW c \in Clients, SendStub(c)
  PROVE  Kept(c)
<1>1. /\ cl[c] \in ClientRecords /\ stub[c] \in StubRecords /\ ConnectTypeOK /\ Talks(c)
      /\ Undisturbed(c) /\ cl[c].pc = "send"
  BY ActorFacts DEF SendStub
<1> DEFINE f == IF cl[c].i = dev.abi THEN Ver[c] ELSE "alien"
<1>2. /\ cl' = [cl EXCEPT ![c] = [cl[c] EXCEPT !.pc = "try", !.phase = "probe"]]
      /\ tmp' = [tmp EXCEPT ![c] = f]
      /\ UNCHANGED <<dev, req, file, copy, stub, to, from, conn, sig, faults, hurt, fwd>>
  BY <1>1 DEF SendStub, adb_send_file, ConnectTypeOK
<1>3. /\ cl'[c] = [cl[c] EXCEPT !.pc = "try", !.phase = "probe"]
      /\ tmp'[c] = f /\ DOMAIN tmp' = Clients
      /\ \A d \in Clients \ {c} : cl'[d] = cl[d] /\ tmp'[d] = tmp[d]
  BY <1>1, <1>2 DEF ConnectTypeOK
<1>4. /\ cl'[c].pc = "try" /\ cl'[c].phase = "probe" /\ cl'[c].monitor = cl[c].monitor
      /\ cl'[c].writer = cl[c].writer /\ cl'[c].i = cl[c].i /\ cl'[c] \in ClientRecords
  BY <1>1, <1>3 DEF ClientRecords, ClientPcs
<1>5. ConnectTypeOK'
  BY <1>1, <1>2, <1>3, <1>4 DEF ConnectTypeOK
<1>6. Apart(c)
  BY <1>2, <1>3 DEF Apart
<1>7. Talks(c)'
  BY <1>1, <1>2, <1>4
     DEF Talks, AtStart, AtHello, AtNext, AtSwitch, AtUpgrade, AtEnd, Always, Alive
<1>8. ASSUME ~hurt'[c], Able(c)' PROVE Smooth(c)'
  <2>1. Smooth(c)
    BY <1>1, <1>2, <1>8 DEF Undisturbed, Able
  <2>2. StubLives(c)' /\ Switches(c)' /\ Greets(c)'
    BY <1>4 DEF StubLives, Switches, Greets
  <2>3. cl[c].i <= dev.abi
    BY <1>1, <2>1 DEF Smooth, Installed
  <2>4. Installed(c)'
    BY <1>2, <1>3, <1>4, <2>3 DEF Installed
  <2> QED
    BY <2>2, <2>4 DEF Smooth
<1>9. Undisturbed(c)'
  BY <1>8 DEF Undisturbed
<1> QED
  BY <1>5, <1>6, <1>7, <1>9 DEF Kept

(* The file becomes what client c has sent, under its final name.          *)
LEMMA RenamedKept ==
  ASSUME ConnectInv, NEW c \in Clients, cl[c].pc \in {"rename", "cat"},
         file' = tmp[c], tmp' = [tmp EXCEPT ![c] = "none"],
         cl' = [cl EXCEPT ![c] = [cl[c] EXCEPT !.pc = "try", !.phase = "final"]],
         Meddle(c, tmp[c]),
         UNCHANGED <<dev, req, copy, stub, to, from, conn, sig, faults, fwd>>
  PROVE  Kept(c)
<1>1. /\ cl[c] \in ClientRecords /\ stub[c] \in StubRecords /\ ConnectTypeOK /\ Talks(c)
      /\ Undisturbed(c)
  BY ActorFacts
<1>2. tmp[c] = Ver[c]
  BY <1>1 DEF Talks, Always
<1>3. /\ cl'[c] = [cl[c] EXCEPT !.pc = "try", !.phase = "final"]
      /\ tmp'[c] = "none" /\ DOMAIN tmp' = Clients
      /\ \A d \in Clients \ {c} : cl'[d] = cl[d] /\ tmp'[d] = tmp[d]
  BY <1>1 DEF ConnectTypeOK
<1>4. /\ cl'[c].pc = "try" /\ cl'[c].phase = "final" /\ cl'[c].monitor = cl[c].monitor
      /\ cl'[c].writer = cl[c].writer /\ cl'[c] \in ClientRecords
  <2>1. cl[c] \in ClientRecords /\ cl'[c] = [cl[c] EXCEPT !.pc = "try", !.phase = "final"]
    BY <1>1, <1>3
  <2> QED
    BY ONLY <2>1 DEF ClientRecords, ClientPcs
<1>5. /\ hurt' \in [Clients -> BOOLEAN] /\ (hurt[c] => hurt'[c])
      /\ \A d \in Clients \ {c} : (hurt[d] => hurt'[d]) /\ (~hurt'[d] => file' = Ver[d])
  BY <1>1, <1>2 DEF Meddle, ConnectTypeOK
<1>6. ConnectTypeOK'
  BY <1>1, <1>3, <1>4, <1>5 DEF ConnectTypeOK
<1>7. Apart(c)
  BY <1>3, <1>5 DEF Apart
<1>8. Talks(c)'
  BY <1>1, <1>3, <1>4
     DEF Talks, AtStart, AtHello, AtNext, AtSwitch, AtUpgrade, AtEnd, Always, Alive
<1>9. Undisturbed(c)'
  BY <1>1, <1>2, <1>4, <1>5
     DEF Undisturbed, Able, Smooth, StubLives, Installed, Greets, Switches, ToSwitch
<1> QED
  BY <1>6, <1>7, <1>8, <1>9 DEF Kept


LEMMA RenameKept ==
  ASSUME ConnectInv, NEW c \in Clients, Rename(c)
  PROVE  Kept(c)
<1>1. /\ cl[c] \in ClientRecords /\ stub[c] \in StubRecords /\ ConnectTypeOK /\ Talks(c)
      /\ Undisturbed(c) /\ cl[c].pc = "rename"
  BY ActorFacts DEF Rename
<1>2. CASE dev.mv
  BY <1>1, <1>2, RenamedKept DEF Rename, ConnectTypeOK
<1>3. CASE ~dev.mv
  <2>1. /\ cl' = [cl EXCEPT ![c] = [cl[c] EXCEPT !.pc = "cat"]] /\ file' = "part"
        /\ Meddle(c, "part")
        /\ UNCHANGED <<dev, req, copy, tmp, stub, to, from, conn, sig, faults, fwd>>
    BY <1>1, <1>3 DEF Rename, ConnectTypeOK
  <2>2. /\ cl'[c] = [cl[c] EXCEPT !.pc = "cat"]
        /\ \A d \in Clients \ {c} : cl'[d] = cl[d]
    BY <1>1, <2>1 DEF ConnectTypeOK
  <2>3. /\ cl'[c].pc = "cat" /\ cl'[c].monitor = cl[c].monitor
        /\ cl'[c].writer = cl[c].writer /\ cl'[c] \in ClientRecords
    BY <1>1, <2>2 DEF ClientRecords, ClientPcs
  <2>4. /\ hurt' \in [Clients -> BOOLEAN]
        /\ \A d \in Clients \ {c} : hurt'[d]
    BY <1>1, <2>1, BuildFacts DEF Meddle, ConnectTypeOK
  <2>5. ConnectTypeOK'
    BY <1>1, <2>1, <2>3, <2>4 DEF ConnectTypeOK
  <2>6. Apart(c)
    BY <2>1, <2>2, <2>4 DEF Apart
  <2>7. Talks(c)'
    BY <1>1, <2>1, <2>3
       DEF Talks, AtStart, AtHello, AtNext, AtSwitch, AtUpgrade, AtEnd, Always, Alive
  <2>8. Smooth(c)'
    BY <2>3 DEF Smooth, StubLives, Installed, Greets, Switches
  <2> QED
    BY <2>5, <2>6, <2>7, <2>8 DEF Kept, Undisturbed
<1> QED
  BY <1>2, <1>3

LEMMA CatDoneKept ==
  ASSUME ConnectInv, NEW c \in Clients, CatDone(c)
  PROVE  Kept(c)
<1>1. cl[c] \in ClientRecords /\ ConnectTypeOK /\ cl[c].pc = "cat"
  BY ActorFacts DEF CatDone
<1> QED
  BY <1>1, RenamedKept DEF CatDone, ConnectTypeOK

(* What a client may read when it waits for a stub's first line.           *)
LEMMA HelloRead ==
  ASSUME ConnectInv, NEW c \in Clients, cl[c].pc = "awaitHello", from[c] # <<>>
  PROVE  /\ from[c] = <<Head(from[c])>> /\ Tail(from[c]) = <<>>
         /\ \/ stub[c].pc = "read" /\ Head(from[c]).ver = stub[c].ver
            \/ stub[c].pc = "dead"
         /\ cl[c].phase = "probe" => Head(from[c]).ver \in {"none", tmp[c]}
<1>1. AtHello(c)
  BY ActorFacts DEF Talks
<1>2. from[c] = <<Head(from[c])>> /\ Tail(from[c]) = <<>>
  BY <1>1, OneFacts DEF AtHello, Got
<1>3. OwnLine(c).ver = stub[c].ver
  BY DEF OwnLine, Line
<1> QED
  BY <1>1, <1>2, <1>3, OneFacts DEF AtHello

LEMMA ReadHelloKept ==
  ASSUME ConnectInv, NEW c \in Clients, ReadHello(c)
  PROVE  Kept(c)
<1>1. /\ cl[c] \in ClientRecords /\ stub[c] \in StubRecords /\ ConnectTypeOK /\ Talks(c)
      /\ Undisturbed(c) /\ cl[c].pc = "awaitHello" /\ from[c] # <<>> /\ hurt[c] \in BOOLEAN
      /\ req[c].user \in {"shell", "root", "app"} /\ req[c].transport \in {"shell", "unix", "tcp"}
  BY ActorFacts DEF ReadHello
<1>2. UNCHANGED <<dev, req, file, copy, tmp, faults, hurt, fwd>>
  BY DEF ReadHello, local, localButFwd
<1>3. /\ from[c] = <<Head(from[c])>> /\ Tail(from[c]) = <<>>
      /\ \/ stub[c].pc = "read" /\ Head(from[c]).ver = stub[c].ver
         \/ stub[c].pc = "dead"
      /\ cl[c].phase = "probe" => Head(from[c]).ver \in {"none", tmp[c]}
  BY <1>1, HelloRead
<1>4. /\ cl[c].writer = "adb" /\ cl[c].monitor /\ ~conn[c]
      /\ stub[c].in = "pty" /\ ~stub[c].rebound /\ stub[c].uid = dev.uid
      /\ to[c] = <<>> /\ c \notin fwd /\ stub[c].why # "garbled"
  BY <1>1 DEF Talks, AtHello, Always
<1>5. Ver[c] # "none"
  BY BuildFacts
<1> DEFINE good == Head(from[c]).ver = Ver[c]
           phase == cl[c].phase
           fresh == phase = "installed" \/ (phase = "probe" /\ cl[c].i < NStubs)
<1>6. CASE good /\ phase # "probe"
  <2> DEFINE k == [cl[c] EXCEPT !.pc = "next", !.todo = Plan(c),
                                !.thunk = @ \/ (req[c].user = "app" /\ dev.api >= 21)]
  <2>1. /\ cl' = [cl EXCEPT ![c] = k] /\ from' = [from EXCEPT ![c] = Tail(@)]
        /\ UNCHANGED <<stub, to, conn, sig>>
    BY <1>1, <1>6 DEF ReadHello, ConnectTypeOK
  <2>2. Plan(c) \in {UH, SUH, USH}
    BY <1>1, PlanFacts
  <2>3. /\ k.pc = "next" /\ k.todo = Plan(c) /\ k.monitor = cl[c].monitor
        /\ k.writer = cl[c].writer /\ k \in ClientRecords
    BY <1>1, <2>2 DEF ClientRecords, ClientPcs
  <2> HIDE DEF k
  <2>4. /\ cl'[c] = k /\ from'[c] = <<>> /\ DOMAIN from' = Clients
        /\ \A d \in Clients \ {c} : cl'[d] = cl[d] /\ from'[d] = from[d]
    BY <1>1, <1>3, <2>1 DEF ConnectTypeOK
  <2>5. ConnectTypeOK'
    BY <1>1, <1>2, <2>1, <2>3, <2>4 DEF ConnectTypeOK
  <2>6. Apart(c)
    BY <1>2, <2>1, <2>4 DEF Apart
  <2>7. ToUpgrade(c)' /\ (ToSwitch(c)' <=> req[c].user = "app" \/ (req[c].user = "root" /\ dev.uid # "root"))
    BY <1>1, <2>3, <2>4, PlanFacts, TodoDistinct DEF ToUpgrade, ToSwitch
  <2>8. AtNext(c)'
    <3>1. /\ cl'[c].todo \in {H, UH, SH, SUH, USH}
          /\ ToSwitch(c)' => req'[c].user \in {"root", "app"}
          /\ from'[c] = <<>>
      BY <1>2, <2>2, <2>3, <2>4, <2>7
    <3>2. CASE stub[c].pc = "read"
      <4>1. Listens(c)' /\ Idle(c)' /\ Expects(c)' = cl'[c].writer
        BY <1>4, <2>1, <2>3, <2>4, <3>2 DEF Listens, Idle, Expects, Reader
      <4>2. Fits(c)'
        BY <1>2, <1>3, <1>4, <1>6, <2>1, <2>7, <3>2 DEF Fits
      <4>3. OnSocket(c)' /\ Upgradable(c)'
        BY <1>4, <2>1, <2>7 DEF OnSocket, Upgradable
      <4> QED
        BY <3>1, <4>1, <4>2, <4>3 DEF AtNext
    <3>3. CASE stub[c].pc = "dead"
      BY <2>1, <3>1, <3>3 DEF AtNext, Alive
    <3> QED
      BY <1>3, <3>2, <3>3
  <2>9. Talks(c)'
    BY <1>1, <1>2, <1>4, <2>1, <2>3, <2>4, <2>8
       DEF Talks, AtStart, AtHello, AtSwitch, AtUpgrade, AtEnd, Always, Alive
  <2>10. ASSUME ~hurt'[c], Able(c)' PROVE Smooth(c)'
    <3>1. Smooth(c)
      BY <1>1, <1>2, <2>10 DEF Undisturbed, Able
    <3>2. Alive(c)
      BY <1>1, <1>5, <1>6, <3>1 DEF Smooth, Greets
    <3>3. file = Ver[c]
      BY <1>1, <1>3, <1>6, <3>1, <3>2 DEF Smooth, Greets, Alive
    <3>4. ToSwitch(c)' /\ req[c].user = "root" => dev.su
      BY <1>2, <2>7, <2>10 DEF Able
    <3>5. StubLives(c)'
      BY <1>2, <1>4, <2>1, <2>3, <2>4, <3>2, <3>4 DEF StubLives, Alive
    <3>6. Installed(c)' /\ Greets(c)' /\ Switches(c)'
      BY <1>2, <2>3, <2>4, <3>3 DEF Installed, Greets, Switches
    <3> QED
      BY <3>5, <3>6 DEF Smooth
  <2> QED
    BY <2>5, <2>6, <2>9, <2>10 DEF Kept, Undisturbed
<1>7. CASE (good /\ phase = "probe") \/ (~good /\ fresh)
  <2> DEFINE k == IF good THEN [cl[c] EXCEPT !.pc = "rename"]
                  ELSE [cl[c] EXCEPT !.pc = "send", !.i = @ + 1]
  <2>1. Reap(c) /\ cl' = [cl EXCEPT ![c] = k]
    BY <1>1, <1>7 DEF ReadHello, ConnectTypeOK
  <2>2. /\ k.pc = (IF good THEN "rename" ELSE "send") /\ k.monitor = cl[c].monitor
        /\ k.writer = cl[c].writer /\ (~good => k.i = cl[c].i + 1) /\ k \in ClientRecords
    <3>1. cl[c] \in ClientRecords /\ cl[c].i + 1 \in Nat
      BY <1>1 DEF ClientRecords
    <3> HIDE DEF good
    <3>2. CASE good
      BY ONLY <3>1, <3>2 DEF ClientRecords, ClientPcs
    <3>3. CASE ~good
      BY ONLY <3>1, <3>3 DEF ClientRecords, ClientPcs
    <3> QED
      BY <3>2, <3>3
  <2> HIDE DEF k
  <2>3. /\ cl'[c] = k /\ stub'[c] = [stub[c] EXCEPT !.pc = "dead"]
        /\ to'[c] = <<>> /\ from'[c] = <<>> /\ DOMAIN to' = Clients /\ DOMAIN from' = Clients
        /\ sig' \in [Clients -> BOOLEAN] /\ ~sig'[c] /\ conn' = conn
        /\ \A d \in Clients \ {c} :
             /\ cl'[d] = cl[d] /\ stub'[d] = stub[d] /\ to'[d] = to[d] /\ from'[d] = from[d]
             /\ sig'[d] = sig[d]
    BY <1>1, <2>1 DEF ConnectTypeOK, Reap
  <2>4. stub'[c].pc = "dead" /\ stub'[c].why = stub[c].why /\ stub'[c] \in StubRecords
    BY <1>1, <2>3 DEF StubRecords, StubPcs
  <2>5. ConnectTypeOK'
    <3>1. cl' \in [Clients -> ClientRecords] /\ stub' \in [Clients -> StubRecords]
      BY <1>1, <2>1, <2>2, <2>3, <2>4 DEF ConnectTypeOK, Reap
    <3> QED
      BY <1>1, <1>2, <2>3, <3>1 DEF ConnectTypeOK
  <2>6. Apart(c)
    BY <1>2, <2>3 DEF Apart
  <2>7. good => tmp[c] = Ver[c]
    BY <1>3, <1>5, <1>7
  <2>8. Talks(c)'
    BY <1>2, <1>4, <2>2, <2>3, <2>4, <2>7
       DEF Talks, AtStart, AtHello, AtNext, AtSwitch, AtUpgrade, AtEnd, Always, Alive
  <2>9. ASSUME ~hurt'[c], Able(c)' PROVE Smooth(c)'
    <3>1. Smooth(c)
      BY <1>1, <1>2, <2>9 DEF Undisturbed, Able
    <3>2. ASSUME ~good PROVE cl[c].i + 1 <= dev.abi
      <4>1. dev.abi \in Nat /\ dev.abi # 0 /\ cl[c].i \in Nat
        BY <1>1, DevFacts DEF ClientRecords
      <4>2. CASE phase = "installed"
        BY <1>1, <3>1, <4>1, <4>2 DEF Smooth, Installed
      <4>3. CASE phase = "probe"
        <5>1. cl[c].i <= dev.abi
          BY <1>1, <3>1, <4>3 DEF Smooth, Installed
        <5>2. cl[c].i # dev.abi
          BY <1>1, <1>3, <3>1, <3>2, <4>3 DEF Smooth, Greets, Alive
        <5> QED
          BY <4>1, <5>1, <5>2
      <4> QED
        BY <1>7, <3>2, <4>2, <4>3
    <3>3. StubLives(c)' /\ Greets(c)' /\ Switches(c)'
      BY <2>2, <2>3 DEF StubLives, Greets, Switches
    <3>4. Installed(c)'
      BY <1>2, <2>2, <2>3, <3>2 DEF Installed
    <3> QED
      BY <3>3, <3>4 DEF Smooth
  <2> QED
    BY <2>5, <2>6, <2>8, <2>9 DEF Kept, Undisturbed
<1>8. CASE ~good /\ ~fresh
  <2>1. Fail(c) /\ UNCHANGED local
    BY <1>8 DEF ReadHello
  <2>2. ASSUME Smooth(c), Able(c) PROVE FALSE
    <3>1. ~(cl[c].phase = "final" \/ (cl[c].phase = "probe" /\ cl[c].i = dev.abi))
      BY <1>1, <1>3, <1>8, <2>2 DEF Smooth, Greets, Alive
    <3>2. phase = "probe" /\ ~(cl[c].i < NStubs)
      BY <1>1, <1>8, <3>1 DEF ClientRecords
    <3>3. cl[c].i <= dev.abi /\ dev.abi <= NStubs
      BY <1>1, <2>2, <3>2 DEF Smooth, Installed, Able
    <3>4. cl[c].i \in Nat /\ dev.abi \in Nat /\ NStubs \in Nat
      BY <1>1, DevFacts, ConnectAssumption DEF ClientRecords
    <3> QED
      BY <3>1, <3>2, <3>3, <3>4
  <2> QED
    BY <1>1, <1>4, <2>1, <2>2, FailKept DEF Undisturbed
<1> QED
  BY <1>6, <1>7, <1>8


(* A client goes on with what is left to do; and sends a message.          *)
LEMMA GotoFacts ==
  ASSUME ConnectTypeOK, NEW c \in Clients, NEW pc \in ClientPcs, Goto(c, pc),
         cl[c].todo \in {H, UH, SH, SUH, USH}
  PROVE  /\ cl' \in [Clients -> ClientRecords]
         /\ cl'[c].pc = pc /\ cl'[c].todo = Tail(cl[c].todo)
         /\ cl'[c].writer = cl[c].writer /\ cl'[c].thunk = cl[c].thunk
         /\ cl'[c].monitor <=> cl[c].monitor
         /\ \A d \in Clients \ {c} : cl'[d] = cl[d]
<1>1. cl \in [Clients -> ClientRecords] /\ cl[c] \in ClientRecords
  BY DEF ConnectTypeOK
<1> DEFINE t == Tail(cl[c].todo)
<1>2. t \in {<<>>, H, UH, SH, SUH, USH}
  BY TodoFacts
<1>3. cl' = [cl EXCEPT ![c] = [cl[c] EXCEPT !.pc = pc, !.todo = t]]
  BY <1>1 DEF Goto
<1> HIDE DEF t
<1>4. cl'[c] = [cl[c] EXCEPT !.pc = pc, !.todo = t] /\ \A d \in Clients \ {c} : cl'[d] = cl[d]
  BY <1>1, <1>3
<1>5. /\ cl'[c].pc = pc /\ cl'[c].todo = t /\ cl'[c].writer = cl[c].writer
      /\ cl'[c].thunk = cl[c].thunk /\ cl'[c].monitor = cl[c].monitor
      /\ cl'[c] \in ClientRecords
  BY <1>1, <1>2, <1>4 DEF ClientRecords
<1>6. cl' \in [Clients -> ClientRecords]
  BY <1>1, <1>3, <1>4, <1>5
<1> QED
  BY <1>4, <1>5, <1>6 DEF t

LEMMA SendFacts ==
  ASSUME ConnectTypeOK, NEW c \in Clients, NEW type, Send(c, type)
  PROVE  /\ DOMAIN to' = Clients
         /\ \A d \in Clients \ {c} : to'[d] = to[d]
         /\ to[c] = <<>> =>
              to'[c] = <<[type |-> type, enc |-> cl[c].writer, thunk |-> cl[c].thunk]>>
<1>1. to' = [to EXCEPT ![c] = Append(to[c], [type |-> type, enc |-> cl[c].writer, thunk |-> cl[c].thunk])]
  BY DEF Send
<1>2. /\ DOMAIN to' = Clients
      /\ \A d \in Clients \ {c} : to'[d] = to[d]
      /\ to'[c] = Append(to[c], [type |-> type, enc |-> cl[c].writer, thunk |-> cl[c].thunk])
  BY <1>1 DEF ConnectTypeOK
<1> QED
  BY <1>2, OneFacts

LEMMA SwitchKept ==
  ASSUME ConnectInv, NEW c \in Clients, Switch(c)
  PROVE  Kept(c)
<1>1. /\ ConnectTypeOK /\ Talks(c) /\ Undisturbed(c) /\ cl[c].pc = "next"
      /\ cl[c].todo \in {H, UH, SH, SUH, USH} /\ Head(cl[c].todo) = "switch"
  BY ActorFacts DEF Switch, Todo, Talks, AtNext
<1>2. /\ Goto(c, "awaitSwitch") /\ Send(c, ExecType(c))
      /\ UNCHANGED <<stub, from, conn, sig, dev, req, file, copy, tmp, faults, hurt, fwd>>
  BY DEF Switch, ExecType, local, localButFwd
<1>3. cl[c].todo \in {SH, SUH}
  BY <1>1, TodoFacts
<1>4. /\ ToSwitch(c) /\ cl[c].todo # H /\ Tail(cl[c].todo) \in {H, UH}
      /\ (Tail(cl[c].todo) = UH <=> ToUpgrade(c))
  BY <1>3, TodoFacts, TodoDistinct DEF ToSwitch, ToUpgrade
<1>5. /\ cl' \in [Clients -> ClientRecords]
      /\ cl'[c].pc = "awaitSwitch" /\ cl'[c].todo = Tail(cl[c].todo)
      /\ cl'[c].writer = cl[c].writer /\ cl'[c].thunk = cl[c].thunk
      /\ cl'[c].monitor <=> cl[c].monitor
      /\ \A d \in Clients \ {c} : cl'[d] = cl[d]
  BY <1>1, <1>2, GotoFacts DEF ClientPcs
<1>6. /\ DOMAIN to' = Clients
      /\ \A d \in Clients \ {c} : to'[d] = to[d]
      /\ to[c] = <<>> =>
           to'[c] = <<[type |-> ExecType(c), enc |-> cl[c].writer, thunk |-> cl[c].thunk]>>
  BY <1>1, <1>2, SendFacts
<1>7. ConnectTypeOK'
  BY <1>1, <1>2, <1>5, <1>6 DEF ConnectTypeOK
<1>8. Apart(c)
  BY <1>2, <1>5, <1>6 DEF Apart
<1>9. AtSwitch(c)'
  <2>1. /\ cl'[c].todo \in {H, UH} /\ req'[c].user \in {"root", "app"} /\ from'[c] = <<>>
    BY <1>1, <1>2, <1>4, <1>5 DEF Talks, AtNext
  <2>2. ASSUME Alive(c)'
        PROVE  /\ Expects(c)' = cl'[c].writer /\ OnSocket(c)' /\ Upgradable(c)'
               /\ Listens(c)' /\ Sent(c, ExecType(c))'
    <3>1. /\ Listens(c) /\ Idle(c) /\ Expects(c) = cl[c].writer
          /\ OnSocket(c) /\ Upgradable(c)
      BY <1>1, <1>2, <2>2 DEF Talks, AtNext, Alive
    <3>2. ToUpgrade(c)' <=> ToUpgrade(c)
      BY <1>4, <1>5, TodoDistinct DEF ToUpgrade
    <3>3. Expects(c)' = cl'[c].writer /\ Listens(c)'
      BY <1>2, <1>5, <3>1 DEF Expects, Listens
    <3>4. OnSocket(c)' /\ Upgradable(c)'
      BY <1>2, <1>5, <3>1, <3>2 DEF OnSocket, Upgradable
    <3>5. ExecType(c)' = ExecType(c)
      BY <1>2 DEF ExecType
    <3>6. Sent(c, ExecType(c))'
      BY <1>2, <1>5, <1>6, <3>1, <3>5 DEF Sent, Idle
    <3> QED
      BY <3>3, <3>4, <3>6
  <2> QED
    BY <2>1, <2>2 DEF AtSwitch
<1>10. Talks(c)'
  BY <1>1, <1>2, <1>5, <1>9
     DEF Talks, AtStart, AtHello, AtNext, AtUpgrade, AtEnd, Always, Alive
<1>11. ASSUME ~hurt'[c], Able(c)' PROVE Smooth(c)'
  <2>1. Smooth(c)
    BY <1>1, <1>2, <1>11 DEF Undisturbed, Able
  <2>2. cl[c].monitor /\ Alive(c) /\ file = Ver[c] /\ (req[c].user = "root" => dev.su)
    BY <1>1, <1>4, <2>1 DEF Smooth, StubLives, Installed
  <2>3. stub[c].pc \in {"read", "accept"} /\ from[c] = <<>>
    BY <1>1, <2>2 DEF Talks, AtNext, Listens
  <2>4. StubLives(c)' /\ Installed(c)' /\ Greets(c)'
    BY <1>2, <1>5, <2>2 DEF StubLives, Installed, Greets, Alive
  <2>5. Switches(c)'
    BY <1>2, <2>2, <2>3 DEF Switches, Alive
  <2> QED
    BY <2>4, <2>5 DEF Smooth
<1> QED
  BY <1>7, <1>8, <1>10, <1>11 DEF Kept, Undisturbed

LEMMA UpgradeKept ==
  ASSUME ConnectInv, NEW c \in Clients, Upgrade(c)
  PROVE  Kept(c)
<1>1. /\ ConnectTypeOK /\ Talks(c) /\ Undisturbed(c) /\ cl[c].pc = "next"
      /\ cl[c].todo \in {H, UH, SH, SUH, USH} /\ Head(cl[c].todo) = "upgrade"
      /\ req[c].transport \in {"shell", "unix", "tcp"}
  BY ActorFacts DEF Upgrade, Todo, Talks, AtNext
<1>2. UNCHANGED <<stub, from, conn, sig, dev, req, file, copy, tmp, faults, hurt, fwd>>
  BY DEF Upgrade, local, localButFwd
<1> DEFINE pc == IF req[c].transport = "shell" THEN "next"
                 ELSE IF req[c].transport = "unix" THEN "awaitListening" ELSE "accept"
           type == IF req[c].transport = "unix" THEN "rebindUnix" ELSE "rebindTcp"
<1>3. /\ Goto(c, pc)
      /\ IF req[c].transport = "shell" THEN to' = to ELSE Send(c, type)
  BY <1>1 DEF Upgrade
<1>4. cl[c].todo \in {UH, USH}
  BY <1>1, TodoFacts
<1>5. /\ ToUpgrade(c) /\ cl[c].todo # H /\ Tail(cl[c].todo) \in {H, SH}
      /\ (Tail(cl[c].todo) = SH <=> ToSwitch(c))
  BY <1>4, TodoFacts, TodoDistinct DEF ToSwitch, ToUpgrade
<1>6. pc \in ClientPcs
  BY DEF ClientPcs
<1>7. /\ cl' \in [Clients -> ClientRecords]
      /\ cl'[c].pc = pc /\ cl'[c].todo = Tail(cl[c].todo)
      /\ cl'[c].writer = cl[c].writer /\ cl'[c].thunk = cl[c].thunk
      /\ cl'[c].monitor <=> cl[c].monitor
      /\ \A d \in Clients \ {c} : cl'[d] = cl[d]
  <2> HIDE DEF pc
  <2> QED
    BY <1>1, <1>3, <1>6, GotoFacts
<1>8. /\ DOMAIN to' = Clients
      /\ \A d \in Clients \ {c} : to'[d] = to[d]
      /\ to[c] = <<>> /\ req[c].transport # "shell" =>
           to'[c] = <<[type |-> type, enc |-> cl[c].writer, thunk |-> cl[c].thunk]>>
      /\ req[c].transport = "shell" => to' = to
  <2> HIDE DEF type
  <2> QED
    BY <1>1, <1>3, SendFacts DEF ConnectTypeOK
<1>9. ConnectTypeOK'
  BY <1>1, <1>2, <1>7, <1>8 DEF ConnectTypeOK
<1>10. Apart(c)
  BY <1>2, <1>7, <1>8 DEF Apart
<1>11. /\ ToSwitch(c)' <=> ToSwitch(c)
       /\ ~ToUpgrade(c)'
       /\ Alive(c)' <=> Alive(c)
       /\ cl'[c].todo \in {H, SH} /\ (ToSwitch(c)' => req'[c].user \in {"root", "app"})
       /\ from'[c] = <<>>
  <2>1. ToSwitch(c) => req[c].user \in {"root", "app"}
    BY <1>1 DEF Talks, AtNext
  <2>2. from[c] = <<>>
    BY <1>1 DEF Talks, AtNext
  <2> QED
    BY <1>2, <1>5, <1>7, <2>1, <2>2, TodoDistinct DEF ToSwitch, ToUpgrade, Alive
<1>12. ASSUME Alive(c)
       PROVE  /\ Listens(c) /\ Idle(c) /\ Expects(c) = cl[c].writer
              /\ Fits(c)' /\ ~conn[c] /\ ~stub[c].rebound /\ stub[c].pc = "read"
              /\ Reader(stub[c]) = cl[c].writer
  <2>1. Listens(c) /\ Idle(c) /\ Expects(c) = cl[c].writer /\ Fits(c) /\ Upgradable(c)
    BY <1>1, <1>12 DEF Talks, AtNext
  <2>2. ~conn[c] /\ ~stub[c].rebound
    BY <1>5, <2>1 DEF Upgradable
  <2>3. Fits(c)'
    BY <1>2, <1>11, <2>1 DEF Fits
  <2> QED
    BY <2>1, <2>2, <2>3 DEF Listens, Expects
<1>13. ASSUME ~hurt'[c], Able(c)'
       PROVE  /\ cl[c].monitor /\ Alive(c) /\ file = Ver[c]
              /\ ToSwitch(c) => (req[c].user = "root" => dev.su)
  <2>1. Smooth(c)
    BY <1>1, <1>2, <1>13 DEF Undisturbed, Able
  <2>2. cl[c].monitor
    BY <1>1, <1>5, <2>1 DEF Smooth, StubLives
  <2> QED
    BY <1>1, <2>1, <2>2 DEF Smooth, StubLives, Installed
<1>14. CASE req[c].transport = "shell"
  <2>1. cl'[c].pc = "next"
    BY <1>7, <1>14
  <2>2. AtNext(c)'
    <3>1. ASSUME Alive(c)' PROVE Listens(c)' /\ Idle(c)' /\ Expects(c)' = cl'[c].writer
      BY <1>2, <1>7, <1>8, <1>11, <1>12, <1>14, <3>1 DEF Listens, Idle, Expects
    <3>2. OnSocket(c)' /\ Upgradable(c)'
      BY <1>2, <1>11, <1>14 DEF OnSocket, Upgradable
    <3> QED
      BY <1>11, <1>12, <3>1, <3>2 DEF AtNext
  <2>3. Talks(c)'
    BY <1>1, <1>2, <2>1, <2>2
       DEF Talks, AtStart, AtHello, AtSwitch, AtUpgrade, AtEnd, Always, Alive
  <2>4. ASSUME ~hurt'[c], Able(c)' PROVE Smooth(c)'
    BY <1>2, <1>7, <1>11, <1>13, <2>1, <2>4 DEF Smooth, StubLives, Installed, Greets, Switches
  <2> QED
    BY <1>9, <1>10, <2>3, <2>4 DEF Kept, Undisturbed
<1>15. CASE req[c].transport = "unix"
  <2>1. cl'[c].pc = "awaitListening"
    BY <1>7, <1>15
  <2>2. AtUpgrade(c)'
    <3>1. ASSUME Alive(c)
          PROVE  ~conn'[c] /\ Reader(stub'[c]) = cl'[c].writer /\ stub'[c].pc = "read" /\ ~stub'[c].rebound
      BY <1>2, <1>7, <1>12, <3>1
    <3>2. ASSUME Alive(c) PROVE Sent(c, "rebindUnix")'
      BY <1>7, <1>8, <1>11, <1>12, <1>15, <3>2 DEF Sent, Idle
    <3> QED
      BY <1>11, <1>12, <2>1, <3>1, <3>2 DEF AtUpgrade, Reader
  <2>3. Talks(c)'
    BY <1>1, <1>2, <2>1, <2>2
       DEF Talks, AtStart, AtHello, AtNext, AtSwitch, AtEnd, Always, Alive
  <2>4. ASSUME ~hurt'[c], Able(c)' PROVE Smooth(c)'
    BY <1>2, <1>7, <1>11, <1>13, <1>15, <2>1, <2>4 DEF Smooth, StubLives, Installed, Greets, Switches
  <2> QED
    BY <1>9, <1>10, <2>3, <2>4 DEF Kept, Undisturbed
<1>16. CASE req[c].transport = "tcp"
  <2>1. cl'[c].pc = "accept"
    BY <1>7, <1>16
  <2>2. AtUpgrade(c)'
    <3>1. ASSUME Alive(c)
          PROVE  ~conn'[c] /\ Reader(stub'[c]) = cl'[c].writer /\ stub'[c].pc = "read" /\ ~stub'[c].rebound
      BY <1>2, <1>7, <1>12, <3>1
    <3>2. ASSUME Alive(c) PROVE Sent(c, "rebindTcp")'
      BY <1>7, <1>8, <1>11, <1>12, <1>16, <3>2 DEF Sent, Idle
    <3> QED
      BY <1>11, <1>12, <2>1, <3>1, <3>2 DEF AtUpgrade, Reader
  <2>3. Talks(c)'
    BY <1>1, <1>2, <2>1, <2>2
       DEF Talks, AtStart, AtHello, AtNext, AtSwitch, AtEnd, Always, Alive
  <2>4. ASSUME ~hurt'[c], Able(c)' PROVE Smooth(c)'
    BY <1>2, <1>7, <1>11, <1>13, <1>16, <2>1, <2>4 DEF Smooth, StubLives, Installed, Greets, Switches
  <2> QED
    BY <1>9, <1>10, <2>3, <2>4 DEF Kept, Undisturbed
<1> QED
  BY <1>1, <1>14, <1>15, <1>16


LEMMA AgainKept ==
  ASSUME ConnectInv, NEW c \in Clients, NEW thunk \in BOOLEAN, Again(c, thunk), c \notin fwd
  PROVE  Kept(c)
<1>1. /\ cl[c] \in ClientRecords /\ stub[c] \in StubRecords /\ ConnectTypeOK /\ Talks(c)
  BY ActorFacts
<1>2. UNCHANGED <<dev, req, file, copy, to, from, sig, faults, hurt, fwd>>
  BY DEF Again
<1> DEFINE k == Attempt(thunk)
<1>3. /\ k.pc = "try" /\ k.phase = "installed" /\ k.i = 0 /\ k.writer = "adb" /\ k.monitor = TRUE
      /\ k \in ClientRecords
  BY DEF Attempt, ClientRecords, ClientPcs
<1>4. /\ cl' = [cl EXCEPT ![c] = k] /\ stub' = [stub EXCEPT ![c] = [stub[c] EXCEPT !.pc = "dead"]]
      /\ tmp' = [tmp EXCEPT ![c] = "none"] /\ conn' = [conn EXCEPT ![c] = FALSE]
  BY <1>1 DEF Again, ConnectTypeOK
<1> HIDE DEF k
<1>5. /\ cl'[c] = k /\ stub'[c] = [stub[c] EXCEPT !.pc = "dead"] /\ ~conn'[c]
      /\ conn' \in [Clients -> BOOLEAN] /\ DOMAIN tmp' = Clients
      /\ \A d \in Clients \ {c} :
           cl'[d] = cl[d] /\ stub'[d] = stub[d] /\ tmp'[d] = tmp[d] /\ conn'[d] = conn[d]
  BY <1>1, <1>4 DEF ConnectTypeOK
<1>6. stub'[c].pc = "dead" /\ stub'[c].why = stub[c].why /\ stub'[c] \in StubRecords
  BY <1>1, <1>5 DEF StubRecords, StubPcs
<1>7. ConnectTypeOK'
  <2>1. cl' \in [Clients -> ClientRecords] /\ stub' \in [Clients -> StubRecords]
    BY <1>1, <1>3, <1>4, <1>5, <1>6 DEF ConnectTypeOK
  <2> QED
    BY <1>1, <1>2, <1>5, <2>1 DEF ConnectTypeOK
<1>8. Apart(c)
  BY <1>2, <1>5 DEF Apart
<1>9. Talks(c)'
  BY <1>1, <1>2, <1>3, <1>5, <1>6
     DEF Talks, AtStart, AtHello, AtNext, AtSwitch, AtUpgrade, AtEnd, Always, Alive
<1>10. Smooth(c)'
  BY <1>3, <1>5 DEF Smooth, StubLives, Installed, Greets, Switches
<1> QED
  BY <1>7, <1>8, <1>9, <1>10 DEF Kept, Undisturbed

(* What a client may read when it waits for the re-execed stub.            *)
LEMMA SwitchRead ==
  ASSUME ConnectInv, NEW c \in Clients, cl[c].pc = "awaitSwitch", from[c] # <<>>
  PROVE  /\ Tail(from[c]) = <<>>
         /\ \/ /\ stub[c].pc = "read" /\ to[c] = <<>> /\ stub[c].uid = Other(c)
               /\ Head(from[c]).ver = stub[c].ver /\ Head(from[c]).uid = stub[c].uid
            \/ stub[c].pc = "dead"
<1>1. AtSwitch(c)
  BY ActorFacts DEF Talks
<1>2. OwnLine(c).ver = stub[c].ver /\ OwnLine(c).uid = stub[c].uid
  BY DEF OwnLine, Line
<1>3. CASE Alive(c)
  <2>1. /\ stub[c].pc = "read" /\ to[c] = <<>> /\ from[c] = <<OwnLine(c)>>
        /\ stub[c].uid = Other(c)
    BY <1>1, <1>3 DEF AtSwitch, Sent, Idle
  <2> QED
    BY <1>2, <2>1, OneFacts
<1>4. CASE ~Alive(c)
  BY <1>1, <1>4, OneFacts DEF AtSwitch, Got, Alive
<1> QED
  BY <1>3, <1>4

LEMMA SwitchedWell ==
  ASSUME ConnectInv, NEW c \in Clients, cl[c].pc = "awaitSwitch", from[c] # <<>>,
         IF req[c].user = "root" THEN Head(from[c]).ver # "none" /\ Head(from[c]).uid = "root"
         ELSE Head(from[c]).ver = Ver[c],
         cl' = [cl EXCEPT ![c] = [cl[c] EXCEPT !.pc = "next"]],
         from' = [from EXCEPT ![c] = Tail(from[c])],
         UNCHANGED <<stub, to, conn, sig, dev, req, file, copy, tmp, faults, hurt, fwd>>
  PROVE  Kept(c)
<1>1. /\ cl[c] \in ClientRecords /\ stub[c] \in StubRecords /\ ConnectTypeOK /\ Talks(c)
      /\ Undisturbed(c)
  BY ActorFacts
<1>2. /\ Tail(from[c]) = <<>>
      /\ \/ /\ stub[c].pc = "read" /\ to[c] = <<>> /\ stub[c].uid = Other(c)
            /\ Head(from[c]).ver = stub[c].ver /\ Head(from[c]).uid = stub[c].uid
         \/ stub[c].pc = "dead"
  BY SwitchRead
<1>3. /\ cl'[c] = [cl[c] EXCEPT !.pc = "next"] /\ from'[c] = <<>> /\ DOMAIN from' = Clients
      /\ \A d \in Clients \ {c} : cl'[d] = cl[d] /\ from'[d] = from[d]
  BY <1>1, <1>2 DEF ConnectTypeOK
<1>4. /\ cl'[c].pc = "next" /\ cl'[c].todo = cl[c].todo /\ cl'[c].writer = cl[c].writer
      /\ cl'[c].monitor = cl[c].monitor /\ cl'[c] \in ClientRecords
  BY <1>1, <1>3 DEF ClientRecords, ClientPcs
<1>5. ConnectTypeOK'
  <2>1. cl' \in [Clients -> ClientRecords]
    BY <1>1, <1>3, <1>4 DEF ConnectTypeOK
  <2> QED
    BY <1>1, <1>3, <2>1 DEF ConnectTypeOK
<1>6. Apart(c)
  BY <1>3 DEF Apart
<1>7. /\ cl[c].todo \in {H, UH} /\ req[c].user \in {"root", "app"}
      /\ stub[c].pc = "read" => Expects(c) = cl[c].writer /\ OnSocket(c) /\ Upgradable(c)
  BY <1>1 DEF Talks, AtSwitch, Alive
<1>8. /\ ~ToSwitch(c)'
      /\ ToUpgrade(c)' <=> ToUpgrade(c)
  BY <1>4, <1>7, TodoDistinct DEF ToSwitch, ToUpgrade
<1>9. AtNext(c)'
  <2>1. CASE stub[c].pc = "read"
    <3>1. Listens(c)' /\ Idle(c)' /\ Expects(c)' = cl'[c].writer
      BY <1>2, <1>3, <1>4, <1>7, <2>1 DEF Listens, Idle, Expects
    <3>2. Fits(c)'
      BY <1>2, <1>7, <2>1 DEF Fits, Other
    <3>3. OnSocket(c)' /\ Upgradable(c)'
      BY <1>4, <1>7, <1>8, <2>1 DEF OnSocket, Upgradable
    <3> QED
      BY <1>3, <1>4, <1>7, <1>8, <3>1, <3>2, <3>3 DEF AtNext
  <2>2. CASE stub[c].pc = "dead"
    BY <1>3, <1>4, <1>7, <1>8, <2>2 DEF AtNext, Alive
  <2> QED
    BY <1>2, <2>1, <2>2
<1>10. Talks(c)'
  BY <1>1, <1>3, <1>4, <1>9
     DEF Talks, AtStart, AtHello, AtSwitch, AtUpgrade, AtEnd, Always, Alive
<1>11. ASSUME ~hurt'[c], Able(c)' PROVE Smooth(c)'
  <2>1. Smooth(c)
    BY <1>1, <1>11 DEF Undisturbed, Able
  <2>2. cl[c].monitor /\ file = Ver[c]
    BY <2>1 DEF Smooth, StubLives, Installed
  <2>3. Alive(c)
    BY <2>1, BuildFacts DEF Smooth, Switches
  <2> QED
    BY <1>3, <1>4, <1>8, <2>2, <2>3 DEF Smooth, StubLives, Installed, Greets, Switches, Alive
<1> QED
  BY <1>5, <1>6, <1>10, <1>11 DEF Kept, Undisturbed

LEMMA ViaServiceKept ==
  ASSUME ConnectInv, NEW c \in Clients, cl[c].pc = "awaitSwitch", ViaService(c),
         from[c] # <<>>, req[c].user = "app", Head(from[c]).ver = "none",
         Unavailable(Head(from[c]))
  PROVE  Kept(c)
<1>1. /\ cl[c] \in ClientRecords /\ stub[c] \in StubRecords /\ ConnectTypeOK /\ Talks(c)
      /\ Undisturbed(c) /\ c \notin fwd /\ hurt[c] \in BOOLEAN
  BY ActorFacts DEF Talks, Always
<1>2. UNCHANGED <<dev, req, file, copy, tmp, faults, hurt, fwd>> /\ UNCHANGED local
  BY DEF ViaService, local, localButFwd
<1>3. ASSUME ~hurt[c], Able(c) PROVE dev.service /\ req[c].transport # "tcp"
  <2>1. Smooth(c)
    BY <1>1, <1>3 DEF Undisturbed
  <2>2. ~Alive(c)
    <3>1. SUFFICES ASSUME Alive(c) PROVE FALSE
      OBVIOUS
    <3>2. stub[c].ver = Ver[c] /\ Head(from[c]).ver = stub[c].ver
      BY <2>1, <3>1, SwitchRead DEF Smooth, Switches, Alive
    <3> QED
      BY <3>2, BuildFacts
  <2>3. dev.runas # ""
    BY <2>1, <2>2 DEF Smooth, Switches, Unavailable
  <2> QED
    BY <1>3, <2>3 DEF Able
<1>4. CASE ~dev.service
  BY <1>1, <1>2, <1>3, <1>4, FailKept DEF ViaService
<1>5. CASE dev.service
  <2> DEFINE t == IF req[c].transport = "tcp" THEN <<"upgrade", "hello">> ELSE <<"hello">>
             k == [cl[c] EXCEPT !.pc = "next", !.writer = "raw", !.monitor = FALSE, !.todo = t]
             S == ServiceStub(c)
  <2>1. /\ cl' = [cl EXCEPT ![c] = k] /\ stub' = [stub EXCEPT ![c] = S]
        /\ to' = [to EXCEPT ![c] = <<>>] /\ from' = [from EXCEPT ![c] = <<>>]
        /\ conn' = [conn EXCEPT ![c] = FALSE] /\ sig' = [sig EXCEPT ![c] = FALSE]
    BY <1>1, <1>5 DEF ViaService, ConnectTypeOK
  <2>2. t = IF req[c].transport = "tcp" THEN UH ELSE H
    BY DEF UH, H
  <2> HIDE DEF t
  <2>3. /\ k.pc = "next" /\ k.writer = "raw" /\ k.monitor = FALSE /\ k.todo = t
        /\ k \in ClientRecords
    BY <1>1, <2>2 DEF ClientRecords, ClientPcs
  <2>4. /\ S.pc = "read" /\ S.ver = Ver[c] /\ S.uid = "app" /\ S.in = "sock" /\ S.packets = TRUE
        /\ S.rebound = FALSE /\ S.why = "" /\ S \in StubRecords
    BY BuildFacts DEF ServiceStub, NoStub, StubRecords, StubPcs, Uids
  <2> HIDE DEF k, S
  <2>5. /\ cl'[c] = k /\ stub'[c] = S /\ to'[c] = <<>> /\ from'[c] = <<>>
        /\ ~conn'[c] /\ ~sig'[c]
        /\ \A d \in Clients \ {c} :
             /\ cl'[d] = cl[d] /\ stub'[d] = stub[d] /\ to'[d] = to[d] /\ from'[d] = from[d]
             /\ conn'[d] = conn[d] /\ sig'[d] = sig[d]
    BY <1>1, <2>1 DEF ConnectTypeOK
  <2>6. ConnectTypeOK'
    BY <1>1, <1>2, <2>1, <2>3, <2>4 DEF ConnectTypeOK
  <2>7. Apart(c)
    BY <1>2, <2>5 DEF Apart
  <2>8. ~ToSwitch(c)' /\ cl'[c].todo \in {H, UH}
    BY <2>2, <2>3, <2>5, TodoDistinct DEF ToSwitch
  <2>9. AtNext(c)'
    <3>1. Listens(c)' /\ Idle(c)' /\ Expects(c)' = cl'[c].writer
      BY <2>3, <2>4, <2>5 DEF Listens, Idle, Expects, Reader
    <3>2. Fits(c)' /\ OnSocket(c)' /\ Upgradable(c)'
      BY <1>2, <2>3, <2>4, <2>5 DEF Fits, OnSocket, Upgradable
    <3> QED
      BY <2>5, <2>8, <3>1, <3>2 DEF AtNext
  <2>10. Talks(c)'
    BY <1>1, <1>2, <2>3, <2>4, <2>5, <2>9
       DEF Talks, AtStart, AtHello, AtSwitch, AtUpgrade, AtEnd, Always, Alive
  <2>11. ASSUME ~hurt'[c], Able(c)' PROVE Smooth(c)'
    <3>1. cl'[c].todo = H
      BY <1>2, <1>3, <2>2, <2>3, <2>5, <2>11 DEF Able
    <3> QED
      BY <2>3, <2>4, <2>5, <2>8, <3>1
         DEF Smooth, StubLives, Installed, Greets, Switches, Alive
  <2> QED
    BY <2>6, <2>7, <2>10, <2>11 DEF Kept, Undisturbed
<1> QED
  BY <1>4, <1>5

LEMMA SwitchedKept ==
  ASSUME ConnectInv, NEW c \in Clients, Switched(c)
  PROVE  Kept(c)
<1>1. /\ cl[c] \in ClientRecords /\ stub[c] \in StubRecords /\ ConnectTypeOK /\ Talks(c)
      /\ Undisturbed(c) /\ cl[c].pc = "awaitSwitch" /\ from[c] # <<>> /\ hurt[c] \in BOOLEAN
  BY ActorFacts DEF Switched
<1>2. c \notin fwd /\ req[c].user \in {"root", "app"} /\ Ver[c] # "none"
  BY <1>1, BuildFacts DEF Talks, AtSwitch, Always
<1> DEFINE line == Head(from[c])
           asRoot == req[c].user = "root"
           ok == IF asRoot THEN line.ver # "none" /\ line.uid = "root" ELSE line.ver = Ver[c]
           repeat == ~asRoot /\ line.ver = "none" /\ PermissionDenied(line) /\ ~cl[c].thunk
           via == ~asRoot /\ line.ver = "none" /\ Unavailable(line)
<1>3. CASE ok
  <2>1. /\ cl' = [cl EXCEPT ![c] = [cl[c] EXCEPT !.pc = "next"]]
        /\ from' = [from EXCEPT ![c] = Tail(from[c])]
        /\ UNCHANGED <<stub, to, conn, sig, dev, req, file, copy, tmp, faults, hurt, fwd>>
    BY <1>1, <1>2, <1>3 DEF Switched, ConnectTypeOK, local, localButFwd
  <2> QED
    BY <1>1, <1>3, <2>1, SwitchedWell
<1>4. CASE ~ok /\ ~asRoot /\ line.ver # "none"
  <2>1. Again(c, cl[c].thunk) /\ cl[c].thunk \in BOOLEAN
    BY <1>1, <1>4 DEF Switched, ClientRecords
  <2> QED
    BY <1>2, <2>1, AgainKept
<1>5. CASE repeat
  <2>1. Again(c, TRUE)
    BY <1>2, <1>5 DEF Switched, PermissionDenied, Unavailable
  <2> QED
    BY <1>2, <2>1, AgainKept
<1>6. CASE via
  <2>1. ViaService(c)
    BY <1>2, <1>6 DEF Switched, PermissionDenied, Unavailable
  <2> QED
    BY <1>1, <1>2, <1>6, <2>1, ViaServiceKept
<1>7. CASE ~ok /\ ~(~asRoot /\ line.ver # "none") /\ ~repeat /\ ~via
  <2>1. Fail(c) /\ UNCHANGED local
    BY <1>7 DEF Switched
  <2>2. ASSUME Smooth(c) PROVE FALSE
    <3>1. CASE Alive(c)
      <4>1. /\ line.ver = Ver[c] /\ line.uid = Other(c)
        BY <1>1, <2>2, <3>1, SwitchRead DEF Smooth, Switches, Alive
      <4> QED
        BY <1>2, <1>7, <4>1 DEF Other
    <3>2. CASE ~Alive(c)
      <4>1. /\ ~asRoot /\ line.ver = "none"
            /\ \/ line.err = dev.runas /\ dev.runas # ""
               \/ line.err = "denied" /\ ~cl[c].thunk
        BY <1>1, <2>2, <3>2 DEF Smooth, Switches
      <4>2. dev.runas \in {"", "unknown", "notPermitted"}
        BY <1>1, DevFacts
      <4> QED
        BY <1>7, <4>1, <4>2 DEF PermissionDenied, Unavailable
    <3> QED
      BY <3>1, <3>2
  <2> QED
    BY <1>1, <1>2, <2>1, <2>2, FailKept DEF Undisturbed
<1> QED
  BY <1>3, <1>4, <1>5, <1>6, <1>7


LEMMA ListeningKept ==
  ASSUME ConnectInv, NEW c \in Clients, Listening(c)
  PROVE  Kept(c)
<1>1. /\ cl[c] \in ClientRecords /\ stub[c] \in StubRecords /\ ConnectTypeOK /\ Talks(c)
      /\ Undisturbed(c) /\ cl[c].pc = "awaitListening" /\ from[c] # <<>> /\ hurt[c] \in BOOLEAN
      /\ AtUpgrade(c) /\ c \notin fwd
  BY ActorFacts DEF Listening, Talks, Always
<1>2. UNCHANGED <<dev, req, file, copy, tmp, faults, hurt>>
  BY DEF Listening, localButFwd
<1>3. Alive(c) => stub[c].pc = "accept" /\ ~conn[c] /\ Head(from[c]).kind = "msg"
  <2>1. SUFFICES ASSUME Alive(c)
        PROVE  stub[c].pc = "accept" /\ ~conn[c] /\ Head(from[c]).kind = "msg"
    OBVIOUS
  <2>2. stub[c].pc = "accept" /\ ~conn[c] /\ from[c] = <<Msg("listening")>>
    BY <1>1, <2>1 DEF AtUpgrade, Sent
  <2>3. Msg("listening").kind = "msg"
    BY DEF Msg
  <2> QED
    BY <2>2, <2>3, OneFacts
<1>4. CASE Head(from[c]).kind = "msg"
  <2>1. /\ cl' = [cl EXCEPT ![c] = [cl[c] EXCEPT !.pc = "forwarded"]] /\ fwd' = fwd \cup {c}
        /\ UNCHANGED <<stub, to, from, conn, sig>>
    BY <1>1, <1>4 DEF Listening, adb_add_forward, ConnectTypeOK
  <2>2. cl'[c] = [cl[c] EXCEPT !.pc = "forwarded"] /\ \A d \in Clients \ {c} : cl'[d] = cl[d]
    BY <1>1, <2>1 DEF ConnectTypeOK
  <2>3. /\ cl'[c].pc = "forwarded" /\ cl'[c].todo = cl[c].todo /\ cl'[c].monitor = cl[c].monitor
        /\ cl'[c] \in ClientRecords
    BY <1>1, <2>2 DEF ClientRecords, ClientPcs
  <2>4. ConnectTypeOK'
    <3>1. cl' \in [Clients -> ClientRecords]
      BY <1>1, <2>1, <2>2, <2>3 DEF ConnectTypeOK
    <3> QED
      BY <1>1, <1>2, <2>1, <3>1 DEF ConnectTypeOK
  <2>5. Apart(c)
    BY <1>2, <2>1, <2>2 DEF Apart
  <2>6. /\ ToSwitch(c)' <=> ToSwitch(c)
        /\ Alive(c)' <=> Alive(c)
        /\ Fits(c)' <=> Fits(c)
    BY <1>2, <2>1, <2>3 DEF ToSwitch, Alive, Fits
  <2>7. AtUpgrade(c)'
    BY <1>1, <1>2, <1>3, <2>1, <2>3, <2>6 DEF AtUpgrade, Alive
  <2>8. Talks(c)'
    BY <1>1, <1>2, <2>1, <2>3, <2>7
       DEF Talks, AtStart, AtHello, AtNext, AtSwitch, AtEnd, Always, Alive
  <2>9. ASSUME ~hurt'[c], Able(c)' PROVE Smooth(c)'
    <3>1. Smooth(c)
      BY <1>1, <1>2, <2>9 DEF Undisturbed, Able
    <3>2. StubLives(c)'
      BY <1>1, <1>2, <2>3, <2>6, <3>1 DEF Smooth, StubLives
    <3>3. Installed(c)' /\ Greets(c)' /\ Switches(c)'
      BY <1>1, <1>2, <2>3, <3>1 DEF Smooth, Installed, Greets, Switches
    <3> QED
      BY <3>2, <3>3 DEF Smooth
  <2> QED
    BY <2>4, <2>5, <2>8, <2>9 DEF Kept, Undisturbed
<1>5. CASE Head(from[c]).kind # "msg"
  <2>1. Fail(c) /\ UNCHANGED local
    BY <1>5 DEF Listening, local
  <2>2. ASSUME Smooth(c) PROVE FALSE
    BY <1>1, <1>3, <1>5, <2>2 DEF Smooth, StubLives
  <2> QED
    BY <1>1, <2>1, <2>2, FailKept DEF Undisturbed
<1> QED
  BY <1>4, <1>5

(* The client has a socket that the stub has or will accept.               *)
LEMMA SwitchoverKept ==
  ASSUME ConnectInv, NEW c \in Clients, cl[c].pc \in {"forwarded", "accept"},
         Switchover(c), conn' \in [Clients -> BOOLEAN], conn'[c],
         \A d \in Clients \ {c} : conn'[d] = conn[d] /\ (d \in fwd' <=> d \in fwd),
         c \notin fwd',
         Alive(c) => stub[c].pc = "accept" \/ (stub[c].pc = "read" /\ stub[c].in = "sock"),
         UNCHANGED <<stub, sig, dev, req, file, copy, tmp, faults, hurt>>
  PROVE  Kept(c)
<1>1. /\ cl[c] \in ClientRecords /\ stub[c] \in StubRecords /\ ConnectTypeOK /\ Talks(c)
      /\ Undisturbed(c)
  BY ActorFacts
<1>2. /\ cl[c].todo \in {H, SH} /\ (ToSwitch(c) => req[c].user \in {"root", "app"})
      /\ Alive(c) => Fits(c)
  BY <1>1 DEF Talks, AtUpgrade
<1>3. /\ cl' = [cl EXCEPT ![c] = [cl[c] EXCEPT !.pc = "next", !.writer = "raw"]]
      /\ to' = [to EXCEPT ![c] = <<>>] /\ from' = [from EXCEPT ![c] = <<>>]
  BY <1>1 DEF Switchover, ConnectTypeOK
<1>4. /\ cl'[c] = [cl[c] EXCEPT !.pc = "next", !.writer = "raw"]
      /\ to'[c] = <<>> /\ from'[c] = <<>> /\ DOMAIN to' = Clients /\ DOMAIN from' = Clients
      /\ \A d \in Clients \ {c} : cl'[d] = cl[d] /\ to'[d] = to[d] /\ from'[d] = from[d]
  BY <1>1, <1>3 DEF ConnectTypeOK
<1>5. /\ cl'[c].pc = "next" /\ cl'[c].todo = cl[c].todo /\ cl'[c].writer = "raw"
      /\ cl'[c].monitor = cl[c].monitor /\ cl'[c] \in ClientRecords
  <2>1. cl[c] \in ClientRecords /\ cl'[c] = [cl[c] EXCEPT !.pc = "next", !.writer = "raw"]
    BY <1>1, <1>4
  <2> QED
    BY ONLY <2>1 DEF ClientRecords, ClientPcs
<1>6. ConnectTypeOK'
  <2>1. cl' \in [Clients -> ClientRecords]
    BY <1>1, <1>3, <1>4, <1>5 DEF ConnectTypeOK
  <2> QED
    BY <1>1, <1>4, <2>1 DEF ConnectTypeOK
<1>7. Apart(c)
  BY <1>4 DEF Apart
<1>8. /\ ToSwitch(c)' <=> ToSwitch(c)
      /\ ~ToUpgrade(c)'
      /\ Alive(c)' <=> Alive(c)
  BY <1>2, <1>5, TodoDistinct DEF ToSwitch, ToUpgrade, Alive
<1>9. AtNext(c)'
  <2>1. ASSUME Alive(c)
        PROVE  /\ Listens(c)' /\ Idle(c)' /\ Expects(c)' = cl'[c].writer
               /\ Fits(c)' /\ OnSocket(c)' /\ Upgradable(c)'
    <3>1. Listens(c)' /\ Idle(c)' /\ Expects(c)' = cl'[c].writer
      BY <1>4, <1>5, <2>1 DEF Listens, Idle, Expects, Reader
    <3>2. Fits(c)' /\ OnSocket(c)' /\ Upgradable(c)'
      BY <1>2, <1>5, <1>8, <2>1 DEF Fits, OnSocket, Upgradable
    <3> QED
      BY <3>1, <3>2
  <2> QED
    BY <1>2, <1>4, <1>5, <1>8, <2>1 DEF AtNext
<1>10. Talks(c)'
  BY <1>1, <1>5, <1>9
     DEF Talks, AtStart, AtHello, AtSwitch, AtUpgrade, AtEnd, Always, Alive
<1>11. ASSUME ~hurt'[c], Able(c)' PROVE Smooth(c)'
  <2>1. Smooth(c)
    BY <1>1, <1>11 DEF Undisturbed, Able
  <2>2. StubLives(c)'
    BY <1>5, <1>8, <2>1 DEF Smooth, StubLives
  <2>3. Installed(c)' /\ Greets(c)' /\ Switches(c)'
    BY <1>5, <2>1 DEF Smooth, StubLives, Installed, Greets, Switches
  <2> QED
    BY <2>2, <2>3 DEF Smooth
<1> QED
  BY <1>6, <1>7, <1>10, <1>11 DEF Kept, Undisturbed

LEMMA ConnectSocketKept ==
  ASSUME ConnectInv, NEW c \in Clients, connect_to_device_socket(c)
  PROVE  Kept(c)
<1>1. ConnectTypeOK /\ Talks(c) /\ cl[c].pc = "forwarded"
  BY ActorFacts DEF connect_to_device_socket
<1>2. /\ conn' = [conn EXCEPT ![c] = TRUE] /\ fwd' = fwd \ {c} /\ Switchover(c)
      /\ UNCHANGED <<stub, sig, dev, req, file, copy, tmp, faults, hurt>>
  BY DEF connect_to_device_socket, remove_forward_cleanup, localButFwd
<1>3. /\ conn' \in [Clients -> BOOLEAN] /\ conn'[c] /\ c \notin fwd'
      /\ \A d \in Clients \ {c} : conn'[d] = conn[d] /\ (d \in fwd' <=> d \in fwd)
  BY <1>1, <1>2 DEF ConnectTypeOK
<1>4. Alive(c) => stub[c].pc = "accept"
  BY <1>1 DEF Talks, AtUpgrade, Alive
<1> QED
  BY <1>1, <1>2, <1>3, <1>4, SwitchoverKept

LEMMA AcceptKept ==
  ASSUME ConnectInv, NEW c \in Clients, Accept(c)
  PROVE  Kept(c)
<1>1. /\ ConnectTypeOK /\ Talks(c) /\ Undisturbed(c) /\ cl[c].pc = "accept" /\ hurt[c] \in BOOLEAN
      /\ conn[c] \in BOOLEAN
  BY ActorFacts DEF Accept
<1>2. /\ c \notin fwd
      /\ UNCHANGED <<dev, req, file, copy, tmp, faults, hurt, fwd>> /\ UNCHANGED local
  BY <1>1 DEF Accept, local, localButFwd, Talks, Always
<1>3. CASE conn[c] /\ Switchover(c) /\ UNCHANGED <<stub, conn, sig>>
  <2>1. Alive(c) => stub[c].pc = "read" /\ stub[c].in = "sock"
    BY <1>1, <1>3 DEF Talks, AtUpgrade
  <2>2. conn' \in [Clients -> BOOLEAN]
    BY <1>1, <1>3 DEF ConnectTypeOK
  <2> QED
    BY <1>1, <1>2, <1>3, <2>1, <2>2, SwitchoverKept
<1>4. CASE (IF cl[c].monitor THEN sig[c] ELSE TRUE) /\ Fail(c)
  <2>1. ASSUME Smooth(c) PROVE FALSE
    BY <1>1, <1>4, <2>1 DEF Smooth, StubLives, Talks, Always
  <2> QED
    BY <1>1, <1>2, <1>4, <2>1, FailKept DEF Undisturbed
<1> QED
  BY <1>3, <1>4 DEF Accept

LEMMA SendHelloKept ==
  ASSUME ConnectInv, NEW c \in Clients, SendHello(c)
  PROVE  Kept(c)
<1>1. /\ ConnectTypeOK /\ Talks(c) /\ Undisturbed(c) /\ cl[c].pc = "next"
      /\ cl[c].todo \in {H, UH, SH, SUH, USH} /\ Head(cl[c].todo) = "hello"
  BY ActorFacts DEF SendHello, Todo, Talks, AtNext
<1>2. /\ Goto(c, "done") /\ Send(c, "hello")
      /\ UNCHANGED <<stub, from, conn, sig, dev, req, file, copy, tmp, faults, hurt, fwd>>
  BY DEF SendHello, local, localButFwd
<1>3. cl[c].todo = H
  BY <1>1, TodoFacts
<1>4. ~ToSwitch(c) /\ ~ToUpgrade(c) /\ Tail(cl[c].todo) = <<>>
  BY <1>3, TodoFacts, TodoDistinct DEF ToSwitch, ToUpgrade
<1>5. /\ cl' \in [Clients -> ClientRecords]
      /\ cl'[c].pc = "done" /\ cl'[c].todo = Tail(cl[c].todo)
      /\ cl'[c].writer = cl[c].writer /\ cl'[c].thunk = cl[c].thunk
      /\ cl'[c].monitor <=> cl[c].monitor
      /\ \A d \in Clients \ {c} : cl'[d] = cl[d]
  BY <1>1, <1>2, GotoFacts DEF ClientPcs
<1>6. /\ DOMAIN to' = Clients
      /\ \A d \in Clients \ {c} : to'[d] = to[d]
      /\ to[c] = <<>> =>
           to'[c] = <<[type |-> "hello", enc |-> cl[c].writer, thunk |-> cl[c].thunk]>>
  BY <1>1, <1>2, SendFacts
<1>7. ConnectTypeOK'
  BY <1>1, <1>2, <1>5, <1>6 DEF ConnectTypeOK
<1>8. Apart(c)
  BY <1>2, <1>5, <1>6 DEF Apart
<1>9. AtEnd(c)'
  <2>1. SUFFICES ASSUME Alive(c)'
        PROVE  /\ Fits(c)' /\ OnSocket(c)'
               /\ Listens(c)' /\ Expects(c)' = cl'[c].writer /\ Sent(c, "hello")'
    BY <1>4, <1>5 DEF AtEnd
  <2>2. /\ Listens(c) /\ Idle(c) /\ Expects(c) = cl[c].writer /\ Fits(c) /\ OnSocket(c)
    BY <1>1, <1>2, <2>1 DEF Talks, AtNext, Alive
  <2>3. Listens(c)' /\ Expects(c)' = cl'[c].writer
    BY <1>2, <1>5, <2>2 DEF Listens, Expects
  <2>4. Fits(c)' /\ OnSocket(c)'
    BY <1>2, <1>4, <1>5, <2>2 DEF Fits, OnSocket
  <2>5. Sent(c, "hello")'
    BY <1>2, <1>5, <1>6, <2>2 DEF Sent, Idle
  <2> QED
    BY <2>3, <2>4, <2>5
<1>10. Talks(c)'
  BY <1>1, <1>2, <1>5, <1>9
     DEF Talks, AtStart, AtHello, AtNext, AtSwitch, AtUpgrade, Always, Alive
<1>11. Smooth(c)'
  BY <1>5 DEF Smooth, StubLives, Installed, Greets, Switches
<1> QED
  BY <1>7, <1>8, <1>10, <1>11 DEF Kept, Undisturbed


----------------------------------------------------------------------------
(* The steps of client c's stub.                                           *)

LEMMA GoneFacts ==
  ASSUME ConnectTypeOK, NEW c \in Clients, NEW why \in {"error", "switch", "exec", "lost"},
         Gone(c, why)
  PROVE  /\ stub' \in [Clients -> StubRecords] /\ sig' \in [Clients -> BOOLEAN]
         /\ stub'[c].pc = "dead" /\ stub'[c].why # "garbled"
         /\ \A d \in Clients \ {c} : stub'[d] = stub[d] /\ sig'[d] = sig[d]
<1>1. stub \in [Clients -> StubRecords] /\ stub[c] \in StubRecords /\ cl[c] \in ClientRecords
  BY DEF ConnectTypeOK
<1>2. /\ stub' = [stub EXCEPT ![c] = [stub[c] EXCEPT !.pc = "dead", !.why = why]]
      /\ sig' = [sig EXCEPT ![c] = cl[c].monitor]
  BY <1>1 DEF Gone
<1>3. cl[c].monitor \in BOOLEAN
  BY <1>1 DEF ClientRecords
<1>4. /\ stub'[c] = [stub[c] EXCEPT !.pc = "dead", !.why = why]
      /\ \A d \in Clients \ {c} : stub'[d] = stub[d] /\ sig'[d] = sig[d]
      /\ sig' \in [Clients -> BOOLEAN]
  BY <1>1, <1>2, <1>3 DEF ConnectTypeOK
<1>5. stub'[c].pc = "dead" /\ stub'[c].why = why /\ stub'[c] \in StubRecords
  <2>1. /\ stub[c] \in StubRecords /\ stub'[c] = [stub[c] EXCEPT !.pc = "dead", !.why = why]
        /\ why \in {"error", "switch", "exec", "lost"}
    BY <1>1, <1>4
  <2> QED
    BY ONLY <2>1 DEF StubRecords, StubPcs
<1>6. stub' \in [Clients -> StubRecords]
  BY <1>1, <1>2, <1>4, <1>5
<1> QED
  BY <1>4, <1>5, <1>6

(* Where the client is while its stub starts.                              *)
LEMMA BootAt ==
  ASSUME ConnectInv, NEW c \in Clients, stub[c].pc \in {"boot", "thunk", "move"}
  PROVE  /\ cl[c].pc \in {"awaitHello", "awaitSwitch"} /\ Idle(c)
         /\ stub[c].pc \in {"thunk", "move"} => cl[c].pc = "awaitSwitch"
<1>1. cl[c] \in ClientRecords /\ Talks(c) /\ Alive(c) /\ ~Listens(c)
  BY ActorFacts DEF Alive, Listens
<1>2. cl[c].pc \in {"awaitHello", "awaitSwitch"}
  BY <1>1 DEF Talks, AtStart, AtNext, AtUpgrade, AtEnd, ClientRecords, ClientPcs
<1>3. CASE cl[c].pc = "awaitHello"
  BY <1>1, <1>3 DEF Talks, AtHello, Idle
<1>4. CASE cl[c].pc = "awaitSwitch"
  BY <1>1, <1>4 DEF Talks, AtSwitch
<1> QED
  BY <1>2, <1>3, <1>4

(* Whatever an undisturbed client has executed is its own build.           *)
LEMMA BootsOwn ==
  ASSUME ConnectInv, NEW c \in Clients, stub[c].pc = "boot", ~hurt[c], Able(c)
  PROVE  /\ cl[c].pc = "awaitSwitch" => Content(c) = Ver[c]
         /\ cl[c].pc = "awaitHello" =>
              /\ cl[c].phase # "probe" => Content(c) = file
              /\ cl[c].phase = "probe" => Content(c) = tmp[c]
              /\ cl[c].phase = "final" \/ (cl[c].phase = "probe" /\ cl[c].i = dev.abi) =>
                   Content(c) = Ver[c]
<1>1. Talks(c) /\ Smooth(c) /\ stub[c] \in StubRecords
  BY ActorFacts DEF Undisturbed
<1>2. ASSUME cl[c].pc = "awaitSwitch" PROVE Content(c) = Ver[c]
  <2>1. file = Ver[c] /\ stub[c].path \in {"file", "copy"} /\ (stub[c].path = "copy" => copy = Ver[c])
    BY <1>1, <1>2 DEF Smooth, StubLives, Installed, Switches, StubRecords
  <2>2. CASE stub[c].path = "file"
    BY <2>1, <2>2 DEF Content
  <2>3. CASE stub[c].path = "copy"
    BY <2>1, <2>3 DEF Content
  <2> QED
    BY <2>1, <2>2, <2>3
<1>3. ASSUME cl[c].pc = "awaitHello"
      PROVE  /\ cl[c].phase # "probe" => Content(c) = file
             /\ cl[c].phase = "probe" => Content(c) = tmp[c]
             /\ cl[c].phase = "final" \/ (cl[c].phase = "probe" /\ cl[c].i = dev.abi) =>
                  Content(c) = Ver[c]
  <2>1. stub[c].path = IF cl[c].phase = "probe" THEN "tmp" ELSE "file"
    BY <1>1, <1>3 DEF Talks, AtHello
  <2>2. /\ cl[c].phase # "probe" => Content(c) = file
        /\ cl[c].phase = "probe" => Content(c) = tmp[c]
    BY <2>1 DEF Content
  <2> QED
    BY <1>1, <1>3, <2>2 DEF Smooth, Installed
<1> QED
  BY <1>2, <1>3

LEMMA BootWell ==
  ASSUME ConnectInv, NEW c \in Clients, stub[c].pc = "boot", NEW v \in Builds, v = Content(c),
         stub' = [stub EXCEPT ![c] = [stub[c] EXCEPT !.pc = "read", !.ver = v,
                                                    !.rebound = FALSE, !.packets = TRUE]],
         from' = [from EXCEPT ![c] = Append(from[c], Line(v, stub[c].uid, ""))],
         UNCHANGED <<sig, cl, to, conn, dev, req, file, copy, tmp, faults, hurt, fwd>>
  PROVE  Kept(c)
<1>1. /\ cl[c] \in ClientRecords /\ stub[c] \in StubRecords /\ ConnectTypeOK /\ Talks(c)
      /\ Undisturbed(c)
  BY ActorFacts
<1>2. cl[c].pc \in {"awaitHello", "awaitSwitch"} /\ to[c] = <<>> /\ from[c] = <<>>
  BY BootAt DEF Idle
<1>3. /\ stub'[c] = [stub[c] EXCEPT !.pc = "read", !.ver = v, !.rebound = FALSE, !.packets = TRUE]
      /\ from'[c] = <<Line(v, stub[c].uid, "")>> /\ DOMAIN from' = Clients
      /\ \A d \in Clients \ {c} : stub'[d] = stub[d] /\ from'[d] = from[d]
  BY <1>1, <1>2, OneFacts DEF ConnectTypeOK
<1>4. /\ stub'[c].pc = "read" /\ stub'[c].ver = v /\ stub'[c].uid = stub[c].uid
      /\ stub'[c].in = stub[c].in /\ stub'[c].path = stub[c].path /\ stub'[c].rebound = FALSE
      /\ stub'[c].packets = TRUE /\ stub'[c].why = stub[c].why /\ stub'[c] \in StubRecords
  <2>1. /\ stub[c] \in StubRecords /\ v \in Builds
        /\ stub'[c] = [stub[c] EXCEPT !.pc = "read", !.ver = v, !.rebound = FALSE, !.packets = TRUE]
    BY <1>1, <1>3
  <2> QED
    BY ONLY <2>1 DEF StubRecords, StubPcs
<1>5. ConnectTypeOK'
  <2>1. stub' \in [Clients -> StubRecords]
    BY <1>1, <1>3, <1>4 DEF ConnectTypeOK
  <2> QED
    BY <1>1, <1>3, <2>1 DEF ConnectTypeOK
<1>6. Apart(c)
  BY <1>3 DEF Apart
<1>7. from'[c] = <<OwnLine(c)'>> /\ Head(from'[c]).ver = v /\ from'[c] # <<>>
  <2>1. from'[c] = <<OwnLine(c)'>>
    BY <1>3, <1>4 DEF OwnLine
  <2>2. Line(v, stub[c].uid, "").ver = v
    BY DEF Line
  <2> QED
    BY <1>3, <2>1, <2>2, OneFacts
<1>8. AtHello(c)'
  <2>1. SUFFICES ASSUME cl[c].pc = "awaitHello" PROVE AtHello(c)'
    BY DEF AtHello
  <2>2. /\ cl[c].writer = "adb" /\ cl[c].monitor /\ ~conn[c]
        /\ stub[c].in = "pty" /\ stub[c].uid = dev.uid
        /\ stub[c].path = IF cl[c].phase = "probe" THEN "tmp" ELSE "file"
    BY <1>1, <2>1 DEF Talks, AtHello
  <2>3. cl[c].phase = "probe" => v = tmp[c]
    BY <2>2 DEF Content
  <2> QED
    BY <1>2, <1>4, <1>7, <2>2, <2>3 DEF AtHello
<1>9. AtSwitch(c)'
  <2>1. SUFFICES ASSUME cl[c].pc = "awaitSwitch" PROVE AtSwitch(c)'
    BY DEF AtSwitch
  <2>2. /\ cl[c].todo \in {H, UH} /\ req[c].user \in {"root", "app"}
        /\ Expects(c) = cl[c].writer /\ OnSocket(c) /\ Upgradable(c) /\ stub[c].uid = Other(c)
    BY <1>1, <2>1 DEF Talks, AtSwitch, Alive, Listens
  <2>3. Expects(c)' = cl'[c].writer
    BY <1>4, <2>2 DEF Expects, Reader
  <2>4. OnSocket(c)' /\ Upgradable(c)' /\ Other(c)' = Other(c) /\ Alive(c)'
    BY <1>4, <2>2 DEF OnSocket, Upgradable, Other, ToUpgrade, Alive
  <2> QED
    BY <1>2, <1>4, <1>7, <2>2, <2>3, <2>4 DEF AtSwitch
<1>10. Talks(c)'
  <2>1. Always(c)'
    <3>1. ~sig[c]
      BY <1>1 DEF Talks, Always, Alive
    <3> QED
      BY <1>1, <1>4, <3>1 DEF Talks, Always
  <2> QED
    BY <1>2, <1>8, <1>9, <2>1 DEF Talks, AtStart, AtNext, AtUpgrade, AtEnd
<1>11. ASSUME ~hurt'[c], Able(c)' PROVE Smooth(c)'
  <2>1. Smooth(c) /\ ~hurt[c] /\ Able(c)
    BY <1>1, <1>11 DEF Undisturbed, Able
  <2>2. /\ cl[c].pc = "awaitSwitch" => v = Ver[c]
        /\ cl[c].pc = "awaitHello" =>
             /\ cl[c].phase # "probe" => v = file
             /\ cl[c].phase = "final" \/ (cl[c].phase = "probe" /\ cl[c].i = dev.abi) => v = Ver[c]
    BY <2>1, BootsOwn
  <2>3. StubLives(c)' /\ Installed(c)'
    BY <1>2, <1>4, <2>1 DEF Smooth, StubLives, Installed
  <2>4. Greets(c)' /\ Switches(c)'
    BY <1>2, <1>4, <2>1, <2>2 DEF Smooth, Greets, Switches, Alive
  <2> QED
    BY <2>3, <2>4 DEF Smooth
<1> QED
  BY <1>5, <1>6, <1>10, <1>11 DEF Kept, Undisturbed

LEMMA BootBadly ==
  ASSUME ConnectInv, NEW c \in Clients, stub[c].pc = "boot",
         NEW refused, refused <=> stub[c].uid = "app" /\ stub[c].path = "file" /\ dev.selinux,
         ~(Content(c) \in Builds /\ ~refused), Gone(c, "exec"),
         from' = [from EXCEPT ![c] =
                    Append(from[c], Line("none", "", IF refused THEN "denied" ELSE "noexec"))],
         UNCHANGED <<cl, to, conn, dev, req, file, copy, tmp, faults, hurt, fwd>>
  PROVE  Kept(c)
<1>1. /\ cl[c] \in ClientRecords /\ stub[c] \in StubRecords /\ ConnectTypeOK /\ Talks(c)
      /\ Undisturbed(c) /\ req[c].user \in {"shell", "root", "app"}
  BY ActorFacts
<1>2. cl[c].pc \in {"awaitHello", "awaitSwitch"} /\ to[c] = <<>> /\ from[c] = <<>>
  BY BootAt DEF Idle
<1>3. /\ stub' \in [Clients -> StubRecords] /\ sig' \in [Clients -> BOOLEAN]
      /\ stub'[c].pc = "dead" /\ stub'[c].why # "garbled"
      /\ \A d \in Clients \ {c} : stub'[d] = stub[d] /\ sig'[d] = sig[d]
  BY <1>1, GoneFacts
<1> DEFINE l == Line("none", "", IF refused THEN "denied" ELSE "noexec")
<1>4. l.kind = "line" /\ l.ver = "none" /\ (refused => l.err = "denied")
  BY DEF Line
<1>5. from' = [from EXCEPT ![c] = Append(from[c], l)]
  OBVIOUS
<1> HIDE DEF l
<1>6. /\ from'[c] = <<l>> /\ DOMAIN from' = Clients
      /\ \A d \in Clients \ {c} : from'[d] = from[d]
  BY ZenonT(60), <1>1, <1>2, <1>5, OneFacts DEF ConnectTypeOK
<1>7. Got(c)' /\ Head(from'[c]) = l /\ ~Alive(c)'
  <2>1. Head(from'[c]) = l
    BY <1>6, OneFacts
  <2> QED
    BY <1>3, <1>6, <2>1 DEF Got, Alive
<1>8. ConnectTypeOK'
  BY <1>1, <1>3, <1>6 DEF ConnectTypeOK
<1>9. Apart(c)
  BY <1>3, <1>6 DEF Apart
<1>10. AtHello(c)'
  <2>1. SUFFICES ASSUME cl[c].pc = "awaitHello" PROVE AtHello(c)'
    BY DEF AtHello
  <2>2. /\ cl[c].writer = "adb" /\ cl[c].monitor /\ ~conn[c]
        /\ stub[c].in = "pty" /\ ~stub[c].rebound /\ stub[c].uid = dev.uid
        /\ stub[c].path = IF cl[c].phase = "probe" THEN "tmp" ELSE "file"
    BY <1>1, <2>1 DEF Talks, AtHello
  <2>3. stub'[c] = [stub[c] EXCEPT !.pc = "dead", !.why = "exec"]
    BY <1>1 DEF Gone, ConnectTypeOK
  <2>4. /\ stub'[c].in = stub[c].in /\ stub'[c].rebound = stub[c].rebound
        /\ stub'[c].uid = stub[c].uid /\ stub'[c].path = stub[c].path
    BY <1>1, <2>3 DEF StubRecords
  <2> QED
    BY <1>2, <1>3, <1>4, <1>7, <2>2, <2>4 DEF AtHello
<1>11. AtSwitch(c)'
  BY <1>1, <1>4, <1>7 DEF Talks, AtSwitch
<1>12. Talks(c)'
  BY <1>1, <1>2, <1>3, <1>7, <1>10, <1>11 DEF Talks, AtStart, AtNext, AtUpgrade, AtEnd, Always
<1>13. ASSUME ~hurt'[c], Able(c)' PROVE Smooth(c)'
  <2>1. Smooth(c) /\ ~hurt[c] /\ Able(c)
    BY <1>1, <1>13 DEF Undisturbed, Able
  <2>2. /\ cl[c].pc = "awaitSwitch" => Content(c) = Ver[c]
        /\ cl[c].pc = "awaitHello" =>
             (cl[c].phase = "final" \/ (cl[c].phase = "probe" /\ cl[c].i = dev.abi) =>
                Content(c) = Ver[c])
    BY <2>1, BootsOwn
  <2>3. Ver[c] \in Builds /\ dev.uid \in {"shell", "root"}
    BY <1>1, BuildFacts, DevFacts
  <2>4. StubLives(c)' /\ Installed(c)'
    BY <1>2, <2>1 DEF Smooth, StubLives, Installed
  <2>5. Greets(c)'
    <3>1. SUFFICES ASSUME cl[c].pc = "awaitHello"
          PROVE  ~(cl[c].phase = "final" \/ (cl[c].phase = "probe" /\ cl[c].i = dev.abi))
      BY <1>3, <1>4, <1>7 DEF Greets
    <3>2. stub[c].uid = dev.uid
      BY <1>1, <3>1 DEF Talks, AtHello
    <3> QED
      BY <2>2, <2>3, <3>1, <3>2
  <2>6. Switches(c)'
    <3>1. SUFFICES ASSUME cl[c].pc = "awaitSwitch" PROVE Switches(c)'
      BY DEF Switches
    <3>2. refused
      BY <2>2, <2>3, <3>1
    <3>3. stub[c].uid = Other(c) /\ req[c].user \in {"root", "app"}
      BY <1>1, <3>1 DEF Talks, AtSwitch, Alive, Listens
    <3>4. req[c].user = "app"
      BY <3>2, <3>3 DEF Other
    <3>5. ~cl[c].thunk
      BY <2>1, <3>1, <3>2, <3>4 DEF Smooth, Switches
    <3> QED
      BY <1>3, <1>4, <1>7, <3>2, <3>4, <3>5 DEF Switches
  <2> QED
    BY <2>4, <2>5, <2>6 DEF Smooth
<1> QED
  BY <1>8, <1>9, <1>12, <1>13 DEF Kept, Undisturbed

LEMMA BootKept ==
  ASSUME ConnectInv, NEW c \in Clients, Boot(c)
  PROVE  Kept(c)
<1>1. ConnectTypeOK /\ stub[c] \in StubRecords /\ stub[c].pc = "boot"
  BY ActorFacts DEF Boot
<1>2. UNCHANGED <<cl, to, conn, dev, req, file, copy, tmp, faults, hurt, fwd>>
  BY DEF Boot, local, localButFwd
<1> DEFINE refused == stub[c].uid = "app" /\ stub[c].path = "file" /\ dev.selinux
<1>3. CASE Content(c) \in Builds /\ ~refused
  <2> DEFINE v == Content(c)
  <2>1. /\ stub' = [stub EXCEPT ![c] = [stub[c] EXCEPT !.pc = "read", !.ver = v,
                                                      !.rebound = FALSE, !.packets = TRUE]]
        /\ from' = [from EXCEPT ![c] = Append(from[c], Line(v, stub[c].uid, ""))]
        /\ sig' = sig
    BY <1>1, <1>3 DEF Boot, ConnectTypeOK
  <2>2. v = Content(c) /\ v \in Builds
    BY <1>3
  <2> HIDE DEF v
  <2> QED
    BY <1>1, <1>2, <2>1, <2>2, BootWell
<1>4. CASE ~(Content(c) \in Builds /\ ~refused)
  <2>1. /\ Gone(c, "exec")
        /\ from' = [from EXCEPT ![c] =
                      Append(from[c], Line("none", "", IF refused THEN "denied" ELSE "noexec"))]
    BY <1>1, <1>4 DEF Boot, ConnectTypeOK
  <2>2. refused <=> stub[c].uid = "app" /\ stub[c].path = "file" /\ dev.selinux
    OBVIOUS
  <2> HIDE DEF refused
  <2> QED
    BY <1>1, <1>2, <1>4, <2>1, <2>2, BootBadly
<1> QED
  BY <1>3, <1>4


(* The one message a stub may have to read: who waits for what.            *)
LEMMA ToReadAt ==
  ASSUME ConnectInv, NEW c \in Clients, stub[c].pc = "read", to[c] # <<>>
  PROVE  /\ from[c] = <<>> /\ Reader(stub[c]) = cl[c].writer /\ Tail(to[c]) = <<>>
         /\ Head(to[c]).enc = cl[c].writer /\ Head(to[c]).thunk = cl[c].thunk
         /\ \/ cl[c].pc = "awaitSwitch" /\ Head(to[c]).type = ExecType(c)
            \/ cl[c].pc = "awaitListening" /\ Head(to[c]).type = "rebindUnix" /\ ~stub[c].rebound
            \/ /\ cl[c].pc = "accept" /\ Head(to[c]).type = "rebindTcp" /\ ~stub[c].rebound
               /\ ~conn[c]
            \/ cl[c].pc = "done" /\ Head(to[c]).type = "hello"
<1>1. cl[c] \in ClientRecords /\ Talks(c) /\ Alive(c) /\ Expects(c) = Reader(stub[c]) /\ ~Idle(c)
  BY ActorFacts DEF Alive, Expects, Idle
<1>2. ASSUME NEW type, Sent(c, type)
      PROVE  /\ from[c] = <<>> /\ Tail(to[c]) = <<>> /\ Head(to[c]).type = type
             /\ Head(to[c]).enc = cl[c].writer /\ Head(to[c]).thunk = cl[c].thunk
  <2> DEFINE m == [type |-> type, enc |-> cl[c].writer, thunk |-> cl[c].thunk]
  <2>1. to[c] = <<m>> /\ from[c] = <<>>
    BY <1>2 DEF Sent
  <2>2. m.type = type /\ m.enc = cl[c].writer /\ m.thunk = cl[c].thunk
    OBVIOUS
  <2> HIDE DEF m
  <2> QED
    BY <2>1, <2>2, OneFacts
<1>3. cl[c].pc \in {"awaitSwitch", "awaitListening", "accept", "done"}
  BY <1>1 DEF Talks, AtStart, AtHello, AtNext, AtUpgrade, AtEnd, ClientRecords, ClientPcs
<1>4. CASE cl[c].pc = "awaitSwitch"
  <2>1. Sent(c, ExecType(c)) /\ Reader(stub[c]) = cl[c].writer
    BY <1>1, <1>4 DEF Talks, AtSwitch
  <2> QED
    BY <1>2, <1>4, <2>1
<1>5. CASE cl[c].pc = "awaitListening"
  <2>1. Sent(c, "rebindUnix") /\ Reader(stub[c]) = cl[c].writer /\ ~stub[c].rebound
    BY <1>1, <1>5 DEF Talks, AtUpgrade
  <2> QED
    BY <1>2, <1>5, <2>1
<1>6. CASE cl[c].pc = "accept"
  <2>1. Sent(c, "rebindTcp") /\ Reader(stub[c]) = cl[c].writer /\ ~stub[c].rebound /\ ~conn[c]
    BY <1>1, <1>6 DEF Talks, AtUpgrade
  <2> QED
    BY <1>2, <1>6, <2>1
<1>7. CASE cl[c].pc = "done"
  <2>1. Sent(c, "hello") /\ Reader(stub[c]) = cl[c].writer
    BY <1>1, <1>7 DEF Talks, AtEnd
  <2> QED
    BY <1>2, <1>7, <2>1
<1> QED
  BY <1>3, <1>4, <1>5, <1>6, <1>7

(* What all of the following lemmas assume: the message has been taken.    *)
Taken(c) ==
  /\ stub[c].pc = "read" /\ to[c] # <<>> /\ to' = [to EXCEPT ![c] = Tail(@)]
  /\ UNCHANGED <<cl, dev, req, file, copy, tmp, faults, hurt, fwd>>

LEMMA TakenFacts ==
  ASSUME ConnectInv, NEW c \in Clients, Taken(c)
  PROVE  /\ to'[c] = <<>> /\ DOMAIN to' = Clients
         /\ \A d \in Clients \ {c} : to'[d] = to[d]
         /\ from[c] = <<>> /\ Alive(c) /\ Expects(c) = Reader(stub[c])
         /\ Reader(stub[c]) = cl[c].writer
         /\ UNCHANGED <<cl, dev, req, file, copy, tmp, faults, hurt, fwd>>
<1>1. ConnectTypeOK /\ Tail(to[c]) = <<>> /\ from[c] = <<>> /\ Reader(stub[c]) = cl[c].writer
  BY ActorFacts, ToReadAt DEF Taken
<1> QED
  BY <1>1 DEF Taken, ConnectTypeOK, Alive, Expects

LEMMA ReExecKept ==
  ASSUME ConnectInv, NEW c \in Clients, Taken(c), cl[c].pc = "awaitSwitch",
         NEW m, m.type = ExecType(c), m.thunk = cl[c].thunk, ReExec(c, m)
  PROVE  Kept(c)
<1>1. /\ cl[c] \in ClientRecords /\ stub[c] \in StubRecords /\ ConnectTypeOK /\ Talks(c)
      /\ Undisturbed(c)
  BY ActorFacts
<1>2. /\ to'[c] = <<>> /\ DOMAIN to' = Clients
      /\ \A d \in Clients \ {c} : to'[d] = to[d]
      /\ from[c] = <<>> /\ Alive(c) /\ Expects(c) = Reader(stub[c])
      /\ Reader(stub[c]) = cl[c].writer
      /\ UNCHANGED <<cl, dev, req, file, copy, tmp, faults, hurt, fwd>>
  BY TakenFacts
<1>3. /\ conn' = conn /\ ~sig[c]
      /\ (m.type = "execRoot" <=> req[c].user = "root")
      /\ cl[c].todo \in {H, UH} /\ req[c].user \in {"root", "app"}
      /\ OnSocket(c) /\ Upgradable(c)
  BY <1>1, <1>2 DEF ReExec, ExecType, Talks, AtSwitch, Always
<1> DEFINE asRoot == req[c].user = "root"
           refusal == IF asRoot THEN (IF dev.su THEN "" ELSE "noSu") ELSE dev.runas
<1>4. CASE refusal = ""
  <2> DEFINE p == IF ~asRoot /\ cl[c].thunk THEN "thunk" ELSE "boot"
             s == [stub[c] EXCEPT !.pc = p, !.path = "file", !.packets = FALSE, !.uid = Other(c)]
  <2>1. stub' = [stub EXCEPT ![c] = s] /\ UNCHANGED <<from, sig>>
    BY <1>1, <1>3, <1>4 DEF ReExec, ConnectTypeOK, Other
  <2>2. p \in {"thunk", "boot"} /\ (p = "thunk" <=> req[c].user # "root" /\ cl[c].thunk)
    OBVIOUS
  <2>3. Other(c) \in {"root", "app"}
    BY DEF Other
  <2> HIDE DEF p
  <2>4. /\ s.pc = p /\ s.uid = Other(c) /\ s.path = "file" /\ s.in = stub[c].in
        /\ s.rebound = stub[c].rebound /\ s.why = stub[c].why /\ s \in StubRecords
    <3>1. stub[c] \in StubRecords
      BY <1>1
    <3> QED
      BY ONLY ZenonT(60), <3>1, <2>2, <2>3 DEF StubRecords, StubPcs, Uids
  <2> HIDE DEF s
  <2>5. stub'[c] = s /\ \A d \in Clients \ {c} : stub'[d] = stub[d]
    BY <1>1, <2>1 DEF ConnectTypeOK
  <2>6. ConnectTypeOK'
    BY <1>1, <1>2, <1>3, <2>1, <2>4 DEF ConnectTypeOK
  <2>7. Apart(c)
    BY <1>2, <1>3, <2>1, <2>5 DEF Apart
  <2>8. AtSwitch(c)'
    <3>1. Expects(c)' = cl'[c].writer /\ Idle(c)' /\ Alive(c)' /\ Other(c)' = Other(c)
      BY <1>2, <1>3, <2>1, <2>2, <2>4, <2>5 DEF Expects, Reader, Idle, Alive, Other
    <3>2. OnSocket(c)' /\ Upgradable(c)'
      BY <1>2, <1>3, <2>4, <2>5 DEF OnSocket, Upgradable, ToUpgrade
    <3> QED
      BY <1>2, <1>3, <2>2, <2>4, <2>5, <3>1, <3>2 DEF AtSwitch
  <2>9. Talks(c)'
    BY <1>1, <1>2, <1>3, <2>1, <2>2, <2>4, <2>5, <2>8
       DEF Talks, AtStart, AtHello, AtNext, AtUpgrade, AtEnd, Always
  <2>10. ASSUME ~hurt'[c], Able(c)' PROVE Smooth(c)'
    <3>1. Smooth(c)
      BY <1>1, <1>2, <2>10 DEF Undisturbed, Able
    <3>2. StubLives(c)' /\ Installed(c)' /\ Greets(c)'
      BY <1>2, <3>1 DEF Smooth, StubLives, Installed, Greets
    <3>3. Switches(c)'
      BY <1>2, <1>3, <2>1, <2>2, <2>4, <2>5, <3>1 DEF Smooth, Switches, Alive
    <3> QED
      BY <3>2, <3>3 DEF Smooth
  <2> QED
    BY <2>6, <2>7, <2>9, <2>10 DEF Kept, Undisturbed
<1>5. CASE refusal # ""
  <2> DEFINE l == Line("none", "", refusal)
  <2>1. Gone(c, "switch") /\ from' = [from EXCEPT ![c] = Append(from[c], l)]
    BY <1>3, <1>5 DEF ReExec
  <2>2. l.kind = "line" /\ l.ver = "none" /\ l.err = refusal
    BY DEF Line
  <2>3. refusal = "" <=> IF req[c].user = "root" THEN dev.su ELSE dev.runas = ""
    OBVIOUS
  <2>4. req[c].user # "root" => refusal = dev.runas
    OBVIOUS
  <2> HIDE DEF l, refusal
  <2>5. /\ stub' \in [Clients -> StubRecords] /\ sig' \in [Clients -> BOOLEAN]
        /\ stub'[c].pc = "dead" /\ stub'[c].why # "garbled"
        /\ \A d \in Clients \ {c} : stub'[d] = stub[d] /\ sig'[d] = sig[d]
    BY <1>1, <2>1, GoneFacts
  <2>6. /\ from'[c] = <<l>> /\ DOMAIN from' = Clients
        /\ \A d \in Clients \ {c} : from'[d] = from[d]
    BY <1>1, <1>2, <2>1, OneFacts DEF ConnectTypeOK
  <2>7. Head(from'[c]) = l
    BY <2>6, OneFacts
  <2>8. Got(c)' /\ ~Alive(c)'
    BY <2>5, <2>6, <2>7 DEF Got, Alive
  <2>9. ConnectTypeOK'
    BY <1>1, <1>2, <1>3, <2>5, <2>6 DEF ConnectTypeOK
  <2>10. Apart(c)
    BY <1>2, <1>3, <2>5, <2>6 DEF Apart
  <2>11. AtSwitch(c)'
    BY <1>2, <1>3, <2>2, <2>7, <2>8 DEF AtSwitch
  <2>12. Talks(c)'
    BY <1>1, <1>2, <2>5, <2>8, <2>11
       DEF Talks, AtStart, AtHello, AtNext, AtUpgrade, AtEnd, Always
  <2>13. ASSUME ~hurt'[c], Able(c)' PROVE Smooth(c)'
    <3>1. Smooth(c)
      BY <1>1, <1>2, <2>13 DEF Undisturbed, Able
    <3>2. StubLives(c)' /\ Installed(c)' /\ Greets(c)'
      BY <1>2, <3>1 DEF Smooth, StubLives, Installed, Greets
    <3>3. req[c].user = "app"
      BY <1>3, <1>5, <2>3, <3>1 DEF Smooth, Switches
    <3>4. Switches(c)'
      BY <1>2, <1>5, <2>2, <2>4, <2>5, <2>7, <2>8, <3>3 DEF Switches
    <3> QED
      BY <3>2, <3>4 DEF Smooth
  <2> QED
    BY <2>9, <2>10, <2>12, <2>13 DEF Kept, Undisturbed
<1> QED
  BY <1>4, <1>5

(* A rebinding that the stub cannot do.                                    *)
LEMMA DiesKept ==
  ASSUME ConnectInv, NEW c \in Clients, Taken(c), Dies(c),
         cl[c].pc \in {"awaitListening", "accept"},
         Able(c) => hurt[c]
  PROVE  Kept(c)
<1>1. /\ cl[c] \in ClientRecords /\ stub[c] \in StubRecords /\ ConnectTypeOK /\ Talks(c)
  BY ActorFacts
<1>2. /\ to'[c] = <<>> /\ DOMAIN to' = Clients
      /\ \A d \in Clients \ {c} : to'[d] = to[d]
      /\ from[c] = <<>> /\ Alive(c)
      /\ UNCHANGED <<cl, dev, req, file, copy, tmp, faults, hurt, fwd>>
  BY TakenFacts
<1>3. stub[c].packets /\ conn' = conn
  BY <1>1 DEF Taken, Dies, Talks, Always
<1>4. Gone(c, "error") /\ from' = [from EXCEPT ![c] = Append(from[c], ErrorPacket)]
  BY <1>3 DEF Dies
<1>5. /\ stub' \in [Clients -> StubRecords] /\ sig' \in [Clients -> BOOLEAN]
      /\ stub'[c].pc = "dead" /\ stub'[c].why # "garbled"
      /\ \A d \in Clients \ {c} : stub'[d] = stub[d] /\ sig'[d] = sig[d]
  BY <1>1, <1>4, GoneFacts
<1>6. /\ from'[c] = <<ErrorPacket>> /\ DOMAIN from' = Clients
      /\ \A d \in Clients \ {c} : from'[d] = from[d]
  BY <1>1, <1>2, <1>4, OneFacts DEF ConnectTypeOK
<1>7. Head(from'[c]) = ErrorPacket /\ ErrorPacket.kind # "line"
  <2>1. Head(from'[c]) = ErrorPacket
    BY <1>6, OneFacts
  <2> QED
    BY <2>1 DEF ErrorPacket
<1>8. Got(c)' /\ ~Alive(c)'
  BY <1>5, <1>6, <1>7 DEF Got, Alive
<1>9. ConnectTypeOK'
  BY <1>1, <1>2, <1>3, <1>5, <1>6 DEF ConnectTypeOK
<1>10. Apart(c)
  BY <1>2, <1>3, <1>5, <1>6 DEF Apart
<1>11. AtUpgrade(c)'
  <2>1. /\ cl[c].todo \in {H, SH} /\ (ToSwitch(c) => req[c].user \in {"root", "app"})
    BY <1>1 DEF Talks, AtUpgrade
  <2>2. ToSwitch(c)' <=> ToSwitch(c)
    BY <1>2 DEF ToSwitch
  <2> QED
    BY <1>2, <1>7, <1>8, <2>1, <2>2 DEF AtUpgrade
<1>12. Talks(c)'
  BY <1>1, <1>2, <1>5, <1>8, <1>11
     DEF Talks, AtStart, AtHello, AtNext, AtSwitch, AtEnd, Always
<1>13. Undisturbed(c)'
  BY <1>2 DEF Undisturbed, Able
<1> QED
  BY <1>9, <1>10, <1>12, <1>13 DEF Kept

LEMMA BindsKept ==
  ASSUME ConnectInv, NEW c \in Clients, Taken(c), cl[c].pc = "awaitListening",
         stub' = [stub EXCEPT ![c] = [stub[c] EXCEPT !.pc = "accept"]],
         from' = [from EXCEPT ![c] = Append(from[c], Msg("listening"))],
         UNCHANGED <<conn, sig>>
  PROVE  Kept(c)
<1>1. /\ cl[c] \in ClientRecords /\ stub[c] \in StubRecords /\ ConnectTypeOK /\ Talks(c)
      /\ Undisturbed(c)
  BY ActorFacts
<1>2. /\ to'[c] = <<>> /\ DOMAIN to' = Clients
      /\ \A d \in Clients \ {c} : to'[d] = to[d]
      /\ from[c] = <<>> /\ Alive(c) /\ Reader(stub[c]) = cl[c].writer
      /\ UNCHANGED <<cl, dev, req, file, copy, tmp, faults, hurt, fwd>>
  BY TakenFacts
<1>3. /\ stub'[c] = [stub[c] EXCEPT !.pc = "accept"]
      /\ from'[c] = <<Msg("listening")>> /\ DOMAIN from' = Clients
      /\ \A d \in Clients \ {c} : stub'[d] = stub[d] /\ from'[d] = from[d]
  BY <1>1, <1>2, OneFacts DEF ConnectTypeOK
<1>4. /\ stub'[c].pc = "accept" /\ stub'[c].ver = stub[c].ver /\ stub'[c].uid = stub[c].uid
      /\ stub'[c].in = stub[c].in /\ stub'[c].packets = stub[c].packets
      /\ stub'[c].why = stub[c].why /\ stub'[c] \in StubRecords
  <2>1. stub[c] \in StubRecords /\ stub'[c] = [stub[c] EXCEPT !.pc = "accept"]
    BY <1>1, <1>3
  <2> QED
    BY ONLY <2>1 DEF StubRecords, StubPcs
<1>5. ConnectTypeOK'
  <2>1. stub' \in [Clients -> StubRecords]
    BY <1>1, <1>3, <1>4 DEF ConnectTypeOK
  <2> QED
    BY <1>1, <1>2, <1>3, <2>1 DEF ConnectTypeOK
<1>6. Apart(c)
  BY <1>2, <1>3 DEF Apart
<1>7. /\ cl[c].todo \in {H, SH} /\ (ToSwitch(c) => req[c].user \in {"root", "app"})
      /\ Fits(c) /\ ~conn[c]
  BY <1>1, <1>2 DEF Talks, AtUpgrade
<1>8. /\ ToSwitch(c)' <=> ToSwitch(c)
      /\ Fits(c)' /\ Reader(stub'[c]) = cl'[c].writer /\ Alive(c)'
  BY <1>2, <1>4, <1>7 DEF ToSwitch, Fits, Reader, Alive
<1>9. AtUpgrade(c)'
  BY <1>2, <1>3, <1>4, <1>7, <1>8 DEF AtUpgrade, Reader
<1>10. Talks(c)'
  <2>1. ~sig[c] /\ stub[c].packets
    BY <1>1, <1>2 DEF Talks, Always, Taken
  <2> QED
    BY <1>1, <1>2, <1>4, <1>9, <2>1
       DEF Talks, AtStart, AtHello, AtNext, AtSwitch, AtEnd, Always
<1>11. ASSUME ~hurt'[c], Able(c)' PROVE Smooth(c)'
  <2>1. Smooth(c)
    BY <1>1, <1>2, <1>11 DEF Undisturbed, Able
  <2> QED
    BY <1>2, <1>8, <2>1 DEF Smooth, StubLives, Installed, Greets, Switches
<1> QED
  BY <1>5, <1>6, <1>10, <1>11 DEF Kept, Undisturbed

LEMMA ConnectsKept ==
  ASSUME ConnectInv, NEW c \in Clients, Taken(c), cl[c].pc = "accept",
         stub' = [stub EXCEPT ![c] = [stub[c] EXCEPT !.in = "sock", !.rebound = TRUE]],
         conn' = [conn EXCEPT ![c] = TRUE],
         UNCHANGED <<from, sig>>
  PROVE  Kept(c)
<1>1. /\ cl[c] \in ClientRecords /\ stub[c] \in StubRecords /\ ConnectTypeOK /\ Talks(c)
      /\ Undisturbed(c) /\ stub[c].pc = "read"
  BY ActorFacts DEF Taken
<1>2. /\ to'[c] = <<>> /\ DOMAIN to' = Clients
      /\ \A d \in Clients \ {c} : to'[d] = to[d]
      /\ from[c] = <<>> /\ Alive(c)
      /\ UNCHANGED <<cl, dev, req, file, copy, tmp, faults, hurt, fwd>>
  BY TakenFacts
<1>3. /\ stub'[c] = [stub[c] EXCEPT !.in = "sock", !.rebound = TRUE]
      /\ conn'[c] /\ conn' \in [Clients -> BOOLEAN]
      /\ \A d \in Clients \ {c} : stub'[d] = stub[d] /\ conn'[d] = conn[d]
  BY <1>1 DEF ConnectTypeOK
<1>4. /\ stub'[c].pc = "read" /\ stub'[c].ver = stub[c].ver /\ stub'[c].uid = stub[c].uid
      /\ stub'[c].in = "sock" /\ stub'[c].packets = stub[c].packets
      /\ stub'[c].why = stub[c].why /\ stub'[c] \in StubRecords
  <2>1. /\ stub[c] \in StubRecords /\ stub[c].pc = "read"
        /\ stub'[c] = [stub[c] EXCEPT !.in = "sock", !.rebound = TRUE]
    BY <1>1, <1>3
  <2> QED
    BY ONLY <2>1 DEF StubRecords
<1>5. ConnectTypeOK'
  <2>1. stub' \in [Clients -> StubRecords]
    BY <1>1, <1>3, <1>4 DEF ConnectTypeOK
  <2> QED
    BY <1>1, <1>2, <1>3, <2>1 DEF ConnectTypeOK
<1>6. Apart(c)
  BY <1>2, <1>3 DEF Apart
<1>7. /\ cl[c].todo \in {H, SH} /\ (ToSwitch(c) => req[c].user \in {"root", "app"})
      /\ Fits(c)
  BY <1>1, <1>2 DEF Talks, AtUpgrade
<1>8. /\ ToSwitch(c)' <=> ToSwitch(c)
      /\ Fits(c)' /\ Alive(c)' /\ Idle(c)'
  BY <1>2, <1>4, <1>7 DEF ToSwitch, Fits, Alive, Idle
<1>9. AtUpgrade(c)'
  BY <1>2, <1>3, <1>4, <1>7, <1>8 DEF AtUpgrade
<1>10. Talks(c)'
  <2>1. ~sig[c] /\ stub[c].packets
    BY <1>1, <1>2 DEF Talks, Always
  <2> QED
    BY <1>1, <1>2, <1>4, <1>9, <2>1
       DEF Talks, AtStart, AtHello, AtNext, AtSwitch, AtEnd, Always
<1>11. ASSUME ~hurt'[c], Able(c)' PROVE Smooth(c)'
  <2>1. Smooth(c)
    BY <1>1, <1>2, <1>11 DEF Undisturbed, Able
  <2> QED
    BY <1>2, <1>8, <2>1 DEF Smooth, StubLives, Installed, Greets, Switches
<1> QED
  BY <1>5, <1>6, <1>10, <1>11 DEF Kept, Undisturbed

LEMMA ServesKept ==
  ASSUME ConnectInv, NEW c \in Clients, Taken(c), cl[c].pc = "done",
         stub' = [stub EXCEPT ![c] = [stub[c] EXCEPT !.pc = "session", !.packets = FALSE]],
         UNCHANGED <<from, conn, sig>>
  PROVE  Kept(c)
<1>1. /\ cl[c] \in ClientRecords /\ stub[c] \in StubRecords /\ ConnectTypeOK /\ Talks(c)
  BY ActorFacts
<1>2. /\ to'[c] = <<>> /\ DOMAIN to' = Clients
      /\ \A d \in Clients \ {c} : to'[d] = to[d]
      /\ from[c] = <<>> /\ Alive(c) /\ Reader(stub[c]) = cl[c].writer
      /\ UNCHANGED <<cl, dev, req, file, copy, tmp, faults, hurt, fwd>>
  BY TakenFacts
<1>3. /\ stub'[c] = [stub[c] EXCEPT !.pc = "session", !.packets = FALSE]
      /\ \A d \in Clients \ {c} : stub'[d] = stub[d]
  BY <1>1 DEF ConnectTypeOK
<1>4. /\ stub'[c].pc = "session" /\ stub'[c].ver = stub[c].ver /\ stub'[c].uid = stub[c].uid
      /\ stub'[c].in = stub[c].in
      /\ stub'[c].why = stub[c].why /\ stub'[c] \in StubRecords
  <2>1. /\ stub[c] \in StubRecords
        /\ stub'[c] = [stub[c] EXCEPT !.pc = "session", !.packets = FALSE]
    BY <1>1, <1>3
  <2> QED
    BY ONLY <2>1 DEF StubRecords, StubPcs
<1>5. ConnectTypeOK'
  <2>1. stub' \in [Clients -> StubRecords]
    BY <1>1, <1>3, <1>4 DEF ConnectTypeOK
  <2> QED
    BY <1>1, <1>2, <1>3, <2>1 DEF ConnectTypeOK
<1>6. Apart(c)
  BY <1>2, <1>3 DEF Apart
<1>7. cl[c].todo = <<>> /\ Fits(c) /\ OnSocket(c) /\ ~sig[c]
  BY <1>1, <1>2 DEF Talks, AtEnd, Always
<1>8. Fits(c)' /\ OnSocket(c)' /\ Reader(stub'[c]) = cl'[c].writer
  BY <1>2, <1>4, <1>7 DEF Fits, OnSocket, ToSwitch, ToUpgrade, Reader
<1>9. AtEnd(c)'
  BY <1>2, <1>4, <1>7, <1>8 DEF AtEnd, Reader
<1>10. Talks(c)'
  BY <1>1, <1>2, <1>4, <1>7, <1>9
     DEF Talks, AtStart, AtHello, AtNext, AtSwitch, AtUpgrade, Always
<1>11. Smooth(c)'
  BY <1>2 DEF Smooth, StubLives, Installed, Greets, Switches
<1> QED
  BY <1>5, <1>6, <1>10, <1>11 DEF Kept, Undisturbed


LEMMA StubReadKept ==
  ASSUME ConnectInv, NEW c \in Clients, StubRead(c)
  PROVE  Kept(c)
<1>1. /\ ConnectTypeOK /\ Undisturbed(c) /\ stub[c].pc = "read" /\ to[c] # <<>>
      /\ stub[c] \in StubRecords /\ hurt[c] \in BOOLEAN
  BY ActorFacts DEF StubRead
<1>2. Taken(c)
  BY DEF StubRead, Taken, local, localButFwd
<1> DEFINE m == Head(to[c])
<1>3. /\ m.enc = Reader(stub[c]) /\ m.thunk = cl[c].thunk
      /\ \/ cl[c].pc = "awaitSwitch" /\ m.type = ExecType(c)
         \/ cl[c].pc = "awaitListening" /\ m.type = "rebindUnix" /\ ~stub[c].rebound
         \/ cl[c].pc = "accept" /\ m.type = "rebindTcp" /\ ~stub[c].rebound
         \/ cl[c].pc = "done" /\ m.type = "hello"
  BY <1>1, ToReadAt
<1>4. CASE cl[c].pc = "awaitSwitch" /\ m.type = ExecType(c)
  <2>1. m.type \in {"execRoot", "execUser"}
    BY <1>4 DEF ExecType
  <2>2. ReExec(c, m)
    BY <1>3, <2>1 DEF StubRead
  <2> HIDE DEF m
  <2> QED
    BY <1>2, <1>3, <1>4, <2>2, ReExecKept
<1>5. CASE cl[c].pc = "awaitListening" /\ m.type = "rebindUnix" /\ ~stub[c].rebound
  <2>1. CASE dev.bind
    <3>1. /\ stub' = [stub EXCEPT ![c] = [stub[c] EXCEPT !.pc = "accept"]]
          /\ from' = [from EXCEPT ![c] = Append(from[c], Msg("listening"))]
          /\ UNCHANGED <<conn, sig>>
      BY <1>1, <1>3, <1>5, <2>1 DEF StubRead, ConnectTypeOK
    <3> QED
      BY <1>2, <1>5, <3>1, BindsKept
  <2>2. CASE ~dev.bind
    <3>1. Dies(c)
      BY <1>3, <1>5, <2>2 DEF StubRead
    <3>2. ASSUME Able(c), ~hurt[c] PROVE FALSE
      BY <1>1, <1>5, <2>2, <3>2 DEF Undisturbed, Smooth, StubLives, Able
    <3> QED
      BY <1>1, <1>2, <1>5, <3>1, <3>2, DiesKept
  <2> QED
    BY <2>1, <2>2
<1>6. CASE cl[c].pc = "accept" /\ m.type = "rebindTcp" /\ ~stub[c].rebound
  <2>1. CASE dev.net
    <3>1. /\ stub' = [stub EXCEPT ![c] = [stub[c] EXCEPT !.in = "sock", !.rebound = TRUE]]
          /\ conn' = [conn EXCEPT ![c] = TRUE]
          /\ UNCHANGED <<from, sig>>
      BY <1>1, <1>3, <1>6, <2>1 DEF StubRead, ConnectTypeOK
    <3> QED
      BY <1>2, <1>6, <3>1, ConnectsKept
  <2>2. CASE ~dev.net
    <3>1. Dies(c)
      BY <1>3, <1>6, <2>2 DEF StubRead
    <3>2. ASSUME Able(c), ~hurt[c] PROVE FALSE
      BY <1>1, <1>6, <2>2, <3>2 DEF Undisturbed, Smooth, StubLives, Able
    <3> QED
      BY <1>1, <1>2, <1>6, <3>1, <3>2, DiesKept
  <2> QED
    BY <2>1, <2>2
<1>7. CASE cl[c].pc = "done" /\ m.type = "hello"
  <2>1. /\ stub' = [stub EXCEPT ![c] = [stub[c] EXCEPT !.pc = "session", !.packets = FALSE]]
        /\ UNCHANGED <<from, conn, sig>>
    BY <1>1, <1>3, <1>7 DEF StubRead, ConnectTypeOK
  <2> QED
    BY <1>2, <1>7, <2>1, ServesKept
<1> QED
  BY <1>3, <1>4, <1>5, <1>6, <1>7

LEMMA StubAcceptKept ==
  ASSUME ConnectInv, NEW c \in Clients, StubAccept(c)
  PROVE  Kept(c)
<1>1. /\ cl[c] \in ClientRecords /\ stub[c] \in StubRecords /\ ConnectTypeOK /\ Talks(c)
      /\ Undisturbed(c) /\ stub[c].pc = "accept" /\ conn[c] /\ Alive(c)
      /\ Expects(c) = "raw" /\ Listens(c)
  BY ActorFacts DEF StubAccept, Alive, Expects, Listens
<1>2. /\ stub' = [stub EXCEPT ![c] = [stub[c] EXCEPT !.pc = "read", !.in = "sock", !.rebound = TRUE]]
      /\ UNCHANGED <<cl, to, from, conn, sig, dev, req, file, copy, tmp, faults, hurt, fwd>>
  BY <1>1 DEF StubAccept, ConnectTypeOK, local, localButFwd
<1>3. /\ stub'[c] = [stub[c] EXCEPT !.pc = "read", !.in = "sock", !.rebound = TRUE]
      /\ \A d \in Clients \ {c} : stub'[d] = stub[d]
  BY <1>1, <1>2 DEF ConnectTypeOK
<1>4. /\ stub'[c].pc = "read" /\ stub'[c].ver = stub[c].ver /\ stub'[c].uid = stub[c].uid
      /\ stub'[c].in = "sock" /\ stub'[c].packets = stub[c].packets
      /\ stub'[c].why = stub[c].why /\ stub'[c] \in StubRecords
  <2>1. /\ stub[c] \in StubRecords
        /\ stub'[c] = [stub[c] EXCEPT !.pc = "read", !.in = "sock", !.rebound = TRUE]
    BY <1>1, <1>3
  <2> QED
    BY ONLY <2>1 DEF StubRecords, StubPcs
<1>5. ConnectTypeOK'
  <2>1. stub' \in [Clients -> StubRecords]
    BY <1>1, <1>2, <1>3, <1>4 DEF ConnectTypeOK
  <2> QED
    BY <1>1, <1>2, <2>1 DEF ConnectTypeOK
<1>6. Apart(c)
  BY <1>2, <1>3 DEF Apart
<1>7. cl[c].pc \in {"next", "awaitSwitch", "done"}
  BY <1>1 DEF Talks, AtStart, AtHello, AtUpgrade, AtEnd, ClientRecords, ClientPcs
<1>8. /\ ToSwitch(c)' <=> ToSwitch(c)
      /\ ToUpgrade(c)' <=> ToUpgrade(c)
      /\ Fits(c)' <=> Fits(c)
      /\ OnSocket(c)' <=> OnSocket(c)
      /\ Idle(c)' <=> Idle(c)
      /\ \A type : Sent(c, type)' <=> Sent(c, type)
      /\ Alive(c)' /\ Expects(c)' = "raw" /\ Listens(c)' /\ ExecType(c)' = ExecType(c)
  BY <1>2, <1>4
     DEF ToSwitch, ToUpgrade, Fits, OnSocket, Idle, Sent, Alive, Expects, Listens, Reader, ExecType
<1>9. AtNext(c)'
  <2>1. SUFFICES ASSUME cl[c].pc = "next" PROVE AtNext(c)'
    BY <1>2 DEF AtNext
  <2>2. AtNext(c) /\ Upgradable(c)
    BY <1>1, <2>1 DEF Talks, AtNext
  <2>3. Upgradable(c)'
    BY <1>1, <1>8, <2>2 DEF Upgradable
  <2> QED
    BY <1>1, <1>2, <1>8, <2>1, <2>2, <2>3 DEF AtNext
<1>10. AtSwitch(c)'
  <2>1. SUFFICES ASSUME cl[c].pc = "awaitSwitch" PROVE AtSwitch(c)'
    BY <1>2 DEF AtSwitch
  <2>2. AtSwitch(c) /\ Upgradable(c) /\ Sent(c, ExecType(c))
    BY <1>1, <2>1 DEF Talks, AtSwitch
  <2>3. Upgradable(c)'
    BY <1>1, <1>8, <2>2 DEF Upgradable
  <2>4. Sent(c, ExecType(c))'
    BY <1>2, <2>2 DEF Sent, ExecType
  <2> QED
    BY <1>1, <1>2, <1>8, <2>1, <2>2, <2>3, <2>4 DEF AtSwitch
<1>11. AtEnd(c)'
  BY <1>1, <1>2, <1>4, <1>7, <1>8 DEF Talks, AtEnd
<1>12. Talks(c)'
  <2>1. ~sig[c] /\ stub[c].packets
    BY <1>1 DEF Talks, Always
  <2> QED
    BY <1>1, <1>2, <1>4, <1>7, <1>9, <1>10, <1>11, <2>1
       DEF Talks, AtStart, AtHello, AtUpgrade, Always
<1>13. ASSUME ~hurt'[c], Able(c)' PROVE Smooth(c)'
  <2>1. Smooth(c)
    BY <1>1, <1>2, <1>13 DEF Undisturbed, Able
  <2>2. StubLives(c)' /\ Installed(c)' /\ Greets(c)'
    BY <1>2, <1>7, <1>8, <2>1 DEF Smooth, StubLives, Installed, Greets
  <2>3. Switches(c)'
    <3>1. SUFFICES ASSUME cl[c].pc = "awaitSwitch" PROVE Switches(c)'
      BY <1>2 DEF Switches
    <3>2. from[c] = <<>>
      BY <1>1, <3>1 DEF Talks, AtSwitch, Sent
    <3> QED
      BY <1>1, <1>2, <1>4, <1>8, <2>1, <3>1, <3>2 DEF Smooth, Switches
  <2> QED
    BY <2>2, <2>3 DEF Smooth
<1> QED
  BY <1>5, <1>6, <1>12, <1>13 DEF Kept, Undisturbed

(* A step of the script that makes the copy: it leaves the client's stub   *)
(* about to move its own build or to execute it.                           *)
LEMMA ScriptKept ==
  ASSUME ConnectInv, NEW c \in Clients, stub[c].pc \in {"thunk", "move"},
         NEW s \in StubRecords, s.pc \in {"boot", "move"}, s.pc = "boot" => s.path = "copy",
         s.uid = stub[c].uid, s.in = stub[c].in, s.rebound = stub[c].rebound, s.why = stub[c].why,
         stub' = [stub EXCEPT ![c] = s],
         hurt' \in [Clients -> BOOLEAN], hurt'[c] <=> hurt[c],
         \A d \in Clients \ {c} :
           (hurt[d] => hurt'[d]) /\ (~hurt'[d] => copy' \in {copy, Ver[d]}),
         UNCHANGED <<cl, to, from, conn, sig, dev, req, file, tmp, faults, fwd>>,
         file = Ver[c] /\ (stub[c].pc = "move" => stub[c].ver = Ver[c]) =>
           /\ s.pc = "boot" => copy' = Ver[c]
           /\ s.pc = "move" => s.ver = Ver[c]
  PROVE  Kept(c)
<1>1. /\ cl[c] \in ClientRecords /\ stub[c] \in StubRecords /\ ConnectTypeOK /\ Talks(c)
      /\ Undisturbed(c) /\ stub[c].pc \in {"thunk", "move"} /\ Alive(c)
  BY ActorFacts DEF Alive
<1>2. UNCHANGED <<cl, to, from, conn, sig, dev, req, file, tmp, faults, fwd>>
  OBVIOUS
<1>3. stub'[c] = s /\ \A d \in Clients \ {c} : stub'[d] = stub[d]
  BY <1>1 DEF ConnectTypeOK
<1>4. /\ stub'[c].pc \in {"boot", "move"} /\ stub'[c].uid = stub[c].uid
      /\ stub'[c].in = stub[c].in /\ stub'[c].rebound = stub[c].rebound
      /\ stub'[c].why = stub[c].why /\ (stub'[c].pc = "boot" => stub'[c].path = "copy")
  BY <1>3
<1>5. /\ hurt' \in [Clients -> BOOLEAN] /\ (hurt'[c] <=> hurt[c])
      /\ \A d \in Clients \ {c} :
           (hurt[d] => hurt'[d]) /\ (~hurt'[d] => copy' \in {copy, Ver[d]})
  OBVIOUS
<1>6. ConnectTypeOK'
  <2>1. stub' \in [Clients -> StubRecords]
    BY <1>1 DEF ConnectTypeOK
  <2> QED
    BY <1>1, <1>2, <1>5, <2>1 DEF ConnectTypeOK
<1>7. Apart(c)
  BY <1>2, <1>3, <1>5 DEF Apart
<1>8. cl[c].pc = "awaitSwitch" /\ Idle(c)
  BY <1>1, BootAt
<1>9. AtSwitch(c)'
  <2>1. /\ cl[c].todo \in {H, UH} /\ req[c].user \in {"root", "app"}
        /\ Expects(c) = cl[c].writer /\ OnSocket(c) /\ Upgradable(c) /\ stub[c].uid = Other(c)
    BY <1>1, <1>8 DEF Talks, AtSwitch, Listens
  <2>2. Expects(c)' = cl'[c].writer /\ Idle(c)' /\ Alive(c)' /\ Other(c)' = Other(c)
    BY <1>1, <1>2, <1>4, <1>8, <2>1 DEF Expects, Reader, Idle, Alive, Other
  <2>3. OnSocket(c)' /\ Upgradable(c)'
    BY <1>2, <1>4, <2>1 DEF OnSocket, Upgradable, ToUpgrade
  <2> QED
    BY <1>2, <1>4, <2>1, <2>2, <2>3 DEF AtSwitch
<1>10. Talks(c)'
  <2>1. ~sig[c]
    BY <1>1 DEF Talks, Always
  <2> QED
    BY <1>1, <1>2, <1>4, <1>8, <1>9, <2>1
       DEF Talks, AtStart, AtHello, AtNext, AtUpgrade, AtEnd, Always
<1>11. ASSUME ~hurt'[c], Able(c)' PROVE Smooth(c)'
  <2>1. Smooth(c)
    BY <1>1, <1>2, <1>5, <1>11 DEF Undisturbed, Able
  <2>2. StubLives(c)' /\ Installed(c)' /\ Greets(c)'
    BY <1>2, <1>8, <2>1 DEF Smooth, StubLives, Installed, Greets
  <2>3. /\ file = Ver[c] /\ req[c].user = "app"
        /\ stub[c].pc = "move" => stub[c].ver = Ver[c]
    BY <1>1, <1>8, <2>1 DEF Smooth, StubLives, Installed, Switches
  <2>4. /\ stub'[c].pc = "boot" => copy' = Ver[c]
        /\ stub'[c].pc = "move" => stub'[c].ver = Ver[c]
    BY <1>3, <2>3
  <2>5. Switches(c)'
    BY <1>2, <1>4, <1>8, <2>3, <2>4 DEF Switches, Alive, Idle
  <2> QED
    BY <2>2, <2>5 DEF Smooth
<1> QED
  BY <1>6, <1>7, <1>10, <1>11 DEF Kept, Undisturbed

LEMMA ThunkKept ==
  ASSUME ConnectInv, NEW c \in Clients, Thunk(c)
  PROVE  Kept(c)
<1>1. /\ stub[c] \in StubRecords /\ ConnectTypeOK /\ stub[c].pc = "thunk"
      /\ UNCHANGED <<cl, to, from, conn, sig, dev, req, file, copy, tmp, faults, hurt, fwd>>
  BY ActorFacts DEF Thunk
<1>2. hurt' \in [Clients -> BOOLEAN]
  BY <1>1 DEF ConnectTypeOK
<1>3. CASE copy = file
  <2> DEFINE s == [stub[c] EXCEPT !.pc = "boot", !.path = "copy"]
  <2>1. stub' = [stub EXCEPT ![c] = s]
    BY <1>1, <1>3 DEF Thunk, ConnectTypeOK
  <2>2. /\ s \in StubRecords /\ s.pc = "boot" /\ s.path = "copy" /\ s.uid = stub[c].uid
        /\ s.in = stub[c].in /\ s.rebound = stub[c].rebound /\ s.why = stub[c].why
    <3>1. stub[c] \in StubRecords
      BY <1>1
    <3> QED
      BY ONLY <3>1 DEF StubRecords, StubPcs
  <2> HIDE DEF s
  <2> QED
    BY <1>1, <1>2, <1>3, <2>1, <2>2, ScriptKept
<1>4. CASE copy # file
  <2> DEFINE v == IF file \in Builds THEN file ELSE "none"
             s == [stub[c] EXCEPT !.pc = "move", !.ver = v]
  <2>1. stub' = [stub EXCEPT ![c] = s]
    BY <1>1, <1>4 DEF Thunk, ConnectTypeOK
  <2>2. v \in Builds \cup {"none"} /\ (file = Ver[c] => v = Ver[c])
    BY DEF Builds
  <2> HIDE DEF v
  <2>3. /\ s \in StubRecords /\ s.pc = "move" /\ s.ver = v /\ s.uid = stub[c].uid
        /\ s.in = stub[c].in /\ s.rebound = stub[c].rebound /\ s.why = stub[c].why
    <3>1. stub[c] \in StubRecords
      BY <1>1
    <3> QED
      BY ONLY <3>1, <2>2 DEF StubRecords, StubPcs
  <2> HIDE DEF s
  <2> QED
    BY <1>1, <1>2, <2>1, <2>2, <2>3, ScriptKept
<1> QED
  BY <1>3, <1>4

LEMMA ThunkMoveKept ==
  ASSUME ConnectInv, NEW c \in Clients, ThunkMove(c)
  PROVE  Kept(c)
<1> DEFINE s == [stub[c] EXCEPT !.pc = "boot", !.path = "copy"]
<1>1. /\ stub[c] \in StubRecords /\ ConnectTypeOK /\ stub[c].pc = "move"
      /\ copy' = stub[c].ver /\ Meddle(c, stub[c].ver)
      /\ UNCHANGED <<cl, to, from, conn, sig, dev, req, file, tmp, faults, fwd>>
  BY ActorFacts DEF ThunkMove
<1>2. stub' = [stub EXCEPT ![c] = s]
  BY <1>1 DEF ThunkMove, ConnectTypeOK
<1>3. /\ s \in StubRecords /\ s.pc = "boot" /\ s.path = "copy" /\ s.uid = stub[c].uid
      /\ s.in = stub[c].in /\ s.rebound = stub[c].rebound /\ s.why = stub[c].why
  <2>1. stub[c] \in StubRecords
    BY <1>1
  <2> QED
    BY ONLY <2>1 DEF StubRecords, StubPcs
<1>4. /\ hurt' \in [Clients -> BOOLEAN] /\ (hurt'[c] <=> hurt[c])
      /\ \A d \in Clients \ {c} :
           (hurt[d] => hurt'[d]) /\ (~hurt'[d] => copy' \in {copy, Ver[d]})
  BY <1>1 DEF Meddle, ConnectTypeOK
<1> HIDE DEF s
<1> QED
  BY <1>1, <1>2, <1>3, <1>4, ScriptKept

----------------------------------------------------------------------------
(* Faults.                                                                 *)

LEMMA StubLostKept ==
  ASSUME ConnectInv, NEW c \in Clients, StubLost(c)
  PROVE  Kept(c)
<1>1. /\ cl[c] \in ClientRecords /\ stub[c] \in StubRecords /\ ConnectTypeOK /\ Talks(c)
      /\ Alive(c) /\ stub[c].pc \notin {"none", "session"}
  BY ActorFacts DEF StubLost, Alive
<1>2. /\ Gone(c, "lost") /\ hurt' = [hurt EXCEPT ![c] = TRUE]
      /\ UNCHANGED <<dev, req, file, copy, tmp, cl, to, from, conn, fwd>>
  BY DEF StubLost
<1>3. /\ stub' \in [Clients -> StubRecords] /\ sig' \in [Clients -> BOOLEAN]
      /\ stub'[c].pc = "dead" /\ stub'[c].why # "garbled"
      /\ \A d \in Clients \ {c} : stub'[d] = stub[d] /\ sig'[d] = sig[d]
  BY <1>1, <1>2, GoneFacts
<1>4. /\ hurt' \in [Clients -> BOOLEAN] /\ hurt'[c]
      /\ \A d \in Clients \ {c} : hurt'[d] = hurt[d]
  BY <1>1, <1>2 DEF ConnectTypeOK
<1>5. ConnectTypeOK'
  BY <1>1, <1>2, <1>3, <1>4 DEF ConnectTypeOK
<1>6. Apart(c)
  BY <1>2, <1>3, <1>4 DEF Apart
<1>7. ~Alive(c)'
  BY <1>3 DEF Alive
<1>8. OwnLine(c).kind = "line" /\ OwnLine(c).ver = stub[c].ver /\ Msg("listening").kind = "msg"
  BY DEF OwnLine, Line, Msg
<1>9. ASSUME NEW x, from[c] = <<x>> PROVE Got(c)' /\ Head(from'[c]) = x
  <2>1. Head(from[c]) = x
    BY <1>9, OneFacts
  <2> QED
    BY <1>2, <1>9, <2>1 DEF Got
<1>10. AtHello(c)'
  <2>1. SUFFICES ASSUME cl[c].pc = "awaitHello" PROVE AtHello(c)'
    BY <1>2 DEF AtHello
  <2>2. /\ AtHello(c)
        /\ from[c] = <<>> \/ from[c] = <<OwnLine(c)>>
    BY <1>1, <2>1 DEF Talks, AtHello, Alive
  <2>3. stub'[c] = [stub[c] EXCEPT !.pc = "dead", !.why = "lost"]
    BY <1>1, <1>2 DEF Gone, ConnectTypeOK
  <2>4. /\ stub'[c].in = stub[c].in /\ stub'[c].rebound = stub[c].rebound
        /\ stub'[c].uid = stub[c].uid /\ stub'[c].path = stub[c].path
    BY <1>1, <2>3 DEF StubRecords
  <2>5. from'[c] = <<>> \/ (Got(c)' /\ Head(from'[c]).kind = "line")
    BY <1>2, <1>8, <1>9, <2>2
  <2> QED
    BY <1>2, <1>3, <2>1, <2>2, <2>4, <2>5 DEF AtHello
<1>11. AtNext(c)'
  <2>1. ToSwitch(c)' <=> ToSwitch(c)
    BY <1>2 DEF ToSwitch
  <2> QED
    BY <1>1, <1>2, <1>7, <2>1 DEF Talks, AtNext
<1>12. AtSwitch(c)'
  <2>1. SUFFICES ASSUME cl[c].pc = "awaitSwitch" PROVE AtSwitch(c)'
    BY <1>2 DEF AtSwitch
  <2>2. /\ cl[c].todo \in {H, UH} /\ req[c].user \in {"root", "app"}
        /\ from[c] = <<>> \/ from[c] = <<OwnLine(c)>>
    BY <1>1, <2>1 DEF Talks, AtSwitch, Idle, Sent
  <2>3. from'[c] = <<>> \/ (Got(c)' /\ Head(from'[c]).kind = "line")
    BY <1>2, <1>8, <1>9, <2>2
  <2> QED
    BY <1>2, <1>7, <2>2, <2>3 DEF AtSwitch
<1>13. AtUpgrade(c)'
  <2>1. SUFFICES ASSUME cl[c].pc \in {"awaitListening", "forwarded", "accept"} PROVE AtUpgrade(c)'
    BY <1>2 DEF AtUpgrade
  <2>2. cl[c].todo \in {H, SH} /\ (ToSwitch(c) => req[c].user \in {"root", "app"})
    BY <1>1, <2>1 DEF Talks, AtUpgrade
  <2>3. ToSwitch(c)' <=> ToSwitch(c)
    BY <1>2 DEF ToSwitch
  <2>4. cl[c].pc = "awaitListening" => from[c] = <<>> \/ from[c] = <<Msg("listening")>>
    BY <1>1 DEF Talks, AtUpgrade, Sent
  <2>5. cl[c].pc = "awaitListening" =>
          from'[c] = <<>> \/ (Got(c)' /\ Head(from'[c]).kind # "line")
    BY <1>2, <1>8, <1>9, <2>4
  <2> QED
    BY <1>2, <1>3, <1>7, <2>2, <2>3, <2>5 DEF AtUpgrade
<1>14. AtStart(c)' /\ AtEnd(c)' /\ Always(c)'
  BY <1>1, <1>2, <1>3, <1>7 DEF Talks, AtStart, AtEnd, Always
<1>15. Talks(c)'
  BY <1>10, <1>11, <1>12, <1>13, <1>14 DEF Talks
<1> QED
  BY <1>4, <1>5, <1>6, <1>15 DEF Kept, Undisturbed

LEMMA ClientKilledKept ==
  ASSUME ConnectInv, NEW c \in Clients, ClientKilled(c)
  PROVE  Kept(c)
<1>1. /\ cl[c] \in ClientRecords /\ stub[c] \in StubRecords /\ ConnectTypeOK /\ Talks(c)
  BY ActorFacts
<1>2. /\ cl' = [cl EXCEPT ![c] = [cl[c] EXCEPT !.pc = "killed"]]
      /\ stub' = [stub EXCEPT ![c] = [stub[c] EXCEPT !.pc = "dead"]]
      /\ hurt' = [d \in Clients |-> hurt[d] \/ file = "part"]
      /\ UNCHANGED <<dev, req, file, copy, tmp, to, from, conn, sig, fwd>>
  BY <1>1 DEF ClientKilled, ConnectTypeOK
<1>3. /\ cl'[c] = [cl[c] EXCEPT !.pc = "killed"] /\ stub'[c] = [stub[c] EXCEPT !.pc = "dead"]
      /\ hurt' \in [Clients -> BOOLEAN]
      /\ \A d \in Clients \ {c} : cl'[d] = cl[d] /\ stub'[d] = stub[d] /\ (hurt[d] => hurt'[d])
  BY <1>1, <1>2 DEF ConnectTypeOK
<1>4. /\ cl'[c].pc = "killed" /\ stub'[c].pc = "dead" /\ stub'[c].why = stub[c].why
      /\ cl'[c] \in ClientRecords /\ stub'[c] \in StubRecords
  BY <1>1, <1>3 DEF ClientRecords, StubRecords, ClientPcs, StubPcs
<1>5. ConnectTypeOK'
  <2>1. cl' \in [Clients -> ClientRecords] /\ stub' \in [Clients -> StubRecords]
    BY <1>1, <1>2, <1>3, <1>4 DEF ConnectTypeOK
  <2> QED
    BY <1>1, <1>2, <1>3, <2>1 DEF ConnectTypeOK
<1>6. Apart(c)
  BY <1>2, <1>3 DEF Apart
<1>7. Talks(c)'
  BY <1>1, <1>2, <1>4
     DEF Talks, AtStart, AtHello, AtNext, AtSwitch, AtUpgrade, AtEnd, Always, Alive
<1>8. Smooth(c)'
  BY <1>4 DEF Smooth, StubLives, Installed, Greets, Switches
<1> QED
  BY <1>5, <1>6, <1>7, <1>8 DEF Kept, Undisturbed

----------------------------------------------------------------------------
(* The invariant holds at first and is kept.                               *)

LEMMA InitConnectInv ==
  ASSUME ConnectInit
  PROVE  ConnectInv
<1>1. /\ Attempt(FALSE) \in ClientRecords /\ Attempt(FALSE).pc = "try"
      /\ Attempt(FALSE).phase = "installed" /\ Attempt(FALSE).i = 0
      /\ Attempt(FALSE).writer = "adb" /\ Attempt(FALSE).monitor = TRUE
  BY DEF Attempt, ClientRecords, ClientPcs
<1>2. NoStub \in StubRecords /\ NoStub.pc = "none" /\ NoStub.why = ""
  BY DEF NoStub, StubRecords, StubPcs, Uids
<1>3. req \in [Clients -> [user : {"shell", "root", "app"}, transport : {"shell", "unix", "tcp"}]]
  BY ConnectAssumption DEF ConnectInit
<1>4. ConnectTypeOK
  BY <1>1, <1>2, <1>3 DEF ConnectInit, ConnectTypeOK
<1>5. ASSUME NEW c \in Clients PROVE Talks(c) /\ Undisturbed(c)
  <2>1. /\ cl[c] = Attempt(FALSE) /\ stub[c] = NoStub /\ ~conn[c] /\ ~sig[c] /\ c \notin fwd
    BY DEF ConnectInit
  <2>2. Talks(c)
    BY <1>1, <1>2, <2>1
       DEF Talks, AtStart, AtHello, AtNext, AtSwitch, AtUpgrade, AtEnd, Always
  <2>3. Smooth(c)
    BY <1>1, <2>1 DEF Smooth, StubLives, Installed, Greets, Switches
  <2> QED
    BY <2>2, <2>3 DEF Undisturbed
<1> QED
  BY <1>4, <1>5 DEF ConnectInv

LEMMA StepKept ==
  ASSUME ConnectInv, NEW c \in Clients,
         ClientStep(c) \/ StubStep(c) \/ StubLost(c) \/ ClientKilled(c)
  PROVE  Kept(c)
<1>1. CASE ClientStep(c)
  BY <1>1, TryStubKept, ReadHelloKept, SendStubKept, RenameKept, CatDoneKept, SwitchKept,
     SwitchedKept, UpgradeKept, ListeningKept, ConnectSocketKept, AcceptKept, SendHelloKept,
     LostConnectionKept, ExitKept DEF ClientStep
<1>2. CASE StubStep(c)
  BY <1>2, BootKept, StubReadKept, StubAcceptKept, ThunkKept, ThunkMoveKept DEF StubStep
<1> QED
  BY <1>1, <1>2, StubLostKept, ClientKilledKept

LEMMA NextConnectInv ==
  ASSUME ConnectInv, [ConnectNext]_connvars
  PROVE  ConnectInv'
<1>1. CASE ConnectNext
  <2>1. PICK c \in Clients : ClientStep(c) \/ StubStep(c) \/ StubLost(c) \/ ClientKilled(c)
    BY <1>1 DEF ConnectNext
  <2>2. ConnectTypeOK' /\ Apart(c) /\ Talks(c)' /\ Undisturbed(c)'
    BY <2>1, StepKept DEF Kept
  <2>3. ASSUME NEW d \in Clients, d # c PROVE Talks(d)' /\ Undisturbed(d)'
    BY <2>2, <2>3, ApartKeeps
  <2> QED
    BY <2>2, <2>3 DEF ConnectInv
<1>2. CASE UNCHANGED connvars
  <2>1. /\ UNCHANGED <<dev, req, file, copy, tmp, cl, stub, to, from, conn, fwd, sig, hurt>>
    BY <1>2 DEF connvars
  <2>2. ConnectTypeOK'
    BY <2>1 DEF ConnectInv, ConnectTypeOK
  <2>3. ASSUME NEW d \in Clients PROVE Talks(d)' /\ Undisturbed(d)'
    BY <2>1, UntouchedKeeps
  <2> QED
    BY <2>2, <2>3 DEF ConnectInv
<1> QED
  BY <1>1, <1>2

LEMMA ConnectInvHolds == ConnectSpec => []ConnectInv
<1>1. ConnectInit => ConnectInv
  BY InitConnectInv
<1>2. ConnectInv /\ [ConnectNext]_connvars => ConnectInv'
  BY NextConnectInv
<1> QED
  BY <1>1, <1>2, PTL DEF ConnectSpec

----------------------------------------------------------------------------
(* What it implies.                                                        *)

LEMMA InvUnderstood ==
  ASSUME ConnectInv
  PROVE  Understood
<1>1. SUFFICES ASSUME NEW c \in Clients
      PROVE  /\ stub[c].why # "garbled"
             /\ from[c] # <<>> =>
                  /\ cl[c].pc \in {"awaitHello", "awaitSwitch"} => Head(from[c]).kind = "line"
                  /\ cl[c].pc = "awaitListening" => Head(from[c]).kind # "line"
  BY DEF Understood
<1>2. Talks(c)
  BY ActorFacts
<1>3. stub[c].why # "garbled"
  BY <1>2 DEF Talks, Always
<1>4. ASSUME NEW x, from[c] = <<x>> PROVE Head(from[c]) = x
  BY <1>4, OneFacts
<1>5. OwnLine(c).kind = "line" /\ Msg("listening").kind = "msg"
  BY DEF OwnLine, Line, Msg
<1>6. ASSUME from[c] # <<>>, cl[c].pc = "awaitHello" PROVE Head(from[c]).kind = "line"
  <2>1. from[c] = <<OwnLine(c)>> \/ Head(from[c]).kind = "line"
    BY <1>2, <1>6 DEF Talks, AtHello
  <2> QED
    BY <1>4, <1>5, <2>1
<1>7. ASSUME from[c] # <<>>, cl[c].pc = "awaitSwitch" PROVE Head(from[c]).kind = "line"
  <2>1. from[c] = <<OwnLine(c)>> \/ Head(from[c]).kind = "line"
    BY <1>2, <1>7 DEF Talks, AtSwitch, Sent, Idle
  <2> QED
    BY <1>4, <1>5, <2>1
<1>8. ASSUME from[c] # <<>>, cl[c].pc = "awaitListening" PROVE Head(from[c]).kind # "line"
  <2>1. from[c] = <<Msg("listening")>> \/ Head(from[c]).kind # "line"
    BY <1>2, <1>8 DEF Talks, AtUpgrade, Sent
  <2> QED
    BY <1>4, <1>5, <2>1
<1> QED
  BY <1>3, <1>6, <1>7, <1>8

LEMMA InvRunsAsAsked ==
  ASSUME ConnectInv
  PROVE  RunsAsAsked
<1>1. SUFFICES ASSUME NEW c \in Clients, stub[c].pc = "session"
      PROVE  /\ req[c].user \in {"root", "app"} => stub[c].uid = req[c].user
             /\ req[c].transport \in {"unix", "tcp"} => stub[c].in = "sock"
             /\ cl[c].pc = "done" /\ req[c].user # "root" => stub[c].ver = Ver[c]
  BY DEF RunsAsAsked
<1>2. cl[c] \in ClientRecords /\ stub[c] \in StubRecords /\ Talks(c) /\ Alive(c) /\ ~Listens(c)
  BY <1>1, ActorFacts DEF Alive, Listens
<1>3. cl[c].pc \in {"done", "exited"}
  <2>1. cl[c].pc \notin {"try", "send", "rename", "cat", "awaitHello", "next"}
    BY <1>1, <1>2 DEF Talks, AtStart, AtHello, AtNext
  <2>2. cl[c].pc \notin {"awaitSwitch", "awaitListening", "forwarded", "accept"}
    BY <1>1, <1>2 DEF Talks, AtSwitch, AtUpgrade
  <2>3. cl[c].pc \notin {"failed", "exitedFailed", "killed"}
    BY <1>2 DEF Talks, AtEnd
  <2> QED
    BY <1>2, <2>1, <2>2, <2>3 DEF ClientRecords, ClientPcs
<1>4. CASE cl[c].pc = "done"
  <2>1. cl[c].todo = <<>> /\ Fits(c) /\ OnSocket(c) /\ Reader(stub[c]) = cl[c].writer
    BY <1>2, <1>4 DEF Talks, AtEnd
  <2>2. ~ToSwitch(c) /\ ~ToUpgrade(c)
    BY <2>1, TodoDistinct DEF ToSwitch, ToUpgrade
  <2> QED
    BY <1>2, <2>1, <2>2 DEF Fits, OnSocket, Reader, StubRecords
<1>5. CASE cl[c].pc = "exited"
  BY <1>2, <1>5 DEF Talks, AtEnd
<1> QED
  BY <1>3, <1>4, <1>5

LEMMA InvEndsWell ==
  ASSUME ConnectInv
  PROVE  EndsWell
<1>1. ASSUME NEW c \in Clients, cl[c].pc = "failed", Able(c) PROVE hurt[c]
  BY <1>1, ActorFacts DEF Undisturbed, Smooth, StubLives
<1>2. ASSUME NEW c \in Clients, cl[c].pc \in {"exited", "exitedFailed"}
      PROVE  tmp[c] = "none" /\ c \notin fwd
  BY <1>2, ActorFacts DEF Talks, Always
<1> QED
  BY <1>1, <1>2 DEF EndsWell, AbleConnects, NoLitter

(* Every message is read in the encoding it was written in, and text is    *)
(* never taken for a packet nor a packet for text, through every re-exec   *)
(* and change of transport, with any number of clients that replace each   *)
(* other's stubs, are killed or lose theirs (struct childcom's writer,     *)
(* stub_main_1's rdr and should_send_error_packet).                        *)
THEOREM ConnectUnderstood == ConnectSpec => []Understood
<1>1. ConnectInv => Understood
  BY InvUnderstood
<1> QED
  BY <1>1, ConnectInvHolds, PTL

(* The stub that serves a session runs as who was asked for, over the      *)
(* transport that was asked for, and, unless as root, is of the client's   *)
(* own build (command_re_exec_as_user, tc_upgrade and stub_main_1).        *)
THEOREM ConnectRunsAsAsked == ConnectSpec => []RunsAsAsked
<1>1. ConnectInv => RunsAsAsked
  BY InvRunsAsAsked
<1> QED
  BY <1>1, ConnectInvHolds, PTL

(* On a device that can do what is asked, of whatever age, processor and   *)
(* policy, an attempt fails only if its stub was lost or another client    *)
(* disturbed it; and a client that ends, in whatever way it does by        *)
(* itself, leaves no temporary file and no forwarding behind               *)
(* (start_stub_adb, tc_connect_user, delete_device_tmpfile_cleanup).       *)
THEOREM ConnectEndsWell == ConnectSpec => []EndsWell
<1>1. ConnectInv => EndsWell
  BY InvEndsWell
<1> QED
  BY <1>1, ConnectInvHolds, PTL
============================================================================

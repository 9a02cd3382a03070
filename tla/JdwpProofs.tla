----------------------------- MODULE JdwpProofs -----------------------------
(***************************************************************************)
(* Proofs about JdwpProxy, for any classes, sizes of the cache, numbers of *)
(* commands and events and widths of identifiers: the application's        *)
(* packets reach the debugger in order, and answers match their commands.  *)
(***************************************************************************)
EXTENDS JdwpProxy, SequenceTheorems, FiniteSetTheorems, WellFoundedInduction, TLAPS

----------------------------------------------------------------------------
(* The inductive invariant.  A step of the proxy often is two things, such *)
(* as taking a reply and sending the next command; so what it says of the  *)
(* packets is stated of a view, a record of the queues they are in, which  *)
(* changes in one or two elementary ways per step.                         *)

Fields == {"kind", "op", "id", "err", "refs", "arg", "of", "means", "n"}

IsPacket(p) ==
  DOMAIN p = Fields /\ p.kind \in {"cmd", "reply"} /\ p.id \in Nat /\ p.of \in Nat /\ p.n \in Nat

IsSeq(s) == s \in Seq({s[i] : i \in DOMAIN s})
IsQueue(s) == IsSeq(s) /\ \A i \in DOMAIN s : IsPacket(s[i])

(* What the application sent and the proxy has not begun to handle, oldest *)
(* first: set aside by a transaction, deferred, in the socket.             *)
FlowOf(l, d, a) == Reverse(l) \o d \o a
Flow == FlowOf(ldef, defer, aq)

View ==
  [dq |-> dq, job |-> IF job = NoJob THEN <<>> ELSE <<job.p>>, toapp |-> toapp, flow |-> Flow,
   dlog |-> dlog, pend |-> pend, from |-> job.from, ids |-> Len(asked), n |-> count.n,
   rewrite |-> mode.rewrite]

Queues == {"dq", "job", "toapp", "flow", "dlog"}

Typed(v) ==
  /\ \A a \in Queues : IsQueue(v[a])
  /\ Len(v.job) <= 1
  /\ v.from = "none" <=> v.job = <<>>
  /\ v.ids \in 0 .. MaxCmds
  /\ DOMAIN v.pend \subseteq 0 .. IdMod - 1

(* s has the numbers from a + 1 to b, in order, apart from packets that    *)
(* have none.                                                              *)
Numbered(s, a, b) ==
  /\ a <= b
  /\ \A i \in DOMAIN s : s[i].n > 0 => a < s[i].n /\ s[i].n <= b
  /\ \A i, j \in DOMAIN s : i < j /\ s[i].n > 0 /\ s[j].n > 0 => s[i].n < s[j].n
  /\ \A m \in (a + 1) .. b : \E i \in DOMAIN s : s[i].n = m

(* What was sent to the debugger, is translated and is still to come       *)
(* continue one another.                                                   *)
Order(v) ==
  v.n \in Nat /\ \E k, m \in Nat :
    /\ Numbered(v.dlog, 0, k)
    /\ Numbered(v.job, k, m)
    /\ Numbered(v.flow, m, v.n)

(* A command of the debugger is known by of.                               *)
Known(v, f) == f \in FirstId .. FirstId + v.ids - 1

(* send_generic_reply keeps 16 bits of an identifier.                      *)
Narrow == FirstId + MaxCmds <= U16

(* p is a command as the debugger sent it; a command or its answer, on its *)
(* way under the identifier that the proxy gave it.                        *)
Asks(v, p) == p.n = 0 /\ Known(v, p.of) /\ p.id = p.of
Carried(v, p) ==
  IF v.rewrite THEN p.id \in DOMAIN v.pend /\ v.pend[p.id] = p.of ELSE p.id = p.of

(* What may be in each queue.                                              *)
InJob(v, p) ==
  /\ v.from = "debugger" => Asks(v, p)
  /\ p.of # 0 => Known(v, p.of) /\ p.id = p.of
InToapp(v, p) == p.of # 0 => Known(v, p.of) /\ (p.kind = "cmd" => Carried(v, p))
InFlow(v, p) ==
  /\ p.of # 0 => Known(v, p.of) /\ p.kind = "reply" /\ Carried(v, p)
  /\ p.of = 0 /\ p.kind = "reply" => p.n = 0
  /\ p.kind = "cmd" /\ p.op \in {"HPDS", "unsupported"} => p.n = 0
InDlog(v, p) == p.of # 0 => Known(v, p.of) /\ (Narrow => p.id = p.of)

InQueue(v, a, p) ==
  /\ a = "dq" => Asks(v, p)
  /\ a = "job" => InJob(v, p)
  /\ a = "toapp" => InToapp(v, p)
  /\ a = "flow" => InFlow(v, p)
  /\ a = "dlog" => InDlog(v, p)

Sorts(v) == \A a \in Queues : \A i \in DOMAIN v[a] : InQueue(v, a, v[a][i])

(* An identifier is given to one command, which has left the debugger's    *)
(* connection.                                                             *)
Pends(v) ==
  \A x \in DOMAIN v.pend :
    /\ Known(v, v.pend[x])
    /\ \A y \in DOMAIN v.pend : v.pend[x] = v.pend[y] => x = y
    /\ \A i \in DOMAIN v.dq : v.dq[i].of # v.pend[x]
    /\ v.from = "debugger" => \A i \in DOMAIN v.job : v.job[i].of # v.pend[x]

(* A command, or its answer, is in one place.                              *)
Once(v) ==
  \A a, b \in Queues : \A i \in DOMAIN v[a], j \in DOMAIN v[b] :
    v[a][i].of # 0 /\ v[a][i].of = v[b][j].of => a = b /\ i = j

Sound(v) == Typed(v) /\ Sorts(v) /\ Pends(v) /\ Once(v)
Good(v) == Sound(v) /\ Order(v)

(* The proxy's own command, and the answer to it.                          *)
OwnCommand(v, i) == v.toapp[i].of = 0 /\ v.toapp[i].kind = "cmd"
OwnReply(v, i) == v.flow[i].of = 0 /\ v.flow[i].kind = "reply"

Quiet(v) ==
  /\ \A i \in DOMAIN v.toapp : ~OwnCommand(v, i)
  /\ \A i \in DOMAIN v.flow : ~OwnReply(v, i)

(* There is at most one of either, with identifier t.                      *)
Single(v, t) ==
  /\ t \notin DOMAIN v.pend
  /\ \A i \in DOMAIN v.toapp : OwnCommand(v, i) =>
       /\ v.toapp[i].id = t
       /\ \A j \in DOMAIN v.toapp : OwnCommand(v, j) => i = j
       /\ \A j \in DOMAIN v.flow : ~OwnReply(v, j)
  /\ \A i \in DOMAIN v.flow : OwnReply(v, i) =>
       /\ v.flow[i].id = t
       /\ \A j \in DOMAIN v.flow : OwnReply(v, j) => i = j

(* Where the proxy is before it has a debugger.                            *)
StartPcs == {"connect", "IDSIZES", "VERSION", "SUSPEND_AS_ASKED", "SUSPEND", "HEAPDUMP", "RESUME",
             "learn", "accept"}

IsCount(c) == DOMAIN c = {"ev", "n"} /\ c.ev \in Nat

(* What the proxy's own variables are.                                     *)
Static ==
  /\ IsQueue(defer) /\ IsQueue(ldef) /\ IsQueue(aq)
  /\ IsSeq(asked) /\ IsCount(count) /\ seqnum \in Nat
  /\ mode.rewrite \in BOOLEAN
  /\ DOMAIN rf = {"on", "sig", "ids"} /\ (rf.on \/ rf = NoRf)
  /\ DOMAIN job = {"p", "from", "i"} /\ IsPacket(job.p) /\ (job = NoJob \/ job.from \in Sides)

(* Where it is with a packet that it translates, and without.              *)
Where ==
  /\ ~mode.rewrite => job = NoJob
  /\ dlog = <<>> => asked = <<>>
  /\ pc \in StartPcs \cup {"top"} => job = NoJob
  /\ pc = "translate" => job # NoJob
  /\ pc = "CLASSESBYSIGNATURE" => rf.on
  /\ Running /\ pc # "top" /\ job = NoJob => dlog = <<>> /\ (pc \in StartPcs \/ rf.on)

(* What it has set aside, and what of its own is on its way.               *)
Talk ==
  /\ Running /\ pc \notin Waiting => ldef = <<>> /\ Quiet(View)
  /\ pc \in Waiting => Single(View, tx)
  /\ Running /\ "app" \in polled => pc = "top" /\ defer = <<>>

Control == Static /\ Where /\ Talk

ProxyInv == Control /\ Good(View)

----------------------------------------------------------------------------
(* Sequences of any elements.                                              *)

LEMMA SeqMono ==
  ASSUME NEW S, NEW T, S \subseteq T, NEW s \in Seq(S)
  PROVE  s \in Seq(T)
OBVIOUS

LEMMA SeqFacts ==
  ASSUME NEW s, IsSeq(s)
  PROVE  Len(s) \in Nat /\ DOMAIN s = 1 .. Len(s) /\ (s = <<>> <=> Len(s) = 0)
BY DEF IsSeq

LEMMA IsSeqIn ==
  ASSUME NEW S, NEW s \in Seq(S)
  PROVE  IsSeq(s)
<1>1. \A i \in 1 .. Len(s) : s[i] \in {s[j] : j \in DOMAIN s}
  OBVIOUS
<1> QED
  BY <1>1 DEF IsSeq

LEMMA SameSeq ==
  ASSUME NEW s, NEW t, IsSeq(s), IsSeq(t), Len(s) = Len(t), \A i \in 1 .. Len(s) : s[i] = t[i]
  PROVE  s = t
<1> DEFINE S == {s[i] : i \in DOMAIN s} \cup {t[i] : i \in DOMAIN t}
<1>1. s \in Seq(S) /\ t \in Seq(S)
  BY SeqMono DEF IsSeq
<1> HIDE DEF S
<1>2. \A i \in 1 .. Len(s) : s[i] = t[i]
  OBVIOUS
<1> QED
  BY <1>1, <1>2, SeqEqual

(* t is s with x at its end; t is s without its m-th element.              *)
Grown(s, t, x) ==
  /\ IsSeq(t) /\ Len(t) = Len(s) + 1
  /\ \A i \in 1 .. Len(s) : t[i] = s[i]
  /\ t[Len(s) + 1] = x

Cut(s, t, m) ==
  /\ IsSeq(t) /\ m \in 1 .. Len(s) /\ Len(t) = Len(s) - 1
  /\ \A i \in 1 .. Len(t) : t[i] = IF i < m THEN s[i] ELSE s[i + 1]

LEMMA AppendGrows ==
  ASSUME NEW s, NEW x, IsSeq(s)
  PROVE  Grown(s, Append(s, x), x)
<1> DEFINE S == {s[i] : i \in DOMAIN s} \cup {x}
<1>1. s \in Seq(S)
  BY SeqMono DEF IsSeq
<1> HIDE DEF S
<1>2. x \in S
  BY DEF S
<1>3. Append(s, x) \in Seq(S)
  BY <1>1, <1>2
<1>4. IsSeq(Append(s, x))
  BY <1>3, IsSeqIn
<1> QED
  BY <1>1, <1>2, <1>4 DEF Grown

LEMMA TailCuts ==
  ASSUME NEW s, IsSeq(s), s # <<>>
  PROVE  Cut(s, Tail(s), 1) /\ Head(s) = s[1] /\ 1 \in DOMAIN s
<1> DEFINE S == {s[i] : i \in DOMAIN s}
<1>1. s \in Seq(S)
  BY DEF IsSeq
<1> HIDE DEF S
<1>2. Tail(s) \in Seq(S)
  BY <1>1
<1>3. IsSeq(Tail(s))
  BY <1>2, IsSeqIn
<1>4. Len(s) \in Nat /\ Len(s) # 0 /\ DOMAIN s = 1 .. Len(s)
  BY <1>1
<1>5. Len(Tail(s)) = Len(s) - 1 /\ \A i \in 1 .. Len(s) - 1 : Tail(s)[i] = s[i + 1]
  BY <1>1, <1>4
<1> QED
  BY <1>1, <1>3, <1>4, <1>5 DEF Cut

LEMMA ConcatFacts ==
  ASSUME NEW s, NEW t, IsSeq(s), IsSeq(t)
  PROVE  /\ IsSeq(s \o t) /\ Len(s \o t) = Len(s) + Len(t)
         /\ \A i \in 1 .. Len(s) : (s \o t)[i] = s[i]
         /\ \A i \in 1 .. Len(t) : (s \o t)[Len(s) + i] = t[i]
<1> DEFINE S == {s[i] : i \in DOMAIN s} \cup {t[i] : i \in DOMAIN t}
<1>1. s \in Seq(S) /\ t \in Seq(S)
  BY SeqMono DEF IsSeq
<1> HIDE DEF S
<1>2. s \o t \in Seq(S)
  BY <1>1
<1>3. IsSeq(s \o t)
  BY <1>2, IsSeqIn
<1> QED
  BY <1>1, <1>3

LEMMA ReverseFacts ==
  ASSUME NEW s, IsSeq(s)
  PROVE  /\ IsSeq(Reverse(s)) /\ Len(Reverse(s)) = Len(s)
         /\ \A i \in 1 .. Len(s) : Reverse(s)[i] = s[(Len(s) - i) + 1]
<1> DEFINE S == {s[i] : i \in DOMAIN s}
<1>1. s \in Seq(S)
  BY DEF IsSeq
<1> HIDE DEF S
<1>2. Reverse(s) \in [1 .. Len(s) -> S]
  BY <1>1 DEF Reverse
<1>3. Reverse(s) \in Seq(S) /\ Len(Reverse(s)) = Len(s)
  BY <1>1, <1>2
<1> QED
  BY <1>1, <1>3, IsSeqIn DEF Reverse

LEMMA RemoveAtCuts ==
  ASSUME NEW s, IsSeq(s), NEW m \in 1 .. Len(s)
  PROVE  Cut(s, RemoveAt(s, m), m)
<1> DEFINE S == {s[i] : i \in DOMAIN s}
           a == SubSeq(s, 1, m - 1)
           b == SubSeq(s, m + 1, Len(s))
<1>1. s \in Seq(S) /\ Len(s) \in Nat
  BY DEF IsSeq
<1> HIDE DEF S
<1>2. a \in Seq(S) /\ Len(a) = m - 1 /\ \A i \in 1 .. m - 1 : a[i] = s[i]
  BY <1>1
<1>3. b \in Seq(S) /\ Len(b) = Len(s) - m /\ \A i \in 1 .. Len(s) - m : b[i] = s[m + i]
  BY <1>1
<1>4. RemoveAt(s, m) = a \o b
  BY DEF RemoveAt
<1> HIDE DEF a, b
<1>5. IsSeq(a) /\ IsSeq(b)
  BY <1>2, <1>3, IsSeqIn
<1>6. /\ IsSeq(a \o b) /\ Len(a \o b) = Len(s) - 1
      /\ \A i \in 1 .. m - 1 : (a \o b)[i] = s[i]
      /\ \A i \in 1 .. Len(s) - m : (a \o b)[m - 1 + i] = s[m + i]
  <2>1. /\ IsSeq(a \o b) /\ Len(a \o b) = Len(a) + Len(b)
        /\ \A i \in 1 .. Len(a) : (a \o b)[i] = a[i]
        /\ \A i \in 1 .. Len(b) : (a \o b)[Len(a) + i] = b[i]
    BY <1>5, ConcatFacts
  <2> QED
    BY <1>1, <1>2, <1>3, <2>1
<1>7. ASSUME NEW i \in 1 .. Len(s) - 1, ~(i < m)
      PROVE  (a \o b)[i] = s[i + 1]
  <2>1. i - (m - 1) \in 1 .. Len(s) - m /\ m - 1 + (i - (m - 1)) = i /\ m + (i - (m - 1)) = i + 1
    BY <1>1, <1>7
  <2> QED
    BY <1>6, <2>1
<1> QED
  BY <1>1, <1>4, <1>6, <1>7 DEF Cut

----------------------------------------------------------------------------
(* make_jdwp_id                                                            *)

LEMMA LeastNumber ==
  ASSUME NEW S \in SUBSET Nat, S # {}
  PROVE  Min(S) \in S
<1>1. IsWellFoundedOn(OpToRel(<, Nat), Nat)
  BY NatLessThanWellFounded
<1>2. \E x \in S : \A y \in S : ~(<<y, x>> \in OpToRel(<, Nat))
  BY <1>1, WFMin
<1>3. PICK x \in S : \A y \in S : ~(y < x)
  BY <1>2 DEF OpToRel
<1>4. \A y \in S : x <= y
  BY <1>3
<1> QED
  BY <1>4 DEF Min

LEMMA ModFacts ==
  ASSUME NEW c \in Nat \ {0}
  PROVE  /\ \A x \in Int : x % c \in 0 .. c - 1 /\ x \div c \in Int /\ x = c * (x \div c) + (x % c)
         /\ \A q \in Int : \A r \in 0 .. c - 1 : (c * q + r) % c = r
<1>1. ASSUME NEW x \in Int PROVE x % c \in 0 .. c - 1 /\ x \div c \in Int /\ x = c * (x \div c) + (x % c)
  OBVIOUS
<1>2. ASSUME NEW q \in Int, NEW r \in 0 .. c - 1 PROVE (c * q + r) % c = r
  OBVIOUS
<1> QED
  BY <1>1, <1>2

(* From wherever the search starts, it comes to every identifier.          *)
LEMMA Reachable ==
  ASSUME NEW c \in Nat \ {0}, NEW s \in Nat, NEW r \in 0 .. c - 1
  PROVE  \E k \in 0 .. c - 1 : (s + k) % c = r
<1> DEFINE q == s \div c
           t == s % c
<1>1. t \in 0 .. c - 1 /\ q \in Int /\ s = c * q + t
  BY ModFacts
<1> HIDE DEF q, t
<1>2. CASE t <= r
  <2>1. r - t \in 0 .. c - 1 /\ s + (r - t) = c * q + r
    BY <1>1, <1>2
  <2>2. (c * q + r) % c = r
    BY <1>1, ModFacts
  <2> QED
    BY <2>1, <2>2
<1>3. CASE ~(t <= r)
  <2>1. r - t + c \in 0 .. c - 1 /\ s + (r - t + c) = c * q + c + r
    BY <1>1, <1>3
  <2>2. c * (q + 1) = c * q + c /\ q + 1 \in Int
    BY <1>1
  <2>3. (c * (q + 1) + r) % c = r
    BY <2>2, ModFacts
  <2>4. (s + (r - t + c)) % c = r
    BY <2>1, <2>2, <2>3
  <2> QED
    BY <2>1, <2>4
<1> QED
  BY <1>1, <1>2, <1>3

(* There is an identifier that is not pending: at most MaxCmds are.        *)
LEMMA SomeFree ==
  ASSUME NEW v, Typed(v), Pends(v)
  PROVE  \E r \in 0 .. IdMod - 1 : r \notin DOMAIN v.pend
<1> DEFINE D == DOMAIN v.pend
           T == FirstId .. FirstId + v.ids - 1
           f == [x \in D |-> v.pend[x]]
<1>1. /\ D \subseteq 0 .. IdMod - 1 /\ v.ids \in Nat /\ v.ids <= MaxCmds
      /\ IdMod \in Nat /\ MaxCmds \in Nat /\ IdMod > MaxCmds + 1 /\ FirstId \in Nat
  BY JdwpAssumption DEF Typed
<1>2. \A x \in D : v.pend[x] \in T /\ \A y \in D : v.pend[x] = v.pend[y] => x = y
  BY DEF Pends, Known
<1> HIDE DEF D, T
<1>3. f \in Injection(D, T)
  BY <1>2 DEF Injection, IsInjective
<1>4. IsFiniteSet(T) /\ Cardinality(T) = v.ids
  <2> DEFINE b == FirstId + v.ids - 1
  <2>1. FirstId \in Int /\ b \in Int /\ (FirstId > b <=> v.ids = 0) /\ b - FirstId + 1 = v.ids
    BY <1>1
  <2> HIDE DEF b
  <2>2. IsFiniteSet(FirstId .. b) /\ Cardinality(FirstId .. b) = IF FirstId > b THEN 0 ELSE b - FirstId + 1
    BY <2>1, FS_Interval
  <2>3. T = FirstId .. b
    BY DEF T, b
  <2> QED
    BY <2>1, <2>2, <2>3
<1>5. Cardinality(D) <= v.ids /\ IsFiniteSet(D)
  BY <1>3, <1>4, FS_Injection
<1>6. IsFiniteSet(0 .. IdMod - 1) /\ Cardinality(0 .. IdMod - 1) = IdMod
  <2> DEFINE b == IdMod - 1
  <2>1. b \in Int /\ b >= 0 /\ b - 0 + 1 = IdMod
    BY <1>1
  <2> HIDE DEF b
  <2>2. IsFiniteSet(0 .. b) /\ Cardinality(0 .. b) = IF 0 > b THEN 0 ELSE b - 0 + 1
    BY <2>1, FS_Interval
  <2> QED
    BY <2>1, <2>2 DEF b
<1>7. D # 0 .. IdMod - 1
  BY <1>1, <1>5, <1>6
<1> QED
  BY <1>1, <1>7 DEF D

(* What make_jdwp_id gives out is not pending.                             *)
LEMMA FreshId ==
  ASSUME Typed(View), Pends(View), NEW s \in Nat
  PROVE  make_jdwp_id(s) \in 0 .. IdMod - 1 /\ make_jdwp_id(s) \notin DOMAIN pend
<1> DEFINE S == {k \in 0 .. IdMod - 1 : ~peek_pending_packet((s + k) % IdMod)}
<1>1. IdMod \in Nat \ {0}
  BY JdwpAssumption
<1>2. PICK r \in 0 .. IdMod - 1 : r \notin DOMAIN pend
  BY SomeFree DEF View
<1>3. PICK k \in 0 .. IdMod - 1 : (s + k) % IdMod = r
  BY <1>1, Reachable
<1>4. k \in S
  BY <1>2, <1>3 DEF peek_pending_packet
<1>5. Min(S) \in S
  <2>1. S \in SUBSET Nat
    BY <1>1
  <2> QED
    BY <1>4, <2>1, LeastNumber
<1>6. (s + Min(S)) % IdMod \notin DOMAIN pend
  BY <1>5 DEF peek_pending_packet
<1>7. (s + Min(S)) % IdMod \in 0 .. IdMod - 1
  <2>1. s + Min(S) \in Int
    BY <1>5
  <2> QED
    BY <1>1, <2>1, ModFacts
<1> QED
  BY <1>6, <1>7 DEF make_jdwp_id

----------------------------------------------------------------------------
(* Elementary changes of queues.                                           *)

LEMMA QueueGrows ==
  ASSUME NEW s, NEW t, NEW x, IsQueue(s), Grown(s, t, x), IsPacket(x)
  PROVE  IsQueue(t)
<1>1. Len(s) \in Nat /\ DOMAIN s = 1 .. Len(s) /\ DOMAIN t = 1 .. Len(s) + 1
  BY SeqFacts DEF IsQueue, Grown
<1>2. ASSUME NEW i \in 1 .. Len(s) + 1 PROVE IsPacket(t[i])
  <2>1. CASE i = Len(s) + 1
    BY <2>1 DEF Grown
  <2>2. CASE i \in 1 .. Len(s)
    BY <1>1, <2>2 DEF Grown, IsQueue
  <2> QED
    BY <1>1, <2>1, <2>2
<1> QED
  BY <1>1, <1>2 DEF Grown, IsQueue

LEMMA QueueCut ==
  ASSUME NEW s, NEW t, NEW m, IsQueue(s), Cut(s, t, m)
  PROVE  IsQueue(t) /\ m \in DOMAIN s /\ IsPacket(s[m])
<1>1. Len(s) \in Nat /\ DOMAIN s = 1 .. Len(s) /\ DOMAIN t = 1 .. Len(s) - 1
  BY SeqFacts DEF IsQueue, Cut
<1>2. ASSUME NEW i \in 1 .. Len(s) - 1 PROVE IsPacket(t[i])
  <2>1. t[i] = s[i] \/ t[i] = s[i + 1]
    BY <1>1 DEF Cut
  <2>2. i \in 1 .. Len(s) /\ i + 1 \in 1 .. Len(s)
    BY <1>1
  <2> QED
    BY <1>1, <2>1, <2>2 DEF IsQueue
<1> QED
  BY <1>1, <1>2 DEF Cut, IsQueue

(* Where the elements of a changed queue come from.                        *)
LEMMA GrownFrom ==
  ASSUME NEW s, NEW t, NEW x, IsSeq(s), Grown(s, t, x)
  PROVE  /\ \A i \in DOMAIN s : i \in DOMAIN t /\ t[i] = s[i] /\ i < Len(t)
         /\ \A i \in DOMAIN t : (i = Len(t) /\ t[i] = x) \/ (i < Len(t) /\ i \in DOMAIN s /\ t[i] = s[i])
         /\ Len(t) \in DOMAIN t /\ t[Len(t)] = x
<1>1. Len(s) \in Nat /\ DOMAIN s = 1 .. Len(s) /\ DOMAIN t = 1 .. Len(s) + 1 /\ Len(t) = Len(s) + 1
  BY SeqFacts DEF Grown
<1> QED
  BY <1>1 DEF Grown

From(i, m) == IF i < m THEN i ELSE i + 1

LEMMA CutFrom ==
  ASSUME NEW s, NEW t, NEW m, IsSeq(s), Cut(s, t, m)
  PROVE  /\ m \in DOMAIN s
         /\ \A i \in DOMAIN t : From(i, m) \in DOMAIN s \ {m} /\ t[i] = s[From(i, m)]
         /\ \A i, j \in DOMAIN t : (From(i, m) = From(j, m) => i = j) /\ (i < j <=> From(i, m) < From(j, m))
         /\ \A j \in DOMAIN s \ {m} : \E i \in DOMAIN t : From(i, m) = j
<1>1. Len(s) \in Nat /\ DOMAIN s = 1 .. Len(s) /\ DOMAIN t = 1 .. Len(s) - 1 /\ m \in 1 .. Len(s)
  BY SeqFacts DEF Cut
<1>2. ASSUME NEW i \in DOMAIN t PROVE From(i, m) \in DOMAIN s \ {m} /\ t[i] = s[From(i, m)]
  BY <1>1 DEF Cut, From
<1>3. ASSUME NEW i \in DOMAIN t, NEW j \in DOMAIN t
      PROVE  (From(i, m) = From(j, m) => i = j) /\ (i < j <=> From(i, m) < From(j, m))
  BY <1>1 DEF From
<1>4. ASSUME NEW j \in DOMAIN s \ {m} PROVE \E i \in DOMAIN t : From(i, m) = j
  <2>1. CASE j < m
    BY <1>1, <2>1 DEF From
  <2>2. CASE j > m
    <3>1. j - 1 \in DOMAIN t /\ From(j - 1, m) = j
      BY <1>1, <2>2 DEF From
    <3> QED
      BY <3>1
  <2> QED
    BY <1>1, <2>1, <2>2
<1> QED
  BY <1>1, <1>2, <1>3, <1>4

----------------------------------------------------------------------------
(* Order                                                                   *)

LEMMA NumberedGrows ==
  ASSUME NEW s, NEW t, NEW x, NEW a \in Nat, NEW b \in Nat,
         IsQueue(s), IsPacket(x), Grown(s, t, x), Numbered(s, a, b)
  PROVE  /\ x.n = 0 => Numbered(t, a, b)
         /\ x.n = b + 1 => Numbered(t, a, b + 1)
<1>1. /\ \A i \in DOMAIN s : i \in DOMAIN t /\ t[i] = s[i] /\ i < Len(t)
      /\ \A i \in DOMAIN t : (i = Len(t) /\ t[i] = x) \/ (i < Len(t) /\ i \in DOMAIN s /\ t[i] = s[i])
      /\ Len(t) \in DOMAIN t /\ t[Len(t)] = x
  BY GrownFrom DEF IsQueue
<1>2. /\ DOMAIN t \subseteq Nat /\ DOMAIN s \subseteq Nat
      /\ (\A i \in DOMAIN s : s[i].n \in Nat) /\ x.n \in Nat
  BY SeqFacts DEF IsQueue, IsPacket, Grown
<1>3. ASSUME x.n = 0 PROVE Numbered(t, a, b)
  <2>1. \A i \in DOMAIN t : t[i].n > 0 => i \in DOMAIN s /\ t[i] = s[i]
    BY <1>1, <1>3
  <2>2. \A m \in (a + 1) .. b : \E i \in DOMAIN t : t[i].n = m
    BY <1>1 DEF Numbered
  <2> QED
    BY <2>1, <2>2 DEF Numbered
<1>4. ASSUME x.n = b + 1 PROVE Numbered(t, a, b + 1)
  <2>1. \A i \in DOMAIN t : t[i].n > 0 => a < t[i].n /\ t[i].n <= b + 1
    BY <1>1, <1>2, <1>4 DEF Numbered
  <2>2. \A i, j \in DOMAIN t : i < j /\ t[i].n > 0 /\ t[j].n > 0 => t[i].n < t[j].n
    BY <1>1, <1>2, <1>4 DEF Numbered
  <2>3. ASSUME NEW m \in (a + 1) .. (b + 1) PROVE \E i \in DOMAIN t : t[i].n = m
    <3>1. CASE m = b + 1
      BY <1>1, <1>4, <3>1
    <3>2. CASE m \in (a + 1) .. b
      BY <1>1, <3>2 DEF Numbered
    <3> QED
      BY <3>1, <3>2
  <2> QED
    BY <2>1, <2>2, <2>3 DEF Numbered
<1> QED
  BY <1>3, <1>4

LEMMA NumberedCut ==
  ASSUME NEW s, NEW t, NEW m, NEW a \in Nat, NEW b \in Nat,
         IsQueue(s), Cut(s, t, m), Numbered(s, a, b), s[m].n = 0
  PROVE  Numbered(t, a, b)
<1>1. /\ m \in DOMAIN s
      /\ \A i \in DOMAIN t : From(i, m) \in DOMAIN s \ {m} /\ t[i] = s[From(i, m)]
      /\ \A i, j \in DOMAIN t : (From(i, m) = From(j, m) => i = j) /\ (i < j <=> From(i, m) < From(j, m))
      /\ \A j \in DOMAIN s \ {m} : \E i \in DOMAIN t : From(i, m) = j
  BY CutFrom DEF IsQueue
<1>2. \A i \in DOMAIN t : t[i].n > 0 => a < t[i].n /\ t[i].n <= b
  BY <1>1 DEF Numbered
<1>3. \A i, j \in DOMAIN t : i < j /\ t[i].n > 0 /\ t[j].n > 0 => t[i].n < t[j].n
  BY <1>1 DEF Numbered
<1>4. ASSUME NEW k \in (a + 1) .. b PROVE \E i \in DOMAIN t : t[i].n = k
  <2>1. PICK j \in DOMAIN s : s[j].n = k
    BY DEF Numbered
  <2>2. j # m
    BY <2>1
  <2> QED
    BY <1>1, <2>1, <2>2
<1> QED
  BY <1>2, <1>3, <1>4 DEF Numbered

LEMMA NumberedTail ==
  ASSUME NEW s, NEW t, NEW a \in Nat, NEW b \in Nat,
         IsQueue(s), Cut(s, t, 1), Numbered(s, a, b), s[1].n > 0
  PROVE  s[1].n = a + 1 /\ Numbered(t, a + 1, b)
<1>1. /\ 1 \in DOMAIN s
      /\ \A i \in DOMAIN t : From(i, 1) \in DOMAIN s \ {1} /\ t[i] = s[From(i, 1)]
      /\ \A i, j \in DOMAIN t : (From(i, 1) = From(j, 1) => i = j) /\ (i < j <=> From(i, 1) < From(j, 1))
      /\ \A j \in DOMAIN s \ {1} : \E i \in DOMAIN t : From(i, 1) = j
  BY CutFrom DEF IsQueue
<1>2. DOMAIN s \subseteq Nat \ {0} /\ \A i \in DOMAIN s : s[i].n \in Nat
  BY SeqFacts DEF IsQueue, IsPacket
<1>3. \A j \in DOMAIN s \ {1} : s[j].n > 0 => s[1].n < s[j].n
  BY <1>1, <1>2 DEF Numbered
<1>4. a + 1 \in (a + 1) .. b
  BY <1>1, <1>2 DEF Numbered
<1>5. PICK h \in DOMAIN s : s[h].n = a + 1
  BY <1>4 DEF Numbered
<1>6. s[1].n = a + 1
  BY <1>1, <1>2, <1>3, <1>5 DEF Numbered
<1>7. \A i \in DOMAIN t : t[i].n > 0 => a + 1 < t[i].n /\ t[i].n <= b
  BY <1>1, <1>2, <1>3, <1>6 DEF Numbered
<1>8. \A i, j \in DOMAIN t : i < j /\ t[i].n > 0 /\ t[j].n > 0 => t[i].n < t[j].n
  BY <1>1 DEF Numbered
<1>9. ASSUME NEW k \in (a + 2) .. b PROVE \E j \in DOMAIN t : t[j].n = k
  <2>1. PICK j \in DOMAIN s : s[j].n = k
    BY DEF Numbered
  <2>2. j # 1
    BY <1>6, <2>1
  <2> QED
    BY <1>1, <2>1, <2>2
<1> QED
  BY <1>4, <1>6, <1>7, <1>8, <1>9 DEF Numbered

(* The first of one queue goes to the end of the one before it.            *)
LEMMA PassedOn ==
  ASSUME NEW r, NEW q, NEW s, NEW t, NEW x, NEW z \in Nat, NEW a \in Nat, NEW b \in Nat,
         IsQueue(r), IsQueue(s), IsPacket(x), Grown(r, q, x), Cut(s, t, 1), x.n = s[1].n,
         Numbered(r, z, a), Numbered(s, a, b)
  PROVE  \E m \in Nat : Numbered(q, z, m) /\ Numbered(t, m, b)
<1>1. x.n \in Nat
  BY DEF IsPacket
<1>2. CASE x.n = 0
  BY <1>2, NumberedGrows, NumberedCut
<1>3. CASE x.n > 0
  <2>1. s[1].n = a + 1 /\ Numbered(t, a + 1, b)
    BY <1>3, NumberedTail
  <2>2. Numbered(q, z, a + 1)
    BY <2>1, NumberedGrows
  <2> QED
    BY <2>1, <2>2
<1> QED
  BY <1>1, <1>2, <1>3

LEMMA NumberedEmpty ==
  ASSUME NEW a \in Nat, NEW b \in Nat
  PROVE  Numbered(<<>>, a, b) <=> a = b
<1>1. DOMAIN << >> = {}
  OBVIOUS
<1>2. a < b => a + 1 \in (a + 1) .. b
  OBVIOUS
<1> QED
  BY <1>1, <1>2 DEF Numbered

----------------------------------------------------------------------------
(* Uniqueness                                                              *)

Absent(v, f) == f = 0 \/ \A b \in Queues : \A j \in DOMAIN v[b] : v[b][j].of # f

LEMMA OnceCut ==
  ASSUME NEW v, NEW w, NEW a \in Queues, NEW m, Once(v), IsSeq(v[a]), Cut(v[a], w[a], m),
         \A b \in Queues \ {a} : w[b] = v[b]
  PROVE  Once(w) /\ Absent(w, v[a][m].of)
<1> DEFINE s == v[a]
           t == w[a]
<1>1. /\ m \in DOMAIN s
      /\ \A i \in DOMAIN t : From(i, m) \in DOMAIN s \ {m} /\ t[i] = s[From(i, m)]
      /\ \A i, j \in DOMAIN t : From(i, m) = From(j, m) => i = j
  BY CutFrom
<1>2. ASSUME NEW b \in Queues, NEW c \in Queues, NEW i \in DOMAIN w[b], NEW j \in DOMAIN w[c],
             w[b][i].of # 0, w[b][i].of = w[c][j].of
      PROVE  b = c /\ i = j
  <2> DEFINE k == IF b = a THEN From(i, m) ELSE i
             l == IF c = a THEN From(j, m) ELSE j
  <2>1. k \in DOMAIN v[b] /\ w[b][i] = v[b][k]
    BY <1>1
  <2>2. l \in DOMAIN v[c] /\ w[c][j] = v[c][l]
    BY <1>1
  <2>3. b = c /\ k = l
    BY <1>2, <2>1, <2>2 DEF Once
  <2> QED
    BY <1>1, <2>3
<1>3. ASSUME s[m].of # 0, NEW b \in Queues, NEW j \in DOMAIN w[b], w[b][j].of = s[m].of
      PROVE  FALSE
  <2>1. CASE b = a
    BY <1>1, <1>3, <2>1 DEF Once
  <2>2. CASE b # a
    BY <1>1, <1>3, <2>2 DEF Once
  <2> QED
    BY <2>1, <2>2
<1>4. Once(w)
  BY <1>2 DEF Once
<1> QED
  BY <1>3, <1>4 DEF Absent

LEMMA OnceGrows ==
  ASSUME NEW v, NEW w, NEW a \in Queues, NEW x, Once(v), IsSeq(v[a]), Grown(v[a], w[a], x),
         \A b \in Queues \ {a} : w[b] = v[b], Absent(v, x.of)
  PROVE  Once(w)
<1> DEFINE s == v[a]
           t == w[a]
<1>1. \A i \in DOMAIN t : (i = Len(t) /\ t[i] = x) \/ (i < Len(t) /\ i \in DOMAIN s /\ t[i] = s[i])
  BY GrownFrom
<1>2. ASSUME NEW b \in Queues, NEW c \in Queues, NEW i \in DOMAIN w[b], NEW j \in DOMAIN w[c],
             w[b][i].of # 0, w[b][i].of = w[c][j].of
      PROVE  b = c /\ i = j
  <2>1. (i \in DOMAIN v[b] /\ w[b][i] = v[b][i]) \/ (b = a /\ i = Len(t) /\ w[b][i] = x)
    BY <1>1
  <2>2. (j \in DOMAIN v[c] /\ w[c][j] = v[c][j]) \/ (c = a /\ j = Len(t) /\ w[c][j] = x)
    BY <1>1
  <2> QED
    BY <1>2, <2>1, <2>2 DEF Once, Absent
<1> QED
  BY <1>2 DEF Once

----------------------------------------------------------------------------
(* Elementary changes of the view: first of all but Order, which a packet  *)
(* that is taken from one queue and put into another respects only then.   *)

(* The view is left alone but for the queues of S.                         *)
Kept(v, w, S) ==
  /\ w.ids = v.ids /\ w.rewrite = v.rewrite
  /\ \A a \in Queues \ S : w[a] = v[a]

LEMMA SoundFacts ==
  ASSUME NEW v, Sound(v)
  PROVE  /\ \A a \in Queues : IsQueue(v[a]) /\ IsSeq(v[a])
         /\ IsQueue(v.dq) /\ IsQueue(v.job) /\ IsQueue(v.toapp) /\ IsQueue(v.flow) /\ IsQueue(v.dlog)
         /\ IsSeq(v.dq) /\ IsSeq(v.job) /\ IsSeq(v.toapp) /\ IsSeq(v.flow) /\ IsSeq(v.dlog)
BY DEF Sound, Typed, IsQueue, Queues

LEMMA KeptSorts ==
  ASSUME NEW v, NEW w, w.ids = v.ids, w.rewrite = v.rewrite, w.pend = v.pend
  PROVE  /\ \A f : Known(w, f) <=> Known(v, f)
         /\ \A a : a # "job" \/ w.from = v.from => \A p : InQueue(w, a, p) <=> InQueue(v, a, p)
<1>1. \A f : Known(w, f) <=> Known(v, f)
  BY DEF Known
<1>2. \A p : Asks(w, p) <=> Asks(v, p)
  BY <1>1 DEF Asks
<1>3. \A p : Carried(w, p) <=> Carried(v, p)
  BY DEF Carried
<1>4. \A p : InToapp(w, p) <=> InToapp(v, p)
  BY <1>1, <1>3 DEF InToapp
<1>5. \A p : InFlow(w, p) <=> InFlow(v, p)
  BY <1>1, <1>3 DEF InFlow
<1>6. \A p : InDlog(w, p) <=> InDlog(v, p)
  BY <1>1 DEF InDlog
<1>7. w.from = v.from => \A p : InJob(w, p) <=> InJob(v, p)
  BY <1>1, <1>2 DEF InJob
<1> QED
  BY <1>1, <1>2, <1>4, <1>5, <1>6, <1>7 DEF InQueue

LEMMA Empty ==
  ASSUME NEW s, IsSeq(s), Len(s) = 0
  PROVE  s = <<>> /\ DOMAIN s = {}
BY SeqFacts

LEMMA One ==
  ASSUME NEW s, IsSeq(s), Len(s) = 1
  PROVE  s # <<>> /\ DOMAIN s = {1}
BY SeqFacts

(* A packet is taken from a queue.                                         *)
LEMMA SoundCut ==
  ASSUME NEW v, NEW w, NEW a \in Queues, NEW m, Sound(v), Kept(v, w, {a}), Cut(v[a], w[a], m),
         w.pend = v.pend, w.from = IF a = "job" THEN "none" ELSE v.from
  PROVE  /\ Sound(w) /\ Absent(w, v[a][m].of)
         /\ IsPacket(v[a][m]) /\ InQueue(v, a, v[a][m])
<1>1. /\ m \in DOMAIN v[a]
      /\ \A i \in DOMAIN w[a] : From(i, m) \in DOMAIN v[a] \ {m} /\ w[a][i] = v[a][From(i, m)]
  BY SoundFacts, CutFrom
<1>2. \A b \in Queues \ {a} : w[b] = v[b]
  BY DEF Kept
<1>3. IsQueue(w[a]) /\ IsSeq(w[a]) /\ IsPacket(v[a][m]) /\ Len(w[a]) = Len(v[a]) - 1
  BY SoundFacts, QueueCut DEF Cut
<1>4. ASSUME a = "job" PROVE w.job = <<>> /\ DOMAIN w.job = {} /\ Len(w.job) = 0
  <2>1. Len(v.job) \in Nat /\ Len(v.job) <= 1 /\ Len(w.job) \in Nat
    BY <1>3, <1>4, SoundFacts, SeqFacts DEF Sound, Typed
  <2> QED
    BY <1>3, <1>4, <2>1, Empty
<1>5. Typed(w)
  <2>1. \A b \in Queues : IsQueue(w[b])
    BY <1>2, <1>3 DEF Sound, Typed
  <2>2. Len(w.job) <= 1 /\ (w.from = "none" <=> w.job = <<>>)
    <3>1. CASE a = "job"
      BY <1>4, <3>1
    <3>2. CASE a # "job"
      BY <1>2, <3>2 DEF Sound, Typed, Queues
    <3> QED
      BY <3>1, <3>2
  <2> QED
    BY <2>1, <2>2 DEF Sound, Typed, Kept
<1>6. Sorts(w)
  <2> SUFFICES ASSUME NEW b \in Queues, NEW i \in DOMAIN w[b] PROVE InQueue(w, b, w[b][i])
    BY DEF Sorts
  <2>1. b # "job" \/ w.from = v.from
    BY <1>4
  <2>2. \E j \in DOMAIN v[b] : w[b][i] = v[b][j]
    BY <1>1, <1>2
  <2>3. InQueue(v, b, w[b][i])
    BY <2>2 DEF Sound, Sorts
  <2>4. \A p : InQueue(w, b, p) <=> InQueue(v, b, p)
    BY <2>1, KeptSorts DEF Kept
  <2> QED
    BY <2>3, <2>4
<1>7. Pends(w)
  <2>1. \A b \in Queues : \A i \in DOMAIN w[b] : \E j \in DOMAIN v[b] : w[b][i] = v[b][j]
    BY <1>1, <1>2
  <2>2. w.from = "debugger" => v.from = "debugger"
    OBVIOUS
  <2>3. \A i \in DOMAIN w.dq : \E j \in DOMAIN v.dq : w.dq[i] = v.dq[j]
    BY <2>1 DEF Queues
  <2>4. \A i \in DOMAIN w.job : \E j \in DOMAIN v.job : w.job[i] = v.job[j]
    BY <2>1 DEF Queues
  <2>5. \A f : Known(w, f) <=> Known(v, f)
    BY KeptSorts DEF Kept
  <2> QED
    BY <2>2, <2>3, <2>4, <2>5 DEF Sound, Pends
<1>8. Once(w) /\ Absent(w, v[a][m].of)
  BY <1>2, SoundFacts, OnceCut DEF Sound
<1>9. InQueue(v, a, v[a][m])
  BY <1>1 DEF Sound, Sorts
<1> QED
  BY <1>3, <1>5, <1>6, <1>7, <1>8, <1>9 DEF Sound

(* A packet is put into a queue; it may begin to be translated.            *)
Opens(v, w, a) == IF a = "job" THEN Len(v.job) = 0 /\ w.from # "none" ELSE w.from = v.from
Waits(w, a) == a = "dq" \/ (a = "job" /\ w.from = "debugger")
Unpended(v, f) == \A y \in DOMAIN v.pend : v.pend[y] # f

LEMMA SoundGrows ==
  ASSUME NEW v, NEW w, NEW a \in Queues, NEW x, Sound(v), Kept(v, w, {a}), Grown(v[a], w[a], x),
         w.pend = v.pend, IsPacket(x), InQueue(w, a, x), Absent(v, x.of),
         Opens(v, w, a), Waits(w, a) => Unpended(v, x.of)
  PROVE  Sound(w)
<1>1. \A i \in DOMAIN w[a] : w[a][i] = x \/ (i \in DOMAIN v[a] /\ w[a][i] = v[a][i])
  BY SoundFacts, GrownFrom
<1>2. \A b \in Queues \ {a} : w[b] = v[b]
  BY DEF Kept
<1>3. IsQueue(w[a]) /\ IsSeq(w[a]) /\ Len(w[a]) = Len(v[a]) + 1
  <2>1. IsQueue(v[a])
    BY SoundFacts
  <2>2. IsQueue(w[a])
    BY <2>1, QueueGrows
  <2> QED
    BY <2>2 DEF Grown
<1>4. ASSUME a = "job" PROVE w.job # <<>> /\ Len(w.job) = 1 /\ \A i \in DOMAIN w.job : w.job[i] = x
  <2>1. Len(v.job) = 0 /\ DOMAIN v.job = {}
    BY <1>4, SoundFacts, Empty DEF Opens
  <2>0. IsSeq(w.job) /\ Len(w.job) = Len(v.job) + 1
    BY <1>3, <1>4, Zenon
  <2>2. IsSeq(w.job) /\ Len(w.job) = 1
    BY <2>0, <2>1
  <2>3. w.job # <<>>
    BY <2>2, One
  <2> QED
    BY <1>1, <1>4, <2>1, <2>2, <2>3
<1>5. Typed(w)
  <2>1. \A b \in Queues : IsQueue(w[b])
    BY <1>2, <1>3 DEF Sound, Typed
  <2>2. Len(w.job) <= 1 /\ (w.from = "none" <=> w.job = <<>>)
    <3>1. CASE a = "job"
      <4>1. w.from # "none"
        BY <3>1 DEF Opens
      <4>2. Len(w.job) = 1 /\ w.job # <<>>
        BY <1>4, <3>1, Zenon
      <4>3. Len(w.job) <= 1
        BY <4>2
      <4> QED
        BY <4>1, <4>2, <4>3
    <3>2. CASE a # "job"
      BY <1>2, <3>2 DEF Sound, Typed, Queues, Opens
    <3> QED
      BY <3>1, <3>2
  <2> QED
    BY <2>1, <2>2 DEF Sound, Typed, Kept
<1>6. Sorts(w)
  <2> SUFFICES ASSUME NEW b \in Queues, NEW i \in DOMAIN w[b] PROVE InQueue(w, b, w[b][i])
    BY DEF Sorts
  <2>1. CASE b = a /\ w[b][i] = x
    BY <2>1
  <2>2. CASE i \in DOMAIN v[b] /\ w[b][i] = v[b][i]
    <3>1. b # "job" \/ w.from = v.from
      <4>1. ASSUME b = "job", w.from # v.from PROVE FALSE
        <5>1. a = "job"
          BY <4>1 DEF Opens
        <5>2. DOMAIN v.job = {}
          BY <5>1, SoundFacts, Empty DEF Opens
        <5> QED
          BY <2>2, <4>1, <5>2
      <4> QED
        BY <4>1
    <3>2. InQueue(v, b, w[b][i])
      BY <2>2 DEF Sound, Sorts
    <3>3. \A p : InQueue(w, b, p) <=> InQueue(v, b, p)
      BY <3>1, KeptSorts DEF Kept
    <3> QED
      BY <3>2, <3>3
  <2> QED
    BY <1>1, <1>2, <2>1, <2>2
<1>7. Pends(w)
  <2>1. \A f : Known(w, f) <=> Known(v, f)
    BY KeptSorts DEF Kept
  <2> SUFFICES ASSUME NEW y \in DOMAIN v.pend
               PROVE  /\ \A i \in DOMAIN w.dq : w.dq[i].of # v.pend[y]
                      /\ w.from = "debugger" => \A i \in DOMAIN w.job : w.job[i].of # v.pend[y]
    BY <2>1 DEF Sound, Pends
  <2>2. \A i \in DOMAIN w.dq : w.dq[i].of # v.pend[y]
    <3>1. CASE a = "dq"
      BY <1>1, <3>1 DEF Sound, Pends, Unpended, Waits
    <3>2. CASE a # "dq"
      BY <1>2, <3>2 DEF Sound, Pends, Queues
    <3> QED
      BY <3>1, <3>2
  <2>3. ASSUME w.from = "debugger", NEW i \in DOMAIN w.job PROVE w.job[i].of # v.pend[y]
    <3>1. CASE a = "job"
      BY <1>4, <2>3, <3>1 DEF Unpended, Waits
    <3>2. CASE a # "job"
      BY <1>2, <2>3, <3>2 DEF Sound, Pends, Queues, Opens
    <3> QED
      BY <3>1, <3>2
  <2> QED
    BY <2>2, <2>3
<1>8. Once(w)
  BY <1>2, SoundFacts, OnceGrows DEF Sound
<1> QED
  BY <1>5, <1>6, <1>7, <1>8 DEF Sound

(* The identifier id is forgotten, under which nothing is on its way.      *)
LEMMA SoundForgets ==
  ASSUME NEW v, NEW w, NEW id, Sound(v), Kept(v, w, {}), w.from = v.from, v.rewrite,
         w.pend = Without(v.pend, {id}),
         \A i \in DOMAIN v.toapp : v.toapp[i].of # 0 /\ v.toapp[i].kind = "cmd" => v.toapp[i].id # id,
         \A i \in DOMAIN v.flow : v.flow[i].of # 0 => v.flow[i].id # id
  PROVE  Sound(w)
<1>1. DOMAIN w.pend = DOMAIN v.pend \ {id} /\ \A x \in DOMAIN w.pend : w.pend[x] = v.pend[x]
  BY DEF Without
<1>2. \A b \in Queues : w[b] = v[b]
  BY DEF Kept
<1>3. w.dq = v.dq /\ w.job = v.job /\ w.toapp = v.toapp /\ w.flow = v.flow /\ w.dlog = v.dlog
  BY <1>2 DEF Queues
<1>4. \A f : Known(w, f) <=> Known(v, f)
  BY DEF Known, Kept
<1>5. \A p : Carried(v, p) /\ p.id # id => Carried(w, p)
  BY <1>1 DEF Carried, Kept
<1>6. Typed(w)
  BY <1>1, <1>2, <1>3 DEF Sound, Typed, Kept
<1>7. Sorts(w)
  <2>1. ASSUME NEW i \in DOMAIN w.dq PROVE Asks(w, w.dq[i])
    BY <1>3, <1>4 DEF Sound, Sorts, InQueue, Queues, Asks
  <2>2. ASSUME NEW i \in DOMAIN w.job PROVE InJob(w, w.job[i])
    BY <1>3, <1>4 DEF Sound, Sorts, InQueue, Queues, InJob, Asks
  <2>3. ASSUME NEW i \in DOMAIN w.toapp PROVE InToapp(w, w.toapp[i])
    BY <1>3, <1>4, <1>5 DEF Sound, Sorts, InQueue, Queues, InToapp
  <2>4. ASSUME NEW i \in DOMAIN w.flow PROVE InFlow(w, w.flow[i])
    BY <1>3, <1>4, <1>5 DEF Sound, Sorts, InQueue, Queues, InFlow
  <2>5. ASSUME NEW i \in DOMAIN w.dlog PROVE InDlog(w, w.dlog[i])
    BY <1>3, <1>4 DEF Sound, Sorts, InQueue, Queues, InDlog
  <2> QED
    BY <2>1, <2>2, <2>3, <2>4, <2>5 DEF Sorts, InQueue
<1>8. Pends(w)
  BY <1>1, <1>3, <1>4, SMTT(30) DEF Sound, Pends
<1>9. Once(w)
  BY <1>2 DEF Sound, Once
<1> QED
  BY <1>6, <1>7, <1>8, <1>9 DEF Sound

(* The identifier id is given to the command f.                            *)
LEMMA SoundMarks ==
  ASSUME NEW v, NEW w, NEW id \in 0 .. IdMod - 1, NEW f, Sound(v), Kept(v, w, {}), w.from = v.from,
         w.pend = With(v.pend, id, f), id \notin DOMAIN v.pend,
         Known(v, f), Unpended(v, f), Absent(v, f)
  PROVE  Sound(w)
<1>1. /\ DOMAIN w.pend = DOMAIN v.pend \cup {id} /\ w.pend[id] = f
      /\ \A x \in DOMAIN v.pend : w.pend[x] = v.pend[x] /\ x # id
  BY DEF With
<1>2. \A b \in Queues : w[b] = v[b]
  BY DEF Kept
<1>3. w.dq = v.dq /\ w.job = v.job /\ w.toapp = v.toapp /\ w.flow = v.flow /\ w.dlog = v.dlog
  BY <1>2 DEF Queues
<1>4. \A g : Known(w, g) <=> Known(v, g)
  BY DEF Known, Kept
<1>5. \A p : Carried(v, p) => Carried(w, p)
  BY <1>1 DEF Carried, Kept
<1>6. Typed(w)
  BY <1>1, <1>2, <1>3 DEF Sound, Typed, Kept
<1>7. Sorts(w)
  <2>1. ASSUME NEW i \in DOMAIN w.dq PROVE Asks(w, w.dq[i])
    BY <1>3, <1>4 DEF Sound, Sorts, InQueue, Queues, Asks
  <2>2. ASSUME NEW i \in DOMAIN w.job PROVE InJob(w, w.job[i])
    BY <1>3, <1>4 DEF Sound, Sorts, InQueue, Queues, InJob, Asks
  <2>3. ASSUME NEW i \in DOMAIN w.toapp PROVE InToapp(w, w.toapp[i])
    BY <1>3, <1>4, <1>5 DEF Sound, Sorts, InQueue, Queues, InToapp
  <2>4. ASSUME NEW i \in DOMAIN w.flow PROVE InFlow(w, w.flow[i])
    BY <1>3, <1>4, <1>5 DEF Sound, Sorts, InQueue, Queues, InFlow
  <2>5. ASSUME NEW i \in DOMAIN w.dlog PROVE InDlog(w, w.dlog[i])
    BY <1>3, <1>4 DEF Sound, Sorts, InQueue, Queues, InDlog
  <2> QED
    BY <2>1, <2>2, <2>3, <2>4, <2>5 DEF Sorts, InQueue
<1>8. Pends(w)
  <2>1. f # 0
    BY JdwpAssumption DEF Known
  <2>2. (\A i \in DOMAIN v.dq : v.dq[i].of # f) /\ (\A i \in DOMAIN v.job : v.job[i].of # f)
    BY <2>1 DEF Absent, Queues
  <2>3. \A x \in DOMAIN w.pend : Known(w, w.pend[x]) /\ \A y \in DOMAIN w.pend : w.pend[x] = w.pend[y] => x = y
    BY <1>1, <1>4 DEF Sound, Pends, Unpended
  <2>4. \A x \in DOMAIN w.pend : \A i \in DOMAIN w.dq : w.dq[i].of # w.pend[x]
    BY <1>1, <1>3, <2>2 DEF Sound, Pends
  <2>5. \A x \in DOMAIN w.pend : w.from = "debugger" => \A i \in DOMAIN w.job : w.job[i].of # w.pend[x]
    BY <1>1, <1>3, <2>2 DEF Sound, Pends
  <2> QED
    BY <2>3, <2>4, <2>5 DEF Pends
<1>9. Once(w)
  BY <1>2 DEF Sound, Once
<1> QED
  BY <1>6, <1>7, <1>8, <1>9 DEF Sound

(* The debugger uses a new identifier, which nothing has.                  *)
LEMMA SoundAsks ==
  ASSUME NEW v, NEW w, Sound(v), w.ids = v.ids + 1, v.ids < MaxCmds, w.rewrite = v.rewrite,
         \A b \in Queues : w[b] = v[b], w.from = v.from, w.pend = v.pend
  PROVE  /\ Sound(w) /\ Known(w, FirstId + v.ids)
         /\ Absent(w, FirstId + v.ids) /\ Unpended(w, FirstId + v.ids)
<1>1. w.dq = v.dq /\ w.job = v.job /\ w.toapp = v.toapp /\ w.flow = v.flow /\ w.dlog = v.dlog
  BY DEF Queues
<1>2. v.ids \in Nat /\ w.ids \in 0 .. MaxCmds /\ FirstId \in Nat \ {0}
  BY JdwpAssumption DEF Sound, Typed
<1>3. \A f : Known(v, f) => Known(w, f) /\ f # FirstId + v.ids
  BY <1>2 DEF Known
<1>4. \A p : Carried(v, p) => Carried(w, p)
  BY DEF Carried
<1>5. Typed(w)
  BY <1>1, <1>2 DEF Sound, Typed
<1>6. Sorts(w)
  <2>1. ASSUME NEW i \in DOMAIN w.dq PROVE Asks(w, w.dq[i])
    BY <1>1, <1>3 DEF Sound, Sorts, InQueue, Queues, Asks
  <2>2. ASSUME NEW i \in DOMAIN w.job PROVE InJob(w, w.job[i])
    BY <1>1, <1>3 DEF Sound, Sorts, InQueue, Queues, InJob, Asks
  <2>3. ASSUME NEW i \in DOMAIN w.toapp PROVE InToapp(w, w.toapp[i])
    BY <1>1, <1>3, <1>4 DEF Sound, Sorts, InQueue, Queues, InToapp
  <2>4. ASSUME NEW i \in DOMAIN w.flow PROVE InFlow(w, w.flow[i])
    BY <1>1, <1>3, <1>4 DEF Sound, Sorts, InQueue, Queues, InFlow
  <2>5. ASSUME NEW i \in DOMAIN w.dlog PROVE InDlog(w, w.dlog[i])
    BY <1>1, <1>3 DEF Sound, Sorts, InQueue, Queues, InDlog
  <2> QED
    BY <2>1, <2>2, <2>3, <2>4, <2>5 DEF Sorts, InQueue
<1>7. Pends(w)
  BY <1>1, <1>3 DEF Sound, Pends
<1>8. Once(w)
  BY DEF Sound, Once
<1>9. Known(w, FirstId + v.ids)
  BY <1>2 DEF Known
<1>10. \A b \in Queues : \A i \in DOMAIN v[b] : v[b][i].of # 0 => Known(v, v[b][i].of)
  BY DEF Sound, Sorts, InQueue, Queues, Asks, InJob, InToapp, InFlow, InDlog
<1>11. Absent(w, FirstId + v.ids)
  <2>1. FirstId + v.ids # 0
    BY <1>2
  <2>2. ASSUME NEW b \in Queues, NEW j \in DOMAIN w[b], w[b][j].of = FirstId + v.ids PROVE FALSE
    BY <1>3, <1>10, <2>1, <2>2
  <2> QED
    BY <2>2 DEF Absent
<1>12. Unpended(w, FirstId + v.ids)
  BY <1>3 DEF Sound, Pends, Unpended
<1> QED
  BY <1>5, <1>6, <1>7, <1>8, <1>9, <1>11, <1>12 DEF Sound

LEMMA OneFacts ==
  ASSUME NEW x
  PROVE  /\ IsSeq(<<x>>) /\ Len(<<x>>) = 1 /\ <<x>>[1] = x
         /\ DOMAIN <<x>> = {1} /\ <<x>> # <<>>
         /\ IsSeq(<<>>) /\ Len(<<>>) = 0
         /\ Grown(<<>>, <<x>>, x) /\ Cut(<<x>>, <<>>, 1)
<1>1. <<x>> \in Seq({x}) /\ <<>> \in Seq({x})
  OBVIOUS
<1>2. IsSeq(<<x>>) /\ IsSeq(<<>>)
  BY <1>1, IsSeqIn
<1>3. Len(<<x>>) = 1 /\ <<x>>[1] = x /\ Len(<<>>) = 0
  OBVIOUS
<1>4. DOMAIN <<x>> = {1} /\ <<x>> # <<>>
  BY <1>2, <1>3, One
<1>5. Grown(<<>>, <<x>>, x)
  BY <1>2, <1>3 DEF Grown
<1>6. Cut(<<x>>, <<>>, 1)
  BY <1>2, <1>3 DEF Cut
<1> QED
  BY <1>2, <1>3, <1>4, <1>5, <1>6

(* The packet that is translated changes in its contents only.             *)
LEMMA Translates ==
  ASSUME NEW v, NEW w, NEW p, NEW q, Good(v), Kept(v, w, {"job"}), v.job = <<p>>, w.job = <<q>>,
         w.pend = v.pend, w.from = v.from, w.n = v.n, IsPacket(q),
         q.id = p.id, q.of = p.of, q.n = p.n
  PROVE  Good(w)
<1>1. /\ w.dq = v.dq /\ w.flow = v.flow /\ w.toapp = v.toapp /\ w.dlog = v.dlog
      /\ w.ids = v.ids /\ w.rewrite = v.rewrite
  BY DEF Kept, Queues
<1>2. /\ IsSeq(<<q>>) /\ Len(<<q>>) = 1 /\ DOMAIN <<q>> = {1} /\ <<q>>[1] = q
      /\ DOMAIN <<p>> = {1} /\ <<p>>[1] = p /\ <<q>> # <<>> /\ <<p>> # <<>>
  BY OneFacts
<1> DEFINE a == <<p>>
           b == <<q>>
<1>3. v.job = a /\ w.job = b
  OBVIOUS
<1>4. /\ IsSeq(b) /\ Len(b) = 1 /\ DOMAIN b = {1} /\ b[1] = q
      /\ DOMAIN a = {1} /\ a[1] = p /\ b # <<>> /\ a # <<>>
  BY <1>2
<1> HIDE DEF a, b
<1>5. Typed(w)
  <2>1. IsQueue(b)
    BY <1>4 DEF IsQueue
  <2>2. \A c \in Queues : IsQueue(w[c])
    BY <1>1, <1>3, <2>1 DEF Good, Sound, Typed, Queues
  <2>3. w.from # "none" /\ w.job # <<>>
    BY <1>3, <1>4 DEF Good, Sound, Typed
  <2>4. Len(w.job) <= 1
    <3>1. Len(b) <= 1
      BY <1>4
    <3> QED
      BY <1>3, <3>1
  <2> QED
    BY <1>1, <2>2, <2>3, <2>4 DEF Good, Sound, Typed
<1>6. Order(w)
  <2>1. PICK k, l \in Nat : Numbered(v.dlog, 0, k) /\ Numbered(a, k, l) /\ Numbered(v.flow, l, v.n)
    BY <1>3 DEF Good, Order
  <2>2. Numbered(b, k, l)
    BY <1>4, <2>1 DEF Numbered
  <2> QED
    BY <1>1, <1>3, <2>1, <2>2 DEF Order, Good
<1>7. Sorts(w)
  <2> SUFFICES ASSUME NEW c \in Queues, NEW i \in DOMAIN w[c] PROVE InQueue(w, c, w[c][i])
    BY DEF Sorts
  <2>1. \A r : InQueue(w, c, r) <=> InQueue(v, c, r)
    BY <1>1, KeptSorts
  <2>2. CASE c = "job"
    <3>1. i = 1 /\ w[c][i] = q /\ 1 \in DOMAIN v[c] /\ v[c][1] = p
      BY <1>3, <1>4, <2>2
    <3>2. InJob(v, p)
      BY <2>2, <3>1 DEF Good, Sound, Sorts, InQueue
    <3>3. InJob(v, q)
      BY <3>2 DEF InJob, Asks
    <3> QED
      BY <2>1, <2>2, <3>1, <3>3 DEF InQueue
  <2>3. CASE c # "job"
    BY <2>1, <2>3 DEF Good, Sound, Sorts, Kept
  <2> QED
    BY <2>2, <2>3
<1>8. Pends(w)
  <2>1. \A f : Known(w, f) <=> Known(v, f)
    BY <1>1 DEF Known
  <2>2. \A i \in DOMAIN w.job : i \in DOMAIN v.job /\ w.job[i].of = v.job[i].of
    BY <1>3, <1>4
  <2> QED
    BY <1>1, <2>1, <2>2 DEF Pends, Good, Sound
<1>9. Once(w)
  <2>1. ASSUME NEW c \in Queues, NEW i \in DOMAIN w[c]
        PROVE  i \in DOMAIN v[c] /\ w[c][i].of = v[c][i].of
    <3>1. CASE c = "job"
      BY <1>3, <1>4, <3>1
    <3>2. CASE c # "job"
      BY <3>2 DEF Kept
    <3> QED
      BY <3>1, <3>2
  <2> QED
    BY <2>1 DEF Once, Good, Sound
<1> QED
  BY <1>5, <1>6, <1>7, <1>8, <1>9 DEF Good, Sound

----------------------------------------------------------------------------
(* How Order survives.  What does not have a number is of no concern.      *)

LEMMA OrderKept ==
  ASSUME NEW v, NEW w, Order(v), w.dlog = v.dlog, w.job = v.job, w.flow = v.flow, w.n = v.n
  PROVE  Order(w)
BY DEF Order

LEMMA OrderFlowGrows ==
  ASSUME NEW v, NEW w, NEW x, Sound(v), Order(v), w.dlog = v.dlog, w.job = v.job, Grown(v.flow, w.flow, x),
         IsPacket(x), (x.n = 0 /\ w.n = v.n) \/ (x.n = v.n + 1 /\ w.n = v.n + 1)
  PROVE  Order(w)
<1>1. PICK k, l \in Nat : Numbered(v.dlog, 0, k) /\ Numbered(v.job, k, l) /\ Numbered(v.flow, l, v.n)
  BY DEF Order
<1>2. v.n \in Nat /\ IsQueue(v.flow)
  BY SoundFacts DEF Order
<1>3. /\ x.n = 0 => Numbered(w.flow, l, v.n)
      /\ x.n = v.n + 1 => Numbered(w.flow, l, v.n + 1)
  BY <1>1, <1>2, NumberedGrows
<1>4. Numbered(w.flow, l, w.n) /\ w.n \in Nat
  BY <1>2, <1>3
<1> QED
  BY <1>1, <1>4 DEF Order

LEMMA OrderFlowCut ==
  ASSUME NEW v, NEW w, NEW m, Sound(v), Order(v), w.dlog = v.dlog, w.job = v.job, Cut(v.flow, w.flow, m),
         v.flow[m].n = 0, w.n = v.n
  PROVE  Order(w)
<1>1. PICK k, l \in Nat : Numbered(v.dlog, 0, k) /\ Numbered(v.job, k, l) /\ Numbered(v.flow, l, v.n)
  BY DEF Order
<1>2. v.n \in Nat /\ IsQueue(v.flow)
  BY SoundFacts DEF Order
<1>3. Numbered(w.flow, l, v.n)
  BY <1>1, <1>2, NumberedCut
<1> QED
  BY <1>1, <1>2, <1>3 DEF Order

LEMMA OrderDlogGrows ==
  ASSUME NEW v, NEW w, NEW x, Sound(v), Order(v), w.flow = v.flow, w.job = v.job, Grown(v.dlog, w.dlog, x),
         IsPacket(x), x.n = 0, w.n = v.n
  PROVE  Order(w)
<1>1. PICK k, l \in Nat : Numbered(v.dlog, 0, k) /\ Numbered(v.job, k, l) /\ Numbered(v.flow, l, v.n)
  BY DEF Order
<1>2. IsQueue(v.dlog)
  BY SoundFacts
<1>3. Numbered(w.dlog, 0, k)
  BY <1>1, <1>2, NumberedGrows
<1> QED
  BY <1>1, <1>3 DEF Order

LEMMA OrderJobCut ==
  ASSUME NEW v, NEW w, Sound(v), Order(v), w.flow = v.flow, w.dlog = v.dlog, Cut(v.job, w.job, 1),
         v.job[1].n = 0, w.n = v.n
  PROVE  Order(w)
<1>1. PICK k, l \in Nat : Numbered(v.dlog, 0, k) /\ Numbered(v.job, k, l) /\ Numbered(v.flow, l, v.n)
  BY DEF Order
<1>2. IsQueue(v.job)
  BY SoundFacts
<1>3. Numbered(w.job, k, l)
  BY <1>1, <1>2, NumberedCut
<1> QED
  BY <1>1, <1>3 DEF Order

LEMMA OrderJobGrows ==
  ASSUME NEW v, NEW w, NEW x, Sound(v), Order(v), w.flow = v.flow, w.dlog = v.dlog, Grown(v.job, w.job, x),
         IsPacket(x), x.n = 0, w.n = v.n
  PROVE  Order(w)
<1>1. PICK k, l \in Nat : Numbered(v.dlog, 0, k) /\ Numbered(v.job, k, l) /\ Numbered(v.flow, l, v.n)
  BY DEF Order
<1>2. IsQueue(v.job)
  BY SoundFacts
<1>3. Numbered(w.job, k, l)
  BY <1>1, <1>2, NumberedGrows
<1> QED
  BY <1>1, <1>3 DEF Order

LEMMA OrderFlowToJob ==
  ASSUME NEW v, NEW w, NEW x, Sound(v), Order(v), w.dlog = v.dlog, Cut(v.flow, w.flow, 1),
         Grown(v.job, w.job, x), IsPacket(x), x.n = v.flow[1].n, w.n = v.n
  PROVE  Order(w)
<1>1. PICK k, l \in Nat : Numbered(v.dlog, 0, k) /\ Numbered(v.job, k, l) /\ Numbered(v.flow, l, v.n)
  BY DEF Order
<1>2. v.n \in Nat /\ IsQueue(v.flow) /\ IsQueue(v.job)
  BY SoundFacts DEF Order
<1>3. \E m \in Nat : Numbered(w.job, k, m) /\ Numbered(w.flow, m, v.n)
  BY <1>1, <1>2, PassedOn
<1> QED
  BY <1>1, <1>2, <1>3 DEF Order

LEMMA OrderJobToDlog ==
  ASSUME NEW v, NEW w, NEW x, Sound(v), Order(v), w.flow = v.flow, Cut(v.job, w.job, 1),
         Grown(v.dlog, w.dlog, x), IsPacket(x), x.n = v.job[1].n, w.n = v.n
  PROVE  Order(w)
<1>1. PICK k, l \in Nat : Numbered(v.dlog, 0, k) /\ Numbered(v.job, k, l) /\ Numbered(v.flow, l, v.n)
  BY DEF Order
<1>2. v.n \in Nat /\ IsQueue(v.dlog) /\ IsQueue(v.job)
  BY SoundFacts DEF Order
<1>3. \E m \in Nat : Numbered(w.dlog, 0, m) /\ Numbered(w.job, m, l)
  BY <1>1, <1>2, PassedOn
<1> QED
  BY <1>1, <1>2, <1>3 DEF Order

LEMMA OrderFlowToDlog ==
  ASSUME NEW v, NEW w, NEW x, Sound(v), Order(v), v.job = <<>>, w.job = <<>>, Cut(v.flow, w.flow, 1),
         Grown(v.dlog, w.dlog, x), IsPacket(x), x.n = v.flow[1].n, w.n = v.n
  PROVE  Order(w)
<1>1. PICK k, l \in Nat : Numbered(v.dlog, 0, k) /\ Numbered(<<>>, k, l) /\ Numbered(v.flow, l, v.n)
  BY DEF Order
<1>2. v.n \in Nat /\ IsQueue(v.flow) /\ IsQueue(v.dlog)
  BY SoundFacts DEF Order
<1>3. k = l
  BY <1>1, NumberedEmpty
<1>4. PICK m \in Nat : Numbered(w.dlog, 0, m) /\ Numbered(w.flow, m, v.n)
  BY <1>1, <1>2, <1>3, PassedOn
<1>5. Numbered(<<>>, m, m)
  BY NumberedEmpty
<1> QED
  BY <1>2, <1>4, <1>5 DEF Order

----------------------------------------------------------------------------
(* The proxy's own commands and the answers to them.                       *)

LEMMA QuietKept ==
  ASSUME NEW v, NEW w, w.toapp = v.toapp, w.flow = v.flow
  PROVE  /\ Quiet(v) => Quiet(w)
         /\ w.pend = v.pend => \A t : Single(v, t) => Single(w, t)
BY DEF Quiet, Single, OwnCommand, OwnReply

LEMMA QuietSingle ==
  ASSUME NEW v, NEW t, Quiet(v), t \notin DOMAIN v.pend
  PROVE  Single(v, t)
BY DEF Quiet, Single

(* A command of its own is sent; others, and errors, do not matter.        *)
LEMMA QuietSends ==
  ASSUME NEW v, NEW w, NEW x, IsSeq(v.toapp), Grown(v.toapp, w.toapp, x), w.flow = v.flow, Quiet(v)
  PROVE  /\ x.of = 0 /\ x.id \notin DOMAIN w.pend => Single(w, x.id)
         /\ x.of # 0 \/ x.kind # "cmd" => Quiet(w)
<1>1. \A i \in DOMAIN w.toapp : (i = Len(w.toapp) /\ w.toapp[i] = x)
                                \/ (i < Len(w.toapp) /\ i \in DOMAIN v.toapp /\ w.toapp[i] = v.toapp[i])
  BY GrownFrom
<1> QED
  BY <1>1 DEF Quiet, Single, OwnCommand, OwnReply

LEMMA ToappCut ==
  ASSUME NEW v, NEW w, NEW m, IsSeq(v.toapp), Cut(v.toapp, w.toapp, m), w.flow = v.flow, w.pend = v.pend
  PROVE  /\ Quiet(v) => Quiet(w)
         /\ \A t : Single(v, t) => Single(w, t)
         /\ \A t : Single(v, t) /\ OwnCommand(v, m) => Quiet(w) /\ v.toapp[m].id = t /\ t \notin DOMAIN w.pend
<1>1. /\ m \in DOMAIN v.toapp
      /\ \A i \in DOMAIN w.toapp : From(i, m) \in DOMAIN v.toapp \ {m} /\ w.toapp[i] = v.toapp[From(i, m)]
      /\ \A i, j \in DOMAIN w.toapp : From(i, m) = From(j, m) => i = j
  BY CutFrom
<1>2. Quiet(v) => Quiet(w)
  BY <1>1 DEF Quiet, OwnCommand, OwnReply
<1>3. ASSUME NEW t, Single(v, t) PROVE Single(w, t)
  BY <1>1, <1>3 DEF Single, OwnCommand, OwnReply
<1>4. ASSUME NEW t, Single(v, t), OwnCommand(v, m)
      PROVE  Quiet(w) /\ v.toapp[m].id = t /\ t \notin DOMAIN w.pend
  BY <1>1, <1>4 DEF Quiet, Single, OwnCommand, OwnReply
<1> QED
  BY <1>2, <1>3, <1>4

LEMMA FlowCut ==
  ASSUME NEW v, NEW w, NEW m, IsSeq(v.flow), Cut(v.flow, w.flow, m), w.toapp = v.toapp
  PROVE  /\ Quiet(v) => Quiet(w)
         /\ \A t : Single(v, t) /\ OwnReply(v, m) => Quiet(w)
<1>1. /\ m \in DOMAIN v.flow
      /\ \A i \in DOMAIN w.flow : From(i, m) \in DOMAIN v.flow \ {m} /\ w.flow[i] = v.flow[From(i, m)]
  BY CutFrom
<1>2. Quiet(v) => Quiet(w)
  BY <1>1 DEF Quiet, OwnCommand, OwnReply
<1>3. ASSUME NEW t, Single(v, t), OwnReply(v, m) PROVE Quiet(w)
  BY <1>1, <1>3 DEF Quiet, Single, OwnCommand, OwnReply
<1> QED
  BY <1>2, <1>3

LEMMA FlowGrows ==
  ASSUME NEW v, NEW w, NEW x, IsSeq(v.flow), Grown(v.flow, w.flow, x), w.toapp = v.toapp, w.pend = v.pend
  PROVE  /\ Quiet(v) /\ x.id \notin DOMAIN v.pend => Single(w, x.id)
         /\ x.of # 0 \/ x.kind = "cmd" => (Quiet(v) => Quiet(w)) /\ \A t : Single(v, t) => Single(w, t)
<1>1. \A i \in DOMAIN w.flow : (i = Len(w.flow) /\ w.flow[i] = x)
                               \/ (i < Len(w.flow) /\ i \in DOMAIN v.flow /\ w.flow[i] = v.flow[i])
  BY GrownFrom
<1>2. Quiet(v) /\ x.id \notin DOMAIN v.pend => Single(w, x.id)
  BY <1>1 DEF Quiet, Single, OwnCommand, OwnReply
<1>3. ASSUME x.of # 0 \/ x.kind = "cmd" PROVE Quiet(v) => Quiet(w)
  BY <1>1, <1>3 DEF Quiet, OwnCommand, OwnReply
<1>4. ASSUME x.of # 0 \/ x.kind = "cmd", NEW t, Single(v, t) PROVE Single(w, t)
  <2>1. \A i \in DOMAIN w.flow : OwnReply(w, i) => i \in DOMAIN v.flow /\ w.flow[i] = v.flow[i] /\ OwnReply(v, i)
    BY <1>1, <1>4 DEF OwnReply
  <2>2. \A i : OwnCommand(w, i) <=> OwnCommand(v, i)
    BY DEF OwnCommand
  <2> QED
    BY <1>4, <2>1, <2>2 DEF Single
<1> QED
  BY <1>2, <1>3, <1>4

----------------------------------------------------------------------------
(* What the application sent: how the three queues make one.               *)

LEMMA ConcatEmpty ==
  ASSUME NEW s, IsSeq(s)
  PROVE  s \o <<>> = s /\ <<>> \o s = s /\ Reverse(<<>>) = <<>>
<1>1. IsSeq(<<>>) /\ Len(<<>>) = 0
  BY OneFacts
<1>2. s \o <<>> = s
  <2>1. IsSeq(s \o <<>>) /\ Len(s \o <<>>) = Len(s) /\ \A i \in 1 .. Len(s) : (s \o <<>>)[i] = s[i]
    BY <1>1, ConcatFacts, SeqFacts
  <2> QED
    BY <2>1, SameSeq
<1>3. <<>> \o s = s
  <2>1. IsSeq(<<>> \o s) /\ Len(<<>> \o s) = Len(s)
    BY <1>1, ConcatFacts, SeqFacts
  <2>2. \A i \in 1 .. Len(s) : (<<>> \o s)[Len(<<>>) + i] = s[i]
    BY <1>1, ConcatFacts
  <2>3. \A i \in 1 .. Len(s) : Len(<<>>) + i = i
    BY <1>1
  <2> QED
    BY <2>1, <2>2, <2>3, SameSeq
<1>4. Reverse(<<>>) = <<>>
  BY <1>1, ReverseFacts, Empty
<1> QED
  BY <1>2, <1>3, <1>4

LEMMA ConcatAssoc ==
  ASSUME NEW a, NEW b, NEW c, IsSeq(a), IsSeq(b), IsSeq(c)
  PROVE  (a \o b) \o c = a \o (b \o c)
<1>1. Len(a) \in Nat /\ Len(b) \in Nat /\ Len(c) \in Nat
  BY SeqFacts
<1>2. /\ IsSeq(a \o b) /\ Len(a \o b) = Len(a) + Len(b)
      /\ \A i \in 1 .. Len(a) : (a \o b)[i] = a[i]
      /\ \A i \in 1 .. Len(b) : (a \o b)[Len(a) + i] = b[i]
  BY ConcatFacts
<1>3. /\ IsSeq(b \o c) /\ Len(b \o c) = Len(b) + Len(c)
      /\ \A i \in 1 .. Len(b) : (b \o c)[i] = b[i]
      /\ \A i \in 1 .. Len(c) : (b \o c)[Len(b) + i] = c[i]
  BY ConcatFacts
<1> DEFINE d == a \o b
           e == b \o c
<1> HIDE DEF d, e
<1>4. /\ IsSeq(d \o c) /\ Len(d \o c) = Len(d) + Len(c)
      /\ \A i \in 1 .. Len(d) : (d \o c)[i] = d[i]
      /\ \A i \in 1 .. Len(c) : (d \o c)[Len(d) + i] = c[i]
  BY <1>2, ConcatFacts DEF d
<1>5. /\ IsSeq(a \o e) /\ Len(a \o e) = Len(a) + Len(e)
      /\ \A i \in 1 .. Len(a) : (a \o e)[i] = a[i]
      /\ \A i \in 1 .. Len(e) : (a \o e)[Len(a) + i] = e[i]
  BY <1>3, ConcatFacts DEF e
<1>6. /\ Len(d) = Len(a) + Len(b) /\ Len(e) = Len(b) + Len(c)
      /\ \A i \in 1 .. Len(a) : d[i] = a[i]
      /\ \A i \in 1 .. Len(b) : d[Len(a) + i] = b[i] /\ e[i] = b[i]
      /\ \A i \in 1 .. Len(c) : e[Len(b) + i] = c[i]
  BY <1>2, <1>3 DEF d, e
<1>7. Len(d \o c) = Len(a \o e)
  BY <1>1, <1>4, <1>5, <1>6
<1>8. ASSUME NEW i \in 1 .. Len(d \o c) PROVE (d \o c)[i] = (a \o e)[i]
  <2>0. i \in Nat /\ 1 <= i /\ i <= Len(a) + Len(b) + Len(c)
    BY <1>1, <1>4, <1>6
  <2>1. CASE i <= Len(a)
    <3>1. i \in 1 .. Len(a) /\ i \in 1 .. Len(d)
      BY <1>1, <1>6, <2>0, <2>1
    <3> QED
      BY <1>4, <1>5, <1>6, <3>1
  <2>2. CASE Len(a) < i /\ i <= Len(a) + Len(b)
    <3> DEFINE j == i - Len(a)
    <3>1. j \in 1 .. Len(b) /\ Len(a) + j = i /\ i \in 1 .. Len(d) /\ j \in 1 .. Len(e)
      BY <1>1, <1>6, <2>0, <2>2
    <3> HIDE DEF j
    <3>2. (d \o c)[i] = d[i] /\ d[i] = b[j]
      BY <1>4, <1>6, <3>1
    <3>3. (a \o e)[i] = e[j] /\ e[j] = b[j]
      BY <1>5, <1>6, <3>1
    <3> QED
      BY <3>2, <3>3
  <2>3. CASE Len(a) + Len(b) < i
    <3> DEFINE j == i - Len(a) - Len(b)
    <3>1. /\ j \in 1 .. Len(c) /\ Len(d) + j = i
          /\ Len(b) + j \in 1 .. Len(e) /\ Len(a) + (Len(b) + j) = i
      BY <1>1, <1>6, <2>0, <2>3
    <3> HIDE DEF j
    <3>2. (d \o c)[i] = c[j]
      BY <1>4, <3>1
    <3>3. (a \o e)[i] = e[Len(b) + j] /\ e[Len(b) + j] = c[j]
      BY <1>5, <1>6, <3>1
    <3> QED
      BY <3>2, <3>3
  <2>4. i <= Len(a) \/ (Len(a) < i /\ i <= Len(a) + Len(b)) \/ Len(a) + Len(b) < i
    BY <1>1, <2>0
  <2> QED
    BY <2>1, <2>2, <2>3, <2>4
<1>9. d \o c = a \o e
  BY <1>4, <1>5, <1>7, <1>8, SameSeq
<1> QED
  BY <1>9 DEF d, e

LEMMA HeadTail ==
  ASSUME NEW s, IsSeq(s), s # <<>>
  PROVE  <<Head(s)>> \o Tail(s) = s /\ IsSeq(Tail(s))
<1> DEFINE h == <<Head(s)>>
           t == Tail(s)
<1>1. Cut(s, t, 1) /\ Head(s) = s[1]
  BY TailCuts
<1>2. Len(s) \in Nat /\ IsSeq(h) /\ Len(h) = 1 /\ h[1] = s[1]
  BY <1>1, SeqFacts, OneFacts
<1>3. IsSeq(t) /\ Len(t) = Len(s) - 1 /\ \A i \in 1 .. Len(t) : t[i] = s[i + 1]
  BY <1>1 DEF Cut
<1> HIDE DEF h, t
<1>7. IsSeq(h) /\ IsSeq(t)
  BY <1>2, <1>3
<1>8. /\ IsSeq(h \o t) /\ Len(h \o t) = Len(h) + Len(t)
      /\ \A i \in 1 .. Len(h) : (h \o t)[i] = h[i]
      /\ \A i \in 1 .. Len(t) : (h \o t)[Len(h) + i] = t[i]
  BY <1>7, ConcatFacts
<1>4. /\ IsSeq(h \o t) /\ Len(h \o t) = Len(s)
      /\ \A i \in 1 .. Len(h) : (h \o t)[i] = h[i]
      /\ \A i \in 1 .. Len(t) : (h \o t)[Len(h) + i] = t[i]
  BY <1>2, <1>3, <1>8
<1>5. ASSUME NEW i \in 1 .. Len(s) PROVE (h \o t)[i] = s[i]
  <2>1. CASE i = 1
    BY <1>2, <1>4, <2>1
  <2>2. CASE i # 1
    <3>1. i - 1 \in 1 .. Len(t) /\ Len(h) + (i - 1) = i /\ (i - 1) + 1 = i
      BY <1>2, <1>3, <2>2
    <3> QED
      BY <1>3, <1>4, <3>1
  <2> QED
    BY <2>1, <2>2
<1>6. h \o t = s
  BY <1>4, <1>5, SameSeq
<1> QED
  BY <1>3, <1>6 DEF h, t

LEMMA ReverseCons ==
  ASSUME NEW p, NEW l, IsSeq(l)
  PROVE  Reverse(<<p>> \o l) = Reverse(l) \o <<p>> /\ IsSeq(<<p>> \o l)
<1> DEFINE h == <<p>>
           r == Reverse(l)
<1>1. Len(l) \in Nat /\ IsSeq(h) /\ Len(h) = 1 /\ h[1] = p
  BY SeqFacts, OneFacts
<1>2. IsSeq(r) /\ Len(r) = Len(l) /\ \A i \in 1 .. Len(l) : r[i] = l[(Len(l) - i) + 1]
  BY ReverseFacts
<1> HIDE DEF h, r
<1>9. IsSeq(h) /\ IsSeq(r)
  BY <1>1, <1>2
<1>10. /\ IsSeq(h \o l) /\ Len(h \o l) = Len(h) + Len(l)
       /\ \A i \in 1 .. Len(h) : (h \o l)[i] = h[i]
       /\ \A i \in 1 .. Len(l) : (h \o l)[Len(h) + i] = l[i]
  BY <1>9, ConcatFacts
<1>3. /\ IsSeq(h \o l) /\ Len(h \o l) = 1 + Len(l)
      /\ \A i \in 1 .. Len(h) : (h \o l)[i] = h[i]
      /\ \A i \in 1 .. Len(l) : (h \o l)[Len(h) + i] = l[i]
  BY <1>1, <1>10
<1>11. /\ IsSeq(r \o h) /\ Len(r \o h) = Len(r) + Len(h)
       /\ \A i \in 1 .. Len(r) : (r \o h)[i] = r[i]
       /\ \A i \in 1 .. Len(h) : (r \o h)[Len(r) + i] = h[i]
  BY <1>9, ConcatFacts
<1>4. /\ IsSeq(r \o h) /\ Len(r \o h) = Len(l) + 1
      /\ \A i \in 1 .. Len(r) : (r \o h)[i] = r[i]
      /\ \A i \in 1 .. Len(h) : (r \o h)[Len(r) + i] = h[i]
  BY <1>1, <1>2, <1>11
<1> DEFINE g == h \o l
<1>5. IsSeq(g) /\ Len(g) = 1 + Len(l) /\ g[1] = p /\ \A i \in 1 .. Len(l) : g[1 + i] = l[i]
  BY <1>1, <1>3
<1> HIDE DEF g
<1>6. IsSeq(Reverse(g)) /\ Len(Reverse(g)) = Len(g) /\ \A i \in 1 .. Len(g) : Reverse(g)[i] = g[(Len(g) - i) + 1]
  BY <1>5, ReverseFacts
<1>7. ASSUME NEW i \in 1 .. Len(g) PROVE Reverse(g)[i] = (r \o h)[i]
  <2>1. CASE i = Len(l) + 1
    <3>1. (Len(g) - i) + 1 = 1
      BY <1>1, <1>5, <2>1
    <3>2. (r \o h)[i] = h[1]
      <4>1. 1 \in 1 .. Len(h) /\ Len(r) + 1 = i
        BY <1>1, <1>2, <2>1
      <4> QED
        BY <1>4, <4>1
    <3> QED
      BY <1>1, <1>5, <1>6, <3>1, <3>2
  <2>2. CASE i \in 1 .. Len(l)
    <3> DEFINE j == (Len(l) - i) + 1
    <3>1. j \in 1 .. Len(l) /\ (Len(g) - i) + 1 = 1 + j
      BY <1>1, <1>5, <2>2
    <3>2. r[i] = l[j] /\ (r \o h)[i] = r[i]
      BY <1>2, <1>4, <2>2
    <3> HIDE DEF j
    <3>3. Reverse(g)[i] = g[1 + j] /\ g[1 + j] = l[j]
      BY <1>5, <1>6, <3>1
    <3> QED
      BY <3>2, <3>3
  <2>3. i = Len(l) + 1 \/ i \in 1 .. Len(l)
    BY <1>1, <1>5
  <2> QED
    BY <2>1, <2>2, <2>3
<1>8. Reverse(g) = r \o h
  <2>1. Len(Reverse(g)) = Len(r \o h) /\ Len(Reverse(g)) = Len(g)
    BY <1>1, <1>4, <1>5, <1>6
  <2> QED
    BY <1>4, <1>6, <1>7, <2>1, SameSeq
<1> QED
  BY <1>5, <1>8 DEF g, h, r

(* Concatenation, by its name, for the provers.                            *)
Join(s, t) == s \o t

LEMMA CutRight ==
  ASSUME NEW a, NEW s, NEW t, NEW m, NEW k, IsSeq(a), IsSeq(s), Cut(s, t, m), k = Len(a) + m
  PROVE  Cut(Join(a, s), Join(a, t), k) /\ Join(a, s)[k] = s[m]
<1>0. IsSeq(t)
  BY DEF Cut
<1>1. /\ Len(a) \in Nat /\ Len(s) \in Nat /\ Len(t) = Len(s) - 1 /\ IsSeq(t) /\ m \in 1 .. Len(s)
      /\ \A i \in 1 .. Len(t) : t[i] = IF i < m THEN s[i] ELSE s[i + 1]
  BY SeqFacts DEF Cut
<1>2. /\ IsSeq(a \o s) /\ Len(a \o s) = Len(a) + Len(s)
      /\ \A i \in 1 .. Len(a) : (a \o s)[i] = a[i]
      /\ \A i \in 1 .. Len(s) : (a \o s)[Len(a) + i] = s[i]
  BY ConcatFacts
<1>3. /\ IsSeq(a \o t) /\ Len(a \o t) = Len(a) + Len(t)
      /\ \A i \in 1 .. Len(a) : (a \o t)[i] = a[i]
      /\ \A i \in 1 .. Len(t) : (a \o t)[Len(a) + i] = t[i]
  BY <1>0, ConcatFacts
<1> DEFINE u == a \o s
           w == a \o t
<1> HIDE DEF u, w
<1>4. ASSUME NEW i \in 1 .. Len(a) + Len(t) PROVE w[i] = IF i < k THEN u[i] ELSE u[i + 1]
  <2>1. CASE i \in 1 .. Len(a)
    BY <1>1, <1>2, <1>3, <2>1 DEF u, w
  <2>2. CASE i > Len(a)
    <3> DEFINE j == i - Len(a)
    <3>1. j \in 1 .. Len(t) /\ Len(a) + j = i /\ Len(a) + (j + 1) = i + 1 /\ (i < k <=> j < m)
          /\ j \in 1 .. Len(s) /\ j + 1 \in 1 .. Len(s)
      BY <1>1, <2>2
    <3> HIDE DEF j
    <3>2. w[i] = t[j] /\ u[i] = s[j] /\ u[i + 1] = s[j + 1]
      BY <1>2, <1>3, <3>1 DEF u, w
    <3>3. t[j] = IF j < m THEN s[j] ELSE s[j + 1]
      BY <1>1, <3>1
    <3> QED
      BY <3>1, <3>2, <3>3
  <2> QED
    BY <1>1, <2>1, <2>2
<1>5. k \in 1 .. Len(u) /\ Len(w) = Len(u) - 1 /\ IsSeq(w) /\ Len(w) = Len(a) + Len(t)
  BY <1>1, <1>2, <1>3 DEF u, w
<1>6. Cut(u, w, k)
  BY <1>4, <1>5 DEF Cut
<1>7. u[k] = s[m]
  BY <1>1, <1>2 DEF u
<1> QED
  BY <1>6, <1>7 DEF u, w, Join

LEMMA CutLeft ==
  ASSUME NEW a, NEW s, NEW t, NEW m, IsSeq(a), IsSeq(s), Cut(s, t, m)
  PROVE  Cut(Join(s, a), Join(t, a), m) /\ Join(s, a)[m] = s[m]
<1>0. IsSeq(t)
  BY DEF Cut
<1>1. /\ Len(a) \in Nat /\ Len(s) \in Nat /\ Len(t) = Len(s) - 1 /\ IsSeq(t) /\ m \in 1 .. Len(s)
      /\ \A i \in 1 .. Len(t) : t[i] = IF i < m THEN s[i] ELSE s[i + 1]
  BY SeqFacts DEF Cut
<1>2. /\ IsSeq(s \o a) /\ Len(s \o a) = Len(s) + Len(a)
      /\ \A i \in 1 .. Len(s) : (s \o a)[i] = s[i]
      /\ \A i \in 1 .. Len(a) : (s \o a)[Len(s) + i] = a[i]
  BY ConcatFacts
<1>3. /\ IsSeq(t \o a) /\ Len(t \o a) = Len(t) + Len(a)
      /\ \A i \in 1 .. Len(t) : (t \o a)[i] = t[i]
      /\ \A i \in 1 .. Len(a) : (t \o a)[Len(t) + i] = a[i]
  BY <1>0, ConcatFacts
<1> DEFINE u == s \o a
           w == t \o a
<1> HIDE DEF u, w
<1>4. ASSUME NEW i \in 1 .. Len(t) + Len(a) PROVE w[i] = IF i < m THEN u[i] ELSE u[i + 1]
  <2>1. CASE i \in 1 .. Len(t)
    <3>1. i \in 1 .. Len(s) /\ i + 1 \in 1 .. Len(s)
      BY <1>1, <2>1
    <3>2. w[i] = t[i] /\ u[i] = s[i] /\ u[i + 1] = s[i + 1]
      BY <1>2, <1>3, <2>1, <3>1 DEF u, w
    <3> QED
      BY <1>1, <2>1, <3>2
  <2>2. CASE i > Len(t)
    <3> DEFINE j == i - Len(t)
    <3>1. j \in 1 .. Len(a) /\ Len(t) + j = i /\ Len(s) + j = i + 1 /\ ~(i < m)
      BY <1>1, <2>2
    <3> HIDE DEF j
    <3>2. w[i] = a[j] /\ u[i + 1] = a[j]
      BY <1>2, <1>3, <3>1 DEF u, w
    <3> QED
      BY <3>1, <3>2
  <2> QED
    BY <1>1, <2>1, <2>2
<1>5. m \in 1 .. Len(u) /\ Len(w) = Len(u) - 1 /\ IsSeq(w) /\ Len(w) = Len(t) + Len(a)
  BY <1>1, <1>2, <1>3 DEF u, w
<1>6. Cut(u, w, m)
  BY <1>4, <1>5 DEF Cut
<1>7. u[m] = s[m]
  BY <1>1, <1>2 DEF u
<1> QED
  BY <1>6, <1>7 DEF u, w, Join

LEMMA GrownRight ==
  ASSUME NEW a, NEW s, NEW x, IsSeq(a), IsSeq(s)
  PROVE  Grown(a \o s, a \o Append(s, x), x)
<1> DEFINE t == Append(s, x)
<1>1. Len(a) \in Nat /\ Len(s) \in Nat /\ IsSeq(t) /\ Len(t) = Len(s) + 1
      /\ (\A i \in 1 .. Len(s) : t[i] = s[i]) /\ t[Len(s) + 1] = x
  BY SeqFacts, AppendGrows DEF Grown
<1> HIDE DEF t
<1>2. /\ IsSeq(a \o s) /\ Len(a \o s) = Len(a) + Len(s)
      /\ \A i \in 1 .. Len(a) : (a \o s)[i] = a[i]
      /\ \A i \in 1 .. Len(s) : (a \o s)[Len(a) + i] = s[i]
  BY ConcatFacts
<1>3. /\ IsSeq(a \o t) /\ Len(a \o t) = Len(a) + Len(t)
      /\ \A i \in 1 .. Len(a) : (a \o t)[i] = a[i]
      /\ \A i \in 1 .. Len(t) : (a \o t)[Len(a) + i] = t[i]
  BY <1>1, ConcatFacts
<1> DEFINE u == a \o s
           w == a \o t
<1> HIDE DEF u, w
<1>4. ASSUME NEW i \in 1 .. Len(u) PROVE w[i] = u[i]
  <2>1. CASE i \in 1 .. Len(a)
    BY <1>2, <1>3, <2>1 DEF u, w
  <2>2. CASE i > Len(a)
    <3> DEFINE j == i - Len(a)
    <3>1. j \in 1 .. Len(s) /\ j \in 1 .. Len(t) /\ Len(a) + j = i
      BY <1>1, <1>2, <2>2 DEF u
    <3> HIDE DEF j
    <3> QED
      BY <1>1, <1>2, <1>3, <3>1 DEF u, w
  <2> QED
    BY <1>1, <1>2, <2>1, <2>2 DEF u
<1>5. w[Len(u) + 1] = x
  <2>1. Len(s) + 1 \in 1 .. Len(t) /\ Len(a) + (Len(s) + 1) = Len(u) + 1
    BY <1>1, <1>2 DEF u
  <2> QED
    BY <1>1, <1>3, <2>1 DEF w
<1>6. IsSeq(w) /\ Len(w) = Len(u) + 1
  BY <1>1, <1>2, <1>3 DEF u, w
<1>7. Grown(u, w, x)
  BY <1>4, <1>5, <1>6 DEF Grown
<1> QED
  BY <1>7 DEF u, w, t

(* p is the first of the queues d and a, and dl and al are the rest.       *)
Splits(d, a, p, dl, al) ==
  \/ d # <<>> /\ p = Head(d) /\ dl = Tail(d) /\ al = a
  \/ d = <<>> /\ a # <<>> /\ p = Head(a) /\ dl = d /\ al = Tail(a)

LEMMA EmptyFacts == IsSeq(<<>>) /\ DOMAIN <<>> = {} /\ Len(<<>>) = 0 /\ IsQueue(<<>>)
<1>1. IsSeq(<<>>) /\ DOMAIN <<>> = {} /\ Len(<<>>) = 0
  <2>1. <<>> \in Seq({})
    OBVIOUS
  <2>2. IsSeq(<<>>)
    BY <2>1, IsSeqIn
  <2> QED
    BY <2>2
<1> QED
  BY <1>1 DEF IsQueue

LEMMA FlowEmpty ==
  ASSUME NEW d, NEW a, IsSeq(d), IsSeq(a)
  PROVE  FlowOf(<<>>, d, a) = d \o a
BY ConcatEmpty DEF FlowOf

LEMMA FlowSeq ==
  ASSUME NEW l, NEW d, NEW a, IsSeq(l), IsSeq(d), IsSeq(a)
  PROVE  /\ IsSeq(Reverse(l)) /\ IsSeq(Reverse(l) \o d) /\ IsSeq(FlowOf(l, d, a))
         /\ FlowOf(<<>>, Reverse(l) \o d, a) = FlowOf(l, d, a)
<1>1. IsSeq(Reverse(l))
  BY ReverseFacts
<1>2. IsSeq(Reverse(l) \o d)
  BY <1>1, ConcatFacts
<1>3. IsSeq(FlowOf(l, d, a))
  BY <1>2, ConcatFacts DEF FlowOf
<1>5. FlowOf(<<>>, Reverse(l) \o d, a) = FlowOf(l, d, a)
  BY <1>2, ConcatEmpty DEF FlowOf
<1> QED
  BY <1>1, <1>2, <1>3, <1>5

(* A packet is set aside: it stays where it is.                            *)
LEMMA FlowAside ==
  ASSUME NEW l, NEW d, NEW a, NEW p, NEW dl, NEW al,
         IsQueue(l), IsQueue(d), IsQueue(a), Splits(d, a, p, dl, al)
  PROVE  /\ FlowOf(<<p>> \o l, dl, al) = FlowOf(l, d, a)
         /\ IsQueue(<<p>> \o l) /\ IsQueue(dl) /\ IsQueue(al)
<1> DEFINE r == Reverse(l)
<1>1. IsSeq(l) /\ IsSeq(d) /\ IsSeq(a) /\ IsSeq(r) /\ IsSeq(<<p>>)
  BY ReverseFacts, OneFacts DEF IsQueue
<1>2. Reverse(<<p>> \o l) = r \o <<p>> /\ IsSeq(<<p>> \o l)
  BY <1>1, ReverseCons
<1>3. IsSeq(r \o <<p>>) /\ IsSeq(<<>>)
  BY <1>1, ConcatFacts, OneFacts
<1> HIDE DEF r
<1>4. FlowOf(<<p>> \o l, dl, al) = FlowOf(l, d, a) /\ IsQueue(dl) /\ IsQueue(al) /\ IsPacket(p)
  <2>1. CASE d # <<>> /\ p = Head(d) /\ dl = Tail(d) /\ al = a
    <3>1. <<p>> \o dl = d /\ IsSeq(dl) /\ Cut(d, dl, 1) /\ p = d[1]
      BY <1>1, <2>1, HeadTail, TailCuts
    <3>4. (r \o <<p>>) \o dl = r \o (<<p>> \o dl)
      <4>1. IsSeq(r) /\ IsSeq(<<p>>) /\ IsSeq(dl)
        BY <1>1, <3>1
      <4> QED
        BY <4>1, ConcatAssoc
    <3>2. (r \o <<p>>) \o dl = r \o d
      BY <3>1, <3>4, Zenon
    <3>3. IsQueue(dl) /\ IsPacket(p)
      BY <3>1, QueueCut
    <3> QED
      BY <1>2, <2>1, <3>2, <3>3 DEF FlowOf, r
  <2>2. CASE d = <<>> /\ a # <<>> /\ p = Head(a) /\ dl = d /\ al = Tail(a)
    <3>1. <<p>> \o al = a /\ IsSeq(al) /\ Cut(a, al, 1) /\ p = a[1]
      BY <1>1, <2>2, HeadTail, TailCuts
    <3>5. (r \o <<p>>) \o al = r \o (<<p>> \o al)
      <4>1. IsSeq(r) /\ IsSeq(<<p>>) /\ IsSeq(al)
        BY <1>1, <3>1
      <4> QED
        BY <4>1, ConcatAssoc
    <3>2. (r \o <<p>>) \o al = r \o a
      BY <3>1, <3>5, Zenon
    <3>3. (r \o <<p>>) \o dl = r \o <<p>> /\ r \o d = r
      BY <1>1, <1>3, <2>2, ConcatEmpty
    <3>4. IsQueue(al) /\ IsPacket(p)
      BY <3>1, QueueCut
    <3> QED
      BY <1>2, <2>2, <3>2, <3>3, <3>4 DEF FlowOf, r
  <2> QED
    BY <2>1, <2>2 DEF Splits
<1>5. IsQueue(<<p>> \o l)
  <2> DEFINE h == <<p>>
  <2>1. IsSeq(h) /\ Len(h) = 1 /\ h[1] = p /\ Len(l) \in Nat
    BY <1>1, OneFacts, SeqFacts
  <2> HIDE DEF h
  <2>2. /\ IsSeq(h \o l) /\ Len(h \o l) = Len(h) + Len(l)
        /\ \A i \in 1 .. Len(h) : (h \o l)[i] = h[i]
        /\ \A i \in 1 .. Len(l) : (h \o l)[Len(h) + i] = l[i]
    <3>1. IsSeq(h) /\ IsSeq(l)
      BY <1>1, <2>1
    <3> QED
      BY <3>1, ConcatFacts
  <2>3. DOMAIN (h \o l) = 1 .. Len(h \o l) /\ \A i \in 1 .. Len(l) : IsPacket(l[i])
    BY <1>1, <2>2, SeqFacts DEF IsQueue
  <2>4. ASSUME NEW i \in 1 .. Len(h \o l) PROVE IsPacket((h \o l)[i])
    <3>1. CASE i = 1
      BY <1>4, <2>1, <2>2, <3>1
    <3>2. CASE i # 1
      <4>1. i - 1 \in 1 .. Len(l) /\ Len(h) + (i - 1) = i
        BY <2>1, <2>2, <3>2
      <4> QED
        BY <2>2, <2>3, <4>1
    <3> QED
      BY <3>1, <3>2
  <2>5. IsQueue(h \o l)
    BY <2>2, <2>3, <2>4 DEF IsQueue
  <2> QED
    BY <2>5 DEF h
<1> QED
  BY <1>4, <1>5

LEMMA QueueConcat ==
  ASSUME NEW s, NEW t, IsQueue(s), IsQueue(t)
  PROVE  IsQueue(s \o t) /\ IsQueue(Reverse(s))
<1>1. Len(s) \in Nat /\ Len(t) \in Nat /\ IsSeq(s) /\ IsSeq(t) /\ DOMAIN s = 1 .. Len(s) /\ DOMAIN t = 1 .. Len(t)
  BY SeqFacts DEF IsQueue
<1>2. /\ IsSeq(s \o t) /\ Len(s \o t) = Len(s) + Len(t)
      /\ \A i \in 1 .. Len(s) : (s \o t)[i] = s[i]
      /\ \A i \in 1 .. Len(t) : (s \o t)[Len(s) + i] = t[i]
  BY <1>1, ConcatFacts
<1>3. DOMAIN (s \o t) = 1 .. Len(s) + Len(t)
  BY <1>2, SeqFacts
<1>4. ASSUME NEW i \in 1 .. Len(s) + Len(t) PROVE IsPacket((s \o t)[i])
  <2>1. CASE i \in 1 .. Len(s)
    BY <1>1, <1>2, <2>1 DEF IsQueue
  <2>2. CASE i > Len(s)
    <3>1. i - Len(s) \in 1 .. Len(t) /\ Len(s) + (i - Len(s)) = i
      BY <1>1, <2>2
    <3> QED
      BY <1>1, <1>2, <3>1 DEF IsQueue
  <2> QED
    BY <1>1, <2>1, <2>2
<1>5. IsQueue(s \o t)
  BY <1>2, <1>3, <1>4 DEF IsQueue
<1>6. IsSeq(Reverse(s)) /\ Len(Reverse(s)) = Len(s) /\ \A i \in 1 .. Len(s) : Reverse(s)[i] = s[(Len(s) - i) + 1]
  BY <1>1, ReverseFacts
<1>7. DOMAIN Reverse(s) = 1 .. Len(s)
  BY <1>6, SeqFacts
<1>8. \A i \in 1 .. Len(s) : (Len(s) - i) + 1 \in 1 .. Len(s)
  BY <1>1
<1>9. IsQueue(Reverse(s))
  BY <1>1, <1>6, <1>7, <1>8 DEF IsQueue
<1> QED
  BY <1>5, <1>9

(* The reply is taken, and what was set aside is put back.                 *)
LEMMA FlowReply ==
  ASSUME NEW l, NEW d, NEW a, NEW p, NEW dl, NEW al,
         IsQueue(l), IsQueue(d), IsQueue(a), Splits(d, a, p, dl, al)
  PROVE  /\ Cut(FlowOf(l, d, a), FlowOf(<<>>, Reverse(l) \o dl, al), Len(l) + 1)
         /\ FlowOf(l, d, a)[Len(l) + 1] = p
         /\ IsQueue(Reverse(l) \o dl) /\ IsQueue(al) /\ IsQueue(<<>>)
<1> DEFINE r == Reverse(l)
<1>1. IsSeq(l) /\ IsSeq(d) /\ IsSeq(a) /\ IsSeq(r) /\ Len(r) = Len(l)
  BY ReverseFacts DEF IsQueue
<1>2. IsQueue(r) /\ IsQueue(<<>>)
  <2>1. IsQueue(r)
    BY QueueConcat
  <2> QED
    BY <2>1, EmptyFacts
<1> HIDE DEF r
<1>3. /\ Cut(Join(Join(r, d), a), Join(Join(r, dl), al), Len(l) + 1)
      /\ Join(Join(r, d), a)[Len(l) + 1] = p /\ IsQueue(dl) /\ IsQueue(al)
  <2>1. CASE d # <<>> /\ p = Head(d) /\ dl = Tail(d) /\ al = a
    <3>1. Cut(d, dl, 1) /\ p = d[1]
      BY <1>1, <2>1, TailCuts
    <3>2. Cut(Join(r, d), Join(r, dl), Len(r) + 1) /\ Join(r, d)[Len(r) + 1] = d[1]
      <4> DEFINE o == 1
                 k == Len(r) + o
      <4>1. IsSeq(r) /\ IsSeq(d) /\ Cut(d, dl, o) /\ k = Len(r) + o
        BY <1>1, <3>1
      <4> HIDE DEF o, k
      <4>2. Cut(Join(r, d), Join(r, dl), k) /\ Join(r, d)[k] = d[o]
        BY <4>1, CutRight
      <4> QED
        BY <4>2 DEF o, k
    <3>3. IsSeq(Join(r, d))
      BY <1>1, ConcatFacts DEF Join
    <3>4. /\ Cut(Join(Join(r, d), a), Join(Join(r, dl), a), Len(r) + 1)
          /\ Join(Join(r, d), a)[Len(r) + 1] = Join(r, d)[Len(r) + 1]
      BY <1>1, <3>2, <3>3, CutLeft
    <3>5. IsQueue(dl)
      BY <3>1, QueueCut
    <3> QED
      BY <1>1, <2>1, <3>1, <3>2, <3>4, <3>5
  <2>2. CASE d = <<>> /\ a # <<>> /\ p = Head(a) /\ dl = d /\ al = Tail(a)
    <3>1. Cut(a, al, 1) /\ p = a[1]
      BY <1>1, <2>2, TailCuts
    <3>2. Join(r, d) = r /\ Join(r, dl) = r
      BY <1>1, <2>2, ConcatEmpty DEF Join
    <3>3. Cut(Join(r, a), Join(r, al), Len(r) + 1) /\ Join(r, a)[Len(r) + 1] = a[1]
      <4> DEFINE o == 1
                 k == Len(r) + o
      <4>1. IsSeq(r) /\ IsSeq(a) /\ Cut(a, al, o) /\ k = Len(r) + o
        BY <1>1, <3>1
      <4> HIDE DEF o, k
      <4>2. Cut(Join(r, a), Join(r, al), k) /\ Join(r, a)[k] = a[o]
        BY <4>1, CutRight
      <4> QED
        BY <4>2 DEF o, k
    <3>4. IsQueue(al)
      BY <3>1, QueueCut
    <3> QED
      BY <1>1, <2>2, <3>1, <3>2, <3>3, <3>4
  <2> QED
    BY <2>1, <2>2 DEF Splits
<1>4. IsQueue(r \o dl)
  BY <1>2, <1>3, QueueConcat
<1>5. FlowOf(<<>>, r \o dl, al) = Join(Join(r, dl), al)
  <2>1. IsSeq(r \o dl) /\ IsSeq(al)
    BY <1>2, <1>3, <1>4 DEF IsQueue
  <2> QED
    BY <2>1, FlowEmpty DEF Join
<1>6. FlowOf(l, d, a) = Join(Join(r, d), a)
  BY DEF FlowOf, r, Join
<1> QED
  BY <1>2, <1>3, <1>4, <1>5, <1>6 DEF r

(* The loop takes the first.                                               *)
LEMMA FlowFirst ==
  ASSUME NEW d, NEW a, NEW p, NEW dl, NEW al, IsQueue(d), IsQueue(a), Splits(d, a, p, dl, al)
  PROVE  /\ Cut(FlowOf(<<>>, d, a), FlowOf(<<>>, dl, al), 1)
         /\ FlowOf(<<>>, d, a)[1] = p
         /\ IsQueue(dl) /\ IsQueue(al)
<1>1. IsQueue(<<>>) /\ Len(<<>>) + 1 = 1
  <2>1. IsQueue(<<>>) /\ Len(<<>>) = 0
    BY EmptyFacts
  <2>2. Len(<<>>) + 1 = 1
    OBVIOUS
  <2> QED
    BY <2>1, <2>2
<1>2. IsQueue(dl) /\ IsQueue(al)
  BY <1>1, FlowAside
<1>3. Reverse(<<>>) \o dl = dl
  BY <1>2, ConcatEmpty DEF IsQueue
<1>4. /\ Cut(FlowOf(<<>>, d, a), FlowOf(<<>>, Reverse(<<>>) \o dl, al), Len(<<>>) + 1)
      /\ FlowOf(<<>>, d, a)[Len(<<>>) + 1] = p
  BY <1>1, FlowReply, Zenon
<1> QED
  BY <1>1, <1>2, <1>3, <1>4, Zenon

(* The application sends one more.                                         *)
LEMMA FlowMore ==
  ASSUME NEW l, NEW d, NEW a, NEW x, IsQueue(l), IsQueue(d), IsQueue(a), IsPacket(x)
  PROVE  Grown(FlowOf(l, d, a), FlowOf(l, d, Append(a, x)), x) /\ IsQueue(Append(a, x))
<1>1. IsSeq(l) /\ IsSeq(d) /\ IsSeq(a)
  BY DEF IsQueue
<1>2. IsSeq(Reverse(l) \o d)
  BY <1>1, FlowSeq
<1>3. IsQueue(Append(a, x))
  BY <1>1, AppendGrows, QueueGrows
<1> QED
  BY <1>1, <1>2, <1>3, GrownRight DEF FlowOf

(* The heap dump is taken from the deferred packets.                       *)
LEMMA FlowRemoved ==
  ASSUME NEW d, NEW a, NEW m, IsQueue(d), IsQueue(a), m \in 1 .. Len(d)
  PROVE  /\ Cut(FlowOf(<<>>, d, a), FlowOf(<<>>, RemoveAt(d, m), a), m)
         /\ FlowOf(<<>>, d, a)[m] = d[m] /\ IsQueue(RemoveAt(d, m))
<1>1. IsSeq(d) /\ IsSeq(a)
  BY DEF IsQueue
<1>2. Cut(d, RemoveAt(d, m), m)
  BY <1>1, RemoveAtCuts
<1> DEFINE e == RemoveAt(d, m)
<1> HIDE DEF e
<1>3. Cut(d, e, m)
  BY <1>2 DEF e
<1>4. IsQueue(e) /\ IsSeq(e)
  BY <1>3, QueueCut DEF IsQueue
<1>5. Cut(Join(d, a), Join(e, a), m) /\ Join(d, a)[m] = d[m]
  BY <1>1, <1>3, CutLeft
<1>6. FlowOf(<<>>, d, a) = Join(d, a) /\ FlowOf(<<>>, e, a) = Join(e, a)
  BY <1>1, <1>4, FlowEmpty DEF Join
<1> QED
  BY <1>4, <1>5, <1>6 DEF e

----------------------------------------------------------------------------
(* Packets and the view.                                                   *)

LEMMA PacketFacts ==
  /\ IsPacket(Packet) /\ Packet.kind = "cmd" /\ Packet.of = 0 /\ Packet.n = 0 /\ Packet.id = 0
  /\ DOMAIN NoJob = {"p", "from", "i"} /\ NoJob.p = Packet /\ NoJob.from = "none"
  /\ DOMAIN NoRf = {"on", "sig", "ids"} /\ ~NoRf.on
BY DEF IsPacket, Packet, Fields, NoJob, NoRf

LEMMA ViewFacts ==
  /\ View.dq = dq /\ View.toapp = toapp /\ View.flow = Flow /\ View.dlog = dlog /\ View.pend = pend
  /\ View.from = job.from /\ View.ids = Len(asked) /\ View.n = count.n /\ View.rewrite = mode.rewrite
  /\ job = NoJob => View.job = <<>>
  /\ job # NoJob => View.job = <<job.p>>
BY DEF View

LEMMA ViewFactsP ==
  /\ View'.dq = dq' /\ View'.toapp = toapp' /\ View'.flow = Flow' /\ View'.dlog = dlog' /\ View'.pend = pend'
  /\ View'.from = job'.from /\ View'.ids = Len(asked') /\ View'.n = count'.n /\ View'.rewrite = mode'.rewrite
  /\ job' = NoJob => View'.job = <<>>
  /\ job' # NoJob => View'.job = <<job'.p>>
BY DEF View, NoJob, Packet

LEMMA GoodSends ==
  ASSUME NEW v, NEW w, NEW x, Good(v), Kept(v, w, {"toapp"}), Grown(v.toapp, w.toapp, x),
         w.pend = v.pend, w.from = v.from, w.n = v.n, IsPacket(x), InToapp(w, x), Absent(v, x.of)
  PROVE  Good(w)
<1>1. "toapp" \in Queues /\ w.job = v.job /\ w.flow = v.flow /\ w.dlog = v.dlog
  BY DEF Kept, Queues
<1>2. InQueue(w, "toapp", x) /\ Opens(v, w, "toapp") /\ ~Waits(w, "toapp")
  BY DEF InQueue, Opens, Waits
<1>3. Sound(w)
  BY <1>1, <1>2, SoundGrows DEF Good
<1>4. Order(w)
  BY <1>1, OrderKept DEF Good
<1> QED
  BY <1>3, <1>4 DEF Good

LEMMA GoodTakes ==
  ASSUME NEW v, NEW w, NEW m, Good(v), Kept(v, w, {"flow"}), Cut(v.flow, w.flow, m),
         w.pend = v.pend, w.from = v.from, w.n = v.n, v.flow[m].n = 0
  PROVE  Good(w)
<1>1. "flow" \in Queues /\ w.job = v.job /\ w.dlog = v.dlog
  BY DEF Kept, Queues
<1>2. Sound(w)
  BY <1>1, SoundCut DEF Good
<1>3. Order(w)
  BY <1>1, OrderFlowCut DEF Good
<1> QED
  BY <1>2, <1>3 DEF Good

LEMMA FromAppSplits ==
  ASSUME NEW p \in FromApp
  PROVE  Splits(defer, aq, p, DeferLeft, AqLeft)
BY DEF FromApp, Splits, DeferLeft, AqLeft

(* The flow without the reply, and with what was set aside put back.       *)
FlowLeft == FlowOf(<<>>, Reverse(ldef) \o DeferLeft, AqLeft)

(* A reply that ends a transaction is to the proxy's own command.          *)
LEMMA RepliedLeft ==
  ASSUME ProxyInv, pc \in Waiting, NEW p \in FromApp, IsReply(p)
  PROVE  /\ Cut(Flow, FlowLeft, Len(ldef) + 1) /\ Flow[Len(ldef) + 1] = p
         /\ IsQueue(Reverse(ldef) \o DeferLeft) /\ IsQueue(AqLeft)
         /\ p.of = 0 /\ p.n = 0 /\ p.kind = "reply" /\ Quiet([View EXCEPT !.flow = FlowLeft])
<1>1. p.kind = "reply" /\ p.id = tx
  BY DEF IsReply
<1>2. IsQueue(ldef) /\ IsQueue(defer) /\ IsQueue(aq)
  BY DEF ProxyInv, Control, Static
<1>4. /\ Cut(FlowOf(ldef, defer, aq), FlowOf(<<>>, Reverse(ldef) \o DeferLeft, AqLeft), Len(ldef) + 1)
      /\ FlowOf(ldef, defer, aq)[Len(ldef) + 1] = p
      /\ IsQueue(Reverse(ldef) \o DeferLeft) /\ IsQueue(AqLeft)
  BY <1>1, <1>2, FromAppSplits, FlowReply
<1>5. Cut(Flow, FlowLeft, Len(ldef) + 1) /\ Flow[Len(ldef) + 1] = p
  BY <1>4 DEF Flow, FlowLeft
<1> DEFINE m == Len(ldef) + 1
<1> HIDE DEF m
<1>6. View.flow = Flow /\ Cut(View.flow, FlowLeft, m) /\ View.flow[m] = p
  BY <1>5, ViewFacts DEF m
<1>7. IsSeq(View.flow) /\ Sound(View)
  BY SoundFacts DEF ProxyInv, Good
<1>8. m \in DOMAIN View.flow
  BY <1>6, <1>7, CutFrom
<1>9. InFlow(View, p)
  BY <1>6, <1>7, <1>8 DEF Sound, Sorts, InQueue, Queues
<1>10. Single(View, tx) /\ tx \notin DOMAIN pend
  BY ViewFacts DEF ProxyInv, Control, Talk, Single
<1>11. p.of = 0
  <2> SUFFICES ASSUME p.of # 0 PROVE FALSE
    OBVIOUS
  <2>1. Known(View, p.of) /\ Carried(View, p)
    BY <1>9 DEF InFlow
  <2>2. ~mode.rewrite
    BY <1>1, <1>10, <2>1, ViewFacts DEF Carried
  <2>3. job = NoJob /\ Running /\ pc # "top"
    BY <2>2 DEF ProxyInv, Control, Where, Waiting, Running
  <2>4. asked = <<>>
    BY <2>3 DEF ProxyInv, Control, Where
  <2>5. View.ids = 0
    BY <2>4, ViewFacts
  <2> QED
    BY <2>1, <2>5, JdwpAssumption DEF Known
<1>12. p.n = 0
  BY <1>1, <1>9, <1>11 DEF InFlow
<1> DEFINE u == [View EXCEPT !.flow = FlowLeft]
<1>13. u.flow = FlowLeft /\ u.toapp = View.toapp
  BY DEF View
<1> HIDE DEF u
<1>14. Quiet(u)
  <2>1. OwnReply(View, m)
    BY <1>1, <1>6, <1>11 DEF OwnReply
  <2>2. Cut(View.flow, u.flow, m)
    BY <1>6, <1>13
  <2> QED
    BY <1>7, <1>10, <1>13, <2>1, <2>2, FlowCut
<1> QED
  BY <1>1, <1>4, <1>5, <1>11, <1>12, <1>14 DEF u

LEMMA Replied ==
  ASSUME ProxyInv, pc \in Waiting, NEW p, Reply(p)
  PROVE  /\ Cut(Flow, Flow', Len(ldef) + 1) /\ Flow[Len(ldef) + 1] = p
         /\ IsQueue(defer') /\ IsQueue(ldef') /\ IsQueue(aq') /\ ldef' = <<>>
         /\ p.of = 0 /\ p.n = 0 /\ p.kind = "reply" /\ Quiet([View EXCEPT !.flow = Flow'])
<1>1. p \in FromApp /\ IsReply(p)
  BY DEF Reply
<1>2. ldef' = <<>> /\ defer' = Reverse(ldef) \o DeferLeft /\ aq' = AqLeft
  BY DEF Reply, Deferred
<1>3. Flow' = FlowLeft
  BY <1>2 DEF Flow, FlowLeft
<1> QED
  BY <1>1, <1>2, <1>3, RepliedLeft, EmptyFacts

----------------------------------------------------------------------------
(* The proxy talks with the application: it takes the reply it waits for,  *)
(* or waits for none; then it sends a command and waits, or does not wait. *)

Took ==
  \/ pc \in Waiting /\ \E p \in FromApp : Reply(p)
  \/ pc \notin Waiting /\ UNCHANGED queueVars

Spoke ==
  \/ \E s \in Nat, op \in Waiting : \E refs, arg : TransactFrom(s, op, refs, arg)
  \/ pc' \notin Waiting /\ UNCHANGED txVars

LEMMA Spoken ==
  ASSUME ProxyInv, NEW s \in Nat, NEW op, NEW refs, NEW arg, TransactFrom(s, op, refs, arg)
  PROVE  /\ \E x : /\ IsPacket(x) /\ x.kind = "cmd" /\ x.of = 0 /\ x.id = tx'
                   /\ toapp' = Append(toapp, x)
         /\ tx' \notin DOMAIN pend /\ seqnum' \in Nat /\ pc' = op
<1> DEFINE id == make_jdwp_id(s)
           x == [Packet EXCEPT !.op = op, !.id = id, !.refs = refs, !.arg = arg]
<1>1. Typed(View) /\ Pends(View)
  BY DEF ProxyInv, Good, Sound
<1>2. id \in 0 .. IdMod - 1 /\ id \notin DOMAIN pend
  BY <1>1, FreshId
<1>3. IdMod \in Nat \ {0}
  BY JdwpAssumption
<1>4. tx' = id /\ seqnum' = (id + 1) % IdMod /\ toapp' = Append(toapp, x) /\ pc' = op
  BY DEF TransactFrom
<1> HIDE DEF id
<1>5. id \in Nat /\ id + 1 \in Int
  BY <1>2, <1>3
<1>6. (id + 1) % IdMod \in 0 .. IdMod - 1
  BY <1>3, <1>5, ModFacts
<1>7. seqnum' \in Nat
  BY <1>3, <1>4, <1>6
<1>8. IsPacket(x) /\ x.kind = "cmd" /\ x.of = 0 /\ x.id = id
  BY <1>5 DEF IsPacket, Packet, Fields
<1> HIDE DEF x
<1> QED
  BY <1>2, <1>4, <1>7, <1>8

LEMMA Talks ==
  ASSUME ProxyInv, Running, pc # "top", Took, Spoke,
         UNCHANGED <<mode, pend, dlog, dq, asked, count, polled, job>>
  PROVE  /\ Good(View') /\ Talk'
         /\ IsQueue(defer') /\ IsQueue(ldef') /\ IsQueue(aq') /\ seqnum' \in Nat
<1> DEFINE u == [View EXCEPT !.flow = Flow']
           w == View'
<1>1. /\ Kept(View, u, {"flow"}) /\ u.flow = Flow' /\ u.pend = pend /\ u.pend = View.pend
      /\ u.from = View.from /\ u.n = View.n /\ u.toapp = toapp
  BY DEF View, Kept, Queues
<1>2. /\ Kept(u, w, {"toapp"}) /\ w.toapp = toapp' /\ w.pend = u.pend
      /\ w.from = u.from /\ w.n = u.n /\ w.flow = u.flow
  BY DEF View, Kept, Queues
<1>3. Good(View) /\ View.flow = Flow /\ IsSeq(toapp)
  BY ViewFacts, SoundFacts DEF ProxyInv, Good
<1>4. /\ IsQueue(defer') /\ IsQueue(ldef') /\ IsQueue(aq') /\ ldef' = <<>>
      /\ Good(u) /\ Quiet(u)
  <2>1. CASE pc \in Waiting /\ \E p \in FromApp : Reply(p)
    <3>1. PICK p : Reply(p)
      BY <2>1
    <3> DEFINE m == Len(ldef) + 1
    <3>2. /\ Cut(Flow, Flow', m) /\ Flow[m] = p
          /\ IsQueue(defer') /\ IsQueue(ldef') /\ IsQueue(aq') /\ ldef' = <<>>
          /\ p.n = 0 /\ Quiet(u)
      BY <2>1, <3>1, Replied
    <3> HIDE DEF m, u
    <3>3. Good(u)
      BY <1>1, <1>3, <3>2, GoodTakes
    <3> QED
      BY <3>2, <3>3
  <2>2. CASE pc \notin Waiting /\ UNCHANGED queueVars
    <3>1. UNCHANGED <<defer, ldef, aq>> /\ ldef = <<>> /\ Quiet(View)
      BY <2>2 DEF queueVars, ProxyInv, Control, Talk
    <3>2. IsQueue(defer) /\ IsQueue(ldef) /\ IsQueue(aq)
      BY DEF ProxyInv, Control, Static
    <3>3. u = View
      BY <3>1 DEF View, Flow
    <3> QED
      BY <1>3, <3>1, <3>2, <3>3
  <2> QED
    BY <2>1, <2>2 DEF Took
<1> HIDE DEF u, w
<1>5. IsSeq(u.toapp)
  BY <1>4, SoundFacts DEF Good
<1>6. \/ Good(w) /\ pc' \in Waiting /\ Single(w, tx') /\ seqnum' \in Nat
      \/ Good(w) /\ pc' \notin Waiting /\ Quiet(w) /\ seqnum' \in Nat
  <2>1. ASSUME NEW s \in Nat, NEW op \in Waiting, NEW refs, NEW arg, TransactFrom(s, op, refs, arg)
        PROVE  Good(w) /\ pc' \in Waiting /\ Single(w, tx') /\ seqnum' \in Nat
    <3>1. tx' \notin DOMAIN pend /\ seqnum' \in Nat /\ pc' = op
      BY <2>1, Spoken
    <3>2. PICK x : IsPacket(x) /\ x.kind = "cmd" /\ x.of = 0 /\ x.id = tx' /\ toapp' = Append(toapp, x)
      BY <2>1, Spoken
    <3>3. Grown(u.toapp, w.toapp, x)
      BY <1>1, <1>2, <1>3, <3>2, AppendGrows
    <3>4. InToapp(w, x) /\ Absent(u, x.of)
      BY <3>2 DEF InToapp, Absent
    <3>5. Good(w)
      BY <1>2, <1>4, <3>2, <3>3, <3>4, GoodSends
    <3>6. Single(w, x.id)
      BY <1>1, <1>2, <1>4, <1>5, <3>1, <3>2, <3>3, QuietSends
    <3> QED
      BY <3>1, <3>2, <3>5, <3>6
  <2>2. CASE pc' \notin Waiting /\ UNCHANGED txVars
    <3>1. toapp' = toapp /\ seqnum' \in Nat
      BY <2>2 DEF txVars, ProxyInv, Control, Static
    <3>2. w = u
      BY <3>1 DEF w, u, View
    <3> QED
      BY <1>4, <2>2, <3>1, <3>2
  <2> QED
    BY <2>1, <2>2 DEF Spoke
<1>7. Talk'
  <2>1. "app" \notin polled'
    BY DEF ProxyInv, Control, Talk
  <2> QED
    BY <1>4, <1>6, <2>1 DEF Talk, w
<1> QED
  BY <1>4, <1>6, <1>7 DEF w

----------------------------------------------------------------------------
(* The steps that only talk: first those of the start, which has nothing   *)
(* to translate, then those of a task.                                     *)

TaskPcs == {"CLASSESBYSIGNATURE", "CLASSLOADER", "DISABLECOLLECTION", "DISPOSE_LOADER", "SIGNATURE",
            "MODIFIERS", "DISPOSE", "cached", "refreshed", "translate"}

RfKept == DOMAIN rf' = {"on", "sig", "ids"} /\ (rf'.on \/ rf' = rf)

LEMMA StartStep ==
  ASSUME ProxyInv, Running, pc # "top", job = NoJob, Took, Spoke,
         UNCHANGED <<mode, pend, dlog, dq, asked, count, polled, job>>,
         rf' = NoRf \/ RfKept,
         pc' \in StartPcs \cup {"died"} \/ (pc' = "CLASSESBYSIGNATURE" /\ rf'.on)
  PROVE  ProxyInv'
<1>1. /\ Good(View') /\ Talk'
      /\ IsQueue(defer') /\ IsQueue(ldef') /\ IsQueue(aq') /\ seqnum' \in Nat
  BY Talks
<1>2. DOMAIN rf' = {"on", "sig", "ids"} /\ (rf'.on \/ rf' = NoRf)
  BY PacketFacts DEF ProxyInv, Control, Static, RfKept
<1>3. Static'
  <2>1. /\ IsSeq(asked') /\ IsCount(count') /\ mode'.rewrite \in BOOLEAN
        /\ DOMAIN job' = {"p", "from", "i"} /\ IsPacket(job'.p) /\ (job' = NoJob \/ job'.from \in Sides)
    BY DEF ProxyInv, Control, Static
  <2> QED
    BY <1>1, <1>2, <2>1 DEF Static, NoRf, NoJob, Packet
<1>4. Where'
  <2>1. job' = NoJob /\ dlog = <<>> /\ dlog' = <<>> /\ asked' = <<>>
    BY DEF ProxyInv, Control, Where
  <2>2. pc' # "translate" /\ (pc' = "CLASSESBYSIGNATURE" => rf'.on)
    BY DEF StartPcs
  <2>3. Running' => pc' \in StartPcs \/ rf'.on
    BY DEF Running
  <2> QED
    BY <2>1, <2>2, <2>3 DEF Where, NoJob, Packet
<1> QED
  BY <1>1, <1>3, <1>4 DEF ProxyInv, Control

LEMMA TaskStep ==
  ASSUME ProxyInv, pc \in TaskPcs, Took, Spoke,
         UNCHANGED <<mode, pend, dlog, dq, asked, count, polled, job>>, RfKept,
         pc' \in (TaskPcs \ {"translate"}) \cup {"died", "crash"}, pc' = "CLASSESBYSIGNATURE" => rf'.on
  PROVE  ProxyInv'
<1>0. Running /\ pc # "top" /\ pc \notin StartPcs
  BY DEF Running, TaskPcs, StartPcs
<1>1. /\ Good(View') /\ Talk'
      /\ IsQueue(defer') /\ IsQueue(ldef') /\ IsQueue(aq') /\ seqnum' \in Nat
  BY <1>0, Talks
<1>2. DOMAIN rf' = {"on", "sig", "ids"} /\ (rf'.on \/ rf' = NoRf)
  BY PacketFacts DEF ProxyInv, Control, Static, RfKept
<1>3. Static'
  <2>1. /\ IsSeq(asked') /\ IsCount(count') /\ mode'.rewrite \in BOOLEAN
        /\ DOMAIN job' = {"p", "from", "i"} /\ IsPacket(job'.p) /\ (job' = NoJob \/ job'.from \in Sides)
    BY DEF ProxyInv, Control, Static
  <2> QED
    BY <1>1, <1>2, <2>1 DEF Static, NoRf, NoJob, Packet
<1>4. Where'
  <2>1. job = NoJob => dlog = <<>> /\ rf.on
    BY <1>0 DEF ProxyInv, Control, Where
  <2>2. job = NoJob => dlog' = <<>> /\ rf'.on
    BY <2>1 DEF RfKept
  <2>3. pc' \notin StartPcs \cup {"top"} /\ pc' # "translate"
    BY DEF TaskPcs, StartPcs
  <2>4. (~mode.rewrite => job = NoJob) /\ (dlog = <<>> => asked = <<>>)
    BY DEF ProxyInv, Control, Where
  <2>5. (~mode'.rewrite => job' = NoJob) /\ (dlog' = <<>> => asked' = <<>>)
    BY <2>4
  <2>6. Running' /\ pc' # "top" /\ job' = NoJob => dlog' = <<>> /\ (pc' \in StartPcs \/ rf'.on)
    BY <2>2
  <2> QED
    BY <2>3, <2>5, <2>6 DEF Where, NoJob, Packet
<1> QED
  BY <1>1, <1>3, <1>4 DEF ProxyInv, Control

LEMMA SpokeTransact ==
  ASSUME ProxyInv
  PROVE  /\ \A op \in Waiting : \A refs, arg : Transact(op, refs, arg) => Spoke
         /\ \A op, refs, arg : Transact(op, refs, arg) => pc' = op
<1>1. seqnum \in Nat
  BY DEF ProxyInv, Control, Static
<1> QED
  BY <1>1 DEF Spoke, Transact, TransactFrom

LEMMA TookReply ==
  ASSUME NEW op \in Waiting, \E p \in FromApp : Ended(op, p)
  PROVE  pc = op /\ Took
BY DEF Took, Ended

(* What the helpers send.                                                  *)
LEMMA InsertSpoke ==
  ASSUME ProxyInv, NEW c, NEW id, Insert(c, id)
  PROVE  Spoke /\ pc' = "CLASSLOADER"
<1>1. "CLASSLOADER" \in Waiting /\ Transact("CLASSLOADER", <<id>>, <<>>)
  BY DEF Insert, fetch_classloader_for_reftype, Waiting
<1> QED
  BY <1>1, SpokeTransact

LEMMA DisposeSpoke ==
  ASSUME ProxyInv, NEW c, TransactDispose(c)
  PROVE  Spoke /\ pc' = "DISPOSE"
<1>1. "DISPOSE" \in Waiting
  BY DEF Waiting
<1>2. \E refs, arg : Transact("DISPOSE", refs, arg)
  BY Zenon DEF TransactDispose
<1> QED
  BY <1>1, <1>2, SpokeTransact

LEMMA CacheSpoke ==
  ASSUME ProxyInv, NEW id, Cache(id)
  PROVE  Spoke /\ pc' \in {"crash", "cached", "DISPOSE", "CLASSLOADER"}
<1>1. CASE find_real_reftype_by_real_id(id)
  <2>1. pc' \in {"crash", "cached"} /\ UNCHANGED txVars
    BY <1>1 DEF Cache
  <2>2. pc' \notin Waiting
    BY <2>1 DEF Waiting
  <2> QED
    BY <2>1, <2>2 DEF Spoke
<1>2. CASE ~find_real_reftype_by_real_id(id)
  <2>1. TransactDispose(cache) \/ Insert(cache, id)
    BY <1>2 DEF Cache
  <2> QED
    BY <2>1, InsertSpoke, DisposeSpoke
<1> QED
  BY <1>1, <1>2

LEMMA AssignEnds ==
  ASSUME NEW cl, NEW s, Assign(cl, s)
  PROVE  pc' \in {"crash", "cached"} /\ pc' \notin Waiting
<1>1. pc' \in {"crash", "cached"}
  BY Zenon DEF Assign
<1> QED
  BY <1>1 DEF Waiting

LEMMA IdentifySpoke ==
  ASSUME ProxyInv, NEW cl, NEW s, Identify(cl, s)
  PROVE  Spoke /\ pc' \in {"crash", "cached", "MODIFIERS"}
<1>1. CASE Transact("MODIFIERS", <<ca.id>>, <<>>)
  <2>1. "MODIFIERS" \in Waiting
    BY DEF Waiting
  <2> QED
    BY <1>1, <2>1, SpokeTransact
<1>2. CASE Assign(cl, s) /\ UNCHANGED txVars
  BY <1>2, AssignEnds DEF Spoke
<1> QED
  BY <1>1, <1>2 DEF Identify, fetch_is_interface_for_reftype

LEMMA FindSignatureSpoke ==
  ASSUME ProxyInv, NEW cl, FindSignature(cl)
  PROVE  Spoke /\ pc' \in {"crash", "cached", "MODIFIERS", "SIGNATURE"}
<1>1. CASE Transact("SIGNATURE", <<ca.id>>, <<>>)
  <2>1. "SIGNATURE" \in Waiting
    BY DEF Waiting
  <2> QED
    BY <1>1, <2>1, SpokeTransact
<1>2. CASE Identify(cl, rf.sig)
  BY <1>2, IdentifySpoke
<1> QED
  BY <1>1, <1>2 DEF FindSignature, fetch_signature_for_reftype

LEMMA LoaderCommandSpoke ==
  ASSUME ProxyInv, NEW cl, LoaderCommand(cl)
  PROVE  Spoke /\ pc' \in {"DISABLECOLLECTION", "DISPOSE_LOADER"}
<1>1. "DISABLECOLLECTION" \in Waiting /\ "DISPOSE_LOADER" \in Waiting
  BY DEF Waiting
<1>2. Transact("DISABLECOLLECTION", <<>>, cl) \/ Transact("DISPOSE_LOADER", <<>>, cl)
  BY DEF LoaderCommand, dispose_object_id, disable_gc_for_object
<1> QED
  BY <1>1, <1>2, SpokeTransact

LEMMA RefreshSpoke ==
  ASSUME ProxyInv, NEW s, Refresh(s)
  PROVE  Spoke /\ pc' = "CLASSESBYSIGNATURE" /\ DOMAIN rf' = {"on", "sig", "ids"} /\ rf'.on
<1>1. "CLASSESBYSIGNATURE" \in Waiting /\ Transact("CLASSESBYSIGNATURE", <<>>, s)
  BY DEF Refresh, Waiting
<1>2. rf' = [NoRf EXCEPT !.on = TRUE, !.sig = s]
  BY DEF Refresh
<1>3. DOMAIN rf' = {"on", "sig", "ids"} /\ rf'.on
  BY <1>2 DEF NoRf
<1> QED
  BY <1>1, <1>3, SpokeTransact

LEMMA RfSame ==
  ASSUME ProxyInv, rf' = rf
  PROVE  RfKept
BY DEF RfKept, ProxyInv, Control, Static

----------------------------------------------------------------------------
(* The steps of a task.                                                    *)

LEMMA EndDisposeStep ==
  ASSUME ProxyInv, EndDispose
  PROVE  ProxyInv'
<1>1. pc = "DISPOSE" /\ Took
  <2>1. "DISPOSE" \in Waiting /\ \E p \in FromApp : Ended("DISPOSE", p)
    BY DEF EndDispose, Waiting
  <2> QED
    BY <2>1, TookReply
<1>2. UNCHANGED <<mode, pend, dlog, dq, asked, count, polled, job>> /\ rf' = rf
  BY DEF EndDispose, taskVars, debuggerVars, appVars
<1>3. Spoke /\ pc' \in {"crash", "DISPOSE", "CLASSLOADER"}
  <2>1. \/ pc' = "crash" /\ UNCHANGED txVars
        \/ TransactDispose(Without(cache, Victims(cache)))
        \/ Insert(Without(cache, Victims(cache)), ca.id)
    BY Zenon DEF EndDispose
  <2>2. "crash" \notin Waiting
    BY DEF Waiting
  <2> QED
    BY <2>1, <2>2, InsertSpoke, DisposeSpoke DEF Spoke
<1>4. pc \in TaskPcs /\ pc' \in (TaskPcs \ {"translate"}) \cup {"died", "crash"} /\ pc' # "CLASSESBYSIGNATURE"
  BY <1>1, <1>3 DEF TaskPcs
<1> QED
  BY <1>1, <1>2, <1>3, <1>4, RfSame, TaskStep

LEMMA EndClassloaderStep ==
  ASSUME ProxyInv, EndClassloader
  PROVE  ProxyInv'
<1>1. pc = "CLASSLOADER" /\ Took
  <2>1. "CLASSLOADER" \in Waiting /\ \E p \in FromApp : Ended("CLASSLOADER", p)
    BY DEF EndClassloader, Waiting
  <2> QED
    BY <2>1, TookReply
<1>2. UNCHANGED <<mode, pend, dlog, dq, asked, count, polled, job>> /\ rf' = rf
  BY DEF EndClassloader, debuggerVars, appVars
<1>3. Spoke /\ pc' \in {"crash", "cached", "MODIFIERS", "SIGNATURE", "DISABLECOLLECTION", "DISPOSE_LOADER"}
  <2>1. FindSignature(0) \/ \E cl : LoaderCommand(cl)
    BY Zenon DEF EndClassloader
  <2> QED
    BY <2>1, FindSignatureSpoke, LoaderCommandSpoke
<1>4. pc \in TaskPcs /\ pc' \in (TaskPcs \ {"translate"}) \cup {"died", "crash"} /\ pc' # "CLASSESBYSIGNATURE"
  BY <1>1, <1>3 DEF TaskPcs
<1> QED
  BY <1>1, <1>2, <1>3, <1>4, RfSame, TaskStep

LEMMA EndLoaderCommandStep ==
  ASSUME ProxyInv, EndLoaderCommand
  PROVE  ProxyInv'
<1>1. pc \in {"DISABLECOLLECTION", "DISPOSE_LOADER"} /\ Took
  <2>1. \/ \E p \in FromApp : Ended("DISABLECOLLECTION", p)
        \/ \E p \in FromApp : Ended("DISPOSE_LOADER", p)
    BY DEF EndLoaderCommand
  <2>2. "DISABLECOLLECTION" \in Waiting /\ "DISPOSE_LOADER" \in Waiting
    BY DEF Waiting
  <2> QED
    BY <2>1, <2>2, TookReply
<1>2. UNCHANGED <<mode, pend, dlog, dq, asked, count, polled, job>> /\ rf' = rf
  BY DEF EndLoaderCommand, debuggerVars, appVars
<1>3. Spoke /\ pc' \in {"crash", "cached", "MODIFIERS", "SIGNATURE"}
  BY FindSignatureSpoke DEF EndLoaderCommand
<1>4. pc \in TaskPcs /\ pc' \in (TaskPcs \ {"translate"}) \cup {"died", "crash"} /\ pc' # "CLASSESBYSIGNATURE"
  BY <1>1, <1>3 DEF TaskPcs
<1> QED
  BY <1>1, <1>2, <1>3, <1>4, RfSame, TaskStep

LEMMA EndSignatureStep ==
  ASSUME ProxyInv, EndSignature
  PROVE  ProxyInv'
<1>1. pc = "SIGNATURE" /\ Took
  <2>1. "SIGNATURE" \in Waiting /\ \E p \in FromApp : Ended("SIGNATURE", p)
    BY DEF EndSignature, Waiting
  <2> QED
    BY <2>1, TookReply
<1>2. UNCHANGED <<mode, pend, dlog, dq, asked, count, polled, job>> /\ rf' = rf
  BY DEF EndSignature, debuggerVars, appVars
<1>3. Spoke /\ pc' \in {"crash", "cached", "MODIFIERS"}
  BY IdentifySpoke DEF EndSignature
<1>4. pc \in TaskPcs /\ pc' \in (TaskPcs \ {"translate"}) \cup {"died", "crash"} /\ pc' # "CLASSESBYSIGNATURE"
  BY <1>1, <1>3 DEF TaskPcs
<1> QED
  BY <1>1, <1>2, <1>3, <1>4, RfSame, TaskStep

LEMMA EndModifiersStep ==
  ASSUME ProxyInv, EndModifiers
  PROVE  ProxyInv'
<1>1. pc = "MODIFIERS" /\ Took
  <2>1. "MODIFIERS" \in Waiting /\ \E p \in FromApp : Ended("MODIFIERS", p)
    BY DEF EndModifiers, Waiting
  <2> QED
    BY <2>1, TookReply
<1>2. UNCHANGED <<mode, pend, dlog, dq, asked, count, polled, job>> /\ rf' = rf
  BY DEF EndModifiers, debuggerVars, appVars, taskVars
<1>3. Spoke /\ pc' \in {"crash", "cached"}
  BY AssignEnds DEF EndModifiers, Spoke
<1>4. pc \in TaskPcs /\ pc' \in (TaskPcs \ {"translate"}) \cup {"died", "crash"} /\ pc' # "CLASSESBYSIGNATURE"
  BY <1>1, <1>3 DEF TaskPcs
<1> QED
  BY <1>1, <1>2, <1>3, <1>4, RfSame, TaskStep

LEMMA EndClassesBySignatureStep ==
  ASSUME ProxyInv, EndClassesBySignature
  PROVE  ProxyInv'
<1>1. pc = "CLASSESBYSIGNATURE" /\ Took
  <2>1. "CLASSESBYSIGNATURE" \in Waiting /\ \E p \in FromApp : Ended("CLASSESBYSIGNATURE", p)
    BY DEF EndClassesBySignature, Waiting
  <2> QED
    BY <2>1, TookReply
<1>2. UNCHANGED <<mode, pend, dlog, dq, asked, count, polled, job>>
  BY DEF EndClassesBySignature, debuggerVars, appVars
<1>3. RfKept
  <2>1. \E x : rf' = [rf EXCEPT !.ids = x]
    BY DEF EndClassesBySignature
  <2>2. rf.on /\ DOMAIN rf = {"on", "sig", "ids"}
    BY <1>1 DEF ProxyInv, Control, Where, Static
  <2> QED
    BY <2>1, <2>2 DEF RfKept
<1>4. Spoke /\ pc' \in {"crash", "cached", "DISPOSE", "CLASSLOADER", "refreshed"}
  <2>1. (\E id : Cache(id)) \/ (pc' = "refreshed" /\ UNCHANGED txVars)
    BY DEF EndClassesBySignature
  <2>2. "refreshed" \notin Waiting
    BY DEF Waiting
  <2> QED
    BY <2>1, <2>2, CacheSpoke DEF Spoke
<1>5. pc \in TaskPcs /\ pc' \in (TaskPcs \ {"translate"}) \cup {"died", "crash"} /\ pc' # "CLASSESBYSIGNATURE"
  BY <1>1, <1>4 DEF TaskPcs
<1> QED
  BY <1>1, <1>2, <1>3, <1>4, <1>5, TaskStep

LEMMA RefreshedStep ==
  ASSUME ProxyInv, Refreshed
  PROVE  ProxyInv'
<1>1. pc = "cached" /\ pc \notin Waiting /\ UNCHANGED queueVars
  BY DEF Refreshed, Waiting
<1>2. UNCHANGED <<mode, pend, dlog, dq, asked, count, polled, job>>
  BY DEF Refreshed, debuggerVars, appVars
<1>3. RfKept
  <2>1. rf' = [rf EXCEPT !.ids = <<>>] /\ rf # NoRf
    BY DEF Refreshed
  <2>2. rf.on /\ DOMAIN rf = {"on", "sig", "ids"}
    BY <2>1 DEF ProxyInv, Control, Static
  <2> QED
    BY <2>1, <2>2 DEF RfKept
<1>4. pc' \in {"died", "refreshed"} /\ pc' \notin Waiting /\ UNCHANGED txVars
  BY DEF Refreshed, Waiting
<1>5. pc \in TaskPcs /\ pc' \in (TaskPcs \ {"translate"}) \cup {"died", "crash"} /\ pc' # "CLASSESBYSIGNATURE"
  BY <1>1, <1>4 DEF TaskPcs
<1> QED
  BY <1>1, <1>2, <1>3, <1>4, <1>5, TaskStep DEF Took, Spoke

LEMMA TranslateToDebuggerStep ==
  ASSUME ProxyInv, TranslateToDebugger
  PROVE  ProxyInv'
<1>1. pc = "translate" /\ pc \notin Waiting /\ UNCHANGED queueVars
  BY DEF TranslateToDebugger, Translating, Waiting
<1>2. UNCHANGED <<mode, pend, dlog, dq, asked, count, polled, job>> /\ rf' = rf
  BY DEF TranslateToDebugger, debuggerVars, appVars
<1>3. Spoke /\ pc' \in {"crash", "cached", "DISPOSE", "CLASSLOADER"}
  BY CacheSpoke DEF TranslateToDebugger
<1>4. pc \in TaskPcs /\ pc' \in (TaskPcs \ {"translate"}) \cup {"died", "crash"} /\ pc' # "CLASSESBYSIGNATURE"
  BY <1>1, <1>3 DEF TaskPcs
<1> QED
  BY <1>1, <1>2, <1>3, <1>4, RfSame, TaskStep DEF Took

----------------------------------------------------------------------------
(* The start.                                                              *)

LEMMA ConnectStep ==
  ASSUME ProxyInv, Connect
  PROVE  ProxyInv'
<1>1. pc = "connect" /\ pc \notin Waiting /\ UNCHANGED queueVars /\ Running /\ pc # "top"
  BY DEF Connect, Waiting, Running
<1>2. UNCHANGED <<mode, pend, dlog, dq, asked, count, polled, job>> /\ rf' = rf /\ job = NoJob
  BY <1>1 DEF Connect, debuggerVars, appVars, taskVars, ProxyInv, Control, Where, StartPcs
<1>3. Spoke /\ pc' \in StartPcs \cup {"died"}
  <2>1. "IDSIZES" \in Waiting /\ "IDSIZES" \in StartPcs /\ "died" \notin Waiting
    BY DEF Waiting, StartPcs
  <2> QED
    BY <2>1, SpokeTransact DEF Connect, Spoke
<1> QED
  BY <1>1, <1>2, <1>3, RfSame, StartStep DEF Took

LEMMA EndStartupStep ==
  ASSUME ProxyInv, EndStartup
  PROVE  ProxyInv'
<1>0. /\ {"IDSIZES", "VERSION", "SUSPEND_AS_ASKED", "SUSPEND", "RESUME", "HEAPDUMP"} \subseteq Waiting \cap StartPcs
      /\ "accept" \in StartPcs /\ "accept" \notin Waiting
  BY DEF Waiting, StartPcs
<1>1. PICK p \in FromApp :
       \/ Ended("IDSIZES", p) /\ Transact("VERSION", <<>>, <<>>)
       \/ /\ Ended("VERSION", p)
          /\ IF mode.suspend THEN suspend_vm("SUSPEND_AS_ASKED") ELSE AfterVersion
       \/ Ended("SUSPEND_AS_ASKED", p) /\ AfterVersion
       \/ Ended("SUSPEND", p) /\ TransactFrom(make_jdwp_id(seqnum) + 1, "HEAPDUMP", <<>>, <<>>)
       \/ Ended("RESUME", p) /\ pc' = "accept" /\ UNCHANGED txVars
  BY DEF EndStartup
<1>2. pc \in Waiting \cap StartPcs /\ Reply(p)
  BY <1>0, <1>1 DEF Ended
<1>3. Running /\ pc # "top" /\ Took /\ job = NoJob
  BY <1>2 DEF Running, StartPcs, Took, ProxyInv, Control, Where
<1>4. UNCHANGED <<mode, pend, dlog, dq, asked, count, polled, job>> /\ rf' = rf
  BY DEF EndStartup, debuggerVars, appVars, taskVars
<1>5. ASSUME AfterVersion PROVE Spoke /\ pc' \in StartPcs
  BY <1>0, <1>5, SpokeTransact DEF AfterVersion, suspend_vm, Spoke
<1>6. ASSUME TransactFrom(make_jdwp_id(seqnum) + 1, "HEAPDUMP", <<>>, <<>>) PROVE Spoke /\ pc' \in StartPcs
  <2>1. Typed(View) /\ Pends(View) /\ seqnum \in Nat /\ IdMod \in Nat
    BY JdwpAssumption DEF ProxyInv, Good, Sound, Control, Static
  <2>2. make_jdwp_id(seqnum) \in 0 .. IdMod - 1
    BY <2>1, FreshId
  <2>3. make_jdwp_id(seqnum) + 1 \in Nat
    BY <2>1, <2>2
  <2> QED
    BY <1>0, <1>6, <2>3 DEF Spoke, TransactFrom
<1>7. Spoke /\ pc' \in StartPcs
  <2>1. Transact("VERSION", <<>>, <<>>) => Spoke /\ pc' \in StartPcs
    BY <1>0, SpokeTransact
  <2>2. suspend_vm("SUSPEND_AS_ASKED") => Spoke /\ pc' \in StartPcs
    BY <1>0, SpokeTransact DEF suspend_vm
  <2>3. pc' = "accept" /\ UNCHANGED txVars => Spoke /\ pc' \in StartPcs
    BY <1>0 DEF Spoke
  <2> QED
    BY <1>1, <1>5, <1>6, <2>1, <2>2, <2>3
<1> QED
  BY <1>3, <1>4, <1>7, RfSame, StartStep

LEMMA LearnStep ==
  ASSUME ProxyInv, Learn
  PROVE  ProxyInv'
<1>1. pc \in {"learn", "refreshed"} /\ UNCHANGED queueVars /\ job = NoJob
  BY DEF Learn, ProxyInv, Control, Where, StartPcs
<1>2. pc \notin Waiting /\ Running /\ pc # "top"
  BY <1>1 DEF Waiting, Running
<1>3. UNCHANGED <<mode, pend, dlog, dq, asked, count, polled, job>>
  BY DEF Learn, debuggerVars, appVars
<1>4. CASE resume_vm /\ rf' = NoRf
  <2>1. "RESUME" \in Waiting /\ "RESUME" \in StartPcs
    BY DEF Waiting, StartPcs
  <2>2. Spoke /\ pc' \in StartPcs
    BY <1>4, <2>1, SpokeTransact DEF resume_vm
  <2> QED
    BY <1>1, <1>2, <1>3, <1>4, <2>2, StartStep DEF Took
<1>5. CASE Refresh(Head(sigs))
  <2>1. Spoke /\ pc' = "CLASSESBYSIGNATURE" /\ DOMAIN rf' = {"on", "sig", "ids"} /\ rf'.on
    BY <1>5, RefreshSpoke
  <2> QED
    BY <1>1, <1>2, <1>3, <2>1, StartStep DEF Took, RfKept
<1> QED
  BY <1>4, <1>5 DEF Learn

LEMMA StaticStep ==
  ASSUME ProxyInv, IsQueue(defer'), IsQueue(ldef'), IsQueue(aq'), seqnum' \in Nat, mode' = mode,
         IsSeq(asked'), IsCount(count'), rf' = NoRf \/ RfKept,
         job' = job \/ job' = NoJob
           \/ (DOMAIN job' = {"p", "from", "i"} /\ IsPacket(job'.p) /\ job'.from \in Sides)
  PROVE  Static'
<1>1. DOMAIN rf' = {"on", "sig", "ids"} /\ (rf'.on \/ rf' = NoRf)
  BY PacketFacts DEF ProxyInv, Control, Static, RfKept
<1>2. DOMAIN job' = {"p", "from", "i"} /\ IsPacket(job'.p) /\ (job' = NoJob \/ job'.from \in Sides)
  BY PacketFacts DEF ProxyInv, Control, Static
<1>3. mode'.rewrite \in BOOLEAN
  BY DEF ProxyInv, Control, Static
<1> QED
  BY <1>1, <1>2, <1>3 DEF Static, NoRf, NoJob, Packet

(* The heap dump is taken from what was set aside.                         *)
LEMMA EndHeapDumpStep ==
  ASSUME ProxyInv, EndHeapDump
  PROVE  ProxyInv'
<1>1. pc = "HEAPDUMP" /\ pc \in Waiting /\ Running /\ pc # "top" /\ job = NoJob
  BY DEF EndHeapDump, Waiting, Running, ProxyInv, Control, Where, StartPcs
<1>2. UNCHANGED <<mode, pend, dlog, dq, asked, count, polled, job, toapp, seqnum, tx>> /\ rf' = rf /\ UNCHANGED txVars
  BY DEF EndHeapDump, debuggerVars, appVars, txVars
<1> DEFINE d == Reverse(ldef) \o DeferLeft
           at == {i \in DOMAIN d : d[i].kind = "cmd" /\ d[i].op = "HPDS"}
<1>3. PICK p \in FromApp :
        /\ IsReply(p)
        /\ IF at = {} THEN pc' = "died" /\ defer' = d ELSE defer' = RemoveAt(d, Min(at)) /\ pc' = "learn"
  BY DEF EndHeapDump, Deferred
<1>4. aq' = AqLeft /\ ldef' = <<>>
  BY DEF EndHeapDump
<1>5. CASE at = {}
  <2>1. Reply(p) /\ pc' = "died"
    BY <1>3, <1>4, <1>5 DEF Reply, Deferred
  <2>2. Took /\ Spoke
    BY <1>1, <1>2, <1>3, <2>1 DEF Took, Spoke, Waiting
  <2> QED
    BY <1>1, <1>2, <2>1, <2>2, RfSame, StartStep
<1>6. CASE at # {}
  <2> DEFINE m == Min(at)
             k == Len(ldef) + 1
             u == [View EXCEPT !.flow = FlowLeft]
             w == View'
  <2>1. /\ Cut(Flow, FlowLeft, k) /\ Flow[k] = p /\ IsQueue(d) /\ IsQueue(AqLeft)
        /\ p.n = 0 /\ Quiet(u)
    BY <1>1, <1>3, RepliedLeft
  <2>2. m \in at
    <3>1. DOMAIN d \subseteq Nat
      BY <2>1, SeqFacts DEF IsQueue
    <3>2. at \in SUBSET Nat
      BY <3>1
    <3> HIDE DEF at
    <3> QED
      BY <1>6, <3>2, LeastNumber
  <2>3. m \in DOMAIN d /\ d[m].kind = "cmd" /\ d[m].op = "HPDS" /\ defer' = RemoveAt(d, m) /\ pc' = "learn"
    BY <1>3, <1>6, <2>2
  <2> HIDE DEF m, d, at
  <2>4. m \in 1 .. Len(d)
    BY <2>1, <2>3, SeqFacts DEF IsQueue
  <2>5. /\ Cut(FlowOf(<<>>, d, AqLeft), FlowOf(<<>>, RemoveAt(d, m), AqLeft), m)
        /\ FlowOf(<<>>, d, AqLeft)[m] = d[m] /\ IsQueue(RemoveAt(d, m))
    BY <2>1, <2>4, FlowRemoved
  <2>6. FlowLeft = FlowOf(<<>>, d, AqLeft) /\ Flow' = FlowOf(<<>>, RemoveAt(d, m), AqLeft)
    BY <1>4, <2>3 DEF FlowLeft, Flow, d
  <2>7. /\ Kept(View, u, {"flow"}) /\ u.flow = FlowLeft /\ u.pend = View.pend
        /\ u.from = View.from /\ u.n = View.n /\ u.toapp = View.toapp
    BY DEF View, Kept, Queues
  <2>8. /\ Kept(u, w, {"flow"}) /\ w.flow = Flow' /\ w.pend = u.pend
        /\ w.from = u.from /\ w.n = u.n /\ w.toapp = u.toapp
    BY <1>2 DEF View, Kept, Queues
  <2> HIDE DEF u, w, k
  <2>9. Good(View) /\ View.flow = Flow
    BY ViewFacts DEF ProxyInv
  <2>10. Good(u)
    BY <2>1, <2>7, <2>9, GoodTakes
  <2>11. Cut(u.flow, w.flow, m) /\ u.flow[m] = d[m]
    BY <2>5, <2>6, <2>7, <2>8
  <2>12. d[m].n = 0 /\ IsSeq(u.flow)
    <3>1. IsSeq(u.flow)
      BY <2>10, SoundFacts DEF Good
    <3>2. m \in DOMAIN u.flow
      BY <2>11, <3>1, CutFrom
    <3>3. InFlow(u, d[m])
      BY <2>10, <2>11, <3>2 DEF Good, Sound, Sorts, InQueue, Queues
    <3> QED
      BY <2>3, <3>1, <3>3 DEF InFlow
  <2>13. Good(w)
    BY <2>8, <2>10, <2>11, <2>12, GoodTakes
  <2>14. Quiet(w)
    BY <2>1, <2>8, <2>11, <2>12, FlowCut
  <2>15. Static'
    <3>1. IsQueue(defer') /\ IsQueue(ldef') /\ IsQueue(aq')
      BY <1>4, <2>1, <2>3, <2>5, EmptyFacts
    <3>2. seqnum' \in Nat /\ IsSeq(asked') /\ IsCount(count')
      BY <1>2 DEF ProxyInv, Control, Static
    <3> QED
      BY <1>2, <3>1, <3>2, RfSame, StaticStep
  <2>16. Where'
    <3>1. job' = NoJob /\ dlog' = <<>> /\ asked' = <<>>
      BY <1>1, <1>2 DEF ProxyInv, Control, Where
    <3> QED
      BY <2>3, <3>1 DEF Where, NoJob, Packet, StartPcs
  <2>17. Talk'
    <3>1. "app" \notin polled' /\ pc' \notin Waiting
      BY <1>1, <1>2, <2>3 DEF ProxyInv, Control, Talk, Waiting
    <3> QED
      BY <1>4, <2>14, <3>1 DEF Talk, w
  <2> QED
    BY <2>13, <2>15, <2>16, <2>17 DEF ProxyInv, Control, w
<1> QED
  BY <1>5, <1>6

(* A packet that is not the reply is set aside, and stays in the flow.     *)
LEMMA SetAsideStep ==
  ASSUME ProxyInv, SetAside
  PROVE  ProxyInv'
<1>1. PICK p \in FromApp : ldef' = <<p>> \o ldef
  BY DEF SetAside
<1>2. defer' = DeferLeft /\ aq' = AqLeft /\ pc \in Waiting /\ pc' = pc
  BY DEF SetAside
<1>3. UNCHANGED <<mode, pend, dlog, dq, asked, count, polled, job, toapp, seqnum, tx, rf>>
  BY DEF SetAside, debuggerVars, appVars, txVars, taskVars
<1>4. IsQueue(ldef) /\ IsQueue(defer) /\ IsQueue(aq)
  BY DEF ProxyInv, Control, Static
<1>5. /\ FlowOf(<<p>> \o ldef, DeferLeft, AqLeft) = Flow
      /\ IsQueue(<<p>> \o ldef) /\ IsQueue(DeferLeft) /\ IsQueue(AqLeft)
  BY <1>4, FromAppSplits, FlowAside DEF Flow
<1>6. Flow' = Flow /\ IsQueue(defer') /\ IsQueue(ldef') /\ IsQueue(aq')
  BY <1>1, <1>2, <1>5 DEF Flow
<1>7. View' = View
  BY <1>3, <1>6 DEF View
<1>8. Static'
  <2>1. seqnum' \in Nat /\ IsSeq(asked') /\ IsCount(count')
    BY <1>3 DEF ProxyInv, Control, Static
  <2> QED
    BY <1>3, <1>6, <2>1, RfSame, StaticStep
<1>9. Where'
  BY <1>2, <1>3 DEF ProxyInv, Control, Where, Running, NoJob, Packet
<1>10. Talk'
  <2>1. "app" \notin polled
    BY <1>2 DEF ProxyInv, Control, Talk, Running, Waiting
  <2> QED
    BY <1>2, <1>3, <1>7, <2>1 DEF ProxyInv, Control, Talk
<1> QED
  BY <1>7, <1>8, <1>9, <1>10 DEF ProxyInv, Control

----------------------------------------------------------------------------
(* A packet goes from one queue to another.                                *)

(* v with queue a replaced by s.                                           *)
Changed(v, a, s, from, pending) ==
  [dq |-> IF a = "dq" THEN s ELSE v.dq, job |-> IF a = "job" THEN s ELSE v.job,
   toapp |-> IF a = "toapp" THEN s ELSE v.toapp, flow |-> IF a = "flow" THEN s ELSE v.flow,
   dlog |-> IF a = "dlog" THEN s ELSE v.dlog, pend |-> pending, from |-> from, ids |-> v.ids,
   n |-> v.n, rewrite |-> v.rewrite]

LEMMA ChangedFacts ==
  ASSUME NEW v, NEW a \in Queues, NEW s, NEW f, NEW g
  PROVE  /\ Kept(v, Changed(v, a, s, f, g), {a})
         /\ Changed(v, a, s, f, g)[a] = s /\ Changed(v, a, s, f, g).pend = g
         /\ Changed(v, a, s, f, g).from = f /\ Changed(v, a, s, f, g).n = v.n
<1> DEFINE c == Changed(v, a, s, f, g)
<1>1. c.ids = v.ids /\ c.rewrite = v.rewrite /\ c.pend = g /\ c.from = f /\ c.n = v.n
  BY DEF Changed
<1>2. /\ c["dq"] = IF a = "dq" THEN s ELSE v["dq"]
      /\ c["job"] = IF a = "job" THEN s ELSE v["job"]
      /\ c["toapp"] = IF a = "toapp" THEN s ELSE v["toapp"]
      /\ c["flow"] = IF a = "flow" THEN s ELSE v["flow"]
      /\ c["dlog"] = IF a = "dlog" THEN s ELSE v["dlog"]
  BY DEF Changed
<1> HIDE DEF c
<1>3. \A b \in Queues : c[b] = IF a = b THEN s ELSE v[b]
  BY <1>2 DEF Queues
<1>4. Kept(v, c, {a}) /\ c[a] = s
  BY <1>1, <1>3 DEF Kept
<1> QED
  BY <1>1, <1>4 DEF c

LEMMA SoundMoves ==
  ASSUME NEW v, NEW w, NEW a \in Queues, NEW b \in Queues, a # b, NEW m, NEW x, Sound(v),
         Kept(v, w, {a, b}), Cut(v[a], w[a], m), Grown(v[b], w[b], x), w.pend = v.pend,
         IsPacket(x), x.of = v[a][m].of, InQueue(w, b, x), Waits(w, b) => Unpended(v, x.of),
         IF b = "job" THEN Len(v.job) = 0 /\ w.from # "none"
                      ELSE w.from = IF a = "job" THEN "none" ELSE v.from
  PROVE  Sound(w)
<1> DEFINE f == IF a = "job" THEN "none" ELSE v.from
           u == Changed(v, a, w[a], f, v.pend)
<1>1. Kept(v, u, {a}) /\ u[a] = w[a] /\ u.pend = v.pend /\ u.from = f
  BY ChangedFacts
<1> HIDE DEF u
<1>2. Sound(u) /\ Absent(u, x.of)
  <2>1. Cut(v[a], u[a], m)
    BY <1>1
  <2> QED
    BY <1>1, <2>1, SoundCut
<1>3. Kept(u, w, {b})
  BY <1>1 DEF Kept
<1>4. u[b] = v[b]
  BY <1>1 DEF Kept
<1>5. Opens(u, w, b)
  <2>1. b = "job" => u.job = v.job
    BY <1>4
  <2> QED
    BY <1>1, <2>1 DEF Opens
<1>6. Unpended(v, x.of) => Unpended(u, x.of)
  BY <1>1 DEF Unpended
<1>7. Grown(u[b], w[b], x) /\ w.pend = u.pend
  BY <1>1, <1>4
<1> QED
  BY <1>2, <1>3, <1>5, <1>6, <1>7, SoundGrows

(* An answer in 16 bits is the same when identifiers are narrow.           *)
LEMMA GenericFacts ==
  ASSUME NEW p, NEW e \in BOOLEAN, IsPacket(p)
  PROVE  LET g == GenericReply(p, e)
         IN  /\ IsPacket(g) /\ g.kind = "reply" /\ g.of = p.of /\ g.n = p.n
             /\ \A v : Typed(v) /\ Narrow /\ p.id = p.of /\ Known(v, p.of) => g.id = g.of
<1> DEFINE g == GenericReply(p, e)
<1>1. p.id \in Nat /\ p.of \in Nat /\ p.n \in Nat
  BY DEF IsPacket
<1>2. p.id % U16 \in Nat /\ (p.id < U16 => p.id % U16 = p.id)
  BY <1>1 DEF U16
<1>3. DOMAIN g = Fields /\ g.kind = "reply" /\ g.of = p.of /\ g.n = p.n /\ g.id = p.id % U16
  BY DEF GenericReply, Packet, Fields
<1> HIDE DEF g
<1>4. IsPacket(g)
  BY <1>1, <1>2, <1>3 DEF IsPacket
<1>5. ASSUME NEW v, Typed(v), Narrow, p.id = p.of, Known(v, p.of) PROVE g.id = g.of
  <2>1. v.ids \in 0 .. MaxCmds /\ FirstId \in Nat /\ MaxCmds \in Nat
    BY <1>5, JdwpAssumption DEF Typed
  <2>2. FirstId + MaxCmds <= U16 /\ U16 \in Nat /\ p.id <= FirstId + v.ids - 1
    BY <1>5 DEF Narrow, U16, Known
  <2>3. p.id < U16
    BY <1>1, <2>1, <2>2
  <2> QED
    BY <1>2, <1>3, <1>5, <2>3
<1> QED
  BY <1>3, <1>4, <1>5 DEF g

----------------------------------------------------------------------------
(* Steps that leave all packets where they are.                            *)

LEMMA StillStep ==
  ASSUME ProxyInv,
         UNCHANGED <<mode, tx, seqnum, toapp, pend, defer, ldef, aq, job, rf, dlog, dq, asked, count>>,
         pc' = pc \/ pc' \in {"died", "exit"},
         polled' = polled \/ (pc = "top" /\ defer = <<>> /\ pc' = pc)
  PROVE  ProxyInv'
<1>1. Flow' = Flow
  BY DEF Flow
<1>2. View' = View
  BY <1>1 DEF View
<1>3. Static'
  <2>1. /\ IsQueue(defer') /\ IsQueue(ldef') /\ IsQueue(aq') /\ seqnum' \in Nat
        /\ IsSeq(asked') /\ IsCount(count')
    BY DEF ProxyInv, Control, Static
  <2> QED
    BY <2>1, RfSame, StaticStep
<1>4. Where'
  <2>1. CASE pc' = pc
    BY <2>1 DEF ProxyInv, Control, Where, Running, NoJob, Packet
  <2>2. CASE pc' \in {"died", "exit"}
    BY <2>2 DEF ProxyInv, Control, Where, Running, NoJob, Packet, StartPcs
  <2> QED
    BY <2>1, <2>2
<1>5. Talk'
  <2>1. CASE pc' \in {"died", "exit"}
    BY <2>1 DEF Talk, Running, Waiting
  <2>2. CASE pc' = pc
    <3>1. Running' <=> Running
      BY <2>2 DEF Running
    <3>2. Running' /\ "app" \in polled' => pc' = "top" /\ defer' = <<>>
      BY <2>2, <3>1 DEF ProxyInv, Control, Talk
    <3> QED
      BY <1>2, <2>2, <3>1, <3>2 DEF ProxyInv, Control, Talk
  <2> QED
    BY <2>1, <2>2
<1> QED
  BY <1>2, <1>3, <1>4, <1>5 DEF ProxyInv, Control

LEMMA PollStep ==
  ASSUME ProxyInv, Poll
  PROVE  ProxyInv'
BY StillStep DEF Poll, txVars, queueVars, taskVars, appVars, debuggerVars

LEMMA EndOfInputStep ==
  ASSUME ProxyInv, EndOfInput
  PROVE  ProxyInv'
BY StillStep DEF EndOfInput, txVars, queueVars, taskVars, appVars, debuggerVars

LEMMA AppUnloadsStep ==
  ASSUME ProxyInv, NEW l, AppUnloads(l)
  PROVE  ProxyInv'
BY StillStep DEF AppUnloads, txVars, queueVars, taskVars, debuggerVars

LEMMA LeaveStep ==
  ASSUME ProxyInv, NEW s, Leave(s)
  PROVE  ProxyInv'
BY StillStep DEF Leave, txVars, queueVars, taskVars, appVars, debuggerVars

LEMMA Stutters ==
  ASSUME ProxyInv, UNCHANGED vars
  PROVE  ProxyInv'
BY StillStep DEF vars, txVars, queueVars, taskVars, appVars, debuggerVars

----------------------------------------------------------------------------
(* Back in the loop, and with a packet to translate.                       *)

LEMMA TopEnds ==
  ASSUME ProxyInv, Good(View'), Quiet(View'), pc' = "top", job' = NoJob, rf' = NoRf \/ RfKept,
         ldef' = <<>>, IsQueue(defer'), IsQueue(aq'), seqnum' \in Nat, UNCHANGED <<mode, asked, count>>,
         dlog' = dlog \/ dlog' # <<>>, "app" \in polled' => defer' = <<>>
  PROVE  ProxyInv'
<1>1. Static'
  <2>1. IsSeq(asked') /\ IsCount(count')
    BY DEF ProxyInv, Control, Static
  <2> QED
    BY <2>1, EmptyFacts, StaticStep
<1>2. Where'
  BY DEF ProxyInv, Control, Where, NoJob, Packet
<1>3. Talk'
  BY DEF Talk, Waiting
<1> QED
  BY <1>1, <1>2, <1>3 DEF ProxyInv, Control

LEMMA TranslateEnds ==
  ASSUME ProxyInv, Good(View'), Quiet(View'), pc' = "translate", mode.rewrite, rf' = NoRf \/ RfKept,
         DOMAIN job' = {"p", "from", "i"}, IsPacket(job'.p), job'.from \in Sides,
         ldef' = <<>>, IsQueue(defer'), IsQueue(aq'), seqnum' \in Nat,
         UNCHANGED <<mode, asked, count, dlog>>, "app" \notin polled'
  PROVE  ProxyInv'
<1>1. Static'
  <2>1. IsSeq(asked') /\ IsCount(count')
    BY DEF ProxyInv, Control, Static
  <2> QED
    BY <2>1, EmptyFacts, StaticStep
<1>2. job' # NoJob
  BY PacketFacts DEF Sides
<1>3. Where'
  BY <1>2 DEF ProxyInv, Control, Where, NoJob, Packet, StartPcs
<1>4. Talk'
  BY DEF Talk, Waiting
<1> QED
  BY <1>1, <1>3, <1>4 DEF ProxyInv, Control

(* What the loop reads.                                                    *)
LEMMA ReceivedFromApp ==
  ASSUME ProxyInv, NEW p, Receive(p, "app")
  PROVE  /\ pc = "top" /\ job = NoJob /\ ldef' = <<>> /\ dq' = dq /\ "app" \notin polled'
         /\ Cut(View.flow, Flow', 1) /\ View.flow[1] = p /\ IsQueue(defer') /\ IsQueue(aq')
         /\ Quiet(View) /\ Sound(View) /\ IsPacket(p) /\ InFlow(View, p)
<1>1. pc = "top" /\ job = NoJob /\ Running /\ pc \notin Waiting
  BY DEF Receive, ProxyInv, Control, Where, Running, Waiting
<1>2. ldef = <<>> /\ ldef' = <<>> /\ Quiet(View)
  BY <1>1 DEF Receive, ProxyInv, Control, Talk
<1>3. dq' = dq /\ "app" \notin polled' /\ Splits(defer, aq, p, defer', aq')
  <2>1. "app" \in polled => defer = <<>>
    BY <1>1 DEF ProxyInv, Control, Talk
  <2> QED
    BY <2>1 DEF Receive, Splits
<1>4. IsQueue(defer) /\ IsQueue(aq)
  BY DEF ProxyInv, Control, Static
<1> DEFINE dl == defer'
           al == aq'
<1> HIDE DEF dl, al
<1>5. Splits(defer, aq, p, dl, al)
  BY <1>3 DEF dl, al
<1>6. /\ Cut(FlowOf(<<>>, defer, aq), FlowOf(<<>>, dl, al), 1)
      /\ FlowOf(<<>>, defer, aq)[1] = p /\ IsQueue(dl) /\ IsQueue(al)
  BY <1>4, <1>5, FlowFirst
<1>7. View.flow = FlowOf(<<>>, defer, aq) /\ Flow' = FlowOf(<<>>, dl, al)
  BY <1>2, ViewFacts DEF Flow, dl, al
<1>8. Cut(View.flow, Flow', 1) /\ View.flow[1] = p
  BY <1>6, <1>7
<1>9. Sound(View) /\ IsSeq(View.flow) /\ IsQueue(View.flow)
  BY SoundFacts DEF ProxyInv, Good
<1>10. 1 \in DOMAIN View.flow
  BY <1>8, <1>9, CutFrom
<1>11. IsPacket(p) /\ InFlow(View, p)
  BY <1>8, <1>9, <1>10 DEF IsQueue, Sound, Sorts, InQueue, Queues
<1> QED
  BY <1>1, <1>2, <1>3, <1>6, <1>8, <1>9, <1>11 DEF dl, al

LEMMA ReceivedFromDebugger ==
  ASSUME ProxyInv, NEW p, Receive(p, "debugger")
  PROVE  /\ pc = "top" /\ job = NoJob /\ ldef' = <<>> /\ polled' = {}
         /\ Cut(View.dq, dq', 1) /\ View.dq[1] = p /\ IsQueue(defer') /\ IsQueue(aq') /\ Flow' = View.flow
         /\ Quiet(View) /\ Sound(View) /\ IsPacket(p) /\ Asks(View, p) /\ Unpended(View, p.of) /\ p.of # 0
<1>1. pc = "top" /\ job = NoJob /\ Running /\ pc \notin Waiting
  BY DEF Receive, ProxyInv, Control, Where, Running, Waiting
<1>2. ldef = <<>> /\ ldef' = <<>> /\ Quiet(View)
  BY <1>1 DEF Receive, ProxyInv, Control, Talk
<1>3. dq # <<>> /\ p = Head(dq) /\ dq' = Tail(dq) /\ polled' = {} /\ UNCHANGED <<defer, aq>>
  BY DEF Receive
<1>4. IsQueue(defer) /\ IsQueue(aq)
  BY DEF ProxyInv, Control, Static
<1>5. Sound(View) /\ View.dq = dq /\ IsSeq(dq) /\ IsQueue(dq)
  BY SoundFacts, ViewFacts DEF ProxyInv, Good
<1>6. Cut(dq, dq', 1) /\ p = dq[1] /\ 1 \in DOMAIN dq
  BY <1>3, <1>5, TailCuts
<1>7. IsPacket(p) /\ Asks(View, p)
  BY <1>5, <1>6 DEF IsQueue, Sound, Sorts, InQueue, Queues
<1>8. Unpended(View, p.of)
  BY <1>5, <1>6 DEF Unpended, Sound, Pends
<1>9. p.of # 0
  BY <1>7, JdwpAssumption DEF Asks, Known
<1>10. Flow' = View.flow
  BY <1>2, <1>3, ViewFacts DEF Flow
<1> QED
  BY <1>1, <1>2, <1>3, <1>4, <1>5, <1>6, <1>7, <1>8, <1>9, <1>10

----------------------------------------------------------------------------
(* What the loop does with the first packet of either side.                *)

LEMMA DqToDlog ==
  ASSUME NEW v, NEW w, NEW x, NEW m, Good(v), Kept(v, w, {"dq", "dlog"}), Cut(v.dq, w.dq, m),
         Grown(v.dlog, w.dlog, x), w.pend = v.pend, w.from = v.from, w.n = v.n,
         IsPacket(x), x.of = v.dq[m].of, x.n = 0, InDlog(w, x)
  PROVE  Good(w)
<1>1. "dq" \in Queues /\ "dlog" \in Queues /\ w.job = v.job /\ w.flow = v.flow
  BY DEF Kept, Queues
<1>2. InQueue(w, "dlog", x) /\ ~Waits(w, "dlog")
  BY DEF InQueue, Waits
<1>3. Sound(w)
  BY <1>1, <1>2, SoundMoves DEF Good
<1>4. Order(w)
  BY <1>1, OrderDlogGrows DEF Good
<1> QED
  BY <1>3, <1>4 DEF Good

LEMMA DqToToapp ==
  ASSUME NEW v, NEW w, NEW x, NEW m, Good(v), Kept(v, w, {"dq", "toapp"}), Cut(v.dq, w.dq, m),
         Grown(v.toapp, w.toapp, x), w.pend = v.pend, w.from = v.from, w.n = v.n,
         IsPacket(x), x.of = v.dq[m].of, InToapp(w, x)
  PROVE  Good(w)
<1>1. "dq" \in Queues /\ "toapp" \in Queues /\ w.job = v.job /\ w.flow = v.flow /\ w.dlog = v.dlog
  BY DEF Kept, Queues
<1>2. InQueue(w, "toapp", x) /\ ~Waits(w, "toapp")
  BY DEF InQueue, Waits
<1>3. Sound(w)
  BY <1>1, <1>2, SoundMoves DEF Good
<1>4. Order(w)
  BY <1>1, OrderKept DEF Good
<1> QED
  BY <1>3, <1>4 DEF Good

LEMMA DqToJob ==
  ASSUME NEW v, NEW w, NEW x, NEW m, Good(v), Kept(v, w, {"dq", "job"}), Cut(v.dq, w.dq, m),
         v.job = <<>>, w.job = <<x>>, w.pend = v.pend, w.from = "debugger", w.n = v.n,
         IsPacket(x), x = v.dq[m], Asks(v, x), Unpended(v, x.of)
  PROVE  Good(w)
<1>1. "dq" \in Queues /\ "job" \in Queues /\ w.flow = v.flow /\ w.dlog = v.dlog
  BY DEF Kept, Queues
<1>2. Grown(v.job, w.job, x) /\ Len(v.job) = 0
  BY OneFacts
<1>3. Asks(w, x) /\ x.n = 0
  BY DEF Asks, Known, Kept
<1>4. InQueue(w, "job", x)
  BY <1>3 DEF InQueue, InJob, Asks
<1>5. Sound(w)
  BY <1>1, <1>2, <1>4, SoundMoves DEF Good
<1>6. Order(w)
  BY <1>1, <1>2, <1>3, OrderJobGrows DEF Good
<1> QED
  BY <1>5, <1>6 DEF Good

LEMMA DqDropped ==
  ASSUME NEW v, NEW w, NEW m, Good(v), Kept(v, w, {"dq"}), Cut(v.dq, w.dq, m),
         w.pend = v.pend, w.from = v.from, w.n = v.n
  PROVE  Good(w)
<1>1. "dq" \in Queues /\ w.job = v.job /\ w.flow = v.flow /\ w.dlog = v.dlog
  BY DEF Kept, Queues
<1>2. Sound(w)
  BY <1>1, SoundCut DEF Good
<1>3. Order(w)
  BY <1>1, OrderKept DEF Good
<1> QED
  BY <1>2, <1>3 DEF Good

LEMMA FlowToDlog ==
  ASSUME NEW v, NEW w, NEW x, Good(v), Kept(v, w, {"flow", "dlog"}), Cut(v.flow, w.flow, 1),
         v.job = <<>>, Grown(v.dlog, w.dlog, x), w.pend = v.pend, w.from = v.from, w.n = v.n,
         IsPacket(x), x.of = v.flow[1].of, x.n = v.flow[1].n, InDlog(w, x)
  PROVE  Good(w)
<1>1. "flow" \in Queues /\ "dlog" \in Queues /\ w.job = <<>>
  BY DEF Kept, Queues
<1>2. InQueue(w, "dlog", x) /\ ~Waits(w, "dlog")
  BY DEF InQueue, Waits
<1>3. Sound(w)
  <2> DEFINE m == 1
  <2>1. Cut(v.flow, w.flow, m) /\ x.of = v.flow[m].of
    OBVIOUS
  <2> HIDE DEF m
  <2> QED
    BY <1>1, <1>2, <2>1, SoundMoves DEF Good
<1>4. Order(w)
  BY <1>1, OrderFlowToDlog DEF Good
<1> QED
  BY <1>3, <1>4 DEF Good

LEMMA SoundFlowToJob ==
  ASSUME NEW v, NEW w, NEW m, NEW x, Sound(v), Kept(v, w, {"flow", "job"}), Cut(v.flow, w.flow, m),
         Grown(v.job, w.job, x), Len(v.job) = 0, w.pend = v.pend, w.from = "app", IsPacket(x),
         x.of = v.flow[m].of, InQueue(w, "job", x), ~Waits(w, "job")
  PROVE  Sound(w)
<1> DEFINE a == "flow"
           b == "job"
<1>1. /\ a \in Queues /\ b \in Queues /\ a # b /\ b = "job" /\ w.from # "none"
  BY DEF Queues
<1>2. /\ Kept(v, w, {a, b}) /\ Cut(v[a], w[a], m) /\ Grown(v[b], w[b], x)
      /\ x.of = v[a][m].of /\ InQueue(w, b, x) /\ ~Waits(w, b)
  OBVIOUS
<1> HIDE DEF a, b
<1> QED
  BY <1>1, <1>2, SoundMoves

LEMMA FlowToJob ==
  ASSUME NEW v, NEW w, NEW x, Good(v), Kept(v, w, {"flow", "job"}), Cut(v.flow, w.flow, 1),
         v.job = <<>>, w.job = <<x>>, w.pend = v.pend, w.from = "app", w.n = v.n,
         IsPacket(x), x = v.flow[1], x.of = 0
  PROVE  Good(w)
<1>1. "flow" \in Queues /\ "job" \in Queues /\ w.dlog = v.dlog
  BY DEF Kept, Queues
<1>2. Grown(v.job, w.job, x) /\ Len(v.job) = 0
  BY OneFacts
<1>3. InQueue(w, "job", x) /\ ~Waits(w, "job")
  BY DEF InQueue, InJob, Waits
<1>4. Sound(w)
  <2> DEFINE m == 1
  <2>1. Cut(v.flow, w.flow, m) /\ x.of = v.flow[m].of
    OBVIOUS
  <2> HIDE DEF m
  <2>2. Sound(v)
    BY DEF Good
  <2> QED
    BY <1>2, <1>3, <2>1, <2>2, SoundFlowToJob
<1>5. Order(w)
  BY <1>1, <1>2, OrderFlowToJob DEF Good
<1> QED
  BY <1>4, <1>5 DEF Good

(* An answer to the debugger leaves, under the identifier that it has for  *)
(* the debugger: what was pending is not any more.                         *)
LEMMA SoundAnswers ==
  ASSUME NEW v, NEW u, NEW m, NEW id, Sound(v), Cut(v.flow, u.flow, m), v.rewrite,
         Kept(v, u, {"flow"}), u.from = v.from, u.pend = Without(v.pend, {id}),
         v.flow[m].id = id, v.flow[m].of # 0
  PROVE  Sound(u) /\ Absent(u, v.flow[m].of)
<1> DEFINE x == v.flow[m]
           t == Changed(v, "flow", u.flow, v.from, v.pend)
<1>1. "flow" \in Queues
  BY DEF Queues
<1>2. Kept(v, t, {"flow"}) /\ t["flow"] = u.flow /\ t.pend = v.pend /\ t.from = v.from
  BY <1>1, ChangedFacts
<1>3. t.flow = u.flow
  BY <1>2
<1> HIDE DEF t
<1>4. Sound(t) /\ Absent(t, x.of) /\ InQueue(v, "flow", x)
  BY <1>1, <1>2, <1>3, SoundCut
<1>5. \A b \in Queues : u[b] = t[b]
  BY <1>1, <1>2 DEF Kept
<1>6. Kept(t, u, {}) /\ u.from = t.from /\ t.rewrite /\ u.pend = Without(t.pend, {id})
  BY <1>2, <1>5 DEF Kept
<1>7. x.of # 0 /\ id \in DOMAIN v.pend /\ v.pend[id] = x.of
  BY <1>4 DEF InQueue, InFlow, Carried
<1>8. ASSUME NEW i \in DOMAIN t.toapp, t.toapp[i].of # 0, t.toapp[i].kind = "cmd", t.toapp[i].id = id
      PROVE  FALSE
  <2>1. InToapp(t, t.toapp[i])
    BY <1>4, <1>8 DEF Sound, Sorts, InQueue, Queues
  <2>2. t.toapp[i].of = x.of
    BY <1>2, <1>6, <1>7, <1>8, <2>1 DEF InToapp, Carried
  <2> QED
    BY <1>4, <1>7, <1>8, <2>2 DEF Absent, Queues
<1>9. ASSUME NEW i \in DOMAIN t.flow, t.flow[i].of # 0, t.flow[i].id = id
      PROVE  FALSE
  <2>1. InFlow(t, t.flow[i])
    BY <1>4, <1>9 DEF Sound, Sorts, InQueue, Queues
  <2>2. t.flow[i].of = x.of
    BY <1>2, <1>6, <1>7, <1>9, <2>1 DEF InFlow, Carried
  <2> QED
    BY <1>4, <1>7, <1>9, <2>2 DEF Absent, Queues
<1>10. Sound(u)
  BY <1>4, <1>6, <1>8, <1>9, SoundForgets
<1>11. Absent(u, x.of)
  BY <1>4, <1>5 DEF Absent
<1> QED
  BY <1>10, <1>11

----------------------------------------------------------------------------
(* The steps of the loop.                                                  *)

(* A packet that is for the debugger at once.                              *)
LEMMA AnswerAtOnce ==
  ASSUME ProxyInv, NEW p, NEW x, Receive(p, "debugger"), dlog' = Append(dlog, x),
         IsPacket(x), x.of = p.of, x.n = 0, Narrow => x.id = x.of,
         UNCHANGED <<pc, mode, tx, seqnum, toapp, pend, job, rf, asked, count>>
  PROVE  ProxyInv'
<1> DEFINE w == View'
           m == 1
<1>1. /\ pc = "top" /\ job = NoJob /\ ldef' = <<>> /\ polled' = {}
      /\ Cut(View.dq, dq', m) /\ View.dq[m] = p /\ IsQueue(defer') /\ IsQueue(aq') /\ Flow' = View.flow
      /\ Quiet(View) /\ Sound(View) /\ Asks(View, p)
  BY ReceivedFromDebugger
<1>2. /\ Kept(View, w, {"dq", "dlog"}) /\ w.dq = dq' /\ w.dlog = dlog' /\ w.pend = View.pend
      /\ w.from = View.from /\ w.n = View.n /\ w.toapp = View.toapp /\ w.flow = View.flow
  BY <1>1 DEF View, Kept, Queues
<1> HIDE DEF w, m
<1>3. Grown(View.dlog, w.dlog, x) /\ dlog' # <<>>
  <2>1. IsSeq(dlog) /\ View.dlog = dlog
    BY <1>1, SoundFacts, ViewFacts
  <2>2. Grown(dlog, dlog', x)
    BY <2>1, AppendGrows
  <2>3. dlog' # <<>>
    BY <2>1, <2>2, SeqFacts DEF Grown
  <2> QED
    BY <1>2, <2>1, <2>2, <2>3
<1>4. InDlog(w, x)
  BY <1>1, <1>2 DEF InDlog, Asks, Known, Kept
<1>5. Good(w)
  <2>1. Good(View) /\ Cut(View.dq, w.dq, m) /\ x.of = View.dq[m].of
    BY <1>1, <1>2 DEF ProxyInv
  <2> QED
    BY <1>2, <1>3, <1>4, <2>1, DqToDlog
<1>6. Quiet(w)
  BY <1>1, <1>2, QuietKept
<1>7. seqnum' \in Nat
  BY DEF ProxyInv, Control, Static
<1> QED
  BY <1>1, <1>3, <1>5, <1>6, <1>7, RfSame, TopEnds DEF w

(* An answer that goes back to the application: its command, which is not  *)
(* for the debugger, leaves the flow.                                      *)
LEMMA AnswerApp ==
  ASSUME ProxyInv, NEW p, NEW x, Receive(p, "app"), toapp' = Append(toapp, x), p.n = 0,
         IsPacket(x), x.of = 0, x.kind = "reply",
         UNCHANGED <<pc, mode, tx, seqnum, dlog, pend, job, rf, asked, count>>
  PROVE  ProxyInv'
<1> DEFINE w == View'
           u == [View EXCEPT !.flow = Flow']
           m == 1
<1>1. /\ pc = "top" /\ job = NoJob /\ ldef' = <<>> /\ dq' = dq /\ "app" \notin polled'
      /\ Cut(View.flow, Flow', m) /\ View.flow[m] = p /\ IsQueue(defer') /\ IsQueue(aq')
      /\ Quiet(View) /\ Sound(View)
  BY ReceivedFromApp
<1>2. /\ Kept(View, u, {"flow"}) /\ u.flow = Flow' /\ u.pend = View.pend
      /\ u.from = View.from /\ u.n = View.n /\ u.toapp = View.toapp
  BY DEF View, Kept, Queues
<1>3. /\ Kept(u, w, {"toapp"}) /\ w.toapp = toapp' /\ w.flow = u.flow /\ w.pend = u.pend
      /\ w.from = u.from /\ w.n = u.n
  BY <1>1 DEF View, Kept, Queues
<1> HIDE DEF u, w, m
<1>4. Good(u) /\ Quiet(u)
  <2>1. Good(View) /\ IsSeq(View.flow)
    BY <1>1, SoundFacts DEF ProxyInv
  <2>2. Cut(View.flow, u.flow, m) /\ View.flow[m].n = 0
    BY <1>1, <1>2
  <2> QED
    BY <1>1, <1>2, <2>1, <2>2, GoodTakes, FlowCut
<1>5. Grown(u.toapp, w.toapp, x) /\ IsSeq(u.toapp)
  <2>1. IsSeq(toapp) /\ View.toapp = toapp
    BY <1>1, SoundFacts, ViewFacts
  <2> QED
    BY <1>2, <1>3, <2>1, AppendGrows
<1>6. Good(w)
  BY <1>3, <1>4, <1>5, GoodSends DEF InToapp, Absent
<1>7. Quiet(w)
  BY <1>3, <1>4, <1>5, QuietSends
<1>8. seqnum' \in Nat
  BY DEF ProxyInv, Control, Static
<1> QED
  BY <1>1, <1>6, <1>7, <1>8, RfSame, TopEnds DEF w

LEMMA UnknownCommandStep ==
  ASSUME ProxyInv, UnknownCommand
  PROVE  ProxyInv'
<1>1. PICK s, p : /\ s \in Sides /\ Receive(p, s) /\ p.kind = "cmd" /\ p.op = "unsupported"
                  /\ dlog' = IF s = "app" THEN dlog ELSE Append(dlog, GenericReply(p, TRUE))
                  /\ toapp' = IF s = "app" THEN Append(toapp, GenericReply(p, TRUE)) ELSE toapp
  BY DEF UnknownCommand
<1>2. UNCHANGED <<pc, mode, tx, seqnum, pend, job, rf, asked, count>>
  BY DEF UnknownCommand, taskVars, appVars
<1> DEFINE x == GenericReply(p, TRUE)
<1>3. CASE s = "app"
  <2>1. IsPacket(p) /\ InFlow(View, p)
    BY <1>1, <1>3, ReceivedFromApp
  <2>2. p.of = 0 /\ p.n = 0
    BY <1>1, <2>1 DEF InFlow
  <2>3. IsPacket(x) /\ x.of = p.of /\ x.kind = "reply"
    BY <2>1, GenericFacts
  <2> HIDE DEF x
  <2>4. toapp' = Append(toapp, x) /\ dlog' = dlog /\ Receive(p, "app")
    BY <1>1, <1>3 DEF x
  <2> QED
    BY <1>2, <2>2, <2>3, <2>4, AnswerApp
<1>4. CASE s = "debugger"
  <2>1. IsPacket(p) /\ Asks(View, p) /\ Sound(View)
    BY <1>1, <1>4, ReceivedFromDebugger
  <2>2. /\ IsPacket(x) /\ x.of = p.of /\ x.n = p.n
        /\ Typed(View) /\ Narrow /\ p.id = p.of /\ Known(View, p.of) => x.id = x.of
    BY <2>1, GenericFacts
  <2> HIDE DEF x
  <2>3. x.n = 0 /\ (Narrow => x.id = x.of)
    BY <2>1, <2>2 DEF Asks, Sound
  <2>4. dlog' = Append(dlog, x) /\ toapp' = toapp /\ Receive(p, "debugger")
    BY <1>1, <1>4 DEF x
  <2> QED
    BY <1>2, <2>2, <2>3, <2>4, AnswerAtOnce
<1> QED
  BY <1>1, <1>3, <1>4 DEF Sides

LEMMA ListClassesStep ==
  ASSUME ProxyInv, ListClasses
  PROVE  ProxyInv'
<1>1. \E p, fs, ms : Receive(p, "debugger")
                     /\ dlog' = Append(dlog, [p EXCEPT !.kind = "reply", !.refs = fs, !.means = ms])
  BY Zenon DEF ListClasses
<1>2. PICK p, fs, ms : Receive(p, "debugger")
                       /\ dlog' = Append(dlog, [p EXCEPT !.kind = "reply", !.refs = fs, !.means = ms])
  BY <1>1
<1>3. UNCHANGED <<pc, mode, tx, seqnum, toapp, pend, job, rf, asked, count>>
  BY DEF ListClasses, txVars, taskVars, appVars
<1> DEFINE x == [p EXCEPT !.kind = "reply", !.refs = fs, !.means = ms]
<1>4. IsPacket(p) /\ Asks(View, p)
  BY <1>2, ReceivedFromDebugger
<1>5. IsPacket(x) /\ x.of = p.of /\ x.n = p.n /\ x.id = p.id
  BY <1>4 DEF IsPacket, Fields
<1> HIDE DEF x
<1>6. x.n = 0 /\ x.id = x.of /\ dlog' = Append(dlog, x)
  BY <1>2, <1>4, <1>5 DEF Asks, x
<1> QED
  BY <1>2, <1>3, <1>5, <1>6, AnswerAtOnce

LEMMA DropReplyStep ==
  ASSUME ProxyInv, DropReply
  PROVE  ProxyInv'
<1>1. PICK p : Receive(p, "debugger")
  BY DEF DropReply
<1>2. UNCHANGED <<pc, mode, tx, seqnum, toapp, pend, job, rf, asked, count, dlog>>
  BY DEF DropReply, txVars, taskVars, appVars
<1> DEFINE w == View'
           m == 1
<1>3. /\ pc = "top" /\ job = NoJob /\ ldef' = <<>> /\ polled' = {}
      /\ Cut(View.dq, dq', m) /\ IsQueue(defer') /\ IsQueue(aq') /\ Flow' = View.flow /\ Quiet(View)
  BY <1>1, ReceivedFromDebugger
<1>4. /\ Kept(View, w, {"dq"}) /\ w.dq = dq' /\ w.pend = View.pend
      /\ w.from = View.from /\ w.n = View.n /\ w.toapp = View.toapp /\ w.flow = View.flow
  BY <1>2, <1>3 DEF View, Kept, Queues
<1> HIDE DEF w, m
<1>5. Good(w)
  BY <1>3, <1>4, DqDropped DEF ProxyInv
<1>6. Quiet(w)
  BY <1>3, <1>4, QuietKept
<1>7. seqnum' \in Nat
  BY <1>2 DEF ProxyInv, Control, Static
<1> QED
  BY <1>2, <1>3, <1>5, <1>6, <1>7, RfSame, TopEnds DEF w

LEMMA BeginCommandStep ==
  ASSUME ProxyInv, BeginCommand
  PROVE  ProxyInv'
<1>1. PICK s, p : /\ s \in Sides /\ Receive(p, s) /\ p.kind = "cmd"
                  /\ job' = [p |-> p, from |-> s, i |-> 1]
  BY DEF BeginCommand
<1>2. mode.rewrite /\ pc' = "translate" /\ UNCHANGED <<mode, tx, seqnum, toapp, pend, rf, asked, count, dlog>>
  BY DEF BeginCommand, txVars, appVars
<1>3. DOMAIN job' = {"p", "from", "i"} /\ job'.p = p /\ job'.from = s /\ job' # NoJob
  BY <1>1 DEF NoJob, Sides
<1>4. seqnum' \in Nat
  BY <1>2 DEF ProxyInv, Control, Static
<1> DEFINE w == View'
<1>5. w.job = <<p>> /\ w.from = s
  BY <1>3, ViewFactsP
<1>6. CASE s = "app"
  <2>1. /\ job = NoJob /\ ldef' = <<>> /\ dq' = dq /\ "app" \notin polled'
        /\ Cut(View.flow, Flow', 1) /\ View.flow[1] = p /\ IsQueue(defer') /\ IsQueue(aq')
        /\ Quiet(View) /\ Sound(View) /\ IsPacket(p) /\ InFlow(View, p)
    BY <1>1, <1>6, ReceivedFromApp
  <2>2. View.job = <<>> /\ p.of = 0
    BY <1>1, <2>1, ViewFacts DEF InFlow
  <2>3. /\ Kept(View, w, {"flow", "job"}) /\ w.flow = Flow' /\ w.pend = View.pend
        /\ w.n = View.n /\ w.toapp = View.toapp
    <3>1. /\ w.dq = View.dq /\ w.toapp = View.toapp /\ w.dlog = View.dlog /\ w.flow = Flow'
          /\ w.pend = View.pend /\ w.n = View.n /\ w.ids = View.ids /\ w.rewrite = View.rewrite
      BY <1>2, <2>1, ViewFacts, ViewFactsP
    <3> HIDE DEF w
    <3> QED
      BY <3>1 DEF Kept, Queues
  <2> HIDE DEF w
  <2>4. Good(w)
    BY <1>5, <1>6, <2>1, <2>2, <2>3, FlowToJob DEF ProxyInv
  <2>5. Quiet(w)
    <3> DEFINE m == 1
    <3>1. Cut(View.flow, w.flow, m) /\ IsSeq(View.flow)
      BY <2>1, <2>3, SoundFacts
    <3> HIDE DEF m
    <3> QED
      BY <2>1, <2>3, <3>1, FlowCut
  <2> QED
    BY <1>1, <1>2, <1>3, <1>4, <2>1, <2>4, <2>5, RfSame, TranslateEnds DEF w
<1>7. CASE s = "debugger"
  <2> DEFINE m == 1
  <2>1. /\ job = NoJob /\ ldef' = <<>> /\ polled' = {}
        /\ Cut(View.dq, dq', m) /\ View.dq[m] = p /\ IsQueue(defer') /\ IsQueue(aq') /\ Flow' = View.flow
        /\ Quiet(View) /\ Sound(View) /\ IsPacket(p) /\ Asks(View, p) /\ Unpended(View, p.of)
    BY <1>1, <1>7, ReceivedFromDebugger
  <2>2. View.job = <<>>
    BY <2>1, ViewFacts
  <2>3. /\ Kept(View, w, {"dq", "job"}) /\ w.dq = dq' /\ w.pend = View.pend
        /\ w.n = View.n /\ w.toapp = View.toapp /\ w.flow = View.flow
    <3>1. /\ w.dq = dq' /\ w.toapp = View.toapp /\ w.dlog = View.dlog /\ w.flow = View.flow
          /\ w.pend = View.pend /\ w.n = View.n /\ w.ids = View.ids /\ w.rewrite = View.rewrite
      BY <1>2, <2>1, ViewFacts, ViewFactsP
    <3> HIDE DEF w
    <3> QED
      BY <3>1 DEF Kept, Queues
  <2> HIDE DEF w, m
  <2>4. Good(w)
    BY <1>5, <1>7, <2>1, <2>2, <2>3, DqToJob DEF ProxyInv
  <2>5. Quiet(w)
    BY <2>1, <2>3, QuietKept
  <2> QED
    BY <1>1, <1>2, <1>3, <1>4, <2>1, <2>4, <2>5, RfSame, TranslateEnds DEF w
<1> QED
  BY <1>1, <1>6, <1>7 DEF Sides

LEMMA ForwardStep ==
  ASSUME ProxyInv, Forward
  PROVE  ProxyInv'
<1>1. PICK s, p : /\ s \in Sides /\ Receive(p, s)
                  /\ dlog' = IF s = "app" THEN Append(dlog, p) ELSE dlog
                  /\ toapp' = IF s = "app" THEN toapp ELSE Append(toapp, p)
  BY DEF Forward
<1>2. ~mode.rewrite /\ UNCHANGED <<pc, mode, tx, seqnum, pend, job, rf, asked, count>>
  BY DEF Forward, taskVars, appVars
<1>3. seqnum' \in Nat
  BY <1>2 DEF ProxyInv, Control, Static
<1>4. Sound(View) /\ View.dlog = dlog /\ View.toapp = toapp /\ ~View.rewrite
  BY <1>2, ViewFacts DEF ProxyInv, Good
<1>5. IsSeq(dlog) /\ IsSeq(toapp) /\ IsSeq(View.flow)
  BY <1>4, SoundFacts
<1> DEFINE w == View'
<1>6. CASE s = "app"
  <2>1. /\ pc = "top" /\ job = NoJob /\ ldef' = <<>> /\ dq' = dq /\ "app" \notin polled'
        /\ Cut(View.flow, Flow', 1) /\ View.flow[1] = p /\ IsQueue(defer') /\ IsQueue(aq')
        /\ Quiet(View) /\ IsPacket(p) /\ InFlow(View, p)
    BY <1>1, <1>6, ReceivedFromApp
  <2>2. dlog' = Append(dlog, p) /\ toapp' = toapp
    BY <1>1, <1>6
  <2>3. /\ Kept(View, w, {"flow", "dlog"}) /\ w.flow = Flow' /\ w.dlog = dlog' /\ w.pend = View.pend
        /\ w.from = View.from /\ w.n = View.n /\ w.toapp = View.toapp /\ View.job = <<>>
    BY <1>2, <2>1, <2>2 DEF View, Kept, Queues
  <2> HIDE DEF w
  <2>4. Grown(View.dlog, w.dlog, p) /\ dlog' # <<>>
    <3>1. Grown(dlog, dlog', p)
      BY <1>5, <2>2, AppendGrows
    <3>2. dlog' # <<>>
      BY <1>5, <3>1, SeqFacts DEF Grown
    <3> QED
      BY <1>4, <2>3, <3>1, <3>2
  <2>5. InDlog(w, p)
    BY <1>4, <2>1, <2>3 DEF InDlog, InFlow, Carried, Known, Kept
  <2>6. Good(w)
    BY <2>1, <2>3, <2>4, <2>5, FlowToDlog DEF ProxyInv
  <2>7. Quiet(w)
    <3> DEFINE m == 1
    <3>1. Cut(View.flow, w.flow, m)
      BY <2>1, <2>3
    <3> HIDE DEF m
    <3> QED
      BY <1>5, <2>1, <2>3, <3>1, FlowCut
  <2> QED
    BY <1>2, <1>3, <2>1, <2>4, <2>6, <2>7, RfSame, TopEnds DEF w
<1>7. CASE s = "debugger"
  <2> DEFINE m == 1
  <2>1. /\ pc = "top" /\ job = NoJob /\ ldef' = <<>> /\ polled' = {}
        /\ Cut(View.dq, dq', m) /\ View.dq[m] = p /\ IsQueue(defer') /\ IsQueue(aq') /\ Flow' = View.flow
        /\ Quiet(View) /\ IsPacket(p) /\ Asks(View, p) /\ p.of # 0
    BY <1>1, <1>7, ReceivedFromDebugger
  <2>2. toapp' = Append(toapp, p) /\ dlog' = dlog
    BY <1>1, <1>7
  <2>3. /\ Kept(View, w, {"dq", "toapp"}) /\ w.dq = dq' /\ w.toapp = toapp' /\ w.pend = View.pend
        /\ w.from = View.from /\ w.n = View.n /\ w.flow = View.flow
    BY <1>2, <2>1, <2>2 DEF View, Kept, Queues
  <2> HIDE DEF w, m
  <2>4. Grown(View.toapp, w.toapp, p)
    BY <1>4, <1>5, <2>2, <2>3, AppendGrows
  <2>5. InToapp(w, p)
    BY <1>4, <2>1, <2>3 DEF InToapp, Asks, Carried, Known, Kept
  <2>6. Good(w)
    BY <2>1, <2>3, <2>4, <2>5, DqToToapp DEF ProxyInv
  <2>7. Quiet(w)
    BY <1>4, <1>5, <2>1, <2>3, <2>4, QuietSends
  <2> QED
    BY <1>2, <1>3, <2>1, <2>2, <2>6, <2>7, RfSame, TopEnds DEF w
<1> QED
  BY <1>1, <1>6, <1>7 DEF Sides

(* The handshake is the first that the debugger is sent.                   *)
LEMMA AcceptStep ==
  ASSUME ProxyInv, Accept
  PROVE  ProxyInv'
<1> DEFINE x == [Packet EXCEPT !.op = "handshake"]
           w == View'
           a == "dlog"
<1>1. IsPacket(x) /\ x.of = 0 /\ x.n = 0
  BY DEF IsPacket, Packet, Fields
<1>2. /\ pc = "accept" /\ pc' = "top" /\ dlog' = <<x>>
      /\ UNCHANGED <<mode, tx, seqnum, toapp, pend, defer, ldef, aq, job, rf, dq, asked, count, polled>>
  BY DEF Accept, txVars, queueVars, taskVars, appVars, debuggerVars
<1> HIDE DEF x
<1>3. Running /\ pc # "top" /\ job = NoJob /\ pc \notin Waiting
  BY <1>2 DEF Running, Waiting, ProxyInv, Control, Where, StartPcs
<1>4. dlog = <<>> /\ ldef = <<>> /\ Quiet(View) /\ "app" \notin polled
  BY <1>3 DEF ProxyInv, Control, Where, Talk
<1>5. Grown(dlog, dlog', x) /\ dlog' # <<>>
  BY <1>2, <1>4, OneFacts
<1>6. /\ Kept(View, w, {a}) /\ w[a] = dlog' /\ View[a] = dlog /\ w.pend = View.pend
      /\ w.from = View.from /\ w.n = View.n /\ w.flow = View.flow /\ w.toapp = View.toapp
      /\ w.job = View.job /\ w.dlog = dlog' /\ View.dlog = dlog
  BY <1>2 DEF View, Kept, Queues, Flow
<1>7. a \in Queues /\ a # "job" /\ a # "dq" /\ a = "dlog"
  BY DEF Queues
<1> HIDE DEF a, w
<1>8. InQueue(w, a, x) /\ Opens(View, w, a) /\ ~Waits(w, a) /\ Absent(View, x.of)
  BY <1>1, <1>6, <1>7 DEF InQueue, InDlog, Opens, Waits, Absent
<1>9. Grown(View[a], w[a], x)
  BY <1>5, <1>6
<1>10. Sound(w)
  BY <1>1, <1>6, <1>7, <1>8, <1>9, SoundGrows DEF ProxyInv, Good
<1>11. Order(w)
  BY <1>1, <1>5, <1>6, OrderDlogGrows DEF ProxyInv, Good
<1>12. Good(w) /\ Quiet(w)
  BY <1>4, <1>6, <1>10, <1>11, QuietKept DEF Good
<1>13. IsQueue(defer') /\ IsQueue(aq') /\ seqnum' \in Nat
  BY <1>2 DEF ProxyInv, Control, Static
<1> QED
  BY <1>2, <1>3, <1>4, <1>5, <1>12, <1>13, RfSame, TopEnds DEF w

(* An answer: in the loop none is the proxy's own, so it is pending.       *)
LEMMA BeginReplyStep ==
  ASSUME ProxyInv, BeginReply
  PROVE  ProxyInv'
<1>1. PICK p : /\ Receive(p, "app") /\ p.kind = "reply" /\ pop_pending_packet(p.id)
               /\ LET q == [p EXCEPT !.id = pend[p.id]]
                  IN  IF ~peek_pending_packet(p.id) THEN UNCHANGED <<job, pc, dlog>>
                      ELSE IF p.err THEN dlog' = Append(dlog, q) /\ UNCHANGED <<job, pc>>
                      ELSE job' = [p |-> q, from |-> "app", i |-> 1] /\ pc' = "translate" /\ UNCHANGED dlog
  BY DEF BeginReply
<1>2. mode.rewrite /\ UNCHANGED <<mode, tx, seqnum, toapp, rf, asked, count>>
  BY DEF BeginReply, txVars, appVars
<1>3. /\ pc = "top" /\ job = NoJob /\ ldef' = <<>> /\ dq' = dq /\ "app" \notin polled'
      /\ Cut(View.flow, Flow', 1) /\ View.flow[1] = p /\ IsQueue(defer') /\ IsQueue(aq')
      /\ Quiet(View) /\ Sound(View) /\ IsPacket(p) /\ InFlow(View, p)
  BY <1>1, ReceivedFromApp
<1>4. IsSeq(View.flow) /\ View.pend = pend /\ View.rewrite /\ View.job = <<>> /\ View.dlog = dlog /\ IsSeq(dlog)
  BY <1>2, <1>3, SoundFacts, ViewFacts
<1>5. p.of # 0
  <2> DEFINE m == 1
  <2>1. Cut(View.flow, Flow', m) /\ View.flow[m] = p
    BY <1>3
  <2> HIDE DEF m
  <2>2. m \in DOMAIN View.flow
    BY <1>4, <2>1, CutFrom
  <2> QED
    BY <1>1, <1>3, <2>1, <2>2 DEF Quiet, OwnReply
<1>6. Known(View, p.of) /\ p.id \in DOMAIN pend /\ pend[p.id] = p.of
  BY <1>3, <1>4, <1>5 DEF InFlow, Carried
<1> DEFINE q == [p EXCEPT !.id = p.of]
<1>7. IsPacket(q) /\ q.of = p.of /\ q.n = p.n /\ q.id = p.of
  BY <1>3 DEF IsPacket, Fields
<1>8. /\ pend' = Without(pend, {p.id})
      /\ \/ dlog' = Append(dlog, q) /\ UNCHANGED <<job, pc>>
         \/ job' = [p |-> q, from |-> "app", i |-> 1] /\ pc' = "translate" /\ UNCHANGED dlog
  BY <1>1, <1>6 DEF pop_pending_packet, peek_pending_packet
<1> DEFINE u == Changed(View, "flow", Flow', View.from, pend')
           w == View'
<1> HIDE DEF q
<1>9. /\ Kept(View, u, {"flow"}) /\ u.flow = Flow' /\ u.pend = pend' /\ u.from = View.from /\ u.n = View.n
      /\ u.job = <<>> /\ u.dlog = dlog /\ u.dq = dq /\ u.toapp = toapp
      /\ u.ids = View.ids /\ u.rewrite = View.rewrite /\ u.toapp = View.toapp
  BY <1>4 DEF Changed, Kept, Queues, View
<1>10. Sound(u) /\ Absent(u, q.of)
  <2> DEFINE m == 1
             id == p.id
  <2>1. Cut(View.flow, u.flow, m) /\ View.flow[m] = p /\ View.flow[m].id = id /\ u.pend = Without(View.pend, {id})
    BY <1>3, <1>4, <1>8, <1>9
  <2> HIDE DEF m, id, u
  <2>2. /\ Sound(View) /\ View.rewrite /\ Kept(View, u, {"flow"}) /\ u.from = View.from
        /\ View.flow[m].of # 0
    BY <1>3, <1>4, <1>5, <1>9, <2>1
  <2>3. Sound(u) /\ Absent(u, View.flow[m].of)
    BY <2>1, <2>2, SoundAnswers
  <2> QED
    BY <1>7, <2>1, <2>3
<1> HIDE DEF u
<1>11. Quiet(u)
  <2> DEFINE m == 1
  <2>1. Cut(View.flow, u.flow, m)
    BY <1>3, <1>9
  <2> HIDE DEF m
  <2> QED
    BY <1>3, <1>4, <1>9, <2>1, FlowCut
<1>12. /\ w.dq = u.dq /\ w.toapp = u.toapp /\ w.flow = u.flow /\ w.pend = u.pend /\ w.n = u.n
       /\ w.ids = u.ids /\ w.rewrite = u.rewrite /\ w.dlog = dlog'
  BY <1>2, <1>3, <1>9, ViewFacts, ViewFactsP
<1>13. Quiet(w)
  BY <1>11, <1>12, QuietKept
<1>14. Known(w, q.of)
  BY <1>6, <1>7, <1>9, <1>12 DEF Known
<1>15. seqnum' \in Nat
  BY <1>2 DEF ProxyInv, Control, Static
<1>16. CASE dlog' = Append(dlog, q) /\ UNCHANGED <<job, pc>>
  <2> DEFINE a == "dlog"
  <2>1. w.job = <<>> /\ w.from = u.from
    BY <1>3, <1>9, <1>16, ViewFacts, ViewFactsP
  <2> HIDE DEF w
  <2>2. Grown(dlog, dlog', q) /\ dlog' # <<>>
    <3>1. Grown(dlog, dlog', q)
      BY <1>4, <1>16, AppendGrows
    <3> QED
      BY <1>4, <3>1, SeqFacts DEF Grown
  <2>3. Kept(u, w, {a}) /\ Grown(u[a], w[a], q) /\ a \in Queues /\ a # "job" /\ a # "dq" /\ a = "dlog"
    BY <1>9, <1>12, <2>1, <2>2 DEF Kept, Queues
  <2> HIDE DEF a
  <2>4. InQueue(w, a, q) /\ Opens(u, w, a) /\ ~Waits(w, a)
    BY <1>7, <1>14, <2>1, <2>3 DEF InQueue, InDlog, Opens, Waits
  <2>5. Sound(w)
    BY <1>7, <1>10, <1>12, <2>3, <2>4, SoundGrows
  <2>6. Order(w)
    <3>1. Cut(View.flow, w.flow, 1) /\ q.n = View.flow[1].n
      BY <1>3, <1>7, <1>9, <1>12
    <3>2. Grown(View.dlog, w.dlog, q) /\ w.n = View.n
      BY <1>4, <1>9, <1>12, <2>2
    <3> QED
      BY <1>4, <1>7, <2>1, <3>1, <3>2, OrderFlowToDlog DEF ProxyInv, Good
  <2> QED
    BY <1>2, <1>3, <1>13, <1>15, <1>16, <2>2, <2>5, <2>6, RfSame, TopEnds DEF w, Good
<1>17. CASE job' = [p |-> q, from |-> "app", i |-> 1] /\ pc' = "translate" /\ UNCHANGED dlog
  <2> DEFINE a == "job"
  <2>1. DOMAIN job' = {"p", "from", "i"} /\ job'.p = q /\ job'.from = "app" /\ job' # NoJob
    BY <1>17 DEF NoJob
  <2>2. w.job = <<q>> /\ w.from = "app"
    BY <2>1, ViewFactsP
  <2> HIDE DEF w
  <2>3. Grown(<<>>, <<q>>, q) /\ Len(<<>>) = 0
    BY OneFacts
  <2>4. Kept(u, w, {a}) /\ Grown(u[a], w[a], q) /\ a \in Queues /\ a = "job" /\ Len(u.job) = 0
    BY <1>9, <1>12, <1>17, <2>2, <2>3 DEF Kept, Queues
  <2> HIDE DEF a
  <2>5. InQueue(w, a, q) /\ Opens(u, w, a) /\ ~Waits(w, a)
    BY <1>7, <1>14, <2>2, <2>4 DEF InQueue, InJob, Opens, Waits
  <2>6. Sound(w)
    BY <1>7, <1>10, <1>12, <2>4, <2>5, SoundGrows
  <2>7. Order(w)
    <3>1. Cut(View.flow, w.flow, 1) /\ q.n = View.flow[1].n
      BY <1>3, <1>7, <1>9, <1>12
    <3>2. Grown(View.job, w.job, q) /\ w.n = View.n /\ w.dlog = View.dlog
      BY <1>4, <1>9, <1>12, <1>17, <2>2, <2>3
    <3> QED
      BY <1>4, <1>7, <3>1, <3>2, OrderFlowToJob DEF ProxyInv, Good
  <2> QED
    BY <1>2, <1>3, <1>7, <1>13, <1>15, <1>17, <2>1, <2>6, <2>7, RfSame, TranslateEnds DEF w, Good, Sides
<1> QED
  BY <1>8, <1>16, <1>17

----------------------------------------------------------------------------
(* The packet that was translated, or could not be, is sent on.            *)

LEMMA JobFacts ==
  ASSUME NEW v, NEW p, Sound(v), v.job = <<p>>
  PROVE  /\ IsPacket(p) /\ InJob(v, p) /\ Cut(v.job, <<>>, 1) /\ v.job[1] = p
         /\ v.from = "debugger" => Unpended(v, p.of)
<1>1. 1 \in DOMAIN v.job /\ v.job[1] = p /\ Cut(v.job, <<>>, 1)
  BY OneFacts
<1>2. IsPacket(p) /\ InJob(v, p)
  BY <1>1, SoundFacts DEF IsQueue, Sound, Sorts, InQueue, Queues
<1>3. v.from = "debugger" => Unpended(v, p.of)
  BY <1>1 DEF Unpended, Sound, Pends
<1> QED
  BY <1>1, <1>2, <1>3

LEMMA JobToDlog ==
  ASSUME NEW v, NEW w, NEW p, NEW x, Good(v), v.job = <<p>>, w.job = <<>>, Kept(v, w, {"job", "dlog"}),
         Grown(v.dlog, w.dlog, x), w.pend = v.pend, w.from = "none", w.n = v.n, IsPacket(x),
         x.of = p.of, x.n = p.n, Narrow /\ p.id = p.of /\ Known(v, p.of) => x.id = x.of
  PROVE  Good(w)
<1> DEFINE m == 1
           a == "job"
           b == "dlog"
<1>1. /\ InJob(v, p) /\ Cut(v.job, w.job, 1) /\ v.job[1] = p /\ Sound(v) /\ Order(v)
  BY JobFacts DEF Good
<1>2. w.flow = v.flow /\ a \in Queues /\ b \in Queues /\ a = "job" /\ b # "job" /\ b # "dq" /\ b = "dlog" /\ Kept(v, w, {a, b})
  BY DEF Kept, Queues
<1>3. Cut(v[a], w[a], m) /\ Grown(v[b], w[b], x) /\ x.of = v[a][m].of
  BY <1>1
<1> HIDE DEF m, a, b
<1>4. InDlog(w, x)
  BY <1>1 DEF InDlog, InJob, Known, Kept
<1>5. InQueue(w, b, x) /\ ~Waits(w, b)
  BY <1>2, <1>4 DEF InQueue, Waits
<1>6. Sound(w)
  BY <1>1, <1>2, <1>3, <1>5, SoundMoves
<1>7. Order(w)
  BY <1>1, <1>2, OrderJobToDlog
<1> QED
  BY <1>6, <1>7 DEF Good

LEMMA JobToToapp ==
  ASSUME NEW v, NEW w, NEW p, NEW x, Good(v), v.job = <<p>>, w.job = <<>>, Kept(v, w, {"job", "toapp"}),
         v.from = "debugger", Grown(v.toapp, w.toapp, x), w.pend = v.pend, w.from = "none", w.n = v.n,
         IsPacket(x), x.of = p.of, x.kind = "reply"
  PROVE  Good(w)
<1> DEFINE m == 1
           a == "job"
           b == "toapp"
<1>1. /\ InJob(v, p) /\ Cut(v.job, w.job, 1) /\ v.job[1] = p /\ Sound(v) /\ Order(v)
  BY JobFacts DEF Good
<1>2. /\ w.flow = v.flow /\ w.dlog = v.dlog /\ a \in Queues /\ b \in Queues /\ a = "job"
      /\ b # "job" /\ b # "dq" /\ b = "toapp" /\ Kept(v, w, {a, b})
  BY DEF Kept, Queues
<1>3. Cut(v[a], w[a], m) /\ Grown(v[b], w[b], x) /\ x.of = v[a][m].of
  BY <1>1
<1> HIDE DEF m, a, b
<1>4. InToapp(w, x)
  BY <1>1 DEF InToapp, InJob, Known, Kept
<1>5. InQueue(w, b, x) /\ ~Waits(w, b)
  BY <1>2, <1>4 DEF InQueue, Waits
<1>6. Sound(w)
  BY <1>1, <1>2, <1>3, <1>5, SoundMoves
<1>7. p.n = 0
  BY <1>1 DEF InJob, Asks
<1>8. Order(w)
  BY <1>1, <1>2, <1>7, OrderJobCut
<1> QED
  BY <1>6, <1>8 DEF Good

(* An error is sent to where the packet was going.  v is the view when the *)
(* error is found, after a reply was taken if there was one.               *)
LEMMA FailGood ==
  ASSUME Fail, job # NoJob, NEW v, Good(v), Quiet(v), v.job = <<job.p>>, v.from = job.from, job.from \in Sides,
         v.toapp = toapp, v.dlog = dlog, v.pend = pend', v.dq = dq', v.flow = Flow',
         v.ids = Len(asked'), v.n = count'.n, v.rewrite = mode'.rewrite
  PROVE  /\ Good(View') /\ Quiet(View') /\ job' = NoJob /\ rf' = NoRf /\ pc' = "top"
         /\ dlog' = dlog \/ dlog' # <<>>
<1> DEFINE x == GenericReply(job.p, TRUE)
           p == job.p
           w == View'
<1>1. job' = NoJob /\ rf' = NoRf /\ pc' = "top"
  BY DEF Fail
<1>2. /\ w.dq = v.dq /\ w.toapp = toapp' /\ w.flow = v.flow /\ w.dlog = dlog' /\ w.pend = v.pend
      /\ w.from = "none" /\ w.ids = v.ids /\ w.n = v.n /\ w.rewrite = v.rewrite /\ w.job = <<>>
  BY <1>1, ViewFactsP, PacketFacts
<1> HIDE DEF w
<1>3. Sound(v) /\ Typed(v) /\ IsSeq(dlog) /\ IsSeq(toapp) /\ IsPacket(p)
  <2>1. Sound(v) /\ Typed(v)
    BY DEF Good, Sound
  <2> QED
    BY <2>1, SoundFacts, JobFacts
<1>4. /\ IsPacket(x) /\ x.kind = "reply" /\ x.of = p.of /\ x.n = p.n
      /\ Narrow /\ p.id = p.of /\ Known(v, p.of) => x.id = x.of
  BY <1>3, GenericFacts
<1>5. CASE job.from = "app"
  <2>1. dlog' = Append(dlog, x) /\ toapp' = toapp
    BY <1>5 DEF Fail
  <2> HIDE DEF x
  <2>2. Grown(dlog, dlog', x)
    BY <1>3, <2>1, AppendGrows
  <2>3. dlog' # <<>>
    BY <1>3, <2>2, SeqFacts DEF Grown
  <2>4. Kept(v, w, {"job", "dlog"})
    BY <1>2, <2>1 DEF Kept, Queues
  <2>5. Good(w)
    BY <1>2, <1>4, <2>2, <2>4, JobToDlog
  <2>6. Quiet(w)
    BY <1>2, <2>1, QuietKept
  <2> QED
    BY <1>1, <2>3, <2>5, <2>6 DEF w
<1>6. CASE job.from # "app"
  <2>1. toapp' = Append(toapp, x) /\ dlog' = dlog /\ v.from = "debugger"
    BY <1>6 DEF Fail, Sides
  <2> HIDE DEF x
  <2>2. Grown(v.toapp, w.toapp, x) /\ IsSeq(v.toapp)
    BY <1>2, <1>3, <2>1, AppendGrows
  <2>3. Kept(v, w, {"job", "toapp"})
    BY <1>2, <2>1 DEF Kept, Queues
  <2>4. Good(w)
    BY <1>2, <1>4, <2>1, <2>2, <2>3, JobToToapp
  <2>5. Quiet(w)
    BY <1>2, <1>4, <2>2, QuietSends
  <2> QED
    BY <1>1, <2>1, <2>4, <2>5 DEF w
<1> QED
  BY <1>5, <1>6

LEMMA FailStep ==
  ASSUME ProxyInv, Running, pc \notin Waiting, pc # "top", job # NoJob, Fail,
         UNCHANGED <<mode, seqnum, pend, queueVars, dq, asked, count, polled>>
  PROVE  ProxyInv'
<1>1. /\ UNCHANGED <<defer, ldef, aq>> /\ ldef = <<>> /\ Quiet(View) /\ "app" \notin polled
  BY DEF queueVars, ProxyInv, Control, Talk
<1>2. /\ IsQueue(defer') /\ IsQueue(aq') /\ seqnum' \in Nat /\ job.from \in Sides
  BY <1>1 DEF ProxyInv, Control, Static
<1>3. Flow' = Flow
  BY <1>1 DEF Flow
<1>4. /\ View.job = <<job.p>> /\ View.from = job.from /\ View.toapp = toapp /\ View.dlog = dlog
      /\ View.pend = pend' /\ View.dq = dq' /\ View.flow = Flow' /\ View.ids = Len(asked')
      /\ View.n = count'.n /\ View.rewrite = mode'.rewrite /\ Good(View)
  BY <1>3, ViewFacts DEF ProxyInv
<1> DEFINE v == View
<1> HIDE DEF v
<1>5. /\ Good(View') /\ Quiet(View') /\ job' = NoJob /\ rf' = NoRf /\ pc' = "top"
      /\ dlog' = dlog \/ dlog' # <<>>
  <2>1. /\ Good(v) /\ Quiet(v) /\ v.job = <<job.p>> /\ v.from = job.from
        /\ v.toapp = toapp /\ v.dlog = dlog /\ v.pend = pend' /\ v.dq = dq' /\ v.flow = Flow'
        /\ v.ids = Len(asked') /\ v.n = count'.n /\ v.rewrite = mode'.rewrite
    BY <1>1, <1>4 DEF v
  <2> QED
    BY <1>2, <2>1, FailGood
<1> QED
  BY <1>1, <1>2, <1>5, TopEnds

LEMMA TransactionFailsStep ==
  ASSUME ProxyInv, TransactionFails
  PROVE  ProxyInv'
<1>1. PICK p \in FromApp : Reply(p)
  BY DEF TransactionFails
<1>2. pc \in Waiting /\ UNCHANGED <<mode, tx, seqnum, pend, dq, asked, count, polled>>
  BY DEF TransactionFails, appVars, debuggerVars
<1>3. Running /\ pc # "top" /\ pc # "translate"
  BY <1>2 DEF Running, Waiting
<1>4. CASE job = NoJob
  <2>1. pc' = "died" /\ UNCHANGED <<dlog, toapp, job, rf, ca>>
    BY <1>4 DEF TransactionFails
  <2>2. Took /\ Spoke
    BY <1>1, <1>2, <2>1 DEF Took, Spoke, Waiting, txVars
  <2> QED
    BY <1>2, <1>3, <1>4, <2>1, <2>2, RfSame, StartStep
<1>5. CASE job # NoJob
  <2>1. Fail
    BY <1>5 DEF TransactionFails
  <2> DEFINE m == Len(ldef) + 1
             u == [View EXCEPT !.flow = Flow']
  <2>2. /\ Cut(Flow, Flow', m) /\ Flow[m] = p
        /\ IsQueue(defer') /\ IsQueue(ldef') /\ IsQueue(aq') /\ ldef' = <<>>
        /\ p.n = 0 /\ Quiet(u)
    BY <1>1, <1>2, Replied
  <2>3. /\ Kept(View, u, {"flow"}) /\ u.flow = Flow' /\ u.pend = View.pend
        /\ u.from = View.from /\ u.n = View.n /\ u.job = View.job
        /\ u.dq = View.dq /\ u.toapp = View.toapp /\ u.dlog = View.dlog
        /\ u.ids = View.ids /\ u.rewrite = View.rewrite
    BY DEF View, Kept, Queues
  <2> HIDE DEF m, u
  <2>4. Good(View) /\ View.flow = Flow
    BY ViewFacts DEF ProxyInv
  <2>5. Good(u)
    BY <2>2, <2>3, <2>4, GoodTakes
  <2>6. /\ u.job = <<job.p>> /\ u.from = job.from /\ u.toapp = toapp /\ u.dlog = dlog
        /\ u.pend = pend' /\ u.dq = dq' /\ u.ids = Len(asked') /\ u.n = count'.n /\ u.rewrite = mode'.rewrite
    BY <1>2, <1>5, <2>3, ViewFacts
  <2>7. job.from \in Sides /\ seqnum' \in Nat /\ "app" \notin polled'
    BY <1>2, <1>3, <1>5 DEF ProxyInv, Control, Static, Talk
  <2>8. /\ Good(View') /\ Quiet(View') /\ job' = NoJob /\ rf' = NoRf /\ pc' = "top"
        /\ dlog' = dlog \/ dlog' # <<>>
    BY <1>5, <2>1, <2>2, <2>3, <2>5, <2>6, <2>7, FailGood
  <2> QED
    BY <1>2, <2>2, <2>7, <2>8, TopEnds
<1> QED
  BY <1>4, <1>5

----------------------------------------------------------------------------
(* Translation.                                                            *)

LEMMA SetRefStep ==
  ASSUME ProxyInv, Running, pc \notin Waiting, pc # "top", job # NoJob, NEW id, SetRef(id),
         rf' = NoRf \/ RfKept,
         UNCHANGED <<mode, seqnum, toapp, pend, queueVars, dq, dlog, asked, count, polled>>
  PROVE  ProxyInv'
<1>1. UNCHANGED <<defer, ldef, aq>> /\ ldef = <<>> /\ Quiet(View) /\ "app" \notin polled /\ mode.rewrite
  BY DEF queueVars, ProxyInv, Control, Talk, Where
<1>2. /\ IsQueue(defer') /\ IsQueue(aq') /\ seqnum' \in Nat /\ job.from \in Sides
      /\ DOMAIN job = {"p", "from", "i"} /\ IsPacket(job.p)
  BY <1>1 DEF ProxyInv, Control, Static
<1>3. Flow' = Flow
  BY <1>1 DEF Flow
<1> DEFINE p == job.p
           q == [job.p EXCEPT !.refs[job.i] = id]
           w == View'
<1>4. pc' = "translate" /\ job' = [job EXCEPT !.p = q, !.i = @ + 1]
  BY <1>2 DEF SetRef
<1>5. IsPacket(q) /\ q.id = p.id /\ q.of = p.of /\ q.n = p.n
  BY <1>2 DEF IsPacket, Fields
<1> HIDE DEF q
<1>6. DOMAIN job' = {"p", "from", "i"} /\ job'.p = q /\ job'.from = job.from
  BY <1>2, <1>4
<1>7. job' # NoJob
  BY <1>2, <1>6, PacketFacts DEF Sides
<1>8. View.job = <<p>> /\ w.job = <<q>> /\ w.from = View.from
  BY <1>6, <1>7, ViewFacts, ViewFactsP
<1>9. /\ w.dq = View.dq /\ w.toapp = View.toapp /\ w.dlog = View.dlog /\ w.flow = View.flow
      /\ w.pend = View.pend /\ w.n = View.n /\ w.ids = View.ids /\ w.rewrite = View.rewrite
  BY <1>3, ViewFacts, ViewFactsP
<1> HIDE DEF w
<1>10. Kept(View, w, {"job"})
  BY <1>9 DEF Kept, Queues
<1>11. Good(w)
  BY <1>5, <1>8, <1>9, <1>10, Translates DEF ProxyInv
<1>12. Quiet(w)
  BY <1>1, <1>9, QuietKept
<1> QED
  BY <1>1, <1>2, <1>4, <1>5, <1>6, <1>11, <1>12, TranslateEnds DEF w

LEMMA TranslatedToDebuggerStep ==
  ASSUME ProxyInv, TranslatedToDebugger
  PROVE  ProxyInv'
<1>1. pc = "cached" /\ rf = NoRf /\ SetRef(cache[ca.id].fake) /\ rf' = rf
  BY DEF TranslatedToDebugger
<1>2. UNCHANGED <<mode, seqnum, toapp, pend, queueVars, dq, dlog, asked, count, polled>>
  BY DEF TranslatedToDebugger, txVars, appVars, debuggerVars
<1>3. Running /\ pc \notin Waiting /\ pc # "top" /\ pc \notin StartPcs
  BY <1>1 DEF Running, Waiting, StartPcs
<1>4. job # NoJob
  BY <1>1, <1>3, PacketFacts DEF ProxyInv, Control, Where
<1> QED
  BY <1>1, <1>2, <1>3, <1>4, RfSame, SetRefStep

LEMMA TranslateToAppStep ==
  ASSUME ProxyInv, TranslateToApp
  PROVE  ProxyInv'
<1> DEFINE f == job.p.refs[job.i]
<1>1. /\ pc = "translate" /\ Running /\ pc \notin Waiting /\ pc # "top" /\ job # NoJob /\ pc \in TaskPcs
  BY DEF TranslateToApp, Translating, Running, Waiting, TaskPcs, ProxyInv, Control, Where
<1>2. UNCHANGED <<mode, pend, queueVars, dq, asked, count, polled>>
  BY DEF TranslateToApp, appVars, debuggerVars
<1>3. \/ Fail /\ UNCHANGED <<tx, seqnum>>
      \/ SetRef(fakes[f].real) /\ UNCHANGED <<txVars, dlog, rf, ca>>
      \/ Refresh(fakes[f].sig) /\ UNCHANGED <<dlog, job, ca>>
  BY Zenon DEF TranslateToApp
<1>4. CASE Fail /\ UNCHANGED <<tx, seqnum>>
  BY <1>1, <1>2, <1>4, FailStep
<1>5. CASE SetRef(fakes[f].real) /\ UNCHANGED <<txVars, dlog, rf, ca>>
  <2>1. UNCHANGED <<seqnum, toapp>>
    BY <1>5 DEF txVars
  <2> QED
    BY <1>1, <1>2, <1>5, <2>1, RfSame, SetRefStep
<1>6. CASE Refresh(fakes[f].sig) /\ UNCHANGED <<dlog, job, ca>>
  <2>1. Spoke /\ pc' = "CLASSESBYSIGNATURE" /\ DOMAIN rf' = {"on", "sig", "ids"} /\ rf'.on
    BY <1>6, RefreshSpoke
  <2>2. RfKept /\ Took /\ pc' \in TaskPcs \ {"translate"}
    BY <1>1, <1>2, <2>1 DEF RfKept, Took, TaskPcs
  <2> QED
    BY <1>1, <1>2, <1>6, <2>1, <2>2, TaskStep
<1> QED
  BY <1>3, <1>4, <1>5, <1>6

LEMMA TranslatedToAppStep ==
  ASSUME ProxyInv, TranslatedToApp
  PROVE  ProxyInv'
<1> DEFINE f == job.p.refs[job.i]
<1>1. /\ pc = "refreshed" /\ Running /\ pc \notin Waiting /\ pc # "top" /\ job # NoJob
  BY DEF TranslatedToApp, Running, Waiting
<1>2. UNCHANGED <<mode, seqnum, pend, queueVars, dq, asked, count, polled>>
  BY DEF TranslatedToApp, appVars, debuggerVars
<1>3. \/ SetRef(fakes[f].real) /\ rf' = NoRf /\ UNCHANGED <<dlog, toapp>>
      \/ Fail
  BY Zenon DEF TranslatedToApp
<1>4. CASE SetRef(fakes[f].real) /\ rf' = NoRf /\ UNCHANGED <<dlog, toapp>>
  BY <1>1, <1>2, <1>4, SetRefStep
<1>5. CASE Fail
  BY <1>1, <1>2, <1>5, FailStep
<1> QED
  BY <1>3, <1>4, <1>5

(* A command goes to the application under a new identifier.               *)
LEMMA JobSent ==
  ASSUME NEW v, NEW w, NEW p, NEW x, NEW id \in 0 .. IdMod - 1, Good(v), v.job = <<p>>, w.job = <<>>,
         Kept(v, w, {"job", "toapp"}), v.rewrite, v.from = "debugger", w.from = "none", w.n = v.n,
         id \notin DOMAIN v.pend, w.pend = With(v.pend, id, p.of), Grown(v.toapp, w.toapp, x),
         IsPacket(x), x.of = p.of, x.id = id
  PROVE  Good(w) /\ p.of # 0
<1>1. /\ IsPacket(p) /\ InJob(v, p) /\ Cut(v.job, w.job, 1) /\ v.job[1] = p /\ Unpended(v, p.of)
      /\ Sound(v) /\ Order(v)
  BY JobFacts DEF Good
<1>2. Known(v, p.of) /\ p.n = 0 /\ p.of # 0
  BY <1>1, JdwpAssumption DEF InJob, Asks, Known
<1>3. /\ w.flow = v.flow /\ w.dlog = v.dlog /\ w.dq = v.dq /\ w.ids = v.ids /\ w.rewrite = v.rewrite
      /\ "job" \in Queues /\ "toapp" \in Queues
  BY DEF Kept, Queues
<1>4. Order(w)
  BY <1>1, <1>2, <1>3, OrderJobCut
<1> DEFINE u == Changed(v, "job", <<>>, "none", v.pend)
           t == Changed(v, "job", <<>>, "none", w.pend)
<1>5. /\ Kept(v, u, {"job"}) /\ u.job = <<>> /\ u.pend = v.pend /\ u.from = "none"
      /\ Kept(u, t, {}) /\ t.from = u.from /\ t.pend = w.pend /\ t.toapp = v.toapp
      /\ t.job = <<>> /\ t.dq = v.dq /\ t.flow = v.flow /\ t.dlog = v.dlog /\ t.ids = v.ids /\ t.rewrite = v.rewrite
  BY DEF Changed, Kept, Queues
<1> HIDE DEF u, t
<1>6. Sound(u) /\ Absent(u, p.of)
  <2> DEFINE m == 1
             a == "job"
  <2>1. Cut(v[a], u[a], m) /\ v[a][m] = p /\ a = "job" /\ a \in Queues /\ Kept(v, u, {a})
    BY <1>1, <1>3, <1>5
  <2> HIDE DEF m, a
  <2>2. Sound(u) /\ Absent(u, v[a][m].of)
    BY <1>1, <1>5, <2>1, SoundCut
  <2> QED
    BY <2>1, <2>2
<1>7. Sound(t)
  <2>1. Known(u, p.of) /\ Unpended(u, p.of) /\ t.pend = With(u.pend, id, p.of) /\ id \notin DOMAIN u.pend
    BY <1>1, <1>2, <1>5 DEF Known, Unpended, Kept
  <2> QED
    BY <1>5, <1>6, <2>1, SoundMarks
<1>8. Absent(t, x.of)
  BY <1>5, <1>6 DEF Absent, Kept
<1>9. Sound(w)
  <2> DEFINE a == "toapp"
  <2>1. /\ Kept(t, w, {a}) /\ Grown(t[a], w[a], x) /\ a \in Queues /\ a # "job" /\ a # "dq" /\ a = "toapp"
        /\ w.pend = t.pend /\ w.from = t.from
    BY <1>3, <1>5 DEF Kept, Queues
  <2> HIDE DEF a
  <2>2. id \in DOMAIN w.pend /\ w.pend[id] = x.of
    BY DEF With
  <2>3. InToapp(w, x)
    BY <1>2, <1>3, <2>2 DEF InToapp, Carried, Known
  <2>4. InQueue(w, a, x) /\ Opens(t, w, a) /\ ~Waits(w, a)
    BY <2>1, <2>3 DEF InQueue, Opens, Waits
  <2> QED
    BY <1>7, <1>8, <2>1, <2>4, SoundGrows
<1> QED
  BY <1>2, <1>4, <1>9 DEF Good

LEMMA DeliverStep ==
  ASSUME ProxyInv, Deliver
  PROVE  ProxyInv'
<1>1. pc = "translate" /\ Running /\ pc \notin Waiting /\ pc # "top" /\ job # NoJob
  BY DEF Deliver, Running, Waiting, ProxyInv, Control, Where
<1>2. job' = NoJob /\ pc' = "top" /\ UNCHANGED <<mode, tx, rf, defer, ldef, aq, dq, asked, count, polled>>
  BY DEF Deliver, queueVars, appVars, debuggerVars
<1>3. ldef = <<>> /\ Quiet(View) /\ "app" \notin polled /\ mode.rewrite
  BY <1>1 DEF ProxyInv, Control, Talk, Where
<1>4. /\ IsQueue(defer') /\ IsQueue(aq') /\ seqnum \in Nat /\ job.from \in Sides /\ IsPacket(job.p)
  BY <1>1, <1>2 DEF ProxyInv, Control, Static
<1>5. Flow' = Flow
  BY <1>2 DEF Flow
<1> DEFINE p == job.p
           w == View'
<1>6. /\ View.job = <<p>> /\ View.from = job.from /\ View.toapp = toapp /\ View.dlog = dlog
      /\ View.pend = pend /\ View.rewrite = mode.rewrite
      /\ w.dq = View.dq /\ w.flow = View.flow /\ w.ids = View.ids /\ w.n = View.n
      /\ w.rewrite = View.rewrite /\ w.job = <<>> /\ w.from = "none"
      /\ w.toapp = toapp' /\ w.dlog = dlog' /\ w.pend = pend'
  BY <1>1, <1>2, <1>5, ViewFacts, ViewFactsP, PacketFacts
<1> HIDE DEF w
<1>7. Good(View) /\ Sound(View) /\ IsSeq(dlog) /\ IsSeq(toapp)
  BY <1>6, SoundFacts DEF ProxyInv, Good
<1>8. CASE job.from = "app"
  <2>1. dlog' = Append(dlog, p) /\ UNCHANGED <<pend, seqnum, toapp>>
    BY <1>8 DEF Deliver
  <2>2. Grown(dlog, dlog', p)
    BY <1>7, <2>1, AppendGrows
  <2>3. dlog' # <<>>
    BY <1>7, <2>2, SeqFacts DEF Grown
  <2>4. Kept(View, w, {"job", "dlog"})
    BY <1>6, <2>1 DEF Kept, Queues
  <2>5. Good(w)
    BY <1>4, <1>6, <1>7, <2>1, <2>2, <2>4, JobToDlog
  <2>6. Quiet(w)
    BY <1>3, <1>6, <2>1, QuietKept
  <2> QED
    BY <1>2, <1>3, <1>4, <2>1, <2>3, <2>5, <2>6, RfSame, TopEnds DEF w
<1>9. CASE job.from # "app"
  <2> DEFINE id == make_jdwp_id(seqnum)
             x == [p EXCEPT !.id = id]
  <2>1. /\ seqnum' = (id + 1) % IdMod /\ toapp' = Append(toapp, x) /\ pend' = With(pend, id, p.id)
        /\ dlog' = dlog /\ job.from = "debugger"
    BY <1>4, <1>9 DEF Deliver, mark_packet_pending, Sides
  <2>2. id \in 0 .. IdMod - 1 /\ id \notin DOMAIN pend
    BY <1>4, <1>7, FreshId DEF Sound
  <2> HIDE DEF id
  <2>3. IdMod \in Nat \ {0} /\ id \in Nat /\ id + 1 \in Int
    BY <2>2, JdwpAssumption
  <2>4. seqnum' \in Nat
    <3>1. (id + 1) % IdMod \in 0 .. IdMod - 1
      BY <2>3, ModFacts
    <3> QED
      BY <2>1, <2>3, <3>1
  <2>5. IsPacket(x) /\ x.of = p.of /\ x.id = id
    BY <1>4, <2>3 DEF IsPacket, Fields
  <2> HIDE DEF x
  <2>6. p.id = p.of
    <3>1. InJob(View, p)
      BY <1>6, <1>7, JobFacts
    <3> QED
      BY <1>6, <2>1, <3>1 DEF InJob, Asks
  <2>7. Grown(View.toapp, w.toapp, x)
    BY <1>6, <1>7, <2>1, AppendGrows
  <2>8. Kept(View, w, {"job", "toapp"})
    BY <1>6, <2>1 DEF Kept, Queues
  <2>9. Good(w) /\ x.of # 0
    <3>1. id \notin DOMAIN View.pend /\ w.pend = With(View.pend, id, p.of) /\ View.rewrite
      BY <1>3, <1>6, <2>1, <2>2, <2>6
    <3>2. /\ View.job = <<p>> /\ w.job = <<>> /\ View.from = "debugger" /\ w.from = "none" /\ w.n = View.n
      BY <1>6, <2>1
    <3> HIDE DEF p
    <3> QED
      BY <1>7, <2>2, <2>5, <2>7, <2>8, <3>1, <3>2, JobSent
  <2>10. Quiet(w)
    BY <1>3, <1>6, <1>7, <2>7, <2>9, QuietSends
  <2> QED
    BY <1>2, <1>3, <1>4, <2>1, <2>4, <2>9, <2>10, RfSame, TopEnds DEF w
<1> QED
  BY <1>8, <1>9

----------------------------------------------------------------------------
(* The application.                                                        *)

(* What the application does leaves the proxy where it is.                 *)
LEMMA AppEnds ==
  ASSUME ProxyInv, Running, UNCHANGED <<pc, mode, tx, seqnum, defer, ldef, job, rf, polled, dlog, asked>>,
         IsQueue(aq'), IsCount(count'), Good(View'),
         pc \notin Waiting => Quiet(View'), pc \in Waiting => Single(View', tx)
  PROVE  ProxyInv'
<1>1. Static'
  <2>1. IsQueue(defer') /\ IsQueue(ldef') /\ seqnum' \in Nat /\ IsSeq(asked')
    BY DEF ProxyInv, Control, Static
  <2> QED
    BY <2>1, RfSame, StaticStep
<1>2. Where'
  BY DEF ProxyInv, Control, Where, Running, NoJob, Packet
<1>3. Talk'
  BY DEF ProxyInv, Control, Talk, Running
<1> QED
  BY <1>1, <1>2, <1>3 DEF ProxyInv, Control

LEMMA AppSends ==
  ASSUME NEW v, NEW w, NEW x, Good(v), Kept(v, w, {"flow"}), Grown(v.flow, w.flow, x),
         w.pend = v.pend, w.from = v.from, IsPacket(x), InFlow(w, x), Absent(v, x.of),
         (x.n = 0 /\ w.n = v.n) \/ (x.n = v.n + 1 /\ w.n = v.n + 1)
  PROVE  Good(w)
<1>1. "flow" \in Queues /\ w.job = v.job /\ w.dlog = v.dlog
  BY DEF Kept, Queues
<1>2. InQueue(w, "flow", x) /\ Opens(v, w, "flow") /\ ~Waits(w, "flow")
  BY DEF InQueue, Opens, Waits
<1>3. Sound(w)
  BY <1>1, <1>2, SoundGrows DEF Good
<1>4. Order(w)
  BY <1>1, OrderFlowGrows DEF Good
<1> QED
  BY <1>3, <1>4 DEF Good

(* A command for the proxy comes into the flow.                            *)
LEMMA AppUnsupportedStep ==
  ASSUME ProxyInv, AppUnsupported
  PROVE  ProxyInv'
<1>1. /\ UNCHANGED <<pc, mode, tx, seqnum, toapp, pend, defer, ldef, job, rf, polled, dlog, dq, asked>>
      /\ Running /\ count' = [count EXCEPT !.ev = @ + 1]
  BY DEF AppUnsupported, Starting, txVars, taskVars, debuggerVars
<1>2. IsCount(count) /\ IsQueue(ldef) /\ IsQueue(defer) /\ IsQueue(aq)
  BY DEF ProxyInv, Control, Static
<1>3. Good(View) /\ View.n = count.n /\ View.flow = Flow /\ IsSeq(View.flow)
  BY ViewFacts, SoundFacts DEF ProxyInv, Good
<1> DEFINE x == [Packet EXCEPT !.op = "unsupported", !.id = count.ev + 1]
           w == View'
<1>4. IsPacket(x) /\ x.kind = "cmd" /\ x.of = 0 /\ x.n = 0
  BY <1>2 DEF IsPacket, Packet, Fields, IsCount
<1>5. aq' = Append(aq, x)
  BY DEF AppUnsupported
<1> HIDE DEF x
<1>6. Grown(Flow, Flow', x) /\ IsQueue(aq')
  <2>1. Grown(FlowOf(ldef, defer, aq), FlowOf(ldef, defer, Append(aq, x)), x) /\ IsQueue(Append(aq, x))
    BY <1>2, <1>4, FlowMore
  <2> QED
    BY <1>1, <1>5, <2>1 DEF Flow
<1>7. IsCount(count') /\ count'.n = count.n
  BY <1>1, <1>2 DEF IsCount
<1>8. /\ Kept(View, w, {"flow"}) /\ w.flow = Flow' /\ w.pend = View.pend
      /\ w.from = View.from /\ w.n = count'.n /\ w.toapp = View.toapp
  BY <1>1 DEF View, Kept, Queues
<1> HIDE DEF w
<1>9. InFlow(w, x) /\ Absent(View, x.of)
  BY <1>4 DEF InFlow, Absent
<1>10. Grown(View.flow, w.flow, x) /\ w.n = View.n
  BY <1>3, <1>6, <1>7, <1>8
<1>11. Good(w)
  BY <1>3, <1>4, <1>8, <1>9, <1>10, AppSends
<1>12. (Quiet(View) => Quiet(w)) /\ \A t : Single(View, t) => Single(w, t)
  BY <1>3, <1>4, <1>8, <1>10, FlowGrows
<1>13. (pc \notin Waiting => Quiet(w)) /\ (pc \in Waiting => Single(w, tx))
  BY <1>1, <1>12 DEF ProxyInv, Control, Talk
<1> QED
  BY <1>1, <1>6, <1>7, <1>11, <1>13, AppEnds DEF w

LEMMA AppEventStep ==
  ASSUME ProxyInv, AppEvent
  PROVE  ProxyInv'
<1>1. \E rs, cs : aq' = Append(aq, [Packet EXCEPT !.op = "event", !.id = count.ev + 1, !.refs = rs,
                                                  !.means = cs, !.n = count.n + 1])
  BY Zenon DEF AppEvent
<1>2. PICK rs, cs : aq' = Append(aq, [Packet EXCEPT !.op = "event", !.id = count.ev + 1, !.refs = rs,
                                                    !.means = cs, !.n = count.n + 1])
  BY <1>1
<1>3. /\ UNCHANGED <<pc, mode, tx, seqnum, toapp, pend, defer, ldef, job, rf, polled, dlog, dq, asked>>
      /\ Running /\ count' = [ev |-> count.ev + 1, n |-> count.n + 1]
  BY DEF AppEvent, Starting, txVars, taskVars, debuggerVars
<1>4. IsCount(count) /\ IsQueue(ldef) /\ IsQueue(defer) /\ IsQueue(aq)
  BY DEF ProxyInv, Control, Static
<1>5. Good(View) /\ View.n = count.n /\ count.n \in Nat /\ View.flow = Flow /\ IsSeq(View.flow)
  BY ViewFacts, SoundFacts DEF ProxyInv, Good, Order
<1> DEFINE x == [Packet EXCEPT !.op = "event", !.id = count.ev + 1, !.refs = rs, !.means = cs, !.n = count.n + 1]
           w == View'
<1>6. IsPacket(x) /\ x.kind = "cmd" /\ x.of = 0 /\ x.n = count.n + 1 /\ x.op = "event"
  BY <1>4, <1>5 DEF IsPacket, Packet, Fields, IsCount
<1> HIDE DEF x
<1>7. aq' = Append(aq, x)
  BY <1>2 DEF x
<1>8. Grown(Flow, Flow', x) /\ IsQueue(aq')
  <2>1. Grown(FlowOf(ldef, defer, aq), FlowOf(ldef, defer, Append(aq, x)), x) /\ IsQueue(Append(aq, x))
    BY <1>4, <1>6, FlowMore
  <2> QED
    BY <1>3, <1>7, <2>1 DEF Flow
<1>9. IsCount(count') /\ count'.n = count.n + 1
  BY <1>3, <1>4 DEF IsCount
<1>10. /\ Kept(View, w, {"flow"}) /\ w.flow = Flow' /\ w.pend = View.pend
       /\ w.from = View.from /\ w.n = count'.n /\ w.toapp = View.toapp
  BY <1>3 DEF View, Kept, Queues
<1> HIDE DEF w
<1>11. InFlow(w, x) /\ Absent(View, x.of)
  BY <1>6 DEF InFlow, Absent
<1>12. Grown(View.flow, w.flow, x) /\ w.n = View.n + 1 /\ x.n = View.n + 1
  BY <1>5, <1>6, <1>8, <1>9, <1>10
<1>13. Good(w)
  BY <1>5, <1>6, <1>10, <1>11, <1>12, AppSends
<1>14. (Quiet(View) => Quiet(w)) /\ \A t : Single(View, t) => Single(w, t)
  BY <1>5, <1>6, <1>10, <1>12, FlowGrows
<1>15. (pc \notin Waiting => Quiet(w)) /\ (pc \in Waiting => Single(w, tx))
  BY <1>3, <1>14 DEF ProxyInv, Control, Talk
<1> QED
  BY <1>3, <1>8, <1>9, <1>13, <1>15, AppEnds DEF w

(* What the application answers to a command of the proxy's own.           *)
OwnAnswer(q, y) == IsPacket(y) /\ y.kind = "reply" /\ y.of = 0 /\ y.n = 0 /\ y.id = q.id
OwnDump(h) == IsPacket(h) /\ h.kind = "cmd" /\ h.of = 0 /\ h.n = 0

LEMMA AppendConcat ==
  ASSUME NEW s, NEW x, IsSeq(s)
  PROVE  s \o <<x>> = Append(s, x)
<1> DEFINE S == {s[i] : i \in DOMAIN s} \cup {x}
<1>1. s \in Seq(S)
  BY SeqMono DEF IsSeq
<1>2. x \in S
  OBVIOUS
<1> HIDE DEF S
<1>3. s \o <<x>> \in Seq(S) /\ Append(s, x) \in Seq(S)
  BY <1>1, <1>2
<1>4. Len(s \o <<x>>) = Len(Append(s, x)) /\ \A i \in 1 .. Len(s \o <<x>>) : (s \o <<x>>)[i] = Append(s, x)[i]
  BY <1>1, <1>2
<1> QED
  BY <1>3, <1>4, SeqEqual

LEMMA AnswerFacts ==
  ASSUME NEW q, IsPacket(q)
  PROVE  /\ OwnAnswer(q, Answer(q))
         /\ \A z : OwnAnswer(q, [Answer(q) EXCEPT !.arg = z])
         /\ \A z : OwnAnswer(q, [Answer(q) EXCEPT !.err = z])
         /\ \A z : OwnAnswer(q, [Answer(q) EXCEPT !.refs = z])
<1>1. q.id \in Nat
  BY DEF IsPacket
<1>2. OwnAnswer(q, Answer(q)) /\ DOMAIN Answer(q) = Fields
  BY <1>1 DEF OwnAnswer, IsPacket, Answer, Packet, Fields
<1> DEFINE a == Answer(q)
<1> HIDE DEF a
<1>3. OwnAnswer(q, a) /\ DOMAIN a = Fields
  BY <1>2 DEF a
<1>4. \A z : OwnAnswer(q, [a EXCEPT !.arg = z])
  BY <1>3 DEF OwnAnswer, IsPacket, Fields
<1>5. \A z : OwnAnswer(q, [a EXCEPT !.err = z])
  BY <1>3 DEF OwnAnswer, IsPacket, Fields
<1>6. \A z : OwnAnswer(q, [a EXCEPT !.refs = z])
  BY <1>3 DEF OwnAnswer, IsPacket, Fields
<1> QED
  BY <1>2, <1>4, <1>5, <1>6 DEF a

LEMMA PlainAnswer ==
  ASSUME NEW q, IsPacket(q), IsQueue(aq), AppAnswersPlainly(q)
  PROVE  \E y : /\ OwnAnswer(q, y)
                /\ \/ aq' = Append(aq, y)
                   \/ \E h : OwnDump(h) /\ aq' = Append(Append(aq, h), y)
<1> DEFINE h == [Packet EXCEPT !.op = "HPDS", !.arg = HeapDump]
           y == CASE q.op = "SIGNATURE" /\ IsLive(q.refs[1]) -> [Answer(q) EXCEPT !.arg = Sig[reg[q.refs[1]].c]]
                  [] q.op \in {"SIGNATURE", "MODIFIERS"} -> [Answer(q) EXCEPT !.err = ~IsLive(q.refs[1])]
                  [] OTHER -> Answer(q)
<1>1. aq' = (IF q.op = "HEAPDUMP" THEN Append(aq, h) ELSE aq) \o <<y>>
  BY Zenon DEF AppAnswersPlainly
<1>2. OwnDump(h)
  BY DEF OwnDump, IsPacket, Packet, Fields
<1>3. OwnAnswer(q, y)
  <2> DEFINE A == q.op = "SIGNATURE" /\ IsLive(q.refs[1])
             B == q.op \in {"SIGNATURE", "MODIFIERS"}
             a == [Answer(q) EXCEPT !.arg = Sig[reg[q.refs[1]].c]]
             b == [Answer(q) EXCEPT !.err = ~IsLive(q.refs[1])]
             c == Answer(q)
  <2>1. OwnAnswer(q, a) /\ OwnAnswer(q, b) /\ OwnAnswer(q, c)
    BY AnswerFacts
  <2>2. y = CASE A -> a [] B -> b [] OTHER -> c
    OBVIOUS
  <2> HIDE DEF A, B, a, b, c
  <2> HIDE DEF y
  <2>3. y = a \/ y = b \/ y = c
    BY <2>2
  <2> QED
    BY <2>1, <2>3
<1> HIDE DEF h, y
<1>4. IsSeq(aq) /\ IsSeq(Append(aq, h))
  BY AppendGrows DEF IsQueue, Grown
<1>5. aq \o <<y>> = Append(aq, y) /\ Append(aq, h) \o <<y>> = Append(Append(aq, h), y)
  BY <1>4, AppendConcat
<1> QED
  BY <1>1, <1>2, <1>3, <1>5

LEMMA CountedAnswer ==
  ASSUME NEW q, IsPacket(q), AppCounts(q)
  PROVE  \E y : OwnAnswer(q, y) /\ aq' = Append(aq, y)
<1>1. \/ \E z : aq' = Append(aq, [Answer(q) EXCEPT !.refs = z])
      \/ \E z : aq' = Append(aq, [Answer(q) EXCEPT !.arg = z])
      \/ \E z : aq' = Append(aq, [Answer(q) EXCEPT !.err = z])
      \/ aq' = Append(aq, Answer(q))
  BY Zenon DEF AppCounts
<1> QED
  BY <1>1, AnswerFacts


(* The first command or error is taken from the connection.                *)
LEMMA AppTakes ==
  ASSUME ProxyInv, toapp # <<>>, toapp' = Tail(toapp), NEW u,
         Kept(View, u, {"toapp"}), u.toapp = toapp', u.pend = View.pend, u.from = View.from, u.n = View.n
  PROVE  LET q == Head(toapp)
         IN  /\ Good(u) /\ Absent(u, q.of) /\ IsPacket(q) /\ InToapp(View, q)
             /\ Quiet(View) => Quiet(u) /\ ~(q.of = 0 /\ q.kind = "cmd")
             /\ \A t : Single(View, t) => Single(u, t)
             /\ \A t : Single(View, t) /\ q.of = 0 /\ q.kind = "cmd" => Quiet(u) /\ q.id = t /\ t \notin DOMAIN u.pend
<1> DEFINE q == Head(toapp)
           m == 1
           a == "toapp"
<1>1. Good(View) /\ Sound(View) /\ View.toapp = toapp /\ IsSeq(toapp)
  BY ViewFacts, SoundFacts DEF ProxyInv, Good
<1>2. Cut(toapp, toapp', m) /\ q = toapp[m] /\ m \in DOMAIN toapp
  BY <1>1, TailCuts
<1> HIDE DEF m, q
<1>3. /\ Cut(View[a], u[a], m) /\ View[a][m] = q /\ a \in Queues /\ a # "job" /\ Kept(View, u, {a}) /\ a = "toapp"
      /\ u.job = View.job /\ u.flow = View.flow /\ u.dlog = View.dlog
  BY <1>1, <1>2 DEF Kept, Queues
<1>4. Cut(View.toapp, u.toapp, m) /\ View.toapp[m] = q
  BY <1>1, <1>2
<1> HIDE DEF a
<1>5. Sound(u) /\ Absent(u, q.of) /\ IsPacket(q) /\ InQueue(View, a, q)
  <2>1. Sound(u) /\ Absent(u, View[a][m].of) /\ IsPacket(View[a][m]) /\ InQueue(View, a, View[a][m])
    BY <1>1, <1>3, SoundCut
  <2> QED
    BY <1>3, <2>1
<1>6. InToapp(View, q)
  BY <1>3, <1>5 DEF InQueue
<1>7. Order(u)
  BY <1>1, <1>3, OrderKept DEF Good
<1>8. OwnCommand(View, m) <=> q.of = 0 /\ q.kind = "cmd"
  BY <1>4 DEF OwnCommand
<1>9. m \in DOMAIN View.toapp
  BY <1>1, <1>2
<1>10. /\ Quiet(View) => Quiet(u)
       /\ \A t : Single(View, t) => Single(u, t)
       /\ \A t : Single(View, t) /\ OwnCommand(View, m) => Quiet(u) /\ View.toapp[m].id = t /\ t \notin DOMAIN u.pend
  BY <1>1, <1>3, <1>4, ToappCut
<1>11. Quiet(View) => ~OwnCommand(View, m)
  BY <1>9 DEF Quiet
<1> QED
  BY <1>4, <1>5, <1>6, <1>7, <1>8, <1>10, <1>11 DEF Good, q

LEMMA AppHandleStep ==
  ASSUME ProxyInv, AppHandle
  PROVE  ProxyInv'
<1> DEFINE q == Head(toapp)
           u == Changed(View, "toapp", toapp', View.from, View.pend)
           w == View'
<1>1. /\ Running /\ toapp # <<>> /\ toapp' = Tail(toapp)
      /\ UNCHANGED <<pc, mode, tx, seqnum, pend, defer, ldef, job, rf, polled, dlog, dq, asked>>
  BY DEF AppHandle, taskVars, debuggerVars
<1>2. \/ q.kind = "reply" /\ UNCHANGED <<aq, count>>
      \/ q.kind # "reply" /\ q.of # 0 /\ AppAnswersDebugger(q)
      \/ q.kind # "reply" /\ q.of = 0 /\ (AppCounts(q) \/ AppAnswersPlainly(q))
  BY Zenon DEF AppHandle
<1>3. /\ Kept(View, u, {"toapp"}) /\ u.toapp = toapp' /\ u.pend = View.pend /\ u.from = View.from /\ u.n = View.n
      /\ u.flow = View.flow /\ u.ids = View.ids /\ u.rewrite = View.rewrite
      /\ u.dq = View.dq /\ u.job = View.job /\ u.dlog = View.dlog
  BY DEF Changed, Kept, Queues
<1> HIDE DEF u
<1>4. /\ Good(u) /\ Absent(u, q.of) /\ IsPacket(q) /\ InToapp(View, q)
      /\ Quiet(View) => Quiet(u) /\ ~(q.of = 0 /\ q.kind = "cmd")
      /\ \A t : Single(View, t) => Single(u, t)
      /\ \A t : Single(View, t) /\ q.of = 0 /\ q.kind = "cmd" => Quiet(u) /\ q.id = t /\ t \notin DOMAIN u.pend
  BY <1>1, <1>3, AppTakes
<1>5. /\ IsQueue(ldef) /\ IsQueue(defer) /\ IsQueue(aq) /\ IsCount(count)
      /\ View.flow = Flow /\ View.n = count.n /\ count.n \in Nat
  BY ViewFacts DEF ProxyInv, Control, Static, Good, Order
<1>6. /\ Kept(u, w, {"flow"}) /\ w.flow = Flow' /\ w.pend = u.pend /\ w.from = u.from
      /\ w.n = count'.n /\ w.toapp = u.toapp
  <2>1. /\ w.dq = u.dq /\ w.toapp = u.toapp /\ w.dlog = u.dlog /\ w.flow = Flow' /\ w.pend = u.pend
        /\ w.n = count'.n /\ w.ids = u.ids /\ w.rewrite = u.rewrite /\ w.from = u.from
    BY <1>1, <1>3, ViewFacts, ViewFactsP
  <2>2. w.job = u.job
    BY <1>1, <1>3 DEF View
  <2> HIDE DEF w
  <2> QED
    BY <2>1, <2>2 DEF Kept, Queues
<1>7. IsSeq(u.flow) /\ (pc \notin Waiting => Quiet(View)) /\ (pc \in Waiting => Single(View, tx))
  BY <1>1, <1>4, SoundFacts DEF ProxyInv, Control, Talk, Good
<1> HIDE DEF q
<1>8. q.kind # "reply" => q.kind = "cmd"
  BY <1>4 DEF IsPacket
<1>9. CASE q.kind = "reply" /\ UNCHANGED <<aq, count>>
  <2>1. w.flow = u.flow /\ w.n = u.n
    BY <1>1, <1>3, <1>5, <1>6, <1>9 DEF Flow
  <2> HIDE DEF w
  <2>2. \A b \in Queues : w[b] = u[b]
    BY <1>6, <2>1 DEF Kept
  <2>3. Kept(u, w, {}) /\ w.job = u.job /\ w.dlog = u.dlog
    BY <1>6, <2>2 DEF Kept, Queues
  <2>4. Good(w)
    <3>1. Typed(w) /\ Sorts(w) /\ Pends(w) /\ Once(w)
      <4>1. w.dq = u.dq /\ w.job = u.job /\ w.toapp = u.toapp /\ w.flow = u.flow /\ w.dlog = u.dlog
        BY <2>2 DEF Queues
      <4>2. Typed(u) /\ Sorts(u) /\ Pends(u) /\ Once(u)
        BY <1>4 DEF Good, Sound
      <4>3. /\ \A f : Known(w, f) <=> Known(u, f)
            /\ \A a : a # "job" \/ w.from = u.from => \A p : InQueue(w, a, p) <=> InQueue(u, a, p)
        BY <1>6, <2>3, KeptSorts DEF Kept
      <4>4. Typed(w)
        BY <1>6, <2>2, <2>3, <4>1, <4>2 DEF Typed, Kept
      <4>5. Sorts(w)
        BY <1>6, <2>2, <4>2, <4>3 DEF Sorts
      <4>6. Pends(w)
        BY <1>6, <4>1, <4>2, <4>3 DEF Pends
      <4>7. Once(w)
        BY <2>2, <4>2 DEF Once
      <4> QED
        BY <4>4, <4>5, <4>6, <4>7
    <3>2. Order(w)
      BY <1>4, <2>1, <2>3, OrderKept DEF Good
    <3> QED
      BY <3>1, <3>2 DEF Good, Sound
  <2>5. (Quiet(u) => Quiet(w)) /\ \A t : Single(u, t) => Single(w, t)
    BY <1>6, <2>1, QuietKept
  <2>6. (pc \notin Waiting => Quiet(w)) /\ (pc \in Waiting => Single(w, tx))
    BY <1>4, <1>7, <2>5
  <2> QED
    BY <1>1, <1>5, <1>9, <2>4, <2>6, AppEnds DEF w
<1>10. CASE q.kind # "reply" /\ q.of # 0 /\ AppAnswersDebugger(q)
  <2>1. \E y : /\ IsPacket(y) /\ y.kind = "reply" /\ y.of = q.of /\ y.id = q.id /\ y.n = count.n + 1
               /\ aq' = Append(aq, y)
    <3> DEFINE r == [Answer(q) EXCEPT !.of = q.of, !.n = count.n + 1]
    <3>1. q.id \in Nat /\ q.of \in Nat /\ count.n + 1 \in Nat
      BY <1>4, <1>5 DEF IsPacket
    <3>2. DOMAIN r = Fields /\ r.kind = "reply" /\ r.of = q.of /\ r.id = q.id /\ r.n = count.n + 1
      BY DEF Answer, Packet, Fields
    <3>3. \/ \E rs, cs : aq' = Append(aq, [r EXCEPT !.refs = rs, !.means = cs])
          \/ aq' = Append(aq, [r EXCEPT !.err = TRUE])
      BY <1>10, Zenon DEF AppAnswersDebugger
    <3> HIDE DEF r
    <3>4. ASSUME NEW rs, NEW cs, aq' = Append(aq, [r EXCEPT !.refs = rs, !.means = cs])
          PROVE  \E y : /\ IsPacket(y) /\ y.kind = "reply" /\ y.of = q.of /\ y.id = q.id /\ y.n = count.n + 1
                        /\ aq' = Append(aq, y)
      <4> DEFINE y == [r EXCEPT !.refs = rs, !.means = cs]
      <4>1. IsPacket(y) /\ y.kind = "reply" /\ y.of = q.of /\ y.id = q.id /\ y.n = count.n + 1
        BY <3>1, <3>2 DEF IsPacket, Fields
      <4> HIDE DEF y
      <4>2. aq' = Append(aq, y)
        BY <3>4 DEF y
      <4> QED
        BY <4>1, <4>2
    <3>5. ASSUME aq' = Append(aq, [r EXCEPT !.err = TRUE])
          PROVE  \E y : /\ IsPacket(y) /\ y.kind = "reply" /\ y.of = q.of /\ y.id = q.id /\ y.n = count.n + 1
                        /\ aq' = Append(aq, y)
      <4> DEFINE y == [r EXCEPT !.err = TRUE]
      <4>1. IsPacket(y) /\ y.kind = "reply" /\ y.of = q.of /\ y.id = q.id /\ y.n = count.n + 1
        BY <3>1, <3>2 DEF IsPacket, Fields
      <4> HIDE DEF y
      <4>2. aq' = Append(aq, y)
        BY <3>5 DEF y
      <4> QED
        BY <4>1, <4>2
    <3> QED
      BY <3>3, <3>4, <3>5
  <2>2. PICK y : /\ IsPacket(y) /\ y.kind = "reply" /\ y.of = q.of /\ y.id = q.id /\ y.n = count.n + 1
                 /\ aq' = Append(aq, y)
    BY <2>1
  <2>3. IsCount(count') /\ count'.n = count.n + 1
    BY <1>5, <1>10 DEF AppAnswersDebugger, IsCount
  <2>4. Grown(Flow, Flow', y) /\ IsQueue(aq')
    <3>1. Grown(FlowOf(ldef, defer, aq), FlowOf(ldef, defer, Append(aq, y)), y) /\ IsQueue(Append(aq, y))
      BY <1>5, <2>2, FlowMore
    <3> QED
      BY <1>1, <2>2, <3>1 DEF Flow
  <2> HIDE DEF w
  <2>5. Grown(u.flow, w.flow, y) /\ y.n = u.n + 1 /\ w.n = u.n + 1
    BY <1>3, <1>5, <1>6, <2>2, <2>3, <2>4
  <2>6. InFlow(w, y)
    <3>1. Known(View, q.of) /\ Carried(View, q)
      BY <1>4, <1>8, <1>10 DEF InToapp
    <3>2. Known(w, y.of) /\ Carried(w, y)
      BY <1>3, <1>6, <2>2, <3>1 DEF Known, Carried, Kept
    <3> QED
      BY <1>10, <2>2, <3>2 DEF InFlow
  <2>7. Good(w)
    BY <1>4, <1>6, <2>2, <2>5, <2>6, AppSends
  <2>8. (Quiet(u) => Quiet(w)) /\ \A t : Single(u, t) => Single(w, t)
    BY <1>6, <1>7, <1>10, <2>2, <2>5, FlowGrows
  <2>9. (pc \notin Waiting => Quiet(w)) /\ (pc \in Waiting => Single(w, tx))
    BY <1>4, <1>7, <2>8
  <2> QED
    BY <1>1, <2>3, <2>4, <2>7, <2>9, AppEnds DEF w
<1>11. CASE q.kind # "reply" /\ q.of = 0 /\ (AppCounts(q) \/ AppAnswersPlainly(q))
  <2>1. PICK y : /\ OwnAnswer(q, y)
                 /\ \/ aq' = Append(aq, y)
                    \/ \E h : OwnDump(h) /\ aq' = Append(Append(aq, h), y)
    <3>1. AppCounts(q) => \E y : OwnAnswer(q, y) /\ aq' = Append(aq, y)
      BY <1>4, CountedAnswer
    <3>2. AppAnswersPlainly(q) => \E y : /\ OwnAnswer(q, y)
                                         /\ \/ aq' = Append(aq, y)
                                            \/ \E h : OwnDump(h) /\ aq' = Append(Append(aq, h), y)
      BY <1>4, <1>5, PlainAnswer
    <3> QED
      BY <1>11, <3>1, <3>2
  <2>2. count' = count
    BY <1>11 DEF AppCounts, AppAnswersPlainly
  <2>3. IsPacket(y) /\ y.kind = "reply" /\ y.of = 0 /\ y.n = 0 /\ y.id = q.id
    BY <2>1 DEF OwnAnswer
  <2>4. q.kind = "cmd" /\ pc \in Waiting /\ Quiet(u) /\ q.id = tx /\ tx \notin DOMAIN u.pend
    BY <1>4, <1>7, <1>8, <1>11
  <2> HIDE DEF w
  <2>5. w.n = u.n
    BY <1>3, <1>5, <1>6, <2>2
  <2>6. ASSUME NEW v, Good(v), Quiet(v), Grown(v.flow, w.flow, y), Kept(v, w, {"flow"}), w.pend = v.pend,
               w.from = v.from, w.n = v.n, w.toapp = v.toapp, v.pend = u.pend
        PROVE  Good(w) /\ Single(w, tx)
    <3>1. InFlow(w, y) /\ Absent(v, y.of)
      BY <2>3 DEF InFlow, Absent
    <3>2. Good(w)
      BY <2>3, <2>6, <3>1, AppSends
    <3>3. IsSeq(v.flow)
      BY <2>6, SoundFacts DEF Good
    <3>4. Single(w, y.id)
      BY <2>3, <2>4, <2>6, <3>3, FlowGrows
    <3> QED
      BY <2>3, <2>4, <3>2, <3>4
  <2>7. CASE aq' = Append(aq, y)
    <3>1. Grown(FlowOf(ldef, defer, aq), FlowOf(ldef, defer, Append(aq, y)), y) /\ IsQueue(Append(aq, y))
      BY <1>5, <2>3, FlowMore
    <3>2. Grown(Flow, Flow', y) /\ IsQueue(aq')
      BY <1>1, <2>7, <3>1 DEF Flow
    <3>3. Grown(u.flow, w.flow, y)
      BY <1>3, <1>5, <1>6, <3>2
    <3>4. Good(w) /\ Single(w, tx)
      BY <1>4, <1>6, <2>4, <2>5, <2>6, <3>3
    <3> QED
      BY <1>1, <1>5, <2>2, <2>4, <3>2, <3>4, AppEnds DEF w
  <2>8. CASE \E h : OwnDump(h) /\ aq' = Append(Append(aq, h), y)
    <3>1. PICK h : OwnDump(h) /\ aq' = Append(Append(aq, h), y)
      BY <2>8
    <3>2. IsPacket(h) /\ h.kind = "cmd" /\ h.of = 0 /\ h.n = 0
      BY <3>1 DEF OwnDump
    <3> DEFINE b == Append(aq, h)
               f == FlowOf(ldef, defer, b)
               v == Changed(u, "flow", f, u.from, u.pend)
    <3>3. Grown(Flow, f, h) /\ IsQueue(b)
      BY <1>5, <3>2, FlowMore DEF Flow
    <3> HIDE DEF b
    <3>4. Grown(f, FlowOf(ldef, defer, Append(b, y)), y) /\ IsQueue(Append(b, y))
      BY <1>5, <2>3, <3>3, FlowMore
    <3>5. Grown(f, Flow', y) /\ IsQueue(aq')
      BY <1>1, <3>1, <3>4 DEF Flow, b
    <3> HIDE DEF f
    <3>6. /\ Kept(u, v, {"flow"}) /\ v.flow = f /\ v.pend = u.pend /\ v.from = u.from /\ v.n = u.n
          /\ v.toapp = u.toapp /\ v.dq = u.dq /\ v.job = u.job /\ v.dlog = u.dlog
          /\ v.ids = u.ids /\ v.rewrite = u.rewrite
      BY DEF Changed, Kept, Queues
    <3> HIDE DEF v
    <3>7. Grown(u.flow, v.flow, h) /\ InFlow(v, h) /\ Absent(u, h.of)
      BY <1>3, <1>5, <3>2, <3>3, <3>6 DEF InFlow, Absent
    <3>8. Good(v)
      BY <1>4, <3>2, <3>6, <3>7, AppSends
    <3>9. Quiet(v)
      BY <1>7, <2>4, <3>2, <3>6, <3>7, FlowGrows
    <3>10. Kept(v, w, {"flow"}) /\ Grown(v.flow, w.flow, y)
      BY <1>6, <3>5, <3>6 DEF Kept, Queues
    <3>11. Good(w) /\ Single(w, tx)
      BY <1>6, <2>5, <2>6, <3>6, <3>8, <3>9, <3>10
    <3> QED
      BY <1>1, <1>5, <2>2, <2>4, <3>5, <3>11, AppEnds DEF w
  <2> QED
    BY <2>1, <2>7, <2>8
<1> QED
  BY <1>2, <1>9, <1>10, <1>11 DEF q


----------------------------------------------------------------------------
(* The debugger, whose identifiers are new.                                *)

LEMMA DebuggerSendsStep ==
  ASSUME ProxyInv, DebuggerSends
  PROVE  ProxyInv'
<1> DEFINE id == FirstId + Len(asked)
           cmd == [Packet EXCEPT !.id = id, !.of = id]
<1>1. /\ Running /\ dlog # <<>> /\ Len(asked) < MaxCmds
      /\ UNCHANGED <<pc, mode, tx, seqnum, toapp, pend, defer, ldef, aq, job, rf, polled, dlog, count>>
  BY DEF DebuggerSends, Starting, txVars, queueVars, taskVars, appVars
<1>2. \/ asked' = Append(asked, "plain") /\ dq' = Append(dq, [cmd EXCEPT !.op = "query"])
      \/ \E r, z : asked' = Append(asked, "query")
                   /\ dq' = Append(dq, [cmd EXCEPT !.op = "query", !.refs = r, !.means = z])
      \/ \E r, z : asked' = Append(asked, "wrong")
                   /\ dq' = Append(dq, [cmd EXCEPT !.op = "query", !.refs = r, !.means = z])
      \/ asked' = Append(asked, "all") /\ dq' = Append(dq, [cmd EXCEPT !.op = "allclasses"])
      \/ \E l : asked' = Append(asked, "visible") /\ dq' = Append(dq, [cmd EXCEPT !.op = "visibleclasses", !.arg = l])
      \/ asked' = Append(asked, "unsupported") /\ dq' = Append(dq, [cmd EXCEPT !.op = "unsupported"])
      \/ asked' = Append(asked, "stray") /\ dq' = Append(dq, [cmd EXCEPT !.kind = "reply"])
  BY Zenon DEF DebuggerSends
<1>3. IsSeq(asked) /\ Len(asked) \in Nat /\ FirstId \in Nat \ {0} /\ IsQueue(aq) /\ IsCount(count)
  BY JdwpAssumption, SeqFacts DEF ProxyInv, Control, Static
<1>4. id \in Nat /\ id # 0
  BY <1>3
<1> DEFINE Asked(x) == IsPacket(x) /\ x.of = id /\ x.id = id /\ x.n = 0
<1>5. DOMAIN cmd = Fields /\ cmd.kind = "cmd" /\ cmd.of = id /\ cmd.id = id /\ cmd.n = 0
  BY DEF Packet, Fields
<1> HIDE DEF cmd, id
<1>6. PICK label, x : asked' = Append(asked, label) /\ dq' = Append(dq, x) /\ Asked(x)
  <2>1. Asked([cmd EXCEPT !.op = "query"])
    BY <1>4, <1>5 DEF IsPacket, Fields
  <2>2. \A r, z : Asked([cmd EXCEPT !.op = "query", !.refs = r, !.means = z])
    BY <1>4, <1>5 DEF IsPacket, Fields
  <2>3. Asked([cmd EXCEPT !.op = "allclasses"])
    BY <1>4, <1>5 DEF IsPacket, Fields
  <2>4. \A l : Asked([cmd EXCEPT !.op = "visibleclasses", !.arg = l])
    BY <1>4, <1>5 DEF IsPacket, Fields
  <2>5. Asked([cmd EXCEPT !.op = "unsupported"])
    BY <1>4, <1>5 DEF IsPacket, Fields
  <2>6. Asked([cmd EXCEPT !.kind = "reply"])
    BY <1>4, <1>5 DEF IsPacket, Fields
  <2> HIDE DEF Asked
  <2> QED
    BY <1>2, <2>1, <2>2, <2>3, <2>4, <2>5, <2>6, Zenon
<1>7. IsSeq(asked') /\ Len(asked') = Len(asked) + 1
  BY <1>3, <1>6, AppendGrows DEF Grown
<1> DEFINE u == [View EXCEPT !.ids = Len(asked')]
           w == View'
           a == "dq"
<1>8. Flow' = Flow
  BY <1>1 DEF Flow
<1>9. /\ u.ids = View.ids + 1 /\ View.ids = Len(asked) /\ u.rewrite = View.rewrite /\ u.from = View.from
      /\ u.pend = View.pend /\ u.n = View.n /\ u.dq = dq /\ u.flow = View.flow /\ u.toapp = View.toapp
      /\ u.dlog = View.dlog /\ u.job = View.job /\ View.dq = dq
  BY <1>7 DEF View
<1>10. /\ w.ids = u.ids /\ w.rewrite = u.rewrite /\ w.from = u.from /\ w.pend = u.pend /\ w.n = u.n
       /\ w.dq = dq' /\ w.flow = u.flow /\ w.toapp = u.toapp /\ w.dlog = u.dlog /\ w.job = u.job
  BY <1>1, <1>8 DEF View
<1> HIDE DEF u, w
<1>11. Sound(View) /\ Order(View) /\ IsSeq(dq)
  BY <1>9, SoundFacts DEF ProxyInv, Good
<1>12. Sound(u) /\ Known(u, id) /\ Absent(u, id) /\ Unpended(u, id)
  <2>1. \A b \in Queues : u[b] = View[b]
    BY <1>9 DEF Queues
  <2>2. Sound(u) /\ Known(u, FirstId + View.ids) /\ Absent(u, FirstId + View.ids) /\ Unpended(u, FirstId + View.ids)
    BY <1>1, <1>9, <1>11, <2>1, SoundAsks
  <2> QED
    BY <1>9, <2>2 DEF id
<1>13. Sound(w)
  <2>1. Grown(dq, dq', x)
    BY <1>6, <1>11, AppendGrows
  <2>2. Kept(u, w, {a}) /\ Grown(u[a], w[a], x) /\ a \in Queues /\ a = "dq"
    BY <1>9, <1>10, <2>1 DEF Kept, Queues
  <2> HIDE DEF a
  <2>3. IsPacket(x) /\ x.of = id /\ x.id = id /\ x.n = 0
    BY <1>6
  <2>4. InQueue(w, a, x) /\ Opens(u, w, a)
    BY <1>10, <1>12, <2>2, <2>3 DEF InQueue, Asks, Known, Opens
  <2>5. Absent(u, x.of) /\ Unpended(u, x.of)
    BY <1>12, <2>3
  <2> QED
    BY <1>10, <1>12, <2>2, <2>3, <2>4, <2>5, SoundGrows
<1>14. Order(w)
  BY <1>9, <1>10, <1>11, OrderKept
<1>15. Good(w) /\ (Quiet(View) => Quiet(w)) /\ \A t : Single(View, t) => Single(w, t)
  BY <1>9, <1>10, <1>13, <1>14, QuietKept DEF Good
<1>16. Static'
  <2>1. IsQueue(defer') /\ IsQueue(ldef') /\ IsQueue(aq') /\ seqnum' \in Nat /\ IsCount(count')
    BY <1>1 DEF ProxyInv, Control, Static
  <2> QED
    BY <1>1, <1>7, <2>1, RfSame, StaticStep
<1>17. Where'
  BY <1>1 DEF ProxyInv, Control, Where, Running, NoJob, Packet
<1>18. Talk'
  BY <1>1, <1>15 DEF ProxyInv, Control, Talk, Running, w
<1> QED
  BY <1>15, <1>16, <1>17, <1>18 DEF ProxyInv, Control, w

----------------------------------------------------------------------------
(* The start, every step, and what follows.                                *)

LEMMA ProxyInit ==
  ASSUME Init
  PROVE  ProxyInv
<1>1. /\ pc = "connect" /\ mode \in [rewrite : BOOLEAN, suspend : BOOLEAN] /\ seqnum = 0 /\ pend = <<>>
      /\ defer = <<>> /\ ldef = <<>> /\ aq = <<>> /\ dq = <<>> /\ toapp = <<>> /\ dlog = <<>>
      /\ job = NoJob /\ rf = NoRf /\ polled = {} /\ count = [ev |-> 0, n |-> 0] /\ asked = <<>>
  BY DEF Init
<1> DEFINE v == View
<1>2. Flow = <<>>
  BY <1>1, EmptyFacts, ConcatEmpty, FlowEmpty DEF Flow
<1>3. count.n = 0 /\ IsCount(count)
  BY <1>1 DEF IsCount
<1>4. /\ v.dq = <<>> /\ v.job = <<>> /\ v.toapp = <<>> /\ v.flow = <<>> /\ v.dlog = <<>> /\ v.pend = <<>>
      /\ v.from = "none" /\ v.ids = 0 /\ v.n = 0
  BY <1>1, <1>2, <1>3, ViewFacts, PacketFacts
<1> HIDE DEF v
<1>5. \A a \in Queues : v[a] = <<>>
  BY <1>4 DEF Queues
<1>6. \A a \in Queues : IsQueue(v[a]) /\ DOMAIN v[a] = {}
  BY <1>5, EmptyFacts
<1>7. Typed(v)
  <2>1. Len(v.job) = 0 /\ DOMAIN v.pend = {}
    BY <1>4, EmptyFacts
  <2>2. v.ids \in 0 .. MaxCmds
    BY <1>4, JdwpAssumption
  <2>3. Len(v.job) <= 1
    BY <2>1
  <2> QED
    BY <1>4, <1>6, <2>1, <2>2, <2>3 DEF Typed
<1>8. Sorts(v) /\ Once(v)
  BY <1>6 DEF Sorts, Once
<1>9. Pends(v)
  BY <1>4, EmptyFacts DEF Pends
<1>10. Order(v)
  <2>1. Numbered(<<>>, 0, 0)
    BY NumberedEmpty
  <2> QED
    BY <1>4, <2>1 DEF Order
<1>11. Good(v) /\ Quiet(v)
  BY <1>4, <1>7, <1>8, <1>9, <1>10, EmptyFacts DEF Good, Sound, Quiet
<1>12. Static
  <2>1. IsQueue(defer) /\ IsQueue(ldef) /\ IsQueue(aq) /\ seqnum \in Nat /\ mode.rewrite \in BOOLEAN /\ IsSeq(asked)
    BY <1>1, EmptyFacts
  <2> QED
    BY <1>1, <1>3, <2>1, PacketFacts DEF Static
<1>13. Where
  BY <1>1 DEF Where, StartPcs
<1>14. Talk
  BY <1>1, <1>11 DEF Talk, Waiting, v
<1> QED
  BY <1>11, <1>12, <1>13, <1>14 DEF ProxyInv, Control, v

LEMMA ProxyStep ==
  ASSUME ProxyInv, [Next]_vars
  PROVE  ProxyInv'
<1>1. CASE Connect \/ EndStartup \/ EndHeapDump \/ Learn \/ Accept
  BY <1>1, ConnectStep, EndStartupStep, EndHeapDumpStep, LearnStep, AcceptStep
<1>2. CASE SetAside \/ TransactionFails \/ EndOfInput
  BY <1>2, SetAsideStep, TransactionFailsStep, EndOfInputStep
<1>3. CASE EndDispose \/ EndClassloader \/ EndLoaderCommand \/ EndSignature \/ EndModifiers
  BY <1>3, EndDisposeStep, EndClassloaderStep, EndLoaderCommandStep, EndSignatureStep, EndModifiersStep
<1>4. CASE EndClassesBySignature \/ Refreshed
  BY <1>4, EndClassesBySignatureStep, RefreshedStep
<1>5. CASE TranslateToDebugger \/ TranslatedToDebugger \/ TranslateToApp \/ TranslatedToApp \/ Deliver
  BY <1>5, TranslateToDebuggerStep, TranslatedToDebuggerStep, TranslateToAppStep, TranslatedToAppStep, DeliverStep
<1>6. CASE Poll \/ Forward \/ UnknownCommand \/ ListClasses \/ BeginCommand \/ DropReply \/ BeginReply
  BY <1>6, PollStep, ForwardStep, UnknownCommandStep, ListClassesStep, BeginCommandStep, DropReplyStep, BeginReplyStep
<1>7. CASE AppHandle \/ AppEvent \/ AppUnsupported \/ (\E l \in Loaders : AppUnloads(l)) \/ DebuggerSends
           \/ \E s \in Sides : Leave(s)
  BY <1>7, AppHandleStep, AppEventStep, AppUnsupportedStep, AppUnloadsStep, DebuggerSendsStep, LeaveStep
<1>8. CASE UNCHANGED vars
  BY <1>8, Stutters
<1> QED
  BY <1>1, <1>2, <1>3, <1>4, <1>5, <1>6, <1>7, <1>8 DEF Next, Proxy

LEMMA InOrder ==
  ASSUME ProxyInv
  PROVE  PacketsInOrder
<1>1. IsQueue(dlog) /\ Order(View) /\ View.dlog = dlog
  BY ViewFacts, SoundFacts DEF ProxyInv, Good
<1>2. PICK k \in Nat : Numbered(dlog, 0, k)
  BY <1>1 DEF Order
<1>3. DOMAIN dlog = 1 .. Len(dlog) /\ Len(dlog) \in Nat /\ \A i \in DOMAIN dlog : dlog[i].n \in Nat
  BY <1>1, SeqFacts DEF IsQueue, IsPacket
<1>4. ASSUME NEW i \in DOMAIN dlog, NEW j \in 1 .. i - 1, dlog[i].n > 0 PROVE dlog[j].n < dlog[i].n
  <2>1. j \in DOMAIN dlog /\ j < i
    BY <1>3
  <2>2. dlog[j].n > 0 => dlog[j].n < dlog[i].n
    BY <1>2, <1>4, <2>1 DEF Numbered
  <2> QED
    BY <1>3, <1>4, <2>1, <2>2
<1>5. ASSUME NEW i \in DOMAIN dlog, NEW n \in 1 .. dlog[i].n - 1 PROVE \E j \in 1 .. i - 1 : dlog[j].n = n
  <2>1. dlog[i].n \in Nat /\ n \in Nat /\ n > 0 /\ n < dlog[i].n /\ dlog[i].n > 0
    BY <1>3
  <2>2. n \in (0 + 1) .. k
    BY <1>2, <2>1 DEF Numbered
  <2>3. PICK j \in DOMAIN dlog : dlog[j].n = n
    BY <1>2, <2>2 DEF Numbered
  <2>4. ~(i < j) /\ i # j
    BY <1>2, <2>1, <2>3 DEF Numbered
  <2>5. j \in 1 .. i - 1
    BY <1>3, <2>4
  <2> QED
    BY <2>3, <2>5
<1> QED
  BY <1>4, <1>5 DEF PacketsInOrder

LEMMA Match ==
  ASSUME ProxyInv, Narrow
  PROVE  RepliesMatch
<1>1. Sorts(View) /\ Once(View) /\ View.dlog = dlog /\ "dlog" \in Queues
  BY ViewFacts DEF ProxyInv, Good, Sound, Queues
<1>2. \A i \in DOMAIN dlog : InDlog(View, dlog[i])
  BY <1>1 DEF Sorts, InQueue
<1>3. \A i, j \in DOMAIN dlog : dlog[i].of # 0 /\ dlog[i].of = dlog[j].of => i = j
  BY <1>1 DEF Once
<1> QED
  BY <1>2, <1>3 DEF RepliesMatch, InDlog

LEMMA ProxyInvariant == Spec => []ProxyInv
<1>1. Init => ProxyInv
  BY ProxyInit
<1>2. ProxyInv /\ [Next]_vars => ProxyInv'
  BY ProxyStep
<1> QED
  BY <1>1, <1>2, PTL DEF Spec

(* However many transactions set packets aside, and however often a        *)
(* translation fails, the application's events and answers reach the       *)
(* debugger in the order they were sent and none is left out               *)
(* (jdwp_transact_with_app, jdwp_defer_packet_from_app).                   *)
THEOREM ProxyInOrder == Spec => []PacketsInOrder
<1>1. ProxyInv => PacketsInOrder
  BY InOrder
<1> QED
  BY <1>1, ProxyInvariant, PTL

(* Every answer carries the identifier of the command it answers, and no   *)
(* command is answered twice, for any width of identifiers that wrap       *)
(* around (make_jdwp_id, on_jdwp_reply).  The debugger's identifiers fit   *)
(* into the 16 bits that send_generic_reply keeps.                         *)
THEOREM ProxyRepliesMatch ==
  ASSUME Narrow
  PROVE  Spec => []RepliesMatch
<1>1. ProxyInv => RepliesMatch
  BY Match
<1> QED
  BY <1>1, ProxyInvariant, PTL
============================================================================

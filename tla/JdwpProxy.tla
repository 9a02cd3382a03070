----------------------------- MODULE JdwpProxy -----------------------------
(***************************************************************************)
(* The JDWP proxy (cmd_jdwp.c) between a debugger and an application.      *)
(*                                                                         *)
(* The debugger is shown fake reference type identifiers, which last; the  *)
(* application's real ones are counted in a cache that is given back when  *)
(* it is full.  To learn what a real identifier is, the proxy sends        *)
(* commands of its own (transactions) and sets aside whatever else the     *)
(* application sends meanwhile.                                            *)
(*                                                                         *)
(* The proxy is sequential: pc is what it does, or the transaction whose   *)
(* reply it waits for.  A packet is [kind, op, id, err, refs, arg] and, to *)
(* state properties only, what it is about: of (the debugger's command it  *)
(* answers, 0 for none), means (the classes refs stand for), n (its number *)
(* among the packets the application meant for the debugger, 0 if it is    *)
(* not one).  How refs are found in the bytes is JdwpWire's matter.        *)
(***************************************************************************)
EXTENDS Integers, Sequences, FiniteSets, SequencesExt, FiniteSetsExt

CONSTANTS
  Classes,       \* the application's classes
  Name,          \* [Classes -> [base, dims]]: as a heap dump names them
  Sig,           \* [Classes -> [dims, code]]: as the VM names them
  Loader,        \* [Classes -> Nat], 0 for the system's class loader
  System,        \* the classes loaded before the proxy starts
  CacheMax,      \* real_reftype_cache_max
  DisposeBatch,  \* max_disposes_per_packet
  IdMod,         \* packet identifiers are below it (2^32)
  FirstId,       \* the identifier of the debugger's first command
  MaxEvents,     \* bound: events of the application
  MaxCmds,       \* bound: commands of the debugger
  MaxUnloads     \* bound: unloaded class loaders

ASSUME JdwpAssumption ==
  /\ System \subseteq Classes
  /\ CacheMax \in Nat \ {0} /\ DisposeBatch \in Nat \ {0} /\ FirstId \in Nat \ {0}
  /\ IdMod \in Nat /\ IdMod > MaxCmds + 1
  /\ MaxEvents \in Nat /\ MaxCmds \in Nat /\ MaxUnloads \in Nat

Loaders == {Loader[c] : c \in Classes}

(* Identifiers are 32 bits wide, but send_generic_reply takes 16 of them.  *)
U16 == 65536

VARIABLES
  pc,
  mode,          \* [rewrite, suspend]: JDWP_MODE_REWRITE; suspended as requested
  tx, seqnum,    \* the transaction's identifier or NoTx; the next identifier
  pend,          \* pending_packets: identifier |-> original_id
  defer, ldef,   \* deferred_from_app; a transaction's own list, newest first
  cls,           \* classloaders
  fakes,         \* fake_id |-> [cl, sig, real, unl]; real is 0 for none
  cache,         \* real_reftype_cache: real id |-> [n, fake]; fake is 0 for none
  job,           \* the packet that is translated: [p, from, i], or NoJob
  rf,            \* refresh_classes_with_signature: [on, sig, ids], or NoRf
  ca,            \* translate_and_cache_real_reftype: [id, cl, sig], or NoCa
  sigs,          \* signatures still to refresh at the start
  polled,        \* the sides poll found ready and that are still to read
  dq, aq,        \* from the debugger, from the application
  toapp,         \* to the application
  dlog,          \* everything sent to the debugger
  loaded, reg,   \* application: loaded classes; real id |-> [c, n], n is its count
  lref, pinned,  \* application: counts of loaders; loaders that are not collected
  susp,          \* application: suspend count
  dead,          \* application: unloaded class loaders
  count,         \* application: [ev, n]: its events; its packets for the debugger
  asked,         \* what the debugger's commands ask
  flushed,       \* to state properties: <<of, i>>, the references of commands
                 \* that were translated before a flush in the same packet
  gone           \* the sides that closed their connection

txVars == <<tx, seqnum, toapp>>
knownVars == <<cls, fakes, cache>>
taskVars == <<job, rf, ca, sigs>>
queueVars == <<defer, ldef, aq>>
appVars == <<loaded, reg, lref, pinned, susp, dead, count>>
debuggerVars == <<dq, asked, flushed>>
vars == <<pc, mode, txVars, pend, queueVars, knownVars, taskVars, polled, dlog,
          appVars, debuggerVars, gone>>

NoTx == -1
Packet == [kind |-> "cmd", op |-> "none", id |-> 0, err |-> FALSE, refs |-> <<>>,
           arg |-> <<>>, of |-> 0, means |-> <<>>, n |-> 0]
NoJob == [p |-> Packet, from |-> "none", i |-> 0]
NoRf == [on |-> FALSE, sig |-> <<>>, ids |-> <<>>]
NoCa == [id |-> 0, cl |-> 0, sig |-> <<>>]

----------------------------------------------------------------------------
(* Transactions                                                            *)

(* Mutant: an identifier that is still pending is given out again.         *)
PlainId(s) == s

(* Functions as tables.                                                    *)
Without(f, S) == [x \in DOMAIN f \ S |-> f[x]]
With(f, k, v) == [x \in DOMAIN f \cup {k} |-> IF x = k THEN v ELSE f[x]]

(* The commands of the debugger that the application has not answered.     *)
peek_pending_packet(id) == id \in DOMAIN pend
mark_packet_pending(id, original) == pend' = With(pend, id, original)
pop_pending_packet(id) == pend' = Without(pend, {id})

(* make_jdwp_id                                                            *)
make_jdwp_id(s) ==
  (s + Min({k \in 0 .. IdMod - 1 : ~peek_pending_packet((s + k) % IdMod)})) % IdMod

(* Begin a transaction (jdwp_transact_with_app); seqnum is s.              *)
TransactFrom(s, op, refs, arg) ==
  LET id == make_jdwp_id(s)
  IN  /\ pc' = op
      /\ tx' = id
      /\ seqnum' = (id + 1) % IdMod
      /\ toapp' = Append(toapp, [Packet EXCEPT !.op = op, !.id = id, !.refs = refs, !.arg = arg])

Transact(op, refs, arg) == TransactFrom(seqnum, op, refs, arg)

Waiting == {"IDSIZES", "VERSION", "SUSPEND_AS_ASKED", "SUSPEND", "HEAPDUMP", "RESUME",
            "CLASSESBYSIGNATURE", "CLASSLOADER", "DISABLECOLLECTION", "DISPOSE_LOADER",
            "SIGNATURE", "MODIFIERS", "DISPOSE"}

(* jdwp_read_packet_from_app: the next packet, if there is one.            *)
FromApp == IF defer # <<>> THEN {Head(defer)} ELSE IF aq # <<>> THEN {Head(aq)} ELSE {}
DeferLeft == IF defer # <<>> THEN Tail(defer) ELSE defer
AqLeft == IF defer # <<>> THEN aq ELSE Tail(aq)

IsReply(p) == p.kind = "reply" /\ p.id = tx

(* The transaction's list, popped from its head, is pushed on the head of  *)
(* the deferred packets (jdwp_defer_packet_from_app).                      *)
Deferred(d, l) == Reverse(l) \o d

(* A packet that is not the reply is set aside.                            *)
SetAside ==
  /\ pc \in Waiting
  /\ \E p \in FromApp : ~IsReply(p) /\ ldef' = <<p>> \o ldef
  /\ defer' = DeferLeft /\ aq' = AqLeft
  /\ UNCHANGED <<pc, mode, txVars, pend, knownVars, taskVars, polled, dlog, appVars,
                 debuggerVars, gone>>

(* The transaction ends with reply p.                                      *)
Reply(p) ==
  /\ p \in FromApp /\ IsReply(p)
  /\ defer' = Deferred(DeferLeft, ldef)
  /\ aq' = AqLeft
  /\ ldef' = <<>>

(* An error is thrown (die_jdwp) by the transaction that waits.            *)
Ended(op, p) == pc = op /\ Reply(p) /\ ~p.err

----------------------------------------------------------------------------
(* What the proxy knows of classes                                         *)

(* A fake reference type, which is kept for ever, and a real one.          *)
NewFake(cl, sig, real) == [cl |-> cl, sig |-> sig, real |-> real, unl |-> FALSE]
NewReal == [n |-> 1, fake |-> 0]

find_real_reftype_by_real_id(id) == id \in DOMAIN cache
find_fake_reftype_by_id(f) == f \in DOMAIN fakes

(* The entries that one packet gives back: the least identifiers.          *)
Victims(c) == {r \in DOMAIN c : Cardinality({x \in DOMAIN c : x < r}) < DisposeBatch}

(* flush_reftype_cache_1, up to its transaction                            *)
TransactDispose(c) ==
  LET rs == SetToSortSeq(Victims(c), <)
  IN  Transact("DISPOSE", rs, [i \in 1 .. Len(rs) |-> c[rs[i]].n])

(* translate_and_cache_real_reftype: an identifier that is known is        *)
(* counted; a new one gets a place, made by a flush if need be, and its    *)
(* class loader is asked for.  The result of the known one is used at      *)
(* once, and its fake may be missing.                                      *)
fetch_classloader_for_reftype(id) == Transact("CLASSLOADER", <<id>>, <<>>)

Insert(c, id) ==
  cache' = With(c, id, NewReal) /\ fetch_classloader_for_reftype(id)

Cache(id) ==
  /\ ca' = [NoCa EXCEPT !.id = id]
  /\ IF find_real_reftype_by_real_id(id)
     THEN /\ cache' = [cache EXCEPT ![id].n = @ + 1]
          /\ pc' = IF cache[id].fake = 0 THEN "crash" ELSE "cached"
          /\ UNCHANGED txVars
     ELSE IF Cardinality(DOMAIN cache) >= CacheMax
     THEN TransactDispose(cache) /\ cache' = cache
     ELSE Insert(cache, id)

(* Mutant: a fake reference type keeps its real one.                       *)
KeepReal(fs, S) == fs

(* The fake reference types of real ones in S have none any more.          *)
Unlink(fs, S) == [f \in DOMAIN fs |-> IF fs[f].real \in S THEN [fs[f] EXCEPT !.real = 0] ELSE fs[f]]

(* flush_reftype_cache_1 after its transaction, and the loop of            *)
(* flush_reftype_cache.                                                    *)
EndDispose ==
  /\ \E p \in FromApp : Ended("DISPOSE", p)
  /\ LET rest == Without(cache, Victims(cache))
     IN  IF \E r \in Victims(cache) : cache[r].fake = 0
         THEN pc' = "crash" /\ UNCHANGED <<cache, fakes, txVars>>
         ELSE /\ fakes' = Unlink(fakes, Victims(cache))
              /\ IF DOMAIN rest # {} THEN cache' = rest /\ TransactDispose(rest)
                 ELSE Insert(rest, ca.id)
  /\ flushed' = IF job.from # "debugger" THEN flushed
                ELSE flushed \cup {<<job.p.of, i>> : i \in 1 .. job.i - 1}
  /\ UNCHANGED <<mode, pend, cls, taskVars, polled, dlog, appVars, dq, asked, gone>>

(* find_fake_reftype_by_signature                                          *)
FakesOf(cl, sig) == {f \in DOMAIN fakes : fakes[f].cl = cl /\ fakes[f].sig = sig}

(* The fake reference type is found or made.                               *)
Assign(cl, s) ==
  LET fs == FakesOf(cl, s)
      f == IF fs = {} THEN Len(fakes) + 1 ELSE CHOOSE x \in fs : TRUE
  IN  IF fs # {} /\ fakes[f].real # 0
      THEN pc' = "crash" /\ UNCHANGED <<fakes, cache>>
      ELSE /\ fakes' = IF fs # {} THEN [fakes EXCEPT ![f].real = ca.id]
                       ELSE Append(fakes, NewFake(cl, s, ca.id))
           /\ cache' = [cache EXCEPT ![ca.id].fake = f]
           /\ pc' = "cached"

fetch_is_interface_for_reftype(id) == Transact("MODIFIERS", <<id>>, <<>>)
fetch_signature_for_reftype(id) == Transact("SIGNATURE", <<id>>, <<>>)

(* Whether it is an interface is asked of a new class that is no array and *)
(* was not refreshed.                                                      *)
Identify(cl, s) ==
  /\ ca' = [ca EXCEPT !.cl = cl, !.sig = s]
  /\ IF FakesOf(cl, s) = {} /\ rf = NoRf /\ s.dims = 0
     THEN fetch_is_interface_for_reftype(ca.id) /\ UNCHANGED <<fakes, cache>>
     ELSE Assign(cl, s) /\ UNCHANGED txVars

(* The signature is known when classes are refreshed.                      *)
FindSignature(cl) ==
  IF rf # NoRf THEN Identify(cl, rf.sig)
  ELSE /\ ca' = [ca EXCEPT !.cl = cl]
       /\ fetch_signature_for_reftype(ca.id)
       /\ UNCHANGED <<fakes, cache>>

disable_gc_for_object(l) == Transact("DISABLECOLLECTION", <<>>, l)
dispose_object_id(l) == Transact("DISPOSE_LOADER", <<>>, l)

(* Mutant: a class loader is never kept.                                   *)
ReleaseLoader(cl) == dispose_object_id(cl)

(* cl_for_reftype: a new class loader is kept forever, the count of a      *)
(* known one is given back.                                                *)
LoaderCommand(cl) == IF cl \in cls THEN dispose_object_id(cl) ELSE disable_gc_for_object(cl)

EndClassloader ==
  /\ \E p \in FromApp :
       /\ Ended("CLASSLOADER", p)
       /\ cls' = cls \cup {p.arg}
       /\ IF p.arg = 0 THEN FindSignature(0)
          ELSE /\ ca' = [ca EXCEPT !.cl = p.arg]
               /\ LoaderCommand(p.arg)
               /\ UNCHANGED <<fakes, cache>>
  /\ UNCHANGED <<mode, pend, job, rf, sigs, polled, dlog, appVars, debuggerVars, gone>>

EndLoaderCommand ==
  /\ \E p \in FromApp : Ended("DISABLECOLLECTION", p) \/ Ended("DISPOSE_LOADER", p)
  /\ FindSignature(ca.cl)
  /\ UNCHANGED <<mode, pend, cls, job, rf, sigs, polled, dlog, appVars, debuggerVars, gone>>

EndSignature ==
  /\ \E p \in FromApp : Ended("SIGNATURE", p) /\ Identify(ca.cl, p.arg)
  /\ UNCHANGED <<mode, pend, cls, job, rf, sigs, polled, dlog, appVars, debuggerVars, gone>>

EndModifiers ==
  /\ \E p \in FromApp : Ended("MODIFIERS", p)
  /\ Assign(ca.cl, ca.sig)
  /\ UNCHANGED <<mode, txVars, pend, cls, taskVars, polled, dlog, appVars, debuggerVars, gone>>

----------------------------------------------------------------------------
(* refresh_classes_with_signature                                          *)

Refresh(s) == rf' = [NoRf EXCEPT !.on = TRUE, !.sig = s] /\ Transact("CLASSESBYSIGNATURE", <<>>, s)

EndClassesBySignature ==
  /\ \E p \in FromApp :
       /\ Ended("CLASSESBYSIGNATURE", p)
       /\ rf' = [rf EXCEPT !.ids = p.refs]
       /\ IF p.refs # <<>> THEN Cache(p.refs[1])
          ELSE pc' = "refreshed" /\ UNCHANGED <<cache, ca, txVars>>
  /\ UNCHANGED <<mode, pend, cls, fakes, job, sigs, polled, dlog, appVars, debuggerVars, gone>>

(* A class of the reply is in the cache.  A second one cannot be read: the *)
(* cursor is past it (JdwpWire's RefreshReadsAll), which is not an error   *)
(* that is caught.                                                         *)
Refreshed ==
  /\ pc = "cached" /\ rf # NoRf
  /\ pc' = IF Len(rf.ids) > 1 THEN "died" ELSE "refreshed"
  /\ rf' = [rf EXCEPT !.ids = <<>>]
  /\ ca' = NoCa
  /\ UNCHANGED <<mode, txVars, pend, queueVars, knownVars, job, sigs, polled, dlog, appVars,
                 debuggerVars, gone>>

----------------------------------------------------------------------------
(* translate_payload, and what on_jdwp_command and on_jdwp_reply do then   *)

(* send_generic_reply                                                      *)
GenericReply(p, err) ==
  [Packet EXCEPT !.kind = "reply", !.id = p.id % U16, !.err = err, !.of = p.of, !.n = p.n]

(* An error goes onward, also that of a debugger's command.                *)
Fail ==
  /\ IF job.from = "app"
     THEN dlog' = Append(dlog, GenericReply(job.p, TRUE)) /\ UNCHANGED toapp
     ELSE toapp' = Append(toapp, GenericReply(job.p, TRUE)) /\ UNCHANGED dlog
  /\ job' = NoJob /\ rf' = NoRf /\ ca' = NoCa
  /\ pc' = "top"

SetRef(id) == job' = [job EXCEPT !.p.refs[job.i] = id, !.i = @ + 1] /\ pc' = "translate"

Translating(from) == pc = "translate" /\ job.from = from /\ job.i <= Len(job.p.refs)

TranslateToDebugger ==
  /\ Translating("app")
  /\ Cache(job.p.refs[job.i])
  /\ UNCHANGED <<mode, pend, queueVars, cls, fakes, job, rf, sigs, polled, dlog, appVars,
                 debuggerVars, gone>>

TranslatedToDebugger ==
  /\ pc = "cached" /\ rf = NoRf
  /\ SetRef(cache[ca.id].fake)
  /\ ca' = NoCa
  /\ UNCHANGED <<mode, txVars, pend, queueVars, knownVars, rf, sigs, polled, dlog, appVars,
                 debuggerVars, gone>>

(* translate_fake_reftype_to_real_reftype                                  *)
TranslateToApp ==
  /\ Translating("debugger")
  /\ LET f == job.p.refs[job.i]
     IN  IF ~find_fake_reftype_by_id(f) \/ (fakes[f].real = 0 /\ fakes[f].unl)
         THEN Fail /\ UNCHANGED <<tx, seqnum>>
         ELSE IF fakes[f].real # 0
         THEN SetRef(fakes[f].real) /\ UNCHANGED <<txVars, dlog, rf, ca>>
         ELSE Refresh(fakes[f].sig) /\ UNCHANGED <<dlog, job, ca>>
  /\ UNCHANGED <<mode, pend, queueVars, knownVars, sigs, polled, appVars, debuggerVars, gone>>

TranslatedToApp ==
  /\ pc = "refreshed" /\ job # NoJob
  /\ LET f == job.p.refs[job.i]
     IN  IF fakes[f].real # 0
         THEN SetRef(fakes[f].real) /\ rf' = NoRf /\ UNCHANGED <<fakes, ca, dlog, toapp>>
         ELSE Fail /\ fakes' = [fakes EXCEPT ![f].unl = TRUE]
  /\ UNCHANGED <<mode, tx, seqnum, pend, queueVars, cls, cache, sigs, polled, appVars,
                 debuggerVars, gone>>

(* A transaction fails: the error is that of the translation, or the end.  *)
(* What the cache was given stays there.                                   *)
TransactionFails ==
  /\ pc \in Waiting
  /\ \E p \in FromApp : Reply(p) /\ p.err
  /\ IF job = NoJob THEN pc' = "died" /\ UNCHANGED <<dlog, toapp, job, rf, ca>> ELSE Fail
  /\ UNCHANGED <<mode, tx, seqnum, pend, knownVars, sigs, polled, appVars, debuggerVars, gone>>

(* All of the packet is translated.                                        *)
Deliver ==
  /\ pc = "translate" /\ job.i > Len(job.p.refs)
  /\ IF job.from = "app"
     THEN dlog' = Append(dlog, job.p) /\ UNCHANGED <<pend, seqnum, toapp>>
     ELSE LET id == make_jdwp_id(seqnum)
          IN  /\ seqnum' = (id + 1) % IdMod
              /\ toapp' = Append(toapp, [job.p EXCEPT !.id = id])
              /\ mark_packet_pending(id, job.p.id)
              /\ UNCHANGED dlog
  /\ job' = NoJob /\ pc' = "top"
  /\ UNCHANGED <<mode, tx, queueVars, knownVars, rf, ca, sigs, polled, appVars, debuggerVars, gone>>

----------------------------------------------------------------------------
(* The loop of jdwp_main_1                                                 *)

Sides == {"app", "debugger"}

(* Mutant: the debugger waits for the application to speak first.          *)
ReadyWithApp == IF aq # <<>> \/ "app" \in gone THEN Sides \ (IF dq = <<>> THEN {"debugger"} ELSE {}) ELSE {}

Ready == {s \in Sides : (IF s = "app" THEN aq ELSE dq) # <<>> \/ s \in gone}

(* Mutant: poll does not wait for the deferred packets to be handled.      *)
PollAtOnce ==
  /\ pc = "top" /\ polled = {}
  /\ Ready # {}
  /\ polled' = Ready
  /\ UNCHANGED <<pc, mode, txVars, pend, queueVars, knownVars, taskVars, dlog, appVars,
                 debuggerVars, gone>>

Poll ==
  /\ pc = "top" /\ polled = {} /\ defer = <<>>
  /\ Ready # {}
  /\ polled' = Ready
  /\ UNCHANGED <<pc, mode, txVars, pend, queueVars, knownVars, taskVars, dlog, appVars,
                 debuggerVars, gone>>

(* Packet p of side s is the next: the deferred ones before poll, then the *)
(* application's and the debugger's.                                       *)
Receive(p, s) ==
  /\ pc = "top"
  /\ \/ /\ s = "app" /\ polled = {} /\ defer # <<>>
        /\ p = Head(defer) /\ defer' = Tail(defer) /\ UNCHANGED <<aq, dq, polled>>
     \/ /\ s = "app" /\ "app" \in polled /\ aq # <<>>
        /\ p = Head(aq) /\ aq' = Tail(aq) /\ polled' = polled \ {"app"} /\ UNCHANGED <<defer, dq>>
     \/ /\ s = "debugger" /\ polled = {"debugger"} /\ dq # <<>>
        /\ p = Head(dq) /\ dq' = Tail(dq) /\ polled' = {} /\ UNCHANGED <<defer, aq>>
  /\ UNCHANGED ldef

Packets == ToSet(defer) \cup ToSet(aq) \cup ToSet(dq)

(* handle_packet_toplevel without rewriting                                *)
Forward ==
  /\ ~mode.rewrite
  /\ \E s \in Sides, p \in Packets :
       /\ Receive(p, s)
       /\ dlog' = IF s = "app" THEN Append(dlog, p) ELSE dlog
       /\ toapp' = IF s = "app" THEN toapp ELSE Append(toapp, p)
  /\ UNCHANGED <<pc, mode, tx, seqnum, pend, knownVars, taskVars, appVars, asked, flushed, gone>>

(* on_jdwp_command: whoever sent an unknown command gets an error.         *)
UnknownCommand ==
  /\ mode.rewrite
  /\ \E s \in Sides, p \in Packets :
       /\ Receive(p, s) /\ p.kind = "cmd" /\ p.op = "unsupported"
       /\ dlog' = IF s = "app" THEN dlog ELSE Append(dlog, GenericReply(p, TRUE))
       /\ toapp' = IF s = "app" THEN Append(toapp, GenericReply(p, TRUE)) ELSE toapp
  /\ UNCHANGED <<pc, mode, tx, seqnum, pend, knownVars, taskVars, appVars, asked, flushed, gone>>

(* jdwp_send_all_classes_reply, of a class loader or of all                *)
ListedFakes(p) ==
  {f \in DOMAIN fakes : ~fakes[f].unl /\ (p.op = "visibleclasses" => fakes[f].cl = p.arg)}

ListClasses ==
  /\ mode.rewrite
  /\ \E p \in Packets :
       /\ Receive(p, "debugger") /\ p.op \in {"allclasses", "visibleclasses"}
       /\ LET fs == SetToSortSeq(ListedFakes(p), <)
          IN  dlog' = Append(dlog, [p EXCEPT !.kind = "reply", !.refs = fs, !.means =
                [i \in DOMAIN fs |-> CHOOSE c \in Classes : /\ Loader[c] = fakes[fs[i]].cl
                                                            /\ Sig[c] = fakes[fs[i]].sig]])
  /\ UNCHANGED <<pc, mode, txVars, pend, knownVars, taskVars, appVars, asked, flushed, gone>>

BeginCommand ==
  /\ mode.rewrite
  /\ \E s \in Sides, p \in Packets :
       /\ Receive(p, s) /\ p.kind = "cmd" /\ p.op \in {"query", "event"}
       /\ job' = [p |-> p, from |-> s, i |-> 1]
  /\ pc' = "translate"
  /\ UNCHANGED <<mode, txVars, pend, knownVars, rf, ca, sigs, dlog, appVars, asked, flushed, gone>>

(* on_jdwp_reply                                                           *)
DropReply ==
  /\ mode.rewrite
  /\ \E p \in Packets : Receive(p, "debugger") /\ p.kind = "reply"
  /\ UNCHANGED <<pc, mode, txVars, pend, knownVars, taskVars, dlog, appVars, asked, flushed, gone>>

BeginReply ==
  /\ mode.rewrite
  /\ \E p \in Packets :
       /\ Receive(p, "app") /\ p.kind = "reply"
       /\ pop_pending_packet(p.id)
       /\ LET q == [p EXCEPT !.id = pend[p.id]]
          IN  IF ~peek_pending_packet(p.id) THEN UNCHANGED <<job, pc, dlog>>
              ELSE IF p.err THEN dlog' = Append(dlog, q) /\ UNCHANGED <<job, pc>>
              ELSE job' = [p |-> q, from |-> "app", i |-> 1] /\ pc' = "translate" /\ UNCHANGED dlog
  /\ UNCHANGED <<mode, txVars, knownVars, rf, ca, sigs, appVars, asked, flushed, gone>>

(* jdwp_read_packet at the end of the input                                *)
EndOfInput ==
  /\ \/ /\ pc = "top" /\ \E s \in polled : s \in gone /\ (s = "app" \/ "app" \notin polled)
                                            /\ (IF s = "app" THEN aq ELSE dq) = <<>>
        /\ pc' = "exit"
     \/ /\ pc \in Waiting /\ FromApp = {} /\ "app" \in gone
        /\ pc' = "died"
  /\ UNCHANGED <<mode, txVars, pend, queueVars, knownVars, taskVars, polled, dlog, appVars,
                 debuggerVars, gone>>

----------------------------------------------------------------------------
(* The start of jdwp_main_1                                                *)

(* java_class_name_to_signature: array brackets move to the front, and the *)
(* eight primitive types have letters.                                     *)
Primitives == [boolean |-> "Z", byte |-> "B", char |-> "C", short |-> "S",
               int |-> "I", long |-> "J", float |-> "F", double |-> "D"]
java_class_name_to_signature(name) ==
  [dims |-> name.dims,
   code |-> IF name.base \in DOMAIN Primitives THEN <<Primitives[name.base]>>
            ELSE <<"L", name.base>>]

(* The chunks of a heap dump, [tag, id, val], that are kept.               *)
Chunks(dump, tag) == {dump[i] : i \in {i \in DOMAIN dump : dump[i].tag = tag}}
hd_intern_string_chunk(dump) == Chunks(dump, "string")
hd_intern_class_chunk(dump) == Chunks(dump, "class")
hd_find_string(dump, id) == {r \in hd_intern_string_chunk(dump) : r.id = id}

(* read_class_list_via_heap_dump: by identifier; a class whose name is not *)
(* in the dump is left out.                                                *)
ClassListOf(dump) ==
  LET named == {r \in hd_intern_class_chunk(dump) : hd_find_string(dump, r.val) # {}}
      inOrder == SetToSortSeq(named, LAMBDA a, b : a.id < b.id)
      nameOf(r) == (CHOOSE s \in hd_find_string(dump, r.val) : TRUE).val
  IN  [i \in DOMAIN inOrder |-> java_class_name_to_signature(nameOf(inOrder[i]))]

suspend_vm(op) == Transact(op, <<>>, <<>>)
resume_vm == Transact("RESUME", <<>>, <<>>)

Connect ==
  /\ pc = "connect"
  /\ IF "app" \in gone THEN pc' = "died" /\ UNCHANGED txVars ELSE Transact("IDSIZES", <<>>, <<>>)
  /\ UNCHANGED <<mode, pend, queueVars, knownVars, taskVars, polled, dlog, appVars,
                 debuggerVars, gone>>

AfterVersion ==
  IF mode.rewrite THEN suspend_vm("SUSPEND") ELSE pc' = "accept" /\ UNCHANGED txVars

EndStartup ==
  /\ \E p \in FromApp :
       \/ Ended("IDSIZES", p) /\ Transact("VERSION", <<>>, <<>>)
       \/ /\ Ended("VERSION", p)
          /\ IF mode.suspend THEN suspend_vm("SUSPEND_AS_ASKED") ELSE AfterVersion
       \/ Ended("SUSPEND_AS_ASKED", p) /\ AfterVersion
       \/ Ended("SUSPEND", p) /\ TransactFrom(make_jdwp_id(seqnum) + 1, "HEAPDUMP", <<>>, <<>>)
       \/ Ended("RESUME", p) /\ pc' = "accept" /\ UNCHANGED txVars
  /\ UNCHANGED <<mode, pend, knownVars, taskVars, polled, dlog, appVars, debuggerVars, gone>>

(* read_heap_dump: the dump came before the reply and was set aside.       *)
EndHeapDump ==
  /\ pc = "HEAPDUMP"
  /\ \E p \in FromApp :
       /\ IsReply(p) /\ ~p.err
       /\ LET d == Deferred(DeferLeft, ldef)
              at == {i \in DOMAIN d : d[i].kind = "cmd" /\ d[i].op = "HPDS"}
          IN  IF at = {} THEN pc' = "died" /\ defer' = d /\ UNCHANGED sigs
              ELSE /\ sigs' = ClassListOf(d[Min(at)].arg)
                   /\ defer' = RemoveAt(d, Min(at))
                   /\ pc' = "learn"
  /\ aq' = AqLeft /\ ldef' = <<>>
  /\ UNCHANGED <<mode, txVars, pend, knownVars, job, rf, ca, polled, dlog, appVars,
                 debuggerVars, gone>>

Learn ==
  /\ pc = "learn" \/ (pc = "refreshed" /\ job = NoJob)
  /\ IF sigs = <<>> THEN resume_vm /\ rf' = NoRf /\ sigs' = sigs
     ELSE Refresh(Head(sigs)) /\ sigs' = Tail(sigs)
  /\ UNCHANGED <<mode, pend, queueVars, knownVars, job, ca, polled, dlog, appVars,
                 debuggerVars, gone>>

(* The debugger's handshake is answered.                                   *)
Accept ==
  /\ pc = "accept"
  /\ dlog' = <<[Packet EXCEPT !.op = "handshake"]>>
  /\ pc' = "top"
  /\ UNCHANGED <<mode, txVars, pend, queueVars, knownVars, taskVars, polled, appVars,
                 debuggerVars, gone>>

----------------------------------------------------------------------------
(* The application: outside this program, by the protocol.  It answers in  *)
(* order, counts how often it sent an identifier, and forgets it when all  *)
(* are given back.                                                         *)

(* What either side does once the proxy has ended does not matter; bound:  *)
(* when one side has left, the other starts nothing new.                   *)
Running == pc \notin {"died", "exit", "crash"}
Starting == Running /\ gone = {}

RegisterOne(acc, c) ==
  LET live == {i \in DOMAIN acc.reg : acc.reg[i].c = c /\ acc.reg[i].n > 0}
  IN  IF live # {}
      THEN LET i == CHOOSE x \in live : TRUE
           IN  [reg |-> [acc.reg EXCEPT ![i].n = @ + 1], ids |-> Append(acc.ids, i)]
      ELSE [reg |-> Append(acc.reg, [c |-> c, n |-> 1]),
            ids |-> Append(acc.ids, Len(acc.reg) + 1)]
Register(cs) == FoldLeft(RegisterOne, [reg |-> reg, ids |-> <<>>], cs)

IsLive(r) == reg[r].n > 0 /\ reg[r].c \in loaded

HeapDump ==
  LET cs == SetToSeq(loaded)
  IN  [i \in DOMAIN cs |-> [tag |-> "string", id |-> i, val |-> Name[cs[i]]]]
      \o <<[tag |-> "heap", id |-> 0, val |-> 0]>>
      \o [i \in DOMAIN cs |-> [tag |-> "class", id |-> i, val |-> i]]

Answer(q) == [Packet EXCEPT !.kind = "reply", !.op = q.op, !.id = q.id]

(* Commands that leave the application's identifiers alone.                *)
AppAnswersPlainly(q) ==
  /\ aq' = (IF q.op = "HEAPDUMP" THEN Append(aq, [Packet EXCEPT !.op = "HPDS", !.arg = HeapDump])
            ELSE aq)
           \o <<CASE q.op = "SIGNATURE" /\ IsLive(q.refs[1]) ->
                       [Answer(q) EXCEPT !.arg = Sig[reg[q.refs[1]].c]]
                  [] q.op \in {"SIGNATURE", "MODIFIERS"} ->
                       [Answer(q) EXCEPT !.err = ~IsLive(q.refs[1])]
                  [] OTHER -> Answer(q)>>
  /\ susp' = susp + (IF q.op \in {"SUSPEND", "SUSPEND_AS_ASKED"} THEN 1 ELSE 0)
                  - (IF q.op = "RESUME" THEN 1 ELSE 0)
  /\ UNCHANGED <<reg, lref, pinned, count>>

AppCounts(q) ==
  /\ \/ /\ q.op = "CLASSESBYSIGNATURE"
        /\ LET r == Register(SetToSeq({c \in loaded : Sig[c] = q.arg}))
           IN  reg' = r.reg /\ aq' = Append(aq, [Answer(q) EXCEPT !.refs = r.ids])
        /\ UNCHANGED <<lref, pinned>>
     \/ /\ q.op = "DISPOSE"
        /\ reg' = [r \in DOMAIN reg |-> [reg[r] EXCEPT !.n = @ -
                     (IF r \in ToSet(q.refs) THEN q.arg[CHOOSE i \in DOMAIN q.refs : q.refs[i] = r]
                      ELSE 0)]]
        /\ aq' = Append(aq, Answer(q))
        /\ UNCHANGED <<lref, pinned>>
     \/ /\ q.op = "CLASSLOADER"
        /\ LET l == Loader[reg[q.refs[1]].c]
           IN  IF IsLive(q.refs[1])
               THEN /\ aq' = Append(aq, [Answer(q) EXCEPT !.arg = l])
                    /\ lref' = [lref EXCEPT ![l] = IF l = 0 THEN 0 ELSE @ + 1]
               ELSE aq' = Append(aq, [Answer(q) EXCEPT !.err = TRUE]) /\ UNCHANGED lref
        /\ UNCHANGED <<reg, pinned>>
     \/ /\ q.op = "DISABLECOLLECTION"
        /\ aq' = Append(aq, [Answer(q) EXCEPT !.err = q.arg \in dead])
        /\ pinned' = pinned \cup ({q.arg} \ dead)
        /\ UNCHANGED <<reg, lref>>
     \/ /\ q.op = "DISPOSE_LOADER"
        /\ aq' = Append(aq, Answer(q))
        /\ lref' = [lref EXCEPT ![q.arg] = @ - 1]
        /\ UNCHANGED <<reg, pinned>>
  /\ UNCHANGED <<susp, count>>

(* A command of the debugger: the answer may name a class.                 *)
AppAnswersDebugger(q) ==
  /\ count' = [count EXCEPT !.n = @ + 1]
  /\ \E cs \in {<<>>} \cup {<<c>> : c \in loaded} :
       LET r == Register(cs)
           reply == [Answer(q) EXCEPT !.of = q.of, !.n = count.n + 1]
       IN  IF mode.rewrite /\ q.op = "query" /\ \A i \in DOMAIN q.refs : IsLive(q.refs[i])
           THEN reg' = r.reg /\ aq' = Append(aq, [reply EXCEPT !.refs = r.ids, !.means = cs])
           ELSE cs = <<>> /\ reg' = reg /\ aq' = Append(aq, [reply EXCEPT !.err = TRUE])
  /\ UNCHANGED <<lref, pinned, susp>>

AppHandle ==
  /\ Running /\ toapp # <<>> /\ "app" \notin gone
  /\ LET q == Head(toapp)
     IN  IF q.kind = "reply" THEN UNCHANGED <<aq, reg, lref, pinned, susp, count>>
         ELSE IF q.of # 0 THEN AppAnswersDebugger(q)
         ELSE IF q.op \in {"CLASSESBYSIGNATURE", "DISPOSE", "CLASSLOADER", "DISABLECOLLECTION",
                           "DISPOSE_LOADER"}
         THEN AppCounts(q) ELSE AppAnswersPlainly(q)
  /\ toapp' = Tail(toapp)
  /\ UNCHANGED <<pc, mode, tx, seqnum, pend, defer, ldef, knownVars, taskVars, polled, dlog,
                 loaded, dead, debuggerVars, gone>>

(* An event, about a class that may just have been loaded, or a command    *)
(* that the proxy does not know.                                           *)
AppUnsupported ==
  /\ Starting /\ count.ev < MaxEvents
  /\ aq' = Append(aq, [Packet EXCEPT !.op = "unsupported", !.id = count.ev + 1])
  /\ count' = [count EXCEPT !.ev = @ + 1]
  /\ UNCHANGED <<pc, mode, txVars, pend, defer, ldef, knownVars, taskVars, polled, dlog,
                 loaded, reg, lref, pinned, susp, dead, debuggerVars, gone>>

AppEvent ==
  /\ Starting /\ count.ev < MaxEvents /\ susp = 0
  /\ \E cs \in {<<>>} \cup {<<c>> : c \in {x \in Classes : Loader[x] \notin dead}} :
       LET r == Register(cs)
       IN  /\ loaded' = loaded \cup ToSet(cs)
           /\ reg' = r.reg
           /\ aq' = Append(aq, [Packet EXCEPT !.op = "event", !.id = count.ev + 1, !.refs = r.ids,
                                              !.means = cs, !.n = count.n + 1])
  /\ count' = [ev |-> count.ev + 1, n |-> count.n + 1]
  /\ UNCHANGED <<pc, mode, txVars, pend, defer, ldef, knownVars, taskVars, polled, dlog,
                 lref, pinned, susp, dead, debuggerVars, gone>>

(* A class loader that nothing holds is collected, and its classes.        *)
AppUnloads(l) ==
  /\ Starting /\ Cardinality(dead) < MaxUnloads
  /\ l # 0 /\ l \notin pinned \cup dead
  /\ \E c \in loaded : Loader[c] = l
  /\ loaded' = {c \in loaded : Loader[c] # l}
  /\ dead' = dead \cup {l}
  /\ UNCHANGED <<pc, mode, txVars, pend, queueVars, knownVars, taskVars, polled, dlog,
                 reg, lref, pinned, susp, count, debuggerVars, gone>>

Leave(s) ==
  /\ Starting /\ (s = "debugger" => dlog # <<>>)
  /\ gone' = {s}
  /\ UNCHANGED <<pc, mode, txVars, pend, queueVars, knownVars, taskVars, polled, dlog, appVars,
                 debuggerVars>>

----------------------------------------------------------------------------
(* The debugger: outside this program.  It names one class, or (bound) two *)
(* different ones, by what it was sent for them, or one wrongly.           *)

Shown == UNION {{<<e.refs[i], e.means[i]>> : i \in DOMAIN e.refs} : e \in ToSet(dlog)}
BadRef == 99

DebuggerSends ==
  /\ Starting /\ dlog # <<>> /\ Len(asked) < MaxCmds
  /\ LET id == FirstId + Len(asked)
         cmd == [Packet EXCEPT !.id = id, !.of = id]
         Ask(label, p) == asked' = Append(asked, label) /\ dq' = Append(dq, p)
     IN  \/ Ask("plain", [cmd EXCEPT !.op = "query"])
         \/ mode.rewrite /\ \E k \in Shown :
              Ask("query", [cmd EXCEPT !.op = "query", !.refs = <<k[1]>>, !.means = <<k[2]>>])
         \/ mode.rewrite /\ \E k, l \in Shown : k # l /\
              Ask("query", [cmd EXCEPT !.op = "query", !.refs = <<k[1], l[1]>>,
                                       !.means = <<k[2], l[2]>>])
         \/ Ask("wrong", [cmd EXCEPT !.op = "query", !.refs = <<BadRef>>, !.means = <<BadRef>>])
         \/ Ask("all", [cmd EXCEPT !.op = "allclasses"])
         \/ \E l \in Loaders \ {0} : Ask("visible", [cmd EXCEPT !.op = "visibleclasses", !.arg = l])
         \/ Ask("unsupported", [cmd EXCEPT !.op = "unsupported"])
         \/ Ask("stray", [cmd EXCEPT !.kind = "reply"])
  /\ UNCHANGED <<pc, mode, txVars, pend, queueVars, knownVars, taskVars, polled, dlog, appVars,
                 flushed, gone>>

----------------------------------------------------------------------------
Init ==
  /\ pc = "connect"
  /\ mode \in [rewrite : BOOLEAN, suspend : BOOLEAN]
  /\ tx = NoTx /\ seqnum = 0 /\ pend = <<>>
  /\ defer = <<>> /\ ldef = <<>> /\ aq = <<>> /\ dq = <<>> /\ toapp = <<>> /\ dlog = <<>>
  /\ cls = {} /\ fakes = <<>> /\ cache = <<>>
  /\ job = NoJob /\ rf = NoRf /\ ca = NoCa /\ sigs = <<>> /\ polled = {}
  /\ loaded = System /\ reg = <<>> /\ lref = [l \in Loaders |-> 0] /\ pinned = {} /\ susp = 0
  /\ dead = {} /\ count = [ev |-> 0, n |-> 0] /\ asked = <<>> /\ flushed = {} /\ gone = {}

Proxy ==
  \/ Connect \/ EndStartup \/ EndHeapDump \/ Learn \/ Accept
  \/ SetAside \/ TransactionFails \/ EndOfInput
  \/ EndDispose \/ EndClassloader \/ EndLoaderCommand \/ EndSignature \/ EndModifiers
  \/ EndClassesBySignature \/ Refreshed
  \/ TranslateToDebugger \/ TranslatedToDebugger \/ TranslateToApp \/ TranslatedToApp \/ Deliver
  \/ Poll \/ Forward \/ UnknownCommand \/ ListClasses \/ BeginCommand \/ DropReply \/ BeginReply

Next ==
  \/ Proxy
  \/ AppHandle \/ AppEvent \/ AppUnsupported \/ (\E l \in Loaders : AppUnloads(l)) \/ DebuggerSends
  \/ \E s \in Sides : Leave(s)

Spec == Init /\ [][Next]_vars /\ WF_vars(Proxy) /\ WF_vars(AppHandle)

----------------------------------------------------------------------------
(* Properties                                                              *)

(* The application's events and answers reach the debugger in the order    *)
(* they were sent, and none is missing in between, whatever transactions   *)
(* set them aside (jdwp_transact_with_app).                                *)
PacketsInOrder ==
  \A i \in DOMAIN dlog :
    /\ \A j \in 1 .. i - 1 : dlog[i].n > 0 => dlog[j].n < dlog[i].n
    /\ \A n \in 1 .. dlog[i].n - 1 : \E j \in 1 .. i - 1 : dlog[j].n = n

(* An answer carries the identifier of the command it answers, once, also  *)
(* when identifiers wrap around (make_jdwp_id, on_jdwp_reply).             *)
RepliesMatch ==
  /\ \A i \in DOMAIN dlog : dlog[i].of # 0 => dlog[i].id = dlog[i].of
  /\ \A i, j \in DOMAIN dlog : dlog[i].of # 0 /\ dlog[i].of = dlog[j].of => i = j

(* To the debugger a class has one identifier, and it is no other class's, *)
(* however often the real identifiers are given back and change            *)
(* (flush_reftype_cache, translate_and_cache_real_reftype).                *)
NamesStable ==
  mode.rewrite => \A a, b \in Shown : a[1] = b[1] <=> a[2] = b[2]

(* A command reaches the application with identifiers of the classes that  *)
(* the debugger meant, which the application still knows, unless           *)
(* translating a later reference of the same command filled the cache and  *)
(* gave them back (translate_fake_reftype_to_real_reftype,                 *)
(* flush_reftype_cache): no other flush comes in between.                  *)
NextQuery == IF toapp # <<>> /\ Head(toapp).op = "query" /\ Head(toapp).kind = "cmd"
             THEN {Head(toapp)} ELSE {}
NoStaleId ==
  mode.rewrite => \A q \in NextQuery : \A i \in DOMAIN q.refs :
    reg[q.refs[i]].c = q.means[i] /\ (reg[q.refs[i]].n > 0 \/ <<q.of, i>> \in flushed)

(* Without the exception: the application knows all identifiers of a       *)
(* command that the proxy sends it.  The code does not keep this; no run   *)
(* checks it.                                                              *)
IdsKnown ==
  mode.rewrite => \A q \in NextQuery : \A i \in DOMAIN q.refs : reg[q.refs[i]].n > 0

(* What the application counts for an identifier is what the proxy holds   *)
(* in its cache or has still to read; for a class loader it is one (the    *)
(* refcounts of flush_reftype_cache_1, dispose_object_id).                 *)
Occurrences(r, refs) == Cardinality({i \in DOMAIN refs : refs[i] = r})
Unread(r) ==
  LET refs(q) == FlattenSeq([i \in DOMAIN q |-> q[i].refs])
      mine == IF job.from # "app" THEN <<>>
              ELSE SubSeq(job.p.refs, IF pc \in {"translate", "DISPOSE"} THEN job.i ELSE job.i + 1,
                          Len(job.p.refs))
  IN  Occurrences(r, refs(aq) \o refs(defer) \o refs(ldef) \o mine
                     \o (IF pc = "DISPOSE" THEN rf.ids ELSE <<>>))
Sent(op) == \E i \in DOMAIN toapp : toapp[i].op = op
Held(r) ==
  IF r \notin DOMAIN cache \/ (pc = "DISPOSE" /\ ~Sent("DISPOSE") /\ r \in Victims(cache))
  THEN 0 ELSE cache[r].n
HeldLoader(l) ==
  (IF l \in cls THEN 1 ELSE 0)
  + (IF pc = "CLASSLOADER" /\ \E q \in {aq, defer, ldef} : \E i \in DOMAIN q :
          q[i].op = "CLASSLOADER" /\ q[i].arg = l THEN 1 ELSE 0)
  + (IF pc = "DISPOSE_LOADER" /\ ca.cl = l /\ Sent("DISPOSE_LOADER") THEN 1 ELSE 0)
CountsBalance ==
  mode.rewrite /\ dead = {} /\ pc \notin {"died", "exit"} =>
    /\ \A r \in DOMAIN reg : reg[r].n = Held(r) + Unread(r)
    /\ \A l \in Loaders \ {0} : lref[l] = HeldLoader(l)

(* A class the debugger was shown stays: its class loader is kept          *)
(* (cl_for_reftype), so was_unloaded is never needed.                      *)
ClassesKept ==
  /\ \A f \in DOMAIN fakes : ~fakes[f].unl
  /\ mode.rewrite => \A k \in Shown : k[2] \in loaded

(* The list of all classes has every class that was there at the start and *)
(* still is, also those whose real identifiers were given back             *)
(* (read_class_list_via_heap_dump, jdwp_send_all_classes_reply).           *)
ListComplete ==
  mode.rewrite => \A e \in ToSet(dlog) : e.op = "allclasses" /\ e.kind = "reply" =>
    {c \in System : Loader[c] \notin dead} \subseteq ToSet(e.means)

(* The debugger and the application mean the same class by an identifier,  *)
(* and the debugger sees all of them, also when the cache is flushed, save *)
(* for what NoStaleId excepts.                                             *)
NamesSound == NamesStable /\ NoStaleId /\ ListComplete

(* The proxy gives back as many references as it took, and not those that  *)
(* keep what the debugger knows of.                                        *)
ReferencesHeld == CountsBalance /\ ClassesKept

(* Every command the debugger is entitled to have answered is answered,    *)
(* unless a class loader goes away under the proxy or a side leaves; what  *)
(* was asked and what was answered only grow, so []<> is eventually.       *)
Entitled(k) == k \in DOMAIN asked /\ asked[k] \notin {"wrong", "stray"}
HasAnswer(k) == \E i \in DOMAIN dlog : dlog[i].of = FirstId + k - 1
Answered ==
  \A k \in 1 .. MaxCmds : []<>(Entitled(k) => HasAnswer(k) \/ dead # {} \/ gone # {})

(* Every entry of the cache has a fake reference type when it is used or   *)
(* given back, and a fake one has one real one: the assertions of          *)
(* flush_reftype_cache_1 and translate_and_cache_real_reftype.             *)
AssertionsHold == pc # "crash"

============================================================================

----------------------------- MODULE XferProofs -----------------------------
(* Proofs about Xfer.tla, for any number of transfers to one destination,  *)
(* with any options, and any number of faults.                             *)
EXTENDS Xfer, SequenceTheorems, TLAPS

----------------------------------------------------------------------------
(* Types, and what a receiver has done at each point.                      *)

Message == [type: {"stat", "data", "payload"}, n: Nat, torn: BOOLEAN]
Sender == [pc: {"stat", "data", "ok", "failed", "killed"}, pos: Nat]
Receiver ==
  [pc: {"stat", "open", "data", "finish", "rename", "syncdir", "ok", "failed", "killed"},
   fd: Files \cup {None}, atomic: BOOLEAN, offset: Nat, want: Nat, pre: BOOLEAN]
Unit == Files \cup {Hole}

OptOK == opt \in [Transfers -> Option]
FilesOK == dest \in Files \cup {None} /\ tmp \in [Transfers -> BOOLEAN] /\ data \in [Files -> Seq(Unit)]
EndsOK ==
  /\ snd \in [Transfers -> Sender] /\ rcv \in [Transfers -> Receiver]
  /\ \A t \in Transfers : snd[t].pos <= opt[t].size
LinkOK ==
  /\ wire \in [Transfers -> Seq(Message)] /\ cut \in [Transfers -> BOOLEAN]
  /\ status \in [Transfers -> {"none", "ok", "error"}]

(* A descriptor is there once the file was opened; in atomic mode it is of *)
(* the file that the transfer created.                                     *)
Opened(t) ==
  /\ rcv[t].pc \in {"stat", "open"} => rcv[t].fd = None /\ rcv[t].offset = 0
  /\ rcv[t].pc \in {"data", "finish", "rename", "syncdir", "ok"} => rcv[t].fd # None
  /\ rcv[t].fd = None => rcv[t].atomic
  /\ rcv[t].fd # None /\ rcv[t].atomic => rcv[t].fd = t
  /\ rcv[t].pc = "rename" => rcv[t].atomic
  /\ status[t] = "ok" => rcv[t].pc = "ok"

TypeInv == OptOK /\ FilesOK /\ EndsOK /\ LinkOK /\ \A t \in Transfers : Opened(t)

(* At the start nothing was sent.                                          *)
LEMMA TypeInit ==
  ASSUME XferInit
  PROVE  TypeInv
<1>1. OptOK
  BY XferAssumption DEF XferInit, OptOK
<1>2. FilesOK
  <2>1. <<0>> \in Seq(Unit) /\ <<>> \in Seq(Unit)
    BY DEF Unit, Files
  <2>2. tmp \in [Transfers -> BOOLEAN]
    BY DEF XferInit
  <2>3. QED
    BY <2>1, <2>2 DEF XferInit, FilesOK, Files
<1>3. EndsOK
  <2>1. snd \in [Transfers -> Sender] /\ \A t \in Transfers : snd[t].pos <= opt[t].size
    BY <1>1 DEF XferInit, Sender, OptOK, Option
  <2>2. rcv \in [Transfers -> Receiver]
    BY DEF XferInit, Receiver
  <2>3. QED
    BY <2>1, <2>2 DEF EndsOK
<1>4. LinkOK
  <2>1. <<>> \in Seq(Message)
    BY EmptySeq
  <2>2. QED
    BY <2>1 DEF XferInit, LinkOK
<1>5. \A t \in Transfers : Opened(t)
  BY DEF XferInit, Opened
<1>6. QED
  BY <1>1, <1>2, <1>3, <1>4, <1>5 DEF TypeInv

(* The receiver of t dies: what it knew it still knows.                    *)
LEMMA DiesFacts ==
  ASSUME TypeInv, NEW t \in Transfers, Dies(t)
  PROVE  /\ rcv' \in [Transfers -> Receiver] /\ \A u \in Transfers \ {t} : rcv'[u] = rcv[u]
         /\ rcv'[t].pc = "failed" /\ rcv'[t].fd = rcv[t].fd /\ rcv'[t].atomic = rcv[t].atomic
         /\ tmp' \in [Transfers -> BOOLEAN] /\ tmp'[t] = FALSE /\ \A u \in Transfers \ {t} : tmp'[u] = tmp[u]
         /\ dest' \in {dest, None} /\ UNCHANGED <<data, wire>>
         /\ rcv[t].atomic => dest' = dest
         /\ ~rcv[t].atomic => dest' = IF dir.writable THEN None ELSE dest
<1>1. rcv \in [Transfers -> Receiver] /\ tmp \in [Transfers -> BOOLEAN] /\ Opened(t)
  BY DEF TypeInv, EndsOK, FilesOK
<1>2. rcv' = [rcv EXCEPT ![t].pc = "failed"] /\ tmp' = [tmp EXCEPT ![t] = FALSE]
  BY DEF Dies
<1>3. /\ rcv' \in [Transfers -> Receiver] /\ \A u \in Transfers \ {t} : rcv'[u] = rcv[u]
      /\ rcv'[t].pc = "failed" /\ rcv'[t].fd = rcv[t].fd /\ rcv'[t].atomic = rcv[t].atomic
  BY <1>1, <1>2 DEF Receiver
<1>4. tmp' \in [Transfers -> BOOLEAN] /\ tmp'[t] = FALSE /\ \A u \in Transfers \ {t} : tmp'[u] = tmp[u]
  BY <1>1, <1>2
<1>5. /\ dest' \in {dest, None} /\ UNCHANGED <<data, wire>>
      /\ rcv[t].atomic => dest' = dest
      /\ ~rcv[t].atomic => dest' = IF dir.writable THEN None ELSE dest
  BY <1>1 DEF Dies, Opened
<1>6. QED
  BY <1>3, <1>4, <1>5

(* Files of n units are sequences.                                         *)
LEMMA Filled ==
  ASSUME NEW S, NEW n \in Nat, NEW d, d = [i \in 1 .. n |-> d[i]], \A i \in 1 .. n : d[i] \in S
  PROVE  d \in Seq(S) /\ Len(d) = n
<1>1. d \in [1 .. n -> S]
  OBVIOUS
<1>2. d \in Seq(S)
  BY <1>1, SeqDef
<1>3. DOMAIN d = 1 .. n
  OBVIOUS
<1>4. QED
  BY <1>2, <1>3, LenProperties

(* The receiver of t goes from where it was to pc l; the rest of its       *)
(* record is typed.                                                        *)
LEMMA RecvStatFacts ==
  ASSUME TypeInv, NEW t \in Transfers, RecvStat(t)
  PROVE  /\ rcv' \in [Transfers -> Receiver] /\ \A u \in Transfers \ {t} : rcv'[u] = rcv[u]
         /\ rcv[t].pc = "stat" /\ rcv'[t].pc = "open" /\ rcv'[t].fd = rcv[t].fd
         /\ rcv'[t].atomic = rcv[t].atomic /\ rcv'[t].offset = rcv[t].offset
         /\ wire[t] # <<>> /\ wire' = [wire EXCEPT ![t] = Tail(@)] /\ UNCHANGED <<dest, tmp, data>>
<1>1. rcv \in [Transfers -> Receiver] /\ wire[t] \in Seq(Message) /\ wire[t] # <<>>
  BY DEF TypeInv, EndsOK, LinkOK, RecvStat
<1>2. Head(wire[t]) \in Message
  BY <1>1, HeadTailProperties
<1>3. PICK n \in Received(Head(wire[t])) : rcv' = [rcv EXCEPT ![t].pc = "open", ![t].want = n]
  BY DEF RecvStat
<1>4. n \in Nat
  BY <1>2, XferAssumption DEF Received, Message
<1>5. /\ rcv' \in [Transfers -> Receiver] /\ \A u \in Transfers \ {t} : rcv'[u] = rcv[u]
      /\ rcv'[t].pc = "open" /\ rcv'[t].fd = rcv[t].fd
      /\ rcv'[t].atomic = rcv[t].atomic /\ rcv'[t].offset = rcv[t].offset
  BY <1>1, <1>3, <1>4 DEF Receiver
<1>6. QED
  BY <1>1, <1>5 DEF RecvStat

(* The file that was opened is empty, or as long as fallocate made it.     *)
LEMMA OpenFacts ==
  ASSUME TypeInv, NEW t \in Transfers, Open(t), ~Dies(t)
  PROVE  /\ rcv' \in [Transfers -> Receiver] /\ \A u \in Transfers \ {t} : rcv'[u] = rcv[u]
         /\ rcv[t].pc = "open" /\ rcv'[t].pc = "data" /\ rcv'[t].fd \in Files
         /\ rcv'[t].offset = rcv[t].offset /\ rcv'[t].want = rcv[t].want
         /\ rcv'[t].atomic => rcv'[t].fd = t /\ dest' = dest
         /\ ~rcv'[t].atomic => dest' = rcv'[t].fd
         /\ data' \in [Files -> Seq(Unit)] /\ \A f \in Files \ {rcv'[t].fd} : data'[f] = data[f]
         /\ Len(data'[rcv'[t].fd]) = (IF rcv'[t].pre /\ rcv[t].want > 0 THEN rcv[t].want ELSE 0)
         /\ tmp' \in [Transfers -> BOOLEAN] /\ (\A u \in Transfers \ {t} : tmp'[u] = tmp[u]) /\ UNCHANGED wire
<1> DEFINE mode == WriteMode(t)
           f == IF mode = "inplace" /\ dest # None THEN dest ELSE t
<1>1. rcv \in [Transfers -> Receiver] /\ data \in [Files -> Seq(Unit)] /\ rcv[t].want \in Nat /\ dest \in Files \cup {None}
      /\ tmp \in [Transfers -> BOOLEAN]
  BY DEF TypeInv, EndsOK, FilesOK, Receiver
<1>2. f \in Files /\ (mode # "inplace" => f = t)
  BY <1>1 DEF Files
<1> DEFINE atom == mode = "atomic"
<1>3. PICK pre \in BOOLEAN :
        /\ pre => rcv[t].want > 0
        /\ rcv' = [rcv EXCEPT ![t].pc = "data", ![t].fd = f, ![t].pre = pre, ![t].atomic = atom]
        /\ data' = [data EXCEPT ![f] = IF pre THEN [i \in 1..rcv[t].want |-> Hole] ELSE <<>>]
        /\ tmp' = [tmp EXCEPT ![t] = atom]
        /\ dest' = IF mode = "inplace" THEN f ELSE dest
        /\ UNCHANGED wire
  BY DEF Open
<1>4. mode \in {"inplace", "atomic"}
  <2>1. ~(mode = "error" \/ (f = t /\ ~dir.writable))
    BY DEF Open
  <2>2. opt[t].mode \in {"auto", "atomic", "inplace"}
    BY DEF TypeInv, OptOK, Option
  <2>3. mode \in {"inplace", "atomic", "error"}
    BY <2>2 DEF WriteMode
  <2>4. QED
    BY <2>1, <2>3
<1> HIDE DEF mode, f
<1>5. pre \in BOOLEAN /\ atom \in BOOLEAN /\ (pre => rcv[t].want > 0) /\ (atom <=> mode = "atomic")
  <2>1. atom \in BOOLEAN
    BY Zenon
  <2>2. QED
    BY <1>3, <2>1
<1> HIDE DEF atom
<1>6. /\ rcv' \in [Transfers -> Receiver] /\ \A u \in Transfers \ {t} : rcv'[u] = rcv[u]
      /\ rcv'[t].pc = "data" /\ rcv'[t].fd = f /\ rcv'[t].offset = rcv[t].offset /\ rcv'[t].want = rcv[t].want
      /\ rcv'[t].pre = pre /\ rcv'[t].atomic = atom
  <2>1. rcv[t] \in Receiver /\ f \in Files \cup {None}
    BY <1>1, <1>2
  <2>2. rcv'[t] = [rcv[t] EXCEPT !.pc = "data", !.fd = f, !.pre = pre, !.atomic = atom]
    BY <1>1, <1>3
  <2>3. \A u \in Transfers \ {t} : rcv'[u] = rcv[u]
    BY <1>1, <1>3
  <2>4. rcv'[t] \in Receiver
    BY <1>5, <2>1, <2>2 DEF Receiver
  <2>5. rcv' \in [Transfers -> Receiver]
    BY <1>1, <1>3, <2>3, <2>4
  <2>6. rcv'[t].pc = "data" /\ rcv'[t].fd = f /\ rcv'[t].offset = rcv[t].offset /\ rcv'[t].want = rcv[t].want
    BY <2>1, <2>2 DEF Receiver
  <2>7. rcv'[t].pre = pre
    BY <2>1, <2>2 DEF Receiver
  <2>8. rcv'[t].atomic = atom
    BY <2>1, <2>2 DEF Receiver
  <2>9. QED
    BY <2>3, <2>5, <2>6, <2>7, <2>8
<1> DEFINE d == IF pre THEN [i \in 1..rcv[t].want |-> Hole] ELSE <<>>
<1> HIDE DEF d
<1>7. d \in Seq(Unit) /\ Len(d) = (IF pre /\ rcv[t].want > 0 THEN rcv[t].want ELSE 0)
  <2>1. CASE pre
    <3>1. rcv[t].want > 0
      BY <1>5, <2>1
    <3>2. d = [i \in 1..rcv[t].want |-> d[i]] /\ \A i \in 1..rcv[t].want : d[i] \in Unit
      BY <2>1 DEF Unit, d
    <3>3. d \in Seq(Unit) /\ Len(d) = rcv[t].want
      BY <1>1, <3>2, Filled
    <3>4. QED
      BY <2>1, <3>1, <3>3
  <2>2. CASE ~pre
    BY <2>2, EmptySeq DEF d
  <2>3. QED
    BY <2>1, <2>2
<1>8. data' = [data EXCEPT ![f] = d]
  BY <1>3 DEF d
<1>9. data' \in [Files -> Seq(Unit)] /\ data'[f] = d /\ \A g \in Files \ {f} : data'[g] = data[g]
  BY <1>1, <1>2, <1>7, <1>8
<1>10. tmp' \in [Transfers -> BOOLEAN] /\ \A u \in Transfers \ {t} : tmp'[u] = tmp[u]
  BY <1>1, <1>3, <1>5
<1>11. rcv'[t].atomic => rcv'[t].fd = t /\ dest' = dest
  BY <1>2, <1>3, <1>5, <1>6
<1>12. ~rcv'[t].atomic => dest' = rcv'[t].fd
  BY <1>3, <1>4, <1>5, <1>6
<1>13. Len(data'[rcv'[t].fd]) = (IF rcv'[t].pre /\ rcv[t].want > 0 THEN rcv[t].want ELSE 0)
  BY <1>6, <1>7, <1>9
<1>14. QED
  BY <1>2, <1>3, <1>6, <1>9, <1>10, <1>11, <1>12, <1>13 DEF Open

(* What write_all leaves in the file.                                      *)
LEMMA WrittenFacts ==
  ASSUME NEW d \in Seq(Unit), NEW o \in Nat, NEW n \in Nat, NEW t \in Transfers
  PROVE  /\ Written(d, o, n, t) \in Seq(Unit)
         /\ Len(Written(d, o, n, t)) = (IF o + n > Len(d) THEN o + n ELSE Len(d))
         /\ \A i \in 1 .. Len(Written(d, o, n, t)) :
              Written(d, o, n, t)[i] = IF i > o /\ i <= o + n THEN t ELSE IF i <= Len(d) THEN d[i] ELSE Hole
<1> DEFINE m == IF o + n > Len(d) THEN o + n ELSE Len(d)
           w == [i \in 1 .. m |-> IF i > o /\ i <= o + n THEN t ELSE IF i <= Len(d) THEN d[i] ELSE Hole]
<1>1. m \in Nat /\ Len(d) \in Nat /\ \A i \in 1 .. Len(d) : d[i] \in Unit
  BY LenProperties, ElementOfSeq
<1>2. \A i \in 1 .. m : w[i] = IF i > o /\ i <= o + n THEN t ELSE IF i <= Len(d) THEN d[i] ELSE Hole
  OBVIOUS
<1>3. w = [i \in 1 .. m |-> w[i]]
  OBVIOUS
<1>4. ASSUME NEW i \in 1 .. m PROVE w[i] \in Unit
  <2>1. i <= Len(d) => d[i] \in Unit
    BY <1>1
  <2>2. t \in Unit /\ Hole \in Unit
    BY DEF Unit, Files
  <2>3. QED
    BY <1>2, <2>1, <2>2
<1> HIDE DEF m
<1>5. Written(d, o, n, t) = w
  BY DEF Written, m
<1> HIDE DEF w
<1>6. w \in Seq(Unit) /\ Len(w) = m
  BY <1>1, <1>3, <1>4, Filled
<1>7. QED
  BY <1>2, <1>5, <1>6 DEF m

(* One round of copy_loop_posix_recv: the end, a piece, or a broken one.   *)
LEMMA RecvDataFacts ==
  ASSUME TypeInv, NEW t \in Transfers, RecvData(t), ~Dies(t)
  PROVE  \E n \in Nat :
           /\ rcv[t].pc = "data" /\ Len(wire[t]) > 0 /\ n \in Received(wire[t][1])
           /\ rcv' \in [Transfers -> Receiver] /\ \A u \in Transfers \ {t} : rcv'[u] = rcv[u]
           /\ rcv'[t].fd = rcv[t].fd /\ rcv'[t].atomic = rcv[t].atomic
           /\ rcv'[t].want = rcv[t].want /\ rcv'[t].pre = rcv[t].pre
           /\ UNCHANGED <<dest, tmp>>
           /\ \/ /\ n = 0 /\ rcv'[t].pc = "finish" /\ rcv'[t].offset = rcv[t].offset /\ UNCHANGED data
                 /\ wire' = [wire EXCEPT ![t] = IF Len(@) > 1 THEN Tail(Tail(@)) ELSE <<>>]
              \/ /\ n > 0 /\ rcv'[t].pc = "data" /\ rcv'[t].offset = rcv[t].offset + n /\ Len(wire[t]) > 1
                 /\ data' = [data EXCEPT ![rcv[t].fd] = Written(@, rcv[t].offset, n, t)]
                 /\ wire' = [wire EXCEPT ![t] = Tail(Tail(@))]
<1>1. rcv \in [Transfers -> Receiver] /\ wire[t] \in Seq(Message) /\ wire[t] # <<>>
  BY DEF TypeInv, EndsOK, LinkOK, RecvData
<1>2. Head(wire[t]) = wire[t][1] /\ Head(wire[t]) \in Message /\ Len(wire[t]) \in Nat \ {0}
  BY <1>1, HeadTailProperties, LenProperties, EmptySeq
<1>3. PICK n \in Received(wire[t][1]) :
        \/ /\ n = 0 /\ rcv' = [rcv EXCEPT ![t].pc = "finish"]
           /\ wire' = [wire EXCEPT ![t] = IF Len(@) > 1 THEN Tail(Tail(@)) ELSE <<>>]
           /\ UNCHANGED <<dest, tmp, data>>
        \/ /\ n > 0 /\ Len(wire[t]) > 1
           /\ data' = [data EXCEPT ![rcv[t].fd] = Written(@, rcv[t].offset, n, t)]
           /\ rcv' = [rcv EXCEPT ![t].offset = @ + n]
           /\ wire' = [wire EXCEPT ![t] = Tail(Tail(@))]
           /\ UNCHANGED <<dest, tmp>>
  <2>1. PICK n \in Received(wire[t][1]) :
          LET whole == Len(wire[t]) > 1 /\ ~wire[t][2].torn
              fd == rcv[t].fd
          IN  CASE n = 0 ->
                     /\ rcv' = [rcv EXCEPT ![t].pc = "finish"]
                     /\ wire' = [wire EXCEPT ![t] = IF Len(@) > 1 THEN Tail(Tail(@)) ELSE <<>>]
                     /\ UNCHANGED <<dest, tmp, data>>
                [] n > 0 /\ whole ->
                     /\ data' = [data EXCEPT ![fd] = Written(@, rcv[t].offset, n, t)]
                     /\ rcv' = [rcv EXCEPT ![t].offset = @ + n]
                     /\ wire' = [wire EXCEPT ![t] = Tail(Tail(@))]
                     /\ UNCHANGED <<dest, tmp>>
                [] n > 0 /\ ~whole -> cut[t] /\ Dies(t)
    BY <1>2 DEF RecvData
  <2>2. n \in Nat
    BY <1>2, XferAssumption DEF Received, Message
  <2>3. CASE n = 0
    BY <2>1, <2>3
  <2>4. CASE n > 0 /\ (Len(wire[t]) > 1 /\ ~wire[t][2].torn)
    BY <2>1, <2>4
  <2>5. CASE n > 0 /\ ~(Len(wire[t]) > 1 /\ ~wire[t][2].torn)
    BY <2>1, <2>5
  <2>6. QED
    BY <2>2, <2>3, <2>4, <2>5, SMTT(30)
<1>4. n \in Nat
  BY <1>2, XferAssumption DEF Received, Message
<1>5. /\ rcv' \in [Transfers -> Receiver] /\ \A u \in Transfers \ {t} : rcv'[u] = rcv[u]
      /\ rcv'[t].fd = rcv[t].fd /\ rcv'[t].atomic = rcv[t].atomic
      /\ rcv'[t].want = rcv[t].want /\ rcv'[t].pre = rcv[t].pre
      /\ n = 0 => rcv'[t].pc = "finish" /\ rcv'[t].offset = rcv[t].offset
      /\ n > 0 => rcv'[t].pc = "data" /\ rcv'[t].offset = rcv[t].offset + n
  <2>1. rcv[t].pc = "data" /\ rcv[t].offset \in Nat /\ rcv[t].offset + n \in Nat
    BY <1>1, <1>4 DEF Receiver, RecvData
  <2>2. CASE rcv' = [rcv EXCEPT ![t].pc = "finish"] /\ n = 0
    <3>1. rcv'[t] = [rcv[t] EXCEPT !.pc = "finish"] /\ rcv[t] \in Receiver
      BY <1>1, <2>2
    <3>2. rcv' \in [Transfers -> Receiver] /\ \A u \in Transfers \ {t} : rcv'[u] = rcv[u]
      BY <1>1, <2>2 DEF Receiver
    <3>3. rcv'[t].fd = rcv[t].fd /\ rcv'[t].want = rcv[t].want /\ rcv'[t].pc = "finish" /\ rcv'[t].offset = rcv[t].offset
      BY <3>1 DEF Receiver
    <3>4. rcv'[t].atomic = rcv[t].atomic
      BY <3>1 DEF Receiver
    <3>5. rcv'[t].pre = rcv[t].pre
      BY <3>1 DEF Receiver
    <3>6. QED
      BY <2>2, <3>2, <3>3, <3>4, <3>5
  <2>3. CASE rcv' = [rcv EXCEPT ![t].offset = @ + n] /\ n > 0
    <3>1. rcv'[t] = [rcv[t] EXCEPT !.offset = rcv[t].offset + n] /\ rcv[t] \in Receiver
      BY <1>1, <2>3
    <3>2. rcv' \in [Transfers -> Receiver] /\ \A u \in Transfers \ {t} : rcv'[u] = rcv[u]
      BY <1>1, <1>4, <2>1, <2>3 DEF Receiver
    <3>3. rcv'[t].fd = rcv[t].fd /\ rcv'[t].want = rcv[t].want /\ rcv'[t].pc = "data" /\ rcv'[t].offset = rcv[t].offset + n
      BY <2>1, <3>1 DEF Receiver
    <3>4. rcv'[t].atomic = rcv[t].atomic
      BY <3>1 DEF Receiver
    <3>5. rcv'[t].pre = rcv[t].pre
      BY <3>1 DEF Receiver
    <3>6. QED
      BY <1>4, <2>3, <3>2, <3>3, <3>4, <3>5
  <2>4. QED
    BY <1>3, <2>2, <2>3
<1>6. rcv[t].pc = "data"
  BY DEF RecvData
<1>7. QED
  BY <1>2, <1>3, <1>4, <1>5, <1>6

(* What ftruncate leaves in the file.                                      *)
LEMMA TruncatedFacts ==
  ASSUME NEW d \in Seq(Unit), NEW n \in Nat
  PROVE  /\ Truncated(d, n) \in Seq(Unit) /\ Len(Truncated(d, n)) = n
         /\ \A i \in 1 .. n : i <= Len(d) => Truncated(d, n)[i] = d[i]
<1> DEFINE w == Truncated(d, n)
<1>1. /\ w = [i \in 1 .. n |-> w[i]]
      /\ \A i \in 1 .. n : w[i] = IF i <= Len(d) THEN d[i] ELSE Hole
  BY DEF Truncated
<1>2. \A i \in 1 .. n : w[i] \in Unit
  BY <1>1, ElementOfSeq, LenProperties DEF Unit
<1> HIDE DEF w
<1>3. w \in Seq(Unit) /\ Len(w) = n
  BY <1>1, <1>2, Filled
<1>4. QED
  BY <1>1, <1>3 DEF w

(* The receiver of t only goes on to pc l.                                 *)
LEMMA GoesOn ==
  ASSUME TypeInv, NEW t \in Transfers,
         NEW l \in {"rename", "syncdir", "ok", "killed"}, rcv' = [rcv EXCEPT ![t].pc = l]
  PROVE  /\ rcv' \in [Transfers -> Receiver] /\ \A u \in Transfers \ {t} : rcv'[u] = rcv[u]
         /\ rcv'[t].pc = l /\ rcv'[t].fd = rcv[t].fd /\ rcv'[t].atomic = rcv[t].atomic
<1>1. rcv \in [Transfers -> Receiver] /\ rcv[t] \in Receiver
  BY DEF TypeInv, EndsOK
<1>2. rcv'[t] = [rcv[t] EXCEPT !.pc = l]
  BY <1>1
<1>3. rcv' \in [Transfers -> Receiver] /\ \A u \in Transfers \ {t} : rcv'[u] = rcv[u]
  BY <1>1 DEF Receiver
<1>4. rcv'[t].pc = l /\ rcv'[t].fd = rcv[t].fd
  BY <1>1, <1>2 DEF Receiver
<1>5. rcv'[t].atomic = rcv[t].atomic
  BY <1>1, <1>2 DEF Receiver
<1>6. QED
  BY <1>3, <1>4, <1>5

(* The end of do_xfer_recv, when nothing fails.                            *)
LEMMA FinishFacts ==
  ASSUME TypeInv, NEW t \in Transfers, Finish(t), ~Dies(t)
  PROVE  /\ rcv' \in [Transfers -> Receiver] /\ \A u \in Transfers \ {t} : rcv'[u] = rcv[u]
         /\ rcv[t].pc = "finish" /\ rcv'[t].pc = (IF rcv[t].atomic THEN "rename" ELSE "syncdir")
         /\ rcv'[t].fd = rcv[t].fd /\ rcv'[t].atomic = rcv[t].atomic
         /\ data' = IF rcv[t].pre /\ rcv[t].offset < rcv[t].want
                    THEN [data EXCEPT ![rcv[t].fd] = Truncated(@, rcv[t].offset)] ELSE data
         /\ data' \in [Files -> Seq(Unit)] /\ \A f \in Files \ {rcv[t].fd} : data'[f] = data[f]
         /\ UNCHANGED <<dest, tmp, wire>>
<1> DEFINE l == IF rcv[t].atomic THEN "rename" ELSE "syncdir"
<1>1. rcv[t].pc = "finish" /\ rcv' = [rcv EXCEPT ![t].pc = l] /\ UNCHANGED <<dest, tmp, wire>>
  BY DEF Finish
<1>2. data' = IF rcv[t].pre /\ rcv[t].offset < rcv[t].want
              THEN [data EXCEPT ![rcv[t].fd] = Truncated(@, rcv[t].offset)] ELSE data
  BY DEF Finish
<1>3. l \in {"rename", "syncdir", "ok", "killed"}
  OBVIOUS
<1> HIDE DEF l
<1>4. /\ rcv' \in [Transfers -> Receiver] /\ \A u \in Transfers \ {t} : rcv'[u] = rcv[u]
      /\ rcv'[t].pc = l /\ rcv'[t].fd = rcv[t].fd /\ rcv'[t].atomic = rcv[t].atomic
  BY <1>1, <1>3, GoesOn
<1>5. rcv[t].fd \in Files /\ rcv[t].offset \in Nat /\ data \in [Files -> Seq(Unit)]
  BY <1>1 DEF TypeInv, Opened, EndsOK, FilesOK, Receiver
<1>6. Truncated(data[rcv[t].fd], rcv[t].offset) \in Seq(Unit)
  BY <1>5, TruncatedFacts
<1>7. data' \in [Files -> Seq(Unit)] /\ \A f \in Files \ {rcv[t].fd} : data'[f] = data[f]
  BY <1>2, <1>5, <1>6
<1>8. QED
  BY <1>1, <1>2, <1>4, <1>7 DEF l

(* A round of copy_loop_posix_recv writes to the descriptor's file only.   *)
LEMMA WritesOwn ==
  ASSUME TypeInv, NEW t \in Transfers, NEW n \in Nat, rcv[t].pc = "data",
         data' = [data EXCEPT ![rcv[t].fd] = Written(@, rcv[t].offset, n, t)]
  PROVE  /\ data' \in [Files -> Seq(Unit)] /\ \A f \in Files \ {rcv[t].fd} : data'[f] = data[f]
         /\ data'[rcv[t].fd] = Written(data[rcv[t].fd], rcv[t].offset, n, t)
<1>1. rcv[t].fd \in Files /\ rcv[t].offset \in Nat /\ data \in [Files -> Seq(Unit)]
  BY DEF TypeInv, Opened, EndsOK, FilesOK, Receiver
<1>2. Written(data[rcv[t].fd], rcv[t].offset, n, t) \in Seq(Unit)
  BY <1>1, WrittenFacts
<1>3. QED
  BY <1>1, <1>2

(* What is left of the stream when messages were taken from it.            *)
LEMMA Taken ==
  ASSUME TypeInv, NEW t \in Transfers
  PROVE  /\ wire[t] # <<>> /\ wire' = [wire EXCEPT ![t] = Tail(@)] =>
              wire' \in [Transfers -> Seq(Message)] /\ wire'[t] = Tail(wire[t])
         /\ Len(wire[t]) > 1 /\ wire' = [wire EXCEPT ![t] = Tail(Tail(@))] =>
              wire' \in [Transfers -> Seq(Message)] /\ wire'[t] = Tail(Tail(wire[t]))
         /\ wire' = [wire EXCEPT ![t] = <<>>] => wire' \in [Transfers -> Seq(Message)] /\ wire'[t] = <<>>
<1>1. wire \in [Transfers -> Seq(Message)] /\ wire[t] \in Seq(Message)
  BY DEF TypeInv, LinkOK
<1>2. wire[t] # <<>> => Tail(wire[t]) \in Seq(Message)
  BY <1>1, HeadTailProperties
<1>3. Len(wire[t]) > 1 => Tail(Tail(wire[t])) \in Seq(Message)
  <2>1. SUFFICES ASSUME Len(wire[t]) > 1 PROVE Tail(Tail(wire[t])) \in Seq(Message)
    OBVIOUS
  <2>2. wire[t] # <<>>
    BY <1>1, <2>1, EmptySeq
  <2> DEFINE w == Tail(wire[t])
  <2>3. w \in Seq(Message) /\ Len(w) = Len(wire[t]) - 1
    BY <1>1, <2>2, HeadTailProperties
  <2> HIDE DEF w
  <2>4. Len(wire[t]) \in Nat
    BY <1>1, LenProperties
  <2>5. Len(w) # 0
    BY <2>1, <2>3, <2>4
  <2>6. w # <<>>
    BY <2>5
  <2>7. Tail(w) \in Seq(Message)
    BY <2>3, <2>6, HeadTailProperties
  <2>8. QED
    BY <2>7 DEF w
<1>4. <<>> \in Seq(Message)
  BY EmptySeq
<1>5. QED
  BY <1>1, <1>2, <1>3, <1>4

(* A step of the receiver is one that dies, or one in which nothing fails. *)
LEMMA ReceiverCases ==
  ASSUME NEW t \in Transfers, ReceiverStep(t)
  PROVE  \/ Dies(t) /\ rcv[t].pc # "ok"
         \/ RecvStat(t) \/ (Open(t) /\ ~Dies(t)) \/ (RecvData(t) /\ ~Dies(t)) \/ (Finish(t) /\ ~Dies(t))
         \/ ((Rename(t) \/ SyncDir(t)) /\ ~Dies(t))
<1>1. RecvStat(t) \/ Open(t) \/ RecvData(t) \/ Finish(t) \/ Rename(t) \/ SyncDir(t) \/ ShortMessage(t) => rcv[t].pc # "ok"
  BY DEF RecvStat, Open, RecvData, Finish, Rename, SyncDir, ShortMessage
<1>2. ShortMessage(t) => Dies(t)
  BY DEF ShortMessage
<1>3. QED
  BY <1>1, <1>2 DEF ReceiverStep

(* The receiver's steps keep the types.                                    *)
LEMMA TypeReceiver ==
  ASSUME TypeInv, NEW t \in Transfers, ReceiverStep(t)
  PROVE  TypeInv'
<1>1. OptOK' /\ UNCHANGED <<opt, dir, snd, cut, status>>
  BY DEF ReceiverStep, TypeInv, OptOK
<1>2. /\ OptOK /\ FilesOK /\ EndsOK /\ LinkOK /\ \A u \in Transfers : Opened(u)
      /\ None \notin Files /\ rcv[t] \in Receiver
  BY XferAssumption DEF TypeInv, EndsOK
<1>3. status[t] = "ok" => rcv[t].pc = "ok"
  BY <1>2 DEF Opened
<1>4. ASSUME rcv' \in [Transfers -> Receiver], \A u \in Transfers \ {t} : rcv'[u] = rcv[u], Opened(t)',
             FilesOK', wire' \in [Transfers -> Seq(Message)]
      PROVE  TypeInv'
  <2>1. EndsOK'
    BY <1>1, <1>2, <1>4 DEF EndsOK
  <2>2. LinkOK'
    BY <1>1, <1>2, <1>4 DEF LinkOK
  <2>3. ASSUME NEW u \in Transfers PROVE Opened(u)'
    <3>1. CASE u = t
      BY <1>4, <3>1
    <3>2. CASE u # t
      <4>1. rcv'[u] = rcv[u] /\ Opened(u) /\ status' = status
        BY <1>1, <1>2, <1>4, <3>2
      <4>2. QED
        BY <4>1 DEF Opened
    <3>3. QED
      BY <3>1, <3>2
  <2>4. QED
    BY <1>1, <1>4, <2>1, <2>2, <2>3 DEF TypeInv
<1>5. CASE Dies(t) /\ rcv[t].pc # "ok"
  <2>1. /\ rcv' \in [Transfers -> Receiver] /\ \A u \in Transfers \ {t} : rcv'[u] = rcv[u]
        /\ rcv'[t].pc = "failed" /\ rcv'[t].fd = rcv[t].fd /\ rcv'[t].atomic = rcv[t].atomic
        /\ tmp' \in [Transfers -> BOOLEAN]
        /\ dest' \in {dest, None} /\ UNCHANGED <<data, wire>>
    BY <1>5, DiesFacts
  <2>2. FilesOK' /\ wire' \in [Transfers -> Seq(Message)]
    BY <1>2, <2>1 DEF FilesOK, LinkOK
  <2>3. Opened(t)'
    BY <1>1, <1>2, <1>3, <1>5, <2>1 DEF Opened
  <2>4. QED
    BY <1>4, <2>1, <2>2, <2>3
<1>6. CASE RecvStat(t)
  <2>1. /\ rcv' \in [Transfers -> Receiver] /\ \A u \in Transfers \ {t} : rcv'[u] = rcv[u]
        /\ rcv[t].pc = "stat" /\ rcv'[t].pc = "open" /\ rcv'[t].fd = rcv[t].fd
        /\ rcv'[t].atomic = rcv[t].atomic /\ rcv'[t].offset = rcv[t].offset
        /\ wire[t] # <<>> /\ wire' = [wire EXCEPT ![t] = Tail(@)] /\ UNCHANGED <<dest, tmp, data>>
    BY <1>6, RecvStatFacts
  <2>2. FilesOK' /\ wire' \in [Transfers -> Seq(Message)]
    BY <1>2, <2>1, Taken DEF FilesOK
  <2>3. Opened(t)'
    BY <1>1, <1>2, <1>3, <2>1 DEF Opened
  <2>4. QED
    BY <1>4, <2>1, <2>2, <2>3
<1>7. CASE Open(t) /\ ~Dies(t)
  <2>1. /\ rcv' \in [Transfers -> Receiver] /\ \A u \in Transfers \ {t} : rcv'[u] = rcv[u]
        /\ rcv[t].pc = "open" /\ rcv'[t].pc = "data" /\ rcv'[t].fd \in Files
        /\ rcv'[t].atomic => rcv'[t].fd = t /\ dest' = dest
        /\ ~rcv'[t].atomic => dest' = rcv'[t].fd
        /\ data' \in [Files -> Seq(Unit)]
        /\ tmp' \in [Transfers -> BOOLEAN] /\ UNCHANGED wire
    BY <1>7, OpenFacts
  <2>2. FilesOK' /\ wire' \in [Transfers -> Seq(Message)]
    BY <1>2, <2>1 DEF FilesOK, LinkOK
  <2>3. Opened(t)'
    BY <1>1, <1>2, <1>3, <2>1 DEF Opened
  <2>4. QED
    BY <1>4, <2>1, <2>2, <2>3
<1>8. CASE RecvData(t) /\ ~Dies(t)
  <2>1. PICK n \in Nat :
           /\ rcv[t].pc = "data" /\ Len(wire[t]) > 0 /\ n \in Received(wire[t][1])
           /\ rcv' \in [Transfers -> Receiver] /\ \A u \in Transfers \ {t} : rcv'[u] = rcv[u]
           /\ rcv'[t].fd = rcv[t].fd /\ rcv'[t].atomic = rcv[t].atomic
           /\ rcv'[t].want = rcv[t].want /\ rcv'[t].pre = rcv[t].pre
           /\ UNCHANGED <<dest, tmp>>
           /\ \/ /\ n = 0 /\ rcv'[t].pc = "finish" /\ rcv'[t].offset = rcv[t].offset /\ UNCHANGED data
                 /\ wire' = [wire EXCEPT ![t] = IF Len(@) > 1 THEN Tail(Tail(@)) ELSE <<>>]
              \/ /\ n > 0 /\ rcv'[t].pc = "data" /\ rcv'[t].offset = rcv[t].offset + n /\ Len(wire[t]) > 1
                 /\ data' = [data EXCEPT ![rcv[t].fd] = Written(@, rcv[t].offset, n, t)]
                 /\ wire' = [wire EXCEPT ![t] = Tail(Tail(@))]
    BY <1>8, RecvDataFacts
  <2>2. data' \in [Files -> Seq(Unit)]
    BY <1>2, <2>1, WritesOwn DEF FilesOK
  <2>3. FilesOK'
    BY <1>2, <2>1, <2>2 DEF FilesOK
  <2>4. wire' \in [Transfers -> Seq(Message)]
    BY <2>1, Taken
  <2>5. Opened(t)'
    BY <1>1, <1>2, <1>3, <2>1 DEF Opened
  <2>6. QED
    BY <1>4, <2>1, <2>3, <2>4, <2>5
<1>9. CASE Finish(t) /\ ~Dies(t)
  <2>1. /\ rcv' \in [Transfers -> Receiver] /\ \A u \in Transfers \ {t} : rcv'[u] = rcv[u]
        /\ rcv[t].pc = "finish" /\ rcv'[t].pc = (IF rcv[t].atomic THEN "rename" ELSE "syncdir")
        /\ rcv'[t].fd = rcv[t].fd /\ rcv'[t].atomic = rcv[t].atomic
        /\ data' \in [Files -> Seq(Unit)] /\ UNCHANGED <<dest, tmp, wire>>
    BY <1>9, FinishFacts
  <2>2. FilesOK' /\ wire' \in [Transfers -> Seq(Message)]
    BY <1>2, <2>1 DEF FilesOK, LinkOK
  <2>3. Opened(t)'
    BY <1>1, <1>2, <1>3, <2>1 DEF Opened
  <2>4. QED
    BY <1>4, <2>1, <2>2, <2>3
<1>10. CASE (Rename(t) \/ SyncDir(t)) /\ ~Dies(t)
  <2>1. PICK l \in {"syncdir", "ok"} : rcv' = [rcv EXCEPT ![t].pc = l] /\ rcv[t].pc \in {"rename", "syncdir"}
    BY <1>10 DEF Rename, SyncDir
  <2>2. /\ rcv' \in [Transfers -> Receiver] /\ \A u \in Transfers \ {t} : rcv'[u] = rcv[u]
        /\ rcv'[t].pc = l /\ rcv'[t].fd = rcv[t].fd /\ rcv'[t].atomic = rcv[t].atomic
    BY <2>1, GoesOn
  <2>3. rcv[t].fd \in Files
    BY <1>2, <2>1 DEF Opened, Receiver
  <2>4. FilesOK' /\ wire' \in [Transfers -> Seq(Message)]
    BY <1>2, <1>10, <2>3 DEF FilesOK, LinkOK, Rename, SyncDir
  <2>5. Opened(t)'
    BY <1>1, <1>2, <1>3, <2>1, <2>2 DEF Opened
  <2>6. QED
    BY <1>4, <2>2, <2>4, <2>5
<1>11. QED
  BY <1>5, <1>6, <1>7, <1>8, <1>9, <1>10, ReceiverCases

(* What the sender puts on the stream.                                     *)
LEMMA SendFacts ==
  ASSUME TypeInv, NEW t \in Transfers, SendStat(t) \/ SendData(t)
  PROVE  /\ wire' \in [Transfers -> Seq(Message)] /\ Len(wire[t]) \in Nat
         /\ \A i \in 1 .. Len(wire[t]) : wire'[t][i] = wire[t][i]
         /\ \A u \in Transfers \ {t} : wire'[u] = wire[u] /\ snd'[u] = snd[u]
         /\ snd' \in [Transfers -> Sender] /\ snd'[t].pos <= opt[t].size
         /\ \/ /\ snd[t].pc = "stat" /\ snd'[t].pc = "data" /\ snd'[t].pos = snd[t].pos
               /\ Len(wire'[t]) = Len(wire[t]) + 1 /\ wire'[t][Len(wire[t]) + 1] = Stat(opt[t].stat)
            \/ \E n \in Nat :
                 /\ snd[t].pc = "data" /\ snd'[t].pc = (IF n = 0 THEN "ok" ELSE "data")
                 /\ snd'[t].pos = snd[t].pos + n
                 /\ n = IF opt[t].size - snd[t].pos < Chunk THEN opt[t].size - snd[t].pos ELSE Chunk
                 /\ Len(wire'[t]) = Len(wire[t]) + 2
                 /\ wire'[t][Len(wire[t]) + 1] = DataHeader(n) /\ wire'[t][Len(wire[t]) + 2] = Payload(n)
<1>1. /\ wire \in [Transfers -> Seq(Message)] /\ wire[t] \in Seq(Message) /\ Len(wire[t]) \in Nat
      /\ snd \in [Transfers -> Sender] /\ snd[t] \in Sender /\ snd[t].pos \in Nat /\ snd[t].pos <= opt[t].size
      /\ opt[t].stat \in Nat /\ opt[t].size \in Nat /\ Chunk \in Nat \ {0}
  BY XferAssumption, LenProperties DEF TypeInv, LinkOK, EndsOK, OptOK, Option, Sender
<1>2. CASE SendStat(t)
  <2> DEFINE m == Stat(opt[t].stat)
  <2>1. m \in Message
    BY <1>1 DEF Stat, Message
  <2>2. wire' = [wire EXCEPT ![t] = Append(@, m)] /\ snd' = [snd EXCEPT ![t].pc = "data"] /\ snd[t].pc = "stat"
    BY <1>2 DEF SendStat
  <2> HIDE DEF m
  <2>3. /\ Append(wire[t], m) \in Seq(Message) /\ Len(Append(wire[t], m)) = Len(wire[t]) + 1
        /\ Append(wire[t], m)[Len(wire[t]) + 1] = m /\ \A i \in 1 .. Len(wire[t]) : Append(wire[t], m)[i] = wire[t][i]
    BY <1>1, <2>1, AppendProperties
  <2>4. /\ wire' \in [Transfers -> Seq(Message)] /\ wire'[t] = Append(wire[t], m)
        /\ \A u \in Transfers \ {t} : wire'[u] = wire[u]
    BY <1>1, <2>2, <2>3
  <2>5. /\ snd' \in [Transfers -> Sender] /\ snd'[t].pos = snd[t].pos /\ snd'[t].pc = "data"
        /\ \A u \in Transfers \ {t} : snd'[u] = snd[u]
    BY <1>1, <2>2 DEF Sender
  <2>6. QED
    BY <1>1, <2>2, <2>3, <2>4, <2>5 DEF m
<1>3. CASE SendData(t)
  <2> DEFINE rest == opt[t].size - snd[t].pos
             n == IF rest < Chunk THEN rest ELSE Chunk
             h == DataHeader(n)
             p == Payload(n)
             w == Append(wire[t], h)
             l == IF n = 0 THEN "ok" ELSE "data"
  <2>1. n \in Nat /\ snd[t].pos + n <= opt[t].size
    BY <1>1
  <2>2. /\ wire' = [wire EXCEPT ![t] = Append(w, p)] /\ snd[t].pc = "data"
        /\ snd' = [snd EXCEPT ![t].pos = @ + n, ![t].pc = l]
    BY <1>3 DEF SendData
  <2>3. n = IF opt[t].size - snd[t].pos < Chunk THEN opt[t].size - snd[t].pos ELSE Chunk
    OBVIOUS
  <2> HIDE DEF n, rest
  <2>4. h \in Message /\ p \in Message
    BY <2>1 DEF DataHeader, Payload, Message
  <2> HIDE DEF h, p
  <2>5. /\ w \in Seq(Message) /\ Len(w) = Len(wire[t]) + 1
        /\ w[Len(wire[t]) + 1] = h /\ \A i \in 1 .. Len(wire[t]) : w[i] = wire[t][i]
    BY <1>1, <2>4, AppendProperties
  <2> HIDE DEF w
  <2>6. /\ Append(w, p) \in Seq(Message) /\ Len(Append(w, p)) = Len(w) + 1
        /\ Append(w, p)[Len(w) + 1] = p /\ \A i \in 1 .. Len(w) : Append(w, p)[i] = w[i]
    BY <2>4, <2>5, AppendProperties
  <2>7. /\ wire' \in [Transfers -> Seq(Message)] /\ wire'[t] = Append(w, p)
        /\ \A u \in Transfers \ {t} : wire'[u] = wire[u]
    BY <1>1, <2>2, <2>6
  <2>8. /\ Len(wire'[t]) = Len(wire[t]) + 2 /\ wire'[t][Len(wire[t]) + 1] = h /\ wire'[t][Len(wire[t]) + 2] = p
        /\ \A i \in 1 .. Len(wire[t]) : wire'[t][i] = wire[t][i]
    BY <1>1, <2>5, <2>6, <2>7
  <2>9. /\ snd' \in [Transfers -> Sender] /\ snd'[t].pos = snd[t].pos + n /\ snd'[t].pc = l
        /\ \A u \in Transfers \ {t} : snd'[u] = snd[u]
    <3>1. snd[t].pos + n \in Nat /\ l \in {"ok", "data"}
      BY <1>1, <2>1
    <3> HIDE DEF l
    <3>2. snd'[t] \in Sender /\ snd'[t].pos = snd[t].pos + n /\ snd'[t].pc = l
      BY <1>1, <2>2, <3>1 DEF Sender
    <3>3. \A u \in Transfers \ {t} : snd'[u] = snd[u]
      BY <1>1, <2>2
    <3>4. snd' \in [Transfers -> Sender]
      BY <1>1, <2>2, <3>2, <3>3
    <3>5. QED
      BY <3>2, <3>3, <3>4
  <2>10. QED
    BY <1>1, <2>1, <2>2, <2>3, <2>7, <2>8, <2>9 DEF h, p
<1>4. QED
  BY <1>2, <1>3

(* Every step keeps the types.                                             *)
LEMMA TypeNext ==
  ASSUME TypeInv, [XferNext]_xfervars
  PROVE  TypeInv'
<1>1. CASE UNCHANGED xfervars
  BY <1>1 DEF xfervars, TypeInv, OptOK, FilesOK, EndsOK, LinkOK, Opened
<1>2. /\ OptOK /\ FilesOK /\ EndsOK /\ LinkOK /\ \A u \in Transfers : Opened(u)
  BY DEF TypeInv
<1>3. ASSUME NEW t \in Transfers, SenderStep(t) PROVE TypeInv'
  <2>1. UNCHANGED <<opt, dir, dest, tmp, data, rcv, cut, status>> /\ (SendStat(t) \/ SendData(t))
    BY <1>3 DEF SenderStep
  <2>2. /\ wire' \in [Transfers -> Seq(Message)] /\ snd' \in [Transfers -> Sender]
        /\ snd'[t].pos <= opt[t].size /\ \A u \in Transfers \ {t} : snd'[u] = snd[u]
    BY <2>1, SendFacts
  <2>3. OptOK' /\ FilesOK' /\ LinkOK' /\ \A u \in Transfers : Opened(u)'
    BY <1>2, <2>1, <2>2 DEF OptOK, FilesOK, LinkOK, Opened
  <2>4. EndsOK'
    BY <1>2, <2>1, <2>2 DEF EndsOK
  <2>5. QED
    BY <2>3, <2>4 DEF TypeInv
<1>4. ASSUME NEW t \in Transfers, SenderFails(t) \/ ReadError(t) PROVE TypeInv'
  <2>1. UNCHANGED <<opt, dir, dest, tmp, data, rcv, cut, status, wire>> /\ snd' = [snd EXCEPT ![t].pc = "failed"]
    BY <1>4 DEF SenderFails, ReadError
  <2>2. OptOK' /\ FilesOK' /\ LinkOK' /\ \A u \in Transfers : Opened(u)'
    BY <1>2, <2>1 DEF OptOK, FilesOK, LinkOK, Opened
  <2>3. snd' \in [Transfers -> Sender] /\ \A u \in Transfers : snd'[u].pos = snd[u].pos
    BY <1>2, <2>1 DEF EndsOK, Sender
  <2>4. EndsOK'
    BY <1>2, <2>1, <2>3 DEF EndsOK
  <2>5. QED
    BY <2>2, <2>4 DEF TypeInv
<1>5. ASSUME NEW t \in Transfers, Return(t) PROVE TypeInv'
  <2>1. /\ UNCHANGED <<opt, dir, dest, tmp, data, snd, rcv, wire>>
        /\ status' = [status EXCEPT ![t] = IF Succeeded(t) THEN "ok" ELSE "error"]
        /\ cut' = [cut EXCEPT ![t] = TRUE]
    BY <1>5 DEF Return
  <2>2. OptOK' /\ FilesOK' /\ LinkOK' /\ EndsOK'
    BY <1>2, <2>1 DEF OptOK, FilesOK, LinkOK, EndsOK
  <2>3. ASSUME NEW u \in Transfers, status'[u] = "ok" PROVE rcv[u].pc = "ok"
    BY <1>2, <2>1, <2>3 DEF Opened, Succeeded
  <2>4. \A u \in Transfers : Opened(u)'
    BY <1>2, <2>1, <2>3 DEF Opened
  <2>5. QED
    BY <2>2, <2>4 DEF TypeInv
<1>6. ASSUME NEW t \in Transfers, Cut(t) PROVE TypeInv'
  <2>1. UNCHANGED <<opt, dir, dest, tmp, data, snd, rcv, status>> /\ cut' = [cut EXCEPT ![t] = TRUE]
    BY <1>6 DEF Cut
  <2>2. PICK n \in 0..Len(wire[t]), torn \in BOOLEAN :
          /\ torn => Torn /\ n > 0
          /\ wire' = [wire EXCEPT ![t] = IF torn THEN [SubSeq(@, 1, n) EXCEPT ![n].torn = TRUE] ELSE SubSeq(@, 1, n)]
    BY <1>6 DEF Cut
  <2>3. wire[t] \in Seq(Message) /\ Len(wire[t]) \in Nat
    BY <1>2, LenProperties DEF LinkOK
  <2> DEFINE w == SubSeq(wire[t], 1, n)
             w2 == [w EXCEPT ![n].torn = TRUE]
  <2>4. w \in Seq(Message) /\ Len(w) = n
    BY <2>2, <2>3, SubSeqProperties
  <2> HIDE DEF w
  <2>5. n > 0 => w2 \in Seq(Message)
    <3>1. SUFFICES ASSUME n > 0 PROVE w2 \in Seq(Message)
      OBVIOUS
    <3>2. w \in [1 .. n -> Message] /\ n \in 1 .. n
      BY <2>2, <2>4, <3>1, LenProperties
    <3>3. [w[n] EXCEPT !.torn = TRUE] \in Message
      BY <3>2 DEF Message
    <3>4. w2 = [w EXCEPT ![n] = [w[n] EXCEPT !.torn = TRUE]]
      BY <3>2
    <3>5. w2 \in [1 .. n -> Message]
      BY <3>2, <3>3, <3>4
    <3> HIDE DEF w2
    <3>6. QED
      BY <2>2, <3>5, SeqDef
  <2>6. wire' = [wire EXCEPT ![t] = IF torn THEN w2 ELSE w]
    BY <2>2 DEF w
  <2> HIDE DEF w2
  <2>7. wire' \in [Transfers -> Seq(Message)]
    BY <1>2, <2>2, <2>4, <2>5, <2>6 DEF LinkOK
  <2>8. OptOK' /\ FilesOK' /\ EndsOK' /\ LinkOK' /\ \A u \in Transfers : Opened(u)'
    BY <1>2, <2>1, <2>7 DEF OptOK, FilesOK, LinkOK, EndsOK, Opened
  <2>9. QED
    BY <2>8 DEF TypeInv
<1>7. ASSUME NEW t \in Transfers, Kill(t) PROVE TypeInv'
  <2>1. /\ UNCHANGED <<opt, dir, dest, tmp, data, snd, wire, cut>> /\ rcv' = [rcv EXCEPT ![t].pc = "killed"]
        /\ status' = [status EXCEPT ![t] = IF opt[t].cmd = "fget" THEN "error" ELSE @] /\ rcv[t].pc # "ok"
    BY <1>7 DEF Kill, HasEnded
  <2>2. /\ rcv' \in [Transfers -> Receiver] /\ \A u \in Transfers \ {t} : rcv'[u] = rcv[u]
        /\ rcv'[t].pc = "killed" /\ rcv'[t].fd = rcv[t].fd /\ rcv'[t].atomic = rcv[t].atomic
    BY <2>1, GoesOn
  <2>3. OptOK' /\ FilesOK' /\ EndsOK' /\ LinkOK'
    BY <1>2, <2>1, <2>2 DEF OptOK, FilesOK, LinkOK, EndsOK
  <2>4. ASSUME NEW u \in Transfers, status'[u] = "ok" PROVE u # t /\ status[u] = "ok"
    BY <1>2, <2>1, <2>4 DEF Opened
  <2>5. ASSUME NEW u \in Transfers PROVE Opened(u)'
    <3>1. CASE u = t
      BY <1>2, <2>2, <2>4, <3>1 DEF Opened
    <3>2. CASE u # t
      BY <1>2, <2>2, <2>4, <3>2 DEF Opened
    <3>3. QED
      BY <3>1, <3>2
  <2>6. QED
    BY <2>3, <2>5 DEF TypeInv
<1>8. QED
  BY <1>1, <1>3, <1>4, <1>5, <1>6, <1>7, TypeReceiver DEF XferNext

----------------------------------------------------------------------------
(* Failures clean up.                                                      *)

(* What the name of the destination stands for when only t writes there.   *)
Alone(t) == \A u \in Transfers \ {t} : rcv[u].fd = None
NameKept(t) ==
  /\ rcv[t].pc = "failed" => ~tmp[t]
  /\ Alone(t) /\ ~rcv[t].atomic =>
       dest = IF rcv[t].pc = "failed" /\ dir.writable THEN None ELSE rcv[t].fd
NamesInv == \A t \in Transfers : NameKept(t)

(* What a receiver's step may do to the names.                             *)
LEMMA NamesFacts ==
  ASSUME TypeInv, NEW t \in Transfers, ReceiverStep(t)
  PROVE  /\ \A u \in Transfers \ {t} : rcv'[u] = rcv[u] /\ tmp'[u] = tmp[u]
         /\ rcv[t].pc # "failed"
         /\ rcv'[t].pc = "failed" => Dies(t)
         /\ rcv'[t].fd = None => dest' = dest
         /\ rcv[t].fd # None => rcv'[t].fd = rcv[t].fd
         /\ rcv'[t].pc # "failed" /\ ~rcv'[t].atomic =>
              \/ dest' = rcv'[t].fd
              \/ dest' = dest /\ rcv'[t].fd = rcv[t].fd /\ ~rcv[t].atomic
<1>1. None \notin Files /\ tmp \in [Transfers -> BOOLEAN] /\ Opened(t) /\ rcv[t].fd \in Files \cup {None}
  BY XferAssumption DEF TypeInv, FilesOK, EndsOK, Receiver
<1>2. rcv[t].pc # "failed"
  BY DEF ReceiverStep, RecvStat, Open, RecvData, Finish, Rename, SyncDir, ShortMessage
<1>3. CASE Dies(t)
  <2>1. /\ \A u \in Transfers \ {t} : rcv'[u] = rcv[u] /\ tmp'[u] = tmp[u]
        /\ rcv'[t].pc = "failed" /\ rcv'[t].fd = rcv[t].fd
        /\ rcv[t].atomic => dest' = dest
    BY <1>3, DiesFacts
  <2>2. rcv[t].fd = None => rcv[t].atomic
    BY <1>1 DEF Opened
  <2>3. QED
    BY <1>2, <1>3, <2>1, <2>2
<1>4. CASE RecvStat(t)
  <2>1. /\ \A u \in Transfers \ {t} : rcv'[u] = rcv[u]
        /\ rcv'[t].pc = "open" /\ rcv'[t].fd = rcv[t].fd /\ rcv'[t].atomic = rcv[t].atomic
        /\ UNCHANGED <<dest, tmp>>
    BY <1>4, RecvStatFacts
  <2>2. QED
    BY <1>2, <2>1
<1>5. CASE Open(t) /\ ~Dies(t)
  <2>1. /\ \A u \in Transfers \ {t} : rcv'[u] = rcv[u] /\ tmp'[u] = tmp[u]
        /\ rcv[t].pc = "open" /\ rcv'[t].pc = "data" /\ rcv'[t].fd \in Files
        /\ ~rcv'[t].atomic => dest' = rcv'[t].fd
    BY <1>5, OpenFacts
  <2>2. rcv[t].fd = None
    BY <1>1, <2>1 DEF Opened
  <2>3. QED
    BY <1>1, <1>2, <2>1, <2>2
<1>6. CASE RecvData(t) /\ ~Dies(t)
  <2>1. /\ \A u \in Transfers \ {t} : rcv'[u] = rcv[u]
        /\ rcv'[t].pc # "failed" /\ rcv'[t].fd = rcv[t].fd /\ rcv'[t].atomic = rcv[t].atomic
        /\ UNCHANGED <<dest, tmp>>
    BY <1>6, RecvDataFacts
  <2>2. QED
    BY <1>2, <2>1
<1>7. CASE Finish(t) /\ ~Dies(t)
  <2>1. /\ \A u \in Transfers \ {t} : rcv'[u] = rcv[u]
        /\ rcv'[t].pc # "failed" /\ rcv'[t].fd = rcv[t].fd /\ rcv'[t].atomic = rcv[t].atomic
        /\ UNCHANGED <<dest, tmp>>
    BY <1>7, FinishFacts
  <2>2. QED
    BY <1>2, <2>1
<1>8. CASE (Rename(t) \/ SyncDir(t)) /\ ~Dies(t)
  <2>1. PICK l \in {"syncdir", "ok"} : rcv' = [rcv EXCEPT ![t].pc = l] /\ rcv[t].pc \in {"rename", "syncdir"}
    BY <1>8 DEF Rename, SyncDir
  <2>2. /\ \A u \in Transfers \ {t} : rcv'[u] = rcv[u]
        /\ rcv'[t].pc = l /\ rcv'[t].fd = rcv[t].fd /\ rcv'[t].atomic = rcv[t].atomic
    BY <2>1, GoesOn
  <2>3. rcv[t].fd # None
    BY <1>1, <2>1 DEF Opened
  <2>4. \A u \in Transfers \ {t} : tmp'[u] = tmp[u]
    BY <1>1, <1>8 DEF Rename, SyncDir
  <2>5. dest' = dest \/ dest' = rcv'[t].fd
    BY <1>8, <2>2 DEF Rename, SyncDir
  <2>6. QED
    BY <1>2, <2>1, <2>2, <2>3, <2>4, <2>5
<1>9. QED
  BY <1>3, <1>4, <1>5, <1>6, <1>7, <1>8, ReceiverCases

(* Every step.                                                             *)
LEMMA CleanNext ==
  ASSUME TypeInv, NamesInv, [XferNext]_xfervars
  PROVE  NamesInv'
<1>1. SUFFICES ASSUME NEW v \in Transfers
               PROVE  NameKept(v)'
  BY DEF NamesInv
<1>2. None \notin Files /\ rcv \in [Transfers -> Receiver] /\ Opened(v) /\ NameKept(v)
  BY XferAssumption DEF TypeInv, EndsOK, NamesInv
<1>3. UNCHANGED dir
  BY DEF XferNext, xfervars, SenderStep, SenderFails, ReceiverStep, Return, ReadError, Cut, Kill
<1>4. CASE UNCHANGED <<dest, tmp, rcv>>
  BY <1>2, <1>3, <1>4 DEF NameKept, Alone
<1>5. CASE \E t \in Transfers : Kill(t)
  <2>1. PICK t \in Transfers : Kill(t)
    BY <1>5
  <2>2. /\ \A u \in Transfers \ {t} : rcv'[u] = rcv[u]
        /\ rcv[t].pc # "failed" /\ rcv'[t].pc = "killed"
        /\ rcv'[t].fd = rcv[t].fd /\ rcv'[t].atomic = rcv[t].atomic /\ UNCHANGED <<dest, tmp>>
    BY <2>1, GoesOn DEF Kill, HasEnded
  <2>3. /\ \A u \in Transfers : rcv'[u].fd = rcv[u].fd
        /\ rcv'[v].atomic = rcv[v].atomic /\ (rcv'[v].pc = "failed" <=> rcv[v].pc = "failed")
    BY <2>2
  <2>4. QED
    BY <1>2, <1>3, <2>2, <2>3 DEF NameKept, Alone
<1>6. CASE \E t \in Transfers : ReceiverStep(t)
  <2>1. PICK t \in Transfers : ReceiverStep(t)
    BY <1>6
  <2>2. /\ \A u \in Transfers \ {t} : rcv'[u] = rcv[u] /\ tmp'[u] = tmp[u]
        /\ rcv[t].pc # "failed"
        /\ rcv'[t].pc = "failed" => Dies(t)
        /\ rcv'[t].fd = None => dest' = dest
        /\ rcv[t].fd # None => rcv'[t].fd = rcv[t].fd
        /\ rcv'[t].pc # "failed" /\ ~rcv'[t].atomic =>
             \/ dest' = rcv'[t].fd
             \/ dest' = dest /\ rcv'[t].fd = rcv[t].fd /\ ~rcv[t].atomic
    BY <2>1, NamesFacts
  <2>3. CASE v = t
    <3>1. Alone(v)' => Alone(v)
      BY <2>2, <2>3 DEF Alone
    <3>2. CASE Dies(t)
      <4>1. /\ rcv'[t].pc = "failed" /\ rcv'[t].fd = rcv[t].fd /\ rcv'[t].atomic = rcv[t].atomic
            /\ tmp'[t] = FALSE
            /\ ~rcv[t].atomic => dest' = IF dir.writable THEN None ELSE dest
        BY <3>2, DiesFacts
      <4>2. QED
        BY <1>2, <1>3, <2>2, <2>3, <3>1, <4>1 DEF NameKept
    <3>3. CASE ~Dies(t)
      <4>1. rcv'[t].pc # "failed"
        BY <2>2, <3>3
      <4>2. QED
        BY <1>2, <1>3, <2>2, <2>3, <3>1, <4>1 DEF NameKept
    <3>4. QED
      BY <3>2, <3>3
  <2>4. CASE v # t
    <3>1. rcv'[v] = rcv[v] /\ tmp'[v] = tmp[v]
      BY <2>2, <2>4
    <3>2. ASSUME Alone(v)'
          PROVE  dest' = dest /\ Alone(v)
      <4>1. \A u \in Transfers \ {v} : rcv'[u].fd = None
        BY <3>2 DEF Alone
      <4>2. rcv'[t].fd = None
        BY <2>4, <4>1
      <4>3. QED
        BY <2>2, <4>1, <4>2 DEF Alone
    <3>3. QED
      BY <1>2, <1>3, <3>1, <3>2 DEF NameKept
  <2>5. QED
    BY <2>3, <2>4
<1>7. QED
  <2>1. ASSUME NEW t \in Transfers, SenderStep(t) \/ SenderFails(t) \/ Return(t) \/ ReadError(t) \/ Cut(t)
        PROVE  UNCHANGED <<dest, tmp, rcv>>
    BY <2>1 DEF SenderStep, SenderFails, Return, ReadError, Cut
  <2>2. UNCHANGED xfervars => UNCHANGED <<dest, tmp, rcv>>
    BY DEF xfervars
  <2>3. QED
    BY <1>4, <1>5, <1>6, <2>1, <2>2 DEF XferNext

(* A transfer that fails, and is not killed, leaves no temporary file; a   *)
(* lone one that writes in place leaves nothing under the destination's    *)
(* name or, where the directory cannot be written to and the unlink of     *)
(* do_xfer_recv's cleanup fails unnoticed, the file it was writing.        *)
THEOREM FailureLeaves == XferSpec => []FailureCleansUp
<1>1. XferInit => TypeInv /\ NamesInv
  <2>1. XferInit => NamesInv
    BY DEF XferInit, NamesInv, NameKept
  <2>2. QED
    BY <2>1, TypeInit
<1>2. TypeInv /\ NamesInv /\ [XferNext]_xfervars => (TypeInv /\ NamesInv)'
  BY TypeNext, CleanNext
<1>3. NamesInv => FailureCleansUp
  BY DEF NamesInv, NameKept, Alone, FailureCleansUp
<1>4. QED
  BY <1>1, <1>2, <1>3, PTL DEF XferSpec

----------------------------------------------------------------------------
(* The stream.                                                             *)

(* No message of t was torn that matters.                                  *)
Clean(t) == ~Torn \/ ~cut[t] \/ status[t] = "ok"
Reading(t) == rcv[t].pc \in {"stat", "open", "data"}

(* The next piece of a file of z units, at position p.                     *)
Piece(z, p) == IF z - p < Chunk THEN z - p ELSE Chunk

(* Message m takes the stream from position p of the file to position q.   *)
Advances(z, m, p, q) ==
  /\ ~m.torn
  /\ m.type = "stat" => q = p
  /\ m.type = "data" => q = p /\ m.n = Piece(z, p)
  /\ m.type = "payload" => q = p + m.n

(* Message k comes next after message m.                                   *)
Follows(m, k) ==
  /\ m.type = "data" => k.type = "payload" /\ k.n = m.n
  /\ m.type # "data" => k.type = "data"

(* Stream w is a part of what is sent of a file of z units, and P[i] the   *)
(* position at which its message i starts.                                 *)
Stream(z, w, P) ==
  /\ P \in [1 .. Len(w) + 1 -> 0 .. z]
  /\ \A i \in 1 .. Len(w) : Advances(z, w[i], P[i], P[i + 1])
  /\ \A i \in 1 .. Len(w) - 1 : Follows(w[i], w[i + 1])

(* It starts where the receiver is, and ends where the sender is, unless   *)
(* the end was lost.                                                       *)
InStep(t, P) ==
  /\ Stream(opt[t].size, wire[t], P)
  /\ P[1] = rcv[t].offset
  /\ ~cut[t] => P[Len(wire[t]) + 1] = snd[t].pos

Shape(t) ==
  /\ Len(wire[t]) > 0 => wire[t][1].type = (IF rcv[t].pc = "stat" THEN "stat" ELSE "data")
  /\ ~cut[t] /\ Len(wire[t]) > 0 => wire[t][Len(wire[t])].type # "data"
  /\ snd[t].pc = "stat" => Len(wire[t]) = 0 /\ rcv[t].pc = "stat"
  /\ snd[t].pc = "data" /\ Len(wire[t]) = 0 /\ ~cut[t] => rcv[t].pc # "stat"

Whole(t) == Shape(t) /\ \E P : InStep(t, P)
StreamInv == \A t \in Transfers : Clean(t) /\ Reading(t) => Whole(t)

(* The first message is received.                                          *)
LEMMA StreamTail ==
  ASSUME NEW z \in Nat, NEW w \in Seq(Message), Len(w) > 0, NEW P, Stream(z, w, P)
  PROVE  Tail(w) \in Seq(Message) /\ Len(Tail(w)) = Len(w) - 1 /\ (\A i \in 1 .. Len(w) - 1 : Tail(w)[i] = w[i + 1])
         /\ Stream(z, Tail(w), [i \in 1 .. Len(w) |-> P[i + 1]])
<1> DEFINE x == Tail(w)
           Q == [i \in 1 .. Len(w) |-> P[i + 1]]
<1>1. Len(w) \in Nat /\ w # <<>>
  BY LenProperties, EmptySeq
<1>2. x \in Seq(Message) /\ Len(x) = Len(w) - 1 /\ \A i \in 1 .. Len(x) : x[i] = w[i + 1]
  BY <1>1, HeadTailProperties
<1> HIDE DEF x
<1>3. P \in [1 .. Len(w) + 1 -> 0 .. z]
  BY DEF Stream
<1>4. Q \in [1 .. Len(x) + 1 -> 0 .. z] /\ \A i \in 1 .. Len(w) : Q[i] = P[i + 1]
  BY <1>1, <1>2, <1>3
<1> HIDE DEF Q
<1>5. ASSUME NEW i \in 1 .. Len(x) PROVE Advances(z, x[i], Q[i], Q[i + 1])
  <2>1. i + 1 \in 1 .. Len(w) /\ i \in 1 .. Len(w) /\ x[i] = w[i + 1]
    BY <1>1, <1>2
  <2>2. Q[i] = P[i + 1] /\ Q[i + 1] = P[(i + 1) + 1]
    BY <1>4, <2>1
  <2>3. Advances(z, w[i + 1], P[i + 1], P[(i + 1) + 1])
    BY <2>1 DEF Stream
  <2>4. QED
    BY <2>1, <2>2, <2>3
<1>6. ASSUME NEW i \in 1 .. Len(x) - 1 PROVE Follows(x[i], x[i + 1])
  <2>1. i + 1 \in 1 .. Len(w) - 1 /\ x[i] = w[i + 1] /\ x[i + 1] = w[(i + 1) + 1]
    BY <1>1, <1>2
  <2>2. QED
    BY <2>1 DEF Stream
<1>7. Stream(z, x, Q)
  BY <1>4, <1>5, <1>6 DEF Stream
<1>8. QED
  BY <1>2, <1>7 DEF x, Q

(* Stream x is w with one message more, which ends at position q.          *)
OneMore(z, w, x, P, q) ==
  /\ z \in Nat /\ q \in 0 .. z /\ w \in Seq(Message) /\ x \in Seq(Message)
  /\ Len(x) = Len(w) + 1 /\ \A i \in 1 .. Len(w) : x[i] = w[i]
  /\ Stream(z, w, P)
  /\ Advances(z, x[Len(w) + 1], P[Len(w) + 1], q)
  /\ Len(w) > 0 => Follows(w[Len(w)], x[Len(w) + 1])

(* A message is sent.                                                      *)
LEMMA StreamMore ==
  ASSUME NEW z, NEW w, NEW x, NEW P, NEW q, OneMore(z, w, x, P, q)
  PROVE  \E Q : Stream(z, x, Q) /\ Q[1] = P[1] /\ Q[Len(x) + 1] = q
<1> USE DEF OneMore
<1> DEFINE Q == [i \in 1 .. Len(w) + 2 |-> IF i <= Len(w) + 1 THEN P[i] ELSE q]
<1>1. Len(w) \in Nat
  BY LenProperties
<1>2. P \in [1 .. Len(w) + 1 -> 0 .. z]
  BY DEF Stream
<1>3. Q \in [1 .. Len(x) + 1 -> 0 .. z] /\ (\A i \in 1 .. Len(w) + 1 : Q[i] = P[i]) /\ Q[Len(w) + 2] = q
  BY <1>1, <1>2
<1> HIDE DEF Q
<1>4. ASSUME NEW i \in 1 .. Len(x) PROVE Advances(z, x[i], Q[i], Q[i + 1])
  <2>1. CASE i \in 1 .. Len(w)
    <3>1. i + 1 \in 1 .. Len(w) + 1 /\ x[i] = w[i] /\ Q[i] = P[i] /\ Q[i + 1] = P[i + 1]
      BY <1>1, <1>3, <2>1
    <3>2. QED
      BY <2>1, <3>1 DEF Stream
  <2>2. CASE i = Len(w) + 1
    <3>1. Q[i] = P[i] /\ Q[i + 1] = q
      BY <1>1, <1>3, <2>2
    <3>2. QED
      BY <2>2, <3>1
  <2>3. QED
    BY <1>1, <2>1, <2>2
<1>5. ASSUME NEW i \in 1 .. Len(x) - 1 PROVE Follows(x[i], x[i + 1])
  <2>1. CASE i \in 1 .. Len(w) - 1
    <3>1. i + 1 \in 1 .. Len(w) /\ i \in 1 .. Len(w)
      BY <1>1, <2>1
    <3>2. QED
      BY <2>1, <3>1 DEF Stream
  <2>2. CASE i = Len(w)
    BY <1>1, <2>2
  <2>3. QED
    BY <1>1, <2>1, <2>2
<1>6. Stream(z, x, Q)
  BY <1>3, <1>4, <1>5 DEF Stream
<1>7. Q[1] = P[1] /\ Q[Len(x) + 1] = q
  BY <1>1, <1>3
<1>8. QED
  BY <1>6, <1>7

(* The end is lost, between two messages.                                  *)
LEMMA StreamPrefix ==
  ASSUME NEW z \in Nat, NEW w \in Seq(Message), NEW n \in 0 .. Len(w), NEW P, Stream(z, w, P)
  PROVE  Stream(z, SubSeq(w, 1, n), [i \in 1 .. n + 1 |-> P[i]])
<1> DEFINE x == SubSeq(w, 1, n)
           Q == [i \in 1 .. n + 1 |-> P[i]]
<1>1. Len(w) \in Nat /\ n \in Nat
  BY LenProperties
<1>2. x \in Seq(Message) /\ Len(x) = n /\ \A i \in 1 .. n : x[i] = w[i]
  BY <1>1, SubSeqProperties
<1> HIDE DEF x
<1>3. P \in [1 .. Len(w) + 1 -> 0 .. z]
  BY DEF Stream
<1>4. Q \in [1 .. Len(x) + 1 -> 0 .. z] /\ \A i \in 1 .. n + 1 : Q[i] = P[i]
  BY <1>1, <1>2, <1>3
<1> HIDE DEF Q
<1>5. ASSUME NEW i \in 1 .. Len(x) PROVE Advances(z, x[i], Q[i], Q[i + 1])
  <2>1. i \in 1 .. Len(w) /\ i + 1 \in 1 .. n + 1 /\ i \in 1 .. n + 1 /\ i \in 1 .. n
    BY <1>1, <1>2
  <2>2. x[i] = w[i] /\ Q[i] = P[i] /\ Q[i + 1] = P[i + 1]
    BY <1>2, <1>4, <2>1
  <2>3. QED
    BY <2>1, <2>2 DEF Stream
<1>6. ASSUME NEW i \in 1 .. Len(x) - 1 PROVE Follows(x[i], x[i + 1])
  <2>1. i \in 1 .. Len(w) - 1 /\ i + 1 \in 1 .. n /\ i \in 1 .. n
    BY <1>1, <1>2
  <2>2. QED
    BY <1>2, <2>1 DEF Stream
<1>7. Stream(z, x, Q)
  BY <1>4, <1>5, <1>6 DEF Stream
<1>8. QED
  BY <1>7 DEF x, Q

(* Nothing of it changes but that an end fails, the file is opened, or the *)
(* connection is given up.                                                 *)
LEMMA WholeKept ==
  ASSUME NEW t \in Transfers, Whole(t), UNCHANGED opt, wire'[t] = wire[t],
         rcv'[t].offset = rcv[t].offset,
         rcv'[t].pc = rcv[t].pc \/ (rcv[t].pc = "open" /\ rcv'[t].pc = "data"),
         snd'[t].pos = snd[t].pos, snd'[t].pc \in {snd[t].pc, "failed"}, cut[t] => cut'[t]
  PROVE  Whole(t)'
<1>1. Shape(t)'
  BY DEF Whole, Shape
<1>2. PICK P : InStep(t, P)
  BY DEF Whole
<1>3. InStep(t, P)'
  BY <1>2 DEF InStep
<1>4. QED
  BY <1>1, <1>3 DEF Whole

(* The sender sends what comes next.                                       *)
LEMMA SendWhole ==
  ASSUME TypeInv, NEW t \in Transfers, Whole(t), SenderStep(t)
  PROVE  Whole(t)'
<1> DEFINE L == Len(wire[t])
           z == opt[t].size
<1>1. ~cut[t] /\ (SendStat(t) \/ SendData(t)) /\ UNCHANGED <<opt, rcv, cut>>
  BY DEF SenderStep
<1>2. /\ wire' \in [Transfers -> Seq(Message)] /\ Len(wire[t]) \in Nat
      /\ \A i \in 1 .. Len(wire[t]) : wire'[t][i] = wire[t][i]
      /\ snd' \in [Transfers -> Sender] /\ snd'[t].pos <= opt[t].size
      /\ \/ /\ snd[t].pc = "stat" /\ snd'[t].pc = "data" /\ snd'[t].pos = snd[t].pos
            /\ Len(wire'[t]) = Len(wire[t]) + 1 /\ wire'[t][Len(wire[t]) + 1] = Stat(opt[t].stat)
         \/ \E n \in Nat :
              /\ snd[t].pc = "data" /\ snd'[t].pc = (IF n = 0 THEN "ok" ELSE "data")
              /\ snd'[t].pos = snd[t].pos + n
              /\ n = IF opt[t].size - snd[t].pos < Chunk THEN opt[t].size - snd[t].pos ELSE Chunk
              /\ Len(wire'[t]) = Len(wire[t]) + 2
              /\ wire'[t][Len(wire[t]) + 1] = DataHeader(n) /\ wire'[t][Len(wire[t]) + 2] = Payload(n)
  BY <1>1, SendFacts
<1>3. PICK P : InStep(t, P)
  BY DEF Whole
<1>4. /\ z \in Nat /\ wire[t] \in Seq(Message) /\ wire'[t] \in Seq(Message) /\ snd[t].pos \in Nat
      /\ snd[t].pos <= z /\ snd'[t].pos \in Nat
  BY <1>2 DEF TypeInv, OptOK, Option, LinkOK, EndsOK, Sender
<1>5. Stream(z, wire[t], P) /\ P[1] = rcv[t].offset /\ P[L + 1] = snd[t].pos /\ P \in [1 .. L + 1 -> 0 .. z]
  BY <1>1, <1>3 DEF InStep, Stream
<1>6. Shape(t)
  BY DEF Whole
<1> DEFINE w == wire[t]
           x == wire'[t]
<1> HIDE DEF L, z, w, x
<1>7. CASE snd[t].pc = "stat"
  <2>1. /\ snd'[t].pc = "data" /\ snd'[t].pos = snd[t].pos
        /\ Len(x) = L + 1 /\ x[L + 1] = Stat(opt[t].stat)
    BY <1>2, <1>7 DEF x, L
  <2>2. L = 0 /\ rcv[t].pc = "stat"
    BY <1>6, <1>7 DEF Shape, L
  <2>3. Advances(z, x[L + 1], P[L + 1], snd[t].pos)
    BY <1>5, <2>1 DEF Advances, Stat
  <2>4. z \in Nat /\ w \in Seq(Message) /\ x \in Seq(Message) /\ snd[t].pos \in 0 .. z /\ Len(w) = L /\ Stream(z, w, P)
    BY <1>4, <1>5 DEF w, x, L
  <2>5. PICK Q : Stream(z, x, Q) /\ Q[1] = P[1] /\ Q[Len(x) + 1] = snd[t].pos
    <3>1. Len(x) = Len(w) + 1 /\ (\A i \in 1 .. Len(w) : x[i] = w[i]) /\ ~(Len(w) > 0)
      BY <2>1, <2>2, <2>4
    <3>2. Advances(z, x[Len(w) + 1], P[Len(w) + 1], snd[t].pos)
      BY <2>3, <2>4
    <3>3. OneMore(z, w, x, P, snd[t].pos)
      BY <2>4, <3>1, <3>2 DEF OneMore
    <3>4. QED
      BY <3>3, StreamMore
  <2>6. InStep(t, Q)'
    BY <1>1, <1>5, <2>1, <2>5 DEF InStep, x, z
  <2>7. Shape(t)'
    BY <1>1, <2>1, <2>2 DEF Shape, Stat, x
  <2>8. QED
    BY <2>6, <2>7 DEF Whole
<1>8. CASE snd[t].pc = "data"
  <2>1. PICK n \in Nat :
          /\ snd'[t].pc = (IF n = 0 THEN "ok" ELSE "data")
          /\ snd'[t].pos = snd[t].pos + n
          /\ n = Piece(z, snd[t].pos)
          /\ Len(x) = L + 2
          /\ x[L + 1] = DataHeader(n) /\ x[L + 2] = Payload(n)
    BY <1>2, <1>8 DEF Piece, x, L, z
  <2>2. /\ z \in Nat /\ w \in Seq(Message) /\ x \in Seq(Message) /\ snd[t].pos \in 0 .. z /\ snd'[t].pos \in 0 .. z
        /\ Len(w) = L /\ L \in Nat /\ Stream(z, w, P) /\ \A i \in 1 .. L : x[i] = w[i]
    BY <1>2, <1>4, <1>5 DEF w, x, L, z
  <2> DEFINE y == SubSeq(x, 1, L + 1)
  <2>3. y \in Seq(Message) /\ Len(y) = L + 1 /\ \A i \in 1 .. L + 1 : y[i] = x[i]
    BY <2>1, <2>2, SubSeqProperties
  <2> HIDE DEF y
  <2>4. (\A i \in 1 .. L : y[i] = w[i]) /\ y[L + 1] = DataHeader(n)
    BY <2>1, <2>2, <2>3
  <2>5. PICK Q : Stream(z, y, Q) /\ Q[1] = P[1] /\ Q[Len(y) + 1] = snd[t].pos
    <3>1. Advances(z, y[L + 1], P[L + 1], snd[t].pos)
      BY <1>5, <2>1, <2>4 DEF Advances, DataHeader
    <3>2. L > 0 => Follows(w[L], y[L + 1])
      BY <1>1, <1>6, <2>4 DEF Shape, Follows, DataHeader, w, L
    <3>3. /\ Len(y) = Len(w) + 1 /\ \A i \in 1 .. Len(w) : y[i] = w[i]
          /\ Advances(z, y[Len(w) + 1], P[Len(w) + 1], snd[t].pos)
          /\ Len(w) > 0 => Follows(w[Len(w)], y[Len(w) + 1])
      BY <2>2, <2>3, <2>4, <3>1, <3>2
    <3>4. z \in Nat /\ w \in Seq(Message) /\ y \in Seq(Message) /\ snd[t].pos \in 0 .. z /\ Stream(z, w, P)
      BY <2>2, <2>3
    <3>5. OneMore(z, w, y, P, snd[t].pos)
      BY <3>3, <3>4 DEF OneMore
    <3>6. QED
      BY <3>5, StreamMore
  <2>6. PICK R : Stream(z, x, R) /\ R[1] = Q[1] /\ R[Len(x) + 1] = snd'[t].pos
    <3>1. Advances(z, x[Len(y) + 1], Q[Len(y) + 1], snd'[t].pos)
      BY <2>1, <2>2, <2>3, <2>5 DEF Advances, Payload
    <3>2. Follows(y[Len(y)], x[Len(y) + 1])
      BY <2>1, <2>2, <2>3, <2>4 DEF Follows, DataHeader, Payload
    <3>3. Len(x) = Len(y) + 1 /\ \A i \in 1 .. Len(y) : x[i] = y[i]
      BY <2>1, <2>2, <2>3
    <3>4. OneMore(z, y, x, Q, snd'[t].pos)
      BY <2>2, <2>3, <2>5, <3>1, <3>2, <3>3 DEF OneMore
    <3>5. QED
      BY <3>4, StreamMore
  <2>7. InStep(t, R)'
    BY <1>1, <1>5, <2>5, <2>6 DEF InStep, x, z
  <2>8. Shape(t)'
    <3>1. x[1].type = (IF rcv[t].pc = "stat" THEN "stat" ELSE "data")
      <4>1. CASE L = 0
        BY <1>1, <1>6, <1>8, <2>1, <4>1 DEF Shape, DataHeader, L
      <4>2. CASE L > 0
        BY <1>6, <2>2, <4>2 DEF Shape, L, w
      <4>3. QED
        BY <2>2, <4>1, <4>2
    <3>2. x[Len(x)].type # "data" /\ Len(x) # 0 /\ snd'[t].pc # "stat"
      BY <2>1, <2>2 DEF Payload
    <3>3. QED
      BY <1>1, <3>1, <3>2 DEF Shape, x
  <2>9. QED
    BY <2>7, <2>8 DEF Whole
<1>9. QED
  BY <1>2, <1>7, <1>8

(* The connection ends between two messages.                               *)
LEMMA CutWhole ==
  ASSUME TypeInv, NEW t \in Transfers, Whole(t), ~Torn, Cut(t)
  PROVE  Whole(t)'
<1>1. PICK n \in 0 .. Len(wire[t]) : wire' = [wire EXCEPT ![t] = SubSeq(@, 1, n)]
  BY DEF Cut
<1>2. UNCHANGED <<opt, snd, rcv>> /\ cut'[t] = TRUE
  BY DEF Cut, TypeInv, LinkOK
<1>3. wire'[t] = SubSeq(wire[t], 1, n) /\ wire[t] \in Seq(Message) /\ Len(wire[t]) \in Nat /\ opt[t].size \in Nat
  BY <1>1, LenProperties DEF TypeInv, LinkOK, OptOK, Option
<1>4. Len(wire'[t]) = n /\ \A i \in 1 .. n : wire'[t][i] = wire[t][i]
  BY <1>1, <1>3, SubSeqProperties
<1>5. Shape(t)'
  <2>1. Len(wire'[t]) > 0 => wire'[t][1] = wire[t][1] /\ Len(wire[t]) > 0
    BY <1>1, <1>3, <1>4
  <2>2. snd[t].pc = "stat" => Len(wire'[t]) = 0
    BY <1>1, <1>3, <1>4 DEF Whole, Shape
  <2>3. QED
    BY <1>2, <2>1, <2>2 DEF Whole, Shape
<1>6. PICK P : InStep(t, P)
  BY DEF Whole
<1> DEFINE Q == [i \in 1 .. n + 1 |-> P[i]]
<1>7. Stream(opt[t].size, wire'[t], Q)
  BY <1>1, <1>3, <1>6, StreamPrefix DEF InStep
<1>8. Q[1] = P[1]
  BY <1>1
<1> HIDE DEF Q
<1>9. InStep(t, Q)'
  BY <1>2, <1>6, <1>7, <1>8 DEF InStep
<1>10. QED
  BY <1>5, <1>9 DEF Whole

(* The receiver takes the header of the transfer.                          *)
LEMMA RecvStatWhole ==
  ASSUME TypeInv, NEW t \in Transfers, Whole(t), RecvStat(t), UNCHANGED <<opt, snd, cut>>
  PROVE  Whole(t)'
<1> DEFINE w == wire[t]
           x == Tail(w)
<1>1. /\ rcv[t].pc = "stat" /\ rcv'[t].pc = "open" /\ rcv'[t].offset = rcv[t].offset
      /\ wire[t] # <<>> /\ wire' = [wire EXCEPT ![t] = Tail(@)]
  BY RecvStatFacts
<1>2. wire'[t] = x /\ w \in Seq(Message) /\ Len(w) \in Nat \ {0} /\ opt[t].size \in Nat
  BY <1>1, Taken, LenProperties, EmptySeq DEF TypeInv, LinkOK, OptOK, Option
<1>3. PICK P : InStep(t, P)
  BY DEF Whole
<1>4. Stream(opt[t].size, w, P) /\ P[1] = rcv[t].offset /\ (~cut[t] => P[Len(w) + 1] = snd[t].pos)
  BY <1>3 DEF InStep
<1>5. w[1].type = "stat" /\ snd[t].pc # "stat" /\ (~cut[t] => w[Len(w)].type # "data")
  BY <1>1, <1>2 DEF Whole, Shape
<1> HIDE DEF w
<1>6. P[2] = P[1] /\ (Len(w) > 1 => w[2].type = "data")
  <2>1. 1 \in 1 .. Len(w)
    BY <1>2
  <2>2. Advances(opt[t].size, w[1], P[1], P[1 + 1])
    BY <1>4, <2>1 DEF Stream
  <2>3. P[2] = P[1]
    BY <1>5, <2>2 DEF Advances
  <2>4. Len(w) > 1 => Follows(w[1], w[1 + 1])
    BY <1>2, <1>4 DEF Stream
  <2>5. QED
    BY <1>5, <2>3, <2>4 DEF Follows
<1>7. PICK Q : Q = [i \in 1 .. Len(w) |-> P[i + 1]]
  OBVIOUS
<1>8. /\ x \in Seq(Message) /\ Len(x) = Len(w) - 1 /\ (\A i \in 1 .. Len(w) - 1 : x[i] = w[i + 1])
      /\ Stream(opt[t].size, x, Q)
  BY <1>2, <1>4, <1>7, StreamTail, SMTT(30)
<1> HIDE DEF x
<1>9. Q[1] = rcv[t].offset /\ Q[Len(x) + 1] = P[Len(w) + 1]
  BY <1>2, <1>4, <1>6, <1>7, <1>8
<1>10. InStep(t, Q)'
  BY <1>1, <1>2, <1>4, <1>8, <1>9 DEF InStep
<1>11. Shape(t)'
  <2>1. Len(x) > 0 => x[1] = w[2] /\ x[Len(x)] = w[Len(w)] /\ Len(w) > 1
    BY <1>2, <1>8
  <2>2. QED
    BY <1>1, <1>2, <1>5, <1>6, <2>1 DEF Shape
<1>12. QED
  BY <1>10, <1>11 DEF Whole

(* The next message is a header: it says how long the next piece is, and   *)
(* the piece follows.                                                      *)
LEMMA NextPiece ==
  ASSUME NEW z \in Nat, NEW w \in Seq(Message), NEW P, Stream(z, w, P), Len(w) > 0, w[1].type = "data",
         NEW n \in Received(w[1])
  PROVE  /\ n = Piece(z, P[1]) /\ P[2] = P[1]
         /\ Len(w) > 1 => /\ w[2].type = "payload" /\ P[3] = P[1] + n
                          /\ Len(w) > 2 => w[3].type = "data"
<1>1. Len(w) \in Nat
  BY LenProperties
<1>2. 1 \in 1 .. Len(w)
  BY <1>1
<1>3. Advances(z, w[1], P[1], P[1 + 1])
  BY <1>2 DEF Stream
<1>4. n = w[1].n /\ n = Piece(z, P[1]) /\ P[2] = P[1]
  BY <1>3 DEF Advances, Received
<1>5. ASSUME Len(w) > 1
      PROVE  /\ w[2].type = "payload" /\ P[3] = P[1] + n
             /\ Len(w) > 2 => w[3].type = "data"
  <2>1. 1 \in 1 .. Len(w) - 1 /\ 2 \in 1 .. Len(w)
    BY <1>1, <1>5
  <2>2. Follows(w[1], w[1 + 1]) /\ Advances(z, w[2], P[2], P[2 + 1])
    BY <2>1 DEF Stream
  <2>3. w[2].type = "payload" /\ w[2].n = n
    BY <1>4, <2>2 DEF Follows
  <2>4. P[3] = P[1] + n
    BY <1>4, <2>2, <2>3 DEF Advances
  <2>5. Len(w) > 2 => Follows(w[2], w[2 + 1])
    BY <1>1 DEF Stream
  <2>6. QED
    BY <2>3, <2>4, <2>5 DEF Follows
<1>6. QED
  BY <1>4, <1>5

(* The receiver takes a piece.                                             *)
LEMMA RecvPieceWhole ==
  ASSUME TypeInv, NEW t \in Transfers, Whole(t), UNCHANGED <<opt, snd, cut>>,
         NEW n \in Nat, n \in Received(wire[t][1]), rcv[t].pc = "data", rcv'[t].pc = "data",
         rcv'[t].offset = rcv[t].offset + n, Len(wire[t]) > 1, wire' = [wire EXCEPT ![t] = Tail(Tail(@))]
  PROVE  Whole(t)'
<1> DEFINE w == wire[t]
           x == Tail(w)
           y == Tail(x)
           z == opt[t].size
<1>1. wire'[t] = y /\ w \in Seq(Message) /\ Len(w) \in Nat /\ z \in Nat
  BY Taken, LenProperties DEF TypeInv, LinkOK, OptOK, Option
<1>2. PICK P : InStep(t, P)
  BY DEF Whole
<1>3. Stream(z, w, P) /\ P[1] = rcv[t].offset /\ (~cut[t] => P[Len(w) + 1] = snd[t].pos)
  BY <1>2 DEF InStep
<1>4. w[1].type = "data" /\ snd[t].pc # "stat" /\ (~cut[t] => w[Len(w)].type # "data")
  BY <1>1 DEF Whole, Shape
<1>5. n \in Received(w[1]) /\ Len(w) > 1 /\ Len(w) > 0
  BY <1>1
<1> HIDE DEF w, z
<1>6. P[3] = P[1] + n /\ (Len(w) > 2 => w[3].type = "data")
  BY <1>1, <1>3, <1>4, <1>5, NextPiece
<1>7. PICK Q : Q = [i \in 1 .. Len(w) |-> P[i + 1]]
  OBVIOUS
<1>8. /\ x \in Seq(Message) /\ Len(x) = Len(w) - 1 /\ (\A i \in 1 .. Len(w) - 1 : x[i] = w[i + 1])
      /\ Stream(z, x, Q)
  BY <1>1, <1>3, <1>5, <1>7, StreamTail
<1> HIDE DEF x
<1>9. Len(x) > 0 /\ Len(x) \in Nat
  BY <1>1, <1>5, <1>8
<1>10. PICK R : R = [i \in 1 .. Len(x) |-> Q[i + 1]]
  OBVIOUS
<1>11. /\ Len(y) = Len(x) - 1 /\ (\A i \in 1 .. Len(x) - 1 : y[i] = x[i + 1])
       /\ Stream(z, y, R)
  BY <1>1, <1>8, <1>9, <1>10, StreamTail
<1> HIDE DEF y
<1>12. R[1] = P[3] /\ R[Len(y) + 1] = P[Len(w) + 1]
  <2>1. R[1] = Q[2] /\ R[Len(x)] = Q[Len(x) + 1] /\ Len(y) + 1 = Len(x)
    BY <1>9, <1>10, <1>11
  <2>2. Q[2] = P[3] /\ Q[Len(w)] = P[Len(w) + 1]
    BY <1>1, <1>5, <1>7
  <2>3. Len(x) + 1 = Len(w)
    BY <1>1, <1>8
  <2>4. QED
    BY <2>1, <2>2, <2>3
<1>13. InStep(t, R)'
  BY <1>1, <1>3, <1>6, <1>11, <1>12 DEF InStep, z
<1>14. Shape(t)'
  <2>1. Len(y) > 0 => y[1] = w[3] /\ y[Len(y)] = w[Len(w)] /\ Len(w) > 2
    <3>1. SUFFICES ASSUME Len(y) > 0 PROVE y[1] = w[3] /\ y[Len(y)] = w[Len(w)] /\ Len(w) > 2
      OBVIOUS
    <3>2. Len(y) = Len(w) - 2 /\ Len(w) > 2
      BY <1>1, <1>8, <1>9, <1>11, <3>1
    <3>3. y[1] = x[2] /\ y[Len(y)] = x[Len(y) + 1]
      BY <1>9, <1>11, <3>1
    <3>4. x[2] = w[3] /\ x[Len(w) - 1] = w[Len(w)]
      BY <1>1, <1>8, <3>2
    <3>5. Len(y) + 1 = Len(w) - 1
      BY <1>1, <3>2
    <3>6. QED
      BY <3>2, <3>3, <3>4, <3>5
  <2>2. QED
    BY <1>1, <1>4, <1>6, <2>1 DEF Shape
<1>15. QED
  BY <1>13, <1>14 DEF Whole

(* At the start nothing is on its way.                                     *)
LEMMA StreamInit ==
  ASSUME XferInit
  PROVE  StreamInv
<1>1. SUFFICES ASSUME NEW t \in Transfers PROVE Whole(t)
  BY DEF StreamInv
<1>2. wire[t] = <<>> /\ snd[t].pos = 0 /\ rcv[t].offset = 0 /\ rcv[t].pc = "stat" /\ snd[t].pc = "stat"
  BY DEF XferInit
<1>3. opt[t].size \in Nat
  BY TypeInit DEF TypeInv, OptOK, Option
<1>4. PICK P : P = [i \in 1 .. 1 |-> 0]
  OBVIOUS
<1>5. P \in [1 .. 0 + 1 -> 0 .. opt[t].size] /\ P[1] = 0 /\ Len(wire[t]) = 0
  BY <1>2, <1>3, <1>4
<1>6. InStep(t, P)
  BY <1>2, <1>5 DEF InStep, Stream
<1>7. QED
  BY <1>2, <1>5, <1>6 DEF Whole, Shape

(* What a step does to the connections.                                    *)
LEMMA StaysCut ==
  ASSUME TypeInv, [XferNext]_xfervars, NEW u \in Transfers
  PROVE  (cut[u] => cut'[u]) /\ UNCHANGED opt
<1>1. cut \in [Transfers -> BOOLEAN]
  BY DEF TypeInv, LinkOK
<1>2. CASE UNCHANGED <<cut, opt>>
  BY <1>2
<1>3. ASSUME NEW t \in Transfers, Return(t) \/ Cut(t) PROVE (cut[u] => cut'[u]) /\ UNCHANGED opt
  <2>1. cut' = [cut EXCEPT ![t] = TRUE] /\ UNCHANGED opt
    BY <1>3 DEF Return, Cut
  <2>2. QED
    BY <1>1, <2>1
<1>4. QED
  <2>1. ASSUME NEW t \in Transfers, SenderStep(t) \/ SenderFails(t) \/ ReceiverStep(t) \/ ReadError(t) \/ Kill(t)
        PROVE  UNCHANGED <<cut, opt>>
    BY <2>1 DEF SenderStep, SenderFails, ReceiverStep, ReadError, Kill
  <2>2. UNCHANGED xfervars => UNCHANGED <<cut, opt>>
    BY DEF xfervars
  <2>3. QED
    BY <1>2, <1>3, <2>1, <2>2 DEF XferNext

(* A step of transfer t does nothing to the ends and the stream of         *)
(* another.                                                                *)
LEMMA OthersSame ==
  ASSUME TypeInv, NEW t \in Transfers, NEW u \in Transfers \ {t},
         SenderStep(t) \/ SenderFails(t) \/ ReceiverStep(t) \/ Return(t) \/ ReadError(t) \/ Cut(t) \/ Kill(t)
  PROVE  wire'[u] = wire[u] /\ snd'[u] = snd[u] /\ rcv'[u] = rcv[u]
<1>1. wire \in [Transfers -> Seq(Message)] /\ snd \in [Transfers -> Sender] /\ rcv \in [Transfers -> Receiver]
  BY DEF TypeInv, LinkOK, EndsOK
<1>2. CASE SenderStep(t)
  BY <1>2, SendFacts DEF SenderStep
<1>3. CASE SenderFails(t) \/ ReadError(t)
  <2>1. UNCHANGED <<rcv, wire>> /\ snd' = [snd EXCEPT ![t].pc = "failed"]
    BY <1>3 DEF SenderFails, ReadError
  <2>2. QED
    BY <1>1, <2>1
<1>4. CASE ReceiverStep(t)
  <2>1. rcv'[u] = rcv[u] /\ UNCHANGED snd
    BY <1>4, NamesFacts DEF ReceiverStep
  <2>2. wire'[u] = wire[u]
    <3>1. ASSUME NEW y, wire' = [wire EXCEPT ![t] = y] PROVE wire'[u] = wire[u]
      BY <1>1, <3>1
    <3>2. CASE Dies(t) \/ Finish(t) \/ Rename(t) \/ SyncDir(t)
      <4>1. UNCHANGED wire
        BY <3>2 DEF Dies, Finish, Rename, SyncDir
      <4>2. QED
        BY <4>1
    <3>3. CASE RecvStat(t)
      BY <3>1, <3>3 DEF RecvStat
    <3>4. CASE Open(t) /\ ~Dies(t)
      BY <3>4, OpenFacts
    <3>5. CASE RecvData(t) /\ ~Dies(t)
      <4>1. \/ wire' = [wire EXCEPT ![t] = IF Len(@) > 1 THEN Tail(Tail(@)) ELSE <<>>]
            \/ wire' = [wire EXCEPT ![t] = Tail(Tail(@))]
        BY <3>5, RecvDataFacts
      <4>2. QED
        BY <3>1, <4>1
    <3>6. QED
      BY <1>4, <3>2, <3>3, <3>4, <3>5, ReceiverCases
  <2>3. QED
    BY <2>1, <2>2
<1>5. CASE Return(t)
  BY <1>5 DEF Return
<1>6. CASE Cut(t)
  <2>1. UNCHANGED <<rcv, snd>>
    BY <1>6 DEF Cut
  <2>2. PICK y : wire' = [wire EXCEPT ![t] = y]
    BY <1>6 DEF Cut
  <2>3. QED
    BY <1>1, <2>1, <2>2
<1>7. CASE Kill(t)
  <2>1. UNCHANGED <<wire, snd>> /\ rcv' = [rcv EXCEPT ![t].pc = "killed"]
    BY <1>7 DEF Kill
  <2>2. QED
    BY <1>1, <2>1
<1>8. QED
  BY <1>2, <1>3, <1>4, <1>5, <1>6, <1>7

(* While a receiver reads, what is on its way continues what it has read.  *)
LEMMA StreamNext ==
  ASSUME TypeInv, StreamInv, [XferNext]_xfervars
  PROVE  StreamInv'
<1>1. SUFFICES ASSUME NEW u \in Transfers, Clean(u)', Reading(u)' PROVE Whole(u)'
  BY DEF StreamInv
<1>2. ~Torn \/ ~cut'[u]
  <2>1. rcv'[u].pc # "ok"
    BY <1>1 DEF Reading
  <2>2. TypeInv'
    BY TypeNext
  <2>3. Opened(u)'
    BY <2>2 DEF TypeInv
  <2>4. status'[u] # "ok"
    BY <2>1, <2>3 DEF Opened
  <2>5. QED
    BY <1>1, <2>4 DEF Clean
<1>3. (cut[u] => cut'[u]) /\ UNCHANGED opt
  BY StaysCut
<1>4. Clean(u)
  BY <1>2, <1>3 DEF Clean
<1>5. Reading(u) => Whole(u)
  BY <1>4 DEF StreamInv
<1>6. ASSUME wire'[u] = wire[u], snd'[u].pos = snd[u].pos, snd'[u].pc \in {snd[u].pc, "failed"}, rcv'[u] = rcv[u]
      PROVE  Whole(u)'
  <2>1. Reading(u)
    BY <1>1, <1>6 DEF Reading
  <2>2. QED
    BY <1>3, <1>5, <1>6, <2>1, WholeKept
<1>7. CASE UNCHANGED xfervars
  BY <1>6, <1>7 DEF xfervars
<1>8. ASSUME NEW t \in Transfers,
             SenderStep(t) \/ SenderFails(t) \/ ReceiverStep(t) \/ Return(t) \/ ReadError(t) \/ Cut(t) \/ Kill(t)
      PROVE  Whole(u)'
  <2>1. CASE u # t
    <3>1. wire'[u] = wire[u] /\ snd'[u] = snd[u] /\ rcv'[u] = rcv[u]
      BY <1>8, <2>1, OthersSame
    <3>2. QED
      BY <1>6, <3>1
  <2>2. CASE u = t /\ SenderStep(t)
    <3>1. Reading(u)
      BY <1>1, <2>2 DEF Reading, SenderStep
    <3>2. QED
      BY <1>5, <2>2, <3>1, SendWhole
  <2>3. CASE u = t /\ (SenderFails(t) \/ ReadError(t))
    <3>1. UNCHANGED <<rcv, wire>> /\ snd' = [snd EXCEPT ![t].pc = "failed"] /\ snd \in [Transfers -> Sender]
      BY <2>3 DEF SenderFails, ReadError, TypeInv, EndsOK
    <3>2. snd'[u].pos = snd[u].pos /\ snd'[u].pc = "failed"
      BY <2>3, <3>1 DEF Sender
    <3>3. QED
      BY <1>6, <3>1, <3>2
  <2>4. CASE u = t /\ Return(t)
    <3>1. UNCHANGED <<rcv, wire, snd>>
      BY <2>4 DEF Return
    <3>2. QED
      BY <1>6, <3>1
  <2>5. CASE u = t /\ Cut(t)
    <3>1. cut'[u] /\ UNCHANGED rcv
      BY <2>5 DEF Cut, TypeInv, LinkOK
    <3>2. ~Torn /\ Reading(u)
      BY <1>1, <1>2, <3>1 DEF Reading
    <3>3. QED
      BY <1>5, <2>5, <3>2, CutWhole
  <2>6. CASE u = t /\ Kill(t)
    <3>1. rcv' = [rcv EXCEPT ![t].pc = "killed"]
      BY <2>6 DEF Kill
    <3>2. rcv'[t].pc = "killed"
      BY <3>1, GoesOn
    <3>3. QED
      BY <1>1, <2>6, <3>2 DEF Reading
  <2>7. CASE u = t /\ ReceiverStep(t)
    <3>1. UNCHANGED <<opt, snd, cut>>
      BY <2>7 DEF ReceiverStep
    <3>2. CASE Dies(t)
      <4>1. rcv'[t].pc = "failed"
        BY <3>2, DiesFacts
      <4>2. QED
        BY <1>1, <2>7, <4>1 DEF Reading
    <3>3. CASE RecvStat(t)
      <4>1. Reading(u)
        BY <2>7, <3>3 DEF RecvStat, Reading
      <4>2. QED
        BY <1>5, <2>7, <3>1, <3>3, <4>1, RecvStatWhole
    <3>4. CASE Open(t) /\ ~Dies(t)
      <4>1. rcv[t].pc = "open" /\ rcv'[t].pc = "data" /\ rcv'[t].offset = rcv[t].offset /\ UNCHANGED wire
        BY <3>4, OpenFacts
      <4>2. Reading(u)
        BY <2>7, <4>1 DEF Reading
      <4>3. QED
        BY <1>5, <2>7, <3>1, <4>1, <4>2, WholeKept
    <3>5. CASE RecvData(t) /\ ~Dies(t)
      <4>1. PICK n \in Nat :
              /\ rcv[t].pc = "data" /\ Len(wire[t]) > 0 /\ n \in Received(wire[t][1])
              /\ \/ n = 0 /\ rcv'[t].pc = "finish"
                 \/ /\ n > 0 /\ rcv'[t].pc = "data" /\ rcv'[t].offset = rcv[t].offset + n /\ Len(wire[t]) > 1
                    /\ wire' = [wire EXCEPT ![t] = Tail(Tail(@))]
        BY <3>5, RecvDataFacts
      <4>2. Reading(u)
        BY <2>7, <4>1 DEF Reading
      <4>3. rcv'[t].pc # "finish"
        BY <1>1, <2>7 DEF Reading
      <4>4. QED
        BY <1>5, <2>7, <3>1, <4>1, <4>2, <4>3, RecvPieceWhole
    <3>6. CASE Finish(t) /\ ~Dies(t)
      <4>1. rcv'[t].pc \in {"rename", "syncdir"}
        BY <3>6, FinishFacts
      <4>2. QED
        BY <1>1, <2>7, <4>1 DEF Reading
    <3>7. CASE (Rename(t) \/ SyncDir(t)) /\ ~Dies(t)
      <4>1. PICK l \in {"syncdir", "ok"} : rcv' = [rcv EXCEPT ![t].pc = l]
        BY <3>7 DEF Rename, SyncDir
      <4>2. rcv'[t].pc = l
        BY <4>1, GoesOn
      <4>3. QED
        BY <1>1, <2>7, <4>1, <4>2 DEF Reading
    <3>8. QED
      BY <2>7, <3>2, <3>3, <3>4, <3>5, <3>6, <3>7, ReceiverCases
  <2>8. QED
    BY <1>8, <2>1, <2>2, <2>3, <2>4, <2>5, <2>6, <2>7
<1>9. QED
  BY <1>7, <1>8 DEF XferNext

----------------------------------------------------------------------------
(* What the files hold.                                                    *)

Exclusive(t) == \A u \in Transfers \ {t} : rcv[u].fd # rcv[t].fd

Holds(t) ==
  LET d == data[rcv[t].fd]
  IN  /\ rcv[t].pc \in {"data", "finish"} =>
           /\ Len(d) = IF rcv[t].pre /\ rcv[t].want > rcv[t].offset THEN rcv[t].want ELSE rcv[t].offset
           /\ \A i \in 1 .. rcv[t].offset : d[i] = t
      /\ rcv[t].pc \in {"rename", "syncdir", "ok"} => d = Source(t)

(* The end was reached when the last piece is empty; a file that nobody    *)
(* else writes to holds what was received.                                 *)
Content(t) ==
  /\ rcv[t].pc = "finish" => rcv[t].offset = opt[t].size
  /\ Exclusive(t) => Holds(t)

ContentInv == \A t \in Transfers : Clean(t) => Content(t)

(* A receiver writes to its own file only.                                 *)
LEMMA WritesFacts ==
  ASSUME TypeInv, NEW t \in Transfers, ReceiverStep(t), NEW f \in Files, f # rcv'[t].fd
  PROVE  data'[f] = data[f]
<1>1. CASE Dies(t) \/ RecvStat(t) \/ Rename(t) \/ SyncDir(t)
  <2>1. UNCHANGED data
    BY <1>1 DEF Dies, RecvStat, Rename, SyncDir
  <2>2. QED
    BY <2>1
<1>2. CASE Open(t) /\ ~Dies(t)
  BY <1>2, OpenFacts
<1>3. CASE RecvData(t) /\ ~Dies(t)
  <2>1. PICK n \in Nat :
          /\ rcv[t].pc = "data" /\ rcv'[t].fd = rcv[t].fd
          /\ \/ UNCHANGED data
             \/ data' = [data EXCEPT ![rcv[t].fd] = Written(@, rcv[t].offset, n, t)]
    BY <1>3, RecvDataFacts
  <2>2. QED
    BY <2>1, WritesOwn
<1>4. CASE Finish(t) /\ ~Dies(t)
  BY <1>4, FinishFacts
<1>5. QED
  BY <1>1, <1>2, <1>3, <1>4, ReceiverCases

(* Nothing that was torn stops mattering.                                  *)
LEMMA CleanBefore ==
  ASSUME TypeInv, [XferNext]_xfervars, NEW t \in Transfers, Clean(t)'
  PROVE  Clean(t)
<1>1. cut[t] => cut'[t]
  BY StaysCut
<1>2. status'[t] = "ok" => status[t] = "ok" \/ ~cut[t]
  <2>1. status \in [Transfers -> {"none", "ok", "error"}]
    BY DEF TypeInv, LinkOK
  <2>2. CASE UNCHANGED status
    BY <2>2
  <2>3. ASSUME NEW u \in Transfers, Return(u) PROVE status'[t] = "ok" => status[t] = "ok" \/ ~cut[t]
    <3>1. status' = [status EXCEPT ![u] = IF Succeeded(u) THEN "ok" ELSE "error"]
      BY <2>3 DEF Return
    <3>2. QED
      BY <2>1, <3>1 DEF Succeeded
  <2>4. ASSUME NEW u \in Transfers, Kill(u) PROVE status'[t] = "ok" => status[t] = "ok"
    <3>1. status' = [status EXCEPT ![u] = IF opt[u].cmd = "fget" THEN "error" ELSE @]
      BY <2>4 DEF Kill
    <3>2. QED
      BY <2>1, <3>1
  <2>5. ASSUME NEW u \in Transfers, SenderStep(u) \/ SenderFails(u) \/ ReceiverStep(u) \/ ReadError(u) \/ Cut(u)
        PROVE  UNCHANGED status
    BY <2>5 DEF SenderStep, SenderFails, ReceiverStep, ReadError, Cut
  <2>6. UNCHANGED xfervars => UNCHANGED status
    BY DEF xfervars
  <2>7. QED
    BY <2>2, <2>3, <2>4, <2>5, <2>6 DEF XferNext
<1>3. QED
  BY <1>1, <1>2 DEF Clean

(* Others do not write to the file.                                        *)
LEMMA ContentKept ==
  ASSUME TypeInv, NEW t \in Transfers, Content(t), UNCHANGED opt, rcv'[t] = rcv[t],
         \A u \in Transfers : rcv[u].fd # None => rcv'[u].fd = rcv[u].fd,
         Exclusive(t)' /\ rcv[t].fd \in Files => data'[rcv[t].fd] = data[rcv[t].fd]
  PROVE  Content(t)'
<1>1. rcv[t].fd \in Files \cup {None} /\ Opened(t)
  BY DEF TypeInv, EndsOK, Receiver
<1>2. ASSUME Exclusive(t)' PROVE Holds(t)'
  <2>1. CASE rcv[t].fd = None
    BY <1>1, <2>1 DEF Opened, Holds
  <2>2. CASE rcv[t].fd \in Files /\ rcv[t].fd # None
    <3>1. Exclusive(t)
      BY <1>2, <2>2 DEF Exclusive
    <3>2. Holds(t) /\ data'[rcv[t].fd] = data[rcv[t].fd]
      BY <1>2, <2>2, <3>1 DEF Content
    <3>3. Source(t)' = Source(t)
      BY DEF Source
    <3>4. QED
      BY <3>2, <3>3 DEF Holds
  <2>3. QED
    BY <1>1, <2>1, <2>2
<1>3. QED
  BY <1>2 DEF Content

(* A file of n units that are all of t is what t had to send, if n is the  *)
(* size of it.                                                             *)
LEMMA IsSource ==
  ASSUME NEW t \in Transfers, NEW d \in Seq(Unit), opt[t].size \in Nat, Len(d) = opt[t].size,
         \A i \in 1 .. Len(d) : d[i] = t
  PROVE  d = Source(t)
<1>1. d = [i \in 1 .. Len(d) |-> d[i]]
  BY LenProperties
<1>2. QED
  BY <1>1 DEF Source

(* A round of copy_loop_posix_recv.                                        *)
LEMMA ContentData ==
  ASSUME TypeInv, StreamInv, NEW t \in Transfers, Clean(t), Content(t), RecvData(t), ~Dies(t), UNCHANGED opt
  PROVE  Content(t)'
<1>1. PICK n \in Nat :
           /\ rcv[t].pc = "data" /\ Len(wire[t]) > 0 /\ n \in Received(wire[t][1])
           /\ \A u \in Transfers \ {t} : rcv'[u] = rcv[u]
           /\ rcv'[t].fd = rcv[t].fd
           /\ rcv'[t].want = rcv[t].want /\ rcv'[t].pre = rcv[t].pre
           /\ \/ n = 0 /\ rcv'[t].pc = "finish" /\ rcv'[t].offset = rcv[t].offset /\ UNCHANGED data
              \/ /\ n > 0 /\ rcv'[t].pc = "data" /\ rcv'[t].offset = rcv[t].offset + n
                 /\ data' = [data EXCEPT ![rcv[t].fd] = Written(@, rcv[t].offset, n, t)]
  BY RecvDataFacts
<1>2. /\ rcv[t].fd \in Files /\ rcv[t].offset \in Nat /\ rcv[t].want \in Nat
      /\ data \in [Files -> Seq(Unit)] /\ opt[t].size \in Nat
      /\ wire[t] \in Seq(Message) /\ Chunk \in Nat \ {0}
  BY <1>1, XferAssumption DEF TypeInv, EndsOK, Receiver, Opened, FilesOK, LinkOK, OptOK, Option
<1>3. Exclusive(t)' => Holds(t)
  BY <1>1 DEF Exclusive, Content
<1>4. CASE n = 0
  <2>1. rcv'[t].pc = "finish" /\ rcv'[t].offset = rcv[t].offset /\ UNCHANGED data
    BY <1>1, <1>4
  <2>2. rcv[t].offset = opt[t].size
    <3>1. Whole(t)
      BY <1>1 DEF StreamInv, Reading
    <3>2. PICK P : InStep(t, P)
      BY <3>1 DEF Whole
    <3>3. Stream(opt[t].size, wire[t], P) /\ P[1] = rcv[t].offset /\ wire[t][1].type = "data"
      BY <1>1, <3>1, <3>2 DEF Shape, Whole, InStep
    <3>4. n = Piece(opt[t].size, P[1])
      BY <1>1, <1>2, <3>3, NextPiece
    <3>5. P[1] \in 0 .. opt[t].size
      <4>1. Len(wire[t]) \in Nat
        BY <1>2, LenProperties
      <4>2. 1 \in 1 .. Len(wire[t]) + 1
        BY <4>1
      <4>3. QED
        BY <3>3, <4>2 DEF Stream
    <3>6. QED
      BY <1>2, <1>4, <3>3, <3>4, <3>5 DEF Piece
  <2>3. Exclusive(t)' => Holds(t)'
    BY <1>1, <1>3, <2>1 DEF Holds
  <2>4. QED
    BY <2>1, <2>2, <2>3 DEF Content
<1>5. CASE n > 0
  <2>1. /\ rcv'[t].pc = "data" /\ rcv'[t].offset = rcv[t].offset + n
        /\ data' = [data EXCEPT ![rcv[t].fd] = Written(@, rcv[t].offset, n, t)]
    BY <1>1, <1>5
  <2> DEFINE d == data[rcv[t].fd]
             o == rcv[t].offset
             e == Written(d, o, n, t)
  <2>2. data'[rcv[t].fd] = e
    BY <1>1, <2>1, WritesOwn
  <2>3. d \in Seq(Unit) /\ Len(d) \in Nat
    BY <1>2, LenProperties
  <2>4. /\ Len(e) = (IF o + n > Len(d) THEN o + n ELSE Len(d))
        /\ \A i \in 1 .. Len(e) : e[i] = IF i > o /\ i <= o + n THEN t ELSE IF i <= Len(d) THEN d[i] ELSE Hole
    <3>1. o \in Nat
      BY <1>2
    <3> HIDE DEF d, o
    <3>2. QED
      BY <2>3, <3>1, WrittenFacts DEF e
  <2> HIDE DEF d, e
  <2>5. ASSUME Exclusive(t)' PROVE Holds(t)'
    <3>1. /\ Len(d) = IF rcv[t].pre /\ rcv[t].want > o THEN rcv[t].want ELSE o
          /\ \A i \in 1 .. o : d[i] = t
      BY <1>1, <1>3, <2>5 DEF Holds, d
    <3>2. Len(e) = IF rcv[t].pre /\ rcv[t].want > o + n THEN rcv[t].want ELSE o + n
      <4>1. /\ o \in Nat /\ rcv[t].want \in Nat /\ Len(d) \in Nat
            /\ Len(e) = (IF o + n > Len(d) THEN o + n ELSE Len(d))
        BY <1>2, <2>3, <2>4
      <4>2. CASE rcv[t].pre
        <5>1. Len(d) = IF rcv[t].want > o THEN rcv[t].want ELSE o
          BY <3>1, <4>2
        <5>2. QED
          BY <4>1, <4>2, <5>1
      <4>3. CASE ~rcv[t].pre
        <5>1. Len(d) = o
          BY <3>1, <4>3
        <5>2. QED
          BY <4>1, <4>3, <5>1
      <4>4. QED
        BY <4>2, <4>3
    <3>3. ASSUME NEW i \in 1 .. o + n PROVE e[i] = t
      <4>1. i \in 1 .. Len(e)
        BY <1>2, <2>3, <2>4, <3>3
      <4>2. CASE i > o
        BY <1>2, <2>4, <4>1, <4>2
      <4>3. CASE i <= o
        <5>1. i <= Len(d) /\ i \in 1 .. o
          BY <1>2, <3>1, <4>3
        <5>2. QED
          BY <1>2, <2>4, <3>1, <4>1, <4>3, <5>1
      <4>4. QED
        BY <1>2, <4>2, <4>3
    <3>4. QED
      BY <1>1, <2>1, <2>2, <3>2, <3>3 DEF Holds
  <2>6. QED
    BY <2>1, <2>5 DEF Content
<1>6. QED
  BY <1>4, <1>5

(* What fallocate added goes.                                              *)
LEMMA ContentFinish ==
  ASSUME TypeInv, NEW t \in Transfers, Content(t), Finish(t), ~Dies(t), UNCHANGED opt
  PROVE  Content(t)'
<1>1. /\ \A u \in Transfers \ {t} : rcv'[u] = rcv[u]
      /\ rcv[t].pc = "finish" /\ rcv'[t].pc \in {"rename", "syncdir"}
      /\ rcv'[t].fd = rcv[t].fd
      /\ data' = IF rcv[t].pre /\ rcv[t].offset < rcv[t].want
                 THEN [data EXCEPT ![rcv[t].fd] = Truncated(@, rcv[t].offset)] ELSE data
  BY FinishFacts
<1>2. /\ rcv[t].fd \in Files /\ rcv[t].offset \in Nat /\ rcv[t].want \in Nat
      /\ data \in [Files -> Seq(Unit)] /\ opt[t].size \in Nat
  BY <1>1 DEF TypeInv, EndsOK, Receiver, Opened, FilesOK, OptOK, Option
<1> DEFINE d == data[rcv[t].fd]
           o == rcv[t].offset
           e == data'[rcv[t].fd]
<1>3. d \in Seq(Unit) /\ Len(d) \in Nat
  BY <1>2, LenProperties
<1>4. ASSUME Exclusive(t)' PROVE Holds(t)'
  <2>1. Holds(t) /\ o = opt[t].size
    BY <1>1, <1>4 DEF Exclusive, Content
  <2>2. /\ Len(d) = IF rcv[t].pre /\ rcv[t].want > o THEN rcv[t].want ELSE o
        /\ \A i \in 1 .. o : d[i] = t
    BY <1>1, <2>1 DEF Holds
  <2>3. e \in Seq(Unit) /\ Len(e) = o /\ \A i \in 1 .. o : e[i] = t
    <3>1. CASE rcv[t].pre /\ o < rcv[t].want
      <4>1. e = Truncated(d, o)
        BY <1>1, <1>2, <3>1
      <4>2. Len(d) >= o
        BY <1>2, <2>2, <3>1
      <4>3. /\ Truncated(d, o) \in Seq(Unit) /\ Len(Truncated(d, o)) = o
            /\ \A i \in 1 .. o : i <= Len(d) => Truncated(d, o)[i] = d[i]
        BY <1>2, <1>3, TruncatedFacts
      <4> HIDE DEF d, e
      <4>4. QED
        BY <1>2, <1>3, <2>2, <4>1, <4>2, <4>3
    <3>2. CASE ~(rcv[t].pre /\ o < rcv[t].want)
      <4>1. e = d
        BY <1>1, <3>2
      <4> HIDE DEF d, e
      <4>2. Len(d) = o
        BY <1>2, <2>2, <3>2
      <4>3. QED
        BY <1>3, <2>2, <4>1, <4>2
    <3>3. QED
      BY <3>1, <3>2
  <2>4. e = Source(t)
    <3> HIDE DEF d, e
    <3>1. QED
      BY <1>2, <2>1, <2>3, IsSource
  <2>5. Source(t)' = Source(t)
    BY DEF Source
  <2>6. QED
    BY <1>1, <2>4, <2>5 DEF Holds
<1>5. QED
  BY <1>1, <1>4 DEF Content

(* The receiver's steps.                                                   *)
LEMMA ContentReceiver ==
  ASSUME TypeInv, StreamInv, NEW t \in Transfers, Clean(t), Content(t), ReceiverStep(t)
  PROVE  Content(t)'
<1>1. UNCHANGED opt
  BY DEF ReceiverStep
<1>2. CASE Dies(t)
  BY <1>2, DiesFacts DEF Content, Holds
<1>3. CASE RecvStat(t)
  BY <1>3, RecvStatFacts DEF Content, Holds
<1>4. CASE Open(t) /\ ~Dies(t)
  <2>1. /\ rcv[t].pc = "open" /\ rcv'[t].pc = "data"
        /\ rcv'[t].offset = rcv[t].offset /\ rcv'[t].want = rcv[t].want
        /\ Len(data'[rcv'[t].fd]) = (IF rcv'[t].pre /\ rcv[t].want > 0 THEN rcv[t].want ELSE 0)
    BY <1>4, OpenFacts
  <2>2. rcv[t].offset = 0
    BY <2>1 DEF TypeInv, Opened
  <2>3. QED
    BY <2>1, <2>2 DEF Content, Holds
<1>5. CASE RecvData(t) /\ ~Dies(t)
  BY <1>1, <1>5, ContentData
<1>6. CASE Finish(t) /\ ~Dies(t)
  BY <1>1, <1>6, ContentFinish
<1>7. CASE (Rename(t) \/ SyncDir(t)) /\ ~Dies(t)
  <2>1. PICK l \in {"syncdir", "ok"} : rcv' = [rcv EXCEPT ![t].pc = l] /\ rcv[t].pc \in {"rename", "syncdir"} /\ UNCHANGED data
    BY <1>7 DEF Rename, SyncDir
  <2>2. /\ \A u \in Transfers \ {t} : rcv'[u] = rcv[u]
        /\ rcv'[t].pc = l /\ rcv'[t].fd = rcv[t].fd
    BY <2>1, GoesOn
  <2>3. Exclusive(t)' => Holds(t)
    BY <2>2 DEF Exclusive, Content
  <2>4. Source(t)' = Source(t)
    BY <1>1 DEF Source
  <2>5. Exclusive(t)' => Holds(t)'
    BY <2>1, <2>2, <2>3, <2>4 DEF Holds
  <2>6. QED
    BY <2>1, <2>2, <2>5 DEF Content
<1>8. QED
  BY <1>2, <1>3, <1>4, <1>5, <1>6, <1>7, ReceiverCases

(* Every step.                                                             *)
LEMMA ContentNext ==
  ASSUME TypeInv, StreamInv, ContentInv, [XferNext]_xfervars
  PROVE  ContentInv'
<1>1. SUFFICES ASSUME NEW t \in Transfers, Clean(t)' PROVE Content(t)'
  BY DEF ContentInv
<1>2. Clean(t) /\ Content(t)
  BY <1>1, CleanBefore DEF ContentInv
<1>3. UNCHANGED opt
  BY StaysCut
<1>4. CASE UNCHANGED <<rcv, data>>
  BY <1>2, <1>3, <1>4, ContentKept
<1>5. ASSUME NEW u \in Transfers, Kill(u) PROVE Content(t)'
  <2>1. rcv' = [rcv EXCEPT ![u].pc = "killed"] /\ UNCHANGED data
    BY <1>5 DEF Kill
  <2>2. /\ \A v \in Transfers \ {u} : rcv'[v] = rcv[v]
        /\ rcv'[u].pc = "killed" /\ rcv'[u].fd = rcv[u].fd
    BY <2>1, GoesOn
  <2>3. CASE u = t
    BY <2>2, <2>3 DEF Content, Holds
  <2>4. CASE u # t
    BY <1>2, <1>3, <2>1, <2>2, <2>4, ContentKept
  <2>5. QED
    BY <2>3, <2>4
<1>6. ASSUME NEW u \in Transfers, ReceiverStep(u) PROVE Content(t)'
  <2>1. CASE u = t
    BY <1>2, <1>6, <2>1, ContentReceiver
  <2>2. CASE u # t
    <3>1. /\ \A v \in Transfers \ {u} : rcv'[v] = rcv[v]
          /\ rcv[u].fd # None => rcv'[u].fd = rcv[u].fd
      BY <1>6, NamesFacts
    <3>2. ASSUME Exclusive(t)', rcv[t].fd \in Files PROVE data'[rcv[t].fd] = data[rcv[t].fd]
      <4>1. rcv'[u].fd # rcv[t].fd
        BY <2>2, <3>1, <3>2 DEF Exclusive
      <4>2. QED
        BY <1>6, <3>2, <4>1, WritesFacts
    <3>3. rcv'[t] = rcv[t] /\ \A v \in Transfers : rcv[v].fd # None => rcv'[v].fd = rcv[v].fd
      BY <2>2, <3>1
    <3>4. QED
      BY <1>2, <1>3, <3>2, <3>3, ContentKept
  <2>3. QED
    BY <2>1, <2>2
<1>7. QED
  <2>1. ASSUME NEW u \in Transfers, SenderStep(u) \/ SenderFails(u) \/ Return(u) \/ ReadError(u) \/ Cut(u)
        PROVE  UNCHANGED <<rcv, data>>
    BY <2>1 DEF SenderStep, SenderFails, Return, ReadError, Cut
  <2>2. UNCHANGED xfervars => UNCHANGED <<rcv, data>>
    BY DEF xfervars
  <2>3. QED
    BY <1>4, <1>5, <1>6, <2>1, <2>2 DEF XferNext

(* The three hold together.                                                *)
LEMMA Contents == XferSpec => [](TypeInv /\ StreamInv /\ ContentInv)
<1>1. XferInit => TypeInv /\ StreamInv /\ ContentInv
  <2>1. XferInit => ContentInv
    BY DEF XferInit, ContentInv, Content, Holds
  <2>2. QED
    BY <2>1, TypeInit, StreamInit
<1>2. TypeInv /\ StreamInv /\ ContentInv /\ [XferNext]_xfervars => (TypeInv /\ StreamInv /\ ContentInv)'
  BY TypeNext, StreamNext, ContentNext
<1>3. QED
  BY <1>1, <1>2, PTL DEF XferSpec

(* A transfer that reports success has written exactly the bytes of the    *)
(* source, however it was cut in pieces and whatever the size that stat    *)
(* gave: nothing that fallocate added remains (copy_loop_posix_recv and    *)
(* the ftruncate that follows it).                                         *)
THEOREM SuccessMeansWhole == XferSpec => []SuccessIsWhole
<1>1. TypeInv /\ ContentInv => SuccessIsWhole
  <2>1. SUFFICES ASSUME TypeInv, ContentInv, NEW t \in Transfers, status[t] = "ok",
                        \A u \in Transfers \ {t} : rcv[u].fd # rcv[t].fd
                 PROVE  data[rcv[t].fd] = Source(t)
    BY DEF SuccessIsWhole
  <2>2. Clean(t) /\ Exclusive(t) /\ rcv[t].pc = "ok"
    BY <2>1 DEF Clean, Exclusive, TypeInv, Opened
  <2>3. QED
    BY <2>1, <2>2 DEF ContentInv, Content, Holds
<1>2. QED
  BY <1>1, Contents, PTL

----------------------------------------------------------------------------
(* The destination's name.                                                 *)

(* In atomic mode a transfer that took the name over has nothing left to   *)
(* write.                                                                  *)
TargetInv ==
  AllAtomic =>
    \/ dest = None /\ dir.kind = "nothing"
    \/ dest = 0 /\ data[0] = <<0>>
    \/ /\ dest \in Transfers /\ data[dest] = Source(dest)
       /\ rcv[dest].pc \notin {"stat", "open", "data", "finish", "rename"}

(* A transfer that was not atomic does not become so.                      *)
LEMMA AtomicBefore ==
  ASSUME TypeInv, [XferNext]_xfervars, AllAtomic'
  PROVE  AllAtomic
<1>1. SUFFICES ASSUME NEW u \in Transfers PROVE rcv[u].atomic
  BY DEF AllAtomic
<1>2. rcv'[u].atomic
  BY DEF AllAtomic
<1>3. CASE UNCHANGED rcv
  BY <1>2, <1>3
<1>4. ASSUME NEW t \in Transfers, ReceiverStep(t) \/ Kill(t) PROVE rcv[u].atomic
  <2>1. CASE u # t
    <3>1. rcv'[u] = rcv[u]
      BY <1>4, <2>1, OthersSame
    <3>2. QED
      BY <1>2, <3>1
  <2>2. CASE u = t /\ rcv'[t].atomic = rcv[t].atomic
    BY <1>2, <2>2
  <2>3. CASE u = t /\ Kill(t)
    <3>1. rcv'[t].atomic = rcv[t].atomic
      BY <2>3, GoesOn DEF Kill
    <3>2. QED
      BY <2>2, <2>3, <3>1
  <2>4. CASE u = t /\ ReceiverStep(t)
    <3>1. CASE Dies(t)
      BY <2>2, <2>4, <3>1, DiesFacts
    <3>2. CASE RecvStat(t)
      BY <2>2, <2>4, <3>2, RecvStatFacts
    <3>3. CASE Open(t) /\ ~Dies(t)
      <4>1. rcv[t].pc = "open"
        BY <3>3 DEF Open
      <4>2. QED
        BY <2>4, <4>1 DEF TypeInv, Opened
    <3>4. CASE RecvData(t) /\ ~Dies(t)
      BY <2>2, <2>4, <3>4, RecvDataFacts
    <3>5. CASE Finish(t) /\ ~Dies(t)
      BY <2>2, <2>4, <3>5, FinishFacts
    <3>6. CASE (Rename(t) \/ SyncDir(t)) /\ ~Dies(t)
      <4>1. PICK l \in {"syncdir", "ok"} : rcv' = [rcv EXCEPT ![t].pc = l]
        BY <3>6 DEF Rename, SyncDir
      <4>2. QED
        BY <2>2, <2>4, <4>1, GoesOn
    <3>7. QED
      BY <2>4, <3>1, <3>2, <3>3, <3>4, <3>5, <3>6, ReceiverCases
  <2>5. QED
    BY <1>4, <2>1, <2>3, <2>4
<1>5. QED
  <2>1. ASSUME NEW t \in Transfers, SenderStep(t) \/ SenderFails(t) \/ Return(t) \/ ReadError(t) \/ Cut(t)
        PROVE  UNCHANGED rcv
    BY <2>1 DEF SenderStep, SenderFails, Return, ReadError, Cut
  <2>2. UNCHANGED xfervars => UNCHANGED rcv
    BY DEF xfervars
  <2>3. QED
    BY <1>3, <1>4, <2>1, <2>2 DEF XferNext

(* What a receiver does to the name in atomic mode: nothing, until it      *)
(* renames a file that nobody writes to.                                   *)
LEMMA NameTaken ==
  ASSUME TypeInv, NEW t \in Transfers, ReceiverStep(t), AllAtomic, rcv'[t].atomic
  PROVE  dest' = dest \/ (rcv[t].pc = "rename" /\ rcv[t].fd = t /\ dest' = t /\ rcv'[t].pc = "syncdir" /\ UNCHANGED data)
<1>1. rcv[t].atomic /\ Opened(t)
  BY DEF AllAtomic, TypeInv
<1>2. CASE Dies(t)
  BY <1>1, <1>2, DiesFacts
<1>3. CASE RecvStat(t) \/ (SyncDir(t) /\ ~Dies(t))
  BY <1>3 DEF RecvStat, SyncDir
<1>4. CASE Open(t) /\ ~Dies(t)
  BY <1>4, OpenFacts
<1>5. CASE RecvData(t) /\ ~Dies(t)
  BY <1>5, RecvDataFacts
<1>6. CASE Finish(t) /\ ~Dies(t)
  BY <1>6, FinishFacts
<1>7. CASE Rename(t)
  <2>1. rcv[t].pc = "rename" /\ dest' = rcv[t].fd /\ rcv' = [rcv EXCEPT ![t].pc = "syncdir"] /\ UNCHANGED data
    BY <1>7 DEF Rename
  <2>2. rcv[t].fd = t
    BY <1>1, <2>1 DEF Opened
  <2>3. rcv'[t].pc = "syncdir"
    BY <2>1, GoesOn
  <2>4. QED
    BY <2>1, <2>2, <2>3
<1>8. QED
  BY <1>2, <1>3, <1>4, <1>5, <1>6, <1>7, ReceiverCases

(* A receiver that has finished writing leaves the file as it is.          *)
LEMMA DoneWriting ==
  ASSUME TypeInv, NEW t \in Transfers, ReceiverStep(t),
         rcv[t].pc \notin {"stat", "open", "data", "finish", "rename"}
  PROVE  UNCHANGED data /\ rcv'[t].pc \notin {"stat", "open", "data", "finish", "rename"}
<1>1. CASE Dies(t)
  BY <1>1, DiesFacts
<1>2. CASE SyncDir(t) /\ ~Dies(t)
  <2>1. rcv' = [rcv EXCEPT ![t].pc = "ok"] /\ UNCHANGED data
    BY <1>2 DEF SyncDir
  <2>2. rcv'[t].pc = "ok"
    BY <2>1, GoesOn
  <2>3. QED
    BY <2>1, <2>2
<1>3. ~RecvStat(t) /\ ~Open(t) /\ ~RecvData(t) /\ ~Finish(t) /\ ~Rename(t)
  BY DEF RecvStat, Open, RecvData, Finish, Rename
<1>4. QED
  BY <1>1, <1>2, <1>3, ReceiverCases

(* Every step.                                                             *)
LEMMA TargetNext ==
  ASSUME ~Torn, TypeInv, ContentInv, TargetInv, [XferNext]_xfervars
  PROVE  TargetInv'
<1>1. SUFFICES ASSUME AllAtomic'
               PROVE  \/ dest' = None /\ dir'.kind = "nothing"
                      \/ dest' = 0 /\ data'[0] = <<0>>
                      \/ /\ dest' \in Transfers /\ data'[dest'] = Source(dest)'
                         /\ rcv'[dest'].pc \notin {"stat", "open", "data", "finish", "rename"}
  BY DEF TargetInv
<1>2. AllAtomic
  BY <1>1, AtomicBefore
<1>3. \/ dest = None /\ dir.kind = "nothing"
      \/ dest = 0 /\ data[0] = <<0>>
      \/ /\ dest \in Transfers /\ data[dest] = Source(dest)
         /\ rcv[dest].pc \notin {"stat", "open", "data", "finish", "rename"}
  BY <1>2 DEF TargetInv
<1>4. UNCHANGED <<opt, dir>>
  <2>1. ASSUME NEW t \in Transfers,
               SenderStep(t) \/ SenderFails(t) \/ ReceiverStep(t) \/ Return(t) \/ ReadError(t) \/ Cut(t) \/ Kill(t)
        PROVE  UNCHANGED <<opt, dir>>
    BY <2>1 DEF SenderStep, SenderFails, ReceiverStep, Return, ReadError, Cut, Kill
  <2>2. UNCHANGED xfervars => UNCHANGED <<opt, dir>>
    BY DEF xfervars
  <2>3. QED
    BY <2>1, <2>2 DEF XferNext
<1>6. CASE UNCHANGED <<dest, rcv, data>>
  BY <1>3, <1>4, <1>6 DEF Source
<1>7. ASSUME NEW u \in Transfers, Kill(u)
      PROVE  \/ dest' = None /\ dir'.kind = "nothing"
             \/ dest' = 0 /\ data'[0] = <<0>>
             \/ /\ dest' \in Transfers /\ data'[dest'] = Source(dest)'
                /\ rcv'[dest'].pc \notin {"stat", "open", "data", "finish", "rename"}
  <2>1. rcv' = [rcv EXCEPT ![u].pc = "killed"] /\ UNCHANGED <<dest, data>>
    BY <1>7 DEF Kill
  <2>2. (\A v \in Transfers \ {u} : rcv'[v] = rcv[v]) /\ rcv'[u].pc = "killed"
    BY <2>1, GoesOn
  <2>3. dest \in Transfers => rcv'[dest].pc = "killed" \/ rcv'[dest] = rcv[dest]
    BY <2>2
  <2>4. QED
    BY <1>3, <1>4, <2>1, <2>3 DEF Source
<1>8. ASSUME NEW u \in Transfers, ReceiverStep(u)
      PROVE  \/ dest' = None /\ dir'.kind = "nothing"
             \/ dest' = 0 /\ data'[0] = <<0>>
             \/ /\ dest' \in Transfers /\ data'[dest'] = Source(dest)'
                /\ rcv'[dest'].pc \notin {"stat", "open", "data", "finish", "rename"}
  <2>1. rcv'[u].atomic /\ TypeInv' /\ Transfers \subseteq Nat \ {0} /\ None \notin Files
    BY <1>1, TypeNext, XferAssumption DEF AllAtomic
  <2>2. rcv'[u].fd \in {u, None}
    BY <2>1 DEF TypeInv, Opened
  <2>3. \A v \in Transfers \ {u} : rcv'[v] = rcv[v]
    BY <1>8, NamesFacts
  <2>4. ASSUME NEW f \in Files, f # u PROVE data'[f] = data[f]
    <3>1. f # rcv'[u].fd
      BY <2>1, <2>2, <2>4
    <3>2. QED
      BY <1>8, <2>4, <3>1, WritesFacts
  <2>5. CASE dest' = dest
    <3>1. CASE dest = None
      BY <1>3, <1>4, <2>1, <2>5, <3>1 DEF Files
    <3>2. CASE dest = 0
      <4>1. 0 \in Files /\ 0 # u /\ 0 \notin Transfers /\ 0 # None
        BY <2>1 DEF Files
      <4>2. QED
        BY <1>3, <2>4, <2>5, <3>2, <4>1
    <3>3. CASE dest \in Transfers
      <4>1. dest \in Files /\ dest # None /\ dest # 0
        BY <2>1, <3>3 DEF Files
      <4>2. data[dest] = Source(dest) /\ rcv[dest].pc \notin {"stat", "open", "data", "finish", "rename"}
        BY <1>3, <4>1
      <4>3. CASE dest = u
        <5>1. UNCHANGED data /\ rcv'[u].pc \notin {"stat", "open", "data", "finish", "rename"}
          BY <1>8, <4>2, <4>3, DoneWriting
        <5>2. QED
          BY <1>4, <2>5, <3>3, <4>2, <4>3, <5>1 DEF Source
      <4>4. CASE dest # u
        <5>1. data'[dest] = data[dest] /\ rcv'[dest] = rcv[dest]
          BY <2>3, <2>4, <3>3, <4>1, <4>4
        <5>2. QED
          BY <1>4, <2>5, <3>3, <4>2, <5>1 DEF Source
      <4>5. QED
        BY <4>3, <4>4
    <3>4. QED
      BY <1>3, <3>1, <3>2, <3>3
  <2>6. CASE rcv[u].pc = "rename" /\ rcv[u].fd = u /\ dest' = u /\ rcv'[u].pc = "syncdir" /\ UNCHANGED data
    <3>1. Exclusive(u)
      <4>1. SUFFICES ASSUME NEW v \in Transfers \ {u} PROVE rcv[v].fd # u
        BY <2>6 DEF Exclusive
      <4>2. rcv[v].fd \in {v, None}
        BY <1>2 DEF AllAtomic, TypeInv, Opened
      <4>3. u # None
        BY <2>1 DEF Files
      <4>4. QED
        BY <4>1, <4>2, <4>3
    <3>2. data[u] = Source(u)
      BY <2>6, <3>1 DEF ContentInv, Content, Holds, Clean
    <3>3. QED
      BY <1>4, <2>6, <3>2 DEF Source
  <2>7. QED
    BY <1>2, <1>8, <2>1, <2>5, <2>6, NameTaken
<1>9. QED
  <2>1. ASSUME NEW t \in Transfers, SenderStep(t) \/ SenderFails(t) \/ Return(t) \/ ReadError(t) \/ Cut(t)
        PROVE  UNCHANGED <<dest, rcv, data>>
    BY <2>1 DEF SenderStep, SenderFails, Return, ReadError, Cut
  <2>2. UNCHANGED xfervars => UNCHANGED <<dest, rcv, data>>
    BY DEF xfervars
  <2>3. QED
    BY <1>6, <1>7, <1>8, <2>1, <2>2 DEF XferNext

(* In atomic mode the destination's name stands for the old file or for a  *)
(* whole new one at every moment, whatever fails, whoever is killed and    *)
(* whoever else writes, if no connection ends inside a message: with one   *)
(* that does, a header that was read in part can end the copy early        *)
(* (recv_xfer_msg).                                                        *)
THEOREM NameIsNeverPartial ==
  ASSUME ~Torn
  PROVE  XferSpec => []NeverPartial
<1>1. XferInit => TargetInv
  BY DEF XferInit, TargetInv, Files
<1>2. TypeInv /\ ContentInv /\ TargetInv /\ [XferNext]_xfervars => TargetInv'
  BY TargetNext
<1>3. TargetInv => NeverPartial
  BY DEF TargetInv, NeverPartial
<1>4. QED
  BY <1>1, <1>2, <1>3, Contents, PTL DEF XferSpec

=============================================================================

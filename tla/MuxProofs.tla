----------------------------- MODULE MuxProofs -----------------------------
(* Proofs about Mux.tla, for any number of streams and any buffer sizes.   *)
EXTENDS Mux, SequenceTheorems, TLAPS

(* The inductive invariant.                                                *)
IInv == TypeOK /\ NoProtocolError /\ FlowControl

(* Every process has exactly one peer.                                     *)
LEMMA PeerFacts ==
  ASSUME NEW p \in Peers
  PROVE  /\ Other(p) \in Peers /\ Other(p) # p /\ Other(Other(p)) = p
         /\ \A z \in Peers : z = p \/ z = Other(p)
BY DEF Peers, Other

(* A stream is a channel with a source and a sink in different processes.  *)
LEMMA StreamFacts ==
  ASSUME NEW s \in Streams
  PROVE  /\ s \in Chans /\ s # FROM_PEER /\ s # TO_PEER
         /\ Source[s] \in Peers /\ Sink(s) \in Peers /\ Sink(s) # Source[s]
         /\ \A z \in Peers : z = Source[s] \/ z = Sink(s)
         /\ Cap(s) = StreamCap
BY MuxAssumption, PeerFacts, SMTT(30) DEF Streams, Chans, FROM_PEER, TO_PEER, Sink, Cap

(* The two channels to the peer are channels and not streams.              *)
LEMMA PeerChannelFacts ==
  /\ FROM_PEER \in Chans /\ TO_PEER \in Chans /\ FROM_PEER # TO_PEER
  /\ FROM_PEER \notin Streams /\ TO_PEER \notin Streams
BY MuxAssumption DEF Streams, Chans, FROM_PEER, TO_PEER

(* MinOf is the minimum of two integers.                                   *)
LEMMA MinFacts ==
  ASSUME NEW a \in Int, NEW b \in Int
  PROVE  MinOf(a, b) \in Int /\ MinOf(a, b) <= a /\ MinOf(a, b) <= b
BY DEF MinOf

(* The constants are natural numbers.                                      *)
LEMMA ConstantFacts ==
  /\ NrCh \in Nat /\ CmdCap \in Nat /\ StreamCap \in Nat /\ WireCap \in Nat
  /\ MaxMsg \in Nat /\ MaxMsg <= CmdCap /\ StreamCap <= U32Max
  /\ SzHdr \in Nat /\ SzData \in Nat /\ SzLz4 \in Nat /\ SzWindow \in Nat
  /\ SzClose \in Nat /\ U32Max \in Nat /\ MinCompress \in Nat /\ MaxBlock \in Nat
  /\ MaxBytes \in Nat
  /\ \A p \in Peers : SzControl[p] \in Nat
  /\ \A c \in Chans : Cap(c) \in Nat
BY MuxAssumption DEF Cap

----------------------------------------------------------------------------
(* Queues.  What consuming the head and appending a message do to Ranged,  *)
(* NoGap and EndsAt.                                                       *)

(* Consuming the head keeps the ranges of the rest.                        *)
LEMMA RangedTail ==
  ASSUME NEW w \in Seq(Messages), w # <<>>, NEW T, NEW s, NEW lo \in Int, NEW hi \in Int,
         Ranged(w, T, s, lo, hi)
  PROVE  /\ Ranged(Tail(w), T, s, lo, hi)
         /\ IsFor(Head(w), T, s) =>
              /\ lo <= Head(w).pos /\ Head(w).pos + Head(w).n <= hi
              /\ Ranged(Tail(w), T, s, Head(w).pos + Head(w).n, hi)
<1>1. /\ Tail(w) \in Seq(Messages) /\ Len(w) \in Nat /\ Len(Tail(w)) = Len(w) - 1
      /\ Len(w) >= 1 /\ Head(w) = w[1]
      /\ \A i \in 1 .. Len(Tail(w)) : Tail(w)[i] = w[i + 1]
  OBVIOUS
<1>2. QED
  BY <1>1 DEF Ranged

(* Appending a message of another kind or stream changes no range.         *)
LEMMA RangedAppendOther ==
  ASSUME NEW w \in Seq(Messages), NEW m \in Messages, NEW T, NEW s,
         NEW lo \in Int, NEW hi \in Int, Ranged(w, T, s, lo, hi), ~IsFor(m, T, s)
  PROVE  Ranged(Append(w, m), T, s, lo, hi)
<1>1. /\ Len(w) \in Nat /\ Len(Append(w, m)) = Len(w) + 1 /\ Append(w, m)[Len(w) + 1] = m
      /\ \A i \in 1 .. Len(w) : Append(w, m)[i] = w[i]
  OBVIOUS
<1>2. QED
  BY <1>1 DEF Ranged

(* Appending a message that starts where the ranges end extends them.      *)
LEMMA RangedAppend ==
  ASSUME NEW w \in Seq(Messages), NEW m \in Messages, NEW T, NEW s,
         NEW lo \in Int, NEW hi \in Int, Ranged(w, T, s, lo, hi),
         lo <= hi, m.pos = hi
  PROVE  Ranged(Append(w, m), T, s, lo, m.pos + m.n)
<1>1. /\ Len(w) \in Nat /\ Len(Append(w, m)) = Len(w) + 1 /\ Append(w, m)[Len(w) + 1] = m
      /\ \A i \in 1 .. Len(w) : Append(w, m)[i] = w[i] /\ w[i] \in Messages
  OBVIOUS
<1>2. m.pos \in Nat /\ m.n \in Nat /\ \A i \in 1 .. Len(w) : w[i].pos \in Nat /\ w[i].n \in Nat
  BY <1>1 DEF Messages
<1>3. QED
  BY <1>1, <1>2, SMTT(30) DEF Ranged

(* Lowering lo and raising hi keeps the ranges.                            *)
LEMMA RangedWeaken ==
  ASSUME NEW w \in Seq(Messages), NEW T, NEW s, NEW lo \in Int, NEW hi \in Int,
         Ranged(w, T, s, lo, hi), NEW lo1 \in Int, NEW hi1 \in Int, lo1 <= lo, hi <= hi1
  PROVE  Ranged(w, T, s, lo1, hi1)
<1>1. Len(w) \in Nat /\ \A i \in 1 .. Len(w) : w[i] \in Messages
  OBVIOUS
<1>2. \A i \in 1 .. Len(w) : w[i].pos \in Nat /\ w[i].n \in Nat
  BY <1>1 DEF Messages
<1>3. QED
  BY <1>1, <1>2 DEF Ranged

(* Consuming a message that is not data of s leaves no gap.                *)
LEMMA NoGapTailOther ==
  ASSUME NEW w \in Seq(Messages), w # <<>>, NEW s, NEW lo \in Int,
         ~IsFor(Head(w), DataTypes, s)
  PROVE  /\ NoGap(w, s, lo) => NoGap(Tail(w), s, lo)
         /\ \A x : EndsAt(w, s, Len(w) + 1, x) => EndsAt(Tail(w), s, Len(Tail(w)) + 1, x)
<1>1. /\ Tail(w) \in Seq(Messages) /\ Len(w) \in Nat /\ Len(Tail(w)) = Len(w) - 1
      /\ Len(w) >= 1 /\ Head(w) = w[1]
      /\ \A i \in 1 .. Len(Tail(w)) : Tail(w)[i] = w[i + 1]
  OBVIOUS
<1>2. ASSUME NEW i \in 1 .. Len(w) + 1, NEW x, EndsAt(w, s, i, x)
      PROVE  EndsAt(Tail(w), s, i - 1, x)
  <2>1. PICK j \in 1 .. Len(w) : j < i /\ IsFor(w[j], DataTypes, s) /\ w[j].pos + w[j].n = x
    BY <1>2 DEF EndsAt
  <2>2. j # 1
    BY <2>1, <1>1
  <2>3. j - 1 \in 1 .. Len(Tail(w)) /\ Tail(w)[j - 1] = w[j] /\ j - 1 < i - 1
    BY <2>1, <2>2, <1>1
  <2>4. QED
    BY <2>1, <2>3 DEF EndsAt
<1>3. ASSUME NoGap(w, s, lo) PROVE NoGap(Tail(w), s, lo)
  <2>1. SUFFICES ASSUME NEW i \in 1 .. Len(Tail(w)), IsFor(Tail(w)[i], DataTypes, s)
                 PROVE  Tail(w)[i].pos = lo \/ EndsAt(Tail(w), s, i, Tail(w)[i].pos)
    BY DEF NoGap
  <2>2. i + 1 \in 1 .. Len(w) /\ Tail(w)[i] = w[i + 1]
    BY <1>1
  <2>3. w[i + 1].pos = lo \/ EndsAt(w, s, i + 1, w[i + 1].pos)
    BY <1>3, <2>1, <2>2 DEF NoGap
  <2>4. i + 1 \in 1 .. Len(w) + 1 /\ (i + 1) - 1 = i
    BY <1>1
  <2>5. EndsAt(w, s, i + 1, w[i + 1].pos) => EndsAt(Tail(w), s, (i + 1) - 1, w[i + 1].pos)
    BY <1>2, <2>4
  <2>6. QED
    BY <2>2, <2>3, <2>4, <2>5
<1>4. ASSUME NEW x, EndsAt(w, s, Len(w) + 1, x)
      PROVE  EndsAt(Tail(w), s, Len(Tail(w)) + 1, x)
  <2>1. Len(w) + 1 \in 1 .. Len(w) + 1 /\ (Len(w) + 1) - 1 = Len(Tail(w)) + 1
    BY <1>1
  <2>2. EndsAt(Tail(w), s, (Len(w) + 1) - 1, x)
    BY <1>2, <1>4, <2>1
  <2>3. QED
    BY <2>1, <2>2
<1>5. QED
  BY <1>3, <1>4

(* Consuming the first data message of s moves the start of what is left   *)
(* to where that message ends.                                             *)
LEMMA NoGapTailData ==
  ASSUME NEW w \in Seq(Messages), w # <<>>, NEW s, NEW lo \in Int, NEW hi \in Int,
         IsFor(Head(w), DataTypes, s), Ranged(w, DataTypes, s, lo, hi), NoGap(w, s, lo)
  PROVE  /\ Head(w).pos = lo
         /\ NoGap(Tail(w), s, lo + Head(w).n)
         /\ hi = lo \/ EndsAt(w, s, Len(w) + 1, hi) =>
              hi = lo + Head(w).n \/ EndsAt(Tail(w), s, Len(Tail(w)) + 1, hi)
<1>1. /\ Tail(w) \in Seq(Messages) /\ Len(w) \in Nat /\ Len(Tail(w)) = Len(w) - 1
      /\ Len(w) >= 1 /\ Head(w) = w[1] /\ \A i \in 1 .. Len(w) : w[i] \in Messages
      /\ \A i \in 1 .. Len(Tail(w)) : Tail(w)[i] = w[i + 1]
  OBVIOUS
<1>2. \A i \in 1 .. Len(w) : w[i].pos \in Nat /\ w[i].n \in Nat
  BY <1>1 DEF Messages
<1>3. Head(w).pos = lo
  BY <1>1 DEF NoGap, EndsAt
<1>4. /\ lo + Head(w).n <= hi
      /\ \A i \in 2 .. Len(w) : IsFor(w[i], DataTypes, s) => lo + Head(w).n <= w[i].pos
  BY <1>1, <1>2, <1>3 DEF Ranged
<1>5. ASSUME NEW i \in 1 .. Len(w) + 1, NEW x, EndsAt(w, s, i, x)
      PROVE  x = lo + Head(w).n \/ EndsAt(Tail(w), s, i - 1, x)
  <2>1. PICK j \in 1 .. Len(w) : j < i /\ IsFor(w[j], DataTypes, s) /\ w[j].pos + w[j].n = x
    BY <1>5 DEF EndsAt
  <2>2. CASE j = 1
    BY <2>1, <2>2, <1>1, <1>3
  <2>3. CASE j # 1
    <3>1. j - 1 \in 1 .. Len(Tail(w)) /\ Tail(w)[j - 1] = w[j] /\ j - 1 < i - 1
      BY <2>1, <2>3, <1>1
    <3>2. QED
      BY <2>1, <3>1 DEF EndsAt
  <2>4. QED
    BY <2>2, <2>3
<1>6. NoGap(Tail(w), s, lo + Head(w).n)
  <2>1. SUFFICES ASSUME NEW i \in 1 .. Len(Tail(w)), IsFor(Tail(w)[i], DataTypes, s)
                 PROVE  \/ Tail(w)[i].pos = lo + Head(w).n
                        \/ EndsAt(Tail(w), s, i, Tail(w)[i].pos)
    BY DEF NoGap
  <2>2. i + 1 \in 2 .. Len(w) /\ i + 1 \in 1 .. Len(w) /\ Tail(w)[i] = w[i + 1]
    BY <1>1
  <2>3. w[i + 1].pos = lo \/ EndsAt(w, s, i + 1, w[i + 1].pos)
    BY <2>1, <2>2 DEF NoGap
  <2>4. w[i + 1].pos = lo => w[i + 1].pos = lo + Head(w).n
    BY <1>1, <1>2, <1>4, <2>1, <2>2
  <2>5. i + 1 \in 1 .. Len(w) + 1 /\ (i + 1) - 1 = i
    BY <1>1
  <2>6. EndsAt(w, s, i + 1, w[i + 1].pos)
          => w[i + 1].pos = lo + Head(w).n \/ EndsAt(Tail(w), s, (i + 1) - 1, w[i + 1].pos)
    BY <1>5, <2>5
  <2>7. QED
    BY <2>2, <2>3, <2>4, <2>5, <2>6
<1>7. hi = lo => hi = lo + Head(w).n
  BY <1>1, <1>2, <1>4
<1>8. ASSUME EndsAt(w, s, Len(w) + 1, hi)
      PROVE  hi = lo + Head(w).n \/ EndsAt(Tail(w), s, Len(Tail(w)) + 1, hi)
  <2>1. Len(w) + 1 \in 1 .. Len(w) + 1 /\ (Len(w) + 1) - 1 = Len(Tail(w)) + 1
    BY <1>1
  <2>2. hi = lo + Head(w).n \/ EndsAt(Tail(w), s, (Len(w) + 1) - 1, hi)
    BY <1>5, <1>8, <2>1
  <2>3. QED
    BY <2>1, <2>2
<1>9. QED
  BY <1>3, <1>6, <1>7, <1>8

(* Appending keeps where messages start and end.                           *)
LEMMA NoGapAppendOther ==
  ASSUME NEW w \in Seq(Messages), NEW m \in Messages, NEW s, NEW lo \in Int,
         ~IsFor(m, DataTypes, s)
  PROVE  /\ NoGap(w, s, lo) => NoGap(Append(w, m), s, lo)
         /\ \A x : EndsAt(w, s, Len(w) + 1, x) => EndsAt(Append(w, m), s, Len(Append(w, m)) + 1, x)
<1>1. /\ Len(w) \in Nat /\ Len(Append(w, m)) = Len(w) + 1 /\ Append(w, m)[Len(w) + 1] = m
      /\ \A i \in 1 .. Len(w) : Append(w, m)[i] = w[i]
  OBVIOUS
<1>2. QED
  BY <1>1 DEF NoGap, EndsAt

(* A data message appended where the last one ends, or at lo, leaves no    *)
(* gap.                                                                    *)
LEMMA NoGapAppendData ==
  ASSUME NEW w \in Seq(Messages), NEW m \in Messages, NEW s, NEW lo \in Int,
         IsFor(m, DataTypes, s), NoGap(w, s, lo),
         m.pos = lo \/ EndsAt(w, s, Len(w) + 1, m.pos)
  PROVE  /\ NoGap(Append(w, m), s, lo)
         /\ EndsAt(Append(w, m), s, Len(Append(w, m)) + 1, m.pos + m.n)
<1>1. /\ Len(w) \in Nat /\ Len(Append(w, m)) = Len(w) + 1 /\ Append(w, m)[Len(w) + 1] = m
      /\ \A i \in 1 .. Len(w) : Append(w, m)[i] = w[i]
  OBVIOUS
<1>2. QED
  BY <1>1 DEF NoGap, EndsAt

----------------------------------------------------------------------------
(* Streams a step does not touch.                                          *)

(* A queue step that moves no data and no credit of stream s: nothing, a   *)
(* message appended or a message consumed without effect on s.             *)
QuietQueue(w, v, s, open) ==
  \/ v = w
  \/ w # <<>> /\ v = Tail(w) /\ (IsFor(Head(w), DataTypes, s) => ~open)
  \/ \E m \in Messages :
       v = Append(w, m) /\ ~IsFor(m, DataTypes, s) /\ ~IsFor(m, {"WINDOW"}, s)

QuietStream(s) ==
  /\ ch'[Source[s]][s].window = ch[Source[s]][s].window
  /\ ch'[Source[s]][s].rb = ch[Source[s]][s].rb
  /\ ch'[Sink(s)][s].rb = ch[Sink(s)][s].rb
  /\ ch'[Sink(s)][s].bytes_written = ch[Sink(s)][s].bytes_written
  /\ ch'[Sink(s)][s].fdh => ch[Sink(s)][s].fdh
  /\ ch'[Source[s]][TO_PEER].fdh => ch[Source[s]][TO_PEER].fdh
  /\ rd'[s] = rd[s] /\ out'[s] = out[s] /\ kept'[s] = kept[s]
  /\ QuietQueue(q[Source[s]], q'[Source[s]], s, ch[Sink(s)][s].fdh)
  /\ QuietQueue(q[Sink(s)], q'[Sink(s)], s, ch[Sink(s)][s].fdh)

(* The types of one stream's part of the state.                            *)
LEMMA StreamTypes ==
  ASSUME TypeOK, NEW s \in Streams
  PROVE  /\ q[Source[s]] \in Seq(Messages) /\ q[Sink(s)] \in Seq(Messages)
         /\ rd[s] \in Nat /\ out[s] \in Seq(Nat) /\ kept[s] \in Seq(Nat)
         /\ Len(out[s]) \in Nat /\ Len(kept[s]) \in Nat
         /\ ch[Source[s]][s].window \in Nat /\ ch[Source[s]][s].rb \in Nat
         /\ ch[Sink(s)][s].bytes_written \in Nat /\ ch[Sink(s)][s].rb \in Nat
         /\ Sent(s) \in Int /\ Got(s) \in Nat
         /\ ch[Source[s]][s].window + rd[s] \in Nat
         /\ StreamCap + Len(out[s]) - ch[Sink(s)][s].bytes_written \in Int
<1>1. ch[Source[s]][s] \in Channel /\ ch[Sink(s)][s] \in Channel
  BY StreamFacts DEF TypeOK
<1>2. rd[s] \in Nat /\ out[s] \in Seq(Nat) /\ kept[s] \in Seq(Nat)
  BY DEF TypeOK
<1>3. q[Source[s]] \in Seq(Messages) /\ q[Sink(s)] \in Seq(Messages)
  BY StreamFacts DEF TypeOK
<1>4. /\ ch[Source[s]][s].window \in Nat /\ ch[Source[s]][s].rb \in Nat
      /\ ch[Sink(s)][s].bytes_written \in Nat /\ ch[Sink(s)][s].rb \in Nat
  BY <1>1 DEF Channel
<1>5. Len(out[s]) \in Nat /\ Len(kept[s]) \in Nat
  BY <1>2
<1>6. Sent(s) \in Int /\ Got(s) \in Nat
  BY <1>2, <1>4, <1>5, SMTT(30) DEF Sent, Got
<1>7. /\ ch[Source[s]][s].window + rd[s] \in Nat
      /\ StreamCap + Len(out[s]) - ch[Sink(s)][s].bytes_written \in Int
  BY <1>2, <1>4, <1>5, ConstantFacts, SMTT(30)
<1>8. QED
  BY <1>2, <1>3, <1>4, <1>5, <1>6, <1>7, Zenon

(* A quiet step keeps the accounting of a stream.                          *)
LEMMA QuietStep ==
  ASSUME TypeOK, NEW s \in Streams, StreamInv(s), QuietStream(s)
  PROVE  StreamInv(s)'
<1> DEFINE p == Source[s]
           o == Sink(s)
           open == ch[Sink(s)][s].fdh
           from == ch[p][s].window + rd[s]
           upto == StreamCap + Len(out[s]) - ch[o][s].bytes_written
<1>1. Credit(s)' /\ Numbered(s)'
  <2>1. Credit(s) /\ Numbered(s)
    BY DEF StreamInv
  <2>2. Credit(s)'
    BY <2>1 DEF Credit, QuietStream, Sink
  <2>3. Numbered(s)'
    <3>1. out'[s] = out[s] /\ kept'[s] = kept[s] /\ ch'[o][s].rb = ch[o][s].rb
      BY DEF QuietStream
    <3>2. QED
      BY <2>1, <3>1, Zenon DEF Numbered, Sink
  <2>4. QED
    BY <2>2, <2>3
<1>2. Sent(s)' = Sent(s) /\ Got(s)' = Got(s)
  BY DEF QuietStream, Sent, Got, Sink
<1>3. /\ q[p] \in Seq(Messages) /\ q[o] \in Seq(Messages)
      /\ Sent(s) \in Int /\ Got(s) \in Int /\ from \in Int /\ upto \in Int
  BY StreamTypes
<1>4. QuietQueue(q[p], q'[p], s, open) /\ QuietQueue(q[o], q'[o], s, open)
  BY DEF QuietStream
<1>5. CreditInFlight(s)'
  <2>1. Ranged(q[o], {"WINDOW"}, s, from, upto)
    BY DEF StreamInv, CreditInFlight
  <2>2. Ranged(q'[o], {"WINDOW"}, s, from, upto)
    BY <1>3, <1>4, <2>1, RangedTail, RangedAppendOther DEF QuietQueue
  <2>3. QED
    BY <2>2 DEF CreditInFlight, QuietStream, Sink
<1>6. DataInFlight(s)'
  <2>1. Got(s) <= Sent(s) /\ Ranged(q[p], DataTypes, s, Got(s), Sent(s))
    BY DEF StreamInv, DataInFlight
  <2>2. Ranged(q'[p], DataTypes, s, Got(s), Sent(s))
    BY <1>3, <1>4, <2>1, RangedTail, RangedAppendOther DEF QuietQueue
  <2>3. QED
    BY <1>2, <2>1, <2>2 DEF DataInFlight
<1>7. Contiguous(s)'
  <2>1. SUFFICES ASSUME ch'[o][s].fdh
                 PROVE  /\ NoGap(q'[p], s, Got(s))
                        /\ ch'[p][TO_PEER].fdh =>
                             Sent(s) = Got(s) \/ EndsAt(q'[p], s, Len(q'[p]) + 1, Sent(s))
    BY <1>2 DEF Contiguous, Sink
  <2>2. open /\ (ch'[p][TO_PEER].fdh => ch[p][TO_PEER].fdh)
    BY <2>1 DEF QuietStream
  <2>3. /\ NoGap(q[p], s, Got(s))
        /\ ch[p][TO_PEER].fdh => Sent(s) = Got(s) \/ EndsAt(q[p], s, Len(q[p]) + 1, Sent(s))
    BY <2>2 DEF StreamInv, Contiguous
  <2>4. CASE q'[p] = q[p]
    BY <2>2, <2>3, <2>4
  <2>5. CASE q[p] # <<>> /\ q'[p] = Tail(q[p]) /\ ~IsFor(Head(q[p]), DataTypes, s)
    BY <1>3, <2>2, <2>3, <2>5, NoGapTailOther
  <2>6. CASE \E m \in Messages : q'[p] = Append(q[p], m) /\ ~IsFor(m, DataTypes, s)
    BY <1>3, <2>2, <2>3, <2>6, NoGapAppendOther
  <2>7. QED
    BY <1>4, <2>2, <2>4, <2>5, <2>6 DEF QuietQueue
<1>8. QED
  BY <1>1, <1>5, <1>6, <1>7 DEF StreamInv

----------------------------------------------------------------------------
(* The steps that move data or credit of a stream.                         *)

SameSource(s) ==
  /\ ch'[Source[s]][s].window = ch[Source[s]][s].window
  /\ ch'[Source[s]][s].rb = ch[Source[s]][s].rb /\ rd'[s] = rd[s]

SameSink(s) ==
  /\ ch'[Sink(s)][s].rb = ch[Sink(s)][s].rb
  /\ ch'[Sink(s)][s].bytes_written = ch[Sink(s)][s].bytes_written
  /\ out'[s] = out[s] /\ kept'[s] = kept[s]

(* No fd of the stream is opened.                                          *)
NoOpen(s) ==
  /\ ch'[Sink(s)][s].fdh => ch[Sink(s)][s].fdh
  /\ ch'[Source[s]][TO_PEER].fdh => ch[Source[s]][TO_PEER].fdh

(* The source reads n bytes within its window.                             *)
LEMMA SourceReads ==
  ASSUME TypeOK, NEW s \in Streams, StreamInv(s), SameSink(s), NoOpen(s), NEW n \in Nat,
         rd'[s] = rd[s] + n,
         ch'[Source[s]][s].window = ch[Source[s]][s].window - n,
         ch'[Source[s]][s].rb = ch[Source[s]][s].rb + n,
         q'[Source[s]] = q[Source[s]], q'[Sink(s)] = q[Sink(s)]
  PROVE  StreamInv(s)'
<1>0. /\ rd[s] \in Nat /\ ch[Source[s]][s].rb \in Nat
      /\ ch[Source[s]][s].window \in Nat
  BY StreamTypes
<1>1. Sent(s)' = Sent(s) /\ Got(s)' = Got(s)
  BY <1>0 DEF SameSink, Sent, Got, Sink
<1>2. ch'[Source[s]][s].window + rd'[s] = ch[Source[s]][s].window + rd[s]
  BY <1>0
<1>3. Credit(s)' /\ CreditInFlight(s)'
  BY <1>2 DEF StreamInv, Credit, CreditInFlight, SameSink, Sink
<1>4. DataInFlight(s)' /\ Contiguous(s)'
  BY <1>1 DEF StreamInv, DataInFlight, Contiguous, NoOpen, Sink
<1>5. Numbered(s)'
  <2>1. out'[s] = out[s] /\ kept'[s] = kept[s] /\ ch'[Sink(s)][s].rb = ch[Sink(s)][s].rb
    BY DEF SameSink
  <2>2. QED
    BY <2>1, Zenon DEF StreamInv, Numbered, Sink
<1>6. QED
  BY <1>3, <1>4, <1>5 DEF StreamInv

(* The source moves n bytes of its buffer into a message m, or, when its   *)
(* connection is closed, nowhere.                                          *)
LEMMA DataSent ==
  ASSUME TypeOK, NEW s \in Streams, StreamInv(s), SameSink(s), NoOpen(s),
         NEW m \in Messages, IsFor(m, DataTypes, s), m.pos = Sent(s),
         rd'[s] = rd[s],
         ch'[Source[s]][s].window = ch[Source[s]][s].window,
         ch'[Source[s]][s].rb = ch[Source[s]][s].rb - m.n,
         ch'[Source[s]][s].rb \in Nat,
         q'[Source[s]] = IF ch[Source[s]][TO_PEER].fdh THEN Append(q[Source[s]], m) ELSE q[Source[s]],
         q'[Sink(s)] = q[Sink(s)]
  PROVE  StreamInv(s)'
<1> DEFINE w == q[Source[s]]
<1>0. m.n \in Nat /\ m.pos \in Nat /\ rd[s] \in Nat /\ ch[Source[s]][s].rb \in Nat
  BY StreamTypes DEF Messages
<1>1. Sent(s)' = m.pos + m.n /\ Sent(s)' >= Sent(s) /\ Got(s)' = Got(s) /\ Sent(s)' \in Int
  BY <1>0 DEF SameSink, Sent, Got, Sink
<1>2. Credit(s)' /\ CreditInFlight(s)'
  BY DEF StreamInv, Credit, CreditInFlight, SameSink, Sink
<1>3. Numbered(s)'
  <2>1. out'[s] = out[s] /\ kept'[s] = kept[s] /\ ch'[Sink(s)][s].rb = ch[Sink(s)][s].rb
    BY DEF SameSink
  <2>2. QED
    BY <2>1, Zenon DEF StreamInv, Numbered, Sink
<1>4. w \in Seq(Messages) /\ Got(s) \in Int /\ Sent(s) \in Int
  BY StreamTypes
<1>5. Got(s) <= Sent(s) /\ Ranged(w, DataTypes, s, Got(s), Sent(s))
  BY DEF StreamInv, DataInFlight
<1>6. CASE ch[Source[s]][TO_PEER].fdh
  <2>1. q'[Source[s]] = Append(w, m)
    BY <1>6
  <2>2. Ranged(Append(w, m), DataTypes, s, Got(s), m.pos + m.n)
    BY <1>4, <1>5, RangedAppend
  <2>3. DataInFlight(s)'
    BY <1>1, <1>4, <1>5, <2>1, <2>2 DEF DataInFlight
  <2>4. ASSUME ch[Sink(s)][s].fdh
        PROVE  NoGap(Append(w, m), s, Got(s)) /\ EndsAt(Append(w, m), s, Len(Append(w, m)) + 1, m.pos + m.n)
    <3>1. NoGap(w, s, Got(s)) /\ (Sent(s) = Got(s) \/ EndsAt(w, s, Len(w) + 1, Sent(s)))
      BY <1>6, <2>4 DEF StreamInv, Contiguous
    <3>2. QED
      BY <1>4, <3>1, NoGapAppendData
  <2>5. Contiguous(s)'
    BY <1>1, <2>1, <2>4 DEF Contiguous, NoOpen, Sink
  <2>6. QED
    BY <1>2, <1>3, <2>3, <2>5 DEF StreamInv
<1>7. CASE ~ch[Source[s]][TO_PEER].fdh
  <2>1. q'[Source[s]] = w /\ ~ch'[Source[s]][TO_PEER].fdh
    BY <1>7 DEF NoOpen
  <2>2. Ranged(w, DataTypes, s, Got(s), Sent(s)')
    BY <1>1, <1>4, <1>5, RangedWeaken
  <2>3. DataInFlight(s)'
    BY <1>1, <1>4, <1>5, <2>1, <2>2 DEF DataInFlight
  <2>4. Contiguous(s)'
    BY <1>1, <2>1 DEF StreamInv, Contiguous, NoOpen, Sink
  <2>5. QED
    BY <1>2, <1>3, <2>3, <2>4 DEF StreamInv
<1>8. QED
  BY <1>6, <1>7

(* The sink announces the bytes it has written.                            *)
LEMMA CreditSent ==
  ASSUME TypeOK, NEW s \in Streams, StreamInv(s), SameSource(s), NoOpen(s),
         NEW m \in Messages, IsFor(m, {"WINDOW"}, s),
         m.n = ch[Sink(s)][s].bytes_written,
         m.pos = StreamCap + Len(out[s]) - ch[Sink(s)][s].bytes_written,
         ch'[Sink(s)][s].rb = ch[Sink(s)][s].rb, ch'[Sink(s)][s].bytes_written = 0,
         out'[s] = out[s], kept'[s] = kept[s],
         q'[Sink(s)] = IF ch[Sink(s)][TO_PEER].fdh THEN Append(q[Sink(s)], m) ELSE q[Sink(s)],
         q'[Source[s]] = q[Source[s]]
  PROVE  StreamInv(s)'
<1> DEFINE w == q[Sink(s)]
           from == ch[Source[s]][s].window + rd[s]
           all == StreamCap + Len(out[s])
<1>a. /\ w \in Seq(Messages) /\ from \in Int
      /\ Len(out[s]) \in Nat /\ ch[Sink(s)][s].bytes_written \in Nat
  BY StreamTypes
<1>b. m.pos \in Int /\ m.n \in Nat
  BY DEF Messages
<1>c. all \in Int /\ m.pos + m.n = all
  BY <1>a, <1>b, ConstantFacts
<1>0. /\ w \in Seq(Messages) /\ from \in Int /\ all \in Int /\ m.pos \in Int
      /\ m.n \in Nat /\ m.pos + m.n = all
  BY <1>a, <1>b, <1>c
<1>1. from <= m.pos /\ Ranged(w, {"WINDOW"}, s, from, m.pos)
  <2>1. from + m.n <= all
    BY DEF StreamInv, Credit
  <2>2. from <= m.pos
    BY <1>0, <2>1
  <2>3. QED
    BY <2>2 DEF StreamInv, CreditInFlight
<1>2. Ranged(q'[Sink(s)], {"WINDOW"}, s, from, all)
  <2>1. CASE ch[Sink(s)][TO_PEER].fdh
    BY <1>0, <1>1, <2>1, RangedAppend
  <2>2. CASE ~ch[Sink(s)][TO_PEER].fdh
    BY <1>0, <1>1, <2>2, RangedWeaken
  <2>3. QED
    BY <2>1, <2>2
<1>3. CreditInFlight(s)'
  <2>1. from' = from /\ StreamCap + Len(out'[s]) - ch'[Sink(s)][s].bytes_written = all
    BY <1>0 DEF SameSource
  <2>2. QED
    BY <1>2, <2>1 DEF CreditInFlight, SameSource, Sink
<1>4. Credit(s)'
  <2>1. from <= all
    BY <1>0, <1>1
  <2>2. from + 0 = from
    BY <1>0
  <2>3. QED
    BY <2>1, <2>2 DEF Credit, SameSource, Sink
<1>5. Sent(s)' = Sent(s) /\ Got(s)' = Got(s)
  BY DEF SameSource, Sent, Got, Sink
<1>6. DataInFlight(s)' /\ Contiguous(s)'
  BY <1>5 DEF StreamInv, DataInFlight, Contiguous, NoOpen, Sink
<1>7. Numbered(s)'
  BY Zenon DEF StreamInv, Numbered, Sink
<1>8. QED
  BY <1>3, <1>4, <1>6, <1>7 DEF StreamInv

(* The source receives the credit of the first message of the sink.        *)
LEMMA CreditArrives ==
  ASSUME TypeOK, NEW s \in Streams, StreamInv(s), SameSink(s), NoOpen(s),
         q[Sink(s)] # <<>>, IsFor(Head(q[Sink(s)]), {"WINDOW"}, s),
         ch'[Source[s]][s].window = ch[Source[s]][s].window + Head(q[Sink(s)]).n,
         ch'[Source[s]][s].rb = ch[Source[s]][s].rb, rd'[s] = rd[s],
         q'[Sink(s)] = Tail(q[Sink(s)]), q'[Source[s]] = q[Source[s]]
  PROVE  StreamInv(s)'
<1> DEFINE w == q[Sink(s)]
           m == Head(w)
           from == ch[Source[s]][s].window + rd[s]
           upto == StreamCap + Len(out[s]) - ch[Sink(s)][s].bytes_written
<1>a. w \in Seq(Messages) /\ from \in Int /\ upto \in Int
  BY StreamTypes
<1>b. m \in Messages /\ Tail(w) \in Seq(Messages)
  BY <1>a
<1>0. /\ rd[s] \in Nat /\ ch[Source[s]][s].window \in Nat
      /\ ch[Sink(s)][s].bytes_written \in Nat /\ Len(out[s]) \in Nat
  BY StreamTypes
<1>1. m.pos \in Nat /\ m.n \in Nat
  BY <1>b DEF Messages
<1>2. Ranged(w, {"WINDOW"}, s, from, upto)
  BY DEF StreamInv, CreditInFlight
<1>3. from <= m.pos /\ m.pos + m.n <= upto /\ Ranged(Tail(w), {"WINDOW"}, s, m.pos + m.n, upto)
  BY <1>a, <1>2, RangedTail
<1>c. from <= m.pos /\ m.pos + m.n <= upto
  BY <1>3
<1>4. from' = from + m.n
  BY <1>0, <1>1
<1>5. Ranged(Tail(w), {"WINDOW"}, s, from + m.n, upto)
  <2>1. /\ from + m.n \in Int /\ m.pos + m.n \in Int /\ from + m.n <= m.pos + m.n
        /\ upto <= upto
    BY <1>a, <1>1, <1>c
  <2>2. QED
    BY <1>a, <1>b, <1>3, <2>1, RangedWeaken, Zenon
<1>6. CreditInFlight(s)'
  BY <1>4, <1>5 DEF CreditInFlight, SameSink, Sink
<1>7. Credit(s)'
  <2>1. from + m.n <= upto
    BY <1>a, <1>1, <1>c
  <2>2. from + m.n + ch[Sink(s)][s].bytes_written <= StreamCap + Len(out[s])
    BY <1>0, <1>1, <2>1, ConstantFacts, SMTT(30)
  <2>3. QED
    BY <1>4, <2>2 DEF Credit, SameSink, Sink
<1>8. Sent(s)' = Sent(s) /\ Got(s)' = Got(s)
  BY DEF SameSink, Sent, Got, Sink
<1>9. DataInFlight(s)' /\ Contiguous(s)'
  BY <1>8 DEF StreamInv, DataInFlight, Contiguous, NoOpen, Sink
<1>10. Numbered(s)'
  <2>1. out'[s] = out[s] /\ kept'[s] = kept[s] /\ ch'[Sink(s)][s].rb = ch[Sink(s)][s].rb
    BY DEF SameSink
  <2>2. QED
    BY <2>1, Zenon DEF StreamInv, Numbered, Sink
<1>11. QED
  BY <1>6, <1>7, <1>9, <1>10 DEF StreamInv

(* Bytes(lo, n) is the sequence lo + 1, ..., lo + n.                       *)
LEMMA BytesFacts ==
  ASSUME NEW lo \in Nat, NEW n \in Nat
  PROVE  /\ Bytes(lo, n) \in Seq(Nat) /\ Len(Bytes(lo, n)) = n
         /\ NumberedFrom(lo, Bytes(lo, n))
BY DEF Bytes, NumberedFrom

(* Two numbered sequences, the second starting where the first ends.       *)
LEMMA ConcatNumbered ==
  ASSUME NEW base \in Nat, NEW a \in Seq(Nat), NEW b \in Seq(Nat),
         NumberedFrom(base, a), NumberedFrom(base + Len(a), b)
  PROVE  /\ a \o b \in Seq(Nat) /\ Len(a \o b) = Len(a) + Len(b)
         /\ NumberedFrom(base, a \o b)
<1>1. /\ a \o b \in Seq(Nat) /\ Len(a \o b) = Len(a) + Len(b)
      /\ \A i \in 1 .. Len(a) + Len(b) : (a \o b)[i] = IF i <= Len(a) THEN a[i] ELSE b[i - Len(a)]
  BY ConcatProperties
<1>2. Len(a) \in Nat /\ Len(b) \in Nat
  OBVIOUS
<1>3. ASSUME NEW i \in 1 .. Len(a) + Len(b) PROVE (a \o b)[i] = base + i
  <2>1. CASE i <= Len(a)
    BY <1>1, <1>2, <2>1 DEF NumberedFrom
  <2>2. CASE ~(i <= Len(a))
    <3>1. i - Len(a) \in 1 .. Len(b) /\ base + Len(a) + (i - Len(a)) = base + i
      BY <1>2, <2>2
    <3>2. b[i - Len(a)] = base + Len(a) + (i - Len(a))
      BY <3>1 DEF NumberedFrom
    <3>3. QED
      BY <1>1, <2>2, <3>1, <3>2
  <2>3. QED
    BY <2>1, <2>2
<1>4. QED
  BY <1>1, <1>3 DEF NumberedFrom

(* o and k, the bytes written and the bytes held, are numbered.            *)
NumberedPair(o, k) ==
  o \in Seq(Nat) /\ k \in Seq(Nat) /\ NumberedFrom(0, o) /\ NumberedFrom(Len(o), k)

(* A payload that goes where o and k end, of which d bytes are written     *)
(* directly and e bytes are kept: d is 0 unless nothing is held.           *)
Payload(o, k, pos, d, e) ==
  /\ pos \in Nat /\ d \in Nat /\ e \in Nat
  /\ pos = Len(o) + Len(k) /\ (d > 0 => Len(k) = 0)

PayloadStored(o, k, pos, d, e) ==
  /\ NumberedPair(o \o Bytes(pos, d), k \o Bytes(pos + d, e))
  /\ Len(o \o Bytes(pos, d)) = Len(o) + d
  /\ Len(k \o Bytes(pos + d, e)) = Len(k) + e

(* A payload keeps what was written and what is held numbered.             *)
LEMMA NumberedReceive ==
  ASSUME NEW o, NEW k, NEW pos, NEW d, NEW e, NumberedPair(o, k), Payload(o, k, pos, d, e)
  PROVE  PayloadStored(o, k, pos, d, e)
<1>a. /\ o \in Seq(Nat) /\ k \in Seq(Nat) /\ pos \in Nat /\ d \in Nat /\ e \in Nat
      /\ (d > 0 => Len(k) = 0) /\ pos = Len(o) + Len(k)
  BY DEF NumberedPair, Payload
<1>b. NumberedFrom(0, o) /\ NumberedFrom(Len(o), k)
  BY DEF NumberedPair
<1>1. Len(o) \in Nat /\ Len(k) \in Nat /\ pos + d \in Nat
  BY <1>a
<1>2. /\ Bytes(pos, d) \in Seq(Nat) /\ Len(Bytes(pos, d)) = d /\ NumberedFrom(pos, Bytes(pos, d))
      /\ Bytes(pos + d, e) \in Seq(Nat) /\ Len(Bytes(pos + d, e)) = e
      /\ NumberedFrom(pos + d, Bytes(pos + d, e))
  BY <1>a, <1>1, BytesFacts
<1>3. NumberedFrom(0 + Len(o), Bytes(pos, d))
  <2>1. CASE d = 0
    BY <1>2, <2>1 DEF NumberedFrom
  <2>2. CASE d > 0
    <3>1. pos = 0 + Len(o)
      BY <1>a, <1>1, <2>2
    <3>2. QED
      BY <1>2, <3>1
  <2>3. QED
    BY <1>a, <2>1, <2>2
<1>4. NumberedFrom(Len(o) + d, k)
  <2>1. CASE d = 0
    <3>1. Len(o) + d = Len(o)
      BY <1>1, <2>1
    <3>2. QED
      BY <1>b, <3>1
  <2>2. CASE d > 0
    BY <1>a, <2>2 DEF NumberedFrom
  <2>3. QED
    BY <1>a, <2>1, <2>2
<1>5. Len(o) + d + Len(k) = pos + d /\ Len(o) + d \in Nat /\ 0 \in Nat
  BY <1>a, <1>1
<1>6. NumberedFrom(Len(o) + d + Len(k), Bytes(pos + d, e))
  BY <1>2, <1>5
<1>7. /\ o \o Bytes(pos, d) \in Seq(Nat) /\ NumberedFrom(0, o \o Bytes(pos, d))
      /\ Len(o \o Bytes(pos, d)) = Len(o) + Len(Bytes(pos, d))
  BY <1>a, <1>b, <1>2, <1>3, <1>5, ConcatNumbered, Zenon
<1>8. /\ k \o Bytes(pos + d, e) \in Seq(Nat)
      /\ NumberedFrom(Len(o) + d, k \o Bytes(pos + d, e))
      /\ Len(k \o Bytes(pos + d, e)) = Len(k) + Len(Bytes(pos + d, e))
  BY <1>a, <1>2, <1>4, <1>5, <1>6, ConcatNumbered, ZenonT(30)
<1>9. QED
  BY <1>2, <1>7, <1>8, Zenon DEF PayloadStored, NumberedPair

Drained(o, k, n) ==
  /\ NumberedPair(o \o SubSeq(k, 1, n), SubSeq(k, n + 1, Len(k)))
  /\ Len(o \o SubSeq(k, 1, n)) = Len(o) + n
  /\ Len(SubSeq(k, n + 1, Len(k))) = Len(k) - n

(* Writing the first n buffered bytes keeps out and kept numbered.         *)
LEMMA NumberedWrite ==
  ASSUME NEW o, NEW k, NumberedPair(o, k), NEW n \in 1 .. Len(k)
  PROVE  Drained(o, k, n)
<1>a. o \in Seq(Nat) /\ k \in Seq(Nat)
  BY DEF NumberedPair
<1>b. NumberedFrom(0, o) /\ NumberedFrom(Len(o), k)
  BY DEF NumberedPair
<1>1. Len(o) \in Nat /\ Len(k) \in Nat /\ n \in Nat /\ 0 + Len(o) = Len(o)
  BY <1>a
<1>2. /\ SubSeq(k, 1, n) \in Seq(Nat) /\ Len(SubSeq(k, 1, n)) = n
      /\ \A i \in 1 .. n : SubSeq(k, 1, n)[i] = k[i]
  BY <1>a, <1>1
<1>3. /\ SubSeq(k, n + 1, Len(k)) \in Seq(Nat) /\ Len(SubSeq(k, n + 1, Len(k))) = Len(k) - n
      /\ \A i \in 1 .. Len(k) - n : SubSeq(k, n + 1, Len(k))[i] = k[n + i]
  BY <1>a, <1>1
<1>4. NumberedFrom(0 + Len(o), SubSeq(k, 1, n))
  BY <1>a, <1>b, <1>1, <1>2 DEF NumberedFrom
<1>5. NumberedFrom(Len(o) + n, SubSeq(k, n + 1, Len(k)))
  BY <1>a, <1>b, <1>1, <1>3 DEF NumberedFrom
<1>6. 0 \in Nat
  OBVIOUS
<1>7. /\ o \o SubSeq(k, 1, n) \in Seq(Nat)
      /\ Len(o \o SubSeq(k, 1, n)) = Len(o) + Len(SubSeq(k, 1, n))
      /\ NumberedFrom(0, o \o SubSeq(k, 1, n))
  BY <1>a, <1>b, <1>2, <1>4, <1>6, ConcatNumbered, Zenon
<1>8. QED
  BY <1>2, <1>3, <1>5, <1>7, Zenon DEF Drained, NumberedPair

(* d bytes move from the buffered to the written side of the accounting.   *)
LEMMA Shift ==
  ASSUME NEW a \in Nat, NEW b \in Nat, NEW c \in Nat, NEW e \in Nat, NEW d \in Nat
  PROVE  /\ a + b <= c + e => a + (b + d) <= c + (e + d)
         /\ c + (e + d) - (b + d) = c + e - b
OBVIOUS

(* A message within the credit fits the sink's buffer.                     *)
LEMMA Fits ==
  ASSUME NEW pos \in Nat, NEW n \in Nat, NEW written \in Nat, NEW held \in Nat,
         NEW read \in Nat, NEW unsent \in Nat, NEW win \in Nat, NEW bw \in Nat, NEW cap \in Nat,
         written + held <= pos, pos + n <= read - unsent, win + read + bw <= cap + written
  PROVE  held + n <= cap
OBVIOUS

(* A window and its sink's write counter are within the sink's capacity.   *)
LEMMA WindowBound ==
  ASSUME NEW written \in Nat, NEW held \in Nat, NEW read \in Nat, NEW unsent \in Nat,
         NEW win \in Nat, NEW bw \in Nat, NEW cap \in Nat,
         written + held <= read - unsent, win + read + bw <= cap + written
  PROVE  win + bw <= cap
OBVIOUS

(* A window message keeps the window within the sink's capacity.           *)
LEMMA CreditFits ==
  ASSUME NEW pos \in Nat, NEW n \in Nat, NEW written \in Nat, NEW held \in Nat,
         NEW read \in Nat, NEW unsent \in Nat, NEW win \in Nat, NEW bw \in Nat, NEW cap \in Nat,
         win + read <= pos, pos + n <= cap + written - bw, written + held <= read - unsent
  PROVE  win + n <= cap
OBVIOUS

(* The first data message of the source fits the sink's buffer, and goes   *)
(* where what the sink has ends.                                           *)
LEMMA FirstData ==
  ASSUME TypeOK, NEW s \in Streams, StreamInv(s),
         q[Source[s]] # <<>>, IsFor(Head(q[Source[s]]), DataTypes, s)
  PROVE  LET m == Head(q[Source[s]])
         IN  /\ m.pos \in Nat /\ m.n \in Nat
             /\ ch[Sink(s)][s].rb + m.n <= StreamCap
             /\ ch[Sink(s)][s].fdh => m.pos = Got(s)
<1> DEFINE w == q[Source[s]]
           m == Head(w)
<1>1. w \in Seq(Messages)
  BY StreamTypes
<1>2. m \in Messages
  BY <1>1
<1>3. m.pos \in Nat /\ m.n \in Nat
  BY <1>2 DEF Messages
<1>4. Sent(s) \in Int /\ Got(s) \in Int
  BY StreamTypes
<1>5. Ranged(w, DataTypes, s, Got(s), Sent(s))
  BY DEF StreamInv, DataInFlight
<1>6. Got(s) <= m.pos /\ m.pos + m.n <= Sent(s)
  BY <1>1, <1>4, <1>5, RangedTail
<1>7. ASSUME ch[Sink(s)][s].fdh PROVE m.pos = Got(s)
  <2>1. NoGap(w, s, Got(s))
    BY <1>7 DEF StreamInv, Contiguous
  <2>2. QED
    BY <1>1, <1>4, <1>5, <2>1, NoGapTailData
<1>8. ch[Sink(s)][s].rb + m.n <= StreamCap
  <2>1. /\ Len(out[s]) \in Nat /\ rd[s] \in Nat
        /\ ch[Sink(s)][s].rb \in Nat /\ ch[Sink(s)][s].bytes_written \in Nat
        /\ ch[Source[s]][s].window \in Nat /\ ch[Source[s]][s].rb \in Nat
    BY StreamTypes
  <2>2. Got(s) = Len(out[s]) + ch[Sink(s)][s].rb /\ Sent(s) = rd[s] - ch[Source[s]][s].rb
    BY DEF Got, Sent
  <2>3. ch[Source[s]][s].window + rd[s] + ch[Sink(s)][s].bytes_written <= StreamCap + Len(out[s])
    BY DEF StreamInv, Credit
  <2>4. StreamCap \in Nat
    BY ConstantFacts
  <2>5. /\ Len(out[s]) + ch[Sink(s)][s].rb <= m.pos
        /\ m.pos + m.n <= rd[s] - ch[Source[s]][s].rb
    BY <1>6, <2>2
  <2>6. QED
    BY <1>3, <2>1, <2>3, <2>4, <2>5, Fits, Zenon
<1>9. QED
  BY <1>3, <1>7, <1>8

(* The sink receives the first data message of the source and writes d of  *)
(* its bytes directly.                                                     *)
LEMMA DataArrives ==
  ASSUME TypeOK, NEW s \in Streams, StreamInv(s), SameSource(s), NoOpen(s),
         ch[Sink(s)][s].fdh,
         q[Source[s]] # <<>>, IsFor(Head(q[Source[s]]), DataTypes, s),
         NEW n \in Nat, n = Head(q[Source[s]]).n, NEW d \in Nat,
         ch'[Sink(s)][s].rb = ch[Sink(s)][s].rb + (n - d),
         ch'[Sink(s)][s].bytes_written = ch[Sink(s)][s].bytes_written + d,
         Len(out'[s]) = Len(out[s]) + d, Numbered(s)',
         q'[Source[s]] = Tail(q[Source[s]]), q'[Sink(s)] = q[Sink(s)]
  PROVE  StreamInv(s)'
<1> DEFINE w == q[Source[s]]
           m == Head(w)
<1>1. w \in Seq(Messages) /\ Sent(s) \in Int /\ Got(s) \in Int
  BY StreamTypes
<1>2. m.pos \in Nat /\ m.pos = Got(s)
  BY FirstData
<1>3. /\ Len(out[s]) \in Nat /\ rd[s] \in Nat
      /\ ch[Sink(s)][s].rb \in Nat /\ ch[Sink(s)][s].bytes_written \in Nat
      /\ ch[Source[s]][s].window \in Nat
  BY StreamTypes
<1>4. Ranged(w, DataTypes, s, Got(s), Sent(s))
  BY DEF StreamInv, DataInFlight
<1>5. /\ NoGap(w, s, Got(s))
      /\ ch[Source[s]][TO_PEER].fdh => Sent(s) = Got(s) \/ EndsAt(w, s, Len(w) + 1, Sent(s))
  BY DEF StreamInv, Contiguous
<1>6. /\ NoGap(Tail(w), s, Got(s) + n)
      /\ Sent(s) = Got(s) \/ EndsAt(w, s, Len(w) + 1, Sent(s)) =>
           Sent(s) = Got(s) + n \/ EndsAt(Tail(w), s, Len(Tail(w)) + 1, Sent(s))
  BY <1>1, <1>4, <1>5, NoGapTailData
<1>7. m.pos + n <= Sent(s) /\ Ranged(Tail(w), DataTypes, s, m.pos + n, Sent(s))
  BY <1>1, <1>4, RangedTail
<1>8. Got(s) + n <= Sent(s) /\ Ranged(Tail(w), DataTypes, s, Got(s) + n, Sent(s))
  BY <1>2, <1>7
<1>9. Got(s)' = Got(s) + n /\ Sent(s)' = Sent(s)
  <2>2. Got(s)' = Len(out[s]) + d + (ch[Sink(s)][s].rb + (n - d))
    BY DEF Got, Sink
  <2>3. Len(out[s]) + d + (ch[Sink(s)][s].rb + (n - d)) = Len(out[s]) + ch[Sink(s)][s].rb + n
    BY <1>3, SMTT(60)
  <2>4. QED
    BY <2>2, <2>3 DEF Got, Sent, SameSource, Sink
<1>10. DataInFlight(s)'
  BY <1>8, <1>9 DEF DataInFlight
<1>11. Contiguous(s)'
  BY <1>5, <1>6, <1>9 DEF Contiguous, NoOpen, Sink
<1>12. Credit(s)'
  <2>1. ch[Source[s]][s].window + rd[s] + ch[Sink(s)][s].bytes_written <= StreamCap + Len(out[s])
    BY DEF StreamInv, Credit
  <2>2. /\ StreamCap \in Nat /\ ch[Source[s]][s].window + rd[s] \in Nat
        /\ ch[Sink(s)][s].bytes_written \in Nat /\ Len(out[s]) \in Nat
    BY StreamTypes, ConstantFacts
  <2>3. ch[Source[s]][s].window + rd[s] + (ch[Sink(s)][s].bytes_written + d) <= StreamCap + (Len(out[s]) + d)
    BY <2>1, <2>2, Shift, Zenon
  <2>4. QED
    BY <2>3 DEF Credit, SameSource, Sink
<1>13. CreditInFlight(s)'
  <2>1. StreamCap + (Len(out[s]) + d) - (ch[Sink(s)][s].bytes_written + d)
          = StreamCap + Len(out[s]) - ch[Sink(s)][s].bytes_written
    BY <1>3, ConstantFacts
  <2>2. QED
    BY <2>1 DEF StreamInv, CreditInFlight, SameSource, Sink
<1>14. QED
  BY <1>10, <1>11, <1>12, <1>13 DEF StreamInv

(* The sink writes n buffered bytes.                                       *)
LEMMA SinkWrites ==
  ASSUME TypeOK, NEW s \in Streams, StreamInv(s), SameSource(s), NoOpen(s), NEW n \in Nat,
         ch'[Sink(s)][s].rb = ch[Sink(s)][s].rb - n,
         ch'[Sink(s)][s].bytes_written = ch[Sink(s)][s].bytes_written + n,
         Len(out'[s]) = Len(out[s]) + n, Numbered(s)',
         q'[Source[s]] = q[Source[s]], q'[Sink(s)] = q[Sink(s)]
  PROVE  StreamInv(s)'
<1>1. /\ Len(out[s]) \in Nat /\ rd[s] \in Nat
      /\ ch[Sink(s)][s].rb \in Nat /\ ch[Sink(s)][s].bytes_written \in Nat
      /\ ch[Source[s]][s].window \in Nat
  BY StreamTypes
<1>2. Got(s)' = Got(s) /\ Sent(s)' = Sent(s)
  BY <1>1 DEF Got, Sent, SameSource, Sink
<1>3. DataInFlight(s)' /\ Contiguous(s)'
  BY <1>2 DEF StreamInv, DataInFlight, Contiguous, NoOpen, Sink
<1>4. Credit(s)'
  <2>1. ch[Source[s]][s].window + rd[s] + ch[Sink(s)][s].bytes_written <= StreamCap + Len(out[s])
    BY DEF StreamInv, Credit
  <2>2. /\ StreamCap \in Nat /\ ch[Source[s]][s].window + rd[s] \in Nat
        /\ ch[Sink(s)][s].bytes_written \in Nat /\ Len(out[s]) \in Nat
    BY StreamTypes, ConstantFacts
  <2>3. ch[Source[s]][s].window + rd[s] + (ch[Sink(s)][s].bytes_written + n) <= StreamCap + (Len(out[s]) + n)
    BY <2>1, <2>2, Shift, Zenon
  <2>4. QED
    BY <2>3 DEF Credit, SameSource, Sink
<1>5. CreditInFlight(s)'
  <2>1. StreamCap + (Len(out[s]) + n) - (ch[Sink(s)][s].bytes_written + n)
          = StreamCap + Len(out[s]) - ch[Sink(s)][s].bytes_written
    BY <1>1, ConstantFacts, SMTT(30)
  <2>2. QED
    BY <2>1 DEF StreamInv, CreditInFlight, SameSource, Sink
<1>6. QED
  BY <1>3, <1>4, <1>5 DEF StreamInv

(* The sink's fd fails: what it held is purged and it is closed.           *)
LEMMA SinkFails ==
  ASSUME TypeOK, NEW s \in Streams, StreamInv(s), SameSource(s), NoOpen(s),
         ch'[Sink(s)][s].rb = 0, ~ch'[Sink(s)][s].fdh,
         ch'[Sink(s)][s].bytes_written = ch[Sink(s)][s].bytes_written,
         out'[s] = out[s], kept'[s] = <<>>,
         q'[Source[s]] = q[Source[s]], q'[Sink(s)] = q[Sink(s)]
  PROVE  StreamInv(s)'
<1>1. /\ q[Source[s]] \in Seq(Messages) /\ Sent(s) \in Int /\ Got(s) \in Int
      /\ Len(out[s]) \in Nat /\ ch[Sink(s)][s].rb \in Nat
  BY StreamTypes
<1>2. Len(out[s]) \in Nat /\ ch[Sink(s)][s].rb \in Nat
  BY <1>1
<1>3. Sent(s)' = Sent(s) /\ Got(s)' \in Int /\ Got(s)' <= Got(s)
  BY <1>2 DEF Got, Sent, SameSource, Sink
<1>4. Credit(s)' /\ CreditInFlight(s)'
  BY DEF StreamInv, Credit, CreditInFlight, SameSource, Sink
<1>5. Contiguous(s)'
  BY DEF Contiguous, Sink
<1>6. DataInFlight(s)'
  <2>1. Got(s) <= Sent(s) /\ Ranged(q[Source[s]], DataTypes, s, Got(s), Sent(s))
    BY DEF StreamInv, DataInFlight
  <2>2. Ranged(q[Source[s]], DataTypes, s, Got(s)', Sent(s))
    BY <1>1, <1>3, <2>1, RangedWeaken
  <2>3. Got(s)' <= Sent(s)
    BY <1>1, <1>3, <2>1
  <2>4. QED
    BY <1>3, <2>2, <2>3 DEF DataInFlight
<1>7. Numbered(s)'
  <2>1. NumberedFrom(0, out'[s]) /\ NumberedFrom(Len(out'[s]), <<>>)
    BY DEF StreamInv, Numbered, NumberedFrom
  <2>2. QED
    BY <2>1 DEF Numbered, Sink
<1>8. QED
  BY <1>4, <1>5, <1>6, <1>7 DEF StreamInv

----------------------------------------------------------------------------
(* Actions that move no data and no credit.                                *)

QuietChannels ==
  /\ ch' \in [Peers -> [Chans -> Channel]]
  /\ \A z \in Peers, x \in Chans :
       /\ ch'[z][x].window = ch[z][x].window
       /\ ch'[z][x].bytes_written = ch[z][x].bytes_written
       /\ ch'[z][x].fdh => ch[z][x].fdh
       /\ ch'[z][x].rb <= Cap(x)
       /\ x \in Streams => ch'[z][x].rb = ch[z][x].rb

GoodQueues ==
  /\ q \in [Peers -> Seq(Messages)]
  /\ \A z \in Peers : \A i \in 1 .. Len(q[z]) : Sendable(z, q[z][i])

QuietQueues ==
  /\ GoodQueues'
  /\ \A z \in Peers, s \in Streams : QuietQueue(q[z], q'[z], s, ch[Sink(s)][s].fdh)

OtherTypes ==
  /\ wire \in [Peers -> Nat] /\ stage \in [Peers -> Stages]
  /\ todo \in [Peers -> SUBSET Chans] /\ cut \in BOOLEAN

(* The invariant after a quiet action.                                     *)
LEMMA QuietAction ==
  ASSUME IInv, QuietChannels, QuietQueues, OtherTypes',
         UNCHANGED <<rd, kept, out, failed>>
  PROVE  IInv'
<1>1. TypeOK'
  BY DEF IInv, TypeOK, QuietChannels, QuietQueues, GoodQueues, OtherTypes
<1>2. NoProtocolError'
  BY DEF IInv, NoProtocolError
<1>3. Buffers'
  BY DEF IInv, FlowControl, Buffers, QuietChannels, Cap
<1>4. ASSUME NEW s \in Streams PROVE StreamInv(s)'
  <2>1. QuietStream(s)
    BY StreamFacts, PeerChannelFacts DEF QuietStream, QuietChannels, QuietQueues
  <2>2. QED
    BY <2>1, QuietStep DEF IInv, FlowControl
<1>5. QED
  BY <1>1, <1>2, <1>3, <1>4 DEF IInv, FlowControl, QuietQueues, GoodQueues

(* Queues that do not change.                                              *)
LEMMA SameQueues ==
  ASSUME IInv, UNCHANGED q
  PROVE  QuietQueues
BY DEF IInv, TypeOK, FlowControl, QuietQueues, GoodQueues, QuietQueue

(* Channels that do not change.                                            *)
LEMMA SameChannels ==
  ASSUME IInv, UNCHANGED ch
  PROVE  QuietChannels
BY DEF IInv, TypeOK, FlowControl, Buffers, QuietChannels

(* Steps that change neither channels nor queues.                          *)
LEMMA StutterAction ==
  ASSUME IInv, UNCHANGED <<ch, q, rd, kept, out, failed>>, OtherTypes'
  PROVE  IInv'
BY SameQueues, SameChannels, QuietAction

(* channel_close keeps what the channel holds and opens nothing.           *)
LEMMA ClosedFacts ==
  ASSUME NEW p, NEW c, NEW r \in Channel
  PROVE  /\ Closed(p, c, r) \in Channel
         /\ Closed(p, c, r).rb = r.rb /\ Closed(p, c, r).window = r.window
         /\ Closed(p, c, r).bytes_written = r.bytes_written
         /\ Closed(p, c, r).fdh => r.fdh /\ ~FromFd(p, c) /\ r.rb # 0
BY DEF Closed, Channel

(* A fatal error purges what was to be written.                            *)
LEMMA ErroredFacts ==
  ASSUME NEW p, NEW c, NEW r \in Channel
  PROVE  /\ Errored(p, c, r) \in Channel
         /\ Errored(p, c, r).window = r.window
         /\ Errored(p, c, r).bytes_written = r.bytes_written
         /\ ~Errored(p, c, r).fdh
         /\ Errored(p, c, r).rb = IF FromFd(p, c) THEN r.rb ELSE 0
<1> DEFINE e == [r EXCEPT !.rb = IF FromFd(p, c) THEN @ ELSE 0, !.err = TRUE]
<1>1. /\ e \in Channel /\ e.window = r.window /\ e.bytes_written = r.bytes_written
      /\ e.rb = IF FromFd(p, c) THEN r.rb ELSE 0
  BY DEF Channel
<1>2. Errored(p, c, r) = Closed(p, c, e)
  BY DEF Errored
<1> HIDE DEF e
<1>3. QED
  BY <1>1, <1>2, ClosedFacts

(* One channel of one process changes.                                     *)
LEMMA OneChannel ==
  ASSUME ch \in [Peers -> [Chans -> Channel]], NEW p \in Peers, NEW c \in Chans,
         NEW r \in Channel, ch' = [ch EXCEPT ![p][c] = r]
  PROVE  /\ ch' \in [Peers -> [Chans -> Channel]]
         /\ \A z \in Peers, x \in Chans : ch'[z][x] = IF z = p /\ x = c THEN r ELSE ch[z][x]
OBVIOUS

(* A quiet change of one channel.                                          *)
LEMMA OneQuietChannel ==
  ASSUME IInv, NEW p \in Peers, NEW c \in Chans,
         NEW r \in Channel, ch' = [ch EXCEPT ![p][c] = r],
         r.window = ch[p][c].window, r.bytes_written = ch[p][c].bytes_written,
         r.fdh => ch[p][c].fdh, r.rb <= Cap(c), c \in Streams => r.rb = ch[p][c].rb
  PROVE  QuietChannels
BY OneChannel DEF IInv, TypeOK, FlowControl, Buffers, QuietChannels

----------------------------------------------------------------------------
(* io_loop_do_io and the peer connection.                                  *)

(* io_loop_pump returns.                                                   *)
LEMMA PumpReturnsStep ==
  ASSUME IInv, NEW p \in Peers, PumpReturns(p)
  PROVE  IInv'
BY StutterAction DEF IInv, TypeOK, OtherTypes, PumpReturns, Stages

(* poll reports what is ready.                                             *)
LEMMA PollStep ==
  ASSUME IInv, NEW p \in Peers, Poll(p)
  PROVE  IInv'
<1>1. PICK r \in Revents(p) : todo' = [todo EXCEPT ![p] = r]
  BY DEF Poll
<1>2. r \subseteq Chans
  BY StreamFacts DEF Revents, Wanted
<1>3. QED
  BY <1>1, <1>2, StutterAction DEF IInv, TypeOK, OtherTypes, Poll, Stages

(* poll reports nothing.                                                   *)
LEMMA PollNothingStep ==
  ASSUME IInv, NEW p \in Peers, PollNothing(p)
  PROVE  IInv'
BY StutterAction DEF IInv, TypeOK, OtherTypes, PollNothing, Stages

(* A process ends.                                                         *)
LEMMA ExitStep ==
  ASSUME IInv, NEW p \in Peers, Exit(p)
  PROVE  IInv'
<1>1. wire' \in [Peers -> Nat]
  BY DEF IInv, TypeOK, Exit
<1>2. QED
  BY <1>1, StutterAction DEF IInv, TypeOK, OtherTypes, Exit, Stages

(* The connection is lost.                                                 *)
LEMMA LoseConnectionStep ==
  ASSUME IInv, LoseConnection
  PROVE  IInv'
<1>1. wire' \in [Peers -> Nat]
  BY ConstantFacts DEF LoseConnection
<1>2. QED
  BY <1>1, StutterAction DEF IInv, TypeOK, OtherTypes, LoseConnection, Stages

(* channel_poll of one channel leaves the control state well typed.        *)
LEMMA PolledTypes ==
  ASSUME TypeOK, NEW p \in Peers, NEW c, Polled(p, c)
  PROVE  stage' \in [Peers -> Stages] /\ todo' \in [Peers -> SUBSET Chans] /\ cut' \in BOOLEAN
BY DEF TypeOK, Polled, Stages

(* A temporary error.                                                      *)
LEMMA TemporaryStep ==
  ASSUME IInv, NEW p \in Peers, Temporary(p)
  PROVE  IInv'
<1>1. PICK c \in Chans : Polled(p, c)
  BY DEF Temporary
<1>2. stage' \in [Peers -> Stages] /\ todo' \in [Peers -> SUBSET Chans] /\ cut' \in BOOLEAN
  BY <1>1, PolledTypes DEF IInv
<1>3. QED
  BY <1>1, <1>2, StutterAction DEF IInv, TypeOK, OtherTypes, Polled, Temporary

(* The bound on a read: the room in the buffer.                            *)
LEMMA WantedReadFacts ==
  ASSUME IInv, NEW p \in Peers, NEW c \in Chans
  PROVE  /\ ch[p][c] \in Channel /\ ch[p][c].rb \in Nat /\ ch[p][c].window \in Nat
         /\ Cap(c) \in Nat /\ ch[p][c].rb <= Cap(c)
         /\ \A n \in 1 .. WantedReadSz(p, c) :
              /\ n <= ch[p][c].window /\ ch[p][c].rb + n <= Cap(c)
              /\ FromFd(p, c) /\ ch[p][c].fdh
<1>1. ch[p][c] \in Channel /\ Cap(c) \in Nat /\ ch[p][c].rb <= Cap(c)
  BY ConstantFacts DEF IInv, TypeOK, FlowControl, Buffers
<1>2. ch[p][c].rb \in Nat /\ ch[p][c].window \in Nat
  BY <1>1 DEF Channel
<1>3. QED
  BY <1>1, <1>2 DEF WantedReadSz, Room, MinOf

(* The bound on a write: what the buffer holds.                            *)
LEMMA WantedWriteFacts ==
  ASSUME IInv, NEW p \in Peers, NEW c \in Chans
  PROVE  \A n \in 1 .. WantedWriteSz(p, c) :
           /\ n <= ch[p][c].rb /\ ~FromFd(p, c) /\ ch[p][c].fdh
<1>1. ch[p][c] \in Channel
  BY DEF IInv, TypeOK
<1>2. ch[p][c].rb \in Nat /\ ch[p][c].bytes_written \in Nat /\ U32Max \in Nat
  BY <1>1, ConstantFacts DEF Channel
<1>3. QED
  BY <1>2 DEF WantedWriteSz, MinOf

(* A read from the connection.                                             *)
LEMMA PeerReadStep ==
  ASSUME IInv, NEW p \in Peers, PeerRead(p)
  PROVE  IInv'
<1>1. PICK n \in 1 .. MinOf(WantedReadSz(p, FROM_PEER), wire[Other(p)]) :
        /\ ch' = [ch EXCEPT ![p][FROM_PEER].rb = @ + n]
        /\ wire' = [wire EXCEPT ![Other(p)] = @ - n]
  BY DEF PeerRead
<1> DEFINE r == [ch[p][FROM_PEER] EXCEPT !.rb = @ + n]
<1>2. n \in Nat /\ n \in 1 .. WantedReadSz(p, FROM_PEER) /\ n <= wire[Other(p)]
  <2>1. wire[Other(p)] \in Nat /\ WantedReadSz(p, FROM_PEER) \in Int
    BY PeerFacts, PeerChannelFacts, WantedReadFacts DEF IInv, TypeOK, WantedReadSz, Room, MinOf
  <2>2. QED
    BY <1>1, <2>1 DEF MinOf
<1>3. wire' \in [Peers -> Nat]
  BY <1>1, <1>2, PeerFacts DEF IInv, TypeOK
<1>4. /\ ch[p][FROM_PEER] \in Channel /\ ch[p][FROM_PEER].rb \in Nat
      /\ ch[p][FROM_PEER].rb + n <= Cap(FROM_PEER)
  BY <1>2, PeerChannelFacts, WantedReadFacts
<1>5. /\ r \in Channel /\ r.rb = ch[p][FROM_PEER].rb + n /\ r.window = ch[p][FROM_PEER].window
      /\ r.bytes_written = ch[p][FROM_PEER].bytes_written /\ r.fdh = ch[p][FROM_PEER].fdh
  BY <1>2, <1>4 DEF Channel
<1>6. ch' = [ch EXCEPT ![p][FROM_PEER] = r]
  BY <1>1
<1> HIDE DEF r
<1>7. QuietChannels
  BY <1>4, <1>5, <1>6, PeerChannelFacts, OneQuietChannel
<1>8. QED
  BY <1>3, <1>7, SameQueues, QuietAction, PolledTypes DEF IInv, OtherTypes, PeerRead, Polled

(* One channel changes and nothing is sent or received.                    *)
LEMMA OneChannelAction ==
  ASSUME IInv, NEW p \in Peers, NEW c \in Chans,
         NEW r \in Channel, ch' = [ch EXCEPT ![p][c] = r],
         r.window = ch[p][c].window, r.bytes_written = ch[p][c].bytes_written,
         r.fdh => ch[p][c].fdh, r.rb <= Cap(c), c \in Streams => r.rb = ch[p][c].rb,
         OtherTypes', UNCHANGED <<q, rd, kept, out, failed>>
  PROVE  IInv'
BY OneQuietChannel, SameQueues, QuietAction

(* The types of one channel, and of the channel closed.                    *)
LEMMA ChannelTypes ==
  ASSUME IInv, NEW p \in Peers, NEW c \in Chans
  PROVE  /\ ch[p][c] \in Channel /\ ch[p][c].rb \in Nat /\ Cap(c) \in Nat
         /\ ch[p][c].rb <= Cap(c)
BY WantedReadFacts

(* Closing a channel keeps the invariant.                                  *)
LEMMA CloseAction ==
  ASSUME IInv, NEW p \in Peers, NEW c \in Chans,
         ch' = [ch EXCEPT ![p][c] = Closed(p, c, @)],
         OtherTypes', UNCHANGED <<q, rd, kept, out, failed>>
  PROVE  IInv'
<1>1. ch[p][c] \in Channel /\ ch[p][c].rb <= Cap(c)
  BY ChannelTypes
<1> DEFINE r == Closed(p, c, ch[p][c])
<1>2. ch' = [ch EXCEPT ![p][c] = r]
  BY DEF IInv, TypeOK
<1>3. /\ r \in Channel /\ r.window = ch[p][c].window /\ r.rb = ch[p][c].rb
      /\ r.bytes_written = ch[p][c].bytes_written /\ (r.fdh => ch[p][c].fdh)
  BY <1>1, ClosedFacts
<1> HIDE DEF r
<1>4. QED
  BY <1>1, <1>2, <1>3, OneChannelAction

(* End of file on the connection.                                          *)
LEMMA PeerEofStep ==
  ASSUME IInv, NEW p \in Peers, PeerEof(p)
  PROVE  IInv'
<1>1. OtherTypes'
  BY PolledTypes DEF IInv, TypeOK, OtherTypes, PeerEof
<1>2. QED
  BY <1>1, PeerChannelFacts, CloseAction DEF PeerEof, Polled

(* End of file on a stream.                                                *)
LEMMA StreamEofStep ==
  ASSUME IInv, NEW p \in Peers, NEW s \in Streams, StreamEof(p, s)
  PROVE  IInv'
<1>1. OtherTypes'
  BY PolledTypes DEF IInv, TypeOK, OtherTypes, StreamEof
<1>2. QED
  BY <1>1, StreamFacts, CloseAction DEF StreamEof, Polled

(* A drained channel that was to be closed is closed.                      *)
LEMMA DoPendingCloseStep ==
  ASSUME IInv, NEW p \in Peers, NEW c \in Chans, DoPendingClose(p, c)
  PROVE  IInv'
<1>1. OtherTypes'
  BY DEF IInv, TypeOK, OtherTypes, DoPendingClose
<1>2. QED
  BY <1>1, CloseAction DEF DoPendingClose

(* A write error on the connection.                                        *)
LEMMA PeerWriteErrorStep ==
  ASSUME IInv, NEW p \in Peers, PeerWriteError(p)
  PROVE  IInv'
<1> DEFINE r == Errored(p, TO_PEER, ch[p][TO_PEER])
<1>1. OtherTypes'
  BY PolledTypes DEF IInv, TypeOK, OtherTypes, PeerWriteError
<1>2. /\ ch[p][TO_PEER] \in Channel /\ Cap(TO_PEER) \in Nat
      /\ ch[p][TO_PEER].rb \in Nat /\ ch[p][TO_PEER].rb <= Cap(TO_PEER)
  BY PeerChannelFacts, ChannelTypes
<1>3. /\ r \in Channel /\ r.window = ch[p][TO_PEER].window
      /\ r.bytes_written = ch[p][TO_PEER].bytes_written /\ ~r.fdh
      /\ r.rb = IF FromFd(p, TO_PEER) THEN ch[p][TO_PEER].rb ELSE 0
  BY <1>2, ErroredFacts
<1>4. r.rb <= Cap(TO_PEER)
  BY <1>2, <1>3
<1>5. ch' = [ch EXCEPT ![p][TO_PEER] = r]
  BY DEF PeerWriteError
<1> HIDE DEF r
<1>6. QED
  BY <1>1, <1>3, <1>4, <1>5, PeerChannelFacts, OneChannelAction DEF PeerWriteError, Polled

(* What poll_channel_2 leaves of a channel it wrote n bytes of.            *)
LEMMA WrittenFacts ==
  ASSUME IInv, NEW p \in Peers, NEW c \in Chans, NEW n \in 1 .. WantedWriteSz(p, c)
  PROVE  /\ Written(p, c, n) \in Channel
         /\ Written(p, c, n).rb = ch[p][c].rb - n /\ ch[p][c].rb - n \in Nat
         /\ Written(p, c, n).window = ch[p][c].window
         /\ Written(p, c, n).bytes_written =
              IF c \in Streams THEN ch[p][c].bytes_written + n ELSE ch[p][c].bytes_written
         /\ Written(p, c, n).fdh => ch[p][c].fdh
<1> DEFINE e == [ch[p][c] EXCEPT !.rb = @ - n,
                   !.bytes_written = IF c \in Streams THEN @ + n ELSE @]
<1>1. ch[p][c] \in Channel /\ ch[p][c].rb \in Nat /\ n <= ch[p][c].rb
  BY ChannelTypes, WantedWriteFacts
<1>2. n \in Nat /\ ch[p][c].rb - n \in Nat /\ ch[p][c].bytes_written \in Nat
  <2>1. n \in Int /\ n >= 1
    OBVIOUS
  <2>2. QED
    BY <1>1, <2>1 DEF Channel
<1> DEFINE a == ch[p][c].rb - n
           b == IF c \in Streams THEN ch[p][c].bytes_written + n ELSE ch[p][c].bytes_written
<1>3. e = [ch[p][c] EXCEPT !.rb = a, !.bytes_written = b]
  BY <1>1 DEF Channel
<1>a. a \in Nat /\ b \in Nat
  BY <1>2
<1>b. /\ e \in Channel /\ e.rb = a /\ e.window = ch[p][c].window
      /\ e.bytes_written = b /\ e.fdh = ch[p][c].fdh
  <2> HIDE DEF a, b
  <2>1. QED
    BY <1>1, <1>3, <1>a DEF Channel
<1>4. Written(p, c, n) = IF e.pending_close /\ e.rb = 0 THEN Closed(p, c, e) ELSE e
  BY DEF Written
<1> HIDE DEF e
<1>5. /\ Written(p, c, n) \in Channel
      /\ Written(p, c, n).rb = a /\ Written(p, c, n).bytes_written = b
      /\ Written(p, c, n).window = ch[p][c].window
      /\ Written(p, c, n).fdh => ch[p][c].fdh
  <2> HIDE DEF a, b
  <2>1. QED
    BY <1>b, <1>4, ClosedFacts
<1>6. QED
  BY <1>a, <1>5

(* A write to the connection.                                              *)
LEMMA PeerWriteStep ==
  ASSUME IInv, NEW p \in Peers, PeerWrite(p)
  PROVE  IInv'
<1>1. PICK n \in 1 .. MinOf(WantedWriteSz(p, TO_PEER), WireCap - wire[p]) :
        /\ ch' = [ch EXCEPT ![p][TO_PEER] = Written(p, TO_PEER, n)]
        /\ wire' = [wire EXCEPT ![p] = @ + n]
  BY DEF PeerWrite
<1>2. n \in Nat /\ n \in 1 .. WantedWriteSz(p, TO_PEER)
  <2>1. wire[p] \in Nat /\ WantedWriteSz(p, TO_PEER) \in Int
    <3>1. ch[p][TO_PEER] \in Channel
      BY PeerChannelFacts, ChannelTypes
    <3>2. QED
      BY <3>1, ConstantFacts DEF IInv, TypeOK, WantedWriteSz, MinOf, Channel
  <2>2. QED
    BY <1>1, <2>1, ConstantFacts DEF MinOf
<1>3. wire' \in [Peers -> Nat]
  BY <1>1, <1>2 DEF IInv, TypeOK
<1>4. OtherTypes'
  BY <1>3, PolledTypes DEF IInv, OtherTypes, PeerWrite
<1> DEFINE r == Written(p, TO_PEER, n)
<1>5. /\ r \in Channel /\ r.rb = ch[p][TO_PEER].rb - n /\ r.rb \in Nat
      /\ r.window = ch[p][TO_PEER].window
      /\ r.bytes_written = ch[p][TO_PEER].bytes_written /\ (r.fdh => ch[p][TO_PEER].fdh)
  BY <1>2, PeerChannelFacts, WrittenFacts
<1>6. r.rb <= Cap(TO_PEER)
  <2>1. ch[p][TO_PEER].rb \in Nat /\ Cap(TO_PEER) \in Nat /\ ch[p][TO_PEER].rb <= Cap(TO_PEER)
    BY PeerChannelFacts, ChannelTypes
  <2>2. QED
    BY <1>2, <1>5, <2>1
<1>7. ch' = [ch EXCEPT ![p][TO_PEER] = r]
  BY <1>1
<1> HIDE DEF r
<1>8. QED
  BY <1>4, <1>5, <1>6, <1>7, PeerChannelFacts, OneChannelAction DEF PeerWrite, Polled

(* A partial message of a dead peer is dropped.                            *)
LEMMA DropPartialStep ==
  ASSUME IInv, NEW p \in Peers, DropPartial(p)
  PROVE  IInv'
<1> DEFINE r == [ch[p][FROM_PEER] EXCEPT !.rb = 0]
<1>1. OtherTypes'
  BY DEF IInv, TypeOK, OtherTypes, DropPartial
<1>2. ch[p][FROM_PEER] \in Channel /\ Cap(FROM_PEER) \in Nat
  BY PeerChannelFacts, ChannelTypes
<1>3. /\ r \in Channel /\ r.rb = 0 /\ r.window = ch[p][FROM_PEER].window
      /\ r.bytes_written = ch[p][FROM_PEER].bytes_written /\ r.fdh = ch[p][FROM_PEER].fdh
  BY <1>2 DEF Channel
<1>4. r.rb <= Cap(FROM_PEER)
  BY <1>2, <1>3
<1>5. ch' = [ch EXCEPT ![p][FROM_PEER] = r]
  BY DEF DropPartial
<1> HIDE DEF r
<1>6. QED
  BY <1>1, <1>3, <1>4, <1>5, PeerChannelFacts, OneChannelAction DEF DropPartial

(* The main program closes channels.                                       *)
LEMMA ShutStep ==
  ASSUME IInv, NEW p \in Peers, NEW cs \in SUBSET Chans, Shut(p, cs)
  PROVE  IInv'
<1> DEFINE r(x) == IF x \in cs THEN Closed(p, x, ch[p][x]) ELSE ch[p][x]
<1>1. OtherTypes'
  BY DEF IInv, TypeOK, OtherTypes, Shut, Stages
<1>2. ASSUME NEW x \in Chans
      PROVE  /\ r(x) \in Channel /\ r(x).window = ch[p][x].window /\ r(x).rb = ch[p][x].rb
             /\ r(x).bytes_written = ch[p][x].bytes_written /\ (r(x).fdh => ch[p][x].fdh)
             /\ r(x).rb <= Cap(x)
  BY ChannelTypes, ClosedFacts
<1>3. ch' = [ch EXCEPT ![p] = [x \in Chans |-> r(x)]]
  BY DEF Shut, CloseChannels
<1> HIDE DEF r
<1>4. /\ ch' \in [Peers -> [Chans -> Channel]]
      /\ \A z \in Peers, x \in Chans : ch'[z][x] = IF z = p THEN r(x) ELSE ch[z][x]
  BY <1>2, <1>3 DEF IInv, TypeOK
<1>5. QuietChannels
  BY <1>2, <1>4, ChannelTypes DEF QuietChannels
<1>6. QED
  BY <1>1, <1>5, SameQueues, QuietAction DEF Shut

----------------------------------------------------------------------------
(* Queues: receiving and sending messages that move nothing.               *)

(* The first message of the peer's queue.                                  *)
LEMMA HeadFacts ==
  ASSUME IInv, NEW p \in Peers, MsgReady(p)
  PROVE  /\ Other(p) \in Peers /\ q[Other(p)] \in Seq(Messages) /\ q[Other(p)] # <<>>
         /\ Head1(p) \in Messages /\ Sendable(Other(p), Head1(p))
         /\ Head1(p).size \in Nat /\ Head1(p).size <= ch[p][FROM_PEER].rb
<1>1. Other(p) \in Peers /\ q[Other(p)] \in Seq(Messages) /\ q[Other(p)] # <<>>
  BY PeerFacts DEF IInv, TypeOK, MsgReady
<1>2. 1 \in 1 .. Len(q[Other(p)]) /\ Head1(p) = q[Other(p)][1] /\ Head1(p) \in Messages
  BY <1>1 DEF Head1
<1>3. Sendable(Other(p), Head1(p))
  BY <1>1, <1>2 DEF IInv, FlowControl
<1>4. Head1(p).size \in Nat
  BY <1>2 DEF Messages
<1>5. Head1(p).size <= ch[p][FROM_PEER].rb
  BY DEF MsgReady, Head1
<1>6. QED
  BY <1>1, <1>2, <1>3, <1>4, <1>5

(* Consuming the first message leaves well-formed queues.                  *)
LEMMA TailQueues ==
  ASSUME IInv, NEW p \in Peers, MsgReady(p), q' = [q EXCEPT ![Other(p)] = Tail(@)]
  PROVE  /\ GoodQueues' /\ q'[p] = q[p] /\ q'[Other(p)] = Tail(q[Other(p)])
<1>1. Other(p) \in Peers /\ Other(p) # p /\ q[Other(p)] \in Seq(Messages) /\ q[Other(p)] # <<>>
  BY HeadFacts, PeerFacts
<1>2. /\ q' \in [Peers -> Seq(Messages)] /\ q'[Other(p)] = Tail(q[Other(p)])
      /\ \A z \in Peers : z # Other(p) => q'[z] = q[z]
  BY <1>1 DEF IInv, TypeOK
<1>3. ASSUME NEW i \in 1 .. Len(Tail(q[Other(p)]))
      PROVE  Sendable(Other(p), Tail(q[Other(p)])[i])
  <2>1. i + 1 \in 1 .. Len(q[Other(p)]) /\ Tail(q[Other(p)])[i] = q[Other(p)][i + 1]
    BY <1>1
  <2>2. QED
    BY <1>1, <2>1 DEF IInv, FlowControl
<1>4. ASSUME NEW z \in Peers, NEW i \in 1 .. Len(q'[z]) PROVE Sendable(z, q'[z][i])
  <2>1. CASE z = Other(p)
    BY <1>2, <1>3, <2>1
  <2>2. CASE z # Other(p)
    BY <1>2, <2>2 DEF IInv, FlowControl
  <2>3. QED
    BY <2>1, <2>2
<1>5. QED
  BY <1>1, <1>2, <1>4 DEF GoodQueues, Sendable, ControlType

(* A message queued by p, or discarded when its connection is closed.      *)
LEMMA EnqueueFacts ==
  ASSUME IInv, NEW p \in Peers, NEW m \in Messages, Sendable(p, m), Enqueue(p, m)
  PROVE  /\ GoodQueues' /\ q'[Other(p)] = q[Other(p)]
         /\ q'[p] = IF ch[p][TO_PEER].fdh THEN Append(q[p], m) ELSE q[p]
<1>1. Other(p) \in Peers /\ Other(p) # p /\ q[p] \in Seq(Messages)
  BY PeerFacts DEF IInv, TypeOK
<1>2. CASE ~ch[p][TO_PEER].fdh
  <2>1. q' = q
    BY <1>2 DEF Enqueue
  <2>2. GoodQueues
    BY DEF IInv, TypeOK, FlowControl, GoodQueues
  <2>3. QED
    BY <1>2, <2>1, <2>2 DEF GoodQueues, Sendable, ControlType
<1>3. CASE ch[p][TO_PEER].fdh
  <2>1. /\ q' \in [Peers -> Seq(Messages)] /\ q'[p] = Append(q[p], m)
        /\ \A z \in Peers : z # p => q'[z] = q[z]
    BY <1>1, <1>3 DEF IInv, TypeOK, Enqueue
  <2>2. ASSUME NEW i \in 1 .. Len(Append(q[p], m)) PROVE Sendable(p, Append(q[p], m)[i])
    BY <1>1 DEF IInv, FlowControl
  <2>3. ASSUME NEW z \in Peers, NEW i \in 1 .. Len(q'[z]) PROVE Sendable(z, q'[z][i])
    <3>1. CASE z = p
      BY <2>1, <2>2, <3>1
    <3>2. CASE z # p
      BY <2>1, <3>2 DEF IInv, FlowControl
    <3>3. QED
      BY <3>1, <3>2
  <2>4. QED
    BY <1>1, <1>3, <2>1, <2>3 DEF GoodQueues, Sendable, ControlType
<1>4. QED
  BY <1>2, <1>3

(* Two channels of one process change.                                     *)
LEMMA TwoChannels ==
  ASSUME ch \in [Peers -> [Chans -> Channel]], NEW p \in Peers, NEW a \in Chans, NEW b \in Chans,
         NEW r \in Channel, NEW t \in Channel, ch' = [ch EXCEPT ![p][a] = r, ![p][b] = t]
  PROVE  /\ ch' \in [Peers -> [Chans -> Channel]]
         /\ \A z \in Peers, x \in Chans :
              ch'[z][x] = IF z = p /\ x = b THEN t ELSE IF z = p /\ x = a THEN r ELSE ch[z][x]
OBVIOUS

(* FROM_PEER's buffer after a message is taken out of it.                  *)
LEMMA TakenFacts ==
  ASSUME IInv, NEW p \in Peers, MsgReady(p)
  PROVE  LET r == [ch[p][FROM_PEER] EXCEPT !.rb = @ - Head1(p).size]
         IN  /\ r \in Channel /\ r.rb <= Cap(FROM_PEER) /\ r.window = ch[p][FROM_PEER].window
             /\ r.bytes_written = ch[p][FROM_PEER].bytes_written /\ r.fdh = ch[p][FROM_PEER].fdh
<1> DEFINE k == ch[p][FROM_PEER].rb - Head1(p).size
           r == [ch[p][FROM_PEER] EXCEPT !.rb = k]
<1>1. /\ ch[p][FROM_PEER] \in Channel /\ ch[p][FROM_PEER].rb \in Nat
      /\ Cap(FROM_PEER) \in Nat /\ ch[p][FROM_PEER].rb <= Cap(FROM_PEER)
  BY PeerChannelFacts, ChannelTypes
<1>2. Head1(p).size \in Nat /\ Head1(p).size <= ch[p][FROM_PEER].rb
  BY HeadFacts
<1>3. k \in Nat /\ k <= Cap(FROM_PEER)
  BY <1>1, <1>2
<1> HIDE DEF k
<1>4. /\ r \in Channel /\ r.rb = k /\ r.window = ch[p][FROM_PEER].window
      /\ r.bytes_written = ch[p][FROM_PEER].bytes_written /\ r.fdh = ch[p][FROM_PEER].fdh
  BY <1>1, <1>3 DEF Channel
<1>5. QED
  BY <1>1, <1>3, <1>4 DEF k

(* A message consumed without effect keeps the invariant, unless it was    *)
(* data for an open sink.                                                  *)
LEMMA QuietTail ==
  ASSUME IInv, NEW p \in Peers, MsgReady(p), q' = [q EXCEPT ![Other(p)] = Tail(@)],
         \A s \in Streams : IsFor(Head1(p), DataTypes, s) => ~ch[Sink(s)][s].fdh
  PROVE  QuietQueues
<1>1. GoodQueues' /\ q'[p] = q[p] /\ q'[Other(p)] = Tail(q[Other(p)])
  BY TailQueues
<1>2. q[Other(p)] # <<>> /\ Head1(p) = Head(q[Other(p)])
  BY HeadFacts DEF Head1
<1>3. ASSUME NEW z \in Peers, NEW s \in Streams
      PROVE  QuietQueue(q[z], q'[z], s, ch[Sink(s)][s].fdh)
  BY <1>1, <1>2, PeerFacts DEF QuietQueue
<1>4. QED
  BY <1>1, <1>3 DEF QuietQueues

(* A message consumed without effect.                                      *)
LEMMA ConsumeOnlyStep ==
  ASSUME IInv, NEW p \in Peers, MsgReady(p), ConsumeOnly(p),
         \A s \in Streams : IsFor(Head1(p), DataTypes, s) => ~ch[Sink(s)][s].fdh
  PROVE  IInv'
<1> DEFINE r == [ch[p][FROM_PEER] EXCEPT !.rb = @ - Head1(p).size]
<1>1. /\ r \in Channel /\ r.rb <= Cap(FROM_PEER) /\ r.window = ch[p][FROM_PEER].window
      /\ r.bytes_written = ch[p][FROM_PEER].bytes_written /\ r.fdh = ch[p][FROM_PEER].fdh
  BY TakenFacts
<1>2. ch' = [ch EXCEPT ![p][FROM_PEER] = r]
  BY DEF ConsumeOnly
<1> HIDE DEF r
<1>3. QuietChannels
  BY <1>1, <1>2, PeerChannelFacts, OneQuietChannel
<1>4. QuietQueues
  BY QuietTail DEF ConsumeOnly
<1>5. OtherTypes'
  BY DEF IInv, TypeOK, OtherTypes, ConsumeOnly
<1>6. QED
  BY <1>3, <1>4, <1>5, QuietAction DEF ConsumeOnly

(* A control message: the peer's is the type the process handles.          *)
LEMMA RecvControlStep ==
  ASSUME IInv, NEW p \in Peers, RecvControl(p)
  PROVE  IInv'
<1>1. MsgReady(p) /\ Head1(p).type \in {"CHILD_EXIT", "WINDOW_SIZE"}
  BY DEF RecvControl
<1>2. Head1(p).type = ControlType(Other(p))
  BY <1>1, HeadFacts DEF Sendable
<1>3. ConsumeOnly(p)
  BY <1>2 DEF RecvControl
<1>4. \A s \in Streams : ~IsFor(Head1(p), DataTypes, s)
  BY <1>1 DEF IsFor, DataTypes
<1>5. QED
  BY <1>1, <1>3, <1>4, ConsumeOnlyStep

(* MSG_CHANNEL_CLOSE.                                                      *)
LEMMA RecvCloseStep ==
  ASSUME IInv, NEW p \in Peers, RecvClose(p)
  PROVE  IInv'
<1> DEFINE c == Head1(p).ch
           e == [ch[p][c] EXCEPT !.sent_eof = TRUE]
           t == Closed(p, c, e)
           r == [ch[p][FROM_PEER] EXCEPT !.rb = @ - Head1(p).size]
<1>1. MsgReady(p) /\ Head1(p).type = "CLOSE"
  BY DEF RecvClose
<1>2. \A s \in Streams : ~IsFor(Head1(p), DataTypes, s)
  BY <1>1 DEF IsFor, DataTypes
<1>3. CASE c \notin Streams
  BY <1>1, <1>2, <1>3, ConsumeOnlyStep DEF RecvClose
<1>4. CASE c \in Streams
  <2>1. c \in Chans /\ c # FROM_PEER
    BY <1>4, StreamFacts
  <2>2. ch[p][c] \in Channel /\ ch[p][c].rb <= Cap(c)
    BY <2>1, ChannelTypes
  <2>3. /\ e \in Channel /\ e.rb = ch[p][c].rb /\ e.window = ch[p][c].window
        /\ e.bytes_written = ch[p][c].bytes_written /\ e.fdh = ch[p][c].fdh
    BY <2>2 DEF Channel
  <2>4. /\ t \in Channel /\ t.rb = ch[p][c].rb /\ t.window = ch[p][c].window
        /\ t.bytes_written = ch[p][c].bytes_written /\ (t.fdh => ch[p][c].fdh)
    <3> HIDE DEF e, c
    <3>1. QED
      BY <2>3, ClosedFacts
  <2>5. /\ r \in Channel /\ r.rb <= Cap(FROM_PEER) /\ r.window = ch[p][FROM_PEER].window
        /\ r.bytes_written = ch[p][FROM_PEER].bytes_written /\ r.fdh = ch[p][FROM_PEER].fdh
    BY <1>1, TakenFacts
  <2>6. /\ q' = [q EXCEPT ![Other(p)] = Tail(@)]
        /\ UNCHANGED <<wire, rd, kept, out, stage, todo, cut, failed>>
    BY <1>4 DEF RecvClose, Consume
  <2>7. ch' = [ch EXCEPT ![p][FROM_PEER] = r, ![p][c] = t]
    BY <1>4 DEF RecvClose, Consume
  <2> HIDE DEF c, e, t, r
  <2>8. QuietChannels
    <3>1. ch \in [Peers -> [Chans -> Channel]]
      BY DEF IInv, TypeOK
    <3>2. /\ ch' \in [Peers -> [Chans -> Channel]]
          /\ \A z \in Peers, x \in Chans : ch'[z][x] =
               IF z = p /\ x = c THEN t ELSE IF z = p /\ x = FROM_PEER THEN r ELSE ch[z][x]
      BY <2>1, <2>4, <2>5, <2>7, <3>1, PeerChannelFacts, TwoChannels
    <3>3. QED
      BY <2>1, <2>2, <2>4, <2>5, <3>2, PeerChannelFacts, ChannelTypes DEF QuietChannels
  <2>9. OtherTypes'
    BY <2>6 DEF IInv, TypeOK, OtherTypes
  <2>10. QED
    BY <1>1, <1>2, <2>6, <2>8, <2>9, QuietTail, QuietAction
<1>5. QED
  BY <1>3, <1>4

(* A message that fits maxoutmsg fits the peer's receive buffer, and       *)
(* TO_PEER's buffer after it is queued.                                    *)
LEMMA BufferedFacts ==
  ASSUME IInv, NEW p \in Peers, NEW sz \in Nat, MaxOutMsg(p) >= sz
  PROVE  /\ sz <= CmdCap
         /\ LET r == [ch[p][TO_PEER] EXCEPT !.rb = @ + Buffered(p, sz)]
            IN  /\ r \in Channel /\ r.rb <= Cap(TO_PEER) /\ r.window = ch[p][TO_PEER].window
                /\ r.bytes_written = ch[p][TO_PEER].bytes_written /\ r.fdh = ch[p][TO_PEER].fdh
<1> DEFINE k == ch[p][TO_PEER].rb + Buffered(p, sz)
           r == [ch[p][TO_PEER] EXCEPT !.rb = k]
<1>1. /\ ch[p][TO_PEER] \in Channel /\ ch[p][TO_PEER].rb \in Nat
      /\ Cap(TO_PEER) \in Nat /\ ch[p][TO_PEER].rb <= Cap(TO_PEER)
  BY PeerChannelFacts, ChannelTypes
<1>2. MaxMsg \in Nat /\ CmdCap \in Nat /\ MaxMsg <= CmdCap /\ Room(p, TO_PEER) \in Int
  BY <1>1, ConstantFacts DEF Room
<1>3. sz <= MaxMsg /\ sz <= Room(p, TO_PEER)
  BY <1>2 DEF MaxOutMsg, MinOf
<1>4. k \in Nat /\ k <= Cap(TO_PEER)
  BY <1>1, <1>3 DEF Room, Buffered
<1>5. sz <= CmdCap
  BY <1>2, <1>3
<1> HIDE DEF k
<1>6. /\ r \in Channel /\ r.rb = k /\ r.window = ch[p][TO_PEER].window
      /\ r.bytes_written = ch[p][TO_PEER].bytes_written /\ r.fdh = ch[p][TO_PEER].fdh
  BY <1>1, <1>4 DEF Channel
<1>7. QED
  BY <1>4, <1>5, <1>6 DEF k

(* Queueing a message that carries neither data nor credit.                *)
LEMMA QuietAppend ==
  ASSUME IInv, NEW p \in Peers, NEW m \in Messages, Sendable(p, m), Enqueue(p, m),
         m.type \notin {"DATA", "LZ4", "WINDOW"}
  PROVE  QuietQueues
<1>1. /\ GoodQueues' /\ q'[Other(p)] = q[Other(p)]
      /\ q'[p] = IF ch[p][TO_PEER].fdh THEN Append(q[p], m) ELSE q[p]
  BY EnqueueFacts
<1>2. ASSUME NEW z \in Peers, NEW s \in Streams
      PROVE  QuietQueue(q[z], q'[z], s, ch[Sink(s)][s].fdh)
  <2>1. ~IsFor(m, DataTypes, s) /\ ~IsFor(m, {"WINDOW"}, s)
    BY DEF IsFor, DataTypes
  <2>2. z = p \/ z = Other(p)
    BY PeerFacts
  <2>3. QED
    BY <1>1, <2>1, <2>2, Zenon DEF QuietQueue
<1>3. QED
  BY <1>1, <1>2 DEF QuietQueues

(* MSG_CHANNEL_CLOSE is queued.                                            *)
LEMMA XmitEofStep ==
  ASSUME IInv, NEW p \in Peers, NEW c \in Chans, XmitEof(p, c)
  PROVE  IInv'
<1> DEFINE m == [type |-> "CLOSE", ch |-> c, n |-> 0, pos |-> 0, size |-> SzClose]
           r == [ch[p][TO_PEER] EXCEPT !.rb = @ + Buffered(p, SzClose)]
           t == [(IF c = TO_PEER THEN r ELSE ch[p][c]) EXCEPT !.sent_eof = TRUE]
<1>1. SzClose \in Nat /\ MaxOutMsg(p) >= SzClose
  BY ConstantFacts DEF XmitEof, EofReady
<1>2. /\ SzClose <= CmdCap
      /\ r \in Channel /\ r.rb <= Cap(TO_PEER) /\ r.window = ch[p][TO_PEER].window
      /\ r.bytes_written = ch[p][TO_PEER].bytes_written /\ r.fdh = ch[p][TO_PEER].fdh
  BY <1>1, BufferedFacts
<1>3. m \in Messages /\ Sendable(p, m) /\ m.type = "CLOSE"
  BY <1>1, <1>2 DEF Messages, MsgTypes, Sendable
<1>4. QuietQueues
  <2>1. Enqueue(p, m)
    BY DEF XmitEof
  <2> HIDE DEF m
  <2>2. QED
    BY <1>3, <2>1, QuietAppend
<1>5. ch' = [ch EXCEPT ![p][TO_PEER] = r, ![p][c] = t]
  <2>1. ch \in [Peers -> [Chans -> Channel]]
    BY DEF IInv, TypeOK
  <2>2. ch' = [ch EXCEPT ![p][TO_PEER] = r, ![p][c].sent_eof = TRUE]
    BY DEF XmitEof
  <2> HIDE DEF r
  <2>3. [ch EXCEPT ![p][TO_PEER] = r][p][c] = IF c = TO_PEER THEN r ELSE ch[p][c]
    BY <2>1, PeerChannelFacts
  <2>4. QED
    BY <2>2, <2>3
<1> HIDE DEF r
<1>6. ch[p][c] \in Channel /\ ch[p][c].rb <= Cap(c)
  BY ChannelTypes
<1>7. /\ t \in Channel /\ t.window = ch[p][c].window /\ t.rb <= Cap(c)
      /\ t.bytes_written = ch[p][c].bytes_written /\ t.fdh = ch[p][c].fdh
      /\ c \in Streams => t.rb = ch[p][c].rb
  BY <1>2, <1>6, PeerChannelFacts DEF Channel
<1> HIDE DEF t
<1>8. /\ ch' \in [Peers -> [Chans -> Channel]]
      /\ \A z \in Peers, x \in Chans : ch'[z][x] =
           IF z = p /\ x = c THEN t ELSE IF z = p /\ x = TO_PEER THEN r ELSE ch[z][x]
  <2>1. ch \in [Peers -> [Chans -> Channel]]
    BY DEF IInv, TypeOK
  <2>2. QED
    BY <1>2, <1>5, <1>7, <2>1, PeerChannelFacts, TwoChannels
<1>9. QuietChannels
  BY <1>2, <1>7, <1>8, PeerChannelFacts, ChannelTypes DEF QuietChannels
<1>10. OtherTypes'
  BY DEF IInv, TypeOK, OtherTypes, XmitEof
<1>11. QED
  BY <1>4, <1>9, <1>10, QuietAction DEF XmitEof

(* A control message is queued and channels are closed.                    *)
LEMMA SendControlStep ==
  ASSUME IInv, NEW p \in Peers, NEW n \in ControlArgs, NEW cs \in SUBSET Chans,
         SendControl(p, n, cs)
  PROVE  IInv'
<1> DEFINE sz == SzControl[p]
           m == [type |-> ControlType(p), ch |-> 0, n |-> n, pos |-> 0, size |-> sz]
           r == [ch[p][TO_PEER] EXCEPT !.rb = @ + Buffered(p, sz)]
           c1(x) == IF x = TO_PEER THEN r ELSE ch[p][x]
           t(x) == IF x \in cs THEN Closed(p, x, c1(x)) ELSE c1(x)
<1>1. sz \in Nat /\ MaxOutMsg(p) >= sz /\ n \in Nat /\ 0 \in Chans
  BY ConstantFacts, MuxAssumption, PeerChannelFacts DEF SendControl, FROM_PEER
<1>2. /\ sz <= CmdCap
      /\ r \in Channel /\ r.rb <= Cap(TO_PEER) /\ r.window = ch[p][TO_PEER].window
      /\ r.bytes_written = ch[p][TO_PEER].bytes_written /\ r.fdh = ch[p][TO_PEER].fdh
  BY <1>1, BufferedFacts
<1>3. m \in Messages /\ Sendable(p, m) /\ m.type \notin {"DATA", "LZ4", "WINDOW"}
  BY <1>1, <1>2 DEF Messages, MsgTypes, Sendable, ControlType
<1>4. QuietQueues
  <2>1. Enqueue(p, m)
    BY DEF SendControl
  <2> HIDE DEF m
  <2>2. QED
    BY <1>3, <2>1, QuietAppend
<1>5. ch' = [ch EXCEPT ![p] = [x \in Chans |-> t(x)]]
  <2>1. ch \in [Peers -> [Chans -> Channel]]
    BY DEF IInv, TypeOK
  <2>2. [ch[p] EXCEPT ![TO_PEER].rb = @ + Buffered(p, sz)] = [x \in Chans |-> c1(x)]
    BY <2>1, PeerChannelFacts
  <2>3. QED
    BY <2>1, <2>2 DEF SendControl
<1> HIDE DEF r, sz
<1>6. ASSUME NEW x \in Chans
      PROVE  /\ c1(x) \in Channel /\ c1(x).window = ch[p][x].window
             /\ c1(x).bytes_written = ch[p][x].bytes_written /\ (c1(x).fdh => ch[p][x].fdh)
             /\ c1(x).rb <= Cap(x) /\ (x \in Streams => c1(x).rb = ch[p][x].rb)
  BY <1>2, ChannelTypes, PeerChannelFacts
<1> HIDE DEF c1
<1>7. ASSUME NEW x \in Chans
      PROVE  /\ t(x) \in Channel /\ t(x).window = ch[p][x].window
             /\ t(x).bytes_written = ch[p][x].bytes_written /\ (t(x).fdh => ch[p][x].fdh)
             /\ t(x).rb <= Cap(x) /\ (x \in Streams => t(x).rb = ch[p][x].rb)
  BY <1>6, ClosedFacts
<1> HIDE DEF t
<1>8. /\ ch' \in [Peers -> [Chans -> Channel]]
      /\ \A z \in Peers, x \in Chans : ch'[z][x] = IF z = p THEN t(x) ELSE ch[z][x]
  BY <1>5, <1>7 DEF IInv, TypeOK
<1>9. QuietChannels
  BY <1>7, <1>8, ChannelTypes DEF QuietChannels
<1>10. OtherTypes'
  BY DEF IInv, TypeOK, OtherTypes, SendControl, Stages
<1>11. QED
  BY <1>4, <1>9, <1>10, QuietAction DEF SendControl

----------------------------------------------------------------------------
(* Actions that move data or credit of one stream.                         *)

(* The invariant after an action on stream s that is quiet for the others. *)
LEMMA StreamAction ==
  ASSUME IInv, TypeOK', UNCHANGED failed, GoodQueues', Buffers', NEW s \in Streams, StreamInv(s)',
         \A z \in Peers, x \in Streams : x # s => ch'[z][x] = ch[z][x],
         \A z \in Peers : ch'[z][TO_PEER].fdh => ch[z][TO_PEER].fdh,
         \A x \in Streams : x # s => rd'[x] = rd[x] /\ out'[x] = out[x] /\ kept'[x] = kept[x],
         \A z \in Peers, x \in Streams :
           x # s => QuietQueue(q[z], q'[z], x, ch[Sink(x)][x].fdh)
  PROVE  IInv'
<1>1. NoProtocolError'
  BY DEF IInv, NoProtocolError
<1>2. ASSUME NEW x \in Streams PROVE StreamInv(x)'
  <2>1. CASE x = s
    BY <2>1
  <2>2. CASE x # s
    <3>1. QuietStream(x)
      BY <2>2, StreamFacts DEF QuietStream
    <3>2. QED
      BY <3>1, QuietStep DEF IInv, FlowControl
  <2>3. QED
    BY <2>1, <2>2
<1>3. QED
  BY <1>1, <1>2 DEF IInv, FlowControl, GoodQueues

(* The queues are well formed, and unchanged queues are quiet.             *)
LEMMA QueueFacts ==
  ASSUME IInv
  PROVE  GoodQueues /\ (UNCHANGED q => GoodQueues')
BY DEF IInv, TypeOK, FlowControl, GoodQueues, Sendable, ControlType

(* One channel of stream s changes; the queues do not.                     *)
LEMMA OneStreamAction ==
  ASSUME IInv, NEW p \in Peers, NEW s \in Streams, NEW r \in Channel,
         ch' = [ch EXCEPT ![p][s] = r], r.rb <= StreamCap,
         Source[s] = p => r.bytes_written = 0, StreamInv(s)',
         rd' \in [Streams -> Nat], out' \in [Streams -> Seq(Nat)], kept' \in [Streams -> Seq(Nat)],
         \A x \in Streams : x # s => rd'[x] = rd[x] /\ out'[x] = out[x] /\ kept'[x] = kept[x],
         Polled(p, s), wire' = wire
  PROVE  IInv'
<1>1. /\ ch' \in [Peers -> [Chans -> Channel]]
      /\ \A z \in Peers, x \in Chans : ch'[z][x] = IF z = p /\ x = s THEN r ELSE ch[z][x]
  <2>1. ch \in [Peers -> [Chans -> Channel]]
    BY DEF IInv, TypeOK
  <2>2. QED
    BY <2>1, StreamFacts, OneChannel
<1>2. stage' \in [Peers -> Stages] /\ todo' \in [Peers -> SUBSET Chans] /\ cut' \in BOOLEAN
  BY PolledTypes DEF IInv
<1>3. TypeOK'
  BY <1>1, <1>2 DEF IInv, TypeOK, Polled
<1>4. Buffers'
  <2>1. Cap(s) = StreamCap
    BY StreamFacts
  <2>2. QED
    BY <1>1, <2>1 DEF IInv, FlowControl, Buffers, Cap
<1>5. \A z \in Peers, x \in Streams : x # s => ch'[z][x] = ch[z][x]
  BY <1>1, StreamFacts
<1>6. \A z \in Peers : ch'[z][TO_PEER].fdh => ch[z][TO_PEER].fdh
  BY <1>1, StreamFacts, PeerChannelFacts
<1>7. q' = q /\ failed' = failed
  BY DEF Polled
<1>8. GoodQueues'
  BY <1>7, QueueFacts
<1>9. \A z \in Peers, x \in Streams : x # s => QuietQueue(q[z], q'[z], x, ch[Sink(x)][x].fdh)
  BY <1>7 DEF QuietQueue
<1>10. QED
  BY <1>3, <1>4, <1>5, <1>6, <1>7, <1>8, <1>9, StreamAction

(* The direction of a stream's channel in a process.                       *)
LEMMA DirectionFacts ==
  ASSUME NEW p \in Peers, NEW s \in Streams
  PROVE  /\ FromFd(p, s) <=> Source[s] = p
         /\ ~FromFd(p, s) <=> Sink(s) = p
<1>1. FromFd(p, s) <=> Source[s] = p
  BY StreamFacts DEF FromFd
<1>2. QED
  BY <1>1, StreamFacts

(* A read from a stream's fd.                                              *)
LEMMA StreamReadStep ==
  ASSUME IInv, NEW p \in Peers, NEW s \in Streams, StreamRead(p, s)
  PROVE  IInv'
<1>1. PICK n \in 1 .. MinOf(WantedReadSz(p, s), MaxBytes - rd[s]) :
        /\ ch' = [ch EXCEPT ![p][s].rb = @ + n, ![p][s].window = @ - n]
        /\ rd' = [rd EXCEPT ![s] = @ + n]
  BY DEF StreamRead
<1>2. /\ Source[s] = p /\ Sink(s) # p /\ s \in Chans
  BY DirectionFacts, StreamFacts DEF StreamRead
<1>3. n \in Nat /\ n \in 1 .. WantedReadSz(p, s)
  <2>1. rd[s] \in Nat /\ WantedReadSz(p, s) \in Int
    BY <1>2, WantedReadFacts DEF IInv, TypeOK, WantedReadSz, Room, MinOf
  <2>2. QED
    BY <1>1, <2>1, ConstantFacts DEF MinOf
<1>4. /\ ch[p][s] \in Channel /\ ch[p][s].rb \in Nat /\ ch[p][s].window \in Nat
      /\ n <= ch[p][s].window /\ ch[p][s].rb + n <= StreamCap
  BY <1>2, <1>3, WantedReadFacts, StreamFacts
<1> DEFINE a == ch[p][s].rb + n
           b == ch[p][s].window - n
           r == [ch[p][s] EXCEPT !.rb = a, !.window = b]
<1>5. a \in Nat /\ b \in Nat
  BY <1>3, <1>4
<1>6. ch' = [ch EXCEPT ![p][s] = r]
  BY <1>1, <1>2 DEF IInv, TypeOK
<1>7. /\ r \in Channel /\ r.rb = a /\ r.window = b
      /\ r.bytes_written = ch[p][s].bytes_written /\ r.fdh = ch[p][s].fdh
  <2> HIDE DEF a, b
  <2>1. QED
    BY <1>4, <1>5 DEF Channel
<1>8. ch[p][s].bytes_written = 0
  BY <1>2 DEF IInv, FlowControl, Buffers
<1>9. rd' \in [Streams -> Nat] /\ rd'[s] = rd[s] + n /\ \A x \in Streams : x # s => rd'[x] = rd[x]
  BY <1>1, <1>3 DEF IInv, TypeOK
<1>10. UNCHANGED <<wire, kept, out, q>> /\ Polled(p, s)
  BY DEF StreamRead, Polled
<1> HIDE DEF r
<1>11. \A z \in Peers, x \in Chans : ch'[z][x] = IF z = p /\ x = s THEN r ELSE ch[z][x]
  <2>1. ch \in [Peers -> [Chans -> Channel]]
    BY DEF IInv, TypeOK
  <2>2. QED
    BY <1>2, <1>6, <1>7, <2>1, OneChannel
<1>12. StreamInv(s)'
  <2>1. SameSink(s) /\ NoOpen(s)
    BY <1>2, <1>10, <1>11, StreamFacts, PeerChannelFacts DEF SameSink, NoOpen
  <2>2. ch'[Source[s]][s] = r
    BY <1>2, <1>11
  <2>3. TypeOK /\ StreamInv(s)
    BY DEF IInv, FlowControl
  <2>4. QED
    BY <1>2, <1>3, <1>7, <1>9, <1>10, <2>1, <2>2, <2>3, SourceReads
<1>13. kept' \in [Streams -> Seq(Nat)] /\ out' \in [Streams -> Seq(Nat)]
  BY <1>10 DEF IInv, TypeOK
<1>14. QED
  BY <1>4, <1>6, <1>7, <1>8, <1>9, <1>10, <1>12, <1>13, OneStreamAction

(* A write to a stream's fd.                                               *)
LEMMA StreamWriteStep ==
  ASSUME IInv, NEW p \in Peers, NEW s \in Streams, StreamWrite(p, s)
  PROVE  IInv'
<1>1. PICK n \in 1 .. WantedWriteSz(p, s) :
        /\ ch' = [ch EXCEPT ![p][s] = Written(p, s, n)]
        /\ out' = [out EXCEPT ![s] = @ \o SubSeq(kept[s], 1, n)]
        /\ kept' = [kept EXCEPT ![s] = SubSeq(@, n + 1, Len(@))]
  BY DEF StreamWrite
<1>2. Sink(s) = p /\ Source[s] # p /\ s \in Chans /\ Cap(s) = StreamCap
  BY DirectionFacts, StreamFacts DEF StreamWrite
<1> DEFINE r == Written(p, s, n)
<1>3. /\ r \in Channel /\ r.rb = ch[p][s].rb - n /\ r.rb \in Nat
      /\ r.bytes_written = ch[p][s].bytes_written + n /\ (r.fdh => ch[p][s].fdh)
  BY <1>2, WrittenFacts
<1>4. n \in Nat /\ n >= 1 /\ ch[p][s].rb \in Nat /\ n <= ch[p][s].rb /\ ch[p][s].rb <= StreamCap
  <2>1. n \in Int /\ n >= 1
    OBVIOUS
  <2>2. QED
    BY <1>2, <2>1, ChannelTypes, WantedWriteFacts
<1>5. ch' = [ch EXCEPT ![p][s] = r]
  BY <1>1
<1>6. UNCHANGED <<wire, rd, q>> /\ Polled(p, s)
  BY DEF StreamWrite, Polled
<1> HIDE DEF r
<1>7. r.rb <= StreamCap
  BY <1>3, <1>4, ConstantFacts
<1>8. \A z \in Peers, x \in Chans : ch'[z][x] = IF z = p /\ x = s THEN r ELSE ch[z][x]
  <2>1. ch \in [Peers -> [Chans -> Channel]]
    BY DEF IInv, TypeOK
  <2>2. QED
    BY <1>2, <1>3, <1>5, <2>1, OneChannel
<1>9. TypeOK /\ StreamInv(s) /\ Numbered(s)
  BY DEF IInv, FlowControl, StreamInv
<1>10. out[s] \in Seq(Nat) /\ kept[s] \in Seq(Nat) /\ Len(kept[s]) = ch[p][s].rb
  BY <1>2, <1>9, StreamTypes DEF Numbered
<1> DEFINE o2 == out[s] \o SubSeq(kept[s], 1, n)
           k2 == SubSeq(kept[s], n + 1, Len(kept[s]))
<1>11. n \in 1 .. Len(kept[s])
  BY <1>4, <1>10
<1>12. /\ o2 \in Seq(Nat) /\ k2 \in Seq(Nat) /\ Len(o2) = Len(out[s]) + n
       /\ Len(k2) = Len(kept[s]) - n
       /\ NumberedFrom(0, o2) /\ NumberedFrom(Len(out[s]) + n, k2)
  <2>1. NumberedPair(out[s], kept[s])
    BY <1>9, <1>10 DEF Numbered, NumberedPair
  <2>2. Drained(out[s], kept[s], n)
    BY <1>11, <2>1, NumberedWrite
  <2>3. /\ NumberedPair(o2, k2) /\ Len(o2) = Len(out[s]) + n /\ Len(k2) = Len(kept[s]) - n
    BY <2>2, Zenon DEF Drained
  <2> HIDE DEF o2, k2
  <2>4. QED
    BY <2>3, Zenon DEF NumberedPair
<1>13. out' = [out EXCEPT ![s] = o2] /\ kept' = [kept EXCEPT ![s] = k2]
  BY <1>1
<1> HIDE DEF o2, k2
<1>14. /\ out' \in [Streams -> Seq(Nat)] /\ kept' \in [Streams -> Seq(Nat)]
       /\ out'[s] = o2 /\ kept'[s] = k2
       /\ \A x \in Streams : x # s => out'[x] = out[x] /\ kept'[x] = kept[x]
  BY <1>12, <1>13 DEF IInv, TypeOK
<1>15. Numbered(s)'
  <2>1. Len(kept'[s]) = ch'[Sink(s)][s].rb
    BY <1>2, <1>3, <1>8, <1>10, <1>12, <1>14
  <2>2. NumberedFrom(0, out'[s]) /\ NumberedFrom(Len(out'[s]), kept'[s])
    BY <1>12, <1>14
  <2>3. QED
    BY <2>1, <2>2 DEF Numbered, Sink
<1>16. StreamInv(s)'
  <2>1. SameSource(s) /\ NoOpen(s)
    BY <1>2, <1>3, <1>6, <1>8, StreamFacts, PeerChannelFacts DEF SameSource, NoOpen
  <2>2. ch'[Sink(s)][s] = r
    BY <1>2, <1>8
  <2>3. Len(out'[s]) = Len(out[s]) + n
    BY <1>12, <1>14
  <2>4. QED
    BY <1>2, <1>3, <1>4, <1>6, <1>9, <1>15, <2>1, <2>2, <2>3, SinkWrites
<1>17. rd' \in [Streams -> Nat] /\ rd' = rd
  BY <1>6 DEF IInv, TypeOK
<1>18. QED
  BY <1>2, <1>3, <1>5, <1>6, <1>7, <1>14, <1>16, <1>17, OneStreamAction

(* A write error on a stream's fd.                                         *)
LEMMA StreamWriteErrorStep ==
  ASSUME IInv, NEW p \in Peers, NEW s \in Streams, StreamWriteError(p, s)
  PROVE  IInv'
<1>1. Sink(s) = p /\ Source[s] # p /\ s \in Chans /\ ~FromFd(p, s)
  BY DirectionFacts, StreamFacts DEF StreamWriteError
<1> DEFINE r == Errored(p, s, ch[p][s])
<1>2. ch[p][s] \in Channel /\ StreamCap \in Nat
  BY <1>1, ChannelTypes, ConstantFacts
<1>3. /\ r \in Channel /\ r.rb = 0 /\ ~r.fdh /\ r.bytes_written = ch[p][s].bytes_written
  BY <1>1, <1>2, ErroredFacts
<1>4. ch' = [ch EXCEPT ![p][s] = r]
  BY DEF StreamWriteError
<1>5. UNCHANGED <<wire, rd, q, out>> /\ Polled(p, s)
  BY DEF StreamWriteError, Polled
<1> HIDE DEF r
<1>6. \A z \in Peers, x \in Chans : ch'[z][x] = IF z = p /\ x = s THEN r ELSE ch[z][x]
  <2>1. ch \in [Peers -> [Chans -> Channel]]
    BY DEF IInv, TypeOK
  <2>2. QED
    BY <1>1, <1>3, <1>4, <2>1, OneChannel
<1>7. /\ kept' \in [Streams -> Seq(Nat)] /\ kept'[s] = <<>>
      /\ \A x \in Streams : x # s => kept'[x] = kept[x]
  BY DEF IInv, TypeOK, StreamWriteError
<1>8. StreamInv(s)'
  <2>1. SameSource(s) /\ NoOpen(s)
    BY <1>1, <1>3, <1>5, <1>6, StreamFacts, PeerChannelFacts DEF SameSource, NoOpen
  <2>2. ch'[Sink(s)][s] = r
    BY <1>1, <1>6
  <2>3. TypeOK /\ StreamInv(s)
    BY DEF IInv, FlowControl
  <2>4. QED
    BY <1>1, <1>3, <1>5, <1>7, <2>1, <2>2, <2>3, SinkFails
<1>9. rd' \in [Streams -> Nat] /\ out' \in [Streams -> Seq(Nat)] /\ r.rb <= StreamCap
  BY <1>2, <1>3, <1>5 DEF IInv, TypeOK
<1>10. QED
  BY <1>1, <1>3, <1>4, <1>5, <1>7, <1>8, <1>9, OneStreamAction

(* The two ends of a message that is not quiet: p's TO_PEER or FROM_PEER   *)
(* channel k and its channel s change, and the queues of the other streams *)
(* are quiet.                                                              *)
LEMMA MessageAction ==
  ASSUME IInv, NEW p \in Peers, NEW s \in Streams, NEW k \in {FROM_PEER, TO_PEER},
         NEW r \in Channel, r.rb <= Cap(k), r.fdh = ch[p][k].fdh,
         r.bytes_written = ch[p][k].bytes_written,
         NEW t \in Channel, t.rb <= StreamCap, Source[s] = p => t.bytes_written = 0,
         ch' = [ch EXCEPT ![p][k] = r, ![p][s] = t], StreamInv(s)',
         out' \in [Streams -> Seq(Nat)], kept' \in [Streams -> Seq(Nat)],
         \A x \in Streams : x # s => out'[x] = out[x] /\ kept'[x] = kept[x],
         GoodQueues',
         \A z \in Peers, x \in Streams :
           x # s => QuietQueue(q[z], q'[z], x, ch[Sink(x)][x].fdh),
         UNCHANGED <<wire, rd, stage, todo, cut, failed>>
  PROVE  IInv'
<1>1. k \in Chans /\ k \notin Streams /\ k # s /\ s \in Chans /\ Cap(s) = StreamCap
  BY StreamFacts, PeerChannelFacts
<1>2. /\ ch' \in [Peers -> [Chans -> Channel]]
      /\ \A z \in Peers, x \in Chans : ch'[z][x] =
           IF z = p /\ x = s THEN t ELSE IF z = p /\ x = k THEN r ELSE ch[z][x]
  <2>1. ch \in [Peers -> [Chans -> Channel]]
    BY DEF IInv, TypeOK
  <2>2. QED
    BY <1>1, <2>1, TwoChannels
<1>3. TypeOK'
  BY <1>2 DEF IInv, TypeOK, GoodQueues
<1>4. Buffers'
  <2>1. Buffers
    BY DEF IInv, FlowControl
  <2>2. ASSUME NEW z \in Peers, NEW x \in Chans
        PROVE  /\ ch'[z][x].rb <= Cap(x)
               /\ x \notin Streams \/ Source[x] = z => ch'[z][x].bytes_written = 0
    BY <1>1, <1>2, <2>1 DEF Buffers
  <2>3. QED
    BY <2>2 DEF Buffers, Cap
<1>5. \A z \in Peers, x \in Streams : x # s => ch'[z][x] = ch[z][x]
  BY <1>1, <1>2, StreamFacts
<1>6. \A z \in Peers : ch'[z][TO_PEER].fdh => ch[z][TO_PEER].fdh
  BY <1>1, <1>2, PeerChannelFacts
<1>7. QED
  BY <1>3, <1>4, <1>5, <1>6, StreamAction

(* Queueing a message for stream s is quiet for the other streams.         *)
LEMMA OtherAppend ==
  ASSUME IInv, NEW p \in Peers, NEW m \in Messages, Sendable(p, m), Enqueue(p, m)
  PROVE  \A z \in Peers, x \in Streams :
           x # m.ch => QuietQueue(q[z], q'[z], x, ch[Sink(x)][x].fdh)
<1>1. /\ q'[Other(p)] = q[Other(p)]
      /\ q'[p] = IF ch[p][TO_PEER].fdh THEN Append(q[p], m) ELSE q[p]
  BY EnqueueFacts
<1>2. ASSUME NEW z \in Peers, NEW x \in Streams, x # m.ch
      PROVE  QuietQueue(q[z], q'[z], x, ch[Sink(x)][x].fdh)
  <2>1. ~IsFor(m, DataTypes, x) /\ ~IsFor(m, {"WINDOW"}, x)
    BY <1>2 DEF IsFor
  <2>2. z = p \/ z = Other(p)
    BY PeerFacts
  <2>3. QED
    BY <1>1, <2>1, <2>2, Zenon DEF QuietQueue
<1>3. QED
  BY <1>2

(* Consuming a message for stream s is quiet for the other streams.        *)
LEMMA OtherTail ==
  ASSUME IInv, NEW p \in Peers, MsgReady(p), q' = [q EXCEPT ![Other(p)] = Tail(@)]
  PROVE  \A z \in Peers, x \in Streams :
           x # Head1(p).ch => QuietQueue(q[z], q'[z], x, ch[Sink(x)][x].fdh)
<1>1. q'[p] = q[p] /\ q'[Other(p)] = Tail(q[Other(p)])
  BY TailQueues
<1>2. q[Other(p)] # <<>> /\ Head1(p) = Head(q[Other(p)])
  BY HeadFacts DEF Head1
<1>3. ASSUME NEW z \in Peers, NEW x \in Streams, x # Head1(p).ch
      PROVE  QuietQueue(q[z], q'[z], x, ch[Sink(x)][x].fdh)
  <2>1. ~IsFor(Head(q[Other(p)]), DataTypes, x)
    BY <1>2, <1>3 DEF IsFor
  <2>2. z = p \/ z = Other(p)
    BY PeerFacts
  <2>3. QED
    BY <1>1, <1>2, <2>1, <2>2, Zenon DEF QuietQueue
<1>4. QED
  BY <1>3

(* The acks pass: a sink announces what it has written.                    *)
LEMMA XmitAcksStep ==
  ASSUME IInv, NEW p \in Peers, NEW c \in Chans, XmitAcks(p, c)
  PROVE  IInv'
<1> DEFINE m == [type |-> "WINDOW", ch |-> c, n |-> ch[p][c].bytes_written,
                 pos |-> StreamCap + Len(out[c]) - ch[p][c].bytes_written,
                 size |-> SzWindow]
           r == [ch[p][TO_PEER] EXCEPT !.rb = @ + Buffered(p, SzWindow)]
           t == [ch[p][c] EXCEPT !.bytes_written = 0]
<1>1. SzWindow \in Nat /\ MaxOutMsg(p) >= SzWindow /\ ch[p][c].bytes_written > 0
  BY ConstantFacts DEF XmitAcks, AckReady
<1>2. c \in Streams /\ Source[c] # p
  BY <1>1 DEF IInv, FlowControl, Buffers
<1>3. Sink(c) = p /\ c # TO_PEER /\ Cap(c) = StreamCap
  BY <1>2, StreamFacts
<1>4. /\ SzWindow <= CmdCap
      /\ r \in Channel /\ r.rb <= Cap(TO_PEER) /\ r.window = ch[p][TO_PEER].window
      /\ r.bytes_written = ch[p][TO_PEER].bytes_written /\ r.fdh = ch[p][TO_PEER].fdh
  BY <1>1, BufferedFacts
<1>5. ch[p][c] \in Channel /\ ch[p][c].rb <= StreamCap /\ ch[p][c].bytes_written \in Nat
  BY <1>3, ChannelTypes DEF Channel
<1>6. TypeOK /\ StreamInv(c)
  BY <1>2 DEF IInv, FlowControl
<1>7. StreamCap + Len(out[c]) - ch[p][c].bytes_written \in Nat
  <2>1. /\ StreamCap \in Nat /\ Len(out[c]) \in Nat /\ ch[Source[c]][c].window + rd[c] \in Nat
        /\ ch[p][c].bytes_written \in Nat
    BY <1>2, <1>3, <1>6, StreamTypes, ConstantFacts
  <2>2. ch[Source[c]][c].window + rd[c] + ch[p][c].bytes_written <= StreamCap + Len(out[c])
    BY <1>3, <1>6 DEF StreamInv, Credit
  <2>3. QED
    BY <2>1, <2>2
<1>8. /\ m \in Messages /\ Sendable(p, m) /\ m.ch = c /\ IsFor(m, {"WINDOW"}, c)
      /\ m.n = ch[p][c].bytes_written
      /\ m.pos = StreamCap + Len(out[c]) - ch[p][c].bytes_written
  BY <1>1, <1>2, <1>4, <1>5, <1>7 DEF Messages, MsgTypes, Sendable, IsFor
<1>9. Enqueue(p, m)
  BY DEF XmitAcks
<1>10. ch' = [ch EXCEPT ![p][TO_PEER] = r, ![p][c] = t]
  <2>1. [ch EXCEPT ![p][TO_PEER] = r][p][c] = ch[p][c]
    BY <1>3 DEF IInv, TypeOK
  <2>2. ch' = [ch EXCEPT ![p][TO_PEER] = r, ![p][c].bytes_written = 0]
    BY DEF XmitAcks
  <2> HIDE DEF r
  <2>3. QED
    BY <2>1, <2>2
<1>11. /\ t \in Channel /\ t.rb = ch[p][c].rb /\ t.window = ch[p][c].window
       /\ t.bytes_written = 0 /\ t.fdh = ch[p][c].fdh
  BY <1>5 DEF Channel
<1>12. UNCHANGED <<wire, rd, kept, out, stage, todo, cut, failed>>
  BY DEF XmitAcks
<1> HIDE DEF m, r, t
<1>13. \A z \in Peers, x \in Chans : ch'[z][x] =
         IF z = p /\ x = c THEN t ELSE IF z = p /\ x = TO_PEER THEN r ELSE ch[z][x]
  <2>1. ch \in [Peers -> [Chans -> Channel]]
    BY DEF IInv, TypeOK
  <2>2. QED
    BY <1>4, <1>10, <1>11, <2>1, PeerChannelFacts, TwoChannels
<1>14. /\ GoodQueues' /\ q'[Other(p)] = q[Other(p)]
       /\ q'[p] = IF ch[p][TO_PEER].fdh THEN Append(q[p], m) ELSE q[p]
  BY <1>8, <1>9, EnqueueFacts
<1>15. StreamInv(c)'
  <2>1. Source[c] = Other(p) /\ Source[c] \in Peers
    BY <1>2, StreamFacts, PeerFacts
  <2>2. SameSource(c) /\ NoOpen(c)
    BY <1>2, <1>3, <1>4, <1>11, <1>12, <1>13, <2>1, PeerChannelFacts DEF SameSource, NoOpen
  <2>3. ch'[Sink(c)][c] = t
    BY <1>3, <1>13
  <2>4. out'[c] = out[c] /\ kept'[c] = kept[c]
    BY <1>12
  <2>5. QED
    BY <1>2, <1>3, <1>6, <1>8, <1>11, <1>14, <2>1, <2>2, <2>3, <2>4, CreditSent
<1>16. out' \in [Streams -> Seq(Nat)] /\ kept' \in [Streams -> Seq(Nat)]
  BY <1>12 DEF IInv, TypeOK
<1>17. \A z \in Peers, x \in Streams : x # c => QuietQueue(q[z], q'[z], x, ch[Sink(x)][x].fdh)
  BY <1>8, <1>9, OtherAppend
<1>18. QED
  BY <1>2, <1>4, <1>5, <1>10, <1>11, <1>12, <1>14, <1>15, <1>16, <1>17, MessageAction

(* A data message leaves the source's buffer.                              *)
LEMMA XmitMsgStep ==
  ASSUME IInv, NEW p \in Peers, NEW c \in Streams, FromFd(p, c),
         NEW type \in DataTypes, NEW n \in Nat, n <= ch[p][c].rb,
         NEW sz \in Nat, MaxOutMsg(p) >= sz, XmitMsg(p, c, type, n, sz)
  PROVE  IInv'
<1> DEFINE m == [type |-> type, ch |-> c, n |-> n, pos |-> rd[c] - ch[p][c].rb, size |-> sz]
           k == ch[p][c].rb - n
           r == [ch[p][TO_PEER] EXCEPT !.rb = @ + Buffered(p, sz)]
           t == [ch[p][c] EXCEPT !.rb = k]
<1>1. Source[c] = p /\ Sink(c) = Other(p) /\ c # TO_PEER /\ c \in Chans /\ Cap(c) = StreamCap
  BY DirectionFacts, StreamFacts, PeerFacts
<1>2. /\ sz <= CmdCap
      /\ r \in Channel /\ r.rb <= Cap(TO_PEER) /\ r.window = ch[p][TO_PEER].window
      /\ r.bytes_written = ch[p][TO_PEER].bytes_written /\ r.fdh = ch[p][TO_PEER].fdh
  BY BufferedFacts
<1>3. /\ ch[p][c] \in Channel /\ ch[p][c].rb \in Nat /\ ch[p][c].rb <= StreamCap
      /\ k \in Nat /\ k <= StreamCap
  <2>1. ch[p][c] \in Channel /\ ch[p][c].rb \in Nat /\ ch[p][c].rb <= StreamCap
    BY <1>1, ChannelTypes
  <2>2. QED
    BY <2>1, ConstantFacts
<1>4. TypeOK /\ StreamInv(c)
  BY DEF IInv, FlowControl
<1>5. rd[c] - ch[p][c].rb = Sent(c) /\ Sent(c) \in Nat
  <2>1. Sent(c) \in Int /\ Got(c) \in Nat /\ Got(c) <= Sent(c)
    BY <1>4, StreamTypes DEF StreamInv, DataInFlight
  <2>2. QED
    BY <1>1, <2>1 DEF Sent
<1>6. /\ m \in Messages /\ Sendable(p, m) /\ m.ch = c /\ IsFor(m, DataTypes, c)
      /\ m.n = n /\ m.pos = Sent(c)
  <2>1. type \in {"DATA", "LZ4"} /\ type \in MsgTypes
    BY DEF DataTypes, MsgTypes
  <2>2. m \in Messages
    BY <1>1, <1>5, <2>1 DEF Messages
  <2>3. QED
    BY <1>1, <1>2, <1>5, <2>1, <2>2 DEF Sendable, IsFor
<1>7. Enqueue(p, m)
  BY DEF XmitMsg
<1>8. ch' = [ch EXCEPT ![p][TO_PEER] = r, ![p][c] = t]
  <2>1. [ch EXCEPT ![p][TO_PEER] = r][p][c] = ch[p][c]
    BY <1>1 DEF IInv, TypeOK
  <2>2. ch' = [ch EXCEPT ![p][TO_PEER] = r, ![p][c].rb = @ - n]
    BY DEF XmitMsg
  <2> HIDE DEF r
  <2>3. QED
    BY <2>1, <2>2
<1>9. UNCHANGED <<wire, rd, kept, out, stage, todo, cut, failed>>
  BY DEF XmitMsg
<1> HIDE DEF m, r, k
<1>10. /\ t \in Channel /\ t.rb = k /\ t.window = ch[p][c].window
       /\ t.bytes_written = ch[p][c].bytes_written /\ t.fdh = ch[p][c].fdh
  BY <1>3 DEF Channel
<1> HIDE DEF t
<1>11. \A z \in Peers, x \in Chans : ch'[z][x] =
         IF z = p /\ x = c THEN t ELSE IF z = p /\ x = TO_PEER THEN r ELSE ch[z][x]
  <2>1. ch \in [Peers -> [Chans -> Channel]]
    BY DEF IInv, TypeOK
  <2>2. QED
    BY <1>1, <1>2, <1>8, <1>10, <2>1, PeerChannelFacts, TwoChannels
<1>12. /\ GoodQueues' /\ q'[Other(p)] = q[Other(p)]
       /\ q'[p] = IF ch[p][TO_PEER].fdh THEN Append(q[p], m) ELSE q[p]
  BY <1>6, <1>7, EnqueueFacts
<1>13. t.bytes_written = 0
  BY <1>1, <1>10 DEF IInv, FlowControl, Buffers
<1>14. StreamInv(c)'
  <2>1. Sink(c) \in Peers /\ Sink(c) # p
    BY <1>1, StreamFacts
  <2>2. SameSink(c) /\ NoOpen(c)
    BY <1>1, <1>2, <1>9, <1>11, <2>1, PeerChannelFacts DEF SameSink, NoOpen
  <2>3. ch'[Source[c]][c] = t /\ rd'[c] = rd[c]
    BY <1>1, <1>9, <1>11
  <2>4. t.rb = ch[Source[c]][c].rb - m.n /\ t.rb \in Nat
    BY <1>1, <1>3, <1>6, <1>10 DEF k
  <2>5. QED
    BY <1>1, <1>4, <1>6, <1>10, <1>12, <2>2, <2>3, <2>4, DataSent
<1>15. out' \in [Streams -> Seq(Nat)] /\ kept' \in [Streams -> Seq(Nat)]
  BY <1>9 DEF IInv, TypeOK
<1>16. \A z \in Peers, x \in Streams : x # c => QuietQueue(q[z], q'[z], x, ch[Sink(x)][x].fdh)
  BY <1>6, <1>7, OtherAppend
<1>17. QED
  BY <1>2, <1>3, <1>8, <1>9, <1>10, <1>12, <1>13, <1>14, <1>15, <1>16, MessageAction

(* A compressed or uncompressed block of the source's buffer is sent.      *)
LEMMA XmitUncompressedStep ==
  ASSUME IInv, NEW p \in Peers, NEW c \in Streams, FromFd(p, c),
         NEW avail \in Nat, avail <= ch[p][c].rb, XmitDataUncompressed(p, c, avail)
  PROVE  IInv'
<1> DEFINE n == MinOf(avail, MaxOutMsg(p) - SzData)
<1>1. MaxOutMsg(p) >= SzData /\ XmitMsg(p, c, "DATA", n, SzData + n)
  BY DEF XmitDataUncompressed
<1>2. MaxOutMsg(p) \in Int /\ SzData \in Nat /\ ch[p][c].rb \in Nat
  BY ConstantFacts, PeerChannelFacts, StreamFacts, ChannelTypes DEF MaxOutMsg, Room, MinOf
<1>3. n \in Nat /\ n <= ch[p][c].rb /\ SzData + n \in Nat /\ MaxOutMsg(p) >= SzData + n
  BY <1>1, <1>2 DEF MinOf
<1>4. "DATA" \in DataTypes
  BY DEF DataTypes
<1> HIDE DEF n
<1>5. QED
  BY <1>1, <1>3, <1>4, XmitMsgStep

(* xmit_data.                                                              *)
LEMMA XmitDataStep ==
  ASSUME IInv, NEW p \in Peers, NEW c \in Chans, XmitData(p, c)
  PROVE  IInv'
<1>1. c \in Streams /\ FromFd(p, c)
  BY DEF XmitData, DataReady
<1>2. ch[p][c].rb \in Nat /\ ch[p][c].rb <= ch[p][c].rb
  BY ChannelTypes
<1>3. CASE XmitDataUncompressed(p, c, ch[p][c].rb)
  BY <1>1, <1>2, <1>3, XmitUncompressedStep
<1>4. ASSUME NEW consumed \in 1 .. MinOf(ch[p][c].rb, MaxBlock),
             \/ XmitDataUncompressed(p, c, consumed)
             \/ \E outsz \in 1 .. MaxOutMsg(p) - SzLz4 :
                  XmitMsg(p, c, "LZ4", consumed, SzLz4 + outsz)
      PROVE  IInv'
  <2>1. consumed \in Nat /\ consumed <= ch[p][c].rb
    BY <1>2, ConstantFacts DEF MinOf
  <2>2. CASE XmitDataUncompressed(p, c, consumed)
    BY <1>1, <2>1, <2>2, XmitUncompressedStep
  <2>3. CASE \E outsz \in 1 .. MaxOutMsg(p) - SzLz4 :
               XmitMsg(p, c, "LZ4", consumed, SzLz4 + outsz)
    <3>1. PICK outsz \in 1 .. MaxOutMsg(p) - SzLz4 :
            XmitMsg(p, c, "LZ4", consumed, SzLz4 + outsz)
      BY <2>3
    <3>2. MaxOutMsg(p) \in Int /\ SzLz4 \in Nat
      BY ConstantFacts, PeerChannelFacts, ChannelTypes DEF MaxOutMsg, Room, MinOf
    <3>3. SzLz4 + outsz \in Nat /\ MaxOutMsg(p) >= SzLz4 + outsz
      BY <3>2
    <3>4. "LZ4" \in DataTypes
      BY DEF DataTypes
    <3>5. QED
      BY <1>1, <2>1, <3>1, <3>3, <3>4, XmitMsgStep
  <2>4. QED
    BY <1>4, <2>2, <2>3
<1>5. QED
  BY <1>3, <1>4 DEF XmitData, XmitDataLz4

(* No message is larger than the receive buffer.                           *)
LEMMA NoImpossibleMsg ==
  ASSUME IInv, NEW p \in Peers
  PROVE  ~MsgImpossible(p)
<1> SUFFICES ASSUME MsgImpossible(p) PROVE FALSE
  OBVIOUS
<1>1. q[Other(p)] \in Seq(Messages) /\ q[Other(p)] # <<>> /\ Other(p) \in Peers
  BY PeerFacts DEF IInv, TypeOK, MsgImpossible
<1>2. 1 \in 1 .. Len(q[Other(p)]) /\ Head(q[Other(p)]) = q[Other(p)][1]
  BY <1>1
<1>3. Head(q[Other(p)]).size <= CmdCap
  BY <1>1, <1>2 DEF IInv, FlowControl, Sendable
<1>4. Head(q[Other(p)]) \in Messages
  BY <1>1
<1>5. Head(q[Other(p)]).size \in Nat
  BY <1>4 DEF Messages
<1>6. ch[p][FROM_PEER].rb \in Nat /\ CmdCap \in Nat /\ Cap(FROM_PEER) = CmdCap
  BY ConstantFacts, PeerChannelFacts, ChannelTypes DEF Cap
<1>7. Head(q[Other(p)]).size - ch[p][FROM_PEER].rb > CmdCap - ch[p][FROM_PEER].rb
  BY <1>6 DEF MsgImpossible, Room
<1>8. QED
  BY <1>3, <1>5, <1>6, <1>7

(* The first window message of stream c keeps the window within bounds.    *)
LEMMA FirstCredit ==
  ASSUME TypeOK, NEW s \in Streams, StreamInv(s),
         q[Sink(s)] # <<>>, IsFor(Head(q[Sink(s)]), {"WINDOW"}, s)
  PROVE  /\ Head(q[Sink(s)]).n \in Nat
         /\ ch[Source[s]][s].window + Head(q[Sink(s)]).n <= StreamCap
<1> DEFINE m == Head(q[Sink(s)])
<1>1. Ranged(q[Sink(s)], {"WINDOW"}, s, ch[Source[s]][s].window + rd[s],
             StreamCap + Len(out[s]) - ch[Sink(s)][s].bytes_written)
  BY DEF StreamInv, CreditInFlight
<1>2. /\ q[Sink(s)] \in Seq(Messages) /\ ch[Source[s]][s].window + rd[s] \in Int
      /\ StreamCap + Len(out[s]) - ch[Sink(s)][s].bytes_written \in Int
  BY StreamTypes
<1>3. /\ ch[Source[s]][s].window + rd[s] <= m.pos
      /\ m.pos + m.n <= StreamCap + Len(out[s]) - ch[Sink(s)][s].bytes_written
  BY <1>1, <1>2, RangedTail
<1>4. Len(out[s]) + ch[Sink(s)][s].rb <= rd[s] - ch[Source[s]][s].rb
  BY DEF StreamInv, DataInFlight, Got, Sent
<1>5. m \in Messages
  BY <1>2
<1>6. m.pos \in Nat /\ m.n \in Nat
  BY <1>5 DEF Messages
<1>7. /\ Len(out[s]) \in Nat /\ rd[s] \in Nat /\ StreamCap \in Nat
      /\ ch[Sink(s)][s].rb \in Nat /\ ch[Sink(s)][s].bytes_written \in Nat
      /\ ch[Source[s]][s].window \in Nat /\ ch[Source[s]][s].rb \in Nat
  BY StreamTypes, ConstantFacts
<1> HIDE DEF m
<1>8. ch[Source[s]][s].window + m.n <= StreamCap
  BY <1>3, <1>4, <1>6, <1>7, CreditFits, Zenon
<1>9. QED
  BY <1>6, <1>8 DEF m

(* A window message for an open stream.                                    *)
LEMMA CreditAction ==
  ASSUME IInv, NEW p \in Peers, NEW c \in Streams, RecvWindow(p), Head1(p).ch = c,
         Source[c] = p, ch[p][c].fdh
  PROVE  IInv'
<1> DEFINE m == Head1(p)
           k == ch[p][c].window + m.n
           r == [ch[p][FROM_PEER] EXCEPT !.rb = @ - m.size]
           t == [ch[p][c] EXCEPT !.window = k]
<1>1. MsgReady(p) /\ m.type = "WINDOW" /\ m = Head(q[Other(p)]) /\ q[Other(p)] # <<>>
  BY HeadFacts DEF RecvWindow, Head1
<1>2. /\ Sink(c) = Other(p) /\ Sink(c) \in Peers /\ Sink(c) # p /\ FromFd(p, c)
      /\ c \in Chans /\ c # FROM_PEER /\ c # TO_PEER /\ Cap(c) = StreamCap
  BY StreamFacts, PeerFacts, DirectionFacts
<1>3. TypeOK /\ StreamInv(c)
  BY DEF IInv, FlowControl
<1>4. IsFor(Head(q[Sink(c)]), {"WINDOW"}, c) /\ q[Sink(c)] # <<>>
  BY <1>1, <1>2 DEF IsFor
<1>5. m.n \in Nat /\ ch[p][c].window + m.n <= StreamCap
  BY <1>1, <1>2, <1>3, <1>4, FirstCredit
<1>6. ch[p][c] \in Channel /\ ch[p][c].window \in Nat /\ ch[p][c].rb <= StreamCap
  BY <1>2, WantedReadFacts
<1>7. k \in Nat /\ ~(k > U32Max)
  BY <1>5, <1>6, ConstantFacts
<1>8. /\ q' = [q EXCEPT ![Other(p)] = Tail(@)]
      /\ ch' = [ch EXCEPT ![p][FROM_PEER] = r, ![p][c] = t]
      /\ UNCHANGED <<wire, rd, kept, out, stage, todo, cut, failed>>
  BY <1>2, <1>7 DEF RecvWindow, Consume
<1>9. /\ r \in Channel /\ r.rb <= Cap(FROM_PEER)
      /\ r.bytes_written = ch[p][FROM_PEER].bytes_written /\ r.fdh = ch[p][FROM_PEER].fdh
  BY <1>1, TakenFacts
<1>10. k = ch[Source[c]][c].window + Head(q[Sink(c)]).n
  BY <1>1, <1>2
<1> HIDE DEF r, k, m
<1>11. /\ t \in Channel /\ t.rb = ch[p][c].rb /\ t.window = k
       /\ t.bytes_written = ch[p][c].bytes_written /\ t.fdh = ch[p][c].fdh
  BY <1>6, <1>7 DEF Channel
<1> HIDE DEF t
<1>12. \A z \in Peers, x \in Chans : ch'[z][x] =
         IF z = p /\ x = c THEN t ELSE IF z = p /\ x = FROM_PEER THEN r ELSE ch[z][x]
  <2>1. ch \in [Peers -> [Chans -> Channel]]
    BY DEF IInv, TypeOK
  <2>2. QED
    BY <1>2, <1>8, <1>9, <1>11, <2>1, PeerChannelFacts, TwoChannels
<1>13. GoodQueues' /\ q'[p] = q[p] /\ q'[Other(p)] = Tail(q[Other(p)])
  BY <1>1, <1>8, TailQueues
<1>14. t.bytes_written = 0
  BY <1>2, <1>11 DEF IInv, FlowControl, Buffers
<1>15. StreamInv(c)'
  <2>1. UNCHANGED <<rd, kept, out>>
    BY <1>8
  <2>2. /\ ch'[p][c] = t /\ ch'[p][TO_PEER] = ch[p][TO_PEER]
        /\ ch'[Sink(c)][c] = ch[Sink(c)][c]
    BY <1>2, <1>12, PeerChannelFacts
  <2>3. SameSink(c) /\ NoOpen(c)
    BY <2>1, <2>2 DEF SameSink, NoOpen
  <2>4. ch'[Source[c]][c] = t /\ rd'[c] = rd[c]
    BY <2>1, <2>2
  <2>5. QED
    BY <1>2, <1>3, <1>4, <1>10, <1>11, <1>13, <2>3, <2>4, CreditArrives
<1>16. /\ out' \in [Streams -> Seq(Nat)] /\ kept' \in [Streams -> Seq(Nat)]
       /\ \A x \in Streams : x # c => out'[x] = out[x] /\ kept'[x] = kept[x]
  BY <1>8 DEF IInv, TypeOK
<1>17. \A z \in Peers, x \in Streams : x # c => QuietQueue(q[z], q'[z], x, ch[Sink(x)][x].fdh)
  <2>1. \A z \in Peers, x \in Streams :
          x # Head1(p).ch => QuietQueue(q[z], q'[z], x, ch[Sink(x)][x].fdh)
    BY <1>1, <1>8, OtherTail
  <2>2. QED
    BY <2>1, Zenon
<1>18. QED
  BY <1>6, <1>8, <1>9, <1>11, <1>13, <1>14, <1>15, <1>16, <1>17, MessageAction

(* MSG_CHANNEL_WINDOW.                                                     *)
LEMMA RecvWindowStep ==
  ASSUME IInv, NEW p \in Peers, RecvWindow(p)
  PROVE  IInv'
<1>1. MsgReady(p) /\ Head1(p).type = "WINDOW"
  BY DEF RecvWindow
<1>2. Head1(p) \in Messages /\ Sendable(Other(p), Head1(p))
  BY <1>1, HeadFacts
<1>3. Head1(p).ch \in Streams /\ Source[Head1(p).ch] # Other(p)
  BY <1>1, <1>2 DEF Sendable
<1>4. PICK c \in Streams : Head1(p).ch = c
  BY <1>3
<1>5. Source[c] = p /\ FromFd(p, c)
  BY <1>3, <1>4, StreamFacts, PeerFacts, DirectionFacts
<1>6. CASE ~ch[p][c].fdh
  <2>1. ConsumeOnly(p)
    BY <1>4, <1>5, <1>6 DEF RecvWindow
  <2>2. \A s \in Streams : ~IsFor(Head1(p), DataTypes, s)
    BY <1>1 DEF IsFor, DataTypes
  <2>3. QED
    BY <1>1, <2>1, <2>2, ConsumeOnlyStep
<1>7. CASE ch[p][c].fdh
  BY <1>4, <1>5, <1>7, CreditAction
<1>8. QED
  BY <1>6, <1>7

(* What channel_write may write directly.                                  *)
LEMMA DirectFacts ==
  ASSUME NEW p, NEW c, NEW n \in Nat, NEW d \in DirectSizes(p, c, n)
  PROVE  d \in 0 .. n /\ (d > 0 => ch[p][c].rb = 0)
BY DEF DirectSizes

(* Data for an open sink.                                                  *)
LEMMA DataAction ==
  ASSUME IInv, NEW p \in Peers, NEW c \in Streams, RecvData(p), Head1(p).ch = c,
         Sink(c) = p, ch[p][c].fdh
  PROVE  IInv'
<1> DEFINE m == Head1(p)
           r == [ch[p][FROM_PEER] EXCEPT !.rb = @ - m.size]
<1>1. /\ MsgReady(p) /\ m.type \in {"DATA", "LZ4"} /\ m = Head(q[Other(p)])
      /\ q[Other(p)] # <<>>
  BY HeadFacts DEF RecvData, Head1
<1>2. /\ Source[c] = Other(p) /\ Source[c] \in Peers /\ Source[c] # p /\ ~FromFd(p, c)
      /\ c \in Chans /\ c # FROM_PEER /\ c # TO_PEER /\ Cap(c) = StreamCap
  BY StreamFacts, PeerFacts, DirectionFacts
<1>3. TypeOK /\ StreamInv(c) /\ Numbered(c)
  BY DEF IInv, FlowControl, StreamInv
<1>4. IsFor(Head(q[Source[c]]), DataTypes, c) /\ q[Source[c]] # <<>>
  BY <1>1, <1>2 DEF IsFor, DataTypes
<1>5. m.pos \in Nat /\ m.n \in Nat /\ ch[p][c].rb + m.n <= StreamCap /\ m.pos = Got(c)
  BY <1>1, <1>2, <1>3, <1>4, FirstData
<1>6. /\ ch[p][c] \in Channel /\ ch[p][c].rb \in Nat /\ ch[p][c].bytes_written \in Nat
      /\ StreamCap \in Nat
  BY <1>2, ChannelTypes, ConstantFacts DEF Channel
<1>7. ~(Room(p, c) < m.n)
  BY <1>2, <1>5, <1>6 DEF Room
<1>8. PICK d \in DirectSizes(p, c, m.n) :
        /\ out' = [out EXCEPT ![c] = @ \o Bytes(m.pos, d)]
        /\ kept' = [kept EXCEPT ![c] = @ \o Bytes(m.pos + d, m.n - d)]
        /\ Consume(p, c, [ch[p][c] EXCEPT !.bytes_written = @ + d, !.rb = @ + (m.n - d)])
  BY <1>2, <1>7 DEF RecvData
<1>9. d \in 0 .. m.n /\ (d > 0 => ch[p][c].rb = 0) /\ d \in Nat /\ m.n - d \in Nat
  <2>1. d \in 0 .. m.n /\ (d > 0 => ch[p][c].rb = 0)
    BY <1>5, DirectFacts
  <2>2. QED
    BY <1>5, <2>1
<1> DEFINE a == ch[p][c].bytes_written + d
           b == ch[p][c].rb + (m.n - d)
           t == [ch[p][c] EXCEPT !.bytes_written = a, !.rb = b]
<1>10. a \in Nat /\ b \in Nat /\ b <= StreamCap
  BY <1>5, <1>6, <1>9
<1>11. /\ q' = [q EXCEPT ![Other(p)] = Tail(@)]
       /\ ch' = [ch EXCEPT ![p][FROM_PEER] = r, ![p][c] = t]
  BY <1>8 DEF Consume
<1>12. UNCHANGED <<wire, rd, stage, todo, cut, failed>>
  BY <1>8 DEF Consume
<1>13. /\ r \in Channel /\ r.rb <= Cap(FROM_PEER)
       /\ r.bytes_written = ch[p][FROM_PEER].bytes_written /\ r.fdh = ch[p][FROM_PEER].fdh
  BY <1>1, TakenFacts
<1>14. /\ t \in Channel /\ t.rb = b /\ t.bytes_written = a /\ t.fdh = ch[p][c].fdh
  <2> HIDE DEF a, b
  <2>1. QED
    BY <1>6, <1>10 DEF Channel
<1> HIDE DEF r, t
<1>15. \A z \in Peers, x \in Chans : ch'[z][x] =
         IF z = p /\ x = c THEN t ELSE IF z = p /\ x = FROM_PEER THEN r ELSE ch[z][x]
  <2>1. ch \in [Peers -> [Chans -> Channel]]
    BY DEF IInv, TypeOK
  <2>2. QED
    BY <1>2, <1>11, <1>13, <1>14, <2>1, PeerChannelFacts, TwoChannels
<1>16. GoodQueues' /\ q'[p] = q[p] /\ q'[Other(p)] = Tail(q[Other(p)])
  BY <1>1, <1>11, TailQueues
<1> DEFINE o2 == out[c] \o Bytes(m.pos, d)
           k2 == kept[c] \o Bytes(m.pos + d, m.n - d)
<1>17. /\ o2 \in Seq(Nat) /\ k2 \in Seq(Nat) /\ Len(o2) = Len(out[c]) + d
       /\ Len(k2) = Len(kept[c]) + (m.n - d)
       /\ NumberedFrom(0, o2) /\ NumberedFrom(Len(out[c]) + d, k2)
  <2>1. out[c] \in Seq(Nat) /\ kept[c] \in Seq(Nat) /\ Len(kept[c]) = ch[p][c].rb
    BY <1>3, StreamTypes DEF Numbered
  <2>2. NumberedPair(out[c], kept[c])
    BY <1>3, <2>1 DEF Numbered, NumberedPair
  <2>3. Payload(out[c], kept[c], m.pos, d, m.n - d)
    BY <1>5, <1>9, <2>1 DEF Payload, Got
  <2>4. PayloadStored(out[c], kept[c], m.pos, d, m.n - d)
    BY <2>2, <2>3, NumberedReceive, Zenon
  <2>5. /\ NumberedPair(o2, k2) /\ Len(o2) = Len(out[c]) + d
        /\ Len(k2) = Len(kept[c]) + (m.n - d)
    BY <2>4, Zenon DEF PayloadStored
  <2> HIDE DEF o2, k2
  <2>6. QED
    BY <2>5, Zenon DEF NumberedPair
<1>18. out' = [out EXCEPT ![c] = o2] /\ kept' = [kept EXCEPT ![c] = k2]
  BY <1>8
<1> HIDE DEF o2, k2
<1>19. /\ out' \in [Streams -> Seq(Nat)] /\ kept' \in [Streams -> Seq(Nat)]
       /\ out'[c] = o2 /\ kept'[c] = k2
       /\ \A x \in Streams : x # c => out'[x] = out[x] /\ kept'[x] = kept[x]
  BY <1>17, <1>18 DEF IInv, TypeOK
<1>20. ch'[p][c] = t /\ ch'[Source[c]] = ch[Source[c]] /\ ch'[p][TO_PEER] = ch[p][TO_PEER]
  <2>1. ch'[p][c] = t /\ ch'[p][TO_PEER] = ch[p][TO_PEER]
    BY <1>2, <1>15, PeerChannelFacts
  <2>2. ch'[Source[c]] = ch[Source[c]]
    BY <1>2, <1>11 DEF IInv, TypeOK
  <2>3. QED
    BY <2>1, <2>2
<1>21. Numbered(c)'
  <2>1. Len(kept[c]) = ch[p][c].rb
    BY <1>3 DEF Numbered
  <2>2. Len(kept'[c]) = ch'[Sink(c)][c].rb
    BY <1>14, <1>17, <1>19, <1>20, <2>1, Zenon
  <2>3. NumberedFrom(0, out'[c]) /\ NumberedFrom(Len(out'[c]), kept'[c])
    BY <1>17, <1>19, Zenon
  <2>4. QED
    BY <2>2, <2>3 DEF Numbered, Sink
<1>22. StreamInv(c)'
  <2>1. rd' = rd
    BY <1>12
  <2>2. SameSource(c) /\ NoOpen(c)
    BY <1>14, <1>20, <2>1 DEF SameSource, NoOpen
  <2>3. Len(out'[c]) = Len(out[c]) + d
    BY <1>17, <1>19, Zenon
  <2>4. /\ ch'[Sink(c)][c].rb = ch[Sink(c)][c].rb + (m.n - d)
        /\ ch'[Sink(c)][c].bytes_written = ch[Sink(c)][c].bytes_written + d
    BY <1>14, <1>20
  <2>5. m.n = Head(q[Source[c]]).n /\ m.n \in Nat /\ d \in Nat
    BY <1>1, <1>2, <1>5, <1>9
  <2>6. q'[Source[c]] = Tail(q[Source[c]]) /\ q'[Sink(c)] = q[Sink(c)]
    BY <1>2, <1>16
  <2>7. TypeOK /\ StreamInv(c) /\ ch[Sink(c)][c].fdh
    BY <1>3
  <2> HIDE DEF m
  <2>8. QED
    BY <1>4, <1>21, <2>2, <2>3, <2>4, <2>5, <2>6, <2>7, DataArrives
<1>23. \A z \in Peers, x \in Streams : x # c => QuietQueue(q[z], q'[z], x, ch[Sink(x)][x].fdh)
  <2>1. \A z \in Peers, x \in Streams :
          x # Head1(p).ch => QuietQueue(q[z], q'[z], x, ch[Sink(x)][x].fdh)
    BY <1>1, <1>11, OtherTail
  <2>2. QED
    BY <2>1, Zenon
<1>24. t.rb <= StreamCap
  BY <1>10, <1>14
<1> HIDE DEF m, a, b
<1>25. QED
  BY <1>2, <1>11, <1>12, <1>13, <1>14, <1>16, <1>19, <1>22, <1>23, <1>24, MessageAction

(* MSG_CHANNEL_DATA and MSG_CHANNEL_DATA_LZ4.                              *)
LEMMA RecvDataStep ==
  ASSUME IInv, NEW p \in Peers, RecvData(p)
  PROVE  IInv'
<1>1. MsgReady(p) /\ Head1(p).type \in {"DATA", "LZ4"}
  BY DEF RecvData
<1>2. Head1(p) \in Messages /\ Sendable(Other(p), Head1(p))
  BY <1>1, HeadFacts
<1>3. Head1(p).ch \in Streams /\ Source[Head1(p).ch] = Other(p)
  BY <1>1, <1>2 DEF Sendable
<1>4. PICK c \in Streams : Head1(p).ch = c
  BY <1>3
<1>5. Sink(c) = p /\ ~FromFd(p, c)
  BY <1>3, <1>4, StreamFacts, PeerFacts, DirectionFacts
<1>6. CASE ~ch[p][c].fdh
  <2>1. ConsumeOnly(p)
    BY <1>4, <1>5, <1>6 DEF RecvData
  <2>2. \A s \in Streams : IsFor(Head1(p), DataTypes, s) => ~ch[Sink(s)][s].fdh
    BY <1>4, <1>5, <1>6 DEF IsFor
  <2>3. QED
    BY <1>1, <2>1, <2>2, ConsumeOnlyStep
<1>7. CASE ch[p][c].fdh
  BY <1>4, <1>5, <1>7, DataAction
<1>8. QED
  BY <1>6, <1>7

----------------------------------------------------------------------------
(* The inductive invariant and the properties.                             *)

(* A process that has just connected.                                      *)
LEMMA InitInv ==
  ASSUME Init
  PROVE  IInv
<1>1. ASSUME NEW p \in Peers, NEW c \in Chans
      PROVE  /\ NewChannel(p, c) \in Channel /\ NewChannel(p, c).rb = 0
             /\ c \in Streams /\ Source[c] = p =>
                  NewChannel(p, c).window = 0 /\ NewChannel(p, c).bytes_written = 0
             /\ c \in Streams /\ Source[c] # p => NewChannel(p, c).bytes_written = StreamCap
             /\ c \notin Streams => NewChannel(p, c).bytes_written = 0
  BY ConstantFacts, StreamFacts DEF NewChannel, Channel, FromFd
<1>2. /\ ch \in [Peers -> [Chans -> Channel]]
      /\ \A p \in Peers, c \in Chans : ch[p][c] = NewChannel(p, c)
  BY <1>1 DEF Init
<1>3. TypeOK
  <2>1. <<>> \in Seq(Messages) /\ <<>> \in Seq(Nat)
    OBVIOUS
  <2>2. /\ q \in [Peers -> Seq(Messages)]
        /\ out \in [Streams -> Seq(Nat)] /\ kept \in [Streams -> Seq(Nat)]
    BY <2>1, Zenon DEF Init
  <2>3. /\ wire \in [Peers -> Nat] /\ rd \in [Streams -> Nat] /\ stage \in [Peers -> Stages]
        /\ todo \in [Peers -> SUBSET Chans] /\ cut \in BOOLEAN /\ failed \in [Peers -> Errors]
    BY DEF Init, Stages, Errors
  <2>4. QED
    BY <1>2, <2>2, <2>3 DEF TypeOK
<1>4. NoProtocolError
  BY DEF Init, NoProtocolError
<1>5. Buffers
  BY <1>1, <1>2, ConstantFacts DEF Buffers
<1>6. ASSUME NEW s \in Streams PROVE StreamInv(s)
  <2>1. /\ ch[Source[s]][s].window = 0 /\ ch[Source[s]][s].rb = 0
        /\ ch[Sink(s)][s].rb = 0 /\ ch[Sink(s)][s].bytes_written = StreamCap
    BY <1>1, <1>2, StreamFacts
  <2>2. /\ rd[s] = 0 /\ out[s] = <<>> /\ kept[s] = <<>>
        /\ q[Source[s]] = <<>> /\ q[Sink(s)] = <<>>
    BY StreamFacts DEF Init
  <2>3. Sent(s) = 0 /\ Got(s) = 0
    BY <2>1, <2>2 DEF Sent, Got
  <2>4. Credit(s) /\ Numbered(s)
    BY <2>1, <2>2, ConstantFacts DEF Credit, Numbered, NumberedFrom
  <2>5. CreditInFlight(s)
    BY <2>2 DEF CreditInFlight, Ranged
  <2>6. DataInFlight(s)
    BY <2>2, <2>3 DEF DataInFlight, Ranged
  <2>7. Contiguous(s)
    BY <2>2, <2>3 DEF Contiguous, NoGap
  <2>8. QED
    BY <2>4, <2>5, <2>6, <2>7 DEF StreamInv
<1>7. \A p \in Peers : \A i \in 1 .. Len(q[p]) : Sendable(p, q[p][i])
  <2>1. \A p \in Peers : Len(q[p]) = 0
    BY DEF Init
  <2>2. QED
    BY <2>1
<1>8. QED
  BY <1>3, <1>4, <1>5, <1>6, <1>7 DEF IInv, FlowControl

(* Every step of the two processes and of the connection keeps IInv.       *)
LEMMA NextInv ==
  ASSUME IInv, [Next]_vars
  PROVE  IInv'
<1>1. CASE UNCHANGED vars
  BY <1>1, StutterAction DEF vars, IInv, TypeOK, OtherTypes
<1>2. CASE LoseConnection
  BY <1>2, LoseConnectionStep
<1>3. ASSUME NEW p \in Peers, PumpStep(p) PROVE IInv'
  <2>1. ~ImpossibleMsg(p)
    BY NoImpossibleMsg DEF ImpossibleMsg
  <2>2. ASSUME NEW c \in Chans,
               XmitAcks(p, c) \/ XmitData(p, c) \/ DoPendingClose(p, c) \/ XmitEof(p, c)
        PROVE  IInv'
    BY <2>2, XmitAcksStep, XmitDataStep, DoPendingCloseStep, XmitEofStep
  <2>3. QED
    BY <1>3, <2>1, <2>2, RecvDataStep, RecvWindowStep, RecvCloseStep, DropPartialStep,
       PumpReturnsStep DEF PumpStep
<1>4. ASSUME NEW p \in Peers, IoStep(p) PROVE IInv'
  <2>1. ASSUME NEW s \in Streams,
               \/ StreamRead(p, s) \/ StreamEof(p, s)
               \/ StreamWrite(p, s) \/ StreamWriteError(p, s)
        PROVE  IInv'
    BY <2>1, StreamReadStep, StreamEofStep, StreamWriteStep, StreamWriteErrorStep
  <2>2. QED
    BY <1>4, <2>1, PeerReadStep, PeerEofStep, PeerWriteStep, PeerWriteErrorStep DEF IoStep
<1>5. ASSUME NEW p \in Peers, MainStep(p) PROVE IInv'
  <2>1. ASSUME NEW cs \in SUBSET Chans,
               Shut(p, cs) \/ \E n \in ControlArgs : SendControl(p, n, cs)
        PROVE  IInv'
    BY <2>1, ShutStep, SendControlStep
  <2>2. QED
    BY <1>5, <2>1, RecvControlStep, PollStep, PollNothingStep, ExitStep DEF MainStep
<1>6. QED
  BY <1>1, <1>2, <1>3, <1>4, <1>5, TemporaryStep DEF Next

(* The inductive invariant holds in every reachable state.                 *)
LEMMA Inductive == Spec => []IInv
<1>1. Init => IInv
  BY InitInv
<1>2. IInv /\ [Next]_vars => IInv'
  BY NextInv
<1>3. QED
  BY <1>1, <1>2, PTL DEF Spec

(* The accounting of credit and data (core.c, xmit_acks, xmit_data and the *)
(* handlers of their messages) is an invariant of the two processes, for   *)
(* any number of streams, any buffer and message sizes and any main        *)
(* programs.                                                               *)
THEOREM Accounting == Spec => [](TypeOK /\ FlowControl)
<1>1. IInv => TypeOK /\ FlowControl
  BY DEF IInv
<1>2. QED
  BY <1>1, Inductive, PTL

(* No process is made to die by what its peer sends (core.c,               *)
(* die_proto_error).                                                       *)
THEOREM NeverDies == Spec => []NoProtocolError
<1>1. IInv => NoProtocolError
  BY DEF IInv
<1>2. QED
  BY <1>1, Inductive, PTL

(* No ring buffer is asked to hold more than its capacity, and neither a   *)
(* window nor a write counter can overflow (ringbuf_note_added,            *)
(* poll_channel_2).                                                        *)
THEOREM BuffersSuffice == Spec => []WithinCapacity
<1>1. IInv => WithinCapacity
  <2> SUFFICES ASSUME IInv PROVE WithinCapacity
    OBVIOUS
  <2>1. \A p \in Peers, c \in Chans : ch[p][c].rb <= Cap(c)
    BY DEF IInv, FlowControl, Buffers
  <2>2. ASSUME NEW s \in Streams
        PROVE  ch[Source[s]][s].window + ch[Sink(s)][s].bytes_written <= StreamCap
    <3>1. /\ Len(out[s]) \in Nat /\ rd[s] \in Nat /\ StreamCap \in Nat
          /\ ch[Sink(s)][s].rb \in Nat /\ ch[Sink(s)][s].bytes_written \in Nat
          /\ ch[Source[s]][s].window \in Nat /\ ch[Source[s]][s].rb \in Nat
      BY StreamTypes, ConstantFacts DEF IInv
    <3>2. /\ Len(out[s]) + ch[Sink(s)][s].rb <= rd[s] - ch[Source[s]][s].rb
          /\ ch[Source[s]][s].window + rd[s] + ch[Sink(s)][s].bytes_written
               <= StreamCap + Len(out[s])
      BY DEF IInv, FlowControl, StreamInv, DataInFlight, Got, Sent, Credit
    <3>3. QED
      BY <3>1, <3>2, WindowBound, Zenon
  <2>3. QED
    BY <2>1, <2>2 DEF WithinCapacity
<1>2. QED
  BY <1>1, Inductive, PTL

(* A sink delivers a prefix of what its source read, in order, without     *)
(* gaps or repetition (channel_write, poll_channel_2).                     *)
THEOREM DeliversInOrder == Spec => []InOrder
<1>1. IInv => InOrder
  <2> SUFFICES ASSUME IInv, NEW s \in Streams
               PROVE  /\ Len(out[s] \o kept[s]) <= rd[s]
                      /\ out[s] \o kept[s] = Bytes(0, Len(out[s] \o kept[s]))
    BY DEF InOrder
  <2> DEFINE got == out[s] \o kept[s]
  <2>1. /\ out[s] \in Seq(Nat) /\ kept[s] \in Seq(Nat) /\ rd[s] \in Nat
        /\ ch[Source[s]][s].rb \in Nat /\ Len(out[s]) \in Nat /\ Len(kept[s]) \in Nat
    BY StreamTypes DEF IInv
  <2>2. /\ NumberedFrom(0, out[s]) /\ NumberedFrom(Len(out[s]), kept[s])
        /\ Len(kept[s]) = ch[Sink(s)][s].rb
    BY DEF IInv, FlowControl, StreamInv, Numbered
  <2>3. 0 \in Nat /\ 0 + Len(out[s]) = Len(out[s])
    BY <2>1
  <2>4. got \in Seq(Nat) /\ Len(got) = Len(out[s]) + Len(kept[s]) /\ NumberedFrom(0, got)
    BY <2>1, <2>2, <2>3, ConcatNumbered, Zenon
  <2>5. Len(out[s]) + ch[Sink(s)][s].rb <= rd[s] - ch[Source[s]][s].rb
    BY DEF IInv, FlowControl, StreamInv, DataInFlight, Got, Sent
  <2> HIDE DEF got
  <2>6. Len(got) <= rd[s]
    <3>1. Len(got) <= rd[s] - ch[Source[s]][s].rb /\ Len(got) \in Nat
      BY <2>2, <2>4, <2>5
    <3>2. QED
      BY <2>1, <3>1
  <2>7. got = Bytes(0, Len(got))
    <3>0. got \in Seq(Nat)
      BY <2>4
    <3>1. Len(got) \in Nat /\ DOMAIN got = 1 .. Len(got)
      BY <3>0
    <3>2. \A i \in 1 .. Len(got) : got[i] = 0 + i
      BY <2>4 DEF NumberedFrom
    <3>3. got = [i \in 1 .. Len(got) |-> got[i]]
      BY <3>0
    <3>4. QED
      BY <3>1, <3>2, <3>3 DEF Bytes
  <2>8. QED
    BY <2>6, <2>7 DEF got
<1>2. QED
  BY <1>1, Inductive, PTL
============================================================================

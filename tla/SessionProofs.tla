--------------------------- MODULE SessionProofs ---------------------------
(* The main programs of shex and stub use the connection as Mux.tla lets   *)
(* any main program use it, so what MuxProofs.tla proves of the connection *)
(* holds of every session.  On top of it: how a session ends.  No end of   *)
(* file overtakes data, no status overtakes output, and a connection is    *)
(* reported lost only when it was.                                         *)
EXTENDS Session, MuxProofs

(* What the control messages carry: stub sends an exit status only after   *)
(* child_wait, and the sizes shex sends are sizes the terminal had.        *)
Carried ==
  /\ winsize \in 0 .. MaxWinch /\ ws \in 0 .. MaxWinch
  /\ child \in Statuses \cup {NoStatus}
  /\ pc \in [Peers -> ShexPcs \cup StubPcs]
  /\ pc["stub"] = "send" => child \in Statuses

(* A session starts with nothing to send.                                  *)
LEMMA CarriedInit ==
  ASSUME SInit
  PROVE  Carried
BY SessionAssumption DEF SInit, Carried, ShexPcs, StubPcs, Peers

(* Steps of the connection leave the main programs' state alone.           *)
LEMMA CarriedSame ==
  ASSUME Carried, UNCHANGED <<winsize, ws, child, pc>>
  PROVE  Carried'
BY DEF Carried

(* shex's main program.                                                    *)
LEMMA CarriedShex ==
  ASSUME Carried, ShexMain \/ ShexKilled
  PROVE  Carried'
<1>1. "shex" \in Peers /\ "stub" \in Peers
  BY DEF Peers
<1>2. CASE RecvChildExit \/ SkipWinch \/ Interrupted
  BY <1>2, CarriedSame DEF RecvChildExit, SkipWinch, Interrupted
<1>3. CASE StartWinch
  BY <1>1, <1>3 DEF Carried, StartWinch, Goto, ShexPcs
<1>4. CASE SendWinch
  BY <1>1, <1>4 DEF Carried, SendWinch, Goto, ShexPcs
<1>5. CASE CloseStandardStreams
  BY <1>1, <1>5 DEF Carried, CloseStandardStreams, Goto, ShexPcs
<1>6. CASE ShexReturns
  BY <1>1, <1>6 DEF Carried, ShexReturns, Goto, ShexPcs
<1>7. CASE ShexKilled
  BY <1>1, <1>7 DEF Carried, ShexKilled, Goto, ShexPcs
<1>8. QED
  BY <1>2, <1>3, <1>4, <1>5, <1>6, <1>7 DEF ShexMain

(* stub's main program.                                                    *)
LEMMA CarriedStub ==
  ASSUME Carried, StubMain
  PROVE  Carried'
<1>1. "stub" \in Peers
  BY DEF Peers
<1>2. CASE RecvWindowSize
  BY <1>2, CarriedSame DEF RecvWindowSize
<1>3. CASE AbnormalExit \/ CloseChildStdin
  BY <1>1, <1>3 DEF Carried, AbnormalExit, CloseChildStdin, Goto, StubPcs
<1>4. CASE ExitWithHup \/ CleanExit
  BY <1>1, <1>4 DEF Carried, ExitWithHup, CleanExit, Goto, StubPcs
<1>5. CASE ChildWait
  BY <1>1, <1>5 DEF Carried, ChildWait, Goto, StubPcs
<1>6. CASE SendExitMessage \/ AwaitPeerClose \/ StubReturns
  BY <1>1, <1>6 DEF Carried, SendExitMessage, AwaitPeerClose, StubReturns, Goto, StubPcs
<1>7. QED
  BY <1>2, <1>3, <1>4, <1>5, <1>6 DEF StubMain

(* Carried is inductive.                                                   *)
LEMMA CarriedNext ==
  ASSUME Carried, [SNext]_allvars
  PROVE  Carried'
<1>1. CASE UNCHANGED allvars
  BY <1>1, CarriedSame DEF allvars, svars
<1>2. CASE ChildExits
  BY <1>2 DEF Carried, ChildExits
<1>3. CASE Resize
  BY <1>3, SessionAssumption DEF Carried, Resize
<1>4. CASE Lose
  BY <1>4, CarriedSame DEF Lose, svars
<1>5. ASSUME NEW p \in Peers, Pump(p) \/ Io(p) \/ DoIo(p) \/ Spin(p) \/ Retry(p) PROVE Carried'
  BY <1>5, CarriedSame DEF Pump, Io, DoIo, Spin, Retry, svars
<1>6. QED
  BY <1>1, <1>2, <1>3, <1>4, <1>5, CarriedShex, CarriedStub DEF SNext, Process

(* Every step of a session is a step of the connection or leaves it alone. *)
LEMMA SessionStep ==
  ASSUME Carried, [SNext]_allvars
  PROVE  [Next]_vars
<1>1. /\ "shex" \in Peers /\ "stub" \in Peers /\ {} \in SUBSET Chans /\ {TO_PEER} \in SUBSET Chans
      /\ {FROM_PEER, TO_PEER} \in SUBSET Chans /\ Streams \in SUBSET Chans
      /\ ChildStdin \in SUBSET Chans
  BY StreamFacts, PeerChannelFacts DEF Peers, ChildStdin
<1>2. ASSUME NEW p \in Peers, NEW cs \in SUBSET Chans, Shut(p, cs) PROVE Next
  BY <1>2 DEF Next, MainStep
<1>3. ASSUME NEW p \in Peers, NEW cs \in SUBSET Chans, NEW n \in ControlArgs, SendControl(p, n, cs)
      PROVE  Next
  BY <1>3 DEF Next, MainStep
<1>4. CASE ShexMain
  <2>1. CASE RecvChildExit
    BY <1>1, <2>1 DEF RecvChildExit, Next, MainStep
  <2>2. CASE Interrupted
    BY <1>1, <2>2 DEF Interrupted, Next, MainStep
  <2>3. CASE StartWinch \/ SkipWinch \/ CloseStandardStreams
    BY <1>1, <1>2, <2>3 DEF StartWinch, SkipWinch, CloseStandardStreams
  <2>4. CASE SendWinch
    <3>1. ws \in ControlArgs
      BY SessionAssumption DEF Carried
    <3>2. QED
      BY <1>1, <1>3, <2>4, <3>1 DEF SendWinch
  <2>5. CASE ShexReturns
    BY <1>1, <2>5 DEF ShexReturns, Next, MainStep
  <2>6. QED
    BY <1>4, <2>1, <2>2, <2>3, <2>4, <2>5 DEF ShexMain
<1>5. CASE StubMain
  <2>1. CASE RecvWindowSize
    BY <1>1, <2>1 DEF RecvWindowSize, Next, MainStep
  <2>2. CASE AbnormalExit \/ CloseChildStdin \/ CleanExit \/ ChildWait \/ AwaitPeerClose
    BY <1>1, <1>2, <2>2 DEF AbnormalExit, CloseChildStdin, CleanExit, ChildWait, AwaitPeerClose
  <2>3. CASE SendExitMessage
    <3>1. child \in ControlArgs
      BY <2>3, SessionAssumption DEF Carried, SendExitMessage, LoopDone
    <3>2. QED
      BY <1>1, <1>3, <2>3, <3>1 DEF SendExitMessage
  <2>4. CASE ExitWithHup \/ StubReturns
    BY <1>1, <2>4 DEF ExitWithHup, StubReturns, Next, MainStep
  <2>5. QED
    BY <1>5, <2>1, <2>2, <2>3, <2>4 DEF StubMain
<1>6. ASSUME NEW p \in Peers, Pump(p) \/ Io(p) \/ DoIo(p) \/ Spin(p) \/ Retry(p) PROVE Next
  BY <1>6 DEF Pump, Io, DoIo, Spin, Retry, Next, MainStep
<1>7. CASE ShexKilled
  BY <1>1, <1>7 DEF ShexKilled, Next, MainStep
<1>8. CASE Lose
  BY <1>8 DEF Lose, Next
<1>9. CASE ChildExits \/ Resize \/ UNCHANGED allvars
  BY <1>9 DEF ChildExits, Resize, allvars
<1>10. QED
  BY <1>4, <1>5, <1>6, <1>7, <1>8, <1>9 DEF SNext, Process

(* shex and stub use the connection of Mux.tla: every session is one of    *)
(* its behaviours.                                                         *)
THEOREM SessionUsesMux == SSpec => Spec
<1>1. SInit => Carried /\ Init
  BY CarriedInit DEF SInit
<1>2. Carried /\ [SNext]_allvars => Carried' /\ [Next]_vars
  BY CarriedNext, SessionStep
<1>3. QED
  BY <1>1, <1>2, PTL DEF SSpec, Spec

(* In every session no process dies of a protocol error (core.c,           *)
(* die_proto_error), no buffer is overrun (ringbuf_note_added) and every   *)
(* stream is delivered in order (channel_write).                           *)
THEOREM SessionSafe == SSpec => [](NoProtocolError /\ WithinCapacity /\ InOrder)
BY SessionUsesMux, NeverDies, BuffersSuffice, DeliversInOrder, PTL

----------------------------------------------------------------------------
(* How a stream ends.  The source is closed and has sent all it read.      *)
Finished(s) == ~ch[Source[s]][s].fdh /\ ch[Source[s]][s].rb = 0

(* A message after which no data of stream s follows: its CLOSE, or the    *)
(* child's exit status, which stub sends when its streams are dead.        *)
IsLast(m, s) == IsFor(m, {"CLOSE"}, s) \/ m.type = "CHILD_EXIT"

(* Behind such a message nothing of the stream is left to come, and what   *)
(* is before it, or the sink already, is all that was read.                *)
EndInFlight(s) ==
  LET w == q[Source[s]]
  IN  \A i \in 1 .. Len(w) : IsLast(w[i], s) =>
        /\ Finished(s)
        /\ ch[Sink(s)][s].fdh => Got(s) = rd[s] \/ EndsAt(w, s, i, rd[s])

(* The sink is closed or will close as soon as its buffer is empty.        *)
Ending(s) == ~ch[Sink(s)][s].fdh \/ ch[Sink(s)][s].pending_close

(* A sink that ends on its own account has everything; closed, it has      *)
(* written it.                                                             *)
EndSeen(s) ==
  LET r == ch[Sink(s)][s]
  IN  Ending(s) /\ ~r.err => Finished(s) /\ Got(s) = rd[s] /\ (~r.fdh => r.rb = 0)

(* shex and stub have not left the loops in which they close no stream.    *)
InMain(p) == pc[p] \in {"main", "winch"}

StreamsEnd == \A s \in Streams : EndInFlight(s) /\ (InMain(Sink(s)) => EndSeen(s))

(* While the connection stands and shex runs, stub runs too, has not been  *)
(* led to think that its peer is gone, and has closed its own side only to *)
(* wait for shex.                                                          *)
Connected ==
  ~cut /\ Running("shex") =>
    /\ Running("stub") /\ pc["stub"] \in {"main", "clean", "send", "close_to", "close_from"}
    /\ \A p \in Peers : ch[p][FROM_PEER].fdh
    /\ ch["shex"][TO_PEER].fdh /\ ~ch["shex"][TO_PEER].pending_close
    /\ pc["stub"] \notin {"close_to", "close_from"} =>
         ch["stub"][TO_PEER].fdh /\ ~ch["stub"][TO_PEER].pending_close

(* Once shex cannot write to its peer any more.                            *)
WriteLost == cut /\ ch["shex"][TO_PEER].err

(* shex leaves its main loop with the child's status, after the last       *)
(* message it can receive, or because it cannot write to its peer.         *)
ShexInv ==
  /\ pc["shex"] \in ShexPcs
  /\ Running("shex") =>
       (ch["shex"][TO_PEER].fdh /\ ~ch["shex"][TO_PEER].pending_close) \/ WriteLost
  /\ Running("shex") <=> pc["shex"] \in {"main", "winch", "drain"}
  /\ pc["shex"] = "lost" => cut
  /\ pc["shex"] = "drain" /\ status = NoStatus =>
       cut /\ (WriteLost \/ (~ch["shex"][FROM_PEER].fdh /\ ch["shex"][FROM_PEER].rb = 0))
  /\ pc["shex"] = "done" => status # NoStatus /\ AllDead("shex", Streams)

(* stub sends the status when it has waited for the child and every stream *)
(* is dead; until shex has it, it is the child's.                          *)
ExitReady == pc["stub"] = "send" => child # NoStatus /\ AllDead("stub", Streams)

ExitQueued ==
  \A i \in 1 .. Len(q["stub"]) :
    q["stub"][i].type = "CHILD_EXIT" => child # NoStatus /\ q["stub"][i].n = child

(* Once shex has the status, it has the child's output.                    *)
StatusKnown ==
  status # NoStatus =>
    /\ status = child
    /\ \A s \in ChildOutput :
         Finished(s) /\ (Got(s) = rd[s] \/ ch["shex"][s].err \/ WriteLost)

StatusInv == ExitReady /\ ExitQueued /\ StatusKnown

SessionInv == StreamsEnd /\ Connected /\ ShexInv /\ StatusInv

----------------------------------------------------------------------------
(* What one step does to a channel and to a stream.                        *)

Keeps(r, t) ==
  /\ t.fdh => r.fdh
  /\ r.err => t.err
  /\ r.sent_eof => t.sent_eof
  /\ ~r.fdh /\ r.rb = 0 => t.rb = 0

(* A step other than a close by the main program: nothing is opened, no    *)
(* error forgotten, and the connection is closed only when it is broken.   *)
ChannelStep(z, x) ==
  LET r == ch[z][x]
      t == ch'[z][x]
  IN  /\ Keeps(r, t)
      /\ x = FROM_PEER /\ r.fdh /\ ~Broken(z) => t.fdh
      /\ x = TO_PEER /\ r.fdh /\ ~r.pending_close =>
           (t.fdh /\ ~t.pending_close) \/ (Broken(z) /\ t.err)

(* The queue of stream s's source: unchanged, one message longer, or one   *)
(* message shorter, whose data an open sink has taken.                     *)
QueueStep(s) ==
  LET w == q[Source[s]]
      v == q'[Source[s]]
      r == ch[Sink(s)][s]
      t == ch'[Sink(s)][s]
      got == Len(out'[s]) + t.rb
  IN  \/ v = w /\ (got = Got(s) \/ (~t.fdh /\ t.err))
      \/ \E m \in Messages : /\ v = Append(w, m) /\ got = Got(s)
                             /\ IsLast(m, s) => Finished(s) /\ ch[Source[s]][TO_PEER].fdh
      \/ /\ w # <<>> /\ v = Tail(w)
         /\ IF r.fdh /\ IsFor(Head(w), DataTypes, s) THEN got = Got(s) + Head(w).n ELSE got = Got(s)

(* The sink begins to end only on its CLOSE message or an error, and its   *)
(* fd is closed only when its buffer is empty.                             *)
SinkStep(s) ==
  LET w == q[Source[s]]
      r == ch[Sink(s)][s]
      t == ch'[Sink(s)][s]
  IN  /\ (~t.fdh \/ t.pending_close) /\ ~t.err =>
           \/ ~r.fdh \/ r.pending_close
           \/ w # <<>> /\ q'[Source[s]] = Tail(w) /\ IsFor(Head(w), {"CLOSE"}, s)
      /\ ~t.fdh /\ ~t.err => t.rb = 0 \/ (~r.fdh /\ t.rb = r.rb)

StreamStep(s) == (Finished(s) => rd'[s] = rd[s]) /\ QueueStep(s)

(* No exit status is queued: the queue loses its head or gets another      *)
(* message.                                                                *)
NoStatusQueued ==
  \/ q'["stub"] = q["stub"]
  \/ \E m \in Messages : m.type # "CHILD_EXIT" /\ q'["stub"] = Append(q["stub"], m)
  \/ q["stub"] # <<>> /\ q'["stub"] = Tail(q["stub"])

(* A step of the connection that is no close by the main program.          *)
Steady ==
  /\ \A z \in Peers, x \in Chans : ChannelStep(z, x)
  /\ \A s \in Streams : StreamStep(s) /\ SinkStep(s)
  /\ NoStatusQueued

(* A channel that does not change.                                         *)
LEMMA SameChannelStep ==
  ASSUME NEW z, NEW x, ch'[z][x] = ch[z][x]
  PROVE  ChannelStep(z, x)
BY DEF ChannelStep, Keeps

(* A stream that a step leaves alone, apart from its source's reading.     *)
LEMMA SameStreamStep ==
  ASSUME NEW s \in Streams, q'[Source[s]] = q[Source[s]],
         ch'[Sink(s)][s] = ch[Sink(s)][s], out'[s] = out[s], Finished(s) => rd'[s] = rd[s]
  PROVE  StreamStep(s) /\ SinkStep(s)
BY DEF StreamStep, SinkStep, QueueStep, Got

(* All fields of a channel that is closed.                                 *)
LEMMA ClosedFields ==
  ASSUME NEW p, NEW c, NEW r \in Channel
  PROVE  /\ Closed(p, c, r) \in Channel /\ Closed(p, c, r).rb = r.rb
         /\ Closed(p, c, r).fdh <=> r.fdh /\ ~FromFd(p, c) /\ r.rb # 0
         /\ Closed(p, c, r).pending_close
         /\ Closed(p, c, r).err <=> r.err
         /\ Closed(p, c, r).sent_eof <=> r.sent_eof
BY DEF Closed, Channel

(* All fields of a channel after a fatal error.                            *)
LEMMA ErroredFields ==
  ASSUME NEW p, NEW c, NEW r \in Channel
  PROVE  /\ Errored(p, c, r) \in Channel
         /\ ~Errored(p, c, r).fdh /\ Errored(p, c, r).err
         /\ Errored(p, c, r).sent_eof <=> r.sent_eof
         /\ Errored(p, c, r).rb = IF FromFd(p, c) THEN r.rb ELSE 0
<1> DEFINE e == [r EXCEPT !.rb = IF FromFd(p, c) THEN @ ELSE 0, !.err = TRUE]
<1>1. e \in Channel /\ e.err /\ (e.sent_eof <=> r.sent_eof) /\ e.rb = IF FromFd(p, c) THEN r.rb ELSE 0
  BY DEF Channel
<1>2. Errored(p, c, r) = Closed(p, c, e)
  BY DEF Errored
<1> HIDE DEF e
<1>3. QED
  BY <1>1, <1>2, ClosedFields

(* All fields of a channel after a write.                                  *)
LEMMA WrittenFields ==
  ASSUME IInv, NEW p \in Peers, NEW c \in Chans, NEW n \in 1 .. WantedWriteSz(p, c)
  PROVE  LET r == ch[p][c]
             t == Written(p, c, n)
         IN  /\ t \in Channel /\ r.fdh /\ ~FromFd(p, c) /\ t.rb = r.rb - n /\ t.rb \in Nat
             /\ t.fdh <=> ~(r.pending_close /\ t.rb = 0)
             /\ t.pending_close <=> r.pending_close
             /\ t.err <=> r.err
             /\ t.sent_eof <=> r.sent_eof
<1> DEFINE r == ch[p][c]
           t == Written(p, c, n)
           a == r.rb - n
           b == IF c \in Streams THEN r.bytes_written + n ELSE r.bytes_written
           e == [r EXCEPT !.rb = a, !.bytes_written = b]
<1>1. r \in Channel /\ r.rb \in Nat /\ n <= r.rb /\ r.fdh /\ ~FromFd(p, c)
  BY ChannelTypes, WantedWriteFacts
<1>2. a \in Nat /\ b \in Nat
  <2>1. n \in Int /\ n >= 1
    OBVIOUS
  <2>2. QED
    BY <1>1, <2>1 DEF Channel
<1>3. t = IF e.pending_close /\ e.rb = 0 THEN Closed(p, c, e) ELSE e
  BY <1>1 DEF Written, Channel
<1>4. t \in Channel /\ t.rb = a
  BY WrittenFacts
<1> HIDE DEF a, b
<1>5. /\ e \in Channel /\ e.rb = a
      /\ e.fdh <=> r.fdh
      /\ e.pending_close <=> r.pending_close
      /\ e.err <=> r.err
      /\ e.sent_eof <=> r.sent_eof
  BY <1>1, <1>2 DEF Channel
<1> HIDE DEF e, t
<1>6. /\ t.fdh <=> ~(r.pending_close /\ t.rb = 0)
      /\ t.pending_close <=> r.pending_close
      /\ t.err <=> r.err
      /\ t.sent_eof <=> r.sent_eof
  BY <1>1, <1>3, <1>4, <1>5, ClosedFields
<1>7. QED
  BY <1>1, <1>2, <1>4, <1>6 DEF a, t

(* What may become of the one channel that a step changes.                 *)
PeerChange(p, c, t) ==
  /\ c = FROM_PEER /\ ch[p][c].fdh /\ ~Broken(p) => t.fdh
  /\ c = TO_PEER /\ ch[p][c].fdh /\ ~ch[p][c].pending_close =>
       (t.fdh /\ ~t.pending_close) \/ (Broken(p) /\ t.err)

SinkChange(r, t) ==
  /\ (~t.fdh \/ t.pending_close) /\ ~t.err => ~r.fdh \/ r.pending_close
  /\ ~t.fdh /\ ~t.err => t.rb = 0 \/ (~r.fdh /\ t.rb = r.rb)

(* A step that changes one channel and no queue.                           *)
LEMMA OneSteady ==
  ASSUME IInv, NEW p \in Peers, NEW c \in Chans, NEW t \in Channel,
         ch' = [ch EXCEPT ![p][c] = t], UNCHANGED q,
         Keeps(ch[p][c], t), PeerChange(p, c, t),
         c \in Streams /\ Sink(c) = p =>
           /\ SinkChange(ch[p][c], t)
           /\ Len(out'[c]) + t.rb = Got(c) \/ (~t.fdh /\ t.err),
         \A x \in Streams : (x = c /\ Sink(c) = p) \/ out'[x] = out[x],
         \A x \in Streams : (x = c /\ ch[Source[x]][x].fdh) \/ rd'[x] = rd[x]
  PROVE  Steady
<1>1. \A z \in Peers, x \in Chans : ch'[z][x] = IF z = p /\ x = c THEN t ELSE ch[z][x]
  BY OneChannel DEF IInv, TypeOK
<1>2. ASSUME NEW z \in Peers, NEW x \in Chans PROVE ChannelStep(z, x)
  <2>1. CASE z = p /\ x = c
    BY <1>1, <2>1 DEF ChannelStep, PeerChange
  <2>2. CASE ~(z = p /\ x = c)
    BY <1>1, <2>2, SameChannelStep
  <2>3. QED
    BY <2>1, <2>2
<1>3. ASSUME NEW s \in Streams PROVE StreamStep(s) /\ SinkStep(s)
  <2>1. s \in Chans /\ Sink(s) \in Peers /\ Finished(s) => rd'[s] = rd[s]
    BY StreamFacts DEF Finished
  <2>2. CASE s = c /\ Sink(s) = p
    <3>1. ch'[Sink(s)][s] = t /\ SinkChange(ch[Sink(s)][s], t)
      BY <1>1, <2>2, StreamFacts
    <3>2. Len(out'[s]) + t.rb = Got(s) \/ (~t.fdh /\ t.err)
      BY <2>2
    <3>3. QED
      BY <2>1, <3>1, <3>2 DEF StreamStep, QueueStep, SinkStep, SinkChange, Finished
  <2>3. CASE ~(s = c /\ Sink(s) = p)
    <3>1. ch'[Sink(s)][s] = ch[Sink(s)][s] /\ out'[s] = out[s]
      BY <1>1, <2>3, StreamFacts
    <3>2. Finished(s) => rd'[s] = rd[s]
      BY DEF Finished
    <3>3. QED
      BY <3>1, <3>2, SameStreamStep
  <2>4. QED
    BY <2>2, <2>3
<1>4. NoStatusQueued
  BY DEF NoStatusQueued
<1>5. QED
  BY <1>2, <1>3, <1>4 DEF Steady

(* A step that changes neither channels nor queues.                        *)
LEMMA NoneSteady ==
  ASSUME UNCHANGED <<ch, q, rd, out>>
  PROVE  Steady
BY SameChannelStep, SameStreamStep DEF Steady, NoStatusQueued

(* Peer channels are no streams.                                           *)
LEMMA PeerChannelSteady ==
  ASSUME IInv, NEW p \in Peers, NEW c \in {FROM_PEER, TO_PEER}, NEW t \in Channel,
         ch' = [ch EXCEPT ![p][c] = t], UNCHANGED <<q, rd, out>>,
         Keeps(ch[p][c], t), PeerChange(p, c, t)
  PROVE  Steady
BY PeerChannelFacts, OneSteady

(* io_loop_do_io and the peer connection.                                  *)
LEMMA PeerReadSteady ==
  ASSUME IInv, NEW p \in Peers, PeerRead(p)
  PROVE  Steady
<1>1. PICK n \in 1 .. MinOf(WantedReadSz(p, FROM_PEER), wire[Other(p)]) :
        ch' = [ch EXCEPT ![p][FROM_PEER].rb = @ + n]
  BY DEF PeerRead
<1> DEFINE r == ch[p][FROM_PEER]
           t == [r EXCEPT !.rb = @ + n]
<1>2. n \in Nat /\ n \in 1 .. WantedReadSz(p, FROM_PEER)
  <2>1. wire[Other(p)] \in Nat /\ WantedReadSz(p, FROM_PEER) \in Int
    BY PeerFacts, PeerChannelFacts, WantedReadFacts DEF IInv, TypeOK, WantedReadSz, Room, MinOf
  <2>2. QED
    BY <1>1, <2>1 DEF MinOf
<1>3. r \in Channel /\ r.fdh
  BY <1>2, PeerChannelFacts, WantedReadFacts
<1>4. /\ t \in Channel
      /\ t.fdh <=> r.fdh
      /\ t.err <=> r.err
      /\ t.sent_eof <=> r.sent_eof
  BY <1>2, <1>3 DEF Channel
<1>5. ch' = [ch EXCEPT ![p][FROM_PEER] = t]
  BY <1>1
<1> HIDE DEF t
<1>6. Keeps(r, t) /\ PeerChange(p, FROM_PEER, t)
  BY <1>3, <1>4, PeerChannelFacts DEF Keeps, PeerChange
<1>7. UNCHANGED <<q, rd, out>>
  BY DEF PeerRead, Polled
<1>8. QED
  BY <1>4, <1>5, <1>6, <1>7, PeerChannelSteady

(* End of file on the connection, which is then broken.                    *)
LEMMA PeerEofSteady ==
  ASSUME IInv, NEW p \in Peers, PeerEof(p)
  PROVE  Steady
<1> DEFINE r == ch[p][FROM_PEER]
           t == Closed(p, FROM_PEER, r)
<1>1. r \in Channel /\ Broken(p)
  BY PeerChannelFacts, ChannelTypes DEF PeerEof
<1>2. ch' = [ch EXCEPT ![p][FROM_PEER] = t] /\ UNCHANGED <<q, rd, out>>
  BY DEF PeerEof, Polled
<1>3. t \in Channel /\ t.rb = r.rb /\ (t.fdh => r.fdh) /\ (t.err <=> r.err) /\ (t.sent_eof <=> r.sent_eof)
  BY <1>1, ClosedFields
<1> HIDE DEF t
<1>4. Keeps(r, t) /\ PeerChange(p, FROM_PEER, t)
  BY <1>1, <1>3, PeerChannelFacts DEF Keeps, PeerChange
<1>5. QED
  BY <1>2, <1>3, <1>4, PeerChannelSteady

(* A write to the connection.                                              *)
LEMMA PeerWriteSteady ==
  ASSUME IInv, NEW p \in Peers, PeerWrite(p)
  PROVE  Steady
<1>1. PICK n \in 1 .. MinOf(WantedWriteSz(p, TO_PEER), WireCap - wire[p]) :
        ch' = [ch EXCEPT ![p][TO_PEER] = Written(p, TO_PEER, n)]
  BY DEF PeerWrite
<1> DEFINE r == ch[p][TO_PEER]
           t == Written(p, TO_PEER, n)
<1>2. n \in 1 .. WantedWriteSz(p, TO_PEER)
  <2>1. wire[p] \in Nat /\ WantedWriteSz(p, TO_PEER) \in Int
    <3>1. ch[p][TO_PEER] \in Channel
      BY PeerChannelFacts, ChannelTypes
    <3>2. QED
      BY <3>1, ConstantFacts DEF IInv, TypeOK, WantedWriteSz, MinOf, Channel
  <2>2. QED
    BY <1>1, <2>1, ConstantFacts DEF MinOf
<1>3. /\ t \in Channel /\ r.fdh
      /\ t.fdh <=> ~(r.pending_close /\ t.rb = 0)
      /\ t.pending_close <=> r.pending_close
      /\ t.err <=> r.err
      /\ t.sent_eof <=> r.sent_eof
  BY <1>2, PeerChannelFacts, WrittenFields
<1>4. ch' = [ch EXCEPT ![p][TO_PEER] = t] /\ UNCHANGED <<q, rd, out>>
  BY <1>1 DEF PeerWrite, Polled
<1> HIDE DEF t
<1>5. Keeps(r, t) /\ PeerChange(p, TO_PEER, t)
  BY <1>3, PeerChannelFacts DEF Keeps, PeerChange
<1>6. QED
  BY <1>3, <1>4, <1>5, PeerChannelSteady

(* A write error on the connection, which is then broken.                  *)
LEMMA PeerWriteErrorSteady ==
  ASSUME IInv, NEW p \in Peers, PeerWriteError(p)
  PROVE  Steady
<1> DEFINE r == ch[p][TO_PEER]
           t == Errored(p, TO_PEER, r)
<1>1. r \in Channel /\ Broken(p)
  BY PeerChannelFacts, ChannelTypes DEF PeerWriteError
<1>2. ch' = [ch EXCEPT ![p][TO_PEER] = t] /\ UNCHANGED <<q, rd, out>>
  BY DEF PeerWriteError, Polled
<1>3. /\ t \in Channel /\ ~t.fdh /\ t.err /\ (t.sent_eof <=> r.sent_eof)
      /\ t.rb = IF FromFd(p, TO_PEER) THEN r.rb ELSE 0
  BY <1>1, ErroredFields
<1> HIDE DEF t
<1>4. Keeps(r, t) /\ PeerChange(p, TO_PEER, t)
  BY <1>1, <1>3, PeerChannelFacts DEF Keeps, PeerChange
<1>5. QED
  BY <1>2, <1>3, <1>4, PeerChannelSteady

(* A partial message of a dead peer is dropped.                            *)
LEMMA DropPartialSteady ==
  ASSUME IInv, NEW p \in Peers, DropPartial(p)
  PROVE  Steady
<1> DEFINE r == ch[p][FROM_PEER]
           t == [r EXCEPT !.rb = 0]
<1>1. r \in Channel
  BY PeerChannelFacts, ChannelTypes
<1>2. ch' = [ch EXCEPT ![p][FROM_PEER] = t] /\ UNCHANGED <<q, rd, out>>
  BY DEF DropPartial
<1>3. /\ t \in Channel /\ t.rb = 0
      /\ t.fdh <=> r.fdh
      /\ t.err <=> r.err
      /\ t.sent_eof <=> r.sent_eof
  BY <1>1 DEF Channel
<1> HIDE DEF t
<1>4. Keeps(r, t) /\ PeerChange(p, FROM_PEER, t)
  BY <1>1, <1>3, PeerChannelFacts DEF Keeps, PeerChange
<1>5. QED
  BY <1>2, <1>3, <1>4, PeerChannelSteady

(* A read from a stream's fd, which is open.                               *)
LEMMA StreamReadSteady ==
  ASSUME IInv, NEW p \in Peers, NEW s \in Streams, StreamRead(p, s)
  PROVE  Steady
<1>1. PICK n \in 1 .. MinOf(WantedReadSz(p, s), MaxBytes - rd[s]) :
        /\ ch' = [ch EXCEPT ![p][s].rb = @ + n, ![p][s].window = @ - n]
        /\ rd' = [rd EXCEPT ![s] = @ + n]
  BY DEF StreamRead
<1> DEFINE r == ch[p][s]
           t == [r EXCEPT !.rb = @ + n, !.window = @ - n]
<1>2. s \in Chans /\ Source[s] = p /\ Sink(s) # p
  BY StreamFacts, DirectionFacts DEF StreamRead
<1>3. n \in Nat /\ n \in 1 .. WantedReadSz(p, s)
  <2>1. rd[s] \in Nat /\ WantedReadSz(p, s) \in Int
    BY <1>2, WantedReadFacts DEF IInv, TypeOK, WantedReadSz, Room, MinOf
  <2>2. QED
    BY <1>1, <2>1, ConstantFacts DEF MinOf
<1>4. r \in Channel /\ r.fdh /\ n <= r.window
  BY <1>2, <1>3, WantedReadFacts
<1>5. /\ t \in Channel
      /\ t.fdh <=> r.fdh
      /\ t.err <=> r.err
      /\ t.sent_eof <=> r.sent_eof
  <2>1. r.rb + n \in Nat /\ r.window - n \in Nat
    BY <1>3, <1>4 DEF Channel
  <2>2. QED
    BY <1>4, <2>1 DEF Channel
<1>6. ch' = [ch EXCEPT ![p][s] = t]
  <2>1. [ch EXCEPT ![p][s].rb = @ + n][p][s] = [r EXCEPT !.rb = @ + n]
    BY <1>2 DEF IInv, TypeOK
  <2>2. QED
    BY <1>1, <1>2, <2>1, ZenonT(30) DEF IInv, TypeOK
<1> HIDE DEF t
<1>7. Keeps(r, t) /\ PeerChange(p, s, t)
  BY <1>4, <1>5, StreamFacts DEF Keeps, PeerChange
<1>8. UNCHANGED <<q, out>> /\ \A x \in Streams : x = s \/ rd'[x] = rd[x]
  BY <1>1 DEF StreamRead, Polled, IInv, TypeOK
<1>9. QED
  BY <1>2, <1>4, <1>5, <1>6, <1>7, <1>8, OneSteady

(* A channel that is closed with nothing left to write, or is a source.    *)
LEMMA CloseSteady ==
  ASSUME IInv, NEW p \in Peers, NEW c \in Chans, c # FROM_PEER,
         FromFd(p, c) \/ (ch[p][c].pending_close /\ ch[p][c].rb = 0),
         c = TO_PEER => ch[p][c].pending_close,
         ch' = [ch EXCEPT ![p][c] = Closed(p, c, @)], UNCHANGED <<q, rd, out>>
  PROVE  Steady
<1> DEFINE r == ch[p][c]
           t == Closed(p, c, r)
<1>1. r \in Channel
  BY ChannelTypes
<1>2. ch' = [ch EXCEPT ![p][c] = t]
  BY DEF IInv, TypeOK
<1>3. /\ t \in Channel /\ t.rb = r.rb /\ (t.fdh => r.fdh)
      /\ t.pending_close
      /\ t.err <=> r.err
      /\ t.sent_eof <=> r.sent_eof
  BY <1>1, ClosedFields
<1> HIDE DEF t
<1>4. Keeps(r, t) /\ PeerChange(p, c, t)
  BY <1>3 DEF Keeps, PeerChange
<1>5. c \in Streams /\ Sink(c) = p => SinkChange(r, t) /\ Len(out'[c]) + t.rb = Got(c)
  BY <1>3, DirectionFacts DEF SinkChange, Got
<1>6. QED
  BY <1>2, <1>3, <1>4, <1>5, OneSteady

(* End of file on a stream.                                                *)
LEMMA StreamEofSteady ==
  ASSUME IInv, NEW p \in Peers, NEW s \in Streams, StreamEof(p, s)
  PROVE  Steady
BY StreamFacts, CloseSteady DEF StreamEof, Polled

(* A drained channel that was to be closed is closed.                      *)
LEMMA DoPendingCloseSteady ==
  ASSUME IInv, NEW p \in Peers, NEW c \in Chans, DoPendingClose(p, c)
  PROVE  Steady
<1>1. ~FromFd(p, c) /\ ch[p][c].pending_close /\ ch[p][c].rb = 0
  BY DEF DoPendingClose, PendingCloseReady
<1>2. c # FROM_PEER
  BY <1>1 DEF FromFd
<1>3. QED
  BY <1>1, <1>2, CloseSteady DEF DoPendingClose

(* A write to a stream's fd moves bytes out of the buffer.                 *)
LEMMA StreamWriteSteady ==
  ASSUME IInv, NEW p \in Peers, NEW s \in Streams, StreamWrite(p, s)
  PROVE  Steady
<1>1. PICK n \in 1 .. WantedWriteSz(p, s) :
        /\ ch' = [ch EXCEPT ![p][s] = Written(p, s, n)]
        /\ out' = [out EXCEPT ![s] = @ \o SubSeq(kept[s], 1, n)]
  BY DEF StreamWrite
<1> DEFINE r == ch[p][s]
           t == Written(p, s, n)
<1>2. s \in Chans /\ Sink(s) = p
  BY StreamFacts, DirectionFacts DEF StreamWrite
<1>3. /\ t \in Channel /\ r.fdh /\ t.rb = r.rb - n
      /\ t.fdh <=> ~(r.pending_close /\ t.rb = 0)
      /\ t.pending_close <=> r.pending_close
      /\ t.err <=> r.err
      /\ t.sent_eof <=> r.sent_eof
  BY <1>2, WrittenFields
<1>4. r \in Channel /\ r.rb \in Nat /\ n <= r.rb
  BY <1>2, ChannelTypes, WantedWriteFacts
<1>5. Len(out'[s]) = Len(out[s]) + n
  <2>1. out[s] \in Seq(Nat) /\ kept[s] \in Seq(Nat) /\ Len(kept[s]) = r.rb
    BY <1>2, StreamTypes DEF IInv, FlowControl, StreamInv, Numbered
  <2>2. SubSeq(kept[s], 1, n) \in Seq(Nat) /\ Len(SubSeq(kept[s], 1, n)) = n
    BY <1>4, <2>1
  <2>3. Len(out[s] \o SubSeq(kept[s], 1, n)) = Len(out[s]) + n
    BY <2>1, <2>2
  <2>4. out'[s] = out[s] \o SubSeq(kept[s], 1, n)
    BY <1>1 DEF IInv, TypeOK
  <2>5. QED
    BY <2>3, <2>4
<1>6. \A x \in Streams : x = s \/ out'[x] = out[x]
  BY <1>1 DEF IInv, TypeOK
<1>7. ch' = [ch EXCEPT ![p][s] = t] /\ UNCHANGED <<q, rd>>
  BY <1>1 DEF StreamWrite, Polled
<1> HIDE DEF t
<1>8. Keeps(r, t) /\ PeerChange(p, s, t) /\ SinkChange(r, t)
  BY <1>3, StreamFacts DEF Keeps, PeerChange, SinkChange
<1>9. Len(out'[s]) + t.rb = Got(s)
  <2>1. Len(out[s]) \in Nat /\ n \in Int
    BY StreamTypes DEF IInv
  <2>2. QED
    BY <1>2, <1>3, <1>4, <1>5, <2>1 DEF Got
<1>10. QED
  BY <1>2, <1>3, <1>6, <1>7, <1>8, <1>9, OneSteady

(* A write error on a stream's fd.                                         *)
LEMMA StreamWriteErrorSteady ==
  ASSUME IInv, NEW p \in Peers, NEW s \in Streams, StreamWriteError(p, s)
  PROVE  Steady
<1> DEFINE r == ch[p][s]
           t == Errored(p, s, r)
<1>1. s \in Chans /\ r \in Channel
  BY StreamFacts, ChannelTypes
<1>2. ch' = [ch EXCEPT ![p][s] = t] /\ UNCHANGED <<q, rd, out>>
  BY DEF StreamWriteError, Polled
<1>3. /\ t \in Channel /\ ~t.fdh /\ t.err /\ (t.sent_eof <=> r.sent_eof)
      /\ t.rb = IF FromFd(p, s) THEN r.rb ELSE 0
  BY <1>1, ErroredFields
<1> HIDE DEF t
<1>4. Keeps(r, t) /\ PeerChange(p, s, t) /\ SinkChange(r, t)
  BY <1>3, StreamFacts DEF Keeps, PeerChange, SinkChange
<1>5. QED
  BY <1>1, <1>2, <1>3, <1>4, OneSteady

(* A step of process p that changes a peer channel and one other channel.  *)
LEMMA TwoChannelsStep ==
  ASSUME NEW p \in Peers, NEW a \in Chans, NEW c \in Chans, NEW r, NEW t,
         \A z \in Peers, x \in Chans :
           ch'[z][x] = IF z = p /\ x = c THEN t ELSE IF z = p /\ x = a THEN r ELSE ch[z][x],
         Keeps(ch[p][a], r), PeerChange(p, a, r), Keeps(ch[p][c], t), PeerChange(p, c, t)
  PROVE  \A z \in Peers, x \in Chans : ChannelStep(z, x)
<1> SUFFICES ASSUME NEW z \in Peers, NEW x \in Chans PROVE ChannelStep(z, x)
  OBVIOUS
<1>1. CASE z = p /\ x = c
  <2>1. ch'[z][x] = t
    BY <1>1
  <2>2. QED
    BY <1>1, <2>1 DEF ChannelStep, PeerChange
<1>2. CASE ~(z = p /\ x = c) /\ z = p /\ x = a
  <2>1. ch'[z][x] = r
    BY <1>2
  <2>2. QED
    BY <1>2, <2>1 DEF ChannelStep, PeerChange
<1>3. CASE ~(z = p /\ x = c) /\ ~(z = p /\ x = a)
  <2>1. ch'[z][x] = ch[z][x]
    BY <1>3
  <2>2. QED
    BY <2>1, SameChannelStep
<1>4. QED
  BY <1>1, <1>2, <1>3

(* What a sink's end depends on does not change.                           *)
SameEnd(r, t) ==
  /\ t.rb = r.rb
  /\ t.fdh <=> r.fdh
  /\ t.pending_close <=> r.pending_close
  /\ t.err <=> r.err

(* A step that queues a message.                                           *)
LEMMA AppendSteady ==
  ASSUME IInv, NEW p \in Peers, NEW m \in Messages, Sendable(p, m), Enqueue(p, m),
         m.type # "CHILD_EXIT", UNCHANGED <<rd, out>>,
         \A z \in Peers, x \in Chans : ChannelStep(z, x),
         \A s \in Streams : SameEnd(ch[Sink(s)][s], ch'[Sink(s)][s]),
         \A s \in Streams : Source[s] = p /\ IsFor(m, {"CLOSE"}, s) => Finished(s)
  PROVE  Steady
<1>1. /\ q'[Other(p)] = q[Other(p)]
      /\ q'[p] = IF ch[p][TO_PEER].fdh THEN Append(q[p], m) ELSE q[p]
  BY EnqueueFacts
<1>2. ASSUME NEW s \in Streams PROVE StreamStep(s) /\ SinkStep(s)
  <2>1. Len(out'[s]) + ch'[Sink(s)][s].rb = Got(s)
    BY DEF SameEnd, Got
  <2>2. SinkStep(s)
    BY DEF SameEnd, SinkStep
  <2>3. QueueStep(s)
    <3>1. CASE Source[s] = p /\ ch[p][TO_PEER].fdh
      <4>1. q'[Source[s]] = Append(q[Source[s]], m)
        BY <1>1, <3>1
      <4>2. IsLast(m, s) => Finished(s) /\ ch[Source[s]][TO_PEER].fdh
        BY <3>1 DEF IsLast
      <4>3. QED
        BY <2>1, <4>1, <4>2 DEF QueueStep
    <3>2. CASE ~(Source[s] = p /\ ch[p][TO_PEER].fdh)
      <4>1. q'[Source[s]] = q[Source[s]]
        BY <1>1, <3>2, StreamFacts, PeerFacts
      <4>2. QED
        BY <2>1, <4>1 DEF QueueStep
    <3>3. QED
      BY <3>1, <3>2
  <2>4. QED
    BY <2>2, <2>3 DEF StreamStep
<1>3. NoStatusQueued
  <2>1. "stub" = p \/ "stub" = Other(p)
    BY PeerFacts DEF Peers
  <2>2. QED
    BY <1>1, <2>1 DEF NoStatusQueued
<1>4. QED
  BY <1>2, <1>3 DEF Steady

(* A step that takes the peer's first message.                             *)
LEMMA TailSteady ==
  ASSUME IInv, NEW p \in Peers, MsgReady(p), q' = [q EXCEPT ![Other(p)] = Tail(@)],
         UNCHANGED rd,
         \A z \in Peers, x \in Chans : ChannelStep(z, x),
         \A s \in Streams : Source[s] = p =>
           out'[s] = out[s] /\ ch'[Sink(s)][s] = ch[Sink(s)][s],
         \A s \in Streams : Sink(s) = p =>
           /\ SinkStep(s)
           /\ Len(out'[s]) + ch'[p][s].rb =
                IF ch[p][s].fdh /\ IsFor(Head1(p), DataTypes, s) THEN Got(s) + Head1(p).n ELSE Got(s)
  PROVE  Steady
<1>1. q'[p] = q[p] /\ q'[Other(p)] = Tail(q[Other(p)])
  BY TailQueues
<1>2. q[Other(p)] # <<>> /\ Head1(p) = Head(q[Other(p)])
  BY HeadFacts DEF Head1
<1>3. ASSUME NEW s \in Streams PROVE StreamStep(s) /\ SinkStep(s)
  <2>1. CASE Source[s] = p
    <3>1. q'[Source[s]] = q[Source[s]] /\ out'[s] = out[s] /\ ch'[Sink(s)][s] = ch[Sink(s)][s]
      BY <1>1, <2>1
    <3>2. Finished(s) => rd'[s] = rd[s]
      OBVIOUS
    <3>3. QED
      BY <3>1, <3>2, SameStreamStep
  <2>2. CASE Source[s] # p
    <3>1. Source[s] = Other(p) /\ Sink(s) = p
      BY <2>2, StreamFacts, PeerFacts
    <3>2. SinkStep(s) /\ Len(out'[s]) + ch'[Sink(s)][s].rb =
            IF ch[Sink(s)][s].fdh /\ IsFor(Head(q[Source[s]]), DataTypes, s)
              THEN Got(s) + Head(q[Source[s]]).n ELSE Got(s)
      BY <1>2, <3>1
    <3>3. q[Source[s]] # <<>> /\ q'[Source[s]] = Tail(q[Source[s]])
      BY <1>1, <1>2, <3>1
    <3>4. QED
      BY <3>2, <3>3 DEF StreamStep, QueueStep
  <2>3. QED
    BY <2>1, <2>2
<1>4. NoStatusQueued
  <2>1. "stub" = p \/ "stub" = Other(p)
    BY PeerFacts DEF Peers
  <2>2. QED
    BY <1>1, <1>2, <2>1 DEF NoStatusQueued
<1>5. QED
  BY <1>3, <1>4 DEF Steady

(* Taking a message out of the buffer of FROM_PEER.                        *)
LEMMA TakenFields ==
  ASSUME IInv, NEW p \in Peers, MsgReady(p)
  PROVE  LET r == [ch[p][FROM_PEER] EXCEPT !.rb = @ - Head1(p).size]
         IN  r \in Channel /\ Keeps(ch[p][FROM_PEER], r) /\ PeerChange(p, FROM_PEER, r)
<1> DEFINE k == ch[p][FROM_PEER].rb - Head1(p).size
           r == [ch[p][FROM_PEER] EXCEPT !.rb = k]
<1>1. ch[p][FROM_PEER] \in Channel /\ ch[p][FROM_PEER].rb \in Nat
  BY PeerChannelFacts, ChannelTypes
<1>2. k \in Nat /\ (ch[p][FROM_PEER].rb = 0 => k = 0)
  BY <1>1, HeadFacts
<1> HIDE DEF k
<1>3. /\ r \in Channel /\ r.rb = k
      /\ r.fdh <=> ch[p][FROM_PEER].fdh
      /\ r.err <=> ch[p][FROM_PEER].err
      /\ r.sent_eof <=> ch[p][FROM_PEER].sent_eof
  BY <1>1, <1>2 DEF Channel
<1> HIDE DEF r
<1>4. Keeps(ch[p][FROM_PEER], r) /\ PeerChange(p, FROM_PEER, r)
  BY <1>2, <1>3, PeerChannelFacts DEF Keeps, PeerChange
<1>5. QED
  BY <1>3, <1>4 DEF r, k

(* Putting a message into the buffer of TO_PEER.                           *)
LEMMA BufferedFields ==
  ASSUME IInv, NEW p \in Peers, NEW sz \in Nat, MaxOutMsg(p) >= sz
  PROVE  LET r == [ch[p][TO_PEER] EXCEPT !.rb = @ + Buffered(p, sz)]
         IN  /\ r \in Channel /\ Keeps(ch[p][TO_PEER], r) /\ PeerChange(p, TO_PEER, r)
             /\ r.fdh <=> ch[p][TO_PEER].fdh
             /\ r.pending_close <=> ch[p][TO_PEER].pending_close
             /\ r.err <=> ch[p][TO_PEER].err
             /\ ~r.fdh => r.rb = ch[p][TO_PEER].rb
<1> DEFINE k == ch[p][TO_PEER].rb + Buffered(p, sz)
           r == [ch[p][TO_PEER] EXCEPT !.rb = k]
<1>1. ch[p][TO_PEER] \in Channel /\ ch[p][TO_PEER].rb \in Nat
  BY PeerChannelFacts, ChannelTypes
<1>2. k \in Nat /\ (~ch[p][TO_PEER].fdh => k = ch[p][TO_PEER].rb)
  BY <1>1 DEF Buffered
<1> HIDE DEF k
<1>3. /\ r \in Channel /\ r.rb = k
      /\ r.fdh <=> ch[p][TO_PEER].fdh
      /\ r.pending_close <=> ch[p][TO_PEER].pending_close
      /\ r.err <=> ch[p][TO_PEER].err
      /\ r.sent_eof <=> ch[p][TO_PEER].sent_eof
  BY <1>1, <1>2 DEF Channel
<1> HIDE DEF r
<1>4. Keeps(ch[p][TO_PEER], r) /\ PeerChange(p, TO_PEER, r)
  BY <1>2, <1>3, PeerChannelFacts DEF Keeps, PeerChange
<1>5. QED
  BY <1>2, <1>3, <1>4 DEF r, k

(* A record equal to another but for its counters.                         *)
LEMMA SameFlags ==
  ASSUME NEW r, NEW t, SameEnd(r, t), t.sent_eof <=> r.sent_eof, NEW p, NEW c
  PROVE  /\ Keeps(r, t)
         /\ r = ch[p][c] => PeerChange(p, c, t)
BY DEF SameEnd, Keeps, PeerChange

(* xmit_acks.                                                              *)
LEMMA XmitAcksSteady ==
  ASSUME IInv, NEW p \in Peers, NEW c \in Chans, XmitAcks(p, c)
  PROVE  Steady
<1> DEFINE m == [type |-> "WINDOW", ch |-> c, n |-> ch[p][c].bytes_written,
                 pos |-> StreamCap + Len(out[c]) - ch[p][c].bytes_written,
                 size |-> SzWindow]
           r == [ch[p][TO_PEER] EXCEPT !.rb = @ + Buffered(p, SzWindow)]
           t == [ch[p][c] EXCEPT !.bytes_written = 0]
<1>1. SzWindow \in Nat /\ MaxOutMsg(p) >= SzWindow /\ ch[p][c].bytes_written > 0
  BY ConstantFacts DEF XmitAcks, AckReady
<1>2. c \in Streams /\ Source[c] # p
  BY <1>1 DEF IInv, FlowControl, Buffers
<1>3. Sink(c) = p /\ c # TO_PEER /\ SzWindow <= CmdCap
  BY <1>1, <1>2, StreamFacts, BufferedFacts
<1>4. r \in Channel /\ Keeps(ch[p][TO_PEER], r) /\ PeerChange(p, TO_PEER, r)
  BY <1>1, BufferedFields
<1>5. ch[p][c] \in Channel /\ ch[p][c].bytes_written \in Nat
  BY <1>3, ChannelTypes DEF Channel
<1>6. StreamCap + Len(out[c]) - ch[p][c].bytes_written \in Nat
  <2>1. /\ StreamCap \in Nat /\ Len(out[c]) \in Nat /\ ch[Source[c]][c].window + rd[c] \in Nat
        /\ ch[p][c].bytes_written \in Nat
    BY <1>2, <1>3, StreamTypes, ConstantFacts DEF IInv
  <2>2. ch[Source[c]][c].window + rd[c] + ch[p][c].bytes_written <= StreamCap + Len(out[c])
    BY <1>2, <1>3 DEF IInv, FlowControl, StreamInv, Credit
  <2>3. QED
    BY <2>1, <2>2
<1>7. m \in Messages /\ Sendable(p, m) /\ m.type = "WINDOW"
  BY <1>1, <1>2, <1>3, <1>5, <1>6 DEF Messages, MsgTypes, Sendable
<1>8. Enqueue(p, m) /\ UNCHANGED <<rd, out>>
  BY DEF XmitAcks
<1>9. ch' = [ch EXCEPT ![p][TO_PEER] = r, ![p][c] = t]
  <2>1. [ch EXCEPT ![p][TO_PEER] = r][p][c] = ch[p][c]
    BY <1>3 DEF IInv, TypeOK
  <2>2. ch' = [ch EXCEPT ![p][TO_PEER] = r, ![p][c].bytes_written = 0]
    BY DEF XmitAcks
  <2> HIDE DEF r
  <2>3. QED
    BY <2>1, <2>2
<1>10. t \in Channel /\ SameEnd(ch[p][c], t) /\ (t.sent_eof <=> ch[p][c].sent_eof)
  BY <1>5 DEF Channel, SameEnd
<1> HIDE DEF m, r, t
<1>11. \A z \in Peers, x \in Chans : ch'[z][x] =
         IF z = p /\ x = c THEN t ELSE IF z = p /\ x = TO_PEER THEN r ELSE ch[z][x]
  BY <1>4, <1>9, <1>10, PeerChannelFacts, TwoChannels DEF IInv, TypeOK
<1>12. Keeps(ch[p][c], t) /\ PeerChange(p, c, t)
  BY <1>10, SameFlags
<1>13. \A z \in Peers, x \in Chans : ChannelStep(z, x)
  BY <1>4, <1>11, <1>12, PeerChannelFacts, TwoChannelsStep
<1>14. \A s \in Streams : SameEnd(ch[Sink(s)][s], ch'[Sink(s)][s])
  BY <1>10, <1>11, StreamFacts DEF SameEnd
<1>15. \A s \in Streams : ~IsFor(m, {"CLOSE"}, s)
  BY <1>7 DEF IsFor
<1>16. QED
  BY <1>7, <1>8, <1>13, <1>14, <1>15, AppendSteady

(* A data message leaves the source's buffer.                              *)
LEMMA XmitMsgSteady ==
  ASSUME IInv, NEW p \in Peers, NEW c \in Streams, FromFd(p, c),
         NEW type \in DataTypes, NEW n \in Nat, n <= ch[p][c].rb,
         NEW sz \in Nat, MaxOutMsg(p) >= sz, XmitMsg(p, c, type, n, sz)
  PROVE  Steady
<1> DEFINE m == [type |-> type, ch |-> c, n |-> n, pos |-> rd[c] - ch[p][c].rb, size |-> sz]
           k == ch[p][c].rb - n
           r == [ch[p][TO_PEER] EXCEPT !.rb = @ + Buffered(p, sz)]
           t == [ch[p][c] EXCEPT !.rb = k]
<1>1. Source[c] = p /\ Sink(c) # p /\ c # TO_PEER /\ c \in Chans /\ sz <= CmdCap
  BY DirectionFacts, StreamFacts, BufferedFacts
<1>2. r \in Channel /\ Keeps(ch[p][TO_PEER], r) /\ PeerChange(p, TO_PEER, r)
  BY BufferedFields
<1>3. ch[p][c] \in Channel /\ ch[p][c].rb \in Nat
  BY <1>1, ChannelTypes
<1>4. k \in Nat /\ (ch[p][c].rb = 0 => k = 0)
  BY <1>3
<1>5. rd[c] - ch[p][c].rb \in Nat
  <2>1. Sent(c) \in Int /\ Got(c) \in Nat /\ Got(c) <= Sent(c)
    BY StreamTypes DEF IInv, FlowControl, StreamInv, DataInFlight
  <2>2. QED
    BY <1>1, <2>1 DEF Sent
<1>6. m \in Messages /\ Sendable(p, m) /\ m.type \in DataTypes
  <2>1. type \in {"DATA", "LZ4"} /\ type \in MsgTypes
    BY DEF DataTypes, MsgTypes
  <2>2. m \in Messages
    BY <1>1, <1>5, <2>1 DEF Messages
  <2>3. QED
    BY <1>1, <1>5, <2>1, <2>2 DEF Sendable
<1>7. Enqueue(p, m) /\ UNCHANGED <<rd, out>>
  BY DEF XmitMsg
<1>8. ch' = [ch EXCEPT ![p][TO_PEER] = r, ![p][c] = t]
  <2>1. [ch EXCEPT ![p][TO_PEER] = r][p][c] = ch[p][c]
    BY <1>1 DEF IInv, TypeOK
  <2>2. ch' = [ch EXCEPT ![p][TO_PEER] = r, ![p][c].rb = @ - n]
    BY DEF XmitMsg
  <2> HIDE DEF r
  <2>3. QED
    BY <2>1, <2>2
<1> HIDE DEF m, r, k
<1>9. /\ t \in Channel /\ t.rb = k
      /\ t.fdh <=> ch[p][c].fdh
      /\ t.err <=> ch[p][c].err
      /\ t.sent_eof <=> ch[p][c].sent_eof
  BY <1>3, <1>4 DEF Channel
<1> HIDE DEF t
<1>10. \A z \in Peers, x \in Chans : ch'[z][x] =
         IF z = p /\ x = c THEN t ELSE IF z = p /\ x = TO_PEER THEN r ELSE ch[z][x]
  BY <1>1, <1>2, <1>8, <1>9, PeerChannelFacts, TwoChannels DEF IInv, TypeOK
<1>11. Keeps(ch[p][c], t) /\ PeerChange(p, c, t)
  BY <1>4, <1>9, StreamFacts DEF Keeps, PeerChange
<1>12. \A z \in Peers, x \in Chans : ChannelStep(z, x)
  BY <1>1, <1>2, <1>10, <1>11, PeerChannelFacts, TwoChannelsStep
<1>13. \A s \in Streams : SameEnd(ch[Sink(s)][s], ch'[Sink(s)][s])
  BY <1>1, <1>10, StreamFacts DEF SameEnd
<1>14. m.type # "CHILD_EXIT" /\ \A s \in Streams : ~IsFor(m, {"CLOSE"}, s)
  BY <1>6 DEF IsFor, DataTypes
<1>15. QED
  BY <1>6, <1>7, <1>12, <1>13, <1>14, AppendSteady

(* A block of the source's buffer is sent uncompressed.                    *)
LEMMA XmitUncompressedSteady ==
  ASSUME IInv, NEW p \in Peers, NEW c \in Streams, FromFd(p, c),
         NEW avail \in Nat, avail <= ch[p][c].rb, XmitDataUncompressed(p, c, avail)
  PROVE  Steady
<1> DEFINE n == MinOf(avail, MaxOutMsg(p) - SzData)
<1>1. MaxOutMsg(p) >= SzData /\ XmitMsg(p, c, "DATA", n, SzData + n)
  BY DEF XmitDataUncompressed
<1>2. MaxOutMsg(p) \in Int /\ SzData \in Nat /\ ch[p][c].rb \in Nat
  BY ConstantFacts, PeerChannelFacts, StreamFacts, ChannelTypes DEF MaxOutMsg, Room, MinOf
<1>3. n \in Nat /\ n <= ch[p][c].rb /\ SzData + n \in Nat /\ MaxOutMsg(p) >= SzData + n
  BY <1>1, <1>2 DEF MinOf
<1>4. "DATA" \in DataTypes
  BY DEF DataTypes
<1> HIDE DEF n
<1>5. QED
  BY <1>1, <1>3, <1>4, XmitMsgSteady

(* xmit_data.                                                              *)
LEMMA XmitDataSteady ==
  ASSUME IInv, NEW p \in Peers, NEW c \in Chans, XmitData(p, c)
  PROVE  Steady
<1>1. c \in Streams /\ FromFd(p, c)
  BY DEF XmitData, DataReady
<1>2. ch[p][c].rb \in Nat /\ ch[p][c].rb <= ch[p][c].rb
  BY ChannelTypes
<1>3. CASE XmitDataUncompressed(p, c, ch[p][c].rb)
  BY <1>1, <1>2, <1>3, XmitUncompressedSteady
<1>4. ASSUME NEW consumed \in 1 .. MinOf(ch[p][c].rb, MaxBlock),
             \/ XmitDataUncompressed(p, c, consumed)
             \/ \E outsz \in 1 .. MaxOutMsg(p) - SzLz4 :
                  XmitMsg(p, c, "LZ4", consumed, SzLz4 + outsz)
      PROVE  Steady
  <2>1. consumed \in Nat /\ consumed <= ch[p][c].rb
    BY <1>2, ConstantFacts DEF MinOf
  <2>2. CASE XmitDataUncompressed(p, c, consumed)
    BY <1>1, <2>1, <2>2, XmitUncompressedSteady
  <2>3. CASE \E outsz \in 1 .. MaxOutMsg(p) - SzLz4 :
               XmitMsg(p, c, "LZ4", consumed, SzLz4 + outsz)
    <3>1. PICK outsz \in 1 .. MaxOutMsg(p) - SzLz4 :
            XmitMsg(p, c, "LZ4", consumed, SzLz4 + outsz)
      BY <2>3
    <3>2. MaxOutMsg(p) \in Int /\ SzLz4 \in Nat
      BY ConstantFacts, PeerChannelFacts, ChannelTypes DEF MaxOutMsg, Room, MinOf
    <3>3. SzLz4 + outsz \in Nat /\ MaxOutMsg(p) >= SzLz4 + outsz /\ "LZ4" \in DataTypes
      BY <3>2 DEF DataTypes
    <3>4. QED
      BY <1>1, <2>1, <3>1, <3>3, XmitMsgSteady
  <2>4. QED
    BY <1>4, <2>2, <2>3
<1>5. QED
  BY <1>3, <1>4 DEF XmitData, XmitDataLz4

(* xmit_eof: a source has sent all it read when its CLOSE is queued.       *)
LEMMA XmitEofSteady ==
  ASSUME IInv, NEW p \in Peers, NEW c \in Chans, XmitEof(p, c)
  PROVE  Steady
<1> DEFINE m == [type |-> "CLOSE", ch |-> c, n |-> 0, pos |-> 0, size |-> SzClose]
           r == [ch[p][TO_PEER] EXCEPT !.rb = @ + Buffered(p, SzClose)]
           u == IF c = TO_PEER THEN r ELSE ch[p][c]
           t == [u EXCEPT !.sent_eof = TRUE]
<1>1. /\ SzClose \in Nat /\ MaxOutMsg(p) >= SzClose
      /\ ~ch[p][c].fdh /\ ch[p][c].rb = 0
  BY ConstantFacts DEF XmitEof, EofReady
<1>2. /\ r \in Channel /\ Keeps(ch[p][TO_PEER], r) /\ PeerChange(p, TO_PEER, r)
      /\ r.fdh <=> ch[p][TO_PEER].fdh
      /\ r.pending_close <=> ch[p][TO_PEER].pending_close
      /\ r.err <=> ch[p][TO_PEER].err
      /\ ~r.fdh => r.rb = ch[p][TO_PEER].rb
  BY <1>1, BufferedFields
<1>3. m \in Messages /\ Sendable(p, m) /\ m.type = "CLOSE" /\ m.ch = c
  BY <1>1, BufferedFacts DEF Messages, MsgTypes, Sendable
<1>4. Enqueue(p, m) /\ UNCHANGED <<rd, out>>
  BY DEF XmitEof
<1>5. ch' = [ch EXCEPT ![p][TO_PEER] = r, ![p][c] = t]
  <2>1. ch' = [ch EXCEPT ![p][TO_PEER] = r, ![p][c].sent_eof = TRUE]
    BY DEF XmitEof
  <2> HIDE DEF r
  <2>2. [ch EXCEPT ![p][TO_PEER] = r][p][c] = u
    BY PeerChannelFacts DEF IInv, TypeOK
  <2> HIDE DEF u
  <2>3. QED
    BY <2>1, <2>2
<1> HIDE DEF m, r
<1>6. ch[p][c] \in Channel
  BY ChannelTypes
<1>7. u \in Channel /\ SameEnd(ch[p][c], u)
  BY <1>1, <1>2, <1>6 DEF SameEnd
<1> HIDE DEF u
<1>8. t \in Channel /\ SameEnd(u, t) /\ t.sent_eof
  BY <1>7 DEF Channel, SameEnd
<1> HIDE DEF t
<1>9. SameEnd(ch[p][c], t) /\ t.sent_eof
  BY <1>7, <1>8 DEF SameEnd
<1>10. \A z \in Peers, x \in Chans : ch'[z][x] =
         IF z = p /\ x = c THEN t ELSE IF z = p /\ x = TO_PEER THEN r ELSE ch[z][x]
  BY <1>2, <1>5, <1>8, PeerChannelFacts, TwoChannels DEF IInv, TypeOK
<1>11. Keeps(ch[p][c], t) /\ PeerChange(p, c, t)
  BY <1>9 DEF SameEnd, Keeps, PeerChange
<1>12. \A z \in Peers, x \in Chans : ChannelStep(z, x)
  BY <1>2, <1>10, <1>11, PeerChannelFacts, TwoChannelsStep
<1>13. \A s \in Streams : SameEnd(ch[Sink(s)][s], ch'[Sink(s)][s])
  BY <1>9, <1>10, StreamFacts DEF SameEnd
<1>14. \A s \in Streams : Source[s] = p /\ IsFor(m, {"CLOSE"}, s) => Finished(s)
  BY <1>1, <1>3 DEF IsFor, Finished
<1>15. QED
  BY <1>3, <1>4, <1>12, <1>13, <1>14, AppendSteady

(* A sink that a step leaves alone.                                        *)
LEMMA SameSinkStep ==
  ASSUME NEW s \in Streams, ch'[Sink(s)][s] = ch[Sink(s)][s]
  PROVE  SinkStep(s)
BY DEF SinkStep

(* A message consumed without effect.                                      *)
LEMMA ConsumeOnlySteady ==
  ASSUME IInv, NEW p \in Peers, MsgReady(p), ConsumeOnly(p),
         \A s \in Streams : IsFor(Head1(p), DataTypes, s) => ~ch[Sink(s)][s].fdh
  PROVE  Steady
<1> DEFINE r == [ch[p][FROM_PEER] EXCEPT !.rb = @ - Head1(p).size]
<1>1. r \in Channel /\ Keeps(ch[p][FROM_PEER], r) /\ PeerChange(p, FROM_PEER, r)
  BY TakenFields
<1>2. /\ ch' = [ch EXCEPT ![p][FROM_PEER] = r] /\ UNCHANGED <<rd, out>>
      /\ q' = [q EXCEPT ![Other(p)] = Tail(@)]
  BY DEF ConsumeOnly
<1> HIDE DEF r
<1>3. \A z \in Peers, x \in Chans : ch'[z][x] = IF z = p /\ x = FROM_PEER THEN r ELSE ch[z][x]
  BY <1>1, <1>2, PeerChannelFacts, OneChannel DEF IInv, TypeOK
<1>4. \A z \in Peers, x \in Chans : ChannelStep(z, x)
  <2>1. \A z \in Peers, x \in Chans : ch'[z][x] =
          IF z = p /\ x = FROM_PEER THEN r ELSE IF z = p /\ x = FROM_PEER THEN r ELSE ch[z][x]
    BY <1>3
  <2>2. QED
    BY <1>1, <2>1, PeerChannelFacts, TwoChannelsStep
<1>5. \A s \in Streams : out'[s] = out[s] /\ ch'[Sink(s)][s] = ch[Sink(s)][s]
  BY <1>2, <1>3, StreamFacts
<1>6. ASSUME NEW s \in Streams, Sink(s) = p
      PROVE  /\ SinkStep(s)
             /\ Len(out'[s]) + ch'[p][s].rb =
                  IF ch[p][s].fdh /\ IsFor(Head1(p), DataTypes, s)
                    THEN Got(s) + Head1(p).n ELSE Got(s)
  BY <1>5, <1>6, SameSinkStep DEF Got
<1>7. QED
  BY <1>2, <1>4, <1>5, <1>6, TailSteady

(* A message whose handler changes channel c of the process.               *)
LEMMA ConsumeSteady ==
  ASSUME IInv, NEW p \in Peers, MsgReady(p), NEW c \in Streams, NEW t \in Channel,
         Consume(p, c, t), Keeps(ch[p][c], t),
         \A s \in Streams : (s = c /\ Sink(c) = p) \/ out'[s] = out[s],
         \A s \in Streams : s = c \/ ~IsFor(Head1(p), DataTypes, s),
         Sink(c) = p =>
           /\ SinkStep(c)
           /\ Len(out'[c]) + t.rb =
                IF ch[p][c].fdh /\ IsFor(Head1(p), DataTypes, c)
                  THEN Got(c) + Head1(p).n ELSE Got(c)
  PROVE  Steady
<1> DEFINE r == [ch[p][FROM_PEER] EXCEPT !.rb = @ - Head1(p).size]
<1>1. r \in Channel /\ Keeps(ch[p][FROM_PEER], r) /\ PeerChange(p, FROM_PEER, r)
  BY TakenFields
<1>2. /\ ch' = [ch EXCEPT ![p][FROM_PEER] = r, ![p][c] = t] /\ UNCHANGED rd
      /\ q' = [q EXCEPT ![Other(p)] = Tail(@)]
  BY DEF Consume
<1>3. c \in Chans /\ PeerChange(p, c, t)
  BY StreamFacts DEF PeerChange
<1> HIDE DEF r
<1>4. \A z \in Peers, x \in Chans : ch'[z][x] =
        IF z = p /\ x = c THEN t ELSE IF z = p /\ x = FROM_PEER THEN r ELSE ch[z][x]
  BY <1>1, <1>2, <1>3, PeerChannelFacts, TwoChannels DEF IInv, TypeOK
<1>5. \A z \in Peers, x \in Chans : ChannelStep(z, x)
  BY <1>1, <1>3, <1>4, PeerChannelFacts, TwoChannelsStep
<1>6. \A s \in Streams : Source[s] = p => out'[s] = out[s] /\ ch'[Sink(s)][s] = ch[Sink(s)][s]
  BY <1>4, StreamFacts
<1>7. ASSUME NEW s \in Streams, Sink(s) = p
      PROVE  /\ SinkStep(s)
             /\ Len(out'[s]) + ch'[p][s].rb =
                  IF ch[p][s].fdh /\ IsFor(Head1(p), DataTypes, s)
                    THEN Got(s) + Head1(p).n ELSE Got(s)
  <2>1. CASE s = c
    <3>1. ch'[p][s] = t
      BY <1>3, <1>4, <2>1
    <3>2. QED
      BY <1>7, <2>1, <3>1
  <2>2. CASE s # c
    <3>1. ch'[Sink(s)][s] = ch[Sink(s)][s] /\ out'[s] = out[s]
      BY <1>4, <2>2, StreamFacts
    <3>2. ~IsFor(Head1(p), DataTypes, s)
      BY <2>2
    <3>3. QED
      BY <1>7, <3>1, <3>2, SameSinkStep DEF Got
  <2>3. QED
    BY <2>1, <2>2
<1>8. QED
  BY <1>2, <1>5, <1>6, <1>7, TailSteady

(* A control message.                                                      *)
LEMMA RecvControlSteady ==
  ASSUME IInv, NEW p \in Peers, RecvControl(p)
  PROVE  Steady /\ ConsumeOnly(p)
<1>1. MsgReady(p) /\ Head1(p).type \in {"CHILD_EXIT", "WINDOW_SIZE"}
  BY DEF RecvControl
<1>2. Head1(p).type = ControlType(Other(p))
  BY <1>1, HeadFacts DEF Sendable
<1>3. ConsumeOnly(p)
  BY <1>2 DEF RecvControl
<1>4. \A s \in Streams : ~IsFor(Head1(p), DataTypes, s)
  BY <1>1 DEF IsFor, DataTypes
<1>5. QED
  BY <1>1, <1>3, <1>4, ConsumeOnlySteady

(* MSG_CHANNEL_CLOSE.                                                      *)
LEMMA RecvCloseSteady ==
  ASSUME IInv, NEW p \in Peers, RecvClose(p)
  PROVE  Steady
<1>1. MsgReady(p) /\ Head1(p).type = "CLOSE"
  BY DEF RecvClose
<1>2. \A s \in Streams : ~IsFor(Head1(p), DataTypes, s)
  BY <1>1 DEF IsFor, DataTypes
<1>3. CASE Head1(p).ch \notin Streams
  BY <1>1, <1>2, <1>3, ConsumeOnlySteady DEF RecvClose
<1>4. CASE Head1(p).ch \in Streams
  <2>1. PICK c \in Streams : c = Head1(p).ch
    BY <1>4
  <2> DEFINE e == [ch[p][c] EXCEPT !.sent_eof = TRUE]
             t == Closed(p, c, e)
  <2>2. Consume(p, c, t) /\ UNCHANGED <<kept, out>>
    BY <2>1 DEF RecvClose
  <2>3. ch[p][c] \in Channel /\ c \in Chans /\ c # FROM_PEER
    BY StreamFacts, ChannelTypes
  <2>4. e \in Channel /\ SameEnd(ch[p][c], e) /\ e.sent_eof
    BY <2>3 DEF Channel, SameEnd
  <2> HIDE DEF e
  <2>5. /\ t \in Channel /\ t.rb = ch[p][c].rb
        /\ t.fdh <=> ch[p][c].fdh /\ ~FromFd(p, c) /\ ch[p][c].rb # 0
        /\ t.err <=> ch[p][c].err
        /\ t.sent_eof
    BY <2>4, ClosedFields DEF SameEnd
  <2> HIDE DEF t
  <2>6. Keeps(ch[p][c], t)
    BY <2>5 DEF Keeps
  <2>7. ASSUME Sink(c) = p
        PROVE  /\ SinkStep(c)
               /\ Len(out'[c]) + t.rb = Got(c)
    <3>1. ch'[p][c] = t
      BY <2>2, <2>3 DEF Consume, IInv, TypeOK
    <3>2. /\ q[Source[c]] # <<>> /\ q'[Source[c]] = Tail(q[Source[c]])
          /\ IsFor(Head(q[Source[c]]), {"CLOSE"}, c)
      <4>1. Source[c] = Other(p)
        BY <2>7, StreamFacts, PeerFacts
      <4>2. q'[Other(p)] = Tail(q[Other(p)]) /\ q[Other(p)] # <<>>
        BY <1>1, <2>2, TailQueues, HeadFacts DEF Consume
      <4>3. QED
        BY <1>1, <2>1, <4>1, <4>2 DEF IsFor, Head1
    <3>3. ~FromFd(p, c)
      BY <2>7, DirectionFacts
    <3>4. QED
      BY <2>2, <2>5, <2>7, <3>1, <3>2, <3>3 DEF SinkStep, Got
  <2>8. QED
    BY <1>1, <1>2, <2>2, <2>5, <2>6, <2>7, ConsumeSteady
<1>5. QED
  BY <1>3, <1>4

(* MSG_CHANNEL_WINDOW.                                                     *)
LEMMA RecvWindowSteady ==
  ASSUME IInv, NoProtocolError', NEW p \in Peers, RecvWindow(p)
  PROVE  Steady
<1>1. MsgReady(p) /\ Head1(p).type = "WINDOW"
  BY DEF RecvWindow
<1>2. \A s \in Streams : ~IsFor(Head1(p), DataTypes, s)
  BY <1>1 DEF IsFor, DataTypes
<1>3. ~Die(p, "wrong direction") /\ ~Die(p, "window overflow")
  BY DEF Die, NoProtocolError, IInv, TypeOK
<1>4. CASE ConsumeOnly(p)
  BY <1>1, <1>2, <1>4, ConsumeOnlySteady
<1>5. CASE ~ConsumeOnly(p)
  <2>1. Head1(p).ch \in Streams
    BY <1>3 DEF RecvWindow
  <2>2. PICK c \in Streams : c = Head1(p).ch
    BY <2>1
  <2> DEFINE k == ch[p][c].window + Head1(p).n
             t == [ch[p][c] EXCEPT !.window = k]
  <2>3. FromFd(p, c) /\ Consume(p, c, t) /\ UNCHANGED <<kept, out>>
    BY <1>3, <1>5, <2>2 DEF RecvWindow
  <2>4. ch[p][c] \in Channel /\ c \in Chans
    BY StreamFacts, ChannelTypes
  <2>5. k \in Nat
    BY <1>1, <2>4, HeadFacts DEF Channel, Messages
  <2> HIDE DEF k
  <2>6. t \in Channel /\ SameEnd(ch[p][c], t) /\ (t.sent_eof <=> ch[p][c].sent_eof)
    BY <2>4, <2>5 DEF Channel, SameEnd
  <2> HIDE DEF t
  <2>7. Keeps(ch[p][c], t) /\ Sink(c) # p
    BY <2>3, <2>6, SameFlags, DirectionFacts
  <2>8. QED
    BY <1>1, <1>2, <2>3, <2>6, <2>7, ConsumeSteady
<1>6. QED
  BY <1>4, <1>5

(* MSG_CHANNEL_DATA and MSG_CHANNEL_DATA_LZ4: an open sink takes the whole *)
(* payload.                                                                *)
LEMMA RecvDataSteady ==
  ASSUME IInv, NoProtocolError', NEW p \in Peers, RecvData(p)
  PROVE  Steady
<1>1. MsgReady(p) /\ Head1(p).type \in DataTypes /\ Head1(p).n \in Nat /\ Head1(p).pos \in Nat
  BY HeadFacts DEF RecvData, DataTypes, Messages
<1>2. ~Die(p, "wrong direction") /\ ~Die(p, "window desync")
  BY DEF Die, NoProtocolError, IInv, TypeOK
<1>3. Head1(p).ch \in Streams /\ ~FromFd(p, Head1(p).ch)
  BY <1>2 DEF RecvData
<1>4. PICK c \in Streams : c = Head1(p).ch
  BY <1>3
<1>5. Sink(c) = p /\ c \in Chans /\ ch[p][c] \in Channel /\ ch[p][c].rb \in Nat
  BY <1>3, <1>4, StreamFacts, DirectionFacts, ChannelTypes
<1>6. \A s \in Streams : IsFor(Head1(p), DataTypes, s) <=> s = c
  BY <1>1, <1>4 DEF IsFor
<1>7. CASE ~ch[p][c].fdh
  <2>1. ConsumeOnly(p)
    BY <1>3, <1>4, <1>7 DEF RecvData
  <2>2. QED
    BY <1>1, <1>5, <1>6, <1>7, <2>1, ConsumeOnlySteady
<1>8. CASE ch[p][c].fdh
  <2>1. PICK d \in DirectSizes(p, c, Head1(p).n) :
          /\ out' = [out EXCEPT ![c] = @ \o Bytes(Head1(p).pos, d)]
          /\ Consume(p, c, [ch[p][c] EXCEPT !.bytes_written = @ + d, !.rb = @ + (Head1(p).n - d)])
    BY <1>2, <1>3, <1>4, <1>8 DEF RecvData
  <2>2. d \in 0 .. Head1(p).n
    BY <1>1, DirectFacts
  <2> DEFINE a == ch[p][c].bytes_written + d
             b == ch[p][c].rb + (Head1(p).n - d)
             t == [ch[p][c] EXCEPT !.bytes_written = a, !.rb = b]
  <2>3. d \in Nat /\ a \in Nat /\ b \in Nat /\ Consume(p, c, t)
    <3>1. ch[p][c].bytes_written \in Nat
      BY <1>5 DEF Channel
    <3>2. QED
      BY <1>1, <1>5, <2>1, <2>2, <3>1
  <2>4. b + d = ch[p][c].rb + Head1(p).n
    BY <1>1, <1>5, <2>3
  <2> HIDE DEF a, b
  <2>5. /\ t \in Channel /\ t.rb = b
        /\ t.fdh <=> ch[p][c].fdh
        /\ t.pending_close <=> ch[p][c].pending_close
        /\ t.err <=> ch[p][c].err
        /\ t.sent_eof <=> ch[p][c].sent_eof
    BY <1>5, <2>3 DEF Channel
  <2> HIDE DEF t
  <2>6. Keeps(ch[p][c], t)
    BY <1>8, <2>5 DEF Keeps
  <2>7. ch'[p][c] = t
    BY <1>5, <2>3 DEF Consume, IInv, TypeOK
  <2>8. SinkStep(c)
    BY <1>5, <1>8, <2>5, <2>7 DEF SinkStep
  <2>9. Len(out'[c]) = Len(out[c]) + d /\ \A s \in Streams : s = c \/ out'[s] = out[s]
    <3> DEFINE new == Bytes(Head1(p).pos, d)
    <3>1. out[c] \in Seq(Nat) /\ out'[c] = out[c] \o new
      BY <2>1 DEF IInv, TypeOK
    <3>2. new \in Seq(Nat) /\ Len(new) = d
      BY <1>1, <2>3, BytesFacts
    <3> HIDE DEF new
    <3>3. Len(out[c] \o new) = Len(out[c]) + d
      BY <3>1, <3>2, ConcatProperties
    <3>4. QED
      BY <2>1, <3>1, <3>3 DEF IInv, TypeOK
  <2>10. Len(out'[c]) + t.rb = Got(c) + Head1(p).n
    <3>1. Len(out[c]) \in Nat /\ Got(c) = Len(out[c]) + ch[p][c].rb
      BY <1>5, StreamTypes DEF IInv, Got
    <3> DEFINE l == Len(out[c])
               r == ch[p][c].rb
               n == Head1(p).n
    <3>2. l \in Nat /\ d \in Nat /\ b \in Nat /\ r \in Nat /\ n \in Nat /\ b + d = r + n
      BY <1>1, <1>5, <2>3, <2>4, <3>1
    <3>3. Len(out'[c]) = l + d /\ t.rb = b /\ Got(c) = l + r
      BY <2>5, <2>9, <3>1
    <3> HIDE DEF l, r, n
    <3>4. l + d + b = l + r + n
      BY ONLY <3>2
    <3>5. Len(out'[c]) + t.rb = Got(c) + n
      BY ONLY <3>3, <3>4
    <3>6. QED
      BY <3>5 DEF n
  <2>11. QED
    BY <1>1, <1>5, <1>6, <1>8, <2>3, <2>5, <2>6, <2>8, <2>9, <2>10, ConsumeSteady
<1>9. QED
  BY <1>7, <1>8

----------------------------------------------------------------------------
(* What steps do to the ends of streams.                                   *)

(* A sink never has more than its source has read.                         *)
LEMMA GotBound ==
  IInv => \A s \in Streams : Got(s) \in Nat /\ rd[s] \in Nat /\ Got(s) <= rd[s]
<1> SUFFICES ASSUME IInv, NEW s \in Streams
             PROVE  Got(s) \in Nat /\ rd[s] \in Nat /\ Got(s) <= rd[s]
  OBVIOUS
<1>1. Got(s) \in Nat /\ rd[s] \in Nat /\ Sent(s) \in Int /\ ch[Source[s]][s].rb \in Nat
  BY StreamTypes DEF IInv
<1>2. Got(s) <= Sent(s) /\ Sent(s) = rd[s] - ch[Source[s]][s].rb
  BY DEF IInv, FlowControl, StreamInv, DataInFlight, Sent
<1>3. QED
  BY <1>1, <1>2

(* So it is after every step.                                              *)
LEMMA GotBoundNext ==
  (IInv => \A s \in Streams : Got(s) \in Nat /\ rd[s] \in Nat /\ Got(s) <= rd[s])'
BY GotBound, PTL

(* A step of the streams, whatever the main programs close.                *)
Moves ==
  /\ \A z \in Peers, x \in Chans : Keeps(ch[z][x], ch'[z][x])
  /\ \A s \in Streams : StreamStep(s)

(* A step without a close moves the streams.                               *)
LEMMA SteadyMoves ==
  ASSUME Steady
  PROVE  Moves
BY DEF Steady, Moves, ChannelStep

(* What a step leaves of a stream: a finished source stays finished, and   *)
(* what the sink has grows up to what was read.                            *)
LEMMA StreamMoves ==
  ASSUME IInv, IInv', Moves, NEW s \in Streams
  PROVE  /\ Finished(s) => Finished(s)' /\ rd'[s] = rd[s]
         /\ ch'[Sink(s)][s].fdh => ch[Sink(s)][s].fdh
         /\ ch[Sink(s)][s].err => ch'[Sink(s)][s].err
         /\ Got(s)' = Len(out'[s]) + ch'[Sink(s)][s].rb
         /\ Got(s)' \in Nat /\ Got(s)' <= rd'[s]
<1>1. s \in Chans /\ Source[s] \in Peers /\ Sink(s) \in Peers
  BY StreamFacts
<1>2. Keeps(ch[Source[s]][s], ch'[Source[s]][s]) /\ Keeps(ch[Sink(s)][s], ch'[Sink(s)][s])
  BY <1>1 DEF Moves
<1>3. Finished(s) => Finished(s)' /\ rd'[s] = rd[s]
  BY <1>2 DEF Finished, Keeps, Moves, StreamStep
<1>4. Got(s)' = Len(out'[s]) + ch'[Sink(s)][s].rb
  BY DEF Got, Sink
<1>5. Got(s)' \in Nat /\ Got(s)' <= rd'[s]
  BY GotBoundNext
<1>6. QED
  BY <1>2, <1>3, <1>4, <1>5 DEF Keeps

(* A finished stream whose sink has everything stays so, unless its sink   *)
(* fails.                                                                  *)
LEMMA CompleteKept ==
  ASSUME IInv, IInv', Moves, NEW s \in Streams, Finished(s), Got(s) = rd[s]
  PROVE  Got(s)' = rd'[s] \/ (ch'[Sink(s)][s].err /\ ~ch'[Sink(s)][s].fdh)
<1>1. /\ rd'[s] = rd[s] /\ Got(s)' \in Nat /\ Got(s)' <= rd[s] /\ rd[s] \in Nat
      /\ Got(s)' = Len(out'[s]) + ch'[Sink(s)][s].rb
  BY StreamMoves, GotBound
<1>2. QueueStep(s)
  BY DEF Moves, StreamStep
<1>3. ASSUME q[Source[s]] # <<>> PROVE Head(q[Source[s]]).n \in Nat
  <2>1. q[Source[s]] \in Seq(Messages)
    BY StreamTypes DEF IInv
  <2>2. Head(q[Source[s]]) \in Messages
    BY <1>3, <2>1
  <2>3. QED
    BY <2>2 DEF Messages
<1>4. CASE Got(s)' = Got(s)
  BY <1>1, <1>4
<1>5. CASE q[Source[s]] # <<>> /\ Got(s)' = Got(s) + Head(q[Source[s]]).n
  <2>1. Head(q[Source[s]]).n \in Nat
    BY <1>3, <1>5
  <2>2. QED
    BY <1>1, <1>5, <2>1
<1>6. CASE ~ch'[Sink(s)][s].fdh /\ ch'[Sink(s)][s].err
  BY <1>6
<1>7. QED
  BY <1>1, <1>2, <1>4, <1>5, <1>6 DEF QueueStep

(* EndsAt when a message is appended.                                      *)
LEMMA EndsAtAppend ==
  ASSUME NEW w \in Seq(Messages), NEW m \in Messages, NEW s, NEW i \in 1 .. Len(w) + 1, NEW x,
         EndsAt(w, s, i, x)
  PROVE  EndsAt(Append(w, m), s, i, x)
<1>1. PICK j \in 1 .. Len(w) : j < i /\ IsFor(w[j], DataTypes, s) /\ w[j].pos + w[j].n = x
  BY DEF EndsAt
<1>2. j \in 1 .. Len(Append(w, m)) /\ Append(w, m)[j] = w[j]
  OBVIOUS
<1>3. QED
  BY <1>1, <1>2 DEF EndsAt

(* EndsAt when the first message is consumed.                              *)
LEMMA EndsAtTail ==
  ASSUME NEW w \in Seq(Messages), w # <<>>, NEW s, NEW i \in 1 .. Len(Tail(w)), NEW x,
         EndsAt(w, s, i + 1, x)
  PROVE  \/ EndsAt(Tail(w), s, i, x)
         \/ IsFor(Head(w), DataTypes, s) /\ Head(w).pos + Head(w).n = x
<1>1. PICK j \in 1 .. Len(w) : j < i + 1 /\ IsFor(w[j], DataTypes, s) /\ w[j].pos + w[j].n = x
  BY DEF EndsAt
<1>2. Len(w) \in Nat /\ Len(Tail(w)) = Len(w) - 1 /\ Head(w) = w[1]
  OBVIOUS
<1>3. CASE j = 1
  BY <1>1, <1>2, <1>3
<1>4. CASE j # 1
  <2>1. j - 1 \in 1 .. Len(Tail(w)) /\ j - 1 < i /\ Tail(w)[j - 1] = w[j]
    BY <1>1, <1>2, <1>4
  <2>2. QED
    BY <1>1, <2>1 DEF EndsAt
<1>5. QED
  BY <1>3, <1>4

(* The end of a stream stays behind its data.                              *)
LEMMA EndInFlightKept ==
  ASSUME IInv, IInv', Moves, NEW s \in Streams, EndInFlight(s)
  PROVE  EndInFlight(s)'
<1> DEFINE w == q[Source[s]]
           v == q'[Source[s]]
<1>1. w \in Seq(Messages) /\ Len(w) \in Nat /\ rd[s] \in Nat
  BY StreamTypes DEF IInv
<1>2. /\ Finished(s) => Finished(s)' /\ rd'[s] = rd[s]
      /\ ch'[Sink(s)][s].fdh => ch[Sink(s)][s].fdh
      /\ Got(s)' = Len(out'[s]) + ch'[Sink(s)][s].rb
      /\ Got(s)' \in Nat /\ Got(s)' <= rd'[s]
  BY StreamMoves
<1>3. QueueStep(s)
  BY DEF Moves, StreamStep
<1> SUFFICES ASSUME NEW i \in 1 .. Len(v), IsLast(v[i], s)
             PROVE  /\ Finished(s)'
                    /\ ch'[Sink(s)][s].fdh => Got(s)' = rd'[s] \/ EndsAt(v, s, i, rd'[s])
  BY DEF EndInFlight, Sink, IsLast, IsFor
<1>4. CASE v = w
  <2>1. /\ Finished(s)
        /\ ch[Sink(s)][s].fdh => Got(s) = rd[s] \/ EndsAt(w, s, i, rd[s])
    BY <1>4 DEF EndInFlight
  <2>2. QED
    BY <1>2, <1>4, <2>1, CompleteKept
<1>5. ASSUME NEW m \in Messages, v = Append(w, m), Got(s)' = Got(s),
             IsLast(m, s) => Finished(s) /\ ch[Source[s]][TO_PEER].fdh
      PROVE  /\ Finished(s)'
             /\ ch'[Sink(s)][s].fdh => Got(s)' = rd'[s] \/ EndsAt(v, s, i, rd'[s])
  <2>1. i \in 1 .. Len(w) + 1 /\ v[i] = IF i = Len(w) + 1 THEN m ELSE w[i]
    BY <1>1, <1>5
  <2>2. Finished(s) /\ (ch[Sink(s)][s].fdh => Got(s) = rd[s] \/ EndsAt(w, s, i, rd[s]))
    <3>1. CASE i = Len(w) + 1
      <4>1. Finished(s) /\ ch[Source[s]][TO_PEER].fdh
        BY <1>5, <2>1, <3>1
      <4>2. Sent(s) = rd[s]
        BY <1>1, <4>1 DEF Sent, Finished
      <4>3. ch[Sink(s)][s].fdh => Sent(s) = Got(s) \/ EndsAt(w, s, Len(w) + 1, Sent(s))
        BY <4>1 DEF IInv, FlowControl, StreamInv, Contiguous
      <4>4. QED
        BY <3>1, <4>1, <4>2, <4>3
    <3>2. CASE i # Len(w) + 1
      <4>1. i \in 1 .. Len(w) /\ v[i] = w[i]
        BY <1>1, <2>1, <3>2
      <4>2. QED
        BY <4>1 DEF EndInFlight
    <3>3. QED
      BY <3>1, <3>2
  <2>3. EndsAt(w, s, i, rd[s]) => EndsAt(v, s, i, rd[s])
    BY <1>1, <1>5, <2>1, EndsAtAppend
  <2>4. QED
    BY <1>2, <1>5, <2>2, <2>3
<1>6. CASE /\ w # <<>> /\ v = Tail(w)
           /\ IF ch[Sink(s)][s].fdh /\ IsFor(Head(w), DataTypes, s)
                THEN Got(s)' = Got(s) + Head(w).n ELSE Got(s)' = Got(s)
  <2>1. i + 1 \in 1 .. Len(w) /\ v[i] = w[i + 1] /\ i \in 1 .. Len(Tail(w))
    BY <1>1, <1>6
  <2>2. /\ Finished(s)
        /\ ch[Sink(s)][s].fdh => Got(s) = rd[s] \/ EndsAt(w, s, i + 1, rd[s])
    BY <2>1 DEF EndInFlight
  <2>3. ASSUME ch'[Sink(s)][s].fdh, IsFor(Head(w), DataTypes, s), Head(w).pos + Head(w).n = rd[s]
        PROVE  Got(s)' = rd'[s]
    <3>1. Head(w).pos = Got(s)
      BY <1>2, <1>6, <2>3, FirstData DEF IInv, FlowControl
    <3>2. Got(s)' = Got(s) + Head(w).n
      BY <1>2, <1>6, <2>3
    <3>3. QED
      BY <1>2, <2>2, <2>3, <3>1, <3>2
  <2>4. EndsAt(w, s, i + 1, rd[s]) =>
          \/ EndsAt(v, s, i, rd[s])
          \/ IsFor(Head(w), DataTypes, s) /\ Head(w).pos + Head(w).n = rd[s]
    BY <1>1, <1>6, <2>1, EndsAtTail
  <2>5. QED
    BY <1>2, <2>2, <2>3, <2>4, CompleteKept
<1>7. QED
  BY <1>2, <1>3, <1>4, <1>5, <1>6 DEF QueueStep

(* A sink that ends has everything, if only its CLOSE or an error ends it. *)
LEMMA EndSeenKept ==
  ASSUME IInv, IInv', Moves, NEW s \in Streams, EndInFlight(s), EndSeen(s), SinkStep(s)
  PROVE  EndSeen(s)'
<1> DEFINE w == q[Source[s]]
           r == ch[Sink(s)][s]
           t == ch'[Sink(s)][s]
<1>1. w \in Seq(Messages) /\ Len(w) \in Nat
  BY StreamTypes DEF IInv
<1>2. /\ Finished(s) => Finished(s)' /\ rd'[s] = rd[s]
      /\ r.err => t.err
      /\ Got(s)' = Len(out'[s]) + t.rb
  BY StreamMoves
<1> SUFFICES ASSUME ~t.fdh \/ t.pending_close, ~t.err
             PROVE  Finished(s)' /\ Got(s)' = rd'[s] /\ (~t.fdh => t.rb = 0)
  BY DEF EndSeen, Ending, Sink
<1>3. CASE Ending(s)
  <2>1. Finished(s) /\ Got(s) = rd[s] /\ (~r.fdh => r.rb = 0)
    BY <1>2, <1>3 DEF EndSeen
  <2>2. Got(s)' = rd'[s]
    BY <2>1, CompleteKept
  <2>3. ~t.fdh => t.rb = 0
    BY <2>1 DEF SinkStep
  <2>4. QED
    BY <1>2, <2>1, <2>2, <2>3
<1>4. CASE ~Ending(s)
  <2>1. w # <<>> /\ q'[Source[s]] = Tail(w) /\ IsFor(Head(w), {"CLOSE"}, s)
    BY <1>4 DEF SinkStep, Ending
  <2>2. 1 \in 1 .. Len(w) /\ w[1] = Head(w)
    BY <1>1, <2>1
  <2>3. IsLast(w[1], s) /\ ~EndsAt(w, s, 1, rd[s])
    BY <1>1, <2>1, <2>2 DEF IsLast, EndsAt
  <2>4. Finished(s) /\ Got(s) = rd[s]
    BY <1>4, <2>2, <2>3 DEF EndInFlight, Ending
  <2>5. Got(s)' = rd'[s]
    BY <2>4, CompleteKept
  <2>6. ~t.fdh => t.rb = 0
    BY <1>4 DEF SinkStep, Ending
  <2>7. QED
    BY <1>2, <2>4, <2>5, <2>6
<1>5. QED
  BY <1>3, <1>4

----------------------------------------------------------------------------
(* The steps of the connection, as the main programs use them.             *)

(* io_loop_pump.                                                           *)
LEMMA PumpSteady ==
  ASSUME IInv, IInv', NEW p \in Peers, PumpStep(p)
  PROVE  Steady
<1>1. NoProtocolError' /\ ~ImpossibleMsg(p)
  BY NoImpossibleMsg DEF IInv, ImpossibleMsg
<1>2. CASE PumpReturns(p)
  BY <1>2, NoneSteady DEF PumpReturns
<1>3. ASSUME NEW c \in Chans,
             XmitAcks(p, c) \/ XmitData(p, c) \/ DoPendingClose(p, c) \/ XmitEof(p, c)
      PROVE  Steady
  BY <1>3, XmitAcksSteady, XmitDataSteady, DoPendingCloseSteady, XmitEofSteady
<1>4. QED
  BY <1>1, <1>2, <1>3, RecvDataSteady, RecvWindowSteady, RecvCloseSteady, DropPartialSteady
     DEF PumpStep

(* io_loop_do_io.                                                          *)
LEMMA IoSteady ==
  ASSUME IInv, NEW p \in Peers, IoStep(p)
  PROVE  Steady
<1>1. ASSUME NEW s \in Streams,
             \/ StreamRead(p, s) \/ StreamEof(p, s)
             \/ StreamWrite(p, s) \/ StreamWriteError(p, s)
      PROVE  Steady
  BY <1>1, StreamReadSteady, StreamEofSteady, StreamWriteSteady, StreamWriteErrorSteady
<1>2. QED
  BY <1>1, PeerReadSteady, PeerEofSteady, PeerWriteSteady, PeerWriteErrorSteady DEF IoStep

(* Closing a channel keeps what Keeps says.                                *)
LEMMA ClosedKeeps ==
  ASSUME NEW p, NEW c, NEW r \in Channel
  PROVE  Keeps(r, Closed(p, c, r))
BY ClosedFields DEF Keeps

(* channel_close of some channels of a process moves nothing.              *)
LEMMA ShutMoves ==
  ASSUME IInv, NEW p \in Peers, NEW cs \in SUBSET Chans, Shut(p, cs)
  PROVE  /\ Moves /\ UNCHANGED <<q, cut>>
         /\ \A z \in Peers, x \in Chans : z # p \/ x \notin cs => ch'[z][x] = ch[z][x]
         /\ \A z \in Peers : stage'[z] # "exited" <=> stage[z] # "exited"
<1>1. UNCHANGED <<q, rd, out, cut>>
  BY DEF Shut
<1>2. \A z \in Peers, x \in Chans :
        ch'[z][x] = IF z = p /\ x \in cs THEN Closed(p, x, ch[p][x]) ELSE ch[z][x]
  BY DEF Shut, CloseChannels, IInv, TypeOK
<1>3. ASSUME NEW z \in Peers, NEW x \in Chans
      PROVE  Keeps(ch[z][x], ch'[z][x]) /\ ch'[z][x].rb = ch[z][x].rb
  <2>1. CASE z = p /\ x \in cs
    <3>1. ch[p][x] \in Channel /\ ch'[z][x] = Closed(p, x, ch[p][x])
      BY <1>2, <2>1, ChannelTypes
    <3>2. QED
      BY <2>1, <3>1, ClosedKeeps, ClosedFields
  <2>2. CASE ~(z = p /\ x \in cs)
    <3>1. ch'[z][x] = ch[z][x]
      BY <1>2, <2>2
    <3>2. QED
      BY <3>1 DEF Keeps
  <2>3. QED
    BY <2>1, <2>2
<1>4. ASSUME NEW s \in Streams PROVE StreamStep(s)
  <2>1. ch'[Sink(s)][s].rb = ch[Sink(s)][s].rb
    BY <1>3, StreamFacts
  <2>2. QED
    BY <1>1, <2>1 DEF StreamStep, QueueStep, Got
<1>5. \A z \in Peers : stage'[z] # "exited" <=> stage[z] # "exited"
  BY DEF Shut, IInv, TypeOK
<1>6. QED
  BY <1>1, <1>2, <1>3, <1>4, <1>5 DEF Moves

(* A main program that goes on to its next loop and closes nothing.        *)
LEMMA ShutNothing ==
  ASSUME IInv, NEW p \in Peers, Shut(p, {})
  PROVE  Steady
<1>1. ch' = ch
  BY DEF Shut, CloseChannels, IInv, TypeOK
<1>2. QED
  BY <1>1, NoneSteady DEF Shut

(* queue_message_synch.                                                    *)
LEMMA SendControlFacts ==
  ASSUME IInv, NEW p \in Peers, NEW n \in ControlArgs, NEW cs \in SUBSET Chans,
         SendControl(p, n, cs), cs \subseteq {TO_PEER}
  PROVE  /\ \E m \in Messages :
              /\ m.type = ControlType(p) /\ m.n = n /\ Sendable(p, m) /\ Enqueue(p, m)
         /\ \A z \in Peers, x \in Chans : Keeps(ch[z][x], ch'[z][x])
         /\ \A z \in Peers, x \in Chans : z # p \/ x # TO_PEER => ch'[z][x] = ch[z][x]
         /\ cs = {} => PeerChange(p, TO_PEER, ch'[p][TO_PEER])
         /\ UNCHANGED <<rd, out, cut>>
         /\ \A z \in Peers : stage'[z] # "exited" <=> stage[z] # "exited"
<1> DEFINE sz == SzControl[p]
           m == [type |-> ControlType(p), ch |-> 0, n |-> n, pos |-> 0, size |-> sz]
           r == [ch[p][TO_PEER] EXCEPT !.rb = @ + Buffered(p, sz)]
           t == IF TO_PEER \in cs THEN Closed(p, TO_PEER, r) ELSE r
<1>1. sz \in Nat /\ MaxOutMsg(p) >= sz /\ n \in Nat /\ 0 \in Chans
  BY ConstantFacts, MuxAssumption, PeerChannelFacts DEF SendControl, FROM_PEER
<1>2. sz <= CmdCap /\ r \in Channel /\ Keeps(ch[p][TO_PEER], r) /\ PeerChange(p, TO_PEER, r)
  BY <1>1, BufferedFacts, BufferedFields
<1>3. m \in Messages /\ m.type = ControlType(p) /\ m.n = n /\ Sendable(p, m)
  BY <1>1, <1>2 DEF Messages, MsgTypes, Sendable, ControlType
<1>4. Enqueue(p, m) /\ UNCHANGED <<rd, out, cut>>
  BY DEF SendControl
<1>5. \A z \in Peers, x \in Chans : ch'[z][x] = IF z = p /\ x = TO_PEER THEN t ELSE ch[z][x]
  <2>1. ch \in [Peers -> [Chans -> Channel]]
    BY DEF IInv, TypeOK
  <2>2. [ch[p] EXCEPT ![TO_PEER].rb = @ + Buffered(p, sz)]
          = [x \in Chans |-> IF x = TO_PEER THEN r ELSE ch[p][x]]
    BY <2>1, PeerChannelFacts
  <2>3. ch' = [ch EXCEPT ![p] = [x \in Chans |-> IF x = TO_PEER THEN t ELSE ch[p][x]]]
    <3> HIDE DEF r
    <3>1. QED
      BY <2>1, <2>2, ZenonT(30) DEF SendControl
  <2> HIDE DEF t
  <2>4. QED
    BY <2>1, <2>3
<1> HIDE DEF r, m
<1>6. Keeps(ch[p][TO_PEER], t)
  BY <1>2, ClosedKeeps DEF Keeps
<1>7. cs = {} => t = r
  OBVIOUS
<1> HIDE DEF t
<1>8. \A z \in Peers, x \in Chans : Keeps(ch[z][x], ch'[z][x])
  BY <1>5, <1>6 DEF Keeps
<1>9. cs = {} => PeerChange(p, TO_PEER, ch'[p][TO_PEER])
  BY <1>2, <1>5, <1>7, PeerChannelFacts
<1>10. \A z \in Peers : stage'[z] # "exited" <=> stage[z] # "exited"
  BY DEF SendControl, IInv, TypeOK
<1>11. QED
  BY <1>3, <1>4, <1>5, <1>8, <1>9, <1>10

(* MSG_WINDOW_SIZE is queued.                                              *)
LEMMA SendWinchSteady ==
  ASSUME IInv, NEW n \in ControlArgs, SendControl("shex", n, {})
  PROVE  Steady
<1>1. "shex" \in Peers /\ {} \in SUBSET Chans /\ {} \subseteq {TO_PEER}
  BY DEF Peers
<1>2. /\ \E m \in Messages :
           /\ m.type = ControlType("shex") /\ Sendable("shex", m) /\ Enqueue("shex", m)
      /\ \A z \in Peers, x \in Chans : Keeps(ch[z][x], ch'[z][x])
      /\ \A z \in Peers, x \in Chans : z # "shex" \/ x # TO_PEER => ch'[z][x] = ch[z][x]
      /\ PeerChange("shex", TO_PEER, ch'["shex"][TO_PEER])
      /\ UNCHANGED <<rd, out>>
  BY <1>1, SendControlFacts
<1>3. PICK m \in Messages :
        m.type = ControlType("shex") /\ Sendable("shex", m) /\ Enqueue("shex", m)
  BY <1>2
<1>4. ASSUME NEW z \in Peers, NEW x \in Chans PROVE ChannelStep(z, x)
  <2>1. CASE z = "shex" /\ x = TO_PEER
    BY <1>2, <2>1 DEF ChannelStep, PeerChange
  <2>2. CASE ~(z = "shex" /\ x = TO_PEER)
    BY <1>2, <2>2, SameChannelStep
  <2>3. QED
    BY <2>1, <2>2
<1>5. \A s \in Streams : SameEnd(ch[Sink(s)][s], ch'[Sink(s)][s])
  BY <1>2, StreamFacts DEF SameEnd
<1>6. m.type = "WINDOW_SIZE" /\ \A s \in Streams : ~IsFor(m, {"CLOSE"}, s)
  BY <1>3 DEF ControlType, IsFor
<1>7. QED
  BY <1>1, <1>2, <1>3, <1>4, <1>5, <1>6, AppendSteady

(* MSG_CHILD_EXIT is queued after the last data of every stream.           *)
LEMMA SendExitMoves ==
  ASSUME IInv, NEW n \in ControlArgs, SendControl("stub", n, {TO_PEER}), AllDead("stub", Streams)
  PROVE  /\ Moves /\ UNCHANGED cut
         /\ \A z \in Peers, x \in Chans : z # "stub" \/ x # TO_PEER => ch'[z][x] = ch[z][x]
         /\ \A z \in Peers : stage'[z] # "exited" <=> stage[z] # "exited"
         /\ \/ q'["stub"] = q["stub"]
            \/ \E m \in Messages : m.n = n /\ q'["stub"] = Append(q["stub"], m)
<1>1. "stub" \in Peers /\ {TO_PEER} \in SUBSET Chans /\ Other("stub") = "shex"
  BY PeerChannelFacts DEF Peers, Other
<1>2. /\ \E m \in Messages :
           /\ m.type = ControlType("stub") /\ m.n = n /\ Sendable("stub", m) /\ Enqueue("stub", m)
      /\ \A z \in Peers, x \in Chans : Keeps(ch[z][x], ch'[z][x])
      /\ \A z \in Peers, x \in Chans : z # "stub" \/ x # TO_PEER => ch'[z][x] = ch[z][x]
      /\ UNCHANGED <<rd, out, cut>>
      /\ \A z \in Peers : stage'[z] # "exited" <=> stage[z] # "exited"
  BY <1>1, SendControlFacts
<1>3. PICK m \in Messages :
        /\ m.type = ControlType("stub") /\ m.n = n /\ Sendable("stub", m) /\ Enqueue("stub", m)
  BY <1>2
<1>4. /\ q'["shex"] = q["shex"]
      /\ q'["stub"] = IF ch["stub"][TO_PEER].fdh THEN Append(q["stub"], m) ELSE q["stub"]
  BY <1>1, <1>3, EnqueueFacts
<1>5. ASSUME NEW s \in Streams PROVE StreamStep(s)
  <2>1. Len(out'[s]) + ch'[Sink(s)][s].rb = Got(s)
    BY <1>2, StreamFacts DEF Got
  <2>2. CASE Source[s] = "stub" /\ ch["stub"][TO_PEER].fdh
    <3>1. q'[Source[s]] = Append(q[Source[s]], m)
      BY <1>4, <2>2
    <3>2. Finished(s)
      BY <2>2 DEF AllDead, Dead, Finished
    <3>3. QED
      BY <1>2, <2>1, <2>2, <3>1, <3>2 DEF StreamStep, QueueStep
  <2>3. CASE ~(Source[s] = "stub" /\ ch["stub"][TO_PEER].fdh)
    <3>1. Source[s] = "stub" \/ Source[s] = "shex"
      BY StreamFacts DEF Peers
    <3>2. q'[Source[s]] = q[Source[s]]
      BY <1>4, <2>3, <3>1
    <3>3. QED
      BY <1>2, <2>1, <3>2 DEF StreamStep, QueueStep
  <2>4. QED
    BY <2>2, <2>3
<1>6. QED
  BY <1>2, <1>3, <1>4, <1>5 DEF Moves

----------------------------------------------------------------------------
(* The parts of SessionInv, one by one.                                    *)

(* A step in which no process exits and the connection stays lost.         *)
Runs == (cut => cut') /\ \A z \in Peers : stage'[z] # "exited" <=> stage[z] # "exited"

(* io_loop_pump does not exit.                                             *)
LEMMA PumpRuns ==
  ASSUME IInv, IInv', NEW p \in Peers, PumpStep(p)
  PROVE  Runs
<1>1. ~Die(p, "wrong direction") /\ ~Die(p, "window overflow")
  BY DEF Die, IInv, NoProtocolError, TypeOK
<1>2. ~Die(p, "window desync") /\ ~Die(p, "impossibly large message")
  BY DEF Die, IInv, NoProtocolError, TypeOK
<1>3. CASE UNCHANGED <<stage, cut>>
  BY <1>3 DEF Runs
<1>4. CASE PumpReturns(p)
  BY <1>4 DEF PumpReturns, Pumping, Runs, IInv, TypeOK
<1>5. CASE RecvData(p) \/ RecvWindow(p) \/ RecvClose(p)
  BY <1>1, <1>2, <1>3, <1>5 DEF RecvData, RecvWindow, RecvClose, ConsumeOnly, Consume
<1>6. ASSUME NEW c \in Chans,
             XmitAcks(p, c) \/ XmitData(p, c) \/ DoPendingClose(p, c) \/ XmitEof(p, c)
      PROVE  Runs
  BY <1>3, <1>6 DEF XmitAcks, XmitData, XmitDataLz4, XmitDataUncompressed, XmitMsg,
     DoPendingClose, XmitEof
<1>7. CASE DropPartial(p)
  BY <1>3, <1>7 DEF DropPartial
<1>8. QED
  BY <1>2, <1>4, <1>5, <1>6, <1>7 DEF PumpStep, ImpossibleMsg

(* Nor does io_loop_do_io.                                                 *)
LEMMA IoRuns ==
  ASSUME IInv, NEW p \in Peers, IoStep(p) \/ Temporary(p)
  PROVE  Runs
<1>1. ASSUME NEW c, Polling(p, c), Polled(p, c) PROVE Runs
  BY <1>1 DEF Polling, Polled, Runs, IInv, TypeOK
<1>2. QED
  BY <1>1 DEF IoStep, Temporary, PeerRead, PeerEof, PeerWrite, PeerWriteError, StreamRead,
     StreamEof, StreamWrite, StreamWriteError

(* The streams end in order.                                               *)
LEMMA StreamsEndKept ==
  ASSUME IInv, IInv', Moves, StreamsEnd,
         \A s \in Streams : InMain(Sink(s))' => InMain(Sink(s)) /\ SinkStep(s)
  PROVE  StreamsEnd'
<1> SUFFICES ASSUME NEW s \in Streams
             PROVE  EndInFlight(s)' /\ (InMain(Sink(s)) => EndSeen(s))'
  BY DEF StreamsEnd
<1>1. EndInFlight(s)'
  BY EndInFlightKept DEF StreamsEnd
<1>2. ASSUME InMain(Sink(s))' PROVE EndSeen(s)'
  <2>1. EndInFlight(s) /\ EndSeen(s) /\ SinkStep(s)
    BY <1>2 DEF StreamsEnd
  <2>2. QED
    BY <2>1, EndSeenKept
<1>3. QED
  BY <1>1, <1>2

(* The loops of stub in which it takes the connection to stand.            *)
OpenPcs == {"main", "clean", "send", "close_to", "close_from"}
ClosingPcs == {"close_to", "close_from"}

(* The connection and the loops of stub go on.                             *)
LEMMA ConnectedKept ==
  ASSUME Connected, Runs,
         \A z \in Peers, x \in {FROM_PEER, TO_PEER} : ChannelStep(z, x),
         pc["stub"] \in OpenPcs => pc'["stub"] \in OpenPcs,
         pc["stub"] \in ClosingPcs => pc'["stub"] \in ClosingPcs
  PROVE  Connected'
<1> SUFFICES ASSUME ~cut', Running("shex")'
             PROVE  /\ Running("stub")' /\ pc'["stub"] \in OpenPcs
                    /\ \A p \in Peers : ch'[p][FROM_PEER].fdh
                    /\ ch'["shex"][TO_PEER].fdh /\ ~ch'["shex"][TO_PEER].pending_close
                    /\ pc'["stub"] \notin ClosingPcs =>
                         ch'["stub"][TO_PEER].fdh /\ ~ch'["stub"][TO_PEER].pending_close
  BY DEF Connected, OpenPcs, ClosingPcs
<1>1. "shex" \in Peers /\ "stub" \in Peers
  BY DEF Peers
<1>2. ~cut /\ Running("shex")
  BY <1>1 DEF Runs, Running
<1>3. /\ Running("stub") /\ pc["stub"] \in OpenPcs
      /\ \A p \in Peers : ch[p][FROM_PEER].fdh
      /\ ch["shex"][TO_PEER].fdh /\ ~ch["shex"][TO_PEER].pending_close
      /\ pc["stub"] \notin ClosingPcs =>
           ch["stub"][TO_PEER].fdh /\ ~ch["stub"][TO_PEER].pending_close
  BY <1>2 DEF Connected, OpenPcs, ClosingPcs
<1>4. ~Broken("shex") /\ ~Broken("stub")
  BY <1>2, <1>3 DEF Broken, Other
<1>5. Running("stub")'
  BY <1>1, <1>3 DEF Runs, Running
<1>6. \A p \in Peers : ch'[p][FROM_PEER].fdh
  BY <1>3, <1>4 DEF ChannelStep, Peers
<1>7. ch'["shex"][TO_PEER].fdh /\ ~ch'["shex"][TO_PEER].pending_close
  BY <1>1, <1>3, <1>4 DEF ChannelStep
<1>8. pc'["stub"] \notin ClosingPcs =>
        ch'["stub"][TO_PEER].fdh /\ ~ch'["stub"][TO_PEER].pending_close
  BY <1>1, <1>3, <1>4 DEF ChannelStep
<1>9. QED
  BY <1>3, <1>5, <1>6, <1>7, <1>8

(* When the connection is lost, or shex gone, Connected says nothing.      *)
LEMMA Disconnected ==
  ASSUME cut \/ ~Running("shex"), cut => cut', Running("shex")' => Running("shex")
  PROVE  Connected'
BY DEF Connected

(* shex still can write, or has found that it cannot.                      *)
LEMMA WriteKept ==
  ASSUME Connected, cut => cut', Running("shex"),
         (ch["shex"][TO_PEER].fdh /\ ~ch["shex"][TO_PEER].pending_close) \/ WriteLost,
         ChannelStep("shex", TO_PEER)
  PROVE  (ch'["shex"][TO_PEER].fdh /\ ~ch'["shex"][TO_PEER].pending_close) \/ WriteLost'
<1>1. CASE WriteLost
  BY <1>1 DEF WriteLost, ChannelStep, Keeps
<1>2. CASE ch["shex"][TO_PEER].fdh /\ ~ch["shex"][TO_PEER].pending_close
  <2>1. Broken("shex") => cut
    BY DEF Connected, Broken, Other
  <2>2. QED
    BY <1>2, <2>1 DEF ChannelStep, WriteLost
<1>3. QED
  BY <1>1, <1>2

(* A channel that is dead stays dead.                                      *)
LEMMA DeadKept ==
  ASSUME NEW p, NEW c, Keeps(ch[p][c], ch'[p][c])
  PROVE  /\ Dead(p, c) => Dead(p, c)'
         /\ ~ch[p][c].fdh /\ ch[p][c].rb = 0 => ~ch'[p][c].fdh /\ ch'[p][c].rb = 0
BY DEF Keeps, Dead

(* shex goes on as it was.                                                 *)
LEMMA ShexKept ==
  ASSUME Connected, ShexInv, cut => cut', Running("shex")' <=> Running("shex"),
         \A x \in Chans : Keeps(ch["shex"][x], ch'["shex"][x]),
         ChannelStep("shex", TO_PEER),
         pc'["shex"] = pc["shex"] \/ (InMain("shex") /\ pc'["shex"] \in {"main", "winch"}),
         status # NoStatus => status' # NoStatus
  PROVE  ShexInv'
<1>2. WriteLost => WriteLost'
  BY PeerChannelFacts DEF WriteLost, Keeps
<1>3. Running("shex")' =>
        (ch'["shex"][TO_PEER].fdh /\ ~ch'["shex"][TO_PEER].pending_close) \/ WriteLost'
  BY WriteKept DEF ShexInv
<1>4. pc'["shex"] \in ShexPcs /\ (Running("shex")' <=> pc'["shex"] \in {"main", "winch", "drain"})
  BY DEF ShexInv, InMain, ShexPcs
<1>5. pc'["shex"] = "lost" => cut'
  BY DEF ShexInv
<1>6. pc'["shex"] = "drain" /\ status' = NoStatus =>
        cut' /\ (WriteLost' \/ (~ch'["shex"][FROM_PEER].fdh /\ ch'["shex"][FROM_PEER].rb = 0))
  <2>1. pc'["shex"] = "drain" /\ status' = NoStatus => pc["shex"] = "drain" /\ status = NoStatus
    OBVIOUS
  <2>2. Keeps(ch["shex"][FROM_PEER], ch'["shex"][FROM_PEER])
    BY PeerChannelFacts
  <2>3. QED
    BY <1>2, <2>1, <2>2, DeadKept DEF ShexInv
<1>7. pc'["shex"] = "done" => status' # NoStatus /\ AllDead("shex", Streams)'
  BY DeadKept, StreamFacts DEF ShexInv, AllDead
<1>8. QED
  BY <1>3, <1>4, <1>5, <1>6, <1>7 DEF ShexInv

(* stub is still ready to send the status.                                 *)
LEMMA ExitReadyKept ==
  ASSUME ExitReady, Moves, child' = child \/ child = NoStatus,
         \/ pc'["stub"] # "send"
         \/ pc["stub"] = "send"
         \/ child # NoStatus /\ AllDead("stub", Streams)
  PROVE  ExitReady'
<1>1. \A s \in Streams : Dead("stub", s) => Dead("stub", s)'
  BY DeadKept, StreamFacts DEF Moves, Peers
<1>2. QED
  BY <1>1 DEF ExitReady, AllDead

(* The status on its way is the child's.                                   *)
LEMMA ExitQueuedKept ==
  ASSUME IInv, ExitQueued, child' = child \/ child = NoStatus,
         \/ NoStatusQueued
         \/ child # NoStatus /\ \E m \in Messages : m.n = child /\ q'["stub"] = Append(q["stub"], m)
  PROVE  ExitQueued'
<1> DEFINE w == q["stub"]
           v == q'["stub"]
<1>1. w \in Seq(Messages) /\ Len(w) \in Nat
  BY DEF IInv, TypeOK, Peers
<1> SUFFICES ASSUME NEW i \in 1 .. Len(v), v[i].type = "CHILD_EXIT"
             PROVE  child' # NoStatus /\ v[i].n = child'
  BY DEF ExitQueued
<1>2. CASE v = w
  BY <1>2 DEF ExitQueued
<1>3. ASSUME NEW m \in Messages, v = Append(w, m),
             m.type # "CHILD_EXIT" \/ (child # NoStatus /\ m.n = child)
      PROVE  child' # NoStatus /\ v[i].n = child'
  <2>1. i \in 1 .. Len(w) + 1 /\ v[i] = IF i = Len(w) + 1 THEN m ELSE w[i]
    BY <1>1, <1>3
  <2>2. i # Len(w) + 1 => i \in 1 .. Len(w)
    BY <1>1, <2>1
  <2>3. QED
    BY <1>3, <2>1, <2>2 DEF ExitQueued
<1>4. CASE w # <<>> /\ v = Tail(w)
  <2>1. i + 1 \in 1 .. Len(w) /\ v[i] = w[i + 1]
    BY <1>1, <1>4
  <2>2. QED
    BY <2>1 DEF ExitQueued
<1>5. QED
  BY <1>2, <1>3, <1>4 DEF NoStatusQueued

(* The output that shex has, it keeps.                                     *)
LEMMA StatusKnownKept ==
  ASSUME IInv, IInv', Moves, StatusKnown, cut => cut', status' = status,
         child' = child \/ child = NoStatus
  PROVE  StatusKnown'
<1> SUFFICES ASSUME status # NoStatus
             PROVE  /\ status' = child'
                    /\ \A s \in ChildOutput :
                         Finished(s)' /\ (Got(s)' = rd'[s] \/ ch'["shex"][s].err \/ WriteLost')
  BY DEF StatusKnown, ChildOutput, ChildStdin
<1>1. status' = child'
  BY DEF StatusKnown
<1>2. WriteLost => WriteLost'
  BY PeerChannelFacts DEF WriteLost, Moves, Keeps, Peers
<1>3. ASSUME NEW s \in ChildOutput
      PROVE  Finished(s)' /\ (Got(s)' = rd'[s] \/ ch'["shex"][s].err \/ WriteLost')
  <2>1. s \in Streams /\ Sink(s) = "shex"
    BY StreamFacts DEF ChildOutput, ChildStdin, Sink, Other, Peers
  <2>2. Finished(s) /\ (Got(s) = rd[s] \/ ch["shex"][s].err \/ WriteLost)
    BY DEF StatusKnown
  <2>3. Finished(s)' /\ (ch["shex"][s].err => ch'["shex"][s].err)
    BY <2>1, <2>2, StreamMoves
  <2>4. Got(s) = rd[s] => Got(s)' = rd'[s] \/ ch'["shex"][s].err
    BY <2>1, <2>2, CompleteKept
  <2>5. QED
    BY <1>2, <2>2, <2>3, <2>4
<1>4. QED
  BY <1>1, <1>3

----------------------------------------------------------------------------
(* The steps of a session.                                                 *)

(* When the loops of the main programs end.                                *)
LEMMA LoopFacts ==
  /\ LoopDone("shex", "main") =>
       saw_sigwinch \/ status # NoStatus \/ Dead("shex", FROM_PEER) \/ Dead("shex", TO_PEER)
  /\ LoopDone("shex", "drain") => AllDead("shex", Streams)
  /\ LoopDone("stub", "clean") => AllDead("stub", Streams)
  /\ LoopDone("stub", "close_from") => Dead("stub", FROM_PEER)
BY DEF LoopDone, LoopCond

(* A step in which the main programs close nothing.                        *)
LEMMA SteadyKept ==
  ASSUME IInv, IInv', SessionInv, Steady, Runs,
         status # NoStatus => status' # NoStatus,
         child' = child \/ (child = NoStatus /\ child' # NoStatus),
         pc'["shex"] = pc["shex"] \/ (InMain("shex") /\ pc'["shex"] \in {"main", "winch"}),
         pc'["stub"] = pc["stub"]
  PROVE  /\ StreamsEnd' /\ Connected' /\ ShexInv' /\ ExitReady' /\ ExitQueued'
         /\ status' = status => SessionInv'
<1>1. Moves /\ "shex" \in Peers /\ "stub" \in Peers
  BY SteadyMoves DEF Peers
<1>2. StreamsEnd'
  <2>1. \A z \in Peers : InMain(z)' => InMain(z)
    BY DEF InMain, Peers
  <2>2. \A s \in Streams : InMain(Sink(s))' => InMain(Sink(s)) /\ SinkStep(s)
    BY <2>1, StreamFacts DEF Steady, Sink, InMain
  <2>3. QED
    BY <1>1, <2>2, StreamsEndKept DEF SessionInv
<1>3. Connected'
  BY PeerChannelFacts, ConnectedKept DEF SessionInv, Steady
<1>4. ShexInv'
  <2>1. Running("shex")' <=> Running("shex")
    BY <1>1 DEF Runs, Running
  <2>2. ChannelStep("shex", TO_PEER) /\ (cut => cut')
    BY <1>1, PeerChannelFacts DEF Steady, Runs
  <2>3. \A x \in Chans : Keeps(ch["shex"][x], ch'["shex"][x])
    BY <1>1 DEF Moves
  <2>4. QED
    BY <2>1, <2>2, <2>3, ShexKept DEF SessionInv
<1>5. ExitReady' /\ ExitQueued'
  <2>1. ExitReady /\ ExitQueued /\ NoStatusQueued
    BY DEF SessionInv, StatusInv, Steady
  <2>2. ExitReady'
    BY <1>1, <2>1, ExitReadyKept
  <2>3. ExitQueued'
    BY <2>1, ExitQueuedKept
  <2>4. QED
    BY <2>2, <2>3
<1>6. status' = status => StatusKnown'
  BY <1>1, StatusKnownKept DEF SessionInv, StatusInv, Runs
<1>7. QED
  BY <1>2, <1>3, <1>4, <1>5, <1>6 DEF SessionInv, StatusInv

(* A step of stub's main program after its main loop.                      *)
LEMMA StubKept ==
  ASSUME IInv, IInv', SessionInv, Moves, cut => cut', Running("shex")' <=> Running("shex"),
         \A x \in Chans : ch'["shex"][x] = ch["shex"][x],
         pc'["shex"] = pc["shex"], ~InMain("stub")', UNCHANGED <<status, child>>,
         Connected', ExitReady', ExitQueued'
  PROVE  SessionInv'
<1>1. StreamsEnd'
  <2>1. \A s \in Streams : InMain(Sink(s))' => InMain(Sink(s)) /\ SinkStep(s)
    <3> SUFFICES ASSUME NEW s \in Streams, InMain(Sink(s))'
                 PROVE  InMain(Sink(s)) /\ SinkStep(s)
      OBVIOUS
    <3>1. Sink(s) = "shex"
      BY StreamFacts DEF Peers, Sink
    <3>2. ch'[Sink(s)][s] = ch[Sink(s)][s]
      BY <3>1, StreamFacts
    <3>3. QED
      BY <3>1, <3>2, SameSinkStep DEF InMain, Sink
  <2>2. QED
    BY <2>1, StreamsEndKept DEF SessionInv
<1>2. ShexInv'
  <2>1. ChannelStep("shex", TO_PEER)
    BY PeerChannelFacts, SameChannelStep
  <2>2. \A x \in Chans : Keeps(ch["shex"][x], ch'["shex"][x])
    BY DEF Moves, Peers
  <2>3. QED
    BY <2>1, <2>2, ShexKept DEF SessionInv
<1>3. StatusKnown'
  BY StatusKnownKept DEF SessionInv, StatusInv
<1>4. QED
  BY <1>1, <1>2, <1>3 DEF SessionInv, StatusInv

(* The child's status reaches shex: everything sent before it is there.    *)
LEMMA RecvChildExitKept ==
  ASSUME IInv, IInv', Carried, SessionInv, RecvChildExit
  PROVE  SessionInv'
<1>1. "shex" \in Peers /\ Other("shex") = "stub"
  BY DEF Peers, Other
<1>2. RecvControl("shex") /\ status' = Head1("shex").n /\ UNCHANGED <<pc, child>>
  BY DEF RecvChildExit
<1>3. Steady /\ ConsumeOnly("shex")
  BY <1>1, <1>2, RecvControlSteady
<1>4. Runs /\ UNCHANGED <<rd, out, cut>>
  BY <1>3 DEF ConsumeOnly, Runs
<1>5. MsgReady("shex") /\ Head1("shex").type \in {"CHILD_EXIT", "WINDOW_SIZE"}
  BY <1>2 DEF RecvControl
<1>6. /\ Head1("shex") \in Messages /\ Sendable("stub", Head1("shex"))
      /\ q["stub"] \in Seq(Messages) /\ q["stub"] # <<>>
  BY <1>1, <1>5, HeadFacts
<1>7. 1 \in 1 .. Len(q["stub"]) /\ Head1("shex") = q["stub"][1]
  BY <1>1, <1>6 DEF Head1
<1>8. Head1("shex").type = "CHILD_EXIT" /\ Head1("shex").n \in Nat
  BY <1>5, <1>6 DEF Sendable, ControlType, Messages
<1>9. child # NoStatus /\ status' = child
  BY <1>2, <1>7, <1>8 DEF SessionInv, StatusInv, ExitQueued
<1>10. status' # NoStatus
  BY <1>9
<1>11. StreamsEnd' /\ Connected' /\ ShexInv' /\ ExitReady' /\ ExitQueued'
  BY <1>2, <1>3, <1>4, <1>10, SteadyKept
<1>12. ASSUME NEW s \in ChildOutput
       PROVE  Finished(s) /\ (Got(s) = rd[s] \/ ch["shex"][s].err \/ WriteLost)
  <2>1. s \in Streams /\ Sink(s) = "shex" /\ Source[s] = "stub"
    BY StreamFacts DEF ChildOutput, ChildStdin, Sink, Other, Peers
  <2>2. IsLast(q[Source[s]][1], s) /\ ~EndsAt(q[Source[s]], s, 1, rd[s])
    BY <1>6, <1>7, <1>8, <2>1 DEF IsLast, EndsAt
  <2>3. EndInFlight(s) /\ (InMain("shex") => EndSeen(s))
    BY <2>1 DEF SessionInv, StreamsEnd
  <2>4. Finished(s) /\ (ch["shex"][s].fdh => Got(s) = rd[s])
    BY <1>7, <2>1, <2>2, <2>3 DEF EndInFlight
  <2>5. CASE InMain("shex")
    BY <2>1, <2>3, <2>4, <2>5 DEF EndSeen, Ending
  <2>6. CASE ~InMain("shex")
    <3>1. Running("shex")
      BY <1>2 DEF RecvControl, Pumping, Running
    <3>2. pc["shex"] = "drain"
      BY <2>6, <3>1 DEF SessionInv, ShexInv, InMain
    <3>3. ch["shex"][FROM_PEER].rb # 0
      <4>1. ch["shex"][FROM_PEER].rb >= SzHdr /\ SzHdr \in Nat /\ SzHdr # 0
        BY <1>5, MuxAssumption DEF MsgReady
      <4>2. QED
        BY <4>1
    <3>4. CASE status = NoStatus
      BY <2>4, <3>2, <3>3, <3>4 DEF SessionInv, ShexInv
    <3>5. CASE status # NoStatus
      BY <3>5 DEF SessionInv, StatusInv, StatusKnown
    <3>6. QED
      BY <3>4, <3>5
  <2>7. QED
    BY <2>5, <2>6
<1>13. StatusKnown'
  <2>1. ASSUME NEW s \in ChildOutput
        PROVE  Finished(s)' /\ (Got(s)' = rd'[s] \/ ch'["shex"][s].err \/ WriteLost')
    <3>1. s \in Streams /\ Sink(s) = "shex" /\ Moves
      BY <1>3, StreamFacts, SteadyMoves DEF ChildOutput, ChildStdin, Sink, Other, Peers
    <3>2. Finished(s)' /\ (ch["shex"][s].err => ch'["shex"][s].err)
      BY <1>12, <3>1, StreamMoves
    <3>3. Got(s) = rd[s] => Got(s)' = rd'[s] \/ ch'["shex"][s].err
      BY <1>12, <3>1, CompleteKept
    <3>4. WriteLost => WriteLost'
      BY <1>1, <1>4, <3>1, PeerChannelFacts DEF WriteLost, Moves, Keeps
    <3>5. QED
      BY <1>12, <3>2, <3>3, <3>4
  <2>2. QED
    BY <1>2, <1>9, <2>1 DEF StatusKnown, ChildOutput, ChildStdin
<1>14. QED
  BY <1>11, <1>13 DEF SessionInv, StatusInv

(* shex goes from its main loop to the drain of its streams.               *)
LEMMA CloseStandardStreamsKept ==
  ASSUME IInv, IInv', Carried, SessionInv, CloseStandardStreams
  PROVE  SessionInv'
<1>1. /\ "shex" \in Peers /\ "stub" \in Peers /\ Streams \in SUBSET Chans
      /\ FROM_PEER \in Chans \ Streams /\ TO_PEER \in Chans \ Streams
  BY StreamFacts, PeerChannelFacts DEF Peers
<1>2. /\ LoopDone("shex", "main") /\ ~saw_sigwinch /\ Shut("shex", Streams)
      /\ UNCHANGED <<child, status>> /\ pc["shex"] = "main"
      /\ pc'["shex"] = "drain" /\ pc'["stub"] = pc["stub"]
  BY <1>1 DEF CloseStandardStreams, Goto, Carried, LoopDone
<1>3. /\ Moves /\ UNCHANGED <<q, cut>>
      /\ \A z \in Peers, x \in Chans : z # "shex" \/ x \notin Streams => ch'[z][x] = ch[z][x]
      /\ \A z \in Peers : stage'[z] # "exited" <=> stage[z] # "exited"
  BY <1>1, <1>2, ShutMoves
<1>4. StreamsEnd'
  <2>1. \A s \in Streams : InMain(Sink(s))' => InMain(Sink(s)) /\ SinkStep(s)
    <3> SUFFICES ASSUME NEW s \in Streams, InMain(Sink(s))'
                 PROVE  InMain(Sink(s)) /\ SinkStep(s)
      OBVIOUS
    <3>1. Sink(s) = "stub"
      BY <1>2, StreamFacts DEF Peers, Sink, InMain
    <3>2. ch'[Sink(s)][s] = ch[Sink(s)][s]
      BY <1>1, <1>3, <3>1, StreamFacts
    <3>3. QED
      BY <1>2, <3>1, <3>2, SameSinkStep DEF InMain, Sink
  <2>2. QED
    BY <1>3, <2>1, StreamsEndKept DEF SessionInv
<1>5. Connected'
  <2>1. \A z \in Peers, x \in {FROM_PEER, TO_PEER} : ChannelStep(z, x)
    BY <1>1, <1>3, SameChannelStep
  <2>2. Runs
    BY <1>3 DEF Runs
  <2>3. QED
    BY <1>2, <2>1, <2>2, ConnectedKept DEF SessionInv
<1>6. ShexInv'
  <2>1. Running("shex")' /\ Running("shex")
    BY <1>1, <1>2, <1>3 DEF Running, Shut
  <2>2. /\ ch'["shex"][FROM_PEER] = ch["shex"][FROM_PEER]
        /\ ch'["shex"][TO_PEER] = ch["shex"][TO_PEER]
    BY <1>1, <1>3
  <2>3. (ch["shex"][TO_PEER].fdh /\ ~ch["shex"][TO_PEER].pending_close) \/ WriteLost
    BY <2>1 DEF SessionInv, ShexInv
  <2>4. ASSUME status = NoStatus
        PROVE  cut /\ (WriteLost \/ (~ch["shex"][FROM_PEER].fdh /\ ch["shex"][FROM_PEER].rb = 0))
    <3>1. Dead("shex", FROM_PEER) \/ Dead("shex", TO_PEER)
      BY <1>2, <2>4, LoopFacts
    <3>2. CASE Dead("shex", FROM_PEER)
      BY <1>1, <2>1, <3>2 DEF Dead, SessionInv, Connected
    <3>3. CASE Dead("shex", TO_PEER)
      BY <2>3, <3>3 DEF Dead, WriteLost
    <3>4. QED
      BY <3>1, <3>2, <3>3
  <2>5. QED
    BY <1>2, <1>3, <2>1, <2>2, <2>3, <2>4 DEF ShexInv, ShexPcs, WriteLost
<1>7. ExitReady' /\ ExitQueued'
  <2>1. ExitReady /\ ExitQueued /\ NoStatusQueued
    BY <1>3 DEF SessionInv, StatusInv, NoStatusQueued
  <2>2. ExitReady'
    BY <1>2, <1>3, <2>1, ExitReadyKept
  <2>3. ExitQueued'
    BY <1>2, <2>1, ExitQueuedKept
  <2>4. QED
    BY <2>2, <2>3
<1>8. StatusKnown'
  BY <1>2, <1>3, StatusKnownKept DEF SessionInv, StatusInv
<1>9. QED
  BY <1>4, <1>5, <1>6, <1>7, <1>8 DEF SessionInv, StatusInv

(* shex exits: with the child's status, with an error message, or killed.  *)
LEMMA ShexExitKept ==
  ASSUME IInv, IInv', Carried, SessionInv, ShexReturns \/ ShexKilled
  PROVE  SessionInv'
<1>1. "shex" \in Peers /\ "stub" \in Peers
  BY DEF Peers
<1>2. /\ Exit("shex") /\ UNCHANGED <<child, status>> /\ pc'["stub"] = pc["stub"]
      /\ pc'["shex"] \in {"done", "lost", "killed"}
  BY <1>1 DEF ShexReturns, ShexKilled, Goto, Carried
<1>3. UNCHANGED <<ch, q, rd, out, cut>> /\ ~Running("shex")'
  BY <1>1, <1>2 DEF Exit, Running, IInv, TypeOK
<1>4. Steady /\ Moves
  BY <1>3, NoneSteady, SteadyMoves
<1>5. StreamsEnd'
  <2>1. \A s \in Streams : InMain(Sink(s))' => InMain(Sink(s)) /\ SinkStep(s)
    <3> SUFFICES ASSUME NEW s \in Streams, InMain(Sink(s))'
                 PROVE  InMain(Sink(s)) /\ SinkStep(s)
      OBVIOUS
    <3>1. Sink(s) = "stub"
      BY <1>2, StreamFacts DEF Peers, Sink, InMain
    <3>2. QED
      BY <1>2, <1>4, <3>1 DEF Steady, InMain, Sink
  <2>2. QED
    BY <1>4, <2>1, StreamsEndKept DEF SessionInv
<1>6. Connected'
  BY <1>3 DEF Connected
<1>7. ShexInv'
  <2>1. CASE ShexKilled
    <3>1. pc'["shex"] = "killed"
      BY <1>1, <2>1 DEF ShexKilled, Goto, Carried
    <3>2. QED
      BY <1>3, <3>1 DEF ShexInv, ShexPcs
  <2>2. CASE ShexReturns
    <3>1. /\ LoopDone("shex", "drain") /\ pc["shex"] = "drain"
          /\ pc'["shex"] = IF status # NoStatus THEN "done" ELSE "lost"
      BY <1>1, <2>2 DEF ShexReturns, Goto, Carried, LoopDone
    <3>2. AllDead("shex", Streams)'
      BY <1>3, <3>1, LoopFacts DEF AllDead, Dead
    <3>3. status = NoStatus => cut
      BY <3>1 DEF SessionInv, ShexInv
    <3>4. QED
      BY <1>2, <1>3, <3>1, <3>2, <3>3 DEF ShexInv, ShexPcs
  <2>3. QED
    BY <2>1, <2>2
<1>8. ExitReady' /\ ExitQueued'
  <2>1. ExitReady /\ ExitQueued /\ NoStatusQueued
    BY <1>4 DEF SessionInv, StatusInv, Steady
  <2>2. ExitReady'
    BY <1>2, <1>4, <2>1, ExitReadyKept
  <2>3. ExitQueued'
    BY <1>2, <2>1, ExitQueuedKept
  <2>4. QED
    BY <2>2, <2>3
<1>9. StatusKnown'
  BY <1>2, <1>3, <1>4, StatusKnownKept DEF SessionInv, StatusInv
<1>10. QED
  BY <1>5, <1>6, <1>7, <1>8, <1>9 DEF SessionInv, StatusInv

(* stub exits: shex is gone, or the connection is.                         *)
LEMMA StubExitKept ==
  ASSUME IInv, IInv', Carried, SessionInv, ExitWithHup \/ StubReturns
  PROVE  SessionInv'
<1>1. "shex" \in Peers /\ "stub" \in Peers
  BY DEF Peers
<1>2. /\ Exit("stub") /\ UNCHANGED <<child, status>> /\ pc'["shex"] = pc["shex"]
      /\ pc'["stub"] \in {"hup", "done"}
  BY <1>1 DEF ExitWithHup, StubReturns, Goto, Carried
<1>3. /\ UNCHANGED <<ch, q, rd, out, cut>> /\ (Running("shex")' <=> Running("shex"))
  BY <1>1, <1>2 DEF Exit, Running, IInv, TypeOK
<1>4. Steady /\ Moves
  BY <1>3, NoneSteady, SteadyMoves
<1>5. cut \/ ~Running("shex")
  <2>1. CASE ExitWithHup
    BY <2>1 DEF ExitWithHup, LoopDone, SessionInv, Connected
  <2>2. CASE StubReturns
    <3>1. ~ch["stub"][FROM_PEER].fdh
      BY <2>2, LoopFacts DEF StubReturns, Dead
    <3>2. QED
      BY <1>1, <3>1 DEF SessionInv, Connected
  <2>3. QED
    BY <2>1, <2>2
<1>6. Connected'
  BY <1>3, <1>5, Disconnected
<1>7. ExitReady' /\ ExitQueued'
  <2>1. ExitReady /\ ExitQueued /\ NoStatusQueued
    BY <1>4 DEF SessionInv, StatusInv, Steady
  <2>2. ExitReady'
    BY <1>2 DEF ExitReady
  <2>3. ExitQueued'
    BY <1>2, <2>1, ExitQueuedKept
  <2>4. QED
    BY <2>2, <2>3
<1>8. ~InMain("stub")'
  BY <1>2 DEF InMain
<1>9. QED
  BY <1>2, <1>3, <1>4, <1>6, <1>7, <1>8, StubKept

(* stub leaves its main loop, or goes on to the next one.                  *)
LEMMA StubShutKept ==
  ASSUME IInv, IInv', Carried, SessionInv,
         AbnormalExit \/ CloseChildStdin \/ CleanExit \/ ChildWait \/ AwaitPeerClose
  PROVE  SessionInv'
<1>1. /\ "shex" \in Peers /\ "stub" \in Peers /\ Streams \in SUBSET Chans
      /\ FROM_PEER \in Chans \ Streams /\ TO_PEER \in Chans \ Streams
      /\ ChildStdin \in SUBSET Chans /\ ChildStdin \subseteq Streams /\ {} \in SUBSET Chans
      /\ {FROM_PEER, TO_PEER} \in SUBSET Chans
  BY StreamFacts, PeerChannelFacts DEF Peers, ChildStdin
<1>2. PICK cs \in SUBSET Chans :
        /\ Shut("stub", cs)
        /\ AbnormalExit \/ CloseChildStdin \/ cs \subseteq Streams
  BY <1>1 DEF AbnormalExit, CloseChildStdin, CleanExit, ChildWait, AwaitPeerClose
<1>3. /\ UNCHANGED <<child, status>> /\ pc'["shex"] = pc["shex"]
      /\ pc'["stub"] \in {"abn_peer", "abn_stdin", "clean", "send", "close_from"}
  BY <1>1 DEF AbnormalExit, CloseChildStdin, CleanExit, ChildWait, AwaitPeerClose, Goto, Carried
<1>4. /\ Moves /\ UNCHANGED <<q, cut>>
      /\ \A z \in Peers, x \in Chans : z # "stub" \/ x \notin cs => ch'[z][x] = ch[z][x]
      /\ \A z \in Peers : stage'[z] # "exited" <=> stage[z] # "exited"
  BY <1>1, <1>2, ShutMoves
<1>5. Running("shex")' <=> Running("shex")
  BY <1>1, <1>4 DEF Running
<1>6. Connected'
  <2>1. CASE AbnormalExit \/ CloseChildStdin
    <3>1. cut \/ ~Running("shex")
      <4>1. CASE AbnormalExit
        <5>1. pc["stub"] = "main" /\ (~ch["stub"][FROM_PEER].fdh \/ ~ch["stub"][TO_PEER].fdh)
          BY <4>1 DEF AbnormalExit, LoopDone, PeerLost, Dead
        <5>2. QED
          BY <1>1, <5>1 DEF SessionInv, Connected
      <4>2. CASE CloseChildStdin
        BY <4>2 DEF CloseChildStdin, LoopDone, SessionInv, Connected
      <4>3. QED
        BY <2>1, <4>1, <4>2
    <3>2. QED
      BY <1>4, <1>5, <3>1, Disconnected
  <2>2. CASE CleanExit \/ ChildWait \/ AwaitPeerClose
    <3>1. /\ pc["stub"] \in OpenPcs => pc'["stub"] \in OpenPcs
          /\ pc["stub"] \in ClosingPcs => pc'["stub"] \in ClosingPcs
      BY <1>1, <2>2 DEF CleanExit, ChildWait, AwaitPeerClose, LoopDone, Goto, Carried,
         OpenPcs, ClosingPcs
    <3>2. \A x \in {FROM_PEER, TO_PEER} : x \notin cs
      <4>1. ~AbnormalExit /\ ~CloseChildStdin
        BY <1>1, <2>2 DEF CleanExit, ChildWait, AwaitPeerClose, LoopDone, Goto, Carried,
           AbnormalExit, CloseChildStdin
      <4>2. QED
        BY <1>1, <1>2, <4>1
    <3>3. \A z \in Peers, x \in {FROM_PEER, TO_PEER} : ChannelStep(z, x)
      BY <1>1, <1>4, <3>2, SameChannelStep
    <3>4. Runs
      BY <1>4 DEF Runs
    <3>5. QED
      BY <3>1, <3>3, <3>4, ConnectedKept DEF SessionInv
  <2>3. QED
    BY <2>1, <2>2
<1>7. ExitReady' /\ ExitQueued'
  <2>1. ExitReady /\ ExitQueued /\ NoStatusQueued
    BY <1>4 DEF SessionInv, StatusInv, NoStatusQueued
  <2>2. pc'["stub"] = "send" => child # NoStatus /\ AllDead("stub", Streams)
    <3>1. pc'["stub"] = "send" => ChildWait
      BY <1>1 DEF AbnormalExit, CloseChildStdin, CleanExit, AwaitPeerClose, Goto, Carried
    <3>2. QED
      BY <3>1, LoopFacts DEF ChildWait
  <2>3. ExitReady'
    BY <1>3, <1>4, <2>1, <2>2, ExitReadyKept
  <2>4. ExitQueued'
    BY <1>3, <2>1, ExitQueuedKept
  <2>5. QED
    BY <2>3, <2>4
<1>8. ~InMain("stub")' /\ \A x \in Chans : ch'["shex"][x] = ch["shex"][x]
  BY <1>1, <1>3, <1>4 DEF InMain
<1>9. QED
  BY <1>3, <1>4, <1>5, <1>6, <1>7, <1>8, StubKept

(* stub queues the child's status.                                         *)
LEMMA SendExitMessageKept ==
  ASSUME IInv, IInv', Carried, SessionInv, SendExitMessage
  PROVE  SessionInv'
<1>1. /\ "shex" \in Peers /\ "stub" \in Peers
      /\ FROM_PEER \in Chans /\ TO_PEER \in Chans /\ FROM_PEER # TO_PEER
  BY PeerChannelFacts DEF Peers
<1>2. /\ pc["stub"] = "send" /\ SendControl("stub", child, {TO_PEER})
      /\ UNCHANGED <<child, status>> /\ pc'["shex"] = pc["shex"] /\ pc'["stub"] = "close_to"
  BY <1>1 DEF SendExitMessage, LoopDone, Goto, Carried
<1>3. child # NoStatus /\ AllDead("stub", Streams) /\ child \in ControlArgs
  BY <1>2, SessionAssumption DEF SessionInv, StatusInv, ExitReady, Carried
<1>4. /\ Moves /\ UNCHANGED cut
      /\ \A z \in Peers, x \in Chans : z # "stub" \/ x # TO_PEER => ch'[z][x] = ch[z][x]
      /\ \A z \in Peers : stage'[z] # "exited" <=> stage[z] # "exited"
      /\ \/ q'["stub"] = q["stub"]
         \/ \E m \in Messages : m.n = child /\ q'["stub"] = Append(q["stub"], m)
  BY <1>2, <1>3, SendExitMoves
<1>5. \A z \in Peers : Running(z)' <=> Running(z)
  BY <1>4 DEF Running
<1>6. Connected'
  <2>1. \A p \in Peers : ch'[p][FROM_PEER] = ch[p][FROM_PEER]
    BY <1>1, <1>4
  <2>2. ch'["shex"][TO_PEER] = ch["shex"][TO_PEER]
    BY <1>1, <1>4
  <2>3. QED
    BY <1>1, <1>2, <1>4, <1>5, <2>1, <2>2 DEF SessionInv, Connected
<1>7. ExitReady'
  BY <1>2 DEF ExitReady
<1>8. ExitQueued'
  <2>1. \/ NoStatusQueued
        \/ child # NoStatus /\ \E m \in Messages : m.n = child /\ q'["stub"] = Append(q["stub"], m)
    BY <1>3, <1>4 DEF NoStatusQueued
  <2>2. QED
    BY <1>2, <2>1, ExitQueuedKept DEF SessionInv, StatusInv
<1>9. ~InMain("stub")' /\ \A x \in Chans : ch'["shex"][x] = ch["shex"][x]
  BY <1>1, <1>2, <1>4 DEF InMain
<1>10. Running("shex")' <=> Running("shex")
  BY <1>1, <1>5
<1>11. QED
  BY <1>2, <1>4, <1>6, <1>7, <1>8, <1>9, <1>10, StubKept


(* A step of the connection alone.                                         *)
LEMMA ConnectionKept ==
  ASSUME IInv, IInv', SessionInv, NEW p \in Peers,
         Pump(p) \/ Io(p) \/ DoIo(p) \/ Spin(p) \/ Retry(p)
  PROVE  SessionInv'
<1>1. UNCHANGED svars
  BY DEF Pump, Io, DoIo, Spin, Retry
<1>2. Steady /\ Runs
  <2>1. CASE Pump(p)
    BY <2>1, PumpSteady, PumpRuns DEF Pump
  <2>2. CASE Io(p)
    BY <2>2, IoSteady, IoRuns DEF Io
  <2>3. CASE DoIo(p) \/ Spin(p)
    <3>1. Steady
      BY <2>3, NoneSteady DEF DoIo, Spin, Poll, PollNothing
    <3>2. Runs
      BY <2>3 DEF DoIo, Spin, Poll, PollNothing, Runs, IInv, TypeOK
    <3>3. QED
      BY <3>1, <3>2
  <2>4. CASE Retry(p)
    <3>1. UNCHANGED <<ch, q, rd, out>>
      BY <2>4 DEF Retry, Temporary, Polled
    <3>2. QED
      BY <2>4, <3>1, NoneSteady, IoRuns DEF Retry
  <2>5. QED
    BY <2>1, <2>2, <2>3, <2>4
<1>3. UNCHANGED <<pc, child, status>>
  BY <1>1 DEF svars
<1>4. QED
  BY <1>2, <1>3, SteadyKept

(* The steps of the main programs that close nothing.                      *)
LEMMA MainKept ==
  ASSUME IInv, IInv', Carried, SessionInv,
         StartWinch \/ SkipWinch \/ SendWinch \/ Interrupted \/ RecvWindowSize
  PROVE  SessionInv'
<1>1. "shex" \in Peers /\ "stub" \in Peers /\ {} \in SUBSET Chans
  BY DEF Peers
<1>2. UNCHANGED <<child, status>> /\ pc'["stub"] = pc["stub"]
  BY <1>1 DEF StartWinch, SkipWinch, SendWinch, Interrupted, RecvWindowSize, Goto, Carried
<1>3. pc'["shex"] = pc["shex"] \/ (InMain("shex") /\ pc'["shex"] \in {"main", "winch"})
  BY <1>1 DEF StartWinch, SkipWinch, SendWinch, Interrupted, RecvWindowSize, Goto, Carried,
     LoopDone, InMain
<1>4. Steady /\ Runs
  <2>1. CASE StartWinch \/ SkipWinch
    <3>1. Shut("shex", {})
      BY <2>1 DEF StartWinch, SkipWinch
    <3>2. QED
      BY <1>1, <3>1, ShutNothing, ShutMoves DEF Runs
  <2>2. CASE SendWinch
    <3>1. ws \in ControlArgs /\ SendControl("shex", ws, {})
      BY <2>2, SessionAssumption DEF Carried, SendWinch
    <3>2. Runs
      BY <1>1, <3>1, SendControlFacts DEF Runs
    <3>3. QED
      BY <3>1, <3>2, SendWinchSteady
  <2>3. CASE Interrupted
    <3>1. Steady
      BY <2>3, NoneSteady DEF Interrupted, PollNothing
    <3>2. Runs
      BY <1>1, <2>3 DEF Interrupted, PollNothing, Runs, IInv, TypeOK
    <3>3. QED
      BY <3>1, <3>2
  <2>4. CASE RecvWindowSize
    <3>1. Steady /\ ConsumeOnly("stub")
      BY <1>1, <2>4, RecvControlSteady DEF RecvWindowSize
    <3>2. QED
      BY <3>1 DEF ConsumeOnly, Runs
  <2>5. QED
    BY <2>1, <2>2, <2>3, <2>4
<1>5. QED
  BY <1>2, <1>3, <1>4, SteadyKept

(* The child, the terminal and the transport.                              *)
LEMMA EnvironmentKept ==
  ASSUME IInv, IInv', SessionInv, ChildExits \/ Resize \/ Lose \/ UNCHANGED allvars
  PROVE  SessionInv'
<1>1. UNCHANGED <<ch, q, rd, out, stage>> /\ (cut => cut')
  BY DEF ChildExits, Resize, Lose, LoseConnection, allvars, vars
<1>2. Steady /\ Runs
  BY <1>1, NoneSteady DEF Runs
<1>3. UNCHANGED <<pc, status>>
  BY DEF ChildExits, Resize, Lose, allvars, svars
<1>4. child' = child \/ (child = NoStatus /\ child' # NoStatus)
  <2>1. CASE ChildExits
    <3>1. child = NoStatus /\ child' \in Nat
      BY <2>1, SessionAssumption, MuxAssumption DEF ChildExits
    <3>2. QED
      BY <3>1 DEF NoStatus
  <2>2. CASE Resize \/ Lose \/ UNCHANGED allvars
    BY <2>2 DEF Resize, Lose, allvars, svars
  <2>3. QED
    BY <2>1, <2>2
<1>5. QED
  BY <1>2, <1>3, <1>4, SteadyKept

(* SessionInv is inductive, given what the connection guarantees.          *)
LEMMA SessionNext ==
  ASSUME IInv, IInv', Carried, SessionInv, [SNext]_allvars
  PROVE  SessionInv'
<1>1. CASE ShexMain
  BY <1>1, MainKept, RecvChildExitKept, CloseStandardStreamsKept, ShexExitKept DEF ShexMain
<1>2. CASE StubMain
  BY <1>2, MainKept, StubShutKept, StubExitKept, SendExitMessageKept DEF StubMain
<1>3. CASE ShexKilled
  BY <1>3, ShexExitKept
<1>4. QED
  BY <1>1, <1>2, <1>3, ConnectionKept, EnvironmentKept DEF SNext, Process

(* A session starts with open channels and nothing sent.                   *)
LEMMA SessionStart ==
  ASSUME SInit
  PROVE  SessionInv
<1>1. /\ "shex" \in Peers /\ "stub" \in Peers /\ FROM_PEER \in Chans /\ TO_PEER \in Chans
      /\ \A s \in Streams : s \in Chans /\ Source[s] \in Peers /\ Sink(s) \in Peers
  BY PeerChannelFacts, StreamFacts DEF Peers
<1>2. /\ \A p \in Peers : pc[p] = "main" /\ q[p] = <<>> /\ stage[p] = "pump"
      /\ child = NoStatus /\ status = NoStatus /\ cut = FALSE
  BY DEF SInit, Init
<1>3. \A p \in Peers, c \in Chans : ch[p][c].fdh /\ ~ch[p][c].pending_close
  BY DEF SInit, Init, NewChannel
<1>4. StreamsEnd
  BY <1>1, <1>2, <1>3 DEF StreamsEnd, EndInFlight, EndSeen, Ending
<1>5. Connected
  BY <1>1, <1>2, <1>3 DEF Connected, Running
<1>6. ShexInv
  BY <1>1, <1>2, <1>3 DEF ShexInv, ShexPcs, Running
<1>7. StatusInv
  BY <1>1, <1>2 DEF StatusInv, ExitReady, ExitQueued, StatusKnown
<1>8. QED
  BY <1>4, <1>5, <1>6, <1>7 DEF SessionInv

(* How every session stands.                                               *)
LEMMA SessionInductive == SSpec => [](IInv /\ SessionInv)
<1>1. SInit => IInv /\ Carried /\ SessionInv
  BY InitInv, CarriedInit, SessionStart DEF SInit
<1>2. IInv /\ Carried /\ SessionInv /\ [SNext]_allvars => (IInv /\ Carried /\ SessionInv)'
  <2> SUFFICES ASSUME IInv, Carried, SessionInv, [SNext]_allvars
               PROVE  IInv' /\ Carried' /\ SessionInv'
    OBVIOUS
  <2>1. IInv' /\ Carried'
    BY SessionStep, NextInv, CarriedNext
  <2>2. QED
    BY <2>1, SessionNext
<1>3. QED
  BY <1>1, <1>2, PTL DEF SSpec

(* A sink that holds nothing back and got what was read has written it.    *)
LEMMA WholeOutput ==
  ASSUME IInv, NEW s \in Streams, Got(s) = rd[s], ch[Sink(s)][s].rb = 0
  PROVE  Whole(s)
<1>1. out[s] \in Seq(Nat) /\ rd[s] \in Nat /\ NumberedFrom(0, out[s])
  BY StreamTypes DEF IInv, FlowControl, StreamInv, Numbered
<1>2. Len(out[s]) = rd[s]
  BY <1>1 DEF Got
<1>3. out[s] = [i \in 1 .. Len(out[s]) |-> out[s][i]]
  BY <1>1
<1>4. \A i \in 1 .. Len(out[s]) : out[s][i] = 0 + i
  BY <1>1 DEF NumberedFrom
<1>5. QED
  BY <1>2, <1>3, <1>4 DEF Whole, Bytes

(* An end of file never overtakes data: while a main loop runs, a sink     *)
(* closes its fd without an error only when it has written everything its  *)
(* source read (xmit_eof, channel_close, do_pending_close).                *)
THEOREM EofWaitsForData == SSpec => []EofAfterData
<1>1. IInv /\ SessionInv => EofAfterData
  <2> SUFFICES ASSUME IInv, SessionInv, NEW s \in Streams,
                      pc[Sink(s)] = "main", ~ch[Sink(s)][s].fdh, ~ch[Sink(s)][s].err
               PROVE  Whole(s)
    BY DEF EofAfterData
  <2>1. Got(s) = rd[s] /\ ch[Sink(s)][s].rb = 0
    BY DEF SessionInv, StreamsEnd, InMain, EndSeen, Ending
  <2>2. QED
    BY <2>1, WholeOutput
<1>2. QED
  BY <1>1, SessionInductive, PTL

(* shex reports a lost connection only when the connection was lost: stub  *)
(* keeps its side open until shex has closed its own (stub_main_1).        *)
THEOREM LostMeansCut == SSpec => []LostOnlyIfCut
<1>1. SessionInv => LostOnlyIfCut
  BY DEF SessionInv, ShexInv, LostOnlyIfCut
<1>2. QED
  BY <1>1, SessionInductive, PTL

(* The exit status shex returns is the child's, and comes after all the    *)
(* output that could be written (shex_main_common).                        *)
THEOREM OutputBeforeStatus == SSpec => []StatusAfterOutput
<1>1. IInv /\ SessionInv => StatusAfterOutput
  <2> SUFFICES ASSUME IInv, SessionInv, pc["shex"] = "done"
               PROVE  /\ status = child
                      /\ \A s \in ChildOutput :
                           Whole(s) \/ ch["shex"][s].err \/ (cut /\ ch["shex"][TO_PEER].err)
    BY DEF StatusAfterOutput
  <2>1. status # NoStatus /\ AllDead("shex", Streams)
    BY DEF SessionInv, ShexInv
  <2>2. StatusKnown
    BY DEF SessionInv, StatusInv
  <2>3. status = child
    BY <2>1, <2>2 DEF StatusKnown
  <2>4. ASSUME NEW s \in ChildOutput
        PROVE  Whole(s) \/ ch["shex"][s].err \/ (cut /\ ch["shex"][TO_PEER].err)
    <3>1. s \in Streams /\ Sink(s) = "shex"
      BY StreamFacts DEF ChildOutput, ChildStdin, Sink, Other, Peers
    <3>2. Got(s) = rd[s] \/ ch["shex"][s].err \/ WriteLost
      BY <2>1, <2>2 DEF StatusKnown
    <3>3. ch[Sink(s)][s].rb = 0
      BY <2>1, <3>1 DEF AllDead, Dead
    <3>4. QED
      BY <3>1, <3>2, <3>3, WholeOutput DEF WriteLost
  <2>5. QED
    BY <2>3, <2>4
<1>2. QED
  BY <1>1, SessionInductive, PTL
============================================================================

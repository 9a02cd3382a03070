-------------------------------- MODULE Mux --------------------------------
(***************************************************************************)
(* The multiplexed connection of fb-adb: two processes, shex on the host   *)
(* and stub on the device, exchange messages over one byte stream in each  *)
(* direction and carry several standard streams over it.  The module       *)
(* models core.c (messages, flow control, io_loop_pump, io_loop_do_io) and *)
(* channel.c (reads, writes, closing).                                     *)
(*                                                                         *)
(* A channel's ring buffer is represented by its size.  RingBuf.tla shows  *)
(* that a ring buffer is a FIFO, so the contents of a source's buffer are  *)
(* the last rb bytes read.  What a sink holds is kept in kept, because a   *)
(* direct write could overtake buffered bytes.  Bytes of a stream are      *)
(* numbered 1, 2, ... in the order the source read them.                   *)
(*                                                                         *)
(* The order in which a pass of io_loop_pump visits the channels           *)
(* (sh->turn) is left open: the model visits them in every order.          *)
(***************************************************************************)
EXTENDS Integers, Sequences, FiniteSets

CONSTANTS
  NrCh,       \* sh->nrch, 5 in the program; channels 2..NrCh-1 are streams
  Source,     \* [Streams -> Peers]: the peer that reads the stream's fd
  CmdCap,     \* capacity of the FROM_PEER and TO_PEER ring buffers
  StreamCap,  \* capacity of the stream ring buffers
  WireCap,    \* bytes the transport holds in one direction
  MaxMsg,     \* sh->max_outgoing_msg
  SzHdr, SzData, SzLz4, SzWindow, SzClose,  \* sizeof the message structures
  SzControl,  \* [Peers -> Nat]: msg_window_size from shex, msg_child_exit from stub
  U32Max,     \* UINT32_MAX
  Compress,   \* c->compress of the streams
  MinCompress,\* MIN_COMPRESSION_BLOCK
  MaxBlock,   \* the smaller of MAX_COMPRESSION_BLOCK and UINT16_MAX
  ControlArgs,\* what a control message carries: window sizes, exit statuses
  MaxBytes    \* bound: bytes read from a stream's fd in one behaviour

Peers == {"shex", "stub"}
FROM_PEER == 0
TO_PEER == 1
Streams == 2 .. NrCh - 1
Chans == 0 .. NrCh - 1

Other(p) == IF p = "shex" THEN "stub" ELSE "shex"
Sink(s) == Other(Source[s])

ASSUME MuxAssumption ==
  /\ NrCh \in Nat /\ NrCh > 2
  /\ Source \in [Streams -> Peers]
  /\ {CmdCap, StreamCap, WireCap, MaxMsg, SzHdr, SzData, SzLz4, SzWindow,
      SzClose, U32Max, MinCompress, MaxBlock} \subseteq Nat \ {0}
  /\ MaxBytes \in Nat /\ ControlArgs \subseteq Nat
  /\ SzControl \in [Peers -> Nat \ {0}]
  /\ Compress \in BOOLEAN
  /\ StreamCap <= U32Max
  /\ MaxMsg <= CmdCap
  /\ SzHdr <= SzData /\ SzHdr <= SzLz4 /\ SzHdr <= SzWindow /\ SzHdr <= SzClose
  /\ \A p \in Peers : SzHdr <= SzControl[p] /\ SzControl[p] <= MaxMsg

MsgTypes == {"DATA", "LZ4", "WINDOW", "CLOSE", "CHILD_EXIT", "WINDOW_SIZE"}

(* n is the number of payload bytes of a data message, the delta of a      *)
(* WINDOW message or what a control message carries.  pos is a ghost that  *)
(* no handler reads: the bytes sent (or the credit issued) on the channel  *)
(* before this message.                                                    *)
Messages == [type: MsgTypes, ch: Chans, n: Nat, pos: Nat, size: Nat]

VARIABLES
  ch,      \* [Peers -> [Chans -> Channel]]: sh->ch of each process
  q,       \* q[p]: messages p has queued and its peer has not processed
  wire,    \* wire[p]: bytes sent by p that the transport holds
  rd,      \* rd[s]: bytes the source has read from stream s's fd
  kept,    \* kept[s]: the bytes in the sink's ring buffer
  out,     \* out[s]: the bytes the sink has written to its fd
  stage,   \* where each process is in PUMP_WHILE
  todo,    \* channels whose revents are set and that are not polled yet
  cut,     \* TRUE when the connection is lost
  failed   \* failed[p]: the protocol error p died of, or ""

vars == <<ch, q, wire, rd, kept, out, stage, todo, cut, failed>>

Channel == [fdh: BOOLEAN,            \* c->fdh != NULL
            rb: Nat,                 \* ringbuf_size(c->rb)
            window: Nat, bytes_written: Nat,
            sent_eof: BOOLEAN, pending_close: BOOLEAN,
            err: BOOLEAN]            \* c->err != 0, kept for TO_FD channels only

Stages == {"pump", "check", "poll", "exited"}
Errors == {"", "window desync", "window overflow", "wrong direction",
           "impossibly large message", "unrecognized command"}

MinOf(a, b) == IF a < b THEN a ELSE b

(* The byte numbers lo+1 .. lo+n as a sequence.                            *)
Bytes(lo, n) == [i \in 1 .. n |-> lo + i]

----------------------------------------------------------------------------
(* Channels (channel.c)                                                    *)

FromFd(p, c) == c = FROM_PEER \/ (c \in Streams /\ Source[c] = p)
Cap(c) == IF c \in Streams THEN StreamCap ELSE CmdCap
Room(p, c) == Cap(c) - ch[p][c].rb

(* Mutant: a sink does not announce its buffer to its source.              *)
NewChannelNoCredit(p, c) ==
  [fdh |-> TRUE, rb |-> 0, window |-> IF c = FROM_PEER THEN U32Max ELSE 0, bytes_written |-> 0,
   sent_eof |-> FALSE, pending_close |-> FALSE, err |-> FALSE]

NewChannel(p, c) ==
  [fdh |-> TRUE, rb |-> 0,
   window |-> IF c = FROM_PEER THEN U32Max ELSE 0,
   bytes_written |-> IF c \in Streams /\ ~FromFd(p, c) THEN StreamCap ELSE 0,
   sent_eof |-> FALSE, pending_close |-> FALSE, err |-> FALSE]

WantedReadSz(p, c) ==
  IF FromFd(p, c) /\ ch[p][c].fdh THEN MinOf(Room(p, c), ch[p][c].window) ELSE 0

WantedWriteSz(p, c) ==
  IF ~FromFd(p, c) /\ ch[p][c].fdh
    THEN MinOf(ch[p][c].rb, U32Max - ch[p][c].bytes_written) ELSE 0

Wanted(p) == {c \in Chans : WantedReadSz(p, c) > 0 \/ WantedWriteSz(p, c) > 0}

(* channel_close: an fd that still has bytes to write stays open.          *)
Closed(p, c, r) ==
  [r EXCEPT !.pending_close = TRUE,
            !.fdh = @ /\ ~FromFd(p, c) /\ r.rb # 0]

(* channel_poll's handling of a fatal error: purge a TO_FD buffer, close.  *)
Errored(p, c, r) ==
  Closed(p, c, [r EXCEPT !.rb = IF FromFd(p, c) THEN @ ELSE 0, !.err = TRUE])

Dead(p, c) == ~ch[p][c].fdh /\ ch[p][c].rb = 0 /\ ch[p][c].sent_eof

----------------------------------------------------------------------------
(* Sending                                                                 *)

(* Mutant: the room in TO_PEER is not looked at.                           *)
MaxOutMsgNoRoom(p) == MaxMsg

MaxOutMsg(p) == MinOf(MaxMsg, Room(p, TO_PEER))

(* channel_write to TO_PEER, which is always_buffer: a closed TO_PEER      *)
(* discards the message.                                                   *)
Enqueue(p, m) == q' = IF ch[p][TO_PEER].fdh THEN [q EXCEPT ![p] = Append(@, m)] ELSE q
Buffered(p, sz) == IF ch[p][TO_PEER].fdh THEN sz ELSE 0

MsgReady(p) ==
  /\ q[Other(p)] # <<>>
  /\ ch[p][FROM_PEER].rb >= SzHdr
  /\ ch[p][FROM_PEER].rb >= Head(q[Other(p)]).size

(* detect_msg's "impossibly large message".                                *)
MsgImpossible(p) ==
  /\ q[Other(p)] # <<>>
  /\ ch[p][FROM_PEER].rb >= SzHdr
  /\ Head(q[Other(p)]).size - ch[p][FROM_PEER].rb > Room(p, FROM_PEER)

(* Mutant: of a dead peer's messages only a partial header is dropped.     *)
DropReadyHeader(p) ==
  /\ ~MsgReady(p) /\ ~MsgImpossible(p)
  /\ ~ch[p][FROM_PEER].fdh /\ ch[p][FROM_PEER].rb \in 1 .. SzHdr - 1

DropReady(p) ==
  /\ ~MsgReady(p) /\ ~MsgImpossible(p)
  /\ ~ch[p][FROM_PEER].fdh /\ ch[p][FROM_PEER].rb > 0

(* io_loop_pump has processed all messages and dropped a partial one.      *)
Received(p) == ~MsgReady(p) /\ ~MsgImpossible(p) /\ ~DropReady(p)

AckReady(p, c) == ch[p][c].bytes_written > 0 /\ MaxOutMsg(p) >= SzWindow

(* The acks pass comes before the passes that send data and EOF.           *)
Acked(p) == Received(p) /\ \A c \in Chans : ~AckReady(p, c)

(* xmit_data takes the LZ4 path when the stream is compressed and the      *)
(* buffer holds a block worth compressing.                                 *)
UseLz4(p, c) == Compress /\ ch[p][c].rb >= MinCompress

(* Mutant: the window is checked when sending, not only when reading.      *)
DataReadyInWindow(p, c) ==
  /\ c \in Streams /\ FromFd(p, c) /\ ch[p][c].rb > 0 /\ ch[p][c].window > 0
  /\ MaxOutMsg(p) >= (IF UseLz4(p, c) THEN SzLz4 ELSE SzData)

DataReady(p, c) ==
  /\ c \in Streams /\ FromFd(p, c) /\ ch[p][c].rb > 0
  /\ MaxOutMsg(p) >= (IF UseLz4(p, c) THEN SzLz4 ELSE SzData)

PendingCloseReady(p, c) ==
  ~FromFd(p, c) /\ ch[p][c].fdh /\ ch[p][c].rb = 0 /\ ch[p][c].pending_close

(* Mutant: the end of file does not wait for buffered data.                *)
EofReadyEarly(p, c) ==
  ~ch[p][c].fdh /\ ~ch[p][c].sent_eof /\ MaxOutMsg(p) >= SzClose

EofReady(p, c) ==
  ~ch[p][c].fdh /\ ~ch[p][c].sent_eof /\ ch[p][c].rb = 0 /\ MaxOutMsg(p) >= SzClose

(* No pass of io_loop_pump has anything left to do.                        *)
PumpIdle(p) ==
  /\ Acked(p)
  /\ \A c \in Chans : ~DataReady(p, c) /\ ~PendingCloseReady(p, c) /\ ~EofReady(p, c)

Pumping(p) == stage[p] = "pump"

(* die_proto_error: the process exits and its fds close.                   *)
Die(p, why) ==
  /\ failed' = [failed EXCEPT ![p] = why]
  /\ stage' = [stage EXCEPT ![p] = "exited"]
  /\ UNCHANGED <<ch, q, wire, rd, kept, out, todo, cut>>

----------------------------------------------------------------------------
(* io_loop_pump, first part: process every complete message.               *)

Head1(p) == Head(q[Other(p)])

(* The message leaves FROM_PEER's buffer; r is the channel's new record.   *)
Consume(p, c, r) ==
  /\ q' = [q EXCEPT ![Other(p)] = Tail(@)]
  /\ ch' = [ch EXCEPT ![p][FROM_PEER].rb = @ - Head1(p).size, ![p][c] = r]
  /\ UNCHANGED <<wire, rd, stage, todo, cut, failed>>

ConsumeOnly(p) ==
  /\ q' = [q EXCEPT ![Other(p)] = Tail(@)]
  /\ ch' = [ch EXCEPT ![p][FROM_PEER].rb = @ - Head1(p).size]
  /\ UNCHANGED <<wire, rd, kept, out, stage, todo, cut, failed>>

ImpossibleMsg(p) ==
  Pumping(p) /\ MsgImpossible(p) /\ Die(p, "impossibly large message")

(* Mutant: channel_write writes directly although bytes are buffered.      *)
DirectSizesAlways(p, c, n) ==
  IF U32Max - ch[p][c].bytes_written >= n THEN 0 .. n ELSE {0}

(* How much of an n-byte payload channel_write may write directly: nothing *)
(* unless the buffer is empty and the write counter cannot overflow.       *)
DirectSizes(p, c, n) ==
  IF ch[p][c].rb = 0 /\ U32Max - ch[p][c].bytes_written >= n THEN 0 .. n ELSE {0}

RecvData(p) ==
  /\ Pumping(p) /\ MsgReady(p) /\ Head1(p).type \in {"DATA", "LZ4"}
  /\ LET m == Head1(p)
         c == m.ch
         r == ch[p][c]
     IN  IF c \notin Streams \/ FromFd(p, c) THEN Die(p, "wrong direction")
         ELSE IF ~r.fdh THEN ConsumeOnly(p)
         ELSE IF Room(p, c) < m.n THEN Die(p, "window desync")
         ELSE \E d \in DirectSizes(p, c, m.n) :
                /\ out' = [out EXCEPT ![c] = @ \o Bytes(m.pos, d)]
                /\ kept' = [kept EXCEPT ![c] = @ \o Bytes(m.pos + d, m.n - d)]
                /\ Consume(p, c, [r EXCEPT !.bytes_written = @ + d, !.rb = @ + (m.n - d)])

RecvWindow(p) ==
  /\ Pumping(p) /\ MsgReady(p) /\ Head1(p).type = "WINDOW"
  /\ LET m == Head1(p)
         c == m.ch
         r == ch[p][c]
     IN  IF c \notin Streams \/ ~FromFd(p, c) THEN Die(p, "wrong direction")
         ELSE IF ~r.fdh THEN ConsumeOnly(p)
         ELSE IF r.window + m.n > U32Max THEN Die(p, "window overflow")
         ELSE Consume(p, c, [r EXCEPT !.window = @ + m.n]) /\ UNCHANGED <<kept, out>>

RecvClose(p) ==
  /\ Pumping(p) /\ MsgReady(p) /\ Head1(p).type = "CLOSE"
  /\ LET c == Head1(p).ch
     IN  IF c \notin Streams THEN ConsumeOnly(p)
         ELSE /\ Consume(p, c, Closed(p, c, [ch[p][c] EXCEPT !.sent_eof = TRUE]))
              /\ UNCHANGED <<kept, out>>

(* process_msg hooks: shex handles MSG_CHILD_EXIT and stub MSG_WINDOW_SIZE *)
(* (their effect is in Session.tla); any other type is an error.           *)
ControlType(p) == IF p = "shex" THEN "WINDOW_SIZE" ELSE "CHILD_EXIT"

RecvControl(p) ==
  /\ Pumping(p) /\ MsgReady(p)
  /\ Head1(p).type \in {"CHILD_EXIT", "WINDOW_SIZE"}
  /\ IF Head1(p).type = ControlType(Other(p)) THEN ConsumeOnly(p)
     ELSE Die(p, "unrecognized command")

DropPartial(p) ==
  /\ Pumping(p) /\ DropReady(p)
  /\ ch' = [ch EXCEPT ![p][FROM_PEER].rb = 0]
  /\ UNCHANGED <<q, wire, rd, kept, out, stage, todo, cut, failed>>

----------------------------------------------------------------------------
(* io_loop_pump, second part: the acks pass and the work passes.           *)

(* Mutant: xmit_acks does not reset the write counter.                     *)
XmitAcksNoReset(p, c) ==
  /\ Pumping(p) /\ Received(p) /\ AckReady(p, c)
  /\ Enqueue(p, [type |-> "WINDOW", ch |-> c, n |-> ch[p][c].bytes_written,
                 pos |-> StreamCap + Len(out[c]) - ch[p][c].bytes_written,
                 size |-> SzWindow])
  /\ ch' = [ch EXCEPT ![p][TO_PEER].rb = @ + Buffered(p, SzWindow)]
  /\ UNCHANGED <<wire, rd, kept, out, stage, todo, cut, failed>>

XmitAcks(p, c) ==
  /\ Pumping(p) /\ Received(p) /\ AckReady(p, c)
  /\ Enqueue(p, [type |-> "WINDOW", ch |-> c, n |-> ch[p][c].bytes_written,
                 pos |-> StreamCap + Len(out[c]) - ch[p][c].bytes_written,
                 size |-> SzWindow])
  /\ ch' = [ch EXCEPT ![p][TO_PEER].rb = @ + Buffered(p, SzWindow),
                      ![p][c].bytes_written = 0]
  /\ UNCHANGED <<wire, rd, kept, out, stage, todo, cut, failed>>

XmitMsg(p, c, type, n, sz) ==
  /\ Enqueue(p, [type |-> type, ch |-> c, n |-> n,
                 pos |-> rd[c] - ch[p][c].rb, size |-> sz])
  /\ ch' = [ch EXCEPT ![p][TO_PEER].rb = @ + Buffered(p, sz), ![p][c].rb = @ - n]
  /\ UNCHANGED <<wire, rd, kept, out, stage, todo, cut, failed>>

XmitDataUncompressed(p, c, avail) ==
  LET n == MinOf(avail, MaxOutMsg(p) - SzData)
  IN  MaxOutMsg(p) >= SzData /\ XmitMsg(p, c, "DATA", n, SzData + n)

(* LZ4_compress_destSize consumes some of the block and may fail; when it  *)
(* does not save space the same bytes go uncompressed.                     *)
XmitDataLz4(p, c) ==
  \/ XmitDataUncompressed(p, c, ch[p][c].rb)
  \/ \E consumed \in 1 .. MinOf(ch[p][c].rb, MaxBlock) :
       \/ XmitDataUncompressed(p, c, consumed)
       \/ \E outsz \in 1 .. MaxOutMsg(p) - SzLz4 :
            /\ outsz + SzLz4 < consumed + SzData
            /\ XmitMsg(p, c, "LZ4", consumed, SzLz4 + outsz)

XmitData(p, c) ==
  /\ Pumping(p) /\ Acked(p) /\ DataReady(p, c)
  /\ IF UseLz4(p, c) THEN XmitDataLz4(p, c)
                     ELSE XmitDataUncompressed(p, c, ch[p][c].rb)

DoPendingClose(p, c) ==
  /\ Pumping(p) /\ Acked(p) /\ PendingCloseReady(p, c)
  /\ ch' = [ch EXCEPT ![p][c] = Closed(p, c, @)]
  /\ UNCHANGED <<q, wire, rd, kept, out, stage, todo, cut, failed>>

XmitEof(p, c) ==
  /\ Pumping(p) /\ Acked(p) /\ EofReady(p, c)
  /\ Enqueue(p, [type |-> "CLOSE", ch |-> c, n |-> 0, pos |-> 0, size |-> SzClose])
  /\ ch' = [ch EXCEPT ![p][TO_PEER].rb = @ + Buffered(p, SzClose),
                      ![p][c].sent_eof = TRUE]
  /\ UNCHANGED <<wire, rd, kept, out, stage, todo, cut, failed>>

(* io_loop_pump returns; PUMP_WHILE evaluates its condition next.          *)
PumpReturns(p) ==
  /\ Pumping(p) /\ PumpIdle(p)
  /\ stage' = [stage EXCEPT ![p] = "check"]
  /\ UNCHANGED <<ch, q, wire, rd, kept, out, todo, cut, failed>>

----------------------------------------------------------------------------
(* io_loop_do_io: poll, then channel_poll for each channel with revents,   *)
(* in the order of the channel numbers.                                    *)

Running(p) == stage[p] # "exited"
Broken(p) == cut \/ ~Running(Other(p))

(* Whether poll reports the peer connection readable or writable.  Closing *)
(* TO_PEER alone does not end the stream the peer reads: stub's stderr is  *)
(* still the connection, so the peer sees EOF when the process exits.      *)
PeerReady(p, c) ==
  IF c = FROM_PEER THEN wire[Other(p)] > 0 \/ Broken(p)
                   ELSE wire[p] < WireCap \/ Broken(p)

(* Which stream fds are ready is up to whoever holds their other ends.     *)
Revents(p) ==
  LET w == Wanted(p)
      peer == {c \in w \ Streams : PeerReady(p, c)}
  IN  {peer \cup x : x \in SUBSET (w \cap Streams)}

(* poll blocks until something is ready.                                   *)
Poll(p) ==
  /\ stage[p] = "check" /\ Wanted(p) # {}
  /\ \E r \in Revents(p) \ {{}} : todo' = [todo EXCEPT ![p] = r]
  /\ stage' = [stage EXCEPT ![p] = "poll"]
  /\ UNCHANGED <<ch, q, wire, rd, kept, out, cut, failed>>

(* io_loop_do_io does nothing: no channel wants IO, or a signal interrupts *)
(* poll.                                                                   *)
PollNothing(p) ==
  /\ stage[p] = "check"
  /\ stage' = [stage EXCEPT ![p] = "pump"]
  /\ UNCHANGED <<ch, q, wire, rd, kept, out, todo, cut, failed>>

(* channel_poll of channel c is next, and is over.                         *)
Polling(p, c) == stage[p] = "poll" /\ c \in todo[p] /\ \A d \in todo[p] : c <= d

Polled(p, c) ==
  /\ todo' = [todo EXCEPT ![p] = @ \ {c}]
  /\ stage' = [stage EXCEPT ![p] = IF todo[p] = {c} THEN "pump" ELSE "poll"]
  /\ UNCHANGED <<q, cut, failed>>

PeerRead(p) ==
  /\ Polling(p, FROM_PEER) /\ Polled(p, FROM_PEER)
  /\ \E n \in 1 .. MinOf(WantedReadSz(p, FROM_PEER), wire[Other(p)]) :
       /\ ch' = [ch EXCEPT ![p][FROM_PEER].rb = @ + n]
       /\ wire' = [wire EXCEPT ![Other(p)] = @ - n]
  /\ UNCHANGED <<rd, kept, out>>

(* A read of zero bytes or a read error.                                   *)
PeerEof(p) ==
  /\ Polling(p, FROM_PEER) /\ Polled(p, FROM_PEER)
  /\ wire[Other(p)] = 0 /\ Broken(p)
  /\ ch' = [ch EXCEPT ![p][FROM_PEER] = Closed(p, FROM_PEER, @)]
  /\ UNCHANGED <<wire, rd, kept, out>>

(* poll_channel_2 after a write of n bytes of channel c.                   *)
Written(p, c, n) ==
  LET r == [ch[p][c] EXCEPT !.rb = @ - n,
              !.bytes_written = IF c \in Streams THEN @ + n ELSE @]
  IN  IF r.pending_close /\ r.rb = 0 THEN Closed(p, c, r) ELSE r

PeerWrite(p) ==
  /\ Polling(p, TO_PEER) /\ Polled(p, TO_PEER) /\ ~Broken(p)
  /\ \E n \in 1 .. MinOf(WantedWriteSz(p, TO_PEER), WireCap - wire[p]) :
       /\ ch' = [ch EXCEPT ![p][TO_PEER] = Written(p, TO_PEER, n)]
       /\ wire' = [wire EXCEPT ![p] = @ + n]
  /\ UNCHANGED <<rd, kept, out>>

PeerWriteError(p) ==
  /\ Polling(p, TO_PEER) /\ Polled(p, TO_PEER) /\ Broken(p)
  /\ ch' = [ch EXCEPT ![p][TO_PEER] = Errored(p, TO_PEER, @)]
  /\ UNCHANGED <<wire, rd, kept, out>>

(* Mutant: a read does not use up the window.                              *)
StreamReadUncharged(p, s) ==
  /\ FromFd(p, s) /\ Polling(p, s) /\ Polled(p, s)
  /\ \E n \in 1 .. MinOf(WantedReadSz(p, s), MaxBytes - rd[s]) :
       /\ ch' = [ch EXCEPT ![p][s].rb = @ + n]
       /\ rd' = [rd EXCEPT ![s] = @ + n]
  /\ UNCHANGED <<wire, kept, out>>

StreamRead(p, s) ==
  /\ FromFd(p, s) /\ Polling(p, s) /\ Polled(p, s)
  /\ \E n \in 1 .. MinOf(WantedReadSz(p, s), MaxBytes - rd[s]) :
       /\ ch' = [ch EXCEPT ![p][s].rb = @ + n, ![p][s].window = @ - n]
       /\ rd' = [rd EXCEPT ![s] = @ + n]
  /\ UNCHANGED <<wire, kept, out>>

(* End of file or a read error on a stream's fd.                           *)
StreamEof(p, s) ==
  /\ FromFd(p, s) /\ Polling(p, s) /\ Polled(p, s)
  /\ ch' = [ch EXCEPT ![p][s] = Closed(p, s, @)]
  /\ UNCHANGED <<wire, rd, kept, out>>

StreamWrite(p, s) ==
  /\ ~FromFd(p, s) /\ Polling(p, s) /\ Polled(p, s)
  /\ \E n \in 1 .. WantedWriteSz(p, s) :
       /\ ch' = [ch EXCEPT ![p][s] = Written(p, s, n)]
       /\ out' = [out EXCEPT ![s] = @ \o SubSeq(kept[s], 1, n)]
       /\ kept' = [kept EXCEPT ![s] = SubSeq(@, n + 1, Len(@))]
  /\ UNCHANGED <<wire, rd>>

StreamWriteError(p, s) ==
  /\ ~FromFd(p, s) /\ Polling(p, s) /\ Polled(p, s)
  /\ ch' = [ch EXCEPT ![p][s] = Errored(p, s, @)]
  /\ kept' = [kept EXCEPT ![s] = <<>>]
  /\ UNCHANGED <<wire, rd, out>>

(* A temporary error (EAGAIN, EINTR): channel_poll leaves the channel as   *)
(* it is.                                                                  *)
Temporary(p) ==
  /\ \E c \in Chans : Polling(p, c) /\ Polled(p, c)
  /\ UNCHANGED <<ch, wire, rd, kept, out>>

----------------------------------------------------------------------------
(* What the main programs do between two iterations of PUMP_WHILE.         *)

(* channel_close of the channels cs.                                       *)
CloseChannels(p, cs) ==
  ch' = [ch EXCEPT ![p] = [c \in Chans |-> IF c \in cs THEN Closed(p, c, @[c]) ELSE @[c]]]

Shut(p, cs) ==
  /\ stage[p] = "check" /\ CloseChannels(p, cs)
  /\ stage' = [stage EXCEPT ![p] = "pump"]
  /\ UNCHANGED <<q, wire, rd, kept, out, todo, cut, failed>>

(* queue_message_synch once there is room for the message; then the        *)
(* channels cs are closed and the next PUMP_WHILE starts.                  *)
SendControl(p, n, cs) ==
  /\ stage[p] = "check" /\ MaxOutMsg(p) >= SzControl[p]
  /\ Enqueue(p, [type |-> ControlType(p), ch |-> 0, n |-> n, pos |-> 0, size |-> SzControl[p]])
  /\ LET c1 == [ch[p] EXCEPT ![TO_PEER].rb = @ + Buffered(p, SzControl[p])]
     IN  ch' = [ch EXCEPT ![p] = [c \in Chans |-> IF c \in cs THEN Closed(p, c, c1[c]) ELSE c1[c]]]
  /\ stage' = [stage EXCEPT ![p] = "pump"]
  /\ UNCHANGED <<wire, rd, kept, out, todo, cut, failed>>

(* The process ends: main returns, or it is killed at any point.  The      *)
(* transport may drop the last bytes it was given.                         *)
Exit(p) ==
  /\ Running(p)
  /\ stage' = [stage EXCEPT ![p] = "exited"]
  /\ \E n \in 0 .. wire[p] : wire' = [wire EXCEPT ![p] = n]
  /\ UNCHANGED <<ch, q, rd, kept, out, todo, cut, failed>>

(* The connection is lost with what it carries.                            *)
LoseConnection ==
  /\ ~cut /\ cut' = TRUE
  /\ wire' \in {w \in [Peers -> 0 .. WireCap] : \A p \in Peers : w[p] <= wire[p]}
  /\ UNCHANGED <<ch, q, rd, kept, out, stage, todo, failed>>

----------------------------------------------------------------------------
Init ==
  /\ ch = [p \in Peers |-> [c \in Chans |-> NewChannel(p, c)]]
  /\ q = [p \in Peers |-> <<>>]
  /\ wire = [p \in Peers |-> 0]
  /\ rd = [s \in Streams |-> 0]
  /\ kept = [s \in Streams |-> <<>>]
  /\ out = [s \in Streams |-> <<>>]
  /\ stage = [p \in Peers |-> "pump"]
  /\ todo = [p \in Peers |-> {}]
  /\ cut = FALSE
  /\ failed = [p \in Peers |-> ""]

(* One handler of io_loop_pump.                                            *)
PumpStep(p) ==
  \/ ImpossibleMsg(p) \/ RecvData(p) \/ RecvWindow(p) \/ RecvClose(p)
  \/ DropPartial(p)
  \/ \E c \in Chans : XmitAcks(p, c) \/ XmitData(p, c) \/ DoPendingClose(p, c) \/ XmitEof(p, c)
  \/ PumpReturns(p)

(* One channel_poll of io_loop_do_io.                                      *)
IoStep(p) ==
  \/ PeerRead(p) \/ PeerEof(p) \/ PeerWrite(p) \/ PeerWriteError(p)
  \/ \E s \in Streams : StreamRead(p, s) \/ StreamEof(p, s)
                       \/ StreamWrite(p, s) \/ StreamWriteError(p, s)

(* The main program, with no assumption about when it calls what.          *)
MainStep(p) ==
  \/ RecvControl(p) \/ Poll(p) \/ PollNothing(p) \/ Exit(p)
  \/ \E cs \in SUBSET Chans : Shut(p, cs) \/ \E n \in ControlArgs : SendControl(p, n, cs)

Next ==
  \/ \E p \in Peers : PumpStep(p) \/ IoStep(p) \/ Temporary(p) \/ MainStep(p)
  \/ LoseConnection

Spec == Init /\ [][Next]_vars

----------------------------------------------------------------------------
(* Properties                                                              *)

(* Types.                                                                  *)
TypeOK ==
  /\ ch \in [Peers -> [Chans -> Channel]]
  /\ q \in [Peers -> Seq(Messages)]
  /\ wire \in [Peers -> Nat]
  /\ rd \in [Streams -> Nat]
  /\ kept \in [Streams -> Seq(Nat)]
  /\ out \in [Streams -> Seq(Nat)]
  /\ stage \in [Peers -> Stages]
  /\ todo \in [Peers -> SUBSET Chans]
  /\ cut \in BOOLEAN
  /\ failed \in [Peers -> Errors]

(* No well-behaved peer makes the other die: the sink of a stream never    *)
(* receives more than its ring buffer has room for ("window desync"), the  *)
(* window counter never overflows, and no message is larger than the       *)
(* receive buffer (core.c, die_proto_error).                               *)
NoProtocolError == \A p \in Peers : failed[p] = ""

(* No ring buffer is asked to hold more than its capacity (the assertion   *)
(* in ringbuf_note_added), whatever is sent and whenever it is drained; a  *)
(* source's window and its sink's write counter together never exceed the  *)
(* sink's buffer, so neither counter overflows (poll_channel_2's           *)
(* assertions).                                                            *)
WithinCapacity ==
  /\ \A p \in Peers, c \in Chans : ch[p][c].rb <= Cap(c)
  /\ \A s \in Streams : ch[Source[s]][s].window + ch[Sink(s)][s].bytes_written <= StreamCap

(* A sink delivers the bytes its source read, in order, without gaps or    *)
(* repetition, although direct writes (channel_write), buffered writes and *)
(* closing are mixed.                                                      *)
InOrder ==
  \A s \in Streams :
    LET got == out[s] \o kept[s]
    IN  Len(got) <= rd[s] /\ got = Bytes(0, Len(got))

----------------------------------------------------------------------------
(* The inductive invariant behind the properties.  Positions in a stream   *)
(* are compared one message at a time, so no sum over a queue is needed.   *)

Sent(s) == rd[s] - ch[Source[s]][s].rb
Got(s) == Len(out[s]) + ch[Sink(s)][s].rb
DataTypes == {"DATA", "LZ4"}
IsFor(m, T, s) == m.type \in T /\ m.ch = s

(* The messages of queue w of a type in T for stream s cover increasing    *)
(* ranges between lo and hi.                                               *)
Ranged(w, T, s, lo, hi) ==
  \A i \in 1 .. Len(w) : IsFor(w[i], T, s) =>
    /\ lo <= w[i].pos /\ w[i].pos + w[i].n <= hi
    /\ \A j \in 1 .. Len(w) : i < j /\ IsFor(w[j], T, s) => w[i].pos + w[i].n <= w[j].pos

(* A data message of queue w for stream s, before the i-th, ends at x.     *)
EndsAt(w, s, i, x) ==
  \E j \in 1 .. Len(w) : j < i /\ IsFor(w[j], DataTypes, s) /\ w[j].pos + w[j].n = x

(* Each data message of queue w for s starts at lo or where another ends.  *)
NoGap(w, s, lo) ==
  \A i \in 1 .. Len(w) :
    IsFor(w[i], DataTypes, s) => w[i].pos = lo \/ EndsAt(w, s, i, w[i].pos)

(* What a process queues: messages that fit the peer's receive buffer, of  *)
(* the types and for the channels the peer accepts from it.                *)
Sendable(p, m) ==
  /\ m.size <= CmdCap
  /\ m.type \in {"DATA", "LZ4"} => m.ch \in Streams /\ Source[m.ch] = p
  /\ m.type = "WINDOW" => m.ch \in Streams /\ Source[m.ch] # p
  /\ m.type \in {"CHILD_EXIT", "WINDOW_SIZE"} => m.type = ControlType(p)

(* Credit: what the source has read and may still read, and what the sink  *)
(* has yet to announce, never exceed what the sink can hold.               *)
Credit(s) ==
  ch[Source[s]][s].window + rd[s] + ch[Sink(s)][s].bytes_written <= StreamCap + Len(out[s])

CreditInFlight(s) ==
  Ranged(q[Sink(s)], {"WINDOW"}, s, ch[Source[s]][s].window + rd[s],
         StreamCap + Len(out[s]) - ch[Sink(s)][s].bytes_written)

(* Data in flight lies between what the sink has and what was sent.        *)
DataInFlight(s) ==
  Got(s) <= Sent(s) /\ Ranged(q[Source[s]], DataTypes, s, Got(s), Sent(s))

(* While the sink is open, what is in flight has no gaps.                  *)
Contiguous(s) ==
  LET w == q[Source[s]]
  IN  ch[Sink(s)][s].fdh =>
        /\ NoGap(w, s, Got(s))
        /\ ch[Source[s]][TO_PEER].fdh => Sent(s) = Got(s) \/ EndsAt(w, s, Len(w) + 1, Sent(s))

(* out and kept hold the bytes 1, 2, ... of the stream.                    *)
NumberedFrom(base, w) == \A i \in 1 .. Len(w) : w[i] = base + i

Numbered(s) ==
  /\ Len(kept[s]) = ch[Sink(s)][s].rb
  /\ NumberedFrom(0, out[s]) /\ NumberedFrom(Len(out[s]), kept[s])

StreamInv(s) ==
  Credit(s) /\ CreditInFlight(s) /\ DataInFlight(s) /\ Contiguous(s) /\ Numbered(s)

Buffers ==
  \A p \in Peers, c \in Chans :
    /\ ch[p][c].rb <= Cap(c)
    /\ c \notin Streams \/ Source[c] = p => ch[p][c].bytes_written = 0

(* Credit and data are accounted for on every stream, whatever the two     *)
(* main programs do and wherever a process stops (core.c, xmit_acks,       *)
(* xmit_data and the handlers of their messages).                          *)
FlowControl ==
  /\ \A p \in Peers : \A i \in 1 .. Len(q[p]) : Sendable(p, q[p][i])
  /\ Buffers
  /\ \A s \in Streams : StreamInv(s)

============================================================================

------------------------------ MODULE AdbEnc ------------------------------
(***************************************************************************)
(* The encoding that keeps `~' off an adb pty (adbenc.c) and the two ways  *)
(* it is used on the bytes shex sends to stub: write_all_adb_encoded and   *)
(* read_all_adb_encoded for a handshake message, then the channels' own    *)
(* loops channel_write_adb_hack and channel_read_adb_hack (channel.c),     *)
(* which stop at any byte when the pty is full or empty.                   *)
(*                                                                         *)
(* Each of the four loops is modelled one iteration at a time.  A buffer   *)
(* that wraps around hands its bytes to the coder in two pieces; the       *)
(* model splits it anywhere.                                               *)
(***************************************************************************)
EXTENDS Integers, Sequences

CONSTANTS
  BufSz,     \* sizeof encbuf and buf, 4096 in the program
  MaxHello,  \* bound: length of the handshake message
  MaxData,   \* bound: bytes sent on the channel
  MaxRead    \* bound: what channel_wanted_readsz returns

ASSUME AdbEncAssumption ==
  /\ {BufSz, MaxRead} \subseteq Nat \ {0} /\ {MaxHello, MaxData} \subseteq Nat

adb_forbidden == "~"
adb_escape1 == "!"
adb_escape2 == "@"
Char == {adb_forbidden, adb_escape1, adb_escape2, "a"}
Strings(n) == UNION {[1 .. k -> Char] : k \in 0 .. n}

VARIABLES
  hello,       \* the handshake message
  data,        \* what is to be sent on the channel
  spc,         \* shex: "hello", "stream", "eof" once its end is closed, "killed"
  in,          \* what shex's encoder has not consumed
  nr_written,  \* of write_all_adb_encoded
  queued,      \* bytes of data queued on TO_PEER so far
  est,         \* encoder state: of the call, then c->adb_hack_state
  pty,         \* encoded bytes in transit
  rpc,         \* stub: "hello", "stream", "closed", or "failed"
  dst,         \* decoder state: of the call, then c->adb_hack_state
  helloGot, dataGot,   \* what stub has decoded
  sz, added    \* of channel_read_adb_hack; sz = 0 outside the loop

encvars == <<hello, data, spc, in, nr_written, queued, est, pty, rpc, dst,
             helloGot, dataGot, sz, added>>
sender == <<spc, in, nr_written, queued, est>>
receiver == <<rpc, dst, helloGot, dataGot, sz, added>>

Min2(a, b) == IF a < b THEN a ELSE b
Prefix(s, n) == SubSeq(s, 1, n)
After(s, n) == SubSeq(s, n + 1, Len(s))
IsPrefixOf(s, t) == Len(s) <= Len(t) /\ s = Prefix(t, Len(s))

----------------------------------------------------------------------------
(* adbenc.c: a coder reads r.in and appends to r.out.                      *)

(* One pass of adb_encode's loop: it emits one byte.                       *)
EncodeByte(r) ==
  LET c == Head(r.in)
      Emit(b, st, used) ==
        [st |-> st, in |-> After(r.in, used), out |-> Append(r.out, b)]
  IN  CASE r.st = 0 /\ c = adb_escape1 -> Emit(adb_escape1, 1, 0)
        [] r.st = 0 /\ c = adb_forbidden -> Emit(adb_escape1, 2, 0)
        [] r.st = 0 /\ c \notin {adb_escape1, adb_forbidden} -> Emit(c, 0, 1)
        [] r.st = 1 -> Emit(adb_escape1, 0, 1)
        [] r.st = 2 -> Emit(adb_escape2, 0, 1)

adb_encode(st, s, room) ==
  LET f[k \in 0 .. room] ==
        IF k = 0 THEN [st |-> st, in |-> s, out |-> <<>>]
        ELSE LET r == f[k - 1] IN IF r.in = <<>> THEN r ELSE EncodeByte(r)
  IN  f[room]

(* One pass of adb_decode's loop: it consumes one byte.                    *)
DecodeByte(r) ==
  LET c == Head(r.in)
      Got(st, b) == [st |-> st, in |-> Tail(r.in), out |-> r.out \o b]
  IN  CASE r.st = 0 /\ c = adb_escape1 -> Got(1, <<>>)
        [] r.st = 0 /\ c # adb_escape1 -> Got(0, <<c>>)
        [] r.st = 1 /\ c = adb_escape1 -> Got(0, <<adb_escape1>>)
        [] r.st = 1 /\ c # adb_escape1 -> Got(0, <<adb_forbidden>>)

adb_decode(st, s, room) ==
  LET f[k \in 0 .. Len(s)] ==
        IF k = 0 THEN [st |-> st, in |-> s, out |-> <<>>]
        ELSE LET r == f[k - 1] IN IF Len(r.out) = room THEN r ELSE DecodeByte(r)
  IN  f[Len(s)]

(* The channel loops encode two iovecs into one buffer and decode one      *)
(* buffer into two iovecs, of which the first has the length a.            *)
EncodeTwo(st, s, a, room) ==
  LET r1 == adb_encode(st, Prefix(s, a), room)
      r2 == adb_encode(r1.st, After(s, a), room - Len(r1.out))
  IN  [st |-> r2.st, in |-> r1.in \o r2.in, out |-> r1.out \o r2.out]

DecodeTwo(st, s, a) ==
  LET r1 == adb_decode(st, s, a)
      r2 == adb_decode(r1.st, r1.in, Len(s) - a)
  IN  [st |-> r2.st, out |-> r1.out \o r2.out]

----------------------------------------------------------------------------
(* shex                                                                    *)

(* An iteration of write_all_adb_encoded.  It counts encoded bytes and     *)
(* compares them with the plain length.                                    *)
WriteAll ==
  /\ spc = "hello" /\ nr_written < Len(hello)
  /\ LET r == adb_encode(est, in, BufSz)
     IN  /\ pty' = pty \o r.out
         /\ in' = r.in /\ est' = r.st /\ nr_written' = nr_written + Len(r.out)
  /\ UNCHANGED <<hello, data, spc, queued, receiver>>

(* The channel's ring buffer and its adb_hack_state start afresh.          *)
WriteAllReturns ==
  /\ spc = "hello" /\ nr_written >= Len(hello)
  /\ spc' = "stream" /\ in' = <<>> /\ est' = 0
  /\ UNCHANGED <<hello, data, nr_written, queued, pty, receiver>>

(* channel_write to TO_PEER.                                               *)
Queue ==
  /\ spc = "stream"
  /\ \E n \in 1 .. Len(data) - queued :
       in' = in \o SubSeq(data, queued + 1, queued + n) /\ queued' = queued + n
  /\ UNCHANGED <<hello, data, spc, nr_written, est, pty, receiver>>

(* Mutant: what write did not accept is not encoded again.                 *)
ChannelWriteOnePass ==
  /\ spc = "stream" /\ in # <<>>
  /\ \E a \in 0 .. Len(in) :
       LET pass1 == EncodeTwo(est, in, a, BufSz)
       IN  \E n \in 1 .. Len(pass1.out) :
             pty' = pty \o Prefix(pass1.out, n) /\ in' = pass1.in /\ est' = pass1.st
  /\ UNCHANGED <<hello, data, spc, nr_written, queued, receiver>>

(* An iteration of channel_write_adb_hack: write accepts n of the encoded  *)
(* bytes, and the encoder runs again to find where those end.              *)
ChannelWrite ==
  /\ spc = "stream" /\ in # <<>>
  /\ \E a \in 0 .. Len(in) :
       LET pass1 == EncodeTwo(est, in, a, BufSz)
       IN  \E n \in 1 .. Len(pass1.out) :
             LET pass2 == EncodeTwo(est, in, a, n)
             IN  pty' = pty \o Prefix(pass1.out, n) /\ in' = pass2.in /\ est' = pass2.st
  /\ UNCHANGED <<hello, data, spc, nr_written, queued, receiver>>

CloseEnd ==
  /\ spc = "stream" /\ queued = Len(data) /\ in = <<>>
  /\ spc' = "eof"
  /\ UNCHANGED <<hello, data, in, nr_written, queued, est, pty, receiver>>

(* shex dies with a message half written.                                  *)
Killed ==
  /\ spc \in {"hello", "stream"} /\ spc' = "killed"
  /\ UNCHANGED <<hello, data, in, nr_written, queued, est, pty, receiver>>

AtEof == pty = <<>> /\ spc \in {"eof", "killed"}

----------------------------------------------------------------------------
(* stub                                                                    *)

(* An iteration of read_all_adb_encoded.                                   *)
ReadAll ==
  /\ rpc = "hello"
  /\ LET want == Len(hello) - Len(helloGot)
     IN  \E n \in 1 .. Min2(Min2(want, BufSz), Len(pty)) :
           LET r == adb_decode(dst, Prefix(pty, n), want)
           IN  helloGot' = helloGot \o r.out /\ dst' = r.st /\ pty' = After(pty, n)
  /\ UNCHANGED <<hello, data, sender, rpc, dataGot, sz, added>>

ReadAllReturns ==
  /\ rpc = "hello" /\ Len(helloGot) = Len(hello)
  /\ rpc' = "stream" /\ dst' = 0
  /\ UNCHANGED <<hello, data, sender, pty, helloGot, dataGot, sz, added>>

(* End of file within the message: read_msg dies.                          *)
ReadAllShort ==
  /\ rpc = "hello" /\ Len(helloGot) < Len(hello) /\ AtEof
  /\ rpc' = "failed"
  /\ UNCHANGED <<hello, data, sender, pty, dst, helloGot, dataGot, sz, added>>

(* poll reports FROM_PEER; poll_channel_2 calls channel_read_adb_hack.     *)
ReadBegins ==
  /\ rpc = "stream" /\ sz = 0 /\ (pty # <<>> \/ AtEof)
  /\ sz' \in 1 .. MaxRead /\ added' = 0
  /\ UNCHANGED <<hello, data, sender, pty, rpc, dst, helloGot, dataGot>>

(* An iteration of channel_read_adb_hack.                                  *)
ReadChunk ==
  /\ sz > 0 /\ added < sz
  /\ \E n \in 1 .. Min2(Min2(sz - added, BufSz), Len(pty)) : \E a \in 0 .. n :
       LET r == DecodeTwo(dst, Prefix(pty, n), a)
       IN  /\ dataGot' = dataGot \o r.out /\ dst' = r.st /\ pty' = After(pty, n)
           /\ added' = added + Len(r.out)
  /\ UNCHANGED <<hello, data, sender, rpc, helloGot, sz>>

(* The loop ends with all it wanted.                                       *)
ReadFull ==
  /\ sz > 0 /\ added = sz /\ sz' = 0
  /\ UNCHANGED <<hello, data, sender, pty, rpc, dst, helloGot, dataGot, added>>

(* EAGAIN: the loop returns what it has, or dies of a temporary error,     *)
(* which channel_poll ignores.  Either way the channel stays open.         *)
ReadBlocked ==
  /\ sz > 0 /\ added < sz /\ pty = <<>> /\ ~AtEof /\ sz' = 0
  /\ UNCHANGED <<hello, data, sender, pty, rpc, dst, helloGot, dataGot, added>>

(* End of file: poll_channel_2 closes the channel when nothing was read.   *)
ReadEof ==
  /\ sz > 0 /\ added < sz /\ AtEof /\ sz' = 0
  /\ rpc' = IF added = 0 THEN "closed" ELSE rpc
  /\ UNCHANGED <<hello, data, sender, pty, dst, helloGot, dataGot, added>>

----------------------------------------------------------------------------
EncInit ==
  /\ hello \in Strings(MaxHello) /\ data \in Strings(MaxData)
  /\ spc = "hello" /\ in = hello /\ nr_written = 0 /\ queued = 0 /\ est = 0
  /\ pty = <<>> /\ rpc = "hello" /\ dst = 0
  /\ helloGot = <<>> /\ dataGot = <<>> /\ sz = 0 /\ added = 0

Sender == WriteAll \/ WriteAllReturns \/ Queue \/ ChannelWrite \/ CloseEnd \/ Killed
Receiver ==
  \/ ReadAll \/ ReadAllReturns \/ ReadAllShort
  \/ ReadBegins \/ ReadChunk \/ ReadFull \/ ReadBlocked \/ ReadEof

(* Both ends are closed.                                                   *)
Over == spc \in {"eof", "killed"} /\ rpc \in {"closed", "failed"} /\ UNCHANGED encvars

EncNext == Sender \/ Receiver \/ Over

EncSpec == EncInit /\ [][EncNext]_encvars

----------------------------------------------------------------------------
(* Properties                                                              *)

(* The pty never sees `~', which begins adb's disconnect sequences:        *)
(* wherever a buffer or a write ends within an escaped pair (adbenc.c,     *)
(* adb_encode).                                                            *)
NeverForbidden == \A i \in 1 .. Len(pty) : pty[i] # adb_forbidden

(* What stub decodes is what shex encoded: pairs split over two reads, two *)
(* iovecs or two writes are put together again (channel_read_adb_hack,     *)
(* channel_write_adb_hack), and the handshake ends where the channel       *)
(* begins.                                                                 *)
BinaryClean == IsPrefixOf(helloGot, hello) /\ IsPrefixOf(dataGot, data)

(* Once stub sees the end of the stream it has everything: a read that     *)
(* delivers half a pair, and so adds nothing to the ring buffer, is not    *)
(* mistaken for end of file (channel_read_adb_hack, poll_channel_2), and   *)
(* no byte stays behind in an encoder or in a short write.  Only a shex    *)
(* that was killed leaves stub without the rest, and even then not without *)
(* the handshake if the channel was opened.                                *)
NothingLost ==
  rpc \in {"closed", "failed"} =>
    \/ helloGot = hello /\ dataGot = data
    \/ spc = "killed" /\ (rpc = "closed" => helloGot = hello)

(* The encoding is transparent, whatever is split where.                   *)
Transparent == NeverForbidden /\ BinaryClean /\ NothingLost

============================================================================

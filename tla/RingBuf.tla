------------------------------ MODULE RingBuf ------------------------------
(***************************************************************************)
(* The ring buffer of ringbuf.c as its users in channel.c and core.c drive *)
(* it: bytes are stored behind nr_added and become visible with            *)
(* ringbuf_note_added; they are read at nr_removed and released with       *)
(* ringbuf_note_removed.  Both counters are a size_t, of Bits bits.        *)
(***************************************************************************)
EXTENDS Integers, Sequences

CONSTANTS
  Byte,       \* the values of a byte
  Bits,       \* the width of size_t
  Requested   \* the capacity asked of ringbuf_new

ASSUME RingBufAssumption ==
  /\ Bits \in Nat \ {0} /\ Requested \in 1 .. 2^(Bits - 1)

(* The powers of two, of which the provers know nothing.                   *)
ASSUME PowersAssumption ==
  2^0 = 1 /\ \A k \in 0 .. Bits - 1 : 2^(k + 1) = 2 * 2^k

VARIABLES mem, nr_added, nr_removed,
          taken  \* the bytes the last operation handed out

rvars == <<mem, nr_added, nr_removed, taken>>

Wrap(n) == n % 2^Bits

(* nextpow2sz; a request that no power of two below 2^Bits covers makes    *)
(* ringbuf_new die.                                                        *)
NextPow2Sz(sz) == CHOOSE c \in {2^k : k \in 0 .. Bits - 1} : sz <= c /\ c < 2 * sz

Capacity == NextPow2Sz(Requested)
Size == Wrap(nr_added - nr_removed)
Room == Wrap(Capacity - Size)
Clip(pos) == pos % Capacity

(* Mutant: the second iovec starts one byte late.                          *)
IoRegionLate(pos, len) ==
  LET idx == Clip(pos)
      len0 == IF idx + len > Capacity THEN Capacity - idx ELSE len
  IN  [i \in 1 .. len |-> IF i <= len0 THEN idx + i - 1 ELSE i - len0]

(* The indices of mem that the two iovecs of ringbuf_io_region cover.      *)
IoRegion(pos, len) ==
  LET idx == Clip(pos)
      len0 == IF idx + len > Capacity THEN Capacity - idx ELSE len
  IN  [i \in 1 .. len |-> IF i <= len0 THEN idx + i - 1 ELSE i - len0 - 1]

(* Storing the bytes s in the first places of region; loading n of them.   *)
Store(region, s) ==
  [k \in DOMAIN mem |->
     IF \E i \in 1 .. Len(s) : region[i] = k
       THEN s[CHOOSE i \in 1 .. Len(s) : region[i] = k] ELSE mem[k]]
Load(region, n) == [i \in 1 .. n |-> mem[region[i]]]

NoteAdded(n) == nr_added' = Wrap(nr_added + n) /\ UNCHANGED nr_removed

(* An empty buffer starts over at index 0.                                 *)
NoteRemoved(n) ==
  IF Wrap(nr_added - Wrap(nr_removed + n)) = 0
    THEN nr_added' = 0 /\ nr_removed' = 0
    ELSE nr_removed' = Wrap(nr_removed + n) /\ UNCHANGED nr_added

----------------------------------------------------------------------------
RingInit ==
  /\ mem \in [0 .. Capacity - 1 -> Byte]
  /\ nr_added = 0 /\ nr_removed = 0 /\ taken = <<>>

(* channel_read_1: readv is offered sz bytes and may deliver fewer.        *)
ReadIn(sz, s) ==
  /\ sz <= Room /\ Len(s) <= sz
  /\ mem' = Store(IoRegion(nr_added, sz), s)
  /\ NoteAdded(Len(s)) /\ taken' = <<>>

(* channel_write: ringbuf_copy_in and ringbuf_note_added of each iovec.    *)
CopyIn(s) == ReadIn(Len(s), s)

(* channel_write_1: writev is offered sz bytes and may accept n of them.   *)
WriteOut(sz, n) ==
  /\ sz <= Size /\ n <= sz
  /\ taken' = Load(IoRegion(nr_removed, sz), n)
  /\ NoteRemoved(n) /\ UNCHANGED mem

(* read_cmdmsg, and ringbuf_readable_iov for a message's payload.          *)
CopyOut(n) == WriteOut(n, n)

(* Bytes dropped unread: the payload for a closed channel, a partial       *)
(* message of a dead peer, what an fd that fails was to be written.        *)
Discard(n) ==
  n <= Size /\ NoteRemoved(n) /\ taken' = <<>> /\ UNCHANGED mem

RingNext ==
  \E sz, n \in 0 .. Capacity :
    \/ \E s \in [1 .. n -> Byte] : ReadIn(sz, s) \/ (sz = n /\ CopyIn(s))
    \/ WriteOut(sz, n)
    \/ sz = n /\ (CopyOut(n) \/ Discard(n))

RingSpec == RingInit /\ [][RingNext]_rvars

----------------------------------------------------------------------------
(* Types.  The counters stay within size_t and Size within the capacity,   *)
(* so ringbuf_room never wraps around.                                     *)
RingTypeOK ==
  /\ mem \in [0 .. Capacity - 1 -> Byte]
  /\ {nr_added, nr_removed} \subseteq 0 .. 2^Bits - 1
  /\ Size <= Capacity

(* The bytes between nr_removed and nr_added, read around the end.         *)
Contents == Load(IoRegion(nr_removed, Size), Size)

Fifo == INSTANCE BoundedFifo WITH queue <- Contents

(* The ring buffer is a bounded FIFO: splitting a region at the end of mem *)
(* (ringbuf_io_region), starting over when empty (ringbuf_note_removed)    *)
(* and the wrap-around of the counters neither reorder, lose nor repeat    *)
(* bytes.                                                                  *)
IsFifo == Fifo!FifoSpec

============================================================================

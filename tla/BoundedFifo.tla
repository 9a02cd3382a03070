---------------------------- MODULE BoundedFifo ----------------------------
(* What ringbuf.h promises its users: a queue of at most Capacity bytes.   *)
(* Bytes leave in the order they entered, or are dropped from the front.   *)
EXTENDS Integers, Sequences

CONSTANTS Byte, Capacity

VARIABLES
  queue,  \* the bytes held, oldest first
  taken   \* what the last operation handed out

fvars == <<queue, taken>>

Put(s) ==
  /\ Len(queue) + Len(s) <= Capacity
  /\ queue' = queue \o s /\ taken' = <<>>

Take(n) ==
  /\ n <= Len(queue)
  /\ queue' = SubSeq(queue, n + 1, Len(queue)) /\ taken' = SubSeq(queue, 1, n)

Drop(n) ==
  /\ n <= Len(queue)
  /\ queue' = SubSeq(queue, n + 1, Len(queue)) /\ taken' = <<>>

FifoInit == queue = <<>> /\ taken = <<>>

FifoNext ==
  \E n \in 0 .. Capacity :
    \/ \E s \in [1 .. n -> Byte] : Put(s)
    \/ Take(n)
    \/ Drop(n)

FifoSpec == FifoInit /\ [][FifoNext]_fvars

============================================================================

----------------------------- MODULE MCStreams -----------------------------
(* MCSession with behaviours of two kinds.  The kind is chosen at the      *)
(* start and restricts what the environment does, so that what one kind is *)
(* for does not multiply the states of the other.                          *)
EXTENDS MCSession

VARIABLE second  \* a behaviour of the second kind

(* Bound on the bytes of a stream where the connection may be lost.        *)
FewBytes == 2

(* Streams both ways and shex killed, or a terminal that is resized while  *)
(* nothing is typed.                                                       *)
MCStreamsSpec ==
  /\ second \in BOOLEAN /\ SInit
  /\ [][/\ MCNext /\ UNCHANGED second
        /\ IF second THEN pc'["shex"] # "killed" /\ \A s \in ChildStdin : rd'[s] = 0
                     ELSE UNCHANGED winsize]_<<second, allvars>>
  /\ ProcessFairness /\ OutputFairness /\ StdinFairness

(* Temporary errors and a write counter at its limit, or less output and a *)
(* connection that is lost or a shex that is killed.                       *)
MCFlowSpec ==
  /\ second \in BOOLEAN /\ SInit
  /\ [][/\ MCNext /\ UNCHANGED second
        /\ IF second THEN \A s \in Streams : rd'[s] <= FewBytes
                     ELSE ~cut' /\ pc'["shex"] # "killed"]_<<second, allvars>>

============================================================================

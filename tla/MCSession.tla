----------------------------- MODULE MCSession -----------------------------
(* Session.tla for TLC.  A handler of io_loop_pump reads and writes only   *)
(* its own process's memory (and the sink fd of a direct write), so it     *)
(* commutes with every step of the other process and of the environment.   *)
(* MCNext therefore lets a process that is in io_loop_pump finish it       *)
(* before anything else happens.                                           *)
EXTENDS Session

CONSTANT Faults  \* which of "cut", "kill", "either" (one of them) and "retry" may happen

(* Channel 2 is the child's stdin, channel 3 (and 4) its output.           *)
MCSource == [s \in Streams |-> IF s = 2 THEN "shex" ELSE "stub"]
MCOutputOnly == [s \in Streams |-> "stub"]
MCSzControl == [p \in Peers |-> IF p = "stub" THEN 1 ELSE 3]

InPump == {p \in Peers : Pumping(p)}
MCPump(p) == Pump(p) \/ (IF p = "shex" THEN RecvChildExit ELSE RecvWindowSize)

(* Both processes have exited; only the child may be left.                 *)
Over == (\A p \in Peers : ~Running(p)) /\ UNCHANGED allvars

MCNext ==
  \/ "shex" \in InPump /\ MCPump("shex")
  \/ InPump = {"stub"} /\ MCPump("stub")
  \/ InPump = {} /\ \/ \E p \in Peers : Process(p)
                    \/ Over \/ ChildExits \/ Resize
                    \/ "retry" \in Faults /\ \E p \in Peers : Retry(p)
                    \/ "cut" \in Faults /\ Lose
                    \/ "kill" \in Faults /\ ShexKilled
                    \/ "either" \in Faults /\ Running("shex") /\ ~cut /\ (Lose \/ ShexKilled)

MCSpec == SInit /\ [][MCNext]_allvars
(* A running child need not read its standard input.                       *)
MCUnreadStdinSpec == MCSpec /\ ProcessFairness /\ OutputFairness /\ StdinEndFairness
============================================================================

---------------------------- MODULE MCJdwpProxy ----------------------------
(* JdwpProxy for TLC: an array class of the system's loader and two        *)
(* classes with a loader of their own, one of them loaded later.           *)
EXTENDS JdwpProxy

MCName == [ints |-> [base |-> "int", dims |-> 1], main |-> [base |-> "main", dims |-> 0],
           late |-> [base |-> "late", dims |-> 0]]
MCSig == [ints |-> [dims |-> 1, code |-> <<"I">>], main |-> [dims |-> 0, code |-> <<"L", "main">>],
          late |-> [dims |-> 0, code |-> <<"L", "late">>]]
MCLoader == [ints |-> 0, main |-> 1, late |-> 1]

============================================================================

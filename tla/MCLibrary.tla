----------------------------- MODULE MCLibrary ------------------------------
(* The parts that run by themselves in one process, for TLC: RingBuf,      *)
(* AdbEnc, JdwpWire and Reslist.  They share no state, so a behaviour is   *)
(* one of one of them, while the others keep a first state.                *)
EXTENDS RingBuf, AdbEnc, JdwpWire, Reslist

VARIABLE component

MCIdSizes ==
  [fieldID |-> 4, methodID |-> 4, objectID |-> 8, referenceTypeID |-> 2, frameID |-> 8]

RingIdle == mem = [k \in 0 .. Capacity - 1 |-> 0] /\ RingInit
EncIdle == hello = <<>> /\ data = <<>> /\ EncInit
WireIdle == read = <<>> /\ InitRefresh /\ payload[1].v = 0

MCInit ==
  /\ component \in {"ringbuf", "adbenc", "jdwp", "reslist"}
  /\ IF component = "jdwp" THEN WireInit ELSE WireIdle
  /\ IF component = "adbenc" THEN EncInit ELSE EncIdle
  /\ IF component = "ringbuf" THEN RingInit ELSE RingIdle
  /\ ResInit

MCNext ==
  /\ UNCHANGED component
  /\ \/ component = "ringbuf" /\ RingNext /\ UNCHANGED <<encvars, wvars, resvars>>
     \/ component = "adbenc" /\ EncNext /\ UNCHANGED <<rvars, wvars, resvars>>
     \/ component = "jdwp" /\ WireNext /\ UNCHANGED <<rvars, encvars, resvars>>
     \/ component = "reslist" /\ ResNext /\ UNCHANGED <<rvars, encvars, wvars>>

MCSpec == MCInit /\ [][MCNext]_<<component, rvars, encvars, wvars, resvars>>
============================================================================

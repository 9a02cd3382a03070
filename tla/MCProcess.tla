----------------------------- MODULE MCProcess ------------------------------
(* The processes around a session, for TLC: what a process keeps about its *)
(* terminal, its children and its timers (TtySave, Child, Timeout), and    *)
(* the daemons and their clients (Daemon).  The four share no state, so a  *)
(* behaviour is one of one of them, while the others keep a first state.   *)
EXTENDS TtySave, Child, Timeout, Daemon

VARIABLE component

(* One client of a daemon was built from another version.                  *)
MCVer == [h \in Procs |-> IF h = "c2" THEN "v2" ELSE "v1"]

TtyIdle == split = FALSE /\ on = [c \in Channels |-> Nil] /\ TtyInit

MCInit ==
  /\ component \in {"tty", "child", "timeout", "daemon"}
  /\ IF component = "tty" THEN TtyInit ELSE TtyIdle
  /\ ChildInit /\ TimeInit /\ Init

(* A program that has nothing left to do may end; a launch may not hang:   *)
(* Daemon says itself when everything is over.                             *)
Finished == component # "daemon" /\ UNCHANGED <<ttyvars, childvars, timevars, dvars>>

MCNext ==
  /\ UNCHANGED component
  /\ \/ component = "tty" /\ TtyNext /\ UNCHANGED <<childvars, timevars, dvars>>
     \/ component = "child" /\ ChildNext /\ UNCHANGED <<ttyvars, timevars, dvars>>
     \/ component = "timeout" /\ TimeNext /\ UNCHANGED <<ttyvars, childvars, dvars>>
     \/ component = "daemon" /\ Next /\ UNCHANGED <<ttyvars, childvars, timevars>>
     \/ Finished

MCSpec ==
  /\ MCInit /\ [][MCNext]_<<component, ttyvars, childvars, timevars, dvars>>
  /\ \A k \in Kids :
       WF_childvars(component = "child" /\ where # "ended" /\ KidStep(k))
  /\ WF_childvars(component = "child" /\ Returns)
  /\ WF_childvars(component = "child" /\ Sigio)
  /\ WF_childvars(component = "child" /\ Sigchld)
  /\ WF_timevars(component = "timeout" /\ Expires)
  /\ WF_timevars(component = "timeout" /\ Alarm)
  /\ WF_timevars(component = "timeout" /\ Unwinds)
============================================================================

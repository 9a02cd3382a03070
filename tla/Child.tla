-------------------------------- MODULE Child -------------------------------
(***************************************************************************)
(* Child processes and what they print (child.c, fdrecorder.c, the SIGIO   *)
(* and SIGCHLD parts of util.c): the parent starts children, records what  *)
(* they write to a pipe, waits for them, kills them and cleans up, with    *)
(* signals that are let in only in system calls that say so and in         *)
(* sigsuspend.  Process ids are used again by others once a child has been *)
(* waited for.                                                             *)
(***************************************************************************)
EXTENDS Naturals, Sequences, SequencesExt

CONSTANTS
  Kids,       \* children the parent may start
  Recorders,  \* those of them whose output is recorded
  Pids,       \* process ids
  PipeCap,    \* capacity of a pipe
  MaxOutput   \* bound: what a child writes

ASSUME ChildAssumption == Recorders \subseteq Kids /\ MaxOutput \in Nat

VARIABLES
  kid,       \* kid[k]: [pid, state (none, runs, zombie, gone), dead, signalled, wrote]
  pids,      \* pids[p]: free, ours or other
  pipe,      \* pipe[k]: what is in the pipe of k's recorder
  reader,    \* reader[k]: the parent has the pipe's reading end
  noted,     \* noted[k]: what the recorder holds
  taken,     \* taken[k]: what fdrecorder_get_clean has returned so far
  pending,   \* pending signals
  todo,      \* the children with a cleanup, newest first
  where,     \* the parent: main, wait, reaped, suspend, cleanup, ended
  target,    \* the child it waits for
  back,      \* where child_wait returns to
  stranger   \* history: somebody else's process was sent a signal

childvars == <<kid, pids, pipe, reader, noted, taken, pending, todo, where, target, back, stranger>>

NoKid == [pid |-> 0, state |-> "none", dead |-> FALSE, signalled |-> FALSE, wrote |-> 0]

ChildInit ==
  /\ kid = [k \in Kids |-> NoKid]
  /\ pids = [p \in Pids |-> "free"]
  /\ pipe = [k \in Kids |-> <<>>]
  /\ reader = [k \in Kids |-> FALSE]
  /\ noted = [k \in Kids |-> <<>>]
  /\ taken = [k \in Kids |-> <<>>]
  /\ pending = {}
  /\ todo = <<>>
  /\ where = "main"
  /\ target = CHOOSE k \in Kids : TRUE
  /\ back = "main"
  /\ stranger = FALSE

Recording == <<pipe, reader, noted, taken>>

----------------------------------------------------------------------------
(* Children and other processes.                                           *)

(* One unit to the pipe, if there is room.  Units are numbered.            *)
Writes(k) ==
  /\ kid[k].state = "runs" /\ kid[k].wrote < MaxOutput
  /\ reader[k] => Len(pipe[k]) < PipeCap
  /\ kid' = [kid EXCEPT ![k].wrote = @ + 1]
  /\ pipe' = [pipe EXCEPT ![k] = IF reader[k] THEN Append(@, kid[k].wrote + 1) ELSE @]
  /\ pending' = pending \cup {"io"}
  /\ UNCHANGED <<pids, reader, noted, taken, todo, where, target, back, stranger>>

(* It exits when it has written all, or upon a signal.  Its end of the     *)
(* pipe is closed.                                                         *)
Exits(k) ==
  /\ kid[k].state = "runs"
  /\ kid[k].wrote = MaxOutput \/ kid[k].signalled
  /\ kid' = [kid EXCEPT ![k].state = "zombie"]
  /\ pending' = pending \cup {"io", "chld"}
  /\ UNCHANGED <<pids, pipe, reader, noted, taken, todo, where, target, back, stranger>>

(* Somebody else's process gets a process id that is free.                 *)
Reused(p) ==
  /\ pids[p] = "free"
  /\ pids' = [pids EXCEPT ![p] = "other"]
  /\ UNCHANGED <<kid, Recording, pending, todo, where, target, back, stranger>>

Quits ==
  /\ pending' = pending \cup {"quit"}
  /\ UNCHANGED <<kid, pids, Recording, todo, where, target, back, stranger>>

----------------------------------------------------------------------------
(* The parent.                                                             *)

(* child_start, with all signals blocked until the cleanup is committed:   *)
(* fdrecorder_new, fork, and the cleanup at the head of the list, before   *)
(* that of the recorder.                                                   *)
child_start(k) ==
  /\ where = "main" /\ kid[k].state = "none"
  /\ \E p \in Pids :
       /\ pids[p] = "free"
       /\ kid' = [kid EXCEPT ![k] = [NoKid EXCEPT !.pid = p, !.state = "runs",
                                             !.wrote = IF k \in Recorders THEN 0 ELSE MaxOutput]]
       /\ pids' = [pids EXCEPT ![p] = "ours"]
  /\ reader' = [reader EXCEPT ![k] = k \in Recorders]
  /\ todo' = <<k>> \o todo
  /\ UNCHANGED <<pipe, noted, taken, pending, where, target, back, stranger>>

(* fdrecorder_poll: read until nothing is left; close at the end of file.  *)
fdrecorder_poll(ks) ==
  /\ noted' = [k \in Kids |-> IF k \in ks /\ reader[k] THEN noted[k] \o pipe[k] ELSE noted[k]]
  /\ pipe' = [k \in Kids |-> IF k \in ks /\ reader[k] THEN <<>> ELSE pipe[k]]
  /\ reader' = [k \in Kids |-> reader[k] /\ ~(k \in ks /\ kid[k].state \in {"zombie", "gone"})]

(* Mutant: the recorder keeps a copy of what it hands over.                *)
GetCleanKeeps(k) ==
  /\ where = "main" /\ kid[k].state # "none"
  /\ LET all == noted[k] \o (IF reader[k] THEN pipe[k] ELSE <<>>)
     IN  /\ taken' = [taken EXCEPT ![k] = @ \o all]
         /\ noted' = [noted EXCEPT ![k] = all]
  /\ pipe' = [pipe EXCEPT ![k] = IF reader[k] THEN <<>> ELSE @]
  /\ reader' = [reader EXCEPT ![k] = @ /\ kid[k].state = "runs"]
  /\ UNCHANGED <<kid, pids, pending, todo, where, target, back, stranger>>

(* child_error_converter: poll, hand the buffer over, start a new one.     *)
fdrecorder_get_clean(k) ==
  /\ where = "main" /\ kid[k].state # "none"
  /\ LET all == noted[k] \o (IF reader[k] THEN pipe[k] ELSE <<>>)
     IN  all # <<>> /\ taken' = [taken EXCEPT ![k] = @ \o all]
  /\ noted' = [noted EXCEPT ![k] = <<>>]
  /\ pipe' = [pipe EXCEPT ![k] = IF reader[k] THEN <<>> ELSE @]
  /\ reader' = [reader EXCEPT ![k] = @ /\ kid[k].state = "runs"]
  /\ UNCHANGED <<kid, pids, pending, todo, where, target, back, stranger>>

(* kill(2) for each of ks that is not known to be dead.                    *)
Kill(ks) ==
  /\ kid' = [k \in Kids |-> IF k \in ks /\ ~kid[k].dead /\ kid[k].state = "runs"
                            THEN [kid[k] EXCEPT !.signalled = TRUE] ELSE kid[k]]
  /\ stranger' = (stranger \/ \E k \in ks : ~kid[k].dead /\ kid[k].state = "gone"
                                            /\ pids[kid[k].pid] = "other")

child_kill(k) ==
  /\ where = "main" /\ kid[k].state \in {"runs", "zombie", "gone"} /\ ~kid[k].signalled
  /\ Kill({k})
  /\ UNCHANGED <<pids, Recording, pending, todo, where, target, back>>

child_wait(k) ==
  /\ where = "main" /\ kid[k].state # "none" /\ ~kid[k].dead
  /\ where' = "wait" /\ target' = k /\ back' = "main"
  /\ UNCHANGED <<kid, pids, Recording, pending, todo, stranger>>

(* waitpid with WNOHANG, in child_wait and child_poll_death: the process   *)
(* id is free as soon as it returns.                                       *)
Waitpid ==
  /\ where = "wait"
  /\ IF kid[target].state = "zombie"
     THEN /\ kid' = [kid EXCEPT ![target].state = "gone"]
          /\ pids' = [pids EXCEPT ![kid[target].pid] = "free"]
          /\ where' = "reaped"
     ELSE where' = "suspend" /\ UNCHANGED <<kid, pids>>
  /\ UNCHANGED <<Recording, pending, todo, target, back, stranger>>

MarkDead ==
  /\ where = "reaped"
  /\ kid' = [kid EXCEPT ![target].dead = TRUE]
  /\ where' = back
  /\ UNCHANGED <<pids, Recording, pending, todo, target, back, stranger>>

child_poll_death(k) ==
  /\ where = "main" /\ kid[k].state = "zombie" /\ ~kid[k].dead
  /\ kid' = [kid EXCEPT ![k].state = "gone"]
  /\ pids' = [pids EXCEPT ![kid[k].pid] = "free"]
  /\ where' = "reaped" /\ target' = k /\ back' = "main"
  /\ UNCHANGED <<Recording, pending, todo, stranger>>

(* Mutant: signals are let in during waitpid.                              *)
LetInWaitpid ==
  CASE where \in {"main", "reaped"} -> {"io", "quit"}
    [] where = "suspend" -> {"io", "quit", "chld"}
    [] OTHER -> {}

(* signals_unblock_for_io, and the mask of sigsuspend.                     *)
LetIn ==
  CASE where = "main" -> {"io", "quit"}
    [] where = "suspend" -> {"io", "quit", "chld"}
    [] OTHER -> {}

(* sigsuspend returns after a handler, and child_wait goes round.          *)
Resumed == IF where = "suspend" THEN "wait" ELSE where

(* Mutant: the recorders are left alone until somebody asks.               *)
SigioIgnored ==
  /\ "io" \in pending \cap LetIn
  /\ UNCHANGED Recording
  /\ pending' = pending \ {"io"}
  /\ where' = Resumed
  /\ UNCHANGED <<kid, pids, todo, target, back, stranger>>

(* sigio_sigaction *)
Sigio ==
  /\ "io" \in pending \cap LetIn
  /\ fdrecorder_poll(ToSet(todo))
  /\ pending' = pending \ {"io"}
  /\ where' = Resumed
  /\ UNCHANGED <<kid, pids, taken, todo, target, back, stranger>>

(* handle_sigchld does nothing.                                            *)
Sigchld ==
  /\ "chld" \in pending \cap LetIn
  /\ pending' = pending \ {"chld"}
  /\ where' = Resumed
  /\ UNCHANGED <<kid, pids, Recording, todo, target, back, stranger>>

(* handle_quit_signal: every child_cleanup that has not begun, without     *)
(* waiting.                                                                *)
HandleQuit ==
  /\ "quit" \in pending \cap LetIn
  /\ Kill(ToSet(todo))
  /\ todo' = <<>>
  /\ where' = "ended"
  /\ UNCHANGED <<pids, Recording, pending, target, back>>

(* The parent returns or dies: cleanups.                                   *)
Ends ==
  /\ where = "main"
  /\ where' = "cleanup"
  /\ UNCHANGED <<kid, pids, Recording, pending, todo, target, back, stranger>>

(* child_cleanup: a signal and child_wait, while the recorder still works. *)
child_cleanup ==
  /\ where = "cleanup"
  /\ IF todo = <<>> THEN where' = "ended" /\ UNCHANGED <<kid, todo, target, back, stranger>>
     ELSE /\ Kill({Head(todo)})
          /\ todo' = Tail(todo)
          /\ IF kid[Head(todo)].dead THEN UNCHANGED <<where, target, back>>
             ELSE where' = "wait" /\ target' = Head(todo) /\ back' = "cleanup"
  /\ UNCHANGED <<pids, Recording, pending>>

KidStep(k) == Writes(k) \/ Exits(k)
Calls(k) ==
  \/ child_start(k) \/ child_wait(k) \/ child_kill(k) \/ child_poll_death(k)
  \/ fdrecorder_get_clean(k)
Returns == Waitpid \/ MarkDead \/ child_cleanup
Handlers == Sigio \/ Sigchld \/ HandleQuit

(* What happens after the parent's end is no concern of its.               *)
ChildNext ==
  /\ where # "ended"
  /\ \/ \E k \in Kids : KidStep(k) \/ Calls(k)
     \/ \E p \in Pids : Reused(p)
     \/ Quits \/ Returns \/ Handlers \/ Ends

(* Children run, and so does the parent: system calls return, and signals  *)
(* that are let in are delivered.  What the program calls, and that it     *)
(* ends, is up to the program.                                             *)
ChildFairness ==
  /\ \A k \in Kids : WF_childvars(where # "ended" /\ KidStep(k))
  /\ WF_childvars(Returns) /\ WF_childvars(Sigio) /\ WF_childvars(Sigchld)

ChildSpec == ChildInit /\ [][ChildNext]_childvars /\ ChildFairness

----------------------------------------------------------------------------
(* No process of somebody else's is ever sent a signal, although process   *)
(* ids are used again: child_wait says why signals must not be let in      *)
(* around waitpid.                                                         *)
NoStranger == ~stranger

(* What a child has written is recorded once and in order, whether a       *)
(* signal or a call came first (fdrecorder_poll, fdrecorder_get_clean).    *)
Recorded ==
  \A k \in Kids :
    kid[k].state # "none" /\ k \in Recorders =>
      IsPrefix(taken[k] \o noted[k] \o pipe[k], [i \in 1..MaxOutput |-> i]) /\
      (where # "ended" /\ k \in ToSet(todo) =>
         Len(taken[k] \o noted[k] \o pipe[k]) = kid[k].wrote)

(* child_wait ends once the child has ended by itself or by the signal     *)
(* that child_cleanup sent: no SIGCHLD is lost between waitpid and         *)
(* sigsuspend, and a child that prints more than a pipe holds is not left  *)
(* waiting for the parent that waits for it.                               *)
WaitsEnd == where \in {"wait", "reaped", "suspend"} ~> where \in {"main", "cleanup", "ended"}

=============================================================================

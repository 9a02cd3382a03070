------------------------------- MODULE Reslist ------------------------------
(***************************************************************************)
(* Resource lists and errors (util.c): SCOPED_RESLIST, WITH_CURRENT_       *)
(* RESLIST, heap lists, cleanups, catch_error, die, deferred_die and the   *)
(* quit signals, under a program that makes any of these calls in any      *)
(* order that the C scopes allow.                                          *)
(*                                                                         *)
(* A list is the sequence of what it owns, newest first.  The C stack is   *)
(* explicit: besides the scopes of the program's own code it holds the     *)
(* calls of empty_reslist and of cleanup functions, so that a quit signal  *)
(* can arrive in the middle of a cleanup, and a cleanup can use lists and  *)
(* catch errors itself.                                                    *)
(***************************************************************************)
EXTENDS Naturals, Sequences, SequencesExt, FiniteSets

CONSTANTS
  Top,        \* reslist_top
  Lists,      \* the other lists
  Cleanups,
  MaxFrames   \* bound: depth of the C stack

VARIABLES
  items,      \* items[l]: the cleanups and lists that list l owns
  kind,       \* kind[l]: unused, stack, heap, popped (stack), freed (heap)
  parent,     \* parent[l]: struct reslist's parent
  res,        \* res[c]: unused, allocated, held (committed), forgotten, released
  frames,     \* the C stack
  current,    \* _reslist_current
  errh,       \* current_errh: the index of a catch_error in frames, or 0
  ended,      \* how the process ended, or "no"
  quitting,   \* signal_quit_in_progress
  late        \* history: cleanups committed by cleanup functions

resvars == <<items, kind, parent, res, frames, current, errh, ended, quitting, late>>

All == Lists \cup {Top}
Frame(k, l, s) ==
  [kind |-> k, list |-> l, saved |-> s, errh |-> errh, deferred |-> FALSE, before |-> {}]

Held == {c \in Cleanups : res[c] = "held"}

(* main: reslist_top is set up, and main1 runs within catch_error.         *)
ResInit ==
  LET main == CHOOSE l \in Lists : TRUE
  IN  /\ items = [l \in All |-> IF l = Top THEN <<main>> ELSE <<>>]
      /\ kind = [l \in All |-> IF l \in {Top, main} THEN "stack" ELSE "unused"]
      /\ parent = [l \in All |-> Top]
      /\ res = [c \in Cleanups |-> "unused"]
      /\ frames = <<[kind |-> "catch", list |-> main, saved |-> Top, errh |-> 0,
                     deferred |-> FALSE, before |-> {}]>>
      /\ current = main
      /\ errh = 1
      /\ ended = "no"
      /\ quitting = FALSE
      /\ late = {}

----------------------------------------------------------------------------
(* Lists                                                                   *)

Live(l) == kind[l] \in {"stack", "heap"}
LastFrame == frames[Len(frames)]

(* The program's own code runs, or that of a cleanup function.             *)
InCode == ended = "no" /\ frames # <<>> /\ LastFrame.kind \in {"scope", "guard", "catch", "fn"}

InCleanup == \E i \in DOMAIN frames : frames[i].kind = "fn"

(* Cleanup functions use scopes, catch errors, acquire and destroy, but    *)
(* leave the rest to the program.                                          *)
InProgram == InCode /\ ~InCleanup

(* reslist_remove, wherever r is.                                          *)
Without(it, r) == [l \in All |-> SelectSeq(it[l], LAMBDA x : x # r)]

(* reslist_insert_head; a list that was freed is written to all the same.  *)
Insert(it, l, r) ==
  IF kind[l] = "freed" THEN ended' = "corrupt" /\ UNCHANGED items
  ELSE ended' = ended /\ items' = [it EXCEPT ![l] = <<r>> \o @]

Fresh == {l \in Lists : kind[l] = "unused"}
NewList == CHOOSE l \in Fresh : TRUE

(* reslist_init with a parent.                                             *)
NewIn(l, k) ==
  /\ Fresh # {}
  /\ kind' = [kind EXCEPT ![NewList] = k]
  /\ parent' = [parent EXCEPT ![NewList] = l]
  /\ Insert(items, l, NewList)

reslist_create ==
  /\ InProgram
  /\ NewIn(current, "heap")
  /\ UNCHANGED <<res, frames, current, errh, quitting, late>>

reslist_scoped_push ==
  /\ InCode /\ Len(frames) < MaxFrames
  /\ NewIn(current, "stack")
  /\ frames' = Append(frames, Frame("scope", NewList, current))
  /\ current' = NewList
  /\ UNCHANGED <<res, errh, quitting, late>>

(* Call empty_reslist(l); then says what its caller does next.             *)
Emptying(fs, l, then) == Append(fs, Frame(then, l, Top))

reslist_scoped_pop ==
  /\ InCode /\ LastFrame.kind = "scope"
  /\ current' = parent[LastFrame.list]
  /\ frames' = Emptying(Front(frames), LastFrame.list, "destroy")
  /\ errh' = 0
  /\ UNCHANGED <<items, kind, parent, res, ended, quitting, late>>

(* The lists code may name: the heap's, and the parent of its scope.       *)
Named == {l \in Lists : kind[l] = "heap"} \cup
         (IF LastFrame.kind \in {"scope", "catch"} THEN {parent[LastFrame.list]} ELSE {})

reslist_guard_push(l) ==
  /\ InProgram /\ Len(frames) < MaxFrames
  /\ l \in Named \ {current}
  /\ frames' = Append(frames, Frame("guard", l, current))
  /\ current' = l
  /\ UNCHANGED <<items, kind, parent, res, errh, ended, quitting, late>>

reslist_guard_pop ==
  /\ InCode /\ LastFrame.kind = "guard"
  /\ frames' = Front(frames)
  /\ current' = LastFrame.saved
  /\ UNCHANGED <<items, kind, parent, res, errh, ended, quitting, late>>

(* What l owns, directly or not.                                           *)
Owned(l) ==
  LET under[n \in 0..Cardinality(Lists)] ==
        IF n = 0 THEN {l}
        ELSE under[n - 1] \cup {m \in Lists : \E k \in under[n - 1] : m \in ToSet(items[k])}
  IN  under[Cardinality(Lists)]

OwnedCleanups(l) == UNION {ToSet(items[m]) : m \in Owned(l)} \cap Cleanups

(* Code does not move or destroy a list that it is using.                  *)
InUse(l) ==
  \E m \in Owned(l) : m = current \/ \E i \in DOMAIN frames : m \in {frames[i].list, frames[i].saved}

reslist_destroy(l) ==
  /\ InCode /\ Len(frames) < MaxFrames
  /\ kind[l] = "heap" /\ ~InUse(l)
  /\ frames' = Emptying(frames, l, "destroy")
  /\ errh' = 0
  /\ UNCHANGED <<items, kind, parent, res, current, ended, quitting, late>>

(* Mutant: the donor keeps what it owned.                                  *)
XferKeeps(it, recipient, donor) == [it EXCEPT ![recipient] = it[donor] \o @]

Spliced(it, recipient, donor) == [it EXCEPT ![recipient] = it[donor] \o @, ![donor] = <<>>]

(* reslist_xfer(rl->parent, donor), the donor being rl or a list it owns.  *)
reslist_xfer(donor) ==
  /\ InProgram /\ LastFrame.kind = "scope"
  /\ donor = LastFrame.list \/ kind[donor] = "heap"
  /\ donor \in Owned(LastFrame.list)
  /\ items[donor] # <<>>
  /\ items' = Spliced(items, parent[LastFrame.list], donor)
  /\ UNCHANGED <<kind, parent, res, frames, current, errh, ended, quitting, late>>

reslist_reparent(l) ==
  /\ InProgram
  /\ kind[l] = "heap" /\ ~InUse(l)
  /\ Insert(Without(items, l), current, l)
  /\ frames' = [i \in DOMAIN frames |-> [frames[i] EXCEPT !.before = @ \ OwnedCleanups(l)]]
  /\ UNCHANGED <<kind, parent, res, current, errh, quitting, late>>

----------------------------------------------------------------------------
(* Cleanups                                                                *)

cleanup_allocate ==
  /\ InCode
  /\ \E c \in Cleanups : res[c] = "unused"
  /\ LET c == CHOOSE c \in Cleanups : res[c] = "unused"
     IN  /\ res' = [res EXCEPT ![c] = "allocated"]
         /\ Insert(items, current, c)
  /\ UNCHANGED <<kind, parent, frames, current, errh, quitting, late>>

cleanup_commit(c) ==
  /\ InCode /\ res[c] = "allocated"
  /\ res' = [res EXCEPT ![c] = "held"]
  /\ Insert(Without(items, c), current, c)
  /\ late' = IF InCleanup THEN late \cup {c} ELSE late
  /\ UNCHANGED <<kind, parent, frames, current, errh, quitting>>

cleanup_forget(c) ==
  /\ InProgram /\ res[c] \in {"allocated", "held"}
  /\ res' = [res EXCEPT ![c] = "forgotten"]
  /\ items' = Without(items, c)
  /\ UNCHANGED <<kind, parent, frames, current, errh, ended, quitting, late>>

(* One round of the loop of empty_reslist: reslist_destroy of a list, or   *)
(* cleanup_destroy, which removes the cleanup before it calls fn.          *)
EmptyOne ==
  LET l == LastFrame.list
      r == Head(items[l])
  IN  /\ items[l] # <<>>
      /\ IF r \in Cleanups
         THEN /\ items' = Without(items, r)
              /\ frames' = IF res[r] = "held" THEN Append(frames, Frame("fn", r, current)) ELSE frames
              /\ res' = [res EXCEPT ![r] = IF @ = "held" THEN "released" ELSE "forgotten"]
         ELSE frames' = Emptying(frames, r, "destroy") /\ UNCHANGED <<res, items>>
      /\ UNCHANGED <<kind, current, ended>>

(* The rest of reslist_destroy.                                            *)
Destroyed(l) == [kind EXCEPT ![l] = IF @ = "heap" THEN "freed" ELSE "popped"]

(* empty_reslist returns, and its caller goes on: reslist_destroy; die,    *)
(* which jumps to catch_error and leaves it; main; handle_quit_signal.     *)
EmptyDone ==
  LET f == LastFrame
      catch == frames[f.errh]
  IN  /\ items[f.list] = <<>>
      /\ CASE f.kind = "destroy" ->
                /\ items' = Without(items, f.list)
                /\ kind' = Destroyed(f.list)
                /\ frames' = Front(frames)
                /\ UNCHANGED <<current, ended>>
           [] f.kind = "die" ->
                /\ frames' = SubSeq(frames, 1, f.errh - 1)
                /\ current' = parent[catch.list]
                /\ items' = Without(items, catch.list)
                /\ kind' = Destroyed(catch.list)
                /\ UNCHANGED ended
           [] f.kind \in {"quit", "exit"} ->
                /\ ended' = f.kind
                /\ UNCHANGED <<items, kind, frames, current>>
      /\ UNCHANGED res

(* After the jump the handler is the one catch_error had found.            *)
ErrhAfter == IF LastFrame.kind = "die" THEN frames[LastFrame.errh].errh ELSE LastFrame.errh

Emptied ==
  /\ ended = "no" /\ frames # <<>> /\ LastFrame.kind \in {"destroy", "die", "quit", "exit"}
  /\ IF items[LastFrame.list] # <<>> THEN EmptyOne /\ errh' = 0
     ELSE EmptyDone /\ errh' = ErrhAfter
  /\ UNCHANGED <<parent, quitting, late>>

(* A cleanup function returns.                                             *)
CleanupReturns ==
  /\ InCode /\ LastFrame.kind = "fn"
  /\ frames' = Front(frames)
  /\ UNCHANGED <<items, kind, parent, res, current, errh, ended, quitting, late>>

----------------------------------------------------------------------------
(* Errors                                                                  *)

catch_error ==
  /\ InCode /\ Len(frames) < MaxFrames
  /\ NewIn(current, "stack")
  /\ frames' = Append(frames, [Frame("catch", NewList, current) EXCEPT !.before = Held])
  /\ current' = NewList
  /\ errh' = Len(frames) + 1
  /\ UNCHANGED <<res, quitting, late>>

(* Mutant: all that the caller of catch_error had is released, too.        *)
DieEmptiesParent ==
  /\ frames' = Emptying(SubSeq(frames, 1, errh), parent[frames[errh].list], "die")
  /\ errh' = 0
  /\ UNCHANGED <<ended, items, current>>

(* diev: the list of the innermost catch_error is emptied.  The calls made *)
(* since never go on.                                                      *)
Unwind ==
  /\ frames' = Emptying(SubSeq(frames, 1, errh), frames[errh].list, "die")
  /\ errh' = 0
  /\ UNCHANGED <<ended, items, current>>

(* fn returns to catch_error.  A deferred error is an error after all;     *)
(* otherwise the caller gets what fn acquired.                             *)
CatchReturns ==
  /\ InCode /\ LastFrame.kind = "catch"
  /\ IF LastFrame.deferred
     THEN Unwind
     ELSE /\ items' = Spliced(items, parent[LastFrame.list], LastFrame.list)
          /\ frames' = Append(Front(frames), [Frame("destroy", LastFrame.list, Top)
                                                EXCEPT !.errh = LastFrame.errh])
          /\ errh' = 0
          /\ current' = parent[LastFrame.list]
          /\ UNCHANGED ended
  /\ UNCHANGED <<kind, parent, res, quitting, late>>

die ==
  /\ InCode
  /\ IF errh = 0 THEN ended' = "abort" /\ UNCHANGED <<frames, errh, items, current>> ELSE Unwind
  /\ UNCHANGED <<kind, parent, res, quitting, late>>

deferred_die ==
  /\ InCode
  /\ IF errh = 0 THEN ended' = "abort" /\ UNCHANGED frames
     ELSE frames' = [frames EXCEPT ![errh].deferred = TRUE] /\ UNCHANGED ended
  /\ UNCHANGED <<items, kind, parent, res, current, errh, quitting, late>>

(* main goes on after catch_error.                                         *)
MainReturns ==
  /\ ended = "no" /\ frames = <<>>
  /\ frames' = Emptying(frames, Top, "exit")
  /\ errh' = 0
  /\ UNCHANGED <<items, kind, parent, res, current, ended, quitting, late>>

(* Mutant: a quit signal releases what the current scope holds.            *)
QuitEmptiesCurrent ==
  /\ InCode /\ ~quitting
  /\ quitting' = TRUE
  /\ frames' = Emptying(<<>>, current, "quit")
  /\ errh' = 0
  /\ UNCHANGED <<items, kind, parent, res, current, ended, late>>

(* handle_quit_signal, in a system call of whatever code runs; no signals  *)
(* are let in after it, and nothing that it interrupted goes on.           *)
Quit ==
  /\ InCode /\ ~quitting
  /\ quitting' = TRUE
  /\ frames' = Emptying(<<>>, Top, "quit")
  /\ errh' = 0
  /\ UNCHANGED <<items, kind, parent, res, current, ended, late>>

ResNext ==
  \/ reslist_create \/ reslist_scoped_push \/ reslist_scoped_pop
  \/ \E l \in All : reslist_guard_push(l)
  \/ reslist_guard_pop
  \/ \E l \in Lists : reslist_destroy(l) \/ reslist_xfer(l) \/ reslist_reparent(l)
  \/ cleanup_allocate
  \/ \E c \in Cleanups : cleanup_commit(c) \/ cleanup_forget(c)
  \/ Emptied \/ CleanupReturns
  \/ catch_error \/ CatchReturns \/ die \/ deferred_die
  \/ MainReturns \/ Quit

ResSpec == ResInit /\ [][ResNext]_resvars

----------------------------------------------------------------------------
(* How often r is on a list.                                               *)
Places(r) == Cardinality({p \in All \X (1..Cardinality(Cleanups \cup Lists)) :
                            p[2] \in DOMAIN items[p[1]] /\ items[p[1]][p[2]] = r})

(* Every cleanup and list that exists is owned once, and nothing that is   *)
(* gone is owned: no function is called twice or for a resource that was   *)
(* forgotten, and no memory is freed twice, whatever is moved, popped,     *)
(* caught or interrupted (reslist_remove before fn, the splice of          *)
(* reslist_xfer, the lists on the stack that an error jumps over).         *)
OwnedOnce ==
  ended \notin {"corrupt", "abort"} =>
    /\ \A c \in Cleanups : Places(c) = IF res[c] \in {"allocated", "held"} THEN 1 ELSE 0
    /\ \A l \in Lists : Places(l) = IF Live(l) THEN 1 ELSE 0
    /\ Places(Top) = 0

(* What the program acquired is released by the time the process ends,     *)
(* through main or through a quit signal, in the middle of a cleanup too.  *)
(* What a cleanup function acquires is another matter: it may go to a list *)
(* that die has destroyed already.                                         *)
NothingLeaks == ended \in {"exit", "quit"} => Held \subseteq late

(* An error that is caught releases nothing that was held when catch_error *)
(* was called and has not been moved since (diev, errh.rl): the cleanups   *)
(* it runs are for what was acquired within.                               *)
KeepsOuter ==
  \A i, k \in DOMAIN frames :
    /\ i < k
    /\ frames[i].kind = "die"
    /\ frames[k].kind = "fn"
    /\ \A j \in (i + 1)..(k - 1) : frames[j].kind = "destroy"
    => frames[k].list \notin frames[frames[i].errh].before

=============================================================================

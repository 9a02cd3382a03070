------------------------------- MODULE TtySave ------------------------------
(***************************************************************************)
(* The user's terminals while shex runs (xmkraw.c, setup_reset_termios and *)
(* its callbacks in cmd_shex.c, channel_close, the job control signals of  *)
(* util.c): shex's three standard channels may be on one terminal or on    *)
(* several, each is made raw, and each is restored when its last channel   *)
(* is closed, when shex is stopped and when it ends.                       *)
(*                                                                         *)
(* tty_head is a list of <sys/queue.h>; since ttysave_make_raw inserts an  *)
(* entry it has found once more, its pointers are modelled: after[p] is    *)
(* the next pointer of p, and before[t] is where the pointer to t is.      *)
(***************************************************************************)
EXTENDS Integers

CONSTANTS
  Ttys,     \* terminals
  TtyHead,  \* tty_head
  Nil,      \* no terminal, no entry
  Splits    \* whether INPUT_OUTPUT_TERMIOS is defined: a set of Booleans

ASSUME TtyAssumption ==
  /\ Nil \notin Ttys /\ TtyHead \notin Ttys /\ Nil # TtyHead
  /\ Splits \subseteq BOOLEAN

Channels == 1..3   \* standard input, output and error

VARIABLES
  split,    \* INPUT_OUTPUT_TERMIOS
  on,       \* on[c]: the terminal of channel c, or Nil
  attr,     \* attr[t]: a terminal's attributes: own, raw, rawIn, rawOut, shell
  entry,    \* entry[t]: its struct ttysave
  after, before,
  raw,      \* raw[c]: saved_term_state is set
  open,     \* open[c]: the channel has its descriptor
  run,      \* setup, running, stopped, halted, hung, corrupt, exited
  setup,    \* the next channel to set up
  sigcont   \* a SIGCONT is pending

ttyvars == <<split, on, attr, entry, after, before, raw, open, run, setup, sigcont>>

NoEntry == [exists |-> FALSE, refs |-> 0, in |-> 0, out |-> 0, desired |-> "own", suspended |-> FALSE]

TtyInit ==
  /\ split \in Splits
  /\ on \in [Channels -> Ttys \cup {Nil}]
  /\ attr = [t \in Ttys |-> "own"]
  /\ entry = [t \in Ttys |-> NoEntry]
  /\ after = [p \in Ttys \cup {TtyHead} |-> Nil]
  /\ before = [t \in Ttys |-> Nil]
  /\ raw = [c \in Channels |-> FALSE]
  /\ open = [c \in Channels |-> TRUE]
  /\ run = "setup"
  /\ setup = 1
  /\ sigcont = FALSE

----------------------------------------------------------------------------
(* The attributes that the channels of e ask for.                          *)
Desired(e) ==
  CASE ~split -> IF e.refs > 0 THEN "raw" ELSE "own"
    [] split /\ e.in > 0 /\ e.out > 0 -> "raw"
    [] split /\ e.in > 0 /\ e.out = 0 -> "rawIn"
    [] split /\ e.in = 0 /\ e.out > 0 -> "rawOut"
    [] split /\ e.in = 0 /\ e.out = 0 -> "own"

(* Channel c's share in e, which grows or shrinks by n.                    *)
Counted(e, c, n) ==
  [e EXCEPT !.refs = @ + n, !.in = IF c = 1 THEN @ + n ELSE @, !.out = IF c = 1 THEN @ ELSE @ + n]

(* ttysave_update: the terminal is changed only if the wish has changed.   *)
Updated(a, t, e) == IF Desired(e) = e.desired THEN a ELSE [a EXCEPT ![t] = Desired(e)]

(* LIST_FOREACH: three channels leave at most two entries to be searched   *)
(* for, so a list that goes on after three steps goes on for ever.         *)
Follow(p) == IF p = Nil THEN Nil ELSE after[p]
Met == {after[TtyHead], Follow(after[TtyHead]), Follow(Follow(after[TtyHead]))}
Found(t) == t \in Met
Endless == Follow(Follow(Follow(after[TtyHead]))) # Nil

(* Mutant: an entry that was found is not counted again.                   *)
MakeRawUncounted(c) ==
  LET t == on[c]
      e == IF entry[t].exists THEN entry[t] ELSE Counted([NoEntry EXCEPT !.exists = TRUE], c, 1)
  IN  /\ entry' = [entry EXCEPT ![t] = [e EXCEPT !.desired = Desired(e)]]
      /\ attr' = Updated(attr, t, e)
      /\ raw' = [raw EXCEPT ![c] = TRUE]
      /\ after' = [after EXCEPT ![t] = after[TtyHead], ![TtyHead] = t]
      /\ before' = [u \in Ttys |-> IF u = t THEN TtyHead ELSE IF u = after[TtyHead] THEN t ELSE before[u]]
      /\ run' = run

(* ttysave_make_raw for the terminal of channel c.  The search does not    *)
(* end if the list has become circular.  LIST_INSERT_HEAD is done for an   *)
(* entry that was found, too.                                              *)
ttysave_make_raw(c) ==
  LET t == on[c]
      e == Counted([entry[t] EXCEPT !.exists = TRUE], c, 1)
  IN  IF ~Found(t) /\ Endless
      THEN run' = "hung" /\ UNCHANGED <<attr, entry, after, before, raw>>
      ELSE /\ entry' = [entry EXCEPT ![t] = [e EXCEPT !.desired = Desired(e)]]
           /\ attr' = Updated(attr, t, e)
           /\ raw' = [raw EXCEPT ![c] = TRUE]
           /\ after' = [after EXCEPT ![t] = after[TtyHead], ![TtyHead] = t]
           /\ before' = [u \in Ttys |-> IF u = t THEN TtyHead
                                        ELSE IF u = after[TtyHead] THEN t ELSE before[u]]
           /\ run' = run

(* ttysave_restore for channel c, as a function of the variables that it   *)
(* changes.  LIST_REMOVE writes to the next and to the previous entry,     *)
(* either of which may have been freed.                                    *)
Released(s, c) ==
  LET t == on[c]
      e == Counted(s.entry[t], c, -1)
      last == e.refs = 0
      next == s.after[t]
      prev == s.before[t]
      freed(p) == p \in Ttys \ {t} /\ ~s.entry[p].exists
  IN  [raw |-> [s.raw EXCEPT ![c] = FALSE],
       open |-> s.open,
       attr |-> [s.attr EXCEPT ![t] = IF last THEN "own" ELSE Updated(s.attr, t, e)[t]],
       entry |-> [s.entry EXCEPT ![t] =
                    IF last THEN NoEntry ELSE [e EXCEPT !.desired = Desired(e)]],
       before |-> IF last /\ next # Nil THEN [s.before EXCEPT ![next] = prev] ELSE s.before,
       after |-> IF last THEN [s.after EXCEPT ![prev] = next] ELSE s.after,
       run |-> IF last /\ (freed(next) \/ freed(prev)) THEN "corrupt" ELSE s.run]

(* The callers' test: saved_term_state is set and the channel is open.     *)
Restore(s, c) == IF ~s.raw[c] \/ ~s.open[c] \/ s.run = "corrupt" THEN s ELSE Released(s, c)

Now == [attr |-> attr, entry |-> entry, after |-> after, before |-> before,
        raw |-> raw, open |-> open, run |-> run]

Becomes(s) ==
  /\ attr' = s.attr /\ entry' = s.entry /\ after' = s.after /\ before' = s.before
  /\ raw' = s.raw /\ open' = s.open /\ run' = s.run

----------------------------------------------------------------------------
(* shex                                                                    *)

(* setup_reset_termios: one channel after the other.  The first change of  *)
(* a terminal may fail; then cleanup_reset_termios does what is due.       *)
Setup ==
  /\ run = "setup"
  /\ IF setup = 4 THEN run' = "running" /\ UNCHANGED <<attr, entry, after, before, raw, setup>>
     ELSE /\ setup' = setup + 1
          /\ IF on[setup] = Nil THEN UNCHANGED <<attr, entry, after, before, raw, run>>
             ELSE ttysave_make_raw(setup)
  /\ UNCHANGED <<split, on, open, sigcont>>

(* cleanup_reset_termios                                                   *)
Cleanup ==
  LET s == Restore(Restore(Restore(Now, 1), 2), 3)
  IN  [s EXCEPT !.run = IF @ = "corrupt" THEN @ ELSE "exited"]

ResetFails ==
  /\ run = "setup" /\ setup < 4
  /\ on[setup] # Nil
  /\ ~entry[on[setup]].exists /\ ~(~Found(on[setup]) /\ Endless)
  /\ Becomes(Cleanup)
  /\ UNCHANGED <<split, on, setup, sigcont>>

(* channel_close, for a channel with nothing left to write.                *)
channel_close(c) ==
  /\ run = "running" /\ open[c]
  /\ Becomes(IF Restore(Now, c).run = "corrupt" THEN Restore(Now, c)
             ELSE [Restore(Now, c) EXCEPT !.open[c] = FALSE])
  /\ UNCHANGED <<split, on, setup, sigcont>>

(* shex ends, through main, an error or a quit signal.                     *)
Exit ==
  /\ run = "running"
  /\ Becomes(Cleanup)
  /\ UNCHANGED <<split, on, setup, sigcont>>

(* The terminals that the callback reaches.                                *)
Reached == {t \in Ttys : \E c \in Channels : raw[c] /\ open[c] /\ on[c] = t}

(* SIGTSTP: ttysave_before_suspend for every channel, then SIGSTOP.        *)
Suspend ==
  /\ run = "running"
  /\ run' = "stopped"
  /\ attr' = [t \in Ttys |-> IF t \in Reached /\ ~entry[t].suspended THEN "own" ELSE attr[t]]
  /\ entry' = [t \in Ttys |-> IF t \in Reached THEN [entry[t] EXCEPT !.suspended = TRUE] ELSE entry[t]]
  /\ UNCHANGED <<split, on, after, before, raw, open, setup, sigcont>>

(* SIGCONT ends the stop and is flushed; then ttysave_after_resume.        *)
Resume ==
  /\ run = "stopped"
  /\ run' = "running"
  /\ attr' = [t \in Ttys |-> IF t \in Reached /\ entry[t].suspended THEN entry[t].desired ELSE attr[t]]
  /\ entry' = [t \in Ttys |-> IF t \in Reached THEN [entry[t] EXCEPT !.suspended = FALSE] ELSE entry[t]]
  /\ sigcont' = FALSE
  /\ UNCHANGED <<split, on, after, before, raw, open, setup>>

(* SIGSTOP cannot be caught.                                               *)
Halt ==
  /\ run = "running"
  /\ run' = "halted"
  /\ UNCHANGED <<split, on, attr, entry, after, before, raw, open, setup, sigcont>>

Unhalt ==
  /\ run = "halted"
  /\ run' = "running"
  /\ sigcont' = TRUE
  /\ UNCHANGED <<split, on, attr, entry, after, before, raw, open, setup>>

(* ttysave_after_sigcont, for the SIGCONT that was not expected.           *)
Sigcont ==
  /\ run = "running" /\ sigcont
  /\ sigcont' = FALSE
  /\ attr' = [t \in Ttys |-> IF t \in Reached THEN entry[t].desired ELSE attr[t]]
  /\ entry' = [t \in Ttys |-> IF t \in Reached THEN [entry[t] EXCEPT !.suspended = FALSE] ELSE entry[t]]
  /\ UNCHANGED <<split, on, after, before, raw, open, run, setup>>

(* While shex does not run the shell uses its terminal as it likes.        *)
Shell(t) ==
  /\ run \in {"stopped", "halted"}
  /\ attr' = [attr EXCEPT ![t] = "shell"]
  /\ UNCHANGED <<split, on, entry, after, before, raw, open, run, setup, sigcont>>

TtyNext ==
  \/ Setup \/ ResetFails \/ Exit \/ Suspend \/ Resume \/ Halt \/ Unhalt \/ Sigcont
  \/ \E c \in Channels : channel_close(c)
  \/ \E t \in Ttys : Shell(t)

TtySpec == TtyInit /\ [][TtyNext]_ttyvars

----------------------------------------------------------------------------
(* The channels on t that are still raw and open.                          *)
Users(t) == {c \in Channels : raw[c] /\ open[c] /\ on[c] = t}

Wanted(t) ==
  CASE Users(t) = {} -> "own"
    [] ~split \/ (1 \in Users(t) /\ Users(t) # {1}) -> "raw"
    [] split /\ Users(t) = {1} -> "rawIn"
    [] OTHER -> "rawOut"

(* A terminal is as its open channels want it while shex runs, as it was   *)
(* found once shex has stopped on request and once it has ended, whichever *)
(* channels share it and in whichever order they were closed, and however  *)
(* often shex was stopped.                                                 *)
AsWanted ==
  \A t \in Ttys :
    /\ run = "running" /\ ~sigcont /\ Users(t) # {} => attr[t] = Wanted(t)
    /\ run = "stopped" /\ entry[t].exists => attr[t] \in {"own", "shell"}
    /\ run = "exited" /\ (\E c \in Channels : on[c] = t) => attr[t] \in {"own", "shell"}

(* The list of terminals is sound, although entries are inserted twice:    *)
(* it is searched without end, or memory that was freed is written to,     *)
(* only if the three channels are on exactly two terminals; and with the   *)
(* first two on one, it is the search for the third that does not end.     *)
TableSound ==
  /\ run = "hung" => on[1] # Nil /\ on[1] = on[2] /\ on[3] \notin {on[1], Nil}
  /\ run = "corrupt" => Nil \notin {on[1], on[2]} /\ on[1] # on[2] /\ on[3] \in {on[1], on[2]}

(* Terminals are kept as they should be, and their list is.                *)
TerminalsKept == AsWanted /\ TableSound

=============================================================================

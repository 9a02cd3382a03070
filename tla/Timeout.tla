------------------------------- MODULE Timeout ------------------------------
(***************************************************************************)
(* set_timeout and its cleanup (util.c): an interval timer whose SIGALRM   *)
(* is blocked except in I/O, where its handler dies with the timeout's     *)
(* error.  Timeouts nest: each saves the timer, the handler, the mask and  *)
(* a SIGALRM that is pending, and restores them on unwinding.              *)
(***************************************************************************)
EXTENDS Naturals, Sequences

CONSTANT MaxDepth   \* bound: timeouts within one another

VARIABLES
  saved,     \* the contexts of the timeouts set, innermost last
  armed,     \* ITIMER_REAL runs
  alarm,     \* SIGALRM is pending
  handler,   \* the timeout whose error the handler dies with; 0: SIG_DFL
  blocked,   \* SIGALRM is blocked outside of I/O
  ioAlarm,   \* SIGALRM is in signals_unblock_for_io
  at         \* code, io, unwind1, unwind2, killed

timevars == <<saved, armed, alarm, handler, blocked, ioAlarm, at>>

TimeInit ==
  /\ saved = <<>>
  /\ armed = FALSE /\ alarm = FALSE
  /\ handler = 0
  /\ blocked = FALSE /\ ioAlarm = FALSE
  /\ at = "code"

(* set_timeout; a pending SIGALRM is cleared and remembered.               *)
set_timeout ==
  /\ at = "code" /\ Len(saved) < MaxDepth
  /\ saved' = Append(saved, [armed |-> armed, pending |-> alarm, handler |-> handler,
                             blocked |-> blocked, ioAlarm |-> ioAlarm])
  /\ armed' = TRUE /\ alarm' = FALSE
  /\ handler' = Len(saved) + 1
  /\ blocked' = TRUE /\ ioAlarm' = TRUE
  /\ UNCHANGED at

(* The time is up.                                                         *)
Expires ==
  /\ armed
  /\ armed' = FALSE
  /\ alarm' = TRUE
  /\ UNCHANGED <<saved, handler, blocked, ioAlarm, at>>

(* A system call begins within WITH_IO_SIGNALS_ALLOWED, and may return.    *)
BeginIo ==
  /\ at = "code"
  /\ at' = "io"
  /\ UNCHANGED <<saved, armed, alarm, handler, blocked, ioAlarm>>

IoReturns ==
  /\ at = "io" /\ ~(alarm /\ ioAlarm)
  /\ at' = "code"
  /\ UNCHANGED <<saved, armed, alarm, handler, blocked, ioAlarm>>

(* set_timeout_handle_sigalrm: die, up to the catch around the timeout.    *)
Alarm ==
  /\ at = "io" /\ alarm /\ ioAlarm
  /\ alarm' = FALSE
  /\ at' = "unwind1"
  /\ UNCHANGED <<saved, armed, handler, blocked, ioAlarm>>

(* The scope of the innermost timeout is left.                             *)
Leave ==
  /\ at = "code" /\ saved # <<>>
  /\ at' = "unwind1"
  /\ UNCHANGED <<saved, armed, alarm, handler, blocked, ioAlarm>>

(* Mutant: a SIGALRM that was cleared is not raised again.                 *)
CleanupForgets ==
  /\ at = "unwind1"
  /\ LET c == saved[Len(saved)]
     IN  armed' = c.armed /\ handler' = c.handler /\ ioAlarm' = c.ioAlarm
  /\ at' = "unwind2"
  /\ UNCHANGED <<saved, alarm, blocked>>

(* cleanup_set_timeout: timer, handler and a SIGALRM that was pending.     *)
cleanup_set_timeout ==
  /\ at = "unwind1"
  /\ LET c == saved[Len(saved)]
     IN  /\ armed' = c.armed
         /\ handler' = c.handler
         /\ ioAlarm' = c.ioAlarm
         /\ alarm' = (alarm \/ c.pending)
  /\ at' = "unwind2"
  /\ UNCHANGED <<saved, blocked>>

(* Its last call, sigprocmask, lets a pending signal in if nobody else     *)
(* blocks it: to SIG_DFL, which ends the process.                          *)
RestoreMask ==
  /\ at = "unwind2"
  /\ blocked' = saved[Len(saved)].blocked
  /\ saved' = SubSeq(saved, 1, Len(saved) - 1)
  /\ at' = IF alarm /\ ~saved[Len(saved)].blocked THEN "killed" ELSE "code"
  /\ UNCHANGED <<armed, alarm, handler, ioAlarm>>

Unwinds == cleanup_set_timeout \/ RestoreMask

TimeNext == set_timeout \/ Expires \/ BeginIo \/ IoReturns \/ Alarm \/ Leave \/ Unwinds

(* Time passes, and signals that are let in are delivered.  System calls   *)
(* need not return.                                                        *)
TimeFairness == WF_timevars(Expires) /\ WF_timevars(Alarm) /\ WF_timevars(Unwinds)

TimeSpec == TimeInit /\ [][TimeNext]_timevars /\ TimeFairness

----------------------------------------------------------------------------
(* A system call made within a timeout does not block for ever, even if an *)
(* inner timeout was set and left before it: the timer of the outer one is *)
(* restored, and so is a SIGALRM that it had caused.                       *)
IoEnds == (at = "io" /\ saved # <<>>) ~> (at # "io")

(* What util.h says of set_timeout: "If we get a SIGALRM, raise a          *)
(* die-exception from IO context."  The process is not ended by one.       *)
AlarmThrows == at # "killed"

=============================================================================

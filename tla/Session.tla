------------------------------ MODULE Session ------------------------------
(***************************************************************************)
(* One fb-adb session: the main loop of shex (cmd_shex.c,                  *)
(* shex_main_common) and of stub (cmd_stub.c, stub_main_1) driving the     *)
(* connection of Mux.tla, the child process on the device (child.c), the   *)
(* SIGWINCH handling of shex, and the loss of the connection.              *)
(*                                                                         *)
(* Streams read by shex are the child's standard input, streams read by    *)
(* stub its standard output and error.                                     *)
(***************************************************************************)
EXTENDS Mux

CONSTANTS
  Pty,        \* the child's streams are a pty and shex writes to a terminal
  Ctty,       \* the child has a controlling pty (no --no-ctty)
  Statuses,   \* exit statuses of the child
  MaxWinch    \* bound: times the user resizes the terminal

ASSUME SessionAssumption ==
  /\ Pty \in BOOLEAN /\ Ctty \in BOOLEAN /\ (Pty => Ctty) /\ MaxWinch \in Nat
  /\ Statuses \subseteq ControlArgs /\ 0 .. MaxWinch \subseteq ControlArgs

VARIABLES
  pc,           \* which PUMP_WHILE, or blocking call, each main program is in
  winsize,      \* the terminal's window size, counted in resizes
  ws,           \* m.ws of shex's pending MSG_WINDOW_SIZE
  sent_ws,      \* the last window size shex has queued or announced
  child_ws,     \* the window size of the child's pty
  winch,        \* SIGWINCH is pending for shex, which blocks it outside ppoll
  saw_sigwinch, \* shex's flag set by handle_sigwinch
  child,        \* NoStatus while the child runs, then its exit status
  hup,          \* how stub's exit signalled the child: "none", "kill" or "pty"
  status        \* shex.child_exit_status, or NoStatus before child_exited

NoStatus == -1

svars == <<pc, winsize, ws, sent_ws, child_ws, winch, saw_sigwinch, child, hup, status>>
allvars == <<vars, svars>>

ShexPcs == {"main", "winch", "drain", "done", "lost", "killed"}
StubPcs == {"main", "abn_peer", "abn_stdin", "hup", "clean", "send",
            "close_to", "close_from", "done"}

ChildStdin == {s \in Streams : Source[s] = "shex"}
ChildOutput == Streams \ ChildStdin

SInit ==
  /\ Init
  /\ pc = [p \in Peers |-> "main"]
  /\ winsize = 0 /\ ws = 0 /\ sent_ws = 0 /\ child_ws = 0
  /\ winch = FALSE /\ saw_sigwinch = FALSE
  /\ child = NoStatus /\ hup = "none" /\ status = NoStatus

Goto(p, l) == pc' = [pc EXCEPT ![p] = l]
AllDead(p, cs) == \A c \in cs : Dead(p, c)

----------------------------------------------------------------------------
(* Both: one iteration of the PUMP_WHILE in progress.                      *)

(* The condition of the PUMP_WHILE that p is in.                           *)
LoopCond(p) ==
  CASE pc[p] = "main" /\ p = "shex" ->
         ~saw_sigwinch /\ status = NoStatus /\ ~Dead(p, FROM_PEER) /\ ~Dead(p, TO_PEER)
    [] pc[p] = "main" /\ p = "stub" ->
         ~Dead(p, FROM_PEER) /\ ~Dead(p, TO_PEER) /\ ~AllDead(p, ChildOutput)
    [] pc[p] \in {"winch", "send"} -> MaxOutMsg(p) < SzControl[p]
    [] pc[p] \in {"drain", "clean"} -> ~AllDead(p, Streams)
    [] pc[p] = "abn_peer" -> ~AllDead(p, {FROM_PEER, TO_PEER})
    [] pc[p] = "abn_stdin" -> ~AllDead(p, ChildStdin)
    [] pc[p] = "close_to" -> ~Dead(p, TO_PEER)
    [] pc[p] = "close_from" -> ~Dead(p, FROM_PEER)
    [] OTHER -> FALSE

Looping(p) == stage[p] = "check" /\ LoopCond(p)
LoopDone(p, l) == stage[p] = "check" /\ pc[p] = l /\ ~LoopCond(p)

DoIo(p) == Looping(p) /\ Poll(p) /\ UNCHANGED svars

(* Nothing to poll for: io_loop_do_io returns at once.                     *)
Spin(p) == Looping(p) /\ Wanted(p) = {} /\ PollNothing(p) /\ UNCHANGED svars

(* ppoll lets a pending SIGWINCH in and fails with EINTR.                  *)
Interrupted ==
  /\ Looping("shex") /\ Wanted("shex") # {} /\ winch /\ PollNothing("shex")
  /\ winch' = FALSE /\ saw_sigwinch' = TRUE
  /\ UNCHANGED <<pc, winsize, ws, sent_ws, child_ws, child, hup, status>>

Pump(p) == PumpStep(p) /\ UNCHANGED svars
Io(p) == IoStep(p) /\ UNCHANGED svars
Retry(p) == Temporary(p) /\ UNCHANGED svars

----------------------------------------------------------------------------
(* shex                                                                    *)

RecvChildExit ==
  /\ RecvControl("shex") /\ status' = Head1("shex").n
  /\ UNCHANGED <<pc, winsize, ws, sent_ws, child_ws, winch, saw_sigwinch, child, hup>>

OutTty == Pty /\ \E s \in ChildOutput : ch["shex"][s].fdh

(* saw_sigwinch: read the window size, then queue_message_synch starts     *)
(* pumping.                                                                *)
StartWinch ==
  /\ LoopDone("shex", "main") /\ saw_sigwinch /\ OutTty
  /\ ws' = winsize /\ Goto("shex", "winch") /\ Shut("shex", {})
  /\ UNCHANGED <<winsize, sent_ws, child_ws, winch, saw_sigwinch, child, hup, status>>

SkipWinch ==
  /\ LoopDone("shex", "main") /\ saw_sigwinch /\ ~OutTty
  /\ saw_sigwinch' = FALSE /\ Shut("shex", {})
  /\ UNCHANGED <<pc, winsize, ws, sent_ws, child_ws, winch, child, hup, status>>

SendWinch ==
  /\ LoopDone("shex", "winch")
  /\ SendControl("shex", ws, {}) /\ sent_ws' = ws
  /\ saw_sigwinch' = FALSE /\ Goto("shex", "main")
  /\ UNCHANGED <<winsize, ws, child_ws, winch, child, hup, status>>

CloseStandardStreams ==
  /\ LoopDone("shex", "main") /\ ~saw_sigwinch
  /\ Shut("shex", Streams) /\ Goto("shex", "drain")
  /\ UNCHANGED <<winsize, ws, sent_ws, child_ws, winch, saw_sigwinch, child, hup, status>>

(* Mutant: shex exits without draining its standard streams.               *)
ShexReturnsUndrained ==
  /\ stage["shex"] = "check" /\ pc["shex"] = "drain" /\ Exit("shex")
  /\ Goto("shex", IF status # NoStatus THEN "done" ELSE "lost")
  /\ UNCHANGED <<winsize, ws, sent_ws, child_ws, winch, saw_sigwinch, child, hup, status>>

ShexReturns ==
  /\ LoopDone("shex", "drain") /\ Exit("shex")
  /\ Goto("shex", IF status # NoStatus THEN "done" ELSE "lost")
  /\ UNCHANGED <<winsize, ws, sent_ws, child_ws, winch, saw_sigwinch, child, hup, status>>

(* The user interrupts shex.                                               *)
ShexKilled ==
  /\ Exit("shex") /\ Goto("shex", "killed")
  /\ UNCHANGED <<winsize, ws, sent_ws, child_ws, winch, saw_sigwinch, child, hup, status>>

----------------------------------------------------------------------------
(* stub                                                                    *)

(* Mutant: the window size is applied only when there is no pty.           *)
RecvWindowSizeInverted ==
  /\ RecvControl("stub")
  /\ child_ws' = IF Ctty THEN child_ws ELSE Head1("stub").n
  /\ UNCHANGED <<pc, winsize, ws, sent_ws, winch, saw_sigwinch, child, hup, status>>

RecvWindowSize ==
  /\ RecvControl("stub")
  /\ child_ws' = IF Ctty THEN Head1("stub").n ELSE child_ws
  /\ UNCHANGED <<pc, winsize, ws, sent_ws, winch, saw_sigwinch, child, hup, status>>

PeerLost == Dead("stub", FROM_PEER) \/ Dead("stub", TO_PEER)

(* Abnormal exit: close the peer channels, then the child's stdin, then    *)
(* exit; child_cleanup signals the child.                                  *)
AbnormalExit ==
  /\ LoopDone("stub", "main") /\ PeerLost
  /\ Shut("stub", {FROM_PEER, TO_PEER}) /\ Goto("stub", "abn_peer")
  /\ UNCHANGED <<winsize, ws, sent_ws, child_ws, winch, saw_sigwinch, child, hup, status>>

CloseChildStdin ==
  /\ LoopDone("stub", "abn_peer")
  /\ Shut("stub", ChildStdin) /\ Goto("stub", "abn_stdin")
  /\ UNCHANGED <<winsize, ws, sent_ws, child_ws, winch, saw_sigwinch, child, hup, status>>

(* child_cleanup of a child that was not waited for: closing the pty       *)
(* master hangs the child up; without one stub sends the death signal.     *)
ChildCleanup == hup' = IF Ctty THEN "pty" ELSE "kill"

ExitWithHup ==
  /\ LoopDone("stub", "abn_stdin")
  /\ Exit("stub") /\ Goto("stub", "hup") /\ ChildCleanup
  /\ UNCHANGED <<winsize, ws, sent_ws, child_ws, winch, saw_sigwinch, child, status>>

(* Clean exit: drain the standard streams, wait for the child, send its    *)
(* status, wait for the peer to close the connection.                      *)
CleanExit ==
  /\ LoopDone("stub", "main") /\ ~PeerLost
  /\ Shut("stub", Streams) /\ Goto("stub", "clean")
  /\ UNCHANGED <<winsize, ws, sent_ws, child_ws, winch, saw_sigwinch, child, hup, status>>

(* child_wait does not pump; queue_message_synch then does.                *)
ChildWait ==
  /\ LoopDone("stub", "clean") /\ child # NoStatus
  /\ Shut("stub", {}) /\ Goto("stub", "send")
  /\ UNCHANGED <<winsize, ws, sent_ws, child_ws, winch, saw_sigwinch, child, hup, status>>

SendExitMessage ==
  /\ LoopDone("stub", "send")
  /\ SendControl("stub", child, {TO_PEER}) /\ Goto("stub", "close_to")
  /\ UNCHANGED <<winsize, ws, sent_ws, child_ws, winch, saw_sigwinch, child, hup, status>>

(* Mutant: stub exits without waiting for shex to close the connection.    *)
AwaitNothing ==
  /\ LoopDone("stub", "close_to") /\ Exit("stub") /\ Goto("stub", "done")
  /\ UNCHANGED <<winsize, ws, sent_ws, child_ws, winch, saw_sigwinch, child, hup, status>>

AwaitPeerClose ==
  /\ LoopDone("stub", "close_to")
  /\ Shut("stub", {}) /\ Goto("stub", "close_from")
  /\ UNCHANGED <<winsize, ws, sent_ws, child_ws, winch, saw_sigwinch, child, hup, status>>

StubReturns ==
  /\ LoopDone("stub", "close_from") /\ Exit("stub") /\ Goto("stub", "done")
  /\ UNCHANGED <<winsize, ws, sent_ws, child_ws, winch, saw_sigwinch, child, hup, status>>

----------------------------------------------------------------------------
(* The environment                                                         *)

ChildExits ==
  /\ child = NoStatus /\ child' \in Statuses
  /\ UNCHANGED <<vars, pc, winsize, ws, sent_ws, child_ws, winch, saw_sigwinch, hup, status>>

Resize ==
  /\ winsize < MaxWinch /\ winsize' = winsize + 1 /\ winch' = TRUE
  /\ UNCHANGED <<vars, pc, ws, sent_ws, child_ws, saw_sigwinch, child, hup, status>>

Lose == LoseConnection /\ UNCHANGED svars

ShexMain ==
  \/ RecvChildExit \/ StartWinch \/ SkipWinch \/ SendWinch
  \/ CloseStandardStreams \/ ShexReturns \/ Interrupted

StubMain ==
  \/ RecvWindowSize \/ AbnormalExit \/ CloseChildStdin \/ ExitWithHup
  \/ CleanExit \/ ChildWait \/ SendExitMessage \/ AwaitPeerClose \/ StubReturns

Process(p) ==
  Pump(p) \/ Io(p) \/ DoIo(p) \/ Spin(p) \/ (IF p = "shex" THEN ShexMain ELSE StubMain)

SNext ==
  \/ \E p \in Peers : Process(p) \/ Retry(p)
  \/ ChildExits \/ Resize \/ Lose \/ ShexKilled

SSpec == SInit /\ [][SNext]_allvars

(* Fairness.  A process that is not blocked takes a step: a step that does *)
(* not wait, or a poll that the peer connection makes return.  Whoever     *)
(* reads a sink's fd keeps reading it or closes it, so poll keeps          *)
(* reporting it; a child that has exited leaves its output at end of file  *)
(* and its stdin without a reader.  StdinFairness, which not every run     *)
(* assumes, says that a running child reads or closes its stdin as well.   *)
(* Nothing is assumed of shex's own stdin.  An fd that poll reports does   *)
(* not fail with a temporary error for ever (the checked instances of the  *)
(* liveness properties leave Retry out).                                   *)
PeerPoll(p) == DoIo(p) /\ ~(todo'[p] \subseteq Streams)
Unblocked(p) ==
  Pump(p) \/ Io(p) \/ PeerPoll(p) \/ Spin(p) \/ (IF p = "shex" THEN ShexMain ELSE StubMain)
PollReports(p, s) == DoIo(p) /\ s \in todo'[p]
ChildEndReported(s) == child # NoStatus /\ PollReports("stub", s)

ProcessFairness == \A p \in Peers : WF_allvars(Unblocked(p))
OutputFairness ==
  \A s \in ChildOutput : SF_allvars(PollReports("shex", s)) /\ SF_allvars(ChildEndReported(s))
StdinEndFairness == \A s \in ChildStdin : SF_allvars(ChildEndReported(s))
StdinFairness == \A s \in ChildStdin : SF_allvars(PollReports("stub", s))

----------------------------------------------------------------------------
(* Properties                                                              *)

STypeOK ==
  /\ TypeOK
  /\ pc["shex"] \in ShexPcs /\ pc["stub"] \in StubPcs
  /\ {winsize, ws, sent_ws, child_ws} \subseteq 0 .. MaxWinch
  /\ winch \in BOOLEAN /\ saw_sigwinch \in BOOLEAN /\ hup \in {"none", "kill", "pty"}
  /\ {child, status} \subseteq Statuses \cup {NoStatus}

Whole(s) == out[s] = Bytes(0, rd[s])

(* When shex returns an exit status it is the child's, and everything the  *)
(* child wrote has been written to shex's standard output and error, save  *)
(* where writing it failed.  The status may not overtake the output, and   *)
(* closing the streams in shex may not discard what they still hold.  One  *)
(* case is excepted: shex could no longer write to a lost connection, so   *)
(* it closed its streams, and then still read the rest of what stub had    *)
(* sent, the status included, while one of them was being drained.         *)
StatusAfterOutput ==
  pc["shex"] = "done" =>
    /\ status = child
    /\ \A s \in ChildOutput :
         Whole(s) \/ ch["shex"][s].err \/ (cut /\ ch["shex"][TO_PEER].err)

(* shex says "lost connection to peer" only when the connection was lost:  *)
(* stub does not exit before shex has its exit status, although the        *)
(* transport may drop the last bytes of a process that exits.              *)
LostOnlyIfCut == pc["shex"] = "lost" => cut

(* While both main loops run, a sink closes its fd without an error only   *)
(* after all its source has read was written: an end of file never         *)
(* overtakes data (xmit_eof, channel_close, do_pending_close).             *)
EofAfterData ==
  \A s \in Streams :
    LET r == ch[Sink(s)][s]
    IN  pc[Sink(s)] = "main" /\ Running(Sink(s)) /\ ~r.fdh /\ ~r.err => Whole(s)

(* stub is blocked in child_wait, which does not pump.                     *)
WaitingForChild == LoopDone("stub", "clean") /\ child = NoStatus

(* stub holds bytes for the stdin of a child that runs and need not read.  *)
Unread(s) == s \in ChildStdin /\ child = NoStatus /\ WantedWriteSz("stub", s) > 0

(* A sink catches up with its source again and again, so every byte read   *)
(* is eventually written, unless the sink's fd fails, its main loop ends   *)
(* or the connection breaks (stub leaves its main loop when the child's    *)
(* output ends): with all buffers full the two processes never wait for    *)
(* each other.  A child that does not read its stdin stops that stream and *)
(* not the other: what it prints is still delivered.  A child that closes  *)
(* its output and runs on may leave its last output in TO_PEER until it    *)
(* exits.                                                                  *)
Delivered(s) ==
  \/ Len(out[s]) = rd[s] \/ ch[Sink(s)][s].err \/ Unread(s)
  \/ pc[Sink(s)] # "main" \/ Broken(Sink(s)) \/ WaitingForChild
Delivery == \A s \in Streams : []<>Delivered(s)

(* A session whose child has exited ends: shex returns and stub returns.   *)
SessionEnds == []<>(child = NoStatus \/ \A p \in Peers : ~Running(p))

(* stub is about to end, and waits to write to the child's stdin.          *)
UnreadStdin == pc["stub"] \in {"abn_stdin", "clean"} /\ \E s \in ChildStdin : Unread(s)

(* When the connection is lost or shex is killed, at any point of a        *)
(* message, both processes end and a running child is signalled.  What     *)
(* else can happen is that stub waits for ever for the child: for its exit *)
(* (child_wait), or for it to read its stdin.                              *)
LossEndsSession ==
  []<>(\/ ~cut /\ pc["shex"] # "killed"
       \/ (\A p \in Peers : ~Running(p)) /\ (hup # "none" \/ child # NoStatus)
       \/ WaitingForChild \/ UnreadStdin)

(* "kills remote program on local exit" (commands.xml): after shex is      *)
(* killed, the child exits or is signalled, although nothing makes it read *)
(* the input that stub still holds for it.                                 *)
KilledOnLocalExit ==
  pc["shex"] = "killed" ~> hup # "none" \/ child # NoStatus \/ LoopDone("stub", "clean")

(* While shex runs its main loop, a change of the terminal's size that     *)
(* shex has not sent is still announced by a pending SIGWINCH or by        *)
(* saw_sigwinch: shex does not "lose any signals" (cmd_shex.c).            *)
ResizeNotLost ==
  pc["shex"] = "main" /\ Running("shex") /\ OutTty /\ sent_ws # winsize
    => winch \/ saw_sigwinch

(* The size of the child's pty catches up with the size shex last sent     *)
(* while both main loops run and the connection stands: a size sent is     *)
(* neither lost nor overtaken by an older one, also when SIGWINCH arrives  *)
(* while queue_message_synch pumps.                                        *)
ResizeArrives ==
  []<>(child_ws = sent_ws \/ pc["shex"] \notin {"main", "winch"}
         \/ pc["stub"] # "main" \/ \E p \in Peers : Broken(p))

(* With --no-ctty the child "is not sent any signal" (commands.xml).       *)
NoSignalWithoutCtty == ~Ctty => hup # "kill"

============================================================================

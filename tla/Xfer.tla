-------------------------------- MODULE Xfer --------------------------------
(***************************************************************************)
(* File transfer (xfer.c, fput, fget): a sender and a receiver for each    *)
(* transfer, one of them on the device, and the byte stream of an fb-adb   *)
(* session between them.  Several transfers write to one destination.      *)
(*                                                                         *)
(* A file is a sequence of units; copy_loop_posix_send sends at most Chunk *)
(* of them at a time.  Names are kept apart from files: dest is the file   *)
(* under the destination's name, file 0 the one that was there before, and *)
(* file t the one transfer t creates.  A unit is the transfer it belongs   *)
(* to; 0 is a unit of the old file, and Hole one that fallocate added.     *)
(***************************************************************************)
EXTENDS Naturals, Sequences, FiniteSets

CONSTANTS
  Transfers,   \* positive numbers
  Options,     \* Options[t]: what t may be asked for
  Chunk,       \* the size of the send buffer
  MaxSize,     \* bound: length of a file
  MaxFaults,   \* bound: connections cut and processes killed
  Torn,        \* whether a connection may end inside a message
  Hole

VARIABLES
  opt,       \* opt[t]: [mode, cmd, stat, size, sync]
  dir,       \* the destination: [kind, writable]
  dest,      \* the file under the destination's name, or None
  tmp,       \* tmp[t]: the file has the temporary name of t
  data,      \* data[f]: what file f holds
  snd,       \* snd[t]: sender [pc, pos]
  rcv,       \* rcv[t]: receiver [pc, fd, atomic, offset, want]
  wire,      \* wire[t]: messages and payloads on their way
  cut,       \* cut[t]: the connection is lost
  status,    \* status[t]: what fput or fget returns
  faults

xfervars == <<opt, dir, dest, tmp, data, snd, rcv, wire, cut, status, faults>>

None == Cardinality(Transfers) + 1
Files == {0} \cup Transfers

(* The options of xfer, and what fstat and reading the file find.          *)
Option ==
  [mode : {"auto", "atomic", "inplace"}, cmd : {"fput", "fget"}, stat : Nat, size : Nat, sync : BOOLEAN]

ASSUME XferAssumption ==
  /\ Transfers \subseteq Nat \ {0} /\ None \notin Files
  /\ \A t \in Transfers : Options[t] \subseteq Option
  /\ Chunk \in Nat \ {0} /\ MaxSize \in Nat /\ MaxFaults \in Nat /\ Torn \in BOOLEAN

(* The contents of transfer t: opt[t].size units, whatever stat said.      *)
Source(t) == [i \in 1..opt[t].size |-> t]

Stat(n) == [type |-> "stat", n |-> n, torn |-> FALSE]
DataHeader(n) == [type |-> "data", n |-> n, torn |-> FALSE]
Payload(n) == [type |-> "payload", n |-> n, torn |-> FALSE]

(* mode is write_mode, "auto" without the option; stat is the size at the  *)
(* time of fstat; a destination is nothing, or a file with one link or     *)
(* more, in a directory that can be written to or not.                     *)
XferInit ==
  /\ opt \in {o \in [Transfers -> UNION {Options[t] : t \in Transfers}] :
                \A t \in Transfers : o[t] \in Options[t]}
  /\ dir \in [kind : {"nothing", "file", "linked"}, writable : BOOLEAN]
  /\ dest = IF dir.kind = "nothing" THEN None ELSE 0
  /\ tmp = [t \in Transfers |-> FALSE]
  /\ data = [f \in Files |-> IF f = 0 THEN <<0>> ELSE <<>>]
  /\ snd = [t \in Transfers |-> [pc |-> "stat", pos |-> 0]]
  /\ rcv = [t \in Transfers |-> [pc |-> "stat", fd |-> None, atomic |-> TRUE, offset |-> 0,
                                 want |-> 0, pre |-> FALSE]]
  /\ wire = [t \in Transfers |-> <<>>]
  /\ cut = [t \in Transfers |-> FALSE]
  /\ status = [t \in Transfers |-> "none"]
  /\ faults = 0

----------------------------------------------------------------------------
(* The sender: do_xfer_send.                                               *)

SendStat(t) ==
  /\ snd[t].pc = "stat"
  /\ wire' = [wire EXCEPT ![t] = Append(@, Stat(opt[t].stat))]
  /\ snd' = [snd EXCEPT ![t].pc = "data"]

(* One round of copy_loop_posix_send: read_all returns less than a buffer  *)
(* only at the end, and a header without payload ends the loop.            *)
SendData(t) ==
  /\ snd[t].pc = "data"
  /\ LET rest == opt[t].size - snd[t].pos
         n == IF rest < Chunk THEN rest ELSE Chunk
     IN  /\ wire' = [wire EXCEPT ![t] = Append(Append(@, DataHeader(n)), Payload(n))]
         /\ snd' = [snd EXCEPT ![t].pos = @ + n, ![t].pc = IF n = 0 THEN "ok" ELSE "data"]

SenderStep(t) ==
  /\ ~cut[t]
  /\ SendStat(t) \/ SendData(t)
  /\ UNCHANGED <<opt, dir, dest, tmp, data, rcv, cut, status, faults>>

(* The receiver is not there to be written to.                             *)
SenderFails(t) ==
  /\ snd[t].pc \in {"stat", "data"}
  /\ cut[t] \/ rcv[t].pc \in {"failed", "killed"}
  /\ snd' = [snd EXCEPT ![t].pc = "failed"]
  /\ UNCHANGED <<opt, dir, dest, tmp, data, rcv, wire, cut, status, faults>>

(* The file cannot be read to its end.                                     *)
ReadError(t) ==
  /\ snd[t].pc \in {"stat", "data"} /\ ~cut[t] /\ faults < MaxFaults
  /\ snd' = [snd EXCEPT ![t].pc = "failed"]
  /\ faults' = faults + 1
  /\ UNCHANGED <<opt, dir, dest, tmp, data, rcv, wire, cut, status>>

----------------------------------------------------------------------------
(* The receiver: do_xfer_recv.                                             *)

(* Mutant: the file stays where it was written.                            *)
DiesLeaving(t) ==
  /\ rcv' = [rcv EXCEPT ![t].pc = "failed"]
  /\ UNCHANGED <<dest, tmp, data, wire>>

(* die: the cleanup removes what was being written, by its name at the     *)
(* time; a name cannot be removed from a directory without write access,   *)
(* and unlink_cleanup does not mind.                                       *)
Dies(t) ==
  /\ rcv' = [rcv EXCEPT ![t].pc = "failed"]
  /\ tmp' = [tmp EXCEPT ![t] = FALSE]
  /\ dest' = IF rcv[t].fd # None /\ ~rcv[t].atomic /\ dir.writable THEN None ELSE dest
  /\ UNCHANGED <<data, wire>>

(* Mutant: only the end of the connection is noticed, not the peer's.      *)
EofOfConnection(t) == wire[t] = <<>> /\ cut[t]

(* The stream has ended, and nothing is left to be read.                   *)
Eof(t) == wire[t] = <<>> /\ (cut[t] \/ snd[t].pc \in {"ok", "failed", "killed"})

(* recv_xfer_msg: a message that ends early leaves what was on the stack.  *)
Received(m) == IF m.torn THEN 0..MaxSize ELSE {m.n}

RecvStat(t) ==
  /\ rcv[t].pc = "stat" /\ wire[t] # <<>>
  /\ \E n \in Received(Head(wire[t])) :
       rcv' = [rcv EXCEPT ![t].pc = "open", ![t].want = n]
  /\ wire' = [wire EXCEPT ![t] = Tail(@)]
  /\ UNCHANGED <<dest, tmp, data>>

(* How the destination is written, or "error".                             *)
WriteMode(t) ==
  LET asked == IF dest # None /\ dir.kind = "linked" THEN "inplace" ELSE opt[t].mode
  IN  CASE asked = "inplace" -> "inplace"
        [] asked \in {"atomic", "auto"} /\ dir.writable -> "atomic"
        [] asked = "auto" /\ ~dir.writable -> "inplace"
        [] asked = "atomic" /\ ~dir.writable -> "error"

(* Mutant: the name is taken over when the file is opened.                 *)
OpenRenames(t) ==
  /\ rcv[t].pc = "open"
  /\ rcv' = [rcv EXCEPT ![t].pc = "data", ![t].fd = t]
  /\ data' = [data EXCEPT ![t] = <<>>]
  /\ dest' = t
  /\ UNCHANGED <<tmp, wire>>

(* A new file, or the one there, which O_TRUNC empties; a name cannot be   *)
(* made in a directory without write access.  Then, where it is supported, *)
(* fallocate makes room for what stat said.                                *)
Open(t) ==
  /\ rcv[t].pc = "open"
  /\ LET mode == WriteMode(t)
         fd == IF mode = "inplace" /\ dest # None THEN dest ELSE t
         failed == mode = "error" \/ (fd = t /\ ~dir.writable)
     IN  IF failed THEN Dies(t)
         ELSE \E pre \in BOOLEAN :
              /\ pre => rcv[t].want > 0
              /\ rcv' = [rcv EXCEPT ![t].pc = "data", ![t].fd = fd, ![t].pre = pre,
                                    ![t].atomic = (mode = "atomic")]
              /\ data' = [data EXCEPT ![fd] = IF pre THEN [i \in 1..rcv[t].want |-> Hole] ELSE <<>>]
              /\ tmp' = [tmp EXCEPT ![t] = mode = "atomic"]
              /\ dest' = IF mode = "inplace" THEN fd ELSE dest
              /\ UNCHANGED wire

(* write_all at the offset of the descriptor.                              *)
Written(d, offset, n, t) ==
  [i \in 1..(IF offset + n > Len(d) THEN offset + n ELSE Len(d)) |->
     IF i > offset /\ i <= offset + n THEN t ELSE IF i <= Len(d) THEN d[i] ELSE Hole]

(* One round of copy_loop_posix_recv.                                      *)
RecvData(t) ==
  /\ rcv[t].pc = "data" /\ wire[t] # <<>>
  /\ \E n \in Received(Head(wire[t])) :
       LET whole == Len(wire[t]) > 1 /\ ~wire[t][2].torn
           fd == rcv[t].fd
       IN  CASE n = 0 ->
                  /\ rcv' = [rcv EXCEPT ![t].pc = "finish"]
                  /\ wire' = [wire EXCEPT ![t] = IF Len(@) > 1 THEN Tail(Tail(@)) ELSE <<>>]
                  /\ UNCHANGED <<dest, tmp, data>>
             [] n > 0 /\ whole ->
                  /\ data' = [data EXCEPT ![fd] = Written(@, rcv[t].offset, n, t)]
                  /\ rcv' = [rcv EXCEPT ![t].offset = @ + n]
                  /\ wire' = [wire EXCEPT ![t] = Tail(Tail(@))]
                  /\ UNCHANGED <<dest, tmp>>
             [] n > 0 /\ ~whole -> cut[t] /\ Dies(t)

Truncated(d, n) == [i \in 1..n |-> IF i <= Len(d) THEN d[i] ELSE Hole]

(* Mutant: what fallocate added stays.                                     *)
FinishNoTruncate(t) ==
  /\ rcv[t].pc = "finish"
  /\ rcv' = [rcv EXCEPT ![t].pc = IF rcv[t].atomic THEN "rename" ELSE "syncdir"]
  /\ UNCHANGED <<dest, tmp, data, wire>>

(* ftruncate, futimes, fchmod and fsync, which may fail.                   *)
Finish(t) ==
  /\ rcv[t].pc = "finish"
  /\ \/ /\ rcv' = [rcv EXCEPT ![t].pc = IF rcv[t].atomic THEN "rename" ELSE "syncdir"]
        /\ data' = IF rcv[t].pre /\ rcv[t].offset < rcv[t].want
                   THEN [data EXCEPT ![rcv[t].fd] = Truncated(@, rcv[t].offset)] ELSE data
        /\ UNCHANGED <<dest, tmp, wire>>
     \/ Dies(t)

Rename(t) ==
  /\ rcv[t].pc = "rename"
  /\ dest' = rcv[t].fd
  /\ tmp' = [tmp EXCEPT ![t] = FALSE]
  /\ rcv' = [rcv EXCEPT ![t].pc = "syncdir"]
  /\ UNCHANGED <<data, wire>>

(* fsync of the directory; then the cleanup is forgotten.                  *)
SyncDir(t) ==
  /\ rcv[t].pc = "syncdir"
  /\ \/ rcv' = [rcv EXCEPT ![t].pc = "ok"] /\ UNCHANGED <<dest, tmp, data, wire>>
     \/ opt[t].sync /\ Dies(t)

ShortMessage(t) == rcv[t].pc \in {"stat", "data"} /\ Eof(t) /\ Dies(t)

ReceiverStep(t) ==
  /\ \/ RecvStat(t) \/ Open(t) \/ RecvData(t) \/ Finish(t)
     \/ Rename(t) \/ SyncDir(t) \/ ShortMessage(t)
  /\ UNCHANGED <<opt, dir, snd, cut, status, faults>>

----------------------------------------------------------------------------
(* xfer_handle_command: its own part succeeded, and so did the peer, whose *)
(* status comes over the connection.                                       *)
Succeeded(t) == snd[t].pc = "ok" /\ rcv[t].pc = "ok" /\ ~cut[t]

HasEnded(pc) == pc \in {"ok", "failed", "killed"}

Return(t) ==
  /\ status[t] = "none"
  /\ LET mine == IF opt[t].cmd = "fput" THEN snd[t].pc ELSE rcv[t].pc
         other == IF opt[t].cmd = "fput" THEN rcv[t].pc ELSE snd[t].pc
     IN  mine = "failed" \/ (mine = "ok" /\ (HasEnded(other) \/ cut[t]))
  /\ status' = [status EXCEPT ![t] = IF Succeeded(t) THEN "ok" ELSE "error"]
  /\ cut' = [cut EXCEPT ![t] = TRUE]
  /\ UNCHANGED <<opt, dir, dest, tmp, data, snd, rcv, wire, faults>>

(* The connection is lost with some of what is on its way; with Torn, in   *)
(* the middle of a message.                                                *)
Cut(t) ==
  /\ ~cut[t] /\ faults < MaxFaults
  /\ cut' = [cut EXCEPT ![t] = TRUE]
  /\ \E n \in 0..Len(wire[t]), torn \in BOOLEAN :
       /\ torn => Torn /\ n > 0
       /\ wire' = [wire EXCEPT ![t] = IF torn THEN [SubSeq(@, 1, n) EXCEPT ![n].torn = TRUE]
                                      ELSE SubSeq(@, 1, n)]
  /\ faults' = faults + 1
  /\ UNCHANGED <<opt, dir, dest, tmp, data, snd, rcv, status>>

(* The receiver is killed and cleans nothing up.                           *)
Kill(t) ==
  /\ ~HasEnded(rcv[t].pc) /\ faults < MaxFaults
  /\ rcv' = [rcv EXCEPT ![t].pc = "killed"]
  /\ faults' = faults + 1
  /\ status' = [status EXCEPT ![t] = IF opt[t].cmd = "fget" THEN "error" ELSE @]
  /\ UNCHANGED <<opt, dir, dest, tmp, data, snd, wire, cut>>

XferNext ==
  \E t \in Transfers :
    \/ SenderStep(t) \/ SenderFails(t) \/ ReceiverStep(t) \/ Return(t)
    \/ ReadError(t) \/ Cut(t) \/ Kill(t)

(* Processes run; a sender whose receiver is gone gets an error.           *)
XferSpec ==
  /\ XferInit /\ [][XferNext]_xfervars
  /\ \A t \in Transfers :
       /\ WF_xfervars(SenderStep(t)) /\ WF_xfervars(ReceiverStep(t)) /\ WF_xfervars(Return(t))
       /\ WF_xfervars(SenderFails(t))

----------------------------------------------------------------------------
(* No transfer writes to the destination directly.                         *)
AllAtomic == \A t \in Transfers : rcv[t].atomic

(* In atomic mode the destination's name always stands for the old file or *)
(* for a whole new one, at every moment, whatever fails and whoever else   *)
(* writes (do_xfer_recv: temporary file, error_cl and xrename).            *)
NeverPartial ==
  AllAtomic =>
    \/ dest = None /\ dir.kind = "nothing"
    \/ dest = 0 /\ data[0] = <<0>>
    \/ dest \in Transfers /\ data[dest] = Source(dest)

(* A transfer that reports success has written exactly the source's bytes, *)
(* although their number need not be what stat said: nothing that          *)
(* fallocate added remains.  Others that write in place may have written   *)
(* to the same file.                                                       *)
SuccessIsWhole ==
  \A t \in Transfers :
    status[t] = "ok" /\ (\A u \in Transfers \ {t} : rcv[u].fd # rcv[t].fd) =>
      data[rcv[t].fd] = Source(t)

(* A transfer that fails, and is not killed, leaves no temporary file; one *)
(* that writes in place leaves nothing under the destination's name, or,   *)
(* in a directory without write access, the partial file itself, which the *)
(* failing unlink of the cleanup cannot remove (auto mode writes in place  *)
(* exactly there).                                                         *)
FailureCleansUp ==
  \A t \in Transfers :
    rcv[t].pc = "failed" =>
      /\ ~tmp[t]
      /\ (\A u \in Transfers \ {t} : rcv[u].fd = None) /\ ~rcv[t].atomic =>
           dest = IF dir.writable THEN None ELSE rcv[t].fd

(* Every transfer ends on both sides and returns a status.                 *)
Over(t) == status[t] # "none" /\ HasEnded(snd[t].pc) /\ HasEnded(rcv[t].pc)
TransferEnds == \A t \in Transfers : <>Over(t)

=============================================================================

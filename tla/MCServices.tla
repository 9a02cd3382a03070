---------------------------- MODULE MCServices -----------------------------
(* What runs over a session, for TLC: file transfers and the debugger's    *)
(* proxy.  The two share no state, so a behaviour is one of one of them,   *)
(* while the other keeps a first state.                                    *)
EXTENDS MCXfer, MCJdwpProxy

VARIABLE component

XferIdle ==
  /\ opt = [t \in Transfers |-> CHOOSE o \in Options[t] : TRUE]
  /\ dir = [kind |-> "nothing", writable |-> TRUE]
  /\ XferInit
JdwpIdle == mode = [rewrite |-> FALSE, suspend |-> FALSE] /\ Init

MCInit ==
  \/ component = "xfer" /\ XferInit /\ JdwpIdle
  \/ component = "jdwp" /\ XferIdle /\ Init

MCNext ==
  /\ UNCHANGED component
  /\ \/ component = "xfer" /\ XferNext /\ UNCHANGED vars
     \/ component = "jdwp" /\ Next /\ UNCHANGED xfervars

MCSpec ==
  /\ MCInit /\ [][MCNext]_<<component, xfervars, vars>>
  /\ \A t \in Transfers : /\ WF_xfervars(component = "xfer" /\ SenderStep(t))
                          /\ WF_xfervars(component = "xfer" /\ ReceiverStep(t))
                          /\ WF_xfervars(component = "xfer" /\ Return(t))
                          /\ WF_xfervars(component = "xfer" /\ SenderFails(t))
  /\ WF_vars(component = "jdwp" /\ Proxy)
  /\ WF_vars(component = "jdwp" /\ AppHandle)

(* Every transfer ends on both sides and returns a status, whatever fails  *)
(* or dies in between (TransferEnds of Xfer; a transfer that is over stays *)
(* over).                                                                  *)
MCTransferEnds == \A t \in Transfers : []<>(component = "xfer" => Over(t))
============================================================================

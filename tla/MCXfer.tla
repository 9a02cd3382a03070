------------------------------- MODULE MCXfer ------------------------------
(* Xfer for TLC: a transfer in each mode and another that replaces.       *)
EXTENDS Xfer, TLC

MCOptions ==
  1 :> [mode : {"atomic", "inplace"}, cmd : {"fput"}, stat : {3}, size : {2}, sync : {TRUE}]
       \cup [mode : {"auto"}, cmd : {"fget"}, stat : {3}, size : {2}, sync : {TRUE}] @@
  2 :> [mode : {"auto"}, cmd : {"fput"}, stat : {0}, size : {1}, sync : {FALSE}]

============================================================================

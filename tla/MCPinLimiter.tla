---------------------------- MODULE MCPinLimiter ----------------------------
(***************************************************************************)
(* Instances of the PIN limiter for TLC.                                   *)
(***************************************************************************)
EXTENDS PinLimiter

MCPow2 == [f \in 0..MaxFailures |-> 2^f]
=============================================================================

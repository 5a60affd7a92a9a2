------------------------------ MODULE MCOtkCore ------------------------------
(***************************************************************************)
(* Instances of the control core for TLC: the penalty table of             *)
(* OTK_pinValidate, pow(2, failures), over the failures an instance counts.*)
(***************************************************************************)
EXTENDS OtkCoreRefines

MCPenalty == [f \in 0..MaxFailures |-> 2^f]
=============================================================================

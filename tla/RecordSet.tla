------------------------------ MODULE RecordSet ------------------------------
(***************************************************************************)
(* What the record store promises the key object's file: the set of        *)
(* records that are valid in flash, and the one the program holds.  A new  *)
(* record joins before the one it replaces leaves; a load takes one that   *)
(* is there; nothing else adds or removes a record, however often the      *)
(* power goes and whatever is collected.                                   *)
(***************************************************************************)
CONSTANT NoRecord   \* the program holds none

VARIABLES
  live,   \* the valid records
  held    \* the record the program reads and updates

vars == <<live, held>>

Init == live = {} /\ held = NoRecord

Load == held = NoRecord /\ held' \in live /\ UNCHANGED live

Add == held' \notin live \union {NoRecord} /\ live' = live \union {held'}

\* The record written last replaces another one.
Retire == \E r \in live \ {held} : live' = live \ {r} /\ UNCHANGED held

PowerOff == held' = NoRecord /\ UNCHANGED live

Next == Load \/ Add \/ Retire \/ PowerOff

Spec == Init /\ [][Next]_vars
=============================================================================

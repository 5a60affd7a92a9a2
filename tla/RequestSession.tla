--------------------------- MODULE RequestSession ---------------------------
(***************************************************************************)
(* What the device promises a reader and its owner in one power cycle,     *)
(* whatever the order of field events, scheduled tasks and touches:        *)
(*                                                                         *)
(*   - a request is written, taken up, answered, its answer is read, and   *)
(*     only then does the device return to "ready" or await a reset;       *)
(*   - it is executed once: "answered" is entered only from "taken";       *)
(*   - an authorisation is granted anew, by a PIN in a request, a finger   *)
(*     or the confirmation of a reset, for every change of the             *)
(*     configuration.                                                      *)
(***************************************************************************)
VARIABLES
  phase,     \* how far the request of this session has come
  granted,   \* somebody is authorised
  changed    \* the last authorisation has been used for a change

session == <<phase, granted, changed>>

Phases == {"off", "ready", "requested", "taken", "answered", "read",
           "confirming"}

Init == phase = "off" /\ ~granted /\ ~changed

PowerUp == phase = "off" /\ phase' = "ready" /\ UNCHANGED <<granted, changed>>

PowerDown ==
  phase # "off" /\ phase' = "off" /\ ~granted' /\ ~changed'

Write == phase = "ready" /\ phase' = "requested" /\ UNCHANGED <<granted, changed>>

Take == phase = "requested" /\ phase' = "taken" /\ UNCHANGED <<granted, changed>>

\* The request is refused, or executed under the authorisation there is or
\* one its PIN grants; a change leaves nobody authorised.
Serve ==
  /\ phase = "taken" /\ phase' = "answered"
  /\ \/ UNCHANGED <<granted, changed>>
     \/ granted' /\ ~changed'
     \/ ~granted' /\ changed' \in BOOLEAN

Read == phase = "answered" /\ phase' = "read" /\ UNCHANGED <<granted, changed>>

Return == phase = "read" /\ phase' = "ready" /\ UNCHANGED <<granted, changed>>

AwaitConfirmation ==
  phase = "read" /\ phase' = "confirming" /\ UNCHANGED <<granted, changed>>

\* A finger, the confirmation of a reset, or the PIN of a request to unlock
\* authorises, whatever the reader is doing.
Grant ==
  phase # "off" /\ granted' /\ ~changed' /\ UNCHANGED phase

\* OTK_unlock by an authorised user, by request, long touch or reset; the
\* erasure may fail.  A request to unlock is answered after it.
Use ==
  granted /\ ~granted' /\ changed' \in BOOLEAN /\ UNCHANGED phase

Next ==
  \/ PowerUp \/ PowerDown \/ Write \/ Take \/ Serve \/ Read \/ Return
  \/ AwaitConfirmation \/ Grant \/ Use

Spec == Init /\ [][Next]_session
=============================================================================

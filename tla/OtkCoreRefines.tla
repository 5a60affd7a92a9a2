--------------------------- MODULE OtkCoreRefines ---------------------------
(***************************************************************************)
(* OtkCore implements RequestSession: the phase of the session is what the *)
(* stored command, the execution state and the flags of nfc.c say together.*)
(***************************************************************************)
EXTENDS OtkCore

Phase ==
  CASE pc = "off" -> "off"
    [] pc # "off" /\ req.cmd = "INVALID" -> "ready"
    [] Pending /\ ~nfc.processing -> "requested"
    [] Pending /\ nfc.processing -> "taken"
    [] req.cmd # "INVALID" /\ nfc.exec # "NA" ->
         IF ltd.confirm THEN "confirming"
         ELSE IF nfc.hasRead THEN "read" ELSE "answered"

Session == INSTANCE RequestSession WITH
  phase <- Phase, granted <- otk.auth, changed <- hist.changes > 0

\* The control core goes through the phases of a session in order, executes
\* each request once and spends each authorisation on one change.
ImplementsSession == Session!Spec
=============================================================================

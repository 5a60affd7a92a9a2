------------------------- MODULE OtkCoreRefineProofs -------------------------
(***************************************************************************)
(* The control core implements the session a reader and an owner are       *)
(* promised, for every set of commands, queue size and PIN policy: each    *)
(* step of the core is a step of RequestSession or changes nothing of it.  *)
(***************************************************************************)
EXTENDS OtkCoreRefines, OtkCoreProofs

\* OTK_unlock is running for a request.
RequestUnlock == pc \in UnlockSteps /\ ForRequest

\* A request was taken up and has not been answered.
Taken ==
  /\ pc # "off" /\ req.cmd # "INVALID" /\ nfc.exec = "NA" /\ nfc.processing
  /\ ~ltd.confirm

\* What the phases need to know beyond Inv: a device that is off, or that has
\* no request, has nothing left of the last one, NFC is off while the device
\* waits for the touch that confirms a reset, and the request that unlocks is
\* still there when OTK_unlock is done.
NothingLeft ==
  /\ pc = "off" => req.cmd = "INVALID" /\ ~otk.auth
  /\ req.cmd = "INVALID" => nfc.exec = "NA" /\ ~nfc.processing
  /\ ltd.confirm => ~nfc.started
  /\ RequestUnlock => Taken

(***************************************************************************)
(* The fields the phase is read from.                                      *)
(***************************************************************************)
\* Two values of the flags of nfc.c that make the same phase.
SameFlags(m, n) ==
  /\ m.exec = n.exec /\ m.processing = n.processing
  /\ m.hasRead = n.hasRead /\ m.started = n.started

\* The other flags of nfc.c do not matter to it.
LEMMA OtherFlags ==
  ASSUME NEW n \in NfcFlags, NEW b \in BOOLEAN
  PROVE  /\ [n EXCEPT !.restart = b] \in NfcFlags /\ SameFlags([n EXCEPT !.restart = b], n)
         /\ [n EXCEPT !.polling = b] \in NfcFlags /\ SameFlags([n EXCEPT !.polling = b], n)
         /\ [n EXCEPT !.security = b] \in NfcFlags /\ SameFlags([n EXCEPT !.security = b], n)
         /\ [n EXCEPT !.more = b] \in NfcFlags /\ SameFlags([n EXCEPT !.more = b], n)
BY DEF NfcFlags, SameFlags

\* The flags that do.
LEMMA PhaseFlags ==
  ASSUME NEW n \in NfcFlags, NEW b \in BOOLEAN
  PROVE  /\ LET m == [n EXCEPT !.hasRead = b]
            IN  m \in NfcFlags /\ m.hasRead = b /\ m.exec = n.exec
                /\ m.processing = n.processing /\ m.started = n.started
         /\ LET m == [n EXCEPT !.processing = b]
            IN  m \in NfcFlags /\ m.processing = b /\ m.exec = n.exec
                /\ m.hasRead = n.hasRead /\ m.started = n.started
         /\ LET m == [n EXCEPT !.started = b]
            IN  m \in NfcFlags /\ m.started = b /\ m.exec = n.exec
                /\ m.hasRead = n.hasRead /\ m.processing = n.processing
BY DEF NfcFlags

\* Nor does the execution state touch the rest.
LEMMA ExecFlag ==
  ASSUME NEW n \in NfcFlags, NEW e \in ExecStates
  PROVE  LET m == [n EXCEPT !.exec = e]
         IN  m \in NfcFlags /\ m.exec = e /\ m.processing = n.processing
             /\ m.hasRead = n.hasRead /\ m.started = n.started
BY DEF NfcFlags

\* The phase, field by field.
PhaseTable ==
  /\ pc = "off" => Phase = "off"
  /\ pc # "off" /\ req.cmd = "INVALID" => Phase = "ready"
  /\ pc # "off" /\ req.cmd # "INVALID" /\ nfc.exec = "NA" =>
       Phase = IF nfc.processing THEN "taken" ELSE "requested"
  /\ pc # "off" /\ req.cmd # "INVALID" /\ nfc.exec # "NA" =>
       Phase = IF ltd.confirm THEN "confirming"
               ELSE IF nfc.hasRead THEN "read" ELSE "answered"

\* The cases of Phase exclude one another.
LEMMA PhaseIs == NothingLeft => PhaseTable
<1> SUFFICES ASSUME NothingLeft PROVE PhaseTable
  OBVIOUS
<1>1. CASE pc = "off"
  BY <1>1 DEF PhaseTable, Phase, Pending, NothingLeft
<1>2. CASE pc # "off" /\ req.cmd = "INVALID"
  BY <1>2 DEF PhaseTable, Phase, Pending
<1>3. CASE pc # "off" /\ req.cmd # "INVALID" /\ nfc.exec = "NA"
  <2>1. CASE nfc.processing
    BY <1>3, <2>1 DEF PhaseTable, Phase, Pending
  <2>2. CASE ~nfc.processing
    BY <1>3, <2>2 DEF PhaseTable, Phase, Pending
  <2> QED BY <1>3, <2>1, <2>2
<1>4. CASE pc # "off" /\ req.cmd # "INVALID" /\ nfc.exec # "NA"
  BY <1>4 DEF PhaseTable, Phase, Pending
<1> QED BY <1>1, <1>2, <1>3, <1>4

\* The same after a step.
LEMMA PhaseIsNext == NothingLeft' => PhaseTable'
BY PhaseIs, PTL

\* What a step must do to be one of the session, and to leave nothing behind.
Moved == NothingLeft' /\ [Session!Next]_(Session!session)

\* Switching off ends the session.
LEMMA OffMoved ==
  ASSUME Inv, NothingLeft, pc # "off", PowerOff
  PROVE  Moved
<1>1. NothingLeft'
  BY DEF PowerOff, NothingLeft, NoRequest, NfcReset, LtdReset, RequestUnlock, UnlockSteps
<1>2. Phase' = "off" /\ Phase # "off"
  BY <1>1, PhaseIs, PhaseIsNext DEF PowerOff, PhaseTable
<1>3. ~otk'.auth /\ ~(hist'.changes > 0)
  BY DEF PowerOff, NoHistory
<1> QED BY <1>1, <1>2, <1>3 DEF Moved, Session!Next, Session!PowerDown

\* A step that keeps the fields of the phase keeps the phase.
Quiet ==
  /\ pc' = "off" <=> pc = "off"
  /\ req'.cmd = "INVALID" <=> req.cmd = "INVALID"
  /\ SameFlags(nfc', nfc)
  /\ ltd'.confirm = ltd.confirm
  /\ pc = "off" => otk' = otk
  /\ RequestUnlock' => RequestUnlock

\* Such a step leaves nothing behind either.
LEMMA QuietPhase ==
  ASSUME NothingLeft, Quiet
  PROVE  NothingLeft' /\ Phase' = Phase
<1>1. NothingLeft'
  BY DEF NothingLeft, Quiet, SameFlags, Taken
<1> QED BY <1>1, PhaseIs, PhaseIsNext DEF PhaseTable, Quiet, SameFlags, NothingLeft

\* With authorisation and changes kept too, it is a stutter of the session.
LEMMA QuietMoved ==
  ASSUME NothingLeft, Quiet, otk'.auth = otk.auth, hist'.changes = hist.changes
  PROVE  Moved
BY QuietPhase DEF Moved, Session!session
(***************************************************************************)
(* Requests.                                                               *)
(***************************************************************************)
\* Appending to the queue leaves the task that runs in the first slot.
LEMMA ForRequestKept ==
  ASSUME Inv, UNCHANGED pc,
         \/ UNCHANGED queue \/ queue' = Put(queue, "stop")
         \/ CanStandby(ltd, queue) /\ queue' = StandbyQueue(ltd, queue)
         \/ Len(queue) < QueueSize /\ queue' = Append(queue, "ltd")
  PROVE  RequestUnlock' => RequestUnlock
<1>1. queue \in Queues /\ ltd \in LtdFlags
  BY DEF Inv, TypeOK
<1>2. queue # << >> => Head(queue') = Head(queue)
  BY <1>1, PutType, StandbyType, AppendType DEF Tasks
<1>3. pc \in UnlockSteps => queue # << >>
  BY DEF Inv, SlotHeld
<1> QED BY <1>2, <1>3 DEF RequestUnlock, ForRequest

\* A request that is executed is taken, whichever step publishes its answer.
LEMMA TakenAtAnswer ==
  ASSUME Inv, NothingLeft, ToExecute \/ RequestUnlock
  PROVE  Taken
<1>1. CASE ToExecute
  BY <1>1 DEF ToExecute, StopTask, Pending, NothingLeft, Taken
<1> QED BY <1>1 DEF NothingLeft

\* Publishing keeps the flags of the phase and starts NFC, or switches off.
LEMMA AnswerFlags ==
  ASSUME NEW n \in NfcFlags, NEW o, NEW l \in LtdFlags, NEW h, Answer(n, o, l, h)
  PROVE  \/ PowerOff
         \/ /\ nfc'.exec = n.exec /\ nfc'.processing = n.processing
            /\ nfc'.hasRead = n.hasRead /\ nfc'.started = TRUE
            /\ ltd'.confirm = l.confirm
            /\ otk' = o /\ hist' = h /\ pc' = "idle" /\ req' = req
<1>1. CASE ~PowerOff
  <2> DEFINE m == [n EXCEPT !.restart = FALSE]
  <2>1. /\ nfc' = [n EXCEPT !.restart = FALSE, !.started = TRUE] /\ ltd' \in {l, Paused(l)}
        /\ otk' = o /\ hist' = h /\ pc' = "idle" /\ req' = req
    BY <1>1 DEF Answer
  <2>2. ltd'.confirm = l.confirm
    BY <2>1 DEF Paused, LtdFlags
  <2>3. m \in NfcFlags /\ SameFlags(m, n)
    BY OtherFlags
  <2>4. nfc' = [m EXCEPT !.started = TRUE]
    BY <2>1
  <2> HIDE DEF m
  <2>5. /\ nfc'.exec = m.exec /\ nfc'.processing = m.processing
        /\ nfc'.hasRead = m.hasRead /\ nfc'.started = TRUE
    BY <2>3, <2>4, PhaseFlags
  <2> QED BY <2>1, <2>2, <2>3, <2>5 DEF SameFlags
<1> QED BY <1>1

\* An executed request is served: whatever it answers, an authorisation that
\* survives it has bought no change.
LEMMA ServeMoved ==
  ASSUME Inv, NothingLeft, ToExecute \/ RequestUnlock,
         NEW n \in NfcFlags, NEW o, NEW l \in LtdFlags, NEW h, Answer(n, o, l, h),
         n.exec # "NA", n.processing = nfc.processing, n.hasRead = nfc.hasRead,
         l.confirm = ltd.confirm,
         \/ o.auth = otk.auth /\ h.changes = hist.changes
         \/ o.auth /\ h.changes = 0
         \/ ~o.auth
  PROVE  Moved
<1>0. /\ pc # "off" /\ req.cmd # "INVALID" /\ nfc.exec = "NA" /\ nfc.processing
      /\ nfc.hasRead = FALSE /\ ltd.confirm = FALSE
  <2>1. nfc.hasRead \in BOOLEAN /\ ltd.confirm \in BOOLEAN
    BY DEF Inv, TypeOK, NfcFlags, LtdFlags
  <2> QED BY <2>1, TakenAtAnswer DEF Inv, ResultShown, Taken
<1>1. Phase = "taken"
  BY <1>0, PhaseIs DEF PhaseTable
<1>2. CASE PowerOff
  BY <1>0, <1>2, OffMoved
<1>3. CASE /\ nfc'.exec = n.exec /\ nfc'.processing = n.processing
           /\ nfc'.hasRead = n.hasRead /\ nfc'.started = TRUE
           /\ ltd'.confirm = l.confirm
           /\ otk' = o /\ hist' = h /\ pc' = "idle" /\ req' = req
  <2>1. NothingLeft'
    BY <1>0, <1>3 DEF NothingLeft, RequestUnlock, UnlockSteps
  <2>2. Phase' = "answered"
    BY <1>0, <1>3, <2>1, PhaseIsNext DEF PhaseTable
  <2>3. \/ otk'.auth = otk.auth /\ (hist'.changes > 0) = (hist.changes > 0)
        \/ otk'.auth /\ ~(hist'.changes > 0)
        \/ ~otk'.auth
    BY <1>3
  <2>4. (hist'.changes > 0) \in BOOLEAN
    OBVIOUS
  <2>5. Session!Serve
    BY <1>1, <2>2, <2>3, <2>4 DEF Session!Serve
  <2> QED BY <2>1, <2>5 DEF Moved, Session!Next
<1> QED BY <1>2, <1>3, AnswerFlags

\* An execution state, with or without the static one.
LEMMA OutcomeFlags ==
  ASSUME Inv, NEW e \in {"SUCCESS", "FAIL"}
  PROVE  /\ LET m == [nfc EXCEPT !.exec = e]
            IN  m \in NfcFlags /\ m.exec # "NA" /\ m.processing = nfc.processing
                /\ m.hasRead = nfc.hasRead /\ m.started = nfc.started
         /\ Outcome(e) \in NfcFlags /\ Outcome(e).exec # "NA"
         /\ Outcome(e).processing = nfc.processing
         /\ Outcome(e).hasRead = nfc.hasRead /\ Outcome(e).started = nfc.started
<1> DEFINE m == [nfc EXCEPT !.exec = e]
<1>1. /\ m \in NfcFlags /\ m.exec = e /\ m.processing = nfc.processing
      /\ m.hasRead = nfc.hasRead /\ m.started = nfc.started
  <2>1. nfc \in NfcFlags /\ e \in ExecStates
    BY DEF Inv, TypeOK, ExecStates
  <2> QED BY <2>1, ExecFlag
<1>2. Outcome(e) = [m EXCEPT !.execState = e]
  BY DEF Outcome
<1> HIDE DEF m
<1>3. /\ Outcome(e) \in NfcFlags /\ Outcome(e).exec = m.exec
      /\ Outcome(e).processing = m.processing
      /\ Outcome(e).hasRead = m.hasRead /\ Outcome(e).started = m.started
  BY <1>1, <1>2 DEF NfcFlags
<1> QED BY <1>1, <1>3 DEF m

\* A denial is an answer like any other.
LEMMA DeniedFlags ==
  ASSUME Inv
  PROVE  /\ Denied \in NfcFlags /\ Denied.exec # "NA"
         /\ Denied.processing = nfc.processing
         /\ Denied.hasRead = nfc.hasRead /\ Denied.started = nfc.started
<1> DEFINE s == nfc.denied + 1 > MaxDenied
           n == [nfc EXCEPT !.exec = "FAIL"]
           d == [n EXCEPT !.denied = nfc.denied + 1]
<1>1. s \in BOOLEAN /\ nfc.denied + 1 \in Nat
  BY DEF Inv, TypeOK, NfcFlags
<1>2. /\ n \in NfcFlags /\ n.exec = "FAIL" /\ n.processing = nfc.processing
      /\ n.hasRead = nfc.hasRead /\ n.started = nfc.started
  BY ExecFlag DEF Inv, TypeOK, ExecStates
<1>3. Denied = [d EXCEPT !.security = s]
  BY DEF Denied
<1> HIDE DEF n, s
<1>4. d \in NfcFlags /\ SameFlags(d, n)
  BY <1>1, <1>2 DEF NfcFlags, SameFlags
<1> HIDE DEF d
<1>5. Denied \in NfcFlags /\ SameFlags(Denied, d)
  BY <1>1, <1>3, <1>4, OtherFlags
<1> QED BY <1>2, <1>4, <1>5 DEF SameFlags

\* What validating the PIN does to the session.
LEMMA PinSession ==
  ASSUME Inv
  PROVE  /\ LtdAfterPin \in LtdFlags /\ LtdAfterPin.confirm = ltd.confirm
         /\ \/ OtkAfterPin.auth = otk.auth /\ HistAfterPin.changes = hist.changes
            \/ OtkAfterPin.auth /\ HistAfterPin.changes = 0
<1>1. LtdAfterPin \in LtdFlags /\ LtdAfterPin.confirm = ltd.confirm
  BY PinType DEF LtdAfterPin, Paused, LtdFlags, Inv, TypeOK
<1>2. CASE PinMatched
  <2>1. HistAfterPin.changes = 0
    BY <1>2, GrantType DEF HistAfterPin, Inv, TypeOK
  <2>2. OtkAfterPin.auth
    BY <1>2, PinType DEF Authorized
  <2> QED BY <1>1, <2>1, <2>2
<1>3. CASE ~PinMatched
  <2>1. OtkAfterPin.auth = otk.auth
    BY <1>3 DEF OtkAfterPin, Authorized, Inv, TypeOK, OtkFlags
  <2> QED BY <1>1, <1>3, <2>1 DEF HistAfterPin
<1> QED BY <1>2, <1>3

\* Starting or pausing the detector keeps a reset to be confirmed.
LEMMA StandbyConfirm ==
  ASSUME NEW l \in LtdFlags
  PROVE  /\ Paused(l) \in LtdFlags /\ Paused(l).confirm = l.confirm
         /\ StandbyLtd(l) \in LtdFlags /\ StandbyLtd(l).confirm = l.confirm
         /\ StandbyLtd(Paused(l)) \in LtdFlags /\ StandbyLtd(Paused(l)).confirm = l.confirm
<1>1. ASSUME NEW m \in LtdFlags
      PROVE  StandbyLtd(m) \in LtdFlags /\ StandbyLtd(m).confirm = m.confirm
  <2> DEFINE r == [m EXCEPT !.running = TRUE]
  <2>1. r \in LtdFlags /\ r.confirm = m.confirm
    BY DEF LtdFlags
  <2>2. StandbyLtd(m) \in {m, [r EXCEPT !.kill = FALSE]}
    BY DEF StandbyLtd
  <2> HIDE DEF r
  <2> QED BY <2>1, <2>2 DEF LtdFlags
<1>2. Paused(l) \in LtdFlags /\ Paused(l).confirm = l.confirm
  BY DEF Paused, LtdFlags
<1> QED BY <1>1, <1>2

\* Every execution serves the request that was taken.
LEMMA ExecuteMoved ==
  ASSUME Inv, NothingLeft,
         \/ ExecuteCancel \/ ExecuteDenied \/ ExecutePlain \/ ExecuteSet
         \/ ExecuteUnlock
  PROVE  Moved
<1>0. /\ ToExecute /\ hist \in Histories /\ HistAfterPin \in Histories
      /\ ltd \in LtdFlags /\ otk \in OtkFlags
      /\ nfc.execState \in {"SUCCESS", "FAIL"}
  BY PinType DEF ExecuteCancel, ExecuteDenied, ExecutePlain, ExecuteSet,
     ExecuteUnlock, Inv, TypeOK, NfcFlags
<1>1. CASE ExecuteCancel
  <2> DEFINE n == [nfc EXCEPT !.exec = "SUCCESS"]
             h == Executed(hist, "done")
  <2>1. Answer(n, otk, ltd, h)
    BY <1>1 DEF ExecuteCancel
  <2>2. /\ n \in NfcFlags /\ n.exec # "NA" /\ n.processing = nfc.processing
        /\ n.hasRead = nfc.hasRead /\ n.started = nfc.started
    BY OutcomeFlags
  <2>3. h.changes = hist.changes
    BY <1>0, ExecutedType DEF Effects
  <2> HIDE DEF n, h
  <2> QED BY <1>0, <2>1, <2>2, <2>3, ServeMoved
<1>2. CASE ExecuteDenied
  <2> DEFINE h == Executed(hist, "refused")
  <2>1. Answer(Denied, otk, LtdAfterPin, h)
    BY <1>2 DEF ExecuteDenied
  <2>2. h.changes = hist.changes
    BY <1>0, ExecutedType DEF Effects
  <2> HIDE DEF h
  <2> QED BY <1>0, <2>1, <2>2, DeniedFlags, PinSession, ServeMoved
<1>3. CASE ExecutePlain
  <2> DEFINE e == IF PinError THEN "FAIL" ELSE "SUCCESS"
             f == IF PinError THEN "refused" ELSE PlainEffect
             n == Outcome(e)
             h == Executed(HistAfterPin, f)
  <2>1. Answer(n, OtkAfterPin, LtdAfterPin, h)
    BY <1>3 DEF ExecutePlain
  <2>2. e \in {"SUCCESS", "FAIL"} /\ f \in Effects
    BY DEF PlainEffect, Effects
  <2> HIDE DEF e, f
  <2>3. /\ n \in NfcFlags /\ n.exec # "NA" /\ n.processing = nfc.processing
        /\ n.hasRead = nfc.hasRead /\ n.started = nfc.started
    BY <2>2, OutcomeFlags
  <2>4. h.changes = HistAfterPin.changes
    BY <1>0, <2>2, ExecutedType
  <2> HIDE DEF n, h
  <2> QED BY <1>0, <2>1, <2>3, <2>4, PinSession, ServeMoved
<1>4. CASE ExecuteSet
  <2> DEFINE ok == req.data = "good"
             n == IF ok THEN [nfc EXCEPT !.exec = nfc.execState] ELSE Outcome("FAIL")
             l == IF req.cmd = "SET_NOTE" THEN Paused(ltd) ELSE LtdAfterPin
             o == [otk EXCEPT !.auth = FALSE]
             h == IF ok THEN Changed(HistAfterPin)
                  ELSE Executed(HistAfterPin, "refused")
  <2>1. Answer(n, o, l, h)
    BY <1>4 DEF ExecuteSet
  <2>2. /\ n \in NfcFlags /\ n.exec # "NA" /\ n.processing = nfc.processing
        /\ n.hasRead = nfc.hasRead /\ n.started = nfc.started
    BY <1>0, OutcomeFlags
  <2>3. l \in LtdFlags /\ l.confirm = ltd.confirm
    BY <1>0, PinSession DEF Paused, LtdFlags
  <2>4. ~o.auth
    BY <1>0 DEF OtkFlags
  <2> HIDE DEF n, l, o, h, ok
  <2> QED BY <1>0, <2>1, <2>2, <2>3, <2>4, ServeMoved
<1>5. CASE ExecuteUnlock /\ ~otk.locked
  <2> DEFINE n == Outcome("FAIL")
             h == Executed(HistAfterPin, "refused")
  <2>1. Answer(n, OtkAfterPin, LtdAfterPin, h)
    BY <1>5 DEF ExecuteUnlock
  <2>2. /\ n \in NfcFlags /\ n.exec # "NA" /\ n.processing = nfc.processing
        /\ n.hasRead = nfc.hasRead /\ n.started = nfc.started
    BY OutcomeFlags
  <2>3. h.changes = HistAfterPin.changes
    BY <1>0, ExecutedType DEF Effects
  <2> HIDE DEF n, h
  <2> QED BY <1>0, <2>1, <2>2, <2>3, PinSession, ServeMoved
<1>6. CASE ExecuteUnlock /\ otk.locked
  <2>1. /\ pc' = "unlock" /\ nfc' = Stopped /\ otk' = OtkAfterPin
        /\ ltd' = LtdAfterPin /\ hist' = HistAfterPin /\ UNCHANGED <<queue, req>>
    BY <1>6 DEF ExecuteUnlock
  <2>2. Taken /\ pc = "idle"
    BY <1>0, TakenAtAnswer DEF ToExecute, StopTask
  <2>3. /\ nfc'.exec = nfc.exec /\ nfc'.processing = nfc.processing
        /\ nfc'.hasRead = nfc.hasRead /\ ~nfc'.started
    BY <2>1, StoppedType
  <2>4. ltd'.confirm = ltd.confirm
    BY <2>1, PinSession
  <2>5. NothingLeft'
    BY <2>1, <2>2, <2>3, <2>4 DEF NothingLeft, Taken
  <2>6. Phase = "taken" /\ Phase' = "taken"
    BY <2>1, <2>2, <2>3, <2>4, <2>5, PhaseIs, PhaseIsNext DEF PhaseTable, Taken
  <2>7. \/ otk'.auth = otk.auth /\ (hist'.changes > 0) = (hist.changes > 0)
        \/ otk'.auth /\ ~(hist'.changes > 0)
    BY <2>1, PinSession
  <2>8. CASE otk'.auth = otk.auth /\ (hist'.changes > 0) = (hist.changes > 0)
    BY <2>5, <2>6, <2>8 DEF Moved, Session!session
  <2>9. CASE otk'.auth /\ ~(hist'.changes > 0)
    BY <2>5, <2>6, <2>9 DEF Moved, Session!Next, Session!Grant
  <2> QED BY <2>7, <2>8, <2>9
<1> QED BY <1>1, <1>2, <1>3, <1>4, <1>5, <1>6

(***************************************************************************)
(* Retiring a result, the interrupt handler, power and the detector.       *)
(***************************************************************************)
\* A result that was read is dropped, kept for a reset, or the last one.
LEMMA RetireMoved ==
  ASSUME Inv, NothingLeft, RetireFinal \/ RetireReset \/ RetireClear
  PROVE  Moved
<1>0. /\ pc = "idle" /\ nfc.started /\ nfc.hasRead /\ nfc.exec # "NA"
      /\ req.cmd # "INVALID" /\ ltd.confirm = FALSE /\ nfc \in NfcFlags
  <2>1. pc = "idle" /\ nfc.started /\ nfc.hasRead
    BY DEF RetireFinal, RetireReset, RetireClear, ToRetire, StopTask
  <2>2. ltd.confirm \in BOOLEAN /\ nfc \in NfcFlags
    BY DEF Inv, TypeOK, LtdFlags
  <2> QED BY <2>1, <2>2 DEF Inv, ResultShown, NothingLeft
<1>1. Phase = "read"
  BY <1>0, PhaseIs DEF PhaseTable
<1>2. CASE RetireFinal
  BY <1>0, <1>2, OffMoved DEF RetireFinal
<1>3. CASE RetireReset
  <2> DEFINE a == [nfc EXCEPT !.started = FALSE]
             b == [a EXCEPT !.hasRead = FALSE]
  <2>1. a \in NfcFlags /\ a.exec = nfc.exec /\ a.started = FALSE
    BY <1>0, PhaseFlags
  <2>2. b \in NfcFlags /\ b.exec = a.exec /\ b.started = a.started
    <3> HIDE DEF a
    <3> QED BY <2>1, PhaseFlags
  <2>3. nfc' = [b EXCEPT !.processing = FALSE]
    BY <1>3 DEF RetireReset, Stopped
  <2> HIDE DEF a, b
  <2>4. nfc'.exec = nfc.exec /\ nfc'.started = FALSE
    BY <2>1, <2>2, <2>3, PhaseFlags
  <2>5. ltd'.confirm = TRUE
    BY <1>3 DEF RetireReset, Inv, TypeOK, LtdFlags
  <2>6. UNCHANGED <<pc, req, otk, hist>>
    BY <1>3 DEF RetireReset
  <2>7. NothingLeft'
    BY <1>0, <2>4, <2>6 DEF NothingLeft, RequestUnlock, UnlockSteps
  <2>8. Phase' = "confirming"
    BY <1>0, <2>4, <2>5, <2>6, <2>7, PhaseIsNext DEF PhaseTable
  <2> QED BY <1>1, <2>6, <2>7, <2>8 DEF Moved, Session!Next, Session!AwaitConfirmation
<1>4. CASE RetireClear
  <2> DEFINE a == [nfc EXCEPT !.hasRead = FALSE]
             b == [a EXCEPT !.processing = FALSE]
             c == [b EXCEPT !.exec = "NA"]
             h == [hist EXCEPT !.effect = "none"]
  <2>1. a \in NfcFlags
    BY <1>0, PhaseFlags
  <2>2. b \in NfcFlags /\ b.processing = FALSE
    <3> HIDE DEF a
    <3> QED BY <2>1, PhaseFlags
  <2>3. c \in NfcFlags /\ c.processing = FALSE /\ c.exec = "NA"
    <3> HIDE DEF b
    <3> QED BY <2>2, ExecFlag DEF ExecStates
  <2>4. nfc' = [c EXCEPT !.restart = FALSE]
    BY <1>4 DEF RetireClear, Cleared
  <2> HIDE DEF c
  <2>5. nfc'.exec = "NA" /\ nfc'.processing = FALSE
    BY <2>3, <2>4, OtherFlags DEF SameFlags
  <2>6. hist'.changes = hist.changes
    <3>1. h \in Histories /\ h.changes = hist.changes
      BY DEF Inv, TypeOK, Histories
    <3>2. hist' = [h EXCEPT !.of = "INVALID"]
      BY <1>4 DEF RetireClear
    <3> HIDE DEF h
    <3> QED BY <3>1, <3>2 DEF Histories
  <2>7. req'.cmd = "INVALID" /\ UNCHANGED <<pc, otk, ltd>>
    BY <1>4 DEF RetireClear, NoRequest
  <2>8. NothingLeft'
    BY <1>0, <2>5, <2>7 DEF NothingLeft, RequestUnlock, UnlockSteps
  <2>9. Phase' = "ready"
    BY <1>0, <2>7, <2>8, PhaseIsNext DEF PhaseTable
  <2> QED BY <1>1, <2>6, <2>7, <2>8, <2>9 DEF Moved, Session!Next, Session!Return
<1> QED BY <1>2, <1>3, <1>4

\* A stop task with nothing to execute or to retire.
LEMMA StopMoved ==
  ASSUME Inv, NothingLeft, StopWhenStopped \/ StopForSecurity \/ StopOrRestart
  PROVE  Moved
<1>0. pc = "idle" /\ nfc \in NfcFlags /\ ltd \in LtdFlags
  BY DEF StopWhenStopped, StopForSecurity, StopOrRestart, StopTask, Inv, TypeOK
<1>1. CASE StopWhenStopped
  <2>1. Quiet /\ UNCHANGED <<otk, hist>>
    BY <1>0, <1>1 DEF StopWhenStopped, Quiet, SameFlags, RequestUnlock, UnlockSteps
  <2> QED BY <2>1, QuietMoved
<1>2. CASE StopForSecurity
  BY <1>0, <1>2, OffMoved DEF StopForSecurity
<1>3. CASE StopOrRestart /\ nfc.restart
  <2>1. Answer(nfc, otk, ltd, hist)
    BY <1>3 DEF StopOrRestart
  <2>2. CASE PowerOff
    BY <1>0, <2>2, OffMoved
  <2>3. CASE /\ nfc'.exec = nfc.exec /\ nfc'.processing = nfc.processing
             /\ nfc'.hasRead = nfc.hasRead /\ nfc'.started = TRUE
             /\ ltd'.confirm = ltd.confirm
             /\ otk' = otk /\ hist' = hist /\ pc' = "idle" /\ req' = req
    <3>1. nfc.started = TRUE
      BY <1>0, <1>3 DEF StopOrRestart, NfcFlags
    <3>2. Quiet
      BY <1>0, <2>3, <3>1 DEF Quiet, SameFlags, RequestUnlock, UnlockSteps
    <3> QED BY <2>3, <3>2, QuietMoved
  <2> QED BY <1>0, <2>1, <2>2, <2>3, AnswerFlags
<1>4. CASE StopOrRestart /\ ~nfc.restart
  <2>1. /\ nfc' = [nfc EXCEPT !.started = FALSE]
        /\ UNCHANGED <<pc, req, otk, ltd, hist>>
    BY <1>4 DEF StopOrRestart, Stopped
  <2>2. /\ nfc'.exec = nfc.exec /\ nfc'.processing = nfc.processing
        /\ nfc'.hasRead = nfc.hasRead /\ nfc'.started = FALSE
    BY <1>0, <2>1, PhaseFlags
  <2>3. NothingLeft'
    BY <1>0, <2>1, <2>2 DEF NothingLeft, RequestUnlock, UnlockSteps
  <2>4. Phase' = Phase
    BY <2>1, <2>2, <2>3, PhaseIs, PhaseIsNext DEF PhaseTable, NothingLeft
  <2> QED BY <2>1, <2>3, <2>4 DEF Moved, Session!session
<1> QED BY <1>1, <1>2, <1>3, <1>4

\* A field event takes the stored request up, and then only once.
LEMMA HandOverMoved ==
  ASSUME Inv, NothingLeft, pc # "off", HandOver
  PROVE  Moved
<1> DEFINE p == [nfc EXCEPT !.processing = TRUE]
<1>1. /\ p \in NfcFlags /\ p.processing = TRUE /\ p.exec = nfc.exec
      /\ p.started = nfc.started
  BY PhaseFlags DEF Inv, TypeOK
<1>2. nfc' = [p EXCEPT !.restart = TRUE]
  BY DEF HandOver
<1> HIDE DEF p
<1>3. nfc'.processing = TRUE /\ nfc'.exec = nfc.exec /\ nfc'.started = nfc.started
  BY <1>1, <1>2, OtherFlags DEF SameFlags
<1>4. /\ req.cmd # "INVALID" /\ nfc.exec = "NA" /\ ~nfc.processing
      /\ UNCHANGED <<pc, req, otk, ltd>>
  BY DEF HandOver, Pending
<1>5. RequestUnlock' => RequestUnlock
  BY ForRequestKept DEF HandOver
<1>6. hist'.changes = hist.changes
  BY DEF HandOver, Inv, TypeOK, Histories
<1>7. NothingLeft'
  BY <1>3, <1>4, <1>5 DEF NothingLeft, Taken
<1>8. Phase = "requested"
  BY <1>4, PhaseIs DEF PhaseTable
<1>9. Phase' = "taken"
  BY <1>3, <1>4, <1>7, PhaseIsNext DEF PhaseTable
<1> QED BY <1>4, <1>6, <1>7, <1>8, <1>9 DEF Moved, Session!Next, Session!Take

\* A field event takes a request up or only moves the detector.
LEMMA FieldMoved ==
  ASSUME Inv, NothingLeft, FieldOn \/ FieldOff
  PROVE  Moved
<1>0. pc # "off" /\ nfc \in NfcFlags /\ ltd \in LtdFlags
  BY DEF FieldOn, FieldOff, Inv, TypeOK
<1>1. CASE HandOver
  BY <1>0, <1>1, HandOverMoved
<1>2. CASE PowerOff
  BY <1>0, <1>2, OffMoved
<1>3. CASE /\ UNCHANGED <<pc, req, otk>> /\ hist'.changes = hist.changes
           /\ \/ UNCHANGED queue \/ queue' = Put(queue, "stop")
              \/ CanStandby(ltd, queue) /\ queue' = StandbyQueue(ltd, queue)
           /\ ltd' \in {ltd, Paused(ltd), StandbyLtd(Paused(ltd))}
           /\ \/ nfc' = [nfc EXCEPT !.polling = TRUE]
              \/ nfc' = [nfc EXCEPT !.polling = FALSE]
              \/ nfc' = [nfc EXCEPT !.restart = FALSE]
  <2>1. SameFlags(nfc', nfc)
    BY <1>0, <1>3, OtherFlags
  <2>2. ltd'.confirm = ltd.confirm
    BY <1>0, <1>3, StandbyConfirm
  <2>3. Quiet
    BY <1>3, <2>1, <2>2, ForRequestKept DEF Quiet
  <2> QED BY <1>3, <2>3, QuietMoved
<1>4. CASE FieldOn /\ ~HandOver
  BY <1>3, <1>4 DEF FieldOn
<1>5. CASE FieldOff /\ ~HandOver /\ ~PowerOff
  <2>1. \/ UNCHANGED hist
        \/ hist' = [hist EXCEPT !.raced =
             @ \/ (nfc.polling /\ ~ltd.running /\ MidStart)]
    BY <1>5 DEF FieldOff
  <2>2. hist'.changes = hist.changes
    BY <2>1 DEF Inv, TypeOK, Histories
  <2> QED BY <1>3, <1>5, <2>2 DEF FieldOff
<1> QED BY <1>1, <1>2, <1>4, <1>5

\* A complete read of a result.
LEMMA ReadMoved ==
  ASSUME Inv, NothingLeft, NdefRead
  PROVE  Moved
<1> DEFINE r == [nfc EXCEPT !.hasRead = TRUE]
<1>0. /\ pc # "off" /\ nfc.started /\ req.cmd # "INVALID" /\ nfc.exec # "NA"
      /\ ltd.confirm = FALSE /\ nfc \in NfcFlags /\ nfc.hasRead \in BOOLEAN
      /\ UNCHANGED <<pc, req, otk, ltd, hist>> /\ ~RequestUnlock'
  <2>1. ltd.confirm \in BOOLEAN /\ nfc \in NfcFlags /\ nfc.hasRead \in BOOLEAN
    BY DEF Inv, TypeOK, LtdFlags, NfcFlags
  <2>2. ~RequestUnlock'
    BY ForRequestKept DEF NdefRead, NothingLeft, Taken
  <2> QED BY <2>1, <2>2 DEF NdefRead, ReaderActive, NothingLeft
<1>1. /\ r \in NfcFlags /\ r.hasRead = TRUE /\ r.exec = nfc.exec
      /\ r.processing = nfc.processing /\ r.started = nfc.started
  BY <1>0, PhaseFlags
<1>2. nfc' = [r EXCEPT !.restart = TRUE]
  BY DEF NdefRead
<1> HIDE DEF r
<1>3. /\ nfc'.hasRead = TRUE /\ nfc'.exec = nfc.exec
      /\ nfc'.processing = nfc.processing /\ nfc'.started = nfc.started
  BY <1>1, <1>2, OtherFlags DEF SameFlags
<1>4. NothingLeft'
  BY <1>0, <1>3 DEF NothingLeft
<1>5. Phase' = "read"
  BY <1>0, <1>3, <1>4, PhaseIsNext DEF PhaseTable
<1>6. Phase = "read" \/ Phase = "answered"
  BY <1>0, PhaseIs DEF PhaseTable
<1> QED BY <1>0, <1>4, <1>5, <1>6 DEF Moved, Session!Next, Session!Read, Session!session

\* A write stores the first request of a session, or overwrites it.
LEMMA WriteMoved ==
  ASSUME Inv, NothingLeft, NdefUpdated \/ NdefRejected \/ NdefIgnored
  PROVE  Moved
<1>0. /\ pc # "off" /\ nfc \in NfcFlags
      /\ UNCHANGED <<pc, queue, otk, ltd, hist>> /\ ~RequestUnlock'
  <2>1. nfc.started /\ UNCHANGED <<pc, queue, otk, ltd, hist>>
    BY DEF NdefUpdated, NdefRejected, NdefIgnored, ReaderActive
  <2>2. ~RequestUnlock'
    BY <2>1 DEF Inv, UnlockHeld, RequestUnlock, ForRequest
  <2> QED BY <2>1, <2>2 DEF NdefUpdated, NdefRejected, NdefIgnored, ReaderActive,
          Inv, TypeOK
<1>1. CASE nfc' \in {nfc, [nfc EXCEPT !.security = TRUE]} /\ UNCHANGED req
  <2>1. SameFlags(nfc', nfc)
    <3>1. SameFlags([nfc EXCEPT !.security = TRUE], nfc) /\ SameFlags(nfc, nfc)
      BY <1>0, OtherFlags DEF SameFlags
    <3> QED BY <1>1, <3>1
  <2>2. Quiet
    BY <1>0, <1>1, <2>1 DEF Quiet
  <2> QED BY <1>0, <2>2, QuietMoved
<1>2. ASSUME NEW w \in Written, NEW b \in BOOLEAN, Store(w, b)
      PROVE  Moved
  <2> DEFINE m == IF w.opt.present THEN w.opt.more ELSE nfc.more
             s == nfc.security \/ b
             n == [nfc EXCEPT !.more = m]
  <2>1. req'.cmd # "INVALID"
    BY <1>2, CommandsAssumption DEF Store, Written, AllCommands
  <2>2. m \in BOOLEAN /\ s \in BOOLEAN
    BY <1>0, <1>2 DEF NfcFlags, Written, Options
  <2>3. nfc' = [n EXCEPT !.security = s]
    BY <1>2 DEF Store
  <2> HIDE DEF m, s
  <2>4. n \in NfcFlags /\ SameFlags(n, nfc)
    BY <1>0, <2>2, OtherFlags
  <2> HIDE DEF n
  <2>5. SameFlags(nfc', nfc)
    <3>1. SameFlags(nfc', n)
      BY <2>2, <2>3, <2>4, OtherFlags
    <3> QED BY <2>4, <3>1 DEF SameFlags
  <2>6. CASE req.cmd # "INVALID"
    <3>1. Quiet
      BY <1>0, <2>1, <2>5, <2>6 DEF Quiet
    <3> QED BY <1>0, <3>1, QuietMoved
  <2>7. CASE req.cmd = "INVALID"
    <3>1. nfc'.exec = "NA" /\ ~nfc'.processing
      BY <2>5, <2>7 DEF NothingLeft, SameFlags
    <3>2. NothingLeft'
      BY <1>0, <2>1, <2>5 DEF NothingLeft, SameFlags
    <3>3. Phase = "ready" /\ Phase' = "requested"
      BY <1>0, <2>1, <2>7, <3>1, <3>2, PhaseIs, PhaseIsNext DEF PhaseTable
    <3> QED BY <1>0, <3>2, <3>3 DEF Moved, Session!Next, Session!Write
  <2> QED BY <2>6, <2>7
<1> QED BY <1>1, <1>2 DEF NdefUpdated, NdefRejected, NdefIgnored

\* Power up, and power lost.
LEMMA PowerMoved ==
  ASSUME Inv, NothingLeft, Boot \/ BootAborted \/ PowerLoss
  PROVE  Moved
<1>1. CASE PowerLoss
  BY <1>1, OffMoved DEF PowerLoss
<1>2. CASE BootAborted
  <2>1. Quiet /\ UNCHANGED <<otk, hist>>
    BY <1>2 DEF BootAborted, Quiet, SameFlags, RequestUnlock, ForRequest
  <2> QED BY <2>1, QuietMoved
<1>3. CASE Boot
  <2>1. /\ pc = "off" /\ pc' = "bootStart" /\ UNCHANGED <<req, hist>>
        /\ req.cmd = "INVALID" /\ ~otk.auth
    BY <1>3 DEF Boot, NothingLeft
  <2>2. otk'.auth = FALSE
    <3>1. PICK seen \in LockSeen(enrolled) : otk' = [locked |-> seen, auth |-> FALSE]
      BY <1>3 DEF Boot
    <3> QED BY <3>1
  <2>3. nfc'.exec = "NA" /\ nfc'.processing = FALSE
    BY <1>3 DEF Boot, NfcReset
  <2>4. ltd'.confirm = FALSE
    BY <1>3 DEF Boot, Inv, OffIsReset, LtdReset
  <2>5. NothingLeft'
    BY <2>1, <2>3, <2>4 DEF NothingLeft, RequestUnlock, UnlockSteps
  <2>6. Phase = "off" /\ Phase' = "ready"
    BY <2>1, <2>5, PhaseIs, PhaseIsNext DEF PhaseTable
  <2>7. otk'.auth = otk.auth
    BY <2>1, <2>2 DEF Inv, TypeOK, OtkFlags
  <2> QED BY <2>1, <2>5, <2>6, <2>7 DEF Moved, Session!Next, Session!PowerUp
<1> QED BY <1>1, <1>2, <1>3

\* A step that authorises anew grants, if it is quiet otherwise.
LEMMA GrantMoved ==
  ASSUME Inv, NothingLeft, pc # "off", Quiet, otk'.auth, hist'.changes = 0
  PROVE  Moved
<1>1. Phase' = Phase /\ NothingLeft'
  BY QuietPhase
<1>2. Phase # "off"
  BY PhaseIs DEF PhaseTable
<1>3. ~(hist'.changes > 0)
  OBVIOUS
<1> QED BY <1>1, <1>2, <1>3 DEF Moved, Session!Next, Session!Grant

\* The detector and what its touches ask for: a finger or a reset's touch
\* grants, the rest is quiet or ends the session.
LEMMA DetectorMoved ==
  ASSUME Inv, NothingLeft, RunDetector \/ LongTouch \/ Rekey
  PROVE  Moved
<1>0. /\ nfc \in NfcFlags /\ ltd \in LtdFlags /\ otk \in OtkFlags /\ hist \in Histories
      /\ pc # "off"
  BY DEF RunDetector, LongTouch, LtdBegin, LtdKilled, MatchFound, MatchFailed,
     EnrollEnd, LtdTouch, LtdUnlock, LtdShutdown, LtdResetConfirmed, Rekey, Inv, TypeOK
<1>1. Ended \in LtdFlags /\ Ended.confirm = ltd.confirm
  BY <1>0 DEF Ended, LtdFlags
<1>2. CASE LtdBegin \/ LtdKilled \/ LtdTouch
  <2>1. ~RequestUnlock'
    BY <1>2 DEF LtdBegin, LtdKilled, LtdTouch, RequestUnlock, UnlockSteps
  <2>2. hist'.changes = hist.changes
    BY <1>2, HistAtEndType DEF LtdBegin, LtdKilled, LtdTouch
  <2>3. Quiet /\ UNCHANGED otk
    BY <1>0, <1>1, <1>2, <2>1 DEF LtdBegin, LtdKilled, LtdTouch, Quiet, SameFlags
  <2> QED BY <2>2, <2>3, QuietMoved
<1>3. CASE MatchFailed \/ EnrollEnd \/ LtdShutdown \/ Rekey
  BY <1>0, <1>3, OffMoved DEF MatchFailed, EnrollEnd, LtdShutdown, Rekey
<1>4. CASE MatchFound
  <2>1. /\ pc = "match" /\ pc' = "start" /\ otk' = [otk EXCEPT !.auth = TRUE]
        /\ hist' = [hist EXCEPT !.changes = 0]
        /\ nfc' = [nfc EXCEPT !.restart = TRUE] /\ queue' = Put(queue, "stop")
        /\ UNCHANGED <<req, ndef, ltd, field>>
    BY <1>4 DEF MatchFound
  <2>2. queue # << >> /\ Head(queue) = "ltd" /\ queue \in Queues
    BY <2>1 DEF Inv, TypeOK, SlotHeld, TouchSteps
  <2>3. Head(queue') = "ltd"
    BY <2>1, <2>2, PutType DEF Tasks
  <2>4. Quiet
    <3>1. SameFlags(nfc', nfc)
      BY <1>0, <2>1, OtherFlags
    <3> QED BY <1>0, <2>1, <2>3, <3>1 DEF Quiet, RequestUnlock, ForRequest
  <2>5. otk'.auth /\ hist'.changes = 0
    BY <1>0, <2>1, GrantType DEF OtkFlags
  <2> QED BY <1>0, <2>4, <2>5, GrantMoved
<1>5. CASE LtdUnlock \/ LtdResetConfirmed
  <2>1. /\ pc = "ltd" /\ pc' # "off" /\ ltd' = Ended /\ UNCHANGED <<nfc, req>>
        /\ pc' = "idle" \/ UNCHANGED queue
    BY <1>5 DEF LtdUnlock, LtdResetConfirmed
  <2>2. Head(queue) = "ltd"
    BY <2>1 DEF Inv, SlotHeld, TouchSteps
  <2>3. ~RequestUnlock'
    BY <2>1, <2>2 DEF RequestUnlock, UnlockSteps, ForRequest
  <2>4. Quiet
    BY <1>1, <2>1, <2>3 DEF Quiet, SameFlags
  <2>5. CASE LtdUnlock
    BY <2>4, <2>5, HistAtEndType, QuietMoved DEF LtdUnlock
  <2>6. CASE LtdResetConfirmed
    <3>1. hist'.changes = 0
      BY <2>6, HistAtEndType, GrantType DEF LtdResetConfirmed
    <3>2. otk'.auth
      BY <1>0, <2>6 DEF LtdResetConfirmed, OtkFlags
    <3> QED BY <1>0, <2>4, <3>1, <3>2, GrantMoved
  <2> QED BY <1>5, <2>5, <2>6
<1> QED BY <1>2, <1>3, <1>4, <1>5 DEF RunDetector, LongTouch

\* OTK_unlock's erase uses the authorisation up, for a request or a touch.
LEMMA UseMoved ==
  ASSUME Inv, NothingLeft, UnlockErase
  PROVE  Moved
<1>1. /\ pc = "unlock" /\ pc' = "start" /\ ltd' = Paused(ltd)
      /\ UNCHANGED <<queue, nfc, req, ndef, field>>
  BY DEF UnlockErase
<1>2. otk.auth
  BY <1>1 DEF Inv, UnlockHeld
<1>3. ~otk'.auth
  BY DEF UnlockErase, Unlocked
<1>4. ltd'.confirm = ltd.confirm
  BY <1>1, StandbyConfirm DEF Inv, TypeOK
<1>5. Quiet
  BY <1>1, <1>4 DEF Quiet, SameFlags, RequestUnlock, ForRequest, UnlockSteps
<1>6. Phase' = Phase /\ NothingLeft'
  BY <1>5, QuietPhase
<1>7. (hist'.changes > 0) \in BOOLEAN
  OBVIOUS
<1> QED BY <1>2, <1>3, <1>6, <1>7 DEF Moved, Session!Next, Session!Use

\* The end of the start is quiet, or publishes the answer of an UNLOCK.
LEMMA ReturnsMoved ==
  ASSUME Inv, NothingLeft, NEW l \in LtdFlags, l.confirm = ltd.confirm,
         StandbyReturns(l), pc \in {"start", "flag"} \cup BootSteps
  PROVE  Moved
<1>1. CASE pc \notin BootSteps /\ ForRequest
  <2> DEFINE n == [nfc EXCEPT !.exec = nfc.execState]
  <2>1. RequestUnlock
    BY <1>1 DEF RequestUnlock, UnlockSteps
  <2>2. Answer(n, otk, l, hist)
    BY <1>1 DEF StandbyReturns
  <2>3. /\ n \in NfcFlags /\ n.exec # "NA" /\ n.processing = nfc.processing
        /\ n.hasRead = nfc.hasRead
    <3>1. nfc.execState \in {"SUCCESS", "FAIL"}
      BY DEF Inv, TypeOK, NfcFlags
    <3> QED BY <3>1, OutcomeFlags
  <2> HIDE DEF n
  <2> QED BY <2>1, <2>2, <2>3, ServeMoved
<1>2. CASE ~(pc \notin BootSteps /\ ForRequest)
  <2>1. /\ pc' \in {"idle", "rekey"} /\ ltd' = l /\ UNCHANGED <<nfc, req, otk, hist>>
    BY <1>2 DEF StandbyReturns
  <2>2. Quiet
    BY <2>1 DEF Quiet, SameFlags, RequestUnlock, UnlockSteps, BootSteps
  <2> QED BY <2>1, <2>2, QuietMoved
<1> QED BY <1>1, <1>2

\* Testing, putting and flagging are quiet up to the return.
LEMMA StartMoved ==
  ASSUME Inv, NothingLeft, StartTest \/ StartPut \/ StartFlag
  PROVE  Moved
<1> DEFINE f == [ltd EXCEPT !.running = TRUE]
           k == [ltd EXCEPT !.kill = FALSE]
<1>1. /\ ltd \in LtdFlags /\ f \in LtdFlags /\ f.confirm = ltd.confirm
      /\ k.confirm = ltd.confirm /\ pc # "off"
      /\ pc \in {"start", "put", "flag"} \cup BootSteps
  BY DEF StartTest, StartPut, StartFlag, BootSteps, Inv, TypeOK, LtdFlags
<1>2. CASE PowerOff
  BY <1>1, <1>2, OffMoved
<1>3. CASE StartTest /\ StandbyReturns(ltd)
  BY <1>1, <1>3, ReturnsMoved DEF StartTest
<1>4. CASE StartFlag
  <2>1. StandbyReturns(f) /\ pc \in {"start", "flag"} \cup BootSteps
    BY <1>4 DEF StartFlag, BootSteps
  <2> HIDE DEF f
  <2> QED BY <1>1, <2>1, ReturnsMoved
<1>5. CASE /\ pc' = (CASE pc = "start" -> "put" [] pc = "bootStart" -> "bootPut"
                      [] pc = "put" -> "flag" [] pc = "bootPut" -> "bootFlag")
           /\ pc \in {"start", "bootStart", "put", "bootPut"}
           /\ ltd' \in {ltd, k}
           /\ UNCHANGED queue \/ (Len(queue) < QueueSize /\ queue' = Append(queue, "ltd"))
           /\ UNCHANGED <<nfc, req, otk, hist>>
  <2>1. queue # << >> => Head(queue') = Head(queue)
    BY <1>5, AppendType DEF Tasks, Inv, TypeOK
  <2>2. RequestUnlock' => RequestUnlock
    <3>1. pc \in {"start", "put"} => queue # << >>
      BY DEF Inv, SlotHeld, UnlockSteps
    <3> QED BY <1>5, <2>1, <3>1 DEF RequestUnlock, ForRequest, UnlockSteps
  <2>3. Quiet
    BY <1>1, <1>5, <2>2 DEF Quiet, SameFlags
  <2> QED BY <1>5, <2>3, QuietMoved
<1>6. CASE StartTest /\ ~PowerOff /\ ~StandbyReturns(ltd)
  BY <1>5, <1>6 DEF StartTest
<1>7. CASE StartPut /\ ~PowerOff
  BY <1>5, <1>7 DEF StartPut
<1> QED BY <1>2, <1>3, <1>4, <1>6, <1>7

(***************************************************************************)
(* The refinement.                                                         *)
(***************************************************************************)
\* Every step of the core is one of the session or none.
LEMMA CoreMoves == Inv /\ NothingLeft /\ [Next]_vars => Moved
<1> SUFFICES ASSUME Inv, NothingLeft, [Next]_vars PROVE Moved
  OBVIOUS
<1>1. CASE UNCHANGED vars
  <2>1. Quiet /\ UNCHANGED <<otk, hist>>
    BY <1>1 DEF vars, Quiet, SameFlags, RequestUnlock, ForRequest
  <2> QED BY <2>1, QuietMoved
<1> QED BY <1>1, PowerMoved, FieldMoved, ReadMoved, WriteMoved, StopMoved,
        ExecuteMoved, RetireMoved, DetectorMoved, UseMoved, StartMoved
        DEF Next, Interrupt, RunStopTask, RunUnlock

\* A device that was never on has no session.
LEMMA InitSession == Init => NothingLeft /\ Session!Init
<1> SUFFICES ASSUME Init PROVE NothingLeft /\ Session!Init
  OBVIOUS
<1>1. NothingLeft
  BY DEF Init, NothingLeft, NoRequest, NfcReset, LtdReset, RequestUnlock, UnlockSteps
<1>2. Phase = "off"
  BY <1>1, PhaseIs DEF Init, PhaseTable
<1>3. ~otk.auth /\ ~(hist.changes > 0)
  BY DEF Init, NoHistory
<1> QED BY <1>1, <1>2, <1>3 DEF Session!Init

\* nfc.c, otk.c and fps.c together keep the session: a request is taken up
\* once, answered before it is read, read before it is dropped or a reset
\* awaits its touch, and every authorisation buys one change.
THEOREM CoreImplementsSession == Spec => ImplementsSession
<1>1. Inv /\ NothingLeft /\ [Next]_vars => NothingLeft'
  BY CoreMoves DEF Moved
<1>2. Inv /\ NothingLeft /\ [Next]_vars => [Session!Next]_(Session!session)
  BY CoreMoves DEF Moved
<1> QED BY <1>1, <1>2, InitSession, Invariance, PTL
        DEF Spec, ImplementsSession, Session!Spec
=============================================================================

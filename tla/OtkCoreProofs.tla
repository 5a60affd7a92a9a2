---------------------------- MODULE OtkCoreProofs ----------------------------
(***************************************************************************)
(* Proofs about the control core, for every set of commands, every queue   *)
(* size and every PIN policy: the inductive invariant, then from it the    *)
(* action properties, the two invariants about the outcome of requests,    *)
(* and what the scheduler queue holds of detectors, races of starts        *)
(* included.                                                               *)
(***************************************************************************)
EXTENDS OtkCore, SequenceTheorems, TLAPS

\* What the main loop executes of the detector's code, and of OTK_unlock.
TouchSteps == {"ltd", "match", "enroll"}
UnlockSteps == {"unlock", "start", "put", "flag"}

\* The main loop holds the queue slot of the task that it is executing.
SlotHeld ==
  /\ pc \in TouchSteps \cup UnlockSteps \cup {"rekey"} => queue # << >>
  /\ pc \in TouchSteps => Head(queue) = "ltd"

\* OTK_unlock is called by an authorised user, and for a request with NFC
\* stopped and nothing rejected, executed or read.
UnlockHeld ==
  /\ pc = "unlock" => otk.auth
  /\ pc \in UnlockSteps /\ ForRequest =>
       ~nfc.started /\ ~nfc.security /\ nfc.exec = "NA"

\* A device that is off has no session behind it, and no rejected request.
OffIsReset ==
  pc = "off" => /\ hist = NoHistory /\ ~nfc.security
                /\ queue = << >> /\ ltd = LtdReset

\* What the tag shows, unless a reader has written over it, is the execution
\* state of the command executed last.
ResultShown ==
  /\ nfc.hasRead => nfc.exec # "NA"
  /\ nfc.exec # "NA" => ndef.raw \/ (ndef.exec = nfc.exec /\ ndef.of = hist.of)

\* The inductive invariant.
Inv ==
  TypeOK /\ SlotHeld /\ UnlockHeld /\ OffIsReset /\ ResultShown /\ OneChangePerGrant


(***************************************************************************)
(* The queue.                                                              *)
(***************************************************************************)

\* Adding a task to a queue with a free slot leaves a legal queue, whose
\* first task is still the first.
LEMMA AppendType ==
  ASSUME NEW q \in Queues, NEW t \in Tasks, Len(q) < QueueSize
  PROVE  /\ Append(q, t) \in Queues /\ Append(q, t) # << >>
         /\ q # << >> => Head(Append(q, t)) = Head(q)
<1>1. /\ Append(q, t) \in Seq(Tasks)
      /\ Append(q, t) # << >>
      /\ Len(Append(q, t)) = Len(q) + 1
      /\ Len(q) \in Nat
      /\ \A i \in 1..Len(q) : Append(q, t)[i] = q[i]
  BY AppendProperties, LenProperties DEF Queues
<1>2. q # << >> => Head(Append(q, t)) = Head(q)
  <2>1. Head(Append(q, t)) = Append(q, t)[1]
    BY <1>1, HeadTailProperties
  <2>2. q # << >> => Head(q) = q[1] /\ 1 \in 1..Len(q)
    BY <1>1, HeadTailProperties, EmptySeq DEF Queues
  <2> QED BY <1>1, <2>1, <2>2
<1> QED BY <1>1, <1>2, QueueAssumption DEF Queues

\* A put leaves a legal, non-empty queue and the first task in its place.
LEMMA PutType ==
  ASSUME NEW q \in Queues, NEW t \in Tasks
  PROVE  /\ Put(q, t) \in Queues /\ Put(q, t) # << >>
         /\ q # << >> => Head(Put(q, t)) = Head(q)
<1>1. CASE Len(q) < QueueSize
  BY <1>1, AppendType DEF Put
<1>2. CASE ~(Len(q) < QueueSize)
  <2>1. Len(q) > 0
    BY <1>2, QueueAssumption, LenProperties DEF Queues
  <2> QED BY <1>2, <2>1 DEF Put
<1> QED BY <1>1, <1>2

\* Taking the running task's slot back leaves a legal queue.
LEMMA TailType ==
  ASSUME NEW q \in Queues, q # << >>
  PROVE  Tail(q) \in Queues
<1>1. /\ q \in Seq(Tasks) /\ Len(q) \in Nat /\ Len(q) <= QueueSize
      /\ Tail(q) \in Seq(Tasks)
      /\ Len(Tail(q)) = Len(q) - 1
  BY HeadTailProperties, LenProperties DEF Queues
<1> QED BY <1>1, QueueAssumption DEF Queues

\* Starting the detector when OTK_standby may leaves a legal queue, no
\* emptier than it was and with the same first task.
LEMMA StandbyType ==
  ASSUME NEW q \in Queues, NEW l \in LtdFlags, CanStandby(l, q)
  PROVE  /\ StandbyQueue(l, q) \in Queues
         /\ q # << >> => /\ StandbyQueue(l, q) # << >>
                         /\ Head(StandbyQueue(l, q)) = Head(q)
         /\ StandbyLtd(l) \in LtdFlags
<1>1. StandbyLtd(l) \in LtdFlags
  BY DEF StandbyLtd, LtdFlags
<1>2. CASE l.running
  BY <1>1, <1>2 DEF StandbyQueue
<1>3. CASE ~l.running
  BY <1>1, <1>3, AppendType DEF StandbyQueue, CanStandby, Tasks
<1> QED BY <1>2, <1>3

(***************************************************************************)
(* Values the handlers compute.                                            *)
(***************************************************************************)

\* The values after a reset have their types.
LEMMA ResetTypes ==
  /\ << >> \in Queues /\ NfcReset \in NfcFlags
  /\ NoRequest \in StoredRequests /\ BlankTag \in TagRecords
  /\ LtdReset \in LtdFlags /\ NoHistory \in Histories
<1>1. << >> \in Queues
  BY EmptySeq, QueueAssumption DEF Queues
<1>2. NfcReset \in NfcFlags
  BY DEF NfcReset, NfcFlags, ExecStates
<1>3. /\ NoRequest \in StoredRequests /\ BlankTag \in TagRecords
      /\ LtdReset \in LtdFlags /\ NoHistory \in Histories
  BY DEF NoRequest, StoredRequests, BlankTag, TagRecords, LtdReset,
         LtdFlags, NoHistory, Histories, Requests, AllPins, ExecStates
<1> QED BY <1>1, <1>2, <1>3

\* Switching off establishes the invariant, whatever was going on before.
LEMMA PowerOffInv ==
  ASSUME PowerOff, key' \in KeyObjects, enrolled' \in BOOLEAN
  PROVE  Inv'
<1>1. TypeOK'
  BY ResetTypes DEF PowerOff, TypeOK, OtkFlags, MainSteps
<1>2. SlotHeld' /\ UnlockHeld' /\ OffIsReset'
  BY DEF PowerOff, SlotHeld, UnlockHeld, OffIsReset, NfcReset, TouchSteps, UnlockSteps
<1>3. ResultShown' /\ OneChangePerGrant'
  BY DEF PowerOff, ResultShown, OneChangePerGrant, NfcReset, BlankTag, NoHistory
<1> QED BY <1>1, <1>2, <1>3 DEF Inv

\* The records nfc_setRecords builds are records a tag can show, and so is
\* what a reader writes over them.
LEMMA RecordsType ==
  ASSUME NEW e \in ExecStates, NEW r \in StoredRequests, NEW o \in Requests
  PROVE  /\ Records(e, r, o) \in TagRecords
         /\ Records(e, r, o).exec = e /\ Records(e, r, o).of = o
         /\ ReaderData \in TagRecords /\ ReaderData.raw
<1>1. /\ Records(e, r, o) \in TagRecords
      /\ Records(e, r, o).exec = e /\ Records(e, r, o).of = o
  BY DEF Records, TagRecords, StoredRequests
<1>2. ReaderData \in TagRecords /\ ReaderData.raw
  BY DEF ReaderData, BlankTag, TagRecords, Requests, ExecStates
<1> QED BY <1>1, <1>2

\* A matching finger clears the PIN counters, within their types.
LEMMA KeyAfterMatchType ==
  ASSUME TypeOK
  PROVE  KeyAfterMatch \in KeyObjects
<1> DEFINE k == [key EXCEPT !.failures = 0]
<1>1. key \in KeyObjects /\ 0 \in 0..MaxFailures
  BY PinAssumption DEF TypeOK
<1>2. k \in KeyObjects
  BY <1>1 DEF KeyObjects
<1>3. KeyAfterMatch = [k EXCEPT !.retry = 0]
  BY DEF KeyAfterMatch
<1> HIDE DEF k
<1> QED BY <1>2, <1>3 DEF KeyObjects

\* OTK_pinValidate keeps the failure count within the penalty table.
LEMMA KeyAfterPinType ==
  ASSUME TypeOK
  PROVE  KeyAfterPin \in KeyObjects
<1>1. KeyAfterMatch \in KeyObjects
  BY KeyAfterMatchType
<1>2. ASSUME key.failures < MaxFailures
      PROVE  KeyAfterMismatch \in KeyObjects
  <2>1. key.failures + 1 \in 0..MaxFailures
    BY <1>2, PinAssumption DEF TypeOK, KeyObjects
  <2>2. Penalty[key.failures + 1] \in Nat
    BY <2>1, PinAssumption
  <2> QED BY <2>1, <2>2 DEF KeyAfterMismatch, KeyObjects, TypeOK
<1> QED BY <1>1, <1>2 DEF KeyAfterPin, TypeOK

\* OTK_init counts reboots off the suspension, never below zero.
LEMMA KeyAfterBootType ==
  ASSUME TypeOK
  PROVE  KeyAfterBoot \in KeyObjects
BY PinAssumption DEF KeyAfterBoot, KeyObjects, TypeOK

\* A grant starts the count of changes anew.
LEMMA GrantType ==
  ASSUME NEW h \in Histories
  PROVE  /\ [h EXCEPT !.changes = 0] \in Histories
         /\ [h EXCEPT !.changes = 0].changes = 0
         /\ [h EXCEPT !.changes = 0].of = h.of
         /\ [h EXCEPT !.changes = 0].effect = h.effect
         /\ [h EXCEPT !.changes = 0].raced = h.raced
BY DEF Histories

\* A race that is over, or not, leaves the rest of the history alone.
LEMMA HistAtEndType ==
  ASSUME Inv
  PROVE  /\ HistAtEnd \in Histories /\ HistAtEnd.changes = hist.changes
         /\ HistAtEnd.of = hist.of /\ HistAtEnd.effect = hist.effect
         /\ HistAtEnd.raced = (hist.raced /\ Spare)
<1> DEFINE s == hist.raced /\ Spare
<1>1. s \in BOOLEAN /\ hist \in Histories
  BY DEF Inv, TypeOK, Histories
<1>2. HistAtEnd = [hist EXCEPT !.raced = s]
  BY DEF HistAtEnd
<1> HIDE DEF s
<1>3. /\ HistAtEnd \in Histories /\ HistAtEnd.changes = hist.changes
      /\ HistAtEnd.of = hist.of /\ HistAtEnd.effect = hist.effect
      /\ HistAtEnd.raced = s
  BY <1>1, <1>2 DEF Histories
<1> QED BY <1>3 DEF s

\* Validating a PIN leaves flags and history in their types, and a history
\* that allows an authorised user one change.
LEMMA PinType ==
  ASSUME Inv
  PROVE  /\ OtkAfterPin \in OtkFlags /\ LtdAfterPin \in LtdFlags
         /\ HistAfterPin \in Histories
         /\ HistAfterPin.changes <= 1
         /\ HistAfterPin.changes = 1 => ~Authorized
         /\ OtkAfterPin.auth = Authorized
<1>1. LtdAfterPin \in LtdFlags
  BY DEF LtdAfterPin, Paused, LtdFlags, Inv, TypeOK
<1>2. Authorized \in BOOLEAN
  BY DEF Authorized, PinMatched, PinTried, Inv, TypeOK, OtkFlags, KeyObjects
<1>3. OtkAfterPin \in OtkFlags /\ OtkAfterPin.auth = Authorized
  BY <1>2 DEF OtkAfterPin, OtkFlags, Inv, TypeOK
<1>4. CASE PinMatched
  <2>1. HistAfterPin \in Histories /\ HistAfterPin.changes = 0
    BY <1>4, GrantType DEF HistAfterPin, Inv, TypeOK
  <2> QED BY <1>1, <1>3, <2>1
<1>5. CASE ~PinMatched
  <2>1. HistAfterPin = hist /\ (Authorized => otk.auth)
    BY <1>5 DEF HistAfterPin, Authorized
  <2> QED BY <1>1, <1>3, <2>1 DEF Inv, TypeOK, OneChangePerGrant
<1> QED BY <1>4, <1>5

\* Validating a PIN keeps what the history says of commands and detectors.
LEMMA PinHistory ==
  ASSUME Inv
  PROVE  /\ HistAfterPin.of = hist.of /\ HistAfterPin.effect = hist.effect
         /\ HistAfterPin.raced = hist.raced
BY GrantType DEF HistAfterPin, Inv, TypeOK

\* Pausing the detector only changes a flag.
LEMMA PausedType ==
  ASSUME NEW l \in LtdFlags
  PROVE  Paused(l) \in LtdFlags /\ Paused(l).running = l.running
BY DEF Paused, LtdFlags

\* What became of a command.
Effects == {"none", "done", "refused", "undone"}

\* What execution does to the history.
LEMMA ExecutedType ==
  ASSUME Inv, NEW h \in Histories, NEW e \in Effects
  PROVE  /\ Executed(h, e) \in Histories /\ Executed(h, e).changes = h.changes
         /\ Executed(h, e).effect = e /\ Executed(h, e).of = req.cmd
         /\ Executed(h, e).raced = h.raced
<1> DEFINE x == [h EXCEPT !.effect = e]
           y == [x EXCEPT !.of = req.cmd]
<1>1. req.cmd \in Requests
  BY DEF Inv, TypeOK, StoredRequests
<1>2. x \in Histories /\ x.changes = h.changes /\ x.effect = e /\ x.raced = h.raced
  BY DEF Histories, Effects
<1> HIDE DEF x
<1>3. /\ y \in Histories /\ y.changes = h.changes
      /\ y.effect = e /\ y.of = req.cmd /\ y.raced = h.raced
  BY <1>1, <1>2 DEF Histories
<1>4. Executed(h, e) = [y EXCEPT !.lost = FALSE]
  BY DEF Executed, x
<1> HIDE DEF y
<1> QED BY <1>3, <1>4 DEF Histories

\* A change is counted.
LEMMA ChangedType ==
  ASSUME Inv, NEW h \in Histories
  PROVE  /\ Changed(h) \in Histories /\ Changed(h).changes = h.changes + 1
         /\ Changed(h).effect = "done" /\ Changed(h).raced = h.raced
<1> DEFINE x == Executed(h, "done")
<1>1. /\ x \in Histories /\ x.changes = h.changes /\ x.effect = "done"
      /\ x.raced = h.raced
  BY ExecutedType DEF Effects
<1>2. Changed(h) = [x EXCEPT !.changes = @ + 1]
  BY DEF Changed
<1> HIDE DEF x
<1> QED BY <1>1, <1>2 DEF Histories

\* Stopping the emulation leaves the field in its type.
LEMMA DeselectedType == Deselected \in {"none", "present", "selected"}
BY DEF Deselected

(***************************************************************************)
(* Steps that share a frame.                                               *)
(***************************************************************************)
\* A task that has ended leaves nothing held: typed values, a shown result
\* and a used-up authorisation are enough.
LEMMA TaskEndInv ==
  ASSUME Inv, pc' = "idle", queue' \in Queues, nfc' \in NfcFlags,
         req' \in StoredRequests, ndef' \in TagRecords, otk' \in OtkFlags,
         ltd' \in LtdFlags, key' \in KeyObjects, enrolled' \in BOOLEAN,
         field' \in {"none", "present", "selected"}, hist' \in Histories,
         ResultShown', OneChangePerGrant'
  PROVE  Inv'
<1>1. TypeOK'
  BY DEF TypeOK, MainSteps
<1>2. SlotHeld' /\ UnlockHeld' /\ OffIsReset'
  BY DEF SlotHeld, UnlockHeld, OffIsReset, TouchSteps, UnlockSteps
<1> QED BY <1>1, <1>2 DEF Inv

\* An interrupt adds tasks at the end of the queue, leaves the execution state
\* alone, and rejects or counts as read only while NFC is up.
LEMMA InterruptInv ==
  ASSUME Inv, pc # "off", pc' = pc, queue' \in Queues,
         queue # << >> => queue' # << >> /\ Head(queue') = Head(queue),
         nfc' \in NfcFlags, nfc'.started = nfc.started, nfc'.exec = nfc.exec,
         nfc'.hasRead => nfc.hasRead \/ nfc.exec # "NA",
         nfc'.security = nfc.security \/ nfc.started,
         req' \in StoredRequests, ndef' \in {ndef, ReaderData},
         ltd' \in LtdFlags, field' \in {"none", "present", "selected"},
         hist' \in Histories, hist'.changes = hist.changes, hist'.of = hist.of,
         UNCHANGED <<otk, key, enrolled>>
  PROVE  Inv'
<1>1. ReaderData \in TagRecords /\ ReaderData.raw
  BY RecordsType, ResetTypes DEF ExecStates, Requests
<1>2. TypeOK'
  BY <1>1 DEF TypeOK, Inv
<1>3. SlotHeld'
  BY DEF SlotHeld, Inv, TouchSteps, UnlockSteps
<1>4. UnlockHeld' /\ OffIsReset'
  <2>1. pc \in UnlockSteps => Head(queue') = Head(queue)
    BY DEF SlotHeld, Inv
  <2> QED BY <2>1 DEF UnlockHeld, OffIsReset, ForRequest, Inv
<1>5. ResultShown' /\ OneChangePerGrant'
  BY <1>1 DEF ResultShown, OneChangePerGrant, Inv
<1> QED BY <1>2, <1>3, <1>4, <1>5 DEF Inv

(***************************************************************************)
(* Answering a request.                                                    *)
(***************************************************************************)

\* Publishing an answer keeps the invariant, provided that the command left
\* typed flags, a used-up authorisation and an execution state behind.
LEMMA AnswerInv ==
  ASSUME Inv, queue # << >>, key' \in KeyObjects, enrolled' \in BOOLEAN,
         NEW n \in NfcFlags, NEW o \in OtkFlags, NEW l \in LtdFlags,
         NEW h \in Histories,
         n.hasRead => n.exec # "NA",
         h.changes <= 1, h.changes = 1 => ~o.auth,
         Answer(n, o, l, h)
  PROVE  Inv'
<1>1. CASE PowerOff
  BY <1>1, PowerOffInv
<1>2. CASE ~(n.exec = "SUCCESS" /\ req.cmd = "SIGN" /\ req.data = "bad")
  <2>1. /\ nfc' = [n EXCEPT !.restart = FALSE, !.started = TRUE]
        /\ ndef' = Records(n.exec, req, h.of)
        /\ ltd' \in {Paused(l), l}
        /\ otk' = o /\ queue' = Tail(queue) /\ hist' = h
        /\ field' = Deselected
        /\ pc' = "idle" /\ req' = req
    BY <1>2 DEF Answer
  <2>2. nfc' \in NfcFlags /\ nfc'.exec = n.exec /\ nfc'.hasRead = n.hasRead
    <3> DEFINE m == [n EXCEPT !.restart = FALSE]
    <3>1. m \in NfcFlags /\ m.exec = n.exec /\ m.hasRead = n.hasRead
      BY DEF NfcFlags
    <3>2. nfc' = [m EXCEPT !.started = TRUE]
      BY <2>1
    <3> HIDE DEF m
    <3> QED BY <3>1, <3>2 DEF NfcFlags
  <2>3. n.exec \in ExecStates /\ h.of \in Requests /\ req \in StoredRequests
    BY DEF NfcFlags, Histories, Inv, TypeOK
  <2>4. ndef' \in TagRecords /\ ndef'.exec = n.exec /\ ndef'.of = h.of
    BY <2>1, <2>3, RecordsType
  <2>5. ltd' \in LtdFlags /\ queue' \in Queues
    BY <2>1, PausedType, TailType DEF Inv, TypeOK
  <2>6. ResultShown' /\ OneChangePerGrant'
    BY <2>1, <2>2, <2>4 DEF ResultShown, OneChangePerGrant
  <2> QED BY <2>1, <2>2, <2>3, <2>4, <2>5, <2>6, DeselectedType, TaskEndInv
<1> QED BY <1>1, <1>2 DEF Answer

\* A command sets its execution state, alone, with the static _execState, or
\* with the count of denied requests.
LEMMA ExecType ==
  ASSUME Inv, NEW e \in ExecStates, NEW s \in {"SUCCESS", "FAIL"},
         NEW d \in Nat, NEW b \in BOOLEAN
  PROVE  /\ [nfc EXCEPT !.exec = e] \in NfcFlags
         /\ [nfc EXCEPT !.exec = e, !.execState = s] \in NfcFlags
         /\ [nfc EXCEPT !.exec = e, !.denied = d, !.security = b] \in NfcFlags
<1> DEFINE n == [nfc EXCEPT !.exec = e]
           m == [n EXCEPT !.denied = d]
<1>1. n \in NfcFlags
  BY DEF NfcFlags, Inv, TypeOK
<1> HIDE DEF n
<1>2. [n EXCEPT !.execState = s] \in NfcFlags /\ m \in NfcFlags
  BY <1>1 DEF NfcFlags
<1> HIDE DEF m
<1>3. [m EXCEPT !.security = b] \in NfcFlags
  BY <1>2 DEF NfcFlags
<1> QED BY <1>1, <1>2, <1>3 DEF n, m

\* The stop task that executes a request holds a slot and finds nothing read.
LEMMA NothingRead ==
  ASSUME Inv, ToExecute
  PROVE  ~nfc.hasRead /\ StopTask /\ queue # << >> /\ queue \in Queues
         /\ pc = "idle" /\ nfc.exec = "NA" /\ ~nfc.security /\ nfc.started
BY DEF ToExecute, Pending, StopTask, Inv, TypeOK, ResultShown

(***************************************************************************)
(* The invariant is inductive: requests.                                   *)
(***************************************************************************)
\* CANCEL is answered without an authorisation and keeps the invariant.
LEMMA CancelInv ==
  ASSUME Inv, ExecuteCancel
  PROVE  Inv'
<1> DEFINE n == [nfc EXCEPT !.exec = "SUCCESS"]
           h == Executed(hist, "done")
<1>1. /\ n \in NfcFlags /\ n.exec = "SUCCESS"
  <2>1. n \in NfcFlags
    BY ExecType DEF ExecStates
  <2> QED BY <2>1 DEF Inv, TypeOK, NfcFlags
<1>2. h \in Histories /\ h.changes = hist.changes
  BY ExecutedType DEF Inv, TypeOK, Effects
<1>3. /\ Answer(n, otk, ltd, h)
      /\ key' = key /\ enrolled' = enrolled
  BY DEF ExecuteCancel
<1>4. queue # << >>
  BY NothingRead DEF ExecuteCancel
<1> HIDE DEF n, h
<1> QED BY <1>1, <1>2, <1>3, <1>4, AnswerInv DEF Inv, TypeOK, OneChangePerGrant

\* Denying a request changes no authorisation and no configuration.
LEMMA DeniedInv ==
  ASSUME Inv, ExecuteDenied
  PROVE  Inv'
<1> DEFINE h == Executed(hist, "refused")
<1>1. Denied \in NfcFlags /\ Denied.exec = "FAIL"
  <2>1. nfc.denied + 1 \in Nat /\ (nfc.denied + 1 > MaxDenied) \in BOOLEAN
    BY PinAssumption DEF Inv, TypeOK, NfcFlags
  <2>2. Denied \in NfcFlags
    BY <2>1, ExecType DEF Denied, ExecStates
  <2> QED BY <2>2 DEF Denied, Inv, TypeOK, NfcFlags
<1>2. h \in Histories /\ h.changes = hist.changes
  BY ExecutedType DEF Inv, TypeOK, Effects
<1>3. /\ Answer(Denied, otk, LtdAfterPin, h)
      /\ key' = KeyAfterPin /\ enrolled' = enrolled
  BY DEF ExecuteDenied
<1>4. queue # << >>
  BY NothingRead DEF ExecuteDenied
<1>5. KeyAfterPin \in KeyObjects /\ LtdAfterPin \in LtdFlags
  BY KeyAfterPinType, PinType DEF Inv
<1> HIDE DEF h
<1> QED BY <1>1, <1>2, <1>3, <1>4, <1>5, AnswerInv
        DEF Inv, TypeOK, OneChangePerGrant

\* A command without effect on the configuration may grant by its PIN only.
LEMMA PlainInv ==
  ASSUME Inv, ExecutePlain
  PROVE  Inv'
<1> DEFINE e == IF PinError THEN "FAIL" ELSE "SUCCESS"
           f == IF PinError THEN "refused" ELSE PlainEffect
           n == Outcome(e)
           h == Executed(HistAfterPin, f)
<1>1. n \in NfcFlags /\ n.exec # "NA"
  <2>1. e \in {"SUCCESS", "FAIL"}
    OBVIOUS
  <2> HIDE DEF e
  <2>2. n \in NfcFlags
    BY <2>1, ExecType DEF Outcome, ExecStates
  <2> QED BY <2>1, <2>2 DEF Outcome, Inv, TypeOK, NfcFlags
<1>2. h \in Histories /\ h.changes = HistAfterPin.changes
  <2>1. f \in Effects
    BY DEF PlainEffect, Effects
  <2> HIDE DEF f
  <2> QED BY <2>1, ExecutedType, PinType
<1>3. /\ Answer(n, OtkAfterPin, LtdAfterPin, h)
      /\ key' = KeyAfterPin /\ enrolled' = enrolled
  BY DEF ExecutePlain
<1>4. queue # << >>
  BY NothingRead DEF ExecutePlain
<1>5. KeyAfterPin \in KeyObjects
  BY KeyAfterPinType DEF Inv
<1> HIDE DEF n, h
<1>6. h.changes <= 1 /\ (h.changes = 1 => ~OtkAfterPin.auth)
  BY <1>2, PinType
<1> QED BY <1>1, <1>2, <1>3, <1>4, <1>5, <1>6, PinType, AnswerInv
        DEF Inv, TypeOK

\* A change under an authorisation is the first one made under it.
LEMMA FirstChange ==
  ASSUME Inv, Authorized
  PROVE  HistAfterPin \in Histories /\ HistAfterPin.changes = 0
<1>1. /\ HistAfterPin \in Histories
      /\ HistAfterPin.changes <= 1 /\ HistAfterPin.changes # 1
  BY PinType
<1> QED BY <1>1 DEF Histories

\* A status left by an earlier command is a typed execution state.
LEMMA StaleExecType ==
  ASSUME Inv
  PROVE  LET n == [nfc EXCEPT !.exec = nfc.execState]
         IN  n \in NfcFlags /\ n.exec # "NA"
<1>1. nfc.execState \in {"SUCCESS", "FAIL"}
  BY DEF Inv, TypeOK, NfcFlags
<1>2. [nfc EXCEPT !.exec = nfc.execState] \in NfcFlags
  BY <1>1, ExecType DEF ExecStates
<1> QED BY <1>1, <1>2 DEF Inv, TypeOK, NfcFlags

\* A failed command reports a typed execution state.
LEMMA FailType ==
  ASSUME Inv
  PROVE  Outcome("FAIL") \in NfcFlags /\ Outcome("FAIL").exec = "FAIL"
<1>1. Outcome("FAIL") \in NfcFlags
  BY ExecType DEF Outcome, ExecStates
<1> QED BY <1>1 DEF Outcome, Inv, TypeOK, NfcFlags

\* A SET command is the first change under its authorisation and ends it.
LEMMA SetInv ==
  ASSUME Inv, ExecuteSet
  PROVE  Inv'
<1> DEFINE ok == req.data = "good"
           n  == IF ok THEN [nfc EXCEPT !.exec = nfc.execState]
                       ELSE Outcome("FAIL")
           l  == IF req.cmd = "SET_NOTE" THEN Paused(ltd) ELSE LtdAfterPin
           h  == IF ok THEN Changed(HistAfterPin)
                       ELSE Executed(HistAfterPin, "refused")
           o  == [otk EXCEPT !.auth = FALSE]
           k  == [KeyAfterPin EXCEPT !.pinSet = TRUE]
<1>1. n \in NfcFlags /\ n.exec # "NA"
  BY StaleExecType, FailType
<1>2. h \in Histories /\ h.changes <= 1
  <2>1. Authorized
    BY DEF ExecuteSet
  <2>2. /\ Changed(HistAfterPin) \in Histories
        /\ Changed(HistAfterPin).changes = 1
    BY <2>1, FirstChange, ChangedType
  <2>3. /\ Executed(HistAfterPin, "refused") \in Histories
        /\ Executed(HistAfterPin, "refused").changes = 0
    BY <2>1, FirstChange, ExecutedType DEF Effects
  <2> QED BY <2>2, <2>3
<1>3. o \in OtkFlags /\ ~o.auth
  BY DEF Inv, TypeOK, OtkFlags
<1>4. l \in LtdFlags
  BY PinType, PausedType DEF Inv, TypeOK
<1>5. KeyAfterPin \in KeyObjects /\ k \in KeyObjects
  <2>1. KeyAfterPin \in KeyObjects
    BY KeyAfterPinType DEF Inv
  <2> QED BY <2>1 DEF KeyObjects
<1>6. queue # << >>
  BY NothingRead DEF ExecuteSet
<1>7. /\ Answer(n, o, l, h)
      /\ key' \in {k, KeyAfterPin} /\ enrolled' = enrolled
  BY DEF ExecuteSet
<1> HIDE DEF n, l, h, o, k
<1>8. key' \in KeyObjects /\ enrolled' \in BOOLEAN
  BY <1>5, <1>7 DEF Inv, TypeOK
<1> QED BY <1>1, <1>2, <1>3, <1>4, <1>6, <1>7, <1>8, AnswerInv

\* Stopping NFC only changes a flag.
LEMMA StoppedType ==
  ASSUME Inv
  PROVE  /\ Stopped \in NfcFlags /\ ~Stopped.started
         /\ Stopped.exec = nfc.exec /\ Stopped.execState = nfc.execState
         /\ Stopped.hasRead = nfc.hasRead
         /\ Stopped.security = nfc.security /\ Stopped.denied = nfc.denied
         /\ Stopped.processing = nfc.processing /\ Stopped.polling = nfc.polling
BY DEF Stopped, NfcFlags, Inv, TypeOK

\* UNLOCK is refused, or goes on to OTK_unlock with NFC stopped and the
\* authorisation in hand.
LEMMA UnlockInv ==
  ASSUME Inv, ExecuteUnlock
  PROVE  Inv'
<1>1. /\ Authorized /\ StopTask /\ queue # << >> /\ ~nfc.hasRead
      /\ nfc.exec = "NA" /\ ~nfc.security
  BY NothingRead DEF ExecuteUnlock
<1>2. /\ KeyAfterPin \in KeyObjects
      /\ OtkAfterPin \in OtkFlags /\ LtdAfterPin \in LtdFlags
      /\ OtkAfterPin.auth
      /\ HistAfterPin \in Histories /\ HistAfterPin.changes = 0
  BY <1>1, KeyAfterPinType, PinType, FirstChange DEF Inv
<1>3. key' \in KeyObjects /\ enrolled' \in BOOLEAN
  BY <1>2 DEF ExecuteUnlock, Inv, TypeOK
<1>4. CASE ~otk.locked
  <2> DEFINE n == Outcome("FAIL")
             h == Executed(HistAfterPin, "refused")
  <2>1. n \in NfcFlags /\ n.exec # "NA"
    BY FailType
  <2>2. h \in Histories /\ h.changes = 0
    BY <1>2, ExecutedType DEF Effects
  <2>3. Answer(n, OtkAfterPin, LtdAfterPin, h)
    BY <1>4 DEF ExecuteUnlock
  <2> HIDE DEF n, h
  <2>4. h.changes <= 1 /\ h.changes # 1
    BY <2>2
  <2> QED BY <1>1, <1>2, <1>3, <2>1, <2>2, <2>3, <2>4, AnswerInv
<1>5. CASE otk.locked
  <2>1. /\ pc' = "unlock" /\ nfc' = Stopped /\ otk' = OtkAfterPin
        /\ ltd' = LtdAfterPin /\ hist' = HistAfterPin /\ field' = Deselected
        /\ UNCHANGED <<queue, req, ndef>>
    BY <1>5 DEF ExecuteUnlock
  <2>2. TypeOK'
    BY <1>2, <1>3, <2>1, StoppedType, DeselectedType DEF TypeOK, MainSteps, Inv
  <2>3. SlotHeld' /\ OffIsReset'
    BY <1>1, <2>1 DEF SlotHeld, OffIsReset, TouchSteps
  <2>4. UnlockHeld'
    BY <1>1, <1>2, <2>1, StoppedType DEF UnlockHeld
  <2>5. ResultShown' /\ OneChangePerGrant'
    BY <1>1, <1>2, <2>1, StoppedType DEF ResultShown, OneChangePerGrant
  <2> QED BY <2>2, <2>3, <2>4, <2>5 DEF Inv
<1> QED BY <1>4, <1>5

(***************************************************************************)
(* The invariant is inductive: stopping and retiring.                      *)
(***************************************************************************)

\* A stop task that finds NFC stopped, or that shuts the device down.
LEMMA StopInv ==
  ASSUME Inv, StopWhenStopped \/ StopForSecurity \/ RetireFinal
  PROVE  Inv'
<1>1. CASE StopWhenStopped
  <2>1. Tail(queue) \in Queues /\ pc' = "idle"
    BY <1>1, TailType DEF StopWhenStopped, StopTask, Inv, TypeOK
  <2>2. ResultShown' /\ OneChangePerGrant'
    BY <1>1 DEF StopWhenStopped, Inv, ResultShown, OneChangePerGrant
  <2> QED BY <1>1, <2>1, <2>2, TaskEndInv DEF StopWhenStopped, Inv, TypeOK
<1>2. CASE StopForSecurity \/ RetireFinal
  BY <1>2, PowerOffInv DEF StopForSecurity, RetireFinal, Inv, TypeOK
<1> QED BY <1>1, <1>2

\* What waiting for a reset's touch does to the flags.
LEMMA RetireResetFlags ==
  ASSUME Inv, RetireReset
  PROVE  /\ nfc' \in NfcFlags /\ nfc'.exec = nfc.exec /\ ~nfc'.hasRead
         /\ ~nfc'.started /\ ~nfc'.processing
         /\ nfc'.denied = nfc.denied /\ nfc'.security = nfc.security
<1> DEFINE b == [Stopped EXCEPT !.hasRead = FALSE]
<1>1. /\ b \in NfcFlags /\ b.exec = nfc.exec /\ ~b.hasRead /\ ~b.started
      /\ b.denied = nfc.denied /\ b.security = nfc.security
  BY StoppedType DEF NfcFlags
<1>2. nfc' = [b EXCEPT !.processing = FALSE]
  BY DEF RetireReset
<1> HIDE DEF b
<1> QED BY <1>1, <1>2 DEF NfcFlags

\* Waiting for the touch that confirms a reset keeps the last result.
LEMMA RetireResetInv ==
  ASSUME Inv, RetireReset
  PROVE  Inv'
<1>1. /\ Tail(queue) \in Queues /\ pc' = "idle"
      /\ [ltd EXCEPT !.confirm = TRUE] \in LtdFlags
  BY TailType DEF RetireReset, ToRetire, StopTask, Inv, TypeOK, LtdFlags
<1>2. ResultShown' /\ OneChangePerGrant'
  BY RetireResetFlags DEF RetireReset, Inv, ResultShown, OneChangePerGrant
<1> QED BY <1>1, <1>2, RetireResetFlags, DeselectedType, TaskEndInv
        DEF RetireReset, Inv, TypeOK

\* What clearing a request does to the flags.
LEMMA ClearedType ==
  ASSUME Inv
  PROVE  /\ Cleared \in NfcFlags /\ ~Cleared.hasRead /\ Cleared.exec = "NA"
         /\ Cleared.started = nfc.started /\ ~Cleared.processing
         /\ Cleared.denied = nfc.denied /\ Cleared.security = nfc.security
<1> DEFINE a == [nfc EXCEPT !.hasRead = FALSE]
           b == [a EXCEPT !.processing = FALSE]
           c == [b EXCEPT !.exec = "NA"]
<1>1. /\ a \in NfcFlags /\ ~a.hasRead /\ a.started = nfc.started
      /\ a.denied = nfc.denied /\ a.security = nfc.security
  BY DEF Inv, TypeOK, NfcFlags
<1> HIDE DEF a
<1>2. /\ b \in NfcFlags /\ ~b.hasRead /\ b.started = nfc.started /\ ~b.processing
      /\ b.denied = nfc.denied /\ b.security = nfc.security
  BY <1>1 DEF NfcFlags
<1> HIDE DEF b
<1>3. /\ c \in NfcFlags /\ ~c.hasRead /\ c.exec = "NA" /\ c.started = nfc.started
      /\ ~c.processing
      /\ c.denied = nfc.denied /\ c.security = nfc.security
  BY <1>2 DEF NfcFlags, ExecStates
<1>4. Cleared = [c EXCEPT !.restart = FALSE]
  BY DEF Cleared, a, b
<1> HIDE DEF c
<1> QED BY <1>3, <1>4 DEF NfcFlags

\* Clearing a request that was read clears the records with it.
LEMMA RetireClearInv ==
  ASSUME Inv, RetireClear
  PROVE  Inv'
<1> DEFINE h == [hist EXCEPT !.effect = "none"]
<1>1. h \in Histories /\ h.changes = hist.changes
  BY DEF Inv, TypeOK, Histories
<1>2. hist' = [h EXCEPT !.of = "INVALID"]
  BY DEF RetireClear
<1> HIDE DEF h
<1>3. hist' \in Histories /\ hist'.changes = hist.changes
  BY <1>1, <1>2 DEF Histories, Requests
<1>4. ndef' \in TagRecords /\ req' \in StoredRequests
  <2>1. ndef' = Records("NA", NoRequest, "INVALID") /\ req' = NoRequest
    BY DEF RetireClear
  <2> QED BY <2>1, ResetTypes, RecordsType DEF ExecStates, Requests
<1>5. Tail(queue) \in Queues /\ pc' = "idle"
  BY TailType DEF RetireClear, ToRetire, StopTask, Inv, TypeOK
<1>6. nfc' \in NfcFlags /\ ~nfc'.hasRead /\ nfc'.exec = "NA"
  BY ClearedType DEF RetireClear
<1>7. ResultShown' /\ OneChangePerGrant'
  BY <1>3, <1>6 DEF RetireClear, Inv, ResultShown, OneChangePerGrant
<1> QED BY <1>3, <1>4, <1>5, <1>6, <1>7, DeselectedType, TaskEndInv
        DEF RetireClear, Inv, TypeOK

\* Stopping or restarting NFC republishes the state there is.
LEMMA StopOrRestartInv ==
  ASSUME Inv, StopOrRestart
  PROVE  Inv'
<1>1. /\ StopTask /\ queue # << >> /\ pc = "idle" /\ ~nfc.hasRead
      /\ key' = key /\ enrolled' = enrolled
  BY DEF StopOrRestart, StopTask
<1>2. CASE nfc.restart
  BY <1>1, <1>2, AnswerInv DEF StopOrRestart, Inv, TypeOK, OneChangePerGrant
<1>3. CASE ~nfc.restart
  <2>1. /\ nfc' = Stopped /\ queue' = Tail(queue) /\ field' = Deselected
        /\ UNCHANGED <<pc, req, ndef, otk, ltd, hist>>
    BY <1>3 DEF StopOrRestart
  <2>2. Tail(queue) \in Queues
    BY <1>1, TailType DEF Inv, TypeOK
  <2>3. ResultShown' /\ OneChangePerGrant'
    BY <2>1, StoppedType DEF Inv, ResultShown, OneChangePerGrant
  <2> QED BY <1>1, <2>1, <2>2, <2>3, StoppedType, DeselectedType, TaskEndInv
          DEF Inv, TypeOK
<1> QED BY <1>2, <1>3

(***************************************************************************)
(* The invariant is inductive: the interrupt handler and power.            *)
(***************************************************************************)

\* The interrupt handler sets one flag at a time, or "read" with "restart".
LEMMA FlagType ==
  ASSUME Inv, NEW b \in BOOLEAN,
         NEW n \in {[nfc EXCEPT !.polling = b], [nfc EXCEPT !.restart = b]}
  PROVE  /\ n \in NfcFlags /\ n.started = nfc.started /\ n.exec = nfc.exec
         /\ n.hasRead = nfc.hasRead /\ n.security = nfc.security
         /\ n.denied = nfc.denied
BY DEF Inv, TypeOK, NfcFlags

\* What handing a request over does to the flags and the queue.
LEMMA HandOverFlags ==
  ASSUME Inv, HandOver
  PROVE  /\ nfc' \in NfcFlags /\ nfc'.started = nfc.started
         /\ nfc'.exec = nfc.exec /\ nfc'.hasRead = nfc.hasRead
         /\ nfc'.security = nfc.security /\ nfc'.denied = nfc.denied
         /\ hist' \in Histories /\ hist'.changes = hist.changes
         /\ hist'.of = hist.of /\ hist'.effect = hist.effect
         /\ hist'.raced = hist.raced
<1> DEFINE p == [nfc EXCEPT !.processing = TRUE]
           x == hist.lost \/ NoStopFits
<1>1. /\ p \in NfcFlags /\ p.started = nfc.started
      /\ p.exec = nfc.exec /\ p.hasRead = nfc.hasRead
      /\ p.security = nfc.security /\ p.denied = nfc.denied
  BY DEF Inv, TypeOK, NfcFlags
<1>2. nfc' = [p EXCEPT !.restart = TRUE]
  BY DEF HandOver
<1>3. x \in BOOLEAN /\ hist \in Histories
  BY DEF Inv, TypeOK, Histories
<1>4. hist' = [hist EXCEPT !.lost = x]
  BY DEF HandOver
<1> HIDE DEF p, x
<1>5. /\ nfc' \in NfcFlags /\ nfc'.started = nfc.started
      /\ nfc'.exec = nfc.exec /\ nfc'.hasRead = nfc.hasRead
      /\ nfc'.security = nfc.security /\ nfc'.denied = nfc.denied
  BY <1>1, <1>2 DEF NfcFlags
<1>6. /\ hist' \in Histories /\ hist'.changes = hist.changes
      /\ hist'.of = hist.of /\ hist'.effect = hist.effect
      /\ hist'.raced = hist.raced
  BY <1>3, <1>4 DEF Histories
<1> QED BY <1>5, <1>6

\* Handing a request over sets two flags and queues the stop task.
LEMMA HandOverInv ==
  ASSUME Inv, pc # "off", HandOver, field' \in {"none", "selected"}
  PROVE  Inv'
<1>1. /\ queue' \in Queues /\ queue' # << >>
      /\ queue # << >> => Head(queue') = Head(queue)
  BY PutType DEF HandOver, Tasks, Inv, TypeOK
<1> QED BY <1>1, HandOverFlags, InterruptInv DEF HandOver, Inv, TypeOK

\* A reader that selects the tag hands over a request or starts polling.
LEMMA FieldOnInv ==
  ASSUME Inv, FieldOn
  PROVE  Inv'
<1>1. CASE HandOver
  BY <1>1, HandOverInv DEF FieldOn
<1>2. CASE ~HandOver
  <2>1. /\ nfc' = [nfc EXCEPT !.polling = TRUE]
        /\ ltd' \in {ltd, Paused(ltd)}
        /\ field' = "selected" /\ pc # "off"
        /\ UNCHANGED <<pc, queue, req, ndef, otk, key, enrolled, hist>>
    BY <1>2 DEF FieldOn
  <2>2. /\ nfc' \in NfcFlags /\ nfc'.started = nfc.started
        /\ nfc'.exec = nfc.exec /\ nfc'.hasRead = nfc.hasRead
        /\ nfc'.security = nfc.security
    BY <2>1, FlagType
  <2>3. ltd' \in LtdFlags
    BY <2>1, PausedType DEF Inv, TypeOK
  <2> QED BY <2>1, <2>2, <2>3, InterruptInv DEF Inv, TypeOK
<1> QED BY <1>1, <1>2

\* A lost field may race the main loop's start of the detector; the rest of
\* the history stays.
LEMMA RacedType ==
  ASSUME Inv, NEW x \in BOOLEAN
  PROVE  LET h == [hist EXCEPT !.raced = x]
         IN  /\ h \in Histories /\ h.changes = hist.changes /\ h.of = hist.of
             /\ h.effect = hist.effect /\ h.raced = x
BY DEF Histories, Inv, TypeOK

\* What a lost field does when it neither hands over nor follows a rejection.
LEMMA FieldOffCases ==
  ASSUME Inv, FieldOff
  PROVE  \/ HandOver /\ field' = "none"
         \/ /\ nfc' = [nfc EXCEPT !.restart = FALSE]
            /\ queue' = Put(queue, "stop")
            /\ field' = "none"
            /\ UNCHANGED <<pc, req, ndef, otk, ltd, key, enrolled, hist>>
         \/ PowerOff /\ UNCHANGED <<key, enrolled>>
         \/ /\ nfc' = [nfc EXCEPT !.polling = FALSE] /\ field' = "none"
            /\ nfc.polling => CanStandby(ltd, queue)
            /\ ltd' = IF nfc.polling THEN StandbyLtd(Paused(ltd)) ELSE ltd
            /\ queue' = IF nfc.polling THEN StandbyQueue(ltd, queue) ELSE queue
            /\ \E x \in BOOLEAN :
                 /\ x <=> hist.raced \/ (nfc.polling /\ ~ltd.running /\ MidStart)
                 /\ hist' = [hist EXCEPT !.raced = x]
            /\ UNCHANGED <<pc, req, ndef, otk, key, enrolled>>
<1> DEFINE x == hist.raced \/ (nfc.polling /\ ~ltd.running /\ MidStart)
<1>1. x \in BOOLEAN
  OBVIOUS
<1>2. hist' = [hist EXCEPT !.raced = x] =>
        \E y \in BOOLEAN : (y <=> x) /\ hist' = [hist EXCEPT !.raced = y]
  <2> HIDE DEF x
  <2> QED BY <1>1
<1> QED BY <1>2 DEF FieldOff

\* A lost field hands over, stops NFC, or returns to standby.
LEMMA FieldOffInv ==
  ASSUME Inv, FieldOff
  PROVE  Inv'
<1>p. pc # "off"
  BY DEF FieldOff
<1>1. CASE HandOver /\ field' = "none"
  BY <1>1, <1>p, HandOverInv
<1>2. CASE /\ nfc' = [nfc EXCEPT !.restart = FALSE]
           /\ queue' = Put(queue, "stop")
           /\ field' = "none"
           /\ UNCHANGED <<pc, req, ndef, otk, ltd, key, enrolled, hist>>
  <2>1. /\ queue' \in Queues /\ queue' # << >>
        /\ queue # << >> => Head(queue') = Head(queue)
    BY <1>2, PutType DEF Tasks, Inv, TypeOK
  <2>2. /\ nfc' \in NfcFlags /\ nfc'.started = nfc.started
        /\ nfc'.exec = nfc.exec /\ nfc'.hasRead = nfc.hasRead
        /\ nfc'.security = nfc.security
    BY <1>2, FlagType
  <2> QED BY <1>2, <1>p, <2>1, <2>2, InterruptInv DEF Inv, TypeOK
<1>3. CASE PowerOff /\ UNCHANGED <<key, enrolled>>
  BY <1>3, PowerOffInv DEF Inv, TypeOK
<1>4. CASE /\ nfc' = [nfc EXCEPT !.polling = FALSE] /\ field' = "none"
           /\ nfc.polling => CanStandby(ltd, queue)
           /\ ltd' = IF nfc.polling THEN StandbyLtd(Paused(ltd)) ELSE ltd
           /\ queue' = IF nfc.polling THEN StandbyQueue(ltd, queue) ELSE queue
           /\ \E x \in BOOLEAN :
                /\ x <=> hist.raced \/ (nfc.polling /\ ~ltd.running /\ MidStart)
                /\ hist' = [hist EXCEPT !.raced = x]
           /\ UNCHANGED <<pc, req, ndef, otk, key, enrolled>>
  <2>1. /\ queue' \in Queues
        /\ queue # << >> => queue' # << >> /\ Head(queue') = Head(queue)
    BY <1>4, StandbyType DEF Inv, TypeOK
  <2>2. ltd' \in LtdFlags
    <3>1. Paused(ltd) \in LtdFlags /\ ltd \in LtdFlags
      BY PausedType DEF Inv, TypeOK
    <3>2. StandbyLtd(Paused(ltd)) \in LtdFlags
      BY <3>1 DEF StandbyLtd, LtdFlags
    <3> QED BY <1>4, <3>1, <3>2
  <2>3. /\ nfc' \in NfcFlags /\ nfc'.started = nfc.started
        /\ nfc'.exec = nfc.exec /\ nfc'.hasRead = nfc.hasRead
        /\ nfc'.security = nfc.security
    BY <1>4, FlagType
  <2>4. /\ hist' \in Histories /\ hist'.changes = hist.changes
        /\ hist'.of = hist.of
    BY <1>4, RacedType
  <2>5. field' = "none" /\ UNCHANGED <<pc, req, ndef, otk, key, enrolled>>
    BY <1>4
  <2> QED BY <1>p, <2>1, <2>2, <2>3, <2>4, <2>5, InterruptInv DEF Inv, TypeOK
<1> QED BY <1>1, <1>2, <1>3, <1>4, FieldOffCases

\* What a complete read does to the flags.
LEMMA ReadFlags ==
  ASSUME Inv, NdefRead
  PROVE  /\ nfc' \in NfcFlags /\ nfc'.started = nfc.started
         /\ nfc'.exec = nfc.exec /\ nfc'.security = nfc.security
         /\ nfc'.denied = nfc.denied /\ nfc.exec # "NA"
<1> DEFINE r == [nfc EXCEPT !.hasRead = TRUE]
<1>1. /\ r \in NfcFlags /\ r.started = nfc.started
      /\ r.exec = nfc.exec /\ r.security = nfc.security /\ r.denied = nfc.denied
  BY DEF Inv, TypeOK, NfcFlags
<1>2. nfc' = [r EXCEPT !.restart = TRUE] /\ nfc.exec # "NA"
  BY DEF NdefRead
<1> HIDE DEF r
<1> QED BY <1>1, <1>2 DEF NfcFlags

\* A complete read counts only when there is a result to read.
LEMMA NdefReadInv ==
  ASSUME Inv, NdefRead
  PROVE  Inv'
<1>1. /\ queue' \in Queues /\ queue' # << >>
      /\ queue # << >> => Head(queue') = Head(queue)
  BY PutType DEF NdefRead, Tasks, Inv, TypeOK
<1>2. pc # "off" /\ UNCHANGED <<pc, req, ndef, otk, ltd, key, enrolled, field, hist>>
  BY DEF NdefRead, ReaderActive
<1> QED BY <1>1, <1>2, ReadFlags, InterruptInv DEF Inv, TypeOK

\* A stored request has the type of one, rejected or not.
LEMMA StoreType ==
  ASSUME Inv, NEW w \in Written, NEW b \in BOOLEAN, Store(w, b)
  PROVE  /\ req' \in StoredRequests /\ nfc' \in NfcFlags
         /\ nfc'.exec = nfc.exec /\ nfc'.hasRead = nfc.hasRead
         /\ nfc'.started = nfc.started /\ nfc'.denied = nfc.denied
         /\ nfc.security => nfc'.security
         /\ ndef' = ReaderData
<1>1. /\ w.cmd \in AllCommands /\ w.data \in {"good", "bad", "void"}
      /\ w.opt.pin \in AllPins /\ w.opt.more \in BOOLEAN
  BY CommandsAssumption DEF Written, Options, AllPins
<1>2. req.pin \in AllPins
  BY DEF Inv, TypeOK, StoredRequests
<1>3. req' \in StoredRequests /\ ndef' = ReaderData
  BY <1>1, <1>2 DEF Store, StoredRequests, Requests
<1> DEFINE m == IF w.opt.present THEN w.opt.more ELSE nfc.more
           s == nfc.security \/ b
           n == [nfc EXCEPT !.more = m]
<1>4. m \in BOOLEAN /\ s \in BOOLEAN /\ (nfc.security => s)
  BY <1>1 DEF Inv, TypeOK, NfcFlags
<1>5. nfc' = [n EXCEPT !.security = s]
  BY DEF Store
<1> HIDE DEF m, s
<1>6. /\ n \in NfcFlags /\ n.exec = nfc.exec /\ n.hasRead = nfc.hasRead
      /\ n.started = nfc.started /\ n.denied = nfc.denied
  BY <1>4 DEF Inv, TypeOK, NfcFlags
<1> HIDE DEF n
<1>7. /\ nfc' \in NfcFlags
      /\ nfc'.exec = nfc.exec /\ nfc'.hasRead = nfc.hasRead
      /\ nfc'.started = nfc.started /\ nfc'.denied = nfc.denied
      /\ nfc'.security = s
  BY <1>4, <1>5, <1>6 DEF NfcFlags
<1> QED BY <1>3, <1>4, <1>7

\* A reader's write, stored or not, rejected or not: what it leaves behind.
LEMMA WriteFlags ==
  ASSUME Inv, NdefUpdated \/ NdefRejected \/ NdefIgnored
  PROVE  /\ req' \in StoredRequests /\ nfc' \in NfcFlags
         /\ nfc'.exec = nfc.exec /\ nfc'.hasRead = nfc.hasRead
         /\ nfc'.started = nfc.started /\ nfc'.denied = nfc.denied
         /\ nfc.security => nfc'.security
         /\ ndef' = ReaderData /\ pc # "off" /\ nfc.started
         /\ UNCHANGED <<pc, queue, otk, ltd, key, enrolled, field, hist>>
<1>1. /\ pc # "off" /\ nfc.started /\ ndef' = ReaderData
      /\ UNCHANGED <<pc, queue, otk, ltd, key, enrolled, field, hist>>
  BY DEF NdefUpdated, NdefRejected, NdefIgnored, ReaderActive, Store
<1>2. CASE \E w \in Written : Store(w, FALSE)
  BY <1>1, <1>2, StoreType
<1>3. CASE \E w \in Written : w.opt.present /\ Store(w, TRUE)
  BY <1>1, <1>3, StoreType
<1>4. CASE nfc' = [nfc EXCEPT !.security = TRUE] /\ UNCHANGED req
  BY <1>1, <1>4 DEF Inv, TypeOK, NfcFlags
<1>5. CASE UNCHANGED <<nfc, req>>
  BY <1>1, <1>5 DEF Inv, TypeOK
<1> QED BY <1>2, <1>3, <1>4, <1>5 DEF NdefUpdated, NdefRejected, NdefIgnored

\* A write replaces what the tag shows, not the execution state.
LEMMA NdefWriteInv ==
  ASSUME Inv, NdefUpdated \/ NdefRejected \/ NdefIgnored
  PROVE  Inv'
BY WriteFlags, InterruptInv DEF Inv, TypeOK

\* Booting shows a blank tag; switching off forgets the session.
LEMMA PowerInv ==
  ASSUME Inv, Boot \/ BootAborted \/ PowerLoss
  PROVE  Inv'
<1>1. CASE PowerLoss
  BY <1>1, PowerOffInv DEF PowerLoss, Inv, TypeOK
<1>2. CASE BootAborted
  BY <1>2, KeyAfterBootType DEF BootAborted, Inv, TypeOK, SlotHeld, UnlockHeld,
     ForRequest, OffIsReset, ResultShown, OneChangePerGrant
<1>3. CASE Boot
  <2>1. /\ key' \in KeyObjects /\ pc' = "bootStart" /\ hist' = hist
        /\ hist = NoHistory
        /\ UNCHANGED <<queue, req, ltd, enrolled, field>>
    BY <1>3, KeyAfterBootType DEF Boot, Inv, OffIsReset
  <2>2. otk' \in OtkFlags
    <3>1. PICK seen \in LockSeen(enrolled) :
            otk' = [locked |-> seen, auth |-> FALSE]
      BY <1>3 DEF Boot
    <3>2. seen \in BOOLEAN
      BY DEF LockSeen, Inv, TypeOK
    <3> QED BY <3>1, <3>2 DEF OtkFlags
  <2>3. nfc' \in NfcFlags /\ nfc'.exec = "NA" /\ ~nfc'.hasRead
    <3>1. NfcReset.exec = "NA" /\ ~NfcReset.hasRead
      BY DEF NfcReset
    <3>2. nfc' = [NfcReset EXCEPT !.started = TRUE]
      BY <1>3 DEF Boot
    <3> QED BY <3>1, <3>2, ResetTypes DEF NfcFlags
  <2>4. ndef' \in TagRecords
    BY <1>3, ResetTypes, RecordsType DEF Boot, ExecStates, Requests
  <2>5. ResultShown' /\ OneChangePerGrant'
    BY <2>1, <2>3 DEF ResultShown, OneChangePerGrant, NoHistory
  <2>6. TypeOK'
    BY <2>1, <2>2, <2>3, <2>4 DEF Inv, TypeOK, MainSteps, BootSteps
  <2>7. SlotHeld' /\ UnlockHeld' /\ OffIsReset'
    BY <2>1 DEF SlotHeld, UnlockHeld, OffIsReset, TouchSteps, UnlockSteps
  <2> QED BY <2>5, <2>6, <2>7 DEF Inv
<1> QED BY <1>1, <1>2, <1>3

(***************************************************************************)
(* The invariant is inductive: the long-touch detector and OTK_unlock.     *)
(***************************************************************************)
\* Entering and leaving the detector moves its slot and its flag only.
LEMMA DetectorInv ==
  ASSUME Inv, LtdBegin \/ LtdKilled \/ LtdTouch \/ LtdShutdown
  PROVE  Inv'
<1>1. Ended \in LtdFlags
  BY DEF Ended, LtdFlags, Inv, TypeOK
<1>2. CASE LtdBegin
  <2>1. TypeOK' /\ SlotHeld'
    BY <1>2 DEF LtdBegin, Inv, TypeOK, SlotHeld, MainSteps, TouchSteps
  <2>2. UnlockHeld' /\ OffIsReset' /\ ResultShown' /\ OneChangePerGrant'
    BY <1>2 DEF LtdBegin, Inv, UnlockHeld, UnlockSteps, OffIsReset, ResultShown,
       OneChangePerGrant
  <2> QED BY <2>1, <2>2 DEF Inv
<1>3. CASE LtdKilled
  <2>1. Tail(queue) \in Queues
    BY <1>3, TailType DEF LtdKilled, Inv, TypeOK, SlotHeld, TouchSteps
  <2>2. ResultShown' /\ OneChangePerGrant'
    BY <1>3, HistAtEndType DEF LtdKilled, Inv, ResultShown, OneChangePerGrant
  <2> QED BY <1>1, <1>3, <2>1, <2>2, HistAtEndType, TaskEndInv
          DEF LtdKilled, Inv, TypeOK
<1>4. CASE LtdTouch
  <2>1. /\ pc' \in {"match", "enroll"} /\ queue # << >> /\ Head(queue) = "ltd"
        /\ ltd' = Ended /\ hist' = HistAtEnd
        /\ UNCHANGED <<queue, nfc, req, ndef, otk, key, enrolled, field>>
    BY <1>4 DEF LtdTouch, Inv, SlotHeld, TouchSteps
  <2>2. TypeOK' /\ SlotHeld'
    BY <1>1, <2>1, HistAtEndType DEF Inv, TypeOK, SlotHeld, MainSteps
  <2>3. UnlockHeld' /\ OffIsReset' /\ ResultShown' /\ OneChangePerGrant'
    BY <2>1, HistAtEndType DEF Inv, UnlockHeld, UnlockSteps, OffIsReset,
       ResultShown, OneChangePerGrant
  <2> QED BY <2>2, <2>3 DEF Inv
<1>5. CASE LtdShutdown
  BY <1>5, PowerOffInv DEF LtdShutdown, Inv, TypeOK
<1> QED BY <1>2, <1>3, <1>4, <1>5

\* A matching finger grants anew, and the detector's start comes next.
LEMMA MatchInv ==
  ASSUME Inv, MatchFound
  PROVE  Inv'
<1>1. /\ key' \in KeyObjects /\ pc' = "start"
      /\ otk' = [otk EXCEPT !.auth = TRUE]
      /\ hist' = [hist EXCEPT !.changes = 0]
      /\ nfc' = [nfc EXCEPT !.restart = TRUE]
      /\ queue' = Put(queue, "stop")
      /\ UNCHANGED <<req, ndef, ltd, enrolled, field>>
  BY KeyAfterMatchType DEF MatchFound, Inv, TypeOK
<1>2. queue # << >> /\ Head(queue) = "ltd"
  BY DEF MatchFound, Inv, SlotHeld, TouchSteps
<1>3. queue' \in Queues /\ queue' # << >> /\ Head(queue') = "ltd"
  BY <1>1, <1>2, PutType DEF Tasks, Inv, TypeOK
<1>4. hist' \in Histories /\ hist'.changes = 0 /\ hist'.of = hist.of
  BY <1>1, GrantType DEF Inv, TypeOK
<1>5. /\ nfc' \in NfcFlags
      /\ nfc'.exec = nfc.exec /\ nfc'.hasRead = nfc.hasRead
  BY <1>1, FlagType
<1>6. otk' \in OtkFlags
  BY <1>1 DEF Inv, TypeOK, OtkFlags
<1>7. TypeOK' /\ SlotHeld' /\ OffIsReset'
  BY <1>1, <1>3, <1>4, <1>5, <1>6 DEF Inv, TypeOK, SlotHeld, OffIsReset, MainSteps,
     TouchSteps
<1>8. UnlockHeld'
  BY <1>1, <1>3 DEF UnlockHeld, ForRequest
<1>9. ResultShown' /\ OneChangePerGrant'
  BY <1>1, <1>4, <1>5 DEF Inv, ResultShown, OneChangePerGrant
<1> QED BY <1>7, <1>8, <1>9 DEF Inv

\* A long touch that unlocks or confirms a reset hands its authorisation on.
LEMMA TouchInv ==
  ASSUME Inv, LtdUnlock \/ LtdResetConfirmed
  PROVE  Inv'
<1>1. /\ Ended \in LtdFlags /\ queue \in Queues /\ queue # << >>
      /\ Head(queue) = "ltd"
  BY DEF LtdUnlock, LtdResetConfirmed, Ended, LtdFlags, Inv, TypeOK, SlotHeld,
     TouchSteps
<1>2. CASE LtdUnlock /\ ~otk.locked
  <2>1. Tail(queue) \in Queues
    BY <1>1, TailType
  <2>2. ResultShown' /\ OneChangePerGrant'
    BY <1>2, HistAtEndType DEF LtdUnlock, Inv, ResultShown, OneChangePerGrant
  <2> QED BY <1>1, <1>2, <2>1, <2>2, HistAtEndType, TaskEndInv
          DEF LtdUnlock, Inv, TypeOK
<1>3. CASE (LtdUnlock /\ otk.locked) \/ LtdResetConfirmed
  <2>1. /\ pc' \in {"unlock", "rekey"} /\ ltd' = Ended
        /\ otk'.auth /\ otk' \in OtkFlags
        /\ hist' \in Histories /\ hist'.of = hist.of
        /\ hist'.changes <= 1 /\ (hist'.changes = 1 => ~otk'.auth)
        /\ UNCHANGED <<queue, nfc, req, ndef, key, enrolled, field>>
    <3>1. CASE LtdUnlock /\ otk.locked
      BY <3>1, HistAtEndType DEF LtdUnlock, Inv, TypeOK, OneChangePerGrant
    <3>2. CASE LtdResetConfirmed
      <4>1. hist' \in Histories /\ hist'.changes = 0 /\ hist'.of = hist.of
        BY <3>2, HistAtEndType, GrantType DEF LtdResetConfirmed
      <4>2. otk' \in OtkFlags /\ otk'.auth
        BY <3>2 DEF LtdResetConfirmed, OtkFlags, Inv, TypeOK
      <4> QED BY <3>2, <4>1, <4>2 DEF LtdResetConfirmed
    <3> QED BY <1>3, <3>1, <3>2
  <2>2. TypeOK' /\ SlotHeld' /\ OffIsReset'
    BY <1>1, <2>1 DEF Inv, TypeOK, SlotHeld, OffIsReset, MainSteps, TouchSteps
  <2>3. UnlockHeld'
    BY <1>1, <2>1 DEF UnlockHeld, ForRequest, UnlockSteps
  <2>4. ResultShown' /\ OneChangePerGrant'
    BY <2>1 DEF Inv, ResultShown, OneChangePerGrant
  <2> QED BY <2>2, <2>3, <2>4 DEF Inv
<1> QED BY <1>2, <1>3

\* A failed match, the end of an enrollment and of a reset switch off.
LEMMA EndInv ==
  ASSUME Inv, MatchFailed \/ EnrollEnd \/ Rekey
  PROVE  Inv'
BY KeyAfterMatchType, PowerOffInv DEF MatchFailed, EnrollEnd, Rekey, Inv, TypeOK

\* An erase leaves a finger behind or not, and a typed key object.
LEMMA EraseType ==
  ASSUME Inv, NEW x \in EraseOutcomes, NEW seen \in LockSeen(x.left)
  PROVE  /\ x.left \in BOOLEAN
         /\ Unlocked(seen) \in OtkFlags /\ ~Unlocked(seen).auth
         /\ [key EXCEPT !.pinSet = FALSE] \in KeyObjects
<1>1. enrolled \in BOOLEAN
  BY DEF Inv, TypeOK
<1>2. \/ x = [ok |-> TRUE, left |-> FALSE]
      \/ x = [ok |-> FALSE, left |-> FALSE]
      \/ x = [ok |-> FALSE, left |-> enrolled]
  BY DEF EraseOutcomes
<1>3. x.left = FALSE \/ x.left = enrolled
  BY <1>2
<1>4. seen \in BOOLEAN
  BY <1>1, <1>3 DEF LockSeen
<1>5. Unlocked(seen) \in OtkFlags /\ ~Unlocked(seen).auth
  BY <1>4 DEF Unlocked, OtkFlags
<1> QED BY <1>1, <1>3, <1>5 DEF KeyObjects, Inv, TypeOK

\* What OTK_unlock does to the history: at most one change under a grant that
\* has paid for none, and for a request the command it is the outcome of.
EraseHistory(x) ==
  LET h == IF ~ForRequest THEN hist
           ELSE Executed(hist, IF x.ok THEN "done" ELSE "undone")
  IN [h EXCEPT !.changes = IF x.ok THEN @ + 1 ELSE @]

\* The history after an erase is typed, and counts one change at most.
LEMMA EraseHistoryType ==
  ASSUME Inv, pc = "unlock", NEW x \in EraseOutcomes
  PROVE  /\ EraseHistory(x) \in Histories /\ EraseHistory(x).changes <= 1
         /\ ~ForRequest => EraseHistory(x).of = hist.of
         /\ ~ForRequest => EraseHistory(x).effect = hist.effect
         /\ ForRequest => EraseHistory(x).effect \in {"done", "undone"}
         /\ EraseHistory(x).raced = hist.raced
<1> DEFINE e == IF x.ok THEN "done" ELSE "undone"
           h == IF ~ForRequest THEN hist ELSE Executed(hist, e)
<1>1. e \in Effects /\ e \in {"done", "undone"} /\ hist \in Histories
  BY DEF Effects, Inv, TypeOK
<1>2. hist.changes = 0
  <2>1. hist.changes \in Nat /\ hist.changes <= 1 /\ hist.changes # 1
    BY <1>1 DEF Histories, UnlockHeld, OneChangePerGrant, Inv
  <2> QED BY <2>1
<1> HIDE DEF e
<1>3. /\ h \in Histories /\ h.changes = 0 /\ h.raced = hist.raced
      /\ ~ForRequest => h.of = hist.of /\ h.effect = hist.effect
      /\ ForRequest => h.effect = e
  BY <1>1, <1>2, ExecutedType
<1>4. EraseHistory(x) = [h EXCEPT !.changes = IF x.ok THEN @ + 1 ELSE @]
  BY DEF EraseHistory, h, e
<1> HIDE DEF h
<1>5. CASE x.ok
  BY <1>1, <1>3, <1>4, <1>5 DEF Histories
<1>6. CASE ~x.ok
  BY <1>1, <1>3, <1>4, <1>6 DEF Histories
<1> QED BY <1>5, <1>6

\* OTK_unlock's erase uses up an authorisation that paid for nothing yet.
LEMMA EraseInv ==
  ASSUME Inv, UnlockErase
  PROVE  Inv'
<1>0. PICK x \in EraseOutcomes :
        /\ enrolled' = x.left
        /\ \E seen \in LockSeen(x.left) : otk' = Unlocked(seen)
        /\ key' = IF x.ok THEN [key EXCEPT !.pinSet = FALSE] ELSE key
        /\ hist' = EraseHistory(x)
  BY DEF UnlockErase, EraseHistory
<1>1. PICK seen \in LockSeen(x.left) : otk' = Unlocked(seen)
  BY <1>0
<1>2. /\ pc = "unlock" /\ pc' = "start" /\ ltd' = Paused(ltd)
      /\ UNCHANGED <<queue, nfc, req, ndef, field>>
  BY DEF UnlockErase
<1>3. /\ key' \in KeyObjects /\ enrolled' \in BOOLEAN /\ otk' \in OtkFlags
      /\ ~otk'.auth /\ ltd' \in LtdFlags
      /\ hist' \in Histories /\ hist'.changes <= 1
      /\ ~ForRequest => hist'.of = hist.of
  BY <1>0, <1>1, <1>2, EraseType, EraseHistoryType, PausedType DEF Inv, TypeOK
<1>4. queue # << >>
  BY <1>2 DEF SlotHeld, UnlockSteps, Inv
<1>5. TypeOK' /\ SlotHeld' /\ UnlockHeld' /\ OffIsReset'
  BY <1>2, <1>3, <1>4 DEF Inv, TypeOK, SlotHeld, UnlockHeld, ForRequest,
     OffIsReset, MainSteps, TouchSteps, UnlockSteps
<1>6. ResultShown'
  <2>1. ForRequest => nfc.exec = "NA"
    BY <1>2 DEF Inv, UnlockHeld, UnlockSteps
  <2> QED BY <1>2, <1>3, <2>1 DEF ResultShown, Inv
<1>7. OneChangePerGrant'
  BY <1>3 DEF OneChangePerGrant
<1> QED BY <1>5, <1>6, <1>7 DEF Inv

\* Returning from the start of the detector ends the task, by an answer when
\* it is a request's, or leaves a reset to go on.
LEMMA ReturnsInv ==
  ASSUME Inv, NEW l \in LtdFlags, StandbyReturns(l), UNCHANGED <<key, enrolled>>,
         pc \in BootSteps \cup UnlockSteps
  PROVE  Inv'
<1>1. pc \notin BootSteps => queue # << >>
  BY DEF Inv, SlotHeld
<1>2. CASE pc \in BootSteps
  <2>1. pc' = "idle" /\ ltd' = l /\ UNCHANGED <<queue, nfc, req, ndef, otk, field, hist>>
    BY <1>2 DEF StandbyReturns
  <2>2. ResultShown' /\ OneChangePerGrant'
    BY <2>1 DEF Inv, ResultShown, OneChangePerGrant
  <2> QED BY <2>1, <2>2, TaskEndInv DEF Inv, TypeOK
<1>3. CASE pc \notin BootSteps /\ ForRequest
  <2> DEFINE n == [nfc EXCEPT !.exec = nfc.execState]
  <2>1. n \in NfcFlags /\ n.exec # "NA"
    BY StaleExecType
  <2>2. Answer(n, otk, l, hist)
    BY <1>3 DEF StandbyReturns
  <2> HIDE DEF n
  <2> QED BY <1>1, <1>3, <2>1, <2>2, AnswerInv DEF Inv, TypeOK, OneChangePerGrant
<1>4. CASE pc \notin BootSteps /\ ~ForRequest
  <2>1. /\ ltd' = l /\ UNCHANGED <<nfc, req, ndef, otk, field, hist>>
        /\ \/ pc' = "rekey" /\ UNCHANGED queue
           \/ pc' = "idle" /\ queue' = Tail(queue)
    BY <1>4 DEF StandbyReturns
  <2>2. ResultShown' /\ OneChangePerGrant'
    BY <2>1 DEF Inv, ResultShown, OneChangePerGrant
  <2>3. CASE pc' = "idle" /\ queue' = Tail(queue)
    <3>1. Tail(queue) \in Queues
      BY <1>1, <1>4, TailType DEF Inv, TypeOK
    <3> QED BY <2>1, <2>2, <2>3, <3>1, TaskEndInv DEF Inv, TypeOK
  <2>4. CASE pc' = "rekey" /\ UNCHANGED queue
    <3>1. TypeOK' /\ SlotHeld'
      BY <1>1, <1>4, <2>1, <2>4 DEF Inv, TypeOK, MainSteps, SlotHeld, TouchSteps
    <3>2. UnlockHeld' /\ OffIsReset'
      BY <2>4 DEF UnlockHeld, UnlockSteps, OffIsReset
    <3> QED BY <2>2, <3>1, <3>2 DEF Inv
  <2> QED BY <2>1, <2>3, <2>4
<1> QED BY <1>2, <1>3, <1>4

\* Testing, putting and flagging the detector change its flags and the queue
\* behind the task that runs.
LEMMA StartInv ==
  ASSUME Inv, StartTest \/ StartPut \/ StartFlag
  PROVE  Inv'
<1>0. /\ UNCHANGED <<key, enrolled>> /\ pc \in BootSteps \cup UnlockSteps
      /\ key \in KeyObjects /\ enrolled \in BOOLEAN
      /\ ltd \in LtdFlags /\ [ltd EXCEPT !.kill = FALSE] \in LtdFlags
      /\ [ltd EXCEPT !.running = TRUE] \in LtdFlags
  BY DEF StartTest, StartPut, StartFlag, BootSteps, UnlockSteps, Inv, TypeOK, LtdFlags
<1>1. CASE PowerOff
  BY <1>0, <1>1, PowerOffInv
<1>2. CASE StandbyReturns(ltd) \/ StandbyReturns([ltd EXCEPT !.running = TRUE])
  BY <1>0, <1>2, ReturnsInv
<1>3. CASE /\ pc' \in {"put", "bootPut", "flag", "bootFlag"}
           /\ (pc' \in {"put", "flag"}) <=> (pc \in {"start", "put"})
           /\ ltd' \in {ltd, [ltd EXCEPT !.kill = FALSE]}
           /\ \/ queue' = queue
              \/ Len(queue) < QueueSize /\ queue' = Append(queue, "ltd")
           /\ UNCHANGED <<nfc, req, ndef, otk, field, hist>>
  <2>1. /\ queue' \in Queues
        /\ queue # << >> => queue' # << >> /\ Head(queue') = Head(queue)
    BY <1>3, AppendType DEF Tasks, Inv, TypeOK
  <2>2. pc \in {"start", "put"} => queue # << >>
    BY DEF SlotHeld, UnlockSteps, Inv
  <2>3. TypeOK' /\ SlotHeld' /\ OffIsReset'
    BY <1>0, <1>3, <2>1, <2>2 DEF Inv, TypeOK, MainSteps, BootSteps, SlotHeld,
       OffIsReset, TouchSteps, UnlockSteps
  <2>4. UnlockHeld'
    BY <1>3, <2>1, <2>2 DEF Inv, UnlockHeld, ForRequest, UnlockSteps
  <2>5. ResultShown' /\ OneChangePerGrant'
    BY <1>3 DEF Inv, ResultShown, OneChangePerGrant
  <2> QED BY <2>3, <2>4, <2>5 DEF Inv
<1> QED BY <1>1, <1>2, <1>3 DEF StartTest, StartPut, StartFlag

(***************************************************************************)
(* Theorems.                                                               *)
(***************************************************************************)
\* A device that was never on satisfies the invariant.
LEMMA InitInv == Init => Inv
<1> SUFFICES ASSUME Init PROVE Inv
  OBVIOUS
<1>1. key \in KeyObjects
  BY PinAssumption DEF Init, KeyObjects
<1>2. TypeOK
  BY <1>1, ResetTypes DEF Init, TypeOK, OtkFlags, MainSteps
<1>3. /\ SlotHeld /\ UnlockHeld /\ OffIsReset /\ ResultShown
      /\ OneChangePerGrant
  BY DEF Init, SlotHeld, UnlockHeld, OffIsReset, ResultShown,
     OneChangePerGrant, NfcReset, BlankTag, NoHistory, TouchSteps, UnlockSteps
<1> QED BY <1>2, <1>3 DEF Inv

\* Every step of the firmware keeps the invariant.
LEMMA NextInv == Inv /\ [Next]_vars => Inv'
<1> SUFFICES ASSUME Inv, [Next]_vars PROVE Inv'
  OBVIOUS
<1>1. CASE Boot \/ BootAborted \/ PowerLoss
  BY <1>1, PowerInv
<1>2. CASE Interrupt
  BY <1>2, FieldOnInv, FieldOffInv, NdefReadInv, NdefWriteInv DEF Interrupt
<1>3. CASE RunStopTask
  BY <1>3, StopInv, StopOrRestartInv, CancelInv, DeniedInv, PlainInv, SetInv,
     UnlockInv, RetireResetInv, RetireClearInv DEF RunStopTask
<1>4. CASE RunDetector
  BY <1>4, DetectorInv, MatchInv, EndInv DEF RunDetector
<1>5. CASE RunUnlock
  BY <1>5, EraseInv, StartInv, EndInv DEF RunUnlock
<1>6. CASE LongTouch
  BY <1>6, DetectorInv, TouchInv DEF LongTouch
<1>7. CASE UNCHANGED vars
  BY <1>7 DEF vars, Inv, TypeOK, SlotHeld, UnlockHeld, ForRequest, OffIsReset,
     ResultShown, OneChangePerGrant
<1> QED BY <1>1, <1>2, <1>3, <1>4, <1>5, <1>6, <1>7 DEF Next

\* The invariant holds in every state the firmware reaches.
THEOREM Invariance == Spec => []Inv
BY InitInv, NextInv, PTL DEF Spec

\* Every variable stays in its type: no put overfills the scheduler queue, no
\* task takes a slot that is not there, and the PIN counters of
\* OTK_pinValidate and OTK_init never leave the penalty table.
THEOREM TypeCorrect == Spec => []TypeOK
<1>1. Inv => TypeOK
  BY DEF Inv
<1> QED BY <1>1, Invariance, PTL

\* OTK_setKey, OTK_setPin, OTK_setNote and OTK_unlock spend the
\* authorisation: by request or by touch, no authorisation buys two changes.
THEOREM OneChange == Spec => []OneChangePerGrant
<1>1. Inv => OneChangePerGrant
  BY DEF Inv
<1> QED BY <1>1, Invariance, PTL

\* nfc_callback sets m_nfc_has_read only when a request has been executed, and
\* the tag then holds its outcome or what a reader has written over it.
THEOREM ReadIsResultOrWritten == Spec => []ReadWasTheResult
<1>1. Inv => ReadWasTheResult
  BY DEF Inv, ResultShown, ReadWasTheResult
<1> QED BY <1>1, Invariance, PTL


(***************************************************************************)
(* What the helpers do to the key object.                                  *)
(***************************************************************************)

\* Clearing the counters keeps the PIN.
LEMMA KeyAfterMatchPin ==
  ASSUME Inv
  PROVE  KeyAfterMatch.pinSet = key.pinSet
<1> DEFINE m == [key EXCEPT !.failures = 0]
<1>1. /\ m \in [pinSet : BOOLEAN, failures : Int, retry : Nat]
      /\ m.pinSet = key.pinSet
  BY DEF KeyObjects, Inv, TypeOK
<1>2. KeyAfterMatch = [m EXCEPT !.retry = 0]
  BY DEF KeyAfterMatch
<1> HIDE DEF m
<1> QED BY <1>1, <1>2

\* Validating a PIN never sets or clears it.
LEMMA PinKept ==
  ASSUME Inv
  PROVE  KeyAfterPin.pinSet = key.pinSet
<1> DEFINE w == [key EXCEPT !.failures = @ + 1]
<1>1. key \in KeyObjects
  BY DEF Inv, TypeOK
<1>2. KeyAfterMatch.pinSet = key.pinSet
  BY KeyAfterMatchPin
<1>3. KeyAfterMismatch.pinSet = key.pinSet
  <2> DEFINE f == key.failures + 1
             r == IF f >= SuspendAt THEN Penalty[f] ELSE key.retry
  <2>1. /\ w \in [pinSet : BOOLEAN, failures : Int, retry : Nat]
        /\ w.pinSet = key.pinSet
    BY <1>1 DEF KeyObjects
  <2>2. KeyAfterMismatch = [w EXCEPT !.retry = r]
    BY DEF KeyAfterMismatch
  <2> HIDE DEF w, r
  <2> QED BY <2>1, <2>2
<1> QED BY <1>2, <1>3 DEF KeyAfterPin

\* While the suspension lasts, OTK_pinValidate is not called.
LEMMA SuspendedPin ==
  ASSUME Inv, key.retry > 0
  PROVE  ~PinMatched /\ KeyAfterPin = key /\ (Authorized <=> otk.auth)
<1>1. ~PinTried
  BY DEF PinTried, Inv, TypeOK, KeyObjects
<1> QED BY <1>1 DEF PinMatched, PinError, KeyAfterPin, Authorized

\* A boot keeps the PIN and takes one reboot off the suspension at most.
LEMMA BootKey ==
  ASSUME Inv
  PROVE  /\ KeyAfterBoot.pinSet = key.pinSet
         /\ KeyAfterBoot.retry < key.retry => KeyAfterBoot.retry = key.retry - 1
BY DEF KeyAfterBoot, Inv, TypeOK, KeyObjects

\* Executing a request leaves in otk what the command left, or nobody.
LEMMA AnswerOtk ==
  ASSUME NEW n, NEW o, NEW l, NEW h, Answer(n, o, l, h)
  PROVE  otk' = o \/ ~otk'.auth
BY DEF Answer, PowerOff

\* Starting the detector leaves the authorisation, or nobody authorised.
LEMMA StartOtk ==
  ASSUME StartTest \/ StartPut \/ StartFlag
  PROVE  UNCHANGED <<key, enrolled>> /\ (otk' = otk \/ ~otk'.auth)
<1>1. ASSUME NEW l, StandbyReturns(l)
      PROVE  otk' = otk \/ ~otk'.auth
  <2>1. CASE Answer([nfc EXCEPT !.exec = nfc.execState], otk, l, hist)
    BY <2>1, AnswerOtk
  <2>2. CASE UNCHANGED otk
    BY <2>2
  <2> QED BY <1>1, <2>1, <2>2 DEF StandbyReturns
<1>2. PowerOff => ~otk'.auth
  BY DEF PowerOff
<1> QED BY <1>1, <1>2 DEF StartTest, StartPut, StartFlag

(***************************************************************************)
(* Who may change the configuration.                                       *)
(***************************************************************************)
ConfigStep ==
  key'.pinSet # key.pinSet \/ enrolled' # enrolled =>
    otk.auth \/ (ToExecute /\ PinMatched) \/ pc = "enroll"

\* Every step that changes PIN or finger has its authorisation.
LEMMA ConfigStepHolds ==
  ASSUME Inv, [Next]_vars
  PROVE  ConfigStep
<1>1. CASE Boot \/ BootAborted \/ PowerLoss
  BY <1>1, BootKey DEF Boot, BootAborted, PowerLoss, ConfigStep
<1>2. CASE Interrupt
  BY <1>2 DEF Interrupt, FieldOn, FieldOff, NdefRead, NdefUpdated,
     NdefRejected, NdefIgnored, HandOver, ConfigStep
<1>3. CASE RunStopTask
  <2>1. CASE \/ StopWhenStopped \/ StopForSecurity \/ StopOrRestart
             \/ RetireFinal \/ RetireReset \/ RetireClear \/ ExecuteCancel
    BY <2>1 DEF StopWhenStopped, StopForSecurity, StopOrRestart, RetireFinal,
       RetireReset, RetireClear, ExecuteCancel, ConfigStep
  <2>2. CASE ExecuteDenied \/ ExecutePlain
    BY <2>2, PinKept DEF ExecuteDenied, ExecutePlain, ConfigStep
  <2>3. CASE ExecuteSet \/ ExecuteUnlock
    <3>1. ToExecute /\ Authorized
      BY <2>3 DEF ExecuteSet, ExecuteUnlock
    <3> QED BY <3>1 DEF Authorized, ConfigStep
  <2> QED BY <1>3, <2>1, <2>2, <2>3 DEF RunStopTask
<1>4. CASE RunDetector
  <2>1. CASE LtdBegin \/ LtdKilled \/ MatchFailed \/ EnrollEnd
    BY <2>1 DEF LtdBegin, LtdKilled, MatchFailed, EnrollEnd, ConfigStep
  <2>2. CASE MatchFound
    <3>1. KeyAfterMatch.pinSet = key.pinSet
      BY KeyAfterMatchPin
    <3> QED BY <2>2, <3>1 DEF MatchFound, ConfigStep
  <2> QED BY <1>4, <2>1, <2>2 DEF RunDetector
<1>5. CASE RunUnlock
  <2>1. CASE UnlockErase
    BY <2>1 DEF UnlockErase, Inv, UnlockHeld, ConfigStep
  <2>2. CASE StartTest \/ StartPut \/ StartFlag
    BY <2>2, StartOtk DEF ConfigStep
  <2>3. CASE Rekey
    BY <2>3, KeyAfterMatchPin DEF Rekey, ConfigStep
  <2> QED BY <1>5, <2>1, <2>2, <2>3 DEF RunUnlock
<1>6. CASE LongTouch
  BY <1>6 DEF LongTouch, LtdTouch, LtdUnlock, LtdShutdown, LtdResetConfirmed,
     ConfigStep
<1>7. CASE UNCHANGED vars
  BY <1>7 DEF vars, ConfigStep
<1> QED BY <1>1, <1>2, <1>3, <1>4, <1>5, <1>6, <1>7 DEF Next

\* OTK_setPin, OTK_unlock and OTK_lock: PIN and finger change only under an
\* authorisation, of which a reset's touch is one, or by enrolling.
THEOREM ChangesAreAuthorized == Spec => ConfigChangeIsAuthorized
<1>1. Inv /\ [Next]_vars => [ConfigStep]_vars
  BY ConfigStepHolds
<1> QED BY <1>1, Invariance, PTL DEF Spec, ConfigChangeIsAuthorized, ConfigStep

(***************************************************************************)
(* The PIN suspension.                                                     *)
(***************************************************************************)
SuspensionStep ==
  key.retry > 0 =>
    /\ otk'.auth /\ ~otk.auth => pc = "match" \/ ltd.confirm
    /\ key'.retry < key.retry =>
         \/ pc = "off" /\ key'.retry = key.retry - 1
         \/ pc = "match" /\ enrolled
         \/ pc = "rekey"

\* Every step leaves a suspension to reboots, fingers and resets.
LEMMA SuspensionStepHolds ==
  ASSUME Inv, [Next]_vars
  PROVE  SuspensionStep
<1> SUFFICES ASSUME key.retry > 0
             PROVE  /\ otk'.auth /\ ~otk.auth => pc = "match" \/ ltd.confirm
                    /\ key'.retry < key.retry =>
                         \/ pc = "off" /\ key'.retry = key.retry - 1
                         \/ pc = "match" /\ enrolled
                         \/ pc = "rekey"
  BY DEF SuspensionStep
<1>a. key \in KeyObjects /\ otk \in OtkFlags /\ ~(key.retry < key.retry)
  BY DEF Inv, TypeOK, KeyObjects
<1>b. PowerOff => ~otk'.auth
  BY DEF PowerOff
<1>c. KeyAfterPin = key /\ (Authorized <=> otk.auth)
  BY SuspendedPin
<1>d. OtkAfterPin.auth = otk.auth
  <2>1. OtkAfterPin \in OtkFlags /\ OtkAfterPin.auth = Authorized
    BY PinType
  <2>2. Authorized \in BOOLEAN /\ otk.auth \in BOOLEAN
    BY <1>a, <2>1 DEF OtkFlags
  <2> QED BY <1>c, <2>1, <2>2
<1>1. CASE Boot \/ BootAborted
  <2>1. ~otk'.auth \/ otk' = otk
    <3>1. CASE Boot
      <4>1. PICK seen \in LockSeen(enrolled) :
              otk' = [locked |-> seen, auth |-> FALSE]
        BY <3>1 DEF Boot
      <4> QED BY <4>1
    <3>2. CASE BootAborted
      BY <3>2 DEF BootAborted
    <3> QED BY <1>1, <3>1, <3>2
  <2> QED BY <1>1, <2>1, BootKey DEF Boot, BootAborted
<1>2. CASE PowerLoss \/ Interrupt
  <2>1. key' = key /\ (otk' = otk \/ ~otk'.auth)
    BY <1>2, <1>b DEF PowerLoss, Interrupt, FieldOn, FieldOff, NdefRead,
       NdefUpdated, NdefRejected, NdefIgnored, HandOver
  <2> QED BY <1>a, <2>1
<1>3. CASE RunStopTask
  <2>1. CASE \/ StopWhenStopped \/ StopForSecurity
             \/ RetireFinal \/ RetireReset \/ RetireClear
    <3>1. key' = key /\ (otk' = otk \/ ~otk'.auth)
      BY <2>1, <1>b DEF StopWhenStopped, StopForSecurity, RetireFinal,
         RetireReset, RetireClear
    <3> QED BY <1>a, <3>1
  <2>2. CASE StopOrRestart \/ ExecuteCancel \/ ExecuteDenied
    <3>1. key' = key /\ (otk' = otk \/ ~otk'.auth)
      BY <1>c, <2>2, AnswerOtk DEF StopOrRestart, ExecuteCancel, ExecuteDenied
    <3> QED BY <1>a, <3>1
  <2>3. CASE ExecutePlain \/ ExecuteUnlock
    <3>1. key' = key /\ (otk' = OtkAfterPin \/ ~otk'.auth)
      BY <1>c, <2>3, AnswerOtk DEF ExecutePlain, ExecuteUnlock
    <3> QED BY <1>a, <1>d, <3>1
  <2>4. CASE ExecuteSet
    <3>1. ~otk'.auth
      <4>1. ~[otk EXCEPT !.auth = FALSE].auth
        BY <1>a DEF OtkFlags
      <4> QED BY <2>4, <4>1, AnswerOtk DEF ExecuteSet
    <3>2. key'.retry = key.retry
      <4>1. [key EXCEPT !.pinSet = TRUE].retry = key.retry
        BY <1>a DEF KeyObjects
      <4> QED BY <1>c, <2>4, <4>1 DEF ExecuteSet
    <3> QED BY <1>a, <3>1, <3>2
  <2> QED BY <1>3, <2>1, <2>2, <2>3, <2>4 DEF RunStopTask
<1>4. CASE RunDetector
  <2>1. CASE LtdBegin \/ LtdKilled \/ MatchFailed \/ EnrollEnd
    <3>1. key' = key /\ (otk' = otk \/ ~otk'.auth)
      BY <1>b, <2>1 DEF LtdBegin, LtdKilled, MatchFailed, EnrollEnd
    <3> QED BY <1>a, <3>1
  <2>2. CASE MatchFound
    BY <2>2 DEF MatchFound
  <2> QED BY <1>4, <2>1, <2>2 DEF RunDetector
<1>5. CASE RunUnlock
  <2>1. CASE UnlockErase
    <3>1. otk.auth
      BY <2>1 DEF UnlockErase, Inv, UnlockHeld
    <3>2. [key EXCEPT !.pinSet = FALSE].retry = key.retry
      BY <1>a DEF KeyObjects
    <3>3. key'.retry = key.retry
      BY <2>1, <3>2 DEF UnlockErase
    <3> QED BY <1>a, <3>1, <3>3
  <2>2. CASE StartTest \/ StartPut \/ StartFlag
    BY <1>a, <2>2, StartOtk
  <2>3. CASE Rekey
    BY <1>b, <2>3 DEF Rekey
  <2> QED BY <1>5, <2>1, <2>2, <2>3 DEF RunUnlock
<1>6. CASE LongTouch
  <2>1. CASE LtdTouch \/ LtdUnlock \/ LtdShutdown
    <3>1. key' = key /\ (otk' = otk \/ ~otk'.auth)
      BY <1>b, <2>1 DEF LtdTouch, LtdUnlock, LtdShutdown
    <3> QED BY <1>a, <3>1
  <2>2. CASE LtdResetConfirmed
    BY <1>a, <2>2 DEF LtdResetConfirmed
  <2> QED BY <1>6, <2>1, <2>2 DEF LongTouch
<1>7. CASE UNCHANGED vars
  BY <1>a, <1>7 DEF vars
<1> QED BY <1>1, <1>2, <1>3, <1>4, <1>5, <1>6, <1>7 DEF Next

\* OTK_pinValidate, OTK_init, OTK_fpValidate: a suspension of the PIN is waited
\* out reboot by reboot or lifted by a finger or a reset; no PIN ends it.
THEOREM SuspensionIsWaitedOut == Spec => SuspensionHolds
<1>1. Inv /\ [Next]_vars => [SuspensionStep]_vars
  BY SuspensionStepHolds
<1> QED BY <1>1, Invariance, PTL DEF Spec, SuspensionHolds, SuspensionStep

(***************************************************************************)
(* Rejected requests.                                                      *)
(***************************************************************************)
RejectedStep ==
  nfc.security => \/ pc' = "off"
                  \/ ndef' \in {ndef, ReaderData} /\ nfc'.exec = nfc.exec

\* Every step after a rejection publishes nothing or switches off.
LEMMA RejectedStepHolds ==
  ASSUME Inv, [Next]_vars
  PROVE  RejectedStep
<1> SUFFICES ASSUME nfc.security
             PROVE  \/ pc' = "off"
                    \/ ndef' \in {ndef, ReaderData} /\ nfc'.exec = nfc.exec
  BY DEF RejectedStep
<1>1. nfc \in NfcFlags /\ pc # "off"
  BY DEF Inv, TypeOK, OffIsReset
<1>2. CASE Boot \/ BootAborted \/ PowerLoss
  BY <1>1, <1>2 DEF Boot, BootAborted, PowerLoss, PowerOff
<1>3. CASE Interrupt
  <2>1. CASE FieldOn \/ FieldOff
    <3>1. \/ ndef' = ndef /\ nfc' = [nfc EXCEPT !.polling = TRUE]
          \/ ndef' = ndef /\ nfc' = [nfc EXCEPT !.polling = FALSE]
          \/ ndef' = ndef /\ nfc' = [nfc EXCEPT !.restart = FALSE]
          \/ ndef' = ndef /\ HandOver
          \/ pc' = "off"
      BY <2>1 DEF FieldOn, FieldOff, HandOver, PowerOff
    <3> QED BY <3>1, FlagType, HandOverFlags
  <2>2. CASE NdefRead
    BY <2>2, ReadFlags DEF NdefRead
  <2>3. CASE NdefUpdated \/ NdefRejected \/ NdefIgnored
    BY <2>3, WriteFlags
  <2> QED BY <1>3, <2>1, <2>2, <2>3 DEF Interrupt
<1>4. CASE RunStopTask
  <2>1. CASE StopWhenStopped \/ StopForSecurity
    BY <2>1 DEF StopWhenStopped, StopForSecurity, PowerOff
  <2>2. ~(StopOrRestart \/ RetireFinal \/ RetireReset \/ RetireClear)
    BY DEF StopOrRestart, RetireFinal, RetireReset, RetireClear, ToRetire
  <2>3. ~(\/ ExecuteCancel \/ ExecuteDenied \/ ExecutePlain \/ ExecuteSet
          \/ ExecuteUnlock)
    BY DEF ExecuteCancel, ExecuteDenied, ExecutePlain, ExecuteSet,
       ExecuteUnlock, ToExecute
  <2> QED BY <1>4, <2>1, <2>2, <2>3 DEF RunStopTask
<1>5. CASE RunDetector
  <2>1. CASE MatchFound
    BY <2>1, FlagType DEF MatchFound
  <2>2. CASE LtdBegin \/ LtdKilled \/ MatchFailed \/ EnrollEnd
    BY <2>2 DEF LtdBegin, LtdKilled, MatchFailed, EnrollEnd, PowerOff
  <2> QED BY <1>5, <2>1, <2>2 DEF RunDetector
<1>6. CASE RunUnlock
  <2>1. CASE UnlockErase \/ Rekey
    BY <2>1 DEF UnlockErase, Rekey, PowerOff
  <2>2. CASE StartTest \/ StartPut \/ StartFlag
    <3>1. pc \in BootSteps \/ (pc \in UnlockSteps /\ ~ForRequest)
      BY <2>2 DEF StartTest, StartPut, StartFlag, BootSteps, UnlockSteps, Inv, UnlockHeld
    <3>2. ASSUME NEW l, StandbyReturns(l) PROVE UNCHANGED <<nfc, ndef>>
      <4>1. pc \in UnlockSteps => pc \notin BootSteps
        BY DEF UnlockSteps, BootSteps
      <4> QED BY <3>1, <3>2, <4>1 DEF StandbyReturns
    <3> QED BY <2>2, <3>2 DEF StartTest, StartPut, StartFlag, PowerOff
  <2> QED BY <1>6, <2>1, <2>2 DEF RunUnlock
<1>7. CASE LongTouch
  BY <1>7 DEF LongTouch, LtdTouch, LtdUnlock, LtdShutdown, LtdResetConfirmed,
     PowerOff
<1>8. CASE UNCHANGED vars
  BY <1>8 DEF vars
<1> QED BY <1>2, <1>3, <1>4, <1>5, <1>6, <1>7, <1>8 DEF Next

\* nfc_safelyStop looks at m_nfc_security_shutdown before anything else, and
\* OTK_unlock for a request runs with the reader shut out: after a rejected
\* request nothing is executed or published.
THEOREM RejectionIsFinal == Spec => RejectedPublishesNothing
<1>1. Inv /\ [Next]_vars => [RejectedStep]_vars
  BY RejectedStepHolds
<1> QED BY <1>1, Invariance, PTL DEF Spec, RejectedPublishesNothing, RejectedStep

(***************************************************************************)
(* The outcome of requests.                                                *)
(***************************************************************************)

\* Publishing an answer keeps the flags a command left, but for the restart,
\* and shows their execution state.
LEMMA AnswerOutcome ==
  ASSUME NEW n \in NfcFlags, NEW o, NEW l, NEW h, Answer(n, o, l, h)
  PROVE  \/ PowerOff
         \/ /\ nfc'.exec = n.exec /\ nfc'.denied = n.denied
            /\ nfc'.security = n.security
            /\ ndef'.exec = n.exec /\ hist' = h /\ pc' = "idle"
<1> DEFINE m == [n EXCEPT !.restart = FALSE]
<1>1. \/ PowerOff
      \/ /\ nfc' = [m EXCEPT !.started = TRUE]
         /\ ndef' = Records(n.exec, req, h.of) /\ hist' = h /\ pc' = "idle"
  BY DEF Answer
<1>2. /\ m \in NfcFlags /\ m.exec = n.exec /\ m.denied = n.denied
      /\ m.security = n.security
  BY DEF NfcFlags
<1> HIDE DEF m
<1> QED BY <1>1, <1>2 DEF NfcFlags, Records

\* Assigning the execution state, alone or with _execState, leaves the
\* count of denied requests and the rejection as they were.
LEMMA OutcomeKeeps ==
  ASSUME Inv, NEW e \in {"SUCCESS", "FAIL"}
  PROVE  /\ Outcome(e) \in NfcFlags /\ Outcome(e).exec = e
         /\ Outcome(e).denied = nfc.denied /\ Outcome(e).security = nfc.security
         /\ [nfc EXCEPT !.exec = e] \in NfcFlags
         /\ [nfc EXCEPT !.exec = e].exec = e
         /\ [nfc EXCEPT !.exec = e].denied = nfc.denied
         /\ [nfc EXCEPT !.exec = e].security = nfc.security
<1> DEFINE n == [nfc EXCEPT !.exec = e]
<1>1. /\ n \in NfcFlags /\ n.exec = e
      /\ n.denied = nfc.denied /\ n.security = nfc.security
  BY DEF NfcFlags, ExecStates, Inv, TypeOK
<1>2. Outcome(e) = [n EXCEPT !.execState = e]
  BY DEF Outcome
<1> HIDE DEF n
<1>3. /\ Outcome(e) \in NfcFlags /\ Outcome(e).exec = e
      /\ Outcome(e).denied = nfc.denied /\ Outcome(e).security = nfc.security
  BY <1>1, <1>2 DEF NfcFlags
<1> QED BY <1>1, <1>3 DEF n

\* A denied request fails and is counted.
LEMMA DeniedKeeps ==
  ASSUME Inv
  PROVE  /\ Denied \in NfcFlags /\ Denied.exec = "FAIL"
         /\ Denied.denied = nfc.denied + 1
         /\ Denied.security <=> nfc.denied + 1 > MaxDenied
<1> DEFINE s == nfc.denied + 1 > MaxDenied
           n == [nfc EXCEPT !.exec = "FAIL"]
           d == [n EXCEPT !.denied = nfc.denied + 1]
<1>1. s \in BOOLEAN /\ nfc.denied + 1 \in Nat
  BY DEF Inv, TypeOK, NfcFlags
<1>2. n \in NfcFlags /\ n.exec = "FAIL" /\ n.denied = nfc.denied
  BY DEF NfcFlags, ExecStates, Inv, TypeOK
<1>3. Denied = [d EXCEPT !.security = s]
  BY DEF Denied
<1> HIDE DEF n, s
<1>4. d \in NfcFlags /\ d.exec = "FAIL" /\ d.denied = nfc.denied + 1
  BY <1>1, <1>2 DEF NfcFlags
<1> HIDE DEF d
<1>5. /\ Denied \in NfcFlags /\ Denied.exec = "FAIL"
      /\ Denied.denied = nfc.denied + 1 /\ Denied.security = s
  BY <1>1, <1>3, <1>4 DEF NfcFlags
<1> QED BY <1>5 DEF s

\* Once OTK_unlock has erased for a request, that request was not refused.
AnswerReady ==
  pc \in {"start", "put", "flag"} /\ ForRequest => hist.effect # "refused"

\* Denials are bounded and refusals are told.
Outcomes == DeniedIsBounded /\ RefusalIsTold /\ AnswerReady

\* What steps other than executing or retiring a request do to the flags, the
\* tag and the history that Outcomes looks at.
OutcomeKept ==
  /\ nfc'.exec = nfc.exec /\ nfc'.denied = nfc.denied
  /\ nfc.security => nfc'.security
  /\ ndef' \in {ndef, ReaderData} /\ hist'.effect = hist.effect

\* A step that keeps those, or switches off, keeps the outcomes.
LEMMA OutcomeKeptEnough ==
  ASSUME Outcomes, (OutcomeKept /\ AnswerReady') \/ PowerOff
  PROVE  Outcomes'
<1>1. CASE OutcomeKept /\ AnswerReady'
  <2>1. ReaderData.raw
    BY DEF ReaderData, BlankTag
  <2> QED BY <1>1, <2>1 DEF OutcomeKept, Outcomes, DeniedIsBounded, RefusalIsTold
<1>2. CASE PowerOff
  BY <1>2, PinAssumption DEF PowerOff, NfcReset, NoHistory, Outcomes,
     DeniedIsBounded, RefusalIsTold, AnswerReady
<1> QED BY <1>1, <1>2

\* The interrupt handler only ever adds a rejection or a reader's bytes.
LEMMA InterruptOutcome ==
  ASSUME Inv, Outcomes, Interrupt
  PROVE  (OutcomeKept /\ AnswerReady') \/ PowerOff
<1>1. CASE FieldOn
  <2>1. HandOver => OutcomeKept
    BY HandOverFlags DEF HandOver, OutcomeKept
  <2>2. nfc' = [nfc EXCEPT !.polling = TRUE] /\ UNCHANGED <<ndef, hist>> => OutcomeKept
    BY FlagType DEF OutcomeKept
  <2>3. OutcomeKept
    BY <1>1, <2>1, <2>2 DEF FieldOn
  <2>4. /\ queue' \in {queue, Put(queue, "stop")} /\ pc' = pc
        /\ queue \in Queues /\ "stop" \in Tasks
    BY <1>1 DEF FieldOn, HandOver, Inv, TypeOK, Tasks
  <2> QED BY <2>3, <2>4, PutType DEF AnswerReady, ForRequest, Outcomes, OutcomeKept,
          Inv, SlotHeld, UnlockSteps
<1>2. CASE FieldOff
  <2>1. CASE HandOver
    <3>1. OutcomeKept
      BY <2>1, HandOverFlags DEF HandOver, OutcomeKept
    <3>2. /\ queue' = Put(queue, "stop") /\ pc' = pc
          /\ queue \in Queues /\ "stop" \in Tasks
      BY <2>1 DEF HandOver, Inv, TypeOK, Tasks
    <3> QED BY <3>1, <3>2, PutType DEF AnswerReady, ForRequest, Outcomes, OutcomeKept,
            Inv, SlotHeld, UnlockSteps
  <2>2. CASE /\ nfc' = [nfc EXCEPT !.restart = FALSE]
             /\ queue' = Put(queue, "stop")
             /\ UNCHANGED <<pc, ndef, hist>>
    <3>1. OutcomeKept
      BY <2>2, FlagType DEF OutcomeKept
    <3>2. queue \in Queues /\ "stop" \in Tasks
      BY DEF Inv, TypeOK, Tasks
    <3> QED BY <2>2, <3>1, <3>2, PutType DEF AnswerReady, ForRequest, Outcomes,
            OutcomeKept, Inv, SlotHeld, UnlockSteps
  <2>3. CASE /\ nfc' = [nfc EXCEPT !.polling = FALSE]
             /\ nfc.polling => CanStandby(ltd, queue)
             /\ queue' = IF nfc.polling THEN StandbyQueue(ltd, queue) ELSE queue
             /\ \E x \in BOOLEAN : hist' = [hist EXCEPT !.raced = x]
             /\ UNCHANGED <<pc, ndef>>
    <3>1. OutcomeKept
      BY <2>3, FlagType, RacedType DEF OutcomeKept
    <3>2. queue # << >> => Head(queue') = Head(queue)
      BY <2>3, StandbyType DEF Inv, TypeOK
    <3> QED BY <2>3, <3>1, <3>2 DEF AnswerReady, ForRequest, Outcomes,
            OutcomeKept, Inv, SlotHeld, UnlockSteps
  <2> QED BY <1>2, <2>1, <2>2, <2>3, FieldOffCases
<1>3. CASE NdefRead
  <2>1. OutcomeKept
    BY <1>3, ReadFlags DEF NdefRead, OutcomeKept
  <2>2. /\ queue' = Put(queue, "stop") /\ pc' = pc
        /\ queue \in Queues /\ "stop" \in Tasks
    BY <1>3 DEF NdefRead, Inv, TypeOK, Tasks
  <2> QED BY <2>1, <2>2, PutType DEF AnswerReady, ForRequest, Outcomes, OutcomeKept,
          Inv, SlotHeld, UnlockSteps
<1>4. CASE NdefUpdated \/ NdefRejected \/ NdefIgnored
  BY <1>4, WriteFlags DEF OutcomeKept, AnswerReady, ForRequest, Outcomes
<1> QED BY <1>1, <1>2, <1>3, <1>4 DEF Interrupt

\* Answering with a failure what was refused keeps the outcomes.
LEMMA AnswerOutcomes ==
  ASSUME Outcomes, NEW n \in NfcFlags, NEW o, NEW l, NEW h, Answer(n, o, l, h),
         n.denied <= MaxDenied + 1, n.denied > MaxDenied => n.security,
         h.effect = "refused" => n.exec = "FAIL"
  PROVE  Outcomes'
<1>1. CASE PowerOff
  BY <1>1, OutcomeKeptEnough
<1>2. CASE /\ nfc'.exec = n.exec /\ nfc'.denied = n.denied
           /\ nfc'.security = n.security
           /\ ndef'.exec = n.exec /\ hist' = h /\ pc' = "idle"
  BY <1>2 DEF Outcomes, DeniedIsBounded, RefusalIsTold, AnswerReady
<1> QED BY <1>1, <1>2, AnswerOutcome

\* Executing a request counts its denial and reports a refusal.
LEMMA ExecuteOutcome ==
  ASSUME Inv, Outcomes,
         \/ ExecuteCancel \/ ExecuteDenied \/ ExecutePlain \/ ExecuteSet
         \/ ExecuteUnlock
  PROVE  Outcomes'
<1>1. /\ nfc.denied \in Nat /\ nfc.denied <= MaxDenied /\ ~nfc.security
      /\ MaxDenied \in Nat /\ nfc.exec = "NA"
  BY PinAssumption, NothingRead DEF Inv, TypeOK, NfcFlags, Outcomes, DeniedIsBounded,
     ExecuteCancel, ExecuteDenied, ExecutePlain, ExecuteSet, ExecuteUnlock
<1>2. HistAfterPin \in Histories /\ hist \in Histories
  BY PinType DEF Inv, TypeOK
<1>3. nfc.execState \in {"SUCCESS", "FAIL"}
  BY DEF Inv, TypeOK, NfcFlags
<1>4. ASSUME NEW n \in NfcFlags, NEW o, NEW l, NEW h, Answer(n, o, l, h),
             n.denied = nfc.denied, h.effect = "refused" => n.exec = "FAIL"
      PROVE  Outcomes'
  <2>1. n.denied <= MaxDenied + 1 /\ (n.denied > MaxDenied => n.security)
    BY <1>1, <1>4
  <2> QED BY <1>4, <2>1, AnswerOutcomes
<1>5. CASE ExecuteCancel
  <2> DEFINE n == [nfc EXCEPT !.exec = "SUCCESS"]
             h == Executed(hist, "done")
  <2>1. Answer(n, otk, ltd, h)
    BY <1>5 DEF ExecuteCancel
  <2>2. n \in NfcFlags /\ n.denied = nfc.denied /\ h.effect = "done"
    BY <1>2, OutcomeKeeps, ExecutedType DEF Effects
  <2> HIDE DEF n, h
  <2> QED BY <1>4, <2>1, <2>2
<1>6. CASE ExecuteDenied
  <2> DEFINE h == Executed(hist, "refused")
  <2>1. Answer(Denied, otk, LtdAfterPin, h)
    BY <1>6 DEF ExecuteDenied
  <2> HIDE DEF h
  <2>2. /\ Denied \in NfcFlags /\ Denied.exec = "FAIL"
        /\ Denied.denied <= MaxDenied + 1
        /\ Denied.denied > MaxDenied => Denied.security
    BY <1>1, DeniedKeeps
  <2> QED BY <2>1, <2>2, AnswerOutcomes
<1>7. CASE ExecutePlain
  <2> DEFINE e == IF PinError THEN "FAIL" ELSE "SUCCESS"
             f == IF PinError THEN "refused" ELSE PlainEffect
             n == Outcome(e)
             h == Executed(HistAfterPin, f)
  <2>1. Answer(n, OtkAfterPin, LtdAfterPin, h)
    BY <1>7 DEF ExecutePlain
  <2>2. e \in {"SUCCESS", "FAIL"} /\ f \in Effects /\ (f = "refused" => e = "FAIL")
    BY DEF PlainEffect, Effects
  <2> HIDE DEF e, f
  <2>3. n \in NfcFlags /\ n.denied = nfc.denied /\ n.exec = e /\ h.effect = f
    BY <1>2, <2>2, OutcomeKeeps, ExecutedType
  <2> HIDE DEF n, h
  <2> QED BY <1>4, <2>1, <2>2, <2>3
<1>8. CASE ExecuteSet
  <2> DEFINE ok == req.data = "good"
             n == IF ok THEN [nfc EXCEPT !.exec = nfc.execState]
                  ELSE Outcome("FAIL")
             l == IF req.cmd = "SET_NOTE" THEN Paused(ltd) ELSE LtdAfterPin
             h == IF ok THEN Changed(HistAfterPin)
                  ELSE Executed(HistAfterPin, "refused")
  <2>1. Answer(n, [otk EXCEPT !.auth = FALSE], l, h)
    BY <1>8 DEF ExecuteSet
  <2>2. n \in NfcFlags /\ n.denied = nfc.denied
    BY <1>3, OutcomeKeeps
  <2>3. ok => h.effect = "done"
    BY <1>2, ChangedType
  <2>4. ~ok => n.exec = "FAIL"
    BY OutcomeKeeps
  <2> HIDE DEF n, l, h, ok
  <2> QED BY <1>4, <2>1, <2>2, <2>3, <2>4
<1>9. CASE ExecuteUnlock /\ ~otk.locked
  <2> DEFINE n == Outcome("FAIL")
             h == Executed(HistAfterPin, "refused")
  <2>1. Answer(n, OtkAfterPin, LtdAfterPin, h)
    BY <1>9 DEF ExecuteUnlock
  <2>2. n \in NfcFlags /\ n.denied = nfc.denied /\ n.exec = "FAIL"
    BY OutcomeKeeps
  <2> HIDE DEF n, h
  <2> QED BY <1>4, <2>1, <2>2
<1>10. CASE ExecuteUnlock /\ otk.locked
  <2>1. /\ pc' = "unlock" /\ nfc' = Stopped /\ hist' = HistAfterPin /\ ndef' = ndef
    BY <1>10 DEF ExecuteUnlock
  <2>2. OutcomeKept
    BY <2>1, StoppedType, PinHistory DEF OutcomeKept
  <2> QED BY <2>1, <2>2, OutcomeKeptEnough DEF AnswerReady
<1> QED BY <1>5, <1>6, <1>7, <1>8, <1>9, <1>10

\* OTK_unlock was not refused, whether the erase succeeds or not.
LEMMA UnlockOutcome ==
  ASSUME Inv, Outcomes, RunUnlock
  PROVE  Outcomes'
<1>1. CASE UnlockErase
  <2>1. PICK x \in EraseOutcomes : hist' = EraseHistory(x)
    BY <1>1 DEF UnlockErase, EraseHistory
  <2>2. /\ pc = "unlock" /\ pc' = "start"
        /\ UNCHANGED <<queue, nfc, ndef>>
    BY <1>1 DEF UnlockErase
  <2>3. /\ ForRequest => hist'.effect \in {"done", "undone"}
        /\ ~ForRequest => hist'.effect = hist.effect
    BY <2>1, <2>2, EraseHistoryType
  <2> QED BY <2>2, <2>3 DEF Outcomes, DeniedIsBounded, RefusalIsTold, AnswerReady,
          ForRequest
<1>2. CASE StartTest \/ StartPut \/ StartFlag
  <2>1. pc \notin BootSteps => pc \in {"start", "put", "flag"} /\ queue # << >>
    BY <1>2 DEF StartTest, StartPut, StartFlag, BootSteps, Inv, SlotHeld, UnlockSteps
  <2>2. ASSUME NEW l, StandbyReturns(l) PROVE Outcomes'
    <3>1. CASE pc \notin BootSteps /\ ForRequest
      <4> DEFINE n == [nfc EXCEPT !.exec = nfc.execState]
      <4>1. Answer(n, otk, l, hist)
        BY <2>2, <3>1 DEF StandbyReturns
      <4>2. nfc.execState \in {"SUCCESS", "FAIL"}
        BY DEF Inv, TypeOK, NfcFlags
      <4>3. n \in NfcFlags /\ n.denied = nfc.denied /\ n.security = nfc.security
        BY <4>2, OutcomeKeeps
      <4>4. hist.effect # "refused"
        BY <2>1, <3>1 DEF Outcomes, AnswerReady
      <4> HIDE DEF n
      <4> QED BY <4>1, <4>3, <4>4, AnswerOutcomes DEF Outcomes, DeniedIsBounded
    <3>2. CASE pc \in BootSteps \/ ~ForRequest
      <4>1. pc' \in {"idle", "rekey"} /\ UNCHANGED <<nfc, ndef, hist>>
        BY <2>2, <3>2 DEF StandbyReturns
      <4> QED BY <4>1, OutcomeKeptEnough DEF OutcomeKept, AnswerReady
    <3> QED BY <3>1, <3>2
  <2>3. CASE PowerOff
    BY <2>3, OutcomeKeptEnough
  <2>4. CASE /\ pc' \in {"put", "bootPut", "flag", "bootFlag"}
             /\ (pc' \in {"put", "flag"}) <=> (pc \in {"start", "put"})
             /\ \/ queue' = queue
                \/ Len(queue) < QueueSize /\ queue' = Append(queue, "ltd")
             /\ UNCHANGED <<nfc, ndef, hist>>
    <3>1. queue # << >> => Head(queue') = Head(queue)
      BY <2>4, AppendType DEF Tasks, Inv, TypeOK
    <3>2. pc \in {"start", "put"} => pc \notin BootSteps
      BY DEF BootSteps
    <3>3. AnswerReady'
      BY <2>1, <2>4, <3>1, <3>2 DEF AnswerReady, ForRequest, Outcomes
    <3> QED BY <2>4, <3>3, OutcomeKeptEnough DEF OutcomeKept
  <2> QED BY <1>2, <2>2, <2>3, <2>4 DEF StartTest, StartPut, StartFlag
<1>3. CASE Rekey
  BY <1>3, OutcomeKeptEnough DEF Rekey
<1> QED BY <1>1, <1>2, <1>3 DEF RunUnlock

\* Every step of the firmware keeps the outcomes.
LEMMA OutcomesStep ==
  ASSUME Inv, Outcomes, [Next]_vars
  PROVE  Outcomes'
<1>1. CASE Boot
  <2>1. /\ nfc'.exec = "NA" /\ nfc'.denied = 0 /\ ~nfc'.security
        /\ hist'.effect = "none" /\ pc' = "bootStart"
    BY <1>1 DEF Boot, NfcReset, Inv, OffIsReset, NoHistory
  <2> QED BY <2>1, PinAssumption DEF Outcomes, DeniedIsBounded, RefusalIsTold, AnswerReady
<1>2. CASE BootAborted \/ PowerLoss
  BY <1>2, OutcomeKeptEnough DEF BootAborted, PowerLoss, OutcomeKept, AnswerReady
<1>3. CASE Interrupt
  BY <1>3, InterruptOutcome, OutcomeKeptEnough
<1>4. CASE RunStopTask
  <2>1. nfc \in NfcFlags /\ hist \in Histories
    BY DEF Inv, TypeOK
  <2>2. CASE \/ ExecuteCancel \/ ExecuteDenied \/ ExecutePlain \/ ExecuteSet
             \/ ExecuteUnlock
    BY <2>2, ExecuteOutcome
  <2>3. CASE StopForSecurity \/ RetireFinal
    BY <2>3, OutcomeKeptEnough DEF StopForSecurity, RetireFinal
  <2>4. CASE StopWhenStopped
    BY <2>4, OutcomeKeptEnough DEF StopWhenStopped, StopTask, OutcomeKept, AnswerReady
  <2>5. CASE StopOrRestart
    <3>1. CASE Answer(nfc, otk, ltd, hist)
      BY <2>1, <3>1, AnswerOutcomes DEF Outcomes, DeniedIsBounded, RefusalIsTold
    <3>2. CASE nfc' = Stopped /\ UNCHANGED <<pc, ndef, hist>> /\ pc = "idle"
      BY <3>2, StoppedType, OutcomeKeptEnough DEF OutcomeKept, AnswerReady
    <3> QED BY <2>5, <3>1, <3>2 DEF StopOrRestart, StopTask
  <2>6. CASE RetireReset
    <3>1. UNCHANGED <<pc, ndef, hist>> /\ pc = "idle"
      BY <2>6 DEF RetireReset, ToRetire, StopTask
    <3> QED BY <2>6, <3>1, RetireResetFlags, OutcomeKeptEnough DEF OutcomeKept, AnswerReady
  <2>7. CASE RetireClear
    <3> DEFINE h == [hist EXCEPT !.effect = "none"]
    <3>1. h \in Histories /\ h.effect = "none"
      BY <2>1 DEF Histories
    <3>2. hist' = [h EXCEPT !.of = "INVALID"]
      BY <2>7 DEF RetireClear
    <3> HIDE DEF h
    <3>3. hist'.effect = "none"
      BY <3>1, <3>2 DEF Histories
    <3>4. /\ nfc'.denied = nfc.denied /\ nfc'.security = nfc.security
          /\ pc' = "idle"
      BY <2>7, ClearedType DEF RetireClear, ToRetire, StopTask
    <3> QED BY <3>3, <3>4 DEF Outcomes, DeniedIsBounded, RefusalIsTold, AnswerReady
  <2> QED BY <1>4, <2>2, <2>3, <2>4, <2>5, <2>6, <2>7 DEF RunStopTask
<1>5. CASE RunDetector
  <2>1. CASE LtdBegin \/ MatchFailed \/ EnrollEnd
    BY <2>1, OutcomeKeptEnough DEF LtdBegin, MatchFailed, EnrollEnd,
       OutcomeKept, AnswerReady
  <2>2. CASE LtdKilled
    BY <2>2, HistAtEndType, OutcomeKeptEnough DEF LtdKilled, OutcomeKept, AnswerReady
  <2>3. CASE MatchFound
    <3>1. OutcomeKept
      BY <2>3, GrantType, FlagType DEF MatchFound, OutcomeKept, Inv, TypeOK
    <3>2. Head(queue') = "ltd"
      BY <2>3, PutType DEF MatchFound, Inv, TypeOK, SlotHeld, TouchSteps, Tasks
    <3> QED BY <3>1, <3>2, OutcomeKeptEnough DEF AnswerReady, ForRequest
  <2> QED BY <1>5, <2>1, <2>2, <2>3 DEF RunDetector
<1>6. CASE RunUnlock
  BY <1>6, UnlockOutcome
<1>7. CASE LongTouch
  <2>1. CASE LtdShutdown
    BY <2>1, OutcomeKeptEnough DEF LtdShutdown
  <2>2. CASE LtdTouch \/ LtdUnlock \/ LtdResetConfirmed
    <3>1. /\ pc' \in {"match", "enroll", "unlock", "idle", "rekey"}
          /\ UNCHANGED <<nfc, ndef>>
          /\ hist' \in {HistAtEnd, [HistAtEnd EXCEPT !.changes = 0]}
      BY <2>2 DEF LtdTouch, LtdUnlock, LtdResetConfirmed
    <3>2. HistAtEnd \in Histories /\ HistAtEnd.effect = hist.effect
      BY HistAtEndType
    <3>3. [HistAtEnd EXCEPT !.changes = 0].effect = HistAtEnd.effect
      BY <3>2, GrantType
    <3>4. hist'.effect = hist.effect
      BY <3>1, <3>2, <3>3
    <3> QED BY <3>1, <3>4, OutcomeKeptEnough DEF OutcomeKept, AnswerReady
  <2> QED BY <1>7, <2>1, <2>2 DEF LongTouch
<1>8. CASE UNCHANGED vars
  BY <1>8, OutcomeKeptEnough DEF vars, OutcomeKept, AnswerReady, ForRequest, Outcomes
<1> QED BY <1>1, <1>2, <1>3, <1>4, <1>5, <1>6, <1>7, <1>8 DEF Next

\* The outcomes hold in every state the firmware reaches.
LEMMA OutcomesInvariance == Spec => []Outcomes
<1>1. Init => Outcomes
  BY PinAssumption DEF Init, NfcReset, NoHistory, Outcomes, DeniedIsBounded,
     RefusalIsTold, AnswerReady
<1>2. Inv /\ Outcomes /\ [Next]_vars => Outcomes'
  BY OutcomesStep
<1> QED BY <1>1, <1>2, Invariance, PTL DEF Spec

\* nfc_process_request counts a denial before it tests the bound: no power
\* cycle sees more denials than the bound allows, and the last one latches
\* the shutdown.
THEOREM DenialsAreBounded == Spec => []DeniedIsBounded
<1>1. Outcomes => DeniedIsBounded
  BY DEF Outcomes
<1> QED BY <1>1, OutcomesInvariance, PTL

\* nfc_process_request publishes FAIL for what it refused, although SET and
\* UNLOCK commands publish an _execState that outlives its request.
THEOREM RefusalIsReported == Spec => []RefusalIsTold
<1>1. Outcomes => RefusalIsTold
  BY DEF Outcomes
<1> QED BY <1>1, OutcomesInvariance, PTL

(***************************************************************************)
(* Detectors and the races of their starts.                                *)
(***************************************************************************)
\* Slot i holds a detector that still loops or waits; b says that the task in
\* the first slot has stopped looping.
Counted(q, b, i) == i \in 1..Len(q) /\ q[i] = "ltd" /\ (i = 1 => ~b)

\* There is such a slot; there are no two.
Some(q, b) == \E i \in 1..Len(q) : Counted(q, b, i)
Single(q, b) ==
  \A i, j \in 1..Len(q) : Counted(q, b, i) /\ Counted(q, b, j) => i = j

\* The task in the first slot has stopped looping.
Busy == pc \notin {"idle", "ltd"} \cup BootSteps

\* The main loop has put a detector and not set the flag yet.
Flagging == pc \in {"flag", "bootFlag"}

\* A running flag has its detector, so has a put one; without a race there is
\* no second one, and the start's test still holds until the flag is set.
Detector ==
  /\ ltd.running => Some(queue, Busy)
  /\ Flagging => Some(queue, Busy)
  /\ ~hist.raced =>
       /\ Single(queue, Busy)
       /\ Some(queue, Busy) => ltd.running \/ Flagging
       /\ MidStart => ~ltd.running

\* Queueing another task moves no detector.
LEMMA AppendStopDetectors ==
  ASSUME NEW q \in Seq(Tasks), NEW b \in BOOLEAN
  PROVE  /\ Some(Append(q, "stop"), b) <=> Some(q, b)
         /\ Single(q, b) => Single(Append(q, "stop"), b)
<1> DEFINE p == Append(q, "stop")
<1>1. /\ Len(q) \in Nat /\ Len(p) = Len(q) + 1 /\ p[Len(q) + 1] = "stop"
      /\ \A i \in 1..Len(q) : p[i] = q[i]
  BY AppendProperties, LenProperties DEF Tasks
<1> HIDE DEF p
<1>2. \A i : Counted(p, b, i) <=> Counted(q, b, i)
  BY <1>1 DEF Counted
<1>3. Some(p, b) <=> Some(q, b)
  BY <1>1, <1>2 DEF Some, Counted
<1>4. ASSUME Single(q, b), NEW i \in 1..Len(p), NEW j \in 1..Len(p),
             Counted(p, b, i), Counted(p, b, j)
      PROVE  i = j
  <2>1. Counted(q, b, i) /\ Counted(q, b, j)
    BY <1>2, <1>4
  <2> QED BY <1>4, <2>1 DEF Single, Counted
<1> QED BY <1>3, <1>4 DEF Single, p

\* Queueing a detector makes one, and the only one where there was none.
LEMMA AppendLtdDetectors ==
  ASSUME NEW q \in Seq(Tasks), NEW b \in BOOLEAN, q = << >> => ~b
  PROVE  /\ Some(Append(q, "ltd"), b)
         /\ ~Some(q, b) => Single(Append(q, "ltd"), b)
<1> DEFINE p == Append(q, "ltd")
<1>1. /\ Len(q) \in Nat /\ Len(p) = Len(q) + 1 /\ p[Len(q) + 1] = "ltd"
      /\ \A i \in 1..Len(q) : p[i] = q[i]
  BY AppendProperties, LenProperties DEF Tasks
<1>2. Len(q) = 0 => ~b
  BY EmptySeq
<1> HIDE DEF p
<1>3. Counted(p, b, Len(q) + 1) /\ Len(q) + 1 \in 1..Len(p)
  BY <1>1, <1>2 DEF Counted
<1>4. ASSUME ~Some(q, b), NEW i \in 1..Len(p), Counted(p, b, i)
      PROVE  i = Len(q) + 1
  <2>1. CASE i \in 1..Len(q)
    <3>1. Counted(q, b, i)
      BY <1>1, <1>4, <2>1 DEF Counted
    <3> QED BY <1>4, <2>1, <3>1 DEF Some
  <2>2. CASE i \notin 1..Len(q)
    BY <1>1, <2>2
  <2> QED BY <2>1, <2>2
<1>5. ~Some(q, b) => Single(p, b)
  BY <1>4 DEF Single
<1> QED BY <1>3, <1>5 DEF Some, p

\* Giving back a slot that does not count moves detectors one place up.
LEMMA TailDetectors ==
  ASSUME NEW q \in Seq(Tasks), NEW b \in BOOLEAN, q # << >>, b \/ Head(q) # "ltd"
  PROVE  /\ Some(Tail(q), FALSE) <=> Some(q, b)
         /\ Single(q, b) => Single(Tail(q), FALSE)
<1> DEFINE p == Tail(q)
<1>1. /\ Len(q) \in Nat \ {0} /\ Len(p) = Len(q) - 1 /\ Len(p) \in Nat
      /\ \A i \in 1..Len(p) : p[i] = q[i + 1]
      /\ Head(q) = q[1]
  BY HeadTailProperties, LenProperties, EmptySeq
<1> HIDE DEF p
<1>2. \A i \in 1..Len(p) : Counted(p, FALSE, i) <=> Counted(q, b, i + 1)
  BY <1>1 DEF Counted
<1>3. \A i \in 1..Len(q) : Counted(q, b, i) => i - 1 \in 1..Len(p) /\ (i - 1) + 1 = i
  BY <1>1 DEF Counted
<1>4. \A i \in 1..Len(p) : i + 1 \in 1..Len(q)
  BY <1>1
<1>5. ASSUME Some(q, b) PROVE Some(p, FALSE)
  <2>1. PICK i \in 1..Len(q) : Counted(q, b, i)
    BY <1>5 DEF Some
  <2>2. Counted(p, FALSE, i - 1) /\ i - 1 \in 1..Len(p)
    BY <1>2, <1>3, <2>1
  <2> QED BY <2>2 DEF Some
<1>6. ASSUME Some(p, FALSE) PROVE Some(q, b)
  BY <1>2, <1>4, <1>6 DEF Some
<1>7. ASSUME Single(q, b), NEW i \in 1..Len(p), NEW j \in 1..Len(p),
             Counted(p, FALSE, i), Counted(p, FALSE, j)
      PROVE  i = j
  <2>1. /\ Counted(q, b, i + 1) /\ Counted(q, b, j + 1)
        /\ i + 1 \in 1..Len(q) /\ j + 1 \in 1..Len(q)
    BY <1>2, <1>4, <1>7
  <2>2. i + 1 = j + 1
    BY <1>7, <2>1 DEF Single
  <2> QED BY <1>1, <2>2
<1>8. Single(q, b) => Single(p, FALSE)
  BY <1>7 DEF Single
<1> QED BY <1>5, <1>6, <1>8 DEF p

\* A detector that stops looping leaves the others: none if it was the only
\* one or if no other slot holds one.
LEMMA EndDetectors ==
  ASSUME NEW q \in Seq(Tasks), q # << >>, Head(q) = "ltd"
  PROVE  /\ Some(q, FALSE)
         /\ Single(q, FALSE) => ~Some(q, TRUE)
         /\ Some(q, TRUE) <=> \E i \in 2..Len(q) : q[i] = "ltd"
<1>1. Len(q) \in Nat \ {0} /\ q[1] = "ltd" /\ 1 \in 1..Len(q)
  BY HeadTailProperties, LenProperties, EmptySeq
<1>2. Counted(q, FALSE, 1)
  BY <1>1 DEF Counted
<1>3. ASSUME Single(q, FALSE), NEW i \in 1..Len(q), Counted(q, TRUE, i) PROVE FALSE
  <2>1. Counted(q, FALSE, i) /\ i # 1
    BY <1>3 DEF Counted
  <2> QED BY <1>1, <1>2, <1>3, <2>1 DEF Single
<1>4. Some(q, TRUE) <=> \E i \in 2..Len(q) : q[i] = "ltd"
  BY <1>1 DEF Some, Counted
<1> QED BY <1>1, <1>2, <1>3, <1>4 DEF Some

\* The slot of a task that is no detector counts for none.
LEMMA StopSlotDetectors ==
  ASSUME NEW q \in Seq(Tasks), q # << >>, Head(q) = "stop"
  PROVE  /\ Some(q, TRUE) <=> Some(q, FALSE)
         /\ Single(q, FALSE) => Single(q, TRUE)
<1>1. q[1] = "stop"
  BY HeadTailProperties
<1>2. \A i : Counted(q, TRUE, i) <=> Counted(q, FALSE, i)
  BY <1>1 DEF Counted
<1> QED BY <1>2 DEF Some, Single

\* An empty queue holds none.
LEMMA NoDetector == \A b \in BOOLEAN : ~Some(<< >>, b) /\ Single(<< >>, b)
BY DEF Some, Single, Counted

\* A put adds a stop task or nothing.
LEMMA PutDetectors ==
  ASSUME NEW q \in Queues, NEW b \in BOOLEAN
  PROVE  /\ Some(Put(q, "stop"), b) <=> Some(q, b)
         /\ Single(q, b) => Single(Put(q, "stop"), b)
BY AppendStopDetectors DEF Put, Queues

\* OTK_standby, in the interrupt, queues a detector unless one runs.
LEMMA StandbyDetectors ==
  ASSUME NEW q \in Queues, NEW b \in BOOLEAN, NEW l \in LtdFlags,
         q = << >> => ~b, l.running => Some(q, b)
  PROVE  /\ Some(StandbyQueue(l, q), b)
         /\ l.running => StandbyQueue(l, q) = q
         /\ Single(q, b) /\ (Some(q, b) => l.running) => Single(StandbyQueue(l, q), b)
         /\ StandbyLtd(l).running /\ StandbyLtd(Paused(l)).running
<1>1. q \in Seq(Tasks) /\ l.running \in BOOLEAN
  BY DEF Queues, LtdFlags
<1>2. StandbyLtd(l).running
  BY <1>1 DEF StandbyLtd, LtdFlags
<1>3. Paused(l).running = l.running /\ Paused(l) \in LtdFlags
  BY PausedType
<1>4. StandbyLtd(Paused(l)).running
  BY <1>3 DEF StandbyLtd, LtdFlags
<1>5. CASE l.running
  BY <1>2, <1>4, <1>5 DEF StandbyQueue
<1>6. CASE ~l.running
  BY <1>1, <1>2, <1>4, <1>6, AppendLtdDetectors DEF StandbyQueue
<1> QED BY <1>5, <1>6

\* A device that is off has none.
LEMMA PowerOffDetector ==
  ASSUME PowerOff
  PROVE  Detector'
<1>1. ~Some(<< >>, TRUE) /\ Single(<< >>, TRUE)
  BY NoDetector
<1>2. /\ queue' = << >> /\ pc' = "off" /\ ltd'.running = FALSE /\ Busy' = TRUE
  BY DEF PowerOff, LtdReset, Busy, BootSteps
<1> QED BY <1>1, <1>2 DEF Detector, Flagging, MidStart

\* An idle main loop that runs on where a task's slot was given back.
LEMMA IdleDetector ==
  ASSUME Inv, Detector, queue # << >>, Busy \/ Head(queue) # "ltd",
         pc' \in {"idle"}, queue' = Tail(queue), hist'.raced = hist.raced,
         ltd'.running = (ltd.running \/ Flagging), ltd \in LtdFlags
  PROVE  Detector'
<1>1. queue \in Seq(Tasks) /\ Busy \in BOOLEAN
  BY DEF Inv, TypeOK, Queues, Busy
<1>2. /\ Some(Tail(queue), FALSE) <=> Some(queue, Busy)
      /\ Single(queue, Busy) => Single(Tail(queue), FALSE)
  BY <1>1, TailDetectors
<1>3. Busy' = FALSE /\ ~Flagging' /\ ~MidStart'
  BY DEF Busy, Flagging, MidStart
<1> QED BY <1>2, <1>3 DEF Detector

\* Publishing an answer moves the detector up, and pauses it at most.
LEMMA AnswerDetector ==
  ASSUME Inv, Detector, NEW n, NEW o, NEW l \in LtdFlags, NEW h, Answer(n, o, l, h),
         queue # << >>, Head(queue) = "stop", h.raced = hist.raced,
         l.running = (ltd.running \/ Flagging), ltd \in LtdFlags
  PROVE  Detector'
<1>1. CASE PowerOff
  BY <1>1, PowerOffDetector
<1>2. CASE ~PowerOff
  <2>1. ltd' \in {Paused(l), l} /\ queue' = Tail(queue) /\ pc' = "idle" /\ hist' = h
    BY <1>2 DEF Answer
  <2>2. ltd'.running = l.running
    BY <2>1, PausedType
  <2> QED BY <2>1, <2>2, IdleDetector
<1> QED BY <1>1, <1>2


\* A detector that stops looping leaves none but a race's.
LEMMA LoopEndDetector ==
  ASSUME Inv, Detector, pc = "ltd", ltd'.running = FALSE, hist' = HistAtEnd \/
           hist' = [HistAtEnd EXCEPT !.changes = 0],
         \/ pc' = "idle" /\ queue' = Tail(queue)
         \/ pc' \in {"match", "enroll", "unlock", "rekey"} /\ queue' = queue
  PROVE  Detector'
<1>1. /\ queue \in Seq(Tasks) /\ queue # << >> /\ Head(queue) = "ltd" /\ Busy = FALSE
      /\ hist.raced \in BOOLEAN
  BY DEF Inv, TypeOK, SlotHeld, TouchSteps, Queues, Busy, BootSteps, Histories
<1>2. /\ Single(queue, FALSE) => ~Some(queue, TRUE)
      /\ Some(queue, TRUE) <=> Spare
  BY <1>1, EndDetectors DEF Spare
<1>3. hist'.raced = (hist.raced /\ Spare)
  <2>1. HistAtEnd \in Histories /\ HistAtEnd.raced = (hist.raced /\ Spare)
    BY DEF HistAtEnd, Inv, TypeOK, Histories
  <2> QED BY <2>1 DEF Histories
<1>4. ~hist'.raced => ~Some(queue, TRUE)
  BY <1>1, <1>2, <1>3 DEF Detector
<1>5. ~Flagging' /\ ~MidStart'
  BY DEF Flagging, MidStart
<1>6. ~Some(queue, TRUE) => Single(queue, TRUE)
  BY DEF Some, Single
<1>7. CASE pc' = "idle" /\ queue' = Tail(queue)
  <2>1. /\ Some(queue', FALSE) <=> Some(queue, TRUE)
        /\ Single(queue, TRUE) => Single(queue', FALSE)
    BY <1>1, <1>7, TailDetectors
  <2>2. Busy' = FALSE
    BY <1>7 DEF Busy
  <2> QED BY <1>4, <1>5, <1>6, <2>1, <2>2 DEF Detector
<1>8. CASE pc' \in {"match", "enroll", "unlock", "rekey"} /\ queue' = queue
  <2>1. Busy' = TRUE
    BY <1>8 DEF Busy, BootSteps
  <2> QED BY <1>4, <1>5, <1>6, <1>8, <2>1 DEF Detector
<1> QED BY <1>7, <1>8

\* An interrupt that starts no detector moves none.
LEMMA QuietDetector ==
  ASSUME Inv, Detector, UNCHANGED pc, hist'.raced = hist.raced,
         ltd'.running = ltd.running, queue' \in {queue, Put(queue, "stop")}
  PROVE  Detector'
<1>1. queue \in Queues /\ Busy \in BOOLEAN
  BY DEF Inv, TypeOK, Busy
<1>2. /\ Some(queue', Busy) <=> Some(queue, Busy)
      /\ Single(queue, Busy) => Single(queue', Busy)
  BY <1>1, PutDetectors
<1>3. Busy' = Busy /\ Flagging' = Flagging /\ MidStart' = MidStart
  BY DEF Busy, Flagging, MidStart
<1> QED BY <1>2, <1>3 DEF Detector

\* OTK_standby in the interrupt starts the one detector, or makes a race.
LEMMA FieldOffDetector ==
  ASSUME Inv, Detector, pc # "off", UNCHANGED pc, CanStandby(ltd, queue),
         ltd' = StandbyLtd(Paused(ltd)), queue' = StandbyQueue(ltd, queue),
         hist' = [hist EXCEPT !.raced = @ \/ (~ltd.running /\ MidStart)]
  PROVE  Detector'
<1>1. /\ queue \in Queues /\ Busy \in BOOLEAN /\ ltd \in LtdFlags
      /\ ltd.running \in BOOLEAN
      /\ hist'.raced = (hist.raced \/ (~ltd.running /\ MidStart))
  BY DEF Inv, TypeOK, Busy, LtdFlags, Histories
<1>2. queue = << >> => ~Busy
  BY DEF Inv, TypeOK, SlotHeld, MainSteps, TouchSteps, UnlockSteps, Busy, BootSteps
<1>3. ltd.running => Some(queue, Busy)
  BY DEF Detector
<1>4. /\ Some(queue', Busy) /\ ltd'.running
      /\ ltd.running => queue' = queue
      /\ Single(queue, Busy) /\ (Some(queue, Busy) => ltd.running)
           => Single(queue', Busy)
  BY <1>1, <1>2, <1>3, StandbyDetectors
<1>5. Busy' = Busy /\ Flagging' = Flagging /\ MidStart' = MidStart
  BY DEF Busy, Flagging, MidStart
<1>6. ASSUME ~hist'.raced
      PROVE  Single(queue', Busy) /\ ~MidStart
  <2>1. ~hist.raced /\ (ltd.running \/ ~MidStart)
    BY <1>1, <1>6
  <2>2. ~MidStart
    BY <2>1 DEF Detector
  <2>3. ~Flagging
    BY <2>2 DEF Flagging, MidStart
  <2> QED BY <1>4, <2>1, <2>2, <2>3 DEF Detector
<1> QED BY <1>4, <1>5, <1>6 DEF Detector

\* The interrupt leaves no detector unaccounted for.
LEMMA InterruptDetector ==
  ASSUME Inv, Detector, Interrupt
  PROVE  Detector'
<1>0. /\ ltd \in LtdFlags /\ Paused(ltd).running = ltd.running
      /\ hist \in Histories
  BY PausedType DEF Inv, TypeOK
<1>1. CASE HandOver
  <2>1. hist'.raced = hist.raced
    BY <1>0, <1>1 DEF HandOver, Histories
  <2> QED BY <1>1, <2>1, QuietDetector DEF HandOver
<1>2. CASE FieldOn /\ ~HandOver
  BY <1>0, <1>2, QuietDetector DEF FieldOn
<1>3. CASE NdefRead \/ NdefUpdated \/ NdefRejected \/ NdefIgnored
  BY <1>3, QuietDetector DEF NdefRead, NdefUpdated, NdefRejected, NdefIgnored
<1>4. CASE FieldOff /\ ~HandOver
  <2>1. CASE PowerOff
    BY <2>1, PowerOffDetector
  <2>2. CASE UNCHANGED <<pc, ltd, hist>> /\ queue' = Put(queue, "stop")
    BY <2>2, QuietDetector
  <2>3. CASE /\ pc # "off" /\ UNCHANGED pc /\ ~(nfc.polling /\ ~CanStandby(ltd, queue))
             /\ ltd' = IF nfc.polling THEN StandbyLtd(Paused(ltd)) ELSE ltd
             /\ queue' = IF nfc.polling THEN StandbyQueue(ltd, queue) ELSE queue
             /\ hist' = [hist EXCEPT !.raced =
                  @ \/ (nfc.polling /\ ~ltd.running /\ MidStart)]
    <3>1. CASE nfc.polling
      BY <2>3, <3>1, FieldOffDetector
    <3>2. CASE ~nfc.polling
      <4>1. hist'.raced = hist.raced
        BY <1>0, <2>3, <3>2 DEF Histories
      <4> QED BY <2>3, <3>2, <4>1, QuietDetector
    <3> QED BY <3>1, <3>2
  <2> QED BY <1>4, <2>1, <2>2, <2>3 DEF FieldOff
<1> QED BY <1>1, <1>2, <1>3, <1>4 DEF Interrupt

\* nfc_safelyStop gives its slot back, or keeps it for OTK_unlock.
LEMMA StopDetector ==
  ASSUME Inv, Detector, RunStopTask
  PROVE  Detector'
<1>1. StopTask
  BY DEF RunStopTask, StopWhenStopped, StopForSecurity, StopOrRestart,
     ExecuteCancel, ExecuteDenied, ExecutePlain, ExecuteSet, ExecuteUnlock,
     RetireFinal, RetireReset, RetireClear, ToExecute, ToRetire
<1>2. /\ queue # << >> /\ Head(queue) = "stop" /\ pc = "idle" /\ ~Flagging
      /\ Busy = FALSE /\ ltd \in LtdFlags /\ ltd.running \in BOOLEAN
      /\ hist \in Histories
  BY <1>1 DEF StopTask, Flagging, Busy, Inv, TypeOK, LtdFlags
<1>3. /\ LtdAfterPin \in LtdFlags /\ LtdAfterPin.running = ltd.running
      /\ Paused(ltd) \in LtdFlags /\ Paused(ltd).running = ltd.running
  BY <1>2, PausedType DEF LtdAfterPin
<1>4. HistAfterPin \in Histories /\ HistAfterPin.raced = hist.raced
  BY <1>2, GrantType DEF HistAfterPin
<1>5. ASSUME NEW n, NEW o, NEW l \in {ltd, Paused(ltd), LtdAfterPin}, NEW h,
             h.raced = hist.raced, Answer(n, o, l, h)
      PROVE  Detector'
  <2>1. l \in LtdFlags /\ l.running = (ltd.running \/ Flagging)
    BY <1>2, <1>3, <1>5
  <2> QED BY <1>2, <1>5, <2>1, AnswerDetector
<1>6. ASSUME UNCHANGED pc, queue' = Tail(queue), hist'.raced = hist.raced,
             ltd'.running = ltd.running
      PROVE  Detector'
  BY <1>2, <1>6, IdleDetector
<1>7. ASSUME NEW h \in {hist, HistAfterPin}, NEW e \in Effects
      PROVE  Executed(h, e).raced = hist.raced /\ Changed(h).raced = hist.raced
  <2>1. h \in Histories /\ h.raced = hist.raced
    BY <1>2, <1>4, <1>7
  <2>2. Executed(h, e) \in Histories /\ Executed(h, e).raced = hist.raced
    BY <2>1, ExecutedType
  <2>3. Executed(h, "done") \in Histories /\ Executed(h, "done").raced = hist.raced
    BY <2>1, ExecutedType DEF Effects
  <2> QED BY <2>2, <2>3 DEF Changed, Histories
<1>8. CASE StopWhenStopped \/ RetireReset \/ RetireClear
  <2>1. /\ UNCHANGED pc /\ queue' = Tail(queue) /\ hist'.raced = hist.raced
        /\ ltd'.running = ltd.running
    BY <1>2, <1>8 DEF StopWhenStopped, RetireReset, RetireClear, LtdFlags, Histories
  <2> QED BY <1>6, <2>1
<1>9. CASE StopForSecurity \/ RetireFinal
  BY <1>9, PowerOffDetector DEF StopForSecurity, RetireFinal
<1>10. CASE StopOrRestart
  <2>1. CASE Answer(nfc, otk, ltd, hist)
    BY <1>5, <2>1
  <2>2. CASE UNCHANGED <<pc, ltd, hist>> /\ queue' = Tail(queue)
    BY <1>6, <2>2
  <2> QED BY <1>10, <2>1, <2>2 DEF StopOrRestart
<1>11. CASE ExecuteCancel
  BY <1>5, <1>7, <1>11 DEF ExecuteCancel, Effects
<1>12. CASE ExecuteDenied
  BY <1>5, <1>7, <1>12 DEF ExecuteDenied, Effects
<1>13. CASE ExecutePlain
  <2> DEFINE e == IF PinError THEN "refused" ELSE PlainEffect
  <2>1. e \in Effects
    BY DEF Effects, PlainEffect
  <2>2. \E n : Answer(n, OtkAfterPin, LtdAfterPin, Executed(HistAfterPin, e))
    BY <1>13 DEF ExecutePlain
  <2> HIDE DEF e
  <2> QED BY <1>5, <1>7, <2>1, <2>2
<1>14. CASE ExecuteSet
  <2>1. \E n, o : \E l \in {Paused(ltd), LtdAfterPin} :
          \E h \in {Changed(HistAfterPin), Executed(HistAfterPin, "refused")} :
            Answer(n, o, l, h)
    BY <1>14 DEF ExecuteSet
  <2> QED BY <1>5, <1>7, <2>1 DEF Effects
<1>15. CASE ExecuteUnlock
  <2>1. CASE \E n : Answer(n, OtkAfterPin, LtdAfterPin, Executed(HistAfterPin, "refused"))
    BY <1>5, <1>7, <2>1 DEF Effects
  <2>2. CASE /\ pc' = "unlock" /\ ltd' = LtdAfterPin /\ hist' = HistAfterPin
             /\ UNCHANGED queue
    <3>1. Some(queue, TRUE) <=> Some(queue, FALSE)
      BY <1>2, StopSlotDetectors DEF Inv, TypeOK, Queues
    <3>2. Single(queue, FALSE) => Single(queue, TRUE)
      BY <1>2, StopSlotDetectors DEF Inv, TypeOK, Queues
    <3>3. Busy' = TRUE /\ ~Flagging' /\ ~MidStart'
      BY <2>2 DEF Busy, BootSteps, Flagging, MidStart
    <3> QED BY <1>2, <1>3, <1>4, <2>2, <3>1, <3>2, <3>3 DEF Detector
  <2> QED BY <1>15, <2>1, <2>2 DEF ExecuteUnlock
<1> QED BY <1>8, <1>9, <1>10, <1>11, <1>12, <1>13, <1>14, <1>15 DEF RunStopTask

\* The detector's task, and the functions a long touch calls.
LEMMA TouchDetector ==
  ASSUME Inv, Detector, RunDetector \/ LongTouch \/ Rekey
  PROVE  Detector'
<1>1. CASE LtdBegin
  <2>1. Busy' = Busy /\ ~Flagging' /\ ~MidStart' /\ ~Flagging /\ ~MidStart
    BY <1>1 DEF LtdBegin, Busy, BootSteps, Flagging, MidStart
  <2> QED BY <1>1, <2>1 DEF LtdBegin, Detector
<1>2. CASE LtdKilled \/ LtdTouch \/ LtdUnlock \/ LtdResetConfirmed
  <2>1. ltd'.running = FALSE
    BY <1>2 DEF LtdKilled, LtdTouch, LtdUnlock, LtdResetConfirmed, Ended,
       LtdFlags, Inv, TypeOK
  <2>2. \/ pc' = "idle" /\ queue' = Tail(queue)
        \/ pc' \in {"match", "enroll", "unlock", "rekey"} /\ queue' = queue
    BY <1>2 DEF LtdKilled, LtdTouch, LtdUnlock, LtdResetConfirmed
  <2>3. hist' = HistAtEnd \/ hist' = [HistAtEnd EXCEPT !.changes = 0]
    BY <1>2 DEF LtdKilled, LtdTouch, LtdUnlock, LtdResetConfirmed
  <2>4. pc = "ltd"
    BY <1>2 DEF LtdKilled, LtdTouch, LtdUnlock, LtdResetConfirmed
  <2> QED BY <2>1, <2>2, <2>3, <2>4, LoopEndDetector
<1>3. CASE MatchFound
  <2>1. /\ pc = "match" /\ pc' = "start" /\ queue' = Put(queue, "stop")
        /\ UNCHANGED ltd /\ hist'.raced = hist.raced
    BY <1>3, GrantType DEF MatchFound, Inv, TypeOK
  <2>2. /\ Some(queue', Busy) <=> Some(queue, Busy)
        /\ Single(queue, Busy) => Single(queue', Busy)
    BY <2>1, PutDetectors DEF Inv, TypeOK, Busy
  <2>3. Busy' = Busy /\ ~Flagging' /\ ~MidStart' /\ ~Flagging
    BY <2>1 DEF Busy, BootSteps, Flagging, MidStart
  <2> QED BY <2>1, <2>2, <2>3 DEF Detector
<1>4. CASE MatchFailed \/ EnrollEnd \/ LtdShutdown \/ Rekey
  BY <1>4, PowerOffDetector DEF MatchFailed, EnrollEnd, LtdShutdown, Rekey
<1> QED BY <1>1, <1>2, <1>3, <1>4 DEF RunDetector, LongTouch

\* The end of the start: main runs on, an answer is published, the long touch
\* ends or its reset goes on.
LEMMA ReturnsDetector ==
  ASSUME Inv, Detector, NEW l \in LtdFlags, StandbyReturns(l),
         pc \in {"start", "flag", "bootStart", "bootFlag"},
         l.running, ltd.running \/ Flagging
  PROVE  Detector'
<1>1. ltd \in LtdFlags /\ Some(queue, Busy)
  BY DEF Inv, TypeOK, Detector
<1>2. CASE pc \in BootSteps
  <2>1. pc' = "idle" /\ ltd' = l /\ UNCHANGED <<queue, hist>>
    BY <1>2 DEF StandbyReturns
  <2>2. Busy' = Busy /\ ~Flagging' /\ ~MidStart'
    BY <1>2, <2>1 DEF Busy, Flagging, MidStart
  <2> QED BY <1>1, <2>1, <2>2 DEF Detector
<1>3. CASE pc \notin BootSteps
  <2>1. /\ Busy = TRUE /\ queue # << >>
    BY <1>3 DEF Busy, Inv, SlotHeld, UnlockSteps, BootSteps
  <2>2. CASE ForRequest
    <3>1. Answer([nfc EXCEPT !.exec = nfc.execState], otk, l, hist)
      BY <1>3, <2>2 DEF StandbyReturns
    <3> QED BY <1>1, <2>1, <2>2, <3>1, AnswerDetector DEF ForRequest
  <2>3. CASE ~ForRequest
    <3>1. /\ ltd' = l /\ UNCHANGED hist
          /\ \/ pc' = "rekey" /\ UNCHANGED queue
             \/ pc' = "idle" /\ queue' = Tail(queue)
      BY <1>3, <2>3 DEF StandbyReturns
    <3>2. CASE pc' = "rekey" /\ UNCHANGED queue
      <4>1. Busy' = TRUE /\ ~Flagging' /\ ~MidStart'
        BY <3>2 DEF Busy, BootSteps, Flagging, MidStart
      <4> QED BY <1>1, <2>1, <3>1, <3>2, <4>1 DEF Detector
    <3>3. CASE pc' = "idle" /\ queue' = Tail(queue)
      BY <1>1, <2>1, <3>1, <3>3, IdleDetector DEF LtdFlags
    <3> QED BY <3>1, <3>2, <3>3
  <2> QED BY <2>2, <2>3
<1> QED BY <1>2, <1>3

\* OTK_unlock and the start of the detector in the main loop.
LEMMA UnlockDetector ==
  ASSUME Inv, Detector, UnlockErase \/ StartTest \/ StartPut \/ StartFlag
  PROVE  Detector'
<1>0. /\ ltd \in LtdFlags /\ queue \in Queues /\ queue \in Seq(Tasks)
      /\ ltd.running \in BOOLEAN /\ Paused(ltd).running = ltd.running
  BY PausedType DEF Inv, TypeOK, Queues, LtdFlags
<1>1. CASE UnlockErase
  <2>1. \E x \in EraseOutcomes : hist' = EraseHistory(x)
    BY <1>1 DEF UnlockErase, EraseHistory
  <2>2. /\ pc = "unlock" /\ pc' = "start" /\ ltd' = Paused(ltd) /\ UNCHANGED queue
    BY <1>1 DEF UnlockErase
  <2>3. hist'.raced = hist.raced
    BY <2>1, <2>2, EraseHistoryType
  <2>4. Busy' = Busy /\ ~Flagging' /\ ~MidStart' /\ ~Flagging
    BY <2>2 DEF Busy, BootSteps, Flagging, MidStart
  <2> QED BY <1>0, <2>2, <2>3, <2>4 DEF Detector
<1>2. CASE StartTest
  <2>1. pc \in {"start", "bootStart"}
    BY <1>2 DEF StartTest
  <2>2. CASE ltd.running /\ StandbyReturns(ltd)
    BY <1>0, <2>1, <2>2, ReturnsDetector
  <2>3. CASE PowerOff
    BY <2>3, PowerOffDetector
  <2>4. CASE /\ ~ltd.running /\ pc' = IF pc = "start" THEN "put" ELSE "bootPut"
             /\ ltd' = [ltd EXCEPT !.kill = FALSE] /\ UNCHANGED <<queue, hist>>
    <3>1. ltd'.running = FALSE
      BY <1>0, <2>4 DEF LtdFlags
    <3>2. Busy' = Busy /\ ~Flagging' /\ ~Flagging
      BY <2>1, <2>4 DEF Busy, BootSteps, Flagging
    <3> QED BY <2>4, <3>1, <3>2 DEF Detector
  <2> QED BY <1>2, <2>2, <2>3, <2>4 DEF StartTest
<1>3. CASE StartPut
  <2>1. CASE PowerOff
    BY <2>1, PowerOffDetector
  <2>2. CASE /\ pc' = IF pc = "put" THEN "flag" ELSE "bootFlag"
             /\ queue' = Append(queue, "ltd") /\ UNCHANGED <<ltd, hist>>
    <3>1. pc \in {"put", "bootPut"}
      BY <1>3 DEF StartPut
    <3>2. queue = << >> => ~Busy
      BY <3>1 DEF Inv, SlotHeld, UnlockSteps, Busy, BootSteps
    <3>3. /\ Some(queue', Busy)
          /\ ~Some(queue, Busy) => Single(queue', Busy)
      BY <1>0, <2>2, <3>2, AppendLtdDetectors DEF Busy
    <3>4. Busy' = Busy /\ Flagging' /\ MidStart' /\ MidStart /\ ~Flagging
      BY <2>2, <3>1 DEF Busy, BootSteps, Flagging, MidStart
    <3> QED BY <2>2, <3>3, <3>4 DEF Detector
  <2> QED BY <1>3, <2>1, <2>2 DEF StartPut
<1>4. CASE StartFlag
  <2> DEFINE l == [ltd EXCEPT !.running = TRUE]
  <2>1. l \in LtdFlags /\ l.running
    BY <1>0 DEF LtdFlags
  <2>2. StandbyReturns(l) /\ pc \in {"flag", "bootFlag"} /\ Flagging
    BY <1>4 DEF StartFlag, Flagging
  <2> HIDE DEF l
  <2> QED BY <2>1, <2>2, ReturnsDetector
<1> QED BY <1>1, <1>2, <1>3, <1>4

\* Every step of the firmware accounts for the detectors.
LEMMA DetectorStep ==
  ASSUME Inv, Detector, [Next]_vars
  PROVE  Detector'
<1>1. CASE Boot
  <2>1. /\ queue = << >> /\ ltd = LtdReset /\ hist = NoHistory
        /\ pc' = "bootStart" /\ UNCHANGED <<queue, ltd, hist>>
    BY <1>1 DEF Boot, Inv, OffIsReset
  <2>2. ~Some(<< >>, FALSE) /\ Single(<< >>, FALSE)
    BY NoDetector
  <2>3. Busy' = FALSE /\ ~Flagging' /\ ~MidStart'
    BY <2>1 DEF Busy, BootSteps, Flagging, MidStart
  <2> QED BY <2>1, <2>2, <2>3 DEF Detector, LtdReset
<1>2. CASE BootAborted \/ UNCHANGED vars
  BY <1>2 DEF BootAborted, vars, Detector, Busy, Flagging, MidStart
<1>3. CASE PowerLoss
  BY <1>3, PowerOffDetector DEF PowerLoss
<1> QED BY <1>1, <1>2, <1>3, InterruptDetector, StopDetector, TouchDetector,
           UnlockDetector DEF Next, RunUnlock

\* The detectors are accounted for in every state the firmware reaches.
LEMMA DetectorInvariance == Spec => []Detector
<1>1. Init => Detector
  <2> SUFFICES ASSUME Init PROVE Detector
    OBVIOUS
  <2>1. ~Some(<< >>, TRUE) /\ Single(<< >>, TRUE)
    BY NoDetector
  <2>2. queue = << >> /\ pc = "off" /\ ltd.running = FALSE /\ Busy = TRUE
    BY DEF Init, LtdReset, Busy, BootSteps
  <2> QED BY <2>1, <2>2 DEF Detector, Flagging, MidStart
<1>2. Inv /\ Detector /\ [Next]_vars => Detector'
  BY DetectorStep
<1> QED BY <1>1, <1>2, Invariance, PTL DEF Spec

\* FPS_longTouchDetectorStart tests _ltdRunning, queues the detector and sets
\* the flag in three steps in the main loop, and in one in the interrupt; the
\* loop clears the flag.  The flag never stands for a detector that is not
\* there; and there are two, or one that the flag denies, only after a field
\* event came between the test and the setting, until the last of them ends.
THEOREM DetectorIsOne == Spec => []OneDetector
<1>1. Inv /\ Detector => OneDetector
  <2> SUFFICES ASSUME Inv, Detector PROVE OneDetector
    OBVIOUS
  <2>1. DOMAIN queue = 1..Len(queue)
    BY LenProperties DEF Inv, TypeOK, Queues
  <2>2. Busy <=> pc \notin {"idle", "ltd"} \cup BootSteps
    BY DEF Busy
  <2>3. \A i : i \in DetectorSlots <=> Counted(queue, Busy, i)
    BY <2>1, <2>2 DEF DetectorSlots, Counted
  <2>4. Some(queue, Busy) <=> DetectorSlots # {}
    BY <2>3 DEF Some, Counted
  <2>5. Single(queue, Busy) => \A i, j \in DetectorSlots : i = j
    BY <2>3 DEF Single, Counted
  <2> QED BY <2>4, <2>5 DEF OneDetector, Detector, Flagging
<1> QED BY <1>1, Invariance, DetectorInvariance, PTL
==============================================================================

------------------------------- MODULE OtkCore -------------------------------
(***************************************************************************)
(* The control core of the OpenTurnKey firmware: the NFC request session   *)
(* (nfc.c), the authorisation and lock state (otk.c), the long-touch       *)
(* detector (fps.c) and the event queue of app_scheduler they all share.   *)
(*                                                                         *)
(* Two contexts interleave.  The main loop runs one queued task at a time  *)
(* to its end: nfc_safelyStop or fps_longTouchDetector; the latter loops   *)
(* until it is killed or a long touch makes it call an OTK_* function, and *)
(* keeps its queue slot meanwhile.  The NFC callback runs in interrupt     *)
(* context and may preempt the main loop anywhere; the app_timer interrupt *)
(* has the same priority, so interrupts never nest.  nfc_safelyStop is one *)
(* action but for OTK_unlock: it disables the NFC peripheral first, and of *)
(* what a field event may still change after that only the detector's      *)
(* start, which is three steps, is looked at in between.                   *)
(* Power may go at any time (standby timeout, battery).                    *)
(***************************************************************************)
EXTENDS Naturals, Sequences

CONSTANTS
  Commands,      \* the request commands readers send in this instance
  Pins,          \* the PIN options they send with them
  QueueSize,     \* APP_SCHED_QUEUE_SIZE: slots of the scheduler queue (4)
  SuspendAt,     \* PIN failures from which a retry penalty is set (3)
  MaxFailures,   \* PIN failures are counted up to here (32)
  Penalty,       \* Penalty[f]: reboots to wait after the f-th PIN failure
  MaxDenied      \* denied requests tolerated in one power cycle (2)

AllCommands == {"LOCK", "UNLOCK", "SHOW_KEY", "SIGN", "SET_KEY", "SET_PIN",
                "SET_NOTE", "CANCEL", "RESET", "EXPORT_WIF_KEY"}
SetCommands == {"SET_KEY", "SET_PIN", "SET_NOTE"}
ProtectedCommands == {"SHOW_KEY", "SIGN", "EXPORT_WIF_KEY"}
DataCommands == SetCommands \cup {"SIGN"}

AllPins == {"none", "match", "wrong"}

ASSUME CommandsAssumption == Commands \subseteq AllCommands /\ Pins \subseteq AllPins
ASSUME QueueAssumption == QueueSize \in Nat /\ QueueSize > 0
ASSUME PinAssumption ==
  /\ SuspendAt \in Nat /\ MaxFailures \in Nat /\ MaxDenied \in Nat
  /\ Penalty \in [0..MaxFailures -> Nat]

VARIABLES
  pc,        \* what the main loop is executing
  queue,     \* the scheduler queue, the running task's slot included
  nfc,       \* the flags of nfc.c
  req,       \* the stored request: command, PIN option, data validity
  ndef,      \* what m_ndef_msg_buf, the tag's memory, holds
  otk,       \* m_otk_isLocked, m_otk_isAuthorized
  ltd,       \* the flags of the long-touch detector
  key,       \* the persistent key object: PIN set, failures, retry-after
  enrolled,  \* the sensor module holds a fingerprint
  field,     \* the reader's field, as the tag sees it
  hist       \* history: changes since the last grant, outcome, detector races

vars == <<pc, queue, nfc, req, ndef, otk, ltd, key, enrolled, field, hist>>

(***************************************************************************)
(* Values of the volatile state right after a reset.                       *)
(***************************************************************************)
NfcReset == [started |-> FALSE, restart |-> FALSE, polling |-> FALSE,
             hasRead |-> FALSE, processing |-> FALSE, more |-> FALSE,
             security |-> FALSE, denied |-> 0, exec |-> "NA",
             execState |-> "SUCCESS"]
NoRequest == [cmd |-> "INVALID", pin |-> "none", data |-> "good"]
BlankTag == [exec |-> "NA", cmd |-> "INVALID", of |-> "INVALID", raw |-> FALSE]
LtdReset == [running |-> FALSE, kill |-> FALSE, confirm |-> FALSE]
NoHistory == [changes |-> 0, effect |-> "none", of |-> "INVALID",
              raced |-> FALSE, lost |-> FALSE]

PowerOff ==
  /\ pc' = "off"
  /\ queue' = << >>
  /\ nfc' = NfcReset
  /\ req' = NoRequest
  /\ ndef' = BlankTag
  /\ otk' = [locked |-> FALSE, auth |-> FALSE]
  /\ ltd' = LtdReset
  /\ field' = "none"
  /\ hist' = NoHistory

Init ==
  /\ pc = "off"
  /\ queue = << >>
  /\ nfc = NfcReset
  /\ req = NoRequest
  /\ ndef = BlankTag
  /\ otk = [locked |-> FALSE, auth |-> FALSE]
  /\ ltd = LtdReset
  /\ field = "none"
  /\ hist = NoHistory
  /\ key = [pinSet |-> FALSE, failures |-> 0, retry |-> 0]
  /\ enrolled = FALSE

(***************************************************************************)
(* Calls shared by the handlers.                                           *)
(***************************************************************************)

\* Mutants of Put: no bound; an event is dropped when another is queued.
PutUnbounded(q, task) == Append(q, task)
PutWhenEmpty(q, task) == IF q = << >> THEN <<task>> ELSE q

\* app_sched_event_put: a full queue drops the event.
Put(q, task) == IF Len(q) < QueueSize THEN Append(q, task) ELSE q

\* Mutant of StandbyLtd: _ltdRunning is not set.
StandbyLtdUnflagged(l) == [l EXCEPT !.kill = FALSE]

\* FPS_longTouchDetectorStart in the interrupt, where nothing comes between
\* its steps: nothing to do when a detector is running, even one that has been
\* told to stop.
CanStandby(l, q) == l.running \/ Len(q) < QueueSize
StandbyLtd(l) ==
  IF l.running THEN l ELSE [l EXCEPT !.running = TRUE, !.kill = FALSE]
StandbyQueue(l, q) == IF l.running THEN q ELSE Append(q, "ltd")

\* OTK_pause: tell the detector to stop.
Paused(l) == [l EXCEPT !.kill = TRUE]

\* The stored request has not been executed yet.
Pending == req.cmd # "INVALID" /\ nfc.exec = "NA"

\* nfc_setRecords: the records built from the execution state e and the stored
\* request r; o is the command that e is the outcome of.
Records(e, r, o) == [exec |-> e, cmd |-> r.cmd, of |-> o, raw |-> FALSE]

\* A reader's write goes to the same memory: the records are gone.
ReaderData == [BlankTag EXCEPT !.raw = TRUE]

\* The sensor's user count is read as 0 when the module does not answer.
LockSeen(e) == {e, FALSE}

(***************************************************************************)
(* Power.  OTK_init reads the lock state from the sensor and counts one    *)
(* reboot off the PIN suspension; main then starts NFC and calls           *)
(* OTK_standby, unless the battery is low or a module failed to initialise.*)
(***************************************************************************)
KeyAfterBoot ==
  IF key.failures >= SuspendAt /\ key.retry > 0
  THEN [key EXCEPT !.retry = @ - 1] ELSE key

Boot ==
  /\ pc = "off"
  /\ key' = KeyAfterBoot
  /\ \E seen \in LockSeen(enrolled) : otk' = [locked |-> seen, auth |-> FALSE]
  /\ pc' = "bootStart"
  /\ nfc' = [NfcReset EXCEPT !.started = TRUE]
  /\ ndef' = Records("NA", NoRequest, "INVALID")
  /\ UNCHANGED <<queue, req, ltd, enrolled, field, hist>>

BootAborted ==
  /\ pc = "off"
  /\ key' = KeyAfterBoot
  /\ UNCHANGED <<pc, queue, nfc, req, ndef, otk, ltd, enrolled, field, hist>>

\* The standby timer expires, or the supply is lost.
PowerLoss ==
  /\ pc # "off"
  /\ PowerOff
  /\ UNCHANGED <<key, enrolled>>

(***************************************************************************)
(* nfc_callback: the interrupt handler.                                    *)
(***************************************************************************)

\* A stop is dropped, and there is no other in the queue.
NoStopFits ==
  Len(queue) >= QueueSize /\ \A i \in DOMAIN queue : queue[i] # "stop"

\* A field event finds a stored request that nobody has taken up yet.
HandOver ==
  /\ Pending /\ ~nfc.processing
  /\ nfc' = [nfc EXCEPT !.processing = TRUE, !.restart = TRUE]
  /\ queue' = Put(queue, "stop")
  /\ hist' = [hist EXCEPT !.lost = @ \/ NoStopFits]
  /\ UNCHANGED <<pc, req, ndef, otk, ltd, key, enrolled>>

\* NFC_T4T_EVENT_FIELD_ON is raised every time a reader selects the tag.
FieldOn ==
  /\ pc # "off" /\ nfc.started
  /\ field' = "selected"
  /\ \/ HandOver
     \/ /\ ~(Pending /\ ~nfc.processing)
        /\ nfc' = [nfc EXCEPT !.polling = TRUE]
        /\ ltd' = IF nfc.polling THEN ltd ELSE Paused(ltd)
        /\ UNCHANGED <<pc, queue, req, ndef, otk, key, enrolled, hist>>

\* The main loop is inside its own start of the detector, past the test.
BootSteps == {"bootStart", "bootPut", "bootFlag"}
MidStart == pc \in {"put", "flag", "bootPut", "bootFlag"}

\* A field that was there when the emulation stopped may be lost later.
FieldOff ==
  /\ pc # "off" /\ (nfc.started \/ field # "none")
  /\ \/ HandOver /\ field' = "none"
     \/ /\ ~(Pending /\ ~nfc.processing) /\ nfc.security
        /\ nfc' = [nfc EXCEPT !.restart = FALSE]
        /\ queue' = Put(queue, "stop")
        /\ field' = "none"
        /\ UNCHANGED <<pc, req, ndef, otk, ltd, key, enrolled, hist>>
     \/ /\ ~(Pending /\ ~nfc.processing) /\ ~nfc.security
        /\ IF nfc.polling /\ ~CanStandby(ltd, queue)
           THEN PowerOff /\ UNCHANGED <<key, enrolled>>
           ELSE /\ nfc' = [nfc EXCEPT !.polling = FALSE]
                /\ ltd' = IF nfc.polling THEN StandbyLtd(Paused(ltd)) ELSE ltd
                /\ queue' = IF nfc.polling THEN StandbyQueue(ltd, queue)
                                           ELSE queue
                /\ field' = "none"
                /\ hist' = [hist EXCEPT !.raced =
                     @ \/ (nfc.polling /\ ~ltd.running /\ MidStart)]
                /\ UNCHANGED <<pc, req, ndef, otk, key, enrolled>>

ReaderActive == pc # "off" /\ nfc.started /\ field = "selected"

\* The reader has read the last byte of what the tag's memory holds.
NdefRead ==
  /\ ReaderActive
  /\ req.cmd # "INVALID" /\ nfc.exec # "NA"
  /\ nfc' = [nfc EXCEPT !.hasRead = TRUE, !.restart = TRUE]
  /\ queue' = Put(queue, "stop")
  /\ UNCHANGED <<pc, req, ndef, otk, ltd, key, enrolled, field, hist>>

\* A request as the reader may write it; a request without an option record
\* keeps the option and the "more" flag of the one before.
Options == {o \in [present : BOOLEAN, pin : {"none"} \cup Pins, more : BOOLEAN] :
              o.present \/ (o.pin = "none" /\ ~o.more)}
\* Data: "bad" is refused by OTK_set* and, when not hexadecimal, by SIGN;
\* "void" has a hash of no byte or of too many, which SIGN passes over.
Written == {w \in [cmd : Commands, data : {"good", "bad", "void"}, opt : Options] :
              /\ w.data = "bad" => w.cmd \in DataCommands
              /\ w.data = "void" => w.cmd = "SIGN"}

Store(w, rejected) ==
  /\ ndef' = ReaderData
  /\ req' = [cmd |-> w.cmd, data |-> w.data,
             pin |-> IF w.opt.present THEN w.opt.pin ELSE req.pin]
  /\ nfc' = [nfc EXCEPT !.more = IF w.opt.present THEN w.opt.more ELSE @,
                        !.security = @ \/ rejected]

NdefUpdated ==
  /\ ReaderActive
  /\ \E w \in Written : Store(w, FALSE)
  /\ UNCHANGED <<pc, queue, otk, ltd, key, enrolled, field, hist>>

\* A request with a bad session ID, request ID or command, or too few
\* records, stores nothing; one with too many records is stored all the same.
NdefRejected ==
  /\ ReaderActive
  /\ \/ nfc' = [nfc EXCEPT !.security = TRUE] /\ ndef' = ReaderData /\ UNCHANGED req
     \/ \E w \in Written : w.opt.present /\ Store(w, TRUE)
  /\ UNCHANGED <<pc, queue, otk, ltd, key, enrolled, field, hist>>

\* A write of no length (the first of an NDEF update), or of too much, is not
\* looked at, but it is in the tag's memory.
NdefIgnored ==
  /\ ReaderActive
  /\ ndef' = ReaderData
  /\ UNCHANGED <<pc, queue, nfc, req, otk, ltd, key, enrolled, field, hist>>

(***************************************************************************)
(* nfc_safelyStop: the scheduled task that stops NFC, executes a request   *)
(* that was handed over or retires a result that was read, and restarts.   *)
(***************************************************************************)
StopTask == pc = "idle" /\ queue # << >> /\ Head(queue) = "stop"

\* Stopping the emulation ends the reader's selection.
Deselected == IF field = "none" THEN "none" ELSE "present"

Stopped == [nfc EXCEPT !.started = FALSE]

StopWhenStopped ==
  /\ StopTask /\ ~nfc.started
  /\ queue' = Tail(queue)
  /\ UNCHANGED <<pc, nfc, req, ndef, otk, ltd, key, enrolled, field, hist>>

\* Mutant of StopForSecurity: NFC is stopped, the device stays on.
StopForSecurityOnly ==
  /\ StopTask /\ nfc.started /\ nfc.security
  /\ nfc' = [nfc EXCEPT !.started = FALSE]
  /\ queue' = Tail(queue)
  /\ field' = Deselected
  /\ UNCHANGED <<pc, req, ndef, otk, ltd, key, enrolled, hist>>

StopForSecurity ==
  /\ StopTask /\ nfc.started /\ nfc.security
  /\ PowerOff
  /\ UNCHANGED <<key, enrolled>>

(***************************************************************************)
(* nfc_process_request, and the NFC_start that follows it: nfc_setRecords  *)
(* publishes the answer and, when it shows protected data, pauses the      *)
(* detector; sign data that is not hexadecimal shuts the device down.      *)
(* n, o, l, h are the states the command leaves behind.                    *)
(***************************************************************************)
\* Mutant of ToExecute: the request is processed before the security check.
ToExecuteUnchecked == StopTask /\ nfc.started /\ Pending /\ nfc.processing

ToExecute ==
  StopTask /\ nfc.started /\ ~nfc.security /\ Pending /\ nfc.processing

Answer(n, o, l, h) ==
  IF n.exec = "SUCCESS" /\ req.cmd = "SIGN" /\ req.data = "bad"
  THEN PowerOff
  ELSE /\ nfc' = [n EXCEPT !.restart = FALSE, !.started = TRUE]
       /\ ndef' = Records(n.exec, req, h.of)
       /\ ltd' = IF n.exec = "SUCCESS" /\ req.cmd \in ProtectedCommands
                 THEN Paused(l) ELSE l
       /\ otk' = o
       /\ queue' = Tail(queue)
       /\ hist' = h
       /\ field' = Deselected
       /\ pc' = "idle"
       /\ UNCHANGED req

\* OTK_pinValidate.  Exporting the WIF key takes no PIN, and a suspension
\* that still lasts refuses every PIN.
\* Mutant of PinTried: the suspension is not looked at.
PinTriedAnyway ==
  ~otk.auth /\ req.pin # "none" /\ req.cmd # "EXPORT_WIF_KEY"

PinTried ==
  /\ ~otk.auth /\ req.pin # "none" /\ req.cmd # "EXPORT_WIF_KEY"
  /\ key.retry = 0
PinMatched == PinTried /\ key.pinSet /\ req.pin = "match"
PinError == PinTried /\ ~PinMatched
KeyAfterMatch == [key EXCEPT !.failures = 0, !.retry = 0]
KeyAfterMismatch ==
  LET f == key.failures + 1
  IN [key EXCEPT !.failures = f,
                 !.retry = IF f >= SuspendAt THEN Penalty[f] ELSE @]
KeyAfterPin ==
  CASE PinMatched -> KeyAfterMatch
    [] PinError /\ key.pinSet /\ key.failures < MaxFailures -> KeyAfterMismatch
    [] OTHER -> key
LtdAfterPin == IF PinTried THEN Paused(ltd) ELSE ltd

\* Mutant of Authorized: the result of the PIN validation is not looked at.
AuthorizedUnvalidated == otk.auth \/ PinTried

Authorized == otk.auth \/ PinMatched
OtkAfterPin == [otk EXCEPT !.auth = Authorized]
HistAfterPin ==
  IF PinMatched THEN [hist EXCEPT !.changes = 0] ELSE hist

\* Mutant of Outcome: m_nfc_cmd_exec_state is assigned before _execState.
OutcomeEarly(e) == [nfc EXCEPT !.exec = nfc.execState, !.execState = e]

\* The outcome e of the command, kept in the static _execState for the next.
Outcome(e) == [nfc EXCEPT !.exec = e, !.execState = e]
Executed(h, effect) ==
  [h EXCEPT !.effect = effect, !.of = req.cmd, !.lost = FALSE]
Changed(h) == [Executed(h, "done") EXCEPT !.changes = @ + 1]

ExecuteCancel ==
  /\ ToExecute /\ req.cmd = "CANCEL"
  /\ Answer([nfc EXCEPT !.exec = "SUCCESS"], otk, ltd, Executed(hist, "done"))
  /\ UNCHANGED <<key, enrolled>>

\* Mutant of Denied: the count is tested before it is incremented.
DeniedTestedFirst ==
  [nfc EXCEPT !.exec = "FAIL", !.denied = @ + 1,
              !.security = nfc.denied > MaxDenied]

Denied ==
  [nfc EXCEPT !.exec = "FAIL", !.denied = @ + 1,
              !.security = nfc.denied + 1 > MaxDenied]

ExecuteDenied ==
  /\ ToExecute /\ req.cmd \notin {"CANCEL", "RESET"} /\ ~Authorized
  /\ Answer(Denied, otk, LtdAfterPin, Executed(hist, "refused"))
  /\ key' = KeyAfterPin
  /\ UNCHANGED enrolled

\* LOCK does nothing, a hash of no or of too many bytes goes unsigned, and
\* RESET is not done before a touch confirms it; all report SUCCESS.
PlainEffect ==
  IF \/ req.cmd \in {"LOCK", "RESET"}
     \/ req.cmd = "SIGN" /\ req.data = "void"
  THEN "undone" ELSE "done"

\* RESET needs no authorisation, but an option with a wrong PIN fails it.
ExecutePlain ==
  /\ ToExecute
  /\ \/ req.cmd = "RESET"
     \/ Authorized /\ req.cmd \in {"LOCK"} \cup ProtectedCommands
  /\ Answer(Outcome(IF PinError THEN "FAIL" ELSE "SUCCESS"), OtkAfterPin, LtdAfterPin,
            Executed(HistAfterPin, IF PinError THEN "refused" ELSE PlainEffect))
  /\ key' = KeyAfterPin
  /\ UNCHANGED enrolled

\* OTK_setKey, OTK_setPin and OTK_setNote use the authorisation up, whether
\* the data is accepted or not.  Success leaves _execState as it was.
ExecuteSet ==
  /\ ToExecute /\ Authorized /\ req.cmd \in SetCommands
  /\ LET ok == req.data = "good"
         n  == IF ok THEN [nfc EXCEPT !.exec = nfc.execState]
                     ELSE Outcome("FAIL")
         l  == IF req.cmd = "SET_NOTE" THEN Paused(ltd) ELSE LtdAfterPin
         h  == IF ok THEN Changed(HistAfterPin)
                     ELSE Executed(HistAfterPin, "refused")
     IN /\ Answer(n, [otk EXCEPT !.auth = FALSE], l, h)
        /\ key' = IF ok /\ req.cmd = "SET_PIN"
                  THEN [KeyAfterPin EXCEPT !.pinSet = TRUE] ELSE KeyAfterPin
  /\ UNCHANGED enrolled

\* UNLOCK of an unlocked device is refused; of a locked one it is OTK_unlock,
\* called with NFC stopped.
ExecuteUnlock ==
  /\ ToExecute /\ Authorized /\ req.cmd = "UNLOCK"
  /\ \/ /\ ~otk.locked
        /\ Answer(Outcome("FAIL"), OtkAfterPin, LtdAfterPin,
                  Executed(HistAfterPin, "refused"))
     \/ /\ otk.locked
        /\ pc' = "unlock"
        /\ nfc' = Stopped
        /\ otk' = OtkAfterPin
        /\ ltd' = LtdAfterPin
        /\ hist' = HistAfterPin
        /\ field' = Deselected
        /\ UNCHANGED <<queue, req, ndef>>
  /\ key' = KeyAfterPin
  /\ UNCHANGED enrolled

(***************************************************************************)
(* nfc_safelyStop after a result was read, or with nothing to execute.     *)
(***************************************************************************)
ToRetire ==
  /\ StopTask /\ nfc.started /\ ~nfc.security
  /\ ~(Pending /\ nfc.processing) /\ nfc.hasRead

\* The result was read and no command follows.
Final ==
  /\ req.cmd \notin {"INVALID", "CANCEL", "RESET"}
  /\ nfc.exec # "NA" /\ ~nfc.more
ToReset == ~Final /\ req.cmd = "RESET" /\ nfc.exec = "SUCCESS"
RetireFinal ==
  /\ ToRetire /\ Final
  /\ PowerOff
  /\ UNCHANGED <<key, enrolled>>

\* OTK_reset: NFC stays off until a 10 s touch confirms.
RetireReset ==
  /\ ToRetire /\ ToReset
  /\ nfc' = [Stopped EXCEPT !.hasRead = FALSE, !.processing = FALSE]
  /\ ltd' = [ltd EXCEPT !.confirm = TRUE]
  /\ queue' = Tail(queue)
  /\ field' = Deselected
  /\ UNCHANGED <<pc, req, ndef, otk, key, enrolled, hist>>

\* Mutants of Cleared: m_nfc_result_has_read or m_nfc_processing_request is
\* not reset.
ClearedStillRead ==
  [nfc EXCEPT !.processing = FALSE, !.exec = "NA", !.restart = FALSE]
ClearedStillProcessing ==
  [nfc EXCEPT !.hasRead = FALSE, !.exec = "NA", !.restart = FALSE]

\* nfc_clearRequest and NFC_start; m_nfc_more_cmd is not cleared.
Cleared ==
  [nfc EXCEPT !.hasRead = FALSE, !.processing = FALSE, !.exec = "NA",
              !.restart = FALSE]

RetireClear ==
  /\ ToRetire /\ ~Final /\ ~ToReset
  /\ nfc' = Cleared
  /\ req' = NoRequest
  /\ ndef' = Records("NA", NoRequest, "INVALID")
  /\ hist' = [hist EXCEPT !.effect = "none", !.of = "INVALID"]
  /\ queue' = Tail(queue)
  /\ field' = Deselected
  /\ UNCHANGED <<pc, otk, ltd, key, enrolled>>

StopOrRestart ==
  /\ StopTask /\ nfc.started /\ ~nfc.security
  /\ ~(Pending /\ nfc.processing) /\ ~nfc.hasRead
  /\ IF nfc.restart
     THEN Answer(nfc, otk, ltd, hist)
     ELSE /\ nfc' = Stopped
          /\ queue' = Tail(queue)
          /\ field' = Deselected
          /\ UNCHANGED <<pc, req, ndef, otk, ltd, hist>>
  /\ UNCHANGED <<key, enrolled>>

(***************************************************************************)
(* fps_longTouchDetector and the functions a long touch calls.             *)
(***************************************************************************)
LtdBegin ==
  /\ pc = "idle" /\ queue # << >> /\ Head(queue) = "ltd"
  /\ pc' = "ltd"
  /\ UNCHANGED <<queue, nfc, req, ndef, otk, ltd, key, enrolled, field, hist>>

\* A race of starts is over when the last of its detectors has ended.
Spare == \E i \in 2..Len(queue) : queue[i] = "ltd"
HistAtEnd == [hist EXCEPT !.raced = @ /\ Spare]

Ended == [ltd EXCEPT !.running = FALSE]

LtdKilled ==
  /\ pc = "ltd" /\ ltd.kill
  /\ pc' = "idle"
  /\ ltd' = Ended
  /\ queue' = Tail(queue)
  /\ hist' = HistAtEnd
  /\ UNCHANGED <<nfc, req, ndef, otk, key, enrolled, field>>

\* A touch of 2.4 s, no reset to confirm, not authorised: verify a finger
\* (OTK_fpValidate) or, on an unlocked device, enroll one (OTK_lock).  The
\* loop looks at _killLTD once a round, so the touch may outrun a stop.
LtdTouch ==
  /\ pc = "ltd" /\ ~ltd.confirm /\ ~otk.auth
  /\ pc' = IF otk.locked THEN "match" ELSE "enroll"
  /\ ltd' = Ended
  /\ hist' = HistAtEnd
  /\ UNCHANGED <<queue, nfc, req, ndef, otk, key, enrolled, field>>

\* OTK_fpValidate: FPS_captureAndMatch found the finger; OTK_standby follows.
MatchFound ==
  /\ pc = "match" /\ enrolled
  /\ pc' = "start"
  /\ otk' = [otk EXCEPT !.auth = TRUE]
  /\ hist' = [hist EXCEPT !.changes = 0]
  /\ nfc' = [nfc EXCEPT !.restart = TRUE]
  /\ queue' = Put(queue, "stop")
  /\ key' = KeyAfterMatch
  /\ UNCHANGED <<req, ndef, ltd, enrolled, field>>

MatchFailed ==
  /\ pc = "match"
  /\ PowerOff
  /\ UNCHANGED <<key, enrolled>>

\* OTK_lock always ends in a shutdown, whatever became of the enrollment.
EnrollEnd ==
  /\ pc = "enroll"
  /\ PowerOff
  /\ enrolled' \in BOOLEAN
  /\ UNCHANGED key

\* A touch of 10 s by an authorised user: OTK_unlock, which returns at once on
\* a device that does not know itself locked.
LtdUnlock ==
  /\ pc = "ltd" /\ ~ltd.confirm /\ otk.auth
  /\ ltd' = Ended
  /\ IF otk.locked THEN pc' = "unlock" /\ UNCHANGED queue
                   ELSE pc' = "idle" /\ queue' = Tail(queue)
  /\ hist' = HistAtEnd
  /\ UNCHANGED <<nfc, req, ndef, otk, key, enrolled, field>>

\* The same touch with nobody authorised: shut down.
LtdShutdown ==
  /\ pc = "ltd" /\ ~ltd.confirm /\ ~otk.auth
  /\ PowerOff
  /\ UNCHANGED <<key, enrolled>>

\* OTK_resetConfirmed: the touch authorises OTK_unlock; whatever became of
\* that, a new key path and cleared PIN counters follow, and a shutdown.
LtdResetConfirmed ==
  /\ pc = "ltd" /\ ltd.confirm
  /\ pc' = IF otk.locked THEN "unlock" ELSE "rekey"
  /\ ltd' = Ended
  /\ otk' = [otk EXCEPT !.auth = TRUE]
  /\ hist' = [HistAtEnd EXCEPT !.changes = 0]
  /\ UNCHANGED <<queue, nfc, req, ndef, key, enrolled, field>>

Rekey ==
  /\ pc = "rekey"
  /\ PowerOff
  /\ key' = KeyAfterMatch
  /\ UNCHANGED enrolled

(***************************************************************************)
(* OTK_unlock of a locked device by an authorised user, for a request, a   *)
(* long touch or a reset, and the start of the detector by OTK_standby in  *)
(* the main loop.  The start tests the flag, puts the task and sets the    *)
(* flag with interrupts enabled.                                           *)
(***************************************************************************)
\* FPS_eraseAll: the sensor may fail, or erase and answer too late.
EraseOutcomes ==
  {[ok |-> TRUE, left |-> FALSE], [ok |-> FALSE, left |-> FALSE],
   [ok |-> FALSE, left |-> enrolled]}

\* Mutant of Unlocked: the authorisation is not used up.
UnlockedStillAuthorized(seen) == [otk EXCEPT !.locked = seen]

Unlocked(seen) == [locked |-> seen, auth |-> FALSE]

\* The task that is running keeps the first slot of the queue.
ForRequest == Head(queue) = "stop"

\* The PIN and the note are cleared only after a confirmed erase.
UnlockErase ==
  /\ pc = "unlock"
  /\ pc' = "start"
  /\ \E x \in EraseOutcomes :
       /\ enrolled' = x.left
       /\ key' = IF x.ok THEN [key EXCEPT !.pinSet = FALSE] ELSE key
       /\ \E seen \in LockSeen(x.left) : otk' = Unlocked(seen)
       /\ LET h == IF ~ForRequest THEN hist
                   ELSE Executed(hist, IF x.ok THEN "done" ELSE "undone")
          IN hist' = [h EXCEPT !.changes = IF x.ok THEN @ + 1 ELSE @]
  /\ ltd' = Paused(ltd)
  /\ UNCHANGED <<queue, nfc, req, ndef, field>>

\* OTK_standby has left the detector in state l and returns to main, to the
\* request's answer, or to the end of the long touch's function.
StandbyReturns(l) ==
  \/ /\ pc \in BootSteps
     /\ pc' = "idle"
     /\ ltd' = l
     /\ UNCHANGED <<queue, nfc, req, ndef, otk, field, hist>>
  \/ /\ pc \notin BootSteps /\ ForRequest
     /\ Answer([nfc EXCEPT !.exec = nfc.execState], otk, l, hist)
  \/ /\ pc \notin BootSteps /\ ~ForRequest
     /\ ltd' = l
     /\ IF ltd.confirm THEN pc' = "rekey" /\ UNCHANGED queue
                       ELSE pc' = "idle" /\ queue' = Tail(queue)
     /\ UNCHANGED <<nfc, req, ndef, otk, field, hist>>

\* The test of the flag and of the space in the queue.
StartTest ==
  /\ pc \in {"start", "bootStart"}
  /\ \/ ltd.running /\ StandbyReturns(ltd)
     \/ ~ltd.running /\ Len(queue) >= QueueSize /\ PowerOff
     \/ /\ ~ltd.running /\ Len(queue) < QueueSize
        /\ pc' = IF pc = "start" THEN "put" ELSE "bootPut"
        /\ ltd' = [ltd EXCEPT !.kill = FALSE]
        /\ UNCHANGED <<queue, nfc, req, ndef, otk, field, hist>>
  /\ UNCHANGED <<key, enrolled>>

\* The queue may have filled since the test; the error check then resets.
StartPut ==
  /\ pc \in {"put", "bootPut"}
  /\ \/ Len(queue) >= QueueSize /\ PowerOff
     \/ /\ Len(queue) < QueueSize
        /\ pc' = IF pc = "put" THEN "flag" ELSE "bootFlag"
        /\ queue' = Append(queue, "ltd")
        /\ UNCHANGED <<nfc, req, ndef, otk, ltd, field, hist>>
  /\ UNCHANGED <<key, enrolled>>

StartFlag ==
  /\ pc \in {"flag", "bootFlag"}
  /\ StandbyReturns([ltd EXCEPT !.running = TRUE])
  /\ UNCHANGED <<key, enrolled>>

(***************************************************************************)
(* Specification.  The main loop keeps running; readers, fingers and the   *)
(* power supply owe nothing.                                               *)
(***************************************************************************)
Interrupt ==
  FieldOn \/ FieldOff \/ NdefRead \/ NdefUpdated \/ NdefRejected \/ NdefIgnored
RunStopTask ==
  \/ StopWhenStopped \/ StopForSecurity \/ StopOrRestart
  \/ ExecuteCancel \/ ExecuteDenied \/ ExecutePlain \/ ExecuteSet
  \/ ExecuteUnlock
  \/ RetireFinal \/ RetireReset \/ RetireClear
RunDetector ==
  LtdBegin \/ LtdKilled \/ MatchFound \/ MatchFailed \/ EnrollEnd
RunUnlock == UnlockErase \/ StartTest \/ StartPut \/ StartFlag \/ Rekey
LongTouch == LtdTouch \/ LtdUnlock \/ LtdShutdown \/ LtdResetConfirmed

Next ==
  \/ Boot \/ BootAborted \/ PowerLoss
  \/ Interrupt \/ RunStopTask \/ RunDetector \/ RunUnlock \/ LongTouch

Spec == Init /\ [][Next]_vars
FairSpec ==
  Spec /\ WF_vars(RunStopTask) /\ WF_vars(RunDetector) /\ WF_vars(RunUnlock)

(***************************************************************************)
(* Types.                                                                  *)
(***************************************************************************)
Tasks == {"stop", "ltd"}
ExecStates == {"NA", "SUCCESS", "FAIL"}
Requests == AllCommands \cup {"INVALID"}
Queues == {q \in Seq(Tasks) : Len(q) <= QueueSize}
NfcFlags == [started : BOOLEAN, restart : BOOLEAN, polling : BOOLEAN,
             hasRead : BOOLEAN, processing : BOOLEAN, more : BOOLEAN,
             security : BOOLEAN, denied : Nat, exec : ExecStates,
             execState : {"SUCCESS", "FAIL"}]
StoredRequests == [cmd : Requests, pin : AllPins, data : {"good", "bad", "void"}]
TagRecords == [exec : ExecStates, cmd : Requests, of : Requests, raw : BOOLEAN]
OtkFlags == [locked : BOOLEAN, auth : BOOLEAN]
LtdFlags == [running : BOOLEAN, kill : BOOLEAN, confirm : BOOLEAN]
KeyObjects == [pinSet : BOOLEAN, failures : 0..MaxFailures, retry : Nat]
Histories == [changes : Nat, effect : {"none", "done", "refused", "undone"},
              of : Requests, raced : BOOLEAN, lost : BOOLEAN]
MainSteps == {"off", "idle", "ltd", "match", "enroll", "unlock", "start", "put",
              "flag", "rekey"} \cup BootSteps

\* Every variable stays in its type; the queue never exceeds its slots and
\* the PIN counters never leave the range the penalty table covers.
TypeOK ==
  /\ pc \in MainSteps
  /\ queue \in Queues
  /\ nfc \in NfcFlags
  /\ req \in StoredRequests
  /\ ndef \in TagRecords
  /\ otk \in OtkFlags
  /\ ltd \in LtdFlags
  /\ key \in KeyObjects
  /\ enrolled \in BOOLEAN
  /\ field \in {"none", "present", "selected"}
  /\ hist \in Histories

(***************************************************************************)
(* Safety.                                                                 *)
(***************************************************************************)

\* An authorisation, by PIN or finger, pays for at most one change of the
\* device's configuration (PIN, key path, note, unlock): whoever makes the
\* change, a request or a long touch, leaves nobody authorised.
OneChangePerGrant == hist.changes <= 1 /\ (hist.changes = 1 => ~otk.auth)

\* While a result counts as read, the tag holds the outcome of the command
\* executed last, or what a reader itself has written over it; else
\* nfc_safelyStop would drop a result that the device never showed.
ReadWasTheResult ==
  nfc.hasRead => ndef.raw \/ (ndef.exec # "NA" /\ ndef.of = hist.of)

\* A request that was refused is reported as failed, in the flags and on the
\* tag, whatever the outcome kept from the request before.
RefusalIsTold ==
  hist.effect = "refused" => nfc.exec = "FAIL" /\ (ndef.raw \/ ndef.exec = "FAIL")

\* Slots of the queue that hold a detector.  The running one keeps its slot
\* while it calls fpValidate or lock, but has stopped looping by then.
DetectorSlots ==
  {i \in DOMAIN queue :
     queue[i] = "ltd" /\ (i = 1 => pc \in {"idle", "ltd"} \cup BootSteps)}

\* While _ltdRunning says so there is a detector, queued or looping, so that a
\* start passed over leaves the sensor watched; and there is one exactly when
\* it says so, until a field event starts another between the main loop's
\* test of the flag and its setting.
OneDetector ==
  /\ ltd.running => DetectorSlots # {}
  /\ ~hist.raced =>
       /\ \A i, j \in DetectorSlots : i = j
       /\ DetectorSlots # {} => ltd.running \/ pc \in {"flag", "bootFlag"}

\* The number of denied requests in a power cycle is bounded, and once the
\* bound is passed the security shutdown is latched.
DeniedIsBounded ==
  nfc.denied <= MaxDenied + 1 /\ (nfc.denied > MaxDenied => nfc.security)

(***************************************************************************)
(* Action properties.                                                      *)
(***************************************************************************)

\* After a rejected request, or one denial too many, the device executes no
\* request and puts nothing on the tag before it is off; readers may write.
RejectedPublishesNothing ==
  [][nfc.security => \/ pc' = "off"
                     \/ ndef' \in {ndef, ReaderData} /\ nfc'.exec = nfc.exec]_vars

\* The PIN and the enrolled finger change only while somebody is authorised,
\* by PIN, finger or the confirmation of a reset, or by enrolling.
ConfigChangeIsAuthorized ==
  [][key'.pinSet # key.pinSet \/ enrolled' # enrolled =>
       otk.auth \/ (ToExecute /\ PinMatched) \/ pc = "enroll"]_vars

\* While PIN authorisation is suspended only a finger or the confirmation of
\* a reset authorises, and the suspension shrinks only by one reboot at a
\* time, by a finger, or by a reset.
SuspensionHolds ==
  [][key.retry > 0 =>
       /\ otk'.auth /\ ~otk.auth => pc = "match" \/ ltd.confirm
       /\ key'.retry < key.retry =>
            \/ pc = "off" /\ key'.retry = key.retry - 1
            \/ pc = "match" /\ enrolled
            \/ pc = "rekey"]_vars

(***************************************************************************)
(* Liveness, as far as the detector returns to the main loop infinitely    *)
(* often: it loops until a reader, a touch or the standby timer ends it.   *)
(***************************************************************************)
MainLoopRuns == []<>(pc \in {"off", "idle"})

\* A request handed over while NFC is up is executed, unless nothing but
\* detectors filled the queue; a full queue with a stop in it does no harm.
HandedOver == Pending /\ nfc.processing /\ nfc.started
Served == nfc.exec # "NA" \/ pc = "off"
RequestIsServed == MainLoopRuns => (HandedOver ~> Served \/ hist.lost)

\* A rejected request whose stop task is queued shuts the device down.
SecurityShutsDown ==
  MainLoopRuns =>
    (nfc.security /\ nfc.started /\ (\E i \in DOMAIN queue : queue[i] = "stop")
       ~> pc = "off")

(***************************************************************************)
(* Statements of the sources that the code does not keep.                  *)
(***************************************************************************)

\* nfc.h: FAIL stands for "Command executed failed".
FailIsRefused == nfc.exec = "FAIL" => hist.effect # "done"

\* nfc.c: the device shuts down when the "request result has been read".
ReadIsOfResult ==
  [][nfc'.hasRead /\ ~nfc.hasRead => ndef.exec # "NA" /\ ndef.of = hist.of]_vars

\* nfc.h: SUCCESS stands for "Command executed successfully".
SuccessIsDone == nfc.exec = "SUCCESS" => hist.effect = "done"

\* README: the state record holds the execution state and the request
\* command: the state is that command's.
ResultBelongsToCommand == ndef.exec # "NA" => ndef.cmd = ndef.of

\* nfc.h: NFC_stop(true) restarts NFC; only a reset keeps it stopped.
NfcRestarts == pc = "idle" /\ ~nfc.started => ltd.confirm

\* nfc.c: with a pending request, "stop NFC, process request, then restart".
HandOverIsKept == MainLoopRuns => (HandedOver ~> Served)

\* fps.c: _ltdRunning is to keep a second detector from being started.
DetectorIsAlone == \A i, j \in DetectorSlots : i = j

\* otk.h: OTK_standby starts touch detection, so an idle device has it.
StandbyDetects ==
  pc = "idle" /\ ~nfc.polling /\ ~Pending /\ queue = << >> => ltd.running

\* fps.c: the detector is stopped to yield the scheduler to other tasks.
DetectorYields ==
  pc = "ltd" /\ (\E i \in DOMAIN queue : queue[i] = "stop") => ltd.kill
=============================================================================

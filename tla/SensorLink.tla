----------------------------- MODULE SensorLink -----------------------------
(***************************************************************************)
(* Commands and answers between fps.c and the fingerprint sensor over the  *)
(* UART.  A command is sent and one answer is read, whichever comes first: *)
(* nothing in an answer is compared with the command, and a read that      *)
(* timed out leaves the answer that comes later to the next read.          *)
(*                                                                         *)
(* Modelled are the calls of otk.c that depend on what the sensor says:    *)
(* boot, the long touch, validation, enrolment and the erase of an unlock. *)
(* Answers are whole frames of 8 bytes; data[5] is 0 unless the sensor     *)
(* matched a finger or counted one.                                        *)
(***************************************************************************)
EXTENDS Naturals, Sequences

CONSTANTS
  Fingers,       \* who may touch the sensor
  Late,          \* commands the sensor may answer after the timeout
  MaxTimeouts,   \* bound: timeouts since power-up
  RxFrames,      \* answers the receive queue holds (SERIAL_FIFO_RX_SIZE / 8)
  TouchResets,   \* resets sent at least while a long touch lasts
  Debounce,      \* FPS_TOUCH_DEBOUNCE
  MinCaptures, MaxCaptures,   \* OTK_FINGER_PRINT_..._CAPTURE_NUM
  MaxFails       \* failures that end the capture loop of an enrolment

Commands == {"level", "reset", "count", "capture", "match", "enroll", "erase"}
None == "none"

ASSUME LinkAssumption ==
  /\ Late \subseteq Commands /\ None \notin Fingers
  /\ {MaxTimeouts, RxFrames, TouchResets, Debounce, MinCaptures, MaxCaptures, MaxFails}
       \subseteq Nat

VARIABLES
  line,     \* commands the sensor has not executed
  rx,       \* answers in the receive queue
  dead,     \* the queue overflowed: reception was never restarted
  sensor,   \* the enrolled finger, the finger captured last, captures so far
  prog,     \* the program: where it reads an answer, and its variables
  hist      \* history: timeouts, resets that gave up, the sensor matched the
            \* enrolled finger in this call, captureAndEnroll's result

vars == <<line, rx, dead, sensor, prog, hist>>

Resets == {"bootReset", "touchReset", "restReset", "lastReset"}
Awaits == Resets \union {"level", "bootCount", "userNum", "capture", "match",
                         "preCount", "enroll", "postCount", "eraseBad",
                         "erase", "eraseCount"}
Points == Awaits \union {"off", "idle", "loop"}
Calls == {"none", "validate", "enroll", "verify"}

NoProg == [at |-> "off", call |-> "none", tries |-> 0, rests |-> 0, n |-> 0,
           fails |-> 0, fpId |-> 0, last |-> 0, ret |-> FALSE,
           locked |-> FALSE, auth |-> FALSE]
NoHistory == [timeouts |-> 0, gaveUp |-> 0, matched |-> FALSE, result |-> "none"]

Init ==
  /\ line = <<>> /\ rx = <<>> /\ dead = FALSE
  /\ sensor = [print |-> None, image |-> None, caps |-> 0]
  /\ prog = NoProg /\ hist = NoHistory

(***************************************************************************)
(* The sensor executes its commands in order (external: modelled from the  *)
(* answers fps_resp_processor knows).  A reset keeps what was captured.    *)
(***************************************************************************)
Execute(c, f) ==
  CASE c = "capture" ->
         [sensor EXCEPT !.image = f, !.caps = IF f # None /\ @ < MaxCaptures THEN @ + 1 ELSE @]
    [] c = "enroll" ->
         IF sensor.print = None /\ sensor.caps >= MinCaptures
         THEN [print |-> sensor.image, image |-> None, caps |-> 0]
         ELSE [sensor EXCEPT !.caps = 0]
    [] c = "erase" -> [sensor EXCEPT !.print = None]
    [] OTHER -> sensor

Matches == sensor.print # None /\ sensor.image = sensor.print

Answer(c, f) ==
  CASE c = "capture" -> [ok |-> f # None, n |-> 0]
    [] c = "match" -> [ok |-> Matches, n |-> IF Matches THEN 1 ELSE 0]
    [] c = "count" -> [ok |-> TRUE, n |-> IF sensor.print = None THEN 0 ELSE 1]
    [] c = "enroll" -> [ok |-> Execute(c, f) # [sensor EXCEPT !.caps = 0], n |-> 0]
    [] OTHER -> [ok |-> TRUE, n |-> 0]

\* Mutant of Full: the queue takes what comes.
FullNever == FALSE

\* nrf_queue_in takes less than it is given.
Full == Len(rx) = RxFrames

\* An answer the queue has no room for stops the reception for good.
SensorAnswers ==
  /\ line # <<>>
  /\ \E f \in Fingers \union {None} :
       /\ sensor' = Execute(Head(line), f)
       /\ rx' = IF dead \/ Full THEN rx ELSE Append(rx, Answer(Head(line), f))
       /\ hist' = [hist EXCEPT !.matched = @ \/ (Head(line) = "match" /\ Matches)]
  /\ dead' = (dead \/ Full)
  /\ line' = Tail(line)
  /\ UNCHANGED prog

(***************************************************************************)
(* fps_recvResponse.  A read that times out fails; one that has no answer  *)
(* to wait for times out.                                                  *)
(***************************************************************************)
NoAnswer == [ok |-> FALSE, n |-> 0]
Answers == [ok : BOOLEAN, n : 0..1]

MayTimeOut ==
  /\ rx = <<>> /\ hist.timeouts < MaxTimeouts
  /\ line = <<>> \/ \E i \in DOMAIN line : line[i] \in Late

\* What the read returns: the first answer in the queue, whose command it is
\* is not asked.
Takes(a) == IF rx # <<>> THEN a = Head(rx) ELSE MayTimeOut /\ a = NoAnswer

Consume ==
  IF rx # <<>> THEN rx' = Tail(rx) /\ UNCHANGED hist
  ELSE hist' = [hist EXCEPT !.timeouts = @ + 1] /\ UNCHANGED rx

Command(p) ==
  CASE p \in Resets -> "reset"
    [] p \in {"bootCount", "userNum", "preCount", "postCount", "eraseCount"} -> "count"
    [] p \in {"eraseBad", "erase"} -> "erase"
    [] OTHER -> p

\* The program sends the command of point p and waits there.
AskFrom(sent, state, p) ==
  /\ prog' = [state EXCEPT !.at = p, !.tries = IF p \in Resets THEN 3 ELSE 0]
  /\ line' = Append(sent, Command(p))

Ask(state, p) == AskFrom(line, state, p)
Stay(state, p) == prog' = [state EXCEPT !.at = p, !.tries = 0] /\ UNCHANGED line

\* OTK_shutdown, or the battery: the sensor loses its power too.  What the
\* history says of the matches stays with an enrolment reported as done.
Off(result) ==
  /\ prog' = NoProg
  /\ line' = <<>> /\ rx' = <<>> /\ dead' = FALSE
  /\ sensor' = [sensor EXCEPT !.image = None, !.caps = 0]
  /\ hist' = [hist EXCEPT !.matched = @ /\ result = "enrolled",
                          !.result = result]

(***************************************************************************)
(* Boot.                                                                   *)
(***************************************************************************)
PowerUp ==
  /\ prog.at = "off"
  /\ Ask(prog, "level")
  /\ hist' = NoHistory
  /\ UNCHANGED <<rx, dead, sensor>>

\* A failure of FPS_init makes main shut the device down.
Level ==
  /\ prog.at = "level"
  /\ \E a \in Answers :
       /\ Takes(a)
       /\ IF a.ok
          THEN Ask(prog, "bootReset") /\ Consume /\ UNCHANGED <<dead, sensor>>
          ELSE Off("none")

BootCount ==
  /\ prog.at = "bootCount"
  /\ \E a \in Answers :
       Takes(a) /\ Stay([prog EXCEPT !.locked = a.ok /\ a.n > 0], "idle")
  /\ Consume
  /\ UNCHANGED <<dead, sensor>>

(***************************************************************************)
(* FPS_resetSensor, and what its callers do next.                          *)
(***************************************************************************)
ResetAgain ==
  /\ prog.at \in Resets /\ prog.tries > 1
  /\ Takes(NoAnswer)
  /\ prog' = [prog EXCEPT !.tries = @ - 1]
  /\ line' = Append(line, "reset")
  /\ Consume
  /\ UNCHANGED <<dead, sensor>>

\* Capped: more resets than needed make no difference to the program.
Rested(max) == [prog EXCEPT !.rests = IF @ < max THEN @ + 1 ELSE @]

\* The detector: the finger stays, is lifted, or was there long enough.
AfterTouch(sent) ==
  \/ AskFrom(sent, Rested(TouchResets), "touchReset")
  \/ prog' = [prog EXCEPT !.at = "idle", !.tries = 0] /\ line' = sent
  \/ /\ prog.rests >= TouchResets
     /\ \/ /\ prog.locked /\ ~prog.auth
           /\ prog' = [NoProg EXCEPT !.at = "loop", !.call = "validate", !.locked = TRUE]
           /\ line' = sent
        \/ ~prog.locked /\ ~prog.auth /\ AskFrom(sent, NoProg, "userNum")
        \/ prog.locked /\ prog.auth /\ AskFrom(sent, prog, "erase")

\* Between two captures: until the finger is gone for Debounce polls.
AfterRest(sent) ==
  \/ AskFrom(sent, Rested(Debounce), "restReset")
  \/ /\ prog.rests >= Debounce
     /\ prog' = [prog EXCEPT !.at = "loop", !.tries = 0, !.rests = 0]
     /\ line' = sent

\* A retry is sent before the count of retries is looked at: the answer to the
\* last one is not read.
GaveUp(a) ==
  IF a.ok THEN Consume
  ELSE /\ hist' = [hist EXCEPT !.timeouts = IF rx = <<>> THEN @ + 1 ELSE @,
                              !.gaveUp = @ + 1]
       /\ rx' = IF rx = <<>> THEN rx ELSE Tail(rx)

\* Mutant of Sent: the command is sent again before the answer is looked at.
SentAlways(a) == Append(line, "reset")

Sent(a) == IF a.ok THEN line ELSE Append(line, "reset")

ResetEnds ==
  /\ prog.at \in Resets
  /\ \E a \in Answers :
       /\ Takes(a) /\ (a.ok \/ prog.tries = 1)
       /\ LET sent == Sent(a)
          IN  CASE prog.at = "bootReset" /\ a.ok ->
                     AskFrom(sent, prog, "bootCount") /\ Consume /\ UNCHANGED <<dead, sensor>>
                [] prog.at = "bootReset" /\ ~a.ok -> Off("none")
                [] prog.at = "touchReset" ->
                     AfterTouch(sent) /\ GaveUp(a) /\ UNCHANGED <<dead, sensor>>
                [] prog.at = "restReset" ->
                     AfterRest(sent) /\ GaveUp(a) /\ UNCHANGED <<dead, sensor>>
                [] prog.at = "lastReset" ->
                     Off(IF prog.ret THEN "enrolled" ELSE "failed")

Touch ==
  /\ prog.at = "idle"
  /\ Ask([prog EXCEPT !.rests = 0], "touchReset")
  /\ hist' = [hist EXCEPT !.matched = @ /\ prog.auth]
  /\ UNCHANGED <<rx, dead, sensor>>

(***************************************************************************)
(* FPS_captureAndMatch: for a validation, and to confirm an enrolment.     *)
(***************************************************************************)
Needed == IF prog.call = "verify" THEN 3 ELSE 1

LoopGoesOn ==
  IF prog.call = "enroll" THEN prog.n < MaxCaptures /\ prog.fails < MaxFails
  ELSE prog.n < Needed /\ prog.fails < 3

Press ==
  /\ prog.at = "loop" /\ LoopGoesOn
  /\ Ask(prog, "capture")
  /\ UNCHANGED <<rx, dead, sensor, hist>>

Capture ==
  /\ prog.at = "capture"
  /\ \E a \in Answers :
       /\ Takes(a)
       /\ CASE prog.call = "enroll" /\ a.ok ->
                 Ask([prog EXCEPT !.n = @ + 1, !.fails = 0, !.rests = 0], "restReset")
            [] prog.call = "enroll" /\ ~a.ok ->
                 Ask([prog EXCEPT !.fails = @ + 1, !.rests = 0], "restReset")
            [] prog.call # "enroll" /\ a.ok -> Ask(prog, "match")
            [] prog.call # "enroll" /\ ~a.ok -> Ask([prog EXCEPT !.rests = 0], "restReset")
  /\ Consume
  /\ UNCHANGED <<dead, sensor>>

\* Mutant of MatchedIndex: the status of whatever answer is read.
MatchedIndexByStatus(a) == IF a.ok THEN 1 ELSE 0

\* fps_match looks at data[5] alone, not at the status.
MatchedIndex(a) == a.n

Match ==
  /\ prog.at = "match"
  /\ \E a \in Answers :
       /\ Takes(a)
       /\ IF MatchedIndex(a) > 0
          THEN Ask([prog EXCEPT !.n = @ + 1, !.last = MatchedIndex(a), !.rests = 0], "restReset")
          ELSE Ask([prog EXCEPT !.fails = @ + 1, !.last = 0, !.rests = 0], "restReset")
  /\ Consume
  /\ UNCHANGED <<dead, sensor>>

\* A loop ends when it has enough, after too many failures, or after 15 s.
Validated ==
  /\ prog.at = "loop" /\ prog.call = "validate"
  /\ IF prog.last > 0
     THEN /\ Stay([NoProg EXCEPT !.locked = TRUE, !.auth = TRUE], "idle")
          /\ UNCHANGED <<rx, dead, sensor, hist>>
     ELSE Off("none")

(***************************************************************************)
(* FPS_captureAndEnroll, for OTK_lock, which shuts the device down.        *)
(***************************************************************************)
UserNum ==
  /\ prog.at = "userNum"
  /\ \E a \in Answers :
       /\ Takes(a)
       /\ IF a.ok /\ a.n > 0
          THEN Off("none")
          ELSE Stay([prog EXCEPT !.call = "enroll"], "loop") /\ Consume
               /\ UNCHANGED <<dead, sensor>>

Captured ==
  /\ prog.at = "loop" /\ prog.call = "enroll"
  /\ IF prog.n < MinCaptures THEN Ask(prog, "lastReset") ELSE Ask(prog, "preCount")
  /\ UNCHANGED <<rx, dead, sensor, hist>>

PreCount ==
  /\ prog.at = "preCount"
  /\ \E a \in Answers :
       Takes(a) /\ Ask([prog EXCEPT !.fpId = IF a.ok THEN a.n + 1 ELSE 1], "enroll")
  /\ Consume
  /\ UNCHANGED <<dead, sensor>>

Enroll ==
  /\ prog.at = "enroll"
  /\ \E a \in Answers : Takes(a) /\ Ask([prog EXCEPT !.ret = a.ok], "postCount")
  /\ Consume
  /\ UNCHANGED <<dead, sensor>>

PostCount ==
  /\ prog.at = "postCount"
  /\ \E a \in Answers :
       /\ Takes(a)
       /\ IF (IF a.ok THEN a.n ELSE 0) = prog.fpId
          THEN Stay([prog EXCEPT !.call = "verify", !.n = 0, !.fails = 0], "loop")
          ELSE Ask([prog EXCEPT !.ret = FALSE], "lastReset")
  /\ Consume
  /\ UNCHANGED <<dead, sensor>>

\* Mutant of Verified: the loop's end is taken for a match.
VerifiedUnasked ==
  /\ prog.at = "loop" /\ prog.call = "verify"
  /\ Ask(prog, "lastReset")
  /\ UNCHANGED <<rx, dead, sensor, hist>>

\* Three matches are asked for and the last one decides: a loop that ran out
\* of time after one is confirmed by it.
Verified ==
  /\ prog.at = "loop" /\ prog.call = "verify"
  /\ IF prog.last > 0 THEN Ask(prog, "lastReset") ELSE Ask(prog, "eraseBad")
  /\ UNCHANGED <<rx, dead, sensor, hist>>

EraseBad ==
  /\ prog.at = "eraseBad"
  /\ \E a \in Answers : Takes(a) /\ Ask([prog EXCEPT !.ret = FALSE], "lastReset")
  /\ Consume
  /\ UNCHANGED <<dead, sensor>>

(***************************************************************************)
(* FPS_eraseAll and the count after it, for OTK_unlock.                    *)
(***************************************************************************)
Erase ==
  /\ prog.at = "erase"
  /\ \E a \in Answers : Takes(a) /\ Ask(prog, "eraseCount")
  /\ Consume
  /\ UNCHANGED <<dead, sensor>>

\* Mutant of EraseCount: without an answer the lock state is kept.
EraseCountKept ==
  /\ prog.at = "eraseCount"
  /\ \E a \in Answers :
       Takes(a) /\ Stay([NoProg EXCEPT !.locked = ~a.ok \/ a.n > 0], "idle")
  /\ Consume
  /\ UNCHANGED <<dead, sensor>>

EraseCount ==
  /\ prog.at = "eraseCount"
  /\ \E a \in Answers :
       Takes(a) /\ Stay([NoProg EXCEPT !.locked = a.ok /\ a.n > 0], "idle")
  /\ Consume
  /\ UNCHANGED <<dead, sensor>>

\* Standby timeout or battery.
PowerLoss == prog.at # "off" /\ Off("none")

Next ==
  \/ PowerUp \/ Level \/ BootCount \/ ResetAgain \/ ResetEnds \/ Touch
  \/ Press \/ Capture \/ Match \/ Validated
  \/ UserNum \/ Captured \/ PreCount \/ Enroll \/ PostCount \/ Verified \/ EraseBad
  \/ Erase \/ EraseCount
  \/ SensorAnswers \/ PowerLoss

Spec == Init /\ [][Next]_vars

(***************************************************************************)
(* Properties.                                                             *)
(***************************************************************************)
\* Types.
TypeOK ==
  /\ \A i \in DOMAIN line : line[i] \in Commands
  /\ Len(rx) <= RxFrames /\ \A i \in DOMAIN rx : rx[i] \in Answers
  /\ dead \in BOOLEAN
  /\ sensor \in [print : Fingers \union {None}, image : Fingers \union {None},
                 caps : 0..MaxCaptures]
  /\ prog.at \in Points /\ prog.call \in Calls /\ prog.tries \in 0..3
  /\ hist.timeouts \in 0..MaxTimeouts /\ hist.matched \in BOOLEAN

\* However calls follow each other, no more answers are left over than reads
\* timed out and resets gave up: with a sensor that answers in time every
\* read has the answer to its own command.
LeftByTimeouts ==
  Len(line) + Len(rx) <=
    hist.timeouts + hist.gaveUp + (IF prog.at \in Awaits THEN 1 ELSE 0)

\* A validation that succeeds is one in which the sensor matched the enrolled
\* finger: a late answer is never taken for a match.
ValidatedIsReal == prog.auth /\ prog.at = "idle" => hist.matched

\* A device that takes itself for locked has a finger enrolled.
LockedHasPrint == prog.at = "idle" /\ prog.locked => sensor.print # None

\* An enrolment reported as done has left a finger in the sensor, and the
\* sensor matched that finger before it was reported: neither a late answer
\* to a count, nor a loop that ran out of time, confirms an enrolment.
EnrolledIsReal == hist.result = "enrolled" => sensor.print # None /\ hist.matched

\* An enrolment reported as failed leaves no finger behind.
FailedIsNotEnrolled == hist.result = "failed" => sensor.print = None

\* The device takes itself for locked when the sensor has a finger.
LockStateIsTrue == prog.at = "idle" => (prog.locked <=> sensor.print # None)
=============================================================================

------------------------------ MODULE LongTouch ------------------------------
(***************************************************************************)
(* The long-touch detector of fps.c in time: it polls the touch pin, tells *)
(* a release from a bounce by counting polls, and takes the length of the  *)
(* touch as the difference of two readings of the RTC counter.  The length *)
(* chooses the command.  The counter has 24 bits and wraps; the difference *)
(* is taken in 32 bits.                                                    *)
(*                                                                         *)
(* How the detector shares the processor with the scheduler is OtkCore's   *)
(* subject; the flags it reads do not change while it loops.               *)
(***************************************************************************)
EXTENDS Integers

CONSTANTS
  Short, Long,   \* 2.4 s and 10 s
  Debounce,      \* FPS_TOUCH_DEBOUNCE
  Wrap,          \* values of the RTC counter
  MaxPoll,       \* bound: the longest time between two polls
  MaxTime        \* bound: time

ASSUME TouchAssumption ==
  /\ Short \in Nat /\ Long \in Nat /\ Short < Long
  /\ Debounce \in Nat /\ MaxPoll \in Nat \ {0} /\ MaxTime \in Nat
  /\ Wrap \in Nat \ {0} /\ Long < Wrap

VARIABLES
  now,      \* time since the counter was started
  det,      \* the detector's variables
  dev,      \* _confirm_reset, m_otk_isAuthorized, m_otk_isLocked
  command,  \* what the last detector called
  hist      \* history: when the contact began, polls since the finger was seen

vars == <<now, det, dev, command, hist>>

Devices == [confirm : BOOLEAN, auth : BOOLEAN, locked : BOOLEAN]
Commands == {"none", "resetConfirmed", "unlock", "shutdown", "fpValidate", "lock"}
LongCommands == {"resetConfirmed", "unlock", "shutdown"}
ShortCommands == {"fpValidate", "lock"}

Idle == [running |-> FALSE, touched |-> FALSE, away |-> 0, start |-> 0, period |-> 0]
NoContact == [on |-> FALSE, since |-> 0, away |-> 0]

Init ==
  /\ now = 1
  /\ det = Idle /\ dev \in Devices /\ command = "none" /\ hist = NoContact

Counter(t) == t % Wrap

\* Wider than any length: a difference that is negative in 24 bits.
Huge == 256 * Wrap

\* Mutant of Elapsed: the age of the counter instead of that of the touch.
ElapsedSinceBoot(to, from) == to

\* app_timer_cnt_get() - _touchStartTime
Elapsed(to, from) == IF to >= from THEN to - from ELSE to - from + Huge

Start ==
  /\ ~det.running
  /\ det' = [Idle EXCEPT !.running = TRUE]
  /\ dev' \in Devices
  /\ command' = "none" /\ hist' = NoContact
  /\ UNCHANGED now

\* FPS_longTouchDetectorStop, seen at the next turn of the loop.
Kill ==
  /\ det.running
  /\ det' = Idle
  /\ UNCHANGED <<now, dev, command, hist>>

\* What a touch of this length asks for.
Chosen(period) ==
  CASE period > Long /\ dev.confirm -> "resetConfirmed"
    [] period > Long /\ ~dev.confirm /\ dev.auth -> "unlock"
    [] period > Long /\ ~dev.confirm /\ ~dev.auth -> "shutdown"
    [] period > Short /\ period <= Long /\ ~dev.confirm /\ ~dev.auth ->
         IF dev.locked THEN "fpValidate" ELSE "lock"
    [] OTHER -> "none"

\* Mutant of Bounced: a poll without the finger is ignored, however many.
BouncedAlways == TRUE

\* The finger was missed for so few polls that the touch goes on.
Bounced == det.away + 1 <= Debounce

Measured(t) == IF det.start > 0 THEN Elapsed(Counter(t), det.start) ELSE det.period

\* Mutant of Polled: every poll that sees the finger starts the touch anew.
PolledAnew(on, t) ==
  LET cache == on \/ (det.touched /\ Bounced)
      away == IF ~on /\ det.touched /\ Bounced THEN det.away + 1 ELSE 0
  IN  [running |-> TRUE, touched |-> cache, away |-> away,
       start |-> IF on THEN Counter(t) ELSE IF cache THEN det.start ELSE 0,
       period |-> IF ~cache /\ det.touched THEN 0 ELSE Measured(t)]

\* The state after a poll at which no command is chosen.
Polled(on, t) ==
  LET cache == on \/ (det.touched /\ Bounced)
      away == IF ~on /\ det.touched /\ Bounced THEN det.away + 1 ELSE 0
  IN  [running |-> TRUE, touched |-> cache, away |-> away,
       start |-> CASE cache /\ ~det.touched -> Counter(t)
                   [] ~cache /\ det.touched -> 0
                   [] OTHER -> det.start,
       period |-> IF ~cache /\ det.touched THEN 0 ELSE Measured(t)]

\* The finger's contact as the user sees it: lost after Debounce polls.
Contact(on) ==
  IF on
  THEN [on |-> TRUE, away |-> 0,
        since |-> IF hist.on /\ hist.away <= Debounce THEN hist.since ELSE now]
  ELSE [hist EXCEPT !.away = IF @ <= Debounce THEN @ + 1 ELSE @]

\* One turn of the loop: the pin is read, then the counter.
Poll ==
  /\ det.running
  /\ \E on \in BOOLEAN, d \in 1..MaxPoll :
       /\ now + d <= MaxTime
       /\ now' = now + d
       /\ command' = Chosen(Measured(now + d))
       /\ det' = IF Chosen(Measured(now + d)) # "none" THEN Idle ELSE Polled(on, now + d)
       /\ hist' = Contact(on)
  /\ UNCHANGED dev

Next == Start \/ Kill \/ Poll

Spec == Init /\ [][Next]_vars

(***************************************************************************)
(* Properties.                                                             *)
(***************************************************************************)
\* Types.
TypeOK ==
  /\ now \in 1..(IF MaxTime > 0 THEN MaxTime ELSE 1)
  /\ det \in [running : BOOLEAN, touched : BOOLEAN, away : 0..Debounce,
              start : 0..(Wrap - 1), period : 0..(Huge + Wrap)]
  /\ dev \in Devices /\ command \in Commands
  /\ hist \in [on : BOOLEAN, since : Nat, away : 0..(Debounce + 1)]

\* The counter has wrapped since the contact began.
Wrapped == now \div Wrap # hist.since \div Wrap

\* A reset, an unlock or a power-off is chosen only after a contact longer
\* than Long in which no more than Debounce polls in a row missed the finger,
\* unless the counter wrapped within the contact.
LongIsHeld ==
  command \in LongCommands /\ ~Wrapped => hist.on /\ now - hist.since > Long

\* A validation or an enrolment is chosen only after a contact longer than
\* Short, whether or not the counter wrapped.
ShortIsHeld == command \in ShortCommands => hist.on /\ now - hist.since > Short

\* A finger that stays is noticed: the detector does not poll on for longer
\* than Long and the time to the poll that sees the touch begin.  (A touch seen
\* just when the counter reads 0 has no length while it lasts.)
HeldIsServed ==
  det.running /\ hist.on /\ hist.away = 0 /\ ~Wrapped =>
    now - hist.since <= Long + MaxPoll

\* A reset is confirmed by a touch longer than Long.
ResetIsHeld == command = "resetConfirmed" => hist.on /\ now - hist.since > Long
=============================================================================

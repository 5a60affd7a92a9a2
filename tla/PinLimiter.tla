----------------------------- MODULE PinLimiter -----------------------------
(***************************************************************************)
(* The protection against guessed PINs: otk.c counts failures and sets a   *)
(* suspension, both kept in the key object of key.c and saved by a flash   *)
(* update each.  The two updates of one attempt are two steps here and     *)
(* power may go between any two steps.  An update is taken as atomic; what *)
(* the record store makes of a cut in the middle is FlashStore's subject.  *)
(*                                                                         *)
(* The device has a PIN: with KEY_DEFAULT_PIN OTK_pinValidate returns      *)
(* before it touches the counters.                                         *)
(***************************************************************************)
EXTENDS Naturals

CONSTANTS
  SuspendAt,    \* failures from which a suspension is set (3)
  MaxFailures,  \* failures are counted up to here (32)
  MaxRetry,     \* the largest value of pin_retry_after (2^32 - 1)
  Pow2          \* pow(2, f) for the failures that are counted

ASSUME LimitsAssumption ==
  /\ SuspendAt \in Nat \ {0} /\ MaxFailures \in Nat /\ MaxRetry \in Nat \ {0}
  /\ SuspendAt <= MaxFailures
ASSUME Pow2Assumption ==
  /\ Pow2 \in [0..MaxFailures -> Nat \ {0}]
  /\ \A f, g \in 0..MaxFailures : f <= g => Pow2[f] <= Pow2[g]

VARIABLES
  pc,      \* the next step of the operation under way
  ram,     \* the counters of _keyObj
  stored,  \* the counters in the flash record
  hist     \* history, since the counters were last reset: failures the
           \* reader was told of, the suspension set last, reboots that
           \* counted for it, and whether power went between two updates

vars == <<pc, ram, stored, hist>>

Steps == {"off", "boot", "ready", "suspend", "answer", "lift"}
Counters == [failures : 0..MaxFailures, retry : 0..MaxRetry]
Histories == [told : 0..MaxFailures, last : 0..MaxRetry, waited : 0..MaxRetry,
              torn : BOOLEAN]
NoCounters == [failures |-> 0, retry |-> 0]
NoHistory == [told |-> 0, last |-> 0, waited |-> 0, torn |-> FALSE]

Init ==
  /\ pc = "off"
  /\ ram = NoCounters
  /\ stored = NoCounters
  /\ hist = NoHistory

\* Mutant of Save: the setter forgets the file.
SaveInRam(k) == ram' = k /\ UNCHANGED stored

\* KEY_setPinAuthFailures, KEY_setPinAuthRetryAfter: the object and its record.
Save(k) == ram' = k /\ stored' = k

\* Mutant of Suspension: the conversion keeps the low bits.
SuspensionWraps(f) == Pow2[f] % (MaxRetry + 1)

\* pow(2, f) converted to uint32_t; the conversion routine of the tool chain's
\* soft double-precision library saturates.
Suspension(f) == IF Pow2[f] <= MaxRetry THEN Pow2[f] ELSE MaxRetry

\* Mutant of Suspended: off by one.
SuspendedBarOne(k) == k.retry > 1

\* nfc_process_request and OTK_pinValidate look at the PIN only when nothing
\* is left to wait for.
Suspended(k) == k.retry > 0

(***************************************************************************)
(* Boot.                                                                   *)
(***************************************************************************)
PowerUp ==
  /\ pc = "off"
  /\ pc' = "boot"
  /\ ram' = stored
  /\ UNCHANGED <<stored, hist>>

Waits(k) == k.failures >= SuspendAt /\ k.retry > 0

\* OTK_init: this boot counts for the suspension.
CountBoot ==
  /\ pc = "boot"
  /\ pc' = "ready"
  /\ IF Waits(ram)
     THEN /\ Save([ram EXCEPT !.retry = @ - 1])
          /\ hist' = [hist EXCEPT !.waited = @ + 1]
     ELSE UNCHANGED <<ram, stored, hist>>

(***************************************************************************)
(* A PIN is tried.                                                         *)
(***************************************************************************)
\* Mutant of MayCount: off by one.
MayCountOneMore(k) == k.failures <= MaxFailures

MayCount(k) == k.failures < MaxFailures

Mismatch ==
  /\ pc = "ready" /\ ~Suspended(ram)
  /\ IF MayCount(ram)
     THEN /\ Save([ram EXCEPT !.failures = @ + 1])
          /\ pc' = IF ram'.failures >= SuspendAt THEN "suspend" ELSE "answer"
     ELSE /\ pc' = "answer"
          /\ UNCHANGED <<ram, stored>>
  /\ UNCHANGED hist

Suspend ==
  /\ pc = "suspend"
  /\ pc' = "answer"
  /\ Save([ram EXCEPT !.retry = Suspension(ram.failures)])
  /\ hist' = [hist EXCEPT !.last = Suspension(ram.failures), !.waited = 0,
                          !.torn = FALSE]

\* The reader is told; the count is kept up to MaxFailures, like the code's.
Answer ==
  /\ pc = "answer"
  /\ pc' = "ready"
  /\ hist' = [hist EXCEPT !.told = IF @ < MaxFailures THEN @ + 1 ELSE @]
  /\ UNCHANGED <<ram, stored>>

(***************************************************************************)
(* The counters are reset by the right PIN, by an enrolled finger and by a *)
(* confirmed reset: first the failures, then the suspension.               *)
(***************************************************************************)
Forgive ==
  /\ pc' = "lift"
  /\ Save([ram EXCEPT !.failures = 0])
  /\ hist' = [hist EXCEPT !.told = 0, !.last = 0]

Match == pc = "ready" /\ ~Suspended(ram) /\ Forgive

FingerOrReset == pc = "ready" /\ Forgive

Lift ==
  /\ pc = "lift"
  /\ pc' = "ready"
  /\ Save([ram EXCEPT !.retry = 0])
  /\ hist' = NoHistory

\* Battery, standby timeout or the security shutdown, at any step.
PowerLoss ==
  /\ pc # "off"
  /\ pc' = "off"
  /\ ram' = NoCounters
  /\ hist' = [hist EXCEPT !.torn = @ \/ pc \in {"suspend", "lift"}]
  /\ UNCHANGED stored

Next ==
  \/ PowerUp \/ CountBoot \/ Mismatch \/ Suspend \/ Answer
  \/ Match \/ FingerOrReset \/ Lift \/ PowerLoss

Spec == Init /\ [][Next]_vars

(***************************************************************************)
(* Properties.                                                             *)
(***************************************************************************)
\* Types; the counters fit the fields of KEY_Object.
TypeOK ==
  /\ pc \in Steps
  /\ ram \in Counters /\ stored \in Counters
  /\ hist \in Histories

\* A failure the reader has been told of is in flash: cutting the power after
\* the answer, or in the middle of a later operation, does not take it back.
ToldIsStored == hist.told <= stored.failures

\* Once failures suspend it, a PIN is tried only after as many reboots as the
\* last failure set, unless power went between the two updates of an attempt.
SuspensionIsServed ==
  [][Mismatch =>
       (stored.failures >= SuspendAt /\ ~hist.torn =>
          hist.waited >= Suspension(stored.failures))]_vars

\* The suspension a later failure sets is never shorter than the one before,
\* the 32nd failure's, which does not fit the counter, included.
SuspensionGrows == [][Suspend => stored'.retry >= hist.last /\ stored'.retry > 0]_vars

\* A boot with something left to wait for leaves less of it.
BootShortensSuspension ==
  [][CountBoot => (stored.retry > 0 => stored'.retry < stored.retry)]_vars
=============================================================================

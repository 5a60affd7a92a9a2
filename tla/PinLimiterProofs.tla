-------------------------- MODULE PinLimiterProofs --------------------------
(***************************************************************************)
(* What PinLimiter's runs check on a small instance, for every value of    *)
(* the limits and of the penalty table.                                    *)
(***************************************************************************)
EXTENDS PinLimiter, TLAPS

(***************************************************************************)
(* The inductive invariant.  RAM and flash agree while the device is on,   *)
(* because every setter saves the whole object.  A failure under way has   *)
(* been counted but not told.  Reboots move from what is left to wait to   *)
(* what has been waited.                                                   *)
(***************************************************************************)
RamIsStored == pc # "off" => ram = stored

CountedBeforeTold ==
  /\ pc \in {"suspend", "answer"} =>
       hist.told < stored.failures \/ stored.failures = MaxFailures
  /\ pc = "suspend" => stored.failures >= SuspendAt
  /\ pc = "lift" => stored.failures = 0

WaitIsAccounted ==
  /\ stored.retry + hist.waited <= MaxRetry
  /\ (stored.failures >= SuspendAt /\ ~hist.torn /\ pc # "suspend") =>
       stored.retry + hist.waited = Suspension(stored.failures)

LastIsSuspension ==
  hist.last <= (IF stored.failures < SuspendAt THEN 0
                ELSE Suspension(stored.failures))

Inv ==
  /\ TypeOK /\ RamIsStored /\ ToldIsStored /\ CountedBeforeTold
  /\ WaitIsAccounted /\ LastIsSuspension

\* pow(2, f), saturated, fits the counter and does not decrease with f.
LEMMA SuspensionBounds ==
  ASSUME NEW f \in 0..MaxFailures
  PROVE  /\ Suspension(f) \in 1..MaxRetry
         /\ \A g \in 0..MaxFailures : f <= g => Suspension(f) <= Suspension(g)
  BY LimitsAssumption, Pow2Assumption DEF Suspension

\* The invariant holds at the start.
LEMMA InitInv == Init => Inv
  BY LimitsAssumption
  DEF Init, Inv, TypeOK, RamIsStored, ToldIsStored, CountedBeforeTold, Steps,
      WaitIsAccounted, LastIsSuspension, Counters, Histories, NoCounters, NoHistory

\* The invariant is inductive.
LEMMA NextInv == Inv /\ [Next]_vars => Inv'
<1> SUFFICES ASSUME Inv, [Next]_vars PROVE Inv'
  OBVIOUS
<1> USE LimitsAssumption
    DEF Inv, TypeOK, RamIsStored, ToldIsStored, CountedBeforeTold, Steps,
        WaitIsAccounted, LastIsSuspension, Counters, Histories
<1>1. CASE PowerUp
  BY <1>1 DEF PowerUp
<1>2. CASE CountBoot
  BY <1>2 DEF CountBoot, Waits, Save
<1>3. CASE Mismatch
  <2>1. CASE MayCount(ram)
    <3>1. /\ stored'.failures = stored.failures + 1
          /\ stored'.retry = stored.retry
          /\ stored' \in Counters /\ ram' = stored'
          /\ hist' = hist /\ pc' \in {"suspend", "answer"}
          /\ pc' = "suspend" <=> stored'.failures >= SuspendAt
      BY <1>3, <2>1 DEF Mismatch, MayCount, Save
    <3>2. stored.failures >= SuspendAt =>
            Suspension(stored.failures) <= Suspension(stored'.failures)
      BY <3>1, SuspensionBounds
    <3>3. Suspension(stored'.failures) \in 1..MaxRetry
      BY <3>1, SuspensionBounds
    <3>4. stored.failures >= SuspendAt => Suspension(stored.failures) \in Nat
      BY SuspensionBounds
    <3>5. TypeOK' /\ RamIsStored' /\ ToldIsStored' /\ CountedBeforeTold'
      BY <3>1
    <3>6. WaitIsAccounted'
      BY <1>3, <3>1 DEF Mismatch, Suspended
    <3>7. LastIsSuspension'
      BY <3>1, <3>2, <3>3, <3>4
    <3> QED BY <3>5, <3>6, <3>7
  <2>2. CASE ~MayCount(ram)
    BY <1>3, <2>2 DEF Mismatch, MayCount
  <2> QED BY <2>1, <2>2
<1>4. CASE Suspend
  <2>1. Suspension(ram.failures) \in 1..MaxRetry /\ ram = stored
    BY <1>4, SuspensionBounds DEF Suspend
  <2>2. /\ stored' = [stored EXCEPT !.retry = Suspension(stored.failures)]
        /\ ram' = stored' /\ pc' = "answer"
        /\ hist' = [hist EXCEPT !.last = Suspension(stored.failures),
                                !.waited = 0, !.torn = FALSE]
    BY <1>4, <2>1 DEF Suspend, Save
  <2>3. /\ hist'.last = Suspension(stored.failures) /\ hist'.waited = 0
        /\ hist'.told = hist.told /\ hist'.torn = FALSE
        /\ hist' \in Histories
    <3> DEFINE h1 == [hist EXCEPT !.last = Suspension(stored.failures)]
               h2 == [h1 EXCEPT !.waited = 0]
               h3 == [h2 EXCEPT !.torn = FALSE]
    <3>1. hist' = h3
      BY <2>2
    <3>2. h1 \in Histories /\ h1.last = Suspension(stored.failures)
          /\ h1.told = hist.told
      BY <2>1
    <3> HIDE DEF h1
    <3>3. h2 \in Histories /\ h2.last = Suspension(stored.failures)
          /\ h2.told = hist.told /\ h2.waited = 0
      BY <3>2
    <3> HIDE DEF h2
    <3>4. h3 \in Histories /\ h3.last = Suspension(stored.failures)
          /\ h3.told = hist.told /\ h3.waited = 0 /\ h3.torn = FALSE
      BY <3>3
    <3> QED BY <3>1, <3>4
  <2>4. /\ stored' \in Counters /\ ram' \in Counters
        /\ stored'.failures = stored.failures
        /\ stored'.retry = Suspension(stored.failures)
    BY <2>1, <2>2
  <2>5. TypeOK' /\ RamIsStored' /\ ToldIsStored' /\ CountedBeforeTold'
    BY <1>4, <2>2, <2>3, <2>4 DEF Suspend
  <2>6. WaitIsAccounted' /\ LastIsSuspension'
    <3>1. Suspension(stored'.failures) = Suspension(stored.failures)
      BY <2>4
    <3>2. stored.failures >= SuspendAt /\ ~(stored.failures < SuspendAt)
      BY <1>4 DEF Suspend
    <3>3. WaitIsAccounted'
      BY <2>1, <2>3, <2>4, <3>1
    <3>4. LastIsSuspension'
      BY <2>1, <2>3, <2>4, <3>1, <3>2
    <3> QED BY <3>3, <3>4
  <2> QED BY <2>5, <2>6
<1>5. CASE Answer
  <2>1. /\ hist'.told = IF hist.told < MaxFailures THEN hist.told + 1 ELSE hist.told
        /\ hist'.last = hist.last /\ hist'.waited = hist.waited
        /\ hist'.torn = hist.torn
        /\ hist'.told \in 0..MaxFailures
        /\ hist' \in Histories
    BY <1>5 DEF Answer
  <2> QED BY <1>5, <2>1 DEF Answer
<1>6. CASE Match \/ FingerOrReset
  <2>1. /\ stored'.failures = 0 /\ stored'.retry = stored.retry
        /\ stored' \in Counters /\ ram' = stored' /\ pc' = "lift"
    BY <1>6 DEF Match, FingerOrReset, Forgive, Save
  <2>2. hist' = [hist EXCEPT !.told = 0, !.last = 0]
    BY <1>6 DEF Match, FingerOrReset, Forgive
  <2>3. /\ hist'.told = 0 /\ hist'.last = 0 /\ hist'.waited = hist.waited
        /\ hist' \in Histories
    <3> DEFINE h1 == [hist EXCEPT !.told = 0]
    <3>1. h1 \in Histories /\ h1.told = 0 /\ h1.waited = hist.waited
      OBVIOUS
    <3> HIDE DEF h1
    <3>2. [h1 EXCEPT !.last = 0] \in Histories
          /\ [h1 EXCEPT !.last = 0].told = 0
          /\ [h1 EXCEPT !.last = 0].last = 0
          /\ [h1 EXCEPT !.last = 0].waited = hist.waited
      BY <3>1
    <3>3. hist' = [h1 EXCEPT !.last = 0]
      BY <2>2 DEF h1
    <3> QED BY <3>2, <3>3
  <2> QED BY <2>1, <2>3
<1>7. CASE Lift
  BY <1>7 DEF Lift, Save, NoHistory
<1>8. CASE PowerLoss
  <2>1. /\ hist'.told = hist.told /\ hist'.last = hist.last
        /\ hist'.waited = hist.waited
        /\ hist'.torn = (hist.torn \/ pc \in {"suspend", "lift"})
        /\ hist' \in Histories
    BY <1>8 DEF PowerLoss
  <2>2. TypeOK' /\ RamIsStored' /\ ToldIsStored' /\ CountedBeforeTold'
    BY <1>8, <2>1 DEF PowerLoss, NoCounters
  <2>3. ~hist'.torn => ~hist.torn /\ pc # "suspend"
    BY <2>1
  <2>4. stored' = stored /\ Suspension(stored'.failures) = Suspension(stored.failures)
    BY <1>8 DEF PowerLoss
  <2>5. WaitIsAccounted' /\ LastIsSuspension'
    <3> HIDE DEF Counters
    <3> QED BY <2>1, <2>3, <2>4
  <2> QED BY <2>2, <2>5
<1>9. CASE UNCHANGED vars
  BY <1>9 DEF vars
<1> QED BY <1>1, <1>2, <1>3, <1>4, <1>5, <1>6, <1>7, <1>8, <1>9 DEF Next

\* KEY_Object's counters keep their range and the boots counted never exceed
\* what the retry counter can hold.
THEOREM LimiterTypeCorrect == Spec => []TypeOK
  BY InitInv, NextInv, PTL DEF Spec, Inv

\* What the reader was told of is in flash, wherever power goes.
THEOREM LimiterTold == Spec => []ToldIsStored
  BY InitInv, NextInv, PTL DEF Spec, Inv

\* A PIN is tried only after as many reboots as the last failure set.
THEOREM LimiterServed == Spec => SuspensionIsServed
<1>1. ASSUME Inv, [Next]_vars
      PROVE  [Mismatch =>
                (stored.failures >= SuspendAt /\ ~hist.torn =>
                   hist.waited >= Suspension(stored.failures))]_vars
  <2>1. stored.failures >= SuspendAt => Suspension(stored.failures) \in Nat
    BY <1>1, SuspensionBounds DEF Inv, TypeOK, Counters, Histories
  <2> QED
    BY <1>1, <2>1, LimitsAssumption
    DEF Inv, TypeOK, Counters, Histories, RamIsStored, WaitIsAccounted, Mismatch, Suspended
<1> QED BY <1>1, InitInv, NextInv, PTL DEF Spec, SuspensionIsServed

\* No failure sets a shorter suspension than the one before it.
THEOREM LimiterGrows == Spec => SuspensionGrows
<1>1. ASSUME Inv, [Next]_vars
      PROVE  [Suspend => stored'.retry >= hist.last /\ stored'.retry > 0]_vars
  <2> SUFFICES ASSUME Suspend
               PROVE  stored'.retry >= hist.last /\ stored'.retry > 0
    OBVIOUS
  <2>1. ram = stored /\ Suspension(stored.failures) \in 1..MaxRetry
    BY <1>1, SuspensionBounds
    DEF Inv, TypeOK, Counters, Histories, RamIsStored, Suspend
  <2>2. stored'.retry = Suspension(stored.failures)
    BY <1>1, <2>1 DEF Inv, TypeOK, Counters, Histories, Suspend, Save
  <2> QED
    BY <1>1, <2>1, <2>2, LimitsAssumption
    DEF Inv, TypeOK, Counters, Histories, CountedBeforeTold, LastIsSuspension, Suspend
<1> QED BY <1>1, InitInv, NextInv, PTL DEF Spec, SuspensionGrows
=============================================================================

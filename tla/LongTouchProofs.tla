--------------------------- MODULE LongTouchProofs ---------------------------
(***************************************************************************)
(* The lengths the detector goes by and the contact the user made, for     *)
(* every threshold, debounce and time between polls, and whatever number   *)
(* of times the counter wraps.                                             *)
(***************************************************************************)
EXTENDS LongTouch, TLAPS

(***************************************************************************)
(* The inductive invariant.                                                *)
(***************************************************************************)
Typed ==
  /\ now \in Nat /\ now >= 1 /\ (now <= MaxTime \/ now = 1)
  /\ det \in [running : BOOLEAN, touched : BOOLEAN, away : Nat, start : Nat,
              period : Nat]
  /\ det.away <= Debounce /\ det.start < Wrap /\ det.period <= Huge + Wrap
  /\ dev \in Devices /\ command \in Commands
  /\ hist \in [on : BOOLEAN, since : Nat, away : Nat]
  /\ hist.since <= now /\ hist.away <= Debounce + 1

\* The touch being measured began at s: at the first poll of the contact.  Until
\* the counter wraps, a touch that goes on is not longer than Long.
BeganAt(s) ==
  /\ hist.since < s /\ s <= now /\ s <= hist.since + MaxPoll
  /\ det.start = Counter(s)
  /\ ~Wrapped => now - s <= Long

\* The detector's touch began within the contact, and it misses the finger as
\* often as the contact does; without a touch there is no contact either.  No
\* length is measured from a counter that reads 0.
TouchInContact ==
  /\ IF det.touched
     THEN /\ hist.on /\ hist.away = det.away
          /\ \E s \in 0..now : BeganAt(s)
     ELSE det.start = 0 /\ (det.running => ~hist.on \/ hist.away > Debounce)
  /\ det.start = 0 => det.period = 0

IInv == Typed /\ TouchInContact /\ LongIsHeld /\ ShortIsHeld

(***************************************************************************)
(* The counter.                                                            *)
(***************************************************************************)
LEMMA DivMod ==
  ASSUME NEW t \in Nat
  PROVE  /\ t = Wrap * (t \div Wrap) + (t % Wrap)
         /\ t % Wrap \in 0..(Wrap - 1) /\ t \div Wrap \in Nat
  BY TouchAssumption, Z3

\* A period more.
LEMMA WrapTimes ==
  ASSUME NEW a \in Nat, NEW b \in Nat, a > b
  PROVE  Wrap * a >= Wrap * b + Wrap
  BY TouchAssumption, Z3

\* Between two wraps the counter measures time.
LEMMA SamePeriod ==
  ASSUME NEW s \in Nat, NEW t \in Nat, s \div Wrap = t \div Wrap
  PROVE  Counter(t) - Counter(s) = t - s
  BY DivMod, TouchAssumption DEF Counter

\* A later time is in the same period or a later one.
LEMMA PeriodsInOrder ==
  ASSUME NEW s \in Nat, NEW t \in Nat, s <= t
  PROVE  s \div Wrap <= t \div Wrap
  <1>1. ASSUME s \div Wrap > t \div Wrap PROVE FALSE
    BY <1>1, DivMod, WrapTimes, TouchAssumption
  <1> QED
    BY <1>1, DivMod

\* A difference of the counter is never longer than the time.
LEMMA CounterLags ==
  ASSUME NEW s \in Nat, NEW t \in Nat, s <= t
  PROVE  Counter(t) - Counter(s) <= t - s
  <1>1. s \div Wrap <= t \div Wrap
    BY PeriodsInOrder
  <1>2. CASE s \div Wrap = t \div Wrap
    <2>1. Counter(t) - Counter(s) = t - s
      BY <1>2, SamePeriod
    <2> QED
      BY <2>1
  <1>3. CASE s \div Wrap < t \div Wrap
    <2>1. Wrap * (t \div Wrap) >= Wrap * (s \div Wrap) + Wrap
      BY <1>3, WrapTimes, DivMod
    <2> DEFINE x == Wrap * (t \div Wrap)
               y == Wrap * (s \div Wrap)
    <2>2. x \in Int /\ y \in Int
      BY DivMod, TouchAssumption
    <2>3. x >= y + Wrap
      BY <2>1
    <2>4. /\ t = x + Counter(t) /\ s = y + Counter(s)
          /\ Counter(t) \in 0..(Wrap - 1) /\ Counter(s) \in 0..(Wrap - 1)
      BY DivMod, TouchAssumption DEF Counter
    <2> HIDE DEF x, y
    <2> QED
      BY <2>2, <2>3, <2>4, TouchAssumption
  <1> QED
    BY <1>1, <1>2, <1>3, DivMod

\* The counter reads 0 only where a period begins.
LEMMA ZeroIsWrap ==
  ASSUME NEW s \in Nat, NEW t \in Nat, s < t, Counter(t) = 0
  PROVE  s \div Wrap # t \div Wrap
  <1>1. ASSUME s \div Wrap = t \div Wrap PROVE FALSE
    <2>1. Counter(t) - Counter(s) = t - s
      BY <1>1, SamePeriod
    <2>2. Counter(s) \in Nat
      BY DivMod, TouchAssumption DEF Counter
    <2> QED
      BY <2>1, <2>2
  <1> QED
    BY <1>1

(***************************************************************************)
(* The step.                                                               *)
(***************************************************************************)
LEMMA InitInv == Init => IInv
  BY TouchAssumption DEF Init, IInv, Typed, TouchInContact, LongIsHeld, ShortIsHeld,
     Idle, NoContact, LongCommands, ShortCommands, Commands, Huge

\* The detector starts without a touch.
LEMMA StartInv == ASSUME IInv, Start PROVE IInv'
  <1>1. /\ det' = [running |-> TRUE, touched |-> FALSE, away |-> 0, start |-> 0, period |-> 0]
        /\ hist' = [on |-> FALSE, since |-> 0, away |-> 0]
        /\ dev' \in Devices /\ command' = "none" /\ now' = now
    BY DEF Start, Idle, NoContact
  <1>2. Typed'
    BY <1>1, TouchAssumption DEF IInv, Typed, Commands, Huge
  <1>3. TouchInContact'
    BY <1>1 DEF TouchInContact
  <1>4. LongIsHeld' /\ ShortIsHeld'
    BY <1>1 DEF LongIsHeld, ShortIsHeld, LongCommands, ShortCommands
  <1> QED
    BY <1>2, <1>3, <1>4 DEF IInv

\* The detector is killed: it measures nothing.
LEMMA KillInv == ASSUME IInv, Kill PROVE IInv'
  <1>1. Typed'
    BY TouchAssumption DEF Kill, IInv, Typed, Idle, Huge
  <1>2. TouchInContact'
    BY DEF Kill, TouchInContact, Idle
  <1>3. LongIsHeld' /\ ShortIsHeld'
    BY DEF Kill, IInv, LongIsHeld, ShortIsHeld, Wrapped
  <1> QED
    BY <1>1, <1>2, <1>3 DEF IInv

\* What a turn measures of a touch: not more than the touch lasted, unless it
\* is longer than Long; exactly that, while the counter does not wrap.
LEMMA MeasuredTouch ==
  ASSUME IInv, NEW t \in Nat, t >= now, det.touched = TRUE,
         NEW s \in 0..now, BeganAt(s)
  PROVE  /\ Measured(t) \in Nat /\ Measured(t) <= Huge + Wrap
         /\ Measured(t) <= Long => Measured(t) <= t - s
         /\ t \div Wrap = hist.since \div Wrap => Measured(t) = t - s
  <1>1. /\ now \in Nat /\ s \in Nat /\ s <= t /\ hist.since \in Nat /\ hist.since < s
        /\ det.start = Counter(s)
    BY DEF IInv, Typed, BeganAt
  <1>2. Counter(t) \in 0..(Wrap - 1) /\ Counter(s) \in 0..(Wrap - 1)
    BY <1>1, DivMod DEF Counter
  <1>3. CASE det.start = 0
    <2>1. Measured(t) = 0
      BY <1>3 DEF Measured, IInv, TouchInContact
    <2>2. t \div Wrap # hist.since \div Wrap
      <3>1. hist.since \div Wrap # s \div Wrap
        BY <1>1, <1>3, ZeroIsWrap
      <3>2. hist.since \div Wrap <= s \div Wrap /\ s \div Wrap <= t \div Wrap
        BY <1>1, PeriodsInOrder
      <3> QED
        BY <1>1, <3>1, <3>2, DivMod
    <2> QED
      BY <1>1, <2>1, <2>2, TouchAssumption DEF Huge
  <1>4. CASE det.start > 0
    <2>1. Measured(t) = Elapsed(Counter(t), Counter(s))
      BY <1>1, <1>4 DEF Measured
    <2>2. CASE Counter(t) >= Counter(s)
      <3>1. Measured(t) = Counter(t) - Counter(s)
        BY <2>1, <2>2 DEF Elapsed
      <3>2. Measured(t) <= t - s
        BY <1>1, <3>1, CounterLags
      <3>3. t \div Wrap = hist.since \div Wrap => Measured(t) = t - s
        <4>1. hist.since \div Wrap <= s \div Wrap /\ s \div Wrap <= t \div Wrap
          BY <1>1, PeriodsInOrder
        <4>2. t \div Wrap = hist.since \div Wrap => s \div Wrap = t \div Wrap
          BY <1>1, <4>1, DivMod
        <4> QED
          BY <1>1, <3>1, <4>2, SamePeriod
      <3> QED
        BY <1>2, <2>2, <3>1, <3>2, <3>3, TouchAssumption DEF Huge
    <2>3. CASE Counter(t) < Counter(s)
      <3>1. Measured(t) = Counter(t) - Counter(s) + Huge
        BY <1>2, <2>1, <2>3 DEF Elapsed
      <3>2. t \div Wrap # hist.since \div Wrap
        <4>1. hist.since \div Wrap <= s \div Wrap /\ s \div Wrap <= t \div Wrap
          BY <1>1, PeriodsInOrder
        <4>2. s \div Wrap # t \div Wrap
          BY <1>1, <1>2, <2>3, SamePeriod
        <4> QED
          BY <1>1, <4>1, <4>2, DivMod
      <3> QED
        BY <1>2, <2>3, <3>1, <3>2, TouchAssumption DEF Huge
    <2> QED
      BY <1>2, <2>2, <2>3
  <1> QED
    BY <1>3, <1>4 DEF IInv, Typed

\* Without a touch nothing is measured.
LEMMA MeasuredNothing ==
  ASSUME IInv, det.touched = FALSE, NEW t
  PROVE  Measured(t) = 0 /\ det.start = 0
  BY DEF IInv, TouchInContact, Measured

\* A command is chosen by the length alone when that is longer than Long.
LEMMA ChosenByLength ==
  ASSUME NEW p \in Nat
  PROVE  /\ Chosen(p) \in Commands
         /\ Chosen(p) \in LongCommands => p > Long
         /\ Chosen(p) \in ShortCommands => p > Short /\ p <= Long
         /\ p = 0 => Chosen(p) = "none"
         /\ Chosen(p) = "none" => p <= Long
  BY TouchAssumption DEF Chosen, LongCommands, ShortCommands, Commands

Hists == [on : BOOLEAN, since : Nat, away : Nat]

\* The fields of a contact that was just seen.
LEMMA SeenFields ==
  ASSUME NEW s \in Nat, NEW c, c = [on |-> TRUE, away |-> 0, since |-> s]
  PROVE  c \in Hists /\ c.on = TRUE /\ c.away = 0 /\ c.since = s
  <1>1. c \in Hists
    BY DEF Hists
  <1>2. c.on = TRUE
    BY Zenon
  <1>3. c.away = 0 /\ c.since = s
    BY DEF Hists
  <1> QED
    BY <1>1, <1>2, <1>3

\* What a poll does to the contact.
LEMMA ContactSeen ==
  ASSUME hist \in Hists, now \in Nat, NEW c, c = Contact(TRUE)
  PROVE  /\ c \in Hists
         /\ c.on = TRUE /\ c.away = 0
         /\ hist.on = TRUE /\ hist.away <= Debounce => c.since = hist.since
         /\ ~(hist.on = TRUE /\ hist.away <= Debounce) => c.since = now
  <1>1. CASE hist.on = TRUE /\ hist.away <= Debounce
    <2>1. c = [on |-> TRUE, away |-> 0, since |-> hist.since]
      BY <1>1 DEF Contact
    <2>2. hist.since \in Nat
      BY DEF Hists
    <2>3. c \in Hists /\ c.on = TRUE /\ c.away = 0 /\ c.since = hist.since
      BY <2>1, <2>2, SeenFields
    <2> QED
      BY <1>1, <2>3, Zenon
  <1>2. CASE ~(hist.on = TRUE /\ hist.away <= Debounce)
    <2>1. c = [on |-> TRUE, away |-> 0, since |-> now]
      BY <1>2 DEF Contact, Hists
    <2>2. c \in Hists /\ c.on = TRUE /\ c.away = 0 /\ c.since = now
      BY <2>1, SeenFields
    <2> QED
      BY <1>2, <2>2, Zenon
  <1> QED
    BY <1>1, <1>2

\* A poll that misses the finger.
LEMMA ContactMissed ==
  ASSUME hist \in Hists
  PROVE  /\ Contact(FALSE) \in Hists
         /\ Contact(FALSE).on = hist.on /\ Contact(FALSE).since = hist.since
         /\ hist.away <= Debounce => Contact(FALSE).away = hist.away + 1
         /\ ~(hist.away <= Debounce) => Contact(FALSE).away = hist.away
  <1> DEFINE a == IF hist.away <= Debounce THEN hist.away + 1 ELSE hist.away
  <1>1. /\ a \in Nat
        /\ hist.away <= Debounce => a = hist.away + 1
        /\ ~(hist.away <= Debounce) => a = hist.away
    BY DEF Hists
  <1>2. Contact(FALSE) = [hist EXCEPT !.away = a]
    BY DEF Contact
  <1> HIDE DEF a
  <1> QED
    BY <1>1, <1>2 DEF Hists

\* What a poll leaves of the touch.
LEMMA PolledOn ==
  ASSUME NEW t
  PROVE  Polled(TRUE, t) =
           [running |-> TRUE, touched |-> TRUE, away |-> 0,
            start |-> IF det.touched THEN det.start ELSE Counter(t),
            period |-> Measured(t)]
  BY DEF Polled

\* A poll that misses it within the debounce.
LEMMA PolledBounce ==
  ASSUME NEW t, det.touched = TRUE, Bounced
  PROVE  Polled(FALSE, t) =
           [running |-> TRUE, touched |-> TRUE, away |-> det.away + 1,
            start |-> det.start, period |-> Measured(t)]
  BY DEF Polled

\* A poll that misses it for longer: the touch has ended.
LEMMA PolledLifted ==
  ASSUME NEW t, det.touched = TRUE, ~Bounced
  PROVE  Polled(FALSE, t) =
           [running |-> TRUE, touched |-> FALSE, away |-> 0, start |-> 0, period |-> 0]
  BY DEF Polled

\* A poll without a touch.
LEMMA PolledNothing ==
  ASSUME NEW t, det.touched = FALSE
  PROVE  Polled(FALSE, t) =
           [running |-> TRUE, touched |-> FALSE, away |-> 0, start |-> det.start,
            period |-> Measured(t)]
  BY DEF Polled

\* A poll keeps the invariant.
LEMMA PollInv == ASSUME IInv, Poll PROVE IInv'
  <1>0. PICK on \in BOOLEAN, t \in Nat :
        /\ now < t /\ t <= now + MaxPoll /\ t <= MaxTime /\ now' = t
        /\ command' = Chosen(Measured(t))
        /\ det' = IF Chosen(Measured(t)) # "none" THEN Idle ELSE Polled(on, t)
        /\ hist' = Contact(on)
    <2>1. PICK on \in BOOLEAN, d \in 1..MaxPoll :
          /\ now + d <= MaxTime
          /\ now' = now + d
          /\ command' = Chosen(Measured(now + d))
          /\ det' = IF Chosen(Measured(now + d)) # "none" THEN Idle ELSE Polled(on, now + d)
          /\ hist' = Contact(on)
      BY DEF Poll
    <2>2. /\ now + d \in Nat /\ now < now + d /\ now + d <= now + MaxPoll
      BY TouchAssumption DEF IInv, Typed
    <2> QED
      BY <2>1, <2>2
  <1> DEFINE p == Measured(t)
  <1>1. /\ t \in Nat /\ t > now /\ t >= now /\ t <= now + MaxPoll /\ t <= MaxTime
        /\ now' = t /\ dev' = dev /\ det.running = TRUE
    BY <1>0, TouchAssumption DEF IInv, Typed, Poll
  <1>t. /\ now \in Nat /\ now >= 1 /\ dev \in Devices /\ hist \in Hists
        /\ det \in [running : BOOLEAN, touched : BOOLEAN, away : Nat, start : Nat,
                    period : Nat]
        /\ hist.since <= now /\ hist.away <= Debounce + 1
        /\ det.away <= Debounce /\ det.start < Wrap /\ det.period <= Huge + Wrap
    BY DEF IInv, Typed, Hists
  <1>c. /\ det.touched = TRUE => hist.on = TRUE /\ hist.away = det.away
        /\ det.touched = FALSE => ~(hist.on = TRUE /\ hist.away <= Debounce)
    <2>1. hist.on \in BOOLEAN /\ hist.away \in Nat
      BY <1>t DEF Hists
    <2>2. det.touched = TRUE => hist.on = TRUE /\ hist.away = det.away
      BY <2>1 DEF IInv, TouchInContact
    <2>3. det.touched = FALSE => ~(hist.on = TRUE /\ hist.away <= Debounce)
      BY <1>1, <2>1, TouchAssumption DEF IInv, TouchInContact
    <2> QED
      BY <2>2, <2>3
  <1>p. p \in Nat /\ p <= Huge + Wrap
    <2>1. CASE det.touched = TRUE
      <3>1. PICK s \in 0..now : BeganAt(s)
        BY <2>1 DEF IInv, TouchInContact
      <3>2. Measured(t) \in Nat /\ Measured(t) <= Huge + Wrap
        BY <1>1, <2>1, <3>1, MeasuredTouch
      <3> QED
        BY <3>2
    <2>2. CASE det.touched = FALSE
      <3>1. Measured(t) = 0
        BY <2>2, MeasuredNothing
      <3> QED
        BY <3>1, TouchAssumption DEF Huge
    <2> QED
      BY <1>t, <2>1, <2>2
  <1>h. command' = Chosen(p) /\ hist' = Contact(on)
    BY <1>0
  <1>i. /\ Chosen(p) # "none" => det' = Idle
        /\ Chosen(p) = "none" => det' = Polled(on, t)
    BY <1>0
  <1> HIDE DEF p
  <1>w. Wrapped' <=> t \div Wrap # hist'.since \div Wrap
    BY <1>1 DEF Wrapped
  <1>3. /\ hist' \in Hists /\ hist'.since <= now /\ hist'.away <= Debounce + 1
        /\ det.touched = TRUE => hist'.on = TRUE /\ hist'.since = hist.since
    <2>1. CASE on = TRUE
      <3>1. hist' = Contact(TRUE)
        BY <1>h, <2>1
      <3>2. /\ hist' \in Hists /\ hist'.on = TRUE /\ hist'.away = 0
            /\ hist'.since = hist.since \/ hist'.since = now
        BY <3>1, <1>t, ContactSeen
      <3>3. det.touched = TRUE => hist'.since = hist.since
        BY <3>1, <1>t, <1>c, ContactSeen
      <3> QED
        BY <3>2, <3>3, <1>t, TouchAssumption DEF Hists
    <2>2. CASE on = FALSE
      <3>1. hist' = Contact(FALSE)
        BY <1>h, <2>2
      <3>2. hist' \in Hists /\ hist'.on = hist.on /\ hist'.since = hist.since
        BY <3>1, <1>t, ContactMissed
      <3>3. hist'.away <= Debounce + 1
        <4>1. hist.away \in Nat
          BY <1>t DEF Hists
        <4>2. hist.away <= Debounce => hist'.away = hist.away + 1
          BY <3>1, <1>t, ContactMissed
        <4>3. ~(hist.away <= Debounce) => hist'.away = hist.away
          BY <3>1, <1>t, ContactMissed
        <4> QED
          BY <1>t, <4>1, <4>2, <4>3, TouchAssumption
      <3> QED
        BY <3>2, <3>3, <1>t, <1>c
    <2> QED
      BY <2>1, <2>2
  <1>4. CASE Chosen(p) # "none"
    <2>1. det.touched = TRUE
      <3>1. CASE det.touched = FALSE
        BY <1>4, <1>p, <3>1, MeasuredNothing, ChosenByLength DEF p
      <3> QED
        BY <1>t, <3>1
    <2>2. PICK s \in 0..now : BeganAt(s)
      BY <2>1 DEF IInv, TouchInContact
    <2>3. /\ hist'.on = TRUE /\ hist'.since = hist.since
          /\ hist.since \in Nat /\ hist.since < s /\ s \in Nat
      BY <1>3, <1>t, <2>1, <2>2 DEF BeganAt, Hists
    <2>4. /\ p <= Long => p <= t - s
          /\ t \div Wrap = hist.since \div Wrap => p = t - s
      BY <1>1, <2>1, <2>2, MeasuredTouch DEF p
    <2>5. LongIsHeld'
      <3>1. command' \in LongCommands => p > Long
        BY <1>h, <1>p, ChosenByLength
      <3>2. command' \in LongCommands /\ ~Wrapped' => t - hist.since > Long
        BY <1>1, <1>p, <1>w, <2>3, <2>4, <3>1, TouchAssumption
      <3> QED
        BY <1>1, <2>3, <3>2 DEF LongIsHeld
    <2>6. ShortIsHeld'
      <3>1. command' \in ShortCommands => p > Short /\ p <= Long
        BY <1>h, <1>p, ChosenByLength
      <3>2. command' \in ShortCommands => t - hist.since > Short
        BY <1>1, <1>p, <2>3, <2>4, <3>1, TouchAssumption
      <3> QED
        BY <1>1, <2>3, <3>2 DEF ShortIsHeld
    <2>7. det' = Idle /\ command' \in Commands
      BY <1>4, <1>h, <1>i, <1>p, ChosenByLength
    <2>8. Typed'
      BY <1>1, <1>3, <1>t, <2>7, TouchAssumption DEF Typed, Idle, Hists, Huge
    <2>9. TouchInContact'
      BY <2>7 DEF TouchInContact, Idle
    <2> QED
      BY <2>5, <2>6, <2>8, <2>9 DEF IInv
  <1>5. CASE Chosen(p) = "none"
    <2>1. LongIsHeld' /\ ShortIsHeld'
      BY <1>h, <1>5 DEF LongIsHeld, ShortIsHeld, LongCommands, ShortCommands
    <2>2. det' = Polled(on, t) /\ command' \in Commands /\ p <= Long
      BY <1>5, <1>h, <1>i, <1>p, ChosenByLength
    <2>T. ASSUME det' \in [running : BOOLEAN, touched : BOOLEAN, away : Nat, start : Nat,
                          period : Nat],
                 det'.away <= Debounce, det'.start < Wrap, det'.period <= Huge + Wrap
          PROVE  Typed'
      BY <1>1, <1>3, <1>t, <2>2, <2>T, TouchAssumption DEF Typed, Hists
    \* A touch that goes on began where it did.
    <2>G. ASSUME det.touched = TRUE, det'.start = det.start
          PROVE  \E s \in 0..now' : BeganAt(s)'
      <3>1. PICK s \in 0..now : BeganAt(s)
        BY <2>G DEF IInv, TouchInContact
      <3>2. hist'.since = hist.since /\ hist.since \in Nat
        BY <1>3, <1>t, <2>G DEF Hists
      <3>3. t \div Wrap = hist.since \div Wrap => p = t - s
        BY <1>1, <2>G, <3>1, MeasuredTouch DEF p
      <3>4. ~Wrapped' => t - s <= Long
        BY <1>w, <2>2, <3>2, <3>3
      <3>5. s \in 0..now'
        BY <1>1, <1>t
      <3>6. BeganAt(s)'
        BY <1>1, <1>t, <2>G, <3>1, <3>2, <3>4 DEF BeganAt
      <3> QED
        BY <3>5, <3>6
    \* No length is measured from a counter that reads 0.
    <2>Z. det.start = 0 => p = 0
      BY DEF p, Measured, IInv, TouchInContact
    <2>3. CASE on = TRUE /\ det.touched = TRUE
      <3>1. det' = [running |-> TRUE, touched |-> TRUE, away |-> 0,
                    start |-> det.start, period |-> p]
        BY <2>2, <2>3, PolledOn DEF p
      <3>2. hist'.away = 0
        BY <1>h, <2>3, <1>t, ContactSeen
      <3>3. Typed'
        BY <1>p, <1>t, <2>T, <3>1, TouchAssumption
      <3>4. TouchInContact'
        BY <1>3, <2>3, <2>G, <2>Z, <3>1, <3>2 DEF TouchInContact
      <3> QED
        BY <2>1, <3>3, <3>4 DEF IInv
    <2>4. CASE on = TRUE /\ det.touched = FALSE
      <3>1. p = 0
        BY <2>4, MeasuredNothing DEF p
      <3>2. det' = [running |-> TRUE, touched |-> TRUE, away |-> 0,
                    start |-> Counter(t), period |-> 0]
        BY <2>2, <2>4, <3>1, PolledOn DEF p
      <3>3. hist'.on = TRUE /\ hist'.away = 0 /\ hist'.since = now
        BY <1>h, <1>c, <1>t, <2>4, ContactSeen
      <3>4. Counter(t) \in 0..(Wrap - 1)
        BY <1>1, DivMod DEF Counter
      <3>5. Typed'
        BY <2>T, <3>2, <3>4, TouchAssumption DEF Huge
      <3>6. t \in 0..now' /\ BeganAt(t)'
        BY <1>1, <1>t, <3>2, <3>3, TouchAssumption DEF BeganAt
      <3>7. TouchInContact'
        BY <3>2, <3>3, <3>6 DEF TouchInContact
      <3> QED
        BY <2>1, <3>5, <3>7 DEF IInv
    <2>5. CASE on = FALSE /\ det.touched = TRUE /\ Bounced
      <3>1. det' = [running |-> TRUE, touched |-> TRUE, away |-> det.away + 1,
                    start |-> det.start, period |-> p]
        BY <2>2, <2>5, PolledBounce DEF p
      <3>2. hist'.away = det.away + 1 /\ det.away + 1 <= Debounce
        BY <1>h, <1>t, <1>c, <2>5, ContactMissed DEF Bounced
      <3>3. Typed'
        BY <1>p, <1>t, <2>T, <3>1, <3>2, TouchAssumption
      <3>4. TouchInContact'
        BY <1>3, <2>5, <2>G, <2>Z, <3>1, <3>2 DEF TouchInContact
      <3> QED
        BY <2>1, <3>3, <3>4 DEF IInv
    <2>6. CASE on = FALSE /\ det.touched = TRUE /\ ~Bounced
      <3>1. det' = [running |-> TRUE, touched |-> FALSE, away |-> 0, start |-> 0,
                    period |-> 0]
        BY <2>2, <2>6, PolledLifted
      <3>2. hist'.away = hist.away + 1 /\ hist'.away > Debounce
        <4>1. hist' = Contact(FALSE)
          BY <1>h, <2>6
        <4>2. hist.away = det.away /\ det.away \in Nat /\ hist.away <= Debounce
          BY <1>t, <1>c, <2>6
        <4>3. hist'.away = hist.away + 1
          BY <1>t, <4>1, <4>2, ContactMissed
        <4> QED
          BY <2>6, <4>2, <4>3, TouchAssumption DEF Bounced
      <3>3. Typed'
        BY <2>T, <3>1, TouchAssumption DEF Huge
      <3>4. TouchInContact'
        BY <3>1, <3>2 DEF TouchInContact
      <3> QED
        BY <2>1, <3>3, <3>4 DEF IInv
    <2>7. CASE on = FALSE /\ det.touched = FALSE
      <3>1. det' = [running |-> TRUE, touched |-> FALSE, away |-> 0, start |-> 0,
                    period |-> 0]
        BY <2>2, <2>7, PolledNothing, MeasuredNothing DEF p
      <3>2. hist'.on = FALSE \/ hist'.away > Debounce
        <4>1. hist' = Contact(FALSE)
          BY <1>h, <2>7
        <4>2. hist.on \in BOOLEAN /\ hist.away \in Nat
          BY <1>t DEF Hists
        <4>3. hist'.on = hist.on /\ (~(hist.away <= Debounce) => hist'.away = hist.away)
          BY <1>t, <4>1, ContactMissed
        <4>4. ~(hist.on = TRUE /\ hist.away <= Debounce)
          BY <1>c, <2>7
        <4> QED
          BY <4>2, <4>3, <4>4, TouchAssumption
      <3>3. Typed'
        BY <2>T, <3>1, TouchAssumption DEF Huge
      <3>4. TouchInContact'
        BY <3>1, <3>2 DEF TouchInContact
      <3> QED
        BY <2>1, <3>3, <3>4 DEF IInv
    <2> QED
      BY <1>t, <2>3, <2>4, <2>5, <2>6, <2>7
  <1> QED
    BY <1>4, <1>5

\* The invariant is inductive.
LEMMA NextInv == IInv /\ [Next]_vars => IInv'
  <1> SUFFICES ASSUME IInv, [Next]_vars PROVE IInv'
    OBVIOUS
  <1>1. CASE UNCHANGED vars
    BY <1>1 DEF vars, IInv, Typed, TouchInContact, BeganAt, Wrapped, LongIsHeld,
       ShortIsHeld
  <1> QED
    BY <1>1, StartInv, KillInv, PollInv DEF Next

\* The inductive invariant holds for all thresholds, debounce counts, distances
\* of polls and periods of the counter.
THEOREM TouchInvariance == Spec => []IInv
  BY InitInv, NextInv, PTL DEF Spec

\* Every variable stays in its type: no length exceeds the 32-bit difference of
\* two 24-bit readings, and no bounce is counted beyond the debounce.
THEOREM TouchTypeCorrect == Spec => []TypeOK
  <1>1. IInv => TypeOK
    BY TouchAssumption DEF IInv, Typed, TypeOK
  <1> QED
    BY <1>1, TouchInvariance, PTL

\* A reset, an unlock or a power-off is chosen only after a contact longer than
\* Long (fps.c's 10 s), if the counter did not wrap within it.
THEOREM LongTouchIsHeld == Spec => []LongIsHeld
  <1>1. IInv => LongIsHeld
    BY DEF IInv
  <1> QED
    BY <1>1, TouchInvariance, PTL

\* A validation or an enrolment is chosen only after a contact longer than
\* Short (2.4 s), whether or not the counter wrapped.
THEOREM ShortTouchIsHeld == Spec => []ShortIsHeld
  <1>1. IInv => ShortIsHeld
    BY DEF IInv
  <1> QED
    BY <1>1, TouchInvariance, PTL

\* A finger that stays makes the detector choose: it polls on for no longer
\* than Long and the time to the poll that saw the touch begin.
THEOREM HeldTouchIsServed == Spec => []HeldIsServed
  <1>1. IInv => HeldIsServed
    <2> SUFFICES ASSUME IInv, det.running, hist.on, hist.away = 0, ~Wrapped
                 PROVE  now - hist.since <= Long + MaxPoll
      BY DEF HeldIsServed
    <2>1. det.touched
      BY TouchAssumption DEF IInv, TouchInContact, Typed
    <2>2. PICK s \in 0..now : BeganAt(s)
      BY <2>1 DEF IInv, TouchInContact
    <2> QED
      BY <2>2, TouchAssumption DEF BeganAt, IInv, Typed
  <1> QED
    BY <1>1, TouchInvariance, PTL
=============================================================================

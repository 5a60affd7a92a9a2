-------------------------- MODULE SensorLinkProofs --------------------------
(***************************************************************************)
(* Proofs about the link to the sensor: its types, the bound on what is    *)
(* left over, and that a late answer is never taken for a match, for a     *)
(* finger counted or for an enrolment.                                     *)
(*                                                                         *)
(* The argument follows the answers that look like a match (n > 0).  While *)
(* a finger is being validated, such an answer is about the enrolled       *)
(* finger; HotUpTo says how far back in the queue it may still be, and     *)
(* every reset between two captures or in a long touch takes one answer    *)
(* off or counts one more timeout.  By the time an unlock erases the       *)
(* finger, the last of them was read, if no more than Few came late.       *)
(***************************************************************************)
EXTENDS SensorLink, Integers, SequenceTheorems, TLAPS

\* Types of the records.
ProgType ==
  [at : Points, call : Calls, tries : 0..3, rests : Nat, n : Nat, fails : Nat,
   fpId : Nat, last : 0..1, ret : BOOLEAN, locked : BOOLEAN, auth : BOOLEAN]
SensorType ==
  [print : Fingers \union {None}, image : Fingers \union {None}, caps : 0..MaxCaptures]
HistType ==
  [timeouts : 0..MaxTimeouts, gaveUp : Nat, matched : BOOLEAN,
   result : {"none", "enrolled", "failed"}]

\* All variables are typed.
Typed ==
  /\ line \in Seq(Commands)
  /\ rx \in Seq(Answers) /\ Len(rx) <= RxFrames
  /\ dead \in BOOLEAN
  /\ sensor \in SensorType
  /\ prog \in ProgType
  /\ hist \in HistType

\* A device that is off has nothing left in the line or the queue.
OffBlank == prog.at = "off" => line = <<>> /\ rx = <<>>

\* What timed out or was given up since power-up.
Lag == hist.timeouts + hist.gaveUp
\* One when an answer is waited for.
Waiting == IF prog.at \in Awaits THEN 1 ELSE 0

\* Types, and no more left over than timed out or was given up.
Base == Typed /\ LeftByTimeouts

(***************************************************************************)
(* Reading an answer and sending the next command.                         *)
(***************************************************************************)
\* A read of a; sent is what the line holds when it is done.
Reads(a, sent) ==
  /\ Takes(a)
  /\ \/ Consume /\ sent = line
     \/ GaveUp(a) /\ sent = Sent(a)

\* The first of a sequence taken off.
LEMMA TailIs ==
  ASSUME NEW S, NEW s \in Seq(S), s # <<>>
  PROVE  /\ Tail(s) \in Seq(S) /\ Len(Tail(s)) = Len(s) - 1 /\ Len(s) >= 1
         /\ \A i \in 1..Len(Tail(s)) : Tail(s)[i] = s[i + 1]
         /\ Head(s) = s[1] /\ Head(s) \in S
BY HeadTailProperties, SMT

\* One more at the end of a sequence.
LEMMA AppendIs ==
  ASSUME NEW S, NEW s \in Seq(S), NEW c \in S
  PROVE  /\ Append(s, c) \in Seq(S) /\ Len(Append(s, c)) = Len(s) + 1
         /\ \A i \in 1..Len(s) : Append(s, c)[i] = s[i]
         /\ Append(s, c)[Len(s) + 1] = c
BY SMT

\* Counting a reset that gave up.
LEMMA CountedGaveUp ==
  ASSUME NEW h \in HistType
  PROVE  LET k == [h EXCEPT !.gaveUp = @ + 1]
         IN  /\ k \in HistType /\ k.timeouts = h.timeouts /\ k.gaveUp = h.gaveUp + 1
             /\ k.matched = h.matched /\ k.result = h.result
BY DEF HistType

\* Counting a timeout keeps within the bound.
LEMMA CountedTimeout ==
  ASSUME NEW h \in HistType, h.timeouts < MaxTimeouts
  PROVE  LET k == [h EXCEPT !.timeouts = @ + 1]
         IN  /\ k \in HistType /\ k.timeouts = h.timeouts + 1 /\ k.gaveUp = h.gaveUp
             /\ k.matched = h.matched /\ k.result = h.result
<1>1. MaxTimeouts \in Nat
  BY LinkAssumption
<1>2. h.timeouts + 1 \in 0..MaxTimeouts
  BY <1>1 DEF HistType
<1> QED BY <1>2 DEF HistType

\* What a read leaves: it takes an answer off the queue or counts a timeout,
\* and a reset sent once more is one that gives up.
LEMMA ReadTypes ==
  ASSUME Typed, NEW a \in Answers, NEW sent, Reads(a, sent)
  PROVE  /\ rx' \in Seq(Answers) /\ Len(rx') <= Len(rx)
         /\ hist' \in HistType
         /\ hist'.matched = hist.matched /\ hist'.result = hist.result
         /\ sent = line \/ sent = Append(line, "reset")
         /\ sent \in Seq(Commands)
         /\ \/ rx # <<>> /\ rx' = Tail(rx) /\ a = Head(rx)
            \/ rx = <<>> /\ rx' = rx /\ a = NoAnswer
         /\ (IF rx = <<>> THEN 1 ELSE 0) + Len(sent) - Len(line) <= Lag' - Lag
<1>1. /\ \/ rx # <<>> /\ rx' = Tail(rx) /\ a = Head(rx)
         \/ rx = <<>> /\ rx' = rx /\ a = NoAnswer /\ hist.timeouts < MaxTimeouts
      /\ sent = line \/ sent = Append(line, "reset")
  BY DEF Reads, Takes, Consume, GaveUp, Sent, MayTimeOut
<1>2. rx \in Seq(Answers) /\ line \in Seq(Commands) /\ "reset" \in Commands
  BY DEF Typed, Commands
<1>3. rx' \in Seq(Answers) /\ Len(rx') <= Len(rx)
  BY <1>1, <1>2, TailIs
<1>4. sent \in Seq(Commands) /\ Len(line) \in Nat
  BY <1>1, <1>2
<1>5. sent = line \/ Len(sent) = Len(line) + 1
  BY <1>1, <1>2
<1>6. \/ sent = line /\ hist' = [hist EXCEPT !.timeouts = IF rx = <<>> THEN @ + 1 ELSE @]
      \/ hist' = [hist EXCEPT !.timeouts = IF rx = <<>> THEN @ + 1 ELSE @, !.gaveUp = @ + 1]
  BY <1>2 DEF Reads, Consume, GaveUp, Sent, Typed, HistType
<1>7. hist \in HistType /\ MaxTimeouts \in Nat /\ (rx = <<>> => hist.timeouts < MaxTimeouts)
  BY <1>1, LinkAssumption DEF Typed
<1>8. /\ hist' \in HistType
      /\ hist'.matched = hist.matched /\ hist'.result = hist.result
      /\ hist'.timeouts = hist.timeouts + (IF rx = <<>> THEN 1 ELSE 0)
      /\ \/ sent = line /\ hist'.gaveUp = hist.gaveUp
         \/ hist'.gaveUp = hist.gaveUp + 1
  <2>1. CASE rx = <<>> /\ sent = line /\ hist' = [hist EXCEPT !.timeouts = @ + 1]
    BY <1>7, <2>1, CountedTimeout
  <2>2. CASE rx = <<>> /\ hist' = [hist EXCEPT !.timeouts = @ + 1, !.gaveUp = @ + 1]
    <3> DEFINE h == [hist EXCEPT !.timeouts = @ + 1]
    <3>1. hist' = [h EXCEPT !.gaveUp = @ + 1]
      BY <1>7, <2>2 DEF HistType
    <3>2. /\ h \in HistType /\ h.timeouts = hist.timeouts + 1 /\ h.gaveUp = hist.gaveUp
          /\ h.matched = hist.matched /\ h.result = hist.result
      BY <1>7, <2>2, CountedTimeout
    <3> HIDE DEF h
    <3> QED BY <2>2, <3>1, <3>2, CountedGaveUp
  <2>3. CASE rx # <<>> /\ sent = line /\ hist' = hist
    BY <1>7, <2>3 DEF HistType
  <2>4. CASE rx # <<>> /\ hist' = [hist EXCEPT !.gaveUp = @ + 1]
    BY <1>7, <2>4, CountedGaveUp DEF HistType
  <2> QED BY <1>6, <1>7, <2>1, <2>2, <2>3, <2>4 DEF HistType
<1>9. (IF rx = <<>> THEN 1 ELSE 0) + Len(sent) - Len(line) <= Lag' - Lag
  BY <1>4, <1>5, <1>7, <1>8, SMTT(30) DEF Lag, HistType
<1> QED BY <1>1, <1>3, <1>4, <1>8, <1>9

\* Reading takes one answer off what is left, or counts one more.
LEMMA ReadLeaves ==
  ASSUME Base, prog.at \in Awaits, NEW a \in Answers, NEW sent, Reads(a, sent)
  PROVE  Len(sent) + Len(rx') <= Lag'
<1>1. Len(line) + Len(rx) <= Lag + 1
  BY DEF Base, LeftByTimeouts, Lag
<1>2. CASE rx # <<>>
  <2>1. Len(rx') = Len(rx) - 1
    BY <1>2, ReadTypes, TailIs DEF Base, Typed
  <2> QED BY <1>1, <1>2, <2>1, ReadTypes, SMTT(30) DEF Base, Typed, Lag, HistType
<1>3. CASE rx = <<>>
  BY <1>1, <1>3, ReadTypes DEF Base, Typed, Lag, HistType
<1> QED BY <1>2, <1>3

\* Every point that awaits an answer has a command.
LEMMA CommandTypes == \A p \in Awaits : Command(p) \in Commands
BY DEF Command, Awaits, Resets, Commands

(***************************************************************************)
(* What each action does to the program's variables.                       *)
(***************************************************************************)
\* The variables that outlive the point the program is at.
Like(q, s) ==
  /\ q.call = s.call /\ q.last = s.last /\ q.ret = s.ret
  /\ q.locked = s.locked /\ q.auth = s.auth

\* Sending the command of p moves the program there and adds to the line.
LEMMA Asks ==
  ASSUME NEW s \in ProgType, NEW p \in Awaits, NEW sent, AskFrom(sent, s, p)
  PROVE  /\ prog' \in ProgType /\ prog'.at = p /\ prog'.rests = s.rests /\ Like(prog', s)
         /\ line' = Append(sent, Command(p))
<1> DEFINE t == IF p \in Resets THEN 3 ELSE 0
           q == [s EXCEPT !.at = p, !.tries = t]
<1>1. prog' = q /\ line' = Append(sent, Command(p))
  BY DEF AskFrom
<1>2. t \in 0..3 /\ p \in Points
  BY DEF Points
<1>3. q \in ProgType /\ q.at = p /\ q.rests = s.rests /\ Like(q, s)
  BY <1>2 DEF ProgType, Like
<1> QED BY ONLY <1>1, <1>3

\* Staying off the line moves the program only.
LEMMA Stays ==
  ASSUME NEW s \in ProgType, NEW p \in {"idle", "loop"}, Stay(s, p)
  PROVE  /\ prog' \in ProgType /\ prog'.at = p /\ prog'.rests = s.rests /\ Like(prog', s)
         /\ line' = line
<1> DEFINE q == [s EXCEPT !.at = p, !.tries = 0]
<1>1. prog' = q /\ line' = line
  BY DEF Stay
<1>2. q \in ProgType /\ q.at = p /\ q.rests = s.rests /\ Like(q, s)
  <2>1. p \in Points /\ 0 \in 0..3
    BY DEF Points
  <2> QED BY <2>1 DEF ProgType, Like
<1> QED BY ONLY <1>1, <1>2

\* The variables of the program at power-up.
LEMMA NoProgIs ==
  /\ NoProg \in ProgType /\ NoProg.at = "off" /\ NoProg.call = "none" /\ NoProg.last = 0
  /\ NoProg.ret = FALSE /\ NoProg.locked = FALSE /\ NoProg.auth = FALSE
BY DEF NoProg, ProgType, Points, Calls

\* Setting the lock state.
LEMMA NoProgLocked ==
  ASSUME NEW s \in ProgType, NEW b \in BOOLEAN
  PROVE  LET q == [s EXCEPT !.locked = b]
         IN  /\ q \in ProgType /\ q.at = s.at /\ q.call = s.call /\ q.last = s.last
             /\ q.rests = s.rests /\ q.ret = s.ret /\ q.locked = b /\ q.auth = s.auth
BY DEF ProgType

\* A count read as the lock state.
LEMMA CountedLock ==
  ASSUME NEW s \in ProgType, NEW a \in Answers
  PROVE  LET q == [s EXCEPT !.locked = a.ok /\ a.n > 0]
         IN  /\ q \in ProgType /\ q.call = s.call /\ q.last = s.last
             /\ q.ret = s.ret /\ q.locked = (a.ok /\ a.n > 0) /\ q.auth = s.auth
<1> DEFINE b == a.ok /\ a.n > 0
           q == [s EXCEPT !.locked = b]
<1>1. b \in BOOLEAN
  OBVIOUS
<1> HIDE DEF b
<1>2. /\ q \in ProgType /\ q.call = s.call /\ q.last = s.last
      /\ q.ret = s.ret /\ q.locked = b /\ q.auth = s.auth
  BY <1>1, NoProgLocked
<1> QED BY <1>2 DEF b

\* What a successful validation sets.
LEMMA NoProgAuth ==
  ASSUME NEW s \in ProgType
  PROVE  LET q == [s EXCEPT !.locked = TRUE, !.auth = TRUE]
         IN  /\ q \in ProgType /\ q.call = s.call /\ q.last = s.last /\ q.ret = s.ret
             /\ q.locked = TRUE /\ q.auth = TRUE
BY DEF ProgType

\* What the start of a validation sets.
LEMMA NoProgValidate ==
  ASSUME NEW s \in ProgType
  PROVE  LET q == [s EXCEPT !.at = "loop", !.call = "validate", !.locked = TRUE]
         IN  /\ q \in ProgType /\ q.at = "loop" /\ q.call = "validate" /\ q.last = s.last
             /\ q.ret = s.ret /\ q.locked = TRUE /\ q.auth = s.auth
BY DEF ProgType, Points, Calls

\* A read ends, and the program sends the command of its next point, if any.
ReadTo(a, sent) ==
  /\ prog.at \in Awaits /\ Reads(a, sent)
  /\ UNCHANGED <<dead, sensor>>
  /\ prog' \in ProgType /\ prog'.at # "off"
  /\ line' = IF prog'.at \in Awaits THEN Append(sent, Command(prog'.at)) ELSE sent

\* The program goes on without having read.
SendTo ==
  /\ prog.at \in {"idle", "loop"}
  /\ UNCHANGED <<rx, dead, sensor>>
  /\ prog' \in ProgType /\ prog'.at # "off"
  /\ hist' \in HistType /\ hist'.timeouts = hist.timeouts
  /\ hist'.gaveUp = hist.gaveUp /\ hist'.result = hist.result
  /\ line' = IF prog'.at \in Awaits THEN Append(line, Command(prog'.at)) ELSE line

\* Reading an answer and asking at the next point.
LEMMA ReadAsks ==
  ASSUME Typed, prog.at \in Awaits, NEW a \in Answers, NEW sent, Reads(a, sent),
         UNCHANGED <<dead, sensor>>,
         NEW s \in ProgType, NEW p \in Awaits, AskFrom(sent, s, p)
  PROVE  ReadTo(a, sent) /\ prog'.at = p /\ prog'.rests = s.rests /\ Like(prog', s)
<1>1. /\ prog' \in ProgType /\ prog'.at = p /\ prog'.rests = s.rests /\ Like(prog', s)
      /\ line' = Append(sent, Command(p))
  BY Asks
<1>2. p # "off"
  BY DEF Awaits, Resets
<1> QED BY <1>1, <1>2 DEF ReadTo

\* Reading an answer and asking nothing.
LEMMA ReadStays ==
  ASSUME Typed, prog.at \in Awaits, NEW a \in Answers, Reads(a, line),
         UNCHANGED <<dead, sensor>>,
         NEW s \in ProgType, NEW p \in {"idle", "loop"}, Stay(s, p)
  PROVE  ReadTo(a, line) /\ prog'.at = p /\ prog'.rests = s.rests /\ Like(prog', s)
<1>1. /\ prog' \in ProgType /\ prog'.at = p /\ prog'.rests = s.rests /\ Like(prog', s)
      /\ line' = line
  BY Stays
<1>2. p # "off" /\ p \notin Awaits
  BY DEF Awaits, Resets
<1> QED BY <1>1, <1>2 DEF ReadTo

\* A read without a reset that gives up sends nothing.
LEMMA PlainRead ==
  ASSUME NEW a, Takes(a), Consume
  PROVE  Reads(a, line)
BY DEF Reads

\* Asking without having read.
LEMMA SendAsks ==
  ASSUME Typed, prog.at \in {"idle", "loop"}, UNCHANGED <<rx, dead, sensor, hist>>,
         NEW s \in ProgType, NEW p \in Awaits, Ask(s, p)
  PROVE  SendTo /\ prog'.at = p /\ prog'.rests = s.rests /\ Like(prog', s)
<1>1. /\ prog' \in ProgType /\ prog'.at = p /\ prog'.rests = s.rests /\ Like(prog', s)
      /\ line' = Append(line, Command(p))
  BY Asks DEF Ask
<1>2. p # "off"
  BY DEF Awaits, Resets
<1> QED BY <1>1, <1>2 DEF SendTo, Typed

\* FPS_init: shut down, or go on to the reset.
LEMMA LevelDoes ==
  ASSUME Typed, Level
  PROVE  /\ prog.at = "level"
         /\ \/ Off("none")
            \/ \E a \in Answers : ReadTo(a, line) /\ prog'.at = "bootReset" /\ Like(prog', prog)
<1>1. prog.at = "level" /\ prog.at \in Awaits /\ prog \in ProgType /\ "bootReset" \in Awaits
  BY DEF Level, Awaits, Resets, Typed
<1>2. PICK a \in Answers : Level!2!(a)
  BY DEF Level
<1>3. CASE a.ok
  <2>1. Ask(prog, "bootReset") /\ Reads(a, line) /\ UNCHANGED <<dead, sensor>>
    BY <1>2, <1>3, PlainRead
  <2> QED BY <1>1, <2>1, ReadAsks DEF Ask
<1> QED BY <1>1, <1>2, <1>3

\* OTK_init takes the count of fingers for the lock state.
LEMMA BootCountDoes ==
  ASSUME Typed, BootCount
  PROVE  /\ prog.at = "bootCount"
         /\ \E a \in Answers :
              /\ ReadTo(a, line) /\ prog'.at = "idle"
              /\ prog'.locked = (a.ok /\ a.n > 0)
              /\ prog'.call = prog.call /\ prog'.last = prog.last
              /\ prog'.ret = prog.ret /\ prog'.auth = prog.auth
<1>1. prog.at = "bootCount" /\ prog.at \in Awaits /\ prog \in ProgType
  BY DEF BootCount, Awaits, Typed
<1>2. PICK a \in Answers : Takes(a) /\ Stay([prog EXCEPT !.locked = a.ok /\ a.n > 0], "idle")
  BY DEF BootCount
<1>3. Reads(a, line) /\ UNCHANGED <<dead, sensor>>
  BY <1>2, PlainRead DEF BootCount
<1> DEFINE s == [prog EXCEPT !.locked = a.ok /\ a.n > 0]
<1>4. /\ s \in ProgType /\ s.locked = (a.ok /\ a.n > 0)
      /\ s.call = prog.call /\ s.last = prog.last /\ s.ret = prog.ret /\ s.auth = prog.auth
  BY <1>1, CountedLock, Zenon
<1> HIDE DEF s
<1>5. ReadTo(a, line) /\ prog'.at = "idle" /\ Like(prog', s)
  BY <1>1, <1>2, <1>3, <1>4, ReadStays DEF s
<1> QED BY <1>1, <1>4, <1>5 DEF Like

\* A reset sent again leaves the program where it is.
LEMMA ResetAgainDoes ==
  ASSUME Typed, ResetAgain
  PROVE  /\ prog.at \in Resets
         /\ \E a \in Answers :
              /\ ReadTo(a, line) /\ prog'.at = prog.at /\ prog'.rests = prog.rests
              /\ Like(prog', prog)
<1>1. prog.at \in Resets /\ prog.at \in Awaits /\ prog \in ProgType /\ prog.tries > 1
  BY DEF ResetAgain, Awaits, Typed
<1>2. NoAnswer \in Answers /\ Reads(NoAnswer, line) /\ UNCHANGED <<dead, sensor>>
  BY PlainRead DEF ResetAgain, NoAnswer, Answers
<1>3. Command(prog.at) = "reset" /\ prog.at # "off"
  BY <1>1 DEF Command, Resets
<1>4. line' = Append(line, "reset") /\ prog' = [prog EXCEPT !.tries = @ - 1]
  BY DEF ResetAgain
<1>5. prog' \in ProgType /\ prog'.at = prog.at /\ prog'.rests = prog.rests /\ Like(prog', prog)
  BY <1>1, <1>4, SMTT(30) DEF ProgType, Like
<1> QED BY <1>1, <1>2, <1>3, <1>4, <1>5 DEF ReadTo

\* The outcomes of a long touch that a read of its reset can have.
TouchEnds(a) ==
  /\ ReadTo(a, Sent(a))
  /\ \/ prog'.at = "touchReset" /\ prog'.rests <= prog.rests + 1 /\ Like(prog', prog)
     \/ prog'.at = "idle" /\ Like(prog', prog)
     \/ /\ prog.rests >= TouchResets /\ prog.locked /\ ~prog.auth
        /\ prog'.at = "loop" /\ prog'.call = "validate" /\ prog'.last = 0
        /\ ~prog'.ret /\ prog'.locked /\ ~prog'.auth
     \/ ~prog.locked /\ ~prog.auth /\ prog'.at = "userNum" /\ Like(prog', NoProg)
     \/ /\ prog.rests >= TouchResets /\ prog.locked /\ prog.auth
        /\ prog'.at = "erase" /\ Like(prog', prog)

\* The outcomes of the wait between two captures.
RestEnds(a) ==
  /\ ReadTo(a, Sent(a))
  /\ Like(prog', prog)
  /\ \/ prog'.at = "restReset" /\ prog'.rests <= prog.rests + 1
     \/ prog.rests >= Debounce /\ prog'.at = "loop"

\* The five ways on from the reset of a long touch.
LEMMA TouchResetDoes ==
  ASSUME Typed, prog.at = "touchReset", NEW a \in Answers, Takes(a), GaveUp(a),
         AfterTouch(Sent(a)), UNCHANGED <<dead, sensor>>
  PROVE  TouchEnds(a)
<1> DEFINE sent == Sent(a)
<1>1. prog.at \in Awaits /\ prog \in ProgType /\ {"touchReset", "userNum", "erase"} \subseteq Awaits
  BY DEF Awaits, Resets, Typed
<1>2. Reads(a, sent)
  BY DEF Reads
<1>3. CASE AskFrom(sent, Rested(TouchResets), "touchReset")
  <2>1. /\ Rested(TouchResets) \in ProgType /\ Like(Rested(TouchResets), prog)
        /\ Rested(TouchResets).rests <= prog.rests + 1
    BY <1>1 DEF Rested, ProgType, Like
  <2>2. /\ ReadTo(a, sent) /\ prog'.at = "touchReset"
        /\ prog'.rests = Rested(TouchResets).rests /\ Like(prog', Rested(TouchResets))
    BY <1>1, <1>2, <1>3, <2>1, ReadAsks
  <2> QED BY <2>1, <2>2 DEF TouchEnds, Like
<1>4. CASE prog' = [prog EXCEPT !.at = "idle", !.tries = 0] /\ line' = sent
  <2>1. prog' \in ProgType /\ prog'.at = "idle" /\ Like(prog', prog)
    <3>1. prog \in ProgType /\ prog' = [prog EXCEPT !.at = "idle", !.tries = 0]
      BY <1>1, <1>4
    <3>2. "idle" \in Points /\ 0 \in 0..3 /\ 0 \in Nat
      BY DEF Points
    <3> QED BY ONLY <3>1, <3>2 DEF ProgType, Like
  <2>2. "idle" \notin Awaits
    BY DEF Awaits, Resets
  <2> QED BY <1>1, <1>2, <1>4, <2>1, <2>2 DEF TouchEnds, ReadTo
<1>5. CASE /\ prog.rests >= TouchResets /\ prog.locked /\ ~prog.auth
           /\ prog' = [NoProg EXCEPT !.at = "loop", !.call = "validate", !.locked = TRUE]
           /\ line' = sent
  <2>1. /\ prog' \in ProgType /\ prog'.at = "loop" /\ prog'.call = "validate" /\ prog'.last = 0
        /\ ~prog'.ret /\ prog'.locked /\ ~prog'.auth
    BY <1>5, NoProgIs, NoProgValidate
  <2>2. "loop" \notin Awaits
    BY DEF Awaits, Resets
  <2> QED BY <1>1, <1>2, <1>5, <2>1, <2>2 DEF TouchEnds, ReadTo
<1>6. CASE ~prog.locked /\ ~prog.auth /\ AskFrom(sent, NoProg, "userNum")
  BY <1>1, <1>2, <1>6, NoProgIs, ReadAsks DEF TouchEnds
<1>7. CASE /\ prog.rests >= TouchResets /\ prog.locked /\ prog.auth
           /\ AskFrom(sent, prog, "erase")
  BY <1>1, <1>2, <1>7, ReadAsks DEF TouchEnds
<1> QED BY <1>3, <1>4, <1>5, <1>6, <1>7 DEF AfterTouch

\* The two ways on from the reset between two captures.
LEMMA RestResetDoes ==
  ASSUME Typed, prog.at = "restReset", NEW a \in Answers, Takes(a), GaveUp(a),
         AfterRest(Sent(a)), UNCHANGED <<dead, sensor>>
  PROVE  RestEnds(a)
<1> DEFINE sent == Sent(a)
<1>1. prog.at \in Awaits /\ prog \in ProgType /\ "restReset" \in Awaits
  BY DEF Awaits, Resets, Typed
<1>2. Reads(a, sent)
  BY DEF Reads
<1>3. CASE AskFrom(sent, Rested(Debounce), "restReset")
  <2>1. /\ Rested(Debounce) \in ProgType /\ Like(Rested(Debounce), prog)
        /\ Rested(Debounce).rests <= prog.rests + 1
    BY <1>1 DEF Rested, ProgType, Like
  <2>2. /\ ReadTo(a, sent) /\ prog'.at = "restReset"
        /\ prog'.rests = Rested(Debounce).rests /\ Like(prog', Rested(Debounce))
    BY <1>1, <1>2, <1>3, <2>1, ReadAsks
  <2> QED BY <2>1, <2>2 DEF RestEnds, Like
<1>4. CASE /\ prog.rests >= Debounce
           /\ prog' = [prog EXCEPT !.at = "loop", !.tries = 0, !.rests = 0]
           /\ line' = sent
  <2>1. prog' \in ProgType /\ prog'.at = "loop" /\ Like(prog', prog)
    <3>1. prog \in ProgType /\ prog' = [prog EXCEPT !.at = "loop", !.tries = 0, !.rests = 0]
      BY <1>1, <1>4
    <3>2. "loop" \in Points /\ 0 \in 0..3 /\ 0 \in Nat
      BY DEF Points
    <3> QED BY ONLY <3>1, <3>2 DEF ProgType, Like
  <2>2. "loop" \notin Awaits
    BY DEF Awaits, Resets
  <2> QED BY <1>1, <1>2, <1>4, <2>1, <2>2 DEF RestEnds, ReadTo
<1> QED BY <1>3, <1>4 DEF AfterRest

\* What the callers of FPS_resetSensor do when it returns.
LEMMA ResetEndsDoes ==
  ASSUME Typed, ResetEnds
  PROVE  \/ prog.at = "bootReset" /\ Off("none")
         \/ /\ prog.at = "lastReset"
            /\ Off(IF prog.ret THEN "enrolled" ELSE "failed")
         \/ /\ prog.at = "bootReset"
            /\ \E a \in Answers : ReadTo(a, line) /\ prog'.at = "bootCount" /\ Like(prog', prog)
         \/ prog.at = "touchReset" /\ \E a \in Answers : TouchEnds(a)
         \/ prog.at = "restReset" /\ \E a \in Answers : RestEnds(a)
<1>1. prog.at \in Resets /\ prog.at \in Awaits /\ prog \in ProgType /\ "bootCount" \in Awaits
  BY DEF ResetEnds, Awaits, Typed
<1>2. PICK a \in Answers : ResetEnds!2!(a)
  BY DEF ResetEnds
<1>3. CASE prog.at = "bootReset" /\ a.ok
  <2>1. AskFrom(line, prog, "bootCount") /\ Reads(a, line) /\ UNCHANGED <<dead, sensor>>
    BY <1>2, <1>3, PlainRead DEF Sent
  <2> QED BY <1>1, <1>3, <2>1, ReadAsks
<1>4. CASE prog.at = "bootReset" /\ ~a.ok
  BY <1>2, <1>4
<1>5. CASE prog.at = "touchReset"
  BY <1>2, <1>5, TouchResetDoes
<1>6. CASE prog.at = "restReset"
  BY <1>2, <1>6, RestResetDoes
<1>7. CASE prog.at = "lastReset"
  BY <1>2, <1>7
<1> QED BY <1>1, <1>3, <1>4, <1>5, <1>6, <1>7 DEF Resets

\* The counters of captures and failures count up.
LEMMA CountersUp ==
  ASSUME NEW s \in ProgType
  PROVE  s.n + 1 \in Nat /\ s.fails + 1 \in Nat
BY DEF ProgType

\* Updates that keep what Like compares.
LEMMA Updates ==
  ASSUME NEW s \in ProgType
  PROVE  /\ LET q == [s EXCEPT !.rests = 0]
            IN  q \in ProgType /\ Like(q, s) /\ q.rests = 0
         /\ \A k \in Nat : LET q == [s EXCEPT !.fpId = k] IN q \in ProgType /\ Like(q, s)
BY DEF ProgType, Like

\* The updates of a capture for an enrolment.
LEMMA CaptureUpdates ==
  ASSUME NEW s \in ProgType
  PROVE  /\ LET q == [s EXCEPT !.n = @ + 1, !.fails = 0, !.rests = 0]
            IN  q \in ProgType /\ Like(q, s) /\ q.rests = 0
         /\ LET q == [s EXCEPT !.fails = @ + 1, !.rests = 0]
            IN  q \in ProgType /\ Like(q, s) /\ q.rests = 0
<1>1. ASSUME NEW k \in Nat
      PROVE  /\ LET q == [s EXCEPT !.n = k, !.fails = 0, !.rests = 0]
                IN  q \in ProgType /\ Like(q, s) /\ q.rests = 0
             /\ LET q == [s EXCEPT !.fails = k, !.rests = 0]
                IN  q \in ProgType /\ Like(q, s) /\ q.rests = 0
  BY DEF ProgType, Like
<1> QED BY <1>1, CountersUp

\* The update of a match that found a finger.
LEMMA MatchUpdates ==
  ASSUME NEW s \in ProgType, NEW l \in 0..1
  PROVE  LET q == [s EXCEPT !.n = @ + 1, !.last = l, !.rests = 0]
         IN  /\ q \in ProgType /\ q.rests = 0 /\ q.last = l /\ q.call = s.call
             /\ q.ret = s.ret /\ q.locked = s.locked /\ q.auth = s.auth
<1>1. ASSUME NEW k \in Nat
      PROVE  LET q == [s EXCEPT !.n = k, !.last = l, !.rests = 0]
             IN  /\ q \in ProgType /\ q.rests = 0 /\ q.last = l /\ q.call = s.call
                 /\ q.ret = s.ret /\ q.locked = s.locked /\ q.auth = s.auth
  BY DEF ProgType
<1> QED BY <1>1, CountersUp

\* The update of a match that found none.
LEMMA MismatchUpdates ==
  ASSUME NEW s \in ProgType
  PROVE  LET q == [s EXCEPT !.fails = @ + 1, !.last = 0, !.rests = 0]
         IN  /\ q \in ProgType /\ q.rests = 0 /\ q.last = 0 /\ q.call = s.call
             /\ q.ret = s.ret /\ q.locked = s.locked /\ q.auth = s.auth
<1>1. ASSUME NEW k \in Nat
      PROVE  LET q == [s EXCEPT !.fails = k, !.last = 0, !.rests = 0]
             IN  /\ q \in ProgType /\ q.rests = 0 /\ q.last = 0 /\ q.call = s.call
                 /\ q.ret = s.ret /\ q.locked = s.locked /\ q.auth = s.auth
  <2>1. 0 \in 0..1 /\ 0 \in Nat
    OBVIOUS
  <2> QED BY <2>1 DEF ProgType
<1> QED BY <1>1, CountersUp

\* The start of an enrolment, and of its confirmation.
LEMMA CallUpdates ==
  ASSUME NEW s \in ProgType
  PROVE  /\ LET q == [s EXCEPT !.call = "enroll"]
            IN  /\ q \in ProgType /\ q.call = "enroll" /\ q.last = s.last
                /\ q.ret = s.ret /\ q.locked = s.locked /\ q.auth = s.auth
         /\ LET q == [s EXCEPT !.call = "verify", !.n = 0, !.fails = 0]
            IN  /\ q \in ProgType /\ q.call = "verify" /\ q.last = s.last
                /\ q.ret = s.ret /\ q.locked = s.locked /\ q.auth = s.auth
BY DEF ProgType, Calls

\* The result of an enrolment is set.
LEMMA RetUpdates ==
  ASSUME NEW s \in ProgType, NEW b \in BOOLEAN
  PROVE  LET q == [s EXCEPT !.ret = b]
         IN  /\ q \in ProgType /\ q.ret = b /\ q.last = s.last
             /\ q.call = s.call /\ q.locked = s.locked /\ q.auth = s.auth
BY DEF ProgType

\* A touch begins with a reset; one that follows a validation remembers it.
LEMMA TouchDoes ==
  ASSUME Typed, Touch
  PROVE  /\ prog.at = "idle" /\ SendTo
         /\ prog'.at = "touchReset" /\ prog'.rests = 0 /\ Like(prog', prog)
         /\ prog.auth => hist'.matched = hist.matched
<1>1. prog.at = "idle" /\ prog \in ProgType /\ {"touchReset"} \subseteq Awaits /\ hist \in HistType
  BY DEF Touch, Awaits, Resets, Typed
<1> DEFINE s == [prog EXCEPT !.rests = 0]
<1>2. s \in ProgType /\ Like(s, prog) /\ s.rests = 0
  BY <1>1, Updates
<1>3. Ask(s, "touchReset")
  BY DEF Touch
<1> HIDE DEF s
<1>4. /\ prog' \in ProgType /\ prog'.at = "touchReset" /\ prog'.rests = s.rests
      /\ Like(prog', s) /\ line' = Append(line, Command("touchReset"))
  BY <1>1, <1>2, <1>3, Asks DEF Ask
<1>5. /\ hist' \in HistType /\ hist'.timeouts = hist.timeouts
      /\ hist'.gaveUp = hist.gaveUp /\ hist'.result = hist.result
      /\ prog.auth => hist'.matched = hist.matched
  BY <1>1 DEF Touch, HistType, ProgType
<1>6. UNCHANGED <<rx, dead, sensor>>
  BY DEF Touch
<1>7. Like(prog', prog)
  BY <1>2, <1>4 DEF Like
<1> QED BY <1>1, <1>2, <1>4, <1>5, <1>6, <1>7 DEF SendTo

\* The next capture of a loop.
LEMMA PressDoes ==
  ASSUME Typed, Press
  PROVE  /\ prog.at = "loop" /\ SendTo
         /\ prog'.at = "capture" /\ Like(prog', prog) /\ UNCHANGED hist
<1>1. prog.at = "loop" /\ prog \in ProgType /\ "capture" \in Awaits
  BY DEF Press, Awaits, Typed
<1> QED BY <1>1, SendAsks DEF Press

\* After a capture comes a match, or the wait for the finger to be lifted.
LEMMA CaptureDoes ==
  ASSUME Typed, Capture
  PROVE  /\ prog.at = "capture"
         /\ \E a \in Answers :
              /\ ReadTo(a, line) /\ Like(prog', prog)
              /\ \/ prog'.at = "restReset" /\ prog'.rests = 0
                 \/ prog.call # "enroll" /\ prog'.at = "match"
<1>1. /\ prog.at = "capture" /\ prog.at \in Awaits /\ prog \in ProgType
      /\ "restReset" \in Awaits /\ "match" \in Awaits
  BY DEF Capture, Awaits, Resets, Typed
<1>2. PICK a \in Answers : Capture!2!(a)
  BY DEF Capture
<1>3. Reads(a, line) /\ UNCHANGED <<dead, sensor>>
  BY <1>2, PlainRead DEF Capture
<1>4. CASE prog.call = "enroll" /\ a.ok
  <2> DEFINE s == [prog EXCEPT !.n = @ + 1, !.fails = 0, !.rests = 0]
  <2>1. s \in ProgType /\ Like(s, prog) /\ s.rests = 0
    BY <1>1, CaptureUpdates
  <2>2. AskFrom(line, s, "restReset")
    BY <1>2, <1>4 DEF Ask
  <2> HIDE DEF s
  <2>3. /\ ReadTo(a, line) /\ prog'.at = "restReset"
        /\ prog'.rests = s.rests /\ Like(prog', s)
    BY <1>1, <1>3, <2>1, <2>2, ReadAsks
  <2> QED BY <1>1, <2>1, <2>3 DEF Like
<1>5. CASE prog.call = "enroll" /\ ~a.ok
  <2> DEFINE s == [prog EXCEPT !.fails = @ + 1, !.rests = 0]
  <2>1. s \in ProgType /\ Like(s, prog) /\ s.rests = 0
    BY <1>1, CaptureUpdates
  <2>2. AskFrom(line, s, "restReset")
    BY <1>2, <1>5 DEF Ask
  <2> HIDE DEF s
  <2>3. /\ ReadTo(a, line) /\ prog'.at = "restReset"
        /\ prog'.rests = s.rests /\ Like(prog', s)
    BY <1>1, <1>3, <2>1, <2>2, ReadAsks
  <2> QED BY <1>1, <2>1, <2>3 DEF Like
<1>6. CASE prog.call # "enroll" /\ a.ok
  <2>1. AskFrom(line, prog, "match")
    BY <1>2, <1>6 DEF Ask
  <2> QED BY <1>1, <1>3, <1>6, <2>1, ReadAsks
<1>7. CASE prog.call # "enroll" /\ ~a.ok
  <2> DEFINE s == [prog EXCEPT !.rests = 0]
  <2>1. s \in ProgType /\ Like(s, prog) /\ s.rests = 0
    BY <1>1, Updates
  <2>2. AskFrom(line, s, "restReset")
    BY <1>2, <1>7 DEF Ask
  <2> HIDE DEF s
  <2>3. /\ ReadTo(a, line) /\ prog'.at = "restReset"
        /\ prog'.rests = s.rests /\ Like(prog', s)
    BY <1>1, <1>3, <2>1, <2>2, ReadAsks
  <2> QED BY <1>1, <2>1, <2>3 DEF Like
<1> QED BY <1>4, <1>5, <1>6, <1>7

\* A match keeps in last what the answer says.
LEMMA MatchDoes ==
  ASSUME Typed, Match
  PROVE  /\ prog.at = "match"
         /\ \E a \in Answers :
              /\ ReadTo(a, line) /\ prog'.at = "restReset" /\ prog'.rests = 0
              /\ prog'.last = a.n /\ prog'.call = prog.call
              /\ prog'.ret = prog.ret /\ prog'.locked = prog.locked /\ prog'.auth = prog.auth
<1>1. /\ prog.at = "match" /\ prog.at \in Awaits /\ prog \in ProgType
      /\ "restReset" \in Awaits
  BY DEF Match, Awaits, Resets, Typed
<1>2. PICK a \in Answers : Match!2!(a)
  BY DEF Match
<1>3. Reads(a, line) /\ UNCHANGED <<dead, sensor>> /\ a.n \in 0..1 /\ MatchedIndex(a) = a.n
  BY <1>2, PlainRead DEF Match, Answers, MatchedIndex
<1>4. CASE a.n > 0
  <2> DEFINE s == [prog EXCEPT !.n = @ + 1, !.last = MatchedIndex(a), !.rests = 0]
  <2>1. /\ s \in ProgType /\ s.rests = 0 /\ s.last = a.n /\ s.call = prog.call
        /\ s.ret = prog.ret /\ s.locked = prog.locked /\ s.auth = prog.auth
    <3>1. ASSUME NEW l \in 0..1, l = a.n
          PROVE  LET q == [prog EXCEPT !.n = @ + 1, !.last = l, !.rests = 0]
                 IN  /\ q \in ProgType /\ q.rests = 0 /\ q.last = l /\ q.call = prog.call
                     /\ q.ret = prog.ret /\ q.locked = prog.locked /\ q.auth = prog.auth
      BY <1>1, MatchUpdates
    <3> QED BY <1>3, <3>1
  <2>2. AskFrom(line, s, "restReset")
    BY <1>2, <1>3, <1>4 DEF Ask
  <2> HIDE DEF s
  <2>3. /\ ReadTo(a, line) /\ prog'.at = "restReset"
        /\ prog'.rests = s.rests /\ Like(prog', s)
    BY <1>1, <1>3, <2>1, <2>2, ReadAsks
  <2> QED BY <1>1, <2>1, <2>3 DEF Like
<1>5. CASE ~(a.n > 0)
  <2> DEFINE s == [prog EXCEPT !.fails = @ + 1, !.last = 0, !.rests = 0]
  <2>1. /\ s \in ProgType /\ s.rests = 0 /\ s.last = 0 /\ s.call = prog.call
        /\ s.ret = prog.ret /\ s.locked = prog.locked /\ s.auth = prog.auth
    BY <1>1, MismatchUpdates
  <2>2. AskFrom(line, s, "restReset") /\ a.n = 0
    BY <1>2, <1>3, <1>5 DEF Ask
  <2> HIDE DEF s
  <2>3. /\ ReadTo(a, line) /\ prog'.at = "restReset"
        /\ prog'.rests = s.rests /\ Like(prog', s)
    BY <1>1, <1>3, <2>1, <2>2, ReadAsks
  <2> QED BY <1>1, <2>1, <2>2, <2>3 DEF Like
<1> QED BY <1>4, <1>5

\* A validation ends in an authorisation or in a shutdown.
LEMMA ValidatedDoes ==
  ASSUME Typed, Validated
  PROVE  /\ prog.at = "loop" /\ prog.call = "validate"
         /\ \/ Off("none")
            \/ /\ SendTo /\ prog.last > 0 /\ UNCHANGED hist
               /\ prog'.at = "idle" /\ prog'.call = "none" /\ prog'.last = 0
               /\ ~prog'.ret /\ prog'.locked /\ prog'.auth
<1>1. prog.at = "loop" /\ prog.call = "validate" /\ hist \in HistType /\ "idle" \notin Awaits
  BY DEF Validated, Typed, Awaits, Resets
<1>2. CASE prog.last > 0
  <2> DEFINE s == [NoProg EXCEPT !.locked = TRUE, !.auth = TRUE]
  <2>1. /\ s \in ProgType /\ s.call = "none" /\ s.last = 0 /\ ~s.ret
        /\ s.locked /\ s.auth
    BY NoProgIs, NoProgAuth
  <2>2. Stay(s, "idle") /\ UNCHANGED <<rx, dead, sensor, hist>>
    BY <1>2 DEF Validated
  <2> HIDE DEF s
  <2>3. prog' \in ProgType /\ prog'.at = "idle" /\ Like(prog', s) /\ line' = line
    BY <2>1, <2>2, Stays
  <2> QED BY <1>1, <1>2, <2>1, <2>2, <2>3 DEF SendTo, Like
<1>3. CASE ~(prog.last > 0)
  BY <1>1, <1>3 DEF Validated
<1> QED BY <1>2, <1>3

\* An enrolment begins when no finger is counted.
LEMMA UserNumDoes ==
  ASSUME Typed, UserNum
  PROVE  /\ prog.at = "userNum"
         /\ \/ Off("none")
            \/ \E a \in Answers :
                 /\ ReadTo(a, line) /\ prog'.at = "loop" /\ prog'.call = "enroll"
                 /\ prog'.last = prog.last /\ prog'.ret = prog.ret
                 /\ prog'.locked = prog.locked /\ prog'.auth = prog.auth
<1>1. prog.at = "userNum" /\ prog.at \in Awaits /\ prog \in ProgType
  BY DEF UserNum, Awaits, Typed
<1>2. PICK a \in Answers : UserNum!2!(a)
  BY DEF UserNum
<1>3. CASE ~(a.ok /\ a.n > 0)
  <2> DEFINE s == [prog EXCEPT !.call = "enroll"]
  <2>1. /\ s \in ProgType /\ s.call = "enroll" /\ s.last = prog.last
        /\ s.ret = prog.ret /\ s.locked = prog.locked /\ s.auth = prog.auth
    BY <1>1, CallUpdates
  <2>2. Stay(s, "loop") /\ Reads(a, line) /\ UNCHANGED <<dead, sensor>>
    BY <1>2, <1>3, PlainRead
  <2> HIDE DEF s
  <2>3. ReadTo(a, line) /\ prog'.at = "loop" /\ Like(prog', s)
    BY <1>1, <2>1, <2>2, ReadStays
  <2> QED BY <1>1, <2>1, <2>3 DEF Like
<1> QED BY <1>1, <1>2, <1>3

\* The captures of an enrolment are enough, or too few.
LEMMA CapturedDoes ==
  ASSUME Typed, Captured
  PROVE  /\ prog.at = "loop" /\ prog.call = "enroll" /\ SendTo /\ UNCHANGED hist
         /\ prog'.at \in {"lastReset", "preCount"} /\ Like(prog', prog)
<1>1. /\ prog.at = "loop" /\ prog.call = "enroll" /\ prog \in ProgType
      /\ "lastReset" \in Awaits /\ "preCount" \in Awaits
  BY DEF Captured, Typed, Awaits, Resets
<1>2. Ask(prog, "lastReset") \/ Ask(prog, "preCount")
  BY DEF Captured
<1> QED BY <1>1, <1>2, SendAsks DEF Captured

\* The count before an enrolment.
LEMMA PreCountDoes ==
  ASSUME Typed, PreCount
  PROVE  /\ prog.at = "preCount"
         /\ \E a \in Answers : ReadTo(a, line) /\ prog'.at = "enroll" /\ Like(prog', prog)
<1>1. prog.at = "preCount" /\ prog.at \in Awaits /\ prog \in ProgType /\ "enroll" \in Awaits
  BY DEF PreCount, Awaits, Typed
<1>2. PICK a \in Answers : PreCount!2!(a)
  BY DEF PreCount
<1> DEFINE k == IF a.ok THEN a.n + 1 ELSE 1
           s == [prog EXCEPT !.fpId = k]
<1>3. k \in Nat
  BY DEF Answers
<1> HIDE DEF k
<1>4. s \in ProgType /\ Like(s, prog)
  BY <1>1, <1>3, Updates
<1>5. AskFrom(line, s, "enroll") /\ Reads(a, line) /\ UNCHANGED <<dead, sensor>>
  BY <1>2, PlainRead DEF Ask, PreCount, k
<1> HIDE DEF s
<1>6. ReadTo(a, line) /\ prog'.at = "enroll" /\ Like(prog', s)
  BY <1>1, <1>4, <1>5, ReadAsks
<1> QED BY <1>1, <1>4, <1>6 DEF Like

\* The enrolment itself; its result is the only thing it sets.
LEMMA EnrollDoes ==
  ASSUME Typed, Enroll
  PROVE  /\ prog.at = "enroll"
         /\ \E a \in Answers :
              /\ ReadTo(a, line) /\ prog'.at = "postCount" /\ prog'.call = prog.call
              /\ prog'.last = prog.last
              /\ prog'.locked = prog.locked /\ prog'.auth = prog.auth
<1>1. prog.at = "enroll" /\ prog.at \in Awaits /\ prog \in ProgType /\ "postCount" \in Awaits
  BY DEF Enroll, Awaits, Typed
<1>2. PICK a \in Answers : Takes(a) /\ Ask([prog EXCEPT !.ret = a.ok], "postCount")
  BY DEF Enroll
<1> DEFINE s == [prog EXCEPT !.ret = a.ok]
<1>3. /\ s \in ProgType /\ s.call = prog.call /\ s.last = prog.last
      /\ s.locked = prog.locked /\ s.auth = prog.auth
  <2>1. a.ok \in BOOLEAN
    BY DEF Answers
  <2> QED BY <1>1, <2>1, RetUpdates
<1>4. AskFrom(line, s, "postCount") /\ Reads(a, line) /\ UNCHANGED <<dead, sensor>>
  BY <1>2, PlainRead DEF Ask, Enroll
<1> HIDE DEF s
<1>5. ReadTo(a, line) /\ prog'.at = "postCount" /\ Like(prog', s)
  BY <1>1, <1>3, <1>4, ReadAsks
<1> QED BY <1>1, <1>3, <1>5 DEF Like

\* A count that is not the expected one ends the enrolment as failed.
LEMMA PostCountDoes ==
  ASSUME Typed, PostCount
  PROVE  /\ prog.at = "postCount"
         /\ \E a \in Answers :
              /\ ReadTo(a, line) /\ prog'.last = prog.last
              /\ prog'.locked = prog.locked /\ prog'.auth = prog.auth
              /\ \/ prog'.at = "loop" /\ prog'.call = "verify"
                 \/ prog'.at = "lastReset" /\ prog'.call = prog.call /\ ~prog'.ret
<1>1. prog.at = "postCount" /\ prog.at \in Awaits /\ prog \in ProgType /\ "lastReset" \in Awaits
  BY DEF PostCount, Awaits, Resets, Typed
<1>2. PICK a \in Answers : PostCount!2!(a)
  BY DEF PostCount
<1>3. Reads(a, line) /\ UNCHANGED <<dead, sensor>>
  BY <1>2, PlainRead DEF PostCount
<1>4. CASE (IF a.ok THEN a.n ELSE 0) = prog.fpId
  <2> DEFINE s == [prog EXCEPT !.call = "verify", !.n = 0, !.fails = 0]
  <2>1. /\ s \in ProgType /\ s.call = "verify" /\ s.last = prog.last
        /\ s.locked = prog.locked /\ s.auth = prog.auth
    BY <1>1, CallUpdates
  <2>2. Stay(s, "loop")
    BY <1>2, <1>4
  <2> HIDE DEF s
  <2>3. ReadTo(a, line) /\ prog'.at = "loop" /\ Like(prog', s)
    BY <1>1, <1>3, <2>1, <2>2, ReadStays
  <2> QED BY <1>1, <2>1, <2>3 DEF Like
<1>5. CASE (IF a.ok THEN a.n ELSE 0) # prog.fpId
  <2> DEFINE s == [prog EXCEPT !.ret = FALSE]
  <2>1. /\ s \in ProgType /\ s.call = prog.call /\ s.last = prog.last /\ ~s.ret
        /\ s.locked = prog.locked /\ s.auth = prog.auth
    BY <1>1, RetUpdates
  <2>2. AskFrom(line, s, "lastReset")
    BY <1>2, <1>5 DEF Ask
  <2> HIDE DEF s
  <2>3. ReadTo(a, line) /\ prog'.at = "lastReset" /\ Like(prog', s)
    BY <1>1, <1>3, <2>1, <2>2, ReadAsks
  <2> QED BY <1>1, <2>1, <2>3 DEF Like
<1> QED BY <1>4, <1>5

\* A confirmation without a match erases what was enrolled.
LEMMA VerifiedDoes ==
  ASSUME Typed, Verified
  PROVE  /\ prog.at = "loop" /\ prog.call = "verify" /\ SendTo /\ UNCHANGED hist
         /\ Like(prog', prog)
         /\ \/ prog.last > 0 /\ prog'.at = "lastReset"
            \/ ~(prog.last > 0) /\ prog'.at = "eraseBad"
<1>1. /\ prog.at = "loop" /\ prog.call = "verify" /\ prog \in ProgType
      /\ "lastReset" \in Awaits /\ "eraseBad" \in Awaits
  BY DEF Verified, Typed, Awaits, Resets
<1> QED BY <1>1, SendAsks DEF Verified

\* After that erase the enrolment has failed.
LEMMA EraseBadDoes ==
  ASSUME Typed, EraseBad
  PROVE  /\ prog.at = "eraseBad"
         /\ \E a \in Answers :
              /\ ReadTo(a, line) /\ prog'.at = "lastReset" /\ ~prog'.ret
              /\ prog'.call = prog.call /\ prog'.last = prog.last
              /\ prog'.locked = prog.locked /\ prog'.auth = prog.auth
<1>1. prog.at = "eraseBad" /\ prog.at \in Awaits /\ prog \in ProgType /\ "lastReset" \in Awaits
  BY DEF EraseBad, Awaits, Resets, Typed
<1>2. PICK a \in Answers : Takes(a) /\ Ask([prog EXCEPT !.ret = FALSE], "lastReset")
  BY DEF EraseBad
<1> DEFINE s == [prog EXCEPT !.ret = FALSE]
<1>3. /\ s \in ProgType /\ s.call = prog.call /\ s.last = prog.last /\ ~s.ret
      /\ s.locked = prog.locked /\ s.auth = prog.auth
  BY <1>1, RetUpdates
<1>4. AskFrom(line, s, "lastReset") /\ Reads(a, line) /\ UNCHANGED <<dead, sensor>>
  BY <1>2, PlainRead DEF Ask, EraseBad
<1> HIDE DEF s
<1>5. ReadTo(a, line) /\ prog'.at = "lastReset" /\ Like(prog', s)
  BY <1>1, <1>3, <1>4, ReadAsks
<1> QED BY <1>1, <1>3, <1>5 DEF Like

\* The erase of an unlock is followed by a count.
LEMMA EraseDoes ==
  ASSUME Typed, Erase
  PROVE  /\ prog.at = "erase"
         /\ \E a \in Answers : ReadTo(a, line) /\ prog'.at = "eraseCount" /\ Like(prog', prog)
<1>1. prog.at = "erase" /\ prog.at \in Awaits /\ prog \in ProgType /\ "eraseCount" \in Awaits
  BY DEF Erase, Awaits, Typed
<1>2. PICK a \in Answers : Takes(a) /\ Ask(prog, "eraseCount")
  BY DEF Erase
<1>3. AskFrom(line, prog, "eraseCount") /\ Reads(a, line) /\ UNCHANGED <<dead, sensor>>
  BY <1>2, PlainRead DEF Ask, Erase
<1> QED BY <1>1, <1>3, ReadAsks

\* That count is the lock state, and the authorisation is used up.
LEMMA EraseCountDoes ==
  ASSUME Typed, EraseCount
  PROVE  /\ prog.at = "eraseCount"
         /\ \E a \in Answers :
              /\ ReadTo(a, line) /\ prog'.at = "idle"
              /\ prog'.locked = (a.ok /\ a.n > 0)
              /\ prog'.call = "none" /\ prog'.last = 0 /\ ~prog'.ret /\ ~prog'.auth
<1>1. prog.at = "eraseCount" /\ prog.at \in Awaits
  BY DEF EraseCount, Awaits
<1>2. PICK a \in Answers : Takes(a) /\ Stay([NoProg EXCEPT !.locked = a.ok /\ a.n > 0], "idle")
  BY DEF EraseCount
<1>3. Reads(a, line) /\ UNCHANGED <<dead, sensor>>
  BY <1>2, PlainRead DEF EraseCount
<1> DEFINE s == [NoProg EXCEPT !.locked = a.ok /\ a.n > 0]
<1>4. /\ s \in ProgType /\ s.locked = (a.ok /\ a.n > 0)
      /\ s.call = "none" /\ s.last = 0 /\ ~s.ret /\ ~s.auth
  BY NoProgIs, CountedLock
<1> HIDE DEF s
<1>5. ReadTo(a, line) /\ prog'.at = "idle" /\ Like(prog', s)
  BY <1>1, <1>2, <1>3, <1>4, ReadStays DEF s
<1> QED BY <1>1, <1>4, <1>5 DEF Like

(***************************************************************************)
(* Types, and what is left over.                                           *)
(***************************************************************************)
\* Power-up starts from an empty line and an empty queue.
LEMMA PowerUpDoes ==
  ASSUME Typed, OffBlank, PowerUp
  PROVE  /\ prog.at = "off" /\ prog'.at = "level" /\ Like(prog', prog) /\ prog' \in ProgType
         /\ line' = <<"level">> /\ rx' = <<>> /\ UNCHANGED <<dead, sensor>>
         /\ hist' = NoHistory
<1>1. prog.at = "off" /\ line = <<>> /\ rx = <<>> /\ prog \in ProgType /\ "level" \in Awaits
  BY DEF PowerUp, OffBlank, Typed, Awaits
<1>2. Ask(prog, "level") /\ UNCHANGED <<rx, dead, sensor>> /\ hist' = NoHistory
  BY DEF PowerUp
<1>3. /\ prog' \in ProgType /\ prog'.at = "level" /\ Like(prog', prog)
      /\ line' = Append(line, Command("level"))
  BY <1>1, <1>2, Asks DEF Ask
<1>4. Command("level") = "level"
  BY DEF Command, Resets
<1>5. Append(<<>>, "level") = <<"level">>
  OBVIOUS
<1> QED BY <1>1, <1>2, <1>3, <1>4, <1>5

\* A read keeps the base: what it takes off or counts pays for what is sent.
LEMMA ReadToBase ==
  ASSUME Base, NEW a \in Answers, NEW sent, ReadTo(a, sent)
  PROVE  Base' /\ OffBlank'
<1>1. /\ rx' \in Seq(Answers) /\ Len(rx') <= Len(rx) /\ hist' \in HistType
      /\ sent \in Seq(Commands) /\ prog.at \in Awaits /\ prog' \in ProgType
      /\ UNCHANGED <<dead, sensor>>
  BY ReadTypes DEF ReadTo, Base
<1>2. Len(sent) + Len(rx') <= Lag'
  BY ReadLeaves DEF ReadTo
<1>3. /\ line' \in Seq(Commands)
      /\ Len(line') <= Len(sent) + (IF prog'.at \in Awaits THEN 1 ELSE 0)
  BY <1>1, CommandTypes, AppendIs DEF ReadTo
<1>4. Typed'
  BY <1>1, <1>3, LinkAssumption DEF Typed, Base
<1>5. Lag' \in Nat /\ Len(sent) \in Nat /\ Len(rx') \in Nat /\ Len(line') \in Nat
  BY <1>1, <1>3, LinkAssumption, SMTT(30) DEF Lag, HistType
<1>6. LeftByTimeouts'
  BY <1>2, <1>3, <1>5 DEF LeftByTimeouts, Lag
<1> QED BY <1>4, <1>6 DEF Base, ReadTo, OffBlank

\* A command sent without a read is the one that is waited for.
LEMMA SendToBase ==
  ASSUME Base, SendTo
  PROVE  Base' /\ OffBlank'
<1>1. /\ prog.at \notin Awaits /\ prog' \in ProgType
      /\ UNCHANGED <<rx, dead, sensor>> /\ hist' \in HistType
      /\ hist'.timeouts = hist.timeouts /\ hist'.gaveUp = hist.gaveUp
  BY DEF SendTo, Awaits, Resets
<1>2. /\ line' \in Seq(Commands)
      /\ Len(line') <= Len(line) + (IF prog'.at \in Awaits THEN 1 ELSE 0)
  BY <1>1, CommandTypes, AppendIs DEF SendTo, Base, Typed
<1>3. Typed'
  BY <1>1, <1>2 DEF Typed, Base
<1>4. hist.timeouts \in Nat /\ hist.gaveUp \in Nat /\ Len(line) \in Nat /\ Len(rx) \in Nat
      /\ Len(line') \in Nat
  BY <1>2, LinkAssumption DEF Base, Typed, HistType
<1>5. LeftByTimeouts'
  BY <1>1, <1>2, <1>4 DEF LeftByTimeouts, Base
<1> QED BY <1>3, <1>5 DEF Base, SendTo, OffBlank

\* A shutdown keeps the base: nothing is left.
LEMMA OffBase ==
  ASSUME Base, NEW r \in {"none", "enrolled", "failed"}, Off(r)
  PROVE  Base' /\ OffBlank'
<1>1. /\ line' = <<>> /\ rx' = <<>> /\ dead' = FALSE /\ prog' = NoProg
      /\ sensor' = [sensor EXCEPT !.image = None, !.caps = 0]
      /\ hist' = [hist EXCEPT !.matched = @ /\ r = "enrolled", !.result = r]
  BY DEF Off
<1> DEFINE m == hist.matched /\ r = "enrolled"
<1>9. hist \in HistType /\ m \in BOOLEAN /\ hist' = [hist EXCEPT !.matched = m, !.result = r]
  BY <1>1 DEF Base, Typed, HistType
<1> HIDE DEF m
<1>2. hist' \in HistType /\ hist'.timeouts = hist.timeouts /\ hist'.gaveUp = hist.gaveUp
  BY <1>9 DEF HistType
<1>3. sensor' \in SensorType
  <2>1. 0 \in 0..MaxCaptures
    BY LinkAssumption
  <2>2. sensor \in SensorType
    BY DEF Base, Typed
  <2> QED BY <1>1, <2>1, <2>2 DEF SensorType
<1>4. RxFrames \in Nat /\ <<>> \in Seq(Commands) /\ <<>> \in Seq(Answers) /\ Len(<<>>) = 0
  BY LinkAssumption
<1>5. Typed'
  <2>1. line' \in Seq(Commands) /\ rx' \in Seq(Answers) /\ Len(rx') <= RxFrames
    BY <1>1, <1>4
  <2>2. dead' \in BOOLEAN /\ prog' \in ProgType
    BY <1>1, NoProgIs
  <2> QED BY <1>2, <1>3, <2>1, <2>2 DEF Typed
<1>6. hist'.timeouts \in Nat /\ hist'.gaveUp \in Nat
  BY <1>2, LinkAssumption DEF HistType
<1>7. LeftByTimeouts'
  BY <1>1, <1>6, NoProgIs DEF LeftByTimeouts, Awaits, Resets
<1> QED BY <1>1, <1>5, <1>7 DEF Base, OffBlank

\* Power-up keeps the base: its one command is waited for.
LEMMA PowerUpBase ==
  ASSUME Base, OffBlank, PowerUp
  PROVE  Base' /\ OffBlank'
<1>1. /\ prog'.at = "level" /\ prog' \in ProgType
      /\ line' = <<"level">> /\ rx' = <<>> /\ UNCHANGED <<dead, sensor>>
      /\ hist' = NoHistory
  BY PowerUpDoes DEF Base
<1>2. hist' \in HistType /\ hist'.timeouts = 0 /\ hist'.gaveUp = 0
  BY <1>1, LinkAssumption DEF NoHistory, HistType
<1>3. RxFrames \in Nat /\ "level" \in Commands /\ Len(<<>>) = 0 /\ Len(<<"level">>) = 1
  BY LinkAssumption DEF Commands
<1>4. Typed'
  BY <1>1, <1>2, <1>3 DEF Base, Typed
<1>5. LeftByTimeouts'
  BY <1>1, <1>2, <1>3 DEF LeftByTimeouts, Awaits
<1> QED BY <1>1, <1>4, <1>5 DEF Base, OffBlank

\* What the sensor executes and answers is typed.
LEMMA ExecuteTypes ==
  ASSUME sensor \in SensorType, NEW c \in Commands, NEW f \in Fingers \union {None}
  PROVE  Execute(c, f) \in SensorType /\ Answer(c, f) \in Answers
<1>1. MaxCaptures \in Nat
  BY LinkAssumption
<1>2. sensor.caps < MaxCaptures => sensor.caps + 1 \in 0..MaxCaptures
  BY <1>1 DEF SensorType
<1> DEFINE k == IF f # None /\ sensor.caps < MaxCaptures THEN sensor.caps + 1 ELSE sensor.caps
<1>3. k \in 0..MaxCaptures /\ 0 \in 0..MaxCaptures
  BY <1>1, <1>2 DEF SensorType
<1>4. sensor.print \in Fingers \union {None} /\ sensor.image \in Fingers \union {None}
  BY DEF SensorType
<1>5. Execute(c, f) \in SensorType
  <2>1. CASE c = "capture"
    <3>1. Execute(c, f) = [sensor EXCEPT !.image = f, !.caps = k]
      BY <2>1 DEF Execute, SensorType
    <3> HIDE DEF k
    <3> QED BY <1>3, <3>1 DEF SensorType
  <2>2. CASE c = "enroll"
    <3>1. \/ Execute(c, f) = [print |-> sensor.image, image |-> None, caps |-> 0]
          \/ Execute(c, f) = [sensor EXCEPT !.caps = 0]
      BY <2>2 DEF Execute
    <3> QED BY <1>3, <1>4, <3>1 DEF SensorType
  <2>3. CASE c = "erase"
    <3>1. Execute(c, f) = [sensor EXCEPT !.print = None]
      BY <2>3 DEF Execute
    <3> QED BY <3>1 DEF SensorType
  <2>4. CASE c \notin {"capture", "enroll", "erase"}
    BY <2>4 DEF Execute
  <2> QED BY <2>1, <2>2, <2>3, <2>4
<1>6. Answer(c, f) \in Answers
  <2> DEFINE taken == Execute(c, f) # [sensor EXCEPT !.caps = 0]
  <2> HIDE DEF taken
  <2>1. CASE c = "enroll"
    <3>1. Answer(c, f) = [ok |-> taken, n |-> 0] /\ taken \in BOOLEAN
      BY <2>1 DEF Answer, taken
    <3> QED BY <3>1 DEF Answers
  <2>2. CASE c = "capture"
    BY <2>2 DEF Answer, Answers
  <2>3. CASE c = "match"
    BY <2>3 DEF Answer, Answers, Matches
  <2>4. CASE c = "count"
    BY <2>4 DEF Answer, Answers
  <2>5. CASE c \notin {"enroll", "capture", "match", "count"}
    BY <2>5 DEF Answer, Answers
  <2> QED BY <2>1, <2>2, <2>3, <2>4, <2>5
<1> QED BY <1>5, <1>6

\* What the sensor does: it takes the first command off the line, and its
\* answer joins the queue, or is lost.
LEMMA SensorDoes ==
  ASSUME Typed, SensorAnswers
  PROVE  /\ line # <<>> /\ line' = Tail(line)
         /\ \E f \in Fingers \union {None} :
              /\ sensor' = Execute(line[1], f)
              /\ rx' = rx \/ (rx' = Append(rx, Answer(line[1], f)) /\ Len(rx) # RxFrames)
              /\ Answer(line[1], f) \in Answers
              /\ sensor' \in SensorType
         /\ hist' = [hist EXCEPT !.matched = @ \/ (line[1] = "match" /\ Matches)]
         /\ hist' \in HistType /\ hist'.timeouts = hist.timeouts
         /\ hist'.gaveUp = hist.gaveUp /\ hist'.result = hist.result
         /\ hist'.matched = (hist.matched \/ (line[1] = "match" /\ Matches))
         /\ dead' \in BOOLEAN /\ UNCHANGED prog
         /\ line[1] \in Commands
<1>1. line # <<>> /\ line' = Tail(line) /\ UNCHANGED prog /\ dead' = (dead \/ Full)
  BY DEF SensorAnswers
<1>2. Head(line) = line[1] /\ line[1] \in Commands
  BY <1>1, TailIs DEF Typed
<1>3. PICK f \in Fingers \union {None} :
        /\ sensor' = Execute(Head(line), f)
        /\ rx' = IF dead \/ Full THEN rx ELSE Append(rx, Answer(Head(line), f))
        /\ hist' = [hist EXCEPT !.matched = @ \/ (Head(line) = "match" /\ Matches)]
  BY DEF SensorAnswers
<1>4. /\ sensor' = Execute(line[1], f)
      /\ rx' = rx \/ (rx' = Append(rx, Answer(line[1], f)) /\ Len(rx) # RxFrames)
      /\ Answer(line[1], f) \in Answers
      /\ sensor' \in SensorType
  BY <1>2, <1>3, ExecuteTypes DEF Typed, Full
<1> DEFINE m == hist.matched \/ (line[1] = "match" /\ Matches)
<1>5. hist' = [hist EXCEPT !.matched = m] /\ m \in BOOLEAN
  BY <1>2, <1>3 DEF Typed, HistType
<1>6. hist' = [hist EXCEPT !.matched = @ \/ (line[1] = "match" /\ Matches)]
  BY <1>2, <1>3
<1> HIDE DEF m
<1>7. /\ hist' \in HistType /\ hist'.timeouts = hist.timeouts
      /\ hist'.gaveUp = hist.gaveUp /\ hist'.result = hist.result
      /\ hist'.matched = m
  BY <1>5 DEF Typed, HistType
<1>8. dead' \in BOOLEAN
  BY <1>1
<1> QED BY <1>1, <1>2, <1>4, <1>6, <1>7, <1>8 DEF m

\* The sensor keeps the base: an answer takes the place of its command.
LEMMA SensorBase ==
  ASSUME Base, OffBlank, SensorAnswers
  PROVE  Base' /\ OffBlank'
<1>1. /\ line # <<>> /\ line' = Tail(line) /\ hist' \in HistType
      /\ hist'.timeouts = hist.timeouts /\ hist'.gaveUp = hist.gaveUp
      /\ dead' \in BOOLEAN /\ UNCHANGED prog
  BY SensorDoes DEF Base
<1>2. PICK f \in Fingers \union {None} :
        /\ rx' = rx \/ (rx' = Append(rx, Answer(line[1], f)) /\ Len(rx) # RxFrames)
        /\ Answer(line[1], f) \in Answers
        /\ sensor' \in SensorType
  BY SensorDoes DEF Base
<1>3. line' \in Seq(Commands) /\ Len(line') = Len(line) - 1 /\ Len(line) >= 1
  BY <1>1, TailIs DEF Base, Typed
<1>4. rx' \in Seq(Answers) /\ Len(rx') <= Len(rx) + 1 /\ Len(rx') <= RxFrames
  <2>1. CASE rx' = rx
    BY <2>1 DEF Base, Typed
  <2>2. CASE rx' = Append(rx, Answer(line[1], f)) /\ Len(rx) # RxFrames
    <3>1. RxFrames \in Nat /\ Len(rx) <= RxFrames /\ rx \in Seq(Answers)
      BY LinkAssumption DEF Base, Typed
    <3> HIDE DEF Answers
    <3>2. rx' \in Seq(Answers) /\ Len(rx') = Len(rx) + 1
      BY <1>2, <2>2, <3>1, AppendIs
    <3> QED BY <2>2, <3>1, <3>2
  <2> QED BY <1>2, <2>1, <2>2
<1>5. Typed'
  BY <1>1, <1>2, <1>3, <1>4 DEF Base, Typed
<1>6. hist.timeouts \in Nat /\ hist.gaveUp \in Nat /\ Len(line) \in Nat /\ Len(rx) \in Nat
      /\ Len(rx') \in Nat
  BY <1>4, LinkAssumption DEF Base, Typed, HistType
<1>7. LeftByTimeouts'
  BY <1>1, <1>3, <1>4, <1>6 DEF LeftByTimeouts, Base
<1> QED BY <1>1, <1>5, <1>7 DEF Base, OffBlank

\* Every step reads, sends, switches on or off, or is the sensor's.
LEMMA StepKinds ==
  ASSUME Typed, Next
  PROVE  \/ PowerUp \/ SensorAnswers \/ SendTo
         \/ \E r \in {"none", "enrolled", "failed"} : Off(r)
         \/ \E a \in Answers : \E sent : ReadTo(a, sent)
<1>1. CASE PowerUp \/ SensorAnswers
  BY <1>1
<1>2. CASE Touch \/ Press \/ Captured \/ Verified \/ Validated
  BY <1>2, TouchDoes, PressDoes, CapturedDoes, VerifiedDoes, ValidatedDoes
<1>3. CASE Level \/ BootCount \/ ResetAgain
  BY <1>3, LevelDoes, BootCountDoes, ResetAgainDoes
<1>4. CASE ResetEnds
  BY <1>4, ResetEndsDoes DEF TouchEnds, RestEnds
<1>5. CASE Capture \/ Match \/ UserNum \/ PreCount
  BY <1>5, CaptureDoes, MatchDoes, UserNumDoes, PreCountDoes
<1>6. CASE Enroll \/ PostCount \/ EraseBad \/ Erase \/ EraseCount
  BY <1>6, EnrollDoes, PostCountDoes, EraseBadDoes, EraseDoes, EraseCountDoes
<1>7. CASE PowerLoss
  BY <1>7 DEF PowerLoss
<1> QED BY <1>1, <1>2, <1>3, <1>4, <1>5, <1>6, <1>7 DEF Next

\* The base holds at the start.
LEMMA BaseInit == Init => Base /\ OffBlank
<1> SUFFICES ASSUME Init PROVE Base /\ OffBlank
  OBVIOUS
<1>1. line = <<>> /\ rx = <<>> /\ dead = FALSE /\ prog = NoProg /\ hist = NoHistory
  BY DEF Init
<1>2. sensor \in SensorType /\ RxFrames \in Nat
  BY LinkAssumption DEF Init, SensorType
<1>3. hist \in HistType /\ hist.timeouts = 0 /\ hist.gaveUp = 0
  BY <1>1, LinkAssumption DEF NoHistory, HistType
<1>4. <<>> \in Seq(Commands) /\ <<>> \in Seq(Answers) /\ Len(<<>>) = 0
  OBVIOUS
<1>5. line \in Seq(Commands) /\ rx \in Seq(Answers) /\ Len(rx) <= RxFrames
  BY <1>1, <1>2, <1>4
<1>6. Typed
  <2>1. dead \in BOOLEAN /\ prog \in ProgType
    BY <1>1, NoProgIs
  <2> QED BY <1>2, <1>3, <1>5, <2>1 DEF Typed
<1>7. LeftByTimeouts
  BY <1>1, <1>3, <1>4, NoProgIs DEF LeftByTimeouts, Awaits, Resets
<1> QED BY <1>1, <1>6, <1>7 DEF Base, OffBlank

\* The base is inductive.
LEMMA BaseStep == Base /\ OffBlank /\ [Next]_vars => Base' /\ OffBlank'
<1> SUFFICES ASSUME Base, OffBlank, [Next]_vars PROVE Base' /\ OffBlank'
  OBVIOUS
<1>1. CASE Next
  BY <1>1, StepKinds, PowerUpBase, SensorBase, SendToBase, OffBase, ReadToBase DEF Base
<1>2. CASE UNCHANGED vars
  BY <1>2 DEF vars, Base, Typed, LeftByTimeouts, OffBlank
<1> QED BY <1>1, <1>2

\* Types, what is left over, and an empty link of a device that is off: for
\* every set of late commands and every bound.
THEOREM LinkInvariance == Spec => [](Base /\ OffBlank)
BY BaseInit, BaseStep, PTL DEF Spec

\* The base implies the type invariant of the runs.
LEMMA BaseTypes == Base => TypeOK
<1> SUFFICES ASSUME Base PROVE TypeOK
  OBVIOUS
<1>1. \A i \in DOMAIN line : line[i] \in Commands
  BY DEF Base, Typed
<1>2. \A i \in DOMAIN rx : rx[i] \in Answers
  <2> HIDE DEF Answers
  <2> QED BY DEF Base, Typed
<1> QED BY <1>1, <1>2 DEF TypeOK, Base, Typed, ProgType, HistType, SensorType

\* The queue never holds more frames than it has room for, and the program
\* is at a point of the code with a count of tries FPS_resetSensor can have.
THEOREM LinkTypeCorrect == Spec => []TypeOK
BY LinkInvariance, BaseTypes, PTL

\* However reads time out and resets are repeated, what is still to come is
\* no more than what timed out or was given up, and the answer waited for.
THEOREM LinkLeft == Spec => []LeftByTimeouts
<1>1. Base => LeftByTimeouts
  BY DEF Base
<1> QED BY <1>1, LinkInvariance, PTL

(***************************************************************************)
(* Where the program can be, and what it then knows.                       *)
(***************************************************************************)
\* Where the program can be in each of the calls.
NoneAt == {"off", "level", "bootReset", "bootCount", "idle", "touchReset",
           "userNum", "erase", "eraseCount"}
LoopAt == {"loop", "capture", "match", "restReset"}
EnrollAt == {"loop", "capture", "restReset", "preCount", "enroll", "postCount", "lastReset"}
VerifyAt == LoopAt \union {"eraseBad", "lastReset"}

\* What the call and the point say about the flags: validation is for locked
\* devices, erasing for authorised ones, and ret is true only where an enrolment
\* was executed.
Shape ==
  /\ prog.call = "none" => prog.at \in NoneAt
  /\ prog.call = "validate" => prog.at \in LoopAt /\ prog.locked /\ ~prog.auth
  /\ prog.call = "enroll" => prog.at \in EnrollAt /\ prog.last = 0
  /\ prog.call = "verify" => prog.at \in VerifyAt
  /\ prog.at \in {"erase", "eraseCount"} => prog.auth
  /\ prog.auth => /\ prog.locked /\ prog.call = "none"
                  /\ prog.at \in {"idle", "touchReset", "erase", "eraseCount"}
  /\ prog.at \in {"off", "level", "bootReset", "bootCount", "userNum"} => ~prog.locked
  /\ prog.call = "none" /\ ~prog.locked => prog.last = 0
  /\ prog.ret => \/ prog.call = "enroll" /\ prog.at = "postCount"
                 \/ prog.call = "verify"
  /\ prog.at # "off" => hist.result = "none"

\* A read changes only the counters of the history.
LEMMA ReadKeepsResult ==
  ASSUME Typed, NEW a \in Answers, NEW sent, ReadTo(a, sent)
  PROVE  hist'.result = hist.result /\ hist'.matched = hist.matched /\ prog.at # "off"
BY ReadTypes DEF ReadTo, Awaits, Resets

\* The calls of otk.c nest as Shape says.
LEMMA ShapeStep ==
  ASSUME Base, OffBlank, Shape, [Next]_vars
  PROVE  Shape'
<1> USE DEF NoneAt, LoopAt, EnrollAt, VerifyAt
<1>0. Typed /\ prog \in ProgType /\ prog.call \in Calls
  BY DEF Base, Typed, ProgType
<1>1. ASSUME NEW r, Off(r)
      PROVE  Shape'
  <2>1. prog' = NoProg
    BY <1>1 DEF Off
  <2> QED BY <2>1, NoProgIs DEF Shape
<1>2. CASE UNCHANGED vars
  BY <1>2 DEF vars, Shape
<1>3. CASE PowerUp
  BY <1>0, <1>3, PowerUpDoes DEF Shape, Like, NoHistory, Calls
<1>4. CASE SensorAnswers
  <2>1. prog' = prog /\ hist'.result = hist.result
    BY <1>0, <1>4, SensorDoes
  <2> QED BY <2>1 DEF Shape
<1>5. CASE Level
  BY <1>0, <1>1, <1>5, LevelDoes, ReadKeepsResult DEF Shape, Like, Calls
<1>6. CASE BootCount
  BY <1>0, <1>6, BootCountDoes, ReadKeepsResult DEF Shape, Calls
<1>7. CASE ResetAgain
  BY <1>0, <1>7, ResetAgainDoes, ReadKeepsResult DEF Shape, Like
<1>8. CASE ResetEnds
  <2>1. CASE \E r : Off(r)
    BY <1>1, <2>1
  <2>2. CASE /\ prog.at = "bootReset"
             /\ \E a \in Answers : ReadTo(a, line) /\ prog'.at = "bootCount" /\ Like(prog', prog)
    BY <1>0, <2>2, ReadKeepsResult DEF Shape, Like, Calls
  <2>3. CASE prog.at = "touchReset" /\ \E a \in Answers : TouchEnds(a)
    BY <1>0, <2>3, NoProgIs, ReadKeepsResult DEF Shape, Like, Calls, TouchEnds
  <2>4. CASE prog.at = "restReset" /\ \E a \in Answers : RestEnds(a)
    BY <1>0, <2>4, ReadKeepsResult DEF Shape, Like, Calls, RestEnds
  <2> QED BY <1>0, <1>8, <2>1, <2>2, <2>3, <2>4, ResetEndsDoes
<1>9. CASE Touch
  BY <1>0, <1>9, TouchDoes DEF Shape, Like, Calls, SendTo
<1>10. CASE Press
  BY <1>0, <1>10, PressDoes DEF Shape, Like, Calls
<1>11. CASE Capture
  BY <1>0, <1>11, CaptureDoes, ReadKeepsResult DEF Shape, Like, Calls
<1>12. CASE Match
  BY <1>0, <1>12, MatchDoes, ReadKeepsResult DEF Shape, Calls
<1>13. CASE Validated
  BY <1>0, <1>1, <1>13, ValidatedDoes DEF Shape
<1>14. CASE UserNum
  BY <1>0, <1>1, <1>14, UserNumDoes, ReadKeepsResult DEF Shape, Calls
<1>15. CASE Captured
  BY <1>0, <1>15, CapturedDoes DEF Shape, Like, Calls
<1>16. CASE PreCount
  BY <1>0, <1>16, PreCountDoes, ReadKeepsResult DEF Shape, Like, Calls
<1>17. CASE Enroll
  BY <1>0, <1>17, EnrollDoes, ReadKeepsResult DEF Shape, Calls
<1>18. CASE PostCount
  BY <1>0, <1>18, PostCountDoes, ReadKeepsResult DEF Shape, Calls
<1>19. CASE Verified
  BY <1>0, <1>19, VerifiedDoes DEF Shape, Like, Calls
<1>20. CASE EraseBad
  BY <1>0, <1>20, EraseBadDoes, ReadKeepsResult DEF Shape, Calls
<1>21. CASE Erase
  BY <1>0, <1>21, EraseDoes, ReadKeepsResult DEF Shape, Like, Calls
<1>22. CASE EraseCount
  BY <1>0, <1>22, EraseCountDoes, ReadKeepsResult DEF Shape, Calls
<1>23. CASE PowerLoss
  BY <1>1, <1>23 DEF PowerLoss
<1> QED BY <1>2, <1>3, <1>4, <1>5, <1>6, <1>7, <1>8, <1>9, <1>10, <1>11, <1>12, <1>13,
           <1>14, <1>15, <1>16, <1>17, <1>18, <1>19, <1>20, <1>21, <1>22, <1>23 DEF Next

(***************************************************************************)
(* Answers that look like a match.                                         *)
(***************************************************************************)
\* No answer looks like a match.
Cold(r) == \A i \in 1..Len(r) : r[i].n = 0
\* Every command is one of S.
Only(l, S) == \A j \in 1..Len(l) : l[j] \in S

\* Of what is to be read next, no match comes later than the b-th.
HotUpTo(l, r, b) ==
  /\ \A i \in 1..Len(r) : r[i].n > 0 => i <= b
  /\ \A j \in 1..Len(l) : l[j] = "match" => Len(r) + j <= b

\* What is answered before an erase says nothing about a finger.
EraseClean(l, r) ==
  \A j \in 1..Len(l) : l[j] = "erase" =>
    Cold(r) /\ \A m \in 1..Len(l) : m < j => l[m] \notin {"match", "count"}

\* A finger is enrolled.
Enrolled == sensor.print # None

\* One more command of the kind.
LEMMA OnlyMore ==
  ASSUME NEW l \in Seq(Commands), NEW S, Only(l, S), NEW c \in Commands, c \in S
  PROVE  Only(Append(l, c), S)
BY AppendIs DEF Only

\* A later bound is a bound.
LEMMA HotMore ==
  ASSUME NEW l \in Seq(Commands), NEW r \in Seq(Answers), NEW b \in Int, NEW d \in Int,
         HotUpTo(l, r, b), b <= d
  PROVE  HotUpTo(l, r, d)
BY DEF HotUpTo

\* A command other than a match moves no bound.
LEMMA HotAsk ==
  ASSUME NEW l \in Seq(Commands), NEW r \in Seq(Answers), NEW b \in Int,
         NEW c \in Commands,
         HotUpTo(l, r, b), c = "match" => Len(r) + Len(l) + 1 <= b
  PROVE  HotUpTo(Append(l, c), r, b)
<1>1. /\ Len(Append(l, c)) = Len(l) + 1 /\ Append(l, c)[Len(l) + 1] = c
      /\ \A j \in 1..Len(l) : Append(l, c)[j] = l[j]
  BY AppendIs
<1>2. Len(l) \in Nat /\ Len(r) \in Nat
  OBVIOUS
<1> QED BY <1>1, <1>2 DEF HotUpTo

\* The end of everything is a bound.
LEMMA HotAll ==
  ASSUME NEW l \in Seq(Commands), NEW r \in Seq(Answers), NEW b \in Int,
         Len(r) + Len(l) <= b
  PROVE  HotUpTo(l, r, b)
BY DEF HotUpTo

\* A read brings the bound one closer.
LEMMA HotRead ==
  ASSUME NEW l \in Seq(Commands), NEW r \in Seq(Answers), NEW b \in Int,
         r # <<>>, HotUpTo(l, r, b)
  PROVE  HotUpTo(l, Tail(r), b - 1)
<1>1. /\ Len(Tail(r)) = Len(r) - 1 /\ Len(r) >= 1 /\ Len(r) \in Nat /\ Len(l) \in Nat
      /\ \A i \in 1..Len(Tail(r)) : Tail(r)[i] = r[i + 1]
  <2> HIDE DEF Answers
  <2> QED BY TailIs
<1> QED BY <1>1 DEF HotUpTo

\* When the bound is reached no match is left to be read.
LEMMA HotNone ==
  ASSUME NEW l \in Seq(Commands), NEW r \in Seq(Answers), NEW b \in Int,
         HotUpTo(l, r, b), b <= 0
  PROVE  Cold(r) /\ Only(l, Commands \ {"match"})
<1>1. Len(l) \in Nat /\ Len(r) \in Nat
  OBVIOUS
<1>2. Cold(r)
  <2>1. \A i \in 1..Len(r) : r[i].n \in 0..1
    <3>1. \A i \in 1..Len(r) : r[i] \in Answers
      OBVIOUS
    <3> QED BY <3>1 DEF Answers
  <2>2. \A i \in 1..Len(r) : ~(r[i].n > 0)
    BY <1>1 DEF HotUpTo
  <2> QED BY <2>1, <2>2 DEF Cold
<1>3. \A j \in 1..Len(l) : l[j] # "match" /\ l[j] \in Commands
  BY <1>1 DEF HotUpTo
<1> QED BY <1>2, <1>3 DEF Only

\* Where there is no match every number is a bound.
LEMMA HotCold ==
  ASSUME NEW l \in Seq(Commands), NEW r \in Seq(Answers), NEW b \in Int,
         Cold(r), \A j \in 1..Len(l) : l[j] # "match"
  PROVE  HotUpTo(l, r, b)
BY DEF HotUpTo, Cold

\* One command less of the kind.
LEMMA TailOnly ==
  ASSUME NEW l \in Seq(Commands), l # <<>>, NEW S, Only(l, S)
  PROVE  Only(Tail(l), S) /\ l[1] \in S
BY TailIs DEF Only

\* One more answer, like a match or not.
LEMMA ColdMore ==
  ASSUME NEW r \in Seq(Answers), NEW a \in Answers
  PROVE  /\ Cold(r) /\ a.n = 0 => Cold(Append(r, a))
         /\ ~Cold(Append(r, a)) => ~Cold(r) \/ a.n > 0
<1>1. /\ Len(Append(r, a)) = Len(r) + 1 /\ Append(r, a)[Len(r) + 1] = a
      /\ \A j \in 1..Len(r) : Append(r, a)[j] = r[j]
  <2> HIDE DEF Answers
  <2> QED BY AppendIs
<1>2. a.n \in 0..1 /\ Len(r) \in Nat
  BY DEF Answers
<1> QED BY <1>1, <1>2 DEF Cold

\* One answer less.
LEMMA ColdTail ==
  ASSUME NEW r \in Seq(Answers), r # <<>>, Cold(r)
  PROVE  Cold(Tail(r)) /\ Head(r).n = 0
<1>1. /\ Len(Tail(r)) = Len(r) - 1 /\ Len(r) >= 1 /\ Len(r) \in Nat
      /\ \A i \in 1..Len(Tail(r)) : Tail(r)[i] = r[i + 1]
      /\ Head(r) = r[1]
  <2> HIDE DEF Answers
  <2> QED BY TailIs
<1> QED BY <1>1 DEF Cold

\* A read that returns a match found one in the queue.
LEMMA ReadCold ==
  ASSUME Typed, NEW a \in Answers, NEW sent, Reads(a, sent)
  PROVE  /\ Cold(rx) => Cold(rx')
         /\ a.n > 0 => ~Cold(rx)
<1>1. \/ rx # <<>> /\ rx' = Tail(rx) /\ a = Head(rx)
      \/ rx = <<>> /\ rx' = rx /\ a = NoAnswer
  BY ReadTypes
<1>2. CASE rx # <<>> /\ rx' = Tail(rx) /\ a = Head(rx)
  BY <1>2, ColdTail DEF Typed, Answers
<1>3. CASE rx = <<>> /\ rx' = rx /\ a = NoAnswer
  BY <1>3 DEF NoAnswer
<1> QED BY <1>1, <1>2, <1>3

\* The lag is a number.
LEMMA LagIsInt ==
  /\ Typed => Lag \in Nat
  /\ hist' \in HistType => Lag' \in Nat
<1>1. \A h \in HistType : h.timeouts \in Nat /\ h.gaveUp \in Nat
  BY LinkAssumption DEF HistType
<1> QED BY <1>1 DEF Typed, Lag

\* A read brings the bound closer by one, or adds one to the lag.
LEMMA ReadHot ==
  ASSUME Typed, NEW a \in Answers, NEW sent, Reads(a, sent), NEW k \in Int,
         HotUpTo(line, rx, Lag + 1 - k)
  PROVE  HotUpTo(sent, rx', Lag' - k)
<1>1. /\ \/ rx # <<>> /\ rx' = Tail(rx)
         \/ rx = <<>> /\ rx' = rx
      /\ rx' \in Seq(Answers) /\ sent \in Seq(Commands)
      /\ sent = line \/ sent = Append(line, "reset")
      /\ (IF rx = <<>> THEN 1 ELSE 0) + Len(sent) - Len(line) <= Lag' - Lag
      /\ hist' \in HistType
  BY ReadTypes
<1>2. /\ Lag \in Int /\ Lag' \in Int /\ line \in Seq(Commands) /\ rx \in Seq(Answers)
      /\ Len(sent) \in Nat /\ Len(line) \in Nat
      /\ Len(sent) >= Len(line)
  <2>1. Lag \in Int /\ Lag' \in Int
    BY <1>1, LagIsInt
  <2>2. line \in Seq(Commands) /\ rx \in Seq(Answers) /\ "reset" \in Commands
    BY DEF Typed, Commands
  <2>3. Len(sent) \in Nat /\ Len(line) \in Nat /\ Len(sent) >= Len(line)
    <3>1. Len(Append(line, "reset")) = Len(line) + 1 /\ Len(line) \in Nat
      BY <2>2, AppendIs
    <3> QED BY <1>1, <3>1
  <2> QED BY <2>1, <2>2, <2>3
<1>6. Lag \in Int /\ Lag' \in Int /\ (IF rx = <<>> THEN 1 ELSE 0) <= Lag' - Lag
  <2>1. ASSUME NEW x \in Int, NEW y \in Int, NEW p \in Nat, NEW q \in Nat, NEW e \in {0, 1},
               e + p - q <= y - x, p >= q
        PROVE  e <= y - x
    BY <2>1
  <2> QED BY <1>1, <1>2, <2>1
<1>7. PICK x \in Int, y \in Int : x = Lag /\ y = Lag'
  BY <1>6
<1>8. (rx = <<>> => 1 <= y - x) /\ (rx # <<>> => 0 <= y - x)
  BY <1>6, <1>7
<1> DEFINE b == y - k
<1>3. HotUpTo(line, rx', b)
  <2>1. CASE rx # <<>>
    <3>1. HotUpTo(line, Tail(rx), x + 1 - k - 1)
      BY <1>2, <1>7, <2>1, HotRead
    <3>2. x + 1 - k - 1 <= b /\ x + 1 - k - 1 \in Int /\ b \in Int
      BY <1>8, <2>1
    <3>3. rx' = Tail(rx)
      BY <1>1, <2>1
    <3> HIDE DEF b
    <3> QED BY <1>1, <1>2, <3>1, <3>2, <3>3, HotMore
  <2>2. CASE rx = <<>>
    <3>1. x + 1 - k <= b /\ x + 1 - k \in Int /\ b \in Int
      BY <1>8, <2>2
    <3>2. rx' = rx
      BY <1>1, <2>2
    <3> HIDE DEF b
    <3> QED BY <1>1, <1>2, <1>7, <3>1, <3>2, HotMore
  <2> QED BY <2>1, <2>2
<1>4. b \in Int /\ b = Lag' - k /\ "reset" \in Commands
  BY <1>2, <1>7 DEF Commands
<1> HIDE DEF b
<1>5. HotUpTo(Append(line, "reset"), rx', b)
  BY <1>1, <1>2, <1>3, <1>4, HotAsk
<1> QED BY <1>1, <1>3, <1>4, <1>5

\* Another command after an erase is not before it.
LEMMA EraseMore ==
  ASSUME NEW l \in Seq(Commands), NEW r, NEW c \in Commands \ {"erase"}, EraseClean(l, r)
  PROVE  EraseClean(Append(l, c), r)
<1>1. /\ Len(Append(l, c)) = Len(l) + 1 /\ Append(l, c)[Len(l) + 1] = c
      /\ \A j \in 1..Len(l) : Append(l, c)[j] = l[j]
      /\ Len(l) \in Nat
  BY AppendIs
<1> SUFFICES ASSUME NEW j \in 1..Len(Append(l, c)), Append(l, c)[j] = "erase"
             PROVE  /\ Cold(r)
                    /\ \A m \in 1..Len(Append(l, c)) :
                         m < j => Append(l, c)[m] \notin {"match", "count"}
  BY DEF EraseClean
<1>2. j \in 1..Len(l) /\ l[j] = "erase"
  BY <1>1
<1>3. Cold(r) /\ \A m \in 1..Len(l) : m < j => l[m] \notin {"match", "count"}
  BY <1>2 DEF EraseClean
<1> QED BY <1>1, <1>2, <1>3

\* The commands of the points.
LEMMA CommandIs ==
  /\ \A p \in Resets : Command(p) = "reset"
  /\ \A p \in {"bootCount", "userNum", "preCount", "postCount", "eraseCount"} :
       Command(p) = "count"
  /\ \A p \in {"eraseBad", "erase"} : Command(p) = "erase"
  /\ Command("level") = "level" /\ Command("capture") = "capture"
  /\ Command("match") = "match" /\ Command("enroll") = "enroll"
BY DEF Command, Resets

\* A step that reads keeps the kind of commands in the line.
LEMMA ReadOnly ==
  ASSUME Typed, NEW a \in Answers, NEW sent, ReadTo(a, sent), NEW S, Only(line, S),
         "reset" \in S, prog'.at \in Awaits => Command(prog'.at) \in S
  PROVE  Only(line', S)
<1>1. /\ sent = line \/ sent = Append(line, "reset")
      /\ sent \in Seq(Commands) /\ line \in Seq(Commands) /\ "reset" \in Commands
  BY ReadTypes DEF ReadTo, Typed, Commands
<1>2. Only(sent, S)
  BY <1>1, OnlyMore
<1> QED BY <1>1, <1>2, OnlyMore, CommandTypes DEF ReadTo

\* A step that sends without a read does, too.
LEMMA SendOnly ==
  ASSUME Typed, SendTo, NEW S, Only(line, S),
         prog'.at \in Awaits => Command(prog'.at) \in S
  PROVE  Only(line', S)
BY OnlyMore, CommandTypes DEF SendTo, Typed

\* A step that reads and does not erase keeps EraseClean.
LEMMA ReadErase ==
  ASSUME Typed, NEW a \in Answers, NEW sent, ReadTo(a, sent), EraseClean(line, rx),
         prog'.at \in Awaits => Command(prog'.at) # "erase"
  PROVE  EraseClean(line', rx')
<1>1. /\ sent = line \/ sent = Append(line, "reset")
      /\ sent \in Seq(Commands) /\ line \in Seq(Commands)
      /\ "reset" \in Commands \ {"erase"}
  BY ReadTypes DEF ReadTo, Typed, Commands
<1>2. EraseClean(line, rx')
  BY ReadCold DEF ReadTo, EraseClean
<1>3. EraseClean(sent, rx')
  BY <1>1, <1>2, EraseMore
<1> QED BY <1>1, <1>3, EraseMore, CommandTypes DEF ReadTo

\* A step that sends and does not erase does, too.
LEMMA SendErase ==
  ASSUME Typed, SendTo, EraseClean(line, rx),
         prog'.at \in Awaits => Command(prog'.at) # "erase"
  PROVE  EraseClean(line', rx')
BY EraseMore, CommandTypes DEF SendTo, Typed

\* The bound after a step that reads, as far as the program has got.
LEMMA ReadBound ==
  ASSUME Typed, NEW a \in Answers, NEW sent, ReadTo(a, sent),
         NEW k \in Int, NEW n \in Int, n <= k + Waiting',
         HotUpTo(line, rx, Lag + 1 - k), prog'.at # "match"
  PROVE  HotUpTo(line', rx', Lag' + Waiting' - n)
<1>1. /\ sent \in Seq(Commands) /\ rx' \in Seq(Answers) /\ hist' \in HistType
  BY ReadTypes DEF ReadTo
<1>2. PICK y \in Int, w \in {0, 1} : y = Lag' /\ w = Waiting'
  BY <1>1, LagIsInt DEF Waiting
<1>3. HotUpTo(sent, rx', y - k) /\ y - k \in Int
  BY <1>2, ReadHot DEF ReadTo
<1>4. prog'.at \in Awaits => Command(prog'.at) \in Commands \ {"match"}
  BY CommandIs, CommandTypes DEF Awaits
<1>5. HotUpTo(line', rx', y - k) /\ line' \in Seq(Commands)
  BY <1>1, <1>3, <1>4, HotAsk, AppendIs DEF ReadTo
<1>6. y - k <= y + w - n /\ y + w - n \in Int
  <2>1. n <= k + w /\ w \in Int
    BY <1>2 DEF Waiting
  <2> QED BY <2>1
<1>7. HotUpTo(line', rx', y + w - n)
  BY <1>1, <1>3, <1>5, <1>6, HotMore
<1> QED BY <1>2, <1>7

\* The bound after a step that sends without a read.
LEMMA SendBound ==
  ASSUME Typed, SendTo, NEW k \in Int, NEW n \in Int, n <= k + Waiting',
         HotUpTo(line, rx, Lag - k), prog'.at # "match"
  PROVE  HotUpTo(line', rx', Lag' + Waiting' - n)
<1>1. line \in Seq(Commands) /\ rx \in Seq(Answers) /\ rx' = rx
  BY DEF SendTo, Typed
<1>2. PICK y \in Int, w \in {0, 1} : y = Lag /\ y = Lag' /\ w = Waiting'
  BY LagIsInt DEF Waiting, SendTo, Lag
<1>3. prog'.at \in Awaits => Command(prog'.at) \in Commands \ {"match"}
  BY CommandIs, CommandTypes DEF Awaits
<1>4. HotUpTo(line, rx, y - k) /\ y - k \in Int
  BY <1>2
<1>5. HotUpTo(line', rx', y - k) /\ line' \in Seq(Commands)
  BY <1>1, <1>3, <1>4, HotAsk, AppendIs DEF SendTo
<1>6. y - k <= y + w - n /\ y + w - n \in Int
  <2>1. n <= k + w /\ w \in Int
    BY <1>2 DEF Waiting
  <2> QED BY <2>1
<1>7. HotUpTo(line', rx', y + w - n)
  BY <1>1, <1>4, <1>5, <1>6, HotMore
<1> QED BY <1>2, <1>7

\* A match just sent is answered within what is left over, and itself.
LEMMA MatchBound ==
  ASSUME Base, NEW a \in Answers, NEW sent, ReadTo(a, sent), prog'.at = "match"
  PROVE  HotUpTo(line', rx', Lag' + 1)
<1>1. sent \in Seq(Commands) /\ rx' \in Seq(Answers) /\ hist' \in HistType
  BY ReadTypes DEF ReadTo, Base
<1>2. Len(sent) + Len(rx') <= Lag'
  BY ReadLeaves DEF ReadTo
<1>3. line' = Append(sent, "match") /\ "match" \in Commands
  BY CommandIs DEF ReadTo, Awaits, Commands
<1>4. line' \in Seq(Commands) /\ Len(line') = Len(sent) + 1
  BY <1>1, <1>3, AppendIs
<1>5. PICK y \in Nat : y = Lag'
  BY <1>1, LagIsInt
<1>6. Len(rx') + Len(line') <= y + 1
  <2>1. Len(sent) \in Nat /\ Len(rx') \in Nat
    BY <1>1
  <2> QED BY <1>2, <1>4, <1>5, <2>1
<1> QED BY <1>1, <1>4, <1>5, <1>6, HotAll

\* Only a match of the enrolled finger, or a count of it, makes an answer
\* like a match.
LEMMA SensorHot ==
  ASSUME Typed, SensorAnswers, ~Cold(rx')
  PROVE  \/ ~Cold(rx)
         \/ line[1] = "match" /\ Matches
         \/ line[1] = "count" /\ Enrolled
<1>1. PICK f \in Fingers \union {None} :
        /\ rx' = rx \/ (rx' = Append(rx, Answer(line[1], f)) /\ Len(rx) # RxFrames)
        /\ Answer(line[1], f) \in Answers
  BY SensorDoes
<1>2. CASE rx' = rx
  BY <1>2
<1>3. CASE rx' = Append(rx, Answer(line[1], f))
  <2>1. ~Cold(rx) \/ Answer(line[1], f).n > 0
    BY <1>1, <1>3, ColdMore DEF Typed
  <2>2. ASSUME Answer(line[1], f).n > 0
        PROVE  (line[1] = "match" /\ Matches) \/ (line[1] = "count" /\ Enrolled)
    BY <2>2 DEF Answer, Enrolled
  <2> QED BY <2>1, <2>2
<1> QED BY <1>1, <1>2, <1>3

\* The finger stays unless it is erased or enrolled.
LEMMA SensorPrint ==
  ASSUME Typed, SensorAnswers
  PROVE  /\ Enrolled /\ line[1] # "erase" => Enrolled'
         /\ line[1] \notin {"enroll", "erase"} => sensor'.print = sensor.print
<1>1. PICK f \in Fingers \union {None} : sensor' = Execute(line[1], f)
  BY SensorDoes
<1>2. sensor \in SensorType
  BY DEF Typed
<1>3. line[1] = "capture" => sensor'.print = sensor.print
  BY <1>1, <1>2 DEF Execute, SensorType
<1>4. line[1] = "enroll" /\ Enrolled => sensor'.print = sensor.print
  BY <1>1, <1>2 DEF Execute, SensorType, Enrolled
<1>5. line[1] \notin {"capture", "enroll", "erase"} => sensor' = sensor
  BY <1>1 DEF Execute
<1> QED BY <1>3, <1>4, <1>5 DEF Enrolled

\* The sensor adds no command.
LEMMA SensorOnly ==
  ASSUME Typed, SensorAnswers, NEW S, Only(line, S)
  PROVE  Only(line', S) /\ line[1] \in S
BY SensorDoes, TailOnly DEF Typed

\* The sensor keeps the bound: the answer has the place of its command.
LEMMA SensorBound ==
  ASSUME Typed, SensorAnswers, NEW b \in Int, HotUpTo(line, rx, b), line[1] # "count"
  PROVE  HotUpTo(line', rx', b)
<1>1. /\ line' = Tail(line) /\ line # <<>> /\ line \in Seq(Commands) /\ rx \in Seq(Answers)
  BY SensorDoes DEF Typed
<1>2. /\ \A j \in 1..Len(line') : line'[j] = line[j + 1]
      /\ Len(line') = Len(line) - 1 /\ Len(line) >= 1 /\ Len(line) \in Nat
  BY <1>1, TailIs
<1>3. PICK f \in Fingers \union {None} :
        /\ rx' = rx \/ (rx' = Append(rx, Answer(line[1], f)) /\ Len(rx) # RxFrames)
        /\ Answer(line[1], f) \in Answers
  BY SensorDoes
<1>4. /\ \A i \in 1..Len(rx) : rx[i].n > 0 => i <= b
      /\ \A j \in 1..Len(line) : line[j] = "match" => Len(rx) + j <= b
      /\ Len(rx) \in Nat
  BY <1>1 DEF HotUpTo
<1>5. CASE rx' = rx
  BY <1>2, <1>4, <1>5 DEF HotUpTo
<1>6. CASE rx' = Append(rx, Answer(line[1], f))
  <2>1. /\ Len(rx') = Len(rx) + 1 /\ rx'[Len(rx) + 1] = Answer(line[1], f)
        /\ \A j \in 1..Len(rx) : rx'[j] = rx[j]
    <3> HIDE DEF Answers
    <3> QED BY <1>1, <1>3, <1>6, AppendIs
  <2>2. Answer(line[1], f).n > 0 => line[1] = "match"
    BY DEF Answer
  <2>3. Answer(line[1], f).n > 0 => Len(rx) + 1 <= b
    BY <1>2, <1>4, <2>2
  <2>4. \A i \in 1..Len(rx') : rx'[i].n > 0 => i <= b
    BY <1>4, <2>1, <2>3
  <2>5. \A j \in 1..Len(line') : line'[j] = "match" => Len(rx') + j <= b
    BY <1>2, <1>4, <2>1
  <2> QED BY <2>4, <2>5 DEF HotUpTo
<1> QED BY <1>3, <1>5, <1>6

\* The sensor keeps EraseClean, and an erase finds no match in the queue.
LEMMA SensorErase ==
  ASSUME Typed, SensorAnswers, EraseClean(line, rx)
  PROVE  EraseClean(line', rx') /\ (line[1] = "erase" => Cold(rx))
<1>1. line' = Tail(line) /\ line # <<>> /\ line \in Seq(Commands)
  BY SensorDoes DEF Typed
<1>2. /\ \A j \in 1..Len(line') : line'[j] = line[j + 1]
      /\ Len(line') = Len(line) - 1 /\ Len(line) >= 1 /\ Len(line) \in Nat
  BY <1>1, TailIs
<1>3. line[1] = "erase" => Cold(rx)
  BY <1>2 DEF EraseClean
<1>4. ASSUME NEW j \in 1..Len(line'), line'[j] = "erase"
      PROVE  /\ Cold(rx')
             /\ \A m \in 1..Len(line') : m < j => line'[m] \notin {"match", "count"}
  <2>1. j + 1 \in 1..Len(line) /\ line[j + 1] = "erase" /\ 1 \in 1..Len(line) /\ 1 < j + 1
    BY <1>2, <1>4
  <2>2. Cold(rx) /\ \A m \in 1..Len(line) : m < j + 1 => line[m] \notin {"match", "count"}
    BY <2>1 DEF EraseClean
  <2>3. Cold(rx')
    BY <2>1, <2>2, SensorHot
  <2> QED BY <1>2, <2>2, <2>3
<1> QED BY <1>3, <1>4 DEF EraseClean

(***************************************************************************)
(* What an answer can be, wherever the program is.                         *)
(***************************************************************************)
\* Commands whose answers never look like a match.
Plain == {"level", "reset", "capture"}

\* Only the answer to the count itself can look like a finger.
OwnCount(l, r) ==
  /\ \A i \in 1..Len(r) : r[i].n > 0 => i = Len(r) /\ l = <<>> /\ Enrolled
  /\ \A j \in 1..Len(l) :
       l[j] \in Plain \union {"erase"} \/ (l[j] = "count" /\ j = Len(l))

\* Before its own count is answered no answer looks like a finger.
LEMMA OwnCountCold ==
  ASSUME NEW l \in Seq(Commands), NEW r \in Seq(Answers), OwnCount(l, r)
  PROVE  l # <<>> => Cold(r)
<1>1. \A i \in 1..Len(r) : r[i] \in Answers
  OBVIOUS
<1>2. \A i \in 1..Len(r) : r[i].n \in 0..1
  BY <1>1 DEF Answers
<1> QED BY <1>2 DEF OwnCount, Cold

\* The sensor answers a count truthfully.
LEMMA SensorCount ==
  ASSUME Typed, SensorAnswers, OwnCount(line, rx)
  PROVE  OwnCount(line, rx)'
<1>1. /\ line' = Tail(line) /\ line # <<>> /\ line \in Seq(Commands) /\ rx \in Seq(Answers)
  BY SensorDoes DEF Typed
<1>2. /\ \A j \in 1..Len(line') : line'[j] = line[j + 1]
      /\ Len(line') = Len(line) - 1 /\ Len(line) >= 1 /\ Len(line) \in Nat
      /\ line' \in Seq(Commands)
  BY <1>1, TailIs
<1>3. Cold(rx)
  BY <1>1, OwnCountCold
<1>4. \A j \in 1..Len(line') :
        line'[j] \in Plain \union {"erase"} \/ (line'[j] = "count" /\ j = Len(line'))
  BY <1>2 DEF OwnCount
<1>5. ASSUME NEW i \in 1..Len(rx'), rx'[i].n > 0
      PROVE  i = Len(rx') /\ line' = <<>> /\ Enrolled'
  <2>1. ~Cold(rx')
    BY <1>5 DEF Cold
  <2>2. line[1] = "count" /\ Enrolled
    <3>1. line[1] # "match"
      BY <1>2 DEF OwnCount, Plain
    <3> QED BY <1>3, <2>1, <3>1, SensorHot
  <2>3. Len(line) = 1
    BY <1>2, <2>2 DEF OwnCount, Plain
  <2>4. line' = <<>>
    BY <1>2, <2>3
  <2>5. PICK f \in Fingers \union {None} :
          /\ rx' = rx \/ (rx' = Append(rx, Answer(line[1], f)) /\ Len(rx) # RxFrames)
          /\ Answer(line[1], f) \in Answers
    BY SensorDoes
  <2>6. rx' = Append(rx, Answer(line[1], f))
    BY <1>3, <2>1, <2>5
  <2>7. i = Len(rx')
    <3>1. Len(rx') = Len(rx) + 1 /\ \A j \in 1..Len(rx) : rx'[j] = rx[j]
      <4> HIDE DEF Answers
      <4> QED BY <1>1, <2>5, <2>6, AppendIs
    <3> QED BY <1>1, <1>3, <1>5, <3>1 DEF Cold
  <2> QED BY <2>2, <2>4, <2>7, SensorPrint
<1> QED BY <1>4, <1>5 DEF OwnCount

\* Reads and timeouts since a match was asked for, at least.
Since ==
  CASE prog.at = "restReset" -> prog.rests + 1
    [] prog.at \in {"loop", "idle"} -> Debounce + 1
    [] prog.at = "capture" -> Debounce + 2
    [] prog.at = "touchReset" -> Debounce + 2 + prog.rests
    [] OTHER -> 0

\* Fewer answers are late than the erase of an unlock follows the last match.
Few == Lag <= Debounce + TouchResets + 2

\* The regions: what the program is about, by point and flags.
IsBooting == prog.at \in {"level", "bootReset"}
IsCounting == prog.at \in {"bootCount", "eraseCount"}
IsLocked == prog.at \in {"idle", "touchReset"} /\ prog.locked /\ ~prog.auth
IsChecking == \/ prog.call = "validate"
              \/ prog.at \in {"idle", "touchReset"} /\ prog.auth
IsUnlocked ==
  \/ prog.at \in {"idle", "touchReset", "userNum"} /\ ~prog.locked
  \/ prog.call \in {"enroll", "verify"} /\ prog.at \notin {"eraseBad", "lastReset"}

\* What holds in each region of the answers still to come.
Booting == IsBooting => Cold(rx) /\ Only(line, Plain)
Counting == IsCounting => OwnCount(line, rx)
Locked == IsLocked => Cold(rx) /\ Only(line, Plain) /\ Enrolled
Checking ==
  IsChecking =>
    /\ Enrolled /\ Only(line, Plain \union {"match"})
    /\ HotUpTo(line, rx, Lag + Waiting - Since)
    /\ ~Cold(rx) \/ prog.last > 0 \/ prog.auth => hist.matched
Erasing == prog.at = "erase" => Cold(rx) /\ Only(line, Plain \union {"erase"})
Unlocked ==
  IsUnlocked =>
    /\ ~Cold(rx) => Enrolled
    /\ EraseClean(line, rx)
    /\ prog.last > 0 => Enrolled /\ Only(line, Commands \ {"erase"})
Confirmed ==
  prog.at = "lastReset" /\ prog.ret => Enrolled /\ Only(line, Commands \ {"erase"})
Reported == hist.result = "enrolled" => Enrolled

\* All of them.
Real ==
  /\ Booting /\ Counting /\ Locked /\ Checking /\ Erasing /\ Unlocked
  /\ Confirmed /\ Reported

\* The cases of Since as facts.
SinceTyped ==
  /\ Since \in Int
  /\ prog.at = "restReset" => Since = prog.rests + 1
  /\ prog.at \in {"loop", "idle"} => Since = Debounce + 1
  /\ prog.at = "capture" => Since = Debounce + 2
  /\ prog.at = "touchReset" => Since = Debounce + 2 + prog.rests
  /\ prog.at = "match" => Since = 0

\* Since, point by point.
LEMMA SinceIs == Typed => SinceTyped
<1> SUFFICES ASSUME Typed PROVE SinceTyped
  OBVIOUS
<1>1. Debounce \in Nat /\ prog.rests \in Nat
  BY LinkAssumption DEF Typed, ProgType
<1> QED BY <1>1 DEF Since, SinceTyped

\* What is few after a read was few before it.
LEMMA FewBack ==
  ASSUME Typed, NEW a \in Answers, NEW sent, ReadTo(a, sent), Few'
  PROVE  Few
<1>1. /\ (IF rx = <<>> THEN 1 ELSE 0) + Len(sent) - Len(line) <= Lag' - Lag
      /\ sent = line \/ sent = Append(line, "reset")
      /\ sent \in Seq(Commands) /\ hist' \in HistType
  BY ReadTypes DEF ReadTo
<1>2. Len(sent) >= Len(line) /\ Len(sent) \in Nat /\ Len(line) \in Nat
  <2>1. line \in Seq(Commands) /\ "reset" \in Commands
    BY DEF Typed, Commands
  <2>2. Len(Append(line, "reset")) = Len(line) + 1 /\ Len(line) \in Nat
    BY <2>1, AppendIs
  <2> QED BY <1>1, <2>2
<1>3. PICK x \in Nat, y \in Nat : x = Lag /\ y = Lag'
  BY <1>1, LagIsInt
<1>4. x <= y
  BY <1>1, <1>2, <1>3
<1>5. PICK d \in Nat : d = Debounce + TouchResets + 2
  BY LinkAssumption
<1>6. y <= d
  BY <1>3, <1>5 DEF Few
<1> QED BY <1>3, <1>4, <1>5, <1>6 DEF Few

\* The regions exclude one another.
RegionHolds ==
  \/ IsBooting /\ Booting
  \/ IsCounting /\ Counting
  \/ IsLocked /\ Locked
  \/ IsChecking /\ Checking
  \/ prog.at = "erase" /\ Erasing
  \/ IsUnlocked /\ Unlocked
  \/ prog.at = "lastReset" /\ Confirmed
  \/ prog.at = "eraseBad"

\* One region is enough.
LEMMA RealAt == Typed /\ Shape /\ Reported /\ RegionHolds => Real
<1> SUFFICES ASSUME Typed, Shape, Reported, RegionHolds PROVE Real
  OBVIOUS
<1> USE DEF NoneAt, LoopAt, EnrollAt, VerifyAt, Shape, Real, Reported,
            IsBooting, IsCounting, IsLocked, IsChecking, IsUnlocked,
            Booting, Counting, Locked, Checking, Erasing, Unlocked, Confirmed
<1>1. prog.call \in Calls
  BY DEF Typed, ProgType
<1>2. CASE IsBooting /\ Booting
  BY <1>1, <1>2 DEF Calls
<1>3. CASE IsCounting /\ Counting
  BY <1>1, <1>3 DEF Calls
<1>4. CASE IsLocked /\ Locked
  BY <1>1, <1>4 DEF Calls
<1>5. CASE IsChecking /\ Checking
  BY <1>1, <1>5 DEF Calls
<1>6. CASE prog.at = "erase" /\ Erasing
  BY <1>1, <1>6 DEF Calls
<1>7. CASE IsUnlocked /\ Unlocked
  BY <1>1, <1>7 DEF Calls
<1>8. CASE prog.at = "lastReset" /\ Confirmed
  BY <1>1, <1>8 DEF Calls
<1>9. CASE prog.at = "eraseBad"
  BY <1>1, <1>9 DEF Calls
<1> QED BY <1>2, <1>3, <1>4, <1>5, <1>6, <1>7, <1>8, <1>9 DEF RegionHolds

\* The sensor keeps every region.
LEMMA SensorReal ==
  ASSUME Base, OffBlank, Shape, Real, SensorAnswers
  PROVE  Real'
<1>1. /\ Typed /\ line # <<>> /\ line' = Tail(line) /\ UNCHANGED prog
      /\ hist'.timeouts = hist.timeouts
      /\ hist'.gaveUp = hist.gaveUp /\ hist'.result = hist.result
      /\ hist'.matched = (hist.matched \/ (line[1] = "match" /\ Matches))
      /\ line \in Seq(Commands) /\ rx \in Seq(Answers) /\ line[1] \in Commands
  BY SensorDoes DEF Base, Typed
<1>2. Matches => Enrolled
  BY DEF Matches, Enrolled
<1>3. Booting'
  <2> SUFFICES ASSUME IsBooting PROVE Cold(rx') /\ Only(line', Plain)
    BY <1>1 DEF Booting, IsBooting
  <2>1. Cold(rx) /\ Only(line, Plain)
    BY DEF Real, Booting
  <2>2. Only(line', Plain) /\ line[1] \in Plain
    BY <1>1, <2>1, SensorOnly
  <2> QED BY <1>1, <2>1, <2>2, SensorHot DEF Plain
<1>4. Counting'
  BY <1>1, SensorCount DEF Real, Counting, IsCounting
<1>5. Locked'
  <2> SUFFICES ASSUME IsLocked PROVE Cold(rx') /\ Only(line', Plain) /\ Enrolled'
    BY <1>1 DEF Locked, IsLocked
  <2>1. Cold(rx) /\ Only(line, Plain) /\ Enrolled
    BY DEF Real, Locked
  <2>2. Only(line', Plain) /\ line[1] \in Plain
    BY <1>1, <2>1, SensorOnly
  <2> QED BY <1>1, <2>1, <2>2, SensorHot, SensorPrint DEF Plain
<1>6. Checking'
  <2> SUFFICES ASSUME IsChecking
               PROVE  /\ Enrolled' /\ Only(line', Plain \union {"match"})
                      /\ HotUpTo(line, rx, Lag + Waiting - Since)'
                      /\ ~Cold(rx') \/ prog'.last > 0 \/ prog'.auth => hist'.matched
    BY <1>1 DEF Checking, IsChecking
  <2>1. /\ Enrolled /\ Only(line, Plain \union {"match"})
        /\ HotUpTo(line, rx, Lag + Waiting - Since)
        /\ ~Cold(rx) \/ prog.last > 0 \/ prog.auth => hist.matched
    BY DEF Real, Checking
  <2>2. Only(line', Plain \union {"match"}) /\ line[1] \in Plain \union {"match"}
    BY <1>1, <2>1, SensorOnly
  <2>3. Enrolled'
    BY <1>1, <2>1, <2>2, SensorPrint DEF Plain
  <2>4. Lag + Waiting - Since \in Int /\ (Lag + Waiting - Since)' = Lag + Waiting - Since
    <3>1. Lag \in Int /\ Waiting \in Int /\ Since \in Int
      BY <1>1, LagIsInt, SinceIs DEF Waiting, SinceTyped
    <3>2. Lag' = Lag /\ Waiting' = Waiting /\ Since' = Since
      BY <1>1 DEF Lag, Waiting, Since
    <3> QED BY <3>1, <3>2
  <2>5. HotUpTo(line', rx', Lag + Waiting - Since)
    BY <1>1, <2>1, <2>2, <2>4, SensorBound DEF Plain
  <2>6. ~Cold(rx') \/ prog'.last > 0 \/ prog'.auth => hist'.matched
    BY <1>1, <2>1, <2>2, SensorHot DEF Plain
  <2>7. HotUpTo(line, rx, Lag + Waiting - Since)'
    BY <2>4, <2>5 DEF HotUpTo
  <2> QED BY <2>2, <2>3, <2>6, <2>7
<1>7. Erasing'
  <2> SUFFICES ASSUME prog.at = "erase" PROVE Cold(rx') /\ Only(line', Plain \union {"erase"})
    BY <1>1 DEF Erasing
  <2>1. Cold(rx) /\ Only(line, Plain \union {"erase"})
    BY DEF Real, Erasing
  <2>2. Only(line', Plain \union {"erase"}) /\ line[1] \in Plain \union {"erase"}
    BY <1>1, <2>1, SensorOnly
  <2> QED BY <1>1, <2>1, <2>2, SensorHot DEF Plain
<1>8. Unlocked'
  <2> SUFFICES ASSUME IsUnlocked
               PROVE  /\ ~Cold(rx') => Enrolled'
                      /\ EraseClean(line', rx')
                      /\ prog'.last > 0 => Enrolled' /\ Only(line', Commands \ {"erase"})
    BY <1>1 DEF Unlocked, IsUnlocked
  <2>1. /\ ~Cold(rx) => Enrolled
        /\ EraseClean(line, rx)
        /\ prog.last > 0 => Enrolled /\ Only(line, Commands \ {"erase"})
    BY DEF Real, Unlocked
  <2>2. EraseClean(line', rx') /\ (line[1] = "erase" => Cold(rx))
    BY <1>1, <2>1, SensorErase
  <2>3. ~Cold(rx') => Enrolled'
    BY <1>1, <1>2, <2>1, <2>2, SensorHot, SensorPrint
  <2>4. prog'.last > 0 => Enrolled' /\ Only(line', Commands \ {"erase"})
    <3> SUFFICES ASSUME prog.last > 0 PROVE Enrolled' /\ Only(line', Commands \ {"erase"})
      BY <1>1
    <3>1. Only(line', Commands \ {"erase"}) /\ line[1] \in Commands \ {"erase"}
      BY <1>1, <2>1, SensorOnly
    <3> QED BY <1>1, <2>1, <3>1, SensorPrint
  <2> QED BY <2>2, <2>3, <2>4
<1>9. Confirmed'
  <2> SUFFICES ASSUME prog.at = "lastReset", prog.ret
               PROVE  Enrolled' /\ Only(line', Commands \ {"erase"})
    BY <1>1 DEF Confirmed
  <2>1. Enrolled /\ Only(line, Commands \ {"erase"})
    BY DEF Real, Confirmed
  <2>2. Only(line', Commands \ {"erase"}) /\ line[1] \in Commands \ {"erase"}
    BY <1>1, <2>1, SensorOnly
  <2> QED BY <1>1, <2>1, <2>2, SensorPrint
<1>10. Reported'
  BY <1>1 DEF OffBlank, Shape, Reported
<1> QED BY <1>3, <1>4, <1>5, <1>6, <1>7, <1>8, <1>9, <1>10 DEF Real

\* A shutdown leaves no region but the report of an enrolment.
LEMMA OffReal ==
  ASSUME Base, Real, NEW r, Off(r), r = "enrolled" => Enrolled
  PROVE  Real'
<1>1. /\ prog' = NoProg
      /\ hist' = [hist EXCEPT !.matched = @ /\ r = "enrolled", !.result = r]
  BY DEF Off
<1>2. hist'.result = r
  BY <1>1 DEF Base, Typed, HistType
<1>3. sensor'.print = sensor.print
  BY DEF Off, Base, Typed, SensorType
<1>4. Reported'
  BY <1>2, <1>3 DEF Reported, Enrolled
<1> QED BY <1>1, <1>4, NoProgIs DEF Real, Booting, Counting, Locked, Checking, Erasing, Unlocked,
       Confirmed, IsBooting, IsCounting, IsLocked, IsChecking, IsUnlocked

\* What every step of the program that reads or sends leaves as it is.
LEMMA ReadReal ==
  ASSUME Base, OffBlank, Shape, NEW a \in Answers, NEW sent, ReadTo(a, sent),
         [Next]_vars, RegionHolds'
  PROVE  Real'
<1>1. Typed' /\ Shape'
  BY ReadToBase, ShapeStep DEF Base
<1>2. Reported'
  BY ReadKeepsResult DEF Base, Shape, Reported
<1> QED BY <1>1, <1>2, RealAt, PTL

\* The same of a step that sends without a read.
LEMMA SendReal ==
  ASSUME Base, OffBlank, Shape, SendTo, [Next]_vars, RegionHolds'
  PROVE  Real'
<1>1. Typed' /\ Shape'
  BY SendToBase, ShapeStep DEF Base
<1>2. Reported'
  BY DEF SendTo, Shape, Reported
<1> QED BY <1>1, <1>2, RealAt, PTL

\* Power-up starts in the region of the boot.
LEMMA PowerUpReal ==
  ASSUME Base, OffBlank, Shape, PowerUp
  PROVE  Real'
<1>1. /\ prog'.at = "level" /\ Like(prog', prog) /\ hist' = NoHistory
      /\ line' = <<"level">> /\ rx' = <<>> /\ Base' /\ Shape'
  BY PowerUpDoes, PowerUpBase, ShapeStep DEF Base, Next
<1>2. Cold(rx') /\ Only(line', Plain)
  BY <1>1 DEF Cold, Only, Plain
<1>3. RegionHolds' /\ Reported'
  BY <1>1, <1>2 DEF RegionHolds, IsBooting, Booting, Reported, NoHistory
<1> QED BY <1>1, <1>3, RealAt, PTL DEF Base

\* A region holds on through a step of the program.
LEMMA ReadCarriesPlain ==
  ASSUME Typed, NEW a \in Answers, NEW sent, ReadTo(a, sent),
         Cold(rx), Only(line, Plain), prog'.at \in Awaits => Command(prog'.at) \in Plain
  PROVE  Cold(rx') /\ Only(line', Plain)
<1>1. "reset" \in Plain
  BY DEF Plain
<1> QED BY <1>1, ReadCold, ReadOnly DEF ReadTo

\* A validation goes on: the bound is as far away as the program says.
LEMMA ReadCarriesChecking ==
  ASSUME Typed, NEW a \in Answers, NEW sent, ReadTo(a, sent), Typed',
         IsChecking, Checking,
         prog'.at # "match", prog'.at \in Awaits => Command(prog'.at) \in Plain,
         Since' <= Since + Waiting',
         prog'.last > 0 => prog.last > 0 \/ a.n > 0, prog'.auth => prog.auth
  PROVE  Checking'
<1>1. /\ Enrolled /\ Only(line, Plain \union {"match"})
      /\ HotUpTo(line, rx, Lag + Waiting - Since)
      /\ ~Cold(rx) \/ prog.last > 0 \/ prog.auth => hist.matched
  BY DEF Checking
<1>2. Enrolled'
  BY <1>1 DEF Enrolled, ReadTo
<1>3. Only(line', Plain \union {"match"})
  <2>1. "reset" \in Plain
    BY DEF Plain
  <2> QED BY <1>1, <2>1, ReadOnly
<1>4. ~Cold(rx') \/ prog'.last > 0 \/ prog'.auth => hist'.matched
  BY <1>1, ReadCold, ReadKeepsResult DEF ReadTo
<1>5. HotUpTo(line', rx', Lag' + Waiting' - Since')
  <2>1. Since \in Int /\ Since' \in Int
    <3>1. Since \in Int
      BY SinceIs DEF SinceTyped
    <3>2. SinceTyped'
      BY SinceIs, PTL
    <3> QED BY <3>1, <3>2 DEF SinceTyped
  <2>2. Waiting = 1
    BY DEF Waiting, ReadTo
  <2>3. PICK k \in Int, n \in Int : k = Since /\ n = Since'
    BY <2>1
  <2>4. HotUpTo(line, rx, Lag + 1 - k)
    BY <1>1, <2>2, <2>3
  <2>5. n <= k + Waiting'
    BY <2>3
  <2>6. HotUpTo(line', rx', Lag' + Waiting' - n)
    BY <2>4, <2>5, ReadBound
  <2> QED BY <2>3, <2>6
<1>6. HotUpTo(line, rx, Lag + Waiting - Since)'
  BY <1>5 DEF HotUpTo
<1> QED BY <1>2, <1>3, <1>4, <1>6 DEF Checking

\* The same of a step that sends without a read.
LEMMA SendCarriesChecking ==
  ASSUME Typed, SendTo, Typed', IsChecking, Checking,
         prog'.at # "match", prog'.at \in Awaits => Command(prog'.at) \in Plain,
         Since' <= Since + Waiting', hist'.matched = hist.matched,
         ~Cold(rx) \/ prog'.last > 0 \/ prog'.auth => hist'.matched
  PROVE  Checking'
<1>1. /\ Enrolled /\ Only(line, Plain \union {"match"})
      /\ HotUpTo(line, rx, Lag + Waiting - Since)
  BY DEF Checking
<1>2. Enrolled' /\ rx' = rx
  BY <1>1 DEF Enrolled, SendTo
<1>3. Only(line', Plain \union {"match"})
  BY <1>1, SendOnly
<1>4. HotUpTo(line', rx', Lag' + Waiting' - Since')
  <2>1. Since \in Int /\ Since' \in Int /\ Lag \in Int
    <3>1. Since \in Int /\ Lag \in Int
      BY SinceIs, LagIsInt DEF SinceTyped
    <3>2. SinceTyped'
      BY SinceIs, PTL
    <3> QED BY <3>1, <3>2 DEF SinceTyped
  <2>2. Waiting = 0
    BY DEF Waiting, SendTo, Awaits, Resets
  <2>3. PICK k \in Int, n \in Int : k = Since /\ n = Since'
    BY <2>1
  <2>4. HotUpTo(line, rx, Lag - k)
    <3>1. Lag + Waiting - Since = Lag - k
      BY <2>1, <2>2, <2>3
    <3> QED BY <1>1, <3>1
  <2>5. n <= k + Waiting'
    BY <2>3
  <2>6. HotUpTo(line', rx', Lag' + Waiting' - n)
    BY <2>4, <2>5, SendBound
  <2> QED BY <2>3, <2>6
<1>5. HotUpTo(line, rx, Lag + Waiting - Since)'
  BY <1>4 DEF HotUpTo
<1> QED BY <1>2, <1>3, <1>5 DEF Checking

\* An unlocked device, or one that enrols, goes on.
LEMMA ReadCarriesUnlocked ==
  ASSUME Typed, NEW a \in Answers, NEW sent, ReadTo(a, sent), IsUnlocked, Unlocked,
         prog'.at \in Awaits => Command(prog'.at) # "erase",
         prog'.last > 0 => prog.last > 0
  PROVE  Unlocked'
<1>1. /\ ~Cold(rx) => Enrolled
      /\ EraseClean(line, rx)
      /\ prog.last > 0 => Enrolled /\ Only(line, Commands \ {"erase"})
  BY DEF Unlocked
<1>2. Enrolled' = Enrolled
  BY DEF Enrolled, ReadTo
<1>3. ~Cold(rx') => Enrolled'
  BY <1>1, <1>2, ReadCold DEF ReadTo
<1>4. EraseClean(line', rx')
  BY <1>1, ReadErase
<1>5. prog'.last > 0 => Enrolled' /\ Only(line', Commands \ {"erase"})
  <2>1. "reset" \in Commands \ {"erase"}
    BY DEF Commands
  <2>2. prog'.at \in Awaits => Command(prog'.at) \in Commands \ {"erase"}
    BY CommandTypes
  <2> QED BY <1>1, <1>2, <2>1, <2>2, ReadOnly
<1>6. EraseClean(line, rx)'
  BY <1>4 DEF EraseClean
<1> QED BY <1>3, <1>5, <1>6 DEF Unlocked

\* The same of a step that sends without a read.
LEMMA SendCarriesUnlocked ==
  ASSUME Typed, SendTo, IsUnlocked, Unlocked,
         prog'.at \in Awaits => Command(prog'.at) # "erase",
         prog'.last = prog.last
  PROVE  Unlocked'
<1>1. /\ ~Cold(rx) => Enrolled
      /\ EraseClean(line, rx)
      /\ prog.last > 0 => Enrolled /\ Only(line, Commands \ {"erase"})
  BY DEF Unlocked
<1>2. Enrolled' = Enrolled /\ rx' = rx
  BY DEF Enrolled, SendTo
<1>3. EraseClean(line', rx')
  BY <1>1, SendErase
<1>4. prog'.last > 0 => Enrolled' /\ Only(line', Commands \ {"erase"})
  <2>1. prog'.at \in Awaits => Command(prog'.at) \in Commands \ {"erase"}
    BY CommandTypes
  <2> QED BY <1>1, <1>2, <2>1, SendOnly
<1>5. EraseClean(line, rx)'
  BY <1>3 DEF EraseClean
<1> QED BY <1>1, <1>2, <1>4, <1>5 DEF Unlocked

\* A count is asked where no answer looks like a finger.
LEMMA CountAsked ==
  ASSUME NEW l \in Seq(Commands), NEW r, Only(l, Plain \union {"erase"}), Cold(r)
  PROVE  OwnCount(Append(l, "count"), r)
<1>1. /\ Len(Append(l, "count")) = Len(l) + 1 /\ Append(l, "count")[Len(l) + 1] = "count"
      /\ \A j \in 1..Len(l) : Append(l, "count")[j] = l[j]
      /\ Len(l) \in Nat
  BY AppendIs DEF Commands
<1>2. \A i \in 1..Len(r) : ~(r[i].n > 0)
  BY DEF Cold
<1>3. \A j \in 1..Len(Append(l, "count")) :
        \/ Append(l, "count")[j] \in Plain \union {"erase"}
        \/ Append(l, "count")[j] = "count" /\ j = Len(Append(l, "count"))
  BY <1>1 DEF Only
<1> QED BY <1>2, <1>3 DEF OwnCount

\* A count that finds a finger read its own answer.
LEMMA CountRead ==
  ASSUME Typed, NEW a \in Answers, Reads(a, line), OwnCount(line, rx)
  PROVE  /\ a.n > 0 => rx' = <<>> /\ line = <<>> /\ Enrolled
         /\ ~Cold(rx') => Enrolled
         /\ EraseClean(line, rx')
<1>1. \/ rx # <<>> /\ rx' = Tail(rx) /\ a = Head(rx)
      \/ rx = <<>> /\ rx' = rx /\ a = NoAnswer
  BY ReadTypes
<1>2. rx \in Seq(Answers) /\ line \in Seq(Commands)
  BY DEF Typed
<1>3. ASSUME a.n > 0
      PROVE  rx' = <<>> /\ line = <<>> /\ Enrolled
  <2>1. rx # <<>> /\ rx' = Tail(rx) /\ a = Head(rx)
    BY <1>1, <1>3 DEF NoAnswer
  <2>2. Len(Tail(rx)) = Len(rx) - 1 /\ Len(rx) >= 1 /\ a = rx[1] /\ Tail(rx) \in Seq(Answers)
    <3> HIDE DEF Answers
    <3> QED BY <1>2, <2>1, TailIs
  <2>3. 1 = Len(rx) /\ line = <<>> /\ Enrolled
    <3>1. Len(rx) \in Nat /\ 1 \in 1..Len(rx) /\ rx[1].n > 0
      BY <1>2, <1>3, <2>2
    <3> QED BY <3>1 DEF OwnCount
  <2>4. Len(Tail(rx)) = 0
    <3>1. Len(Tail(rx)) = Len(rx) - 1 /\ Len(rx) = 1
      BY <2>2, <2>3
    <3> QED BY <3>1
  <2>5. Tail(rx) = <<>>
    BY <2>2, <2>4, EmptySeq
  <2> QED BY <2>1, <2>3, <2>5
<1>4. ~Cold(rx) => Enrolled
  <2>1. \A i \in 1..Len(rx) : rx[i].n \in 0..1
    <3>1. \A i \in 1..Len(rx) : rx[i] \in Answers
      <4> HIDE DEF Answers
      <4> QED BY <1>2
    <3> QED BY <3>1 DEF Answers
  <2> QED BY <2>1 DEF OwnCount, Cold
<1>5. ~Cold(rx') => Enrolled
  BY <1>4, ReadCold
<1>6. EraseClean(line, rx')
  <2> SUFFICES ASSUME NEW j \in 1..Len(line), line[j] = "erase"
               PROVE  /\ Cold(rx')
                      /\ \A m \in 1..Len(line) : m < j => line[m] \notin {"match", "count"}
    BY DEF EraseClean
  <2>1. Cold(rx)
    <3>1. line # <<>>
      BY <1>2
    <3> QED BY <1>2, <3>1, OwnCountCold
  <2>2. \A m \in 1..Len(line) : m < j => line[m] \notin {"match", "count"}
    BY <1>2 DEF OwnCount, Plain
  <2> QED BY <2>1, <2>2, ReadCold
<1> QED BY <1>3, <1>5, <1>6

(***************************************************************************)
(* The steps of the program.                                               *)
(***************************************************************************)
\* A state the induction starts from, and the step it takes.
From == Base /\ OffBlank /\ Shape /\ Real

\* The types of that state.
LEMMA FromTypes ==
  ASSUME From
  PROVE  /\ Typed /\ prog \in ProgType /\ prog.call \in Calls /\ Shape
         /\ line \in Seq(Commands) /\ rx \in Seq(Answers)
BY DEF From, Base, Typed, ProgType

\* FPS_init.
LEMMA LevelReal ==
  ASSUME From, Level
  PROVE  Real'
<1>1. Typed /\ prog.at = "level"
  BY FromTypes, LevelDoes
<1>2. CASE Off("none")
  BY <1>2, OffReal DEF From
<1>3. CASE \E a \in Answers : ReadTo(a, line) /\ prog'.at = "bootReset" /\ Like(prog', prog)
  <2>1. PICK a \in Answers : ReadTo(a, line) /\ prog'.at = "bootReset"
    BY <1>3
  <2>2. Cold(rx) /\ Only(line, Plain)
    BY <1>1 DEF From, Real, Booting, IsBooting
  <2>3. Command("bootReset") \in Plain
    BY CommandIs DEF Resets, Plain
  <2>4. Cold(rx') /\ Only(line', Plain)
    BY <1>1, <2>1, <2>2, <2>3, ReadCarriesPlain
  <2>5. RegionHolds'
    BY <2>1, <2>4 DEF RegionHolds, IsBooting, Booting
  <2> QED BY <2>1, <2>5, ReadReal DEF From, Next
<1> QED BY <1>1, <1>2, <1>3, LevelDoes

\* The reset at boot.
LEMMA BootResetReal ==
  ASSUME From, Next, prog.at = "bootReset",
         \E a \in Answers : ReadTo(a, line) /\ prog'.at = "bootCount" /\ Like(prog', prog)
  PROVE  Real'
<1>1. PICK a \in Answers : ReadTo(a, line) /\ prog'.at = "bootCount"
  OBVIOUS
<1>2. Cold(rx) /\ Only(line, Plain) /\ Typed /\ line \in Seq(Commands)
  BY FromTypes DEF From, Real, Booting, IsBooting
<1>3. Cold(rx')
  BY <1>1, <1>2, ReadCold DEF ReadTo
<1>4. line' = Append(line, "count")
  BY <1>1, CommandIs DEF ReadTo, Awaits
<1>5. OwnCount(Append(line, "count"), rx')
  BY <1>2, <1>3, CountAsked DEF Only
<1>6. OwnCount(line, rx)'
  BY <1>4, <1>5 DEF OwnCount, Enrolled
<1>7. RegionHolds'
  BY <1>1, <1>6 DEF RegionHolds, IsCounting, Counting
<1> QED BY <1>1, <1>7, ReadReal DEF From

\* The count after an erase, and at boot.
LEMMA CountedReal ==
  ASSUME From, Next, IsCounting, NEW a \in Answers, ReadTo(a, line), prog'.at = "idle",
         prog'.locked = (a.ok /\ a.n > 0), prog'.last = 0, ~prog'.auth
  PROVE  Real'
<1>1. Typed /\ OwnCount(line, rx) /\ Reads(a, line)
  BY FromTypes DEF From, Real, Counting, ReadTo
<1>2. line' = line /\ Enrolled' = Enrolled
  BY DEF ReadTo, Awaits, Resets, Enrolled
<1>3. /\ a.n > 0 => rx' = <<>> /\ line = <<>> /\ Enrolled
      /\ ~Cold(rx') => Enrolled
      /\ EraseClean(line, rx')
  BY <1>1, CountRead
<1>4. CASE prog'.locked
  <2>1. rx' = <<>> /\ line' = <<>> /\ Enrolled'
    BY <1>2, <1>3, <1>4
  <2>2. Cold(rx') /\ Only(line', Plain)
    BY <2>1 DEF Cold, Only
  <2>3. RegionHolds'
    BY <1>4, <2>1, <2>2 DEF RegionHolds, IsLocked, Locked
  <2> QED BY <2>3, ReadReal DEF From
<1>5. CASE ~prog'.locked
  <2>1. EraseClean(line, rx)'
    BY <1>2, <1>3 DEF EraseClean
  <2>2. Unlocked'
    BY <1>2, <1>3, <2>1 DEF Unlocked
  <2>3. RegionHolds'
    BY <1>5, <2>2 DEF RegionHolds, IsUnlocked
  <2> QED BY <2>3, ReadReal DEF From
<1> QED BY <1>4, <1>5

\* The lock state at boot is true when it says locked.
LEMMA BootCountReal ==
  ASSUME From, BootCount
  PROVE  Real'
<1>1. Typed /\ Shape /\ prog.at = "bootCount"
  BY FromTypes, BootCountDoes
<1>2. PICK a \in Answers :
        /\ ReadTo(a, line) /\ prog'.at = "idle" /\ prog'.locked = (a.ok /\ a.n > 0)
        /\ prog'.last = prog.last /\ prog'.auth = prog.auth
  BY <1>1, BootCountDoes
<1>3. prog.last = 0 /\ ~prog.auth
  BY <1>1, FromTypes DEF Shape, NoneAt, LoopAt, EnrollAt, VerifyAt, Calls
<1> QED BY <1>1, <1>2, <1>3, CountedReal DEF IsCounting, Next

\* The lock state after an erase is true when it says locked.
LEMMA EraseCountReal ==
  ASSUME From, EraseCount
  PROVE  Real'
<1>1. Typed /\ prog.at = "eraseCount"
  BY FromTypes, EraseCountDoes
<1> QED BY <1>1, EraseCountDoes, CountedReal DEF IsCounting, Next

\* The erase of an unlock finds no match in the queue.
LEMMA EraseReal ==
  ASSUME From, Erase
  PROVE  Real'
<1>1. Typed /\ prog.at = "erase" /\ line \in Seq(Commands)
  BY FromTypes, EraseDoes
<1>2. PICK a \in Answers : ReadTo(a, line) /\ prog'.at = "eraseCount"
  BY <1>1, EraseDoes
<1>3. Cold(rx) /\ Only(line, Plain \union {"erase"})
  BY <1>1 DEF From, Real, Erasing
<1>4. Cold(rx')
  BY <1>1, <1>2, <1>3, ReadCold DEF ReadTo
<1>5. line' = Append(line, "count")
  BY <1>2, CommandIs DEF ReadTo, Awaits
<1>6. OwnCount(Append(line, "count"), rx')
  BY <1>1, <1>3, <1>4, CountAsked
<1>7. OwnCount(line, rx)'
  BY <1>5, <1>6 DEF OwnCount, Enrolled
<1>8. RegionHolds'
  BY <1>2, <1>7 DEF RegionHolds, IsCounting, Counting
<1> QED BY <1>2, <1>8, ReadReal DEF From, Next

\* Both ends of a step.
LEMMA ReadEnds ==
  ASSUME From, NEW a \in Answers, NEW sent, ReadTo(a, sent)
  PROVE  Typed' /\ SinceTyped' /\ SinceTyped
<1>1. Typed'
  BY ReadToBase DEF From, Base
<1>2. SinceTyped /\ SinceTyped'
  BY <1>1, SinceIs, FromTypes, PTL
<1> QED BY <1>1, <1>2

\* The same of a step that sends without a read.
LEMMA SendEnds ==
  ASSUME From, SendTo
  PROVE  Typed' /\ SinceTyped' /\ SinceTyped
<1>1. Typed'
  BY SendToBase DEF From, Base
<1>2. SinceTyped /\ SinceTyped'
  BY <1>1, SinceIs, FromTypes, PTL
<1> QED BY <1>1, <1>2

\* A touch begins.
LEMMA TouchReal ==
  ASSUME From, Touch
  PROVE  Real'
<1>1. /\ Typed /\ prog.at = "idle" /\ SendTo
      /\ prog'.at = "touchReset" /\ prog'.rests = 0 /\ Like(prog', prog)
      /\ prog.auth => hist'.matched = hist.matched
  BY FromTypes, TouchDoes
<1>2. Command("touchReset") = "reset" /\ "reset" \in Plain /\ "touchReset" \in Awaits
  BY CommandIs DEF Resets, Plain, Awaits
<1>3. Typed' /\ SinceTyped' /\ SinceTyped /\ Shape
  BY <1>1, SendEnds, FromTypes
<1>4. CASE prog.locked /\ ~prog.auth
  <2>1. Cold(rx) /\ Only(line, Plain) /\ Enrolled
    BY <1>1, <1>4 DEF From, Real, Locked, IsLocked
  <2>2. Cold(rx') /\ Only(line', Plain) /\ Enrolled'
    BY <1>1, <1>2, <2>1, SendOnly DEF SendTo, Enrolled
  <2>3. RegionHolds'
    BY <1>1, <1>4, <2>2 DEF RegionHolds, IsLocked, Locked, Like
  <2> QED BY <1>1, <2>3, SendReal DEF From, Next
<1>5. CASE prog.auth
  <2>1. IsChecking /\ Checking
    BY <1>1, <1>5 DEF From, Real, IsChecking
  <2>2. Since' <= Since + Waiting'
    <3>1. Since = Debounce + 1 /\ Since' = Debounce + 2 + 0 /\ Waiting' = 1 /\ Debounce \in Nat
      BY <1>1, <1>2, <1>3, LinkAssumption DEF SinceTyped, Waiting
    <3> QED BY <3>1
  <2>3. ~Cold(rx) \/ prog'.last > 0 \/ prog'.auth => hist'.matched
    BY <1>1, <1>5, <2>1 DEF Checking, Like
  <2>4. Checking'
    BY <1>1, <1>2, <1>3, <1>5, <2>1, <2>2, <2>3, SendCarriesChecking
  <2>5. RegionHolds'
    BY <1>1, <1>5, <2>4 DEF RegionHolds, IsChecking, Like
  <2> QED BY <1>1, <2>5, SendReal DEF From, Next
<1>6. CASE ~prog.locked
  <2>1. IsUnlocked /\ Unlocked
    BY <1>1, <1>6 DEF From, Real, IsUnlocked
  <2>2. Unlocked'
    BY <1>1, <1>2, <2>1, SendCarriesUnlocked DEF Like
  <2>3. RegionHolds'
    BY <1>1, <1>6, <2>2 DEF RegionHolds, IsUnlocked, Like
  <2> QED BY <1>1, <2>3, SendReal DEF From, Next
<1> QED BY <1>4, <1>5, <1>6

\* A long touch ends: this is where the lag must be few, since an unlock
\* erases the finger a late match would still be about.
LEMMA TouchResetReal ==
  ASSUME From, Next, prog.at = "touchReset", NEW a \in Answers, TouchEnds(a), Few'
  PROVE  Real'
<1> DEFINE sent == Sent(a)
<1>1. Typed /\ Shape /\ prog \in ProgType /\ ReadTo(a, sent)
  BY FromTypes DEF TouchEnds
<1>2. /\ Command("touchReset") = "reset" /\ "reset" \in Plain /\ "touchReset" \in Awaits
      /\ Command("userNum") = "count" /\ Command("erase") = "erase" /\ "erase" \in Awaits
      /\ "userNum" \in Awaits /\ "idle" \notin Awaits /\ "loop" \notin Awaits
  BY CommandIs DEF Resets, Plain, Awaits
<1>3. Typed' /\ SinceTyped' /\ SinceTyped
  BY <1>1, ReadEnds
<1>4. CASE prog.locked /\ ~prog.auth
  <2>1. /\ prog'.at \in {"touchReset", "idle"} /\ Like(prog', prog)
        \/ /\ prog'.at = "loop" /\ prog'.call = "validate" /\ prog'.last = 0
           /\ ~prog'.ret /\ prog'.locked /\ ~prog'.auth
    BY <1>4 DEF TouchEnds
  <2>2. Cold(rx) /\ Only(line, Plain) /\ Enrolled
    BY <1>4 DEF From, Real, Locked, IsLocked
  <2>3. Cold(rx') /\ Only(line', Plain) /\ Enrolled'
    BY <1>1, <1>2, <2>1, <2>2, ReadCarriesPlain DEF ReadTo, Enrolled
  <2>4. CASE prog'.at \in {"touchReset", "idle"} /\ Like(prog', prog)
    <3>1. RegionHolds'
      BY <1>4, <2>3, <2>4 DEF RegionHolds, IsLocked, Locked, Like
    <3> QED BY <1>1, <3>1, ReadReal DEF From
  <2>5. CASE /\ prog'.at = "loop" /\ prog'.call = "validate" /\ prog'.last = 0
             /\ ~prog'.auth
    <3>1. /\ line' \in Seq(Commands) /\ rx' \in Seq(Answers)
          /\ \A j \in 1..Len(line') : line'[j] # "match"
          /\ Only(line', Plain \union {"match"})
      BY <1>3, <2>3 DEF Typed, Only, Plain
    <3>2. (Lag + Waiting - Since)' \in Int
      <4>1. Lag' \in Nat /\ Waiting' \in Int /\ Since' \in Int
        BY <1>3, LagIsInt DEF Waiting, SinceTyped, Typed
      <4> QED BY <4>1
    <3>3. HotUpTo(line', rx', (Lag + Waiting - Since)')
      BY <2>3, <3>1, <3>2, HotCold
    <3>4. HotUpTo(line, rx, Lag + Waiting - Since)'
      BY <3>3 DEF HotUpTo
    <3>5. ~(prog'.last > 0)
      BY <2>5
    <3>6. RegionHolds'
      BY <2>3, <2>5, <3>1, <3>4, <3>5 DEF RegionHolds, IsChecking, Checking
    <3> QED BY <1>1, <3>6, ReadReal DEF From
  <2> QED BY <2>1, <2>4, <2>5
<1>5. CASE prog.auth
  <2>1. IsChecking /\ Checking /\ prog.locked
    BY <1>1, <1>5 DEF From, Real, IsChecking, Shape
  <2>2. CASE prog'.at \in {"touchReset", "idle"} /\ Like(prog', prog)
    <3>1. Since' <= Since + Waiting'
      <4>1. Debounce \in Nat /\ prog.rests \in Nat /\ Since = Debounce + 2 + prog.rests
        BY <1>1, <1>3, LinkAssumption DEF SinceTyped, ProgType
      <4>2. CASE prog'.at = "touchReset"
        <5>1. prog'.rests <= prog.rests + 1 /\ prog'.rests \in Nat
          BY <1>1, <4>2 DEF TouchEnds, ReadTo, ProgType
        <5>2. Since' = Debounce + 2 + prog'.rests /\ Waiting' = 1
          BY <1>2, <1>3, <4>2 DEF SinceTyped, Waiting
        <5> QED BY <4>1, <5>1, <5>2
      <4>3. CASE prog'.at = "idle"
        <5>1. Since' = Debounce + 1 /\ Waiting' = 0
          BY <1>2, <1>3, <4>3 DEF SinceTyped, Waiting
        <5> QED BY <4>1, <5>1
      <4> QED BY <2>2, <4>2, <4>3
    <3>2. Checking'
      BY <1>1, <1>2, <1>3, <2>1, <2>2, <3>1, ReadCarriesChecking DEF Like
    <3>3. RegionHolds'
      BY <1>5, <2>2, <3>2 DEF RegionHolds, IsChecking, Like
    <3> QED BY <1>1, <3>3, ReadReal DEF From
  <2>3. CASE prog.rests >= TouchResets /\ prog'.at = "erase" /\ Like(prog', prog)
    <3>1. /\ Only(line, Plain \union {"match"})
          /\ HotUpTo(line, rx, Lag + Waiting - Since)
      BY <2>1 DEF Checking
    <3>2. PICK k \in Int, y \in Int, d \in Nat, t \in Nat :
            k = Since /\ y = Lag' /\ d = Debounce /\ t = TouchResets
      BY <1>3, LagIsInt, LinkAssumption, SMTT(30) DEF SinceTyped, Typed
    <3>3. Waiting = 1
      BY <1>2 DEF Waiting
    <3>4. HotUpTo(sent, rx', y - k)
      <4>1. HotUpTo(line, rx, Lag + 1 - k)
        BY <3>1, <3>2, <3>3
      <4> QED BY <1>1, <3>2, <4>1, ReadHot DEF ReadTo
    <3>5. y - k \in Int /\ y - k <= 0
      <4>1. y <= d + t + 2
        BY <3>2 DEF Few
      <4>2. k = d + 2 + prog.rests /\ prog.rests >= t /\ prog.rests \in Nat
        BY <1>1, <1>3, <2>3, <3>2 DEF SinceTyped, ProgType
      <4> QED BY <3>2, <4>1, <4>2
    <3>6. sent \in Seq(Commands) /\ rx' \in Seq(Answers)
      BY <1>1, ReadTypes DEF ReadTo
    <3>7. Cold(rx') /\ Only(sent, Commands \ {"match"})
      BY <3>4, <3>5, <3>6, HotNone
    <3>8. Only(sent, Plain \union {"match"})
      <4>1. line \in Seq(Commands) /\ "reset" \in Commands /\ "reset" \in Plain \union {"match"}
        BY <1>1 DEF Typed, Commands, Plain
      <4>2. sent = line \/ sent = Append(line, "reset")
        BY <1>1, ReadTypes DEF ReadTo
      <4> QED BY <3>1, <4>1, <4>2, OnlyMore
    <3>9. Only(sent, Plain \union {"erase"})
      BY <3>7, <3>8 DEF Only
    <3>10. Only(line', Plain \union {"erase"})
      <4>1. line' = Append(sent, "erase") /\ "erase" \in Commands
        BY <1>1, <1>2, <2>3 DEF ReadTo, Commands
      <4> QED BY <3>6, <3>9, <4>1, OnlyMore
    <3>11. RegionHolds'
      BY <2>3, <3>7, <3>10 DEF RegionHolds, Erasing
    <3> QED BY <1>1, <3>11, ReadReal DEF From
  <2> QED BY <1>5, <2>1, <2>2, <2>3 DEF TouchEnds
<1>6. CASE ~prog.locked
  <2>1. IsUnlocked /\ Unlocked /\ prog.last = 0 /\ ~prog.auth
    BY <1>1, <1>6, FromTypes
       DEF From, Real, IsUnlocked, Shape, Calls, LoopAt, EnrollAt, VerifyAt
  <2>2. /\ prog'.at \in {"touchReset", "idle", "userNum"} /\ ~prog'.locked
        /\ prog'.last = 0
    BY <1>6, <2>1, NoProgIs DEF TouchEnds, Like
  <2>3. prog'.at \in Awaits => Command(prog'.at) # "erase"
    BY <1>2, <2>2
  <2>4. ~(prog'.last > 0)
    BY <2>2
  <2>5. Unlocked'
    BY <1>1, <2>1, <2>3, <2>4, ReadCarriesUnlocked
  <2>6. RegionHolds'
    BY <2>2, <2>5 DEF RegionHolds, IsUnlocked
  <2> QED BY <1>1, <2>6, ReadReal DEF From
<1> QED BY <1>4, <1>5, <1>6

\* The command of a point in a loop is neither a count nor an erase.
LEMMA LoopCommands ==
  /\ Command("restReset") = "reset" /\ Command("lastReset") = "reset"
  /\ Command("capture") = "capture" /\ Command("match") = "match"
  /\ "reset" \in Plain /\ "capture" \in Plain
  /\ {"restReset", "lastReset", "capture", "match"} \subseteq Awaits
  /\ "loop" \notin Awaits /\ "idle" \notin Awaits
BY CommandIs DEF Resets, Plain, Awaits

\* A reset sent again keeps the bound: it is a timeout.
LEMMA ResetAgainReal ==
  ASSUME From, ResetAgain
  PROVE  Real'
<1>1. Typed /\ Shape /\ prog.at \in Resets
  BY FromTypes, ResetAgainDoes
<1>2. PICK a \in Answers :
        /\ ReadTo(a, line) /\ prog'.at = prog.at /\ prog'.rests = prog.rests
        /\ Like(prog', prog)
  BY <1>1, ResetAgainDoes
<1>3. /\ Command(prog'.at) = "reset" /\ "reset" \in Plain /\ prog'.at \in Awaits
      /\ "reset" \in Commands \ {"erase"} /\ prog'.at # "match"
  BY <1>1, <1>2, CommandIs DEF Plain, Awaits, Resets, Commands
<1>4. Next
  BY DEF Next
<1>5. CASE IsBooting \/ IsLocked
  <2>1. Cold(rx) /\ Only(line, Plain) /\ (IsLocked => Enrolled)
    BY <1>5 DEF From, Real, Booting, Locked
  <2>2. Cold(rx') /\ Only(line', Plain) /\ Enrolled' = Enrolled
    BY <1>1, <1>2, <1>3, <2>1, ReadCarriesPlain DEF ReadTo, Enrolled
  <2>3. RegionHolds'
    BY <1>2, <1>5, <2>1, <2>2
       DEF RegionHolds, IsBooting, IsLocked, Booting, Locked, Like
  <2> QED BY <1>2, <1>4, <2>3, ReadReal DEF From
<1>6. CASE IsChecking
  <2>1. Checking
    BY DEF From, Real
  <2>2. Typed' /\ SinceTyped /\ SinceTyped' /\ Since' = Since
    BY <1>2, ReadEnds DEF Since
  <2>3. Since' <= Since + Waiting'
    <3>1. Since \in Int /\ Waiting' = 1 /\ Since' = Since
      BY <1>3, <2>2 DEF SinceTyped, Waiting
    <3> QED BY <3>1
  <2>4. Checking'
    BY <1>1, <1>2, <1>3, <1>6, <2>1, <2>2, <2>3, ReadCarriesChecking DEF Like
  <2>5. RegionHolds'
    BY <1>2, <1>6, <2>4 DEF RegionHolds, IsChecking, Like
  <2> QED BY <1>2, <1>4, <2>5, ReadReal DEF From
<1>7. CASE IsUnlocked
  <2>1. Unlocked
    BY DEF From, Real
  <2>2. Unlocked'
    BY <1>1, <1>2, <1>3, <1>7, <2>1, ReadCarriesUnlocked DEF Like
  <2>3. RegionHolds'
    BY <1>2, <1>7, <2>2 DEF RegionHolds, IsUnlocked, Like
  <2> QED BY <1>2, <1>4, <2>3, ReadReal DEF From
<1>8. CASE prog.at = "lastReset"
  <2>1. Confirmed'
    <3> SUFFICES ASSUME prog'.ret PROVE Enrolled' /\ Only(line', Commands \ {"erase"})
      BY DEF Confirmed
    <3>1. Enrolled /\ Only(line, Commands \ {"erase"})
      BY <1>2, <1>8 DEF From, Real, Confirmed, Like
    <3>2. Only(line', Commands \ {"erase"})
      BY <1>1, <1>2, <1>3, <3>1, ReadOnly
    <3> QED BY <1>2, <3>1, <3>2 DEF ReadTo, Enrolled
  <2>2. RegionHolds'
    BY <1>2, <1>8, <2>1 DEF RegionHolds
  <2> QED BY <1>2, <1>4, <2>2, ReadReal DEF From
<1>9. IsBooting \/ IsLocked \/ IsChecking \/ IsUnlocked \/ prog.at = "lastReset"
  BY <1>1, FromTypes
     DEF IsBooting, IsLocked, IsChecking, IsUnlocked, Resets, Shape, Calls, NoneAt
<1> QED BY <1>5, <1>6, <1>7, <1>8, <1>9

\* A loop of captures is a validation's, or an enrolment's.
LEMMA InLoop ==
  ASSUME From, prog.at \in LoopAt
  PROVE  \/ prog.call = "validate" /\ IsChecking /\ Checking
         \/ prog.call \in {"enroll", "verify"} /\ IsUnlocked /\ Unlocked
<1>1. prog.call \in {"validate", "enroll", "verify"}
  BY FromTypes DEF Shape, LoopAt, NoneAt, Calls
<1> QED BY <1>1 DEF From, Real, IsChecking, IsUnlocked, LoopAt

\* Between two captures each reset takes one answer off.
LEMMA RestResetReal ==
  ASSUME From, Next, prog.at = "restReset", NEW a \in Answers, RestEnds(a)
  PROVE  Real'
<1> DEFINE sent == Sent(a)
<1>1. /\ Typed /\ prog \in ProgType /\ ReadTo(a, sent) /\ Like(prog', prog)
      /\ \/ prog'.at = "restReset" /\ prog'.rests <= prog.rests + 1
         \/ prog.rests >= Debounce /\ prog'.at = "loop"
  BY FromTypes DEF RestEnds
<1>2. Typed' /\ SinceTyped' /\ SinceTyped
  BY <1>1, ReadEnds
<1>3. CASE prog.call = "validate" /\ IsChecking /\ Checking
  <2>1. Since' <= Since + Waiting'
    <3>1. Since = prog.rests + 1 /\ prog.rests \in Nat /\ Debounce \in Nat
      BY <1>1, <1>2, LinkAssumption DEF SinceTyped, ProgType
    <3>2. CASE prog'.at = "restReset"
      <4>1. Since' = prog'.rests + 1 /\ Waiting' = 1 /\ prog'.rests \in Nat
        BY <1>1, <1>2, <3>2, LoopCommands DEF SinceTyped, Waiting, ReadTo, ProgType
      <4>2. prog'.rests <= prog.rests + 1
        BY <1>1, <3>2
      <4> QED BY <3>1, <4>1, <4>2
    <3>3. CASE prog'.at = "loop"
      <4>1. Since' = Debounce + 1 /\ Waiting' = 0
        BY <1>2, <3>3, LoopCommands DEF SinceTyped, Waiting
      <4>2. prog.rests >= Debounce
        BY <1>1, <3>3
      <4> QED BY <3>1, <4>1, <4>2
    <3> QED BY <1>1, <3>2, <3>3
  <2>2. Checking'
    BY <1>1, <1>2, <1>3, <2>1, LoopCommands, ReadCarriesChecking DEF Like
  <2>3. RegionHolds'
    BY <1>1, <1>3, <2>2 DEF RegionHolds, IsChecking, Like
  <2> QED BY <1>1, <2>3, ReadReal DEF From
<1>4. CASE prog.call \in {"enroll", "verify"} /\ IsUnlocked /\ Unlocked
  <2>1. Unlocked'
    BY <1>1, <1>4, LoopCommands, ReadCarriesUnlocked DEF Like
  <2>2. RegionHolds'
    BY <1>1, <1>4, <2>1 DEF RegionHolds, IsUnlocked, Like
  <2> QED BY <1>1, <2>2, ReadReal DEF From
<1> QED BY <1>3, <1>4, InLoop DEF LoopAt

\* The next capture.
LEMMA PressReal ==
  ASSUME From, Press
  PROVE  Real'
<1>1. /\ Typed /\ prog.at = "loop" /\ SendTo
      /\ prog'.at = "capture" /\ Like(prog', prog) /\ UNCHANGED hist
  BY FromTypes, PressDoes
<1>2. Typed' /\ SinceTyped' /\ SinceTyped
  BY <1>1, SendEnds
<1>3. CASE prog.call = "validate" /\ IsChecking /\ Checking
  <2>1. Since' <= Since + Waiting'
    <3>1. Since = Debounce + 1 /\ Since' = Debounce + 2 /\ Waiting' = 1 /\ Debounce \in Nat
      BY <1>1, <1>2, LoopCommands, LinkAssumption DEF SinceTyped, Waiting
    <3> QED BY <3>1
  <2>2. ~Cold(rx) \/ prog'.last > 0 \/ prog'.auth => hist'.matched
    BY <1>1, <1>3 DEF Checking, Like
  <2>3. Checking'
    BY <1>1, <1>2, <1>3, <2>1, <2>2, LoopCommands, SendCarriesChecking
  <2>4. RegionHolds'
    BY <1>1, <1>3, <2>3 DEF RegionHolds, IsChecking, Like
  <2> QED BY <1>1, <2>4, SendReal DEF From, Next
<1>4. CASE prog.call \in {"enroll", "verify"} /\ IsUnlocked /\ Unlocked
  <2>1. Unlocked'
    BY <1>1, <1>4, LoopCommands, SendCarriesUnlocked DEF Like
  <2>2. RegionHolds'
    BY <1>1, <1>4, <2>1 DEF RegionHolds, IsUnlocked, Like
  <2> QED BY <1>1, <2>2, SendReal DEF From, Next
<1> QED BY <1>1, <1>3, <1>4, InLoop DEF LoopAt

\* After a capture.
LEMMA CaptureReal ==
  ASSUME From, Capture
  PROVE  Real'
<1>1. Typed /\ prog.at = "capture"
  BY FromTypes, CaptureDoes
<1>2. PICK a \in Answers :
        /\ ReadTo(a, line) /\ Like(prog', prog)
        /\ \/ prog'.at = "restReset" /\ prog'.rests = 0
           \/ prog.call # "enroll" /\ prog'.at = "match"
  BY <1>1, CaptureDoes
<1>3. Typed' /\ SinceTyped' /\ SinceTyped
  BY <1>2, ReadEnds
<1>4. CASE prog.call = "validate" /\ IsChecking /\ Checking
  <2>1. CASE prog'.at = "restReset" /\ prog'.rests = 0
    <3>1. Since' <= Since + Waiting'
      <4>1. Since = Debounce + 2 /\ Since' = 0 + 1 /\ Waiting' = 1 /\ Debounce \in Nat
        BY <1>1, <1>3, <2>1, LoopCommands, LinkAssumption DEF SinceTyped, Waiting
      <4> QED BY <4>1
    <3>2. Checking'
      BY <1>1, <1>2, <1>3, <1>4, <2>1, <3>1, LoopCommands, ReadCarriesChecking DEF Like
    <3>3. RegionHolds'
      BY <1>2, <1>4, <3>2 DEF RegionHolds, IsChecking, Like
    <3> QED BY <1>2, <3>3, ReadReal DEF From, Next
  <2>2. CASE prog'.at = "match"
    <3>1. /\ Enrolled /\ Only(line, Plain \union {"match"})
          /\ ~Cold(rx) \/ prog.last > 0 \/ prog.auth => hist.matched
      BY <1>4 DEF Checking
    <3>2. HotUpTo(line, rx, Lag + Waiting - Since)'
      <4>1. HotUpTo(line', rx', Lag' + 1)
        BY <1>2, <2>2, MatchBound DEF From
      <4>2. Waiting' = 1 /\ Since' = 0 /\ Lag' \in Nat
        BY <1>3, <2>2, LoopCommands, LagIsInt DEF SinceTyped, Waiting, Typed
      <4>3. (Lag + Waiting - Since)' = Lag' + 1
        BY <4>2
      <4>4. HotUpTo(line', rx', (Lag + Waiting - Since)')
        BY <4>1, <4>3
      <4> QED BY <4>4 DEF HotUpTo
    <3>3. Only(line', Plain \union {"match"})
      BY <1>1, <1>2, <2>2, <3>1, LoopCommands, ReadOnly
    <3>4. ~Cold(rx') \/ prog'.last > 0 \/ prog'.auth => hist'.matched
      BY <1>1, <1>2, <3>1, ReadCold, ReadKeepsResult DEF ReadTo, Like
    <3>5. Enrolled'
      BY <1>2, <3>1 DEF ReadTo, Enrolled
    <3>6. Checking'
      BY <3>2, <3>3, <3>4, <3>5 DEF Checking
    <3>7. RegionHolds'
      BY <1>2, <1>4, <3>6 DEF RegionHolds, IsChecking, Like
    <3> QED BY <1>2, <3>7, ReadReal DEF From, Next
  <2> QED BY <1>2, <2>1, <2>2
<1>5. CASE prog.call \in {"enroll", "verify"} /\ IsUnlocked /\ Unlocked
  <2>1. prog'.at \in {"restReset", "match"}
    BY <1>2
  <2>2. Unlocked'
    BY <1>1, <1>2, <1>5, <2>1, LoopCommands, ReadCarriesUnlocked DEF Like
  <2>3. RegionHolds'
    BY <1>2, <1>5, <2>1, <2>2 DEF RegionHolds, IsUnlocked, Like
  <2> QED BY <1>2, <2>3, ReadReal DEF From, Next
<1> QED BY <1>1, <1>4, <1>5, InLoop DEF LoopAt

\* A match that is found was made: the answer is about the enrolled finger.
LEMMA MatchReal ==
  ASSUME From, Match
  PROVE  Real'
<1>1. Typed /\ prog.at = "match"
  BY FromTypes, MatchDoes
<1>2. PICK a \in Answers :
        /\ ReadTo(a, line) /\ prog'.at = "restReset" /\ prog'.rests = 0
        /\ prog'.last = a.n /\ prog'.call = prog.call
        /\ prog'.ret = prog.ret /\ prog'.locked = prog.locked /\ prog'.auth = prog.auth
  BY <1>1, MatchDoes
<1>3. Typed' /\ SinceTyped' /\ SinceTyped
  BY <1>2, ReadEnds
<1>4. CASE prog.call = "validate" /\ IsChecking /\ Checking
  <2>1. Since' <= Since + Waiting'
    <3>1. Since = 0 /\ Since' = 0 + 1 /\ Waiting' = 1
      BY <1>1, <1>2, <1>3, LoopCommands DEF SinceTyped, Waiting
    <3> QED BY <3>1
  <2>2. Checking'
    BY <1>1, <1>2, <1>3, <1>4, <2>1, LoopCommands, ReadCarriesChecking
  <2>3. RegionHolds'
    BY <1>2, <1>4, <2>2 DEF RegionHolds, IsChecking
  <2> QED BY <1>2, <2>3, ReadReal DEF From, Next
<1>5. CASE prog.call \in {"enroll", "verify"} /\ IsUnlocked /\ Unlocked
  <2>1. CASE a.n = 0
    <3>1. ~(prog'.last > 0)
      BY <1>2, <2>1
    <3>2. Unlocked'
      BY <1>1, <1>2, <1>5, <3>1, LoopCommands, ReadCarriesUnlocked
    <3>3. RegionHolds'
      BY <1>2, <1>5, <3>2 DEF RegionHolds, IsUnlocked
    <3> QED BY <1>2, <3>3, ReadReal DEF From, Next
  <2>2. CASE a.n > 0
    <3>1. ~Cold(rx)
      BY <1>1, <1>2, <2>2, ReadCold DEF ReadTo
    <3>2. Enrolled /\ EraseClean(line, rx)
      BY <1>5, <3>1 DEF Unlocked
    <3>3. Only(line, Commands \ {"erase"})
      BY <1>1, <3>1, <3>2 DEF EraseClean, Only, Typed
    <3>4. Only(line', Commands \ {"erase"})
      <4>1. "reset" \in Commands \ {"erase"}
        BY DEF Commands
      <4> QED BY <1>1, <1>2, <3>3, <4>1, LoopCommands, ReadOnly
    <3>5. EraseClean(line', rx')
      BY <1>1, <1>2, <3>2, LoopCommands, ReadErase
    <3>6. Enrolled'
      BY <1>2, <3>2 DEF ReadTo, Enrolled
    <3>7. EraseClean(line, rx)'
      BY <3>5 DEF EraseClean
    <3>8. RegionHolds'
      BY <1>2, <1>5, <3>4, <3>6, <3>7 DEF RegionHolds, IsUnlocked, Unlocked
    <3> QED BY <1>2, <3>8, ReadReal DEF From, Next
  <2>3. a.n \in 0..1
    BY DEF Answers
  <2> QED BY <2>1, <2>2, <2>3
<1> QED BY <1>1, <1>4, <1>5, InLoop DEF LoopAt

\* A validation that succeeds is real.
LEMMA ValidatedReal ==
  ASSUME From, Validated
  PROVE  Real'
<1>1. Typed /\ prog.at = "loop" /\ prog.call = "validate"
  BY FromTypes, ValidatedDoes
<1>2. CASE Off("none")
  BY <1>2, OffReal DEF From
<1>3. CASE /\ SendTo /\ prog.last > 0 /\ UNCHANGED hist
           /\ prog'.at = "idle" /\ prog'.call = "none" /\ prog'.last = 0
           /\ ~prog'.ret /\ prog'.locked /\ prog'.auth
  <2>1. IsChecking /\ Checking
    BY <1>1 DEF From, Real, IsChecking
  <2>2. Typed' /\ SinceTyped' /\ SinceTyped
    BY <1>3, SendEnds
  <2>3. Since' <= Since + Waiting'
    <3>1. Since = Debounce + 1 /\ Since' = Debounce + 1 /\ Waiting' = 0 /\ Debounce \in Nat
      BY <1>1, <1>3, <2>2, LoopCommands, LinkAssumption DEF SinceTyped, Waiting
    <3> QED BY <3>1
  <2>4. hist'.matched
    BY <1>3, <2>1 DEF Checking
  <2>5. Checking'
    BY <1>1, <1>3, <2>1, <2>2, <2>3, <2>4, LoopCommands, SendCarriesChecking
  <2>6. RegionHolds'
    BY <1>3, <2>5 DEF RegionHolds, IsChecking
  <2> QED BY <1>3, <2>6, SendReal DEF From, Next
<1> QED BY <1>1, <1>2, <1>3, ValidatedDoes

\* The points of an enrolment.
LEMMA EnrollCommands ==
  /\ Command("preCount") = "count" /\ Command("enroll") = "enroll"
  /\ Command("postCount") = "count" /\ "loop" \notin Awaits
BY CommandIs DEF Awaits, Resets

\* An enrolment goes on.
LEMMA EnrollingReal ==
  ASSUME From, Next, NEW a \in Answers, ReadTo(a, line), IsUnlocked,
         prog'.call \in {"enroll", "verify"},
         prog'.at \in {"loop", "enroll", "postCount"}, prog'.last = prog.last
  PROVE  Real'
<1>1. Typed /\ Unlocked
  BY FromTypes DEF From, Real
<1>2. Unlocked'
  BY <1>1, EnrollCommands, ReadCarriesUnlocked
<1>3. RegionHolds'
  BY <1>2 DEF RegionHolds, IsUnlocked
<1> QED BY <1>3, ReadReal DEF From

\* An enrolment begins.
LEMMA UserNumReal ==
  ASSUME From, UserNum
  PROVE  Real'
<1>1. Typed /\ prog.at = "userNum"
  BY FromTypes, UserNumDoes
<1>2. CASE Off("none")
  BY <1>2, OffReal DEF From
<1>3. CASE \E a \in Answers :
             /\ ReadTo(a, line) /\ prog'.at = "loop" /\ prog'.call = "enroll"
             /\ prog'.last = prog.last /\ prog'.ret = prog.ret
             /\ prog'.locked = prog.locked /\ prog'.auth = prog.auth
  <2>1. IsUnlocked
    BY <1>1, FromTypes DEF Shape, IsUnlocked
  <2> QED BY <1>3, <2>1, EnrollingReal DEF Next
<1> QED BY <1>1, <1>2, <1>3, UserNumDoes

\* A point of an enrolment whose sensor has been told.
LEMMA InEnroll ==
  ASSUME From, prog.at \in {"preCount", "enroll", "postCount"}
  PROVE  prog.call = "enroll" /\ IsUnlocked
<1>1. prog.call = "enroll"
  BY FromTypes DEF Shape, NoneAt, LoopAt, VerifyAt, Calls
<1> QED BY <1>1 DEF IsUnlocked

\* The count before an enrolment.
LEMMA PreCountReal ==
  ASSUME From, PreCount
  PROVE  Real'
<1>1. Typed /\ prog.at = "preCount"
  BY FromTypes, PreCountDoes
<1>2. PICK a \in Answers : ReadTo(a, line) /\ prog'.at = "enroll" /\ Like(prog', prog)
  BY <1>1, PreCountDoes
<1> QED BY <1>1, <1>2, InEnroll, EnrollingReal DEF Like, Next

\* The enrolment.
LEMMA EnrollReal ==
  ASSUME From, Enroll
  PROVE  Real'
<1>1. Typed /\ prog.at = "enroll"
  BY FromTypes, EnrollDoes
<1>2. PICK a \in Answers :
        /\ ReadTo(a, line) /\ prog'.at = "postCount" /\ prog'.call = prog.call
        /\ prog'.last = prog.last
  BY <1>1, EnrollDoes
<1> QED BY <1>1, <1>2, InEnroll, EnrollingReal DEF Next

\* The count after it.
LEMMA PostCountReal ==
  ASSUME From, PostCount
  PROVE  Real'
<1>1. Typed /\ prog.at = "postCount"
  BY FromTypes, PostCountDoes
<1>2. PICK a \in Answers :
        /\ ReadTo(a, line) /\ prog'.last = prog.last
        /\ \/ prog'.at = "loop" /\ prog'.call = "verify"
           \/ prog'.at = "lastReset" /\ prog'.call = prog.call /\ ~prog'.ret
  BY <1>1, PostCountDoes
<1>3. CASE prog'.at = "loop" /\ prog'.call = "verify"
  BY <1>1, <1>2, <1>3, InEnroll, EnrollingReal DEF Next
<1>4. CASE prog'.at = "lastReset" /\ ~prog'.ret
  <2>1. RegionHolds'
    BY <1>4 DEF RegionHolds, Confirmed
  <2> QED BY <1>2, <2>1, ReadReal DEF From, Next
<1> QED BY <1>2, <1>3, <1>4

\* The captures end.
LEMMA CapturedReal ==
  ASSUME From, Captured
  PROVE  Real'
<1>1. /\ Typed /\ Shape /\ prog.at = "loop" /\ prog.call = "enroll" /\ SendTo
      /\ prog'.at \in {"lastReset", "preCount"} /\ Like(prog', prog)
  BY FromTypes, CapturedDoes
<1>2. CASE prog'.at = "preCount"
  <2>1. IsUnlocked /\ Unlocked
    BY <1>1 DEF From, Real, IsUnlocked
  <2>2. Unlocked'
    BY <1>1, <1>2, <2>1, EnrollCommands, SendCarriesUnlocked DEF Like
  <2>3. RegionHolds'
    BY <1>1, <1>2, <2>2 DEF RegionHolds, IsUnlocked, Like
  <2> QED BY <1>1, <2>3, SendReal DEF From, Next
<1>3. CASE prog'.at = "lastReset"
  <2>1. ~prog'.ret
    BY <1>1 DEF Shape, Like
  <2>2. RegionHolds'
    BY <1>3, <2>1 DEF RegionHolds, Confirmed
  <2> QED BY <1>1, <2>2, SendReal DEF From, Next
<1> QED BY <1>1, <1>2, <1>3

\* A confirmation found a finger, or erases.
LEMMA VerifiedReal ==
  ASSUME From, Verified
  PROVE  Real'
<1>1. /\ Typed /\ prog.at = "loop" /\ prog.call = "verify" /\ SendTo
      /\ Like(prog', prog)
      /\ \/ prog.last > 0 /\ prog'.at = "lastReset"
         \/ ~(prog.last > 0) /\ prog'.at = "eraseBad"
  BY FromTypes, VerifiedDoes
<1>2. CASE prog.last > 0 /\ prog'.at = "lastReset"
  <2>1. Enrolled /\ Only(line, Commands \ {"erase"})
    BY <1>1, <1>2 DEF From, Real, Unlocked, IsUnlocked
  <2>2. Only(line', Commands \ {"erase"})
    <3>1. Command("lastReset") \in Commands \ {"erase"}
      BY LoopCommands DEF Commands
    <3> QED BY <1>1, <1>2, <2>1, <3>1, SendOnly
  <2>3. RegionHolds'
    BY <1>1, <1>2, <2>1, <2>2 DEF RegionHolds, Confirmed, SendTo, Enrolled
  <2> QED BY <1>1, <2>3, SendReal DEF From, Next
<1>3. CASE prog'.at = "eraseBad"
  <2>1. RegionHolds'
    BY <1>3 DEF RegionHolds
  <2> QED BY <1>1, <2>1, SendReal DEF From, Next
<1> QED BY <1>1, <1>2, <1>3

\* An enrolment that was erased is not confirmed.
LEMMA EraseBadReal ==
  ASSUME From, EraseBad
  PROVE  Real'
<1>1. Typed
  BY FromTypes
<1>2. PICK a \in Answers : ReadTo(a, line) /\ prog'.at = "lastReset" /\ ~prog'.ret
  BY <1>1, EraseBadDoes
<1>3. RegionHolds'
  BY <1>2 DEF RegionHolds, Confirmed
<1> QED BY <1>2, <1>3, ReadReal DEF From, Next

\* An enrolment is reported as done where it was confirmed.
LEMMA LastResetReal ==
  ASSUME From, prog.at = "lastReset", Off(IF prog.ret THEN "enrolled" ELSE "failed")
  PROVE  Real'
<1>1. CASE prog.ret
  <2>1. Off("enrolled") /\ Enrolled
    BY <1>1 DEF From, Real, Confirmed
  <2> QED BY <2>1, OffReal DEF From
<1>2. CASE ~prog.ret
  <2>1. Off("failed")
    BY <1>2
  <2> QED BY <2>1, OffReal DEF From
<1> QED BY <1>1, <1>2

\* The ends of FPS_resetSensor.
LEMMA ResetEndsReal ==
  ASSUME From, ResetEnds, Few'
  PROVE  Real'
<1>1. Typed /\ Next
  BY FromTypes DEF Next
<1>2. CASE Off("none")
  BY <1>2, OffReal DEF From
<1> QED BY <1>1, <1>2, ResetEndsDoes, LastResetReal, BootResetReal, TouchResetReal, RestResetReal

(***************************************************************************)
(* The invariant.                                                          *)
(***************************************************************************)
\* The inductive invariant.
LinkInv == Base /\ OffBlank /\ Shape /\ (Few => Real)

\* Without switching on, no step makes the answers that are late fewer.
LEMMA FewStep ==
  ASSUME Typed, Next, ~PowerUp, Few'
  PROVE  Few
<1>1. CASE SensorAnswers
  <2>1. Lag' = Lag
    BY <1>1, SensorDoes DEF Lag
  <2> QED BY <2>1 DEF Few
<1>2. CASE SendTo
  <2>1. Lag' = Lag
    BY <1>2 DEF SendTo, Lag
  <2> QED BY <2>1 DEF Few
<1>3. ASSUME NEW r, Off(r)
      PROVE  Few
  <2>1. Lag' = Lag
    BY <1>3 DEF Off, Lag, Typed, HistType
  <2> QED BY <2>1 DEF Few
<1> QED BY <1>1, <1>2, <1>3, StepKinds, FewBack

\* The invariant holds at the start.
LEMMA LinkInit == Init => LinkInv
<1> SUFFICES ASSUME Init PROVE LinkInv
  OBVIOUS
<1>1. Base /\ OffBlank
  BY BaseInit
<1>2. prog = NoProg /\ hist.result = "none"
  BY DEF Init, NoHistory
<1>3. Shape
  BY <1>2, NoProgIs DEF Shape, NoneAt
<1>4. Real
  BY <1>2, NoProgIs DEF Real, Booting, Counting, Locked, Checking, Erasing, Unlocked,
     Confirmed, Reported, IsBooting, IsCounting, IsLocked, IsChecking, IsUnlocked
<1> QED BY <1>1, <1>3, <1>4 DEF LinkInv

\* The invariant is inductive.
LEMMA LinkStep == LinkInv /\ [Next]_vars => LinkInv'
<1> SUFFICES ASSUME LinkInv, [Next]_vars PROVE LinkInv'
  OBVIOUS
<1>1. Base' /\ OffBlank' /\ Shape'
  BY BaseStep, ShapeStep DEF LinkInv
<1>2. ASSUME Few'
      PROVE  Real'
  <2>1. CASE PowerUp
    BY <2>1, PowerUpReal DEF LinkInv
  <2>2. CASE Next /\ ~PowerUp
    <3>1. From
      BY <1>2, <2>2, FewStep DEF LinkInv, Base, From
    <3>2. CASE SensorAnswers
      BY <3>1, <3>2, SensorReal DEF From
    <3>3. CASE Level \/ BootCount \/ ResetAgain \/ ResetEnds \/ Touch
      BY <1>2, <3>1, <3>3, LevelReal, BootCountReal, ResetAgainReal, ResetEndsReal, TouchReal
    <3>4. CASE Press \/ Capture \/ Match \/ Validated
      BY <3>1, <3>4, PressReal, CaptureReal, MatchReal, ValidatedReal
    <3>5. CASE UserNum \/ Captured \/ PreCount \/ Enroll \/ PostCount \/ Verified \/ EraseBad
      BY <3>1, <3>5, UserNumReal, CapturedReal, PreCountReal, EnrollReal, PostCountReal,
         VerifiedReal, EraseBadReal
    <3>6. CASE Erase \/ EraseCount
      BY <3>1, <3>6, EraseReal, EraseCountReal
    <3>7. CASE PowerLoss
      BY <3>1, <3>7, OffReal DEF PowerLoss, From
    <3> QED BY <2>2, <3>2, <3>3, <3>4, <3>5, <3>6, <3>7 DEF Next
  <2>3. CASE UNCHANGED vars
    BY <1>2, <2>3 DEF vars, LinkInv, Few, Lag, Real, Booting, Counting, Locked, Checking,
       Erasing, Unlocked, Confirmed, Reported, IsBooting, IsCounting, IsLocked, IsChecking,
       IsUnlocked, Since, Waiting, OwnCount, Enrolled, HotUpTo, EraseClean, Cold, Only
  <2> QED BY <2>1, <2>2, <2>3
<1> QED BY <1>1, <1>2 DEF LinkInv

\* The inductive invariant holds for every number of captures, retries and
\* resets, every size of the queue and every set of late commands.
THEOREM LinkInvariant == Spec => []LinkInv
BY LinkInit, LinkStep, PTL DEF Spec

\* While the lag is few, a validation by fingerprint succeeds only when the
\* sensor matched the enrolled finger in this very call.
THEOREM MatchIsReal == Spec => [](Few => ValidatedIsReal)
<1>1. LinkInv => (Few => ValidatedIsReal)
  BY DEF LinkInv, Real, Checking, IsChecking, ValidatedIsReal
<1> QED BY <1>1, LinkInvariant, PTL

\* While the lag is few, a device that takes itself for locked has a finger
\* enrolled: nothing but a count of fingers, or a match, says so.
THEOREM LockIsReal == Spec => [](Few => LockedHasPrint)
<1>1. LinkInv => (Few => LockedHasPrint)
  BY DEF LinkInv, Real, Checking, IsChecking, Locked, IsLocked, LockedHasPrint, Enrolled
<1> QED BY <1>1, LinkInvariant, PTL

\* While the lag is few, OTK_lock reports success only when the sensor holds a
\* finger: the first half of EnrolledIsReal.
THEOREM EnrolmentIsHeld == Spec => [](Few => Reported)
<1>1. LinkInv => (Few => Reported)
  BY DEF LinkInv, Real
<1> QED BY <1>1, LinkInvariant, PTL
=============================================================================

------------------------------ MODULE Settings ------------------------------
(***************************************************************************)
(* The numbers a user sends: the key path of SET_KEY, the PIN of SET_PIN   *)
(* and of the option "pin=".  All are read with strtoul, which stops at    *)
(* the first character that is not a digit and saturates at the largest    *)
(* 32-bit word; otk.c compares the tail of the number with the number of   *)
(* the tail to notice that.  The child key is derived index by index.      *)
(*                                                                         *)
(* A numeral is a sequence of digits 0 .. Base - 1, Base standing for any  *)
(* other character.  Signs and blanks, which strtoul skips, and paths of   *)
(* more than Depth indices are left out.                                   *)
(***************************************************************************)
EXTENDS Naturals, Sequences, FiniteSetsExt

CONSTANTS
  Base,         \* 10
  MaxWord,      \* 2^32 - 1, also KEY_DEFAULT_PIN
  MaxLen,       \* the longest PIN, 10 digits
  Depth,        \* CRYPTO_DERIVATIVE_DEPTH
  PinNumerals, KeyNumerals,   \* bounds: what users write
  Stack         \* bound: words an uninitialised path may hold

ASSUME SettingsAssumption ==
  /\ Base \in Nat \ {0, 1} /\ MaxWord \in Nat \ {0} /\ Depth \in Nat \ {0}
  /\ Base^(MaxLen - 1) <= MaxWord /\ MaxWord < Base^MaxLen
  /\ Stack \subseteq 0..MaxWord
  /\ PinNumerals \cup KeyNumerals \subseteq Seq(0..Base)
  /\ \A s \in PinNumerals \cup KeyNumerals : Len(s) > 0

VARIABLES
  auth,    \* m_otk_isAuthorized
  key,     \* pin, path and the child key of _keyObj
  hist     \* history: the number last set as PIN, the number that authorised,
           \* the path asked for; <<>> for none

vars == <<auth, key, hist>>

DefaultPin == MaxWord
Half == (MaxWord + 1) \div 2

(***************************************************************************)
(* Numbers.                                                                *)
(***************************************************************************)
Digits(s) ==
  LET others == {i \in DOMAIN s : s[i] = Base}
  IN  IF others = {} THEN s ELSE SubSeq(s, 1, Min(others) - 1)

\* The number a text names; 0 when it begins with no digit.
Value(s) ==
  LET v[n \in 0..Len(Digits(s))] ==
        IF n = 0 THEN 0 ELSE Base * v[n - 1] + Digits(s)[n]
  IN  v[Len(Digits(s))]

StrToUL(s) == Min({Value(s), MaxWord})

\* pow(10, strlen - 1), converted to a word.
Scale(s) == Min({Base^(Len(s) - 1), MaxWord})

\* The test of OTK_setKey and OTK_setPin.
IsNumber(s) ==
  /\ Digits(s) = s
  /\ StrToUL(s) % Scale(s) = StrToUL(Tail(s))

(***************************************************************************)
(* The child key: the path that leads to it from the master key.  An index *)
(* of 2^31 or more is refused and the node the result was to replace stays *)
(* as it was, unseen by the loop over the path.                            *)
(***************************************************************************)
\* Mutant of Child: derived from the node it is to replace.
ChildOfOld(parent, old, i) == IF i >= Half THEN old ELSE Append(old, i)

Child(parent, old, i) == IF i >= Half THEN old ELSE Append(parent, i)

\* The nodes of the loop before its first index and after one.
FirstNodes(old) == [parent |-> <<>>, result |-> old]
NextNodes(n, i) ==
  [parent |-> Child(n.parent, n.result, i), result |-> Child(n.parent, n.result, i)]

Derived(old, path) ==
  LET nodes[n \in 0..Len(path)] ==
        IF n = 0 THEN FirstNodes(old) ELSE NextNodes(nodes[n - 1], path[n])
  IN  nodes[Len(path)].result

Rekeyed(k, path) == [k EXCEPT !.path = path, !.node = Derived(k.node, path)]

(***************************************************************************)
(* Operations.                                                             *)
(***************************************************************************)
Init ==
  /\ auth = FALSE
  /\ \E p \in [1..Depth -> Stack \cap 0..(Half - 1)] :
       key = [pin |-> DefaultPin, path |-> p, node |-> p]
  /\ hist = [set |-> <<>>, by |-> <<>>, path |-> <<>>]

\* A finger.
Authorize ==
  /\ ~auth
  /\ auth' = TRUE /\ hist' = [hist EXCEPT !.by = <<>>]
  /\ UNCHANGED key

\* Mutant of IsKeyIndex: any number that is not saturated unnoticed.
IsKeyIndexAny(s) == IsNumber(s)

IsKeyIndex(s) == IsNumber(s) /\ StrToUL(s) < Half

\* OTK_setKey with data: every index has to do, and there have to be Depth.
SetKey ==
  /\ auth
  /\ \E n \in 1..Depth : \E ss \in [1..n -> KeyNumerals] :
       IF n = Depth /\ \A i \in 1..n : IsKeyIndex(ss[i])
       THEN /\ key' = Rekeyed(key, [i \in 1..n |-> StrToUL(ss[i])])
            /\ hist' = [hist EXCEPT !.path = [i \in 1..n |-> Value(ss[i])], !.by = <<>>]
       ELSE UNCHANGED key /\ hist' = [hist EXCEPT !.by = <<>>]
  /\ auth' = FALSE

\* OTK_setKey without data: newPath is whatever the stack holds.
SetKeyBlind ==
  /\ auth
  /\ Len(key.node) = Depth    \* bound: not astray already
  /\ \E p \in [1..Depth -> Stack] : key' = Rekeyed(key, p)
  /\ auth' = FALSE /\ hist' = [hist EXCEPT !.path = <<>>, !.by = <<>>]

SetPin ==
  /\ auth
  /\ \E s \in PinNumerals :
       IF Len(s) <= MaxLen /\ IsNumber(s)
       THEN /\ key' = [key EXCEPT !.pin = StrToUL(s)]
            /\ hist' = [hist EXCEPT !.set = <<Value(s)>>, !.by = <<>>]
       ELSE UNCHANGED key /\ hist' = [hist EXCEPT !.by = <<>>]
  /\ auth' = FALSE

\* Mutant of PinMatches: a PIN that is not set is compared.
PinMatchesUnset(s) == StrToUL(s) = key.pin

PinMatches(s) == key.pin # DefaultPin /\ StrToUL(s) = key.pin

\* OTK_pinValidate; the limits on failures are PinLimiter's.
PinValidate ==
  /\ ~auth
  /\ \E s \in PinNumerals :
       /\ PinMatches(s)
       /\ auth' = TRUE /\ hist' = [hist EXCEPT !.by = <<Value(s)>>]
  /\ UNCHANGED key

Next == Authorize \/ SetKey \/ SetKeyBlind \/ SetPin \/ PinValidate

Spec == Init /\ [][Next]_vars

(***************************************************************************)
(* Properties.                                                             *)
(***************************************************************************)
\* Every stored number is a word, and a path given as data has no index of
\* 2^31 or more.
TypeOK ==
  /\ auth \in BOOLEAN
  /\ key.pin \in 0..MaxWord
  /\ key.path \in [1..Depth -> 0..(IF hist.path = <<>> THEN MaxWord ELSE Half - 1)]
  /\ \A i \in DOMAIN key.node : key.node[i] \in 0..(Half - 1)

\* After a SET_KEY with data the stored path is the one the user wrote, and the
\* child key is the one it leads to, wherever an earlier path had led.
KeyIsAsked ==
  hist.path # <<>> => key.path = hist.path /\ key.node = hist.path

\* A PIN authorises only if it names the number the owner set: no two numbers
\* are taken for each other, saturated or not.
PinIsOwners == hist.by # <<>> => hist.by = hist.set

\* A PIN that SET_PIN accepted is set.
PinTakesEffect == hist.set # <<>> => key.pin # DefaultPin

\* The child key is the one the stored path leads to.
KeyFollowsPath == key.node = key.path
=============================================================================

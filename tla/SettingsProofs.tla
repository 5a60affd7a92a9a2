--------------------------- MODULE SettingsProofs ---------------------------
(***************************************************************************)
(* What SET_KEY, SET_PIN and a PIN option do with the numbers a user       *)
(* writes, for every base, word length, depth of a path and set of texts:  *)
(* what is stored is what was written, or nothing is stored.               *)
(***************************************************************************)
EXTENDS Settings, SequenceTheorems, WellFoundedInduction, TLAPS

Word == 0..MaxWord
Index == 0..(Half - 1)
Text == Seq(0..Base)

(***************************************************************************)
(* Numbers.                                                                *)
(***************************************************************************)
\* What the assumption says of the sizes.
LEMMA Sizes ==
  /\ Base \in Nat /\ MaxWord \in Nat \ {0} /\ Depth \in Nat \ {0}
  /\ Half \in Nat \ {0} /\ Half <= MaxWord
  /\ Index \subseteq Word /\ Word \subseteq Nat
<1>1. Base \in Nat /\ MaxWord \in Nat \ {0} /\ Depth \in Nat \ {0}
  BY SettingsAssumption
<1>2. Half \in Nat \ {0} /\ Half <= MaxWord
  BY <1>1 DEF Half
<1> QED
  BY <1>1, <1>2 DEF Index, Word

\* A set of numbers has a least one.
LEMMA LeastOf ==
  ASSUME NEW S \in SUBSET Nat, S # {}
  PROVE  \E x \in S : \A y \in S : x <= y
<1>1. PICK x \in S : \A y \in S : ~(<<y, x>> \in OpToRel(<, Nat))
  BY WFMin, NatLessThanWellFounded, Zenon
<1>2. \A y \in S : ~(y < x)
  <2> SUFFICES ASSUME NEW y \in S, y < x PROVE FALSE
    OBVIOUS
  <2>1. <<y, x>> \in {ss \in Nat \X Nat : ss[1] < ss[2]}
    OBVIOUS
  <2> QED
    BY <1>1, <2>1, Zenon DEF OpToRel
<1> QED
  BY <1>2

\* Min returns it.
LEMMA MinIs ==
  ASSUME NEW S \in SUBSET Nat, S # {}
  PROVE  Min(S) \in S /\ \A y \in S : Min(S) <= y
  BY LeastOf DEF Min

\* The digits before the first other character.
LEMMA DigitsIs ==
  ASSUME NEW s \in Text
  PROVE  Digits(s) \in Text
<1> DEFINE others == {i \in DOMAIN s : s[i] = Base}
<1>1. CASE others = {}
  BY <1>1 DEF Digits
<1>2. CASE others # {}
  <2>1. others \in SUBSET Nat /\ others \subseteq 1..Len(s)
    BY DEF Text
  <2>2. Min(others) \in 1..Len(s)
    <3> HIDE DEF others
    <3> QED
      BY <1>2, <2>1, MinIs
  <2>3. Digits(s) = SubSeq(s, 1, Min(others) - 1)
    BY <1>2 DEF Digits
  <2> DEFINE n == Min(others) - 1
  <2>4. n \in 0..Len(s) /\ Len(s) \in Nat
    BY <2>2 DEF Text
  <2> HIDE DEF n
  <2>5. SubSeq(s, 1, n) \in Text
    <3>1. \A i \in 1..n : s[i] \in 0..Base
      <4>1. \A i \in 1..Len(s) : s[i] \in 0..Base
        BY ElementOfSeq DEF Text
      <4>2. 1..n \subseteq 1..Len(s)
        BY <2>4
      <4> QED
        BY <4>1, <4>2
    <3> QED
      BY <2>4, <3>1, SubSeqProperties DEF Text
  <2> QED
    BY <2>3, <2>5 DEF n
<1> QED
  BY <1>1, <1>2

\* The numbers that the first digits of a text make, one after the other.
Makes(v, s, m) ==
  v = [n \in 0..m |-> IF n = 0 THEN 0 ELSE Base * v[n - 1] + s[n]]

\* There are such numbers.
LEMMA MakesExists ==
  ASSUME NEW s \in Text
  PROVE  \E v : Makes(v, s, Len(s))
<1> DEFINE Bad == {m \in 0..Len(s) : ~ \E v : Makes(v, s, m)}
<1>0. Len(s) \in Nat
  BY DEF Text
<1> SUFFICES ASSUME Bad # {} PROVE FALSE
  BY <1>0
<1>1. PICK m \in Bad : \A n \in Bad : m <= n
  <2>1. Bad \in SUBSET Nat
    OBVIOUS
  <2> HIDE DEF Bad
  <2> QED
    BY <2>1, LeastOf
<1>2. CASE m = 0
  <2> DEFINE v == [n \in 0..0 |-> 0]
  <2>1. Makes(v, s, 0)
    BY DEF Makes
  <2> QED
    BY <1>2, <2>1
<1>3. CASE m # 0
  <2>1. m - 1 \in 0..Len(s) /\ m - 1 \notin Bad
    BY <1>0, <1>1, <1>3
  <2>2. PICK v : Makes(v, s, m - 1)
    BY <2>1
  <2> DEFINE w == [n \in 0..m |-> IF n = m THEN Base * v[m - 1] + s[m] ELSE v[n]]
  <2>3. \A n \in 0..m : w[n] = IF n = 0 THEN 0 ELSE Base * w[n - 1] + s[n]
    <3> SUFFICES ASSUME NEW n \in 0..m
                 PROVE  w[n] = IF n = 0 THEN 0 ELSE Base * w[n - 1] + s[n]
      OBVIOUS
    <3>1. CASE n = m
      <4>1. w[n] = Base * v[m - 1] + s[m] /\ w[m - 1] = v[m - 1]
        BY <1>3, <3>1
      <4> QED
        BY <1>3, <3>1, <4>1
    <3>2. CASE n # m
      <4>1. w[n] = v[n] /\ (n # 0 => w[n - 1] = v[n - 1])
        BY <3>2
      <4>2. v[n] = IF n = 0 THEN 0 ELSE Base * v[n - 1] + s[n]
        BY <2>2, <3>2 DEF Makes
      <4> QED
        BY <4>1, <4>2
    <3> QED
      BY <3>1, <3>2
  <2>4. Makes(w, s, m)
    <3>1. w = [n \in 0..m |-> w[n]]
      OBVIOUS
    <3> HIDE DEF w
    <3> QED
      BY <2>3, <3>1 DEF Makes
  <2> QED
    BY <2>4
<1> QED
  BY <1>2, <1>3

\* Each of them is a number, and so is the one that a text names.
LEMMA ValueIs ==
  ASSUME NEW s \in Text
  PROVE  Value(s) \in Nat
<1> DEFINE d == Digits(s)
           v == CHOOSE v : Makes(v, d, Len(d))
<1>1. d \in Text
  BY DigitsIs
<1>2. Value(s) = v[Len(d)]
  BY DEF Value, Makes
<1> HIDE DEF d
<1>3. Makes(v, d, Len(d))
  BY <1>1, MakesExists
<1> HIDE DEF v
<1>4. Len(d) \in Nat /\ \A n \in 1..Len(d) : d[n] \in Nat
  BY <1>1, Sizes DEF Text
<1> DEFINE Bad == {n \in 0..Len(d) : v[n] \notin Nat}
<1>5. Bad = {}
  <2> SUFFICES ASSUME Bad # {} PROVE FALSE
    OBVIOUS
  <2>1. PICK m \in Bad : \A n \in Bad : m <= n
    <3>1. Bad \in SUBSET Nat
      OBVIOUS
    <3> HIDE DEF Bad
    <3> QED
      BY <3>1, LeastOf
  <2>2. v[m] = IF m = 0 THEN 0 ELSE Base * v[m - 1] + d[m]
    BY <1>3 DEF Makes
  <2>3. CASE m = 0
    BY <2>2, <2>3
  <2>4. CASE m # 0
    <3>1. m - 1 \in 0..Len(d) /\ m - 1 \notin Bad /\ m \in 1..Len(d)
      BY <1>4, <2>1, <2>4
    <3>2. v[m - 1] \in Nat /\ d[m] \in Nat
      BY <1>4, <3>1
    <3>3. Base * v[m - 1] \in Nat
      BY <3>2, Sizes
    <3>4. v[m] \in Nat
      BY <2>2, <2>4, <3>2, <3>3
    <3> QED
      BY <3>4
  <2> QED
    BY <2>3, <2>4
<1>6. v[Len(d)] \in Nat
  BY <1>4, <1>5
<1> QED
  BY <1>2, <1>6

\* strtoul: the number, if it is smaller than the largest word.
LEMMA StrToULIs ==
  ASSUME NEW s \in Text
  PROVE  /\ StrToUL(s) \in Word
         /\ StrToUL(s) # MaxWord => StrToUL(s) = Value(s)
<1>1. Value(s) \in Nat /\ MaxWord \in Nat
  BY ValueIs, Sizes
<1>2. StrToUL(s) \in {Value(s), MaxWord} /\ StrToUL(s) <= MaxWord
  <2> DEFINE S == {Value(s), MaxWord}
  <2>1. S \in SUBSET Nat /\ S # {} /\ MaxWord \in S
    BY <1>1
  <2>2. StrToUL(s) = Min(S)
    BY DEF StrToUL
  <2> HIDE DEF S
  <2>3. Min(S) \in S /\ Min(S) <= MaxWord
    BY <2>1, MinIs
  <2> QED
    BY <2>2, <2>3 DEF S
<1> QED
  BY <1>1, <1>2 DEF Word

\* An index that SET_KEY accepts is the number that was written.
LEMMA KeyIndexIs ==
  ASSUME NEW s \in KeyNumerals, IsKeyIndex(s)
  PROVE  StrToUL(s) \in Index /\ StrToUL(s) = Value(s)
<1>1. s \in Text
  BY SettingsAssumption DEF Text
<1>2. StrToUL(s) \in Word /\ StrToUL(s) < Half
  BY <1>1, StrToULIs DEF IsKeyIndex
<1>3. StrToUL(s) # MaxWord
  BY <1>2, Sizes DEF Word
<1> QED
  BY <1>1, <1>2, <1>3, StrToULIs, Sizes DEF Word, Index

(***************************************************************************)
(* The child key.                                                          *)
(***************************************************************************)
\* The nodes that the first m indices of a path lead to, one after the other.
Leads(h, old, path, m) ==
  h = [n \in 0..m |-> IF n = 0 THEN FirstNodes(old) ELSE NextNodes(h[n - 1], path[n])]

\* There are such nodes.
LEMMA LeadsExists ==
  ASSUME NEW old, NEW path, NEW len \in Nat
  PROVE  \E h : Leads(h, old, path, len)
<1> DEFINE Bad == {m \in 0..len : ~ \E h : Leads(h, old, path, m)}
<1> SUFFICES ASSUME Bad # {} PROVE FALSE
  OBVIOUS
<1>1. PICK m \in Bad : \A n \in Bad : m <= n
  <2>1. Bad \in SUBSET Nat
    OBVIOUS
  <2> HIDE DEF Bad
  <2> QED
    BY <2>1, LeastOf
<1>2. CASE m = 0
  <2> DEFINE h == [n \in 0..0 |-> FirstNodes(old)]
  <2>1. Leads(h, old, path, 0)
    BY DEF Leads
  <2> QED
    BY <1>2, <2>1
<1>3. CASE m # 0
  <2>1. m - 1 \in 0..len /\ m - 1 \notin Bad
    BY <1>1, <1>3
  <2>2. PICK h : Leads(h, old, path, m - 1)
    BY <2>1
  <2> DEFINE g == [n \in 0..m |-> IF n = m THEN NextNodes(h[m - 1], path[m]) ELSE h[n]]
  <2>3. \A n \in 0..m : g[n] = IF n = 0 THEN FirstNodes(old) ELSE NextNodes(g[n - 1], path[n])
    <3> SUFFICES ASSUME NEW n \in 0..m
                 PROVE  g[n] = IF n = 0 THEN FirstNodes(old)
                                        ELSE NextNodes(g[n - 1], path[n])
      OBVIOUS
    <3>1. CASE n = m
      <4>1. g[n] = NextNodes(h[m - 1], path[m]) /\ g[m - 1] = h[m - 1]
        BY <1>3, <3>1
      <4> QED
        BY <1>3, <3>1, <4>1
    <3>2. CASE n # m
      <4>1. g[n] = h[n] /\ (n # 0 => g[n - 1] = h[n - 1])
        BY <3>2
      <4>2. h[n] = IF n = 0 THEN FirstNodes(old) ELSE NextNodes(h[n - 1], path[n])
        BY <2>2, <3>2 DEF Leads
      <4> QED
        BY <4>1, <4>2
    <3> QED
      BY <3>1, <3>2
  <2>4. Leads(g, old, path, m)
    <3>1. g = [n \in 0..m |-> g[n]]
      OBVIOUS
    <3> HIDE DEF g
    <3> QED
      BY <2>3, <3>1 DEF Leads
  <2> QED
    BY <2>4
<1> QED
  BY <1>2, <1>3

\* The child key is the last of them.
LEMMA DerivedIs ==
  ASSUME NEW old, NEW path, Len(path) \in Nat
  PROVE  \E h : Leads(h, old, path, Len(path)) /\ Derived(old, path) = h[Len(path)].result
<1> DEFINE h == CHOOSE h : Leads(h, old, path, Len(path))
<1>1. Derived(old, path) = h[Len(path)].result
  BY DEF Derived, Leads
<1> HIDE DEF h
<1>2. Leads(h, old, path, Len(path))
  BY LeadsExists DEF h
<1> QED
  BY <1>1, <1>2

\* A node is named by indices that were accepted.
IsNode(node) == node \in Seq(Index)

\* One index leads from a node to a node.
LEMMA ChildIsNode ==
  ASSUME NEW parent, NEW old, IsNode(parent), IsNode(old), NEW i \in Word
  PROVE  IsNode(Child(parent, old, i))
<1>1. i < Half => i \in Index
  BY Sizes DEF Word, Index
<1>2. i >= Half \/ i < Half
  BY Sizes DEF Word
<1>3. CASE i >= Half
  BY <1>3 DEF Child
<1>4. CASE i < Half
  <2>1. Child(parent, old, i) = Append(parent, i)
    BY <1>4, Sizes DEF Child, Word
  <2>2. parent \in Seq(Index) /\ i \in Index
    BY <1>1, <1>4 DEF IsNode
  <2>3. Append(parent, i) \in Seq(Index)
    BY <2>2
  <2> QED
    BY <2>1, <2>3 DEF IsNode
<1> QED
  BY <1>2, <1>3, <1>4

\* So does a path of any words, whatever was refused on the way.
LEMMA DerivedIsNode ==
  ASSUME NEW old, IsNode(old), NEW path \in [1..Depth -> Word]
  PROVE  IsNode(Derived(old, path))
<1>0. Depth \in Nat \ {0}
  BY Sizes
<1>1. Len(path) = Depth /\ path \in Seq(Word)
  BY <1>0
<1>2. PICK h : Leads(h, old, path, Depth) /\ Derived(old, path) = h[Depth].result
  BY <1>0, <1>1, DerivedIs
<1> DEFINE Good(n) == IsNode(h[n].parent) /\ IsNode(h[n].result)
           Bad == {n \in 0..Depth : ~Good(n)}
<1>3. Bad = {}
  <2> SUFFICES ASSUME Bad # {} PROVE FALSE
    OBVIOUS
  <2>1. PICK m \in Bad : \A n \in Bad : m <= n
    <3>1. Bad \in SUBSET Nat
      BY <1>0
    <3> HIDE DEF Bad
    <3> QED
      BY <3>1, LeastOf
  <2>2. m \in 0..Depth /\ ~Good(m)
    BY <2>1
  <2>3. h[m] = IF m = 0 THEN FirstNodes(old) ELSE NextNodes(h[m - 1], path[m])
    BY <1>2, <2>2 DEF Leads
  <2>4. CASE m = 0
    <3>1. h[m].parent = <<>> /\ h[m].result = old
      BY <2>3, <2>4 DEF FirstNodes
    <3>2. IsNode(<<>>)
      BY DEF IsNode
    <3> QED
      BY <2>2, <3>1, <3>2
  <2>5. CASE m # 0
    <3>1. m - 1 \in 0..Depth /\ m - 1 \notin Bad /\ m \in 1..Depth
      BY <1>0, <2>1, <2>2, <2>5
    <3>2. Good(m - 1) /\ path[m] \in Word
      BY <3>1
    <3>3. IsNode(Child(h[m - 1].parent, h[m - 1].result, path[m]))
      BY <3>2, ChildIsNode
    <3>4. h[m] = NextNodes(h[m - 1], path[m])
      BY <2>3, <2>5
    <3>5. Good(m)
      BY <3>3, <3>4 DEF NextNodes
    <3> QED
      BY <2>2, <3>5
  <2> QED
    BY <2>4, <2>5
<1>4. Good(Depth)
  BY <1>0, <1>3
<1> QED
  BY <1>2, <1>4

\* After n indices, none of them refused, the parent is the path so far.
Follows(parent, path, n) ==
  /\ IsNode(parent)
  /\ Len(parent) = n
  /\ \A i \in 1..n : parent[i] = path[i]

\* One index more.
LEMMA FollowsOn ==
  ASSUME NEW parent, NEW old, NEW path \in [1..Depth -> Index], NEW n \in 1..Depth,
         Follows(parent, path, n - 1)
  PROVE  Follows(Child(parent, old, path[n]), path, n)
<1>0. Depth \in Nat /\ n \in Nat
  BY Sizes
<1>1. path[n] \in Index /\ ~(path[n] >= Half)
  BY Sizes DEF Index
<1>2. Child(parent, old, path[n]) = Append(parent, path[n])
  BY <1>1 DEF Child
<1>3. parent \in Seq(Index) /\ Len(parent) = n - 1 /\ \A i \in 1..(n - 1) : parent[i] = path[i]
  BY DEF Follows, IsNode
<1> DEFINE a == Append(parent, path[n])
<1>4. a \in Seq(Index) /\ Len(a) = n
  BY <1>0, <1>1, <1>3
<1>5. \A i \in 1..n : a[i] = path[i]
  <2> SUFFICES ASSUME NEW i \in 1..n PROVE a[i] = path[i]
    OBVIOUS
  <2>1. CASE i = n
    BY <1>0, <1>3, <2>1
  <2>2. CASE i # n
    <3>1. i \in 1..(n - 1)
      BY <1>0, <2>2
    <3> QED
      BY <1>0, <1>3, <3>1
  <2> QED
    BY <2>1, <2>2
<1> HIDE DEF a
<1>6. Follows(a, path, n)
  BY <1>4, <1>5 DEF Follows, IsNode
<1> QED
  BY <1>2, <1>6 DEF a

\* A path of indices leads to the child key it names, whatever the key was before.
LEMMA DerivedIsPath ==
  ASSUME NEW old, NEW path \in [1..Depth -> Index]
  PROVE  Derived(old, path) = path
<1>0. Depth \in Nat \ {0}
  BY Sizes
<1>1. Len(path) = Depth /\ path \in Seq(Index)
  BY <1>0
<1>2. PICK h : Leads(h, old, path, Depth) /\ Derived(old, path) = h[Depth].result
  BY <1>0, <1>1, DerivedIs
<1> DEFINE Good(n) == Follows(h[n].parent, path, n)
           Bad == {n \in 0..Depth : ~Good(n)}
<1>3. Bad = {}
  <2> SUFFICES ASSUME Bad # {} PROVE FALSE
    OBVIOUS
  <2>1. PICK m \in Bad : \A n \in Bad : m <= n
    <3>1. Bad \in SUBSET Nat
      BY <1>0
    <3> HIDE DEF Bad
    <3> QED
      BY <3>1, LeastOf
  <2>2. m \in 0..Depth /\ ~Good(m)
    BY <2>1
  <2>3. h[m] = IF m = 0 THEN FirstNodes(old) ELSE NextNodes(h[m - 1], path[m])
    BY <1>2, <2>2 DEF Leads
  <2>4. CASE m = 0
    <3>1. h[m].parent = <<>>
      BY <2>3, <2>4 DEF FirstNodes
    <3>2. Follows(<<>>, path, 0)
      BY DEF Follows, IsNode
    <3> QED
      BY <2>2, <2>4, <3>1, <3>2
  <2>5. CASE m # 0
    <3>1. m - 1 \in 0..Depth /\ m - 1 \notin Bad /\ m \in 1..Depth
      BY <1>0, <2>1, <2>2, <2>5
    <3>2. Follows(h[m - 1].parent, path, m - 1)
      BY <3>1
    <3>3. Follows(Child(h[m - 1].parent, h[m - 1].result, path[m]), path, m)
      BY <3>1, <3>2, FollowsOn
    <3>4. h[m] = NextNodes(h[m - 1], path[m])
      BY <2>3, <2>5
    <3>5. Good(m)
      BY <3>3, <3>4 DEF NextNodes
    <3> QED
      BY <2>2, <3>5
  <2> QED
    BY <2>4, <2>5
<1>4. Follows(h[Depth].parent, path, Depth)
  BY <1>0, <1>3
<1>5. h[Depth].result = h[Depth].parent
  <2>1. h[Depth] = NextNodes(h[Depth - 1], path[Depth])
    BY <1>0, <1>2 DEF Leads
  <2> QED
    BY <2>1 DEF NextNodes
<1>6. Derived(old, path) = h[Depth].parent
  BY <1>2, <1>5
<1> DEFINE r == Derived(old, path)
<1>7. Follows(r, path, Depth)
  BY <1>4, <1>6
<1> HIDE DEF r
<1>8. r \in Seq(Index) /\ Len(r) = Len(path) /\ \A i \in 1..Len(r) : r[i] = path[i]
  BY <1>1, <1>7 DEF Follows, IsNode
<1>9. r = path
  BY <1>1, <1>8, SeqEqual
<1> QED
  BY <1>9 DEF r

(***************************************************************************)
(* The inductive invariant.  What the owner set is history; of a PIN it    *)
(* matters only while the stored one is not the default, because then it   *)
(* was not saturated: it is the number that was written.                   *)
(***************************************************************************)
\* The key object: a PIN, a path of words and the node of a child key.
KeyOK(k) ==
  /\ k = [pin |-> k.pin, path |-> k.path, node |-> k.node]
  /\ k.pin \in Word
  /\ k.path \in [1..Depth -> Word]
  /\ IsNode(k.node)

\* The history: what was set, what authorised, the path that was asked for.
HistOK(h) == h = [set |-> h.set, by |-> h.by, path |-> h.path]

\* The path that was asked for is the one of the child key.
PathOK(k, h) ==
  h.path # <<>> => h.path \in [1..Depth -> Index] /\ k.path = h.path /\ k.node = h.path

\* A PIN that can authorise is the number that was set.
SetOK(k, h) == k.pin # DefaultPin => h.set = <<k.pin>>

\* What authorised was the number that was set.
ByOK(h) == h.by # <<>> => h.by = h.set

IInv ==
  /\ auth \in BOOLEAN
  /\ KeyOK(key) /\ HistOK(hist)
  /\ PathOK(key, hist) /\ SetOK(key, hist) /\ ByOK(hist)

\* A new key has the default PIN and the child key of its path.
LEMMA InitIInv == Init => IInv
<1> SUFFICES ASSUME Init PROVE IInv
  OBVIOUS
<1>1. PICK p \in [1..Depth -> Stack \cap 0..(Half - 1)] :
        key = [pin |-> DefaultPin, path |-> p, node |-> p]
  BY DEF Init
<1>2. hist = [set |-> <<>>, by |-> <<>>, path |-> <<>>] /\ auth = FALSE
  BY DEF Init
<1>3. p \in [1..Depth -> Index] /\ p \in [1..Depth -> Word]
  BY Sizes DEF Index
<1>4. p \in Seq(Index)
  BY <1>3, Sizes
<1>5. KeyOK(key)
  BY <1>1, <1>3, <1>4, Sizes DEF KeyOK, IsNode, DefaultPin, Word
<1>6. HistOK(hist) /\ PathOK(key, hist) /\ SetOK(key, hist) /\ ByOK(hist)
  BY <1>1, <1>2 DEF HistOK, PathOK, SetOK, ByOK
<1> QED
  BY <1>2, <1>5, <1>6 DEF IInv

\* The history once nothing but a finger, or nothing at all, has authorised.
Unsigned(h) == [h EXCEPT !.by = <<>>]

\* It says the same of the path and of the PIN.
LEMMA UnsignedOK ==
  ASSUME NEW k, NEW h, HistOK(h), PathOK(k, h), SetOK(k, h)
  PROVE  /\ HistOK(Unsigned(h)) /\ PathOK(k, Unsigned(h)) /\ SetOK(k, Unsigned(h))
         /\ ByOK(Unsigned(h))
<1> DEFINE u == Unsigned(h)
<1>1. u = [set |-> h.set, by |-> <<>>, path |-> h.path]
  BY DEF HistOK, Unsigned
<1>2. u.set = h.set /\ u.by = <<>> /\ u.path = h.path
  BY <1>1
<1>3. HistOK(u)
  BY <1>1, <1>2 DEF HistOK
<1> HIDE DEF u
<1>4. PathOK(k, u) /\ SetOK(k, u) /\ ByOK(u)
  BY <1>2 DEF PathOK, SetOK, ByOK
<1> QED
  BY <1>3, <1>4 DEF u

\* A finger.
LEMMA AuthorizeIInv == IInv /\ Authorize => IInv'
<1> SUFFICES ASSUME IInv, Authorize PROVE IInv'
  OBVIOUS
<1>1. auth' \in BOOLEAN /\ hist' = Unsigned(hist) /\ key' = key
  BY DEF Authorize, Unsigned
<1>2. KeyOK(key) /\ HistOK(hist) /\ PathOK(key, hist) /\ SetOK(key, hist)
  BY DEF IInv
<1>3. /\ HistOK(hist') /\ PathOK(key', hist') /\ SetOK(key', hist') /\ ByOK(hist')
      /\ KeyOK(key')
  BY <1>1, <1>2, UnsignedOK
<1> QED
  BY <1>1, <1>3 DEF IInv

\* A key whose path is replaced.
LEMMA RekeyedOK ==
  ASSUME NEW k, KeyOK(k), NEW p \in [1..Depth -> Word]
  PROVE  /\ KeyOK(Rekeyed(k, p))
         /\ Rekeyed(k, p).pin = k.pin
         /\ Rekeyed(k, p).path = p
         /\ Rekeyed(k, p).node = Derived(k.node, p)
<1> DEFINE r == Rekeyed(k, p)
<1>1. r = [pin |-> k.pin, path |-> p, node |-> Derived(k.node, p)]
  <2> DEFINE d == Derived(k.node, p)
  <2>1. k = [pin |-> k.pin, path |-> k.path, node |-> k.node]
    BY DEF KeyOK
  <2>2. r = [k EXCEPT !.path = p, !.node = d]
    BY DEF Rekeyed
  <2> HIDE DEF d, r
  <2>3. r = [pin |-> k.pin, path |-> p, node |-> d]
    BY <2>1, <2>2
  <2> QED
    BY <2>3 DEF d
<1>2. IsNode(Derived(k.node, p))
  BY DerivedIsNode DEF KeyOK
<1>3. k.pin \in Word
  BY DEF KeyOK
<1> HIDE DEF r
<1>4. r.pin = k.pin /\ r.path = p /\ r.node = Derived(k.node, p)
  BY <1>1
<1>5. KeyOK(r)
  BY <1>1, <1>2, <1>3, <1>4 DEF KeyOK
<1> QED
  BY <1>4, <1>5 DEF r

\* The key and the history after the texts of a path were accepted.
Asked(ss, n) ==
  /\ key' = Rekeyed(key, [i \in 1..n |-> StrToUL(ss[i])])
  /\ hist' = [hist EXCEPT !.path = [i \in 1..n |-> Value(ss[i])], !.by = <<>>]

\* SET_KEY accepts a whole path of numbers, or leaves the key alone.
LEMMA SetKeyIs ==
  ASSUME SetKey
  PROVE  /\ auth' = FALSE
         /\ \/ key' = key /\ hist' = Unsigned(hist)
            \/ \E ss \in [1..Depth -> KeyNumerals] :
                 (\A i \in 1..Depth : IsKeyIndex(ss[i])) /\ Asked(ss, Depth)
<1>1. PICK n \in 1..Depth : \E ss \in [1..n -> KeyNumerals] :
        IF n = Depth /\ \A i \in 1..n : IsKeyIndex(ss[i])
        THEN Asked(ss, n)
        ELSE UNCHANGED key /\ hist' = Unsigned(hist)
  BY Zenon DEF SetKey, Asked, Unsigned
<1>2. PICK ss \in [1..n -> KeyNumerals] :
        IF n = Depth /\ \A i \in 1..n : IsKeyIndex(ss[i])
        THEN Asked(ss, n)
        ELSE UNCHANGED key /\ hist' = Unsigned(hist)
  BY <1>1
<1>3. auth' = FALSE
  BY DEF SetKey
<1>4. CASE n = Depth /\ \A i \in 1..n : IsKeyIndex(ss[i])
  BY <1>2, <1>3, <1>4, Zenon
<1>5. CASE ~(n = Depth /\ \A i \in 1..n : IsKeyIndex(ss[i]))
  BY <1>2, <1>3, <1>5, Zenon
<1> QED
  BY <1>4, <1>5, Zenon

\* A path given as data.
LEMMA SetKeyIInv == IInv /\ SetKey => IInv'
<1> SUFFICES ASSUME IInv, SetKey PROVE IInv'
  OBVIOUS
<1>0. KeyOK(key) /\ HistOK(hist) /\ PathOK(key, hist) /\ SetOK(key, hist)
  BY DEF IInv
<1>1. auth' = FALSE
  BY SetKeyIs
<1>2. CASE key' = key /\ hist' = Unsigned(hist)
  <2>1. /\ HistOK(hist') /\ PathOK(key', hist') /\ SetOK(key', hist') /\ ByOK(hist')
        /\ KeyOK(key')
    BY <1>0, <1>2, UnsignedOK
  <2> QED
    BY <1>1, <2>1 DEF IInv
<1>3. ASSUME NEW ss \in [1..Depth -> KeyNumerals],
             \A i \in 1..Depth : IsKeyIndex(ss[i]), Asked(ss, Depth)
      PROVE  IInv'
  <2> DEFINE p == [i \in 1..Depth |-> StrToUL(ss[i])]
  <2>1. \A i \in 1..Depth : StrToUL(ss[i]) \in Index /\ StrToUL(ss[i]) = Value(ss[i])
    BY <1>3, KeyIndexIs
  <2>2. p = [i \in 1..Depth |-> Value(ss[i])]
    BY <2>1
  <2>3. p \in [1..Depth -> Index]
    BY <2>1
  <2>4. key' = Rekeyed(key, p) /\ hist' = [hist EXCEPT !.path = p, !.by = <<>>]
    BY <1>3, <2>2, Zenon DEF Asked
  <2> HIDE DEF p
  <2>5. p \in [1..Depth -> Word]
    BY <2>3, Sizes
  <2>6. KeyOK(key') /\ key'.pin = key.pin /\ key'.path = p /\ key'.node = p
    BY <1>0, <2>3, <2>4, <2>5, RekeyedOK, DerivedIsPath
  <2>7. hist' = [set |-> hist.set, by |-> <<>>, path |-> p]
    BY <1>0, <2>4 DEF HistOK
  <2>8. hist'.set = hist.set /\ hist'.by = <<>> /\ hist'.path = p
    BY <2>7
  <2>9. HistOK(hist') /\ PathOK(key', hist') /\ SetOK(key', hist') /\ ByOK(hist')
    BY <1>0, <2>3, <2>6, <2>7, <2>8 DEF HistOK, PathOK, SetOK, ByOK
  <2> QED
    BY <1>1, <2>6, <2>9 DEF IInv
<1> QED
  BY <1>2, <1>3, SetKeyIs

\* A path that nobody wrote.
LEMMA SetKeyBlindIInv == IInv /\ SetKeyBlind => IInv'
<1> SUFFICES ASSUME IInv, SetKeyBlind PROVE IInv'
  OBVIOUS
<1>0. KeyOK(key) /\ HistOK(hist) /\ SetOK(key, hist)
  BY DEF IInv
<1>1. PICK p \in [1..Depth -> Stack] : key' = Rekeyed(key, p)
  BY DEF SetKeyBlind
<1>2. auth' = FALSE /\ hist' = [hist EXCEPT !.path = <<>>, !.by = <<>>]
  BY DEF SetKeyBlind
<1>3. p \in [1..Depth -> Word]
  BY SettingsAssumption DEF Word
<1>4. KeyOK(key') /\ key'.pin = key.pin
  BY <1>0, <1>1, <1>3, RekeyedOK
<1>5. hist' = [set |-> hist.set, by |-> <<>>, path |-> <<>>]
  BY <1>0, <1>2 DEF HistOK
<1>6. hist'.set = hist.set /\ hist'.by = <<>> /\ hist'.path = <<>>
  BY <1>5
<1>7. HistOK(hist') /\ PathOK(key', hist') /\ SetOK(key', hist') /\ ByOK(hist')
  BY <1>0, <1>4, <1>5, <1>6 DEF HistOK, PathOK, SetOK, ByOK
<1> QED
  BY <1>2, <1>4, <1>7 DEF IInv

\* A PIN: the number that was written, unless it is no word, and then none.
LEMMA SetPinIInv == IInv /\ SetPin => IInv'
<1> SUFFICES ASSUME IInv, SetPin PROVE IInv'
  OBVIOUS
<1>0. KeyOK(key) /\ HistOK(hist) /\ PathOK(key, hist) /\ SetOK(key, hist)
  BY DEF IInv
<1>1. auth' = FALSE
  BY DEF SetPin
<1>2. PICK s \in PinNumerals :
        \/ key' = key /\ hist' = Unsigned(hist)
        \/ /\ key' = [key EXCEPT !.pin = StrToUL(s)]
           /\ hist' = [hist EXCEPT !.set = <<Value(s)>>, !.by = <<>>]
  BY DEF SetPin, Unsigned
<1>3. CASE key' = key /\ hist' = Unsigned(hist)
  <2>1. /\ HistOK(hist') /\ PathOK(key', hist') /\ SetOK(key', hist') /\ ByOK(hist')
        /\ KeyOK(key')
    BY <1>0, <1>3, UnsignedOK
  <2> QED
    BY <1>1, <2>1 DEF IInv
<1>4. CASE /\ key' = [key EXCEPT !.pin = StrToUL(s)]
           /\ hist' = [hist EXCEPT !.set = <<Value(s)>>, !.by = <<>>]
  <2>1. s \in Text
    BY SettingsAssumption DEF Text
  <2>2. StrToUL(s) \in Word /\ (StrToUL(s) # DefaultPin => StrToUL(s) = Value(s))
    BY <2>1, StrToULIs DEF DefaultPin
  <2>3. key' = [pin |-> StrToUL(s), path |-> key.path, node |-> key.node]
    BY <1>0, <1>4 DEF KeyOK
  <2>4. key'.pin = StrToUL(s) /\ key'.path = key.path /\ key'.node = key.node
    BY <2>3
  <2>5. hist' = [set |-> <<Value(s)>>, by |-> <<>>, path |-> hist.path]
    BY <1>0, <1>4 DEF HistOK
  <2>6. hist'.set = <<Value(s)>> /\ hist'.by = <<>> /\ hist'.path = hist.path
    BY <2>5
  <2>7. KeyOK(key')
    BY <1>0, <2>2, <2>3, <2>4 DEF KeyOK
  <2>8. HistOK(hist') /\ PathOK(key', hist') /\ SetOK(key', hist') /\ ByOK(hist')
    BY <1>0, <2>2, <2>4, <2>5, <2>6 DEF HistOK, PathOK, SetOK, ByOK
  <2> QED
    BY <1>1, <2>7, <2>8 DEF IInv
<1> QED
  BY <1>2, <1>3, <1>4

\* A PIN that matches is not saturated, so it is the number that was set.
LEMMA PinValidateIInv == IInv /\ PinValidate => IInv'
<1> SUFFICES ASSUME IInv, PinValidate PROVE IInv'
  OBVIOUS
<1>0. KeyOK(key) /\ HistOK(hist) /\ PathOK(key, hist) /\ SetOK(key, hist)
  BY DEF IInv
<1>1. PICK s \in PinNumerals :
        PinMatches(s) /\ auth' = TRUE /\ hist' = [hist EXCEPT !.by = <<Value(s)>>]
  BY DEF PinValidate
<1>2. key' = key
  BY DEF PinValidate
<1>3. s \in Text
  BY SettingsAssumption DEF Text
<1>4. key.pin # DefaultPin /\ StrToUL(s) = key.pin
  BY <1>1 DEF PinMatches
<1>5. Value(s) = key.pin
  BY <1>3, <1>4, StrToULIs DEF DefaultPin
<1>6. hist.set = <<Value(s)>>
  BY <1>0, <1>4, <1>5 DEF SetOK
<1>7. hist' = [set |-> hist.set, by |-> <<Value(s)>>, path |-> hist.path]
  BY <1>0, <1>1 DEF HistOK
<1>8. hist'.set = hist.set /\ hist'.by = <<Value(s)>> /\ hist'.path = hist.path
  BY <1>7
<1>9. /\ KeyOK(key')
      /\ HistOK(hist') /\ PathOK(key', hist') /\ SetOK(key', hist') /\ ByOK(hist')
  BY <1>0, <1>2, <1>6, <1>7, <1>8 DEF HistOK, PathOK, SetOK, ByOK
<1> QED
  BY <1>1, <1>9 DEF IInv

\* Every step, and a stutter.
LEMMA NextIInv == IInv /\ [Next]_vars => IInv'
<1> SUFFICES ASSUME IInv, [Next]_vars PROVE IInv'
  OBVIOUS
<1>1. CASE UNCHANGED vars
  BY <1>1 DEF vars, IInv
<1> QED
  BY <1>1, AuthorizeIInv, SetKeyIInv, SetKeyBlindIInv, SetPinIInv, PinValidateIInv DEF Next

(***************************************************************************)
(* The results.                                                            *)
(***************************************************************************)
\* The inductive invariant holds: what the key object and its history are.
THEOREM SettingsInvariant == Spec => []IInv
  BY InitIInv, NextIInv, PTL DEF Spec

\* Every stored number is a word, and a path given as data has no index of
\* 2^31 or more.
THEOREM SettingsTypeOK == Spec => []TypeOK
<1>1. IInv => TypeOK
  <2> SUFFICES ASSUME IInv PROVE TypeOK
    OBVIOUS
  <2>1. auth \in BOOLEAN /\ key.pin \in 0..MaxWord
    BY DEF IInv, KeyOK, Word
  <2>2. key.path \in [1..Depth -> 0..(IF hist.path = <<>> THEN MaxWord ELSE Half - 1)]
    <3>1. CASE hist.path = <<>>
      BY <3>1 DEF IInv, KeyOK, Word
    <3>2. CASE hist.path # <<>>
      BY <3>2 DEF IInv, PathOK, Index
    <3> QED
      BY <3>1, <3>2
  <2>3. \A i \in DOMAIN key.node : key.node[i] \in 0..(Half - 1)
    <3>1. key.node \in Seq(Index)
      BY DEF IInv, KeyOK, IsNode
    <3>2. \A i \in 1..Len(key.node) : key.node[i] \in Index
      BY <3>1, ElementOfSeq
    <3>3. DOMAIN key.node = 1..Len(key.node)
      BY <3>1
    <3> QED
      BY <3>2, <3>3 DEF Index
  <2> QED
    BY <2>1, <2>2, <2>3 DEF TypeOK
<1> QED
  BY <1>1, SettingsInvariant, PTL

\* After a SET_KEY with data the stored path is the one the user wrote, and the
\* child key is the one it leads to, wherever an earlier path had led: for every
\* depth, and after any number of derivations that were refused unseen.
THEOREM SettingsKeyIsAsked == Spec => []KeyIsAsked
<1>1. IInv => KeyIsAsked
  BY DEF IInv, PathOK, KeyIsAsked
<1> QED
  BY <1>1, SettingsInvariant, PTL

\* A PIN authorises only if it names the number the owner set, whatever the width
\* of a word and whatever was written: a saturated one is never stored as a PIN.
THEOREM SettingsPinIsOwners == Spec => []PinIsOwners
<1>1. IInv => PinIsOwners
  BY DEF IInv, ByOK, PinIsOwners
<1> QED
  BY <1>1, SettingsInvariant, PTL
=============================================================================

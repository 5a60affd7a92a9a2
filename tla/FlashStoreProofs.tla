-------------------------- MODULE FlashStoreProofs --------------------------
(***************************************************************************)
(* What the key object's file keeps, for every number of pages, records to *)
(* a page, record ids and power losses: the inductive invariant of the     *)
(* store, and that it implements RecordSet.                                *)
(***************************************************************************)
EXTENDS FlashStore, FiniteSetTheorems, SequenceTheorems, WellFoundedInduction, TLAPS

(***************************************************************************)
(* Records in a flash, of which the state is one.                          *)
(***************************************************************************)
Record == [id : 1..MaxId, state : {"open", "valid", "dirty"}]
Page == [tag : {"erased", "swap", "data"}, recs : Seq(Record)]
SlotState == [page : Pages, type : {"erased", "data"}, canGc : BOOLEAN]

\* The valid records of a page, by their index, and their ids.
ValidAt(f, p) == {k \in DOMAIN f[p].recs : Valid(f[p].recs[k])}
IdsIn(f, p) == {f[p].recs[k].id : k \in ValidAt(f, p)}
LiveIn(f) == UNION {IdsIn(f, p) : p \in Pages}

\* No two valid records of these pages have one id.
UniqueIn(f, S) ==
  \A p, q \in S : \A k \in ValidAt(f, p), l \in ValidAt(f, q) :
    f[p].recs[k].id = f[q].recs[l].id => p = q /\ k = l

\* Every valid record of page s is in another one too.
CopiedFrom(f, s) == \A id \in IdsIn(f, s) : \E p \in Pages \ {s} : id \in IdsIn(f, p)

AllValid(f, s) == \A k \in DOMAIN f[s].recs : Valid(f[s].recs[k])

\* The writes on a page's records.
WithRecs(f, p, R) == [f EXCEPT ![p].recs = R]
Opens(f, p, d) == [f EXCEPT ![p].recs = Append(@, [id |-> d, state |-> "open"])]
Copies(f, p, r) == [f EXCEPT ![p].recs = Append(@, r)]
Flags(f, p, k) == [f EXCEPT ![p].recs[k].state = "dirty"]
Erases(f, p) == [f EXCEPT ![p] = Erased]
Tagging(f, p, t) == [f EXCEPT ![p].tag = Tagged(@, t)]
Finalizes(f, p) == [f EXCEPT ![p].recs[Len(f[p].recs)].state = "valid"]

Tags(f, t) == \E p \in Pages : f[p].tag = t

(***************************************************************************)
(* The inductive invariant.                                                *)
(***************************************************************************)
FlashTyped(f) ==
  /\ f \in [Pages -> Page]
  /\ \A p \in Pages : Len(f[p].recs) <= Cap
  /\ \A p \in Pages : f[p].tag = "erased" => f[p].recs = <<>>

Kinds == {"none", "promote", "create", "update"}

Typed ==
  /\ FlashTyped(flash)
  /\ slots \in Seq(SlotState) /\ Len(slots) <= VirtualPages
  /\ swap \in 0..VirtualPages
  /\ gc \in [cur : Pages, todo : SUBSET DataSlots, src : Nat]
  /\ ids \in [latest : 0..MaxId, desc : 0..MaxId]
  /\ pc \in Steps
  /\ op \in [kind : Kinds, dest : Nat, old : Nat, at : Nat]
  /\ hist \in [acked : 0..MaxId, cuts : 0..MaxCuts, torn : 0..MaxCuts,
              promoted : BOOLEAN]
  /\ hist.torn <= hist.cuts

\* What a boot needs of the flash that the last power loss left.  Two copies of
\* a record exist only while no page is erased, and then one of them is in the
\* swap page, which that boot erases.
BootSafe(f) ==
  /\ \A p, q \in Pages : f[p].tag = "swap" /\ f[q].tag = "swap" => p = q
  /\ \A p \in Pages : f[p].tag = "swap" => AllValid(f, p)
  /\ Tags(f, "erased") => UniqueIn(f, Pages)
  /\ \A s \in Pages : f[s].tag = "swap" /\ ~Tags(f, "erased") =>
       UniqueIn(f, Pages \ {s}) /\ CopiedFrom(f, s)

Off ==
  /\ pc \in {"off", "dead"} => BootSafe(flash)
  /\ pc = "off" => ids.desc = 0 /\ op.kind = "none"

\* m_pages and m_swap_page hold every page once.
Maps(s, w) ==
  /\ w \in Pages
  /\ \A i \in DOMAIN s : s[i].page # w
  /\ \A i, j \in DOMAIN s : s[i].page = s[j].page => i = j
  /\ \A p \in Pages \ {w} : \E i \in DOMAIN s : s[i].page = p

Booting ==
  pc \in {"eraseSwap", "promote", "tagSwap", "tagData"} =>
    /\ Maps(slots, swap)
    /\ \A i \in DataSlots : slots[i].type = flash[slots[i].page].tag
    /\ gc.cur \in DataSlots /\ gc.todo = {} /\ gc.src = 0
    /\ ids.desc = 0
    /\ op.kind \in {"none", "promote"}
    /\ pc # "eraseSwap" => UniqueIn(flash, Pages)
    /\ pc \in {"eraseSwap", "promote"} =>
         op.kind = "none" /\ flash[swap].tag = "swap" /\ AllValid(flash, swap)
    /\ pc = "eraseSwap" =>
         /\ \A i \in DataSlots : slots[i].type = "data"
         /\ UniqueIn(flash, Pages \ {swap}) /\ CopiedFrom(flash, swap)
    /\ pc = "promote" => flash[swap].recs # <<>> /\ Tags(flash, "erased")
    /\ op.kind = "promote" =>
         /\ flash[swap].tag = "data" /\ flash[swap].recs # <<>>
         /\ AllValid(flash, swap) /\ hist.promoted
    /\ pc \in {"tagSwap", "tagData"} /\ op.kind = "none" =>
         /\ flash[swap].tag = IF pc = "tagSwap" THEN "erased" ELSE "swap"
         /\ flash[swap].recs = <<>>

CollectSteps == {"gcNext", "gcCopy", "gcPromote", "gcTag"}
RunSteps == {"load", "idle", "write", "finalize", "flag", "overlaid"} \union CollectSteps

\* m_pages lists data pages.  Unless a promotion has cost it, the swap page is
\* tagged as such when nothing is being collected, and it is empty.
Running ==
  pc \in RunSteps =>
    /\ Maps(slots, swap)
    /\ \A i \in DataSlots :
         /\ slots[i].type = "data"
         /\ flash[slots[i].page].tag = "data" \/ (pc = "gcPromote" /\ i = gc.cur)
    /\ pc \in {"load", "idle"} => op.kind = "none"
    /\ pc \in {"write", "finalize", "overlaid"} \union CollectSteps =>
         op.kind \in {"create", "update"}
    /\ pc = "flag" => op.kind = "update"
    /\ pc # "gcCopy" => UniqueIn(flash, Pages)
    /\ pc \notin {"gcPromote", "gcTag"} =>
         /\ flash[swap].tag \in {"swap", "data"}
         /\ ~hist.promoted => flash[swap].tag = "swap"
    /\ pc # "gcCopy" /\ flash[swap].tag = "swap" => flash[swap].recs = <<>>

\* The swap page holds the records of the page that is collected, up to the
\* index the search has come to, and each of them once.
Copied(f, c, w, n) ==
  /\ UniqueIn(f, Pages \ {w}) /\ UniqueIn(f, {w}) /\ AllValid(f, w)
  /\ Len(f[w].recs) <= n
  /\ \A k \in ValidAt(f, c) : k <= n => f[c].recs[k].id \in IdsIn(f, w)
  /\ \A id \in IdsIn(f, w) : \E k \in ValidAt(f, c) : k <= n /\ f[c].recs[k].id = id

Collecting ==
  /\ pc \in {"gcCopy", "gcPromote", "gcTag"} => gc.cur \in DataSlots
  /\ pc = "gcNext" => flash[swap].recs = <<>> /\ gc.src = 0
  /\ pc = "gcCopy" => Copied(flash, slots[gc.cur].page, swap, gc.src)
  /\ pc \in {"gcPromote", "gcTag"} => flash[swap] = Erased
  /\ pc = "gcPromote" =>
       /\ flash[slots[gc.cur].page].tag \in {"swap", "data"}
       /\ AllValid(flash, slots[gc.cur].page)

\* Ids rise: no valid record has one that is still to be given.
Numbered ==
  /\ pc \notin {"off", "dead"} => \A id \in LiveIn(flash) : id <= ids.latest
  /\ pc = "finalize" =>
       /\ ids.desc = ids.latest /\ ids.desc # 0 /\ ids.desc \notin LiveIn(flash)
       /\ op.dest \in DataSlots
       /\ LET recs == flash[slots[op.dest].page].recs
          IN  recs # <<>> /\ recs[Len(recs)] = [id |-> ids.desc, state |-> "open"]
  /\ pc = "load" => ids.desc = 0
  /\ pc \in {"write", "overlaid"} \union CollectSteps /\ op.kind = "create" =>
       ids.desc = 0

\* The record the program holds is in a page that m_pages lists; so is the one
\* that is to be retired.
Placed(f, s, id) == \E i \in DOMAIN s : id \in IdsIn(f, s[i].page)

HeldPlaced ==
  /\ \/ pc \in {"idle", "flag"}
     \/ pc \in {"write", "overlaid"} \union CollectSteps /\ op.kind = "update"
     => Placed(flash, slots, ids.desc)
  /\ pc = "flag" \/ (pc = "finalize" /\ op.kind = "update") =>
       /\ op.old \in DataSlots /\ op.at \in ValidAt(flash, slots[op.old].page)
       /\ flash[slots[op.old].page].recs[op.at].id # ids.desc
  /\ pc = "load" /\ LiveIn(flash) # {} =>
       \E i \in DataSlots : IdsIn(flash, slots[i].page) # {}

\* How many records are valid, and which while no update was torn.
Counted ==
  /\ Cardinality(LiveIn(flash)) <= 1 + hist.torn + (IF pc = "flag" THEN 1 ELSE 0)
  /\ op.kind = "create" => LiveIn(flash) = {}
  /\ hist.torn = 0 =>
       LiveIn(flash) = ({hist.acked} \ {0}) \union (IF pc = "flag" THEN {ids.desc} ELSE {})

IInv ==
  Typed /\ Off /\ Booting /\ Running /\ Collecting /\ Numbered /\ HeldPlaced /\ Counted

(***************************************************************************)
(* The first and the last of a set of numbers.                             *)
(***************************************************************************)
\* Min returns the least element.
LEMMA MinIs ==
  ASSUME NEW S \in SUBSET Nat, S # {}
  PROVE  Min(S) \in S /\ \A y \in S : Min(S) <= y
<1>1. PICK x \in S : \A y \in S : ~(<<y, x>> \in OpToRel(<, Nat))
  BY WFMin, NatLessThanWellFounded, Zenon
<1>2. \A y \in S : ~(y < x)
  <2> SUFFICES ASSUME NEW y \in S, y < x PROVE FALSE
    OBVIOUS
  <2>1. <<y, x>> \in {ss \in Nat \X Nat : ss[1] < ss[2]}
    OBVIOUS
  <2> QED
    BY <1>1, <2>1, Zenon DEF OpToRel
<1>3. \A y \in S : x <= y
  BY <1>2
<1> QED
  BY <1>3 DEF Min

\* Max returns the greatest, where there is a bound.
LEMMA MaxIs ==
  ASSUME NEW n \in Nat, NEW S \in SUBSET (0..n), S # {}
  PROVE  Max(S) \in S /\ \A y \in S : y <= Max(S)
<1> DEFINE T == {n - y : y \in S}
<1>1. T \in SUBSET Nat
  OBVIOUS
<1>2. T # {}
  OBVIOUS
<1> HIDE DEF T
<1>3. PICK t \in T : \A u \in T : t <= u
  BY <1>1, <1>2, MinIs
<1>4. PICK x \in S : t = n - x
  BY DEF T
<1>5. \A y \in S : y <= x
  <2> SUFFICES ASSUME NEW y \in S PROVE y <= x
    OBVIOUS
  <2>1. n - y \in T
    BY DEF T
  <2> QED
    BY <1>3, <1>4, <2>1
<1> QED
  BY <1>5 DEF Max

(***************************************************************************)
(* What a step on one page does to the valid records.                      *)
(***************************************************************************)
\* A change of tags leaves them.
LEMMA SameRecords ==
  ASSUME NEW f, NEW g, \A p \in Pages : g[p].recs = f[p].recs
  PROVE  /\ \A p \in Pages : ValidAt(g, p) = ValidAt(f, p) /\ IdsIn(g, p) = IdsIn(f, p)
         /\ LiveIn(g) = LiveIn(f)
         /\ \A S \in SUBSET Pages : UniqueIn(f, S) => UniqueIn(g, S)
         /\ \A p \in Pages : AllValid(f, p) => AllValid(g, p)
<1>1. \A p \in Pages : ValidAt(g, p) = ValidAt(f, p)
  BY DEF ValidAt
<1>2. \A p \in Pages : IdsIn(g, p) = IdsIn(f, p)
  BY <1>1 DEF IdsIn
<1>3. LiveIn(g) = LiveIn(f)
  BY <1>2 DEF LiveIn
<1>4. \A S \in SUBSET Pages : UniqueIn(f, S) => UniqueIn(g, S)
  BY <1>1, SMTT(30) DEF UniqueIn
<1> QED
  BY <1>1, <1>2, <1>3, <1>4 DEF AllValid

\* One page changes: the others keep their records.
LEMMA OtherPages ==
  ASSUME NEW f, NEW g, NEW p \in Pages, \A q \in Pages \ {p} : g[q].recs = f[q].recs
  PROVE  \A q \in Pages \ {p} : ValidAt(g, q) = ValidAt(f, q) /\ IdsIn(g, q) = IdsIn(f, q)
<1>1. \A q \in Pages \ {p} : ValidAt(g, q) = ValidAt(f, q)
  BY DEF ValidAt
<1> QED
  BY <1>1 DEF IdsIn

\* The records that are valid, by where they are.
LEMMA LiveHas ==
  ASSUME NEW f, NEW id
  PROVE  id \in LiveIn(f) <=>
           \E p \in Pages : \E k \in ValidAt(f, p) : f[p].recs[k].id = id
  BY DEF LiveIn, IdsIn

\* The definition, for two records.
LEMMA AtMostOnce ==
  ASSUME NEW f, NEW S, UniqueIn(f, S), NEW p \in S, NEW q \in S,
         NEW k \in ValidAt(f, p), NEW l \in ValidAt(f, q),
         f[p].recs[k].id = f[q].recs[l].id
  PROVE  p = q /\ k = l
  BY Zenon DEF UniqueIn

\* The same, of one page.
LEMMA OncePerPage ==
  ASSUME NEW f, NEW p
  PROVE  UniqueIn(f, {p}) <=>
           \A k, l \in ValidAt(f, p) : f[p].recs[k].id = f[p].recs[l].id => k = l
<1>1. ASSUME UniqueIn(f, {p}), NEW k \in ValidAt(f, p), NEW l \in ValidAt(f, p),
             f[p].recs[k].id = f[p].recs[l].id
      PROVE  k = l
  <2>1. p \in {p}
    OBVIOUS
  <2> QED
    BY <1>1, <2>1, AtMostOnce
<1>2. ASSUME \A k, l \in ValidAt(f, p) : f[p].recs[k].id = f[p].recs[l].id => k = l
      PROVE  UniqueIn(f, {p})
  <2> SUFFICES ASSUME NEW q \in {p}, NEW m \in {p},
                      NEW k \in ValidAt(f, q), NEW l \in ValidAt(f, m),
                      f[q].recs[k].id = f[m].recs[l].id
               PROVE  q = m /\ k = l
    BY DEF UniqueIn
  <2>1. q = p /\ m = p
    OBVIOUS
  <2> QED
    BY <1>2, <2>1
<1> QED
  BY <1>1, <1>2

\* Where no valid record is new, none is there twice.
LEMMA StillUnique ==
  ASSUME NEW f, NEW g, NEW S, UniqueIn(f, S),
         \A p \in S : \A k \in ValidAt(g, p) :
           k \in ValidAt(f, p) /\ g[p].recs[k].id = f[p].recs[k].id
  PROVE  UniqueIn(g, S)
<1> SUFFICES ASSUME NEW p \in S, NEW q \in S,
                    NEW k \in ValidAt(g, p), NEW l \in ValidAt(g, q),
                    g[p].recs[k].id = g[q].recs[l].id
             PROVE  p = q /\ k = l
  BY DEF UniqueIn
<1>1. k \in ValidAt(f, p) /\ l \in ValidAt(f, q) /\ f[p].recs[k].id = f[q].recs[l].id
  OBVIOUS
<1> QED
  BY <1>1, AtMostOnce

\* New records for a page.
LEMMA NewRecords ==
  ASSUME NEW f, FlashTyped(f), NEW p \in Pages, NEW R \in Seq(Record), Len(R) <= Cap,
         f[p].tag # "erased" \/ R = <<>>,
         NEW g, g = WithRecs(f, p, R)
  PROVE  /\ FlashTyped(g)
         /\ g[p].recs = R /\ g[p].tag = f[p].tag
         /\ \A q \in Pages \ {p} : g[q] = f[q]
  BY SMTT(30) DEF FlashTyped, Page, WithRecs

\* A record is appended: until its last header word it is not valid.
LEMMA Opened ==
  ASSUME NEW f, FlashTyped(f), NEW p \in Pages, Len(f[p].recs) < Cap,
         f[p].tag # "erased", NEW d \in 1..MaxId,
         NEW g, g = Opens(f, p, d)
  PROVE  /\ FlashTyped(g)
         /\ \A q \in Pages : g[q].tag = f[q].tag
         /\ \A q \in Pages \ {p} : g[q] = f[q]
         /\ \A q \in Pages : ValidAt(g, q) = ValidAt(f, q) /\ IdsIn(g, q) = IdsIn(f, q)
         /\ \A q \in Pages : \A k \in ValidAt(f, q) : g[q].recs[k] = f[q].recs[k]
         /\ LiveIn(g) = LiveIn(f)
         /\ UniqueIn(f, Pages) => UniqueIn(g, Pages)
         /\ g[p].recs # <<>>
         /\ g[p].recs[Len(g[p].recs)] = [id |-> d, state |-> "open"]
<1> DEFINE r == [id |-> d, state |-> "open"]
           R == Append(f[p].recs, r)
<1>1. f[p].recs \in Seq(Record) /\ r \in Record /\ ~Valid(r) /\ r.id = d
  BY DEF FlashTyped, Page, Record, Valid
<1> HIDE DEF r
<1>2. /\ R \in Seq(Record) /\ Len(R) = Len(f[p].recs) + 1 /\ R[Len(R)] = r
      /\ \A k \in 1..Len(f[p].recs) : R[k] = f[p].recs[k]
  BY <1>1, AppendProperties
<1>3. g = WithRecs(f, p, R)
  BY DEF r, Opens, WithRecs
<1> HIDE DEF R
<1>4. Len(f[p].recs) \in Nat /\ Len(R) <= Cap /\ R # <<>>
  BY <1>1, <1>2, FlashAssumption
<1>5. /\ FlashTyped(g) /\ g[p].recs = R /\ g[p].tag = f[p].tag
      /\ \A q \in Pages \ {p} : g[q] = f[q]
  BY <1>2, <1>3, <1>4, NewRecords
<1>6. ValidAt(g, p) = ValidAt(f, p)
  <2>1. DOMAIN R = 1..(Len(f[p].recs) + 1) /\ DOMAIN f[p].recs = 1..Len(f[p].recs)
    BY <1>1, <1>2
  <2>2. \A k \in DOMAIN R : k \in DOMAIN f[p].recs \/ k = Len(R)
    BY <1>2, <1>4, <2>1
  <2>3. \A k \in DOMAIN R : Valid(R[k]) => k \in DOMAIN f[p].recs
    BY <1>1, <1>2, <2>2
  <2>4. \A k \in DOMAIN f[p].recs : k \in DOMAIN R
    BY <1>4, <2>1
  <2> QED
    BY <1>2, <1>5, <2>1, <2>3, <2>4 DEF ValidAt
<1>7. \A k \in ValidAt(f, p) : g[p].recs[k] = f[p].recs[k]
  BY <1>1, <1>2, <1>4, <1>5 DEF ValidAt
<1>8. IdsIn(g, p) = IdsIn(f, p)
  BY <1>6, <1>7 DEF IdsIn
<1>9. \A q \in Pages : ValidAt(g, q) = ValidAt(f, q) /\ IdsIn(g, q) = IdsIn(f, q)
  BY <1>5, <1>6, <1>8, OtherPages
<1>10. \A q \in Pages : \A k \in ValidAt(f, q) : g[q].recs[k] = f[q].recs[k]
  BY <1>5, <1>7
<1>11. LiveIn(g) = LiveIn(f)
  BY <1>9 DEF LiveIn
<1>12. UniqueIn(f, Pages) => UniqueIn(g, Pages)
  BY <1>9, <1>10, StillUnique
<1> QED
  BY <1>2, <1>4, <1>5, <1>9, <1>10, <1>11, <1>12 DEF r

\* The last record of a page becomes valid.
LEMMA Finalized ==
  ASSUME NEW f, FlashTyped(f), NEW p \in Pages, f[p].recs # <<>>,
         NEW d \in 1..MaxId, d \notin LiveIn(f), UniqueIn(f, Pages),
         f[p].recs[Len(f[p].recs)] = [id |-> d, state |-> "open"],
         NEW g, g = Finalizes(f, p)
  PROVE  /\ FlashTyped(g)
         /\ \A q \in Pages : g[q].tag = f[q].tag
         /\ \A q \in Pages \ {p} : g[q] = f[q]
         /\ IdsIn(g, p) = IdsIn(f, p) \union {d}
         /\ \A q \in Pages \ {p} : IdsIn(g, q) = IdsIn(f, q)
         /\ \A q \in Pages : \A k \in ValidAt(f, q) :
              k \in ValidAt(g, q) /\ g[q].recs[k] = f[q].recs[k]
         /\ LiveIn(g) = LiveIn(f) \union {d}
         /\ UniqueIn(g, Pages)
<1> DEFINE n == Len(f[p].recs)
           r == [id |-> d, state |-> "valid"]
           R == [f[p].recs EXCEPT ![n] = r]
<1>1. /\ f[p].recs \in Seq(Record) /\ r \in Record /\ Valid(r) /\ r.id = d
      /\ ~Valid(f[p].recs[n]) /\ f[p].tag # "erased" /\ Len(f[p].recs) <= Cap
  <2>1. f[p].recs \in Seq(Record) /\ f[p].tag # "erased" /\ Len(f[p].recs) <= Cap
    BY DEF FlashTyped, Page
  <2> QED
    BY <2>1 DEF Record, Valid
<1>2. n \in 1..Len(f[p].recs)
  BY <1>1
<1>3. g = WithRecs(f, p, R)
  <2>1. [f[p].recs[n] EXCEPT !.state = "valid"] = r
    OBVIOUS
  <2>2. [f EXCEPT ![p].recs[n].state = "valid"]
        = [f EXCEPT ![p].recs = [f[p].recs EXCEPT ![n] = [f[p].recs[n] EXCEPT !.state = "valid"]]]
    OBVIOUS
  <2> QED
    BY <2>1, <2>2, Zenon DEF Finalizes, WithRecs
<1> HIDE DEF r
<1>4. /\ R \in Seq(Record) /\ Len(R) = Len(f[p].recs)
      /\ \A k \in 1..Len(f[p].recs) : R[k] = IF k = n THEN r ELSE f[p].recs[k]
  BY <1>1, <1>2, ExceptSeq
<1> HIDE DEF R
<1>5. /\ FlashTyped(g) /\ g[p].recs = R /\ g[p].tag = f[p].tag
      /\ \A q \in Pages \ {p} : g[q] = f[q]
  BY <1>1, <1>3, <1>4, NewRecords
<1>6. DOMAIN R = 1..Len(f[p].recs) /\ DOMAIN f[p].recs = 1..Len(f[p].recs)
  BY <1>1, <1>4
<1> HIDE DEF n
<1>7. ValidAt(g, p) = ValidAt(f, p) \union {n} /\ n \notin ValidAt(f, p)
  BY <1>1, <1>2, <1>4, <1>5, <1>6 DEF ValidAt
<1>8. /\ \A k \in ValidAt(f, p) : g[p].recs[k] = f[p].recs[k]
      /\ g[p].recs[n].id = d
  BY <1>1, <1>2, <1>4, <1>5, <1>6, <1>7 DEF ValidAt
<1>9. IdsIn(g, p) = IdsIn(f, p) \union {d}
  BY <1>7, <1>8 DEF IdsIn
<1>10. \A q \in Pages \ {p} : ValidAt(g, q) = ValidAt(f, q) /\ IdsIn(g, q) = IdsIn(f, q)
  <2>1. \A q \in Pages \ {p} : g[q].recs = f[q].recs
    BY <1>5
  <2> QED
    BY <2>1, OtherPages
<1>11. \A q \in Pages : \A k \in ValidAt(f, q) :
         k \in ValidAt(g, q) /\ g[q].recs[k] = f[q].recs[k]
  BY <1>5, <1>7, <1>8, <1>10
<1>12. LiveIn(g) = LiveIn(f) \union {d}
  BY <1>9, <1>10 DEF LiveIn
<1>13. UniqueIn(g, Pages)
  <2>1. \A q \in Pages : \A k \in ValidAt(g, q) :
          \/ q = p /\ k = n /\ g[q].recs[k].id = d
          \/ k \in ValidAt(f, q) /\ g[q].recs[k] = f[q].recs[k] /\ f[q].recs[k].id # d
    BY <1>7, <1>8, <1>10, <1>11, LiveHas
  <2>2. SUFFICES ASSUME NEW q \in Pages, NEW m \in Pages,
                         NEW k \in ValidAt(g, q), NEW l \in ValidAt(g, m),
                         g[q].recs[k].id = g[m].recs[l].id
                  PROVE  q = m /\ k = l
    BY DEF UniqueIn
  <2>3. \/ q = p /\ k = n
        \/ k \in ValidAt(f, q) /\ g[q].recs[k].id = f[q].recs[k].id /\ f[q].recs[k].id # d
    BY <2>1
  <2>4. \/ m = p /\ l = n
        \/ l \in ValidAt(f, m) /\ g[m].recs[l].id = f[m].recs[l].id /\ f[m].recs[l].id # d
    BY <2>1
  <2> QED
    BY <2>2, <2>3, <2>4, <1>8, AtMostOnce
<1> QED
  BY <1>5, <1>9, <1>10, <1>11, <1>12, <1>13

\* A record is marked as dirty.
LEMMA Flagged ==
  ASSUME NEW f, FlashTyped(f), NEW p \in Pages, NEW n \in ValidAt(f, p),
         UniqueIn(f, Pages), NEW e, e = f[p].recs[n].id,
         NEW g, g = Flags(f, p, n)
  PROVE  /\ FlashTyped(g)
         /\ \A q \in Pages : g[q].tag = f[q].tag
         /\ \A q \in Pages \ {p} : g[q] = f[q]
         /\ \A q \in Pages : IdsIn(g, q) = IdsIn(f, q) \ {e}
         /\ LiveIn(g) = LiveIn(f) \ {e}
         /\ UniqueIn(g, Pages)
<1> DEFINE r == [f[p].recs[n] EXCEPT !.state = "dirty"]
           R == [f[p].recs EXCEPT ![n] = r]
<1>1. /\ f[p].recs \in Seq(Record) /\ f[p].tag # "erased" /\ Len(f[p].recs) <= Cap
      /\ n \in 1..Len(f[p].recs)
  BY DEF FlashTyped, Page, ValidAt
<1>2. r \in Record /\ ~Valid(r) /\ r.id = e
  <2>1. f[p].recs[n] \in Record
    BY <1>1
  <2> QED
    BY <2>1 DEF Record, Valid
<1>3. g = WithRecs(f, p, R)
  <2>1. [f EXCEPT ![p].recs[n].state = "dirty"]
        = [f EXCEPT ![p].recs = [f[p].recs EXCEPT ![n] = [f[p].recs[n] EXCEPT !.state = "dirty"]]]
    OBVIOUS
  <2> QED
    BY <2>1, Zenon DEF Flags, WithRecs
<1> HIDE DEF r
<1>4. /\ R \in Seq(Record) /\ Len(R) = Len(f[p].recs)
      /\ \A k \in 1..Len(f[p].recs) : R[k] = IF k = n THEN r ELSE f[p].recs[k]
  BY <1>1, <1>2, ExceptSeq
<1> HIDE DEF R
<1>5. /\ FlashTyped(g) /\ g[p].recs = R /\ g[p].tag = f[p].tag
      /\ \A q \in Pages \ {p} : g[q] = f[q]
  BY <1>1, <1>3, <1>4, NewRecords
<1>6. DOMAIN R = 1..Len(f[p].recs) /\ DOMAIN f[p].recs = 1..Len(f[p].recs)
  BY <1>1, <1>4
<1>7. ValidAt(g, p) = ValidAt(f, p) \ {n}
  BY <1>1, <1>2, <1>4, <1>5, <1>6 DEF ValidAt
<1>8. \A k \in ValidAt(g, p) : g[p].recs[k] = f[p].recs[k] /\ f[p].recs[k].id # e
  <2> SUFFICES ASSUME NEW k \in ValidAt(g, p)
               PROVE  g[p].recs[k] = f[p].recs[k] /\ f[p].recs[k].id # e
    OBVIOUS
  <2>1. k \in ValidAt(f, p) /\ k # n /\ g[p].recs[k] = f[p].recs[k]
    BY <1>4, <1>5, <1>6, <1>7 DEF ValidAt
  <2> QED
    BY <2>1, AtMostOnce
<1>9. IdsIn(g, p) = IdsIn(f, p) \ {e}
  BY <1>7, <1>8 DEF IdsIn
<1>10. \A q \in Pages \ {p} : ValidAt(g, q) = ValidAt(f, q) /\ IdsIn(g, q) = IdsIn(f, q)
  <2>1. \A q \in Pages \ {p} : g[q].recs = f[q].recs
    BY <1>5
  <2> QED
    BY <2>1, OtherPages, ZenonT(30)
<1>11. \A q \in Pages \ {p} : e \notin IdsIn(f, q)
  <2> SUFFICES ASSUME NEW q \in Pages \ {p}, NEW k \in ValidAt(f, q), f[q].recs[k].id = e
               PROVE  FALSE
    BY DEF IdsIn
  <2> QED
    BY AtMostOnce
<1>12. \A q \in Pages : IdsIn(g, q) = IdsIn(f, q) \ {e}
  BY <1>9, <1>10, <1>11
<1>13. LiveIn(g) = LiveIn(f) \ {e}
  BY <1>12 DEF LiveIn
<1>14. UniqueIn(g, Pages)
  <2>1. \A q \in Pages : \A k \in ValidAt(g, q) :
          k \in ValidAt(f, q) /\ g[q].recs[k].id = f[q].recs[k].id
    BY <1>5, <1>7, <1>8, <1>10
  <2> QED
    BY <2>1, StillUnique
<1> QED
  BY <1>5, <1>12, <1>13, <1>14

\* A valid record is copied to a page.
LEMMA CopyOne ==
  ASSUME NEW f, FlashTyped(f), NEW p \in Pages, Len(f[p].recs) < Cap,
         f[p].tag # "erased", NEW r \in Record, Valid(r),
         NEW g, g = Copies(f, p, r)
  PROVE  /\ FlashTyped(g)
         /\ \A q \in Pages : g[q].tag = f[q].tag
         /\ \A q \in Pages \ {p} : g[q] = f[q]
         /\ \A q \in Pages \ {p} : ValidAt(g, q) = ValidAt(f, q) /\ IdsIn(g, q) = IdsIn(f, q)
         /\ Len(g[p].recs) = Len(f[p].recs) + 1
         /\ ValidAt(g, p) = ValidAt(f, p) \union {Len(g[p].recs)}
         /\ Len(g[p].recs) \notin ValidAt(f, p)
         /\ \A k \in ValidAt(f, p) : g[p].recs[k] = f[p].recs[k]
         /\ g[p].recs[Len(g[p].recs)] = r
         /\ IdsIn(g, p) = IdsIn(f, p) \union {r.id}
         /\ AllValid(f, p) => AllValid(g, p)
<1> DEFINE R == Append(f[p].recs, r)
<1>1. f[p].recs \in Seq(Record)
  BY DEF FlashTyped, Page
<1>2. /\ R \in Seq(Record) /\ Len(R) = Len(f[p].recs) + 1 /\ R[Len(R)] = r
      /\ \A k \in 1..Len(f[p].recs) : R[k] = f[p].recs[k]
  BY <1>1, AppendProperties
<1>3. g = WithRecs(f, p, R)
  BY DEF Copies, WithRecs
<1> HIDE DEF R
<1>4. Len(f[p].recs) \in Nat /\ Len(R) <= Cap
  BY <1>1, <1>2, FlashAssumption
<1>5. /\ FlashTyped(g) /\ g[p].recs = R /\ g[p].tag = f[p].tag
      /\ \A q \in Pages \ {p} : g[q] = f[q]
  BY <1>2, <1>3, <1>4, NewRecords
<1>6. DOMAIN R = 1..(Len(f[p].recs) + 1) /\ DOMAIN f[p].recs = 1..Len(f[p].recs)
  BY <1>1, <1>2
<1>7. \A k \in DOMAIN R : k = Len(R) \/ (k \in DOMAIN f[p].recs /\ R[k] = f[p].recs[k])
  BY <1>2, <1>4, <1>6
<1>8. \A k \in DOMAIN f[p].recs : k \in DOMAIN R /\ R[k] = f[p].recs[k] /\ k # Len(R)
  BY <1>2, <1>4, <1>6
<1>9. Len(R) \in DOMAIN R
  BY <1>2, <1>4, <1>6
<1>10. ValidAt(g, p) = ValidAt(f, p) \union {Len(R)} /\ Len(R) \notin ValidAt(f, p)
  BY <1>2, <1>5, <1>7, <1>8, <1>9 DEF ValidAt
<1>11. \A k \in ValidAt(f, p) : g[p].recs[k] = f[p].recs[k]
  BY <1>5, <1>8 DEF ValidAt
<1>12. IdsIn(g, p) = IdsIn(f, p) \union {r.id}
  BY <1>2, <1>5, <1>10, <1>11 DEF IdsIn
<1>13. AllValid(f, p) => AllValid(g, p)
  BY <1>2, <1>5, <1>7 DEF AllValid
<1>14. \A q \in Pages \ {p} : ValidAt(g, q) = ValidAt(f, q) /\ IdsIn(g, q) = IdsIn(f, q)
  <2>1. \A q \in Pages \ {p} : g[q].recs = f[q].recs
    BY <1>5
  <2> QED
    BY <2>1, OtherPages
<1> QED
  BY <1>2, <1>5, <1>10, <1>11, <1>12, <1>13, <1>14

\* A page is erased.
LEMMA ErasedOne ==
  ASSUME NEW f, FlashTyped(f), NEW p \in Pages, NEW g, g = Erases(f, p)
  PROVE  /\ FlashTyped(g) /\ g[p] = Erased
         /\ \A q \in Pages \ {p} : g[q] = f[q]
         /\ ValidAt(g, p) = {} /\ IdsIn(g, p) = {}
         /\ \A q \in Pages \ {p} : ValidAt(g, q) = ValidAt(f, q) /\ IdsIn(g, q) = IdsIn(f, q)
         /\ LiveIn(g) = UNION {IdsIn(f, q) : q \in Pages \ {p}}
<1>1. f \in [Pages -> Page] /\ Erased \in Page
  BY DEF FlashTyped, Page, Erased
<1>2. g \in [Pages -> Page] /\ g[p] = Erased /\ \A q \in Pages \ {p} : g[q] = f[q]
  BY <1>1 DEF Erases
<1>3. FlashTyped(g)
  BY <1>2, FlashAssumption DEF FlashTyped, Erased
<1>4. ValidAt(g, p) = {} /\ IdsIn(g, p) = {}
  BY <1>2 DEF ValidAt, IdsIn, Erased
<1>5. \A q \in Pages \ {p} : ValidAt(g, q) = ValidAt(f, q) /\ IdsIn(g, q) = IdsIn(f, q)
  <2>1. \A q \in Pages \ {p} : g[q].recs = f[q].recs
    BY <1>2
  <2> QED
    BY <2>1, OtherPages
<1>6. LiveIn(g) = UNION {IdsIn(f, q) : q \in Pages \ {p}}
  BY <1>4, <1>5 DEF LiveIn
<1> QED
  BY <1>2, <1>3, <1>4, <1>5, <1>6

\* A page is tagged as a data page.
LEMMA TaggedData ==
  ASSUME NEW f, FlashTyped(f), NEW p \in Pages, NEW g, g = Tagging(f, p, "data")
  PROVE  /\ FlashTyped(g)
         /\ g[p].tag = "data"
         /\ \A q \in Pages \ {p} : g[q] = f[q]
         /\ \A q \in Pages : g[q].recs = f[q].recs
<1>1. f \in [Pages -> Page] /\ Tagged(f[p].tag, "data") \in {"swap", "data"}
  BY DEF FlashTyped, Tagged
<1>2. /\ g \in [Pages -> Page]
      /\ g[p].tag = Tagged(f[p].tag, "data") /\ g[p].recs = f[p].recs
      /\ \A q \in Pages \ {p} : g[q] = f[q]
  BY <1>1 DEF Tagging, Page
<1>3. g[p].tag = "data"
  BY <1>2 DEF Tagged
<1> QED
  BY <1>1, <1>2, <1>3 DEF FlashTyped

\* As the swap page, unless it is tagged as a data page.
LEMMA TaggedSwap ==
  ASSUME NEW f, FlashTyped(f), NEW p \in Pages, NEW g, g = Tagging(f, p, "swap")
  PROVE  /\ FlashTyped(g)
         /\ g[p].tag = IF f[p].tag = "data" THEN "data" ELSE "swap"
         /\ \A q \in Pages \ {p} : g[q] = f[q]
         /\ \A q \in Pages : g[q].recs = f[q].recs
<1>1. f \in [Pages -> Page] /\ Tagged(f[p].tag, "swap") \in {"swap", "data"}
  BY DEF FlashTyped, Tagged
<1>2. /\ g \in [Pages -> Page]
      /\ g[p].tag = Tagged(f[p].tag, "swap") /\ g[p].recs = f[p].recs
      /\ \A q \in Pages \ {p} : g[q] = f[q]
  BY <1>1 DEF Tagging, Page
<1>3. g[p].tag = IF f[p].tag = "data" THEN "data" ELSE "swap"
  BY <1>2 DEF Tagged
<1> QED
  BY <1>1, <1>2, <1>3 DEF FlashTyped

\* Fewer pages, no more copies.
LEMMA UniqueSubset ==
  ASSUME NEW f, NEW S, NEW T, UniqueIn(f, S), T \subseteq S
  PROVE  UniqueIn(f, T)
<1> SUFFICES ASSUME NEW p \in T, NEW q \in T, NEW k \in ValidAt(f, p), NEW l \in ValidAt(f, q),
                    f[p].recs[k].id = f[q].recs[l].id
             PROVE  p = q /\ k = l
  BY DEF UniqueIn
<1> QED
  BY AtMostOnce

\* A collection copies the next valid record.
LEMMA CopiedNext ==
  ASSUME NEW f, FlashTyped(f), NEW c \in Pages, NEW w \in Pages, c # w, NEW n \in Nat,
         Copied(f, c, w, n), f[w].tag # "erased",
         NEW m \in ValidAt(f, c), m > n, \A k \in ValidAt(f, c) : k > n => k >= m,
         NEW g, g = Copies(f, w, f[c].recs[m])
  PROVE  /\ FlashTyped(g) /\ Copied(g, c, w, m)
         /\ LiveIn(g) = LiveIn(f)
         /\ \A q \in Pages : g[q].tag = f[q].tag
         /\ \A q \in Pages \ {w} : g[q] = f[q]
         /\ \A q \in Pages : IdsIn(f, q) \subseteq IdsIn(g, q)
<1> DEFINE r == f[c].recs[m]
           N == Len(g[w].recs)
<1>1. /\ f[c].recs \in Seq(Record) /\ f[w].recs \in Seq(Record) /\ Len(f[c].recs) <= Cap
      /\ m \in 1..Len(f[c].recs) /\ Valid(r) /\ ValidAt(f, c) \subseteq Nat
  BY DEF FlashTyped, Page, ValidAt
<1>2. r \in Record /\ Len(f[w].recs) < Cap
  BY <1>1, FlashAssumption DEF Copied
<1>3. /\ FlashTyped(g)
      /\ \A q \in Pages : g[q].tag = f[q].tag
      /\ \A q \in Pages \ {w} : g[q] = f[q]
      /\ N = Len(f[w].recs) + 1
      /\ ValidAt(g, w) = ValidAt(f, w) \union {N} /\ N \notin ValidAt(f, w)
      /\ \A k \in ValidAt(f, w) : g[w].recs[k] = f[w].recs[k]
      /\ g[w].recs[N] = r
      /\ IdsIn(g, w) = IdsIn(f, w) \union {r.id}
      /\ AllValid(f, w) => AllValid(g, w)
  <2>1. /\ Len(f[w].recs) < Cap /\ f[w].tag # "erased" /\ r \in Record /\ Valid(r)
        /\ g = Copies(f, w, r)
    BY <1>1, <1>2
  <2> HIDE DEF r
  <2> QED
    BY <2>1, CopyOne
<1> HIDE DEF r, N
<1>4. \A q \in Pages \ {w} : ValidAt(g, q) = ValidAt(f, q) /\ IdsIn(g, q) = IdsIn(f, q)
  BY <1>1, <1>2, CopyOne DEF r
<1>5. r.id \in IdsIn(f, c)
  BY DEF IdsIn, r
<1>6. r.id \notin IdsIn(f, w)
  <2> SUFFICES ASSUME r.id \in IdsIn(f, w) PROVE FALSE
    OBVIOUS
  <2>1. PICK k \in ValidAt(f, c) : k <= n /\ f[c].recs[k].id = r.id
    BY DEF Copied
  <2>2. k = m
    BY <2>1, AtMostOnce DEF Copied, r
  <2> QED
    BY <1>1, <2>1, <2>2
<1>7. UniqueIn(g, Pages \ {w})
  <2>1. \A q \in Pages \ {w} : \A k \in ValidAt(g, q) :
          k \in ValidAt(f, q) /\ g[q].recs[k].id = f[q].recs[k].id
    BY <1>3, <1>4
  <2> QED
    BY <2>1, StillUnique DEF Copied
<1>8. UniqueIn(g, {w})
  <2> SUFFICES ASSUME NEW k \in ValidAt(g, w), NEW l \in ValidAt(g, w),
                      g[w].recs[k].id = g[w].recs[l].id
               PROVE  k = l
    BY OncePerPage
  <2>1. \A j \in ValidAt(f, w) : g[w].recs[j].id = f[w].recs[j].id /\ f[w].recs[j].id # r.id
    BY <1>3, <1>6 DEF IdsIn
  <2>2. (k = N \/ k \in ValidAt(f, w)) /\ (l = N \/ l \in ValidAt(f, w))
    BY <1>3
  <2>3. k \in ValidAt(f, w) /\ l \in ValidAt(f, w) => k = l
    <3>1. \A i, j \in ValidAt(f, w) : f[w].recs[i].id = f[w].recs[j].id => i = j
      BY OncePerPage DEF Copied
    <3> QED
      BY <2>1, <3>1
  <2> QED
    BY <1>3, <2>1, <2>2, <2>3
<1>9. Len(g[w].recs) <= m
  BY <1>1, <1>3 DEF Copied, N
<1>10. ValidAt(g, c) = ValidAt(f, c) /\ g[c] = f[c]
  BY <1>3, <1>4
<1>11. \A k \in ValidAt(g, c) : k <= m => g[c].recs[k].id \in IdsIn(g, w)
  <2> SUFFICES ASSUME NEW k \in ValidAt(f, c), k <= m
               PROVE  f[c].recs[k].id \in IdsIn(g, w)
    BY <1>10
  <2>1. k <= n \/ k = m
    BY <1>1
  <2> QED
    BY <1>3, <2>1 DEF Copied, r
<1>12. \A id \in IdsIn(g, w) : \E k \in ValidAt(g, c) : k <= m /\ g[c].recs[k].id = id
  <2> SUFFICES ASSUME NEW id \in IdsIn(g, w)
               PROVE  \E k \in ValidAt(f, c) : k <= m /\ f[c].recs[k].id = id
    BY <1>10
  <2>1. CASE id = r.id
    BY <1>1, <2>1 DEF r
  <2>2. CASE id \in IdsIn(f, w)
    <3>1. PICK k \in ValidAt(f, c) : k <= n /\ f[c].recs[k].id = id
      BY <2>2 DEF Copied
    <3> QED
      BY <1>1, <3>1
  <2> QED
    BY <1>3, <2>1, <2>2
<1>13. Copied(g, c, w, m)
  BY <1>3, <1>7, <1>8, <1>9, <1>11, <1>12 DEF Copied
<1>14. LiveIn(g) = LiveIn(f)
  BY <1>3, <1>4, <1>5 DEF LiveIn
<1> QED
  BY <1>3, <1>4, <1>13, <1>14

\* When all of them are copied the page can be erased.
LEMMA CollectedErased ==
  ASSUME NEW f, FlashTyped(f), NEW c \in Pages, NEW w \in Pages, c # w, NEW n \in Nat,
         Copied(f, c, w, n), \A k \in ValidAt(f, c) : k <= n,
         NEW g, g = Erases(f, c)
  PROVE  /\ UniqueIn(g, Pages) /\ LiveIn(g) = LiveIn(f)
         /\ IdsIn(f, c) \subseteq IdsIn(g, w)
<1>1. /\ g[c] = Erased /\ ValidAt(g, c) = {} /\ IdsIn(g, c) = {}
      /\ \A q \in Pages \ {c} : g[q] = f[q]
      /\ \A q \in Pages \ {c} : ValidAt(g, q) = ValidAt(f, q) /\ IdsIn(g, q) = IdsIn(f, q)
      /\ LiveIn(g) = UNION {IdsIn(f, q) : q \in Pages \ {c}}
  BY ErasedOne, SMTT(20)
<1>2. IdsIn(f, c) = IdsIn(f, w)
  BY DEF Copied, IdsIn
<1>3. LiveIn(g) = LiveIn(f)
  BY <1>1, <1>2 DEF LiveIn
<1>4. UniqueIn(g, Pages)
  <2> SUFFICES ASSUME NEW p \in Pages, NEW q \in Pages,
                      NEW k \in ValidAt(g, p), NEW l \in ValidAt(g, q),
                      g[p].recs[k].id = g[q].recs[l].id
               PROVE  p = q /\ k = l
    BY DEF UniqueIn
  <2>1. /\ p # c /\ q # c /\ k \in ValidAt(f, p) /\ l \in ValidAt(f, q)
        /\ f[p].recs[k].id = f[q].recs[l].id
    BY <1>1
  <2>2. \A a \in Pages \ {c, w} : \A j \in ValidAt(f, a), i \in ValidAt(f, w) :
          f[a].recs[j].id # f[w].recs[i].id
    <3> SUFFICES ASSUME NEW a \in Pages \ {c, w}, NEW j \in ValidAt(f, a),
                        NEW i \in ValidAt(f, w), f[a].recs[j].id = f[w].recs[i].id
                 PROVE  FALSE
      OBVIOUS
    <3>1. PICK h \in ValidAt(f, c) : f[c].recs[h].id = f[w].recs[i].id
      BY <1>2 DEF IdsIn
    <3> QED
      BY <3>1, AtMostOnce DEF Copied
  <2>3. CASE p = w /\ q = w
    BY <2>1, <2>3, AtMostOnce DEF Copied
  <2>4. CASE p # w /\ q # w
    BY <2>1, <2>4, AtMostOnce DEF Copied
  <2> QED
    BY <2>1, <2>2, <2>3, <2>4
<1> QED
  BY <1>1, <1>2, <1>3, <1>4

\* At boot the swap page can be erased when all it holds is elsewhere.
LEMMA CopiesErased ==
  ASSUME NEW f, FlashTyped(f), NEW w \in Pages,
         UniqueIn(f, Pages \ {w}), CopiedFrom(f, w),
         NEW g, g = Erases(f, w)
  PROVE  UniqueIn(g, Pages) /\ LiveIn(g) = LiveIn(f)
<1>1. /\ ValidAt(g, w) = {}
      /\ \A q \in Pages \ {w} : g[q] = f[q]
      /\ \A q \in Pages \ {w} : ValidAt(g, q) = ValidAt(f, q) /\ IdsIn(g, q) = IdsIn(f, q)
      /\ LiveIn(g) = UNION {IdsIn(f, q) : q \in Pages \ {w}}
  BY ErasedOne
<1>2. LiveIn(g) = LiveIn(f)
  BY <1>1 DEF LiveIn, CopiedFrom
<1>3. UniqueIn(g, Pages)
  <2> SUFFICES ASSUME NEW p \in Pages, NEW q \in Pages,
                      NEW k \in ValidAt(g, p), NEW l \in ValidAt(g, q),
                      g[p].recs[k].id = g[q].recs[l].id
               PROVE  p = q /\ k = l
    BY DEF UniqueIn
  <2>1. /\ p \in Pages \ {w} /\ q \in Pages \ {w}
        /\ k \in ValidAt(f, p) /\ l \in ValidAt(f, q)
        /\ f[p].recs[k].id = f[q].recs[l].id
    BY <1>1
  <2> QED
    BY <2>1, AtMostOnce
<1> QED
  BY <1>2, <1>3

(***************************************************************************)
(* Wherever the power goes, the flash is one that boot can read.           *)
(***************************************************************************)
\* An entry of m_pages.
LEMMA SlotAt ==
  ASSUME Typed
  PROVE  /\ DataSlots = 1..Len(slots) /\ Len(slots) \in Nat
         /\ \A i \in DataSlots :
              slots[i] \in SlotState /\ slots[i].page \in Pages
              /\ slots[i].type \in {"erased", "data"}
<1>1. slots \in Seq(SlotState)
  BY DEF Typed
<1>2. DataSlots = 1..Len(slots) /\ Len(slots) \in Nat
  BY <1>1 DEF DataSlots
<1>3. \A i \in DataSlots : slots[i] \in SlotState
  BY <1>1, <1>2, ElementOfSeq
<1> QED
  BY <1>2, <1>3 DEF SlotState

\* A page without records.
LEMMA EmptyPage ==
  ASSUME NEW f, NEW p, f[p].recs = <<>>
  PROVE  ValidAt(f, p) = {} /\ IdsIn(f, p) = {} /\ AllValid(f, p) /\ CopiedFrom(f, p)
<1>1. ValidAt(f, p) = {}
  BY DEF ValidAt
<1>2. IdsIn(f, p) = {}
  BY <1>1 DEF IdsIn
<1> QED
  BY <1>1, <1>2 DEF AllValid, CopiedFrom

\* While the store starts.
LEMMA BootSafeBooting ==
  ASSUME IInv, pc \in {"eraseSwap", "promote", "tagSwap", "tagData"}
  PROVE  BootSafe(flash)
<1>1. /\ FlashTyped(flash) /\ slots \in Seq(SlotState) /\ op.kind \in {"none", "promote"}
      /\ Maps(slots, swap)
      /\ \A i \in DataSlots : slots[i].type = flash[slots[i].page].tag
  BY DEF IInv, Typed, Booting
<1>2. \A p \in Pages \ {swap} : flash[p].tag # "swap"
  <2>1. \A i \in DataSlots : slots[i].type # "swap"
    BY SlotAt DEF IInv
  <2> QED
    BY <1>1, <2>1 DEF Maps, DataSlots
<1>3. flash[swap].tag = "swap" => AllValid(flash, swap)
  BY <1>1, EmptyPage DEF IInv, Booting
<1>4. pc # "eraseSwap" => UniqueIn(flash, Pages)
  BY DEF IInv, Booting
<1>5. pc = "eraseSwap" =>
        ~Tags(flash, "erased") /\ UniqueIn(flash, Pages \ {swap}) /\ CopiedFrom(flash, swap)
  <2> SUFFICES ASSUME pc = "eraseSwap"
               PROVE  ~Tags(flash, "erased") /\ UniqueIn(flash, Pages \ {swap})
                      /\ CopiedFrom(flash, swap)
    OBVIOUS
  <2>1. /\ flash[swap].tag = "swap" /\ UniqueIn(flash, Pages \ {swap})
        /\ CopiedFrom(flash, swap)
        /\ \A i \in DataSlots : flash[slots[i].page].tag = "data"
    BY <1>1 DEF IInv, Booting
  <2>2. \A p \in Pages \ {swap} : flash[p].tag = "data"
    BY <1>1, <2>1 DEF Maps, DataSlots
  <2> QED
    BY <2>1, <2>2 DEF Tags
<1>6. ASSUME NEW s \in Pages, flash[s].tag = "swap", ~Tags(flash, "erased")
      PROVE  UniqueIn(flash, Pages \ {s}) /\ CopiedFrom(flash, s)
  <2>1. s = swap
    BY <1>2, <1>6
  <2>2. CASE pc = "eraseSwap"
    BY <1>5, <2>1, <2>2
  <2>3. CASE pc # "eraseSwap"
    <3>1. UniqueIn(flash, Pages \ {s})
      BY <1>4, <2>3, UniqueSubset
    <3>2. flash[swap].recs = <<>>
      BY <1>1, <1>6, <2>1, <2>3 DEF IInv, Booting
    <3> QED
      BY <2>1, <3>1, <3>2, EmptyPage
  <2> QED
    BY <2>2, <2>3
<1> QED
  BY <1>2, <1>3, <1>4, <1>5, <1>6 DEF BootSafe

\* While the store runs.
LEMMA BootSafeRunning ==
  ASSUME IInv, pc \in RunSteps
  PROVE  BootSafe(flash)
<1>1. /\ FlashTyped(flash) /\ slots \in Seq(SlotState) /\ Maps(slots, swap)
      /\ \A i \in DataSlots :
           flash[slots[i].page].tag = "data" \/ (pc = "gcPromote" /\ i = gc.cur)
      /\ pc # "gcCopy" => UniqueIn(flash, Pages)
      /\ pc \notin {"gcPromote", "gcTag"} => flash[swap].tag \in {"swap", "data"}
      /\ pc # "gcCopy" /\ flash[swap].tag = "swap" => flash[swap].recs = <<>>
  BY DEF IInv, Typed, Running
<1>2. \A p \in Pages \ {swap} : \E i \in DataSlots : slots[i].page = p
  BY <1>1 DEF Maps, DataSlots
<1>3. CASE pc \in {"gcPromote", "gcTag"}
  <2>1. flash[swap] = Erased /\ swap \in Pages /\ UniqueIn(flash, Pages)
    BY <1>1, <1>3 DEF IInv, Collecting, Maps
  <2>2. Tags(flash, "erased")
    BY <2>1 DEF Tags, Erased
  <2>3. \A p \in Pages : flash[p].tag = "swap" => p = slots[gc.cur].page /\ pc = "gcPromote"
    BY <1>1, <1>2, <2>1 DEF Erased
  <2>4. \A p \in Pages : flash[p].tag = "swap" => AllValid(flash, p)
    BY <2>3 DEF IInv, Collecting
  <2> QED
    BY <2>1, <2>2, <2>3, <2>4 DEF BootSafe
<1>4. CASE pc \notin {"gcPromote", "gcTag"}
  <2>1. \A p \in Pages \ {swap} : flash[p].tag = "data"
    BY <1>1, <1>2, <1>4
  <2>2. ~Tags(flash, "erased") /\ \A p \in Pages : flash[p].tag = "swap" => p = swap
    BY <1>1, <1>4, <2>1 DEF Tags
  <2>3. CASE pc = "gcCopy"
    <3>1. /\ Copied(flash, slots[gc.cur].page, swap, gc.src)
          /\ gc.cur \in DataSlots
      BY <2>3 DEF IInv, Collecting
    <3>2. slots[gc.cur].page \in Pages \ {swap}
      BY <1>1, <3>1, SlotAt DEF Maps, DataSlots, IInv
    <3>3. UniqueIn(flash, Pages \ {swap}) /\ AllValid(flash, swap)
      BY <3>1 DEF Copied
    <3>4. CopiedFrom(flash, swap)
      BY <3>1, <3>2 DEF Copied, CopiedFrom, IdsIn
    <3> QED
      BY <2>2, <3>3, <3>4 DEF BootSafe
  <2>4. CASE pc # "gcCopy"
    <3>1. \A s \in Pages : flash[s].tag = "swap" =>
            UniqueIn(flash, Pages \ {s}) /\ AllValid(flash, s) /\ CopiedFrom(flash, s)
      BY <1>1, <2>2, <2>4, UniqueSubset, EmptyPage
    <3> QED
      BY <2>2, <3>1 DEF BootSafe
  <2> QED
    BY <2>3, <2>4
<1> QED
  BY <1>3, <1>4

\* In every state.
LEMMA AlwaysBootSafe ==
  ASSUME IInv
  PROVE  BootSafe(flash)
<1>1. pc \in Steps
  BY DEF IInv, Typed
<1>2. CASE pc \in {"off", "dead"}
  BY <1>2 DEF IInv, Off
<1> QED
  BY <1>1, <1>2, BootSafeBooting, BootSafeRunning DEF Steps, RunSteps, CollectSteps

(***************************************************************************)
(* pages_init reads the pages one after the other.                         *)
(***************************************************************************)
IsSeen(h, m) ==
  h = [n \in 0..m |-> IF n = 0 THEN NothingSeen ELSE SeePage(h[n - 1], n)]

\* There is a function that the definition of Seen describes.
LEMMA SeenExists == \E h : IsSeen(h, VirtualPages)
<1> DEFINE Bad == {m \in 0..VirtualPages : ~ \E h : IsSeen(h, m)}
<1> SUFFICES ASSUME Bad # {} PROVE FALSE
  BY FlashAssumption
<1>1. PICK m \in Bad : \A n \in Bad : m <= n
  <2>1. Bad \in SUBSET Nat
    OBVIOUS
  <2> HIDE DEF Bad
  <2> QED
    BY <2>1, MinIs
<1>2. CASE m = 0
  <2> DEFINE h == [n \in 0..0 |-> NothingSeen]
  <2>1. IsSeen(h, 0)
    BY DEF IsSeen
  <2> QED
    BY <1>2, <2>1
<1>3. CASE m # 0
  <2>1. m - 1 \in 0..VirtualPages /\ m - 1 \notin Bad
    BY <1>1, <1>3, FlashAssumption
  <2>2. PICK h : IsSeen(h, m - 1)
    BY <2>1
  <2> DEFINE j == [n \in 0..m |-> IF n = m THEN SeePage(h[m - 1], m) ELSE h[n]]
  <2>3. \A n \in 0..m : j[n] = IF n = 0 THEN NothingSeen ELSE SeePage(j[n - 1], n)
    <3> SUFFICES ASSUME NEW n \in 0..m
                 PROVE  j[n] = IF n = 0 THEN NothingSeen ELSE SeePage(j[n - 1], n)
      OBVIOUS
    <3>1. CASE n = m
      <4>1. j[n] = SeePage(h[m - 1], m) /\ j[m - 1] = h[m - 1]
        BY <1>3, <3>1
      <4> QED
        BY <1>3, <3>1, <4>1
    <3>2. CASE n # m
      <4>1. j[n] = h[n] /\ (n # 0 => j[n - 1] = h[n - 1])
        BY <3>2
      <4>2. h[n] = IF n = 0 THEN NothingSeen ELSE SeePage(h[n - 1], n)
        BY <2>2, <3>2 DEF IsSeen
      <4> QED
        BY <4>1, <4>2
    <3> QED
      BY <3>1, <3>2
  <2>4. IsSeen(j, m)
    <3>1. j = [n \in 0..m |-> j[n]]
      OBVIOUS
    <3> HIDE DEF j
    <3> QED
      BY <2>3, <3>1 DEF IsSeen
  <2> QED
    BY <2>4
<1> QED
  BY <1>2, <1>3

\* The definition of Seen holds of it.
LEMMA SeenIs ==
  \A n \in 0..VirtualPages :
    Seen[n] = IF n = 0 THEN NothingSeen ELSE SeePage(Seen[n - 1], n)
<1>1. Seen = CHOOSE h : IsSeen(h, VirtualPages)
  BY DEF Seen, IsSeen
<1>2. IsSeen(Seen, VirtualPages)
  BY <1>1, SeenExists
<1> QED
  BY <1>2 DEF IsSeen

\* A list of slots for a set of pages, each of them once.
Lists(s, P) ==
  /\ s \in Seq(SlotState)
  /\ \A i \in DOMAIN s : s[i].page \in P /\ s[i].type = flash[s[i].page].tag
  /\ \A i, j \in DOMAIN s : s[i].page = s[j].page => i = j
  /\ \A p \in P : \E i \in DOMAIN s : s[i].page = p

\* One more page.
LEMMA ListsMore ==
  ASSUME NEW s, NEW P, Lists(s, P), NEW x \in SlotState, x.page \notin P,
         x.type = flash[x.page].tag
  PROVE  /\ Lists(Append(s, x), P \union {x.page})
         /\ Len(Append(s, x)) = Len(s) + 1 /\ Len(s) \in Nat
         /\ DOMAIN s \subseteq DOMAIN Append(s, x)
         /\ Len(s) + 1 \in DOMAIN Append(s, x)
<1> DEFINE t == Append(s, x)
           n == Len(s) + 1
<1>1. s \in Seq(SlotState) /\ Len(s) \in Nat /\ DOMAIN s = 1..Len(s)
  BY DEF Lists
<1>2. /\ t \in Seq(SlotState) /\ Len(t) = n /\ t[n] = x
      /\ \A i \in 1..Len(s) : t[i] = s[i]
  BY <1>1, AppendProperties
<1>3. DOMAIN t = 1..n
  BY <1>2
<1> HIDE DEF t
<1>4. \A i \in DOMAIN t : (i = n /\ t[i] = x) \/ (i \in DOMAIN s /\ t[i] = s[i])
  BY <1>1, <1>2, <1>3
<1>5. \A i \in DOMAIN s : i \in DOMAIN t /\ t[i] = s[i] /\ i # n
  BY <1>1, <1>2, <1>3
<1>6. n \in DOMAIN t
  BY <1>1, <1>3
<1> HIDE DEF n
<1>7. \A i \in DOMAIN t : t[i].page \in P \union {x.page} /\ t[i].type = flash[t[i].page].tag
  BY <1>4 DEF Lists
<1>8. \A i, j \in DOMAIN t : t[i].page = t[j].page => i = j
  BY <1>4 DEF Lists
<1>9. \A p \in P \union {x.page} : \E i \in DOMAIN t : t[i].page = p
  <2> SUFFICES ASSUME NEW p \in P \union {x.page} PROVE \E i \in DOMAIN t : t[i].page = p
    OBVIOUS
  <2>1. CASE p = x.page
    BY <1>2, <1>6, <2>1
  <2>2. CASE p \in P
    <3>1. PICK i \in DOMAIN s : s[i].page = p
      BY <2>2 DEF Lists
    <3> QED
      BY <1>5, <3>1
  <2> QED
    BY <2>1, <2>2
<1>10. Lists(t, P \union {x.page})
  BY <1>2, <1>7, <1>8, <1>9 DEF Lists
<1> QED
  BY <1>1, <1>2, <1>5, <1>6, <1>10 DEF t, n

\* What is known after n pages.
SeenSoFar(a, n) ==
  /\ a \in [slots : Seq(SlotState), swap : 0..n, lost : BOOLEAN, cur : Pages]
  /\ Lists(a.slots, (1..n) \ {a.swap}) /\ Len(a.slots) <= n
  /\ a.cur = 1 \/ a.cur \in DOMAIN a.slots
  /\ a.swap = 0 => ~a.lost /\ \A q \in 1..n : flash[q].tag = "data"
  /\ a.swap # 0 => \/ flash[a.swap].tag = "swap"
                   \/ flash[a.swap].tag = "erased" /\ a.lost
  /\ \A q \in 1..n : flash[q].tag = "swap" => q = a.swap

\* Slot describes a page.
LEMMA SlotIs ==
  ASSUME NEW p \in Pages, NEW t \in {"erased", "data"}
  PROVE  Slot(p, t) \in SlotState /\ Slot(p, t).page = p /\ Slot(p, t).type = t
<1> DEFINE b == t = "data" /\ \E r \in Range(flash[p].recs) : ~Valid(r)
<1>1. b \in BOOLEAN
  BY Zenon
<1>2. Slot(p, t) = [page |-> p, type |-> t, canGc |-> b]
  BY Zenon DEF Slot
<1> HIDE DEF b
<1> QED
  BY <1>1, <1>2 DEF SlotState

\* A page more.
LEMMA SeenMore ==
  ASSUME FlashTyped(flash), BootSafe(flash), NEW n \in Pages, NEW a, SeenSoFar(a, n - 1)
  PROVE  SeenSoFar(SeePage(a, n), n)
<1> DEFINE w == a.swap
           s == a.slots
           b == SeePage(a, n)
<1>1. /\ n \in Nat /\ n >= 1 /\ n \notin 1..(n - 1) /\ 1..n = (1..(n - 1)) \union {n}
      /\ n <= VirtualPages /\ Pages \subseteq Nat /\ 1 \in Pages
      /\ 1..(n - 1) \subseteq Pages
  BY FlashAssumption DEF Pages
<1>2. flash[n].tag \in {"erased", "swap", "data"}
  BY DEF FlashTyped, Page
<1>3. a \in [slots : Seq(SlotState), swap : 0..(n - 1), lost : BOOLEAN, cur : Pages]
  BY DEF SeenSoFar
<1>4. /\ w \in 0..(n - 1) /\ s \in Seq(SlotState) /\ a.lost \in BOOLEAN /\ a.cur \in Pages
      /\ Lists(s, (1..(n - 1)) \ {w}) /\ Len(s) <= n - 1 /\ Len(s) \in Nat
      /\ a.cur = 1 \/ a.cur \in DOMAIN s
      /\ w = 0 => ~a.lost
      /\ \A q \in 1..(n - 1) : w = 0 => flash[q].tag = "data"
      /\ w # 0 => flash[w].tag = "swap" \/ (flash[w].tag = "erased" /\ a.lost)
      /\ \A q \in 1..(n - 1) : flash[q].tag = "swap" => q = w
  BY <1>3 DEF SeenSoFar
<1>5. ASSUME NEW x \in SlotState, x.page \notin (1..(n - 1)) \ {w},
             x.type = flash[x.page].tag
      PROVE  /\ Lists(Append(s, x), ((1..(n - 1)) \ {w}) \union {x.page})
             /\ Append(s, x) \in Seq(SlotState) /\ Len(Append(s, x)) <= n
             /\ DOMAIN s \subseteq DOMAIN Append(s, x)
             /\ Len(s) + 1 \in DOMAIN Append(s, x) /\ Len(s) + 1 \in Pages
  <2>1. /\ Lists(Append(s, x), ((1..(n - 1)) \ {w}) \union {x.page})
        /\ Len(Append(s, x)) = Len(s) + 1
        /\ DOMAIN s \subseteq DOMAIN Append(s, x)
        /\ Len(s) + 1 \in DOMAIN Append(s, x)
    BY <1>4, <1>5, ListsMore
  <2>2. Append(s, x) \in Seq(SlotState)
    BY <2>1 DEF Lists
  <2>3. Len(s) + 1 <= n /\ Len(s) + 1 \in Pages
    BY <1>1, <1>4, FlashAssumption DEF Pages
  <2> QED
    BY <2>1, <2>2, <2>3
<1>6. n \in 0..n
  BY <1>1
<1>7. CASE flash[n].tag = "erased" /\ w = 0
  <2>1. b = [a EXCEPT !.swap = n, !.lost = TRUE]
    BY <1>7 DEF SeePage
  <2>2. b \in [slots : Seq(SlotState), swap : 0..n, lost : BOOLEAN, cur : Pages]
        /\ b.slots = s /\ b.swap = n /\ b.lost = TRUE /\ b.cur = a.cur
    BY <1>3, <1>6, <2>1
  <2>3. (1..n) \ {n} = (1..(n - 1)) \ {w}
    BY <1>1, <1>7
  <2>4. Len(s) <= n /\ n # 0
    BY <1>1, <1>4
  <2>5. \A q \in 1..n : flash[q].tag = "swap" => q = n
    BY <1>1, <1>4, <1>7
  <2> HIDE DEF b, w, s
  <2>9. SeenSoFar(b, n)
    BY <1>4, <1>7, <2>2, <2>3, <2>4, <2>5 DEF SeenSoFar
  <2> QED
    BY <2>9 DEF b
<1>8. CASE (flash[n].tag = "erased" /\ w # 0) \/ flash[n].tag = "data"
  <2> DEFINE x == Slot(n, flash[n].tag)
             t == Append(s, x)
  <2>1. x \in SlotState /\ x.page = n /\ x.type = flash[n].tag
    BY <1>8, SlotIs
  <2>2. b = [a EXCEPT !.slots = t, !.cur = Len(s) + 1] \/ b = [a EXCEPT !.slots = t]
    BY <1>8 DEF SeePage
  <2> HIDE DEF x
  <2>3. n \notin (1..(n - 1)) \ {w} /\ (1..n) \ {w} = ((1..(n - 1)) \ {w}) \union {n}
        /\ w \in 0..n /\ w # n
    BY <1>1, <1>4
  <2>4. /\ Lists(t, (1..n) \ {w}) /\ t \in Seq(SlotState) /\ Len(t) <= n
        /\ DOMAIN s \subseteq DOMAIN t /\ Len(s) + 1 \in DOMAIN t /\ Len(s) + 1 \in Pages
    BY <1>5, <2>1, <2>3
  <2> HIDE DEF t
  <2>5. b \in [slots : Seq(SlotState), swap : 0..n, lost : BOOLEAN, cur : Pages]
        /\ b.slots = t /\ b.swap = w /\ b.lost = a.lost /\ b.cur \in {a.cur, Len(s) + 1}
    BY <1>3, <2>2, <2>3, <2>4
  <2>6. b.cur = 1 \/ b.cur \in DOMAIN t
    BY <1>4, <2>4, <2>5
  <2>7. /\ \A q \in 1..n : w = 0 => flash[q].tag = "data"
        /\ \A q \in 1..n : flash[q].tag = "swap" => q = w
    BY <1>1, <1>4, <1>8
  <2> HIDE DEF b, w, s
  <2>9. SeenSoFar(b, n)
    BY <1>4, <2>4, <2>5, <2>6, <2>7 DEF SeenSoFar
  <2> QED
    BY <2>9 DEF b
<1>9. CASE flash[n].tag = "swap"
  <2>1. w = 0 \/ (w \in 1..(n - 1) /\ flash[w].tag = "erased" /\ a.lost)
    <3>1. w \in 1..(n - 1) => w \in Pages /\ w # n
      BY <1>1
    <3>2. w \in Pages /\ w # n => flash[w].tag # "swap"
      BY <1>9 DEF BootSafe
    <3>3. w = 0 \/ w \in 1..(n - 1)
      BY <1>1, <1>4
    <3> QED
      BY <1>4, <3>1, <3>2, <3>3
  <2>2. \A q \in 1..n : flash[q].tag = "swap" => q = n
    <3>1. \A q \in 1..n : q \in Pages
      BY <1>1
    <3> QED
      BY <1>9, <3>1 DEF BootSafe
  <2>3. n # 0
    BY <1>1
  <2>4. CASE a.lost
    <3> DEFINE x == Slot(w, "erased")
               t == Append(s, x)
    <3>1. b = [a EXCEPT !.slots = t, !.swap = n]
      BY <1>9, <2>4 DEF SeePage
    <3>2. w \in 1..(n - 1) /\ w \in Pages /\ flash[w].tag = "erased"
      BY <1>1, <1>4, <2>1, <2>4
    <3>3. x \in SlotState /\ x.page = w /\ x.type = flash[w].tag
      BY <3>2, SlotIs
    <3> HIDE DEF x
    <3>4. (1..n) \ {n} = ((1..(n - 1)) \ {w}) \union {w}
      BY <1>1, <3>2
    <3>5. /\ Lists(t, (1..n) \ {n}) /\ t \in Seq(SlotState) /\ Len(t) <= n
          /\ DOMAIN s \subseteq DOMAIN t
      BY <1>5, <3>3, <3>4
    <3> HIDE DEF t
    <3>6. b \in [slots : Seq(SlotState), swap : 0..n, lost : BOOLEAN, cur : Pages]
          /\ b.slots = t /\ b.swap = n /\ b.lost = a.lost /\ b.cur = a.cur
      BY <1>3, <1>6, <3>1, <3>5
    <3>7. b.cur = 1 \/ b.cur \in DOMAIN t
      BY <1>4, <3>5, <3>6
    <3> HIDE DEF b, w, s
    <3>9. SeenSoFar(b, n)
      BY <1>9, <2>2, <2>3, <3>5, <3>6, <3>7 DEF SeenSoFar
    <3> QED
      BY <3>9 DEF b
  <2>5. CASE ~a.lost
    <3>1. b = [a EXCEPT !.slots = s, !.swap = n]
      BY <1>9, <2>5 DEF SeePage
    <3>2. (1..n) \ {n} = (1..(n - 1)) \ {w}
      BY <1>1, <2>1, <2>5
    <3>3. b \in [slots : Seq(SlotState), swap : 0..n, lost : BOOLEAN, cur : Pages]
          /\ b.slots = s /\ b.swap = n /\ b.lost = a.lost /\ b.cur = a.cur
      BY <1>3, <1>6, <3>1
    <3>4. Len(s) <= n
      BY <1>1, <1>4
    <3> HIDE DEF b, w, s
    <3>9. SeenSoFar(b, n)
      BY <1>4, <1>9, <2>2, <2>3, <3>2, <3>3, <3>4 DEF SeenSoFar
    <3> QED
      BY <3>9 DEF b
  <2> QED
    BY <2>4, <2>5
<1> QED
  BY <1>2, <1>7, <1>8, <1>9

\* All pages.
LEMMA AllSeen ==
  ASSUME FlashTyped(flash), BootSafe(flash)
  PROVE  SeenSoFar(PagesInit, VirtualPages)
<1> DEFINE Bad == {n \in 0..VirtualPages : ~SeenSoFar(Seen[n], n)}
<1>1. VirtualPages \in 0..VirtualPages /\ Bad \in SUBSET Nat
  BY FlashAssumption
<1>2. CASE Bad = {}
  BY <1>1, <1>2 DEF PagesInit
<1>3. CASE Bad # {}
  <2> HIDE DEF Bad
  <2>1. PICK m \in Bad : \A n \in Bad : m <= n
    BY <1>1, <1>3, MinIs
  <2> USE DEF Bad
  <2>2. CASE m = 0
    <3>1. Seen[0] = NothingSeen
      BY <1>1, <2>2, SeenIs
    <3>2. /\ NothingSeen \in [slots : Seq(SlotState), swap : 0..0, lost : BOOLEAN, cur : Pages]
          /\ NothingSeen.slots = <<>> /\ NothingSeen.swap = 0 /\ NothingSeen.lost = FALSE
          /\ NothingSeen.cur = 1
      BY FlashAssumption DEF NothingSeen, Pages
    <3>3. (1..0) \ {0} = {} /\ 1..0 = {}
      OBVIOUS
    <3>4. Lists(<<>>, {})
      BY DEF Lists
    <3> HIDE DEF NothingSeen
    <3>5. SeenSoFar(NothingSeen, 0)
      BY <3>2, <3>3, <3>4 DEF SeenSoFar
    <3> QED
      BY <2>2, <3>1, <3>5
  <2>3. CASE m # 0
    <3>1. m \in Pages /\ m - 1 \in 0..VirtualPages /\ m - 1 \notin Bad
      BY <2>1, <2>3, FlashAssumption DEF Pages
    <3>2. SeenSoFar(Seen[m - 1], m - 1)
      BY <3>1
    <3>3. Seen[m] = SeePage(Seen[m - 1], m)
      BY <2>3, SeenIs
    <3> QED
      BY <3>1, <3>2, <3>3, SeenMore
  <2> QED
    BY <2>2, <2>3
<1> QED
  BY <1>2, <1>3

\* The ids that are known are among those given.
LEMMA LatestIs ==
  ASSUME FlashTyped(flash)
  PROVE  /\ LatestId \in 0..MaxId
         /\ \A id \in LiveIn(flash) : id <= LatestId
<1> DEFINE known == UNION {ValidIn(p) : p \in {q \in Pages : flash[q].tag # "erased"}}
<1>1. \A p \in Pages : ValidIn(p) = IdsIn(flash, p)
  BY DEF ValidIn, IdsIn, ValidAt, Range
<1>2. \A p \in Pages : flash[p].tag = "erased" => IdsIn(flash, p) = {}
  BY EmptyPage DEF FlashTyped
<1>3. known = LiveIn(flash)
  BY <1>1, <1>2 DEF LiveIn
<1>4. LiveIn(flash) \subseteq 1..MaxId
  <2>1. \A p \in Pages : \A k \in ValidAt(flash, p) : flash[p].recs[k].id \in 1..MaxId
    <3> SUFFICES ASSUME NEW p \in Pages, NEW k \in ValidAt(flash, p)
                 PROVE  flash[p].recs[k].id \in 1..MaxId
      OBVIOUS
    <3>1. flash[p].recs \in Seq(Record) /\ k \in DOMAIN flash[p].recs
      BY DEF FlashTyped, Page, ValidAt
    <3>2. flash[p].recs[k] \in Record
      BY <3>1
    <3> QED
      BY <3>2 DEF Record
  <2> QED
    BY <2>1 DEF LiveIn, IdsIn
<1>5. MaxId \in Nat /\ 1..MaxId \subseteq 0..MaxId
  BY FlashAssumption
<1>6. known \in SUBSET (0..MaxId)
  BY <1>3, <1>4, <1>5
<1>7. LatestId = IF known = {} THEN 0 ELSE Max(known)
  BY DEF LatestId
<1> HIDE DEF known
<1>8. CASE known = {}
  BY <1>3, <1>5, <1>7, <1>8
<1>9. CASE known # {}
  <2>1. Max(known) \in known /\ \A y \in known : y <= Max(known)
    BY <1>5, <1>6, <1>9, MaxIs
  <2> QED
    BY <1>3, <1>6, <1>7, <1>9, <2>1
<1> QED
  BY <1>8, <1>9

\* Live is what it is called.
LEMMA LiveIs == FlashTyped(flash) => Live = LiveIn(flash)
<1> SUFFICES ASSUME FlashTyped(flash) PROVE Live = LiveIn(flash)
  OBVIOUS
<1>1. \A p \in Pages : ValidIn(p) = IdsIn(flash, p)
  BY DEF ValidIn, IdsIn, ValidAt, Range
<1>2. \A p \in Pages : flash[p].tag = "erased" => IdsIn(flash, p) = {}
  BY EmptyPage DEF FlashTyped
<1> QED
  BY <1>1, <1>2 DEF LiveIn, Live

\* What a boot makes of a flash with a page for the swap page.
LEMMA Scanned ==
  ASSUME FlashTyped(flash), BootSafe(flash), NEW a, a = PagesInit
  PROVE  /\ a.slots \in Seq(SlotState) /\ Len(a.slots) <= VirtualPages
         /\ a.swap \in 0..VirtualPages /\ a.cur \in Pages
         /\ \A i \in DOMAIN a.slots : a.slots[i].type = flash[a.slots[i].page].tag
         /\ \A q \in Pages : flash[q].tag = "swap" => q = a.swap
         /\ Has("swap") \/ Has("erased") =>
              /\ Maps(a.slots, a.swap) /\ a.cur \in DOMAIN a.slots
              /\ flash[a.swap].tag \in {"swap", "erased"}
<1>1. SeenSoFar(a, VirtualPages)
  BY AllSeen
<1>2. /\ a \in [slots : Seq(SlotState), swap : 0..VirtualPages, lost : BOOLEAN, cur : Pages]
      /\ Lists(a.slots, (1..VirtualPages) \ {a.swap}) /\ Len(a.slots) <= VirtualPages
      /\ a.cur = 1 \/ a.cur \in DOMAIN a.slots
      /\ a.swap = 0 => \A q \in Pages : flash[q].tag = "data"
      /\ a.swap # 0 => flash[a.swap].tag \in {"swap", "erased"}
      /\ \A q \in Pages : flash[q].tag = "swap" => q = a.swap
  BY <1>1 DEF SeenSoFar, Pages
<1>3. /\ a.slots \in Seq(SlotState)
      /\ a.swap \in 0..VirtualPages /\ a.cur \in Pages
      /\ \A i \in DOMAIN a.slots : a.slots[i].type = flash[a.slots[i].page].tag
  BY <1>2 DEF Lists
<1>4. ASSUME Has("swap") \/ Has("erased")
      PROVE  /\ Maps(a.slots, a.swap) /\ a.cur \in DOMAIN a.slots
             /\ flash[a.swap].tag \in {"swap", "erased"}
  <2>1. a.swap # 0
    BY <1>2, <1>4 DEF Has
  <2>2. a.swap \in Pages
    BY <1>3, <2>1, FlashAssumption DEF Pages
  <2>3. Maps(a.slots, a.swap)
    BY <1>2, <2>2 DEF Maps, Lists, Pages
  <2>4. 1 \in DOMAIN a.slots
    <3>1. PICK p \in Pages : p # a.swap
      <4>1. 1 \in Pages /\ 2 \in Pages
        BY FlashAssumption DEF Pages
      <4> QED
        BY <4>1
    <3>2. PICK i \in DOMAIN a.slots : a.slots[i].page = p
      BY <2>3, <3>1 DEF Maps
    <3>3. DOMAIN a.slots = 1..Len(a.slots) /\ Len(a.slots) \in Nat
      BY <1>3
    <3> QED
      BY <3>2, <3>3
  <2> QED
    BY <1>2, <2>1, <2>3, <2>4
<1> QED
  BY <1>2, <1>3, <1>4

\* An empty page has no copies.
LEMMA UniqueButEmpty ==
  ASSUME NEW f, NEW w \in Pages, UniqueIn(f, Pages \ {w}), ValidAt(f, w) = {}
  PROVE  UniqueIn(f, Pages)
<1> SUFFICES ASSUME NEW p \in Pages, NEW q \in Pages,
                    NEW k \in ValidAt(f, p), NEW l \in ValidAt(f, q),
                    f[p].recs[k].id = f[q].recs[l].id
             PROVE  p = q /\ k = l
  BY DEF UniqueIn
<1>1. p \in Pages \ {w} /\ q \in Pages \ {w}
  OBVIOUS
<1> QED
  BY <1>1, AtMostOnce

\* With an empty swap page every valid record is in a page of m_pages.
LEMMA AllListed ==
  ASSUME NEW f, NEW s, NEW w, Maps(s, w), IdsIn(f, w) = {}
  PROVE  \A id \in LiveIn(f) : Placed(f, s, id)
<1> SUFFICES ASSUME NEW id \in LiveIn(f) PROVE Placed(f, s, id)
  OBVIOUS
<1>1. PICK p \in Pages : id \in IdsIn(f, p)
  BY DEF LiveIn
<1>2. PICK i \in DOMAIN s : s[i].page = p
  BY <1>1 DEF Maps
<1> QED
  BY <1>1, <1>2 DEF Placed

\* What fds_init does first goes by the pages it saw.
LEMMA InitStepIs ==
  /\ InitStep = "tagSwap" => ~Has("swap") /\ Has("erased")
  /\ InitStep = "promote" => SwapDirty /\ Has("swap") /\ Has("erased")
  /\ InitStep = "eraseSwap" => SwapDirty /\ Has("swap") /\ ~Has("erased")
  /\ InitStep = "tagData" => ~SwapDirty /\ Has("swap") /\ Has("erased")
  /\ InitStep = "load" => ~SwapDirty /\ Has("swap") /\ ~Has("erased")
  /\ InitStep \in {"tagSwap", "dead", "promote", "eraseSwap", "tagData", "load"}
<1>1. SwapDirty => Has("swap")
  BY DEF SwapDirty, Has
<1>2. CASE ~Has("swap") /\ Has("erased")
  BY <1>1, <1>2 DEF InitStep
<1>3. CASE ~Has("swap") /\ ~Has("erased")
  BY <1>1, <1>3 DEF InitStep
<1>4. CASE SwapDirty /\ Has("erased")
  BY <1>1, <1>4 DEF InitStep
<1>5. CASE SwapDirty /\ ~Has("erased")
  BY <1>1, <1>5 DEF InitStep
<1>6. CASE ~SwapDirty /\ Has("swap") /\ Has("erased")
  BY <1>6 DEF InitStep
<1>7. CASE ~SwapDirty /\ Has("swap") /\ ~Has("erased")
  BY <1>7 DEF InitStep
<1> QED
  BY <1>1, <1>2, <1>3, <1>4, <1>5, <1>6, <1>7

(***************************************************************************)
(* The steps.                                                              *)
(***************************************************************************)
\* fds_init.
LEMMA BootStep ==
  ASSUME IInv, Boot
  PROVE  IInv'
<1> DEFINE a == PagesInit
<1>1. FlashTyped(flash) /\ BootSafe(flash)
  BY AlwaysBootSafe DEF IInv, Typed
<1>2. /\ pc = "off" /\ op.kind = "none" /\ ids.desc = 0
  BY DEF IInv, Off, Boot
<1>3. /\ flash' = flash /\ op' = op /\ hist' = hist
      /\ slots' = a.slots /\ swap' = a.swap /\ gc' = [NoGc EXCEPT !.cur = a.cur]
      /\ ids' = [latest |-> LatestId, desc |-> 0] /\ pc' = InitStep
  BY DEF Boot
<1>4. /\ a.slots \in Seq(SlotState) /\ Len(a.slots) <= VirtualPages
      /\ a.swap \in 0..VirtualPages /\ a.cur \in Pages
      /\ \A i \in DOMAIN a.slots : a.slots[i].type = flash[a.slots[i].page].tag
      /\ \A q \in Pages : flash[q].tag = "swap" => q = a.swap
      /\ Has("swap") \/ Has("erased") =>
           /\ Maps(a.slots, a.swap) /\ a.cur \in DOMAIN a.slots
           /\ flash[a.swap].tag \in {"swap", "erased"}
  BY <1>1, Scanned
<1>5. LatestId \in 0..MaxId /\ \A id \in LiveIn(flash) : id <= LatestId
  BY <1>1, LatestIs
<1> HIDE DEF a
<1>6. pc' \in {"tagSwap", "dead", "promote", "eraseSwap", "tagData", "load"}
  BY <1>3, InitStepIs
<1>7. gc'.cur = a.cur /\ gc'.todo = {} /\ gc'.src = 0 /\ ids'.desc = 0 /\ ids'.latest = LatestId
      /\ gc' \in [cur : Pages, todo : {{}}, src : {0}]
      /\ ids' \in [latest : 0..MaxId, desc : 0..MaxId]
  BY <1>3, <1>4, <1>5, FlashAssumption DEF NoGc
<1>8. Typed'
  <2>1. gc' \in [cur : Pages, todo : SUBSET DataSlots', src : Nat]
    BY <1>7
  <2>2. pc' \in Steps
    BY <1>6 DEF Steps
  <2> QED
    BY <1>1, <1>3, <1>4, <1>7, <2>1, <2>2 DEF IInv, Typed
<1>9. Off'
  BY <1>1, <1>3, <1>6 DEF Off
<1>10. pc' # "dead" => Has("swap") \/ Has("erased")
  BY <1>3, InitStepIs
<1>11. pc' # "dead" => Maps(slots', swap') /\ swap' \in Pages
  BY <1>3, <1>4, <1>10 DEF Maps
<1>12. pc' \in {"promote", "eraseSwap", "tagData", "load"} => flash[swap'].tag = "swap"
  BY <1>3, <1>4, InitStepIs DEF Has
<1>13. pc' \in {"tagData", "load"} => flash[swap'].recs = <<>>
  BY <1>3, <1>11, <1>12, InitStepIs DEF SwapDirty
<1>14. pc' \in {"promote", "eraseSwap"} => flash[swap'].recs # <<>>
  BY <1>3, <1>4, InitStepIs DEF SwapDirty
<1>15. pc' \in {"tagSwap", "promote", "tagData"} => Tags(flash, "erased")
  BY <1>3, InitStepIs DEF Has, Tags
<1>16. pc' \in {"eraseSwap", "load"} => ~Tags(flash, "erased")
  BY <1>3, InitStepIs DEF Has, Tags
<1>17. pc' = "tagSwap" => flash[swap'].tag = "erased" /\ flash[swap'].recs = <<>>
  <2> SUFFICES ASSUME pc' = "tagSwap"
               PROVE  flash[swap'].tag = "erased" /\ flash[swap'].recs = <<>>
    OBVIOUS
  <2>1. ~Has("swap") /\ swap' \in Pages /\ flash[swap'].tag \in {"swap", "erased"}
    BY <1>3, <1>4, <1>10, <1>11, InitStepIs
  <2> QED
    BY <1>1, <2>1 DEF Has, FlashTyped
<1>18. pc' \in {"tagSwap", "promote", "tagData"} => UniqueIn(flash, Pages)
  BY <1>1, <1>15 DEF BootSafe
<1>19. pc' \in {"eraseSwap", "load"} =>
         /\ UniqueIn(flash, Pages \ {swap'}) /\ CopiedFrom(flash, swap')
         /\ \A i \in DOMAIN slots' : slots'[i].type = "data"
  <2> SUFFICES ASSUME pc' \in {"eraseSwap", "load"}
               PROVE  /\ UniqueIn(flash, Pages \ {swap'}) /\ CopiedFrom(flash, swap')
                      /\ \A i \in DOMAIN slots' : slots'[i].type = "data"
    OBVIOUS
  <2>1. UniqueIn(flash, Pages \ {swap'}) /\ CopiedFrom(flash, swap')
    BY <1>1, <1>11, <1>12, <1>16 DEF BootSafe
  <2>2. \A i \in DOMAIN slots' :
          slots'[i] \in SlotState /\ slots'[i].type = flash[slots'[i].page].tag
    BY <1>3, <1>4, ElementOfSeq
  <2> QED
    BY <1>16, <2>1, <2>2 DEF Tags, SlotState
<1>20. pc' \in {"promote", "eraseSwap"} => AllValid(flash, swap')
  BY <1>1, <1>11, <1>12 DEF BootSafe
<1>21. pc' = "load" => UniqueIn(flash, Pages) /\ IdsIn(flash, swap') = {}
  BY <1>11, <1>13, <1>19, EmptyPage, UniqueButEmpty
<1>22. Booting'
  BY <1>2, <1>3, <1>4, <1>6, <1>7, <1>10, <1>11, <1>12, <1>13, <1>14, <1>15, <1>17, <1>18,
     <1>19, <1>20 DEF Booting, DataSlots
<1>23. Running'
  <2> SUFFICES ASSUME pc' = "load" PROVE Running'
    BY <1>6 DEF Running, RunSteps, CollectSteps
  <2>1. \A i \in DOMAIN slots' : slots'[i].type = flash[slots'[i].page].tag
    BY <1>3, <1>4
  <2> QED
    BY <1>2, <1>3, <1>11, <1>12, <1>13, <1>19, <1>21, <2>1
    DEF Running, CollectSteps, DataSlots
<1>24. Collecting'
  BY <1>6 DEF Collecting
<1>25. Numbered'
  BY <1>3, <1>5, <1>6, <1>7 DEF Numbered, CollectSteps
<1>26. HeldPlaced'
  <2>1. pc' = "load" => \A id \in LiveIn(flash) : Placed(flash, slots', id)
    BY <1>11, <1>21, AllListed
  <2> QED
    BY <1>3, <1>6, <2>1 DEF HeldPlaced, CollectSteps, DataSlots, Placed
<1>27. Counted'
  BY <1>2, <1>3, <1>6 DEF IInv, Counted
<1> QED
  BY <1>8, <1>9, <1>22, <1>23, <1>24, <1>25, <1>26, <1>27 DEF IInv

\* What is known while the store starts.
LEMMA BootFacts ==
  ASSUME IInv, pc \in {"eraseSwap", "promote", "tagSwap", "tagData"}
  PROVE  /\ FlashTyped(flash) /\ Maps(slots, swap) /\ swap \in Pages
         /\ \A i \in DataSlots :
              /\ slots[i].type = flash[slots[i].page].tag
              /\ slots[i].page \in Pages \ {swap} /\ slots[i].type \in {"erased", "data"}
         /\ gc.cur \in DataSlots /\ gc.todo = {} /\ gc.src = 0
         /\ ids.desc = 0 /\ op.kind \in {"none", "promote"}
  BY SlotAt DEF IInv, Typed, Booting, Maps, DataSlots

\* FDS_OP_INIT_ERASE_SWAP.
LEMMA InitEraseSwapStep ==
  ASSUME IInv, InitEraseSwap
  PROVE  IInv' /\ LiveIn(flash') = LiveIn(flash)
<1>1. /\ pc = "eraseSwap" /\ pc' = "tagSwap" /\ flash' = Erases(flash, swap)
      /\ UNCHANGED <<slots, swap, gc, ids, op, hist>>
  BY DEF InitEraseSwap, Erases
<1>2. /\ FlashTyped(flash) /\ Maps(slots, swap) /\ swap \in Pages
      /\ \A i \in DataSlots :
           /\ slots[i].type = flash[slots[i].page].tag
           /\ slots[i].page \in Pages \ {swap}
      /\ gc.cur \in DataSlots /\ gc.todo = {} /\ gc.src = 0
      /\ ids.desc = 0
  BY <1>1, BootFacts
<1>3. /\ op.kind = "none"
      /\ UniqueIn(flash, Pages \ {swap}) /\ CopiedFrom(flash, swap)
  BY <1>1 DEF IInv, Booting
<1>4. /\ FlashTyped(flash') /\ flash'[swap] = Erased
      /\ \A q \in Pages \ {swap} : flash'[q] = flash[q]
  BY <1>1, <1>2, ErasedOne
<1>5. UniqueIn(flash', Pages) /\ LiveIn(flash') = LiveIn(flash)
  BY <1>1, <1>2, <1>3, CopiesErased
<1>6. Typed'
  BY <1>1, <1>4 DEF IInv, Typed, DataSlots, Steps
<1>7. Off'
  BY <1>1 DEF Off
<1>8. Booting'
  BY <1>1, <1>2, <1>3, <1>4, <1>5 DEF Booting, DataSlots, Erased
<1>9. Running' /\ Collecting'
  BY <1>1 DEF Running, Collecting, RunSteps, CollectSteps
<1>10. Numbered'
  BY <1>1, <1>5 DEF IInv, Numbered, CollectSteps
<1>11. HeldPlaced'
  BY <1>1 DEF HeldPlaced, CollectSteps
<1>12. Counted'
  BY <1>1, <1>5 DEF IInv, Counted
<1> QED
  BY <1>6, <1>7, <1>8, <1>9, <1>10, <1>11, <1>12, <1>5 DEF IInv

\* FDS_OP_INIT_PROMOTE_SWAP.
LEMMA InitPromoteStep ==
  ASSUME IInv, InitPromote
  PROVE  IInv' /\ LiveIn(flash') = LiveIn(flash)
<1>1. /\ pc = "promote" /\ pc' = "tagSwap" /\ flash' = Tagging(flash, swap, "data")
      /\ op' = [op EXCEPT !.kind = "promote"]
      /\ hist' = [hist EXCEPT !.promoted = TRUE]
      /\ UNCHANGED <<slots, swap, gc, ids>>
  BY DEF InitPromote, WriteTag, Tagging
<1>2. /\ FlashTyped(flash) /\ Maps(slots, swap) /\ swap \in Pages
      /\ \A i \in DataSlots :
           /\ slots[i].type = flash[slots[i].page].tag
           /\ slots[i].page \in Pages \ {swap}
      /\ gc.cur \in DataSlots /\ gc.todo = {} /\ gc.src = 0
      /\ ids.desc = 0
  BY <1>1, BootFacts
<1>3. /\ op.kind = "none" /\ AllValid(flash, swap)
      /\ UniqueIn(flash, Pages) /\ flash[swap].recs # <<>>
  BY <1>1 DEF IInv, Booting
<1>4. /\ FlashTyped(flash') /\ flash'[swap].tag = "data"
      /\ \A q \in Pages \ {swap} : flash'[q] = flash[q]
      /\ \A q \in Pages : flash'[q].recs = flash[q].recs
  BY <1>1, <1>2, TaggedData
<1>5. /\ UniqueIn(flash', Pages) /\ LiveIn(flash') = LiveIn(flash) /\ AllValid(flash', swap)
  BY <1>2, <1>3, <1>4, SameRecords
<1>6. /\ op' \in [kind : Kinds, dest : Nat, old : Nat, at : Nat] /\ op'.kind = "promote"
      /\ hist' \in [acked : 0..MaxId, cuts : 0..MaxCuts, torn : 0..MaxCuts, promoted : BOOLEAN]
      /\ hist'.promoted /\ hist'.torn = hist.torn /\ hist'.cuts = hist.cuts
      /\ hist'.acked = hist.acked
  BY <1>1 DEF IInv, Typed, Kinds
<1>7. Typed'
  BY <1>1, <1>4, <1>6 DEF IInv, Typed, DataSlots, Steps
<1>8. Off'
  BY <1>1 DEF Off
<1>9. Booting'
  BY <1>1, <1>2, <1>3, <1>4, <1>5, <1>6 DEF Booting, DataSlots
<1>10. Running' /\ Collecting'
  BY <1>1 DEF Running, Collecting, RunSteps, CollectSteps
<1>11. Numbered'
  BY <1>1, <1>5 DEF IInv, Numbered, CollectSteps
<1>12. HeldPlaced'
  BY <1>1 DEF HeldPlaced, CollectSteps
<1>13. Counted'
  BY <1>1, <1>5, <1>6 DEF IInv, Counted
<1> QED
  BY <1>7, <1>8, <1>9, <1>10, <1>11, <1>12, <1>13, <1>5 DEF IInv

\* FDS_OP_INIT_TAG_SWAP.
LEMMA InitTagSwapStep ==
  ASSUME IInv, InitTagSwap
  PROVE  IInv' /\ LiveIn(flash') = LiveIn(flash)
<1>1. /\ pc = "tagSwap" /\ pc' = "tagData" /\ flash' = Tagging(flash, swap, "swap")
      /\ UNCHANGED <<slots, swap, gc, ids, op, hist>>
  BY DEF InitTagSwap, WriteTag, Tagging
<1>2. /\ FlashTyped(flash) /\ Maps(slots, swap) /\ swap \in Pages
      /\ \A i \in DataSlots :
           /\ slots[i].type = flash[slots[i].page].tag
           /\ slots[i].page \in Pages \ {swap}
      /\ gc.cur \in DataSlots /\ gc.todo = {} /\ gc.src = 0
      /\ ids.desc = 0 /\ op.kind \in {"none", "promote"}
  BY <1>1, BootFacts
<1>3. /\ UniqueIn(flash, Pages)
      /\ op.kind = "promote" =>
           /\ flash[swap].tag = "data" /\ flash[swap].recs # <<>>
           /\ AllValid(flash, swap) /\ hist.promoted
      /\ op.kind = "none" => flash[swap].tag = "erased" /\ flash[swap].recs = <<>>
  BY <1>1 DEF IInv, Booting
<1>4. /\ FlashTyped(flash')
      /\ flash'[swap].tag = IF flash[swap].tag = "data" THEN "data" ELSE "swap"
      /\ \A q \in Pages \ {swap} : flash'[q] = flash[q]
      /\ \A q \in Pages : flash'[q].recs = flash[q].recs
  BY <1>1, <1>2, TaggedSwap
<1>5. /\ UniqueIn(flash', Pages) /\ LiveIn(flash') = LiveIn(flash)
      /\ AllValid(flash, swap) => AllValid(flash', swap)
  BY <1>2, <1>3, <1>4, SameRecords
<1>6. Typed'
  BY <1>1, <1>4 DEF IInv, Typed, DataSlots, Steps
<1>7. Off'
  BY <1>1 DEF Off
<1>8. Booting'
  BY <1>1, <1>2, <1>3, <1>4, <1>5 DEF Booting, DataSlots
<1>9. Running' /\ Collecting'
  BY <1>1 DEF Running, Collecting, RunSteps, CollectSteps
<1>10. Numbered'
  BY <1>1, <1>5 DEF IInv, Numbered, CollectSteps
<1>11. HeldPlaced'
  BY <1>1 DEF HeldPlaced, CollectSteps
<1>12. Counted'
  BY <1>1, <1>5 DEF IInv, Counted
<1> QED
  BY <1>6, <1>7, <1>8, <1>9, <1>10, <1>11, <1>12, <1>5 DEF IInv

\* FDS_OP_INIT_TAG_DATA, while there are pages to tag.
LEMMA InitTagDataStep ==
  ASSUME IInv, InitTagData
  PROVE  IInv' /\ LiveIn(flash') = LiveIn(flash)
<1> DEFINE i == Min(ErasedSlots)
           P == slots[i].page
<1>1. /\ pc = "tagData" /\ ErasedSlots # {}
      /\ slots' = [slots EXCEPT ![i].type = "data"] /\ flash' = Tagging(flash, P, "data")
      /\ UNCHANGED <<swap, gc, ids, pc, op, hist>>
  BY DEF InitTagData, WriteTag, Tagging
<1>2. /\ FlashTyped(flash) /\ Maps(slots, swap) /\ swap \in Pages
      /\ \A j \in DataSlots :
           /\ slots[j].type = flash[slots[j].page].tag
           /\ slots[j].page \in Pages \ {swap}
      /\ gc.cur \in DataSlots /\ gc.todo = {} /\ gc.src = 0
      /\ ids.desc = 0 /\ op.kind \in {"none", "promote"}
  BY <1>1, BootFacts
<1>3. /\ UniqueIn(flash, Pages)
      /\ op.kind = "promote" =>
           /\ flash[swap].tag = "data" /\ flash[swap].recs # <<>>
           /\ AllValid(flash, swap) /\ hist.promoted
      /\ op.kind = "none" => flash[swap].tag = "swap" /\ flash[swap].recs = <<>>
  BY <1>1 DEF IInv, Booting
<1>4. i \in DataSlots
  <2>1. ErasedSlots \in SUBSET Nat /\ ErasedSlots \subseteq DataSlots
    BY SlotAt DEF IInv, ErasedSlots
  <2> QED
    BY <1>1, <2>1, MinIs
<1> HIDE DEF i
<1>5. /\ slots' \in Seq(SlotState) /\ Len(slots') = Len(slots) /\ DOMAIN slots' = DOMAIN slots
      /\ \A j \in DOMAIN slots : slots'[j].page = slots[j].page
      /\ \A j \in DOMAIN slots : slots'[j].type = IF j = i THEN "data" ELSE slots[j].type
  <2>1. slots \in Seq(SlotState) /\ DOMAIN slots = 1..Len(slots) /\ i \in 1..Len(slots)
    BY <1>4 DEF IInv, Typed, DataSlots
  <2> DEFINE x == [slots[i] EXCEPT !.type = "data"]
  <2>2. x \in SlotState /\ x.page = slots[i].page /\ x.type = "data"
    <3>1. slots[i] \in SlotState
      BY <2>1
    <3> QED
      BY <3>1 DEF SlotState
  <2>3. slots' = [slots EXCEPT ![i] = x]
    BY <1>1
  <2> HIDE DEF x
  <2> QED
    BY <2>1, <2>2, <2>3, ExceptSeq
<1>6. P \in Pages \ {swap} /\ P \in Pages
  BY <1>2, <1>4
<1> HIDE DEF P
<1>7. /\ FlashTyped(flash') /\ flash'[P].tag = "data"
      /\ \A q \in Pages \ {P} : flash'[q] = flash[q]
      /\ \A q \in Pages : flash'[q].recs = flash[q].recs
  <2>1. FlashTyped(flash) /\ P \in Pages /\ flash' = Tagging(flash, P, "data")
    BY <1>1, <1>2, <1>6
  <2> QED
    BY <2>1, TaggedData
<1>8. /\ UniqueIn(flash', Pages) /\ LiveIn(flash') = LiveIn(flash)
      /\ AllValid(flash, swap) => AllValid(flash', swap)
  BY <1>2, <1>3, <1>7, SameRecords
<1>9. Maps(slots', swap)
  BY <1>2, <1>5 DEF Maps
<1>10. \A j \in DOMAIN slots : slots'[j].type = flash'[slots'[j].page].tag
  <2> SUFFICES ASSUME NEW j \in DOMAIN slots
               PROVE  slots'[j].type = flash'[slots'[j].page].tag
    OBVIOUS
  <2>1. CASE j = i
    BY <1>5, <1>7, <2>1 DEF P
  <2>2. CASE j # i
    <3>1. slots[j].page # P /\ slots[j].page \in Pages
      BY <1>2, <1>4, <2>2 DEF Maps, DataSlots, P
    <3> QED
      BY <1>2, <1>5, <1>7, <2>2, <3>1 DEF DataSlots
  <2> QED
    BY <2>1, <2>2
<1>11. flash'[swap] = flash[swap]
  BY <1>2, <1>6, <1>7
<1>12. Typed'
  BY <1>1, <1>5, <1>7 DEF IInv, Typed, DataSlots, Steps
<1>13. Off'
  BY <1>1 DEF Off
<1>14. Booting'
  BY <1>1, <1>2, <1>3, <1>5, <1>8, <1>9, <1>10, <1>11 DEF Booting, DataSlots
<1>15. Running' /\ Collecting'
  BY <1>1 DEF Running, Collecting, RunSteps, CollectSteps
<1>16. Numbered'
  BY <1>1, <1>8 DEF IInv, Numbered, CollectSteps
<1>17. HeldPlaced'
  BY <1>1 DEF HeldPlaced, CollectSteps
<1>18. Counted'
  BY <1>1, <1>8 DEF IInv, Counted
<1> QED
  BY <1>12, <1>13, <1>14, <1>15, <1>16, <1>17, <1>18, <1>8 DEF IInv

\* The swap page and a listed one change places.
LEMMA Exchanged ==
  ASSUME NEW s, NEW w, Maps(s, w), NEW c \in DOMAIN s, s[c].page \in Pages,
         NEW t, DOMAIN t = DOMAIN s, t[c].page = w,
         \A j \in DOMAIN s : j # c => t[j].page = s[j].page
  PROVE  Maps(t, s[c].page)
<1>1. \A j \in DOMAIN t : t[j].page # s[c].page
  BY DEF Maps
<1>2. \A i, j \in DOMAIN t : t[i].page = t[j].page => i = j
  BY DEF Maps
<1>3. \A p \in Pages \ {s[c].page} : \E i \in DOMAIN t : t[i].page = p
  <2> SUFFICES ASSUME NEW p \in Pages \ {s[c].page} PROVE \E i \in DOMAIN t : t[i].page = p
    OBVIOUS
  <2>1. CASE p = w
    BY <2>1
  <2>2. CASE p # w
    <3>1. PICK i \in DOMAIN s : s[i].page = p
      BY <2>2 DEF Maps
    <3> QED
      BY <3>1
  <2> QED
    BY <2>1, <2>2
<1> QED
  BY <1>1, <1>2, <1>3 DEF Maps

\* A page full of valid records has one.
LEMMA SomeValid ==
  ASSUME NEW f, FlashTyped(f), NEW p \in Pages, f[p].recs # <<>>, AllValid(f, p)
  PROVE  IdsIn(f, p) # {}
<1>1. f[p].recs \in Seq(Record)
  BY DEF FlashTyped, Page
<1>2. 1 \in DOMAIN f[p].recs
  BY <1>1
<1>3. 1 \in ValidAt(f, p)
  BY <1>2 DEF ValidAt, AllValid
<1> QED
  BY <1>3 DEF IdsIn

\* The end of init_execute.
LEMMA InitDoneStep ==
  ASSUME IInv, InitDone
  PROVE  IInv'
<1>1. /\ pc = "tagData" /\ pc' = "load" /\ op' = NoOp /\ ErasedSlots = {}
      /\ UNCHANGED <<flash, gc, ids, hist>>
  BY DEF InitDone
<1>2. /\ FlashTyped(flash) /\ Maps(slots, swap) /\ swap \in Pages
      /\ \A j \in DataSlots :
           /\ slots[j].type = flash[slots[j].page].tag
           /\ slots[j].page \in Pages \ {swap} /\ slots[j].type \in {"erased", "data"}
      /\ gc.cur \in DataSlots /\ gc.todo = {} /\ gc.src = 0
      /\ ids.desc = 0 /\ op.kind \in {"none", "promote"}
  BY <1>1, BootFacts
<1>3. /\ UniqueIn(flash, Pages)
      /\ op.kind = "promote" =>
           /\ flash[swap].tag = "data" /\ flash[swap].recs # <<>>
           /\ AllValid(flash, swap) /\ hist.promoted
      /\ op.kind = "none" => flash[swap].tag = "swap" /\ flash[swap].recs = <<>>
  BY <1>1 DEF IInv, Booting
<1>4. \A j \in DataSlots : slots[j].type = "data" /\ flash[slots[j].page].tag = "data"
  BY <1>1, <1>2 DEF ErasedSlots
<1>5. /\ slots' \in Seq(SlotState) /\ Len(slots') = Len(slots) /\ DOMAIN slots' = DataSlots
      /\ swap' \in 0..VirtualPages
      /\ Maps(slots', swap')
      /\ \A j \in DataSlots :
           slots'[j].type = "data" /\ flash[slots'[j].page].tag = "data"
      /\ flash[swap'].tag \in {"swap", "data"}
      /\ ~hist.promoted => flash[swap'].tag = "swap"
      /\ flash[swap'].tag = "swap" => flash[swap'].recs = <<>>
      /\ LiveIn(flash) # {} => \E i \in DataSlots : IdsIn(flash, slots'[i].page) # {}
  <2>1. CASE op.kind = "none"
    <3>1. swap' = swap /\ slots' = slots
      BY <2>1 DEF InitDone
    <3>2. \A id \in LiveIn(flash) : Placed(flash, slots, id)
      BY <1>2, <1>3, <2>1, AllListed, EmptyPage
    <3> QED
      BY <1>2, <1>3, <1>4, <2>1, <3>1, <3>2 DEF IInv, Typed, Placed, DataSlots
  <2>2. CASE op.kind = "promote"
    <3> DEFINE c == gc.cur
               x == [slots[c] EXCEPT !.page = swap, !.type = "data"]
    <3>1. slots \in Seq(SlotState) /\ DataSlots = 1..Len(slots) /\ c \in 1..Len(slots)
          /\ slots[c] \in SlotState
      BY <1>2, SlotAt DEF IInv, Typed
    <3>2. x \in SlotState /\ x.page = swap /\ x.type = "data"
      BY <1>2, <3>1 DEF SlotState
    <3>3. slots' = [slots EXCEPT ![c] = x] /\ swap' = slots[c].page
      BY <2>2, <3>1 DEF InitDone
    <3> HIDE DEF x, c
    <3>4. /\ slots' \in Seq(SlotState) /\ Len(slots') = Len(slots)
          /\ \A j \in 1..Len(slots) : slots'[j] = IF j = c THEN x ELSE slots[j]
      BY <3>1, <3>2, <3>3, ExceptSeq
    <3>5. DOMAIN slots' = DataSlots
      BY <3>1, <3>4
    <3>6. Maps(slots', swap')
      BY <1>2, <3>1, <3>2, <3>3, <3>4, <3>5, Exchanged DEF DataSlots
    <3>7. IdsIn(flash, slots'[c].page) # {}
      <4>1. slots'[c].page = swap
        BY <3>1, <3>2, <3>4
      <4> QED
        BY <1>2, <1>3, <2>2, <4>1, SomeValid
    <3>8. swap' \in 0..VirtualPages
      BY <1>2, <3>1, <3>3 DEF Pages
    <3>9. \A j \in DataSlots : slots'[j].type = "data" /\ flash[slots'[j].page].tag = "data"
      BY <1>3, <1>4, <2>2, <3>1, <3>2, <3>4
    <3> QED
      BY <1>3, <1>4, <2>2, <3>1, <3>3, <3>4, <3>5, <3>6, <3>7, <3>8, <3>9
  <2> QED
    BY <1>2, <2>1, <2>2
<1>6. /\ op' \in [kind : Kinds, dest : Nat, old : Nat, at : Nat] /\ op'.kind = "none"
  BY <1>1 DEF NoOp, Kinds
<1>7. Typed'
  BY <1>1, <1>5, <1>6 DEF IInv, Typed, DataSlots, Steps
<1>8. Off' /\ Booting'
  BY <1>1 DEF Off, Booting
<1>9. Running'
  BY <1>1, <1>3, <1>5, <1>6 DEF Running, DataSlots, RunSteps, CollectSteps
<1>10. Collecting'
  BY <1>1 DEF Collecting
<1>11. Numbered'
  BY <1>1, <1>2, <1>6 DEF IInv, Numbered, CollectSteps
<1>12. HeldPlaced'
  BY <1>1, <1>5 DEF HeldPlaced, CollectSteps, DataSlots
<1>13. Counted'
  BY <1>1, <1>6 DEF IInv, Counted
<1> QED
  BY <1>7, <1>8, <1>9, <1>10, <1>11, <1>12, <1>13 DEF IInv

\* What record_find returns.
LEMMA FoundIs ==
  ASSUME Typed, \A i \in DataSlots : slots[i].type = "data"
  PROVE  /\ Found \in 0..MaxId
         /\ Found = 0 => \A i \in DataSlots : IdsIn(flash, slots[i].page) = {}
         /\ Found # 0 => Placed(flash, slots, Found)
<1> DEFINE seen == {i \in DataSlots : slots[i].type = "data" /\ ValidIn(slots[i].page) # {}}
           P == slots[Min(seen)].page
           recs == flash[P].recs
           K == {k \in DOMAIN recs : Valid(recs[k])}
<1>1. \A i \in DataSlots : ValidIn(slots[i].page) = IdsIn(flash, slots[i].page)
  BY DEF ValidIn, IdsIn, ValidAt, Range
<1>2. CASE seen = {}
  <2>1. Found = 0
    BY <1>2, Zenon DEF Found
  <2>2. \A i \in DataSlots : IdsIn(flash, slots[i].page) = {}
    BY <1>1, <1>2
  <2> QED
    BY <2>1, <2>2, FlashAssumption
<1>3. CASE seen # {}
  <2>1. Min(seen) \in seen
    <3>1. seen \in SUBSET Nat
      BY SlotAt
    <3> HIDE DEF seen
    <3> QED
      BY <1>3, <3>1, MinIs
  <2>2. Min(seen) \in DataSlots /\ P \in Pages /\ IdsIn(flash, P) # {}
    BY <1>1, <2>1, SlotAt
  <2>3. Found = recs[Min(K)].id
    BY <1>3, Zenon DEF Found
  <2> HIDE DEF seen
  <2>4. recs \in Seq(Record) /\ K = ValidAt(flash, P)
    BY <2>2 DEF Typed, FlashTyped, Page, ValidAt
  <2>5. K # {} /\ K \in SUBSET Nat
    BY <2>2, <2>4 DEF IdsIn
  <2>6. Min(K) \in K
    BY <2>5, MinIs
  <2>7. recs[Min(K)] \in Record /\ recs[Min(K)].id \in IdsIn(flash, P)
    <3>1. Min(K) \in ValidAt(flash, P) /\ Min(K) \in DOMAIN recs
      BY <2>4, <2>6
    <3> HIDE DEF K, P
    <3> QED
      BY <2>4, <3>1 DEF IdsIn
  <2>8. Found \in 1..MaxId
    BY <2>3, <2>7 DEF Record
  <2>9. Placed(flash, slots, Found)
    BY <2>2, <2>3, <2>7 DEF Placed, DataSlots
  <2> QED
    BY <2>8, <2>9, FlashAssumption
<1> QED
  BY <1>2, <1>3

\* FILE_load.
LEMMA LoadStep ==
  ASSUME IInv, Load
  PROVE  IInv'
<1>1. /\ pc = "load" /\ ids' = [ids EXCEPT !.desc = Found]
      /\ IF Found = 0
         THEN pc' = "write" /\ op' = [op EXCEPT !.kind = "create"]
         ELSE pc' = "idle" /\ op' = op
      /\ UNCHANGED <<flash, slots, swap, gc, hist>>
  BY DEF Load
<1>2. /\ Typed /\ Maps(slots, swap) /\ op.kind = "none" /\ ids.desc = 0
      /\ \A i \in DataSlots : slots[i].type = "data" /\ flash[slots[i].page].tag = "data"
      /\ UniqueIn(flash, Pages) /\ flash[swap].tag \in {"swap", "data"}
      /\ ~hist.promoted => flash[swap].tag = "swap"
      /\ flash[swap].tag = "swap" => flash[swap].recs = <<>>
  BY <1>1 DEF IInv, Running, Numbered, RunSteps, CollectSteps
<1>3. /\ Found \in 0..MaxId
      /\ Found = 0 => \A i \in DataSlots : IdsIn(flash, slots[i].page) = {}
      /\ Found # 0 => Placed(flash, slots, Found)
  BY <1>2, FoundIs
<1>4. Found = 0 => LiveIn(flash) = {}
  BY <1>1, <1>3 DEF IInv, HeldPlaced
<1>5. /\ ids' \in [latest : 0..MaxId, desc : 0..MaxId]
      /\ ids'.latest = ids.latest /\ ids'.desc = Found
  BY <1>1, <1>2, <1>3 DEF Typed
<1>6. /\ op' \in [kind : Kinds, dest : Nat, old : Nat, at : Nat]
      /\ op'.kind = IF Found = 0 THEN "create" ELSE "none"
  <2>1. op \in [kind : Kinds, dest : Nat, old : Nat, at : Nat] /\ op.kind = "none"
    BY <1>2 DEF Typed
  <2> QED
    BY <1>1, <2>1 DEF Kinds
<1>7. pc' = IF Found = 0 THEN "write" ELSE "idle"
  BY <1>1
<1>8. Typed'
  BY <1>1, <1>2, <1>5, <1>6, <1>7 DEF Typed, DataSlots, Steps
<1>9. Off' /\ Booting' /\ Collecting'
  BY <1>7 DEF Off, Booting, Collecting
<1>10. Running'
  BY <1>1, <1>2, <1>6, <1>7 DEF Running, DataSlots, RunSteps, CollectSteps
<1>11. Numbered'
  BY <1>1, <1>5, <1>6, <1>7 DEF IInv, Numbered, CollectSteps
<1>12. HeldPlaced'
  BY <1>1, <1>3, <1>5, <1>6, <1>7 DEF HeldPlaced, CollectSteps
<1>13. Counted'
  BY <1>1, <1>4, <1>6, <1>7 DEF IInv, Counted
<1> QED
  BY <1>8, <1>9, <1>10, <1>11, <1>12, <1>13 DEF IInv

\* The application writes its key object.
LEMMA UpdateStep ==
  ASSUME IInv, Update
  PROVE  IInv'
<1>1. /\ pc = "idle" /\ pc' = "write" /\ op' = [op EXCEPT !.kind = "update"]
      /\ UNCHANGED <<flash, slots, swap, gc, ids, hist>>
  BY DEF Update
<1>2. /\ op' \in [kind : Kinds, dest : Nat, old : Nat, at : Nat] /\ op'.kind = "update"
  BY <1>1 DEF IInv, Typed, Kinds
<1>3. Typed'
  BY <1>1, <1>2 DEF IInv, Typed, DataSlots, Steps
<1>4. Off' /\ Booting' /\ Collecting'
  BY <1>1 DEF Off, Booting, Collecting
<1>5. Running'
  BY <1>1, <1>2 DEF IInv, Running, DataSlots, RunSteps, CollectSteps
<1>6. Numbered'
  BY <1>1, <1>2 DEF IInv, Numbered, CollectSteps
<1>7. HeldPlaced'
  BY <1>1, <1>2 DEF IInv, HeldPlaced, CollectSteps
<1>8. Counted'
  BY <1>1, <1>2 DEF IInv, Counted
<1> QED
  BY <1>3, <1>4, <1>5, <1>6, <1>7, <1>8 DEF IInv

\* The power goes: what was being written is what the next boot reads.
LEMMA PowerLossStep ==
  ASSUME IInv, PowerLoss
  PROVE  IInv'
<1>1. /\ pc' = "off" /\ flash' = flash
      /\ slots' = <<>> /\ swap' = 0 /\ gc' = NoGc /\ op' = NoOp
      /\ ids' = [latest |-> 0, desc |-> 0]
      /\ hist.cuts < MaxCuts
      /\ hist' = [hist EXCEPT !.cuts = @ + 1, !.torn = IF pc = "flag" THEN @ + 1 ELSE @]
  BY DEF PowerLoss
<1>2. /\ hist \in [acked : 0..MaxId, cuts : 0..MaxCuts, torn : 0..MaxCuts, promoted : BOOLEAN]
      /\ hist.torn <= hist.cuts /\ MaxCuts \in Nat
  BY FlashAssumption DEF IInv, Typed
<1>3. /\ hist' \in [acked : 0..MaxId, cuts : 0..MaxCuts, torn : 0..MaxCuts, promoted : BOOLEAN]
      /\ hist'.torn <= hist'.cuts /\ hist'.acked = hist.acked
      /\ hist'.torn = IF pc = "flag" THEN hist.torn + 1 ELSE hist.torn
  <2> DEFINE c == hist.cuts + 1
             t == IF pc = "flag" THEN hist.torn + 1 ELSE hist.torn
  <2>1. c \in 0..MaxCuts /\ t \in 0..MaxCuts /\ t <= c
    BY <1>1, <1>2
  <2>2. hist' = [hist EXCEPT !.cuts = c, !.torn = t]
    BY <1>1
  <2> HIDE DEF c, t
  <2>3. /\ hist' \in [acked : 0..MaxId, cuts : 0..MaxCuts, torn : 0..MaxCuts, promoted : BOOLEAN]
        /\ hist'.cuts = c /\ hist'.torn = t /\ hist'.acked = hist.acked
    BY <1>2, <2>1, <2>2
  <2> QED
    BY <2>1, <2>3 DEF t
<1>4. BootSafe(flash)
  BY AlwaysBootSafe
<1>5. Typed'
  <2>1. /\ slots' \in Seq(SlotState) /\ Len(slots') = 0 /\ 0 <= VirtualPages
        /\ swap' \in 0..VirtualPages
    BY <1>1, FlashAssumption
  <2>2. gc' \in [cur : Pages, todo : SUBSET DataSlots', src : Nat]
    BY <1>1, FlashAssumption DEF NoGc, Pages
  <2>3. ids' \in [latest : 0..MaxId, desc : 0..MaxId]
    BY <1>1, FlashAssumption
  <2>4. op' \in [kind : Kinds, dest : Nat, old : Nat, at : Nat]
    BY <1>1 DEF NoOp, Kinds
  <2>5. pc' \in Steps
    BY <1>1 DEF Steps
  <2> QED
    BY <1>1, <1>3, <2>1, <2>2, <2>3, <2>4, <2>5 DEF IInv, Typed
<1>6. Off'
  BY <1>1, <1>4 DEF Off, NoOp
<1>7. Booting' /\ Running' /\ Collecting' /\ Numbered'
  BY <1>1 DEF Booting, Running, Collecting, Numbered, RunSteps, CollectSteps
<1>8. HeldPlaced'
  BY <1>1 DEF HeldPlaced, CollectSteps
<1>9. Counted'
  BY <1>1, <1>2, <1>3 DEF IInv, Counted, NoOp
<1> QED
  BY <1>5, <1>6, <1>7, <1>8, <1>9 DEF IInv

\* Nothing happens.
LEMMA StutterStep ==
  ASSUME IInv, UNCHANGED vars
  PROVE  IInv'
<1>1. UNCHANGED <<flash, slots, swap, gc, ids, pc, op, hist>>
  BY DEF vars
<1> QED
  <2>1. Typed'
    BY <1>1 DEF IInv, Typed, DataSlots
  <2>2. Off' /\ Counted'
    BY <1>1 DEF IInv, Off, Counted
  <2>3. Booting'
    BY <1>1 DEF IInv, Booting, DataSlots
  <2>4. Running'
    BY <1>1 DEF IInv, Running, DataSlots
  <2>5. Collecting'
    BY <1>1 DEF IInv, Collecting, DataSlots
  <2>6. Numbered'
    BY <1>1 DEF IInv, Numbered, DataSlots
  <2>7. HeldPlaced'
    BY <1>1 DEF IInv, HeldPlaced, DataSlots
  <2> QED
    BY <2>1, <2>2, <2>3, <2>4, <2>5, <2>6, <2>7 DEF IInv

\* The ids in use are finitely many.
LEMMA LiveIds ==
  ASSUME NEW f, FlashTyped(f)
  PROVE  LiveIn(f) \subseteq 1..MaxId /\ IsFiniteSet(LiveIn(f))
         /\ Cardinality(LiveIn(f)) \in Nat
<1>1. \A p \in Pages : \A k \in ValidAt(f, p) : f[p].recs[k].id \in 1..MaxId
  <2> SUFFICES ASSUME NEW p \in Pages, NEW k \in ValidAt(f, p)
               PROVE  f[p].recs[k].id \in 1..MaxId
    OBVIOUS
  <2>1. f[p].recs \in Seq(Record) /\ k \in DOMAIN f[p].recs
    BY DEF FlashTyped, Page, ValidAt
  <2>2. f[p].recs[k] \in Record
    BY <2>1
  <2> QED
    BY <2>2 DEF Record
<1>2. LiveIn(f) \subseteq 1..MaxId
  BY <1>1 DEF LiveIn, IdsIn
<1>3. IsFiniteSet(1..MaxId)
  BY FS_Interval, FlashAssumption
<1>4. IsFiniteSet(LiveIn(f))
  BY <1>2, <1>3, FS_Subset
<1> QED
  BY <1>2, <1>4, FS_CardinalityType

\* Where record_find_by_desc finds a record.
LEMMA PlacesIs ==
  ASSUME Typed, NEW id, NEW w \in Places(id)
  PROVE  /\ w[1] \in DataSlots /\ w[2] \in ValidAt(flash, slots[w[1]].page)
         /\ flash[slots[w[1]].page].recs[w[2]].id = id
         /\ w[1] \in Nat /\ w[2] \in Nat
<1>1. /\ w \in DataSlots \X (1..Cap)
      /\ w[2] <= Len(flash[slots[w[1]].page].recs)
      /\ Valid(flash[slots[w[1]].page].recs[w[2]])
      /\ flash[slots[w[1]].page].recs[w[2]].id = id
  BY DEF Places
<1>2. w[1] \in DataSlots /\ w[2] \in 1..Cap /\ w[1] \in Nat
  BY <1>1, SlotAt
<1>3. flash[slots[w[1]].page].recs \in Seq(Record)
  <2>1. slots[w[1]].page \in Pages
    BY <1>2, SlotAt
  <2> QED
    BY <2>1 DEF Typed, FlashTyped, Page
<1>4. w[2] \in DOMAIN flash[slots[w[1]].page].recs /\ w[2] \in Nat
  BY <1>1, <1>2, <1>3, FlashAssumption
<1> QED
  BY <1>1, <1>2, <1>4 DEF ValidAt

\* What is known while the store runs.
LEMMA RunFacts ==
  ASSUME IInv, pc \in RunSteps
  PROVE  /\ FlashTyped(flash) /\ Maps(slots, swap) /\ swap \in Pages
         /\ \A i \in DataSlots :
              /\ slots[i].type = "data" /\ slots[i].page \in Pages \ {swap}
              /\ slots[i].page \in Pages /\ slots[i] \in SlotState
         /\ slots \in Seq(SlotState) /\ DataSlots = 1..Len(slots) /\ Len(slots) \in Nat
         /\ DataSlots \subseteq Nat
  BY SlotAt DEF IInv, Typed, Running, Maps, DataSlots

\* An update knows where the record is that the program held.
KeepsOld ==
  op'.kind = "update" => flash'[slots'[op'.old].page].recs[op'.at].id = ids.desc

\* The record's data and header, but for the last word.
LEMMA WriteStep ==
  ASSUME IInv, Write
  PROVE  IInv' /\ LiveIn(flash') = LiveIn(flash)
         /\ KeepsOld
<1> DEFINE d == Min(Rooms)
           P == slots[d].page
           n == ids.latest + 1
<1>1. /\ pc = "write" /\ pc' = "finalize" /\ Rooms # {} /\ ids.latest < MaxId
      /\ ids' = [latest |-> n, desc |-> n] /\ flash' = Opens(flash, P, n)
      /\ UNCHANGED <<slots, swap, gc, hist>>
      /\ IF op.kind = "update"
         THEN \E w \in Places(ids.desc) :
                op' = [op EXCEPT !.dest = d, !.old = w[1], !.at = w[2]]
         ELSE op' = [op EXCEPT !.dest = d]
  BY DEF Write, Opens
<1>2. /\ FlashTyped(flash) /\ Maps(slots, swap) /\ swap \in Pages
      /\ \A i \in DataSlots : slots[i].type = "data" /\ slots[i].page \in Pages \ {swap}
      /\ DataSlots \subseteq Nat /\ Typed
  BY <1>1, RunFacts DEF RunSteps, IInv
<1>3. /\ op.kind \in {"create", "update"} /\ UniqueIn(flash, Pages)
      /\ \A i \in DataSlots : flash[slots[i].page].tag = "data"
  BY <1>1 DEF IInv, Running, RunSteps, CollectSteps
<1>4. d \in DataSlots /\ d \in Nat /\ Len(flash[P].recs) < Cap
  <2>1. Rooms \in SUBSET Nat
    BY <1>2 DEF Rooms
  <2>2. d \in Rooms
    BY <1>1, <2>1, MinIs
  <2> QED
    BY <1>2, <2>2 DEF Rooms, HasRoom
<1> HIDE DEF d
<1>5. P \in Pages /\ P # swap /\ flash[P].tag = "data" /\ P \in Pages \ {swap}
  BY <1>2, <1>3, <1>4
<1>6. /\ ids.latest \in 0..MaxId /\ n \in 1..MaxId /\ n \in 0..MaxId /\ n > ids.latest
      /\ \A id \in LiveIn(flash) : id <= ids.latest
  <2>1. ids.latest \in 0..MaxId
    BY <1>2 DEF Typed
  <2>2. \A id \in LiveIn(flash) : id <= ids.latest
    BY <1>1 DEF IInv, Numbered
  <2>3. n \in 1..MaxId /\ n \in 0..MaxId /\ n > ids.latest
    <3>1. ids.latest < MaxId
      BY <1>1
    <3> QED
      BY <2>1, <3>1, FlashAssumption
  <2> QED
    BY <2>1, <2>2, <2>3
<1>7. n \notin LiveIn(flash)
  BY <1>6
<1> HIDE DEF P, n
<1>8. /\ FlashTyped(flash')
      /\ \A q \in Pages : flash'[q].tag = flash[q].tag
      /\ \A q \in Pages \ {P} : flash'[q] = flash[q]
      /\ \A q \in Pages : ValidAt(flash', q) = ValidAt(flash, q)
      /\ \A q \in Pages : \A k \in ValidAt(flash, q) : flash'[q].recs[k] = flash[q].recs[k]
      /\ LiveIn(flash') = LiveIn(flash)
      /\ UniqueIn(flash', Pages)
      /\ flash'[P].recs # <<>>
      /\ flash'[P].recs[Len(flash'[P].recs)] = [id |-> n, state |-> "open"]
  <2>1. FlashTyped(flash) /\ P \in Pages /\ Len(flash[P].recs) < Cap
        /\ flash[P].tag # "erased" /\ n \in 1..MaxId /\ flash' = Opens(flash, P, n)
    BY <1>1, <1>2, <1>4, <1>5, <1>6
  <2> QED
    BY <1>3, <2>1, Opened
<1>9. /\ op' \in [kind : Kinds, dest : Nat, old : Nat, at : Nat] /\ op'.kind = op.kind
      /\ op'.dest = d
      /\ op.kind = "update" =>
           /\ op'.old \in DataSlots /\ op'.at \in ValidAt(flash, slots[op'.old].page)
           /\ flash[slots[op'.old].page].recs[op'.at].id = ids.desc
  <2>1. op \in [kind : Kinds, dest : Nat, old : Nat, at : Nat]
    BY <1>2 DEF Typed
  <2>2. CASE op.kind = "update"
    <3>1. PICK w \in Places(ids.desc) : op' = [op EXCEPT !.dest = d, !.old = w[1], !.at = w[2]]
      BY <1>1, <2>2
    <3>2. /\ w[1] \in DataSlots /\ w[2] \in ValidAt(flash, slots[w[1]].page)
          /\ flash[slots[w[1]].page].recs[w[2]].id = ids.desc
          /\ w[1] \in Nat /\ w[2] \in Nat
      BY <1>2, PlacesIs
    <3>3. /\ op' \in [kind : Kinds, dest : Nat, old : Nat, at : Nat] /\ op'.kind = op.kind
          /\ op'.dest = d /\ op'.old = w[1] /\ op'.at = w[2]
      BY <1>4, <2>1, <3>1, <3>2
    <3> QED
      BY <3>2, <3>3
  <2>3. CASE op.kind # "update"
    BY <1>1, <1>4, <2>1, <2>3
  <2> QED
    BY <2>2, <2>3
<1>10. ids' \in [latest : 0..MaxId, desc : 0..MaxId] /\ ids'.latest = n /\ ids'.desc = n
  BY <1>1, <1>6
<1>11. Typed'
  BY <1>1, <1>2, <1>8, <1>9, <1>10 DEF Typed, DataSlots, Steps
<1>12. Off' /\ Booting' /\ Collecting'
  BY <1>1 DEF Off, Booting, Collecting
<1>13. flash'[swap] = flash[swap]
  BY <1>2, <1>5, <1>8
<1>14. Running'
  <2>1. \A i \in DataSlots : flash'[slots[i].page].tag = "data"
    BY <1>2, <1>3, <1>8
  <2> QED
    BY <1>1, <1>2, <1>3, <1>8, <1>9, <1>13, <2>1
    DEF IInv, Running, DataSlots, RunSteps, CollectSteps
<1>15. Numbered'
  <2>1. LiveIn(flash') = LiveIn(flash) /\ \A id \in LiveIn(flash) : id <= n
    <3>1. LiveIn(flash) \subseteq Nat /\ ids.latest \in Nat /\ n \in Nat
      BY <1>2, <1>6, LiveIds
    <3> QED
      BY <1>6, <1>8, <3>1
  <2>2. n # 0
    BY <1>6
  <2>3. slots'[op'.dest].page = P /\ op'.dest \in DOMAIN slots'
    BY <1>1, <1>4, <1>9 DEF P, DataSlots
  <2> QED
    BY <1>1, <1>7, <1>8, <1>10, <2>1, <2>2, <2>3 DEF Numbered, CollectSteps, DataSlots
<1>16. HeldPlaced'
  <2>1. ASSUME op.kind = "update"
        PROVE  /\ op'.old \in DataSlots /\ op'.at \in ValidAt(flash', slots[op'.old].page)
               /\ flash'[slots[op'.old].page].recs[op'.at].id # n
    <3> DEFINE Q == slots[op'.old].page
    <3>1. op'.old \in DataSlots /\ Q \in Pages /\ op'.at \in ValidAt(flash, Q)
      BY <1>2, <1>9, <2>1
    <3>2. flash[Q].recs[op'.at].id \in LiveIn(flash)
      BY <3>1, LiveHas
    <3>3. flash'[Q].recs[op'.at] = flash[Q].recs[op'.at] /\ op'.at \in ValidAt(flash', Q)
      BY <1>8, <3>1
    <3> QED
      BY <1>7, <3>1, <3>2, <3>3
  <2> QED
    BY <1>1, <1>9, <1>10, <2>1 DEF HeldPlaced, CollectSteps, DataSlots
<1>17. Counted'
  BY <1>1, <1>8, <1>9 DEF IInv, Counted
<1>18. KeepsOld
  <2> SUFFICES ASSUME op'.kind = "update"
               PROVE  flash'[slots[op'.old].page].recs[op'.at].id = ids.desc
    BY <1>1 DEF KeepsOld
  <2>1. /\ op'.old \in DataSlots /\ op'.at \in ValidAt(flash, slots[op'.old].page)
        /\ flash[slots[op'.old].page].recs[op'.at].id = ids.desc
    BY <1>9
  <2>2. slots[op'.old].page \in Pages
    BY <1>2, <2>1
  <2> QED
    BY <1>8, <2>1, <2>2
<1> QED
  BY <1>11, <1>12, <1>14, <1>15, <1>16, <1>17, <1>8, <1>18 DEF IInv

\* One more valid record, one fewer.
LEMMA OneMore ==
  ASSUME NEW S, IsFiniteSet(S), Cardinality(S) \in Nat, NEW d, d \notin S
  PROVE  Cardinality(S \union {d}) = Cardinality(S) + 1
  BY FS_AddElement

\* The last header word.
LEMMA FinalizeStep ==
  ASSUME IInv, Finalize
  PROVE  /\ IInv'
         /\ ids.desc \notin LiveIn(flash) /\ ids.desc # 0
         /\ LiveIn(flash') = LiveIn(flash) \union {ids.desc}
<1> DEFINE P == slots[op.dest].page
           d == ids.desc
<1>1. /\ pc = "finalize" /\ flash' = Finalizes(flash, P)
      /\ UNCHANGED <<slots, swap, gc, ids>>
      /\ IF op.kind = "update"
         THEN pc' = "flag" /\ op' = op /\ hist' = hist
         ELSE pc' = "idle" /\ op' = NoOp /\ hist' = [hist EXCEPT !.acked = ids.desc]
  BY DEF Finalize, Finalizes
<1>2. /\ FlashTyped(flash) /\ Maps(slots, swap) /\ swap \in Pages
      /\ \A i \in DataSlots : slots[i].type = "data" /\ slots[i].page \in Pages \ {swap}
      /\ Typed
  BY <1>1, RunFacts DEF RunSteps, IInv
<1>3. /\ op.kind \in {"create", "update"} /\ UniqueIn(flash, Pages)
      /\ \A i \in DataSlots : flash[slots[i].page].tag = "data"
      /\ flash[swap].tag \in {"swap", "data"}
      /\ ~hist.promoted => flash[swap].tag = "swap"
      /\ flash[swap].tag = "swap" => flash[swap].recs = <<>>
  BY <1>1 DEF IInv, Running, RunSteps, CollectSteps
<1>4. /\ d = ids.latest /\ d # 0 /\ d \notin LiveIn(flash) /\ op.dest \in DataSlots
      /\ flash[P].recs # <<>>
      /\ flash[P].recs[Len(flash[P].recs)] = [id |-> d, state |-> "open"]
      /\ \A id \in LiveIn(flash) : id <= ids.latest
  BY <1>1 DEF IInv, Numbered
<1>5. P \in Pages /\ P # swap /\ P \in Pages \ {swap}
  BY <1>2, <1>4
<1>6. d \in 1..MaxId /\ d \in 0..MaxId
  BY <1>2, <1>4 DEF Typed
<1> HIDE DEF P, d
<1>7. /\ FlashTyped(flash')
      /\ \A q \in Pages : flash'[q].tag = flash[q].tag
      /\ \A q \in Pages \ {P} : flash'[q] = flash[q]
      /\ IdsIn(flash', P) = IdsIn(flash, P) \union {d}
      /\ \A q \in Pages : \A k \in ValidAt(flash, q) :
           k \in ValidAt(flash', q) /\ flash'[q].recs[k] = flash[q].recs[k]
      /\ LiveIn(flash') = LiveIn(flash) \union {d}
      /\ UniqueIn(flash', Pages)
  BY <1>1, <1>2, <1>3, <1>4, <1>5, <1>6, Finalized
<1>8. flash'[swap] = flash[swap]
  BY <1>2, <1>5, <1>7
<1>9. /\ op' \in [kind : Kinds, dest : Nat, old : Nat, at : Nat]
      /\ op'.kind = IF op.kind = "update" THEN "update" ELSE "none"
      /\ op.kind = "update" => op' = op
  BY <1>1, <1>2 DEF Typed, NoOp, Kinds
<1>10. /\ hist' \in [acked : 0..MaxId, cuts : 0..MaxCuts, torn : 0..MaxCuts, promoted : BOOLEAN]
       /\ hist'.torn = hist.torn /\ hist'.cuts = hist.cuts /\ hist'.promoted = hist.promoted
       /\ hist'.acked = IF op.kind = "update" THEN hist.acked ELSE d
  BY <1>1, <1>2, <1>6 DEF Typed, d
<1>11. /\ pc' = IF op.kind = "update" THEN "flag" ELSE "idle"
       /\ pc' \in {"flag", "idle"}
  BY <1>1
<1>12. Typed'
  BY <1>1, <1>2, <1>7, <1>9, <1>10, <1>11 DEF Typed, DataSlots, Steps
<1>13. Off' /\ Booting' /\ Collecting'
  BY <1>11 DEF Off, Booting, Collecting
<1>14. Running'
  <2>1. \A i \in DataSlots : flash'[slots[i].page].tag = "data"
    BY <1>2, <1>3, <1>7
  <2> QED
    BY <1>1, <1>2, <1>3, <1>7, <1>8, <1>9, <1>10, <1>11, <2>1
    DEF Running, DataSlots, RunSteps, CollectSteps
<1>15. Numbered'
  <2>1. \A id \in LiveIn(flash') : id <= ids.latest
    BY <1>2, <1>4, <1>6, <1>7
  <2> QED
    BY <1>1, <1>11, <2>1 DEF Numbered, CollectSteps, DataSlots
<1>16. HeldPlaced'
  <2>1. Placed(flash', slots', ids'.desc)
    <3>1. d \in IdsIn(flash', slots[op.dest].page)
      BY <1>7 DEF P
    <3> QED
      BY <1>1, <1>4, <3>1 DEF Placed, DataSlots, d
  <2>2. ASSUME op.kind = "update"
        PROVE  /\ op.old \in DataSlots /\ op.at \in ValidAt(flash', slots[op.old].page)
               /\ flash'[slots[op.old].page].recs[op.at].id # d
    <3>1. /\ op.old \in DataSlots /\ op.at \in ValidAt(flash, slots[op.old].page)
          /\ flash[slots[op.old].page].recs[op.at].id # d
      BY <1>1, <2>2 DEF IInv, HeldPlaced, d
    <3>2. slots[op.old].page \in Pages
      BY <1>2, <3>1
    <3> QED
      BY <1>7, <3>1, <3>2
  <2> QED
    BY <1>1, <1>9, <1>11, <2>1, <2>2 DEF HeldPlaced, CollectSteps, DataSlots, d
<1>17. Counted'
  <2>1. IsFiniteSet(LiveIn(flash)) /\ Cardinality(LiveIn(flash)) \in Nat
    BY <1>2, LiveIds
  <2>2. Cardinality(LiveIn(flash')) = Cardinality(LiveIn(flash)) + 1
    BY <1>4, <1>7, <2>1, OneMore
  <2>3. hist.torn \in Nat
    BY <1>2 DEF Typed
  <2>4. CASE op.kind = "update"
    <3>1. Cardinality(LiveIn(flash)) <= 1 + hist.torn
      <4>1. Cardinality(LiveIn(flash)) <= 1 + hist.torn + 0
        BY <1>1 DEF IInv, Counted
      <4> QED
        BY <2>3, <4>1
    <3>2. hist.torn = 0 => LiveIn(flash) = {hist.acked} \ {0}
      BY <1>1 DEF IInv, Counted
    <3>3. pc' = "flag" /\ op'.kind = "update" /\ hist'.acked = hist.acked
      BY <1>9, <1>10, <1>11, <2>4
    <3>4. Cardinality(LiveIn(flash')) <= 1 + hist'.torn + 1
      BY <1>10, <2>1, <2>2, <2>3, <3>1
    <3> QED
      BY <1>1, <1>7, <1>10, <3>2, <3>3, <3>4 DEF Counted, d
  <2>5. CASE op.kind = "create"
    <3>1. LiveIn(flash) = {}
      BY <2>5 DEF IInv, Counted
    <3>2. LiveIn(flash') = {d} /\ Cardinality(LiveIn(flash')) = 1
      BY <1>7, <3>1, FS_Singleton
    <3>3. pc' = "idle" /\ op'.kind = "none" /\ hist'.acked = d
      BY <1>9, <1>10, <1>11, <2>5
    <3>4. Cardinality(LiveIn(flash')) <= 1 + hist'.torn + 0
      BY <1>10, <2>3, <3>2
    <3> QED
      BY <1>6, <3>2, <3>3, <3>4 DEF Counted
  <2> QED
    BY <1>3, <2>4, <2>5
<1> QED
  BY <1>12, <1>13, <1>14, <1>15, <1>16, <1>17, <1>4, <1>7 DEF IInv, d

\* A page of m_pages can be collected.
Marks(s, i) == [s EXCEPT ![i].canGc = TRUE]

\* That changes nothing else of m_pages.
LEMMA Marked ==
  ASSUME NEW s \in Seq(SlotState), NEW i \in DOMAIN s, NEW t, t = Marks(s, i)
  PROVE  /\ t \in Seq(SlotState) /\ Len(t) = Len(s) /\ DOMAIN t = DOMAIN s
         /\ \A j \in DOMAIN s : t[j].page = s[j].page /\ t[j].type = s[j].type
<1> DEFINE x == [s[i] EXCEPT !.canGc = TRUE]
<1>1. i \in 1..Len(s) /\ DOMAIN s = 1..Len(s) /\ s[i] \in SlotState
  OBVIOUS
<1>2. x \in SlotState /\ x.page = s[i].page /\ x.type = s[i].type
  BY <1>1 DEF SlotState
<1>3. t = [s EXCEPT ![i] = x]
  BY DEF Marks
<1> HIDE DEF x
<1>4. /\ t \in Seq(SlotState) /\ Len(t) = Len(s)
      /\ \A j \in 1..Len(s) : t[j] = IF j = i THEN x ELSE s[j]
  BY <1>1, <1>2, <1>3, ExceptSeq
<1>5. DOMAIN t = DOMAIN s
  BY <1>1, <1>4
<1> QED
  BY <1>1, <1>2, <1>4, <1>5

\* The mark of the record that is replaced.
LEMMA FlagDirtyStep ==
  ASSUME IInv, FlagDirty
  PROVE  /\ IInv'
         /\ \E r \in LiveIn(flash) \ {ids.desc} : LiveIn(flash') = LiveIn(flash) \ {r}
<1> DEFINE Q == slots[op.old].page
           e == flash[Q].recs[op.at].id
           d == ids.desc
<1>1. /\ pc = "flag" /\ flash' = Flags(flash, Q, op.at) /\ slots' = Marks(slots, op.old)
      /\ pc' = "idle" /\ op' = NoOp /\ hist' = [hist EXCEPT !.acked = ids.desc]
      /\ UNCHANGED <<swap, gc, ids>>
  BY DEF FlagDirty, Flags, Marks
<1>2. /\ FlashTyped(flash) /\ Maps(slots, swap) /\ swap \in Pages
      /\ \A i \in DataSlots : slots[i].type = "data" /\ slots[i].page \in Pages \ {swap}
      /\ slots \in Seq(SlotState) /\ Typed
  BY <1>1, RunFacts DEF RunSteps, IInv
<1>3. /\ UniqueIn(flash, Pages)
      /\ \A i \in DataSlots : flash[slots[i].page].tag = "data"
      /\ flash[swap].tag \in {"swap", "data"}
      /\ ~hist.promoted => flash[swap].tag = "swap"
      /\ flash[swap].tag = "swap" => flash[swap].recs = <<>>
  BY <1>1 DEF IInv, Running, RunSteps, CollectSteps
<1>4. /\ op.old \in DataSlots /\ op.at \in ValidAt(flash, Q) /\ e # d
      /\ Placed(flash, slots, d)
  BY <1>1 DEF IInv, HeldPlaced
<1>5. Q \in Pages /\ Q \in Pages \ {swap}
  BY <1>2, <1>4
<1>6. e \in LiveIn(flash) /\ d \in LiveIn(flash)
  <2>1. e \in LiveIn(flash)
    BY <1>4, <1>5, LiveHas
  <2>2. PICK i \in DataSlots : d \in IdsIn(flash, slots[i].page)
    BY <1>4 DEF Placed, DataSlots
  <2>3. slots[i].page \in Pages
    BY <1>2
  <2> QED
    BY <2>1, <2>2, <2>3 DEF LiveIn
<1>7. /\ LiveIn(flash) \subseteq 1..MaxId /\ IsFiniteSet(LiveIn(flash))
      /\ Cardinality(LiveIn(flash)) \in Nat
  BY <1>2, LiveIds
<1>8. d \in 1..MaxId /\ d \in 0..MaxId /\ d # 0
  BY <1>6, <1>7, FlashAssumption
<1>9. /\ slots' \in Seq(SlotState) /\ Len(slots') = Len(slots) /\ DOMAIN slots' = DataSlots
      /\ \A j \in DataSlots : slots'[j].page = slots[j].page /\ slots'[j].type = slots[j].type
  <2>1. op.old \in DOMAIN slots
    BY <1>4 DEF DataSlots
  <2> QED
    BY <1>1, <1>2, <2>1, Marked DEF DataSlots
<1>10. /\ FlashTyped(flash')
       /\ \A q \in Pages : flash'[q].tag = flash[q].tag
       /\ \A q \in Pages \ {Q} : flash'[q] = flash[q]
       /\ \A q \in Pages : IdsIn(flash', q) = IdsIn(flash, q) \ {e}
       /\ LiveIn(flash') = LiveIn(flash) \ {e}
       /\ UniqueIn(flash', Pages)
  <2> DEFINE n == op.at
  <2>1. n \in ValidAt(flash, Q) /\ e = flash[Q].recs[n].id /\ flash' = Flags(flash, Q, n)
    BY <1>1, <1>4
  <2> HIDE DEF Q, e, n
  <2> QED
    BY <1>2, <1>3, <1>5, <2>1, Flagged
<1> HIDE DEF Q, e, d
<1>11. flash'[swap] = flash[swap]
  BY <1>2, <1>5, <1>10
<1>12. /\ op' \in [kind : Kinds, dest : Nat, old : Nat, at : Nat] /\ op'.kind = "none"
  BY <1>1 DEF NoOp, Kinds
<1>13. /\ hist' \in [acked : 0..MaxId, cuts : 0..MaxCuts, torn : 0..MaxCuts, promoted : BOOLEAN]
       /\ hist'.torn = hist.torn /\ hist'.cuts = hist.cuts /\ hist'.promoted = hist.promoted
       /\ hist'.acked = d
  BY <1>1, <1>2, <1>8 DEF Typed, d
<1>14. Typed'
  <2>1. gc' \in [cur : Pages, todo : SUBSET DOMAIN slots', src : Nat]
    BY <1>1, <1>2, <1>9 DEF Typed
  <2> QED
    BY <1>1, <1>2, <1>9, <1>10, <1>12, <1>13, <2>1 DEF Typed, DataSlots, Steps
<1>15. Off' /\ Booting' /\ Collecting'
  BY <1>1 DEF Off, Booting, Collecting
<1>16. Running'
  <2>1. \A i \in DataSlots : flash'[slots'[i].page].tag = "data" /\ slots'[i].type = "data"
    BY <1>2, <1>3, <1>9, <1>10
  <2>2. Maps(slots', swap')
    BY <1>1, <1>2, <1>9 DEF Maps, DataSlots
  <2> QED
    BY <1>1, <1>3, <1>9, <1>10, <1>11, <1>12, <1>13, <2>1, <2>2
    DEF Running, DataSlots, RunSteps, CollectSteps
<1>17. Numbered'
  <2>1. \A id \in LiveIn(flash') : id <= ids.latest
    BY <1>1, <1>10 DEF IInv, Numbered
  <2> QED
    BY <1>1, <2>1 DEF Numbered, CollectSteps, DataSlots
<1>18. HeldPlaced'
  <2>1. Placed(flash', slots', d)
    <3>1. PICK i \in DataSlots : d \in IdsIn(flash, slots[i].page)
      BY <1>4 DEF Placed, DataSlots
    <3>2. slots[i].page \in Pages /\ slots'[i].page = slots[i].page /\ i \in DOMAIN slots'
      BY <1>2, <1>9, <3>1
    <3>3. d \in IdsIn(flash', slots'[i].page)
      BY <1>4, <1>10, <3>1, <3>2
    <3> QED
      BY <3>2, <3>3 DEF Placed
  <2> QED
    BY <1>1, <1>12, <2>1 DEF HeldPlaced, CollectSteps, DataSlots, d
<1>19. Counted'
  <2>1. Cardinality(LiveIn(flash')) = Cardinality(LiveIn(flash)) - 1
    BY <1>6, <1>7, <1>10, FS_RemoveElement
  <2>2. Cardinality(LiveIn(flash)) <= 1 + hist.torn + 1
    BY <1>1 DEF IInv, Counted
  <2>3. hist.torn \in Nat
    BY <1>2 DEF Typed
  <2>4. Cardinality(LiveIn(flash')) <= 1 + hist'.torn + 0
    BY <1>7, <1>13, <2>1, <2>2, <2>3
  <2>5. hist.torn = 0 => LiveIn(flash') = {d}
    <3>1. hist.torn = 0 => LiveIn(flash) = ({hist.acked} \ {0}) \union {d}
      BY <1>1 DEF IInv, Counted, d
    <3> QED
      BY <1>4, <1>6, <1>10, <3>1
  <2> QED
    BY <1>1, <1>8, <1>12, <1>13, <2>4, <2>5 DEF Counted
<1>20. \E r \in LiveIn(flash) \ {ids.desc} : LiveIn(flash') = LiveIn(flash) \ {r}
  BY <1>4, <1>6, <1>10 DEF d
<1> QED
  BY <1>14, <1>15, <1>16, <1>17, <1>18, <1>19, <1>20 DEF IInv

(***************************************************************************)
(* Garbage collection: no step gives or takes a record.                    *)
(***************************************************************************)
\* What a collection keeps when it keeps the records and where they are listed.
LEMMA StillHeld ==
  ASSUME IInv, pc \in {"write"} \union CollectSteps,
         pc' \in {"write", "overlaid"} \union CollectSteps,
         UNCHANGED <<ids, op, hist>>, LiveIn(flash') = LiveIn(flash),
         Placed(flash, slots, ids.desc) => Placed(flash', slots', ids.desc)
  PROVE  Off' /\ Booting' /\ Numbered' /\ HeldPlaced' /\ Counted'
<1>1. /\ pc' \notin {"off", "dead", "eraseSwap", "promote", "tagSwap", "tagData"}
      /\ pc' \notin {"load", "idle", "finalize", "flag"}
      /\ pc \notin {"off", "dead", "load", "idle", "finalize", "flag"}
  BY DEF CollectSteps
<1>2. Off' /\ Booting'
  BY <1>1 DEF Off, Booting
<1>3. Numbered'
  <2>1. /\ \A id \in LiveIn(flash) : id <= ids.latest
        /\ op.kind = "create" => ids.desc = 0
    BY <1>1 DEF IInv, Numbered
  <2> QED
    BY <1>1, <2>1 DEF Numbered
<1>4. HeldPlaced'
  <2>1. op.kind = "update" => Placed(flash, slots, ids.desc)
    BY DEF IInv, HeldPlaced
  <2> QED
    BY <1>1, <2>1 DEF HeldPlaced
<1>5. Counted'
  BY <1>1 DEF IInv, Counted
<1> QED
  BY <1>2, <1>3, <1>4, <1>5

\* gc_init.
LEMMA CollectStep ==
  ASSUME IInv, Collect
  PROVE  IInv'
<1>1. /\ pc = "write" /\ pc' = IF flash[swap].recs = <<>> THEN "gcNext" ELSE "overlaid"
      /\ gc' = [NoGc EXCEPT !.todo = {i \in DataSlots : slots[i].type = "data"}]
      /\ UNCHANGED <<flash, slots, swap, ids, op, hist>>
  BY DEF Collect
<1>2. /\ gc' \in [cur : Pages, todo : SUBSET DataSlots, src : Nat] /\ gc'.src = 0
  BY <1>1, FlashAssumption DEF NoGc, Pages
<1>3. pc' \in {"gcNext", "overlaid"} /\ (pc' = "gcNext" => flash[swap].recs = <<>>)
  BY <1>1
<1>4. Typed'
  BY <1>1, <1>2, <1>3 DEF IInv, Typed, DataSlots, Steps
<1>5. Off' /\ Booting' /\ Numbered' /\ HeldPlaced' /\ Counted'
  BY <1>1, <1>3, StillHeld DEF CollectSteps
<1>6. Running'
  BY <1>1, <1>3 DEF IInv, Running, DataSlots, RunSteps, CollectSteps
<1>7. Collecting'
  BY <1>1, <1>2, <1>3 DEF Collecting
<1> QED
  BY <1>4, <1>5, <1>6, <1>7 DEF IInv

\* Before its first record is copied, an empty swap page holds what it must.
LEMMA NothingCopied ==
  ASSUME NEW f, FlashTyped(f), NEW c \in Pages, NEW w \in Pages,
         UniqueIn(f, Pages), f[w].recs = <<>>
  PROVE  Copied(f, c, w, 0)
<1>1. UniqueIn(f, Pages \ {w}) /\ UniqueIn(f, {w})
  BY UniqueSubset
<1>2. IdsIn(f, w) = {} /\ AllValid(f, w)
  BY EmptyPage
<1>3. ValidAt(f, c) \subseteq 1..Len(f[c].recs)
  BY DEF FlashTyped, Page, ValidAt
<1>4. \A k \in ValidAt(f, c) : ~(k <= 0)
  BY <1>3
<1>5. Len(f[w].recs) <= 0
  OBVIOUS
<1> QED
  BY <1>1, <1>2, <1>4, <1>5 DEF Copied

\* gc_page_next.
LEMMA GcNextPageStep ==
  ASSUME IInv, GcNextPage
  PROVE  IInv'
<1> DEFINE c == Min(Collectable)
<1>1. /\ pc = "gcNext"
      /\ IF Collectable = {}
         THEN gc' = NoGc /\ pc' = "write"
         ELSE gc' = [gc EXCEPT !.cur = c, !.todo = {j \in @ : j > c}] /\ pc' = "gcCopy"
      /\ UNCHANGED <<flash, slots, swap, ids, op, hist>>
  BY DEF GcNextPage
<1>2. /\ FlashTyped(flash) /\ Maps(slots, swap) /\ swap \in Pages
      /\ \A i \in DataSlots : slots[i].page \in Pages
      /\ DataSlots = 1..Len(slots) /\ Len(slots) \in Nat /\ DataSlots \subseteq Nat
  BY <1>1, RunFacts DEF RunSteps, CollectSteps
<1>3. /\ UniqueIn(flash, Pages) /\ flash[swap].recs = <<>> /\ gc.src = 0
      /\ gc \in [cur : Pages, todo : SUBSET DataSlots, src : Nat]
      /\ Len(slots) <= VirtualPages
  BY <1>1 DEF IInv, Typed, Running, Collecting, RunSteps, CollectSteps
<1>4. Collectable # {} => c \in DataSlots /\ c \in Pages
  <2>1. Collectable \in SUBSET DataSlots
    BY <1>3 DEF Collectable
  <2>2. Collectable # {} => Min(Collectable) \in Collectable
    BY <1>2, <2>1, MinIs
  <2>3. \A i \in DataSlots : i \in Pages
    BY <1>2, <1>3, FlashAssumption DEF Pages
  <2> QED
    BY <2>1, <2>2, <2>3
<1> HIDE DEF c
<1>5. /\ gc' \in [cur : Pages, todo : SUBSET DataSlots, src : Nat]
      /\ gc'.src = 0 /\ pc' \in {"write", "gcCopy"}
      /\ pc' = "gcCopy" => gc'.cur = c /\ c \in DataSlots
  <2>1. CASE Collectable = {}
    BY <1>1, <2>1, FlashAssumption DEF NoGc, Pages
  <2>2. CASE Collectable # {}
    BY <1>1, <1>3, <1>4, <2>2
  <2> QED
    BY <2>1, <2>2
<1>6. Typed'
  BY <1>1, <1>5 DEF IInv, Typed, DataSlots, Steps
<1>7. Off' /\ Booting' /\ Numbered' /\ HeldPlaced' /\ Counted'
  BY <1>1, <1>5, StillHeld DEF CollectSteps
<1>8. Running'
  BY <1>1, <1>5 DEF IInv, Running, DataSlots, RunSteps, CollectSteps
<1>9. Collecting'
  <2>1. ASSUME pc' = "gcCopy"
        PROVE  Copied(flash, slots[c].page, swap, 0)
    <3>1. slots[c].page \in Pages
      BY <1>2, <1>5, <2>1
    <3> QED
      BY <1>2, <1>3, <3>1, NothingCopied
  <2> QED
    BY <1>1, <1>5, <2>1 DEF Collecting, DataSlots
<1> QED
  BY <1>6, <1>7, <1>8, <1>9 DEF IInv

\* What ToCopy are, and the first of them.
LEMMA ToCopyIs ==
  ASSUME FlashTyped(flash), slots[gc.cur].page \in Pages
  PROVE  /\ ToCopy = {k \in ValidAt(flash, slots[gc.cur].page) : k > gc.src}
         /\ ToCopy # {} =>
              /\ Min(ToCopy) \in ToCopy /\ Min(ToCopy) \in Nat
              /\ \A k \in ToCopy : k >= Min(ToCopy)
<1>1. ToCopy = {k \in ValidAt(flash, slots[gc.cur].page) : k > gc.src}
  BY DEF ToCopy, ValidAt
<1>2. ValidAt(flash, slots[gc.cur].page) \subseteq Nat
  BY DEF FlashTyped, Page, ValidAt
<1>3. ToCopy \in SUBSET Nat
  BY <1>1, <1>2
<1>4. ToCopy # {} => Min(ToCopy) \in ToCopy /\ \A k \in ToCopy : Min(ToCopy) <= k
  BY <1>3, MinIs
<1> HIDE DEF ToCopy
<1> DEFINE m == Min(ToCopy)
<1> HIDE DEF m
<1>5. ToCopy # {} => m \in Nat /\ \A k \in ToCopy : k >= m
  BY <1>3, <1>4 DEF m
<1> QED
  BY <1>1, <1>4, <1>5 DEF m

\* What is known while a page is collected.
LEMMA CopyFacts ==
  ASSUME IInv, pc = "gcCopy"
  PROVE  /\ gc.cur \in DataSlots /\ gc.src \in Nat
         /\ slots[gc.cur].page \in Pages /\ slots[gc.cur].page # swap
         /\ Copied(flash, slots[gc.cur].page, swap, gc.src)
         /\ flash[swap].tag \in {"swap", "data"}
         /\ ~hist.promoted => flash[swap].tag = "swap"
         /\ \A i \in DataSlots : flash[slots[i].page].tag = "data"
<1>1. gc.cur \in DataSlots /\ Copied(flash, slots[gc.cur].page, swap, gc.src)
  BY DEF IInv, Collecting
<1>2. \A i \in DataSlots : slots[i].page \in Pages \ {swap}
  BY RunFacts DEF RunSteps, CollectSteps
<1>3. /\ flash[swap].tag \in {"swap", "data"}
      /\ ~hist.promoted => flash[swap].tag = "swap"
      /\ \A i \in DataSlots : flash[slots[i].page].tag = "data"
  BY DEF IInv, Running, RunSteps, CollectSteps
<1>4. gc.src \in Nat
  BY DEF IInv, Typed
<1> QED
  BY <1>1, <1>2, <1>3, <1>4

\* The next record of the page is written to the swap page.
LEMMA GcCopyStep ==
  ASSUME IInv, GcCopy
  PROVE  IInv' /\ LiveIn(flash') = LiveIn(flash)
<1> DEFINE c == slots[gc.cur].page
           m == Min(ToCopy)
           n == gc.src
<1>1. /\ pc = "gcCopy" /\ ToCopy # {} /\ flash' = Copies(flash, swap, flash[c].recs[m])
      /\ gc' = [gc EXCEPT !.src = m]
      /\ UNCHANGED <<slots, swap, ids, pc, op, hist>>
  BY DEF GcCopy, Copies
<1>2. /\ FlashTyped(flash) /\ Maps(slots, swap) /\ swap \in Pages
      /\ \A i \in DataSlots : slots[i].type = "data" /\ slots[i].page \in Pages
  BY <1>1, RunFacts DEF RunSteps, CollectSteps
<1>3. /\ gc.cur \in DataSlots /\ n \in Nat /\ c \in Pages /\ c # swap
      /\ Copied(flash, c, swap, n)
      /\ flash[swap].tag \in {"swap", "data"}
      /\ ~hist.promoted => flash[swap].tag = "swap"
      /\ \A i \in DataSlots : flash[slots[i].page].tag = "data"
  BY <1>1, CopyFacts
<1>4. /\ m \in ValidAt(flash, c) /\ m > n /\ m \in Nat
      /\ \A k \in ValidAt(flash, c) : k > n => k >= m
  BY <1>1, <1>2, <1>3, ToCopyIs
<1>5. gc' \in [cur : Pages, todo : SUBSET DataSlots, src : Nat]
      /\ gc'.cur = gc.cur /\ gc'.src = m
  <2>1. gc \in [cur : Pages, todo : SUBSET DataSlots, src : Nat]
    BY DEF IInv, Typed
  <2> HIDE DEF m
  <2> QED
    BY <1>1, <1>4, <2>1
<1>6. /\ FlashTyped(flash') /\ Copied(flash', c, swap, m)
      /\ LiveIn(flash') = LiveIn(flash)
      /\ \A q \in Pages : flash'[q].tag = flash[q].tag
      /\ \A q \in Pages : IdsIn(flash, q) \subseteq IdsIn(flash', q)
  <2> HIDE DEF c, m, n
  <2>1. flash[swap].tag # "erased" /\ flash' = Copies(flash, swap, flash[c].recs[m])
    BY <1>1, <1>3
  <2> QED
    BY <1>2, <1>3, <1>4, <2>1, CopiedNext
<1>7. Typed'
  BY <1>1, <1>5, <1>6 DEF IInv, Typed, DataSlots
<1>8. Off' /\ Booting' /\ Numbered' /\ HeldPlaced' /\ Counted'
  <2>1. Placed(flash, slots, ids.desc) => Placed(flash', slots', ids.desc)
    BY <1>1, <1>2, <1>6 DEF Placed, DataSlots
  <2> QED
    BY <1>1, <1>6, <2>1, StillHeld DEF CollectSteps
<1>9. Running'
  <2>1. \A i \in DataSlots : flash'[slots[i].page].tag = "data"
    BY <1>2, <1>3, <1>6
  <2>2. flash'[swap].tag = flash[swap].tag
    BY <1>2, <1>6
  <2>3. op.kind \in {"create", "update"}
    BY <1>1 DEF IInv, Running, RunSteps, CollectSteps
  <2> QED
    BY <1>1, <1>2, <1>3, <2>1, <2>2, <2>3 DEF Running, DataSlots, RunSteps, CollectSteps
<1>10. Collecting'
  BY <1>1, <1>3, <1>5, <1>6 DEF Collecting, DataSlots
<1> QED
  BY <1>7, <1>8, <1>9, <1>10, <1>6 DEF IInv

\* The page is erased, and it is the swap page now.
LEMMA GcEraseStep ==
  ASSUME IInv, GcErase
  PROVE  IInv' /\ LiveIn(flash') = LiveIn(flash)
<1> DEFINE h == gc.cur
           c == slots[h].page
           n == gc.src
<1>1. /\ pc = "gcCopy" /\ ToCopy = {} /\ flash' = Erases(flash, c)
      /\ swap' = c /\ slots' = [slots EXCEPT ![h].page = swap] /\ pc' = "gcPromote"
      /\ UNCHANGED <<gc, ids, op, hist>>
  BY DEF GcErase, Erases
<1>2. /\ FlashTyped(flash) /\ Maps(slots, swap) /\ swap \in Pages
      /\ \A i \in DataSlots :
           slots[i].type = "data" /\ slots[i].page \in Pages \ {swap} /\ slots[i] \in SlotState
      /\ slots \in Seq(SlotState) /\ DataSlots = 1..Len(slots)
  BY <1>1, RunFacts DEF RunSteps, CollectSteps
<1>3. /\ h \in DataSlots /\ n \in Nat /\ c \in Pages /\ c # swap
      /\ Copied(flash, c, swap, n)
      /\ flash[swap].tag \in {"swap", "data"}
      /\ \A i \in DataSlots : flash[slots[i].page].tag = "data"
  BY <1>1, CopyFacts
<1>4. \A k \in ValidAt(flash, c) : k <= n
  <2>1. {k \in ValidAt(flash, c) : k > n} = {}
    BY <1>1, <1>2, <1>3, ToCopyIs
  <2>2. ValidAt(flash, c) \subseteq Nat
    BY <1>2, <1>3 DEF FlashTyped, Page, ValidAt
  <2> QED
    BY <1>3, <2>1, <2>2
<1>5. /\ slots' \in Seq(SlotState) /\ Len(slots') = Len(slots) /\ DOMAIN slots' = DataSlots
      /\ slots'[h].page = swap /\ slots'[h].type = "data"
      /\ \A j \in DataSlots : j # h => slots'[j] = slots[j]
  <2> DEFINE x == [slots[h] EXCEPT !.page = swap]
  <2>1. h \in 1..Len(slots) /\ slots[h] \in SlotState /\ slots[h].type = "data"
    BY <1>2, <1>3
  <2>2. x \in SlotState /\ x.page = swap /\ x.type = "data"
    BY <1>2, <2>1 DEF SlotState
  <2>3. slots' = [slots EXCEPT ![h] = x]
    BY <1>1
  <2> HIDE DEF x, h
  <2>4. /\ slots' \in Seq(SlotState) /\ Len(slots') = Len(slots)
        /\ \A j \in 1..Len(slots) : slots'[j] = IF j = h THEN x ELSE slots[j]
    BY <1>2, <2>1, <2>2, <2>3, ExceptSeq
  <2>5. DOMAIN slots' = DataSlots
    BY <1>2, <2>4
  <2> QED
    BY <1>2, <2>1, <2>2, <2>4, <2>5
<1> HIDE DEF h
<1>6. Maps(slots', c)
  BY <1>2, <1>3, <1>5, Exchanged DEF DataSlots
<1> HIDE DEF c, n
<1>7. /\ FlashTyped(flash') /\ flash'[c] = Erased
      /\ \A q \in Pages \ {c} : flash'[q] = flash[q]
      /\ \A q \in Pages \ {c} : IdsIn(flash', q) = IdsIn(flash, q)
  <2>1. FlashTyped(flash) /\ c \in Pages /\ flash' = Erases(flash, c)
    BY <1>1, <1>2, <1>3
  <2> QED
    BY <2>1, ErasedOne
<1>8. /\ UniqueIn(flash', Pages) /\ LiveIn(flash') = LiveIn(flash)
      /\ IdsIn(flash, c) \subseteq IdsIn(flash', swap)
  BY <1>1, <1>2, <1>3, <1>4, CollectedErased
<1>9. flash'[swap] = flash[swap] /\ AllValid(flash', swap)
  <2>1. flash'[swap] = flash[swap]
    BY <1>2, <1>3, <1>7
  <2> QED
    BY <1>3, <2>1 DEF Copied, AllValid
<1>10. Typed'
  <2>1. swap' \in 0..VirtualPages
    BY <1>1, <1>3, FlashAssumption DEF Pages
  <2> QED
    BY <1>1, <1>5, <1>7, <2>1 DEF IInv, Typed, DataSlots, Steps
<1>11. Off' /\ Booting' /\ Numbered' /\ HeldPlaced' /\ Counted'
  <2>1. ASSUME Placed(flash, slots, ids.desc)
        PROVE  Placed(flash', slots', ids.desc)
    <3>1. PICK i \in DataSlots : ids.desc \in IdsIn(flash, slots[i].page)
      BY <2>1 DEF Placed, DataSlots
    <3>2. CASE i = h
      <4>1. ids.desc \in IdsIn(flash', slots'[h].page)
        BY <1>5, <1>8, <3>1, <3>2 DEF c
      <4> QED
        BY <1>3, <1>5, <4>1 DEF Placed
    <3>3. CASE i # h
      <4>1. slots[i].page # c
        BY <1>2, <1>3, <3>3 DEF Maps, DataSlots, c
      <4>2. slots[i].page \in Pages \ {c} /\ slots'[i].page = slots[i].page
        BY <1>2, <1>5, <3>3, <4>1
      <4>3. ids.desc \in IdsIn(flash', slots'[i].page) /\ i \in DOMAIN slots'
        BY <1>5, <1>7, <3>1, <4>2
      <4> QED
        BY <4>3 DEF Placed
    <3> QED
      BY <3>2, <3>3
  <2> QED
    BY <1>1, <1>8, <2>1, StillHeld DEF CollectSteps
<1>12. Running'
  <2>1. \A i \in DataSlots :
          slots'[i].type = "data" /\ (flash'[slots'[i].page].tag = "data" \/ i = h)
    <3> SUFFICES ASSUME NEW i \in DataSlots, i # h
                 PROVE  slots'[i].type = "data" /\ flash'[slots'[i].page].tag = "data"
      BY <1>5
    <3>1. slots'[i] = slots[i] /\ slots[i].page # c
      BY <1>2, <1>3, <1>5 DEF Maps, DataSlots, c
    <3>2. slots[i].page \in Pages \ {c}
      BY <1>2, <3>1
    <3> QED
      BY <1>2, <1>3, <1>7, <3>1, <3>2
  <2>2. op.kind \in {"create", "update"}
    BY <1>1 DEF IInv, Running, RunSteps, CollectSteps
  <2>3. flash'[c].tag = "erased"
    BY <1>7 DEF Erased
  <2> QED
    BY <1>1, <1>5, <1>6, <1>8, <2>1, <2>2, <2>3
    DEF Running, DataSlots, RunSteps, CollectSteps, h
<1>13. Collecting'
  BY <1>1, <1>3, <1>5, <1>7, <1>9 DEF Collecting, DataSlots, h
<1> QED
  BY <1>10, <1>11, <1>12, <1>13, <1>8 DEF IInv

\* What is known between the erase and the tags.
LEMMA ErasedFacts ==
  ASSUME IInv, pc \in {"gcPromote", "gcTag"}
  PROVE  /\ gc.cur \in DataSlots /\ flash[swap] = Erased /\ UniqueIn(flash, Pages)
         /\ op.kind \in {"create", "update"}
         /\ \A i \in DataSlots :
              flash[slots[i].page].tag = "data" \/ (pc = "gcPromote" /\ i = gc.cur)
  BY DEF IInv, Collecting, Running, RunSteps, CollectSteps

\* The page that was the swap page is tagged as a data page.
LEMMA GcPromoteStep ==
  ASSUME IInv, GcPromote
  PROVE  IInv' /\ LiveIn(flash') = LiveIn(flash)
<1> DEFINE P == slots[gc.cur].page
<1>1. /\ pc = "gcPromote" /\ pc' = "gcTag" /\ flash' = Tagging(flash, P, "data")
      /\ UNCHANGED <<slots, swap, gc, ids, op, hist>>
  BY DEF GcPromote, WriteTag, Tagging
<1>2. /\ FlashTyped(flash) /\ Maps(slots, swap) /\ swap \in Pages
      /\ \A i \in DataSlots : slots[i].type = "data" /\ slots[i].page \in Pages \ {swap}
  BY <1>1, RunFacts DEF RunSteps, CollectSteps
<1>3. /\ gc.cur \in DataSlots /\ flash[swap] = Erased /\ UniqueIn(flash, Pages)
      /\ op.kind \in {"create", "update"}
      /\ \A i \in DataSlots : flash[slots[i].page].tag = "data" \/ i = gc.cur
  BY <1>1, ErasedFacts
<1>4. P \in Pages /\ P # swap
  BY <1>2, <1>3
<1> HIDE DEF P
<1>5. /\ FlashTyped(flash') /\ flash'[P].tag = "data"
      /\ \A q \in Pages \ {P} : flash'[q] = flash[q]
      /\ \A q \in Pages : flash'[q].recs = flash[q].recs
  <2>1. FlashTyped(flash) /\ P \in Pages /\ flash' = Tagging(flash, P, "data")
    BY <1>1, <1>2, <1>4
  <2> QED
    BY <2>1, TaggedData
<1>6. /\ UniqueIn(flash', Pages) /\ LiveIn(flash') = LiveIn(flash)
      /\ \A q \in Pages : IdsIn(flash', q) = IdsIn(flash, q)
  BY <1>3, <1>5, SameRecords
<1>7. flash'[swap] = Erased
  BY <1>2, <1>3, <1>4, <1>5
<1>8. Typed'
  BY <1>1, <1>5 DEF IInv, Typed, DataSlots, Steps
<1>9. Off' /\ Booting' /\ Numbered' /\ HeldPlaced' /\ Counted'
  <2>1. Placed(flash, slots, ids.desc) => Placed(flash', slots', ids.desc)
    BY <1>1, <1>2, <1>6 DEF Placed, DataSlots
  <2> QED
    BY <1>1, <1>6, <2>1, StillHeld DEF CollectSteps
<1>10. Running'
  <2>1. \A i \in DataSlots : flash'[slots[i].page].tag = "data"
    <3> SUFFICES ASSUME NEW i \in DataSlots PROVE flash'[slots[i].page].tag = "data"
      OBVIOUS
    <3>1. CASE slots[i].page = P
      BY <1>5, <3>1
    <3>2. CASE slots[i].page # P
      BY <1>2, <1>3, <1>5, <3>2 DEF P
    <3> QED
      BY <3>1, <3>2
  <2> QED
    BY <1>1, <1>2, <1>3, <1>6, <1>7, <2>1
    DEF Running, DataSlots, RunSteps, CollectSteps, Erased
<1>11. Collecting'
  BY <1>1, <1>3, <1>7 DEF Collecting, DataSlots
<1> QED
  BY <1>8, <1>9, <1>10, <1>11, <1>6 DEF IInv

\* The page that was erased is tagged as the swap page.
LEMMA GcTagSwapStep ==
  ASSUME IInv, GcTagSwap
  PROVE  IInv' /\ LiveIn(flash') = LiveIn(flash)
<1>1. /\ pc = "gcTag" /\ pc' = "gcNext" /\ flash' = Tagging(flash, swap, "swap")
      /\ gc' = [gc EXCEPT !.src = 0]
      /\ UNCHANGED <<slots, swap, ids, op, hist>>
  BY DEF GcTagSwap, WriteTag, Tagging
<1>2. /\ FlashTyped(flash) /\ Maps(slots, swap) /\ swap \in Pages
      /\ \A i \in DataSlots : slots[i].type = "data" /\ slots[i].page \in Pages \ {swap}
  BY <1>1, RunFacts DEF RunSteps, CollectSteps
<1>3. /\ flash[swap] = Erased /\ UniqueIn(flash, Pages)
      /\ op.kind \in {"create", "update"}
      /\ \A i \in DataSlots : flash[slots[i].page].tag = "data"
  BY <1>1, ErasedFacts
<1>4. /\ FlashTyped(flash')
      /\ flash'[swap].tag = IF flash[swap].tag = "data" THEN "data" ELSE "swap"
      /\ \A q \in Pages \ {swap} : flash'[q] = flash[q]
      /\ \A q \in Pages : flash'[q].recs = flash[q].recs
  BY <1>1, <1>2, TaggedSwap
<1>5. flash'[swap].tag = "swap" /\ flash'[swap].recs = <<>>
  BY <1>2, <1>3, <1>4 DEF Erased
<1>6. /\ UniqueIn(flash', Pages) /\ LiveIn(flash') = LiveIn(flash)
      /\ \A q \in Pages : IdsIn(flash', q) = IdsIn(flash, q)
  BY <1>3, <1>4, SameRecords
<1>7. gc' \in [cur : Pages, todo : SUBSET DataSlots, src : Nat] /\ gc'.src = 0
  BY <1>1 DEF IInv, Typed
<1>8. Typed'
  BY <1>1, <1>4, <1>7 DEF IInv, Typed, DataSlots, Steps
<1>9. Off' /\ Booting' /\ Numbered' /\ HeldPlaced' /\ Counted'
  <2>1. Placed(flash, slots, ids.desc) => Placed(flash', slots', ids.desc)
    BY <1>1, <1>2, <1>6 DEF Placed, DataSlots
  <2> QED
    BY <1>1, <1>6, <2>1, StillHeld DEF CollectSteps
<1>10. Running'
  <2>1. \A i \in DataSlots : flash'[slots[i].page].tag = "data"
    BY <1>2, <1>3, <1>4
  <2> QED
    BY <1>1, <1>2, <1>3, <1>5, <1>6, <2>1 DEF Running, DataSlots, RunSteps, CollectSteps
<1>11. Collecting'
  BY <1>1, <1>5, <1>7 DEF Collecting
<1> QED
  BY <1>8, <1>9, <1>10, <1>11, <1>6 DEF IInv

(***************************************************************************)
(* The invariant.                                                          *)
(***************************************************************************)
\* A device as it left the factory.
LEMMA InitHolds == Init => IInv
<1> SUFFICES ASSUME Init PROVE IInv
  OBVIOUS
<1>1. /\ flash = [p \in Pages |-> Erased] /\ slots = <<>> /\ swap = 0 /\ gc = NoGc
      /\ ids = [latest |-> 0, desc |-> 0] /\ pc = "off" /\ op = NoOp /\ hist = NoHistory
  BY DEF Init
<1>2. \A p \in Pages : flash[p] = Erased /\ flash[p].recs = <<>> /\ flash[p].tag = "erased"
  BY <1>1 DEF Erased
<1>3. FlashTyped(flash)
  BY <1>1, <1>2, FlashAssumption DEF FlashTyped, Page, Erased
<1>4. \A p \in Pages : ValidAt(flash, p) = {} /\ IdsIn(flash, p) = {}
  BY <1>2, EmptyPage
<1>5. LiveIn(flash) = {} /\ UniqueIn(flash, Pages)
  BY <1>4 DEF LiveIn, UniqueIn
<1>6. BootSafe(flash)
  <2>1. Tags(flash, "erased")
    BY <1>2, FlashAssumption DEF Tags, Pages
  <2> QED
    BY <1>2, <1>5, <2>1 DEF BootSafe
<1>7. Typed
  <2>1. slots \in Seq(SlotState) /\ Len(slots) <= VirtualPages /\ swap \in 0..VirtualPages
    BY <1>1, FlashAssumption
  <2>2. gc \in [cur : Pages, todo : SUBSET DataSlots, src : Nat]
    BY <1>1, FlashAssumption DEF NoGc, Pages
  <2>3. ids \in [latest : 0..MaxId, desc : 0..MaxId] /\ pc \in Steps
    BY <1>1, FlashAssumption DEF Steps
  <2>4. op \in [kind : Kinds, dest : Nat, old : Nat, at : Nat]
    BY <1>1 DEF NoOp, Kinds
  <2>5. /\ hist \in [acked : 0..MaxId, cuts : 0..MaxCuts, torn : 0..MaxCuts, promoted : BOOLEAN]
        /\ hist.torn <= hist.cuts
    BY <1>1, FlashAssumption DEF NoHistory
  <2> QED
    BY <1>3, <2>1, <2>2, <2>3, <2>4, <2>5 DEF Typed
<1>8. Off /\ HeldPlaced
  BY <1>1, <1>6 DEF Off, HeldPlaced, CollectSteps, NoOp
<1>9. Booting /\ Running /\ Collecting /\ Numbered
  BY <1>1 DEF Booting, Running, Collecting, Numbered, RunSteps, CollectSteps
<1>10. Counted
  <2>1. Cardinality(LiveIn(flash)) = 0
    BY <1>5, FS_EmptySet
  <2> QED
    BY <1>1, <1>5, <2>1 DEF Counted, NoOp, NoHistory
<1> QED
  BY <1>7, <1>8, <1>9, <1>10 DEF IInv

\* One step.
LEMMA NextHolds == IInv /\ [Next]_vars => IInv'
<1> SUFFICES ASSUME IInv, [Next]_vars PROVE IInv'
  OBVIOUS
<1>1. CASE Boot
  BY <1>1, BootStep
<1>2. CASE InitSteps
  BY <1>2, InitEraseSwapStep, InitPromoteStep, InitTagSwapStep, InitTagDataStep, InitDoneStep
  DEF InitSteps
<1>3. CASE Load \/ Update \/ PowerLoss
  BY <1>3, LoadStep, UpdateStep, PowerLossStep
<1>4. CASE WriteSteps
  <2>1. Write => IInv'
    BY WriteStep
  <2>2. Finalize => IInv'
    BY FinalizeStep
  <2>3. FlagDirty => IInv'
    BY FlagDirtyStep
  <2> QED
    BY <1>4, <2>1, <2>2, <2>3 DEF WriteSteps
<1>5. CASE GcSteps
  BY <1>5, CollectStep, GcNextPageStep, GcCopyStep, GcEraseStep, GcPromoteStep, GcTagSwapStep
  DEF GcSteps
<1>6. CASE UNCHANGED vars
  BY <1>6, StutterStep
<1> QED
  BY <1>1, <1>2, <1>3, <1>4, <1>5, <1>6 DEF Next

\* The inductive invariant holds in every state of the store, with boots,
\* updates, collections and power losses in any order.
THEOREM StoreInvariant == Spec => []IInv
  BY InitHolds, NextHolds, PTL DEF Spec

(***************************************************************************)
(* The properties.                                                         *)
(***************************************************************************)
\* The records of a page, by the definition of the module and by the one here.
LEMMA RecordsTyped ==
  ASSUME NEW f, FlashTyped(f), NEW p \in Pages, NEW r \in Range(f[p].recs)
  PROVE  r.id \in 1..MaxId /\ r.state \in {"open", "valid", "dirty"}
<1>1. f[p].recs \in Seq(Record)
  BY DEF FlashTyped, Page
<1>2. PICK k \in DOMAIN f[p].recs : r = f[p].recs[k]
  BY DEF Range
<1>3. r \in Record
  BY <1>1, <1>2
<1> QED
  BY <1>3 DEF Record

\* No page is ever asked to hold more records than fit, the swap page that a
\* collection copies to without asking included; and every variable is typed.
THEOREM StoreTypeOK == Spec => []TypeOK
<1>1. IInv => TypeOK
  <2> SUFFICES ASSUME IInv PROVE TypeOK
    OBVIOUS
  <2>1. /\ FlashTyped(flash) /\ Len(slots) <= VirtualPages /\ swap \in 0..VirtualPages
        /\ gc \in [cur : Pages, todo : SUBSET DataSlots, src : Nat]
        /\ ids \in [latest : 0..MaxId, desc : 0..MaxId] /\ pc \in Steps
        /\ hist \in [acked : 0..MaxId, cuts : 0..MaxCuts, torn : 0..MaxCuts, promoted : BOOLEAN]
    BY DEF IInv, Typed
  <2>2. \A p \in Pages : flash[p].tag \in {"erased", "swap", "data"} /\ Len(flash[p].recs) <= Cap
    BY <2>1 DEF FlashTyped, Page
  <2>3. \A p \in Pages : \A r \in Range(flash[p].recs) :
          r.id \in 1..MaxId /\ r.state \in {"open", "valid", "dirty"}
    BY <2>1, RecordsTyped
  <2> QED
    BY <2>1, <2>2, <2>3 DEF TypeOK
<1> QED
  BY <1>1, StoreInvariant, PTL

\* Whenever the file may be written and no boot has promoted the swap page, RAM
\* and flash agree on the one swap page, it is empty, and m_pages lists all
\* the others, which are data pages.
THEOREM StoreOneSwap == Spec => []OneSwap
<1>1. IInv => OneSwap
  <2> SUFFICES ASSUME IInv, pc = "idle", ~hist.promoted
               PROVE  /\ {p \in Pages : flash[p].tag # "data"} = {swap}
                      /\ flash[swap] = [tag |-> "swap", recs |-> <<>>]
                      /\ {slots[i].page : i \in DataSlots} = Pages \ {swap}
    BY DEF OneSwap
  <2>1. /\ FlashTyped(flash) /\ Maps(slots, swap) /\ swap \in Pages
        /\ \A i \in DataSlots : slots[i].page \in Pages \ {swap}
    BY RunFacts DEF RunSteps
  <2>2. /\ \A i \in DataSlots : flash[slots[i].page].tag = "data"
        /\ flash[swap].tag = "swap" /\ flash[swap].recs = <<>>
    BY DEF IInv, Running, RunSteps
  <2>3. {slots[i].page : i \in DataSlots} = Pages \ {swap}
    BY <2>1 DEF Maps, DataSlots
  <2>4. {p \in Pages : flash[p].tag # "data"} = {swap}
    BY <2>1, <2>2, <2>3
  <2>5. flash[swap] \in Page
    BY <2>1 DEF FlashTyped
  <2>6. flash[swap] = [tag |-> "swap", recs |-> <<>>]
    BY <2>2, <2>5 DEF Page
  <2> QED
    BY <2>3, <2>4, <2>6
<1> QED
  BY <1>1, StoreInvariant, PTL

\* A record in a page of m_pages is found where it is.
LEMMA PlaceOf ==
  ASSUME FlashTyped(flash), NEW i \in DataSlots, slots[i].page \in Pages,
         NEW k \in ValidAt(flash, slots[i].page)
  PROVE  <<i, k>> \in Places(flash[slots[i].page].recs[k].id)
<1> DEFINE recs == flash[slots[i].page].recs
           w == <<i, k>>
<1>1. recs \in Seq(Record) /\ Len(recs) <= Cap /\ k \in DOMAIN recs /\ Valid(recs[k])
  BY DEF FlashTyped, Page, ValidAt
<1>2. k \in 1..Cap /\ k <= Len(recs)
  BY <1>1, FlashAssumption
<1>3. w \in DataSlots \X (1..Cap) /\ w[1] = i /\ w[2] = k
  BY <1>2
<1> QED
  BY <1>1, <1>2, <1>3 DEF Places

\* An update finds the record it replaces and no other: no valid record is
\* found in two places and, unless a boot has promoted the swap page, every one
\* is found in one.
THEOREM StoreUpdateFinds == Spec => []UpdateFindsRecord
<1>1. ASSUME IInv, pc \in {"idle", "write"}, ids.desc # 0
      PROVE  Places(ids.desc) # {}
  <2>1. FlashTyped(flash) /\ \A i \in DataSlots : slots[i].page \in Pages
    BY <1>1, RunFacts DEF RunSteps
  <2>2. op.kind \in {"create", "update"} \/ pc = "idle"
    BY <1>1 DEF IInv, Running, RunSteps, CollectSteps
  <2>3. Placed(flash, slots, ids.desc)
    BY <1>1, <2>2 DEF IInv, HeldPlaced, Numbered
  <2>4. PICK i \in DataSlots : ids.desc \in IdsIn(flash, slots[i].page)
    BY <2>3 DEF Placed, DataSlots
  <2>5. PICK k \in ValidAt(flash, slots[i].page) :
          flash[slots[i].page].recs[k].id = ids.desc
    BY <2>4 DEF IdsIn
  <2>6. <<i, k>> \in Places(flash[slots[i].page].recs[k].id)
    BY <2>1, PlaceOf
  <2> QED
    BY <2>5, <2>6
<1>2. ASSUME IInv, pc \in {"idle", "write"}, NEW id \in Live
      PROVE  Cardinality(Places(id)) <= 1
  <2>1. /\ Maps(slots, swap) /\ Typed
        /\ \A i \in DataSlots : slots[i].page \in Pages
    BY <1>2, RunFacts DEF RunSteps, IInv
  <2>2. UniqueIn(flash, Pages)
    BY <1>2 DEF IInv, Running, RunSteps
  <2>3. ASSUME NEW v \in Places(id), NEW w \in Places(id) PROVE v = w
    <3> DEFINE i == v[1]
               k == v[2]
               j == w[1]
               l == w[2]
    <3>1. /\ i \in DataSlots /\ k \in ValidAt(flash, slots[i].page)
          /\ flash[slots[i].page].recs[k].id = id
      BY <2>1, PlacesIs
    <3>2. /\ j \in DataSlots /\ l \in ValidAt(flash, slots[j].page)
          /\ flash[slots[j].page].recs[l].id = id
      BY <2>1, PlacesIs
    <3>3. v = <<i, k>> /\ w = <<j, l>>
      <4>1. v \in DataSlots \X (1..Cap) /\ w \in DataSlots \X (1..Cap)
        BY DEF Places
      <4> QED
        BY <4>1
    <3> HIDE DEF i, j, k, l
    <3>4. slots[i].page \in Pages /\ slots[j].page \in Pages
      BY <2>1, <3>1, <3>2
    <3>5. slots[i].page = slots[j].page /\ k = l
      BY <2>2, <3>1, <3>2, <3>4, AtMostOnce
    <3>6. i = j
      BY <2>1, <3>1, <3>2, <3>5 DEF Maps, DataSlots
    <3> QED
      BY <3>3, <3>5, <3>6
  <2>4. Places(id) = {} \/ \E w : Places(id) = {w}
    BY <2>3
  <2>5. Cardinality(Places(id)) \in {0, 1}
    BY <2>4, FS_EmptySet, FS_Singleton
  <2> QED
    BY <2>5
<1>3. ASSUME IInv, pc \in {"idle", "write"}, ~hist.promoted, NEW id \in Live
      PROVE  Places(id) # {}
  <2>1. /\ FlashTyped(flash) /\ Maps(slots, swap)
        /\ \A i \in DataSlots : slots[i].page \in Pages
    BY <1>3, RunFacts DEF RunSteps
  <2>2. flash[swap].recs = <<>>
    BY <1>3 DEF IInv, Running, RunSteps
  <2>3. id \in LiveIn(flash)
    BY <1>3, <2>1, LiveIs
  <2>4. Placed(flash, slots, id)
    BY <2>1, <2>2, <2>3, AllListed, EmptyPage
  <2>5. PICK i \in DataSlots : id \in IdsIn(flash, slots[i].page)
    BY <2>4 DEF Placed, DataSlots
  <2>6. PICK k \in ValidAt(flash, slots[i].page) : flash[slots[i].page].recs[k].id = id
    BY <2>5 DEF IdsIn
  <2>7. <<i, k>> \in Places(flash[slots[i].page].recs[k].id)
    BY <2>1, PlaceOf
  <2> QED
    BY <2>6, <2>7
<1>4. IInv => UpdateFindsRecord
  BY <1>1, <1>2, <1>3 DEF UpdateFindsRecord
<1> QED
  BY <1>4, StoreInvariant, PTL

\* While no update was torn the program works on the last write FILE_write
\* acknowledged, and a boot finds that one or the one under way.
THEOREM StoreAckedIsHeld == Spec => []AckedIsHeld
<1>1. ASSUME IInv, hist.torn = 0, pc = "idle"
      PROVE  ids.desc = hist.acked
  <2>1. \A i \in DataSlots : slots[i].page \in Pages
    BY <1>1, RunFacts DEF RunSteps
  <2>2. Placed(flash, slots, ids.desc)
    BY <1>1 DEF IInv, HeldPlaced
  <2>3. ids.desc \in LiveIn(flash)
    BY <2>1, <2>2 DEF Placed, LiveIn, DataSlots
  <2>4. LiveIn(flash) = {hist.acked} \ {0}
    BY <1>1 DEF IInv, Counted
  <2> QED
    BY <2>3, <2>4
<1>2. ASSUME IInv, hist.torn = 0, pc = "load"
      PROVE  Found >= hist.acked
  <2>1. \A i \in DataSlots : slots[i].page \in Pages /\ slots[i].type = "data"
    BY <1>2, RunFacts DEF RunSteps
  <2>0. Typed
    BY <1>2 DEF IInv
  <2>2. Found \in 0..MaxId /\ hist.acked \in 0..MaxId
    <3>1. Found \in 0..MaxId
      BY <2>0, <2>1, FoundIs
    <3>2. hist.acked \in 0..MaxId
      BY <2>0 DEF Typed
    <3> QED
      BY <3>1, <3>2
  <2>3. LiveIn(flash) = {hist.acked} \ {0}
    BY <1>2 DEF IInv, Counted
  <2>4. CASE hist.acked = 0
    BY <2>2, <2>4
  <2>5. CASE hist.acked # 0
    <3>1. LiveIn(flash) # {}
      BY <2>3, <2>5
    <3>2. \E i \in DataSlots : IdsIn(flash, slots[i].page) # {}
      BY <1>2, <3>1 DEF IInv, HeldPlaced
    <3>3. Placed(flash, slots, Found)
      BY <2>0, <2>1, <3>2, FoundIs
    <3>4. Found \in LiveIn(flash)
      BY <2>1, <3>3 DEF Placed, LiveIn, DataSlots
    <3>5. Found = hist.acked
      BY <2>3, <3>4
    <3> QED
      BY <2>2, <3>5
  <2> QED
    BY <2>4, <2>5
<1>3. IInv => AckedIsHeld
  BY <1>1, <1>2 DEF AckedIsHeld
<1> QED
  BY <1>3, StoreInvariant, PTL

\* Nothing but a power loss between an update's last header word and its dirty
\* mark leaves a valid record that nobody will retire, and each leaves one.
THEOREM StoreCountsOrphans == Spec => []OrphansAreCounted
<1>1. IInv => OrphansAreCounted
  <2> SUFFICES ASSUME IInv PROVE OrphansAreCounted
    OBVIOUS
  <2>1. Live = LiveIn(flash)
    BY LiveIs DEF IInv, Typed
  <2> QED
    BY <2>1 DEF IInv, Counted, OrphansAreCounted
<1> QED
  BY <1>1, StoreInvariant, PTL

(***************************************************************************)
(* The refinement of RecordSet.                                            *)
(***************************************************************************)
\* What RecordSet calls live are the valid records, by where they are.
LiveAgrees == Live = LiveIn(flash)

\* They are.
LEMMA AlwaysAgrees == IInv => LiveAgrees
  BY LiveIs DEF IInv, Typed, LiveAgrees

\* Before a step, and after it.
LEMMA LiveBeforeAfter ==
  IInv /\ [Next]_vars => Live = LiveIn(flash) /\ Live' = LiveIn(flash')
<1>1. IInv' => LiveAgrees'
  BY AlwaysAgrees, PTL
<1> QED
  BY <1>1, AlwaysAgrees, NextHolds DEF LiveAgrees

\* What a step does to the store's records, in RecordSet's terms.
Moved == Records!Next \/ (Live' = Live /\ Held' = Held)

\* The program holds no record, and the flash keeps its own.
LEMMA OffMoved ==
  ASSUME IInv, [Next]_vars, pc' # "finalize", ids'.desc = 0, LiveIn(flash') = LiveIn(flash)
  PROVE  Moved
<1>1. Held' = 0
  BY DEF Held
<1>2. Live' = Live
  BY LiveBeforeAfter
<1> QED
  BY <1>1, <1>2 DEF Moved, Records!Next, Records!PowerOff

\* It holds the one it held.
LEMMA SameMoved ==
  ASSUME IInv, [Next]_vars, pc # "finalize", pc' # "finalize", ids'.desc = ids.desc,
         LiveIn(flash') = LiveIn(flash)
  PROVE  Moved
<1>1. Held' = Held
  BY DEF Held
<1>2. Live' = Live
  BY LiveBeforeAfter
<1> QED
  BY <1>1, <1>2 DEF Moved

\* fds_init leaves the program without a record.
LEMMA BootMoved == IInv /\ [Next]_vars /\ (Boot \/ InitSteps) => Moved
<1> SUFFICES ASSUME IInv, [Next]_vars, Boot \/ InitSteps PROVE Moved
  OBVIOUS
<1>1. CASE Boot
  <2>1. InitStep # "finalize"
    BY InitStepIs
  <2>2. pc' # "finalize" /\ ids'.desc = 0 /\ flash' = flash
    BY <1>1, <2>1 DEF Boot
  <2> QED
    BY <2>2, OffMoved
<1>2. CASE InitSteps
  <2>1. pc \in {"eraseSwap", "promote", "tagSwap", "tagData"} /\ pc' # "finalize"
        /\ ids' = ids
    BY <1>2 DEF InitSteps, InitEraseSwap, InitPromote, InitTagSwap, InitTagData, InitDone
  <2>2. ids.desc = 0
    BY <2>1 DEF IInv, Booting
  <2>3. InitDone => flash' = flash
    BY DEF InitDone
  <2>4. LiveIn(flash') = LiveIn(flash)
    BY <1>2, <2>3, InitEraseSwapStep, InitPromoteStep, InitTagSwapStep, InitTagDataStep
    DEF InitSteps
  <2> QED
    BY <2>1, <2>2, <2>4, OffMoved
<1> QED
  BY <1>1, <1>2

\* FILE_load takes one that is there, if there is one.
LEMMA LoadMoved == IInv /\ [Next]_vars /\ Load => Moved
<1> SUFFICES ASSUME IInv, [Next]_vars, Load PROVE Moved
  OBVIOUS
<1>1. /\ pc = "load" /\ ids' = [ids EXCEPT !.desc = Found] /\ flash' = flash
      /\ pc' # "finalize"
  BY DEF Load
<1>2. ids.desc = 0 /\ Typed
  BY <1>1 DEF IInv, Numbered
<1>3. ids'.desc = Found
  BY <1>1, <1>2 DEF Typed
<1>4. CASE Found = 0
  BY <1>1, <1>3, <1>4, OffMoved
<1>5. CASE Found # 0
  <2>1. \A i \in DataSlots : slots[i].page \in Pages /\ slots[i].type = "data"
    BY <1>1, RunFacts DEF RunSteps
  <2>2. Placed(flash, slots, Found)
    BY <1>2, <1>5, <2>1, FoundIs
  <2>3. Found \in LiveIn(flash)
    BY <2>1, <2>2 DEF Placed, LiveIn, DataSlots
  <2>4. Held = 0 /\ Held' = Found
    BY <1>1, <1>2, <1>3 DEF Held
  <2>5. Live = LiveIn(flash) /\ Live' = LiveIn(flash)
    BY <1>1, LiveBeforeAfter
  <2> QED
    BY <2>3, <2>4, <2>5 DEF Moved, Records!Next, Records!Load
<1> QED
  BY <1>4, <1>5

\* Until the last header word the record that is replaced is the one held.
LEMMA WriteMoved == IInv /\ [Next]_vars /\ Write => Moved
<1> SUFFICES ASSUME IInv, [Next]_vars, Write PROVE Moved
  OBVIOUS
<1>1. pc = "write" /\ pc' = "finalize"
  BY DEF Write
<1>2. IInv' /\ LiveIn(flash') = LiveIn(flash)
  BY WriteStep
<1>3. op'.kind = "update" => flash'[slots'[op'.old].page].recs[op'.at].id = ids.desc
  BY WriteStep DEF KeepsOld
<1>4. op.kind = "create" => ids.desc = 0
  BY <1>1 DEF IInv, Numbered
<1>5. op.kind \in {"create", "update"}
  BY <1>1 DEF IInv, Running, RunSteps, CollectSteps
<1>6. op'.kind = op.kind
  BY DEF Write, IInv, Typed
<1>7. Held = ids.desc
  BY <1>1 DEF Held
<1>8. Held' = ids.desc
  BY <1>1, <1>3, <1>4, <1>5, <1>6 DEF Held
<1>9. Live' = Live
  BY <1>2, LiveBeforeAfter
<1> QED
  BY <1>7, <1>8, <1>9 DEF Moved

\* The new record joins, then the one it replaces leaves.
LEMMA ReplaceMoved == IInv /\ [Next]_vars /\ (Finalize \/ FlagDirty) => Moved
<1> SUFFICES ASSUME IInv, [Next]_vars, Finalize \/ FlagDirty PROVE Moved
  OBVIOUS
<1>1. Live = LiveIn(flash) /\ Live' = LiveIn(flash')
  BY LiveBeforeAfter
<1>2. CASE Finalize
  <2>1. pc' # "finalize" /\ ids' = ids
    BY <1>2 DEF Finalize
  <2>2. Held' = ids.desc
    BY <2>1 DEF Held
  <2>3. /\ ids.desc \notin LiveIn(flash) /\ ids.desc # 0
        /\ LiveIn(flash') = LiveIn(flash) \union {ids.desc}
    BY <1>2, FinalizeStep
  <2> QED
    BY <1>1, <2>2, <2>3 DEF Moved, Records!Next, Records!Add
<1>3. CASE FlagDirty
  <2>1. pc = "flag" /\ pc' = "idle" /\ ids' = ids
    BY <1>3 DEF FlagDirty
  <2>2. Held = ids.desc /\ Held' = ids.desc
    BY <2>1 DEF Held
  <2>3. \E r \in LiveIn(flash) \ {ids.desc} : LiveIn(flash') = LiveIn(flash) \ {r}
    BY <1>3, FlagDirtyStep
  <2> QED
    BY <1>1, <2>2, <2>3 DEF Moved, Records!Next, Records!Retire
<1> QED
  BY <1>2, <1>3

\* A collection is none of the program's business.
LEMMA GcMoved == IInv /\ [Next]_vars /\ GcSteps => Moved
<1> SUFFICES ASSUME IInv, [Next]_vars, GcSteps PROVE Moved
  OBVIOUS
<1>1. pc # "finalize" /\ pc' # "finalize" /\ ids' = ids
  BY DEF GcSteps, Collect, GcNextPage, GcCopy, GcErase, GcPromote, GcTagSwap
<1>2. Collect \/ GcNextPage => flash' = flash
  BY DEF Collect, GcNextPage
<1>3. LiveIn(flash') = LiveIn(flash)
  BY <1>2, GcCopyStep, GcEraseStep, GcPromoteStep, GcTagSwapStep DEF GcSteps
<1> QED
  BY <1>1, <1>3, SameMoved

\* Every step of the store is one of the set's or none.
LEMMA StoreMoves == IInv /\ [Next]_vars => Moved
<1> SUFFICES ASSUME IInv, [Next]_vars PROVE Moved
  OBVIOUS
<1>1. CASE Update
  <2>1. pc = "idle" /\ pc' = "write" /\ ids' = ids /\ flash' = flash
    BY <1>1 DEF Update
  <2> QED
    BY <2>1, SameMoved
<1>2. CASE PowerLoss
  <2>1. pc' = "off" /\ ids'.desc = 0 /\ flash' = flash
    BY <1>2 DEF PowerLoss
  <2> QED
    BY <2>1, OffMoved
<1>3. CASE UNCHANGED vars
  BY <1>3 DEF vars, Moved, Live, Held, ValidIn
<1> QED
  BY <1>1, <1>2, <1>3, BootMoved, LoadMoved, WriteMoved, ReplaceMoved, GcMoved
  DEF Next, WriteSteps

\* file.c on FDS keeps the promise of a set of records, through updates,
\* collections and power losses at any write: a new record joins before the
\* one it replaces leaves, a load takes one that is there, and nothing else
\* adds or removes one.
THEOREM StoreImplementsRecordSet == Spec => StoresRecords
<1>1. Init => Records!Init
  <2> SUFFICES ASSUME Init PROVE Live = {} /\ Held = 0
    BY DEF Records!Init
  <2>1. \A p \in Pages : flash[p].tag = "erased"
    BY DEF Init, Erased
  <2> QED
    BY <2>1 DEF Init, Live, Held
<1>2. IInv /\ [Next]_vars => [Records!Next]_(Records!vars)
  BY StoreMoves DEF Moved, Records!vars
<1> QED
  BY <1>1, <1>2, StoreInvariant, PTL DEF Spec, StoresRecords, Records!Spec
=============================================================================

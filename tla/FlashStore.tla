----------------------------- MODULE FlashStore -----------------------------
(***************************************************************************)
(* The file of the key object: file.c on the FDS record store (fds.c).     *)
(* Records are appended to data pages, an update marks the old one dirty   *)
(* after the new one is valid, and one swap page lets garbage collection   *)
(* copy what is valid and erase the rest.  A flash write is a step, and    *)
(* power may go before any of them; boot reads from the tags and the       *)
(* headers alone how far the last operation had come.                      *)
(*                                                                         *)
(* With the NVMC backend a write calls the event handler before it returns *)
(* so that the steps of an operation nest: what a function does after its  *)
(* write comes after the whole rest of the operation.                      *)
(*                                                                         *)
(* Abstractions: every record has the size of the key object, a page holds *)
(* Cap of them; a tag and an erase are atomic; the store holds one file.   *)
(***************************************************************************)
EXTENDS Naturals, Sequences, FiniteSets, FiniteSetsExt, Functions

CONSTANTS
  VirtualPages,   \* FDS_VIRTUAL_PAGES
  Cap,            \* records a page has room for
  MaxId,          \* bound: record ids
  MaxCuts         \* bound: power losses

ASSUME FlashAssumption ==
  /\ VirtualPages \in Nat /\ VirtualPages > 1
  /\ Cap \in Nat \ {0} /\ MaxId \in Nat \ {0} /\ MaxCuts \in Nat

VARIABLES
  flash,   \* per page its tag and its records
  slots,   \* m_pages: page, page_type, can_gc
  swap,    \* m_swap_page; 0 is NULL
  gc,      \* m_gc: cur_page, do_gc_page, p_record_src
  ids,     \* m_latest_rec_id and _recordDesc's record_id; 0: none
  pc,      \* the next flash write
  op,      \* the write: its kind, m_pages' index, what it replaces and where
  hist     \* history: last acknowledged record, power losses, those between
           \* the new record's last header word and the dirty mark, and
           \* whether a boot has promoted the swap page

vars == <<flash, slots, swap, gc, ids, pc, op, hist>>

Pages == 1..VirtualPages
DataSlots == DOMAIN slots
Erased == [tag |-> "erased", recs |-> <<>>]
NoGc == [cur |-> 1, todo |-> {}, src |-> 0]
NoOp == [kind |-> "none", dest |-> 0, old |-> 0, at |-> 0]
NoHistory == [acked |-> 0, cuts |-> 0, torn |-> 0, promoted |-> FALSE]

Init ==
  /\ flash = [p \in Pages |-> Erased]
  /\ slots = <<>> /\ swap = 0 /\ gc = NoGc
  /\ ids = [latest |-> 0, desc |-> 0]
  /\ pc = "off" /\ op = NoOp /\ hist = NoHistory

(***************************************************************************)
(* Pages and records.                                                      *)
(***************************************************************************)
\* header_check: an open record counts as dirty.
Valid(r) == r.state = "valid"
ValidIn(p) == {r.id : r \in {q \in Range(flash[p].recs) : Valid(q)}}

\* Flash bits are only cleared: a swap page becomes a data page, not back.
Tagged(tag, new) == IF tag = "data" THEN tag ELSE new
WriteTag(p, tag) == flash' = [flash EXCEPT ![p].tag = Tagged(@, tag)]

\* Mutant of HasRoom: one record too many.
HasRoomForOneMore(s) == s.type = "data" /\ Len(flash[s.page].recs) <= Cap

\* page_has_space
HasRoom(s) == s.type = "data" /\ Len(flash[s.page].recs) < Cap

\* record_find: the first valid record of the data pages, in m_pages' order.
Found ==
  LET seen == {i \in DataSlots : slots[i].type = "data" /\ ValidIn(slots[i].page) # {}}
  IN  IF seen = {} THEN 0
      ELSE LET recs == flash[slots[Min(seen)].page].recs
           IN  recs[Min({k \in DOMAIN recs : Valid(recs[k])})].id

\* record_find_by_desc: where the record is, as <<slot, index>>.
Places(id) ==
  {w \in DataSlots \X (1..Cap) :
     LET recs == flash[slots[w[1]].page].recs
     IN  w[2] <= Len(recs) /\ Valid(recs[w[2]]) /\ recs[w[2]].id = id}

(***************************************************************************)
(* fds_init.  pages_init reads the pages in order.                         *)
(***************************************************************************)
Slot(p, type) ==
  [page |-> p, type |-> type,
   canGc |-> type = "data" /\ \E r \in Range(flash[p].recs) : ~Valid(r)]

\* Mutant of SeePage: the erased page before the swap page is forgotten.
SeePageForgets(a, p) ==
  CASE flash[p].tag = "erased" /\ a.swap = 0 -> [a EXCEPT !.swap = p, !.lost = TRUE]
    [] flash[p].tag = "erased" /\ a.swap # 0 ->
         [a EXCEPT !.slots = Append(@, Slot(p, "erased")), !.cur = Len(a.slots) + 1]
    [] flash[p].tag = "data" -> [a EXCEPT !.slots = Append(@, Slot(p, "data"))]
    [] flash[p].tag = "swap" -> [a EXCEPT !.swap = p]

SeePage(a, p) ==
  CASE flash[p].tag = "erased" /\ a.swap = 0 -> [a EXCEPT !.swap = p, !.lost = TRUE]
    [] flash[p].tag = "erased" /\ a.swap # 0 ->
         [a EXCEPT !.slots = Append(@, Slot(p, "erased")), !.cur = Len(a.slots) + 1]
    [] flash[p].tag = "data" -> [a EXCEPT !.slots = Append(@, Slot(p, "data"))]
    [] flash[p].tag = "swap" ->
         [a EXCEPT !.slots = IF a.lost THEN Append(@, Slot(a.swap, "erased")) ELSE @,
                   !.swap = p]

NothingSeen == [slots |-> <<>>, swap |-> 0, lost |-> FALSE, cur |-> 1]

\* What m_pages, m_swap_page and m_gc are after the first n pages.
Seen[n \in 0..VirtualPages] ==
  IF n = 0 THEN NothingSeen ELSE SeePage(Seen[n - 1], n)

PagesInit == Seen[VirtualPages]

\* What pages_init returns.
Has(tag) == \E p \in Pages : flash[p].tag = tag
SwapDirty == \E p \in Pages : flash[p].tag = "swap" /\ flash[p].recs # <<>>

\* Mutant of InitStep: a dirty swap is never promoted.
InitStepNoPromote ==
  CASE ~Has("swap") /\ Has("erased") -> "tagSwap"
    [] ~Has("swap") /\ ~Has("erased") -> "dead"
    [] SwapDirty -> "eraseSwap"
    [] ~SwapDirty /\ Has("swap") /\ Has("erased") -> "tagData"
    [] ~SwapDirty /\ Has("swap") /\ ~Has("erased") -> "load"

\* The first step of FDS_OP_INIT; "dead": FDS_ERR_NO_PAGES, no swap page.
InitStep ==
  CASE ~Has("swap") /\ Has("erased") -> "tagSwap"
    [] ~Has("swap") /\ ~Has("erased") -> "dead"
    [] SwapDirty /\ Has("erased") -> "promote"
    [] SwapDirty /\ ~Has("erased") -> "eraseSwap"
    [] ~SwapDirty /\ Has("swap") /\ Has("erased") -> "tagData"
    [] ~SwapDirty /\ Has("swap") /\ ~Has("erased") -> "load"

\* Mutant of LatestId: the count of ids starts again at every boot.
LatestIdForgotten == 0

LatestId ==
  LET known == UNION {ValidIn(p) : p \in {q \in Pages : flash[q].tag # "erased"}}
  IN  IF known = {} THEN 0 ELSE Max(known)

Boot ==
  /\ pc = "off"
  /\ slots' = PagesInit.slots /\ swap' = PagesInit.swap
  /\ gc' = [NoGc EXCEPT !.cur = PagesInit.cur]
  /\ ids' = [latest |-> LatestId, desc |-> 0]
  /\ pc' = InitStep
  /\ UNCHANGED <<flash, op, hist>>

\* The steps of init_execute.
InitEraseSwap ==
  /\ pc = "eraseSwap"
  /\ flash' = [flash EXCEPT ![swap] = Erased]
  /\ pc' = "tagSwap"
  /\ UNCHANGED <<slots, swap, gc, ids, op, hist>>

\* The exchange of the two pages comes after the write, and so after the steps
\* nested in it: InitDone makes it.
InitPromote ==
  /\ pc = "promote"
  /\ WriteTag(swap, "data")
  /\ op' = [op EXCEPT !.kind = "promote"]
  /\ pc' = "tagSwap"
  /\ hist' = [hist EXCEPT !.promoted = TRUE]
  /\ UNCHANGED <<slots, swap, gc, ids>>

InitTagSwap ==
  /\ pc = "tagSwap"
  /\ WriteTag(swap, "swap")
  /\ pc' = "tagData"
  /\ UNCHANGED <<slots, swap, gc, ids, op, hist>>

ErasedSlots == {i \in DataSlots : slots[i].type = "erased"}

InitTagData ==
  /\ pc = "tagData" /\ ErasedSlots # {}
  /\ LET i == Min(ErasedSlots)
     IN  /\ slots' = [slots EXCEPT ![i].type = "data"]
         /\ WriteTag(slots[i].page, "data")
  /\ UNCHANGED <<swap, gc, ids, pc, op, hist>>

InitDone ==
  /\ pc = "tagData" /\ ErasedSlots = {}
  /\ IF op.kind = "promote"
     THEN /\ swap' = slots[gc.cur].page
          /\ slots' = [slots EXCEPT ![gc.cur].page = swap, ![gc.cur].type = "data"]
     ELSE UNCHANGED <<swap, slots>>
  /\ op' = NoOp
  /\ pc' = "load"
  /\ UNCHANGED <<flash, gc, ids, hist>>

(***************************************************************************)
(* file.c.  FILE_load, and at first boot the file's creation.              *)
(***************************************************************************)
Load ==
  /\ pc = "load"
  /\ ids' = [ids EXCEPT !.desc = Found]
  /\ IF Found = 0
     THEN pc' = "write" /\ op' = [op EXCEPT !.kind = "create"]
     ELSE pc' = "idle" /\ UNCHANGED op
  /\ UNCHANGED <<flash, slots, swap, gc, hist>>

Update ==
  /\ pc = "idle"
  /\ ids.latest < MaxId
  /\ pc' = "write" /\ op' = [op EXCEPT !.kind = "update"]
  /\ UNCHANGED <<flash, slots, swap, gc, ids, hist>>

\* FILE_write: fds_record_write or _update takes a page and the next id, and
\* an update looks the old record up; with no room, collect and try again.
\* An update that missed its record would raise an error event, which resets:
\* UpdateFindsRecord says it never does.
Rooms == {i \in DataSlots : HasRoom(slots[i])}

Write ==
  /\ pc = "write" /\ Rooms # {}
  /\ ids.latest < MaxId
  /\ ids' = [latest |-> ids.latest + 1, desc |-> ids.latest + 1]
  /\ LET dest == Min(Rooms)
     IN  IF op.kind = "update"
         THEN \E w \in Places(ids.desc) :
                /\ \A v \in Places(ids.desc) : w[1] < v[1] \/ (w[1] = v[1] /\ w[2] <= v[2])
                /\ op' = [op EXCEPT !.dest = dest, !.old = w[1], !.at = w[2]]
         ELSE op' = [op EXCEPT !.dest = dest]
  /\ flash' = [flash EXCEPT ![slots[Min(Rooms)].page].recs =
                 Append(@, [id |-> ids.latest + 1, state |-> "open"])]
  /\ pc' = "finalize"
  /\ UNCHANGED <<slots, swap, gc, hist>>

\* Mutant of Finalize: the update is acknowledged when the record is valid.
FinalizeEarlyAck ==
  /\ pc = "finalize"
  /\ LET p == slots[op.dest].page
     IN  flash' = [flash EXCEPT ![p].recs[Len(flash[p].recs)].state = "valid"]
  /\ pc' = "idle" /\ op' = NoOp /\ hist' = [hist EXCEPT !.acked = ids.desc]
  /\ UNCHANGED <<slots, swap, gc, ids>>

\* The last header word makes the record valid.
Finalize ==
  /\ pc = "finalize"
  /\ LET p == slots[op.dest].page
     IN  flash' = [flash EXCEPT ![p].recs[Len(flash[p].recs)].state = "valid"]
  /\ IF op.kind = "update"
     THEN pc' = "flag" /\ UNCHANGED <<op, hist>>
     ELSE pc' = "idle" /\ op' = NoOp /\ hist' = [hist EXCEPT !.acked = ids.desc]
  /\ UNCHANGED <<slots, swap, gc, ids>>

\* Mutant of FlagDirty: the page is not marked for collection.
FlagDirtyOnly ==
  /\ pc = "flag"
  /\ flash' = [flash EXCEPT ![slots[op.old].page].recs[op.at].state = "dirty"]
  /\ slots' = slots
  /\ pc' = "idle" /\ op' = NoOp /\ hist' = [hist EXCEPT !.acked = ids.desc]
  /\ UNCHANGED <<swap, gc, ids>>

FlagDirty ==
  /\ pc = "flag"
  /\ flash' = [flash EXCEPT ![slots[op.old].page].recs[op.at].state = "dirty"]
  /\ slots' = [slots EXCEPT ![op.old].canGc = TRUE]
  /\ pc' = "idle" /\ op' = NoOp /\ hist' = [hist EXCEPT !.acked = ids.desc]
  /\ UNCHANGED <<swap, gc, ids>>

(***************************************************************************)
(* Garbage collection.                                                     *)
(***************************************************************************)
\* gc_init.  Where a page that holds records is taken for the swap page they
\* would be written over: the model stops there.
Collect ==
  /\ pc = "write" /\ Rooms = {}
  /\ gc' = [NoGc EXCEPT !.todo = {i \in DataSlots : slots[i].type = "data"}]
  /\ pc' = IF flash[swap].recs = <<>> THEN "gcNext" ELSE "overlaid"
  /\ UNCHANGED <<flash, slots, swap, ids, op, hist>>

\* gc_page_next; when no page is left, FILE_write starts over.
Collectable == {i \in gc.todo : slots[i].canGc}

GcNextPage ==
  /\ pc = "gcNext"
  /\ IF Collectable = {}
     THEN gc' = NoGc /\ pc' = "write"
     ELSE LET i == Min(Collectable)
          IN  /\ gc' = [gc EXCEPT !.cur = i, !.todo = {j \in @ : j > i}]
              /\ pc' = "gcCopy"
  /\ UNCHANGED <<flash, slots, swap, ids, op, hist>>

\* The records of the page that are still to be copied, by their index.
ToCopy ==
  LET recs == flash[slots[gc.cur].page].recs
  IN  {k \in DOMAIN recs : k > gc.src /\ Valid(recs[k])}

GcCopy ==
  /\ pc = "gcCopy" /\ ToCopy # {}
  /\ flash' = [flash EXCEPT ![swap].recs =
                 Append(@, flash[slots[gc.cur].page].recs[Min(ToCopy)])]
  /\ gc' = [gc EXCEPT !.src = Min(ToCopy)]
  /\ UNCHANGED <<slots, swap, ids, pc, op, hist>>

\* gc_page_erase, then gc_swap_pages in RAM.
GcErase ==
  /\ pc = "gcCopy" /\ ToCopy = {}
  /\ flash' = [flash EXCEPT ![slots[gc.cur].page] = Erased]
  /\ swap' = slots[gc.cur].page
  /\ slots' = [slots EXCEPT ![gc.cur].page = swap]
  /\ pc' = "gcPromote"
  /\ UNCHANGED <<gc, ids, op, hist>>

GcPromote ==
  /\ pc = "gcPromote"
  /\ WriteTag(slots[gc.cur].page, "data")
  /\ pc' = "gcTag"
  /\ UNCHANGED <<slots, swap, gc, ids, op, hist>>

\* Mutant of GcTagSwap: the search does not restart at the page's beginning.
GcTagSwapKeepSrc ==
  /\ pc = "gcTag"
  /\ WriteTag(swap, "swap")
  /\ pc' = "gcNext"
  /\ UNCHANGED <<slots, swap, gc, ids, op, hist>>

GcTagSwap ==
  /\ pc = "gcTag"
  /\ WriteTag(swap, "swap")
  /\ gc' = [gc EXCEPT !.src = 0]
  /\ pc' = "gcNext"
  /\ UNCHANGED <<slots, swap, ids, op, hist>>

(***************************************************************************)
(* Power.  What is in RAM is gone; flash stays as it is.                   *)
(***************************************************************************)
PowerLoss ==
  /\ pc \notin {"off", "dead", "overlaid"}
  /\ hist.cuts < MaxCuts
  /\ pc' = "off"
  /\ slots' = <<>> /\ swap' = 0 /\ gc' = NoGc /\ op' = NoOp
  /\ ids' = [latest |-> 0, desc |-> 0]
  /\ hist' = [hist EXCEPT !.cuts = @ + 1,
                          !.torn = IF pc = "flag" THEN @ + 1 ELSE @]
  /\ UNCHANGED flash

InitSteps == InitEraseSwap \/ InitPromote \/ InitTagSwap \/ InitTagData \/ InitDone
WriteSteps == Write \/ Finalize \/ FlagDirty
GcSteps == Collect \/ GcNextPage \/ GcCopy \/ GcErase \/ GcPromote \/ GcTagSwap

Next == Boot \/ InitSteps \/ Load \/ Update \/ WriteSteps \/ GcSteps \/ PowerLoss

Spec == Init /\ [][Next]_vars

\* The processor goes on; the application need not write, power need not fail.
Works == Boot \/ InitSteps \/ Load \/ WriteSteps \/ GcSteps
FairSpec == Spec /\ WF_vars(Works)

(***************************************************************************)
(* Properties.                                                             *)
(***************************************************************************)
Live == UNION {ValidIn(p) : p \in {q \in Pages : flash[q].tag # "erased"}}

\* The record an update replaces, until it is retired.
Held ==
  IF pc # "finalize" THEN ids.desc
  ELSE IF op.kind = "update" THEN flash[slots[op.old].page].recs[op.at].id
  ELSE 0

Records == INSTANCE RecordSet WITH live <- Live, held <- Held, NoRecord <- 0

\* The store keeps the promise of RecordSet through updates, collections and
\* power losses at any write, the promotion of the swap page included.
StoresRecords == Records!Spec

Steps == {"off", "dead", "overlaid", "eraseSwap", "promote", "tagSwap", "tagData",
          "load", "idle", "write", "finalize", "flag", "gcNext", "gcCopy",
          "gcPromote", "gcTag"}

\* Types; no page holds more records than fit, the swap page a collection
\* copies to without asking included.
TypeOK ==
  /\ \A p \in Pages :
       /\ flash[p].tag \in {"erased", "swap", "data"}
       /\ Len(flash[p].recs) <= Cap
       /\ \A r \in Range(flash[p].recs) :
            r.id \in 1..MaxId /\ r.state \in {"open", "valid", "dirty"}
  /\ Len(slots) <= VirtualPages /\ swap \in 0..VirtualPages
  /\ gc.cur \in Pages /\ gc.todo \subseteq DataSlots
  /\ ids \in [latest : 0..MaxId, desc : 0..MaxId]
  /\ pc \in Steps
  /\ hist \in [acked : 0..MaxId, cuts : 0..MaxCuts, torn : 0..MaxCuts,
              promoted : BOOLEAN]

\* Whenever the file may be written, RAM and flash agree on the one swap page,
\* it is empty, and every other page is a data page: the next boot has a swap
\* page, and the next collection room for what it copies. (After a promotion:
\* SwapAfterInit.)
OneSwap ==
  pc = "idle" /\ ~hist.promoted =>
    /\ {p \in Pages : flash[p].tag # "data"} = {swap}
    /\ flash[swap] = [tag |-> "swap", recs |-> <<>>]
    /\ {slots[i].page : i \in DataSlots} = Pages \ {swap}

\* An update retires the record it replaces and no other: the record the
\* program holds is where an update looks for it, no valid record is found in
\* two places, and every one is found in one.  (A promotion may take a data
\* page for the swap page, which leaves its records out of m_pages.)
UpdateFindsRecord ==
  /\ pc \in {"idle", "write"} /\ ids.desc # 0 => Places(ids.desc) # {}
  /\ pc \in {"idle", "write"} => \A id \in Live : Cardinality(Places(id)) <= 1
  /\ pc \in {"idle", "write"} /\ ~hist.promoted => \A id \in Live : Places(id) # {}

\* What the program works on is the last write FILE_write acknowledged, and a
\* boot finds that one or the write under way, unless power went between an
\* update's last header word and its dirty mark.  It may go anywhere else,
\* between a collection's erase and its promotion included.
AckedIsHeld ==
  hist.torn = 0 =>
    /\ pc = "idle" => ids.desc = hist.acked
    /\ pc = "load" => Found >= hist.acked

\* A valid record nobody will retire is left by nothing but a power loss
\* between an update's last header word and its dirty mark.
OrphansAreCounted ==
  Cardinality(Live) <= 1 + hist.torn + (IF pc = "flag" THEN 1 ELSE 0)

\* FILE_write returns: with room for one more valid record collecting makes
\* it, so that FILE_write does not call itself for ever (unless power fails, or
\* a promotion has cost the swap page).
WriteReturns ==
  pc = "write" /\ ~hist.promoted /\ Cardinality(Live) < (VirtualPages - 1) * Cap
    ~> pc \in {"idle", "off"}

\* FILE_write returns, whatever torn updates have left.
WriteAlwaysReturns == pc = "write" /\ ~hist.promoted ~> pc \in {"idle", "off"}

\* After a promotion too, one page is tagged as swap.
SwapAfterInit == pc = "load" => \E p \in Pages : flash[p].tag = "swap"

\* The page a promotion takes for the new swap page is erased.
PromoteTakesErased ==
  pc = "promote" => slots[gc.cur].type = "erased"

\* The program works on a record at least as recent as the last acknowledged.
LoadIsLatest == pc = "idle" => ids.desc >= hist.acked
=============================================================================

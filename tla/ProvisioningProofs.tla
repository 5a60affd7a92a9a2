------------------------- MODULE ProvisioningProofs -------------------------
(***************************************************************************)
(* Provisioning's safety properties for every set of paths, with a sensor  *)
(* that answers and with one that may not.                                 *)
(***************************************************************************)
EXTENDS Provisioning, TLAPS

(***************************************************************************)
(* The inductive invariant.  RAM holds what is stored except while a new   *)
(* device makes its first object.  An unlock under way is authorised, and  *)
(* once its erase is confirmed the finger is gone and hist says so.  An    *)
(* authorisation in the ready state comes from a finger or is a leftover   *)
(* of an operation that was cut short.                                     *)
(***************************************************************************)
RamIsStored ==
  /\ pc \notin {"off", "first", "create"} => ram = stored /\ stored \in Keys
  /\ pc = "first" => stored = NoKey
  /\ pc = "create" => /\ stored = NoKey /\ ram \in Keys /\ ~finger
                      /\ ram.pin = "default" /\ ram.note = "empty"

UnlockUnderWay ==
  /\ pc \in {"erase", "pin", "note"} => dev.auth
  /\ pc \in {"pin", "note"} => ~finger /\ hist.partial
  /\ pc = "note" => stored.pin = "default"
  /\ (pc = "ready" /\ dev.auth) => finger \/ hist.partial

Inv ==
  /\ TypeOK /\ UnlockedIsClear /\ LockFlagIsCurrent
  /\ RamIsStored /\ UnlockUnderWay

\* No key is a key of the owner.
LEMMA NoKeyNotKey == NoKey \notin Keys
<1> SUFFICES ASSUME NoKey \in Keys PROVE FALSE
  OBVIOUS
<1>1. NoKey.pin \in {"default", "set"}
  BY DEF Keys
<1> QED BY <1>1 DEF NoKey

\* A new path, wherever it is put, leaves PIN and note alone.
LEMMA RekeyedType ==
  ASSUME NEW k \in Keys, NEW p \in Paths, NEW d \in Paths
  PROVE  /\ Rekeyed(k, p, d) \in Keys
         /\ Rekeyed(k, p, d).pin = k.pin /\ Rekeyed(k, p, d).note = k.note
<1> DEFINE a == [k EXCEPT !.path = p]
<1>1. a \in Keys /\ a.path = p /\ a.pin = k.pin /\ a.note = k.note
  BY DEF Keys
<1> HIDE DEF a
<1>2. /\ [a EXCEPT !.derived = d] \in Keys
      /\ [a EXCEPT !.derived = d].pin = k.pin
      /\ [a EXCEPT !.derived = d].note = k.note
  BY <1>1 DEF Keys
<1> QED BY <1>2 DEF Rekeyed, a

\* A device relocked is typed, with the lock state it was given and no
\* authorisation.
LEMMA RelockedType ==
  ASSUME NEW d \in Devices, NEW locked \in BOOLEAN
  PROVE  /\ Relocked(d, locked) \in Devices
         /\ Relocked(d, locked).locked = locked
         /\ Relocked(d, locked).auth = FALSE
<1> DEFINE a == [d EXCEPT !.locked = locked]
<1>1. a \in Devices /\ a.locked = locked
  BY DEF Devices
<1> HIDE DEF a
<1>2. /\ [a EXCEPT !.auth = FALSE] \in Devices
      /\ [a EXCEPT !.auth = FALSE].locked = locked
      /\ [a EXCEPT !.auth = FALSE].auth = FALSE
  BY <1>1 DEF Devices
<1> QED BY <1>2 DEF Relocked, a

\* The invariant holds at the start.
LEMMA InitInv == Init => Inv
  BY DEF Init, Inv, TypeOK, UnlockedIsClear, DevReset,
         LockFlagIsCurrent, RamIsStored, UnlockUnderWay, NoKey, Steps, Devices

\* The invariant is inductive.
LEMMA NextInv == Inv /\ [Next]_vars => Inv'
<1> SUFFICES ASSUME Inv, [Next]_vars PROVE Inv'
  OBVIOUS
<1> USE NoKeyNotKey
    DEF Inv, TypeOK, UnlockedIsClear, LockFlagIsCurrent,
        RamIsStored, UnlockUnderWay, Steps, DevReset
<1>1. CASE PowerUp
  BY <1>1 DEF PowerUp
<1>2. CASE FirstBoot
  <2>1. CASE finger' = FALSE /\ (\E p \in Paths : ram' = FreshKey(p)) /\ pc' = "create"
    <3>1. ram' \in Keys /\ ram'.pin = "default" /\ ram'.note = "empty"
      BY <2>1 DEF FreshKey, Keys
    <3> QED BY <1>2, <2>1, <3>1 DEF FirstBoot
  <2>2. CASE EraseFailed /\ pc' = "off" /\ ram' = NoKey
    BY <1>2, <2>2 DEF FirstBoot, EraseFailed
  <2> QED BY <1>2, <2>1, <2>2 DEF FirstBoot, Erased
<1>3. CASE Create
  BY <1>3 DEF Create, Save
<1>4. CASE Count
  <2>1. PICK locked \in BOOLEAN :
          /\ Counted(locked)
          /\ dev' = [DevReset EXCEPT !.locked = locked]
          /\ hist' = [hist EXCEPT !.misled = locked # finger]
    BY <1>4 DEF Count
  <2>2. /\ dev' \in Devices /\ dev'.locked = locked /\ dev'.auth = FALSE
        /\ hist' \in [partial : BOOLEAN, misled : BOOLEAN]
        /\ hist'.partial = hist.partial /\ hist'.misled = (locked # finger)
    BY <2>1 DEF Devices
  <2>3. locked => finger
    BY <2>1 DEF Counted
  <2> QED BY <1>4, <2>2, <2>3 DEF Count
<1>5. CASE Authorize
  <2>1. dev' \in Devices /\ dev'.auth = TRUE /\ dev'.locked = dev.locked
    BY <1>5 DEF Authorize, Devices
  <2>2. finger \/ hist.partial
    BY <1>5 DEF Authorize, MayAuthorize
  <2> QED BY <1>5, <2>1, <2>2 DEF Authorize
<1>6. CASE Change
  <2>1. dev' \in Devices /\ dev'.auth = FALSE /\ dev'.locked = dev.locked
    BY <1>6 DEF Change, Devices
  <2>2. stored' \in Keys /\ ram' = stored'
    <3>1. ASSUME NEW p \in Paths, NEW d \in Paths, Save(Rekeyed(ram, p, d))
          PROVE  stored' \in Keys /\ ram' = stored'
      BY <1>6, <3>1, RekeyedType DEF Change, Save
    <3>2. CASE Save([ram EXCEPT !.pin = "set"])
      BY <1>6, <3>2 DEF Change, Save, Keys
    <3>3. CASE \E n \in {"empty", "set"} : Save([ram EXCEPT !.note = n])
      BY <1>6, <3>3 DEF Change, Save, Keys
    <3>4. CASE UNCHANGED <<ram, stored>>
      BY <1>6, <3>4 DEF Change
    <3> QED BY <1>6, <3>1, <3>2, <3>3, <3>4 DEF Change
  <2>3. finger \/ hist.partial
    BY <1>6 DEF Change
  <2> QED BY <1>6, <2>1, <2>2, <2>3 DEF Change
<1>7. CASE Lock
  <2>1. /\ hist' \in [partial : BOOLEAN, misled : BOOLEAN]
        /\ hist'.partial = (hist.partial \/ (finger /\ ~finger'))
    BY <1>7 DEF Lock
  <2>2. dev' \in Devices
    BY <1>7 DEF Lock, Devices
  <2> QED BY <1>7, <2>1, <2>2 DEF Lock
<1>8. CASE Unlock
  BY <1>8 DEF Unlock, MayUnlock
<1>9. CASE ConfirmReset
  <2>1. dev' \in Devices /\ dev'.auth = TRUE
    <3> DEFINE a == [dev EXCEPT !.auth = TRUE]
    <3>1. a \in Devices /\ a.auth = TRUE
      BY DEF Devices
    <3> HIDE DEF a
    <3>2. [a EXCEPT !.reset = TRUE] \in Devices
          /\ [a EXCEPT !.reset = TRUE].auth = TRUE
      BY <3>1 DEF Devices
    <3>3. dev' = [a EXCEPT !.reset = TRUE]
      BY <1>9 DEF ConfirmReset, a
    <3> QED BY <3>2, <3>3
  <2> QED BY <1>9, <2>1 DEF ConfirmReset
<1>10. CASE Erase
  <2>1. CASE Erased /\ pc' = "pin" /\ hist' = [hist EXCEPT !.partial = TRUE]
    <3>1. /\ hist' \in [partial : BOOLEAN, misled : BOOLEAN]
          /\ hist'.partial = TRUE
      BY <2>1
    <3> QED BY <1>10, <2>1, <3>1 DEF Erase, Erased
  <2>2. CASE /\ EraseFailed /\ pc' = "recount"
             /\ hist' = [hist EXCEPT !.partial = @ \/ ~finger']
    <3>1. /\ hist' \in [partial : BOOLEAN, misled : BOOLEAN]
          /\ hist'.partial = (hist.partial \/ ~finger')
      BY <2>2, <1>10 DEF Erase
    <3> QED BY <1>10, <2>2, <3>1 DEF Erase, EraseFailed
  <2> QED BY <1>10, <2>1, <2>2 DEF Erase
<1>11. CASE ClearPin
  <2>1. /\ stored' \in Keys /\ ram' = stored' /\ stored'.pin = "default"
        /\ stored'.note = stored.note
    BY <1>11 DEF ClearPin, Save, ClearedPin, Keys
  <2> QED BY <1>11, <2>1 DEF ClearPin
<1>12. CASE ClearNote
  <2>1. /\ stored' \in Keys /\ ram' = stored' /\ stored'.pin = "default"
        /\ stored'.note = "empty"
    BY <1>12 DEF ClearNote, Save, Keys
  <2>2. /\ hist' \in [partial : BOOLEAN, misled : BOOLEAN]
    BY <1>12 DEF ClearNote
  <2> QED BY <1>12, <2>1, <2>2 DEF ClearNote
<1>13. CASE Recount
  <2>1. PICK locked \in BOOLEAN :
          /\ Counted(locked)
          /\ dev' = Relocked(dev, locked)
          /\ hist' = [hist EXCEPT !.misled = locked # finger]
    BY <1>13 DEF Recount
  <2>2. dev' \in Devices /\ dev'.locked = locked /\ dev'.auth = FALSE
    BY <2>1, RelockedType
  <2>3. /\ hist' \in [partial : BOOLEAN, misled : BOOLEAN]
        /\ hist'.partial = hist.partial /\ hist'.misled = (locked # finger)
    BY <2>1
  <2>4. locked => finger
    BY <2>1 DEF Counted
  <2> QED BY <1>13, <2>2, <2>3, <2>4 DEF Recount
<1>14. CASE Rekey
  <2>1. PICK p \in Paths : Save(Rekeyed(ram, p, p))
    BY <1>14 DEF Rekey
  <2>2. /\ stored' \in Keys /\ ram' = stored'
        /\ stored'.pin = stored.pin /\ stored'.note = stored.note
    BY <1>14, <2>1, RekeyedType DEF Rekey, Save
  <2> QED BY <1>14, <2>2 DEF Rekey
<1>15. CASE PowerLoss
  BY <1>15 DEF PowerLoss, Devices
<1>16. CASE UNCHANGED vars
  BY <1>16 DEF vars
<1> QED BY <1>1, <1>2, <1>3, <1>4, <1>5, <1>6, <1>7, <1>8, <1>9, <1>10, <1>11,
           <1>12, <1>13, <1>14, <1>15, <1>16 DEF Next

\* Without a finger there is no PIN and no note, unless an operation was cut.
THEOREM ProvisionedClear == Spec => []UnlockedIsClear
  BY InitInv, NextInv, PTL DEF Spec, Inv

\* The lock flag follows the sensor.
THEOREM ProvisionedLock == Spec => []LockFlagIsCurrent
  BY InitInv, NextInv, PTL DEF Spec, Inv

\* Every variable stays in its type, whatever OTK_init reads from the sensor.
THEOREM ProvisionedTypes == Spec => []TypeOK
<1>1. Inv => TypeOK
  BY DEF Inv
<1> QED BY <1>1, InitInv, NextInv, PTL DEF Spec

\* Fingers are erased and the object is changed with an authorisation.
THEOREM ProvisionedChange == Spec => ChangeIsAuthorized
<1>1. ASSUME Inv, [Next]_vars
      PROVE  [(stored # NoKey /\ pc # "rekey" /\ ~hist.misled /\
               (stored' # stored \/ (finger /\ ~finger'))) => dev.auth]_vars
  <2> SUFFICES ASSUME Next, stored # NoKey, pc # "rekey", ~hist.misled,
                      stored' # stored \/ (finger /\ ~finger')
               PROVE  dev.auth
    BY <1>1
  <2>1. CASE Lock
    BY <1>1, <2>1 DEF Lock, Inv, LockFlagIsCurrent
  <2>2. CASE Erase \/ ClearPin \/ ClearNote
    BY <1>1, <2>2 DEF Erase, ClearPin, ClearNote, Inv, UnlockUnderWay
  <2>3. CASE Change
    BY <2>3 DEF Change
  <2>4. CASE FirstBoot \/ Create
    BY <1>1, <2>4 DEF FirstBoot, Create, Inv, RamIsStored
  <2> QED
    BY <2>1, <2>2, <2>3, <2>4
    DEF Next, PowerUp, Count, Authorize, Unlock, ConfirmReset, Recount, Rekey,
        PowerLoss
<1> QED BY <1>1, InitInv, NextInv, PTL DEF Spec, ChangeIsAuthorized
=============================================================================

---------------------------- MODULE Provisioning ----------------------------
(***************************************************************************)
(* What the device stores for its owner, and how the operations of otk.c   *)
(* that take several steps treat it: first boot, lock, unlock and reset    *)
(* touch the fingerprint sensor and the key object one after the other.    *)
(* Every save is a step, power may go between any two, and the sensor may  *)
(* leave a command unanswered, executed or not.                            *)
(*                                                                         *)
(* A save replaces the stored object at once.  The counters of failed PINs *)
(* in the same object are PinLimiter's subject.                            *)
(***************************************************************************)
EXTENDS Naturals

CONSTANTS
  Paths,   \* derivative key paths
  Mute     \* the sensor may leave commands unanswered

ASSUME PathsAssumption == Paths # {} /\ Mute \in BOOLEAN

VARIABLES
  pc,       \* the next step of the operation under way
  ram,      \* _keyObj
  stored,   \* the saved object; NoKey on a new device
  finger,   \* the sensor holds an enrolled finger
  dev,      \* m_otk_isLocked, m_otk_isAuthorized, a reset was confirmed
  hist      \* history: a finger was erased and the PIN and note were not
            \* reset after it; the lock flag is a count that failed

vars == <<pc, ram, stored, finger, dev, hist>>

Steps == {"off", "first", "create", "count", "ready", "erase", "pin", "note",
          "recount", "rekey", "rekeyed"}
Keys == [pin : {"default", "set"}, note : {"empty", "set"}, path : Paths,
         derived : Paths]
NoKey == [pin |-> "none", note |-> "none", path |-> "none", derived |-> "none"]
Devices == [locked : BOOLEAN, auth : BOOLEAN, reset : BOOLEAN]
DevReset == [locked |-> FALSE, auth |-> FALSE, reset |-> FALSE]

Init ==
  /\ pc = "off"
  /\ ram = NoKey /\ stored = NoKey
  /\ finger \in BOOLEAN
  /\ dev = DevReset
  /\ hist = [partial |-> FALSE, misled |-> FALSE]

\* key_updateFile.
Save(k) == ram' = k /\ stored' = k

\* Mutant of FreshKey: the child key is not derived.
FreshKeyNoChild(p) ==
  [pin |-> "default", note |-> "empty", path |-> p, derived |-> "none"]

\* The object of a new device.
FreshKey(p) ==
  [pin |-> "default", note |-> "empty", path |-> p, derived |-> p]

\* KEY_setNewDerivativePath, then KEY_recalcDerivative: the path p is stored,
\* with the child key that the path d leads to.
Rekeyed(k, p, d) == [[k EXCEPT !.path = p] EXCEPT !.derived = d]

(***************************************************************************)
(* The sensor's answers as otk.c and key.c see them.                       *)
(***************************************************************************)
\* FPS_getUserNum() > 0: 0 also stands for no answer.
Counted(locked) == locked = finger \/ (Mute /\ ~locked)

\* FPS_eraseAll: OK; or not, with the prints erased or kept.
Erased == finger' = FALSE
EraseFailed == Mute /\ finger' \in {finger, FALSE}

(***************************************************************************)
(* Boot: OTK_init and KEY_init.                                            *)
(***************************************************************************)
PowerUp ==
  /\ pc = "off"
  /\ pc' = IF stored = NoKey THEN "first" ELSE "count"
  /\ ram' = stored
  /\ UNCHANGED <<stored, finger, dev, hist>>

\* A new device: the sensor is cleared and keys are generated; a sensor that
\* does not confirm makes main shut the device down.
FirstBoot ==
  /\ pc = "first"
  /\ \/ /\ Erased
        /\ \E p \in Paths : ram' = FreshKey(p)
        /\ pc' = "create"
     \/ /\ EraseFailed
        /\ pc' = "off"
        /\ ram' = NoKey
  /\ UNCHANGED <<stored, dev, hist>>

Create ==
  /\ pc = "create"
  /\ pc' = "count"
  /\ Save(ram)
  /\ UNCHANGED <<finger, dev, hist>>

Count ==
  /\ pc = "count"
  /\ pc' = "ready"
  /\ \E locked \in BOOLEAN :
       /\ Counted(locked)
       /\ dev' = [DevReset EXCEPT !.locked = locked]
       /\ hist' = [hist EXCEPT !.misled = locked # finger]
  /\ UNCHANGED <<ram, stored, finger>>

(***************************************************************************)
(* Authorisation, and the changes an authorised user asks for.             *)
(***************************************************************************)
MayAuthorize == ~dev.auth /\ ((dev.locked /\ finger) \/ ram.pin = "set")

Authorize ==
  /\ pc = "ready" /\ MayAuthorize
  /\ dev' = [dev EXCEPT !.auth = TRUE]
  /\ UNCHANGED <<pc, ram, stored, finger, hist>>

\* SET_PIN, SET_NOTE and SET_KEY: a valid argument is saved; valid or not, the
\* authorisation is used up.  SET_KEY without data stores a path that was never
\* initialised; the derivation passes over the indices it refuses, and so may
\* end at another path's key (Settings looks into that).
Change ==
  /\ pc = "ready" /\ dev.auth
  /\ \/ Save([ram EXCEPT !.pin = "set"])
     \/ \E n \in {"empty", "set"} : Save([ram EXCEPT !.note = n])
     \/ \E p, d \in Paths : Save(Rekeyed(ram, p, d))
     \/ UNCHANGED <<ram, stored>>
  /\ dev' = [dev EXCEPT !.auth = FALSE]
  /\ UNCHANGED <<pc, finger, hist>>

(***************************************************************************)
(* OTK_lock: enrollment, whatever it is reported as, ends in a shutdown.   *)
(* A device that holds a finger it does not know of may lose it: the id is *)
(* in use, the new finger does not match, and all fingers are erased.      *)
(***************************************************************************)
Lock ==
  /\ pc = "ready" /\ ~dev.locked
  /\ finger' \in BOOLEAN
  /\ pc' = "off" /\ ram' = NoKey /\ dev' = DevReset
  /\ hist' = [hist EXCEPT !.partial = @ \/ (finger /\ ~finger')]
  /\ UNCHANGED stored

(***************************************************************************)
(* OTK_unlock and OTK_resetConfirmed.                                      *)
(***************************************************************************)
\* Mutant of MayUnlock: the authorisation is not asked for.
MayUnlockAnyway(d) == d.locked

MayUnlock(d) == d.locked /\ d.auth

Unlock ==
  /\ pc = "ready" /\ MayUnlock(dev)
  /\ pc' = "erase"
  /\ UNCHANGED <<ram, stored, finger, dev, hist>>

\* The owner asked for a reset and confirmed it by a touch of ten seconds.
ConfirmReset ==
  /\ pc = "ready"
  /\ dev' = [dev EXCEPT !.auth = TRUE, !.reset = TRUE]
  /\ pc' = IF dev.locked THEN "erase" ELSE "rekey"
  /\ UNCHANGED <<ram, stored, finger, hist>>

Erase ==
  /\ pc = "erase"
  /\ \/ Erased /\ pc' = "pin" /\ hist' = [hist EXCEPT !.partial = TRUE]
     \/ /\ EraseFailed /\ pc' = "recount"
        /\ hist' = [hist EXCEPT !.partial = @ \/ ~finger']
  /\ UNCHANGED <<ram, stored, dev>>

\* Mutant of ClearedPin: nothing is reset.
ClearedPinKept(k) == k

ClearedPin(k) == [k EXCEPT !.pin = "default"]

ClearPin ==
  /\ pc = "pin"
  /\ pc' = "note"
  /\ Save(ClearedPin(ram))
  /\ UNCHANGED <<finger, dev, hist>>

ClearNote ==
  /\ pc = "note"
  /\ pc' = "recount"
  /\ Save([ram EXCEPT !.note = "empty"])
  /\ hist' = [hist EXCEPT !.partial = FALSE]
  /\ UNCHANGED <<finger, dev>>

\* Mutant of Relocked: the flag is left as it was.
RelockedStale(d, locked) == [d EXCEPT !.auth = FALSE]

\* The lock state after an unlock, and OTK_clearAuth.
Relocked(d, locked) == [[d EXCEPT !.locked = locked] EXCEPT !.auth = FALSE]

Recount ==
  /\ pc = "recount"
  /\ \E locked \in BOOLEAN :
       /\ Counted(locked)
       /\ dev' = Relocked(dev, locked)
       /\ hist' = [hist EXCEPT !.misled = locked # finger]
  /\ pc' = IF dev.reset THEN "rekey" ELSE "ready"
  /\ UNCHANGED <<ram, stored, finger>>

\* The rest of OTK_resetConfirmed: a new random path.
Rekey ==
  /\ pc = "rekey"
  /\ pc' = "rekeyed"
  /\ \E p \in Paths : Save(Rekeyed(ram, p, p))
  /\ UNCHANGED <<finger, dev, hist>>

\* Shutdowns the code asks for, batteries and timeouts.
PowerLoss ==
  /\ pc # "off"
  /\ pc' = "off" /\ ram' = NoKey /\ dev' = DevReset
  /\ UNCHANGED <<stored, finger, hist>>

Next ==
  \/ PowerUp \/ FirstBoot \/ Create \/ Count \/ Authorize \/ Change \/ Lock
  \/ Unlock \/ ConfirmReset \/ Erase \/ ClearPin \/ ClearNote \/ Recount
  \/ Rekey \/ PowerLoss

Spec == Init /\ [][Next]_vars

(***************************************************************************)
(* Properties.                                                             *)
(***************************************************************************)
TypeOK ==
  /\ pc \in Steps
  /\ ram \in Keys \cup {NoKey} /\ stored \in Keys \cup {NoKey}
  /\ finger \in BOOLEAN
  /\ dev \in Devices
  /\ hist \in [partial : BOOLEAN, misled : BOOLEAN]

\* A device without an enrolled finger has the default PIN and no note, unless
\* the finger was erased and the operation ended before the note was saved:
\* nobody can have set a PIN without a finger to authorise it.
UnlockedIsClear ==
  (stored # NoKey /\ ~finger /\ ~hist.partial) =>
    stored.pin = "default" /\ stored.note = "empty"

\* The device takes itself for locked only while a finger is enrolled, and for
\* unlocked only while none is, unless the sensor did not answer the count.
LockFlagIsCurrent ==
  pc = "ready" => /\ dev.locked => finger
                  /\ ~hist.misled => (dev.locked <=> finger)

\* An enrolled finger is erased, and a stored object changed, only with an
\* authorisation: on a device that has keys and knows its lock state, and but
\* for the new path of a confirmed reset.
ChangeIsAuthorized ==
  [][(stored # NoKey /\ pc # "rekey" /\ ~hist.misled /\
      (stored' # stored \/ (finger /\ ~finger'))) => dev.auth]_vars

\* The boot LED is green when no fingerprint is enrolled.
BootShowsLockState == pc = "ready" => (dev.locked <=> finger)

\* An unlocked device has lost its PIN and note with the fingerprint.
UnlockClearsAll ==
  (pc = "ready" /\ ~finger) => stored.pin = "default" /\ stored.note = "empty"

\* A completed reset leaves no fingerprint, PIN or note.
ResetClearsAll ==
  pc = "rekeyed" => /\ ~finger
                    /\ stored.pin = "default" /\ stored.note = "empty"
=============================================================================

# Verification of the OpenTurnKey firmware

OpenTurnKey is a hardware wallet on an nRF52832: an NFC type 4 tag, a
fingerprint sensor on a UART, a red/green/blue LED, a flash file that holds the keys and
a PIN, and no screen or button. These TLA+ modules model the control of its
firmware (`src/*.c`); TLC checks them on small instances and TLAPS proves
most of what TLC checks for every instance.

## 1. The system

### 1.1 Execution model

`main` (`src/main.c`) initialises the modules, starts NFC and the long-touch
detector, and then loops over `app_sched_execute`. Work is done in two contexts:

* **main loop**: one queued task at a time, run to its end. There are two tasks:
  `nfc_safelyStop` (short) and `fps_longTouchDetector` (a loop that runs until it is
  killed or a touch is recognised, and that calls `OTK_lock`, `OTK_unlock`,
  `OTK_fpValidate`, `OTK_shutdown` or `OTK_resetConfirmed` from inside). A task keeps its
  slot in the scheduler queue (4 slots) until it returns.
* **interrupts**: `nfc_callback` (NFC events), app_timer handlers (LED, standby
  timer), UART. All have the same priority: they preempt the main loop
  anywhere, never each other.

Flash writes are synchronous: FDS runs on the NVMC backend, which calls its event handler
before the write returns.

A shutdown is executed in place, whatever the context, and loses everything but the
flash file and the sensor module's fingerprints. The standby timer shuts the device down
15 s after `OTK_standby`, if nothing paused it.

### 1.2 Components

| component | state | operations | interacts with | what makes it correct |
|---|---|---|---|---|
| NFC request session `nfc.c` | started, restart, polling, hasRead, processing, more, security flags; count of denials; execution state and its static copy; the stored request; the records on the tag | `nfc_callback` (FIELD_ON, FIELD_OFF, NDEF_READ, NDEF_UPDATED), `nfc_safelyStop`, `nfc_process_request`, `NFC_start`, `NFC_stop` | calls `OTK_*`; queues a task | a request runs once, its result is the one read, a rejected request ends in a shutdown |
| authorisation and lock `otk.c` | `m_otk_isLocked`, `m_otk_isAuthorized`, authorisation type | `OTK_init`, `OTK_standby`, `OTK_pause`, `OTK_shutdown`, `OTK_lock`, `OTK_unlock`, `OTK_reset`, `OTK_resetConfirmed`, `OTK_fpValidate`, `OTK_pinValidate`, `OTK_setKey/Pin/Note` | called by NFC session and detector; calls sensor, key object, power | configuration changes only when authorised, one change per authorisation, PIN attempts are rate limited |
| long-touch detector `fps.c` | `_ltdRunning`, `_killLTD`, `_confirmReset` | `FPS_longTouchDetectorStart/Stop`, `fps_longTouchDetector` | queued from interrupt and main loop; calls `OTK_*` | at most one detector; one whenever the device is on standby |
| sensor protocol `fps.c`, `uart.c` | receive buffer, command in progress | capture, enroll, match, erase, count | UART with timeouts | an answer belongs to its command; the match counted is a match |
| scheduler queue | 4 slots | `app_sched_event_put`, `app_sched_execute` | everything above | bounded, no task lost that somebody waits for |
| key object `key.c` | PIN, note, path, child key, failure count, suspension, in RAM and in the file | `KEY_init`, setters, `KEY_recalcDerivative` | `otk.c`, file | what belongs together is saved together |
| flash file `file.c` and record store `fds.c` | pages and their tags, records and their headers, `m_pages`, `m_gc`, the latest record id | `FILE_write`, `FILE_load`, fds init, write, update, collection | `key.c` | what was saved survives a loss of power, old or new, never half |
| settings `otk.c`, `crypto.c` | the numbers a user sends | `OTK_setKey`, `OTK_setPin`, `OTK_pinValidate`, `CRYPTO_deriveHdNode` | NFC session, key object | a number is taken for itself or refused |
| power management `pwrmgmt.c` | exit error | init, feed, reboot, shutdown | all | nothing volatile survives |
| LED `led.c` | cadence, frame counter | set cadence, timer handler | `otk.c` | indices stay in the cadence table |
| cryptography `crypto.c` | none the control depends on | key derivation, signing | `nfc.c`, `key.c` | out of scope but for the derivation loop |

### 1.3 What is hard

* The NFC interrupt and the main loop share a dozen Boolean flags without a lock. The
  *phase* of a request session is not stored anywhere: it is what six of them say together.
* One restart flag stands for any number of queued stop tasks; one kill flag for any
  number of detector starts and stops.
* The detector blocks the main loop: a queued stop task waits until somebody kills it.
* The authorisation may come from a PIN in a request or from a finger in
  the middle of a session, and is used up by requests and by touches.
* The PIN limiter spans power cycles: failures are counted while a request is executed,
  the suspension is shortened at boot, both are lifted by a finger.
* The lock state is read from the sensor, which may not answer; an erase may fail
  halfway.
* An unlock or a reset is an erase and up to four saves, a PIN failure two saves, a save
  several flash writes, a collection a dozen: power may go between any two, and boot has to
  make sense of what it finds.
* An answer of the sensor carries nothing that ties it to a command: one that comes after the
  timeout is read as the answer to the next.
* Numbers are parsed by a function that saturates, and time is measured by a counter that wraps.
* `PROJECT.json` lists every such hazard at its line, with the properties that catch it.

## 2. Modules

| module | what it is |
|---|---|
| `OtkCore` | the control core: NFC session, authorisation, detector, scheduler queue, power |
| `RequestSession` | what the core promises a reader and the owner in a power cycle (abstract) |
| `OtkCoreRefines` | the refinement mapping from `OtkCore` to `RequestSession` |
| `Provisioning` | boot, lock, unlock, reset and set commands as sensor calls and saves, cut short anywhere |
| `PinLimiter` | the counters of failed PINs over power cycles, with two saves per attempt |
| `FlashStore` | `file.c` on FDS: tags, headers, update, collection, and the boot after a loss of power |
| `RecordSet` | what the record store promises the file (abstract) |
| `SensorLink` | commands and answers between `fps.c` and the sensor, late ones included |
| `LongTouch` | the detector in time: polls, debounce, lengths from a counter that wraps |
| `Settings` | PINs and key paths: from text to number to stored object |
| `MCOtkCore`, `MCPinLimiter`, `MCSettings` | the tables and the numerals of the instances TLC checks |
| `OtkCoreProofs` | theorems about the control core: the inductive invariant, its safety and action properties |
| `OtkCoreRefineProofs` | the core implements `RequestSession` |
| `FlashStoreProofs` | theorems about the record store: power loss at any flash write, and that it implements `RecordSet` |
| `PinLimiterProofs`, `ProvisioningProofs`, `SensorLinkProofs`, `LongTouchProofs`, `SettingsProofs` | theorems about these modules |

The modules divide the subject by grain. In `OtkCore` a handler is one step and what is stored
is a few flags. `Provisioning` and `PinLimiter` take the handlers that save more than once
apart, save by save; `FlashStore` takes a save apart, flash write by flash write. `SensorLink` takes the
sensor calls apart that `OtkCore` and `Provisioning` treat as a nondeterministic answer, and its counterexamples are the reason for the outcomes
those allow. `LongTouch` supplies the choice between touches that is nondeterministic in `OtkCore`, and
`Settings` what "valid data" and "the right PIN" mean there.

### 2.1 OtkCore: state

| variable | code |
|---|---|
| `pc` | what the main loop executes: `idle` (between tasks), `ltd` (in the detector's loop), `match` (`OTK_fpValidate`), `enroll` (`OTK_lock`), `unlock` (`OTK_unlock`), `start`, `put`, `flag` (the three steps of `FPS_longTouchDetectorStart` in the main loop; `bootStart`, `bootPut`, `bootFlag` before the loop begins), `rekey` (`OTK_resetConfirmed` after `OTK_unlock`); `off` without power |
| `queue` | the scheduler's queue, head first; a running detector keeps its slot |
| `nfc` | `m_nfc_started`, `_restart_flag`, `_polling_started`, `_has_read`, `_processing_request`, `_more_cmd`, `_security_shutdown`, `_auth_failure_counts` (`denied`), `_cmd_exec_state` (`exec`), the static `_execState` (`execState`) |
| `req` | command, PIN option (none, right, wrong) and data of the stored request: good, bad, or (of a SIGN) a hash of no or too many bytes |
| `ndef` | `m_ndef_msg_buf`, the memory the tag serves: the records built last (execution state, command shown, the command the state belongs to, `of`), or what a reader has written over them (`raw`) |
| `otk` | `m_otk_isLocked`, `m_otk_isAuthorized` |
| `ltd` | `_ltdRunning`, `_killLTD`, `_confirmReset` |
| `key` | PIN set, failure count, suspension in the persistent key object |
| `enrolled` | the sensor module holds fingerprints |
| `field` | the reader: no field, a field, or the tag selected |
| `hist` | history for the properties: changes made since the last grant, what the command executed last did (`effect`: done, refused, or reported and not done), whether two starts of the detector race (`raced`), whether a stop found the queue full of detectors (`lost`) |

### 2.2 OtkCore: actions

| actions | code |
|---|---|
| `Boot`, `BootAborted` | `OTK_init`, then `main` up to its loop; a low battery or a failed module ends it after the suspension was counted down |
| `PowerLoss` | standby timer, battery, at any step |
| `FieldOn`, `FieldOff`, `NdefRead`, `NdefUpdated`, `NdefRejected`, `NdefIgnored` | the branches of `nfc_callback`; `HandOver` is the branch both field events share. A write of any kind replaces what the tag serves |
| `StopWhenStopped`, `StopForSecurity`, `ExecuteCancel`, `ExecuteDenied`, `ExecutePlain`, `ExecuteSet`, `ExecuteUnlock`, `RetireFinal`, `RetireReset`, `RetireClear`, `StopOrRestart` | the branches of `nfc_safelyStop`, with everything they call: `nfc_process_request`, `OTK_pinValidate`, `OTK_set*`, `OTK_reset`, and the `NFC_start` and `nfc_setRecords` that follow (`Answer`); `ExecuteUnlock` goes on in `UnlockErase` |
| `LtdBegin`, `LtdKilled`, `LtdTouch`, `LtdUnlock`, `LtdShutdown`, `LtdResetConfirmed` | `fps_longTouchDetector` and its calls of `OTK_unlock`, `OTK_shutdown` and `OTK_resetConfirmed` |
| `UnlockErase`, `StartTest`, `StartPut`, `StartFlag`, `StandbyReturns`, `Rekey` | `OTK_unlock` for a request, a long touch or a reset; the start of the detector by `OTK_standby` at boot and in the main loop; the rest of `OTK_resetConfirmed` |
| `MatchFound`, `MatchFailed`, `EnrollEnd` | how `OTK_fpValidate` and `OTK_lock` end |

`FPS_longTouchDetectorStart` tests `_ltdRunning`, puts the task and sets the flag. In the interrupt
(`StandbyLtd`, called by FIELD_OFF) nothing comes between; in the main loop every field event may, and the three are
three actions. `nfc_safelyStop` is one action but for an unlock: its first statement stops the NFC
peripheral. The field events that may still be pending then matter to the start of the detector alone, so the unlock, which
contains one, is taken apart. Matching and enrolling take
seconds with NFC on, so they begin and end in separate actions, and so does the detector.
A touch may be recognised in the round in which the detector is told to stop:
the loop looks at the kill flag once a round.

The sensor is nondeterministic: a count may read 0 because the module did not answer
(`LockSeen`), an erase succeeds, fails, or succeeds with its answer too late
(`EraseOutcomes`), an enrollment may or may not leave a template.

### 2.3 RequestSession

Phases `off`, `ready`, `requested`, `taken`, `answered`, `read`, `confirming` in this order; an
answer is entered only from `taken`, so a request is executed once; an authorisation is
`granted` anew, by a PIN, a finger or the confirmation of a reset, for each change. `OtkCoreRefines!Phase` reads the phase off the flags. The
grant (`otk.auth`) and the phase are independent: a finger may authorise in any phase.

### 2.4 Provisioning

`pc` names the next sensor call or save of the operation under way, `ram` is `_keyObj`, `stored` the
saved object, `finger` the sensor's memory, `dev` the flags of `otk.c`. A SET_KEY without data stores one path and derives the
child key from another (`Rekeyed(ram, p, d)`); which one, `Settings` says. `PowerUp`, `FirstBoot`, `Create` and `Count`
are `KEY_init` and the boot part of `OTK_init`; `Authorize` is a finger or a PIN; `Change` a set command; `Lock` an enrolment;
`Unlock`, `Erase`, `ClearPin`, `ClearNote`, `Recount` are `OTK_unlock`; `ConfirmReset` and `Rekey`
what `OTK_resetConfirmed` adds. `Mute` lets the sensor leave commands unanswered, executed or not.

### 2.5 PinLimiter

`PowerUp`, `CountBoot`: the boot that counts for a suspension. `Mismatch`, `Suspend`, `Answer`: a wrong
PIN, its two saves and the answer. `Match`, `FingerOrReset`, `Lift`: the counters are reset, by two saves.
`hist.told` counts the failures the reader knows of, `hist.waited` the reboots since the
suspension was set.

### 2.6 FlashStore and RecordSet

| variable | code |
|---|---|
| `flash` | per page its tag and its records: id, and open, valid or dirty (a record is open until its last header word is written) |
| `slots`, `swap` | `m_pages`, `m_swap_page` |
| `gc` | `m_gc`: current page, pages to collect, where the search is |
| `ids` | `m_latest_rec_id`, the record in `_recordDesc` |
| `pc`, `op` | the next flash write, and the operation it belongs to |

`Boot` with `PagesInit` and `InitStep` is `pages_init`, which decides from tags and headers what has to be finished. Its loop over the pages
is the recursive function `Seen`: what `m_pages`, `m_swap_page` and `m_gc` are after the first `n` pages;
`InitEraseSwap` to `InitDone` are the steps of `init_execute`; `Load` is `FILE_load`;
`Update`, `Write`, `Finalize`, `FlagDirty` are `FILE_write` over `fds_record_update`; `Collect` and `Gc*` are
`fds_gc`; `PowerLoss` may come before any write. What fds does after a write comes
after everything nested in it: the exchange of the pages of a promotion is in `InitDone`.

`RecordSet` has a set of live records and the one held. A record joins before the one it replaces
leaves, a load takes one that is there, and nothing else, no collection and no loss of power, adds or removes one. The mapping:
`live` is the set of valid ids in pages that are not erased, `held` the id in the
descriptor, or, while an update is between its two header writes, the record it replaces.

### 2.7 SensorLink

`line` are commands the sensor has not executed, `rx` answers in the receive queue, `prog` where `fps.c` waits for an answer, its
loop counters and the flags of `otk.c`, `sensor` the enrolled finger and the image. Every wait may end with the head of
`rx`, whatever command that answers, or with a timeout if the sensor may be late. `Level`, `BootCount`: boot;
`Touch`, `ResetEnds`: the resets of a long touch and their retries; `Press`, `Capture`, `Match`, `Validated`, `UserNum`:
`FPS_captureAndMatch`; `Captured`, `PreCount`, `Enroll`, `PostCount`, `Verified`, `EraseBad`: `FPS_captureAndEnroll`;
`Erase`, `EraseCount`: `FPS_eraseAll`. An answer that finds `rx` full ends the reception until power is off (`dead`), as `nrf_serial.c` does.

### 2.8 LongTouch

`Poll` is one turn of the loop: the pin is read, 1 to `MaxPoll` units of time pass, the counter is read, a command is chosen.
`hist` is the contact as the user sees it. `Start` and `Kill` are the detector's start and `FPS_longTouchDetectorStop`.

### 2.9 Settings

Numerals are sequences of digits, and any other character. `StrToUL` saturates, `IsNumber` compares
the tail of the number with the number of the tail, as `OTK_setKey` and `OTK_setPin` do. `Child` refuses an index of half
the words or more and leaves the node as it was; `Derived` is the loop that goes on from there. The loops over a text and over a path are recursive
functions, local to `Value` and `Derived`. `SetKeyBlind` is SET_KEY without data, whose path
is whatever the stack holds.

## 3. Runs

| run | instance | shows |
|---|---|---|
| `core_session` | SIGN, SET_PIN; right and wrong PIN; 2 slots; suspensions of 2 and 4 reboots, no denial tolerated | `TypeOK`, `OneChangePerGrant`, `ReadWasTheResult`, `RefusalIsTold`, `SuspensionHolds`, `RejectedPublishesNothing` (0.88 M states) |
| `core_detector` | UNLOCK, SET_PIN; right PIN; 3 slots; 1 denial tolerated | `OneDetector`, `DeniedIsBounded`, `ConfigChangeIsAuthorized` (2.1 M) |
| `core_liveness` | UNLOCK, CANCEL, RESET; no PIN; 3 slots; fair main loop | `ImplementsSession`, `RequestIsServed`, `SecurityShutsDown` (0.16 M) |
| `provisioning` | 2 paths, a sensor that may not answer | `TypeOK`, `UnlockedIsClear`, `LockFlagIsCurrent`, `ChangeIsAuthorized` (766) |
| `pin_limiter` | suspension from the 3rd failure, 4 counted, a retry counter up to 15 | `TypeOK`, `ToldIsStored`, `SuspensionIsServed`, `SuspensionGrows` (695) |
| `flash_store` | 3 pages of 2 records, 16 ids, 3 losses of power; fair processor | `TypeOK`, `OneSwap`, `UpdateFindsRecord`, `AckedIsHeld`, `OrphansAreCounted`, `StoresRecords`, `WriteReturns` (0.24 M) |
| `sensor_link` | 2 fingers, every answer possibly late, 4 timeouts | `TypeOK`, `LeftByTimeouts`, `ValidatedIsReal`, `LockedHasPrint`, `EnrolledIsReal` (1.3 M) |
| `long_touch` | thresholds 2 and 6, 3 bounces, counter of 13, 28 units of time | `TypeOK`, `LongIsHeld`, `ShortIsHeld`, `HeldIsServed` (16 k) |
| `settings` | base 3, words of 4 bits, paths of 2 indices | `TypeOK`, `KeyIsAsked`, `PinIsOwners` (5.8 k) |

Three runs, `nfc_left_stopped`, `reset_keeps` and `suspension_stuck`, check a statement of the
sources that the code does not keep; section 5 lists them with the configurations of other such
counterexamples. Deadlock is checked everywhere but in `FlashStore`,
where the bound of ids stops the updates.

**Bounds of the core.** The queue has 2 or 3 slots (4 in the code, and in the counterexamples of section 5): it is full after a
detector and one or two stops, or after the detectors of a race, and puts that fail and starts that shut the device down
happen in every run. Commands fall into five classes (cancel, reset, plain, set, unlock), and a session
with two requests shows the pairs that each run is made for: SIGN and a change (results, PINs), the two changes a touch or a request may make
(authorisation), unlock, cancel and reset (the phases). In `core_liveness` a finger is the only authorisation and an unlock the only change; that the other commands
keep to the phases is proved (`CoreImplementsSession`). The
penalty table is the code's, `2^failures`, with the suspension from the 1st
failure instead of the 3rd and 1 or 2 counted instead of 32, and 0 or 1 denials are tolerated instead of 2: the thresholds do not matter beyond their order (the theorems have no such
bound). `changes` and `denied` need no bound: the code ends the power cycle first.

**Bounds of the others.**

* `provisioning` has none but the number of paths: two are enough to tell the old from the new.
* `pin_limiter`: the counters are scaled so that, as in the code, the last suspension (`2^4`) does not fit the
  retry counter (15).
* `flash_store`: 3 virtual pages as in `sdk_config.h`, so two data pages and a swap page. 16 ids fill and collect every page
  several times; three losses of power reach a torn update, a
  cut collection, the cut of the boot that repairs it, and torn updates enough to fill one and a half pages.
  Two records a page (the code's pages hold more) keep pages full and collections frequent.
* `sensor_link`: a 32-byte receive queue is 4 frames; 4 timeouts are enough to fill it. A long touch resets the sensor at least once. Captures, retries and debounce are the code's.
  With 4 timeouts the lag (timeouts and resets given up) stays at 6 or less, the bound `Few` under which section 4 proves the last three properties (of `EnrolledIsReal` the first half) for every instance.
* `long_touch`: a long touch with its bounces fits between two wraps, and the time has two wraps in it,
  so contacts within, across and beyond a wrap occur.
* `settings`: words and texts keep the relations the test depends on: the longest PIN may name a number that does not fit, and the
  largest word does not begin with the largest digit.

**Fairness.** `core_liveness`: weak fairness of the stop task, of the detector's
ends and of the steps of an unlock and a start: the main loop executes the task at the head of its queue, the kill flag is read every
round, and matching and enrolling have timeouts. Nothing is assumed of readers, fingers or the supply.
The properties are conditional on `MainLoopRuns`: the detector hands the loop
back again and again. The code does not guarantee that by itself (section 5, `detector_blocks`): a detector
that nobody kills loops until the standby timer of the device, which is not
modelled as fair because `OTK_pause` stops it. `flash_store`: weak fairness of `Works`: the processor executes the next
instruction of boot, file or record store; no update is ever required and no loss of power.

**Properties worth a remark.** `ReadWasTheResult` is what keeps `nfc_safelyStop` from
retiring a request before its result was on the tag: the flag `hasRead` is tested long after it was
set, with writes, touches and restarts in between. What the reader itself has written over the result is excepted, since
reading that back retires the result all the same (`result_overwritten`). `RefusalIsTold` is the direction in which the execution state can
be trusted: a refused command is never reported with the SUCCESS the request before left behind; neither a SUCCESS (`unlock_status`, `sign_unsigned`, `lock_not_done`)
nor a FAIL (`stale_status`) is reliable. `OneDetector` relates the flag
`_ltdRunning` to the queue and to the program counter; starts come from the interrupt, also into the middle of another start, and from
inside the detector. A set flag always has its detector, also after a race of starts; that there is only one holds until two starts race (`detector_twice`) and again once
the last of their detectors has ended. `RequestIsServed` excepts a hand-over whose stop found nothing but detectors in a full queue (`hand_over_lost`).
`SuspensionHolds` is over several power cycles. `AckedIsHeld` is about a loss of power at any
write, also the one that leaves the records of a collected page in the swap page alone; only a torn update is
excepted (`update_torn`). `OneSwap` and `WriteReturns` except stores that a boot had to repair by a promotion (`promote_no_swap`),
and `WriteReturns` stores that torn updates have filled (`store_full`). `ValidatedIsReal` is the safe side of late answers: with
`LeftByTimeouts` it says what a reader of the protocol has to argue, that only a match has a non-zero `data[5]` at that place.
`EnrolledIsReal` asks of an enrolment reported as done that the sensor has matched the new finger; not that it did so three times, since the code is content with the last match of the loop.

## 4. Proofs

`OtkCoreProofs` proves, for every `Commands`, `Pins`, `QueueSize > 0`, `SuspendAt`, `MaxFailures`,
`MaxDenied` and every table `Penalty` of naturals (the `ASSUME`s of `OtkCore`):

| theorem | statement |
|---|---|
| `TypeCorrect` | `Spec => []TypeOK` |
| `OneChange` | `Spec => []OneChangePerGrant` |
| `ReadIsResultOrWritten` | `Spec => []ReadWasTheResult` |
| `ChangesAreAuthorized` | `Spec => ConfigChangeIsAuthorized` |
| `SuspensionIsWaitedOut` | `Spec => SuspensionHolds` |
| `RejectionIsFinal` | `Spec => RejectedPublishesNothing` |
| `DenialsAreBounded` | `Spec => []DeniedIsBounded` |
| `RefusalIsReported` | `Spec => []RefusalIsTold` |
| `DetectorIsOne` | `Spec => []OneDetector` |

They follow from `Invariance`, `Spec => []Inv`, with the inductive invariant

* `TypeOK`;
* `SlotHeld`: while the main loop runs the detector, what it calls, or an unlock, the queue is
  not empty, and its head is the task under way. Needed to type the `Tail` that frees the slot, and to know for whom an unlock is done;
* `UnlockHeld`: an unlock is entered by an authorised user, and for a request with NFC stopped and nothing rejected, executed or read: its
  answer comes several steps later;
* `OffIsReset`: a device that is off has an empty history, queue and detector, and no rejected request. Needed at
  `Boot`, which shows a blank tag;
* `ResultShown`: the tag shows the execution state and the command in `hist.of` unless a reader has written over it, and a result
  was read only if there is one. `ReadWasTheResult` alone is not inductive: a rebuild of the
  records would have to know that the new ones still show a result;
* `OneChangePerGrant` itself: an authorised user has made no change yet, so the first one
  may still be counted.

The proof has a lemma per action (or per few actions that end alike). Two lemmas carry most of it:
`PowerOffInv` (a shutdown establishes the invariant from any state) and `AnswerInv`
(publishing an answer keeps it whatever command was executed, provided that the command left typed
flags, an execution state, and nobody authorised after a change). The helper lemmas
type what each helper of the model computes (`Put`, `StandbyQueue`, `KeyAfterPin`, ...).

The action properties follow from `Invariance` and one lemma each (`ConfigStepHolds`,
`SuspensionStepHolds`, `RejectedStepHolds`) that goes through the actions. `DeniedIsBounded` and
`RefusalIsTold` are a second induction (`OutcomesStep`) on top of the first, which adds that an unlock for a request was not refused before
its answer (`AnswerReady`): most steps keep what they look at (`OutcomeKept`), the executions do not.

`PinLimiterProofs` proves `LimiterTypeCorrect`, `LimiterTold`, `LimiterServed` and `LimiterGrows` (the four properties of
`pin_limiter`) for every threshold, limit and monotone table `Pow2`, saturated or not. The inductive invariant adds to
`TypeOK` and `ToldIsStored`: RAM and flash agree while the device is on; a failure is counted before it is told; what is
still to wait and what was waited make up the suspension set last (`WaitIsAccounted`), unless power tore an attempt; and that one was set for no
more failures than are counted now (`LastIsSuspension`).

`ProvisioningProofs` proves `ProvisionedClear`, `ProvisionedLock` and `ProvisionedChange` for every set of paths, with a sensor
that may or may not answer. The invariant adds `RamIsStored` and `UnlockUnderWay`, what the flags are at each step of an unlock: that step
was entered with an authorisation, which the last one takes away.

`ProvisionedTypes` is its type invariant as a theorem.

`DetectorIsOne` (`Spec => []OneDetector`) needs `Detector`: when `_ltdRunning` is set, or the main loop is about to set it, a slot holds a detector that
still loops or waits; and while no starts race there are no two such slots, one implies the flag or the step before it is set, and the test of a start that is under way still
holds. The last part is what a FIELD_OFF inside the start breaks, and where the history records a race; the race is over when the last detector in the queue ends,
and the proof has to show that the three parts hold again then. The lemmas say what the queue operations do (`AppendStopDetectors`, `AppendLtdDetectors`, `TailDetectors`, `EndDetectors`): a stop
appended moves no detector, a detector appended where there is none is the only one, a slot freed is not the detector's unless it has ended.

`CoreImplementsSession` (`Spec => ImplementsSession`) is the refinement step by step. The phase of a session is read from six flags
(`PhaseTable`), and the invariant needs `NothingLeft` on top of `Inv`: a device that is off or has no request shows no execution state and is processing
nothing, a device that is off authorises nobody, NFC is off while a confirmation is awaited, and the request an unlock is done for is still
taken and unanswered (`Taken`) when its answer is published, four steps after it was executed. Without it a boot or a cleared request
might start a session with an old result in it, and a stop task might clear the request of a device that awaits a confirmation, a step the session does not have. Most actions are quiet (`QuietMoved`); the executions are `Serve`
(`ServeMoved`), the grants and the erase of an unlock `Grant` and `Use` (`GrantMoved`, `UseMoved`), the retirements `Return`, `AwaitConfirmation` or `PowerDown`.

`LongTouchProofs` proves `TouchTypeCorrect`, `LongTouchIsHeld`, `ShortTouchIsHeld` and `HeldTouchIsServed` (the four properties of
`long_touch`) for all thresholds, debounce counts, poll distances and periods of the counter, over any number of wraps. The
invariant is `TouchInContact`: the touch the detector measures began at a poll within the contact the user made, the two miss the finger
equally often, and until the counter wraps a touch that goes on is no longer than the long threshold. The counter is handled
by `SamePeriod` (within a period it measures time) and `PeriodsInOrder`.

`SensorLinkProofs` proves, for every set of late commands, number of timeouts, queue size, and number of captures, retries and resets:

| theorem | statement |
|---|---|
| `LinkTypeCorrect` | `Spec => []TypeOK` |
| `LinkLeft` | `Spec => []LeftByTimeouts` |
| `MatchIsReal` | `Spec => [](Few => ValidatedIsReal)` |
| `LockIsReal` | `Spec => [](Few => LockedHasPrint)` |
| `EnrolmentIsHeld` | `Spec => [](Few => Reported)`, the first half of `EnrolledIsReal`: the sensor holds a finger |

The first two follow from `Base` alone, where every read pays for what it sends. The others follow the answers with `n > 0` through the queue. Where the program is
decides what those can be (the regions `IsBooting`, `IsLocked`, `IsChecking`, ...): none while a locked device waits; in a validation only answers to
its own match, about the enrolled finger, which `HotUpTo` bounds to the first `Lag + Waiting - Since` places, `Since` being the reads that
followed the match at least; the answer of a count last in the queue. A reset between captures and in a long touch takes one place off, or raises `Lag`.
`Few`, `Lag <= Debounce + TouchResets + 2`, says that the bound is used up when an authorised user's long touch erases the finger. With more late answers, the match
of the validation would be read as the count after the erase, and an empty device would take itself for locked. That really happens: with `Debounce` and
`TouchResets` 0 and `Lag` at 3, one more than `Few` allows, TLC finds `LockedHasPrint` violated, so the hypothesis is not there for the sake of the proof. The lag counts from power-up.

`FlashStoreProofs` proves, for every number of pages greater than one, records to a page, ids and losses of power (`FlashAssumption`):

| theorem | statement |
|---|---|
| `StoreTypeOK` | `Spec => []TypeOK` |
| `StoreOneSwap` | `Spec => []OneSwap` |
| `StoreUpdateFinds` | `Spec => []UpdateFindsRecord` |
| `StoreAckedIsHeld` | `Spec => []AckedIsHeld` |
| `StoreCountsOrphans` | `Spec => []OrphansAreCounted` |
| `StoreImplementsRecordSet` | `Spec => StoresRecords` |

They follow from `StoreInvariant`, `Spec => []IInv`, whose parts are

* `Off`, with `BootSafe`: what any loss of power leaves. At most one page is tagged as swap and it has only valid records; two copies of a
  record exist only if no page is erased, and then one of them is in the swap page, so the boot that finds no
  erased page may erase the swap page, and one that finds an erased page may promote it. `AlwaysBootSafe` is the lemma that every state satisfies it;
* `Booting`, `Running`, `Collecting`: at each `pc`, which tags and headers are possible, and that `m_pages` and `m_swap_page` hold every
  page once (`Maps`). While a page is collected the swap page holds its valid records up to where the search is (`Copied`);
* `Numbered`: ids rise, so the id an update takes is no valid record's, also after a boot has read the latest one from the headers;
* `HeldPlaced`: the record held, and the one an update is to retire, are in pages that `m_pages` lists;
* `Counted`: the valid records are at most one more than the torn updates, and while there are none, exactly the one acknowledged, or that
  and the one under way.

`OneSwap` or `AckedIsHeld` alone say nothing of the state in the middle of a collection or of a boot, which is where power goes. The lemmas
`Opened`, `Finalized`, `Flagged`, `CopyOne`, `CopiedNext`, `ErasedOne`, `TaggedData` and `TaggedSwap` say what one flash write does to the ids that are
valid and to their uniqueness; each action has a lemma that uses them. Boot rests on `AllSeen`: after the loop of
`pages_init` `m_pages` and the swap page hold every page once. It is an induction over the pages, for which the library's theorem
cannot be used: `SeenExists` and `AllSeen` take the least page at which they fail, which the well-foundedness of the naturals supplies, and refute it.
`StoreImplementsRecordSet` goes through the actions with the same lemmas (`Moved`): the last header word of an update adds a record, the dirty mark
retires the one it replaces, a load takes a live one, and boot, collection and loss of power stutter or drop the descriptor.

In `UpdateFindsRecord` the proof also has that no valid record is found in two places, and that none is missed as long as no boot
promoted the swap page: a promotion may take a data page out of `m_pages` (`promote_wrong_page`).

`SettingsProofs` proves `SettingsTypeOK`, `SettingsKeyIsAsked` and `SettingsPinIsOwners` (the three properties of `settings`) for every base, word
size, longest PIN, depth of a path and set of texts. The inductive invariant says that the node of the child key has only indices that were accepted
(`IsNode`), whatever a blind SET_KEY derived it from; that a path asked for has only such indices, and the child key is its node (`PathOK`);
and that a PIN other than the default is the number that was set (`SetOK`), since `strtoul` returns a number
other than the largest word only if it is the one written (`StrToULIs`). `DerivedIsPath` is the loop of `CRYPTO_deriveHdNode`: a path of indices that are not
refused leads to the same child key from any old node; `DerivedIsNode` covers the paths some of whose indices are. Both are proved over
the path with the least index at which they fail. That the number is compared with the number of its tail (`IsNumber`) plays no part in these theorems:
a saturated index is refused as too large, and a saturated PIN is the default, which never authorises (`pin_saturates`).

Only model-checked: liveness, that is `RequestIsServed`, `SecurityShutsDown` and `WriteReturns`, which is beyond the prover. Every other
property of the passing runs is a theorem (`ValidatedIsReal` and `LockedHasPrint` under `Few`), but for the second half of `EnrolledIsReal`, that the finger was matched. What a recursive definition computes is proved where a theorem needs it (`Seen`, `Value`, `Derived`), and only
as far: that `Value` is a number, not which.

## 5. Where the code disagrees with its own words

Three of these are standing runs. For the others the configuration is kept as well; `tlc -config <name>.cfg <module>` ends with the
violation of the property it names. `PROJECT.json` quotes the lines of the sources for each.

| configuration | module | what happens |
|---|---|---|
| `nfc_left_stopped` (run) | `MCOtkCore` | two queued `NFC_stop(true)`: the first restarts NFC and clears the flag, the second stops it for good |
| `reset_keeps` (run) | `Provisioning` | a confirmed reset of a device that takes itself for unlocked, or whose sensor does not confirm the erase, keeps finger, PIN and note |
| `suspension_stuck` (run) | `MCPinLimiter` | power lost between the two saves that reset the counters leaves a suspension no reboot shortens |
| `stale_status` | `MCOtkCore` | SET_PIN, SET_KEY and SET_NOTE do not assign the static `_execState` when they succeed: after any earlier failure in the power cycle, a change that was made is reported as FAIL |
| `unlock_status` | `MCOtkCore` | UNLOCK ignores whether `FPS_eraseAll` succeeded and reports what was there, normally SUCCESS |
| `sign_unsigned` | `MCOtkCore` | SIGN of a hash of no byte, or of more than 32, is answered with SUCCESS and no signature |
| `lock_not_done` | `MCOtkCore` | LOCK is answered with SUCCESS, and enrols nobody |
| `result_overwritten` | `MCOtkCore` | a reader that wrote over an unread result and reads its own bytes back has read the result, which is then retired |
| `overwritten_request` | `MCOtkCore` | a request written over an unread result is shown with that result when a finger restarts NFC |
| `detector_lost` | `MCOtkCore` | a field that comes and goes before the killed detector has left its loop: `OTK_standby` finds it running, it ends, none is left |
| `detector_blocks` | `MCOtkCore` | `OTK_fpValidate` queues its stop behind a detector started meanwhile, which nobody kills |
| `detector_twice` | `MCOtkCore` | a field that goes in the middle of the main loop's start of the detector starts another one |
| `hand_over_lost` | `MCOtkCore` | detectors left by races of starts fill the queue: the stop of a request handed over is dropped, and no field event hands it over again |
| `boot_count` | `Provisioning` | a sensor that does not answer the count at boot: a locked device shows itself unlocked |
| `unlock_cut` | `Provisioning` | power lost within an unlock: no finger, but the PIN or the note still there |
| `promote_no_swap` | `FlashStore` | after a cut between erase and promotion, boot writes the swap tag on the page it promoted: there is no swap page left |
| `promote_wrong_page` | `FlashStore` | an erased page before the swap page is not the one the promotion exchanges |
| `update_torn` | `FlashStore` | after an update was torn, `FILE_load` may return the older record although a newer one was acknowledged |
| `store_full` | `FlashStore` | torn updates fill the pages with valid records: collecting frees nothing and `FILE_write` calls itself for ever |
| `enroll_late` | `SensorLink` | an enrolment answered after the timeout is reported as failed, and the finger is enrolled |
| `stale_count` | `SensorLink` | a late answer to a reset is read as the count of fingers: the device takes itself for unlocked |
| `wrap_reset` | `LongTouch` | a touch across the wrap of the counter counts as one of more than ten seconds and confirms a reset |
| `pin_saturates` | `MCSettings` | a PIN that does not fit a word is accepted and stored as the default, that is, none |
| `blind_path` | `MCSettings` | SET_KEY without data stores a path the child key was not derived by |

Two more differences need no run: `otk.h:100` says of `OTK_setKey` "if a child index is 0, it means to get a random child index", and
`otk.c` takes 0 for an index like any other; `otk.c:376` speaks of 8 seconds to confirm a reset, and `fps.c:574` asks for 10.

## 6. Not modelled

* **Text of the records** (session and request IDs, formatting, hex): abstracted to what a
  property tells apart. A request is well formed or rejected, its data good or bad, its PIN right or wrong.
* **Standby timer and battery**: a loss of power at any time.
* **UART bytes**: answers are whole frames. A read that times out in the middle of a frame would leave the rest of it for the next.
* **Settings**: signs and blanks before a number, which `strtoul` accepts, and paths of more than five indices, for which `OTK_setKey`
  writes beyond its array.
* **FDS**: deletion, reservation, iteration over several files and CRC, which the program does not use; records all have one size.
* **`FPS_eraseOne`**, which nothing calls.
* **LED**: a frame counter over a constant table; no state depends on it.
* **Cryptography**: hashes, curves and encodings; of key derivation only which node it starts from and what it refuses.
* **nRF5 SDK**: more than nine tenths of the files are the vendored SDK (register definitions, headers, drivers, examples of configuration).
  Of it the scheduler queue, the record store, the receive queue of the serial library and the events of the NFC driver are modelled as the firmware uses them; the rest
  has no behaviour of the firmware's own.

## 7. Plan

The components of the plan are modelled, and every property of the passing runs but liveness, and the second half of `EnrolledIsReal`, is proved. What is left is that half, which would
follow the answers of counts by their distance in the queue, and
a finer grain: bytes of the UART, where a frame may be split by a timeout, and a path of more than five indices, for which the memory behind an array would
have to be modelled.

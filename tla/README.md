# Stillair: verification of the fan supervisor and of the board tools

Stillair is a ceiling fan driven by an MCF8316D motor controller and supervised
by an ESP32-C6. The Rust firmware under `firmware/` decides when the motor may
turn; the Python tools under `pcb/tools` decide which edits reach its circuit
boards and which files go to the manufacturer. This directory models both in
TLA+, checks the models with TLC and proves the most important invariants with
TLAPS.

## 1. The system

```
 console task --.                                   .--> board pins, permission latch
 Matter task ---+--> COMMANDS (4) --> control task -+--> SPEED/ceiling cells --.
 OTA tasks -----'      every 50 ms      |  ^        '--> clear/MPET signals ---+--> MCF task --> I2C --> MCF8316D
                                        v  |                                   |
                     telemetry snapshot '  '-- STATUS, VERDICT, readiness, <---'
                     (read by all three)      MPET abort, PGOOD fell
```

| Component | Source | State it keeps | What it does |
| --- | --- | --- | --- |
| Supervisor | `core/src/state.rs`, `tach.rs`, `speed.rs` | fan state, intent, ramp, duty and ceiling caches, bus health, tach silence | takes commands; every tick turns a snapshot of the inputs into a burst of actions |
| Control loop and board | `app/src/main.rs` `control_task`, `app/src/board.rs` | pins, permission latch, published telemetry | drains commands, polls, applies the burst, counts its beat |
| MCF task | `app/src/main.rs` `mcf_task`, `app/src/mcf.rs` | what was last written to the controller, verdict, readiness | serves clear-fault, MPET, console accesses, the ceiling, the speed word; reads the status |
| MCF configuration | `core/src/mcf_config.rs` | none of its own: the controller's shadow and EEPROM registers | check, stage, tune, apply, sentinel checks |
| MCF protocol | `core/src/mcf8316.rs` | none | frames, checksums, register maps |
| Console | `app/src/console.rs`, `core/src/console.rs` | configuration-service flag, stream rate | parses requests, gates commands, exchanges register accesses |
| Matter device | `app/src/matter.rs`, `core/src/matter.rs` | none of its own beside the external stack | maps attributes to commands and telemetry to attributes |
| Firmware update | `app/src/ota.rs`, `core/src/ota.rs` | update-active flag, boot records | gates uploads, holds the fan off, reboots, confirms or rolls back |
| Watchdog heartbeat | `app/src/main.rs` `heartbeat_task` | last beat seen | toggles a pin only while the control loop advances |
| Wi-Fi diagnostics | `app/src/wifi_diag.rs` | radio counters | reports |
| Host tool and simulator | `cli/` | serial session | talks to the console |
| Native KiCad transactions | `pcb/tools/kicad_native.py` | lock file, scratch directory with recovery copies, receipt | validates a batch of operations, applies it to a copy, judges the copy, publishes it file by file or rolls back |
| Verified schematic edit | `pcb/tools/kicad_schematic.py` | none | replaces field texts of a schematic after checking the netlist of the result |
| tscircuit handoff | `pcb/tools/tscircuit_handoff.py` | comparison lock, staging directory | stages a seed from the source, compares source, schematic and board, plans and accepts engineering changes |
| PCB workflow and readiness | `pcb/tools/pcb_workflow.py`, `pcb_readiness.py` | evidence directories with `run.json`, the lock | begin, plan, apply, validate, review, accept |
| Fabrication release | `pcb/tools/jlc_fab.py` and the checkers it calls | `fab/` with plots, archives, assembly files, manifest | gates a board, exports its files, binds them in a manifest |
| Board surgery, CAD, booklets, bench scripts | the rest of `pcb/tools`, `cad`, `docs/field-guides`, `firmware/scripts` | files | one-shot batch work |

The firmware and the tools share no state. Among the tools, the workflow calls
the handoff, the audit and the native transaction as commands and knows them by
their receipts; the release generator reads the board and the schematic that
the others leave.

The hard parts are the ones no single test sets up: the interleaving of the
control loop with the tasks it pre-empts (a snapshot that is stale when it is
used, a signal that keeps only the latest value), partial failures of long
register operations, resets of the controller or of the ESP alone, and, inside
the supervisor, sequences of legal commands and bad inputs that meet in the
same tick. In the tools nothing locks the files that a chain of commands reads:
designers, editors and other commands save them between any two steps, and a
run that fails or is killed leaves what it wrote. `PROJECT.json` lists each hazard at the line where it bites.

What makes each component correct:

* *Supervisor and control loop*: no permission without the whole DRVOFF hold, a
  still rotor and zero speed; no speed while blind; what the firmware believes
  it emitted is what the board holds; faults latch; nothing waits for ever.
* *MCF task*: readiness and verdicts describe the controller as it is, or are
  withdrawn within a bounded time of its changing; an extraction that was
  started is aborted.
* *Configuration*: a verdict that permits operation is given only to registers
  that were read back equal; a partial write is never runnable.
* *Console*: an answer belongs to its request; drive commands and configuration
  writes exclude each other.
* *Update*: no erase while the motor turns, no silent fault acknowledgement, an
  image ends confirmed or rolled back.
* *Native transaction*: what is published is what was judged; all of it or
  nothing; bytes the tool has not seen are not overwritten; what was overwritten
  can be recovered; a batch does what it declares, in any order.
* *Handoff*: an accepted board is wired as its source says; a plan names every
  change; what KiCad owns changes only as declared.
* *Workflow*: the lock advances only to a state that was planned, validated and
  reviewed, with evidence of that very state.
* *Release*: an upload came through the gates; a manifest that verifies speaks
  of files made together.

## 2. Plan

| Order | Module | Models | State |
| --- | --- | --- | --- |
| 1 | `Supervisor` | `core/src/state.rs` with the parts of `tach.rs` and `speed.rs` it calls | done |
| 2 | `SupervisorProofs` | its invariants, for every value of the constants | done |
| 3 | `DrivePermission` | the abstract contract on drive permission | done |
| 4 | `FanControl` | the supervisor in its control loop with the board; implements `DrivePermission` | done |
| 5 | `ControlLoop` | command queue, configuration service, abort path, telemetry snapshot, MPET and register requests to the MCF task, with console and Matter as senders | done |
| 6 | `Ota` | gate, upload, hold and reset among the other senders | done; confirmation and rollback later |
| 7 | `McfTask` | the configuration operations over registers, verdict, readiness, ceiling, sentinel and speed override, against a controller that can lose its registers | done |
| 8 | `NativeTransaction`, `NativeBatch` | a board transaction among other writers, with crashes; the operations of one batch | done |
| 9 | `NativeTransactionProofs` | its properties, for any runs, files and contents | done |
| 10 | `HandoffDesign`, `HandoffEco` | the handoff's rules, then a board's life under them | done |
| 11 | `PcbWorkflow` | the commands from staging to acceptance, step by step | done |
| 12 | `FabChecks`, `FabRelease` | the release generator's demands, then its runs | done |
| 13 | `ControlLoopProofs`, first part | the board's invariants and the refinement, for every value of the constants | done |
| 14 | `McfTaskProofs` | what the task publishes, the override and the sentinel, for any candidates, raw writes and slices | done |
| 15 | `ControlLoopProofs`, second part | the shared cells, the service, the abort and the extraction, for queues of any length and any inputs | done |
| 16 | `PcbWorkflowProofs` | the lock and the native project, for any runs, sources and versions | done |
| 17 | `FabReleaseProofs` | the package and its manifest, for any boards, versions, saves and runs | done |
| 18 | `HandoffEcoProofs` | the lock, its wiring, the change list and what KiCad owns, for any designs, boards and ECOs | done |
| 19 | `NativeBatchProofs` | what a batch does, its order and what it leaves alone, for any boards and batches | done |
| 20 | `Access`, `OtaBoot`, boot | request and reply generations; confirmation and rollback over reboots; the boot sequence | later |
| 21 | `Watchdog`, `Tach`, `Speed` | heartbeat hand-over; counter wrap, estimates and percent mapping against reference definitions | later |

Theorems worth proving later: the safety half of `UpdateHoldsOff`.

## 3. The modules

### `Supervisor`

One variable per field of `Supervisor` (`state.rs:224-266`) that decides
anything, one action per command and one per branch of `poll`.

* **Time.** The code stores instants and subtracts them from `now`. The model
  keeps the age each instant has reached, in control ticks, saturated at the
  largest threshold it is compared with (`Older`). `Elapsed` is the set of tick
  counts that may pass between two polls: a poll may come late.
* **A poll** is one step: `Observe` (tach, bus health, verdict), then exactly
  one branch in the order the code tries them (`PollFault`,
  `PollExternalFault`, `PollUnpermitted`, `PollDisarm`, then the handler of the
  state). The burst it returns is the variable `actions`; `If`, `Demote` and
  `EmitDuty` are the conditional pushes.
* **A command** changes intent only (`IntentOnly`). `SetReleasedMin` is
  `set_released_min`.
* **Abstractions.** The three ways in which the MCF itself reports a fault are
  one input and one reason, `"Mcf"`: the code only reports the difference.
  Duty and telemetry values are whole steps of a table `DutyFor`, of which the
  module assumes only that stopped is zero and the user band is not; the ramp's
  sub-milli-RPM remainder is left to the planned `Speed`. The user minimum and
  `RUN_CURRENT_PROMOTE_MIN_RPM` are one constant because the code gives them
  the same value. A duty emitted twice in one burst keeps its last value.
* **Slips.** Definitions commented "a slip" are mistakes a change to the code
  could make. No behaviour uses them: each takes the place of the definition
  after it to show that a property notices.

### `DrivePermission`

What the fan promises whatever its reasons: a grant only after the whole hold,
at zero demand; direction moves only at a grant; hardware may take permission
away at any time; only a new grant brings it back.

### `FanControl`

A control tick: poll, then apply every action of the burst (`Board::apply`).
It is one step because `control_task` runs on the highest-priority executor and
does not await between the two. The latch may refuse an arming pulse (the
analog safety lock outranks it) and may drop at any time (`HardwareTrip`).
`sinceRevoke` is a history variable: the time since anyone last revoked
permission. `Contract` maps `DrivePermission` onto it: granted is "the
supervisor is in an armed state", demand is the reference handed to the MCF.

### `ControlLoop`

Extends `Supervisor` with the tasks around it. The tick of `control_task` is
the stages `BeginTick`, `Drain` (one command each), `EndDrain` (with the forced
`Off`), `TakeAbort` and `PollSupervisor`; a tick pre-empts everybody, so every
other action needs `stage = "Asleep"`. Console and Matter run on one
cooperative executor and lose control only to a tick: `ThreadFree` says that
neither is between two of its steps, and the places where a tick may fall
inside a handler are steps of their own (`ConsoleCommand` then `Send`,
`PermitWrite` then `ClaimService`). The MCF task is pre-empted the same way and
pre-empts thread mode; its requests are the two MPET signals and the register
access, its bus work takes any time and may fail.

The rail is watched by `pgood_task`: `RailDips` is a fall, however short. It ends
what the MCF was doing, and `Sees` says that the next tick finds no verdict
(`after_pgood_loss`), and none comes back before a new check.

Telemetry is the supervisor's state as the last tick left it, which is what a
reader outside a tick sees. Queue entries carry ghosts: who sent them, and
whether a fault stood when they were sent. `abortedSince`, `abortLost` and
`extracting` (what the MCF itself holds) are history as well.

The access generation is modelled by what it decides: whether the answer is
still awaited. Reads, dumps and status requests change nothing here and are
left out.

### `Ota`

Extends `ControlLoop` with the update tasks. The esp-lan-ota library is
external: `IsUpdating`, `BeginUpload` and `FinishUpload` say what the tasks see
of it. `accepting` is the gate as last refreshed, `StandDown` decides on the
telemetry and sends through the same queue as everyone else. The model ends at
the reset (`down`), so its runs do not check deadlock. The configuration
service and `mpet abort` are left to `ControlLoop`.

### `McfTask`

Stands beside `ControlLoop`: the same task, seen from the controller's
registers. `at` and `slice` are where `mcf_task` is in its cycle: an access, the
ceiling, the sentinel, then the slices, each an access, the speed word and a
sleep. An operation of `mcf_config.rs` is a job: a sequence `todo` of steps,
one per setting, and the verdict `outcome` it publishes if all of them
succeed. `Compare` is `check`'s read, `Ensure` is `write_shadow`'s
read-modify-write, `Put` a raw write, `Commit` and `Confirm` the EEPROM
command and its poll. Any step may fail (`StepFails`), which ends the job and
fails the verdict.

The block of registers is four: one a candidate overrides, the sentinel, the
one with `ILIMIT` and the only one in which the two images differ. That is what
the properties tell apart; the words themselves are `golden`, `bench`, a
candidate, `settling` or `factory` for everything foreign.

`Tick` is what the control loop does to the task's cells: the invalidation
after a rail loss and what the supervisor asks for. What it may ask for is the
part of `Supervisor` and `ControlLoop` this task depends on: the acquisition
ceiling and no speed under a verdict that does not permit operation (proved, in
part, as `NeverBlind` and `CeilingLow`) or while a write is served (`loop`
checks it for writes answered in time). `unsure` is a history variable: it says
that the device lost its registers and no job has begun and ended since, in
which case nothing can be said of them.

The status read, whose result goes to the supervisor, the boot check, the
fault-clear and extraction commands (in `ControlLoop`), and reads and dumps are
left out. The published verdict is abstracted from its fault code.

### `NativeTransaction`

Any number of `kicad_native.py apply` runs (`Txns`) and `kicad_schematic.py`
runs (`SchEdits`) on one project directory, with a KiCad editor and a program
that heeds no lock. A content stands for a file's bytes and for their hash; a
file that is not there has the content `Absent`, so that the inventory check is
part of the comparison.

* **A transaction** goes `Plan` (the document's `before` hashes), `Validate`,
  `TakeLock`, `Revalidate`, `CopyInputs`, `SaveCandidate`, `RunValidator`,
  `FinalCheck`, then for each changed file `Recheck` and `Replace`, then
  `WriteReceipt`, `Unlock` and `Cleanup`: a step of the model wherever another
  process can come in between. `Recheck` and `Replace` are two steps, as in
  `_publish`: the window between them is in the model.
* **Failures.** Any step may fail (`Fail`); a replacement that fails starts the
  rollback, which compares each published file (`RollbackCheck`) and copies it
  back in two steps, `RestoreBegin` leaving it torn. An interrupt is not an
  `Exception`, so it skips the rollback (`Interrupt`). A kill (`Crash`) may come
  anywhere and leaves the lock, the files and the scratch directory.
* **History.** `late`, `opened` and `disturbed` record what happened outside
  since a process last looked.

### `NativeBatch`

The board as a function from UUIDs to items, with the eight kinds of operation.
`Valid` and `Preflight` are the checks, `Apply` is what KiCad's setters do
(`Rotate`, `Move` external), `Expect` the read-back expectation the tool
computes without them. A batch is composed, submitted (`Submit`), applied an
operation at a time (`ApplyNext`, a turn of the loop of `_apply` and one of that
of `_expected_readback`, which share nothing) and compared (`Compare`).
Positions are grid points, rotations quarter turns.

### `HandoffDesign` and `HandoffEco`

`HandoffDesign` is the pure part of `tscircuit_handoff.py`: valid manifests and
augmentations, `ClassifyChanges`, net-name canonicalisation (`Bookkeeping`),
`Parity` of a board, `SchematicParity`, the plan's blockers (`PlanBlocked`) and
`Preserved`. `HandoffEco` is one board's life: `Adopt` (stage and accept), the
author's edits of source and augmentation, the designer's edits in KiCad,
`TakeBefore` and `AcceptEco`. Its commands are atomic; taking them apart is
`PcbWorkflow`'s part. `starts` is history: what KiCad owned on boards whose
source-owned state was the accepted one, and in the snapshot the last ECO started
from. `EcoAssumption` says which fields the manifest's entries have, and
`NameAssumption` that a name on a board has one without its sheet path (`Bare`). `AllApart` is no
assumption of the module but a hypothesis of two theorems (section 5);
`MCHandoffEco` asserts it of its instance.

### `PcbWorkflow`

Files are the versions they hold. The commands of `pcb_workflow.py`, and the
handoff's `stage` and `accept`, are sequences of steps that read, compute and
write; edits of the source (`EditSource`), of the native project (`EditNative`)
and crashes come between any two. `run.json` is a record whose evidence is the
value it names, since evidence is stored by digest. A command that raises
leaves the index as its last `write_index` did. `box` holds each command's staging
directory: its name is random and printed with the receipt, so it is accepted only
whole, and by any later command. `NoneAssumption` sets the value for "not there"
apart from every index, lock, seed and review, as JSON's `null` is.
There is no `workflow.json` in the repository; the profile is left generic.

### `FabChecks` and `FabRelease`

`FabChecks` says what the gates and the assembly files demand of a board, a
schematic and a source map: waivers by UUID (`Active`), the frozen capture
(`Captured`), the reference partition (`AssertRefPartition`), the table
`BOARDS`. `FabRelease` is `main`: the steps of a run for each of the four
boards in the order of the code, any of which may fail or be killed, with saves
of the design between them. A run is the set of steps it has left; `Place` is the
order of the main program, and `Doing` the first of them. A file of `fab/` is what it was made of, or torn.
The V2 schematic's sheets are one version, the project file and the design
rules are counted with the board, and hashing the manifest's inputs is one
step. `assembly-locator.pdf`, which the manifest does not list, is left out.

### The MC modules

Instances. For the firmware the input sets contain the sound board, rotor
turning or still on each channel independently, and single deviations from it
(rail down, MCF fault, each status, each verdict). For the tools they are small
projects: three files and two byte values; a board with two footprints; two
parts on two nets; a change of source with a faulty and a sound drawing of it;
each release board with good files and some that a check has to refuse.

## 4. The runs

| Run | Asks |
| --- | --- |
| `drive` | With starts, stops, reversals, extractions, disarms and every single bad input in any order, do the caches, the ceiling, the burst, the fault latch and supervision hold, and do extraction and drive stay apart? |
| `live` | Does every wait end, and is a released minimum raised under a running fan reached, also when polls come late? |
| `contract` | Does the control loop with its board implement `DrivePermission`, arm and reverse only at rest, and revoke at the first tick after a disarm? |
| `loop` | Does a configuration write that is answered in time ever meet an armed drive; does an abort outrun every extraction requested before it, in the queue, the supervisor, the signals and on the bus; does a command sent before a fault, or forced by the service, acknowledge it; is the service's flag ever left set by a handler that ended? |
| `hold` | Does an update bring the fan to rest against Matter, and does a staged image always boot? |
| `config` | Does a verdict that permits operation speak of the registers as they are, whatever failed, was ignored or lost; does readiness mean the acquisition ceiling; is the speed override withdrawn with the verdict; is a lost image noticed within a cycle? |
| `publish` | With two transactions, a schematic edit, an editor and one write from outside, failing and crashing anywhere: is what is published what was judged, is it all or nothing, is everything overwritten seen or recoverable? |
| `batch` | Does every accepted batch of up to two operations do what its read-back expects, in any order, touch only what it names, and leave the outline closed, if it does not draw two first ones? |
| `eco` | Is an accepted board wired as its source says, whatever aliases and unconnected nets it uses; does the plan name every change; does what KiCad owns, and routed copper, change only as declared? |
| `workflow` | Can edits between commands, two runs from one lock, or a crash let the lock advance to something not planned, validated and reviewed as it is? |
| `fab` | After any runs that fail, are killed or replace the assembly only, do archives hold one board's plots, do the assembly files agree, and does a manifest that verifies speak the truth? |
| `stored` | Violated: an apply that answers verified has stored the image |

Several of the checked names are conjunctions of named parts, so that a run
states a component's consistency once: `Consistent` (`TypeOK`,
`DutyFollowsRamp`, `CeilingDemoted`, `MpetExcludesDrive`), `BoardConsistent`,
`LoopConsistent`, `ExtractionContained`, `PublishedHolds` (with
`RunnableHolds` and `ReadyMeansAcquisition`), `Protected` (`TypeOK`,
`OneTransaction`, `RecoveryKept`), `BoardKept`, `EcoConsistent`,
`WorkflowConsistent`, `PackageAgrees` and, for liveness, `WaitsResolve`. The
parts are defined just before the conjunction, each with the behaviour it is about.

**Bounds.** Every duration is two to four ticks, long enough to be met
exactly, missed by one and overtaken, and distinct where the code compares two
of them; `SAFE_BOOT_HOLD` exceeds `STOPPED_QUIET` as in the code. Speeds are a
stopped value and a user band of two or three steps, requests lie below,
in and above it, so both clamps bite. Two bus failures make a fault, so one is
tolerated. `AGE_LIMIT` is the largest threshold, beyond which ages are not
compared. `ControlLoop` and `Ota` run with one speed and the rail as the source
of faults: their properties are about who sent what when, not about which fault
it was. In `loop` the rotor stands still, so that a start fails and a stop
completes at once, and the rail may dip between any two steps; a turning rotor is
in `hold`, and the proofs take any input. The queue holds two commands (one
in `Ota`), so it is full with one sender's command ahead of another's; the
service looks once or twice, so it may give up before or after the fan has stopped, and
the update once. Each run has the commands its question is about, and between
them the runs send every command. `McfTask` runs with
one candidate, raw writes to one register, one slice, the acquisition and the
settling ceiling (the running one is the acquisition word) and, in `config`,
one register that ignores writes. `FailuresLand` says whether a write that is
reported failed may have been performed; it is FALSE in `config`. With it TRUE
`ReadyMeansAcquisition` fails, and so does `RunnableHolds`: a raw write that
lands and is reported failed leaves `Verified` standing, because
`write_and_recheck` returns before its check. A later slice repeats what the
first one does.

In `publish` two transactions meet in every order, with one write from outside
(`MaxOutside`), three files and three contents; a second write can only
disturb more. `batch` composes up to two operations out of some 140, right and
wrong ones, on a board with an outline and on one without; two are enough, as
what `Inv` says of longer batches it says pair by pair (section 5). `eco` allows one edit by the author (out of seven sources and one
operation) and two by the designer, enough to route and to move or to rewire.
`workflow` has two evidence directories, one change of source, three versions of
the native project, two reviews, and one command at a time (`Procs`): two
commands at once race on `run.json` and on the lock, which nothing in the tool
excludes, and then an edit may be applied, or the lock advance, under another
run's plan; what the lock records is sound for any number of them (section 5). Edits
never bring back an earlier version (`Restores` is FALSE): a
validation compares the project before and after, not in between. `fab`
has three runs and two saves of a board, so that a full run, one that fails
and an assembly-only run meet in any order; of PCB-01 V2 there are three boards and
three schematics, and a bad one has a flaw for the gate and one for the assembly
files, so that leaving out either check shows. `Tearable` names the two files a
killed run may leave torn. These five and `hold` do not check deadlock: their
bounds or their last step stop them. Nothing else is bounded. The proofs show that the invariants do not
depend on these values.

**Fairness.** `FairSpec` assumes weak fairness of the poll only: the control loop runs on the Priority3 interrupt executor, above every
other task, sleeps a fixed 50 ms and awaits nothing else (`main.rs:303-376`);
the hardware watchdog takes over if it stops. Nothing is assumed of users, of
the rotor, of the MCF or of its task. `FairOtaSpec` adds
strong fairness of the thread-mode steps of a sender and of the update: a step is enabled only
between ticks, so it is enabled again and again rather than for good, and the
loop sleeps most of its 50 ms. Users, the host and deadlines are never assumed to act. In
`hold` Matter sends starts and stops: a sender that filled the queue without a
pause with commands that acknowledge faults could keep the update's `Off` out
for as long as it went on, which the 250 ms looks of the update do not meet in
practice.

The tools' runs state safety only: nothing in the tools promises to finish.

**What the runs found.** `AppliedIsStored` fails because `apply` commits only if it wrote a shadow
register in the same call. When the commit of a first apply fails, a second one
finds the shadow as it should be, commits nothing and answers `Verified`; the
fan runs on it until a power cycle brings the old EEPROM back, when the boot
check fails.

The other disagreements have no run of their own. In the firmware,
`ReadyMeansAcquisition` fails with failures that land (`FailuresLand`):
`last_written` still says acquisition after a settling write whose read-back
failed, so the next acquisition request is reported ready at once.
`WriteExcludesDrive` holds while accesses are answered in time: past the
deadline `config` ends the service while the MCF task goes on writing
(`console.rs:287`). A failed extraction start is reported through the path of
`mpet abort`, so it acknowledges a fault entered before the next tick
(`main.rs:505`). The upload gate is up to 250 ms old, and a command sent before
`UPDATE_ACTIVE` was set is still performed, so a flash erase may meet an armed
drive (`ota.rs:160`); `UpdateHoldsOff` shows that the update still stops it.
A rail that dips during an extraction sends the supervisor to `SafeBoot` without
an abort (`state.rs:455-462`, under the comment "Never let a queued On or MPET
request survive that boundary"). A start that still waits in
`MPET_START_REQUEST`, or is being written, survives it: the MCF task writes it to a
controller that is back on its rail, under a supervisor that times nothing, and an
`mpet abort` of the console may be served before it. `ExtractionContained` excludes
this (`Deserted` sets `abortLost`), as it excludes an abort the bus refused.

In the tools: the release gate of PCB-03 reads the electrical findings from the
top of KiCad's report (`jlc_fab.py:237`), which lists them under its sheets, as
the initial check of the handoff knows (`tscircuit_handoff.py:2010`), and asks
for no exit status, so electrical findings never stop it (`ErcAtTop`). A
manifest may bind a board saved after the gate and the export (`settled`
excludes this). A footprint deleted and placed again, with a new UUID, passes
preservation although `docs/pcb-workflow.md:64` speaks of identities being
kept; and parity compares net names without their sheet path
(`docs/pcb-workflow.md:32`).
Two first outlines in one batch are both accepted (`kicad_native.py:645-659`):
each is checked against the board as it was opened, which has no edge, so a board
may end with two rectangles although a "New rectangle requires no existing
Edge.Cuts" (`OutlineClosed` excludes such a batch).
`accept-eco` compares what KiCad owns with the snapshot the ECO started
from and never with the lock's (`tscircuit_handoff.py:2621-2702`), and the plan's check for
drift is about what the source owns (`tscircuit_handoff.py:1700-1712`). So an ECO that starts again
from a snapshot taken before an earlier one may undo a zone accepted in the
meantime and name no operation for it; `KicadOwnedKept` therefore counts that
snapshot among `starts`. Nothing refuses a `net_alias` that gives one net the name of another
(`tscircuit_handoff.py:482` asks only that it is not empty); parity
then accepts a board that merges the two, which is why `AllApart` is a
hypothesis.
A source edited between the build and the
fingerprints of `validate` may be fingerprinted with the manifest of the older one
(`pcb_workflow.py:370`); the instance has such edits, and `accept` compares
the fingerprints only.

One limit of `LossNoticed`: it speaks of the sentinel's word. The bench image
and the golden image share that word, so a controller whose EEPROM holds the
golden image and resets itself under a bench verdict keeps the verdict
(`mcf_config.rs:635` counts on reset silicon not reproducing the word).

## 5. The proofs

`SupervisorProofs` proves, for all values of the constants that satisfy
`TimingAssumption`, `SpeedAssumption` and `InputAssumption`:

| Theorem | Property | Argument |
| --- | --- | --- |
| `TypeCorrect` | `TypeOK` | inductive; split into intent, observation, flags and control, one lemma per branch of `poll` |
| `DutyInStep` | `DutyFollowsRamp` | inductive given `TypeOK`: every reset of the ramp meets a duty of zero, and the ramp's step stays in the user band |
| `NeverBlind` | `NoBlindDrive` | inductive given `TypeOK` and `DutyFollowsRamp` (a duty implies an armed state, in which the branches before the handler test all three conjuncts) |
| `CeilingLow` | `CeilingDemoted` | inductive alone |
| `BurstsFit` | `BurstFits` | given `CeilingDemoted`: an extraction runs at the acquisition ceiling, so a burst holds a demotion or an abort and never both |
| `MpetNeverDrives` | `MpetExcludesDrive` | inductive alone: polls only withdraw requests |
| `Consistency` | `Consistent` | the four theorems about its parts |
| `FaultLatches` | `FaultLatched` | from the invariant that an acknowledgement is pending in `Fault` only |
| `ExtractionsAborted` | `MpetAborted` | from the invariant that in `Mpet` the extraction was started, and one lemma per branch of `poll` on what its burst holds (`Extracts`) |

The assumptions are those the code's constants meet; TLC evaluates them in
every run.

The first part of `ControlLoopProofs` proves, under the same assumptions, of the
supervisor in its control loop with the latch and the pins:

| Theorem | Property | Argument |
| --- | --- | --- |
| `BoardAgrees` | `BoardConsistent` | inductive with `HoldPaid`, see below |
| `ArmsAtRest` | `ArmedAtRest` | a pulse is in a burst only out of `IdleOff`, where `HoldPaid` says that the whole hold has passed since anyone revoked |
| `ContractImplemented` | `ImplementsContract` | the initial states map to initial states; a tick maps to `Rest`, `Grant`, `Drive` or `Revoke` by whether the state was and is armed (`TickContract`), a hardware trip to `Trip`, a command to a stutter |
| `DisarmObeyed` | `DisarmRevokes` | `poll` tries the disarm before every handler, and what comes before it revokes as well |

`FanSupervised` shows that the loop only adds a board to the supervisor, so
`TypeOK` and `DutyFollowsRamp` carry over. Then there is one lemma per branch of
`poll` on what its burst tells the board (`BurstTells`: an action is left out only
if its value is unchanged, permission is asked for at rest and given back on
every way out of the armed states) and on how the unarmed states are reached
(`Waits`). The inductive invariant `BoardInv` adds `HoldPaid`: what has been waited
in `SafeBoot` was waited with permission off, and in `IdleOff` the hold is paid.
Without it, agreement of the pins would be inductive, but a pulse would not be
known to come after the hold.

`McfTaskProofs` proves, for any candidates, registers that ignore writes, raw
writes, ceilings and slices that satisfy `McfAssumption`, and for a bus on which a
write that is reported failed was not performed (`~FailuresLand`, without
which the properties fail, section 4):

| Theorem | Property | Argument |
| --- | --- | --- |
| `PublicationsHold` | `PublishedHolds` | inductive with `IInv`, see below |
| `SpeedWithdrawn` | `OverrideWithdrawn` | the override and what the task believes of it change together, and a reset withdraws it |
| `LossesNoticed` | `LossNoticed` | `LossInStep`: past the sentinel's turn, a loss of the cycle before stands only under a job that will publish a verdict of its own |

`Plans` says what an operation sets out to do: it ends with a comparison of every
register with its image (`Ahead`). The heart of `IInv` is `CheckInStep`: while a
job that may publish a runnable verdict is at work and the registers have not
moved under it, every register is either to be compared after the last write
or has been and still holds its word (`Behind`). So the verdict is true when it is
published (`PublishedTrue`); `ImageStands` and `LimitStands` keep it true, since
whatever disturbs the registers is a write under a job, which `Clean` excludes, a
ceiling, which a bench image leaves open, or marked in `unsure` (`StaysClean`).
`RunnableHolds` alone is not inductive: it says nothing of a raw write that is
refused and leaves the verdict standing.

`NativeTransactionProofs` proves, for any sets of transactions, schematic edits,
files and contents and any number of outside writes, given `FilesAssumption`,
`ContentAssumption`, `ProcessAssumption` and `BoundAssumption`:

| Theorem | Property | Argument |
| --- | --- | --- |
| `TypeSafety` | `TypeOK` | inductive; the invariant is split into the shared, the place, the copy and the history part |
| `MutualExclusion` | `OneTransaction` | `LockHeld`: whoever is in the critical section is named in the lock file, so two would be one |
| `Recovery` | `RecoveryKept` | `CopiesInv`: from the copy of the inputs on, the recovery copies are the bytes of the plan, and the scratch directory goes only with the receipt or with nothing published |
| `Protection` | `Protected` | the three theorems above |
| `JudgedPublication` | `PublishedAsJudged` | `CandidateInv`: from the validator on, candidate, hashes and judged copy agree and differ from the plan in permitted files only; only `Replace` publishes |
| `EditsKept` | `NoLostEdit` | `AwareInv`: a compared file still has the compared content, unless its process is marked late |
| `EditorsKept` | `EditorUndisturbed` | `EditorSeen`: while a transaction publishes, an open editor opened after its final check |
| `Atomicity` | `AllOrNothing` | `AloneInv`: an undisturbed transaction sees exactly what it published of the new files and the old rest |

A transaction's steps are grouped by what they touch (lemma `Parts`: prepare,
judge, publish, leave, others), and `Frame` says what one process can notice of
another's step; each invariant is then one lemma with a step per group.

The second part of `ControlLoopProofs` proves, adding `LoopAssumption`, of the control
loop among the tasks around it:

| Theorem | Property | Argument |
| --- | --- | --- |
| `LoopStaysConsistent` | `LoopConsistent` | types, one lemma per group of cells; the flag is raised exactly while the console begins or writes |
| `WritesExcludeDrive` | `WriteExcludesDrive` | `ServiceInv`: the ticks that count for a write saw the service, dropped the queue and forced the fan off, so a stopped fan has nothing to start; `ExchangeInv`: a write that is awaited has its console waiting |
| `ExtractionStaysContained` | `ExtractionContained` | `AbortInv` follows an aborted extraction through the queue, the request and the state; `ExtractInv` follows a start from the burst to the device and finds a supervisor, an abort or a lost abort at each place |
| `FaultsAcknowledgedAfresh` | `AcknowledgedAfresh` | `QueueInv`: nothing waits in the queue across a poll, so each command finds the fault its sender saw |

The inductive invariant `LoopInv` is the conjunction of these parts and the types. Of a
poll it uses only `Tame` and `Extracts` (in `SupervisorProofs`): a poll
acknowledges nothing, asks for no extraction, leaves a stopped fan stopped if nothing is
wanted, and starts an extraction on entering `Mpet` and aborts it on leaving.
The properties alone are not inductive: they speak of the ends of these paths.

`PcbWorkflowProofs` proves, for any evidence directories, sources, versions of the
native project, reviews and faults, given `WorkflowAssumption` and
`NoneAssumption`:

| Theorem | Property | Further hypotheses | Argument |
| --- | --- | --- | --- |
| `WorkflowTypes` | `TypeOK` | none | inductive with `TypeInv`: which evidence an index holds at which stage |
| `SeedIsAdopted` | `AdoptedAsStaged` | none | `LockHeld`: a command on a run starts after the first lock, so that only the handoff writes the first |
| `LockIsSound` | `WorkflowConsistent` | `Restores = FALSE` | `SoundInv`, see below |
| `AppliesWhatWasPlanned` | `AppliesToBaseline` | `OneAtATime` | `ApplyInv`: what a command holds of its run is what the index says, up to the step that applies |
| `AdvancesAsPlanned` | `AdvancesAsReviewed` | `OneAtATime`, `Restores = FALSE` | `ReviewInv`: a review saw the renders of the validation it names, and those are the renders of the project that validation checked |

The lock alone says nothing of how it came to be, so `SoundInv` follows a validation: what
each of its steps read was a version between the one it began with and the present
one (`Seen`), and at its end first and last are the same. Versions only grow while
no edit restores one, so all the checks saw the project that the conclusion names;
the evidence of such a validation stays sound in the index, and `accept` compares
the project with it once more. This needs no exclusion: any number of
commands may run at a time. The other two do: with two commands, one may replace
the index of a run between the other's reading and applying it.

`FabReleaseProofs` proves, for any versions of a board's files, any layouts,
schematics and maps, waivers, saves and runs, given `ReleaseAssumption` (there is
a first version of each file):

| Theorem | Property | Argument |
| --- | --- | --- |
| `RunsKeepOrder` | (the inductive invariant `FabInv`) | see below |
| `PackageIsOfAPiece` | `PackageAgrees` | a run that ends has passed all five assembly steps; `GerberInv` follows the directory from empty to whole |
| `VerifiedIsTrue` | `ManifestSpeaksTrue` | `ManifestInv`: what a manifest lists was a whole, agreeing package when it was bound, and made from the versions it lists if nothing was saved; what verifies is that package |
| `BindingIsFresh` | `NoStaleBinding` | a step after the binding writes nothing; an assembly-only run has unlinked it |
| `NothingUngated` | `UploadIsGated` | `GateInv`: while nothing is saved, the gate's answers are true of what is there |

The steps left are an upper part of the board's steps (`OrderOK`), so that a run
which does one step has passed all the earlier ones (`Before`, `Passed`). `FabInv` says
for each step what is true once it is passed: of the directory of plots, the gate's
answers, the documents, the assembly files and the manifest. A failure leaves no
step passed, a save ends what depends on `steady`, and no step writes the file of
one that is passed (`Frame`, `Writers`). The properties alone say nothing of a run under way,
so none of them is inductive.

`HandoffEcoProofs` proves, for any designs, augmentations, footprints, boards,
drawings and edits, given `EcoAssumption` and `NameAssumption`:

| Theorem | Property | Further hypotheses | Argument |
| --- | --- | --- | --- |
| `LockIsSound` | `EcoConsistent` | none | `Made`; `ReplayYieldsNew`: the change list of two valid designs, replayed on the first, yields the second |
| `RoutedBoardsAreAsked` | `RoutedNeedsConsent` | none | `SameLogic`, `SamePlaces`: without a change of the listed kinds the logic and the places are the same; `KeptCopper`: copper the ECO did not add was there before it |
| `AcceptedBoardIsWired` | `AcceptedIsWired` | `AllApart` | `LandNames`: what parity leaves on a land, before the pass that takes KiCad's own names off it |
| `NothingElseChanges` | `KicadOwnedKept` | `AllApart` | `Noted`: the snapshot an ECO may start from is one of `starts`; `TakenAlike`, see below |

The inductive invariant `Made` says that the source is one the author could have
written, that the lock records a valid design with a valid augmentation and a
snapshot in parity with it, and that both snapshots were taken of boards, those with tracks being
routed. The properties say nothing of the snapshots, so they are not inductive.

`AllApart` asks that names tell nets apart: under no valid augmentation do two nets
of a valid design get one name, no name is empty once normalized, and KiCad's name
for an unconnected pin is neither that of a net nor that of another such pin. KiCad sees to
the last; the first is the author's to keep, as section 4 says.

A snapshot is compared with the lock's after a pass over its nets for the design
it was taken for and one for the accepted design (`canonical_source_nc_nets`). `TakenAlike` shows that
the first does not matter: if what it leaves agrees with the accepted snapshot,
which is in parity, a pass for the accepted design leaves the same, land by
land. So a snapshot that shows no drift is of a board that shows none.

`NativeBatchProofs` proves, for any boards, operations and batches of any length, given
`BoardAssumption` and `BatchAssumption` (boards and operations have the fields the
tool reads):

| Theorem | Property | Argument |
| --- | --- | --- |
| `Invariance` | (the inductive invariant `Inv`) | see below |
| `SettersDoAsDeclared` | `ReadbackAgrees` | `ApplyIs`: on a board that an operation fits, setters and expectation make the same of every item; for a move, `ItemMoved` and `PadMoved` reckon both ways round the turn |
| `AnyOrder` | `OrderIrrelevant` | `Commute`, item by item: named by neither, by one, or by both, which then move a footprint and write its fields |
| `BatchKeepsBoard` | `BoardKept` | `InvOutline`: the edges are untouched, or the one rectangle drawn, whose four ends meet (`RectangleCloses`) |

What makes it work is `FitKept`. Every operation is preflighted against the board as
it was opened, but applied to one that earlier operations have changed. `Fit` is what an
operation needs to find: less than its preflight asks, as a pad's owner may have moved.
Operations with disjoint claims name no item twice but for the fields of a
footprint (`OneWrites`, `Shared`), so neither spoils what the other one needs, and
`Inv` keeps `Fit` for all that are to come. The properties say nothing of those, so
they are not inductive.

**Model-checked only.** Liveness (fairness and ENABLED are outside what the
prover handles), `FloorReached`, and for now everything about the update.

Smaller disagreements met on the way, without a run of their own: a fault
leaves the request to run standing (`enter_fault`), while the Matter mapping
says that it clears it (`core/src/matter.rs:117`); and an update's `Off`, chosen
before a tick that enters a fault, acknowledges it in the next, which
`quiesce_command` means to exclude (`core/src/ota.rs:52`). Then `push` and `enter_fault` say that the
revocation heads the burst, but `poll_winding_down`, for one, emits the zero
duty before it. As `BurstFits` holds, nothing is ever dropped and the order has
no effect.

## 6. Not modelled

Sections 1 and 2 say what is still to come. Frame encoding, text parsing and
formatting, the Matter stack, the radio and the USB driver are data conversions
or external. The host tool and the bench scripts record and analyse. Of the
tools: reading and writing of S-expressions, renders and drawings are data;
KiCad itself is external; the handoff's initial placement operator, the audit's
single rules, the board surgery scripts, the CAD check and the booklets keep no
state from one run to the next, and an order of steps cannot hurt them.

# FIDGET in TLA+

FIDGET tunes one MDPP digitizer module in a VME crate that another data
acquisition program, MVME, also uses. Through an MVLC controller it starts a
diagnostic acquisition, changes a waveform source or a parameter for a while,
and must leave the crate as it found it: when replies are lost, when a save
fails, when the process dies, and when somebody else takes over the crate in the
meantime. Its means are a *fingerprint* (DAQ mode is on and the readout stack is
the one FIDGET uploaded), a *recovery journal*, and a fixed order of journal
saves, register writes and readbacks. This project states what the program has
to guarantee, from the register access up to the front ends, checks it with TLC
on small instances, and proves the diagnostic session, the storage, the work on the
module's parameters, the register access and the guided workspace for every
instance with TLAPS.

All paths below are relative to the repository, which is under `src/`.

## 1. Inventory

### The components that carry the logic

| Component | State it keeps | Operations | Correct when |
|---|---|---|---|
| Ownership service (`hardware/OwnershipService.cpp`) | the published snapshot, `transport_`, `acquisitionSession_`, the receiver | one handler per command, `PollWatchdog`, passive detach | what it publishes is what the crate and the journal say; every command finds the objects it dereferences |
| Diagnostic acquisition (`DiagnosticAcquisitionOperation.cpp`) | record, quad, foreign and orphan marks | prepare, start, verify fingerprint, stop | no own run without a record; a removed record means a clean crate |
| Pause and resume (`DiagnosticPauseResume.cpp`) | none | pause, resume | nothing is changed while data are taken |
| Waveform source (`DiagnosticSourceOperation.cpp`) | the source entry of the record | change, restore on stop | a deviation is journaled before it is written and until its original is verified back |
| Parameter preview (`DiagnosticPreviewOperation.cpp`) | the preview entry, the published result | apply, restore, restore on stop | the same, and the published preview is the journaled one |
| Recovery (`DiagnosticRecoveryOperation.cpp`, `core/RecoveryVerification.cpp`) | a copy of the loaded record | check, recover an orphan, restore an idle crate | it overwrites only what FIDGET wrote, and it gets to an end |
| Capture, repair, bulk apply (`Scp*Operation.cpp`, `ScpTransactionPlan.cpp`) | results in the snapshot, a transaction | gated writes over the banks, verification, rollback | what is reported applied is on the module; a verified rollback has undone everything |
| Startup (`StartupPreparationOperation.cpp`, `DeterministicStartupOperation.cpp`) | phase results | preparation, four phases, audit | passed means the module is as planned |
| Tuning session (`TuningSessionCoordinator.cpp`, `PrepareTuningSessionOperation.cpp`) | target, evidence, tokens, a version 5 journal | edit, probe, open, prepare | a session is offered only for what was verified since it was named |
| Recovery journal (`core/RecoveryJournal.cpp`, `RecoveryJournalV5.cpp`) | a file | save, create exclusively, load, remove, promote | a save is all or nothing, whatever it reports; what is loaded is what was saved |
| Storage (`core/ApplicationStorage.cpp`) | directories, preferences | make durable, save, discover | concurrent processes and crashes leave whole files |
| MVLC transactions (`VmeTransaction.cpp`) | references, retries | read, write, stack execution | an answer is the answer to this request |
| Transports (`MvlcCommandTransport.cpp`, `MvlcDataReceiver.cpp`, `Bridge*.cpp`, `SshBridgeProcess.cpp`, `bridge/main.cpp`) | sockets, pipes, a child, reader threads | open, send, receive, close | order and completeness per channel, nothing leaked, every call returns while the child reads |
| Receiver, decoder (`AcquisitionReceiver.cpp`, `core/StreamDecoder.cpp`) | a thread, frames in assembly, histories | start, decode, publish, stop | no spliced waveform, none of another run |
| Command worker, watchdog (`CommandWorker.cpp`, `OwnershipService.cpp`) | a queue, two threads | post, run, stop and join | one task at a time; no joinable thread object is lost; joins return |
| MVME workspace (`core/MvmeInitScript.cpp`, `MvmeWorkspace*.cpp`, `MvmeExport*.cpp`) | none | find the target, evaluate scripts, export | FIDGET reads a workspace as MVME does and what it writes means the same |
| Command line (`cli/CliApp.cpp`) | one flow of stages | nine hardware commands, prompts, Ctrl-C | it leaves no session behind and reports its own results |
| Guided workspace (`core/GuidedWorkflow.cpp`, `ui/*Stage.cpp`, `ui/App.cpp`) | confirmation boxes | the stage and its buttons | what is offered is accepted, what is needed is offered |
| Pages of the new session (`presentation/GuiPresentation.cpp`) | none | page, header, claims, actions for a snapshot | nothing unsafe is offered whatever the evidence |
| Activity log, profiles and registry, fonts, layout | tables, text | formatting, parsing | not a question for a model checker |

### How they interact

The front ends submit commands; `Submit` posts each one to the command worker,
which runs one task at a time. The watchdog thread posts a poll, and the
receiver thread its waveforms, to the same worker. A task calls the operations,
which call the MVLC transactions over a direct or a bridged transport, and the
journal. Everything the front ends see is an immutable snapshot, replaced by the
worker; the front ends decide on a snapshot that may be old when their command
is executed. Nothing serialises FIDGET with the other user of the crate, and
several FIDGET processes may share one application home.

### What is hard

* **Lost and late replies.** A write that reports failure may have been executed,
  and its answer may arrive when the next operation waits for one.
* **Half-failed saves.** A save that reports failure may have installed the file.
* **Crashes and power losses** between any two accesses or system calls.
* **The other controller**, which may start and stop a run between any two
  accesses. No access is conditional, so a check is never atomic with the write
  after it.
* **Results kept from earlier steps** (flags, captures, verifications, ticks) and
  read again after what they describe has changed.
* **Threads that join one another**, and a child process that hangs.
* **Sequences**: stop, retry, detach, recover, open again, in any order.

`PROJECT.json` lists these at their lines under `hazards`.

## 2. Modules

### The diagnostic session

Each module extends the one before it, because the operations share the state
of one process and continue into one another (stop runs the source restore,
which runs the pause).

| Module | Models |
|---|---|
| `SessionState` | registers of the MVLC and the modules (`hw`), what one access may report (`Write`, `Fault`), the other controller (`mvme`), the end of failures (`calm`); the journal as the operations see it (`journal`), snapshot (`svc`), acquisition session (`ses`), the worker's next access (`pc`), the locals of its task (`tx`), passive detach |
| `DiagnosticSource` | pause and resume with the continuation of each caller; source change and its restore on stop; preview apply, restore, restore on stop |
| `DiagnosticAcquisition` | start and stop; recovery: verdict, orphan cleanup, idle restoration |
| `OwnershipService` | the commands, the watchdog, crash and launch; `Next`, `Spec`, `LiveSpec` and the properties |
| `MCOwnershipService` | initial register contents for TLC |
| `OwnershipServiceProofs` | the proofs (section 5) |

**Correspondence.** One register or file access is one step; its label in `pc`
names the place in the code, and `map` in `PROJECT.json` its lines (it lists the
principal definitions; small helpers are covered by the operation they serve). Reads that
are followed by no write before the next decision are one step with that
decision (identity reads, the fingerprint transaction). `tx.kind` is the command
the task serves, `tx.since` what the other controller was doing when the command
was taken from the queue, the other fields of `tx` are the C++ locals. A record
is reduced to its phase and its two restore entries: endpoint, identities and
fingerprint are written once and never change, so they are the record's
existence. The readout stack is `clear`, `partial` (an upload FIDGET has begun),
`ours` or `foreign`. A sample word keeps the two source bits as its remainder
modulo 4, so that the masking in the code is arithmetic in the model.

**Abstractions a reader should know.**

* A command that the service refuses changes a message only and is no step.
* Deterministic startup, which Start requires, leaves none of this state behind;
  Start may follow OpenSession. `ScpService` models the startup itself.
* The register dependency that makes a preview inadmissible is a
  nondeterministic refusal.
* The other controller starts at most one run and stops it at most once. It may
  write a word and a parameter value that FIDGET never writes.
* `communicationUncertain` is a display flag and is left out. The cancellation
  flag `serviceStopRequested_` is set only after the last task of the destructor
  and is left out here; `CommandWorker` has it.
* `AcquisitionReceiver::Start` fails only on a used object, and Start creates a
  new one, so its failure is not a step of its own.

### Parameters of the module

| Module | Models |
|---|---|
| `ScpPlan` | the settings, their dependency, the comparison with a profile and the order of the writes |
| `ScpApply` | the module, one access, the ownership gate, MVME, the capture; bulk application with rollback, and the repair of a single value |
| `ScpService` | startup preparation, deterministic startup, the commands, what stays fresh |
| `MCScpService` | profiles and initial configurations, the composed properties |
| `ScpServiceProofs` | the proofs (section 5) |

Three settings stand for the seventeen: one without dependency and one coupled
pair. Two of the eight contract settings stand for all: one that a capture
records and one that it does not. The reads between two writes are one step,
with a fault at any of them. MVME may start a run at any access; the number of
lost replies is bounded by `MaxFaults`. A written value may not be retained, and
a rollback write may fail as well.

### The way to the crate and back

| Module | Models |
|---|---|
| `VmeTransaction` | upload, trigger, replies, references, retries and skipped datagrams; the network loses and delays, it does not reorder |
| `RegisterAccess` | the abstract access that `VmeTransaction` implements and the operations are written against |
| `DirectTransport` | the sockets of the direct transports, every call failing |
| `SshBridgeProcess` | framing, the relay on the other host, the connection with its reader thread and the two transports on it; the ssh child, its error stream, the end of a session |
| `SshBridgeStart` | the start, with the descriptor table of the process |
| `StreamDecoder` | packets, reassembly, histories |
| `AcquisitionReceiver` | the receiver thread, its posts, start, stop and clearing |
| `MCTransport` | the suite of these |
| `TransportProofs` | the proofs (section 5) |

In the bridge the four bytes of a frame's length are one cell of the stream, the
pipe to the relay does not fill up, and relay and remote ssh are one process.
Packets of the stream may be lost, repeated or swapped, fewer in a row than the
modulus of the packet number (a loss of exactly 4096 packets is invisible to the
code); a datagram holds whole packets.

### Storage

| Module | Models |
|---|---|
| `RecoveryJournalFile` | staging directory, write, sync, rename or hard link, directory sync; crash, power loss and failure at each |
| `AtomicJournal` | the abstract journal that file protocol implements |
| `RecoveryRecord` | the text of versions 1 to 4, checksum, validation, damage |
| `RecoveryJournalV5` | the version 5 record, its sections, promotion, classification of a live value |
| `ApplicationStorage` | directories and preferences of several processes |
| `ExportFile` | both ways of saving an export |
| `MCStorage` | the suite of these |
| `RecoveryJournalV5Proofs`, `ExportFileProofs` | the proofs about each component (section 5) |
| `StorageProofs` | the proofs about the journal file and the preferences, and all these results for the suite |

A checksum is the tuple of the values it hashes, that is, free of collisions.
No operation records deviations of version 5 yet; they come in the order the
header file describes. The preferences are not synchronised by the code, so a
power loss may leave them torn; a later save repairs them.

### The tuning session and the workspace

| Module | Models |
|---|---|
| `TuningSession` | coordinator, cancellation tokens, controller and target probes, discovery at start, the session gate |
| `PrepareTuningSession` | the prepared record, the gated capture, parking, promotion |
| `GuiPresentation` | the pages as a function of a snapshot, and snapshots whose evidence comes and goes |
| `MvmeInitScript` | the script evaluator side by side with MVME executing the same lines |
| `InitScriptText` | comment stripping, splitting into parts, arithmetic, against reference definitions |
| `MvmeWorkspace` | which module of a workspace is the target |
| `MvmeWorkspaceExport` | the copied workspace and the generated scripts |
| `MCTuning` | the suite of these |
| `TuningProofs` | the proofs about the session, its preparation and the pages (section 5) |

What MVME does with a script is external: modelled from what the evaluator and
its comments expect, in particular that a failed `accu_test` stops everything
behind it. Digits and number formatting are left out. The evidence of later
phases has no writer in the code yet, so `GuiPresentation` lets it be arbitrary.
Session preparation and the copied workspace are implemented and tested but not
yet called by the application; the modules model them as they would be called.
The recovery directory is read once, at the start.

### Threads and front ends

| Module | Models |
|---|---|
| `CommandWorker` | queue, worker, watchdog thread, front end, destructor |
| `TunerControl` | the tuner as a front end meets it: queue, polls, what every command publishes |
| `CliApp` | the flow of every hardware command: waits, timeouts, prompts, interrupts, exit codes |
| `GuidedWorkflow` | the step that is due, its stage, buttons and boxes |
| `MCFrontEnds`, `MCProgress` | the suites of the safety and of the progress properties |
| `FrontEndProofs` | the proofs about the guided workspace, the threads and the command line (section 5) |

A project that is selected while there is an acquisition session is selected only
once the session has been stopped; a front end gets there only with several
commands waiting. A stop of a session whose transport has been reset, which the
program does not survive (`OwnershipService`), goes on in `TunerControl`.

### Suites

`MCStorage`, `MCTransport`, `MCTuning`, `MCFrontEnds` and `MCProgress` hold
several components that share no state. A behaviour is one of a single
component: `part` is chosen at the start and never changes, the component it
names runs, the variables of the others rest. The union of the reachable states
is therefore the disjoint union of the components' own, and a property
`part = "x" => P` is exactly the property `P` of that component. The same module
appears several times when two questions need two instances (downstream and
upstream traffic of the bridge; short scripts of every kind of line and longer
ones of plain lines). A session is one instance in three situations, between
which the run divides its bounds: six commands without disturbances, four with
failing accesses, runs of MVME and a shutdown, three over a directory with up to two records.
The assumptions of an instanced module are evaluated in the suite's own `ASSUME`.

## 3. Runs

| Run | Question |
|---|---|
| `session` | start, source change, preview, stop, release, watchdog and recovery with lost replies, failing saves, crashes and MVME runs, with both entries of one record and a second module in the crate |
| `scp_apply` | capture, repair, application, startup over two quads |
| `storage` | everything on disk |
| `transport` | everything between an operation and the crate |
| `tuning` | the new session, its pages and the workspace |
| `frontends` | both front ends against the tuner, and the threads under them |
| `progress` | what must come to an end |
| `preview_journal`, `stop_foreign`, `stop_preview`, `own_pause`, `release` | the disagreements of section 4 |

**Properties of the diagnostic session.** `SourceIsJournaled` and
`PublishedPreviewIsJournaled` are the journaling promise for each transaction;
`OrphanIsJournaled` and `RunningIsRecoverable` tie the run on the crate to the
record on disk; `StopLeavesCrateClean` is the promise of Stop when it removes
the record; `ChangesSpareForeignRun`, `ChangesWhilePaused` and
`RecoveryOverwritesItsOwn` bound what may be written. Properties about the
values in the crate say `mvme = "away"`: once somebody else has used the crate,
its values are not FIDGET's to explain.

**Parameters.** `AppliedHolds`: what is reported applied, repaired or started is
on the module until a command changes it. `RollbackIsSafe`: a verified rollback
has undone also the writes that were reported failed, and no order of writes
makes the coupled pair invalid in between. `IntrusionIsBounded`: no more than
the two writes that follow one gate meet a run that MVME started meanwhile. `FreshIsLive`: a capture that
still counts as fresh is what the module holds.

**Storage.** `JournalSurvives` (never torn, success is durable, staging areas
disjoint), `IsAtomicJournal` (the refinement, and exclusive creation never
replaces), `RecordsAreExact` (both formats load what was saved and refuse
damage, also damage that is well formed), `AlwaysRestorable`,
`PreferencesAreWhole`, `ExportsAreWhole`, `NoSilentReplacement` (copied
workspaces).

**Transport.** `IsRegisterAccess` (the refinement), `AnswersAreOwn`,
`BridgeDelivers`, `BridgeLeavesNothing`, `WaveformsAreWhole`, `ShownIsCurrent`.

**Tuning.** `SessionIsVerified`, `PreparationIsJournaled`, `PagesAreSafe`,
`WorkspaceIsRead`, `WorkspaceKeepsMeaning`, `OnlyVerifiedIsSaved`.

**Front ends.** `CliLeavesTunerClean`, `StagesOfferWhatWorks`,
`NoWriteOverJournal`, and `ThreadsAreJoined` for the worker, the watchdog and the
destructor.

The front end of the threads waits for nothing, as
`Submit`, the window and the destructor do not: it draws a snapshot, the worker
goes on, it submits what that snapshot offered, and it may quit at any time. Under
it the process can die (`NothingDies` is not an invariant), and `ThreadsAreJoined`
says in which two cases and in no other.

**Progress.** `RecoveryCompletes` (recovery and
Stop of a session without previews), `CallsReturn`, `FailuresAreNoticed`.
`CallsReturn` has two exceptions, each a wait that really never ends: the join of
run `release` (`StopLost`), and a write to an ssh child that neither reads nor
ends while its pipe is full (`WriteBlocks`): `WriteFrame` has no timeout, and
everything behind it, `Stop` and the destructor included, waits with it. That the
child is killed when it ignores the end of its input
(`SshBridgeProcess.cpp:463-475`) does not help, since the input is closed only
after the write.

The property of a suite is the conjunction of its component properties; each is
stated, with its comment, in the component's module.

### Bounds, and why they are enough

* *Diagnostic session.* A session tunes one quad, and its operations touch the
  quad of the session and bank zero; a second quad adds nothing but names. Words
  `{0, 1, 4, 5}` are two words with two sources each, `{8, 9}` a third that only
  the other controller writes. Three parameter values are the original, the
  previewed and a stranger's. One non-target module is enough for a step of the
  loops over non-targets to fail while the cleanup goes on. Crashes, lost
  replies and failed saves are not bounded in number.
* *Parameters.* Two quads, so that a write in the wrong bank is visible; between
  the profiles lie transitions in both orders of the pair. Two faults allow a
  write and its rollback to fail, four commands a capture, an application,
  another capture and a startup.
* *Storage.* Two processes, for a race; three saves, so that an old, a current
  and a new record exist; two name collisions, so that the search gives up;
  versions and damage from every pair of saves.
* *Transport.* Two values, two attempts and three skipped datagrams: a late
  answer of the first attempt of an earlier operation can meet both attempts of
  the next, and the limit is reached. Payloads of 0, 1 and 2 cells and reads of
  up to three cut a frame at every place. Packet numbers modulo 4 with two
  faults; five events fill a history, change its source and interleave a longer
  event of another channel. Two acquisitions in a row for late posts.
* *Tuning.* One valid endpoint beside another and one that does not parse, two
  module addresses, one other user, one failing access; four lines in two
  scripts of every kind of line, and six plain lines in one; texts of up to six
  characters over those the parser tells apart; two events with two modules each.
* *Front ends.* Every hardware command with every subset of the options that
  matter, one queued command beside the one executed, and a disk that may change
  under the tuner. For the threads seven commands: two sessions, each
  checked, opened and left, and every overlap of commands within them. Seven is
  the first length at which a front end that waits for nothing can lose a thread
  object in a `Submit` and not only in the destructor (section 5); the proof has
  no bound. In `progress` three commands open a session and release it, and the
  pipe to the child holds three cells, less than the frames sent into it, so that
  a write really blocks.

### Fairness

* Diagnostic session: `WF(Operation)`, the worker finishes the task it has
  begun, since every access has a timeout. `SF` of Stop and of Recover: an
  operator who keeps asking is served, because the queue is first in, first out;
  weak fairness would not do, since each command is disabled while another task
  runs. `WF(Launch)`: somebody starts the program again. `Calms` means that from
  then on nothing is lost, nothing crashes and nobody takes the crate; it is
  never forced, so the properties speak of behaviours in which it happens.
  `RecoveryCompletes` excepts `Refused`: idle restoration requires a stopped
  target, and the code leaves a running one to the operator.
* Threads: weak fairness for the worker and the watchdog, and for the front end
  only while it is inside a call (`~Between`); nobody is obliged to draw or to
  submit anything.
* Bridge: weak fairness for FIDGET's own threads and timeouts, none for the ssh
  child, the relay or the network: the child need not read, and its pipe is
  finite (`PipeCapacity`). `holder` is `TRUE` in the progress instance:
  a process that keeps the error stream open is the harder case.
* Receiver: its thread after a failure, and the worker. Probe: the worker.
  Command line: its own steps, whose waits all have a timeout, and the worker.

`MCProgress` states these once per thread: `part` never changes, so weak
fairness of a disjunction of steps of different parts is weak fairness of each.

Deadlock is checked in `session`, `scp_apply` and `storage`. In the
other suites behaviours really end: a command line exits, a destructor returns,
a text is complete, a bridge is closed. `stop_preview` ends when Stop is refused
for ever.

## 4. Disagreements found

With a run of their own:

* **`preview_journal`** (`DiagnosticPreviewOperation.cpp:478`). An apply whose
  write and rollback are both unverified saves a disarmed entry while the
  previewed value may be live. The README promises a journal entry for every
  temporary change until it is restored. The source change handles the same case
  correctly: `SourceIsJournaled` passes.
* **`stop_foreign`** (`OwnershipService.cpp:1967`). After a failed restore, Stop
  reads the flags of that old result as if they had just been established, skips
  the fingerprint check and cleans up a run that is no longer FIDGET's.
* **`stop_preview`** (`OwnershipService.cpp:1947`). A restore that met one
  missing reply leaves a result that makes every later Stop return early,
  although replies arrive again. The same property passes in `progress`, where
  no preview is used.
* **`own_pause`** (`OwnershipService.cpp:2927`). A pause that was performed but
  not acknowledged makes the watchdog detach from FIDGET's own run as foreign.
* **`release`** (`OwnershipService.cpp:2842`). The open session is published
  before its watchdog is started. A release submitted at once requests the stop
  of the watchdog, `StartWatchdog` clears the request, and the release joins a
  thread that nobody stops: the window hangs, or `fidget_cli session` never
  reports the release.

Met on the way, stated in the modules and not part of the passing runs. Each is
reproduced by naming the property in a configuration of its module:

| Property | The code | What is said of it |
|---|---|---|
| `AcquisitionReceiver!PreviewsDoNotMix` | `OwnershipService.cpp:1447`: readout resumes before the histories are cleared, so one history may hold waveforms of the old and of the previewed value | `docs/acceptance-checklist.md:178` |
| `CliApp!SavedWhenZero` | `CliApp.cpp:1640`: a poll published before the save runs ends the wait, and the success of the capture is taken for that of the save | `README.md:170` |
| `CliApp!SourceReportIsOwn` | `CliApp.cpp:867`: the wait for a second source change may end on the result of the first | `docs/acceptance-checklist.md:172` |
| `ExportFile!NoSilentReplacement` (plain export) | `MvmeExportFile.cpp:56`: a file created after the existence check is replaced | `README.md:258` |
| `GuidedWorkflow!FailureCanContinue` | `GuidedWorkflow.cpp:62`, `:281`: after a start that failed before anything was journaled and a takeover, the drawn stage enables nothing | `core/GuidedWorkflow.cpp:281` |
| `GuidedWorkflow!RestartIsOffered` | `GuidedWorkflow.cpp:46`: after a clean stop, lost ownership and a new session the rail names a start the stage refuses | `docs/acceptance-checklist.md:273` |
| `GuidedWorkflow!SetupWaitsForRecovery` (`MaxWaiting = 3`) | `OwnershipService.cpp:971`: a startup that waits behind a start which fails runs over the journal the start has left, while the session is still held | `docs/acceptance-checklist.md:285` |
| `GuidedWorkflow!HandoffIsCurrent` | `OwnershipService.cpp:514`: a confirmation given before MVME was seen still opens a session | `README.md:269` |
| `GuidedWorkflow!ReviewIsCurrent` | `ui/StartupStage.cpp:150`: a box ticked in one session is still ticked beside the plan of the next | `README.md:121` |
| `GuidedWorkflow!LoadedProfileCanBeExported` | `ui/App.cpp:598`: once a profile is loaded no stage with an enabled export is drawn | `README.md:108` |

Hazards that are known and have no property here: 64 collisions of staging
names stop all saves (`RecoveryJournal.cpp:28`); a failed selector write counts
as not selected (`DiagnosticSourceOperation.cpp:442`); data of an earlier
channel in a reopened one (`BridgeConnection.cpp:567`); a full pipe to the relay
(`BridgeConnection.cpp:444`); two exports that share `<path>.tmp`
(`MvmeExportFile.cpp:38`); a loss of exactly 4096 packets
(`StreamDecoder.cpp:356`).

## 5. Proofs

Eight modules hold the proofs. Every inductive invariant below was checked with
TLC on the instance of its run before it was proved. Crashes, lost replies, failed
saves and the other controller are steps of `Next`, so they are part of every
theorem.

**Assumptions.** They are the named ones of the modules.
`ParkAssumption`: quads are naturals. `WordAssumption`, `ParamAssumption`: found
values and the other controller's values are values. `RequestAssumption`: sources
are 0..3, replacing the source bits of a word gives a word, previewed values are
values. `PlanAssumption`, `HardwareAssumption`, `ServiceAssumption`: there is a
quad, the banks found and the profiles hold register values (a profile's pairs
may be invalid: the parser does not look), the bounds on faults and commands are
naturals. `FileAssumption`: a text is neither the absent file nor
a torn one, and the bounds are naturals. `V5Assumption`, `StorageAssumption`: no
record, text, snapshot, process or preference is the value that stands for its
absence or for a torn file. `ExportAssumption`: savers are told from the other
files, the destination is the file asked for or the imported workspace, and at
most one of the savers is a plain export, which knows no imported workspace; two
plain exports would share `<path>.tmp` (section 4). `StorageProofs` derives these
four for the storage suite from that suite's own assumption
(`StorageInstances`). `TransactionAssumption`, `DirectAssumption`: there is
an attempt and a datagram to read, "no value" is not a value, the bounds are
naturals. `TuningSessionAssumption`, `PrepareAssumption`, `ScenesAssumption`: an
address is an address or none, a record is neither the absent nor the foreign
one, there is a quad, and the situations the pages start from are snapshots.
`CliAssumption`: what is requested is a command of the command line.
`MaxWaitingAssumption`, `BoundAssumption`: the bounds on commands are naturals.
Nothing is assumed about how many quads, modules, values,
processes, registers, waiting commands or faults there are.

### The diagnostic session

| Theorem | States | Needs |
|---|---|---|
| `TypeCorrect` | `[]TypeOK` | `TypeInv` |
| `OrphanJournaled` | `[]OrphanIsJournaled` | `JournalInv` |
| `RunningRecoverable` | `[]RunningIsRecoverable` | `RunInv` |
| `PublishedJournaled` | `[]PublishedPreviewIsJournaled` | `PreviewInv` |
| `ForeignRunSpared`, `ChangedWhilePaused`, `OverwritesItsOwn` | the action properties `ChangesSpareForeignRun`, `ChangesWhilePaused`, `RecoveryOverwritesItsOwn` | `CrateInv` |
| `SourceJournaledAlways` | `[]SourceIsJournaled` | `SourceInv` |
| `StopLeavesClean` | the action property `StopLeavesCrateClean` | `SourceInv`, `StopClean` |

* `TypeOK` is not inductive: a step writes `tx.req` into a register, and whether
  that is a word or a parameter depends on the operation `tx` belongs to.
  `TypeInv` adds `KindOK` (each label belongs to the operations that may reach
  it) and `ValueOK` (the locals at that label have that operation's value set).
  The masking of the source bits is where `RequestAssumption` is needed.
* `JournalInv`: a session, and a start past its save, have a record on disk; a
  recovery works on a record; and at the steps that remove the record no own run
  is left. The last part is where the readback of DAQ mode and stack before the
  removal is used.
* `RunInv`: what is published is what is held (`Coherent`). A running acquisition
  leaves no record pending, which keeps every recovery away from it, and an open
  session has its transport. It follows the snapshot through every way an
  operation, a recovery, a release or a detach ends.
* `PreviewInv` follows one preview from the save that arms its entry to the
  result that publishes it (`ApplyOK`), and the published one back to the restore
  that disarms it (`PublishedOK`).
* `CrateInv`: the checks that guard a write happen several steps before it, so it
  says at every label in between what is still known of the registers: since the
  command was taken no foreign run was there (`SinceOK`, `Spares`), the module is
  stopped, DAQ mode off and the session's bank selected (`PausedOK`, `QuadOK`),
  and a recovery has read the value it is about to replace (`RestoresOwn`).
* `SourceInv`: the duty to restore is held in up to four places (the file, the
  session's record, the pending record, a recovery's copy) which failed saves let
  differ. Any of them may become the next file, so `Kept` asks of each that it
  `Repairs` every deviation there is, and `WorkOK` says what the operation in
  progress has read, armed or restored at its label.
* `StopClean`: while no access of a Stop has failed, the modules it has handled
  are stopped, and at its end DAQ mode is off and the stack empty. That all words
  are back follows from `SourceInv`.

### Storage

| Theorem of the suite | States | From |
|---|---|---|
| `JournalSurvivesAlways` | `[]JournalSurvives` | `JournalFileIsSafe`, with `FileInv` |
| `JournalIsAtomic` | `IsAtomicJournal` | `ImplementsAtomicJournal`, `ExclusiveIsExclusive` |
| `V5AlwaysRestorable` | `[]AlwaysRestorable` | `V5IsRestorable`, with `V5Inv` |
| `PreferencesAlwaysWhole` | `[]PreferencesAreWhole` | `StorageIsSafe`, with `StorageInv` |
| `ExportsAlwaysWhole` | `[]ExportsAreWhole` | `ExportIsWhole`, with `ExportInv` |
| `CopiesNeverReplaceSilently` | the action property `NoSilentReplacement` | `CopiesAsk`, with `ExportInv` |

The theorems in the last column are about one component with all its parameters
free; `StorageProofs` carries them to the suite, where the other components'
steps leave its variables alone. The suite fixes the two groups of savers; the
components' theorems do not.

For the journal file, `StorageProofs` proves for any number of processes, saves and name
collisions `JournalFileIsSafe` (never torn, success is durable, staging
directories disjoint), `ExclusiveIsExclusive` and the refinement
`ImplementsAtomicJournal`. `FileInv` says what a save has done by the time it is
at a label (`JobDone`): from the directory's creation it owns it, from the
synchronisation on its text is durable, and after the install its record is at a
position of the history. The refinement maps the history to its texts and a save
to its text, its position and its result; staging, synchronising and cleaning up
are stutters, the install and its confirmation are the abstract steps.

`V5Inv` ties the module to the record: once there is a snapshot, every register
holds what its last deviation requested, except that the deviation saved last
may not be written yet. The chain of deviations then makes the live value the
previous or the requested one of the last deviation of its register, which is
what the classification restores. That a section of another save is refused
follows from the checksum over all sections, for texts of any length.

`StorageInv` says of each process which directories it has made durable, that
the temporary directory it works in is its own, and that what it renames is the
record it was asked to save. `ExportInv` says that past the comparison of the
paths a saver does not save to the imported workspace, that at the installation
its file is whole, and that before it nothing is installed.

### Parameters of the module

| Theorem | States | Needs |
|---|---|---|
| `BoundedIntrusion` | `[]IntrusionIsBounded` | `TypeInv`, `IntrusionInv` |
| `FreshCaptureIsLive` | `[]FreshIsLive` | `ModuleInv` |
| `AppliedIsOnTheModule` | `[]AppliedHolds` | `ModuleInv` |
| `RollbackIsAlwaysSafe` | `[]RollbackIsSafe` | `ModuleInv` |

* `TypeInv` is `TypeOK` and `Located`: the shape the transaction record has at
  every label of the application, the repair, the preparation and the capture
  (which counters are equal, which flags can be set, where it returns).
* `IntrusionInv` gives each label a `Budget`, the writes that may still follow
  without another look at DAQ mode. A gate opens one only when it read DAQ mode
  off, a write uses one up, and the writes that met a foreign run plus the budget
  never exceed two.
* `ModuleInv` says what the record means on the module. For an application
  (`BulkSays`) `BankAt` states that the first steps of the plan are written, the
  later ones are not, and at most one in between is in doubt because its answer
  was lost; the rollback runs the same statement backwards. `FixSays` and
  `PrepSays` do this for the repair and the preparation, `CapSays` and
  `FreshSays` for a capture and the service's copy of it, `StartupSays` for what
  the startup has reached. It is stated for the time nobody else has run.
* Why the order of the coupled writes matters is a fact about the plan: a plan is
  the set of all differences in an order in which the pair of every quad is valid
  after any number of steps. `Steps` is a recursive function over the quads; what
  it computes is proved with the least quad that would contradict it
  (`LeastElement`, from the library's theorem on well-founded relations), which
  needs no rule with an operator parameter.

### The way to the crate and back

| Theorem | States | Needs |
|---|---|---|
| `TransactionsImplementAccess` | the refinement `IsRegisterAccess` | `TxInv` |
| `AnswersStayOwn` | `[]AnswersAreOwn` | `TxInv`, `DirectInv` |
| `ShownStaysCurrent` | `[]ShownIsCurrent` | `StreamInv` |

* `TxInv` makes precise why skipping datagrams is enough. The network loses and
  delays but does not reorder, so both queues are in the order of sending: every
  request and reply carries a reference smaller than the next one the session
  will give out (`TxReferences`), and the requests and replies of the access in
  progress stand behind all older ones (`TxCurrent`). The stack loaded in the
  controller is that of the access in progress once its upload was answered, so
  a reply that passes the comparison of references carries a value of this
  access (`TxAnswers`). `TxExpected` says that any operation still on its way is
  the current one or a write the abstract access still counts as late; that is
  what lets a failed write take effect later, and never after the next success.
* The refinement maps a call, its result and the register it names to the
  abstract ones. Uploads, triggers, retries, lost and skipped datagrams are
  stutters; the abstract write happens when the controller performs it.
* `DirectInv`: a socket is the one held or the candidate of the Open in
  progress, every address tried costs at most one socket (`DirectCount`), and
  what waits in the socket held, or will be answered to it, was asked for after
  the last Open (`DirectAnswers`).
* `StreamInv` is about the order of the worker's queue. A start is accepted only
  when the thread has ended, and then everything behind it in the queue is a
  start too; while an acquisition runs a start still waiting is ahead of
  everything posted since, so it is refused before a stop is served
  (`StreamQueue`). Therefore no stream of an earlier acquisition is left when
  one runs (`StreamRuns`). That sources do not mix follows from what the decoder
  keeps (`StreamSources`).

### The tuning session

| Theorem | States | Needs |
|---|---|---|
| `SessionIsAlwaysVerified` | `[]SessionIsVerified` | `SessionInv` |
| `PreparationIsAlwaysJournaled` | `[]PreparationIsJournaled` | `PreparationInv` |
| `OnlyVerifiedIsEverSaved` | the action property `OnlyVerifiedIsSaved` | both |
| `PagesAreAlwaysSafe` | `[]PagesAreSafe` | `Shown` |

* `SessionInv`: `EvidenceOK` says what published evidence means, that what counts
  as fresh was seen since the fields last named it. `ProbeOK` says for each place
  of a probe what it has seen so far, that the fields still name its target and
  that no session is offered meanwhile. The recovery directory is read at the
  start only, so `DirectoryOK` is about what was found there then.
* `PreparationInv` is `Placed`, what holds at each place of the operation: the
  record is the prepared one and durable from the creation to the promotion, the
  selector is parked before the first selection and again from the final gate
  on, and the banks read so far are the module's own unless MVME has run. `Known`
  says which records can be at the path at all, also after a power loss: those
  two, none, and the foreign one. It is needed because a snapshot outlives the
  operation that made it. That a failed access is not taken for a good one needs
  that failures are counted (`FailuresCounted`).
* The pages are a function of the snapshot, so `Shown` is no more than that the
  snapshot is one. The proof is about that function: which evidence each page
  presupposes (`BasePage`, `PageFacts`), and which page offers which action
  (`WorkIsOffered`, `NavigationFacts`). TLC follows changes from nine situations;
  the theorem is about all combinations of the facts.

### The guided workspace

| Theorem | States | Needs |
|---|---|---|
| `NothingOverJournal` | `[]NoWriteOverJournal` | `GuidedInv` |
| `StagesNeverRefuse` | `[]EnabledIsAccepted`, of `StagesOfferWhatWorks` | `GuidedInv` |
| `NamedActionsAreOffered` | `NamedActionIsOffered` wherever the rail does not ask for the recovery of a journal that is gone | `GuidedInv` |

They hold for any number of waiting commands, whatever was published since one
was pressed. The service judges a command when the worker takes it, by the
snapshot of that moment. So `GuidedInv` says nothing of what waits or in which
order: it is about the snapshot, the acquisition session and the operation under
way. `UnderWay` is what was true when an operation began and is true until it
ends (a preview finds data taken, a start no journal and no session), and
`Consistent` what every end of every operation leaves: data is taken only with a
session and without a journal, and a session is open beside a journal only if
the journal is that session's own. The proof therefore has a lemma per command
for its beginning (`BeginFits`) and one per operation for its ends (`EndFits`).

`NoWriteOverJournal` does not say that a startup or an apply never meets a
journal: behind a start that fails it does (section 4). It says that the journal
then belongs to a session FIDGET still holds.

What the third theorem leaves out is not reachable on the instance of
`frontends`, where TLC checks `StagesOfferWhatWorks` as a whole. With four
waiting commands the model reaches it: a start leaves a journal, a look at the
controller waits behind it and asks for recovery, and a stop behind that takes
the journal away. In the program that stop does not return, since the look has
reset the transport (`StopWithoutTransport`); the model, which has no transport
here, lets it.

### Threads

| Theorem | States | Needs |
|---|---|---|
| `OnePollAlways` | `[]OnePollPerWatchdog`, of `ThreadsAreJoined` | `PollInv` |
| `ThreadsAlwaysJoined` | `[]ThreadsAreJoined` | `PollInv`, `CommandInv` |

* `PollInv` is the order of the handshake: a watchdog posts a poll only when it
  has none, and it waits until the poll has run, so a poll that waits or runs
  has its watchdog behind it.
* `CommandInv` is about the commands that wait and the one that is being
  submitted. A session that is open offers no Check and no Open, so as long as
  nothing was submitted from a snapshot drawn while an Open was pending, no Check
  waits behind an Open or beside the start of a watchdog (`OpensLast`). A Check
  is then always submitted with a join and no watchdog is there when it runs, nor
  when it has found the target idle, nor when the Open that follows starts the
  next one (`Joined`). An open session keeps its transport until the last task of
  the destructor, and no task follows that one (`Linked`).

Neither theorem assumes that the front end waits. What they except does happen,
and TLC shows it when `NothingDies` is checked of `CommandWorker`:

* the destructor (`OwnershipService.cpp:78-100`) joins the watchdog while an Open
  waits, runs, or has published its session and not yet started the watchdog. The
  watchdog is started afterwards; its poll may read through the transport that the
  last task has reset, or the joinable `std::thread` is destroyed (two commands);
* a window draws the frame in which Open is pressed once more before the worker
  takes the Open. A Check or another Open of that frame joins a watchdog that is
  not there yet and waits behind the Open; if the session is lost meanwhile, the
  Check finds the target idle with the old watchdog still joinable, and the next
  `StartWatchdog` assigns to it. This takes seven commands, and a watchdog that
  could not be started among them.

### The command line

| Theorem | States | Needs |
|---|---|---|
| `CliAlwaysLeavesTunerClean` | `[]CliLeavesTunerClean` | `CliInv` |

It holds for any set of commands, options and tune commands, with and without
interrupts, streams and another program at the controller. `CliInv` contains the
tuner's own invariant (`TunerInv`, as for the guided workspace) and adds what the
queue may hold, which the flow of a command decides:

* Until the session is open (`EarlyInv`) the tuner is at rest (`AtPause`), has been
  sent the command that is waited for (`Sent`), is at it (`UnderWayEarly`), or has
  opened the session (`Opened`). The wait does not take an earlier snapshot for
  its end: between `Sent` and the end nothing is published but the command's own
  snapshots, and the first of them shows it under way. So the wait ends at rest,
  and so do a return on an error, on an interrupt or on a declined prompt.
* From then on (`LateInv`) any snapshot may end a wait, and what was submitted may
  still be waiting when the next command is. This is why the theorem needs the
  order of the queue: the release is the last command of a flow, nothing but polls
  and streams comes behind it, and the controller is shown as given up only by the
  release itself, once no session is held. A wait for that snapshot has
  therefore waited for all commands before.
* `StartInv`: one start at most is ever in the queue, and until the worker takes it
  there is no acquisition. `SuccessInv`: the result of `acquire` becomes zero only
  when data was seen being taken, after which no start can still be waiting to
  forget a cleanup, and it survives the stop stage only over a verified cleanup,
  whether or not that stage had anything to stop.
* The steps of the tuner are used through three facts only: `Takes`, `Finishes`
  and `Posts` (`ThreadsStep`), and through `Moves`, which says what no command
  does to the session, the cleanup and the ownership. Where a flow has which
  stage is a lemma per command (`AllPlaced`).

The exception in the statement, a wait that timed out, is the program's: after
it the front end returns whatever the tuner is doing.

### Only model-checked

* Liveness (`RecoveryCompletes`, `CallsReturn`, `FailuresAreNoticed`): fairness
  and `ENABLED` are out of the prover's reach.
* What the recursive functions of `InitScriptText` compute, and what the
  evaluator of `MvmeInitScript` makes of a script of any length: induction over
  data. With them `WorkspaceIsRead` and `WorkspaceKeepsMeaning`.
* `WaveformsAreWhole` and `BridgeDelivers` say what comes of a whole stream of
  words or bytes, however it is cut: induction over data.
* `RecordsAreExact` for the texts of version 1 to 4: the reader finds a line by
  its tag with `SelectSeq`, which is recursive. Its version 5 half is part of
  `V5IsRestorable`.
* `BridgeLeavesNothing`: no theorem states it. The part of `StagesOfferWhatWorks` named above.

## 6. Not modelled, and what follows

Left out for good: font data and layout, the printed text and the log file,
profile and registry tables, the widgets of the home page, the parsing of
endpoints and addresses, byte order. They have no state that an interleaving or
a failure could spoil, or nobody reads it back.

The theorem to follow is `BridgeLeavesNothing`.

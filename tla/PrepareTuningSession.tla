------------------------ MODULE PrepareTuningSession ------------------------
(***************************************************************************)
(* PrepareTuningSessionOperation.cpp: before a tuning session touches the  *)
(* bank selector it makes a Prepared record durable; it then captures the  *)
(* module through the selector, parks it and replaces the record by one    *)
(* with the captured values.  The capture is ScpCaptureOperation.cpp with  *)
(* a gate in front of the first selection and a checkpoint after every     *)
(* access, at which the operation may be lost.                             *)
(*                                                                         *)
(* The journal keeps what AtomicJournal promises: a save that fails may    *)
(* still have installed its record, and only a successful one survives a   *)
(* power loss.                                                             *)
(***************************************************************************)
EXTENDS Naturals

CONSTANTS
    QuadCount,     \* 8 in the code
    BankValues,    \* what the settings of one quad may be
    MaxFaults,     \* bound on failing accesses and saves
    NoRecord, ForeignRecord

PrepareAssumption ==
    /\ QuadCount \in Nat \ {0} /\ MaxFaults \in Nat
    /\ NoRecord # ForeignRecord
    /\ {NoRecord, ForeignRecord}
         \cap [phase : {"prepared", "snapshot"}, parking : BOOLEAN,
               bank : [0 .. QuadCount - 1 -> BankValues]] = {}

VARIABLES
    hw,          \* DAQ mode, acquisition, selector, banks
    journal,     \* the record at the recovery path
    durable,     \* the record a power loss would leave
    pc, cap,     \* the operation and what it has captured
    result,      \* PrepareTuningSessionResult
    cancel,      \* cancellationRequested
    mvme, faults, intrusions,
    original     \* ghost: the banks before the operation

vars == <<hw, journal, durable, pc, cap, result, cancel, mvme, faults,
          intrusions, original>>
env == <<cancel, mvme, original>>

Quads == 0 .. QuadCount - 1
Banks == [Quads -> BankValues]

Record(phase, parking, bank) ==
    [phase |-> phase, parking |-> parking, bank |-> bank]
Own(r) == r \notin {NoRecord, ForeignRecord}
SomeBank == CHOOSE v \in BankValues : TRUE
NoBanks == [q \in Quads |-> SomeBank]
Prepared == Record("prepared", TRUE, NoBanks)

Init ==
    /\ hw \in [daq : {0, 1}, acq : {0, 1}, selector : {0}, bank : Banks]
    /\ original = hw.bank
    /\ journal \in {NoRecord, ForeignRecord} /\ durable = journal
    /\ pc = "preflight"
    /\ cap = [quad |-> 0, bank |-> NoBanks, failed |-> FALSE]
    /\ result = [outcome |-> "notRun", phase |-> "none"]
    /\ cancel = FALSE /\ faults = 0 /\ intrusions = 0
    /\ mvme = IF hw.daq = 1 THEN "running" ELSE "away"

----------------------------------------------------------------------------
Return(outcome) ==
    pc' = "ended" /\ result' = [result EXCEPT !.outcome = outcome]
Go(next) == pc' = next /\ UNCHANGED result
Failing == faults < MaxFaults /\ faults' = faults + 1
Fine == faults' = faults

\* An access fails by itself, or because the user has cancelled.
AccessFails == Failing \/ (cancel /\ Fine)

----------------------------------------------------------------------------
\* Path and storage checks, the transport, ProbeTargetOnOpenTransport and the
\* check that the module is approved for writing.
Preflight ==
    /\ pc = "preflight"
    /\ \/ cancel /\ Fine /\ Return("interrupted")
       \/ AccessFails /\ Return("unavailable")
       \/ Fine /\ ~cancel /\ (hw.daq = 1 \/ hw.acq = 1) /\ Return("refused")
       \/ Fine /\ ~cancel /\ hw.daq = 0 /\ hw.acq = 0 /\ Go("create")
    /\ UNCHANGED <<hw, journal, durable, cap, intrusions, env>>

\* Mutant: a save that could not be made durable is good enough.
CreateJournalUnsynced ==
    /\ pc = "create"
    /\ \/ /\ journal # NoRecord
          /\ Return("recordExists") /\ Fine /\ UNCHANGED durable
          /\ UNCHANGED journal
       \/ /\ journal = NoRecord /\ Fine
          /\ journal' = Prepared /\ UNCHANGED durable
          /\ pc' = "begin" /\ result' = [result EXCEPT !.phase = "prepared"]
    /\ UNCHANGED <<hw, cap, intrusions, env>>

\* CreateTunerRecoveryJournalExclusive
CreateJournal ==
    /\ pc = "create"
    /\ \/ /\ journal # NoRecord
          /\ Return("recordExists") /\ Fine /\ UNCHANGED <<journal, durable>>
       \/ /\ journal = NoRecord /\ Fine
          /\ journal' = Prepared /\ durable' = Prepared
          /\ pc' = "begin" /\ result' = [result EXCEPT !.phase = "prepared"]
       \/ /\ journal = NoRecord /\ Failing
          /\ Return("storage") /\ UNCHANGED <<journal, durable>>
       \/ /\ journal = NoRecord /\ Failing
          /\ journal' = Prepared /\ UNCHANGED durable
          /\ pc' = "ended"
          /\ result' = [outcome |-> "storage", phase |-> "prepared"]
    /\ UNCHANGED <<hw, cap, intrusions, env>>

----------------------------------------------------------------------------
\* How a capture that is not complete ends the operation.
Incomplete(why) ==
    /\ UNCHANGED cap
    /\ Return(CASE why = "active" -> "controllerActive"
                [] cancel -> "interrupted"
                [] OTHER -> "captureFailed")

\* daqGate: what follows an idle controller, an active one and a failed read.
DaqGate(at, allowed, active, failed) ==
    /\ pc = at
    /\ \/ AccessFails /\ failed
       \/ ~cancel /\ Fine /\ hw.daq = 1 /\ active
       \/ ~cancel /\ Fine /\ hw.daq = 0 /\ allowed
    /\ UNCHANGED <<hw, journal, durable, intrusions, env>>

\* The gates of the capture.
GateBefore(at, next) ==
    DaqGate(at, Go(next) /\ UNCHANGED cap, Incomplete("active"), Incomplete("failed"))

CaptureGate == GateBefore("begin", "globals")

CaptureGlobals ==
    /\ pc = "globals"
    /\ \/ AccessFails /\ Incomplete("failed")
       \/ ~cancel /\ Fine /\ Go("bankGate") /\ UNCHANGED cap
    /\ UNCHANGED <<hw, journal, durable, intrusions, env>>

BankGate == GateBefore("bankGate", "select")

WriteSelector(q) ==
    /\ intrusions' = IF mvme = "running" THEN intrusions + 1 ELSE intrusions
    /\ \/ /\ hw' = [hw EXCEPT !.selector = q] /\ ~cancel /\ Fine
       \/ /\ hw' \in {hw, [hw EXCEPT !.selector = q]} /\ AccessFails

\* A selection that fails leads to the parking write like a failed read.
SelectBank ==
    /\ pc = "select"
    /\ WriteSelector(cap.quad)
    /\ \/ Fine /\ ~cancel /\ Go("read") /\ UNCHANGED cap
       \/ AccessFails /\ Go("parkGate") /\ cap' = [cap EXCEPT !.failed = TRUE]
    /\ UNCHANGED <<journal, durable, env>>

ReadBank ==
    /\ pc = "read"
    /\ \/ AccessFails /\ Go("parkGate") /\ cap' = [cap EXCEPT !.failed = TRUE]
       \/ /\ ~cancel /\ Fine
          /\ cap' = [cap EXCEPT !.bank[cap.quad] = hw.bank[hw.selector],
                                !.quad = @ + 1]
          /\ Go(IF cap.quad + 1 \in Quads THEN "bankGate" ELSE "parkGate")
    /\ UNCHANGED <<hw, journal, durable, intrusions, env>>

ParkGate == GateBefore("parkGate", "park")

ParkSelector ==
    /\ pc = "park"
    /\ WriteSelector(0)
    /\ \/ Fine /\ ~cancel /\ IF cap.failed THEN Return("captureFailed")
                                           ELSE Go("final")
       \/ AccessFails /\ Return(IF cancel THEN "interrupted"
                                          ELSE "captureFailed")
    /\ UNCHANGED <<journal, durable, cap, env>>

\* The gate in front of the promotion: not idle ends it.
FinalRefused(why) ==
    /\ UNCHANGED cap
    /\ Return(IF why = "active" THEN "controllerActive" ELSE "interrupted")
FinalGate == DaqGate("final", Go("promote") /\ UNCHANGED cap,
                     FinalRefused("active"), FinalRefused("failed"))

Snapshot == Record("snapshot", FALSE, cap.bank)

\* PromoteTunerRecoveryJournalV5Snapshot replaces the Prepared record.
Promote ==
    /\ pc = "promote"
    /\ \/ /\ Fine
          /\ journal' = Snapshot /\ durable' = Snapshot
          /\ pc' = "ended"
          /\ result' = [outcome |-> "captured", phase |-> "snapshot"]
       \/ Failing /\ Return("promotionFailed") /\ UNCHANGED <<journal, durable>>
       \/ /\ Failing
          /\ journal' = Snapshot /\ UNCHANGED durable
          /\ pc' = "ended"
          /\ result' = [outcome |-> "promotionFailed", phase |-> "snapshot"]
    /\ UNCHANGED <<hw, cap, intrusions, env>>

----------------------------------------------------------------------------
\* The operation is lost at a checkpoint; with the power, what was not durable
\* may be lost too.
Crash ==
    /\ pc \notin {"ended", "lost"}
    /\ pc' = "lost"
    /\ UNCHANGED <<hw, journal, durable, cap, result, faults, intrusions, env>>

PowerLoss ==
    /\ pc # "lost"
    /\ pc' = "lost"
    /\ journal' \in {journal, durable}
    /\ durable' = journal'
    /\ UNCHANGED <<hw, cap, result, faults, intrusions, env>>

Cancel ==
    /\ ~cancel /\ cancel' = TRUE
    /\ pc \notin {"ended", "lost"}
    /\ UNCHANGED <<hw, journal, durable, pc, cap, result, faults, intrusions,
                   mvme, original>>

\* MVME (external) initialises the module and starts a run.
MvmeStart ==
    /\ mvme = "away" /\ mvme' = "running"
    /\ \E b \in Banks :
          hw' = [daq |-> 1, acq |-> 1, selector |-> 0, bank |-> b]
    /\ UNCHANGED <<journal, durable, pc, cap, result, cancel, faults,
                   intrusions, original>>

MvmeStop ==
    /\ mvme = "running" /\ mvme' = "stopped"
    /\ hw' = [hw EXCEPT !.daq = 0, !.acq = 0]
    /\ UNCHANGED <<journal, durable, pc, cap, result, cancel, faults,
                   intrusions, original>>

Done == pc \in {"ended", "lost"} /\ UNCHANGED vars

Operation ==
    \/ Preflight \/ CreateJournal \/ CaptureGate \/ CaptureGlobals \/ BankGate
    \/ SelectBank \/ ReadBank \/ ParkGate \/ ParkSelector \/ FinalGate
    \/ Promote

Next == Operation \/ Crash \/ PowerLoss \/ Cancel \/ MvmeStart \/ MvmeStop
        \/ Done

Spec == Init /\ [][Next]_vars

----------------------------------------------------------------------------
(***************************************************************************)
(* Whenever FIDGET has left the selector at another quad, a record that    *)
(* asks for it to be parked survives even a power loss: the Prepared       *)
(* record is durable before the first selection and is replaced only after *)
(* the parking write was acknowledged.                                     *)
(***************************************************************************)
DisplacedIsJournaled ==
    hw.selector # 0 => Own(durable) /\ durable.parking
                       /\ Own(journal) /\ journal.parking

(***************************************************************************)
(* A record with captured values holds the values the module had before    *)
(* the operation: no selection of another quad, no read of a failed bank   *)
(* and no MVME run that is still active is mixed into it.                  *)
(***************************************************************************)
SnapshotIsOriginal ==
    (Own(journal) /\ journal.phase = "snapshot" /\ mvme # "stopped") =>
        journal.bank = original

(***************************************************************************)
(* A record that was at the path before, another session's evidence, is    *)
(* never replaced (exclusive creation).                                    *)
(***************************************************************************)
ForeignRecordKept == journal = ForeignRecord => journal' = ForeignRecord

(***************************************************************************)
(* At most one selector write reaches the module during an MVME run: the   *)
(* one behind the gate that still saw the DAQ idle.                        *)
(***************************************************************************)
OneIntrusion == intrusions <= 1

(***************************************************************************)
(* The phase the result reports is the phase of the record on the disk,    *)
(* also when a save failed after it had installed its record.              *)
(***************************************************************************)
ReportMatchesDisk ==
    pc = "ended" =>
        result.phase = IF Own(journal) THEN journal.phase ELSE "none"
=============================================================================

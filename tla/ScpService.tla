---------------------------- MODULE ScpService ------------------------------
(***************************************************************************)
(* StartupPreparationOperation.cpp: the module-wide settings of the        *)
(* readout contract, written as a transaction of their own.  Two of the    *)
(* eight settings stand for all: one that a capture records (the IRQ       *)
(* level) and one that it does not (fast MBLT).                            *)
(***************************************************************************)
EXTENDS ScpApply

\* Fw2051StartupPreparationRegisterTable
ContractValue == 1
ContractSettings == {"mblt", "irq"}
ContractHolds == \A g \in ContractSettings : hw[g] = ContractValue

\* FindFw2051StartupPreparationMismatches, in the order of the table.
Preparation(g) ==
    IF hw[g] = ContractValue THEN <<>>
    ELSE <<[quad |-> NoQuad, setting |-> g, expected |-> hw[g],
            profile |-> ContractValue]>>
PreparationSteps == Preparation("mblt") \o Preparation("irq")

PreparationPassed(o) == o.ok /\ o.stopVerified /\ o.reset /\ o.leftStopped
PreparationReturn(o) ==
    Go(o.return, [o EXCEPT !.state =
                    IF PreparationPassed(o) THEN "passed" ELSE "failed"])

\* The stopped state is verified last, also after a failure.
StoppedAt(o) ==
    IF o.owned /\ o.stopSent THEN Go("prep_stopped_gate", o)
                             ELSE PreparationReturn(o)

PreparationUndo(o) ==
    IF o.next = 0 \/ ~o.owned
      THEN StoppedAt([o EXCEPT !.verified = o.safe /\ o.restored = o.attempted])
      ELSE Go("prep_undo_gate", o)

PreparationEnd(o) ==
    IF ~o.ok /\ o.attempted > 0
      THEN PreparationUndo([o EXCEPT !.rollback = TRUE, !.safe = o.owned,
                                     !.next = o.attempted])
      ELSE StoppedAt(o)

PreparationForward(o) ==
    Go(IF o.next > Len(o.steps) THEN "prep_reset_gate" ELSE "prep_write_gate", o)

----------------------------------------------------------------------------
Prepare(return) ==
    Go("prep_gate", [NoOp EXCEPT !.kind = "prepare", !.return = return])

PrepareGate ==
    /\ pc = "prep_gate"
    /\ Gate(On("prep_read"), PreparationReturn(Refused(op)))
    /\ UNCHANGED cap

PrepareRead ==
    /\ pc = "prep_read"
    /\ Read(TRUE, Go("prep_stop_gate", [op EXCEPT !.steps = PreparationSteps]),
            PreparationReturn(Failed(op)))
    /\ TransactionOnly

PrepareStopGate ==
    /\ pc = "prep_stop_gate"
    /\ Gate(On("prep_stop"), PreparationEnd(Refused(op)))
    /\ UNCHANGED cap

PrepareStop ==
    /\ pc = "prep_stop"
    /\ Store(StopAcquisition,
             Go("prep_stop_verify", [op EXCEPT !.stopSent = TRUE]),
             PreparationEnd(Failed(op)))
    /\ TransactionOnly

PrepareStopVerify ==
    /\ pc = "prep_stop_verify"
    /\ Read(hw.acq = 0, PreparationForward([op EXCEPT !.stopVerified = TRUE]),
            PreparationEnd(Failed(op)))
    /\ TransactionOnly

PrepareWriteGate ==
    /\ pc = "prep_write_gate"
    /\ Gate(On("prep_write"), PreparationEnd(Refused(op)))
    /\ UNCHANGED cap

PrepareWrite ==
    LET tried == [op EXCEPT !.attempted = @ + 1]
    IN /\ pc = "prep_write"
       /\ Store(SetGlobal(Step.setting, Step.profile),
                Go("prep_readback", tried), PreparationEnd(Failed(tried)))
       /\ TransactionOnly

PrepareReadback ==
    /\ pc = "prep_readback"
    /\ Read(hw[Step.setting] = Step.profile,
            PreparationForward([op EXCEPT !.next = @ + 1]),
            PreparationEnd(Failed(op)))
    /\ TransactionOnly

PrepareResetGate ==
    /\ pc = "prep_reset_gate"
    /\ Gate(On("prep_fifo"), PreparationEnd(Refused(op)))
    /\ UNCHANGED cap

PrepareResetFifo ==
    /\ pc = "prep_fifo"
    /\ Write(ResetFifo, On("prep_readout"), PreparationEnd(Failed(op)))
    /\ TransactionOnly

PrepareResetReadout ==
    /\ pc = "prep_readout"
    /\ Write(ResetReadout, Go("prep_final_gate", [op EXCEPT !.reset = TRUE]),
             PreparationEnd(Failed(op)))
    /\ TransactionOnly

PrepareFinalGate ==
    /\ pc = "prep_final_gate"
    /\ Gate(On("prep_final"), PreparationEnd(Refused(op)))
    /\ UNCHANGED cap

PrepareFinal ==
    /\ pc = "prep_final"
    /\ Read(hw.acq = 0 /\ ContractHolds, PreparationEnd(op),
            PreparationEnd(Failed(op)))
    /\ TransactionOnly

PrepareUndoGate ==
    /\ pc = "prep_undo_gate"
    /\ Gate(On("prep_undo"),
            PreparationUndo([Refused(op) EXCEPT !.safe = FALSE]))
    /\ UNCHANGED cap

NotRestored == PreparationUndo([op EXCEPT !.safe = FALSE, !.next = @ - 1])

PrepareUndo ==
    /\ pc = "prep_undo"
    /\ Store(SetGlobal(Step.setting, Step.expected),
             On("prep_undo_readback"), NotRestored)
    /\ TransactionOnly

PrepareUndoReadback ==
    /\ pc = "prep_undo_readback"
    /\ Read(hw[Step.setting] = Step.expected,
            PreparationUndo([op EXCEPT !.restored = @ + 1, !.next = @ - 1]),
            NotRestored)
    /\ TransactionOnly

PrepareStoppedGate ==
    /\ pc = "prep_stopped_gate"
    /\ Gate(On("prep_stopped"), PreparationReturn(Refused(op)))
    /\ UNCHANGED cap

PrepareStopped ==
    /\ pc = "prep_stopped"
    /\ Read(hw.acq = 0, PreparationReturn([op EXCEPT !.leftStopped = TRUE]),
            PreparationReturn([Failed(op) EXCEPT !.leftStopped = FALSE]))
    /\ TransactionOnly

PreparationNext ==
    \/ PrepareGate \/ PrepareRead \/ PrepareStopGate \/ PrepareStop
    \/ PrepareStopVerify \/ PrepareWriteGate \/ PrepareWrite \/ PrepareReadback
    \/ PrepareResetGate \/ PrepareResetFifo \/ PrepareResetReadout
    \/ PrepareFinalGate \/ PrepareFinal
    \/ PrepareUndoGate \/ PrepareUndo \/ PrepareUndoReadback
    \/ PrepareStoppedGate \/ PrepareStopped

-----------------------------------------------------------------------------
(***************************************************************************)
(* The commands of OwnershipService.cpp that capture, audit and apply an   *)
(* SCP configuration, with DeterministicStartupOperation.cpp.  The command *)
(* worker runs one command at a time, so a command begins only when pc is  *)
(* "idle"; MVME and failing accesses may interfere at any step.            *)
(***************************************************************************)

CONSTANTS
    Profiles,      \* the profiles that may be loaded
    MaxCommands    \* bound on commands

ASSUME ServiceAssumption ==
    /\ Profiles \subseteq Configuration
    /\ MaxCommands \in Nat

vars == <<hw, mvme, faults, intrusions, pc, op, cap, svc>>

\* captured and profile are configurationCapture and loadedProfile; audited is
\* startupAuditCompleteForTarget.
Init ==
    /\ HardwareInit
    /\ pc = "idle"
    /\ cap = NoCapture
    /\ op = NoOp
    /\ svc \in [ownership : {"open"}, audited : {FALSE}, complete : {FALSE},
                fresh : {FALSE}, captured : {Captured}, profile : Profiles,
                startupPassed : {FALSE}, commands : {0}]

Command ==
    /\ pc = "idle" /\ svc.ownership = "open" /\ svc.commands < MaxCommands
    /\ UNCHANGED hwVars
Counted(s) == [s EXCEPT !.commands = @ + 1]

\* RefreshProfileComparison compares only a fresh capture.
Comparable == svc.complete /\ svc.fresh

----------------------------------------------------------------------------
CaptureConfiguration ==
    /\ Command
    /\ svc' = Counted([svc EXCEPT !.complete = FALSE, !.fresh = FALSE,
                                  !.startupPassed = FALSE])
    /\ Capture("captured")
    /\ UNCHANGED op

CaptureConfigurationEnds ==
    /\ pc = "captured"
    /\ pc' = "idle"
    /\ svc' = [svc EXCEPT !.captured = Captured, !.complete = cap.complete,
                          !.fresh = cap.complete]
    /\ UNCHANGED <<hwVars, op, cap>>

LoadProfile ==
    /\ Command
    /\ \E p \in Profiles \ {svc.profile} :
          svc' = Counted([svc EXCEPT !.profile = p, !.startupPassed = FALSE])
    /\ UNCHANGED <<pc, op, cap>>

\* CheckPreWriteGate, then reads alone.
RunStartupAudit ==
    /\ Command
    /\ svc' = Counted([svc EXCEPT !.audited = FALSE, !.startupPassed = FALSE])
    /\ pc' = "audit_gate"
    /\ UNCHANGED <<op, cap>>

RunStartupAuditGate ==
    /\ pc = "audit_gate"
    /\ Gate(pc' = "audit_read", pc' = "idle")
    /\ UNCHANGED <<op, cap>>

RunStartupAuditEnds ==
    /\ pc = "audit_read"
    /\ Read(TRUE, svc' = [svc EXCEPT !.audited = TRUE], UNCHANGED svc)
    /\ pc' = "idle"
    /\ UNCHANGED <<op, cap>>

ApplyProfileRow ==
    /\ Command /\ Comparable
    /\ \E d \in BankedDifferences(svc.profile, svc.captured) :
          Repair(svc.captured,
                 [quad |-> d[1], setting |-> d[2],
                  expected |-> svc.captured.bank[d[1]][d[2]],
                  profile |-> svc.profile.bank[d[1]][d[2]]], "applied")
    /\ svc' = Counted(svc)
    /\ UNCHANGED cap

ApplyAllDifferences ==
    LET steps == Steps(svc.profile, svc.captured)
    IN /\ Command /\ Comparable
       /\ ApplicationPlanned(svc.profile, svc.captured) /\ steps # <<>>
       /\ BulkApply(svc.captured, steps, "applied")
       /\ svc' = Counted(svc)

\* Mutant: the capture that was applied to still counts as fresh.
ApplyKeepsFresh ==
    /\ pc = "applied"
    /\ pc' = "idle"
    /\ svc' = [svc EXCEPT !.startupPassed = FALSE]
    /\ UNCHANGED <<hwVars, op, cap>>

\* The end of ApplyProfileRow and ApplyAllDifferences.
ApplyEnds ==
    /\ pc = "applied"
    /\ pc' = "idle"
    /\ svc' = [svc EXCEPT !.fresh = FALSE, !.startupPassed = FALSE]
    /\ UNCHANGED <<hwVars, op, cap>>

----------------------------------------------------------------------------
\* RunDeterministicStartup and RunFw2051DeterministicStartup.
RunDeterministicStartup ==
    /\ Command /\ Comparable /\ svc.audited
    /\ StartupPlanned(svc.profile, svc.captured)
    /\ svc' = Counted([svc EXCEPT !.fresh = FALSE, !.startupPassed = FALSE])
    /\ Prepare("startup_prepared")
    /\ UNCHANGED cap

StartupFails ==
    /\ pc' = "idle"
    /\ svc' = [svc EXCEPT !.startupPassed = FALSE, !.fresh = FALSE]
    /\ UNCHANGED <<op, cap>>

StartupCaptures(return) == Capture(return) /\ UNCHANGED <<op, svc>>

StartupPrepared ==
    /\ pc = "startup_prepared"
    /\ IF op.state = "passed" THEN StartupCaptures("startup_captured")
                              ELSE StartupFails
    /\ UNCHANGED hwVars

StartupCaptured ==
    LET steps == Steps(svc.profile, Captured)
    IN /\ pc = "startup_captured"
       /\ IF ~cap.complete \/ ~ApplicationPlanned(svc.profile, Captured)
            THEN StartupFails
          ELSE IF steps = <<>> THEN StartupCaptures("startup_final")
          ELSE BulkApply(Captured, steps, "startup_applied") /\ UNCHANGED svc
       /\ UNCHANGED hwVars

StartupApplied ==
    /\ pc = "startup_applied"
    /\ IF op.state = "passed" THEN StartupCaptures("startup_final")
                              ELSE StartupFails
    /\ UNCHANGED hwVars

StartupFinal ==
    /\ pc = "startup_final"
    /\ IF cap.complete /\ SameConfiguration(svc.profile, Captured)
         THEN /\ pc' = "idle"
              /\ svc' = [svc EXCEPT !.startupPassed = TRUE,
                            !.captured = Captured, !.complete = TRUE,
                            !.fresh = TRUE]
              /\ UNCHANGED <<op, cap>>
         ELSE StartupFails
    /\ UNCHANGED hwVars

----------------------------------------------------------------------------
Done ==
    /\ pc = "idle"
    /\ svc.ownership = "lost" \/ svc.commands = MaxCommands
    /\ UNCHANGED vars

ServiceNext ==
    \/ CaptureConfiguration \/ CaptureConfigurationEnds \/ LoadProfile
    \/ RunStartupAudit \/ RunStartupAuditGate \/ RunStartupAuditEnds
    \/ ApplyProfileRow \/ ApplyAllDifferences \/ ApplyEnds
    \/ RunDeterministicStartup \/ StartupPrepared \/ StartupCaptured
    \/ StartupApplied \/ StartupFinal

Next ==
    \/ ServiceNext \/ CaptureNext \/ BulkNext \/ RepairNext \/ PreparationNext
    \/ MvmeStart \/ MvmeStop \/ Done

Spec == Init /\ [][Next]_vars

----------------------------------------------------------------------------
Alone == mvme = "away"
\* MVME has not acted since the transaction began.
Undisturbed == op.began = mvme /\ mvme # "running"
Ended == pc \in {"applied", "startup_applied", "startup_prepared"}

(***************************************************************************)
(* An application that reports Passed has left the module as planned (a    *)
(* bulk application: in all quads, also when MVME had changed the module   *)
(* after the plan was made), stopped, with the selector parked and the     *)
(* readout reset after the last write (ApplyFw2051ScpProfile,              *)
(* RepairFw2051ScpProfileValue, PrepareFw2051ModuleForStartup).            *)
(***************************************************************************)
PassedIsApplied ==
    Ended /\ op.state = "passed" /\ Undisturbed =>
        /\ CASE op.kind = "bulk" -> hw.bank = Target(op.live.bank, op.steps) /\ hw.selector = 0
             [] op.kind = "repair" ->
                  /\ hw.bank[op.steps[1].quad][op.steps[1].setting] = op.steps[1].profile
                  /\ hw.selector = 0
             [] op.kind = "prepare" -> ContractHolds
        /\ hw.acq = 0 /\ hw.readout = "clean"

(***************************************************************************)
(* A rollback that is reported as verified has undone every write, also    *)
(* one that was reported as failed and took effect, in the bank it was     *)
(* sent to.                                                                *)
(***************************************************************************)
VerifiedRollbackRestores ==
    Ended /\ op.state = "failed" /\ op.verified /\ Undisturbed =>
        /\ op.kind = "bulk" => hw.bank = op.live.bank
        /\ \A i \in DOMAIN op.steps :
              op.steps[i].expected =
                  IF op.kind = "prepare" THEN hw[op.steps[i].setting]
                  ELSE hw.bank[op.steps[i].quad][op.steps[i].setting]

(***************************************************************************)
(* The coupled settings of every quad are valid at every moment of an      *)
(* application that finds them valid, and of its rollback, between the two *)
(* writes of a pair too.  A rollback that has met a value it cannot        *)
(* restore goes on and may leave a pair invalid.                           *)
(***************************************************************************)
PairsStayValid ==
    Alone /\ op.safe => \A q \in Quads :
        op.kind # "none" /\ Coupled(op.live.bank[q]) => Coupled(hw.bank[q])

(***************************************************************************)
(* Once MVME runs, FIDGET sends no more than the two writes that follow    *)
(* one gate, in whatever operation, rollback or startup it is.             *)
(***************************************************************************)
IntrusionIsBounded == intrusions <= 2

(***************************************************************************)
(* A capture that counts as fresh shows what is on the module: every       *)
(* command that changes the module withdraws it.                           *)
(***************************************************************************)
FreshIsLive ==
    pc = "idle" /\ svc.fresh /\ Alone =>
        svc.captured = [bank |-> hw.bank, irq |-> hw.irq]

(***************************************************************************)
(* As long as deterministic startup counts as passed, the module has the   *)
(* profile and the readout contract, is stopped and has the selector       *)
(* parked.                                                                 *)
(***************************************************************************)
StartupPassedHolds ==
    svc.startupPassed /\ Alone =>
        /\ hw.bank = svc.profile.bank /\ ContractHolds
        /\ hw.acq = 0 /\ hw.selector = 0
=============================================================================

------------------------------ MODULE ScpApply ------------------------------
(***************************************************************************)
(* The module an SCP operation works on, what one register access may      *)
(* return, MVME, and the ownership gate in front of the writes.            *)
(***************************************************************************)
EXTENDS ScpPlan

CONSTANTS
    LiveBanks,     \* the configurations the module may be found in
    MaxFaults      \* bound on failing accesses

ASSUME HardwareAssumption == LiveBanks \subseteq Banks /\ MaxFaults \in Nat

VARIABLES
    hw,          \* the registers
    mvme,        \* "away", then "running", then "stopped"
    faults,      \* accesses that have failed
    intrusions,  \* writes FIDGET has sent while an MVME run was active
    pc, op, cap, svc

hwVars == <<hw, mvme, faults, intrusions>>

\* readout is "dirty" once a setting is written, "fifo" when the FIFO has been
\* reset since and "clean" when the readout has been reset after that.
\* mblt stands for the settings of the readout contract a capture leaves out.
HardwareInit ==
    /\ hw \in [daq : {0}, acq : {0, 1}, selector : {0}, bank : LiveBanks,
               irq : {0, 1}, mblt : {0}, readout : {"dirty"}]
    /\ mvme = "away" /\ faults = 0 /\ intrusions = 0

Dirty(new) == [new EXCEPT !.readout = "dirty"]
Select(q) == [hw EXCEPT !.selector = q]
StopAcquisition == [hw EXCEPT !.acq = 0]
SetBanked(s, v) == Dirty([hw EXCEPT !.bank[hw.selector][s] = v])
SetGlobal(g, v) == Dirty([hw EXCEPT ![g] = v])
ResetFifo == [hw EXCEPT !.readout = "fifo"]
ResetReadout == [hw EXCEPT !.readout = IF @ = "fifo" THEN "clean" ELSE @]
LiveValue(s) == hw.bank[hw.selector][s]

Fault == faults < MaxFaults
Failing == Fault /\ faults' = faults + 1
Sent == /\ intrusions' = IF hw.daq = 1 THEN intrusions + 1 ELSE intrusions
        /\ UNCHANGED mvme

\* A write that is reported as failed may have taken effect.
Write(new, acknowledged, failed) ==
    /\ Sent
    /\ \/ hw' = new /\ faults' = faults /\ acknowledged
       \/ Failing /\ hw' \in {hw, new} /\ failed

\* A register with readback: the module may also not retain the value.
Store(new, acknowledged, failed) ==
    \/ Write(new, acknowledged, failed)
    \/ Sent /\ Failing /\ hw' = hw /\ acknowledged

Read(good, value, failed) ==
    /\ UNCHANGED <<hw, mvme, intrusions>>
    /\ \/ faults' = faults /\ good /\ value
       \/ faults' = faults /\ ~good /\ failed
       \/ Failing /\ failed

----------------------------------------------------------------------------
\* MVME initialises the module and starts a run; it may stop it again before
\* FIDGET looks at the DAQ mode.
MvmeStart ==
    /\ mvme = "away"
    /\ mvme' = "running"
    /\ \E b \in LiveBanks :
          hw' = [hw EXCEPT !.daq = 1, !.acq = 1, !.selector = 0, !.bank = b]
    /\ UNCHANGED <<faults, intrusions, pc, op, cap, svc>>

MvmeStop ==
    /\ mvme = "running"
    /\ mvme' = "stopped"
    /\ hw' = [hw EXCEPT !.daq = 0, !.acq = 0]
    /\ UNCHANGED <<faults, intrusions, pc, op, cap, svc>>

----------------------------------------------------------------------------
\* DetachForForeignDaq
DetachForForeignDaq ==
    [svc EXCEPT !.ownership = "lost", !.audited = FALSE, !.complete = FALSE,
                !.fresh = FALSE, !.startupPassed = FALSE]

\* CheckApplyOwnershipGate; the gates of capture and startup are the same.
Gate(allowed, refused) ==
    /\ UNCHANGED <<hw, mvme, intrusions>>
    /\ \/ /\ svc.ownership = "open" /\ hw.daq = 0
          /\ faults' = faults /\ svc' = svc /\ allowed
       \/ /\ svc.ownership = "open" /\ hw.daq = 1
          /\ faults' = faults /\ svc' = DetachForForeignDaq /\ refused
       \/ /\ svc.ownership = "open"
          /\ Failing /\ svc' = svc /\ refused
       \/ /\ svc.ownership # "open"
          /\ faults' = faults /\ svc' = svc /\ refused

-----------------------------------------------------------------------------
(***************************************************************************)
(* ScpCaptureOperation.cpp: the configuration of all quads, read through   *)
(* the bank selector, which is parked at quad zero at the end even after a *)
(* failure.  The reads between two writes are one step: no property tells  *)
(* apart when MVME interferes between them.  return is where the caller    *)
(* goes on.                                                                *)
(***************************************************************************)

CaptureOnly == UNCHANGED <<op, svc>>
GateOnly == UNCHANGED op

NoCapture == [return |-> "idle", quad |-> 0, ok |-> TRUE, irq |-> 0,
              bank |-> CHOOSE b \in LiveBanks : TRUE, complete |-> FALSE]

Capture(return) ==
    /\ cap' = [NoCapture EXCEPT !.return = return]
    /\ pc' = "cap_gate"

Captured == [bank |-> cap.bank, irq |-> cap.irq]

CaptureReturn(complete) ==
    /\ cap' = [cap EXCEPT !.complete = complete]
    /\ pc' = cap.return

CaptureGo(next) == pc' = next /\ cap' = cap
CaptureFails(next) == pc' = next /\ cap' = [cap EXCEPT !.ok = FALSE]

CaptureGate ==
    /\ pc = "cap_gate"
    /\ Gate(CaptureGo("cap_globals"), CaptureReturn(FALSE))
    /\ GateOnly

\* Identity and module-wide settings; a module that is not approved for
\* writing ends like a failed read.
CaptureGlobals ==
    /\ pc = "cap_globals"
    /\ Read(TRUE, pc' = "cap_select" /\ cap' = [cap EXCEPT !.irq = hw.irq],
            CaptureReturn(FALSE))
    /\ CaptureOnly

CaptureBankGate ==
    /\ pc = "cap_bank"
    /\ Gate(CaptureGo("cap_select"), CaptureReturn(FALSE))
    /\ GateOnly

CaptureSelect ==
    /\ pc = "cap_select"
    /\ Write(Select(cap.quad), CaptureGo("cap_read"),
             CaptureFails("cap_park_gate"))
    /\ CaptureOnly

CaptureRead ==
    /\ pc = "cap_read"
    /\ Read(TRUE,
            /\ cap' = [cap EXCEPT !.quad = @ + 1,
                          !.bank[cap.quad] = hw.bank[hw.selector]]
            /\ pc' = IF cap.quad + 1 \in Quads THEN "cap_bank"
                                               ELSE "cap_park_gate",
            CaptureFails("cap_park_gate"))
    /\ CaptureOnly

CaptureParkGate ==
    /\ pc = "cap_park_gate"
    /\ Gate(CaptureGo("cap_park"), CaptureReturn(FALSE))
    /\ GateOnly

CapturePark ==
    /\ pc = "cap_park"
    /\ Write(Select(0), CaptureReturn(cap.ok), CaptureReturn(FALSE))
    /\ CaptureOnly

CaptureNext ==
    \/ CaptureGate \/ CaptureGlobals \/ CaptureBankGate \/ CaptureSelect
    \/ CaptureRead \/ CaptureParkGate \/ CapturePark

-----------------------------------------------------------------------------
(***************************************************************************)
(* ScpBulkApplyOperation.cpp: all differences between a profile and the    *)
(* captured configuration are written as one transaction.  The module is   *)
(* captured again and stopped first, every write is read back, and after a *)
(* failure the attempted writes are undone in reverse order.  A gate       *)
(* stands before every step; once it has refused nothing more is sent.     *)
(***************************************************************************)

NoQuad == QuadCount

(***************************************************************************)
(* The transaction under way, also that of a single repair and of the      *)
(* startup preparation.  next is the step it is at, counting down in a     *)
(* rollback, ok says that nothing has failed, owned that no gate has       *)
(* refused; began, for the properties, is what MVME was doing when it      *)
(* began.                                                                  *)
(***************************************************************************)
NoOp == [kind |-> "none", state |-> "none", return |-> "idle",
         live |-> Captured, steps |-> <<>>, next |-> 1, selected |-> NoQuad,
         attempted |-> 0, ok |-> TRUE, owned |-> TRUE, stopSent |-> FALSE,
         stopVerified |-> FALSE,
         retained |-> FALSE, parked |-> FALSE, reset |-> FALSE,
         rollback |-> FALSE, restored |-> 0, safe |-> TRUE, verified |-> FALSE,
         leftStopped |-> FALSE, began |-> mvme]

Go(next, o) == pc' = next /\ op' = o
On(next) == Go(next, op)
Failed(o) == [o EXCEPT !.ok = FALSE]
Refused(o) == [o EXCEPT !.ok = FALSE, !.owned = FALSE]
TransactionOnly == UNCHANGED <<cap, svc>>

Step == op.steps[op.next]

BulkPassed(o) ==
    o.ok /\ o.stopVerified /\ o.retained /\ o.parked /\ o.reset
BulkReturn(o) ==
    Go(o.return, [o EXCEPT !.state = IF BulkPassed(o) THEN "passed" ELSE "failed"])

----------------------------------------------------------------------------
\* Where the transaction goes on.
ForwardAt(o) ==
    IF o.next > Len(o.steps) THEN "bulk_park_gate"
    ELSE IF o.steps[o.next].quad # o.selected THEN "bulk_bank_gate"
    ELSE "bulk_write_gate"

Forward(o) ==
    Go(ForwardAt(o), [o EXCEPT !.retained = o.next > Len(o.steps)])

RollbackEnd(o) ==
    LET done == [o EXCEPT !.verified = o.safe /\ o.restored = o.attempted]
    IN  IF o.owned THEN Go("bulk_park_gate", done) ELSE BulkReturn(done)

Rollback(o) ==
    IF o.next = 0 THEN RollbackEnd(o)
    ELSE Go(IF o.steps[o.next].quad # o.selected
              THEN "bulk_undo_bank_gate" ELSE "bulk_undo_gate", o)

\* Nothing is undone when ownership is gone or nothing was attempted.
BulkEnd(o) ==
    IF ~o.ok /\ o.owned /\ o.attempted > 0 /\ ~o.rollback
      THEN Rollback([o EXCEPT !.rollback = TRUE, !.retained = FALSE,
                              !.selected = NoQuad, !.next = o.attempted])
      ELSE BulkReturn(o)

----------------------------------------------------------------------------
\* The banks once all steps are written.
Target(bank, steps) ==
    [q \in Quads |-> [s \in Settings |->
        IF \E i \in DOMAIN steps : steps[i].quad = q /\ steps[i].setting = s
          THEN (CHOOSE st \in {steps[i] : i \in DOMAIN steps} :
                   st.quad = q /\ st.setting = s).profile
          ELSE bank[q][s]]]

ValidateRequest(live, steps) ==
    /\ steps # <<>>
    /\ \A i \in DOMAIN steps :
          live.bank[steps[i].quad][steps[i].setting] = steps[i].expected
    /\ \A q \in Quads : Coupled(Target(live.bank, steps)[q])

BulkApply(live, steps, return) ==
    /\ ValidateRequest(live, steps)
    /\ op' = [NoOp EXCEPT !.kind = "bulk", !.live = live, !.steps = steps,
                          !.return = return]
    /\ Capture("bulk_preflight")

\* The module still has to be as it was when the steps were planned.
BulkPreflight ==
    /\ pc = "bulk_preflight"
    /\ IF cap.complete /\ SameConfiguration(op.live, Captured)
         THEN On("bulk_stop_gate") ELSE BulkReturn(Failed(op))
    /\ UNCHANGED hwVars /\ TransactionOnly

BulkStopGate ==
    /\ pc = "bulk_stop_gate"
    /\ Gate(On("bulk_stop"), BulkEnd(Refused(op)))
    /\ UNCHANGED cap

BulkStop ==
    /\ pc = "bulk_stop"
    /\ Store(StopAcquisition, On("bulk_stop_verify"), BulkEnd(Failed(op)))
    /\ TransactionOnly

\* Mutant: an acknowledged stop is not read back.
BulkStopTrusted ==
    /\ pc = "bulk_stop_verify"
    /\ Forward([op EXCEPT !.stopVerified = TRUE, !.leftStopped = TRUE])
    /\ UNCHANGED hwVars /\ TransactionOnly

BulkStopVerify ==
    /\ pc = "bulk_stop_verify"
    /\ Read(hw.acq = 0,
            Forward([op EXCEPT !.stopVerified = TRUE, !.leftStopped = TRUE]),
            BulkEnd(Failed(op)))
    /\ TransactionOnly

BulkBankGate ==
    /\ pc = "bulk_bank_gate"
    /\ Gate(On("bulk_select"), BulkEnd(Refused(op)))
    /\ UNCHANGED cap

BulkSelect ==
    /\ pc = "bulk_select"
    /\ Write(Select(Step.quad),
             Go("bulk_write_gate", [op EXCEPT !.selected = Step.quad]),
             BulkEnd(Failed(op)))
    /\ TransactionOnly

\* Mutant: the ownership gate stands only before a bank is selected.
BulkWriteUngated ==
    /\ pc = "bulk_write_gate"
    /\ On("bulk_write")
    /\ UNCHANGED hwVars /\ TransactionOnly

BulkWriteGate ==
    /\ pc = "bulk_write_gate"
    /\ Gate(On("bulk_write"), BulkEnd(Refused(op)))
    /\ UNCHANGED cap

\* A write counts as attempted whatever comes of it.
BulkWrite ==
    LET tried == [op EXCEPT !.attempted = @ + 1]
    IN /\ pc = "bulk_write"
       /\ Store(SetBanked(Step.setting, Step.profile),
                Go("bulk_readback", tried), BulkEnd(Failed(tried)))
       /\ TransactionOnly

BulkReadback ==
    /\ pc = "bulk_readback"
    /\ Read(LiveValue(Step.setting) = Step.profile,
            Forward([op EXCEPT !.next = @ + 1]), BulkEnd(Failed(op)))
    /\ TransactionOnly

----------------------------------------------------------------------------
BulkUndoBankGate ==
    /\ pc = "bulk_undo_bank_gate"
    /\ Gate(On("bulk_undo_select"),
            RollbackEnd([Refused(op) EXCEPT !.safe = FALSE]))
    /\ UNCHANGED cap

\* Mutant: the rollback trusts the bank that was selected last.
BulkUndoSelectSkipped ==
    /\ pc = "bulk_undo_select"
    /\ Go("bulk_undo_gate", [op EXCEPT !.selected = Step.quad])
    /\ UNCHANGED hwVars /\ TransactionOnly

BulkUndoSelect ==
    /\ pc = "bulk_undo_select"
    /\ Write(Select(Step.quad),
             Go("bulk_undo_gate", [op EXCEPT !.selected = Step.quad]),
             RollbackEnd([op EXCEPT !.safe = FALSE]))
    /\ TransactionOnly

BulkUndoGate ==
    /\ pc = "bulk_undo_gate"
    /\ Gate(On("bulk_undo"), RollbackEnd([Refused(op) EXCEPT !.safe = FALSE]))
    /\ UNCHANGED cap

\* A value that cannot be restored does not end the rollback.
Unrestored == Rollback([op EXCEPT !.safe = FALSE, !.next = @ - 1])

BulkUndo ==
    /\ pc = "bulk_undo"
    /\ Store(SetBanked(Step.setting, Step.expected),
             On("bulk_undo_readback"), Unrestored)
    /\ TransactionOnly

BulkUndoReadback ==
    /\ pc = "bulk_undo_readback"
    /\ Read(LiveValue(Step.setting) = Step.expected,
            Rollback([op EXCEPT !.restored = @ + 1, !.next = @ - 1]),
            Unrestored)
    /\ TransactionOnly

----------------------------------------------------------------------------
\* parkSelector and resetReadout, on the way forward and after a rollback.
ParkedAt(o) ==
    IF o.rollback /\ ~o.verified THEN BulkReturn(o) ELSE Go("bulk_reset_gate", o)

BulkParkGate ==
    /\ pc = "bulk_park_gate"
    /\ Gate(On("bulk_park"), BulkReturn(Refused(op)))
    /\ UNCHANGED cap

BulkPark ==
    /\ pc = "bulk_park"
    /\ Write(Select(0), ParkedAt([op EXCEPT !.parked = TRUE]),
             IF op.rollback THEN ParkedAt(op) ELSE BulkEnd(Failed(op)))
    /\ TransactionOnly

BulkResetGate ==
    /\ pc = "bulk_reset_gate"
    /\ Gate(On("bulk_fifo"), BulkReturn(Refused(op)))
    /\ UNCHANGED cap

BulkResetFifo ==
    /\ pc = "bulk_fifo"
    /\ Write(ResetFifo, On("bulk_readout"), BulkEnd(Failed(op)))
    /\ TransactionOnly

BulkResetReadout ==
    /\ pc = "bulk_readout"
    /\ Write(ResetReadout, BulkEnd([op EXCEPT !.reset = TRUE]),
             BulkEnd(Failed(op)))
    /\ TransactionOnly

BulkNext ==
    \/ BulkPreflight \/ BulkStopGate \/ BulkStop \/ BulkStopVerify
    \/ BulkBankGate \/ BulkSelect \/ BulkWriteGate \/ BulkWrite \/ BulkReadback
    \/ BulkUndoBankGate \/ BulkUndoSelect \/ BulkUndoGate \/ BulkUndo
    \/ BulkUndoReadback
    \/ BulkParkGate \/ BulkPark \/ BulkResetGate \/ BulkResetFifo
    \/ BulkResetReadout

-----------------------------------------------------------------------------
(***************************************************************************)
(* ScpSingleRepairOperation.cpp: one value of the profile is applied.  The *)
(* transaction has one step.  Unlike a bulk application it reads the run   *)
(* state before it stops the module, checks the coupled setting against    *)
(* the live module, goes on to park, reset and verify after a failure, and *)
(* has a gate of its own before each of these.                             *)
(***************************************************************************)

RepairPassed(o) ==
    /\ o.ok /\ o.stopVerified /\ o.retained /\ o.parked /\ o.reset
    /\ o.leftStopped
RepairReturn(o) ==
    Go(o.return, [o EXCEPT !.state = IF RepairPassed(o) THEN "passed" ELSE "failed"])

\* What is left to do once the write has been settled: park if the selector
\* was written, reset if the write was attempted, verify if stopped.
RepairVerifyAt(o) ==
    IF o.stopVerified /\ o.owned THEN Go("fix_verify_gate", o)
                                 ELSE RepairReturn(o)
RepairResetAt(o) ==
    IF o.attempted > 0 /\ o.owned THEN Go("fix_fifo_gate", o)
                                  ELSE RepairVerifyAt(o)
RepairParkAt(o) ==
    IF o.selected # NoQuad /\ o.owned THEN Go("fix_park_gate", o)
                                      ELSE RepairResetAt(o)

Repair(live, step, return) ==
    Go("fix_gate", [NoOp EXCEPT !.kind = "repair", !.live = live,
                       !.steps = <<step>>, !.return = return])

RepairGate ==
    /\ pc = "fix_gate"
    /\ Gate(On("fix_identity"), RepairReturn(Refused(op)))
    /\ UNCHANGED cap

\* Hardware, firmware and run state.
RepairIdentity ==
    /\ pc = "fix_identity"
    /\ Read(TRUE, IF hw.acq = 0
                    THEN Go("fix_bank_gate", [op EXCEPT !.stopVerified = TRUE])
                    ELSE On("fix_stop_gate"),
            RepairReturn(Failed(op)))
    /\ TransactionOnly

RepairStopGate ==
    /\ pc = "fix_stop_gate"
    /\ Gate(On("fix_stop"), RepairReturn(Refused(op)))
    /\ UNCHANGED cap

RepairStop ==
    /\ pc = "fix_stop"
    /\ Store(StopAcquisition, On("fix_stop_verify"), RepairReturn(Failed(op)))
    /\ TransactionOnly

RepairStopVerify ==
    /\ pc = "fix_stop_verify"
    /\ Read(hw.acq = 0, Go("fix_bank_gate", [op EXCEPT !.stopVerified = TRUE]),
            RepairReturn(Failed(op)))
    /\ TransactionOnly

RepairBankGate ==
    /\ pc = "fix_bank_gate"
    /\ Gate(On("fix_select"), RepairParkAt(Refused(op)))
    /\ UNCHANGED cap

RepairSelect ==
    /\ pc = "fix_select"
    /\ Write(Select(Step.quad),
             Go("fix_read", [op EXCEPT !.selected = Step.quad]),
             RepairParkAt(Failed(op)))
    /\ TransactionOnly

\* The coupled setting as it is on the module allows the new value.
DependencyAllows(s, v) ==
    CASE s = Constrained -> DependencySatisfied(v, LiveValue(Boundary))
      [] s = Boundary -> DependencySatisfied(LiveValue(Constrained), v)
      [] OTHER -> TRUE

RepairRead ==
    /\ pc = "fix_read"
    /\ Read(/\ DependencyAllows(Step.setting, Step.profile)
            /\ LiveValue(Step.setting) = Step.expected,
            On("fix_write_gate"), RepairParkAt(Failed(op)))
    /\ TransactionOnly

RepairWriteGate ==
    /\ pc = "fix_write_gate"
    /\ Gate(On("fix_write"), RepairParkAt(Refused(op)))
    /\ UNCHANGED cap

RepairWrite ==
    LET tried == [op EXCEPT !.attempted = 1]
    IN /\ pc = "fix_write"
       /\ Store(SetBanked(Step.setting, Step.profile),
                Go("fix_readback", tried), Go("fix_undo_gate", Failed(tried)))
       /\ TransactionOnly

RepairReadback ==
    /\ pc = "fix_readback"
    /\ Read(LiveValue(Step.setting) = Step.profile,
            RepairParkAt([op EXCEPT !.retained = TRUE]),
            Go("fix_undo_gate", Failed(op)))
    /\ TransactionOnly

RepairUndoGate ==
    /\ pc = "fix_undo_gate"
    /\ Gate(Go("fix_undo", [op EXCEPT !.rollback = TRUE]),
            RepairParkAt(Refused(op)))
    /\ UNCHANGED cap

RepairUndo ==
    /\ pc = "fix_undo"
    /\ Store(SetBanked(Step.setting, Step.expected),
             On("fix_undo_readback"), RepairParkAt(op))
    /\ TransactionOnly

RepairUndoReadback ==
    /\ pc = "fix_undo_readback"
    /\ Read(LiveValue(Step.setting) = Step.expected,
            RepairParkAt([op EXCEPT !.verified = TRUE]), RepairParkAt(op))
    /\ TransactionOnly

RepairParkGate ==
    /\ pc = "fix_park_gate"
    /\ Gate(On("fix_park"), RepairResetAt(Refused(op)))
    /\ UNCHANGED cap

RepairPark ==
    /\ pc = "fix_park"
    /\ Write(Select(0), RepairResetAt([op EXCEPT !.parked = TRUE]),
             RepairResetAt(Failed(op)))
    /\ TransactionOnly

RepairFifoGate ==
    /\ pc = "fix_fifo_gate"
    /\ Gate(On("fix_fifo"), RepairReturn(Refused(op)))
    /\ UNCHANGED cap

RepairResetFifo ==
    /\ pc = "fix_fifo"
    /\ Write(ResetFifo, On("fix_readout_gate"), Go("fix_readout_gate", Failed(op)))
    /\ TransactionOnly

RepairReadoutGate ==
    /\ pc = "fix_readout_gate"
    /\ Gate(On("fix_readout"), RepairReturn(Refused(op)))
    /\ UNCHANGED cap

RepairResetReadout ==
    /\ pc = "fix_readout"
    /\ Write(ResetReadout, RepairVerifyAt([op EXCEPT !.reset = TRUE]),
             RepairVerifyAt(Failed(op)))
    /\ TransactionOnly

RepairVerifyGate ==
    /\ pc = "fix_verify_gate"
    /\ Gate(On("fix_verify"), RepairReturn(Refused(op)))
    /\ UNCHANGED cap

RepairVerify ==
    /\ pc = "fix_verify"
    /\ Read(hw.acq = 0, RepairReturn([op EXCEPT !.leftStopped = TRUE]),
            RepairReturn(Failed(op)))
    /\ TransactionOnly

RepairNext ==
    \/ RepairGate \/ RepairIdentity \/ RepairStopGate \/ RepairStop
    \/ RepairStopVerify \/ RepairBankGate \/ RepairSelect \/ RepairRead
    \/ RepairWriteGate \/ RepairWrite \/ RepairReadback
    \/ RepairUndoGate \/ RepairUndo \/ RepairUndoReadback
    \/ RepairParkGate \/ RepairPark \/ RepairFifoGate \/ RepairResetFifo
    \/ RepairReadoutGate \/ RepairResetReadout
    \/ RepairVerifyGate \/ RepairVerify
=============================================================================

----------------------- MODULE DiagnosticAcquisition -----------------------
(***************************************************************************)
(* DiagnosticAcquisitionOperation.cpp and the two commands of              *)
(* OwnershipService.cpp that use it.  Start, labels start_..., gates on    *)
(* DAQ mode, probes, journals, gates again, quiesces the non-target        *)
(* modules, installs the readout stack, starts the target and DAQ mode and *)
(* commits the journal.  Stop, labels stop_..., restores the source,       *)
(* verifies the fingerprint unless a restore has just left the session     *)
(* verified and paused, cleans up, and removes the journal.  The second    *)
(* half is the recovery of a session whose process did not stop it.        *)
(***************************************************************************)
EXTENDS DiagnosticSource

\* Non-target modules are handled in one fixed order.
First(modules) == CHOOSE m \in modules : TRUE
Handled(m) == [tx EXCEPT !.todo = @ \ {m}]

----------------------------------------------------------------------------
\* Start that fails before the journal exists keeps no session.
NotPrepared(v) == Return(NoSession, [v EXCEPT !.acq = "Failed"])

\* A failure of the preparation that leaves a Prepared journal behind.
PreparedOrphan(v) ==
    NotPrepared([v EXCEPT !.pending = tx.rec, !.own =
        IF v.own = "OwnershipLost" THEN "OwnershipLost"
                                   ELSE "RecoveryRequired"])

\* A failure after the preparation keeps the session for Stop; the snapshot
\* stays SessionOpen.
StartFailed(rec) ==
    Return([state |-> "Failed", foreign |-> FALSE, orphan |-> FALSE,
            rec |-> rec, quad |-> tx.quad, reset |-> NonTargets],
           [svc EXCEPT !.acq = "Failed", !.pending = rec])

\* CheckStartupOwnershipGate before any access to the modules.
StartGate ==
    /\ pc = "start_gate"
    /\ \/ hw.daq = 0 /\ pc' = "start_probe" /\ UNCHANGED <<tx, svc, ses>>
       \/ hw.daq = 1 /\ NotPrepared(DetachForForeignDaq(svc))
       \/ Fault /\ NotPrepared(svc)
    /\ Frozen

\* Identities and states of the target and of every configured non-target.
StartProbe ==
    /\ pc = "start_probe"
    /\ \/ /\ tx' = [tx EXCEPT !.need = {m \in NonTargets : hw.others[m] = 1}]
          /\ pc' = "start_journal"
          /\ UNCHANGED <<svc, ses>>
       \/ Fault /\ NotPrepared(svc)
    /\ Frozen

StartJournal ==
    /\ pc = "start_journal"
    /\ SaveJournal(PreparedRecord,
           /\ tx' = [tx EXCEPT !.rec = PreparedRecord]
           /\ pc' = "start_gate2"
           /\ UNCHANGED <<svc, ses>>,
           NotPrepared(svc))
    /\ UNCHANGED <<hw, mvme, calm>>

StartGate2 ==
    /\ pc = "start_gate2"
    /\ \/ /\ hw.daq = 0
          /\ tx' = [tx EXCEPT !.todo = NonTargets]
          /\ pc' = "start_quiesce"
          /\ UNCHANGED <<svc, ses>>
       \/ hw.daq = 1 /\ PreparedOrphan(DetachForForeignDaq(svc))
       \/ Fault /\ PreparedOrphan(svc)
    /\ Frozen

\* One module that was found running is stopped; the others are only read.
StartQuiesce ==
    /\ pc = "start_quiesce"
    /\ \/ /\ tx.todo # {}
          /\ First(tx.todo) \in tx.need
          /\ Write(SetOther(First(tx.todo), 0),
                   tx' = tx /\ pc' = "start_quiet",
                   /\ tx' = [Handled(First(tx.todo)) EXCEPT !.failed = TRUE]
                   /\ pc' = "start_quiesce")
          /\ UNCHANGED <<svc, ses>>
       \/ /\ tx.todo # {}
          /\ First(tx.todo) \notin tx.need
          /\ pc' = "start_quiet"
          /\ UNCHANGED <<hw, tx, svc, ses>>
       \/ /\ tx.todo = {} /\ ~tx.failed
          /\ pc' = "start_open"
          /\ UNCHANGED <<hw, tx, svc, ses>>
       \/ /\ tx.todo = {} /\ tx.failed
          /\ PreparedOrphan(svc)
          /\ UNCHANGED hw
    /\ UNCHANGED <<mvme, calm, journal>>

\* Its stopped state is read back, then its FIFO and readout are reset.
StartQuiet ==
    /\ pc = "start_quiet"
    /\ LET m == First(tx.todo)
       IN  \/ hw.others[m] = 0 /\ tx' = Handled(m)
           \/ /\ Fault \/ hw.others[m] = 1
              /\ tx' = [Handled(m) EXCEPT !.failed = TRUE]
    /\ pc' = "start_quiesce"
    /\ UNCHANGED hw
    /\ HardwareOnly

\* The data path is opened and the MVLC's data stream redirected to it.
StartOpen ==
    /\ pc = "start_open"
    /\ \/ pc' = "start_stack" /\ UNCHANGED <<tx, svc, ses>>
       \/ Fault /\ StartFailed(tx.rec)
    /\ Frozen

\* One write of the start sequence: the next label, or a failed start.
StartWrite(label, new, next) ==
    /\ pc = label
    /\ Write(new, pc' = next /\ UNCHANGED <<tx, svc, ses>>,
                  StartFailed(tx.rec))
    /\ UNCHANGED <<mvme, calm, journal>>

\* Stack words and token; offset and a cleared trigger; trigger.  Registers
\* another controller has overwritten in between do not become ours again.
Installed(s) == SetStack(IF hw.stack = "partial" THEN s ELSE "foreign")
StartStack   == StartWrite("start_stack", SetStack("partial"), "start_setup")
StartSetup   == StartWrite("start_setup", Installed("partial"), "start_trigger")
StartTrigger == StartWrite("start_trigger", Installed("ours"), "start_reset")
\* Stop, FIFO reset and readout reset of the target, then its start.
StartReset   == StartWrite("start_reset", SetRun(0), "start_module")
StartModule  == StartWrite("start_module", SetRun(1), "start_daq")
StartDaq     == StartWrite("start_daq", SetDaq(1), "start_verify")

StartVerify ==
    /\ pc = "start_verify"
    /\ \/ hw.daq = 1 /\ pc' = "start_activate" /\ UNCHANGED <<tx, svc, ses>>
       \/ (Fault \/ hw.daq = 0) /\ StartFailed(tx.rec)
    /\ Frozen

\* Mutant: a failed commit of the journal does not fail the start.
StartActivateUnsaved ==
    /\ pc = "start_activate"
    /\ LET rec == [tx.rec EXCEPT !.phase = "Active"]
           Started == Return([state |-> "Running", foreign |-> FALSE,
                              orphan |-> FALSE, rec |-> rec,
                              quad |-> tx.quad, reset |-> NonTargets],
                             [svc EXCEPT !.acq = "Running",
                                         !.receiver = TRUE])
       IN  SaveJournal(rec, Started, Started)
    /\ UNCHANGED <<hw, mvme, calm>>

\* The in-memory record is Active before the save is attempted.
StartActivate ==
    /\ pc = "start_activate"
    /\ LET rec == [tx.rec EXCEPT !.phase = "Active"]
       IN  SaveJournal(rec,
               Return([state |-> "Running", foreign |-> FALSE,
                       orphan |-> FALSE, rec |-> rec, quad |-> tx.quad,
                       reset |-> NonTargets],
                      [svc EXCEPT !.acq = "Running", !.receiver = TRUE]),
               StartFailed(rec))
    /\ UNCHANGED <<hw, mvme, calm>>

StartNext ==
    \/ StartGate \/ StartProbe \/ StartJournal \/ StartGate2 \/ StartQuiesce
    \/ StartQuiet \/ StartOpen \/ StartStack \/ StartSetup \/ StartTrigger
    \/ StartReset \/ StartModule \/ StartDaq \/ StartVerify \/ StartActivate

----------------------------------------------------------------------------
(***************************************************************************)
(* StopDiagnosticAcquisition of the service, after the preview restore:    *)
(* the source is restored when its entry is armed.  (Without a receiver    *)
(* the code would refuse the restore, but a session that has lost its      *)
(* receiver with an armed source entry is marked orphan and Stop returns   *)
(* before this point.)                                                     *)
(***************************************************************************)
StopSource ==
    /\ pc = "stop_source"
    /\ LET entry == ses.rec.source
       IN  \/ /\ ~entry.required
              /\ pc' = IF tx.left THEN "stop_module" ELSE "stop_check"
              /\ tx' = tx
           \/ /\ entry.required
              /\ tx' = [tx EXCEPT !.kind = "stopSource", !.quad = entry.quad,
                                  !.live = entry.original]
              /\ pc' = IF tx.left THEN "srcr_select" ELSE "srcr_check"
    /\ UNCHANGED hw
    /\ HardwareOnly

\* What every outcome of the cleanup publishes.
StopResult(s, v) ==
    Return(s, [v EXCEPT !.acq = "Failed", !.receiver = FALSE,
                        !.pending = ses.rec])

StopCheck ==
    /\ pc = "stop_check"
    /\ \/ FingerprintMatches /\ pc' = "stop_module" /\ UNCHANGED <<tx, svc, ses>>
       \/ /\ ~FingerprintMatches
          /\ StopResult(ForeignSession, [svc EXCEPT !.own = "OwnershipLost"])
       \/ /\ Fault
          /\ StopResult([ses EXCEPT !.state = "Failed", !.orphan = TRUE],
                        [svc EXCEPT !.own = "RecoveryRequired"])
    /\ Frozen

\* Mutant: an unacknowledged stop of the target is not an error.
StopModuleUnchecked ==
    /\ pc = "stop_module"
    /\ LET Others == tx' = [tx EXCEPT !.todo = NonTargets]
                      /\ pc' = "stop_others"
       IN  Write(SetRun(0), Others, Others)
    /\ HardwareOnly

StopModule ==
    /\ pc = "stop_module"
    /\ Write(SetRun(0),
             pc' = "stop_stopped" /\ tx' = tx,
             /\ tx' = [tx EXCEPT !.todo = NonTargets, !.failed = TRUE]
             /\ pc' = "stop_others")
    /\ HardwareOnly

StopStopped ==
    /\ pc = "stop_stopped"
    /\ pc' = "stop_others"
    /\ \/ hw.run = 0 /\ tx' = [tx EXCEPT !.todo = NonTargets]
       \/ /\ Fault \/ hw.run = 1
          /\ tx' = [tx EXCEPT !.todo = NonTargets, !.failed = TRUE]
    /\ UNCHANGED hw
    /\ HardwareOnly

\* A module still stopped since its quiescence needs only its two resets to
\* have been sent; one that was restarted is stopped again.
StopOthers ==
    /\ pc = "stop_others"
    /\ \/ tx.todo = {} /\ tx' = tx /\ pc' = "stop_mvlc"
       \/ LET m == First(tx.todo)
          IN  /\ tx.todo # {}
              /\ \/ /\ hw.others[m] = 0
                    /\ tx' = [Handled(m) EXCEPT
                                 !.failed = @ \/ m \notin ses.reset]
                    /\ pc' = "stop_others"
                 \/ hw.others[m] = 1 /\ tx' = tx /\ pc' = "stop_other"
                 \/ /\ Fault
                    /\ tx' = [Handled(m) EXCEPT !.failed = TRUE]
                    /\ pc' = "stop_others"
    /\ UNCHANGED hw
    /\ HardwareOnly

StopOther ==
    /\ pc = "stop_other"
    /\ LET m == First(tx.todo)
       IN  Write(SetOther(m, 0),
                 pc' = "stop_quiet" /\ tx' = tx,
                 /\ tx' = [Handled(m) EXCEPT !.failed = TRUE]
                 /\ pc' = "stop_others")
    /\ HardwareOnly

StopQuiet ==
    /\ pc = "stop_quiet"
    /\ LET m == First(tx.todo)
       IN  \/ /\ hw.others[m] = 0
              /\ tx' = Handled(m)
              /\ ses' = [ses EXCEPT !.reset = @ \cup {m}]
           \/ /\ Fault /\ hw.others[m] = 0
              /\ tx' = [Handled(m) EXCEPT !.failed = TRUE]
              /\ ses' = [ses EXCEPT !.reset = @ \ {m}]
           \/ /\ Fault \/ hw.others[m] = 1
              /\ tx' = [Handled(m) EXCEPT !.failed = TRUE]
              /\ ses' = ses
    /\ pc' = "stop_others"
    /\ UNCHANGED <<hw, mvme, calm, journal, svc>>

\* Mutant: an unacknowledged cleanup of the MVLC is not an error.
StopMvlcUnchecked ==
    /\ pc = "stop_mvlc"
    /\ Write(ClearMvlc, pc' = "stop_end" /\ tx' = tx,
                        pc' = "stop_end" /\ tx' = tx)
    /\ HardwareOnly

StopMvlc ==
    /\ pc = "stop_mvlc"
    /\ Write(ClearMvlc, pc' = "stop_clear" /\ tx' = tx, Failing("stop_end"))
    /\ HardwareOnly

StopClear ==
    /\ pc = "stop_clear"
    /\ pc' = "stop_end"
    /\ \/ hw.daq = 0 /\ hw.stack = "clear" /\ tx' = tx
       \/ /\ Fault \/ hw.daq # 0 \/ hw.stack # "clear"
          /\ tx' = [tx EXCEPT !.failed = TRUE]
    /\ UNCHANGED hw
    /\ HardwareOnly

RestorePending(rec) == rec.source.required \/ rec.preview.required

\* The journal is removed, and the session ended, only by a cleanup that
\* passed every readback and has nothing left to restore.
StopEnd ==
    /\ pc = "stop_end"
    /\ \/ /\ RestorePending(ses.rec)
          /\ StopResult([ses EXCEPT !.state = "Failed", !.orphan = TRUE],
                        [svc EXCEPT !.own = "RecoveryRequired"])
          /\ UNCHANGED journal
       \/ /\ ~RestorePending(ses.rec)
          /\ tx.failed
          /\ StopResult([ses EXCEPT !.state = "Failed"], svc)
          /\ UNCHANGED journal
       \/ /\ ~RestorePending(ses.rec)
          /\ ~tx.failed
          /\ RemoveJournal(
                 Return(NoSession, [svc EXCEPT !.acq = "Stopped",
                                     !.receiver = FALSE,
                                     !.pending = NoRecord]),
                 StopResult([ses EXCEPT !.state = "Failed"], svc))
    /\ UNCHANGED <<hw, mvme, calm>>

StopNext ==
    \/ StopSource \/ StopCheck \/ StopModule \/ StopStopped \/ StopOthers
    \/ StopOther \/ StopQuiet \/ StopMvlc \/ StopClear \/ StopEnd

-----------------------------------------------------------------------------
(***************************************************************************)
(* DiagnosticRecoveryOperation.cpp and core/RecoveryVerification.cpp: what *)
(* a later launch (or the same process after it lost its session) does     *)
(* with a pending journal, and the command of OwnershipService.cpp around  *)
(* it.  The record works on the copy taken when the command starts.        *)
(*                                                                         *)
(* An orphan (DAQ mode on, complete fingerprint live) is stopped, restored *)
(* and cleared.  With DAQ mode off only the journaled values are restored, *)
(* and every write is preceded by a fresh read of DAQ mode.                *)
(***************************************************************************)
\* Recovered or AlreadyClean: nothing of the session is kept.
RecDone ==
    /\ pc' = "idle"
    /\ tx' = NoTx
    /\ ses' = NoSession
    /\ svc' = Launched

\* Failed or ForeignOrMismatched: the journal is loaded again and retained.
RecFail ==
    /\ pc' = "idle"
    /\ tx' = NoTx
    /\ ses' = ses
    /\ \E loaded \in {journal'} \cup (IF Fault THEN {NoRecord} ELSE {}) :
          svc' = [svc EXCEPT !.own = "RecoveryRequired", !.transport = FALSE,
                      !.pending = IF loaded.phase = "None" THEN @ ELSE loaded]

Going(label) == pc' = label /\ UNCHANGED <<tx, svc, ses>>

\* Mutant: an idle controller with nothing to restore is a mismatch.
VerdictNeedsFingerprint ==
    CASE hw.daq = 0 /\ RestorePending(tx.rec) -> "IdleWithRestoration"
      [] FingerprintMatches -> "OrphanConfirmed"
      [] OTHER -> "ForeignOrMismatched"

(***************************************************************************)
(* EvaluateTunerRecoveryFingerprint.  The identity and the fingerprint     *)
(* reads are one step: nothing is written between them.                    *)
(***************************************************************************)
Verdict ==
    CASE hw.daq = 0 /\ RestorePending(tx.rec) -> "IdleWithRestoration"
      [] hw.daq = 0 /\ ~RestorePending(tx.rec) -> "AlreadyClean"
      [] FingerprintMatches -> "OrphanConfirmed"
      [] OTHER -> "ForeignOrMismatched"

RecCheck ==
    /\ pc = "rec_check"
    /\ Frozen
    /\ \/ /\ Verdict = "OrphanConfirmed"
          /\ Going("rec_stop")
       \/ /\ Verdict = "AlreadyClean"
          /\ Going("rec_remove")
       \/ /\ Verdict = "IdleWithRestoration"
          /\ tx' = [tx EXCEPT !.idle = TRUE]
          /\ pc' = "rec_gate"
          /\ UNCHANGED <<svc, ses>>
       \/ /\ Verdict = "ForeignOrMismatched" \/ Fault
          /\ RecFail

\* requireIdleDaqMode: a fresh read before an idle-restoration access.
IdleGate(label, next) ==
    /\ pc = label
    /\ Frozen
    /\ \/ hw.daq = 0 /\ Going(next)
       \/ (hw.daq # 0 \/ Fault) /\ RecFail

\* Preview first, then source, then the end of the recovery.
RestoreLabel(idle) == IF idle THEN "rb_gate1" ELSE "rb_select"
NextRestore(rec, idle) ==
    IF RestorePending(rec) THEN RestoreLabel(idle)
    ELSE IF idle THEN "rec_remove" ELSE "rec_mvlc"
RestoreOf(rec) == [tx EXCEPT !.rec = rec, !.preview = rec.preview.required,
                             !.attempted = FALSE, !.failed = FALSE]

\* An idle restoration touches only a target that is still stopped.
RecGate == IdleGate("rec_gate", "rec_target")
RecTarget ==
    /\ pc = "rec_target"
    /\ Frozen
    /\ \/ /\ hw.run = 0
          /\ tx' = RestoreOf(tx.rec)
          /\ pc' = NextRestore(tx.rec, TRUE)
          /\ UNCHANGED <<svc, ses>>
       \/ (hw.run # 0 \/ Fault) /\ RecFail

\* One write of the recovery: the next label, or a failed recovery.
RecWrite(label, new, next) ==
    /\ pc = label
    /\ UNCHANGED <<mvme, calm, journal>>
    /\ Write(new, Going(next), RecFail)

RecStop == RecWrite("rec_stop", SetRun(0), "rec_stopped")
RecStopped ==
    /\ pc = "rec_stopped"
    /\ Frozen
    /\ \/ /\ hw.run = 0
          /\ tx' = [tx EXCEPT !.todo = NonTargets]
          /\ pc' = "rec_others"
          /\ UNCHANGED <<svc, ses>>
       \/ (hw.run # 0 \/ Fault) /\ RecFail

RecOthers ==
    \/ /\ tx.todo # {}
       /\ RecWrite("rec_others", SetOther(First(tx.todo), 0), "rec_quiet")
    \/ /\ pc = "rec_others"
       /\ tx.todo = {}
       /\ tx' = RestoreOf(tx.rec)
       /\ pc' = NextRestore(tx.rec, FALSE)
       /\ UNCHANGED <<svc, ses>>
       /\ Frozen

RecQuiet ==
    /\ pc = "rec_quiet"
    /\ Frozen
    /\ \/ /\ hw.others[First(tx.todo)] = 0
          /\ tx' = Handled(First(tx.todo))
          /\ pc' = "rec_others"
          /\ UNCHANGED <<svc, ses>>
       \/ (hw.others[First(tx.todo)] # 0 \/ Fault) /\ RecFail

----------------------------------------------------------------------------
\* restoreBanked, for the entry being restored.
Entry == IF tx.preview THEN tx.rec.preview ELSE tx.rec.source
LiveBanked == IF tx.preview THEN LiveParam ELSE LiveSample
SetBanked(v) == IF tx.preview THEN SetParam(v) ELSE SetSample(v)
ParkLabel == IF tx.idle THEN "rb_gate3" ELSE "rb_park"

RbGate1 == IdleGate("rb_gate1", "rb_select")
RbSelect == RecWrite("rb_select", Select(Entry.quad), "rb_read")

\* Mutant: whatever differs from the original is overwritten.
RbReadOverwrites ==
    /\ pc = "rb_read"
    /\ \/ LiveBanked = Entry.original /\ tx' = tx
       \/ /\ LiveBanked # Entry.original
          /\ tx' = [tx EXCEPT !.attempted = TRUE]
       \/ Fault /\ tx' = [tx EXCEPT !.failed = TRUE]
    /\ pc' = IF tx.idle THEN "rb_gate2" ELSE "rb_decide"
    /\ UNCHANGED hw
    /\ HardwareOnly

(***************************************************************************)
(* The live value decides: the journaled applied value is overwritten with *)
(* the original, the original is left alone, anything else is refused (as  *)
(* is a preview whose dependency no longer allows the original).           *)
(***************************************************************************)
RbRead ==
    /\ pc = "rb_read"
    /\ \/ LiveBanked = Entry.original /\ tx' = tx
       \/ /\ LiveBanked = Entry.applied /\ LiveBanked # Entry.original
          /\ tx' = [tx EXCEPT !.attempted = TRUE]
       \/ /\ \/ LiveBanked \notin {Entry.original, Entry.applied}
             \/ tx.preview /\ LiveBanked = Entry.applied
             \/ Fault
          /\ tx' = [tx EXCEPT !.failed = TRUE]
    /\ pc' = IF tx.idle THEN "rb_gate2" ELSE "rb_decide"
    /\ UNCHANGED hw
    /\ HardwareOnly

RbGate2 == IdleGate("rb_gate2", "rb_decide")
RbDecide ==
    /\ pc = "rb_decide"
    /\ pc' = IF tx.attempted THEN "rb_write" ELSE ParkLabel
    /\ UNCHANGED <<hw, tx>>
    /\ HardwareOnly

RbWrite ==
    /\ pc = "rb_write"
    /\ Write(SetBanked(Entry.original), pc' = "rb_verify" /\ tx' = tx,
             Failing(ParkLabel))
    /\ HardwareOnly

RbVerify ==
    /\ pc = "rb_verify"
    /\ \/ LiveBanked = Entry.original /\ tx' = tx
       \/ /\ Fault \/ LiveBanked # Entry.original
          /\ tx' = [tx EXCEPT !.failed = TRUE]
    /\ pc' = ParkLabel
    /\ UNCHANGED hw
    /\ HardwareOnly

RbGate3 == IdleGate("rb_gate3", "rb_park")

RbPark ==
    /\ pc = "rb_park"
    /\ UNCHANGED <<mvme, calm, journal>>
    /\ \/ ~tx.failed /\ Write(Select(0), Going("rb_save"), RecFail)
       \/ tx.failed /\ Write(Select(0), RecFail, RecFail)

RbSave ==
    /\ pc = "rb_save"
    /\ LET rec == IF tx.preview THEN [tx.rec EXCEPT !.preview = Disarmed]
                                ELSE [tx.rec EXCEPT !.source = Disarmed]
       IN  SaveJournal(rec,
               /\ tx' = RestoreOf(rec)
               /\ pc' = NextRestore(rec, tx.idle)
               /\ UNCHANGED <<svc, ses>>,
               RecFail)
    /\ UNCHANGED <<hw, mvme, calm>>

----------------------------------------------------------------------------
RecMvlc == RecWrite("rec_mvlc", ClearMvlc, "rec_clear")

\* All four registers read back as zero, then the target's FIFO and readout
\* are reset.
RecClear ==
    /\ pc = "rec_clear"
    /\ Frozen
    /\ \/ hw.daq = 0 /\ hw.stack = "clear" /\ Going("rec_remove")
       \/ (hw.daq # 0 \/ hw.stack # "clear" \/ Fault) /\ RecFail

RecRemove ==
    /\ pc = "rec_remove"
    /\ RemoveJournal(RecDone, RecFail)
    /\ UNCHANGED <<hw, mvme, calm>>

RecoveryNext ==
    \/ RecCheck \/ RecGate \/ RecTarget \/ RecStop \/ RecStopped \/ RecOthers
    \/ RecQuiet \/ RbGate1 \/ RbSelect \/ RbRead \/ RbGate2 \/ RbDecide
    \/ RbWrite \/ RbVerify \/ RbGate3 \/ RbPark \/ RbSave \/ RecMvlc
    \/ RecClear \/ RecRemove
=============================================================================

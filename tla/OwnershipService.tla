-------------------------- MODULE OwnershipService --------------------------
(***************************************************************************)
(* OwnershipService.cpp: the commands a user may submit, the watchdog, and *)
(* the life of the process, composed with the diagnostic operations.  The  *)
(* command worker runs one task at a time, so a command or a watchdog poll *)
(* starts only when the previous task has returned (Idle).                 *)
(*                                                                         *)
(* A command that the service refuses changes nothing but a status message *)
(* and is not a step here.  Deterministic startup, which Start requires,   *)
(* leaves none of this state behind, so Start may follow OpenSession.      *)
(***************************************************************************)
EXTENDS DiagnosticAcquisition

CONSTANTS
    Sources,        \* the waveform sources a user may request (0 .. 3)
    PreviewValues   \* the parameter values a user may preview

ASSUME RequestAssumption ==
    /\ Sources \subseteq 0 .. 3
    /\ \A w \in Words, s \in Sources : w - (w % 4) + s \in Words
    /\ PreviewValues \subseteq Params

Init == CrateInit /\ JournalInit /\ SessionInit

HasSession == ses.state # "None"
Recoverable == svc.pending.phase # "None"

----------------------------------------------------------------------------
(***************************************************************************)
(* Commands that complete in one step.  A pending journal turns status     *)
(* checks and session opening into RecoveryRequired.                       *)
(***************************************************************************)
CheckStatus ==
    /\ Idle
    /\ \/ /\ Recoverable
          /\ svc' = [svc EXCEPT !.own = "RecoveryRequired"]
       \/ /\ ~Recoverable /\ svc.own # "SessionOpen"
          /\ \E own \in {IF hw.daq = 0 THEN "Idle" ELSE "InUse"}
                        \cup (IF Fault THEN {"Failed"} ELSE {}) :
                svc' = [svc EXCEPT !.own = own, !.transport = FALSE]
    /\ UNCHANGED <<ses, pc, tx>>
    /\ Frozen

\* The user has confirmed the MVME handoff.
OpenSession ==
    /\ Idle
    /\ ~Recoverable
    /\ svc.own = "Idle"
    /\ \E own \in {IF hw.daq = 0 THEN "SessionOpen" ELSE "InUse"}
                  \cup (IF Fault THEN {"Failed"} ELSE {}) :
          svc' = [svc EXCEPT !.own = own, !.transport = (own = "SessionOpen"),
                             !.pv = NoPreview]
    /\ UNCHANGED <<ses, pc, tx>>
    /\ Frozen

\* RecoverDiagnosticOrphan without confirmation only reads the controller.
CheckDiagnosticRecoveryStatus ==
    /\ Idle
    /\ Recoverable
    /\ svc' = [svc EXCEPT !.own = "RecoveryRequired", !.transport = FALSE]
    /\ UNCHANGED <<ses, pc, tx>>
    /\ Frozen

\* UseProject, and what a process finds when it is launched.
Loaded == [Launched EXCEPT
              !.pending = LoadJournal,
              !.own = IF LoadJournal.phase = "None" THEN "Disconnected"
                                                    ELSE "RecoveryRequired"]
UseProject ==
    /\ Idle
    /\ ~HasSession
    /\ svc' = Loaded
    /\ UNCHANGED <<ses, pc, tx>>
    /\ Frozen

----------------------------------------------------------------------------
\* Commands that run a diagnostic operation.
StartDiagnosticAcquisition ==
    /\ Idle
    /\ svc.own = "SessionOpen"
    /\ ~HasSession
    /\ \E q \in Quads : Begin("start", [NoTx EXCEPT !.quad = q], "start_gate")
    /\ svc' = [svc EXCEPT !.acq = "Starting", !.pv = NoPreview]
    /\ UNCHANGED ses
    /\ Frozen

Acquiring == svc.acq = "Running" /\ HasSession /\ svc.receiver

ChangeDiagnosticSource ==
    /\ Idle
    /\ Acquiring
    /\ ~svc.pv.active
    /\ ses.state = "Running"
    /\ \E s \in Sources :
          /\ SourceAdmitted(ses.rec, s)
          /\ Begin("source", [NoTx EXCEPT !.quad = ses.quad, !.req = s],
                   "src_check")
    /\ UNCHANGED <<svc, ses>>
    /\ Frozen

ApplyDiagnosticPreview ==
    /\ Idle
    /\ Acquiring
    /\ ~svc.pv.active
    /\ \E p \in PreviewValues :
          Begin("apply", [NoTx EXCEPT !.quad = ses.quad, !.req = p],
                "prv_check")
    /\ UNCHANGED <<svc, ses>>
    /\ Frozen

\* Only a preview in state PreviewActive is restored.
Restorable == svc.pv.active /\ svc.pv.ok /\ HasSession /\ svc.receiver
PreviewLocals == [NoTx EXCEPT !.quad = ses.quad, !.req = svc.pv.applied,
                              !.live = svc.pv.original]

RestoreDiagnosticPreview ==
    /\ Idle
    /\ Restorable
    /\ Begin("restore", PreviewLocals, "prv_check")
    /\ UNCHANGED <<svc, ses>>
    /\ Frozen

\* Recovery closes the session's sockets and opens its own.
RecoverDiagnosticOrphan ==
    /\ Idle
    /\ Recoverable
    /\ Begin("recover", [NoTx EXCEPT !.rec = svc.pending], "rec_check")
    /\ UNCHANGED <<svc, ses>>
    /\ Frozen

(***************************************************************************)
(* Stop.  A session marked foreign or orphan is not touched.  An active    *)
(* preview is restored first.  When it cannot even be tried (its last      *)
(* transaction failed), the flags of that old result decide: Stop gives up *)
(* when it reports missing communication, and otherwise takes the session  *)
(* for verified and paused when the old result says so.                    *)
(***************************************************************************)
Stoppable == HasSession /\ ~ses.foreign /\ ~ses.orphan
StoppedEarly == svc.pv.active /\ ~Restorable /\ svc.pv.comm
StaleLeft == svc.pv.active /\ svc.pv.paused /\ ~svc.pv.resumed

StopTask(release) ==
    /\ Stoppable
    /\ svc.transport
    /\ ~StoppedEarly
    /\ \/ /\ Restorable
          /\ Begin("stopRestore", [PreviewLocals EXCEPT !.release = release],
                   "prv_check")
       \/ /\ ~Restorable
          /\ Begin("stop", [NoTx EXCEPT !.release = release,
                                        !.left = StaleLeft], "stop_source")
    /\ UNCHANGED <<svc, ses>>

StopDiagnosticAcquisition == Idle /\ StopTask(FALSE) /\ Frozen

\* ReleaseSession is Stop, followed by the end of the session (Return), or
\* the end of a session that Stop does not touch.
ReleaseSession ==
    /\ Idle
    /\ \/ StopTask(TRUE)
       \/ /\ ~HasSession
          /\ svc' = Released(svc)
          /\ UNCHANGED <<ses, pc, tx>>
       \/ /\ HasSession
          /\ ses.foreign \/ ses.orphan
          /\ svc' = Dropped(svc)
          /\ ses' = NoSession
          /\ UNCHANGED <<pc, tx>>
    /\ Frozen

----------------------------------------------------------------------------
(***************************************************************************)
(* The watchdog posts PollWatchdog once per interval while a session is    *)
(* open.  A missing reply changes nothing.                                 *)
(***************************************************************************)
PollWatchdog ==
    /\ Idle
    /\ svc.own = "SessionOpen"
    /\ \/ /\ svc.acq = "Running" /\ HasSession
          /\ ~FingerprintMatches
          /\ ses' = ForeignSession
          /\ svc' = DetachForForeignDiagnosticFingerprint(svc.pv)
       \/ /\ ~(svc.acq = "Running" /\ HasSession)
          /\ hw.daq = 1
          /\ ses' = ses
          /\ svc' = DetachForForeignDaq(svc)
    /\ UNCHANGED <<pc, tx>>
    /\ Frozen

\* The process dies: everything but the crate and the journal is lost.
Dies ==
    /\ svc' = [Launched EXCEPT !.alive = FALSE]
    /\ ses' = NoSession
    /\ pc' = "idle"
    /\ tx' = NoTx
    /\ Frozen

Crash == svc.alive /\ Fault /\ Dies

\* Stop of a session that is not marked foreign dereferences transport_,
\* which a passive detach or a failed recovery has reset.
StopWithoutTransport ==
    /\ Idle
    /\ Stoppable
    /\ ~svc.transport
    /\ ~StoppedEarly
    /\ Dies

Launch ==
    /\ ~svc.alive
    /\ svc' = Loaded
    /\ UNCHANGED <<ses, pc, tx>>
    /\ Frozen

----------------------------------------------------------------------------
Operation ==
    /\ svc.alive
    /\ \/ PauseResumeNext \/ SourceNext \/ PreviewNext \/ StartNext
       \/ StopNext \/ RecoveryNext

Command ==
    \/ CheckStatus \/ OpenSession \/ CheckDiagnosticRecoveryStatus
    \/ UseProject \/ StartDiagnosticAcquisition \/ ChangeDiagnosticSource
    \/ ApplyDiagnosticPreview \/ RestoreDiagnosticPreview
    \/ RecoverDiagnosticOrphan \/ StopDiagnosticAcquisition \/ ReleaseSession

Mvme == (MvmeStart \/ MvmeStop) /\ UNCHANGED <<journal, svc, ses, pc, tx>>

Next ==
    \/ Operation \/ Command \/ PollWatchdog \/ Crash \/ StopWithoutTransport
    \/ Launch \/ Mvme

Spec == Init /\ [][Next]_vars

(***************************************************************************)
(* The environment may calm down: from then on no reply is lost, nothing   *)
(* crashes and nobody else takes the crate.  The worker finishes the task  *)
(* it has begun; a Stop, a recovery or a launch that the operator keeps    *)
(* asking for is taken from the queue in its turn.                         *)
(***************************************************************************)
Calms == CalmDown /\ UNCHANGED <<journal, svc, ses, pc, tx>>

LiveSpec ==
    /\ Init
    /\ [][Next \/ Calms]_vars
    /\ WF_vars(Operation)
    /\ SF_vars(StopDiagnosticAcquisition)
    /\ SF_vars(RecoverDiagnosticOrphan)
    /\ WF_vars(Launch)
----------------------------------------------------------------------------
(***************************************************************************)
(*                               Properties                                *)
(***************************************************************************)
Labels ==
    {"idle", "op_end",
     "pause_module", "pause_daq", "pause_verify",
     "resume_module", "resume_daq", "resume_verify",
     "src_check", "src_select", "src_read", "src_arm", "src_write",
     "src_verify", "src_rollback", "src_rolled", "src_park", "src_disarm",
     "src_end",
     "srcr_check", "srcr_select", "srcr_write", "srcr_verify", "srcr_park",
     "srcr_disarm", "srcr_end",
     "prv_check", "prv_select", "prv_read", "prv_arm", "prv_write",
     "prv_verify", "prv_rollback", "prv_rolled", "prv_park", "prv_disarm",
     "prv_settle", "prv_end",
     "start_gate", "start_probe", "start_journal", "start_gate2",
     "start_quiesce", "start_quiet", "start_open", "start_stack",
     "start_setup", "start_trigger", "start_reset", "start_module",
     "start_daq", "start_verify", "start_activate",
     "stop_source", "stop_check", "stop_module", "stop_stopped",
     "stop_others", "stop_other", "stop_quiet", "stop_mvlc", "stop_clear",
     "stop_end",
     "rec_check", "rec_gate", "rec_target", "rec_stop", "rec_stopped",
     "rec_others", "rec_quiet", "rec_mvlc", "rec_clear", "rec_remove",
     "rb_gate1", "rb_select", "rb_read", "rb_gate2", "rb_decide",
     "rb_write", "rb_verify", "rb_gate3", "rb_park", "rb_save"}

\* Every variable has its type (the only typing invariant of the project).
TypeOK ==
    /\ CrateTypeOK
    /\ JournalTypeOK
    /\ svc \in Service
    /\ ses \in Session
    /\ pc \in Labels
    /\ tx \in Locals

\* The recovery journal on disk names the deviation of bank b from found.
Names(entry, b, found) ==
    entry.required /\ entry.quad = b /\ entry.original = found[b]

(***************************************************************************)
(* Every temporary change of the waveform source is journaled before it is *)
(* written and stays journaled until the original is verified back: as     *)
(* long as nobody else has used the crate, a bank that deviates from the   *)
(* word the session found is named, with that word, by the journal on      *)
(* disk.  A crash at any step can therefore be repaired.                   *)
(* (SaveSourceRecoveryState around the writes of DiagnosticSourceOperation *)
(* and DiagnosticRecoveryOperation.)                                       *)
(***************************************************************************)
SourceIsJournaled ==
    mvme = "away" =>
        \A b \in Banks : hw.sample[b] # FoundSample[b] =>
            journal.phase # "None" /\ Names(journal.source, b, FoundSample)

(***************************************************************************)
(* The same for the previewed parameter (SavePreviewRecoveryState around   *)
(* the writes of ExecutePreviewTransaction).                               *)
(***************************************************************************)
PreviewIsJournaled ==
    mvme = "away" =>
        \A b \in Banks : hw.param[b] # FoundParam[b] =>
            journal.phase # "None" /\ Names(journal.preview, b, FoundParam)

(***************************************************************************)
(* FIDGET never leaves a run of its own without a journal: DAQ mode is on  *)
(* with FIDGET's readout stack only while a recovery record is on disk, so *)
(* an orphan can always be told from a foreign run.                        *)
(***************************************************************************)
OrphanIsJournaled ==
    hw.daq = 1 /\ hw.stack # "foreign" => journal.phase # "None"

(***************************************************************************)
(* A Stop that removes the journal leaves nothing of FIDGET's behind: DAQ  *)
(* mode off, the readout stack cleared, every module stopped and no        *)
(* temporary waveform source in any bank (stoppedCleanly; "it is removed   *)
(* only after verified cleanup").  A recovery promises less: it removes a  *)
(* journal without a pending restoration as soon as DAQ mode is off.       *)
(***************************************************************************)
CrateClean ==
    /\ hw.daq = 0 /\ hw.stack = "clear" /\ hw.run = 0
    /\ \A m \in NonTargets : hw.others[m] = 0
    /\ hw.sample = FoundSample
Removes == journal.phase # "None" /\ journal'.phase = "None"
StopLeavesCrateClean ==
    [][Removes /\ mvme = "away" /\ tx.kind = "stop" => CrateClean]_vars

\* The steps that write to the crate.
WriteLabels ==
    {"pause_module", "pause_daq", "resume_module", "resume_daq",
     "src_select", "src_write", "src_rollback", "src_park",
     "srcr_select", "srcr_write", "srcr_park",
     "prv_select", "prv_write", "prv_rollback", "prv_park",
     "start_quiesce", "start_stack", "start_setup", "start_trigger",
     "start_reset", "start_module", "start_daq",
     "stop_module", "stop_other", "stop_mvlc",
     "rec_stop", "rec_others", "rec_mvlc", "rb_select", "rb_write",
     "rb_park"}
StopKinds == {"stop", "stopSource", "stopRestore"}

\* Another controller's run has been in progress since before the operation
\* was requested: its readout stack is installed and DAQ mode is on.
ForeignRun ==
    /\ tx.since = "running" /\ mvme = "running"
    /\ hw.stack = "foreign" /\ hw.daq = 1

(***************************************************************************)
(* An operation requested while another controller's run is in progress    *)
(* sends no write into that run (the fingerprint check of a change, the    *)
(* DAQ-mode gates of Start, the verdict of a recovery).                    *)
(***************************************************************************)
ChangesSpareForeignRun ==
    tx.kind \notin StopKinds /\ ForeignRun => pc \notin WriteLabels

\* The same for Stop ("does not write cleanup into a run that is no longer
\* its own").
StopSparesForeignRun ==
    tx.kind \in StopKinds /\ ForeignRun => pc \notin WriteLabels

(***************************************************************************)
(* Recovery overwrites a banked register only where the live value is the  *)
(* one its record says FIDGET applied, in the bank the record names, and   *)
(* only with the recorded original (restoreBanked), unless somebody acted  *)
(* since the recovery began.                                               *)
(***************************************************************************)
RecoveryOverwritesItsOwn ==
    [][tx.kind = "recover" /\ mvme = tx.since /\ mvme' = mvme =>
         \A b \in Banks :
            /\ hw'.sample[b] # hw.sample[b] =>
                 /\ tx.rec.source.required
                 /\ tx.rec.source.quad = b
                 /\ tx.rec.source.applied = hw.sample[b]
                 /\ tx.rec.source.original = hw'.sample[b]
            /\ hw'.param[b] # hw.param[b] =>
                 /\ tx.rec.preview.required
                 /\ tx.rec.preview.quad = b
                 /\ tx.rec.preview.applied = hw.param[b]
                 /\ tx.rec.preview.original = hw'.param[b]]_vars

(***************************************************************************)
(* A temporary change is written only while data taking is paused          *)
(* (PauseDiagnosticDataTaking), and only in the bank of the session's      *)
(* channel, whatever replies were lost before.                             *)
(***************************************************************************)
ChangesWhilePaused ==
    pc \in {"src_write", "src_rollback", "prv_write", "prv_rollback"}
        /\ mvme = "away"
      => hw.daq = 0 /\ hw.run = 0 /\ hw.selector = ses.quad

(***************************************************************************)
(* A session that is acquiring has a transport and an Active record on     *)
(* disk: no operation of a running session dereferences a reset transport, *)
(* and a crash while it runs finds the journal.                            *)
(***************************************************************************)
RunningIsRecoverable ==
    svc.acq = "Running" =>
        svc.transport /\ HasSession /\ journal.phase = "Active"

(***************************************************************************)
(* The preview shown to the user, which Restore and Stop will write back,  *)
(* is the one the journal on disk would let a recovery write back, value   *)
(* by value, whatever replies and saves failed before                      *)
(* (ExecutePreviewTransaction, RecoverDiagnosticOrphan).                   *)
(***************************************************************************)
PublishedPreviewIsJournaled ==
    Idle /\ Acquiring /\ svc.pv.active =>
        journal.preview = Armed(ses.quad, svc.pv.original, svc.pv.applied)

(***************************************************************************)
(* FIDGET never mistakes its own pause for another controller: while the   *)
(* readout stack of a session that reached Active is installed, and nobody *)
(* else has used the crate, that session is not marked foreign             *)
(* (PollWatchdog, StopCheck: "would classify our own pause as foreign      *)
(* ownership").                                                            *)
(***************************************************************************)
OwnPauseIsNotForeign ==
    mvme = "away" /\ ses.foreign /\ ses.rec.phase = "Active"
        => hw.stack # "ours"

----------------------------------------------------------------------------
(***************************************************************************)
(* Once the environment is calm, a pending journal is eventually resolved  *)
(* by recovery, unless its gate refuses: an idle restoration requires the  *)
(* target to be stopped.                                                   *)
(***************************************************************************)
Refused == hw.daq = 0 /\ hw.run = 1 /\ RestorePending(journal)
RecoveryCompletes ==
    (calm /\ svc.alive /\ Recoverable /\ mvme = "away")
        ~> (journal.phase = "None" \/ Refused)

\* Once the environment is calm, Stop ends an acquisition that is still
\* FIDGET's own.
StopEndsRun == (calm /\ svc.acq = "Running") ~> (hw.daq = 0)
=============================================================================

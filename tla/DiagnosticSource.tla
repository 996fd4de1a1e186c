-------------------------- MODULE DiagnosticSource --------------------------
(***************************************************************************)
(* DiagnosticPauseResume.cpp: the pause and the resume of data taking that *)
(* every temporary change is wrapped in.  The caller is told only whether  *)
(* both the module and DAQ mode are verifiably paused; a failed pause      *)
(* leaves whatever its acknowledged writes left.                           *)
(***************************************************************************)
EXTENDS SessionState

\* Where each caller goes on when paused, when not, and after its resume.
PausedLabel == [source |-> "src_select", apply |-> "prv_select",
                restore |-> "prv_select", stopRestore |-> "prv_select",
                stopSource |-> "srcr_select"]
NotPausedLabel == [source |-> "op_end", apply |-> "prv_end",
                   restore |-> "prv_end", stopRestore |-> "prv_end",
                   stopSource |-> "srcr_end"]
ResumedLabel == [source |-> "op_end", apply |-> "prv_end",
                 restore |-> "prv_end"]

\* A module that cannot be stopped does not keep DAQ mode from being paused.
PauseModule ==
    /\ pc = "pause_module"
    /\ Write(SetRun(0),
             tx' = [tx EXCEPT !.paused = TRUE],
             tx' = [tx EXCEPT !.failed = TRUE])
    /\ pc' = "pause_daq"
    /\ HardwareOnly

NotPaused ==
    /\ tx' = [tx EXCEPT !.failed = TRUE, !.paused = FALSE]
    /\ pc' = NotPausedLabel[tx.kind]

PauseDaq ==
    /\ pc = "pause_daq"
    /\ Write(SetDaq(0), pc' = "pause_verify" /\ tx' = tx, NotPaused)
    /\ HardwareOnly

PauseVerify ==
    /\ pc = "pause_verify"
    /\ \/ /\ hw.daq = 0 /\ tx.paused
          /\ pc' = PausedLabel[tx.kind]
          /\ tx' = tx
       \/ /\ Fault \/ hw.daq # 0 \/ ~tx.paused
          /\ NotPaused
    /\ UNCHANGED hw
    /\ HardwareOnly

(***************************************************************************)
(* FIFO reset, readout reset and acquisition start; the first failure      *)
(* ends the resume, so a failed sequence may or may not have started the   *)
(* module.                                                                 *)
(***************************************************************************)
ResumeModule ==
    /\ pc = "resume_module"
    /\ Write(SetRun(1),
             tx' = [tx EXCEPT !.resumed = TRUE] /\ pc' = "resume_daq",
             Failing(ResumedLabel[tx.kind]))
    /\ HardwareOnly

ResumeDaq ==
    /\ pc = "resume_daq"
    /\ Write(SetDaq(1),
             pc' = "resume_verify" /\ tx' = tx,
             Failing(ResumedLabel[tx.kind]))
    /\ HardwareOnly

ResumeVerify ==
    /\ pc = "resume_verify"
    /\ \/ /\ hw.daq = 1
          /\ tx' = tx
          /\ pc' = ResumedLabel[tx.kind]
       \/ /\ Fault \/ hw.daq = 0
          /\ Failing(ResumedLabel[tx.kind])
    /\ UNCHANGED hw
    /\ HardwareOnly

PauseResumeNext ==
    \/ PauseModule \/ PauseDaq \/ PauseVerify
    \/ ResumeModule \/ ResumeDaq \/ ResumeVerify

-----------------------------------------------------------------------------
(***************************************************************************)
(* DiagnosticSourceOperation.cpp: the temporary waveform source, which is  *)
(* the two low bits of the target's banked sample-configuration word.      *)
(*                                                                         *)
(* ChangeDiagnosticWaveformSource, labels src_..., verifies the            *)
(* fingerprint, pauses, selects the bank, captures the live word, journals *)
(* the restore entry, writes, verifies, rolls back when the write could    *)
(* not be verified, parks the selector, clears the journal entry when the  *)
(* deviation is gone, and resumes.  RestoreDiagnosticWaveformSource,       *)
(* labels srcr_..., is the restore that Stop performs before its cleanup.  *)
(***************************************************************************)

\* Mutant: the source bits of the live word are not masked out.
OtherUnmasked(w) == w

Bits(w)  == w % 4
Other(w) == w - Bits(w)

\* The change and its journal entry may only move between the captured
\* original and the one temporary source the journal already names.
SourceAdmitted(rec, source) ==
    \/ ~rec.source.required
    \/ /\ rec.source.quad = ses.quad
       /\ source \in {Bits(rec.source.original), Bits(rec.source.applied)}

\* SaveSourceRecoveryState: the in-memory record follows the file only when
\* the save succeeded.
SaveSourceRecoveryState(entry, saved, failed) ==
    LET rec == [ses.rec EXCEPT !.source = entry]
    IN  SaveJournal(rec, ses' = [ses EXCEPT !.rec = rec] /\ saved,
                         ses' = ses /\ failed)

----------------------------------------------------------------------------
(***************************************************************************)
(* The complete fingerprint is verified in one transaction before the      *)
(* first write.  A missing reply leaves the session as it is.              *)
(***************************************************************************)
SrcCheck ==
    /\ pc = "src_check"
    /\ \/ FingerprintMatches /\ pc' = "pause_module" /\ UNCHANGED <<tx, svc, ses>>
       \/ ~FingerprintMatches /\ Return(ForeignSession,
              DetachForForeignDiagnosticFingerprint(svc.pv))
       \/ Fault /\ Return(ses, svc)
    /\ Frozen

SrcSelect ==
    /\ pc = "src_select"
    /\ Write(Select(tx.quad),
             tx' = [tx EXCEPT !.selected = TRUE] /\ pc' = "src_read",
             Failing("src_end"))
    /\ HardwareOnly

(***************************************************************************)
(* The requested word keeps every bit of the captured one but the source.  *)
(* Nothing is written when it is already live; a return to the journaled   *)
(* original needs no new journal entry.                                    *)
(***************************************************************************)
SrcRead ==
    /\ pc = "src_read"
    /\ \/ LET req  == Other(LiveSample) + tx.req
              entry == ses.rec.source
              back == entry.required /\ req = entry.original
          IN  /\ tx' = [tx EXCEPT !.live = LiveSample, !.req = req,
                                  !.back = back,
                                  !.verified = (req = LiveSample)]
              /\ pc' = CASE req = LiveSample -> "src_park"
                         [] req # LiveSample /\ back -> "src_write"
                         [] OTHER -> "src_arm"
       \/ Fault /\ Failing("src_park")
    /\ UNCHANGED hw
    /\ HardwareOnly

\* The entry keeps the value captured by the first change of the session.
SrcArm ==
    /\ pc = "src_arm"
    /\ LET entry == ses.rec.source
           original == IF entry.required THEN entry.original ELSE tx.live
       IN  SaveSourceRecoveryState(
               Armed(tx.quad, original, tx.req),
               /\ tx' = [tx EXCEPT !.armed = ~entry.required]
               /\ pc' = "src_write",
               Failing("src_park"))
    /\ DiskOnly

SrcWrite ==
    /\ pc = "src_write"
    /\ Write(SetSample(tx.req),
             tx' = [tx EXCEPT !.attempted = TRUE] /\ pc' = "src_verify",
             /\ tx' = [tx EXCEPT !.attempted = TRUE, !.failed = TRUE]
             /\ pc' = "src_rollback")
    /\ HardwareOnly

SrcVerify ==
    /\ pc = "src_verify"
    /\ \/ /\ LiveSample = tx.req
          /\ tx' = [tx EXCEPT !.verified = TRUE]
          /\ pc' = "src_park"
       \/ /\ Fault \/ LiveSample # tx.req
          /\ Failing("src_rollback")
    /\ UNCHANGED hw
    /\ HardwareOnly

SrcRollback ==
    /\ pc = "src_rollback"
    /\ Write(SetSample(tx.live), pc' = "src_rolled" /\ tx' = tx,
             Failing("src_park"))
    /\ HardwareOnly

SrcRolled ==
    /\ pc = "src_rolled"
    /\ \/ LiveSample = tx.live /\ tx' = [tx EXCEPT !.rolled = TRUE]
       \/ (Fault \/ LiveSample # tx.live) /\ tx' = [tx EXCEPT !.failed = TRUE]
    /\ pc' = "src_park"
    /\ UNCHANGED hw
    /\ HardwareOnly

\* Mutant: an entry is cleared although the rollback was not verified.
DeviationGoneUnverified ==
    (tx.back /\ tx.verified) \/ (tx.armed /\ ~tx.verified)

\* The entry is cleared when the original is verified back: by a change that
\* returns to it, or by the rollback of the change that armed the entry.
DeviationGone == (tx.back /\ tx.verified) \/ (tx.armed /\ tx.rolled)

SrcPark ==
    /\ pc = "src_park"
    /\ Write(Select(0), tx' = [tx EXCEPT !.parked = TRUE],
                        tx' = [tx EXCEPT !.failed = TRUE])
    /\ pc' = IF DeviationGone THEN "src_disarm" ELSE "src_end"
    /\ HardwareOnly

SrcDisarm ==
    /\ pc = "src_disarm"
    /\ SaveSourceRecoveryState(Disarmed, tx' = tx,
                               tx' = [tx EXCEPT !.failed = TRUE])
    /\ pc' = "src_end"
    /\ DiskOnly

\* configurationSafe and selectorSafe of the code.
ConfigurationSafe == ~tx.attempted \/ tx.verified \/ tx.rolled
SelectorSafe == ~tx.selected \/ tx.parked

SrcEnd ==
    /\ pc = "src_end"
    /\ pc' = IF ConfigurationSafe /\ SelectorSafe THEN "resume_module" ELSE "op_end"
    /\ UNCHANGED <<hw, tx>>
    /\ HardwareOnly

\* Passed, recovered or failed: the session stays Running either way.
OpEnd == pc = "op_end" /\ Return(ses, svc) /\ Frozen

----------------------------------------------------------------------------
(***************************************************************************)
(* The restore on Stop.  srcr_check is skipped when the preview restore    *)
(* before it left the session verified and paused.                         *)
(***************************************************************************)
SrcrCheck ==
    /\ pc = "srcr_check"
    /\ \/ FingerprintMatches /\ pc' = "pause_module" /\ UNCHANGED <<tx, svc, ses>>
       \/ ~FingerprintMatches /\ Return(ForeignSession,
              DetachForForeignDiagnosticFingerprint(svc.pv))
       \/ Fault /\ Return(ses, svc)
    /\ Frozen

SrcrSelect ==
    /\ pc = "srcr_select"
    /\ Write(Select(tx.quad), pc' = "srcr_write" /\ tx' = tx,
             Failing("srcr_end"))
    /\ HardwareOnly

SrcrWrite ==
    /\ pc = "srcr_write"
    /\ Write(SetSample(tx.live), pc' = "srcr_verify" /\ tx' = tx,
             Failing("srcr_park"))
    /\ HardwareOnly

SrcrVerify ==
    /\ pc = "srcr_verify"
    /\ \/ LiveSample = tx.live /\ tx' = [tx EXCEPT !.verified = TRUE]
       \/ (Fault \/ LiveSample # tx.live) /\ tx' = [tx EXCEPT !.failed = TRUE]
    /\ pc' = "srcr_park"
    /\ UNCHANGED hw
    /\ HardwareOnly

SrcrPark ==
    /\ pc = "srcr_park"
    /\ Write(Select(0),
             /\ tx' = [tx EXCEPT !.parked = TRUE]
             /\ pc' = IF tx.verified THEN "srcr_disarm" ELSE "srcr_end",
             Failing("srcr_end"))
    /\ HardwareOnly

SrcrDisarm ==
    /\ pc = "srcr_disarm"
    /\ SaveSourceRecoveryState(Disarmed, tx' = tx,
                               tx' = [tx EXCEPT !.failed = TRUE])
    /\ pc' = "srcr_end"
    /\ DiskOnly

\* sourceLeftSessionVerifiedAndPaused: a verified and paused session needs
\* no second fingerprint check before the cleanup.
SrcrEnd ==
    /\ pc = "srcr_end"
    /\ tx' = [NoTx EXCEPT !.kind = "stop", !.release = tx.release,
                          !.since = tx.since, !.left = tx.left \/ tx.paused]
    /\ pc' = IF tx.left \/ tx.paused THEN "stop_module" ELSE "stop_check"
    /\ UNCHANGED hw
    /\ HardwareOnly

SourceNext ==
    \/ SrcCheck \/ SrcSelect \/ SrcRead \/ SrcArm \/ SrcWrite \/ SrcVerify
    \/ SrcRollback \/ SrcRolled \/ SrcPark \/ SrcDisarm \/ SrcEnd \/ OpEnd
    \/ SrcrCheck \/ SrcrSelect \/ SrcrWrite \/ SrcrVerify \/ SrcrPark
    \/ SrcrDisarm \/ SrcrEnd

-----------------------------------------------------------------------------
(***************************************************************************)
(* DiagnosticPreviewOperation.cpp: the temporary value of one banked SCP   *)
(* parameter.  ExecutePreviewTransaction runs for ApplyPreview (kind       *)
(* "apply"), for RestorePreview ("restore") and for the restore that Stop  *)
(* performs ("stopRestore"), which does not resume.  In tx, req is the     *)
(* previewed value and live the original one.                              *)
(***************************************************************************)

Applying == tx.kind = "apply"

SavePreviewRecoveryState(entry, saved, failed) ==
    LET rec == [ses.rec EXCEPT !.preview = entry]
    IN  SaveJournal(rec, ses' = [ses EXCEPT !.rec = rec] /\ saved,
                         ses' = ses /\ failed)

\* The result of a restore that did not verify: the preview stays active, in
\* state Failed.
PreviewFailed(comm, paused, resumed) ==
    [svc.pv EXCEPT !.ok = FALSE, !.comm = comm, !.paused = paused,
                   !.resumed = resumed]

(***************************************************************************)
(* The fingerprint check.  The result of a restore replaces the published  *)
(* preview even when nothing was attempted; an apply that stops here       *)
(* leaves no preview.                                                      *)
(***************************************************************************)
PrvCheck ==
    /\ pc = "prv_check"
    /\ \/ FingerprintMatches /\ pc' = "pause_module" /\ UNCHANGED <<tx, svc, ses>>
       \/ ~FingerprintMatches /\ Return(ForeignSession,
              DetachForForeignDiagnosticFingerprint(
                  IF Applying THEN NoPreview
                              ELSE PreviewFailed(FALSE, FALSE, FALSE)))
       \/ /\ Fault
          /\ Return(ses, [svc EXCEPT !.pv =
                 IF Applying THEN NoPreview
                             ELSE PreviewFailed(TRUE, FALSE, FALSE)])
    /\ Frozen

\* Mutant: an unacknowledged bank selection is not an error.
PrvSelectUnchecked ==
    /\ pc = "prv_select"
    /\ Write(Select(tx.quad),
             tx' = [tx EXCEPT !.selected = TRUE] /\ pc' = "prv_read",
             Failing("prv_read"))
    /\ HardwareOnly

PrvSelect ==
    /\ pc = "prv_select"
    /\ Write(Select(tx.quad),
             tx' = [tx EXCEPT !.selected = TRUE] /\ pc' = "prv_read",
             Failing("prv_settle"))
    /\ HardwareOnly

(***************************************************************************)
(* An apply captures the original and refuses a value that is already live *)
(* or that the live value of the setting's dependency forbids (the         *)
(* dependency register is not modelled: the refusal is a choice).  A       *)
(* restore refuses to overwrite anything but the previewed value.          *)
(***************************************************************************)
PrvRead ==
    /\ pc = "prv_read"
    /\ \/ /\ Applying
          /\ LiveParam # tx.req
          /\ tx' = [tx EXCEPT !.live = LiveParam]
          /\ pc' = "prv_arm"
       \/ ~Applying /\ LiveParam = tx.req /\ tx' = tx /\ pc' = "prv_write"
       \/ Applying /\ Failing("prv_park")
       \/ ~Applying /\ (Fault \/ LiveParam # tx.req) /\ Failing("prv_park")
    /\ UNCHANGED hw
    /\ HardwareOnly

PrvArm ==
    /\ pc = "prv_arm"
    /\ SavePreviewRecoveryState(
           Armed(tx.quad, tx.live, tx.req),
           tx' = [tx EXCEPT !.armed = TRUE] /\ pc' = "prv_write",
           Failing("prv_park"))
    /\ DiskOnly

Wanted == IF Applying THEN tx.req ELSE tx.live

\* Only an apply rolls back; a restore that cannot be verified goes on.
Unverified ==
    /\ tx' = [tx EXCEPT !.attempted = TRUE, !.failed = TRUE]
    /\ pc' = IF Applying THEN "prv_rollback" ELSE "prv_park"

PrvWrite ==
    /\ pc = "prv_write"
    /\ Write(SetParam(Wanted),
             tx' = [tx EXCEPT !.attempted = TRUE] /\ pc' = "prv_verify",
             Unverified)
    /\ HardwareOnly

PrvVerify ==
    /\ pc = "prv_verify"
    /\ \/ /\ LiveParam = Wanted
          /\ tx' = [tx EXCEPT !.verified = TRUE]
          /\ pc' = "prv_park"
       \/ (Fault \/ LiveParam # Wanted) /\ Unverified
    /\ UNCHANGED hw
    /\ HardwareOnly

PrvRollback ==
    /\ pc = "prv_rollback"
    /\ Write(SetParam(tx.live), pc' = "prv_rolled" /\ tx' = tx,
             Failing("prv_park"))
    /\ HardwareOnly

PrvRolled ==
    /\ pc = "prv_rolled"
    /\ \/ LiveParam = tx.live /\ tx' = [tx EXCEPT !.rolled = TRUE]
       \/ (Fault \/ LiveParam # tx.live) /\ tx' = [tx EXCEPT !.failed = TRUE]
    /\ pc' = "prv_park"
    /\ UNCHANGED hw
    /\ HardwareOnly

\* Mutant: an attempted restore counts as a verified one.
PreviewInactiveUnverified == IF Applying THEN ~tx.verified \/ tx.rolled
                                         ELSE tx.attempted

(***************************************************************************)
(* previewNowInactive /\ (recoveryRestoreArmed \/ ~applying), as the code  *)
(* computes it: for an apply, not having verified the write counts as      *)
(* inactive, whether or not the rollback was verified.                     *)
(***************************************************************************)
PreviewNowInactive == IF Applying THEN ~tx.verified \/ tx.rolled
                                  ELSE tx.verified
ClearsEntry == PreviewNowInactive /\ (tx.armed \/ ~Applying)

PrvPark ==
    /\ pc = "prv_park"
    /\ Write(Select(0), tx' = [tx EXCEPT !.parked = TRUE],
                        tx' = [tx EXCEPT !.failed = TRUE])
    /\ pc' = IF ClearsEntry THEN "prv_disarm" ELSE "prv_settle"
    /\ HardwareOnly

PrvDisarm ==
    /\ pc = "prv_disarm"
    /\ SavePreviewRecoveryState(Disarmed, tx' = tx,
                                tx' = [tx EXCEPT !.failed = TRUE])
    /\ pc' = "prv_settle"
    /\ DiskOnly

\* The restore that Stop performs leaves the session paused.
PrvSettle ==
    /\ pc = "prv_settle"
    /\ pc' = IF tx.kind # "stopRestore" /\ ConfigurationSafe /\ SelectorSafe
             THEN "resume_module" ELSE "prv_end"
    /\ UNCHANGED <<hw, tx>>
    /\ HardwareOnly

(***************************************************************************)
(* The published result.  An apply is active once its write was verified,  *)
(* in state PreviewActive only when nothing failed; a restore is over once *)
(* it was verified.  Stop goes on with the source.                         *)
(***************************************************************************)
PreviewResult ==
    CASE Applying /\ tx.verified ->
           [active |-> TRUE, ok |-> ~tx.failed, original |-> tx.live,
            applied |-> tx.req, comm |-> FALSE, paused |-> tx.paused,
            resumed |-> tx.resumed]
      [] ~Applying /\ ~tx.verified ->
           PreviewFailed(FALSE, tx.paused, tx.resumed)
      [] OTHER -> NoPreview

PrvEnd ==
    /\ pc = "prv_end"
    /\ \/ /\ tx.kind # "stopRestore"
          /\ Return(ses, [svc EXCEPT !.pv = PreviewResult])
       \/ /\ tx.kind = "stopRestore"
          /\ svc' = [svc EXCEPT !.pv = PreviewResult]
          /\ tx' = [NoTx EXCEPT !.kind = "stop", !.release = tx.release,
                                !.since = tx.since,
                                !.left = tx.paused /\ ~tx.resumed]
          /\ pc' = "stop_source"
          /\ ses' = ses
    /\ Frozen

PreviewNext ==
    \/ PrvCheck \/ PrvSelect \/ PrvRead \/ PrvArm \/ PrvWrite \/ PrvVerify
    \/ PrvRollback \/ PrvRolled \/ PrvPark \/ PrvDisarm \/ PrvSettle
    \/ PrvEnd
=============================================================================

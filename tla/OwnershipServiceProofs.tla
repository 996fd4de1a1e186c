---------------------- MODULE OwnershipServiceProofs ------------------------
(***************************************************************************)
(* The tuning session, for every choice of quads, words, parameter values  *)
(* and modules: type correctness; the journal of its runs; what is         *)
(* published; what is written into the crate; the temporary waveform       *)
(* source.  Each part builds on the invariants of the parts before it.     *)
(***************************************************************************)
EXTENDS OwnershipService, TLAPS

----------------------------------------------------------------------------
(***************************************************************************)
(* Type correctness of the tuning session, for every choice of quads,      *)
(* words, parameter values and modules.  TypeOK is not inductive: a write  *)
(* sends tx.req or tx.live, which are words in one operation, parameters   *)
(* in another and a waveform source in a third, and a module is handled by *)
(* CHOOSE from a work list that must not be empty.  TypeInv adds which     *)
(* operation runs at which label and what its locals hold there.           *)
(*                                                                         *)
(* The proof is in three parts, one per group of variables: the registers, *)
(* what is held between operations (journal, service, session), and the    *)
(* control of the operation in progress.                                   *)
(***************************************************************************)

\* The labels of each operation.
PauseLabels == {"pause_module", "pause_daq", "pause_verify"}
ResumeLabels == {"resume_module", "resume_daq", "resume_verify"}
SrcPre == {"src_check", "src_select", "src_read"}
SrcPost == {"src_arm", "src_write", "src_verify", "src_rollback", "src_rolled"}
SrcEnds == {"src_park", "src_disarm", "src_end"}
SrcrLabels == {"srcr_check", "srcr_select", "srcr_write", "srcr_verify",
               "srcr_park", "srcr_disarm", "srcr_end"}
PrvLabels == {"prv_check", "prv_select", "prv_read", "prv_arm", "prv_write",
     "prv_verify", "prv_rollback", "prv_rolled", "prv_park", "prv_disarm",
     "prv_settle", "prv_end"}
StartLabels ==
    {"start_gate", "start_probe", "start_journal", "start_gate2",
     "start_quiesce", "start_quiet", "start_open", "start_stack",
     "start_setup", "start_trigger", "start_reset", "start_module",
     "start_daq", "start_verify", "start_activate"}
StopLabels ==
    {"stop_source", "stop_check", "stop_module", "stop_stopped",
     "stop_others", "stop_other", "stop_quiet", "stop_mvlc", "stop_clear",
     "stop_end"}
RecLabels ==
    {"rec_check", "rec_gate", "rec_target", "rec_stop", "rec_stopped",
     "rec_others", "rec_quiet", "rec_mvlc", "rec_clear", "rec_remove",
     "rb_gate1", "rb_select", "rb_read", "rb_gate2", "rb_decide",
     "rb_write", "rb_verify", "rb_gate3", "rb_park", "rb_save"}
\* The operations that run a preview transaction.
PrvKinds == {"apply", "restore", "stopRestore"}

\* At a label, the operation in progress is the one the label belongs to.
KindOK ==
    /\ pc \in PauseLabels => tx.kind \in PrvKinds \cup {"source", "stopSource"}
    /\ pc \in ResumeLabels => tx.kind \in {"source", "apply", "restore"}
    /\ pc \in SrcPre \cup SrcPost \cup SrcEnds => tx.kind = "source"
    /\ pc \in SrcrLabels => tx.kind = "stopSource"
    /\ pc \in PrvLabels => tx.kind \in PrvKinds
    /\ pc \in StartLabels => tx.kind = "start"
    /\ pc \in StopLabels => tx.kind = "stop"
    /\ pc \in RecLabels => tx.kind = "recover"
    /\ pc \in {"start_quiet", "stop_other", "stop_quiet", "rec_quiet"} => tx.todo # {}
\* The request and the captured value have the type of the register at hand.
ValueOK ==
    /\ tx.kind \in {"source", "stopSource"} => tx.live \in Words
    /\ tx.kind \in PrvKinds => tx.live \in Params /\ tx.req \in Params
    /\ tx.kind = "source" /\ pc \in SrcPre \cup PauseLabels => tx.req \in Sources
    /\ pc \in SrcPost => tx.req \in Words

\* The inductive strengthening of TypeOK.
TypeInv == TypeOK /\ KindOK /\ ValueOK

----------------------------------------------------------------------------
(***************************************************************************)
(*                     1. The registers stay typed                         *)
(***************************************************************************)

\* Every value a write sends leaves a well-formed register file.
LEMMA SetTyped ==
    ASSUME hw \in Hardware
    PROVE  /\ \A v \in {0, 1} : SetDaq(v) \in Hardware /\ SetRun(v) \in Hardware
           /\ \A s \in {"clear", "partial", "ours", "foreign"} :
                 SetStack(s) \in Hardware
           /\ \A b \in Banks : Select(b) \in Hardware
           /\ \A w \in Words : SetSample(w) \in Hardware
           /\ \A p \in Params : SetParam(p) \in Hardware
           /\ \A m : SetOther(m, 0) \in Hardware
           /\ ClearMvlc \in Hardware
           /\ LiveSample \in Words /\ LiveParam \in Params
           /\ 0 \in Banks
BY DEF Banks, Hardware, SetDaq, SetRun, SetStack, Select, SetSample, SetParam,
       SetOther, ClearMvlc, LiveSample, LiveParam

\* What the type invariant says of each variable, for citation.
LEMMA TypeFacts ==
    ASSUME TypeInv
    PROVE  /\ hw \in Hardware /\ journal \in Record /\ svc \in Service
           /\ ses \in Session /\ tx \in Locals
           /\ tx.quad \in Banks /\ tx.rec \in Record
BY DEF TypeInv, TypeOK, CrateTypeOK, JournalTypeOK, Locals

\* Pausing and resuming data taking write well-formed registers.
LEMMA PauseResumeHw == TypeInv /\ PauseResumeNext => hw' \in Hardware
BY TypeFacts, SetTyped
   DEF PauseResumeNext, PauseModule, PauseDaq, PauseVerify, ResumeModule,
       ResumeDaq, ResumeVerify, Write

\* A source change, its rollback and its restore write words only.
LEMMA SourceHw == TypeInv /\ SourceNext => hw' \in Hardware
<1> SUFFICES ASSUME TypeInv, SourceNext PROVE hw' \in Hardware
  OBVIOUS
<1>1. CASE SrcSelect \/ SrcPark \/ SrcrSelect \/ SrcrPark
  BY <1>1, TypeFacts, SetTyped
     DEF SrcSelect, SrcPark, SrcrSelect, SrcrPark, Write
<1>2. CASE SrcWrite \/ SrcRollback
  <2>1. pc \in SrcPost /\ tx.kind = "source"
    BY <1>2 DEF TypeInv, KindOK, SrcWrite, SrcRollback, SrcPost
  <2>2. tx.req \in Words /\ tx.live \in Words
    BY <2>1 DEF TypeInv, ValueOK
  <2> QED
    BY <1>2, <2>2, TypeFacts, SetTyped DEF SrcWrite, SrcRollback, Write
<1>3. CASE SrcrWrite
  <2>1. tx.kind = "stopSource"
    BY <1>3 DEF TypeInv, KindOK, SrcrWrite, SrcrLabels
  <2>2. tx.live \in Words
    BY <2>1 DEF TypeInv, ValueOK
  <2> QED
    BY <1>3, <2>2, TypeFacts, SetTyped DEF SrcrWrite, Write
<1>4. CASE UNCHANGED hw
  BY <1>4, TypeFacts
<1> QED
  BY <1>1, <1>2, <1>3, <1>4
     DEF SourceNext, SrcCheck, SrcRead, SrcArm, SrcVerify, SrcRolled,
         SrcDisarm, SrcEnd, OpEnd, SrcrCheck, SrcrVerify, SrcrDisarm, SrcrEnd,
         Frozen, DiskOnly

\* A preview, its rollback and its restore write parameter values only.
LEMMA PreviewHw == TypeInv /\ PreviewNext => hw' \in Hardware
<1> SUFFICES ASSUME TypeInv, PreviewNext PROVE hw' \in Hardware
  OBVIOUS
<1>1. CASE PrvSelect \/ PrvPark
  BY <1>1, TypeFacts, SetTyped DEF PrvSelect, PrvPark, Write
<1>2. CASE PrvWrite \/ PrvRollback
  <2>1. tx.kind \in PrvKinds
    BY <1>2 DEF TypeInv, KindOK, PrvWrite, PrvRollback, PrvLabels
  <2>2. tx.req \in Params /\ tx.live \in Params
    BY <2>1 DEF TypeInv, ValueOK
  <2> QED
    BY <1>2, <2>2, TypeFacts, SetTyped DEF PrvWrite, PrvRollback, Write, Wanted
<1>3. CASE UNCHANGED hw
  BY <1>3, TypeFacts
<1> QED
  BY <1>1, <1>2, <1>3
     DEF PreviewNext, PrvCheck, PrvRead, PrvArm, PrvVerify, PrvRolled,
         PrvDisarm, PrvSettle, PrvEnd, Frozen, DiskOnly

\* The start sequence writes well-formed registers.
LEMMA StartHw == TypeInv /\ StartNext => hw' \in Hardware
<1> SUFFICES ASSUME TypeInv, StartNext PROVE hw' \in Hardware
  OBVIOUS
<1>1. CASE StartStack \/ StartSetup \/ StartTrigger \/ StartReset
              \/ StartModule \/ StartDaq
  BY <1>1, TypeFacts, SetTyped
     DEF StartStack, StartSetup, StartTrigger, StartReset, StartModule,
         StartDaq, StartWrite, Installed, Write
<1>2. CASE StartQuiesce
  BY <1>2, TypeFacts, SetTyped DEF StartQuiesce, Write
<1>3. CASE UNCHANGED hw
  BY <1>3, TypeFacts
<1> QED
  BY <1>1, <1>2, <1>3
     DEF StartNext, StartGate, StartProbe, StartJournal, StartGate2,
         StartQuiet, StartOpen, StartVerify, StartActivate, Frozen

\* The stop sequence writes well-formed registers.
LEMMA StopHw == TypeInv /\ StopNext => hw' \in Hardware
<1> SUFFICES ASSUME TypeInv, StopNext PROVE hw' \in Hardware
  OBVIOUS
<1>1. CASE StopModule \/ StopOther \/ StopMvlc
  BY <1>1, TypeFacts, SetTyped DEF StopModule, StopOther, StopMvlc, Write
<1>2. CASE UNCHANGED hw
  BY <1>2, TypeFacts
<1> QED
  BY <1>1, <1>2
     DEF StopNext, StopSource, StopCheck, StopStopped, StopOthers, StopQuiet,
         StopClear, StopEnd, Frozen

\* Recovery writes back only what its record holds, which is typed.
LEMMA RecoveryHw == TypeInv /\ RecoveryNext => hw' \in Hardware
<1> SUFFICES ASSUME TypeInv, RecoveryNext PROVE hw' \in Hardware
  OBVIOUS
<1>1. CASE RecStop \/ RecOthers \/ RecMvlc
  BY <1>1, TypeFacts, SetTyped
     DEF RecStop, RecOthers, RecMvlc, RecWrite, Frozen, Write
<1>2. CASE RbSelect \/ RbWrite \/ RbPark
  <2>1. /\ Entry.quad \in Banks
        /\ SetBanked(Entry.original) \in Hardware
    BY TypeFacts, SetTyped DEF Entry, SetBanked, Record, Restore
  <2> QED
    BY <1>2, <2>1, TypeFacts, SetTyped
       DEF RbSelect, RbWrite, RbPark, RecWrite, Write
<1>3. CASE UNCHANGED hw
  BY <1>3, TypeFacts
<1> QED
  BY <1>1, <1>2, <1>3
     DEF RecoveryNext, RecCheck, RecGate, RecTarget, RecStopped, RecQuiet,
         RbGate1, RbRead, RbGate2, RbDecide, RbVerify, RbGate3, RbSave,
         RecClear, RecRemove, IdleGate, Frozen

\* No operation of FIDGET moves the other controller or the environment.
LEMMA OperationEnv == Operation => UNCHANGED <<mvme, calm>>
<1> USE DEF HardwareOnly, DiskOnly, Frozen
<1>1. PauseResumeNext => UNCHANGED <<mvme, calm>>
  BY DEF PauseResumeNext, PauseModule, PauseDaq, PauseVerify, ResumeModule,
         ResumeDaq, ResumeVerify
<1>2. SourceNext => UNCHANGED <<mvme, calm>>
  BY DEF SourceNext, SrcCheck, SrcSelect, SrcRead, SrcArm, SrcWrite,
         SrcVerify, SrcRollback, SrcRolled, SrcPark, SrcDisarm, SrcEnd, OpEnd,
         SrcrCheck, SrcrSelect, SrcrWrite, SrcrVerify, SrcrPark, SrcrDisarm,
         SrcrEnd
<1>3. PreviewNext => UNCHANGED <<mvme, calm>>
  BY DEF PreviewNext, PrvCheck, PrvSelect, PrvRead, PrvArm, PrvWrite,
         PrvVerify, PrvRollback, PrvRolled, PrvPark, PrvDisarm, PrvSettle,
         PrvEnd
<1>4. StartNext => UNCHANGED <<mvme, calm>>
  BY DEF StartNext, StartGate, StartProbe, StartJournal, StartGate2,
         StartQuiesce, StartQuiet, StartOpen, StartStack, StartSetup,
         StartTrigger, StartReset, StartModule, StartDaq, StartVerify,
         StartActivate, StartWrite
<1>5. StopNext => UNCHANGED <<mvme, calm>>
  BY DEF StopNext, StopSource, StopCheck, StopModule, StopStopped,
         StopOthers, StopOther, StopQuiet, StopMvlc, StopClear, StopEnd
<1>6. RecoveryNext => UNCHANGED <<mvme, calm>>
  BY DEF RecoveryNext, RecCheck, RecGate, RecTarget, RecStop, RecStopped,
         RecOthers, RecQuiet, RbGate1, RbSelect, RbRead, RbGate2, RbDecide,
         RbWrite, RbVerify, RbGate3, RbPark, RbSave, RecMvlc, RecClear,
         RecRemove, IdleGate, RecWrite
<1> QED
  BY <1>1, <1>2, <1>3, <1>4, <1>5, <1>6 DEF Operation

\* Commands, the watchdog, crashes and launches do not touch the crate.
LEMMA QuietSteps ==
    Command \/ PollWatchdog \/ Crash \/ StopWithoutTransport \/ Launch
        => Frozen
BY DEF Command, CheckStatus, OpenSession, CheckDiagnosticRecoveryStatus,
       UseProject, StartDiagnosticAcquisition, ChangeDiagnosticSource,
       ApplyDiagnosticPreview, RestoreDiagnosticPreview,
       RecoverDiagnosticOrphan, StopDiagnosticAcquisition, ReleaseSession,
       PollWatchdog, Crash, StopWithoutTransport, Dies, Launch

\* Every step leaves a well-formed crate.
LEMMA RegistersTyped == TypeInv /\ [Next]_vars => CrateTypeOK'
<1> SUFFICES ASSUME TypeInv, [Next]_vars PROVE CrateTypeOK'
  OBVIOUS
<1>1. CASE Operation
  <2>1. hw' \in Hardware
    BY <1>1, PauseResumeHw, SourceHw, PreviewHw, StartHw, StopHw, RecoveryHw
       DEF Operation
  <2> QED
    BY <1>1, <2>1, OperationEnv DEF TypeInv, TypeOK, CrateTypeOK
<1>2. CASE MvmeStart
  <2>1. PICK w \in MvmeSample, p \in MvmeParam, b \in Banks :
          hw' = [hw EXCEPT !.daq = 1, !.stack = "foreign", !.run = 1,
                           !.selector = 0,
                           !.sample = [@ EXCEPT ![b] = w],
                           !.param = [@ EXCEPT ![b] = p],
                           !.others = [m \in NonTargets |-> 1]]
    BY <1>2 DEF MvmeStart
  <2>2. w \in Words /\ p \in Params
    BY WordAssumption, ParamAssumption
  <2> DEFINE samples == [hw.sample EXCEPT ![b] = w]
             params == [hw.param EXCEPT ![b] = p]
             running == [m \in NonTargets |-> 1]
  <2>3. /\ samples \in [Banks -> Words]
        /\ params \in [Banks -> Params]
        /\ running \in [NonTargets -> {0, 1}]
    BY <2>2, TypeFacts DEF Hardware
  <2>4. hw' = [hw EXCEPT !.daq = 1, !.stack = "foreign", !.run = 1,
                         !.selector = 0, !.sample = samples,
                         !.param = params, !.others = running]
    BY <2>1
  <2> HIDE DEF samples, params, running
  <2>5. hw \in Hardware /\ 0 \in Banks
    BY TypeFacts DEF Banks
  <2>6. hw' \in Hardware
    BY <2>3, <2>4, <2>5 DEF Hardware
  <2> QED
    BY <1>2, <2>6 DEF MvmeStart, TypeInv, TypeOK, CrateTypeOK, Runs
<1>3. CASE MvmeStop
  BY <1>3 DEF MvmeStop, TypeInv, TypeOK, CrateTypeOK, Hardware, Runs
<1>4. CASE UNCHANGED <<hw, mvme, calm>>
  BY <1>4 DEF TypeInv, TypeOK, CrateTypeOK
<1> QED
  BY <1>1, <1>2, <1>3, <1>4, QuietSteps DEF Next, Mvme, Frozen, vars

----------------------------------------------------------------------------
(***************************************************************************)
(*           2. The journal, the service and the session stay typed        *)
(***************************************************************************)
LEMMA ConstantsTyped ==
    /\ Disarmed \in Restore(Words) /\ Disarmed \in Restore(Params)
    /\ NoRecord \in Record /\ PreparedRecord \in Record
    /\ NoPreview \in Preview /\ NoSession \in Session /\ NoTx \in Locals
    /\ Launched \in Service
<1>1. 0 \in Words /\ 0 \in Params /\ 0 \in Banks
  BY WordAssumption, ParamAssumption DEF Banks
<1>2. Disarmed \in Restore(Words) /\ Disarmed \in Restore(Params)
  BY <1>1 DEF Disarmed, Restore
<1>3. NoRecord \in Record /\ PreparedRecord \in Record
  BY <1>2 DEF NoRecord, PreparedRecord, Record, Phases
<1>4. NoPreview \in Preview
  BY <1>1 DEF NoPreview, Preview
<1>5. NoSession \in Session
  BY <1>1, <1>3 DEF NoSession, Session
<1>6. NoTx \in Locals
  BY <1>1, <1>3 DEF NoTx, Locals, Kinds, Values, Runs
<1>7. Launched \in Service
  BY <1>3, <1>4 DEF Launched, Service, Ownership, Acquisition
<1> QED
  BY <1>2, <1>3, <1>4, <1>5, <1>6, <1>7

\* An operation that returns leaves a typed session and service.
Returned == /\ svc' \in Service /\ ses' \in Session
            /\ tx' = NoTx /\ pc' = "idle"
\* Return leaves a typed session and service (ReleaseSession included).
LEMMA ReturnTyped ==
    ASSUME NEW s \in Session, NEW v \in Service, Return(s, v)
    PROVE  Returned
<1>1. Dropped(v) \in Service
  BY DEF Dropped, Service, Ownership
<1>2. Released(v) \in Service
  BY <1>1, ConstantsTyped DEF Released, Service, Acquisition
<1> QED
  BY <1>1, <1>2, ConstantsTyped DEF Return, Returned

\* Both passive detaches leave a typed session and service.
LEMMA DetachTyped ==
    ASSUME TypeInv
    PROVE  /\ ForeignSession \in Session
           /\ \A pv \in Preview :
                 DetachForForeignDiagnosticFingerprint(pv) \in Service
           /\ \A v \in Service : DetachForForeignDaq(v) \in Service
<1>1. ses.rec \in Record /\ ForeignSession \in Session
  BY TypeFacts DEF Session, ForeignSession
<1>2. ASSUME NEW pv \in Preview
      PROVE  DetachForForeignDiagnosticFingerprint(pv) \in Service
  <2>1. [pv EXCEPT !.ok = FALSE] \in Preview
    BY DEF Preview
  <2> QED
    BY <1>1, <2>1, TypeFacts, ConstantsTyped
       DEF DetachForForeignDiagnosticFingerprint, Service, Ownership,
           Acquisition
<1>3. ASSUME NEW v \in Service PROVE DetachForForeignDaq(v) \in Service
  BY DEF DetachForForeignDaq, Service, Ownership
<1> QED
  BY <1>1, <1>2, <1>3

\* What the disk, the service and the session must be after a step.
HeldTyped == journal \in Record /\ svc \in Service /\ ses \in Session

\* Pausing and resuming change neither disk, service nor session.
LEMMA PauseResumeHeld == TypeInv /\ PauseResumeNext => HeldTyped'
BY TypeFacts
   DEF PauseResumeNext, PauseModule, PauseDaq, PauseVerify, ResumeModule,
       ResumeDaq, ResumeVerify, HardwareOnly, HeldTyped

\* A change of one restore entry, in memory and on disk.
LEMMA EntryTyped ==
    ASSUME TypeInv
    PROVE  /\ \A e \in Restore(Words) :
                 [ses.rec EXCEPT !.source = e] \in Record
           /\ \A e \in Restore(Params) :
                 [ses.rec EXCEPT !.preview = e] \in Record
           /\ \A r \in Record : [ses EXCEPT !.rec = r] \in Session
BY TypeFacts DEF Session, Record

\* The source operations save and publish typed records.
LEMMA SourceHeld == TypeInv /\ SourceNext => HeldTyped'
<1> SUFFICES ASSUME TypeInv, SourceNext PROVE HeldTyped'
  OBVIOUS
<1>1. CASE SrcCheck \/ SrcrCheck \/ OpEnd
  <2>1. svc.pv \in Preview
    BY TypeFacts DEF Service
  <2> QED
    BY <1>1, <2>1, TypeFacts, ReturnTyped, DetachTyped
       DEF SrcCheck, SrcrCheck, OpEnd, Frozen, Returned, HeldTyped
<1>2. CASE SrcDisarm \/ SrcrDisarm
  BY <1>2, TypeFacts, EntryTyped, ConstantsTyped
     DEF SrcDisarm, SrcrDisarm, SaveSourceRecoveryState, SaveJournal,
         DiskOnly, HeldTyped
<1>3. CASE SrcArm
  <2>1. tx.req \in Words /\ tx.live \in Words
    BY <1>3 DEF TypeInv, KindOK, ValueOK, SrcArm, SrcPost
  <2>2. ses.rec.source.original \in Words
    BY TypeFacts DEF Session, Record, Restore
  <2>3. Armed(tx.quad, IF ses.rec.source.required
                       THEN ses.rec.source.original ELSE tx.live, tx.req)
          \in Restore(Words)
    BY <2>1, <2>2, TypeFacts DEF Armed, Restore
  <2> QED
    BY <1>3, <2>3, TypeFacts, EntryTyped
       DEF SrcArm, SaveSourceRecoveryState, SaveJournal, DiskOnly, HeldTyped
<1>4. CASE UNCHANGED <<journal, svc, ses>>
  BY <1>4, TypeFacts DEF HeldTyped
<1> QED
  BY <1>1, <1>2, <1>3, <1>4
     DEF SourceNext, SrcSelect, SrcRead, SrcWrite, SrcVerify, SrcRollback,
         SrcRolled, SrcPark, SrcEnd, SrcrSelect, SrcrWrite, SrcrVerify,
         SrcrPark, SrcrEnd, HardwareOnly

\* The preview operations save and publish typed records and results.
LEMMA PreviewHeld == TypeInv /\ PreviewNext => HeldTyped'
<1> SUFFICES ASSUME TypeInv, PreviewNext PROVE HeldTyped'
  OBVIOUS
<1>0. /\ svc.pv \in Preview
      /\ \A pv \in Preview : [svc EXCEPT !.pv = pv] \in Service
      /\ \A c, p, r \in BOOLEAN : PreviewFailed(c, p, r) \in Preview
  <2>1. svc.pv \in Preview
    BY TypeFacts DEF Service
  <2>2. \A pv \in Preview : [svc EXCEPT !.pv = pv] \in Service
    BY TypeFacts DEF Service
  <2>3. \A c, p, r \in BOOLEAN : PreviewFailed(c, p, r) \in Preview
    BY <2>1 DEF Preview, PreviewFailed
  <2> QED
    BY <2>1, <2>2, <2>3
<1>1. CASE PrvCheck
  BY <1>1, <1>0, TypeFacts, ReturnTyped, DetachTyped, ConstantsTyped
     DEF PrvCheck, Frozen, Returned, HeldTyped
<1>2. CASE PrvDisarm
  BY <1>2, TypeFacts, EntryTyped, ConstantsTyped
     DEF PrvDisarm, SavePreviewRecoveryState, SaveJournal, DiskOnly, HeldTyped
<1>3. CASE PrvArm
  <2>1. tx.req \in Params /\ tx.live \in Params
    BY <1>3 DEF TypeInv, KindOK, ValueOK, PrvArm, PrvLabels
  <2>2. Armed(tx.quad, tx.live, tx.req) \in Restore(Params)
    BY <2>1, TypeFacts DEF Armed, Restore
  <2> QED
    BY <1>3, <2>2, TypeFacts, EntryTyped
       DEF PrvArm, SavePreviewRecoveryState, SaveJournal, DiskOnly, HeldTyped
<1>4. CASE PrvEnd
  <2>1. tx.req \in Params /\ tx.live \in Params
    BY <1>4 DEF TypeInv, KindOK, ValueOK, PrvEnd, PrvLabels
  <2>2. tx.failed \in BOOLEAN /\ tx.paused \in BOOLEAN /\ tx.resumed \in BOOLEAN
    BY TypeFacts DEF Locals
  <2>3. PreviewResult \in Preview
    <3>1. [active |-> TRUE, ok |-> ~tx.failed, original |-> tx.live,
           applied |-> tx.req, comm |-> FALSE, paused |-> tx.paused,
           resumed |-> tx.resumed] \in Preview
      BY <2>1, <2>2 DEF Preview
    <3>2. PreviewFailed(FALSE, tx.paused, tx.resumed) \in Preview
      BY <1>0, <2>2
    <3> QED
      BY <3>1, <3>2, ConstantsTyped DEF PreviewResult
  <2> QED
    BY <1>4, <1>0, <2>3, TypeFacts, ReturnTyped
       DEF PrvEnd, Frozen, Returned, HeldTyped
<1>5. CASE UNCHANGED <<journal, svc, ses>>
  BY <1>5, TypeFacts DEF HeldTyped
<1> QED
  BY <1>1, <1>2, <1>3, <1>4, <1>5
     DEF PreviewNext, PrvSelect, PrvRead, PrvWrite, PrvVerify, PrvRollback,
         PrvRolled, PrvPark, PrvSettle, HardwareOnly

\* The ways an operation of OwnershipService ends.
LEMMA EndsTyped ==
    ASSUME TypeInv
    PROVE  /\ \A v \in Service : NotPrepared(v) \/ PreparedOrphan(v) => Returned
           /\ \A r \in Record : StartFailed(r) => Returned
           /\ \A s \in Session, v \in Service : StopResult(s, v) => Returned
<1>1. \A v \in Service : NotPrepared(v) => Returned
  <2> SUFFICES ASSUME NEW v \in Service, NotPrepared(v) PROVE Returned
    OBVIOUS
  <2>1. [v EXCEPT !.acq = "Failed"] \in Service
    BY DEF Service, Acquisition
  <2> QED
    BY <2>1, ReturnTyped, ConstantsTyped DEF NotPrepared
<1>2. \A v \in Service : PreparedOrphan(v) => Returned
  <2> SUFFICES ASSUME NEW v \in Service, PreparedOrphan(v) PROVE Returned
    OBVIOUS
  <2>1. [v EXCEPT !.pending = tx.rec, !.own =
             IF v.own = "OwnershipLost" THEN "OwnershipLost"
                                        ELSE "RecoveryRequired"] \in Service
    BY TypeFacts DEF Service, Ownership
  <2> QED
    BY <2>1, <1>1 DEF PreparedOrphan
<1>3. \A r \in Record : StartFailed(r) => Returned
  <2> SUFFICES ASSUME NEW r \in Record, StartFailed(r) PROVE Returned
    OBVIOUS
  <2>1. [svc EXCEPT !.acq = "Failed", !.pending = r] \in Service
    BY TypeFacts DEF Service, Acquisition
  <2>2. [state |-> "Failed", foreign |-> FALSE, orphan |-> FALSE, rec |-> r,
         quad |-> tx.quad, reset |-> NonTargets] \in Session
    BY TypeFacts DEF Session
  <2> QED
    BY <2>1, <2>2, ReturnTyped DEF StartFailed
<1>4. \A s \in Session, v \in Service : StopResult(s, v) => Returned
  <2> SUFFICES ASSUME NEW s \in Session, NEW v \in Service, StopResult(s, v)
               PROVE  Returned
    OBVIOUS
  <2>1. ses.rec \in Record
    BY TypeFacts DEF Session
  <2>2. [v EXCEPT !.acq = "Failed", !.receiver = FALSE, !.pending = ses.rec]
          \in Service
    BY <2>1 DEF Service, Acquisition
  <2> QED
    BY <2>2, ReturnTyped DEF StopResult
<1> QED
  BY <1>1, <1>2, <1>3, <1>4

\* Start saves a typed record and leaves a typed session.
LEMMA StartHeld == TypeInv /\ StartNext => HeldTyped'
<1> SUFFICES ASSUME TypeInv, StartNext PROVE HeldTyped'
  OBVIOUS
<1>1. CASE StartGate \/ StartProbe \/ StartGate2 \/ StartOpen \/ StartVerify
  BY <1>1, TypeFacts, EndsTyped, DetachTyped
     DEF StartGate, StartProbe, StartGate2, StartOpen, StartVerify, Frozen,
         Returned, HeldTyped
<1>2. CASE StartQuiesce
  BY <1>2, TypeFacts, EndsTyped DEF StartQuiesce, Write, Returned, HeldTyped
<1>3. CASE StartJournal
  BY <1>3, TypeFacts, EndsTyped, ConstantsTyped
     DEF StartJournal, SaveJournal, Returned, HeldTyped
<1>4. CASE StartStack \/ StartSetup \/ StartTrigger \/ StartReset
              \/ StartModule \/ StartDaq
  BY <1>4, TypeFacts, EndsTyped
     DEF StartStack, StartSetup, StartTrigger, StartReset, StartModule,
         StartDaq, StartWrite, Write, Returned, HeldTyped
<1>5. CASE StartActivate
  <2> DEFINE rec == [tx.rec EXCEPT !.phase = "Active"]
             running == [state |-> "Running", foreign |-> FALSE,
                         orphan |-> FALSE, rec |-> rec, quad |-> tx.quad,
                         reset |-> NonTargets]
             acquiring == [svc EXCEPT !.acq = "Running", !.receiver = TRUE]
  <2>1. rec \in Record
    BY TypeFacts DEF Record, Phases
  <2>2. running \in Session
    BY <2>1, TypeFacts DEF Session
  <2>3. acquiring \in Service
    BY TypeFacts DEF Service, Acquisition
  <2>4. /\ journal' \in {journal, rec}
        /\ Return(running, acquiring) \/ StartFailed(rec)
    BY <1>5 DEF StartActivate, SaveJournal
  <2> QED
    BY <2>1, <2>2, <2>3, <2>4, TypeFacts, ReturnTyped, EndsTyped
       DEF Returned, HeldTyped
<1>6. CASE UNCHANGED <<journal, svc, ses>>
  BY <1>6, TypeFacts DEF HeldTyped
<1> QED
  BY <1>1, <1>2, <1>3, <1>4, <1>5, <1>6 DEF StartNext, StartQuiet, HardwareOnly

\* Stop leaves a typed session, or none, and a typed journal.
LEMMA StopHeld == TypeInv /\ StopNext => HeldTyped'
<1> SUFFICES ASSUME TypeInv, StopNext PROVE HeldTyped'
  OBVIOUS
<1>1. /\ [ses EXCEPT !.state = "Failed"] \in Session
      /\ [ses EXCEPT !.state = "Failed", !.orphan = TRUE] \in Session
  BY TypeFacts DEF Session
<1>2. /\ [svc EXCEPT !.own = "OwnershipLost"] \in Service
      /\ [svc EXCEPT !.own = "RecoveryRequired"] \in Service
  BY TypeFacts DEF Service, Ownership
<1>3. CASE StopCheck
  BY <1>1, <1>2, <1>3, TypeFacts, EndsTyped, DetachTyped
     DEF StopCheck, Frozen, Returned, HeldTyped
<1>4. CASE StopQuiet
  <2>1. First(tx.todo) \in NonTargets
    BY <1>4, TypeFacts DEF StopQuiet, First, TypeInv, KindOK, Locals
  <2>2. /\ [ses EXCEPT !.reset = @ \cup {First(tx.todo)}] \in Session
        /\ [ses EXCEPT !.reset = @ \ {First(tx.todo)}] \in Session
    BY <2>1, TypeFacts DEF Session
  <2> QED
    BY <1>4, <2>2, TypeFacts DEF StopQuiet, HeldTyped
<1>5. CASE StopEnd
  <2>1. [svc EXCEPT !.acq = "Stopped", !.receiver = FALSE,
                    !.pending = NoRecord] \in Service
    BY TypeFacts, ConstantsTyped DEF Service, Acquisition
  <2> QED
    BY <1>1, <1>2, <1>5, <2>1, TypeFacts, ConstantsTyped, EndsTyped,
       ReturnTyped
       DEF StopEnd, RemoveJournal, Returned, HeldTyped
<1>6. CASE UNCHANGED <<journal, svc, ses>>
  BY <1>6, TypeFacts DEF HeldTyped
<1> QED
  BY <1>3, <1>4, <1>5, <1>6
     DEF StopNext, StopSource, StopModule, StopStopped, StopOthers, StopOther,
         StopMvlc, StopClear, HardwareOnly

\* A recovery that is done keeps nothing; one that fails keeps the record it
\* loads again, or the one it had.
LEMMA RecEndsTyped ==
    ASSUME TypeInv, journal' \in Record
    PROVE  RecDone \/ RecFail => Returned
<1>1. RecDone => Returned
  BY ConstantsTyped DEF RecDone, Returned
<1>2. ASSUME RecFail PROVE Returned
  <2>1. PICK loaded \in Record :
          svc' = [svc EXCEPT !.own = "RecoveryRequired", !.transport = FALSE,
                     !.pending = IF loaded.phase = "None" THEN @ ELSE loaded]
    BY <1>2, ConstantsTyped DEF RecFail
  <2>2. svc' \in Service
    BY <2>1, TypeFacts DEF Service, Ownership
  <2> QED
    BY <1>2, <2>2, TypeFacts DEF RecFail, Returned
<1> QED
  BY <1>1, <1>2

\* Recovery saves a typed record and leaves a typed service.
LEMMA RecoveryHeld == TypeInv /\ RecoveryNext => HeldTyped'
<1> SUFFICES ASSUME TypeInv, RecoveryNext PROVE HeldTyped'
  OBVIOUS
<1>1. CASE RecCheck \/ RecTarget \/ RecStopped \/ RecQuiet \/ RecClear
  BY <1>1, TypeFacts, RecEndsTyped
     DEF RecCheck, RecTarget, RecStopped, RecQuiet, RecClear, Frozen, Going,
         Returned, HeldTyped
<1>2. CASE RecGate \/ RbGate1 \/ RbGate2 \/ RbGate3
  BY <1>2, TypeFacts, RecEndsTyped
     DEF RecGate, RbGate1, RbGate2, RbGate3, IdleGate, Frozen, Going,
         Returned, HeldTyped
<1>3. CASE RecStop \/ RecOthers \/ RecMvlc \/ RbSelect
  BY <1>3, TypeFacts, RecEndsTyped
     DEF RecStop, RecOthers, RecMvlc, RbSelect, RecWrite, Write, Frozen, Going,
         Returned, HeldTyped
<1>4. CASE RbPark
  BY <1>4, TypeFacts, RecEndsTyped
     DEF RbPark, Write, Going, Returned, HeldTyped
<1>5. CASE RbSave
  <2> DEFINE rec == IF tx.preview THEN [tx.rec EXCEPT !.preview = Disarmed]
                                  ELSE [tx.rec EXCEPT !.source = Disarmed]
  <2>1. rec \in Record
    BY TypeFacts, ConstantsTyped DEF Record
  <2>2. /\ journal' \in {journal, rec}
        /\ UNCHANGED <<svc, ses>> \/ RecFail
    BY <1>5 DEF RbSave, SaveJournal
  <2> QED
    BY <2>1, <2>2, TypeFacts, RecEndsTyped DEF Returned, HeldTyped
<1>6. CASE RecRemove
  BY <1>6, TypeFacts, ConstantsTyped, RecEndsTyped
     DEF RecRemove, RemoveJournal, Returned, HeldTyped
<1>7. CASE UNCHANGED <<journal, svc, ses>>
  BY <1>7, TypeFacts DEF HeldTyped
<1> QED
  BY <1>1, <1>2, <1>3, <1>4, <1>5, <1>6, <1>7
     DEF RecoveryNext, RbRead, RbDecide, RbWrite, RbVerify, HardwareOnly

\* What a launched process, or UseProject, finds is typed.
LEMMA LoadedTyped == TypeInv => Loaded \in Service
BY TypeFacts, ConstantsTyped DEF Loaded, LoadJournal, Service, Ownership

\* No command mistypes the service, the session or the journal.
LEMMA CommandHeld == TypeInv /\ Command => HeldTyped'
<1> SUFFICES ASSUME TypeInv, Command PROVE HeldTyped'
  OBVIOUS
<1>1. CASE CheckStatus \/ OpenSession \/ CheckDiagnosticRecoveryStatus
              \/ UseProject \/ StartDiagnosticAcquisition
  <2>1. svc' \in Service
    <3>1. CASE CheckStatus
      BY <3>1, TypeFacts DEF CheckStatus, Service, Ownership
    <3>2. CASE OpenSession
      <4>1. PICK own \in Ownership :
              svc' = [svc EXCEPT !.own = own,
                                 !.transport = (own = "SessionOpen"),
                                 !.pv = NoPreview]
        BY <3>2 DEF OpenSession, Ownership
      <4> DEFINE opened == own = "SessionOpen"
      <4>2. opened \in BOOLEAN /\ svc' = [svc EXCEPT !.own = own,
                                             !.transport = opened,
                                             !.pv = NoPreview]
        BY <4>1
      <4> HIDE DEF opened
      <4> QED
        BY <4>2, TypeFacts, ConstantsTyped DEF Service
    <3>3. CASE CheckDiagnosticRecoveryStatus
      BY <3>3, TypeFacts
         DEF CheckDiagnosticRecoveryStatus, Service, Ownership
    <3>4. CASE UseProject
      BY <3>4, LoadedTyped DEF UseProject
    <3>5. CASE StartDiagnosticAcquisition
      BY <3>5, TypeFacts, ConstantsTyped
         DEF StartDiagnosticAcquisition, Service, Acquisition
    <3> QED
      BY <1>1, <3>1, <3>2, <3>3, <3>4, <3>5
  <2> QED
    BY <1>1, <2>1, TypeFacts
       DEF CheckStatus, OpenSession, CheckDiagnosticRecoveryStatus,
           UseProject, StartDiagnosticAcquisition, Frozen, HeldTyped
<1>2. CASE ReleaseSession
  <2>1. Released(svc) \in Service /\ Dropped(svc) \in Service
    BY TypeFacts, ConstantsTyped
       DEF Released, Dropped, Service, Ownership, Acquisition
  <2> QED
    BY <1>2, <2>1, TypeFacts, ConstantsTyped
       DEF ReleaseSession, StopTask, Frozen, HeldTyped
<1>3. CASE UNCHANGED <<journal, svc, ses>>
  BY <1>3, TypeFacts DEF HeldTyped
<1> QED
  BY <1>1, <1>2, <1>3
     DEF Command, ChangeDiagnosticSource, ApplyDiagnosticPreview,
         RestoreDiagnosticPreview, RecoverDiagnosticOrphan,
         StopDiagnosticAcquisition, StopTask, Frozen

\* Every step leaves a typed journal, service and session.
LEMMA HeldStaysTyped == TypeInv /\ [Next]_vars => HeldTyped'
<1> SUFFICES ASSUME TypeInv, [Next]_vars PROVE HeldTyped'
  OBVIOUS
<1>1. CASE Operation
  BY <1>1, PauseResumeHeld, SourceHeld, PreviewHeld, StartHeld, StopHeld,
     RecoveryHeld DEF Operation
<1>2. CASE Command
  BY <1>2, CommandHeld
<1>3. CASE PollWatchdog
  <2>1. svc.pv \in Preview
    BY TypeFacts DEF Service
  <2> QED
    BY <1>3, <2>1, TypeFacts, DetachTyped DEF PollWatchdog, Frozen, HeldTyped
<1>4. CASE Crash \/ StopWithoutTransport
  <2>1. [Launched EXCEPT !.alive = FALSE] \in Service
    BY ConstantsTyped DEF Service
  <2> QED
    BY <1>4, <2>1, TypeFacts, ConstantsTyped
       DEF Crash, StopWithoutTransport, Dies, Frozen, HeldTyped
<1>5. CASE Launch
  BY <1>5, TypeFacts, LoadedTyped DEF Launch, Frozen, HeldTyped
<1>6. CASE Mvme \/ UNCHANGED vars
  BY <1>6, TypeFacts DEF Mvme, vars, HeldTyped
<1> QED
  BY <1>1, <1>2, <1>3, <1>4, <1>5, <1>6 DEF Next

----------------------------------------------------------------------------
(***************************************************************************)
(*                    3. The worker's control stays typed                  *)
(***************************************************************************)
\* Labels, locals, and what the inductive invariant says of them.
Control == pc \in Labels /\ tx \in Locals /\ KindOK /\ ValueOK

\* An operation that has returned is at its idle label with no locals.
Idling == pc' = "idle" /\ tx' = NoTx

\* The idle label satisfies the control part of the invariant.
LEMMA IdleControl == Idling => Control'
BY ConstantsTyped
   DEF Idling, Control, KindOK, ValueOK, Labels, PauseLabels, ResumeLabels,
       SrcPre, SrcPost, SrcEnds, SrcrLabels, PrvLabels, PrvKinds,
       StartLabels, StopLabels, RecLabels, NoTx

\* Return ends the operation.
LEMMA ReturnIdle == \A s, v : Return(s, v) => Idling
BY DEF Return, Idling

\* So does every named way to end one.
LEMMA EndsIdle ==
    /\ \A v : NotPrepared(v) \/ PreparedOrphan(v) => Idling
    /\ \A r : StartFailed(r) => Idling
    /\ \A s, v : StopResult(s, v) => Idling
    /\ RecDone \/ RecFail => Idling
BY ReturnIdle
   DEF NotPrepared, PreparedOrphan, StartFailed, StopResult, RecDone, RecFail,
       Idling

\* A step that only records replies and moves between labels.
Moves ==
    /\ tx' \in Locals
    /\ tx'.kind = tx.kind /\ tx'.live = tx.live /\ tx'.req = tx.req
    /\ tx'.todo = tx.todo

\* Recording one reply in the locals keeps kind, request and work list.
LEMMA MoveTyped ==
    ASSUME TypeInv, tx' \in {tx} \cup
              {[tx EXCEPT !.failed = TRUE], [tx EXCEPT !.paused = TRUE],
               [tx EXCEPT !.resumed = TRUE], [tx EXCEPT !.selected = TRUE],
               [tx EXCEPT !.attempted = TRUE], [tx EXCEPT !.verified = TRUE],
               [tx EXCEPT !.rolled = TRUE], [tx EXCEPT !.parked = TRUE],
               [tx EXCEPT !.armed = TRUE], [tx EXCEPT !.armed = FALSE],
               [tx EXCEPT !.idle = TRUE],
               [tx EXCEPT !.failed = TRUE, !.paused = FALSE],
               [tx EXCEPT !.attempted = TRUE, !.failed = TRUE]}
    PROVE  Moves
<1>0. tx \in Locals
  BY TypeFacts
<1>1. CASE tx' = [tx EXCEPT !.failed = TRUE]
  BY <1>0, <1>1 DEF Locals, Moves
<1>2. CASE tx' = [tx EXCEPT !.paused = TRUE]
  BY <1>0, <1>2 DEF Locals, Moves
<1>3. CASE tx' = [tx EXCEPT !.resumed = TRUE]
  BY <1>0, <1>3 DEF Locals, Moves
<1>4. CASE tx' = [tx EXCEPT !.selected = TRUE]
  BY <1>0, <1>4 DEF Locals, Moves
<1>5. CASE tx' = [tx EXCEPT !.attempted = TRUE]
  BY <1>0, <1>5 DEF Locals, Moves
<1>6. CASE tx' = [tx EXCEPT !.verified = TRUE]
  BY <1>0, <1>6 DEF Locals, Moves
<1>7. CASE tx' = [tx EXCEPT !.rolled = TRUE]
  BY <1>0, <1>7 DEF Locals, Moves
<1>8. CASE tx' = [tx EXCEPT !.parked = TRUE]
  BY <1>0, <1>8 DEF Locals, Moves
<1>9. CASE tx' = [tx EXCEPT !.armed = TRUE]
  BY <1>0, <1>9 DEF Locals, Moves
<1>10. CASE tx' = [tx EXCEPT !.armed = FALSE]
  BY <1>0, <1>10 DEF Locals, Moves
<1>11. CASE tx' = [tx EXCEPT !.idle = TRUE]
  BY <1>0, <1>11 DEF Locals, Moves
<1>12. CASE tx' = [tx EXCEPT !.failed = TRUE, !.paused = FALSE]
  BY <1>0, <1>12 DEF Locals, Moves
<1>13. CASE tx' = [tx EXCEPT !.attempted = TRUE, !.failed = TRUE]
  BY <1>0, <1>13 DEF Locals, Moves
<1>14. CASE tx' = tx
  BY <1>0, <1>14 DEF Moves
<1> QED
  BY <1>1, <1>2, <1>3, <1>4, <1>5, <1>6, <1>7,
     <1>8, <1>9, <1>10, <1>11, <1>12, <1>13, <1>14

\* Pause and resume go back to the operation that called them.
LEMMA PauseResumeControl == TypeInv /\ PauseResumeNext => Control'
<1> SUFFICES ASSUME TypeInv, PauseResumeNext PROVE Control'
  OBVIOUS
<1>1. Moves
  BY MoveTyped
     DEF PauseResumeNext, PauseModule, PauseDaq, PauseVerify, ResumeModule,
         ResumeDaq, ResumeVerify, Write, NotPaused, Failing
<1>2. /\ pc \in PauseLabels \cup ResumeLabels
      /\ pc \in PauseLabels =>
           pc' \in PauseLabels \cup {PausedLabel[tx.kind], NotPausedLabel[tx.kind]}
      /\ pc \in ResumeLabels => pc' \in ResumeLabels \cup {ResumedLabel[tx.kind]}
  BY DEF PauseResumeNext, PauseModule, PauseDaq, PauseVerify, ResumeModule,
         ResumeDaq, ResumeVerify, Write, NotPaused, Failing, PauseLabels,
         ResumeLabels
<1>3. CASE pc \in PauseLabels
  BY <1>1, <1>2, <1>3
     DEF Moves, TypeInv, Control, KindOK, ValueOK, Labels, PauseLabels,
         ResumeLabels, SrcPre, SrcPost, SrcEnds, SrcrLabels, PrvLabels,
         PrvKinds, StartLabels, StopLabels, RecLabels, PausedLabel, NotPausedLabel
<1>4. CASE pc \in ResumeLabels
  BY <1>1, <1>2, <1>4
     DEF Moves, TypeInv, Control, KindOK, ValueOK, Labels, PauseLabels,
         ResumeLabels, SrcPre, SrcPost, SrcEnds, SrcrLabels, PrvLabels,
         PrvKinds, StartLabels, StopLabels, RecLabels, ResumedLabel
<1> QED
  BY <1>2, <1>3, <1>4

\* The steps of a source change and of the source restore: each keeps the
\* operation's kind and request, and moves on within the operation.
LEMMA SourceMoves ==
    ASSUME TypeInv,
           \/ SrcSelect \/ SrcArm \/ SrcWrite \/ SrcVerify \/ SrcRollback
           \/ SrcRolled \/ SrcPark \/ SrcDisarm \/ SrcEnd
    PROVE  /\ Moves
           /\ \/ pc \in SrcPre /\ pc' \in SrcPre \cup SrcEnds
              \/ pc \in SrcPost /\ pc' \in SrcPost \cup SrcEnds
              \/ pc \in SrcEnds /\ pc' \in SrcEnds \cup {"resume_module", "op_end"}
<1> USE DEF SrcPre, SrcPost, SrcEnds
<1>1. CASE SrcSelect \/ SrcPark \/ SrcDisarm \/ SrcEnd
  BY <1>1, MoveTyped
     DEF SrcSelect, SrcPark, SrcDisarm, SrcEnd, SaveSourceRecoveryState,
         SaveJournal, Write, Failing
<1>2. CASE SrcWrite \/ SrcVerify \/ SrcRollback \/ SrcRolled
  BY <1>2, MoveTyped
     DEF SrcWrite, SrcVerify, SrcRollback, SrcRolled, Write, Failing
<1>3. CASE SrcArm
  <2>1. ses.rec.source.required \in BOOLEAN
    BY TypeFacts DEF Session, Record, Restore
  <2>2. \/ /\ tx' = [tx EXCEPT !.armed = ~ses.rec.source.required]
           /\ pc' = "src_write"
        \/ tx' = [tx EXCEPT !.failed = TRUE] /\ pc' = "src_park"
    BY <1>3 DEF SrcArm, SaveSourceRecoveryState, SaveJournal, Failing
  <2>3. tx' \in {[tx EXCEPT !.armed = TRUE], [tx EXCEPT !.armed = FALSE],
                 [tx EXCEPT !.failed = TRUE]}
    <3>1. CASE ses.rec.source.required = TRUE
      BY <2>2, <3>1
    <3>2. CASE ses.rec.source.required = FALSE
      BY <2>2, <3>2
    <3> QED
      BY <2>1, <3>1, <3>2
  <2> QED
    BY <1>3, <2>2, <2>3, MoveTyped DEF SrcArm
<1> QED
  BY <1>1, <1>2, <1>3

\* A source operation stays within its labels and its kinds of value.
LEMMA SourceControl == TypeInv /\ SourceNext => Control'
<1> SUFFICES ASSUME TypeInv, SourceNext PROVE Control'
  OBVIOUS
<1>1. CASE \/ SrcSelect \/ SrcArm \/ SrcWrite \/ SrcVerify \/ SrcRollback
          \/ SrcRolled \/ SrcPark \/ SrcDisarm \/ SrcEnd
  BY <1>1, SourceMoves
     DEF Moves, TypeInv, Control, KindOK, ValueOK, Labels, PauseLabels,
         ResumeLabels, SrcPre, SrcPost, SrcEnds, SrcrLabels, PrvLabels,
         PrvKinds, StartLabels, StopLabels, RecLabels
<1>2. CASE SrcRead
  <2>1. tx.kind = "source" /\ tx.req \in Sources
    BY <1>2 DEF TypeInv, KindOK, ValueOK, SrcRead, SrcPre
  <2>2. LiveSample \in Words
    BY TypeFacts, SetTyped
  <2>3. CASE tx' = [tx EXCEPT !.failed = TRUE] /\ pc' = "src_park"
    BY <1>2, <2>3, MoveTyped
       DEF SrcRead, Moves, TypeInv, Control, KindOK, ValueOK, Labels,
           PauseLabels, ResumeLabels, SrcPre, SrcPost, SrcEnds, SrcrLabels,
           PrvLabels,
              PrvKinds, StartLabels, StopLabels, RecLabels
  <2>4. ASSUME NEW req, req = Other(LiveSample) + tx.req,
               NEW back \in BOOLEAN, NEW same \in BOOLEAN,
               tx' = [tx EXCEPT !.live = LiveSample, !.req = req,
                                !.back = back, !.verified = same],
               pc' \in {"src_park", "src_write", "src_arm"}
        PROVE  Control'
    <3>1. req \in Words /\ req \in Nat
      BY <2>1, <2>2, <2>4, RequestAssumption, WordAssumption
         DEF Other, Bits
    <3>2. tx' \in Locals /\ tx'.kind = tx.kind /\ tx'.live \in Words
             /\ tx'.req \in Words
      BY <2>2, <2>4, <3>1, TypeFacts DEF Locals, Values
    <3> QED
      BY <2>1, <2>4, <3>2
         DEF Control, KindOK, ValueOK, Labels, PauseLabels, ResumeLabels,
             SrcPre, SrcPost, SrcEnds, SrcrLabels, PrvLabels,
              PrvKinds, StartLabels, StopLabels, RecLabels
  <2> DEFINE request == Other(LiveSample) + tx.req
             returns == ses.rec.source.required
                          /\ request = ses.rec.source.original
  <2>5. CASE /\ tx' = [tx EXCEPT !.live = LiveSample, !.req = request,
                                  !.back = returns,
                                  !.verified = (request = LiveSample)]
             /\ pc' \in {"src_park", "src_write", "src_arm"}
    <3>1. returns \in BOOLEAN /\ (request = LiveSample) \in BOOLEAN
      OBVIOUS
    <3> QED
      BY <2>4, <2>5, <3>1
  <2> QED
    BY <1>2, <2>3, <2>5 DEF SrcRead, Failing
<1>3. CASE SrcCheck \/ SrcrCheck \/ OpEnd
  <2>1. Idling \/ /\ pc' = "pause_module"
                  /\ UNCHANGED tx
                  /\ pc \in {"src_check", "srcr_check"}
    BY <1>3, ReturnIdle DEF SrcCheck, SrcrCheck, OpEnd
  <2> QED
    BY <2>1, IdleControl
       DEF TypeInv, TypeOK, Control, KindOK, ValueOK, Labels, PauseLabels,
           ResumeLabels, SrcPre, SrcPost, SrcEnds, SrcrLabels, PrvLabels,
           PrvKinds, StartLabels, StopLabels, RecLabels
<1>4. CASE SrcrSelect \/ SrcrWrite \/ SrcrVerify \/ SrcrPark \/ SrcrDisarm
  <2>1. Moves /\ pc \in SrcrLabels /\ pc' \in SrcrLabels
    BY <1>4, MoveTyped
       DEF SrcrSelect, SrcrWrite, SrcrVerify, SrcrPark, SrcrDisarm,
           SaveSourceRecoveryState, SaveJournal, Write, Failing, SrcrLabels
  <2> QED
    BY <2>1
       DEF Moves, TypeInv, Control, KindOK, ValueOK, Labels, PauseLabels,
           ResumeLabels, SrcPre, SrcPost, SrcEnds, SrcrLabels, PrvLabels,
           PrvKinds, StartLabels, StopLabels, RecLabels
<1>5. CASE SrcrEnd
  <2> DEFINE left == tx.left \/ tx.paused
  <2>1. /\ left \in BOOLEAN
        /\ tx' = [NoTx EXCEPT !.kind = "stop", !.release = tx.release,
                              !.since = tx.since, !.left = left]
    BY <1>5 DEF SrcrEnd
  <2> HIDE DEF left
  <2>2. tx' \in Locals /\ tx'.kind = "stop"
    BY <2>1, TypeFacts, ConstantsTyped DEF Locals, Kinds
  <2> QED
    BY <1>5, <2>2
       DEF SrcrEnd, Control, KindOK, ValueOK, Labels, PauseLabels,
           ResumeLabels, SrcPre, SrcPost, SrcEnds, SrcrLabels, PrvLabels,
           PrvKinds, StartLabels, StopLabels, RecLabels
<1> QED
  BY <1>1, <1>2, <1>3, <1>4, <1>5 DEF SourceNext

\* A preview operation stays within its labels and its kinds of value.
LEMMA PreviewControl == TypeInv /\ PreviewNext => Control'
<1> SUFFICES ASSUME TypeInv, PreviewNext PROVE Control'
  OBVIOUS
<1>0. pc \in PrvLabels /\ tx.kind \in PrvKinds
  BY DEF TypeInv, KindOK, PreviewNext, PrvCheck, PrvSelect, PrvRead, PrvArm,
         PrvWrite, PrvVerify, PrvRollback, PrvRolled, PrvPark, PrvDisarm,
         PrvSettle, PrvEnd, PrvLabels
<1>1. CASE \/ PrvSelect \/ PrvArm \/ PrvWrite \/ PrvVerify \/ PrvRollback
          \/ PrvRolled \/ PrvPark \/ PrvDisarm \/ PrvSettle
  <2>1. Moves
    BY <1>1, MoveTyped
       DEF PrvSelect, PrvArm, PrvWrite, PrvVerify, PrvRollback, PrvRolled,
           PrvPark, PrvDisarm, PrvSettle, SavePreviewRecoveryState,
           SaveJournal, Write, Failing, Unverified
  <2>2. \/ pc' \in PrvLabels
        \/ pc' = "resume_module" /\ tx.kind # "stopRestore"
    BY <1>1
       DEF PrvSelect, PrvArm, PrvWrite, PrvVerify, PrvRollback, PrvRolled,
           PrvPark, PrvDisarm, PrvSettle, SavePreviewRecoveryState,
           SaveJournal, Write, Failing, Unverified, PrvLabels
  <2> QED
    BY <1>0, <2>1, <2>2
       DEF Moves, TypeInv, Control, KindOK, ValueOK, Labels, PauseLabels,
           ResumeLabels, SrcPre, SrcPost, SrcEnds, SrcrLabels, PrvLabels,
           PrvKinds, StartLabels, StopLabels, RecLabels
<1>2. CASE PrvRead
  <2>1. LiveParam \in Params
    BY TypeFacts, SetTyped
  <2>2. /\ tx' \in {tx, [tx EXCEPT !.failed = TRUE],
                    [tx EXCEPT !.live = LiveParam]}
        /\ pc' \in PrvLabels
    BY <1>2 DEF PrvRead, Failing, PrvLabels
  <2>3. tx' \in Locals /\ tx'.kind = tx.kind /\ tx'.req = tx.req
           /\ tx'.live \in {tx.live, LiveParam}
    BY <2>1, <2>2, TypeFacts DEF Locals, Values
  <2> QED
    BY <1>0, <2>1, <2>2, <2>3
       DEF TypeInv, Control, KindOK, ValueOK, Labels, PauseLabels,
           ResumeLabels, SrcPre, SrcPost, SrcEnds, SrcrLabels, PrvLabels,
           PrvKinds, StartLabels, StopLabels, RecLabels
<1>3. CASE PrvCheck
  <2>1. Idling \/ (pc' = "pause_module" /\ UNCHANGED tx)
    BY <1>3, ReturnIdle DEF PrvCheck
  <2> QED
    BY <1>0, <2>1, IdleControl
       DEF TypeInv, TypeOK, Control, KindOK, ValueOK, Labels, PauseLabels,
           ResumeLabels, SrcPre, SrcPost, SrcEnds, SrcrLabels, PrvLabels,
           PrvKinds, StartLabels, StopLabels, RecLabels
<1>4. CASE PrvEnd
  <2>1. CASE tx.kind = "stopRestore"
    <3> DEFINE left == tx.paused /\ ~tx.resumed
    <3>1. /\ left \in BOOLEAN
          /\ tx' = [NoTx EXCEPT !.kind = "stop", !.release = tx.release,
                                !.since = tx.since, !.left = left]
          /\ pc' = "stop_source"
      BY <1>4, <2>1 DEF PrvEnd
    <3> HIDE DEF left
    <3>2. tx' \in Locals /\ tx'.kind = "stop"
      BY <3>1, TypeFacts, ConstantsTyped DEF Locals, Kinds
    <3> QED
      BY <3>1, <3>2
         DEF Control, KindOK, ValueOK, Labels, PauseLabels, ResumeLabels,
             SrcPre, SrcPost, SrcEnds, SrcrLabels, PrvLabels,
              PrvKinds, StartLabels, StopLabels, RecLabels
  <2>2. CASE tx.kind # "stopRestore"
    BY <1>4, <2>2, ReturnIdle, IdleControl DEF PrvEnd
  <2> QED
    BY <2>1, <2>2
<1> QED
  BY <1>1, <1>2, <1>3, <1>4 DEF PreviewNext

\* Start, Stop and recovery labels carry no obligation but their kind, typed
\* locals and, where a module is being handled, a module to handle.
LEMMA PlainControl ==
    ASSUME tx' \in Locals,
           \/ pc' \in StartLabels /\ tx'.kind = "start"
           \/ pc' \in StopLabels /\ tx'.kind = "stop"
           \/ pc' \in RecLabels /\ tx'.kind = "recover",
           pc' \in {"start_quiet", "stop_other", "stop_quiet", "rec_quiet"}
             => tx'.todo # {}
    PROVE  Control'
BY DEF Control, KindOK, ValueOK, Labels, PauseLabels, ResumeLabels, SrcPre,
       SrcPost, SrcEnds, SrcrLabels, PrvLabels, PrvKinds, StartLabels,
       StopLabels, RecLabels

\* A module leaves the work list.
LEMMA HandledTyped ==
    ASSUME TypeInv, NEW m
    PROVE  /\ Handled(m) \in Locals /\ Handled(m).kind = tx.kind
           /\ [Handled(m) EXCEPT !.failed = TRUE] \in Locals
           /\ [Handled(m) EXCEPT !.failed = TRUE].kind = tx.kind
BY TypeFacts DEF Handled, Locals

\* Start stays within its labels and handles listed modules only.
LEMMA StartControl == TypeInv /\ StartNext => Control'
<1> SUFFICES ASSUME TypeInv, StartNext PROVE Control'
  OBVIOUS
<1>0. tx.kind = "start" /\ tx \in Locals
  BY TypeFacts
     DEF StartNext, StartGate, StartProbe, StartJournal, StartGate2,
         StartQuiesce, StartQuiet, StartOpen, StartStack, StartSetup,
         StartTrigger, StartReset, StartModule, StartDaq, StartVerify,
         StartActivate, StartWrite, TypeInv, KindOK, StartLabels
<1>1. CASE StartGate \/ StartOpen \/ StartVerify
  BY <1>0, <1>1, EndsIdle, IdleControl, PlainControl
     DEF StartGate, StartOpen, StartVerify, StartLabels
<1>2. CASE StartStack \/ StartSetup \/ StartTrigger \/ StartReset
              \/ StartModule \/ StartDaq
  BY <1>0, <1>2, EndsIdle, IdleControl, PlainControl
     DEF StartStack, StartSetup, StartTrigger, StartReset, StartModule,
         StartDaq, StartWrite, Write, StartLabels
<1>3. CASE StartProbe \/ StartJournal \/ StartGate2
  <2> DEFINE running == {m \in NonTargets : hw.others[m] = 1}
  <2>1. running \in SUBSET NonTargets
    OBVIOUS
  <2>2. \/ Idling
        \/ tx' = [tx EXCEPT !.need = running] /\ pc' = "start_journal"
        \/ tx' = [tx EXCEPT !.rec = PreparedRecord] /\ pc' = "start_gate2"
        \/ tx' = [tx EXCEPT !.todo = NonTargets] /\ pc' = "start_quiesce"
    BY <1>3, EndsIdle DEF StartProbe, StartJournal, StartGate2, SaveJournal
  <2> HIDE DEF running
  <2>3. Idling \/ /\ tx' \in Locals /\ tx'.kind = "start"
                  /\ pc' \in {"start_journal", "start_gate2", "start_quiesce"}
    BY <1>0, <2>1, <2>2, ConstantsTyped DEF Locals
  <2> QED
    BY <2>3, IdleControl, PlainControl DEF StartLabels
<1>4. CASE StartQuiesce
  <2>1. \/ Idling
        \/ UNCHANGED tx /\ tx.todo # {} /\ pc' = "start_quiet"
        \/ UNCHANGED tx /\ pc' = "start_open"
        \/ /\ tx' = [Handled(First(tx.todo)) EXCEPT !.failed = TRUE]
           /\ pc' = "start_quiesce"
    BY <1>4, EndsIdle DEF StartQuiesce, Write
  <2> QED
    BY <1>0, <2>1, HandledTyped, IdleControl, PlainControl DEF StartLabels
<1>5. CASE StartQuiet
  BY <1>0, <1>5, HandledTyped, PlainControl DEF StartQuiet, StartLabels
<1>6. CASE StartActivate
  BY <1>6, ReturnIdle, EndsIdle, IdleControl DEF StartActivate, SaveJournal
<1> QED
  BY <1>1, <1>2, <1>3, <1>4, <1>5, <1>6 DEF StartNext

\* Stop stays within its labels and handles listed modules only.
LEMMA StopControl == TypeInv /\ StopNext => Control'
<1> SUFFICES ASSUME TypeInv, StopNext PROVE Control'
  OBVIOUS
<1>0. tx.kind = "stop" /\ tx \in Locals
  BY TypeFacts
     DEF StopNext, StopSource, StopCheck, StopModule, StopStopped, StopOthers,
         StopOther, StopQuiet, StopMvlc, StopClear, StopEnd, TypeInv, KindOK,
         StopLabels
<1>1. CASE StopSource
  <2>1. CASE UNCHANGED tx /\ pc' \in {"stop_module", "stop_check"}
    BY <1>0, <2>1, PlainControl DEF StopLabels
  <2>2. CASE /\ tx' = [tx EXCEPT !.kind = "stopSource",
                                 !.quad = ses.rec.source.quad,
                                 !.live = ses.rec.source.original]
             /\ pc' \in {"srcr_select", "srcr_check"}
    <3>1. ses.rec.source.quad \in Banks /\ ses.rec.source.original \in Words
      BY TypeFacts DEF Session, Record, Restore
    <3>2. /\ tx' \in Locals /\ tx'.kind = "stopSource"
          /\ tx'.live \in Words
      BY <1>0, <2>2, <3>1 DEF Locals, Kinds, Values
    <3> QED
      BY <2>2, <3>2
         DEF Control, KindOK, ValueOK, Labels, PauseLabels, ResumeLabels,
             SrcPre, SrcPost, SrcEnds, SrcrLabels, PrvLabels, PrvKinds,
             StartLabels, StopLabels, RecLabels
  <2> QED
    BY <1>1, <2>1, <2>2 DEF StopSource
<1>2. CASE StopCheck \/ StopEnd
  <2>1. Idling \/ (UNCHANGED tx /\ pc' = "stop_module")
    BY <1>2, EndsIdle, ReturnIdle DEF StopCheck, StopEnd, RemoveJournal
  <2> QED
    BY <1>0, <2>1, IdleControl, PlainControl DEF StopLabels
<1>3. CASE StopModule \/ StopStopped
  <2>1. /\ [tx EXCEPT !.todo = NonTargets] \in Locals
        /\ [tx EXCEPT !.todo = NonTargets, !.failed = TRUE] \in Locals
        /\ [tx EXCEPT !.todo = NonTargets].kind = "stop"
        /\ [tx EXCEPT !.todo = NonTargets, !.failed = TRUE].kind = "stop"
    BY <1>0 DEF Locals
  <2> QED
    BY <1>0, <1>3, <2>1, PlainControl
       DEF StopModule, StopStopped, Write, StopLabels
<1>4. CASE StopOthers
  <2> DEFINE m == First(tx.todo)
             missing == tx.failed \/ m \notin ses.reset
  <2>1. \/ UNCHANGED tx /\ pc' = "stop_mvlc"
        \/ UNCHANGED tx /\ tx.todo # {} /\ pc' = "stop_other"
        \/ /\ tx' = [Handled(m) EXCEPT !.failed = TRUE]
           /\ pc' = "stop_others"
        \/ /\ tx' = [Handled(m) EXCEPT !.failed = @ \/ m \notin ses.reset]
           /\ pc' = "stop_others"
    BY <1>4 DEF StopOthers
  <2>2. /\ [Handled(m) EXCEPT !.failed = @ \/ m \notin ses.reset] \in Locals
        /\ [Handled(m) EXCEPT !.failed = @ \/ m \notin ses.reset].kind = tx.kind
    <3>1. [Handled(m) EXCEPT !.failed = @ \/ m \notin ses.reset]
            = [tx EXCEPT !.todo = @ \ {m}, !.failed = missing]
      BY <1>0 DEF Handled, Locals
    <3> DEFINE rest == tx.todo \ {m}
    <3>2. missing \in BOOLEAN /\ rest \in SUBSET NonTargets
      BY <1>0 DEF Locals
    <3>3. [tx EXCEPT !.todo = @ \ {m}, !.failed = missing]
            = [tx EXCEPT !.todo = rest, !.failed = missing]
      OBVIOUS
    <3> HIDE DEF missing, rest
    <3>4. /\ [tx EXCEPT !.todo = rest, !.failed = missing] \in Locals
          /\ [tx EXCEPT !.todo = rest, !.failed = missing].kind = tx.kind
      BY <1>0, <3>2 DEF Locals
    <3> QED
      BY <3>1, <3>3, <3>4
  <2> QED
    BY <1>0, <2>1, <2>2, HandledTyped, PlainControl DEF StopLabels
<1>5. CASE StopOther \/ StopQuiet
  BY <1>0, <1>5, HandledTyped, PlainControl
     DEF StopOther, StopQuiet, Write, StopLabels, TypeInv, KindOK
<1>6. CASE StopMvlc \/ StopClear
  BY <1>0, <1>6, MoveTyped, PlainControl
     DEF StopMvlc, StopClear, Write, Failing, Moves, StopLabels
<1> QED
  BY <1>1, <1>2, <1>3, <1>4, <1>5, <1>6 DEF StopNext

\* Recovery takes up the next entry of a typed record.
LEMMA RestoreOfTyped ==
    ASSUME TypeInv, NEW r \in Record
    PROVE  RestoreOf(r) \in Locals /\ RestoreOf(r).kind = tx.kind
<1>1. r.preview.required \in BOOLEAN
  BY DEF Record, Restore
<1> QED
  BY <1>1, TypeFacts DEF RestoreOf, Locals

\* Recovery stays within its labels.
LEMMA RecoveryControl == TypeInv /\ RecoveryNext => Control'
<1> SUFFICES ASSUME TypeInv, RecoveryNext PROVE Control'
  OBVIOUS
<1>0. tx.kind = "recover" /\ tx \in Locals /\ tx.rec \in Record
  BY TypeFacts
     DEF RecoveryNext, RecCheck, RecGate, RecTarget, RecStop, RecStopped,
         RecOthers, RecQuiet, RbGate1, RbSelect, RbRead, RbGate2, RbDecide,
         RbWrite, RbVerify, RbGate3, RbPark, RbSave, RecMvlc, RecClear,
         RecRemove, IdleGate, RecWrite, TypeInv, KindOK, RecLabels
<1>1. CASE RecGate \/ RbGate1 \/ RbGate2 \/ RbGate3
  BY <1>0, <1>1, EndsIdle, IdleControl, PlainControl
     DEF RecGate, RbGate1, RbGate2, RbGate3, IdleGate, Going, RecLabels
<1>2. CASE RecStop \/ RecMvlc \/ RbSelect \/ RecClear \/ RecRemove \/ RbPark
  BY <1>0, <1>2, EndsIdle, IdleControl, PlainControl
     DEF RecStop, RecMvlc, RbSelect, RecClear, RecRemove, RbPark, RecWrite,
         RemoveJournal, Write, Going, RecLabels
<1>3. CASE RecCheck
  <2>1. \/ Idling
        \/ tx' = tx /\ pc' \in {"rec_stop", "rec_remove"}
        \/ tx' = [tx EXCEPT !.idle = TRUE] /\ pc' = "rec_gate"
    BY <1>3, EndsIdle DEF RecCheck, Going
  <2> QED
    BY <1>0, <2>1, MoveTyped, IdleControl, PlainControl DEF Moves, RecLabels
<1>4. CASE RecTarget \/ RbSave
  <2>1. \/ Idling
        \/ \E r \in Record, i \in BOOLEAN :
              tx' = RestoreOf(r) /\ pc' = NextRestore(r, i)
    <3>1. CASE RecTarget
      BY <1>0, <3>1, EndsIdle DEF RecTarget
    <3>2. CASE RbSave
      <4> DEFINE rec == IF tx.preview THEN [tx.rec EXCEPT !.preview = Disarmed]
                                      ELSE [tx.rec EXCEPT !.source = Disarmed]
      <4>1. rec \in Record /\ tx.idle \in BOOLEAN
        BY <1>0, ConstantsTyped DEF Record, Locals
      <4>2. Idling \/ (tx' = RestoreOf(rec) /\ pc' = NextRestore(rec, tx.idle))
        BY <3>2, EndsIdle DEF RbSave, SaveJournal
      <4> HIDE DEF rec
      <4> QED
        BY <4>1, <4>2
    <3> QED
      BY <1>4, <3>1, <3>2
  <2>2. \A r \in Record, i \in BOOLEAN :
          NextRestore(r, i) \in {"rb_gate1", "rb_select", "rec_remove", "rec_mvlc"}
    BY DEF NextRestore, RestoreLabel
  <2> QED
    BY <1>0, <2>1, <2>2, RestoreOfTyped, IdleControl, PlainControl
       DEF RecLabels
<1>5. CASE RecStopped
  <2>1. [tx EXCEPT !.todo = NonTargets] \in Locals
          /\ [tx EXCEPT !.todo = NonTargets].kind = "recover"
    BY <1>0 DEF Locals
  <2> QED
    BY <1>5, <2>1, EndsIdle, IdleControl, PlainControl
       DEF RecStopped, RecLabels
<1>6. CASE RecOthers
  <2>1. \/ Idling
        \/ tx' = tx /\ tx.todo # {} /\ pc' = "rec_quiet"
        \/ tx' = RestoreOf(tx.rec) /\ pc' = NextRestore(tx.rec, FALSE)
    BY <1>6, EndsIdle DEF RecOthers, RecWrite, Write, Going
  <2>2. NextRestore(tx.rec, FALSE) \in {"rb_select", "rec_mvlc"}
    BY DEF NextRestore, RestoreLabel
  <2> QED
    BY <1>0, <2>1, <2>2, RestoreOfTyped, IdleControl, PlainControl
       DEF RecLabels
<1>7. CASE RecQuiet
  BY <1>0, <1>7, EndsIdle, HandledTyped, IdleControl, PlainControl
     DEF RecQuiet, RecLabels
<1>8. CASE RbRead \/ RbDecide \/ RbWrite \/ RbVerify
  BY <1>0, <1>8, MoveTyped, PlainControl
     DEF RbRead, RbDecide, RbWrite, RbVerify, Write, Failing, ParkLabel,
         Moves, RecLabels
<1> QED
  BY <1>1, <1>2, <1>3, <1>4, <1>5, <1>6, <1>7, <1>8 DEF RecoveryNext

\* Every command hands its operation a request of the right kind.
LEMMA CommandControl == TypeInv /\ Command => Control'
<1> SUFFICES ASSUME TypeInv, Command PROVE Control'
  OBVIOUS
<1>0. ses.quad \in Banks /\ Quads \subseteq Banks /\ mvme \in Runs
        /\ svc.pending \in Record
        /\ svc.pv.applied \in Params /\ svc.pv.original \in Params
  BY TypeFacts DEF TypeInv, TypeOK, CrateTypeOK, Session, Service, Preview,
                   Banks
<1>1. CASE StartDiagnosticAcquisition
  <2>1. PICK q \in Quads :
          /\ tx' = [[NoTx EXCEPT !.quad = q] EXCEPT !.kind = "start",
                                                    !.since = mvme]
          /\ pc' = "start_gate"
    BY <1>1 DEF StartDiagnosticAcquisition, Begin
  <2>2. tx' \in Locals /\ tx'.kind = "start"
    BY <1>0, <2>1, ConstantsTyped DEF Locals, Kinds
  <2> QED
    BY <2>1, <2>2, PlainControl DEF StartLabels
<1>2. CASE RecoverDiagnosticOrphan
  <2>1. /\ tx' = [[NoTx EXCEPT !.rec = svc.pending] EXCEPT !.kind = "recover",
                                                         !.since = mvme]
        /\ pc' = "rec_check"
    BY <1>2 DEF RecoverDiagnosticOrphan, Begin
  <2>2. tx' \in Locals /\ tx'.kind = "recover"
    BY <1>0, <2>1, ConstantsTyped DEF Locals, Kinds
  <2> QED
    BY <2>1, <2>2, PlainControl DEF RecLabels
<1>3. CASE ChangeDiagnosticSource
  <2>1. PICK s \in Sources :
          /\ tx' = [[NoTx EXCEPT !.quad = ses.quad, !.req = s]
                       EXCEPT !.kind = "source", !.since = mvme]
          /\ pc' = "src_check"
    BY <1>3 DEF ChangeDiagnosticSource, Begin
  <2>2. s \in Nat /\ 0 \in Words
    BY RequestAssumption, WordAssumption
  <2>3. /\ tx' \in Locals /\ tx'.kind = "source"
        /\ tx'.req \in Sources /\ tx'.live \in Words
    BY <1>0, <2>1, <2>2, ConstantsTyped DEF Locals, Kinds, NoTx
  <2> QED
    BY <2>1, <2>3
       DEF Control, KindOK, ValueOK, Labels, PauseLabels, ResumeLabels,
           SrcPre, SrcPost, SrcEnds, SrcrLabels, PrvLabels, PrvKinds,
           StartLabels, StopLabels, RecLabels
<1>4. ASSUME NEW k \in PrvKinds, NEW l \in Locals, l.req \in Params,
             l.live \in Params,
             tx' = [l EXCEPT !.kind = k, !.since = mvme], pc' = "prv_check"
      PROVE  Control'
  <2>1. /\ tx' \in Locals /\ tx'.kind \in PrvKinds
        /\ tx'.req \in Params /\ tx'.live \in Params
    BY <1>0, <1>4 DEF Locals, Kinds, PrvKinds
  <2> QED
    BY <1>4, <2>1
       DEF Control, KindOK, ValueOK, Labels, PauseLabels, ResumeLabels,
           SrcPre, SrcPost, SrcEnds, SrcrLabels, PrvLabels, PrvKinds,
           StartLabels, StopLabels, RecLabels
<1>5. CASE ApplyDiagnosticPreview
  <2>1. PICK p \in PreviewValues :
          /\ tx' = [[NoTx EXCEPT !.quad = ses.quad, !.req = p]
                       EXCEPT !.kind = "apply", !.since = mvme]
          /\ pc' = "prv_check"
    BY <1>5 DEF ApplyDiagnosticPreview, Begin
  <2> DEFINE l == [NoTx EXCEPT !.quad = ses.quad, !.req = p]
  <2>2. p \in Params /\ p \in Nat /\ 0 \in Params
    BY RequestAssumption, ParamAssumption
  <2>3. NoTx \in Locals /\ NoTx.live = 0
    BY ConstantsTyped DEF NoTx
  <2>4. l \in Locals /\ l.req \in Params /\ l.live \in Params
    BY <1>0, <2>2, <2>3 DEF Locals
  <2>5. tx' = [l EXCEPT !.kind = "apply", !.since = mvme] /\ "apply" \in PrvKinds
    BY <2>1 DEF PrvKinds
  <2> HIDE DEF l
  <2> QED
    BY <1>4, <2>1, <2>4, <2>5
<1>6. /\ PreviewLocals \in Locals /\ PreviewLocals.req \in Params
      /\ PreviewLocals.live \in Params
  <2>1. svc.pv.applied \in Nat /\ NoTx \in Locals
    BY <1>0, ParamAssumption, ConstantsTyped
  <2> QED
    BY <1>0, <2>1 DEF PreviewLocals, Locals, Values
<1>9. CASE RestoreDiagnosticPreview
  <2>1. /\ tx' = [PreviewLocals EXCEPT !.kind = "restore", !.since = mvme]
        /\ pc' = "prv_check" /\ "restore" \in PrvKinds
    BY <1>9 DEF RestoreDiagnosticPreview, Begin, PrvKinds
  <2> QED
    BY <1>4, <1>6, <2>1
<1>7. CASE StopDiagnosticAcquisition \/ ReleaseSession
  <2>1. ASSUME NEW rel \in BOOLEAN, StopTask(rel)
        PROVE  Control'
    <3>1. CASE Restorable
      <4> DEFINE l == [PreviewLocals EXCEPT !.release = rel]
      <4>1. l \in Locals /\ l.req \in Params /\ l.live \in Params
        BY <1>6 DEF Locals
      <4>2. /\ tx' = [l EXCEPT !.kind = "stopRestore", !.since = mvme]
            /\ pc' = "prv_check" /\ "stopRestore" \in PrvKinds
        BY <2>1, <3>1 DEF StopTask, Begin, PrvKinds
      <4> HIDE DEF l
      <4> QED
        BY <1>4, <4>1, <4>2
    <3>2. CASE ~Restorable
      <4> DEFINE left == StaleLeft
      <4>1. /\ left \in BOOLEAN
            /\ tx' = [[NoTx EXCEPT !.release = rel, !.left = left]
                         EXCEPT !.kind = "stop", !.since = mvme]
            /\ pc' = "stop_source"
        BY <2>1, <3>2 DEF StopTask, Begin, StaleLeft
      <4> HIDE DEF left
      <4>2. tx' \in Locals /\ tx'.kind = "stop"
        BY <1>0, <4>1, ConstantsTyped DEF Locals, Kinds
      <4> QED
        BY <4>1, <4>2, PlainControl DEF StopLabels
    <3> QED
      BY <3>1, <3>2
  <2>2. CASE UNCHANGED <<pc, tx>>
    BY <2>2
       DEF TypeInv, TypeOK, Control, KindOK, ValueOK
  <2> QED
    BY <1>7, <2>1, <2>2 DEF StopDiagnosticAcquisition, ReleaseSession
<1>8. CASE UNCHANGED <<pc, tx>>
  BY <1>8 DEF TypeInv, TypeOK, Control, KindOK, ValueOK
<1> QED
  BY <1>1, <1>2, <1>3, <1>5, <1>7, <1>8, <1>9
     DEF Command, CheckStatus, OpenSession, CheckDiagnosticRecoveryStatus,
         UseProject

\* Every step keeps the control part of the invariant.
LEMMA ControlStaysTyped == TypeInv /\ [Next]_vars => Control'
<1> SUFFICES ASSUME TypeInv, [Next]_vars PROVE Control'
  OBVIOUS
<1>1. CASE Operation
  BY <1>1, PauseResumeControl, SourceControl, PreviewControl, StartControl,
     StopControl, RecoveryControl DEF Operation
<1>2. CASE Command
  BY <1>2, CommandControl
<1>3. CASE Crash \/ StopWithoutTransport
  BY <1>3, IdleControl DEF Crash, StopWithoutTransport, Dies, Idling
<1>4. CASE UNCHANGED <<pc, tx>>
  BY <1>4 DEF TypeInv, TypeOK, Control, KindOK, ValueOK
<1> QED
  BY <1>1, <1>2, <1>3, <1>4 DEF Next, PollWatchdog, Launch, Mvme, vars

----------------------------------------------------------------------------
(***************************************************************************)
(*                            4. The theorem                               *)
(***************************************************************************)

\* The invariant holds when FIDGET is first launched.
LEMMA TypeInit == Init => TypeInv
<1> SUFFICES ASSUME Init PROVE TypeInv
  OBVIOUS
<1>1. CrateTypeOK
  BY DEF Init, CrateInit, CrateTypeOK, Runs
<1>2. JournalTypeOK /\ svc \in Service /\ ses \in Session /\ tx \in Locals
  BY ConstantsTyped DEF Init, JournalInit, JournalTypeOK, SessionInit
<1>3. pc = "idle" /\ tx = NoTx
  BY DEF Init, SessionInit
<1> QED
  BY <1>1, <1>2, <1>3
     DEF TypeInv, TypeOK, KindOK, ValueOK, Labels, PauseLabels, ResumeLabels,
         SrcPre, SrcPost, SrcEnds, SrcrLabels, PrvLabels, PrvKinds, NoTx,
         StartLabels, StopLabels, RecLabels

\* Every step keeps the whole inductive invariant.
LEMMA TypeStep == TypeInv /\ [Next]_vars => TypeInv'
BY RegistersTyped, HeldStaysTyped, ControlStaysTyped
   DEF HeldTyped, Control, TypeInv, TypeOK, JournalTypeOK

(***************************************************************************)
(* Every variable keeps its type, whatever the constants: no lost reply,   *)
(* failed save, crash or takeover makes an operation write a value of the  *)
(* wrong register, save a malformed record or continue at another          *)
(* operation's label (the values a source change, a preview and the        *)
(* recovery hand to WriteVmeD16, and the record they journal).             *)
(***************************************************************************)
THEOREM TypeCorrect == Spec => []TypeOK
<1>1. TypeInv => TypeOK
  BY DEF TypeInv
<1> QED
  BY <1>1, TypeInit, TypeStep, PTL DEF Spec

----------------------------------------------------------------------------
(***************************************************************************)
(* FIDGET never leaves a run of its own without a journal.                 *)
(*                                                                         *)
(* OrphanIsJournaled alone is not inductive: the three steps that make the *)
(* dangerous moves are the write of DAQ mode by Start (or by a resume) and *)
(* the removals of the journal at the end of Stop and of a recovery.       *)
(* JournalInv adds that the record is on disk whenever a session exists or *)
(* Start has passed its save, and that a removal finds no own run left.    *)
(***************************************************************************)

\* No run of FIDGET's own is in progress.
Quiet == hw.daq = 1 => hw.stack = "foreign"

\* The labels at which a session is held.
SessionLabels ==
    PauseLabels \cup ResumeLabels \cup SrcPre \cup SrcPost \cup SrcEnds
      \cup {"op_end"} \cup SrcrLabels \cup PrvLabels \cup StopLabels
\* Start's labels once its record is on disk.
JournaledLabels ==
    {"start_gate2", "start_quiesce", "start_quiet", "start_open",
     "start_stack", "start_setup", "start_trigger", "start_reset",
     "start_module", "start_daq", "start_verify", "start_activate"}

\* A session has a record in memory and on disk.
SessionJournaled ==
    HasSession => journal.phase # "None" /\ ses.rec.phase # "None"
\* So has a start, from the moment it may write to the crate.
StartJournaled ==
    pc \in JournaledLabels => journal.phase # "None" /\ tx.rec.phase # "None"
\* An operation of a session holds one.
InSession == pc \in SessionLabels => HasSession
\* A recovery works on a record.
RecoveringRecord == pc \in RecLabels => tx.rec.phase # "None"
\* The steps that remove the journal find no run of FIDGET's own; an idle
\* recovery finds none at any of its steps.
RemovesQuietly ==
    /\ pc = "stop_end" /\ ~tx.failed => Quiet
    /\ pc = "rec_remove" => Quiet
    /\ pc \in RecLabels /\ tx.idle => Quiet
    /\ pc \in {"rec_gate", "rec_target"} => tx.idle

\* The inductive strengthening of OrphanIsJournaled.
JournalInv ==
    /\ OrphanIsJournaled
    /\ SessionJournaled
    /\ StartJournaled
    /\ InSession
    /\ RecoveringRecord
    /\ RemovesQuietly

----------------------------------------------------------------------------
(***************************************************************************)
(* A step of an operation inside a session.  Because the record is on disk *)
(* before and after it, the step only has to keep the session's record and *)
(* to reach the end of Stop with no run left.                              *)
(***************************************************************************)
LEMMA SessionStep ==
    ASSUME JournalInv,
           journal'.phase # "None",
           HasSession' => ses'.rec.phase # "None",
           pc' = "idle" \/ (pc' \in SessionLabels /\ HasSession'),
           pc' = "stop_end" => tx'.failed \/ Quiet'
    PROVE  JournalInv'
BY DEF JournalInv, OrphanIsJournaled, SessionJournaled, StartJournaled,
       InSession, RecoveringRecord, RemovesQuietly, SessionLabels, PauseLabels,
       ResumeLabels, SrcPre, SrcPost, SrcEnds, SrcrLabels, PrvLabels,
       StopLabels, RecLabels, JournaledLabels

\* While an operation of a session runs, its record is on disk.
LEMMA InsideSession ==
    ASSUME TypeInv, JournalInv, pc \in SessionLabels
    PROVE  HasSession /\ journal.phase # "None" /\ ses.rec.phase # "None"
BY DEF JournalInv, InSession, SessionJournaled

\* Return leaves the session it is given, or (ReleaseSession) none.
LEMMA ReturnSession ==
    \A s, v : Return(s, v) => ses' \in {s, NoSession} /\ pc' = "idle"
BY DEF Return

\* The absent session has no state.
LEMMA NoSessionState == NoSession.state = "None"
BY DEF NoSession

\* Pausing and resuming leave journal and session alone.
LEMMA PauseResumeJournaled ==
    TypeInv /\ JournalInv /\ PauseResumeNext => JournalInv'
<1> SUFFICES ASSUME TypeInv, JournalInv, PauseResumeNext PROVE JournalInv'
  OBVIOUS
<1>1. /\ pc \in PauseLabels \cup ResumeLabels
      /\ pc \in PauseLabels =>
           pc' \in PauseLabels \cup {PausedLabel[tx.kind], NotPausedLabel[tx.kind]}
      /\ pc \in ResumeLabels => pc' \in ResumeLabels \cup {ResumedLabel[tx.kind]}
      /\ UNCHANGED <<journal, ses>>
  BY DEF PauseResumeNext, PauseModule, PauseDaq, PauseVerify, ResumeModule,
         ResumeDaq, ResumeVerify, Write, NotPaused, Failing, PauseLabels,
         ResumeLabels, HardwareOnly
<1>2. pc' \in SessionLabels \ StopLabels
  BY <1>1
     DEF TypeInv, KindOK, PrvKinds, PausedLabel, NotPausedLabel, ResumedLabel,
         SessionLabels, PauseLabels, ResumeLabels, SrcPre, SrcPost, SrcEnds,
         SrcrLabels, PrvLabels, StopLabels
<1>3. HasSession /\ journal.phase # "None" /\ ses.rec.phase # "None"
  BY <1>1, InsideSession DEF SessionLabels
<1> QED
  BY <1>1, <1>2, <1>3, SessionStep DEF HasSession, StopLabels

\* A source operation replaces the record by one of the same phase.
LEMMA SourceJournaled == TypeInv /\ JournalInv /\ SourceNext => JournalInv'
<1> SUFFICES ASSUME TypeInv, JournalInv, SourceNext PROVE JournalInv'
  OBVIOUS
<1>1. HasSession /\ journal.phase # "None" /\ ses.rec.phase # "None"
  <2>1. pc \in SessionLabels
    BY DEF SourceNext, SrcCheck, SrcSelect, SrcRead, SrcArm, SrcWrite,
           SrcVerify, SrcRollback, SrcRolled, SrcPark, SrcDisarm, SrcEnd,
           OpEnd, SrcrCheck, SrcrSelect, SrcrWrite, SrcrVerify, SrcrPark,
           SrcrDisarm, SrcrEnd, SessionLabels, SrcPre, SrcPost, SrcEnds,
           SrcrLabels
  <2> QED
    BY <2>1, InsideSession
<1>2. CASE SrcCheck \/ SrcrCheck \/ OpEnd
  <2>1. /\ UNCHANGED journal
        /\ \/ ses' \in {ForeignSession, ses, NoSession} /\ pc' = "idle"
           \/ UNCHANGED ses /\ pc' = "pause_module"
    BY <1>2, ReturnSession DEF SrcCheck, SrcrCheck, OpEnd, Frozen
  <2>2. HasSession' => ses'.rec.phase # "None"
    BY <1>1, <2>1, TypeFacts, NoSessionState
       DEF HasSession, ForeignSession, Session
  <2>3. pc' = "idle" \/ (pc' \in SessionLabels /\ HasSession')
    BY <1>1, <2>1 DEF HasSession, SessionLabels, PauseLabels
  <2> QED
    BY <1>1, <2>1, <2>2, <2>3, SessionStep
<1>3. CASE SrcArm \/ SrcDisarm \/ SrcrDisarm
  <2>1. PICK e : LET rec == [ses.rec EXCEPT !.source = e]
                 IN  /\ journal' \in {journal, rec}
                     /\ ses' \in {ses, [ses EXCEPT !.rec = rec]}
                     /\ pc' \in {"src_write", "src_park", "src_end", "srcr_end"}
    BY <1>3
       DEF SrcArm, SrcDisarm, SrcrDisarm, SaveSourceRecoveryState, SaveJournal,
           Failing
  <2>2. [ses.rec EXCEPT !.source = e].phase # "None"
    BY <1>1, TypeFacts DEF Session, Record
  <2>3. /\ journal'.phase # "None" /\ ses'.rec.phase # "None"
        /\ HasSession'
    BY <1>1, <2>1, <2>2, TypeFacts DEF Session, HasSession
  <2> QED
    BY <2>1, <2>3, SessionStep
       DEF SessionLabels, SrcPost, SrcEnds, SrcrLabels
<1>4. CASE \/ SrcSelect \/ SrcRead \/ SrcWrite \/ SrcVerify \/ SrcRollback
          \/ SrcRolled \/ SrcPark \/ SrcEnd
  <2>1. /\ UNCHANGED <<journal, ses>>
        /\ pc' \in SrcPre \cup SrcPost \cup SrcEnds
                     \cup {"resume_module", "op_end"}
    BY <1>4
       DEF SrcSelect, SrcRead, SrcWrite, SrcVerify, SrcRollback, SrcRolled,
           SrcPark, SrcEnd, Write, Failing, HardwareOnly, SrcPre, SrcPost,
           SrcEnds
  <2> QED
    BY <1>1, <2>1, SessionStep
       DEF HasSession, SessionLabels, SrcPre, SrcPost, SrcEnds, ResumeLabels
<1>5. CASE SrcrSelect \/ SrcrWrite \/ SrcrVerify \/ SrcrPark \/ SrcrEnd
  <2>1. /\ UNCHANGED <<journal, ses>>
        /\ pc' \in SrcrLabels \cup {"stop_module", "stop_check"}
    BY <1>5
       DEF SrcrSelect, SrcrWrite, SrcrVerify, SrcrPark, SrcrEnd, Write,
           Failing, HardwareOnly, SrcrLabels
  <2> QED
    BY <1>1, <2>1, SessionStep
       DEF HasSession, SessionLabels, SrcrLabels, StopLabels
<1> QED
  BY <1>2, <1>3, <1>4, <1>5 DEF SourceNext

\* A preview operation replaces the record by one of the same phase.
LEMMA PreviewJournaled == TypeInv /\ JournalInv /\ PreviewNext => JournalInv'
<1> SUFFICES ASSUME TypeInv, JournalInv, PreviewNext PROVE JournalInv'
  OBVIOUS
<1>1. HasSession /\ journal.phase # "None" /\ ses.rec.phase # "None"
  <2>1. pc \in SessionLabels
    BY DEF PreviewNext, PrvCheck, PrvSelect, PrvRead, PrvArm, PrvWrite,
           PrvVerify, PrvRollback, PrvRolled, PrvPark, PrvDisarm, PrvSettle,
           PrvEnd, SessionLabels, PrvLabels
  <2> QED
    BY <2>1, InsideSession
<1>2. CASE PrvCheck \/ PrvEnd
  <2>1. /\ UNCHANGED journal
        /\ \/ ses' \in {ForeignSession, ses, NoSession} /\ pc' = "idle"
           \/ UNCHANGED ses /\ pc' \in {"pause_module", "stop_source"}
    BY <1>2, ReturnSession DEF PrvCheck, PrvEnd, Frozen
  <2>2. HasSession' => ses'.rec.phase # "None"
    BY <1>1, <2>1, TypeFacts, NoSessionState
       DEF HasSession, ForeignSession, Session
  <2>3. pc' = "idle" \/ (pc' \in SessionLabels /\ HasSession')
    BY <1>1, <2>1 DEF HasSession, SessionLabels, PauseLabels, StopLabels
  <2> QED
    BY <1>1, <2>1, <2>2, <2>3, SessionStep
<1>3. CASE PrvArm \/ PrvDisarm
  <2>1. PICK e : LET rec == [ses.rec EXCEPT !.preview = e]
                 IN  /\ journal' \in {journal, rec}
                     /\ ses' \in {ses, [ses EXCEPT !.rec = rec]}
                     /\ pc' \in {"prv_write", "prv_park", "prv_settle"}
    BY <1>3
       DEF PrvArm, PrvDisarm, SavePreviewRecoveryState, SaveJournal, Failing
  <2>2. [ses.rec EXCEPT !.preview = e].phase # "None"
    BY <1>1, TypeFacts DEF Session, Record
  <2>3. /\ journal'.phase # "None" /\ ses'.rec.phase # "None"
        /\ HasSession'
    BY <1>1, <2>1, <2>2, TypeFacts DEF Session, HasSession
  <2> QED
    BY <2>1, <2>3, SessionStep DEF SessionLabels, PrvLabels
<1>4. CASE \/ PrvSelect \/ PrvRead \/ PrvWrite \/ PrvVerify \/ PrvRollback
          \/ PrvRolled \/ PrvPark \/ PrvSettle
  <2>1. /\ UNCHANGED <<journal, ses>>
        /\ pc' \in PrvLabels \cup {"resume_module"}
    BY <1>4
       DEF PrvSelect, PrvRead, PrvWrite, PrvVerify, PrvRollback, PrvRolled,
           PrvPark, PrvSettle, Write, Failing, Unverified, HardwareOnly,
           PrvLabels
  <2> QED
    BY <1>1, <2>1, SessionStep
       DEF HasSession, SessionLabels, PrvLabels, ResumeLabels
<1> QED
  BY <1>2, <1>3, <1>4 DEF PreviewNext

\* Stop removes the record only after the MVLC has been read back as clear.
LEMMA StopJournaled == TypeInv /\ JournalInv /\ StopNext => JournalInv'
<1> SUFFICES ASSUME TypeInv, JournalInv, StopNext PROVE JournalInv'
  OBVIOUS
<1>1. HasSession /\ journal.phase # "None" /\ ses.rec.phase # "None"
  <2>1. pc \in SessionLabels
    BY DEF StopNext, StopSource, StopCheck, StopModule, StopStopped,
           StopOthers, StopOther, StopQuiet, StopMvlc, StopClear, StopEnd,
           SessionLabels, StopLabels
  <2> QED
    BY <2>1, InsideSession
<1>2. CASE \/ StopSource \/ StopModule \/ StopStopped \/ StopOthers
          \/ StopOther
  <2>1. /\ UNCHANGED <<journal, ses>>
        /\ pc' \in (StopLabels \ {"stop_end"}) \cup SrcrLabels
    BY <1>2
       DEF StopSource, StopModule, StopStopped, StopOthers, StopOther, Write,
           HardwareOnly, StopLabels, SrcrLabels
  <2> QED
    BY <1>1, <2>1, SessionStep
       DEF HasSession, SessionLabels, StopLabels, SrcrLabels
<1>3. CASE StopQuiet
  <2>1. /\ UNCHANGED journal
        /\ pc' = "stop_others"
        /\ \E r : ses' = [ses EXCEPT !.reset = r] \/ ses' = ses
    BY <1>3 DEF StopQuiet
  <2>2. ses'.rec = ses.rec /\ ses'.state = ses.state
    BY <2>1, TypeFacts DEF Session
  <2> QED
    BY <1>1, <2>1, <2>2, SessionStep DEF HasSession, SessionLabels, StopLabels
<1>4. CASE StopMvlc
  <2>1. /\ UNCHANGED <<journal, ses>>
        /\ \/ pc' = "stop_clear"
           \/ pc' = "stop_end" /\ tx' = [tx EXCEPT !.failed = TRUE]
    BY <1>4 DEF StopMvlc, Write, Failing, HardwareOnly
  <2>2. pc' = "stop_end" => tx'.failed
    BY <2>1, TypeFacts DEF Locals
  <2> QED
    BY <1>1, <2>1, <2>2, SessionStep DEF HasSession, SessionLabels, StopLabels
<1>5. CASE StopClear
  <2>1. /\ UNCHANGED <<journal, ses>>
        /\ pc' = "stop_end"
        /\ \/ hw' = hw /\ hw.daq = 0
           \/ tx' = [tx EXCEPT !.failed = TRUE]
    BY <1>5 DEF StopClear, HardwareOnly
  <2>2. tx'.failed \/ Quiet'
    BY <2>1, TypeFacts DEF Locals, Quiet
  <2> QED
    BY <1>1, <2>1, <2>2, SessionStep DEF HasSession, SessionLabels, StopLabels
<1>6. CASE StopCheck
  <2>1. /\ UNCHANGED journal
        /\ \/ UNCHANGED ses /\ pc' = "stop_module"
           \/ /\ ses' \in {ForeignSession, NoSession,
                           [ses EXCEPT !.state = "Failed", !.orphan = TRUE]}
              /\ pc' = "idle"
    BY <1>6, ReturnSession DEF StopCheck, StopResult, Frozen
  <2>2. HasSession' => ses'.rec.phase # "None"
    BY <1>1, <2>1, TypeFacts, NoSessionState
       DEF HasSession, ForeignSession, Session
  <2> QED
    BY <1>1, <2>1, <2>2, SessionStep DEF HasSession, SessionLabels, StopLabels
<1>7. CASE StopEnd
  <2>1. /\ pc' = "idle"
        /\ UNCHANGED hw
        /\ \/ /\ UNCHANGED journal
              /\ ses' \in {NoSession,
                           [ses EXCEPT !.state = "Failed", !.orphan = TRUE],
                           [ses EXCEPT !.state = "Failed"]}
           \/ pc = "stop_end" /\ ~tx.failed /\ ses' = NoSession
    BY <1>7, ReturnSession
       DEF StopEnd, StopResult, RemoveJournal
  <2>2. CASE UNCHANGED journal /\ ses' # NoSession
    <3>1. HasSession' => ses'.rec.phase # "None"
      BY <1>1, <2>1, <2>2, TypeFacts, NoSessionState DEF HasSession, Session
    <3> QED
      BY <1>1, <2>1, <2>2, <3>1, SessionStep
  <2>3. CASE UNCHANGED journal /\ ses' = NoSession
    BY <1>1, <2>1, <2>3, SessionStep, NoSessionState DEF HasSession
  <2>4. CASE pc = "stop_end" /\ ~tx.failed /\ ses' = NoSession
    <3>1. Quiet'
      BY <2>1, <2>4 DEF JournalInv, RemovesQuietly, Quiet
    <3> QED
      BY <2>1, <2>4, <3>1, NoSessionState
         DEF JournalInv, OrphanIsJournaled, SessionJournaled, StartJournaled,
             InSession, RecoveringRecord, RemovesQuietly, HasSession, Quiet,
             SessionLabels, PauseLabels, ResumeLabels, SrcPre, SrcPost,
             SrcEnds, SrcrLabels, PrvLabels, StopLabels, RecLabels,
             JournaledLabels
  <2> QED
    BY <2>1, <2>2, <2>3, <2>4
<1> QED
  BY <1>2, <1>3, <1>4, <1>5, <1>6, <1>7 DEF StopNext

----------------------------------------------------------------------------
(***************************************************************************)
(* A step of Start.  Until the record is on disk nothing is written to the *)
(* crate; from then on every way out of Start keeps the record.            *)
(***************************************************************************)
LEMMA StartStep ==
    ASSUME JournalInv,
           OrphanIsJournaled',
           SessionJournaled',
           \/ pc' \in {"idle", "start_probe", "start_journal"}
           \/ /\ pc' \in JournaledLabels
              /\ journal'.phase # "None" /\ tx'.rec.phase # "None"
    PROVE  JournalInv'
BY DEF JournalInv, StartJournaled, InSession, RecoveringRecord,
       RemovesQuietly, SessionLabels, PauseLabels, ResumeLabels, SrcPre,
       SrcPost, SrcEnds, SrcrLabels, PrvLabels, StopLabels, RecLabels,
       JournaledLabels

\* A step after the record is on disk: journal and record keep their phase.
LEMMA JournaledStart ==
    ASSUME JournalInv,
           journal'.phase # "None",
           \/ /\ pc' = "idle"
              /\ HasSession' => ses'.rec.phase # "None"
           \/ /\ ses' = ses
              /\ pc' \in JournaledLabels
              /\ tx'.rec.phase # "None"
    PROVE  JournalInv'
<1>1. OrphanIsJournaled' /\ SessionJournaled'
  BY DEF OrphanIsJournaled, SessionJournaled, JournalInv, HasSession
<1> QED
  BY <1>1, StartStep

\* A failed start keeps its record with the session.
LEMMA StartFailedSession ==
    \A rec : rec.phase # "None" /\ StartFailed(rec) =>
        pc' = "idle" /\ (HasSession' => ses'.rec.phase # "None")
BY ReturnSession, NoSessionState DEF StartFailed, HasSession

\* A start that fails during preparation keeps no session.
LEMMA NotPreparedSession ==
    \A v : NotPrepared(v) \/ PreparedOrphan(v) => pc' = "idle" /\ ~HasSession'
BY ReturnSession, NoSessionState DEF NotPrepared, PreparedOrphan, HasSession

\* Start touches the crate only once its record is on disk.
LEMMA StartKeepsJournal == TypeInv /\ JournalInv /\ StartNext => JournalInv'
<1> SUFFICES ASSUME TypeInv, JournalInv, StartNext PROVE JournalInv'
  OBVIOUS
<1>1. CASE StartGate \/ StartProbe
  <2>1. /\ UNCHANGED <<hw, journal>>
        /\ \/ UNCHANGED ses /\ pc' \in {"start_probe", "start_journal"}
           \/ pc' = "idle" /\ ~HasSession'
    BY <1>1, NotPreparedSession DEF StartGate, StartProbe, Frozen
  <2>2. OrphanIsJournaled' /\ SessionJournaled'
    BY <2>1 DEF JournalInv, OrphanIsJournaled, SessionJournaled, HasSession
  <2> QED
    BY <2>1, <2>2, StartStep
<1>2. CASE StartJournal
  <2>1. PreparedRecord.phase = "Prepared"
    BY DEF PreparedRecord
  <2>2. /\ UNCHANGED hw
        /\ \/ /\ journal' = PreparedRecord /\ UNCHANGED ses
              /\ pc' = "start_gate2"
              /\ tx' = [tx EXCEPT !.rec = PreparedRecord]
           \/ /\ journal' \in {journal, PreparedRecord}
              /\ pc' = "idle" /\ ~HasSession'
    BY <1>2, NotPreparedSession DEF StartJournal, SaveJournal
  <2>3. CASE UNCHANGED ses /\ pc' = "start_gate2"
                /\ tx' = [tx EXCEPT !.rec = PreparedRecord]
                /\ journal' = PreparedRecord
    <3>1. tx'.rec.phase # "None"
      BY <2>1, <2>3, TypeFacts DEF Locals
    <3> QED
      BY <2>1, <2>3, <3>1, JournaledStart DEF JournaledLabels
  <2>4. CASE journal' \in {journal, PreparedRecord}
                /\ pc' = "idle" /\ ~HasSession'
    <3>1. OrphanIsJournaled' /\ SessionJournaled'
      BY <2>1, <2>2, <2>4 DEF JournalInv, OrphanIsJournaled, SessionJournaled
    <3> QED
      BY <2>4, <3>1, StartStep
  <2> QED
    BY <2>2, <2>3, <2>4
<1>3. CASE ~(StartGate \/ StartProbe \/ StartJournal)
  <2>1. journal.phase # "None" /\ tx.rec.phase # "None"
    <3>1. pc \in JournaledLabels
      BY <1>3
         DEF StartNext, StartGate2, StartQuiesce, StartQuiet, StartOpen,
             StartStack, StartSetup, StartTrigger, StartReset, StartModule,
             StartDaq, StartVerify, StartActivate, StartWrite,
             JournaledLabels
    <3> QED
      BY <3>1 DEF JournalInv, StartJournaled
  <2>2. CASE StartGate2 \/ StartQuiesce \/ StartQuiet
    <3>1. /\ UNCHANGED journal
          /\ \/ pc' = "idle" /\ ~HasSession'
             \/ /\ UNCHANGED ses
                /\ pc' \in JournaledLabels
                /\ \E t, f : tx' \in {tx, [tx EXCEPT !.todo = t],
                               [[tx EXCEPT !.todo = t] EXCEPT !.failed = f]}
      BY <2>2, NotPreparedSession
         DEF StartGate2, StartQuiesce, StartQuiet, Write, Handled, Frozen,
             HardwareOnly, JournaledLabels
    <3>2. pc' = "idle" \/ tx'.rec = tx.rec
      BY <3>1, TypeFacts DEF Locals
    <3> QED
      BY <2>1, <3>1, <3>2, JournaledStart DEF JournaledLabels
  <2>3. CASE \/ StartOpen \/ StartStack \/ StartSetup \/ StartTrigger
            \/ StartReset \/ StartModule \/ StartDaq \/ StartVerify
    <3>1. /\ UNCHANGED journal
          /\ \/ StartFailed(tx.rec)
             \/ UNCHANGED <<ses, tx>> /\ pc' \in JournaledLabels
      BY <2>3
         DEF StartOpen, StartStack, StartSetup, StartTrigger, StartReset,
             StartModule, StartDaq, StartVerify, StartWrite, Write, Frozen,
             JournaledLabels
    <3> QED
      BY <2>1, <3>1, StartFailedSession, JournaledStart
  <2>4. CASE StartActivate
    <3> DEFINE rec == [tx.rec EXCEPT !.phase = "Active"]
               Running == [state |-> "Running", foreign |-> FALSE,
                           orphan |-> FALSE, rec |-> rec, quad |-> tx.quad,
                           reset |-> NonTargets]
    <3>1. rec.phase = "Active"
      BY TypeFacts DEF Locals, Record
    <3> HIDE DEF rec
    <3>2. /\ journal' \in {journal, rec}
          /\ \/ StartFailed(rec)
             \/ /\ pc' = "idle"
                /\ ses' \in {NoSession, Running}
      BY <2>4, ReturnSession DEF StartActivate, SaveJournal, rec
    <3>3. pc' = "idle" /\ (HasSession' => ses'.rec.phase # "None")
      BY <3>1, <3>2, StartFailedSession, NoSessionState
         DEF HasSession
    <3> QED
      BY <2>1, <3>1, <3>2, <3>3, JournaledStart
  <2> QED
    BY <1>3, <2>2, <2>3, <2>4 DEF StartNext
<1> QED
  BY <1>1, <1>2, <1>3

----------------------------------------------------------------------------
(***************************************************************************)
(* A step of a recovery.  It never starts a run (Tame), and its record     *)
(* stays a record, so the journal it saves is one.                         *)
(***************************************************************************)
Tame == hw'.daq = 0 \/ (hw'.daq = hw.daq /\ hw'.stack = hw.stack)

\* The writes of a recovery are tame.
LEMMA RecoveryWrites ==
    ASSUME hw \in Hardware
    PROVE  /\ UNCHANGED hw => Tame
           /\ \A v : hw' = SetRun(v) => Tame
           /\ \A v : hw' = Select(v) => Tame
           /\ \A v : hw' = SetBanked(v) => Tame
           /\ \A m, v : hw' = SetOther(m, v) => Tame
           /\ hw' = ClearMvlc => Tame
BY DEF Hardware, Tame, SetRun, Select, SetBanked, SetSample, SetParam,
       SetOther, ClearMvlc

\* A recovery step that writes tamely and keeps a record keeps the
\* invariant.
LEMMA RecoveryStep ==
    ASSUME JournalInv, pc \in RecLabels, Tame, UNCHANGED ses,
           journal'.phase # "None" \/ UNCHANGED journal,
           \/ pc' = "idle"
           \/ /\ pc' \in RecLabels
              /\ tx'.rec.phase # "None"
              /\ tx'.idle => tx.idle \/ hw'.daq = 0
              /\ pc' = "rec_remove" => tx.idle \/ hw'.daq = 0
              /\ pc' \in {"rec_gate", "rec_target"} => tx'.idle
    PROVE  JournalInv'
<1>1. OrphanIsJournaled' /\ SessionJournaled'
  BY DEF JournalInv, OrphanIsJournaled, SessionJournaled, HasSession, Tame
<1>2. tx.idle \/ hw'.daq = 0 => Quiet'
  BY DEF JournalInv, RemovesQuietly, Quiet, Tame
<1>3. StartJournaled' /\ InSession' /\ RecoveringRecord'
  BY DEF StartJournaled, InSession, RecoveringRecord, SessionLabels,
         PauseLabels, ResumeLabels, SrcPre, SrcPost, SrcEnds, SrcrLabels,
         PrvLabels, StopLabels, RecLabels, JournaledLabels
<1>4. RemovesQuietly'
  BY <1>2 DEF RemovesQuietly, RecLabels
<1> QED
  BY <1>1, <1>3, <1>4 DEF JournalInv

\* A failed recovery ends and keeps the session.
LEMMA RecFails == RecFail => pc' = "idle" /\ UNCHANGED ses
BY DEF RecFail

\* Recovery removes the record only with no run of its own left.
LEMMA RecoveryJournaled ==
    TypeInv /\ JournalInv /\ RecoveryNext => JournalInv'
<1> SUFFICES ASSUME TypeInv, JournalInv, RecoveryNext PROVE JournalInv'
  OBVIOUS
<1>1. pc \in RecLabels /\ tx.rec.phase # "None"
  <2>1. pc \in RecLabels
    BY DEF RecoveryNext, RecCheck, RecGate, RecTarget, RecStop, RecStopped,
           RecOthers, RecQuiet, RbGate1, RbSelect, RbRead, RbGate2, RbDecide,
           RbWrite, RbVerify, RbGate3, RbPark, RbSave, RecMvlc, RecClear,
           RecRemove, IdleGate, RecWrite, RecLabels
  <2> QED
    BY <2>1 DEF JournalInv, RecoveringRecord
<1>2. hw \in Hardware /\ tx \in Locals
  BY TypeFacts
<1>3. CASE RecCheck
  <2>1. /\ UNCHANGED <<hw, journal>>
        /\ \/ pc' = "idle" /\ UNCHANGED ses
           \/ pc' = "rec_stop" /\ UNCHANGED <<tx, ses>>
           \/ pc' = "rec_remove" /\ UNCHANGED <<tx, ses>> /\ hw.daq = 0
           \/ /\ pc' = "rec_gate" /\ UNCHANGED ses /\ hw.daq = 0
              /\ tx' = [tx EXCEPT !.idle = TRUE]
    BY <1>3, RecFails DEF RecCheck, Frozen, Going, Verdict
  <2>2. pc' = "rec_gate" => tx'.idle /\ tx'.rec = tx.rec
    BY <1>2, <2>1 DEF Locals
  <2> QED
    BY <1>1, <1>2, <2>1, <2>2, RecoveryWrites, RecoveryStep DEF RecLabels
<1>4. CASE RecGate \/ RbGate1 \/ RbGate2 \/ RbGate3 \/ RecClear
  <2>1. /\ UNCHANGED <<hw, journal, ses>>
        /\ \/ pc' = "idle"
           \/ /\ UNCHANGED tx
              /\ \/ pc' = "rec_target" /\ pc = "rec_gate"
                 \/ pc' \in {"rb_select", "rb_decide", "rb_park"}
                 \/ pc' = "rec_remove" /\ hw.daq = 0
    BY <1>4, RecFails
       DEF RecGate, RbGate1, RbGate2, RbGate3, RecClear, IdleGate, Frozen,
           Going
  <2>2. pc = "rec_gate" => tx.idle
    BY DEF JournalInv, RemovesQuietly
  <2> QED
    BY <1>1, <1>2, <2>1, <2>2, RecoveryWrites, RecoveryStep DEF RecLabels
<1>5. CASE RecTarget \/ (RecOthers /\ tx.todo = {})
  <2>1. /\ UNCHANGED <<hw, journal, ses>>
        /\ \/ pc' = "idle"
           \/ /\ tx' = RestoreOf(tx.rec)
              /\ \/ pc = "rec_target" /\ pc' \in {"rb_gate1", "rec_remove"}
                 \/ pc' \in {"rb_select", "rec_mvlc"}
    BY <1>5, RecFails
       DEF RecTarget, RecOthers, Frozen, NextRestore, RestoreLabel
  <2>2. pc = "rec_target" => tx.idle
    BY DEF JournalInv, RemovesQuietly
  <2>3. RestoreOf(tx.rec).rec = tx.rec /\ RestoreOf(tx.rec).idle = tx.idle
    BY <1>2 DEF RestoreOf, Locals
  <2> QED
    BY <1>1, <1>2, <2>1, <2>2, <2>3, RecoveryWrites, RecoveryStep
       DEF RecLabels
<1>6. CASE \/ RecStop \/ RbSelect \/ RecMvlc \/ (RecOthers /\ tx.todo # {})
          \/ RbPark
  <2>1. /\ UNCHANGED <<journal, ses>>
        /\ \/ pc' = "idle"
           \/ /\ UNCHANGED tx
              /\ pc' \in {"rec_stopped", "rb_read", "rec_clear", "rec_quiet",
                          "rb_save"}
    BY <1>6, RecFails
       DEF RecStop, RbSelect, RecMvlc, RecOthers, RbPark, RecWrite, Write,
           Going
  <2>2. Tame
    BY <1>2, <1>6, RecoveryWrites
       DEF RecStop, RbSelect, RecMvlc, RecOthers, RbPark, RecWrite, Write
  <2> QED
    BY <1>1, <2>1, <2>2, RecoveryStep DEF RecLabels
<1>7. CASE \/ RecStopped \/ RecQuiet \/ RbRead \/ RbDecide \/ RbWrite
          \/ RbVerify
  <2>1. /\ UNCHANGED <<journal, ses>>
        /\ \/ pc' = "idle"
           \/ /\ pc' \in {"rec_others", "rb_gate2", "rb_decide", "rb_write",
                          "rb_gate3", "rb_park", "rb_verify"}
              /\ \E t : tx' \in {tx, [tx EXCEPT !.todo = t],
                                 [tx EXCEPT !.attempted = TRUE],
                                 [tx EXCEPT !.failed = TRUE]}
    BY <1>7, RecFails
       DEF RecStopped, RecQuiet, RbRead, RbDecide, RbWrite, RbVerify, Write,
           Handled, Failing, Frozen, HardwareOnly, ParkLabel
  <2>2. pc' = "idle" \/ (tx'.rec = tx.rec /\ tx'.idle = tx.idle)
    BY <1>2, <2>1 DEF Locals
  <2>3. Tame
    BY <1>2, <1>7, RecoveryWrites
       DEF RecStopped, RecQuiet, RbRead, RbDecide, RbWrite, RbVerify, Write,
           Frozen
  <2> QED
    BY <1>1, <2>1, <2>2, <2>3, RecoveryStep DEF RecLabels
<1>8. CASE RbSave
  <2>1. PICK rec \in {[tx.rec EXCEPT !.preview = Disarmed],
                      [tx.rec EXCEPT !.source = Disarmed]} :
           /\ UNCHANGED <<hw, ses>>
           /\ journal' \in {journal, rec}
           /\ \/ pc' = "idle"
              \/ tx' = RestoreOf(rec) /\ pc' = NextRestore(rec, tx.idle)
    BY <1>8, RecFails DEF RbSave, SaveJournal
  <2>2. rec.phase # "None"
    BY <1>1, <1>2, <2>1 DEF Locals, Record
  <2>3. RestoreOf(rec).rec = rec /\ RestoreOf(rec).idle = tx.idle
    BY <1>2 DEF RestoreOf, Locals
  <2>4. /\ NextRestore(rec, tx.idle)
             \in {"rb_gate1", "rb_select", "rec_remove", "rec_mvlc"}
        /\ NextRestore(rec, tx.idle) = "rec_remove" => tx.idle
    BY DEF NextRestore, RestoreLabel
  <2> QED
    BY <1>1, <1>2, <2>1, <2>2, <2>3, <2>4, RecoveryWrites, RecoveryStep
       DEF RecLabels
<1>9. CASE RecRemove
  <2>1. /\ UNCHANGED hw /\ pc' = "idle"
        /\ \/ UNCHANGED <<journal, ses>>
           \/ ses' = NoSession
    BY <1>9, RecFails DEF RecRemove, RemoveJournal, RecDone
  <2>2. Quiet'
    BY <1>9, <2>1 DEF RecRemove, JournalInv, RemovesQuietly, Quiet
  <2>3. OrphanIsJournaled' /\ SessionJournaled'
    BY <2>1, <2>2, NoSessionState
       DEF JournalInv, OrphanIsJournaled, SessionJournaled, HasSession, Quiet
  <2> QED
    BY <2>1, <2>3, StartStep
<1> QED
  BY <1>3, <1>4, <1>5, <1>6, <1>7, <1>8, <1>9
     DEF RecoveryNext

----------------------------------------------------------------------------
(***************************************************************************)
(* Steps outside the operations: nothing changes on the crate or on disk,  *)
(* a session is kept or dropped, and an operation is begun only where its  *)
(* record exists.                                                          *)
(***************************************************************************)
LEMMA QuietJournaled ==
    ASSUME JournalInv, Frozen,
           HasSession' => HasSession /\ ses'.rec = ses.rec,
           \/ UNCHANGED <<pc, tx>> /\ (HasSession => HasSession')
           \/ pc' \in {"idle", "start_gate"}
           \/ pc' \in {"src_check", "prv_check", "stop_source"} /\ HasSession'
           \/ pc' = "rec_check" /\ tx'.rec.phase # "None" /\ ~tx'.idle
    PROVE  JournalInv'
<1>1. OrphanIsJournaled' /\ SessionJournaled'
  BY DEF JournalInv, OrphanIsJournaled, SessionJournaled, Frozen
<1>2. CASE UNCHANGED <<pc, tx>> /\ (HasSession => HasSession')
  BY <1>1, <1>2
     DEF JournalInv, StartJournaled, InSession, RecoveringRecord,
         RemovesQuietly, Quiet, Frozen
<1>3. CASE pc' \in {"idle", "start_gate", "src_check", "prv_check",
                    "stop_source", "rec_check"}
            /\ (pc' \in {"src_check", "prv_check", "stop_source"}
                  => HasSession')
            /\ (pc' = "rec_check" => tx'.rec.phase # "None" /\ ~tx'.idle)
  BY <1>1, <1>3
     DEF JournalInv, StartJournaled, InSession, RecoveringRecord,
         RemovesQuietly, SessionLabels, PauseLabels, ResumeLabels, SrcPre,
         SrcPost, SrcEnds, SrcrLabels, PrvLabels, StopLabels, RecLabels,
         JournaledLabels
<1> QED
  BY <1>2, <1>3

\* Commands, watchdog, crashes and launches keep the invariant.
LEMMA CommandJournaled ==
    /\ TypeInv /\ JournalInv
    /\ Command \/ PollWatchdog \/ Crash \/ StopWithoutTransport \/ Launch
    => JournalInv'
<1> SUFFICES ASSUME TypeInv, JournalInv,
                    \/ Command \/ PollWatchdog \/ Crash
                    \/ StopWithoutTransport \/ Launch
             PROVE  JournalInv'
  OBVIOUS
<1>0. Frozen
  BY QuietSteps
<1>1. CASE \/ CheckStatus \/ OpenSession \/ CheckDiagnosticRecoveryStatus
          \/ UseProject \/ Launch
  <2>1. UNCHANGED <<ses, pc, tx>>
    BY <1>1
       DEF CheckStatus, OpenSession, CheckDiagnosticRecoveryStatus,
           UseProject, Launch
  <2> QED
    BY <1>0, <2>1, QuietJournaled DEF HasSession
<1>2. CASE Crash \/ StopWithoutTransport
  <2>1. ses' = NoSession /\ pc' = "idle"
    BY <1>2 DEF Crash, StopWithoutTransport, Dies
  <2> QED
    BY <1>0, <2>1, QuietJournaled, NoSessionState DEF HasSession
<1>3. CASE PollWatchdog
  <2>1. pc' = "idle" /\ ses' \in {ses, ForeignSession}
    BY <1>3 DEF PollWatchdog, Idle
  <2>2. CASE ses' = ses
    BY <1>0, <2>1, <2>2, QuietJournaled DEF HasSession
  <2>3. CASE ses' = ForeignSession /\ HasSession
    <3>1. ses'.rec = ses.rec
      BY <2>3, TypeFacts DEF ForeignSession, Session
    <3> QED
      BY <1>0, <2>1, <2>3, <3>1, QuietJournaled
  <2> QED
    BY <1>3, <2>2, <2>3 DEF PollWatchdog
<1>4. CASE \/ StartDiagnosticAcquisition \/ ChangeDiagnosticSource
          \/ ApplyDiagnosticPreview \/ RestoreDiagnosticPreview
          \/ StopDiagnosticAcquisition \/ StopTask(TRUE)
  <2>1. /\ UNCHANGED ses
        /\ \/ pc' = "start_gate"
           \/ pc' \in {"src_check", "prv_check", "stop_source"} /\ HasSession
    BY <1>4
       DEF StartDiagnosticAcquisition, ChangeDiagnosticSource,
           ApplyDiagnosticPreview, RestoreDiagnosticPreview,
           StopDiagnosticAcquisition, StopTask, Begin, Acquiring, Restorable,
           Stoppable
  <2> QED
    BY <1>0, <2>1, QuietJournaled DEF HasSession
<1>5. CASE RecoverDiagnosticOrphan
  <2>1. /\ UNCHANGED ses /\ pc' = "rec_check"
        /\ tx' = [[NoTx EXCEPT !.rec = svc.pending]
                     EXCEPT !.kind = "recover", !.since = mvme]
        /\ svc.pending.phase # "None"
    BY <1>5 DEF RecoverDiagnosticOrphan, Begin, Recoverable
  <2>2. tx'.rec.phase # "None" /\ ~tx'.idle
    BY <2>1 DEF NoTx
  <2> QED
    BY <1>0, <2>1, <2>2, QuietJournaled DEF HasSession
<1>6. CASE ReleaseSession /\ ~StopTask(TRUE)
  <2>1. pc' = "idle" /\ ses' \in {ses, NoSession}
    BY <1>6 DEF ReleaseSession, Idle
  <2> QED
    BY <1>0, <2>1, QuietJournaled, NoSessionState DEF HasSession
<1> QED
  BY <1>1, <1>2, <1>3, <1>4, <1>5, <1>6 DEF Command, ReleaseSession

\* Another controller's run is not FIDGET's own, and stopping it leaves none.
LEMMA MvmeJournaled == TypeInv /\ JournalInv /\ Mvme => JournalInv'
<1> SUFFICES ASSUME TypeInv, JournalInv, Mvme PROVE JournalInv'
  OBVIOUS
<1>1. Quiet'
  <2>1. hw \in Hardware
    BY TypeFacts
  <2>2. CASE MvmeStart
    <3>1. PICK w \in MvmeSample, p \in MvmeParam, b \in Banks :
             hw' = [hw EXCEPT !.daq = 1, !.stack = "foreign", !.run = 1,
                              !.selector = 0,
                              !.sample = [@ EXCEPT ![b] = w],
                              !.param = [@ EXCEPT ![b] = p],
                              !.others = [m \in NonTargets |-> 1]]
      BY <2>2 DEF MvmeStart
    <3>2. hw'.stack = "foreign"
      BY <2>1, <3>1 DEF Hardware
    <3> QED
      BY <3>2 DEF Quiet
  <2>3. CASE MvmeStop
    <3>1. PICK o : hw' = [hw EXCEPT !.daq = 0, !.run = 0, !.others = o]
      BY <2>3 DEF MvmeStop
    <3> QED
      BY <2>1, <3>1 DEF Hardware, Quiet
  <2> QED
    BY <2>2, <2>3 DEF Mvme
<1>2. UNCHANGED <<journal, ses, pc, tx>>
  BY DEF Mvme
<1> QED
  BY <1>1, <1>2
     DEF JournalInv, OrphanIsJournaled, SessionJournaled, StartJournaled,
         InSession, RecoveringRecord, RemovesQuietly, HasSession, Quiet

----------------------------------------------------------------------------
\* The invariant holds when FIDGET is first launched.
LEMMA JournalStart == Init => JournalInv
BY NoSessionState
   DEF Init, CrateInit, JournalInit, SessionInit, JournalInv,
       OrphanIsJournaled, SessionJournaled, StartJournaled, InSession,
       RecoveringRecord, RemovesQuietly, HasSession, SessionLabels,
       PauseLabels, ResumeLabels, SrcPre, SrcPost, SrcEnds, SrcrLabels,
       PrvLabels, StopLabels, RecLabels, JournaledLabels

\* Every step keeps it.
LEMMA JournalStep == TypeInv /\ JournalInv /\ [Next]_vars => JournalInv'
<1> SUFFICES ASSUME TypeInv, JournalInv, [Next]_vars PROVE JournalInv'
  OBVIOUS
<1>1. CASE Operation
  BY <1>1, PauseResumeJournaled, SourceJournaled, PreviewJournaled,
     StartKeepsJournal, StopJournaled, RecoveryJournaled
     DEF Operation
<1>2. CASE \/ Command \/ PollWatchdog \/ Crash \/ StopWithoutTransport
          \/ Launch
  BY <1>2, CommandJournaled
<1>3. CASE Mvme
  BY <1>3, MvmeJournaled
<1>4. CASE UNCHANGED vars
  <2>1. Frozen /\ UNCHANGED <<ses, pc, tx>>
    BY <1>4 DEF vars, Frozen
  <2> QED
    BY <2>1, QuietJournaled DEF HasSession
<1> QED
  BY <1>1, <1>2, <1>3, <1>4 DEF Next

(***************************************************************************)
(* FIDGET never leaves a run of its own without a journal, for every       *)
(* choice of quads, register values and modules, under any lost replies,   *)
(* failed saves, crashes and takeovers: whenever DAQ mode is on with a     *)
(* readout stack that is not another controller's, the recovery record is  *)
(* on disk (Prepare, Stop and recovery of the acquisition).                *)
(***************************************************************************)
THEOREM OrphanJournaled == Spec => []OrphanIsJournaled
<1>1. Init => TypeInv /\ JournalInv
  BY TypeInit, JournalStart
<1>2. TypeInv /\ JournalInv /\ [Next]_vars => (TypeInv /\ JournalInv)'
  BY TypeStep, JournalStep
<1>3. TypeInv /\ JournalInv => OrphanIsJournaled
  BY DEF JournalInv
<1> QED
  BY <1>1, <1>2, <1>3, PTL DEF Spec

----------------------------------------------------------------------------
(***************************************************************************)
(* What the service publishes is what it holds: an acquisition shown as    *)
(* Running has a transport, a session and an Active record on disk, and a  *)
(* preview shown as active is the one the journal would restore.           *)
(*                                                                         *)
(* Both depend on which commands the published state admits, so RunInv     *)
(* follows the snapshot through every way an operation ends: a running     *)
(* acquisition leaves no record pending, which keeps every recovery away   *)
(* from it, and an open session always has its transport.  PreviewInv then *)
(* follows one preview from the save that arms its entry to the result     *)
(* that publishes it, and from the restore back.                           *)
(***************************************************************************)

\* The published state s (session), v (service) with the record phase ph on
\* disk: what a running acquisition and an open session are.
Coherent(s, v, ph) ==
    /\ v.acq = "Running" =>
          /\ v.own = "SessionOpen" /\ s.state # "None"
          /\ ~s.foreign /\ ~s.orphan
          /\ v.pending.phase = "None"
          /\ s.rec.phase = "Active" /\ ph = "Active"
    /\ v.own = "SessionOpen" =>
          v.transport /\ (s.state = "None" => v.pending.phase = "None")

\* A start runs with an open session and nothing pending; a recovery runs
\* beside no acquisition; a process that has died runs neither.
RunInv ==
    /\ Coherent(ses, svc, journal.phase)
    /\ pc \in StartLabels =>
          /\ svc.own = "SessionOpen" /\ ~HasSession
          /\ svc.acq = "Starting" /\ ~svc.pv.active
    /\ pc \in RecLabels => svc.acq # "Running"
    /\ ~svc.alive => pc = "idle"

----------------------------------------------------------------------------
(***************************************************************************)
(*                  1. A running acquisition is recoverable                *)
(***************************************************************************)
\* Return leaves the pair it is given, or drops or releases it.
LEMMA CoherentReturn ==
    ASSUME NEW s \in Session, NEW v \in Service, Return(s, v),
           Coherent(s, v, journal'.phase)
    PROVE  RunInv'
<1>1. /\ Dropped(v).acq = v.acq /\ Dropped(v).own = "Disconnected"
      /\ Dropped(v) \in Service
  BY DEF Dropped, Service, Ownership
<1>2. Released(v).acq = "NotRun" /\ Released(v).own = "Disconnected"
  BY <1>1 DEF Released, Service
<1>3. Coherent(ses, svc, journal.phase)'
  BY <1>1, <1>2 DEF Return, Coherent
<1>4. pc' = "idle"
  BY DEF Return
<1> QED
  BY <1>3, <1>4 DEF RunInv, StartLabels, RecLabels

\* Steps inside an operation of a session publish nothing and keep the
\* session's marks and the phase of its record.
LEMMA InnerStep ==
    ASSUME RunInv, svc.alive, UNCHANGED svc, pc' \in SessionLabels,
           ses'.state = ses.state, ses'.foreign = ses.foreign,
           ses'.orphan = ses.orphan, ses'.rec.phase = ses.rec.phase,
           journal'.phase \in {journal.phase, ses.rec.phase}
    PROVE  RunInv'
<1>1. pc' \notin StartLabels \cup RecLabels
  BY DEF SessionLabels, StartLabels, RecLabels, PauseLabels, ResumeLabels,
         SrcPre, SrcPost, SrcEnds, SrcrLabels, PrvLabels, StopLabels
<1> QED
  BY <1>1 DEF RunInv, Coherent

\* A save of the session's record, whatever it reports, keeps all but one
\* entry of that record.
LEMMA SaveKeeps ==
    ASSUME TypeInv, NEW rec \in Record, rec.phase = ses.rec.phase,
           journal' \in {journal, rec},
           ses' \in {ses, [ses EXCEPT !.rec = rec]}
    PROVE  /\ ses'.state = ses.state /\ ses'.foreign = ses.foreign
           /\ ses'.orphan = ses.orphan /\ ses'.rec.phase = ses.rec.phase
           /\ ses'.quad = ses.quad /\ ses'.rec \in {ses.rec, rec}
           /\ journal'.phase \in {journal.phase, ses.rec.phase}
<1>1. ses \in Session
  BY TypeFacts
<1>2. CASE ses' = ses
  BY <1>2
<1>3. CASE ses' = [ses EXCEPT !.rec = rec]
  BY <1>1, <1>3 DEF Session
<1> QED
  BY <1>2, <1>3

\* What the saves of a source operation may leave: an entry is armed or
\* disarmed, on disk, or on disk and in memory.
LEMMA EntrySaved ==
    ASSUME TypeInv, SrcArm \/ SrcDisarm \/ SrcrDisarm
    PROVE  \E e \in Restore(Words) :
              LET rec == [ses.rec EXCEPT !.source = e]
              IN  /\ journal' \in {journal, rec}
                  /\ ses' \in {ses, [ses EXCEPT !.rec = rec]}
<1>1. CASE SrcDisarm \/ SrcrDisarm
  BY <1>1, ConstantsTyped
     DEF SrcDisarm, SrcrDisarm, SaveSourceRecoveryState, SaveJournal
<1>2. CASE SrcArm
  <2>1. tx.req \in Words /\ tx.live \in Words
    BY <1>2 DEF TypeInv, KindOK, ValueOK, SrcArm, SrcPost
  <2>2. ses.rec.source.original \in Words
    BY TypeFacts DEF Session, Record, Restore
  <2>3. Armed(tx.quad, IF ses.rec.source.required
                       THEN ses.rec.source.original ELSE tx.live, tx.req)
          \in Restore(Words)
    BY <2>1, <2>2, TypeFacts DEF Armed, Restore
  <2> QED
    BY <1>2, <2>3 DEF SrcArm, SaveSourceRecoveryState, SaveJournal
<1> QED
  BY <1>1, <1>2

\* The result of a session that another controller has taken over.
LEMMA ForeignCoherent ==
    ASSUME TypeInv, NEW pv \in Preview, NEW ph
    PROVE  /\ ForeignSession \in Session
           /\ DetachForForeignDiagnosticFingerprint(pv) \in Service
           /\ Coherent(ForeignSession,
                       DetachForForeignDiagnosticFingerprint(pv), ph)
<1>1. svc \in Service
  BY TypeFacts
<1>2. /\ DetachForForeignDiagnosticFingerprint(pv).acq = "Failed"
      /\ DetachForForeignDiagnosticFingerprint(pv).own = "OwnershipLost"
  BY <1>1 DEF DetachForForeignDiagnosticFingerprint, Service
<1> QED
  BY <1>2, DetachTyped DEF Coherent

\* Pausing and resuming publish nothing.
LEMMA PauseResumeRuns ==
    ASSUME TypeInv, JournalInv, RunInv, svc.alive, PauseResumeNext PROVE RunInv'
<1>1. /\ pc \in PauseLabels \cup ResumeLabels
      /\ pc \in PauseLabels =>
           pc' \in PauseLabels \cup {PausedLabel[tx.kind], NotPausedLabel[tx.kind]}
      /\ pc \in ResumeLabels => pc' \in ResumeLabels \cup {ResumedLabel[tx.kind]}
      /\ UNCHANGED <<journal, svc, ses>>
  BY DEF PauseResumeNext, PauseModule, PauseDaq, PauseVerify, ResumeModule,
         ResumeDaq, ResumeVerify, Write, NotPaused, Failing, PauseLabels,
         ResumeLabels, HardwareOnly
<1>2. pc' \in SessionLabels
  BY <1>1
     DEF TypeInv, KindOK, PrvKinds, PausedLabel, NotPausedLabel, ResumedLabel,
         SessionLabels, PauseLabels, ResumeLabels, SrcPre, SrcEnds, SrcrLabels,
         PrvLabels
<1> QED
  BY <1>1, <1>2, InnerStep

\* A source operation publishes its session only as it found it, or as
\* foreign.
LEMMA SourceRuns ==
    ASSUME TypeInv, JournalInv, RunInv, svc.alive, SourceNext PROVE RunInv'
<1>1. ses \in Session /\ svc \in Service /\ svc.pv \in Preview
  BY TypeFacts DEF Service
<1>2. CASE SrcCheck \/ SrcrCheck \/ OpEnd
  <2>1. Frozen
    BY <1>2 DEF SrcCheck, SrcrCheck, OpEnd
  <2>2. CASE Return(ses, svc)
    BY <1>1, <2>1, <2>2, CoherentReturn DEF RunInv, Frozen
  <2>3. CASE Return(ForeignSession, DetachForForeignDiagnosticFingerprint(svc.pv))
    BY <1>1, <2>3, ForeignCoherent, CoherentReturn
  <2>4. CASE pc' = "pause_module" /\ UNCHANGED <<tx, svc, ses>>
    BY <2>1, <2>4, InnerStep DEF Frozen, SessionLabels, PauseLabels
  <2> QED
    BY <1>2, <2>2, <2>3, <2>4 DEF SrcCheck, SrcrCheck, OpEnd
<1>3. CASE SrcArm \/ SrcDisarm \/ SrcrDisarm
  <2>1. PICK e : LET rec == [ses.rec EXCEPT !.source = e]
                 IN  /\ e \in Restore(Words)
                     /\ journal' \in {journal, rec}
                     /\ ses' \in {ses, [ses EXCEPT !.rec = rec]}
    BY <1>3, EntrySaved
  <2>2. /\ UNCHANGED svc
        /\ pc' \in {"src_write", "src_park", "src_end", "srcr_end"}
    BY <1>3
       DEF SrcArm, SrcDisarm, SrcrDisarm, SaveSourceRecoveryState, SaveJournal,
           Failing, DiskOnly
  <2>3. /\ [ses.rec EXCEPT !.source = e] \in Record
        /\ [ses.rec EXCEPT !.source = e].phase = ses.rec.phase
    BY <1>1, <2>1 DEF Session, Record
  <2> QED
    BY <2>1, <2>2, <2>3, SaveKeeps, InnerStep
       DEF SessionLabels, SrcPost, SrcEnds, SrcrLabels
<1>4. CASE \/ SrcSelect \/ SrcRead \/ SrcWrite \/ SrcVerify \/ SrcRollback
          \/ SrcRolled \/ SrcPark \/ SrcEnd
          \/ SrcrSelect \/ SrcrWrite \/ SrcrVerify \/ SrcrPark \/ SrcrEnd
  <2>1. /\ UNCHANGED <<journal, svc, ses>>
        /\ pc' \in SrcPre \cup SrcPost \cup SrcEnds \cup SrcrLabels
              \cup {"resume_module", "op_end", "stop_module", "stop_check"}
    BY <1>4
       DEF SrcSelect, SrcRead, SrcWrite, SrcVerify, SrcRollback, SrcRolled,
           SrcPark, SrcEnd, SrcrSelect, SrcrWrite, SrcrVerify, SrcrPark,
           SrcrEnd, Write, Failing, HardwareOnly, SrcPre, SrcPost, SrcEnds,
           SrcrLabels
  <2> QED
    BY <2>1, InnerStep DEF SessionLabels, ResumeLabels, StopLabels
<1> QED
  BY <1>2, <1>3, <1>4 DEF SourceNext

\* The same for the saves of a preview operation.
LEMMA PreviewSaved ==
    ASSUME TypeInv, PrvArm \/ PrvDisarm
    PROVE  \E e \in Restore(Params) :
              LET rec == [ses.rec EXCEPT !.preview = e]
              IN  /\ journal' \in {journal, rec}
                  /\ ses' \in {ses, [ses EXCEPT !.rec = rec]}
<1>1. CASE PrvDisarm
  BY <1>1, ConstantsTyped
     DEF PrvDisarm, SavePreviewRecoveryState, SaveJournal
<1>2. CASE PrvArm
  <2>1. tx.req \in Params /\ tx.live \in Params
    BY <1>2 DEF TypeInv, KindOK, ValueOK, PrvArm, PrvLabels
  <2>2. Armed(tx.quad, tx.live, tx.req) \in Restore(Params)
    BY <2>1, TypeFacts DEF Armed, Restore
  <2> QED
    BY <1>2, <2>2 DEF PrvArm, SavePreviewRecoveryState, SaveJournal
<1> QED
  BY <1>1, <1>2

\* The results a preview transaction may publish are typed.
LEMMA ResultsTyped ==
    ASSUME TypeInv
    PROVE  /\ svc.pv \in Preview
           /\ \A c, p, r \in BOOLEAN : PreviewFailed(c, p, r) \in Preview
           /\ pc \in PrvLabels => PreviewResult \in Preview
<1>1. svc.pv \in Preview
  BY TypeFacts DEF Service
<1>2. \A c, p, r \in BOOLEAN : PreviewFailed(c, p, r) \in Preview
  BY <1>1 DEF Preview, PreviewFailed
<1>3. ASSUME pc \in PrvLabels PROVE PreviewResult \in Preview
  <2>1. tx.req \in Params /\ tx.live \in Params
    BY <1>3 DEF TypeInv, KindOK, ValueOK
  <2>2. /\ tx.failed \in BOOLEAN /\ tx.paused \in BOOLEAN
        /\ tx.resumed \in BOOLEAN
    BY TypeFacts DEF Locals
  <2>3. [active |-> TRUE, ok |-> ~tx.failed, original |-> tx.live,
         applied |-> tx.req, comm |-> FALSE, paused |-> tx.paused,
         resumed |-> tx.resumed] \in Preview
    BY <2>1, <2>2 DEF Preview
  <2>4. PreviewFailed(FALSE, tx.paused, tx.resumed) \in Preview
    BY <1>2, <2>2
  <2> QED
    BY <2>3, <2>4, ConstantsTyped DEF PreviewResult
<1> QED
  BY <1>1, <1>2, <1>3

\* Publishing a preview changes nothing else of the service.
LEMMA PublishKeeps ==
    ASSUME TypeInv, NEW pv \in Preview
    PROVE  /\ [svc EXCEPT !.pv = pv] \in Service
           /\ [svc EXCEPT !.pv = pv].acq = svc.acq
           /\ [svc EXCEPT !.pv = pv].own = svc.own
           /\ [svc EXCEPT !.pv = pv].alive = svc.alive
           /\ [svc EXCEPT !.pv = pv].transport = svc.transport
           /\ [svc EXCEPT !.pv = pv].pending = svc.pending
           /\ [svc EXCEPT !.pv = pv].pv = pv
BY TypeFacts DEF Service

\* A preview operation keeps the session as it found it, or marks it foreign.
LEMMA PreviewRuns ==
    ASSUME TypeInv, JournalInv, RunInv, svc.alive, PreviewNext PROVE RunInv'
<1>1. ses \in Session /\ svc \in Service /\ svc.pv \in Preview
  BY TypeFacts DEF Service
<1>2. ASSUME NEW pv \in Preview, Frozen, Return(ses, [svc EXCEPT !.pv = pv])
      PROVE  RunInv'
  <2>1. Coherent(ses, [svc EXCEPT !.pv = pv], journal'.phase)
    BY <1>2, PublishKeeps DEF RunInv, Coherent, Frozen
  <2> QED
    BY <1>1, <1>2, <2>1, PublishKeeps, CoherentReturn
<1>3. CASE PrvCheck
  <2>1. PICK r1 \in Preview, r2 \in Preview :
           /\ Frozen
           /\ \/ pc' = "pause_module" /\ UNCHANGED <<tx, svc, ses>>
              \/ Return(ForeignSession, DetachForForeignDiagnosticFingerprint(r1))
              \/ Return(ses, [svc EXCEPT !.pv = r2])
    BY <1>3, ResultsTyped, ConstantsTyped DEF PrvCheck
  <2> QED
    BY <1>1, <1>2, <2>1, ForeignCoherent, CoherentReturn, InnerStep
       DEF Frozen, SessionLabels, PauseLabels
<1>4. CASE PrvEnd
  <2>1. PreviewResult \in Preview /\ Frozen
    BY <1>4, ResultsTyped DEF PrvEnd, PrvLabels
  <2>2. CASE Return(ses, [svc EXCEPT !.pv = PreviewResult])
    BY <1>2, <2>1, <2>2
  <2>3. CASE /\ svc' = [svc EXCEPT !.pv = PreviewResult]
             /\ pc' = "stop_source" /\ ses' = ses
    <3>1. Coherent(ses, svc, journal.phase)'
      BY <2>1, <2>3, PublishKeeps DEF RunInv, Coherent, Frozen
    <3> QED
      BY <2>1, <2>3, <3>1, PublishKeeps DEF RunInv, StartLabels, RecLabels
  <2> QED
    BY <1>4, <2>2, <2>3 DEF PrvEnd
<1>5. CASE PrvArm \/ PrvDisarm
  <2>1. PICK e \in Restore(Params) :
           LET rec == [ses.rec EXCEPT !.preview = e]
           IN  /\ journal' \in {journal, rec}
               /\ ses' \in {ses, [ses EXCEPT !.rec = rec]}
    BY <1>5, PreviewSaved
  <2>2. UNCHANGED svc /\ pc' \in {"prv_write", "prv_park", "prv_settle"}
    BY <1>5
       DEF PrvArm, PrvDisarm, SavePreviewRecoveryState, SaveJournal, Failing,
           DiskOnly
  <2>3. /\ [ses.rec EXCEPT !.preview = e] \in Record
        /\ [ses.rec EXCEPT !.preview = e].phase = ses.rec.phase
    BY <1>1, <2>1 DEF Session, Record
  <2> QED
    BY <2>1, <2>2, <2>3, SaveKeeps, InnerStep DEF SessionLabels, PrvLabels
<1>6. CASE \/ PrvSelect \/ PrvRead \/ PrvWrite \/ PrvVerify \/ PrvRollback
          \/ PrvRolled \/ PrvPark \/ PrvSettle
  <2>1. /\ UNCHANGED <<journal, svc, ses>>
        /\ pc' \in PrvLabels \cup {"resume_module"}
    BY <1>6
       DEF PrvSelect, PrvRead, PrvWrite, PrvVerify, PrvRollback, PrvRolled,
           PrvPark, PrvSettle, Write, Failing, Unverified, HardwareOnly,
           PrvLabels
  <2> QED
    BY <2>1, InnerStep DEF SessionLabels, ResumeLabels
<1> QED
  BY <1>3, <1>4, <1>5, <1>6 DEF PreviewNext

\* A step of Start that does not end it.
LEMMA StartInner ==
    ASSUME RunInv, svc.alive, pc \in StartLabels, UNCHANGED <<svc, ses>>,
           pc' \in StartLabels
    PROVE  RunInv'
BY DEF RunInv, Coherent, HasSession, StartLabels, RecLabels

\* Every failed end of Start publishes Failed, and a pending record only with
\* a session or without an open one.
LEMMA StartEnds ==
    ASSUME TypeInv, RunInv, pc \in StartLabels
    PROVE  /\ NotPrepared(svc) => RunInv'
           /\ NotPrepared(DetachForForeignDaq(svc)) => RunInv'
           /\ PreparedOrphan(svc) => RunInv'
           /\ PreparedOrphan(DetachForForeignDaq(svc)) => RunInv'
           /\ \A r \in Record : StartFailed(r) => RunInv'
<1>1. svc \in Service /\ NoSession \in Session /\ tx.rec \in Record
  BY TypeFacts, ConstantsTyped
<1>2. /\ svc.own = "SessionOpen" /\ svc.transport
      /\ svc.pending.phase = "None"
  BY DEF RunInv, Coherent, HasSession
<1>3. /\ DetachForForeignDaq(svc) \in Service
      /\ DetachForForeignDaq(svc).own = "OwnershipLost"
  BY <1>1 DEF DetachForForeignDaq, Service, Ownership
<1>4. ASSUME NEW v \in Service, NotPrepared(v),
             v.own = "SessionOpen" => v.transport /\ v.pending.phase = "None"
      PROVE  RunInv'
  <2>1. /\ [v EXCEPT !.acq = "Failed"] \in Service
        /\ [v EXCEPT !.acq = "Failed"].acq = "Failed"
        /\ [v EXCEPT !.acq = "Failed"].own = v.own
        /\ [v EXCEPT !.acq = "Failed"].transport = v.transport
        /\ [v EXCEPT !.acq = "Failed"].pending = v.pending
    BY DEF Service, Acquisition
  <2>2. Coherent(NoSession, [v EXCEPT !.acq = "Failed"], journal'.phase)
    BY <1>4, <2>1 DEF Coherent
  <2> QED
    BY <1>1, <1>4, <2>1, <2>2, CoherentReturn DEF NotPrepared
<1>5. ASSUME NEW v \in Service, PreparedOrphan(v) PROVE RunInv'
  <2>1. PICK own \in {"OwnershipLost", "RecoveryRequired"} :
           NotPrepared([v EXCEPT !.pending = tx.rec, !.own = own])
    BY <1>5 DEF PreparedOrphan
  <2>2. /\ [v EXCEPT !.pending = tx.rec, !.own = own] \in Service
        /\ [v EXCEPT !.pending = tx.rec, !.own = own].own # "SessionOpen"
    BY <1>1 DEF Service, Ownership
  <2> QED
    BY <1>4, <2>1, <2>2
<1>6. ASSUME NEW r \in Record, StartFailed(r) PROVE RunInv'
  <2> DEFINE s == [state |-> "Failed", foreign |-> FALSE, orphan |-> FALSE,
                   rec |-> r, quad |-> tx.quad, reset |-> NonTargets]
             v == [svc EXCEPT !.acq = "Failed", !.pending = r]
  <2>1. s \in Session /\ s.state = "Failed"
    BY TypeFacts DEF Session
  <2>2. /\ v \in Service /\ v.acq = "Failed" /\ v.transport = svc.transport
    BY <1>1 DEF Service, Acquisition
  <2>3. Coherent(s, v, journal'.phase)
    BY <1>2, <2>1, <2>2 DEF Coherent
  <2>4. Return(s, v)
    BY <1>6 DEF StartFailed
  <2> HIDE DEF s, v
  <2> QED
    BY <2>1, <2>2, <2>3, <2>4, CoherentReturn
<1> QED
  BY <1>1, <1>2, <1>3, <1>4, <1>5, <1>6

\* Start publishes Running only after the Active record has been saved.
LEMMA StartRuns ==
    ASSUME TypeInv, JournalInv, RunInv, svc.alive, StartNext PROVE RunInv'
<1>1. pc \in StartLabels
  BY DEF StartNext, StartGate, StartProbe, StartJournal, StartGate2,
         StartQuiesce, StartQuiet, StartOpen, StartStack, StartSetup,
         StartTrigger, StartReset, StartModule, StartDaq, StartVerify,
         StartActivate, StartWrite, StartLabels
<1>2. CASE \/ StartGate \/ StartProbe \/ StartGate2 \/ StartOpen
          \/ StartVerify \/ StartJournal \/ StartQuiesce \/ StartQuiet
          \/ StartStack \/ StartSetup \/ StartTrigger \/ StartReset
          \/ StartModule \/ StartDaq
  <2>1. \/ UNCHANGED <<svc, ses>> /\ pc' \in StartLabels
        \/ NotPrepared(svc) \/ NotPrepared(DetachForForeignDaq(svc))
        \/ PreparedOrphan(svc) \/ PreparedOrphan(DetachForForeignDaq(svc))
        \/ StartFailed(tx.rec)
    BY <1>2
       DEF StartGate, StartProbe, StartGate2, StartOpen, StartVerify,
           StartJournal, StartQuiesce, StartQuiet, StartStack, StartSetup,
           StartTrigger, StartReset, StartModule, StartDaq, StartWrite, Write,
           SaveJournal, HardwareOnly, StartLabels
  <2>2. tx.rec \in Record
    BY TypeFacts
  <2> QED
    BY <1>1, <2>1, <2>2, StartInner, StartEnds
<1>3. CASE StartActivate
  <2>1. PICK rec : /\ rec = [tx.rec EXCEPT !.phase = "Active"]
                   /\ \/ /\ journal' = rec
                         /\ Return([state |-> "Running", foreign |-> FALSE,
                                    orphan |-> FALSE, rec |-> rec,
                                    quad |-> tx.quad, reset |-> NonTargets],
                                   [svc EXCEPT !.acq = "Running",
                                               !.receiver = TRUE])
                      \/ StartFailed(rec)
    BY <1>3 DEF StartActivate, SaveJournal
  <2>2. rec \in Record /\ rec.phase = "Active"
    BY <2>1, TypeFacts DEF Record, Phases
  <2>3. CASE StartFailed(rec)
    BY <1>1, <2>2, <2>3, StartEnds
  <2>4. CASE ~StartFailed(rec)
    <3> DEFINE s == [state |-> "Running", foreign |-> FALSE, orphan |-> FALSE,
                     rec |-> rec, quad |-> tx.quad, reset |-> NonTargets]
               v == [svc EXCEPT !.acq = "Running", !.receiver = TRUE]
    <3>1. /\ s \in Session /\ s.state = "Running" /\ ~s.foreign /\ ~s.orphan
          /\ s.rec = rec
      BY <2>2, TypeFacts DEF Session
    <3>2. /\ v \in Service /\ v.own = svc.own /\ v.transport = svc.transport
          /\ v.pending = svc.pending
      BY TypeFacts DEF Service, Acquisition
    <3>3. /\ svc.own = "SessionOpen" /\ svc.transport
          /\ svc.pending.phase = "None"
      BY <1>1 DEF RunInv, Coherent, HasSession
    <3>4. Coherent(s, v, journal'.phase) /\ Return(s, v)
      BY <2>1, <2>2, <2>4, <3>1, <3>2, <3>3 DEF Coherent
    <3> HIDE DEF s, v
    <3> QED
      BY <3>1, <3>2, <3>4, CoherentReturn
  <2> QED
    BY <2>3, <2>4
<1> QED
  BY <1>2, <1>3 DEF StartNext

\* Stop publishes Failed, with the record it could not remove, or Stopped.
LEMMA StopRuns ==
    ASSUME TypeInv, JournalInv, RunInv, svc.alive, StopNext PROVE RunInv'
<1>1. ses \in Session /\ svc \in Service /\ ses.rec \in Record
  BY TypeFacts DEF Session
<1>2. HasSession
  <2>1. pc \in SessionLabels
    BY DEF StopNext, StopSource, StopCheck, StopModule, StopStopped,
           StopOthers, StopOther, StopQuiet, StopMvlc, StopClear, StopEnd,
           SessionLabels, StopLabels
  <2> QED
    BY <2>1, InsideSession
<1>3. ASSUME NEW s \in Session, NEW v \in Service, StopResult(s, v),
             s.state # "None", v.own = "SessionOpen" => v.transport
      PROVE  RunInv'
  <2> DEFINE w == [v EXCEPT !.acq = "Failed", !.receiver = FALSE,
                            !.pending = ses.rec]
  <2>1. /\ w \in Service /\ w.acq = "Failed" /\ w.own = v.own
        /\ w.transport = v.transport
    BY <1>1 DEF Service, Acquisition
  <2>2. Coherent(s, w, journal'.phase) /\ Return(s, w)
    BY <1>3, <2>1 DEF Coherent, StopResult
  <2> HIDE DEF w
  <2> QED
    BY <2>1, <2>2, CoherentReturn
<1>4. svc.own = "SessionOpen" => svc.transport
  BY DEF RunInv, Coherent
<1>5. /\ [svc EXCEPT !.own = "OwnershipLost"] \in Service
      /\ [svc EXCEPT !.own = "OwnershipLost"].own # "SessionOpen"
      /\ [svc EXCEPT !.own = "RecoveryRequired"] \in Service
      /\ [svc EXCEPT !.own = "RecoveryRequired"].own # "SessionOpen"
  BY <1>1 DEF Service, Ownership
<1>6. /\ ForeignSession \in Session /\ ForeignSession.state = "Failed"
      /\ [ses EXCEPT !.state = "Failed"] \in Session
      /\ [ses EXCEPT !.state = "Failed"].state = "Failed"
      /\ [ses EXCEPT !.state = "Failed", !.orphan = TRUE] \in Session
      /\ [ses EXCEPT !.state = "Failed", !.orphan = TRUE].state = "Failed"
  BY <1>1 DEF Session, ForeignSession
<1>7. CASE \/ StopSource \/ StopModule \/ StopStopped \/ StopOthers
          \/ StopOther \/ StopMvlc \/ StopClear
  <2>1. /\ UNCHANGED <<journal, svc, ses>>
        /\ pc' \in StopLabels \cup SrcrLabels
    BY <1>7
       DEF StopSource, StopModule, StopStopped, StopOthers, StopOther,
           StopMvlc, StopClear, Write, Failing, HardwareOnly, StopLabels,
           SrcrLabels
  <2> QED
    BY <2>1, InnerStep DEF SessionLabels
<1>8. CASE StopQuiet
  <2>1. /\ UNCHANGED <<journal, svc>>
        /\ pc' = "stop_others"
        /\ \E r : ses' = [ses EXCEPT !.reset = r] \/ ses' = ses
    BY <1>8 DEF StopQuiet
  <2>2. /\ ses'.rec = ses.rec /\ ses'.state = ses.state
        /\ ses'.foreign = ses.foreign /\ ses'.orphan = ses.orphan
    BY <1>1, <2>1 DEF Session
  <2> QED
    BY <2>1, <2>2, InnerStep DEF SessionLabels, StopLabels
<1>9. CASE StopCheck
  <2>1. CASE pc' = "stop_module" /\ UNCHANGED <<tx, svc, ses>>
    BY <1>9, <2>1, InnerStep DEF StopCheck, Frozen, SessionLabels, StopLabels
  <2> QED
    BY <1>3, <1>5, <1>6, <1>9, <2>1 DEF StopCheck
<1>10. CASE StopEnd
  <2>1. \/ StopResult([ses EXCEPT !.state = "Failed", !.orphan = TRUE],
                      [svc EXCEPT !.own = "RecoveryRequired"])
        \/ StopResult([ses EXCEPT !.state = "Failed"], svc)
        \/ Return(NoSession, [svc EXCEPT !.acq = "Stopped",
                                 !.receiver = FALSE, !.pending = NoRecord])
    BY <1>10 DEF StopEnd, RemoveJournal
  <2>2. CASE Return(NoSession, [svc EXCEPT !.acq = "Stopped",
                                 !.receiver = FALSE, !.pending = NoRecord])
    <3> DEFINE v == [svc EXCEPT !.acq = "Stopped", !.receiver = FALSE,
                                !.pending = NoRecord]
    <3>1. /\ v \in Service /\ v.acq = "Stopped" /\ v.own = svc.own
          /\ v.transport = svc.transport /\ v.pending = NoRecord
      BY <1>1, ConstantsTyped DEF Service, Acquisition
    <3>2. Coherent(NoSession, v, journal'.phase) /\ Return(NoSession, v)
      BY <1>4, <2>2, <3>1 DEF Coherent, NoRecord
    <3> HIDE DEF v
    <3> QED
      BY <3>1, <3>2, ConstantsTyped, CoherentReturn
  <2> QED
    BY <1>1, <1>3, <1>4, <1>5, <1>6, <2>1, <2>2
<1> QED
  BY <1>7, <1>8, <1>9, <1>10 DEF StopNext

\* A failed recovery never leaves the session open.
LEMMA RecoveryRuns ==
    ASSUME TypeInv, JournalInv, RunInv, svc.alive, RecoveryNext PROVE RunInv'
<1>1. pc \in RecLabels
  BY DEF RecoveryNext, RecCheck, RecGate, RecTarget, RecStop, RecStopped,
         RecOthers, RecQuiet, RbGate1, RbSelect, RbRead, RbGate2, RbDecide,
         RbWrite, RbVerify, RbGate3, RbPark, RbSave, RecMvlc, RecClear,
         RecRemove, IdleGate, RecWrite, RecLabels
<1>2. svc.acq # "Running" /\ svc \in Service
  BY <1>1, TypeFacts DEF RunInv
<1>3. \/ UNCHANGED <<svc, ses>> /\ pc' \in RecLabels
      \/ RecFail \/ RecDone
  BY DEF RecoveryNext, RecCheck, RecGate, RecTarget, RecStop, RecStopped,
         RecOthers, RecQuiet, RbGate1, RbSelect, RbRead, RbGate2, RbDecide,
         RbWrite, RbVerify, RbGate3, RbPark, RbSave, RecMvlc, RecClear,
         RecRemove, IdleGate, RecWrite, RecLabels, Write, Going, Failing,
         SaveJournal, RemoveJournal, HardwareOnly, NextRestore, RestoreLabel,
         ParkLabel
<1>4. CASE UNCHANGED <<svc, ses>> /\ pc' \in RecLabels
  BY <1>2, <1>4 DEF RunInv, Coherent, HasSession, StartLabels, RecLabels
<1>5. CASE RecFail
  <2>1. PICK p : svc' = [svc EXCEPT !.own = "RecoveryRequired",
                                    !.transport = FALSE, !.pending = p]
    BY <1>5 DEF RecFail
  <2>2. svc'.acq = svc.acq /\ svc'.own = "RecoveryRequired"
    BY <1>2, <2>1 DEF Service
  <2> QED
    BY <1>2, <1>5, <2>2 DEF RecFail, RunInv, Coherent, StartLabels, RecLabels
<1>6. CASE RecDone
  BY <1>6 DEF RecDone, Launched, RunInv, Coherent, StartLabels, RecLabels
<1> QED
  BY <1>3, <1>4, <1>5, <1>6

\* A process that has just been launched holds nothing that runs.
LEMMA LoadedRuns ==
    ASSUME TypeInv
    PROVE  Loaded.acq = "NotRun" /\ Loaded.own # "SessionOpen"
<1>1. Launched \in Service /\ Launched.acq = "NotRun"
  BY ConstantsTyped DEF Launched
<1>2. PICK p \in Record, own \in {"Disconnected", "RecoveryRequired"} :
         Loaded = [Launched EXCEPT !.pending = p, !.own = own]
  BY TypeFacts DEF Loaded, LoadJournal
<1> QED
  BY <1>1, <1>2 DEF Service

\* Commands, watchdog, crashes and launches: none of them takes an open
\* session's transport or puts a recovery beside a run.
LEMMA CommandRuns ==
    ASSUME TypeInv, JournalInv, RunInv,
           Command \/ PollWatchdog \/ Crash \/ StopWithoutTransport \/ Launch
    PROVE  RunInv'
<1>0. svc \in Service /\ ses \in Session /\ UNCHANGED journal
  BY TypeFacts, QuietSteps DEF Frozen
<1>1. CASE CheckStatus \/ CheckDiagnosticRecoveryStatus
  <2>1. PICK own \in Ownership \ {"SessionOpen"}, t \in BOOLEAN :
           /\ svc' = [svc EXCEPT !.own = own, !.transport = t]
           /\ svc.own # "SessionOpen" \/ Recoverable
           /\ UNCHANGED <<ses, pc, tx>> /\ pc = "idle"
    <3>1. CASE CheckStatus /\ Recoverable
      <4>1. svc' = [svc EXCEPT !.own = "RecoveryRequired",
                               !.transport = svc.transport]
        BY <1>0, <3>1 DEF CheckStatus, Service
      <4> QED
        BY <1>0, <3>1, <4>1 DEF CheckStatus, Idle, Ownership, Service
    <3> QED
      BY <1>1, <3>1 DEF CheckStatus, CheckDiagnosticRecoveryStatus, Idle, Ownership
  <2>2. svc'.acq = svc.acq /\ svc'.own # "SessionOpen"
    BY <1>0, <2>1 DEF Service
  <2>3. svc.acq # "Running"
    BY <2>1 DEF RunInv, Coherent, Recoverable
  <2> QED
    BY <2>1, <2>2, <2>3 DEF RunInv, Coherent, StartLabels, RecLabels
<1>2. CASE OpenSession
  <2>1. PICK own \in Ownership :
           /\ svc' = [svc EXCEPT !.own = own,
                         !.transport = (own = "SessionOpen"), !.pv = NoPreview]
           /\ ~Recoverable /\ svc.own = "Idle"
           /\ UNCHANGED <<ses, pc, tx>> /\ pc = "idle"
    BY <1>2 DEF OpenSession, Idle, Ownership
  <2>2. /\ svc'.acq = svc.acq /\ svc'.own = own
        /\ svc'.transport = (own = "SessionOpen")
        /\ svc'.pending = svc.pending
    BY <1>0, <2>1 DEF Service
  <2>3. svc.acq # "Running"
    BY <2>1 DEF RunInv, Coherent
  <2> QED
    BY <2>1, <2>2, <2>3
       DEF RunInv, Coherent, Recoverable, StartLabels, RecLabels
<1>3. CASE UseProject \/ Launch
  <2>1. svc' = Loaded /\ UNCHANGED <<ses, pc, tx>> /\ pc = "idle"
    BY <1>3 DEF UseProject, Launch, Idle, RunInv
  <2> QED
    BY <2>1, LoadedRuns DEF RunInv, Coherent, StartLabels, RecLabels
<1>4. CASE StartDiagnosticAcquisition
  <2>1. /\ svc' = [svc EXCEPT !.acq = "Starting", !.pv = NoPreview]
        /\ UNCHANGED ses /\ pc' = "start_gate"
        /\ svc.alive /\ svc.own = "SessionOpen" /\ ~HasSession
    BY <1>4 DEF StartDiagnosticAcquisition, Begin, Idle
  <2>2. /\ svc'.acq = "Starting" /\ svc'.own = svc.own
        /\ svc'.transport = svc.transport /\ svc'.pending = svc.pending
        /\ svc'.alive = svc.alive /\ svc'.pv = NoPreview
    BY <1>0, <2>1 DEF Service
  <2> QED
    BY <2>1, <2>2
       DEF RunInv, Coherent, HasSession, NoPreview, StartLabels, RecLabels
<1>5. CASE \/ ChangeDiagnosticSource \/ ApplyDiagnosticPreview
          \/ RestoreDiagnosticPreview \/ StopDiagnosticAcquisition
          \/ (StopTask(TRUE) /\ Idle)
  <2>1. /\ UNCHANGED <<svc, ses>> /\ svc.alive
        /\ pc' \in {"src_check", "prv_check", "stop_source"}
    BY <1>5
       DEF ChangeDiagnosticSource, ApplyDiagnosticPreview,
           RestoreDiagnosticPreview, StopDiagnosticAcquisition, StopTask,
           Begin, Idle
  <2> QED
    BY <1>0, <2>1, InnerStep DEF SessionLabels, SrcPre, PrvLabels, StopLabels
<1>6. CASE RecoverDiagnosticOrphan
  <2>1. /\ UNCHANGED <<svc, ses>> /\ svc.alive /\ pc' = "rec_check"
        /\ Recoverable
    BY <1>6 DEF RecoverDiagnosticOrphan, Begin, Idle
  <2>2. svc.acq # "Running"
    BY <2>1 DEF RunInv, Coherent, Recoverable
  <2> QED
    BY <1>0, <2>1, <2>2 DEF RunInv, Coherent, StartLabels, RecLabels
<1>7. CASE ReleaseSession /\ ~StopTask(TRUE)
  <2>1. /\ pc' = "idle"
        /\ \/ svc' = Released(svc)
           \/ svc' = Dropped(svc) /\ (ses.foreign \/ ses.orphan)
    BY <1>7 DEF ReleaseSession, Idle
  <2>2. /\ Dropped(svc) \in Service
        /\ Dropped(svc).acq = svc.acq /\ Dropped(svc).own = "Disconnected"
    BY <1>0 DEF Dropped, Service, Ownership
  <2>3. Released(svc).acq = "NotRun" /\ Released(svc).own = "Disconnected"
    BY <2>2 DEF Released, Service
  <2> QED
    BY <2>1, <2>2, <2>3 DEF RunInv, Coherent, StartLabels, RecLabels
<1>8. CASE PollWatchdog
  <2>1. CASE svc' = DetachForForeignDiagnosticFingerprint(svc.pv)
    <3>1. svc'.acq = "Failed" /\ svc'.own = "OwnershipLost"
      BY <1>0, <2>1 DEF DetachForForeignDiagnosticFingerprint, Service
    <3> QED
      BY <1>8, <3>1
         DEF PollWatchdog, Idle, RunInv, Coherent, StartLabels, RecLabels
  <2>2. CASE /\ svc' = DetachForForeignDaq(svc)
             /\ ~(svc.acq = "Running" /\ HasSession)
    <3>1. svc'.acq = svc.acq /\ svc'.own = "OwnershipLost"
      BY <1>0, <2>2 DEF DetachForForeignDaq, Service
    <3>2. svc.acq # "Running"
      BY <2>2 DEF RunInv, Coherent, HasSession
    <3> QED
      BY <1>8, <3>1, <3>2
         DEF PollWatchdog, Idle, RunInv, Coherent, StartLabels, RecLabels
  <2> QED
    BY <1>8, <2>1, <2>2 DEF PollWatchdog
<1>9. CASE Crash \/ StopWithoutTransport
  <2>1. svc' = [Launched EXCEPT !.alive = FALSE] /\ pc' = "idle"
    BY <1>9 DEF Crash, StopWithoutTransport, Dies
  <2>2. svc'.acq = "NotRun" /\ svc'.own = "Disconnected"
    BY <2>1 DEF Launched
  <2> QED
    BY <2>1, <2>2 DEF RunInv, Coherent, StartLabels, RecLabels
<1>10. ReleaseSession => Idle
  BY DEF ReleaseSession
<1> QED
  BY <1>1, <1>2, <1>3, <1>4, <1>5, <1>6, <1>7, <1>8, <1>9, <1>10 DEF Command

\* The invariant holds when FIDGET is first launched.
LEMMA RunInit == Init => RunInv
BY DEF Init, SessionInit, Launched, RunInv, Coherent, StartLabels, RecLabels

\* Every step keeps it.
LEMMA RunStep ==
    ASSUME TypeInv, JournalInv, RunInv, [Next]_vars PROVE RunInv'
<1>1. CASE Operation
  BY <1>1, PauseResumeRuns, SourceRuns, PreviewRuns, StartRuns, StopRuns,
     RecoveryRuns DEF Operation
<1>2. CASE \/ Command \/ PollWatchdog \/ Crash \/ StopWithoutTransport
          \/ Launch
  BY <1>2, CommandRuns
<1>3. CASE Mvme \/ UNCHANGED vars
  BY <1>3 DEF Mvme, vars, RunInv, Coherent, HasSession
<1> QED
  BY <1>1, <1>2, <1>3 DEF Next

(***************************************************************************)
(* An acquisition shown as Running has its transport, its session and an   *)
(* Active record on disk, whatever replies and saves were lost and         *)
(* whatever other controllers and crashes did before: no operation of a    *)
(* running session dereferences a reset transport, and a crash while it    *)
(* runs finds the journal.                                                 *)
(***************************************************************************)
THEOREM RunningRecoverable == Spec => []RunningIsRecoverable
<1> DEFINE I == TypeInv /\ JournalInv /\ RunInv
<1>1. Init => I
  BY TypeInit, JournalStart, RunInit
<1>2. I /\ [Next]_vars => I'
  BY TypeStep, JournalStep, RunStep
<1>3. I => RunningIsRecoverable
  BY DEF RunInv, Coherent, RunningIsRecoverable, HasSession
<1> QED
  BY <1>1, <1>2, <1>3, PTL DEF Spec

----------------------------------------------------------------------------
(***************************************************************************)
(*             2. The published preview is the journaled one               *)
(***************************************************************************)
\* The entry is in the record on disk and in the one in memory.
Entered(e) == journal.preview = e /\ ses.rec.preview = e

\* A preview transaction before it has verified anything.
UnverifiedLabels ==
    PauseLabels \cup {"prv_check", "prv_select", "prv_read", "prv_arm",
        "prv_write", "prv_verify", "prv_rollback", "prv_rolled"}

\* A published preview is journaled until its restore has been verified.
PublishedOK ==
    /\ svc.acq = "Running" /\ svc.pv.active
    /\ ~(tx.kind \in {"restore", "stopRestore"} /\ tx.verified)
    => Entered(Armed(ses.quad, svc.pv.original, svc.pv.applied))

\* An apply publishes what it armed: its entry stays from the save to the
\* result unless the write could not be verified.
ApplyOK ==
    tx.kind = "apply" =>
        /\ ~svc.pv.active
        /\ pc = "prv_disarm" => ~tx.verified
        /\ pc = "prv_verify" \/ tx.verified => ~tx.rolled
        /\ pc \in UnverifiedLabels \ {"prv_rollback", "prv_rolled"} => ~tx.rolled
        /\ pc \in {"prv_write", "prv_verify"} \/ tx.verified =>
              Entered(Armed(tx.quad, tx.live, tx.req))

PreviewInv ==
    /\ pc = "idle" => tx.kind = "none"
    /\ pc = "op_end" => tx.kind \notin PrvKinds
    /\ tx.kind \in PrvKinds => tx.quad = ses.quad
    /\ tx.kind \in PrvKinds /\ pc \in UnverifiedLabels => ~tx.verified
    /\ pc \in {"prv_arm", "prv_rollback", "prv_rolled"} => tx.kind = "apply"
    /\ pc = "prv_disarm" /\ tx.kind # "apply" => tx.verified
    /\ PublishedOK
    /\ ApplyOK

\* An operation that returns session s and service v publishes a preview
\* only when both records name it.
LEMMA PreviewReturn ==
    ASSUME NEW s \in Session, NEW v \in Service, Return(s, v), RunInv',
           v.acq = "Running" /\ v.pv.active =>
              /\ journal'.preview = Armed(s.quad, v.pv.original, v.pv.applied)
              /\ s.rec.preview = Armed(s.quad, v.pv.original, v.pv.applied)
    PROVE  PreviewInv'
<1>1. Dropped(v).own = "Disconnected" /\ Dropped(v) \in Service
  BY DEF Dropped, Service, Ownership
<1>2. Released(v).own = "Disconnected"
  BY <1>1 DEF Released, Service
<1>3. svc'.acq = "Running" => svc'.own = "SessionOpen"
  BY DEF RunInv, Coherent
<1>4. PublishedOK'
  BY <1>1, <1>2, <1>3 DEF Return, PublishedOK, Entered
<1>5. pc' = "idle" /\ tx'.kind = "none"
  BY DEF Return, NoTx
<1> QED
  BY <1>4, <1>5 DEF PreviewInv, ApplyOK, PrvKinds

\* A step of any other operation keeps the preview entries of a running
\* session.
LEMMA OtherStep ==
    ASSUME PreviewInv, tx.kind \notin PrvKinds, tx'.kind \notin PrvKinds,
           pc' # "idle", pc' \notin PrvLabels,
           svc'.acq = "Running" =>
              /\ svc.acq = "Running" /\ svc'.pv = svc.pv
              /\ ses'.quad = ses.quad /\ ses'.rec.preview = ses.rec.preview
              /\ journal'.preview \in {journal.preview, ses.rec.preview}
    PROVE  PreviewInv'
BY DEF PreviewInv, PublishedOK, ApplyOK, Entered, PrvKinds, PrvLabels

\* A step of a preview transaction that saves and publishes nothing.
LEMMA PreviewMove ==
    ASSUME PreviewInv, tx.kind \in PrvKinds, UNCHANGED <<journal, svc, ses>>,
           pc' \notin {"idle", "op_end"}, tx'.kind = tx.kind, tx'.quad = tx.quad,
           tx'.live = tx.live, tx'.req = tx.req,
           tx'.verified = tx.verified, tx'.rolled = tx.rolled,
           pc' \in UnverifiedLabels => pc \in UnverifiedLabels,
           pc' \in UnverifiedLabels \ {"prv_rollback", "prv_rolled"} =>
              pc \in UnverifiedLabels \ {"prv_rollback", "prv_rolled"},
           pc' \in {"prv_write", "prv_verify"} =>
              tx.kind # "apply" \/ pc \in {"prv_write", "prv_verify"},
           pc' \in {"prv_arm", "prv_rollback", "prv_rolled"} => tx.kind = "apply",
           pc' # "prv_disarm"
    PROVE  PreviewInv'
BY DEF PreviewInv, PublishedOK, ApplyOK, Entered, PrvKinds, UnverifiedLabels,
       PauseLabels

\* The locals that a preview's result is made of.
SameRequest ==
    /\ tx'.kind = tx.kind /\ tx'.quad = tx.quad
    /\ tx'.live = tx.live /\ tx'.req = tx.req
    /\ tx'.verified = tx.verified /\ tx'.rolled = tx.rolled

\* Pausing and resuming do not touch them.
LEMMA PauseResumePreview ==
    ASSUME TypeInv, RunInv, PreviewInv, PauseResumeNext PROVE PreviewInv'
<1>1. tx \in Locals
  BY TypeFacts
<1>2. SameRequest
  <2>1. \/ tx' = tx \/ tx' = [tx EXCEPT !.paused = TRUE]
        \/ tx' = [tx EXCEPT !.failed = TRUE]
        \/ tx' = [tx EXCEPT !.resumed = TRUE]
        \/ tx' = [tx EXCEPT !.failed = TRUE, !.paused = FALSE]
    BY DEF PauseResumeNext, PauseModule, PauseDaq, PauseVerify, ResumeModule,
           ResumeDaq, ResumeVerify, Write, NotPaused, Failing
  <2> QED
    BY <1>1, <2>1 DEF SameRequest, Locals
<1>3. /\ pc \in PauseLabels \cup ResumeLabels
      /\ pc \in PauseLabels =>
           pc' \in PauseLabels \cup {PausedLabel[tx.kind], NotPausedLabel[tx.kind]}
      /\ pc \in ResumeLabels => pc' \in ResumeLabels \cup {ResumedLabel[tx.kind]}
      /\ UNCHANGED <<journal, svc, ses>>
  BY DEF PauseResumeNext, PauseModule, PauseDaq, PauseVerify, ResumeModule,
         ResumeDaq, ResumeVerify, Write, NotPaused, Failing, PauseLabels,
         ResumeLabels, HardwareOnly
<1>4. CASE tx.kind \in PrvKinds
  <2>1. \/ pc \in PauseLabels /\ pc' \in PauseLabels \cup {"prv_select", "prv_end"}
        \/ pc \in ResumeLabels /\ pc' \in ResumeLabels \cup {"prv_end"}
    BY <1>3, <1>4
       DEF TypeInv, KindOK, PrvKinds, PausedLabel, NotPausedLabel, ResumedLabel
  <2> QED
    BY <1>2, <1>3, <1>4, <2>1, PreviewMove
       DEF SameRequest, UnverifiedLabels, PauseLabels, ResumeLabels
<1>5. CASE tx.kind \notin PrvKinds
  <2>1. pc' # "idle" /\ pc' \notin PrvLabels
    BY <1>3, <1>5
       DEF TypeInv, KindOK, PrvKinds, PausedLabel, NotPausedLabel,
           ResumedLabel, PauseLabels, ResumeLabels, PrvLabels
  <2> QED
    BY <1>2, <1>3, <1>5, <2>1, OtherStep DEF SameRequest
<1> QED
  BY <1>4, <1>5

\* The steps of a preview transaction between its saves.
LEMMA PreviewMoves ==
    ASSUME TypeInv, PreviewInv,
           \/ PrvSelect \/ PrvRead \/ PrvWrite \/ PrvVerify \/ PrvRollback
           \/ PrvRolled \/ PrvPark \/ PrvSettle
    PROVE  PreviewInv'
<1>1. tx \in Locals /\ tx.kind \in PrvKinds
  BY TypeFacts
     DEF TypeInv, KindOK, PrvSelect, PrvRead, PrvWrite, PrvVerify, PrvRollback,
         PrvRolled, PrvPark, PrvSettle, PrvLabels
<1>2. UNCHANGED <<journal, svc, ses>>
  BY DEF PrvSelect, PrvRead, PrvWrite, PrvVerify, PrvRollback, PrvRolled,
         PrvPark, PrvSettle, HardwareOnly
<1> USE DEF UnverifiedLabels, PauseLabels
<1>3. CASE PrvSelect \/ PrvSettle
  <2>1. /\ \/ tx' = tx \/ tx' = [tx EXCEPT !.selected = TRUE]
           \/ tx' = [tx EXCEPT !.failed = TRUE]
        /\ \/ pc = "prv_select" /\ pc' \in {"prv_read", "prv_settle"}
           \/ pc' \in {"resume_module", "prv_end"}
    BY <1>3 DEF PrvSelect, PrvSettle, Write, Failing
  <2>2. SameRequest
    BY <1>1, <2>1 DEF SameRequest, Locals
  <2> QED
    BY <1>1, <1>2, <2>1, <2>2, PreviewMove DEF SameRequest
<1>4. CASE PrvRead
  <2>1. CASE Applying /\ tx' = [tx EXCEPT !.live = LiveParam] /\ pc' = "prv_arm"
    <3>1. /\ tx'.kind = "apply" /\ tx'.quad = tx.quad
          /\ tx'.verified = tx.verified /\ tx'.rolled = tx.rolled
      BY <1>1, <2>1 DEF Locals, Applying
    <3> QED
      BY <1>2, <1>4, <2>1, <3>1
         DEF PrvRead, Applying, PreviewInv, PublishedOK, ApplyOK, Entered,
             PrvKinds
  <2>2. CASE \/ ~Applying /\ tx' = tx /\ pc' = "prv_write"
             \/ Failing("prv_park")
    <3>1. SameRequest
      BY <1>1, <2>2 DEF SameRequest, Locals, Failing
    <3> QED
      BY <1>1, <1>2, <1>4, <2>2, <3>1, PreviewMove
         DEF PrvRead, SameRequest, Failing, Applying
  <2> QED
    BY <1>4, <2>1, <2>2 DEF PrvRead
<1>5. CASE PrvWrite
  <2>1. /\ pc = "prv_write"
        /\ \/ tx' = [tx EXCEPT !.attempted = TRUE] /\ pc' = "prv_verify"
           \/ /\ tx' = [tx EXCEPT !.attempted = TRUE, !.failed = TRUE]
              /\ pc' = IF Applying THEN "prv_rollback" ELSE "prv_park"
    BY <1>5 DEF PrvWrite, Write, Unverified
  <2>2. SameRequest
    BY <1>1, <2>1 DEF SameRequest, Locals
  <2> QED
    BY <1>1, <1>2, <2>1, <2>2, PreviewMove DEF SameRequest, Applying
<1>6. CASE PrvVerify
  <2>1. CASE tx' = [tx EXCEPT !.verified = TRUE] /\ pc' = "prv_park"
    <3>1. /\ tx'.kind = tx.kind /\ tx'.quad = tx.quad /\ tx'.live = tx.live
          /\ tx'.req = tx.req /\ tx'.verified /\ tx'.rolled = tx.rolled
      BY <1>1, <2>1 DEF Locals
    <3> QED
      BY <1>1, <1>2, <1>6, <2>1, <3>1
         DEF PrvVerify, PreviewInv, PublishedOK, ApplyOK, Entered, PrvKinds
  <2>2. CASE Unverified
    <3>1. SameRequest
      BY <1>1, <2>2 DEF SameRequest, Locals, Unverified
    <3> QED
      BY <1>1, <1>2, <1>6, <2>2, <3>1, PreviewMove
         DEF PrvVerify, Unverified, SameRequest, Applying
  <2> QED
    BY <1>6, <2>1, <2>2 DEF PrvVerify
<1>7. CASE PrvRollback
  <2>1. /\ pc = "prv_rollback"
        /\ \/ tx' = tx /\ pc' = "prv_rolled"
           \/ tx' = [tx EXCEPT !.failed = TRUE] /\ pc' = "prv_park"
    BY <1>7 DEF PrvRollback, Write, Failing
  <2>2. SameRequest
    BY <1>1, <2>1 DEF SameRequest, Locals
  <2>3. tx.kind = "apply"
    BY <2>1 DEF PreviewInv
  <2> QED
    BY <1>1, <1>2, <2>1, <2>2, <2>3, PreviewMove DEF SameRequest
<1>8. CASE PrvRolled
  <2>1. /\ pc = "prv_rolled" /\ pc' = "prv_park"
        /\ \/ tx' = [tx EXCEPT !.rolled = TRUE]
           \/ tx' = [tx EXCEPT !.failed = TRUE]
    BY <1>8 DEF PrvRolled
  <2>2. /\ tx'.kind = tx.kind /\ tx'.quad = tx.quad /\ tx'.live = tx.live
        /\ tx'.req = tx.req /\ tx'.verified = tx.verified
    BY <1>1, <2>1 DEF Locals
  <2> QED
    BY <1>1, <1>2, <2>1, <2>2
       DEF PreviewInv, PublishedOK, ApplyOK, Entered, PrvKinds
<1>9. CASE PrvPark
  <2>1. /\ pc = "prv_park"
        /\ \/ tx' = [tx EXCEPT !.parked = TRUE]
           \/ tx' = [tx EXCEPT !.failed = TRUE]
        /\ pc' = IF ClearsEntry THEN "prv_disarm" ELSE "prv_settle"
    BY <1>9 DEF PrvPark, Write
  <2>2. SameRequest
    BY <1>1, <2>1 DEF SameRequest, Locals
  <2>3. CASE ~ClearsEntry
    BY <1>1, <1>2, <2>1, <2>2, <2>3, PreviewMove DEF SameRequest
  <2>4. CASE ClearsEntry
    <3>1. IF tx.kind = "apply" THEN ~tx.verified ELSE tx.verified
      BY <2>4 DEF ClearsEntry, PreviewNowInactive, Applying, PreviewInv, ApplyOK
    <3> QED
      BY <1>1, <1>2, <2>1, <2>2, <2>4, <3>1
         DEF SameRequest, PreviewInv, PublishedOK, ApplyOK, Entered, PrvKinds
  <2> QED
    BY <2>3, <2>4
<1> QED
  BY <1>3, <1>4, <1>5, <1>6, <1>7, <1>8, <1>9

\* Arming and disarming the entry of the transaction at hand.
LEMMA PreviewSaves ==
    ASSUME TypeInv, PreviewInv, PrvArm \/ PrvDisarm PROVE PreviewInv'
<1>1. tx \in Locals /\ ses \in Session /\ ses.rec \in Record
      /\ tx.kind \in PrvKinds
  BY TypeFacts
     DEF TypeInv, KindOK, PrvArm, PrvDisarm, PrvLabels, Session
<1>2. CASE PrvArm
  <2> DEFINE e == Armed(tx.quad, tx.live, tx.req)
             rec == [ses.rec EXCEPT !.preview = e]
  <2>1. rec \in Record /\ rec.preview = e
    <3>1. e \in Restore(Params)
      BY <1>2, TypeFacts
         DEF TypeInv, KindOK, ValueOK, PrvArm, PrvLabels, Armed, Restore
    <3> HIDE DEF e
    <3> QED
      BY <1>1, <3>1 DEF Record
  <2>2. /\ pc = "prv_arm" /\ UNCHANGED svc
        /\ \/ /\ journal' = rec /\ ses' = [ses EXCEPT !.rec = rec]
              /\ tx' = [tx EXCEPT !.armed = TRUE] /\ pc' = "prv_write"
           \/ /\ ses' = ses
              /\ tx' = [tx EXCEPT !.failed = TRUE] /\ pc' = "prv_park"
    BY <1>2
       DEF PrvArm, SavePreviewRecoveryState, SaveJournal, Failing, DiskOnly
  <2>3. SameRequest
    BY <1>1, <2>2 DEF SameRequest, Locals
  <2>4. tx.kind = "apply" /\ ~tx.verified /\ ~tx.rolled /\ ~svc.pv.active
    BY <1>1, <2>2
       DEF PreviewInv, ApplyOK, UnverifiedLabels, PauseLabels
  <2> HIDE DEF e, rec
  <2>5. ses'.quad = ses.quad /\ (pc' = "prv_write" => ses'.rec = rec)
    BY <1>1, <2>1, <2>2 DEF Session
  <2>6. pc' = "prv_write" => Entered(e)'
    <3>1. pc' = "prv_write" => journal'.preview = e /\ ses'.rec.preview = e
      BY <2>1, <2>2, <2>5
    <3>2. e' = e
      BY <2>3 DEF e, SameRequest
    <3> QED
      BY <3>1, <3>2 DEF Entered
  <2>7. pc' = "prv_write" => Entered(Armed(tx.quad, tx.live, tx.req))'
    BY <2>6 DEF e
  <2> QED
    BY <2>2, <2>3, <2>4, <2>5, <2>7
       DEF SameRequest, PreviewInv, PublishedOK, ApplyOK, PrvKinds,
           UnverifiedLabels, PauseLabels
<1>3. CASE PrvDisarm
  <2>1. PICK rec \in Record :
           /\ rec.phase = ses.rec.phase
           /\ journal' \in {journal, rec}
           /\ ses' \in {ses, [ses EXCEPT !.rec = rec]}
    <3>1. /\ [ses.rec EXCEPT !.preview = Disarmed] \in Record
          /\ [ses.rec EXCEPT !.preview = Disarmed].phase = ses.rec.phase
      BY <1>1, ConstantsTyped DEF Record
    <3> QED
      BY <1>3, <3>1 DEF PrvDisarm, SavePreviewRecoveryState, SaveJournal
  <2>2. ses'.quad = ses.quad
    BY <2>1, SaveKeeps
  <2>3. /\ pc = "prv_disarm" /\ UNCHANGED svc /\ pc' = "prv_settle"
        /\ tx' = tx \/ tx' = [tx EXCEPT !.failed = TRUE]
    BY <1>3
       DEF PrvDisarm, SavePreviewRecoveryState, SaveJournal, DiskOnly
  <2>4. SameRequest
    BY <1>1, <2>3 DEF SameRequest, Locals
  <2>5. IF tx.kind = "apply" THEN ~tx.verified /\ ~svc.pv.active
                             ELSE tx.verified
    BY <2>3 DEF PreviewInv, ApplyOK
  <2> QED
    BY <1>1, <2>2, <2>3, <2>4, <2>5
       DEF SameRequest, PreviewInv, PublishedOK, ApplyOK, PrvKinds,
           UnverifiedLabels, PauseLabels
<1> QED
  BY <1>2, <1>3

\* A restore that could not be verified publishes the preview it found.
LEMMA FailedKeeps ==
    ASSUME TypeInv, NEW c \in BOOLEAN, NEW p \in BOOLEAN, NEW r \in BOOLEAN
    PROVE  /\ PreviewFailed(c, p, r) \in Preview
           /\ PreviewFailed(c, p, r).active = svc.pv.active
           /\ PreviewFailed(c, p, r).original = svc.pv.original
           /\ PreviewFailed(c, p, r).applied = svc.pv.applied
<1>1. svc.pv \in Preview
  BY TypeFacts DEF Service
<1> QED
  BY <1>1 DEF PreviewFailed, Preview

\* The results of a transaction are covered by the journal.
LEMMA PreviewEnds ==
    ASSUME TypeInv, RunInv', PreviewInv, PrvCheck \/ PrvEnd
    PROVE  PreviewInv'
<1>1. /\ tx \in Locals /\ ses \in Session /\ svc \in Service
      /\ tx.kind \in PrvKinds
  BY TypeFacts DEF TypeInv, KindOK, PrvCheck, PrvEnd, PrvLabels
<1>2. ASSUME NEW pv \in Preview, Frozen, Return(ses, [svc EXCEPT !.pv = pv]),
             pv.active =>
                \/ pv.original = svc.pv.original /\ pv.applied = svc.pv.applied
                   /\ svc.pv.active /\ tx.kind # "apply" /\ ~tx.verified
                \/ pv.original = tx.live /\ pv.applied = tx.req
                   /\ tx.kind = "apply" /\ tx.verified
      PROVE  PreviewInv'
  <2> DEFINE v == [svc EXCEPT !.pv = pv]
  <2>1. v \in Service /\ v.acq = svc.acq /\ v.pv = pv
    BY PublishKeeps
  <2>2. v.acq = "Running" /\ v.pv.active =>
           /\ journal'.preview = Armed(ses.quad, v.pv.original, v.pv.applied)
           /\ ses.rec.preview = Armed(ses.quad, v.pv.original, v.pv.applied)
    BY <1>1, <1>2, <2>1
       DEF PreviewInv, PublishedOK, ApplyOK, Entered, Frozen
  <2>3. Return(ses, v)
    BY <1>2
  <2> HIDE DEF v
  <2> QED
    BY <1>1, <2>1, <2>2, <2>3, PreviewReturn
<1>3. NoPreview \in Preview /\ ~NoPreview.active
  BY ConstantsTyped DEF NoPreview
<1>4. CASE PrvCheck
  <2>1. /\ pc = "prv_check" /\ Frozen
        /\ \/ pc' = "pause_module" /\ UNCHANGED <<tx, svc, ses>>
           \/ \E pv \in Preview : Return(ForeignSession,
                 DetachForForeignDiagnosticFingerprint(pv))
           \/ Return(ses, [svc EXCEPT !.pv = NoPreview])
           \/ /\ tx.kind # "apply"
              /\ Return(ses, [svc EXCEPT !.pv = PreviewFailed(TRUE, FALSE, FALSE)])
    BY <1>3, <1>4, FailedKeeps DEF PrvCheck, Applying
  <2>2. CASE pc' = "pause_module" /\ UNCHANGED <<tx, svc, ses>>
    BY <1>1, <2>1, <2>2, PreviewMove DEF Frozen, UnverifiedLabels, PauseLabels
  <2>3. CASE \E pv \in Preview : Return(ForeignSession,
                 DetachForForeignDiagnosticFingerprint(pv))
    <3>1. PICK pv \in Preview : Return(ForeignSession,
                 DetachForForeignDiagnosticFingerprint(pv))
      BY <2>3
    <3>2. DetachForForeignDiagnosticFingerprint(pv).acq = "Failed"
      BY <1>1 DEF DetachForForeignDiagnosticFingerprint, Service
    <3> QED
      BY <3>1, <3>2, ForeignCoherent, PreviewReturn
  <2>4. CASE Return(ses, [svc EXCEPT !.pv = NoPreview])
    BY <1>2, <1>3, <2>1, <2>4
  <2>5. CASE /\ tx.kind # "apply"
             /\ Return(ses, [svc EXCEPT !.pv = PreviewFailed(TRUE, FALSE, FALSE)])
    <3>1. ~tx.verified
      BY <1>1, <2>1 DEF PreviewInv, UnverifiedLabels
    <3> QED
      BY <1>2, <2>1, <2>5, <3>1, FailedKeeps
  <2> QED
    BY <2>1, <2>2, <2>3, <2>4, <2>5
<1>5. CASE PrvEnd
  <2>1. /\ PreviewResult \in Preview
        /\ PreviewResult.active =>
             \/ /\ PreviewResult.original = svc.pv.original
                /\ PreviewResult.applied = svc.pv.applied
                /\ svc.pv.active /\ tx.kind # "apply" /\ ~tx.verified
             \/ /\ PreviewResult.original = tx.live
                /\ PreviewResult.applied = tx.req
                /\ tx.kind = "apply" /\ tx.verified
    <3>1. CASE Applying /\ tx.verified
      BY <1>5, <3>1, ResultsTyped
         DEF PreviewResult, Applying, PrvEnd, PrvLabels
    <3>2. CASE ~Applying /\ ~tx.verified
      <4>1. tx.paused \in BOOLEAN /\ tx.resumed \in BOOLEAN
        BY <1>1 DEF Locals
      <4>2. PreviewResult = PreviewFailed(FALSE, tx.paused, tx.resumed)
        BY <3>2 DEF PreviewResult
      <4> QED
        BY <3>2, <4>1, <4>2, FailedKeeps DEF Applying
    <3>3. CASE ~(Applying /\ tx.verified) /\ ~(~Applying /\ ~tx.verified)
      BY <1>3, <3>3 DEF PreviewResult
    <3> QED
      BY <3>1, <3>2, <3>3
  <2>2. Frozen
    BY <1>5 DEF PrvEnd
  <2>3. CASE tx.kind # "stopRestore"
    BY <1>2, <1>5, <2>1, <2>2, <2>3 DEF PrvEnd
  <2>4. CASE tx.kind = "stopRestore"
    <3>1. /\ svc' = [svc EXCEPT !.pv = PreviewResult] /\ ses' = ses
          /\ tx' = [NoTx EXCEPT !.kind = "stop", !.release = tx.release,
                                !.since = tx.since,
                                !.left = tx.paused /\ ~tx.resumed]
          /\ pc' = "stop_source"
      BY <1>5, <2>4 DEF PrvEnd
    <3>2. svc'.acq = svc.acq /\ svc'.pv = PreviewResult
      BY <2>1, <3>1, PublishKeeps
    <3>3. tx'.kind = "stop"
      BY <3>1 DEF NoTx
    <3>4. PublishedOK'
      BY <2>1, <2>2, <2>4, <3>1, <3>2
         DEF PreviewInv, PublishedOK, Entered, Frozen
    <3> QED
      BY <3>1, <3>3, <3>4 DEF PreviewInv, ApplyOK, PrvKinds
  <2> QED
    BY <2>3, <2>4
<1> QED
  BY <1>4, <1>5

\* While no acquisition is running nothing of a preview is published.
LEMMA NotRunning ==
    ASSUME svc'.acq # "Running", tx'.kind \notin PrvKinds,
           pc' \notin PrvLabels, pc' = "idle" => tx'.kind = "none"
    PROVE  PreviewInv'
BY DEF PreviewInv, PublishedOK, ApplyOK, PrvKinds, PrvLabels

\* Source operations save another entry and publish no preview.
LEMMA SourcePreview ==
    ASSUME TypeInv, RunInv', PreviewInv, SourceNext PROVE PreviewInv'
<1>1. /\ ses \in Session /\ svc \in Service /\ svc.pv \in Preview
      /\ tx \in Locals /\ ses.rec \in Record
  BY TypeFacts DEF Service, Session
<1>2. tx.kind \notin PrvKinds
  BY DEF SourceNext, SrcCheck, SrcSelect, SrcRead, SrcArm, SrcWrite,
         SrcVerify, SrcRollback, SrcRolled, SrcPark, SrcDisarm, SrcEnd, OpEnd,
         SrcrCheck, SrcrSelect, SrcrWrite, SrcrVerify, SrcrPark, SrcrDisarm,
         SrcrEnd, TypeInv, KindOK, PreviewInv, PrvKinds, SrcPre, SrcPost,
         SrcEnds, SrcrLabels
<1>3. CASE SrcCheck \/ SrcrCheck \/ OpEnd
  <2>1. Frozen
    BY <1>3 DEF SrcCheck, SrcrCheck, OpEnd
  <2>2. CASE Return(ses, svc)
    BY <1>1, <1>2, <2>1, <2>2, PreviewReturn
       DEF PreviewInv, PublishedOK, Entered, Frozen, PrvKinds
  <2>3. CASE Return(ForeignSession, DetachForForeignDiagnosticFingerprint(svc.pv))
    <3>1. DetachForForeignDiagnosticFingerprint(svc.pv).acq = "Failed"
      BY <1>1 DEF DetachForForeignDiagnosticFingerprint, Service
    <3> QED
      BY <1>1, <2>3, <3>1, ForeignCoherent, PreviewReturn
  <2>4. CASE pc' = "pause_module" /\ UNCHANGED <<tx, svc, ses>>
    BY <1>2, <2>1, <2>4, OtherStep DEF Frozen, PrvLabels
  <2> QED
    BY <1>3, <2>2, <2>3, <2>4 DEF SrcCheck, SrcrCheck, OpEnd
<1>4. CASE SrcArm \/ SrcDisarm \/ SrcrDisarm
  <2>1. PICK e : LET rec == [ses.rec EXCEPT !.source = e]
                 IN  /\ e \in Restore(Words)
                     /\ journal' \in {journal, rec}
                     /\ ses' \in {ses, [ses EXCEPT !.rec = rec]}
    BY <1>4, EntrySaved
  <2>2. /\ UNCHANGED svc
        /\ pc' \in {"src_write", "src_park", "src_end", "srcr_end"}
        /\ \/ tx' = tx \/ tx' = [tx EXCEPT !.failed = TRUE]
           \/ \E b : tx' = [tx EXCEPT !.armed = b]
    BY <1>4
       DEF SrcArm, SrcDisarm, SrcrDisarm, SaveSourceRecoveryState, SaveJournal,
           Failing, DiskOnly
  <2>3. tx'.kind = tx.kind
    BY <1>1, <2>2 DEF Locals
  <2>4. /\ [ses.rec EXCEPT !.source = e] \in Record
        /\ [ses.rec EXCEPT !.source = e].phase = ses.rec.phase
        /\ [ses.rec EXCEPT !.source = e].preview = ses.rec.preview
    BY <1>1, <2>1 DEF Record
  <2>5. ses'.quad = ses.quad /\ ses'.rec.preview = ses.rec.preview
    BY <2>1, <2>4, SaveKeeps
  <2>6. journal'.preview \in {journal.preview, ses.rec.preview}
    BY <2>1, <2>4
  <2> QED
    BY <1>2, <2>2, <2>3, <2>5, <2>6, OtherStep DEF PrvLabels
<1>5. CASE \/ SrcSelect \/ SrcRead \/ SrcWrite \/ SrcVerify \/ SrcRollback
          \/ SrcRolled \/ SrcPark \/ SrcEnd
          \/ SrcrSelect \/ SrcrWrite \/ SrcrVerify \/ SrcrPark
  <2>1. /\ UNCHANGED <<journal, svc, ses>>
        /\ pc' \notin PrvLabels \cup {"idle"}
    BY <1>5
       DEF SrcSelect, SrcRead, SrcWrite, SrcVerify, SrcRollback, SrcRolled,
           SrcPark, SrcEnd, SrcrSelect, SrcrWrite, SrcrVerify, SrcrPark,
           Write, Failing, HardwareOnly, PrvLabels
  <2>2. tx'.kind = tx.kind
    <3>1. CASE SrcRead
      BY <1>1, <3>1 DEF SrcRead, Failing, Locals
    <3>2. CASE ~SrcRead
      <4>1. \/ tx' = tx \/ tx' = [tx EXCEPT !.selected = TRUE]
            \/ tx' = [tx EXCEPT !.failed = TRUE]
            \/ tx' = [tx EXCEPT !.attempted = TRUE]
            \/ tx' = [tx EXCEPT !.attempted = TRUE, !.failed = TRUE]
            \/ tx' = [tx EXCEPT !.verified = TRUE]
            \/ tx' = [tx EXCEPT !.rolled = TRUE]
            \/ tx' = [tx EXCEPT !.parked = TRUE]
        BY <1>5, <3>2
           DEF SrcSelect, SrcWrite, SrcVerify, SrcRollback, SrcRolled, SrcPark,
               SrcEnd, SrcrSelect, SrcrWrite, SrcrVerify, SrcrPark, Write,
               Failing
      <4> QED
        BY <1>1, <4>1 DEF Locals
    <3> QED
      BY <3>1, <3>2
  <2> QED
    BY <1>2, <2>1, <2>2, OtherStep
<1>6. CASE SrcrEnd
  <2>1. /\ UNCHANGED <<journal, svc, ses>>
        /\ pc' \in {"stop_module", "stop_check"} /\ tx'.kind = "stop"
    BY <1>6 DEF SrcrEnd, HardwareOnly, NoTx
  <2> QED
    BY <1>2, <2>1, OtherStep DEF PrvLabels, PrvKinds
<1> QED
  BY <1>3, <1>4, <1>5, <1>6 DEF SourceNext

\* Start and recovery run beside no published acquisition, and Start
\* publishes one without a preview.
LEMMA StartPreview ==
    ASSUME TypeInv, TypeInv', RunInv, RunInv', PreviewInv, StartNext
    PROVE  PreviewInv'
<1>1. /\ tx \in Locals /\ svc \in Service /\ pc \in StartLabels
      /\ tx.kind = "start" /\ svc.acq = "Starting" /\ ~svc.pv.active
      /\ NoSession \in Session
  <2>1. pc \in StartLabels
    BY DEF StartNext, StartGate, StartProbe, StartJournal, StartGate2,
           StartQuiesce, StartQuiet, StartOpen, StartStack, StartSetup,
           StartTrigger, StartReset, StartModule, StartDaq, StartVerify,
           StartActivate, StartWrite, StartLabels
  <2> QED
    BY <2>1, TypeFacts, ConstantsTyped DEF TypeInv, KindOK, RunInv
<1>2. ASSUME NEW v \in Service, NotPrepared(v) PROVE PreviewInv'
  <2>1. /\ [v EXCEPT !.acq = "Failed"] \in Service
        /\ [v EXCEPT !.acq = "Failed"].acq = "Failed"
    BY DEF Service, Acquisition
  <2> QED
    BY <1>1, <1>2, <2>1, PreviewReturn DEF NotPrepared
<1>3. ASSUME NEW v \in Service, PreparedOrphan(v) PROVE PreviewInv'
  <2>1. PICK own \in {"OwnershipLost", "RecoveryRequired"} :
           NotPrepared([v EXCEPT !.pending = tx.rec, !.own = own])
    BY <1>3 DEF PreparedOrphan
  <2>2. [v EXCEPT !.pending = tx.rec, !.own = own] \in Service
    BY TypeFacts DEF Service, Ownership
  <2> QED
    BY <1>2, <2>1, <2>2
<1>4. ASSUME NEW r \in Record, StartFailed(r) PROVE PreviewInv'
  <2> DEFINE s == [state |-> "Failed", foreign |-> FALSE, orphan |-> FALSE,
                   rec |-> r, quad |-> tx.quad, reset |-> NonTargets]
             v == [svc EXCEPT !.acq = "Failed", !.pending = r]
  <2>1. s \in Session /\ v \in Service /\ v.acq = "Failed" /\ Return(s, v)
    BY <1>1, <1>4, TypeFacts DEF Session, Service, Acquisition, StartFailed
  <2> HIDE DEF s, v
  <2> QED
    BY <2>1, PreviewReturn
<1>5. svc \in Service /\ DetachForForeignDaq(svc) \in Service
  BY <1>1 DEF DetachForForeignDaq, Service, Ownership
<1>6. CASE \/ StartGate \/ StartProbe \/ StartGate2 \/ StartOpen
          \/ StartVerify \/ StartJournal \/ StartQuiesce \/ StartQuiet
          \/ StartStack \/ StartSetup \/ StartTrigger \/ StartReset
          \/ StartModule \/ StartDaq
  <2>1. \/ UNCHANGED <<svc, ses>> /\ pc' \in StartLabels
        \/ NotPrepared(svc) \/ NotPrepared(DetachForForeignDaq(svc))
        \/ PreparedOrphan(svc) \/ PreparedOrphan(DetachForForeignDaq(svc))
        \/ StartFailed(tx.rec)
    BY <1>6
       DEF StartGate, StartProbe, StartGate2, StartOpen, StartVerify,
           StartJournal, StartQuiesce, StartQuiet, StartStack, StartSetup,
           StartTrigger, StartReset, StartModule, StartDaq, StartWrite, Write,
           SaveJournal, HardwareOnly, StartLabels
  <2>2. CASE UNCHANGED <<svc, ses>> /\ pc' \in StartLabels
    <3>1. tx'.kind = "start"
      BY <2>2 DEF TypeInv, KindOK
    <3> QED
      BY <1>1, <2>2, <3>1, NotRunning DEF PrvKinds, PrvLabels, StartLabels
  <2> QED
    BY <1>2, <1>3, <1>4, <1>5, <2>1, <2>2, TypeFacts
<1>7. CASE StartActivate
  <2>1. PICK rec : /\ rec = [tx.rec EXCEPT !.phase = "Active"]
                   /\ \/ /\ journal' = rec
                         /\ Return([state |-> "Running", foreign |-> FALSE,
                                    orphan |-> FALSE, rec |-> rec,
                                    quad |-> tx.quad, reset |-> NonTargets],
                                   [svc EXCEPT !.acq = "Running",
                                               !.receiver = TRUE])
                      \/ StartFailed(rec)
    BY <1>7 DEF StartActivate, SaveJournal
  <2>2. rec \in Record
    BY <2>1, TypeFacts DEF Record, Phases
  <2>3. CASE ~StartFailed(rec)
    <3> DEFINE s == [state |-> "Running", foreign |-> FALSE, orphan |-> FALSE,
                     rec |-> rec, quad |-> tx.quad, reset |-> NonTargets]
               v == [svc EXCEPT !.acq = "Running", !.receiver = TRUE]
    <3>1. s \in Session /\ v \in Service /\ v.pv = svc.pv /\ Return(s, v)
      BY <1>1, <2>1, <2>2, <2>3, TypeFacts DEF Session, Service, Acquisition
    <3> HIDE DEF s, v
    <3> QED
      BY <1>1, <3>1, PreviewReturn
  <2> QED
    BY <1>4, <2>1, <2>2, <2>3
<1> QED
  BY <1>6, <1>7 DEF StartNext

\* A recovery begins and ends without a published acquisition.
LEMMA RecoveryPreview ==
    ASSUME TypeInv, TypeInv', RunInv, PreviewInv, RecoveryNext
    PROVE  PreviewInv'
<1>1. pc \in RecLabels
  BY DEF RecoveryNext, RecCheck, RecGate, RecTarget, RecStop, RecStopped,
         RecOthers, RecQuiet, RbGate1, RbSelect, RbRead, RbGate2, RbDecide,
         RbWrite, RbVerify, RbGate3, RbPark, RbSave, RecMvlc, RecClear,
         RecRemove, IdleGate, RecWrite, RecLabels
<1>2. svc.acq # "Running" /\ svc \in Service
  BY <1>1, TypeFacts DEF RunInv
<1>3. \/ UNCHANGED <<svc, ses>> /\ pc' \in RecLabels
      \/ RecFail \/ RecDone
  BY DEF RecoveryNext, RecCheck, RecGate, RecTarget, RecStop, RecStopped,
         RecOthers, RecQuiet, RbGate1, RbSelect, RbRead, RbGate2, RbDecide,
         RbWrite, RbVerify, RbGate3, RbPark, RbSave, RecMvlc, RecClear,
         RecRemove, IdleGate, RecWrite, RecLabels, Write, Going, Failing,
         SaveJournal, RemoveJournal, HardwareOnly, NextRestore, RestoreLabel,
         ParkLabel
<1>4. CASE UNCHANGED <<svc, ses>> /\ pc' \in RecLabels
  <2>1. tx'.kind = "recover"
    BY <1>4 DEF TypeInv, KindOK
  <2> QED
    BY <1>2, <1>4, <2>1, NotRunning DEF PrvKinds, PrvLabels, RecLabels
<1>5. CASE RecFail
  <2>1. PICK p : svc' = [svc EXCEPT !.own = "RecoveryRequired",
                                    !.transport = FALSE, !.pending = p]
    BY <1>5 DEF RecFail
  <2>2. svc'.acq = svc.acq
    BY <1>2, <2>1 DEF Service
  <2> QED
    BY <1>2, <1>5, <2>2, NotRunning DEF RecFail, NoTx, PrvKinds, PrvLabels
<1>6. CASE RecDone
  BY <1>6, NotRunning DEF RecDone, Launched, NoTx, PrvKinds, PrvLabels
<1> QED
  BY <1>3, <1>4, <1>5, <1>6

\* Stop ends the published acquisition or leaves its preview as it is.
LEMMA StopPreview ==
    ASSUME TypeInv, TypeInv', RunInv', PreviewInv, StopNext PROVE PreviewInv'
<1>1. /\ ses \in Session /\ svc \in Service /\ ses.rec \in Record
      /\ tx.kind = "stop"
  <2>1. pc \in StopLabels
    BY DEF StopNext, StopSource, StopCheck, StopModule, StopStopped,
           StopOthers, StopOther, StopQuiet, StopMvlc, StopClear, StopEnd,
           StopLabels
  <2> QED
    BY <2>1, TypeFacts DEF Session, TypeInv, KindOK
<1>2. ASSUME NEW s \in Session, NEW v \in Service, StopResult(s, v)
      PROVE  PreviewInv'
  <2> DEFINE w == [v EXCEPT !.acq = "Failed", !.receiver = FALSE,
                            !.pending = ses.rec]
  <2>1. w \in Service /\ w.acq = "Failed" /\ Return(s, w)
    BY <1>1, <1>2 DEF Service, Acquisition, StopResult
  <2> HIDE DEF w
  <2> QED
    BY <2>1, PreviewReturn
<1>3. /\ [svc EXCEPT !.own = "OwnershipLost"] \in Service
      /\ [svc EXCEPT !.own = "RecoveryRequired"] \in Service
      /\ ForeignSession \in Session
      /\ [ses EXCEPT !.state = "Failed"] \in Session
      /\ [ses EXCEPT !.state = "Failed", !.orphan = TRUE] \in Session
  BY <1>1 DEF Service, Ownership, Session, ForeignSession
<1>4. CASE \/ StopSource \/ StopModule \/ StopStopped \/ StopOthers
          \/ StopOther \/ StopMvlc \/ StopClear
          \/ (pc = "stop_check" /\ pc' = "stop_module"
              /\ UNCHANGED <<tx, svc, ses, journal>>)
  <2>1. /\ UNCHANGED <<journal, svc, ses>>
        /\ pc' \in StopLabels \cup SrcrLabels
    BY <1>4
       DEF StopSource, StopModule, StopStopped, StopOthers, StopOther,
           StopMvlc, StopClear, Write, Failing, HardwareOnly, StopLabels,
           SrcrLabels
  <2>2. tx'.kind \notin PrvKinds
    BY <2>1 DEF TypeInv, KindOK, PrvKinds
  <2> QED
    BY <1>1, <2>1, <2>2, OtherStep
       DEF PrvKinds, PrvLabels, StopLabels, SrcrLabels
<1>5. CASE StopQuiet
  <2>1. /\ UNCHANGED <<journal, svc>>
        /\ pc' = "stop_others"
        /\ \E r : ses' = [ses EXCEPT !.reset = r] \/ ses' = ses
    BY <1>5 DEF StopQuiet
  <2>2. ses'.rec = ses.rec /\ ses'.quad = ses.quad
    BY <1>1, <2>1 DEF Session
  <2>3. tx'.kind \notin PrvKinds
    BY <2>1 DEF TypeInv, KindOK, PrvKinds, StopLabels
  <2> QED
    BY <1>1, <2>1, <2>2, <2>3, OtherStep DEF PrvKinds, PrvLabels
<1>6. CASE StopCheck
  BY <1>2, <1>3, <1>4, <1>6 DEF StopCheck, Frozen
<1>7. CASE StopEnd
  <2>1. \/ StopResult([ses EXCEPT !.state = "Failed", !.orphan = TRUE],
                      [svc EXCEPT !.own = "RecoveryRequired"])
        \/ StopResult([ses EXCEPT !.state = "Failed"], svc)
        \/ Return(NoSession, [svc EXCEPT !.acq = "Stopped",
                                 !.receiver = FALSE, !.pending = NoRecord])
    BY <1>7 DEF StopEnd, RemoveJournal
  <2>2. /\ [svc EXCEPT !.acq = "Stopped", !.receiver = FALSE,
                       !.pending = NoRecord] \in Service
        /\ [svc EXCEPT !.acq = "Stopped", !.receiver = FALSE,
                       !.pending = NoRecord].acq = "Stopped"
        /\ NoSession \in Session
    BY <1>1, ConstantsTyped DEF Service, Acquisition
  <2> QED
    BY <1>1, <1>2, <1>3, <2>1, <2>2, PreviewReturn
<1> QED
  BY <1>4, <1>5, <1>6, <1>7 DEF StopNext

\* A preview transaction begins with what the service publishes, every other
\* command with nothing of a preview.
LEMMA BeginPreview ==
    ASSUME TypeInv, TypeInv', PreviewInv, UNCHANGED <<svc, ses>>, Frozen,
           tx.kind = "none",
           \/ ChangeDiagnosticSource \/ ApplyDiagnosticPreview
           \/ RestoreDiagnosticPreview \/ StopTask(FALSE) \/ StopTask(TRUE)
           \/ RecoverDiagnosticOrphan
    PROVE  PreviewInv'
<1>1. CASE ApplyDiagnosticPreview
  <2>1. PICK p \in PreviewValues :
           Begin("apply", [NoTx EXCEPT !.quad = ses.quad, !.req = p], "prv_check")
    BY <1>1 DEF ApplyDiagnosticPreview
  <2>2. /\ tx'.kind = "apply" /\ tx'.quad = ses.quad /\ ~tx'.verified
        /\ ~tx'.rolled /\ pc' = "prv_check" /\ ~svc.pv.active
    BY <1>1, <2>1 DEF Begin, NoTx, ApplyDiagnosticPreview
  <2> QED
    BY <2>2
       DEF PreviewInv, PublishedOK, ApplyOK, PrvKinds, UnverifiedLabels,
           PauseLabels
<1>2. CASE \/ RestoreDiagnosticPreview
          \/ ((StopTask(FALSE) \/ StopTask(TRUE)) /\ Restorable)
  <2>1. \/ Begin("restore", PreviewLocals, "prv_check")
        \/ \E r : Begin("stopRestore", [PreviewLocals EXCEPT !.release = r],
                        "prv_check")
    BY <1>2 DEF RestoreDiagnosticPreview, StopTask
  <2>2. /\ tx'.kind \in {"restore", "stopRestore"} /\ tx'.quad = ses.quad
        /\ ~tx'.verified /\ pc' = "prv_check"
    <3>1. /\ PreviewLocals \in Locals /\ PreviewLocals.quad = ses.quad
          /\ ~PreviewLocals.verified
      <4>1. /\ svc.pv.applied \in Nat /\ svc.pv.original \in Values
            /\ ses.quad \in Banks
        BY TypeFacts, ParamAssumption DEF Service, Preview, Values, Session
      <4>2. NoTx \in Locals /\ ~NoTx.verified
        BY ConstantsTyped DEF NoTx
      <4> QED
        BY <4>1, <4>2 DEF PreviewLocals, Locals
    <3> QED
      BY <2>1, <3>1 DEF Begin, Locals
  <2>3. PublishedOK'
    BY <2>2 DEF PreviewInv, PublishedOK, Entered, Frozen
  <2> QED
    BY <2>2, <2>3 DEF PreviewInv, ApplyOK, PrvKinds
<1>3. CASE \/ ChangeDiagnosticSource \/ RecoverDiagnosticOrphan
          \/ ((StopTask(FALSE) \/ StopTask(TRUE)) /\ ~Restorable)
  <2>1. pc' \in {"src_check", "rec_check", "stop_source"}
    BY <1>3
       DEF ChangeDiagnosticSource, RecoverDiagnosticOrphan, StopTask, Begin
  <2>2. tx'.kind \notin PrvKinds
    BY <2>1
       DEF TypeInv, KindOK, PrvKinds, SrcPre, RecLabels, StopLabels
  <2> QED
    BY <2>1, <2>2, OtherStep DEF Frozen, PrvKinds, PrvLabels
<1> QED
  BY <1>1, <1>2, <1>3

\* Commands that complete at once, the watchdog, and the life of the process.
LEMMA OncePreview ==
    ASSUME TypeInv, RunInv, RunInv', PreviewInv,
           \/ CheckStatus \/ OpenSession \/ CheckDiagnosticRecoveryStatus
           \/ UseProject \/ Launch \/ PollWatchdog
           \/ Crash \/ StopWithoutTransport
           \/ (ReleaseSession /\ ~StopTask(TRUE))
    PROVE  PreviewInv'
<1>0. svc \in Service /\ UNCHANGED journal
  BY TypeFacts
     DEF CheckStatus, OpenSession, CheckDiagnosticRecoveryStatus, UseProject,
         Launch, PollWatchdog, Crash, StopWithoutTransport, Dies,
         ReleaseSession, Frozen
<1>1. CASE Crash \/ StopWithoutTransport
  BY <1>1, NotRunning
     DEF Crash, StopWithoutTransport, Dies, Launched, NoTx, PrvKinds, PrvLabels
<1>2. CASE ~(Crash \/ StopWithoutTransport)
  <2>1. UNCHANGED <<pc, tx>> /\ pc = "idle" /\ tx.kind = "none"
    BY <1>2
       DEF CheckStatus, OpenSession, CheckDiagnosticRecoveryStatus, UseProject,
           Launch, PollWatchdog, ReleaseSession, Idle, RunInv, PreviewInv
  <2>2. svc'.acq # "Running"
    <3>1. CASE \/ CheckStatus \/ OpenSession \/ CheckDiagnosticRecoveryStatus
      <4>1. svc.acq # "Running"
        BY <3>1
           DEF CheckStatus, OpenSession, CheckDiagnosticRecoveryStatus,
               Recoverable, RunInv, Coherent
      <4>2. svc'.acq = svc.acq
        BY <1>0, <3>1
           DEF CheckStatus, OpenSession, CheckDiagnosticRecoveryStatus, Service
      <4> QED
        BY <4>1, <4>2
    <3>2. CASE UseProject \/ Launch
      BY <3>2, LoadedRuns DEF UseProject, Launch
    <3>3. CASE ReleaseSession /\ ~StopTask(TRUE)
      <4>1. Dropped(svc) \in Service /\ Dropped(svc).own = "Disconnected"
        BY <1>0 DEF Dropped, Service, Ownership
      <4>2. Released(svc).own = "Disconnected"
        BY <4>1 DEF Released, Service
      <4> QED
        BY <3>3, <4>1, <4>2 DEF ReleaseSession, RunInv, Coherent
    <3>4. CASE PollWatchdog
      <4>1. svc'.own = "OwnershipLost"
        BY <1>0, <3>4
           DEF PollWatchdog, DetachForForeignDiagnosticFingerprint,
               DetachForForeignDaq, Service
      <4> QED
        BY <4>1 DEF RunInv, Coherent
    <3> QED
      BY <1>2, <3>1, <3>2, <3>3, <3>4
  <2> QED
    BY <2>1, <2>2, NotRunning DEF PrvKinds, PrvLabels
<1> QED
  BY <1>1, <1>2

\* Every step keeps the invariant.
LEMMA PreviewStep ==
    ASSUME TypeInv, TypeInv', JournalInv, RunInv, RunInv', PreviewInv,
           [Next]_vars
    PROVE  PreviewInv'
<1>1. CASE Operation
  <2>1. CASE PreviewNext
    BY <2>1, PreviewMoves, PreviewSaves, PreviewEnds DEF PreviewNext
  <2> QED
    BY <1>1, <2>1, PauseResumePreview, SourcePreview, StartPreview,
       RecoveryPreview, StopPreview DEF Operation
<1>2. CASE StartDiagnosticAcquisition
  <2>1. PICK q \in Quads : Begin("start", [NoTx EXCEPT !.quad = q], "start_gate")
    BY <1>2 DEF StartDiagnosticAcquisition
  <2>2. tx'.kind = "start" /\ pc' = "start_gate"
    BY <2>1 DEF Begin, NoTx
  <2>3. svc'.acq = "Starting"
    BY <1>2, TypeFacts DEF StartDiagnosticAcquisition, Service
  <2> QED
    BY <2>2, <2>3, NotRunning DEF PrvKinds, PrvLabels
<1>3. CASE \/ ChangeDiagnosticSource \/ ApplyDiagnosticPreview
          \/ RestoreDiagnosticPreview \/ StopDiagnosticAcquisition
          \/ RecoverDiagnosticOrphan \/ (ReleaseSession /\ StopTask(TRUE))
  <2>1. Idle /\ Frozen /\ UNCHANGED <<svc, ses>>
    BY <1>3
       DEF ChangeDiagnosticSource, ApplyDiagnosticPreview,
           RestoreDiagnosticPreview, StopDiagnosticAcquisition,
           RecoverDiagnosticOrphan, ReleaseSession, StopTask
  <2>2. tx.kind = "none"
    BY <2>1 DEF Idle, PreviewInv
  <2> QED
    BY <1>3, <2>1, <2>2, BeginPreview DEF StopDiagnosticAcquisition
<1>4. CASE \/ CheckStatus \/ OpenSession \/ CheckDiagnosticRecoveryStatus
          \/ UseProject \/ Launch \/ PollWatchdog
          \/ Crash \/ StopWithoutTransport
          \/ (ReleaseSession /\ ~StopTask(TRUE))
  BY <1>4, OncePreview
<1>5. CASE Mvme \/ UNCHANGED vars
  BY <1>5 DEF Mvme, vars, PreviewInv, PublishedOK, ApplyOK, Entered
<1> QED
  BY <1>1, <1>2, <1>3, <1>4, <1>5 DEF Next, Command

\* The invariant holds when FIDGET is first launched.
LEMMA PreviewInit == Init => PreviewInv
BY DEF Init, SessionInit, Launched, NoTx, PreviewInv, PublishedOK, ApplyOK,
       PrvKinds

(***************************************************************************)
(* The preview shown to the user while a session acquires is, value by     *)
(* value, the entry of the journal on disk, whatever replies and saves     *)
(* failed before: Restore and Stop write back what a recovery would.       *)
(***************************************************************************)
THEOREM PublishedJournaled == Spec => []PublishedPreviewIsJournaled
<1> DEFINE I == TypeInv /\ JournalInv /\ RunInv /\ PreviewInv
<1>1. Init => I
  BY TypeInit, JournalStart, RunInit, PreviewInit
<1>2. I /\ [Next]_vars => I'
  <2> SUFFICES ASSUME TypeInv, JournalInv, RunInv, PreviewInv, [Next]_vars
               PROVE  I'
    OBVIOUS
  <2>1. TypeInv' /\ JournalInv' /\ RunInv'
    BY TypeStep, JournalStep, RunStep
  <2> QED
    BY <2>1, PreviewStep
<1>3. I => PublishedPreviewIsJournaled
  BY DEF PreviewInv, PublishedOK, Entered, PublishedPreviewIsJournaled,
         Acquiring, Idle
<1> QED
  BY <1>1, <1>2, <1>3, PTL DEF Spec

----------------------------------------------------------------------------
(***************************************************************************)
(* What FIDGET writes into the crate: nothing into another controller's    *)
(* run that was in progress when a change, a start or a recovery was       *)
(* requested, a temporary change only while data taking is paused and only *)
(* in the session's bank, and in a recovery only the recorded original     *)
(* over the recorded applied value.                                        *)
(*                                                                         *)
(* Each of these is decided by a read several steps before the write it    *)
(* guards, so CrateInv says what is still known of the registers at every  *)
(* label in between, as long as nobody else has acted.                     *)
(***************************************************************************)

\* The operation in progress was requested no later than now.
SinceOK ==
    pc # "idle" =>
        /\ tx.since = "running" => mvme # "away"
        /\ tx.since = "stopped" => mvme = "stopped"

\* restoreBanked, and the part of it between the selection and the write.
RbLabels == {"rb_gate1", "rb_select", "rb_read", "rb_gate2", "rb_decide",
             "rb_write", "rb_verify", "rb_gate3", "rb_park", "rb_save"}
RestoresOwn ==
    /\ pc \in RbLabels => Entry.required
    /\ pc \in {"rb_gate1", "rb_select", "rb_read"} => ~tx.attempted
    /\ pc = "rb_write" => tx.attempted
    /\ mvme = tx.since =>
        /\ pc \in {"rb_read", "rb_gate2", "rb_decide", "rb_write"} =>
              hw.selector = Entry.quad
        /\ pc \in {"rb_gate2", "rb_decide", "rb_write"} /\ tx.attempted =>
              LiveBanked = Entry.applied

\* A change that has verified the fingerprint.
Changing ==
    (SrcPre \ {"src_check"}) \cup SrcPost \cup SrcEnds
        \cup (PrvLabels \ {"prv_check"}) \cup {"op_end"}
        \cup PauseLabels \cup ResumeLabels
\* What each operation has read of a run it found in progress.
Spares ==
    tx.since = "running" /\ mvme = "running" =>
        /\ pc \in Changing /\ tx.kind \notin StopKinds => hw.stack # "foreign"
        /\ pc \in StartLabels \ {"start_gate", "start_verify", "start_activate"} =>
              hw.daq = 0
        /\ pc \in RecLabels \ {"rec_check"} => hw.daq = 0 \/ hw.stack # "foreign"

\* A change between the selection of its bank and the verification.
Reading == {"src_read", "src_arm", "src_write", "src_verify", "src_rollback",
            "prv_read", "prv_arm", "prv_write", "prv_verify", "prv_rollback"}
\* The flag of a pause is the stopped module, and a change goes on only from
\* a verified pause.
PausedOK ==
    tx.kind # "stopSource" =>
        /\ pc \in {"src_check", "prv_check"} => ~tx.paused
        /\ mvme = "away" =>
             /\ pc \in PauseLabels /\ tx.paused => hw.run = 0
             /\ pc \in Reading \cup {"src_select", "prv_select"} =>
                   hw.run = 0 /\ hw.daq = 0
             /\ pc \in Reading => hw.selector = tx.quad
\* A source change works in the session's bank.
QuadOK == tx.kind = "source" => tx.quad = ses.quad

CrateInv == SinceOK /\ RestoresOwn /\ Spares /\ PausedOK /\ QuadOK

----------------------------------------------------------------------------
(***************************************************************************)
(*                  1. What one step leaves of the state                   *)
(***************************************************************************)
\* What each write leaves in the registers.
LEMMA SetFields ==
    ASSUME hw \in Hardware
    PROVE  /\ \A v \in {0, 1} :
                 /\ SetDaq(v).daq = v /\ SetDaq(v).stack = hw.stack
                 /\ SetDaq(v).run = hw.run /\ SetDaq(v).selector = hw.selector
                 /\ SetDaq(v).sample = hw.sample /\ SetDaq(v).param = hw.param
                 /\ SetDaq(v).others = hw.others
           /\ \A v \in {0, 1} :
                 /\ SetRun(v).daq = hw.daq /\ SetRun(v).stack = hw.stack
                 /\ SetRun(v).run = v /\ SetRun(v).selector = hw.selector
                 /\ SetRun(v).sample = hw.sample /\ SetRun(v).param = hw.param
                 /\ SetRun(v).others = hw.others
           /\ \A s : /\ SetStack(s).daq = hw.daq /\ SetStack(s).stack = s
                     /\ SetStack(s).run = hw.run
                     /\ SetStack(s).selector = hw.selector
                     /\ SetStack(s).sample = hw.sample
                     /\ SetStack(s).param = hw.param
                     /\ SetStack(s).others = hw.others
           /\ \A b : /\ Select(b).daq = hw.daq /\ Select(b).stack = hw.stack
                     /\ Select(b).run = hw.run /\ Select(b).selector = b
                     /\ Select(b).sample = hw.sample
                     /\ Select(b).param = hw.param
                     /\ Select(b).others = hw.others
           /\ \A w : /\ SetSample(w).daq = hw.daq
                     /\ SetSample(w).stack = hw.stack
                     /\ SetSample(w).run = hw.run
                     /\ SetSample(w).selector = hw.selector
                     /\ SetSample(w).sample = [hw.sample EXCEPT ![hw.selector] = w]
                     /\ SetSample(w).param = hw.param
                     /\ SetSample(w).others = hw.others
           /\ \A p : /\ SetParam(p).daq = hw.daq /\ SetParam(p).stack = hw.stack
                     /\ SetParam(p).run = hw.run
                     /\ SetParam(p).selector = hw.selector
                     /\ SetParam(p).sample = hw.sample
                     /\ SetParam(p).param = [hw.param EXCEPT ![hw.selector] = p]
                     /\ SetParam(p).others = hw.others
           /\ \A m, v : /\ SetOther(m, v).daq = hw.daq
                        /\ SetOther(m, v).stack = hw.stack
                        /\ SetOther(m, v).run = hw.run
                        /\ SetOther(m, v).selector = hw.selector
                        /\ SetOther(m, v).sample = hw.sample
                        /\ SetOther(m, v).param = hw.param
                        /\ SetOther(m, v).others = [hw.others EXCEPT ![m] = v]
           /\ ClearMvlc.daq = 0 /\ ClearMvlc.stack = "clear"
           /\ ClearMvlc.run = hw.run /\ ClearMvlc.selector = hw.selector
           /\ ClearMvlc.sample = hw.sample /\ ClearMvlc.param = hw.param
           /\ ClearMvlc.others = hw.others
BY DEF Hardware, SetDaq, SetRun, SetStack, Select, SetSample, SetParam,
       SetOther, ClearMvlc

\* Outside restoreBanked its part of the invariant says nothing.
LEMMA NoRestore ==
    ASSUME pc' \notin RbLabels PROVE RestoresOwn'
BY DEF RestoresOwn, RbLabels

\* What a step of a change keeps of its request.
Keeps == /\ tx'.since = tx.since /\ tx'.kind = tx.kind /\ tx'.quad = tx.quad
         /\ UNCHANGED mvme

\* A step inside a change that leaves the readout stack alone.
LEMMA ChangeStep ==
    ASSUME SinceOK, Spares, QuadOK, Keeps, pc # "idle",
           hw'.stack = hw.stack, ses'.quad = ses.quad,
           pc' \notin StartLabels \cup RecLabels,
           tx.kind \in StopKinds \/ pc' \notin Changing
             \/ pc \in Changing \/ hw.stack = "ours",
           PausedOK'
    PROVE  CrateInv'
<1>1. RestoresOwn'
  BY NoRestore DEF RecLabels, RbLabels
<1> QED
  BY <1>1 DEF CrateInv, SinceOK, Spares, QuadOK, Keeps

\* A change that is over: nothing is claimed of an idle worker.
LEMMA IdleCrate ==
    ASSUME pc' = "idle", tx'.kind = "none" PROVE CrateInv'
BY DEF CrateInv, SinceOK, RestoresOwn, Spares, PausedOK, QuadOK, Changing,
       Reading, RbLabels, SrcPre, SrcPost, SrcEnds, PrvLabels, PauseLabels,
       ResumeLabels, StartLabels, RecLabels

\* The end of an operation that returns is the idle worker.
LEMMA ReturnCrate == \A s, v : Return(s, v) => CrateInv'
BY IdleCrate DEF Return, NoTx

\* Pausing and resuming.
LEMMA PauseResumeCrate ==
    ASSUME TypeInv, CrateInv, PauseResumeNext PROVE CrateInv'
<1>1. hw \in Hardware /\ tx \in Locals
  BY TypeFacts
<1>2. /\ pc \in PauseLabels \cup ResumeLabels
      /\ pc \in PauseLabels =>
           pc' \in PauseLabels \cup {PausedLabel[tx.kind], NotPausedLabel[tx.kind]}
      /\ pc \in ResumeLabels => pc' \in ResumeLabels \cup {ResumedLabel[tx.kind]}
      /\ UNCHANGED <<mvme, ses>>
  BY DEF PauseResumeNext, PauseModule, PauseDaq, PauseVerify, ResumeModule,
         ResumeDaq, ResumeVerify, Write, NotPaused, Failing, PauseLabels,
         ResumeLabels, HardwareOnly
<1>3. \/ pc \in PauseLabels /\ pc' \in PauseLabels \cup {"src_select", "op_end",
            "prv_select", "prv_end", "srcr_select", "srcr_end"}
      \/ pc \in ResumeLabels /\ pc' \in ResumeLabels \cup {"op_end", "prv_end"}
  BY <1>2
     DEF TypeInv, KindOK, PrvKinds, PausedLabel, NotPausedLabel, ResumedLabel
<1>4. /\ \/ tx' = tx \/ tx' = [tx EXCEPT !.paused = TRUE]
         \/ tx' = [tx EXCEPT !.failed = TRUE]
         \/ tx' = [tx EXCEPT !.resumed = TRUE]
         \/ tx' = [tx EXCEPT !.failed = TRUE, !.paused = FALSE]
      /\ hw' \in {hw, SetRun(0), SetDaq(0), SetRun(1), SetDaq(1)}
  BY DEF PauseResumeNext, PauseModule, PauseDaq, PauseVerify, ResumeModule,
         ResumeDaq, ResumeVerify, Write, NotPaused, Failing
<1>5. Keeps /\ hw'.stack = hw.stack
  BY <1>1, <1>2, <1>4, SetFields DEF Keeps, Locals
<1>6. PausedOK'
  <2>1. CASE PauseModule
    <3>1. /\ hw' \in {hw, SetRun(0)} /\ pc' = "pause_daq" /\ UNCHANGED mvme
          /\ \/ hw' = SetRun(0) /\ tx' = [tx EXCEPT !.paused = TRUE]
             \/ tx' = [tx EXCEPT !.failed = TRUE]
      BY <2>1 DEF PauseModule, Write, HardwareOnly
    <3>2. /\ hw'.run = 0 \/ hw'.run = hw.run
          /\ hw'.run = 0 \/ tx'.paused = tx.paused
      BY <1>1, <3>1, SetFields DEF Locals
    <3> QED
      BY <1>2, <1>5, <2>1, <3>1, <3>2
         DEF PauseModule, CrateInv, PausedOK, PauseLabels, Reading, Keeps
  <2>2. CASE PauseDaq
    <3>1. /\ hw' \in {hw, SetDaq(0)} /\ pc' \notin Reading \cup
                {"src_check", "prv_check", "src_select", "prv_select"}
          /\ pc = "pause_daq"
          /\ \/ tx' = tx
             \/ tx' = [tx EXCEPT !.failed = TRUE, !.paused = FALSE]
      BY <2>2 DEF PauseDaq, Write, NotPaused, NotPausedLabel, TypeInv, KindOK,
                  PauseLabels, PrvKinds, Reading
    <3>2. hw'.run = hw.run /\ (tx'.paused => tx.paused)
      BY <1>1, <3>1, SetFields DEF Locals
    <3> QED
      BY <1>5, <3>1, <3>2 DEF CrateInv, PausedOK, PauseLabels, Keeps
  <2>3. CASE PauseVerify
    <3>1. /\ UNCHANGED hw /\ pc = "pause_verify"
          /\ \/ hw.daq = 0 /\ tx.paused /\ tx' = tx
                /\ pc' \in {"src_select", "prv_select", "srcr_select"}
             \/ pc' \in {"op_end", "prv_end", "srcr_end"}
      BY <2>3 DEF PauseVerify, NotPaused, PausedLabel, NotPausedLabel, TypeInv,
                  KindOK, PauseLabels, PrvKinds
    <3> QED
      BY <1>5, <3>1 DEF CrateInv, PausedOK, PauseLabels, Keeps, Reading
  <2>4. CASE pc \in ResumeLabels
    BY <1>3, <2>4
       DEF PausedOK, ResumeLabels, PauseLabels, Reading
  <2> QED
    BY <2>1, <2>2, <2>3, <2>4
       DEF PauseResumeNext, ResumeModule, ResumeDaq, ResumeVerify, ResumeLabels
<1>7. pc' \notin StartLabels \cup RecLabels /\ pc \in Changing /\ pc # "idle"
  BY <1>3
     DEF StartLabels, RecLabels, Changing, PauseLabels, ResumeLabels
<1> QED
  BY <1>2, <1>5, <1>6, <1>7, ChangeStep DEF CrateInv

\* A step of a change after its pause keeps what is known of the registers
\* as long as it writes none of them but a banked one.
LEMMA ReadingStep ==
    ASSUME PausedOK, Keeps, pc' \in Reading => pc \in Reading,
           pc \in Reading => /\ hw'.run = hw.run /\ hw'.daq = hw.daq
                             /\ hw'.selector = hw.selector,
           pc' \notin PauseLabels,
           pc' \notin {"src_check", "prv_check", "src_select", "prv_select"}
    PROVE  PausedOK'
BY DEF PausedOK, Keeps

\* The bank is selected before a change reads or writes it.
LEMMA SelectStep ==
    ASSUME TypeInv, PausedOK, Keeps, pc \in {"src_select", "prv_select"},
           \/ hw' = Select(tx.quad) /\ pc' \in {"src_read", "prv_read"}
           \/ pc' \in {"src_end", "prv_settle"}
    PROVE  PausedOK'
<1>1. hw' = Select(tx.quad) => /\ hw'.run = hw.run /\ hw'.daq = hw.daq
                               /\ hw'.selector = tx.quad
  BY SetFields, TypeFacts
<1> QED
  BY <1>1 DEF PausedOK, Keeps, Reading, PauseLabels

\* A step of a change that leaves the registers as they are, writes a banked
\* register or moves the selector.
BankedWrite ==
    hw' = hw \/ \E v : hw' \in {SetSample(v), SetParam(v), Select(v)}

\* A banked write does not touch the readout stack.
LEMMA BankedKeeps ==
    ASSUME TypeInv, BankedWrite PROVE hw'.stack = hw.stack
<1>1. hw \in Hardware
  BY TypeFacts
<1>2. CASE \E v : hw' \in {SetSample(v), SetParam(v), Select(v)}
  <2>1. PICK v : hw' \in {SetSample(v), SetParam(v), Select(v)}
    BY <1>2
  <2>2. /\ SetSample(v).stack = hw.stack /\ SetParam(v).stack = hw.stack
        /\ Select(v).stack = hw.stack
    BY <1>1, SetFields
  <2> QED
    BY <2>1, <2>2
<1> QED
  BY <1>2 DEF BankedWrite

\* Source changes and the source restore of a stop.
LEMMA SourceCrate ==
    ASSUME TypeInv, PreviewInv, CrateInv, SourceNext PROVE CrateInv'
<1>1. hw \in Hardware /\ tx \in Locals /\ ses \in Session /\ ses.rec \in Record
  BY TypeFacts DEF Session
<1>2. PausedOK
  BY DEF CrateInv
<1>3. CASE SrcCheck \/ SrcrCheck \/ OpEnd
  <2>1. CASE \E s, v : Return(s, v)
    BY <2>1, ReturnCrate
  <2>2. CASE /\ FingerprintMatches /\ pc' = "pause_module"
             /\ UNCHANGED <<tx, svc, ses>> /\ Frozen
             /\ pc \in {"src_check", "srcr_check"}
    <3>1. Keeps /\ hw'.stack = hw.stack /\ hw.stack = "ours"
      BY <2>2 DEF Keeps, Frozen, FingerprintMatches
    <3>2. PausedOK'
      BY <1>2, <2>2, <3>1
         DEF PausedOK, Keeps, PauseLabels, Reading, TypeInv, KindOK, SrcrLabels
    <3> QED
      BY <2>2, <3>1, <3>2, ChangeStep DEF CrateInv, StartLabels, RecLabels
  <2> QED
    BY <1>3, <2>1, <2>2 DEF SrcCheck, SrcrCheck, OpEnd
<1>4. CASE SrcSelect
  <2>1. /\ pc = "src_select" /\ UNCHANGED <<mvme, ses>>
        /\ hw' \in {hw, Select(tx.quad)}
        /\ \/ /\ hw' = Select(tx.quad) /\ tx' = [tx EXCEPT !.selected = TRUE]
              /\ pc' = "src_read"
           \/ tx' = [tx EXCEPT !.failed = TRUE] /\ pc' = "src_end"
    BY <1>4 DEF SrcSelect, Write, Failing, HardwareOnly
  <2>2. Keeps
    BY <1>1, <2>1 DEF Keeps, Locals
  <2>3. hw'.stack = hw.stack
    BY <2>1, BankedKeeps DEF BankedWrite
  <2>4. PausedOK'
    BY <1>2, <2>1, <2>2, SelectStep
  <2>5. pc \in Changing /\ pc # "idle" /\ pc' \notin StartLabels \cup RecLabels
    BY <2>1 DEF Changing, SrcPre, StartLabels, RecLabels
  <2> QED
    BY <2>1, <2>2, <2>3, <2>4, <2>5, ChangeStep DEF CrateInv
<1>5. CASE SrcRead
  <2>1. /\ pc = "src_read" /\ UNCHANGED <<hw, mvme, ses>>
        /\ pc' \in {"src_park", "src_write", "src_arm"}
    BY <1>5 DEF SrcRead, HardwareOnly, Failing
  <2>2. Keeps
    BY <1>1, <1>5, <2>1 DEF SrcRead, Failing, Locals, Keeps
  <2>3. PausedOK'
    BY <1>2, <2>1, <2>2, ReadingStep DEF Reading, PauseLabels
  <2>4. pc \in Changing /\ pc # "idle" /\ pc' \notin StartLabels \cup RecLabels
    BY <2>1 DEF Changing, SrcPre, StartLabels, RecLabels
  <2> QED
    BY <2>1, <2>2, <2>3, <2>4, ChangeStep DEF CrateInv
<1>6. CASE SrcArm \/ SrcDisarm \/ SrcrDisarm
  <2>1. PICK e : LET rec == [ses.rec EXCEPT !.source = e]
                 IN  /\ e \in Restore(Words)
                     /\ journal' \in {journal, rec}
                     /\ ses' \in {ses, [ses EXCEPT !.rec = rec]}
    BY <1>6, EntrySaved
  <2>2. ses'.quad = ses.quad
    BY <1>1, <2>1 DEF Session
  <2>3. /\ UNCHANGED <<hw, mvme>>
        /\ \/ pc = "src_arm" /\ pc' \in {"src_write", "src_park"}
           \/ pc = "src_disarm" /\ pc' = "src_end"
           \/ pc = "srcr_disarm" /\ pc' = "srcr_end"
        /\ \/ tx' = tx \/ tx' = [tx EXCEPT !.failed = TRUE]
           \/ \E b : tx' = [tx EXCEPT !.armed = b]
    BY <1>6
       DEF SrcArm, SrcDisarm, SrcrDisarm, SaveSourceRecoveryState, SaveJournal,
           Failing, DiskOnly
  <2>4. Keeps
    BY <1>1, <2>3 DEF Keeps, Locals
  <2>5. PausedOK'
    BY <1>2, <2>3, <2>4, ReadingStep DEF Reading, PauseLabels
  <2>6. /\ pc \in Changing \/ pc' \notin Changing
        /\ pc # "idle" /\ pc' \notin StartLabels \cup RecLabels
    BY <2>3
       DEF Changing, SrcPre, SrcPost, SrcEnds, PrvLabels, PauseLabels,
           ResumeLabels, StartLabels, RecLabels
  <2> QED
    BY <2>2, <2>3, <2>4, <2>5, <2>6, ChangeStep DEF CrateInv
<1>7. CASE \/ SrcWrite \/ SrcVerify \/ SrcRollback \/ SrcRolled \/ SrcPark
          \/ SrcEnd \/ SrcrSelect \/ SrcrWrite \/ SrcrVerify \/ SrcrPark
  <2>1. UNCHANGED <<mvme, ses>> /\ BankedWrite
    BY <1>7
       DEF SrcWrite, SrcVerify, SrcRollback, SrcRolled, SrcPark, SrcEnd,
           SrcrSelect, SrcrWrite, SrcrVerify, SrcrPark, Write, BankedWrite,
           HardwareOnly
  <2>2. Keeps
    <3>1. \/ tx' = tx
          \/ tx' = [tx EXCEPT !.failed = TRUE]
          \/ tx' = [tx EXCEPT !.attempted = TRUE]
          \/ tx' = [tx EXCEPT !.attempted = TRUE, !.failed = TRUE]
          \/ tx' = [tx EXCEPT !.verified = TRUE]
          \/ tx' = [tx EXCEPT !.rolled = TRUE]
          \/ tx' = [tx EXCEPT !.parked = TRUE]
      BY <1>7
         DEF SrcWrite, SrcVerify, SrcRollback, SrcRolled, SrcPark, SrcEnd,
             SrcrSelect, SrcrWrite, SrcrVerify, SrcrPark, Write, Failing
    <3> QED
      BY <1>1, <2>1, <3>1 DEF Keeps, Locals
  <2>3. \/ /\ pc \in {"src_write", "src_verify", "src_rollback"}
           /\ pc' \in {"src_verify", "src_rollback", "src_rolled", "src_park"}
           /\ hw' = hw \/ (\E v : hw' = SetSample(v))
        \/ /\ pc \in {"src_rolled", "src_park", "src_end"}
           /\ pc' \in {"src_park", "src_disarm", "src_end", "resume_module",
                       "op_end"}
        \/ pc \in SrcrLabels /\ pc' \in SrcrLabels \ {"srcr_check"}
    BY <1>7
       DEF SrcWrite, SrcVerify, SrcRollback, SrcRolled, SrcPark, SrcEnd,
           SrcrSelect, SrcrWrite, SrcrVerify, SrcrPark, Write, Failing,
           SrcrLabels
  <2>4. PausedOK'
    <3>1. (hw' = hw \/ \E v : hw' = SetSample(v)) =>
             /\ hw'.run = hw.run /\ hw'.daq = hw.daq
             /\ hw'.selector = hw.selector
      <4>1. ASSUME NEW v, hw' = SetSample(v)
            PROVE  /\ hw'.run = hw.run /\ hw'.daq = hw.daq
                   /\ hw'.selector = hw.selector
        BY <1>1, <4>1, SetFields
      <4> QED
        BY <4>1
    <3>2. pc \in Reading => (hw' = hw \/ \E v : hw' = SetSample(v))
      BY <2>3 DEF Reading, SrcrLabels
    <3> QED
      BY <1>2, <2>2, <2>3, <3>1, <3>2, ReadingStep
         DEF Reading, PauseLabels, SrcrLabels
  <2>5. /\ pc \in Changing \/ pc' \notin Changing
        /\ pc # "idle" /\ pc' \notin StartLabels \cup RecLabels
    BY <2>3
       DEF Changing, SrcPre, SrcPost, SrcEnds, PrvLabels, PauseLabels,
           ResumeLabels, StartLabels, RecLabels, SrcrLabels
  <2> QED
    BY <2>1, <2>2, <2>4, <2>5, BankedKeeps, ChangeStep DEF CrateInv
<1>8. CASE SrcrEnd
  <2>1. /\ pc = "srcr_end" /\ pc' \in {"stop_module", "stop_check"}
        /\ UNCHANGED <<hw, mvme, ses>> /\ tx'.since = tx.since
        /\ tx'.kind = "stop"
    BY <1>8 DEF SrcrEnd, HardwareOnly, NoTx
  <2> QED
    BY <2>1, NoRestore
       DEF CrateInv, SinceOK, Spares, PausedOK, QuadOK, RbLabels, Reading,
           Changing, SrcPre, SrcPost, SrcEnds, PrvLabels, PauseLabels,
           ResumeLabels, StartLabels, RecLabels
<1> QED
  BY <1>3, <1>4, <1>5, <1>6, <1>7, <1>8 DEF SourceNext

\* Preview transactions.
LEMMA PreviewCrate ==
    ASSUME TypeInv, CrateInv, PreviewNext PROVE CrateInv'
<1>1. hw \in Hardware /\ tx \in Locals /\ ses \in Session /\ ses.rec \in Record
  BY TypeFacts DEF Session
<1>2. PausedOK
  BY DEF CrateInv
<1>3. CASE PrvCheck
  <2>1. CASE \E s, v : Return(s, v)
    BY <2>1, ReturnCrate
  <2>2. CASE /\ FingerprintMatches /\ pc' = "pause_module"
             /\ UNCHANGED <<tx, svc, ses>> /\ Frozen /\ pc = "prv_check"
    <3>1. Keeps /\ hw'.stack = hw.stack /\ hw.stack = "ours"
      BY <2>2 DEF Keeps, Frozen, FingerprintMatches
    <3>2. PausedOK'
      BY <1>2, <2>2, <3>1 DEF PausedOK, Keeps, PauseLabels, Reading
    <3> QED
      BY <2>2, <3>1, <3>2, ChangeStep DEF CrateInv, StartLabels, RecLabels
  <2> QED
    BY <1>3, <2>1, <2>2 DEF PrvCheck
<1>4. CASE PrvSelect
  <2>1. /\ pc = "prv_select" /\ UNCHANGED <<mvme, ses>>
        /\ hw' \in {hw, Select(tx.quad)}
        /\ \/ /\ hw' = Select(tx.quad) /\ tx' = [tx EXCEPT !.selected = TRUE]
              /\ pc' = "prv_read"
           \/ tx' = [tx EXCEPT !.failed = TRUE] /\ pc' = "prv_settle"
    BY <1>4 DEF PrvSelect, Write, Failing, HardwareOnly
  <2>2. Keeps
    BY <1>1, <2>1 DEF Keeps, Locals
  <2>3. hw'.stack = hw.stack
    BY <2>1, BankedKeeps DEF BankedWrite
  <2>4. PausedOK'
    BY <1>2, <2>1, <2>2, SelectStep
  <2>5. pc \in Changing /\ pc # "idle" /\ pc' \notin StartLabels \cup RecLabels
    BY <2>1 DEF Changing, PrvLabels, StartLabels, RecLabels
  <2> QED
    BY <2>1, <2>2, <2>3, <2>4, <2>5, ChangeStep DEF CrateInv
<1>5. CASE \/ PrvRead \/ PrvArm \/ PrvWrite \/ PrvVerify \/ PrvRollback
          \/ PrvRolled \/ PrvPark \/ PrvDisarm \/ PrvSettle
  <2>1. UNCHANGED mvme /\ BankedWrite
    BY <1>5
       DEF PrvRead, PrvArm, PrvWrite, PrvVerify, PrvRollback, PrvRolled,
           PrvPark, PrvDisarm, PrvSettle, Write, BankedWrite, HardwareOnly,
           DiskOnly
  <2>2. \/ ses' = ses \/ \E r : ses' = [ses EXCEPT !.rec = r]
    BY <1>5
       DEF PrvRead, PrvArm, PrvWrite, PrvVerify, PrvRollback, PrvRolled,
           PrvPark, PrvDisarm, PrvSettle, HardwareOnly,
           SavePreviewRecoveryState, SaveJournal
  <2>3. ses'.quad = ses.quad
    BY <1>1, <2>2 DEF Session
  <2>4. Keeps
    <3>1. \/ tx' = tx
          \/ tx' = [tx EXCEPT !.failed = TRUE]
          \/ tx' = [tx EXCEPT !.live = LiveParam]
          \/ tx' = [tx EXCEPT !.armed = TRUE]
          \/ tx' = [tx EXCEPT !.attempted = TRUE]
          \/ tx' = [tx EXCEPT !.attempted = TRUE, !.failed = TRUE]
          \/ tx' = [tx EXCEPT !.verified = TRUE]
          \/ tx' = [tx EXCEPT !.rolled = TRUE]
          \/ tx' = [tx EXCEPT !.parked = TRUE]
      BY <1>5
         DEF PrvRead, PrvArm, PrvWrite, PrvVerify, PrvRollback, PrvRolled,
             PrvPark, PrvDisarm, PrvSettle, Write, Failing, Unverified,
             SavePreviewRecoveryState, SaveJournal
    <3> QED
      BY <1>1, <2>1, <3>1 DEF Keeps, Locals
  <2>5. \/ /\ pc \in {"prv_read", "prv_arm", "prv_write", "prv_verify",
                      "prv_rollback"}
           /\ pc' \in {"prv_arm", "prv_write", "prv_verify", "prv_rollback",
                       "prv_rolled", "prv_park"}
           /\ hw' = hw \/ (\E v : hw' = SetParam(v))
        \/ /\ pc \in {"prv_rolled", "prv_park", "prv_disarm", "prv_settle"}
           /\ pc' \in {"prv_park", "prv_disarm", "prv_settle",
                       "resume_module", "prv_end"}
    BY <1>5
       DEF PrvRead, PrvArm, PrvWrite, PrvVerify, PrvRollback, PrvRolled,
           PrvPark, PrvDisarm, PrvSettle, Write, Failing, Unverified,
           SavePreviewRecoveryState, SaveJournal, DiskOnly
  <2>6. PausedOK'
    <3>1. ASSUME NEW v, hw' = SetParam(v)
          PROVE  /\ hw'.run = hw.run /\ hw'.daq = hw.daq
                 /\ hw'.selector = hw.selector
      BY <1>1, <3>1, SetFields
    <3>2. pc \in Reading => (hw' = hw \/ \E v : hw' = SetParam(v))
      BY <2>5 DEF Reading
    <3> QED
      BY <1>2, <2>4, <2>5, <3>1, <3>2, ReadingStep DEF Reading, PauseLabels
  <2>7. pc \in Changing /\ pc # "idle" /\ pc' \notin StartLabels \cup RecLabels
    BY <2>5 DEF Changing, PrvLabels, StartLabels, RecLabels
  <2> QED
    BY <2>1, <2>3, <2>4, <2>6, <2>7, BankedKeeps, ChangeStep DEF CrateInv
<1>6. CASE PrvEnd
  <2>1. CASE \E s, v : Return(s, v)
    BY <2>1, ReturnCrate
  <2>2. CASE ~\E s, v : Return(s, v)
    <3>1. /\ pc = "prv_end" /\ pc' = "stop_source" /\ Frozen
          /\ tx'.since = tx.since /\ tx'.kind = "stop"
      BY <1>6, <2>2 DEF PrvEnd, NoTx
    <3> QED
      BY <3>1, NoRestore
         DEF CrateInv, SinceOK, Spares, PausedOK, QuadOK, RbLabels, Reading,
             Changing, SrcPre, SrcPost, SrcEnds, PrvLabels, PauseLabels,
             ResumeLabels, StartLabels, RecLabels, Frozen
  <2> QED
    BY <2>1, <2>2
<1> QED
  BY <1>3, <1>4, <1>5, <1>6 DEF PreviewNext

\* A step of Start or Stop that only moves on: of what is claimed there, only
\* that DAQ mode stays off in a run that was in progress.
LEMMA OtherCrate ==
    ASSUME SinceOK, UNCHANGED mvme, pc # "idle", tx'.since = tx.since,
           tx'.kind \in {"start", "stop", "stopSource"},
           pc' \in StartLabels \cup StopLabels \cup SrcrLabels,
           tx.since = "running" /\ mvme = "running"
             /\ pc' \in StartLabels \ {"start_gate", "start_verify",
                                       "start_activate"} => hw'.daq = 0
    PROVE  CrateInv'
<1>1. /\ pc' \notin Changing \cup RecLabels \cup Reading \cup PauseLabels
      /\ pc' \notin {"src_check", "prv_check", "src_select", "prv_select"}
      /\ pc' \notin RbLabels /\ pc' # "idle"
  BY DEF Changing, SrcPre, SrcPost, SrcEnds, PrvLabels, PauseLabels,
         ResumeLabels, StartLabels, RecLabels, StopLabels, SrcrLabels,
         Reading, RbLabels
<1> QED
  BY <1>1, NoRestore DEF CrateInv, SinceOK, Spares, PausedOK, QuadOK

\* Stop.
LEMMA StopCrate ==
    ASSUME TypeInv, TypeInv', CrateInv, StopNext PROVE CrateInv'
<1>1. tx \in Locals /\ UNCHANGED mvme /\ pc # "idle"
  BY TypeFacts
     DEF StopNext, StopSource, StopCheck, StopModule, StopStopped, StopOthers,
         StopOther, StopQuiet, StopMvlc, StopClear, StopEnd, HardwareOnly,
         Frozen
<1>2. CASE \E s, v : Return(s, v)
  BY <1>2, ReturnCrate
<1>3. CASE ~\E s, v : Return(s, v)
  <2>1. ~\E s, v : StopResult(s, v)
    BY <1>3 DEF StopResult
  <2>2. pc' \in StopLabels \cup SrcrLabels
    BY <1>3, <2>1
       DEF StopNext, StopSource, StopCheck, StopModule, StopStopped,
           StopOthers, StopOther, StopQuiet, StopMvlc, StopClear, StopEnd,
           Write, Failing, RemoveJournal, StopLabels, SrcrLabels
  <2>3. tx'.since = tx.since
    BY <1>1, <1>3, <2>1
       DEF StopNext, StopSource, StopCheck, StopModule, StopStopped,
           StopOthers, StopOther, StopQuiet, StopMvlc, StopClear, StopEnd,
           Write, Failing, RemoveJournal, Handled, Locals
  <2>4. tx'.kind \in {"stop", "stopSource"}
    BY <2>2 DEF TypeInv, KindOK
  <2>5. pc' \notin StartLabels
    BY <2>2 DEF StopLabels, SrcrLabels, StartLabels
  <2> QED
    BY <1>1, <2>2, <2>3, <2>4, <2>5, OtherCrate DEF CrateInv
<1> QED
  BY <1>2, <1>3

\* Start writes into the crate only after it has read DAQ mode off.
LEMMA StartCrate ==
    ASSUME TypeInv, TypeInv', CrateInv, StartNext PROVE CrateInv'
<1>1. /\ tx \in Locals /\ hw \in Hardware /\ UNCHANGED mvme
      /\ pc \in StartLabels /\ pc # "idle"
  BY TypeFacts
     DEF StartNext, StartGate, StartProbe, StartJournal, StartGate2,
         StartQuiesce, StartQuiet, StartOpen, StartStack, StartSetup,
         StartTrigger, StartReset, StartModule, StartDaq, StartVerify,
         StartActivate, StartWrite, HardwareOnly, Frozen, StartLabels
<1>2. CASE \E s, v : Return(s, v)
  BY <1>2, ReturnCrate
<1>3. CASE ~\E s, v : Return(s, v)
  <2>1. /\ \A v : ~NotPrepared(v) /\ ~PreparedOrphan(v) /\ ~StartFailed(v)
    BY <1>3 DEF NotPrepared, PreparedOrphan, StartFailed
  <2>2. /\ pc' \in StartLabels
        /\ pc' \notin {"start_gate", "start_probe", "start_verify",
                       "start_activate"} => pc # "start_gate"
        /\ pc \in {"start_verify", "start_activate"} => pc' = "start_activate"
        /\ pc = "start_gate" => hw.daq = 0
    BY <1>3, <2>1
       DEF StartNext, StartGate, StartProbe, StartJournal, StartGate2,
           StartQuiesce, StartQuiet, StartOpen, StartStack, StartSetup,
           StartTrigger, StartReset, StartModule, StartDaq, StartVerify,
           StartActivate, StartWrite, Write, SaveJournal, StartLabels
  <2>3. tx'.since = tx.since
    BY <1>1, <1>3, <2>1
       DEF StartNext, StartGate, StartProbe, StartJournal, StartGate2,
           StartQuiesce, StartQuiet, StartOpen, StartStack, StartSetup,
           StartTrigger, StartReset, StartModule, StartDaq, StartVerify,
           StartActivate, StartWrite, Write, SaveJournal, Handled, Locals
  <2>4. tx'.kind = "start"
    BY <2>2 DEF TypeInv, KindOK
  <2>5. pc' = "start_verify" \/ hw'.daq = hw.daq
    <3>1. \/ pc' = "start_verify" \/ hw' = hw
          \/ \E s : hw' = SetStack(s)
          \/ \E m : hw' = SetOther(m, 0)
          \/ hw' = SetRun(0) \/ hw' = SetRun(1)
      BY <1>3, <2>1
         DEF StartNext, StartGate, StartProbe, StartJournal, StartGate2,
             StartQuiesce, StartQuiet, StartOpen, StartStack, StartSetup,
             StartTrigger, StartReset, StartModule, StartDaq, StartVerify,
             StartActivate, StartWrite, Write, SaveJournal, Installed, Frozen
    <3>2. ASSUME NEW s, hw' = SetStack(s) PROVE hw'.daq = hw.daq
      BY <1>1, <3>2, SetFields
    <3>3. ASSUME NEW m, hw' = SetOther(m, 0) PROVE hw'.daq = hw.daq
      BY <1>1, <3>3 DEF SetOther, Hardware
    <3>4. SetRun(0).daq = hw.daq /\ SetRun(1).daq = hw.daq
      BY <1>1, SetFields
    <3> QED
      BY <3>1, <3>2, <3>3, <3>4
  <2> QED
    BY <1>1, <2>2, <2>3, <2>4, <2>5, OtherCrate DEF CrateInv, Spares
<1> QED
  BY <1>2, <1>3

\* What a recovery writes, and what a step of it leaves of its request.
LEMMA RecoveryShape ==
    ASSUME TypeInv, RecoveryNext
    PROVE  /\ pc \in RecLabels /\ tx.kind = "recover" /\ UNCHANGED mvme
           /\ pc' = "idle" => tx'.kind = "none"
           /\ pc' # "idle" => pc' \in RecLabels /\ tx'.since = tx.since
           /\ Tame
<1>1. tx \in Locals /\ hw \in Hardware
  BY TypeFacts
<1>2. pc \in RecLabels /\ UNCHANGED mvme
  BY DEF RecoveryNext, RecCheck, RecGate, RecTarget, RecStop, RecStopped,
         RecOthers, RecQuiet, RbGate1, RbSelect, RbRead, RbGate2, RbDecide,
         RbWrite, RbVerify, RbGate3, RbPark, RbSave, RecMvlc, RecClear,
         RecRemove, IdleGate, RecWrite, RecLabels, Frozen, HardwareOnly
<1>3. \/ RecFail \/ RecDone \/ pc' \in RecLabels
  BY DEF RecoveryNext, RecCheck, RecGate, RecTarget, RecStop, RecStopped,
         RecOthers, RecQuiet, RbGate1, RbSelect, RbRead, RbGate2, RbDecide,
         RbWrite, RbVerify, RbGate3, RbPark, RbSave, RecMvlc, RecClear,
         RecRemove, IdleGate, RecWrite, RecLabels, Write, Going, Failing,
         SaveJournal, RemoveJournal, HardwareOnly, NextRestore, RestoreLabel,
         ParkLabel
<1>4. RecFail \/ RecDone => pc' = "idle" /\ tx'.kind = "none"
  <2>1. RecFail \/ RecDone => pc' = "idle" /\ tx' = NoTx
    BY Zenon DEF RecFail, RecDone
  <2> QED
    BY <2>1 DEF NoTx
<1>5. ASSUME ~(RecFail \/ RecDone) PROVE tx'.since = tx.since
  <2>1. \/ tx' = tx \/ tx' = [tx EXCEPT !.idle = TRUE]
        \/ tx' = [tx EXCEPT !.failed = TRUE]
        \/ tx' = [tx EXCEPT !.attempted = TRUE]
        \/ \E t : tx' = [tx EXCEPT !.todo = t]
        \/ \E r, p : tx' = [tx EXCEPT !.rec = r, !.preview = p,
                                     !.attempted = FALSE, !.failed = FALSE]
    BY <1>5
       DEF RecoveryNext, RecCheck, RecGate, RecTarget, RecStop, RecStopped,
           RecOthers, RecQuiet, RbGate1, RbSelect, RbRead, RbGate2, RbDecide,
           RbWrite, RbVerify, RbGate3, RbPark, RbSave, RecMvlc, RecClear,
           RecRemove, IdleGate, RecWrite, Write, Going, Failing, SaveJournal,
           RemoveJournal, RestoreOf, Handled
  <2> QED
    BY <1>1, <2>1 DEF Locals
<1>6. Tame
  <2>1. \/ UNCHANGED hw \/ hw' = SetRun(0) \/ hw' = ClearMvlc
        \/ \E v : hw' = Select(v) \/ hw' = SetBanked(v)
        \/ \E m : hw' = SetOther(m, 0)
    BY DEF RecoveryNext, RecCheck, RecGate, RecTarget, RecStop, RecStopped,
           RecOthers, RecQuiet, RbGate1, RbSelect, RbRead, RbGate2, RbDecide,
           RbWrite, RbVerify, RbGate3, RbPark, RbSave, RecMvlc, RecClear,
           RecRemove, IdleGate, RecWrite, Write, Frozen
  <2> QED
    BY <1>1, <2>1, RecoveryWrites
<1>7. pc' \in RecLabels => pc' # "idle"
  BY DEF RecLabels
<1> QED
  BY <1>2, <1>3, <1>4, <1>5, <1>6, <1>7 DEF TypeInv, KindOK

\* restoreBanked reads the entry's bank before it decides to overwrite it.
LEMMA RecoveryRestores ==
    ASSUME TypeInv, RestoresOwn, RecoveryNext, pc' # "idle" PROVE RestoresOwn'
<1>1. /\ tx \in Locals /\ hw \in Hardware /\ tx.rec \in Record
      /\ UNCHANGED mvme /\ tx'.since = tx.since /\ pc' \in RecLabels
  BY TypeFacts, RecoveryShape DEF Locals
<1>2. ~RecFail /\ ~RecDone
  BY DEF RecFail, RecDone
<1>3. ASSUME NEW rec \in Record, tx' = RestoreOf(rec),
             NEW idle, pc' = NextRestore(rec, idle)
      PROVE  RestoresOwn'
  <2>1. /\ tx'.rec = rec /\ tx'.preview = rec.preview.required
        /\ tx'.attempted = FALSE
    BY <1>1, <1>3 DEF RestoreOf, Locals, Record, Restore
  <2>2. pc' \in RbLabels => pc' \in {"rb_gate1", "rb_select"} /\ Entry'.required
    BY <1>3, <2>1
       DEF NextRestore, RestoreLabel, RestorePending, RbLabels, Entry
  <2> QED
    BY <2>1, <2>2 DEF RestoresOwn, RbLabels
<1>4. CASE \/ RecCheck \/ RecGate \/ RecStop \/ RecStopped \/ RecQuiet
          \/ RecMvlc \/ RecClear \/ RecRemove
  <2>1. pc' \notin RbLabels
    BY <1>2, <1>4
       DEF RecCheck, RecGate, RecStop, RecStopped, RecQuiet, RecMvlc,
           RecClear, RecRemove, IdleGate, RecWrite, Write, Going,
           RemoveJournal, RbLabels
  <2> QED
    BY <2>1, NoRestore
<1>5. CASE RecTarget
  BY <1>1, <1>2, <1>3, <1>5 DEF RecTarget
<1>6. CASE RecOthers
  <2>1. CASE pc' = "rec_quiet"
    BY <2>1, NoRestore DEF RbLabels
  <2> QED
    BY <1>1, <1>2, <1>3, <1>6, <2>1 DEF RecOthers, RecWrite, Write, Going
<1>7. CASE RbSave
  <2>1. /\ [tx.rec EXCEPT !.preview = Disarmed] \in Record
        /\ [tx.rec EXCEPT !.source = Disarmed] \in Record
    BY <1>1, ConstantsTyped DEF Record
  <2> QED
    BY <1>2, <1>3, <1>7, <2>1 DEF RbSave, SaveJournal
<1>8. CASE RbGate1 \/ RbGate2 \/ RbGate3 \/ RbDecide \/ RbPark \/ RbVerify
  <2>1. /\ \/ tx' = tx \/ tx' = [tx EXCEPT !.failed = TRUE]
        /\ \/ UNCHANGED hw \/ pc' = "rb_save"
        /\ \/ pc = "rb_gate1" /\ pc' = "rb_select"
           \/ pc = "rb_gate2" /\ pc' = "rb_decide"
           \/ pc = "rb_decide" /\ pc' = "rb_write" /\ tx.attempted
           \/ pc \in RbLabels /\ pc' \in {"rb_gate3", "rb_park", "rb_save"}
    BY <1>2, <1>8
       DEF RbGate1, RbGate2, RbGate3, RbDecide, RbPark, RbVerify, IdleGate,
           Going, Write, ParkLabel, RbLabels, Frozen
  <2>2. /\ tx'.rec = tx.rec /\ tx'.preview = tx.preview
        /\ tx'.attempted = tx.attempted
    BY <1>1, <2>1 DEF Locals
  <2>3. Entry' = Entry /\ (UNCHANGED hw => LiveBanked' = LiveBanked)
    BY <2>2 DEF Entry, LiveBanked, LiveParam, LiveSample
  <2>4. pc \in RbLabels
    BY <2>1 DEF RbLabels
  <2> HIDE DEF Entry, LiveBanked
  <2> QED
    BY <1>1, <2>1, <2>2, <2>3, <2>4 DEF RestoresOwn
<1>9. CASE RbSelect
  <2>1. /\ pc = "rb_select" /\ hw' = Select(Entry.quad) /\ pc' = "rb_read"
        /\ UNCHANGED tx
    BY <1>2, <1>9 DEF RbSelect, RecWrite, Write, Going
  <2>2. hw'.selector = Entry.quad /\ Entry' = Entry
    BY <1>1, <2>1, SetFields DEF Entry
  <2> QED
    BY <2>1, <2>2 DEF RestoresOwn, RbLabels
<1>10. CASE RbRead
  <2>1. /\ pc = "rb_read" /\ pc' \in {"rb_gate2", "rb_decide"} /\ UNCHANGED hw
        /\ \/ tx' = tx
           \/ LiveBanked = Entry.applied /\ tx' = [tx EXCEPT !.attempted = TRUE]
           \/ tx' = [tx EXCEPT !.failed = TRUE]
    BY <1>10 DEF RbRead
  <2>2. /\ tx'.rec = tx.rec /\ tx'.preview = tx.preview
        /\ tx'.attempted # tx.attempted => LiveBanked = Entry.applied
    BY <1>1, <2>1 DEF Locals
  <2>3. Entry' = Entry /\ LiveBanked' = LiveBanked
    BY <2>1, <2>2 DEF Entry, LiveBanked, LiveParam, LiveSample
  <2> QED
    BY <1>1, <2>1, <2>2, <2>3 DEF RestoresOwn, RbLabels
<1>11. CASE RbWrite
  <2>1. /\ pc = "rb_write" /\ pc' \in {"rb_verify", "rb_gate3", "rb_park"}
        /\ \/ tx' = tx \/ tx' = [tx EXCEPT !.failed = TRUE]
    BY <1>11 DEF RbWrite, Write, Failing, ParkLabel
  <2>2. tx'.rec = tx.rec /\ tx'.preview = tx.preview
    BY <1>1, <2>1 DEF Locals
  <2>3. Entry' = Entry
    BY <2>2 DEF Entry
  <2> QED
    BY <2>1, <2>3 DEF RestoresOwn, RbLabels
<1> QED
  BY <1>4, <1>5, <1>6, <1>7, <1>8, <1>9, <1>10, <1>11 DEF RecoveryNext

\* Recovery.
LEMMA RecoveryCrate ==
    ASSUME TypeInv, TypeInv', CrateInv, RecoveryNext PROVE CrateInv'
<1>1. CASE pc' = "idle"
  BY <1>1, RecoveryShape, IdleCrate
<1>2. CASE pc' # "idle"
  <2>1. /\ RestoresOwn' /\ pc \in RecLabels /\ pc' \in RecLabels
        /\ tx'.since = tx.since /\ UNCHANGED mvme /\ Tame
    BY <1>2, RecoveryShape, RecoveryRestores DEF CrateInv
  <2>2. tx'.kind = "recover"
    BY <2>1 DEF TypeInv, KindOK
  <2>3. pc = "rec_check" => hw.daq = 0 \/ hw.stack # "foreign"
    <3>1. ASSUME pc = "rec_check" PROVE hw.daq = 0 \/ hw.stack # "foreign"
      <4>1. RecCheck /\ ~RecFail
        BY <1>2, <3>1
           DEF RecoveryNext, RecGate, RecTarget, RecStop, RecStopped,
               RecOthers, RecQuiet, RbGate1, RbSelect, RbRead, RbGate2,
               RbDecide, RbWrite, RbVerify, RbGate3, RbPark, RbSave, RecMvlc,
               RecClear, RecRemove, IdleGate, RecWrite, RecFail
      <4> QED
        BY <4>1 DEF RecCheck, Verdict, FingerprintMatches
    <3> QED
      BY <3>1
  <2>4. Spares'
    <3>1. pc' \notin Changing \cup StartLabels
      BY <2>1
         DEF Changing, SrcPre, SrcPost, SrcEnds, PrvLabels, PauseLabels,
             ResumeLabels, StartLabels, RecLabels
    <3>2. pc \in RecLabels \ {"rec_check"} /\ tx.since = "running"
            /\ mvme = "running" => hw.daq = 0 \/ hw.stack # "foreign"
      BY DEF CrateInv, Spares
    <3> QED
      BY <2>1, <2>3, <3>1, <3>2 DEF Spares, Tame
  <2>5. pc' \notin PauseLabels \cup Reading
            \cup {"src_check", "prv_check", "src_select", "prv_select"}
    BY <2>1 DEF RecLabels, PauseLabels, Reading
  <2>6. pc # "idle"
    BY <2>1 DEF RecLabels
  <2> QED
    BY <2>1, <2>2, <2>4, <2>5, <2>6 DEF CrateInv, SinceOK, PausedOK, QuadOK
<1> QED
  BY <1>1, <1>2

\* Every command begins where nothing is claimed yet.
LEMMA BeginCrate ==
    ASSUME SinceOK, pc' \in {"start_gate", "src_check", "prv_check",
                             "stop_source", "rec_check"},
           ~tx'.paused, tx'.since = mvme, UNCHANGED mvme, mvme \in Runs,
           QuadOK'
    PROVE  CrateInv'
<1>1. pc' \notin Changing \cup Reading \cup RbLabels \cup PauseLabels
        \cup (StartLabels \ {"start_gate", "start_verify", "start_activate"})
        \cup (RecLabels \ {"rec_check"}) \cup {"src_select", "prv_select"}
  BY DEF Changing, SrcPre, SrcPost, SrcEnds, PrvLabels, PauseLabels,
         ResumeLabels, StartLabels, RecLabels, Reading, RbLabels
<1>2. RestoresOwn'
  BY <1>1, NoRestore
<1>3. PausedOK' /\ Spares'
  BY <1>1 DEF PausedOK, Spares
<1> QED
  BY <1>2, <1>3 DEF CrateInv, SinceOK, Runs

\* Commands, the watchdog and the life of the process.
LEMMA CommandCrate ==
    ASSUME TypeInv, RunInv, PreviewInv, CrateInv,
           Command \/ PollWatchdog \/ Crash \/ StopWithoutTransport \/ Launch
    PROVE  CrateInv'
<1>1. UNCHANGED <<hw, mvme>> /\ mvme \in Runs
  BY QuietSteps DEF Frozen, TypeInv, TypeOK, CrateTypeOK
<1>2. CASE \/ CheckStatus \/ OpenSession \/ CheckDiagnosticRecoveryStatus
          \/ UseProject \/ Launch \/ PollWatchdog
          \/ Crash \/ StopWithoutTransport
          \/ (ReleaseSession /\ ~StopTask(TRUE))
  <2>1. pc' = "idle" /\ (tx' = NoTx \/ (UNCHANGED tx /\ pc = "idle"))
    <3>1. CASE Crash \/ StopWithoutTransport
      BY <3>1 DEF Crash, StopWithoutTransport, Dies
    <3>2. CASE ~(Crash \/ StopWithoutTransport)
      BY <1>2, <3>2
         DEF CheckStatus, OpenSession, CheckDiagnosticRecoveryStatus,
             UseProject, Launch, PollWatchdog, ReleaseSession, Idle, RunInv
    <3> QED
      BY <3>1, <3>2
  <2>2. tx'.kind = "none"
    BY <2>1 DEF PreviewInv, NoTx
  <2> QED
    BY <2>1, <2>2, IdleCrate
<1>3. CASE \/ StartDiagnosticAcquisition \/ ChangeDiagnosticSource
          \/ ApplyDiagnosticPreview \/ RestoreDiagnosticPreview
          \/ RecoverDiagnosticOrphan \/ StopTask(FALSE) \/ StopTask(TRUE)
  <2>1. ASSUME NEW kind \in Kinds, NEW l \in Locals,
               NEW label \in {"start_gate", "src_check", "prv_check",
                              "stop_source", "rec_check"},
               Begin(kind, l, label), ~l.paused,
               kind = "source" => l.quad = ses.quad /\ UNCHANGED ses
        PROVE  CrateInv'
    <3>1. /\ tx'.since = mvme /\ ~tx'.paused /\ tx'.kind = kind
          /\ tx'.quad = l.quad /\ pc' = label
      BY <1>1, <2>1 DEF Begin, Locals
    <3>2. QuadOK'
      BY <2>1, <3>1 DEF QuadOK
    <3> QED
      BY <1>1, <3>1, <3>2, BeginCrate DEF CrateInv
  <2>2. NoTx \in Locals /\ ~NoTx.paused
    BY ConstantsTyped DEF NoTx
  <2>3. /\ svc.pv.applied \in Nat /\ svc.pv.original \in Values
        /\ ses.quad \in Banks /\ svc.pending \in Record
    BY TypeFacts, ParamAssumption DEF Service, Preview, Values, Session
  <2>4. CASE StartDiagnosticAcquisition
    <3>1. PICK q \in Quads : Begin("start", [NoTx EXCEPT !.quad = q],
                                   "start_gate")
      BY <2>4 DEF StartDiagnosticAcquisition
    <3> DEFINE l == [NoTx EXCEPT !.quad = q]
    <3>2. l \in Locals /\ ~l.paused /\ Begin("start", l, "start_gate")
      BY <2>2, <3>1 DEF Locals, Banks
    <3> HIDE DEF l
    <3> QED
      BY <2>1, <3>2 DEF Kinds
  <2>5. CASE ChangeDiagnosticSource \/ ApplyDiagnosticPreview
    <3>1. ASSUME NEW k \in Nat, NEW kind \in {"source", "apply"},
                 NEW label \in {"src_check", "prv_check"},
                 Begin(kind, [NoTx EXCEPT !.quad = ses.quad, !.req = k], label)
          PROVE  CrateInv'
      <4> DEFINE l == [NoTx EXCEPT !.quad = ses.quad, !.req = k]
      <4>1. /\ l \in Locals /\ ~l.paused /\ l.quad = ses.quad
            /\ Begin(kind, l, label)
        BY <2>2, <2>3, <3>1 DEF Locals
      <4>2. UNCHANGED ses
        BY <2>5 DEF ChangeDiagnosticSource, ApplyDiagnosticPreview
      <4> HIDE DEF l
      <4> QED
        BY <2>1, <4>1, <4>2 DEF Kinds
    <3>2. Sources \subseteq Nat /\ PreviewValues \subseteq Nat
      BY RequestAssumption, ParamAssumption
    <3> QED
      BY <2>5, <3>1, <3>2 DEF ChangeDiagnosticSource, ApplyDiagnosticPreview
  <2>6. CASE RecoverDiagnosticOrphan
    <3> DEFINE l == [NoTx EXCEPT !.rec = svc.pending]
    <3>1. l \in Locals /\ ~l.paused /\ Begin("recover", l, "rec_check")
      BY <2>2, <2>3, <2>6 DEF Locals, RecoverDiagnosticOrphan
    <3> HIDE DEF l
    <3> QED
      BY <2>1, <3>1 DEF Kinds
  <2>7. PreviewLocals \in Locals /\ ~PreviewLocals.paused
    BY <2>2, <2>3 DEF PreviewLocals, Locals
  <2>8. CASE RestoreDiagnosticPreview
    BY <2>1, <2>7, <2>8 DEF RestoreDiagnosticPreview, Kinds
  <2>9. CASE StopTask(FALSE) \/ StopTask(TRUE)
    <3>1. PICK r \in BOOLEAN : StopTask(r)
      BY <2>9
    <3> DEFINE l == [PreviewLocals EXCEPT !.release = r]
               n == [NoTx EXCEPT !.release = r, !.left = StaleLeft]
    <3>2. l \in Locals /\ ~l.paused
      BY <2>7 DEF Locals
    <3>3. n \in Locals /\ ~n.paused
      <4>1. StaleLeft \in BOOLEAN
        BY DEF StaleLeft
      <4> QED
        BY <2>2, <4>1 DEF Locals
    <3>4. \/ Begin("stopRestore", l, "prv_check")
          \/ Begin("stop", n, "stop_source")
      BY <3>1 DEF StopTask
    <3> HIDE DEF l, n
    <3> QED
      BY <2>1, <3>2, <3>3, <3>4 DEF Kinds
  <2> QED
    BY <1>3, <2>4, <2>5, <2>6, <2>8, <2>9
<1> QED
  BY <1>2, <1>3 DEF Command, StopDiagnosticAcquisition

\* The other controller acts: what was known of the registers is claimed no
\* longer.
LEMMA MvmeCrate ==
    ASSUME TypeInv, CrateInv, Mvme PROVE CrateInv'
<1>1. /\ UNCHANGED <<ses, pc, tx>> /\ mvme' # "away"
      /\ \/ mvme = "away" /\ mvme' = "running"
         \/ mvme = "running" /\ mvme' = "stopped"
  BY DEF Mvme, MvmeStart, MvmeStop
<1>2. SinceOK' /\ PausedOK' /\ QuadOK'
  BY <1>1 DEF CrateInv, SinceOK, PausedOK, QuadOK
<1>3. pc # "idle" => mvme' # tx.since
  BY <1>1 DEF CrateInv, SinceOK
<1>4. RestoresOwn'
  <2>1. Entry' = Entry
    BY <1>1 DEF Entry
  <2> QED
    BY <1>1, <1>3, <2>1 DEF CrateInv, RestoresOwn
<1>5. Spares'
  BY <1>1, <1>3
     DEF Spares, Changing, SrcPre, SrcPost, SrcEnds, PrvLabels, PauseLabels,
         ResumeLabels, StartLabels, RecLabels
<1> QED
  BY <1>2, <1>4, <1>5 DEF CrateInv

\* Every step keeps the invariant.
LEMMA CrateStep ==
    ASSUME TypeInv, TypeInv', RunInv, PreviewInv, CrateInv, [Next]_vars
    PROVE  CrateInv'
<1>1. CASE Operation
  BY <1>1, PauseResumeCrate, SourceCrate, PreviewCrate, StartCrate, StopCrate,
     RecoveryCrate DEF Operation
<1>2. CASE \/ Command \/ PollWatchdog \/ Crash \/ StopWithoutTransport
          \/ Launch
  BY <1>2, CommandCrate
<1>3. CASE UNCHANGED vars
  BY <1>3
     DEF vars, CrateInv, SinceOK, RestoresOwn, Spares, PausedOK, QuadOK, Entry,
         LiveBanked, LiveParam, LiveSample
<1> QED
  BY <1>1, <1>2, <1>3, MvmeCrate DEF Next

\* The invariant holds when FIDGET is first launched.
LEMMA CrateStart == Init => CrateInv
BY DEF Init, SessionInit, NoTx, CrateInv, SinceOK, RestoresOwn, Spares,
       PausedOK, QuadOK, Changing, Reading, RbLabels, SrcPre, SrcPost,
       SrcEnds, PrvLabels, PauseLabels, ResumeLabels, StartLabels, RecLabels

----------------------------------------------------------------------------
(***************************************************************************)
(*                 2. What the invariant says of the writes                *)
(***************************************************************************)
\* All that is known of a state of the tuning session so far.
SafeInv == TypeInv /\ JournalInv /\ RunInv /\ PreviewInv /\ CrateInv

\* It holds at the launch.
LEMMA SafeStart == Init => SafeInv
BY TypeInit, JournalStart, RunInit, PreviewInit, CrateStart DEF SafeInv

\* Every step keeps it.
LEMMA SafeStep == SafeInv /\ [Next]_vars => SafeInv'
<1> SUFFICES ASSUME SafeInv, [Next]_vars PROVE SafeInv'
  OBVIOUS
<1>1. TypeInv' /\ JournalInv' /\ RunInv'
  BY TypeStep, JournalStep, RunStep DEF SafeInv
<1>2. PreviewInv' /\ CrateInv'
  BY <1>1, PreviewStep, CrateStep DEF SafeInv
<1> QED
  BY <1>1, <1>2 DEF SafeInv

(***************************************************************************)
(* A change, a start or a recovery that is requested while another         *)
(* controller's run is in progress sends no write into that run, for every *)
(* order of its replies and of the other controller's steps.               *)
(***************************************************************************)
THEOREM ForeignRunSpared == Spec => []ChangesSpareForeignRun
<1>1. SafeInv => ChangesSpareForeignRun
  <2> SUFFICES ASSUME SafeInv, tx.kind \notin StopKinds, ForeignRun,
                      pc \in WriteLabels
               PROVE  FALSE
    BY DEF ChangesSpareForeignRun
  <2>1. pc \notin StopLabels \cup SrcrLabels
    BY DEF SafeInv, TypeInv, KindOK, StopKinds
  <2>2. \/ pc \in Changing
        \/ pc \in StartLabels \ {"start_gate", "start_verify", "start_activate"}
        \/ pc \in RecLabels \ {"rec_check"}
    BY <2>1
       DEF WriteLabels, Changing, SrcPre, SrcPost, SrcEnds, PrvLabels,
           PauseLabels, ResumeLabels, StartLabels, RecLabels, StopLabels,
           SrcrLabels
  <2> QED
    BY <2>2 DEF SafeInv, CrateInv, Spares, ForeignRun
<1> QED
  BY <1>1, SafeStart, SafeStep, PTL DEF Spec

(***************************************************************************)
(* A temporary change and its rollback are written only while the module   *)
(* and DAQ mode are paused and only in the bank of the session's channel,  *)
(* whatever replies were lost before, as long as nobody else has used the  *)
(* crate.                                                                  *)
(***************************************************************************)
THEOREM ChangedWhilePaused == Spec => []ChangesWhilePaused
<1>1. SafeInv => ChangesWhilePaused
  <2> SUFFICES ASSUME SafeInv, mvme = "away",
                      pc \in {"src_write", "src_rollback", "prv_write",
                              "prv_rollback"}
               PROVE  hw.daq = 0 /\ hw.run = 0 /\ hw.selector = ses.quad
    BY DEF ChangesWhilePaused
  <2>1. tx.kind = "source" \/ tx.kind \in PrvKinds
    BY DEF SafeInv, TypeInv, KindOK, SrcPost, PrvLabels
  <2>2. tx.quad = ses.quad
    BY <2>1 DEF SafeInv, CrateInv, QuadOK, PreviewInv
  <2>3. tx.kind # "stopSource" /\ pc \in Reading
    BY <2>1 DEF PrvKinds, Reading
  <2> QED
    BY <2>2, <2>3 DEF SafeInv, CrateInv, PausedOK
<1> QED
  BY <1>1, SafeStart, SafeStep, PTL DEF Spec

\* The write of restoreBanked.
LEMMA BankedOverwrite ==
    ASSUME SafeInv, RbWrite, mvme = tx.since, NEW b \in Banks
    PROVE  /\ hw'.sample[b] # hw.sample[b] =>
                /\ tx.rec.source.required /\ tx.rec.source.quad = b
                /\ tx.rec.source.applied = hw.sample[b]
                /\ tx.rec.source.original = hw'.sample[b]
           /\ hw'.param[b] # hw.param[b] =>
                /\ tx.rec.preview.required /\ tx.rec.preview.quad = b
                /\ tx.rec.preview.applied = hw.param[b]
                /\ tx.rec.preview.original = hw'.param[b]
<1>1. /\ hw \in Hardware /\ pc = "rb_write"
      /\ hw' = hw \/ hw' = SetBanked(Entry.original)
  BY TypeFacts DEF SafeInv, RbWrite, Write
<1>2. /\ Entry.required /\ hw.selector = Entry.quad
      /\ LiveBanked = Entry.applied
  BY <1>1 DEF SafeInv, CrateInv, RestoresOwn, RbLabels
<1>3. CASE hw' = hw
  BY <1>3
<1>4. CASE tx.preview /\ hw' = SetParam(tx.rec.preview.original)
  <2>1. /\ hw'.sample = hw.sample
        /\ hw'.param = [hw.param EXCEPT ![hw.selector] = tx.rec.preview.original]
    BY <1>1, <1>4, SetFields
  <2> QED
    BY <1>1, <1>2, <1>4, <2>1 DEF Entry, LiveBanked, LiveParam, Hardware
<1>5. CASE ~tx.preview /\ hw' = SetSample(tx.rec.source.original)
  <2>1. /\ hw'.param = hw.param
        /\ hw'.sample = [hw.sample EXCEPT ![hw.selector] = tx.rec.source.original]
    BY <1>1, <1>5, SetFields
  <2> QED
    BY <1>1, <1>2, <1>5, <2>1 DEF Entry, LiveBanked, LiveSample, Hardware
<1> QED
  BY <1>1, <1>3, <1>4, <1>5 DEF SetBanked, Entry

\* No other step of a recovery writes a banked register.
LEMMA OnlyOverwrite ==
    ASSUME SafeInv, [Next]_vars, tx.kind = "recover", mvme' = mvme, ~RbWrite
    PROVE  hw'.sample = hw.sample /\ hw'.param = hw.param
<1>1. hw \in Hardware
  BY TypeFacts DEF SafeInv
<1>2. CASE RecoveryNext
  <2>1. \/ UNCHANGED hw \/ hw' = SetRun(0) \/ hw' = ClearMvlc
        \/ \E v : hw' = Select(v)
        \/ \E m : hw' = SetOther(m, 0)
    BY <1>2
       DEF RecoveryNext, RecCheck, RecGate, RecTarget, RecStop, RecStopped,
           RecOthers, RecQuiet, RbGate1, RbSelect, RbRead, RbGate2, RbDecide,
           RbVerify, RbGate3, RbPark, RbSave, RecMvlc, RecClear, RecRemove,
           IdleGate, RecWrite, Write, Frozen
  <2>2. /\ SetRun(0).sample = hw.sample /\ SetRun(0).param = hw.param
        /\ ClearMvlc.sample = hw.sample /\ ClearMvlc.param = hw.param
    BY <1>1, SetFields
  <2>3. ASSUME NEW v PROVE Select(v).sample = hw.sample /\ Select(v).param = hw.param
    BY <1>1 DEF Select, Hardware
  <2>4. ASSUME NEW m PROVE /\ SetOther(m, 0).sample = hw.sample
                           /\ SetOther(m, 0).param = hw.param
    BY <1>1 DEF SetOther, Hardware
  <2> QED
    BY <2>1, <2>2, <2>3, <2>4
<1>3. CASE Operation /\ ~RecoveryNext
  <2>1. OpEnd
    <3>1. pc \notin PauseLabels \cup ResumeLabels \cup SrcPre \cup SrcPost
            \cup SrcEnds \cup SrcrLabels \cup PrvLabels \cup StartLabels
            \cup StopLabels
      BY DEF SafeInv, TypeInv, KindOK, PrvKinds
    <3>2. ~PauseResumeNext
      BY <3>1
         DEF PauseResumeNext, PauseModule, PauseDaq, PauseVerify, ResumeModule,
             ResumeDaq, ResumeVerify, PauseLabels, ResumeLabels
    <3>3. ~PreviewNext
      BY <3>1
         DEF PreviewNext, PrvCheck, PrvSelect, PrvRead, PrvArm, PrvWrite,
             PrvVerify, PrvRollback, PrvRolled, PrvPark, PrvDisarm, PrvSettle,
             PrvEnd, PrvLabels
    <3>4. ~StartNext
      BY <3>1
         DEF StartNext, StartGate, StartProbe, StartJournal, StartGate2,
             StartQuiesce, StartQuiet, StartOpen, StartStack, StartSetup,
             StartTrigger, StartReset, StartModule, StartDaq, StartVerify,
             StartActivate, StartWrite, StartLabels
    <3>5. ~StopNext
      BY <3>1
         DEF StopNext, StopSource, StopCheck, StopModule, StopStopped,
             StopOthers, StopOther, StopQuiet, StopMvlc, StopClear, StopEnd,
             StopLabels
    <3>6. SourceNext => OpEnd
      BY <3>1
         DEF SourceNext, SrcCheck, SrcSelect, SrcRead, SrcArm, SrcWrite,
             SrcVerify, SrcRollback, SrcRolled, SrcPark, SrcDisarm, SrcEnd,
             SrcrCheck, SrcrSelect, SrcrWrite, SrcrVerify, SrcrPark,
             SrcrDisarm, SrcrEnd, SrcPre, SrcPost, SrcEnds, SrcrLabels
    <3> QED
      BY <1>3, <3>2, <3>3, <3>4, <3>5, <3>6 DEF Operation
  <2> QED
    BY <2>1 DEF OpEnd, Frozen
<1>4. CASE Command \/ PollWatchdog \/ Crash \/ StopWithoutTransport \/ Launch
  BY <1>4, QuietSteps DEF Frozen
<1>5. CASE UNCHANGED vars
  BY <1>5 DEF vars
<1>6. ~Mvme
  BY DEF Mvme, MvmeStart, MvmeStop
<1> QED
  BY <1>2, <1>3, <1>4, <1>5, <1>6 DEF Next

(***************************************************************************)
(* Recovery overwrites a banked register only where the live value is the  *)
(* one its record says FIDGET applied, in the bank the record names, and   *)
(* only with the recorded original, unless somebody acted since the        *)
(* recovery began.                                                         *)
(***************************************************************************)
THEOREM OverwritesItsOwn == Spec => RecoveryOverwritesItsOwn
<1> DEFINE Own ==
       tx.kind = "recover" /\ mvme = tx.since /\ mvme' = mvme =>
         \A b \in Banks :
            /\ hw'.sample[b] # hw.sample[b] =>
                 /\ tx.rec.source.required
                 /\ tx.rec.source.quad = b
                 /\ tx.rec.source.applied = hw.sample[b]
                 /\ tx.rec.source.original = hw'.sample[b]
            /\ hw'.param[b] # hw.param[b] =>
                 /\ tx.rec.preview.required
                 /\ tx.rec.preview.quad = b
                 /\ tx.rec.preview.applied = hw.param[b]
                 /\ tx.rec.preview.original = hw'.param[b]
<1>1. SafeInv /\ [Next]_vars => Own
  <2> SUFFICES ASSUME SafeInv, [Next]_vars, tx.kind = "recover",
                      mvme = tx.since, mvme' = mvme
               PROVE  Own
    OBVIOUS
  <2>1. CASE RbWrite
    BY <2>1, BankedOverwrite
  <2>2. CASE ~RbWrite
    BY <2>2, OnlyOverwrite
  <2> QED
    BY <2>1, <2>2
<1>2. SafeInv /\ [Next]_vars => [Own]_vars
  BY <1>1
<1> QED
  BY <1>2, SafeStart, SafeStep, PTL DEF Spec, RecoveryOverwritesItsOwn

----------------------------------------------------------------------------
(***************************************************************************)
(* Every temporary waveform source is journaled from before its write      *)
(* until the original has been verified back, and a Stop that removes the  *)
(* journal leaves the crate as it was found.                               *)
(*                                                                         *)
(* What makes this hard is that the duty to restore is held in up to four  *)
(* places (the file, the session's record, the service's pending record    *)
(* and the copy a recovery works on) which failed saves let differ.  Any   *)
(* of them may become the next file or the next recovery's copy, so the    *)
(* invariant asks of each that it can repair every deviation there is.     *)
(***************************************************************************)

\* No bank deviates from the word it was found with.
Clean(smp) == \A b \in Banks : smp[b] = FoundSample[b]
\* Restoring entry e repairs every deviation, and writes no other word than
\* the one that was found.
Repairs(e, smp) ==
    /\ \A b \in Banks : smp[b] # FoundSample[b] => Names(e, b, FoundSample)
    /\ e.required => e.original = FoundSample[e.quad]

(***************************************************************************)
(* The duties that session s, service v and journal j hold together.  A    *)
(* service that knows of no duty has none, and a session that is marked    *)
(* foreign or orphan can be dropped because its record is pending.         *)
(***************************************************************************)
Kept(s, v, j, smp) ==
    /\ Repairs(j.source, smp)
    /\ j.phase = "None" => Clean(smp)
    /\ s.state # "None" => Repairs(s.rec.source, smp)
    /\ v.pending.phase # "None" => Repairs(v.pending.source, smp)
    /\ s.state = "None" /\ v.pending.phase = "None" /\ v.alive => Clean(smp)
    /\ s.foreign \/ s.orphan => s.state # "None" /\ v.pending.phase # "None"
    /\ ~v.alive => s.state = "None"

\* The word that the bank of the operation in progress was found with.
Found == FoundSample[tx.quad]

\* A source change, from its fingerprint check to the end of its entry.
ChangeOK ==
    tx.kind = "source" =>
        /\ svc.acq = "Running"
        /\ ses.rec.source.required => ses.rec.source.quad = tx.quad
        /\ pc \in SrcPre \cup PauseLabels \cup {"src_arm"} => ~tx.armed
        /\ pc \in SrcPre \cup PauseLabels \cup SrcPost =>
              ~tx.verified /\ ~tx.rolled
        /\ pc = "src_arm" /\ ~ses.rec.source.required => tx.live = Found
        /\ pc \in SrcPost /\ tx.armed => tx.live = Found
        /\ pc \in SrcPost /\ tx.back => tx.req = Found
        /\ pc \in SrcPost \ {"src_arm"} =>
              /\ Names(journal.source, tx.quad, FoundSample)
              /\ ses.rec.source.required
        /\ pc = "src_rolled" => hw.selector = tx.quad
        /\ pc = "src_park" /\ DeviationGone => Clean(hw.sample)
        /\ pc = "src_disarm" => Clean(hw.sample)

\* The restore of the source that Stop performs.
Restoring == {"srcr_check", "srcr_select", "srcr_write", "srcr_verify"}
RestoreOK ==
    /\ tx.kind = "stop" => ~tx.verified
    /\ tx.kind = "stopSource" =>
        /\ pc \in Restoring \cup PauseLabels =>
              /\ ses.rec.source.required /\ tx.quad = ses.rec.source.quad
              /\ tx.live = Found /\ ~tx.verified
        /\ pc \in {"srcr_write", "srcr_verify"} => hw.selector = tx.quad
        /\ pc \in {"srcr_park", "srcr_disarm"} /\ tx.verified =>
              Clean(hw.sample)
        /\ pc = "srcr_disarm" => tx.verified

\* A recovery disarms its source entry only when the bank has been read back.
RecoverOK ==
    /\ pc \in RecLabels => Repairs(tx.rec.source, hw.sample)
    /\ pc \in {"rec_mvlc", "rec_clear", "rec_remove"} => ~RestorePending(tx.rec)
    /\ pc \in {"rb_gate1", "rb_select", "rb_read"} => ~tx.failed
    /\ pc \in {"rb_gate2", "rb_decide"} /\ ~tx.failed /\ ~tx.preview
          /\ ~tx.attempted => Clean(hw.sample)
    /\ pc = "rb_verify" => hw.selector = Entry.quad
    /\ pc \in {"rb_gate3", "rb_park"} /\ ~tx.failed /\ ~tx.preview =>
          Clean(hw.sample)
    /\ pc = "rb_save" /\ ~tx.preview => Clean(hw.sample)

\* A start's record has nothing to restore.
StartOK == pc \in StartLabels => ~tx.rec.source.required

\* What the operation in progress knows.
WorkOK == ChangeOK /\ RestoreOK /\ RecoverOK /\ StartOK

\* The inductive strengthening of SourceIsJournaled.
SourceInv ==
    mvme = "away" => Kept(ses, svc, journal, hw.sample) /\ WorkOK

----------------------------------------------------------------------------
(***************************************************************************)
(*                     1. Entries and what they repair                     *)
(***************************************************************************)
\* An entry that is not armed repairs nothing, so nothing deviates; one whose
\* bank holds the found word has nothing left to repair.
LEMMA RepairsNothing ==
    ASSUME NEW e, NEW smp, Repairs(e, smp)
    PROVE  /\ ~e.required => Clean(smp)
           /\ smp[e.quad] = FoundSample[e.quad] => Clean(smp)
BY DEF Repairs, Clean, Names

\* In a clean crate any entry does that would write the found word.
LEMMA CleanRepairs ==
    ASSUME NEW smp, Clean(smp), NEW e,
           e.required => e.original = FoundSample[e.quad]
    PROVE  Repairs(e, smp)
BY DEF Repairs, Clean

\* Writing the found word back keeps every entry good.
LEMMA RestoringRepairs ==
    ASSUME NEW smp \in [Banks -> Words], NEW q, NEW e, Repairs(e, smp)
    PROVE  Repairs(e, [smp EXCEPT ![q] = FoundSample[q]])
BY DEF Repairs

\* Writing any word into the bank an entry names keeps that entry good.
LEMMA NamedRepairs ==
    ASSUME NEW smp \in [Banks -> Words], NEW q, NEW e, NEW w, Repairs(e, smp),
           Names(e, q, FoundSample)
    PROVE  Repairs(e, [smp EXCEPT ![q] = w])
BY DEF Repairs, Names

\* The disarmed entry is good in a clean crate only.
LEMMA DisarmedRepairs ==
    \A smp : Clean(smp) => Repairs(Disarmed, smp)
BY DEF Repairs, Clean, Disarmed

----------------------------------------------------------------------------
(***************************************************************************)
(*                  2. How the duties pass through a step                  *)
(***************************************************************************)
\* Nothing is claimed of an operation that touches no source.
LEMMA OtherWork ==
    ASSUME tx'.kind \notin {"source", "stopSource"},
           tx'.kind = "stop" => ~tx'.verified,
           pc' \notin RecLabels \cup StartLabels
    PROVE  WorkOK'
BY DEF WorkOK, ChangeOK, RestoreOK, RecoverOK, StartOK, RecLabels

\* Nor of an idle worker.
LEMMA IdleWork == ASSUME pc' = "idle", tx' = NoTx PROVE WorkOK'
<1>1. tx'.kind = "none"
  BY DEF NoTx
<1> QED
  BY <1>1, OtherWork DEF RecLabels, StartLabels

\* Return hands the duties of the pair it is given on, also when it drops a
\* marked session or releases a service without one.
LEMMA ReturnKeeps ==
    ASSUME NEW s \in Session, NEW v \in Service, Return(s, v), v.alive,
           mvme' = "away" => Kept(s, v, journal', hw'.sample)
    PROVE  SourceInv'
<1>1. /\ Dropped(v).pending = v.pending /\ Dropped(v).alive = v.alive
      /\ Dropped(v) \in Service
  BY DEF Dropped, Service, Ownership
<1>2. Released(v).pending = v.pending /\ Released(v).alive = v.alive
  BY <1>1 DEF Released, Service
<1>3. /\ NoSession.state = "None" /\ ~NoSession.foreign /\ ~NoSession.orphan
  BY DEF NoSession
<1>4. ASSUME mvme' = "away" PROVE Kept(ses, svc, journal, hw.sample)'
  <2>1. Kept(s, v, journal', hw'.sample)
    BY <1>4
  <2>2. CASE ses' = s /\ svc' \in {v, Released(v)}
    BY <1>2, <2>1, <2>2 DEF Kept
  <2>3. CASE ses' = NoSession /\ svc' = Dropped(v) /\ (s.foreign \/ s.orphan)
    BY <1>1, <1>3, <2>1, <2>3 DEF Kept
  <2> QED
    BY <2>2, <2>3 DEF Return
<1>5. WorkOK'
  BY IdleWork DEF Return
<1> QED
  BY <1>4, <1>5 DEF SourceInv

\* A step that leaves every holder of a duty and the banks alone.
Undisturbed ==
    hw'.sample = hw.sample /\ UNCHANGED <<mvme, journal, svc, ses>>

\* Such a step keeps the invariant when it keeps what its own task owes.
LEMMA UndisturbedKeeps ==
    ASSUME SourceInv, Undisturbed, mvme = "away" /\ WorkOK => WorkOK'
    PROVE  SourceInv'
BY DEF SourceInv, Undisturbed, Kept

\* No register but the sample configuration changes the banks.
LEMMA SampleKept ==
    ASSUME TypeInv,
           \/ hw' = hw \/ hw' = ClearMvlc
           \/ \E v \in {0, 1} : hw' = SetRun(v) \/ hw' = SetDaq(v)
           \/ \E v : hw' \in {SetParam(v), Select(v), SetStack(v)}
           \/ \E m : hw' = SetOther(m, 0)
    PROVE  hw'.sample = hw.sample
<1>1. hw \in Hardware
  BY TypeFacts
<1>2. ASSUME NEW v \in {0, 1}, hw' = SetRun(v) \/ hw' = SetDaq(v)
      PROVE  hw'.sample = hw.sample
  BY <1>1, <1>2, SetFields
<1>3. ASSUME NEW v, hw' \in {SetParam(v), Select(v), SetStack(v)}
      PROVE  hw'.sample = hw.sample
  BY <1>1, <1>3 DEF SetParam, Select, SetStack, Hardware
<1>4. ASSUME NEW m, hw' = SetOther(m, 0) PROVE hw'.sample = hw.sample
  BY <1>1, <1>4 DEF SetOther, Hardware
<1>5. ClearMvlc.sample = hw.sample
  BY <1>1, SetFields
<1> QED
  BY <1>2, <1>3, <1>4, <1>5

\* The session is taken over by another controller: its record is pending.
LEMMA ForeignKeeps ==
    ASSUME TypeInv, JournalInv, SourceInv, HasSession, svc.alive, Frozen,
           NEW pv \in Preview,
           Return(ForeignSession, DetachForForeignDiagnosticFingerprint(pv))
    PROVE  SourceInv'
<1> DEFINE s == ForeignSession
           v == DetachForForeignDiagnosticFingerprint(pv)
<1>1. svc \in Service /\ ses \in Session /\ s \in Session /\ v \in Service
  BY TypeFacts, ForeignCoherent
<1>2. s.state = "Failed" /\ s.rec = ses.rec
  BY <1>1 DEF ForeignSession, Session
<1>3. v.pending = ses.rec /\ v.alive = svc.alive
  BY <1>1 DEF DetachForForeignDiagnosticFingerprint, Service
<1>4. ses.rec.phase # "None"
  BY DEF JournalInv, SessionJournaled
<1>5. mvme' = "away" => Kept(s, v, journal', hw'.sample)
  BY <1>2, <1>3, <1>4 DEF SourceInv, Kept, HasSession, Frozen
<1> HIDE DEF s, v
<1> QED
  BY <1>1, <1>3, <1>5, ReturnKeeps DEF s, v

\* The session is kept as it is.
LEMMA SameKeeps ==
    ASSUME TypeInv, SourceInv, svc.alive, Frozen, NEW v \in Service,
           v.pending = svc.pending, v.alive, Return(ses, v)
    PROVE  SourceInv'
<1>1. mvme' = "away" => Kept(ses, v, journal', hw'.sample)
  BY DEF SourceInv, Kept, Frozen
<1> QED
  BY <1>1, TypeFacts, ReturnKeeps

----------------------------------------------------------------------------
(***************************************************************************)
(*                3. Operations that write no source word                  *)
(***************************************************************************)
\* Pausing and resuming keep the request and what is known of its bank.
LEMMA PauseResumeSource ==
    ASSUME TypeInv, SourceInv, PauseResumeNext PROVE SourceInv'
<1>1. tx \in Locals
  BY TypeFacts
<1>2. /\ pc \in PauseLabels \cup ResumeLabels
      /\ pc \in PauseLabels =>
           pc' \in PauseLabels \cup {PausedLabel[tx.kind], NotPausedLabel[tx.kind]}
      /\ pc \in ResumeLabels => pc' \in ResumeLabels \cup {ResumedLabel[tx.kind]}
      /\ UNCHANGED <<mvme, journal, svc, ses>>
      /\ hw' = hw \/ \E v \in {0, 1} : hw' = SetRun(v) \/ hw' = SetDaq(v)
  BY DEF PauseResumeNext, PauseModule, PauseDaq, PauseVerify, ResumeModule,
         ResumeDaq, ResumeVerify, Write, NotPaused, Failing, PauseLabels,
         ResumeLabels, HardwareOnly
<1>3. Undisturbed
  BY <1>2, SampleKept DEF Undisturbed
<1>4. \/ tx' = tx \/ tx' = [tx EXCEPT !.paused = TRUE]
      \/ tx' = [tx EXCEPT !.failed = TRUE]
      \/ tx' = [tx EXCEPT !.resumed = TRUE]
      \/ tx' = [tx EXCEPT !.failed = TRUE, !.paused = FALSE]
  BY DEF PauseResumeNext, PauseModule, PauseDaq, PauseVerify, ResumeModule,
         ResumeDaq, ResumeVerify, Write, NotPaused, Failing
<1>5. /\ tx'.kind = tx.kind /\ tx'.quad = tx.quad /\ tx'.live = tx.live
      /\ tx'.verified = tx.verified /\ tx'.rolled = tx.rolled
      /\ tx'.armed = tx.armed
  BY <1>1, <1>4 DEF Locals
<1>6. ASSUME WorkOK PROVE WorkOK'
  <2>1. CASE tx.kind = "source"
    <3>1. pc' \in ResumeLabels \cup {"op_end"}
             \/ (pc \in PauseLabels /\ pc' \in PauseLabels \cup {"src_select"})
      BY <1>2, <2>1 DEF PausedLabel, NotPausedLabel, ResumedLabel
    <3> QED
      BY <1>2, <1>5, <1>6, <2>1, <3>1
         DEF WorkOK, ChangeOK, RestoreOK, RecoverOK, StartOK, SrcPre, SrcPost,
             PauseLabels, ResumeLabels, RecLabels, StartLabels
  <2>2. CASE tx.kind = "stopSource"
    <3>1. /\ pc \in PauseLabels
          /\ pc' \in PauseLabels \cup {"srcr_select", "srcr_end"}
      BY <1>2, <2>2 DEF PausedLabel, NotPausedLabel, TypeInv, KindOK
    <3> QED
      BY <1>2, <1>5, <1>6, <2>2, <3>1
         DEF WorkOK, ChangeOK, RestoreOK, RecoverOK, StartOK, Restoring, Found,
             PauseLabels, RecLabels, StartLabels
  <2>3. CASE tx.kind \in PrvKinds
    <3>1. pc' \in PauseLabels \cup ResumeLabels \cup {"prv_select", "prv_end"}
      BY <1>2, <2>3
         DEF PausedLabel, NotPausedLabel, ResumedLabel, PrvKinds, TypeInv,
             KindOK
    <3> QED
      BY <1>5, <2>3, <3>1, OtherWork
         DEF PrvKinds, PauseLabels, ResumeLabels, RecLabels, StartLabels
  <2> QED
    BY <1>2, <2>1, <2>2, <2>3 DEF TypeInv, KindOK, PrvKinds
<1> QED
  BY <1>3, <1>6, UndisturbedKeeps

\* A preview transaction saves records whose source entry is the session's.
LEMMA PreviewSource ==
    ASSUME TypeInv, JournalInv, SourceInv, svc.alive, PreviewNext
    PROVE  SourceInv'
<1>1. /\ tx \in Locals /\ ses \in Session /\ svc \in Service
      /\ ses.rec \in Record /\ svc.pv \in Preview
  BY TypeFacts DEF Session, Service
<1>2. /\ pc \in PrvLabels
  BY DEF PreviewNext, PrvCheck, PrvSelect, PrvRead, PrvArm, PrvWrite,
         PrvVerify, PrvRollback, PrvRolled, PrvPark, PrvDisarm, PrvSettle,
         PrvEnd, PrvLabels
<1>3. HasSession /\ journal.phase # "None" /\ ses.rec.phase # "None"
  BY <1>2, InsideSession DEF SessionLabels
<1>4. tx.kind \in PrvKinds
  BY <1>2 DEF TypeInv, KindOK
<1>5. ASSUME tx'.kind = tx.kind, pc' \in PrvLabels \cup PauseLabels \cup ResumeLabels
      PROVE  WorkOK'
  BY <1>4, <1>5, OtherWork
     DEF PrvKinds, PrvLabels, PauseLabels, ResumeLabels, RecLabels, StartLabels
<1>6. CASE PrvCheck
  <2>1. PICK r1 \in Preview, r2 \in Preview :
           /\ Frozen
           /\ \/ pc' = "pause_module" /\ UNCHANGED <<tx, svc, ses>>
              \/ Return(ForeignSession, DetachForForeignDiagnosticFingerprint(r1))
              \/ Return(ses, [svc EXCEPT !.pv = r2])
    BY <1>6, ResultsTyped, ConstantsTyped DEF PrvCheck
  <2>2. CASE pc' = "pause_module" /\ UNCHANGED <<tx, svc, ses>>
    BY <1>5, <2>1, <2>2, UndisturbedKeeps DEF Undisturbed, Frozen, PauseLabels
  <2> QED
    BY <1>3, <2>1, <2>2, ForeignKeeps, SameKeeps, PublishKeeps
<1>7. CASE PrvEnd
  <2>1. PreviewResult \in Preview /\ Frozen
    BY <1>7, ResultsTyped DEF PrvEnd, PrvLabels
  <2>2. CASE Return(ses, [svc EXCEPT !.pv = PreviewResult])
    BY <2>1, <2>2, SameKeeps, PublishKeeps
  <2>3. CASE tx.kind = "stopRestore" /\ ~Return(ses, [svc EXCEPT !.pv = PreviewResult])
    <3>1. /\ svc' = [svc EXCEPT !.pv = PreviewResult] /\ UNCHANGED ses
          /\ pc' = "stop_source"
          /\ tx' = [NoTx EXCEPT !.kind = "stop", !.release = tx.release,
                                !.since = tx.since,
                                !.left = tx.paused /\ ~tx.resumed]
      BY <1>7, <2>3 DEF PrvEnd
    <3>2. tx'.kind = "stop" /\ ~tx'.verified
      BY <3>1 DEF NoTx
    <3>3. WorkOK'
      BY <3>1, <3>2, OtherWork DEF RecLabels, StartLabels
    <3> QED
      BY <2>1, <3>1, <3>3, PublishKeeps DEF SourceInv, Kept, Frozen
  <2> QED
    BY <1>7, <2>2, <2>3 DEF PrvEnd
<1>8. CASE PrvArm \/ PrvDisarm
  <2>1. PICK e \in Restore(Params) :
           LET rec == [ses.rec EXCEPT !.preview = e]
           IN  /\ journal' \in {journal, rec}
               /\ ses' \in {ses, [ses EXCEPT !.rec = rec]}
    BY <1>8, PreviewSaved
  <2>2. /\ UNCHANGED <<hw, mvme, svc>>
        /\ pc' \in {"prv_write", "prv_park", "prv_settle"}
        /\ \/ tx' = tx \/ tx' = [tx EXCEPT !.armed = TRUE]
           \/ tx' = [tx EXCEPT !.failed = TRUE]
    BY <1>8
       DEF PrvArm, PrvDisarm, SavePreviewRecoveryState, SaveJournal, Failing,
           DiskOnly
  <2> DEFINE rec == [ses.rec EXCEPT !.preview = e]
  <2>3. rec \in Record /\ rec.phase = ses.rec.phase /\ rec.source = ses.rec.source
    BY <1>1, <2>1 DEF Record
  <2>4. /\ journal' \in {journal, rec}
        /\ ses' \in {ses, [ses EXCEPT !.rec = rec]}
    BY <2>1
  <2> HIDE DEF rec
  <2>5. /\ ses'.state = ses.state /\ ses'.foreign = ses.foreign
        /\ ses'.orphan = ses.orphan /\ ses'.rec \in {ses.rec, rec}
    BY <2>3, <2>4, SaveKeeps
  <2>6. WorkOK'
    <3>1. tx'.kind = tx.kind
      BY <1>1, <2>2 DEF Locals
    <3> QED
      BY <1>5, <2>2, <3>1 DEF PrvLabels
  <2> QED
    BY <1>3, <2>2, <2>3, <2>4, <2>5, <2>6 DEF SourceInv, Kept, HasSession
<1>9. CASE \/ PrvSelect \/ PrvRead \/ PrvWrite \/ PrvVerify \/ PrvRollback
          \/ PrvRolled \/ PrvPark \/ PrvSettle
  <2>1. /\ UNCHANGED <<mvme, journal, svc, ses>>
        /\ pc' \in PrvLabels \cup {"resume_module"}
        /\ hw' = hw \/ \E v : hw' \in {SetParam(v), Select(v), SetStack(v)}
    BY <1>9
       DEF PrvSelect, PrvRead, PrvWrite, PrvVerify, PrvRollback, PrvRolled,
           PrvPark, PrvSettle, Write, Failing, Unverified, HardwareOnly,
           PrvLabels
  <2>2. \/ tx' = tx
        \/ tx' = [tx EXCEPT !.failed = TRUE]
        \/ tx' = [tx EXCEPT !.live = LiveParam]
        \/ tx' = [tx EXCEPT !.attempted = TRUE]
        \/ tx' = [tx EXCEPT !.attempted = TRUE, !.failed = TRUE]
        \/ tx' = [tx EXCEPT !.verified = TRUE]
        \/ tx' = [tx EXCEPT !.rolled = TRUE]
        \/ tx' = [tx EXCEPT !.parked = TRUE]
        \/ tx' = [tx EXCEPT !.selected = TRUE]
    BY <1>9
       DEF PrvSelect, PrvRead, PrvWrite, PrvVerify, PrvRollback, PrvRolled,
           PrvPark, PrvSettle, Write, Failing, Unverified
  <2>3. tx'.kind = tx.kind
    BY <1>1, <2>2 DEF Locals
  <2>4. Undisturbed
    BY <2>1, SampleKept DEF Undisturbed
  <2> QED
    BY <1>5, <2>1, <2>3, <2>4, UndisturbedKeeps DEF ResumeLabels
<1> QED
  BY <1>6, <1>7, <1>8, <1>9 DEF PreviewNext

\* Start runs in a clean crate, and whatever it leaves behind has nothing to
\* restore.
LEMMA StartSource ==
    ASSUME TypeInv, TypeInv', JournalInv, RunInv, SourceInv, svc.alive,
           StartNext
    PROVE  SourceInv'
<1>1. /\ tx \in Locals /\ svc \in Service /\ tx.rec \in Record
      /\ tx.quad \in Banks
  BY TypeFacts
<1>2. pc \in StartLabels /\ UNCHANGED mvme
  BY DEF StartNext, StartGate, StartProbe, StartJournal, StartGate2,
         StartQuiesce, StartQuiet, StartOpen, StartStack, StartSetup,
         StartTrigger, StartReset, StartModule, StartDaq, StartVerify,
         StartActivate, StartWrite, StartLabels, HardwareOnly, Frozen
<1>3. /\ ses.state = "None" /\ svc.pending.phase = "None"
  BY <1>2 DEF RunInv, Coherent, HasSession
<1>4. hw'.sample = hw.sample
  <2>1. \/ hw' = hw
        \/ \E v \in {0, 1} : hw' = SetRun(v) \/ hw' = SetDaq(v)
        \/ \E v : hw' \in {SetParam(v), Select(v), SetStack(v)}
        \/ \E m : hw' = SetOther(m, 0)
    BY DEF StartNext, StartGate, StartProbe, StartJournal, StartGate2,
           StartQuiesce, StartQuiet, StartOpen, StartStack, StartSetup,
           StartTrigger, StartReset, StartModule, StartDaq, StartVerify,
           StartActivate, StartWrite, Write, Installed, Frozen
  <2> QED
    BY <2>1, SampleKept
<1> SUFFICES ASSUME mvme' = "away" PROVE SourceInv'
  BY DEF SourceInv
<1>5. /\ Clean(hw'.sample) /\ ~tx.rec.source.required
      /\ journal.source.required =>
           journal.source.original = FoundSample[journal.source.quad]
  BY <1>2, <1>3, <1>4 DEF SourceInv, Kept, WorkOK, StartOK, Repairs
<1>6. ~NoRecord.source.required /\ ~PreparedRecord.source.required
  BY DEF NoRecord, PreparedRecord, Disarmed
\* The three ways a start ends without an acquisition.
<1>7. ASSUME NEW s \in Session, NEW v \in Service, Return(s, v), v.alive,
             s.state # "None" => ~s.rec.source.required,
             v.pending.phase # "None" => ~v.pending.source.required,
             ~s.foreign, ~s.orphan,
             journal'.source.required =>
               journal'.source.original = FoundSample[journal'.source.quad]
      PROVE  SourceInv'
  <2>1. Kept(s, v, journal', hw'.sample)
    BY <1>5, <1>7, CleanRepairs DEF Kept
  <2> QED
    BY <1>7, <2>1, ReturnKeeps
<1>8. ASSUME NEW v \in Service, v.alive, NotPrepared(v),
             v.pending.phase # "None" => ~v.pending.source.required,
             journal'.source.required =>
               journal'.source.original = FoundSample[journal'.source.quad]
      PROVE  SourceInv'
  <2> DEFINE w == [v EXCEPT !.acq = "Failed"]
  <2>1. /\ w \in Service /\ w.alive /\ w.pending = v.pending
        /\ Return(NoSession, w)
    BY <1>8 DEF Service, Acquisition, NotPrepared
  <2>2. /\ NoSession \in Session /\ NoSession.state = "None"
        /\ ~NoSession.foreign /\ ~NoSession.orphan
    BY ConstantsTyped DEF NoSession
  <2> HIDE DEF w
  <2> QED
    BY <1>7, <1>8, <2>1, <2>2
<1>9. ASSUME NEW v \in Service, v.alive, PreparedOrphan(v), UNCHANGED journal
      PROVE  SourceInv'
  <2>1. PICK own \in {"OwnershipLost", "RecoveryRequired"} :
           NotPrepared([v EXCEPT !.pending = tx.rec, !.own = own])
    BY <1>9 DEF PreparedOrphan
  <2> DEFINE w == [v EXCEPT !.pending = tx.rec, !.own = own]
  <2>2. w \in Service /\ w.alive /\ w.pending = tx.rec /\ NotPrepared(w)
    BY <1>1, <1>9, <2>1 DEF Service, Ownership
  <2> HIDE DEF w
  <2> QED
    BY <1>5, <1>8, <1>9, <2>2
<1>10. ASSUME NEW r \in Record, ~r.source.required, StartFailed(r),
              journal'.source.required =>
                journal'.source.original = FoundSample[journal'.source.quad]
       PROVE  SourceInv'
  <2> DEFINE s == [state |-> "Failed", foreign |-> FALSE, orphan |-> FALSE,
                   rec |-> r, quad |-> tx.quad, reset |-> NonTargets]
             v == [svc EXCEPT !.acq = "Failed", !.pending = r]
  <2>1. s \in Session /\ s.rec = r /\ ~s.foreign /\ ~s.orphan
    BY <1>1 DEF Session
  <2>2. v \in Service /\ v.alive /\ v.pending = r
    BY <1>1 DEF Service, Acquisition
  <2>3. Return(s, v)
    BY <1>10 DEF StartFailed
  <2> HIDE DEF s, v
  <2> QED
    BY <1>7, <1>10, <2>1, <2>2, <2>3
<1>11. CASE StartJournal
  <2>1. /\ journal' \in {journal, PreparedRecord}
        /\ \/ NotPrepared(svc)
           \/ /\ journal' = PreparedRecord /\ UNCHANGED <<svc, ses>>
              /\ tx' = [tx EXCEPT !.rec = PreparedRecord] /\ pc' = "start_gate2"
    BY <1>11 DEF StartJournal, SaveJournal
  <2>2. journal'.source.required =>
           journal'.source.original = FoundSample[journal'.source.quad]
    BY <1>5, <1>6, <2>1
  <2>3. CASE ~NotPrepared(svc)
    <3>1. tx'.rec = PreparedRecord /\ tx'.kind = "start"
      BY <1>1, <1>2, <2>1, <2>3 DEF Locals, TypeInv, KindOK
    <3>2. WorkOK'
      BY <1>6, <2>1, <2>3, <3>1
         DEF WorkOK, ChangeOK, RestoreOK, RecoverOK, StartOK, RecLabels
    <3>3. Kept(ses, svc, journal, hw.sample)'
      BY <1>2, <1>3, <1>4, <1>5, <1>6, <2>1, <2>2, <2>3, CleanRepairs
         DEF SourceInv, Kept
    <3> QED
      BY <3>2, <3>3 DEF SourceInv
  <2> QED
    BY <1>1, <1>3, <1>8, <2>2, <2>3
<1>12. CASE StartActivate
  <2>1. PICK rec : /\ rec = [tx.rec EXCEPT !.phase = "Active"]
                   /\ journal' \in {journal, rec}
                   /\ \/ Return([state |-> "Running", foreign |-> FALSE,
                                 orphan |-> FALSE, rec |-> rec,
                                 quad |-> tx.quad, reset |-> NonTargets],
                                [svc EXCEPT !.acq = "Running",
                                            !.receiver = TRUE])
                      \/ StartFailed(rec)
    BY <1>12 DEF StartActivate, SaveJournal
  <2>2. rec \in Record /\ rec.source = tx.rec.source
    BY <1>1, <2>1 DEF Record, Phases
  <2>3. journal'.source.required =>
           journal'.source.original = FoundSample[journal'.source.quad]
    BY <1>5, <2>1, <2>2
  <2>4. CASE StartFailed(rec)
    BY <1>5, <1>10, <2>2, <2>3, <2>4
  <2>5. CASE ~StartFailed(rec)
    <3> DEFINE s == [state |-> "Running", foreign |-> FALSE, orphan |-> FALSE,
                     rec |-> rec, quad |-> tx.quad, reset |-> NonTargets]
               v == [svc EXCEPT !.acq = "Running", !.receiver = TRUE]
    <3>1. s \in Session /\ ~s.foreign /\ ~s.orphan /\ s.rec = rec
      BY <1>1, <2>2 DEF Session
    <3>2. v \in Service /\ v.alive /\ v.pending = svc.pending
      BY <1>1 DEF Service, Acquisition
    <3>3. Return(s, v)
      BY <2>1, <2>5
    <3> HIDE DEF s, v
    <3> QED
      BY <1>3, <1>5, <1>7, <2>2, <2>3, <3>1, <3>2, <3>3
  <2> QED
    BY <2>4, <2>5
<1>13. CASE ~StartJournal /\ ~StartActivate
  <2>1. /\ UNCHANGED journal
        /\ \/ UNCHANGED <<svc, ses>> /\ pc' \in StartLabels
           \/ NotPrepared(svc) \/ NotPrepared(DetachForForeignDaq(svc))
           \/ PreparedOrphan(svc) \/ PreparedOrphan(DetachForForeignDaq(svc))
           \/ StartFailed(tx.rec)
    BY <1>13
       DEF StartNext, StartGate, StartProbe, StartGate2, StartOpen,
           StartVerify, StartQuiesce, StartQuiet, StartStack, StartSetup,
           StartTrigger, StartReset, StartModule, StartDaq, StartWrite, Write,
           HardwareOnly, Frozen, StartLabels
  <2>2. /\ DetachForForeignDaq(svc) \in Service
        /\ DetachForForeignDaq(svc).alive = svc.alive
        /\ DetachForForeignDaq(svc).pending = svc.pending
    BY <1>1 DEF DetachForForeignDaq, Service, Ownership
  <2>3. CASE UNCHANGED <<svc, ses>> /\ pc' \in StartLabels
    <3>1. pc' # "idle" /\ pc' \notin RecLabels
      BY <2>3 DEF StartLabels, RecLabels
    <3>2. /\ \A v : ~NotPrepared(v) /\ ~PreparedOrphan(v) /\ ~StartFailed(v)
      BY <3>1 DEF NotPrepared, PreparedOrphan, StartFailed, Return
    <3>3. tx'.rec = tx.rec
      BY <1>1, <1>13, <3>2
         DEF StartNext, StartGate, StartProbe, StartGate2, StartQuiesce,
             StartQuiet, StartOpen, StartStack, StartSetup, StartTrigger,
             StartReset, StartModule, StartDaq, StartVerify, StartWrite, Write,
             Handled, Locals
    <3>4. tx'.kind = "start"
      BY <2>3 DEF TypeInv, KindOK
    <3>5. WorkOK'
      BY <1>5, <3>1, <3>3, <3>4
         DEF WorkOK, ChangeOK, RestoreOK, RecoverOK, StartOK, RecLabels
    <3> QED
      BY <1>2, <1>4, <2>1, <2>3, <3>5, UndisturbedKeeps DEF Undisturbed
  <2> QED
    BY <1>1, <1>3, <1>5, <1>8, <1>9, <1>10, <2>1, <2>2, <2>3
<1> QED
  BY <1>11, <1>12, <1>13

\* Stop hands the session's record to the service, or removes the journal
\* when that record has nothing to restore.
LEMMA StopSourceKept ==
    ASSUME TypeInv, TypeInv', JournalInv, SourceInv, svc.alive, StopNext
    PROVE  SourceInv'
<1>1. /\ tx \in Locals /\ ses \in Session /\ svc \in Service
      /\ ses.rec \in Record
  BY TypeFacts DEF Session
<1>2. pc \in StopLabels /\ UNCHANGED mvme
  BY DEF StopNext, StopSource, StopCheck, StopModule, StopStopped, StopOthers,
         StopOther, StopQuiet, StopMvlc, StopClear, StopEnd, StopLabels,
         HardwareOnly, Frozen
<1>3. HasSession /\ journal.phase # "None" /\ ses.rec.phase # "None"
  BY <1>2, InsideSession DEF SessionLabels
<1>4. tx.kind = "stop"
  BY <1>2 DEF TypeInv, KindOK
<1>5. hw'.sample = hw.sample
  <2>1. \/ hw' = hw \/ hw' = ClearMvlc
        \/ \E v \in {0, 1} : hw' = SetRun(v) \/ hw' = SetDaq(v)
        \/ \E m : hw' = SetOther(m, 0)
    BY DEF StopNext, StopSource, StopCheck, StopModule, StopStopped,
           StopOthers, StopOther, StopQuiet, StopMvlc, StopClear, StopEnd,
           Write, Frozen
  <2> QED
    BY <2>1, SampleKept
<1>6. ASSUME NEW s \in Session, NEW v \in Service, StopResult(s, v), v.alive,
             s.state # "None", s.rec = ses.rec, UNCHANGED journal
      PROVE  SourceInv'
  <2> DEFINE w == [v EXCEPT !.acq = "Failed", !.receiver = FALSE,
                            !.pending = ses.rec]
  <2>1. w \in Service /\ w.alive /\ w.pending = ses.rec /\ Return(s, w)
    BY <1>1, <1>6 DEF Service, Acquisition, StopResult
  <2> HIDE DEF w
  <2>2. mvme' = "away" => Kept(s, w, journal', hw'.sample)
    BY <1>2, <1>3, <1>5, <1>6, <2>1 DEF SourceInv, Kept, HasSession
  <2> QED
    BY <1>6, <2>1, <2>2, ReturnKeeps
<1>7. /\ [svc EXCEPT !.own = "OwnershipLost"] \in Service
      /\ [svc EXCEPT !.own = "OwnershipLost"].alive
      /\ [svc EXCEPT !.own = "RecoveryRequired"] \in Service
      /\ [svc EXCEPT !.own = "RecoveryRequired"].alive
  BY <1>1 DEF Service, Ownership
<1>8. /\ ForeignSession \in Session /\ ForeignSession.state = "Failed"
      /\ ForeignSession.rec = ses.rec
      /\ [ses EXCEPT !.state = "Failed"] \in Session
      /\ [ses EXCEPT !.state = "Failed"].state = "Failed"
      /\ [ses EXCEPT !.state = "Failed"].rec = ses.rec
      /\ [ses EXCEPT !.state = "Failed", !.orphan = TRUE] \in Session
      /\ [ses EXCEPT !.state = "Failed", !.orphan = TRUE].state = "Failed"
      /\ [ses EXCEPT !.state = "Failed", !.orphan = TRUE].rec = ses.rec
  BY <1>1 DEF Session, ForeignSession
<1>9. ASSUME pc' \in StopLabels, tx'.verified = tx.verified, WorkOK,
             tx'.kind = "stop"
      PROVE  WorkOK'
  BY <1>4, <1>9, OtherWork
     DEF WorkOK, RestoreOK, StopLabels, RecLabels, StartLabels
<1>10. CASE \/ StopModule \/ StopStopped \/ StopOthers \/ StopOther
           \/ StopMvlc \/ StopClear \/ (StopSource /\ tx' = tx)
           \/ (StopCheck /\ pc' # "idle")
  <2>1. /\ UNCHANGED <<journal, svc, ses>> /\ pc' \in StopLabels
        /\ \/ tx' = tx
           \/ tx' = [tx EXCEPT !.failed = TRUE]
           \/ \E t, f : tx' = [tx EXCEPT !.todo = t, !.failed = f]
           \/ \E t : tx' = [tx EXCEPT !.todo = t]
    <3>1. CASE StopSource /\ tx' = tx
      <4>1. tx.kind # "stopSource"
        BY <1>4
      <4>2. pc' \in {"stop_module", "stop_check"}
        <5>1. [tx EXCEPT !.kind = "stopSource", !.quad = ses.rec.source.quad,
                         !.live = ses.rec.source.original].kind = "stopSource"
          BY <1>1 DEF Locals
        <5> QED
          BY <3>1, <4>1, <5>1 DEF StopSource
      <4> QED
        BY <3>1, <4>2 DEF StopSource, HardwareOnly, StopLabels
    <3>2. CASE StopCheck /\ pc' # "idle"
      BY <3>2 DEF StopCheck, StopResult, Return, StopLabels, Frozen
    <3>3. CASE StopOthers
      <4>1. \/ tx' = tx
            \/ \E m, f : tx' = [[tx EXCEPT !.todo = tx.todo \ {m}]
                                  EXCEPT !.failed = f]
        BY <3>3 DEF StopOthers, Handled
      <4>2. \/ tx' = tx
            \/ \E t, f : tx' = [tx EXCEPT !.todo = t, !.failed = f]
        BY <4>1
      <4> QED
        BY <3>3, <4>2 DEF StopOthers, HardwareOnly, StopLabels
    <3>4. CASE StopModule \/ StopStopped \/ StopOther \/ StopMvlc \/ StopClear
      BY <3>4
         DEF StopModule, StopStopped, StopOther, StopMvlc, StopClear, Write,
             Failing, Handled, HardwareOnly, StopLabels
    <3> QED
      BY <1>10, <3>1, <3>2, <3>3, <3>4
  <2>2. tx'.verified = tx.verified /\ tx'.kind = "stop"
    BY <1>1, <1>4, <2>1 DEF Locals
  <2>3. Undisturbed
    BY <1>2, <1>5, <2>1 DEF Undisturbed
  <2> QED
    BY <1>9, <2>1, <2>2, <2>3, UndisturbedKeeps
<1>11. CASE StopSource /\ tx' # tx
  <2>1. /\ ses.rec.source.required /\ UNCHANGED <<journal, svc, ses>>
        /\ tx' = [tx EXCEPT !.kind = "stopSource", !.quad = ses.rec.source.quad,
                            !.live = ses.rec.source.original]
        /\ pc' \in {"srcr_select", "srcr_check"}
    BY <1>11 DEF StopSource, HardwareOnly
  <2>2. /\ tx'.kind = "stopSource" /\ tx'.quad = ses.rec.source.quad
        /\ tx'.live = ses.rec.source.original /\ tx'.verified = tx.verified
    BY <1>1, <2>1 DEF Locals
  <2>3. ASSUME mvme = "away" PROVE WorkOK'
    <3>1. Repairs(ses.rec.source, hw.sample) /\ ~tx.verified
      BY <1>3, <1>4, <2>3
         DEF SourceInv, Kept, WorkOK, RestoreOK, HasSession
    <3>2. ses.rec.source.original = FoundSample[ses.rec.source.quad]
      BY <2>1, <3>1 DEF Repairs
    <3>3. RestoreOK'
      BY <2>1, <2>2, <3>1, <3>2 DEF RestoreOK, Found
    <3> QED
      BY <2>1, <2>2, <3>3
         DEF WorkOK, ChangeOK, RecoverOK, StartOK, RecLabels, StartLabels
  <2>4. Undisturbed
    BY <1>2, <1>5, <2>1 DEF Undisturbed
  <2> QED
    BY <2>3, <2>4, UndisturbedKeeps
<1>12. CASE StopQuiet
  <2>1. /\ UNCHANGED <<journal, svc>> /\ pc' = "stop_others"
        /\ \E r : ses' = [ses EXCEPT !.reset = r] \/ ses' = ses
        /\ \/ \E t : tx' = [tx EXCEPT !.todo = t]
           \/ \E t : tx' = [[tx EXCEPT !.todo = t] EXCEPT !.failed = TRUE]
    BY <1>12 DEF StopQuiet, Handled
  <2>2. /\ ses'.rec = ses.rec /\ ses'.state = ses.state
        /\ ses'.foreign = ses.foreign /\ ses'.orphan = ses.orphan
    BY <1>1, <2>1 DEF Session
  <2>3. tx'.verified = tx.verified /\ tx'.kind = "stop"
    BY <1>1, <1>4, <2>1 DEF Locals
  <2>4. WorkOK => WorkOK'
    BY <1>9, <2>1, <2>3 DEF StopLabels
  <2> QED
    BY <1>2, <1>5, <2>1, <2>2, <2>4 DEF SourceInv, Kept
<1>13. CASE StopCheck /\ pc' = "idle"
  <2>1. UNCHANGED journal
    BY <1>13 DEF StopCheck, Frozen
  <2> QED
    BY <1>6, <1>7, <1>8, <1>13, <2>1 DEF StopCheck
<1>14. CASE StopEnd
  <2>1. \/ /\ UNCHANGED journal
           /\ \/ StopResult([ses EXCEPT !.state = "Failed", !.orphan = TRUE],
                            [svc EXCEPT !.own = "RecoveryRequired"])
              \/ StopResult([ses EXCEPT !.state = "Failed"], svc)
        \/ /\ journal' = NoRecord /\ ~RestorePending(ses.rec)
           /\ Return(NoSession, [svc EXCEPT !.acq = "Stopped",
                                   !.receiver = FALSE, !.pending = NoRecord])
    BY <1>14 DEF StopEnd, RemoveJournal
  <2>2. CASE /\ journal' = NoRecord /\ ~RestorePending(ses.rec)
             /\ Return(NoSession, [svc EXCEPT !.acq = "Stopped",
                                   !.receiver = FALSE, !.pending = NoRecord])
    <3> DEFINE v == [svc EXCEPT !.acq = "Stopped", !.receiver = FALSE,
                                !.pending = NoRecord]
    <3>1. /\ v \in Service /\ v.alive /\ v.pending = NoRecord
          /\ Return(NoSession, v)
      BY <1>1, <2>2, ConstantsTyped DEF Service, Acquisition
    <3> HIDE DEF v
    <3>2. ASSUME mvme' = "away" PROVE Clean(hw'.sample)
      BY <1>2, <1>3, <1>5, <2>2, <3>2, RepairsNothing
         DEF SourceInv, Kept, HasSession, RestorePending
    <3>3. /\ NoSession \in Session /\ NoSession.state = "None"
          /\ ~NoSession.foreign /\ ~NoSession.orphan
          /\ NoRecord.phase = "None" /\ NoRecord.source = Disarmed
      BY ConstantsTyped DEF NoSession, NoRecord
    <3>4. mvme' = "away" => Kept(NoSession, v, journal', hw'.sample)
      BY <2>2, <3>1, <3>2, <3>3, DisarmedRepairs DEF Kept
    <3> QED
      BY <3>1, <3>3, <3>4, ReturnKeeps
  <2> QED
    BY <1>1, <1>6, <1>7, <1>8, <2>1, <2>2
<1> QED
  BY <1>10, <1>11, <1>12, <1>13, <1>14 DEF StopNext

----------------------------------------------------------------------------
(***************************************************************************)
(*                              4. Recovery                                *)
(***************************************************************************)
\* Writing the found word back keeps every duty.
LEMMA RestoringKept ==
    ASSUME NEW smp \in [Banks -> Words], NEW q, NEW s, NEW v, NEW j,
           Kept(s, v, j, smp)
    PROVE  Kept(s, v, j, [smp EXCEPT ![q] = FoundSample[q]])
<1>1. Clean(smp) => Clean([smp EXCEPT ![q] = FoundSample[q]])
  BY DEF Clean
<1> QED
  BY <1>1, RestoringRepairs DEF Kept

\* While nobody else has acted, nobody had when the operation was requested.
LEMMA SinceAway ==
    ASSUME TypeInv, SinceOK, pc # "idle", mvme = "away"
    PROVE  tx.since = "away"
BY TypeFacts DEF SinceOK, Locals, Runs

\* The only word that a recovery writes is the one its entry's bank was
\* found with.
LEMMA RecoveryWord ==
    ASSUME TypeInv, CrateInv, WorkOK, RbWrite, mvme = "away", ~tx.preview
    PROVE  /\ tx.rec.source.required /\ hw.selector = tx.rec.source.quad
           /\ tx.rec.source.original = FoundSample[tx.rec.source.quad]
           /\ hw' = hw \/ hw' = SetSample(tx.rec.source.original)
<1>1. pc = "rb_write" /\ (hw' = hw \/ hw' = SetSample(tx.rec.source.original))
  BY DEF RbWrite, Write, SetBanked, Entry
<1>2. Entry.required /\ hw.selector = Entry.quad
  <2>1. mvme = tx.since
    BY <1>1, SinceAway DEF CrateInv
  <2> QED
    BY <1>1, <2>1 DEF CrateInv, RestoresOwn, RbLabels
<1>3. Repairs(tx.rec.source, hw.sample)
  BY <1>1 DEF WorkOK, RecoverOK, RecLabels
<1> QED
  BY <1>1, <1>2, <1>3 DEF Entry, Repairs

\* A step of a recovery that does not end it keeps the duties of the others.
LEMMA RecoveryKept ==
    ASSUME TypeInv, JournalInv, CrateInv, SourceInv, RecoveryNext, ~RecDone,
           mvme = "away"
    PROVE  Kept(ses, svc, journal', hw'.sample)
<1>1. hw \in Hardware /\ tx.rec \in Record
  BY TypeFacts
<1>2. Kept(ses, svc, journal, hw.sample) /\ WorkOK
  BY DEF SourceInv
<1>3. CASE RbWrite
  <2>1. UNCHANGED journal
    BY <1>3 DEF RbWrite, HardwareOnly
  <2>2. CASE tx.preview
    <3>1. hw' = hw \/ \E v : hw' \in {SetParam(v), Select(v), SetStack(v)}
      BY <1>3, <2>2 DEF RbWrite, Write, SetBanked
    <3> QED
      BY <1>2, <2>1, <3>1, SampleKept
  <2>3. CASE ~tx.preview
    <3> DEFINE q == tx.rec.source.quad
    <3>1. hw' = hw \/ hw'.sample = [hw.sample EXCEPT ![q] = FoundSample[q]]
      <4>1. ASSUME hw' = SetSample(tx.rec.source.original)
            PROVE  hw'.sample = [hw.sample EXCEPT ![q] = FoundSample[q]]
        BY <1>1, <1>2, <1>3, <2>3, <4>1, RecoveryWord, SetFields
      <4> QED
        BY <1>2, <1>3, <2>3, <4>1, RecoveryWord
    <3>2. hw.sample \in [Banks -> Words]
      BY <1>1 DEF Hardware
    <3> HIDE DEF q
    <3> QED
      BY <1>2, <2>1, <3>1, <3>2, RestoringKept
  <2> QED
    BY <2>2, <2>3
<1>4. CASE RbSave
  <2>1. PICK rec : /\ UNCHANGED hw /\ journal' \in {journal, rec}
                   /\ rec = IF tx.preview
                            THEN [tx.rec EXCEPT !.preview = Disarmed]
                            ELSE [tx.rec EXCEPT !.source = Disarmed]
    BY <1>4 DEF RbSave, SaveJournal
  <2>2. rec.phase = tx.rec.phase /\ tx.rec.phase # "None"
    BY <1>1, <1>4, <2>1
       DEF Record, RbSave, JournalInv, RecoveringRecord, RecLabels
  <2>3. Repairs(rec.source, hw.sample)
    <3>1. CASE tx.preview
      <4>1. rec.source = tx.rec.source
        BY <1>1, <2>1, <3>1 DEF Record
      <4> QED
        BY <1>2, <1>4, <4>1 DEF RbSave, WorkOK, RecoverOK, RecLabels
    <3>2. CASE ~tx.preview
      <4>1. rec.source = Disarmed /\ Clean(hw.sample)
        BY <1>1, <1>2, <1>4, <2>1, <3>2
           DEF Record, RbSave, WorkOK, RecoverOK
      <4> QED
        BY <4>1, DisarmedRepairs
    <3> QED
      BY <3>1, <3>2
  <2>4. hw'.sample = hw.sample
    BY <2>1
  <2>5. CASE journal' = journal
    BY <1>2, <2>4, <2>5
  <2>6. CASE journal' = rec
    BY <1>2, <2>2, <2>3, <2>4, <2>6 DEF Kept
  <2> QED
    BY <2>1, <2>5, <2>6
<1>5. CASE ~RbWrite /\ ~RbSave
  <2>1. UNCHANGED journal
    BY <1>5
       DEF RecoveryNext, RecCheck, RecGate, RecTarget, RecStop, RecStopped,
           RecOthers, RecQuiet, RbGate1, RbSelect, RbRead, RbGate2, RbDecide,
           RbVerify, RbGate3, RbPark, RecMvlc, RecClear, RecRemove, IdleGate,
           RecWrite, RemoveJournal, Frozen, HardwareOnly
  <2>2. \/ UNCHANGED hw \/ hw' = ClearMvlc
        \/ \E v \in {0, 1} : hw' = SetRun(v) \/ hw' = SetDaq(v)
        \/ \E v : hw' \in {SetParam(v), Select(v), SetStack(v)}
        \/ \E m : hw' = SetOther(m, 0)
    BY <1>5
       DEF RecoveryNext, RecCheck, RecGate, RecTarget, RecStop, RecStopped,
           RecOthers, RecQuiet, RbGate1, RbSelect, RbRead, RbGate2, RbDecide,
           RbVerify, RbGate3, RbPark, RecMvlc, RecClear, RecRemove, IdleGate,
           RecWrite, Write, Frozen
  <2> QED
    BY <1>2, <2>1, <2>2, SampleKept
<1> QED
  BY <1>3, <1>4, <1>5

\* A failed recovery takes up the record that is on disk, if it can load it.
LEMMA RecFailKept ==
    ASSUME TypeInv, RecFail,
           mvme' = "away" => Kept(ses, svc, journal', hw'.sample)
    PROVE  SourceInv'
<1>1. svc \in Service
  BY TypeFacts
<1>2. PICK p : /\ svc' = [svc EXCEPT !.own = "RecoveryRequired",
                                     !.transport = FALSE, !.pending = p]
               /\ p = svc.pending \/ (p = journal' /\ p.phase # "None")
  <2>1. PICK loaded \in {journal', NoRecord} :
           svc' = [svc EXCEPT !.own = "RecoveryRequired", !.transport = FALSE,
                      !.pending = IF loaded.phase = "None" THEN svc.pending
                                                           ELSE loaded]
    BY DEF RecFail
  <2>2. NoRecord.phase = "None"
    BY DEF NoRecord
  <2> QED
    BY <2>1, <2>2
<1>3. svc'.pending = p /\ svc'.alive = svc.alive
  BY <1>1, <1>2 DEF Service
<1>4. ses' = ses /\ pc' = "idle" /\ tx' = NoTx
  BY Zenon DEF RecFail
<1>5. mvme' = "away" => Kept(ses, svc, journal, hw.sample)'
  BY <1>2, <1>3, <1>4 DEF Kept
<1> QED
  BY <1>4, <1>5, IdleWork DEF SourceInv

\* What a recovery knows inside restoreBanked and around it.
LEMMA RecoveryWork ==
    ASSUME TypeInv, CrateInv, WorkOK, RecoveryNext, pc' # "idle",
           mvme = "away"
    PROVE  RecoverOK'
<1>1. /\ tx \in Locals /\ hw \in Hardware /\ tx.rec \in Record
      /\ pc \in RecLabels /\ pc' \in RecLabels
  BY TypeFacts, RecoveryShape
<1>2. ~RecFail /\ ~RecDone
  BY DEF RecFail, RecDone
<1>3. Repairs(tx.rec.source, hw.sample)
  BY <1>1 DEF WorkOK, RecoverOK
<1>4. mvme = tx.since
  <2>1. pc # "idle"
    BY <1>1 DEF RecLabels
  <2> QED
    BY <2>1, SinceAway DEF CrateInv
\* The next entry, or the end of the recovery.
<1>5. ASSUME NEW rec \in Record, tx' = RestoreOf(rec),
             NEW idle, pc' = NextRestore(rec, idle), UNCHANGED hw,
             Repairs(rec.source, hw.sample)
      PROVE  RecoverOK'
  <2>1. tx'.rec = rec /\ tx'.failed = FALSE
    BY <1>1, <1>5 DEF RestoreOf, Locals, Record, Restore
  <2>2. \/ pc' \in {"rb_gate1", "rb_select"}
        \/ pc' \in {"rec_remove", "rec_mvlc"} /\ ~RestorePending(rec)
    BY <1>5 DEF NextRestore, RestoreLabel
  <2> QED
    BY <1>5, <2>1, <2>2 DEF RecoverOK
\* A step before the restorations or after them.
<1>6. CASE \/ RecCheck \/ RecGate \/ RecStop \/ RecStopped \/ RecQuiet
          \/ RecMvlc \/ RecClear \/ RecRemove
          \/ (RecOthers /\ pc' = "rec_quiet")
  <2>1. /\ \/ tx' = tx \/ tx' = [tx EXCEPT !.idle = TRUE]
           \/ \E t : tx' = [tx EXCEPT !.todo = t]
        /\ \/ UNCHANGED hw \/ hw' = ClearMvlc
           \/ \E v \in {0, 1} : hw' = SetRun(v) \/ hw' = SetDaq(v)
           \/ \E m : hw' = SetOther(m, 0)
        /\ \/ pc' \in {"rec_stop", "rec_gate", "rec_target", "rec_stopped",
                       "rec_others", "rec_quiet"}
           \/ pc' = "rec_remove" /\ ~RestorePending(tx.rec)
           \/ pc = "rec_mvlc" /\ pc' = "rec_clear"
           \/ pc = "rec_clear" /\ pc' = "rec_remove"
    <3>1. CASE RecOthers /\ pc' = "rec_quiet"
      BY <1>2, <3>1
         DEF RecOthers, RecWrite, Write, Going, NextRestore, RestoreLabel
    <3>2. CASE RecCheck
      BY <1>2, <3>2 DEF RecCheck, Verdict, Going, Frozen
    <3>3. CASE \/ RecGate \/ RecStop \/ RecStopped \/ RecQuiet \/ RecMvlc
              \/ RecClear \/ RecRemove
      BY <1>2, <3>3
         DEF RecGate, RecStop, RecStopped, RecQuiet, RecMvlc, RecClear,
             RecRemove, IdleGate, RecWrite, Write, Going, Handled,
             RemoveJournal, Frozen
    <3> QED
      BY <1>6, <3>1, <3>2, <3>3
  <2>2. tx'.rec = tx.rec
    BY <1>1, <2>1 DEF Locals
  <2>3. hw'.sample = hw.sample
    BY <2>1, SampleKept
  <2>4. pc \in {"rec_mvlc", "rec_clear"} => ~RestorePending(tx.rec)
    BY DEF WorkOK, RecoverOK
  <2> QED
    BY <1>3, <2>1, <2>2, <2>3, <2>4 DEF RecoverOK
<1>7. CASE RecTarget \/ (RecOthers /\ pc' # "rec_quiet")
  <2>1. /\ tx' = RestoreOf(tx.rec) /\ UNCHANGED hw
        /\ \E idle \in BOOLEAN : pc' = NextRestore(tx.rec, idle)
    BY <1>2, <1>7 DEF RecTarget, RecOthers, RecWrite, Write, Going, Frozen
  <2> QED
    BY <1>1, <1>3, <1>5, <2>1
<1>8. CASE RbSave
  <2>1. PICK rec : /\ UNCHANGED hw
                   /\ rec = IF tx.preview
                            THEN [tx.rec EXCEPT !.preview = Disarmed]
                            ELSE [tx.rec EXCEPT !.source = Disarmed]
                   /\ tx' = RestoreOf(rec) /\ pc' = NextRestore(rec, tx.idle)
    BY <1>2, <1>8 DEF RbSave, SaveJournal
  <2>2. rec \in Record
    BY <1>1, <2>1, ConstantsTyped DEF Record
  <2>3. Repairs(rec.source, hw.sample)
    <3>1. CASE tx.preview
      BY <1>1, <1>3, <2>1, <3>1 DEF Record
    <3>2. CASE ~tx.preview
      <4>1. rec.source = Disarmed /\ Clean(hw.sample)
        BY <1>1, <1>8, <2>1, <3>2 DEF Record, RbSave, WorkOK, RecoverOK
      <4> QED
        BY <4>1, DisarmedRepairs
    <3> QED
      BY <3>1, <3>2
  <2> QED
    BY <1>5, <2>1, <2>2, <2>3
<1>9. CASE RbGate1 \/ RbSelect
  <2>1. /\ UNCHANGED tx /\ (hw' = hw \/ hw' = Select(Entry.quad))
        /\ pc \in {"rb_gate1", "rb_select"} /\ pc' \in {"rb_select", "rb_read"}
    BY <1>2, <1>9
       DEF RbGate1, RbSelect, IdleGate, RecWrite, Write, Going, Frozen
  <2>2. hw'.sample = hw.sample
    BY <1>1, <2>1, SetFields
  <2> QED
    BY <1>3, <2>1, <2>2 DEF WorkOK, RecoverOK
<1>10. CASE RbRead
  <2>1. /\ pc = "rb_read" /\ pc' \in {"rb_gate2", "rb_decide"} /\ UNCHANGED hw
        /\ \/ LiveBanked = Entry.original /\ tx' = tx
           \/ tx' = [tx EXCEPT !.attempted = TRUE]
           \/ tx' = [tx EXCEPT !.failed = TRUE]
    BY <1>10 DEF RbRead
  <2>2. /\ tx'.rec = tx.rec /\ tx'.preview = tx.preview
        /\ ~tx'.attempted /\ ~tx'.failed => LiveBanked = Entry.original
    BY <1>1, <2>1 DEF Locals
  <2>3. Entry.required /\ hw.selector = Entry.quad
    BY <1>4, <2>1 DEF CrateInv, RestoresOwn, RbLabels
  <2>4. ASSUME LiveBanked = Entry.original, ~tx.preview PROVE Clean(hw.sample)
    <3>1. hw.sample[tx.rec.source.quad] = FoundSample[tx.rec.source.quad]
      BY <1>3, <2>3, <2>4 DEF LiveBanked, LiveSample, Entry, Repairs
    <3> QED
      BY <1>3, <3>1, RepairsNothing
  <2> QED
    BY <1>3, <2>1, <2>2, <2>4 DEF RecoverOK
<1>11. CASE RbGate2 \/ RbDecide
  <2>1. /\ UNCHANGED <<tx, hw>> /\ pc \in {"rb_gate2", "rb_decide"}
        /\ \/ pc' \in {"rb_decide", "rb_write"}
           \/ pc' \in {"rb_gate3", "rb_park"} /\ ~tx.attempted
    BY <1>2, <1>11
       DEF RbGate2, RbDecide, IdleGate, Going, ParkLabel, Frozen
  <2> QED
    BY <1>3, <2>1 DEF WorkOK, RecoverOK
<1>12. CASE RbWrite
  <2>1. /\ pc = "rb_write"
        /\ \/ pc' = "rb_verify" /\ tx' = tx
           \/ pc' \in {"rb_gate3", "rb_park"} /\ tx' = [tx EXCEPT !.failed = TRUE]
        /\ hw' = hw \/ hw' = SetBanked(Entry.original)
    BY <1>12 DEF RbWrite, Write, Failing, ParkLabel
  <2>2. /\ tx'.rec = tx.rec /\ tx'.preview = tx.preview
        /\ pc' # "rb_verify" => tx'.failed
    BY <1>1, <2>1 DEF Locals
  <2>3. hw'.selector = hw.selector
    <3>1. hw' = hw \/ (\E v : hw' = SetParam(v)) \/ (\E v : hw' = SetSample(v))
      BY <2>1 DEF SetBanked
    <3> QED
      BY <1>1, <3>1 DEF SetParam, SetSample, Hardware
  <2>4. hw.selector = Entry.quad /\ Entry' = Entry
    BY <1>4, <2>1, <2>2 DEF CrateInv, RestoresOwn, Entry
  <2>5. Repairs(tx.rec.source, hw'.sample)
    <3>1. CASE tx.preview
      <4>1. hw' = hw \/ \E v : hw' \in {SetParam(v), Select(v), SetStack(v)}
        BY <2>1, <3>1 DEF SetBanked
      <4> QED
        BY <1>3, <4>1, SampleKept
    <3>2. CASE ~tx.preview
      <4> DEFINE q == tx.rec.source.quad
      <4>1. hw' = hw \/ hw'.sample = [hw.sample EXCEPT ![q] = FoundSample[q]]
        <5>1. ASSUME hw' = SetSample(tx.rec.source.original)
              PROVE  hw'.sample = [hw.sample EXCEPT ![q] = FoundSample[q]]
          BY <1>1, <1>12, <3>2, <5>1, RecoveryWord, SetFields
        <5> QED
          BY <1>12, <3>2, <5>1, RecoveryWord
      <4>2. hw.sample \in [Banks -> Words]
        BY <1>1 DEF Hardware
      <4> HIDE DEF q
      <4> QED
        BY <1>3, <4>1, <4>2, RestoringRepairs
    <3> QED
      BY <3>1, <3>2
  <2> QED
    BY <2>1, <2>2, <2>3, <2>4, <2>5 DEF RecoverOK
<1>13. CASE RbVerify
  <2>1. /\ pc = "rb_verify" /\ pc' \in {"rb_gate3", "rb_park"} /\ UNCHANGED hw
        /\ \/ LiveBanked = Entry.original /\ tx' = tx
           \/ tx' = [tx EXCEPT !.failed = TRUE]
    BY <1>13 DEF RbVerify, ParkLabel
  <2>2. /\ tx'.rec = tx.rec /\ tx'.preview = tx.preview
        /\ ~tx'.failed => LiveBanked = Entry.original
    BY <1>1, <2>1 DEF Locals
  <2>3. Entry.required /\ hw.selector = Entry.quad
    BY <2>1 DEF CrateInv, RestoresOwn, RbLabels, WorkOK, RecoverOK
  <2>4. ASSUME LiveBanked = Entry.original, ~tx.preview PROVE Clean(hw.sample)
    <3>1. hw.sample[tx.rec.source.quad] = FoundSample[tx.rec.source.quad]
      BY <1>3, <2>3, <2>4 DEF LiveBanked, LiveSample, Entry, Repairs
    <3> QED
      BY <1>3, <3>1, RepairsNothing
  <2> QED
    BY <1>3, <2>1, <2>2, <2>4 DEF RecoverOK
<1>14. CASE RbGate3 \/ RbPark
  <2>1. /\ UNCHANGED tx /\ (hw' = hw \/ hw' = Select(0))
        /\ \/ pc = "rb_gate3" /\ pc' = "rb_park"
           \/ pc = "rb_park" /\ pc' = "rb_save" /\ ~tx.failed
    BY <1>2, <1>14 DEF RbGate3, RbPark, IdleGate, Going, Write, Frozen
  <2>2. hw'.sample = hw.sample
    BY <1>1, <2>1, SetFields
  <2> QED
    BY <1>3, <2>1, <2>2 DEF WorkOK, RecoverOK
<1> QED
  BY <1>6, <1>7, <1>8, <1>9, <1>10, <1>11, <1>12, <1>13, <1>14
     DEF RecoveryNext

\* A recovery keeps every duty, and removes the journal when none is left.
LEMMA RecoverySource ==
    ASSUME TypeInv, TypeInv', JournalInv, CrateInv, SourceInv, svc.alive,
           RecoveryNext
    PROVE  SourceInv'
<1>1. UNCHANGED mvme /\ pc \in RecLabels
  BY RecoveryShape
<1>2. \/ UNCHANGED <<svc, ses>> /\ pc' \in RecLabels
      \/ RecFail
      \/ RecDone /\ pc = "rec_remove" /\ journal' = NoRecord /\ hw' = hw
  BY DEF RecoveryNext, RecCheck, RecGate, RecTarget, RecStop, RecStopped,
         RecOthers, RecQuiet, RbGate1, RbSelect, RbRead, RbGate2, RbDecide,
         RbWrite, RbVerify, RbGate3, RbPark, RbSave, RecMvlc, RecClear,
         RecRemove, IdleGate, RecWrite, RecLabels, Write, Going, Failing,
         SaveJournal, RemoveJournal, HardwareOnly, NextRestore, RestoreLabel,
         ParkLabel
<1>3. CASE RecFail
  <2>1. ~RecDone
    <3>1. PICK p : svc' = [svc EXCEPT !.own = "RecoveryRequired",
                                      !.transport = FALSE, !.pending = p]
      BY <1>3 DEF RecFail
    <3>2. svc'.own = "RecoveryRequired"
      BY <3>1, TypeFacts DEF Service
    <3>3. Launched.own = "Disconnected"
      BY DEF Launched
    <3> QED
      BY <3>2, <3>3 DEF RecDone
  <2> QED
    BY <1>1, <1>3, <2>1, RecoveryKept, RecFailKept
<1>4. CASE UNCHANGED <<svc, ses>> /\ pc' \in RecLabels
  <2>1. pc' # "idle"
    BY <1>4 DEF RecLabels
  <2>2. ~RecDone
    BY <2>1 DEF RecDone
  <2>3. tx'.kind = "recover"
    BY <1>4 DEF TypeInv, KindOK
  <2>4. ASSUME mvme = "away" PROVE WorkOK'
    <3>1. RecoverOK'
      BY <2>1, <2>4, RecoveryWork DEF SourceInv
    <3>2. pc' \notin StartLabels
      BY <1>4 DEF RecLabels, StartLabels
    <3> QED
      BY <2>3, <3>1, <3>2 DEF WorkOK, ChangeOK, RestoreOK, StartOK
  <2>5. ASSUME mvme = "away" PROVE Kept(ses, svc, journal, hw.sample)'
    BY <1>4, <2>2, <2>5, RecoveryKept
  <2> QED
    BY <1>1, <2>4, <2>5 DEF SourceInv
<1>5. CASE RecDone /\ pc = "rec_remove" /\ journal' = NoRecord /\ hw' = hw
  <2>1. ASSUME mvme = "away" PROVE Clean(hw'.sample)
    <3>1. Repairs(tx.rec.source, hw.sample) /\ ~RestorePending(tx.rec)
      BY <1>1, <1>5, <2>1 DEF SourceInv, WorkOK, RecoverOK
    <3> QED
      BY <1>5, <3>1, RepairsNothing DEF RestorePending
  <2>2. pc' = "idle" /\ tx' = NoTx /\ ses' = NoSession /\ svc' = Launched
    BY <1>5 DEF RecDone
  <2>3. /\ NoSession.state = "None" /\ ~NoSession.foreign /\ ~NoSession.orphan
        /\ NoRecord.source = Disarmed /\ Launched.pending.phase = "None"
        /\ Launched.alive
    BY DEF NoSession, NoRecord, Launched
  <2>4. ASSUME mvme = "away" PROVE Kept(ses, svc, journal, hw.sample)'
    BY <1>5, <2>1, <2>2, <2>3, <2>4, DisarmedRepairs DEF Kept
  <2> QED
    BY <1>1, <2>2, <2>4, IdleWork DEF SourceInv
<1> QED
  BY <1>2, <1>3, <1>4, <1>5

----------------------------------------------------------------------------
(***************************************************************************)
(*                        5. The source operations                         *)
(***************************************************************************)
\* What a source change knows of the session, the journal and the banks.
LEMMA ChangeFacts ==
    ASSUME TypeInv, JournalInv, RunInv, SourceInv, mvme = "away",
           pc \in SrcPre \cup SrcPost \cup SrcEnds
    PROVE  /\ tx.kind = "source" /\ tx \in Locals /\ hw \in Hardware
           /\ ses \in Session /\ ses.rec \in Record
           /\ ses.state # "None" /\ ~ses.foreign /\ ~ses.orphan
           /\ ses.rec.phase # "None" /\ journal.phase # "None"
           /\ svc.acq = "Running" /\ svc.pending.phase = "None"
           /\ Repairs(journal.source, hw.sample)
           /\ Repairs(ses.rec.source, hw.sample)
           /\ ses.rec.source.required =>
                 Names(ses.rec.source, tx.quad, FoundSample)
           /\ hw.sample[tx.quad] = Found => Clean(hw.sample)
           /\ ChangeOK /\ Kept(ses, svc, journal, hw.sample)
<1>1. pc \in SessionLabels
  BY DEF SessionLabels
<1>2. /\ tx.kind = "source" /\ tx \in Locals /\ hw \in Hardware
      /\ ses \in Session /\ ses.rec \in Record
  BY TypeFacts DEF TypeInv, KindOK, Session
<1>3. /\ HasSession /\ journal.phase # "None" /\ ses.rec.phase # "None"
  BY <1>1, InsideSession
<1>4. ChangeOK /\ Kept(ses, svc, journal, hw.sample)
  BY DEF SourceInv, WorkOK
<1>5. svc.acq = "Running" /\ svc.pending.phase = "None"
      /\ ~ses.foreign /\ ~ses.orphan
  BY <1>2, <1>4 DEF ChangeOK, RunInv, Coherent
<1>6. Repairs(journal.source, hw.sample) /\ Repairs(ses.rec.source, hw.sample)
  BY <1>3, <1>4 DEF Kept, HasSession
<1>7. ses.rec.source.required => Names(ses.rec.source, tx.quad, FoundSample)
  BY <1>2, <1>4, <1>6 DEF ChangeOK, Repairs, Names
<1>8. hw.sample[tx.quad] = Found => Clean(hw.sample)
  BY <1>6, <1>7, RepairsNothing DEF Names, Found
<1> QED
  BY <1>2, <1>3, <1>4, <1>5, <1>6, <1>7, <1>8 DEF HasSession

\* While a source change is in progress, the rest of the invariant is what
\* it knows.
LEMMA ChangeWork ==
    ASSUME tx'.kind = "source", ChangeOK',
           pc' \in SrcPre \cup SrcPost \cup SrcEnds \cup ResumeLabels
                     \cup PauseLabels \cup {"op_end"}
    PROVE  WorkOK'
BY DEF WorkOK, RestoreOK, RecoverOK, StartOK, SrcPre, SrcPost, SrcEnds,
       ResumeLabels, PauseLabels, RecLabels, StartLabels

\* A change reads its bank, and goes on to write only with an entry in the
\* journal.
LEMMA ReadSource ==
    ASSUME TypeInv, JournalInv, RunInv, CrateInv, SourceInv, SrcRead
    PROVE  SourceInv'
<1>1. pc = "src_read" /\ UNCHANGED <<hw, mvme, journal, svc, ses>>
  BY DEF SrcRead, HardwareOnly
<1> SUFFICES ASSUME mvme = "away" PROVE WorkOK'
  BY <1>1, UndisturbedKeeps DEF SourceInv, Undisturbed
<1>2. pc \in SrcPre \cup SrcPost \cup SrcEnds
  BY <1>1 DEF SrcPre
<1>3. /\ tx.kind = "source" /\ tx \in Locals /\ ses.rec \in Record
      /\ Repairs(journal.source, hw.sample)
      /\ Repairs(ses.rec.source, hw.sample) /\ ChangeOK
      /\ svc.acq = "Running"
      /\ ses.rec.source.required =>
            Names(ses.rec.source, tx.quad, FoundSample)
      /\ hw.sample[tx.quad] = Found => Clean(hw.sample)
  BY <1>2, ChangeFacts
<1>4. LiveSample = hw.sample[tx.quad]
  BY <1>1, <1>3 DEF CrateInv, PausedOK, Reading, LiveSample
<1>5. ~tx.armed /\ ~tx.verified /\ ~tx.rolled
  BY <1>1, <1>3 DEF ChangeOK, SrcPre
<1>6. CASE tx' = [tx EXCEPT !.failed = TRUE] /\ pc' = "src_park"
  <2>1. /\ tx'.kind = "source" /\ tx'.quad = tx.quad
        /\ ~tx'.armed /\ ~tx'.verified
    BY <1>3, <1>5, <1>6 DEF Locals
  <2>2. ChangeOK'
    BY <1>1, <1>3, <1>6, <2>1
       DEF ChangeOK, DeviationGone, SrcPre, SrcPost, PauseLabels
  <2> QED
    BY <1>6, <2>1, <2>2, ChangeWork DEF SrcEnds
<1>7. CASE ~(tx' = [tx EXCEPT !.failed = TRUE] /\ pc' = "src_park")
  <2> DEFINE req  == Other(LiveSample) + tx.req
             back == ses.rec.source.required /\ req = ses.rec.source.original
  <2>1. /\ tx' = [tx EXCEPT !.live = LiveSample, !.req = req, !.back = back,
                            !.verified = (req = LiveSample)]
        /\ \/ req = LiveSample /\ pc' = "src_park"
           \/ req # LiveSample /\ back /\ pc' = "src_write"
           \/ req # LiveSample /\ ~back /\ pc' = "src_arm"
    BY <1>7 DEF SrcRead, Failing
  <2> HIDE DEF req
  <2>2. /\ tx'.kind = "source" /\ tx'.quad = tx.quad /\ tx'.live = LiveSample
        /\ tx'.req = req /\ tx'.back = back /\ tx'.verified = (req = LiveSample)
        /\ ~tx'.armed /\ ~tx'.rolled
    BY <1>3, <1>5, <2>1 DEF Locals
  <2>3. back => req = Found
    BY <1>3 DEF Names, Found
  <2>4. ~ses.rec.source.required => LiveSample = Found
    <3>1. tx.quad \in Banks
      BY <1>3 DEF Locals
    <3> QED
      BY <1>3, <1>4, <3>1, RepairsNothing DEF Clean, Found
  <2>5. back /\ req # LiveSample => Names(journal.source, tx.quad, FoundSample)
    <3>1. tx.quad \in Banks
      BY <1>3 DEF Locals
    <3> QED
      BY <1>3, <1>4, <2>3, <3>1 DEF Repairs, Found
  <2>6. ses.rec.source.required => ses.rec.source.quad = tx.quad
    BY <1>3 DEF Names
  <2>7. ChangeOK'
    <3>1. /\ pc' = "src_arm" /\ ~ses.rec.source.required => LiveSample = Found
          /\ pc' = "src_write" => /\ Names(journal.source, tx.quad, FoundSample)
                                  /\ ses.rec.source.required
          /\ pc' = "src_park" /\ tx'.back => Clean(hw.sample)
      BY <1>3, <1>4, <2>1, <2>2, <2>3, <2>4, <2>5
    <3>2. tx'.back => tx'.req = Found
      BY <2>2, <2>3
    <3>3. Found' = Found
      BY <2>2 DEF Found
    <3>4. pc' \in {"src_arm", "src_write"} => ~tx'.verified
      BY <2>1, <2>2
    <3> HIDE DEF back
    <3> QED
      BY <1>1, <1>3, <2>1, <2>2, <2>6, <3>1, <3>2, <3>3, <3>4
         DEF ChangeOK, DeviationGone, SrcPre, SrcPost, PauseLabels
  <2> QED
    BY <2>1, <2>2, <2>7, ChangeWork DEF SrcPost, SrcEnds
<1> QED
  BY <1>6, <1>7

\* The entry that a change arms repairs what there is to repair: it keeps
\* the word that the session's first change found.
LEMMA ArmSource ==
    ASSUME TypeInv, JournalInv, RunInv, CrateInv, SourceInv, SrcArm
    PROVE  SourceInv'
<1>1. pc = "src_arm" /\ UNCHANGED <<hw, mvme, svc>>
  BY DEF SrcArm, DiskOnly
<1> SUFFICES ASSUME mvme = "away"
             PROVE  Kept(ses, svc, journal, hw.sample)' /\ WorkOK'
  BY <1>1 DEF SourceInv
<1>2. pc \in SrcPre \cup SrcPost \cup SrcEnds
  BY <1>1 DEF SrcPost
<1>3. /\ tx.kind = "source" /\ tx \in Locals
      /\ ses \in Session /\ ses.rec \in Record
      /\ ses.state # "None" /\ ~ses.foreign /\ ~ses.orphan
      /\ ses.rec.phase # "None" /\ journal.phase # "None"
      /\ svc.acq = "Running"
      /\ Repairs(ses.rec.source, hw.sample) /\ ChangeOK
      /\ ses.rec.source.required =>
            Names(ses.rec.source, tx.quad, FoundSample)
      /\ Kept(ses, svc, journal, hw.sample)
  BY <1>2, ChangeFacts
<1> DEFINE original == IF ses.rec.source.required THEN ses.rec.source.original
                                                  ELSE tx.live
           e   == Armed(tx.quad, original, tx.req)
           rec == [ses.rec EXCEPT !.source = e]
<1>4. original = Found
  BY <1>1, <1>3 DEF ChangeOK, Names, Found
<1>5. /\ e.required /\ e.quad = tx.quad /\ e.original = original
      /\ Names(e, tx.quad, FoundSample)
  BY <1>4 DEF Armed, Names, Found
<1>6. Repairs(e, hw.sample)
  <2>1. \A b \in Banks : hw.sample[b] # FoundSample[b] => b = tx.quad
    BY <1>3 DEF Repairs, Names
  <2> QED
    BY <1>4, <1>5, <2>1 DEF Repairs, Found
<1>7. rec.source = e /\ rec.phase = ses.rec.phase
  BY <1>3 DEF Record
<1>8. \/ /\ journal' = rec /\ ses' = [ses EXCEPT !.rec = rec]
         /\ tx' = [tx EXCEPT !.armed = ~ses.rec.source.required]
         /\ pc' = "src_write"
      \/ /\ journal' \in {journal, rec} /\ ses' = ses
         /\ tx' = [tx EXCEPT !.failed = TRUE] /\ pc' = "src_park"
  BY DEF SrcArm, SaveSourceRecoveryState, SaveJournal, Failing
<1> HIDE DEF rec, e, original
<1>9. /\ ses'.state = ses.state /\ ses'.foreign = ses.foreign
      /\ ses'.orphan = ses.orphan
      /\ ses'.rec = ses.rec \/ ses'.rec = rec
      /\ pc' = "src_write" => ses'.rec = rec /\ journal' = rec
      /\ pc' = "src_park" => ses'.rec = ses.rec
  BY <1>3, <1>8 DEF Session
<1>10. Kept(ses, svc, journal, hw.sample)'
  <2>1. Repairs(journal'.source, hw.sample) /\ journal'.phase # "None"
    BY <1>3, <1>6, <1>7, <1>8 DEF Kept
  <2>2. Repairs(ses'.rec.source, hw.sample)
    BY <1>3, <1>6, <1>7, <1>9
  <2> QED
    BY <1>1, <1>3, <1>9, <2>1, <2>2 DEF Kept
<1>11. /\ tx'.kind = "source" /\ tx'.quad = tx.quad /\ tx'.live = tx.live
       /\ tx'.req = tx.req /\ tx'.back = tx.back /\ tx'.verified = tx.verified
       /\ tx'.rolled = tx.rolled
       /\ pc' = "src_park" => tx'.armed = tx.armed
       /\ pc' = "src_write" => tx'.armed = ~ses.rec.source.required
  BY <1>3, <1>8 DEF Locals
<1>12. ChangeOK'
  <2>1. ~tx.armed /\ ~tx.verified /\ ~tx.rolled
    BY <1>1, <1>3 DEF ChangeOK, SrcPost
  <2>2. Found' = Found
    BY <1>11 DEF Found
  <2>3. ses'.rec.source.required => ses'.rec.source.quad = tx.quad
    BY <1>3, <1>5, <1>7, <1>9 DEF Names
  <2>4. CASE pc' = "src_park"
    BY <1>1, <1>3, <1>11, <2>1, <2>3, <2>4
       DEF ChangeOK, DeviationGone, SrcPre, SrcPost, PauseLabels
  <2>5. CASE pc' = "src_write"
    <3>1. tx'.armed => tx.live = Found
      BY <1>1, <1>3, <1>11, <2>5 DEF ChangeOK
    <3>2. tx.back => tx.req = Found
      BY <1>1, <1>3 DEF ChangeOK, SrcPost
    <3>3. Names(journal'.source, tx.quad, FoundSample) /\ ses'.rec.source.required
      BY <1>5, <1>7, <1>9, <2>5
    <3> QED
      BY <1>1, <1>3, <1>11, <2>1, <2>2, <2>3, <2>5, <3>1, <3>2, <3>3
         DEF ChangeOK, SrcPre, SrcPost, PauseLabels
  <2> QED
    BY <1>8, <2>4, <2>5
<1> QED
  BY <1>8, <1>10, <1>11, <1>12, ChangeWork DEF SrcPost, SrcEnds

\* The banked writes of a change go to the bank that its entries name.
LEMMA WriteSource ==
    ASSUME TypeInv, JournalInv, RunInv, CrateInv, SourceInv,
           SrcWrite \/ SrcRollback
    PROVE  SourceInv'
<1>1. /\ pc \in {"src_write", "src_rollback"}
      /\ UNCHANGED <<mvme, journal, svc, ses>>
  BY DEF SrcWrite, SrcRollback, HardwareOnly
<1> SUFFICES ASSUME mvme = "away"
             PROVE  Kept(ses, svc, journal, hw.sample)' /\ WorkOK'
  BY <1>1 DEF SourceInv
<1>2. pc \in SrcPre \cup SrcPost \cup SrcEnds
  BY <1>1 DEF SrcPost
<1>3. /\ tx.kind = "source" /\ tx \in Locals /\ hw \in Hardware
      /\ ses.state # "None" /\ ~ses.foreign /\ ~ses.orphan
      /\ journal.phase # "None" /\ svc.acq = "Running"
      /\ svc.pending.phase = "None"
      /\ Repairs(journal.source, hw.sample)
      /\ Repairs(ses.rec.source, hw.sample) /\ ChangeOK
      /\ ses.rec.source.required =>
            Names(ses.rec.source, tx.quad, FoundSample)
      /\ Kept(ses, svc, journal, hw.sample)
  BY <1>2, ChangeFacts
<1>4. /\ Names(journal.source, tx.quad, FoundSample)
      /\ ses.rec.source.required /\ ~tx.verified /\ ~tx.rolled
  BY <1>1, <1>3 DEF ChangeOK, SrcPost
<1>5. hw.selector = tx.quad
  BY <1>1, <1>3 DEF CrateInv, PausedOK, Reading
<1>6. PICK w : hw' = hw \/ hw' = SetSample(w)
  BY DEF SrcWrite, SrcRollback, Write
<1>7. /\ hw'.selector = hw.selector
      /\ hw'.sample = hw.sample
           \/ hw'.sample = [hw.sample EXCEPT ![tx.quad] = w]
  BY <1>3, <1>5, <1>6, SetFields
<1>8. Repairs(journal.source, hw'.sample) /\ Repairs(ses.rec.source, hw'.sample)
  <2>1. hw.sample \in [Banks -> Words]
    BY <1>3 DEF Hardware
  <2>2. Names(ses.rec.source, tx.quad, FoundSample)
    BY <1>3, <1>4
  <2>3. CASE hw'.sample = hw.sample
    BY <1>3, <2>3
  <2>4. CASE hw'.sample = [hw.sample EXCEPT ![tx.quad] = w]
    <3>1. Repairs(journal.source, [hw.sample EXCEPT ![tx.quad] = w])
      BY <1>3, <1>4, <2>1, NamedRepairs
    <3>2. Repairs(ses.rec.source, [hw.sample EXCEPT ![tx.quad] = w])
      BY <1>3, <2>1, <2>2, NamedRepairs
    <3> QED
      BY <2>4, <3>1, <3>2
  <2> QED
    BY <1>7, <2>3, <2>4
<1>9. Kept(ses, svc, journal, hw.sample)'
  BY <1>1, <1>3, <1>8 DEF Kept
<1>10. /\ \/ pc' \in {"src_verify", "src_rollback", "src_rolled"}
          \/ pc' = "src_park"
       /\ \/ tx' = tx \/ tx' = [tx EXCEPT !.failed = TRUE]
          \/ tx' = [tx EXCEPT !.attempted = TRUE]
          \/ tx' = [tx EXCEPT !.attempted = TRUE, !.failed = TRUE]
  BY DEF SrcWrite, SrcRollback, Write, Failing
<1>11. /\ tx'.kind = "source" /\ tx'.quad = tx.quad /\ tx'.live = tx.live
       /\ tx'.req = tx.req /\ tx'.back = tx.back /\ tx'.verified = tx.verified
       /\ tx'.rolled = tx.rolled /\ tx'.armed = tx.armed
  BY <1>3, <1>10 DEF Locals
<1>12. ChangeOK'
  <2>1. Found' = Found
    BY <1>11 DEF Found
  <2> QED
    BY <1>1, <1>3, <1>4, <1>5, <1>7, <1>10, <1>11, <2>1
       DEF ChangeOK, DeviationGone, SrcPre, SrcPost, PauseLabels
<1> QED
  BY <1>9, <1>10, <1>11, <1>12, ChangeWork DEF SrcPost, SrcEnds

\* A change concludes that its deviation is gone only from the word it read.
LEMMA VerifySource ==
    ASSUME TypeInv, JournalInv, RunInv, CrateInv, SourceInv,
           SrcVerify \/ SrcRolled
    PROVE  SourceInv'
<1>1. /\ pc \in {"src_verify", "src_rolled"}
      /\ UNCHANGED <<hw, mvme, journal, svc, ses>>
  BY DEF SrcVerify, SrcRolled, HardwareOnly
<1> SUFFICES ASSUME mvme = "away" PROVE WorkOK'
  BY <1>1, UndisturbedKeeps DEF SourceInv, Undisturbed
<1>2. pc \in SrcPre \cup SrcPost \cup SrcEnds
  BY <1>1 DEF SrcPost
<1>3. /\ tx.kind = "source" /\ tx \in Locals /\ ChangeOK
      /\ svc.acq = "Running"
      /\ ses.rec.source.required =>
            Names(ses.rec.source, tx.quad, FoundSample)
      /\ hw.sample[tx.quad] = Found => Clean(hw.sample)
  BY <1>2, ChangeFacts
<1>4. LiveSample = hw.sample[tx.quad]
  BY <1>1, <1>3 DEF CrateInv, PausedOK, Reading, LiveSample, ChangeOK
<1>5. /\ ~tx.verified /\ ~tx.rolled
      /\ tx.armed => tx.live = Found
      /\ tx.back => tx.req = Found
  BY <1>1, <1>3 DEF ChangeOK, SrcPost
<1>6. \/ /\ pc = "src_verify" /\ LiveSample = tx.req /\ pc' = "src_park"
         /\ tx' = [tx EXCEPT !.verified = TRUE]
      \/ /\ pc = "src_verify" /\ pc' = "src_rollback"
         /\ tx' = [tx EXCEPT !.failed = TRUE]
      \/ /\ pc = "src_rolled" /\ LiveSample = tx.live /\ pc' = "src_park"
         /\ tx' = [tx EXCEPT !.rolled = TRUE]
      \/ /\ pc = "src_rolled" /\ pc' = "src_park"
         /\ tx' = [tx EXCEPT !.failed = TRUE]
  BY DEF SrcVerify, SrcRolled, Failing
<1>7. /\ tx'.kind = "source" /\ tx'.quad = tx.quad /\ tx'.live = tx.live
      /\ tx'.req = tx.req /\ tx'.back = tx.back /\ tx'.armed = tx.armed
      /\ tx'.verified => tx.verified \/ LiveSample = tx.req
      /\ tx'.rolled => tx.rolled \/ LiveSample = tx.live
      /\ pc' = "src_rollback" =>
            tx'.verified = tx.verified /\ tx'.rolled = tx.rolled
  BY <1>3, <1>6 DEF Locals
<1>8. DeviationGone' => Clean(hw.sample)
  BY <1>3, <1>4, <1>5, <1>7 DEF DeviationGone
<1>9. ChangeOK'
  <2>1. Found' = Found
    BY <1>7 DEF Found
  <2> QED
    BY <1>1, <1>3, <1>5, <1>6, <1>7, <1>8, <2>1
       DEF ChangeOK, SrcPre, SrcPost, PauseLabels
<1> QED
  BY <1>6, <1>7, <1>9, ChangeWork DEF SrcPost, SrcEnds

\* A change clears its entry when the deviation is gone, and ends.
LEMMA ChangeEnds ==
    ASSUME TypeInv, JournalInv, RunInv, SourceInv, svc.alive,
           SrcSelect \/ SrcPark \/ SrcDisarm \/ SrcEnd
    PROVE  SourceInv'
<1>1. pc \in {"src_select", "src_park", "src_disarm", "src_end"} /\ UNCHANGED mvme
  BY DEF SrcSelect, SrcPark, SrcDisarm, SrcEnd, HardwareOnly, DiskOnly
<1> SUFFICES ASSUME mvme = "away"
             PROVE  Kept(ses, svc, journal, hw.sample)' /\ WorkOK'
  BY <1>1 DEF SourceInv
<1>2. pc \in SrcPre \cup SrcPost \cup SrcEnds
  BY <1>1 DEF SrcPre, SrcEnds
<1>3. /\ tx.kind = "source" /\ tx \in Locals
      /\ ses \in Session /\ ses.rec \in Record
      /\ ses.state # "None" /\ ~ses.foreign /\ ~ses.orphan
      /\ ses.rec.phase # "None" /\ journal.phase # "None"
      /\ svc.acq = "Running" /\ ChangeOK
      /\ Kept(ses, svc, journal, hw.sample)
  BY <1>2, ChangeFacts
<1>4. CASE SrcDisarm
  <2> DEFINE rec == [ses.rec EXCEPT !.source = Disarmed]
  <2>1. rec.source = Disarmed /\ rec.phase = ses.rec.phase
    BY <1>3 DEF Record
  <2>2. /\ pc = "src_disarm" /\ pc' = "src_end" /\ UNCHANGED <<hw, svc>>
        /\ journal' \in {journal, rec}
        /\ ses' = ses \/ ses' = [ses EXCEPT !.rec = rec]
        /\ tx' = tx \/ tx' = [tx EXCEPT !.failed = TRUE]
    BY <1>4 DEF SrcDisarm, SaveSourceRecoveryState, SaveJournal, DiskOnly
  <2>3. Clean(hw.sample) /\ Repairs(Disarmed, hw.sample)
    BY <1>3, <2>2, DisarmedRepairs DEF ChangeOK
  <2> HIDE DEF rec
  <2>4. /\ ses'.state = ses.state /\ ses'.foreign = ses.foreign
        /\ ses'.orphan = ses.orphan /\ ses'.rec \in {ses.rec, rec}
    BY <1>3, <2>2 DEF Session
  <2>5. Kept(ses, svc, journal, hw.sample)'
    BY <1>3, <2>1, <2>2, <2>3, <2>4 DEF Kept
  <2>6. tx'.kind = "source" /\ tx'.quad = tx.quad
    BY <1>3, <2>2 DEF Locals
  <2>7. ChangeOK'
    <3>1. ses'.rec.source.required => ses'.rec.source.quad = tx.quad
      BY <1>3, <2>1, <2>4 DEF ChangeOK, Disarmed
    <3> QED
      BY <1>3, <2>2, <2>6, <3>1 DEF ChangeOK, SrcPre, SrcPost, PauseLabels
  <2> QED
    BY <2>2, <2>5, <2>6, <2>7, ChangeWork DEF SrcEnds
<1>5. CASE SrcSelect \/ SrcPark \/ SrcEnd
  <2>1. /\ UNCHANGED <<journal, svc, ses>>
        /\ hw' = hw \/ \E v : hw' \in {SetParam(v), Select(v), SetStack(v)}
    BY <1>5 DEF SrcSelect, SrcPark, SrcEnd, Write, HardwareOnly
  <2>2. hw'.sample = hw.sample
    BY <2>1, SampleKept
  <2>3. Kept(ses, svc, journal, hw.sample)'
    BY <1>3, <2>1, <2>2
  <2>4. /\ \/ pc = "src_select" /\ pc' \in {"src_read", "src_end"}
           \/ /\ pc = "src_park"
              /\ pc' = IF DeviationGone THEN "src_disarm" ELSE "src_end"
           \/ pc = "src_end" /\ pc' \in {"resume_module", "op_end"}
        /\ \/ tx' = tx \/ tx' = [tx EXCEPT !.failed = TRUE]
           \/ tx' = [tx EXCEPT !.selected = TRUE]
           \/ tx' = [tx EXCEPT !.parked = TRUE]
    BY <1>5 DEF SrcSelect, SrcPark, SrcEnd, Write, Failing
  <2>5. /\ tx'.kind = "source" /\ tx'.quad = tx.quad
        /\ tx'.verified = tx.verified /\ tx'.rolled = tx.rolled
        /\ tx'.armed = tx.armed
    BY <1>3, <2>4 DEF Locals
  <2>6. ChangeOK'
    BY <1>3, <2>1, <2>2, <2>4, <2>5
       DEF ChangeOK, SrcPre, SrcPost, PauseLabels
  <2> QED
    BY <2>3, <2>4, <2>5, <2>6, ChangeWork DEF SrcPre, SrcEnds, ResumeLabels
<1> QED
  BY <1>4, <1>5

\* The checks before a source operation, and the end of a change.
LEMMA CheckSource ==
    ASSUME TypeInv, JournalInv, SourceInv, svc.alive,
           SrcCheck \/ SrcrCheck \/ OpEnd
    PROVE  SourceInv'
<1>1. /\ Frozen /\ pc \in SessionLabels
      /\ \/ /\ pc \in {"src_check", "srcr_check"} /\ pc' = "pause_module"
            /\ UNCHANGED <<tx, svc, ses>>
         \/ Return(ForeignSession, DetachForForeignDiagnosticFingerprint(svc.pv))
         \/ Return(ses, svc)
  BY DEF SrcCheck, SrcrCheck, OpEnd, SessionLabels, SrcPre, SrcrLabels
<1>2. HasSession /\ svc \in Service /\ svc.pv \in Preview
  BY <1>1, InsideSession, TypeFacts DEF Service
<1>3. CASE /\ pc \in {"src_check", "srcr_check"} /\ pc' = "pause_module"
           /\ UNCHANGED <<tx, svc, ses>>
  <2>1. Undisturbed
    BY <1>1, <1>3 DEF Undisturbed, Frozen
  <2>2. tx.kind \in {"source", "stopSource"}
    BY <1>3 DEF TypeInv, KindOK, SrcPre, SrcrLabels
  <2>3. WorkOK => WorkOK'
    BY <1>1, <1>3, <2>2
       DEF WorkOK, ChangeOK, RestoreOK, RecoverOK, StartOK, Found, Restoring,
           SrcPre, SrcPost, PauseLabels, RecLabels, StartLabels, TypeInv,
           KindOK, SrcrLabels
  <2> QED
    BY <2>1, <2>3, UndisturbedKeeps
<1> QED
  BY <1>1, <1>2, <1>3, ForeignKeeps, SameKeeps

\* The restore that Stop performs writes the word that was found, and clears
\* the entry once that word has been read back.
LEMMA RestoreSource ==
    ASSUME TypeInv, JournalInv, SourceInv,
           \/ SrcrSelect \/ SrcrWrite \/ SrcrVerify \/ SrcrPark \/ SrcrDisarm
           \/ SrcrEnd
    PROVE  SourceInv'
<1>1. pc \in SrcrLabels \ {"srcr_check"} /\ UNCHANGED mvme
  BY DEF SrcrSelect, SrcrWrite, SrcrVerify, SrcrPark, SrcrDisarm, SrcrEnd,
         HardwareOnly, DiskOnly, SrcrLabels
<1> SUFFICES ASSUME mvme = "away"
             PROVE  Kept(ses, svc, journal, hw.sample)' /\ WorkOK'
  BY <1>1 DEF SourceInv
<1>2. /\ tx.kind = "stopSource" /\ tx \in Locals /\ hw \in Hardware
      /\ ses \in Session /\ ses.rec \in Record
  BY <1>1, TypeFacts DEF TypeInv, KindOK, Session
<1>3. HasSession /\ journal.phase # "None" /\ ses.rec.phase # "None"
  BY <1>1, InsideSession DEF SessionLabels
<1>4. /\ RestoreOK /\ Kept(ses, svc, journal, hw.sample)
      /\ Repairs(ses.rec.source, hw.sample)
  BY <1>3 DEF SourceInv, WorkOK, Kept, HasSession
\* Nothing but the restore itself has to be followed.
<1>5. ASSUME tx'.kind = "stopSource", RestoreOK', pc' \in SrcrLabels
      PROVE  WorkOK'
  BY <1>5 DEF WorkOK, ChangeOK, RecoverOK, StartOK, SrcrLabels, RecLabels,
              StartLabels
<1>6. hw.sample[tx.quad] = Found /\ tx.quad = ses.rec.source.quad =>
         Clean(hw.sample)
  BY <1>4, RepairsNothing DEF Found
<1>7. CASE SrcrSelect
  <2>1. /\ pc = "srcr_select" /\ UNCHANGED <<journal, svc, ses>>
        /\ \/ hw' = Select(tx.quad) /\ pc' = "srcr_write" /\ tx' = tx
           \/ /\ hw' \in {hw, Select(tx.quad)} /\ pc' = "srcr_end"
              /\ tx' = [tx EXCEPT !.failed = TRUE]
    BY <1>7 DEF SrcrSelect, Write, Failing, HardwareOnly
  <2>2. /\ hw'.sample = hw.sample
        /\ pc' = "srcr_write" => hw'.selector = tx.quad /\ tx' = tx
        /\ tx'.kind = "stopSource"
    BY <1>2, <2>1, SetFields DEF Locals
  <2>3. RestoreOK'
    BY <1>2, <1>4, <2>1, <2>2 DEF RestoreOK, Restoring, PauseLabels, Found
  <2> QED
    BY <1>4, <1>5, <2>1, <2>2, <2>3 DEF SrcrLabels
<1>8. CASE SrcrWrite
  <2>1. /\ pc = "srcr_write" /\ UNCHANGED <<journal, svc, ses>>
        /\ hw' = hw \/ hw' = SetSample(tx.live)
        /\ \/ pc' = "srcr_verify" /\ tx' = tx
           \/ pc' = "srcr_park" /\ tx' = [tx EXCEPT !.failed = TRUE]
    BY <1>8 DEF SrcrWrite, Write, Failing, HardwareOnly
  <2>2. /\ hw.selector = tx.quad /\ tx.live = FoundSample[tx.quad]
        /\ ~tx.verified
    BY <1>2, <1>4, <2>1 DEF RestoreOK, Restoring, Found
  <2>3. /\ hw'.selector = hw.selector
        /\ \/ hw'.sample = hw.sample
           \/ hw'.sample =
                [hw.sample EXCEPT ![tx.quad] = FoundSample[tx.quad]]
    BY <1>2, <2>1, <2>2, SetFields
  <2>4. Kept(ses, svc, journal, hw'.sample)
    <3>1. hw.sample \in [Banks -> Words]
      BY <1>2 DEF Hardware
    <3> QED
      BY <1>4, <2>3, <3>1, RestoringKept
  <2>5. /\ tx'.kind = "stopSource" /\ tx'.verified = tx.verified
        /\ pc' = "srcr_verify" => tx' = tx
    BY <1>2, <2>1 DEF Locals
  <2>6. RestoreOK'
    BY <1>2, <1>4, <2>1, <2>2, <2>3, <2>5
       DEF RestoreOK, Restoring, PauseLabels, Found
  <2> QED
    BY <1>5, <2>1, <2>4, <2>5, <2>6 DEF SrcrLabels
<1>9. CASE SrcrVerify
  <2>1. /\ pc = "srcr_verify" /\ UNCHANGED <<hw, journal, svc, ses>>
        /\ pc' = "srcr_park"
        /\ \/ LiveSample = tx.live /\ tx' = [tx EXCEPT !.verified = TRUE]
           \/ tx' = [tx EXCEPT !.failed = TRUE]
    BY <1>9 DEF SrcrVerify, HardwareOnly
  <2>2. /\ hw.selector = tx.quad /\ tx.live = Found /\ ~tx.verified
        /\ tx.quad = ses.rec.source.quad
    BY <1>2, <1>4, <2>1 DEF RestoreOK, Restoring
  <2>3. tx'.kind = "stopSource" /\ (tx'.verified => LiveSample = tx.live)
    BY <1>2, <2>1, <2>2 DEF Locals
  <2>4. tx'.verified => Clean(hw.sample)
    BY <1>6, <2>2, <2>3 DEF LiveSample
  <2>5. RestoreOK'
    BY <1>4, <2>1, <2>3, <2>4 DEF RestoreOK, Restoring, PauseLabels
  <2> QED
    BY <1>4, <1>5, <2>1, <2>3, <2>5 DEF SrcrLabels
<1>10. CASE SrcrPark
  <2>1. /\ pc = "srcr_park" /\ UNCHANGED <<journal, svc, ses>>
        /\ hw' = hw \/ hw' = Select(0)
        /\ \/ /\ tx' = [tx EXCEPT !.parked = TRUE]
              /\ pc' = IF tx.verified THEN "srcr_disarm" ELSE "srcr_end"
           \/ tx' = [tx EXCEPT !.failed = TRUE] /\ pc' = "srcr_end"
    BY <1>10 DEF SrcrPark, Write, Failing, HardwareOnly
  <2>2. hw'.sample = hw.sample
    BY <1>2, <2>1, SetFields
  <2>3. tx'.kind = "stopSource" /\ tx'.verified = tx.verified
    BY <1>2, <2>1 DEF Locals
  <2>4. RestoreOK'
    BY <1>2, <1>4, <2>1, <2>2, <2>3 DEF RestoreOK, Restoring, PauseLabels
  <2> QED
    BY <1>4, <1>5, <2>1, <2>2, <2>3, <2>4 DEF SrcrLabels
<1>11. CASE SrcrDisarm
  <2> DEFINE rec == [ses.rec EXCEPT !.source = Disarmed]
  <2>1. rec.source = Disarmed /\ rec.phase = ses.rec.phase
    BY <1>2 DEF Record
  <2>2. /\ pc = "srcr_disarm" /\ pc' = "srcr_end" /\ UNCHANGED <<hw, svc>>
        /\ journal' \in {journal, rec}
        /\ ses' = ses \/ ses' = [ses EXCEPT !.rec = rec]
        /\ tx' = tx \/ tx' = [tx EXCEPT !.failed = TRUE]
    BY <1>11 DEF SrcrDisarm, SaveSourceRecoveryState, SaveJournal, DiskOnly
  <2>3. Clean(hw.sample) /\ Repairs(Disarmed, hw.sample)
    BY <1>2, <1>4, <2>2, DisarmedRepairs DEF RestoreOK
  <2> HIDE DEF rec
  <2>4. /\ ses'.state = ses.state /\ ses'.foreign = ses.foreign
        /\ ses'.orphan = ses.orphan /\ ses'.rec \in {ses.rec, rec}
    BY <1>2, <2>2 DEF Session
  <2>5. Kept(ses, svc, journal, hw.sample)'
    BY <1>3, <1>4, <2>1, <2>2, <2>3, <2>4 DEF Kept, HasSession
  <2>6. tx'.kind = "stopSource"
    BY <1>2, <2>2 DEF Locals
  <2>7. RestoreOK'
    BY <2>2, <2>6 DEF RestoreOK, Restoring, PauseLabels
  <2> QED
    BY <1>5, <2>2, <2>5, <2>6, <2>7 DEF SrcrLabels
<1>12. CASE SrcrEnd
  <2>1. /\ UNCHANGED <<hw, journal, svc, ses>>
        /\ pc' \in {"stop_module", "stop_check"}
        /\ tx' = [NoTx EXCEPT !.kind = "stop", !.release = tx.release,
                              !.since = tx.since, !.left = tx.left \/ tx.paused]
    BY <1>12 DEF SrcrEnd, HardwareOnly
  <2>2. tx'.kind = "stop" /\ ~tx'.verified
    BY <2>1 DEF NoTx
  <2> QED
    BY <1>4, <2>1, <2>2, OtherWork DEF RecLabels, StartLabels
<1> QED
  BY <1>7, <1>8, <1>9, <1>10, <1>11, <1>12

\* Every step of a source operation.
LEMMA SourceOperation ==
    ASSUME TypeInv, JournalInv, RunInv, CrateInv, SourceInv, svc.alive,
           SourceNext
    PROVE  SourceInv'
BY ReadSource, ArmSource, WriteSource, VerifySource, ChangeEnds, CheckSource,
   RestoreSource DEF SourceNext

----------------------------------------------------------------------------
(***************************************************************************)
(*                6. Commands and the life of the process                  *)
(***************************************************************************)
\* Commands that complete in one step, the watchdog, crashes and launches: a
\* record is dropped only when another place holds it.
LEMMA OnceSource ==
    ASSUME TypeInv, JournalInv, RunInv, PreviewInv, SourceInv,
           \/ CheckStatus \/ OpenSession \/ CheckDiagnosticRecoveryStatus
           \/ UseProject \/ Launch \/ PollWatchdog
           \/ Crash \/ StopWithoutTransport
           \/ (ReleaseSession /\ ~StopTask(TRUE))
    PROVE  SourceInv'
<1>1. svc \in Service /\ ses \in Session /\ svc.pv \in Preview
  BY TypeFacts DEF Service
<1>2. Frozen
  BY DEF CheckStatus, OpenSession, CheckDiagnosticRecoveryStatus, UseProject,
         Launch, PollWatchdog, Crash, StopWithoutTransport, Dies,
         ReleaseSession
<1>3. WorkOK'
  <2>1. pc' = "idle" /\ (tx' = NoTx \/ (UNCHANGED tx /\ pc = "idle"))
    <3>1. CASE Crash \/ StopWithoutTransport
      BY <3>1 DEF Crash, StopWithoutTransport, Dies
    <3>2. CASE ~(Crash \/ StopWithoutTransport)
      BY <3>2
         DEF CheckStatus, OpenSession, CheckDiagnosticRecoveryStatus,
             UseProject, Launch, PollWatchdog, ReleaseSession, Idle, RunInv
    <3> QED
      BY <3>1, <3>2
  <2>2. tx'.kind = "none"
    BY <2>1 DEF PreviewInv, NoTx
  <2> QED
    BY <2>1, <2>2, OtherWork DEF RecLabels, StartLabels
<1> SUFFICES ASSUME mvme = "away" PROVE Kept(ses', svc', journal, hw.sample)
  BY <1>2, <1>3 DEF SourceInv, Frozen
<1>4. Kept(ses, svc, journal, hw.sample)
  BY DEF SourceInv
<1>5. NoSession.state = "None" /\ ~NoSession.foreign /\ ~NoSession.orphan
  BY DEF NoSession
<1>6. ASSUME svc'.pending = svc.pending, svc'.alive = svc.alive, ses' = ses
      PROVE  Kept(ses', svc', journal, hw.sample)
  BY <1>4, <1>6 DEF Kept
<1>7. CASE CheckStatus \/ OpenSession \/ CheckDiagnosticRecoveryStatus
  <2>1. CASE CheckStatus \/ CheckDiagnosticRecoveryStatus
    BY <1>1, <1>6, <2>1 DEF CheckStatus, CheckDiagnosticRecoveryStatus, Service
  <2>2. CASE OpenSession
    <3>1. PICK o : svc' = [svc EXCEPT !.own = o,
                              !.transport = (o = "SessionOpen"),
                              !.pv = NoPreview]
      BY <2>2 DEF OpenSession
    <3>2. svc'.pending = svc.pending /\ svc'.alive = svc.alive
      BY <1>1, <3>1 DEF Service
    <3> QED
      BY <1>6, <2>2, <3>2 DEF OpenSession
  <2> QED
    BY <1>7, <2>1, <2>2
<1>8. CASE UseProject \/ Launch
  <2>1. svc' = Loaded /\ ses' = ses /\ (svc.alive => ses.state = "None")
    BY <1>8 DEF UseProject, Launch, HasSession
  <2>2. Loaded.pending = journal /\ Loaded.alive
    BY DEF Loaded, Launched, LoadJournal
  <2> QED
    BY <1>4, <2>1, <2>2 DEF Kept
<1>9. CASE Crash \/ StopWithoutTransport
  <2>1. svc' = [Launched EXCEPT !.alive = FALSE] /\ ses' = NoSession
    BY <1>9 DEF Crash, StopWithoutTransport, Dies
  <2>2. ~svc'.alive /\ svc'.pending.phase = "None"
    BY <2>1 DEF Launched, NoRecord
  <2> QED
    BY <1>4, <1>5, <2>1, <2>2 DEF Kept
<1>10. CASE ReleaseSession /\ ~StopTask(TRUE)
  <2>1. /\ Dropped(svc).pending = svc.pending /\ Dropped(svc).alive = svc.alive
        /\ Dropped(svc) \in Service
    BY <1>1 DEF Dropped, Service, Ownership
  <2>2. /\ Released(svc).pending = svc.pending
        /\ Released(svc).alive = svc.alive
    BY <2>1 DEF Released, Service
  <2>3. \/ svc' = Released(svc) /\ ses' = ses
        \/ /\ svc' = Dropped(svc) /\ ses' = NoSession
           /\ ses.foreign \/ ses.orphan
    BY <1>10 DEF ReleaseSession
  <2> QED
    BY <1>4, <1>5, <1>6, <2>1, <2>2, <2>3 DEF Kept
<1>11. CASE PollWatchdog
  <2>1. CASE /\ svc' = DetachForForeignDaq(svc) /\ ses' = ses
    <3>1. svc'.pending = svc.pending /\ svc'.alive = svc.alive
      BY <1>1, <2>1 DEF DetachForForeignDaq, Service
    <3> QED
      BY <1>6, <2>1, <3>1
  <2>2. CASE /\ ses' = ForeignSession /\ HasSession
             /\ svc' = DetachForForeignDiagnosticFingerprint(svc.pv)
    <3>1. svc'.pending = ses.rec /\ svc'.alive = svc.alive
      BY <1>1, <2>2 DEF DetachForForeignDiagnosticFingerprint, Service
    <3>2. ses'.state = "Failed" /\ ses'.rec = ses.rec
      BY <1>1, <2>2 DEF ForeignSession, Session
    <3>3. ses.rec.phase # "None" /\ svc.alive
      BY <1>11, <2>2 DEF JournalInv, SessionJournaled, PollWatchdog, Idle
    <3> QED
      BY <1>4, <2>2, <3>1, <3>2, <3>3 DEF Kept, HasSession
  <2> QED
    BY <1>11, <2>1, <2>2 DEF PollWatchdog
<1> QED
  BY <1>7, <1>8, <1>9, <1>10, <1>11

\* Commands that begin an operation.
LEMMA BeginSource ==
    ASSUME TypeInv, RunInv, SourceInv,
           \/ StartDiagnosticAcquisition \/ ChangeDiagnosticSource
           \/ ApplyDiagnosticPreview \/ RestoreDiagnosticPreview
           \/ RecoverDiagnosticOrphan \/ StopDiagnosticAcquisition
           \/ (ReleaseSession /\ StopTask(TRUE))
    PROVE  SourceInv'
<1>1. /\ svc \in Service /\ ses \in Session /\ NoTx \in Locals
      /\ svc.pending \in Record /\ ses.quad \in Banks
      /\ svc.pv.applied \in Nat /\ svc.pv.original \in Values
  BY TypeFacts, ConstantsTyped, ParamAssumption
     DEF Service, Session, Preview, Values
<1>2. /\ Frozen /\ ses' = ses
      /\ svc' = svc \/ svc' = [svc EXCEPT !.acq = "Starting", !.pv = NoPreview]
  BY DEF StartDiagnosticAcquisition, ChangeDiagnosticSource,
         ApplyDiagnosticPreview, RestoreDiagnosticPreview,
         RecoverDiagnosticOrphan, StopDiagnosticAcquisition, ReleaseSession,
         StopTask
<1>3. svc'.pending = svc.pending /\ svc'.alive = svc.alive
  BY <1>1, <1>2 DEF Service
<1> SUFFICES ASSUME mvme = "away" PROVE WorkOK'
  BY <1>2, <1>3 DEF SourceInv, Kept, Frozen
<1>4. /\ NoTx.rec = NoRecord /\ ~NoRecord.source.required /\ ~NoTx.verified
      /\ ~NoTx.rolled /\ ~NoTx.armed
  BY DEF NoTx, NoRecord, Disarmed
<1>5. ASSUME NEW k \in Kinds, NEW l \in Locals, NEW c, Begin(k, l, c)
      PROVE  /\ pc' = c /\ tx'.kind = k /\ tx'.rec = l.rec /\ tx'.quad = l.quad
             /\ tx'.verified = l.verified /\ tx'.rolled = l.rolled
             /\ tx'.armed = l.armed
  BY <1>5 DEF Begin, Locals
<1>6. CASE StartDiagnosticAcquisition
  <2>1. PICK q \in Quads :
           Begin("start", [NoTx EXCEPT !.quad = q], "start_gate")
    BY <1>6 DEF StartDiagnosticAcquisition
  <2> DEFINE l == [NoTx EXCEPT !.quad = q]
  <2>2. l \in Locals /\ l.rec = NoRecord
    BY <1>1, <1>4 DEF Locals, Banks
  <2>3. Begin("start", l, "start_gate")
    BY <2>1
  <2> HIDE DEF l
  <2>4. pc' = "start_gate" /\ tx'.kind = "start" /\ tx'.rec = NoRecord
    BY <1>5, <2>2, <2>3 DEF Kinds
  <2> QED
    BY <1>4, <2>4
       DEF WorkOK, ChangeOK, RestoreOK, RecoverOK, StartOK, RecLabels
<1>7. CASE ChangeDiagnosticSource
  <2>1. PICK s \in Sources :
           /\ SourceAdmitted(ses.rec, s)
           /\ Begin("source", [NoTx EXCEPT !.quad = ses.quad, !.req = s],
                    "src_check")
    BY <1>7 DEF ChangeDiagnosticSource
  <2> DEFINE l == [NoTx EXCEPT !.quad = ses.quad, !.req = s]
  <2>2. /\ l \in Locals /\ l.quad = ses.quad /\ ~l.verified /\ ~l.rolled
        /\ ~l.armed
    <3>1. s \in Nat
      BY RequestAssumption
    <3> QED
      BY <1>1, <1>4, <3>1 DEF Locals
  <2>3. Begin("source", l, "src_check")
    BY <2>1
  <2> HIDE DEF l
  <2>4. /\ pc' = "src_check" /\ tx'.kind = "source" /\ tx'.quad = ses.quad
        /\ ~tx'.verified /\ ~tx'.rolled /\ ~tx'.armed
    BY <1>5, <2>2, <2>3 DEF Kinds
  <2>5. svc' = svc /\ svc.acq = "Running"
    BY <1>7 DEF ChangeDiagnosticSource, Acquiring
  <2>6. ses.rec.source.required => ses.rec.source.quad = ses.quad
    BY <2>1 DEF SourceAdmitted
  <2>7. ChangeOK'
    BY <1>2, <2>4, <2>5, <2>6 DEF ChangeOK, SrcPost
  <2> QED
    BY <2>4, <2>7, ChangeWork DEF SrcPre
<1>8. CASE RecoverDiagnosticOrphan
  <2> DEFINE l == [NoTx EXCEPT !.rec = svc.pending]
  <2>1. l \in Locals /\ l.rec = svc.pending
    BY <1>1 DEF Locals
  <2>2. Begin("recover", l, "rec_check") /\ Recoverable
    BY <1>8 DEF RecoverDiagnosticOrphan
  <2> HIDE DEF l
  <2>3. pc' = "rec_check" /\ tx'.kind = "recover" /\ tx'.rec = svc.pending
    BY <1>5, <2>1, <2>2 DEF Kinds
  <2>4. Repairs(svc.pending.source, hw.sample)
    BY <2>2 DEF Recoverable, SourceInv, Kept
  <2> QED
    BY <1>2, <2>3, <2>4
       DEF WorkOK, ChangeOK, RestoreOK, RecoverOK, StartOK, StartLabels, Frozen
<1>9. PreviewLocals \in Locals /\ ~PreviewLocals.verified
  BY <1>1, <1>4 DEF PreviewLocals, Locals
<1>10. ASSUME NEW k \in {"apply", "restore", "stopRestore", "stop"},
              NEW l \in Locals, NEW c \in {"prv_check", "stop_source"},
              Begin(k, l, c), ~l.verified
       PROVE  WorkOK'
  <2>1. pc' = c /\ tx'.kind = k /\ ~tx'.verified
    BY <1>5, <1>10 DEF Kinds
  <2> QED
    BY <2>1, OtherWork DEF RecLabels, StartLabels
<1>11. CASE ApplyDiagnosticPreview
  <2>1. PICK p \in PreviewValues :
           Begin("apply", [NoTx EXCEPT !.quad = ses.quad, !.req = p],
                 "prv_check")
    BY <1>11 DEF ApplyDiagnosticPreview
  <2> DEFINE l == [NoTx EXCEPT !.quad = ses.quad, !.req = p]
  <2>2. l \in Locals /\ ~l.verified /\ Begin("apply", l, "prv_check")
    BY <1>1, <1>4, <2>1, RequestAssumption, ParamAssumption DEF Locals
  <2> HIDE DEF l
  <2> QED
    BY <1>10, <2>2
<1>12. CASE RestoreDiagnosticPreview
  BY <1>9, <1>10, <1>12 DEF RestoreDiagnosticPreview
<1>13. CASE StopTask(FALSE) \/ StopTask(TRUE)
  <2>1. PICK r \in BOOLEAN : StopTask(r)
    BY <1>13
  <2> DEFINE l == [PreviewLocals EXCEPT !.release = r]
             n == [NoTx EXCEPT !.release = r, !.left = StaleLeft]
  <2>2. l \in Locals /\ ~l.verified
    BY <1>9 DEF Locals
  <2>3. n \in Locals /\ ~n.verified
    <3>1. StaleLeft \in BOOLEAN
      BY DEF StaleLeft
    <3> QED
      BY <1>1, <1>4, <3>1 DEF Locals
  <2>4. \/ Begin("stopRestore", l, "prv_check")
        \/ Begin("stop", n, "stop_source")
    BY <2>1 DEF StopTask
  <2> HIDE DEF l, n
  <2> QED
    BY <1>10, <2>2, <2>3, <2>4
<1> QED
  BY <1>6, <1>7, <1>8, <1>11, <1>12, <1>13 DEF StopDiagnosticAcquisition

\* Every step keeps the duties.
LEMMA SourceStep ==
    ASSUME SafeInv, SafeInv', SourceInv, [Next]_vars PROVE SourceInv'
<1> USE DEF SafeInv
<1>1. CASE Operation
  BY <1>1, PauseResumeSource, SourceOperation, PreviewSource, StartSource,
     StopSourceKept, RecoverySource DEF Operation
<1>2. CASE \/ Command \/ PollWatchdog \/ Crash \/ StopWithoutTransport
          \/ Launch
  BY <1>2, OnceSource, BeginSource DEF Command
<1>3. CASE Mvme
  BY <1>3 DEF Mvme, MvmeStart, MvmeStop, SourceInv
<1>4. CASE UNCHANGED vars
  BY <1>4
     DEF vars, SourceInv, WorkOK, ChangeOK, RestoreOK, RecoverOK, StartOK,
         Found, DeviationGone, Entry
<1> QED
  BY <1>1, <1>2, <1>3, <1>4 DEF Next

\* The crate is found clean.
LEMMA SourceStart == Init => SourceInv
<1> SUFFICES ASSUME Init PROVE SourceInv
  OBVIOUS
<1>1. /\ hw.sample = FoundSample /\ journal = NoRecord /\ svc = Launched
      /\ ses = NoSession /\ pc = "idle" /\ tx = NoTx
  BY DEF Init, CrateInit, JournalInit, SessionInit
<1>2. Clean(hw.sample) /\ Repairs(Disarmed, hw.sample)
  BY <1>1, DisarmedRepairs DEF Clean
<1>3. /\ NoSession.state = "None" /\ ~NoSession.foreign /\ ~NoSession.orphan
      /\ NoRecord.source = Disarmed /\ Launched.pending.phase = "None"
      /\ Launched.alive /\ NoTx.kind = "none"
  BY DEF NoSession, NoRecord, Launched, NoTx
<1>4. Kept(ses, svc, journal, hw.sample)
  BY <1>1, <1>2, <1>3 DEF Kept
<1>5. WorkOK
  BY <1>1, <1>3
     DEF WorkOK, ChangeOK, RestoreOK, RecoverOK, StartOK, RecLabels,
         StartLabels
<1> QED
  BY <1>4, <1>5 DEF SourceInv

(***************************************************************************)
(* Every temporary waveform source is journaled before it is written and   *)
(* until its original is verified back, for every channel, word and source *)
(* and every order of failures: a crash at any step of a change, of Stop   *)
(* or of a recovery can be repaired from the file.                         *)
(* (SaveSourceRecoveryState around the writes of DiagnosticSourceOperation *)
(* and DiagnosticRecoveryOperation.)                                       *)
(***************************************************************************)
THEOREM SourceJournaledAlways == Spec => []SourceIsJournaled
<1>1. Init => SafeInv /\ SourceInv
  BY SafeStart, SourceStart
<1>2. SafeInv /\ SourceInv /\ [Next]_vars => SafeInv' /\ SourceInv'
  BY SafeStep, SourceStep
<1>3. SourceInv => SourceIsJournaled
  BY DEF SourceInv, Kept, Repairs, Clean, SourceIsJournaled
<1> QED
  BY <1>1, <1>2, <1>3, PTL DEF Spec

----------------------------------------------------------------------------
(***************************************************************************)
(*                    7. What a Stop that succeeds leaves                  *)
(***************************************************************************)
Cleaning == {"stop_others", "stop_other", "stop_quiet", "stop_mvlc",
             "stop_clear", "stop_end"}
\* As long as no access of a Stop has failed, what it has handled is stopped.
StopClean ==
    mvme = "away" =>
        /\ pc \in Cleaning /\ ~tx.failed =>
              hw.run = 0 /\ \A m \in NonTargets \ tx.todo : hw.others[m] = 0
        /\ pc \in {"stop_mvlc", "stop_clear", "stop_end"} => tx.todo = {}
        /\ pc = "stop_end" /\ ~tx.failed => hw.daq = 0 /\ hw.stack = "clear"

\* The cleanup of the modules and of the MVLC.
LEMMA StopCleans ==
    ASSUME TypeInv, StopClean, StopNext PROVE StopClean'
<1>1. tx \in Locals /\ hw \in Hardware
  BY TypeFacts
<1>2. UNCHANGED mvme
  BY DEF StopNext, StopSource, StopCheck, StopModule, StopStopped, StopOthers,
         StopOther, StopQuiet, StopMvlc, StopClear, StopEnd, HardwareOnly,
         Frozen
<1> SUFFICES ASSUME mvme = "away" PROVE StopClean'
  BY <1>2 DEF StopClean
<1>3. CASE StopSource \/ StopCheck \/ StopEnd
  <2>1. pc' \in {"stop_module", "stop_check", "srcr_select", "srcr_check",
                 "idle"}
    BY <1>3 DEF StopSource, StopCheck, StopEnd, StopResult, Return, RemoveJournal
  <2> QED
    BY <2>1 DEF StopClean, Cleaning
<1>4. CASE StopModule
  <2>1. \/ pc' = "stop_stopped"
        \/ /\ tx' = [tx EXCEPT !.todo = NonTargets, !.failed = TRUE]
           /\ pc' = "stop_others"
    BY <1>4 DEF StopModule, Write
  <2>2. pc' = "stop_others" => tx'.failed
    BY <1>1, <2>1 DEF Locals
  <2> QED
    BY <2>1, <2>2 DEF StopClean, Cleaning
<1>5. CASE StopStopped
  <2>1. /\ UNCHANGED hw /\ pc' = "stop_others"
        /\ \/ hw.run = 0 /\ tx' = [tx EXCEPT !.todo = NonTargets]
           \/ tx' = [tx EXCEPT !.todo = NonTargets, !.failed = TRUE]
    BY <1>5 DEF StopStopped
  <2>2. tx'.todo = NonTargets /\ (~tx'.failed => hw.run = 0)
    BY <1>1, <2>1 DEF Locals
  <2> QED
    BY <2>1, <2>2 DEF StopClean
<1>6. CASE StopOthers
  <2>1. CASE tx.todo = {} /\ tx' = tx /\ pc' = "stop_mvlc"
    BY <1>6, <2>1 DEF StopOthers, StopClean, Cleaning
  <2>2. CASE tx' = tx /\ pc' = "stop_other"
    BY <1>6, <2>2 DEF StopOthers, StopClean, Cleaning
  <2>3. CASE pc' = "stop_others"
    <3>1. PICK m : /\ tx'.todo = tx.todo \ {m}
                   /\ tx'.failed \/ (hw.others[m] = 0 /\ ~tx.failed)
      <4>1. PICK m :
               \/ /\ hw.others[m] = 0
                  /\ tx' = [Handled(m) EXCEPT
                               !.failed = @ \/ m \notin ses.reset]
               \/ tx' = [Handled(m) EXCEPT !.failed = TRUE]
        BY <1>6, <2>3 DEF StopOthers
      <4>2. /\ Handled(m).failed = tx.failed /\ Handled(m) \in Locals
            /\ Handled(m).todo = tx.todo \ {m}
        BY <1>1 DEF Handled, Locals
      <4>3. CASE tx' = [Handled(m) EXCEPT !.failed = TRUE]
        BY <4>2, <4>3 DEF Locals
      <4>4. CASE /\ hw.others[m] = 0
                 /\ tx' = [Handled(m) EXCEPT !.failed = @ \/ m \notin ses.reset]
        BY <4>2, <4>4 DEF Locals
      <4> QED
        BY <4>1, <4>3, <4>4
    <3> QED
      BY <1>6, <2>3, <3>1 DEF StopOthers, StopClean, Cleaning
  <2> QED
    BY <1>6, <2>1, <2>2, <2>3 DEF StopOthers
<1>7. CASE StopOther
  <2>1. PICK m : /\ pc = "stop_other" /\ (hw' = hw \/ hw' = SetOther(m, 0))
                 /\ \/ pc' = "stop_quiet" /\ tx' = tx
                    \/ /\ tx' = [Handled(m) EXCEPT !.failed = TRUE]
                       /\ pc' = "stop_others"
    BY <1>7 DEF StopOther, Write
  <2>2. hw'.run = hw.run /\ (hw'.others = hw.others
           \/ hw'.others = [hw.others EXCEPT ![m] = 0])
    BY <1>1, <2>1, SetFields
  <2>3. hw.others \in [NonTargets -> {0, 1}]
    BY <1>1 DEF Hardware
  <2>4. pc' = "stop_others" => tx'.failed
    BY <1>1, <2>1 DEF Handled, Locals
  <2> QED
    BY <2>1, <2>2, <2>3, <2>4 DEF StopClean, Cleaning
<1>8. CASE StopQuiet
  <2>1. PICK m : /\ pc = "stop_quiet" /\ pc' = "stop_others" /\ UNCHANGED hw
                 /\ \/ hw.others[m] = 0 /\ tx' = Handled(m)
                    \/ tx' = [Handled(m) EXCEPT !.failed = TRUE]
    BY <1>8 DEF StopQuiet
  <2>2. /\ tx'.failed \/ (hw.others[m] = 0 /\ tx'.failed = tx.failed)
        /\ tx'.todo = tx.todo \ {m}
    BY <1>1, <2>1 DEF Handled, Locals
  <2> QED
    BY <2>1, <2>2 DEF StopClean, Cleaning
<1>9. CASE StopMvlc
  <2>1. /\ pc = "stop_mvlc" /\ (hw' = hw \/ hw' = ClearMvlc)
        /\ \/ pc' = "stop_clear" /\ tx' = tx
           \/ pc' = "stop_end" /\ tx' = [tx EXCEPT !.failed = TRUE]
    BY <1>9 DEF StopMvlc, Write, Failing
  <2>2. hw'.run = hw.run /\ hw'.others = hw.others
    BY <1>1, <2>1, SetFields
  <2>3. tx'.todo = tx.todo /\ (pc' = "stop_end" => tx'.failed)
    BY <1>1, <2>1 DEF Locals
  <2> QED
    BY <2>1, <2>2, <2>3 DEF StopClean, Cleaning
<1>10. CASE StopClear
  <2>1. /\ pc = "stop_clear" /\ pc' = "stop_end" /\ UNCHANGED hw
        /\ \/ hw.daq = 0 /\ hw.stack = "clear" /\ tx' = tx
           \/ tx' = [tx EXCEPT !.failed = TRUE]
    BY <1>10 DEF StopClear
  <2>2. /\ tx'.todo = tx.todo
        /\ tx'.failed \/ (tx' = tx /\ hw.daq = 0 /\ hw.stack = "clear")
    BY <1>1, <2>1 DEF Locals
  <2> QED
    BY <2>1, <2>2 DEF StopClean, Cleaning
<1> QED
  BY <1>3, <1>4, <1>5, <1>6, <1>7, <1>8, <1>9, <1>10 DEF StopNext

\* No other step leads into the cleanup.
LEMMA OnlyStopCleans ==
    ASSUME TypeInv, Next, ~(svc.alive /\ StopNext), ~Mvme,
           RunInv
    PROVE  pc' \notin Cleaning
<1>1. ASSUME Operation PROVE pc' \notin Cleaning
  <2>1. CASE PauseResumeNext
    BY <2>1
       DEF PauseResumeNext, PauseModule, PauseDaq, PauseVerify, ResumeModule,
           ResumeDaq, ResumeVerify, Write, NotPaused, Failing, PausedLabel,
           NotPausedLabel, ResumedLabel, Cleaning, TypeInv, KindOK,
           PauseLabels, ResumeLabels, PrvKinds
  <2>2. CASE SourceNext
    BY <2>2
       DEF SourceNext, SrcCheck, SrcSelect, SrcRead, SrcArm, SrcWrite,
           SrcVerify, SrcRollback, SrcRolled, SrcPark, SrcDisarm, SrcEnd,
           OpEnd, SrcrCheck, SrcrSelect, SrcrWrite, SrcrVerify, SrcrPark,
           SrcrDisarm, SrcrEnd, Write, Failing, Return, SaveJournal,
           SaveSourceRecoveryState, Cleaning
  <2>3. CASE PreviewNext
    BY <2>3
       DEF PreviewNext, PrvCheck, PrvSelect, PrvRead, PrvArm, PrvWrite,
           PrvVerify, PrvRollback, PrvRolled, PrvPark, PrvDisarm, PrvSettle,
           PrvEnd, Write, Failing, Unverified, Return, SaveJournal,
           SavePreviewRecoveryState, Cleaning
  <2>4. CASE StartNext
    BY <2>4
       DEF StartNext, StartGate, StartProbe, StartJournal, StartGate2,
           StartQuiesce, StartQuiet, StartOpen, StartStack, StartSetup,
           StartTrigger, StartReset, StartModule, StartDaq, StartVerify,
           StartActivate, StartWrite, Write, NotPrepared, PreparedOrphan,
           StartFailed, Return, SaveJournal, Cleaning
  <2>5. CASE RecoveryNext
    BY <2>5, RecoveryShape DEF RecLabels, Cleaning
  <2> QED
    BY <1>1, <2>1, <2>2, <2>3, <2>4, <2>5 DEF Operation
<1>2. ASSUME Command \/ PollWatchdog \/ Crash \/ StopWithoutTransport \/ Launch
      PROVE  pc' \notin Cleaning
  BY <1>2
     DEF Command, CheckStatus, OpenSession, CheckDiagnosticRecoveryStatus,
         UseProject, StartDiagnosticAcquisition, ChangeDiagnosticSource,
         ApplyDiagnosticPreview, RestoreDiagnosticPreview,
         RecoverDiagnosticOrphan, StopDiagnosticAcquisition, ReleaseSession,
         StopTask, Begin, PollWatchdog, Crash, StopWithoutTransport, Dies,
         Launch, Idle, RunInv, Cleaning
<1> QED
  BY <1>1, <1>2 DEF Next

\* Every step keeps what a Stop knows of its cleanup.
LEMMA StopCleanStep ==
    ASSUME TypeInv, RunInv, StopClean, [Next]_vars PROVE StopClean'
<1>1. CASE Mvme
  BY <1>1 DEF Mvme, MvmeStart, MvmeStop, StopClean
<1>2. CASE UNCHANGED vars
  BY <1>2 DEF vars, StopClean
<1>3. CASE Next /\ ~StopNext /\ ~Mvme
  BY <1>3, OnlyStopCleans DEF StopClean, Cleaning
<1> QED
  BY <1>1, <1>2, <1>3, StopCleans

\* Of the steps taken in a Stop, only its end removes the journal.
LEMMA StopRemoves ==
    ASSUME TypeInv, Next, Removes, tx.kind = "stop"
    PROVE  StopEnd /\ ~RestorePending(ses.rec) /\ ~tx.failed
<1>1. journal' # journal
  BY DEF Removes
<1>2. ~(Command \/ PollWatchdog \/ Crash \/ StopWithoutTransport \/ Launch)
  BY <1>1, QuietSteps DEF Frozen
<1>3. ~Mvme /\ ~PauseResumeNext
  BY <1>1
     DEF Mvme, PauseResumeNext, PauseModule, PauseDaq, PauseVerify,
         ResumeModule, ResumeDaq, ResumeVerify, HardwareOnly
<1>4. ~SourceNext
  BY <1>1
     DEF SourceNext, SrcCheck, SrcSelect, SrcRead, SrcArm, SrcWrite,
         SrcVerify, SrcRollback, SrcRolled, SrcPark, SrcDisarm, SrcEnd,
         OpEnd, SrcrCheck, SrcrSelect, SrcrWrite, SrcrVerify, SrcrPark,
         SrcrDisarm, SrcrEnd, HardwareOnly, Frozen, TypeInv, KindOK, SrcPre,
         SrcPost, SrcEnds, SrcrLabels
<1>5. ~PreviewNext
  BY DEF PreviewNext, PrvCheck, PrvSelect, PrvRead, PrvArm, PrvWrite,
         PrvVerify, PrvRollback, PrvRolled, PrvPark, PrvDisarm, PrvSettle,
         PrvEnd, TypeInv, KindOK, PrvLabels, PrvKinds
<1>6. ~StartNext
  BY DEF StartNext, StartGate, StartProbe, StartJournal, StartGate2,
         StartQuiesce, StartQuiet, StartOpen, StartStack, StartSetup,
         StartTrigger, StartReset, StartModule, StartDaq, StartVerify,
         StartActivate, StartWrite, TypeInv, KindOK, StartLabels
<1>7. ~RecoveryNext
  BY RecoveryShape
<1>8. StopNext
  BY <1>2, <1>3, <1>4, <1>5, <1>6, <1>7 DEF Next, Operation
<1>9. StopEnd
  BY <1>1, <1>8
     DEF StopNext, StopSource, StopCheck, StopModule, StopStopped, StopOthers,
         StopOther, StopQuiet, StopMvlc, StopClear, HardwareOnly, Frozen
<1> QED
  BY <1>1, <1>9 DEF StopEnd

(***************************************************************************)
(* A Stop that removes the journal leaves DAQ mode off, the readout stack  *)
(* cleared, every module stopped and the waveform source of every bank as  *)
(* it was found, whatever replies were lost and whatever changes and       *)
(* restores the session made before (stoppedCleanly of                     *)
(* StopDiagnosticAcquisition).                                             *)
(***************************************************************************)
THEOREM StopLeavesClean == Spec => StopLeavesCrateClean
<1> DEFINE Inv == SafeInv /\ SourceInv /\ StopClean
<1>1. Init => Inv
  <2>1. Init => pc = "idle"
    BY DEF Init, SessionInit
  <2> QED
    BY <2>1, SafeStart, SourceStart DEF StopClean, Cleaning
<1>2. Inv /\ [Next]_vars => Inv'
  BY SafeStep, SourceStep, StopCleanStep DEF SafeInv
<1>3. Inv /\ [Next]_vars =>
        [Removes /\ mvme = "away" /\ tx.kind = "stop" => CrateClean]_vars
  <2> SUFFICES ASSUME Inv, Next, Removes, mvme = "away", tx.kind = "stop"
               PROVE  CrateClean
    OBVIOUS
  <2>1. StopEnd /\ ~RestorePending(ses.rec) /\ ~tx.failed
    BY StopRemoves DEF SafeInv
  <2>2. /\ hw.daq = 0 /\ hw.stack = "clear" /\ hw.run = 0
        /\ \A m \in NonTargets : hw.others[m] = 0
    BY <2>1 DEF StopEnd, StopClean, Cleaning
  <2>3. Clean(hw.sample)
    <3>1. HasSession
      BY <2>1, InsideSession
         DEF SafeInv, StopEnd, SessionLabels, StopLabels
    <3> QED
      BY <2>1, <3>1, RepairsNothing
         DEF SourceInv, Kept, HasSession, RestorePending
  <2>4. hw.sample = FoundSample
    <3>1. hw.sample \in [Banks -> Words] /\ FoundSample \in [Banks -> Words]
      BY TypeFacts, WordAssumption DEF SafeInv, Hardware
    <3> QED
      BY <2>3, <3>1 DEF Clean
  <2> QED
    BY <2>2, <2>4 DEF CrateClean
<1> QED
  BY <1>1, <1>2, <1>3, PTL DEF Spec, StopLeavesCrateClean
=============================================================================

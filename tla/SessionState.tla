---------------------------- MODULE SessionState ----------------------------
(***************************************************************************)
(* The shared crate as FIDGET's tuning session sees it: the registers of   *)
(* the MVLC controller and of the MDPP modules that the operations under   *)
(* src/src/hardware read and write, what one register access may return,   *)
(* and the other user of the crate (MVME).                                 *)
(*                                                                         *)
(* One register access is one step.  That is the granularity at which      *)
(* another controller, a crash or a lost reply can interfere: the command  *)
(* worker serialises FIDGET's own accesses, but nothing serialises FIDGET  *)
(* with MVME or with the power switch.                                     *)
(***************************************************************************)
EXTENDS Integers, FiniteSets

CONSTANTS
    Quads,        \* the channel quads a session may tune (0 .. 7 in the code)
    Words,        \* the values a 16-bit sample-configuration word may take
    Params,       \* the values the previewed SCP parameter may take
    NonTargets,   \* the configured MDPP modules other than the target
    FoundSample,  \* sample configuration of each bank before any session
    FoundParam,   \* previewed parameter of each bank before any session
    MvmeSample,   \* sample configuration an MVME run start may write
    MvmeParam     \* parameter value an MVME run start may write

\* The selector chooses the bank that banked registers address; quad zero is
\* also where it is parked.
Banks == Quads \cup {0}

ASSUME ParkAssumption == Quads \subseteq Nat
ASSUME WordAssumption ==
    /\ Words \subseteq Nat
    /\ 0 \in Words
    /\ FoundSample \in [Banks -> Words]
    /\ MvmeSample \subseteq Words
ASSUME ParamAssumption ==
    /\ Params \subseteq Nat
    /\ 0 \in Params
    /\ FoundParam \in [Banks -> Params]
    /\ MvmeParam \subseteq Params

VARIABLES
    hw,     \* the registers
    mvme,   \* "away" until the other controller starts a run, then "running",
            \* then "stopped"
    calm    \* TRUE once the environment causes no further fault, crash or
            \* takeover; only the liveness runs ever set it

envVars == <<mvme, calm>>

(***************************************************************************)
(* daq      MVLC DAQ mode.                                                 *)
(* stack    the ten other fingerprint registers (trigger, offset, seven    *)
(*          stack words, ownership token): "clear", "partial" while FIDGET *)
(*          installs them, "ours" when all match the journal, "foreign".   *)
(* run      acquisition control of the target MDPP.                        *)
(* selector, sample, param   the target's banked SCP registers.            *)
(* others   acquisition control of the non-target MDPPs.                   *)
(***************************************************************************)
Hardware == [daq      : {0, 1},
             stack    : {"clear", "partial", "ours", "foreign"},
             run      : {0, 1},
             selector : Banks,
             sample   : [Banks -> Words],
             param    : [Banks -> Params],
             others   : [NonTargets -> {0, 1}]]

Runs == {"away", "running", "stopped"}

CrateTypeOK ==
    /\ hw \in Hardware
    /\ mvme \in Runs
    /\ calm \in BOOLEAN

CrateInit ==
    /\ hw \in {h \in Hardware : /\ h.daq = 0
                                /\ h.stack = "clear"
                                /\ h.run = 0
                                /\ h.selector = 0
                                /\ h.sample = FoundSample
                                /\ h.param = FoundParam}
    /\ mvme = "away"
    /\ calm = FALSE

----------------------------------------------------------------------------
\* What an acknowledged write does to the registers.
SetDaq(v)      == [hw EXCEPT !.daq = v]
SetStack(s)    == [hw EXCEPT !.stack = s]
SetRun(v)      == [hw EXCEPT !.run = v]
Select(b)      == [hw EXCEPT !.selector = b]
SetSample(w)   == [hw EXCEPT !.sample = [@ EXCEPT ![hw.selector] = w]]
SetParam(p)    == [hw EXCEPT !.param = [@ EXCEPT ![hw.selector] = p]]
SetOther(m, v) == [hw EXCEPT !.others = [@ EXCEPT ![m] = v]]
\* DAQ mode, trigger, offset and token are zeroed by one command batch.
ClearMvlc      == [hw EXCEPT !.daq = 0, !.stack = "clear"]

LiveSample == hw.sample[hw.selector]
LiveParam  == hw.param[hw.selector]

(***************************************************************************)
(* A write (WriteVmeD16, WriteLocalRegisters).  Acknowledged, it happened. *)
(* Reported as failed it may still have happened: the reply can be lost,   *)
(* and a stack transaction is executed up to three times before it is      *)
(* given up.  Reads (ReadVmeD16, ReadLocalRegisters) return the live value *)
(* or fail; a read step guards its failing alternative with Fault.         *)
(***************************************************************************)
Fault == ~calm

Write(new, acknowledged, failed) ==
    \/ hw' = new /\ acknowledged
    \/ Fault /\ hw' \in {hw, new} /\ failed

\* Mutant: any running DAQ is taken for FIDGET's own.
FingerprintDaqOnly == hw.daq = 1
\* The complete fingerprint, read in one MVLC transaction.
FingerprintMatches == hw.daq = 1 /\ hw.stack = "ours"

----------------------------------------------------------------------------
(***************************************************************************)
(* MVME.  A run start initialises the target (sample configuration,        *)
(* parameters, selector), installs its own stacks and enables DAQ mode.    *)
(* One takeover, at any moment, is enough for every property here: each of *)
(* them is about what FIDGET does after the first one.                     *)
(***************************************************************************)
MvmeStart ==
    /\ Fault
    /\ mvme = "away"
    /\ mvme' = "running"
    /\ \E w \in MvmeSample, p \in MvmeParam, b \in Banks :
          hw' = [hw EXCEPT !.daq = 1, !.stack = "foreign", !.run = 1,
                           !.selector = 0,
                           !.sample = [@ EXCEPT ![b] = w],
                           !.param = [@ EXCEPT ![b] = p],
                           !.others = [m \in NonTargets |-> 1]]
    /\ UNCHANGED calm

MvmeStop ==
    /\ Fault
    /\ mvme = "running"
    /\ mvme' = "stopped"
    /\ hw' = [hw EXCEPT !.daq = 0, !.run = 0,
                        !.others = [m \in NonTargets |-> 0]]
    /\ UNCHANGED calm

CalmDown == ~calm /\ calm' = TRUE /\ UNCHANGED <<hw, mvme>>

-----------------------------------------------------------------------------
(***************************************************************************)
(* The recovery journal beside the project file (<project>.recovery), as   *)
(* the operations use it: a record that is replaced atomically, removed,   *)
(* or loaded.  The file operations behind one save are the subject of      *)
(* RecoveryJournal.cpp; here a save has the three outcomes its caller can  *)
(* meet.                                                                   *)
(***************************************************************************)

VARIABLE journal   \* the record on disk; NoRecord when there is no file

(***************************************************************************)
(* The restore fields of TunerRecoveryRecord: sourceRestoreRequired,       *)
(* sourceQuad, sourceOriginalConfiguration, sourceAppliedConfiguration and *)
(* the four preview fields.  A disarmed entry has its fields zeroed, as    *)
(* the code does.  Endpoint, identities, fingerprint and isolated modules  *)
(* are written once and never change during a session, so they are the     *)
(* record's existence here.                                                *)
(***************************************************************************)
Restore(V) == [required : BOOLEAN, quad : Banks, original : V, applied : V]
Disarmed == [required |-> FALSE, quad |-> 0, original |-> 0, applied |-> 0]
Armed(q, o, a) ==
    [required |-> TRUE, quad |-> q, original |-> o, applied |-> a]

Phases == {"None", "Prepared", "Active"}
Record == [phase : Phases, source : Restore(Words), preview : Restore(Params)]
NoRecord == [phase |-> "None", source |-> Disarmed, preview |-> Disarmed]
PreparedRecord ==
    [phase |-> "Prepared", source |-> Disarmed, preview |-> Disarmed]

JournalTypeOK == journal \in Record
JournalInit == journal = NoRecord

----------------------------------------------------------------------------
(***************************************************************************)
(* ValidateRecord refuses a source entry whose applied word equals the     *)
(* original or differs from it outside the two source bits; such a record  *)
(* is never serialised.                                                    *)
(***************************************************************************)
ValidRecord(rec) ==
    \/ ~rec.source.required
    \/ /\ rec.source.applied # rec.source.original
       /\ rec.source.applied \div 4 = rec.source.original \div 4

(***************************************************************************)
(* SaveTunerRecoveryJournal.  A failed save usually leaves the old file,   *)
(* but the rename may have been installed before the directory could be    *)
(* made durable (destinationInstalled).                                    *)
(***************************************************************************)
SaveJournal(rec, saved, failed) ==
    \/ ValidRecord(rec) /\ journal' = rec /\ saved
    \/ ValidRecord(rec) /\ Fault /\ journal' \in {journal, rec} /\ failed
    \/ ~ValidRecord(rec) /\ journal' = journal /\ failed

\* RemoveTunerRecoveryJournal.
RemoveJournal(removed, failed) ==
    \/ journal' = NoRecord /\ removed
    \/ Fault /\ journal' = journal /\ failed

\* LoadTunerRecoveryJournal: a missing file is NoRecord.
LoadJournal == journal

-----------------------------------------------------------------------------
(***************************************************************************)
(* The state of one FIDGET process that the diagnostic operations share:   *)
(* the published snapshot, the acquisition session held by                 *)
(* OwnershipService, and the worker that runs one operation at a time.     *)
(* pc is the register access or file access the worker performs next; tx   *)
(* holds the local variables of the operation it is in.                    *)
(***************************************************************************)

VARIABLES
    svc,   \* what the service publishes and keeps between operations
    ses,   \* acquisitionSession_
    pc,    \* the worker's next step, "idle" between operations
    tx     \* the locals of the operation in progress

vars == <<hw, mvme, calm, journal, svc, ses, pc, tx>>

----------------------------------------------------------------------------
(***************************************************************************)
(* diagnosticParameterPreview of the snapshot, while previewActive: ok is  *)
(* state = PreviewActive, and the remaining flags are those of the result  *)
(* of the last preview transaction (communicationUnavailable, modulePaused *)
(* and daqModePaused, acquisitionResumed).                                 *)
(***************************************************************************)
Preview == [active : BOOLEAN, ok : BOOLEAN, original : Params,
            applied : Params, comm : BOOLEAN, paused : BOOLEAN,
            resumed : BOOLEAN]
NoPreview == [active |-> FALSE, ok |-> FALSE, original |-> 0, applied |-> 0,
              comm |-> FALSE, paused |-> FALSE, resumed |-> FALSE]

Ownership == {"Disconnected", "Idle", "InUse", "Failed", "SessionOpen",
              "OwnershipLost", "RecoveryRequired"}
Acquisition == {"NotRun", "Starting", "Running", "Stopped", "Failed"}

\* transport is "transport_ is not null"; pending is pendingRecoveryRecord_,
\* published as recoveryRecordAvailable.
Service == [alive : BOOLEAN, own : Ownership, acq : Acquisition,
            receiver : BOOLEAN, transport : BOOLEAN, pending : Record,
            pv : Preview]

\* A process that has just been launched with no journal on disk.
Launched == [alive |-> TRUE, own |-> "Disconnected", acq |-> "NotRun",
             receiver |-> FALSE, transport |-> FALSE, pending |-> NoRecord,
             pv |-> NoPreview]

(***************************************************************************)
(* acquisitionSession_: state of the acquisition result,                   *)
(* foreignControllerDetected, orphanRecoveryRequired, the in-memory        *)
(* recovery record, the quad of the requested channel, and the non-target  *)
(* modules whose FIFO and readout resets were both sent.                   *)
(***************************************************************************)
Session == [state : {"None", "Running", "Failed"}, foreign : BOOLEAN,
            orphan : BOOLEAN, rec : Record, quad : Banks,
            reset : SUBSET NonTargets]
NoSession == [state |-> "None", foreign |-> FALSE, orphan |-> FALSE,
              rec |-> NoRecord, quad |-> 0, reset |-> {}]

(***************************************************************************)
(* The locals of the operations.  kind names the operation; release is     *)
(* ReleaseSession's stop; req and live are the requested and the captured  *)
(* (original) register value; left is "the restore left the session        *)
(* verified and paused".  since is a history field: what the other         *)
(* controller was doing when the operation was requested.                  *)
(***************************************************************************)
Kinds == {"none", "start", "source", "apply", "restore", "stopRestore",
          "stopSource", "stop", "recover"}
Values == Words \cup Params
Locals == [kind : Kinds, release : BOOLEAN, since : Runs, quad : Banks,
           req : Nat, live : Values, rec : Record, todo : SUBSET NonTargets,
           need : SUBSET NonTargets, left : BOOLEAN, failed : BOOLEAN,
           paused : BOOLEAN, selected : BOOLEAN, attempted : BOOLEAN,
           verified : BOOLEAN, rolled : BOOLEAN, parked : BOOLEAN,
           armed : BOOLEAN, back : BOOLEAN, resumed : BOOLEAN,
           idle : BOOLEAN, preview : BOOLEAN]
NoTx == [kind |-> "none", release |-> FALSE, since |-> "away", quad |-> 0,
         req |-> 0, live |-> 0, rec |-> NoRecord, todo |-> {}, need |-> {},
         left |-> FALSE, failed |-> FALSE, paused |-> FALSE,
         selected |-> FALSE, attempted |-> FALSE, verified |-> FALSE,
         rolled |-> FALSE, parked |-> FALSE, armed |-> FALSE, back |-> FALSE,
         resumed |-> FALSE, idle |-> FALSE, preview |-> FALSE]

SessionInit ==
    /\ svc = Launched
    /\ ses = NoSession
    /\ pc = "idle"
    /\ tx = NoTx

----------------------------------------------------------------------------
Idle == svc.alive /\ pc = "idle"

\* An operation is taken from the queue and reaches its first access.
Begin(kind, locals, label) ==
    /\ tx' = [locals EXCEPT !.kind = kind, !.since = mvme]
    /\ pc' = label

\* Steps that only talk to the hardware or only to the disk.
HardwareOnly == UNCHANGED <<mvme, calm, journal, svc, ses>>
DiskOnly == UNCHANGED <<hw, mvme, calm, svc>>
Frozen == UNCHANGED <<hw, mvme, calm, journal>>

\* A reply that the operation's failure message records.
Failing(label) == tx' = [tx EXCEPT !.failed = TRUE] /\ pc' = label

(***************************************************************************)
(* The operation returns to the worker loop, leaving session s and service *)
(* v.  A stop that ReleaseSession requested also drops a session that is   *)
(* foreign or needs recovery, or ends the session after a clean stop; any  *)
(* other failed stop leaves the session as it is.                          *)
(***************************************************************************)
Dropped(v) == [v EXCEPT !.own = "Disconnected", !.receiver = FALSE,
                        !.transport = FALSE]
Released(v) == [Dropped(v) EXCEPT !.acq = "NotRun", !.pv = NoPreview]

Return(s, v) ==
    /\ pc' = "idle"
    /\ tx' = NoTx
    /\ \/ /\ ~tx.release
          /\ ses' = s
          /\ svc' = v
       \/ /\ tx.release
          /\ s.state = "None"
          /\ ses' = s
          /\ svc' = Released(v)
       \/ /\ tx.release
          /\ s.state # "None"
          /\ s.foreign \/ s.orphan
          /\ ses' = NoSession
          /\ svc' = Dropped(v)
       \/ /\ tx.release
          /\ s.state # "None"
          /\ ~s.foreign /\ ~s.orphan
          /\ ses' = s
          /\ svc' = v

----------------------------------------------------------------------------
(***************************************************************************)
(* Passive detach.  A proven fingerprint mismatch marks the session; DAQ   *)
(* activity seen while the tuner is not acquiring only drops the transport *)
(* (the session, if one is held, is not marked).                           *)
(***************************************************************************)
ForeignSession == [ses EXCEPT !.state = "Failed", !.foreign = TRUE]
DetachForForeignDiagnosticFingerprint(pv) ==
    [svc EXCEPT !.own = "OwnershipLost", !.acq = "Failed",
                !.transport = FALSE, !.pending = ses.rec,
                !.pv = IF pv.active THEN [pv EXCEPT !.ok = FALSE]
                                    ELSE NoPreview]
DetachForForeignDaq(v) ==
    [v EXCEPT !.own = "OwnershipLost", !.transport = FALSE]
=============================================================================

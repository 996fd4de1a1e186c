---------------------------- MODULE GuidedWorkflow ----------------------------
(***************************************************************************)
(* The legacy workspace of the graphical front end: from every snapshot    *)
(* PlanGuidedTunerWorkflow decides which of seven steps is due,            *)
(* App::DrawStagePanel draws the stage of that step and no other, and the  *)
(* user presses what that stage enables.  The tuner behind it is           *)
(* TunerControl.                                                           *)
(*                                                                         *)
(* A press is one step with the frame it happens in.  The worker may       *)
(* publish between the frame's snapshot and the submission, but it takes   *)
(* the new command only after all that was queued before, so this order    *)
(* has the same outcome as a publication right after the submission.       *)
(***************************************************************************)
EXTENDS TunerControl

CONSTANT MaxWaiting  \* bound on the commands of the user that wait

MaxWaitingAssumption == MaxWaiting \in Nat \ {0}

VARIABLES
    joining,    \* the command whose Submit waits for the watchdog, or "none"
    ticks,      \* the confirmation boxes that are ticked
    reviewed,   \* history: the startup box was ticked in the present session
    confirmed   \* history: the handoff was confirmed since MVME was last seen

vars == <<tuner, joining, ticks, reviewed, confirmed>>

-----------------------------------------------------------------------------
(* The operation a snapshot shows as active.                               *)
ActiveOperation ==
    CASE busy.name = "audit" -> "Audit"
      [] busy.name = "capture" -> "ConfigurationCapture"
      [] busy.name = "apply" -> "ProfileApplication"
      [] busy.name = "startup" -> "StartupPreparation"
      [] busy.name \in {"start", "stop", "release", "source", "preview",
                        "restore", "recover"} \cup Uses -> "Acquisition"
      [] OTHER -> "None"

MakeDecision(stage, action, step) == [stage |-> stage, action |-> action, step |-> step]

(* The decision an acquisition calls for, of its own; "next" when there is *)
(* none, or when it was cleaned up and the session is gone.                *)
AcquisitionDecision(s) ==
    CASE s.acquisition = "Starting" -> MakeDecision("Starting", "None", 7)
      [] s.acquisition = "Running" -> MakeDecision("Acquiring", "StopAcquisition", 7)
      [] s.acquisition = "Stopping" -> MakeDecision("Stopping", "None", 7)
      [] s.acquisition = "Failed" -> MakeDecision("Failed", "None", 7)
      [] s.acquisition = "Stopped" /\ s.clean /\ s.ownership = "SessionOpen" ->
            MakeDecision("StoppedCleanly", "StartAcquisition", 7)
      [] s.acquisition = "Stopped" /\ ~s.clean -> MakeDecision("Failed", "None", 7)
      [] OTHER -> MakeDecision("next", "None", 0)

OwnershipDecision(s) ==
    CASE ~s.project -> MakeDecision("SelectProject", "ProjectControls", 1)
      [] s.project /\ ~s.supported ->
            MakeDecision("UnsupportedTarget", "ProjectControls", 1)
      [] OTHER ->
            CASE s.ownership \in {"Disconnected", "Failed"} ->
                    MakeDecision("CheckController", "CheckControllerStatus", 2)
              [] s.ownership = "Checking" -> MakeDecision("Working", "None", 2)
              [] s.ownership = "Idle" ->
                    IF s.handoff THEN MakeDecision("OpenSession", "OpenSession", 2)
                    ELSE MakeDecision("ConfirmHandoff", "ConfirmHandoff", 2)
              [] s.ownership \in {"InUse", "OwnershipLost"} ->
                    MakeDecision("Blocked", "CheckControllerStatus", 2)
              [] s.ownership = "SessionOpen" -> MakeDecision("next", "None", 0)

SessionDecision(s) ==
    IF ActiveOperation # "None"
    THEN MakeDecision("Working", "None",
            CASE ActiveOperation = "Audit" -> 4
              [] ActiveOperation \in {"ConfigurationCapture", "ProfileApplication"} -> 5
              [] ActiveOperation = "StartupPreparation" -> 6
              [] OTHER -> 2)
    ELSE IF ~s.loaded THEN MakeDecision("LoadProfile", "LoadProfile", 3)
    ELSE IF ~AuditComplete(s) THEN MakeDecision("AuditStartup", "RunStartupAudit", 4)
    ELSE IF ~s.fresh THEN MakeDecision("CaptureConfiguration", "CaptureConfiguration", 5)
    ELSE IF s.passed THEN MakeDecision("Ready", "StartAcquisition", 7)
    ELSE IF StartupPlanAvailable(s) THEN MakeDecision("ReviewStartup", "ReviewStartup", 6)
    ELSE MakeDecision("Blocked", "None", 6)

PlanGuidedTunerWorkflow(s) ==
    IF s.journal # "None" \/ s.ownership = "RecoveryRequired"
    THEN MakeDecision("ResolveRecovery", "RecoveryControls", 2)
    ELSE IF AcquisitionDecision(s).stage # "next" THEN AcquisitionDecision(s)
    ELSE IF OwnershipDecision(s).stage # "next" THEN OwnershipDecision(s)
    ELSE SessionDecision(s)

-----------------------------------------------------------------------------
(* What each stage enables, by the name of the command it submits.         *)
When(condition, commands) == IF condition THEN commands ELSE {}

ReleaseButton(s) == When(s.ownership \in {"SessionOpen", "OwnershipLost"}, {"release"})
NoOperation == ActiveOperation = "None"

ProjectStage(s) == {"use", "useOther"}

SessionStage(s) ==
    IF s.journal = "Malformed" THEN {}
    ELSE IF s.journal = "Pending"
    THEN When(s.recovery.state # "Running", {"look", "recover"})
    ELSE When(s.project /\ s.ownership \notin {"Checking", "SessionOpen"}, {"check"})
         \cup When(s.ownership = "Idle", {IF s.handoff THEN "unconfirm" ELSE "handoff"})
         \cup When(s.ownership = "Idle" /\ s.handoff, {"open"})
         \cup ReleaseButton(s)

ProfileStage(s) ==
    When(s.project /\ s.supported, {"load"})
    \cup When(s.fresh, {"save"})
    \cup When(s.loaded \/ s.other, {"export"})
    \cup ReleaseButton(s)

StartupAuditStage(s) ==
    When(/\ s.ownership = "SessionOpen" /\ s.supported
         /\ ActiveOperation # "Audit", {"audit"})
    \cup ReleaseButton(s)

(* A single row and all differences are applied by the same transaction.   *)
ConfigurationStage(s) ==
    When(s.ownership = "SessionOpen" /\ s.supported /\ NoOperation, {"capture"})
    \cup When(/\ NoOperation /\ s.ownership = "SessionOpen"
              /\ RefreshProfileComparison(s) = "differs", {"apply"})
    \cup ReleaseButton(s)

StartupStage(s) ==
    When(/\ NoOperation /\ s.ownership = "SessionOpen" /\ s.fresh
         /\ AuditComplete(s) /\ StartupPlanAvailable(s), {"startup"})
    \cup ReleaseButton(s)

(* The state of the acquisition's own result, which stays Running until a  *)
(* stop has ended.                                                         *)
ResultRunning(s) == s.acquisition \in {"Running", "Stopping"}

\* Mutant: the start is enabled whether or not the startup has passed.
StartButtonUnprepared(s) ==
    /\ s.acquisition \notin {"Starting", "Running", "Stopping"} /\ NoOperation
    /\ s.ownership = "SessionOpen"

StartButton(s) ==
    /\ s.acquisition \notin {"Starting", "Running", "Stopping"} /\ NoOperation
    /\ s.ownership = "SessionOpen" /\ s.passed

AcquisitionStage(s) ==
    LET tune == /\ ResultRunning(s) /\ ~s.uncertain
                /\ s.source.state # "Running" /\ s.preview.state # "Running"
    IN  When(StartButton(s), {"start"})
        \cup When(s.acquisition \in {"Starting", "Running", "Stopping"}, {"stop"})
        \cup When(tune /\ ~s.active, {"source", "preview"})
        \cup When(tune /\ s.active, {"restore"})

DrawStagePanel(s) ==
    LET step == PlanGuidedTunerWorkflow(s).step
    IN  CASE step = 1 -> ProjectStage(s)
          [] step = 2 -> SessionStage(s)
          [] step = 3 -> ProfileStage(s)
          [] step = 4 -> StartupAuditStage(s)
          [] step = 5 -> ConfigurationStage(s)
          [] step = 6 -> StartupStage(s)
          [] OTHER -> AcquisitionStage(s)

-----------------------------------------------------------------------------
Confirmable == {"recover", "apply", "startup"}

Init == /\ TunerInit
        /\ joining = "none" /\ ticks = {}
        /\ reviewed = FALSE /\ confirmed = FALSE

Idle == joining = "none"

Tick == \E box \in Confirmable \cap DrawStagePanel(snap) :
    /\ Idle
    /\ ticks' = IF box \in ticks THEN ticks \ {box} ELSE ticks \cup {box}
    /\ reviewed' = (reviewed \/ (box = "startup" /\ box \notin ticks))
    /\ UNCHANGED <<tuner, joining, confirmed>>

(* A frame that draws the box of an operation which may not run unticks it.*)
DrawFrame ==
    LET step == PlanGuidedTunerWorkflow(snap).step
        unticked == When(step = 5, {"apply"}) \cup When(step = 6, {"startup"})
    IN  /\ Idle
        /\ (unticked \ DrawStagePanel(snap)) \cap ticks # {}
        /\ ticks' = ticks \ (unticked \ DrawStagePanel(snap))
        /\ UNCHANGED <<tuner, joining, reviewed, confirmed>>

Pressed == SelectSeq(queue, LAMBDA t : t.name \notin {"poll", "stream"})

Press == \E name \in DrawStagePanel(snap) :
    /\ Idle /\ Len(Pressed) < MaxWaiting
    /\ name \in Confirmable => name \in ticks
    /\ ticks' = ticks \ {name}
    /\ IF StopsWatchdog(name) /\ watchdog # "off"
       THEN joining' = name /\ RequestWatchdogStop /\ UNCHANGED queue
       ELSE Post(name, 0) /\ UNCHANGED <<joining, watchdog>>
    /\ UNCHANGED <<snap, newer, busy, session, disk, reviewed, confirmed>>

JoinWatchdog ==
    /\ ~Idle
    /\ Post(joining, 0)
    /\ joining' = "none"
    /\ UNCHANGED <<snap, newer, busy, watchdog, session, disk, ticks, reviewed, confirmed>>

TunerStep ==
    /\ Threads
    /\ reviewed' = (reviewed /\ (snap.ownership = "SessionOpen" \/ snap'.ownership # "SessionOpen"))
    /\ confirmed' = IF snap'.ownership \in {"InUse", "OwnershipLost"} THEN FALSE
                    ELSE confirmed \/ (snap'.handoff /\ ~snap.handoff)
    /\ UNCHANGED <<joining, ticks>>

Next == Tick \/ DrawFrame \/ Press \/ JoinWatchdog \/ TunerStep

Spec == Init /\ [][Next]_vars

-----------------------------------------------------------------------------
Settled == queue = <<>> /\ busy = Nothing /\ Idle
Decision == PlanGuidedTunerWorkflow(snap)

\* The operations that write, in the run and before it.
RunWrites == {"start", "source", "preview", "restore"}
SetupWrites == {"apply", "startup"}

\* What the drawn stage enables while nothing else is under way is carried
\* out and not refused: the guards of the stages are those of the service
\* (DrawStagePanel, Refuses, StopDiagnosticAcquisition).
EnabledIsAccepted ==
    Settled => \A name \in DrawStagePanel(snap) :
        /\ ~Refuses(name, snap)
        /\ name \in {"source", "preview"} => ~IsSingle(name, snap)
        /\ name = "stop" => session = "held"

Control == [ProjectControls |-> "use", RecoveryControls |-> "recover",
            CheckControllerStatus |-> "check", ConfirmHandoff |-> "handoff",
            OpenSession |-> "open", LoadProfile |-> "load",
            RunStartupAudit |-> "audit", CaptureConfiguration |-> "capture",
            ReviewStartup |-> "startup", StartAcquisition |-> "start",
            StopAcquisition |-> "stop"]

\* In the six steps up to the acquisition, the action the workflow rail names
\* is one the stage beside it enables, unless the recovery journal is
\* malformed (MakeDecision, DrawStagePanel).
NamedActionIsOffered ==
    Settled /\ Decision.action # "None" /\ Decision.step < 7 /\ snap.journal # "Malformed"
        => Control[Decision.action] \in DrawStagePanel(snap)

\* In the seventh step too: the rail does not name a start which the stage
\* refuses (GuidedTunerStage::StoppedCleanly, AcquisitionStage::Draw).
RestartIsOffered ==
    Settled /\ Decision.action # "None" /\ Decision.step = 7
        => Control[Decision.action] \in DrawStagePanel(snap)

\* However many commands wait, no operation of an acquisition begins while a
\* recovery journal is known, also when it was pressed before the journal
\* was; and an apply or a startup that waited behind a start which failed
\* finds FIDGET's own session still held, never an orphan's journal or one
\* whose crate another program has taken (Refuses, Begun).
NoWriteOverJournal ==
    /\ busy.name \in RunWrites => snap.journal = "None"
    /\ busy.name \in SetupWrites => snap.journal = "None" \/ session = "held"

\* No startup and no apply begins while a recovery journal is known, not even
\* behind a start that failed and whose session is still held
\* (RunDeterministicStartup, ApplyAllDifferences).
SetupWaitsForRecovery == busy.name \in SetupWrites => snap.journal = "None"

\* After a failed acquisition the stage enables something to continue with
\* (GuidedTunerStageMessage of Failed).
FailureCanContinue ==
    Settled /\ Decision.stage = "Failed" => DrawStagePanel(snap) # {}

\* A session is opened only on a confirmation given after MVME was last seen
\* to use the controller (OpenSession, SetHandoffConfirmed).
HandoffIsCurrent == snap.ownership = "SessionOpen" => confirmed

\* A ticked box beside an enabled startup was ticked in the session whose
\* plan it is drawn with (StartupStage::Draw).
ReviewIsCurrent ==
    "startup" \in ticks \cap DrawStagePanel(snap) => reviewed

\* A profile loaded for the module of the session can be exported
\* (ProfileStage::Draw).
LoadedProfileCanBeExported ==
    Settled /\ snap.loaded /\ Decision.step = 4 => "export" \in DrawStagePanel(snap)
===============================================================================

-------------------------- MODULE GuiPresentation ---------------------------
(***************************************************************************)
(* presentation/GuiPresentation.cpp: the page, the header, the claims and  *)
(* the actions the graphical front end shows for a snapshot.  PresentGui   *)
(* is a function of the snapshot and of what the user selected; the second *)
(* part of this module lets the snapshots change under it.                 *)
(*                                                                         *)
(* TuningSessionEvidence is the set of the facts that are established; a   *)
(* fact that is not in the set is not established, which is never evidence *)
(* of the opposite.                                                        *)
(***************************************************************************)
EXTENDS Naturals

Facts == {
    "endpointInputsValid", "targetModuleAddressValid",
    "endpointEditingAllowed", "currentConnectionRequestValid",
    "controllerConnected", "controllerIdentityVerified",
    "controllerVerificationFresh", "targetIdentityAndFirmwareVerified",
    "controllerIdleVerified", "targetAcquisitionStoppedVerified",
    "targetVerificationFresh", "connectionVerificationFresh",
    "noRecoveryPending", "operationIdle",
    "controlHeld", "ownershipFingerprintVerified",
    "liveRestoreSnapshotCaptured", "recoveryRecordDurable",
    "workspaceStartingSettingsResolved", "acquisitionPrepared",
    "acquisitionLatchReady", "moduleCouldNotBeArmed", "insufficientData",
    "goalSelected", "automaticPathSelected", "manualPathSelected",
    "groupSelectionValid", "channelSelectionValid", "learnSignalComplete",
    "currentAppliedValuesVerified", "comparisonAvailable",
    "manualControlsAvailable", "manualEditValid", "undoAvailable",
    "redoAvailable", "workingDiffersFromOriginal", "groupResultComplete",
    "recommendationVerified", "settingChangesVerified",
    "restorationRequired", "restorationInProgress",
    "cancelAndRestoreAvailable", "groupCapturedStateRestored",
    "groupRestorationReadbackVerified", "recommendationRetained",
    "noRecommendationAvailableVerified", "resultExitAvailable",
    "sessionCapturedStateRestored", "sessionRestorationReadbackVerified",
    "controllerReleased", "outputCreated", "outputDeliberatelyDeclined",
    "activeControllerUseDetected", "noControlTaken",
    "noVmeOrModuleSettingWritesSent", "ownershipUncertain",
    "controlsFrozen", "noBlindRollbackOrCleanupSent", "reconnectAvailable",
    "recoveryRecordPresent", "recoveryContextEstablished",
    "recoveryInProgress", "recoveryControllerAndTargetIdentitiesVerified",
    "recoveryStoppedStateVerified", "unexpectedRecoveryValueNotOverwritten",
    "recoveryRecordRetained", "noRecoveryWritesSent",
    "temporaryValuesRestored", "valuesAlreadyOriginal",
    "recoveryReadbackVerified", "recoveryJournalCleared",
    "recoveryControllerReleased", "guardedRecoveryRetryAvailable",
    "detailsAvailable", "logsAvailable", "helpAvailable",
    "primaryNavigationAvailable", "navigationAwayVerifiedSafe"}

Phases == {"Home", "Preparing", "Goal", "Group", "AutomaticLearnSignal",
           "AutomaticEnergy", "AutomaticTiming", "Manual", "GroupResult",
           "Restoring", "NextGroup", "Finished"}
Comparisons == {"NotCompared", "LiveOriginal", "LiveApplied",
                "VerifiedMixed", "Unexpected", "InsufficientEvidence"}
Discoveries == {"NotScanned", "Empty", "PendingV5", "Blocked"}
JournalStatuses == {"None", "Pending", "Malformed"}

Snapshots == [evidence : SUBSET Facts, phase : Phases,
              comparison : Comparisons, discovery : Discoveries,
              recordPaths : BOOLEAN, recordAvailable : BOOLEAN,
              journal : JournalStatuses]

Drawers == {"None", "Details", "Logs", "Help", "SettingChanges"}
Selections == [drawer : Drawers, sshSettingsExpanded : BOOLEAN,
               manualPanel : {"Energy", "Timing"}, compareChannels : BOOLEAN]

-----------------------------------------------------------------------------
(***************************************************************************)
(* What the evidence amounts to.                                           *)
(***************************************************************************)
ControllerEndpointVerified(e) ==
    {"controllerConnected", "controllerIdentityVerified",
     "controllerIdleVerified", "controllerVerificationFresh"} \subseteq e

TargetModuleVerified(e) ==
    /\ ControllerEndpointVerified(e)
    /\ {"targetIdentityAndFirmwareVerified",
        "targetAcquisitionStoppedVerified", "targetVerificationFresh",
        "connectionVerificationFresh"} \subseteq e

ControllerReady(e) == TargetModuleVerified(e)

ControlHeldAndVerified(e) ==
    /\ {"controlHeld", "ownershipFingerprintVerified"} \subseteq e
    /\ {"controllerReleased", "recoveryControllerReleased",
        "activeControllerUseDetected", "ownershipUncertain"} \cap e = {}

PreparationComplete(e) ==
    /\ ControllerReady(e)
    /\ ControlHeldAndVerified(e)
    /\ {"noRecoveryPending", "liveRestoreSnapshotCaptured",
        "recoveryRecordDurable", "workspaceStartingSettingsResolved",
        "acquisitionPrepared"} \subseteq e

LatchReady(e) == PreparationComplete(e) /\ "acquisitionLatchReady" \in e

CurrentOwnershipAvailable(e) ==
    /\ ControlHeldAndVerified(e)
    /\ "operationIdle" \in e
    /\ {"controlsFrozen", "restorationInProgress", "ownershipUncertain"}
          \cap e = {}

RestorationCanStart(e) ==
    /\ ControlHeldAndVerified(e)
    /\ "controlsFrozen" \notin e
    /\ {"liveRestoreSnapshotCaptured", "recoveryRecordDurable",
        "restorationRequired", "cancelAndRestoreAvailable"} \subseteq e

RestorationInProgressVerified(e) ==
    /\ ControlHeldAndVerified(e)
    /\ {"restorationRequired", "restorationInProgress",
        "liveRestoreSnapshotCaptured", "recoveryRecordDurable"} \subseteq e

GroupRestorationVerified(e) ==
    {"groupCapturedStateRestored", "groupRestorationReadbackVerified"}
        \subseteq e

SessionRestorationVerified(e) ==
    {"sessionCapturedStateRestored", "sessionRestorationReadbackVerified"}
        \subseteq e

FinishedVerified(e) ==
    /\ SessionRestorationVerified(e)
    /\ "controllerReleased" \in e
    /\ {"outputCreated", "outputDeliberatelyDeclined"} \cap e # {}

ResultExitCanStart(e) ==
    /\ {"groupResultComplete", "resultExitAvailable"} \subseteq e
    /\ IF "restorationRequired" \in e THEN RestorationCanStart(e)
       ELSE GroupRestorationVerified(e)

ConflictDetected(e) == "activeControllerUseDetected" \in e

ConflictMitigationsVerified(e) ==
    {"activeControllerUseDetected", "noControlTaken",
     "noVmeOrModuleSettingWritesSent"} \subseteq e

OwnershipUncertaintyDetected(e) == "ownershipUncertain" \in e

OwnershipUncertaintyMitigationsVerified(e) ==
    {"ownershipUncertain", "controlsFrozen", "noBlindRollbackOrCleanupSent"}
        \subseteq e

ApplicationRecoveryBlocksNormalTuning(s) ==
    s.discovery \in {"PendingV5", "Blocked"}

ApplicationRecoveryHasRetainedEvidence(s) ==
    s.discovery = "PendingV5" \/ s.recordPaths

RecoveryRecordOutstanding(s) ==
    \/ s.recordAvailable
    \/ ApplicationRecoveryBlocksNormalTuning(s)
    \/ "recoveryRecordPresent" \in s.evidence
    \/ s.journal \in {"Pending", "Malformed"}

RecoveryPending(s) ==
    \/ RecoveryRecordOutstanding(s)
    \/ {"recoveryContextEstablished", "recoveryInProgress"} \cap s.evidence # {}

RecoveryCannotProceed(s) ==
    /\ RecoveryPending(s)
    /\ \/ s.discovery = "Blocked"
       \/ s.comparison \in {"Unexpected", "InsufficientEvidence"}
       \/ s.journal = "Malformed"

RecoveryBlockedMitigationsVerified(s) ==
    /\ RecoveryCannotProceed(s)
    /\ "recoveryRecordRetained" \in s.evidence
    /\ \/ s.comparison # "Unexpected"
       \/ "unexpectedRecoveryValueNotOverwritten" \in s.evidence

RecoveryValuesVerified(s) ==
    /\ {"recoveryControllerAndTargetIdentitiesVerified",
        "recoveryStoppedStateVerified", "recoveryReadbackVerified"}
            \subseteq s.evidence
    /\ \/ /\ "temporaryValuesRestored" \in s.evidence
          /\ s.comparison \in {"LiveApplied", "VerifiedMixed"}
       \/ /\ "valuesAlreadyOriginal" \in s.evidence
          /\ s.comparison \in {"LiveOriginal", "VerifiedMixed"}

RecoveryComplete(s) ==
    /\ {"recoveryContextEstablished", "noRecoveryPending",
        "recoveryJournalCleared", "recoveryControllerReleased"}
            \subseteq s.evidence
    /\ "recoveryInProgress" \notin s.evidence
    /\ ~RecoveryRecordOutstanding(s)
    /\ RecoveryValuesVerified(s)

-----------------------------------------------------------------------------
(***************************************************************************)
(* Page and header.                                                        *)
(***************************************************************************)

RestoringOrPreparing(e) ==
    IF RestorationInProgressVerified(e) THEN "Restoring" ELSE "Preparing"

SelectBaseNormalPage(phase, e, selection) ==
    LET latched(page) == IF LatchReady(e) THEN page ELSE "Preparing"
        learned(page) == latched(IF "learnSignalComplete" \in e THEN page
                                 ELSE "AutomaticLearnSignal")
    IN  CASE phase = "Home" ->
                IF selection.sshSettingsExpanded THEN "HomeSshExpanded"
                ELSE IF ControllerReady(e) THEN "HomeReady"
                ELSE "HomeDisconnected"
          [] phase = "Preparing" -> "Preparing"
          [] phase \in {"Goal", "Group"} ->
                IF PreparationComplete(e) THEN phase ELSE "Preparing"
          [] phase = "AutomaticLearnSignal" ->
                IF "moduleCouldNotBeArmed" \in e THEN RestoringOrPreparing(e)
                ELSE latched(phase)
          [] phase \in {"AutomaticEnergy", "AutomaticTiming"} -> learned(phase)
          [] phase = "Manual" ->
                latched(IF selection.manualPanel = "Timing" THEN "ManualTiming"
                        ELSE "ManualEnergy")
          [] phase = "GroupResult" ->
                latched(IF "groupResultComplete" \in e THEN phase
                        ELSE "AutomaticLearnSignal")
          [] phase = "Restoring" -> RestoringOrPreparing(e)
          [] phase = "NextGroup" ->
                IF /\ PreparationComplete(e) /\ GroupRestorationVerified(e)
                   /\ {"recommendationRetained",
                       "noRecommendationAvailableVerified"} \cap e # {}
                THEN phase ELSE RestoringOrPreparing(e)
          [] phase = "Finished" ->
                IF FinishedVerified(e) THEN phase ELSE RestoringOrPreparing(e)

SupportsChannelComparison(page) ==
    page \in {"AutomaticLearnSignal", "AutomaticEnergy", "AutomaticTiming",
              "ManualEnergy", "ManualTiming"}

SelectNormalPage(phase, e, selection) ==
    LET page == SelectBaseNormalPage(phase, e, selection)
    IN  IF /\ selection.compareChannels /\ "comparisonAvailable" \in e
           /\ SupportsChannelComparison(page)
        THEN "CompareChannels" ELSE page

SelectPage(s, selection) ==
    LET e == s.evidence
    IN  IF RecoveryCannotProceed(s) THEN "RecoveryBlocked"
        ELSE IF OwnershipUncertaintyDetected(e) THEN "OwnershipUncertain"
        ELSE IF RecoveryComplete(s) THEN "Recovered"
        ELSE IF RecoveryPending(s) THEN "Recovery"
        ELSE IF ConflictDetected(e) THEN "ControllerConflict"
        ELSE IF "moduleCouldNotBeArmed" \in e THEN RestoringOrPreparing(e)
        ELSE IF RestorationInProgressVerified(e) THEN "Restoring"
        ELSE SelectNormalPage(s.phase, e, selection)

SelectHeader(s) ==
    LET e == s.evidence
    IN  IF RecoveryCannotProceed(s) THEN "RecoveryBlocked"
        ELSE IF OwnershipUncertaintyDetected(e) THEN "OwnershipUncertain"
        ELSE IF RecoveryComplete(s)
        THEN IF "controllerConnected" \in e THEN "Connected" ELSE "Unknown"
        ELSE IF RecoveryPending(s) THEN "RecoveryInProgress"
        ELSE IF ConflictDetected(e) THEN "ControllerConflict"
        ELSE IF ControlHeldAndVerified(e) /\ "controllerReleased" \notin e
        THEN "HasControl"
        ELSE IF "controllerConnected" \in e THEN "Connected"
        ELSE IF s.phase = "Home" THEN "NotConnected"
        ELSE "Unknown"

SelectDrawer(requested, e) ==
    LET needs == [Details |-> "detailsAvailable", Logs |-> "logsAvailable",
                  Help |-> "helpAvailable",
                  SettingChanges |-> "settingChangesVerified"]
    IN  IF requested # "None" /\ needs[requested] \in e THEN requested
        ELSE "None"

-----------------------------------------------------------------------------
(***************************************************************************)
(* Claims: what the page may say has been done, by the evidence alone.     *)
(***************************************************************************)
MakeClaims(s) ==
    LET e == s.evidence
        has(fact) == fact \in e
        prepared == {"liveRestoreSnapshotCaptured", "recoveryRecordDurable",
                     "acquisitionPrepared"} \subseteq e
    IN  [controllerEndpointVerified |-> ControllerEndpointVerified(e),
         targetModuleVerified |-> TargetModuleVerified(e),
         controllerReady |-> ControllerReady(e),
         controlHeldAndVerified |-> ControlHeldAndVerified(e),
         recoveryRecordDurable |->
            has("recoveryRecordDurable") \/ s.discovery = "PendingV5",
         acquisitionPrepared |-> prepared,
         acquisitionLatchReady |-> prepared /\ has("acquisitionLatchReady"),
         currentAppliedValuesVerified |->
            ControlHeldAndVerified(e) /\ has("currentAppliedValuesVerified"),
         recommendationVerified |->
            has("groupResultComplete") /\ has("recommendationVerified"),
         restorationInProgress |-> RestorationInProgressVerified(e),
         groupCapturedStateRestored |-> GroupRestorationVerified(e),
         recommendationRetained |->
            GroupRestorationVerified(e) /\ has("recommendationRetained"),
         sessionCapturedStateRestored |-> SessionRestorationVerified(e),
         controllerReleased |->
            SessionRestorationVerified(e) /\ has("controllerReleased"),
         outputCreatedOrDeclined |->
            has("outputCreated") \/ has("outputDeliberatelyDeclined"),
         noControlTaken |-> ConflictDetected(e) /\ has("noControlTaken"),
         noVmeOrModuleSettingWritesSent |->
            ConflictDetected(e) /\ has("noVmeOrModuleSettingWritesSent"),
         controlsFrozen |->
            OwnershipUncertaintyDetected(e) /\ has("controlsFrozen"),
         noBlindRollbackOrCleanupSent |->
            OwnershipUncertaintyDetected(e)
            /\ has("noBlindRollbackOrCleanupSent"),
         unexpectedRecoveryValueNotOverwritten |->
            s.comparison = "Unexpected"
            /\ has("unexpectedRecoveryValueNotOverwritten"),
         recoveryRecordRetained |->
            has("recoveryRecordRetained")
            \/ ApplicationRecoveryHasRetainedEvidence(s),
         recoveryValuesRestoredOrOriginal |-> RecoveryValuesVerified(s),
         recoveryJournalCleared |->
            /\ RecoveryValuesVerified(s) /\ ~RecoveryRecordOutstanding(s)
            /\ has("noRecoveryPending") /\ has("recoveryJournalCleared"),
         recoveryControllerReleased |-> RecoveryComplete(s)]

-----------------------------------------------------------------------------
(***************************************************************************)
(* Actions.                                                                *)
(***************************************************************************)
AddDrawerActions(drawer, e) ==
    {a \in {"OpenDetails", "OpenLogs", "OpenHelp", "CloseDrawer"} :
        \/ a = "OpenDetails" /\ "detailsAvailable" \in e
        \/ a = "OpenLogs" /\ "logsAvailable" \in e
        \/ a = "OpenHelp" /\ "helpAvailable" \in e
        \/ a = "CloseDrawer" /\ drawer # "None"}

AddNavigationActions(page, e) ==
    IF \/ "primaryNavigationAvailable" \notin e
       \/ page \in {"Restoring", "Finished", "ControllerConflict",
                    "OwnershipUncertain", "Recovery", "RecoveryBlocked",
                    "Recovered"}
    THEN {}
    ELSE IF {"controlHeld", "restorationRequired", "restorationInProgress"}
                \cap e # {}
    THEN IF RestorationCanStart(e) THEN {"NavigateHome"} ELSE {}
    ELSE IF "navigationAwayVerifiedSafe" \notin e THEN {}
    ELSE {"NavigateHome"}
         \cup IF ControllerReady(e) THEN {"NavigateTune"} ELSE {}

AddHomeActions(e, expanded) ==
    LET idle == "operationIdle" \in e
    IN  {a \in {"Connect", "Check", "ExpandSshSettings",
                "CollapseSshSettings", "StartTuning"} :
            /\ idle
            /\ \/ a = "Connect" /\ "endpointInputsValid" \in e
               \/ /\ a = "Check" /\ ControllerEndpointVerified(e)
                  /\ "targetModuleAddressValid" \in e
               \/ /\ a = (IF expanded THEN "CollapseSshSettings"
                          ELSE "ExpandSshSettings")
                  /\ "endpointEditingAllowed" \in e
               \/ /\ a = "StartTuning" /\ ControllerReady(e)
                  /\ "noRecoveryPending" \in e}

\* Mutant: an edit is committed although the controls are frozen.
ManualActionsUnfrozen(e, offerComparison) ==
    IF {"manualControlsAvailable", "manualEditValid"} \subseteq e
    THEN {"CommitManualEdit"} ELSE {}

AddManualActions(e, offerComparison) ==
    LET manual == "manualControlsAvailable" \in e /\ CurrentOwnershipAvailable(e)
        applied == "currentAppliedValuesVerified" \in e
    IN  {a \in {"SelectEnergyControls", "SelectTimingControls",
                "CommitManualEdit", "UndoManualChange", "RedoManualChange",
                "ReturnToOriginal", "FinishManual", "CompareChannels"} :
            \/ /\ manual
               /\ \/ a \in {"SelectEnergyControls", "SelectTimingControls"}
                  \/ a = "CommitManualEdit" /\ "manualEditValid" \in e /\ applied
                  \/ a = "UndoManualChange" /\ "undoAvailable" \in e
                  \/ a = "RedoManualChange" /\ "redoAvailable" \in e
                  \/ a = "ReturnToOriginal" /\ "workingDiffersFromOriginal" \in e
                  \/ a = "FinishManual" /\ applied
            \/ /\ a = "CompareChannels" /\ offerComparison
               /\ "comparisonAvailable" \in e}

\* Offers(c, a) is the actions a under condition c.
Offers(condition, actions) == IF condition THEN actions ELSE {}

AddPageActions(page, s, selection) ==
    LET e == s.evidence
        idle == "operationIdle" \in e
        restore == Offers(RestorationCanStart(e), {"StopAndRestore"})
        chosen == /\ {"goalSelected", "groupSelectionValid",
                      "channelSelectionValid"} \subseteq e
                  /\ CurrentOwnershipAvailable(e)
    IN  CASE page \in {"HomeDisconnected", "HomeSshExpanded", "HomeReady"} ->
                AddHomeActions(e, selection.sshSettingsExpanded)
          [] page = "Preparing" -> restore
          [] page = "Goal" ->
                restore \cup Offers(
                    PreparationComplete(e) /\ CurrentOwnershipAvailable(e),
                    {"ChooseEnergy", "ChooseTiming", "ChooseBoth",
                     "ChooseManual"})
          [] page \in {"Group", "NextGroup"} ->
                restore
                \cup Offers(chosen /\ "automaticPathSelected" \in e,
                            {"BeginAutomatic"})
                \cup Offers(chosen /\ "manualPathSelected" \in e,
                            {"BeginManual"})
          [] page \in {"AutomaticLearnSignal", "AutomaticEnergy",
                       "AutomaticTiming"} ->
                restore \cup Offers("comparisonAvailable" \in e,
                                    {"CompareChannels"})
          [] page \in {"ManualEnergy", "ManualTiming"} ->
                restore \cup AddManualActions(e, TRUE)
          [] page = "CompareChannels" ->
                restore
                \cup (IF s.phase = "Manual" THEN AddManualActions(e, FALSE)
                      ELSE {})
                \cup Offers("comparisonAvailable" \in e,
                            {"ReturnFromComparison"})
          [] page = "GroupResult" ->
                restore
                \cup Offers("settingChangesVerified" \in e,
                            {"ReviewSettingChanges"})
                \cup Offers(ResultExitCanStart(e),
                            {"TuneAnotherGroup", "SaveAndFinish"})
          [] page = "Finished" -> Offers(FinishedVerified(e), {"ReturnHome"})
          [] page = "ControllerConflict" ->
                Offers(/\ ConflictMitigationsVerified(e) /\ idle
                       /\ "currentConnectionRequestValid" \in e,
                       {"CheckAgain"})
                \cup Offers(/\ ConflictMitigationsVerified(e)
                            /\ {"noRecoveryPending",
                                "navigationAwayVerifiedSafe"} \subseteq e,
                            {"ReturnHome"})
          [] page = "OwnershipUncertain" ->
                Offers(/\ OwnershipUncertaintyMitigationsVerified(e) /\ idle
                       /\ {"reconnectAvailable", "recoveryRecordDurable"}
                              \subseteq e,
                       {"ReconnectAndVerify"})
          [] page = "RecoveryBlocked" ->
                Offers(/\ RecoveryBlockedMitigationsVerified(s) /\ idle
                       /\ "guardedRecoveryRetryAvailable" \in e,
                       {"RetryVerification"})
          [] page = "Recovered" -> Offers(RecoveryComplete(s), {"ContinueToHome"})
          [] page \in {"Restoring", "Recovery"} -> {}

PresentGui(s, selection) ==
    LET page == SelectPage(s, selection)
        drawer == SelectDrawer(selection.drawer, s.evidence)
    IN  [page |-> page, drawer |-> drawer, header |-> SelectHeader(s),
         claims |-> MakeClaims(s),
         actions |-> AddDrawerActions(drawer, s.evidence)
                     \cup AddNavigationActions(page, s.evidence)
                     \cup AddPageActions(page, s, selection)]

-----------------------------------------------------------------------------
(***************************************************************************)
(* What PresentGui may never show.  The presenter is written to need no    *)
(* consistency of the evidence it is given (TuningSessionState.h: a        *)
(* requested phase is not evidence that its work completed), so snapshots  *)
(* change here one fact at a time, from the typical situations of a        *)
(* session on, without regard to whether the facts fit together.           *)
(***************************************************************************)

CONSTANTS Scenes,   \* the situations to start from
          MaxDrift  \* bound on the changes after that

VARIABLES snapshot, selection, drift

vars == <<snapshot, selection, drift>>

NoSelection == [drawer |-> "None", sshSettingsExpanded |-> FALSE,
                manualPanel |-> "Energy", compareChannels |-> FALSE]

ScenesAssumption ==
    Scenes \subseteq Snapshots /\ NoSelection \in Selections /\ MaxDrift \in Nat

Init == snapshot \in Scenes /\ selection = NoSelection /\ drift = 0

Changes == drift < MaxDrift /\ drift' = drift + 1 /\ UNCHANGED selection

LearnFact ==
    /\ Changes
    /\ \E f \in Facts \ snapshot.evidence :
         snapshot' = [snapshot EXCEPT !.evidence = @ \cup {f}]

LoseFact ==
    /\ Changes
    /\ \E f \in snapshot.evidence :
         snapshot' = [snapshot EXCEPT !.evidence = @ \ {f}]

ChangePhase ==
    /\ Changes
    /\ \E p \in Phases : snapshot' = [snapshot EXCEPT !.phase = p]

ChangeRecovery ==
    /\ Changes
    /\ \/ \E c \in Comparisons : snapshot' = [snapshot EXCEPT !.comparison = c]
       \/ \E d \in Discoveries : snapshot' = [snapshot EXCEPT !.discovery = d]
       \/ \E j \in JournalStatuses : snapshot' = [snapshot EXCEPT !.journal = j]
       \/ snapshot' = [snapshot EXCEPT !.recordAvailable = ~@]
       \/ snapshot' = [snapshot EXCEPT !.recordPaths = ~@]

\* The user selects a panel, the comparison, the SSH fields or a drawer.
Select ==
    /\ drift < MaxDrift /\ drift' = drift + 1
    /\ \/ \E d \in Drawers : selection' = [selection EXCEPT !.drawer = d]
       \/ selection' = [selection EXCEPT !.sshSettingsExpanded = ~@]
       \/ \E p \in {"Energy", "Timing"} :
             selection' = [selection EXCEPT !.manualPanel = p]
       \/ selection' = [selection EXCEPT !.compareChannels = ~@]
    /\ UNCHANGED snapshot

Next == LearnFact \/ LoseFact \/ ChangePhase \/ ChangeRecovery \/ Select

Spec == Init /\ [][Next]_vars

-----------------------------------------------------------------------------
View == PresentGui(snapshot, selection)

Edits == {"ChooseEnergy", "ChooseTiming", "ChooseBoth", "ChooseManual",
          "BeginAutomatic", "BeginManual", "CommitManualEdit",
          "UndoManualChange", "RedoManualChange", "ReturnToOriginal",
          "FinishManual"}
Exits == {"TuneAnotherGroup", "SaveAndFinish"}

\* Nothing that changes the module is offered unless FIDGET holds verified
\* control, the original settings are captured and their record is durable,
\* and then the header says so; edits are not offered while the controls are
\* frozen, a restoration runs or another operation is under way
\* (AddPageActions, AddManualActions, ResultExitCanStart).
WritesNeedControl ==
    /\ View.actions \cap (Edits \cup Exits) # {} =>
         /\ ControlHeldAndVerified(snapshot.evidence)
         /\ {"liveRestoreSnapshotCaptured", "recoveryRecordDurable"}
                \subseteq snapshot.evidence
         /\ View.header = "HasControl"
    /\ View.actions \cap Edits # {} =>
         /\ "operationIdle" \in snapshot.evidence
         /\ {"controlsFrozen", "restorationInProgress"}
                \cap snapshot.evidence = {}

\* A record of changed settings, wherever it is known from, blocks all
\* ordinary work: no connection, no check, no session and no edit is offered
\* until the recovery is over (PresentGui, RecoveryRecordOutstanding).
NoTuningOverRecovery ==
    (\/ snapshot.recordAvailable
     \/ snapshot.discovery \in {"PendingV5", "Blocked"}
     \/ snapshot.journal \in {"Pending", "Malformed"}
     \/ "recoveryRecordPresent" \in snapshot.evidence)
    => View.actions \cap (Edits \cup Exits \cup
           {"Connect", "Check", "StartTuning", "NavigateTune", "NavigateHome",
            "ReturnHome", "CheckAgain", "ContinueToHome"}) = {}

\* Whoever may leave leaves nothing behind: the session was restored and
\* released, or a recovery was, or no control was taken, or the way home
\* leads through a restoration that can start, or nothing is held
\* (AddNavigationActions, AddPageActions).
LeavingIsSafe ==
    View.actions \cap {"NavigateHome", "NavigateTune", "ReturnHome",
                       "ContinueToHome"} # {} =>
        \/ View.claims.sessionCapturedStateRestored
           /\ View.claims.controllerReleased
        \/ View.claims.recoveryControllerReleased
           /\ View.claims.recoveryJournalCleared
        \/ View.claims.noControlTaken
           /\ View.claims.noVmeOrModuleSettingWritesSent
        \/ RestorationCanStart(snapshot.evidence)
        \/ {"controlHeld", "restorationRequired", "restorationInProgress"}
               \cap snapshot.evidence = {}

\* As long as changed settings can be put back and are not being put back
\* already, the user can ask for it on every page of a session, also after
\* the module could not be armed (AddPageActions).
RestoreIsOffered ==
    (/\ {"controlHeld", "ownershipFingerprintVerified",
         "liveRestoreSnapshotCaptured", "recoveryRecordDurable",
         "restorationRequired", "cancelAndRestoreAvailable"}
            \subseteq snapshot.evidence
     /\ {"controllerReleased", "recoveryControllerReleased", "controlsFrozen",
         "activeControllerUseDetected", "ownershipUncertain",
         "restorationInProgress"} \cap snapshot.evidence = {}
     /\ ~RecoveryPending(snapshot)
     /\ snapshot.phase # "Home")
    => "StopAndRestore" \in View.actions

\* The header never contradicts the page: the four states of a lost, foreign
\* or recovering controller are shown by both or by neither, and a page that
\* says the work is over is never under a header that says FIDGET still has
\* control (SelectHeader, PresentGui).
HeaderFitsPage ==
    /\ (View.page = "RecoveryBlocked") = (View.header = "RecoveryBlocked")
    /\ (View.page = "OwnershipUncertain") = (View.header = "OwnershipUncertain")
    /\ (View.page = "Recovery") = (View.header = "RecoveryInProgress")
    /\ (View.page = "ControllerConflict") = (View.header = "ControllerConflict")
    /\ View.page \in {"Finished", "Recovered"} => View.header # "HasControl"
=============================================================================

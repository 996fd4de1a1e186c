------------------------------ MODULE MCTuning ------------------------------
(***************************************************************************)
(* The way to a tuning session and the workspace it starts from, in small  *)
(* instances: naming, probing and opening a target, preparing the session, *)
(* the pages the user is shown, and the MVME workspace that is read and    *)
(* written back.  A behaviour is one of a single component: part names it, *)
(* and the variables of the others rest.                                   *)
(***************************************************************************)
EXTENDS Integers, Sequences, TLC

CONSTANTS
    e1, e2, eBad, t1, t2, tBad, a1, None,
    Endpoints, ValidEndpoints, ModuleTexts, Addresses, AddressOf, Devices,
    Entries, EditInputs, MaxCommands, MaxQueue, MaxMvme, MaxFaults,
    QuadCount, MaxValue, BankValues, NoRecord, ForeignRecord, MaxFailures,
    MaxDrift,
    MaxLines, MaxScripts, Untouched,
    Ids, OtherIds, MaxAttempts,
    MaxEvents, MaxModules, Versions

VARIABLES
    part,
    target, workspace, evidence, prefs, queue, worker, active, cancelled,
    tokens, directory, discovery, daq, acq, submitted, faults, mvme, open,
    looked,
    hw, journal, durable, pc, cap, result, cancel, intruder, failed,
    intrusions, original,
    snapshot, selection, drift,
    phase, ev, before, tables, line, entries, module, moduleBefore,
    text, found, scripts, exported, version, events

session == <<target, workspace, evidence, prefs, queue, worker, active,
             cancelled, tokens, directory, discovery, daq, acq, submitted,
             faults, mvme, open, looked>>
preparation == <<hw, journal, durable, pc, cap, result, cancel, intruder,
                 failed, intrusions, original>>
pages == <<snapshot, selection, drift>>
script == <<phase, ev, before, tables, line, entries, module, moduleBefore>>
document == <<text, found, scripts, exported, version, events>>
vars == <<part, session, preparation, pages, script, document>>

----------------------------------------------------------------------------
\* Two spellings of one address, a text that is no address, and an endpoint
\* without a supported controller.
TheAddresses == (t1 :> a1) @@ (t2 :> a1) @@ (tBad :> None)
TheDevices == {e1, e2} \X {a1}
TheInputs == {e1} \X {t1, t2} \cup {<<e2, t1>>}
TheEdits == {[endpoint |-> i[1], text |-> i[2]] : i \in TheInputs}
Session == INSTANCE TuningSession
\* A session without disturbances; one where accesses and disk calls fail,
\* MVME starts or stops a run and the service is shut down; and one whose
\* directory may hold two records.
Situations == {"session", "disturbed", "recovery"}
CommandsIn == [session |-> 6, disturbed |-> 4, recovery |-> 3]

Preparation == INSTANCE PrepareTuningSession WITH
    mvme <- intruder, faults <- failed, MaxFaults <- MaxFailures

----------------------------------------------------------------------------
\* The situations of a session with a few facts more or less.
Scene(name, comparison, facts) ==
    [evidence |-> facts, phase |-> name, comparison |-> comparison,
     discovery |-> "Empty", recordPaths |-> FALSE, recordAvailable |-> FALSE,
     journal |-> "None"]

Verified ==
    {"endpointInputsValid", "targetModuleAddressValid", "controllerConnected",
     "controllerIdentityVerified", "controllerVerificationFresh",
     "targetIdentityAndFirmwareVerified", "controllerIdleVerified",
     "targetAcquisitionStoppedVerified", "targetVerificationFresh",
     "connectionVerificationFresh", "noRecoveryPending", "operationIdle",
     "endpointEditingAllowed", "helpAvailable", "primaryNavigationAvailable",
     "currentConnectionRequestValid"}
Away == Verified \cup {"navigationAwayVerifiedSafe"}
Held ==
    Verified \cup
    {"controlHeld", "ownershipFingerprintVerified",
     "liveRestoreSnapshotCaptured", "recoveryRecordDurable",
     "workspaceStartingSettingsResolved", "acquisitionPrepared"}
Tuning ==
    Held \cup
    {"acquisitionLatchReady", "restorationRequired",
     "cancelAndRestoreAvailable", "goalSelected", "groupSelectionValid",
     "channelSelectionValid", "learnSignalComplete", "comparisonAvailable",
     "manualControlsAvailable", "manualEditValid", "undoAvailable",
     "currentAppliedValuesVerified"}
Result == Tuning \cup {"groupResultComplete", "resultExitAvailable",
                       "settingChangesVerified", "recommendationVerified"}
Between == Held \cup {"groupCapturedStateRestored", "goalSelected",
                      "groupRestorationReadbackVerified",
                      "recommendationRetained", "groupSelectionValid",
                      "channelSelectionValid", "automaticPathSelected"}
Over == {"sessionCapturedStateRestored", "sessionRestorationReadbackVerified",
         "controllerReleased", "outputCreated", "primaryNavigationAvailable"}
Conflict == {"activeControllerUseDetected", "noControlTaken", "operationIdle",
             "noVmeOrModuleSettingWritesSent", "noRecoveryPending",
             "currentConnectionRequestValid", "navigationAwayVerifiedSafe"}
Recovered ==
    {"recoveryContextEstablished", "noRecoveryPending",
     "recoveryJournalCleared", "recoveryControllerReleased",
     "recoveryControllerAndTargetIdentitiesVerified",
     "recoveryStoppedStateVerified", "recoveryReadbackVerified",
     "temporaryValuesRestored"}

Pages == INSTANCE GuiPresentation WITH
    Scenes <-
       {Scene("Home", "NotCompared", Away), Scene("Goal", "NotCompared", Held),
        Scene("Manual", "NotCompared", Tuning),
        Scene("AutomaticLearnSignal", "NotCompared", Tuning),
        Scene("GroupResult", "NotCompared", Result),
        Scene("NextGroup", "NotCompared", Between),
        Scene("Finished", "NotCompared", Over),
        Scene("Home", "NotCompared", Conflict),
        Scene("Home", "LiveApplied", Recovered)}

----------------------------------------------------------------------------
\* Two quads, two settings, three variables: y is bound to ${x} and z to
\* ${y}, so that z needs more expansions than MVME makes.
Word(kind, n, name) == [kind |-> kind, n |-> n, name |-> name]
Number(n) == Word("number", n, None)
Variable(x) == Word("variable", 0, x)
Expression(x) == Word("expression", 0, x)
Script == INSTANCE MvmeInitScript WITH
    SelectorRegister <- 10, Settings <- {11, 12}, Base <- 100, MaxWord <- 15,
    Writes <-
       ({Number(10)} \X {Number(1), Number(2), Number(3), Variable("y")})
       \cup ({Number(11)} \X {Number(1), Number(20), Variable("y"),
                              Variable("z"), Expression("x"),
                              Word("text", 0, None)})
       \cup ({Number(12), Number(13)} \X {Number(1)}),
    Sets <- {"x"} \X {Number(1), Variable("y")},
    ScriptTables <- {<<>>, [x |-> Number(1)]},
    OuterTables <- <<[y |-> Variable("x")], [x |-> Number(0)],
                     [x |-> Number(2), z |-> Variable("y")]>>,
    scripts <- entries, mvme <- module, mvmeBefore <- moduleBefore

\* Longer scripts of plain lines: a write behind a test may go to a quad that
\* the lines before the test have set, left and not selected again.
Conditional == INSTANCE MvmeInitScript WITH
    SelectorRegister <- 10, Settings <- {11}, Base <- 100, MaxWord <- 15,
    Writes <- {Number(10)} \X {Number(1)} \cup {Number(11)} \X {Number(1), Number(2)},
    Sets <- {}, ScriptTables <- {<<>>}, OuterTables <- <<>>,
    MaxLines <- 6, MaxScripts <- 1,
    scripts <- entries, mvme <- module, mvmeBefore <- moduleBefore

Arithmetic == INSTANCE InitScriptText WITH
    Alphabet <- {"0", "2", "+", "-", "*", "/", "(", ")"}, MaxLength <- 5
Comments == INSTANCE InitScriptText WITH
    Alphabet <- {"#", "/", "*", "n", "x"}, MaxLength <- 6
Words == INSTANCE InitScriptText WITH
    Alphabet <- {" ", "\"", "\\", "$", "(", ")", "x"}, MaxLength <- 5

\* User scripts that set a single value, a complete pair, half a pair, and a
\* pair that is not valid.
Sets(values) ==
    [c \in (0 .. QuadCount - 1) \X {"gain", "timingFilter", "shapingTime"} |->
        IF c \in DOMAIN values THEN values[c] ELSE None]
Export == INSTANCE MvmeWorkspaceExport WITH
    target <- found,
    Effects <-
       {Sets(<<0, "gain">> :> 1),
        Sets((<<0, "timingFilter">> :> 1) @@ (<<0, "shapingTime">> :> 1)),
        Sets((<<0, "timingFilter">> :> 0) @@ (<<0, "shapingTime">> :> 0)
             @@ (<<1, "gain">> :> 0)),
        Sets(<<0, "shapingTime">> :> 0), Sets(<<>>)}
Lookup == INSTANCE MvmeWorkspace

ASSUME TuningInstances ==
    /\ Session!TuningSessionAssumption
    /\ Preparation!PrepareAssumption /\ Pages!ScenesAssumption
    /\ Export!ExportAssumption

----------------------------------------------------------------------------
\* The variables of a component whose part it is not.
SessionRests ==
    /\ target = 0 /\ workspace = 0 /\ evidence = 0 /\ prefs = 0 /\ queue = 0
    /\ worker = 0 /\ active = 0 /\ cancelled = 0 /\ tokens = 0 /\ directory = 0
    /\ discovery = 0 /\ daq = 0 /\ acq = 0 /\ submitted = 0 /\ faults = 0
    /\ mvme = 0 /\ open = 0 /\ looked = 0
PreparationRests ==
    /\ hw = 0 /\ journal = 0 /\ durable = 0 /\ pc = 0 /\ cap = 0 /\ result = 0
    /\ cancel = 0 /\ intruder = 0 /\ failed = 0 /\ intrusions = 0 /\ original = 0
PagesRest == snapshot = 0 /\ selection = 0 /\ drift = 0
ScriptRests ==
    /\ phase = 0 /\ ev = 0 /\ before = 0 /\ tables = 0 /\ line = 0
    /\ entries = 0 /\ module = 0 /\ moduleBefore = 0
TextRests == text = 0
ExportRests == found = 0 /\ scripts = 0 /\ exported = 0
LookupRests == version = 0 /\ events = 0

Init ==
    /\ part \in Situations \cup
         {"preparation", "pages", "script", "conditional", "arithmetic",
          "comments", "words", "export", "lookup"}
    /\ IF part \in Situations
         THEN /\ Session!Init
              /\ part = "recovery" \/ \A e \in Entries : directory[e] = "absent"
         ELSE SessionRests
    /\ IF part = "preparation" THEN Preparation!Init ELSE PreparationRests
    /\ IF part = "pages" THEN Pages!Init ELSE PagesRest
    /\ CASE part = "script" -> Script!Init
         [] part = "conditional" -> Conditional!Init
         [] OTHER -> ScriptRests
    /\ CASE part = "arithmetic" -> Arithmetic!Init
         [] part = "comments" -> Comments!Init
         [] part = "words" -> Words!Init
         [] OTHER -> TextRests
    /\ IF part = "export" THEN Export!Init ELSE ExportRests
    /\ IF part = "lookup" THEN Lookup!Init ELSE LookupRests

SessionSteps ==
    /\ part \in Situations /\ Session!Next
    /\ submitted' <= CommandsIn[part]
    /\ part = "disturbed" \/ UNCHANGED <<faults, mvme, open>>
    /\ UNCHANGED <<part, preparation, pages, script, document>>
PreparationSteps ==
    /\ part = "preparation" /\ Preparation!Next
    /\ UNCHANGED <<part, session, pages, script, document>>
PagesSteps ==
    /\ part = "pages" /\ Pages!Next
    /\ UNCHANGED <<part, session, preparation, script, document>>
ScriptSteps ==
    /\ \/ part = "script" /\ Script!Next
       \/ part = "conditional" /\ Conditional!Next
    /\ UNCHANGED <<part, session, preparation, pages, document>>
TextSteps ==
    /\ \/ part = "arithmetic" /\ Arithmetic!Next
       \/ part = "comments" /\ Comments!Next
       \/ part = "words" /\ Words!Next
    /\ UNCHANGED <<part, session, preparation, pages, script, found, scripts,
                   exported, version, events>>
ExportSteps ==
    /\ part = "export" /\ Export!Next
    /\ UNCHANGED <<part, session, preparation, pages, script, text, version,
                   events>>
LookupSteps ==
    /\ part = "lookup" /\ Lookup!Next
    /\ UNCHANGED <<part, session, preparation, pages, script, text, found,
                   scripts, exported>>

Next == \/ SessionSteps \/ PreparationSteps \/ PagesSteps \/ ScriptSteps
        \/ TextSteps \/ ExportSteps \/ LookupSteps

Spec == Init /\ [][Next]_vars

----------------------------------------------------------------------------
\* A session is offered only for a target that was found idle since the
\* fields last named it, never over a recovery record that was there at the
\* start, and with a workspace evaluated for this target; a connection is
\* withdrawn when a later look does not find the controller idle
\* (OpenTargetSession, EditTarget, ProbeTarget).
SessionIsVerified ==
    part \in Situations =>
        /\ Session!ReadyIsVerified /\ Session!FreshIsLastLook
        /\ Session!WorkspaceMatchesTarget /\ Session!ReadyMeansNothingToRecover

\* While FIDGET has moved the selector, a record that asks for it to be
\* parked survives even a power loss; the captured values are the ones the
\* module had; at most one write meets a run MVME started meanwhile; and the
\* reported phase is the one on the disk (PrepareTuningSessionOperation.cpp).
PreparationIsJournaled ==
    part = "preparation" =>
        /\ Preparation!DisplacedIsJournaled /\ Preparation!SnapshotIsOriginal
        /\ Preparation!OneIntrusion /\ Preparation!ReportMatchesDisk

\* The preferences name a target as verified only when a check found it idle,
\* and a record of another session is never replaced by a preparation
\* (ProbeTarget, CreateTunerRecoveryJournalExclusive).
OnlyVerifiedIsSaved ==
    [][/\ part \in Situations => Session!PreferencesNameVerified
       /\ part = "preparation" => Preparation!ForeignRecordKept]_vars

\* Whatever evidence comes and goes, no page offers a change of the module
\* without verified control and a durable record, nor ordinary work over a
\* record; a way out leaves nothing behind; a restoration that can start can
\* be asked for; and header and page agree (GuiPresentation.cpp PresentGui).
PagesAreSafe ==
    part = "pages" =>
        /\ Pages!WritesNeedControl /\ Pages!NoTuningOverRecovery
        /\ Pages!LeavingIsSafe /\ Pages!RestoreIsOffered /\ Pages!HeaderFitsPage

\* What FIDGET reads from a workspace is what MVME does with it: the module
\* is the only one MVME runs at the address, every value the evaluator calls
\* definite is the one MVME leaves there, and comments, words and arithmetic
\* are read as MVME reads them (FindEnabledMdpp32ScpTarget, Evaluator,
\* StripComments, SplitAtomicParts, ArithmeticParser).
WorkspaceIsRead ==
    /\ part = "lookup" => Lookup!FoundIsTheOnlyOne /\ Lookup!TheOnlyOneIsFound
    /\ part = "script" => Script!DefiniteValuesAreMvmes /\ Script!UsableIsComplete
    /\ part = "conditional" => Conditional!DefiniteValuesAreMvmes
    /\ part = "comments" => Comments!CommentsLeaveBlanks
    /\ part = "words" => Words!PartsAreAtomic
    /\ part = "arithmetic" => Arithmetic!ParserComputesMeaning

\* A workspace FIDGET wrote means what the one it read meant: the same values
\* from one FIDGET script with an identifier of its own, and the scripts it
\* generates leave exactly their values without an invalid pair on the way
\* (ExportFw2051MvmeWorkspaceCopy, GenerateFw2051MvmeScript).
WorkspaceKeepsMeaning ==
    part = "export" =>
        /\ Export!ExportKeepsMeaning /\ Export!FidgetIdIsUnique
        /\ Export!LiteralScriptIsSafe /\ Export!SettingsScriptReproducesProfile
=============================================================================

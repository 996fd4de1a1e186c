----------------------------- MODULE MCStorage -----------------------------
(***************************************************************************)
(* Everything FIDGET keeps on disk, in small instances: the protocol that  *)
(* installs a recovery journal, the text of its two formats, the           *)
(* application's directories and preferences, and the files the user asks  *)
(* for.  The components share nothing, so a behaviour is one of a single   *)
(* component: part names it, and the variables of the others rest.         *)
(***************************************************************************)
EXTENDS Naturals, TLC

CONSTANTS
    Processes, MaxSaves, Torn, None, NoFile,
    MaximumAtomicJournalCollisions, MaximumTemporaryCollisions,
    Modules, Target, Damaged, val1, val2, val3, s0, s1, s2,
    Locations, Identities, TunerRecoveryV5MaximumDeviationCount,
    Inputs, MaxFaults,
    one, two, three

VARIABLES
    part,
    history, safe, staging, job, next,
    record, text, written, refused, live, initial, pending,
    dirs, file, revealed, tmp, proc, saved, losses, saves, faults,
    out, source, areas, draft, content, saver

journalFile == <<history, safe, staging, job, next>>
recordText == <<record, refused>>
v5Module == <<live, initial, pending>>
journalText == <<text, written>>
preferences == <<dirs, file, revealed, tmp, proc, saved, losses, saves, faults>>
exports == <<out, source, areas, draft, content, saver>>
vars == <<part, journalFile, recordText, v5Module, journalText, preferences,
          exports>>

Journal == INSTANCE RecoveryJournalFile
Record == INSTANCE RecoveryRecord WITH Values <- {val1, val2}, Sources <- {s0, s1, s2}
V5 == INSTANCE RecoveryJournalV5 WITH Values <- {val1, val2, val3}
Storage == INSTANCE ApplicationStorage WITH MaxSaves <- 2

\* Three copies of a workspace to one destination, one with permission to
\* replace a file there.
Copy == INSTANCE ExportFile WITH
    Savers <- {one, two, three}, Kind <- [s \in {one, two, three} |-> "copy"],
    Permission <- [s \in {one, two, three} |-> s = two],
    Goals <- {"out", "source"}, Areas <- 0 .. 1,
    staging <- areas, tmp <- draft
\* An export of the command line beside a copy.
Export == INSTANCE ExportFile WITH
    Savers <- {one, two}, Kind <- (one :> "export") @@ (two :> "copy"),
    Permission <- [s \in {one, two} |-> FALSE],
    Goals <- {"out"}, Areas <- 0 .. 1,
    staging <- areas, tmp <- draft

ASSUME StorageInstances ==
    /\ Journal!FileAssumption /\ Record!RecordAssumption /\ V5!V5Assumption
    /\ Storage!StorageAssumption
    /\ Copy!ExportAssumption /\ Export!ExportAssumption

\* The variables of a component whose part it is not.
RecordRests == record = None /\ refused = FALSE
V5Rests == live = None /\ initial = None /\ pending = FALSE
TextRests == text = None /\ written = None
ExportsRest ==
    /\ out = None /\ source = None /\ areas = None /\ draft = None
    /\ content = None /\ saver = None

Init ==
    /\ Journal!Init /\ Storage!Init
    /\ \/ /\ part \in {"journal", "preferences"}
          /\ RecordRests /\ V5Rests /\ TextRests /\ ExportsRest
       \/ part = "record" /\ Record!Init /\ V5Rests /\ ExportsRest
       \/ part = "v5" /\ V5!Init /\ RecordRests /\ ExportsRest
       \/ /\ RecordRests /\ V5Rests /\ TextRests
          /\ \/ part = "copy" /\ Copy!Init
             \/ part = "export" /\ Export!Init

JournalFileSteps ==
    /\ part = "journal" /\ Journal!Next
    /\ UNCHANGED <<part, recordText, v5Module, journalText, preferences, exports>>
RecordTextSteps ==
    /\ part = "record" /\ Record!Next
    /\ UNCHANGED <<part, journalFile, v5Module, preferences, exports>>
RecordV5Steps ==
    /\ part = "v5" /\ V5!Next
    /\ UNCHANGED <<part, journalFile, recordText, preferences, exports>>
PreferencesSteps ==
    /\ part = "preferences" /\ Storage!Next
    /\ UNCHANGED <<part, journalFile, recordText, v5Module, journalText, exports>>
ExportSteps ==
    /\ \/ part = "copy" /\ Copy!Next
       \/ part = "export" /\ Export!Next
    /\ UNCHANGED <<part, journalFile, recordText, v5Module, journalText,
                   preferences>>

Next == \/ JournalFileSteps \/ RecordTextSteps \/ RecordV5Steps
        \/ PreferencesSteps \/ ExportSteps

Spec == Init /\ [][Next]_vars

----------------------------------------------------------------------------
\* The journal file is at no time, and after no power loss, anything but
\* absent or a whole record; what a save reported as done survives a power
\* loss; two saves never work in the same staging directory
\* (InstallSerializedJournalAtomically).
JournalSurvives ==
    part = "journal" =>
        Journal!NeverTorn /\ Journal!SuccessIsDurable /\ Journal!WorkspacesDisjoint

\* The file protocol implements the atomic journal its callers rely on, and
\* an exclusive creation never replaces a record, also when two processes
\* have both found the destination free (CreateTunerRecoveryJournalExclusive).
IsAtomicJournal == Journal!IsAtomicJournal /\ Journal!ExclusiveNeverReplaces

\* In both formats the next process loads exactly the record that was saved
\* last, and refuses a damaged one: also when the damage is a line or a
\* section of another save, well formed by itself (ParseTunerRecoveryJournal,
\* ParseTunerRecoveryJournalV5).
RecordsAreExact ==
    /\ part = "record" =>
          Record!LoadReturnsWhatWasSaved /\ Record!DamageIsRefused
    /\ part = "v5" => V5!V5LoadReturnsWhatWasSaved /\ V5!V5DamageIsRefused

\* Whenever a session stops, its version 5 record classifies every changed
\* register as restorable, to the value the session found
\* (ClassifyTunerRecoveryV5LiveValue).
AlwaysRestorable == part = "v5" => V5!AlwaysRestorable

\* Storage that is reported ready cannot be lost with a power loss, processes
\* that save at the same time and die anywhere do not mix their preferences,
\* and a save that succeeded repairs a torn file
\* (EnsureApplicationStorageDirectories, SaveApplicationPreferences).
PreferencesAreWhole ==
    part = "preferences" =>
        Storage!ReadyIsDurable /\ Storage!PreferencesWhole /\ Storage!SavedIsLoadable

\* The imported workspace stays what it was whatever paths and links a save
\* is given, the destination never holds part of a file, and success is
\* reported exactly by the saves that installed their file
\* (SaveMvmeWorkspaceCopy, SaveMvmeExportText).
ExportsAreWhole ==
    /\ part = "copy" => Copy!DestinationIsWhole /\ Copy!ReportIsTrue
    /\ part = "export" => Export!DestinationIsWhole /\ Export!ReportIsTrue

\* Without permission a copy of the workspace never replaces what is at the
\* destination, even when it came there after the save looked
\* (SaveMvmeWorkspaceCopy).
NoSilentReplacement == [][part = "copy" => ~Copy!ReplacesSilently]_vars
=============================================================================

------------------------ MODULE RecoveryJournalFile ------------------------
(***************************************************************************)
(* RecoveryJournal.cpp below its serialisation: how a record becomes the   *)
(* journal file.  A save creates a staging directory of its own, writes    *)
(* and synchronises a temporary file there, installs it with one rename    *)
(* (or one hard link, when the file must not exist yet), synchronises the  *)
(* directory and removes the staging directory.  Every system call is one  *)
(* step and may fail; a process may die, and the power may fail, between   *)
(* any two of them.                                                        *)
(*                                                                         *)
(* history is the sequence of contents of the directory entry since the    *)
(* last power loss; the entry found after a power loss is one of those     *)
(* from position safe on, and its text only if that had been synchronised. *)
(***************************************************************************)
EXTENDS Naturals, Sequences, FiniteSets

CONSTANTS
    Processes,         \* FIDGET processes that share the recovery directory
    MaxSaves,          \* bound on the saves and removals of a behaviour
    MaximumAtomicJournalCollisions,   \* 64 in the code
    NoFile, Torn

FileAssumption ==
    /\ MaxSaves \in Nat
    /\ MaximumAtomicJournalCollisions \in Nat \ {0}
    /\ NoFile \notin 1 .. MaxSaves /\ Torn \notin 1 .. MaxSaves
    /\ NoFile # Torn

VARIABLES
    history,   \* contents of the directory entry, oldest first
    safe,      \* position of the oldest one a power loss may reveal
    staging,   \* the staging directories that exist
    job,       \* the save each process is in
    next       \* the text of the next save; every save has its own

vars == <<history, safe, staging, job, next>>

Modes == {"Upsert", "Exclusive", "ReplaceExisting"}
Attempts == 0 .. MaximumAtomicJournalCollisions - 1
Texts == 1 .. MaxSaves

\* dir is the collision counter and then the directory created; durable says
\* whether the temporary file has been synchronised; at is the position in
\* history of the installed text; ok is the result returned.
Idle == [pc |-> "idle", mode |-> "Upsert", text |-> NoFile, dir |-> 0,
         durable |-> FALSE, at |-> 0, ok |-> FALSE]

Current == history[Len(history)].text
Content(t, d) == [text |-> t, durable |-> d]

Init ==
    /\ history = <<Content(NoFile, TRUE)>>
    /\ safe = 1
    /\ staging = {}
    /\ job = [p \in Processes |-> Idle]
    /\ next = 1

At(p, pc) == job[p].pc = pc
Go(p, pc) == job' = [job EXCEPT ![p].pc = pc]

----------------------------------------------------------------------------
\* The checks before anything is created; a refused save returns at once.
Begin(p) ==
    /\ At(p, "idle") /\ next <= MaxSaves
    /\ \E mode \in Modes :
          /\ mode = "Exclusive" => Current = NoFile
          /\ mode = "ReplaceExisting" => Current # NoFile
          /\ job' = [job EXCEPT ![p] = [Idle EXCEPT !.pc = "mkdir",
                                          !.mode = mode, !.text = next]]
    /\ next' = next + 1
    /\ UNCHANGED <<history, safe, staging>>

\* create_directory succeeds only for the process that creates it.
Mkdir(p) ==
    /\ At(p, "mkdir")
    /\ \/ /\ job[p].dir \in Attempts \ staging
          /\ staging' = staging \cup {job[p].dir}
          /\ Go(p, "write")
       \/ /\ job[p].dir \in Attempts \cap staging
          /\ job' = [job EXCEPT ![p].dir = @ + 1]
          /\ UNCHANGED staging
       \/ \* no workspace could be allocated, or another error
          /\ Go(p, "return")
          /\ UNCHANGED staging
    /\ UNCHANGED <<history, safe, next>>

\* Same-filesystem check, open, write, flush and close of the temporary.
WriteTemporary(p) ==
    /\ At(p, "write")
    /\ Go(p, "sync") \/ Go(p, "cleanup")
    /\ UNCHANGED <<history, safe, staging, next>>

\* Mutant: the temporary file is installed without being synchronised.
SkipsSync(p) ==
    /\ At(p, "sync")
    /\ Go(p, "install")
    /\ UNCHANGED <<history, safe, staging, next>>

SynchronizeTemporary(p) ==
    /\ At(p, "sync")
    /\ \/ job' = [job EXCEPT ![p].durable = TRUE, ![p].pc = "install"]
       \/ Go(p, "cleanup")
    /\ UNCHANGED <<history, safe, staging, next>>

\* create_hard_link refuses an existing destination; rename replaces it.
CanInstall(p) == job[p].mode = "Exclusive" => Current = NoFile

Install(p) ==
    /\ At(p, "install")
    /\ \/ /\ CanInstall(p)
          /\ history' = Append(history, Content(job[p].text, job[p].durable))
          /\ job' = [job EXCEPT ![p].at = Len(history) + 1,
                                ![p].pc = "dirsync"]
       \/ /\ Go(p, "cleanup")
          /\ UNCHANGED history
    /\ UNCHANGED <<safe, staging, next>>

SynchronizeDirectory(p) ==
    /\ At(p, "dirsync")
    /\ \/ /\ safe' = Len(history)
          /\ job' = [job EXCEPT ![p].ok = TRUE, ![p].pc = "cleanup"]
       \/ /\ Go(p, "cleanup")
          /\ UNCHANGED safe
    /\ UNCHANGED <<history, staging, next>>

\* Mutant: giving up after a failed directory sync takes the record back.
UninstallsRecord(p) ==
    /\ At(p, "cleanup")
    /\ history' = IF job[p].at # 0 /\ ~job[p].ok
                     THEN Append(history, Content(NoFile, TRUE)) ELSE history
    /\ staging' = staging \ {job[p].dir}
    /\ Go(p, "return")
    /\ UNCHANGED <<safe, next>>

\* remove_all, whose error is ignored.
RemoveAtomicWorkspace(p) ==
    /\ At(p, "cleanup")
    /\ staging' \in {staging, staging \ {job[p].dir}}
    /\ Go(p, "return")
    /\ UNCHANGED <<history, safe, next>>

Return(p) ==
    /\ At(p, "return")
    /\ job' = [job EXCEPT ![p] = Idle]
    /\ UNCHANGED <<history, safe, staging, next>>

\* RemoveTunerRecoveryJournal does not synchronise the directory.
RemoveTunerRecoveryJournal(p) ==
    /\ At(p, "idle") /\ next <= MaxSaves
    /\ history' = Append(history, Content(NoFile, TRUE))
    /\ next' = next + 1
    /\ UNCHANGED <<safe, staging, job>>

----------------------------------------------------------------------------
\* A process dies; its staging directory stays.
Crash(p) ==
    /\ ~At(p, "idle")
    /\ job' = [job EXCEPT ![p] = Idle]
    /\ UNCHANGED <<history, safe, staging, next>>

PowerLoss ==
    /\ \E i \in safe .. Len(history) :
          history' = <<Content(IF history[i].durable THEN history[i].text
                                                     ELSE Torn, TRUE)>>
    /\ safe' = 1
    /\ job' = [p \in Processes |-> Idle]
    /\ UNCHANGED <<staging, next>>

\* Nothing is left to save within the bound.
Done ==
    /\ next > MaxSaves /\ \A p \in Processes : At(p, "idle")
    /\ UNCHANGED vars

Next ==
    \/ \E p \in Processes :
          \/ Begin(p) \/ Mkdir(p) \/ WriteTemporary(p)
          \/ SynchronizeTemporary(p) \/ Install(p) \/ SynchronizeDirectory(p)
          \/ RemoveAtomicWorkspace(p) \/ Return(p)
          \/ RemoveTunerRecoveryJournal(p) \/ Crash(p)
    \/ PowerLoss \/ Done

Spec == Init /\ [][Next]_vars

----------------------------------------------------------------------------
(***************************************************************************)
(* The journal file is at no time, and after no power loss, anything but   *)
(* absent or a whole record (InstallSerializedJournalAtomically).          *)
(***************************************************************************)
NeverTorn == \A i \in safe .. Len(history) :
    history[i].durable /\ history[i].text # Torn

(***************************************************************************)
(* A save that is about to report success cannot be undone by a power      *)
(* loss.                                                                   *)
(***************************************************************************)
SuccessIsDurable ==
    \A p \in Processes : job[p].ok => job[p].at # 0 /\ safe >= job[p].at

(***************************************************************************)
(* Two saves never work in the same staging directory, whatever earlier    *)
(* crashes have left behind.                                               *)
(***************************************************************************)
Staged(p) == job[p].pc \in {"write", "sync", "install", "dirsync", "cleanup"}
WorkspacesDisjoint ==
    \A p, q \in Processes :
        p # q /\ Staged(p) /\ Staged(q) => job[p].dir # job[q].dir

(***************************************************************************)
(* An exclusive creation never replaces a record, also when two processes  *)
(* have both found the destination free                                    *)
(* (CreateTunerRecoveryJournalExclusive).                                  *)
(***************************************************************************)
ExclusiveNeverReplaces ==
    [][\A p \in Processes :
         job[p].mode = "Exclusive" /\ job[p].at = 0 /\ job'[p].at # 0
            => Current = NoFile]_vars

(***************************************************************************)
(* The file protocol implements the journal its callers rely on: whole     *)
(* records, and success only for what is installed and safe.               *)
(***************************************************************************)
Saving(p) == [text |-> job[p].text, at |-> job[p].at, ok |-> job[p].ok]
Atomic == INSTANCE AtomicJournal WITH
              history <- [i \in 1 .. Len(history) |-> history[i].text],
              saving <- [p \in Processes |-> Saving(p)]
IsAtomicJournal == Atomic!Spec
=============================================================================

--------------------------- MODULE StorageProofs ---------------------------
(***************************************************************************)
(* What is proved of the journal's file protocol, of its version 5 text,   *)
(* of the preferences and of the exports, and that it holds of each among  *)
(* the other components that keep files: their steps leave its variables   *)
(* alone.                                                                  *)
(***************************************************************************)
EXTENDS MCStorage, SequenceTheorems, TLAPS

SessionText == INSTANCE RecoveryJournalV5Proofs WITH Values <- {val1, val2, val3}
Copies == INSTANCE ExportFileProofs WITH
    Savers <- {one, two, three}, Kind <- [s \in {one, two, three} |-> "copy"],
    Permission <- [s \in {one, two, three} |-> s = two],
    Goals <- {"out", "source"}, Areas <- 0 .. 1,
    staging <- areas, tmp <- draft
Exports == INSTANCE ExportFileProofs WITH
    Savers <- {one, two}, Kind <- (one :> "export") @@ (two :> "copy"),
    Permission <- [s \in {one, two} |-> FALSE],
    Goals <- {"out"}, Areas <- 0 .. 1,
    staging <- areas, tmp <- draft

----------------------------------------------------------------------------
(***************************************************************************)
(* The file protocol of the recovery journal, for any number of processes, *)
(* saves and collisions: the file is never torn, a reported success        *)
(* survives a power loss, no two saves share a staging directory, an       *)
(* exclusive creation replaces nothing, and the protocol implements        *)
(* AtomicJournal.                                                          *)
(*                                                                         *)
(* None of these is inductive.  FileInv says what a save has done by the   *)
(* time it reaches a label: from Mkdir on it owns its directory, from      *)
(* SynchronizeTemporary on its text is durable, and at dirsync its record  *)
(* is installed at a position of the history that exists.                  *)
(***************************************************************************)
\* Nothing that a power loss could tear is ever in the directory entry.
Whole == [text : Journal!Texts \cup {NoFile}, durable : {TRUE}]
Labels == {"idle", "mkdir", "write", "sync", "install", "dirsync", "cleanup",
           "return"}
Jobs == [pc : Labels, mode : Journal!Modes, text : Journal!Texts \cup {NoFile}, dir : Nat,
         durable : BOOLEAN, at : Nat, ok : BOOLEAN]

FileTypeOK ==
    /\ history \in Seq(Whole)
    /\ safe \in 1 .. Len(history)
    /\ staging \subseteq Journal!Attempts
    /\ job \in [Processes -> Jobs]
    /\ next \in Nat \ {0}

\* What a save has done when it is at its label.
JobDone(p) ==
    /\ Journal!At(p, "idle") => job[p] = Journal!Idle
    /\ ~Journal!At(p, "idle") => job[p].text \in Journal!Texts
    /\ job[p].pc \in {"mkdir", "write", "sync", "install"} =>
          job[p].at = 0 /\ ~job[p].ok
    /\ Journal!At(p, "install") => job[p].durable
    /\ Journal!At(p, "dirsync") => job[p].at # 0
    /\ job[p].at <= Len(history)
    /\ job[p].ok => job[p].at # 0 /\ safe >= job[p].at
    /\ Journal!Staged(p) => job[p].dir \in staging

FileInv ==
    /\ FileTypeOK
    /\ \A p \in Processes : JobDone(p)
    /\ Journal!WorkspacesDisjoint

----------------------------------------------------------------------------
\* What changes in job when one save moves.
Moves(p) ==
    /\ job' \in [Processes -> Jobs]
    /\ \A q \in Processes \ {p} : job'[q] = job[q]

\* A step of one save that leaves the history alone preserves the invariant
\* when what the save has done is true of its new label, and its directory is
\* its own.
LEMMA SaveStep ==
    ASSUME FileInv, NEW p \in Processes, Moves(p),
           history' = history, safe' = safe \/ safe' = Len(history),
           staging' \subseteq Journal!Attempts, next' \in Nat \ {0},
           JobDone(p)',
           \A q \in Processes \ {p} :
              Journal!Staged(q) => /\ job[q].dir \in staging'
                                   /\ Journal!Staged(p)' => job[q].dir # job'[p].dir
    PROVE  FileInv'
<1>1. FileTypeOK'
  BY LenProperties DEF FileInv, FileTypeOK, Moves
<1>2. ASSUME NEW q \in Processes PROVE JobDone(q)'
  <2>1. CASE q = p
    BY <2>1
  <2>2. CASE q # p
    <3>1. safe' >= safe
      BY LenProperties DEF FileInv, FileTypeOK
    <3>2. JobDone(q) /\ job'[q] = job[q] /\ job[q].at \in Nat
      BY <2>2 DEF FileInv, FileTypeOK, Jobs, Moves
    <3> QED
      BY <3>1, <3>2, <2>2, LenProperties
         DEF JobDone, Journal!At, Journal!Staged, FileInv, FileTypeOK
  <2> QED
    BY <2>1, <2>2
<1>3. Journal!WorkspacesDisjoint'
  BY DEF Journal!WorkspacesDisjoint, Journal!Staged, FileInv, Moves
<1> QED
  BY <1>1, <1>2, <1>3 DEF FileInv

\* A label is all that changes.
LEMMA GoMoves ==
    ASSUME FileTypeOK, NEW p \in Processes, NEW pc \in Labels, Journal!Go(p, pc)
    PROVE  /\ Moves(p) /\ job[p] \in Jobs /\ job'[p] \in Jobs
           /\ job'[p].pc = pc
           /\ job'[p].text = job[p].text /\ job'[p].dir = job[p].dir
           /\ job'[p].durable = job[p].durable
           /\ job'[p].at = job[p].at /\ job'[p].ok = job[p].ok
<1>1. job[p] \in Jobs
  BY DEF FileTypeOK
<1>2. [job[p] EXCEPT !.pc = pc] \in Jobs
  BY <1>1 DEF Jobs
<1>3. job' = [job EXCEPT ![p] = [job[p] EXCEPT !.pc = pc]]
  BY DEF Journal!Go
<1> QED
  BY <1>1, <1>2, <1>3 DEF FileTypeOK, Moves, Jobs

\* A save begins without a directory, with a text that nobody else saves.
LEMMA BeginsAt ==
    ASSUME FileTypeOK, NEW p \in Processes, Journal!Begin(p)
    PROVE  /\ Moves(p)
           /\ job'[p].pc = "mkdir" /\ job'[p].text = next
           /\ job'[p].at = 0 /\ job'[p].ok = FALSE
           /\ next \in Journal!Texts
<1>1. PICK mode \in Journal!Modes :
         job' = [job EXCEPT ![p] = [Journal!Idle EXCEPT !.pc = "mkdir",
                                      !.mode = mode, !.text = next]]
  BY DEF Journal!Begin
<1>2. next \in Journal!Texts
  BY DEF Journal!Begin, FileTypeOK, Journal!Texts
<1>3. Journal!Idle \in Jobs /\ Journal!Idle.at = 0 /\ Journal!Idle.ok = FALSE
  BY DEF Jobs, Journal!Idle, Labels, Journal!Modes
<1>4. [Journal!Idle EXCEPT !.pc = "mkdir", !.mode = mode, !.text = next] \in Jobs
  BY <1>2, <1>3 DEF Jobs, Labels
<1> QED
  BY <1>1, <1>2, <1>3, <1>4 DEF FileTypeOK, Moves, Jobs

\* The call of SaveTunerRecoveryJournal or of
\* CreateTunerRecoveryJournalExclusive keeps the invariant.
LEMMA BeginInv ==
    ASSUME FileInv, NEW p \in Processes, Journal!Begin(p) PROVE FileInv'
<1>1. /\ Moves(p)
      /\ job'[p].pc = "mkdir" /\ job'[p].text \in Journal!Texts
      /\ job'[p].at = 0 /\ job'[p].ok = FALSE
  BY BeginsAt DEF FileInv
<1>2. history' = history /\ safe' = safe /\ staging' = staging
  BY DEF Journal!Begin
<1>3. JobDone(p)' /\ ~Journal!Staged(p)'
  BY <1>1, <1>2, LenProperties DEF JobDone, Journal!At, Journal!Staged, FileInv,
                                   FileTypeOK
<1> QED
  BY <1>1, <1>2, <1>3, SaveStep DEF Journal!Begin, FileInv, FileTypeOK, JobDone

\* The search for a free staging name ends in a directory of the save's own, or
\* gives up after its attempts.
LEMMA MkdirInv ==
    ASSUME FileInv, NEW p \in Processes, Journal!Mkdir(p) PROVE FileInv'
<1>1. /\ FileTypeOK /\ job[p] \in Jobs /\ JobDone(p)
      /\ Journal!At(p, "mkdir") /\ ~Journal!Staged(p)
      /\ "write" \in Labels /\ "return" \in Labels
  BY DEF FileInv, FileTypeOK, Journal!Mkdir, Journal!At, Journal!Staged, Labels
<1>2. staging \subseteq staging' /\ staging' \subseteq Journal!Attempts
  BY DEF Journal!Mkdir, FileInv, FileTypeOK
<1>3. CASE /\ job[p].dir \in Journal!Attempts \ staging
           /\ staging' = staging \cup {job[p].dir}
           /\ Journal!Go(p, "write")
  <2>1. JobDone(p)' /\ Moves(p) /\ job'[p].dir = job[p].dir
    BY <1>1, <1>3, GoMoves DEF JobDone, Journal!At, Journal!Staged, Journal!Mkdir
  <2> QED
    BY <1>2, <1>3, <2>1, SaveStep DEF Journal!Mkdir, FileInv, FileTypeOK, JobDone
<1>4. CASE /\ job[p].dir \in Journal!Attempts \cap staging
           /\ job' = [job EXCEPT ![p].dir = @ + 1]
           /\ UNCHANGED staging
  <2>1. [job[p] EXCEPT !.dir = @ + 1] \in Jobs
    BY <1>1 DEF Jobs
  <2>2. job' = [job EXCEPT ![p] = [job[p] EXCEPT !.dir = @ + 1]]
    BY <1>4
  <2>3. /\ Moves(p)
        /\ job'[p].pc = "mkdir" /\ job'[p].text = job[p].text
        /\ job'[p].at = job[p].at /\ job'[p].ok = job[p].ok
    BY <1>1, <2>1, <2>2 DEF FileTypeOK, Moves, Jobs, Journal!At
  <2>4. JobDone(p)' /\ ~Journal!Staged(p)'
    BY <1>1, <2>3 DEF JobDone, Journal!At, Journal!Staged, Journal!Mkdir
  <2> QED
    BY <1>2, <1>4, <2>3, <2>4, SaveStep
       DEF Journal!Mkdir, FileInv, FileTypeOK, JobDone
<1>5. CASE Journal!Go(p, "return") /\ UNCHANGED staging
  <2>1. JobDone(p)' /\ Moves(p) /\ ~Journal!Staged(p)'
    BY <1>1, <1>5, GoMoves DEF JobDone, Journal!At, Journal!Staged, Journal!Mkdir
  <2> QED
    BY <1>2, <1>5, <2>1, SaveStep DEF Journal!Mkdir, FileInv, FileTypeOK, JobDone
<1> QED
  BY <1>3, <1>4, <1>5 DEF Journal!Mkdir

\* A staged save that stays staged, or returns, without touching the directory
\* entry.
LEMMA StagedStepInv ==
    ASSUME FileInv, NEW p \in Processes, Journal!Staged(p),
           Moves(p), job'[p].dir = job[p].dir,
           history' = history, next' = next,
           safe' = safe \/ safe' = Len(history),
           JobDone(p)',
           staging' = staging
             \/ (Journal!At(p, "return")' /\ staging' = staging \ {job[p].dir})
    PROVE  FileInv'
<1>1. \A q \in Processes \ {p} :
         Journal!Staged(q) => job[q].dir \in staging' /\ job[q].dir # job[p].dir
  BY DEF FileInv, Journal!WorkspacesDisjoint, JobDone
<1> QED
  BY <1>1, SaveStep DEF FileInv, FileTypeOK

\* Writing the temporary file touches nothing but the save's own directory.
LEMMA WriteTemporaryInv ==
    ASSUME FileInv, NEW p \in Processes, Journal!WriteTemporary(p) PROVE FileInv'
<1>1. /\ FileTypeOK /\ JobDone(p) /\ Journal!Staged(p) /\ Journal!At(p, "write")
      /\ "sync" \in Labels /\ "cleanup" \in Labels
  BY DEF FileInv, Journal!WriteTemporary, Journal!At, Journal!Staged, Labels
<1>2. ASSUME NEW pc \in {"sync", "cleanup"}, Journal!Go(p, pc)
      PROVE  JobDone(p)' /\ Moves(p) /\ job'[p].dir = job[p].dir
  BY <1>1, <1>2, GoMoves DEF JobDone, Journal!At, Journal!Staged, Journal!WriteTemporary
<1> QED
  BY <1>1, <1>2, StagedStepInv DEF Journal!WriteTemporary, JobDone, Journal!At,
                                   Journal!Staged

\* Only a synchronised temporary file goes on to the installation.
LEMMA SynchronizeTemporaryInv ==
    ASSUME FileInv, NEW p \in Processes, Journal!SynchronizeTemporary(p) PROVE FileInv'
<1>1. /\ FileTypeOK /\ job[p] \in Jobs /\ JobDone(p)
      /\ Journal!Staged(p) /\ Journal!At(p, "sync")
      /\ "install" \in Labels /\ "cleanup" \in Labels
  BY DEF FileInv, FileTypeOK, Journal!SynchronizeTemporary, Journal!At, Journal!Staged,
         Labels
<1>2. CASE job' = [job EXCEPT ![p].durable = TRUE, ![p].pc = "install"]
  <2>1. [job[p] EXCEPT !.durable = TRUE, !.pc = "install"] \in Jobs
    BY <1>1 DEF Jobs
  <2>2. job' = [job EXCEPT
                  ![p] = [job[p] EXCEPT !.durable = TRUE, !.pc = "install"]]
    BY <1>1, <1>2 DEF FileTypeOK, Jobs
  <2>3. /\ Moves(p)
        /\ job'[p].pc = "install" /\ job'[p].durable
        /\ job'[p].text = job[p].text /\ job'[p].dir = job[p].dir
        /\ job'[p].at = job[p].at /\ job'[p].ok = job[p].ok
    BY <1>1, <2>1, <2>2 DEF FileTypeOK, Moves, Jobs
  <2>4. JobDone(p)'
    BY <1>1, <2>3 DEF JobDone, Journal!At, Journal!Staged, Journal!SynchronizeTemporary
  <2> QED
    BY <1>1, <2>3, <2>4, StagedStepInv DEF Journal!SynchronizeTemporary, JobDone,
                                           Journal!At, Journal!Staged
<1>3. CASE Journal!Go(p, "cleanup")
  <2>1. JobDone(p)' /\ Moves(p) /\ job'[p].dir = job[p].dir
    BY <1>1, <1>3, GoMoves DEF JobDone, Journal!At, Journal!Staged,
                               Journal!SynchronizeTemporary
  <2> QED
    BY <1>1, <2>1, StagedStepInv DEF Journal!SynchronizeTemporary, JobDone, Journal!At,
                                     Journal!Staged
<1> QED
  BY <1>2, <1>3 DEF Journal!SynchronizeTemporary

\* The directory sync makes everything installed so far safe.
LEMMA SynchronizeDirectoryInv ==
    ASSUME FileInv, NEW p \in Processes, Journal!SynchronizeDirectory(p) PROVE FileInv'
<1>1. /\ FileTypeOK /\ job[p] \in Jobs /\ JobDone(p)
      /\ Journal!Staged(p) /\ Journal!At(p, "dirsync") /\ "cleanup" \in Labels
  BY DEF FileInv, FileTypeOK, Journal!SynchronizeDirectory, Journal!At, Journal!Staged,
         Labels
<1>2. CASE /\ safe' = Len(history)
           /\ job' = [job EXCEPT ![p].ok = TRUE, ![p].pc = "cleanup"]
  <2>1. [job[p] EXCEPT !.ok = TRUE, !.pc = "cleanup"] \in Jobs
    BY <1>1 DEF Jobs
  <2>2. job' = [job EXCEPT
                  ![p] = [job[p] EXCEPT !.ok = TRUE, !.pc = "cleanup"]]
    BY <1>1, <1>2 DEF FileTypeOK, Jobs
  <2>3. /\ Moves(p)
        /\ job'[p].pc = "cleanup"
        /\ job'[p].text = job[p].text /\ job'[p].dir = job[p].dir
        /\ job'[p].at = job[p].at
    BY <1>1, <2>1, <2>2 DEF FileTypeOK, Moves, Jobs
  <2>4. JobDone(p)'
    BY <1>1, <1>2, <2>3 DEF JobDone, Journal!At, Journal!Staged,
                            Journal!SynchronizeDirectory
  <2> QED
    BY <1>1, <1>2, <2>3, <2>4, StagedStepInv DEF Journal!SynchronizeDirectory, JobDone,
                                                 Journal!At, Journal!Staged
<1>3. CASE Journal!Go(p, "cleanup") /\ UNCHANGED safe
  <2>1. JobDone(p)' /\ Moves(p) /\ job'[p].dir = job[p].dir
    BY <1>1, <1>3, GoMoves DEF JobDone, Journal!At, Journal!Staged,
                               Journal!SynchronizeDirectory
  <2> QED
    BY <1>1, <1>3, <2>1, StagedStepInv DEF Journal!SynchronizeDirectory, JobDone,
                                           Journal!At, Journal!Staged
<1> QED
  BY <1>2, <1>3 DEF Journal!SynchronizeDirectory

\* Removing the staging directory frees the name of this save only.
LEMMA RemoveAtomicWorkspaceInv ==
    ASSUME FileInv, NEW p \in Processes, Journal!RemoveAtomicWorkspace(p) PROVE FileInv'
<1>1. /\ FileTypeOK /\ JobDone(p) /\ Journal!Staged(p) /\ Journal!At(p, "cleanup")
      /\ "return" \in Labels
  BY DEF FileInv, Journal!RemoveAtomicWorkspace, Journal!At, Journal!Staged, Labels
<1>2. /\ JobDone(p)' /\ Moves(p) /\ job'[p].dir = job[p].dir
      /\ Journal!At(p, "return")'
  BY <1>1, GoMoves DEF JobDone, Journal!At, Journal!Staged, Journal!RemoveAtomicWorkspace
<1> QED
  BY <1>1, <1>2, StagedStepInv DEF Journal!RemoveAtomicWorkspace, JobDone, Journal!At,
                                   Journal!Staged

\* A save that returns and one whose process dies leave nothing but, perhaps,
\* their directory.
LEMMA EndInv ==
    ASSUME FileInv, NEW p \in Processes, job' = [job EXCEPT ![p] = Journal!Idle],
           UNCHANGED <<history, safe, staging, next>>
    PROVE  FileInv'
<1>1. Journal!Idle \in Jobs
  BY DEF Jobs, Journal!Idle, Labels, Journal!Modes
<1>2. Moves(p) /\ job'[p] = Journal!Idle
  BY <1>1 DEF Moves, FileInv, FileTypeOK
<1>3. JobDone(p)' /\ ~Journal!Staged(p)'
  BY <1>2, LenProperties DEF JobDone, Journal!At, Journal!Staged, Journal!Idle,
                             FileInv, FileTypeOK
<1> QED
  BY <1>2, <1>3, SaveStep DEF FileInv, FileTypeOK, JobDone

\* A history of one file.
LEMMA SingleSeq ==
    ASSUME NEW S, NEW e \in S
    PROVE  <<e>> \in Seq(S) /\ Len(<<e>>) = 1 /\ <<e>>[1] = e
OBVIOUS

\* What the history holds after one more file.
LEMMA AppendSeq ==
    ASSUME NEW S, NEW s \in Seq(S), NEW e \in S
    PROVE  /\ Append(s, e) \in Seq(S)
           /\ Len(Append(s, e)) = Len(s) + 1
           /\ \A i \in 1 .. Len(s) : Append(s, e)[i] = s[i]
           /\ Append(s, e)[Len(s) + 1] = e
OBVIOUS

\* What is put into the directory entry is durable and whole.
LEMMA AppendWhole ==
    ASSUME FileTypeOK, NEW t \in Journal!Texts \cup {NoFile},
           history' = Append(history, Journal!Content(t, TRUE)), safe' = safe
    PROVE  /\ history' \in Seq(Whole)
           /\ Len(history') = Len(history) + 1
           /\ Len(history) \in Nat
           /\ safe' \in 1 .. Len(history')
<1>1. Journal!Content(t, TRUE) \in Whole
  BY DEF Journal!Content, Whole
<1>2. /\ history \in Seq(Whole) /\ Len(history) \in Nat
      /\ safe \in 1 .. Len(history)
  BY LenProperties DEF FileTypeOK
<1>3. history' \in Seq(Whole) /\ Len(history') = Len(history) + 1
  BY <1>1, <1>2, AppendSeq
<1>4. safe' \in 1 .. Len(history')
  BY <1>2, <1>3
<1> QED
  BY <1>2, <1>3, <1>4

\* The rename or the hard link of InstallSerializedJournalAtomically installs a
\* synchronised text, at the end of the history.
LEMMA InstallInv ==
    ASSUME Journal!FileAssumption, FileInv, NEW p \in Processes, Journal!Install(p)
    PROVE  FileInv'
<1>1. /\ FileTypeOK /\ job[p] \in Jobs /\ JobDone(p)
      /\ Journal!Staged(p) /\ Journal!At(p, "install") /\ "cleanup" \in Labels
  BY DEF FileInv, FileTypeOK, Journal!Install, Journal!At, Journal!Staged, Labels
<1>2. job[p].text \in Journal!Texts /\ job[p].durable = TRUE
  BY <1>1 DEF JobDone, Journal!At, Journal!FileAssumption, Journal!Texts, Jobs
<1>3. CASE /\ history' = Append(history, Journal!Content(job[p].text, job[p].durable))
           /\ job' = [job EXCEPT ![p].at = Len(history) + 1,
                                 ![p].pc = "dirsync"]
  <2>1. /\ history' \in Seq(Whole)
        /\ Len(history') = Len(history) + 1 /\ Len(history) \in Nat
        /\ safe' \in 1 .. Len(history') /\ safe' = safe
        /\ staging' = staging /\ next' = next
    BY <1>1, <1>2, <1>3, AppendWhole DEF Journal!Install
  <2>2. [job[p] EXCEPT !.at = Len(history) + 1, !.pc = "dirsync"] \in Jobs
    <3>1. Len(history) + 1 \in Nat
      BY <2>1
    <3> QED
      BY <1>1, <3>1 DEF Jobs, Labels
  <2>3. job' = [job EXCEPT
           ![p] = [job[p] EXCEPT !.at = Len(history) + 1, !.pc = "dirsync"]]
    BY <1>1, <1>3 DEF FileTypeOK, Jobs
  <2>4. /\ Moves(p)
        /\ job'[p].pc = "dirsync" /\ job'[p].at = Len(history) + 1
        /\ job'[p].text = job[p].text /\ job'[p].dir = job[p].dir
        /\ job'[p].ok = job[p].ok
    BY <1>1, <2>2, <2>3 DEF FileTypeOK, Moves, Jobs
  <2>5. FileTypeOK'
    BY <1>1, <2>1, <2>4 DEF FileTypeOK, Moves
  <2>6. ASSUME NEW q \in Processes PROVE JobDone(q)'
    <3>1. CASE q = p
      BY <3>1, <1>1, <1>2, <2>1, <2>4 DEF JobDone, Journal!At, Journal!Staged
    <3>2. CASE q # p
      <4>1. JobDone(q) /\ job'[q] = job[q] /\ job[q].at \in Nat
        BY <3>2, <2>4 DEF FileInv, FileTypeOK, Jobs, Moves
      <4> QED
        BY <4>1, <2>1 DEF JobDone, Journal!At, Journal!Staged
    <3> QED
      BY <3>1, <3>2
  <2>7. Journal!WorkspacesDisjoint'
    BY <1>1, <2>4 DEF FileInv, Journal!WorkspacesDisjoint, Journal!Staged, Moves
  <2> QED
    BY <2>1, <2>5, <2>6, <2>7 DEF FileInv
<1>4. CASE Journal!Go(p, "cleanup") /\ UNCHANGED history
  <2>1. JobDone(p)' /\ Moves(p) /\ job'[p].dir = job[p].dir
    BY <1>1, <1>4, GoMoves DEF JobDone, Journal!At, Journal!Staged, Journal!Install
  <2> QED
    BY <1>1, <1>4, <2>1, StagedStepInv DEF Journal!Install, JobDone, Journal!At,
                                           Journal!Staged
<1> QED
  BY <1>3, <1>4 DEF Journal!Install

\* RemoveTunerRecoveryJournal, which does not synchronise the directory, appends
\* an absence that a power loss may still undo.
LEMMA RemoveInv ==
    ASSUME Journal!FileAssumption, FileInv, NEW p \in Processes,
           Journal!RemoveTunerRecoveryJournal(p)
    PROVE  FileInv'
<1>1. FileTypeOK
  BY DEF FileInv
<1>2. /\ history' \in Seq(Whole)
      /\ Len(history') = Len(history) + 1 /\ Len(history) \in Nat
      /\ safe' \in 1 .. Len(history') /\ safe' = safe
      /\ staging' = staging /\ job' = job
  BY <1>1, AppendWhole DEF Journal!RemoveTunerRecoveryJournal
<1>3. FileTypeOK'
  <2>1. next' \in Nat \ {0}
    BY DEF FileInv, FileTypeOK, Journal!RemoveTunerRecoveryJournal
  <2> QED
    BY <1>1, <1>2, <2>1 DEF FileTypeOK
<1>4. ASSUME NEW q \in Processes PROVE JobDone(q)'
  <2>1. JobDone(q) /\ job[q].at \in Nat
    BY DEF FileInv, FileTypeOK, Jobs
  <2> QED
    BY <2>1, <1>2 DEF JobDone, Journal!At, Journal!Staged
<1>5. Journal!WorkspacesDisjoint'
  BY <1>2 DEF FileInv, Journal!WorkspacesDisjoint, Journal!Staged
<1> QED
  BY <1>2, <1>3, <1>4, <1>5 DEF FileInv

\* After a power loss the entry is one that was in the history, and so whole.
LEMMA PowerLossInv ==
    ASSUME FileInv, Journal!PowerLoss PROVE FileInv'
<1>1. FileTypeOK /\ Len(history) \in Nat
  BY LenProperties DEF FileInv, FileTypeOK
<1>2. PICK i \in safe .. Len(history) :
         history' = <<Journal!Content(IF history[i].durable THEN history[i].text
                                                    ELSE Torn, TRUE)>>
  BY DEF Journal!PowerLoss
<1>3. i \in 1 .. Len(history) /\ history[i] \in Whole
  BY <1>1, <1>2, ElementOfSeq DEF FileTypeOK
<1>4. history' = <<Journal!Content(history[i].text, TRUE)>>
  BY <1>2, <1>3 DEF Whole
<1>5. Journal!Content(history[i].text, TRUE) \in Whole
  BY <1>3 DEF Journal!Content, Whole
<1>6. history' \in Seq(Whole) /\ Len(history') = 1
  BY <1>4, <1>5, SingleSeq
<1>7. Journal!Idle \in Jobs
  BY DEF Jobs, Journal!Idle, Labels, Journal!Modes
<1>8. /\ job' = [p \in Processes |-> Journal!Idle] /\ safe' = 1
      /\ staging' = staging /\ next' = next
  BY DEF Journal!PowerLoss
<1>9. FileTypeOK'
  BY <1>1, <1>6, <1>7, <1>8 DEF FileTypeOK
<1>10. ASSUME NEW p \in Processes PROVE JobDone(p)' /\ ~Journal!Staged(p)'
  BY <1>6, <1>8 DEF JobDone, Journal!At, Journal!Staged, Journal!Idle
<1> QED
  BY <1>9, <1>10 DEF FileInv, Journal!WorkspacesDisjoint

\* No save is under way when the processes start.
LEMMA InitInv ==
    ASSUME Journal!Init PROVE FileInv
<1>1. Journal!Content(NoFile, TRUE) \in Whole
  BY DEF Journal!Content, Whole
<1>2. history \in Seq(Whole) /\ Len(history) = 1
  BY <1>1, SingleSeq DEF Journal!Init
<1>3. Journal!Idle \in Jobs
  BY DEF Jobs, Journal!Idle, Labels, Journal!Modes
<1>4. FileTypeOK
  <2>1. safe \in 1 .. Len(history) /\ next \in Nat \ {0}
    BY <1>2 DEF Journal!Init
  <2>2. job \in [Processes -> Jobs] /\ staging \subseteq Journal!Attempts
    BY <1>3 DEF Journal!Init
  <2> QED
    BY <1>2, <2>1, <2>2 DEF FileTypeOK
<1>5. ASSUME NEW p \in Processes PROVE JobDone(p) /\ ~Journal!Staged(p)
  BY <1>2 DEF JobDone, Journal!At, Journal!Staged, Journal!Idle, Journal!Init
<1> QED
  BY <1>4, <1>5 DEF FileInv, Journal!WorkspacesDisjoint

\* Every step of a save, and every crash and power loss, keeps the invariant.
LEMMA StepInv ==
    ASSUME Journal!FileAssumption, FileInv, [Journal!Next]_(Journal!vars) PROVE FileInv'
<1>1. ASSUME NEW p \in Processes,
             \/ Journal!Begin(p) \/ Journal!Mkdir(p) \/ Journal!WriteTemporary(p)
             \/ Journal!SynchronizeTemporary(p) \/ Journal!Install(p) \/ Journal!SynchronizeDirectory(p)
             \/ Journal!RemoveAtomicWorkspace(p) \/ Journal!Return(p)
             \/ Journal!RemoveTunerRecoveryJournal(p) \/ Journal!Crash(p)
      PROVE  FileInv'
  <2>1. Journal!Return(p) \/ Journal!Crash(p) =>
           /\ job' = [job EXCEPT ![p] = Journal!Idle]
           /\ UNCHANGED <<history, safe, staging, next>>
    BY DEF Journal!Return, Journal!Crash
  <2> QED
    BY <1>1, <2>1, BeginInv, MkdirInv, WriteTemporaryInv,
       SynchronizeTemporaryInv, InstallInv, SynchronizeDirectoryInv,
       RemoveAtomicWorkspaceInv, RemoveInv, EndInv
<1>2. CASE UNCHANGED Journal!vars
  <2>1. /\ history' = history /\ safe' = safe /\ staging' = staging
        /\ job' = job /\ next' = next
    BY <1>2 DEF Journal!vars
  <2> QED
    BY <2>1 DEF FileInv, FileTypeOK, JobDone, Journal!At, Journal!Staged,
                Journal!WorkspacesDisjoint
<1> QED
  BY <1>1, <1>2, PowerLossInv DEF Journal!Next, Journal!Done

\* What a save of InstallSerializedJournalAtomically has done by the time it
\* reaches each of its steps, whatever the other processes do.
THEOREM FileInvariant ==
    ASSUME Journal!FileAssumption PROVE Journal!Spec => []FileInv
<1>1. Journal!Init => FileInv
  BY InitInv
<1>2. FileInv /\ [Journal!Next]_(Journal!vars) => FileInv'
  BY StepInv
<1> QED
  BY <1>1, <1>2, PTL DEF Journal!Spec

----------------------------------------------------------------------------
\* The journal file is whole at all times, a save reported as done survives a
\* power loss, and two saves never share a staging directory
\* (InstallSerializedJournalAtomically).
THEOREM JournalFileIsSafe ==
    ASSUME Journal!FileAssumption
    PROVE  Journal!Spec => [](Journal!NeverTorn /\ Journal!SuccessIsDurable /\ Journal!WorkspacesDisjoint)
<1>1. ASSUME FileInv PROVE Journal!NeverTorn
  <2>1. ASSUME NEW i \in safe .. Len(history)
        PROVE  history[i].durable /\ history[i].text # Torn
    <3>1. i \in 1 .. Len(history) /\ history \in Seq(Whole)
      BY <1>1, LenProperties DEF FileInv, FileTypeOK
    <3>2. history[i] \in Whole
      BY <3>1, ElementOfSeq
    <3> QED
      BY <3>2 DEF Whole, Journal!FileAssumption, Journal!Texts
  <2> QED
    BY <2>1 DEF Journal!NeverTorn
<1>2. FileInv => Journal!SuccessIsDurable /\ Journal!WorkspacesDisjoint
  BY DEF FileInv, JobDone, Journal!SuccessIsDurable
<1> QED
  BY <1>1, <1>2, FileInvariant, PTL

\* An exclusive creation finds the destination free at the moment it installs
\* its record (CreateTunerRecoveryJournalExclusive).
LEMMA InstallsOnlyByInstall ==
    ASSUME FileTypeOK, [Journal!Next]_(Journal!vars), NEW p \in Processes,
           job[p].at = 0, job'[p].at # 0
    PROVE  Journal!Install(p)
<1>1. job \in [Processes -> Jobs] /\ job[p] \in Jobs /\ Journal!Idle.at = 0
  BY DEF FileTypeOK, Journal!Idle
<1>2. ASSUME NEW q \in Processes, Journal!Begin(q) PROVE FALSE
  BY <1>1, <1>2, BeginsAt DEF Moves
<1>6. ASSUME NEW q \in Processes, NEW pc \in Labels, Journal!Go(q, pc) PROVE FALSE
  BY <1>1, <1>6 DEF Journal!Go, Jobs
<1>7. ASSUME NEW q \in Processes,
             \/ job' = [job EXCEPT ![q].dir = @ + 1]
             \/ job' = [job EXCEPT ![q].durable = TRUE, ![q].pc = "install"]
             \/ job' = [job EXCEPT ![q].ok = TRUE, ![q].pc = "cleanup"]
             \/ job' = [job EXCEPT ![q] = Journal!Idle]
             \/ job' = job
      PROVE  FALSE
  BY <1>1, <1>7 DEF Jobs
<1>3. ASSUME NEW q \in Processes, Journal!Install(q), q # p PROVE FALSE
  BY <1>1, <1>3 DEF Journal!Install, Journal!Go, Jobs
<1>4. CASE Journal!PowerLoss
  BY <1>1, <1>4 DEF Journal!PowerLoss
<1>5. CASE UNCHANGED Journal!vars
  BY <1>5 DEF Journal!vars
<1>8. {"write", "return", "sync", "cleanup"} \subseteq Labels
  BY DEF Labels
<1>9. ASSUME NEW q \in Processes,
             \/ Journal!Mkdir(q) \/ Journal!WriteTemporary(q) \/ Journal!SynchronizeTemporary(q)
             \/ Journal!SynchronizeDirectory(q) \/ Journal!RemoveAtomicWorkspace(q)
             \/ Journal!Return(q) \/ Journal!RemoveTunerRecoveryJournal(q) \/ Journal!Crash(q)
      PROVE  FALSE
  BY <1>6, <1>7, <1>8, <1>9
     DEF Journal!Mkdir, Journal!WriteTemporary, Journal!SynchronizeTemporary,
         Journal!SynchronizeDirectory,
         Journal!RemoveAtomicWorkspace, Journal!Return,
         Journal!RemoveTunerRecoveryJournal, Journal!Crash
<1> QED
  BY <1>2, <1>3, <1>4, <1>5, <1>9 DEF Journal!Next, Journal!Done

\* The hard link of CreateTunerRecoveryJournalExclusive never replaces a journal
\* that another process has installed in the meantime.
THEOREM ExclusiveIsExclusive ==
    ASSUME Journal!FileAssumption PROVE Journal!Spec => Journal!ExclusiveNeverReplaces
<1>1. ASSUME FileInv, [Journal!Next]_(Journal!vars), NEW p \in Processes,
             job[p].mode = "Exclusive", job[p].at = 0, job'[p].at # 0
      PROVE  Journal!Current = NoFile
  <2>1. Journal!Install(p)
    BY <1>1, InstallsOnlyByInstall DEF FileInv
  <2>2. Journal!At(p, "install") /\ (Journal!CanInstall(p) \/ Journal!Go(p, "cleanup"))
    BY <2>1 DEF Journal!Install
  <2>3. CASE Journal!Go(p, "cleanup")
    <3>1. job'[p].at = job[p].at
      BY <1>1, <2>3, GoMoves DEF FileInv, Labels
    <3> QED
      BY <1>1, <3>1
  <2> QED
    BY <1>1, <2>2, <2>3 DEF Journal!CanInstall
<1>2. FileInv /\ [Journal!Next]_(Journal!vars) =>
        [\A p \in Processes :
           job[p].mode = "Exclusive" /\ job[p].at = 0 /\ job'[p].at # 0
              => Journal!Current = NoFile]_(Journal!vars)
  BY <1>1
<1> QED
  BY <1>2, FileInvariant, PTL DEF Journal!Spec, Journal!ExclusiveNeverReplaces

----------------------------------------------------------------------------
(***************************************************************************)
(* Refinement: the rename installs, the directory sync confirms, returning *)
(* or dying ends a save, and every other system call is a stutter.         *)
(***************************************************************************)
TextsOf(h) == [i \in 1 .. Len(h) |-> h[i].text]
SavingOf(j) == [text |-> j.text, at |-> j.at, ok |-> j.ok]

\* A function over an initial segment of the naturals is a sequence.
LEMMA FunctionIsSeq ==
    ASSUME NEW S, NEW n \in Nat, NEW f \in [1 .. n -> S]
    PROVE  f \in Seq(S) /\ Len(f) = n
OBVIOUS

\* The abstract history has the length of the concrete one and its texts.
LEMMA TextsOfSeq ==
    ASSUME NEW h \in Seq(Whole)
    PROVE  /\ TextsOf(h) \in Seq(Journal!Texts \cup {NoFile})
           /\ Len(TextsOf(h)) = Len(h) /\ Len(h) \in Nat
           /\ \A i \in 1 .. Len(h) : TextsOf(h)[i] = h[i].text
<1>1. Len(h) \in Nat /\ \A i \in 1 .. Len(h) : h[i] \in Whole
  BY LenProperties, ElementOfSeq
<1>2. TextsOf(h) \in [1 .. Len(h) -> Journal!Texts \cup {NoFile}]
  BY <1>1 DEF TextsOf, Whole
<1> QED
  BY <1>1, <1>2, FunctionIsSeq DEF TextsOf

\* A history of one file, seen as texts.
LEMMA TextsOfSingle ==
    ASSUME NEW t \in Journal!Texts \cup {NoFile}
    PROVE  TextsOf(<<Journal!Content(t, TRUE)>>) = <<t>>
<1>1. Journal!Content(t, TRUE) \in Whole /\ Journal!Content(t, TRUE).text = t
  BY DEF Journal!Content, Whole
<1>2. PICK h \in Seq(Whole) :
         /\ h = <<Journal!Content(t, TRUE)>> /\ Len(h) = 1 /\ h[1].text = t
  BY <1>1, SingleSeq
<1>3. /\ TextsOf(h) \in Seq(Journal!Texts \cup {NoFile}) /\ Len(TextsOf(h)) = 1
      /\ TextsOf(h)[1] = t
  <2>1. 1 \in 1 .. Len(h)
    BY <1>2
  <2> QED
    BY <1>2, <2>1, TextsOfSeq
<1>4. <<t>> \in Seq(Journal!Texts \cup {NoFile}) /\ Len(<<t>>) = 1 /\ <<t>>[1] = t
  BY SingleSeq
<1>5. \A i \in 1 .. 1 : TextsOf(h)[i] = <<t>>[i]
  BY <1>3, <1>4
<1> QED
  BY <1>2, <1>3, <1>4, <1>5, SeqEqual

\* An installation appends one text to the abstract history.
LEMMA TextsOfAppend ==
    ASSUME NEW h \in Seq(Whole), NEW t \in Journal!Texts \cup {NoFile}
    PROVE  TextsOf(Append(h, Journal!Content(t, TRUE))) = Append(TextsOf(h), t)
<1>0. Journal!Content(t, TRUE) \in Whole /\ Journal!Content(t, TRUE).text = t
  BY DEF Journal!Content, Whole
<1>1. PICK c \in Whole : c = Journal!Content(t, TRUE) /\ c.text = t
  BY <1>0
<1>a. PICK g : g = Append(h, c)
  OBVIOUS
<1>2. /\ g \in Seq(Whole) /\ Len(g) = Len(h) + 1
      /\ \A i \in 1 .. Len(h) : g[i] = h[i]
      /\ g[Len(h) + 1] = c
  BY <1>a, AppendSeq
<1>3. /\ Len(h) \in Nat /\ Len(TextsOf(h)) = Len(h)
      /\ TextsOf(h) \in Seq(Journal!Texts \cup {NoFile})
      /\ TextsOf(g) \in Seq(Journal!Texts \cup {NoFile})
      /\ Len(TextsOf(g)) = Len(h) + 1
      /\ \A i \in 1 .. Len(h) : TextsOf(h)[i] = h[i].text
      /\ \A i \in 1 .. Len(h) + 1 : TextsOf(g)[i] = g[i].text
  BY <1>2, TextsOfSeq
<1>4. /\ Append(TextsOf(h), t) \in Seq(Journal!Texts \cup {NoFile})
      /\ Len(Append(TextsOf(h), t)) = Len(h) + 1
      /\ \A i \in 1 .. Len(h) : Append(TextsOf(h), t)[i] = TextsOf(h)[i]
      /\ Append(TextsOf(h), t)[Len(h) + 1] = t
  BY <1>3, AppendSeq
<1>5. ASSUME NEW i \in 1 .. Len(h) + 1
      PROVE  TextsOf(g)[i] = Append(TextsOf(h), t)[i]
  <2>1. CASE i \in 1 .. Len(h)
    BY <2>1, <1>2, <1>3, <1>4
  <2>2. CASE i = Len(h) + 1
    BY <2>2, <1>1, <1>2, <1>3, <1>4
  <2> QED
    BY <2>1, <2>2, <1>3
<1> QED
  BY <1>1, <1>a, <1>2, <1>3, <1>4, <1>5, SeqEqual

\* Below, what each step does to the history, safe and saving of AtomicJournal.
AbsHistory == TextsOf(history)
AbsSaving == [p \in Processes |-> Journal!Saving(p)]

\* A step of one save changes only its own saving.
LEMMA SavingMoves ==
    ASSUME FileTypeOK, NEW p \in Processes, Moves(p)
    PROVE  /\ AbsSaving' = [AbsSaving EXCEPT ![p] = SavingOf(job'[p])]
           /\ AbsSaving[p] = SavingOf(job[p])
           /\ AbsSaving'[p] = SavingOf(job'[p])
BY DEF AbsSaving, Journal!Saving, SavingOf, Moves, FileTypeOK

\* The file protocol starts where the abstract journal starts.
LEMMA AtomicInit == ASSUME Journal!Init PROVE Journal!Atomic!Init
<1>1. history = <<Journal!Content(NoFile, TRUE)>>
  BY DEF Journal!Init
<1>2. TextsOf(history) = <<NoFile>>
  BY <1>1, TextsOfSingle
<1>3. \A p \in Processes : job[p] = Journal!Idle
  BY DEF Journal!Init
<1> QED
  BY <1>2, <1>3 DEF Journal!Init, Journal!Atomic!Init, Journal!Atomic!Free,
                    Journal!Saving, Journal!Idle, TextsOf

Savings == [text : Journal!Texts \cup {NoFile}, at : Nat, ok : BOOLEAN]

\* Two abstract saves with the same fields are the same.
LEMMA SavingsEqual ==
    ASSUME NEW r \in Savings, NEW s \in Savings,
           r.text = s.text, r.at = s.at, r.ok = s.ok
    PROVE  r = s
BY DEF Savings

\* A save that begins is a save of the abstract journal that begins.
LEMMA AtomicBegin ==
    ASSUME FileInv, NEW p \in Processes, Journal!Begin(p) PROVE Journal!Atomic!Begin(p)
<1>a. SavingOf(job'[p]) = [text |-> next, at |-> 0, ok |-> FALSE]
  BY BeginsAt DEF FileInv, SavingOf
<1>b. [Journal!Atomic!Free EXCEPT !.text = next] = [text |-> next, at |-> 0, ok |-> FALSE]
  <2>1. /\ Journal!Atomic!Free \in Savings
        /\ Journal!Atomic!Free.at = 0 /\ Journal!Atomic!Free.ok = FALSE
        /\ next \in Journal!Texts
    BY BeginsAt DEF Journal!Atomic!Free, Savings, FileInv
  <2>2. /\ [Journal!Atomic!Free EXCEPT !.text = next] \in Savings
        /\ [Journal!Atomic!Free EXCEPT !.text = next].text = next
        /\ [Journal!Atomic!Free EXCEPT !.text = next].at = 0
        /\ [Journal!Atomic!Free EXCEPT !.text = next].ok = FALSE
    BY <2>1 DEF Savings
  <2>3. [text |-> next, at |-> 0, ok |-> FALSE] \in Savings
    BY <2>1 DEF Savings
  <2> QED
    BY <2>2, <2>3, SavingsEqual
<1>1. /\ Moves(p) /\ next \in Journal!Texts
      /\ SavingOf(job'[p]) = [Journal!Atomic!Free EXCEPT !.text = next]
  BY <1>a, <1>b, BeginsAt DEF FileInv
<1>c. job[p] = Journal!Idle
  BY DEF Journal!Begin, FileInv, JobDone
<1>2. SavingOf(job[p]) = Journal!Atomic!Free /\ history' = history /\ safe' = safe
  BY <1>c DEF Journal!Begin, Journal!Idle, SavingOf, Journal!Atomic!Free
<1>3. /\ AbsSaving[p] = Journal!Atomic!Free
      /\ AbsSaving' = [AbsSaving EXCEPT ![p] = [Journal!Atomic!Free EXCEPT !.text = next]]
  BY <1>1, <1>2, SavingMoves DEF FileInv
<1> QED
  BY <1>1, <1>2, <1>3 DEF Journal!Atomic!Begin, AbsSaving

\* A step that moves only the label and the directory is a stutter.
LEMMA AtomicStutter ==
    ASSUME FileTypeOK, NEW p \in Processes, Moves(p),
           job'[p].text = job[p].text, job'[p].at = job[p].at,
           job'[p].ok = job[p].ok, history' = history, safe' = safe
    PROVE  UNCHANGED Journal!Atomic!absVars
<1>1. SavingOf(job'[p]) = SavingOf(job[p])
  BY DEF SavingOf
<1>2. AbsSaving' = AbsSaving
  BY <1>1, SavingMoves DEF AbsSaving
<1> QED
  BY <1>2 DEF Journal!Atomic!absVars, AbsSaving

\* The rename or the hard link is the moment the abstract journal changes.
LEMMA AtomicInstall ==
    ASSUME FileInv, NEW p \in Processes, Journal!Install(p)
    PROVE  Journal!Atomic!Install(p) \/ UNCHANGED Journal!Atomic!absVars
<1>1. /\ FileTypeOK /\ JobDone(p) /\ Journal!At(p, "install") /\ "cleanup" \in Labels
      /\ history \in Seq(Whole) /\ job[p] \in Jobs
  BY DEF FileInv, FileTypeOK, Journal!Install, Labels
<1>2. job[p].text \in Journal!Texts /\ job[p].durable = TRUE /\ job[p].at = 0
  BY <1>1 DEF JobDone, Journal!At, Jobs
<1>3. CASE /\ history' = Append(history, Journal!Content(job[p].text, job[p].durable))
           /\ job' = [job EXCEPT ![p].at = Len(history) + 1,
                                 ![p].pc = "dirsync"]
  <2>1. /\ AbsHistory' = Append(AbsHistory, job[p].text)
        /\ Len(AbsHistory) = Len(history) /\ Len(history) \in Nat
    BY <1>1, <1>2, <1>3, TextsOfAppend, TextsOfSeq DEF AbsHistory
  <2>2. /\ Moves(p) /\ job'[p] \in Jobs /\ job'[p].at = Len(history) + 1
        /\ job'[p].text = job[p].text /\ job'[p].ok = job[p].ok
    <3>1. Len(history) + 1 \in Nat
      BY <2>1
    <3>2. [job[p] EXCEPT !.at = Len(history) + 1, !.pc = "dirsync"] \in Jobs
      BY <1>1, <3>1 DEF Jobs, Labels
    <3>3. job' = [job EXCEPT
            ![p] = [job[p] EXCEPT !.at = Len(history) + 1, !.pc = "dirsync"]]
      BY <1>1, <1>3 DEF FileTypeOK, Jobs
    <3> QED
      BY <1>1, <3>1, <3>2, <3>3 DEF FileTypeOK, Moves, Jobs
  <2>3. SavingOf(job'[p]) = [SavingOf(job[p]) EXCEPT !.at = Len(history) + 1]
    <3>1. SavingOf(job[p]) \in Savings /\ SavingOf(job'[p]) \in Savings
      BY <1>1, <2>2 DEF SavingOf, Savings, Jobs
    <3>2. /\ SavingOf(job'[p]).text = SavingOf(job[p]).text
          /\ SavingOf(job'[p]).ok = SavingOf(job[p]).ok
          /\ SavingOf(job'[p]).at = Len(history) + 1
      BY <2>2 DEF SavingOf
    <3>3. [SavingOf(job[p]) EXCEPT !.at = Len(history) + 1] \in Savings
      BY <2>1, <3>1 DEF Savings
    <3>4. /\ [SavingOf(job[p]) EXCEPT !.at = Len(history) + 1].text
               = SavingOf(job[p]).text
          /\ [SavingOf(job[p]) EXCEPT !.at = Len(history) + 1].ok
               = SavingOf(job[p]).ok
          /\ [SavingOf(job[p]) EXCEPT !.at = Len(history) + 1].at
               = Len(history) + 1
      BY <3>1 DEF Savings
    <3> QED
      BY <3>1, <3>2, <3>3, <3>4, SavingsEqual
  <2>4. /\ AbsSaving[p] = SavingOf(job[p])
        /\ AbsSaving' = [AbsSaving EXCEPT ![p].at = Len(AbsHistory) + 1]
    BY <1>1, <2>1, <2>2, <2>3, SavingMoves
  <2>5. AbsSaving[p].text \in Journal!Texts /\ AbsSaving[p].at = 0
    BY <1>2, <2>4 DEF SavingOf
  <2>6. AbsSaving[p].text = job[p].text /\ safe' = safe
    BY <2>4 DEF SavingOf, Journal!Install
  <2> QED
    BY <2>1, <2>4, <2>5, <2>6
       DEF Journal!Atomic!Install, AbsSaving, AbsHistory, TextsOf
<1>4. CASE Journal!Go(p, "cleanup") /\ UNCHANGED history
  BY <1>1, <1>4, GoMoves, AtomicStutter DEF Journal!Install
<1> QED
  BY <1>3, <1>4 DEF Journal!Install

\* A directory that is synchronised confirms the abstract save.
LEMMA AtomicConfirm ==
    ASSUME FileInv, NEW p \in Processes, Journal!SynchronizeDirectory(p)
    PROVE  Journal!Atomic!Confirm(p) \/ UNCHANGED Journal!Atomic!absVars
<1>1. /\ FileTypeOK /\ JobDone(p) /\ Journal!At(p, "dirsync") /\ "cleanup" \in Labels
      /\ history \in Seq(Whole) /\ job[p] \in Jobs
  BY DEF FileInv, FileTypeOK, Journal!SynchronizeDirectory, Labels
<1>2. CASE /\ safe' = Len(history)
           /\ job' = [job EXCEPT ![p].ok = TRUE, ![p].pc = "cleanup"]
  <2>1. Len(AbsHistory) = Len(history) /\ AbsHistory' = AbsHistory
    BY <1>1, TextsOfSeq DEF AbsHistory, Journal!SynchronizeDirectory
  <2>2. /\ Moves(p) /\ job'[p] \in Jobs /\ job'[p].ok = TRUE
        /\ job'[p].text = job[p].text /\ job'[p].at = job[p].at
    <3>1. [job[p] EXCEPT !.ok = TRUE, !.pc = "cleanup"] \in Jobs
      BY <1>1 DEF Jobs, Labels
    <3>2. job' = [job EXCEPT
                    ![p] = [job[p] EXCEPT !.ok = TRUE, !.pc = "cleanup"]]
      BY <1>1, <1>2 DEF FileTypeOK, Jobs
    <3> QED
      BY <1>1, <3>1, <3>2 DEF FileTypeOK, Moves, Jobs
  <2>3. SavingOf(job'[p]) = [SavingOf(job[p]) EXCEPT !.ok = TRUE]
    <3>1. SavingOf(job[p]) \in Savings /\ SavingOf(job'[p]) \in Savings
      BY <1>1, <2>2 DEF SavingOf, Savings, Jobs
    <3>2. /\ SavingOf(job'[p]).text = SavingOf(job[p]).text
          /\ SavingOf(job'[p]).at = SavingOf(job[p]).at
          /\ SavingOf(job'[p]).ok = TRUE
      BY <2>2 DEF SavingOf
    <3>3. /\ [SavingOf(job[p]) EXCEPT !.ok = TRUE] \in Savings
          /\ [SavingOf(job[p]) EXCEPT !.ok = TRUE].text = SavingOf(job[p]).text
          /\ [SavingOf(job[p]) EXCEPT !.ok = TRUE].at = SavingOf(job[p]).at
          /\ [SavingOf(job[p]) EXCEPT !.ok = TRUE].ok = TRUE
      BY <3>1 DEF Savings
    <3> QED
      BY <3>1, <3>2, <3>3, SavingsEqual
  <2>4. /\ AbsSaving[p] = SavingOf(job[p])
        /\ AbsSaving' = [AbsSaving EXCEPT ![p].ok = TRUE]
    BY <1>1, <2>2, <2>3, SavingMoves
  <2>5. AbsSaving[p].at # 0
    BY <1>1, <2>4 DEF SavingOf, JobDone, Journal!At
  <2> QED
    BY <1>2, <2>1, <2>4, <2>5
       DEF Journal!Atomic!Confirm, AbsSaving, AbsHistory, TextsOf
<1>3. CASE Journal!Go(p, "cleanup") /\ UNCHANGED safe
  BY <1>1, <1>3, GoMoves, AtomicStutter DEF Journal!SynchronizeDirectory
<1> QED
  BY <1>2, <1>3 DEF Journal!SynchronizeDirectory

\* A process that saves nothing is free in the abstract journal.
LEMMA IdleIsFree == SavingOf(Journal!Idle) = Journal!Atomic!Free
BY DEF SavingOf, Journal!Idle, Journal!Atomic!Free

\* A save that returns, or dies.
LEMMA AtomicEnd ==
    ASSUME FileInv, NEW p \in Processes, job' = [job EXCEPT ![p] = Journal!Idle],
           UNCHANGED <<history, safe, staging, next>>
    PROVE  Journal!Atomic!End(p)
<1>1. FileTypeOK /\ Journal!Idle \in Jobs /\ SavingOf(Journal!Idle) = Journal!Atomic!Free
  BY IdleIsFree DEF FileInv, Jobs, Journal!Idle, Labels, Journal!Modes
<1>2. Moves(p) /\ job'[p] = Journal!Idle
  BY <1>1 DEF Moves, FileTypeOK
<1>3. AbsSaving' = [AbsSaving EXCEPT ![p] = Journal!Atomic!Free]
  BY <1>1, <1>2, SavingMoves
<1> QED
  BY <1>3 DEF Journal!Atomic!End, AbsSaving

\* RemoveTunerRecoveryJournal is the removal of the abstract journal.
LEMMA AtomicRemove ==
    ASSUME FileInv, NEW p \in Processes, Journal!RemoveTunerRecoveryJournal(p)
    PROVE  Journal!Atomic!Remove(p)
<1>1. history \in Seq(Whole) /\ job[p] = Journal!Idle /\ NoFile \in Journal!Texts \cup {NoFile}
  BY DEF FileInv, FileTypeOK, JobDone, Journal!RemoveTunerRecoveryJournal
<1>2. AbsHistory' = Append(AbsHistory, NoFile)
  BY <1>1, TextsOfAppend DEF AbsHistory, Journal!RemoveTunerRecoveryJournal
<1>3. AbsSaving[p] = SavingOf(job[p]) /\ AbsSaving' = AbsSaving
  BY DEF AbsSaving, Journal!Saving, SavingOf, Journal!RemoveTunerRecoveryJournal
<1>4. AbsSaving[p] = Journal!Atomic!Free
  BY <1>1, <1>3, IdleIsFree
<1> QED
  BY <1>2, <1>3, <1>4
     DEF Journal!Atomic!Remove, AbsSaving, AbsHistory, TextsOf,
         Journal!RemoveTunerRecoveryJournal

\* A power loss takes the abstract journal back to a text that is not older
\* than the last confirmed one.
LEMMA AtomicPowerLoss ==
    ASSUME FileInv, Journal!PowerLoss PROVE Journal!Atomic!PowerLoss
<1>1. history \in Seq(Whole) /\ safe \in 1 .. Len(history) /\ Len(history) \in Nat
  BY LenProperties DEF FileInv, FileTypeOK
<1>2. PICK i \in safe .. Len(history) :
         history' = <<Journal!Content(IF history[i].durable THEN history[i].text
                                                    ELSE Torn, TRUE)>>
  BY DEF Journal!PowerLoss
<1>3. i \in 1 .. Len(history) /\ history[i] \in Whole
  BY <1>1, <1>2, ElementOfSeq
<1>4. /\ history[i].text \in Journal!Texts \cup {NoFile}
      /\ history' = <<Journal!Content(history[i].text, TRUE)>>
  BY <1>2, <1>3 DEF Whole
<1>5. /\ AbsHistory' = <<history[i].text>>
      /\ AbsHistory[i] = history[i].text /\ Len(AbsHistory) = Len(history)
  BY <1>1, <1>3, <1>4, TextsOfSingle, TextsOfSeq DEF AbsHistory
<1>6. /\ \A p \in Processes : job'[p] = Journal!Idle
      /\ safe' = 1
  BY DEF Journal!PowerLoss
<1>7. AbsSaving' = [p \in Processes |-> Journal!Atomic!Free]
  <2>1. AbsSaving' = [p \in Processes |-> SavingOf(job'[p])]
    BY DEF AbsSaving, Journal!Saving, SavingOf
  <2> QED
    BY <1>6, <2>1, IdleIsFree
<1>8. \E n \in safe .. Len(AbsHistory) : AbsHistory' = <<AbsHistory[n]>>
  BY <1>5
<1> QED
  BY <1>6, <1>7, <1>8 DEF Journal!Atomic!PowerLoss, AbsSaving, AbsHistory, TextsOf

\* Every step of the file protocol is a step of the abstract journal or none.
LEMMA AtomicStep ==
    ASSUME FileInv, [Journal!Next]_(Journal!vars) PROVE [Journal!Atomic!Next]_(Journal!Atomic!absVars)
<1>1. FileTypeOK /\ {"write", "return", "sync", "cleanup"} \subseteq Labels
  BY DEF FileInv, Labels
<1>2. ASSUME NEW p \in Processes, NEW pc \in Labels, Journal!Go(p, pc),
             history' = history, safe' = safe
      PROVE  UNCHANGED Journal!Atomic!absVars
  BY <1>1, <1>2, GoMoves, AtomicStutter
<1>3. ASSUME NEW p \in Processes,
             Journal!Mkdir(p) \/ Journal!SynchronizeTemporary(p),
             ~Journal!Go(p, "write"), ~Journal!Go(p, "return"), ~Journal!Go(p, "cleanup")
      PROVE  UNCHANGED Journal!Atomic!absVars
  <2>1. job[p] \in Jobs /\ history' = history /\ safe' = safe
    BY <1>1, <1>3 DEF FileTypeOK, Journal!Mkdir, Journal!SynchronizeTemporary
  <2>a. [job[p] EXCEPT !.dir = @ + 1] \in Jobs
    BY <2>1 DEF Jobs
  <2>3. [job[p] EXCEPT !.durable = TRUE, !.pc = "install"] \in Jobs
    BY <2>1 DEF Jobs, Labels
  <2>b. \/ job' = [job EXCEPT ![p] = [job[p] EXCEPT !.dir = @ + 1]]
        \/ job' = [job EXCEPT
                     ![p] = [job[p] EXCEPT !.durable = TRUE, !.pc = "install"]]
    BY <1>1, <1>3, <2>1 DEF FileTypeOK, Jobs, Journal!Mkdir, Journal!SynchronizeTemporary
  <2>2. PICK j \in Jobs :
           /\ job' = [job EXCEPT ![p] = j]
           /\ j.text = job[p].text /\ j.at = job[p].at /\ j.ok = job[p].ok
    BY <2>1, <2>a, <2>3, <2>b DEF Jobs
  <2>4. Moves(p) /\ job'[p] = j
    BY <1>1, <2>2 DEF FileTypeOK, Moves
  <2> QED
    BY <1>1, <2>1, <2>2, <2>4, AtomicStutter
<1>4. ASSUME NEW p \in Processes,
             \/ Journal!Mkdir(p) \/ Journal!WriteTemporary(p) \/ Journal!SynchronizeTemporary(p)
             \/ Journal!RemoveAtomicWorkspace(p)
      PROVE  UNCHANGED Journal!Atomic!absVars
  BY <1>1, <1>2, <1>3, <1>4
     DEF Journal!Mkdir, Journal!WriteTemporary, Journal!SynchronizeTemporary,
         Journal!RemoveAtomicWorkspace
<1>5. ASSUME NEW p \in Processes, Journal!Return(p) \/ Journal!Crash(p) PROVE Journal!Atomic!End(p)
  BY <1>5, AtomicEnd DEF Journal!Return, Journal!Crash
<1>6. CASE UNCHANGED Journal!vars
  BY <1>6 DEF Journal!vars, Journal!Atomic!absVars, Journal!Saving
<1> QED
  BY <1>4, <1>5, <1>6, AtomicBegin, AtomicInstall, AtomicConfirm, AtomicRemove,
     AtomicPowerLoss DEF Journal!Next, Journal!Done, Journal!Atomic!Next

\* The file protocol is the atomic journal its callers rely on: whole records,
\* and success only for what is installed and safe
\* (InstallSerializedJournalAtomically).
THEOREM ImplementsAtomicJournal ==
    ASSUME Journal!FileAssumption PROVE Journal!Spec => Journal!IsAtomicJournal
<1>1. Journal!Init => Journal!Atomic!Init
  BY AtomicInit
<1>2. FileInv /\ [Journal!Next]_(Journal!vars) => [Journal!Atomic!Next]_(Journal!Atomic!absVars)
  BY AtomicStep
<1> QED
  BY <1>1, <1>2, FileInvariant, PTL DEF Journal!Spec, Journal!IsAtomicJournal,
                                        Journal!Atomic!Spec

----------------------------------------------------------------------------
(***************************************************************************)
(* The application's directories and preferences, for any number of        *)
(* processes, crashes and power losses.                                    *)
(*                                                                         *)
(* None of the properties is inductive.  Doing says what one process has   *)
(* achieved by the time it is at a step: the directories it has passed are *)
(* durable, the temporary directory it works in is its own, and what it is *)
(* about to rename is the record it was asked to save.  That two processes *)
(* never share a temporary directory follows: a directory has one maker.   *)
(***************************************************************************)
Prefs == [verified : Inputs \cup {None}, ssh : Inputs]
Contents == Prefs \cup {None, Torn}
Working == {"write", "fill", "rename", "discard", "remove"}
Busy == Working \cup {"dir", "sync", "ready", "allocate"}
Progress ==
    [pc : Busy \cup {"idle", "returned"}, kind : {None, "target", "fields"},
     input : {None}, prefs : Prefs \cup {None}, dir : 1 .. 4,
     slot : Storage!Slots, ok : BOOLEAN]

\* What process p with progress r has achieved, with directories d, temporary
\* directories t and preferences f.
Doing(p, r, d, t, f) ==
    /\ r.pc \in {"dir", "sync"} =>
          \A k \in 1 .. r.dir - 1 : d[Storage!Order[k]] = "durable"
    /\ r.pc = "ready" => \A x \in Storage!Dirs : d[x] = "durable"
    /\ r.pc \in Busy => r.prefs \in Prefs
    /\ r.pc \in Working => t[r.slot].p = p
    /\ r.pc = "rename" => t[r.slot].content = r.prefs
    /\ r.pc = "remove" \/ (r.pc = "returned" /\ r.ok) => f # Torn

DiskTyped ==
    /\ dirs \in [Storage!Dirs -> {"absent", "present", "durable"}]
    /\ file \in Contents /\ revealed \subseteq Contents
    /\ tmp \in [Storage!Slots -> [p : Processes \cup {None}, content : Contents]]
    /\ losses \in Nat
StorageInv ==
    /\ DiskTyped
    /\ proc \in [Processes -> Progress]
    /\ \A p \in Processes : Doing(p, proc[p], dirs, tmp, file)
    /\ Storage!PreferencesWhole

\* The four directories in their order.
LEMMA Ordered ==
    /\ \A k \in 1 .. 4 : Storage!Order[k] \in Storage!Dirs
    /\ \A d \in Storage!Dirs : \E k \in 1 .. 4 : d = Storage!Order[k]
<1>1. /\ Storage!Order[1] = "state" /\ Storage!Order[2] = "logs"
      /\ Storage!Order[3] = "recovery" /\ Storage!Order[4] = "reports"
  BY DEF Storage!Order
<1>2. \A k \in 1 .. 4 : k = 1 \/ k = 2 \/ k = 3 \/ k = 4
  OBVIOUS
<1> QED
  BY <1>1, <1>2 DEF Storage!Dirs, Storage!Children

\* A process at rest claims nothing.
LEMMA IdleFacts ==
    ASSUME Storage!StorageAssumption
    PROVE  /\ Storage!Idle \in Progress /\ Storage!Idle.pc = "idle"
           /\ 0 \in Storage!Slots
           /\ \A p, d, t, f : Doing(p, Storage!Idle, d, t, f)
<1>1. 0 \in Storage!Slots
  BY DEF Storage!StorageAssumption, Storage!Slots
<1>2. Storage!Idle \in Progress /\ Storage!Idle.pc = "idle"
  BY <1>1 DEF Storage!Idle, Progress
<1> QED
  BY <1>1, <1>2 DEF Doing, Busy, Working

\* Nothing is on the disk at first.
LEMMA StorageInit ==
    ASSUME Storage!StorageAssumption, Storage!Init PROVE StorageInv
<1>1. DiskTyped
  BY DEF DiskTyped, Storage!Init, Contents, Storage!NoSlot
<1>2. proc \in [Processes -> Progress]
  BY IdleFacts DEF Storage!Init
<1>3. \A p \in Processes : Doing(p, proc[p], dirs, tmp, file)
  BY IdleFacts DEF Storage!Init
<1>4. Storage!PreferencesWhole
  BY DEF Storage!Init, Storage!PreferencesWhole
<1> QED
  BY <1>1, <1>2, <1>3, <1>4 DEF StorageInv

\* A step of one process keeps what the others have achieved, when it takes
\* no durable directory away, leaves the temporary directories of others
\* alone and does not tear the file.
LEMMA ProcessMoves ==
    ASSUME Storage!StorageAssumption, StorageInv, NEW p \in Processes,
           NEW r \in Progress, Storage!Set(p, r), DiskTyped',
           Storage!PreferencesWhole',
           \A d \in Storage!Dirs : dirs[d] = "durable" => dirs'[d] = "durable",
           \A i \in Storage!Slots : tmp'[i] = tmp[i] \/ tmp[i].p \in {None, p},
           file' = file \/ file' # Torn,
           Doing(p, r, dirs', tmp', file')
    PROVE  StorageInv'
<1>1. proc \in [Processes -> Progress]
  BY DEF StorageInv
<1>2. proc' \in [Processes -> Progress] /\ proc'[p] = r
      /\ \A q \in Processes \ {p} : proc'[q] = proc[q]
  BY <1>1 DEF Storage!Set
<1>3. ASSUME NEW q \in Processes, q # p
      PROVE  Doing(q, proc[q], dirs', tmp', file')
  <2>1. Doing(q, proc[q], dirs, tmp, file) /\ proc[q] \in Progress
    BY <1>1 DEF StorageInv
  <2>2. PICK b : b = proc[q]
    OBVIOUS
  <2>3. b.dir \in 1 .. 4 /\ b.slot \in Storage!Slots
    BY <2>1, <2>2 DEF Progress
  <2>4. b.pc \in Working => tmp'[b.slot] = tmp[b.slot]
    BY <1>3, <2>1, <2>2, <2>3 DEF Doing, Storage!StorageAssumption
  <2>5. \A k \in 1 .. b.dir - 1 : k \in 1 .. 4 /\ Storage!Order[k] \in Storage!Dirs
    BY <2>3, Ordered
  <2> QED
    BY <2>1, <2>2, <2>4, <2>5 DEF Doing, Working
<1>4. \A q \in Processes : Doing(q, proc'[q], dirs', tmp', file')
  BY <1>2, <1>3
<1> QED
  BY <1>2, <1>4 DEF StorageInv

\* What is known of one process and of the disk.
LEMMA ProcessFacts ==
    ASSUME StorageInv, NEW p \in Processes
    PROVE  /\ proc[p] \in Progress /\ Doing(p, proc[p], dirs, tmp, file)
           /\ DiskTyped /\ Storage!PreferencesWhole
           /\ proc[p].dir \in 1 .. 4 /\ proc[p].slot \in Storage!Slots
           /\ proc[p].prefs \in Prefs \cup {None}
           /\ proc[p].kind \in {None, "target", "fields"}
<1>1. /\ proc[p] \in Progress /\ Doing(p, proc[p], dirs, tmp, file)
      /\ DiskTyped /\ Storage!PreferencesWhole
  BY DEF StorageInv
<1> QED
  BY <1>1 DEF Progress

\* A step that leaves the disk alone.
LEMMA QuietMoves ==
    ASSUME Storage!StorageAssumption, StorageInv, NEW p \in Processes,
           NEW r \in Progress, Storage!Set(p, r),
           UNCHANGED <<dirs, file, revealed, tmp, saved, losses>>,
           Doing(p, r, dirs, tmp, file)
    PROVE  StorageInv'
<1>1. DiskTyped' /\ Storage!PreferencesWhole'
  BY ProcessFacts DEF DiskTyped, Storage!PreferencesWhole
<1> QED
  BY <1>1, ProcessMoves

\* A call that returns without success claims nothing.
LEMMA ReturnsFacts ==
    ASSUME Storage!StorageAssumption, StorageInv, NEW p \in Processes,
           NEW b \in BOOLEAN, Storage!Returns(p, b)
    PROVE  \E r \in Progress :
              /\ Storage!Set(p, r) /\ r.pc = "returned" /\ r.ok = b
              /\ \A d, t, f : (b => f # Torn) => Doing(p, r, d, t, f)
<1>1. PICK r : r = [Storage!Idle EXCEPT !.pc = "returned", !.ok = b,
                        !.kind = proc[p].kind, !.prefs = proc[p].prefs]
  OBVIOUS
<1>2. r \in Progress /\ r.pc = "returned" /\ r.ok = b
  BY <1>1, ProcessFacts, IdleFacts DEF Progress
<1>3. \A d, t, f : (b => f # Torn) => Doing(p, r, d, t, f)
  BY <1>2 DEF Doing, Busy, Working
<1>4. Storage!Set(p, r)
  BY <1>1 DEF Storage!Returns
<1> QED
  BY <1>2, <1>3, <1>4

\* A step to another label.
LEMMA GotoFacts ==
    ASSUME StorageInv, NEW p \in Processes,
           NEW l \in Busy, Storage!Goto(p, l)
    PROVE  \E r \in Progress :
              /\ Storage!Set(p, r) /\ r.pc = l /\ r.dir = proc[p].dir
              /\ r.slot = proc[p].slot /\ r.prefs = proc[p].prefs
<1>1. PICK r : r = [proc[p] EXCEPT !.pc = l]
  OBVIOUS
<1>2. /\ r \in Progress /\ r.pc = l /\ r.dir = proc[p].dir
      /\ r.slot = proc[p].slot /\ r.prefs = proc[p].prefs
  BY <1>1, ProcessFacts DEF Progress
<1> QED
  BY <1>1, <1>2 DEF Storage!Goto

----------------------------------------------------------------------------
\* A save begins with what the user entered, and with the verified target of
\* a file that could be read.
LEMMA SaveBegins ==
    ASSUME Storage!StorageAssumption, StorageInv, NEW p \in Processes,
           Storage!Save(p) \/ Storage!SaveFields(p)
    PROVE  StorageInv'
<1>1. UNCHANGED <<dirs, file, revealed, tmp, saved, losses>>
  BY DEF Storage!Save, Storage!SaveFields
<1>2. ASSUME NEW k \in {"target", "fields"}, NEW x \in Prefs,
             Storage!Set(p, [Storage!Idle EXCEPT !.pc = "dir", !.kind = k,
                                                 !.prefs = x])
      PROVE  StorageInv'
  <2>1. PICK r : r = [Storage!Idle EXCEPT !.pc = "dir", !.kind = k, !.prefs = x]
    OBVIOUS
  <2>2. r \in Progress /\ r.pc = "dir" /\ r.prefs = x /\ r.dir = 1
    BY <2>1, IdleFacts DEF Progress, Busy, Storage!Idle
  <2>3. Doing(p, r, dirs, tmp, file)
    BY <2>2 DEF Doing, Working
  <2> QED
    BY <1>1, <1>2, <2>1, <2>2, <2>3, QuietMoves
<1>3. CASE Storage!Save(p)
  <2>1. PICK i \in Inputs :
           Storage!Set(p, [Storage!Idle EXCEPT !.pc = "dir", !.kind = "target",
                                       !.prefs = Storage!Preferences(i, i)])
    BY <1>3 DEF Storage!Save
  <2>2. Storage!Preferences(i, i) \in Prefs
    BY DEF Storage!Preferences, Prefs
  <2> QED
    BY <1>2, <2>1, <2>2
<1>4. CASE Storage!SaveFields(p)
  <2>1. CASE file = Torn
    <3>1. PICK r : r = [Storage!Idle EXCEPT !.pc = "returned", !.kind = "fields"]
      OBVIOUS
    <3>2. r \in Progress /\ r.pc = "returned" /\ r.ok = FALSE
      BY <3>1, IdleFacts DEF Progress, Storage!Idle
    <3>3. Doing(p, r, dirs, tmp, file)
      BY <3>2 DEF Doing, Busy, Working
    <3>4. Storage!Set(p, r)
      BY <1>4, <2>1, <3>1 DEF Storage!SaveFields
    <3> QED
      BY <1>1, <3>2, <3>3, <3>4, QuietMoves
  <2>2. CASE file # Torn
    <3>1. PICK i \in Inputs :
             Storage!Set(p, [Storage!Idle EXCEPT !.pc = "dir", !.kind = "fields",
                        !.prefs = Storage!Preferences(
                            IF file = None THEN None ELSE file.verified, i)])
      BY <1>4, <2>2 DEF Storage!SaveFields
    <3>2. PICK v : v = IF file = None THEN None ELSE file.verified
      OBVIOUS
    <3>3. v \in Inputs \cup {None}
      BY <2>2, <3>2, ProcessFacts DEF DiskTyped, Contents, Prefs
    <3>4. Storage!Preferences(v, i) \in Prefs
      BY <3>3 DEF Storage!Preferences, Prefs
    <3> QED
      BY <1>2, <3>1, <3>2, <3>4
  <2> QED
    BY <2>1, <2>2
<1> QED
  BY <1>3, <1>4

\* A call that fails, dies or is acknowledged leaves the disk as it is.
LEMMA FailMoves ==
    ASSUME Storage!StorageAssumption, StorageInv, NEW p \in Processes,
           UNCHANGED <<dirs, file, revealed, tmp, saved, losses>>,
           Storage!Returns(p, FALSE) \/ Storage!Set(p, Storage!Idle)
    PROVE  StorageInv'
<1>1. CASE Storage!Returns(p, FALSE)
  BY <1>1, ReturnsFacts, QuietMoves
<1>2. CASE Storage!Set(p, Storage!Idle)
  BY <1>2, IdleFacts, QuietMoves
<1> QED
  BY <1>1, <1>2

\* The directories: a step never takes the durability of one away.
LEMMA DirectoryMoves ==
    ASSUME Storage!StorageAssumption, StorageInv, NEW p \in Processes,
           Storage!MakeDirectory(p) \/ Storage!SyncDirectory(p) \/ Storage!Ready(p)
    PROVE  StorageInv'
<1>1. /\ proc[p] \in Progress /\ Doing(p, proc[p], dirs, tmp, file)
      /\ proc[p].dir \in 1 .. 4 /\ Storage!Current(p) \in Storage!Dirs
      /\ dirs \in [Storage!Dirs -> {"absent", "present", "durable"}]
  BY ProcessFacts, Ordered DEF Storage!Current, DiskTyped
<1>2. UNCHANGED <<file, revealed, tmp, saved, losses>>
  BY DEF Storage!MakeDirectory, Storage!SyncDirectory, Storage!Ready, Storage!DiskOnly
<1>3. ASSUME dirs' \in [Storage!Dirs -> {"absent", "present", "durable"}]
      PROVE  DiskTyped' /\ Storage!PreferencesWhole'
  BY <1>2, <1>3, ProcessFacts DEF DiskTyped, Storage!PreferencesWhole
<1>4. CASE UNCHANGED dirs /\ Storage!Returns(p, FALSE)
  BY <1>2, <1>4, FailMoves
<1>5. CASE Storage!MakeDirectory(p) /\ Storage!Goto(p, "sync")
           /\ dirs' = [dirs EXCEPT ![Storage!Current(p)] =
                          IF @ = "absent" THEN "present" ELSE @]
  <2>1. PICK r \in Progress :
           /\ Storage!Set(p, r) /\ r.pc = "sync" /\ r.dir = proc[p].dir
           /\ r.slot = proc[p].slot /\ r.prefs = proc[p].prefs
    BY <1>5, GotoFacts DEF Busy
  <2>2. /\ dirs' \in [Storage!Dirs -> {"absent", "present", "durable"}]
        /\ \A d \in Storage!Dirs : dirs[d] = "durable" => dirs'[d] = "durable"
    BY <1>1, <1>5
  <2>3. \A k \in 1 .. r.dir - 1 : k \in 1 .. 4 /\ Storage!Order[k] \in Storage!Dirs
    BY <1>1, <2>1, Ordered
  <2>4. proc[p].pc = "dir"
    BY <1>5 DEF Storage!MakeDirectory, Storage!At
  <2>5. Doing(p, r, dirs', tmp', file')
    BY <1>1, <1>2, <2>1, <2>2, <2>3, <2>4 DEF Doing, Busy, Working
  <2> QED
    BY <1>2, <1>3, <2>1, <2>2, <2>5, ProcessMoves
<1>6. CASE /\ Storage!SyncDirectory(p)
           /\ dirs' = [dirs EXCEPT ![Storage!Current(p)] = "durable"]
  <2>1. /\ dirs' \in [Storage!Dirs -> {"absent", "present", "durable"}]
        /\ \A d \in Storage!Dirs : dirs[d] = "durable" => dirs'[d] = "durable"
        /\ dirs'[Storage!Order[proc[p].dir]] = "durable"
    BY <1>1, <1>6 DEF Storage!Current
  <2>2. proc[p].pc = "sync" /\ proc[p].prefs \in Prefs
    BY <1>1, <1>6 DEF Storage!SyncDirectory, Storage!At, Doing, Busy
  <2>3. \A k \in 1 .. proc[p].dir : dirs'[Storage!Order[k]] = "durable"
    <3>1. \A k \in 1 .. proc[p].dir :
             k \in 1 .. 4 /\ Storage!Order[k] \in Storage!Dirs
                      /\ (k = proc[p].dir \/ k \in 1 .. proc[p].dir - 1)
      BY <1>1, Ordered
    <3> QED
      BY <1>1, <2>1, <2>2, <3>1 DEF Doing
  <2>4. CASE /\ proc[p].dir < 4
             /\ Storage!Set(p, [proc[p] EXCEPT !.pc = "dir", !.dir = @ + 1])
    <3>0. PICK n : n = proc[p].dir + 1
      OBVIOUS
    <3>1. PICK r : r = [proc[p] EXCEPT !.pc = "dir", !.dir = n]
      OBVIOUS
    <3>2. /\ r \in Progress /\ r.pc = "dir" /\ r.dir = proc[p].dir + 1
          /\ r.prefs = proc[p].prefs
      <4>1. n \in 1 .. 4 /\ "dir" \in Busy
        BY <1>1, <2>4, <3>0 DEF Busy
      <4>2. r \in Progress /\ r.pc = "dir" /\ r.dir = n /\ r.prefs = proc[p].prefs
        BY <1>1, <3>1, <4>1 DEF Progress
      <4> QED
        BY <3>0, <4>2
    <3>3. r.dir - 1 = proc[p].dir
      BY <1>1, <3>2
    <3>4. Doing(p, r, dirs', tmp', file')
      BY <2>2, <2>3, <3>2, <3>3 DEF Doing, Working
    <3> QED
      BY <1>2, <1>3, <2>1, <2>4, <3>0, <3>1, <3>2, <3>4, ProcessMoves
  <2>5. CASE proc[p].dir = 4 /\ Storage!Goto(p, "ready")
    <3>1. PICK r \in Progress : Storage!Set(p, r) /\ r.pc = "ready"
                                /\ r.prefs = proc[p].prefs
      BY <2>5, GotoFacts DEF Busy
    <3>2. \A x \in Storage!Dirs : dirs'[x] = "durable"
      BY <2>3, <2>5, Ordered
    <3>3. Doing(p, r, dirs', tmp', file')
      BY <2>2, <3>1, <3>2 DEF Doing, Working
    <3> QED
      BY <1>2, <1>3, <2>1, <3>1, <3>3, ProcessMoves
  <2>6. CASE Storage!Returns(p, FALSE)
    <3>1. PICK r \in Progress :
             Storage!Set(p, r) /\ \A d, t, f : Doing(p, r, d, t, f)
      BY <2>6, ReturnsFacts
    <3> QED
      BY <1>2, <1>3, <2>1, <3>1, ProcessMoves
  <2> QED
    <3>1. proc[p].dir < 4 \/ proc[p].dir = 4
      BY <1>1
    <3>2. \/ Storage!Returns(p, FALSE)
          \/ IF proc[p].dir < 4
               THEN Storage!Set(p, [proc[p] EXCEPT !.pc = "dir", !.dir = @ + 1])
               ELSE Storage!Goto(p, "ready")
      BY <1>6 DEF Storage!SyncDirectory
    <3> QED
      BY <2>4, <2>5, <2>6, <3>1, <3>2
<1>7. CASE Storage!Ready(p)
  <2>1. /\ proc[p].pc = "ready" /\ Storage!Goto(p, "allocate") /\ UNCHANGED dirs
    BY <1>7 DEF Storage!Ready, Storage!At
  <2>2. PICK r \in Progress : Storage!Set(p, r) /\ r.pc = "allocate"
                              /\ r.prefs = proc[p].prefs
    BY <2>1, GotoFacts DEF Busy
  <2>3. Doing(p, r, dirs, tmp, file)
    BY <1>1, <2>1, <2>2 DEF Doing, Busy, Working
  <2> QED
    BY <1>2, <2>1, <2>2, <2>3, QuietMoves
<1> QED
  BY <1>4, <1>5, <1>6, <1>7 DEF Storage!MakeDirectory, Storage!SyncDirectory

----------------------------------------------------------------------------
\* A temporary directory is made only where there is none.
LEMMA AllocateMoves ==
    ASSUME Storage!StorageAssumption, StorageInv, NEW p \in Processes,
           Storage!Allocate(p)
    PROVE  StorageInv'
<1>1. /\ proc[p] \in Progress /\ Doing(p, proc[p], dirs, tmp, file)
      /\ DiskTyped /\ proc[p].slot \in Storage!Slots /\ proc[p].prefs \in Prefs
  BY ProcessFacts DEF Storage!Allocate, Storage!At, Doing, Busy
<1>2. UNCHANGED <<dirs, file, revealed, saved, losses>>
  BY DEF Storage!Allocate, Storage!DiskOnly
<1>3. CASE UNCHANGED tmp /\ Storage!Returns(p, FALSE)
  BY <1>2, <1>3, FailMoves
<1>4. CASE /\ UNCHANGED tmp /\ proc[p].slot + 1 \in Storage!Slots
           /\ Storage!Set(p, [proc[p] EXCEPT !.slot = @ + 1])
  <2>0. PICK n : n = proc[p].slot + 1
    OBVIOUS
  <2>1. PICK r : r = [proc[p] EXCEPT !.slot = n]
    OBVIOUS
  <2>2. r \in Progress /\ r.pc = proc[p].pc /\ r.prefs = proc[p].prefs
    BY <1>1, <1>4, <2>0, <2>1 DEF Progress
  <2>3. r.pc = "allocate"
    BY <2>2 DEF Storage!Allocate, Storage!At
  <2>4. Doing(p, r, dirs, tmp, file)
    BY <1>1, <2>2, <2>3 DEF Doing, Working
  <2> QED
    BY <1>2, <1>4, <2>0, <2>1, <2>2, <2>4, QuietMoves
<1>5. CASE /\ tmp[proc[p].slot] = Storage!NoSlot /\ Storage!Goto(p, "write")
           /\ tmp' = [tmp EXCEPT ![proc[p].slot] = [p |-> p, content |-> None]]
  <2>1. PICK r \in Progress : /\ Storage!Set(p, r) /\ r.pc = "write"
                              /\ r.slot = proc[p].slot /\ r.prefs = proc[p].prefs
    BY <1>5, GotoFacts DEF Busy, Working
  <2>2. /\ tmp' \in [Storage!Slots -> [p : Processes \cup {None}, content : Contents]]
        /\ tmp'[r.slot].p = p
        /\ \A i \in Storage!Slots : tmp'[i] = tmp[i] \/ tmp[i].p \in {None, p}
    BY <1>1, <1>5, <2>1 DEF DiskTyped, Contents, Storage!NoSlot
  <2>3. DiskTyped' /\ Storage!PreferencesWhole'
    BY <1>1, <1>2, <2>2, ProcessFacts DEF DiskTyped, Storage!PreferencesWhole
  <2>4. Doing(p, r, dirs', tmp', file')
    BY <1>1, <2>1, <2>2 DEF Doing
  <2> QED
    BY <1>2, <2>1, <2>2, <2>3, <2>4, ProcessMoves
<1> QED
  BY <1>3, <1>4, <1>5 DEF Storage!Allocate

\* A process that gives up goes on to remove its temporary directory.
LEMMA DiscardMoves ==
    ASSUME Storage!StorageAssumption, StorageInv, NEW p \in Processes,
           Storage!Goto(p, "discard"), proc[p].pc \in Working,
           UNCHANGED <<dirs, file, revealed, tmp, saved, losses>>
    PROVE  StorageInv'
<1>1. PICK r \in Progress : /\ Storage!Set(p, r) /\ r.pc = "discard"
                            /\ r.slot = proc[p].slot /\ r.prefs = proc[p].prefs
  BY GotoFacts DEF Busy, Working
<1>2. Doing(p, r, dirs, tmp, file)
  BY <1>1, ProcessFacts DEF Doing, Busy
<1> QED
  BY <1>1, <1>2, QuietMoves

\* A process writes into the directory it made.
LEMMA ContentMoves ==
    ASSUME Storage!StorageAssumption, StorageInv, NEW p \in Processes,
           proc[p].pc \in Working, NEW c \in Contents,
           NEW l \in {"fill", "rename"}, Storage!Goto(p, l),
           tmp' = [tmp EXCEPT ![proc[p].slot].content = c],
           UNCHANGED <<dirs, file, revealed, saved, losses>>,
           l = "rename" => c = proc[p].prefs
    PROVE  StorageInv'
<1>1. /\ Doing(p, proc[p], dirs, tmp, file) /\ DiskTyped
      /\ proc[p].slot \in Storage!Slots
  BY ProcessFacts
<1>2. PICK r \in Progress : /\ Storage!Set(p, r) /\ r.pc = l
                            /\ r.slot = proc[p].slot /\ r.prefs = proc[p].prefs
  BY GotoFacts DEF Busy, Working
<1>3. tmp[proc[p].slot].p = p
  BY <1>1 DEF Doing
<1>4. PICK e : e = [tmp[proc[p].slot] EXCEPT !.content = c]
  OBVIOUS
<1>5. /\ e \in [p : Processes \cup {None}, content : Contents]
      /\ e.p = p /\ e.content = c
  BY <1>1, <1>3, <1>4 DEF DiskTyped
<1>6. tmp' = [tmp EXCEPT ![proc[p].slot] = e]
  BY <1>1, <1>4 DEF DiskTyped
<1>7. /\ tmp' \in [Storage!Slots -> [p : Processes \cup {None}, content : Contents]]
      /\ tmp'[r.slot] = e
      /\ \A i \in Storage!Slots : tmp'[i] = tmp[i] \/ tmp[i].p \in {None, p}
  BY <1>1, <1>2, <1>3, <1>5, <1>6 DEF DiskTyped
<1>8. DiskTyped' /\ Storage!PreferencesWhole'
  BY <1>1, <1>7, ProcessFacts DEF DiskTyped, Storage!PreferencesWhole
<1>9. Doing(p, r, dirs', tmp', file')
  BY <1>1, <1>2, <1>5, <1>7 DEF Doing, Busy
<1> QED
  BY <1>2, <1>7, <1>8, <1>9, ProcessMoves

\* The record that was asked for becomes the preferences.
LEMMA RenameMoves ==
    ASSUME Storage!StorageAssumption, StorageInv, NEW p \in Processes,
           Storage!Rename(p)
    PROVE  StorageInv'
<1>1. /\ Doing(p, proc[p], dirs, tmp, file) /\ DiskTyped
      /\ proc[p].slot \in Storage!Slots /\ proc[p].pc = "rename"
      /\ UNCHANGED <<dirs, losses>>
  BY ProcessFacts DEF Storage!Rename, Storage!At
<1>2. CASE Storage!Goto(p, "discard") /\ UNCHANGED <<file, revealed, tmp, saved>>
  BY <1>1, <1>2, DiscardMoves DEF Working
<1>3. CASE /\ file' = tmp[proc[p].slot].content
           /\ revealed' = revealed \cup {file', Torn}
           /\ tmp' = [tmp EXCEPT ![proc[p].slot].content = None]
           /\ saved' = saved \cup {proc[p].prefs}
           /\ Storage!Goto(p, "remove")
  <2>1. PICK r \in Progress : /\ Storage!Set(p, r) /\ r.pc = "remove"
                              /\ r.slot = proc[p].slot /\ r.prefs = proc[p].prefs
    BY <1>3, GotoFacts DEF Busy, Working
  <2>2. file' = proc[p].prefs /\ file' \in Prefs /\ file' # Torn
        /\ tmp[proc[p].slot].p = p
    BY <1>1, <1>3 DEF Doing, Busy, Working, Prefs, Storage!StorageAssumption
  <2>3. PICK e : e = [tmp[proc[p].slot] EXCEPT !.content = None]
    OBVIOUS
  <2>4. e \in [p : Processes \cup {None}, content : Contents] /\ e.p = p
    BY <1>1, <2>2, <2>3 DEF DiskTyped, Contents
  <2>5. tmp' = [tmp EXCEPT ![proc[p].slot] = e]
    BY <1>1, <1>3, <2>3 DEF DiskTyped
  <2>6. /\ tmp' \in [Storage!Slots -> [p : Processes \cup {None}, content : Contents]]
        /\ tmp'[r.slot].p = p
        /\ \A i \in Storage!Slots : tmp'[i] = tmp[i] \/ tmp[i].p \in {None, p}
    BY <1>1, <2>1, <2>2, <2>4, <2>5 DEF DiskTyped
  <2>7. DiskTyped'
    BY <1>1, <1>3, <2>2, <2>6 DEF DiskTyped, Contents
  <2>8. Storage!PreferencesWhole'
    BY <1>3, <2>2 DEF Storage!PreferencesWhole
  <2>9. Doing(p, r, dirs', tmp', file')
    BY <1>1, <2>1, <2>2, <2>6 DEF Doing, Busy
  <2> QED
    BY <1>1, <2>1, <2>2, <2>6, <2>7, <2>8, <2>9, ProcessMoves
<1> QED
  BY <1>2, <1>3 DEF Storage!Rename

\* A temporary directory is removed by the process that made it.
LEMMA RemoveMoves ==
    ASSUME Storage!StorageAssumption, StorageInv, NEW p \in Processes,
           Storage!RemoveTemporary(p)
    PROVE  StorageInv'
<1>1. /\ Doing(p, proc[p], dirs, tmp, file) /\ DiskTyped
      /\ proc[p].slot \in Storage!Slots /\ proc[p].pc \in {"discard", "remove"}
      /\ UNCHANGED <<dirs, file, revealed, saved, losses>>
  BY ProcessFacts DEF Storage!RemoveTemporary, Storage!DiskOnly
<1>2. PICK b \in BOOLEAN : b = (proc[p].pc = "remove")
  OBVIOUS
<1>3. PICK r \in Progress :
         Storage!Set(p, r) /\ \A d, t, f : (b => f # Torn) => Doing(p, r, d, t, f)
  BY <1>2, ReturnsFacts DEF Storage!RemoveTemporary, Storage!At
<1>4. Doing(p, r, dirs', tmp', file')
  <2>1. b => file' # Torn
    BY <1>1, <1>2 DEF Doing
  <2> QED
    BY <1>3, <2>1
<1>5. tmp' = tmp \/ tmp' = [tmp EXCEPT ![proc[p].slot] = Storage!NoSlot]
  BY DEF Storage!RemoveTemporary
<1>6. tmp[proc[p].slot].p = p
  BY <1>1 DEF Doing, Working
<1>7. /\ tmp' \in [Storage!Slots -> [p : Processes \cup {None}, content : Contents]]
      /\ \A i \in Storage!Slots : tmp'[i] = tmp[i] \/ tmp[i].p \in {None, p}
  BY <1>1, <1>5, <1>6 DEF DiskTyped, Storage!NoSlot, Contents
<1>8. DiskTyped' /\ Storage!PreferencesWhole'
  BY <1>1, <1>7, ProcessFacts DEF DiskTyped, Storage!PreferencesWhole
<1> QED
  BY <1>1, <1>3, <1>4, <1>7, <1>8, ProcessMoves

\* After a power loss no process runs, and the file is one of those revealed.
LEMMA PowerLossMoves ==
    ASSUME Storage!StorageAssumption, StorageInv, Storage!PowerLoss
    PROVE  StorageInv'
<1>1. DiskTyped /\ proc' = [p \in Processes |-> Storage!Idle] /\ losses' = losses + 1
  BY DEF StorageInv, Storage!PowerLoss
<1>2. dirs' \in [Storage!Dirs -> {"absent", "present", "durable"}]
  BY DEF Storage!PowerLoss
<1>3. file' \in Contents /\ revealed' \subseteq Contents
  BY <1>1 DEF Storage!PowerLoss, DiskTyped, Contents
<1>4. tmp' \in [Storage!Slots -> [p : Processes \cup {None}, content : Contents]]
  BY <1>1 DEF Storage!PowerLoss, DiskTyped, Storage!NoSlot, Contents
<1>5. DiskTyped'
  BY <1>1, <1>2, <1>3, <1>4 DEF DiskTyped
<1>6. Storage!PreferencesWhole'
  BY <1>1 DEF Storage!PreferencesWhole, DiskTyped
<1>7. /\ proc' \in [Processes -> Progress]
      /\ \A p \in Processes : Doing(p, proc'[p], dirs', tmp', file')
  BY <1>1, IdleFacts
<1> QED
  BY <1>5, <1>6, <1>7 DEF StorageInv

\* Every step keeps the invariant.
LEMMA StorageStep ==
    ASSUME Storage!StorageAssumption, StorageInv, [Storage!Next]_(Storage!vars)
    PROVE  StorageInv'
<1>1. ASSUME NEW p \in Processes, Storage!Truncate(p) PROVE StorageInv'
  <2>1. proc[p].pc = "write" /\ UNCHANGED <<dirs, file, revealed, saved, losses>>
    BY <1>1 DEF Storage!Truncate, Storage!At, Storage!DiskOnly
  <2>2. CASE Storage!Goto(p, "discard") /\ UNCHANGED tmp
    BY <2>1, <2>2, DiscardMoves DEF Working
  <2>3. CASE /\ Storage!Goto(p, "fill")
             /\ tmp' = [tmp EXCEPT ![proc[p].slot].content = Torn]
    BY <2>1, <2>3, ContentMoves DEF Working, Contents
  <2> QED
    BY <1>1, <2>2, <2>3 DEF Storage!Truncate
<1>2. ASSUME NEW p \in Processes, Storage!Fill(p) PROVE StorageInv'
  <2>1. proc[p].pc = "fill" /\ UNCHANGED <<dirs, file, revealed, saved, losses>>
    BY <1>2 DEF Storage!Fill, Storage!At, Storage!DiskOnly
  <2>2. CASE Storage!Goto(p, "discard") /\ UNCHANGED tmp
    BY <2>1, <2>2, DiscardMoves DEF Working
  <2>3. CASE /\ Storage!Goto(p, "rename")
             /\ tmp' = [tmp EXCEPT ![proc[p].slot].content = proc[p].prefs]
    BY <2>1, <2>3, ContentMoves, ProcessFacts DEF Working, Contents
  <2> QED
    BY <1>2, <2>2, <2>3 DEF Storage!Fill
<1>3. ASSUME NEW p \in Processes, Storage!Acknowledge(p) \/ Storage!Crash(p)
      PROVE  StorageInv'
  <2>1. /\ Storage!Set(p, Storage!Idle)
        /\ UNCHANGED <<dirs, file, revealed, tmp, saved, losses>>
    BY <1>3 DEF Storage!Acknowledge, Storage!Crash, Storage!DiskOnly
  <2> QED
    BY <2>1, FailMoves
<1>4. ASSUME NEW p \in Processes, Storage!Steps(p) PROVE StorageInv'
  BY <1>1, <1>2, <1>3, <1>4, SaveBegins, DirectoryMoves, AllocateMoves,
     RenameMoves, RemoveMoves DEF Storage!Steps
<1>5. CASE UNCHANGED Storage!vars
  BY <1>5 DEF StorageInv, DiskTyped, Storage!PreferencesWhole, Storage!vars
<1> QED
  BY <1>4, <1>5, PowerLossMoves DEF Storage!Next, Storage!Done

\* Storage reported as ready cannot be lost with a power loss, processes that
\* save at the same time and die anywhere do not mix their preferences, and a
\* save that succeeded repairs a torn file
\* (EnsureApplicationStorageDirectories, SaveApplicationPreferences).
THEOREM StorageIsSafe ==
    ASSUME Storage!StorageAssumption
    PROVE  Storage!Spec => [](/\ Storage!ReadyIsDurable
                              /\ Storage!PreferencesWhole
                              /\ Storage!SavedIsLoadable)
<1>1. Storage!Init => StorageInv
  BY StorageInit
<1>2. StorageInv /\ [Storage!Next]_(Storage!vars) => StorageInv'
  BY StorageStep
<1>3. StorageInv => /\ Storage!ReadyIsDurable /\ Storage!PreferencesWhole
                    /\ Storage!SavedIsLoadable
  BY DEF StorageInv, Doing, Storage!ReadyIsDurable, Storage!SavedIsLoadable, Storage!At
<1> QED
  BY <1>1, <1>2, <1>3, PTL DEF Storage!Spec

----------------------------------------------------------------------------
(***************************************************************************)
(* The components together: each one's variables change only as its own    *)
(* protocol changes them.                                                  *)
(***************************************************************************)
\* The behaviours that are one of the version 5 journal, of the copies, and
\* of the export.
IsV5 == part = "v5"
IsCopy == part = "copy"
IsExport == part = "export"

\* The instances satisfy what the proofs assume of the constants.
LEMMA InstanceAssumption ==
    /\ Journal!FileAssumption /\ SessionText!V5Assumption
    /\ Storage!StorageAssumption
    /\ Copies!ExportAssumption /\ Exports!ExportAssumption
BY StorageInstances
   DEF V5!V5Assumption, SessionText!V5Assumption,
       V5!Snapshots, SessionText!Snapshots,
       V5!Deviations, SessionText!Deviations, V5!Records, SessionText!Records,
       V5!Bodies, SessionText!Bodies, V5!SectionSet, SessionText!SectionSet,
       V5!Texts, SessionText!Texts, V5!Phases, SessionText!Phases,
       Copy!ExportAssumption, Copies!ExportAssumption,
       Export!ExportAssumption, Exports!ExportAssumption

\* The journal's variables change only as its own protocol changes them.
LEMMA ComposesFile == Spec => Journal!Spec
<1>1. Init => Journal!Init
  BY DEF Init
<1>2. [Next]_vars => [Journal!Next]_(Journal!vars)
  BY DEF Next, vars, JournalFileSteps, RecordTextSteps, RecordV5Steps,
         PreferencesSteps, ExportSteps, journalFile, Journal!vars
<1> QED
  BY <1>1, <1>2, PTL DEF Spec, Journal!Spec

\* The preferences change only as their own protocol changes them.
LEMMA ComposesPreferences == Spec => Storage!Spec
<1>1. Init => Storage!Init
  BY DEF Init
<1>2. [Next]_vars => [Storage!Next]_(Storage!vars)
  BY DEF Next, vars, JournalFileSteps, RecordTextSteps, RecordV5Steps,
         PreferencesSteps, ExportSteps, preferences, Storage!vars
<1> QED
  BY <1>1, <1>2, PTL DEF Spec, Storage!Spec

\* In a behaviour of the part "copy" the exports' variables change only as
\* that part changes them.
LEMMA ComposesCopies == Spec /\ IsCopy => Copies!Spec /\ []IsCopy
<1>1. Init /\ IsCopy => Copies!Init
  BY DEF Init, IsCopy, Copy!Init, Copies!Init
<1>2. Copy!Next => Copies!Next
  <2>1. ASSUME NEW s \in {one, two, three}
        PROVE  /\ Copy!ResolvePaths(s) <=> Copies!ResolvePaths(s)
               /\ Copy!InspectDestination(s) <=> Copies!InspectDestination(s)
               /\ Copy!CompareFiles(s) <=> Copies!CompareFiles(s)
               /\ Copy!CheckPlainFile(s) <=> Copies!CheckPlainFile(s)
               /\ Copy!StageArea(s) <=> Copies!StageArea(s)
               /\ Copy!OpenStaged(s) <=> Copies!OpenStaged(s)
               /\ Copy!WriteStaged(s) <=> Copies!WriteStaged(s)
               /\ Copy!InstallStaged(s) <=> Copies!InstallStaged(s)
               /\ Copy!RemoveArea(s) <=> Copies!RemoveArea(s)
               /\ Copy!InspectExport(s) <=> Copies!InspectExport(s)
               /\ Copy!AnswerOverwrite(s) <=> Copies!AnswerOverwrite(s)
               /\ Copy!OpenExport(s) <=> Copies!OpenExport(s)
               /\ Copy!WriteExport(s) <=> Copies!WriteExport(s)
               /\ Copy!InstallExport(s) <=> Copies!InstallExport(s)
               /\ Copy!Crash(s) <=> Copies!Crash(s)
    BY DEF Copy!ResolvePaths, Copies!ResolvePaths,
           Copy!InspectDestination, Copies!InspectDestination,
           Copy!CompareFiles, Copies!CompareFiles,
           Copy!CheckPlainFile, Copies!CheckPlainFile,
           Copy!StageArea, Copies!StageArea,
           Copy!OpenStaged, Copies!OpenStaged,
           Copy!WriteStaged, Copies!WriteStaged,
           Copy!InstallStaged, Copies!InstallStaged,
           Copy!RemoveArea, Copies!RemoveArea,
           Copy!InspectExport, Copies!InspectExport,
           Copy!AnswerOverwrite, Copies!AnswerOverwrite,
           Copy!OpenExport, Copies!OpenExport,
           Copy!WriteExport, Copies!WriteExport,
           Copy!InstallExport, Copies!InstallExport, Copy!Crash, Copies!Crash,
           Copy!There, Copies!There, Copy!Place, Copies!Place,
           Copy!At, Copies!At, Copy!Go, Copies!Go, Copy!End, Copies!End,
           Copy!Refuse, Copies!Refuse, Copy!NoFileChange, Copies!NoFileChange,
           Copy!Files, Copies!Files
  <2>2. Copy!OtherProgram <=> Copies!OtherProgram
    BY DEF Copy!OtherProgram, Copies!OtherProgram
  <2> QED
    BY <2>1, <2>2 DEF Copy!Next, Copies!Next, Copy!Save, Copies!Save
<1>3. IsCopy /\ [Next]_vars => IsCopy' /\ [Copies!Next]_(Copies!vars)
  BY <1>2 DEF IsCopy, Next, vars, JournalFileSteps, RecordTextSteps, RecordV5Steps,
         PreferencesSteps, ExportSteps, exports, Copies!vars
<1> QED
  BY <1>1, <1>3, PTL DEF Spec, Copies!Spec

\* In a behaviour of the part "export" the exports' variables change only as
\* that part changes them.
LEMMA ComposesExports == Spec /\ IsExport => Exports!Spec /\ []IsExport
<1>1. Init /\ IsExport => Exports!Init
  BY DEF Init, IsExport, Export!Init, Exports!Init
<1>2. Export!Next => Exports!Next
  <2>1. ASSUME NEW s \in {one, two}
        PROVE  /\ Export!ResolvePaths(s) <=> Exports!ResolvePaths(s)
               /\ Export!InspectDestination(s) <=> Exports!InspectDestination(s)
               /\ Export!CompareFiles(s) <=> Exports!CompareFiles(s)
               /\ Export!CheckPlainFile(s) <=> Exports!CheckPlainFile(s)
               /\ Export!StageArea(s) <=> Exports!StageArea(s)
               /\ Export!OpenStaged(s) <=> Exports!OpenStaged(s)
               /\ Export!WriteStaged(s) <=> Exports!WriteStaged(s)
               /\ Export!InstallStaged(s) <=> Exports!InstallStaged(s)
               /\ Export!RemoveArea(s) <=> Exports!RemoveArea(s)
               /\ Export!InspectExport(s) <=> Exports!InspectExport(s)
               /\ Export!AnswerOverwrite(s) <=> Exports!AnswerOverwrite(s)
               /\ Export!OpenExport(s) <=> Exports!OpenExport(s)
               /\ Export!WriteExport(s) <=> Exports!WriteExport(s)
               /\ Export!InstallExport(s) <=> Exports!InstallExport(s)
               /\ Export!Crash(s) <=> Exports!Crash(s)
    BY DEF Export!ResolvePaths, Exports!ResolvePaths,
           Export!InspectDestination, Exports!InspectDestination,
           Export!CompareFiles, Exports!CompareFiles,
           Export!CheckPlainFile, Exports!CheckPlainFile,
           Export!StageArea, Exports!StageArea,
           Export!OpenStaged, Exports!OpenStaged,
           Export!WriteStaged, Exports!WriteStaged,
           Export!InstallStaged, Exports!InstallStaged,
           Export!RemoveArea, Exports!RemoveArea,
           Export!InspectExport, Exports!InspectExport,
           Export!AnswerOverwrite, Exports!AnswerOverwrite,
           Export!OpenExport, Exports!OpenExport,
           Export!WriteExport, Exports!WriteExport,
           Export!InstallExport, Exports!InstallExport,
           Export!Crash, Exports!Crash, Export!There, Exports!There,
           Export!Place, Exports!Place, Export!At, Exports!At,
           Export!Go, Exports!Go, Export!End, Exports!End,
           Export!Refuse, Exports!Refuse,
           Export!NoFileChange, Exports!NoFileChange,
           Export!Files, Exports!Files
  <2>2. Export!OtherProgram <=> Exports!OtherProgram
    BY DEF Export!OtherProgram, Exports!OtherProgram
  <2> QED
    BY <2>1, <2>2 DEF Export!Next, Exports!Next, Export!Save, Exports!Save
<1>3. IsExport /\ [Next]_vars => IsExport' /\ [Exports!Next]_(Exports!vars)
  BY <1>2 DEF IsExport, Next, vars, JournalFileSteps, RecordTextSteps, RecordV5Steps,
         PreferencesSteps, ExportSteps, exports, Exports!vars
<1> QED
  BY <1>1, <1>3, PTL DEF Spec, Exports!Spec

\* In a behaviour of the version 5 journal its variables change only as it
\* changes them.
LEMMA ComposesV5 == Spec /\ IsV5 => SessionText!Spec /\ []IsV5
<1>1. Init /\ IsV5 => SessionText!Init
  BY DEF Init, IsV5, V5!Init, SessionText!Init
<1>2. V5!Next => SessionText!Next
  <2>1. ASSUME NEW d
        PROVE  /\ V5!Serialize(d) <=> SessionText!Serialize(d)
               /\ V5!WriteV5(d) = SessionText!WriteV5(d)
    BY DEF V5!Serialize, SessionText!Serialize,
           V5!ValidateV5Data, SessionText!ValidateV5Data,
           V5!ValidateSnapshot, SessionText!ValidateSnapshot,
           V5!DeviationChain, SessionText!DeviationChain,
           V5!WorkingValue, SessionText!WorkingValue,
           V5!AtLocation, SessionText!AtLocation, V5!Max, SessionText!Max,
           V5!Section, SessionText!Section,
           V5!RecordChecksum, SessionText!RecordChecksum,
           V5!WriteV5, SessionText!WriteV5
  <2>2. ASSUME NEW t
        PROVE  V5!ParseTunerRecoveryJournalV5(t)
                  = SessionText!ParseTunerRecoveryJournalV5(t)
    BY DEF V5!ParseTunerRecoveryJournalV5,
           SessionText!ParseTunerRecoveryJournalV5,
           V5!CheckSectionChecksum, SessionText!CheckSectionChecksum,
           V5!CheckRecordChecksum, SessionText!CheckRecordChecksum,
           V5!ReadV5, SessionText!ReadV5, V5!Body, SessionText!Body,
           V5!Tags, SessionText!Tags,
           V5!RecordChecksum, SessionText!RecordChecksum,
           V5!ValidateV5Data, SessionText!ValidateV5Data,
           V5!ValidateSnapshot, SessionText!ValidateSnapshot,
           V5!DeviationChain, SessionText!DeviationChain,
           V5!WorkingValue, SessionText!WorkingValue,
           V5!AtLocation, SessionText!AtLocation, V5!Max, SessionText!Max
  <2>3. V5!CreatePrepared => SessionText!CreatePrepared
    BY <2>1 DEF V5!CreatePrepared, SessionText!CreatePrepared,
                V5!Prepared, SessionText!Prepared
  <2>4. V5!PromoteTunerRecoveryJournalV5Snapshot
           => SessionText!PromoteTunerRecoveryJournalV5Snapshot
    BY <2>1, <2>2
       DEF V5!PromoteTunerRecoveryJournalV5Snapshot,
           SessionText!PromoteTunerRecoveryJournalV5Snapshot,
           V5!IdentityOnlyPrepared, SessionText!IdentityOnlyPrepared
  <2>5. V5!RecordDeviation => SessionText!RecordDeviation
    BY <2>1 DEF V5!RecordDeviation, SessionText!RecordDeviation,
                V5!Deviation, SessionText!Deviation,
                V5!WorkingValue, SessionText!WorkingValue,
                V5!AtLocation, SessionText!AtLocation,
                V5!Max, SessionText!Max, V5!Phases, SessionText!Phases
  <2>6. V5!WriteRegister => SessionText!WriteRegister
    BY DEF V5!WriteRegister, SessionText!WriteRegister,
           V5!Last, SessionText!Last
  <2>7. V5!Damage => SessionText!Damage
    BY DEF V5!Damage, SessionText!Damage, V5!EarlierRecords,
           SessionText!EarlierRecords, V5!Prepared, SessionText!Prepared,
           V5!Phases, SessionText!Phases, V5!RemoveAt, SessionText!RemoveAt,
           V5!WriteV5, SessionText!WriteV5, V5!Section, SessionText!Section,
           V5!RecordChecksum, SessionText!RecordChecksum
  <2>8. V5!Done => SessionText!Done
    BY DEF V5!Done, SessionText!Done, V5!vars, SessionText!vars
  <2> QED
    BY <2>3, <2>4, <2>5, <2>6, <2>7, <2>8 DEF V5!Next, SessionText!Next
<1>3. IsV5 /\ [Next]_vars => IsV5' /\ [SessionText!Next]_(SessionText!vars)
  BY <1>2 DEF IsV5, Next, vars, JournalFileSteps, RecordTextSteps,
         RecordV5Steps, PreferencesSteps, ExportSteps, v5Module, journalText,
         SessionText!vars
<1> QED
  BY <1>1, <1>3, PTL DEF Spec, SessionText!Spec

\* A behaviour of another part stays one.
LEMMA PartStays ==
    /\ Spec /\ ~IsV5 => []~IsV5
    /\ Spec /\ ~IsCopy => []~IsCopy
    /\ Spec /\ ~IsExport => []~IsExport
<1>1. /\ ~IsV5 /\ [Next]_vars => ~IsV5'
      /\ ~IsCopy /\ [Next]_vars => ~IsCopy'
      /\ ~IsExport /\ [Next]_vars => ~IsExport'
  BY DEF IsV5, IsCopy, IsExport, Next, vars, JournalFileSteps, RecordTextSteps,
         RecordV5Steps, PreferencesSteps, ExportSteps
<1> QED
  BY <1>1, PTL DEF Spec

----------------------------------------------------------------------------
(***************************************************************************)
(* The journal file is never torn, a save reported as done survives a      *)
(* power loss, and no two saves share a staging directory, for every       *)
(* number of processes and saves (InstallSerializedJournalAtomically).     *)
(***************************************************************************)
THEOREM JournalSurvivesAlways == Spec => []JournalSurvives
<1>1. Journal!Spec => [](Journal!NeverTorn /\ Journal!SuccessIsDurable /\ Journal!WorkspacesDisjoint)
  BY InstanceAssumption, JournalFileIsSafe
<1> QED
  BY <1>1, ComposesFile, PTL DEF JournalSurvives

(***************************************************************************)
(* The protocol implements AtomicJournal, and an exclusive creation        *)
(* replaces no record (CreateTunerRecoveryJournalExclusive).               *)
(***************************************************************************)
THEOREM JournalIsAtomic == Spec => IsAtomicJournal
BY InstanceAssumption, ComposesFile, ImplementsAtomicJournal,
   ExclusiveIsExclusive DEF IsAtomicJournal

(***************************************************************************)
(* Whenever a session stops, its version 5 record classifies every changed *)
(* register as restorable, to the value the session found                  *)
(* (ClassifyTunerRecoveryV5LiveValue).                                     *)
(***************************************************************************)
THEOREM V5AlwaysRestorable == Spec => []AlwaysRestorable
<1>1. SessionText!Spec => []SessionText!AlwaysRestorable
  BY InstanceAssumption, SessionText!V5IsRestorable, PTL
<1>2. /\ SessionText!AlwaysRestorable => AlwaysRestorable
      /\ ~IsV5 => AlwaysRestorable
  BY DEF IsV5, AlwaysRestorable, V5!AlwaysRestorable,
         SessionText!AlwaysRestorable, V5!AtLocation, SessionText!AtLocation,
         V5!Max, SessionText!Max,
         V5!ClassifyTunerRecoveryV5LiveValue,
         SessionText!ClassifyTunerRecoveryV5LiveValue
<1> QED
  BY <1>1, <1>2, PartStays, ComposesV5, PTL

(***************************************************************************)
(* Storage reported ready survives a power loss, preferences are never     *)
(* mixed, and a successful save repairs a torn file, for every number of   *)
(* processes and faults (EnsureApplicationStorageDirectories,              *)
(* SaveApplicationPreferences).                                            *)
(***************************************************************************)
THEOREM PreferencesAlwaysWhole == Spec => []PreferencesAreWhole
<1>1. Storage!Spec => [](/\ Storage!ReadyIsDurable
                         /\ Storage!PreferencesWhole
                         /\ Storage!SavedIsLoadable)
  BY InstanceAssumption, StorageIsSafe
<1>2. (/\ Storage!ReadyIsDurable /\ Storage!PreferencesWhole
       /\ Storage!SavedIsLoadable) => PreferencesAreWhole
  BY DEF PreferencesAreWhole
<1> QED
  BY <1>1, <1>2, ComposesPreferences, PTL

(***************************************************************************)
(* The destination of an export never holds part of a file, the imported   *)
(* workspace stays what it was, and success is reported exactly by the     *)
(* saves that installed their file (SaveMvmeWorkspaceCopy,                 *)
(* SaveMvmeExportText).                                                    *)
(***************************************************************************)
THEOREM ExportsAlwaysWhole == Spec => []ExportsAreWhole
<1>1. Copies!Spec => [](Copies!DestinationIsWhole /\ Copies!ReportIsTrue)
  BY InstanceAssumption, Copies!ExportIsWhole
<1>2. Exports!Spec => [](Exports!DestinationIsWhole /\ Exports!ReportIsTrue)
  BY InstanceAssumption, Exports!ExportIsWhole
<1>3. /\ IsCopy /\ Copies!DestinationIsWhole /\ Copies!ReportIsTrue
            => ExportsAreWhole
      /\ IsExport /\ Exports!DestinationIsWhole /\ Exports!ReportIsTrue
            => ExportsAreWhole
      /\ ~IsCopy /\ ~IsExport => ExportsAreWhole
  BY DEF IsCopy, IsExport, ExportsAreWhole, Copy!DestinationIsWhole,
         Copies!DestinationIsWhole, Copy!ReportIsTrue, Copies!ReportIsTrue,
         Export!DestinationIsWhole, Exports!DestinationIsWhole,
         Export!ReportIsTrue, Exports!ReportIsTrue
<1> QED
  BY <1>1, <1>2, <1>3, PartStays, ComposesCopies, ComposesExports, PTL

(***************************************************************************)
(* Without permission a copy of the workspace never replaces what is at    *)
(* the destination, even when it came there after the save looked          *)
(* (SaveMvmeWorkspaceCopy).                                                *)
(***************************************************************************)
THEOREM CopiesNeverReplaceSilently == Spec => NoSilentReplacement
<1>1. Copies!Spec => Copies!NoSilentReplacement
  BY InstanceAssumption, Copies!CopiesAsk
<1>2. /\ [~Copies!ReplacesSilently]_(Copies!vars)
            => [part = "copy" => ~Copy!ReplacesSilently]_vars
      /\ ~IsCopy => [part = "copy" => ~Copy!ReplacesSilently]_vars
  BY DEF IsCopy, Copy!ReplacesSilently, Copies!ReplacesSilently, Copies!vars
<1> QED
  BY <1>1, <1>2, PartStays, ComposesCopies, PTL
     DEF NoSilentReplacement, Copies!NoSilentReplacement
=============================================================================

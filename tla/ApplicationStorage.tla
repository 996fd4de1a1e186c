------------------------- MODULE ApplicationStorage -------------------------
(***************************************************************************)
(* ApplicationStorage.cpp: the directories of the application state, which *)
(* are made durable before anything is stored in them, and the preferences *)
(* file, which is written in a directory of its own and renamed.  Several  *)
(* FIDGET processes may run in one application home; each may die at any   *)
(* step, and the power may fail.  The preferences are not synchronised:    *)
(* after a power loss the file may be old, new or torn.                    *)
(***************************************************************************)
EXTENDS Naturals, FiniteSets

CONSTANTS
    Processes,
    Inputs,                      \* what the target fields may hold
    None, Torn,
    MaximumTemporaryCollisions,  \* 64 in the code
    MaxSaves,                    \* bound on saves
    MaxFaults                    \* bound on failing calls, crashes, power losses

StorageAssumption ==
    /\ MaximumTemporaryCollisions \in Nat \ {0}
    /\ MaxSaves \in Nat /\ MaxFaults \in Nat
    /\ None \notin Inputs /\ Torn \notin Inputs
    /\ None \notin Processes
    /\ Torn \notin [verified : Inputs \cup {None}, ssh : Inputs]

VARIABLES
    dirs,      \* "absent", "present" or "durable", for every directory
    file,      \* preferences.ini
    revealed,  \* what a power loss may leave of it
    tmp,       \* the temporary directories and the file in each
    proc,      \* the processes
    saved,     \* ghost: the records saved so far
    losses, saves, faults

vars == <<dirs, file, revealed, tmp, proc, saved, losses, saves, faults>>

\* The state directory and its children, in the order they are ensured.
Children == {"logs", "recovery", "reports"}
Order == <<"state", "logs", "recovery", "reports">>
Dirs == {"state"} \cup Children

\* ApplicationPreferences: the last verified target and the ssh fields.
Preferences(verified, ssh) == [verified |-> verified, ssh |-> ssh]
Slots == 0 .. MaximumTemporaryCollisions - 1
NoSlot == [p |-> None, content |-> None]

Idle == [pc |-> "idle", kind |-> None, input |-> None, prefs |-> None,
         dir |-> 1, slot |-> 0, ok |-> FALSE]

Init ==
    /\ dirs = [d \in Dirs |-> "absent"]
    /\ file = None /\ revealed = {None}
    /\ tmp = [i \in Slots |-> NoSlot]
    /\ proc = [p \in Processes |-> Idle]
    /\ saved = {} /\ losses = 0 /\ saves = 0 /\ faults = 0

Fault == faults < MaxFaults /\ faults' = faults + 1
Fine == faults' = faults
At(p, label) == proc[p].pc = label
Set(p, r) == proc' = [proc EXCEPT ![p] = r]
Goto(p, label) == Set(p, [proc[p] EXCEPT !.pc = label])
Returns(p, ok) == Set(p, [Idle EXCEPT !.pc = "returned", !.ok = ok,
                              !.kind = proc[p].kind, !.prefs = proc[p].prefs])
DiskOnly == UNCHANGED <<saved, losses, saves>>

----------------------------------------------------------------------------
\* SaveApplicationPreferences after a check that passed, and
\* EnsureApplicationStorageDirectories for a journal.
Save(p) ==
    /\ At(p, "idle") /\ saves < MaxSaves /\ saves' = saves + 1
    /\ \E i \in Inputs :
          Set(p, [Idle EXCEPT !.pc = "dir", !.kind = "target",
                     !.prefs = Preferences(i, i)])
    /\ Fine /\ UNCHANGED <<dirs, file, revealed, tmp, saved, losses>>

\* SaveBridgeConvenienceFields: LoadApplicationPreferences, then the ssh
\* fields replaced.  A file that does not parse is not overwritten.
SaveFields(p) ==
    /\ At(p, "idle") /\ saves < MaxSaves /\ saves' = saves + 1
    /\ \E i \in Inputs :
          IF file = Torn
            THEN Set(p, [Idle EXCEPT !.pc = "returned", !.kind = "fields"])
            ELSE Set(p, [Idle EXCEPT !.pc = "dir", !.kind = "fields",
                            !.prefs = Preferences(
                                IF file = None THEN None ELSE file.verified, i)])
    /\ Fine /\ UNCHANGED <<dirs, file, revealed, tmp, saved, losses>>

----------------------------------------------------------------------------
\* EnsurePlainDirectory
Current(p) == Order[proc[p].dir]

MakeDirectory(p) ==
    /\ At(p, "dir")
    /\ \/ Fine /\ Goto(p, "sync")
          /\ dirs' = [dirs EXCEPT ![Current(p)] = IF @ = "absent" THEN "present"
                                                               ELSE @]
       \/ Fault /\ Returns(p, FALSE) /\ UNCHANGED dirs
    /\ DiskOnly /\ UNCHANGED <<file, revealed, tmp>>

\* SyncDirectoryPath of the directory and of its parent.  A sync of a path
\* that a power loss or another process has not made fails.
SyncDirectory(p) ==
    /\ At(p, "sync")
    /\ \/ /\ Fine
          /\ dirs' = [dirs EXCEPT ![Current(p)] = "durable"]
          /\ IF proc[p].dir < 4
               THEN Set(p, [proc[p] EXCEPT !.pc = "dir", !.dir = @ + 1])
               ELSE Goto(p, "ready")
       \/ Fault /\ Returns(p, FALSE) /\ UNCHANGED dirs
    /\ DiskOnly /\ UNCHANGED <<file, revealed, tmp>>

\* The directories are ensured; a save of the preferences goes on.
Ready(p) ==
    /\ At(p, "ready")
    /\ Goto(p, "allocate") /\ Fine
    /\ DiskOnly /\ UNCHANGED <<dirs, file, revealed, tmp>>

----------------------------------------------------------------------------
\* AtomicWrite.  Mutant: a directory that exists is used.
AllocateShares(p) ==
    /\ At(p, "allocate") /\ Fine
    /\ tmp' = [tmp EXCEPT ![proc[p].slot] = [p |-> p, content |-> @.content]]
    /\ Goto(p, "write")
    /\ DiskOnly /\ UNCHANGED <<dirs, file, revealed>>

Allocate(p) ==
    /\ At(p, "allocate")
    /\ LET i == proc[p].slot
       IN \/ /\ tmp[i] = NoSlot /\ Fine
             /\ tmp' = [tmp EXCEPT ![i] = [p |-> p, content |-> None]]
             /\ Goto(p, "write")
          \/ /\ tmp[i] # NoSlot /\ Fine /\ UNCHANGED tmp
             /\ IF i + 1 \in Slots
                  THEN Set(p, [proc[p] EXCEPT !.slot = @ + 1])
                  ELSE Returns(p, FALSE)
          \/ tmp[i] = NoSlot /\ Fault /\ Returns(p, FALSE) /\ UNCHANGED tmp
    /\ DiskOnly /\ UNCHANGED <<dirs, file, revealed>>

\* The file is opened and truncated, then written.
Truncate(p) ==
    /\ At(p, "write")
    /\ \/ /\ Fine /\ Goto(p, "fill")
          /\ tmp' = [tmp EXCEPT ![proc[p].slot].content = Torn]
       \/ Fault /\ Goto(p, "discard") /\ UNCHANGED tmp
    /\ DiskOnly /\ UNCHANGED <<dirs, file, revealed>>

Fill(p) ==
    /\ At(p, "fill")
    /\ \/ /\ Fine /\ Goto(p, "rename")
          /\ tmp' = [tmp EXCEPT ![proc[p].slot].content = proc[p].prefs]
       \/ Fault /\ Goto(p, "discard") /\ UNCHANGED tmp
    /\ DiskOnly /\ UNCHANGED <<dirs, file, revealed>>

Rename(p) ==
    /\ At(p, "rename")
    /\ LET i == proc[p].slot
       IN \/ /\ tmp[i].content # None /\ Fine
             /\ file' = tmp[i].content
             /\ revealed' = revealed \cup {file', Torn}
             /\ tmp' = [tmp EXCEPT ![i].content = None]
             /\ saved' = saved \cup {proc[p].prefs}
             /\ Goto(p, "remove")
          \/ /\ tmp[i].content = None /\ Fine /\ Goto(p, "discard")
             /\ UNCHANGED <<file, revealed, tmp, saved>>
          \/ Fault /\ Goto(p, "discard")
             /\ UNCHANGED <<file, revealed, tmp, saved>>
    /\ UNCHANGED <<dirs, losses, saves>>

\* RemoveTemporaryDirectory; what it reports is not looked at.
RemoveTemporary(p) ==
    /\ proc[p].pc \in {"discard", "remove"}
    /\ \/ Fine /\ tmp' = [tmp EXCEPT ![proc[p].slot] = NoSlot]
       \/ Fault /\ UNCHANGED tmp
    /\ Returns(p, At(p, "remove"))
    /\ DiskOnly /\ UNCHANGED <<dirs, file, revealed>>

Acknowledge(p) ==
    /\ At(p, "returned") /\ Set(p, Idle) /\ Fine
    /\ DiskOnly /\ UNCHANGED <<dirs, file, revealed, tmp>>

----------------------------------------------------------------------------
Crash(p) ==
    /\ ~At(p, "idle") /\ Fault
    /\ Set(p, Idle)
    /\ DiskOnly /\ UNCHANGED <<dirs, file, revealed, tmp>>

\* A directory whose entry is not durable may be gone, and with the state
\* directory all of it.
PowerLoss ==
    /\ Fault /\ losses' = losses + 1
    /\ \E gone \in SUBSET {d \in Dirs : dirs[d] = "present"} :
          dirs' = [d \in Dirs |->
                      IF d \in gone \/ "state" \in gone THEN "absent"
                      ELSE IF dirs[d] = "absent" THEN "absent" ELSE "durable"]
    /\ file' \in IF dirs'["state"] = "absent" THEN {None} ELSE revealed
    /\ revealed' = {file'}
    /\ tmp' \in {tmp, [i \in Slots |-> NoSlot]}
    /\ proc' = [p \in Processes |-> Idle]
    /\ UNCHANGED <<saved, saves>>

Done == /\ saves = MaxSaves /\ \A p \in Processes : At(p, "idle")
        /\ UNCHANGED vars

Steps(p) ==
    \/ Save(p) \/ SaveFields(p) \/ MakeDirectory(p) \/ SyncDirectory(p)
    \/ Ready(p) \/ Allocate(p) \/ Truncate(p) \/ Fill(p) \/ Rename(p)
    \/ RemoveTemporary(p) \/ Acknowledge(p) \/ Crash(p)

Next == (\E p \in Processes : Steps(p)) \/ PowerLoss \/ Done

Spec == Init /\ [][Next]_vars

----------------------------------------------------------------------------
(***************************************************************************)
(* When EnsureApplicationStorageDirectories reports that storage is ready, *)
(* no power loss can take a directory away again, and with it a journal    *)
(* that was made durable inside it: also when another process created the  *)
(* directory and died before it synchronised it.                           *)
(***************************************************************************)
ReadyIsDurable ==
    \A p \in Processes : At(p, "ready") => \A d \in Dirs : dirs[d] = "durable"

(***************************************************************************)
(* Processes that save at the same time and die at any step leave the      *)
(* preferences absent or as one of them wrote them, never a mixture: only  *)
(* a power loss tears the file.                                            *)
(***************************************************************************)
PreferencesWhole == losses = 0 => file \in saved \cup {None}

(***************************************************************************)
(* A successful check repairs preferences that a power loss has torn: its  *)
(* save does not depend on the old file, unlike the one of Connect.        *)
(***************************************************************************)
SavedIsLoadable ==
    \A p \in Processes :
        (At(p, "returned") /\ proc[p].ok) => file # Torn
=============================================================================

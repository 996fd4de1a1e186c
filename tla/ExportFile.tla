----------------------------- MODULE ExportFile -----------------------------
(***************************************************************************)
(* Saving an export: SaveMvmeWorkspaceCopy (core/MvmeWorkspaceExport.cpp), *)
(* which installs a copied workspace from a staging directory and never    *)
(* touches the workspace it was imported from, and SaveMvmeExportText      *)
(* (core/MvmeExportFile.cpp) as RunCliExport calls it, with its prompt.    *)
(* One file-system call is one step; other programs work on the            *)
(* destination at the same time, and a saver may die between two calls.    *)
(*                                                                         *)
(* A file is named by who wrote it: "imported" is the source workspace,    *)
(* "other" a file of another program, a saver its own new file.            *)
(***************************************************************************)
EXTENDS Naturals, FiniteSets

CONSTANTS
    Savers,
    Kind,      \* Kind[s]: "copy" or "export"
    Permission,\* Permission[s]: allowOverwrite of the first call
    Goals,     \* destinations to choose from: "out", "source"
    Areas,     \* 0 .. MaximumTemporaryCollisions - 1
    None

\* An export knows no imported workspace, and two exports to one destination
\* would share its temporary file: there is one, and it saves to "out".
ExportAssumption ==
    /\ Kind \in [Savers -> {"copy", "export"}]
    /\ Permission \in [Savers -> BOOLEAN]
    /\ Areas \subseteq Nat /\ 0 \in Areas
    /\ Goals \subseteq {"out", "source"}
    /\ Savers \cap {None, "imported", "other", "symlink"} = {}
    /\ \A s, t \in Savers : Kind[s] = "export" =>
           /\ Goals \subseteq {"out"}
           /\ Kind[t] = "export" => s = t

VARIABLES
    out,       \* what is at the destination: None, a file, or a "symlink"
               \* to the imported workspace
    source,    \* the file at the path of the imported workspace
    staging,   \* staging[a]: None or the saver that made directory a
    tmp,       \* the file at <destination>.tmp of an export
    content,   \* content[s]: "absent", "torn" or "whole"
    saver      \* saver[s]: the progress of s

vars == <<out, source, staging, tmp, content, saver>>

Files == Savers \cup {"imported", "other"}

Init ==
    /\ out \in {None, "imported", "symlink", "other"}
    /\ source = "imported"
    /\ staging = [a \in Areas |-> None]
    /\ tmp = None
    /\ content = [s \in Savers |-> "absent"]
    /\ saver \in [Savers ->
         {[pc |-> "resolve", goal |-> g, allowOverwrite |-> FALSE,
           alreadyExists |-> FALSE, area |-> 0, installed |-> FALSE,
           result |-> "none"] : g \in Goals}]

\* What is at the path s saves to, and its replacement by the file of s.
There(s) == IF saver[s].goal = "out" THEN out ELSE source
Place(s) ==
    IF saver[s].goal = "out" THEN out' = s /\ UNCHANGED source
                             ELSE source' = s /\ UNCHANGED out

At(s, kind, pc) == Kind[s] = kind /\ saver[s].pc = pc
Go(s, pc) == saver' = [saver EXCEPT ![s].pc = pc]
End(s, result) ==
    saver' = [saver EXCEPT ![s].pc = "ended", ![s].result = result]
Refuse(s, exists) ==
    saver' = [saver EXCEPT ![s].pc = "ended", ![s].result = "failure",
                           ![s].alreadyExists = exists]
NoFileChange == UNCHANGED <<out, source, staging, tmp, content>>

-----------------------------------------------------------------------------
(***************************************************************************)
(* SaveMvmeWorkspaceCopy.                                                  *)
(***************************************************************************)

\* The resolved paths are compared: a symbolic link to the source is the
\* source.
ResolvePaths(s) ==
    /\ At(s, "copy", "resolve")
    /\ IF saver[s].goal = "source" \/ out = "symlink"
       THEN End(s, "failure")
       ELSE saver' = [saver EXCEPT ![s].pc = "exists",
                                   ![s].allowOverwrite = Permission[s]]
    /\ NoFileChange

InspectDestination(s) ==
    /\ At(s, "copy", "exists")
    /\ Go(s, IF There(s) = None THEN "stage" ELSE "equivalent")
    /\ NoFileChange

\* equivalent(): a hard link to the source is the source; the call fails
\* when the destination has gone meanwhile.
CompareFiles(s) ==
    /\ At(s, "copy", "equivalent")
    /\ IF There(s) \in {None, "symlink", "imported"} THEN End(s, "failure")
       ELSE Go(s, "status")
    /\ NoFileChange

\* symlink_status(), and the permission to replace what is there.
CheckPlainFile(s) ==
    /\ At(s, "copy", "status")
    /\ CASE There(s) \in {None, "symlink"} -> End(s, "failure")
         [] There(s) \in Files /\ ~saver[s].allowOverwrite -> Refuse(s, TRUE)
         [] OTHER -> Go(s, "stage")
    /\ NoFileChange

\* The first staging name that create_directory makes; all taken is failure.
StageArea(s) ==
    /\ At(s, "copy", "stage")
    /\ LET free == {a \in Areas : staging[a] = None}
       IN  \/ /\ free = {}
              /\ End(s, "failure") /\ NoFileChange
           \/ /\ free # {}
              /\ LET a == CHOOSE x \in free : \A y \in free : x <= y
                 IN  /\ staging' = [staging EXCEPT ![a] = s]
                     /\ saver' = [saver EXCEPT ![s].pc = "open", ![s].area = a]
              /\ UNCHANGED <<out, source, tmp, content>>

\* The temporary file is opened, or the staging directory removed again.
OpenStaged(s) ==
    /\ At(s, "copy", "open")
    /\ \/ /\ content' = [content EXCEPT ![s] = "torn"]
          /\ Go(s, "write")
       \/ Go(s, "remove") /\ UNCHANGED content
    /\ UNCHANGED <<out, source, staging, tmp>>

\* A write whose failure is not noticed.
WriteStagedUnchecked(s) ==
    /\ At(s, "copy", "write")
    /\ \/ content' = [content EXCEPT ![s] = "whole"]
       \/ UNCHANGED content
    /\ Go(s, "install")
    /\ UNCHANGED <<out, source, staging, tmp>>

WriteStaged(s) ==
    /\ At(s, "copy", "write")
    /\ \/ /\ content' = [content EXCEPT ![s] = "whole"]
          /\ Go(s, "install")
       \/ Go(s, "remove") /\ UNCHANGED content
    /\ UNCHANGED <<out, source, staging, tmp>>

\* A plain rename after the check.
RenameAlways(s) ==
    /\ At(s, "copy", "install")
    /\ Place(s)
    /\ saver' = [saver EXCEPT ![s].pc = "remove", ![s].installed = TRUE]
    /\ UNCHANGED <<staging, tmp, content>>

\* rename() when the user allowed it; otherwise a hard link, which fails when
\* something is at the destination by now.
InstallStaged(s) ==
    /\ At(s, "copy", "install")
    /\ \/ /\ saver[s].allowOverwrite \/ There(s) = None
          /\ Place(s)
          /\ saver' = [saver EXCEPT ![s].pc = "remove", ![s].installed = TRUE]
       \/ /\ saver' = [saver EXCEPT ![s].pc = "remove",
                                    ![s].alreadyExists = There(s) # None]
          /\ UNCHANGED <<out, source>>
    /\ UNCHANGED <<staging, tmp, content>>

\* RemoveTemporaryDirectory and the result
RemoveArea(s) ==
    /\ At(s, "copy", "remove")
    /\ staging' = [staging EXCEPT ![saver[s].area] = None]
    /\ End(s, IF saver[s].installed THEN "success" ELSE "failure")
    /\ UNCHANGED <<out, source, tmp, content>>

-----------------------------------------------------------------------------
(***************************************************************************)
(* SaveMvmeExportText, called by RunCliExport: first without permission,   *)
(* then, after a typed confirmation, with it.                              *)
(***************************************************************************)
InspectExport(s) ==
    /\ At(s, "export", "resolve")
    /\ IF There(s) # None /\ ~saver[s].allowOverwrite
       THEN Go(s, "prompt") ELSE Go(s, "open")
    /\ NoFileChange

AnswerOverwrite(s) ==
    /\ At(s, "export", "prompt")
    /\ \/ saver' = [saver EXCEPT ![s].pc = "resolve",
                                 ![s].allowOverwrite = TRUE]
       \/ Refuse(s, TRUE)
    /\ NoFileChange

OpenExport(s) ==
    /\ At(s, "export", "open")
    /\ \/ /\ tmp' = s
          /\ content' = [content EXCEPT ![s] = "torn"]
          /\ Go(s, "write")
       \/ End(s, "failure") /\ UNCHANGED <<tmp, content>>
    /\ UNCHANGED <<out, source, staging>>

\* The temporary file is removed when it could not be written.
WriteExport(s) ==
    /\ At(s, "export", "write")
    /\ \/ /\ content' = [content EXCEPT ![s] = "whole"]
          /\ Go(s, "install")
          /\ UNCHANGED tmp
       \/ /\ tmp' = None
          /\ End(s, "failure") /\ UNCHANGED content
    /\ UNCHANGED <<out, source, staging>>

InstallExport(s) ==
    /\ At(s, "export", "install")
    /\ \/ /\ Place(s)
          /\ saver' = [saver EXCEPT ![s].pc = "ended", ![s].installed = TRUE,
                                    ![s].result = "success"]
       \/ End(s, "failure") /\ UNCHANGED <<out, source>>
    /\ tmp' = None
    /\ UNCHANGED <<staging, content>>

-----------------------------------------------------------------------------
\* The saving process dies; its temporary files stay.
Crash(s) ==
    /\ saver[s].pc # "ended"
    /\ End(s, "dead")
    /\ NoFileChange

\* Another program creates, links or removes the destination (external).
OtherProgram ==
    /\ \/ out = None /\ out' \in {"other", "imported", "symlink"}
       \/ out # None /\ out' = None
    /\ UNCHANGED <<source, staging, tmp, content, saver>>

Save(s) ==
    \/ ResolvePaths(s) \/ InspectDestination(s) \/ CompareFiles(s)
    \/ CheckPlainFile(s) \/ StageArea(s) \/ OpenStaged(s) \/ WriteStaged(s)
    \/ InstallStaged(s) \/ RemoveArea(s)
    \/ InspectExport(s) \/ AnswerOverwrite(s) \/ OpenExport(s)
    \/ WriteExport(s) \/ InstallExport(s)

Next == (\E s \in Savers : Save(s) \/ Crash(s)) \/ OtherProgram

Spec == Init /\ [][Next]_vars

-----------------------------------------------------------------------------
\* The imported workspace is what it was, whatever paths, links and
\* permissions a save is given (SaveMvmeWorkspaceCopy, SaveMvmeExportText),
\* and the destination never holds part of a file, not even after a crash.
DestinationIsWhole ==
    /\ source = "imported"
    /\ out \in Savers => content[out] = "whole"

\* Without permission a save never replaces what is at the destination, even
\* when it came there after the save looked.
ReplacesSilently ==
    \E s \in Savers : /\ out # None /\ out' = s /\ out # s
                      /\ ~saver[s].allowOverwrite
NoSilentReplacement == [][~ReplacesSilently]_vars

\* The result is the truth: success is reported exactly by the saves that
\* put their file at the destination.
ReportIsTrue ==
    \A s \in Savers : saver[s].result \in {"success", "failure"} =>
        (saver[s].result = "success") = saver[s].installed

=============================================================================

-------------------------- MODULE ExportFileProofs --------------------------
(***************************************************************************)
(* Saving an export, for any number of savers beside any other program:    *)
(* the destination is whole, the imported workspace untouched, the result  *)
(* true, and nothing is replaced that the user did not allow.              *)
(*                                                                         *)
(* ExportInv says what a saver has done by the time it is at a step: past  *)
(* the comparison of the paths it does not save to the source, at the      *)
(* installation its file is whole, and before it nothing is installed.     *)
(***************************************************************************)
EXTENDS ExportFile, WellFoundedInduction, TLAPS

Labels == {"resolve", "exists", "equivalent", "status", "stage", "open",
           "write", "install", "remove", "prompt", "ended"}
Progress ==
    [pc : Labels, goal : Goals, allowOverwrite : BOOLEAN,
     alreadyExists : BOOLEAN, area : Areas, installed : BOOLEAN,
     result : {"none", "success", "failure", "dead"}]
SaverDone(s) ==
    /\ saver[s].pc \notin {"resolve", "ended"} => saver[s].goal # "source"
    /\ saver[s].pc = "install" => content[s] = "whole"
    /\ saver[s].pc \notin {"remove", "ended"} => ~saver[s].installed
    /\ saver[s].pc # "ended" => saver[s].result = "none"
    /\ saver[s].result = "success" => saver[s].installed
    /\ saver[s].result = "failure" => ~saver[s].installed
    /\ saver[s].installed => content[s] = "whole"
ExportInv ==
    /\ saver \in [Savers -> Progress]
    /\ content \in [Savers -> {"absent", "torn", "whole"}]
    /\ source = "imported"
    /\ out \in Savers => saver[out].installed
    /\ \A s \in Savers : SaverDone(s)

\* Before the first step nobody has installed anything.
LEMMA ExportInit ==
    ASSUME ExportAssumption, Init PROVE ExportInv
<1>1. saver \in [Savers -> Progress]
  <2>1. ASSUME NEW g \in Goals
        PROVE  [pc |-> "resolve", goal |-> g, allowOverwrite |-> FALSE,
                alreadyExists |-> FALSE, area |-> 0, installed |-> FALSE,
                result |-> "none"] \in Progress
    BY DEF Progress, Labels, ExportAssumption
  <2> QED
    BY <2>1 DEF Init
<1>2. out \notin Savers
  BY DEF Init, ExportAssumption
<1>3. ASSUME NEW s \in Savers PROVE SaverDone(s)
  BY DEF Init, SaverDone
<1> QED
  BY <1>1, <1>2, <1>3 DEF Init, ExportInv

\* What a step of one saver leaves of the others and of the disk.
Alters(s, r, c) ==
    /\ saver' = [saver EXCEPT ![s] = r]
    /\ content' = [content EXCEPT ![s] = c]

\* A step that moves one saver to a progress that is true of it keeps the
\* invariant, when what is at the destination is either as before or its file.
LEMMA SaverMoves ==
    ASSUME ExportInv, NEW s \in Savers, NEW r \in Progress,
           NEW c \in {"absent", "torn", "whole"}, Alters(s, r, c),
           source' = source, out' = out \/ (out' = s /\ r.installed),
           saver[s].installed => r.installed,
           r.pc \notin {"resolve", "ended"} => r.goal # "source",
           r.pc = "install" => c = "whole",
           r.pc \notin {"remove", "ended"} => ~r.installed,
           r.pc # "ended" => r.result = "none",
           r.result = "success" => r.installed,
           r.result = "failure" => ~r.installed,
           r.installed => c = "whole"
    PROVE  ExportInv'
<1>1. /\ saver' \in [Savers -> Progress]
      /\ content' \in [Savers -> {"absent", "torn", "whole"}]
  BY DEF ExportInv, Alters
<1>2. saver'[s] = r /\ content'[s] = c
  BY DEF ExportInv, Alters
<1>3. \A t \in Savers \ {s} : saver'[t] = saver[t] /\ content'[t] = content[t]
  BY DEF ExportInv, Alters
<1>4. ASSUME NEW t \in Savers PROVE SaverDone(t)'
  <2>1. CASE t = s
    BY <1>2, <2>1 DEF SaverDone
  <2>2. CASE t # s
    BY <1>3, <2>2 DEF SaverDone, ExportInv
  <2> QED
    BY <2>1, <2>2
<1>5. out' \in Savers => saver'[out'].installed
  BY <1>2, <1>3 DEF ExportInv
<1> QED
  BY <1>1, <1>4, <1>5 DEF ExportInv

\* What is known of one saver.
LEMMA SaverFacts ==
    ASSUME ExportInv, NEW s \in Savers
    PROVE  /\ saver[s] \in Progress /\ SaverDone(s)
           /\ content[s] \in {"absent", "torn", "whole"}
           /\ saver \in [Savers -> Progress]
           /\ content \in [Savers -> {"absent", "torn", "whole"}]
BY DEF ExportInv

\* A step to another label, which may have written the saver's own file.
LEMMA GoMoves ==
    ASSUME ExportInv, NEW s \in Savers, NEW l \in Labels \ {"ended", "remove"},
           Go(s, l), saver[s].pc \notin {"ended", "remove"},
           saver[s].goal # "source", out' = out, source' = source,
           NEW c \in {"absent", "torn", "whole"},
           content' = [content EXCEPT ![s] = c], l = "install" => c = "whole"
    PROVE  ExportInv'
<1>1. PICK r : r = [saver[s] EXCEPT !.pc = l]
  OBVIOUS
<1>2. /\ r \in Progress /\ r.pc = l /\ r.result = saver[s].result
      /\ r.installed = saver[s].installed /\ r.goal = saver[s].goal
  BY <1>1, SaverFacts DEF Progress
<1>3. Alters(s, r, c)
  BY <1>1, SaverFacts DEF Go, Alters
<1> QED
  BY <1>2, <1>3, SaverFacts, SaverMoves DEF SaverDone

\* A save that ends with a result that is true, or dies.
LEMMA EndMoves ==
    ASSUME ExportInv, NEW s \in Savers, UNCHANGED <<out, source, content>>,
           NEW x \in {"success", "failure", "dead"}, End(s, x),
           x = "success" => saver[s].installed,
           x = "failure" => ~saver[s].installed
    PROVE  ExportInv'
<1>1. PICK r : r = [saver[s] EXCEPT !.pc = "ended", !.result = x]
  OBVIOUS
<1>2. /\ r \in Progress /\ r.pc = "ended" /\ r.result = x
      /\ r.installed = saver[s].installed
  BY <1>1, SaverFacts DEF Progress, Labels
<1>3. Alters(s, r, content[s])
  BY <1>1, SaverFacts DEF End, Alters
<1> QED
  BY <1>2, <1>3, SaverFacts, SaverMoves DEF SaverDone

\* A save that is refused before it has installed anything.
LEMMA RefuseMoves ==
    ASSUME ExportInv, NEW s \in Savers, NoFileChange, Refuse(s, TRUE),
           saver[s].pc \notin {"remove", "ended"}
    PROVE  ExportInv'
<1>1. PICK r : r = [saver[s] EXCEPT !.pc = "ended", !.result = "failure",
                                    !.alreadyExists = TRUE]
  OBVIOUS
<1>2. /\ r \in Progress /\ r.pc = "ended" /\ r.result = "failure"
      /\ r.installed = saver[s].installed
  BY <1>1, SaverFacts DEF Progress, Labels
<1>3. Alters(s, r, content[s])
  BY <1>1, SaverFacts DEF Refuse, NoFileChange, Alters
<1>4. out' = out /\ source' = source
  BY DEF NoFileChange
<1> QED
  BY <1>2, <1>3, <1>4, SaverFacts, SaverMoves DEF SaverDone

\* The least of a set of staging names.
LEMMA LeastArea ==
    ASSUME NEW T, T \subseteq Nat, T # {}
    PROVE  \E n \in T : \A m \in T : n <= m
<1>1. PICK R : /\ R = {ss \in Nat \X Nat : ss[1] < ss[2]}
               /\ IsWellFoundedOn(R, Nat)
  BY NatLessThanWellFounded, Zenon DEF OpToRel
<1>2. PICK x \in T : \A y \in T : ~(<<y, x>> \in R)
  BY <1>1, WFMin, Zenon
<1>3. \A y \in T : x \in Nat /\ y \in Nat /\ ~(y < x)
  BY <1>1, <1>2
<1> QED
  BY <1>2, <1>3

\* A file that does not go to the source's path goes to the destination.
LEMMA PlacesOut ==
    ASSUME ExportInv, ExportAssumption, NEW s \in Savers, Place(s),
           saver[s].goal # "source"
    PROVE  out' = s /\ source' = source /\ There(s) = out
<1>1. saver[s].goal \in Goals
  BY SaverFacts DEF Progress
<1> QED
  BY <1>1 DEF Place, There, ExportAssumption

\* A copy that could not be written is removed.
LEMMA RemoveMoves ==
    ASSUME ExportInv, NEW s \in Savers, Go(s, "remove"),
           UNCHANGED <<out, source, content>>,
           saver[s].pc \in {"open", "write"}
    PROVE  ExportInv'
<1>1. PICK r : r = [saver[s] EXCEPT !.pc = "remove"]
  OBVIOUS
<1>2. /\ r \in Progress /\ r.pc = "remove" /\ r.result = saver[s].result
      /\ r.installed = saver[s].installed /\ r.goal = saver[s].goal
  BY <1>1, SaverFacts DEF Progress, Labels
<1>3. Alters(s, r, content[s])
  BY <1>1, SaverFacts DEF Go, Alters
<1> QED
  BY <1>2, <1>3, SaverFacts, SaverMoves DEF SaverDone

\* A copy that is installed has been written whole.
LEMMA InstallMoves ==
    ASSUME ExportInv, ExportAssumption, NEW s \in Savers, Place(s),
           saver[s].pc = "install", UNCHANGED content,
           saver' = [saver EXCEPT ![s].pc = "remove", ![s].installed = TRUE]
    PROVE  ExportInv'
<1>1. PICK r : r = [saver[s] EXCEPT !.pc = "remove", !.installed = TRUE]
  OBVIOUS
<1>2. /\ r \in Progress /\ r.pc = "remove" /\ r.result = saver[s].result
      /\ r.installed /\ r.goal = saver[s].goal
  BY <1>1, SaverFacts DEF Progress, Labels
<1>3. Alters(s, r, content[s])
  BY <1>1, SaverFacts DEF Alters
<1>4. out' = s /\ source' = source
  BY PlacesOut, SaverFacts DEF SaverDone
<1> QED
  BY <1>2, <1>3, <1>4, SaverFacts, SaverMoves DEF SaverDone

\* A look at the destination only moves the saver on.
LEMMA LookMoves ==
    ASSUME ExportInv, NEW s \in Savers, NoFileChange,
           saver[s].pc \in {"exists", "equivalent", "status"},
           NEW l \in {"equivalent", "status", "stage"}, Go(s, l)
    PROVE  ExportInv'
<1>1. /\ content' = [content EXCEPT ![s] = content[s]]
      /\ out' = out /\ source' = source
  BY SaverFacts DEF NoFileChange
<1>2. saver[s].goal # "source"
  BY SaverFacts DEF SaverDone
<1>3. l \in Labels \ {"ended", "remove"} /\ l # "install"
  BY DEF Labels
<1> QED
  BY <1>1, <1>2, <1>3, GoMoves, SaverFacts

\* The steps of a copy that look at the destination.
LEMMA CopyLooks ==
    ASSUME ExportInv, ExportAssumption, NEW s \in Savers,
           \/ ResolvePaths(s) \/ InspectDestination(s)
           \/ CompareFiles(s) \/ CheckPlainFile(s)
    PROVE  ExportInv'
<1>0. /\ content' = [content EXCEPT ![s] = content[s]]
      /\ UNCHANGED <<out, source, content>> /\ NoFileChange
  BY SaverFacts DEF ResolvePaths, InspectDestination, CompareFiles,
                    CheckPlainFile, NoFileChange
<1>1. CASE ResolvePaths(s)
  <2>1. saver[s].pc = "resolve"
    BY <1>1 DEF ResolvePaths, At
  <2>2. CASE End(s, "failure")
    BY <1>0, <2>1, <2>2, EndMoves, SaverFacts DEF SaverDone
  <2>3. CASE /\ saver[s].goal # "source"
             /\ saver' = [saver EXCEPT ![s].pc = "exists",
                                       ![s].allowOverwrite = Permission[s]]
    <3>1. PICK r : r = [saver[s] EXCEPT !.pc = "exists",
                                        !.allowOverwrite = Permission[s]]
      OBVIOUS
    <3>2. Permission[s] \in BOOLEAN
      BY DEF ExportAssumption
    <3>3. /\ r \in Progress /\ r.pc = "exists" /\ r.goal = saver[s].goal
          /\ r.result = saver[s].result /\ r.installed = saver[s].installed
      BY <3>1, <3>2, SaverFacts DEF Progress, Labels
    <3>4. Alters(s, r, content[s])
      BY <1>0, <2>3, <3>1, SaverFacts DEF Alters
    <3> QED
      BY <1>0, <2>1, <2>3, <3>3, <3>4, SaverFacts, SaverMoves DEF SaverDone
  <2> QED
    BY <1>1, <2>2, <2>3 DEF ResolvePaths
<1>2. CASE InspectDestination(s)
  <2>1. saver[s].pc = "exists" /\ (Go(s, "stage") \/ Go(s, "equivalent"))
    BY <1>2 DEF InspectDestination, At
  <2> QED
    BY <1>0, <2>1, LookMoves
<1>3. CASE CompareFiles(s)
  <2>1. saver[s].pc = "equivalent" /\ (Go(s, "status") \/ End(s, "failure"))
    BY <1>3 DEF CompareFiles, At
  <2>2. CASE Go(s, "status")
    BY <1>0, <2>1, <2>2, LookMoves
  <2>3. CASE End(s, "failure")
    BY <1>0, <2>1, <2>3, EndMoves, SaverFacts DEF SaverDone
  <2> QED
    BY <2>1, <2>2, <2>3
<1>4. CASE CheckPlainFile(s)
  <2>1. saver[s].pc = "status"
    BY <1>4 DEF CheckPlainFile, At
  <2>2. Go(s, "stage") \/ End(s, "failure") \/ Refuse(s, TRUE)
    BY <1>4 DEF CheckPlainFile
  <2>3. CASE Go(s, "stage")
    BY <1>0, <2>1, <2>3, LookMoves
  <2>4. CASE End(s, "failure")
    BY <1>0, <2>1, <2>4, EndMoves, SaverFacts DEF SaverDone
  <2>5. CASE Refuse(s, TRUE)
    BY <1>0, <2>1, <2>5, RefuseMoves
  <2> QED
    BY <2>2, <2>3, <2>4, <2>5
<1> QED
  BY <1>1, <1>2, <1>3, <1>4

\* A copy in its staging directory: it is made, written, installed, removed.
LEMMA CopyWrites ==
    ASSUME ExportInv, ExportAssumption, NEW s \in Savers,
           \/ StageArea(s) \/ OpenStaged(s) \/ WriteStaged(s)
           \/ InstallStaged(s) \/ RemoveArea(s)
    PROVE  ExportInv'
<1>1. CASE StageArea(s)
  <2>1. saver[s].pc = "stage" /\ UNCHANGED <<out, source, content>>
    BY <1>1 DEF StageArea, At, NoFileChange
  <2>2. CASE End(s, "failure")
    BY <2>1, <2>2, EndMoves, SaverFacts DEF SaverDone
  <2>3. CASE \E a \in Areas :
                saver' = [saver EXCEPT ![s].pc = "open", ![s].area = a]
    <3>1. PICK a \in Areas :
             saver' = [saver EXCEPT ![s].pc = "open", ![s].area = a]
      BY <2>3
    <3>2. PICK r : r = [saver[s] EXCEPT !.pc = "open", !.area = a]
      OBVIOUS
    <3>3. /\ r \in Progress /\ r.pc = "open" /\ r.goal = saver[s].goal
          /\ r.result = saver[s].result /\ r.installed = saver[s].installed
      BY <3>2, SaverFacts DEF Progress, Labels
    <3>4. Alters(s, r, content[s])
      BY <2>1, <3>1, <3>2, SaverFacts DEF Alters
    <3> QED
      BY <2>1, <3>3, <3>4, SaverFacts, SaverMoves DEF SaverDone
  <2>4. PICK free : free = {a \in Areas : staging[a] = None}
    OBVIOUS
  <2>5. PICK a : a = CHOOSE x \in free : \A y \in free : x <= y
    OBVIOUS
  <2>6. \/ End(s, "failure")
        \/ free # {} /\ saver' = [saver EXCEPT ![s].pc = "open", ![s].area = a]
    BY <1>1, <2>4, <2>5 DEF StageArea
  <2>7. free # {} => a \in Areas
    <3>1. ASSUME free # {} PROVE \E x \in free : \A y \in free : x <= y
      BY <2>4, <3>1, LeastArea DEF ExportAssumption
    <3> QED
      BY <2>4, <2>5, <3>1
  <2> QED
    BY <2>2, <2>3, <2>6, <2>7
<1>2. CASE OpenStaged(s)
  <2>1. saver[s].pc = "open" /\ UNCHANGED <<out, source>>
    BY <1>2 DEF OpenStaged, At
  <2>2. CASE Go(s, "write") /\ content' = [content EXCEPT ![s] = "torn"]
    <3>1. saver[s].goal # "source"
      BY <2>1, SaverFacts DEF SaverDone
    <3>2. "write" \in Labels \ {"ended", "remove"}
      BY DEF Labels
    <3> QED
      BY <2>1, <2>2, <3>1, <3>2, GoMoves
  <2>3. CASE Go(s, "remove") /\ UNCHANGED content
    BY <2>1, <2>3, RemoveMoves
  <2> QED
    BY <1>2, <2>2, <2>3 DEF OpenStaged
<1>3. CASE WriteStaged(s)
  <2>1. saver[s].pc = "write" /\ UNCHANGED <<out, source>>
    BY <1>3 DEF WriteStaged, At
  <2>2. CASE Go(s, "install") /\ content' = [content EXCEPT ![s] = "whole"]
    BY <2>1, <2>2, GoMoves, SaverFacts DEF SaverDone, Labels
  <2>3. CASE Go(s, "remove") /\ UNCHANGED content
    BY <2>1, <2>3, RemoveMoves
  <2> QED
    BY <1>3, <2>2, <2>3 DEF WriteStaged
<1>4. CASE InstallStaged(s)
  <2>1. saver[s].pc = "install" /\ UNCHANGED content
    BY <1>4 DEF InstallStaged, At
  <2>2. CASE /\ Place(s)
             /\ saver' = [saver EXCEPT ![s].pc = "remove", ![s].installed = TRUE]
    BY <2>1, <2>2, InstallMoves
  <2>3. CASE /\ saver' = [saver EXCEPT ![s].pc = "remove",
                                       ![s].alreadyExists = There(s) # None]
             /\ UNCHANGED <<out, source>>
    <3>1. PICK e \in BOOLEAN : e = (There(s) # None)
      OBVIOUS
    <3>2. PICK r : r = [saver[s] EXCEPT !.pc = "remove", !.alreadyExists = e]
      OBVIOUS
    <3>3. /\ r \in Progress /\ r.pc = "remove" /\ r.goal = saver[s].goal
          /\ r.result = saver[s].result /\ r.installed = saver[s].installed
      BY <3>2, SaverFacts DEF Progress, Labels
    <3>4. Alters(s, r, content[s])
      BY <2>1, <2>3, <3>1, <3>2, SaverFacts DEF Alters
    <3> QED
      BY <2>1, <2>3, <3>3, <3>4, SaverFacts, SaverMoves DEF SaverDone
  <2> QED
    BY <1>4, <2>2, <2>3 DEF InstallStaged
<1>5. CASE RemoveArea(s)
  <2>1. /\ UNCHANGED <<out, source, content>>
        /\ End(s, IF saver[s].installed THEN "success" ELSE "failure")
    BY <1>5 DEF RemoveArea
  <2> QED
    BY <2>1, EndMoves
<1> QED
  BY <1>1, <1>2, <1>3, <1>4, <1>5

\* An export of the command line.
LEMMA ExportMoves ==
    ASSUME ExportInv, ExportAssumption, NEW s \in Savers,
           \/ InspectExport(s) \/ AnswerOverwrite(s) \/ OpenExport(s)
           \/ WriteExport(s) \/ InstallExport(s)
    PROVE  ExportInv'
<1>0. saver[s].goal # "source"
  <2>1. Kind[s] = "export"
    BY DEF InspectExport, AnswerOverwrite, OpenExport, WriteExport,
           InstallExport, At
  <2> QED
    BY <2>1, SaverFacts DEF ExportAssumption, Progress
<1>1. CASE InspectExport(s)
  <2>1. /\ saver[s].pc = "resolve" /\ NoFileChange
        /\ Go(s, "prompt") \/ Go(s, "open")
    BY <1>1 DEF InspectExport, At
  <2>2. out' = out /\ source' = source /\ content' = [content EXCEPT ![s] = content[s]]
    BY <2>1, SaverFacts DEF NoFileChange
  <2> QED
    <3>1. \A l \in {"prompt", "open"} :
             l \in Labels \ {"ended", "remove"} /\ l # "install"
      BY DEF Labels
    <3>2. CASE Go(s, "prompt")
      BY <1>0, <2>1, <2>2, <3>1, <3>2, GoMoves, SaverFacts
    <3>3. CASE Go(s, "open")
      BY <1>0, <2>1, <2>2, <3>1, <3>3, GoMoves, SaverFacts
    <3> QED
      BY <2>1, <3>2, <3>3
<1>2. CASE AnswerOverwrite(s)
  <2>1. saver[s].pc = "prompt" /\ NoFileChange
    BY <1>2 DEF AnswerOverwrite, At
  <2>2. CASE Refuse(s, TRUE)
    BY <2>1, <2>2, RefuseMoves
  <2>3. CASE saver' = [saver EXCEPT ![s].pc = "resolve",
                                    ![s].allowOverwrite = TRUE]
    <3>1. PICK r : r = [saver[s] EXCEPT !.pc = "resolve", !.allowOverwrite = TRUE]
      OBVIOUS
    <3>2. /\ r \in Progress /\ r.pc = "resolve" /\ r.goal = saver[s].goal
          /\ r.result = saver[s].result /\ r.installed = saver[s].installed
      BY <3>1, SaverFacts DEF Progress, Labels
    <3>3. Alters(s, r, content[s]) /\ out' = out /\ source' = source
      BY <2>1, <2>3, <3>1, SaverFacts DEF Alters, NoFileChange
    <3> QED
      BY <2>1, <3>2, <3>3, SaverFacts, SaverMoves DEF SaverDone
  <2> QED
    BY <1>2, <2>2, <2>3 DEF AnswerOverwrite
<1>3. CASE OpenExport(s)
  <2>1. saver[s].pc = "open" /\ UNCHANGED <<out, source>>
    BY <1>3 DEF OpenExport, At
  <2>2. CASE Go(s, "write") /\ content' = [content EXCEPT ![s] = "torn"]
    <3>1. "write" \in Labels \ {"ended", "remove"}
      BY DEF Labels
    <3> QED
      BY <1>0, <2>1, <2>2, <3>1, GoMoves
  <2>3. CASE End(s, "failure") /\ UNCHANGED content
    BY <2>1, <2>3, EndMoves, SaverFacts DEF SaverDone
  <2> QED
    BY <1>3, <2>2, <2>3 DEF OpenExport
<1>4. CASE WriteExport(s)
  <2>1. saver[s].pc = "write" /\ UNCHANGED <<out, source>>
    BY <1>4 DEF WriteExport, At
  <2>2. CASE Go(s, "install") /\ content' = [content EXCEPT ![s] = "whole"]
    BY <1>0, <2>1, <2>2, GoMoves DEF Labels
  <2>3. CASE End(s, "failure") /\ UNCHANGED content
    BY <2>1, <2>3, EndMoves, SaverFacts DEF SaverDone
  <2> QED
    BY <1>4, <2>2, <2>3 DEF WriteExport
<1>5. CASE InstallExport(s)
  <2>1. saver[s].pc = "install" /\ UNCHANGED content
    BY <1>5 DEF InstallExport, At
  <2>2. CASE /\ Place(s)
             /\ saver' = [saver EXCEPT ![s].pc = "ended", ![s].installed = TRUE,
                                       ![s].result = "success"]
    <3>1. PICK r : r = [saver[s] EXCEPT !.pc = "ended", !.installed = TRUE,
                                        !.result = "success"]
      OBVIOUS
    <3>2. /\ r \in Progress /\ r.pc = "ended" /\ r.result = "success"
          /\ r.installed
      BY <3>1, SaverFacts DEF Progress, Labels
    <3>3. Alters(s, r, content[s])
      BY <2>1, <2>2, <3>1, SaverFacts DEF Alters
    <3>4. out' = s /\ source' = source
      BY <1>0, <2>2, PlacesOut
    <3> QED
      BY <2>1, <3>2, <3>3, <3>4, SaverFacts, SaverMoves DEF SaverDone
  <2>3. CASE End(s, "failure") /\ UNCHANGED <<out, source>>
    BY <2>1, <2>3, EndMoves, SaverFacts DEF SaverDone
  <2> QED
    BY <1>5, <2>2, <2>3 DEF InstallExport
<1> QED
  BY <1>1, <1>2, <1>3, <1>4, <1>5

\* Every step keeps the invariant, another program's too.
LEMMA ExportStep ==
    ASSUME ExportAssumption, ExportInv, [Next]_vars PROVE ExportInv'
<1>1. ASSUME NEW s \in Savers, Crash(s) PROVE ExportInv'
  BY <1>1, EndMoves DEF Crash, NoFileChange
<1>2. CASE OtherProgram
  <2>1. out' \notin Savers /\ UNCHANGED <<source, content, saver>>
    BY <1>2 DEF OtherProgram, ExportAssumption
  <2> QED
    BY <2>1 DEF ExportInv, SaverDone
<1>3. CASE UNCHANGED vars
  BY <1>3 DEF ExportInv, SaverDone, vars
<1> QED
  BY <1>1, <1>2, <1>3, CopyLooks, CopyWrites, ExportMoves DEF Next, Save

\* The imported workspace stays what it was, the destination never holds part
\* of a file, and the result of every save is true (SaveMvmeWorkspaceCopy,
\* SaveMvmeExportText), for any number of savers beside any other program.
THEOREM ExportIsWhole ==
    ASSUME ExportAssumption
    PROVE  Spec => [](DestinationIsWhole /\ ReportIsTrue)
<1>1. ASSUME ExportInv PROVE DestinationIsWhole /\ ReportIsTrue
  <2>1. DestinationIsWhole
    BY <1>1 DEF ExportInv, SaverDone, DestinationIsWhole
  <2>2. ASSUME NEW s \in Savers, saver[s].result \in {"success", "failure"}
        PROVE  (saver[s].result = "success") = saver[s].installed
    <3>1. saver[s].installed \in BOOLEAN
      BY <1>1, SaverFacts DEF Progress
    <3>2. saver[s].result = "success" <=> saver[s].installed
      BY <1>1, <2>2, SaverFacts DEF SaverDone
    <3> QED
      BY <3>1, <3>2
  <2> QED
    BY <2>1, <2>2 DEF ReportIsTrue
<1>2. Init => ExportInv
  BY ExportInit
<1>3. ExportInv /\ [Next]_vars => ExportInv'
  BY ExportStep
<1> QED
  BY <1>1, <1>2, <1>3, PTL DEF Spec

\* Copies of a workspace replace nothing without permission, also what came to
\* the destination after they looked (SaveMvmeWorkspaceCopy).
THEOREM CopiesAsk ==
    ASSUME ExportAssumption, \A s \in Savers : Kind[s] = "copy"
    PROVE  Spec => NoSilentReplacement
<1>1. ASSUME ExportInv, [Next]_vars, ReplacesSilently PROVE FALSE
  <2>1. PICK s \in Savers : /\ out # None /\ out' = s /\ out # s
                            /\ ~saver[s].allowOverwrite
    BY <1>1 DEF ReplacesSilently
  <2>2. PICK t \in Savers : Save(t) \/ Crash(t)
    BY <1>1, <2>1 DEF Next, OtherProgram, vars, ExportAssumption
  <2>3. InstallStaged(t)
    BY <2>1, <2>2
       DEF Save, Crash, ResolvePaths, InspectDestination, CompareFiles,
           CheckPlainFile, StageArea, OpenStaged, WriteStaged, RemoveArea,
           InspectExport, AnswerOverwrite, OpenExport, WriteExport,
           InstallExport, NoFileChange, At
  <2>4. saver[t].goal # "source" /\ Place(t)
        /\ (saver[t].allowOverwrite \/ There(t) = None)
    BY <1>1, <2>1, <2>3, SaverFacts DEF InstallStaged, At, SaverDone
  <2>5. out' = t /\ There(t) = out
    BY <1>1, <2>4, PlacesOut
  <2> QED
    BY <2>1, <2>4, <2>5
<1>2. Init => ExportInv
  BY ExportInit
<1>3. ExportInv /\ [Next]_vars => ExportInv'
  BY ExportStep
<1>4. ExportInv /\ [Next]_vars => [~ReplacesSilently]_vars
  BY <1>1
<1> QED
  BY <1>2, <1>3, <1>4, PTL DEF Spec, NoSilentReplacement
=============================================================================

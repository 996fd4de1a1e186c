--------------------------- MODULE AtomicJournal ---------------------------
(***************************************************************************)
(* What a recovery journal promises to the operations that save it: a save *)
(* installs a whole record or nothing, whatever it reports; a save that    *)
(* reports success has installed its record, and no later power loss       *)
(* brings an older one back.                                               *)
(*                                                                         *)
(* history is every content the file has had since the last power loss,    *)
(* oldest first, and safe the position of the oldest one a power loss      *)
(* could still reveal.                                                     *)
(***************************************************************************)
EXTENDS Naturals, Sequences

CONSTANTS
    Processes,   \* the FIDGET processes that use the file
    Texts,       \* the serialised records
    NoFile       \* the content of a file that does not exist

VARIABLES history, safe, saving

absVars == <<history, safe, saving>>

Free == [text |-> NoFile, at |-> 0, ok |-> FALSE]

Init ==
    /\ history = <<NoFile>>
    /\ safe = 1
    /\ saving = [p \in Processes |-> Free]

Begin(p) ==
    /\ saving[p] = Free
    /\ \E t \in Texts : saving' = [saving EXCEPT ![p] = [Free EXCEPT !.text = t]]
    /\ UNCHANGED <<history, safe>>

Install(p) ==
    /\ saving[p].text \in Texts /\ saving[p].at = 0
    /\ history' = Append(history, saving[p].text)
    /\ saving' = [saving EXCEPT ![p].at = Len(history) + 1]
    /\ UNCHANGED safe

\* Success is decided when the installed record can no longer be undone.
Confirm(p) ==
    /\ saving[p].at # 0
    /\ safe' = Len(history)
    /\ saving' = [saving EXCEPT ![p].ok = TRUE]
    /\ UNCHANGED history

\* The save returns, or its process dies.
End(p) ==
    /\ saving' = [saving EXCEPT ![p] = Free]
    /\ UNCHANGED <<history, safe>>

Remove(p) ==
    /\ saving[p] = Free
    /\ history' = Append(history, NoFile)
    /\ UNCHANGED <<safe, saving>>

PowerLoss ==
    /\ \E i \in safe .. Len(history) : history' = <<history[i]>>
    /\ safe' = 1
    /\ saving' = [p \in Processes |-> Free]

Next ==
    \/ \E p \in Processes :
          Begin(p) \/ Install(p) \/ Confirm(p) \/ End(p) \/ Remove(p)
    \/ PowerLoss

Spec == Init /\ [][Next]_absVars
=============================================================================

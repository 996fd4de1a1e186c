------------------------- MODULE MvmeWorkspaceExport -------------------------
(***************************************************************************)
(* The copy of an MVME workspace that carries the tuned settings           *)
(* (core/MvmeWorkspaceExport.cpp) and the plain settings script            *)
(* (core/MvmeExport.cpp).  The user edits the workspace, with MVME or an   *)
(* editor, between exports; each export starts from the evaluated scripts. *)
(*                                                                         *)
(* A script is reduced to what evaluation gives for it: the frontend       *)
(* values it leaves (effect, the property of MvmeInitScript), how far they *)
(* are resolved (quality) and what InspectFidgetFence says of its text.    *)
(***************************************************************************)
EXTENDS ScpPlan, SequencesExt

CONSTANTS
    Effects,    \* frontend values a user script may leave
    Ids,        \* identifiers the generator may give
    OtherIds,   \* identifiers elsewhere in the workspace
    MaxScripts, \* bound on the scripts of the target
    MaxAttempts,\* MaximumScriptIdAttempts
    None

ExportAssumption ==
    /\ Effects \subseteq [Quads \X Settings -> Values \cup {None}]
    /\ OtherIds \subseteq Ids /\ MaxAttempts \in Nat

VARIABLES
    target,   \* FindEnabledMdpp32ScpTarget still finds the same module
    scripts,  \* initScripts of the target
    exported  \* the last export: the document it read and what came of it

vars == <<target, scripts, exported>>

Cells == Quads \X Settings
NoValues == [c \in Cells |-> None]
Qualities == {"resolved", "partial", "conditional", "failed"}
NotExported(result) ==
    [result |-> result, scripts |-> <<>>, values |-> NoValues]

Init ==
    /\ target = TRUE
    /\ scripts = <<>>
    /\ exported = NotExported("none")

-----------------------------------------------------------------------------
(***************************************************************************)
(* The evaluation of the target's scripts (MvmeInitScript).                *)
(***************************************************************************)
EnabledScripts(s) == SelectSeq(s, LAMBDA e : e.enabled)

Overwrite(values, effect) ==
    [c \in Cells |-> IF effect[c] = None THEN values[c] ELSE effect[c]]

FinalValues(s) ==
    LET after[n \in 0 .. Len(s)] ==
            IF n = 0 THEN NoValues ELSE Overwrite(after[n - 1], s[n].effect)
    IN  after[Len(s)]

Evaluation(s) ==
    LET enabled  == EnabledScripts(s)
        worst(q) == \E i \in DOMAIN enabled : enabled[i].quality = q
    IN  [state |-> CASE worst("failed") -> "failed"
                     [] ~worst("failed") /\ worst("conditional") -> "conditional"
                     [] OTHER -> IF worst("partial") THEN "partial" ELSE "resolved",
         values |-> FinalValues(enabled)]

-----------------------------------------------------------------------------
(***************************************************************************)
(* ExtractFw2051WorkspaceStartingState, GenerateFw2051LiteralScript.       *)
(***************************************************************************)

\* ValidateStartingState: pairs that are both resolved satisfy their
\* dependency, and something is resolved.
ValidateStartingState(evaluation) ==
    LET v == evaluation.values
    IN  /\ evaluation.state \in {"resolved", "partial"}
        /\ v # NoValues
        /\ \A q \in Quads :
             (v[<<q, Constrained>>] # None /\ v[<<q, Boundary>>] # None) =>
                DependencySatisfied(v[<<q, Constrained>>], v[<<q, Boundary>>])

\* PlanLiteralValues refuses a pair of which one value is missing.
PairsComplete(v) ==
    \A q \in Quads : (v[<<q, Constrained>>] = None) = (v[<<q, Boundary>>] = None)

Put(register, value) == [register |-> register, value |-> value]
Selector == "selector"

\* appendCoupled: the boundary is opened wide first, whatever it was.
CoupledValues(v, q) ==
    IF v[<<q, Boundary>>] = None THEN <<>>
    ELSE LET order == CoupledWriteOrder(MaxValue, v[<<q, Constrained>>])
         IN  <<Put(Boundary, MaxValue)>>
             \o [i \in DOMAIN order |-> Put(order[i], v[<<q, order[i]>>])]

LiteralValues(v, q) ==
    (IF v[<<q, "gain">>] = None THEN <<>>
     ELSE <<Put("gain", v[<<q, "gain">>])>>) \o CoupledValues(v, q)

\* GenerateFw2051LiteralScript: a selector write before the values of a quad,
\* the selector parked at the end.
LiteralScript(v) ==
    LET quad(q) == IF LiteralValues(v, q) = <<>> THEN <<>>
                   ELSE <<Put(Selector, q)>> \o LiteralValues(v, q)
        upTo[n \in 0 .. QuadCount] ==
            IF n = 0 THEN <<>> ELSE upTo[n - 1] \o quad(n - 1)
    IN  upTo[QuadCount] \o <<Put(Selector, 0)>>

\* GenerateFw2051MvmeScript: every value of a profile, in the order of the
\* registry.
SettingsScript(bank) ==
    LET quad(q) == <<Put(Selector, q), Put(Constrained, bank[q][Constrained]),
                     Put("gain", bank[q]["gain"]),
                     Put(Boundary, bank[q][Boundary])>>
        upTo[n \in 0 .. QuadCount] ==
            IF n = 0 THEN <<>> ELSE upTo[n - 1] \o quad(n - 1)
    IN  upTo[QuadCount] \o <<Put(Selector, 0)>>

\* ValidateFw2051ScpConfiguration and ValidateExportValues
ExportValid(bank) == \A q \in Quads : Coupled(bank[q])

-----------------------------------------------------------------------------
(***************************************************************************)
(* ExportFw2051MvmeWorkspaceCopy.                                          *)
(***************************************************************************)
Owned(s) == {i \in DOMAIN s : s[i].fence = "complete"}
UsedIds(s) == OtherIds \cup {s[i].id : i \in DOMAIN s}

\* Identifiers UniqueFidgetScriptId can return for a document.
UniqueIds(s) == IF MaxAttempts = 0 THEN {} ELSE Ids \ UsedIds(s)

NewScript(v, id) ==
    [fence |-> "complete", enabled |-> TRUE, quality |-> "resolved",
     effect |-> v, id |-> id]

\* The new script goes in the place of the old one.
PlacedInPlace(s, new) ==
    IF Owned(s) = {} THEN Append(s, new)
    ELSE [s EXCEPT ![CHOOSE i \in Owned(s) : TRUE] = new]

\* The old script is taken out and the new one put behind all others.
PlacedLast(s, new) ==
    Append(IF Owned(s) = {} THEN s
           ELSE RemoveAt(s, CHOOSE i \in Owned(s) : TRUE), new)

Refused == /\ exported' = NotExported("refused")
           /\ UNCHANGED <<target, scripts>>

Export ==
    LET evaluation == Evaluation(scripts)
        values     == evaluation.values
        rest       == IF Owned(scripts) = {} THEN scripts
                      ELSE RemoveAt(scripts, CHOOSE i \in Owned(scripts) : TRUE)
        acceptable == /\ target
                      /\ ValidateStartingState(evaluation)
                      /\ PairsComplete(values)
                      /\ \A i \in DOMAIN scripts : scripts[i].fence # "malformed"
                      /\ Cardinality(Owned(scripts)) <= 1
    IN  \/ /\ acceptable
           /\ \E id \in UniqueIds(rest) :
                scripts' = PlacedLast(scripts, NewScript(values, id))
           /\ exported' = [result |-> "success", scripts |-> scripts,
                           values |-> values]
           /\ UNCHANGED target
        \/ /\ ~acceptable \/ UniqueIds(rest) = {}
           /\ Refused

-----------------------------------------------------------------------------
(***************************************************************************)
(* The user (external): adds, removes, disables, copies scripts, damages a *)
(* fence, and may move or duplicate the target module.                     *)
(***************************************************************************)
Edit ==
    /\ exported' = NotExported("edited")
    /\ \/ /\ Len(scripts) < MaxScripts
          /\ \E effect \in Effects, quality \in Qualities, id \in Ids :
               /\ id \notin UsedIds(scripts)
               /\ scripts' = Append(scripts,
                    [fence |-> "none", enabled |-> TRUE, quality |-> quality,
                     effect |-> effect, id |-> id])
       \/ \E i \in DOMAIN scripts :
             scripts' = [scripts EXCEPT ![i].enabled = ~@]
       \/ \E i \in DOMAIN scripts : scripts' = RemoveAt(scripts, i)
       \/ /\ Len(scripts) < MaxScripts
          /\ \E i \in DOMAIN scripts : scripts' = Append(scripts, scripts[i])
       \/ \E i \in Owned(scripts) :
             scripts' = [scripts EXCEPT ![i].fence = "malformed"]
    /\ UNCHANGED target

MoveTarget ==
    /\ target' = ~target
    /\ exported' = NotExported("edited")
    /\ UNCHANGED scripts

Next == Export \/ Edit \/ MoveTarget

Spec == Init /\ [][Next]_vars

-----------------------------------------------------------------------------
(***************************************************************************)
(* MVME running a script (external): the selector and the banks after each *)
(* of its writes.                                                          *)
(***************************************************************************)
Run(script, bank) ==
    LET after[n \in 0 .. Len(script)] ==
            IF n = 0 THEN [selector |-> 0, bank |-> bank]
            ELSE LET w == script[n]  m == after[n - 1]
                 IN  IF w.register = Selector
                     THEN [m EXCEPT !.selector = w.value]
                     ELSE [m EXCEPT !.bank[m.selector][w.register] = w.value]
    IN  after

\* The copied workspace means what the edited one meant: its scripts evaluate
\* to the same values, now with one FIDGET script, the last one, which alone
\* produces them; the user's scripts are there in their order
\* (ExportFw2051MvmeWorkspaceCopy).
ExportKeepsMeaning ==
    exported.result = "success" =>
        LET user(s) == SelectSeq(s, LAMBDA e : e.fence = "none")
        IN  /\ FinalValues(EnabledScripts(scripts)) = exported.values
            /\ Owned(scripts) = {Len(scripts)}
            /\ Last(scripts).effect = exported.values
            /\ user(scripts) = user(exported.scripts)

\* The FIDGET script never takes an identifier that is used in the workspace
\* (UniqueFidgetScriptId).
FidgetIdIsUnique ==
    exported.result = "success" =>
        Last(scripts).id \notin UsedIds(Front(scripts))

\* The literal script leaves exactly the exported values in the module, the
\* rest as it was, and no coupled pair is ever invalid on the way, whatever
\* valid values the module had (PlanLiteralValues).
LiteralScriptIsSafe ==
    exported.result = "success" =>
        LET script == LiteralScript(exported.values)
        IN  \A bank \in {b \in Banks : \A q \in Quads : Coupled(b[q])} :
              LET after == Run(script, bank)
              IN  /\ \A n \in DOMAIN after : \A q \in Quads :
                         Coupled(after[n].bank[q])
                  /\ after[Len(script)].selector = 0
                  /\ \A c \in Cells : after[Len(script)].bank[c[1]][c[2]] =
                       IF exported.values[c] = None THEN bank[c[1]][c[2]]
                       ELSE exported.values[c]

\* The settings script of a valid profile leaves every value of the profile
\* in the module, whatever was there, and the selector parked
\* (GenerateFw2051MvmeScript; it depends on the profile alone and is looked
\* at in the initial state).
SettingsScriptReproducesProfile ==
    exported.result = "none" =>
        \A profile \in {b \in Banks : ExportValid(b)}, bank \in Banks :
            LET script == SettingsScript(profile)
            IN  Run(script, bank)[Len(script)]
                    = [selector |-> 0, bank |-> profile]

=============================================================================

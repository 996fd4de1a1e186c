--------------------------- MODULE MvmeInitScript ---------------------------
(***************************************************************************)
(* The passive evaluator of MVME initialisation scripts                    *)
(* (core/MvmeInitScript.cpp), run side by side with MVME itself.           *)
(*                                                                         *)
(* The evaluator reads the scripts of the target module line by line and   *)
(* works out, without any hardware, which frontend values they leave in    *)
(* the module.  Here the scripts are chosen line by line: every step reads *)
(* one line with the evaluator (variable ev) and lets MVME execute it on   *)
(* the module's registers (variable mvme, external).  What the evaluator   *)
(* calls definite can then be compared with what MVME really leaves.       *)
(*                                                                         *)
(* A line is a record; its words are tokens: a number, a reference ${x},   *)
(* an expression $(${x} + 1), or text that is no number.                   *)
(***************************************************************************)
EXTENDS Naturals, Sequences

CONSTANTS
    QuadCount,        \* Fw2051ScpQuadCount; this value selects all quads
    SelectorRegister, \* Fw2051ScpSelectorRegister
    Settings,         \* the registers FindFw2051ScpSetting knows
    Base,             \* the target's full A32 base address
    MaxWord,          \* the largest 16-bit value
    Writes,           \* pairs of address and value a line may write
    Sets,             \* pairs of name and value a line may set
    ScriptTables,     \* variable tables a script may carry
    OuterTables,      \* the tables of the module, the event and the DAQ
    MaxLines,         \* bound on the lines of all scripts
    MaxScripts,       \* bound on the scripts
    Untouched,        \* the value of a register no script has written
    None

Broadcast == QuadCount
Quads == 0 .. QuadCount - 1

-----------------------------------------------------------------------------
(***************************************************************************)
(* Tokens, variable tables and their expansion (ValueResolver).            *)
(***************************************************************************)

Number(n)     == [kind |-> "number", n |-> n, name |-> None]
Variable(x)   == [kind |-> "variable", n |-> 0, name |-> x]
Expression(x) == [kind |-> "expression", n |-> 0, name |-> x]
Text          == [kind |-> "text", n |-> 0, name |-> None]
Failure       == [kind |-> "failure", n |-> 0, name |-> None]

\* The innermost table that binds the name; Failure when none does.
Lookup(tables, x) ==
    LET binding == {i \in DOMAIN tables : x \in DOMAIN tables[i]}
    IN  IF binding = {} THEN Failure
        ELSE tables[CHOOSE i \in binding : \A j \in binding : i <= j][x]

\* One pass: references are replaced, then expressions are evaluated, which
\* fails for one that does not hold plain numbers by then.
ExpandAndEvaluateOnce(tables, token) ==
    LET bound == Lookup(tables, token.name)
    IN  CASE token.kind = "variable" -> bound
          [] token.kind = "expression" ->
                IF bound.kind = "number" THEN Number(bound.n + 1) ELSE Failure
          [] OTHER -> token

ExpandTwice(tables, token) ==
    ExpandAndEvaluateOnce(tables, ExpandAndEvaluateOnce(tables, token))

\* A word that still holds a reference after the passes MVME makes is an error.
Prepared(tables, token, twice) ==
    LET word == IF twice THEN ExpandTwice(tables, token)
                         ELSE ExpandAndEvaluateOnce(tables, token)
    IN  IF word.kind \in {"variable", "expression"} THEN Failure ELSE word

\* What the text says, however many expansions that takes (reference).
Meaning(tables, token) ==
    LET after[n \in 0 .. 4] ==
            IF n = 0 THEN token ELSE ExpandAndEvaluateOnce(tables, after[n - 1])
    IN  after[4]

Resolves(word) == word.kind = "number"

-----------------------------------------------------------------------------
(***************************************************************************)
(* Lines.  op "write" stands for the shorthand form and for write and      *)
(* writeabs; plain is FALSE for address modes and widths other than        *)
(* a32 d16.  op "other" stands for read, readabs, wait, print,             *)
(* accu_mask_rotate and accu_test_warn.  A line that is not wellFormed     *)
(* has a missing word, an unclosed quote or no known command.              *)
(***************************************************************************)

Write(plain, absolute, address, value) ==
    [op |-> "write", wellFormed |-> TRUE, plain |-> plain,
     absolute |-> absolute, name |-> None,
     address |-> address, value |-> value]
Command(op, name, value, wellFormed) ==
    [op |-> op, wellFormed |-> wellFormed, plain |-> FALSE,
     absolute |-> FALSE, name |-> name, address |-> Text, value |-> value]

Lines ==
    {Write(TRUE, FALSE, w[1], w[2]) : w \in Writes}
    \cup {Write(FALSE, FALSE, w[1], Number(1)) : w \in Writes}
    \cup {Write(TRUE, TRUE, Number(Base + SelectorRegister), Number(0)),
          Write(TRUE, TRUE, Number(Base - 1), Number(0))}
    \cup {Command("set", s[1], s[2], TRUE) : s \in Sets}
    \cup {Command(op, None, Number(1), ok) :
             op \in {"accu_test", "other", "unknown"}, ok \in BOOLEAN}

RelativeAbsoluteAddress(a) == IF a < Base THEN None ELSE a - Base
IsFrontendAddress(a) == a = SelectorRegister \/ a \in Settings

-----------------------------------------------------------------------------
(***************************************************************************)
(* The evaluator's members.  finals holds the definite final values;       *)
(* frontendIssue and issue remember whether a statement with frontend      *)
(* impact, or any statement, is on the list of unresolved ones.            *)
(***************************************************************************)
VARIABLES
    phase,     \* "between" scripts, in a "script", or "done"
    ev,        \* the evaluator
    before,    \* the members EvaluateScript saved when it began
    tables,    \* <<set by the script, the script's, module's, event's, DAQ's>>
    line,      \* lines read so far
    scripts,   \* entries of initScripts read
    mvme,      \* external: the module as MVME leaves it, and whether a
               \* frontend statement MVME executed was left unresolved
    mvmeBefore \* external: the same when the script began

vars == <<phase, ev, before, tables, line, scripts, mvme, mvmeBefore>>

Cells == Quads \X Settings
NoFinals == [c \in Cells |-> None]

Init ==
    /\ phase = "between"
    /\ ev = [selector |-> None, conditionalSelector |-> None,
             statementsConditional |-> FALSE,
             conditionalFrontendWrite |-> FALSE,
             parseFailed |-> FALSE, parseFailureEncountered |-> FALSE,
             frontendIssue |-> FALSE, issue |-> FALSE, finals |-> NoFinals]
    /\ before = ev
    /\ tables = <<>>
    /\ line = 0 /\ scripts = 0
    /\ mvme \in [selector : {0, Broadcast}, stopped : {FALSE},
                 unseen : {FALSE}, regs : {[c \in Cells |-> Untouched]}]
    /\ mvmeBefore = mvme

AddIssue(e, frontend) ==
    [e EXCEPT !.issue = TRUE, !.frontendIssue = @ \/ frontend]

\* MarkCurrentScriptParseFailure, AddIssue, and no selector any more after
\* a line that may have been a frontend write.
ParseFailure(e, frontend) ==
    [AddIssue(e, frontend) EXCEPT
        !.parseFailed = TRUE,
        !.selector = IF frontend THEN None ELSE @]

-----------------------------------------------------------------------------
(***************************************************************************)
(* One line, read by the evaluator.                                        *)
(***************************************************************************)

\* The address relative to the module, or None for one that is not in it.
RelativeAddress(l, a) ==
    IF l.absolute THEN RelativeAbsoluteAddress(a) ELSE a

\* The impact of a line that cannot be read: only an address that is plainly
\* no frontend register excludes frontend impact.
FrontendImpact(l, address) ==
    /\ l.op \in {"write", "unknown"}
    /\ ~(/\ Resolves(address)
         /\ RelativeAddress(l, address.n) # None
         /\ ~IsFrontendAddress(RelativeAddress(l, address.n)))

\* SetSelector and SetFinalValue
SetSelector(e, value) ==
    IF value > Broadcast
    THEN [AddIssue(e, TRUE) EXCEPT !.selector = None]
    ELSE [e EXCEPT !.selector = value]

SetFinalValue(e, register, value) ==
    [e EXCEPT !.finals = [c \in Cells |->
        IF c[2] = register /\ e.selector \in {c[1], Broadcast}
        THEN value ELSE @[c]]]

EvaluateRelativeWrite(e, address, value) ==
    CASE ~IsFrontendAddress(address) -> AddIssue(e, FALSE)
      [] IsFrontendAddress(address) /\ value > MaxWord ->
            [AddIssue(e, TRUE) EXCEPT !.selector =
                IF address = SelectorRegister THEN None ELSE @]
      [] address = SelectorRegister /\ value <= MaxWord -> SetSelector(e, value)
      [] OTHER -> IF e.selector = None THEN AddIssue(e, TRUE)
                  ELSE SetFinalValue(e, address, value)

\* A form other than a32 d16 is not interpreted.
EvaluateLongWrite(e, l, address, value) ==
    LET relative == RelativeAddress(l, address)
        frontend == relative # None /\ IsFrontendAddress(relative)
    IN  IF l.plain /\ ~l.absolute THEN EvaluateRelativeWrite(e, address, value)
        ELSE [AddIssue(e, frontend) EXCEPT !.selector =
                IF relative \in {None, SelectorRegister} THEN None ELSE @]

\* A taint that trusts the selector of the definite statements.
TaintBySelector(e, address, value) ==
    IF address \in {None, SelectorRegister} THEN e
    ELSE [e EXCEPT !.finals = [c \in Cells |->
            IF c[2] = address /\ e.selector \in {c[1], Broadcast}
            THEN None ELSE @[c]]]

\* A frontend write that may or may not happen makes what it would change
\* indefinite.
TaintConditionalFrontendValue(e, address, value) ==
    CASE address = None ->
            [e EXCEPT !.finals = NoFinals, !.conditionalSelector = None]
      [] address = SelectorRegister ->
            [e EXCEPT !.conditionalSelector =
                IF value > Broadcast THEN None ELSE value]
      [] OTHER ->
            [e EXCEPT !.finals = [c \in Cells |->
                IF /\ c[2] = address
                   /\ e.conditionalSelector \in {c[1], Broadcast, None}
                THEN None ELSE @[c]]]

EvaluateConditionalLine(e, l, address, value) ==
    LET relative == RelativeAddress(l, address)
    IN  IF \/ l.op # "write"
           \/ relative # None /\ ~IsFrontendAddress(relative)
        THEN AddIssue(e, FALSE)
        ELSE LET marked == [e EXCEPT !.issue = TRUE,
                                     !.conditionalFrontendWrite = TRUE]
             IN  TaintConditionalFrontendValue(marked, relative, value)

\* EvaluateLine for a line whose words are prepared and whose form is valid.
EvaluateStatement(e, l, address, value) ==
    CASE l.op = "set" -> e
      [] l.op # "set" /\ e.statementsConditional ->
            EvaluateConditionalLine(e, l, address, value)
      [] l.op = "accu_test" /\ ~e.statementsConditional ->
            [AddIssue(e, FALSE) EXCEPT !.statementsConditional = TRUE,
                                       !.conditionalSelector = e.selector]
      [] l.op = "write" /\ ~e.statementsConditional ->
            EvaluateLongWrite(e, l, address, value)
      [] OTHER -> AddIssue(e, FALSE)

-----------------------------------------------------------------------------
(***************************************************************************)
(* One line, executed by MVME (external).  A failing accu_test may stop    *)
(* everything that follows.                                                *)
(***************************************************************************)
MvmeWrite(m, address, value) ==
    CASE address = SelectorRegister -> [m EXCEPT !.selector = value]
      [] address \in Settings ->
            [m EXCEPT !.regs = [c \in Cells |->
                IF c[2] = address /\ m.selector \in {c[1], Broadcast}
                THEN value ELSE @[c]]]
      [] OTHER -> m

MvmeOutcomes(m, l, address, value) ==
    IF m.stopped THEN {m}
    ELSE CASE l.op = "accu_test" -> {m, [m EXCEPT !.stopped = TRUE]}
           [] l.op = "write" -> {MvmeWrite(m, RelativeAddress(l, address), value)}
           [] OTHER -> {m}

-----------------------------------------------------------------------------
(***************************************************************************)
(* Actions.                                                                *)
(***************************************************************************)

\* What MVME makes of an entry the evaluator cannot read is unknown.
Unreadable ==
    /\ phase = "between" /\ scripts < MaxScripts
    /\ scripts' = scripts + 1
    /\ ev' = [AddIssue(ev, TRUE) EXCEPT !.selector = None]
    /\ mvme' = [mvme EXCEPT !.unseen = TRUE]
    /\ before' = ev' /\ mvmeBefore' = mvme'
    /\ UNCHANGED <<phase, tables, line>>

\* Run: an entry that is no object, or has no Boolean enabled field or text.
MalformedEntry == Unreadable

\* JsonVariableTable: a table, of the script or above it, that does not have
\* MVME's shape.
MalformedTable == Unreadable

\* Run: an entry that is not enabled is passed over.
DisabledEntry ==
    /\ phase = "between" /\ scripts < MaxScripts
    /\ scripts' = scripts + 1
    /\ UNCHANGED <<phase, ev, before, tables, line, mvme, mvmeBefore>>

\* Run and the head of EvaluateScript: the tables are stacked, the members
\* that a rejected script must not change are saved.
BeginScript(table) ==
    /\ phase = "between" /\ scripts < MaxScripts
    /\ phase' = "script"
    /\ scripts' = scripts + 1
    /\ tables' = <<<<>>, table>> \o OuterTables
    /\ ev' = [ev EXCEPT !.parseFailed = FALSE]
    /\ before' = ev
    /\ mvmeBefore' = mvme
    /\ UNCHANGED <<mvme, line>>

\* SetLiteral, and Invalidate for a set line that cannot be read
Bind(x, word) ==
    tables' = [tables EXCEPT ![1] =
        [y \in DOMAIN @ \cup {x} |-> IF y = x THEN word ELSE @[y]]]

\* EvaluateLine, with PrepareLine, ValidatePreparedLineSyntax and
\* ReportPreparationFailure: the line is expanded, checked and evaluated.
EvaluateLine(l) ==
    LET twice   == l.op \notin {"set", "accu_test"}
        address == Prepared(tables, l.address, twice)
        value   == Prepared(tables, l.value, twice)
        valid   == /\ l.wellFormed /\ l.op # "unknown"
                   /\ value # Failure
                   /\ l.op = "write" => Resolves(address) /\ Resolves(value)
    IN  /\ phase = "script" /\ line < MaxLines
        /\ line' = line + 1
        /\ IF valid
           THEN /\ ev' = EvaluateStatement(ev, l, address.n, value.n)
                /\ IF l.op = "set" THEN Bind(l.name, value)
                                   ELSE UNCHANGED tables
                /\ LET seen == EvaluateStatement(
                                    [ev EXCEPT !.frontendIssue = FALSE],
                                    l, address.n, value.n)
                   IN  mvme' \in MvmeOutcomes(
                                [mvme EXCEPT !.unseen = @ \/ seen.frontendIssue],
                                l, Meaning(tables, l.address).n,
                                Meaning(tables, l.value).n)
           ELSE /\ ev' = ParseFailure(ev, FrontendImpact(l,
                            IF value = Failure THEN l.address ELSE address))
                /\ IF l.op = "set" THEN Bind(l.name, Failure)
                                   ELSE UNCHANGED tables
                /\ UNCHANGED mvme
        /\ UNCHANGED <<phase, before, scripts, mvmeBefore>>

\* The tail of EvaluateScript: MVME rejects a whole script before it runs
\* any of it, so a script with a parse failure leaves no trace but the list
\* of unresolved statements.
Restored(e) ==
    [e EXCEPT !.parseFailureEncountered = TRUE,
              !.selector = before.selector,
              !.conditionalSelector = before.conditionalSelector,
              !.statementsConditional = before.statementsConditional,
              !.conditionalFrontendWrite = before.conditionalFrontendWrite,
              !.finals = before.finals]

EndScript(unterminated) ==
    LET last == IF unterminated THEN ParseFailure(ev, TRUE) ELSE ev
    IN  /\ phase = "script"
        /\ phase' = "between"
        /\ ev' = IF last.parseFailed THEN Restored(last) ELSE last
        /\ mvme' = IF last.parseFailed THEN mvmeBefore ELSE mvme
        /\ tables' = <<>>
        /\ before' = ev' /\ mvmeBefore' = mvme'
        /\ UNCHANGED <<scripts, line>>

Finish ==
    /\ phase = "between"
    /\ phase' = "done"
    /\ UNCHANGED <<ev, before, tables, line, scripts, mvme, mvmeBefore>>

Done == phase = "done" /\ UNCHANGED vars

Next ==
    \/ MalformedEntry
    \/ MalformedTable
    \/ DisabledEntry
    \/ \E t \in ScriptTables : BeginScript(t)
    \/ \E l \in Lines : EvaluateLine(l)
    \/ \E unterminated \in BOOLEAN : EndScript(unterminated)
    \/ Finish
    \/ Done

Spec == Init /\ [][Next]_vars

-----------------------------------------------------------------------------
\* Finalize
State ==
    CASE ev.parseFailureEncountered -> "Failed"
      [] ~ev.parseFailureEncountered /\ ev.frontendIssue -> "Failed"
      [] ~ev.parseFailureEncountered /\ ~ev.frontendIssue
            /\ ev.conditionalFrontendWrite -> "ConditionalAfterAccuTest"
      [] OTHER -> IF ev.issue THEN "CompleteWithUnresolvedNonFrontend"
                              ELSE "Complete"

\* Every value the evaluator still calls definite is the value MVME leaves in
\* the module: whatever the tests of live accumulators decide, whatever the
\* scripts MVME rejects would have done, and however variables are nested
\* (Evaluator::EvaluateScript, TaintConditionalFrontendValue).
DefiniteValuesAreMvmes ==
    phase # "script" /\ ~mvme.unseen =>
        \A c \in Cells : ev.finals[c] # None => ev.finals[c] = mvme.regs[c]

\* A usable evaluation is complete: a frontend register without a final value
\* has not been written by MVME, in any of its runs (Evaluator::Finalize,
\* read by ExtractFw2051WorkspaceStartingState).
UsableIsComplete ==
    phase = "done" /\ State \in {"Complete", "CompleteWithUnresolvedNonFrontend"} =>
        \A c \in Cells : ev.finals[c] = None => mvme.regs[c] = Untouched

=============================================================================

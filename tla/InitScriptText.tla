--------------------------- MODULE InitScriptText ---------------------------
(***************************************************************************)
(* The text algorithms under the init-script evaluator                     *)
(* (core/MvmeInitScript.cpp): comment stripping, the split of a line into  *)
(* atomic parts, and the arithmetic of $(...) expressions, each against    *)
(* what it is for.  A character is a one-letter string; a number of an     *)
(* expression is one character, and spaces inside it are left out.         *)
(***************************************************************************)
EXTENDS Integers, Sequences

CONSTANTS Alphabet, \* the characters of this run
          MaxLength \* bound on the length of the text

VARIABLE text

NewLine == "n"
Blank   == " "

-----------------------------------------------------------------------------
(***************************************************************************)
(* StripComments.  Every character of a comment becomes a blank.           *)
(***************************************************************************)
At(s, i) == IF i \in DOMAIN s THEN s[i] ELSE "end"

StripComments(s) ==
    LET strip[i \in 1 .. Len(s) + 1, mode \in {"code", "line", "block"}] ==
            IF i > Len(s) THEN [text |-> <<>>, unterminatedBlock |-> mode = "block"]
            ELSE LET opens  == mode = "code" /\ s[i] = "/" /\ At(s, i + 1) = "*"
                     closes == mode = "block" /\ s[i] = "*" /\ At(s, i + 1) = "/"
                     next   == CASE opens -> "block"
                                 [] closes -> "code"
                                 [] mode = "code" /\ s[i] = "#" -> "line"
                                 [] mode = "line" /\ s[i] = NewLine -> "code"
                                 [] OTHER -> mode
                     put    == CASE opens \/ closes -> <<Blank, Blank>>
                                 [] s[i] = NewLine -> <<NewLine>>
                                 [] mode = "code" /\ s[i] # "#" -> <<s[i]>>
                                 [] OTHER -> <<Blank>>
                     rest   == strip[i + Len(put), next]
                 IN  [rest EXCEPT !.text = put \o @]
    IN  strip[1, "code"]

-----------------------------------------------------------------------------
(***************************************************************************)
(* SplitAtomicParts: quoted text, ${...} and $(...) stay in one part.      *)
(***************************************************************************)
Flush(parts, part) == IF part = <<>> THEN parts ELSE Append(parts, part)
SplitFailure == [success |-> FALSE, parts |-> <<>>]

\* The first index past the bracket that opens at i - 1; parentheses nest.
PastClosing(s, i, opening, closing) ==
    LET past[k \in 1 .. Len(s) + 1, depth \in 0 .. Len(s)] ==
            IF depth = 0 THEN k
            ELSE IF k > Len(s) THEN 0
            ELSE past[k + 1,
                      IF opening = "(" /\ s[k] = opening THEN depth + 1
                      ELSE IF s[k] = closing THEN depth - 1 ELSE depth]
    IN  past[i, 1]

SplitAtomicParts(s) ==
    LET split[i \in 1 .. Len(s) + 1, quoted \in BOOLEAN,
              parts \in Seq(Seq(STRING)), part \in Seq(STRING)] ==
            IF i > Len(s)
            THEN IF quoted THEN SplitFailure
                 ELSE [success |-> TRUE, parts |-> Flush(parts, part)]
            ELSE IF quoted
            THEN IF s[i] = "\\" /\ i < Len(s)
                 THEN split[i + 2, TRUE, parts, Append(part, s[i + 1])]
                 ELSE IF s[i] = "\"" THEN split[i + 1, FALSE, parts, part]
                 ELSE split[i + 1, TRUE, parts, Append(part, s[i])]
            ELSE IF s[i] = Blank THEN split[i + 1, FALSE, Flush(parts, part), <<>>]
            ELSE IF s[i] = "\"" THEN split[i + 1, TRUE, parts, part]
            ELSE IF s[i] = "$" /\ At(s, i + 1) \in {"{", "("}
            THEN LET past == PastClosing(s, i + 2, s[i + 1],
                                 IF s[i + 1] = "{" THEN "}" ELSE ")")
                 IN  IF past = 0 THEN SplitFailure
                     ELSE split[past, FALSE, parts, part \o SubSeq(s, i, past - 1)]
            ELSE split[i + 1, FALSE, parts, Append(part, s[i])]
    IN  split[1, FALSE, <<>>, <<>>]

-----------------------------------------------------------------------------
(***************************************************************************)
(* ArithmeticParser.  A value is a fraction <<numerator, denominator>>.    *)
(***************************************************************************)
Digits == {"0", "2"}
Value(c) == <<IF c = "0" THEN 0 ELSE 2, 1>>

Combine(op, a, b) ==
    CASE op = "+" -> <<a[1] * b[2] + b[1] * a[2], a[2] * b[2]>>
      [] op = "-" -> <<a[1] * b[2] - b[1] * a[2], a[2] * b[2]>>
      [] op = "*" -> <<a[1] * b[1], a[2] * b[2]>>
      [] op = "/" -> <<a[1] * b[2], a[2] * b[1]>>

Rejected == [ok |-> FALSE, value |-> <<0, 1>>, position |-> 0]
Parsed(v, i) == [ok |-> TRUE, value |-> v, position |-> i]

Results == [ok : BOOLEAN, value : Int \X Int, position : Nat]

\* The parser from a position on: a factor, or the loop of ParseTerm or of
\* ParseExpression after the operands that make up left; an operand of a term
\* is a factor, one of an expression is a term.
ArithmeticParser(s) ==
    LET read[level \in {"factor", "term", "expression"}, left \in Results] ==
            LET c          == At(s, left.position)
                factor     == read["factor", [left EXCEPT !.position = @ + 1]]
                term       == read["term", factor]
                expression == read["expression", term]
                right      == IF level = "expression" THEN term ELSE factor
                operators  == IF level = "expression" THEN {"+", "-"} ELSE {"*", "/"}
            IN  CASE level = "factor" ->
                       (CASE c = "+" -> factor
                          [] c = "-" -> [factor EXCEPT !.value = <<-@[1], @[2]>>]
                          [] c = "(" -> IF expression.ok /\ At(s, expression.position) = ")"
                                        THEN [expression EXCEPT !.position = @ + 1]
                                        ELSE Rejected
                          [] c \in Digits -> Parsed(Value(c), left.position + 1)
                          [] OTHER -> Rejected)
                  [] level # "factor" /\ (~left.ok \/ c \notin operators) -> left
                  [] OTHER ->
                       IF ~right.ok \/ (c = "/" /\ right.value[1] = 0) THEN Rejected
                       ELSE read[level, Parsed(Combine(c, left.value, right.value),
                                               right.position)]
    IN  read["expression", read["term", read["factor", Parsed(<<0, 1>>, 1)]]]

Parse(s) ==
    LET e == ArithmeticParser(s)
    IN  IF e.position = Len(s) + 1 THEN e ELSE Rejected

-----------------------------------------------------------------------------
Init == text = <<>>
Type(c) == Len(text) < MaxLength /\ text' = Append(text, c)
Full == Len(text) = MaxLength /\ UNCHANGED text
Next == (\E c \in Alphabet : Type(c)) \/ Full
Spec == Init /\ [][Next]_text

-----------------------------------------------------------------------------
\* Comments leave no trace and move nothing: what StripComments returns is as
\* long as the script, has its lines at the same places (the line numbers of
\* the unresolved statements depend on that), and holds no comment any more.
CommentsLeaveBlanks ==
    LET stripped == StripComments(text)
    IN  /\ Len(stripped.text) = Len(text)
        /\ \A i \in DOMAIN text :
               (stripped.text[i] = NewLine) <=> (text[i] = NewLine)
        /\ \A i \in DOMAIN text : stripped.text[i] \in {text[i], Blank}
        /\ LET again == StripComments(stripped.text)
           IN  again.text = stripped.text /\ ~again.unterminatedBlock

\* How many parentheses are open after the first i characters.
Depth(s, i) ==
    LET count[j \in 0 .. i] ==
            IF j = 0 THEN 0
            ELSE count[j - 1] + (CASE s[j] = "(" -> 1 [] s[j] = ")" -> -1
                                   [] OTHER -> 0)
    IN  count[i]

\* A word in quotes, with a backslash before each character.
Quoted(s) ==
    <<"\"">> \o [i \in 1 .. 2 * Len(s) |->
                     IF i % 2 = 1 THEN "\\" ELSE s[i \div 2]] \o <<"\"">>

\* SplitAtomicParts gives quoted words back whatever they contain, but for
\* empty ones, and never cuts an expression at a blank, a quote or a
\* parenthesis inside it.
PartsAreAtomic ==
  /\ \A k \in 0 .. Len(text) :
        LET first  == SubSeq(text, 1, k)
            second == SubSeq(text, k + 1, Len(text))
        IN  SplitAtomicParts(Quoted(first) \o <<Blank>> \o Quoted(second))
                = [success |-> TRUE,
                   parts |-> Flush(Flush(<<>>, first), second)]
  /\ LET expression == <<"$", "(">> \o text \o <<")">>
     IN  (/\ \A i \in DOMAIN text : Depth(text, i) >= 0
          /\ Depth(text, Len(text)) = 0)
         => SplitAtomicParts(expression)
                = [success |-> TRUE, parts |-> <<expression>>]

\* What a text of numbers, operators and parentheses means: it is split at
\* its last operator outside parentheses, a sum before a product.
Binary(s, operators) ==
    {i \in 2 .. Len(s) - 1 : /\ s[i] \in operators
                             /\ s[i - 1] \in Digits \cup {")"}
                             /\ Depth(s, i) = 0}
Last(set) == CHOOSE i \in set : \A j \in set : j <= i
NoMeaning == [ok |-> FALSE, value |-> <<0, 1>>]
MeaningOf(s) ==
    LET meaning[a \in 1 .. Len(s) + 1, b \in 0 .. Len(s)] ==
            LET t     == SubSeq(s, a, b)
                sums  == Binary(t, {"+", "-"})
                all   == IF sums = {} THEN Binary(t, {"*", "/"}) ELSE sums
                k     == Last(all)
                left  == meaning[a, a + k - 2]
                right == meaning[a + k, b]
                inner == meaning[a + 1, b]
            IN  IF t = <<>> THEN NoMeaning
                ELSE IF all # {}
                THEN IF ~left.ok \/ ~right.ok \/ (t[k] = "/" /\ right.value[1] = 0)
                     THEN NoMeaning
                     ELSE [ok |-> TRUE, value |-> Combine(t[k], left.value, right.value)]
                ELSE IF t[1] \in {"+", "-"}
                THEN [inner EXCEPT !.value = Combine(t[1], <<0, 1>>, @)]
                ELSE IF t[1] = "(" /\ t[Len(t)] = ")" /\ Len(t) > 2
                        /\ \A i \in 1 .. Len(t) - 1 : Depth(t, i) > 0
                THEN meaning[a + 1, b - 1]
                ELSE IF Len(t) = 1 /\ t[1] \in Digits
                THEN [ok |-> TRUE, value |-> Value(t[1])]
                ELSE NoMeaning
    IN  meaning[1, Len(s)]

\* ArithmeticParser accepts exactly the texts that mean something and
\* computes what they mean: products before sums, equal operators from the
\* left, signs that bind to one factor, no division by zero.
ParserComputesMeaning ==
    LET p == Parse(text)  m == MeaningOf(text)
    IN  /\ p.ok <=> m.ok
        /\ p.ok => p.value[1] * m.value[2] = m.value[1] * p.value[2]

=============================================================================

----------------------------- MODULE EufParser ------------------------------
(***************************************************************************)
(* How assignment-3 reads a formula: the parser that bison makes of the     *)
(* grammar in fe_parser.yy with the actions of Driver (fe_driver.hpp), on   *)
(* the tokens of fe_lexer.l; and how Node::ToFormula (ast.hpp) writes it.   *)
(*                                                                          *)
(* The parser is a stack of symbols and a lookahead token.  Where it can    *)
(* only do one thing it does so without a lookahead; where it cannot shift  *)
(* the lookahead it makes the default reduction if there is one.  A node of *)
(* the tree is numbered when it has its children.                           *)
(*                                                                          *)
(* An operator whose comment starts with "Fault:" is what a plausible bug   *)
(* would make of the definition after it; nothing uses it.                  *)
(***************************************************************************)
EXTENDS EufAst

CONSTANT Texts   \* the sequences of tokens that a file may hold

VARIABLES
  input,    \* the text, constant
  at,       \* the token that yylex returns next
  ahead,    \* the kind of the lookahead, "none" if there is none
  text,     \* Scanner::text, the spelling of the last name
  symbols,  \* the parser's stack
  ast,      \* the nodes created so far
  outcome   \* "parsing", "accepted", "abort", or "exit"

parser == <<input, at, ahead, text, symbols, ast, outcome>>

-----------------------------------------------------------------------------
(* The stack.                                                              *)

Token(kind) == [kind |-> kind, text |-> ""]
Spelling(name) == [kind |-> "VAR", text |-> name]

\* A term or a formula has its node, "args" its nodes, "funcname" its name.
Symbol(kind, name, nodes) == [kind |-> kind, name |-> name, nodes |-> nodes]

\* The k-th symbol from the top of the stack.
Entry(k) == symbols[Len(symbols) + 1 - k]
Top(k) == IF k <= Len(symbols) THEN Entry(k).kind ELSE "bottom"

Push(n, symbol) == symbols' = Append(SubSeq(symbols, 1, Len(symbols) - n), symbol)

\* What follows the k-th symbol is the argument of a function ...
Argument(k) == Top(k) = "COMMA" \/ (Top(k) = "OPEN_PAR" /\ Top(k + 1) = "funcname")

\* ... or another term, and not a formula.
TermExpected(k) == Argument(k) \/ Top(k) \in {"EQUAL", "NOT_EQUAL"}

\* There is only one thing to do, whatever comes next.
Consistent ==
  CASE Top(1) = "formula"  -> Top(2) = "AND"
    [] Top(1) = "term"     -> TermExpected(2)
    [] Top(1) = "CLOSE_PAR" -> Top(2) = "formula" \/ TermExpected(5)
    [] OTHER               -> FALSE

Decided == outcome = "parsing" /\ (Consistent \/ ahead # "none")

\* fe_parser.yy declares NOT with a Node* as its value, which yylex does not
\* build (it does for a name): what parse.assert adds fails when the value is
\* moved onto the stack or destroyed.
LacksValue == ahead = "NOT"

\* The lookahead goes on with what is on the stack.
Shifts ==
  CASE Top(1) = "formula"  -> \/ ahead = "AND"
                              \/ ahead = "CLOSE_PAR" /\ Top(2) = "OPEN_PAR"
    [] Top(1) = "term"     -> ahead \in {"EQUAL", "NOT_EQUAL"}
    [] Top(1) = "args"     -> ahead \in {"COMMA", "CLOSE_PAR"}
    [] Top(1) = "funcname" -> ahead = "OPEN_PAR"
    [] Top(1) \in {"VAR", "CLOSE_PAR"} -> FALSE
    [] OTHER -> ahead = "VAR" \/ (ahead \in {"NOT", "OPEN_PAR"} /\ ~ TermExpected(1))

\* A rule is the default wherever one can be reduced.
HasDefault ==
  Top(1) \in {"VAR", "CLOSE_PAR"} \/ (Top(1) = "formula" /\ Top(2) = "bottom")

-----------------------------------------------------------------------------
(* The parser.                                                             *)

Init ==
  /\ input \in Texts
  /\ at = 1
  /\ ahead = "none"
  /\ text = ""
  /\ symbols = << >>
  /\ ast = [type_ |-> << >>, name |-> << >>, children_ |-> << >>]
  /\ outcome = "parsing"

\* yylex leaves text alone unless it returns a name.
Read ==
  /\ outcome = "parsing"
  /\ ~ Decided
  /\ \/ /\ at > Len(input)
        /\ ahead' = "end"
        /\ UNCHANGED <<at, text, outcome>>
     \/ /\ at <= Len(input)
        /\ input[at].kind \in {"not_allowed", "invalid"}
        /\ outcome' = IF input[at].kind = "invalid" THEN "exit" ELSE "abort"
        /\ UNCHANGED <<at, ahead, text>>
     \/ /\ at <= Len(input)
        /\ input[at].kind \notin {"not_allowed", "invalid"}
        /\ ahead' = input[at].kind
        /\ text' = IF ahead' = "VAR" THEN input[at].text ELSE text
        /\ at' = at + 1
        /\ UNCHANGED outcome
  /\ UNCHANGED <<input, symbols, ast>>

Shift ==
  /\ Decided
  /\ ~ Consistent
  /\ Shifts
  /\ \/ /\ LacksValue
        /\ outcome' = "abort"
        /\ UNCHANGED <<symbols, ahead>>
     \/ /\ ~ LacksValue
        /\ Push(0, Symbol(ahead, "", << >>))
        /\ ahead' = "none"
        /\ UNCHANGED outcome
  /\ UNCHANGED <<input, at, text, ast>>

\* A rule replaces the topmost n symbols by one; a new node is its value.
Reduce(n, symbol) == Push(n, symbol) /\ UNCHANGED <<input, at, ahead, text, ast, outcome>>

ReduceToNode(n, kind, type, name, children) ==
  /\ ast' = [type_ |-> Append(ast.type_, type), name |-> Append(ast.name, name),
             children_ |-> Append(ast.children_, children)]
  /\ Push(n, Symbol(kind, "", <<Len(ast.type_) + 1>>))
  /\ UNCHANGED <<input, at, ahead, text, outcome>>

\* The name is the text of the last name read, which may be the lookahead.
ReduceVar ==
  /\ Decided
  /\ Top(1) = "VAR"
  /\ \/ ahead = "OPEN_PAR" /\ Reduce(1, Symbol("funcname", text, << >>))
     \/ ahead # "OPEN_PAR" /\ ReduceToNode(1, "term", "var", text, << >>)

\* Fault: an argument is put in front of those before it.
ReduceArgumentInFront ==
  /\ Decided
  /\ Top(1) = "term"
  /\ Argument(2)
  /\ \/ Top(2) = "OPEN_PAR" /\ Reduce(1, Symbol("args", "", Entry(1).nodes))
     \/ Top(2) = "COMMA" /\ Reduce(3, Symbol("args", "", Entry(1).nodes \o Entry(3).nodes))

ReduceArgument ==
  /\ Decided
  /\ Top(1) = "term"
  /\ Argument(2)
  /\ \/ Top(2) = "OPEN_PAR" /\ Reduce(1, Symbol("args", "", Entry(1).nodes))
     \/ Top(2) = "COMMA" /\ Reduce(3, Symbol("args", "", Entry(3).nodes \o Entry(1).nodes))

\* A call is a predicate unless a term is expected or an equality follows.
ReduceCall ==
  /\ Decided
  /\ Top(1) = "CLOSE_PAR"
  /\ Top(2) = "args"
  /\ ReduceToNode(4, IF TermExpected(5) \/ ahead \in {"EQUAL", "NOT_EQUAL"} THEN "term" ELSE "formula",
                  "func", Entry(4).name, Entry(2).nodes)

ReduceEquality ==
  /\ Decided
  /\ Top(1) = "term"
  /\ \/ Top(2) = "EQUAL" /\ ReduceToNode(3, "formula", "equal", "", Entry(3).nodes \o Entry(1).nodes)
     \/ Top(2) = "NOT_EQUAL" /\ ReduceToNode(3, "formula", "not_equal", "", Entry(3).nodes \o Entry(1).nodes)

ReduceParentheses ==
  /\ Decided
  /\ Top(1) = "CLOSE_PAR"
  /\ Top(2) = "formula"
  /\ Reduce(3, Entry(2))

\* The rule of negation is never used: NOT does not get onto the stack.
ReduceOperator ==
  /\ Decided
  /\ Top(1) = "formula"
  /\ Top(2) = "AND"
  /\ ReduceToNode(3, "formula", "and", "", Entry(3).nodes \o Entry(1).nodes)

\* The action of exp returns from parse; it is the default reduction, so the
\* lookahead need not be the end.  It is destroyed on the way out.
Accept ==
  /\ Decided
  /\ Top(1) = "formula"
  /\ Top(2) = "bottom"
  /\ ~ Shifts
  /\ outcome' = IF LacksValue THEN "abort" ELSE "accepted"
  /\ UNCHANGED <<input, at, ahead, text, symbols, ast>>

\* error() aborts.
SyntaxError ==
  /\ Decided
  /\ ~ Consistent
  /\ ~ HasDefault
  /\ ~ Shifts
  /\ outcome' = "abort"
  /\ UNCHANGED <<input, at, ahead, text, symbols, ast>>

Next ==
  \/ Read \/ Shift \/ ReduceVar \/ ReduceArgument \/ ReduceCall \/ ReduceEquality
  \/ ReduceParentheses \/ ReduceOperator \/ Accept \/ SyntaxError

Spec == Init /\ [][Next]_parser

-----------------------------------------------------------------------------
(* Text.                                                                   *)

opToStr ==
  [and |-> Token("AND"), equal |-> Token("EQUAL"), not_equal |-> Token("NOT_EQUAL")]

\* Fault: the comma before the last argument is missing.
ListWithoutLastComma(texts) ==
  LET L[k \in 0..Len(texts)] ==
        IF k = 0 THEN << >>
        ELSE L[k - 1] \o (IF k = 1 \/ k = Len(texts) THEN << >> ELSE <<Token("COMMA")>>) \o texts[k]
  IN  L[Len(texts)]

\* The arguments with commas between them.
List(texts) ==
  LET L[k \in 0..Len(texts)] ==
        IF k = 0 THEN << >>
        ELSE L[k - 1] \o (IF k = 1 THEN << >> ELSE <<Token("COMMA")>>) \o texts[k]
  IN  L[Len(texts)]

\* No parentheses are written around formulas, of which none is a negation.
ToFormula(a) ==
  LET F[n \in DOMAIN a.type_] ==
        LET children == [k \in DOMAIN a.children_[n] |-> F[a.children_[n][k]]]
        IN  CASE a.type_[n] = "var" -> <<Spelling(a.name[n])>>
              [] a.type_[n] = "func" ->
                   <<Spelling(a.name[n]), Token("OPEN_PAR")>> \o List(children) \o <<Token("CLOSE_PAR")>>
              [] OTHER -> children[1] \o <<opToStr[a.type_[n]]>> \o children[2]
  IN  F[Len(a.type_)]

-----------------------------------------------------------------------------
(* Properties.                                                             *)

Nested(type, name, children) == [type_ |-> type, name |-> name, children_ |-> children]

\* The table of nodes as a nested tree.
TreeOf(a) ==
  LET T[n \in DOMAIN a.type_] ==
        Nested(a.type_[n], a.name[n], [k \in DOMAIN a.children_[n] |-> T[a.children_[n][k]]])
  IN  T[Len(a.type_)]

\* The trees of the whole text w as a formula, in the grammar that fe_parser.yy
\* abbreviates by its precedences.
Derived(w) ==
  LET Is(k, kind) == w[k].kind = kind
      Between(i, j, kind) == {k \in i + 1..j - 1 : Is(k, kind)}
      Equality(type, L, R) == {Nested(type, "", <<l, r>>) : l \in L, r \in R}
      D[what \in {"formula", "conjunct", "term", "call", "args"}, i \in 1..Len(w), j \in 0..Len(w)] ==
        IF i > j THEN {} ELSE
        CASE what = "formula" ->
               D["conjunct", i, j] \cup
               UNION {Equality("and", D["formula", i, k - 1], D["conjunct", k + 1, j]) :
                        k \in Between(i, j, "AND")}
          [] what = "conjunct" ->
               D["call", i, j]
               \cup (IF Is(i, "NOT") /\ i < j
                       THEN {Nested("not", "", <<t>>) : t \in D["conjunct", i + 1, j]} ELSE {})
               \cup (IF Is(i, "OPEN_PAR") /\ Is(j, "CLOSE_PAR") THEN D["formula", i + 1, j - 1] ELSE {})
               \cup UNION {Equality("equal", D["term", i, k - 1], D["term", k + 1, j]) :
                             k \in Between(i, j, "EQUAL")}
               \cup UNION {Equality("not_equal", D["term", i, k - 1], D["term", k + 1, j]) :
                             k \in Between(i, j, "NOT_EQUAL")}
          [] what = "term" ->
               D["call", i, j] \cup
               IF i = j /\ Is(i, "VAR") THEN {Nested("var", w[i].text, << >>)} ELSE {}
          [] what = "call" ->
               IF i + 3 <= j /\ Is(i, "VAR") /\ Is(i + 1, "OPEN_PAR") /\ Is(j, "CLOSE_PAR")
                 THEN {Nested("func", w[i].text, args) : args \in D["args", i + 2, j - 1]} ELSE {}
          [] what = "args" ->
               {<<t>> : t \in D["term", i, j]} \cup
               UNION {{Append(ts, t) : ts \in D["args", i, k - 1], t \in D["term", k + 1, j]} :
                        k \in Between(i, j, "COMMA")}
  IN  IF w = << >> THEN {} ELSE D["formula", 1, Len(w)]

\* Tokens of the text up to the k-th are negations.
NegatedUpTo(k) == \E m \in 1..k : input[m].kind = "NOT"

\* A formula without "!" is accepted and handed over as the one tree that it
\* has, though a name is only taken from the scanner after another token has
\* been read; and whatever is accepted, be it a formula or not, is a tree that
\* DagBuilder expects, made before any "!" was read.
ReadsWhatIsWritten ==
  /\ outcome = "accepted" => IsAst(ast) /\ ~ NegatedUpTo(at - 1)
  /\ outcome # "parsing" /\ Derived(input) # {} /\ ~ NegatedUpTo(Len(input)) =>
       outcome = "accepted" /\ Derived(input) = {TreeOf(ast)}

\* The conjuncts of a formula, from left to right.
Conjuncts(a) ==
  LET C[n \in DOMAIN a.type_] ==
        IF a.type_[n] = "and" THEN C[a.children_[n][1]] \o C[a.children_[n][2]] ELSE <<n>>
  IN  C[Len(a.type_)]

\* The formula that main prints is the one that was read, its conjunctions
\* grouped to the left.
PrintsFormula ==
  outcome = "accepted" =>
    LET Below(n) == [ast EXCEPT !.type_ = SubSeq(@, 1, n)]
        Group[k \in DOMAIN Conjuncts(ast)] ==
          LET conjunct == TreeOf(Below(Conjuncts(ast)[k]))
          IN  IF k = 1 THEN conjunct ELSE Nested("and", "", <<Group[k - 1], conjunct>>)
    IN  Derived(ToFormula(ast)) = {Group[Len(Conjuncts(ast))]}

\* fe_driver.cpp and fe_parser.yy abort when the parse fails ("Parse failed!!"):
\* a text that is not a formula is not accepted.
RejectsTheRest == outcome = "accepted" => Derived(input) # {}

\* fe_parser.yy and Lab-3.pdf have the rule "NOT formula": every formula of the
\* grammar, with negations or without, is accepted.
AcceptsGrammar == outcome # "parsing" /\ Derived(input) # {} => outcome = "accepted"
=============================================================================

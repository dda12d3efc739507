----------------------------- MODULE PropParser -----------------------------
(***************************************************************************)
(* How assignment-1 reads a formula: the parser that bison makes of the     *)
(* grammar in parser.y, on the tokens of lex.l.                             *)
(*                                                                          *)
(* The parser is a stack of symbols and a lookahead token.  Where it can    *)
(* only do one thing it does so without a lookahead; where it cannot shift  *)
(* the lookahead it makes the default reduction if there is one.  The       *)
(* precedences declared in parser.y decide between shift and reduction.     *)
(*                                                                          *)
(* An operator whose comment starts with "Fault:" is what a plausible bug   *)
(* would make of the definition after it; nothing uses it.                  *)
(***************************************************************************)
EXTENDS PropAst

CONSTANT Texts   \* the sequences of tokens that stdin may hold

VARIABLES
  input,    \* the text, constant
  next,     \* the token that yylex returns next
  ahead,    \* the kind of the lookahead, "none" if there is none
  yytext,   \* the spelling of the last token that yylex returned
  symbols,  \* the parser's stack
  root,     \* the tree that main gets, Null before
  outcome   \* "parsing", "accepted", or "exit"

parser == <<input, next, ahead, yytext, symbols, root, outcome>>

-----------------------------------------------------------------------------
(* The grammar.                                                            *)

\* What a token says where a formula is expected, and after one.
Starts == {"OPEN_PAR", "NOT", "VAR", "TRUE", "FALSE"}
Binary == {"BI_IMP", "IMP", "OR", "AND"}

\* The lowest first.
Precedence == [BI_IMP |-> 1, IMP |-> 2, OR |-> 3, AND |-> 4]
RightAssociative == {"BI_IMP", "IMP"}

NodeType ==
  [BI_IMP |-> "bi_implication", IMP |-> "implication", OR |-> "or", AND |-> "and"]

\* Fault: every operator associates to the left.
ShiftsAfterLeft(op, token) == token \in Binary /\ Precedence[token] > Precedence[op]

\* After "formula op formula", the token is read before the reduction.
ShiftsAfter(op, token) ==
  /\ token \in Binary
  /\ \/ Precedence[token] > Precedence[op]
     \/ token = op /\ op \in RightAssociative

-----------------------------------------------------------------------------
(* The parser.                                                             *)

\* Nonterminals carry their tree.
Symbol(kind, tree) == [kind |-> kind, tree |-> tree]

\* The kind of the k-th symbol from the top of the stack.
Top(k) == IF k <= Len(symbols) THEN symbols[Len(symbols) + 1 - k].kind ELSE "bottom"

FormulaOnTop == Top(1) = "formula"

Init ==
  /\ input \in Texts
  /\ next = 1
  /\ ahead = "none"
  /\ yytext = NoName
  /\ symbols = << >>
  /\ root = Null
  /\ outcome = "parsing"

\* There is only one thing to do, whatever comes next.
Consistent ==
  \/ Top(1) \in {"VAR", "TRUE", "FALSE", "CLOSE_PAR"}
  \/ FormulaOnTop /\ Top(2) \in {"NOT", "AND"}

Decided == outcome = "parsing" /\ (Consistent \/ ahead # "none")

\* A lookahead is needed: yylex, which exits on a character it does not know.
Read ==
  /\ outcome = "parsing"
  /\ ~ Decided
  /\ IF next > Len(input)
       THEN ahead' = "end" /\ UNCHANGED <<next, yytext, outcome>>
       ELSE IF input[next].kind = "unrecognised"
         THEN outcome' = "exit" /\ UNCHANGED <<next, ahead, yytext>>
         ELSE /\ ahead' = input[next].kind
              /\ yytext' = input[next].text
              /\ next' = next + 1
              /\ UNCHANGED outcome
  /\ UNCHANGED <<input, symbols, root>>

\* The lookahead goes on with what is on the stack.
Shifts ==
  IF FormulaOnTop
    THEN \/ Top(2) = "OPEN_PAR" /\ ahead \in Binary \cup {"CLOSE_PAR"}
         \/ Top(2) = "bottom" /\ ahead \in Binary
         \/ Top(2) \in Binary /\ ShiftsAfter(Top(2), ahead)
    ELSE ahead \in Starts

Shift ==
  /\ Decided
  /\ ~ Consistent
  /\ Shifts
  /\ symbols' = Append(symbols, Symbol(ahead, Null))
  /\ ahead' = "none"
  /\ UNCHANGED <<input, next, yytext, root, outcome>>

\* A rule replaces the topmost n symbols by a formula.
Reduce(n, tree) ==
  /\ symbols' = Append(SubSeq(symbols, 1, Len(symbols) - n), Symbol("formula", tree))
  /\ UNCHANGED <<input, next, ahead, yytext, root, outcome>>

TreeAt(k) == symbols[Len(symbols) + 1 - k].tree

ReduceName ==
  /\ Decided
  /\ \/ Top(1) = "VAR" /\ Reduce(1, VarNode(yytext))
     \/ Top(1) = "TRUE" /\ Reduce(1, VarNode(<<"T", 0>>))
     \/ Top(1) = "FALSE" /\ Reduce(1, VarNode(<<"F", 0>>))

ReduceParentheses ==
  /\ Decided
  /\ Top(1) = "CLOSE_PAR"
  /\ Reduce(3, TreeAt(2))

ReduceNot ==
  /\ Decided
  /\ FormulaOnTop
  /\ Top(2) = "NOT"
  /\ Reduce(2, Tree("not", TreeAt(1), Null))

ReduceBinary ==
  /\ Decided
  /\ FormulaOnTop
  /\ Top(2) \in Binary
  /\ ~ ShiftsAfter(Top(2), ahead)
  /\ Reduce(3, Tree(NodeType[Top(2)], TreeAt(3), TreeAt(1)))

\* The action of exp returns from yyparse; it is the default reduction, so the
\* lookahead need not be the end.
Accept ==
  /\ Decided
  /\ FormulaOnTop
  /\ Top(2) = "bottom"
  /\ ~ Shifts
  /\ root' = TreeAt(1)
  /\ outcome' = "accepted"
  /\ UNCHANGED <<input, next, ahead, yytext, symbols>>

\* yyerror exits.
SyntaxError ==
  /\ Decided
  /\ ~ Consistent
  /\ FormulaOnTop => Top(2) = "OPEN_PAR"
  /\ ~ Shifts
  /\ outcome' = "exit"
  /\ UNCHANGED <<input, next, ahead, yytext, symbols, root>>

Next ==
  \/ Read \/ Shift \/ ReduceName \/ ReduceParentheses \/ ReduceNot \/ ReduceBinary
  \/ Accept \/ SyntaxError

Spec == Init /\ [][Next]_parser

-----------------------------------------------------------------------------
(* Properties.                                                             *)

\* The trees of text[i..j] in the grammar without precedences that parser.y
\* abbreviates: a level per binary operator, one for negations (5) and one for
\* names and parentheses (6).
Derived(text) ==
  LET N == 1..Len(text)
      Of(node, L, R) == {Tree(NodeType[node], l, r) : l \in L, r \in R}
      D[level \in 1..6, i \in N, j \in 0..Len(text)] ==
        IF i > j THEN {}
        ELSE IF level = 6
          THEN IF i = j
                 THEN {VarNode(text[k].text) : k \in {m \in {i} : text[m].text # NoName}}
                 ELSE IF text[i].kind = "OPEN_PAR" /\ text[j].kind = "CLOSE_PAR"
                        THEN D[1, i + 1, j - 1] ELSE {}
        ELSE IF level = 5
          THEN D[6, i, j] \cup
               IF text[i].kind = "NOT" /\ i < j
                 THEN {Tree("not", t, Null) : t \in D[5, i + 1, j]} ELSE {}
        ELSE D[level + 1, i, j] \cup
             UNION {LET op == text[k].kind
                        right == IF op \in RightAssociative THEN 1 ELSE 0
                    IN  Of(op, D[level + right, i, k - 1], D[level + 1 - right, k + 1, j]) :
                    k \in {m \in i + 1..j - 1 :
                             text[m].kind \in Binary /\ Precedence[text[m].kind] = level}}
  IN  [j \in 0..Len(text) |-> IF j = 0 THEN {} ELSE D[1, 1, j]]

\* The parser accepts a text if it starts with a formula that no operator and
\* no unknown character follows, and main gets the tree of that formula, as
\* the declared precedences group it and with the names of the text; any other
\* text it rejects.
ParsesFormula ==
  outcome # "parsing" =>
    LET derived == Derived(input)
        complete == {j \in DOMAIN derived :
                       j < Len(input) => input[j + 1].kind \notin Binary \cup {"unrecognised"}}
        trees == UNION {derived[j] : j \in complete}
    IN  trees = IF outcome = "accepted" THEN {root} ELSE {}

\* A tree of literals, conjunctions and disjunctions.
IsNegationNormal(t) ==
  LET nodes == Nodes(t, Trees \ {Null})
  IN  \A k \in DOMAIN nodes :
        \/ nodes[k].type_ \in {"and", "or", "var"}
        \/ nodes[k].type_ = "not" /\ nodes[k].left_.type_ = "var"

Equivalent(s, t) ==
  /\ NamesIn(s) = NamesIn(t)
  /\ \A m \in [NamesIn(s) -> BOOLEAN] : Value(s, m) = Value(t, m)

\* What the program prints of a tree is that tree to a reader who knows the
\* grammar, also where precedences would group it in another way; the minimal
\* form, printed of clauses, means the same.
DumpsReadBack ==
  outcome = "accepted" =>
    LET Reading(text) == Derived(text)[Len(text)]
    IN  /\ Reading(dumpAST(root)) = {root}
        /\ IsNegationNormal(root) =>
             \E t \in Reading(dumpASTMinimal(root)) : Equivalent(t, root)
=============================================================================

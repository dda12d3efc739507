---------------------------- MODULE MCEufParser -----------------------------
(***************************************************************************)
(* Instances of EufParser for TLC: all texts of at most four tokens, and    *)
(* formulas, most of them of assignment-3/src/test, with every text that    *)
(* lacks one of their tokens or has one more.                               *)
(***************************************************************************)
EXTENDS EufParser, SequencesExt

a == Spelling("a")
b == Spelling("b")
f == Spelling("f")
g == Spelling("g")
lpar == Token("OPEN_PAR")
rpar == Token("CLOSE_PAR")
comma == Token("COMMA")
eq == Token("EQUAL")
neq == Token("NOT_EQUAL")
and == Token("AND")
no == Token("NOT")

Tokens ==
  {a, b, lpar, rpar, comma, eq, neq, and, no, Token("not_allowed"), Token("invalid")}

\* 2.txt, 5.txt in part, class_slide_1 and class_slide_3; predicates and
\* parentheses, with and without negations.
Formulas ==
  {<<f, lpar, a, comma, b, rpar, eq, a, and, f, lpar, f, lpar, a, comma, b, rpar, comma, b, rpar, neq, a>>,
   <<f, lpar, f, lpar, a, rpar, rpar, eq, a, and, f, lpar, a, rpar, neq, a>>,
   <<f, lpar, f, lpar, a, comma, b, rpar, comma, b, rpar, eq, a>>,
   <<lpar, f, lpar, a, rpar, eq, f, lpar, b, rpar, rpar, and, a, neq, b>>,
   <<g, lpar, a, rpar, and, g, lpar, b, rpar, and, f, lpar, a, rpar, eq, b>>,
   <<a, eq, b, and, lpar, lpar, a, neq, b, rpar, and, b, eq, b, rpar, and, a, eq, a>>,
   <<lpar, lpar, a, eq, b, and, g, lpar, b, comma, f, lpar, a, rpar, comma, a, rpar, rpar, rpar>>,
   <<g, lpar, a, rpar, and, no, g, lpar, b, rpar, and, f, lpar, a, rpar, eq, b>>,
   <<a, eq, b, and, lpar, no, no, a, neq, b, and, b, eq, b, rpar, and, a, eq, a>>,
   <<no, lpar, a, eq, b, and, g, lpar, b, comma, f, lpar, a, rpar, comma, a, rpar, rpar>>}

Edited(w) ==
  {RemoveAt(w, k) : k \in DOMAIN w}
  \cup {InsertAt(w, k, token) : k \in 1..Len(w) + 1, token \in {a, lpar, rpar, comma, eq, and, no}}

MCTexts == BoundedSeq(Tokens, 4) \cup Formulas \cup UNION {Edited(w) : w \in Formulas}
=============================================================================

----------------------------- MODULE MCPipeline -----------------------------
(***************************************************************************)
(* Instances of Pipeline for TLC: the texts of assignment-1/src/test, and   *)
(* texts of two to four operators.                                          *)
(***************************************************************************)
EXTENDS Pipeline

p == Spelling(<<"p", 0>>)
q == Spelling(<<"q", 0>>)
r == Spelling(<<"r", 0>>)
s == Spelling(<<"s", 0>>)
lpar == Token("OPEN_PAR")
rpar == Token("CLOSE_PAR")
no == Token("NOT")
and == Token("AND")
or == Token("OR")
imp == Token("IMP")
iff == Token("BI_IMP")

Ops == {and, or, imp, iff}

\* infile_101 to 104 and 201 to 212.
TestTexts ==
  {<<p, and, no, p>>, <<p, iff, no, p>>,
   <<lpar, p, imp, q, rpar, and, p, and, no, q>>,
   <<lpar, p, and, q, rpar, and, lpar, no, p, and, lpar, q, or, no, r, rpar, rpar>>,
   <<p, or, q, imp, p, and, no, r>>,
   <<p, or, q, imp, no, lpar, p, and, no, r, rpar>>,
   <<no, p, and, lpar, p, or, q, rpar>>,
   <<p, and, lpar, q, or, r, rpar, and, s>>,
   <<lpar, p, imp, q, rpar, or, no, r>>,
   <<p, and, lpar, no, p, or, q, rpar, and, lpar, r, or, no, q, or, s, rpar,
     and, lpar, r, or, no, s, rpar>>,
   <<lpar, no, p, or, q, or, r, rpar, and, lpar, no, q, or, r, rpar,
     and, lpar, no, q, or, no, r, rpar, and, lpar, p, or, no, q, or, no, r, rpar>>,
   <<p>>,
   <<lpar, p, imp, q, rpar, and, lpar, q, imp, r, rpar, imp, lpar, p, imp, r, rpar>>,
   <<p, iff, no, no, p>>,
   <<p, imp, q, iff, no, p, or, q>>,
   <<p, and, q, imp, no, p, or, no, q>>}

MCTexts ==
  TestTexts
  \cup {<<p, o1, q, o2, p>> : o1, o2 \in Ops}
  \cup {<<no, lpar, p, o1, p, rpar, o2, no, q>> : o1, o2 \in Ops}
  \cup {<<p, and, or>>, <<p, rpar>>, << >>}
=============================================================================

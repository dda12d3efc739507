---------------------------- MODULE MCPropParser ----------------------------
(***************************************************************************)
(* Instances of PropParser for TLC: all short texts, every pair of binary   *)
(* operators with negations and parentheses around them, and texts of       *)
(* assignment-1/src/test.                                                   *)
(***************************************************************************)
EXTENDS PropParser, SequencesExt

p == Spelling(<<"p", 0>>)
q == Spelling(<<"q", 0>>)
r == Spelling(<<"r", 0>>)
T == Spelling(<<"T", 0>>)
F == Spelling(<<"F", 0>>)
lpar == Token("OPEN_PAR")
rpar == Token("CLOSE_PAR")
no == Token("NOT")
and == Token("AND")
or == Token("OR")
imp == Token("IMP")
iff == Token("BI_IMP")
other == Token("unrecognised")

Ops == {and, or, imp, iff}
Tokens == Ops \cup {p, q, lpar, rpar, no, other}

\* Three operands, of which two may be grouped, behind negations or not.
Chains ==
  {f \o x : f \in {<< >>, <<no>>},
            x \in {<<p, o1, q, o2, r>> : o1, o2 \in Ops}
                  \cup {<<lpar, p, o1, q, rpar, o2, r>> : o1, o2 \in Ops}
                  \cup {<<p, o1, no, lpar, q, o2, r, rpar>> : o1, o2 \in Ops}
                  \cup {<<lpar, p, o1, q, o2, r, rpar, other>> : o1, o2 \in Ops}}

LongChains == {<<p, o1, q, o2, r, o3, T, o4, F>> : o1, o2, o3, o4 \in Ops}

\* infile_103, 104, 202, 203, 209, 210 and 211
TestTexts ==
  {<<lpar, p, imp, q, rpar, and, p, and, no, q>>,
   <<lpar, p, and, q, rpar, and, lpar, no, p, and, lpar, q, or, no, r, rpar, rpar>>,
   <<p, or, q, imp, no, lpar, p, and, no, r, rpar>>,
   <<no, p, and, lpar, p, or, q, rpar>>,
   <<lpar, p, imp, q, rpar, and, lpar, q, imp, r, rpar, imp, lpar, p, imp, r, rpar>>,
   <<p, iff, no, no, p>>,
   <<p, imp, q, iff, no, p, or, q>>}

MCTexts == BoundedSeq(Tokens, 4) \cup Chains \cup LongChains \cup TestTexts
=============================================================================

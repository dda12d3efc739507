------------------------------ MODULE MCTseitin ------------------------------
(***************************************************************************)
(* Instances of Tseitin for TLC: all formulas of one operator and many of   *)
(* two and three, and formulas of assignment-1/src/test.                    *)
(***************************************************************************)
EXTENDS Tseitin

p == VarNode(<<"p", 0>>)
q == VarNode(<<"q", 0>>)
r == VarNode(<<"r", 0>>)
Not(s) == Tree("not", s, Null)
And(s, t) == Tree("and", s, t)
Or(s, t) == Tree("or", s, t)
Imp(s, t) == Tree("implication", s, t)
Iff(s, t) == Tree("bi_implication", s, t)

Binary(S, T) == UNION {{And(s, t), Or(s, t), Imp(s, t), Iff(s, t)} : s \in S, t \in T}

\* One operator, equal arguments included.
Small == {Not(p)} \cup Binary({p}, {p, q})

\* Every operator over every pair of these, under negations too.
MCFormulas ==
  {p} \cup Small \cup {Not(s) : s \in Small} \cup {Not(Not(Not(p)))}
  \cup Binary(Small, {p, q}) \cup Binary({p, r}, Small)
  \cup Binary(Small, {Not(p), Imp(q, r), Iff(r, p)})
  \cup { \* infile_103, 202, 203, 205 and 211
         And(And(Imp(p, q), p), Not(q)), Imp(Or(p, q), Not(And(p, Not(r)))),
         And(Not(p), Or(p, q)), Or(Imp(p, q), Not(r)), Iff(Imp(p, q), Or(Not(p), q)) }
=============================================================================

------------------------------- MODULE EufAst -------------------------------
(***************************************************************************)
(* The syntax trees of assignment-3 (ast.hpp), which the parser makes and   *)
(* DagBuilder traverses.                                                    *)
(*                                                                          *)
(* A tree is a table of nodes numbered in post-order, the order in which    *)
(* the parser completes them and GenerateSubFormulae visits them; the last  *)
(* one is the root.                                                         *)
(***************************************************************************)
EXTENDS Integers, Sequences

Operators == {"and", "equal", "not_equal"}

\* The first node below every node of the tree.
FirstNode(a) ==
  LET First[n \in 1..Len(a.type_)] ==
        IF a.children_[n] = << >> THEN n ELSE First[a.children_[n][1]]
  IN  First

\* What the grammar (fe_parser.yy) makes of a formula: type_, the name of a
\* variable or function, and children_ of every node.  The parser never gets
\* as far as to make a negation (see EufParser).
IsAst(a) ==
  LET N == 1..Len(a.type_)
      Terms == {n \in N : a.type_[n] \in {"var", "func"}}
      Formulas == {n \in N : a.type_[n] # "var"}
      Children(n) == {a.children_[n][k] : k \in DOMAIN a.children_[n]}
      First == FirstNode(a)
  IN  /\ a.type_ \in Seq(Operators \cup {"var", "func"})
      /\ DOMAIN a.name = N
      /\ a.children_ \in [N -> Seq(N)]
      /\ Len(a.type_) \in Formulas
      /\ \A n \in N : \A c \in Children(n) : c < n
      /\ First[Len(a.type_)] = 1
      /\ \A n \in N : \A k \in DOMAIN a.children_[n] :
           LET next == IF k = Len(a.children_[n]) THEN n ELSE First[a.children_[n][k + 1]]
           IN  a.children_[n][k] = next - 1
      /\ \A n \in N :
           CASE a.type_[n] = "var" -> Len(a.children_[n]) = 0
             [] a.type_[n] = "func" -> Len(a.children_[n]) > 0 /\ Children(n) \subseteq Terms
             [] a.type_[n] = "and" -> Len(a.children_[n]) = 2 /\ Children(n) \subseteq Formulas
             [] OTHER -> Len(a.children_[n]) = 2 /\ Children(n) \subseteq Terms
=============================================================================

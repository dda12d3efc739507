----------------------------- MODULE EufSolver ------------------------------
(***************************************************************************)
(* The program of assignment-3 after parsing (main.cpp): DagBuilder turns   *)
(* the syntax tree into a Dag, Dag decides it, main prints the verdict.     *)
(*                                                                          *)
(* An operator whose comment starts with "Fault:" is what a plausible bug   *)
(* would make of the definition after it; nothing uses it.                  *)
(***************************************************************************)
EXTENDS DagBuilder

VARIABLES dag, cc_, ccpar_, frames, next_eq, next_neq, res, verdict

CC == INSTANCE CongruenceClosure WITH Dags <- {}

solver == <<ast, phase, at, todo, sub_formulae_, ast_fun_dag_node_map_,
            sub_formulae_equality_, sub_formulae_inequality_,
            dag, cc_, ccpar_, frames, next_eq, next_neq, res, verdict>>

\* The value of dag before the Dag exists; no formula is without terms.
NoDag == [fn_ |-> << >>, args_ |-> << >>, ccpar_ |-> << >>,
          equality_ |-> << >>, inequality_ |-> << >>]

SolverInit ==
  /\ Init
  /\ dag = NoDag
  /\ cc_ = << >>
  /\ ccpar_ = << >>
  /\ frames = << >>
  /\ next_eq = 1
  /\ next_neq = 1
  /\ res = TRUE
  /\ verdict = "none"

Build ==
  /\ Next
  /\ UNCHANGED <<dag, cc_, ccpar_, frames, next_eq, next_neq, res, verdict>>

\* The constructor of Dag takes the nodes over; every node is its own class.
Construct ==
  /\ phase = "built"
  /\ dag = NoDag
  /\ dag' = Table
  /\ cc_' = [k \in DagNodes |-> k]
  /\ ccpar_' = Table.ccpar_
  /\ UNCHANGED <<ast, phase, at, todo, sub_formulae_, ast_fun_dag_node_map_,
                 sub_formulae_equality_, sub_formulae_inequality_,
                 frames, next_eq, next_neq, res, verdict>>

\* Decision, and main's output.
Decide ==
  /\ dag # NoDag
  /\ CC!Next
  /\ UNCHANGED builder

SolverNext == Build \/ Construct \/ Decide

SolverSpec == SolverInit /\ [][SolverNext]_solver

\* One thread that runs until main returns or abort() is called.
FairSolverSpec == SolverSpec /\ WF_solver(SolverNext)

-----------------------------------------------------------------------------
(* Properties.                                                             *)

\* What the congruence closure relies on holds of every table DagBuilder
\* makes: arguments before their parents, every term once, and the parents of
\* a term complete and sorted.
HandsOverDag == phase = "built" => CC!IsDag(Table)

\* The applications that stand for a formula and not for a term.
PredicateNodes ==
  {n \in AstNodes : ast.type_[n] = "func" /\
     (n = RootNode \/ \E p \in AstNodes : /\ ast.type_[p] = "and"
                                          /\ n \in CC!Elements(ast.children_[p]))}

\* The first occurrence of the term or predicate at n.
FirstOccurrence ==
  LET same == SameTerm
  IN  [n \in {k \in AstNodes : IsTerm(k)} |->
         CHOOSE m \in 1..n : same[<<m, n>>] /\ \A k \in 1..m - 1 : ~ same[<<k, n>>]]

\* The same function or predicate is applied to arguments of equal values.
EqualArguments(v, first, m, n) ==
  /\ ast.type_[m] = "func"
  /\ ast.type_[n] = "func"
  /\ ast.name[m] = ast.name[n]
  /\ Len(ast.children_[m]) = Len(ast.children_[n])
  /\ \A k \in DOMAIN ast.children_[m] :
       v[first[ast.children_[m][k]]] = v[first[ast.children_[n][k]]]

\* The truth of the formula's subformulas, where v gives every term a value
\* at its first occurrence and P is the set of predicates that hold.
Holds(v, P, first) ==
  LET H[n \in AstNodes] ==
        LET child == ast.children_[n]
        IN  CASE ast.type_[n] = "and" -> H[child[1]] /\ H[child[2]]
              [] ast.type_[n] = "equal" -> v[first[child[1]]] = v[first[child[2]]]
              [] ast.type_[n] = "not_equal" -> v[first[child[1]]] # v[first[child[2]]]
              [] OTHER -> first[n] \in P
  IN  H

\* Some interpretation in which equals have equal values makes the formula
\* true; it needs no more values than there are terms.
Satisfiable ==
  LET first      == FirstOccurrence
      predicates == {first[n] : n \in PredicateNodes}
      terms      == {first[n] : n \in DOMAIN first \ PredicateNodes}
  IN  \E v \in [terms -> 1..Cardinality(terms)], P \in SUBSET predicates :
        /\ \A m, n \in terms : EqualArguments(v, first, m, n) => v[m] = v[n]
        /\ \A m, n \in predicates : EqualArguments(v, first, m, n) => (m \in P <=> n \in P)
        /\ Holds(v, P, first)[RootNode]

\* What main prints of a formula is right: equalities, inequalities and
\* predicates, nested functions and repeated terms.
PrintsVerdict == verdict # "none" => (verdict = "SAT" <=> Satisfiable)

\* main prints a verdict for every formula, or aborts.
AlwaysAnswers == <>(verdict # "none" \/ phase = "abort")
=============================================================================

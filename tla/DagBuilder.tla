----------------------------- MODULE DagBuilder -----------------------------
(***************************************************************************)
(* Class DagBuilder of assignment-3 (dag_builder.hpp): from the syntax tree *)
(* of a formula to the node table and the constraints that Dag decides.     *)
(*                                                                          *)
(* A DagNode is its entry in sub_formulae_: its id_ is its position there,  *)
(* because only ToDagNode creates nodes and AddSubFormulae stores each at   *)
(* once.                                                                    *)
(*                                                                          *)
(* An operator whose comment starts with "Fault:" is what a plausible bug   *)
(* would make of the definition after it; nothing uses it.                  *)
(***************************************************************************)
EXTENDS EufAst, FiniteSets

CONSTANT Asts   \* the syntax trees the parser may hand over

ASSUME AstsAssumption == \A a \in Asts : IsAst(a)

VARIABLES
  ast,        \* the syntax tree, constant
  phase,      \* "generate", "equality", "inequality", "built", or "abort"
  at,         \* the next tree node of GenerateSubFormulae
  todo,       \* the tree nodes the recursion of Gather... has still to visit
  sub_formulae_,              \* the DagNodes in the order of their creation
  ast_fun_dag_node_map_,      \* the DagNode of every term visited, else 0
  sub_formulae_equality_,     \* pairs of DagNodes
  sub_formulae_inequality_

builder == <<ast, phase, at, todo, sub_formulae_, ast_fun_dag_node_map_,
             sub_formulae_equality_, sub_formulae_inequality_>>

AstNodes == 1..Len(ast.type_)
RootNode == Len(ast.type_)

IsTerm(n) == ast.type_[n] \in {"var", "func"}

DagNodes == 1..Len(sub_formulae_)

-----------------------------------------------------------------------------
(* Sharing of terms.                                                       *)

\* The DagNodes of the children of a tree node.
ArgsOf(n) ==
  [k \in DOMAIN ast.children_[n] |-> ast_fun_dag_node_map_[ast.children_[n][k]]]

\* The DagNode k has the kind and the name of the tree node n.
SameSymbol(k, n) ==
  sub_formulae_[k].type_ = ast.type_[n] /\ sub_formulae_[k].fn_ = ast.name[n]

\* Fault: only the first arguments are compared.
MatchesFirstArgument(k, n) ==
  /\ SameSymbol(k, n)
  /\ ArgsOf(n) # << >> => sub_formulae_[k].args_[1] = ArgsOf(n)[1]

Matches(k, n) == SameSymbol(k, n) /\ sub_formulae_[k].args_ = ArgsOf(n)

\* Fault: the numbers of arguments are not compared.
SignatureMissMatchNever(n) == FALSE

\* DiscoverDagNode meets a function of the same name and another number of
\* arguments before it finds the term.
SignatureMissMatch(n) ==
  \E k \in DagNodes :
    /\ SameSymbol(k, n)
    /\ Len(sub_formulae_[k].args_) # Len(ast.children_[n])
    /\ \A m \in 1..k - 1 : ~ Matches(m, n)

\* The DagNode that DiscoverDagNode returns, 0 for nullptr.
DiscoverDagNode(n) ==
  IF \E k \in DagNodes : Matches(k, n)
    THEN CHOOSE k \in DagNodes : Matches(k, n) /\ \A m \in 1..k - 1 : ~ Matches(m, n)
    ELSE 0

\* Fault: only the first argument records its parent.
ToDagNodeFirstArgument(n) ==
  LET id == Len(sub_formulae_) + 1
  IN  [k \in 1..id |->
         IF k = id
           THEN [type_ |-> ast.type_[n], fn_ |-> ast.name[n], args_ |-> ArgsOf(n), ccpar_ |-> << >>]
           ELSE [sub_formulae_[k] EXCEPT
                   !.ccpar_ = IF ArgsOf(n) # << >> /\ ArgsOf(n)[1] = k THEN Append(@, id) ELSE @]]

\* ToDagNode creates a node and records it as a parent of its arguments, once
\* per position.
ToDagNode(n) ==
  LET id == Len(sub_formulae_) + 1
      Positions(k) == {a \in DOMAIN ArgsOf(n) : ArgsOf(n)[a] = k}
  IN  [k \in 1..id |->
         IF k = id
           THEN [type_ |-> ast.type_[n], fn_ |-> ast.name[n], args_ |-> ArgsOf(n), ccpar_ |-> << >>]
           ELSE [sub_formulae_[k] EXCEPT
                   !.ccpar_ = @ \o [a \in 1..Cardinality(Positions(k)) |-> id]]]

-----------------------------------------------------------------------------
(* BuildDag.                                                               *)

Init ==
  /\ ast \in Asts
  /\ phase = "generate"
  /\ at = 1
  /\ todo = << >>
  /\ sub_formulae_ = << >>
  /\ ast_fun_dag_node_map_ = [n \in AstNodes |-> 0]
  /\ sub_formulae_equality_ = << >>
  /\ sub_formulae_inequality_ = << >>

\* Fault: only new terms enter ast_fun_dag_node_map_.
AddSubFormulaeMapsNew ==
  \/ /\ DiscoverDagNode(at) # 0
     /\ UNCHANGED <<sub_formulae_, ast_fun_dag_node_map_>>
  \/ /\ DiscoverDagNode(at) = 0
     /\ sub_formulae_' = ToDagNode(at)
     /\ ast_fun_dag_node_map_' = [ast_fun_dag_node_map_ EXCEPT ![at] = Len(sub_formulae_) + 1]

AddSubFormulae ==
  \/ /\ DiscoverDagNode(at) # 0
     /\ ast_fun_dag_node_map_' = [ast_fun_dag_node_map_ EXCEPT ![at] = DiscoverDagNode(at)]
     /\ UNCHANGED sub_formulae_
  \/ /\ DiscoverDagNode(at) = 0
     /\ sub_formulae_' = ToDagNode(at)
     /\ ast_fun_dag_node_map_' = [ast_fun_dag_node_map_ EXCEPT ![at] = Len(sub_formulae_) + 1]

\* GenerateSubFormulae visits one node of the tree.
GenerateSubFormulae ==
  /\ phase = "generate"
  /\ at \in AstNodes
  /\ \/ /\ IsTerm(at)
        /\ ~ SignatureMissMatch(at)
        /\ AddSubFormulae
     \/ /\ ~ IsTerm(at)
        /\ UNCHANGED <<sub_formulae_, ast_fun_dag_node_map_>>
  /\ at' = at + 1
  /\ UNCHANGED <<ast, phase, todo, sub_formulae_equality_, sub_formulae_inequality_>>

\* DiscoverDagNode calls abort().
Abort ==
  /\ phase = "generate"
  /\ at \in AstNodes
  /\ IsTerm(at)
  /\ SignatureMissMatch(at)
  /\ phase' = "abort"
  /\ UNCHANGED <<ast, at, todo, sub_formulae_, ast_fun_dag_node_map_,
                 sub_formulae_equality_, sub_formulae_inequality_>>

\* BuildDag calls GatherEqualityConstraints when all nodes have been visited.
StartEqualities ==
  /\ phase = "generate"
  /\ at \notin AstNodes
  /\ phase' = "equality"
  /\ todo' = <<RootNode>>
  /\ UNCHANGED <<ast, at, sub_formulae_, ast_fun_dag_node_map_,
                 sub_formulae_equality_, sub_formulae_inequality_>>

\* What visiting n appends to the constraints of type t.
Constraint(n, t) ==
  IF ast.type_[n] = t
    THEN <<<<DiscoverDagNode(ast.children_[n][1]), DiscoverDagNode(ast.children_[n][2])>>>>
    ELSE << >>

\* Fault: the recursion goes into the first child only.
VisitFirstChild ==
  LET children == ast.children_[Head(todo)]
  IN  todo' = (IF children = << >> THEN << >> ELSE <<children[1]>>) \o Tail(todo)

\* The recursion goes on with the children of the node visited, in order.
VisitChildren == todo' = ast.children_[Head(todo)] \o Tail(todo)

GatherEqualityConstraints ==
  /\ phase = "equality"
  /\ todo # << >>
  /\ sub_formulae_equality_' = sub_formulae_equality_ \o Constraint(Head(todo), "equal")
  /\ VisitChildren
  /\ UNCHANGED <<ast, phase, at, sub_formulae_, ast_fun_dag_node_map_, sub_formulae_inequality_>>

StartInequalities ==
  /\ phase = "equality"
  /\ todo = << >>
  /\ phase' = "inequality"
  /\ todo' = <<RootNode>>
  /\ UNCHANGED <<ast, at, sub_formulae_, ast_fun_dag_node_map_,
                 sub_formulae_equality_, sub_formulae_inequality_>>

GatherInEqualityConstraints ==
  /\ phase = "inequality"
  /\ todo # << >>
  /\ sub_formulae_inequality_' =
       sub_formulae_inequality_ \o Constraint(Head(todo), "not_equal")
  /\ VisitChildren
  /\ UNCHANGED <<ast, phase, at, sub_formulae_, ast_fun_dag_node_map_, sub_formulae_equality_>>

\* BuildDag has all it needs for the constructor of Dag.
Built ==
  /\ phase = "inequality"
  /\ todo = << >>
  /\ phase' = "built"
  /\ UNCHANGED <<ast, at, todo, sub_formulae_, ast_fun_dag_node_map_,
                 sub_formulae_equality_, sub_formulae_inequality_>>

Next ==
  \/ GenerateSubFormulae \/ Abort \/ StartEqualities \/ GatherEqualityConstraints
  \/ StartInequalities \/ GatherInEqualityConstraints \/ Built

Spec == Init /\ [][Next]_builder

\* The node table and the constraints handed to the constructor of Dag.
Table ==
  [fn_ |-> [k \in DagNodes |-> sub_formulae_[k].fn_],
   args_ |-> [k \in DagNodes |-> sub_formulae_[k].args_],
   ccpar_ |-> [k \in DagNodes |-> sub_formulae_[k].ccpar_],
   equality_ |-> sub_formulae_equality_,
   inequality_ |-> sub_formulae_inequality_]
-----------------------------------------------------------------------------
(* Properties.                                                             *)

Phases == {"generate", "equality", "inequality", "built", "abort"}

TypeOK ==
  /\ IsAst(ast)
  /\ phase \in Phases
  /\ at \in 1..Len(ast.type_) + 1
  /\ todo \in Seq(AstNodes)
  /\ \A k \in DagNodes :
       /\ sub_formulae_[k].type_ \in {"var", "func"}
       /\ sub_formulae_[k].args_ \in Seq(1..k - 1)
       /\ sub_formulae_[k].ccpar_ \in Seq(DagNodes)
  /\ ast_fun_dag_node_map_ \in [AstNodes -> DagNodes \cup {0}]
  /\ \A n \in 1..at - 1 : IsTerm(n) => ast_fun_dag_node_map_[n] # 0
  /\ sub_formulae_equality_ \in Seq(DagNodes \X DagNodes)
  /\ sub_formulae_inequality_ \in Seq(DagNodes \X DagNodes)

\* Two nodes of the tree are occurrences of the same term.
SameTerm ==
  LET S[p \in AstNodes \X AstNodes] ==
        LET m == p[1]  n == p[2]
        IN  /\ ast.type_[m] = ast.type_[n]
            /\ ast.name[m] = ast.name[n]
            /\ Len(ast.children_[m]) = Len(ast.children_[n])
            /\ \A k \in DOMAIN ast.children_[m] :
                 S[<<ast.children_[m][k], ast.children_[n][k]>>]
  IN  S

\* Two terms of the formula have the same DagNode iff they are the same term,
\* though DiscoverDagNode only ever compares one level: congruence starts from
\* one node per term.
TermsShared ==
  \A m, n \in 1..at - 1 :
    IsTerm(m) /\ IsTerm(n) =>
      (ast_fun_dag_node_map_[m] = ast_fun_dag_node_map_[n] <=> SameTerm[<<m, n>>])

\* The equalities or inequalities of the formula.
AtomsOf(t) == {n \in AstNodes : ast.type_[n] = t}

\* The constraints are the given atoms, in the order of the text.
Lists(constraints, atoms) ==
  /\ Len(constraints) = Cardinality(atoms)
  /\ \A n \in atoms : constraints[Cardinality({m \in atoms : m <= n})] = ArgsOf(n)

\* The constraints handed over are the atoms of the formula, all of them and
\* once each: looking a term up a second time, when later terms have been
\* added, finds the node it had when it was visited.
ConstraintsGathered ==
  phase = "built" =>
    /\ Lists(sub_formulae_equality_, AtomsOf("equal"))
    /\ Lists(sub_formulae_inequality_, AtomsOf("not_equal"))

\* Some function is applied to different numbers of arguments.
MissMatched ==
  \E m, n \in AstNodes :
    /\ ast.type_[m] = "func" /\ ast.type_[n] = "func"
    /\ ast.name[m] = ast.name[n]
    /\ Len(ast.children_[m]) # Len(ast.children_[n])

\* The program aborts on every formula that uses a function with two
\* signatures, before it gathers constraints, and on no other.
AbortsOnMissMatch ==
  /\ phase = "abort" => MissMatched
  /\ phase \notin {"generate", "abort"} => ~ MissMatched
=============================================================================

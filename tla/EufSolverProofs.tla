-------------------------- MODULE EufSolverProofs --------------------------
(***************************************************************************)
(* Proofs about EufSolver for every set of syntax trees: what DagBuilder    *)
(* promises holds in the program, what it hands over is what the congruence *)
(* closure relies on, and the verdict printed is right.                     *)
(***************************************************************************)
EXTENDS EufSolver, DagBuilderProofs

\* What is proved of the congruence closure holds of the solver's Dag.
Closure == INSTANCE CongruenceClosureProofs WITH Dags <- {}

-----------------------------------------------------------------------------
(* The solver runs DagBuilder.                                             *)

LEMMA RunsBuilder == SolverSpec => Spec
<1>1. SolverInit => Init  BY DEF SolverInit
<1>2. [SolverNext]_solver => [Next]_builder
  <2> SUFFICES ASSUME [SolverNext]_solver PROVE [Next]_builder
    OBVIOUS
  <2>1. CASE Build  BY <2>1 DEF Build
  <2>2. CASE Construct  BY <2>2 DEF Construct, builder
  <2>3. CASE Decide  BY <2>3 DEF Decide
  <2>4. CASE UNCHANGED solver  BY <2>4 DEF solver, builder
  <2>5. QED BY <2>1, <2>2, <2>3, <2>4 DEF SolverNext
<1>3. QED BY <1>1, <1>2, PTL DEF SolverSpec, Spec

LEMMA BuilderInvariant == SolverSpec => [](TableInv /\ GatherInv)
BY RunsBuilder, GatherInvariant, PTL

-----------------------------------------------------------------------------
(* What is handed over.                                                    *)

LEMMA TableFacts ==
  ASSUME TableInv
  PROVE  /\ Len(Table.fn_) = Len(sub_formulae_) /\ Len(sub_formulae_) \in Nat
         /\ CC!NodesOf(Table) = DagNodes
         /\ \A k \in DagNodes : /\ Table.fn_[k] = sub_formulae_[k].fn_
                                /\ Table.args_[k] = sub_formulae_[k].args_
                                /\ Table.ccpar_[k] = sub_formulae_[k].ccpar_
         /\ DOMAIN Table.args_ = DagNodes /\ DOMAIN Table.ccpar_ = DagNodes
         /\ Table.equality_ = sub_formulae_equality_
         /\ Table.inequality_ = sub_formulae_inequality_
<1>1. Len(sub_formulae_) \in Nat  BY DEF TableInv, NodeTable
<1> DEFINE fn == [k \in DagNodes |-> sub_formulae_[k].fn_]
           args == [k \in DagNodes |-> sub_formulae_[k].args_]
           ccpar == [k \in DagNodes |-> sub_formulae_[k].ccpar_]
<1>2. Len(fn) = Len(sub_formulae_)  BY <1>1 DEF DagNodes
<1>3. /\ \A k \in DagNodes : /\ fn[k] = sub_formulae_[k].fn_
                             /\ args[k] = sub_formulae_[k].args_
                             /\ ccpar[k] = sub_formulae_[k].ccpar_
      /\ DOMAIN args = DagNodes /\ DOMAIN ccpar = DagNodes
  OBVIOUS
<1>4. Table = [fn_ |-> fn, args_ |-> args, ccpar_ |-> ccpar,
               equality_ |-> sub_formulae_equality_, inequality_ |-> sub_formulae_inequality_]
  BY DEF Table
<1> HIDE DEF fn, args, ccpar
<1>5. /\ Table.fn_ = fn /\ Table.args_ = args /\ Table.ccpar_ = ccpar
      /\ Table.equality_ = sub_formulae_equality_
      /\ Table.inequality_ = sub_formulae_inequality_
  BY <1>4
<1>6. CC!NodesOf(Table) = DagNodes  BY <1>2, <1>5 DEF CC!NodesOf, DagNodes
<1>7. QED BY <1>1, <1>2, <1>3, <1>5, <1>6

\* The table that is built is one the congruence closure can work on, at any
\* moment.
LEMMA TableIsDag == TableInv /\ GatherInv => CC!IsDag(Table)
<1> SUFFICES ASSUME TableInv, GatherInv PROVE CC!IsDag(Table)
  OBVIOUS
<1> DEFINE T == Table
           args(k) == sub_formulae_[k].args_
           ccpar(k) == sub_formulae_[k].ccpar_
<1>1. /\ Len(T.fn_) \in Nat /\ CC!NodesOf(T) = DagNodes /\ DagNodes \subseteq Nat
      /\ \A k \in DagNodes : /\ T.fn_[k] = sub_formulae_[k].fn_
                             /\ T.args_[k] = args(k)
                             /\ T.ccpar_[k] = ccpar(k)
      /\ DOMAIN T.args_ = DagNodes /\ DOMAIN T.ccpar_ = DagNodes
      /\ T.equality_ \in Seq(DagNodes \X DagNodes)
      /\ T.inequality_ \in Seq(DagNodes \X DagNodes)
  BY TableFacts DEF GatherInv, DagNodes
<1>2. ASSUME NEW k \in DagNodes
      PROVE  /\ args(k) \in Seq(DagNodes) /\ ccpar(k) \in Seq(DagNodes)
             /\ DOMAIN args(k) = 1..Len(args(k)) /\ Len(args(k)) \in Nat
             /\ \A a \in DOMAIN args(k) : args(k)[a] < k /\ args(k)[a] \in DagNodes
  <2>1. args(k) \in Seq(1..k - 1) /\ ccpar(k) \in Seq(DagNodes)
    BY DEF TableInv, NodeTable
  <2>2. 1..k - 1 \subseteq DagNodes /\ \A a \in 1..k - 1 : a < k  BY <1>1 DEF DagNodes, TableInv, NodeTable
  <2> DEFINE v == args(k)
  <2> HIDE DEF v
  <2>3. /\ Len(v) \in Nat /\ DOMAIN v = 1..Len(v)
        /\ \A a \in 1..Len(v) : v[a] \in 1..k - 1
        /\ v \in Seq(DagNodes)
    <3>1. v \in Seq(1..k - 1)  BY <2>1 DEF v
    <3>2. QED BY <2>2, <3>1, SeqFacts, Zenon
  <2>4. QED BY <2>1, <2>2, <2>3 DEF v
<1>3. ASSUME NEW p \in DagNodes, NEW q \in DagNodes, T.fn_[p] = T.fn_[q], T.args_[p] = T.args_[q]
      PROVE  p = q
  <2>1. PICK m \in Visited : /\ ast_fun_dag_node_map_[m] = p /\ Matches(p, m)
                             /\ Len(args(p)) = Len(ast.children_[m])
    BY CreatedFacts
  <2>2. PICK n \in Visited : /\ ast_fun_dag_node_map_[n] = q /\ Matches(q, n)
                             /\ Len(args(q)) = Len(ast.children_[n])
    BY CreatedFacts
  <2>3. args(p) = args(q) /\ sub_formulae_[p].fn_ = sub_formulae_[q].fn_  BY <1>1, <1>3
  <2>4. ast.type_[m] = ast.type_[n]
    <3>1. \A i \in Visited : i \in AstNodes /\ (ast.type_[i] = "var" \/ ast.type_[i] = "func")
      BY DEF Visited, IsTerm
    <3>2. \A i \in Visited : ast.type_[i] = "var" <=> Len(ast.children_[i]) = 0
      <4> SUFFICES ASSUME NEW i \in Visited
                   PROVE  ast.type_[i] = "var" <=> Len(ast.children_[i]) = 0
        OBVIOUS
      <4>1. ast.children_[i] \in Seq(AstNodes)  BY <3>1, AstFacts DEF TableInv
      <4>2. ast.type_[i] = "var" => ast.children_[i] = << >>  BY <3>1, AstFacts DEF TableInv
      <4>3. ast.type_[i] = "func" => ast.children_[i] # << >>  BY <3>1, AstFacts DEF TableInv
      <4>4. QED BY <3>1, <4>1, <4>2, <4>3
    <3>3. Len(ast.children_[m]) = Len(ast.children_[n])  BY <2>1, <2>2, <2>3
    <3>4. QED BY <3>1, <3>2, <3>3
  <2>5. \A k : Matches(k, m) <=> Matches(k, n)
    BY <2>1, <2>2, <2>3, <2>4 DEF Matches, SameSymbol
  <2>6. IsFirstMatch(p, m) /\ IsFirstMatch(q, n)  BY <2>1, <2>2 DEF TableInv, Shared
  <2>7. IsFirstMatch(p, n)  BY <2>5, <2>6 DEF IsFirstMatch
  <2>8. DiscoverDagNode(n) = p /\ DiscoverDagNode(n) = q
    BY <2>6, <2>7, DiscoverFacts DEF TableInv, NodeTable
  <2>9. QED BY <2>8
<1>4. ASSUME NEW n \in DagNodes
      PROVE  /\ CC!NonDecreasing(T.ccpar_[n])
             /\ CC!Elements(T.ccpar_[n]) = CC!ParentsIn(T, {n})
  <2>1. CC!NonDecreasing(T.ccpar_[n])
    BY <1>1 DEF TableInv, ParentsRecorded, IsSorted, CC!NonDecreasing
  <2>2. \A p \in DagNodes : Occurs(p, ccpar(n)) <=> Occurs(n, args(p))
    BY DEF TableInv, ParentsRecorded
  <2>3. \A p : p \in CC!Elements(T.ccpar_[n]) <=> Occurs(p, ccpar(n))
    BY <1>1 DEF CC!Elements, Occurs
  <2>4. \A p : Occurs(p, ccpar(n)) => p \in DagNodes
    <3>1. ccpar(n) \in Seq(DagNodes)  BY <1>2
    <3> DEFINE v == ccpar(n)
    <3> HIDE DEF v
    <3>2. \A a \in DOMAIN v : v[a] \in DagNodes
      <4>1. v \in Seq(DagNodes) /\ DagNodes \subseteq DagNodes  BY <3>1 DEF v
      <4>2. DOMAIN v = 1..Len(v) /\ \A a \in 1..Len(v) : v[a] \in DagNodes
        BY <4>1, SeqFacts, Zenon
      <4>3. QED BY <4>2
    <3>3. QED BY <3>2 DEF Occurs, v
  <2>5. \A p : p \in CC!ParentsIn(T, {n}) <=> p \in DagNodes /\ Occurs(n, args(p))
    BY <1>1 DEF CC!ParentsIn, Occurs
  <2>6. QED BY <2>1, <2>2, <2>3, <2>4, <2>5
<1>5. /\ T.args_ \in [DagNodes -> Seq(DagNodes)] /\ T.ccpar_ \in [DagNodes -> Seq(DagNodes)]
  <2>1. T.args_ = [k \in DagNodes |-> args(k)] /\ T.ccpar_ = [k \in DagNodes |-> ccpar(k)]
    BY DEF Table
  <2>2. QED BY <1>2, <2>1
<1>6. \A p \in DagNodes : \A a \in DOMAIN T.args_[p] : T.args_[p][a] < p
  BY <1>1, <1>2
<1> HIDE DEF T
<1>7. CC!IsDag(T)  BY <1>1, <1>3, <1>4, <1>5, <1>6 DEF CC!IsDag
<1>8. QED BY <1>7 DEF T

\* What the congruence closure relies on holds of every table handed over,
\* whatever the formula.
THEOREM AlwaysHandsOverDag == SolverSpec => []HandsOverDag
<1>1. TableInv /\ GatherInv => HandsOverDag  BY TableIsDag DEF HandsOverDag
<1>2. QED BY <1>1, BuilderInvariant, PTL

-----------------------------------------------------------------------------
(* The Dag.                                                                *)

\* The two instances of the congruence closure are one.
LEMMA SameClosure ==
  /\ CC!Next <=> Closure!Next
  /\ \A d : CC!IsDag(d) <=> Closure!IsDag(d)
<1>1. CC!Next <=> Closure!Next
  BY Zenon
  DEF CC!Next, Closure!Next, CC!MergeEquality, Closure!MergeEquality,
      CC!MergeParents, Closure!MergeParents, CC!MergeReturn, Closure!MergeReturn,
      CC!CheckInequality, Closure!CheckInequality, CC!Report, Closure!Report,
      CC!Merge, Closure!Merge, CC!Union, Closure!Union, CC!Find, Closure!Find,
      CC!Root, Closure!Root, CC!Congruent, Closure!Congruent, CC!Frame, Closure!Frame,
      CC!CCPar, Closure!CCPar, CC!VectorSetUnion, Closure!VectorSetUnion,
      CC!Inner, Closure!Inner, CC!HasPair, Closure!HasPair, CC!Advance, Closure!Advance,
      CC!EqualitiesDone, Closure!EqualitiesDone
<1>2. \A d : CC!IsDag(d) <=> Closure!IsDag(d)
  BY DEF CC!IsDag, Closure!IsDag, CC!NodesOf, Closure!NodesOf, CC!NonDecreasing,
         Closure!NonDecreasing, CC!Elements, Closure!Elements, CC!ParentsIn, Closure!ParentsIn
<1>3. QED BY <1>1, <1>2

\* The Dag decides the table that was built, and its invariant holds.
DagInv ==
  /\ dag = NoDag => /\ frames = << >> /\ next_eq = 1 /\ next_neq = 1
                    /\ res = TRUE /\ verdict = "none"
  /\ dag # NoDag => phase = "built" /\ dag = Table /\ Closure!CCInv

LEMMA ConstructedNext == Closure!Constructed' => Closure!CCInv'
<1>1. Closure!Constructed => Closure!CCInv  BY Closure!ConstructedCCInv
<1>2. QED BY <1>1, PTL

LEMMA DagStep == TableInv /\ GatherInv /\ DagInv /\ [SolverNext]_solver => DagInv'
<1> SUFFICES ASSUME TableInv, GatherInv, DagInv, [SolverNext]_solver PROVE DagInv'
  OBVIOUS
<1>1. CASE Build
  <2>1. phase # "built"
    BY <1>1
    DEF Build, Next, GenerateSubFormulae, Abort, StartEqualities, GatherEqualityConstraints,
        StartInequalities, GatherInEqualityConstraints, Built
  <2>2. QED BY <1>1, <2>1 DEF Build, DagInv
<1>2. CASE Construct
  <2>1. /\ UNCHANGED <<phase, sub_formulae_, sub_formulae_equality_, sub_formulae_inequality_,
                       frames, next_eq, next_neq, res, verdict>>
        /\ phase = "built" /\ dag = NoDag /\ dag' = Table
        /\ cc_' = [k \in DagNodes |-> k] /\ ccpar_' = Table.ccpar_
    BY <1>2 DEF Construct
  <2>2. Table' = Table  BY <2>1 DEF Table, DagNodes
  <2>3. /\ frames' = << >> /\ next_eq' = 1 /\ next_neq' = 1 /\ res' = TRUE /\ verdict' = "none"
    BY <2>1 DEF DagInv
  <2>4. Closure!Constructed'
    <3>1. Closure!IsDag(Table)  BY TableIsDag, SameClosure
    <3>2. Closure!NodesOf(Table) = DagNodes
      BY TableFacts DEF CC!NodesOf, Closure!NodesOf
    <3>3. Closure!Nodes' = DagNodes  BY <2>1, <3>2 DEF Closure!Nodes
    <3>4. Closure!IsDag(dag)'  BY <2>1, <3>1
    <3>5. QED BY <2>1, <2>3, <3>3, <3>4 DEF Closure!Constructed
  <2>5. Closure!CCInv'  BY <2>4, ConstructedNext
  <2>6. QED BY <2>1, <2>2, <2>3, <2>5 DEF DagInv
<1>3. CASE Decide
  <2>1. dag # NoDag /\ Closure!Next /\ UNCHANGED builder
    BY <1>3, SameClosure DEF Decide
  <2>2. Closure!CCInv'  BY <2>1, Closure!NextCCInv DEF DagInv
  <2>3. dag' = dag
    BY <2>1
    DEF Closure!Next, Closure!MergeEquality, Closure!MergeParents, Closure!MergeReturn,
        Closure!CheckInequality, Closure!Report
  <2>4. Table' = Table /\ phase' = phase  BY <2>1 DEF builder, Table, DagNodes
  <2>5. QED BY <2>1, <2>2, <2>3, <2>4 DEF DagInv
<1>4. CASE UNCHANGED solver
  <2>1. UNCHANGED Closure!vars /\ UNCHANGED <<dag, frames, next_eq, next_neq, res, verdict, phase>>
    BY <1>4 DEF solver, Closure!vars
  <2>2. Table' = Table  BY <1>4 DEF solver, Table, DagNodes
  <2>3. Closure!CCInv => Closure!CCInv'  BY <2>1, Closure!NextCCInv
  <2>4. QED BY <2>1, <2>2, <2>3 DEF DagInv
<1>5. QED BY <1>1, <1>2, <1>3, <1>4 DEF SolverNext

LEMMA SolverInvariant == SolverSpec => [](TableInv /\ GatherInv /\ DagInv)
<1>1. SolverInit => DagInv  BY DEF SolverInit, DagInv
<1>2. QED BY <1>1, DagStep, BuilderInvariant, PTL DEF SolverSpec

-----------------------------------------------------------------------------
(* The tree above the terms.                                               *)

\* A node lies in the subtrees of those it is below only.
LEMMA Nested ==
  ASSUME IsAst(ast), NEW n \in AstNodes, NEW m \in Subtree(n)
  PROVE  m \in AstNodes /\ First[n] <= First[m]
<1> DEFINE S == {k \in Nat : \A i \in AstNodes : i <= k =>
                   \A j \in Subtree(i) : j \in AstNodes /\ First[i] <= First[j]}
<1>1. /\ RootNode \in Nat /\ AstNodes = 1..RootNode
      /\ \A i \in AstNodes : First[i] \in 1..i
  BY AstFacts, FirstFacts
<1>2. 0 \in S  BY <1>1
<1>3. ASSUME NEW k \in Nat, k \in S PROVE k + 1 \in S
  <2> SUFFICES ASSUME NEW i \in AstNodes, i <= k + 1, NEW j \in Subtree(i)
               PROVE  j \in AstNodes /\ First[i] <= First[j]
    OBVIOUS
  <2>1. CASE j = i  BY <1>1, <2>1
  <2>2. CASE j # i
    <3>1. j \in First[i]..i - 1 /\ j \in Int  BY <1>1, <2>2 DEF Subtree
    <3>2. PICK a \in 1..Len(ast.children_[i]) : j \in Subtree(Child(i, a))
      BY <3>1, ChildrenCover
    <3> DEFINE c == Child(i, a)
    <3>3. c \in AstNodes /\ c < i  BY AstFacts
    <3>4. First[i] <= First[c]
      <4>1. First[c] \in Subtree(c) /\ First[c] \in Int
        <5> HIDE DEF c
        <5>1. QED BY <1>1, <3>3 DEF Subtree
      <4>2. First[c] \in First[i]..i - 1  BY <4>1, ChildrenCover
      <4>3. QED BY <4>2
    <3>5. j \in Subtree(c)  BY <3>2
    <3> HIDE DEF c
    <3>6. c <= k  BY <1>1, <3>3
    <3>7. j \in AstNodes /\ First[c] <= First[j]  BY <1>3, <3>3, <3>5, <3>6
    <3>8. First[i] \in Int /\ First[c] \in Int /\ First[j] \in Int  BY <1>1, <3>3, <3>7
    <3>9. QED BY <3>4, <3>7, <3>8
  <2>3. QED BY <2>1, <2>2
<1>4. Nat \subseteq S
  <2> HIDE DEF S
  <2>1. QED BY <1>2, <1>3, SetInduction
<1>5. n \in Nat /\ n <= n  BY <1>1
<1>6. QED BY <1>4, <1>5

\* No node has two parents.
LEMMA UniqueParent ==
  ASSUME IsAst(ast), NEW m \in AstNodes, NEW p \in AstNodes,
         NEW i \in 1..Len(ast.children_[m]), NEW j \in 1..Len(ast.children_[p]),
         Child(m, i) = Child(p, j)
  PROVE  m = p
<1>1. /\ RootNode \in Nat /\ AstNodes = 1..RootNode
      /\ \A a \in AstNodes : First[a] \in 1..a
  BY AstFacts, FirstFacts
<1>2. ASSUME NEW a \in AstNodes, NEW b \in AstNodes,
             NEW k \in 1..Len(ast.children_[a]), NEW l \in 1..Len(ast.children_[b]),
             Child(a, k) = Child(b, l), a < b
      PROVE  FALSE
  <2> DEFINE c == Child(a, k)
  <2>1. c \in AstNodes /\ c < a /\ c = Child(b, l)  BY <1>2, AstFacts
  <2>2. First[b] <= c
    <3>1. c \in Subtree(c) /\ c \in Int
      <4> HIDE DEF c
      <4>1. QED BY <1>1, <2>1 DEF Subtree
    <3>2. c \in First[b]..b - 1  BY <2>1, <3>1, ChildrenCover
    <3>3. QED BY <3>2
  <2>3. a \in First[b]..b - 1 /\ a \in Int
    <3> HIDE DEF c
    <3>1. QED BY <1>1, <1>2, <2>1, <2>2
  <2>4. PICK o \in 1..Len(ast.children_[b]) : a \in Subtree(Child(b, o))
    BY <2>3, ChildrenCover
  <2> DEFINE d == Child(b, o)
  <2>5. d \in AstNodes  BY AstFacts
  <2>6. First[d] <= a /\ a <= d
    <3> HIDE DEF d
    <3>1. a \in First[d]..d  BY <2>4 DEF Subtree, d
    <3>2. QED BY <3>1
  <2>7. l < o
    <3> SUFFICES ASSUME ~ (l < o) PROVE FALSE
      OBVIOUS
    <3>1. \A x \in AstNodes : Len(ast.children_[x]) \in Nat
      <4> SUFFICES ASSUME NEW x \in AstNodes PROVE Len(ast.children_[x]) \in Nat
        OBVIOUS
      <4>1. ast.children_[x] \in Seq(AstNodes)  BY AstFacts
      <4>2. QED BY <4>1
    <3>2. o < l \/ o = l  BY <3>1
    <3>3. CASE o = l
      <4>1. d = c  BY <2>1, <3>3
      <4> HIDE DEF c, d
      <4>2. QED BY <1>1, <2>1, <2>6, <4>1
    <3>4. CASE o < l
      <4>1. d < First[c]  BY <2>1, <3>4, ChildrenOrdered
      <4> HIDE DEF c, d
      <4>2. First[c] \in 1..c  BY <1>1, <2>1
      <4>3. QED BY <1>1, <2>1, <2>5, <2>6, <4>1, <4>2
    <3>5. QED BY <3>2, <3>3, <3>4
  <2>8. c < First[d]  BY <2>1, <2>7, ChildrenOrdered
  <2>9. First[d] <= First[a]  BY <2>4, <2>5, Nested
  <2>10. First[a] <= c
    <3>1. c \in Subtree(c) /\ c \in Int
      <4> HIDE DEF c
      <4>1. QED BY <1>1, <2>1 DEF Subtree
    <3>2. c \in First[a]..a - 1  BY <3>1, ChildrenCover
    <3>3. QED BY <3>2
  <2> HIDE DEF c, d
  <2>11. First[d] \in Int /\ First[a] \in Int /\ c \in Int  BY <1>1, <2>1, <2>5
  <2>12. QED BY <2>8, <2>9, <2>10, <2>11
<1>3. m < p \/ p < m \/ m = p  BY <1>1
<1>4. QED BY <1>2, <1>3

\* The nodes that stand for formulas.
FormulaNodes ==
  {n \in AstNodes : n = RootNode \/ \E p \in AstNodes : /\ ast.type_[p] = "and"
                                                        /\ n \in CC!Elements(ast.children_[p])}

\* What the grammar guarantees of formulas.
LEMMA FormulaFacts ==
  ASSUME IsAst(ast)
  PROVE  /\ RootNode \in FormulaNodes /\ PredicateNodes \subseteq FormulaNodes
         /\ \A n \in FormulaNodes : ast.type_[n] # "var"
         /\ \A n \in FormulaNodes : ast.type_[n] = "func" => n \in PredicateNodes
         /\ \A n \in AstNodes : ast.type_[n] = "and" =>
              /\ Len(ast.children_[n]) = 2
              /\ \A k \in 1..2 : Child(n, k) \in FormulaNodes /\ Child(n, k) < n
         /\ \A n \in AstNodes : IsTerm(n) \/ ast.type_[n] \in {"equal", "not_equal"} =>
              \A k \in 1..Len(ast.children_[n]) : Child(n, k) \notin FormulaNodes
<1> DEFINE N == 1..Len(ast.type_)
           Terms == {n \in N : ast.type_[n] \in {"var", "func"}}
           Formulas == {n \in N : ast.type_[n] # "var"}
           Children(n) == {ast.children_[n][k] : k \in DOMAIN ast.children_[n]}
<1>1. /\ Len(ast.type_) \in Formulas
      /\ \A n \in N :
           CASE ast.type_[n] = "var" -> Len(ast.children_[n]) = 0
             [] ast.type_[n] = "func" -> Len(ast.children_[n]) > 0 /\ Children(n) \subseteq Terms
             [] ast.type_[n] = "and" -> Len(ast.children_[n]) = 2 /\ Children(n) \subseteq Formulas
             [] OTHER -> Len(ast.children_[n]) = 2 /\ Children(n) \subseteq Terms
  BY Zenon DEF IsAst
<1>2. /\ RootNode \in AstNodes /\ AstNodes = N /\ RootNode \in Nat /\ AstNodes = 1..RootNode
      /\ \A n \in AstNodes : ast.children_[n] \in Seq(AstNodes)
      /\ \A n \in AstNodes : \A k \in 1..Len(ast.children_[n]) :
           Child(n, k) \in AstNodes /\ Child(n, k) < n
  BY AstFacts DEF AstNodes
<1>3. \A n \in AstNodes : DOMAIN ast.children_[n] = 1..Len(ast.children_[n])  BY <1>2
<1>4. ASSUME NEW n \in AstNodes, ast.type_[n] = "and"
      PROVE  Children(n) \subseteq Formulas /\ Len(ast.children_[n]) = 2
  <2> HIDE DEF Children, Formulas, Terms, N
  <2>1. QED BY <1>1, <1>2, <1>4
<1>5. \A n \in FormulaNodes : n \in Formulas
  BY <1>1, <1>4 DEF FormulaNodes, CC!Elements, RootNode
<1>6. \A n \in FormulaNodes : ast.type_[n] # "var"  BY <1>5
<1>7. PredicateNodes = {n \in FormulaNodes : ast.type_[n] = "func"}
  BY DEF PredicateNodes, FormulaNodes
<1>8. ASSUME NEW n \in AstNodes, ast.type_[n] = "and", NEW k \in 1..2
      PROVE  Child(n, k) \in FormulaNodes /\ Child(n, k) < n
  <2>1. k \in 1..Len(ast.children_[n])  BY <1>4, <1>8
  <2>2. Child(n, k) \in CC!Elements(ast.children_[n])  BY <1>3, <2>1 DEF Child, CC!Elements
  <2>3. QED BY <1>2, <1>8, <2>1, <2>2 DEF FormulaNodes
<1>9. ASSUME NEW n \in AstNodes, IsTerm(n) \/ ast.type_[n] \in {"equal", "not_equal"},
             NEW k \in 1..Len(ast.children_[n]), Child(n, k) \in FormulaNodes
      PROVE  FALSE
  <2>1. Child(n, k) # RootNode  BY <1>2
  <2>2. PICK p \in AstNodes : /\ ast.type_[p] = "and"
                              /\ Child(n, k) \in CC!Elements(ast.children_[p])
    BY <1>9, <2>1 DEF FormulaNodes
  <2>3. PICK l \in 1..Len(ast.children_[p]) : Child(p, l) = Child(n, k)
    BY <1>3, <2>2 DEF CC!Elements, Child
  <2>4. p = n  BY <2>3, UniqueParent
  <2>5. QED BY <1>9, <2>2, <2>4 DEF IsTerm
<1> HIDE DEF Formulas, Terms
<1>10. QED BY <1>2, <1>4, <1>6, <1>7, <1>8, <1>9 DEF FormulaNodes

-----------------------------------------------------------------------------
(* The meaning of a formula.                                               *)

\* All terms have been visited.
Complete == TableInv /\ at = RootNode + 1

Node(n) == ast_fun_dag_node_map_[n]

LEMMA CompleteFacts ==
  ASSUME Complete
  PROVE  /\ IsAst(ast) /\ RootNode \in Nat /\ AstNodes = 1..RootNode /\ at \in Int
         /\ Visited = {n \in AstNodes : IsTerm(n)}
         /\ \A n \in Visited : n \in AstNodes /\ n <= at /\ Node(n) \in DagNodes
                               /\ Matches(Node(n), n)
<1>1. IsAst(ast) /\ RootNode \in Nat /\ AstNodes = 1..RootNode
  BY AstFacts DEF Complete, TableInv
<1>2. QED BY <1>1 DEF Complete, TableInv, Visited, Shared, IsFirstMatch, Node

\* The first occurrence of a term is one for all its occurrences.
LEMMA OccurrenceFacts ==
  ASSUME Complete
  PROVE  /\ DOMAIN FirstOccurrence = Visited
         /\ \A n \in Visited : /\ FirstOccurrence[n] \in Visited
                               /\ Node(FirstOccurrence[n]) = Node(n)
         /\ \A m, n \in Visited : Node(m) = Node(n) <=> FirstOccurrence[m] = FirstOccurrence[n]
<1> DEFINE F == FirstOccurrence
           IsFirst(m, n) == SameTerm[<<m, n>>] /\ \A k \in 1..m - 1 : ~ SameTerm[<<k, n>>]
<1>1. /\ IsAst(ast) /\ RootNode \in Nat /\ AstNodes = 1..RootNode
      /\ Visited = {n \in AstNodes : IsTerm(n)} /\ TableInv
  BY CompleteFacts DEF Complete
<1>2. F = [n \in {k \in AstNodes : IsTerm(k)} |-> CHOOSE m \in 1..n : IsFirst(m, n)]
  BY DEF FirstOccurrence
<1>3. ASSUME NEW n \in Visited, NEW m \in 1..n
      PROVE  SameTerm[<<m, n>>] <=> m \in Visited /\ Node(m) = Node(n)
  <2>1. m \in AstNodes /\ n \in AstNodes  BY <1>1
  <2>2. SameTerm[<<m, n>>] => IsTerm(m)
    <3>1. SameTerm[<<m, n>>] = SameStep(SameTerm, m, n)  BY <1>1, <2>1, SameFacts
    <3>2. IsTerm(n)  BY <1>1
    <3>3. QED BY <3>1, <3>2 DEF SameStep, IsTerm
  <2>3. CASE IsTerm(m)
    <3>1. m \in Visited  BY <1>1, <2>1, <2>3
    <3>2. Node(m) = Node(n) <=> SameTerm[<<m, n>>]  BY <1>1, <3>1, OneNodePerTerm DEF Node
    <3>3. QED BY <3>1, <3>2
  <2>4. CASE ~ IsTerm(m)  BY <1>1, <2>2, <2>4
  <2>5. QED BY <2>3, <2>4
<1>4. ASSUME NEW n \in Visited
      PROVE  /\ F[n] \in Visited /\ Node(F[n]) = Node(n)
             /\ \A k \in Visited : Node(k) = Node(n) => F[n] <= k
  <2> DEFINE S == {m \in 1..n : SameTerm[<<m, n>>]}
  <2>1. n \in 1..n /\ n \in Int  BY <1>1
  <2>2. n \in S  BY <1>3, <2>1
  <2>3. PICK m \in S : \A k \in S : m <= k
    <3>1. S \subseteq Nat /\ S # {}  BY <2>2
    <3> HIDE DEF S
    <3>2. QED BY <3>1, LeastMember
  <2>4. m \in 1..n /\ IsFirst(m, n)
    <3>1. \A k \in 1..m - 1 : k \in 1..n /\ ~ (m <= k)
      <4>1. m \in 1..n /\ n \in Int  BY <2>1
      <4>2. QED BY <4>1
    <3>2. QED BY <2>3, <3>1
  <2>5. F[n] = CHOOSE i \in 1..n : IsFirst(i, n)  BY <1>1, <1>2
  <2> HIDE DEF IsFirst, F
  <2>6. F[n] \in 1..n /\ IsFirst(F[n], n)  BY <2>4, <2>5
  <2>7. F[n] \in Visited /\ Node(F[n]) = Node(n)  BY <1>3, <2>6 DEF IsFirst
  <2>8. ASSUME NEW k \in Visited, Node(k) = Node(n) PROVE F[n] <= k
    <3> SUFFICES ASSUME ~ (F[n] <= k) PROVE FALSE
      OBVIOUS
    <3>1. k \in 1..F[n] - 1 /\ k \in 1..n  BY <1>1, <2>6, <2>8
    <3>2. SameTerm[<<k, n>>]  BY <1>3, <2>8, <3>1
    <3>3. QED BY <2>6, <3>1, <3>2 DEF IsFirst
  <2>9. QED BY <2>7, <2>8
<1>5. DOMAIN F = Visited  BY <1>1, <1>2
<1> HIDE DEF F
<1>6. ASSUME NEW m \in Visited, NEW n \in Visited PROVE Node(m) = Node(n) <=> F[m] = F[n]
  <2>1. F[m] = F[n] => Node(m) = Node(n)  BY <1>4
  <2>2. ASSUME Node(m) = Node(n) PROVE F[m] = F[n]
    <3>1. F[m] \in Visited /\ F[n] \in Visited /\ Node(F[m]) = Node(n) /\ Node(F[n]) = Node(m)
      BY <1>4, <2>2
    <3>2. F[n] <= F[m] /\ F[m] <= F[n]  BY <1>4, <2>2, <3>1
    <3>3. QED BY <1>1, <3>1, <3>2
  <2>3. QED BY <2>1, <2>2
<1>7. QED BY <1>4, <1>5, <1>6 DEF F

\* The truth of the formula at n, given that of those below it.
HoldsStep(H, v, P, first, n) ==
  CASE ast.type_[n] = "and" -> H[Child(n, 1)] /\ H[Child(n, 2)]
    [] ast.type_[n] = "equal" -> v[first[Child(n, 1)]] = v[first[Child(n, 2)]]
    [] ast.type_[n] = "not_equal" -> v[first[Child(n, 1)]] # v[first[Child(n, 2)]]
    [] OTHER -> first[n] \in P

LEMMA HoldsStepBelow ==
  ASSUME IsAst(ast), NEW v, NEW P, NEW first, NEW n \in AstNodes, NEW H, NEW G,
         \A i \in AstNodes : i < n => H[i] = G[i]
  PROVE  HoldsStep(H, v, P, first, n) = HoldsStep(G, v, P, first, n)
<1>1. CASE ast.type_[n] = "and"
  <2>1. \A k \in 1..2 : Child(n, k) \in AstNodes /\ Child(n, k) < n
    BY <1>1, FormulaFacts DEF FormulaNodes
  <2>2. H[Child(n, 1)] = G[Child(n, 1)] /\ H[Child(n, 2)] = G[Child(n, 2)]  BY <2>1
  <2>3. QED BY <1>1, <2>2 DEF HoldsStep
<1>2. CASE ast.type_[n] # "and"  BY <1>2 DEF HoldsStep
<1>3. QED BY <1>1, <1>2

LEMMA HoldsExists ==
  ASSUME IsAst(ast), NEW v, NEW P, NEW first
  PROVE  \E H : H = [n \in AstNodes |-> HoldsStep(H, v, P, first, n)]
<1> DEFINE step(H, n) == HoldsStep(H, v, P, first, n)
           Solves(H, k) == \A n \in AstNodes : n <= k => H[n] = step(H, n)
           S == {k \in Nat : \E H : Solves(H, k)}
           Extend(H) == [n \in AstNodes |-> step(H, n)]
<1>1. RootNode \in Nat /\ AstNodes = 1..RootNode  BY AstFacts
<1>2. \A H : \A n \in AstNodes : Extend(H)[n] = step(H, n)  OBVIOUS
<1>3. \A H, G : \A n \in AstNodes :
        (\A i \in AstNodes : i < n => H[i] = G[i]) => step(H, n) = step(G, n)
  BY HoldsStepBelow
<1> HIDE DEF Extend, step
<1>4. 0 \in S
  <2>1. Solves(<< >>, 0)  BY <1>1
  <2>2. QED BY <2>1
<1>5. ASSUME NEW k \in Nat, k \in S PROVE k + 1 \in S
  <2>1. PICK H : Solves(H, k)  BY <1>5
  <2>2. \A n \in AstNodes : n <= k => Extend(H)[n] = H[n]  BY <1>2, <2>1
  <2>3. ASSUME NEW n \in AstNodes, n <= k + 1 PROVE Extend(H)[n] = step(Extend(H), n)
    <3>1. \A i \in AstNodes : i < n => i <= k  BY <1>1, <2>3
    <3>2. step(H, n) = step(Extend(H), n)  BY <1>3, <2>2, <3>1
    <3>3. QED BY <1>2, <3>2
  <2>4. Solves(Extend(H), k + 1)  BY <2>3
  <2>5. QED BY <2>4
<1>6. RootNode \in S
  <2> HIDE DEF S
  <2>1. QED BY <1>1, <1>4, <1>5, SetInduction
<1>7. PICK H : Solves(H, RootNode)  BY <1>6
<1>8. \A n \in AstNodes : H[n] = step(H, n)
  <2>1. \A n \in AstNodes : n <= RootNode  BY <1>1
  <2>2. QED BY <1>7, <2>1
<1>9. \A n \in AstNodes : step(H, n) = step(Extend(H), n)  BY <1>2, <1>3, <1>8
<1> DEFINE G == Extend(H)
<1>10. G = [n \in AstNodes |-> step(H, n)]  BY DEF Extend
<1>11. \A n \in AstNodes : step(H, n) = step(G, n)  BY <1>9
<1> HIDE DEF G
<1>12. G = [n \in AstNodes |-> step(G, n)]  BY <1>10, <1>11
<1>13. QED BY <1>12 DEF step

LEMMA HoldsFacts ==
  ASSUME IsAst(ast), NEW v, NEW P, NEW first, NEW n \in AstNodes
  PROVE  Holds(v, P, first)[n] = HoldsStep(Holds(v, P, first), v, P, first, n)
<1>1. Holds(v, P, first) = CHOOSE H : H = [i \in AstNodes |-> HoldsStep(H, v, P, first, i)]
  BY Zenon DEF Holds, HoldsStep, Child
<1>2. Holds(v, P, first) = [i \in AstNodes |-> HoldsStep(Holds(v, P, first), v, P, first, i)]
  BY <1>1, HoldsExists
<1>3. QED BY <1>2

\* All equalities and inequalities of the formula hold.
AtomsHold(v, first) ==
  /\ \A n \in AtomsOf("equal") : v[first[Child(n, 1)]] = v[first[Child(n, 2)]]
  /\ \A n \in AtomsOf("not_equal") : v[first[Child(n, 1)]] # v[first[Child(n, 2)]]

\* A formula holds when its atoms and its predicates do.
LEMMA HoldsIfAtoms ==
  ASSUME IsAst(ast), NEW v, NEW P, NEW first, AtomsHold(v, first),
         \A n \in PredicateNodes : first[n] \in P
  PROVE  Holds(v, P, first)[RootNode]
<1> DEFINE H == Holds(v, P, first)
           S == {k \in Nat : \A n \in FormulaNodes : n <= k => H[n]}
<1>1. RootNode \in Nat /\ AstNodes = 1..RootNode /\ FormulaNodes \subseteq AstNodes
  BY AstFacts DEF FormulaNodes
<1>2. \A n \in AstNodes : H[n] = HoldsStep(H, v, P, first, n)  BY HoldsFacts
<1> HIDE DEF H
<1>3. 0 \in S  BY <1>1
<1>4. ASSUME NEW k \in Nat, k \in S PROVE k + 1 \in S
  <2> SUFFICES ASSUME NEW n \in FormulaNodes, n <= k + 1 PROVE H[n]
    OBVIOUS
  <2>1. n \in AstNodes /\ H[n] = HoldsStep(H, v, P, first, n)  BY <1>1, <1>2
  <2>2. CASE ast.type_[n] = "and"
    <3>1. \A c \in 1..2 : Child(n, c) \in FormulaNodes /\ Child(n, c) < n
      BY <2>1, <2>2, FormulaFacts
    <3>2. \A c \in 1..2 : Child(n, c) <= k
      <4> SUFFICES ASSUME NEW c \in 1..2 PROVE Child(n, c) <= k
        OBVIOUS
      <4> DEFINE d == Child(n, c)
      <4>1. d \in AstNodes /\ d < n  BY <1>1, <3>1
      <4> HIDE DEF d
      <4>2. d <= k  BY <1>1, <2>1, <4>1
      <4>3. QED BY <4>2 DEF d
    <3>3. H[Child(n, 1)] /\ H[Child(n, 2)]  BY <1>4, <3>1, <3>2
    <3>4. QED BY <2>1, <2>2, <3>3 DEF HoldsStep
  <2>3. CASE ast.type_[n] = "equal"
    BY <2>1, <2>3 DEF HoldsStep, AtomsHold, AtomsOf
  <2>4. CASE ast.type_[n] = "not_equal"
    BY <2>1, <2>4 DEF HoldsStep, AtomsHold, AtomsOf
  <2>5. CASE ast.type_[n] = "func"
    <3>1. first[n] \in P  BY <2>5, FormulaFacts
    <3>2. QED BY <2>1, <2>5, <3>1 DEF HoldsStep
  <2>6. ast.type_[n] \in {"and", "equal", "not_equal", "func"}
    <3>1. ast.type_[n] \in Operators \cup {"var", "func"}  BY <2>1, AstFacts
    <3>2. ast.type_[n] # "var"  BY <2>1, FormulaFacts
    <3>3. QED BY <3>1, <3>2 DEF Operators
  <2>7. QED BY <2>2, <2>3, <2>4, <2>5, <2>6
<1>5. RootNode \in S
  <2> HIDE DEF S
  <2>1. QED BY <1>1, <1>3, <1>4, SetInduction
<1>6. RootNode \in FormulaNodes /\ RootNode <= RootNode  BY <1>1, FormulaFacts
<1>7. QED BY <1>5, <1>6 DEF H

\* A formula holds only when its atoms do.
LEMMA AtomsIfHolds ==
  ASSUME IsAst(ast), NEW v, NEW P, NEW first, Holds(v, P, first)[RootNode]
  PROVE  AtomsHold(v, first)
<1> DEFINE H == Holds(v, P, first)
           equal(m) == v[first[Child(m, 1)]] = v[first[Child(m, 2)]]
           atom(m) == /\ ast.type_[m] = "equal" => equal(m)
                      /\ ast.type_[m] = "not_equal" => ~ equal(m)
           S == {k \in Nat : \A n \in FormulaNodes :
                               n <= k /\ H[n] => \A m \in Subtree(n) : atom(m)}
<1>1. /\ RootNode \in Nat /\ AstNodes = 1..RootNode /\ FormulaNodes \subseteq AstNodes
      /\ \A n \in AstNodes : First[n] \in 1..n
  BY AstFacts, FirstFacts DEF FormulaNodes
<1>2. \A n \in AstNodes : H[n] = HoldsStep(H, v, P, first, n)  BY HoldsFacts
<1> HIDE DEF H
<1>3. 0 \in S  BY <1>1
<1>4. ASSUME NEW k \in Nat, k \in S PROVE k + 1 \in S
  <2> SUFFICES ASSUME NEW n \in FormulaNodes, n <= k + 1, H[n], NEW m \in Subtree(n)
               PROVE  atom(m)
    OBVIOUS
  <2>1. n \in AstNodes /\ H[n] = HoldsStep(H, v, P, first, n)  BY <1>1, <1>2
  <2>2. m # n => m \in First[n]..n - 1 /\ m \in Int  BY <1>1, <2>1 DEF Subtree
  <2>3. \A i : IsTerm(i) => atom(i)  BY DEF IsTerm
  <2>4. CASE ast.type_[n] = "and"
    <3>1. /\ Len(ast.children_[n]) = 2
          /\ \A c \in 1..2 : Child(n, c) \in FormulaNodes /\ Child(n, c) < n
      BY <2>1, <2>4, FormulaFacts
    <3>2. \A c \in 1..2 : Child(n, c) <= k
      <4> SUFFICES ASSUME NEW c \in 1..2 PROVE Child(n, c) <= k
        OBVIOUS
      <4> DEFINE d == Child(n, c)
      <4>1. d \in AstNodes /\ d < n  BY <1>1, <3>1
      <4> HIDE DEF d
      <4>2. d <= k  BY <1>1, <2>1, <4>1
      <4>3. QED BY <4>2 DEF d
    <3>3. H[Child(n, 1)] /\ H[Child(n, 2)]  BY <2>1, <2>4 DEF HoldsStep
    <3>4. CASE m = n  BY <2>4, <3>4
    <3>5. CASE m # n
      <4>1. PICK c \in 1..2 : m \in Subtree(Child(n, c))
        BY <2>1, <2>2, <3>1, <3>5, ChildrenCover
      <4>2. H[Child(n, c)]
        <5>1. c = 1 \/ c = 2  OBVIOUS
        <5>2. QED BY <3>3, <5>1
      <4>3. QED BY <1>4, <3>1, <3>2, <4>1, <4>2
    <3>6. QED BY <3>4, <3>5
  <2>5. CASE ast.type_[n] \in {"equal", "not_equal"}
    <3>1. CASE m = n
      <4>1. CASE ast.type_[n] = "equal"  BY <2>1, <3>1, <4>1 DEF HoldsStep
      <4>2. CASE ast.type_[n] = "not_equal"  BY <2>1, <3>1, <4>2 DEF HoldsStep
      <4>3. QED BY <2>5, <4>1, <4>2
    <3>2. CASE m # n  BY <2>1, <2>2, <2>3, <2>5, <3>2, AtomSubtree
    <3>3. QED BY <3>1, <3>2
  <2>6. CASE ast.type_[n] = "func"
    <3>1. IsTerm(n)  BY <2>6 DEF IsTerm
    <3>2. IsTerm(m)  BY <2>1, <3>1, TermSubtree
    <3>3. QED BY <2>3, <3>2
  <2>7. ast.type_[n] \in {"and", "equal", "not_equal", "func"}
    <3>1. ast.type_[n] \in Operators \cup {"var", "func"}  BY <2>1, AstFacts
    <3>2. ast.type_[n] # "var"  BY <2>1, FormulaFacts
    <3>3. QED BY <3>1, <3>2 DEF Operators
  <2>8. QED BY <2>4, <2>5, <2>6, <2>7
<1>5. RootNode \in S
  <2> HIDE DEF S
  <2>1. QED BY <1>1, <1>3, <1>4, SetInduction
<1>6. RootNode \in FormulaNodes /\ RootNode <= RootNode  BY <1>1, FormulaFacts
<1>7. \A m \in Subtree(RootNode) : atom(m)  BY <1>5, <1>6 DEF H
<1>8. Subtree(RootNode) = AstNodes  BY <1>1, FirstFacts DEF Subtree
<1>9. \A m \in AstNodes : atom(m)  BY <1>7, <1>8
<1>10. QED BY <1>9 DEF AtomsHold, AtomsOf

-----------------------------------------------------------------------------
(* Interpretations of the terms and interpretations of the DagNodes.       *)

\* The first occurrences of the terms and those of the predicates.
Terms == {FirstOccurrence[n] : n \in Visited \ PredicateNodes}
Predicates == {FirstOccurrence[n] : n \in PredicateNodes}

LEMMA TermsFacts ==
  ASSUME Complete
  PROVE  /\ Terms \subseteq Visited /\ Predicates \subseteq Visited
         /\ PredicateNodes \subseteq Visited
         /\ \A m \in Visited : Node(FirstOccurrence[m]) = Node(m)
         /\ \A m, n \in Terms : Node(m) = Node(n) => m = n
         /\ \A n \in AstNodes : IsTerm(n) \/ ast.type_[n] \in {"equal", "not_equal"} =>
              \A k \in 1..Len(ast.children_[n]) :
                Child(n, k) \in Visited /\ FirstOccurrence[Child(n, k)] \in Terms
<1> DEFINE F == FirstOccurrence
<1>1. /\ \A n \in Visited : F[n] \in Visited /\ Node(F[n]) = Node(n)
      /\ \A m, n \in Visited : Node(m) = Node(n) <=> F[m] = F[n]
  BY OccurrenceFacts
<1>2. Terms = {F[n] : n \in Visited \ PredicateNodes} /\ Predicates = {F[n] : n \in PredicateNodes}
  BY DEF Terms, Predicates
<1> HIDE DEF F
<1>3. PredicateNodes \subseteq Visited  BY CompleteFacts DEF PredicateNodes, IsTerm
<1>4. Terms \subseteq Visited /\ Predicates \subseteq Visited  BY <1>1, <1>2, <1>3
<1>5. ASSUME NEW m \in Terms, NEW n \in Terms, Node(m) = Node(n) PROVE m = n
  <2>1. PICK i \in Visited : m = F[i]  BY <1>2
  <2>2. PICK j \in Visited : n = F[j]  BY <1>2
  <2>3. Node(i) = Node(m) /\ Node(j) = Node(n)  BY <1>1, <2>1, <2>2
  <2>4. QED BY <1>1, <1>5, <2>1, <2>2, <2>3
<1>6. ASSUME NEW n \in AstNodes, IsTerm(n) \/ ast.type_[n] \in {"equal", "not_equal"},
             NEW k \in 1..Len(ast.children_[n])
      PROVE  Child(n, k) \in Visited /\ F[Child(n, k)] \in Terms
  <2> DEFINE c == Child(n, k)
  <2>1. c \in AstNodes /\ IsTerm(c)  BY <1>6, CompleteFacts, AstFacts
  <2>2. c \notin FormulaNodes  BY <1>6, CompleteFacts, FormulaFacts
  <2> HIDE DEF c
  <2>3. c \in Visited  BY <2>1, CompleteFacts
  <2>4. c \notin PredicateNodes  BY <2>2, CompleteFacts, FormulaFacts
  <2>5. QED BY <1>2, <2>3, <2>4 DEF c
<1>7. QED BY <1>1, <1>3, <1>4, <1>5, <1>6 DEF F

\* v tells terms apart as u does their DagNodes.
Agree(v, u) == \A m, n \in Terms : v[m] = v[n] <=> u[Node(m)] = u[Node(n)]

\* The same function is applied to arguments of equal values.
SameArguments(u, p, q) ==
  /\ Table.args_[p] # << >>
  /\ Table.fn_[p] = Table.fn_[q]
  /\ Len(Table.args_[p]) = Len(Table.args_[q])
  /\ \A k \in DOMAIN Table.args_[p] : u[Table.args_[p][k]] = u[Table.args_[q][k]]

\* The DagNode of a term has its name and the DagNodes of its arguments.
LEMMA NodeFacts ==
  ASSUME Complete, NEW n \in Visited
  PROVE  /\ Node(n) \in DagNodes /\ Table.fn_[Node(n)] = ast.name[n]
         /\ Len(Table.args_[Node(n)]) = Len(ast.children_[n])
         /\ DOMAIN ast.children_[n] = 1..Len(ast.children_[n])
         /\ DOMAIN Table.args_[Node(n)] = 1..Len(ast.children_[n])
         /\ \A k \in 1..Len(ast.children_[n]) :
              Table.args_[Node(n)][k] = Node(FirstOccurrence[Child(n, k)])
         /\ ast.type_[n] = "func" <=> Table.args_[Node(n)] # << >>
<1>1. /\ n \in AstNodes /\ n <= at /\ at \in Int /\ Node(n) \in DagNodes /\ Matches(Node(n), n)
      /\ TableInv /\ IsAst(ast) /\ IsTerm(n)
  BY CompleteFacts DEF Complete
<1>2. Table.fn_[Node(n)] = ast.name[n] /\ Table.args_[Node(n)] = ArgsOf(n)
  BY <1>1, TableFacts DEF Matches, SameSymbol
<1>3. /\ Len(ArgsOf(n)) = Len(ast.children_[n])
      /\ \A k \in 1..Len(ast.children_[n]) : ArgsOf(n)[k] = Node(Child(n, k))
  BY <1>1, ArgsFacts DEF TableInv, NodeTable, Node
<1>4. ast.children_[n] \in Seq(AstNodes)  BY <1>1, AstFacts
<1>5. DOMAIN ast.children_[n] = 1..Len(ast.children_[n]) /\ Len(ast.children_[n]) \in Nat
  BY <1>4
<1>6. DOMAIN ArgsOf(n) = 1..Len(ast.children_[n])  BY <1>5 DEF ArgsOf
<1>7. \A k \in 1..Len(ast.children_[n]) : Node(Child(n, k)) = Node(FirstOccurrence[Child(n, k)])
  BY <1>1, TermsFacts
<1>8. ast.type_[n] = "func" <=> ArgsOf(n) # << >>
  <2>1. ast.type_[n] = "var" => ast.children_[n] = << >>  BY <1>1, AstFacts
  <2>2. ast.type_[n] = "func" => ast.children_[n] # << >>  BY <1>1, AstFacts
  <2>3. ast.type_[n] = "func" <=> Len(ast.children_[n]) # 0  BY <1>1, <1>4, <2>1, <2>2 DEF IsTerm
  <2>4. ArgsOf(n) = [k \in 1..Len(ast.children_[n]) |-> ArgsOf(n)[k]]  BY <1>5, <1>6 DEF ArgsOf
  <2> DEFINE s == ArgsOf(n)  l == Len(ast.children_[n])
  <2>5. s = [k \in 1..l |-> s[k]] /\ l \in Nat  BY <1>5, <2>4
  <2> HIDE DEF s, l
  <2>6. s # << >> <=> l # 0  BY <2>5
  <2>7. QED BY <2>3, <2>6 DEF s, l
<1>9. QED BY <1>1, <1>2, <1>3, <1>5, <1>6, <1>7, <1>8

LEMMA ArgumentsAgree ==
  ASSUME Complete, NEW v, NEW u, Agree(v, u), NEW m \in Visited, NEW n \in Visited
  PROVE  EqualArguments(v, FirstOccurrence, m, n) <=> SameArguments(u, Node(m), Node(n))
<1> DEFINE l == Len(ast.children_[m])
           first(i, k) == FirstOccurrence[Child(i, k)]
<1>1. \A i \in Visited :
        /\ Table.fn_[Node(i)] = ast.name[i] /\ Len(Table.args_[Node(i)]) = Len(ast.children_[i])
        /\ DOMAIN ast.children_[i] = 1..Len(ast.children_[i])
        /\ DOMAIN Table.args_[Node(i)] = 1..Len(ast.children_[i])
        /\ \A k \in 1..Len(ast.children_[i]) : Table.args_[Node(i)][k] = Node(first(i, k))
        /\ ast.type_[i] = "func" <=> Table.args_[Node(i)] # << >>
        /\ i \in AstNodes /\ IsTerm(i)
  BY NodeFacts, CompleteFacts
<1>2. \A i \in Visited : \A k \in 1..Len(ast.children_[i]) : first(i, k) \in Terms
  BY <1>1, TermsFacts
<1>3. EqualArguments(v, FirstOccurrence, m, n) <=>
        /\ ast.type_[m] = "func" /\ ast.type_[n] = "func" /\ ast.name[m] = ast.name[n]
        /\ l = Len(ast.children_[n])
        /\ \A k \in 1..l : v[first(m, k)] = v[first(n, k)]
  BY <1>1 DEF EqualArguments, Child
<1> HIDE DEF first
<1>4. l = Len(ast.children_[n]) =>
        \A k \in 1..l : v[first(m, k)] = v[first(n, k)] <=>
                          u[Table.args_[Node(m)][k]] = u[Table.args_[Node(n)][k]]
  BY <1>1, <1>2 DEF Agree
<1>5. l = Len(ast.children_[n]) => (ast.type_[m] = "func" <=> ast.type_[n] = "func")
  <2>1. \A i \in Visited : ast.type_[i] = "func" <=> Len(ast.children_[i]) # 0
    <3> SUFFICES ASSUME NEW i \in Visited
                 PROVE  ast.type_[i] = "func" <=> Len(ast.children_[i]) # 0
      OBVIOUS
    <3>1. ast.children_[i] \in Seq(AstNodes)  BY <1>1, CompleteFacts, AstFacts
    <3>2. ast.type_[i] = "var" => ast.children_[i] = << >>  BY <1>1, CompleteFacts, AstFacts
    <3>3. ast.type_[i] = "func" => ast.children_[i] # << >>  BY <1>1, CompleteFacts, AstFacts
    <3>4. QED BY <1>1, <3>1, <3>2, <3>3 DEF IsTerm
  <2>2. QED BY <2>1
<1>6. QED BY <1>1, <1>3, <1>4, <1>5 DEF SameArguments

\* A constraint is met by all pairs of the list iff it is by all atoms.
LEMMA ListedAtoms ==
  ASSUME Complete, NEW t \in {"equal", "not_equal"}, NEW constraints, NEW X,
         constraints \in Seq(X), Lists(constraints, AtomsOf(t)), AreArgs(constraints, AtomsOf(t)),
         NEW good
  PROVE  (\A k \in DOMAIN constraints : <<constraints[k][1], constraints[k][2]>> \in good) <=>
         \A n \in AtomsOf(t) : <<Node(FirstOccurrence[Child(n, 1)]),
                                 Node(FirstOccurrence[Child(n, 2)])>> \in good
<1> DEFINE A == AtomsOf(t)
           rank(n) == Cardinality({m \in A : m <= n})
<1>1. /\ IsAst(ast) /\ RootNode \in Nat /\ AstNodes = 1..RootNode /\ at \in Int /\ TableInv
      /\ at = RootNode + 1
  BY CompleteFacts DEF Complete
<1>2. \A n \in A : n \in AstNodes /\ ast.type_[n] = t /\ n <= at  BY <1>1 DEF AtomsOf
<1>3. ASSUME NEW n \in A
      PROVE  /\ ArgsOf(n)[1] = Node(FirstOccurrence[Child(n, 1)])
             /\ ArgsOf(n)[2] = Node(FirstOccurrence[Child(n, 2)])
  <2>1. n \in AstNodes /\ ast.type_[n] \in {"equal", "not_equal"} /\ n <= at
    BY <1>2
  <2>2. Len(ast.children_[n]) = 2  BY <1>1, <2>1, AstFacts
  <2>3. \A k \in 1..2 : ArgsOf(n)[k] = Node(Child(n, k))
    BY <1>1, <2>1, <2>2, ArgsFacts DEF TableInv, NodeTable, Node
  <2>4. \A k \in 1..2 : Node(FirstOccurrence[Child(n, k)]) = Node(Child(n, k))
    BY <2>1, <2>2, TermsFacts
  <2>5. QED BY <2>3, <2>4
<1>4. /\ DOMAIN constraints = 1..Len(constraints) /\ Len(constraints) \in Nat
      /\ Len(constraints) = Cardinality(A)
  BY DEF Lists
<1>5. ASSUME NEW n \in A PROVE rank(n) \in 1..Len(constraints) /\ constraints[rank(n)] = ArgsOf(n)
  <2>1. IsFiniteSet(AstNodes)  BY <1>1, FS_Interval
  <2>2. A \subseteq AstNodes  BY <1>2
  <2> DEFINE B == {m \in A : m <= n}
  <2>3. B \subseteq A /\ n \in B  BY <1>1, <1>2
  <2>4. constraints[Cardinality(B)] = ArgsOf(n)  BY DEF Lists
  <2> HIDE DEF A, B
  <2>5. IsFiniteSet(A)  BY <2>1, <2>2, FS_Subset
  <2>6. IsFiniteSet(B) /\ Cardinality(B) <= Cardinality(A)  BY <2>3, <2>5, FS_Subset
  <2>7. Cardinality(B) \in Nat /\ Cardinality(A) \in Nat  BY <2>5, <2>6, FS_CardinalityType
  <2>8. Cardinality(B) # 0  BY <2>3, <2>6, FS_EmptySet
  <2>9. Cardinality(B) \in 1..Len(constraints)  BY <1>4, <2>6, <2>7, <2>8
  <2>10. QED BY <2>4, <2>9 DEF B, A
<1>6. \A k \in 1..Len(constraints) : \E n \in A : constraints[k] = ArgsOf(n)
  BY DEF AreArgs
<1> HIDE DEF A, rank
<1>7. (\A k \in 1..Len(constraints) : <<constraints[k][1], constraints[k][2]>> \in good) <=>
      \A n \in A : <<ArgsOf(n)[1], ArgsOf(n)[2]>> \in good
  <2>1. ASSUME \A k \in 1..Len(constraints) : <<constraints[k][1], constraints[k][2]>> \in good,
               NEW n \in A
        PROVE  <<ArgsOf(n)[1], ArgsOf(n)[2]>> \in good
    BY <1>5, <2>1
  <2>2. ASSUME \A n \in A : <<ArgsOf(n)[1], ArgsOf(n)[2]>> \in good,
               NEW k \in 1..Len(constraints)
        PROVE  <<constraints[k][1], constraints[k][2]>> \in good
    BY <1>6, <2>2
  <2>3. QED BY <2>1, <2>2
<1>8. QED BY <1>3, <1>4, <1>7 DEF A

LEMMA AtomsAgree ==
  ASSUME Complete, GatherInv, phase = "built", NEW v, NEW u, Agree(v, u)
  PROVE  AtomsHold(v, FirstOccurrence) <=>
           Closure!RespectsEqualities(Table, u) /\ Closure!RespectsInequalities(Table, u)
<1> DEFINE first(n, k) == FirstOccurrence[Child(n, k)]
           same == {p \in DagNodes \X DagNodes : u[p[1]] = u[p[2]]}
           different == {p \in DagNodes \X DagNodes : u[p[1]] # u[p[2]]}
           eq == sub_formulae_equality_
           neq == sub_formulae_inequality_
<1>1. /\ Table.equality_ = eq /\ Table.inequality_ = neq
      /\ eq \in Seq(DagNodes \X DagNodes) /\ neq \in Seq(DagNodes \X DagNodes)
      /\ Lists(eq, AtomsOf("equal")) /\ AreArgs(eq, AtomsOf("equal"))
      /\ Lists(neq, AtomsOf("not_equal")) /\ AreArgs(neq, AtomsOf("not_equal"))
  BY TableFacts, BuiltFacts DEF Complete, GatherInv
<1>2. \A n \in AtomsOf("equal") \cup AtomsOf("not_equal") : \A k \in 1..2 :
        first(n, k) \in Terms /\ Node(first(n, k)) \in DagNodes
  <2> SUFFICES ASSUME NEW n \in AtomsOf("equal") \cup AtomsOf("not_equal"), NEW k \in 1..2
               PROVE  first(n, k) \in Terms /\ Node(first(n, k)) \in DagNodes
    OBVIOUS
  <2>1. n \in AstNodes /\ ast.type_[n] \in {"equal", "not_equal"}  BY DEF AtomsOf
  <2>2. Len(ast.children_[n]) = 2  BY <2>1, CompleteFacts, AstFacts
  <2>3. first(n, k) \in Terms  BY <2>1, <2>2, TermsFacts
  <2> HIDE DEF first
  <2>4. QED BY <2>3, TermsFacts, CompleteFacts
<1>3. \A k \in DOMAIN eq : eq[k][1] \in DagNodes /\ eq[k][2] \in DagNodes
  <2> DEFINE X == DagNodes \X DagNodes
  <2>1. \A x \in X : x[1] \in DagNodes /\ x[2] \in DagNodes  OBVIOUS
  <2>2. \A k \in DOMAIN eq : eq[k] \in X
    <3> HIDE DEF X
    <3>1. eq \in Seq(X)  BY <1>1 DEF X
    <3>2. QED BY <3>1
  <2>3. QED BY <2>1, <2>2
<1>4. \A k \in DOMAIN neq : neq[k][1] \in DagNodes /\ neq[k][2] \in DagNodes
  <2> DEFINE X == DagNodes \X DagNodes
  <2>1. \A x \in X : x[1] \in DagNodes /\ x[2] \in DagNodes  OBVIOUS
  <2>2. \A k \in DOMAIN neq : neq[k] \in X
    <3> HIDE DEF X
    <3>1. neq \in Seq(X)  BY <1>1 DEF X
    <3>2. QED BY <3>1
  <2>3. QED BY <2>1, <2>2
<1>5. \A p, q \in DagNodes : /\ <<p, q>> \in same <=> u[p] = u[q]
                             /\ <<p, q>> \in different <=> u[p] # u[q]
  OBVIOUS
<1> HIDE DEF same, different, eq, neq
<1>6. (\A k \in DOMAIN eq : <<eq[k][1], eq[k][2]>> \in same) <=>
      \A n \in AtomsOf("equal") : <<Node(first(n, 1)), Node(first(n, 2))>> \in same
  BY <1>1, ListedAtoms
<1>7. (\A k \in DOMAIN neq : <<neq[k][1], neq[k][2]>> \in different) <=>
      \A n \in AtomsOf("not_equal") : <<Node(first(n, 1)), Node(first(n, 2))>> \in different
  BY <1>1, ListedAtoms
<1> HIDE DEF first
<1>8. Closure!RespectsEqualities(Table, u) <=>
        \A n \in AtomsOf("equal") : v[first(n, 1)] = v[first(n, 2)]
  <2>1. \A n \in AtomsOf("equal") :
          <<Node(first(n, 1)), Node(first(n, 2))>> \in same <=> v[first(n, 1)] = v[first(n, 2)]
    BY <1>2, <1>5 DEF Agree
  <2>2. \A k \in DOMAIN eq : <<eq[k][1], eq[k][2]>> \in same <=> u[eq[k][1]] = u[eq[k][2]]
    BY <1>3, <1>5
  <2>3. QED BY <1>1, <1>6, <2>1, <2>2 DEF Closure!RespectsEqualities
<1>9. Closure!RespectsInequalities(Table, u) <=>
        \A n \in AtomsOf("not_equal") : v[first(n, 1)] # v[first(n, 2)]
  <2>1. \A n \in AtomsOf("not_equal") :
          <<Node(first(n, 1)), Node(first(n, 2))>> \in different <=> v[first(n, 1)] # v[first(n, 2)]
    BY <1>2, <1>5 DEF Agree
  <2>2. \A k \in DOMAIN neq :
          <<neq[k][1], neq[k][2]>> \in different <=> u[neq[k][1]] # u[neq[k][2]]
    BY <1>4, <1>5
  <2>3. QED BY <1>1, <1>7, <2>1, <2>2 DEF Closure!RespectsInequalities
<1>10. QED BY <1>8, <1>9 DEF AtomsHold, first

\* A finite set needs no more values than it has members.
LEMMA Ranks ==
  ASSUME NEW S, IsFiniteSet(S), NEW f \in [S -> Nat]
  PROVE  \E v \in [S -> 1..Cardinality(S)] : \A x, y \in S : v[x] = v[y] <=> f[x] = f[y]
<1> DEFINE T == {f[x] : x \in S}
           below(i) == {j \in T : j <= i}
           v == [x \in S |-> Cardinality(below(f[x]))]
<1>1. T \subseteq Nat /\ \A x \in S : f[x] \in T  OBVIOUS
<1>2. IsFiniteSet(T) /\ Cardinality(T) <= Cardinality(S)
  <2>1. f \in Surjection(S, T)  BY DEF Surjection
  <2> HIDE DEF T
  <2>2. QED BY <2>1, FS_Surjection
<1>3. ASSUME NEW i \in T PROVE /\ IsFiniteSet(below(i)) /\ Cardinality(below(i)) \in 1..Cardinality(S)
  <2>1. below(i) \subseteq T /\ i \in below(i)  BY <1>1
  <2> HIDE DEF below, T
  <2>2. IsFiniteSet(below(i)) /\ Cardinality(below(i)) <= Cardinality(T)  BY <1>2, <2>1, FS_Subset
  <2>3. /\ Cardinality(below(i)) \in Nat /\ Cardinality(T) \in Nat /\ Cardinality(S) \in Nat
        /\ Cardinality(below(i)) # 0
    BY <1>2, <2>1, <2>2, FS_CardinalityType, FS_EmptySet
  <2>4. QED BY <1>2, <2>2, <2>3
<1>4. ASSUME NEW i \in T, NEW j \in T, i < j PROVE Cardinality(below(i)) # Cardinality(below(j))
  <2>1. below(i) \subseteq below(j) /\ j \in below(j) /\ j \notin below(i)  BY <1>1, <1>4
  <2> HIDE DEF below, T
  <2>2. QED BY <1>3, <2>1, FS_Subset
<1> HIDE DEF T, below
<1>5. \A x, y \in S : v[x] = v[y] <=> f[x] = f[y]
  <2> SUFFICES ASSUME NEW x \in S, NEW y \in S, f[x] # f[y] PROVE v[x] # v[y]
    OBVIOUS
  <2>1. f[x] < f[y] \/ f[y] < f[x]  BY <1>1
  <2>2. QED BY <1>1, <1>4, <2>1
<1>6. v \in [S -> 1..Cardinality(S)]  BY <1>1, <1>3
<1>7. QED BY <1>5, <1>6

\* Values of the terms extend to values of all DagNodes, those of predicates
\* included, which respect every application of a function.
LEMMA Extends ==
  ASSUME Complete, NEW v \in [Terms -> 1..Cardinality(Terms)],
         \A m, n \in Terms : EqualArguments(v, FirstOccurrence, m, n) => v[m] = v[n]
  PROVE  \E u \in [DagNodes -> DagNodes] : Agree(v, u) /\ Closure!RespectsFunctions(Table, u)
<1> DEFINE TermNodes == {Node(m) : m \in Terms}
           value(k) == v[CHOOSE m \in Terms : Node(m) = k]
           g == [k \in DagNodes |-> IF k \in TermNodes THEN value(k) ELSE 1]
           alike(k) == {m \in Terms : SameArguments(g, k, Node(m))}
           u == [k \in DagNodes |-> IF k \in TermNodes THEN value(k)
                                    ELSE IF alike(k) # {} THEN v[CHOOSE m \in alike(k) : TRUE]
                                    ELSE 1]
<1>1. /\ TableInv /\ Len(sub_formulae_) \in Nat /\ IsFiniteSet(AstNodes)
      /\ Visited \subseteq AstNodes /\ Terms \subseteq Visited
      /\ \A m \in Terms : Node(m) \in DagNodes
      /\ \A m, n \in Terms : Node(m) = Node(n) => m = n
  <2>1. IsFiniteSet(AstNodes)  BY CompleteFacts, FS_Interval
  <2>2. QED BY <2>1, CompleteFacts, TermsFacts DEF Complete, TableInv, NodeTable
<1>2. 1..Cardinality(Terms) \subseteq DagNodes
  <2> DEFINE f == [m \in Terms |-> Node(m)]
  <2>1. f \in Injection(Terms, DagNodes)  BY <1>1 DEF Injection, IsInjective
  <2>2. IsFiniteSet(DagNodes) /\ Cardinality(DagNodes) = Len(sub_formulae_)
    <3>1. /\ IsFiniteSet(1..Len(sub_formulae_))
          /\ Cardinality(1..Len(sub_formulae_)) =
               IF 1 > Len(sub_formulae_) THEN 0 ELSE Len(sub_formulae_) - 1 + 1
      BY <1>1, FS_Interval
    <3>2. QED BY <1>1, <3>1 DEF DagNodes
  <2> HIDE DEF f
  <2>3. IsFiniteSet(Terms) /\ Cardinality(Terms) <= Len(sub_formulae_)
    BY <2>1, <2>2, FS_Injection
  <2>4. Cardinality(Terms) \in Nat  BY <2>3, FS_CardinalityType
  <2>5. QED BY <1>1, <2>3, <2>4 DEF DagNodes
<1>3. /\ \A m \in Terms : Node(m) \in TermNodes /\ value(Node(m)) = v[m]
      /\ \A k \in TermNodes : \E m \in Terms : k = Node(m)
  BY <1>1
<1>4. \A p \in DagNodes : /\ DOMAIN Table.args_[p] = 1..Len(Table.args_[p])
                          /\ \A k \in DOMAIN Table.args_[p] : Table.args_[p][k] \in TermNodes
  <2> SUFFICES ASSUME NEW p \in DagNodes
               PROVE  /\ DOMAIN Table.args_[p] = 1..Len(Table.args_[p])
                      /\ \A k \in DOMAIN Table.args_[p] : Table.args_[p][k] \in TermNodes
    OBVIOUS
  <2>1. PICK n \in Visited : Node(n) = p  BY <1>1, CreatedFacts DEF Node
  <2>2. n \in AstNodes /\ IsTerm(n)  BY CompleteFacts
  <2>3. \A k \in 1..Len(ast.children_[n]) : FirstOccurrence[Child(n, k)] \in Terms
    BY <2>2, TermsFacts
  <2>4. /\ Len(Table.args_[p]) = Len(ast.children_[n])
        /\ DOMAIN Table.args_[p] = 1..Len(ast.children_[n])
        /\ \A k \in 1..Len(ast.children_[n]) :
             Table.args_[p][k] = Node(FirstOccurrence[Child(n, k)])
    BY <2>1, NodeFacts
  <2> HIDE DEF TermNodes
  <2>5. QED BY <1>3, <2>3, <2>4
<1>5. /\ \A k \in DagNodes : k \in TermNodes => g[k] = value(k) /\ u[k] = value(k)
      /\ \A k \in DagNodes : k \notin TermNodes =>
           u[k] = IF alike(k) # {} THEN v[CHOOSE m \in alike(k) : TRUE] ELSE 1
  OBVIOUS
<1>6. \A k \in DagNodes : \A m \in Terms : m \in alike(k) <=> SameArguments(g, k, Node(m))
  OBVIOUS
<1>7. \A k : alike(k) \subseteq Terms  OBVIOUS
<1>8. u \in [DagNodes -> DagNodes]
  <2> SUFFICES ASSUME NEW k \in DagNodes PROVE u[k] \in DagNodes
    OBVIOUS
  <2>1. 1 \in DagNodes  BY <1>1 DEF DagNodes
  <2>2. \A m \in Terms : v[m] \in DagNodes  BY <1>2
  <2> HIDE DEF u, alike, g, TermNodes, value
  <2>3. CASE k \in TermNodes  BY <1>3, <1>5, <2>2, <2>3
  <2>4. CASE k \notin TermNodes  BY <1>5, <1>7, <2>1, <2>2, <2>4
  <2>5. QED BY <2>3, <2>4
<1> HIDE DEF g, u, alike, value, TermNodes
<1>9. /\ \A m \in Terms : g[Node(m)] = v[m] /\ u[Node(m)] = v[m]
      /\ Agree(v, g) /\ Agree(v, u)
  <2>1. \A m \in Terms : g[Node(m)] = v[m] /\ u[Node(m)] = v[m]  BY <1>1, <1>3, <1>5
  <2>2. QED BY <2>1 DEF Agree
<1>10. \A p, q \in DagNodes : SameArguments(u, p, q) => SameArguments(g, p, q)
  <2> SUFFICES ASSUME NEW p \in DagNodes, NEW q \in DagNodes, SameArguments(u, p, q)
               PROVE  SameArguments(g, p, q)
    OBVIOUS
  <2>1. \A k \in TermNodes : u[k] = g[k]  BY <1>3, <1>9
  <2>2. QED BY <1>4, <2>1 DEF SameArguments
<1>11. \A p, q \in DagNodes : SameArguments(g, p, q) =>
         /\ SameArguments(g, q, p)
         /\ SameArguments(g, p, p)
  <2> SUFFICES ASSUME NEW p \in DagNodes, NEW q \in DagNodes, SameArguments(g, p, q)
               PROVE  SameArguments(g, q, p) /\ SameArguments(g, p, p)
    OBVIOUS
  <2>1. DOMAIN Table.args_[p] = DOMAIN Table.args_[q]  BY <1>4 DEF SameArguments
  <2>2. Table.args_[q] # << >>
    <3>1. ASSUME Table.args_[q] = << >> PROVE FALSE
      <4>1. Len(Table.args_[p]) = 0  BY <3>1 DEF SameArguments
      <4>2. DOMAIN Table.args_[p] = {}  BY <1>4, <4>1
      <4>3. PICK n \in Visited : Node(n) = p  BY <1>1, CreatedFacts DEF Node
      <4>4. ast.type_[n] = "func"  BY <4>3, NodeFacts DEF SameArguments
      <4>5. ast.children_[n] \in Seq(AstNodes) /\ ast.children_[n] # << >>
        BY <4>4, CompleteFacts, AstFacts
      <4>6. Len(ast.children_[n]) = 0  BY <4>1, <4>3, NodeFacts
      <4>7. QED BY <4>5, <4>6
    <3>2. QED BY <3>1
  <2>3. QED BY <2>1, <2>2 DEF SameArguments
<1>12. \A p, q, r \in DagNodes : SameArguments(g, p, q) /\ SameArguments(g, q, r) =>
         SameArguments(g, p, r)
  <2> SUFFICES ASSUME NEW p \in DagNodes, NEW q \in DagNodes, NEW r \in DagNodes,
                      SameArguments(g, p, q), SameArguments(g, q, r)
               PROVE  SameArguments(g, p, r)
    OBVIOUS
  <2>1. DOMAIN Table.args_[p] = DOMAIN Table.args_[q]  BY <1>4 DEF SameArguments
  <2>2. QED BY <2>1 DEF SameArguments
<1>13. \A m, n \in Terms : SameArguments(g, Node(m), Node(n)) => v[m] = v[n]
  BY <1>1, <1>9, ArgumentsAgree
<1>14. ASSUME NEW p \in DagNodes, NEW m \in Terms, SameArguments(g, p, Node(m))
       PROVE  u[p] = v[m]
  <2>1. CASE p \in TermNodes
    <3>1. PICK i \in Terms : p = Node(i)  BY <1>3, <2>1
    <3>2. QED BY <1>9, <1>13, <1>14, <3>1
  <2>2. CASE p \notin TermNodes
    <3>1. m \in alike(p)  BY <1>6, <1>14
    <3> DEFINE i == CHOOSE j \in alike(p) : TRUE
    <3>2. i \in alike(p) /\ u[p] = v[i]  BY <1>5, <2>2, <3>1
    <3> HIDE DEF i
    <3>3. i \in Terms /\ SameArguments(g, p, Node(i))  BY <1>6, <1>7, <3>2
    <3>4. SameArguments(g, Node(i), Node(m))  BY <1>1, <1>11, <1>12, <1>14, <3>3
    <3>5. QED BY <1>13, <3>2, <3>3, <3>4
  <2>3. QED BY <2>1, <2>2
<1>15. ASSUME NEW p \in DagNodes, NEW q \in DagNodes, SameArguments(u, p, q)
       PROVE  u[p] = u[q]
  <2>1. SameArguments(g, p, q) /\ SameArguments(g, q, p)  BY <1>10, <1>11, <1>15
  <2>2. CASE \E m \in Terms : SameArguments(g, p, Node(m))
    <3>1. PICK m \in Terms : SameArguments(g, p, Node(m))  BY <2>2
    <3>2. SameArguments(g, q, Node(m))  BY <1>1, <1>12, <2>1, <3>1
    <3>3. QED BY <1>14, <3>1, <3>2
  <2>3. CASE ~ \E m \in Terms : SameArguments(g, p, Node(m))
    <3>1. ~ \E m \in Terms : SameArguments(g, q, Node(m))  BY <1>1, <1>12, <2>1, <2>3
    <3>2. alike(p) = {} /\ alike(q) = {}  BY <1>6, <1>7, <2>3, <3>1
    <3>3. SameArguments(g, p, p) /\ SameArguments(g, q, q)  BY <1>11, <2>1
    <3>4. p \notin TermNodes /\ q \notin TermNodes  BY <1>3, <2>3, <3>1, <3>3
    <3>5. QED BY <1>5, <3>2, <3>4
  <2>4. QED BY <2>2, <2>3
<1>16. Closure!RespectsFunctions(Table, u)
  <2>1. Closure!NodesOf(Table) = DagNodes
    BY <1>1, TableFacts DEF CC!NodesOf, Closure!NodesOf
  <2>2. QED BY <1>15, <2>1 DEF Closure!RespectsFunctions, SameArguments
<1>17. QED BY <1>8, <1>9, <1>16

\* A formula has a model iff the table handed over does.
LEMMA TableMeansFormula ==
  ASSUME Complete, GatherInv, phase = "built"
  PROVE  Satisfiable <=> \E u \in [DagNodes -> DagNodes] :
                           /\ Closure!RespectsEqualities(Table, u)
                           /\ Closure!RespectsInequalities(Table, u)
                           /\ Closure!RespectsFunctions(Table, u)
<1> DEFINE F == FirstOccurrence
           Respects(u) == /\ Closure!RespectsEqualities(Table, u)
                          /\ Closure!RespectsInequalities(Table, u)
                          /\ Closure!RespectsFunctions(Table, u)
           Model(v, P) ==
             /\ \A m, n \in Terms : EqualArguments(v, F, m, n) => v[m] = v[n]
             /\ \A m, n \in Predicates : EqualArguments(v, F, m, n) => (m \in P <=> n \in P)
             /\ Holds(v, P, F)[RootNode]
<1>1. Satisfiable <=> \E v \in [Terms -> 1..Cardinality(Terms)], P \in SUBSET Predicates : Model(v, P)
  <2>1. DOMAIN FirstOccurrence = Visited  BY OccurrenceFacts
  <2>2. QED BY <2>1, Zenon DEF Satisfiable, Terms, Predicates
<1>2. /\ IsAst(ast) /\ TableInv /\ Terms \subseteq Visited
      /\ \A n \in Visited : n \in AstNodes /\ Node(n) \in DagNodes
  BY CompleteFacts, TermsFacts DEF Complete
<1> HIDE DEF F
<1>3. ASSUME NEW v \in [Terms -> 1..Cardinality(Terms)], NEW P \in SUBSET Predicates, Model(v, P)
      PROVE  \E u \in [DagNodes -> DagNodes] : Respects(u)
  <2>1. PICK u \in [DagNodes -> DagNodes] : Agree(v, u) /\ Closure!RespectsFunctions(Table, u)
    BY <1>3, Extends DEF F
  <2>2. AtomsHold(v, F)  BY <1>2, <1>3, AtomsIfHolds DEF F
  <2>3. Respects(u)  BY <2>1, <2>2, AtomsAgree DEF F
  <2>4. QED BY <2>3
<1>4. ASSUME NEW u \in [DagNodes -> DagNodes], Respects(u)
      PROVE  \E v \in [Terms -> 1..Cardinality(Terms)] : Model(v, Predicates)
  <2> DEFINE f == [m \in Terms |-> u[Node(m)]]
  <2>1. f \in [Terms -> Nat] /\ \A m \in Terms : f[m] = u[Node(m)]
    <3>1. DagNodes \subseteq Nat  BY DEF DagNodes
    <3>2. QED BY <1>2, <3>1
  <2>2. IsFiniteSet(Terms)
    <3>1. IsFiniteSet(AstNodes)  BY CompleteFacts, FS_Interval
    <3>2. Terms \subseteq AstNodes  BY <1>2
    <3>3. QED BY <3>1, <3>2, FS_Subset
  <2> HIDE DEF f
  <2>3. PICK v \in [Terms -> 1..Cardinality(Terms)] :
          \A m, n \in Terms : v[m] = v[n] <=> f[m] = f[n]
    BY <2>1, <2>2, Ranks
  <2>4. Agree(v, u)  BY <2>1, <2>3 DEF Agree
  <2>5. \A m, n \in Terms : EqualArguments(v, F, m, n) => v[m] = v[n]
    <3> SUFFICES ASSUME NEW m \in Terms, NEW n \in Terms, EqualArguments(v, F, m, n)
                 PROVE  v[m] = v[n]
      OBVIOUS
    <3>1. SameArguments(u, Node(m), Node(n))  BY <1>2, <2>4, ArgumentsAgree DEF F
    <3>2. Closure!NodesOf(Table) = DagNodes
      BY <1>2, TableFacts DEF CC!NodesOf, Closure!NodesOf
    <3>3. u[Node(m)] = u[Node(n)]
      BY <1>2, <1>4, <3>1, <3>2 DEF Closure!RespectsFunctions, SameArguments
    <3>4. QED BY <2>4, <3>3 DEF Agree
  <2>6. AtomsHold(v, F)  BY <1>4, <2>4, AtomsAgree DEF F
  <2>7. \A n \in PredicateNodes : F[n] \in Predicates  BY DEF Predicates, F
  <2>8. Holds(v, Predicates, F)[RootNode]  BY <1>2, <2>6, <2>7, HoldsIfAtoms
  <2>9. QED BY <2>5, <2>8
<1> HIDE DEF Respects
<1>5. QED BY <1>1, <1>3, <1>4 DEF Respects

\* What main prints of a formula is right, whatever the
\* formula: SAT iff some interpretation of its terms and predicates makes it
\* true.
THEOREM PrintsRightVerdict == SolverSpec => []PrintsVerdict
<1>1. TableInv /\ GatherInv /\ DagInv => PrintsVerdict
  <2> SUFFICES ASSUME TableInv, GatherInv, DagInv, verdict # "none"
               PROVE  verdict = "SAT" <=> Satisfiable
    BY DEF PrintsVerdict
  <2>1. phase = "built" /\ dag = Table /\ Closure!CCInv  BY DEF DagInv
  <2>2. Complete  BY <2>1 DEF TableInv, Complete
  <2>3. Closure!VerdictCorrect  BY <2>1, Closure!VerdictFromInv
  <2>4. Closure!Nodes = DagNodes
    BY <2>1, TableFacts DEF CC!NodesOf, Closure!NodesOf, Closure!Nodes
  <2>5. verdict = "SAT" <=> \E u \in [DagNodes -> DagNodes] :
                              /\ Closure!RespectsEqualities(Table, u)
                              /\ Closure!RespectsInequalities(Table, u)
                              /\ Closure!RespectsFunctions(Table, u)
    BY <2>1, <2>3, <2>4 DEF Closure!VerdictCorrect
  <2>6. QED BY <2>1, <2>2, <2>5, TableMeansFormula
<1>2. QED BY <1>1, SolverInvariant, PTL
=============================================================================

-------------------------- MODULE DagBuilderProofs --------------------------
(***************************************************************************)
(* Proofs about DagBuilder for every set of syntax trees.                   *)
(***************************************************************************)
EXTENDS DagBuilder, Recursion, FiniteSetTheorems

-----------------------------------------------------------------------------
(* The syntax tree.                                                        *)

Child(n, k) == ast.children_[n][k]

\* What the grammar guarantees of a tree.
LEMMA AstFacts ==
  ASSUME IsAst(ast)
  PROVE  /\ Len(ast.type_) \in Nat /\ RootNode \in Nat
         /\ AstNodes = 1..RootNode /\ RootNode \in AstNodes
         /\ \A n \in AstNodes : /\ ast.type_[n] \in Operators \cup {"var", "func"}
                                /\ ast.children_[n] \in Seq(AstNodes)
         /\ \A n \in AstNodes : \A k \in 1..Len(ast.children_[n]) :
              /\ Child(n, k) \in AstNodes
              /\ Child(n, k) < n
         /\ \A n \in AstNodes : IsTerm(n) \/ ast.type_[n] \in {"equal", "not_equal"} =>
              \A k \in 1..Len(ast.children_[n]) : IsTerm(Child(n, k))
         /\ \A n \in AstNodes : ast.type_[n] = "var" => ast.children_[n] = << >>
         /\ \A n \in AstNodes : ast.type_[n] = "func" => ast.children_[n] # << >>
         /\ \A n \in AstNodes : ast.type_[n] \in {"equal", "not_equal"} =>
              Len(ast.children_[n]) = 2
<1> DEFINE N == 1..Len(ast.type_)
           Terms == {n \in N : ast.type_[n] \in {"var", "func"}}
           Formulas == {n \in N : ast.type_[n] # "var"}
           Children(n) == {ast.children_[n][k] : k \in DOMAIN ast.children_[n]}
<1>1. /\ ast.type_ \in Seq(Operators \cup {"var", "func"})
      /\ ast.children_ \in [N -> Seq(N)]
      /\ Len(ast.type_) \in Formulas
      /\ \A n \in N : \A c \in Children(n) : c < n
      /\ \A n \in N :
           CASE ast.type_[n] = "var" -> Len(ast.children_[n]) = 0
             [] ast.type_[n] = "func" -> Len(ast.children_[n]) > 0 /\ Children(n) \subseteq Terms
             [] ast.type_[n] = "and" -> Len(ast.children_[n]) = 2 /\ Children(n) \subseteq Formulas
             [] OTHER -> Len(ast.children_[n]) = 2 /\ Children(n) \subseteq Terms
  BY Zenon DEF IsAst
<1>2. Len(ast.type_) \in Nat /\ RootNode \in Nat /\ N = AstNodes /\ AstNodes = 1..RootNode
      /\ RootNode \in AstNodes
  BY <1>1 DEF RootNode, AstNodes
<1>3. \A n \in N : ast.type_[n] \in Operators \cup {"var", "func"} /\ ast.children_[n] \in Seq(N)
  BY <1>1
<1>4. ASSUME NEW n \in N, NEW k \in 1..Len(ast.children_[n])
      PROVE  Child(n, k) \in N /\ Child(n, k) \in Children(n)
  <2>1. ast.children_[n] \in Seq(N)  BY <1>3
  <2>2. k \in DOMAIN ast.children_[n]
    <3> HIDE DEF N, Children
    <3>1. QED BY <1>4, <2>1
  <2>3. ast.children_[n][k] \in N
    <3> HIDE DEF N, Children
    <3>1. QED BY <2>1, <2>2
  <2>4. ast.children_[n][k] \in Children(n)  BY <2>2
  <2>5. QED BY <2>3, <2>4 DEF Child
<1>5. ASSUME NEW n \in N, ast.type_[n] \in {"var", "func", "equal", "not_equal"}
      PROVE  /\ ast.type_[n] = "var" => Len(ast.children_[n]) = 0
             /\ ast.type_[n] = "func" => Len(ast.children_[n]) > 0
             /\ ast.type_[n] \in {"equal", "not_equal"} => Len(ast.children_[n]) = 2
             /\ Len(ast.children_[n]) = 0 \/ Children(n) \subseteq Terms
  <2> HIDE DEF N, Terms, Formulas, Children
  <2>1. CASE ast.type_[n] = "var"  BY <1>1, <2>1
  <2>2. CASE ast.type_[n] = "func"  BY <1>1, <2>2
  <2>3. CASE ast.type_[n] \in {"equal", "not_equal"}  BY <1>1, <2>3
  <2>4. QED BY <1>5, <2>1, <2>2, <2>3
<1>6. \A n \in N : ast.type_[n] = "var" => ast.children_[n] = << >>  BY <1>3, <1>5
<1>7. \A n \in N : ast.type_[n] = "func" => ast.children_[n] # << >>  BY <1>3, <1>5
<1>8. ASSUME NEW n \in N, IsTerm(n) \/ ast.type_[n] \in {"equal", "not_equal"},
             NEW k \in 1..Len(ast.children_[n])
      PROVE  IsTerm(Child(n, k))
  <2>1. Children(n) \subseteq Terms  BY <1>3, <1>5, <1>8 DEF IsTerm
  <2>2. QED BY <1>4, <1>8, <2>1 DEF IsTerm
<1> HIDE DEF Terms, Formulas
<1>9. QED BY <1>1, <1>2, <1>3, <1>4, <1>5, <1>6, <1>7, <1>8

\* The first node below n, given the first nodes below smaller ones.
FirstStep(F, n) == IF ast.children_[n] = << >> THEN n ELSE F[ast.children_[n][1]]

\* The recursion to the first node below is well-founded.
LEMMA FirstExists ==
  ASSUME IsAst(ast)
  PROVE  \E F : F = [n \in AstNodes |-> FirstStep(F, n)]
<1> DEFINE Solves(F, k) == \A n \in AstNodes : n <= k => F[n] = FirstStep(F, n)
           S == {k \in Nat : \E F : Solves(F, k)}
<1>1. /\ RootNode \in Nat /\ AstNodes = 1..RootNode
      /\ \A n \in AstNodes : ast.children_[n] \in Seq(AstNodes)
      /\ \A n \in AstNodes : \A k \in 1..Len(ast.children_[n]) :
           Child(n, k) \in AstNodes /\ Child(n, k) < n
  BY AstFacts
<1>2. 0 \in S
  <2>1. Solves(<< >>, 0)  BY <1>1
  <2>2. QED BY <2>1
<1>3. ASSUME NEW k \in Nat, k \in S PROVE k + 1 \in S
  <2>1. PICK F : Solves(F, k)  BY <1>3
  <2> DEFINE G == [n \in AstNodes |-> FirstStep(F, n)]
  <2>2. \A n \in AstNodes : n <= k => G[n] = F[n]  BY <2>1
  <2>3. ASSUME NEW n \in AstNodes, n <= k + 1 PROVE G[n] = FirstStep(G, n)
    <3>1. G[n] = FirstStep(F, n)  OBVIOUS
    <3> HIDE DEF G
    <3>2. CASE ast.children_[n] = << >>  BY <3>1, <3>2 DEF FirstStep
    <3>3. CASE ast.children_[n] # << >>
      <4>1. 1 \in 1..Len(ast.children_[n])  BY <1>1, <3>3
      <4>2. ast.children_[n][1] \in AstNodes /\ ast.children_[n][1] < n
        BY <1>1, <4>1 DEF Child
      <4>3. ast.children_[n][1] <= k  BY <1>1, <2>3, <4>2
      <4>4. QED BY <2>2, <3>1, <3>3, <4>2, <4>3 DEF FirstStep
    <3>4. QED BY <3>2, <3>3
  <2> HIDE DEF G
  <2>4. Solves(G, k + 1)  BY <2>3
  <2>5. QED BY <2>4
<1>4. RootNode \in S
  <2> HIDE DEF S
  <2>1. QED BY <1>1, <1>2, <1>3, SetInduction
<1>5. PICK F : Solves(F, RootNode)  BY <1>4
<1> DEFINE G == [n \in AstNodes |-> FirstStep(F, n)]
<1>6. \A n \in AstNodes : G[n] = F[n]  BY <1>1, <1>5
<1>7. \A n \in AstNodes : FirstStep(F, n) = FirstStep(G, n)
  <2> SUFFICES ASSUME NEW n \in AstNodes, ast.children_[n] # << >>
               PROVE  F[ast.children_[n][1]] = G[ast.children_[n][1]]
    BY DEF FirstStep
  <2>1. ast.children_[n][1] \in AstNodes  BY <1>1 DEF Child
  <2> HIDE DEF G
  <2>2. QED BY <1>6, <2>1
<1>8. G = [n \in AstNodes |-> FirstStep(G, n)]
  <2>1. G = [n \in AstNodes |-> FirstStep(F, n)]  OBVIOUS
  <2> HIDE DEF G
  <2>2. QED BY <1>7, <2>1
<1>9. QED BY <1>8

\* The nodes of the subtree at n are those from the first below it up to n.
First == FirstNode(ast)

\* The subtrees of the children of a node follow each other without a gap, and
\* the node follows them.
LEMMA FirstFacts ==
  ASSUME IsAst(ast)
  PROVE  /\ \A n \in AstNodes : First[n] \in 1..n
         /\ First[RootNode] = 1
         /\ \A n \in AstNodes : ast.children_[n] = << >> => First[n] = n
         /\ \A n \in AstNodes : ast.children_[n] # << >> => First[n] = First[Child(n, 1)]
         /\ \A n \in AstNodes : ast.children_[n] # << >> =>
              Child(n, Len(ast.children_[n])) = n - 1
         /\ \A n \in AstNodes : \A k \in 1..Len(ast.children_[n]) - 1 :
              Child(n, k) = First[Child(n, k + 1)] - 1
<1>1. /\ RootNode \in Nat /\ AstNodes = 1..RootNode /\ RootNode \in AstNodes
      /\ \A n \in AstNodes : ast.children_[n] \in Seq(AstNodes)
      /\ \A n \in AstNodes : \A k \in 1..Len(ast.children_[n]) :
           Child(n, k) \in AstNodes /\ Child(n, k) < n
  BY AstFacts
<1>2. First = [n \in AstNodes |-> FirstStep(First, n)]
  <2>1. First = CHOOSE F : F = [n \in AstNodes |-> FirstStep(F, n)]
    BY DEF First, FirstNode, FirstStep, AstNodes
  <2>2. QED BY <2>1, FirstExists
<1>3. \A n \in AstNodes :
        First[n] = IF ast.children_[n] = << >> THEN n ELSE First[Child(n, 1)]
  BY <1>2 DEF FirstStep, Child
<1>4. /\ First[RootNode] = 1
      /\ \A n \in AstNodes : \A k \in 1..Len(ast.children_[n]) :
           Child(n, k) = (IF k = Len(ast.children_[n]) THEN n ELSE First[Child(n, k + 1)]) - 1
  <2>1. First[Len(ast.type_)] = 1  BY Zenon DEF IsAst, First
  <2>2. \A n \in 1..Len(ast.type_) : \A k \in DOMAIN ast.children_[n] :
          LET next == IF k = Len(ast.children_[n]) THEN n
                      ELSE First[ast.children_[n][k + 1]]
          IN  ast.children_[n][k] = next - 1
    BY Zenon DEF IsAst, First
  <2>3. \A n \in AstNodes : DOMAIN ast.children_[n] = 1..Len(ast.children_[n])  BY <1>1
  <2>4. QED BY <2>1, <2>2, <2>3 DEF RootNode, AstNodes, Child
<1>5. \A n \in AstNodes : ast.children_[n] # << >> => Len(ast.children_[n]) \in Nat \ {0}
  BY <1>1
<1>6. \A n \in AstNodes : First[n] \in 1..n
  <2> DEFINE S == {k \in Nat : \A n \in AstNodes : n <= k => First[n] \in 1..n}
  <2>1. 0 \in S  BY <1>1
  <2>2. ASSUME NEW k \in Nat, k \in S PROVE k + 1 \in S
    <3> SUFFICES ASSUME NEW n \in AstNodes, n <= k + 1 PROVE First[n] \in 1..n
      OBVIOUS
    <3>1. CASE ast.children_[n] = << >>  BY <1>1, <1>3, <3>1
    <3>2. CASE ast.children_[n] # << >>
      <4>1. Child(n, 1) \in AstNodes /\ Child(n, 1) < n  BY <1>1, <1>5, <3>2
      <4>2. First[Child(n, 1)] \in 1..Child(n, 1)  BY <1>1, <2>2, <4>1
      <4>3. QED BY <1>1, <1>3, <3>2, <4>1, <4>2
    <3>3. QED BY <3>1, <3>2
  <2>3. RootNode \in S
    <3> HIDE DEF S
    <3>1. QED BY <1>1, <2>1, <2>2, SetInduction
  <2>4. QED BY <1>1, <2>3
<1>7. \A n \in AstNodes : ast.children_[n] # << >> => Child(n, Len(ast.children_[n])) = n - 1
  BY <1>4, <1>5
<1>8. \A n \in AstNodes : \A k \in 1..Len(ast.children_[n]) - 1 :
        Child(n, k) = First[Child(n, k + 1)] - 1
  <2>1. \A n \in AstNodes : Len(ast.children_[n]) \in Nat  BY <1>1
  <2>2. QED BY <1>4, <2>1
<1>9. QED BY <1>3, <1>4, <1>6, <1>7, <1>8

Subtree(n) == First[n]..n

\* The subtrees of the children of a node are in order.
LEMMA ChildrenOrdered ==
  ASSUME IsAst(ast), NEW n \in AstNodes, NEW i \in 1..Len(ast.children_[n]),
         NEW j \in 1..Len(ast.children_[n]), i < j
  PROVE  Child(n, i) < First[Child(n, j)]
<1> DEFINE L == Len(ast.children_[n])
           S == {d \in Nat : \A a \in 1..L : a + 1 + d \in 1..L =>
                               Child(n, a) < First[Child(n, a + 1 + d)]}
<1>1. /\ L \in Nat /\ AstNodes \subseteq Int
      /\ \A k \in 1..L : Child(n, k) \in AstNodes
      /\ \A k \in 1..L - 1 : Child(n, k) = First[Child(n, k + 1)] - 1
      /\ \A m \in AstNodes : First[m] \in 1..m
  <2>1. L \in Nat
    <3>1. ast.children_[n] \in Seq(AstNodes)  BY AstFacts
    <3>2. QED BY <3>1
  <2>2. AstNodes \subseteq Int  BY AstFacts
  <2>3. QED BY <2>1, <2>2, AstFacts, FirstFacts
<1>2. \A k \in 1..L : Child(n, k) \in Int /\ First[Child(n, k)] \in 1..Child(n, k)  BY <1>1
<1> HIDE DEF L
<1>3. 0 \in S
  <2> SUFFICES ASSUME NEW a \in 1..L, a + 1 + 0 \in 1..L
               PROVE  Child(n, a) < First[Child(n, a + 1 + 0)]
    OBVIOUS
  <2>1. a \in 1..L - 1 /\ a + 1 + 0 = a + 1 /\ a + 1 \in 1..L  BY <1>1
  <2>2. QED BY <1>1, <1>2, <2>1
<1>4. ASSUME NEW d \in Nat, d \in S PROVE d + 1 \in S
  <2> SUFFICES ASSUME NEW a \in 1..L, a + 1 + (d + 1) \in 1..L
               PROVE  Child(n, a) < First[Child(n, a + 1 + (d + 1))]
    OBVIOUS
  <2> DEFINE b == a + 1 + d
  <2>1. b \in 1..L - 1 /\ b \in 1..L /\ a + 1 + (d + 1) = b + 1 /\ b + 1 \in 1..L  BY <1>1
  <2>2. Child(n, a) < First[Child(n, b)]  BY <1>4, <2>1
  <2> HIDE DEF b
  <2>3. Child(n, b) = First[Child(n, b + 1)] - 1  BY <1>1, <2>1
  <2>4. Child(n, a) \in Int /\ Child(n, b) \in Int /\ First[Child(n, b)] \in 1..Child(n, b)
        /\ First[Child(n, b + 1)] \in Int
    BY <1>2, <2>1
  <2>5. Child(n, a) < First[Child(n, b + 1)]  BY <2>2, <2>3, <2>4
  <2>6. QED BY <2>1, <2>5
<1>5. Nat \subseteq S
  <2> HIDE DEF S
  <2>1. QED BY <1>3, <1>4, SetInduction
<1>6. i \in 1..L /\ j \in 1..L  BY DEF L
<1>7. j - i - 1 \in Nat /\ i + 1 + (j - i - 1) = j  BY <1>1, <1>6
<1>8. QED BY <1>5, <1>6, <1>7

\* The subtrees of the children make up the subtree of the node without it.
LEMMA ChildrenCover ==
  ASSUME IsAst(ast), NEW n \in AstNodes, NEW m \in Int
  PROVE  (\E k \in 1..Len(ast.children_[n]) : m \in Subtree(Child(n, k))) <=>
           m \in First[n]..n - 1
<1> DEFINE L == Len(ast.children_[n])
<1>1. /\ L \in Nat /\ AstNodes \subseteq Int /\ (L = 0 <=> ast.children_[n] = << >>)
      /\ \A k \in 1..L : Child(n, k) \in AstNodes /\ Child(n, k) < n
      /\ \A k \in 1..L - 1 : Child(n, k) = First[Child(n, k + 1)] - 1
      /\ \A a \in AstNodes : First[a] \in 1..a
      /\ L = 0 => First[n] = n
      /\ L # 0 => First[n] = First[Child(n, 1)] /\ Child(n, L) = n - 1
  <2>1. ast.children_[n] \in Seq(AstNodes)  BY AstFacts
  <2>2. QED BY <2>1, AstFacts, FirstFacts
<1>2. \A k \in 1..L : Child(n, k) \in Int /\ First[Child(n, k)] \in 1..Child(n, k)  BY <1>1
<1>3. \A i, j \in 1..L : i < j => Child(n, i) < First[Child(n, j)]  BY ChildrenOrdered
<1> HIDE DEF L
<1>4. ASSUME NEW k \in 1..L, m \in Subtree(Child(n, k)) PROVE m \in First[n]..n - 1
  <2>1. First[n] <= First[Child(n, k)]
    <3>1. CASE k = 1  BY <1>1, <1>2, <3>1
    <3>2. CASE k # 1
      <4>1. 1 \in 1..L /\ 1 < k  BY <1>1, <3>2
      <4>2. Child(n, 1) < First[Child(n, k)]  BY <1>3, <4>1
      <4>3. QED BY <1>1, <1>2, <4>1, <4>2
    <3>3. QED BY <3>1, <3>2
  <2>2. QED BY <1>1, <1>2, <1>4, <2>1 DEF Subtree
<1>5. ASSUME m \in First[n]..n - 1
      PROVE  \E k \in 1..L : m \in Subtree(Child(n, k))
  <2> DEFINE S == {k \in 1..L : m <= Child(n, k)}
  <2>1. L # 0 /\ L \in 1..L  BY <1>1, <1>5
  <2>2. L \in S  BY <1>1, <1>5, <2>1
  <2>3. PICK k \in S : \A j \in S : k <= j
    <3>1. S \subseteq Nat /\ S # {}  BY <1>1, <2>2
    <3> HIDE DEF S
    <3>2. QED BY <3>1, LeastMember
  <2>4. First[Child(n, k)] <= m
    <3>1. CASE k = 1  BY <1>1, <1>2, <1>5, <2>1, <3>1
    <3>2. CASE k # 1
      <4>1. k - 1 \in 1..L /\ k - 1 \in 1..L - 1 /\ (k - 1) + 1 = k /\ ~ (k <= k - 1)
        BY <1>1, <3>2
      <4>2. ~ (m <= Child(n, k - 1))  BY <2>3, <4>1
      <4>3. Child(n, k - 1) = First[Child(n, k)] - 1  BY <1>1, <4>1
      <4>4. Child(n, k - 1) \in Int /\ First[Child(n, k)] \in Int  BY <1>2, <4>1
      <4>5. QED BY <4>2, <4>3, <4>4
    <3>3. QED BY <3>1, <3>2
  <2>5. m \in Subtree(Child(n, k))  BY <1>2, <2>4 DEF Subtree
  <2>6. QED BY <2>5
<1>6. QED BY <1>4, <1>5 DEF L

\* Below a term there are only terms.
LEMMA TermSubtree ==
  ASSUME IsAst(ast)
  PROVE  \A n \in AstNodes : IsTerm(n) => \A m \in Subtree(n) : IsTerm(m)
<1> DEFINE S == {k \in Nat : \A n \in AstNodes :
                   n <= k /\ IsTerm(n) => \A m \in Subtree(n) : IsTerm(m)}
<1>1. RootNode \in Nat /\ AstNodes = 1..RootNode  BY AstFacts
<1>2. 0 \in S  BY <1>1
<1>3. ASSUME NEW k \in Nat, k \in S PROVE k + 1 \in S
  <2> SUFFICES ASSUME NEW n \in AstNodes, n <= k + 1, IsTerm(n), NEW m \in Subtree(n)
               PROVE  IsTerm(m)
    OBVIOUS
  <2>1. CASE m = n  BY <2>1
  <2>2. CASE m # n
    <3>1. m \in First[n]..n - 1 /\ m \in Int  BY <1>1, <2>2, FirstFacts DEF Subtree
    <3>2. PICK j \in 1..Len(ast.children_[n]) : m \in Subtree(Child(n, j))
      BY <3>1, ChildrenCover
    <3>3. Child(n, j) \in AstNodes /\ Child(n, j) < n /\ IsTerm(Child(n, j))  BY AstFacts
    <3>4. Child(n, j) <= k  BY <1>1, <3>3
    <3>5. QED BY <1>3, <3>2, <3>3, <3>4
  <2>3. QED BY <2>1, <2>2
<1>4. RootNode \in S
  <2> HIDE DEF S
  <2>1. QED BY <1>1, <1>2, <1>3, SetInduction
<1>5. QED BY <1>1, <1>4

\* Below an equality or inequality there are only terms.
LEMMA AtomSubtree ==
  ASSUME IsAst(ast), NEW n \in AstNodes, ast.type_[n] \in {"equal", "not_equal"},
         NEW m \in First[n]..n - 1
  PROVE  IsTerm(m)
<1>1. m \in Int  OBVIOUS
<1>2. PICK j \in 1..Len(ast.children_[n]) : m \in Subtree(Child(n, j))
  BY <1>1, ChildrenCover
<1>3. Child(n, j) \in AstNodes /\ IsTerm(Child(n, j))  BY AstFacts
<1>4. QED BY <1>2, <1>3, TermSubtree

\* The entries of a sequence.
LEMMA SeqFacts ==
  ASSUME NEW X, NEW Y, X \subseteq Y, NEW v \in Seq(X)
  PROVE  /\ Len(v) \in Nat /\ DOMAIN v = 1..Len(v)
         /\ \A a \in 1..Len(v) : v[a] \in X
         /\ v \in Seq(Y)
<1>1. Len(v) \in Nat /\ DOMAIN v = 1..Len(v)  OBVIOUS
<1>2. v \in [1..Len(v) -> X]  OBVIOUS
<1>3. v \in [1..Len(v) -> Y]  BY <1>2
<1>4. QED BY <1>1, <1>2, <1>3

LEMMA ConcatFacts ==
  ASSUME NEW X, NEW v \in Seq(X), NEW w \in Seq(X)
  PROVE  /\ v \o w \in Seq(X) /\ Len(v \o w) = Len(v) + Len(w)
         /\ Len(v) \in Nat /\ Len(w) \in Nat
         /\ \A i \in 1..Len(v) : (v \o w)[i] = v[i]
         /\ \A i \in Len(v) + 1..Len(v) + Len(w) : (v \o w)[i] = w[i - Len(v)]
<1>1. Len(v) \in Nat /\ Len(w) \in Nat  OBVIOUS
<1>2. v \o w \in Seq(X) /\ Len(v \o w) = Len(v) + Len(w)  OBVIOUS
<1>3. \A i \in 1..Len(v) : (v \o w)[i] = v[i]  OBVIOUS
<1>4. \A i \in Len(v) + 1..Len(v) + Len(w) : (v \o w)[i] = w[i - Len(v)]  BY <1>1
<1>5. QED BY <1>1, <1>2, <1>3, <1>4

-----------------------------------------------------------------------------
(* The table of DagNodes.                                                  *)

IsDagNode(r) ==
  r = [type_ |-> r.type_, fn_ |-> r.fn_, args_ |-> r.args_, ccpar_ |-> r.ccpar_]

NodeTable ==
  /\ Len(sub_formulae_) \in Nat
  /\ \A k \in DagNodes :
       /\ IsDagNode(sub_formulae_[k])
       /\ sub_formulae_[k].type_ \in {"var", "func"}
       /\ sub_formulae_[k].args_ \in Seq(1..k - 1)
       /\ sub_formulae_[k].ccpar_ \in Seq(DagNodes)

\* The terms visited.
Visited == {n \in AstNodes : n < at /\ IsTerm(n)}

\* The DagNode k is the first that stands for the term n.
IsFirstMatch(k, n) ==
  k \in DagNodes /\ Matches(k, n) /\ \A m \in 1..k - 1 : ~ Matches(m, n)

\* Every term visited has the DagNode that DiscoverDagNode would find for it.
Shared ==
  /\ ast_fun_dag_node_map_ \in [AstNodes -> DagNodes \cup {0}]
  /\ \A n \in Visited : IsFirstMatch(ast_fun_dag_node_map_[n], n)

\* Every DagNode was created for a term.
Created == \A k \in DagNodes : \E n \in Visited : ast_fun_dag_node_map_[n] = k

IsSorted(v) == \A k \in 1..Len(v) - 1 : v[k] <= v[k + 1]

Occurs(x, v) == \E k \in DOMAIN v : v[k] = x

\* Every DagNode records its parents, all of them, in order.
ParentsRecorded ==
  \A k \in DagNodes :
    /\ IsSorted(sub_formulae_[k].ccpar_)
    /\ \A p \in DagNodes : Occurs(p, sub_formulae_[k].ccpar_) <=> Occurs(k, sub_formulae_[p].args_)

\* The terms visited apply every function to one number of arguments.
SignaturesAgree ==
  \A m, n \in Visited :
    ast.type_[m] = "func" /\ ast.type_[n] = "func" /\ ast.name[m] = ast.name[n] =>
      Len(ast.children_[m]) = Len(ast.children_[n])

\* DiscoverDagNode returns the first DagNode that stands for a term.
LEMMA DiscoverFacts ==
  ASSUME Len(sub_formulae_) \in Nat, NEW n
  PROVE  /\ (\E k \in DagNodes : Matches(k, n)) => IsFirstMatch(DiscoverDagNode(n), n)
         /\ ~ (\E k \in DagNodes : Matches(k, n)) => DiscoverDagNode(n) = 0
         /\ \A k \in DagNodes : IsFirstMatch(k, n) => DiscoverDagNode(n) = k
<1> DEFINE S == {k \in DagNodes : Matches(k, n)}
           IsFirst(k) == Matches(k, n) /\ \A m \in 1..k - 1 : ~ Matches(m, n)
<1>1. DagNodes \subseteq Nat /\ \A k \in DagNodes : 1..k - 1 \subseteq DagNodes  BY DEF DagNodes
<1>2. ASSUME \E k \in DagNodes : Matches(k, n) PROVE \E k \in DagNodes : IsFirst(k)
  <2>1. S \subseteq Nat /\ S # {}  BY <1>1, <1>2
  <2>2. PICK k \in S : \A m \in S : k <= m
    <3> HIDE DEF S
    <3>1. QED BY <2>1, LeastMember
  <2>3. \A m \in 1..k - 1 : m \in DagNodes /\ ~ (k <= m)  BY <1>1
  <2>4. \A m \in 1..k - 1 : ~ Matches(m, n)  BY <2>2, <2>3
  <2>5. QED BY <2>4
<1>3. \A k, m \in DagNodes : IsFirst(k) /\ IsFirst(m) => k = m
  <2> SUFFICES ASSUME NEW k \in DagNodes, NEW m \in DagNodes, IsFirst(k), IsFirst(m), k # m
               PROVE  FALSE
    OBVIOUS
  <2>1. k \in 1..m - 1 \/ m \in 1..k - 1  BY DEF DagNodes
  <2>2. QED BY <2>1
<1> HIDE DEF IsFirst
<1>4. \A k \in DagNodes : IsFirst(k) => Matches(k, n)  BY DEF IsFirst
<1>5. DiscoverDagNode(n) = IF \E k \in DagNodes : Matches(k, n)
                             THEN CHOOSE k \in DagNodes : IsFirst(k) ELSE 0
  BY DEF DiscoverDagNode, IsFirst
<1>6. ASSUME \E k \in DagNodes : Matches(k, n)
      PROVE  DiscoverDagNode(n) \in DagNodes /\ IsFirst(DiscoverDagNode(n))
  BY <1>2, <1>5, <1>6
<1>7. ASSUME NEW k \in DagNodes, IsFirst(k) PROVE DiscoverDagNode(n) = k
  BY <1>3, <1>4, <1>6, <1>7
<1>8. QED BY <1>5, <1>6, <1>7 DEF IsFirst, IsFirstMatch

\* A second look finds the DagNode that the term had when it was visited.
LEMMA DiscoverVisited ==
  ASSUME Len(sub_formulae_) \in Nat, Shared, NEW n \in Visited
  PROVE  /\ DiscoverDagNode(n) = ast_fun_dag_node_map_[n]
         /\ ast_fun_dag_node_map_[n] \in DagNodes
BY DiscoverFacts DEF Shared, IsFirstMatch

\* Before a term its arguments are visited.
LEMMA ArgumentsVisited ==
  ASSUME IsAst(ast), NEW n \in AstNodes, IsTerm(n) \/ ast.type_[n] \in {"equal", "not_equal"},
         n <= at, at \in Int
  PROVE  \A k \in 1..Len(ast.children_[n]) : Child(n, k) \in Visited
<1> SUFFICES ASSUME NEW k \in 1..Len(ast.children_[n]) PROVE Child(n, k) \in Visited
  OBVIOUS
<1>1. Child(n, k) \in AstNodes /\ Child(n, k) < n /\ IsTerm(Child(n, k))  BY AstFacts
<1>2. n \in Int /\ Child(n, k) \in Int  BY <1>1, AstFacts
<1>3. Child(n, k) < at  BY <1>1, <1>2
<1>4. QED BY <1>1, <1>3 DEF Visited

\* The arguments of the DagNode for a term.
LEMMA ArgsFacts ==
  ASSUME IsAst(ast), Len(sub_formulae_) \in Nat, Shared, NEW n \in AstNodes,
         IsTerm(n) \/ ast.type_[n] \in {"equal", "not_equal"}, n <= at, at \in Int
  PROVE  /\ ArgsOf(n) \in Seq(DagNodes)
         /\ Len(ArgsOf(n)) = Len(ast.children_[n])
         /\ \A k \in 1..Len(ast.children_[n]) :
              ArgsOf(n)[k] = ast_fun_dag_node_map_[Child(n, k)]
<1>1. ast.children_[n] \in Seq(AstNodes)  BY AstFacts
<1>2. /\ Len(ast.children_[n]) \in Nat
      /\ DOMAIN ast.children_[n] = 1..Len(ast.children_[n])
  BY <1>1
<1>3. ArgsOf(n) = [k \in 1..Len(ast.children_[n]) |-> ast_fun_dag_node_map_[Child(n, k)]]
  BY <1>2 DEF ArgsOf, Child
<1>4. \A k \in 1..Len(ast.children_[n]) : ast_fun_dag_node_map_[Child(n, k)] \in DagNodes
  BY ArgumentsVisited DEF Shared, IsFirstMatch
<1>5. QED BY <1>2, <1>3, <1>4

\* Some position of v holds x iff the positions that do are not none.
LEMMA PositionsCounted ==
  ASSUME NEW X, NEW v \in Seq(X), NEW x
  PROVE  LET c == Cardinality({a \in DOMAIN v : v[a] = x})
         IN  c \in Nat /\ (c > 0 <=> Occurs(x, v))
<1> DEFINE P == {a \in DOMAIN v : v[a] = x}
<1>1. IsFiniteSet(1..Len(v))  BY FS_Interval
<1>2. P \subseteq 1..Len(v)  OBVIOUS
<1>3. Occurs(x, v) <=> P # {}  BY DEF Occurs
<1> HIDE DEF P
<1>4. IsFiniteSet(P)  BY <1>1, <1>2, FS_Subset
<1>5. Cardinality(P) \in Nat /\ (Cardinality(P) = 0 <=> P = {})
  BY <1>4, FS_CardinalityType, FS_EmptySet
<1>6. QED BY <1>3, <1>5 DEF P

\* A node is created for a term and recorded at its arguments.
LEMMA ToDagNodeFacts ==
  ASSUME IsAst(ast), NodeTable, ParentsRecorded, NEW n \in AstNodes, IsTerm(n),
         ArgsOf(n) \in Seq(DagNodes), sub_formulae_' = ToDagNode(n)
  PROVE  LET id == Len(sub_formulae_) + 1
         IN  /\ Len(sub_formulae_') = id /\ DagNodes' = DagNodes \cup {id}
             /\ NodeTable' /\ ParentsRecorded'
             /\ sub_formulae_'[id].type_ = ast.type_[n]
             /\ sub_formulae_'[id].fn_ = ast.name[n]
             /\ sub_formulae_'[id].args_ = ArgsOf(n)
             /\ \A k \in DagNodes : /\ sub_formulae_'[k].type_ = sub_formulae_[k].type_
                                    /\ sub_formulae_'[k].fn_ = sub_formulae_[k].fn_
                                    /\ sub_formulae_'[k].args_ = sub_formulae_[k].args_
<1> DEFINE id == Len(sub_formulae_) + 1
           L == Len(sub_formulae_)
           args == ArgsOf(n)
           times(k) == Cardinality({a \in DOMAIN args : args[a] = k})
           added(k) == [a \in 1..times(k) |-> id]
           created == [type_ |-> ast.type_[n], fn_ |-> ast.name[n], args_ |-> args,
                       ccpar_ |-> << >>]
           T == ToDagNode(n)
<1>1. L \in Nat /\ DagNodes = 1..L /\ id = L + 1  BY DEF NodeTable, DagNodes
<1>2. T = [k \in 1..id |-> IF k = id THEN created
                           ELSE [sub_formulae_[k] EXCEPT !.ccpar_ = @ \o added(k)]]
  BY DEF ToDagNode
<1>3. ASSUME NEW k \in DagNodes PROVE times(k) \in Nat /\ (times(k) > 0 <=> Occurs(k, args))
  <2> HIDE DEF args
  <2>1. args \in Seq(DagNodes)  BY DEF args
  <2>2. QED BY <2>1, PositionsCounted
<1> HIDE DEF T, created, added
<1>4. Len(T) = id /\ T[id] = created
  BY <1>1, <1>2
<1>5. ASSUME NEW k \in DagNodes
      PROVE  /\ T[k] = [sub_formulae_[k] EXCEPT !.ccpar_ = @ \o added(k)]
             /\ IsDagNode(T[k])
             /\ T[k].type_ = sub_formulae_[k].type_
             /\ T[k].fn_ = sub_formulae_[k].fn_
             /\ T[k].args_ = sub_formulae_[k].args_
             /\ T[k].ccpar_ = sub_formulae_[k].ccpar_ \o added(k)
  <2>1. k \in 1..id /\ k # id  BY <1>1
  <2>2. T[k] = [sub_formulae_[k] EXCEPT !.ccpar_ = sub_formulae_[k].ccpar_ \o added(k)]
    BY <1>2, <2>1
  <2>3. IsDagNode(sub_formulae_[k])  BY DEF NodeTable
  <2> DEFINE r == sub_formulae_[k]
             e == r.ccpar_ \o added(k)
  <2> HIDE DEF r, e
  <2>4. T[k] = [r EXCEPT !.ccpar_ = e] /\ IsDagNode(r)  BY <2>2, <2>3 DEF r, e
  <2>5. T[k] = [type_ |-> r.type_, fn_ |-> r.fn_, args_ |-> r.args_, ccpar_ |-> e]
    BY <2>4 DEF IsDagNode
  <2>6. QED BY <2>2, <2>5 DEF IsDagNode, r, e
<1>6. /\ created.type_ = ast.type_[n] /\ created.fn_ = ast.name[n]
      /\ created.args_ = args /\ created.ccpar_ = << >> /\ IsDagNode(created)
  BY DEF created, IsDagNode
<1>7. DagNodes' = 1..id /\ DagNodes' = DagNodes \cup {id} /\ DagNodes \subseteq DagNodes'
  <2>1. DagNodes' = 1..id  BY <1>4 DEF DagNodes, T
  <2>2. 1..id = 1..L \cup {id}  BY <1>1
  <2>3. QED BY <1>1, <2>1, <2>2
<1>8. ASSUME NEW k \in DagNodes
      PROVE  /\ added(k) \in Seq({id})
             /\ Len(added(k)) = times(k)
             /\ \A a \in 1..times(k) : added(k)[a] = id
  <2>1. times(k) \in Nat  BY <1>3
  <2>2. added(k) = [a \in 1..times(k) |-> id]  BY DEF added
  <2> HIDE DEF times, id
  <2>3. QED BY <2>1, <2>2
<1> DEFINE par(k) == sub_formulae_[k].ccpar_
<1>9. ASSUME NEW k \in DagNodes
      PROVE  /\ par(k) \in Seq(1..L) /\ Len(par(k)) \in Nat
             /\ T[k].ccpar_ \in Seq(1..id)
             /\ Len(T[k].ccpar_) = Len(par(k)) + times(k)
             /\ \A a \in 1..Len(par(k)) : T[k].ccpar_[a] = par(k)[a] /\ par(k)[a] \in 1..L
             /\ \A a \in Len(par(k)) + 1..Len(par(k)) + times(k) : T[k].ccpar_[a] = id
  <2>1. par(k) \in Seq(1..L)  BY <1>1 DEF NodeTable
  <2>2. T[k].ccpar_ = par(k) \o added(k) /\ times(k) \in Nat  BY <1>3, <1>5
  <2> DEFINE v == par(k)
             w == added(k)
             c == times(k)
  <2>3. v \in Seq(1..L) /\ w \in Seq({id}) /\ Len(w) = c /\ c \in Nat
        /\ \A a \in 1..c : w[a] = id
    BY <1>3, <1>8, <2>1
  <2> HIDE DEF v, w, c, par, times
  <2>4. v \in Seq(1..id) /\ w \in Seq(1..id)
    <3>1. 1..L \subseteq 1..id /\ {id} \subseteq 1..id  BY <1>1
    <3> HIDE DEF L, id
    <3>2. v \in Seq(1..id)  BY <2>3, <3>1, SeqFacts, Zenon
    <3>3. w \in Seq(1..id)  BY <2>3, <3>1, SeqFacts, Zenon
    <3>4. QED BY <3>2, <3>3
  <2>5. v \o w \in Seq(1..id) /\ Len(v \o w) = Len(v) + c /\ Len(v) \in Nat
    <3> HIDE DEF L, id
    <3>1. QED BY <2>3, <2>4
  <2>6. \A a \in 1..Len(v) : (v \o w)[a] = v[a] /\ v[a] \in 1..L
    <3> HIDE DEF L, id
    <3>1. \A a \in 1..Len(v) : v[a] \in 1..L
      <4>1. 1..L \subseteq 1..L /\ v \in Seq(1..L)  BY <2>3
      <4>2. QED BY <4>1, SeqFacts, Zenon
    <3>2. \A a \in 1..Len(v) : (v \o w)[a] = v[a]  BY <2>4, <2>5
    <3>3. QED BY <3>1, <3>2
  <2>7. \A a \in Len(v) + 1..Len(v) + c : (v \o w)[a] = id
    <3> SUFFICES ASSUME NEW a \in Len(v) + 1..Len(v) + c PROVE (v \o w)[a] = id
      OBVIOUS
    <3>1. a - Len(v) \in 1..c  BY <2>3, <2>5
    <3>2. (v \o w)[a] = w[a - Len(v)]
      <4> HIDE DEF L, id
      <4>1. QED BY <2>3, <2>4, <2>5
    <3>3. QED BY <2>3, <3>1, <3>2
  <2>8. T[k].ccpar_ = v \o w  BY <2>2 DEF v, w
  <2>9. QED BY <2>3, <2>5, <2>6, <2>7, <2>8 DEF v, c
<1> HIDE DEF par, times
<1>10. ASSUME NEW k \in DagNodes PROVE IsSorted(T[k].ccpar_)
  <2> DEFINE v == T[k].ccpar_
             m == Len(par(k))
             c == times(k)
  <2>1. /\ m \in Nat /\ c \in Nat /\ Len(v) = m + c
        /\ \A x \in 1..m : v[x] = par(k)[x] /\ par(k)[x] \in 1..L
        /\ \A x \in m + 1..m + c : v[x] = id
    BY <1>3, <1>9 DEF times
  <2>2. \A a \in 1..m - 1 : par(k)[a] <= par(k)[a + 1]
    BY DEF ParentsRecorded, IsSorted, par
  <2> HIDE DEF v, m, c
  <2>3. ASSUME NEW a \in 1..Len(v) - 1 PROVE v[a] <= v[a + 1]
    <3>1. CASE a \in 1..m - 1
      <4>1. a \in 1..m /\ a + 1 \in 1..m  BY <2>1, <3>1
      <4>2. QED BY <2>1, <2>2, <3>1, <4>1
    <3>2. CASE a = m
      <4>1. a \in 1..m /\ a + 1 \in m + 1..m + c  BY <2>1, <3>2
      <4>2. v[a] \in 1..L /\ v[a + 1] = id  BY <2>1, <4>1
      <4>3. QED BY <1>1, <4>2
    <3>3. CASE a \notin 1..m
      <4>1. a \in m + 1..m + c /\ a + 1 \in m + 1..m + c  BY <2>1, <3>3
      <4>2. v[a] = id /\ v[a + 1] = id  BY <2>1, <4>1
      <4>3. QED BY <1>1, <4>2
    <3>4. a \in 1..m - 1 \/ a = m \/ a \notin 1..m  BY <2>1
    <3>5. QED BY <3>1, <3>2, <3>3, <3>4
  <2>4. QED BY <2>3 DEF IsSorted, v
<1>11. ASSUME NEW k \in DagNodes
       PROVE  /\ \A p \in DagNodes : Occurs(p, T[k].ccpar_) <=> Occurs(p, par(k))
              /\ Occurs(id, T[k].ccpar_) <=> Occurs(k, args)
  <2> DEFINE v == T[k].ccpar_
             u == par(k)
             m == Len(par(k))
             c == times(k)
  <2>1. /\ m \in Nat /\ c \in Nat /\ Len(v) = m + c
        /\ DOMAIN v = 1..m + c /\ DOMAIN u = 1..m
        /\ \A a \in 1..m : v[a] = u[a] /\ u[a] \in 1..L
        /\ \A a \in m + 1..m + c : v[a] = id
    <3>1. v \in Seq(1..id) /\ u \in Seq(1..L) /\ Len(v) = m + c  BY <1>9
    <3>2. DOMAIN v = 1..Len(v) /\ DOMAIN u = 1..Len(u)  BY <3>1
    <3>3. c \in Nat  BY <1>3 DEF times
    <3> HIDE DEF v, u, c
    <3>4. QED BY <1>9, <3>1, <3>2, <3>3 DEF v, u, c
  <2>2. c > 0 <=> Occurs(k, args)  BY <1>3 DEF times
  <2> HIDE DEF v, u, m, c
  <2>3. \A a \in 1..m + c : a \in 1..m \/ a \in m + 1..m + c  BY <2>1
  <2>4. id \notin 1..L  BY <1>1
  <2>5. \A p \in 1..L : Occurs(p, v) <=> Occurs(p, u)
    <3> SUFFICES ASSUME NEW p \in 1..L PROVE Occurs(p, v) <=> Occurs(p, u)
      OBVIOUS
    <3>1. p # id  BY <2>4
    <3>2. ASSUME Occurs(p, v) PROVE Occurs(p, u)
      <4>1. PICK a \in 1..m + c : v[a] = p  BY <2>1, <3>2 DEF Occurs
      <4>2. a \in 1..m  BY <2>1, <2>3, <3>1, <4>1
      <4>3. QED BY <2>1, <4>1, <4>2 DEF Occurs
    <3>3. ASSUME Occurs(p, u) PROVE Occurs(p, v)
      <4>1. PICK a \in 1..m : u[a] = p  BY <2>1, <3>3 DEF Occurs
      <4>2. a \in 1..m + c  BY <2>1
      <4>3. QED BY <2>1, <4>1, <4>2 DEF Occurs
    <3>4. QED BY <3>2, <3>3
  <2>6. Occurs(id, v) <=> c > 0
    <3>1. ASSUME Occurs(id, v) PROVE c > 0
      <4>1. PICK a \in 1..m + c : v[a] = id  BY <2>1, <3>1 DEF Occurs
      <4>2. a \notin 1..m  BY <2>1, <2>4, <4>1
      <4>3. QED BY <2>1, <4>1, <4>2
    <3>2. ASSUME c > 0 PROVE Occurs(id, v)
      <4>1. m + 1 \in 1..m + c /\ m + 1 \in m + 1..m + c  BY <2>1, <3>2
      <4>2. QED BY <2>1, <4>1 DEF Occurs
    <3>3. QED BY <3>1, <3>2
  <2>7. QED BY <1>1, <2>2, <2>5, <2>6 DEF v, u
<1>12. NodeTable'
  <2>1. ASSUME NEW k \in 1..id
        PROVE  /\ IsDagNode(T[k])
               /\ T[k].type_ \in {"var", "func"}
               /\ T[k].args_ \in Seq(1..k - 1)
               /\ T[k].ccpar_ \in Seq(1..id)
    <3>1. CASE k = id
      <4>1. ast.type_[n] \in {"var", "func"}  BY DEF IsTerm
      <4>2. args \in Seq(1..id - 1)
        <5>1. 1..id - 1 = DagNodes  BY <1>1
        <5>2. QED BY <5>1
      <4>3. << >> \in Seq(1..id)  OBVIOUS
      <4> HIDE DEF id, args
      <4>4. QED BY <1>4, <1>6, <3>1, <4>1, <4>2, <4>3
    <3>2. CASE k # id
      <4>1. k \in DagNodes  BY <1>1, <3>2
      <4>2. QED BY <1>5, <1>9, <4>1 DEF NodeTable
    <3>3. QED BY <3>1, <3>2
  <2>2. id \in Nat  BY <1>1
  <2> HIDE DEF id
  <2>3. sub_formulae_' = T  BY DEF T
  <2>4. QED BY <1>4, <1>7, <2>1, <2>2, <2>3 DEF NodeTable
<1>13. ParentsRecorded'
  <2>1. ASSUME NEW k \in 1..id
        PROVE  /\ IsSorted(T[k].ccpar_)
               /\ \A p \in 1..id : Occurs(p, T[k].ccpar_) <=> Occurs(k, T[p].args_)
    <3>1. CASE k = id
      <4>1. T[k].ccpar_ = << >>  BY <1>4, <1>6, <3>1
      <4>2. IsSorted(<< >>) /\ \A p : ~ Occurs(p, << >>)  BY DEF IsSorted, Occurs
      <4>3. ~ Occurs(k, T[id].args_)
        <5>1. T[id].args_ = args  BY <1>4, <1>6
        <5>2. \A a \in DOMAIN args : args[a] \in 1..L  BY <1>1
        <5>3. k \notin 1..L  BY <1>1, <3>1
        <5>4. QED BY <5>1, <5>2, <5>3 DEF Occurs
      <4>4. \A p \in DagNodes : ~ Occurs(k, T[p].args_)
        <5> SUFFICES ASSUME NEW p \in DagNodes PROVE ~ Occurs(k, T[p].args_)
          OBVIOUS
        <5> DEFINE s == sub_formulae_[p].args_
        <5>1. s \in Seq(1..p - 1) /\ T[p].args_ = s  BY <1>5 DEF NodeTable
        <5> HIDE DEF s
        <5>2. \A a \in DOMAIN s : s[a] \in 1..p - 1
          <6>1. DOMAIN s = 1..Len(s) /\ \A a \in 1..Len(s) : s[a] \in 1..p - 1
            <7>1. s \in Seq(1..p - 1) /\ 1..p - 1 \subseteq 1..p - 1  BY <5>1
            <7>2. QED BY <7>1, SeqFacts, Zenon
          <6>2. QED BY <6>1
        <5>3. k \notin 1..p - 1  BY <1>1, <3>1
        <5>4. QED BY <5>1, <5>2, <5>3 DEF Occurs
      <4>5. \A p \in 1..id : p \in DagNodes \/ p = id  BY <1>1
      <4>6. QED BY <4>1, <4>2, <4>3, <4>4, <4>5
    <3>2. CASE k # id
      <4>1. k \in DagNodes  BY <1>1, <3>2
      <4>2. \A p \in 1..id : p \in DagNodes \/ p = id  BY <1>1
      <4>3. \A p \in DagNodes : Occurs(p, T[k].ccpar_) <=> Occurs(k, T[p].args_)
        BY <1>5, <1>11, <4>1 DEF ParentsRecorded, par
      <4>4. Occurs(id, T[k].ccpar_) <=> Occurs(k, T[id].args_)  BY <1>4, <1>6, <1>11, <4>1
      <4>5. QED BY <1>10, <4>1, <4>2, <4>3, <4>4
    <3>3. QED BY <3>1, <3>2
  <2> HIDE DEF id
  <2>2. sub_formulae_' = T  BY DEF T
  <2>3. QED BY <1>7, <2>1, <2>2 DEF ParentsRecorded
<1>14. sub_formulae_' = T  BY DEF T
<1>15. QED BY <1>4, <1>5, <1>6, <1>7, <1>12, <1>13, <1>14

\* Adding a node or mapping a later term changes nothing for the terms up to the
\* one visited.
LEMMA Frame ==
  ASSUME IsAst(ast), at \in Int, Len(sub_formulae_) \in Nat, UNCHANGED ast,
         \A m \in AstNodes : m < at => ast_fun_dag_node_map_'[m] = ast_fun_dag_node_map_[m],
         DagNodes \subseteq DagNodes',
         \A k \in DagNodes : /\ sub_formulae_'[k].type_ = sub_formulae_[k].type_
                             /\ sub_formulae_'[k].fn_ = sub_formulae_[k].fn_
                             /\ sub_formulae_'[k].args_ = sub_formulae_[k].args_,
         NEW n \in AstNodes, n <= at
  PROVE  /\ ArgsOf(n)' = ArgsOf(n)
         /\ \A k \in DagNodes : /\ Matches(k, n)' <=> Matches(k, n)
                                /\ IsFirstMatch(k, n) => IsFirstMatch(k, n)'
<1>1. ArgsOf(n)' = ArgsOf(n)
  <2>1. ast.children_[n] \in Seq(AstNodes)  BY AstFacts
  <2>2. DOMAIN ast.children_[n] = 1..Len(ast.children_[n])  BY <2>1
  <2>3. \A k \in 1..Len(ast.children_[n]) :
          ast.children_[n][k] \in AstNodes /\ ast.children_[n][k] < n
    BY AstFacts DEF Child
  <2>4. \A m \in AstNodes : m \in Int  BY AstFacts
  <2>5. \A k \in 1..Len(ast.children_[n]) :
          ast_fun_dag_node_map_'[ast.children_[n][k]] = ast_fun_dag_node_map_[ast.children_[n][k]]
    BY <2>3, <2>4
  <2>6. QED BY <2>2, <2>5 DEF ArgsOf
<1>2. \A k \in DagNodes : Matches(k, n)' <=> Matches(k, n)
  BY <1>1 DEF Matches, SameSymbol
<1>3. \A k \in DagNodes : 1..k - 1 \subseteq DagNodes  BY DEF DagNodes
<1>4. ASSUME NEW k \in DagNodes, IsFirstMatch(k, n) PROVE IsFirstMatch(k, n)'
  <2>1. k \in DagNodes' /\ Matches(k, n)'  BY <1>2, <1>4 DEF IsFirstMatch
  <2>2. \A m \in 1..k - 1 : ~ Matches(m, n)'  BY <1>2, <1>3, <1>4 DEF IsFirstMatch
  <2>3. QED BY <2>1, <2>2 DEF IsFirstMatch
<1>5. QED BY <1>1, <1>2, <1>4

\* The invariant of the visits of GenerateSubFormulae: one DagNode for every
\* term visited, and no DagNode for anything else.
TableInv ==
  /\ IsAst(ast)
  /\ phase \in Phases
  /\ at \in 1..RootNode + 1
  /\ NodeTable
  /\ Shared
  /\ Created
  /\ ParentsRecorded
  /\ SignaturesAgree
  /\ phase \notin {"generate", "abort"} => at = RootNode + 1
  /\ phase = "abort" => MissMatched

\* A DagNode has the symbol and the number of arguments of a term visited.
LEMMA CreatedFacts ==
  ASSUME TableInv, NEW k \in DagNodes
  PROVE  \E n \in Visited : /\ ast_fun_dag_node_map_[n] = k /\ Matches(k, n)
                            /\ Len(sub_formulae_[k].args_) = Len(ast.children_[n])
<1>1. PICK n \in Visited : ast_fun_dag_node_map_[n] = k  BY DEF TableInv, Created
<1>2. Matches(k, n)  BY <1>1 DEF TableInv, Shared, IsFirstMatch
<1>3. n \in AstNodes /\ IsTerm(n) /\ n <= at /\ at \in Int
  <2>1. RootNode \in Nat /\ AstNodes = 1..RootNode  BY AstFacts DEF TableInv
  <2>2. QED BY <2>1 DEF TableInv, Visited
<1>4. Len(ArgsOf(n)) = Len(ast.children_[n])  BY <1>3, ArgsFacts DEF TableInv, NodeTable
<1>5. QED BY <1>1, <1>2, <1>4 DEF Matches

\* DiscoverDagNode aborts only on a function with two signatures.
LEMMA AbortMissMatched ==
  ASSUME TableInv, at \in AstNodes, IsTerm(at), SignatureMissMatch(at)
  PROVE  MissMatched
<1>1. PICK k \in DagNodes : SameSymbol(k, at)
                            /\ Len(sub_formulae_[k].args_) # Len(ast.children_[at])
  BY DEF SignatureMissMatch
<1>2. PICK n \in Visited : Matches(k, n) /\ Len(sub_formulae_[k].args_) = Len(ast.children_[n])
  BY CreatedFacts
<1>3. /\ n \in AstNodes /\ ast.type_[n] = ast.type_[at] /\ ast.name[n] = ast.name[at]
      /\ Len(ast.children_[n]) # Len(ast.children_[at])
  BY <1>1, <1>2 DEF Matches, SameSymbol, Visited
<1>4. ast.type_[at] # "var"
  <2>1. SUFFICES ASSUME ast.type_[at] = "var" PROVE FALSE
    OBVIOUS
  <2>2. ast.children_[at] = << >> /\ ast.children_[n] = << >>
    BY <1>3, <2>1, AstFacts DEF TableInv
  <2>3. QED BY <1>3, <2>2
<1>5. ast.type_[at] = "func"  BY <1>4 DEF IsTerm
<1>6. QED BY <1>3, <1>5 DEF MissMatched

\* A term whose visit does not abort has the signature of those visited.
LEMMA NoMissMatch ==
  ASSUME TableInv, at \in AstNodes, IsTerm(at), ~ SignatureMissMatch(at),
         NEW m \in Visited, ast.type_[m] = "func", ast.type_[at] = "func",
         ast.name[m] = ast.name[at]
  PROVE  Len(ast.children_[m]) = Len(ast.children_[at])
<1> SUFFICES ASSUME Len(ast.children_[m]) # Len(ast.children_[at]) PROVE FALSE
  OBVIOUS
<1> DEFINE k == ast_fun_dag_node_map_[m]
<1>1. RootNode \in Nat /\ AstNodes = 1..RootNode  BY AstFacts DEF TableInv
<1>2. \A n \in Visited : n \in AstNodes /\ IsTerm(n) /\ n <= at /\ at \in Int
  BY <1>1 DEF TableInv, Visited
<1>3. k \in DagNodes /\ Matches(k, m)  BY DEF TableInv, Shared, IsFirstMatch
<1>4. Len(ArgsOf(m)) = Len(ast.children_[m])
  BY <1>2, ArgsFacts DEF TableInv, NodeTable
<1>5. SameSymbol(k, at) /\ Len(sub_formulae_[k].args_) # Len(ast.children_[at])
  BY <1>3, <1>4 DEF Matches, SameSymbol
<1> HIDE DEF k
<1>6. PICK j \in 1..k - 1 : Matches(j, at)  BY <1>3, <1>5 DEF SignatureMissMatch
<1>7. j \in DagNodes  BY <1>3 DEF TableInv, NodeTable, DagNodes
<1>8. PICK n \in Visited :
        Matches(j, n) /\ Len(sub_formulae_[j].args_) = Len(ast.children_[n])
  BY <1>7, CreatedFacts
<1>9. Len(sub_formulae_[j].args_) = Len(ast.children_[at])
  <2>1. Len(ArgsOf(at)) = Len(ast.children_[at])
    <3>1. at \in Int /\ at <= at  BY <1>1
    <3>2. QED BY <3>1, ArgsFacts DEF TableInv, NodeTable
  <2>2. QED BY <1>6, <2>1 DEF Matches
<1>10. ast.type_[n] = "func" /\ ast.name[n] = ast.name[at]
  BY <1>6, <1>8 DEF Matches, SameSymbol
<1>11. Len(ast.children_[n]) = Len(ast.children_[m])
  BY <1>10 DEF TableInv, SignaturesAgree
<1>12. QED BY <1>8, <1>9, <1>11

\* A visit of a term keeps the table, whether it finds the term or creates it.
LEMMA VisitFacts ==
  ASSUME TableInv, GenerateSubFormulae
  PROVE  TableInv'
<1>1. /\ IsAst(ast) /\ RootNode \in Nat /\ AstNodes = 1..RootNode
      /\ Len(sub_formulae_) \in Nat /\ DagNodes \subseteq Nat
      /\ at \in AstNodes /\ at \in Int /\ at <= at
  BY AstFacts DEF TableInv, NodeTable, DagNodes, GenerateSubFormulae
<1>2. /\ at' = at + 1 /\ phase = "generate"
      /\ UNCHANGED <<ast, phase>> /\ AstNodes' = AstNodes /\ RootNode' = RootNode
      /\ \A n \in AstNodes : IsTerm(n)' <=> IsTerm(n)
  BY DEF GenerateSubFormulae, AstNodes, RootNode, IsTerm
<1>3. /\ ~ IsTerm(at) => Visited' = Visited
      /\ IsTerm(at) => Visited' = Visited \cup {at}
      /\ at \notin Visited
      /\ \A n \in Visited : n \in AstNodes /\ n <= at /\ n < at /\ n # at
  BY <1>1, <1>2 DEF Visited
<1>4. CASE ~ IsTerm(at) /\ UNCHANGED <<sub_formulae_, ast_fun_dag_node_map_>>
  <2>1. Visited' = Visited /\ DagNodes' = DagNodes  BY <1>3, <1>4 DEF DagNodes
  <2>2. \A n \in Visited : \A k \in DagNodes : IsFirstMatch(k, n) => IsFirstMatch(k, n)'
    <3>1. UNCHANGED ast  BY <1>2
    <3>2. QED BY <1>1, <1>3, <1>4, <2>1, <3>1, Frame
  <2>3. Shared'
    <3>1. ast_fun_dag_node_map_' \in [AstNodes' -> DagNodes' \cup {0}]
      BY <1>2, <1>4, <2>1 DEF TableInv, Shared
    <3>2. \A n \in Visited : IsFirstMatch(ast_fun_dag_node_map_[n], n)'
      BY <1>4, <2>2 DEF TableInv, Shared, IsFirstMatch, Matches, SameSymbol, ArgsOf, DagNodes
    <3>3. QED BY <2>1, <3>1, <3>2 DEF Shared
  <2>4. Created'  BY <1>4, <2>1 DEF TableInv, Created
  <2>5. SignaturesAgree'  BY <1>2, <2>1 DEF TableInv, SignaturesAgree
  <2>6. NodeTable' /\ ParentsRecorded'
    BY <1>4, <2>1 DEF TableInv, NodeTable, ParentsRecorded, Occurs, IsSorted
  <2>7. QED BY <1>1, <1>2, <2>3, <2>4, <2>5, <2>6 DEF TableInv
<1>5. ASSUME IsTerm(at), ~ SignatureMissMatch(at), NEW d \in Nat,
             ast_fun_dag_node_map_' = [ast_fun_dag_node_map_ EXCEPT ![at] = d],
             NEW t \in AstNodes, t = at, IsFirstMatch(d, t)',
             DagNodes' = DagNodes \cup {d}, NodeTable', ParentsRecorded',
             \A k \in DagNodes : /\ sub_formulae_'[k].type_ = sub_formulae_[k].type_
                                 /\ sub_formulae_'[k].fn_ = sub_formulae_[k].fn_
                                 /\ sub_formulae_'[k].args_ = sub_formulae_[k].args_
      PROVE  TableInv'
  <2>1. ast_fun_dag_node_map_ \in [AstNodes -> DagNodes \cup {0}]  BY DEF TableInv, Shared
  <2>2. /\ ast_fun_dag_node_map_'[at] = d
        /\ \A n \in AstNodes : n # at => ast_fun_dag_node_map_'[n] = ast_fun_dag_node_map_[n]
        /\ ast_fun_dag_node_map_' \in [AstNodes' -> DagNodes' \cup {0}]
    <3>1. ast_fun_dag_node_map_' \in [AstNodes -> DagNodes' \cup {0}]
      BY <1>1, <1>5, <2>1
    <3>2. QED BY <1>1, <1>2, <1>5, <2>1, <3>1
  <2>3. Visited' = Visited \cup {at}  BY <1>3, <1>5
  <2>4. \A n \in Visited : \A k \in DagNodes : IsFirstMatch(k, n) => IsFirstMatch(k, n)'
    <3>1. UNCHANGED ast  BY <1>2
    <3>2. \A m \in AstNodes : m < at => ast_fun_dag_node_map_'[m] = ast_fun_dag_node_map_[m]
      BY <1>1, <2>2
    <3>3. QED BY <1>1, <1>3, <1>5, <3>1, <3>2, Frame
  <2>5. Shared'
    <3>1. ASSUME NEW n \in Visited PROVE IsFirstMatch(ast_fun_dag_node_map_[n], n)'
      <4>1. PICK k \in DagNodes : k = ast_fun_dag_node_map_[n] /\ IsFirstMatch(k, n)
        BY DEF TableInv, Shared, IsFirstMatch
      <4>2. IsFirstMatch(k, n)' /\ ast_fun_dag_node_map_'[n] = k  BY <1>3, <2>2, <2>4, <4>1
      <4>3. QED BY <4>2 DEF IsFirstMatch, Matches, SameSymbol
    <3>2. IsFirstMatch(ast_fun_dag_node_map_[t], t)'
      <4>1. ast_fun_dag_node_map_'[t] = d  BY <1>5, <2>2
      <4>2. QED BY <1>5, <4>1 DEF IsFirstMatch, Matches, SameSymbol
    <3>3. \A n \in Visited' : n \in Visited \/ n = t  BY <1>5, <2>3
    <3>4. QED BY <2>2, <3>1, <3>2, <3>3 DEF Shared
  <2>6. Created'
    <3>1. ASSUME NEW k \in DagNodes PROVE \E n \in Visited : ast_fun_dag_node_map_'[n] = k
      BY <1>3, <2>2 DEF TableInv, Created
    <3>2. QED BY <1>5, <2>2, <2>3, <3>1 DEF Created
  <2>7. SignaturesAgree'
    <3>1. \A m, n \in Visited \cup {at} :
            ast.type_[m] = "func" /\ ast.type_[n] = "func" /\ ast.name[m] = ast.name[n] =>
              Len(ast.children_[m]) = Len(ast.children_[n])
      <4>1. \A m \in Visited :
              ast.type_[m] = "func" /\ ast.type_[at] = "func" /\ ast.name[m] = ast.name[at] =>
                Len(ast.children_[m]) = Len(ast.children_[at])
        BY <1>1, <1>5, NoMissMatch
      <4>2. QED BY <4>1 DEF TableInv, SignaturesAgree
    <3>2. QED BY <1>2, <2>3, <3>1 DEF SignaturesAgree
  <2>8. QED BY <1>1, <1>2, <1>5, <2>5, <2>6, <2>7 DEF TableInv
<1>6. PICK t \in AstNodes : t = at  BY <1>1
<1>7. t <= at /\ (IsTerm(at) => ArgsOf(t) \in Seq(DagNodes))
  <2>1. t <= at /\ (IsTerm(at) => IsTerm(t))  BY <1>1, <1>6
  <2>2. QED BY <1>1, <2>1, ArgsFacts DEF TableInv
<1>8. CASE IsTerm(at) /\ ~ SignatureMissMatch(at) /\ DiscoverDagNode(at) # 0
           /\ ast_fun_dag_node_map_' = [ast_fun_dag_node_map_ EXCEPT ![at] = DiscoverDagNode(at)]
           /\ UNCHANGED sub_formulae_
  <2>1. IsFirstMatch(DiscoverDagNode(t), t)  BY <1>1, <1>6, <1>8, DiscoverFacts
  <2>2. PICK d \in DagNodes : d = DiscoverDagNode(t) /\ IsFirstMatch(d, t)
    BY <2>1 DEF IsFirstMatch
  <2>3. ast_fun_dag_node_map_' = [ast_fun_dag_node_map_ EXCEPT ![at] = d]  BY <1>6, <1>8, <2>2
  <2>4. DagNodes' = DagNodes  BY <1>8 DEF DagNodes
  <2>5. IsFirstMatch(d, t)'
    <3>1. UNCHANGED ast  BY <1>2
    <3>2. \A m \in AstNodes : m < at => ast_fun_dag_node_map_'[m] = ast_fun_dag_node_map_[m]
      BY <1>1, <2>3 DEF TableInv, Shared
    <3>3. QED BY <1>1, <1>7, <1>8, <2>2, <2>4, <3>1, <3>2, Frame
  <2>6. NodeTable' /\ ParentsRecorded'
    BY <1>8, <2>4 DEF TableInv, NodeTable, ParentsRecorded, Occurs, IsSorted
  <2>7. d \in Nat /\ DagNodes' = DagNodes \cup {d}  BY <1>1, <2>2, <2>4
  <2>8. QED BY <1>5, <1>6, <1>8, <2>3, <2>5, <2>6, <2>7
<1>9. CASE IsTerm(at) /\ ~ SignatureMissMatch(at) /\ DiscoverDagNode(at) = 0
           /\ sub_formulae_' = ToDagNode(at)
           /\ ast_fun_dag_node_map_' = [ast_fun_dag_node_map_ EXCEPT ![at] = Len(sub_formulae_) + 1]
  <2>1. PICK d \in Nat : d = Len(sub_formulae_) + 1  BY <1>1
  <2>2. IsTerm(t) /\ sub_formulae_' = ToDagNode(t)  BY <1>6, <1>9
  <2>3. /\ Len(sub_formulae_') = d /\ DagNodes' = DagNodes \cup {d}
        /\ NodeTable' /\ ParentsRecorded'
        /\ sub_formulae_'[d].type_ = ast.type_[t]
        /\ sub_formulae_'[d].fn_ = ast.name[t]
        /\ sub_formulae_'[d].args_ = ArgsOf(t)
        /\ \A k \in DagNodes : /\ sub_formulae_'[k].type_ = sub_formulae_[k].type_
                               /\ sub_formulae_'[k].fn_ = sub_formulae_[k].fn_
                               /\ sub_formulae_'[k].args_ = sub_formulae_[k].args_
    BY <1>7, <1>9, <2>1, <2>2, ToDagNodeFacts DEF TableInv
  <2>4. ast_fun_dag_node_map_' = [ast_fun_dag_node_map_ EXCEPT ![at] = d]  BY <1>9, <2>1
  <2>5. \A m \in AstNodes : m < at => ast_fun_dag_node_map_'[m] = ast_fun_dag_node_map_[m]
    BY <1>1, <2>4 DEF TableInv, Shared
  <2>6. UNCHANGED ast  BY <1>2
  <2>7. ArgsOf(t)' = ArgsOf(t) /\ \A k \in DagNodes : Matches(k, t)' <=> Matches(k, t)
    BY <1>1, <1>7, <2>3, <2>5, <2>6, Frame
  <2>8. \A k \in DagNodes : ~ Matches(k, t)
    <3>1. 0 \notin DagNodes  BY DEF DagNodes
    <3>2. ~ IsFirstMatch(DiscoverDagNode(t), t)  BY <1>6, <1>9, <3>1 DEF IsFirstMatch
    <3>3. QED BY <1>1, <3>2, DiscoverFacts
  <2>9. IsFirstMatch(d, t)'
    <3>1. Matches(d, t)'  BY <2>3, <2>6, <2>7 DEF Matches, SameSymbol
    <3>2. 1..d - 1 = DagNodes  BY <1>1, <2>1 DEF DagNodes
    <3>3. \A m \in 1..d - 1 : ~ Matches(m, t)'  BY <2>7, <2>8, <3>2
    <3>4. d \in DagNodes'  BY <2>3
    <3>5. QED BY <3>1, <3>3, <3>4 DEF IsFirstMatch
  <2>10. QED BY <1>5, <1>6, <1>9, <2>3, <2>4, <2>9
<1>10. QED BY <1>4, <1>8, <1>9 DEF GenerateSubFormulae, AddSubFormulae

\* The tree of an initial state is one that the parser may hand over.
LEMMA TableInit == Init => TableInv
<1> SUFFICES ASSUME Init PROVE TableInv
  OBVIOUS
<1>1. IsAst(ast)  BY AstsAssumption DEF Init
<1>2. RootNode \in Nat /\ AstNodes = 1..RootNode  BY <1>1, AstFacts
<1>3. DagNodes = {} /\ Len(sub_formulae_) = 0  BY DEF Init, DagNodes
<1>4. Visited = {}  BY <1>2 DEF Init, Visited
<1>5. NodeTable /\ Created /\ ParentsRecorded  BY <1>3 DEF NodeTable, Created, ParentsRecorded
<1>6. Shared  BY <1>3, <1>4 DEF Init, Shared
<1>7. SignaturesAgree  BY <1>4 DEF SignaturesAgree
<1>8. at \in 1..RootNode + 1 /\ phase = "generate" /\ phase \in Phases
  BY <1>2 DEF Init, Phases
<1>9. QED BY <1>1, <1>5, <1>6, <1>7, <1>8 DEF TableInv

\* A step that leaves tree and table alone keeps everything said of them.
LEMMA TableUnchanged ==
  ASSUME TableInv, UNCHANGED <<ast, at, sub_formulae_, ast_fun_dag_node_map_>>,
         phase' \in Phases,
         phase' \notin {"generate", "abort"} => at = RootNode + 1,
         phase' = "abort" => MissMatched
  PROVE  TableInv' /\ DagNodes' = DagNodes /\ AstNodes' = AstNodes
<1>1. /\ DagNodes' = DagNodes /\ AstNodes' = AstNodes /\ RootNode' = RootNode
      /\ \A n : IsTerm(n)' <=> IsTerm(n)
  BY DEF DagNodes, AstNodes, RootNode, IsTerm
<1>2. Visited' = Visited  BY <1>1 DEF Visited
<1>3. NodeTable' /\ Created' /\ ParentsRecorded' /\ SignaturesAgree'
  BY <1>1, <1>2
  DEF TableInv, NodeTable, Created, ParentsRecorded, SignaturesAgree, IsSorted, Occurs
<1>4. Shared'
  BY <1>1, <1>2 DEF TableInv, Shared, IsFirstMatch, Matches, SameSymbol, ArgsOf
<1>5. IsAst(ast)' /\ (MissMatched' <=> MissMatched)  BY <1>1 DEF TableInv, MissMatched
<1>6. QED BY <1>1, <1>3, <1>4, <1>5 DEF TableInv

LEMMA TableStep == TableInv /\ [Next]_builder => TableInv'
<1> SUFFICES ASSUME TableInv, [Next]_builder PROVE TableInv'
  OBVIOUS
<1>1. RootNode \in Nat /\ AstNodes = 1..RootNode  BY AstFacts DEF TableInv
<1>2. CASE GenerateSubFormulae  BY <1>2, VisitFacts
<1>3. CASE Abort
  BY <1>3, AbortMissMatched, TableUnchanged DEF Abort, Phases
<1>4. CASE StartEqualities
  <2>1. at = RootNode + 1  BY <1>1, <1>4 DEF StartEqualities, TableInv
  <2>2. QED BY <1>4, <2>1, TableUnchanged DEF StartEqualities, Phases
<1>5. CASE GatherEqualityConstraints
  BY <1>5, TableUnchanged DEF GatherEqualityConstraints, TableInv
<1>6. CASE StartInequalities
  BY <1>6, TableUnchanged DEF StartInequalities, TableInv, Phases
<1>7. CASE GatherInEqualityConstraints
  BY <1>7, TableUnchanged DEF GatherInEqualityConstraints, TableInv
<1>8. CASE Built  BY <1>8, TableUnchanged DEF Built, TableInv, Phases
<1>9. CASE UNCHANGED builder  BY <1>9, TableUnchanged DEF builder, TableInv
<1>10. QED BY <1>2, <1>3, <1>4, <1>5, <1>6, <1>7, <1>8, <1>9 DEF Next

LEMMA TableInvariant == Spec => []TableInv
BY TableInit, TableStep, PTL DEF Spec

\* The node table is sound, however the formula is built: the program aborts on
\* a formula that gives a function two signatures, before it gathers the
\* constraints, and on no other.
THEOREM AbortsOnlyOnMissMatch == Spec => []AbortsOnMissMatch
<1>1. TableInv => AbortsOnMissMatch
  <2> SUFFICES ASSUME TableInv, phase \notin {"generate", "abort"} PROVE ~ MissMatched
    BY DEF AbortsOnMissMatch, TableInv
  <2>1. at = RootNode + 1 /\ AstNodes = 1..RootNode /\ RootNode \in Nat
    BY AstFacts DEF TableInv
  <2>2. \A n \in AstNodes : ast.type_[n] = "func" => n \in Visited
    BY <2>1 DEF Visited, IsTerm
  <2>3. QED BY <2>2 DEF TableInv, SignaturesAgree, MissMatched
<1>2. QED BY <1>1, TableInvariant, PTL

-----------------------------------------------------------------------------
(* Sharing of terms.                                                       *)

\* m and n are occurrences of one term, if S says so of the pairs of children.
SameStep(S, m, n) ==
  /\ ast.type_[m] = ast.type_[n]
  /\ ast.name[m] = ast.name[n]
  /\ Len(ast.children_[m]) = Len(ast.children_[n])
  /\ \A k \in 1..Len(ast.children_[m]) : S[<<Child(m, k), Child(n, k)>>]

\* What SameStep says of m depends on the pairs below m only.
LEMMA SameStepBelow ==
  ASSUME IsAst(ast), NEW m \in AstNodes, NEW n \in AstNodes, NEW S, NEW T,
         \A i, j \in AstNodes : i < m => S[<<i, j>>] = T[<<i, j>>]
  PROVE  SameStep(S, m, n) = SameStep(T, m, n)
<1>1. \A i \in AstNodes : \A k \in 1..Len(ast.children_[i]) :
        Child(i, k) \in AstNodes /\ Child(i, k) < i
  BY AstFacts
<1>2. CASE Len(ast.children_[m]) = Len(ast.children_[n])
  <2>1. \A k \in 1..Len(ast.children_[m]) :
          S[<<Child(m, k), Child(n, k)>>] = T[<<Child(m, k), Child(n, k)>>]
    BY <1>1, <1>2
  <2>2. QED BY <2>1 DEF SameStep
<1>3. CASE Len(ast.children_[m]) # Len(ast.children_[n])  BY <1>3 DEF SameStep
<1>4. QED BY <1>2, <1>3

\* The recursion over pairs of nodes is well-founded.
LEMMA SameExists ==
  ASSUME IsAst(ast)
  PROVE  \E S : S = [p \in AstNodes \X AstNodes |-> SameStep(S, p[1], p[2])]
<1> DEFINE Solves(S, k) == \A m, n \in AstNodes : m <= k => S[<<m, n>>] = SameStep(S, m, n)
           Solvable == {k \in Nat : \E S : Solves(S, k)}
           Extend(S) == [p \in AstNodes \X AstNodes |-> SameStep(S, p[1], p[2])]
<1>1. RootNode \in Nat /\ AstNodes = 1..RootNode  BY AstFacts
<1>2. \A S : \A m, n \in AstNodes : Extend(S)[<<m, n>>] = SameStep(S, m, n)  OBVIOUS
<1> HIDE DEF Extend
<1>3. 0 \in Solvable
  <2>1. Solves(<< >>, 0)  BY <1>1
  <2>2. QED BY <2>1
<1>4. ASSUME NEW k \in Nat, k \in Solvable PROVE k + 1 \in Solvable
  <2>1. PICK S : Solves(S, k)  BY <1>4
  <2>2. \A m, n \in AstNodes : m <= k => Extend(S)[<<m, n>>] = S[<<m, n>>]  BY <1>2, <2>1
  <2>3. ASSUME NEW m \in AstNodes, NEW n \in AstNodes, m <= k + 1
        PROVE  Extend(S)[<<m, n>>] = SameStep(Extend(S), m, n)
    <3>1. \A i, j \in AstNodes : i < m => i <= k  BY <1>1, <2>3
    <3>2. SameStep(S, m, n) = SameStep(Extend(S), m, n)  BY <2>2, <3>1, SameStepBelow
    <3>3. QED BY <1>2, <3>2
  <2>4. Solves(Extend(S), k + 1)  BY <2>3
  <2>5. QED BY <2>4
<1>5. RootNode \in Solvable
  <2> HIDE DEF Solvable
  <2>1. QED BY <1>1, <1>3, <1>4, SetInduction
<1>6. PICK S : Solves(S, RootNode)  BY <1>5
<1>7. \A m, n \in AstNodes : S[<<m, n>>] = SameStep(S, m, n)
  <2>1. \A m \in AstNodes : m <= RootNode  BY <1>1
  <2>2. QED BY <1>6, <2>1
<1>8. \A m, n \in AstNodes : Extend(S)[<<m, n>>] = S[<<m, n>>]  BY <1>2, <1>7
<1>9. \A m, n \in AstNodes : SameStep(S, m, n) = SameStep(Extend(S), m, n)
  BY <1>8, SameStepBelow
<1>10. \A p \in AstNodes \X AstNodes :
         SameStep(S, p[1], p[2]) = SameStep(Extend(S), p[1], p[2])
  <2> SUFFICES ASSUME NEW p \in AstNodes \X AstNodes
               PROVE  SameStep(S, p[1], p[2]) = SameStep(Extend(S), p[1], p[2])
    OBVIOUS
  <2>1. p[1] \in AstNodes /\ p[2] \in AstNodes  OBVIOUS
  <2>2. QED BY <1>9, <2>1
<1> DEFINE T == Extend(S)
<1>11. T = [p \in AstNodes \X AstNodes |-> SameStep(S, p[1], p[2])]  BY DEF Extend
<1>12. \A p \in AstNodes \X AstNodes : SameStep(S, p[1], p[2]) = SameStep(T, p[1], p[2])
  BY <1>10
<1> HIDE DEF T
<1>13. T = [p \in AstNodes \X AstNodes |-> SameStep(T, p[1], p[2])]  BY <1>11, <1>12
<1>14. QED BY <1>13

LEMMA SameFacts ==
  ASSUME IsAst(ast), NEW m \in AstNodes, NEW n \in AstNodes
  PROVE  SameTerm[<<m, n>>] = SameStep(SameTerm, m, n)
<1>1. SameTerm = CHOOSE S : S = [p \in AstNodes \X AstNodes |-> SameStep(S, p[1], p[2])]
  <2>1. \A i \in AstNodes : DOMAIN ast.children_[i] = 1..Len(ast.children_[i])
    <3> SUFFICES ASSUME NEW i \in AstNodes
                 PROVE  DOMAIN ast.children_[i] = 1..Len(ast.children_[i])
      OBVIOUS
    <3>1. ast.children_[i] \in Seq(AstNodes)  BY AstFacts
    <3>2. QED BY <3>1
  <2> DEFINE Step(S, i, j) ==
               /\ ast.type_[i] = ast.type_[j]
               /\ ast.name[i] = ast.name[j]
               /\ Len(ast.children_[i]) = Len(ast.children_[j])
               /\ \A k \in DOMAIN ast.children_[i] :
                    S[<<ast.children_[i][k], ast.children_[j][k]>>]
  <2>2. SameTerm = CHOOSE S : S = [p \in AstNodes \X AstNodes |-> Step(S, p[1], p[2])]
    BY Zenon DEF SameTerm
  <2>3. \A S : \A i, j \in AstNodes : Step(S, i, j) = SameStep(S, i, j)
    BY <2>1 DEF SameStep, Child
  <2> HIDE DEF Step
  <2>4. \A S : [p \in AstNodes \X AstNodes |-> Step(S, p[1], p[2])] =
               [p \in AstNodes \X AstNodes |-> SameStep(S, p[1], p[2])]
    BY <2>3
  <2>5. QED BY <2>2, <2>4
<1>2. SameTerm = [p \in AstNodes \X AstNodes |-> SameStep(SameTerm, p[1], p[2])]
  BY <1>1, SameExists
<1>3. <<m, n>> \in AstNodes \X AstNodes  OBVIOUS
<1>4. QED BY <1>2, <1>3

\* One DagNode per term, whatever the tree: comparing one level of two terms is
\* enough, because their arguments already have one DagNode per term.
LEMMA OneNodePerTerm ==
  ASSUME TableInv, NEW m \in Visited, NEW n \in Visited
  PROVE  ast_fun_dag_node_map_[m] = ast_fun_dag_node_map_[n] <=> SameTerm[<<m, n>>]
<1> DEFINE node(i) == ast_fun_dag_node_map_[i]
           S == {k \in Nat : \A i, j \in Visited : i <= k => (node(i) = node(j) <=> SameTerm[<<i, j>>])}
<1>1. /\ IsAst(ast) /\ RootNode \in Nat /\ AstNodes = 1..RootNode /\ Len(sub_formulae_) \in Nat
      /\ at \in Int
      /\ \A i \in Visited : i \in AstNodes /\ IsTerm(i) /\ i <= at /\ i \in Nat /\ i >= 1
  <2>1. IsAst(ast) /\ RootNode \in Nat /\ AstNodes = 1..RootNode  BY AstFacts DEF TableInv
  <2>2. QED BY <2>1 DEF TableInv, NodeTable, Visited
<1>2. \A i \in Visited : IsFirstMatch(node(i), i) /\ node(i) \in DagNodes /\ Matches(node(i), i)
  BY DEF TableInv, Shared, IsFirstMatch
<1>3. \A i \in Visited : /\ \A k \in 1..Len(ast.children_[i]) : Child(i, k) \in Visited /\ Child(i, k) < i
                         /\ DOMAIN ArgsOf(i) = 1..Len(ast.children_[i])
                         /\ Len(ArgsOf(i)) = Len(ast.children_[i])
                         /\ \A k \in 1..Len(ast.children_[i]) : ArgsOf(i)[k] = node(Child(i, k))
  <2> SUFFICES ASSUME NEW i \in Visited
               PROVE  /\ \A k \in 1..Len(ast.children_[i]) : Child(i, k) \in Visited /\ Child(i, k) < i
                      /\ DOMAIN ArgsOf(i) = 1..Len(ast.children_[i])
                      /\ Len(ArgsOf(i)) = Len(ast.children_[i])
                      /\ \A k \in 1..Len(ast.children_[i]) : ArgsOf(i)[k] = node(Child(i, k))
    OBVIOUS
  <2>1. \A k \in 1..Len(ast.children_[i]) : Child(i, k) \in Visited  BY <1>1, ArgumentsVisited
  <2>2. \A k \in 1..Len(ast.children_[i]) : Child(i, k) < i  BY <1>1, AstFacts
  <2>3. /\ ArgsOf(i) \in Seq(DagNodes) /\ Len(ArgsOf(i)) = Len(ast.children_[i])
        /\ \A k \in 1..Len(ast.children_[i]) : ArgsOf(i)[k] = node(Child(i, k))
    BY <1>1, ArgsFacts DEF TableInv
  <2>4. DOMAIN ArgsOf(i) = 1..Len(ArgsOf(i))  BY <2>3
  <2>5. QED BY <2>1, <2>2, <2>3, <2>4
<1> HIDE DEF node
<1>4. 0 \in S
  <2>1. \A i \in Visited : ~ (i <= 0)  BY <1>1
  <2>2. QED BY <2>1
<1>5. ASSUME NEW k \in Nat, k \in S PROVE k + 1 \in S
  <2> SUFFICES ASSUME NEW i \in Visited, NEW j \in Visited, i <= k + 1
               PROVE  node(i) = node(j) <=> SameTerm[<<i, j>>]
    OBVIOUS
  <2>1. i \in AstNodes /\ j \in AstNodes  BY <1>1
  <2>2. \A a \in 1..Len(ast.children_[i]) : \A b \in Visited :
          node(Child(i, a)) = node(b) <=> SameTerm[<<Child(i, a), b>>]
    <3>1. \A a \in 1..Len(ast.children_[i]) : Child(i, a) \in Visited /\ Child(i, a) <= k
      BY <1>1, <1>3
    <3>2. QED BY <1>5, <3>1
  <2>3. SameTerm[<<i, j>>] = SameStep(SameTerm, i, j)  BY <1>1, <2>1, SameFacts
  <2>4. ASSUME node(i) = node(j) PROVE SameStep(SameTerm, i, j)
    <3>1. Matches(node(i), i) /\ Matches(node(i), j)  BY <1>2, <2>4
    <3>2. /\ ast.type_[i] = ast.type_[j] /\ ast.name[i] = ast.name[j]
          /\ ArgsOf(i) = ArgsOf(j)
      BY <3>1 DEF Matches, SameSymbol
    <3>3. Len(ast.children_[i]) = Len(ast.children_[j])
      BY <1>3, <3>2
    <3>4. \A a \in 1..Len(ast.children_[i]) :
            Child(j, a) \in Visited /\ node(Child(i, a)) = node(Child(j, a))
      BY <1>3, <3>2, <3>3
    <3>5. \A a \in 1..Len(ast.children_[i]) : SameTerm[<<Child(i, a), Child(j, a)>>]
      BY <2>2, <3>4
    <3>6. QED BY <3>2, <3>3, <3>5 DEF SameStep
  <2>5. ASSUME SameStep(SameTerm, i, j) PROVE node(i) = node(j)
    <3>1. /\ ast.type_[i] = ast.type_[j] /\ ast.name[i] = ast.name[j]
          /\ Len(ast.children_[i]) = Len(ast.children_[j])
          /\ \A a \in 1..Len(ast.children_[i]) : SameTerm[<<Child(i, a), Child(j, a)>>]
      BY <2>5 DEF SameStep
    <3>2. \A a \in 1..Len(ast.children_[i]) : node(Child(i, a)) = node(Child(j, a))
      BY <1>3, <2>2, <3>1
    <3>3. ArgsOf(i) = ArgsOf(j)
      <4>1. \A a \in 1..Len(ast.children_[i]) : ArgsOf(i)[a] = ArgsOf(j)[a]
        BY <1>3, <3>1, <3>2
      <4>2. DOMAIN ArgsOf(i) = DOMAIN ArgsOf(j)  BY <1>3, <3>1
      <4>3. /\ ArgsOf(i) = [a \in DOMAIN ArgsOf(i) |-> ArgsOf(i)[a]]
            /\ ArgsOf(j) = [a \in DOMAIN ArgsOf(j) |-> ArgsOf(j)[a]]
        BY DEF ArgsOf
      <4>4. QED BY <1>3, <4>1, <4>2, <4>3
    <3>4. \A d : Matches(d, i) <=> Matches(d, j)  BY <3>1, <3>3 DEF Matches, SameSymbol
    <3>5. IsFirstMatch(node(i), j)  BY <1>2, <3>4 DEF IsFirstMatch
    <3>6. DiscoverDagNode(j) = node(i)  BY <1>1, <1>2, <3>5, DiscoverFacts
    <3>7. DiscoverDagNode(j) = node(j)  BY <1>1, <1>2, DiscoverFacts
    <3>8. QED BY <3>6, <3>7
  <2>6. QED BY <2>3, <2>4, <2>5
<1>6. Nat \subseteq S
  <2> HIDE DEF S
  <2>1. QED BY <1>4, <1>5, SetInduction
<1>7. m \in Nat /\ m <= m  BY <1>1
<1>8. QED BY <1>6, <1>7 DEF node

\* Two terms of the formula share their DagNode iff they are the same term: the
\* premise on which congruence closure starts.
THEOREM TermsAlwaysShared == Spec => []TermsShared
<1>1. TableInv => TermsShared
  <2> SUFFICES ASSUME TableInv, NEW m \in 1..at - 1, NEW n \in 1..at - 1, IsTerm(m), IsTerm(n)
               PROVE  ast_fun_dag_node_map_[m] = ast_fun_dag_node_map_[n] <=> SameTerm[<<m, n>>]
    BY DEF TermsShared
  <2>1. RootNode \in Nat /\ AstNodes = 1..RootNode  BY AstFacts DEF TableInv
  <2>2. m \in Visited /\ n \in Visited  BY <2>1 DEF TableInv, Visited
  <2>3. QED BY <2>2, OneNodePerTerm
<1>2. QED BY <1>1, TableInvariant, PTL

-----------------------------------------------------------------------------
(* The constraints.                                                        *)

\* The nodes that the recursion of Gather... has still to visit: those below
\* the entries of s.
Pending(s) == UNION {Subtree(s[k]) : k \in 1..Len(s)}

\* The subtrees of the entries of s follow each other.
InOrder(s) == \A i, j \in 1..Len(s) : i < j => s[i] < First[s[j]]

LEMMA VisitOrder ==
  ASSUME IsAst(ast), NEW s \in Seq(AstNodes), s # << >>, InOrder(s),
         NEW n, n = Head(s), NEW u, u = ast.children_[n] \o Tail(s)
  PROVE  /\ n \in AstNodes /\ n \in Pending(s) /\ Pending(s) \subseteq AstNodes
         /\ u \in Seq(AstNodes) /\ InOrder(u) /\ Pending(u) = Pending(s) \ {n}
         /\ \A p \in Pending(u) : p <= n => p \in First[n]..n - 1
<1> DEFINE v == ast.children_[n]
           L == Len(v)
           r == Len(s) - 1
<1>1. /\ RootNode \in Nat /\ AstNodes = 1..RootNode
      /\ \A a \in AstNodes : First[a] \in 1..a
  BY AstFacts, FirstFacts
<1>2. /\ Len(s) \in Nat \ {0} /\ n = s[1]
      /\ Len(Tail(s)) = r /\ r \in Nat /\ Tail(s) \in Seq(AstNodes)
      /\ \A i \in 1..r : Tail(s)[i] = s[i + 1]
      /\ \A i \in 1..Len(s) : s[i] \in AstNodes
  <2> HIDE DEF v, L
  <2>1. Len(s) \in Nat \ {0} /\ n = s[1] /\ \A i \in 1..Len(s) : s[i] \in AstNodes  OBVIOUS
  <2>2. Tail(s) \in Seq(AstNodes) /\ Len(Tail(s)) = Len(s) - 1  OBVIOUS
  <2>3. \A i \in 1..Len(s) - 1 : Tail(s)[i] = s[i + 1]  BY <2>1
  <2>4. QED BY <2>1, <2>2, <2>3
<1>3. n \in AstNodes  BY <1>2
<1>4. v \in Seq(AstNodes) /\ L \in Nat /\ \A i \in 1..L : v[i] = Child(n, i)
  <2>1. v \in Seq(AstNodes)  BY <1>3, AstFacts
  <2>2. QED BY <2>1 DEF Child
<1>5. \A i \in 1..L : v[i] \in AstNodes /\ v[i] < n
  <2>1. \A i \in 1..L : v[i] \in AstNodes
    <3> HIDE DEF v, L
    <3>1. Len(v) = L  BY DEF L
    <3>2. QED BY <3>1, <1>4
  <2>2. \A i \in 1..Len(ast.children_[n]) : Child(n, i) < n  BY <1>3, AstFacts
  <2>3. \A i \in 1..L : Child(n, i) < n
    <3>1. L = Len(ast.children_[n])  OBVIOUS
    <3> HIDE DEF v, L
    <3>2. QED BY <3>1, <2>2
  <2> HIDE DEF v, L
  <2>4. QED BY <1>4, <2>1, <2>3
<1>6. \A i, j \in 1..L : i < j => v[i] < First[v[j]]  BY <1>3, <1>4, ChildrenOrdered
<1>7. \A m \in Int : (\E k \in 1..L : m \in Subtree(v[k])) <=> m \in First[n]..n - 1
  BY <1>3, <1>4, ChildrenCover
<1> HIDE DEF v, L, r
<1>8. /\ u \in Seq(AstNodes) /\ Len(u) = L + r
      /\ \A i \in 1..L : u[i] = v[i]
      /\ \A i \in L + 1..L + r : u[i] = s[i - L + 1]
  <2>1. u = v \o Tail(s)  BY DEF v
  <2>2. Len(v) = L /\ Len(Tail(s)) = r  BY <1>2 DEF L
  <2>3. v \in Seq(AstNodes) /\ Tail(s) \in Seq(AstNodes) /\ L \in Nat /\ r \in Nat
        /\ \A i \in 1..r : Tail(s)[i] = s[i + 1]
    BY <1>2, <1>4
  <2>4. /\ v \o Tail(s) \in Seq(AstNodes) /\ Len(v \o Tail(s)) = Len(v) + Len(Tail(s))
        /\ \A i \in 1..Len(v) : (v \o Tail(s))[i] = v[i]
        /\ \A i \in Len(v) + 1..Len(v) + Len(Tail(s)) :
             (v \o Tail(s))[i] = Tail(s)[i - Len(v)]
    BY <2>3, ConcatFacts, Zenon
  <2>5. u \in Seq(AstNodes) /\ Len(u) = L + r /\ \A i \in 1..L : u[i] = v[i]
    BY <2>1, <2>2, <2>4
  <2>6. ASSUME NEW i \in L + 1..L + r PROVE u[i] = s[i - L + 1]
    <3>1. i - L \in 1..r  BY <2>3
    <3>2. u[i] = Tail(s)[i - L]  BY <2>1, <2>2, <2>4
    <3>3. QED BY <2>3, <3>1, <3>2
  <2>7. QED BY <2>5, <2>6
<1>9. \A i \in 1..L + r : i \in 1..L \/ (i \in L + 1..L + r /\ i - L + 1 \in 2..Len(s))
  BY <1>2, <1>4 DEF r
<1>10. \A j \in 2..Len(s) : n < First[s[j]] /\ s[j] \in AstNodes
  <2>1. 1 \in 1..Len(s) /\ \A j \in 2..Len(s) : j \in 1..Len(s) /\ 1 < j  BY <1>2
  <2>2. QED BY <1>2, <2>1 DEF InOrder
<1>11. InOrder(u)
  <2> SUFFICES ASSUME NEW i \in 1..L + r, NEW j \in 1..L + r, i < j
               PROVE  u[i] < First[u[j]]
    BY <1>8 DEF InOrder
  <2>1. CASE i \in 1..L /\ j \in 1..L  BY <1>6, <1>8, <2>1
  <2>2. CASE i \in 1..L /\ j \in L + 1..L + r
    <3>1. u[i] = v[i] /\ v[i] \in AstNodes /\ v[i] < n  BY <1>5, <1>8, <2>2
    <3>2. u[j] = s[j - L + 1]  BY <1>8, <2>2
    <3>3. j - L + 1 \in 2..Len(s)  BY <1>2, <1>4, <2>2 DEF r
    <3>4. n < First[u[j]] /\ u[j] \in AstNodes  BY <1>10, <3>2, <3>3
    <3> DEFINE a == u[i]
               b == First[u[j]]
               d == u[j]
    <3>5. n < b /\ b \in 1..d /\ d \in AstNodes
      <4>1. d \in AstNodes  BY <3>4
      <4>2. b = First[d]  OBVIOUS
      <4> HIDE DEF d, b
      <4>3. b \in 1..d  BY <1>1, <4>1, <4>2
      <4>4. QED BY <3>4, <4>1, <4>3 DEF b, d
    <3>6. a \in AstNodes /\ a < n  BY <3>1
    <3> HIDE DEF a, b, d
    <3>7. a < b  BY <1>1, <1>3, <3>5, <3>6
    <3>8. QED BY <3>7 DEF a, b, d
  <2>3. CASE i \in L + 1..L + r /\ j \in L + 1..L + r
    <3>1. u[i] = s[i - L + 1] /\ u[j] = s[j - L + 1]  BY <1>8, <2>3
    <3>2. i - L + 1 \in 1..Len(s) /\ j - L + 1 \in 1..Len(s) /\ i - L + 1 < j - L + 1
      BY <1>2, <1>4, <2>3 DEF r
    <3>3. QED BY <3>1, <3>2 DEF InOrder
  <2>4. ~ (i \in L + 1..L + r /\ j \in 1..L)  BY <1>2, <1>4
  <2>5. QED BY <1>9, <2>1, <2>2, <2>3, <2>4
<1>12. \A m : m \in Pending(u) <=> m \in First[n]..n - 1 \/ \E j \in 2..Len(s) : m \in Subtree(s[j])
  <2> SUFFICES ASSUME NEW m
               PROVE  m \in Pending(u) <=>
                        m \in First[n]..n - 1 \/ \E j \in 2..Len(s) : m \in Subtree(s[j])
    OBVIOUS
  <2>1. m \in Pending(u) <=> \E i \in 1..L + r : m \in Subtree(u[i])  BY <1>8 DEF Pending
  <2>2. ASSUME NEW i \in 1..L + r, m \in Subtree(u[i])
        PROVE  m \in First[n]..n - 1 \/ \E j \in 2..Len(s) : m \in Subtree(s[j])
    <3>1. CASE i \in 1..L
      <4>1. m \in Int  BY <2>2 DEF Subtree
      <4>2. m \in Subtree(v[i])  BY <1>8, <2>2, <3>1
      <4>3. QED BY <1>7, <3>1, <4>1, <4>2
    <3>2. CASE i \in L + 1..L + r /\ i - L + 1 \in 2..Len(s)  BY <1>8, <2>2, <3>2
    <3>3. QED BY <1>9, <3>1, <3>2
  <2>3. ASSUME m \in First[n]..n - 1 PROVE \E i \in 1..L + r : m \in Subtree(u[i])
    <3>1. m \in Int  BY <2>3
    <3>2. PICK k \in 1..L : m \in Subtree(v[k])  BY <1>7, <2>3, <3>1
    <3>3. k \in 1..L + r /\ u[k] = v[k]  BY <1>2, <1>4, <1>8
    <3>4. QED BY <3>2, <3>3
  <2>4. ASSUME NEW j \in 2..Len(s), m \in Subtree(s[j])
        PROVE  \E i \in 1..L + r : m \in Subtree(u[i])
    <3>1. j + L - 1 \in L + 1..L + r /\ (j + L - 1) - L + 1 = j /\ j + L - 1 \in 1..L + r
      BY <1>2, <1>4 DEF r
    <3>2. u[j + L - 1] = s[j]
      <4>1. u[j + L - 1] = s[(j + L - 1) - L + 1]  BY <1>8, <3>1
      <4>2. QED BY <3>1, <4>1
    <3>3. QED BY <2>4, <3>1, <3>2
  <2>5. QED BY <2>1, <2>2, <2>3, <2>4
<1>13. \A m : m \in Pending(s) <=> m \in Subtree(n) \/ \E j \in 2..Len(s) : m \in Subtree(s[j])
  <2>1. \A j : j \in 1..Len(s) <=> j = 1 \/ j \in 2..Len(s)  BY <1>2
  <2>2. QED BY <1>2, <2>1 DEF Pending
<1>14. \A m : m \in Subtree(n) <=> m = n \/ m \in First[n]..n - 1
  BY <1>1, <1>3 DEF Subtree
<1>15. \A j \in 2..Len(s) : \A p \in Subtree(s[j]) : p \in AstNodes /\ n < p
  <2> SUFFICES ASSUME NEW j \in 2..Len(s), NEW p \in Subtree(s[j]) PROVE p \in AstNodes /\ n < p
    OBVIOUS
  <2>1. n < First[s[j]] /\ s[j] \in AstNodes /\ First[s[j]] \in 1..s[j]  BY <1>1, <1>10
  <2>2. p \in First[s[j]]..s[j]  BY DEF Subtree
  <2>3. QED BY <1>1, <1>3, <2>1, <2>2
<1>16. n \notin First[n]..n - 1 /\ First[n]..n - 1 \subseteq AstNodes  BY <1>1, <1>3
<1>17. n \in Pending(s) /\ Pending(s) \subseteq AstNodes
  BY <1>3, <1>13, <1>14, <1>15, <1>16
<1>18. Pending(u) = Pending(s) \ {n}
  <2>1. \A m : m \in Pending(u) <=> m \in Pending(s) /\ m # n
    <3>1. \A j \in 2..Len(s) : n \notin Subtree(s[j])  BY <1>1, <1>3, <1>15
    <3>2. QED BY <1>12, <1>13, <1>14, <1>16, <3>1
  <2>2. QED BY <2>1
<1>19. ASSUME NEW p \in Pending(u), p <= n PROVE p \in First[n]..n - 1
  <2>1. \A j \in 2..Len(s) : p \notin Subtree(s[j])  BY <1>1, <1>3, <1>15, <1>19
  <2>2. QED BY <1>12, <2>1
<1>20. QED BY <1>3, <1>8, <1>11, <1>17, <1>18, <1>19

\* Atoms of type t that are not below the entries of s have been met.
Met(t, s) == AtomsOf(t) \ Pending(s)

\* The constraints are those of atoms in R.
AreArgs(constraints, R) ==
  \A k \in 1..Len(constraints) : \E n \in R : constraints[k] = ArgsOf(n)

\* The constraints of type t gathered when s is still to be visited: those met,
\* all of which precede those not met.
Gathered(constraints, t, s) ==
  /\ Lists(constraints, Met(t, s))
  /\ AreArgs(constraints, Met(t, s))
  /\ \A m \in Met(t, s) : \A p \in Pending(s) : ast.type_[p] = t => m < p

\* A constraint appended for the last atom is the last of the list.
LEMMA ListsAppended ==
  ASSUME IsAst(ast), NEW R \in SUBSET AstNodes, NEW n \in AstNodes,
         \A m \in R : m < n, NEW X, NEW constraints \in Seq(X), NEW c \in X,
         c = ArgsOf(n), Lists(constraints, R), AreArgs(constraints, R)
  PROVE  Lists(constraints \o <<c>>, R \cup {n}) /\ AreArgs(constraints \o <<c>>, R \cup {n})
<1> DEFINE Q == R \cup {n}
           Upto(m) == {x \in Q : x <= m}
           UptoR(m) == {x \in R : x <= m}
           L == Len(constraints)
           v == constraints \o <<c>>
<1>1. RootNode \in Nat /\ AstNodes = 1..RootNode  BY AstFacts
<1>2. IsFiniteSet(R)
  <2>1. IsFiniteSet(1..RootNode)  BY <1>1, FS_Interval
  <2>2. QED BY <1>1, <2>1, FS_Subset
<1>3. n \notin R /\ \A m \in R : m \in Int /\ m <= n /\ ~ (n <= m)
  BY <1>1
<1>4. L = Cardinality(R) /\ Cardinality(R) \in Nat /\ Cardinality(Q) = L + 1
  <2>1. L = Cardinality(R)  BY DEF Lists
  <2>2. Cardinality(R) \in Nat  BY <1>2, FS_CardinalityType
  <2>3. Cardinality(R \cup {n}) = Cardinality(R) + 1  BY <1>2, <1>3, FS_AddElement
  <2>4. QED BY <2>1, <2>2, <2>3
<1>5. /\ Len(v) = L + 1 /\ v[L + 1] = c
      /\ \A i \in 1..L : v[i] = constraints[i]
  BY <1>4
<1>6. ASSUME NEW m \in R PROVE v[Cardinality(Upto(m))] = ArgsOf(m)
  <2>1. Upto(m) = UptoR(m)  BY <1>3
  <2>2. UptoR(m) \subseteq R /\ m \in UptoR(m)  BY <1>3
  <2> HIDE DEF Upto, UptoR, v, L
  <2>3. IsFiniteSet(UptoR(m)) /\ Cardinality(UptoR(m)) <= Cardinality(R)
    BY <1>2, <2>2, FS_Subset
  <2>4. Cardinality(UptoR(m)) \in Nat /\ Cardinality(UptoR(m)) # 0
    <3>1. UptoR(m) # {}  BY <2>2
    <3>2. QED BY <2>3, <3>1, FS_CardinalityType, FS_EmptySet
  <2>5. Cardinality(UptoR(m)) \in 1..L  BY <1>4, <2>3, <2>4
  <2>6. constraints[Cardinality(UptoR(m))] = ArgsOf(m)  BY DEF Lists, UptoR
  <2>7. QED BY <1>5, <2>1, <2>5, <2>6
<1>7. v[Cardinality(Upto(n))] = ArgsOf(n)
  <2>1. Upto(n) = Q
    <3>1. n <= n  BY <1>1
    <3>2. \A x \in Q : x <= n  BY <1>3, <3>1
    <3> HIDE DEF Q
    <3>3. QED BY <3>2
  <2> HIDE DEF Upto, Q, v, L
  <2>2. QED BY <1>4, <1>5, <2>1
<1> HIDE DEF v, L
<1>8. \A m \in Q : v[Cardinality({x \in Q : x <= m})] = ArgsOf(m)  BY <1>6, <1>7
<1>9. Len(v) = Cardinality(Q)  BY <1>4, <1>5
<1>10. AreArgs(v, Q)
  <2>1. \A k \in 1..Len(v) : k \in 1..L \/ k = L + 1  BY <1>4, <1>5
  <2>2. \A k \in 1..L : \E m \in Q : v[k] = ArgsOf(m)  BY <1>5 DEF AreArgs, L
  <2>3. QED BY <1>5, <2>1, <2>2 DEF AreArgs
<1>11. QED BY <1>8, <1>9, <1>10 DEF Lists, v

\* What one visit of Gather... adds to the constraints.
LEMMA GatherVisit ==
  ASSUME TableInv, phase \in {"equality", "inequality"}, NEW s \in Seq(AstNodes), s # << >>,
         InOrder(s), NEW t \in {"equal", "not_equal"},
         NEW constraints \in Seq(DagNodes \X DagNodes), Gathered(constraints, t, s),
         NEW n, n = Head(s), NEW u, u = ast.children_[n] \o Tail(s)
  PROVE  /\ constraints \o Constraint(n, t) \in Seq(DagNodes \X DagNodes)
         /\ Gathered(constraints \o Constraint(n, t), t, u)
<1>1. /\ IsAst(ast) /\ RootNode \in Nat /\ AstNodes = 1..RootNode /\ at = RootNode + 1
      /\ Len(sub_formulae_) \in Nat
  BY AstFacts DEF TableInv, NodeTable
<1>2. /\ n \in AstNodes /\ n \in Pending(s) /\ Pending(s) \subseteq AstNodes
      /\ Pending(u) = Pending(s) \ {n}
      /\ \A p \in Pending(u) : p <= n => p \in First[n]..n - 1
  BY <1>1, VisitOrder
<1>3. CASE ast.type_[n] # t
  <2>1. constraints \o Constraint(n, t) = constraints  BY <1>3 DEF Constraint
  <2>2. Met(t, u) = Met(t, s)  BY <1>2, <1>3 DEF Met, AtomsOf
  <2>3. QED BY <1>2, <2>1, <2>2 DEF Gathered
<1>4. CASE ast.type_[n] = t
  <2>1. /\ ast.children_[n] \in Seq(AstNodes) /\ Len(ast.children_[n]) = 2
        /\ ast.type_[n] \in {"equal", "not_equal"}
    BY <1>1, <1>2, <1>4, AstFacts
  <2>2. Child(n, 1) \in Visited /\ Child(n, 2) \in Visited
    <3>1. n <= at /\ at \in Int  BY <1>1, <1>2
    <3>2. \A k \in 1..Len(ast.children_[n]) : Child(n, k) \in Visited
      BY <1>1, <1>2, <2>1, <3>1, ArgumentsVisited
    <3>3. QED BY <2>1, <3>2
  <2>3. /\ ArgsOf(n) = <<DiscoverDagNode(Child(n, 1)), DiscoverDagNode(Child(n, 2))>>
        /\ ArgsOf(n) \in DagNodes \X DagNodes
    <3> DEFINE a == ast_fun_dag_node_map_[Child(n, 1)]
               b == ast_fun_dag_node_map_[Child(n, 2)]
    <3>1. /\ DiscoverDagNode(Child(n, 1)) = a /\ DiscoverDagNode(Child(n, 2)) = b
          /\ a \in DagNodes /\ b \in DagNodes
      BY <1>1, <2>2, DiscoverVisited DEF TableInv
    <3>2. DOMAIN ast.children_[n] = 1..2  BY <2>1
    <3>3. ArgsOf(n) = [k \in 1..2 |-> ast_fun_dag_node_map_[ast.children_[n][k]]]
      BY <3>2 DEF ArgsOf
    <3>4. ArgsOf(n) = <<a, b>>  BY <3>3 DEF Child
    <3>5. QED BY <3>1, <3>4
  <2> DEFINE c == ArgsOf(n)
             X == DagNodes \X DagNodes
  <2>4. constraints \o Constraint(n, t) = constraints \o <<c>>
    BY <1>4, <2>3 DEF Constraint, Child
  <2>5. Met(t, u) = Met(t, s) \cup {n} /\ Met(t, s) \in SUBSET AstNodes
    BY <1>2, <1>4 DEF Met, AtomsOf
  <2>6. \A m \in Met(t, s) : m < n  BY <1>2, <1>4 DEF Gathered
  <2>7. Lists(constraints \o <<c>>, Met(t, u)) /\ AreArgs(constraints \o <<c>>, Met(t, u))
    <3>1. c \in X /\ constraints \in Seq(X) /\ c = ArgsOf(n)  BY <2>3
    <3>2. Lists(constraints, Met(t, s)) /\ AreArgs(constraints, Met(t, s))  BY DEF Gathered
    <3> HIDE DEF c, X
    <3>3. Met(t, s) \in SUBSET AstNodes /\ n \in AstNodes /\ IsAst(ast)
      BY <1>1, <1>2, <2>5
    <3>4. /\ Lists(constraints \o <<c>>, Met(t, s) \cup {n})
          /\ AreArgs(constraints \o <<c>>, Met(t, s) \cup {n})
      BY <2>6, <3>1, <3>2, <3>3, ListsAppended, Zenon
    <3>5. QED BY <2>5, <3>4
  <2>8. ASSUME NEW m \in Met(t, u), NEW p \in Pending(u), ast.type_[p] = t PROVE m < p
    <3>1. CASE m \in Met(t, s)  BY <1>2, <2>8, <3>1 DEF Gathered
    <3>2. CASE m = n
      <4>1. p \notin First[n]..n - 1
        <5>1. \A q \in First[n]..n - 1 : IsTerm(q)  BY <1>1, <1>2, <2>1, AtomSubtree
        <5>2. ~ IsTerm(p)  BY <2>8 DEF IsTerm
        <5>3. QED BY <5>1, <5>2
      <4>2. ~ (p <= n) /\ p \in AstNodes  BY <1>2, <2>8, <4>1
      <4>3. QED BY <1>1, <1>2, <3>2, <4>2
    <3>3. QED BY <2>5, <3>1, <3>2
  <2>9. constraints \o <<c>> \in Seq(X)
    <3>1. c \in X /\ constraints \in Seq(X)  BY <2>3
    <3> HIDE DEF c, X
    <3>2. QED BY <3>1
  <2>10. QED BY <2>4, <2>7, <2>8, <2>9 DEF Gathered
<1>5. QED BY <1>3, <1>4

\* The invariant of the recursion of Gather...: what is still to be visited is
\* in order, and the constraints are the atoms not below it.
GatherInv ==
  /\ todo \in Seq(AstNodes) /\ InOrder(todo)
  /\ sub_formulae_equality_ \in Seq(DagNodes \X DagNodes)
  /\ sub_formulae_inequality_ \in Seq(DagNodes \X DagNodes)
  /\ phase \in {"generate", "abort"} =>
       todo = << >> /\ sub_formulae_equality_ = << >> /\ sub_formulae_inequality_ = << >>
  /\ phase = "equality" =>
       Gathered(sub_formulae_equality_, "equal", todo) /\ sub_formulae_inequality_ = << >>
  /\ phase \in {"inequality", "built"} =>
       /\ Gathered(sub_formulae_equality_, "equal", << >>)
       /\ Gathered(sub_formulae_inequality_, "not_equal", todo)
  /\ phase = "built" => todo = << >>

\* Before the first visit nothing is gathered and everything to be visited.
LEMMA GatherStart ==
  ASSUME IsAst(ast), NEW t
  PROVE  <<RootNode>> \in Seq(AstNodes) /\ InOrder(<<RootNode>>) /\ Gathered(<< >>, t, <<RootNode>>)
<1>1. RootNode \in Nat /\ AstNodes = 1..RootNode /\ RootNode \in AstNodes /\ First[RootNode] = 1
  BY AstFacts, FirstFacts
<1>2. Len(<<RootNode>>) = 1 /\ <<RootNode>>[1] = RootNode  OBVIOUS
<1>3. <<RootNode>> \in Seq(AstNodes) /\ InOrder(<<RootNode>>)  BY <1>1, <1>2 DEF InOrder
<1>4. Pending(<<RootNode>>) = AstNodes
  <2>1. Subtree(RootNode) = AstNodes  BY <1>1 DEF Subtree
  <2>2. 1..1 = {1}  OBVIOUS
  <2>3. QED BY <1>2, <2>1, <2>2 DEF Pending
<1>5. Met(t, <<RootNode>>) = {}  BY <1>4 DEF Met, AtomsOf
<1>6. Lists(<< >>, {}) /\ AreArgs(<< >>, {})  BY FS_EmptySet DEF Lists, AreArgs
<1>7. QED BY <1>3, <1>5, <1>6 DEF Gathered

\* What is said of the constraints depends on the tree and the table only.
LEMMA GatheredUnchanged ==
  ASSUME UNCHANGED <<ast, ast_fun_dag_node_map_>>, NEW t
  PROVE  /\ Gathered(sub_formulae_equality_, t, todo)' <=>
              Gathered(sub_formulae_equality_', t, todo')
         /\ Gathered(sub_formulae_equality_, t, << >>)' <=>
              Gathered(sub_formulae_equality_', t, << >>)
         /\ Gathered(sub_formulae_inequality_, t, todo)' <=>
              Gathered(sub_formulae_inequality_', t, todo')
         /\ InOrder(todo)' <=> InOrder(todo')
<1>1. First' = First  BY DEF First
<1>2. AtomsOf(t)' = AtomsOf(t) /\ \A n : ArgsOf(n)' = ArgsOf(n)
  BY DEF AtomsOf, AstNodes, ArgsOf
<1>3. Pending(todo)' = Pending(todo') /\ Pending(<< >>)' = Pending(<< >>)
  BY <1>1 DEF Pending, Subtree
<1>4. Met(t, todo)' = Met(t, todo') /\ Met(t, << >>)' = Met(t, << >>)
  BY <1>2, <1>3 DEF Met
<1>5. /\ Lists(sub_formulae_equality_, Met(t, todo))' <=>
           Lists(sub_formulae_equality_', Met(t, todo'))
      /\ Lists(sub_formulae_equality_, Met(t, << >>))' <=>
           Lists(sub_formulae_equality_', Met(t, << >>))
      /\ Lists(sub_formulae_inequality_, Met(t, todo))' <=>
           Lists(sub_formulae_inequality_', Met(t, todo'))
  BY <1>2, <1>4 DEF Lists
<1>6. /\ AreArgs(sub_formulae_equality_, Met(t, todo))' <=>
           AreArgs(sub_formulae_equality_', Met(t, todo'))
      /\ AreArgs(sub_formulae_equality_, Met(t, << >>))' <=>
           AreArgs(sub_formulae_equality_', Met(t, << >>))
      /\ AreArgs(sub_formulae_inequality_, Met(t, todo))' <=>
           AreArgs(sub_formulae_inequality_', Met(t, todo'))
  BY <1>2, <1>4 DEF AreArgs
<1>7. QED BY <1>1, <1>3, <1>4, <1>5, <1>6 DEF Gathered, InOrder

LEMMA GatherInit == Init => GatherInv
BY DEF Init, GatherInv, InOrder

LEMMA GatherStep == TableInv /\ TableInv' /\ GatherInv /\ [Next]_builder => GatherInv'
<1> SUFFICES ASSUME TableInv, TableInv', GatherInv, [Next]_builder PROVE GatherInv'
  OBVIOUS
<1>1. IsAst(ast) /\ InOrder(<< >>)  BY DEF TableInv, InOrder
<1>2. CASE GenerateSubFormulae \/ Abort
  <2>1. /\ phase \in {"generate", "abort"} /\ phase' \in {"generate", "abort"}
        /\ UNCHANGED <<todo, sub_formulae_equality_, sub_formulae_inequality_>>
    BY <1>2 DEF GenerateSubFormulae, Abort
  <2>2. /\ todo' = << >> /\ sub_formulae_equality_' = << >>
        /\ sub_formulae_inequality_' = << >>
    BY <2>1 DEF GatherInv
  <2>3. InOrder(todo)'  BY <2>2 DEF InOrder
  <2>4. QED BY <2>1, <2>2, <2>3 DEF GatherInv
<1>3. ASSUME UNCHANGED <<ast, sub_formulae_, ast_fun_dag_node_map_>>,
             todo' \in Seq(AstNodes), InOrder(todo'),
             sub_formulae_equality_' \in Seq(DagNodes \X DagNodes),
             sub_formulae_inequality_' \in Seq(DagNodes \X DagNodes),
             phase' \in {"generate", "abort"} =>
               todo' = << >> /\ sub_formulae_equality_' = << >> /\ sub_formulae_inequality_' = << >>,
             phase' = "equality" =>
               Gathered(sub_formulae_equality_', "equal", todo') /\ sub_formulae_inequality_' = << >>,
             phase' \in {"inequality", "built"} =>
               /\ Gathered(sub_formulae_equality_', "equal", << >>)
               /\ Gathered(sub_formulae_inequality_', "not_equal", todo'),
             phase' = "built" => todo' = << >>
      PROVE  GatherInv'
  <2>1. AstNodes' = AstNodes /\ DagNodes' = DagNodes  BY <1>3 DEF AstNodes, DagNodes
  <2>2. QED BY <1>3, <2>1, GatheredUnchanged DEF GatherInv
<1>4. CASE StartEqualities
  <2>1. /\ sub_formulae_equality_' = << >> /\ sub_formulae_inequality_' = << >>
        /\ todo' = <<RootNode>> /\ phase' = "equality"
        /\ UNCHANGED <<ast, sub_formulae_, ast_fun_dag_node_map_>>
    BY <1>4 DEF StartEqualities, GatherInv
  <2>2. todo' \in Seq(AstNodes) /\ InOrder(todo') /\ Gathered(<< >>, "equal", todo')
    BY <1>1, <2>1, GatherStart
  <2>3. QED BY <1>3, <2>1, <2>2
<1>5. CASE StartInequalities
  <2>1. /\ sub_formulae_equality_' = sub_formulae_equality_ /\ sub_formulae_inequality_' = << >>
        /\ todo = << >> /\ todo' = <<RootNode>> /\ phase' = "inequality"
        /\ UNCHANGED <<ast, sub_formulae_, ast_fun_dag_node_map_>>
        /\ Gathered(sub_formulae_equality_, "equal", << >>)
        /\ sub_formulae_equality_ \in Seq(DagNodes \X DagNodes)
    BY <1>5 DEF StartInequalities, GatherInv
  <2>2. todo' \in Seq(AstNodes) /\ InOrder(todo') /\ Gathered(<< >>, "not_equal", todo')
    BY <1>1, <2>1, GatherStart
  <2>3. QED BY <1>3, <2>1, <2>2
<1>6. CASE Built
  BY <1>3, <1>6 DEF Built, GatherInv
<1>7. CASE UNCHANGED builder
  BY <1>3, <1>7 DEF builder, GatherInv
<1>8. ASSUME todo # << >>, VisitChildren
      PROVE  todo' \in Seq(AstNodes) /\ InOrder(todo')
  <2>1. todo \in Seq(AstNodes) /\ InOrder(todo)  BY DEF GatherInv
  <2>2. todo' = ast.children_[Head(todo)] \o Tail(todo)  BY <1>8 DEF VisitChildren
  <2>3. QED BY <1>1, <1>8, <2>1, <2>2, VisitOrder
<1>9. CASE GatherEqualityConstraints
  <2>1. /\ phase = "equality" /\ phase' = "equality" /\ todo # << >> /\ VisitChildren
        /\ todo \in Seq(AstNodes) /\ InOrder(todo)
        /\ todo' = ast.children_[Head(todo)] \o Tail(todo)
        /\ UNCHANGED <<ast, sub_formulae_, ast_fun_dag_node_map_>>
        /\ sub_formulae_equality_' = sub_formulae_equality_ \o Constraint(Head(todo), "equal")
        /\ sub_formulae_inequality_' = << >>
        /\ Gathered(sub_formulae_equality_, "equal", todo)
        /\ sub_formulae_equality_ \in Seq(DagNodes \X DagNodes)
    BY <1>9 DEF GatherEqualityConstraints, GatherInv, VisitChildren
  <2>2. /\ sub_formulae_equality_' \in Seq(DagNodes \X DagNodes)
        /\ Gathered(sub_formulae_equality_', "equal", todo')
    BY <2>1, GatherVisit
  <2>3. QED BY <1>3, <1>8, <2>1, <2>2
<1>10. CASE GatherInEqualityConstraints
  <2>1. /\ phase = "inequality" /\ phase' = "inequality" /\ todo # << >> /\ VisitChildren
        /\ todo \in Seq(AstNodes) /\ InOrder(todo)
        /\ todo' = ast.children_[Head(todo)] \o Tail(todo)
        /\ UNCHANGED <<ast, sub_formulae_, ast_fun_dag_node_map_>>
        /\ sub_formulae_inequality_' =
             sub_formulae_inequality_ \o Constraint(Head(todo), "not_equal")
        /\ sub_formulae_equality_' = sub_formulae_equality_
        /\ sub_formulae_equality_ \in Seq(DagNodes \X DagNodes)
        /\ Gathered(sub_formulae_equality_, "equal", << >>)
        /\ Gathered(sub_formulae_inequality_, "not_equal", todo)
        /\ sub_formulae_inequality_ \in Seq(DagNodes \X DagNodes)
    BY <1>10 DEF GatherInEqualityConstraints, GatherInv, VisitChildren
  <2>2. /\ sub_formulae_inequality_' \in Seq(DagNodes \X DagNodes)
        /\ Gathered(sub_formulae_inequality_', "not_equal", todo')
    BY <2>1, GatherVisit
  <2>3. QED BY <1>3, <1>8, <2>1, <2>2
<1>11. QED BY <1>2, <1>4, <1>5, <1>6, <1>7, <1>9, <1>10 DEF Next

LEMMA GatherInvariant == Spec => [](TableInv /\ GatherInv)
<1>1. Init => TableInv /\ GatherInv  BY TableInit, GatherInit
<1>2. TableInv /\ GatherInv /\ [Next]_builder => (TableInv /\ GatherInv)'
  BY TableStep, GatherStep
<1>3. QED BY <1>1, <1>2, PTL DEF Spec

\* When the constraints are gathered, they are those of all atoms.
LEMMA BuiltFacts ==
  ASSUME TableInv, GatherInv, phase = "built"
  PROVE  /\ Lists(sub_formulae_equality_, AtomsOf("equal"))
         /\ AreArgs(sub_formulae_equality_, AtomsOf("equal"))
         /\ Lists(sub_formulae_inequality_, AtomsOf("not_equal"))
         /\ AreArgs(sub_formulae_inequality_, AtomsOf("not_equal"))
<1>1. \A t : Met(t, << >>) = AtomsOf(t)  BY DEF Met, Pending
<1>2. QED BY <1>1 DEF GatherInv, Gathered

\* The constraints handed over are the atoms of the formula, all of them and
\* once each, in the order of the text, whatever the formula.
THEOREM ConstraintsAlwaysGathered == Spec => []ConstraintsGathered
<1>1. TableInv /\ GatherInv => ConstraintsGathered  BY BuiltFacts DEF ConstraintsGathered
<1>2. QED BY <1>1, GatherInvariant, PTL

\* The state keeps its type: every DagNode is created after its arguments, and
\* the terms visited have one.
THEOREM AlwaysTyped == Spec => []TypeOK
<1>1. TableInv /\ GatherInv => TypeOK
  <2> SUFFICES ASSUME TableInv, GatherInv PROVE TypeOK
    OBVIOUS
  <2>1. RootNode \in Nat /\ AstNodes = 1..RootNode  BY AstFacts DEF TableInv
  <2>2. ASSUME NEW n \in 1..at - 1, IsTerm(n) PROVE ast_fun_dag_node_map_[n] # 0
    <3>1. n \in Visited  BY <2>1, <2>2 DEF TableInv, Visited
    <3>2. ast_fun_dag_node_map_[n] \in DagNodes  BY <3>1 DEF TableInv, Shared, IsFirstMatch
    <3>3. QED BY <3>2 DEF DagNodes
  <2>3. QED BY <2>2 DEF TypeOK, TableInv, GatherInv, NodeTable, Shared, RootNode
<1>2. QED BY <1>1, GatherInvariant, PTL
=============================================================================

--------------------------- MODULE TseitinProofs ----------------------------
(***************************************************************************)
(* Proofs about Tseitin for every set of formulas: the program writes a     *)
(* well-formed file whose models are those of the formula.                  *)
(***************************************************************************)
EXTENDS Tseitin, Recursion

-----------------------------------------------------------------------------
(* Sequences.                                                              *)

\* Two sequences one after the other.
LEMMA Concatenated ==
  ASSUME NEW S, NEW a \in Seq(S), NEW b \in Seq(S)
  PROVE  /\ a \o b \in Seq(S)
         /\ Len(a) \in Nat /\ Len(b) \in Nat
         /\ Len(a \o b) = Len(a) + Len(b)
         /\ \A k \in 1..Len(a) : (a \o b)[k] = a[k]
         /\ \A k \in 1..Len(b) : (a \o b)[Len(a) + k] = b[k]
         /\ \A k \in 1..Len(a \o b) :
              (a \o b)[k] = IF k <= Len(a) THEN a[k] ELSE b[k - Len(a)]
OBVIOUS

\* An entry between two sequences.
LEMMA WithMiddle ==
  ASSUME NEW S, NEW a \in Seq(S), NEW e \in S, NEW b \in Seq(S)
  PROVE  /\ a \o <<e>> \o b \in Seq(S) /\ a \o <<e>> \o b # << >>
         /\ Len(a \o <<e>> \o b) = Len(a) + 1 + Len(b)
         /\ \A k \in 1..Len(a) + 1 + Len(b) :
              (a \o <<e>> \o b)[k] = IF k <= Len(a) THEN a[k]
                                     ELSE IF k = Len(a) + 1 THEN e ELSE b[k - Len(a) - 1]
<1>1. <<e>> \in Seq(S) /\ Len(<<e>>) = 1 /\ <<e>>[1] = e  OBVIOUS
<1> DEFINE m == <<e>>
<1>2. m \in Seq(S) /\ Len(m) = 1 /\ m[1] = e  BY <1>1
<1> HIDE DEF m
<1> DEFINE c == a \o m
<1>3. /\ c \in Seq(S) /\ Len(a) \in Nat /\ Len(c) = Len(a) + 1
      /\ \A k \in 1..Len(c) : c[k] = IF k <= Len(a) THEN a[k] ELSE m[k - Len(a)]
  <2>1. /\ a \o m \in Seq(S) /\ Len(a) \in Nat /\ Len(a \o m) = Len(a) + Len(m)
        /\ \A k \in 1..Len(a \o m) : (a \o m)[k] = IF k <= Len(a) THEN a[k] ELSE m[k - Len(a)]
    <3>1. m \in Seq(S)  BY <1>2
    <3>2. QED BY <3>1, Concatenated
  <2>2. QED BY <1>2, <2>1
<1> HIDE DEF c
<1>4. /\ c \o b \in Seq(S) /\ Len(b) \in Nat /\ Len(c \o b) = Len(c) + Len(b)
      /\ \A k \in 1..Len(c \o b) : (c \o b)[k] = IF k <= Len(c) THEN c[k] ELSE b[k - Len(c)]
  <2>1. c \in Seq(S) /\ b \in Seq(S)  BY <1>3
  <2>2. QED BY <2>1, Concatenated
<1> DEFINE d == c \o b
<1> HIDE DEF d
<1>5. /\ d \in Seq(S) /\ Len(b) \in Nat /\ Len(d) = Len(a) + 1 + Len(b)
      /\ \A k \in 1..Len(d) : d[k] = IF k <= Len(c) THEN c[k] ELSE b[k - Len(c)]
  BY <1>3, <1>4 DEF d
<1>6. d # << >>  BY <1>3, <1>5
<1>7. \A k \in 1..Len(a) + 1 + Len(b) :
        d[k] = IF k <= Len(a) THEN a[k]
               ELSE IF k = Len(a) + 1 THEN e ELSE b[k - Len(a) - 1]
  <2> TAKE k \in 1..Len(a) + 1 + Len(b)
  <2>1. CASE k <= Len(a)  BY <1>3, <1>5, <2>1
  <2>2. CASE k = Len(a) + 1
    <3>1. k \in 1..Len(c) /\ k - Len(a) = 1 /\ ~ (k <= Len(a))  BY <1>3, <2>2
    <3>2. c[k] = m[1]  BY <1>3, <3>1
    <3>3. QED BY <1>2, <1>3, <1>5, <2>2, <3>1, <3>2
  <2>3. CASE k > Len(a) + 1
    <3>1. ~ (k <= Len(c)) /\ k - Len(c) = k - Len(a) - 1  BY <1>3, <2>3
    <3>2. QED BY <1>3, <1>5, <2>3, <3>1
  <2>4. QED BY <1>3, <2>1, <2>2, <2>3
<1>8. QED BY <1>5, <1>6, <1>7 DEF d, c, m

\* The entries of two sequences one after the other.
Entries(s) == {s[k] : k \in DOMAIN s}

LEMMA JoinedEntries ==
  ASSUME NEW S, NEW a \in Seq(S), NEW b \in Seq(S)
  PROVE  Entries(a \o b) = Entries(a) \cup Entries(b)
<1> DEFINE c == a \o b
<1>1. /\ c \in Seq(S) /\ Len(a) \in Nat /\ Len(b) \in Nat /\ Len(c) = Len(a) + Len(b)
      /\ \A k \in 1..Len(a) : c[k] = a[k]
      /\ \A k \in 1..Len(b) : c[Len(a) + k] = b[k]
  BY Concatenated
<1> HIDE DEF c
<1>2. DOMAIN c = 1..Len(c) /\ DOMAIN a = 1..Len(a) /\ DOMAIN b = 1..Len(b)  BY <1>1
<1>3. ASSUME NEW k \in DOMAIN c
      PROVE  c[k] \in {a[j] : j \in DOMAIN a} \cup {b[j] : j \in DOMAIN b}
  <2>1. CASE k <= Len(a)  BY <1>1, <1>2, <2>1
  <2>2. CASE ~ (k <= Len(a))
    <3>1. k - Len(a) \in DOMAIN b /\ k = Len(a) + (k - Len(a))  BY <1>1, <1>2, <2>2
    <3>2. c[k] = b[k - Len(a)]  BY <1>1, <1>2, <3>1
    <3>3. QED BY <3>1, <3>2
  <2>3. QED BY <2>1, <2>2
<1>4. ASSUME NEW k \in DOMAIN a PROVE a[k] \in {c[j] : j \in DOMAIN c}
  <2>1. k \in DOMAIN c  BY <1>1, <1>2
  <2>2. QED BY <1>1, <1>2, <2>1
<1>5. ASSUME NEW k \in DOMAIN b PROVE b[k] \in {c[j] : j \in DOMAIN c}
  <2>1. Len(a) + k \in DOMAIN c  BY <1>1, <1>2
  <2>2. QED BY <1>1, <1>2, <2>1
<1>6. QED BY <1>3, <1>4, <1>5 DEF c, Entries

-----------------------------------------------------------------------------
(* Trees and their levels.                                                 *)

Leaf == {Null, Failed}

\* The types of the fields of a node.
Node == Operators \cup {"var"}

\* The recursive definition of TreesUpTo has a solution.
LEMMA Levels ==
  /\ MaxHeight \in Nat
  /\ TreesUpTo[0] = Leaf
  /\ \A n \in 1..MaxHeight :
       TreesUpTo[n] = Leaf \cup [type_ : Node, var_name_ : Names,
                                 left_ : TreesUpTo[n - 1], right_ : TreesUpTo[n - 1]]
<1> DEFINE Level(T, n) ==
             Leaf \cup IF n = 0 THEN {}
                       ELSE [type_ : Node, var_name_ : Names, left_ : T[n - 1], right_ : T[n - 1]]
           Prefix(N) == \E T : T = [n \in 0..N |-> Level(T, n)]
           S == {N \in Nat : Prefix(N)}
<1>1. MaxHeight \in Nat  BY MaxHeightAssumption
<1>2. 0 \in S
  <2> DEFINE T == [n \in 0..0 |-> Leaf]
  <2>1. T = [n \in 0..0 |-> Level(T, n)]  OBVIOUS
  <2> HIDE DEF T
  <2>2. QED BY <2>1
<1>3. ASSUME NEW N \in Nat, N \in S PROVE N + 1 \in S
  <2>1. PICK T : T = [n \in 0..N |-> Level(T, n)]  BY <1>3
  <2> DEFINE U == [n \in 0..N + 1 |-> Level(T, n)]
  <2>2. \A n \in 0..N : U[n] = T[n]
    <3>1. \A n \in 0..N : T[n] = Level(T, n)  BY <2>1
    <3> HIDE DEF Level
    <3>2. QED BY <3>1
  <2>3. \A n \in 0..N + 1 : Level(U, n) = Level(T, n)
    <3> SUFFICES ASSUME NEW n \in 0..N + 1 PROVE Level(U, n) = Level(T, n)  OBVIOUS
    <3>1. CASE n = 0  BY <3>1
    <3>2. CASE n # 0
      <4>1. U[n - 1] = T[n - 1]
        <5>1. n - 1 \in 0..N  BY <3>2
        <5> HIDE DEF U
        <5>2. QED BY <5>1, <2>2
      <4> HIDE DEF U
      <4>2. QED BY <4>1, <3>2
    <3>3. QED BY <3>1, <3>2
  <2>4. U = [n \in 0..N + 1 |-> Level(U, n)]
    <3> HIDE DEF Level
    <3>1. QED BY <2>3
  <2> HIDE DEF U, Level
  <2>5. Prefix(N + 1)  BY <2>4
  <2>6. QED BY <2>5
<1>4. MaxHeight \in S
  <2> HIDE DEF S
  <2>1. Nat \subseteq S  BY <1>2, <1>3, SetInduction
  <2>2. QED BY <2>1, <1>1
<1>5. TreesUpTo = CHOOSE T : T = [n \in 0..MaxHeight |-> Level(T, n)]
  BY DEF TreesUpTo, Leaf, Node
<1> HIDE DEF Level
<1>6. TreesUpTo = [n \in 0..MaxHeight |-> Level(TreesUpTo, n)]  BY <1>4, <1>5
<1>7. \A n \in 0..MaxHeight : TreesUpTo[n] = Level(TreesUpTo, n)  BY <1>6
<1>8. QED BY <1>1, <1>7 DEF Level

\* A level contains those below.
LEMMA LevelsGrow ==
  /\ \A n \in 0..MaxHeight : Leaf \subseteq TreesUpTo[n]
  /\ \A m, n \in 0..MaxHeight : m <= n => TreesUpTo[m] \subseteq TreesUpTo[n]
<1> DEFINE S == {n \in Nat : n + 1 <= MaxHeight => TreesUpTo[n] \subseteq TreesUpTo[n + 1]}
<1>1. \A n \in 0..MaxHeight : Leaf \subseteq TreesUpTo[n]
  <2> TAKE n \in 0..MaxHeight
  <2>1. n = 0 \/ n \in 1..MaxHeight  BY Levels
  <2>2. QED BY <2>1, Levels
<1>2. 0 \in S
  <2>1. MaxHeight \in Nat  BY Levels
  <2>2. 1 <= MaxHeight => TreesUpTo[0] \subseteq TreesUpTo[1]  BY <2>1, Levels, <1>1
  <2>3. QED BY <2>2
<1>3. ASSUME NEW n \in Nat, n \in S PROVE n + 1 \in S
  <2> SUFFICES ASSUME n + 2 <= MaxHeight
               PROVE  TreesUpTo[n + 1] \subseteq TreesUpTo[n + 2]
    OBVIOUS
  <2>1. MaxHeight \in Nat /\ n + 1 \in 1..MaxHeight /\ n + 2 \in 1..MaxHeight  BY Levels
  <2>2. TreesUpTo[n] \subseteq TreesUpTo[n + 1]  BY <1>3, <2>1
  <2>3. TreesUpTo[n + 1] = Leaf \cup [type_ : Node, var_name_ : Names,
                                      left_ : TreesUpTo[n], right_ : TreesUpTo[n]]
    <3>1. (n + 1) - 1 = n  OBVIOUS
    <3>2. QED BY <2>1, <3>1, Levels
  <2>4. TreesUpTo[n + 2] = Leaf \cup [type_ : Node, var_name_ : Names,
                                      left_ : TreesUpTo[n + 1], right_ : TreesUpTo[n + 1]]
    <3>1. (n + 2) - 1 = n + 1  OBVIOUS
    <3>2. QED BY <2>1, <3>1, Levels
  <2>5. QED BY <2>2, <2>3, <2>4
<1>4. \A n \in Nat : n + 1 <= MaxHeight => TreesUpTo[n] \subseteq TreesUpTo[n + 1]
  <2>1. Nat \subseteq S
    <3> HIDE DEF S
    <3>1. QED BY <1>2, <1>3, SetInduction
  <2>2. QED BY <2>1
<1> DEFINE U(m) == {k \in Nat : m + k <= MaxHeight => TreesUpTo[m] \subseteq TreesUpTo[m + k]}
<1>5. ASSUME NEW m \in 0..MaxHeight PROVE Nat \subseteq U(m)
  <2>0. MaxHeight \in Nat /\ m \in Nat  BY Levels
  <2>1. 0 \in U(m)  BY <2>0
  <2>2. ASSUME NEW k \in Nat, k \in U(m) PROVE k + 1 \in U(m)
    <3> SUFFICES ASSUME m + (k + 1) <= MaxHeight
                 PROVE  TreesUpTo[m] \subseteq TreesUpTo[m + (k + 1)]
      OBVIOUS
    <3>1. TreesUpTo[m] \subseteq TreesUpTo[m + k]  BY <2>0, <2>2
    <3>2. m + (k + 1) = (m + k) + 1 /\ m + k \in Nat  BY <2>0
    <3>3. TreesUpTo[m + k] \subseteq TreesUpTo[(m + k) + 1]  BY <1>4, <3>2
    <3>4. QED BY <3>1, <3>2, <3>3
  <2> HIDE DEF U
  <2>3. QED BY <2>1, <2>2, SetInduction
<1>6. ASSUME NEW m \in 0..MaxHeight, NEW n \in 0..MaxHeight, m <= n
      PROVE  TreesUpTo[m] \subseteq TreesUpTo[n]
  <2>1. n - m \in Nat /\ m + (n - m) = n /\ n <= MaxHeight  BY <1>6, Levels
  <2>2. n - m \in U(m)  BY <1>5, <2>1
  <2>3. QED BY <2>1, <2>2
<1>7. QED BY <1>1, <1>6

\* The fields of a node that is not a leaf.
LEMMA NodeFields ==
  ASSUME NEW n \in 0..MaxHeight, NEW t \in TreesUpTo[n], t \notin Leaf
  PROVE  /\ n \in 1..MaxHeight /\ n - 1 \in 0..MaxHeight
         /\ t = [type_ |-> t.type_, var_name_ |-> t.var_name_,
                 left_ |-> t.left_, right_ |-> t.right_]
         /\ t.type_ \in Node
         /\ t.var_name_ \in Names
         /\ t.left_ \in TreesUpTo[n - 1]
         /\ t.right_ \in TreesUpTo[n - 1]
<1>1. n # 0  BY Levels
<1>2. n \in 1..MaxHeight /\ n - 1 \in 0..MaxHeight  BY <1>1, Levels
<1>3. t \in [type_ : Node, var_name_ : Names, left_ : TreesUpTo[n - 1], right_ : TreesUpTo[n - 1]]
  BY <1>2, Levels
<1>4. QED BY <1>2, <1>3

\* A node of a level has children of the one below.
LEMMA NodeIn ==
  ASSUME NEW n \in 0..MaxHeight, n + 1 <= MaxHeight, NEW ty \in Node, NEW name \in Names,
         NEW l \in TreesUpTo[n], NEW r \in TreesUpTo[n]
  PROVE  /\ n + 1 \in 0..MaxHeight
         /\ [type_ |-> ty, var_name_ |-> name, left_ |-> l, right_ |-> r] \in TreesUpTo[n + 1]
<1>1. n + 1 \in 1..MaxHeight /\ (n + 1) - 1 = n  BY Levels
<1>2. TreesUpTo[n + 1] = Leaf \cup [type_ : Node, var_name_ : Names,
                                    left_ : TreesUpTo[n], right_ : TreesUpTo[n]]
  BY <1>1, Levels
<1>3. QED BY <1>1, <1>2

-----------------------------------------------------------------------------
(* Recursion over trees.                                                   *)

\* What Trees is closed under.
LEMMA TreesFacts ==
  /\ MaxHeight \in Nat
  /\ Null \in Trees /\ Failed \in Trees /\ Null # Failed
  /\ Null.type_ = "NULL" /\ Failed.type_ = "failed"
  /\ \A n \in 0..MaxHeight : TreesUpTo[n] \subseteq Trees
  /\ \A t \in Trees \ Leaf :
       /\ t = [type_ |-> t.type_, var_name_ |-> t.var_name_,
               left_ |-> t.left_, right_ |-> t.right_]
       /\ t.type_ \in Node
       /\ t.var_name_ \in Names
       /\ t.left_ \in Trees
       /\ t.right_ \in Trees
<1>1. MaxHeight \in Nat /\ MaxHeight \in 0..MaxHeight  BY Levels
<1>2. Null \in Trees /\ Failed \in Trees  BY <1>1, LevelsGrow DEF Trees, Leaf
<1>3. Null.type_ = "NULL" /\ Failed.type_ = "failed" /\ Null # Failed  BY DEF Null, Failed
<1>4. \A n \in 0..MaxHeight : TreesUpTo[n] \subseteq Trees
  BY <1>1, LevelsGrow DEF Trees
<1>5. ASSUME NEW t \in Trees, t \notin Leaf
      PROVE  /\ t = [type_ |-> t.type_, var_name_ |-> t.var_name_,
                     left_ |-> t.left_, right_ |-> t.right_]
             /\ t.type_ \in Node
             /\ t.var_name_ \in Names
             /\ t.left_ \in Trees
             /\ t.right_ \in Trees
  <2>1. t \in TreesUpTo[MaxHeight]  BY DEF Trees
  <2>2. MaxHeight - 1 \in 0..MaxHeight /\ TreesUpTo[MaxHeight - 1] \subseteq Trees
    BY <1>1, <1>4, <1>5, <2>1, NodeFields
  <2>3. QED BY <1>1, <1>5, <2>1, <2>2, NodeFields
<1>6. QED BY <1>1, <1>2, <1>3, <1>4, <1>5

\* A set holds all trees if it holds the leaves, and every node whose children
\* it holds.
LEMMA TreeInduction ==
  ASSUME NEW S, Leaf \subseteq S,
         \A t \in Trees \ Leaf : t.left_ \in S /\ t.right_ \in S => t \in S
  PROVE  Trees \subseteq S
<1> DEFINE H == {n \in Nat : n <= MaxHeight => TreesUpTo[n] \subseteq S}
<1>1. 0 \in H  BY Levels
<1>2. ASSUME NEW n \in Nat, n \in H PROVE n + 1 \in H
  <2> SUFFICES ASSUME n + 1 <= MaxHeight, NEW t \in TreesUpTo[n + 1] PROVE t \in S
    OBVIOUS
  <2>1. MaxHeight \in Nat /\ n + 1 \in 0..MaxHeight /\ (n + 1) - 1 = n  BY Levels
  <2>2. TreesUpTo[n] \subseteq S  BY <1>2, <2>1
  <2>3. t \in Trees  BY <2>1, TreesFacts
  <2>4. CASE t \in Leaf  BY <2>4
  <2>5. CASE t \notin Leaf
    <3>1. t.left_ \in TreesUpTo[n] /\ t.right_ \in TreesUpTo[n]  BY <2>1, <2>5, NodeFields
    <3>2. QED BY <2>2, <2>3, <2>5, <3>1
  <2>6. QED BY <2>4, <2>5
<1>3. Nat \subseteq H
  <2> HIDE DEF H
  <2>1. QED BY <1>1, <1>2, SetInduction
<1>4. MaxHeight \in H  BY <1>3, Levels
<1>5. QED BY <1>4, Levels DEF Trees

\* A function on trees may be defined from its values for the children: leaf is
\* its value for the leaves, and step makes of the values for the children,
\* which are in R[n], one for the node, in R[n + 1].
FoldData(R, leaf, step) ==
  /\ \A n \in 0..MaxHeight : \A t \in Leaf : leaf[t] \in R[n]
  /\ \A n \in 1..MaxHeight : \A t \in TreesUpTo[n] \ Leaf :
       \A a, b \in R[n - 1] : step[t][a][b] \in R[n]

IsFold(f, R, leaf, step) ==
  /\ DOMAIN f = Trees
  /\ f = [t \in Trees |-> f[t]]
  /\ \A t \in Leaf : f[t] = leaf[t]
  /\ \A t \in Trees \ Leaf : f[t] = step[t][f[t.left_]][f[t.right_]]
  /\ \A n \in 0..MaxHeight : \A t \in TreesUpTo[n] : f[t] \in R[n]

LEMMA FoldExists ==
  ASSUME NEW R, NEW leaf, NEW step, FoldData(R, leaf, step)
  PROVE  \E f : IsFold(f, R, leaf, step)
<1> DEFINE Body(f, t) == IF t \in Leaf THEN leaf[t] ELSE step[t][f[t.left_]][f[t.right_]]
           Good(n) == \E f : /\ f = [t \in TreesUpTo[n] |-> Body(f, t)]
                             /\ \A m \in 0..n : \A t \in TreesUpTo[m] : f[t] \in R[m]
           H == {n \in Nat : n <= MaxHeight => Good(n)}
<1>0. /\ \A n \in 0..MaxHeight : \A t \in Leaf : leaf[t] \in R[n]
      /\ \A n \in 1..MaxHeight : \A t \in TreesUpTo[n] \ Leaf :
           \A a, b \in R[n - 1] : step[t][a][b] \in R[n]
  BY DEF FoldData
<1>1. 0 \in H
  <2> DEFINE f == [t \in Leaf |-> leaf[t]]
  <2>1. MaxHeight \in Nat /\ 0 \in 0..MaxHeight /\ TreesUpTo[0] = Leaf  BY Levels
  <2>2. f = [t \in TreesUpTo[0] |-> Body(f, t)]  BY <2>1
  <2>3. \A t \in TreesUpTo[0] : f[t] \in R[0]  BY <1>0, <2>1
  <2> HIDE DEF f, Body
  <2>4. Good(0)  BY <2>2, <2>3
  <2>5. QED BY <2>4
<1>2. ASSUME NEW n \in Nat, n \in H PROVE n + 1 \in H
  <2> SUFFICES ASSUME n + 1 <= MaxHeight PROVE Good(n + 1)  OBVIOUS
  <2>1. /\ MaxHeight \in Nat /\ n \in 0..MaxHeight /\ n + 1 \in 1..MaxHeight
        /\ n + 1 \in 0..MaxHeight /\ (n + 1) - 1 = n
    BY Levels
  <2> HIDE DEF Body
  <2>2. PICK f : /\ f = [t \in TreesUpTo[n] |-> Body(f, t)]
                 /\ \A m \in 0..n : \A t \in TreesUpTo[m] : f[t] \in R[m]
    BY <1>2, <2>1
  <2> DEFINE g == [t \in TreesUpTo[n + 1] |-> Body(f, t)]
  <2>3. \A t \in TreesUpTo[n] : t \in TreesUpTo[n + 1] /\ g[t] = f[t]
    <3>1. TreesUpTo[n] \subseteq TreesUpTo[n + 1]  BY <2>1, LevelsGrow
    <3>2. \A t \in TreesUpTo[n] : f[t] = Body(f, t)  BY <2>2
    <3>3. QED BY <3>1, <3>2
  <2>4. \A t \in TreesUpTo[n + 1] \ Leaf :
          t.left_ \in TreesUpTo[n] /\ t.right_ \in TreesUpTo[n]
    BY <2>1, NodeFields
  <2>5. \A t \in TreesUpTo[n + 1] : Body(g, t) = Body(f, t)
    <3> HIDE DEF g
    <3>1. QED BY <2>3, <2>4 DEF Body
  <2>6. g = [t \in TreesUpTo[n + 1] |-> Body(g, t)]  BY <2>5
  <2>7. \A t \in TreesUpTo[n + 1] : g[t] \in R[n + 1]
    <3> SUFFICES ASSUME NEW t \in TreesUpTo[n + 1] PROVE g[t] \in R[n + 1]  OBVIOUS
    <3>1. g[t] = Body(f, t)  OBVIOUS
    <3>2. CASE t \in Leaf  BY <1>0, <2>1, <3>1, <3>2 DEF Body
    <3>3. CASE t \notin Leaf
      <4>1. f[t.left_] \in R[n] /\ f[t.right_] \in R[n]
        <5>1. n \in 0..n  OBVIOUS
        <5>2. QED BY <2>2, <2>4, <3>3, <5>1
      <4>2. step[t][f[t.left_]][f[t.right_]] \in R[n + 1]  BY <1>0, <2>1, <3>3, <4>1
      <4>3. QED BY <3>1, <3>3, <4>2 DEF Body
    <3>4. QED BY <3>2, <3>3
  <2> HIDE DEF g
  <2>8. \A m \in 0..n + 1 : \A t \in TreesUpTo[m] : g[t] \in R[m]
    <3> SUFFICES ASSUME NEW m \in 0..n + 1, NEW t \in TreesUpTo[m] PROVE g[t] \in R[m]
      OBVIOUS
    <3>1. CASE m = n + 1  BY <2>7, <3>1
    <3>2. CASE m # n + 1
      <4>1. m \in 0..n /\ m \in 0..MaxHeight /\ m <= n  BY <2>1, <3>2
      <4>2. t \in TreesUpTo[n]  BY <2>1, <4>1, LevelsGrow
      <4>3. QED BY <2>2, <2>3, <4>1, <4>2
    <3>3. QED BY <3>1, <3>2
  <2>9. QED BY <2>6, <2>8
<1>3. Nat \subseteq H
  <2> HIDE DEF H
  <2>1. QED BY <1>1, <1>2, SetInduction
<1>4. Good(MaxHeight)
  <2>1. MaxHeight \in H  BY <1>3, Levels
  <2> HIDE DEF Good
  <2>2. QED BY <2>1, Levels
<1>5. PICK f : /\ f = [t \in Trees |-> Body(f, t)]
               /\ \A m \in 0..MaxHeight : \A t \in TreesUpTo[m] : f[t] \in R[m]
  BY <1>4 DEF Trees
<1>6. \A t \in Trees : f[t] = Body(f, t)
  <2> HIDE DEF Body
  <2>1. QED BY <1>5
<1>7. DOMAIN f = Trees /\ f = [t \in Trees |-> f[t]]
  <2> HIDE DEF Body
  <2>1. QED BY <1>5
<1>8. IsFold(f, R, leaf, step)
  BY <1>5, <1>6, <1>7, TreesFacts DEF IsFold, Leaf
<1>9. QED BY <1>8

\* A pass may be defined by what it makes of a node, u[t], if going on with the
\* children of that ends: their rank is smaller.  It leaves w[t] where it stops.
PassData(Stop, u, rank, bound) ==
  /\ bound \in Nat
  /\ \A t \in Trees : rank[t] \in Nat /\ rank[t] < bound
  /\ \A t \in Trees \ Stop : /\ u[t].left_ \in Trees /\ rank[u[t].left_] < rank[t]
                             /\ u[t].right_ \in Trees /\ rank[u[t].right_] < rank[t]

IsPass(f, Stop, u, w) ==
  f = [t \in Trees |-> IF t \in Stop THEN w[t] ELSE Descend(u[t], f)]

LEMMA PassExists ==
  ASSUME NEW Stop, NEW u, NEW w, NEW rank, NEW bound, PassData(Stop, u, rank, bound)
  PROVE  \E f : IsPass(f, Stop, u, w)
<1> DEFINE Body(f, t) == IF t \in Stop THEN w[t] ELSE Descend(u[t], f)
           Low(n) == {t \in Trees : rank[t] < n}
           Good(n) == \E f : f = [t \in Low(n) |-> Body(f, t)]
           H == {n \in Nat : Good(n)}
<1>0. /\ bound \in Nat
      /\ \A t \in Trees : rank[t] \in Nat /\ rank[t] < bound
      /\ \A t \in Trees \ Stop : /\ u[t].left_ \in Trees /\ rank[u[t].left_] < rank[t]
                                 /\ u[t].right_ \in Trees /\ rank[u[t].right_] < rank[t]
  BY DEF PassData
<1>1. 0 \in H
  <2>1. Low(0) = {}  BY <1>0
  <2> DEFINE f == [t \in {} |-> t]
  <2>2. f = [t \in Low(0) |-> Body(f, t)]
    <3> HIDE DEF Body, Low
    <3>1. QED BY <2>1
  <2> HIDE DEF f, Body, Low
  <2>3. QED BY <2>2
<1>2. ASSUME NEW n \in Nat, n \in H PROVE n + 1 \in H
  <2> HIDE DEF Body
  <2>1. PICK f : f = [t \in Low(n) |-> Body(f, t)]  BY <1>2
  <2> DEFINE g == [t \in Low(n + 1) |-> Body(f, t)]
  <2>2. \A t \in Low(n) : t \in Low(n + 1) /\ g[t] = f[t]
    <3>1. \A t \in Low(n) : t \in Low(n + 1)  BY <1>0
    <3> HIDE DEF Low
    <3>2. \A t \in Low(n) : f[t] = Body(f, t)  BY <2>1
    <3>3. QED BY <3>1, <3>2
  <2>3. \A t \in Low(n + 1) \ Stop : u[t].left_ \in Low(n) /\ u[t].right_ \in Low(n)
    BY <1>0
  <2> HIDE DEF Low
  <2>4. \A t \in Low(n + 1) : Body(g, t) = Body(f, t)
    <3> SUFFICES ASSUME NEW t \in Low(n + 1) PROVE Body(g, t) = Body(f, t)  OBVIOUS
    <3> HIDE DEF g
    <3>1. CASE t \in Stop  BY <3>1 DEF Body
    <3>2. CASE t \notin Stop
      <4>1. g[u[t].left_] = f[u[t].left_] /\ g[u[t].right_] = f[u[t].right_]
        BY <2>2, <2>3, <3>2
      <4>2. Descend(u[t], g) = Descend(u[t], f)  BY <4>1 DEF Descend
      <4>3. QED BY <3>2, <4>2 DEF Body
    <3>3. QED BY <3>1, <3>2
  <2>5. g = [t \in Low(n + 1) |-> Body(g, t)]  BY <2>4
  <2> HIDE DEF g
  <2>6. QED BY <2>5
<1>3. bound \in H
  <2> HIDE DEF H
  <2>1. QED BY <1>0, <1>1, <1>2, SetInduction
<1>4. Low(bound) = Trees  BY <1>0
<1> HIDE DEF Low, Body
<1>5. QED BY <1>3, <1>4 DEF Body, IsPass

-----------------------------------------------------------------------------
(* The nodes of a tree.                                                    *)

\* Nodes lists a node before those of its left child, and them before those of
\* its right child.
LEMMA NodesFacts ==
  ASSUME NEW S
  PROVE  /\ \A t \in Trees : Nodes(t, S) \in Seq(S)
         /\ \A t \in Leaf : Nodes(t, S) = IF t \in S THEN <<t>> ELSE << >>
         /\ \A t \in Trees \ Leaf :
              Nodes(t, S) = (IF t \in S THEN <<t>> ELSE << >>)
                            \o (Nodes(t.left_, S) \o Nodes(t.right_, S))
<1> DEFINE Own(t) == IF t \in S THEN <<t>> ELSE << >>
           Body(f, t) == Own(t) \o (IF t \in {Null, Failed} THEN << >>
                                    ELSE f[t.left_] \o f[t.right_])
           N == CHOOSE f : f = [t \in Trees |-> Body(f, t)]
           R == [n \in 0..MaxHeight |-> Seq(S)]
           leaf == [t \in Leaf |-> Own(t)]
           step == [t \in Trees |-> [a \in Seq(S) |-> [b \in Seq(S) |-> Own(t) \o (a \o b)]]]
<1>1. \A t : Own(t) \in Seq(S)  OBVIOUS
<1> HIDE DEF Own
<1>2. \A n \in 0..MaxHeight : \A t \in Leaf : leaf[t] \in R[n]  BY <1>1
<1>3. \A n \in 1..MaxHeight : \A t \in TreesUpTo[n] \ Leaf :
        \A a, b \in R[n - 1] : step[t][a][b] \in R[n]
  <2> SUFFICES ASSUME NEW n \in 1..MaxHeight, NEW t \in TreesUpTo[n], t \notin Leaf,
                      NEW a \in R[n - 1], NEW b \in R[n - 1]
               PROVE  step[t][a][b] \in R[n]
    OBVIOUS
  <2>1. n \in 0..MaxHeight /\ n - 1 \in 0..MaxHeight  BY Levels
  <2>2. t \in Trees  BY <2>1, TreesFacts
  <2>3. a \in Seq(S) /\ b \in Seq(S) /\ R[n] = Seq(S)  BY <2>1
  <2>4. step[t][a][b] = Own(t) \o (a \o b)  BY <2>2, <2>3
  <2>5. Own(t) \o (a \o b) \in Seq(S)
    <3>1. Own(t) \in Seq(S)  BY <1>1
    <3>2. a \o b \in Seq(S)  BY <2>3
    <3>3. QED BY <3>1, <3>2
  <2>6. QED BY <2>3, <2>4, <2>5
<1>4. PICK f : IsFold(f, R, leaf, step)
  <2> HIDE DEF R, leaf, step
  <2>1. FoldData(R, leaf, step)  BY <1>2, <1>3 DEF FoldData
  <2>2. QED BY <2>1, FoldExists
<1>5. \A t \in Trees : f[t] \in Seq(S)
  <2>1. MaxHeight \in 0..MaxHeight  BY Levels
  <2>2. QED BY <1>4, <2>1 DEF Trees, IsFold
<1>6. f = [t \in Trees |-> Body(f, t)]
  <2>1. \A t \in Trees : f[t] = Body(f, t)
    <3> SUFFICES ASSUME NEW t \in Trees PROVE f[t] = Body(f, t)  OBVIOUS
    <3>1. CASE t \in Leaf
      <4>1. f[t] = Own(t)  BY <1>4, <3>1 DEF IsFold
      <4>2. Own(t) = Own(t) \o << >>  BY <1>1
      <4>3. QED BY <3>1, <4>1, <4>2 DEF Leaf
    <3>2. CASE t \notin Leaf
      <4>1. t.left_ \in Trees /\ t.right_ \in Trees  BY <3>2, TreesFacts
      <4>2. f[t] = step[t][f[t.left_]][f[t.right_]]
        <5> HIDE DEF step, leaf, R
        <5>1. QED BY <1>4, <3>2 DEF IsFold
      <4>3. f[t] = Own(t) \o (f[t.left_] \o f[t.right_])  BY <1>5, <4>1, <4>2
      <4>4. QED BY <3>2, <4>3 DEF Leaf
    <3>3. QED BY <3>1, <3>2
  <2>2. f = [t \in Trees |-> f[t]]  BY <1>4 DEF IsFold
  <2> HIDE DEF Body
  <2>3. QED BY <2>1, <2>2
<1> HIDE DEF Body
<1>7. N = [t \in Trees |-> Body(N, t)]  BY <1>6
<1>8. \A t : Nodes(t, S) = N[t]  BY DEF Nodes, N, Body, Own
<1> HIDE DEF N
<1>9. \A t \in Trees : Nodes(t, S) = Body(N, t)  BY <1>7, <1>8
<1>10. \A t \in Leaf : Nodes(t, S) = Own(t)
  <2> TAKE t \in Leaf
  <2>1. Nodes(t, S) = Own(t) \o << >>  BY <1>9, TreesFacts DEF Body, Leaf
  <2>2. QED BY <2>1, <1>1
<1>11. \A t \in Trees \ Leaf : Nodes(t, S) = Own(t) \o (Nodes(t.left_, S) \o Nodes(t.right_, S))
  BY <1>8, <1>9 DEF Body, Leaf
<1>12. \A t \in Trees : Nodes(t, S) \in Seq(S)
  <2> DEFINE G == {t \in Trees : Nodes(t, S) \in Seq(S)}
  <2>1. Leaf \subseteq G  BY <1>1, <1>10, TreesFacts DEF Leaf
  <2>2. ASSUME NEW t \in Trees \ Leaf, t.left_ \in G, t.right_ \in G PROVE t \in G
    <3>1. Nodes(t.left_, S) \in Seq(S) /\ Nodes(t.right_, S) \in Seq(S)  BY <2>2
    <3>2. Own(t) \in Seq(S)  BY <1>1
    <3>3. Nodes(t.left_, S) \o Nodes(t.right_, S) \in Seq(S)  BY <3>1
    <3>4. Own(t) \o (Nodes(t.left_, S) \o Nodes(t.right_, S)) \in Seq(S)  BY <3>2, <3>3
    <3>5. QED BY <1>11, <3>4
  <2> HIDE DEF G
  <2>3. Trees \subseteq G  BY <2>1, <2>2, TreeInduction
  <2>4. QED BY <2>3 DEF G
<1>13. QED BY <1>10, <1>11, <1>12 DEF Own

\* The value of a node in terms of those of its children.
LEMMA ValueFacts ==
  ASSUME NEW m, NEW t \in Trees
  PROVE  /\ t.type_ = "var" => Value(t, m) = m[t.var_name_]
         /\ t.type_ # "var" => Value(t, m) \in BOOLEAN
         /\ t.type_ = "not" => (Value(t, m) <=> ~ Value(t.left_, m))
         /\ t.type_ = "and" => (Value(t, m) <=> Value(t.left_, m) /\ Value(t.right_, m))
         /\ t.type_ = "or" => (Value(t, m) <=> Value(t.left_, m) \/ Value(t.right_, m))
         /\ t.type_ = "implication" =>
              (Value(t, m) <=> (Value(t.left_, m) => Value(t.right_, m)))
         /\ t.type_ = "bi_implication" =>
              (Value(t, m) <=> (Value(t.left_, m) <=> Value(t.right_, m)))
<1> DEFINE Val(s, a, b) ==
             CASE s.type_ = "not" -> ~ a
               [] s.type_ = "var" -> m[s.var_name_]
               [] s.type_ = "and" -> a /\ b
               [] s.type_ = "or" -> a \/ b
               [] s.type_ = "implication" -> (a => b)
               [] s.type_ = "bi_implication" -> (a <=> b)
               [] OTHER -> FALSE
           Body(f, s) == Val(s, f[s.left_], f[s.right_])
           V == CHOOSE f : f = [s \in Trees |-> Body(f, s)]
           B == BOOLEAN \cup {m[name] : name \in Names}
           R == [n \in 0..MaxHeight |-> B]
           leaf == [s \in Leaf |-> FALSE]
           step == [s \in Trees |-> [a \in B |-> [b \in B |-> Val(s, a, b)]]]
<1>1. \A s \in Trees \ Leaf : \A a, b : Val(s, a, b) \in B
  <2> SUFFICES ASSUME NEW s \in Trees, s \notin Leaf, NEW a, NEW b PROVE Val(s, a, b) \in B
    OBVIOUS
  <2>1. s.var_name_ \in Names  BY TreesFacts
  <2>2. CASE s.type_ = "var"  BY <2>1, <2>2
  <2>3. CASE s.type_ # "var"
    <3>1. CASE s.type_ = "not"  BY <3>1
    <3>2. CASE s.type_ = "and"  BY <3>2
    <3>3. CASE s.type_ = "or"  BY <3>3
    <3>4. CASE s.type_ = "implication"  BY <3>4
    <3>5. CASE s.type_ = "bi_implication"  BY <3>5
    <3>6. CASE s.type_ \notin {"not", "and", "or", "implication", "bi_implication"}
      BY <2>3, <3>6
    <3>7. QED BY <3>1, <3>2, <3>3, <3>4, <3>5, <3>6
  <2>4. QED BY <2>2, <2>3
<1> HIDE DEF Val, B
<1>2. FALSE \in B  BY DEF B
<1>3. FoldData(R, leaf, step)
  <2>1. \A n \in 0..MaxHeight : \A s \in Leaf : leaf[s] \in R[n]  BY <1>2
  <2>2. ASSUME NEW n \in 1..MaxHeight, NEW s \in TreesUpTo[n], s \notin Leaf,
               NEW a \in R[n - 1], NEW b \in R[n - 1]
        PROVE  step[s][a][b] \in R[n]
    <3>1. n \in 0..MaxHeight /\ n - 1 \in 0..MaxHeight  BY Levels
    <3>2. s \in Trees  BY <3>1, TreesFacts
    <3>3. a \in B /\ b \in B /\ R[n] = B  BY <3>1
    <3>4. QED BY <1>1, <2>2, <3>2, <3>3
  <2> HIDE DEF R, leaf, step
  <2>3. QED BY <2>1, <2>2 DEF FoldData
<1>4. PICK f : IsFold(f, R, leaf, step)
  <2> HIDE DEF R, leaf, step
  <2>1. QED BY <1>3, FoldExists
<1>5. \A s \in Trees : f[s] \in B
  <2>1. MaxHeight \in 0..MaxHeight  BY Levels
  <2>2. QED BY <1>4, <2>1 DEF Trees, IsFold
<1>6. f = [s \in Trees |-> Body(f, s)]
  <2>1. \A s \in Trees : f[s] = Body(f, s)
    <3> SUFFICES ASSUME NEW s \in Trees PROVE f[s] = Body(f, s)  OBVIOUS
    <3>1. CASE s \in Leaf
      <4>1. f[s] = FALSE  BY <1>4, <3>1 DEF IsFold
      <4>2. s.type_ \in {"NULL", "failed"}  BY <3>1, TreesFacts DEF Leaf
      <4>3. QED BY <4>1, <4>2 DEF Val
    <3>2. CASE s \notin Leaf
      <4>1. s.left_ \in Trees /\ s.right_ \in Trees  BY <3>2, TreesFacts
      <4>2. f[s] = step[s][f[s.left_]][f[s.right_]]
        <5> HIDE DEF step, leaf, R
        <5>1. QED BY <1>4, <3>2 DEF IsFold
      <4>3. QED BY <1>5, <4>1, <4>2
    <3>3. QED BY <3>1, <3>2
  <2>2. f = [s \in Trees |-> f[s]]  BY <1>4 DEF IsFold
  <2> HIDE DEF Body
  <2>3. QED BY <2>1, <2>2
<1> HIDE DEF Body
<1>7. V = [s \in Trees |-> Body(V, s)]  BY <1>6
<1>8. ASSUME NEW x PROVE Value(x, m) = V[x]  BY DEF Value, V, Body, Val
<1> HIDE DEF V
<1>9. Value(t, m) = Val(t, Value(t.left_, m), Value(t.right_, m))
  <2>1. V[t] = Val(t, V[t.left_], V[t.right_])  BY <1>7 DEF Body
  <2>2. Value(t, m) = V[t] /\ Value(t.left_, m) = V[t.left_] /\ Value(t.right_, m) = V[t.right_]
    BY <1>8
  <2>3. QED BY <2>1, <2>2
<1> DEFINE l == Value(t.left_, m)
           r == Value(t.right_, m)
<1>10. Value(t, m) = Val(t, l, r)  BY <1>9
<1> HIDE DEF l, r
<1>11. /\ t.type_ = "var" => Value(t, m) = m[t.var_name_]
       /\ t.type_ # "var" => Value(t, m) \in BOOLEAN
  <2>1. t.type_ = "var" => Value(t, m) = m[t.var_name_]  BY <1>10 DEF Val
  <2>2. t.type_ = "not" => Value(t, m) = ~ l  BY <1>10 DEF Val
  <2>3. t.type_ = "and" => Value(t, m) = (l /\ r)  BY <1>10 DEF Val
  <2>4. t.type_ = "or" => Value(t, m) = (l \/ r)  BY <1>10 DEF Val
  <2>5. t.type_ = "implication" => Value(t, m) = (l => r)  BY <1>10 DEF Val
  <2>6. t.type_ = "bi_implication" => Value(t, m) = (l <=> r)  BY <1>10 DEF Val
  <2>7. t.type_ \notin {"var", "not", "and", "or", "implication", "bi_implication"} =>
          Value(t, m) = FALSE
    BY <1>10 DEF Val
  <2>8. QED BY <2>1, <2>2, <2>3, <2>4, <2>5, <2>6, <2>7
<1>12. t.type_ = "not" => (Value(t, m) <=> ~ l)  BY <1>10 DEF Val
<1>13. t.type_ = "and" => (Value(t, m) <=> (l /\ r))  BY <1>10 DEF Val
<1>14. t.type_ = "or" => (Value(t, m) <=> (l \/ r))  BY <1>10 DEF Val
<1>15. t.type_ = "implication" => (Value(t, m) <=> (l => r))  BY <1>10 DEF Val
<1>16. t.type_ = "bi_implication" => (Value(t, m) <=> (l <=> r))  BY <1>10 DEF Val
<1>17. QED BY <1>11, <1>12, <1>13, <1>14, <1>15, <1>16 DEF l, r

-----------------------------------------------------------------------------
(* What is written of a tree.                                              *)

\* The number of a name is an index of the table if the table has the name.
LEMMA FindVarFacts ==
  ASSUME NEW list \in Seq(Names), NEW name
  PROVE  /\ findVar(list, name) \in Nat /\ findVar(list, name) \in 1..Len(list) + 1
         /\ (\E k \in DOMAIN list : list[k] = name) =>
              findVar(list, name) \in DOMAIN list /\ list[findVar(list, name)] = name
<1>1. CASE \E k \in DOMAIN list : list[k] = name
  <2> DEFINE c == CHOOSE k \in DOMAIN list : list[k] = name
  <2>1. c \in DOMAIN list /\ list[c] = name  BY <1>1
  <2>2. findVar(list, name) = c  BY <1>1 DEF findVar
  <2> HIDE DEF c
  <2>3. QED BY <2>1, <2>2
<1>2. CASE ~ \E k \in DOMAIN list : list[k] = name  BY <1>2 DEF findVar
<1>3. QED BY <1>1, <1>2

Outs == {out \in Written : out # << >>}

\* Writing goes on where there is something already.
LEMMA OutFacts ==
  /\ << << >> >> \in Outs
  /\ \A n \in Int : << <<n>> >> \in Outs
  /\ \A out \in Outs : EndLine[out] \in Outs
  /\ \A out, more \in Outs : Then[out][more] \in Outs
<1>1. << << >> >> \in Outs  BY DEF Outs, Written
<1>2. \A n \in Int : << <<n>> >> \in Outs  BY DEF Outs, Written
<1>3. ASSUME NEW out \in Outs PROVE EndLine[out] \in Outs
  <2>1. out \in Seq(Seq(Int)) /\ out # << >>  BY DEF Outs, Written
  <2>2. EndLine[out] = IF out[Len(out)] = << >> THEN out ELSE Append(out, << >>)
    BY <2>1 DEF EndLine, Written
  <2>3. << >> \in Seq(Int)  OBVIOUS
  <2>4. Append(out, << >>) \in Seq(Seq(Int)) /\ Append(out, << >>) # << >>
    <3> DEFINE L == Seq(Int)
               e == << >>
    <3>1. out \in Seq(L) /\ e \in L  BY <2>1, <2>3
    <3> HIDE DEF L, e
    <3>2. Append(out, e) \in Seq(L) /\ Len(Append(out, e)) = Len(out) + 1 /\ Len(out) \in Nat
      BY <3>1
    <3>3. Append(out, e) # << >>  BY <3>2
    <3>4. QED BY <3>2, <3>3 DEF L, e
  <2>5. QED BY <2>1, <2>2, <2>4 DEF Outs, Written
<1>4. ASSUME NEW out \in Outs, NEW more \in Outs PROVE Then[out][more] \in Outs
  <2> DEFINE L == Seq(Int)
             a == SubSeq(out, 1, Len(out) - 1)
             e == out[Len(out)] \o more[1]
             c == SubSeq(more, 2, Len(more))
  <2>1. out \in Seq(L) /\ out # << >> /\ more \in Seq(L) /\ more # << >>
    BY DEF Outs, Written
  <2>2. Then[out][more] = a \o <<e>> \o c  BY <2>1 DEF Then, Written
  <2>3. out[Len(out)] \in L /\ more[1] \in L
    <3> HIDE DEF L
    <3>1. QED BY <2>1
  <2>4. e \in L  BY <2>3
  <2>5. a \in Seq(L) /\ c \in Seq(L)
    <3> HIDE DEF L
    <3>1. QED BY <2>1
  <2> HIDE DEF L, a, e, c
  <2>6. a \o <<e>> \o c \in Seq(L) /\ a \o <<e>> \o c # << >>
    BY <2>4, <2>5, WithMiddle
  <2>7. QED BY <2>2, <2>6 DEF Outs, Written, L
<1>5. QED BY <1>1, <1>2, <1>3, <1>4

\* What is written of a node in terms of what is of its children.
LEMMA DumpFacts ==
  ASSUME NEW list \in Seq(Names), NEW t \in Trees
  PROVE  /\ dumpCNF(t, list) \in Outs
         /\ t.type_ = "not" => dumpCNF(t, list) = << <<-findVar(list, t.left_.var_name_)>> >>
         /\ t.type_ = "var" => dumpCNF(t, list) = << <<findVar(list, t.var_name_)>> >>
         /\ t.type_ = "and" =>
              dumpCNF(t, list) =
                EndLine[Then[EndLine[dumpCNF(t.left_, list)]][dumpCNF(t.right_, list)]]
         /\ t.type_ \in {"or", "implication", "bi_implication"} =>
              dumpCNF(t, list) = Then[dumpCNF(t.left_, list)][dumpCNF(t.right_, list)]
<1> DEFINE Out(s, a, b) ==
             CASE s \in {Null, Failed} -> << << >> >>
               [] s.type_ = "not" -> << <<-findVar(list, s.left_.var_name_)>> >>
               [] s.type_ = "var" -> << <<findVar(list, s.var_name_)>> >>
               [] s.type_ = "and" -> EndLine[Then[EndLine[a]][b]]
               [] OTHER -> Then[a][b]
           Body(f, s) == Out(s, f[s.left_], f[s.right_])
           V == CHOOSE f : f = [s \in Trees |-> Body(f, s)]
           R == [n \in 0..MaxHeight |-> Outs]
           leaf == [s \in Leaf |-> << << >> >>]
           step == [s \in Trees |-> [a \in Outs |-> [b \in Outs |-> Out(s, a, b)]]]
<1>1. \A s \in Trees \ Leaf : \A a, b \in Outs : Out(s, a, b) \in Outs
  <2> SUFFICES ASSUME NEW s \in Trees, s \notin Leaf, NEW a \in Outs, NEW b \in Outs
               PROVE  Out(s, a, b) \in Outs
    OBVIOUS
  <2>1. findVar(list, s.var_name_) \in Int /\ -findVar(list, s.left_.var_name_) \in Int
    BY FindVarFacts
  <2>2. CASE s.type_ = "not"  BY <2>1, <2>2, OutFacts DEF Leaf
  <2>3. CASE s.type_ = "var"  BY <2>1, <2>3, OutFacts DEF Leaf
  <2>4. CASE s.type_ = "and"  BY <2>4, OutFacts DEF Leaf
  <2>5. CASE s.type_ \notin {"not", "var", "and"}  BY <2>5, OutFacts DEF Leaf
  <2>6. QED BY <2>2, <2>3, <2>4, <2>5
<1>2. ASSUME NEW s \in Leaf, NEW a, NEW b PROVE Out(s, a, b) = << << >> >>
  <2> DEFINE e == << << >> >>
  <2>1. s \in {Null, Failed} /\ s.type_ \in {"NULL", "failed"}  BY TreesFacts DEF Leaf
  <2>2. Out(s, a, b) = CASE s \in {Null, Failed} -> e
               [] s.type_ = "not" -> << <<-findVar(list, s.left_.var_name_)>> >>
               [] s.type_ = "var" -> << <<findVar(list, s.var_name_)>> >>
               [] s.type_ = "and" -> EndLine[Then[EndLine[a]][b]]
               [] OTHER -> Then[a][b]
    OBVIOUS
  <2> HIDE DEF e, Out
  <2>3. Out(s, a, b) = e  BY <2>1, <2>2
  <2>4. QED BY <2>3 DEF e
<1> HIDE DEF Out
<1>3. FoldData(R, leaf, step)
  <2>1. \A n \in 0..MaxHeight : \A s \in Leaf : leaf[s] \in R[n]  BY OutFacts
  <2>2. ASSUME NEW n \in 1..MaxHeight, NEW s \in TreesUpTo[n], s \notin Leaf,
               NEW a \in R[n - 1], NEW b \in R[n - 1]
        PROVE  step[s][a][b] \in R[n]
    <3>1. n \in 0..MaxHeight /\ n - 1 \in 0..MaxHeight  BY Levels
    <3>2. s \in Trees  BY <3>1, TreesFacts
    <3>3. a \in Outs /\ b \in Outs /\ R[n] = Outs  BY <3>1
    <3>4. QED BY <1>1, <2>2, <3>2, <3>3
  <2> HIDE DEF R, leaf, step
  <2>3. QED BY <2>1, <2>2 DEF FoldData
<1>4. PICK f : IsFold(f, R, leaf, step)
  <2> HIDE DEF R, leaf, step
  <2>1. QED BY <1>3, FoldExists
<1>5. \A s \in Trees : f[s] \in Outs
  <2>1. MaxHeight \in 0..MaxHeight  BY Levels
  <2>2. QED BY <1>4, <2>1 DEF Trees, IsFold
<1>6. f = [s \in Trees |-> Body(f, s)]
  <2>1. \A s \in Trees : f[s] = Body(f, s)
    <3> SUFFICES ASSUME NEW s \in Trees PROVE f[s] = Body(f, s)  OBVIOUS
    <3>1. CASE s \in Leaf
      <4>1. f[s] = << << >> >>  BY <1>4, <3>1 DEF IsFold
      <4>2. QED BY <1>2, <3>1, <4>1
    <3>2. CASE s \notin Leaf
      <4>1. s.left_ \in Trees /\ s.right_ \in Trees  BY <3>2, TreesFacts
      <4>2. f[s] = step[s][f[s.left_]][f[s.right_]]
        <5> HIDE DEF step, leaf, R
        <5>1. QED BY <1>4, <3>2 DEF IsFold
      <4>3. QED BY <1>5, <4>1, <4>2
    <3>3. QED BY <3>1, <3>2
  <2>2. f = [s \in Trees |-> f[s]]  BY <1>4 DEF IsFold
  <2> HIDE DEF Body
  <2>3. QED BY <2>1, <2>2
<1> HIDE DEF Body
<1>7. V = [s \in Trees |-> Body(V, s)]  BY <1>6
<1>8. ASSUME NEW x PROVE dumpCNF(x, list) = V[x]  BY DEF dumpCNF, V, Body, Out
<1> HIDE DEF V
<1>9. ASSUME NEW x \in Trees
      PROVE  dumpCNF(x, list) = Out(x, dumpCNF(x.left_, list), dumpCNF(x.right_, list))
  <2>1. V[x] = Out(x, V[x.left_], V[x.right_])  BY <1>7 DEF Body
  <2>2. dumpCNF(x, list) = V[x] /\ dumpCNF(x.left_, list) = V[x.left_]
        /\ dumpCNF(x.right_, list) = V[x.right_]
    BY <1>8
  <2>3. QED BY <2>1, <2>2
<1>10. dumpCNF(t, list) \in Outs
  <2> DEFINE G == {x \in Trees : dumpCNF(x, list) \in Outs}
  <2>1. Leaf \subseteq G  BY <1>2, <1>9, OutFacts, TreesFacts DEF Leaf
  <2>2. ASSUME NEW x \in Trees \ Leaf, x.left_ \in G, x.right_ \in G PROVE x \in G
    <3>1. dumpCNF(x.left_, list) \in Outs /\ dumpCNF(x.right_, list) \in Outs  BY <2>2
    <3>2. Out(x, dumpCNF(x.left_, list), dumpCNF(x.right_, list)) \in Outs  BY <1>1, <3>1
    <3>3. QED BY <1>9, <3>2
  <2> HIDE DEF G
  <2>3. Trees \subseteq G  BY <2>1, <2>2, TreeInduction
  <2>4. QED BY <2>3 DEF G
<1>11. t \notin Leaf => t \notin {Null, Failed}  BY DEF Leaf
<1>12. t.type_ \in Node => t \notin Leaf  BY TreesFacts DEF Leaf, Node, Operators
<1>13. dumpCNF(t, list) = Out(t, dumpCNF(t.left_, list), dumpCNF(t.right_, list))  BY <1>9
<1>14. t.type_ = "not" => dumpCNF(t, list) = << <<-findVar(list, t.left_.var_name_)>> >>
  BY <1>11, <1>12, <1>13 DEF Out, Node, Operators
<1>15. t.type_ = "var" => dumpCNF(t, list) = << <<findVar(list, t.var_name_)>> >>
  BY <1>11, <1>12, <1>13 DEF Out, Node, Operators
<1>16. t.type_ = "and" =>
         dumpCNF(t, list) =
           EndLine[Then[EndLine[dumpCNF(t.left_, list)]][dumpCNF(t.right_, list)]]
  BY <1>11, <1>12, <1>13 DEF Out, Node, Operators
<1>17. t.type_ \in {"or", "implication", "bi_implication"} =>
         dumpCNF(t, list) = Then[dumpCNF(t.left_, list)][dumpCNF(t.right_, list)]
  BY <1>11, <1>12, <1>13 DEF Out, Node, Operators
<1>18. QED BY <1>10, <1>14, <1>15, <1>16, <1>17

-----------------------------------------------------------------------------
(* Sizes.                                                                  *)

\* A count of nodes adds up those of the children.
LEMMA CountFacts ==
  ASSUME NEW S
  PROVE  /\ \A t \in Trees : Count(t, S) \in Nat
         /\ \A t \in Leaf : Count(t, S) = IF t \in S THEN 1 ELSE 0
         /\ \A t \in Trees \ Leaf :
              Count(t, S) = (IF t \in S THEN 1 ELSE 0)
                            + (Count(t.left_, S) + Count(t.right_, S))
<1>1. \A t \in Trees : Nodes(t, S) \in Seq(S)  BY NodesFacts
<1>2. \A t \in Trees : Count(t, S) \in Nat  BY <1>1 DEF Count
<1>3. ASSUME NEW t \in Leaf PROVE Count(t, S) = IF t \in S THEN 1 ELSE 0
  <2>1. Nodes(t, S) = IF t \in S THEN <<t>> ELSE << >>  BY NodesFacts
  <2>2. QED BY <2>1 DEF Count
<1>4. ASSUME NEW t \in Trees, t \notin Leaf
      PROVE  Count(t, S) = (IF t \in S THEN 1 ELSE 0)
                           + (Count(t.left_, S) + Count(t.right_, S))
  <2> DEFINE own == IF t \in S THEN <<t>> ELSE << >>
             l == Nodes(t.left_, S)
             r == Nodes(t.right_, S)
             lr == l \o r
  <2>1. own \in Seq(S) /\ Len(own) = IF t \in S THEN 1 ELSE 0  OBVIOUS
  <2>2. l \in Seq(S) /\ r \in Seq(S)  BY <1>1, <1>4, TreesFacts
  <2>3. Nodes(t, S) = own \o lr  BY <1>4, NodesFacts
  <2> HIDE DEF own, l, r
  <2>4. lr \in Seq(S) /\ Len(lr) = Len(l) + Len(r)  BY <2>2, Concatenated
  <2> HIDE DEF lr
  <2>5. Len(own \o lr) = Len(own) + Len(lr)  BY <2>1, <2>4, Concatenated
  <2>6. QED BY <2>1, <2>3, <2>4, <2>5 DEF Count, l, r
<1>5. QED BY <1>2, <1>3, <1>4

Size(t) == Count(t, Trees)

LEMMA SizeFacts ==
  /\ \A t \in Trees : Size(t) \in Nat /\ Size(t) >= 1
  /\ \A t \in Leaf : Size(t) = 1
  /\ \A t \in Trees \ Leaf : Size(t) = 1 + Size(t.left_) + Size(t.right_)
  /\ \E b \in Nat : \A t \in Trees : Size(t) < b
<1>1. \A t \in Trees : Size(t) \in Nat  BY CountFacts DEF Size
<1>2. \A t \in Leaf : t \in Trees /\ Size(t) = 1  BY CountFacts, TreesFacts DEF Size, Leaf
<1>3. \A t \in Trees \ Leaf :
        /\ t.left_ \in Trees /\ t.right_ \in Trees
        /\ Size(t) = 1 + Size(t.left_) + Size(t.right_)
  <2> SUFFICES ASSUME NEW t \in Trees, t \notin Leaf
               PROVE  /\ t.left_ \in Trees /\ t.right_ \in Trees
                      /\ Size(t) = 1 + Size(t.left_) + Size(t.right_)
    OBVIOUS
  <2>1. t.left_ \in Trees /\ t.right_ \in Trees  BY TreesFacts
  <2>2. Size(t) = 1 + (Size(t.left_) + Size(t.right_))  BY CountFacts DEF Size
  <2>3. QED BY <1>1, <2>1, <2>2
<1>4. \A t \in Trees : Size(t) >= 1
  <2> TAKE t \in Trees
  <2>1. CASE t \in Leaf  BY <1>2, <2>1
  <2>2. CASE t \notin Leaf  BY <1>1, <1>3, <2>2
  <2>3. QED BY <2>1, <2>2
<1>5. \E b \in Nat : \A t \in Trees : Size(t) < b
  <2> DEFINE Bounded(n) == \E b \in Nat : \A t \in TreesUpTo[n] : Size(t) < b
             H == {n \in Nat : n <= MaxHeight => Bounded(n)}
  <2>1. 0 \in H
    <3>1. TreesUpTo[0] = Leaf  BY Levels
    <3>2. \A t \in TreesUpTo[0] : Size(t) < 2  BY <1>2, <3>1
    <3>3. QED BY <3>2
  <2>2. ASSUME NEW n \in Nat, n \in H PROVE n + 1 \in H
    <3> SUFFICES ASSUME n + 1 <= MaxHeight PROVE Bounded(n + 1)  OBVIOUS
    <3>1. MaxHeight \in Nat /\ n \in 0..MaxHeight /\ n + 1 \in 0..MaxHeight /\ (n + 1) - 1 = n
      BY Levels
    <3>2. PICK b \in Nat : \A t \in TreesUpTo[n] : Size(t) < b  BY <2>2, <3>1
    <3>3. ASSUME NEW t \in TreesUpTo[n + 1] PROVE Size(t) < 2 * b + 2
      <4>1. t \in Trees  BY <3>1, TreesFacts
      <4>2. CASE t \in Leaf  BY <1>2, <4>2
      <4>3. CASE t \notin Leaf
        <5>1. t.left_ \in TreesUpTo[n] /\ t.right_ \in TreesUpTo[n]  BY <3>1, <4>3, NodeFields
        <5>2. Size(t.left_) < b /\ Size(t.right_) < b  BY <3>2, <5>1
        <5>3. QED BY <1>1, <1>3, <4>1, <4>3, <5>2
      <4>4. QED BY <4>2, <4>3
    <3>4. 2 * b + 2 \in Nat  OBVIOUS
    <3>5. QED BY <3>3, <3>4
  <2>3. Nat \subseteq H
    <3> HIDE DEF H
    <3>1. QED BY <2>1, <2>2, SetInduction
  <2>4. MaxHeight \in H  BY <2>3, Levels
  <2>5. Bounded(MaxHeight)
    <3> HIDE DEF Bounded
    <3>1. QED BY <2>4, Levels
  <2>6. QED BY <2>5 DEF Trees
<1>6. QED BY <1>1, <1>2, <1>3, <1>4, <1>5

\* A set holds all trees if it holds each one for which it holds the smaller ones.
LEMMA SizeInduction ==
  ASSUME NEW S,
         \A t \in Trees : (\A s \in Trees : Size(s) < Size(t) => s \in S) => t \in S
  PROVE  Trees \subseteq S
<1> SUFFICES ASSUME ~ (Trees \subseteq S) PROVE FALSE  OBVIOUS
<1> DEFINE sizes == {Size(t) : t \in Trees \ S}
<1>1. sizes \subseteq Nat /\ sizes # {}  BY SizeFacts
<1>2. PICK z \in sizes : \A n \in sizes : z <= n
  <2> HIDE DEF sizes
  <2>1. QED BY <1>1, LeastMember
<1>3. PICK t \in Trees \ S : z = Size(t)  OBVIOUS
<1>4. \A s \in Trees : Size(s) < Size(t) => s \in S
  <2> SUFFICES ASSUME NEW s \in Trees, Size(s) < Size(t), s \notin S PROVE FALSE  OBVIOUS
  <2>1. Size(s) \in sizes  OBVIOUS
  <2>2. Size(t) <= Size(s)  BY <1>2, <1>3, <2>1
  <2>3. QED BY <2>2, SizeFacts
<1>5. QED BY <1>3, <1>4

\* The trees that Tree makes.
LEMMA TreeFacts ==
  ASSUME NEW ty \in Node, NEW l, NEW r
  PROVE  LET t == Tree(ty, l, r)
         IN  /\ t.type_ = ty /\ t.left_ = l /\ t.right_ = r /\ t.var_name_ = NoName
             /\ t \notin Leaf
             /\ \A n \in 0..MaxHeight :
                  n + 1 <= MaxHeight /\ l \in TreesUpTo[n] /\ r \in TreesUpTo[n] =>
                    t \in TreesUpTo[n + 1] /\ t \in Trees
<1> DEFINE t == Tree(ty, l, r)
<1>1. /\ t = [type_ |-> ty, var_name_ |-> NoName, left_ |-> l, right_ |-> r]
      /\ t.type_ = ty /\ t.left_ = l /\ t.right_ = r /\ t.var_name_ = NoName
  BY DEF Tree
<1> HIDE DEF t
<1>2. t \notin Leaf  BY <1>1, TreesFacts DEF Leaf, Node, Operators
<1>3. NoName \in Names  BY DEF Names
<1>4. ASSUME NEW n \in 0..MaxHeight, n + 1 <= MaxHeight, l \in TreesUpTo[n], r \in TreesUpTo[n]
      PROVE  t \in TreesUpTo[n + 1] /\ t \in Trees
  <2>1. n + 1 \in 0..MaxHeight /\ t \in TreesUpTo[n + 1]  BY <1>1, <1>3, <1>4, NodeIn
  <2>2. QED BY <2>1, TreesFacts
<1>5. QED BY <1>1, <1>2, <1>4 DEF t

-----------------------------------------------------------------------------
(* The passes.                                                             *)

\* A pass goes on with the children of a node.
LEMMA DescendFacts ==
  ASSUME NEW P, NEW t, t = [type_ |-> t.type_, var_name_ |-> t.var_name_,
                            left_ |-> t.left_, right_ |-> t.right_]
  PROVE  Descend(t, P) = [type_ |-> t.type_, var_name_ |-> t.var_name_,
                          left_ |-> P[t.left_], right_ |-> P[t.right_]]
<1> DEFINE y == t.type_  n == t.var_name_  l == t.left_  r == t.right_
<1>1. t = [type_ |-> y, var_name_ |-> n, left_ |-> l, right_ |-> r]  OBVIOUS
<1> HIDE DEF y, n, l, r
<1> DEFINE a == [t EXCEPT !.left_ = P[l]]
<1>2. a = [type_ |-> y, var_name_ |-> n, left_ |-> P[l], right_ |-> r]  BY <1>1
<1>3. Descend(t, P) = [a EXCEPT !.right_ = P[r]]  BY DEF Descend, l, r
<1> HIDE DEF a
<1>4. Descend(t, P) = [type_ |-> y, var_name_ |-> n, left_ |-> P[l], right_ |-> P[r]]
  BY <1>2, <1>3
<1>5. QED BY <1>4 DEF y, n, l, r

\* removeBiImplication is what its definition says.
LEMMA BiImplicationPass ==
  \A t \in Trees : removeBiImplication[t] =
    IF t \in Leaf THEN t ELSE Descend(TwoImplications(t), removeBiImplication)
<1> DEFINE u == [t \in Trees |-> TwoImplications(t)]
           w == [t \in Leaf |-> t]
           flag(t) == IF t.type_ = "bi_implication" THEN 1 ELSE 0
           rank == [t \in Trees |-> 2 * Size(t) + flag(t)]
<1>1. PICK b \in Nat : \A t \in Trees : Size(t) < b  BY SizeFacts
<1> DEFINE bound == 2 * b + 1
<1>2. bound \in Nat  BY <1>1
<1>3. ASSUME NEW t \in Trees PROVE rank[t] \in Nat /\ rank[t] < bound
  <2>1. Size(t) \in Nat /\ Size(t) < b  BY <1>1, SizeFacts
  <2>2. QED BY <1>1, <2>1
<1>4. ASSUME NEW t \in Trees, t \notin Leaf
      PROVE  /\ u[t].left_ \in Trees /\ rank[u[t].left_] < rank[t]
             /\ u[t].right_ \in Trees /\ rank[u[t].right_] < rank[t]
  <2> DEFINE l == t.left_
             r == t.right_
  <2>1. l \in Trees /\ r \in Trees  BY <1>4, TreesFacts
  <2>2. /\ Size(l) \in Nat /\ Size(r) \in Nat /\ Size(l) >= 1 /\ Size(r) >= 1
        /\ Size(t) = 1 + Size(l) + Size(r)
    BY <1>4, <2>1, SizeFacts
  <2>3. CASE t.type_ # "bi_implication"
    <3>1. u[t] = t  BY <2>3 DEF TwoImplications
    <3>2. rank[l] <= 2 * Size(l) + 1 /\ rank[r] <= 2 * Size(r) + 1  BY <2>1, <2>2
    <3>3. rank[t] = 2 * Size(t)  BY <2>2, <2>3
    <3>4. rank[l] \in Nat /\ rank[r] \in Nat  BY <1>3, <2>1
    <3> HIDE DEF u, rank
    <3>5. QED BY <2>1, <2>2, <3>1, <3>2, <3>3, <3>4
  <2>4. CASE t.type_ = "bi_implication"
    <3> DEFINE lr == Tree("implication", l, r)
               rl == Tree("implication", r, l)
    <3>1. u[t] = Tree("and", lr, rl)  BY <2>4 DEF TwoImplications
    <3>2. u[t].left_ = lr /\ u[t].right_ = rl  BY <3>1, TreeFacts DEF Node, Operators
    <3>3. lr \in Trees /\ rl \in Trees /\ lr \notin Leaf /\ rl \notin Leaf
          /\ lr.left_ = l /\ lr.right_ = r /\ rl.left_ = r /\ rl.right_ = l
          /\ lr.type_ = "implication" /\ rl.type_ = "implication"
      <4>1. /\ MaxHeight \in 0..MaxHeight /\ MaxHeight - 1 \in 0..MaxHeight
            /\ (MaxHeight - 1) + 1 <= MaxHeight
            /\ l \in TreesUpTo[MaxHeight - 1] /\ r \in TreesUpTo[MaxHeight - 1]
        <5>1. MaxHeight \in 0..MaxHeight /\ t \in TreesUpTo[MaxHeight]  BY Levels DEF Trees
        <5>2. QED BY <1>4, <5>1, NodeFields
      <4>2. "implication" \in Node  BY DEF Node, Operators
      <4> HIDE DEF l, r, u, rank
      <4>3. QED BY <4>1, <4>2, TreeFacts
    <3>4. Size(lr) = Size(t) /\ Size(rl) = Size(t)
      <4> HIDE DEF lr, rl, u, rank
      <4>1. Size(lr) = 1 + Size(l) + Size(r)  BY <3>3, SizeFacts
      <4>2. Size(rl) = 1 + Size(r) + Size(l)  BY <3>3, SizeFacts
      <4>3. QED BY <2>2, <4>1, <4>2
    <3>5. rank[lr] = 2 * Size(t) /\ rank[rl] = 2 * Size(t) /\ rank[t] = 2 * Size(t) + 1
      <4> HIDE DEF lr, rl
      <4>1. QED BY <2>2, <2>4, <3>3, <3>4
    <3> HIDE DEF lr, rl, u, rank
    <3>6. QED BY <2>2, <3>2, <3>3, <3>5
  <2>5. QED BY <2>3, <2>4
<1>5. PICK f : IsPass(f, Leaf, u, w)
  <2> HIDE DEF u, w, rank, bound
  <2>1. PassData(Leaf, u, rank, bound)  BY <1>2, <1>3, <1>4 DEF PassData
  <2>2. QED BY <2>1, PassExists
<1> DEFINE Body(g, t) == IF t \in {Null, Failed} THEN t ELSE Descend(TwoImplications(t), g)
<1>6. f = [t \in Trees |-> Body(f, t)]
  <2>1. f = [t \in Trees |-> IF t \in Leaf THEN w[t] ELSE Descend(u[t], f)]
    BY <1>5 DEF IsPass
  <2>2. \A t \in Trees : (IF t \in Leaf THEN w[t] ELSE Descend(u[t], f)) = Body(f, t)
    BY DEF Leaf
  <2> HIDE DEF Body, u, w
  <2>3. QED BY <2>1, <2>2
<1>7. removeBiImplication = CHOOSE g : g = [t \in Trees |-> Body(g, t)]
  BY DEF removeBiImplication
<1> HIDE DEF Body
<1>8. removeBiImplication = [t \in Trees |-> Body(removeBiImplication, t)]  BY <1>6, <1>7
<1>9. \A t \in Trees : removeBiImplication[t] = Body(removeBiImplication, t)  BY <1>8
<1>10. QED BY <1>9 DEF Body, Leaf

\* A node made of trees of the level below.
LEMMA Regrouped ==
  ASSUME NEW n \in 1..MaxHeight, NEW ty \in Node,
         NEW a \in TreesUpTo[n - 1], NEW b \in TreesUpTo[n - 1]
  PROVE  LET t == Tree(ty, a, b)
         IN  /\ t \in TreesUpTo[n] /\ t \in Trees \ Leaf
             /\ t.type_ = ty /\ t.left_ = a /\ t.right_ = b /\ t.var_name_ = NoName
             /\ Size(t) = 1 + Size(a) + Size(b)
             /\ a \in Trees /\ b \in Trees
<1> DEFINE t == Tree(ty, a, b)
<1>1. /\ MaxHeight \in Nat /\ n - 1 \in 0..MaxHeight /\ (n - 1) + 1 = n /\ n <= MaxHeight
      /\ n \in 0..MaxHeight
  BY Levels
<1>2. /\ t.type_ = ty /\ t.left_ = a /\ t.right_ = b /\ t.var_name_ = NoName
      /\ t \notin Leaf /\ t \in TreesUpTo[n]
  <2> DEFINE k == n - 1
  <2>1. k \in 0..MaxHeight /\ k + 1 = n /\ k + 1 <= MaxHeight
        /\ a \in TreesUpTo[k] /\ b \in TreesUpTo[k]
    BY <1>1
  <2> HIDE DEF t, k
  <2>2. t \in TreesUpTo[k + 1]  BY <2>1, TreeFacts DEF t
  <2>3. QED BY <2>1, <2>2, TreeFacts DEF t
<1>3. t \in Trees /\ a \in Trees /\ b \in Trees  BY <1>1, <1>2, TreesFacts
<1> HIDE DEF t
<1>4. Size(t) = 1 + Size(a) + Size(b)  BY <1>2, <1>3, SizeFacts
<1>5. QED BY <1>2, <1>3, <1>4 DEF t

\* removeImplication is what its definition says.
LEMMA ImplicationPass ==
  \A t \in Trees : removeImplication[t] =
    IF t \in Leaf THEN t ELSE Descend(Disjunction(t), removeImplication)
<1> DEFINE u == [t \in Trees |-> Disjunction(t)]
           w == [t \in Leaf |-> t]
           flag(t) == IF t.type_ = "implication" THEN 1 ELSE 0
           rank == [t \in Trees |-> 2 * Size(t) + flag(t)]
<1>1. PICK b \in Nat : \A t \in Trees : Size(t) < b  BY SizeFacts
<1> DEFINE bound == 2 * b + 1
<1>2. bound \in Nat  BY <1>1
<1>3. ASSUME NEW t \in Trees PROVE rank[t] \in Nat /\ rank[t] < bound
  <2>1. Size(t) \in Nat /\ Size(t) < b  BY <1>1, SizeFacts
  <2>2. QED BY <1>1, <2>1
<1>4. ASSUME NEW t \in Trees, t \notin Leaf
      PROVE  /\ u[t].left_ \in Trees /\ rank[u[t].left_] < rank[t]
             /\ u[t].right_ \in Trees /\ rank[u[t].right_] < rank[t]
  <2> DEFINE l == t.left_
             r == t.right_
  <2>1. l \in Trees /\ r \in Trees  BY <1>4, TreesFacts
  <2>2. /\ Size(l) \in Nat /\ Size(r) \in Nat /\ Size(l) >= 1 /\ Size(r) >= 1
        /\ Size(t) = 1 + Size(l) + Size(r)
    BY <1>4, <2>1, SizeFacts
  <2>3. rank[l] <= 2 * Size(l) + 1 /\ rank[r] <= 2 * Size(r) + 1  BY <2>1, <2>2
  <2>4. rank[l] \in Nat /\ rank[r] \in Nat  BY <1>3, <2>1
  <2>5. CASE t.type_ # "implication"
    <3>1. u[t] = t  BY <2>5 DEF Disjunction
    <3>2. rank[t] = 2 * Size(t)  BY <2>2, <2>5
    <3> HIDE DEF u, rank
    <3>3. QED BY <2>1, <2>2, <2>3, <2>4, <3>1, <3>2
  <2>6. CASE t.type_ = "implication"
    <3> DEFINE no == Tree("not", l, Null)
    <3>1. u[t] = Tree("or", no, r)  BY <2>6 DEF Disjunction
    <3>2. u[t].left_ = no /\ u[t].right_ = r  BY <3>1, TreeFacts DEF Node, Operators
    <3>3. no \in Trees /\ no.type_ = "not" /\ Size(no) = 1 + Size(l) + 1
      <4>1. MaxHeight \in 0..MaxHeight /\ t \in TreesUpTo[MaxHeight]  BY Levels DEF Trees
      <4>2. MaxHeight \in 1..MaxHeight /\ l \in TreesUpTo[MaxHeight - 1]
            /\ Null \in TreesUpTo[MaxHeight - 1]
        BY <1>4, <4>1, NodeFields, LevelsGrow DEF Leaf
      <4>3. "not" \in Node /\ Size(Null) = 1  BY SizeFacts DEF Node, Operators, Leaf
      <4> HIDE DEF l, u, rank
      <4>4. QED BY <4>2, <4>3, Regrouped
    <3>4. rank[no] = 2 * (Size(l) + 2) /\ rank[t] = 2 * Size(t) + 1
      <4> HIDE DEF no
      <4>1. QED BY <2>2, <2>6, <3>3
    <3> HIDE DEF no, u, rank
    <3>5. QED BY <2>1, <2>2, <2>3, <2>4, <3>2, <3>3, <3>4
  <2>7. QED BY <2>5, <2>6
<1>5. PICK f : IsPass(f, Leaf, u, w)
  <2> HIDE DEF u, w, rank, bound
  <2>1. PassData(Leaf, u, rank, bound)  BY <1>2, <1>3, <1>4 DEF PassData
  <2>2. QED BY <2>1, PassExists
<1> DEFINE Body(g, t) == IF t \in {Null, Failed} THEN t ELSE Descend(Disjunction(t), g)
<1>6. f = [t \in Trees |-> Body(f, t)]
  <2>1. f = [t \in Trees |-> IF t \in Leaf THEN w[t] ELSE Descend(u[t], f)]
    BY <1>5 DEF IsPass
  <2>2. \A t \in Trees : (IF t \in Leaf THEN w[t] ELSE Descend(u[t], f)) = Body(f, t)
    BY DEF Leaf
  <2> HIDE DEF Body, u, w
  <2>3. QED BY <2>1, <2>2
<1>7. removeImplication = CHOOSE g : g = [t \in Trees |-> Body(g, t)]
  BY DEF removeImplication
<1> HIDE DEF Body
<1>8. removeImplication = [t \in Trees |-> Body(removeImplication, t)]  BY <1>6, <1>7
<1>9. \A t \in Trees : removeImplication[t] = Body(removeImplication, t)  BY <1>8
<1>10. QED BY <1>9 DEF Body, Leaf

\* What WithoutDoubleNeg makes of a node.
LEMMA WithoutDoubleNegFacts ==
  ASSUME NEW t \in Trees, t \notin Leaf
  PROVE  LET v == WithoutDoubleNeg(t)
             l == IF t.left_.type_ = "not" /\ t.left_.left_.type_ = "not"
                  THEN t.left_.left_.left_ ELSE t.left_
         IN  /\ v = [type_ |-> t.type_, var_name_ |-> t.var_name_,
                     left_ |-> l, right_ |-> t.right_]
             /\ l \in Trees /\ Size(l) <= Size(t.left_)
             /\ \A n \in 1..MaxHeight : t \in TreesUpTo[n] => l \in TreesUpTo[n - 1]
<1> DEFINE l == IF t.left_.type_ = "not" /\ t.left_.left_.type_ = "not"
                THEN t.left_.left_.left_ ELSE t.left_
<1>1. /\ t = [type_ |-> t.type_, var_name_ |-> t.var_name_,
              left_ |-> t.left_, right_ |-> t.right_]
      /\ t.left_ \in Trees /\ t.right_ \in Trees
  BY TreesFacts
<1>2. t.left_ \in DoubleNegs <=> t.left_.type_ = "not" /\ t.left_.left_.type_ = "not"
  BY <1>1 DEF DoubleNegs, OfType
<1>3. \A s \in Trees : s.type_ = "not" => s \notin Leaf  BY TreesFacts DEF Leaf
<1>4. CASE t.left_ \in DoubleNegs
  <2>1. /\ t.left_.type_ = "not" /\ t.left_.left_.type_ = "not" /\ l = t.left_.left_.left_
    BY <1>2, <1>4
  <2>2. t.left_ \notin Leaf /\ t.left_.left_ \in Trees  BY <1>1, <1>3, <2>1, TreesFacts
  <2>3. t.left_.left_ \notin Leaf /\ t.left_.left_.left_ \in Trees
    BY <1>3, <2>1, <2>2, TreesFacts
  <2>4. Size(t.left_.left_) <= Size(t.left_)
    <3>1. t.left_.right_ \in Trees  BY <1>1, <2>2, TreesFacts
    <3>2. QED BY <1>1, <2>2, <3>1, SizeFacts
  <2>5. Size(t.left_.left_.left_) <= Size(t.left_.left_)
    <3>1. t.left_.left_.right_ \in Trees  BY <2>2, <2>3, TreesFacts
    <3>2. QED BY <2>2, <2>3, <3>1, SizeFacts
  <2>6. Size(t.left_) \in Nat /\ Size(t.left_.left_) \in Nat /\ Size(t.left_.left_.left_) \in Nat
    BY <1>1, <2>2, <2>3, SizeFacts
  <2>7. WithoutDoubleNeg(t) = [t EXCEPT !.left_ = t.left_.left_.left_]
    BY <1>4 DEF WithoutDoubleNeg
  <2>8. [t EXCEPT !.left_ = t.left_.left_.left_]
          = [type_ |-> t.type_, var_name_ |-> t.var_name_,
             left_ |-> t.left_.left_.left_, right_ |-> t.right_]
    <3> DEFINE e == t.left_.left_.left_  y == t.type_  m == t.var_name_
               a == t.left_  r == t.right_
    <3>1. t = [type_ |-> y, var_name_ |-> m, left_ |-> a, right_ |-> r]  BY <1>1
    <3> HIDE DEF e, y, m, a, r
    <3>2. [t EXCEPT !.left_ = e] = [type_ |-> y, var_name_ |-> m, left_ |-> e, right_ |-> r]
      BY <3>1
    <3>3. QED BY <3>2 DEF e, y, m, r
  <2>9. ASSUME NEW n \in 1..MaxHeight, t \in TreesUpTo[n]
        PROVE  l \in TreesUpTo[n - 1]
    <3>1. n \in 0..MaxHeight /\ n - 1 \in 0..MaxHeight /\ n - 1 <= MaxHeight  BY Levels
    <3>2. t.left_ \in TreesUpTo[n - 1]  BY <2>9, <3>1, NodeFields
    <3>3. /\ n - 1 \in 1..MaxHeight /\ (n - 1) - 1 \in 0..MaxHeight
          /\ t.left_.left_ \in TreesUpTo[(n - 1) - 1]
      <4> DEFINE k == n - 1
      <4>1. k \in 0..MaxHeight /\ t.left_ \in TreesUpTo[k]  BY <3>1, <3>2
      <4> HIDE DEF k
      <4>2. k \in 1..MaxHeight /\ k - 1 \in 0..MaxHeight /\ t.left_.left_ \in TreesUpTo[k - 1]
        BY <2>2, <4>1, NodeFields
      <4>3. QED BY <4>2 DEF k
    <3>4. /\ ((n - 1) - 1) - 1 \in 0..MaxHeight
          /\ t.left_.left_.left_ \in TreesUpTo[((n - 1) - 1) - 1]
      <4> DEFINE k == (n - 1) - 1
      <4>1. k \in 0..MaxHeight /\ t.left_.left_ \in TreesUpTo[k]  BY <3>3
      <4> HIDE DEF k
      <4>2. k - 1 \in 0..MaxHeight /\ t.left_.left_.left_ \in TreesUpTo[k - 1]
        BY <2>3, <4>1, NodeFields
      <4>3. QED BY <4>2 DEF k
    <3>5. ((n - 1) - 1) - 1 <= n - 1  BY <3>1
    <3>6. TreesUpTo[((n - 1) - 1) - 1] \subseteq TreesUpTo[n - 1]
      BY <3>1, <3>4, <3>5, LevelsGrow
    <3>7. QED BY <2>1, <3>4, <3>6
  <2> HIDE DEF l
  <2>10. QED BY <2>1, <2>3, <2>4, <2>5, <2>6, <2>7, <2>8, <2>9 DEF l
<1>5. CASE t.left_ \notin DoubleNegs
  <2>1. l = t.left_  BY <1>2, <1>5
  <2>2. WithoutDoubleNeg(t) = t  BY <1>5 DEF WithoutDoubleNeg
  <2>3. ASSUME NEW n \in 1..MaxHeight, t \in TreesUpTo[n]
        PROVE  t.left_ \in TreesUpTo[n - 1]
    <3>1. n \in 0..MaxHeight  BY Levels
    <3>2. QED BY <2>3, <3>1, NodeFields
  <2>4. Size(t.left_) <= Size(t.left_)  BY <1>1, SizeFacts
  <2> HIDE DEF l
  <2>5. QED BY <1>1, <2>1, <2>2, <2>3, <2>4 DEF l
<1>6. QED BY <1>4, <1>5

\* removeDoubleNeg is what its definition says.
LEMMA DoubleNegPass ==
  \A t \in Trees : removeDoubleNeg[t] =
    IF t \in Leaf THEN t ELSE Descend(WithoutDoubleNeg(t), removeDoubleNeg)
<1> DEFINE u == [t \in Trees |-> WithoutDoubleNeg(t)]
           w == [t \in Leaf |-> t]
           rank == [t \in Trees |-> Size(t)]
<1>1. PICK b \in Nat : \A t \in Trees : Size(t) < b  BY SizeFacts
<1>2. ASSUME NEW t \in Trees PROVE rank[t] \in Nat /\ rank[t] < b  BY <1>1, SizeFacts
<1>3. ASSUME NEW t \in Trees, t \notin Leaf
      PROVE  /\ u[t].left_ \in Trees /\ rank[u[t].left_] < rank[t]
             /\ u[t].right_ \in Trees /\ rank[u[t].right_] < rank[t]
  <2> DEFINE l == IF t.left_.type_ = "not" /\ t.left_.left_.type_ = "not"
                  THEN t.left_.left_.left_ ELSE t.left_
  <2>1. /\ u[t] = [type_ |-> t.type_, var_name_ |-> t.var_name_,
                   left_ |-> l, right_ |-> t.right_]
        /\ l \in Trees /\ Size(l) <= Size(t.left_)
    BY <1>3, WithoutDoubleNegFacts
  <2> HIDE DEF l, u
  <2>2. u[t].left_ = l /\ u[t].right_ = t.right_  BY <2>1
  <2>3. t.left_ \in Trees /\ t.right_ \in Trees  BY <1>3, TreesFacts
  <2>4. /\ Size(l) \in Nat /\ Size(t.left_) \in Nat /\ Size(t.right_) \in Nat
        /\ Size(t.left_) >= 1 /\ Size(t.right_) >= 1
        /\ Size(t) = 1 + Size(t.left_) + Size(t.right_)
    BY <1>3, <2>1, <2>3, SizeFacts
  <2>5. QED BY <2>1, <2>2, <2>3, <2>4
<1>4. PICK f : IsPass(f, Leaf, u, w)
  <2> HIDE DEF u, w, rank
  <2>1. PassData(Leaf, u, rank, b)  BY <1>1, <1>2, <1>3 DEF PassData
  <2>2. QED BY <2>1, PassExists
<1> DEFINE Body(g, t) == IF t \in {Null, Failed} THEN t ELSE Descend(WithoutDoubleNeg(t), g)
<1>5. f = [t \in Trees |-> Body(f, t)]
  <2>1. f = [t \in Trees |-> IF t \in Leaf THEN w[t] ELSE Descend(u[t], f)]
    BY <1>4 DEF IsPass
  <2>2. \A t \in Trees : (IF t \in Leaf THEN w[t] ELSE Descend(u[t], f)) = Body(f, t)
    BY DEF Leaf
  <2> HIDE DEF Body, u, w
  <2>3. QED BY <2>1, <2>2
<1>6. removeDoubleNeg = CHOOSE g : g = [t \in Trees |-> Body(g, t)]
  BY DEF removeDoubleNeg
<1> HIDE DEF Body
<1>7. removeDoubleNeg = [t \in Trees |-> Body(removeDoubleNeg, t)]  BY <1>5, <1>6
<1>8. \A t \in Trees : removeDoubleNeg[t] = Body(removeDoubleNeg, t)  BY <1>7
<1>9. QED BY <1>8 DEF Body, Leaf

\* removeDoubleNeg makes no tree larger.
LEMMA DoubleNegShrinks ==
  \A t \in Trees :
    /\ removeDoubleNeg[t] \in Trees /\ Size(removeDoubleNeg[t]) <= Size(t)
    /\ \A n \in 0..MaxHeight : t \in TreesUpTo[n] => removeDoubleNeg[t] \in TreesUpTo[n]
<1> DEFINE D(t) == removeDoubleNeg[t]
           S == {t \in Trees : /\ Size(D(t)) <= Size(t)
                               /\ \A n \in 0..MaxHeight : t \in TreesUpTo[n] =>
                                                            D(t) \in TreesUpTo[n]}
<1>0. \A t \in Trees : t \in TreesUpTo[MaxHeight] /\ MaxHeight \in 0..MaxHeight
  BY Levels DEF Trees
<1>1. ASSUME NEW t \in Trees, \A s \in Trees : Size(s) < Size(t) => s \in S PROVE t \in S
  <2>1. CASE t \in Leaf
    <3>1. D(t) = t  BY <2>1, DoubleNegPass
    <3>2. Size(t) <= Size(t)  BY SizeFacts
    <3> HIDE DEF D
    <3>3. QED BY <3>1, <3>2
  <2>2. CASE t \notin Leaf
    <3> DEFINE v == WithoutDoubleNeg(t)
               l == IF t.left_.type_ = "not" /\ t.left_.left_.type_ = "not"
                    THEN t.left_.left_.left_ ELSE t.left_
               r == t.right_
    <3>1. /\ v = [type_ |-> t.type_, var_name_ |-> t.var_name_, left_ |-> l, right_ |-> r]
          /\ l \in Trees /\ Size(l) <= Size(t.left_)
          /\ \A n \in 1..MaxHeight : t \in TreesUpTo[n] => l \in TreesUpTo[n - 1]
      BY <2>2, WithoutDoubleNegFacts
    <3>2. t.left_ \in Trees /\ r \in Trees /\ t.type_ \in Node /\ t.var_name_ \in Names
      BY <2>2, TreesFacts
    <3>3. D(t) = Descend(v, removeDoubleNeg)  BY <2>2, DoubleNegPass
    <3> HIDE DEF l, v, r
    <3>4. v.type_ = t.type_ /\ v.var_name_ = t.var_name_ /\ v.left_ = l /\ v.right_ = r
      BY <3>1
    <3>5. v = [type_ |-> v.type_, var_name_ |-> v.var_name_, left_ |-> v.left_,
               right_ |-> v.right_]
      BY <3>1, <3>4
    <3>6. D(t) = [type_ |-> t.type_, var_name_ |-> t.var_name_, left_ |-> D(l), right_ |-> D(r)]
      BY <3>3, <3>4, <3>5, DescendFacts
    <3>7. /\ Size(l) \in Nat /\ Size(t.left_) \in Nat /\ Size(r) \in Nat
          /\ Size(t.left_) >= 1 /\ Size(r) >= 1
          /\ Size(t) = 1 + Size(t.left_) + Size(r)
      BY <2>2, <3>1, <3>2, SizeFacts DEF r
    <3>8. l \in S /\ r \in S  BY <1>1, <3>1, <3>2, <3>7
    <3> HIDE DEF D
    <3>9. ASSUME NEW n \in 0..MaxHeight, t \in TreesUpTo[n] PROVE D(t) \in TreesUpTo[n]
      <4>1. n \in 1..MaxHeight /\ n - 1 \in 0..MaxHeight /\ r \in TreesUpTo[n - 1]
        BY <2>2, <3>9, NodeFields DEF r
      <4>2. l \in TreesUpTo[n - 1]  BY <3>1, <3>9, <4>1
      <4>3. D(l) \in TreesUpTo[n - 1] /\ D(r) \in TreesUpTo[n - 1]  BY <3>8, <4>1, <4>2
      <4> DEFINE k == n - 1
      <4>4. /\ k \in 0..MaxHeight /\ k + 1 = n /\ k + 1 <= MaxHeight
            /\ D(l) \in TreesUpTo[k] /\ D(r) \in TreesUpTo[k]
        BY <4>1, <4>3, Levels
      <4> HIDE DEF k
      <4>5. QED BY <3>2, <3>6, <4>4, NodeIn
    <3>10. D(t) \in Trees  BY <1>0, <3>9 DEF Trees
    <3>11. D(t) \notin Leaf /\ D(t).left_ = D(l) /\ D(t).right_ = D(r)
      <4>1. D(t).type_ \in Node /\ D(t).left_ = D(l) /\ D(t).right_ = D(r)  BY <3>2, <3>6
      <4>2. QED BY <4>1, TreesFacts DEF Leaf, Node, Operators
    <3>12. D(l) \in Trees /\ D(r) \in Trees  BY <3>10, <3>11, TreesFacts
    <3>13. Size(D(t)) = 1 + Size(D(l)) + Size(D(r))  BY <3>10, <3>11, SizeFacts
    <3>14. Size(D(l)) \in Nat /\ Size(D(r)) \in Nat  BY <3>12, SizeFacts
    <3>15. Size(D(t)) <= Size(t)  BY <3>1, <3>7, <3>8, <3>13, <3>14
    <3>16. QED BY <3>9, <3>15
  <2>3. QED BY <2>1, <2>2
<1>2. Trees \subseteq S
  <2> HIDE DEF S
  <2>1. QED BY <1>1, SizeInduction
<1>3. QED BY <1>0, <1>2 DEF Trees

\* What Demorgan makes of a node, if it is not an assertion that fails.
LEMMA DemorganFacts ==
  ASSUME NEW t \in Trees, t \notin Leaf, Demorgan(t) # Failed
  PROVE  LET v == Demorgan(t)
         IN  /\ v = [type_ |-> v.type_, var_name_ |-> v.var_name_,
                     left_ |-> v.left_, right_ |-> v.right_]
             /\ v.left_ \in Trees /\ Size(v.left_) < Size(t)
             /\ v.right_ \in Trees /\ Size(v.right_) < Size(t)
<1> DEFINE v == Demorgan(t)
<1>1. /\ t = [type_ |-> t.type_, var_name_ |-> t.var_name_,
              left_ |-> t.left_, right_ |-> t.right_]
      /\ t.left_ \in Trees /\ t.right_ \in Trees
  BY TreesFacts
<1>2. /\ Size(t.left_) \in Nat /\ Size(t.left_) >= 1
      /\ Size(t.right_) \in Nat /\ Size(t.right_) >= 1
      /\ Size(t) = 1 + Size(t.left_) + Size(t.right_)
  BY <1>1, SizeFacts
<1>3. CASE t.type_ # "not" \/ t.left_.type_ = "var"
  <2>1. v = t  BY <1>3 DEF Demorgan
  <2> HIDE DEF v
  <2>2. QED BY <1>1, <1>2, <2>1 DEF v
<1>4. CASE ~ (t.type_ # "not" \/ t.left_.type_ = "var")
  <2> DEFINE a == t.left_.left_
             b == t.left_.right_
             na == Tree("not", a, Null)
             nb == Tree("not", b, Null)
             x == Tree(Dual(t.left_.type_), na, nb)
  <2>1. t \in DemorganNodes  BY <1>4 DEF Demorgan
  <2>2. v = removeDoubleNeg[x]  BY <1>4, <2>1 DEF Demorgan
  <2>3. t.left_.type_ \in {"or", "and"}  BY <2>1 DEF DemorganNodes
  <2>4. t.left_ \notin Leaf  BY <2>3, TreesFacts DEF Leaf
  <2>5. /\ a \in Trees /\ Size(a) \in Nat /\ Size(a) >= 1
        /\ b \in Trees /\ Size(b) \in Nat /\ Size(b) >= 1
        /\ Size(t.left_) = 1 + Size(a) + Size(b)
    BY <1>1, <2>4, TreesFacts, SizeFacts
  <2>6. /\ MaxHeight - 1 \in 1..MaxHeight /\ MaxHeight \in 1..MaxHeight
        /\ a \in TreesUpTo[(MaxHeight - 1) - 1] /\ b \in TreesUpTo[(MaxHeight - 1) - 1]
        /\ Null \in TreesUpTo[(MaxHeight - 1) - 1]
    <3>1. MaxHeight \in 0..MaxHeight /\ t \in TreesUpTo[MaxHeight]  BY Levels DEF Trees
    <3> DEFINE k == MaxHeight - 1
    <3>2. MaxHeight \in 1..MaxHeight /\ k \in 0..MaxHeight /\ t.left_ \in TreesUpTo[k]
      BY <3>1, NodeFields
    <3> HIDE DEF k, a, b
    <3>3. k \in 1..MaxHeight /\ a \in TreesUpTo[k - 1] /\ b \in TreesUpTo[k - 1]
          /\ k - 1 \in 0..MaxHeight
      BY <2>4, <3>2, NodeFields DEF a, b
    <3>4. Null \in TreesUpTo[k - 1]  BY <3>3, LevelsGrow DEF Leaf
    <3>5. QED BY <3>2, <3>3, <3>4 DEF k
  <2>7. Size(Null) = 1 /\ "not" \in Node /\ Dual(t.left_.type_) \in Node
    BY SizeFacts DEF Leaf, Node, Operators, Dual
  <2>8. /\ na \in TreesUpTo[MaxHeight - 1] /\ na \in Trees \ Leaf /\ Size(na) = 1 + Size(a) + 1
        /\ nb \in TreesUpTo[MaxHeight - 1] /\ nb \in Trees \ Leaf /\ Size(nb) = 1 + Size(b) + 1
    <3> HIDE DEF a, b, v
    <3>1. QED BY <2>6, <2>7, Regrouped
  <2>9. x \in Trees \ Leaf /\ x.left_ = na /\ x.right_ = nb
    <3> HIDE DEF na, nb, v
    <3>1. QED BY <2>6, <2>7, <2>8, Regrouped
  <2> HIDE DEF x, na, nb, a, b
  <2> DEFINE y == WithoutDoubleNeg(x)
             l == IF x.left_.type_ = "not" /\ x.left_.left_.type_ = "not"
                  THEN x.left_.left_.left_ ELSE x.left_
  <2>10. /\ y = [type_ |-> x.type_, var_name_ |-> x.var_name_, left_ |-> l, right_ |-> x.right_]
         /\ l \in Trees /\ Size(l) <= Size(x.left_)
    BY <2>9, WithoutDoubleNegFacts
  <2>11. v = Descend(y, removeDoubleNeg)  BY <2>2, <2>9, DoubleNegPass
  <2> HIDE DEF y, l, v
  <2>12. y.type_ = x.type_ /\ y.var_name_ = x.var_name_ /\ y.left_ = l /\ y.right_ = nb
    BY <2>9, <2>10
  <2>13. y = [type_ |-> y.type_, var_name_ |-> y.var_name_, left_ |-> y.left_,
              right_ |-> y.right_]
    BY <2>9, <2>10, <2>12
  <2>14. v = [type_ |-> y.type_, var_name_ |-> y.var_name_,
              left_ |-> removeDoubleNeg[l], right_ |-> removeDoubleNeg[nb]]
    BY <2>11, <2>12, <2>13, DescendFacts
  <2>15. /\ removeDoubleNeg[l] \in Trees /\ Size(removeDoubleNeg[l]) <= Size(l)
         /\ removeDoubleNeg[nb] \in Trees /\ Size(removeDoubleNeg[nb]) <= Size(nb)
    BY <2>8, <2>10, DoubleNegShrinks
  <2>16. /\ v.left_ = removeDoubleNeg[l] /\ v.right_ = removeDoubleNeg[nb]
         /\ v.type_ = y.type_ /\ v.var_name_ = y.var_name_
    BY <2>14
  <2>17. Size(removeDoubleNeg[l]) \in Nat /\ Size(removeDoubleNeg[nb]) \in Nat
         /\ Size(l) \in Nat /\ Size(nb) \in Nat /\ Size(na) \in Nat
    BY <2>8, <2>10, <2>15, SizeFacts
  <2>18. Size(v.left_) < Size(t) /\ Size(v.right_) < Size(t)
    BY <1>2, <2>5, <2>8, <2>9, <2>10, <2>15, <2>16, <2>17
  <2>19. v = [type_ |-> v.type_, var_name_ |-> v.var_name_,
              left_ |-> v.left_, right_ |-> v.right_]
    BY <2>14, <2>16
  <2>20. QED BY <2>15, <2>16, <2>18, <2>19 DEF v
<1>5. QED BY <1>3, <1>4

\* What Distribute makes of a node, if it is not an assertion that fails.
LEMMA DistributeFacts ==
  ASSUME NEW t \in Trees, t \notin Leaf, Distribute(t) # Failed
  PROVE  LET v == Distribute(t)
         IN  /\ v = [type_ |-> v.type_, var_name_ |-> v.var_name_,
                     left_ |-> v.left_, right_ |-> v.right_]
             /\ v.left_ \in Trees /\ Size(v.left_) < Size(t)
             /\ v.right_ \in Trees /\ Size(v.right_) < Size(t)
<1> DEFINE v == Distribute(t)
           l == t.left_
           r == t.right_
           Below == TreesUpTo[MaxHeight - 1]
<1>1. /\ t = [type_ |-> t.type_, var_name_ |-> t.var_name_, left_ |-> l, right_ |-> r]
      /\ l \in Trees /\ r \in Trees
  BY TreesFacts
<1>2. /\ Size(l) \in Nat /\ Size(l) >= 1 /\ Size(r) \in Nat /\ Size(r) >= 1
      /\ Size(t) = 1 + Size(l) + Size(r)
  BY <1>1, SizeFacts
<1>3. MaxHeight \in 1..MaxHeight /\ l \in Below /\ r \in Below
  <2>1. MaxHeight \in 0..MaxHeight /\ t \in TreesUpTo[MaxHeight]  BY Levels DEF Trees
  <2>2. QED BY <2>1, NodeFields
<1>4. ASSUME NEW s \in Below, s \notin Leaf
      PROVE  /\ s.left_ \in Below /\ s.right_ \in Below
             /\ Size(s.left_) \in Nat /\ Size(s.left_) < Size(s)
             /\ Size(s.right_) \in Nat /\ Size(s.right_) < Size(s)
  <2> DEFINE k == MaxHeight - 1
  <2>1. k \in 0..MaxHeight  BY <1>3
  <2>2. /\ s \in TreesUpTo[k] /\ k - 1 \in 0..MaxHeight /\ k - 1 <= k
        /\ s.left_ \in TreesUpTo[k - 1] /\ s.right_ \in TreesUpTo[k - 1]
    <3> HIDE DEF k
    <3>1. s \in TreesUpTo[k]  BY <1>4 DEF k
    <3>2. QED BY <1>4, <2>1, <3>1, NodeFields
  <2>3. TreesUpTo[k - 1] \subseteq TreesUpTo[k]
    <3> HIDE DEF k
    <3>1. QED BY <2>1, <2>2, LevelsGrow
  <2>4. s \in Trees  BY <2>1, TreesFacts
  <2>5. s.left_ \in Trees /\ s.right_ \in Trees  BY <1>4, <2>4, TreesFacts
  <2>6. /\ Size(s.left_) \in Nat /\ Size(s.left_) >= 1
        /\ Size(s.right_) \in Nat /\ Size(s.right_) >= 1
        /\ Size(s) = 1 + Size(s.left_) + Size(s.right_)
    BY <1>4, <2>4, <2>5, SizeFacts
  <2>7. QED BY <2>2, <2>3, <2>6
<1>5. \A s \in Trees : s.type_ = "and" => s \notin Leaf  BY TreesFacts DEF Leaf
<1> HIDE DEF l, r, Below
\* Each child is an "or" of two trees that are smaller together.
<1>6. ASSUME NEW a \in Below, NEW b \in Below, NEW c \in Below, NEW d \in Below,
             Size(a) \in Nat, Size(b) \in Nat, Size(c) \in Nat, Size(d) \in Nat,
             Size(a) + Size(b) < Size(l) + Size(r),
             Size(c) + Size(d) < Size(l) + Size(r),
             v = Tree("and", Tree("or", a, b), Tree("or", c, d))
      PROVE  /\ v = [type_ |-> v.type_, var_name_ |-> v.var_name_,
                     left_ |-> v.left_, right_ |-> v.right_]
             /\ v.left_ \in Trees /\ Size(v.left_) < Size(t)
             /\ v.right_ \in Trees /\ Size(v.right_) < Size(t)
  <2> DEFINE x == Tree("or", a, b)
             y == Tree("or", c, d)
  <2>1. "or" \in Node /\ "and" \in Node  BY DEF Node, Operators
  <2>2. /\ x \in Trees /\ Size(x) = 1 + Size(a) + Size(b)
        /\ y \in Trees /\ Size(y) = 1 + Size(c) + Size(d)
    <3> HIDE DEF v
    <3>1. QED BY <1>3, <2>1, Regrouped DEF Below
  <2>3. v = [type_ |-> "and", var_name_ |-> NoName, left_ |-> x, right_ |-> y]
    BY <1>6 DEF Tree
  <2> HIDE DEF v, x, y
  <2>4. v.left_ = x /\ v.right_ = y /\ v.type_ = "and" /\ v.var_name_ = NoName  BY <2>3
  <2>5. v = [type_ |-> v.type_, var_name_ |-> v.var_name_, left_ |-> v.left_,
             right_ |-> v.right_]
    BY <2>3, <2>4
  <2>6. Size(x) < Size(t) /\ Size(y) < Size(t)  BY <1>2, <1>6, <2>2
  <2>7. QED BY <2>2, <2>4, <2>5, <2>6
<1>7. CASE t \notin Distributables
  <2>1. v = t  BY <1>7 DEF Distribute
  <2> HIDE DEF v
  <2>2. t.left_ = l /\ t.right_ = r  BY DEF l, r
  <2>3. QED BY <1>1, <1>2, <2>1, <2>2 DEF v
<1>8. CASE t \in Distributables /\ l.type_ = "and" /\ r.type_ = "and"
  <2>1. v = Tree("and", Tree("or", l.left_, r), Tree("or", l.right_, r.right_))
    BY <1>8 DEF Distribute, l, r
  <2>2. l \notin Leaf /\ r \notin Leaf  BY <1>1, <1>5, <1>8
  <2>3. /\ l.left_ \in Below /\ l.right_ \in Below /\ r.right_ \in Below
        /\ Size(l.left_) \in Nat /\ Size(l.right_) \in Nat /\ Size(r.right_) \in Nat
        /\ Size(l.left_) < Size(l) /\ Size(l.right_) < Size(l) /\ Size(r.right_) < Size(r)
    BY <1>3, <1>4, <2>2
  <2>4. /\ Size(l.left_) + Size(r) < Size(l) + Size(r)
        /\ Size(l.right_) + Size(r.right_) < Size(l) + Size(r)
    BY <1>2, <2>3
  <2> HIDE DEF v
  <2>5. QED BY <1>2, <1>3, <1>6, <2>1, <2>3, <2>4 DEF v
<1>9. CASE t \in Distributables /\ ~ (l.type_ = "and" /\ r.type_ = "and")
  <2>1. {l.type_, r.type_} \cap {"not", "var"} # {}  BY <1>9 DEF Distribute, l, r
  <2>2. l.type_ = "and" \/ r.type_ = "and"  BY <1>9 DEF Distributables, l, r
  <2>3. CASE r.type_ = "and"
    <3>1. v = Tree("and", Tree("or", l, r.left_), Tree("or", l, r.right_))
      BY <1>9, <2>1, <2>3 DEF Distribute, l, r
    <3>2. r \notin Leaf  BY <1>1, <1>5, <2>3
    <3>3. /\ r.left_ \in Below /\ r.right_ \in Below
          /\ Size(r.left_) \in Nat /\ Size(r.right_) \in Nat
          /\ Size(r.left_) < Size(r) /\ Size(r.right_) < Size(r)
      BY <1>3, <1>4, <3>2
    <3>4. /\ Size(l) + Size(r.left_) < Size(l) + Size(r)
          /\ Size(l) + Size(r.right_) < Size(l) + Size(r)
      BY <1>2, <3>3
    <3> HIDE DEF v
    <3>5. QED BY <1>2, <1>3, <1>6, <3>1, <3>3, <3>4 DEF v
  <2>4. CASE r.type_ # "and"
    <3>1. v = Tree("and", Tree("or", l.left_, r), Tree("or", l.right_, r))
      BY <1>9, <2>1, <2>4 DEF Distribute, l, r
    <3>2. l \notin Leaf  BY <1>1, <1>5, <2>2, <2>4
    <3>3. /\ l.left_ \in Below /\ l.right_ \in Below
          /\ Size(l.left_) \in Nat /\ Size(l.right_) \in Nat
          /\ Size(l.left_) < Size(l) /\ Size(l.right_) < Size(l)
      BY <1>3, <1>4, <3>2
    <3>4. /\ Size(l.left_) + Size(r) < Size(l) + Size(r)
          /\ Size(l.right_) + Size(r) < Size(l) + Size(r)
      BY <1>2, <3>3
    <3> HIDE DEF v
    <3>5. QED BY <1>2, <1>3, <1>6, <3>1, <3>3, <3>4 DEF v
  <2>5. QED BY <2>3, <2>4
<1>10. QED BY <1>7, <1>8, <1>9

\* applyDemorgan is what its definition says.
LEMMA DemorganPass ==
  \A t \in Trees : applyDemorgan[t] =
    IF t \in Leaf THEN t
    ELSE IF Demorgan(t) = Failed THEN Failed
    ELSE Descend(Demorgan(t), applyDemorgan)
<1> DEFINE u == [t \in Trees |-> Demorgan(t)]
           Stop == Leaf \cup {t \in Trees : Demorgan(t) = Failed}
           w == [t \in Trees |-> IF t \in Leaf THEN t ELSE Failed]
           rank == [t \in Trees |-> Size(t)]
<1>1. PICK b \in Nat : \A t \in Trees : Size(t) < b  BY SizeFacts
<1>2. ASSUME NEW t \in Trees PROVE rank[t] \in Nat /\ rank[t] < b  BY <1>1, SizeFacts
<1>3. ASSUME NEW t \in Trees, t \notin Stop
      PROVE  /\ u[t].left_ \in Trees /\ rank[u[t].left_] < rank[t]
             /\ u[t].right_ \in Trees /\ rank[u[t].right_] < rank[t]
  BY <1>3, DemorganFacts
<1>4. PICK f : IsPass(f, Stop, u, w)
  <2> HIDE DEF u, w, rank, Stop
  <2>1. PassData(Stop, u, rank, b)  BY <1>1, <1>2, <1>3 DEF PassData
  <2>2. QED BY <2>1, PassExists
<1> DEFINE Body(g, t) == IF t \in {Null, Failed} THEN t
                         ELSE IF Demorgan(t) = Failed THEN Failed
                         ELSE Descend(Demorgan(t), g)
<1>5. f = [t \in Trees |-> Body(f, t)]
  <2>1. f = [t \in Trees |-> IF t \in Stop THEN w[t] ELSE Descend(u[t], f)]
    BY <1>4 DEF IsPass
  <2>2. \A t \in Trees : (IF t \in Stop THEN w[t] ELSE Descend(u[t], f)) = Body(f, t)
    BY DEF Leaf
  <2> HIDE DEF Body, u, w, Stop
  <2>3. QED BY <2>1, <2>2
<1>6. applyDemorgan = CHOOSE g : g = [t \in Trees |-> Body(g, t)]
  BY DEF applyDemorgan
<1> HIDE DEF Body
<1>7. applyDemorgan = [t \in Trees |-> Body(applyDemorgan, t)]  BY <1>5, <1>6
<1>8. \A t \in Trees : applyDemorgan[t] = Body(applyDemorgan, t)  BY <1>7
<1>9. QED BY <1>8 DEF Body, Leaf

\* applyDistibutiveOrOverAnd is what its definition says.
LEMMA DistributivePass ==
  \A t \in Trees : applyDistibutiveOrOverAnd[t] =
    IF t \in Leaf THEN t
    ELSE IF Distribute(t) = Failed THEN Failed
    ELSE Descend(Distribute(t), applyDistibutiveOrOverAnd)
<1> DEFINE u == [t \in Trees |-> Distribute(t)]
           Stop == Leaf \cup {t \in Trees : Distribute(t) = Failed}
           w == [t \in Trees |-> IF t \in Leaf THEN t ELSE Failed]
           rank == [t \in Trees |-> Size(t)]
<1>1. PICK b \in Nat : \A t \in Trees : Size(t) < b  BY SizeFacts
<1>2. ASSUME NEW t \in Trees PROVE rank[t] \in Nat /\ rank[t] < b  BY <1>1, SizeFacts
<1>3. ASSUME NEW t \in Trees, t \notin Stop
      PROVE  /\ u[t].left_ \in Trees /\ rank[u[t].left_] < rank[t]
             /\ u[t].right_ \in Trees /\ rank[u[t].right_] < rank[t]
  BY <1>3, DistributeFacts
<1>4. PICK f : IsPass(f, Stop, u, w)
  <2> HIDE DEF u, w, rank, Stop
  <2>1. PassData(Stop, u, rank, b)  BY <1>1, <1>2, <1>3 DEF PassData
  <2>2. QED BY <2>1, PassExists
<1> DEFINE Body(g, t) == IF t \in {Null, Failed} THEN t
                         ELSE IF Distribute(t) = Failed THEN Failed
                         ELSE Descend(Distribute(t), g)
<1>5. f = [t \in Trees |-> Body(f, t)]
  <2>1. f = [t \in Trees |-> IF t \in Stop THEN w[t] ELSE Descend(u[t], f)]
    BY <1>4 DEF IsPass
  <2>2. \A t \in Trees : (IF t \in Stop THEN w[t] ELSE Descend(u[t], f)) = Body(f, t)
    BY DEF Leaf
  <2> HIDE DEF Body, u, w, Stop
  <2>3. QED BY <2>1, <2>2
<1>6. applyDistibutiveOrOverAnd = CHOOSE g : g = [t \in Trees |-> Body(g, t)]
  BY DEF applyDistibutiveOrOverAnd
<1> HIDE DEF Body
<1>7. applyDistibutiveOrOverAnd = [t \in Trees |-> Body(applyDistibutiveOrOverAnd, t)]
  BY <1>5, <1>6
<1>8. \A t \in Trees : applyDistibutiveOrOverAnd[t] = Body(applyDistibutiveOrOverAnd, t)
  BY <1>7
<1>9. QED BY <1>8 DEF Body, Leaf

-----------------------------------------------------------------------------
(* Nodes and names.                                                        *)

\* The nodes of a tree that are in S, as a set.
NodeSet(t, S) == Entries(Nodes(t, S))

LEMMA NodeSetFacts ==
  ASSUME NEW S
  PROVE  /\ \A t \in Trees : NodeSet(t, S) \subseteq S
         /\ \A t \in Leaf : NodeSet(t, S) = {t} \cap S
         /\ \A t \in Trees \ Leaf :
              NodeSet(t, S) = ({t} \cap S) \cup (NodeSet(t.left_, S) \cup NodeSet(t.right_, S))
<1>1. ASSUME NEW t \in Trees PROVE NodeSet(t, S) \subseteq S
  <2>1. Nodes(t, S) \in Seq(S)  BY NodesFacts
  <2>2. QED BY <2>1 DEF NodeSet, Entries
<1>2. ASSUME NEW t \in Leaf PROVE NodeSet(t, S) = {t} \cap S
  <2>1. Nodes(t, S) = IF t \in S THEN <<t>> ELSE << >>  BY NodesFacts
  <2>2. CASE t \in S
    <3>1. Nodes(t, S) = <<t>>  BY <2>1, <2>2
    <3>2. QED BY <2>2, <3>1 DEF NodeSet, Entries
  <2>3. CASE t \notin S
    <3>1. Nodes(t, S) = << >>  BY <2>1, <2>3
    <3>2. QED BY <2>3, <3>1 DEF NodeSet, Entries
  <2>4. QED BY <2>2, <2>3
<1>3. ASSUME NEW t \in Trees, t \notin Leaf
      PROVE  NodeSet(t, S) = ({t} \cap S) \cup (NodeSet(t.left_, S) \cup NodeSet(t.right_, S))
  <2> DEFINE own == IF t \in S THEN <<t>> ELSE << >>
             l == Nodes(t.left_, S)
             r == Nodes(t.right_, S)
             lr == l \o r
             all == own \o lr
  <2>1. own \in Seq(S) /\ Entries(own) = {t} \cap S
    <3>1. CASE t \in S
      <4>1. own = <<t>>  BY <3>1
      <4> HIDE DEF own
      <4>2. QED BY <3>1, <4>1 DEF Entries
    <3>2. CASE t \notin S
      <4>1. own = << >>  BY <3>2
      <4> HIDE DEF own
      <4>2. QED BY <3>2, <4>1 DEF Entries
    <3>3. QED BY <3>1, <3>2
  <2>2. l \in Seq(S) /\ r \in Seq(S)  BY <1>3, NodesFacts, TreesFacts
  <2>3. Nodes(t, S) = all  BY <1>3, NodesFacts
  <2> HIDE DEF own, l, r
  <2>4. lr \in Seq(S) /\ Len(lr) = Len(l) + Len(r)  BY <2>2, Concatenated
  <2>5. Entries(lr) = Entries(l) \cup Entries(r)
    BY <2>2, JoinedEntries
  <2> HIDE DEF lr
  <2>6. Entries(all) = Entries(own) \cup Entries(lr)
    BY <2>1, <2>4, JoinedEntries
  <2>7. QED BY <2>1, <2>3, <2>5, <2>6 DEF NodeSet, l, r
<1>4. QED BY <1>1, <1>2, <1>3

\* The names in a tree.
LEMMA NamesFacts ==
  /\ \A t \in Trees : NamesIn(t) \subseteq Names
  /\ \A t \in Leaf : NamesIn(t) = {}
  /\ \A t \in Trees \ Leaf :
       NamesIn(t) = (IF t.type_ = "var" THEN {t.var_name_} ELSE {})
                    \cup (NamesIn(t.left_) \cup NamesIn(t.right_))
  /\ \A t : NamesIn(t) = {s.var_name_ : s \in NodeSet(t, OfType("var"))}
<1>1. ASSUME NEW t PROVE NamesIn(t) = {s.var_name_ : s \in NodeSet(t, OfType("var"))}
  BY DEF NamesIn, NodeSet, Entries
<1>2. \A t \in Leaf : t \notin OfType("var")  BY TreesFacts DEF Leaf, OfType
<1>3. \A t \in Leaf : NamesIn(t) = {}  BY <1>1, <1>2, NodeSetFacts
<1>4. ASSUME NEW t \in Trees, t \notin Leaf
      PROVE  NamesIn(t) = (IF t.type_ = "var" THEN {t.var_name_} ELSE {})
                          \cup (NamesIn(t.left_) \cup NamesIn(t.right_))
  <2> DEFINE V == OfType("var")
  <2>1. NodeSet(t, V) = ({t} \cap V) \cup (NodeSet(t.left_, V) \cup NodeSet(t.right_, V))
    BY <1>4, NodeSetFacts
  <2>2. t \in V <=> t.type_ = "var"  BY DEF OfType
  <2> HIDE DEF V
  <2>3. NamesIn(t) = {s.var_name_ : s \in NodeSet(t, V)}  BY <1>1 DEF V
  <2>4. NamesIn(t.left_) = {s.var_name_ : s \in NodeSet(t.left_, V)}  BY <1>1 DEF V
  <2>5. NamesIn(t.right_) = {s.var_name_ : s \in NodeSet(t.right_, V)}  BY <1>1 DEF V
  <2>6. QED BY <2>1, <2>2, <2>3, <2>4, <2>5
<1>5. ASSUME NEW t \in Trees PROVE NamesIn(t) \subseteq Names
  <2>1. NodeSet(t, OfType("var")) \subseteq OfType("var")  BY NodeSetFacts
  <2>2. \A s \in OfType("var") : s \in Trees \ Leaf  BY <1>2 DEF OfType
  <2>3. \A s \in OfType("var") : s.var_name_ \in Names  BY <2>2, TreesFacts
  <2>4. QED BY <1>1, <2>1, <2>3
<1>6. QED BY <1>1, <1>3, <1>4, <1>5

-----------------------------------------------------------------------------
(* Trees made of operators.                                                *)

Not(a) == Tree("not", a, Null)
And(a, b) == Tree("and", a, b)
Or(a, b) == Tree("or", a, b)
Imp(a, b) == Tree("implication", a, b)
Iff(a, b) == Tree("bi_implication", a, b)

Vars == {VarNode(name) : name \in Names}

\* The fields of an operator's node.
LEMMA OperatorFields ==
  ASSUME NEW a, NEW b
  PROVE  /\ Not(a).type_ = "not" /\ Not(a).left_ = a /\ Not(a).right_ = Null
         /\ And(a, b).type_ = "and" /\ And(a, b).left_ = a /\ And(a, b).right_ = b
         /\ Or(a, b).type_ = "or" /\ Or(a, b).left_ = a /\ Or(a, b).right_ = b
         /\ Imp(a, b).type_ = "implication" /\ Imp(a, b).left_ = a /\ Imp(a, b).right_ = b
         /\ Iff(a, b).type_ = "bi_implication" /\ Iff(a, b).left_ = a /\ Iff(a, b).right_ = b
         /\ {Not(a), And(a, b), Or(a, b), Imp(a, b), Iff(a, b)} \cap Leaf = {}
BY TreeFacts DEF Node, Operators, Not, And, Or, Imp, Iff

\* A variable's node.
LEMMA VarFacts ==
  ASSUME 1 <= MaxHeight, NEW x \in Vars
  PROVE  /\ x.type_ = "var" /\ x.var_name_ \in Names /\ x = VarNode(x.var_name_)
         /\ x.left_ = Null /\ x.right_ = Null
         /\ x \in TreesUpTo[1] /\ x \in Trees \ Leaf
         /\ x = [type_ |-> x.type_, var_name_ |-> x.var_name_,
                 left_ |-> x.left_, right_ |-> x.right_]
         /\ NamesIn(x) = {x.var_name_}
         /\ \A m : Value(x, m) = m[x.var_name_]
         /\ \A S : Count(x, S) = (IF x \in S THEN 1 ELSE 0) + 2 * (IF Null \in S THEN 1 ELSE 0)
<1>1. PICK name \in Names : x = VarNode(name)  BY DEF Vars
<1>2. x = [type_ |-> "var", var_name_ |-> name, left_ |-> Null, right_ |-> Null]
  BY <1>1 DEF VarNode
<1>3. /\ x.type_ = "var" /\ x.var_name_ = name /\ x.left_ = Null /\ x.right_ = Null
  BY <1>2
<1>4. x = [type_ |-> x.type_, var_name_ |-> x.var_name_, left_ |-> x.left_,
           right_ |-> x.right_]
  BY <1>2, <1>3
<1>5. x \in TreesUpTo[1] /\ 1 \in 0..MaxHeight
  <2>1. 0 \in 0..MaxHeight /\ 0 + 1 <= MaxHeight /\ 0 + 1 = 1 /\ 1 \in 0..MaxHeight  BY Levels
  <2>2. Null \in TreesUpTo[0] /\ "var" \in Node  BY Levels DEF Leaf, Node
  <2>3. x \in TreesUpTo[0 + 1]  BY <1>2, <2>1, <2>2, NodeIn
  <2>4. QED BY <2>1, <2>3
<1>6. x \in Trees /\ x \notin Leaf  BY <1>3, <1>5, TreesFacts DEF Leaf
<1>7. NamesIn(x) = {x.var_name_}
  <2>1. NamesIn(Null) = {}  BY NamesFacts DEF Leaf
  <2>2. NamesIn(x) = {x.var_name_} \cup (NamesIn(x.left_) \cup NamesIn(x.right_))
    BY <1>3, <1>6, NamesFacts
  <2>3. QED BY <1>3, <2>1, <2>2
<1>8. \A m : Value(x, m) = m[x.var_name_]  BY <1>3, <1>6, ValueFacts
<1>9. ASSUME NEW S
      PROVE  Count(x, S) = (IF x \in S THEN 1 ELSE 0) + 2 * (IF Null \in S THEN 1 ELSE 0)
  <2>1. Null \in Leaf  BY DEF Leaf
  <2>2. Count(Null, S) = IF Null \in S THEN 1 ELSE 0  BY <2>1, CountFacts
  <2>3. Count(x, S) = (IF x \in S THEN 1 ELSE 0) + (Count(x.left_, S) + Count(x.right_, S))
    BY <1>6, CountFacts
  <2>4. QED BY <1>3, <2>2, <2>3
<1>10. QED BY <1>1, <1>3, <1>4, <1>5, <1>6, <1>7, <1>8, <1>9

\* Trees of at most eight levels.
LEMMA Built ==
  ASSUME 8 <= MaxHeight
  PROVE  /\ 1 <= MaxHeight /\ Vars \subseteq TreesUpTo[1]
         /\ \A k \in 1..8 : Null \in TreesUpTo[k] /\ TreesUpTo[k] \subseteq Trees
         /\ \A k \in 1..7 :
              /\ TreesUpTo[k] \subseteq TreesUpTo[k + 1]
              /\ \A a, b \in TreesUpTo[k] :
                   {Not(a), And(a, b), Or(a, b), Imp(a, b), Iff(a, b)} \subseteq TreesUpTo[k + 1]
<1>1. MaxHeight \in Nat /\ 1 <= MaxHeight  BY Levels
<1>2. Vars \subseteq TreesUpTo[1]  BY <1>1, VarFacts
<1>3. ASSUME NEW k \in 1..8 PROVE Null \in TreesUpTo[k] /\ TreesUpTo[k] \subseteq Trees
  <2>1. k \in 0..MaxHeight  BY <1>1
  <2>2. QED BY <2>1, LevelsGrow, TreesFacts DEF Leaf
<1>4. ASSUME NEW k \in 1..7
      PROVE  /\ TreesUpTo[k] \subseteq TreesUpTo[k + 1]
             /\ \A a, b \in TreesUpTo[k] :
                  {Not(a), And(a, b), Or(a, b), Imp(a, b), Iff(a, b)} \subseteq TreesUpTo[k + 1]
  <2>1. k \in 0..MaxHeight /\ k + 1 \in 0..MaxHeight /\ k <= k + 1 /\ k + 1 <= MaxHeight
    BY <1>1
  <2>2. TreesUpTo[k] \subseteq TreesUpTo[k + 1]  BY <2>1, LevelsGrow
  <2>3. ASSUME NEW ty \in Operators, NEW a \in TreesUpTo[k], NEW b \in TreesUpTo[k]
        PROVE  Tree(ty, a, b) \in TreesUpTo[k + 1]
    <3>1. ty \in Node  BY DEF Node
    <3>2. QED BY <2>1, <3>1, TreeFacts
  <2>4. Null \in TreesUpTo[k]  BY <2>1, LevelsGrow DEF Leaf
  <2>5. QED BY <2>2, <2>3, <2>4 DEF Operators, Not, And, Or, Imp, Iff
<1>5. QED BY <1>1, <1>2, <1>3, <1>4

\* What the operations make of a leaf or a variable.
LEMMA LeafRules ==
  ASSUME 1 <= MaxHeight, NEW t \in Vars \cup {Null}
  PROVE  /\ removeBiImplication[t] = t /\ removeImplication[t] = t
         /\ removeDoubleNeg[t] = t /\ applyDemorgan[t] = t
         /\ applyDistibutiveOrOverAnd[t] = t
         /\ t \in Trees
<1>1. /\ removeBiImplication[Null] = Null /\ removeImplication[Null] = Null
      /\ removeDoubleNeg[Null] = Null /\ applyDemorgan[Null] = Null
      /\ applyDistibutiveOrOverAnd[Null] = Null
      /\ Null \in Trees /\ Null.type_ = "NULL"
  BY TreesFacts, BiImplicationPass, ImplicationPass, DoubleNegPass, DemorganPass,
     DistributivePass DEF Leaf
<1>2. ASSUME t \in Vars
      PROVE  /\ removeBiImplication[t] = t /\ removeImplication[t] = t
             /\ removeDoubleNeg[t] = t /\ applyDemorgan[t] = t
             /\ applyDistibutiveOrOverAnd[t] = t
             /\ t \in Trees
  <2>1. /\ t.type_ = "var" /\ t.left_ = Null /\ t.right_ = Null /\ t \in Trees \ Leaf
        /\ t = [type_ |-> t.type_, var_name_ |-> t.var_name_,
                left_ |-> t.left_, right_ |-> t.right_]
    BY <1>2, VarFacts
  <2>2. TwoImplications(t) = t /\ Disjunction(t) = t  BY <2>1 DEF TwoImplications, Disjunction
  <2>3. Demorgan(t) = t /\ Distribute(t) = t
    BY <2>1 DEF Demorgan, Distribute, Distributables, OfType
  <2>4. WithoutDoubleNeg(t) = t
    <3>1. t.left_ \notin DoubleNegs  BY <1>1, <2>1 DEF DoubleNegs, OfType
    <3>2. QED BY <3>1 DEF WithoutDoubleNeg
  <2>5. ASSUME NEW P, P[Null] = Null PROVE Descend(t, P) = t
    <3>1. Descend(t, P) = [type_ |-> t.type_, var_name_ |-> t.var_name_,
                           left_ |-> P[t.left_], right_ |-> P[t.right_]]
      BY <2>1, DescendFacts
    <3>2. QED BY <2>1, <2>5, <3>1
  <2>6. t # Failed  BY <2>1 DEF Leaf
  <2>7. removeBiImplication[t] = t  BY <1>1, <2>1, <2>2, <2>5, BiImplicationPass
  <2>8. removeImplication[t] = t  BY <1>1, <2>1, <2>2, <2>5, ImplicationPass
  <2>9. removeDoubleNeg[t] = t  BY <1>1, <2>1, <2>4, <2>5, DoubleNegPass
  <2>10. applyDemorgan[t] = t  BY <1>1, <2>1, <2>3, <2>5, <2>6, DemorganPass
  <2>11. applyDistibutiveOrOverAnd[t] = t  BY <1>1, <2>1, <2>3, <2>5, <2>6, DistributivePass
  <2>12. QED BY <2>1, <2>7, <2>8, <2>9, <2>10, <2>11
<1>3. QED BY <1>1, <1>2

\* What they make of an operator's node.
LEMMA NodeRules ==
  ASSUME NEW ty \in Operators, NEW a, NEW b, Tree(ty, a, b) \in Trees
  PROVE  LET t == Tree(ty, a, b)
         IN  /\ a \in Trees /\ b \in Trees /\ t \notin Leaf
             /\ t.type_ = ty /\ t.left_ = a /\ t.right_ = b
             /\ NamesIn(t) = NamesIn(a) \cup NamesIn(b)
             /\ \A S : Count(t, S) = (IF t \in S THEN 1 ELSE 0) + (Count(a, S) + Count(b, S))
             /\ \A P : Descend(t, P) = Tree(ty, P[a], P[b])
             /\ ty # "bi_implication" =>
                  removeBiImplication[t] = Tree(ty, removeBiImplication[a], removeBiImplication[b])
             /\ ty # "implication" =>
                  removeImplication[t] = Tree(ty, removeImplication[a], removeImplication[b])
             /\ removeDoubleNeg[t] =
                  Tree(ty, removeDoubleNeg[IF a.type_ = "not" /\ a.left_.type_ = "not"
                                           THEN a.left_.left_ ELSE a],
                           removeDoubleNeg[b])
             /\ ty # "not" \/ a.type_ = "var" =>
                  applyDemorgan[t] = Tree(ty, applyDemorgan[a], applyDemorgan[b])
             /\ ty # "or" \/ ~ ("and" \in {a.type_, b.type_}) =>
                  applyDistibutiveOrOverAnd[t] =
                    Tree(ty, applyDistibutiveOrOverAnd[a], applyDistibutiveOrOverAnd[b])
<1> DEFINE t == Tree(ty, a, b)
<1>1. /\ t.type_ = ty /\ t.left_ = a /\ t.right_ = b /\ t.var_name_ = NoName
      /\ t \notin Leaf /\ t \in Trees /\ t # Failed
  BY TreeFacts DEF Node, Leaf
<1>2. t = [type_ |-> ty, var_name_ |-> NoName, left_ |-> a, right_ |-> b]  BY DEF Tree
<1> HIDE DEF t
<1>3. t = [type_ |-> t.type_, var_name_ |-> t.var_name_, left_ |-> t.left_,
           right_ |-> t.right_]
  BY <1>1, <1>2
<1>4. a \in Trees /\ b \in Trees  BY <1>1, TreesFacts
<1>5. ty # "var"  BY DEF Operators
<1>6. NamesIn(t) = NamesIn(a) \cup NamesIn(b)  BY <1>1, <1>5, NamesFacts
<1>7. \A S : Count(t, S) = (IF t \in S THEN 1 ELSE 0) + (Count(a, S) + Count(b, S))
  <2> TAKE S
  <2>1. QED BY <1>1, CountFacts
<1>8. ASSUME NEW P PROVE Descend(t, P) = Tree(ty, P[a], P[b])
  <2>1. Descend(t, P) = [type_ |-> t.type_, var_name_ |-> t.var_name_,
                         left_ |-> P[t.left_], right_ |-> P[t.right_]]
    BY <1>3, DescendFacts
  <2>2. QED BY <1>1, <2>1 DEF Tree
<1>9. ASSUME ty # "bi_implication"
      PROVE  removeBiImplication[t] = Tree(ty, removeBiImplication[a], removeBiImplication[b])
  <2>1. TwoImplications(t) = t  BY <1>1, <1>9 DEF TwoImplications
  <2>2. QED BY <1>1, <1>8, <2>1, BiImplicationPass
<1>10. ASSUME ty # "implication"
       PROVE  removeImplication[t] = Tree(ty, removeImplication[a], removeImplication[b])
  <2>1. Disjunction(t) = t  BY <1>1, <1>10 DEF Disjunction
  <2>2. QED BY <1>1, <1>8, <2>1, ImplicationPass
<1>11. removeDoubleNeg[t] =
         Tree(ty, removeDoubleNeg[IF a.type_ = "not" /\ a.left_.type_ = "not"
                                  THEN a.left_.left_ ELSE a],
                  removeDoubleNeg[b])
  <2> DEFINE l == IF t.left_.type_ = "not" /\ t.left_.left_.type_ = "not"
                  THEN t.left_.left_.left_ ELSE t.left_
             v == WithoutDoubleNeg(t)
  <2>1. v = [type_ |-> t.type_, var_name_ |-> t.var_name_, left_ |-> l, right_ |-> t.right_]
    BY <1>1, WithoutDoubleNegFacts
  <2>2. removeDoubleNeg[t] = Descend(v, removeDoubleNeg)  BY <1>1, DoubleNegPass
  <2>3. l = IF a.type_ = "not" /\ a.left_.type_ = "not" THEN a.left_.left_ ELSE a
    BY <1>1
  <2> HIDE DEF l, v
  <2>4. v.type_ = ty /\ v.var_name_ = NoName /\ v.left_ = l /\ v.right_ = b  BY <1>1, <2>1
  <2>5. v = [type_ |-> v.type_, var_name_ |-> v.var_name_, left_ |-> v.left_,
             right_ |-> v.right_]
    BY <1>1, <2>1, <2>4
  <2>6. Descend(v, removeDoubleNeg)
          = [type_ |-> ty, var_name_ |-> NoName,
             left_ |-> removeDoubleNeg[l], right_ |-> removeDoubleNeg[b]]
    BY <2>4, <2>5, DescendFacts
  <2>7. QED BY <2>2, <2>3, <2>6 DEF Tree
<1>12. ASSUME ty # "not" \/ a.type_ = "var"
       PROVE  applyDemorgan[t] = Tree(ty, applyDemorgan[a], applyDemorgan[b])
  <2>1. Demorgan(t) = t  BY <1>1, <1>12 DEF Demorgan
  <2>2. QED BY <1>1, <1>8, <2>1, DemorganPass
<1>13. ASSUME ty # "or" \/ ~ ("and" \in {a.type_, b.type_})
       PROVE  applyDistibutiveOrOverAnd[t] =
                Tree(ty, applyDistibutiveOrOverAnd[a], applyDistibutiveOrOverAnd[b])
  <2>1. t \notin Distributables  BY <1>1, <1>13 DEF Distributables, OfType
  <2>2. Distribute(t) = t  BY <2>1 DEF Distribute
  <2>3. QED BY <1>1, <1>8, <2>2, DistributivePass
<1>14. QED BY <1>1, <1>4, <1>6, <1>7, <1>8, <1>9, <1>10, <1>11, <1>12, <1>13 DEF t

\* A pass goes on with the children of an operator's node.
LEMMA Descended ==
  ASSUME NEW ty, NEW a, NEW b, NEW P
  PROVE  Descend(Tree(ty, a, b), P) = Tree(ty, P[a], P[b])
<1> DEFINE t == Tree(ty, a, b)
<1>1. t = [type_ |-> ty, var_name_ |-> NoName, left_ |-> a, right_ |-> b]  BY DEF Tree
<1>2. t.type_ = ty /\ t.var_name_ = NoName /\ t.left_ = a /\ t.right_ = b  BY <1>1
<1> HIDE DEF t
<1>3. t = [type_ |-> t.type_, var_name_ |-> t.var_name_, left_ |-> t.left_,
           right_ |-> t.right_]
  BY <1>1, <1>2
<1>4. Descend(t, P) = [type_ |-> t.type_, var_name_ |-> t.var_name_,
                       left_ |-> P[t.left_], right_ |-> P[t.right_]]
  BY <1>3, DescendFacts
<1>5. Descend(t, P) = Tree(ty, P[a], P[b])  BY <1>2, <1>4 DEF Tree
<1>6. QED BY <1>5 DEF t

\* Where the passes rewrite a node.
LEMMA IffRule ==
  ASSUME NEW a, NEW b, Iff(a, b) \in Trees
  PROVE  removeBiImplication[Iff(a, b)]
           = And(removeBiImplication[Imp(a, b)], removeBiImplication[Imp(b, a)])
<1> DEFINE t == Iff(a, b)
<1>1. t.type_ = "bi_implication" /\ t.left_ = a /\ t.right_ = b /\ t \notin Leaf /\ t \in Trees
  BY OperatorFields
<1> HIDE DEF t
<1>2. TwoImplications(t) = Tree("and", Imp(a, b), Imp(b, a))
  BY <1>1 DEF TwoImplications, Imp
<1>3. removeBiImplication[t] = Descend(Tree("and", Imp(a, b), Imp(b, a)), removeBiImplication)
  BY <1>1, <1>2, BiImplicationPass
<1>4. QED BY <1>3, Descended DEF t, And

LEMMA ImpRule ==
  ASSUME NEW a, NEW b, Imp(a, b) \in Trees
  PROVE  removeImplication[Imp(a, b)] = Or(removeImplication[Not(a)], removeImplication[b])
<1> DEFINE t == Imp(a, b)
<1>1. t.type_ = "implication" /\ t.left_ = a /\ t.right_ = b /\ t \notin Leaf /\ t \in Trees
  BY OperatorFields
<1> HIDE DEF t
<1>2. Disjunction(t) = Tree("or", Not(a), b)  BY <1>1 DEF Disjunction, Not
<1>3. removeImplication[t] = Descend(Tree("or", Not(a), b), removeImplication)
  BY <1>1, <1>2, ImplicationPass
<1>4. QED BY <1>3, Descended DEF t, Or

LEMMA NotRule ==
  ASSUME NEW ty \in {"and", "or"}, NEW a, NEW b, NEW c, NEW d,
         Not(Tree(ty, a, b)) \in Trees,
         removeDoubleNeg[Tree(Dual(ty), Not(a), Not(b))] = Tree(Dual(ty), c, d)
  PROVE  applyDemorgan[Not(Tree(ty, a, b))]
           = Tree(Dual(ty), applyDemorgan[c], applyDemorgan[d])
<1> DEFINE s == Tree(ty, a, b)
           t == Not(s)
           v == Tree(Dual(ty), c, d)
<1>1. s.type_ = ty /\ s.left_ = a /\ s.right_ = b  BY TreeFacts DEF Node, Operators
<1>2. t.type_ = "not" /\ t.left_ = s /\ t \notin Leaf /\ t \in Trees  BY OperatorFields
<1>3. v # Failed
  <2>1. Dual(ty) \in Node  BY DEF Dual, Node, Operators
  <2>2. QED BY <2>1, TreeFacts DEF Leaf
<1>4. removeDoubleNeg[Tree(Dual(ty), Not(a), Not(b))] = v  OBVIOUS
<1> HIDE DEF s, t, v
<1>5. t \in DemorganNodes  BY <1>1, <1>2 DEF DemorganNodes, OfType
<1>6. t.left_.type_ # "var" /\ t.left_.type_ = ty /\ t.left_.left_ = a /\ t.left_.right_ = b
  BY <1>1, <1>2
<1>7. Demorgan(t) = v  BY <1>2, <1>4, <1>5, <1>6 DEF Demorgan, Not
<1>8. applyDemorgan[t] = Descend(v, applyDemorgan)  BY <1>2, <1>3, <1>7, DemorganPass
<1>9. QED BY <1>8, Descended DEF s, t, v

LEMMA OrRule ==
  ASSUME NEW l, NEW r, Or(l, r) \in Trees,
         NEW Dist, Dist = applyDistibutiveOrOverAnd
  PROVE  /\ l.type_ = "and" /\ r.type_ = "and" =>
              Dist[Or(l, r)] = And(Dist[Or(l.left_, r)], Dist[Or(l.right_, r.right_)])
         /\ l.type_ \in {"not", "var"} /\ r.type_ = "and" =>
              Dist[Or(l, r)] = And(Dist[Or(l, r.left_)], Dist[Or(l, r.right_)])
         /\ l.type_ = "and" /\ r.type_ \in {"not", "var"} =>
              Dist[Or(l, r)] = And(Dist[Or(l.left_, r)], Dist[Or(l.right_, r)])
<1> DEFINE t == Or(l, r)
<1>1. t.type_ = "or" /\ t.left_ = l /\ t.right_ = r /\ t \notin Leaf /\ t \in Trees
  BY OperatorFields
<1> HIDE DEF t
<1>2. "and" \in {l.type_, r.type_} => t \in Distributables
  BY <1>1 DEF Distributables, OfType
<1>3. ASSUME NEW c, NEW d, Distribute(t) = Tree("and", c, d)
      PROVE  Dist[t] = And(Dist[c], Dist[d])
  <2>1. Tree("and", c, d) # Failed  BY TreeFacts DEF Node, Operators, Leaf
  <2>2. applyDistibutiveOrOverAnd[t]
          = Descend(Tree("and", c, d), applyDistibutiveOrOverAnd)
    BY <1>1, <1>3, <2>1, DistributivePass
  <2>3. QED BY <2>2, Descended DEF And
<1>4. ASSUME l.type_ = "and", r.type_ = "and"
      PROVE  Dist[t] = And(Dist[Or(l.left_, r)], Dist[Or(l.right_, r.right_)])
  <2>1. Distribute(t) = Tree("and", Or(l.left_, r), Or(l.right_, r.right_))
    BY <1>1, <1>2, <1>4 DEF Distribute, Or
  <2>2. QED BY <1>3, <2>1
<1>5. ASSUME l.type_ \in {"not", "var"}, r.type_ = "and"
      PROVE  Dist[t] = And(Dist[Or(l, r.left_)], Dist[Or(l, r.right_)])
  <2>1. Distribute(t) = Tree("and", Or(l, r.left_), Or(l, r.right_))
    BY <1>1, <1>2, <1>5 DEF Distribute, Or
  <2>2. QED BY <1>3, <2>1
<1>6. ASSUME l.type_ = "and", r.type_ \in {"not", "var"}
      PROVE  Dist[t] = And(Dist[Or(l.left_, r)], Dist[Or(l.right_, r)])
  <2>1. Distribute(t) = Tree("and", Or(l.left_, r), Or(l.right_, r))
    BY <1>1, <1>2, <1>6 DEF Distribute, Or
  <2>2. QED BY <1>3, <2>1
<1>7. QED BY <1>4, <1>5, <1>6 DEF t

-----------------------------------------------------------------------------
(* Normal forms.                                                           *)

\* Negations are only at variables, and neither removeDoubleNeg nor
\* applyDemorgan changes anything.
Normal(t) ==
  /\ t \in Trees \ Leaf
  /\ t.type_ \in {"var", "not", "and", "or"}
  /\ t.type_ = "not" => t.left_.type_ = "var"
  /\ removeDoubleNeg[t] = t
  /\ applyDemorgan[t] = t
  /\ countDoubleNeg(t) = 0 /\ countDemorgan(t) = 0
  /\ Count(t, {Failed}) = 0

LEMMA NormalRules ==
  ASSUME 1 <= MaxHeight
  PROVE  /\ \A x \in Vars : Normal(x)
         /\ \A x \in Vars : Not(x) \in Trees => Normal(Not(x))
         /\ \A a, b : Normal(a) /\ Normal(b) /\ And(a, b) \in Trees => Normal(And(a, b))
         /\ \A a, b : Normal(a) /\ Normal(b) /\ Or(a, b) \in Trees => Normal(Or(a, b))
<1> DEFINE DN == DoubleNegs  DM == DemorganNodes  FL == {Failed}
<1>1. \A t : (t \in DN \/ t \in DM) =>
               /\ t.type_ = "not"
               /\ t.left_.type_ \in {"not", "or", "and"}
  BY DEF DoubleNegs, DemorganNodes, OfType
<1>2. \A t : t \in FL => t \in Leaf  BY DEF Leaf
<1>3. Null \notin DN /\ Null \notin DM /\ Null \notin FL /\ Null.type_ = "NULL"
  BY <1>1, TreesFacts
<1>4. /\ \A t : countDoubleNeg(t) = Count(t, DN)
      /\ \A t : countDemorgan(t) = Count(t, DM)
  BY DEF countDoubleNeg, countDemorgan
<1> HIDE DEF DN, DM, FL
<1>5. ASSUME NEW x \in Vars PROVE Normal(x)
  <2>1. x.type_ = "var" /\ x \in Trees \ Leaf  BY VarFacts
  <2>2. x \notin DN /\ x \notin DM /\ x \notin FL  BY <1>1, <1>2, <2>1
  <2>3. Count(x, DN) = 0 /\ Count(x, DM) = 0 /\ Count(x, FL) = 0
    <3>1. \A S : Count(x, S) = (IF x \in S THEN 1 ELSE 0) + 2 * (IF Null \in S THEN 1 ELSE 0)
      BY VarFacts
    <3>2. QED BY <1>3, <2>2, <3>1
  <2>4. removeDoubleNeg[x] = x /\ applyDemorgan[x] = x  BY LeafRules
  <2>5. QED BY <1>4, <2>1, <2>3, <2>4 DEF Normal, FL
<1>6. ASSUME NEW x \in Vars, Not(x) \in Trees PROVE Normal(Not(x))
  <2> DEFINE t == Not(x)
  <2>1. x.type_ = "var" /\ x \in Trees \ Leaf /\ x.left_ = Null  BY VarFacts
  <2>2. t.type_ = "not" /\ t.left_ = x /\ t.right_ = Null /\ t \notin Leaf /\ t \in Trees
    BY <1>6, OperatorFields
  <2>3. "not" \in Operators /\ Tree("not", x, Null) \in Trees  BY <1>6 DEF Operators, Not
  <2>4. /\ removeDoubleNeg[x] = x /\ removeDoubleNeg[Null] = Null
        /\ applyDemorgan[x] = x /\ applyDemorgan[Null] = Null
    BY LeafRules
  <2>5. t = Tree("not", x, Null)  BY DEF Not
  <2>6. removeDoubleNeg[t] = Tree("not", removeDoubleNeg[x], removeDoubleNeg[Null])
    BY <2>1, <2>3, <2>5, NodeRules
  <2>7. applyDemorgan[t] = Tree("not", applyDemorgan[x], applyDemorgan[Null])
    BY <2>1, <2>3, <2>5, NodeRules
  <2> HIDE DEF t
  <2>8. t \notin DN /\ t \notin DM /\ t \notin FL  BY <1>1, <1>2, <2>1, <2>2
  <2>9. Normal(x)  BY <1>5
  <2>10. ASSUME NEW S, Null \notin S, t \notin S, Count(x, S) = 0 PROVE Count(t, S) = 0
    <3>1. Count(Null, S) = 0  BY <2>10, CountFacts DEF Leaf
    <3>2. Count(t, S) = (IF t \in S THEN 1 ELSE 0) + (Count(x, S) + Count(Null, S))
      BY <2>2, CountFacts
    <3>3. QED BY <2>10, <3>1, <3>2
  <2>11. Count(x, DN) = 0 /\ Count(x, DM) = 0 /\ Count(x, FL) = 0
    BY <1>4, <2>9 DEF Normal, FL
  <2>12. Count(t, DN) = 0 /\ Count(t, DM) = 0 /\ Count(t, FL) = 0
    BY <1>3, <2>8, <2>10, <2>11
  <2>13. Normal(t)
    BY <1>4, <2>1, <2>2, <2>4, <2>5, <2>6, <2>7, <2>12 DEF Normal, FL
  <2>14. QED BY <2>13 DEF t
<1>7. ASSUME NEW ty \in {"and", "or"}, NEW a, NEW b, Normal(a), Normal(b),
             Tree(ty, a, b) \in Trees
      PROVE  Normal(Tree(ty, a, b))
  <2> DEFINE t == Tree(ty, a, b)
  <2>1. ty \in Operators /\ ty # "not" /\ ty # "bi_implication"  BY DEF Operators
  <2>2. /\ t.type_ = ty /\ t.left_ = a /\ t.right_ = b /\ t \notin Leaf /\ t \in Trees
        /\ \A S : Count(t, S) = (IF t \in S THEN 1 ELSE 0) + (Count(a, S) + Count(b, S))
    BY <1>7, <2>1, NodeRules
  <2>3. ~ (a.type_ = "not" /\ a.left_.type_ = "not")  BY <1>7 DEF Normal
  <2>4. removeDoubleNeg[t] = Tree(ty, removeDoubleNeg[a], removeDoubleNeg[b])
    BY <1>7, <2>1, <2>3, NodeRules
  <2>5. applyDemorgan[t] = Tree(ty, applyDemorgan[a], applyDemorgan[b])
    BY <1>7, <2>1, NodeRules
  <2>6. removeDoubleNeg[t] = t /\ applyDemorgan[t] = t  BY <1>7, <2>4, <2>5 DEF Normal
  <2> HIDE DEF t
  <2>7. t \notin DN /\ t \notin DM /\ t \notin FL  BY <1>1, <1>2, <2>1, <2>2
  <2>8. /\ Count(a, DN) = 0 /\ Count(a, DM) = 0 /\ Count(a, FL) = 0
        /\ Count(b, DN) = 0 /\ Count(b, DM) = 0 /\ Count(b, FL) = 0
    BY <1>4, <1>7 DEF Normal, FL
  <2>9. Count(t, DN) = 0 /\ Count(t, DM) = 0 /\ Count(t, FL) = 0
    BY <2>2, <2>7, <2>8
  <2>10. Normal(t)  BY <1>4, <2>1, <2>2, <2>6, <2>9 DEF Normal, FL
  <2>11. QED BY <2>10 DEF t
<1>8. QED BY <1>5, <1>6, <1>7 DEF And, Or

\* No disjunction has a conjunction below it.
Flat(t) ==
  /\ t \in Trees \ Leaf
  /\ applyDistibutiveOrOverAnd[t] = t
  /\ countDistributiveOrOverAnd(t) = 0

LEMMA FlatRules ==
  ASSUME 1 <= MaxHeight
  PROVE  /\ \A x \in Vars : Flat(x)
         /\ \A x \in Vars : Not(x) \in Trees => Flat(Not(x))
         /\ \A a, b : Flat(a) /\ Flat(b) /\ And(a, b) \in Trees => Flat(And(a, b))
         /\ \A a, b : Flat(a) /\ Flat(b) /\ a.type_ # "and" /\ b.type_ # "and"
                        /\ Or(a, b) \in Trees => Flat(Or(a, b))
<1> DEFINE D == Distributables
<1>1. \A t : t \in D => t.type_ = "or" /\ "and" \in {t.left_.type_, t.right_.type_}
  BY DEF Distributables, OfType
<1>2. \A t : countDistributiveOrOverAnd(t) = Count(t, D)
  BY DEF countDistributiveOrOverAnd
<1> HIDE DEF D
<1>3. Null \notin D /\ Null.type_ = "NULL"  BY <1>1, TreesFacts
<1>4. ASSUME NEW x \in Vars PROVE Flat(x)
  <2>1. x.type_ = "var" /\ x \in Trees \ Leaf  BY VarFacts
  <2>2. x \notin D  BY <1>1, <2>1
  <2>3. Count(x, D) = 0
    <3>1. Count(x, D) = (IF x \in D THEN 1 ELSE 0) + 2 * (IF Null \in D THEN 1 ELSE 0)
      BY VarFacts
    <3>2. QED BY <1>3, <2>2, <3>1
  <2>4. QED BY <1>2, <2>1, <2>3, LeafRules DEF Flat
<1>5. Count(Null, D) = 0 /\ applyDistibutiveOrOverAnd[Null] = Null
  BY <1>3, CountFacts, LeafRules DEF Leaf
<1>6. ASSUME NEW ty \in Operators, NEW a, NEW b, Tree(ty, a, b) \in Trees,
             ty # "or" \/ ~ ("and" \in {a.type_, b.type_}),
             applyDistibutiveOrOverAnd[a] = a, applyDistibutiveOrOverAnd[b] = b,
             Count(a, D) = 0, Count(b, D) = 0
      PROVE  Flat(Tree(ty, a, b))
  <2> DEFINE t == Tree(ty, a, b)
  <2>1. /\ t.type_ = ty /\ t.left_ = a /\ t.right_ = b /\ t \notin Leaf /\ t \in Trees
        /\ \A S : Count(t, S) = (IF t \in S THEN 1 ELSE 0) + (Count(a, S) + Count(b, S))
    BY <1>6, NodeRules
  <2>2. applyDistibutiveOrOverAnd[t]
          = Tree(ty, applyDistibutiveOrOverAnd[a], applyDistibutiveOrOverAnd[b])
    BY <1>6, NodeRules
  <2>3. applyDistibutiveOrOverAnd[t] = t  BY <1>6, <2>2
  <2> HIDE DEF t
  <2>4. t \notin D  BY <1>1, <1>6, <2>1
  <2>5. Count(t, D) = 0  BY <1>6, <2>1, <2>4
  <2>6. Flat(t)  BY <1>2, <2>1, <2>3, <2>5 DEF Flat
  <2>7. QED BY <2>6 DEF t
<1>7. ASSUME NEW x \in Vars, Not(x) \in Trees PROVE Flat(Not(x))
  <2>1. Flat(x)  BY <1>4
  <2>2. applyDistibutiveOrOverAnd[x] = x /\ Count(x, D) = 0  BY <1>2, <2>1 DEF Flat
  <2>3. QED BY <1>5, <1>6, <1>7, <2>2 DEF Not, Operators
<1>8. ASSUME NEW a, NEW b, Flat(a), Flat(b), NEW ty \in {"and", "or"},
             Tree(ty, a, b) \in Trees, ty = "or" => a.type_ # "and" /\ b.type_ # "and"
      PROVE  Flat(Tree(ty, a, b))
  <2>1. /\ applyDistibutiveOrOverAnd[a] = a /\ Count(a, D) = 0
        /\ applyDistibutiveOrOverAnd[b] = b /\ Count(b, D) = 0
    BY <1>2, <1>8 DEF Flat
  <2>2. QED BY <1>6, <1>8, <2>1 DEF Operators
<1>9. QED BY <1>4, <1>7, <1>8 DEF And, Or

\* What an operator's node says.
LEMMA Values ==
  ASSUME NEW m, NEW a, NEW b
  PROVE  /\ Not(a) \in Trees => (Value(Not(a), m) <=> ~ Value(a, m))
         /\ And(a, b) \in Trees => (Value(And(a, b), m) <=> Value(a, m) /\ Value(b, m))
         /\ Or(a, b) \in Trees => (Value(Or(a, b), m) <=> Value(a, m) \/ Value(b, m))
         /\ Imp(a, b) \in Trees => (Value(Imp(a, b), m) <=> (Value(a, m) => Value(b, m)))
         /\ Iff(a, b) \in Trees => (Value(Iff(a, b), m) <=> (Value(a, m) <=> Value(b, m)))
<1>1. ASSUME Not(a) \in Trees PROVE Value(Not(a), m) <=> ~ Value(a, m)
  BY <1>1, OperatorFields, ValueFacts
<1>2. ASSUME And(a, b) \in Trees PROVE Value(And(a, b), m) <=> Value(a, m) /\ Value(b, m)
  BY <1>2, OperatorFields, ValueFacts
<1>3. ASSUME Or(a, b) \in Trees PROVE Value(Or(a, b), m) <=> Value(a, m) \/ Value(b, m)
  BY <1>3, OperatorFields, ValueFacts
<1>4. ASSUME Imp(a, b) \in Trees
      PROVE  Value(Imp(a, b), m) <=> (Value(a, m) => Value(b, m))
  BY <1>4, OperatorFields, ValueFacts
<1>5. ASSUME Iff(a, b) \in Trees
      PROVE  Value(Iff(a, b), m) <=> (Value(a, m) <=> Value(b, m))
  BY <1>5, OperatorFields, ValueFacts
<1>6. QED BY <1>1, <1>2, <1>3, <1>4, <1>5

-----------------------------------------------------------------------------
(* The lines of a file.                                                    *)

\* Two sequences with the same entries are the same.
LEMMA SameEntries ==
  ASSUME NEW S, NEW a \in Seq(S), NEW b \in Seq(S), Len(a) = Len(b),
         \A k \in 1..Len(a) : a[k] = b[k]
  PROVE  a = b
OBVIOUS

\* A line more at the end.
LEMMA Appended ==
  ASSUME NEW S, NEW a \in Seq(S), NEW e \in S
  PROVE  LET b == Append(a, e)
         IN  /\ b \in Seq(S) /\ b # << >> /\ Len(b) = Len(a) + 1 /\ Len(a) \in Nat
             /\ b[Len(b)] = e
             /\ SubSeq(b, 1, Len(b) - 1) = a
<1> DEFINE b == Append(a, e)
<1>1. /\ b \in Seq(S) /\ Len(b) = Len(a) + 1 /\ Len(a) \in Nat /\ b[Len(a) + 1] = e
      /\ \A k \in 1..Len(a) : b[k] = a[k]
  OBVIOUS
<1> HIDE DEF b
<1>2. b # << >>  BY <1>1
<1> DEFINE c == SubSeq(b, 1, Len(b) - 1)
<1>3. c \in Seq(S) /\ Len(c) = Len(a) /\ \A k \in 1..Len(a) : c[k] = b[k]  BY <1>1
<1> HIDE DEF c
<1>4. c = a  BY <1>1, <1>3, SameEntries
<1>5. QED BY <1>1, <1>2, <1>4 DEF b, c

\* The first line of what follows is put at the end of what is there.
LEMMA Followed ==
  ASSUME NEW S, NEW a \in Seq(S), NEW b \in Seq(S), b # << >>
  PROVE  a \o <<b[1]>> \o SubSeq(b, 2, Len(b)) = a \o b
<1>1. Len(b) \in Nat /\ Len(b) >= 1 /\ b[1] \in S  OBVIOUS
<1> DEFINE e == b[1]
           c == SubSeq(b, 2, Len(b))
<1>2. c \in Seq(S) /\ Len(c) = Len(b) - 1 /\ \A k \in 1..Len(c) : c[k] = b[k + 1]
  <2>1. c \in Seq(S)  BY <1>1
  <2>2. Len(c) = Len(b) - 1
    <3>1. CASE Len(b) = 1  BY <1>1, <3>1
    <3>2. CASE Len(b) >= 2  BY <1>1, <3>2
    <3>3. QED BY <1>1, <3>1, <3>2
  <2>3. ASSUME NEW k \in 1..Len(b) - 1 PROVE c[k] = b[k + 1]
    <3>1. k + 1 \in 1..Len(b) /\ 2 + k - 1 = k + 1 /\ k \in 1..Len(b) + 1 - 2  BY <1>1
    <3>2. QED BY <1>1, <3>1
  <2> HIDE DEF c
  <2>4. QED BY <2>1, <2>2, <2>3
<1> HIDE DEF c
<1>3. e \in S /\ c \in Seq(S)  BY <1>1, <1>2
<1>4. /\ a \o b \in Seq(S) /\ Len(a) \in Nat
      /\ Len(a \o b) = Len(a) + Len(b)
      /\ \A k \in 1..Len(a \o b) :
           (a \o b)[k] = IF k <= Len(a) THEN a[k] ELSE b[k - Len(a)]
  BY Concatenated
<1>5. e = b[1]  OBVIOUS
<1> HIDE DEF e
<1>6. /\ a \o <<e>> \o c \in Seq(S)
      /\ Len(a \o <<e>> \o c) = Len(a) + 1 + Len(c)
      /\ \A k \in 1..Len(a) + 1 + Len(c) :
           (a \o <<e>> \o c)[k] = IF k <= Len(a) THEN a[k]
                                  ELSE IF k = Len(a) + 1 THEN e ELSE c[k - Len(a) - 1]
  <2>1. a \in Seq(S) /\ e \in S /\ c \in Seq(S)  BY <1>3
  <2>2. QED BY <2>1, WithMiddle
<1> DEFINE u == a \o b
           w == a \o <<e>> \o c
<1>7. u \in Seq(S) /\ w \in Seq(S) /\ Len(w) = Len(u) /\ Len(u) = Len(a) + Len(b)
  <2>1. u \in Seq(S) /\ Len(u) = Len(a) + Len(b)  BY <1>4
  <2>2. w \in Seq(S) /\ Len(w) = Len(a) + 1 + Len(c)  BY <1>6
  <2> HIDE DEF u, w
  <2>3. QED BY <1>1, <1>2, <1>4, <2>1, <2>2
<1>8. ASSUME NEW k \in 1..Len(w) PROVE w[k] = u[k]
  <2>1. k \in 1..Len(a) + 1 + Len(c) /\ k \in 1..Len(a \o b) /\ k \in Nat
    BY <1>1, <1>2, <1>4, <1>7
  <2>2. u[k] = IF k <= Len(a) THEN a[k] ELSE b[k - Len(a)]  BY <1>4, <2>1
  <2>3. w[k] = IF k <= Len(a) THEN a[k]
               ELSE IF k = Len(a) + 1 THEN e ELSE c[k - Len(a) - 1]
    BY <1>6, <2>1
  <2> HIDE DEF u, w
  <2>4. CASE k <= Len(a)  BY <2>2, <2>3, <2>4
  <2>5. CASE k = Len(a) + 1
    <3>1. ~ (k <= Len(a)) /\ k - Len(a) = 1  BY <1>4, <2>5
    <3>2. QED BY <1>5, <2>2, <2>3, <2>5, <3>1
  <2>6. CASE k > Len(a) + 1
    <3>1. /\ ~ (k <= Len(a)) /\ k # Len(a) + 1
          /\ k - Len(a) - 1 \in 1..Len(c) /\ (k - Len(a) - 1) + 1 = k - Len(a)
      BY <1>2, <1>4, <1>7, <2>6
    <3>2. c[k - Len(a) - 1] = b[k - Len(a)]  BY <1>2, <3>1
    <3>3. QED BY <2>2, <2>3, <3>1, <3>2
  <2>7. QED BY <1>4, <2>1, <2>4, <2>5, <2>6
<1> HIDE DEF u, w
<1>9. w = u  BY <1>7, <1>8, SameEntries
<1>10. QED BY <1>9 DEF u, w, e, c

\* Lines that are written and none of which is empty.
Body(ls) == ls \in Outs /\ << >> \notin Entries(ls)

LEMMA BodyFacts ==
  ASSUME NEW ls, Body(ls)
  PROVE  /\ ls \in Seq(Seq(Int)) /\ Len(ls) \in Nat /\ Len(ls) >= 1
         /\ EndLine[ls] = Append(ls, << >>)
         /\ EndLine[Append(ls, << >>)] = Append(ls, << >>)
         /\ LinesOf(ls) = ls
         /\ LinesOf(Append(ls, << >>)) = ls
         /\ \A more \in Outs : Then[Append(ls, << >>)][more] = ls \o more
<1> DEFINE L == Seq(Int)
           e == << >>
           out == Append(ls, e)
<1>1. e \in L  OBVIOUS
<1>2. ls \in Seq(L) /\ ls # << >> /\ \A k \in DOMAIN ls : ls[k] # e
  BY DEF Body, Outs, Written, Entries
<1>3. Len(ls) \in Nat /\ Len(ls) >= 1 /\ ls[Len(ls)] # e
  <2> HIDE DEF L, e
  <2>1. QED BY <1>2
<1>4. /\ out \in Seq(L) /\ out # << >> /\ Len(out) = Len(ls) + 1
      /\ out[Len(out)] = e
      /\ SubSeq(out, 1, Len(out) - 1) = ls
  <2> HIDE DEF L, e
  <2>1. QED BY <1>1, <1>2, Appended
<1> HIDE DEF out
<1>5. EndLine[ls] = out
  <2>1. EndLine[ls] = IF ls[Len(ls)] = << >> THEN ls ELSE Append(ls, << >>)
    BY <1>2 DEF EndLine, Written
  <2>2. QED BY <1>3, <2>1 DEF out
<1>6. EndLine[out] = out
  <2>1. EndLine[out] = IF out[Len(out)] = << >> THEN out ELSE Append(out, << >>)
    BY <1>4 DEF EndLine, Written
  <2>2. QED BY <1>4, <2>1
<1>7. LinesOf(ls) = ls /\ LinesOf(out) = ls  BY <1>4, <1>5, <1>6 DEF LinesOf
<1>8. ASSUME NEW more \in Outs PROVE Then[out][more] = ls \o more
  <2>1. more \in Seq(L) /\ more # << >>  BY DEF Outs, Written
  <2>2. Then[out][more] = SubSeq(out, 1, Len(out) - 1) \o <<out[Len(out)] \o more[1]>>
                          \o SubSeq(more, 2, Len(more))
    BY <1>4, <2>1 DEF Then, Written
  <2>3. more[1] \in L
    <3> HIDE DEF L
    <3>1. QED BY <2>1
  <2>4. e \o more[1] = more[1]  BY <2>3
  <2>5. Then[out][more] = ls \o <<more[1]>> \o SubSeq(more, 2, Len(more))
    BY <1>4, <2>2, <2>4
  <2> HIDE DEF L
  <2>6. QED BY <1>2, <2>1, <2>5, Followed
<1>9. QED BY <1>2, <1>3, <1>5, <1>6, <1>7, <1>8 DEF out

\* A line that goes on.
LEMMA OneLine ==
  ASSUME NEW a \in Seq(Int), NEW b \in Seq(Int)
  PROVE  Then[<<a>>][<<b>>] = <<a \o b>>
<1> DEFINE L == Seq(Int)
           c == a \o b
<1>1. <<a>> \in Seq(L) /\ <<b>> \in Seq(L) /\ Len(<<a>>) = 1 /\ Len(<<b>>) = 1
  OBVIOUS
<1>2. Then[<<a>>][<<b>>] = SubSeq(<<a>>, 1, Len(<<a>>) - 1)
                           \o <<<<a>>[Len(<<a>>)] \o <<b>>[1]>>
                           \o SubSeq(<<b>>, 2, Len(<<b>>))
  BY <1>1 DEF Then, Written
<1>3. <<a>>[Len(<<a>>)] = a /\ <<b>>[1] = b  BY <1>1
<1>4. SubSeq(<<a>>, 1, Len(<<a>>) - 1) = << >>  BY <1>1
<1>5. SubSeq(<<b>>, 2, Len(<<b>>)) = << >>  BY <1>1
<1>6. Then[<<a>>][<<b>>] = << >> \o <<c>> \o << >>  BY <1>2, <1>3, <1>4, <1>5
<1>7. c \in L  OBVIOUS
<1>8. << >> \o <<c>> \o << >> = <<c>>
  <2> HIDE DEF c, L
  <2>1. QED BY <1>7
<1>9. QED BY <1>6, <1>8

\* The number of a literal says what v says of the variable.
LitTrue(n, v) == IF n > 0 THEN v[n] ELSE ~ v[-n]

Numbers(ls) == UNION {Entries(line) : line \in Entries(ls)}

Satisfied(ls, v) == \A line \in Entries(ls) : \E n \in Entries(line) : LitTrue(n, v)

\* v and m say the same of the names of t.
Agree(t, list, v, m) == \A name \in NamesIn(t) : v[findVar(list, name)] = m[name]

\* The lines ls are written of the tree t: clauses that say what t says.
Dumped(t, list, ls) ==
  /\ t \in Trees \ Leaf
  /\ Body(ls)
  /\ dumpCNF(t, list) = IF t.type_ = "and" THEN Append(ls, << >>) ELSE ls
  /\ t.type_ # "and" => ls = <<ls[1]>>
  /\ Len(ls) = countOpTypeNode(t, "and") + 1
  /\ \A n \in Numbers(ls) : \E name \in NamesIn(t) :
       n \in {findVar(list, name), -findVar(list, name)}
  /\ \A name \in NamesIn(t) : \E n \in Numbers(ls) :
       n \in {findVar(list, name), -findVar(list, name)}
  /\ \A v, m : Agree(t, list, v, m) => (Satisfied(ls, v) <=> Value(t, m))

\* One line with one number.
LEMMA OneNumber ==
  ASSUME NEW n \in Int
  PROVE  LET ls == << <<n>> >>
         IN  /\ Body(ls) /\ ls = <<ls[1]>> /\ Len(ls) = 1
             /\ Numbers(ls) = {n}
             /\ \A v : Satisfied(ls, v) <=> LitTrue(n, v)
<1> DEFINE line == <<n>>
           ls == <<line>>
<1>1. ls \in Outs  BY OutFacts
<1>2. Entries(line) = {n} /\ line # << >>  BY DEF Entries
<1> HIDE DEF line
<1>3. Entries(ls) = {line} /\ ls[1] = line /\ Len(ls) = 1  BY DEF Entries
<1>4. ls = <<ls[1]>>  BY <1>3
<1> HIDE DEF ls
<1>5. Body(ls)  BY <1>1, <1>2, <1>3 DEF Body
<1>6. Numbers(ls) = {n}  BY <1>2, <1>3 DEF Numbers
<1>7. \A v : Satisfied(ls, v) <=> LitTrue(n, v)  BY <1>2, <1>3 DEF Satisfied
<1>8. QED BY <1>3, <1>4, <1>5, <1>6, <1>7 DEF ls, line

LEMMA DumpedVariable ==
  ASSUME 1 <= MaxHeight, NEW list \in Seq(Names), NEW x \in Vars
  PROVE  Dumped(x, list, << <<findVar(list, x.var_name_)>> >>)
<1> DEFINE n == findVar(list, x.var_name_)
           ls == << <<n>> >>
<1>1. /\ x.type_ = "var" /\ x \in Trees \ Leaf /\ NamesIn(x) = {x.var_name_}
      /\ \A m : Value(x, m) = m[x.var_name_]
      /\ \A S : Count(x, S) = (IF x \in S THEN 1 ELSE 0) + 2 * (IF Null \in S THEN 1 ELSE 0)
  BY VarFacts
<1>2. n \in Nat /\ n > 0 /\ n \in Int  BY FindVarFacts
<1>3. dumpCNF(x, list) = ls  BY <1>1, DumpFacts
<1>4. countOpTypeNode(x, "and") = 0
  <2>1. x \notin OfType("and") /\ Null \notin OfType("and")  BY <1>1, TreesFacts DEF OfType
  <2>2. QED BY <1>1, <2>1 DEF countOpTypeNode
<1>5. ASSUME NEW v, NEW m, Agree(x, list, v, m) PROVE LitTrue(n, v) <=> Value(x, m)
  <2>1. v[n] = m[x.var_name_]  BY <1>1, <1>5 DEF Agree
  <2>2. QED BY <1>1, <1>2, <2>1 DEF LitTrue
<1> HIDE DEF n
<1>6. /\ Body(ls) /\ ls = <<ls[1]>> /\ Len(ls) = 1
      /\ Numbers(ls) = {n}
      /\ \A v : Satisfied(ls, v) <=> LitTrue(n, v)
  BY <1>2, OneNumber
<1> HIDE DEF ls
<1>7. /\ \A k \in Numbers(ls) : \E name \in NamesIn(x) :
           k \in {findVar(list, name), -findVar(list, name)}
      /\ \A name \in NamesIn(x) : \E k \in Numbers(ls) :
           k \in {findVar(list, name), -findVar(list, name)}
  BY <1>1, <1>6 DEF n
<1>8. \A v, m : Agree(x, list, v, m) => (Satisfied(ls, v) <=> Value(x, m))  BY <1>5, <1>6
<1>9. Dumped(x, list, ls)  BY <1>1, <1>3, <1>4, <1>6, <1>7, <1>8 DEF Dumped
<1>10. QED BY <1>9 DEF ls, n

LEMMA DumpedNegation ==
  ASSUME 1 <= MaxHeight, NEW list \in Seq(Names), NEW x \in Vars, Not(x) \in Trees
  PROVE  Dumped(Not(x), list, << <<-findVar(list, x.var_name_)>> >>)
<1> DEFINE n == findVar(list, x.var_name_)
           t == Not(x)
           ls == << <<-n>> >>
<1>1. /\ x.type_ = "var" /\ x \in Trees \ Leaf /\ NamesIn(x) = {x.var_name_}
      /\ \A m : Value(x, m) = m[x.var_name_]
      /\ \A S : Count(x, S) = (IF x \in S THEN 1 ELSE 0) + 2 * (IF Null \in S THEN 1 ELSE 0)
  BY VarFacts
<1>2. n \in Nat /\ n > 0 /\ -n \in Int /\ ~ (-n > 0) /\ -(-n) = n  BY FindVarFacts
<1>3. /\ t.type_ = "not" /\ t.left_ = x /\ t.right_ = Null /\ t \in Trees \ Leaf
      /\ \A m : Value(t, m) <=> ~ Value(x, m)
  BY OperatorFields, Values
<1>4. dumpCNF(t, list) = ls
  <2>1. dumpCNF(t, list) = << <<-findVar(list, t.left_.var_name_)>> >>
    BY <1>3, DumpFacts
  <2>2. QED BY <1>3, <2>1
<1> HIDE DEF t
<1>5. NamesIn(t) = {x.var_name_}
  <2>1. NamesIn(t) = NamesIn(x) \cup NamesIn(Null)  BY <1>3, NamesFacts
  <2>2. NamesIn(Null) = {}  BY NamesFacts DEF Leaf
  <2>3. QED BY <1>1, <2>1, <2>2
<1>6. countOpTypeNode(t, "and") = 0
  <2> DEFINE A == OfType("and")
  <2>1. x \notin A /\ Null \notin A /\ t \notin A  BY <1>1, <1>3, TreesFacts DEF OfType
  <2> HIDE DEF A
  <2>2. Count(x, A) = 0  BY <1>1, <2>1
  <2>3. Count(Null, A) = 0  BY <2>1, CountFacts DEF Leaf
  <2>4. Count(t, A) = (IF t \in A THEN 1 ELSE 0) + (Count(x, A) + Count(Null, A))
    BY <1>3, CountFacts
  <2>5. QED BY <2>1, <2>2, <2>3, <2>4 DEF countOpTypeNode, A
<1>7. ASSUME NEW v, NEW m, Agree(t, list, v, m) PROVE LitTrue(-n, v) <=> Value(t, m)
  <2>1. v[n] = m[x.var_name_]  BY <1>5, <1>7 DEF Agree
  <2>2. LitTrue(-n, v) <=> ~ v[n]  BY <1>2 DEF LitTrue
  <2>3. QED BY <1>1, <1>3, <2>1, <2>2
<1> HIDE DEF n
<1>8. /\ Body(ls) /\ ls = <<ls[1]>> /\ Len(ls) = 1
      /\ Numbers(ls) = {-n}
      /\ \A v : Satisfied(ls, v) <=> LitTrue(-n, v)
  BY <1>2, OneNumber
<1> HIDE DEF ls
<1>9. /\ \A k \in Numbers(ls) : \E name \in NamesIn(t) :
           k \in {findVar(list, name), -findVar(list, name)}
      /\ \A name \in NamesIn(t) : \E k \in Numbers(ls) :
           k \in {findVar(list, name), -findVar(list, name)}
  BY <1>5, <1>8 DEF n
<1>10. \A v, m : Agree(t, list, v, m) => (Satisfied(ls, v) <=> Value(t, m))
  BY <1>7, <1>8
<1>11. Dumped(t, list, ls)  BY <1>3, <1>4, <1>6, <1>8, <1>9, <1>10 DEF Dumped
<1>12. QED BY <1>11 DEF ls, n, t

\* The number of conjunctions of a tree.
LEMMA Conjunctions ==
  ASSUME NEW ty \in Operators, NEW a, NEW b, Tree(ty, a, b) \in Trees
  PROVE  countOpTypeNode(Tree(ty, a, b), "and")
           = (IF ty = "and" THEN 1 ELSE 0)
             + (countOpTypeNode(a, "and") + countOpTypeNode(b, "and"))
<1> DEFINE t == Tree(ty, a, b)  A == OfType("and")
<1>1. /\ t.type_ = ty
      /\ \A S : Count(t, S) = (IF t \in S THEN 1 ELSE 0) + (Count(a, S) + Count(b, S))
  BY NodeRules
<1>2. t \in A <=> ty = "and"  BY <1>1 DEF OfType
<1> HIDE DEF t, A
<1>3. Count(t, A) = (IF ty = "and" THEN 1 ELSE 0) + (Count(a, A) + Count(b, A))
  BY <1>1, <1>2
<1>4. QED BY <1>3 DEF countOpTypeNode, t, A

LEMMA DumpedConjunction ==
  ASSUME NEW list \in Seq(Names), NEW a, NEW b, NEW la, NEW lb,
         Dumped(a, list, la), Dumped(b, list, lb), And(a, b) \in Trees
  PROVE  Dumped(And(a, b), list, la \o lb)
<1> DEFINE t == And(a, b)  L == Seq(Int)  e == << >>  ls == la \o lb
<1>1. Body(la) /\ Body(lb)  BY DEF Dumped
<1>2. /\ la \in Seq(L) /\ Len(la) \in Nat /\ Len(la) >= 1
      /\ lb \in Seq(L) /\ Len(lb) \in Nat /\ Len(lb) >= 1
  BY <1>1, BodyFacts
<1>3. t.type_ = "and" /\ t.left_ = a /\ t.right_ = b /\ t \in Trees \ Leaf
  BY OperatorFields
<1>4. NamesIn(t) = NamesIn(a) \cup NamesIn(b)  BY NodeRules DEF And, Operators
<1>5. countOpTypeNode(t, "and") = 1 + (countOpTypeNode(a, "and") + countOpTypeNode(b, "and"))
  BY Conjunctions DEF And, Operators
<1>6. e \in L  OBVIOUS
<1>7. ls \in Seq(L) /\ Len(ls) = Len(la) + Len(lb) /\ Entries(ls) = Entries(la) \cup Entries(lb)
  <2> HIDE DEF L
  <2>1. QED BY <1>2, Concatenated, JoinedEntries
<1>8. Body(ls)
  <2>1. ls # << >>  BY <1>2, <1>7
  <2>2. QED BY <1>1, <1>7, <2>1 DEF Body, Outs, Written
<1>9. EndLine[dumpCNF(a, list)] = Append(la, e)
  BY <1>1, BodyFacts DEF Dumped
<1>10. Then[Append(la, e)][dumpCNF(b, list)] = la \o dumpCNF(b, list)
  <2>1. dumpCNF(b, list) \in Outs  BY DumpFacts DEF Dumped
  <2>2. QED BY <1>1, <2>1, BodyFacts
<1>11. EndLine[la \o dumpCNF(b, list)] = Append(ls, e)
  <2>1. EndLine[ls] = Append(ls, e) /\ EndLine[Append(ls, e)] = Append(ls, e)
    BY <1>8, BodyFacts
  <2>2. la \o Append(lb, e) = Append(la \o lb, e)
    <3> HIDE DEF L, e
    <3>1. QED BY <1>2, <1>6
  <2>3. CASE b.type_ = "and"
    <3>1. dumpCNF(b, list) = Append(lb, e)  BY <2>3 DEF Dumped
    <3>2. QED BY <2>1, <2>2, <3>1
  <2>4. CASE b.type_ # "and"
    <3>1. dumpCNF(b, list) = lb  BY <2>4 DEF Dumped
    <3>2. QED BY <2>1, <3>1
  <2>5. QED BY <2>3, <2>4
<1>12. dumpCNF(t, list) = Append(ls, e)
  <2>1. dumpCNF(t, list)
          = EndLine[Then[EndLine[dumpCNF(t.left_, list)]][dumpCNF(t.right_, list)]]
    BY <1>3, DumpFacts
  <2>2. QED BY <1>3, <1>9, <1>10, <1>11, <2>1
<1>13. \A m : Value(t, m) <=> Value(a, m) /\ Value(b, m)  BY Values
<1> HIDE DEF ls, t
<1>14. Len(ls) = countOpTypeNode(t, "and") + 1
  <2>1. /\ Len(la) = countOpTypeNode(a, "and") + 1 /\ countOpTypeNode(a, "and") \in Nat
        /\ Len(lb) = countOpTypeNode(b, "and") + 1 /\ countOpTypeNode(b, "and") \in Nat
    BY CountFacts DEF Dumped, countOpTypeNode
  <2>2. QED BY <1>5, <1>7, <2>1
<1>15. Numbers(ls) = Numbers(la) \cup Numbers(lb)  BY <1>7 DEF Numbers
<1>16. \A n \in Numbers(ls) : \E name \in NamesIn(t) :
         n \in {findVar(list, name), -findVar(list, name)}
  <2>1. \A n \in Numbers(la) : \E name \in NamesIn(a) :
          n \in {findVar(list, name), -findVar(list, name)}
    BY DEF Dumped
  <2>2. \A n \in Numbers(lb) : \E name \in NamesIn(b) :
          n \in {findVar(list, name), -findVar(list, name)}
    BY DEF Dumped
  <2>3. QED BY <1>4, <1>15, <2>1, <2>2
<1>17. \A name \in NamesIn(t) : \E n \in Numbers(ls) :
         n \in {findVar(list, name), -findVar(list, name)}
  <2>1. \A name \in NamesIn(a) : \E n \in Numbers(la) :
          n \in {findVar(list, name), -findVar(list, name)}
    BY DEF Dumped
  <2>2. \A name \in NamesIn(b) : \E n \in Numbers(lb) :
          n \in {findVar(list, name), -findVar(list, name)}
    BY DEF Dumped
  <2>3. QED BY <1>4, <1>15, <2>1, <2>2
<1>18. ASSUME NEW v, NEW m, Agree(t, list, v, m) PROVE Satisfied(ls, v) <=> Value(t, m)
  <2>1. Agree(a, list, v, m) /\ Agree(b, list, v, m)  BY <1>4, <1>18 DEF Agree
  <2>2. /\ Satisfied(la, v) <=> Value(a, m)
        /\ Satisfied(lb, v) <=> Value(b, m)
    BY <2>1 DEF Dumped
  <2>3. Satisfied(ls, v) <=> Satisfied(la, v) /\ Satisfied(lb, v)  BY <1>7 DEF Satisfied
  <2>4. QED BY <1>13, <2>2, <2>3
<1>19. Dumped(t, list, ls)
  BY <1>3, <1>8, <1>12, <1>14, <1>16, <1>17, <1>18 DEF Dumped
<1>20. QED BY <1>19 DEF t, ls

LEMMA DumpedDisjunction ==
  ASSUME NEW list \in Seq(Names), NEW a, NEW b, NEW la, NEW lb,
         Dumped(a, list, la), Dumped(b, list, lb), Or(a, b) \in Trees,
         a.type_ # "and", b.type_ # "and"
  PROVE  Dumped(Or(a, b), list, <<la[1] \o lb[1]>>)
<1> DEFINE t == Or(a, b)  u == la[1]  w == lb[1]  line == u \o w  ls == <<line>>
<1>1. Body(la) /\ Body(lb) /\ la = <<u>> /\ lb = <<w>>  BY DEF Dumped
<1>2. t.type_ = "or" /\ t.left_ = a /\ t.right_ = b /\ t \in Trees \ Leaf
  BY OperatorFields
<1>3. NamesIn(t) = NamesIn(a) \cup NamesIn(b)  BY NodeRules DEF Or, Operators
<1>4. countOpTypeNode(t, "and") = 0 + (countOpTypeNode(a, "and") + countOpTypeNode(b, "and"))
  BY Conjunctions DEF Or, Operators
<1>5. \A m : Value(t, m) <=> Value(a, m) \/ Value(b, m)  BY Values
<1>6. dumpCNF(t, list) = Then[dumpCNF(a, list)][dumpCNF(b, list)]  BY <1>2, DumpFacts
<1>7. dumpCNF(a, list) = la /\ dumpCNF(b, list) = lb  BY DEF Dumped
<1> HIDE DEF t
<1> HIDE DEF u, w
<1>8. Entries(la) = {u} /\ Entries(lb) = {w} /\ Len(la) = 1 /\ Len(lb) = 1
  <2>1. ASSUME NEW s PROVE Entries(<<s>>) = {s} /\ Len(<<s>>) = 1  BY DEF Entries
  <2>2. QED BY <1>1, <2>1
<1>9. u \in Seq(Int) /\ w \in Seq(Int) /\ u # << >> /\ w # << >>
  <2>1. <<u>> \in Seq(Seq(Int)) /\ <<w>> \in Seq(Seq(Int))
    BY <1>1 DEF Body, Outs, Written
  <2>2. u \in Seq(Int) /\ w \in Seq(Int)
    <3> DEFINE L == Seq(Int)
    <3>1. <<u>> \in Seq(L) /\ <<w>> \in Seq(L)  BY <2>1
    <3> HIDE DEF L
    <3>2. <<u>>[1] \in L /\ <<w>>[1] \in L  BY <3>1
    <3>3. QED BY <3>2 DEF L
  <2>3. QED BY <1>1, <1>8, <2>2 DEF Body
<1>10. dumpCNF(t, list) = ls  BY <1>1, <1>6, <1>7, <1>9, OneLine
<1>11. line \in Seq(Int) /\ line # << >> /\ Entries(line) = Entries(u) \cup Entries(w)
  <2>1. Len(line) = Len(u) + Len(w) /\ line \in Seq(Int)  BY <1>9
  <2>2. Len(u) >= 1 /\ Len(w) >= 1  BY <1>9
  <2>3. line # << >>  BY <1>9, <2>1, <2>2
  <2>4. QED BY <1>9, <2>1, <2>3, JoinedEntries
<1> HIDE DEF line
<1>12. ls \in Outs /\ Entries(ls) = {line} /\ Len(ls) = 1 /\ ls[1] = line /\ ls = <<ls[1]>>
  <2>1. ls \in Seq(Seq(Int)) /\ ls # << >>  BY <1>11
  <2>2. Entries(ls) = {line} /\ Len(ls) = 1 /\ ls[1] = line  BY DEF Entries
  <2>3. QED BY <2>1, <2>2 DEF Outs, Written
<1> HIDE DEF ls
<1>13. Body(ls)  BY <1>11, <1>12 DEF Body
<1>14. Len(ls) = countOpTypeNode(t, "and") + 1
  <2>1. /\ Len(la) = countOpTypeNode(a, "and") + 1 /\ countOpTypeNode(a, "and") \in Nat
        /\ Len(lb) = countOpTypeNode(b, "and") + 1 /\ countOpTypeNode(b, "and") \in Nat
    BY CountFacts DEF Dumped, countOpTypeNode
  <2>2. QED BY <1>4, <1>8, <1>12, <2>1
<1>15. Numbers(ls) = Numbers(la) \cup Numbers(lb)  BY <1>8, <1>11, <1>12 DEF Numbers
<1>16. \A n \in Numbers(ls) : \E name \in NamesIn(t) :
         n \in {findVar(list, name), -findVar(list, name)}
  <2>1. \A n \in Numbers(la) : \E name \in NamesIn(a) :
          n \in {findVar(list, name), -findVar(list, name)}
    BY DEF Dumped
  <2>2. \A n \in Numbers(lb) : \E name \in NamesIn(b) :
          n \in {findVar(list, name), -findVar(list, name)}
    BY DEF Dumped
  <2>3. QED BY <1>3, <1>15, <2>1, <2>2
<1>17. \A name \in NamesIn(t) : \E n \in Numbers(ls) :
         n \in {findVar(list, name), -findVar(list, name)}
  <2>1. \A name \in NamesIn(a) : \E n \in Numbers(la) :
          n \in {findVar(list, name), -findVar(list, name)}
    BY DEF Dumped
  <2>2. \A name \in NamesIn(b) : \E n \in Numbers(lb) :
          n \in {findVar(list, name), -findVar(list, name)}
    BY DEF Dumped
  <2>3. QED BY <1>3, <1>15, <2>1, <2>2
<1>18. ASSUME NEW v, NEW m, Agree(t, list, v, m) PROVE Satisfied(ls, v) <=> Value(t, m)
  <2>1. Agree(a, list, v, m) /\ Agree(b, list, v, m)  BY <1>3, <1>18 DEF Agree
  <2>2. /\ Satisfied(la, v) <=> Value(a, m)
        /\ Satisfied(lb, v) <=> Value(b, m)
    BY <2>1 DEF Dumped
  <2>3. Satisfied(ls, v) <=> Satisfied(la, v) \/ Satisfied(lb, v)
    BY <1>8, <1>11, <1>12 DEF Satisfied
  <2>4. QED BY <1>5, <2>2, <2>3
<1>19. Dumped(t, list, ls)
  BY <1>2, <1>10, <1>12, <1>13, <1>14, <1>16, <1>17, <1>18 DEF Dumped
<1>20. QED BY <1>19 DEF t, ls, line, u, w

-----------------------------------------------------------------------------
(* Conjunctions of clauses.                                                *)

Cnf(t) ==
  /\ Normal(t)
  /\ Flat(t)
  /\ \A list \in Seq(Names) : \E ls : Dumped(t, list, ls)

LEMMA CnfRules ==
  ASSUME 1 <= MaxHeight
  PROVE  /\ \A x \in Vars : Cnf(x)
         /\ \A x \in Vars : Not(x) \in Trees => Cnf(Not(x))
         /\ \A a, b : Cnf(a) /\ Cnf(b) /\ And(a, b) \in Trees => Cnf(And(a, b))
         /\ \A a, b : Cnf(a) /\ Cnf(b) /\ a.type_ # "and" /\ b.type_ # "and"
                        /\ Or(a, b) \in Trees => Cnf(Or(a, b))
<1>1. ASSUME NEW x \in Vars PROVE Cnf(x)
  <2>1. Normal(x) /\ Flat(x)  BY NormalRules, FlatRules
  <2>2. ASSUME NEW list \in Seq(Names) PROVE \E ls : Dumped(x, list, ls)
    BY DumpedVariable
  <2>3. QED BY <2>1, <2>2 DEF Cnf
<1>2. ASSUME NEW x \in Vars, Not(x) \in Trees PROVE Cnf(Not(x))
  <2>1. Normal(Not(x)) /\ Flat(Not(x))  BY <1>2, NormalRules, FlatRules
  <2>2. ASSUME NEW list \in Seq(Names) PROVE \E ls : Dumped(Not(x), list, ls)
    BY <1>2, DumpedNegation
  <2>3. QED BY <2>1, <2>2 DEF Cnf
<1>3. ASSUME NEW a, NEW b, Cnf(a), Cnf(b), And(a, b) \in Trees PROVE Cnf(And(a, b))
  <2>1. Normal(And(a, b)) /\ Flat(And(a, b))  BY <1>3, NormalRules, FlatRules DEF Cnf
  <2>2. ASSUME NEW list \in Seq(Names) PROVE \E ls : Dumped(And(a, b), list, ls)
    <3>1. PICK la : Dumped(a, list, la)  BY <1>3 DEF Cnf
    <3>2. PICK lb : Dumped(b, list, lb)  BY <1>3 DEF Cnf
    <3>3. Dumped(And(a, b), list, la \o lb)  BY <1>3, <3>1, <3>2, DumpedConjunction
    <3>4. QED BY <3>3
  <2>3. QED BY <2>1, <2>2 DEF Cnf
<1>4. ASSUME NEW a, NEW b, Cnf(a), Cnf(b), a.type_ # "and", b.type_ # "and",
             Or(a, b) \in Trees
      PROVE  Cnf(Or(a, b))
  <2>1. Normal(Or(a, b)) /\ Flat(Or(a, b))  BY <1>4, NormalRules, FlatRules DEF Cnf
  <2>2. ASSUME NEW list \in Seq(Names) PROVE \E ls : Dumped(Or(a, b), list, ls)
    <3>1. PICK la : Dumped(a, list, la)  BY <1>4 DEF Cnf
    <3>2. PICK lb : Dumped(b, list, lb)  BY <1>4 DEF Cnf
    <3>3. Dumped(Or(a, b), list, <<la[1] \o lb[1]>>)
      BY <1>4, <3>1, <3>2, DumpedDisjunction
    <3>4. QED BY <3>3
  <2>3. QED BY <2>1, <2>2 DEF Cnf
<1>5. QED BY <1>1, <1>2, <1>3, <1>4

\* The levels that the passes' trees have.
LEMMA Grown ==
  ASSUME 8 <= MaxHeight
  PROVE  /\ 1 <= MaxHeight
         /\ Vars \subseteq TreesUpTo[1] /\ Null \in TreesUpTo[1]
         /\ TreesUpTo[1] \subseteq TreesUpTo[2] /\ TreesUpTo[2] \subseteq TreesUpTo[3]
         /\ TreesUpTo[3] \subseteq TreesUpTo[4] /\ TreesUpTo[4] \subseteq TreesUpTo[5]
         /\ TreesUpTo[5] \subseteq TreesUpTo[6] /\ TreesUpTo[6] \subseteq TreesUpTo[7]
         /\ TreesUpTo[7] \subseteq Trees
         /\ \A a, b \in TreesUpTo[1] :
              {Not(a), And(a, b), Or(a, b), Imp(a, b), Iff(a, b)} \subseteq TreesUpTo[2]
         /\ \A a, b \in TreesUpTo[2] :
              {Not(a), And(a, b), Or(a, b), Imp(a, b), Iff(a, b)} \subseteq TreesUpTo[3]
         /\ \A a, b \in TreesUpTo[3] :
              {Not(a), And(a, b), Or(a, b), Imp(a, b), Iff(a, b)} \subseteq TreesUpTo[4]
         /\ \A a, b \in TreesUpTo[4] :
              {Not(a), And(a, b), Or(a, b), Imp(a, b), Iff(a, b)} \subseteq TreesUpTo[5]
         /\ \A a, b \in TreesUpTo[5] :
              {Not(a), And(a, b), Or(a, b), Imp(a, b), Iff(a, b)} \subseteq TreesUpTo[6]
         /\ \A a, b \in TreesUpTo[6] :
              {Not(a), And(a, b), Or(a, b), Imp(a, b), Iff(a, b)} \subseteq TreesUpTo[7]
<1>1. /\ 1 \in 1..7 /\ 1 + 1 = 2 /\ 2 \in 1..7 /\ 2 + 1 = 3 /\ 3 \in 1..7 /\ 3 + 1 = 4
      /\ 4 \in 1..7 /\ 4 + 1 = 5 /\ 5 \in 1..7 /\ 5 + 1 = 6 /\ 6 \in 1..7 /\ 6 + 1 = 7
      /\ 7 \in 1..8 /\ 1 \in 1..8
  OBVIOUS
<1> DEFINE Grows(k, n) ==
             /\ TreesUpTo[k] \subseteq TreesUpTo[n]
             /\ \A a, b \in TreesUpTo[k] :
                  {Not(a), And(a, b), Or(a, b), Imp(a, b), Iff(a, b)} \subseteq TreesUpTo[n]
<1>2. \A k \in 1..7 : Grows(k, k + 1)  BY Built
<1>3. /\ 1 <= MaxHeight /\ Vars \subseteq TreesUpTo[1] /\ Null \in TreesUpTo[1]
      /\ TreesUpTo[7] \subseteq Trees
  BY <1>1, Built
<1> HIDE DEF Grows
<1>4. /\ Grows(1, 1 + 1) /\ Grows(2, 2 + 1) /\ Grows(3, 3 + 1)
      /\ Grows(4, 4 + 1) /\ Grows(5, 5 + 1) /\ Grows(6, 6 + 1)
  BY <1>1, <1>2
<1>5. Grows(1, 2) /\ Grows(2, 3) /\ Grows(3, 4) /\ Grows(4, 5) /\ Grows(5, 6) /\ Grows(6, 7)
  BY <1>1, <1>4
<1>6. QED BY <1>3, <1>5 DEF Grows

-----------------------------------------------------------------------------
(* The passes over a definition.                                           *)

\* What the passes make of a definition, one after the other.
Converted(d) == removeImplication[removeBiImplication[d]]

Negated(d) ==
  IF d.right_.type_ = "not" THEN removeDoubleNeg[Converted(d)] ELSE applyDemorgan[Converted(d)]

Distributed(d) == applyDistibutiveOrOverAnd[Negated(d)]

ClausesOf(d) ==
  IF d.right_.type_ = "bi_implication" THEN applyDistibutiveOrOverAnd[Distributed(d)]
  ELSE Distributed(d)

\* They go on as long as there is something to do, and no assertion fails.
Stages(d) ==
  LET c == Converted(d)  n == Negated(d)  s == Distributed(d)  f == ClausesOf(d)
  IN  /\ \A t \in {removeBiImplication[d], c, n, s, f} :
           t \in Trees /\ ~ HasFailed(t) /\ \A m : Value(t, m) = Value(d, m)
      /\ IF d.right_.type_ = "not" THEN countDoubleNeg(c) > 0
         ELSE countDoubleNeg(c) = 0 /\ countDemorgan(c) > 0
      /\ \A t \in {n, s, f} : countDoubleNeg(t) = 0 /\ countDemorgan(t) = 0
      /\ IF d.right_.type_ = "not" THEN countDistributiveOrOverAnd(n) = 0 /\ n = s
         ELSE countDistributiveOrOverAnd(n) > 0
      /\ IF d.right_.type_ = "bi_implication" THEN countDistributiveOrOverAnd(s) > 0
         ELSE countDistributiveOrOverAnd(s) = 0
      /\ f = applyDistibutiveOrOverAnd[f]
      /\ Cnf(f)
      /\ NamesIn(f) = NamesIn(d)
      /\ f \in TreesUpTo[7]

\* For a definition of x as o: o becomes p and q, its negation r, x => o becomes
\* l, and o => x becomes s and at last e.
Rewriting(x, o, p, q, r, l, s, e) ==
  /\ o \in TreesUpTo[2] /\ o.type_ \in Operators
  /\ p \in TreesUpTo[3] /\ p = removeBiImplication[o] /\ Count(p, {Failed}) = 0
  /\ q \in TreesUpTo[4] /\ q = removeImplication[p] /\ Normal(q)
  /\ r \in TreesUpTo[4] /\ Normal(r)
  /\ IF o.type_ = "not" THEN r \in Vars /\ q = Not(r)
     ELSE /\ q.type_ \in {"and", "or"} /\ applyDemorgan[Not(q)] = r
          /\ "and" \in {q.type_, r.type_}
  /\ l \in TreesUpTo[6] /\ applyDistibutiveOrOverAnd[Or(Not(x), q)] = l /\ Cnf(l)
  /\ s \in TreesUpTo[6] /\ applyDistibutiveOrOverAnd[Or(r, x)] = s /\ Normal(s)
  /\ e \in TreesUpTo[6] /\ applyDistibutiveOrOverAnd[s] = e /\ Cnf(e)
  /\ IF o.type_ = "bi_implication" THEN countDistributiveOrOverAnd(s) > 0 ELSE s = e
  /\ \A m : /\ Value(p, m) <=> Value(o, m)
            /\ Value(q, m) <=> Value(o, m)
            /\ Value(r, m) <=> ~ Value(o, m)
            /\ Value(l, m) <=> (Value(x, m) => Value(o, m))
            /\ Value(s, m) <=> (Value(o, m) => Value(x, m))
            /\ Value(e, m) <=> (Value(o, m) => Value(x, m))
  /\ NamesIn(l) \cup NamesIn(e) = NamesIn(x) \cup NamesIn(o)

LEMMA RewritingStages ==
  ASSUME 8 <= MaxHeight, NEW x \in Vars, NEW o, NEW p, NEW q, NEW r, NEW l, NEW s, NEW e,
         Rewriting(x, o, p, q, r, l, s, e)
  PROVE  Stages(Iff(x, o))
<1> DEFINE d == Iff(x, o)
           nx == Not(x)
           np == Not(p)
           nq == Not(q)
           b == And(Imp(x, p), Imp(p, x))
           f1 == Or(nx, q)
           f2 == Or(nq, x)
           f3 == Or(r, x)
           c == And(f1, f2)
           n == And(f1, f3)
           t == And(l, s)
           f == And(l, e)
           RBI == removeBiImplication
           RI == removeImplication
           RDN == removeDoubleNeg
           DM == applyDemorgan
           Dist == applyDistibutiveOrOverAnd
<1> USE DEF Operators
<1>1. /\ 1 <= MaxHeight /\ x \in Trees /\ o \in Trees /\ Null \in Trees
      /\ RBI[x] = x /\ RI[x] = x /\ RDN[x] = x /\ DM[x] = x /\ Dist[x] = x
      /\ RI[Null] = Null
  BY Grown, LeafRules DEF Rewriting
<1>2. Null \in TreesUpTo[4] /\ nx \in TreesUpTo[2] /\ nx \in TreesUpTo[4] /\ nx \in TreesUpTo[5]
      /\ x \in TreesUpTo[2] /\ x \in TreesUpTo[3] /\ x \in TreesUpTo[4] /\ x \in TreesUpTo[5]
      /\ q \in TreesUpTo[4] /\ q \in TreesUpTo[5] /\ r \in TreesUpTo[4]
  BY Grown DEF Rewriting
<1>3. d \in TreesUpTo[3] /\ d \in Trees /\ Imp(x, o) \in Trees /\ Imp(o, x) \in Trees
  BY <1>2, Grown DEF Rewriting
<1>4. /\ Imp(x, p) \in TreesUpTo[4] /\ Imp(p, x) \in TreesUpTo[4] /\ b \in TreesUpTo[5]
      /\ np \in TreesUpTo[4]
  BY <1>2, Grown DEF Rewriting
<1>5. Imp(x, p) \in Trees /\ Imp(p, x) \in Trees /\ b \in Trees /\ np \in Trees /\ nx \in Trees
  BY <1>2, <1>4, Grown
<1>6. /\ nq \in TreesUpTo[5] /\ f1 \in TreesUpTo[5] /\ f3 \in TreesUpTo[5]
      /\ f2 \in TreesUpTo[6]
  <2>1. nq \in TreesUpTo[5]  BY <1>2, Grown
  <2>2. f1 \in TreesUpTo[5]  BY <1>2, Grown
  <2>3. f3 \in TreesUpTo[5]  BY <1>2, Grown
  <2>4. f2 \in TreesUpTo[6]  BY <1>2, <2>1, Grown
  <2>5. QED BY <2>1, <2>2, <2>3, <2>4
<1>7. f1 \in TreesUpTo[6] /\ f3 \in TreesUpTo[6]  BY <1>6, Grown
<1>8. c \in TreesUpTo[7] /\ n \in TreesUpTo[7] /\ t \in TreesUpTo[7] /\ f \in TreesUpTo[7]
  <2>1. c \in TreesUpTo[7]  BY <1>6, <1>7, Grown
  <2>2. n \in TreesUpTo[7]  BY <1>7, Grown
  <2>3. l \in TreesUpTo[6] /\ s \in TreesUpTo[6] /\ e \in TreesUpTo[6]  BY DEF Rewriting
  <2>4. t \in TreesUpTo[7]  BY <2>3, Grown
  <2>5. f \in TreesUpTo[7]  BY <2>3, Grown
  <2>6. QED BY <2>1, <2>2, <2>4, <2>5
<1>9. /\ c \in Trees /\ n \in Trees /\ t \in Trees /\ f \in Trees
      /\ f1 \in Trees /\ f2 \in Trees /\ f3 \in Trees /\ nq \in Trees
  BY <1>6, <1>7, <1>8, Grown
<1>10. RBI[d] = b
  <2>1. RBI[d] = And(RBI[Imp(x, o)], RBI[Imp(o, x)])  BY <1>3, IffRule
  <2>2. RBI[Imp(x, o)] = Imp(RBI[x], RBI[o])  BY <1>3, NodeRules DEF Imp
  <2>3. RBI[Imp(o, x)] = Imp(RBI[o], RBI[x])  BY <1>3, NodeRules DEF Imp
  <2>4. RBI[o] = p  BY DEF Rewriting
  <2>5. QED BY <1>1, <2>1, <2>2, <2>3, <2>4
<1>11. RI[b] = c
  <2>1. RI[b] = And(RI[Imp(x, p)], RI[Imp(p, x)])  BY <1>5, NodeRules DEF And
  <2>2. RI[Imp(x, p)] = Or(RI[nx], RI[p])  BY <1>5, ImpRule
  <2>3. RI[Imp(p, x)] = Or(RI[np], RI[x])  BY <1>5, ImpRule
  <2>4. RI[nx] = Tree("not", RI[x], RI[Null])  BY <1>5, NodeRules DEF Not
  <2>5. RI[np] = Tree("not", RI[p], RI[Null])  BY <1>5, NodeRules DEF Not
  <2>6. RI[p] = q  BY DEF Rewriting
  <2>7. RI[nx] = nx /\ RI[np] = nq  BY <1>1, <2>4, <2>5, <2>6 DEF Not
  <2>8. QED BY <1>1, <2>1, <2>2, <2>3, <2>6, <2>7
<1>12. /\ nx.type_ = "not" /\ nx.left_ = x /\ x.type_ = "var" /\ nq.type_ = "not"
       /\ nq.left_ = q
       /\ f1.type_ = "or" /\ f2.type_ = "or" /\ f3.type_ = "or"
       /\ d.right_ = o /\ d.type_ = "bi_implication"
       /\ Imp(x, p).type_ = "implication" /\ Imp(p, x).type_ = "implication"
       /\ \A t1, t2 : And(t1, t2).type_ = "and"
  <2>1. nx.type_ = "not" /\ nx.left_ = x  BY OperatorFields
  <2>2. nq.type_ = "not" /\ nq.left_ = q  BY OperatorFields
  <2>3. x.type_ = "var"  BY <1>1, VarFacts
  <2>4. f1.type_ = "or" /\ f2.type_ = "or" /\ f3.type_ = "or"  BY OperatorFields
  <2>5. d.right_ = o /\ d.type_ = "bi_implication"  BY OperatorFields
  <2>6. Imp(x, p).type_ = "implication" /\ Imp(p, x).type_ = "implication"
    BY OperatorFields
  <2>7. \A t1, t2 : And(t1, t2).type_ = "and"  BY OperatorFields
  <2>8. QED BY <2>1, <2>2, <2>3, <2>4, <2>5, <2>6, <2>7
<1>13. Normal(x) /\ Normal(nx) /\ Normal(q) /\ Normal(r) /\ Normal(f1) /\ Normal(f3)
       /\ Normal(n) /\ Normal(l) /\ Normal(s) /\ Normal(e) /\ Normal(t) /\ Normal(f)
  BY <1>1, <1>5, <1>9, NormalRules DEF Rewriting, Cnf
<1>14. ASSUME o.type_ = "not" PROVE RDN[c] = n /\ nq \in DoubleNegs /\ Flat(n)
  <2>1. r \in Vars /\ q = Not(r) /\ q.type_ = "not" /\ q.left_ = r
    BY <1>14, OperatorFields DEF Rewriting
  <2>2. RDN[c] = And(RDN[f1], RDN[f2])
    <3> HIDE DEF f1, f2, RDN
    <3>1. c \in Trees /\ f1 \in Trees /\ f2 \in Trees  BY <1>9
    <3>2. f1.type_ # "not" /\ f2.type_ # "not"  BY <1>12
    <3>3. QED BY <3>1, <3>2, NodeRules DEF And, RDN
  <2>3. RDN[f1] = f1  BY <1>13 DEF Normal
  <2>4. RDN[f2] = Or(RDN[nq.left_.left_], RDN[x])
    BY <1>9, <1>12, <2>1, NodeRules DEF Or
  <2>5. RDN[r] = r  BY <1>13 DEF Normal
  <2>6. RDN[c] = n  BY <1>1, <1>12, <2>1, <2>2, <2>3, <2>4, <2>5
  <2>7. nq \in DoubleNegs  BY <1>9, <1>12, <2>1 DEF DoubleNegs, OfType
  <2>8. Cnf(nx) /\ Cnf(q) /\ Cnf(r) /\ Cnf(x)
    <3>1. q \in Trees  BY <1>2, Grown
    <3>2. QED BY <1>1, <1>5, <2>1, <3>1, CnfRules
  <2>9. r.type_ = "var"  BY <1>1, <2>1, VarFacts
  <2>10. Cnf(f1) /\ Cnf(f3)  BY <1>1, <1>9, <1>12, <2>1, <2>8, <2>9, CnfRules
  <2>11. Cnf(n)  BY <1>1, <1>9, <2>10, CnfRules
  <2>12. Flat(n)  BY <2>11 DEF Cnf
  <2>13. QED BY <2>6, <2>7, <2>12
<1>15. ASSUME o.type_ # "not"
       PROVE  /\ DM[c] = n /\ nq \in DemorganNodes /\ nq \notin DoubleNegs
              /\ countDistributiveOrOverAnd(n) > 0
  <2>1. /\ q.type_ \in {"and", "or"} /\ DM[nq] = r
        /\ "and" \in {q.type_, r.type_}
    BY <1>15 DEF Rewriting
  <2>2. DM[c] = And(DM[f1], DM[f2])  BY <1>9, NodeRules DEF And
  <2>3. DM[f1] = f1  BY <1>13 DEF Normal
  <2>4. DM[f2] = Or(DM[nq], DM[x])  BY <1>9, NodeRules DEF Or
  <2>5. DM[c] = n  BY <1>1, <2>1, <2>2, <2>3, <2>4
  <2>6. nq \in DemorganNodes /\ nq \notin DoubleNegs
    BY <1>9, <1>12, <2>1 DEF DemorganNodes, DoubleNegs, OfType
  <2>7. f1.right_ = q /\ f3.left_ = r  BY OperatorFields
  <2>8. f1 \in Distributables \/ f3 \in Distributables
    BY <1>9, <1>12, <2>1, <2>7 DEF Distributables, OfType
  <2> DEFINE D == Distributables
  <2>9. Count(n, D) = (IF n \in D THEN 1 ELSE 0) + (Count(f1, D) + Count(f3, D))
    BY <1>9, NodeRules DEF And
  <2>10. Count(f1, D) = (IF f1 \in D THEN 1 ELSE 0) + (Count(nx, D) + Count(q, D))
    BY <1>9, NodeRules DEF Or
  <2>11. Count(f3, D) = (IF f3 \in D THEN 1 ELSE 0) + (Count(r, D) + Count(x, D))
    BY <1>9, NodeRules DEF Or
  <2>12. /\ Count(nx, D) \in Nat /\ Count(q, D) \in Nat /\ Count(r, D) \in Nat
         /\ Count(x, D) \in Nat
    <3>1. q \in Trees /\ r \in Trees  BY <1>2, Grown
    <3>2. QED BY <1>1, <1>5, <3>1, CountFacts
  <2>13. f1 \in D \/ f3 \in D  BY <2>8
  <2> HIDE DEF D, n, f1, f3, nx
  <2>14. Count(n, D) > 0  BY <2>9, <2>10, <2>11, <2>12, <2>13
  <2>15. QED BY <2>5, <2>6, <2>14 DEF countDistributiveOrOverAnd, D
<1>16. ASSUME NEW S, Null \notin S, c \notin S, f1 \notin S, f2 \notin S,
              Count(nx, S) = 0, Count(q, S) = 0, Count(x, S) = 0
       PROVE  Count(c, S) = IF nq \in S THEN 1 ELSE 0
  <2>1. Count(c, S) = (IF c \in S THEN 1 ELSE 0) + (Count(f1, S) + Count(f2, S))
    BY <1>9, NodeRules DEF And
  <2>2. Count(f1, S) = (IF f1 \in S THEN 1 ELSE 0) + (Count(nx, S) + Count(q, S))
    BY <1>9, NodeRules DEF Or
  <2>3. Count(f2, S) = (IF f2 \in S THEN 1 ELSE 0) + (Count(nq, S) + Count(x, S))
    BY <1>9, NodeRules DEF Or
  <2>4. Count(nq, S) = (IF nq \in S THEN 1 ELSE 0) + (Count(q, S) + Count(Null, S))
    BY <1>9, NodeRules DEF Not
  <2>5. Count(Null, S) = 0  BY <1>16, CountFacts DEF Leaf
  <2> HIDE DEF c, f1, f2, nx, nq
  <2>6. QED BY <1>16, <2>1, <2>2, <2>3, <2>4, <2>5
<1>17. /\ countDoubleNeg(c) = IF nq \in DoubleNegs THEN 1 ELSE 0
       /\ countDemorgan(c) = IF nq \in DemorganNodes THEN 1 ELSE 0
       /\ ~ HasFailed(c)
  <2>1. c.type_ = "and"  BY <1>12
  <2>2. \A u : u \in DoubleNegs \/ u \in DemorganNodes => u.type_ = "not"
    BY DEF DoubleNegs, DemorganNodes, OfType
  <2>3. /\ Count(nx, DoubleNegs) = 0 /\ Count(nx, DemorganNodes) = 0 /\ Count(nx, {Failed}) = 0
        /\ Count(q, DoubleNegs) = 0 /\ Count(q, DemorganNodes) = 0 /\ Count(q, {Failed}) = 0
        /\ Count(x, DoubleNegs) = 0 /\ Count(x, DemorganNodes) = 0 /\ Count(x, {Failed}) = 0
    BY <1>13 DEF Normal, countDoubleNeg, countDemorgan
  <2>4. Null.type_ = "NULL" /\ Null # Failed /\ Failed.type_ = "failed"  BY TreesFacts
  <2>5. Null \notin DoubleNegs /\ Null \notin DemorganNodes /\ Null \notin {Failed}
    BY <2>2, <2>4
  <2>6. c \notin DoubleNegs /\ f1 \notin DoubleNegs /\ f2 \notin DoubleNegs
    BY <1>12, <2>1, <2>2
  <2>7. c \notin DemorganNodes /\ f1 \notin DemorganNodes /\ f2 \notin DemorganNodes
    BY <1>12, <2>1, <2>2
  <2>8. c \notin {Failed} /\ f1 \notin {Failed} /\ f2 \notin {Failed} /\ nq \notin {Failed}
    BY <1>12, <2>1, <2>4
  <2> HIDE DEF c, f1, f2, nx, nq
  <2>9. Count(c, DoubleNegs) = IF nq \in DoubleNegs THEN 1 ELSE 0
    BY <1>16, <2>3, <2>5, <2>6
  <2>10. Count(c, DemorganNodes) = IF nq \in DemorganNodes THEN 1 ELSE 0
    BY <1>16, <2>3, <2>5, <2>7
  <2>11. Count(c, {Failed}) = 0
    BY <1>16, <2>3, <2>5, <2>8
  <2>12. QED BY <2>9, <2>10, <2>11 DEF countDoubleNeg, countDemorgan, HasFailed
<1>18. ~ HasFailed(b)
  <2> DEFINE F == {Failed}
  <2>1. Count(b, F) = (IF b \in F THEN 1 ELSE 0) + (Count(Imp(x, p), F) + Count(Imp(p, x), F))
    BY <1>5, NodeRules DEF And
  <2>2. Count(Imp(x, p), F) = (IF Imp(x, p) \in F THEN 1 ELSE 0) + (Count(x, F) + Count(p, F))
    BY <1>5, NodeRules DEF Imp
  <2>3. Count(Imp(p, x), F) = (IF Imp(p, x) \in F THEN 1 ELSE 0) + (Count(p, F) + Count(x, F))
    BY <1>5, NodeRules DEF Imp
  <2>4. Count(x, F) = 0 /\ Count(p, F) = 0  BY <1>13 DEF Normal, Rewriting
  <2>5. b \notin F /\ Imp(x, p) \notin F /\ Imp(p, x) \notin F
    BY <1>12, TreesFacts
  <2>6. Count(b, F) = 0  BY <2>1, <2>2, <2>3, <2>4, <2>5
  <2>7. QED BY <2>6 DEF HasFailed
<1>19. Converted(d) = c /\ Negated(d) = n
  BY <1>10, <1>11, <1>12, <1>14, <1>15 DEF Converted, Negated
<1>20. Dist[n] = t
  <2>1. Dist[n] = And(Dist[f1], Dist[f3])  BY <1>9, NodeRules DEF And
  <2>2. QED BY <2>1 DEF Rewriting
<1>21. Dist[l] = l /\ Dist[e] = e /\ Dist[s] = e  BY DEF Rewriting, Cnf, Flat
<1>22. Dist[t] = f /\ Dist[f] = f
  <2>1. Dist[t] = And(Dist[l], Dist[s])  BY <1>9, NodeRules DEF And
  <2>2. Dist[f] = And(Dist[l], Dist[e])  BY <1>9, NodeRules DEF And
  <2>3. QED BY <1>21, <2>1, <2>2
<1>23. Distributed(d) = t /\ ClausesOf(d) = f
  <2>1. Distributed(d) = t  BY <1>19, <1>20 DEF Distributed
  <2>2. o.type_ # "bi_implication" => t = f  BY DEF Rewriting
  <2>3. QED BY <1>12, <1>22, <2>1, <2>2 DEF ClausesOf
<1>24. Cnf(f)  BY <1>1, <1>9, CnfRules DEF Rewriting
<1>25. IF o.type_ = "bi_implication" THEN countDistributiveOrOverAnd(t) > 0
       ELSE countDistributiveOrOverAnd(t) = 0
  <2>1. ASSUME o.type_ = "bi_implication" PROVE countDistributiveOrOverAnd(t) > 0
    <3> DEFINE D == Distributables
    <3>1. Count(t, D) = (IF t \in D THEN 1 ELSE 0) + (Count(l, D) + Count(s, D))
      BY <1>9, NodeRules DEF And
    <3>2. Count(s, D) > 0  BY <2>1 DEF Rewriting, countDistributiveOrOverAnd
    <3>3. Count(l, D) \in Nat /\ Count(s, D) \in Nat
      <4>1. l \in Trees /\ s \in Trees  BY <1>13 DEF Normal
      <4>2. QED BY <4>1, CountFacts
    <3> HIDE DEF D, t
    <3>4. Count(t, D) > 0  BY <3>1, <3>2, <3>3
    <3>5. QED BY <3>4 DEF countDistributiveOrOverAnd, D
  <2>2. ASSUME o.type_ # "bi_implication" PROVE countDistributiveOrOverAnd(t) = 0
    <3>1. t = f  BY <2>2 DEF Rewriting
    <3>2. Flat(f)  BY <1>24 DEF Cnf
    <3>3. QED BY <3>1, <3>2 DEF Flat
  <2>3. QED BY <2>1, <2>2
<1>26. ASSUME NEW m
       PROVE  /\ Value(b, m) = Value(d, m) /\ Value(c, m) = Value(d, m)
              /\ Value(n, m) = Value(d, m) /\ Value(t, m) = Value(d, m)
              /\ Value(f, m) = Value(d, m)
  <2> DEFINE X == Value(x, m)  O == Value(o, m)
  <2>1. /\ Value(p, m) <=> O
        /\ Value(q, m) <=> O
        /\ Value(r, m) <=> ~ O
        /\ Value(l, m) <=> (X => O)
        /\ Value(s, m) <=> (O => X)
        /\ Value(e, m) <=> (O => X)
    BY DEF Rewriting
  <2>2. Value(d, m) <=> (X <=> O)  BY <1>3, Values
  <2>3. Value(b, m) <=> ((X => Value(p, m)) /\ (Value(p, m) => X))
    BY <1>5, Values
  <2>4. /\ Value(nx, m) <=> ~ X
        /\ Value(nq, m) <=> ~ Value(q, m)
    BY <1>5, <1>9, Values
  <2>5. /\ Value(f1, m) <=> Value(nx, m) \/ Value(q, m)
        /\ Value(f2, m) <=> Value(nq, m) \/ X
        /\ Value(f3, m) <=> Value(r, m) \/ X
    BY <1>9, Values
  <2>6. /\ Value(c, m) <=> Value(f1, m) /\ Value(f2, m)
        /\ Value(n, m) <=> Value(f1, m) /\ Value(f3, m)
        /\ Value(t, m) <=> Value(l, m) /\ Value(s, m)
        /\ Value(f, m) <=> Value(l, m) /\ Value(e, m)
    BY <1>9, Values
  <2>7. /\ Value(d, m) \in BOOLEAN /\ Value(b, m) \in BOOLEAN /\ Value(c, m) \in BOOLEAN
        /\ Value(n, m) \in BOOLEAN /\ Value(t, m) \in BOOLEAN /\ Value(f, m) \in BOOLEAN
    <3>1. /\ d.type_ # "var" /\ b.type_ # "var" /\ c.type_ # "var" /\ n.type_ # "var"
          /\ t.type_ # "var" /\ f.type_ # "var"
      BY <1>12
    <3>2. QED BY <1>3, <1>5, <1>9, <3>1, ValueFacts
  <2> HIDE DEF X, O, d, b, c, n, t, f, f1, f2, f3, nx, nq
  <2>8. /\ Value(b, m) <=> Value(d, m)
        /\ Value(c, m) <=> Value(d, m)
        /\ Value(n, m) <=> Value(d, m)
        /\ Value(t, m) <=> Value(d, m)
        /\ Value(f, m) <=> Value(d, m)
    BY <2>1, <2>2, <2>3, <2>4, <2>5, <2>6
  <2>9. QED BY <2>7, <2>8
<1>27. NamesIn(f) = NamesIn(d)
  <2>1. NamesIn(f) = NamesIn(l) \cup NamesIn(e)  BY <1>9, NodeRules DEF And
  <2>2. NamesIn(d) = NamesIn(x) \cup NamesIn(o)  BY <1>3, NodeRules DEF Iff
  <2>3. QED BY <2>1, <2>2 DEF Rewriting
<1>28. /\ ~ HasFailed(n) /\ ~ HasFailed(t) /\ ~ HasFailed(f)
       /\ \A u \in {n, t, f} : countDoubleNeg(u) = 0 /\ countDemorgan(u) = 0
  BY <1>13 DEF Normal, HasFailed
<1>29. IF o.type_ = "not" THEN countDoubleNeg(c) > 0
       ELSE countDoubleNeg(c) = 0 /\ countDemorgan(c) > 0
  BY <1>14, <1>15, <1>17
<1>30. IF o.type_ = "not" THEN countDistributiveOrOverAnd(n) = 0 /\ n = t
       ELSE countDistributiveOrOverAnd(n) > 0
  BY <1>14, <1>15, <1>20 DEF Flat
<1>31. d.right_ = o  BY <1>12
<1> HIDE DEF d, b, c, n, t, f
<1>32. \A u \in {RBI[d], Converted(d), Negated(d), Distributed(d), ClausesOf(d)} :
         u \in Trees /\ ~ HasFailed(u) /\ \A m : Value(u, m) = Value(d, m)
  BY <1>5, <1>9, <1>10, <1>17, <1>18, <1>19, <1>23, <1>26, <1>28
<1>33. Stages(d)
  BY <1>8, <1>19, <1>22, <1>23, <1>24, <1>25, <1>27, <1>28, <1>29, <1>30, <1>31, <1>32
     DEF Stages
<1>34. QED BY <1>33 DEF d

Lits == Vars \cup {Not(x) : x \in Vars}

LEMMA LitFacts ==
  ASSUME 8 <= MaxHeight
  PROVE  /\ \A a \in Vars : a \in Lits /\ Not(a) \in Lits
         /\ \A a \in Lits : /\ a \in TreesUpTo[2] /\ a \in TreesUpTo[3] /\ a \in TreesUpTo[4]
                            /\ a \in TreesUpTo[5] /\ a \in TreesUpTo[6] /\ a \in Trees
                            /\ a.type_ \in {"not", "var"}
                            /\ Cnf(a)
                            /\ removeBiImplication[a] = a /\ removeImplication[a] = a
         /\ \A a, b \in Lits :
              /\ Or(a, b) \in TreesUpTo[3] /\ And(a, b) \in TreesUpTo[3]
              /\ Or(a, b) \in TreesUpTo[4] /\ And(a, b) \in TreesUpTo[4]
              /\ Or(a, b) \in TreesUpTo[5] /\ And(a, b) \in TreesUpTo[5]
              /\ Or(a, b) \in Trees /\ And(a, b) \in Trees
              /\ Cnf(Or(a, b)) /\ Cnf(And(a, b))
              /\ Not(Or(a, b)) \in Trees /\ Not(And(a, b)) \in Trees
<1>1. ASSUME NEW a \in Vars PROVE a \in Lits /\ Not(a) \in Lits  BY DEF Lits
<1>2. ASSUME NEW x \in Vars
      PROVE  /\ x \in TreesUpTo[2] /\ x.type_ = "var" /\ Cnf(x)
             /\ removeBiImplication[x] = x /\ removeImplication[x] = x
             /\ Not(x) \in TreesUpTo[2] /\ Not(x).type_ = "not" /\ Cnf(Not(x))
             /\ removeBiImplication[Not(x)] = Not(x) /\ removeImplication[Not(x)] = Not(x)
  <2>1. 1 <= MaxHeight /\ x \in TreesUpTo[1] /\ x \in TreesUpTo[2] /\ Null \in TreesUpTo[1]
    BY Grown
  <2>2. Not(x) \in TreesUpTo[2]  BY <2>1, Grown
  <2>3. Not(x) \in Trees  BY <2>2, Grown
  <2>4. x.type_ = "var" /\ Not(x).type_ = "not"  BY <2>1, VarFacts, OperatorFields
  <2>5. Cnf(x) /\ Cnf(Not(x))  BY <2>1, <2>3, CnfRules
  <2>6. /\ removeBiImplication[x] = x /\ removeImplication[x] = x
        /\ removeBiImplication[Null] = Null /\ removeImplication[Null] = Null
    BY <2>1, LeafRules
  <2>7. /\ removeBiImplication[Not(x)] = Tree("not", removeBiImplication[x], removeBiImplication[Null])
        /\ removeImplication[Not(x)] = Tree("not", removeImplication[x], removeImplication[Null])
    BY <2>3, NodeRules DEF Not, Operators
  <2>8. /\ removeBiImplication[Not(x)] = Not(x) /\ removeImplication[Not(x)] = Not(x)
    BY <2>6, <2>7 DEF Not
  <2>9. QED BY <2>1, <2>2, <2>4, <2>5, <2>6, <2>8
<1>3. ASSUME NEW a \in Lits
      PROVE  /\ a \in TreesUpTo[2] /\ a.type_ \in {"not", "var"} /\ Cnf(a)
             /\ removeBiImplication[a] = a /\ removeImplication[a] = a
  BY <1>2 DEF Lits
<1>4. ASSUME NEW a \in Lits
      PROVE  /\ a \in TreesUpTo[3] /\ a \in TreesUpTo[4]
             /\ a \in TreesUpTo[5] /\ a \in TreesUpTo[6] /\ a \in Trees
  BY <1>3, Grown
<1>5. ASSUME NEW a \in Lits, NEW b \in Lits
      PROVE  /\ Or(a, b) \in TreesUpTo[3] /\ And(a, b) \in TreesUpTo[3]
             /\ Or(a, b) \in TreesUpTo[4] /\ And(a, b) \in TreesUpTo[4]
             /\ Or(a, b) \in TreesUpTo[5] /\ And(a, b) \in TreesUpTo[5]
             /\ Or(a, b) \in Trees /\ And(a, b) \in Trees
             /\ Cnf(Or(a, b)) /\ Cnf(And(a, b))
             /\ Not(Or(a, b)) \in Trees /\ Not(And(a, b)) \in Trees
  <2>1. a \in TreesUpTo[2] /\ b \in TreesUpTo[2]  BY <1>3
  <2>2. Or(a, b) \in TreesUpTo[3] /\ And(a, b) \in TreesUpTo[3]  BY <2>1, Grown
  <2>3. /\ Or(a, b) \in TreesUpTo[4] /\ And(a, b) \in TreesUpTo[4]
        /\ Or(a, b) \in TreesUpTo[5] /\ And(a, b) \in TreesUpTo[5]
        /\ Or(a, b) \in Trees /\ And(a, b) \in Trees
    BY <2>2, Grown
  <2>4. Not(Or(a, b)) \in TreesUpTo[4] /\ Not(And(a, b)) \in TreesUpTo[4]  BY <2>2, Grown
  <2>5. Not(Or(a, b)) \in Trees /\ Not(And(a, b)) \in Trees  BY <2>4, Grown
  <2>6. Cnf(a) /\ Cnf(b) /\ a.type_ # "and" /\ b.type_ # "and" /\ 1 <= MaxHeight
    BY <1>3, Grown
  <2>7. Cnf(Or(a, b)) /\ Cnf(And(a, b))  BY <2>3, <2>6, CnfRules
  <2>8. QED BY <2>2, <2>3, <2>5, <2>7
<1>6. QED BY <1>1, <1>3, <1>4, <1>5

\* The definition of a negation.
LEMMA NotStages ==
  ASSUME 8 <= MaxHeight, NEW x \in Vars, NEW y \in Vars
  PROVE  Stages(Iff(x, Not(y)))
<1> DEFINE o == Not(y)  nx == Not(x)  l == Or(nx, o)  s == Or(y, x)
<1>1. x \in Lits /\ y \in Lits /\ nx \in Lits /\ o \in Lits  BY LitFacts
<1>2. /\ o \in TreesUpTo[2] /\ o \in TreesUpTo[3] /\ o \in TreesUpTo[4] /\ y \in TreesUpTo[4]
      /\ o.type_ = "not" /\ Cnf(o) /\ Cnf(y)
      /\ removeBiImplication[o] = o /\ removeImplication[o] = o
      /\ l \in TreesUpTo[4] /\ Cnf(l) /\ s \in TreesUpTo[4] /\ Cnf(s)
      /\ l \in Trees /\ s \in Trees /\ o \in Trees
      /\ nx \in Trees
  BY <1>1, LitFacts, OperatorFields
<1>3. l \in TreesUpTo[6] /\ s \in TreesUpTo[6]  BY <1>2, Grown
<1>4. applyDistibutiveOrOverAnd[l] = l /\ applyDistibutiveOrOverAnd[s] = s
  BY <1>2 DEF Cnf, Flat
<1>5. Normal(o) /\ Normal(y) /\ Normal(s) /\ Count(o, {Failed}) = 0  BY <1>2 DEF Cnf, Normal
<1>6. ASSUME NEW m
      PROVE  /\ Value(y, m) <=> ~ Value(o, m)
             /\ Value(l, m) <=> (Value(x, m) => Value(o, m))
             /\ Value(s, m) <=> (Value(o, m) => Value(x, m))
  <2>1. Value(o, m) <=> ~ Value(y, m)  BY <1>2, Values
  <2>2. Value(nx, m) <=> ~ Value(x, m)  BY <1>2, Values
  <2>3. Value(l, m) <=> Value(nx, m) \/ Value(o, m)  BY <1>2, Values
  <2>4. Value(s, m) <=> Value(y, m) \/ Value(x, m)  BY <1>2, Values
  <2> HIDE DEF o, nx, l, s
  <2>5. QED BY <2>1, <2>2, <2>3, <2>4
<1>7. NamesIn(l) \cup NamesIn(s) = NamesIn(x) \cup NamesIn(o)
  <2>1. NamesIn(l) = NamesIn(nx) \cup NamesIn(o)  BY <1>2, NodeRules DEF Or, Operators
  <2>2. NamesIn(s) = NamesIn(y) \cup NamesIn(x)  BY <1>2, NodeRules DEF Or, Operators
  <2>3. NamesIn(nx) = NamesIn(x) \cup NamesIn(Null)  BY <1>2, NodeRules DEF Not, Operators
  <2>4. NamesIn(o) = NamesIn(y) \cup NamesIn(Null)  BY <1>2, NodeRules DEF Not, Operators
  <2>5. NamesIn(Null) = {}  BY NamesFacts DEF Leaf
  <2> HIDE DEF o, nx, l, s
  <2>6. QED BY <2>1, <2>2, <2>3, <2>4, <2>5
<1>8. o = Not(y) /\ l = Or(Not(x), o) /\ s = Or(y, x)  OBVIOUS
<1> HIDE DEF o, nx, l, s
<1>9. Rewriting(x, o, o, o, y, l, s, s)
  BY <1>2, <1>3, <1>4, <1>5, <1>6, <1>7, <1>8 DEF Rewriting, Operators
<1>10. QED BY <1>8, <1>9, RewritingStages

\* The definition of a conjunction.
LEMMA AndStages ==
  ASSUME 8 <= MaxHeight, NEW x \in Vars, NEW y \in Vars, NEW z \in Vars
  PROVE  Stages(Iff(x, And(y, z)))
<1> DEFINE o == And(y, z)  nx == Not(x)  ny == Not(y)  nz == Not(z)
           r == Or(ny, nz)  l1 == Or(nx, y)  l2 == Or(nx, z)
           l == And(l1, l2)  s == Or(r, x)  h == Or(nx, o)
           Dist == applyDistibutiveOrOverAnd
<1>1. x \in Lits /\ y \in Lits /\ z \in Lits /\ nx \in Lits /\ ny \in Lits /\ nz \in Lits
  BY LitFacts
<1>2. /\ o \in TreesUpTo[2] /\ o \in TreesUpTo[3] /\ o \in TreesUpTo[4] /\ o \in Trees /\ Cnf(o)
      /\ Not(o) \in Trees
      /\ r \in TreesUpTo[4] /\ r \in TreesUpTo[3] /\ r \in Trees /\ Cnf(r)
      /\ l1 \in TreesUpTo[3] /\ l2 \in TreesUpTo[3] /\ Cnf(l1) /\ Cnf(l2)
      /\ l1 \in TreesUpTo[4] /\ l2 \in TreesUpTo[4] /\ l1 \in Trees /\ l2 \in Trees
      /\ nx \in TreesUpTo[4] /\ x \in TreesUpTo[4] /\ x \in TreesUpTo[3]
      /\ nx \in Trees /\ ny \in Trees /\ nz \in Trees
  <2>1. y \in TreesUpTo[1] /\ z \in TreesUpTo[1]  BY Grown
  <2>2. o \in TreesUpTo[2]  BY <2>1, Grown
  <2>3. QED BY <1>1, <2>2, LitFacts
<1>3. /\ l \in TreesUpTo[5] /\ s \in TreesUpTo[5] /\ h \in TreesUpTo[5]
  BY <1>2, Grown
<1>4. l \in TreesUpTo[6] /\ s \in TreesUpTo[6]  BY <1>3, Grown
<1>5. l \in Trees /\ s \in Trees /\ h \in Trees  BY <1>3, Grown
<1>6. /\ o.type_ = "and" /\ o.left_ = y /\ o.right_ = z /\ r.type_ = "or" /\ x.type_ = "var"
      /\ nx.type_ = "not"
  <2>1. x.type_ = "var"  BY Grown, VarFacts
  <2>2. o.type_ = "and" /\ o.left_ = y /\ o.right_ = z  BY OperatorFields
  <2>3. r.type_ = "or" /\ nx.type_ = "not"  BY OperatorFields
  <2>4. QED BY <2>1, <2>2, <2>3
<1>7. Cnf(l) /\ Cnf(s)
  <2>1. Cnf(x) /\ 1 <= MaxHeight  BY <1>1, LitFacts, Grown
  <2>2. QED BY <1>2, <1>5, <1>6, <2>1, CnfRules
<1>8. Normal(o) /\ Normal(r) /\ Normal(s) /\ Count(o, {Failed}) = 0  BY <1>2, <1>7 DEF Cnf, Normal
<1>9. removeBiImplication[o] = o /\ removeImplication[o] = o
  <2>1. /\ removeBiImplication[o] = Tree("and", removeBiImplication[y], removeBiImplication[z])
        /\ removeImplication[o] = Tree("and", removeImplication[y], removeImplication[z])
    BY <1>2, NodeRules DEF And, Operators
  <2>2. /\ removeBiImplication[y] = y /\ removeBiImplication[z] = z
        /\ removeImplication[y] = y /\ removeImplication[z] = z
    BY <1>1, LitFacts
  <2>3. QED BY <2>1, <2>2 DEF And
<1>10. applyDemorgan[Not(o)] = r
  <2>1. removeDoubleNeg[r] = r  BY <1>8 DEF Normal
  <2>2. Tree(Dual("and"), ny, nz) = r  BY DEF Dual, Or
  <2>3. Not(Tree("and", y, z)) \in Trees  BY <1>2 DEF And
  <2>4. applyDemorgan[Not(Tree("and", y, z))] = Tree(Dual("and"), applyDemorgan[ny], applyDemorgan[nz])
    BY <2>1, <2>2, <2>3, NotRule
  <2>5. applyDemorgan[ny] = ny /\ applyDemorgan[nz] = nz
    BY <1>1, LitFacts DEF Cnf, Normal
  <2>6. QED BY <2>2, <2>4, <2>5 DEF And
<1>11. Dist[h] = l
  <2>1. Dist[h] = And(Dist[l1], Dist[l2])  BY <1>5, <1>6, OrRule
  <2>2. Dist[l1] = l1 /\ Dist[l2] = l2  BY <1>2 DEF Cnf, Flat
  <2>3. QED BY <2>1, <2>2
<1>12. Dist[s] = s  BY <1>7 DEF Cnf, Flat
<1>13. ASSUME NEW m
       PROVE  /\ Value(r, m) <=> ~ Value(o, m)
              /\ Value(l, m) <=> (Value(x, m) => Value(o, m))
              /\ Value(s, m) <=> (Value(o, m) => Value(x, m))
  <2>1. Value(o, m) <=> Value(y, m) /\ Value(z, m)  BY <1>2, Values
  <2>2. /\ Value(nx, m) <=> ~ Value(x, m)
        /\ Value(ny, m) <=> ~ Value(y, m)
        /\ Value(nz, m) <=> ~ Value(z, m)
    BY <1>2, Values
  <2>3. /\ Value(r, m) <=> Value(ny, m) \/ Value(nz, m)
        /\ Value(l1, m) <=> Value(nx, m) \/ Value(y, m)
        /\ Value(l2, m) <=> Value(nx, m) \/ Value(z, m)
    BY <1>2, Values
  <2>4. /\ Value(l, m) <=> Value(l1, m) /\ Value(l2, m)
        /\ Value(s, m) <=> Value(r, m) \/ Value(x, m)
    BY <1>5, Values
  <2> HIDE DEF o, nx, ny, nz, r, l1, l2, l, s
  <2>5. QED BY <2>1, <2>2, <2>3, <2>4
<1>14. NamesIn(l) \cup NamesIn(s) = NamesIn(x) \cup NamesIn(o)
  <2>1. /\ NamesIn(l) = NamesIn(l1) \cup NamesIn(l2)
        /\ NamesIn(l1) = NamesIn(nx) \cup NamesIn(y)
        /\ NamesIn(l2) = NamesIn(nx) \cup NamesIn(z)
    BY <1>2, <1>5, NodeRules DEF And, Or, Operators
  <2>2. NamesIn(s) = NamesIn(r) \cup NamesIn(x) /\ NamesIn(r) = NamesIn(ny) \cup NamesIn(nz)
    BY <1>2, <1>5, NodeRules DEF Or, Operators
  <2>3. /\ NamesIn(nx) = NamesIn(x) \cup NamesIn(Null)
        /\ NamesIn(ny) = NamesIn(y) \cup NamesIn(Null)
        /\ NamesIn(nz) = NamesIn(z) \cup NamesIn(Null)
    BY <1>2, NodeRules DEF Not, Operators
  <2>4. NamesIn(Null) = {}  BY NamesFacts DEF Leaf
  <2>5. NamesIn(o) = NamesIn(y) \cup NamesIn(z)  BY <1>2, NodeRules DEF And, Operators
  <2> HIDE DEF o, nx, ny, nz, r, l1, l2, l, s
  <2>6. QED BY <2>1, <2>2, <2>3, <2>4, <2>5
<1>15. h = Or(Not(x), o) /\ s = Or(r, x)  OBVIOUS
<1>16. o = And(y, z)  OBVIOUS
<1> HIDE DEF o, nx, ny, nz, r, l1, l2, l, s, h
<1>17. Rewriting(x, o, o, o, r, l, s, s)
  BY <1>2, <1>4, <1>6, <1>7, <1>8, <1>9, <1>10, <1>11, <1>12, <1>13, <1>14, <1>15
     DEF Rewriting, Operators
<1>18. QED BY <1>16, <1>17, RewritingStages

\* The definition of what becomes a disjunction of a and b, whose negations
\* become na and nb.
LEMMA DisjunctionStages ==
  ASSUME 8 <= MaxHeight, NEW x \in Vars, NEW o \in TreesUpTo[2],
         o.type_ \in {"or", "implication"},
         NEW a \in Lits, NEW b \in Lits, NEW na \in Lits, NEW nb \in Lits,
         removeBiImplication[o] = o, removeImplication[o] = Or(a, b),
         Count(o, {Failed}) = 0,
         removeDoubleNeg[And(Not(a), Not(b))] = And(na, nb),
         \A m : /\ Value(o, m) <=> Value(a, m) \/ Value(b, m)
                /\ Value(na, m) <=> ~ Value(a, m)
                /\ Value(nb, m) <=> ~ Value(b, m),
         NamesIn(o) = NamesIn(a) \cup NamesIn(b),
         NamesIn(o) = NamesIn(na) \cup NamesIn(nb)
  PROVE  Stages(Iff(x, o))
<1> DEFINE nx == Not(x)  q == Or(a, b)  r == And(na, nb)
           l == Or(nx, q)  s1 == Or(na, x)  s2 == Or(nb, x)
           s == And(s1, s2)  h == Or(r, x)
           Dist == applyDistibutiveOrOverAnd
<1>1. x \in Lits /\ nx \in Lits  BY LitFacts
<1>2. /\ q \in TreesUpTo[4] /\ q \in Trees /\ Cnf(q) /\ Not(q) \in Trees
      /\ r \in TreesUpTo[4] /\ r \in Trees /\ Cnf(r)
      /\ s1 \in TreesUpTo[3] /\ s2 \in TreesUpTo[3] /\ Cnf(s1) /\ Cnf(s2)
      /\ s1 \in TreesUpTo[4] /\ s2 \in TreesUpTo[4] /\ s1 \in Trees /\ s2 \in Trees
      /\ nx \in TreesUpTo[4] /\ x \in TreesUpTo[4] /\ nx \in Trees
      /\ o \in TreesUpTo[3]
  <2>1. o \in TreesUpTo[3]  BY Grown
  <2>2. QED BY <1>1, <2>1, LitFacts
<1>3. l \in TreesUpTo[5] /\ s \in TreesUpTo[5] /\ h \in TreesUpTo[5]
  BY <1>2, Grown
<1>4. l \in TreesUpTo[6] /\ s \in TreesUpTo[6]  BY <1>3, Grown
<1>5. l \in Trees /\ s \in Trees /\ h \in Trees  BY <1>3, Grown
<1>6. /\ q.type_ = "or" /\ r.type_ = "and" /\ r.left_ = na /\ r.right_ = nb
      /\ x.type_ = "var" /\ nx.type_ = "not"
  <2>1. x.type_ = "var"  BY Grown, VarFacts
  <2>2. q.type_ = "or"  BY OperatorFields
  <2>3. r.type_ = "and" /\ r.left_ = na /\ r.right_ = nb  BY OperatorFields
  <2>4. nx.type_ = "not"  BY OperatorFields
  <2>5. QED BY <2>1, <2>2, <2>3, <2>4
<1>7. Cnf(l) /\ Cnf(s)
  <2>1. Cnf(nx) /\ 1 <= MaxHeight  BY <1>1, LitFacts, Grown
  <2>2. QED BY <1>2, <1>5, <1>6, <2>1, CnfRules
<1>8. Normal(q) /\ Normal(r) /\ Normal(s)  BY <1>2, <1>7 DEF Cnf
<1>9. applyDemorgan[Not(q)] = r
  <2>1. Tree(Dual("or"), Not(a), Not(b)) = And(Not(a), Not(b))  BY DEF Dual, And
  <2>2. Tree(Dual("or"), na, nb) = r  BY DEF Dual, And
  <2>3. Not(Tree("or", a, b)) \in Trees  BY <1>2 DEF Or
  <2>4. applyDemorgan[Not(Tree("or", a, b))] = Tree(Dual("or"), applyDemorgan[na], applyDemorgan[nb])
    BY <2>1, <2>2, <2>3, NotRule
  <2>5. applyDemorgan[na] = na /\ applyDemorgan[nb] = nb
    BY LitFacts DEF Cnf, Normal
  <2>6. QED BY <2>2, <2>4, <2>5 DEF Or
<1>10. Dist[h] = s
  <2>1. Dist[h] = And(Dist[s1], Dist[s2])  BY <1>5, <1>6, OrRule
  <2>2. Dist[s1] = s1 /\ Dist[s2] = s2  BY <1>2 DEF Cnf, Flat
  <2>3. QED BY <2>1, <2>2
<1>11. Dist[l] = l /\ Dist[s] = s  BY <1>7 DEF Cnf, Flat
<1>12. ASSUME NEW m
       PROVE  /\ Value(q, m) <=> Value(o, m)
              /\ Value(r, m) <=> ~ Value(o, m)
              /\ Value(l, m) <=> (Value(x, m) => Value(o, m))
              /\ Value(s, m) <=> (Value(o, m) => Value(x, m))
  <2>1. /\ Value(o, m) <=> Value(a, m) \/ Value(b, m)
        /\ Value(na, m) <=> ~ Value(a, m)
        /\ Value(nb, m) <=> ~ Value(b, m)
    OBVIOUS
  <2>2. Value(nx, m) <=> ~ Value(x, m)  BY <1>2, Values
  <2>3. /\ Value(q, m) <=> Value(a, m) \/ Value(b, m)
        /\ Value(r, m) <=> Value(na, m) /\ Value(nb, m)
        /\ Value(s1, m) <=> Value(na, m) \/ Value(x, m)
        /\ Value(s2, m) <=> Value(nb, m) \/ Value(x, m)
    BY <1>2, Values
  <2>4. /\ Value(l, m) <=> Value(nx, m) \/ Value(q, m)
        /\ Value(s, m) <=> Value(s1, m) /\ Value(s2, m)
    BY <1>5, Values
  <2> HIDE DEF nx, q, r, s1, s2, l, s
  <2>5. QED BY <2>1, <2>2, <2>3, <2>4
<1>13. NamesIn(l) \cup NamesIn(s) = NamesIn(x) \cup NamesIn(o)
  <2>1. /\ NamesIn(s) = NamesIn(s1) \cup NamesIn(s2)
        /\ NamesIn(s1) = NamesIn(na) \cup NamesIn(x)
        /\ NamesIn(s2) = NamesIn(nb) \cup NamesIn(x)
    BY <1>2, <1>5, NodeRules DEF And, Or, Operators
  <2>2. NamesIn(l) = NamesIn(nx) \cup NamesIn(q) /\ NamesIn(q) = NamesIn(a) \cup NamesIn(b)
    BY <1>2, <1>5, NodeRules DEF Or, Operators
  <2>3. NamesIn(nx) = NamesIn(x) \cup NamesIn(Null)
    BY <1>2, NodeRules DEF Not, Operators
  <2>4. NamesIn(Null) = {}  BY NamesFacts DEF Leaf
  <2> HIDE DEF nx, q, r, s1, s2, l, s
  <2>5. QED BY <2>1, <2>2, <2>3, <2>4
<1>14. l = Or(Not(x), q) /\ h = Or(r, x) /\ removeImplication[o] = q  OBVIOUS
<1> HIDE DEF nx, q, r, s1, s2, l, s, h
<1>15. Rewriting(x, o, o, q, r, l, s, s)
  BY <1>2, <1>4, <1>6, <1>7, <1>8, <1>9, <1>10, <1>11, <1>12, <1>13, <1>14
     DEF Rewriting, Operators
<1>16. QED BY <1>15, RewritingStages

\* removeDoubleNeg after Demorgan's law.
LEMMA NegatedLiterals ==
  ASSUME 8 <= MaxHeight, NEW y \in Vars, NEW z \in Vars
  PROVE  /\ removeDoubleNeg[And(Not(y), Not(z))] = And(Not(y), Not(z))
         /\ removeDoubleNeg[And(Not(Not(y)), Not(z))] = And(y, Not(z))
<1> DEFINE ny == Not(y)  nz == Not(z)  nny == Not(ny)  t == And(nny, nz)
           RDN == removeDoubleNeg
<1>1. y \in Lits /\ ny \in Lits /\ nz \in Lits  BY LitFacts
<1>2. RDN[And(ny, nz)] = And(ny, nz)  BY <1>1, LitFacts DEF Cnf, Normal
<1>3. t \in Trees
  <2>1. ny \in TreesUpTo[2] /\ nz \in TreesUpTo[3]  BY <1>1, LitFacts
  <2>2. nny \in TreesUpTo[3]  BY <2>1, Grown
  <2>3. t \in TreesUpTo[4]  BY <2>1, <2>2, Grown
  <2>4. QED BY <2>3, Grown
<1>4. nny.type_ = "not" /\ nny.left_ = ny  BY OperatorFields
<1>5. ny.type_ = "not" /\ ny.left_ = y  BY OperatorFields
<1>6. RDN[t] = And(RDN[y], RDN[nz])
  <2>1. RDN[t] = Tree("and", RDN[IF nny.type_ = "not" /\ nny.left_.type_ = "not"
                                 THEN nny.left_.left_ ELSE nny], RDN[nz])
    BY <1>3, NodeRules DEF And, Operators
  <2>2. QED BY <1>4, <1>5, <2>1 DEF And
<1>7. RDN[y] = y /\ RDN[nz] = nz  BY <1>1, LitFacts DEF Cnf, Normal
<1>8. QED BY <1>2, <1>6, <1>7

\* The names and the values of literals.
LEMMA LitMeaning ==
  ASSUME 8 <= MaxHeight, NEW y \in Vars
  PROVE  /\ NamesIn(Not(y)) = NamesIn(y)
         /\ \A m : Value(Not(y), m) <=> ~ Value(y, m)
<1>1. y \in Lits /\ Not(y) \in Lits  BY LitFacts
<1>2. Not(y) \in Trees  BY <1>1, LitFacts
<1>3. NamesIn(Not(y)) = NamesIn(y) \cup NamesIn(Null)  BY <1>2, NodeRules DEF Not, Operators
<1>4. NamesIn(Null) = {}  BY NamesFacts DEF Leaf
<1>5. QED BY <1>2, <1>3, <1>4, Values

\* The definitions of a disjunction and of an implication.
LEMMA OrStages ==
  ASSUME 8 <= MaxHeight, NEW x \in Vars, NEW y \in Vars, NEW z \in Vars
  PROVE  Stages(Iff(x, Or(y, z)))
<1> DEFINE o == Or(y, z)  ny == Not(y)  nz == Not(z)
<1>1. y \in Lits /\ z \in Lits /\ ny \in Lits /\ nz \in Lits  BY LitFacts
<1>2. o \in Trees /\ Cnf(o)  BY <1>1, LitFacts
<1>3. o \in TreesUpTo[2] /\ o.type_ = "or"
  <2>1. y \in TreesUpTo[1] /\ z \in TreesUpTo[1]  BY Grown
  <2>2. o.type_ = "or"  BY OperatorFields
  <2>3. QED BY <2>1, <2>2, Grown
<1>4. removeBiImplication[o] = o /\ removeImplication[o] = o
  <2>1. /\ removeBiImplication[o] = Tree("or", removeBiImplication[y], removeBiImplication[z])
        /\ removeImplication[o] = Tree("or", removeImplication[y], removeImplication[z])
    BY <1>2, NodeRules DEF Or, Operators
  <2>2. /\ removeBiImplication[y] = y /\ removeBiImplication[z] = z
        /\ removeImplication[y] = y /\ removeImplication[z] = z
    BY <1>1, LitFacts
  <2>3. QED BY <2>1, <2>2 DEF Or
<1>5. Count(o, {Failed}) = 0  BY <1>2 DEF Cnf, Normal
<1>6. removeDoubleNeg[And(ny, nz)] = And(ny, nz)  BY NegatedLiterals
<1>7. \A m : /\ Value(o, m) <=> Value(y, m) \/ Value(z, m)
             /\ Value(ny, m) <=> ~ Value(y, m)
             /\ Value(nz, m) <=> ~ Value(z, m)
  BY <1>2, LitMeaning, Values
<1>8. NamesIn(o) = NamesIn(y) \cup NamesIn(z)  BY <1>2, NodeRules DEF Or, Operators
<1>9. NamesIn(o) = NamesIn(ny) \cup NamesIn(nz)  BY <1>8, LitMeaning
<1>10. removeImplication[o] = Or(y, z) /\ removeDoubleNeg[And(Not(y), Not(z))] = And(ny, nz)
  BY <1>4, <1>6
<1> HIDE DEF o, ny, nz
<1>11. Stages(Iff(x, o))
  BY <1>1, <1>3, <1>4, <1>5, <1>7, <1>8, <1>9, <1>10, DisjunctionStages
<1>12. QED BY <1>11 DEF o

LEMMA ImpStages ==
  ASSUME 8 <= MaxHeight, NEW x \in Vars, NEW y \in Vars, NEW z \in Vars
  PROVE  Stages(Iff(x, Imp(y, z)))
<1> DEFINE o == Imp(y, z)  ny == Not(y)  nz == Not(z)
<1>1. y \in Lits /\ z \in Lits /\ ny \in Lits /\ nz \in Lits /\ y \in Trees /\ z \in Trees
      /\ ny \in Trees
  BY LitFacts
<1>2. o \in TreesUpTo[2] /\ o \in Trees /\ o.type_ = "implication"
  <2>1. y \in TreesUpTo[1] /\ z \in TreesUpTo[1]  BY Grown
  <2>2. o \in TreesUpTo[2]  BY <2>1, Grown
  <2>3. o \in Trees  BY <2>2, Grown
  <2>4. o.type_ = "implication"  BY OperatorFields
  <2>5. QED BY <2>2, <2>3, <2>4
<1>3. removeBiImplication[o] = o
  <2>1. removeBiImplication[o] = Tree("implication", removeBiImplication[y], removeBiImplication[z])
    BY <1>2, NodeRules DEF Imp, Operators
  <2>2. removeBiImplication[y] = y /\ removeBiImplication[z] = z
    BY <1>1, LitFacts
  <2>3. QED BY <2>1, <2>2 DEF Imp
<1>4. removeImplication[o] = Or(ny, z)
  <2>1. removeImplication[o] = Or(removeImplication[ny], removeImplication[z])
    BY <1>2, ImpRule
  <2>2. removeImplication[ny] = ny /\ removeImplication[z] = z
    BY <1>1, LitFacts
  <2>3. QED BY <2>1, <2>2
<1>5. Count(o, {Failed}) = 0
  <2>1. Count(y, {Failed}) = 0 /\ Count(z, {Failed}) = 0
    BY <1>1, LitFacts DEF Cnf, Normal
  <2>2. Count(o, {Failed}) = (IF o \in {Failed} THEN 1 ELSE 0)
                             + (Count(y, {Failed}) + Count(z, {Failed}))
    BY <1>2, NodeRules DEF Imp, Operators
  <2>3. o \notin {Failed}  BY <1>2, TreesFacts
  <2>4. QED BY <2>1, <2>2, <2>3
<1>6. removeDoubleNeg[And(Not(ny), nz)] = And(y, nz)  BY NegatedLiterals
<1>7. \A m : /\ Value(o, m) <=> Value(ny, m) \/ Value(z, m)
             /\ Value(y, m) <=> ~ Value(ny, m)
             /\ Value(nz, m) <=> ~ Value(z, m)
  <2> TAKE m
  <2>1. Value(ny, m) <=> ~ Value(y, m)  BY LitMeaning
  <2>2. Value(nz, m) <=> ~ Value(z, m)  BY LitMeaning
  <2>3. Value(o, m) <=> (Value(y, m) => Value(z, m))  BY <1>2, Values
  <2> HIDE DEF o, ny, nz
  <2>4. QED BY <2>1, <2>2, <2>3
<1>8. NamesIn(o) = NamesIn(y) \cup NamesIn(z)  BY <1>2, NodeRules DEF Imp, Operators
<1>9. NamesIn(o) = NamesIn(ny) \cup NamesIn(z) /\ NamesIn(o) = NamesIn(y) \cup NamesIn(nz)
  BY <1>8, LitMeaning
<1>10. nz = Not(z)  OBVIOUS
<1> HIDE DEF o, ny, nz
<1>11. Stages(Iff(x, o))
  BY <1>1, <1>2, <1>3, <1>4, <1>5, <1>6, <1>7, <1>9, <1>10, DisjunctionStages
<1>12. QED BY <1>11 DEF o

\* The definition of a bi-implication.
LEMMA IffStages ==
  ASSUME 8 <= MaxHeight, NEW x \in Vars, NEW y \in Vars, NEW z \in Vars
  PROVE  Stages(Iff(x, Iff(y, z)))
<1> DEFINE o == Iff(y, z)  i1 == Imp(y, z)  i2 == Imp(z, y)  p == And(i1, i2)
           nx == Not(x)  ny == Not(y)  nz == Not(z)
           q1 == Or(ny, z)  q2 == Or(nz, y)  q == And(q1, q2)
           r1 == And(y, nz)  r2 == And(z, ny)  r == Or(r1, r2)
           l1 == Or(nx, q1)  l2 == Or(nx, q2)  l == And(l1, l2)
           u1 == Or(y, z)  u2 == Or(y, ny)  u == And(u1, u2)  w1 == Or(nz, ny)
           w == And(u, w1)  s == Or(w, x)
           e1 == Or(u1, x)  e2 == Or(u2, x)  e3 == Or(w1, x)
           ea == And(e1, e2)  e == And(ea, e3)
           RBI == removeBiImplication
           RI == removeImplication
           RDN == removeDoubleNeg
           DM == applyDemorgan
           Dist == applyDistibutiveOrOverAnd
<1>1. /\ x \in Lits /\ y \in Lits /\ z \in Lits /\ nx \in Lits /\ ny \in Lits /\ nz \in Lits
      /\ 1 <= MaxHeight
  BY LitFacts, Grown
<1>2. /\ x \in Trees /\ y \in Trees /\ z \in Trees /\ nx \in Trees /\ ny \in Trees /\ nz \in Trees
      /\ x \in TreesUpTo[3] /\ x \in TreesUpTo[4] /\ x \in TreesUpTo[5] /\ nx \in TreesUpTo[4]
      /\ nx \in TreesUpTo[3]
  BY <1>1, LitFacts
<1>3. /\ o \in TreesUpTo[2] /\ i1 \in TreesUpTo[2] /\ i2 \in TreesUpTo[2]
      /\ p \in TreesUpTo[3]
  <2>1. y \in TreesUpTo[1] /\ z \in TreesUpTo[1]  BY Grown
  <2>2. /\ o \in TreesUpTo[2] /\ i1 \in TreesUpTo[2] /\ i2 \in TreesUpTo[2]
    BY <2>1, Grown
  <2>3. QED BY <2>2, Grown
<1>4. o \in Trees /\ i1 \in Trees /\ i2 \in Trees /\ p \in Trees  BY <1>3, Grown
<1>5. /\ q1 \in TreesUpTo[3] /\ q2 \in TreesUpTo[3] /\ r1 \in TreesUpTo[3] /\ r2 \in TreesUpTo[3]
      /\ u1 \in TreesUpTo[3] /\ u2 \in TreesUpTo[3] /\ w1 \in TreesUpTo[3]
      /\ q1 \in Trees /\ q2 \in Trees /\ r1 \in Trees /\ r2 \in Trees
      /\ u1 \in Trees /\ u2 \in Trees /\ w1 \in Trees
      /\ Not(q1) \in Trees /\ Not(q2) \in Trees
      /\ Cnf(q1) /\ Cnf(q2) /\ Cnf(r1) /\ Cnf(r2) /\ Cnf(u1) /\ Cnf(u2) /\ Cnf(w1)
  BY <1>1, LitFacts
<1>6. /\ q \in TreesUpTo[4] /\ r \in TreesUpTo[4] /\ l1 \in TreesUpTo[4] /\ l2 \in TreesUpTo[4]
      /\ u \in TreesUpTo[4] /\ w1 \in TreesUpTo[4]
      /\ e1 \in TreesUpTo[4] /\ e2 \in TreesUpTo[4] /\ e3 \in TreesUpTo[4]
      /\ Not(q1) \in TreesUpTo[4] /\ Not(q2) \in TreesUpTo[4]
      /\ Or(y, r2) \in TreesUpTo[4]
  BY <1>2, <1>5, Grown, LitFacts, <1>1
<1>7. /\ l \in TreesUpTo[5] /\ w \in TreesUpTo[5] /\ ea \in TreesUpTo[5] /\ e3 \in TreesUpTo[5]
      /\ Not(q) \in TreesUpTo[5] /\ Or(Not(q1), Not(q2)) \in TreesUpTo[5]
      /\ Or(nx, q) \in TreesUpTo[5] /\ Or(r, x) \in TreesUpTo[5] /\ Or(u, x) \in TreesUpTo[5]
      /\ Or(u, x) \in TreesUpTo[5]
  BY <1>2, <1>6, Grown
<1>8. /\ l \in TreesUpTo[6] /\ s \in TreesUpTo[6] /\ e \in TreesUpTo[6]
  BY <1>2, <1>7, Grown
<1>9. /\ q \in Trees /\ r \in Trees /\ l1 \in Trees /\ l2 \in Trees /\ l \in Trees
      /\ u \in Trees /\ w \in Trees /\ s \in Trees
      /\ e1 \in Trees /\ e2 \in Trees /\ e3 \in Trees /\ ea \in Trees /\ e \in Trees
      /\ Not(q) \in Trees /\ Or(Not(q1), Not(q2)) \in Trees
      /\ Or(nx, q) \in Trees /\ Or(r, x) \in Trees /\ Or(u, x) \in Trees
      /\ Or(y, r2) \in Trees
  BY <1>6, <1>7, <1>8, Grown
<1>10. /\ x.type_ = "var" /\ y.type_ = "var" /\ nx.type_ = "not"
       /\ \A a, b : /\ Or(a, b).type_ = "or" /\ Or(a, b).left_ = a /\ Or(a, b).right_ = b
                    /\ And(a, b).type_ = "and" /\ And(a, b).left_ = a /\ And(a, b).right_ = b
  <2>1. x.type_ = "var" /\ y.type_ = "var"  BY <1>1, VarFacts
  <2>2. nx.type_ = "not"  BY OperatorFields
  <2>3. ASSUME NEW a, NEW b
        PROVE  /\ Or(a, b).type_ = "or" /\ Or(a, b).left_ = a /\ Or(a, b).right_ = b
               /\ And(a, b).type_ = "and" /\ And(a, b).left_ = a /\ And(a, b).right_ = b
    BY OperatorFields
  <2>4. QED BY <2>1, <2>2, <2>3
<1>11. \A a : Not(a).type_ = "not" /\ Not(a).left_ = a
  <2> TAKE a
  <2>1. QED BY OperatorFields
<1>12. o.type_ = "bi_implication"  BY OperatorFields
<1>13. Cnf(x) /\ Cnf(nx)  BY <1>1, LitFacts
<1>14. Cnf(l) /\ Cnf(e) /\ Cnf(w) /\ Cnf(u)
  <2>1. q1.type_ = "or" /\ q2.type_ = "or" /\ u1.type_ = "or" /\ u2.type_ = "or"
        /\ w1.type_ = "or"
    BY <1>10
  <2>2. Cnf(l1) /\ Cnf(l2) /\ Cnf(e1) /\ Cnf(e2) /\ Cnf(e3)
    BY <1>1, <1>5, <1>9, <1>10, <1>13, <2>1, CnfRules
  <2>3. Cnf(l) /\ Cnf(ea) /\ Cnf(u)  BY <1>1, <1>5, <1>9, <2>2, CnfRules
  <2>4. QED BY <1>1, <1>5, <1>9, <2>2, <2>3, CnfRules
<1>15. Normal(q) /\ Normal(r) /\ Normal(s)
  BY <1>1, <1>5, <1>9, <1>13, <1>14, NormalRules DEF Cnf
<1>16. RBI[o] = p
  <2>1. RBI[o] = And(RBI[i1], RBI[i2])  BY <1>4, IffRule
  <2>2. /\ RBI[i1] = Tree("implication", RBI[y], RBI[z])
        /\ RBI[i2] = Tree("implication", RBI[z], RBI[y])
    BY <1>4, NodeRules DEF Imp, Operators
  <2>3. RBI[y] = y /\ RBI[z] = z  BY <1>1, LitFacts
  <2>4. RBI[i1] = i1 /\ RBI[i2] = i2  BY <2>2, <2>3 DEF Imp
  <2>5. QED BY <2>1, <2>4
<1>17. RI[p] = q
  <2>1. RI[p] = Tree("and", RI[i1], RI[i2])  BY <1>4, NodeRules DEF And, Operators
  <2>2. RI[i1] = Or(RI[ny], RI[z]) /\ RI[i2] = Or(RI[nz], RI[y])  BY <1>4, ImpRule
  <2>3. RI[y] = y /\ RI[z] = z /\ RI[ny] = ny /\ RI[nz] = nz  BY <1>1, LitFacts
  <2>4. QED BY <2>1, <2>2, <2>3 DEF And
<1>18. Count(p, {Failed}) = 0
  <2> DEFINE F == {Failed}
  <2>1. Count(p, F) = (IF p \in F THEN 1 ELSE 0) + (Count(i1, F) + Count(i2, F))
    BY <1>4, NodeRules DEF And, Operators
  <2>2. /\ Count(i1, F) = (IF i1 \in F THEN 1 ELSE 0) + (Count(y, F) + Count(z, F))
        /\ Count(i2, F) = (IF i2 \in F THEN 1 ELSE 0) + (Count(z, F) + Count(y, F))
    BY <1>4, NodeRules DEF Imp, Operators
  <2>3. Count(y, F) = 0 /\ Count(z, F) = 0  BY <1>1, LitFacts DEF Cnf, Normal
  <2>4. p \notin F
    <3>1. p.type_ = "and"  BY <1>10
    <3>2. QED BY <3>1, TreesFacts
  <2>5. i1 \notin F
    <3>1. i1.type_ = "implication"  BY OperatorFields
    <3>2. QED BY <3>1, TreesFacts
  <2>6. i2 \notin F
    <3>1. i2.type_ = "implication"  BY OperatorFields
    <3>2. QED BY <3>1, TreesFacts
  <2> HIDE DEF F, p, i1, i2
  <2>7. Count(p, F) = 0  BY <2>1, <2>2, <2>3, <2>4, <2>5, <2>6
  <2>8. QED BY <2>7 DEF F, p
<1>19. ASSUME NEW a \in Vars, NEW b \in Vars, Not(Or(Not(a), b)) \in Trees
       PROVE  DM[Not(Or(Not(a), b))] = And(a, Not(b))
  <2>1. RDN[And(Not(Not(a)), Not(b))] = And(a, Not(b))  BY NegatedLiterals
  <2>2. Tree(Dual("or"), Not(Not(a)), Not(b)) = And(Not(Not(a)), Not(b))  BY DEF Dual, And
  <2>3. Tree(Dual("or"), a, Not(b)) = And(a, Not(b))  BY DEF Dual, And
  <2>4. Not(Tree("or", Not(a), b)) \in Trees  BY <1>19 DEF Or
  <2>5. DM[Not(Tree("or", Not(a), b))] = Tree(Dual("or"), DM[a], DM[Not(b)])
    BY <2>1, <2>2, <2>3, <2>4, NotRule
  <2>6. a \in Lits /\ Not(b) \in Lits  BY LitFacts
  <2>7. DM[a] = a /\ DM[Not(b)] = Not(b)  BY <2>6, LitFacts DEF Cnf, Normal
  <2>8. QED BY <2>3, <2>5, <2>7 DEF Or
<1>20. DM[Not(q)] = r
  <2> DEFINE n1 == Not(q1)  n2 == Not(q2)
  <2>1. RDN[Or(n1, n2)] = Or(n1, n2)
    <3>1. n1.type_ = "not" /\ n1.left_ = q1 /\ q1.type_ = "or" /\ q2.type_ = "or"
      BY <1>10, <1>11
    <3>2. RDN[Or(n1, n2)] = Tree("or", RDN[n1], RDN[n2])
      BY <1>9, <3>1, NodeRules DEF Or, Operators
    <3>3. /\ RDN[n1] = Tree("not", RDN[q1], RDN[Null])
          /\ RDN[n2] = Tree("not", RDN[q2], RDN[Null])
      BY <1>5, <3>1, NodeRules DEF Not, Operators
    <3>4. RDN[q1] = q1 /\ RDN[q2] = q2  BY <1>5 DEF Cnf, Normal
    <3>5. RDN[Null] = Null  BY <1>1, LeafRules
    <3>6. RDN[n1] = n1 /\ RDN[n2] = n2  BY <3>3, <3>4, <3>5 DEF Not
    <3>7. QED BY <3>2, <3>6 DEF Or
  <2>2. DM[n1] = r1 /\ DM[n2] = r2  BY <1>5, <1>19
  <2>3. Tree(Dual("and"), n1, n2) = Or(n1, n2)  BY DEF Dual, Or
  <2>4. Not(Tree("and", q1, q2)) \in Trees  BY <1>9 DEF And
  <2> HIDE DEF n1, n2
  <2>5. RDN[Tree(Dual("and"), Not(q1), Not(q2))] = Tree(Dual("and"), n1, n2)
    BY <2>1, <2>3 DEF n1, n2
  <2>6. DM[Not(Tree("and", q1, q2))] = Tree(Dual("and"), DM[n1], DM[n2])
    BY <2>4, <2>5, NotRule
  <2>7. Tree(Dual("and"), r1, r2) = r  BY DEF Dual, Or
  <2>8. QED BY <2>2, <2>6, <2>7 DEF And
<1>21. Dist[Or(nx, q)] = l
  <2>1. Dist[Or(nx, q)] = And(Dist[Or(nx, q.left_)], Dist[Or(nx, q.right_)])
    BY <1>9, <1>10, OrRule
  <2>2. Dist[l1] = l1 /\ Dist[l2] = l2
    <3>1. q1.type_ = "or" /\ q2.type_ = "or"  BY <1>10
    <3>2. Cnf(l1) /\ Cnf(l2)  BY <1>1, <1>5, <1>9, <1>10, <1>13, <3>1, CnfRules
    <3>3. QED BY <3>2 DEF Cnf, Flat
  <2>3. QED BY <1>10, <2>1, <2>2
<1>22. Dist[Or(r, x)] = s
  <2>1. Dist[Or(r, x)] = Tree("or", Dist[r], Dist[x])
    <3>1. ~ ("and" \in {r.type_, x.type_})  BY <1>10
    <3>2. QED BY <1>9, <3>1, NodeRules DEF Or, Operators
  <2>2. Dist[r] = And(Dist[Or(r1.left_, r2)], Dist[Or(r1.right_, r2.right_)])
    BY <1>9, <1>10, OrRule
  <2>3. Dist[Or(y, r2)] = And(Dist[Or(y, r2.left_)], Dist[Or(y, r2.right_)])
    BY <1>9, <1>10, OrRule
  <2>4. Dist[u1] = u1 /\ Dist[u2] = u2 /\ Dist[w1] = w1 /\ Dist[x] = x
    BY <1>5, <1>13 DEF Cnf, Flat
  <2>5. Dist[Or(y, r2)] = u  BY <1>10, <2>3, <2>4
  <2>6. Dist[r] = w  BY <1>10, <2>2, <2>4, <2>5
  <2>7. QED BY <2>1, <2>4, <2>6 DEF Or
<1>23. Dist[s] = e
  <2>1. Dist[s] = And(Dist[Or(w.left_, x)], Dist[Or(w.right_, x)])
    BY <1>9, <1>10, OrRule
  <2>2. Dist[Or(u, x)] = And(Dist[Or(u.left_, x)], Dist[Or(u.right_, x)])
    BY <1>9, <1>10, OrRule
  <2>3. Dist[e1] = e1 /\ Dist[e2] = e2 /\ Dist[e3] = e3
    <3>1. u1.type_ = "or" /\ u2.type_ = "or" /\ w1.type_ = "or"  BY <1>10
    <3>2. Cnf(e1) /\ Cnf(e2) /\ Cnf(e3)
      BY <1>1, <1>5, <1>9, <1>10, <1>13, <3>1, CnfRules
    <3>3. QED BY <3>2 DEF Cnf, Flat
  <2>4. Dist[Or(u, x)] = ea  BY <1>10, <2>2, <2>3
  <2>5. QED BY <1>10, <2>1, <2>3, <2>4
<1>24. countDistributiveOrOverAnd(s) > 0
  <2> DEFINE D == Distributables
  <2>1. s \in D  BY <1>9, <1>10 DEF Distributables, OfType
  <2>2. Count(s, D) = (IF s \in D THEN 1 ELSE 0) + (Count(w, D) + Count(x, D))
    BY <1>9, NodeRules DEF Or, Operators
  <2>3. Count(w, D) \in Nat /\ Count(x, D) \in Nat  BY <1>2, <1>9, CountFacts
  <2> HIDE DEF D, s, w
  <2>4. Count(s, D) > 0  BY <2>1, <2>2, <2>3
  <2>5. QED BY <2>4 DEF countDistributiveOrOverAnd, D
<1>25. ASSUME NEW m
       PROVE  /\ Value(p, m) <=> Value(o, m)
              /\ Value(q, m) <=> Value(o, m)
              /\ Value(r, m) <=> ~ Value(o, m)
              /\ Value(l, m) <=> (Value(x, m) => Value(o, m))
              /\ Value(s, m) <=> (Value(o, m) => Value(x, m))
              /\ Value(e, m) <=> (Value(o, m) => Value(x, m))
  <2> DEFINE X == Value(x, m)  Y == Value(y, m)  Z == Value(z, m)
  <2>1. /\ Value(o, m) <=> (Y <=> Z)
        /\ Value(i1, m) <=> (Y => Z)
        /\ Value(i2, m) <=> (Z => Y)
        /\ Value(p, m) <=> Value(i1, m) /\ Value(i2, m)
    BY <1>4, Values
  <2>2. /\ Value(nx, m) <=> ~ X
        /\ Value(ny, m) <=> ~ Y
        /\ Value(nz, m) <=> ~ Z
    BY <1>2, Values
  <2>3. /\ Value(q1, m) <=> Value(ny, m) \/ Z
        /\ Value(q2, m) <=> Value(nz, m) \/ Y
        /\ Value(q, m) <=> Value(q1, m) /\ Value(q2, m)
    BY <1>5, <1>9, Values
  <2>4. /\ Value(r1, m) <=> Y /\ Value(nz, m)
        /\ Value(r2, m) <=> Z /\ Value(ny, m)
        /\ Value(r, m) <=> Value(r1, m) \/ Value(r2, m)
    BY <1>5, <1>9, Values
  <2>5. /\ Value(l1, m) <=> Value(nx, m) \/ Value(q1, m)
        /\ Value(l2, m) <=> Value(nx, m) \/ Value(q2, m)
        /\ Value(l, m) <=> Value(l1, m) /\ Value(l2, m)
    BY <1>9, Values
  <2>6. /\ Value(u1, m) <=> Y \/ Z
        /\ Value(u2, m) <=> Y \/ Value(ny, m)
        /\ Value(u, m) <=> Value(u1, m) /\ Value(u2, m)
        /\ Value(w1, m) <=> Value(nz, m) \/ Value(ny, m)
        /\ Value(w, m) <=> Value(u, m) /\ Value(w1, m)
        /\ Value(s, m) <=> Value(w, m) \/ X
    BY <1>5, <1>9, Values
  <2>7. /\ Value(e1, m) <=> Value(u1, m) \/ X
        /\ Value(e2, m) <=> Value(u2, m) \/ X
        /\ Value(e3, m) <=> Value(w1, m) \/ X
        /\ Value(ea, m) <=> Value(e1, m) /\ Value(e2, m)
        /\ Value(e, m) <=> Value(ea, m) /\ Value(e3, m)
    BY <1>9, Values
  <2> HIDE DEF X, Y, Z, o, i1, i2, p, nx, ny, nz, q1, q2, q, r1, r2, r, l1, l2, l,
               u1, u2, u, w1, w, s, e1, e2, e3, ea, e
  <2>8. Value(p, m) <=> Value(o, m)  BY <2>1
  <2>9. Value(q, m) <=> Value(o, m)  BY <2>1, <2>2, <2>3
  <2>10. Value(r, m) <=> ~ Value(o, m)  BY <2>1, <2>2, <2>4
  <2>11. Value(l, m) <=> (X => Value(o, m))  BY <2>1, <2>2, <2>3, <2>5
  <2>12. Value(s, m) <=> (Value(o, m) => X)  BY <2>1, <2>2, <2>6
  <2>13. Value(e, m) <=> (Value(o, m) => X)  BY <2>1, <2>2, <2>6, <2>7
  <2>14. QED BY <2>8, <2>9, <2>10, <2>11, <2>12, <2>13 DEF X
<1>26. NamesIn(l) \cup NamesIn(e) = NamesIn(x) \cup NamesIn(o)
  <2> DEFINE X == NamesIn(x)  Y == NamesIn(y)  Z == NamesIn(z)
  <2>1. NamesIn(nx) = X /\ NamesIn(ny) = Y /\ NamesIn(nz) = Z  BY LitMeaning
  <2>2. NamesIn(o) = Y \cup Z  BY <1>4, NodeRules DEF Iff, Operators
  <2>3. /\ NamesIn(q1) = NamesIn(ny) \cup Z
        /\ NamesIn(q2) = NamesIn(nz) \cup Y
        /\ NamesIn(l1) = NamesIn(nx) \cup NamesIn(q1)
        /\ NamesIn(l2) = NamesIn(nx) \cup NamesIn(q2)
    BY <1>5, <1>9, NodeRules DEF Or, Operators
  <2>4. NamesIn(l) = NamesIn(l1) \cup NamesIn(l2)  BY <1>9, NodeRules DEF And, Operators
  <2>5. /\ NamesIn(u1) = Y \cup Z
        /\ NamesIn(u2) = Y \cup NamesIn(ny)
        /\ NamesIn(w1) = NamesIn(nz) \cup NamesIn(ny)
        /\ NamesIn(e1) = NamesIn(u1) \cup X
        /\ NamesIn(e2) = NamesIn(u2) \cup X
        /\ NamesIn(e3) = NamesIn(w1) \cup X
    BY <1>5, <1>9, NodeRules DEF Or, Operators
  <2>6. /\ NamesIn(ea) = NamesIn(e1) \cup NamesIn(e2)
        /\ NamesIn(e) = NamesIn(ea) \cup NamesIn(e3)
    BY <1>9, NodeRules DEF And, Operators
  <2> HIDE DEF X, Y, Z, o, nx, ny, nz, q1, q2, l1, l2, l, u1, u2, w1, e1, e2, e3, ea, e
  <2>7. NamesIn(l) = X \cup Y \cup Z  BY <2>1, <2>3, <2>4
  <2>8. NamesIn(e) = X \cup Y \cup Z  BY <2>1, <2>5, <2>6
  <2>9. QED BY <2>2, <2>7, <2>8 DEF X
<1>27. q.type_ = "and" /\ nx = Not(x)  BY <1>10
<1>28. o = Iff(y, z)  OBVIOUS
<1> HIDE DEF o, p, nx, q, r, l, s, e
<1>29. Rewriting(x, o, p, q, r, l, s, e)
  BY <1>3, <1>6, <1>8, <1>12, <1>14, <1>15, <1>16, <1>17, <1>18, <1>20, <1>21, <1>22, <1>23,
     <1>24, <1>25, <1>26, <1>27
     DEF Rewriting, Operators
<1>30. QED BY <1>28, <1>29, RewritingStages

-----------------------------------------------------------------------------
(* Formulas and the names of their operators.                              *)

\* The definition of a variable as an operator applied to variables.
IsDefinition(d) ==
  \E x, y \in Vars :
    \/ d = Iff(x, Not(y))
    \/ \E z \in Vars : d \in {Iff(x, And(y, z)), Iff(x, Or(y, z)), Iff(x, Imp(y, z)),
                              Iff(x, Iff(y, z))}

LEMMA DefinitionStages ==
  ASSUME 8 <= MaxHeight, NEW d, IsDefinition(d)
  PROVE  Stages(d)
<1>1. PICK x \in Vars, y \in Vars :
        \/ d = Iff(x, Not(y))
        \/ \E z \in Vars : d \in {Iff(x, And(y, z)), Iff(x, Or(y, z)), Iff(x, Imp(y, z)),
                                  Iff(x, Iff(y, z))}
  BY DEF IsDefinition
<1>2. CASE d = Iff(x, Not(y))  BY <1>2, NotStages
<1>3. ASSUME NEW z \in Vars,
             d \in {Iff(x, And(y, z)), Iff(x, Or(y, z)), Iff(x, Imp(y, z)),
                    Iff(x, Iff(y, z))}
      PROVE  Stages(d)
  <2>1. CASE d = Iff(x, And(y, z))  BY <2>1, AndStages
  <2>2. CASE d = Iff(x, Or(y, z))  BY <2>2, OrStages
  <2>3. CASE d = Iff(x, Imp(y, z))  BY <2>3, ImpStages
  <2>4. CASE d = Iff(x, Iff(y, z))  BY <2>4, IffStages
  <2>5. QED BY <1>3, <2>1, <2>2, <2>3, <2>4
<1>4. QED BY <1>1, <1>2, <1>3

\* A formula's children are formulas, or missing.
Formulas == {t \in Trees : IsFormula(t)}

LEMMA FormulaFacts ==
  /\ \A t \in Formulas :
       /\ t \in Trees \ Leaf
       /\ t.type_ = "var" => t.left_ = Null /\ t.right_ = Null
       /\ t.type_ # "var" => t.type_ \in Operators /\ t.left_ \in Formulas
       /\ t.type_ = "not" => t.right_ = Null
       /\ t.type_ \notin {"var", "not"} => t.right_ \in Formulas
  /\ \A t \in Trees \ Leaf :
       /\ t.left_ = Null <=> t.type_ = "var"
       /\ t.right_ = Null <=> t.type_ \in {"var", "not"}
       /\ t.left_ \in Formulas \cup {Null} /\ t.right_ \in Formulas \cup {Null}
       => t \in Formulas
<1> DEFINE S == Trees \ {Null}
           Good(s) == /\ s # Failed
                      /\ s.left_ = Null <=> s.type_ = "var"
                      /\ s.right_ = Null <=> s.type_ \in {"var", "not"}
<1>1. ASSUME NEW t \in Trees
      PROVE  t \in Formulas <=> t # Null /\ \A s \in NodeSet(t, S) : Good(s)
  <2>1. t \in Formulas <=> IsFormula(t)  BY DEF Formulas
  <2>2. IsFormula(t) <=> t # Null /\ \A k \in DOMAIN Nodes(t, S) : Good(Nodes(t, S)[k])
    BY DEF IsFormula
  <2> HIDE DEF S, Good
  <2>3. (\A k \in DOMAIN Nodes(t, S) : Good(Nodes(t, S)[k]))
          <=> \A s \in NodeSet(t, S) : Good(s)
    BY DEF NodeSet, Entries
  <2>4. QED BY <2>1, <2>2, <2>3
<1>2. NodeSet(Null, S) = {} /\ Failed \notin Formulas /\ Null \notin Formulas
  <2>1. NodeSet(Null, S) = {Null} \cap S /\ NodeSet(Failed, S) = {Failed} \cap S
    BY NodeSetFacts DEF Leaf
  <2>2. Failed \in NodeSet(Failed, S)  BY <2>1, TreesFacts
  <2>3. QED BY <1>1, <2>1, <2>2, TreesFacts
<1>3. ASSUME NEW t \in Trees \ Leaf
      PROVE  t \in Formulas <=>
               /\ Good(t)
               /\ \A s \in NodeSet(t.left_, S) \cup NodeSet(t.right_, S) : Good(s)
  <2>1. NodeSet(t, S) = ({t} \cap S) \cup (NodeSet(t.left_, S) \cup NodeSet(t.right_, S))
    BY NodeSetFacts
  <2>2. t \in S  BY DEF Leaf
  <2> HIDE DEF S, Good
  <2>3. QED BY <1>1, <2>1, <2>2 DEF Leaf
<1>4. ASSUME NEW t \in Formulas
      PROVE  /\ t \in Trees \ Leaf
             /\ t.type_ = "var" => t.left_ = Null /\ t.right_ = Null
             /\ t.type_ # "var" => t.type_ \in Operators /\ t.left_ \in Formulas
             /\ t.type_ = "not" => t.right_ = Null
             /\ t.type_ \notin {"var", "not"} => t.right_ \in Formulas
  <2>1. t \in Trees /\ t \notin Leaf  BY <1>2 DEF Formulas, Leaf
  <2>2. t.type_ \in Node /\ t.left_ \in Trees /\ t.right_ \in Trees  BY <2>1, TreesFacts
  <2>3. Good(t) /\ \A s \in NodeSet(t.left_, S) \cup NodeSet(t.right_, S) : Good(s)
    BY <1>3, <2>1
  <2>4. t.left_ # Null => t.left_ \in Formulas
    <3> HIDE DEF S, Good
    <3>1. QED BY <1>1, <2>2, <2>3
  <2>5. t.right_ # Null => t.right_ \in Formulas
    <3> HIDE DEF S, Good
    <3>1. QED BY <1>1, <2>2, <2>3
  <2>6. Good(t)  BY <2>3
  <2>7. QED BY <2>1, <2>2, <2>4, <2>5, <2>6 DEF Node
<1>5. ASSUME NEW t \in Trees \ Leaf,
             t.left_ = Null <=> t.type_ = "var",
             t.right_ = Null <=> t.type_ \in {"var", "not"},
             t.left_ \in Formulas \cup {Null}, t.right_ \in Formulas \cup {Null}
      PROVE  t \in Formulas
  <2>1. Good(t)  BY <1>5 DEF Leaf
  <2>2. ASSUME NEW u \in Formulas \cup {Null} PROVE \A s \in NodeSet(u, S) : Good(s)
    <3>1. CASE u = Null  BY <1>2, <3>1
    <3>2. CASE u \in Formulas
      <4>1. u \in Trees  BY <3>2 DEF Formulas
      <4> HIDE DEF S, Good
      <4>2. QED BY <1>1, <3>2, <4>1
    <3>3. QED BY <3>1, <3>2
  <2> HIDE DEF S, Good
  <2>3. QED BY <1>3, <1>5, <2>1, <2>2
<1>6. QED BY <1>4, <1>5

\* What setNamesToOpNode makes of a tree.
LEMMA NamingFacts ==
  /\ \A t \in Trees, n \in Nat : ~ IsOp(t) => setNamesToOpNode(t, n) = t
  /\ \A t \in Trees, n \in Nat : IsOp(t) =>
       setNamesToOpNode(t, n) =
         [type_ |-> t.type_, var_name_ |-> Fresh(n + 1),
          left_ |-> setNamesToOpNode(t.left_, n + 1),
          right_ |-> setNamesToOpNode(t.right_, n + 1 + Len(OpNodes(t.left_)))]
  /\ \A k \in 0..MaxHeight, n \in Nat : \A t \in TreesUpTo[k] :
       setNamesToOpNode(t, n) \in TreesUpTo[k]
<1> DEFINE Set(s, a, b) ==
             [varId \in Nat |->
                IF ~ IsOp(s) THEN s
                ELSE [s EXCEPT !.var_name_ = Fresh(varId + 1),
                               !.left_ = a[varId + 1],
                               !.right_ = b[varId + 1 + Len(OpNodes(s.left_))]]]
           Val(x, u, v, m) ==
             IF ~ IsOp(x) THEN x
             ELSE [type_ |-> x.type_, var_name_ |-> Fresh(m + 1),
                   left_ |-> u[m + 1], right_ |-> v[m + 1 + Len(OpNodes(x.left_))]]
           Eq(f, s) == Set(s, f[s.left_], f[s.right_])
           V == CHOOSE f : f = [s \in Trees |-> Eq(f, s)]
           Q == [Nat -> Trees]
           R == [k \in 0..MaxHeight |-> [Nat -> TreesUpTo[k]]]
           leaf == [s \in Leaf |-> [n \in Nat |-> s]]
           step == [s \in Trees |-> [a \in Q |-> [b \in Q |-> Set(s, a, b)]]]
<1>1. \A s \in Leaf : ~ IsOp(s)  BY TreesFacts DEF Leaf, IsOp, Operators
<1>2. \A n \in Nat : n + 1 \in Nat /\ Fresh(n + 1) \in Names
  BY DEF Fresh, Names, Letters
<1>3. ASSUME NEW s \in Trees PROVE Len(OpNodes(s)) \in Nat
  <2>1. OpNodes(s) \in Seq({t \in Trees : IsOp(t)})  BY NodesFacts DEF OpNodes
  <2>2. QED BY <2>1
<1>4. ASSUME NEW s \in Trees \ Leaf, NEW a, NEW b, NEW n \in Nat
      PROVE  Set(s, a, b)[n] = Val(s, a, b, n)
  <2>1. s = [type_ |-> s.type_, var_name_ |-> s.var_name_, left_ |-> s.left_,
             right_ |-> s.right_]
    BY TreesFacts
  <2> DEFINE c == a[n + 1]  d == b[n + 1 + Len(OpNodes(s.left_))]  name == Fresh(n + 1)
  <2>2. Set(s, a, b)[n] = IF ~ IsOp(s) THEN s
                          ELSE [s EXCEPT !.var_name_ = name, !.left_ = c, !.right_ = d]
    OBVIOUS
  <2> HIDE DEF c, d, name, Set
  <2> DEFINE ty == s.type_  l == s.left_  r == s.right_  v == s.var_name_
  <2>3. s = [type_ |-> ty, var_name_ |-> v, left_ |-> l, right_ |-> r]  BY <2>1
  <2> HIDE DEF ty, l, r, v
  <2> DEFINE s1 == [s EXCEPT !.var_name_ = name]
             s2 == [s1 EXCEPT !.left_ = c]
             s3 == [s2 EXCEPT !.right_ = d]
  <2>6. s1 = [type_ |-> ty, var_name_ |-> name, left_ |-> l, right_ |-> r]  BY <2>3
  <2>7. [s EXCEPT !.var_name_ = name, !.left_ = c, !.right_ = d] = s3  OBVIOUS
  <2> HIDE DEF s1
  <2>8. s2 = [type_ |-> ty, var_name_ |-> name, left_ |-> c, right_ |-> r]  BY <2>6
  <2> HIDE DEF s2
  <2>9. s3 = [type_ |-> ty, var_name_ |-> name, left_ |-> c, right_ |-> d]  BY <2>8
  <2> HIDE DEF s3
  <2>4. [s EXCEPT !.var_name_ = name, !.left_ = c, !.right_ = d]
          = [type_ |-> ty, var_name_ |-> name, left_ |-> c, right_ |-> d]
    BY <2>7, <2>9
  <2>5. QED BY <2>2, <2>4 DEF c, d, name, ty
<1>5. ASSUME NEW k \in 1..MaxHeight, NEW s \in TreesUpTo[k], s \notin Leaf,
             NEW a \in [Nat -> TreesUpTo[k - 1]], NEW b \in [Nat -> TreesUpTo[k - 1]]
      PROVE  Set(s, a, b) \in [Nat -> TreesUpTo[k]]
  <2>1. k \in 0..MaxHeight /\ k - 1 \in 0..MaxHeight /\ (k - 1) + 1 = k /\ k <= MaxHeight
    BY Levels
  <2>2. s \in Trees \ Leaf /\ s.type_ \in Node /\ s.left_ \in Trees
    BY <1>5, <2>1, TreesFacts
  <2>3. ASSUME NEW n \in Nat PROVE Set(s, a, b)[n] \in TreesUpTo[k]
    <3> DEFINE j == n + 1 + Len(OpNodes(s.left_))
    <3>1. n + 1 \in Nat /\ j \in Nat  BY <1>3, <2>2
    <3> HIDE DEF j, Set
    <3>2. a[n + 1] \in TreesUpTo[k - 1] /\ b[j] \in TreesUpTo[k - 1]  BY <3>1
    <3>3. [type_ |-> s.type_, var_name_ |-> Fresh(n + 1), left_ |-> a[n + 1],
           right_ |-> b[j]] \in TreesUpTo[(k - 1) + 1]
      BY <1>2, <2>1, <2>2, <3>2, NodeIn
    <3>4. Set(s, a, b)[n] = IF ~ IsOp(s) THEN s
               ELSE [type_ |-> s.type_, var_name_ |-> Fresh(n + 1), left_ |-> a[n + 1],
                     right_ |-> b[j]]
      <4>1. s \in Trees \ Leaf  BY <2>2
      <4>3. Val(s, a, b, n) = IF ~ IsOp(s) THEN s
               ELSE [type_ |-> s.type_, var_name_ |-> Fresh(n + 1), left_ |-> a[n + 1],
                     right_ |-> b[j]]
        BY DEF j
      <4> HIDE DEF Val
      <4>4. QED BY <1>4, <4>1, <4>3
    <3>5. QED BY <2>1, <3>3, <3>4
  <2>4. Set(s, a, b) = [n \in Nat |-> Set(s, a, b)[n]]  OBVIOUS
  <2> HIDE DEF Set
  <2>5. QED BY <2>3, <2>4
<1>6. ASSUME NEW s \in Leaf, NEW a, NEW b PROVE Set(s, a, b) = [n \in Nat |-> s]
  BY <1>1
<1> HIDE DEF Set
<1>7. FoldData(R, leaf, step)
  <2>1. \A k \in 0..MaxHeight : \A s \in Leaf : leaf[s] \in R[k]
    <3> SUFFICES ASSUME NEW k \in 0..MaxHeight, NEW s \in Leaf PROVE leaf[s] \in R[k]
      OBVIOUS
    <3>1. s \in TreesUpTo[k]  BY LevelsGrow
    <3>2. QED BY <3>1
  <2>2. ASSUME NEW k \in 1..MaxHeight, NEW s \in TreesUpTo[k], s \notin Leaf,
               NEW a \in R[k - 1], NEW b \in R[k - 1]
        PROVE  step[s][a][b] \in R[k]
    <3>1. k \in 0..MaxHeight /\ k - 1 \in 0..MaxHeight  BY Levels
    <3>2. s \in Trees /\ TreesUpTo[k - 1] \subseteq Trees  BY <3>1, TreesFacts
    <3>3. a \in [Nat -> TreesUpTo[k - 1]] /\ b \in [Nat -> TreesUpTo[k - 1]]  BY <3>1
    <3>4. a \in Q /\ b \in Q  BY <3>2, <3>3
    <3>5. step[s][a][b] = Set(s, a, b)  BY <3>2, <3>4
    <3>6. Set(s, a, b) \in [Nat -> TreesUpTo[k]]  BY <1>5, <2>2, <3>3
    <3>7. QED BY <3>1, <3>5, <3>6
  <2> HIDE DEF R, leaf, step
  <2>3. QED BY <2>1, <2>2 DEF FoldData
<1>8. PICK f : IsFold(f, R, leaf, step)
  <2> HIDE DEF R, leaf, step
  <2>1. QED BY <1>7, FoldExists
<1>9. \A k \in 0..MaxHeight : \A s \in TreesUpTo[k] : f[s] \in [Nat -> TreesUpTo[k]]
  <2>1. \A k \in 0..MaxHeight : \A s \in TreesUpTo[k] : f[s] \in R[k]
    <3> HIDE DEF R, leaf, step
    <3>1. QED BY <1>8 DEF IsFold
  <2>2. QED BY <2>1
<1>10. \A s \in Trees : f[s] \in Q
  <2>1. MaxHeight \in 0..MaxHeight  BY Levels
  <2>2. QED BY <1>9, <2>1 DEF Trees
<1>11. f = [s \in Trees |-> Eq(f, s)]
  <2>1. \A s \in Trees : f[s] = Eq(f, s)
    <3> SUFFICES ASSUME NEW s \in Trees PROVE f[s] = Eq(f, s)  OBVIOUS
    <3>1. CASE s \in Leaf
      <4>1. f[s] = [n \in Nat |-> s]  BY <1>8, <3>1 DEF IsFold
      <4>2. QED BY <1>6, <3>1, <4>1
    <3>2. CASE s \notin Leaf
      <4>1. s.left_ \in Trees /\ s.right_ \in Trees  BY <3>2, TreesFacts
      <4>2. f[s] = step[s][f[s.left_]][f[s.right_]]
        <5> HIDE DEF step, leaf, R
        <5>1. QED BY <1>8, <3>2 DEF IsFold
      <4>3. f[s.left_] \in Q /\ f[s.right_] \in Q  BY <1>10, <4>1
      <4> HIDE DEF Q
      <4>4. QED BY <4>1, <4>2, <4>3
    <3>3. QED BY <3>1, <3>2
  <2>2. f = [s \in Trees |-> f[s]]  BY <1>8 DEF IsFold
  <2> HIDE DEF Eq
  <2>3. QED BY <2>1, <2>2
<1> HIDE DEF Eq
<1>12. V = [s \in Trees |-> Eq(V, s)]  BY <1>11
<1>13. ASSUME NEW x, NEW n PROVE setNamesToOpNode(x, n) = V[x][n]
  BY DEF setNamesToOpNode, V, Eq, Set
<1> HIDE DEF V
<1>14. ASSUME NEW x \in Trees \ Leaf, NEW n \in Nat
       PROVE  setNamesToOpNode(x, n) =
                IF ~ IsOp(x) THEN x
                ELSE [type_ |-> x.type_, var_name_ |-> Fresh(n + 1),
                      left_ |-> setNamesToOpNode(x.left_, n + 1),
                      right_ |-> setNamesToOpNode(x.right_, n + 1 + Len(OpNodes(x.left_)))]
  <2>1. V[x] = Set(x, V[x.left_], V[x.right_])  BY <1>12 DEF Eq
  <2>2. setNamesToOpNode(x, n) = Set(x, V[x.left_], V[x.right_])[n]  BY <1>13, <2>1
  <2> DEFINE a == V[x.left_]  b == V[x.right_]
  <2>3. a[n + 1] = setNamesToOpNode(x.left_, n + 1)
        /\ b[n + 1 + Len(OpNodes(x.left_))]
             = setNamesToOpNode(x.right_, n + 1 + Len(OpNodes(x.left_)))
    BY <1>13
  <2>4. setNamesToOpNode(x, n) = Set(x, a, b)[n]  BY <2>2
  <2> HIDE DEF a, b
  <2>5. Set(x, a, b)[n] = Val(x, a, b, n)
    <3> HIDE DEF Val
    <3>1. QED BY <1>4
  <2>6. QED BY <2>3, <2>4, <2>5
<1>15. ASSUME NEW x \in Leaf, NEW n \in Nat PROVE setNamesToOpNode(x, n) = x
  <2>1. x \in Trees  BY TreesFacts DEF Leaf
  <2>2. V[x] = Set(x, V[x.left_], V[x.right_])  BY <1>12, <2>1 DEF Eq
  <2>3. V[x] = [k \in Nat |-> x]  BY <1>6, <2>2
  <2>4. QED BY <1>13, <2>3
<1>16. \A k \in 0..MaxHeight, n \in Nat : \A t \in TreesUpTo[k] :
         setNamesToOpNode(t, n) \in TreesUpTo[k]
  <2> DEFINE N(t, n) == setNamesToOpNode(t, n)
             G == {k \in Nat : k <= MaxHeight =>
                     \A n \in Nat : \A t \in TreesUpTo[k] : N(t, n) \in TreesUpTo[k]}
  <2>1. \A t \in Leaf, n \in Nat : N(t, n) = t  BY <1>15
  <2>2. \A t \in Trees \ Leaf, n \in Nat :
          N(t, n) = IF ~ IsOp(t) THEN t
                    ELSE [type_ |-> t.type_, var_name_ |-> Fresh(n + 1),
                          left_ |-> N(t.left_, n + 1),
                          right_ |-> N(t.right_, n + 1 + Len(OpNodes(t.left_)))]
    BY <1>14
  <2> HIDE DEF N
  <2>3. 0 \in G  BY <2>1, Levels
  <2>4. ASSUME NEW k \in Nat, k \in G PROVE k + 1 \in G
    <3> SUFFICES ASSUME k + 1 <= MaxHeight, NEW n \in Nat, NEW t \in TreesUpTo[k + 1]
                 PROVE  N(t, n) \in TreesUpTo[k + 1]
      OBVIOUS
    <3>1. /\ k \in 0..MaxHeight /\ k + 1 \in 0..MaxHeight /\ k + 1 \in 1..MaxHeight
          /\ (k + 1) - 1 = k
      BY Levels
    <3>2. CASE t \in Leaf  BY <2>1, <3>2
    <3>3. CASE t \notin Leaf
      <4>1. t \in Trees \ Leaf /\ t.type_ \in Node /\ t.left_ \in TreesUpTo[k]
            /\ t.right_ \in TreesUpTo[k]
        BY <3>1, <3>3, NodeFields, TreesFacts
      <4>2. t.left_ \in Trees  BY <4>1, TreesFacts
      <4> DEFINE j == n + 1 + Len(OpNodes(t.left_))
      <4>3. n + 1 \in Nat /\ j \in Nat  BY <1>3, <4>2
      <4> HIDE DEF j
      <4>4. N(t.left_, n + 1) \in TreesUpTo[k] /\ N(t.right_, j) \in TreesUpTo[k]
        BY <2>4, <3>1, <4>1, <4>3
      <4>5. [type_ |-> t.type_, var_name_ |-> Fresh(n + 1), left_ |-> N(t.left_, n + 1),
             right_ |-> N(t.right_, j)] \in TreesUpTo[k + 1]
        BY <1>2, <3>1, <4>1, <4>4, NodeIn
      <4>6. QED BY <2>2, <4>1, <4>5 DEF j
    <3>4. QED BY <3>2, <3>3
  <2>5. Nat \subseteq G
    <3> HIDE DEF G
    <3>1. QED BY <2>3, <2>4, SetInduction
  <2>6. \A k \in 0..MaxHeight : k \in G /\ k <= MaxHeight  BY <2>5, Levels
  <2>7. QED BY <2>6 DEF N
<1>17. ASSUME NEW t \in Trees, NEW n \in Nat, ~ IsOp(t) PROVE setNamesToOpNode(t, n) = t
  BY <1>14, <1>15, <1>17
<1>18. ASSUME NEW t \in Trees, NEW n \in Nat, IsOp(t)
       PROVE  setNamesToOpNode(t, n) =
                [type_ |-> t.type_, var_name_ |-> Fresh(n + 1),
                 left_ |-> setNamesToOpNode(t.left_, n + 1),
                 right_ |-> setNamesToOpNode(t.right_, n + 1 + Len(OpNodes(t.left_)))]
  <2>1. t \notin Leaf  BY <1>1, <1>18
  <2>2. QED BY <1>14, <1>18, <2>1
<1>19. QED BY <1>16, <1>17, <1>18

\* What holds of a formula when it holds of its children holds of every formula.
LEMMA FormulaInduction ==
  ASSUME NEW S, Null \in S,
         \A t \in Formulas : t.left_ \in S /\ t.right_ \in S => t \in S
  PROVE  Formulas \subseteq S
<1> DEFINE R == {t \in Trees : t \in Formulas => t \in S}
<1>1. Null \notin Formulas /\ Failed \notin Formulas  BY FormulaFacts DEF Leaf
<1>2. Leaf \subseteq R  BY <1>1, TreesFacts DEF Leaf
<1>3. ASSUME NEW t \in Trees \ Leaf, t.left_ \in R /\ t.right_ \in R PROVE t \in R
  <2> SUFFICES ASSUME t \in Formulas PROVE t \in S  OBVIOUS
  <2>1. t.left_ \in Formulas \cup {Null} /\ t.right_ \in Formulas \cup {Null}
    BY FormulaFacts DEF Operators
  <2>2. t.left_ \in S /\ t.right_ \in S  BY <1>3, <2>1
  <2>3. QED BY <2>2
<1>4. Trees \subseteq R
  <2> HIDE DEF R
  <2>1. QED BY <1>2, <1>3, TreeInduction
<1>5. QED BY <1>4 DEF Formulas

\* The operator nodes of a formula.
Ops == {s \in Trees : IsOp(s)}

LEMMA OperatorNodes ==
  /\ \A t \in Trees : OpNodes(t) \in Seq(Trees) /\ Len(OpNodes(t)) \in Nat
  /\ OpNodes(Null) = << >>
  /\ \A t \in Formulas : t.type_ = "var" => OpNodes(t) = << >> /\ ~ IsOp(t)
  /\ \A t \in Formulas : t.type_ # "var" =>
       /\ IsOp(t)
       /\ OpNodes(t) = <<t>> \o (OpNodes(t.left_) \o OpNodes(t.right_))
       /\ Len(OpNodes(t)) = 1 + Len(OpNodes(t.left_)) + Len(OpNodes(t.right_))
       /\ OpNodes(t)[1] = t
  /\ \A t \in Formulas : \A k \in DOMAIN OpNodes(t) :
       OpNodes(t)[k] \in Formulas /\ IsOp(OpNodes(t)[k])
<1> DEFINE O(t) == Nodes(t, Ops)
<1>1. \A t : OpNodes(t) = O(t)  BY DEF OpNodes, Ops
<1>2. /\ \A t \in Trees : O(t) \in Seq(Ops)
      /\ O(Null) = << >>
      /\ \A t \in Trees \ Leaf : O(t) = (IF t \in Ops THEN <<t>> ELSE << >>)
                                        \o (O(t.left_) \o O(t.right_))
  <2>1. Null \in Leaf /\ Null \notin Ops  BY TreesFacts DEF Leaf, Ops, IsOp, Operators
  <2>2. QED BY <2>1, NodesFacts
<1> HIDE DEF O
<1>3. ASSUME NEW t \in Trees PROVE O(t) \in Seq(Trees) /\ Len(O(t)) \in Nat
  <2>1. O(t) \in Seq(Ops)  BY <1>2
  <2>2. Ops \subseteq Trees  BY DEF Ops
  <2>3. QED BY <2>1, <2>2
<1>4. Null \in Trees /\ \A t \in Formulas : t \in Trees \ Leaf
  BY TreesFacts, FormulaFacts
<1>5. ASSUME NEW t \in Formulas
      PROVE  t.left_ \in Formulas \cup {Null} /\ t.right_ \in Formulas \cup {Null}
             /\ t.left_ \in Trees /\ t.right_ \in Trees
  BY <1>4, FormulaFacts, TreesFacts DEF Operators
<1>6. ASSUME NEW t \in Formulas, t.type_ = "var" PROVE O(t) = << >> /\ ~ IsOp(t)
  <2>1. t.left_ = Null /\ t.right_ = Null  BY <1>6, FormulaFacts
  <2>2. t \notin Ops /\ ~ IsOp(t)  BY <1>6 DEF Ops, IsOp, Operators
  <2>3. O(t) = << >> \o (<< >> \o << >>)  BY <1>2, <1>4, <2>1, <2>2
  <2>4. QED BY <2>2, <2>3
<1>7. ASSUME NEW t \in Formulas, t.type_ # "var"
      PROVE  /\ IsOp(t)
             /\ O(t) = <<t>> \o (O(t.left_) \o O(t.right_))
             /\ Len(O(t)) = 1 + Len(O(t.left_)) + Len(O(t.right_))
             /\ O(t)[1] = t
  <2>1. t \in Ops /\ IsOp(t)  BY <1>4, <1>7, FormulaFacts DEF Ops, IsOp
  <2>2. O(t) = <<t>> \o (O(t.left_) \o O(t.right_))  BY <1>2, <1>4, <2>1
  <2> DEFINE a == O(t.left_)  b == O(t.right_)
  <2>3. a \in Seq(Trees) /\ b \in Seq(Trees)  BY <1>3, <1>5
  <2> HIDE DEF a, b
  <2>4. a \o b \in Seq(Trees) /\ Len(a \o b) = Len(a) + Len(b)
        /\ Len(a) \in Nat /\ Len(b) \in Nat
    BY <2>3, Concatenated
  <2> DEFINE c == a \o b
  <2>5. c \in Seq(Trees) /\ <<t>> \in Seq(Trees) /\ Len(<<t>>) = 1 /\ <<t>>[1] = t
    BY <1>4, <2>4
  <2> HIDE DEF c
  <2>6. Len(<<t>> \o c) = 1 + Len(c) /\ (<<t>> \o c)[1] = t
    BY <2>5
  <2>7. QED BY <2>1, <2>2, <2>4, <2>6 DEF a, b, c
<1>8. ASSUME NEW t \in Formulas, NEW k \in DOMAIN O(t)
      PROVE  O(t)[k] \in Formulas /\ IsOp(O(t)[k])
  <2> DEFINE S == {Null} \cup {s \in Formulas : NodeSet(s, Ops) \subseteq Formulas}
  <2>1. NodeSet(Null, Ops) \subseteq Formulas
    <3>1. Null \in Leaf /\ Null \notin Ops  BY TreesFacts DEF Leaf, Ops, IsOp, Operators
    <3>2. QED BY <3>1, NodeSetFacts
  <2>2. ASSUME NEW s \in Formulas, s.left_ \in S /\ s.right_ \in S PROVE s \in S
    <3>1. s \in Trees \ Leaf  BY <1>4
    <3>2. NodeSet(s.left_, Ops) \subseteq Formulas /\ NodeSet(s.right_, Ops) \subseteq Formulas
      BY <2>1, <2>2
    <3>3. NodeSet(s, Ops)
            = ({s} \cap Ops) \cup (NodeSet(s.left_, Ops) \cup NodeSet(s.right_, Ops))
      BY <3>1, NodeSetFacts
    <3>4. QED BY <3>2, <3>3
  <2>3. Formulas \subseteq S
    <3>1. Null \in S  OBVIOUS
    <3> HIDE DEF S
    <3>2. QED BY <2>2, <3>1, FormulaInduction
  <2>4. Null \notin Formulas  BY <1>4 DEF Leaf
  <2>5. NodeSet(t, Ops) \subseteq Formulas  BY <2>3, <2>4
  <2>6. NodeSet(t, Ops) \subseteq Ops  BY <1>4, NodeSetFacts
  <2>7. O(t)[k] \in NodeSet(t, Ops)  BY DEF NodeSet, Entries, O
  <2>8. QED BY <2>5, <2>6, <2>7 DEF Ops
<1>9. QED BY <1>1, <1>2, <1>3, <1>6, <1>7, <1>8

\* The nodes of the sequence s have the names that follow the n-th.
Numbered(s, n) == \A k \in 1..Len(s) : s[k].var_name_ = Fresh(n + k)

LEMMA NumberedInPreOrder ==
  ASSUME NEW S, NEW e \in S, NEW a \in Seq(S), NEW b \in Seq(S), NEW n \in Nat,
         e.var_name_ = Fresh(n + 1),
         Numbered(a, n + 1), Numbered(b, n + 1 + Len(a))
  PROVE  Numbered(<<e>> \o (a \o b), n)
<1> DEFINE c == a \o b  d == <<e>> \o c
<1>1. /\ c \in Seq(S) /\ Len(c) = Len(a) + Len(b) /\ Len(a) \in Nat /\ Len(b) \in Nat
      /\ \A k \in 1..Len(c) : c[k] = IF k <= Len(a) THEN a[k] ELSE b[k - Len(a)]
  BY Concatenated
<1> HIDE DEF c
<1>2. Len(d) = 1 + Len(c) /\ \A k \in 1..Len(d) : d[k] = IF k = 1 THEN e ELSE c[k - 1]
  <2> DEFINE o == <<e>>
  <2>1. o \in Seq(S) /\ Len(o) = 1 /\ o[1] = e  OBVIOUS
  <2> HIDE DEF o
  <2>2. Len(o \o c) = Len(o) + Len(c)
        /\ \A k \in 1..Len(o \o c) :
             (o \o c)[k] = IF k <= Len(o) THEN o[k] ELSE c[k - Len(o)]
    <3>1. c \in Seq(S) /\ o \in Seq(S)  BY <1>1, <2>1
    <3>2. QED BY <3>1, Concatenated
  <2>3. Len(d) = 1 + Len(c)  BY <2>1, <2>2 DEF o
  <2>4. ASSUME NEW k \in 1..Len(d) PROVE d[k] = IF k = 1 THEN e ELSE c[k - 1]
    <3>1. d[k] = IF k <= 1 THEN o[k] ELSE c[k - 1]  BY <2>1, <2>2 DEF o
    <3>2. k \in Nat /\ k >= 1  BY <1>1, <2>3
    <3>3. QED BY <2>1, <3>1, <3>2
  <2>5. QED BY <2>3, <2>4
<1> HIDE DEF d
<1>3. ASSUME NEW k \in 1..Len(d) PROVE d[k].var_name_ = Fresh(n + k)
  <2>1. CASE k = 1  BY <1>2, <2>1
  <2>2. CASE k # 1 /\ k - 1 <= Len(a)
    <3>1. k - 1 \in 1..Len(a) /\ k - 1 \in 1..Len(c) /\ n + 1 + (k - 1) = n + k
      BY <1>1, <1>2, <2>2
    <3>2. d[k] = a[k - 1]  BY <1>1, <1>2, <2>2, <3>1
    <3>3. a[k - 1].var_name_ = Fresh(n + 1 + (k - 1))  BY <3>1 DEF Numbered
    <3>4. QED BY <3>1, <3>2, <3>3
  <2>3. CASE k # 1 /\ ~ (k - 1 <= Len(a))
    <3> DEFINE j == k - 1 - Len(a)
    <3>1. /\ j \in 1..Len(b) /\ k - 1 \in 1..Len(c) /\ n + 1 + Len(a) + j = n + k
      BY <1>1, <1>2, <2>3
    <3>2. d[k] = b[j]  BY <1>1, <1>2, <2>3, <3>1
    <3> HIDE DEF j
    <3>3. b[j].var_name_ = Fresh(n + 1 + Len(a) + j)  BY <3>1 DEF Numbered
    <3>4. QED BY <3>1, <3>2, <3>3
  <2>4. QED BY <2>1, <2>2, <2>3
<1>4. QED BY <1>3 DEF d, c, Numbered

\* setNamesToOpNode changes names only, those of the operator nodes.
Named(t, u, n) ==
  /\ u \in Formulas \cup {Null}
  /\ u = Null <=> t = Null
  /\ u.type_ = t.type_
  /\ NamesIn(u) = NamesIn(t)
  /\ Len(OpNodes(u)) = Len(OpNodes(t))
  /\ Numbered(OpNodes(u), n)

LEMMA NamedFormula ==
  \A t \in Formulas, n \in Nat : Named(t, setNamesToOpNode(t, n), n)
<1> DEFINE N(t, n) == setNamesToOpNode(t, n)
           S == {Null} \cup {t \in Formulas : \A n \in Nat : Named(t, N(t, n), n)}
<1>1. /\ Null \in Trees /\ \A t \in Formulas : t \in Trees \ Leaf
      /\ Null \notin Formulas
  BY TreesFacts, FormulaFacts DEF Leaf
<1>2. ASSUME NEW n \in Nat PROVE Named(Null, N(Null, n), n)
  <2>1. ~ IsOp(Null)  BY TreesFacts DEF IsOp, Operators
  <2>2. N(Null, n) = Null  BY <1>1, <2>1, NamingFacts
  <2>3. QED BY <2>2, OperatorNodes DEF Named, Numbered
<1>3. ASSUME NEW t \in Formulas, t.left_ \in S /\ t.right_ \in S, NEW n \in Nat
      PROVE  Named(t, N(t, n), n)
  <2>1. CASE t.type_ = "var"
    <3>1. OpNodes(t) = << >> /\ ~ IsOp(t)  BY <2>1, OperatorNodes
    <3>2. N(t, n) = t  BY <1>1, <3>1, NamingFacts
    <3>3. QED BY <1>1, <3>1, <3>2 DEF Named, Numbered
  <2>2. CASE t.type_ # "var"
    <3> DEFINE p == n + 1 + Len(OpNodes(t.left_))
               l == N(t.left_, n + 1)  r == N(t.right_, p)
               u == N(t, n)
    <3>1. IsOp(t) /\ t \in Trees \ Leaf /\ t.type_ \in Operators
          /\ Len(OpNodes(t)) = 1 + Len(OpNodes(t.left_)) + Len(OpNodes(t.right_))
          /\ t.left_ \in Formulas
          /\ t.right_ \in Formulas \cup {Null}
          /\ (t.right_ = Null <=> t.type_ = "not")
      <4>1. IsOp(t) /\ t \in Trees \ Leaf /\ t.type_ \in Operators /\ t.left_ \in Formulas
        BY <1>1, <2>2, OperatorNodes, FormulaFacts
      <4>2. Len(OpNodes(t)) = 1 + Len(OpNodes(t.left_)) + Len(OpNodes(t.right_))
        BY <2>2, OperatorNodes
      <4>3. t.right_ \in Formulas \cup {Null} /\ (t.right_ = Null <=> t.type_ = "not")
        BY <1>1, <2>2, FormulaFacts
      <4>4. QED BY <4>1, <4>2, <4>3
    <3>2. n + 1 \in Nat /\ p \in Nat
      <4>1. Len(OpNodes(t.left_)) \in Nat  BY <1>1, <3>1, OperatorNodes
      <4>2. QED BY <4>1
    <3>3. u = [type_ |-> t.type_, var_name_ |-> Fresh(n + 1), left_ |-> l, right_ |-> r]
      BY <3>1, NamingFacts
    <3>4. Named(t.left_, l, n + 1)  BY <1>1, <1>3, <3>1, <3>2
    <3> HIDE DEF p
    <3>5. Named(t.right_, r, p)  BY <1>2, <1>3, <3>1, <3>2
    <3>6. u \in Trees
      <4>1. MaxHeight \in 0..MaxHeight  BY Levels
      <4>2. QED BY <3>1, <4>1, NamingFacts DEF Trees
    <3> HIDE DEF u, l, r, N, S
    <3>7. l \in Formulas /\ r \in Formulas \cup {Null} /\ (r = Null <=> t.type_ = "not")
      BY <1>1, <3>1, <3>4, <3>5 DEF Named
    <3>8. u.type_ = t.type_ /\ u.left_ = l /\ u.right_ = r /\ u.var_name_ = Fresh(n + 1)
      BY <3>3
    <3>9. u \in Trees \ Leaf
      <4>1. t.type_ # "NULL" /\ t.type_ # "failed"  BY <3>1 DEF Operators
      <4>2. QED BY <3>6, <3>8, <4>1, TreesFacts DEF Leaf
    <3>10. u \in Formulas
      <4>1. u.left_ # Null /\ u.type_ # "var"  BY <1>1, <2>2, <3>7, <3>8
      <4>2. u.right_ = Null <=> u.type_ \in {"var", "not"}  BY <3>7, <3>8, <4>1
      <4>3. u.left_ \in Formulas \cup {Null} /\ u.right_ \in Formulas \cup {Null}
        BY <3>7, <3>8
      <4>4. QED BY <3>9, <4>1, <4>2, <4>3, FormulaFacts
    <3>11. NamesIn(u) = NamesIn(t)
      <4>1. NamesIn(u) = NamesIn(l) \cup NamesIn(r)
        BY <2>2, <3>8, <3>9, NamesFacts
      <4>2. NamesIn(t) = NamesIn(t.left_) \cup NamesIn(t.right_)
        BY <2>2, <3>1, NamesFacts
      <4>3. QED BY <3>4, <3>5, <4>1, <4>2 DEF Named
    <3> DEFINE a == OpNodes(l)  b == OpNodes(r)
    <3>12. OpNodes(u) = <<u>> \o (a \o b) /\ Len(OpNodes(u)) = 1 + Len(a) + Len(b)
      BY <2>2, <3>8, <3>10, OperatorNodes
    <3>13. Len(OpNodes(u)) = Len(OpNodes(t)) /\ p = n + 1 + Len(a)
      BY <3>1, <3>4, <3>5, <3>12 DEF Named, p
    <3>14. a \in Seq(Trees) /\ b \in Seq(Trees)
      BY <1>1, <3>7, OperatorNodes
    <3>15. Numbered(a, n + 1) /\ Numbered(b, n + 1 + Len(a))
      BY <3>4, <3>5, <3>13 DEF Named
    <3> HIDE DEF a, b
    <3>16. Numbered(<<u>> \o (a \o b), n)  BY <3>6, <3>8, <3>14, <3>15, NumberedInPreOrder
    <3>17. QED BY <1>1, <3>8, <3>10, <3>11, <3>12, <3>13, <3>16 DEF Named, u
  <2>3. QED BY <2>1, <2>2
<1>4. Formulas \subseteq S
  <2>1. Null \in S  OBVIOUS
  <2>2. \A t \in Formulas : t.left_ \in S /\ t.right_ \in S => t \in S  BY <1>3
  <2> HIDE DEF S
  <2>3. QED BY <2>1, <2>2, FormulaInduction
<1>5. QED BY <1>1, <1>4

\* The definition of an operator node: it names the node's variable and those
\* of its children, and says what the operator makes of the latter.
LEMMA DefinitionOfNode ==
  ASSUME 8 <= MaxHeight, NEW s \in Formulas, IsOp(s)
  PROVE  LET d == Definition(s)
         IN  /\ IsDefinition(d)
             /\ d \in Trees \ Leaf
             /\ s.var_name_ \in Names
             /\ d.left_ = VarNode(s.var_name_)
             /\ NamesIn(d) = {s.var_name_, s.left_.var_name_}
                             \cup IF s.type_ = "not" THEN {} ELSE {s.right_.var_name_}
             /\ \A m : Value(d, m) <=>
                  (m[s.var_name_] <=>
                     CASE s.type_ = "not" -> ~ m[s.left_.var_name_]
                       [] s.type_ = "and" -> m[s.left_.var_name_] /\ m[s.right_.var_name_]
                       [] s.type_ = "or" -> m[s.left_.var_name_] \/ m[s.right_.var_name_]
                       [] s.type_ = "implication" ->
                            (m[s.left_.var_name_] => m[s.right_.var_name_])
                       [] OTHER -> (m[s.left_.var_name_] <=> m[s.right_.var_name_]))
<1> DEFINE x == VarNode(s.var_name_)  y == VarNode(s.left_.var_name_)
           z == VarNode(s.right_.var_name_)
           d == Definition(s)
<1>1. /\ s \in Trees \ Leaf /\ s.type_ \in Operators
      /\ s.left_ \in Formulas /\ s.left_ \in Trees \ Leaf
      /\ s.right_ = Null <=> s.type_ = "not"
      /\ s.type_ # "not" => s.right_ \in Trees \ Leaf
  <2>1. s \in Trees \ Leaf /\ s.type_ \in Operators /\ s.type_ # "var"
        /\ s.left_ \in Formulas /\ s.left_ \in Trees \ Leaf
    BY FormulaFacts DEF IsOp, Operators
  <2>2. s.type_ = "not" => s.right_ = Null  BY FormulaFacts
  <2>3. s.type_ # "not" => s.right_ \in Formulas  BY <2>1, FormulaFacts
  <2>4. \A t \in Formulas : t \in Trees \ Leaf  BY FormulaFacts
  <2>5. QED BY <2>1, <2>2, <2>3, <2>4 DEF Leaf
<1>2. s.var_name_ \in Names /\ s.left_.var_name_ \in Names
      /\ (s.type_ # "not" => s.right_.var_name_ \in Names)
  BY <1>1, TreesFacts
<1>3. x \in Vars /\ y \in Vars /\ (s.type_ # "not" => z \in Vars)
  BY <1>2 DEF Vars
<1>4. d = Iff(x, IF s.type_ = "not" THEN Not(y) ELSE Tree(s.type_, y, z))
  BY <1>1 DEF Definition, Iff, Not
<1>5. 1 <= MaxHeight  BY Grown
<1>6. /\ x.var_name_ = s.var_name_ /\ y.var_name_ = s.left_.var_name_
      /\ z.var_name_ = s.right_.var_name_
  BY DEF VarNode
<1> HIDE DEF d
<1> HIDE DEF x, y, z
<1>7. /\ NamesIn(x) = {s.var_name_} /\ NamesIn(y) = {s.left_.var_name_}
      /\ \A m : Value(x, m) = m[s.var_name_] /\ Value(y, m) = m[s.left_.var_name_]
  BY <1>3, <1>5, <1>6, VarFacts
<1>8. s.type_ # "not" =>
        NamesIn(z) = {s.right_.var_name_} /\ \A m : Value(z, m) = m[s.right_.var_name_]
  BY <1>3, <1>5, <1>6, VarFacts
<1>9. /\ x \in TreesUpTo[1] /\ x \in TreesUpTo[2] /\ y \in TreesUpTo[1]
      /\ s.type_ # "not" => z \in TreesUpTo[1]
      /\ TreesUpTo[2] \subseteq Trees /\ TreesUpTo[3] \subseteq Trees
  BY <1>3, Grown
<1>10. CASE s.type_ = "not"
  <2>1. d = Iff(x, Not(y))  BY <1>4, <1>10
  <2>2. IsDefinition(d)  BY <1>3, <2>1 DEF IsDefinition
  <2>3. Not(y) \in TreesUpTo[2]  BY <1>9, Grown
  <2>4. d \in TreesUpTo[3]  BY <1>9, <2>1, <2>3, Grown
  <2>5. d \in Trees /\ Not(y) \in Trees  BY <1>9, <2>3, <2>4
  <2>6. d \notin Leaf /\ d.left_ = x  BY <2>1, OperatorFields
  <2>7. NamesIn(Not(y)) = NamesIn(y) \cup NamesIn(Null)
    <3>1. "not" \in Operators  BY DEF Operators
    <3>2. QED BY <2>5, <3>1, NodeRules DEF Not
  <2>8. NamesIn(Null) = {}  BY NamesFacts DEF Leaf
  <2>9. NamesIn(d) = NamesIn(x) \cup NamesIn(Not(y))
    <3>1. "bi_implication" \in Operators  BY DEF Operators
    <3>2. QED BY <2>1, <2>5, <3>1, NodeRules DEF Iff
  <2>10. NamesIn(d) = {s.var_name_, s.left_.var_name_}
    BY <1>7, <2>7, <2>8, <2>9
  <2>11. ASSUME NEW m
         PROVE  Value(d, m) <=> (m[s.var_name_] <=> ~ m[s.left_.var_name_])
    <3>1. Value(d, m) <=> (Value(x, m) <=> Value(Not(y), m))  BY <2>1, <2>5, Values
    <3>2. Value(Not(y), m) <=> ~ Value(y, m)  BY <2>5, Values
    <3>3. QED BY <1>7, <3>1, <3>2
  <2>12. QED BY <1>2, <1>10, <2>2, <2>5, <2>6, <2>10, <2>11 DEF d, x
<1>11. CASE s.type_ # "not"
  <2> DEFINE o == Tree(s.type_, y, z)
  <2>1. d = Iff(x, o)  BY <1>4, <1>11
  <2>2. /\ s.type_ \in {"and", "or", "implication", "bi_implication"}
        /\ o = CASE s.type_ = "and" -> And(y, z)
                 [] s.type_ = "or" -> Or(y, z)
                 [] s.type_ = "implication" -> Imp(y, z)
                 [] OTHER -> Iff(y, z)
    BY <1>1, <1>11 DEF Operators, And, Or, Imp, Iff
  <2>3. IsDefinition(d)  BY <1>3, <1>11, <2>1, <2>2 DEF IsDefinition
  <2>4. o \in TreesUpTo[2]
    <3>1. {And(y, z), Or(y, z), Imp(y, z), Iff(y, z)} \subseteq TreesUpTo[2]
      BY <1>9, <1>11, Grown
    <3>2. QED BY <2>2, <3>1
  <2> HIDE DEF o
  <2>5. d \in TreesUpTo[3]  BY <1>9, <2>1, <2>4, Grown
  <2>6. d \in Trees /\ o \in Trees  BY <1>9, <2>4, <2>5
  <2>7. d \notin Leaf /\ d.left_ = x  BY <2>1, OperatorFields
  <2>8. NamesIn(o) = NamesIn(y) \cup NamesIn(z)
    BY <1>1, <2>6, NodeRules DEF o
  <2>9. NamesIn(d) = NamesIn(x) \cup NamesIn(o)
    <3>1. "bi_implication" \in Operators  BY DEF Operators
    <3>2. QED BY <2>1, <2>6, <3>1, NodeRules DEF Iff
  <2>10. NamesIn(d) = {s.var_name_, s.left_.var_name_} \cup {s.right_.var_name_}
    BY <1>7, <1>8, <1>11, <2>8, <2>9
  <2>11. ASSUME NEW m
         PROVE  Value(d, m) <=>
                  (m[s.var_name_] <=>
                     CASE s.type_ = "not" -> ~ m[s.left_.var_name_]
                       [] s.type_ = "and" -> m[s.left_.var_name_] /\ m[s.right_.var_name_]
                       [] s.type_ = "or" -> m[s.left_.var_name_] \/ m[s.right_.var_name_]
                       [] s.type_ = "implication" ->
                            (m[s.left_.var_name_] => m[s.right_.var_name_])
                       [] OTHER -> (m[s.left_.var_name_] <=> m[s.right_.var_name_]))
    <3> DEFINE vx == Value(x, m)  vy == Value(y, m)  vz == Value(z, m)
    <3>1. Value(d, m) <=> (vx <=> Value(o, m))  BY <2>1, <2>6, Values
    <3>2. vx = m[s.var_name_] /\ vy = m[s.left_.var_name_] /\ vz = m[s.right_.var_name_]
      BY <1>7, <1>8, <1>11
    <3>3. CASE s.type_ = "and"
      <4>1. o = And(y, z)  BY <2>2, <3>3
      <4>2. Value(o, m) <=> vy /\ vz  BY <2>6, <4>1, Values
      <4> HIDE DEF vx, vy, vz
      <4>3. QED BY <3>1, <3>2, <3>3, <4>2
    <3>4. CASE s.type_ = "or"
      <4>1. o = Or(y, z)  BY <2>2, <3>4
      <4>2. Value(o, m) <=> vy \/ vz  BY <2>6, <4>1, Values
      <4> HIDE DEF vx, vy, vz
      <4>3. QED BY <3>1, <3>2, <3>4, <4>2
    <3>5. CASE s.type_ = "implication"
      <4>1. o = Imp(y, z)  BY <2>2, <3>5
      <4>2. Value(o, m) <=> (vy => vz)  BY <2>6, <4>1, Values
      <4> HIDE DEF vx, vy, vz
      <4>3. QED BY <3>1, <3>2, <3>5, <4>2
    <3>6. CASE s.type_ = "bi_implication"
      <4>1. o = Iff(y, z)  BY <2>2, <3>6
      <4>2. Value(o, m) <=> (vy <=> vz)  BY <2>6, <4>1, Values
      <4> HIDE DEF vx, vy, vz
      <4>3. QED BY <3>1, <3>2, <3>6, <4>2
    <3>7. QED BY <2>2, <3>3, <3>4, <3>5, <3>6
  <2>12. QED BY <1>2, <1>11, <2>3, <2>6, <2>7, <2>10, <2>11 DEF d, x
<1>12. QED BY <1>10, <1>11 DEF d

-----------------------------------------------------------------------------
(* The states that toTestin reaches.                                       *)

\* What functionArr[i] may be before the pass `at`: the outer loop of solve
\* comes back to the inner ones with the clauses.
Reached(d, at) ==
  LET Only(yes, t) == IF yes THEN {t} ELSE {}
      isNot == d.right_.type_ = "not"
  IN  CASE at = "bi_implication" -> {d}
        [] at = "implication" -> {removeBiImplication[d]}
        [] at = "double_neg" -> {Converted(d), ClausesOf(d)} \cup Only(isNot, Negated(d))
        [] at = "demorgan" -> {Negated(d), ClausesOf(d)} \cup Only(~ isNot, Converted(d))
        [] at = "distribute" -> {Negated(d), Distributed(d), ClausesOf(d)}
        [] OTHER -> {ClausesOf(d)}

\* The trees of Asts, before and after setNamesToOpNode.
RootOK ==
  /\ root \in Formulas
  /\ Len(OpNodes(root)) + 7 <= MaxHeight
  /\ \A n \in 1..Len(OpNodes(root)) : Fresh(n) \notin NamesIn(root)
  /\ pc # "define" => Numbered(OpNodes(root), 0)

PlaceOK ==
  /\ pc \in {"define", "bi_implication", "implication", "double_neg", "demorgan",
             "distribute", "again", "done"}
  /\ avail \in BOOLEAN
  /\ i \in 1..Len(functionArr) + 1
  /\ pc \notin {"define", "bi_implication", "done"} => i # Len(functionArr) + 1
  /\ pc = "done" => i = Len(functionArr) + 1

\* Every definition up to the i-th has become its clauses.
ArrayOK ==
  /\ functionArr \in Seq(Trees)
  /\ pc = "define" => functionArr = << >>
  /\ pc # "define" => Len(functionArr) = Len(OpNodes(root))
  /\ \A k \in 1..Len(functionArr) :
       LET d == Definition(OpNodes(root)[k])
       IN  /\ k < i => functionArr[k] = ClausesOf(d)
           /\ k = i => functionArr[k] \in Reached(d, pc)
           /\ k > i => functionArr[k] = d

IInv == RootOK /\ PlaceOK /\ ArrayOK

LEMMA InitInv == Init => IInv
<1> SUFFICES ASSUME Init PROVE IInv  OBVIOUS
<1>1. RootOK
  <2>1. /\ root \in Trees /\ IsFormula(root)
        /\ \A n \in 1..Len(OpNodes(root)) : Fresh(n) \notin NamesIn(root)
        /\ Len(OpNodes(root)) + 7 <= MaxHeight
    BY AstsAssumption DEF Init
  <2>2. QED BY <2>1 DEF RootOK, Formulas, Init
<1>2. functionArr = << >> /\ Len(functionArr) = 0 /\ i = 1 /\ pc = "define" /\ avail = FALSE
  BY DEF Init
<1>3. PlaceOK
  <2>1. i \in 1..Len(functionArr) + 1  BY <1>2
  <2>2. avail \in BOOLEAN  BY <1>2
  <2>3. QED BY <1>2, <2>1, <2>2 DEF PlaceOK
<1>4. ArrayOK  BY <1>2 DEF ArrayOK
<1>5. QED BY <1>1, <1>3, <1>4 DEF IInv

\* What is known of the definition of the k-th operator node.
LEMMA NodeDefinition ==
  ASSUME RootOK, NEW k \in 1..Len(OpNodes(root))
  PROVE  LET d == Definition(OpNodes(root)[k])
         IN  /\ 8 <= MaxHeight
             /\ IsDefinition(d) /\ d \in Trees /\ Stages(d)
             /\ OpNodes(root)[k] \in Formulas /\ IsOp(OpNodes(root)[k])
<1>1. root \in Formulas /\ root \in Trees /\ Len(OpNodes(root)) + 7 <= MaxHeight
  BY FormulaFacts DEF RootOK
<1>2. OpNodes(root) \in Seq(Trees) /\ Len(OpNodes(root)) \in Nat  BY <1>1, OperatorNodes
<1>3. 8 <= MaxHeight  BY <1>1, <1>2, Levels
<1>4. k \in DOMAIN OpNodes(root)  BY <1>2
<1>5. OpNodes(root)[k] \in Formulas /\ IsOp(OpNodes(root)[k])  BY <1>1, <1>4, OperatorNodes
<1> DEFINE s == OpNodes(root)[k]
<1>6. IsDefinition(Definition(s)) /\ Definition(s) \in Trees
  <2> HIDE DEF s
  <2>1. s \in Formulas /\ IsOp(s)  BY <1>5 DEF s
  <2>2. QED BY <1>3, <2>1, DefinitionOfNode
<1>7. Stages(Definition(s))  BY <1>3, <1>6, DefinitionStages
<1>8. QED BY <1>3, <1>5, <1>6, <1>7

\* A step of solve that puts t where functionArr[i] was.
LEMMA SolveStep ==
  ASSUME IInv, pc \notin {"define", "done"}, i # Len(functionArr) + 1,
         NEW t \in Trees,
         functionArr' = [functionArr EXCEPT ![i] = t],
         root' = root, i' = i, avail' \in BOOLEAN,
         pc' \in {"implication", "double_neg", "demorgan", "distribute", "again"},
         t \in Reached(Definition(OpNodes(root)[i]), pc')
  PROVE  IInv'
<1>1. /\ functionArr \in Seq(Trees) /\ Len(functionArr) \in Nat /\ i \in 1..Len(functionArr)
      /\ Len(functionArr) = Len(OpNodes(root))
  BY DEF IInv, PlaceOK, ArrayOK
<1>2. /\ functionArr' \in Seq(Trees) /\ Len(functionArr') = Len(functionArr)
      /\ functionArr'[i] = t
      /\ \A k \in 1..Len(functionArr) : k # i => functionArr'[k] = functionArr[k]
  BY <1>1
<1>3. RootOK'
  BY DEF IInv, RootOK
<1>4. PlaceOK'  BY <1>1, <1>2 DEF PlaceOK
<1>5. ArrayOK'
  <2>1. ASSUME NEW k \in 1..Len(functionArr)
        PROVE  LET d == Definition(OpNodes(root)[k])
               IN  /\ k < i => functionArr'[k] = ClausesOf(d)
                   /\ k = i => functionArr'[k] \in Reached(d, pc')
                   /\ k > i => functionArr'[k] = d
    <3>1. CASE k = i  BY <1>1, <1>2, <3>1
    <3>2. CASE k # i  BY <1>1, <1>2, <3>2 DEF IInv, ArrayOK
    <3>3. QED BY <3>1, <3>2
  <2>2. QED BY <1>1, <1>2, <2>1 DEF ArrayOK
<1>6. QED BY <1>3, <1>4, <1>5 DEF IInv

\* Each inner loop of solve.
LEMMA LoopStep ==
  ASSUME IInv, NEW at \in {"double_neg", "demorgan", "distribute"}, NEW needed, NEW Pass,
         NEW next \in {"demorgan", "distribute", "again"},
         Loop(at, needed, Pass, next),
         LET d == Definition(OpNodes(root)[i])
         IN  /\ needed > 0 => /\ Pass[functionArr[i]] \in Reached(d, at)
                              /\ Pass[functionArr[i]] \in Trees
                              /\ ~ HasFailed(Pass[functionArr[i]])
             /\ needed = 0 => functionArr[i] \in Reached(d, next)
  PROVE  IInv'
<1>1. /\ pc = at /\ pc \notin {"define", "done", "bi_implication"}
      /\ functionArr \in Seq(Trees) /\ i \in 1..Len(functionArr) /\ i # Len(functionArr) + 1
      /\ avail \in BOOLEAN
  BY DEF Loop, IInv, PlaceOK, ArrayOK
<1>2. CASE needed > 0 /\ Apply(Pass, at) /\ avail' = TRUE
  <2> DEFINE t == Pass[functionArr[i]]
  <2>1. functionArr' = [functionArr EXCEPT ![i] = t] /\ root' = root /\ i' = i
    BY <1>2 DEF Apply
  <2>2. functionArr'[i] = t  BY <1>1, <2>1
  <2>3. pc' = at  BY <1>2, <2>2 DEF Apply
  <2>4. t \in Trees /\ t \in Reached(Definition(OpNodes(root)[i]), pc')  BY <1>2, <2>3
  <2> HIDE DEF t
  <2>5. QED BY <1>1, <1>2, <2>1, <2>3, <2>4, SolveStep
<1>3. CASE needed = 0 /\ pc' = next
           /\ UNCHANGED <<root, functionArr, i, avail, variables, clauses, lines>>
  <2> DEFINE t == functionArr[i]
  <2>1. functionArr' = [functionArr EXCEPT ![i] = t] /\ t \in Trees  BY <1>1, <1>3
  <2>2. t \in Reached(Definition(OpNodes(root)[i]), pc')  BY <1>3
  <2> HIDE DEF t
  <2>3. QED BY <1>1, <1>3, <2>1, <2>2, SolveStep
<1>4. QED BY <1>2, <1>3 DEF Loop

\* The definitions start as createTsetinNodes makes them.
LEMMA DefineStep == IInv /\ Define => IInv'
<1> SUFFICES ASSUME IInv, Define PROVE IInv'  OBVIOUS
<1> DEFINE N == Len(OpNodes(root'))
<1>1. /\ pc = "define" /\ pc' = "bi_implication" /\ i' = i /\ avail' = avail
      /\ root' = setNamesToOpNode(root, 0)
      /\ functionArr' = createTsetinNodes(root')
      /\ functionArr = << >> /\ i \in 1..Len(functionArr) + 1 /\ avail \in BOOLEAN
  BY DEF Define, IInv, PlaceOK, ArrayOK
<1>2. /\ root \in Formulas /\ Len(OpNodes(root)) + 7 <= MaxHeight
      /\ \A n \in 1..Len(OpNodes(root)) : Fresh(n) \notin NamesIn(root)
  BY DEF IInv, RootOK
<1>3. Named(root, root', 0)
  <2>1. 0 \in Nat  OBVIOUS
  <2>2. QED BY <1>1, <1>2, <2>1, NamedFormula
<1>4. RootOK'
  <2>1. root # Null  BY <1>2, FormulaFacts DEF Leaf
  <2>2. root' \in Formulas /\ NamesIn(root') = NamesIn(root)
        /\ Len(OpNodes(root')) = Len(OpNodes(root)) /\ Numbered(OpNodes(root'), 0)
    BY <1>3, <2>1 DEF Named
  <2>3. QED BY <1>2, <2>2 DEF RootOK
<1>5. root' \in Trees  BY <1>4, FormulaFacts DEF RootOK
<1>6. OpNodes(root') \in Seq(Trees) /\ N \in Nat /\ DOMAIN OpNodes(root') = 1..N
  BY <1>5, OperatorNodes
<1>7. functionArr' = [k \in 1..N |-> Definition(OpNodes(root')[k])]
  BY <1>1, <1>6 DEF createTsetinNodes
<1>8. ASSUME NEW k \in 1..N PROVE Definition(OpNodes(root')[k]) \in Trees
  <2>1. root' \in Formulas /\ OpNodes(root')[k] \in Formulas /\ IsOp(OpNodes(root')[k])
    BY <1>4, <1>6, OperatorNodes DEF RootOK
  <2>2. 8 <= MaxHeight  BY <1>4, <1>6, Levels DEF RootOK
  <2> DEFINE s == OpNodes(root')[k]
  <2> HIDE DEF s
  <2>3. s \in Formulas /\ IsOp(s)  BY <2>1 DEF s
  <2>4. Definition(s) \in Trees  BY <2>2, <2>3, DefinitionOfNode
  <2>5. QED BY <2>4 DEF s
<1>9. functionArr' \in Seq(Trees) /\ Len(functionArr') = N
  BY <1>6, <1>7, <1>8
<1>10. i = 1
  <2>1. Len(functionArr) = 0  BY <1>1
  <2>2. QED BY <1>1, <2>1
<1>11. PlaceOK'
  <2>1. i' \in 1..Len(functionArr') + 1  BY <1>1, <1>6, <1>9, <1>10
  <2>2. QED BY <1>1, <2>1 DEF PlaceOK
<1>12. ArrayOK'
  <2>1. ASSUME NEW k \in 1..Len(functionArr')
        PROVE  LET d == Definition(OpNodes(root')[k])
               IN  /\ k < i' => functionArr'[k] = ClausesOf(d)
                   /\ k = i' => functionArr'[k] \in Reached(d, pc')
                   /\ k > i' => functionArr'[k] = d
    <3>1. functionArr'[k] = Definition(OpNodes(root')[k])  BY <1>7, <1>9
    <3>2. ~ (k < i')  BY <1>1, <1>6, <1>9, <1>10
    <3>3. Reached(Definition(OpNodes(root')[k]), pc') = {Definition(OpNodes(root')[k])}
      BY <1>1 DEF Reached
    <3>4. QED BY <3>1, <3>2, <3>3
  <2>2. QED BY <1>1, <1>9, <2>1 DEF ArrayOK
<1>13. QED BY <1>4, <1>11, <1>12 DEF IInv

\* The next pass in every step of solve: what it finds, and what it leaves.
LEMMA NextInv == IInv /\ [Next]_vars => IInv'
<1> SUFFICES ASSUME IInv, [Next]_vars PROVE IInv'  OBVIOUS
<1> DEFINE d == Definition(OpNodes(root)[i])
           cur == functionArr[i]
<1>1. ASSUME i # Len(functionArr) + 1, pc # "define"
      PROVE  /\ i \in 1..Len(functionArr) /\ functionArr \in Seq(Trees) /\ cur \in Trees
             /\ Stages(d) /\ d \in Trees
             /\ cur \in Reached(d, pc)
  <2>1. /\ functionArr \in Seq(Trees) /\ Len(functionArr) \in Nat /\ i \in 1..Len(functionArr)
        /\ Len(functionArr) = Len(OpNodes(root))
    BY <1>1 DEF IInv, PlaceOK, ArrayOK
  <2>2. RootOK  BY DEF IInv
  <2>3. Stages(d) /\ d \in Trees  BY <2>1, <2>2, NodeDefinition
  <2>4. cur \in Reached(d, pc)  BY <2>1 DEF IInv, ArrayOK
  <2>5. QED BY <2>1, <2>3, <2>4
<1>2. CASE Define  BY <1>2, DefineStep
<1>3. CASE RemoveBiImplication
  <2> DEFINE t == removeBiImplication[cur]
  <2>1. /\ pc = "bi_implication" /\ i <= Len(functionArr) /\ root' = root /\ i' = i
        /\ avail' = avail /\ functionArr' = [functionArr EXCEPT ![i] = t]
        /\ pc' = IF HasFailed(functionArr'[i]) THEN "abort" ELSE "implication"
    BY <1>3 DEF RemoveBiImplication, Apply
  <2>2. /\ i # Len(functionArr) + 1 /\ avail \in BOOLEAN
    BY <2>1 DEF IInv, PlaceOK, ArrayOK
  <2>3. i \in 1..Len(functionArr) /\ functionArr \in Seq(Trees) /\ Stages(d)
        /\ cur \in Reached(d, pc)
    BY <1>1, <2>1, <2>2
  <2>4. t = removeBiImplication[d]  BY <2>1, <2>3 DEF Reached
  <2>5. t \in Trees /\ ~ HasFailed(t)  BY <2>3, <2>4 DEF Stages
  <2>6. functionArr'[i] = t  BY <2>1, <2>3
  <2>7. pc' = "implication"  BY <2>1, <2>5, <2>6
  <2>8. t \in Reached(d, pc')  BY <2>4, <2>7 DEF Reached
  <2> HIDE DEF t
  <2>9. QED BY <2>1, <2>2, <2>5, <2>7, <2>8, SolveStep
<1>4. CASE RemoveImplication
  <2> DEFINE t == removeImplication[cur]
  <2>1. /\ pc = "implication" /\ root' = root /\ i' = i
        /\ avail' = FALSE /\ functionArr' = [functionArr EXCEPT ![i] = t]
        /\ pc' = IF HasFailed(functionArr'[i]) THEN "abort" ELSE "double_neg"
    BY <1>4 DEF RemoveImplication, Apply
  <2>2. /\ i # Len(functionArr) + 1
    BY <2>1 DEF IInv, PlaceOK, ArrayOK
  <2>3. i \in 1..Len(functionArr) /\ functionArr \in Seq(Trees) /\ Stages(d)
        /\ cur \in Reached(d, pc)
    BY <1>1, <2>1, <2>2
  <2>4. t = Converted(d)  BY <2>1, <2>3 DEF Reached, Converted
  <2>5. t \in Trees /\ ~ HasFailed(t)  BY <2>3, <2>4 DEF Stages
  <2>6. functionArr'[i] = t  BY <2>1, <2>3
  <2>7. pc' = "double_neg"  BY <2>1, <2>5, <2>6
  <2>8. t \in Reached(d, pc')  BY <2>4, <2>7 DEF Reached
  <2> HIDE DEF t
  <2>9. QED BY <2>1, <2>2, <2>5, <2>7, <2>8, SolveStep
<1>5. CASE RemoveDoubleNeg
  <2> DEFINE needed == countDoubleNeg(cur)  isNot == d.right_.type_ = "not"
  <2>1. Loop("double_neg", needed, removeDoubleNeg, "demorgan")
    BY <1>5 DEF RemoveDoubleNeg
  <2>2. pc = "double_neg" /\ i # Len(functionArr) + 1
    BY <2>1 DEF Loop, IInv, PlaceOK
  <2>3. Stages(d) /\ cur \in Reached(d, pc)  BY <1>1, <2>2
  <2>4. cur = Converted(d) \/ cur = ClausesOf(d) \/ (isNot /\ cur = Negated(d))
    BY <2>2, <2>3 DEF Reached
  <2>5. ASSUME needed > 0
        PROVE  /\ removeDoubleNeg[cur] \in Reached(d, "double_neg")
               /\ removeDoubleNeg[cur] \in Trees
               /\ ~ HasFailed(removeDoubleNeg[cur])
    <3>1. countDoubleNeg(Negated(d)) = 0 /\ countDoubleNeg(ClausesOf(d)) = 0
      BY <2>3 DEF Stages
    <3>2. cur = Converted(d)  BY <2>4, <2>5, <3>1
    <3>3. isNot  BY <2>3, <2>5, <3>2 DEF Stages
    <3>4. removeDoubleNeg[cur] = Negated(d)  BY <3>2, <3>3 DEF Negated
    <3>5. Negated(d) \in Trees /\ ~ HasFailed(Negated(d))  BY <2>3 DEF Stages
    <3>6. Negated(d) \in Reached(d, "double_neg")  BY <3>3 DEF Reached
    <3>7. QED BY <3>4, <3>5, <3>6
  <2>6. ASSUME needed = 0 PROVE cur \in Reached(d, "demorgan")
    <3>1. cur = Converted(d) => ~ isNot  BY <2>3, <2>6 DEF Stages
    <3>2. QED BY <2>4, <3>1 DEF Reached
  <2> HIDE DEF needed
  <2>7. QED BY <2>1, <2>5, <2>6, LoopStep
<1>6. CASE ApplyDemorgan
  <2> DEFINE needed == countDemorgan(cur)  isNot == d.right_.type_ = "not"
  <2>1. Loop("demorgan", needed, applyDemorgan, "distribute")
    BY <1>6 DEF ApplyDemorgan
  <2>2. pc = "demorgan" /\ i # Len(functionArr) + 1
    BY <2>1 DEF Loop, IInv, PlaceOK
  <2>3. Stages(d) /\ cur \in Reached(d, pc)  BY <1>1, <2>2
  <2>4. (~ isNot /\ cur = Converted(d)) \/ cur = ClausesOf(d) \/ cur = Negated(d)
    BY <2>2, <2>3 DEF Reached
  <2>5. ASSUME needed > 0
        PROVE  /\ applyDemorgan[cur] \in Reached(d, "demorgan")
               /\ applyDemorgan[cur] \in Trees
               /\ ~ HasFailed(applyDemorgan[cur])
    <3>1. countDemorgan(Negated(d)) = 0 /\ countDemorgan(ClausesOf(d)) = 0
      BY <2>3 DEF Stages
    <3>2. cur = Converted(d) /\ ~ isNot  BY <2>4, <2>5, <3>1
    <3>3. applyDemorgan[cur] = Negated(d)  BY <3>2 DEF Negated
    <3>4. Negated(d) \in Trees /\ ~ HasFailed(Negated(d))  BY <2>3 DEF Stages
    <3>5. Negated(d) \in Reached(d, "demorgan")  BY DEF Reached
    <3>6. QED BY <3>3, <3>4, <3>5
  <2>6. ASSUME needed = 0 PROVE cur \in Reached(d, "distribute")
    <3>1. cur = Converted(d) => isNot  BY <2>3, <2>6 DEF Stages
    <3>2. QED BY <2>4, <3>1 DEF Reached
  <2> HIDE DEF needed
  <2>7. QED BY <2>1, <2>5, <2>6, LoopStep
<1>7. CASE ApplyDistributive
  <2> DEFINE needed == countDistributiveOrOverAnd(cur)
             isNot == d.right_.type_ = "not"
             isBi == d.right_.type_ = "bi_implication"
             Dist == applyDistibutiveOrOverAnd
  <2>1. Loop("distribute", needed, Dist, "again")
    BY <1>7 DEF ApplyDistributive
  <2>2. pc = "distribute" /\ i # Len(functionArr) + 1
    BY <2>1 DEF Loop, IInv, PlaceOK
  <2>3. Stages(d) /\ cur \in Reached(d, pc)  BY <1>1, <2>2
  <2>4. cur = Negated(d) \/ cur = Distributed(d) \/ cur = ClausesOf(d)
    BY <2>2, <2>3 DEF Reached
  <2>5. countDistributiveOrOverAnd(ClausesOf(d)) = 0
    BY <2>3 DEF Stages, Cnf, Flat
  <2>6. Dist[Negated(d)] = Distributed(d)
        /\ (isBi => Dist[Distributed(d)] = ClausesOf(d))
        /\ (~ isBi => Distributed(d) = ClausesOf(d))
    BY DEF Distributed, ClausesOf
  <2>7. isNot => countDistributiveOrOverAnd(Negated(d)) = 0 /\ Negated(d) = Distributed(d)
    BY <2>3 DEF Stages
  <2>8. ~ isNot => countDistributiveOrOverAnd(Negated(d)) > 0
    BY <2>3 DEF Stages
  <2>9. isBi => countDistributiveOrOverAnd(Distributed(d)) > 0
    BY <2>3 DEF Stages
  <2>10. ~ (isNot /\ isBi)  OBVIOUS
  <2>11. ASSUME needed > 0
         PROVE  /\ Dist[cur] \in Reached(d, "distribute")
                /\ Dist[cur] \in Trees
                /\ ~ HasFailed(Dist[cur])
    <3>1. cur # ClausesOf(d)  BY <2>5, <2>11
    <3>2. Dist[cur] = Distributed(d) \/ Dist[cur] = ClausesOf(d)
      <4> HIDE DEF Dist, isBi, cur
      <4>1. QED BY <2>4, <2>6, <3>1
    <3>3. Distributed(d) \in Trees /\ ~ HasFailed(Distributed(d))
          /\ ClausesOf(d) \in Trees /\ ~ HasFailed(ClausesOf(d))
      BY <2>3 DEF Stages
    <3>4. Distributed(d) \in Reached(d, "distribute") /\ ClausesOf(d) \in Reached(d, "distribute")
      BY DEF Reached
    <3> HIDE DEF Dist
    <3>5. QED BY <3>2, <3>3, <3>4
  <2>12. ASSUME needed = 0 PROVE cur \in Reached(d, "again")
    <3>1. countDistributiveOrOverAnd(cur) = 0  BY <2>12
    <3>2. cur = ClausesOf(d)
      <4> HIDE DEF Dist, isBi, isNot, cur, d
      <4>1. cur = Negated(d) => isNot  BY <2>8, <3>1
      <4>2. cur = Distributed(d) => ~ isBi  BY <2>9, <3>1
      <4>3. cur = Negated(d) => cur = Distributed(d)  BY <2>7, <4>1
      <4>4. QED BY <2>4, <2>6, <4>2, <4>3
    <3>3. QED BY <3>2 DEF Reached
  <2> HIDE DEF needed, Dist
  <2>13. QED BY <2>1, <2>11, <2>12, LoopStep
<1>8. CASE Again
  <2>1. /\ pc = "again" /\ root' = root /\ functionArr' = functionArr
        /\ \/ avail /\ pc' = "double_neg" /\ avail' = FALSE /\ i' = i
           \/ ~ avail /\ i' = i + 1 /\ pc' = "bi_implication" /\ avail' = avail
    BY <1>8 DEF Again
  <2>2. i # Len(functionArr) + 1 /\ avail \in BOOLEAN
    BY <2>1 DEF IInv, PlaceOK
  <2>3. /\ i \in 1..Len(functionArr) /\ functionArr \in Seq(Trees) /\ cur \in Trees
        /\ cur = ClausesOf(d)
    BY <1>1, <2>1, <2>2 DEF Reached
  <2>4. CASE avail
    <3>1. functionArr' = [functionArr EXCEPT ![i] = cur]  BY <2>1, <2>3
    <3>2. pc' = "double_neg" /\ avail' = FALSE /\ i' = i  BY <2>1, <2>4
    <3>3. cur \in Reached(d, pc')  BY <2>3, <3>2 DEF Reached
    <3> HIDE DEF cur
    <3>4. QED BY <2>1, <2>2, <2>3, <3>1, <3>2, <3>3, SolveStep
  <2>5. CASE ~ avail
    <3>1. i' = i + 1 /\ pc' = "bi_implication" /\ avail' = avail  BY <2>1, <2>5
    <3>2. RootOK'  BY <2>1 DEF IInv, RootOK
    <3>3. PlaceOK'  BY <2>1, <2>2, <2>3, <3>1 DEF PlaceOK
    <3>4. ASSUME NEW k \in 1..Len(functionArr)
          PROVE  LET e == Definition(OpNodes(root)[k])
                 IN  /\ k < i' => functionArr[k] = ClausesOf(e)
                     /\ k = i' => functionArr[k] \in Reached(e, pc')
                     /\ k > i' => functionArr[k] = e
      <4>1. k < i + 1 => k < i \/ k = i  BY <2>3
      <4>2. k = i => functionArr[k] = ClausesOf(Definition(OpNodes(root)[k]))
        BY <2>3
      <4>3. k < i => functionArr[k] = ClausesOf(Definition(OpNodes(root)[k]))
        BY DEF IInv, ArrayOK
      <4>4. k > i => functionArr[k] = Definition(OpNodes(root)[k])
        BY DEF IInv, ArrayOK
      <4>5. Reached(Definition(OpNodes(root)[k]), pc') = {Definition(OpNodes(root)[k])}
        BY <3>1 DEF Reached
      <4>6. k = i + 1 => k > i  BY <2>3
      <4>7. k > i + 1 => k > i  BY <2>3
      <4>8. QED BY <3>1, <4>1, <4>2, <4>3, <4>4, <4>5, <4>6, <4>7
    <3>5. ArrayOK'
      <4>1. Len(functionArr) = Len(OpNodes(root))  BY <2>1 DEF IInv, ArrayOK
      <4>2. QED BY <2>1, <2>3, <3>1, <3>4, <4>1 DEF ArrayOK
    <3>6. QED BY <3>2, <3>3, <3>5 DEF IInv
  <2>6. QED BY <2>2, <2>4, <2>5
<1>9. CASE ToDimacs
  <2>1. /\ pc = "bi_implication" /\ i > Len(functionArr) /\ pc' = "done"
        /\ root' = root /\ functionArr' = functionArr /\ i' = i /\ avail' = avail
    BY <1>9 DEF ToDimacs
  <2>2. /\ functionArr \in Seq(Trees) /\ i \in 1..Len(functionArr) + 1 /\ avail \in BOOLEAN
        /\ Len(functionArr) = Len(OpNodes(root))
    BY <2>1 DEF IInv, PlaceOK, ArrayOK
  <2>3. i = Len(functionArr) + 1  BY <2>1, <2>2
  <2>4. RootOK'  BY <2>1 DEF IInv, RootOK
  <2>5. PlaceOK'  BY <2>1, <2>2, <2>3 DEF PlaceOK
  <2>6. ASSUME NEW k \in 1..Len(functionArr)
        PROVE  functionArr[k] = ClausesOf(Definition(OpNodes(root)[k])) /\ k < i
    <3>1. k < i  BY <2>2, <2>3
    <3>2. QED BY <3>1 DEF IInv, ArrayOK
  <2>7. ArrayOK'  BY <2>1, <2>2, <2>3, <2>6 DEF ArrayOK
  <2>8. QED BY <2>4, <2>5, <2>7 DEF IInv
<1>10. CASE UNCHANGED vars
  BY <1>10 DEF vars, IInv, RootOK, PlaceOK, ArrayOK
<1>11. QED BY <1>2, <1>3, <1>4, <1>5, <1>6, <1>7, <1>8, <1>9, <1>10 DEF Next

LEMMA InvHolds == Spec => []IInv
<1>1. QED BY InitInv, NextInv, PTL DEF Spec

\* The control of toTestin: every variable has its type, and solve works on a
\* definition that exists, one per operator node.
THEOREM TypeCorrect == Spec => []TypeOK
<1>1. IInv => TypeOK
  <2> SUFFICES ASSUME IInv PROVE TypeOK  OBVIOUS
  <2>1. /\ functionArr \in Seq(Trees) /\ Len(functionArr) \in Nat
        /\ DOMAIN functionArr = 1..Len(functionArr)
        /\ i \in 1..Len(functionArr) + 1
    BY DEF IInv, PlaceOK, ArrayOK
  <2>2. pc \notin {"define", "bi_implication", "done"} => i \in DOMAIN functionArr
    BY <2>1 DEF IInv, PlaceOK
  <2>3. QED BY <2>1, <2>2 DEF IInv, PlaceOK, ArrayOK, TypeOK
<1>2. QED BY <1>1, InvHolds, PTL

\* The assertions in applyDemorgan and applyDistibutiveOrOverAnd never fail,
\* whatever the formula.
THEOREM AssertionsHold == Spec => [](pc # "abort")
<1>1. IInv => pc # "abort"  BY DEF IInv, PlaceOK
<1>2. QED BY <1>1, InvHolds, PTL

\* No pass changes what a definition says, in whatever order solve comes to
\* apply them: also not the one that drops a clause.
THEOREM PassesKeepDefinitions == Spec => []DefinitionsKept
<1>1. IInv => DefinitionsKept
  <2> SUFFICES ASSUME IInv, NEW k \in DOMAIN functionArr,
                      NEW m \in [NamesIn(Definition(OpNodes(root)[k])) -> BOOLEAN]
               PROVE  Value(functionArr[k], m) = Value(Definition(OpNodes(root)[k]), m)
    BY DEF DefinitionsKept
  <2> DEFINE d == Definition(OpNodes(root)[k])
  <2>1. /\ functionArr \in Seq(Trees) /\ k \in 1..Len(functionArr)
    BY DEF IInv, ArrayOK
  <2>2. pc # "define"  BY <2>1 DEF IInv, ArrayOK
  <2>3. Len(functionArr) = Len(OpNodes(root)) /\ RootOK  BY <2>2 DEF IInv, ArrayOK
  <2>4. Stages(d)  BY <2>1, <2>3, NodeDefinition
  <2>5. /\ k < i => functionArr[k] = ClausesOf(d)
        /\ k = i => functionArr[k] \in Reached(d, pc)
        /\ k > i => functionArr[k] = d
    BY <2>1 DEF IInv, ArrayOK
  <2>6. k < i \/ k = i \/ k > i  BY <2>1 DEF IInv, PlaceOK
  <2>7. functionArr[k] \in {d, removeBiImplication[d], Converted(d), Negated(d),
                            Distributed(d), ClausesOf(d)}
    <3>1. Reached(d, pc) \subseteq {d, removeBiImplication[d], Converted(d), Negated(d),
                                    Distributed(d), ClausesOf(d)}
      <4> HIDE DEF d
      <4>1. QED BY DEF Reached
    <3> HIDE DEF d
    <3>2. QED BY <2>5, <2>6, <3>1
  <2> HIDE DEF d
  <2>8. Value(functionArr[k], m) = Value(d, m)  BY <2>4, <2>7 DEF Stages
  <2>9. QED BY <2>8 DEF d
<1>2. QED BY <1>1, InvHolds, PTL

-----------------------------------------------------------------------------
(* The tree of the file and its variables.                                 *)

\* A recursive function of the numbers up to N has a value at each of them.
ChainData(N, R, base, step) ==
  /\ N \in Nat
  /\ base \in R[0]
  /\ \A k \in 1..N : \A before \in R[k - 1] : step[k][before] \in R[k]

IsChain(f, N, R, base, step) ==
  /\ f = [k \in 0..N |-> IF k = 0 THEN base ELSE step[k][f[k - 1]]]
  /\ \A k \in 0..N : f[k] \in R[k]

LEMMA ChainExists ==
  ASSUME NEW N, NEW R, NEW base, NEW step, ChainData(N, R, base, step)
  PROVE  \E f : IsChain(f, N, R, base, step)
<1> DEFINE At(f, k) == IF k = 0 THEN base ELSE step[k][f[k - 1]]
           Good(n) == \E f : f = [k \in 0..n |-> At(f, k)] /\ \A k \in 0..n : f[k] \in R[k]
           S == {n \in Nat : n <= N => Good(n)}
<1>1. /\ N \in Nat /\ base \in R[0]
      /\ \A k \in 1..N : \A before \in R[k - 1] : step[k][before] \in R[k]
  BY DEF ChainData
<1>2. 0 \in S
  <2> DEFINE f == [k \in 0..0 |-> base]
  <2>1. f = [k \in 0..0 |-> At(f, k)]  OBVIOUS
  <2>2. \A k \in 0..0 : f[k] \in R[k]
    <3>1. \A k \in 0..0 : k = 0  OBVIOUS
    <3>2. QED BY <1>1, <3>1
  <2> HIDE DEF f, At
  <2>3. QED BY <2>1, <2>2
<1>3. ASSUME NEW n \in Nat, n \in S PROVE n + 1 \in S
  <2> SUFFICES ASSUME n + 1 <= N PROVE Good(n + 1)  OBVIOUS
  <2>1. n <= N  BY <1>1
  <2>2. PICK f : f = [k \in 0..n |-> At(f, k)] /\ \A k \in 0..n : f[k] \in R[k]
    <3> HIDE DEF At
    <3>1. QED BY <1>3, <2>1
  <2> DEFINE g == [k \in 0..n + 1 |-> At(f, k)]
  <2>3. \A k \in 0..n : g[k] = f[k]
    <3>1. \A k \in 0..n : f[k] = At(f, k)
      <4> HIDE DEF At
      <4>1. QED BY <2>2
    <3> HIDE DEF At
    <3>2. QED BY <3>1
  <2>4. ASSUME NEW k \in 0..n + 1 PROVE At(g, k) = At(f, k)
    <3>1. CASE k = 0  BY <3>1
    <3>2. CASE k # 0
      <4>1. k - 1 \in 0..n  BY <3>2
      <4> HIDE DEF g
      <4>2. g[k - 1] = f[k - 1]  BY <2>3, <4>1
      <4>3. QED BY <3>2, <4>2
    <3>3. QED BY <3>1, <3>2
  <2>5. g = [k \in 0..n + 1 |-> At(g, k)]
    <3> HIDE DEF At
    <3>1. QED BY <2>4
  <2>6. ASSUME NEW k \in 0..n + 1 PROVE g[k] \in R[k]
    <3>1. CASE k \in 0..n  BY <2>2, <2>3, <3>1
    <3>2. CASE k = n + 1
      <4>1. k \in 1..N /\ k - 1 = n /\ n \in 0..n /\ k # 0  BY <1>1, <3>2
      <4>2. f[k - 1] \in R[k - 1]
        <5> HIDE DEF At
        <5>1. QED BY <2>2, <4>1
      <4>3. step[k][f[k - 1]] \in R[k]  BY <1>1, <4>1, <4>2
      <4>4. g[k] = step[k][f[k - 1]]  BY <4>1
      <4>5. QED BY <4>3, <4>4
    <3>3. QED BY <3>1, <3>2
  <2> HIDE DEF g, At
  <2>7. QED BY <2>5, <2>6
<1>4. Nat \subseteq S
  <2> HIDE DEF S
  <2>1. QED BY <1>2, <1>3, SetInduction
<1>5. N \in S /\ N <= N  BY <1>1, <1>4
<1>6. Good(N)  BY <1>5
<1>7. QED BY <1>6 DEF IsChain

\* addVariables lists every name once.
LEMMA ListedNames ==
  ASSUME NEW names \in Seq(Names)
  PROVE  LET list == addVariables(names)
         IN  /\ list \in Seq(Names)
             /\ Entries(list) = Entries(names)
             /\ \A j, k \in DOMAIN list : list[j] = list[k] => j = k
<1> DEFINE N == Len(names)
           L == Seq(Names)
           Step(f, k) == IF k = 0 THEN << >> ELSE findAddVarIfNotPresent[f[k - 1]][names[k]]
           F == CHOOSE f : f = [k \in 0..N |-> Step(f, k)]
           R == [k \in 0..N |-> L]
           step == [k \in 1..N |-> [list \in L |-> findAddVarIfNotPresent[list][names[k]]]]
           Once(list) == \A j, k \in DOMAIN list : list[j] = list[k] => j = k
<1>1. N \in Nat /\ \A k \in 1..N : names[k] \in Names  OBVIOUS
<1>2. ASSUME NEW list \in L, NEW name \in Names
      PROVE  LET next == findAddVarIfNotPresent[list][name]
             IN  /\ next \in L
                 /\ Entries(next) = Entries(list) \cup {name}
                 /\ Once(list) => Once(next)
  <2>1. findAddVarIfNotPresent[list][name]
          = IF \E k \in DOMAIN list : list[k] = name THEN list ELSE Append(list, name)
    BY DEF findAddVarIfNotPresent
  <2>2. CASE \E k \in DOMAIN list : list[k] = name
    <3>1. findAddVarIfNotPresent[list][name] = list  BY <2>1, <2>2
    <3>2. name \in Entries(list)  BY <2>2 DEF Entries
    <3>3. QED BY <3>1, <3>2
  <2>3. CASE ~ \E k \in DOMAIN list : list[k] = name
    <3> DEFINE next == Append(list, name)
    <3>1. /\ next \in L /\ Len(list) \in Nat /\ Len(next) = Len(list) + 1
          /\ DOMAIN list = 1..Len(list) /\ DOMAIN next = 1..Len(list) + 1
          /\ \A k \in 1..Len(list) : next[k] = list[k]
          /\ next[Len(list) + 1] = name
      OBVIOUS
    <3> HIDE DEF next, L
    <3>2. ASSUME NEW e PROVE e \in Entries(next) <=> e \in Entries(list) \cup {name}
      <4>1. ASSUME e \in Entries(next) PROVE e \in Entries(list) \cup {name}
        <5>1. PICK k \in 1..Len(list) + 1 : e = next[k]  BY <3>1, <4>1 DEF Entries
        <5>2. CASE k = Len(list) + 1  BY <3>1, <5>1, <5>2
        <5>3. CASE k # Len(list) + 1
          <6>1. k \in 1..Len(list)  BY <3>1, <5>3
          <6>2. QED BY <3>1, <5>1, <6>1 DEF Entries
        <5>4. QED BY <5>2, <5>3
      <4>2. ASSUME e \in Entries(list) PROVE e \in Entries(next)
        <5>1. PICK k \in 1..Len(list) : e = list[k]  BY <3>1, <4>2 DEF Entries
        <5>2. k \in 1..Len(list) + 1 /\ next[k] = e  BY <3>1, <5>1
        <5>3. QED BY <3>1, <5>2 DEF Entries
      <4>3. name \in Entries(next)
        <5>1. Len(list) + 1 \in 1..Len(list) + 1  BY <3>1
        <5>2. QED BY <3>1, <5>1 DEF Entries
      <4>4. QED BY <4>1, <4>2, <4>3
    <3>3. ASSUME Once(list), NEW j \in DOMAIN next, NEW k \in DOMAIN next, next[j] = next[k]
          PROVE  j = k
      <4>1. \A l \in 1..Len(list) : next[l] # name  BY <2>3, <3>1
      <4>2. j \in 1..Len(list) \/ j = Len(list) + 1  BY <3>1
      <4>3. k \in 1..Len(list) \/ k = Len(list) + 1  BY <3>1
      <4>4. CASE j \in 1..Len(list) /\ k \in 1..Len(list)
        BY <3>1, <3>3, <4>4
      <4>5. CASE ~ (j \in 1..Len(list) /\ k \in 1..Len(list))
        BY <3>1, <3>3, <4>1, <4>2, <4>3, <4>5
      <4>6. QED BY <4>4, <4>5
    <3>4. Entries(next) = Entries(list) \cup {name}  BY <3>2
    <3>5. findAddVarIfNotPresent[list][name] = next  BY <2>1, <2>3 DEF next
    <3>6. QED BY <3>1, <3>3, <3>4, <3>5
  <2>4. QED BY <2>2, <2>3
<1> HIDE DEF Once
<1>3. ChainData(N, R, << >>, step)
  <2>1. << >> \in R[0]  BY <1>1
  <2>2. ASSUME NEW k \in 1..N, NEW before \in R[k - 1] PROVE step[k][before] \in R[k]
    <3>1. k \in 0..N /\ k - 1 \in 0..N  BY <1>1
    <3>2. before \in L  BY <3>1
    <3>3. step[k][before] = findAddVarIfNotPresent[before][names[k]]  BY <3>2
    <3> HIDE DEF L
    <3>4. QED BY <1>1, <1>2, <3>1, <3>2, <3>3
  <2> HIDE DEF R, step
  <2>3. QED BY <1>1, <2>1, <2>2 DEF ChainData
<1>4. PICK f : IsChain(f, N, R, << >>, step)
  <2> HIDE DEF R, step, N
  <2>1. QED BY <1>3, ChainExists
<1>5. \A k \in 0..N : f[k] \in L  BY <1>4 DEF IsChain
<1>6. f = [k \in 0..N |-> Step(f, k)]
  <2>1. f = [k \in 0..N |-> IF k = 0 THEN << >> ELSE step[k][f[k - 1]]]
    <3> HIDE DEF R, step, N
    <3>1. QED BY <1>4 DEF IsChain
  <2>2. ASSUME NEW k \in 0..N
        PROVE  (IF k = 0 THEN << >> ELSE step[k][f[k - 1]]) = Step(f, k)
    <3>1. CASE k = 0  BY <3>1
    <3>2. CASE k # 0
      <4>1. k \in 1..N /\ k - 1 \in 0..N  BY <1>1, <3>2
      <4>2. f[k - 1] \in L  BY <1>5, <4>1
      <4> HIDE DEF L
      <4>3. step[k][f[k - 1]] = findAddVarIfNotPresent[f[k - 1]][names[k]]  BY <4>1, <4>2
      <4>4. QED BY <3>2, <4>3
    <3>3. QED BY <3>1, <3>2
  <2> HIDE DEF step, Step, N
  <2>3. QED BY <2>1, <2>2
<1>7. F = [k \in 0..N |-> Step(F, k)]
  <2> HIDE DEF Step, N
  <2>1. QED BY <1>6
<1>8. addVariables(names) = F[N]  BY DEF addVariables, F, Step, N
<1> HIDE DEF F
<1> DEFINE G == {k \in Nat : k <= N => /\ F[k] \in L /\ Once(F[k])
                                       /\ Entries(F[k]) = {names[j] : j \in 1..k}}
<1>9. 0 \in G
  <2>1. F[0] = << >>  BY <1>1, <1>7
  <2>2. Once(<< >>) /\ Entries(<< >>) = {} /\ << >> \in L  BY DEF Once, Entries
  <2>3. {names[j] : j \in 1..0} = {}  OBVIOUS
  <2> HIDE DEF L
  <2>4. QED BY <2>1, <2>2, <2>3
<1>10. ASSUME NEW k \in Nat, k \in G PROVE k + 1 \in G
  <2> SUFFICES ASSUME k + 1 <= N
               PROVE  /\ F[k + 1] \in L /\ Once(F[k + 1])
                      /\ Entries(F[k + 1]) = {names[j] : j \in 1..k + 1}
    OBVIOUS
  <2>1. k <= N /\ k + 1 \in 0..N /\ k + 1 \in 1..N /\ k + 1 # 0 /\ (k + 1) - 1 = k  BY <1>1
  <2> HIDE DEF L
  <2>2. F[k] \in L /\ Once(F[k]) /\ Entries(F[k]) = {names[j] : j \in 1..k}  BY <1>10, <2>1
  <2>3. F[k + 1] = findAddVarIfNotPresent[F[k]][names[k + 1]]
    <3>1. F[k + 1] = Step(F, k + 1)
      <4> HIDE DEF Step, N
      <4>1. QED BY <1>7, <2>1
    <3>2. QED BY <2>1, <3>1
  <2>4. /\ F[k + 1] \in L /\ Once(F[k + 1])
        /\ Entries(F[k + 1]) = Entries(F[k]) \cup {names[k + 1]}
    <3>1. names[k + 1] \in Names  BY <1>1, <2>1
    <3>2. QED BY <1>2, <2>2, <2>3, <3>1
  <2>5. {names[j] : j \in 1..k + 1} = {names[j] : j \in 1..k} \cup {names[k + 1]}
    <3>1. \A j : j \in 1..k + 1 <=> j \in 1..k \/ j = k + 1  OBVIOUS
    <3>2. QED BY <3>1
  <2>6. QED BY <2>2, <2>4, <2>5
<1>11. Nat \subseteq G
  <2> HIDE DEF G
  <2>1. QED BY <1>9, <1>10, SetInduction
<1>12. F[N] \in L /\ Once(F[N]) /\ Entries(F[N]) = {names[j] : j \in 1..N}
  <2>1. N \in G
    <3> HIDE DEF N, G
    <3>1. QED BY <1>1, <1>11
  <2>2. N <= N  BY <1>1
  <2>3. QED BY <2>1, <2>2
<1>13. Entries(names) = {names[j] : j \in 1..N}  BY <1>1 DEF Entries
<1>14. QED BY <1>8, <1>12, <1>13 DEF Once

\* addVariablesFromTree meets the names of the variables of the tree.
LEMMA LiteralNames ==
  ASSUME NEW t \in Trees
  PROVE  Literals(t) \in Seq(Names) /\ Entries(Literals(t)) = NamesIn(t)
<1> DEFINE V == OfType("var")
           leaves == Nodes(t, V)
           names == [k \in DOMAIN leaves |-> leaves[k].var_name_]
<1>1. leaves \in Seq(V)  BY NodesFacts
<1>2. \A s \in V : s.var_name_ \in Names
  <2>1. \A s \in V : s \in Trees \ Leaf  BY TreesFacts DEF OfType, Leaf
  <2>2. QED BY <2>1, TreesFacts
<1>3. NamesIn(t) = {s.var_name_ : s \in NodeSet(t, V)}  BY NamesFacts
<1>4. Literals(t) = names  BY DEF Literals
<1>5. NodeSet(t, V) = {leaves[k] : k \in DOMAIN leaves}  BY DEF NodeSet, Entries
<1> HIDE DEF leaves, V
<1>6. DOMAIN leaves = 1..Len(leaves) /\ Len(leaves) \in Nat
      /\ \A k \in DOMAIN leaves : leaves[k] \in V
  BY <1>1
<1>7. names \in Seq(Names)  BY <1>2, <1>6
<1>8. Entries(names) = {leaves[k].var_name_ : k \in DOMAIN leaves}  BY DEF Entries
<1> HIDE DEF names
<1>9. Entries(names) = NamesIn(t)  BY <1>3, <1>5, <1>8
<1>10. QED BY <1>4, <1>7, <1>9

\* The tree of the file says that a1 and all the definitions hold.
NamesUpTo(N) == {Fresh(1)} \cup UNION {NamesIn(Definition(OpNodes(root)[k])) : k \in 1..N}

LEMMA FileTree ==
  ASSUME RootOK, functionArr \in Seq(Trees), Len(functionArr) = Len(OpNodes(root)),
         \A k \in 1..Len(functionArr) :
           functionArr[k] = ClausesOf(Definition(OpNodes(root)[k]))
  PROVE  LET t == constructTsetinTree
             D(k) == Definition(OpNodes(root)[k])
         IN  /\ t \in Trees
             /\ \A list \in Seq(Names) : \E ls : Dumped(t, list, ls)
             /\ NamesIn(t) = NamesUpTo(Len(functionArr))
             /\ \A m : Value(t, m) <=>
                         /\ m[Fresh(1)]
                         /\ \A k \in 1..Len(functionArr) : Value(D(k), m)
<1> DEFINE N == Len(functionArr)
           x == VarNode(Fresh(1))
           D(k) == Definition(OpNodes(root)[k])
           Step(f, k) == IF k = 0 THEN x ELSE Tree("and", f[k - 1], functionArr[k])
           C == CHOOSE f : f = [k \in 0..N |-> Step(f, k)]
           R == [k \in 0..N |-> TreesUpTo[7 + k]]
           step == [k \in 1..N |-> [t \in Trees |-> And(t, functionArr[k])]]
           Dumps(t) == \A list \in Seq(Names) : \E ls : Dumped(t, list, ls)
<1>1. N \in Nat /\ N + 7 <= MaxHeight /\ MaxHeight \in Nat /\ 1 <= MaxHeight
  BY Levels DEF RootOK
<1>2. x \in Vars /\ x.var_name_ = Fresh(1) /\ Fresh(1) \in Names
  BY DEF Vars, Fresh, Names, Letters, VarNode
<1> HIDE DEF x
<1>3. ASSUME NEW k \in 1..N
      PROVE  /\ functionArr[k] \in TreesUpTo[7] /\ functionArr[k] \in Trees
             /\ Dumps(functionArr[k])
             /\ NamesIn(functionArr[k]) = NamesIn(D(k))
             /\ \A m : Value(functionArr[k], m) = Value(D(k), m)
  <2> DEFINE d == D(k)
  <2>1. Stages(d) /\ functionArr[k] = ClausesOf(d)  BY NodeDefinition
  <2> HIDE DEF d
  <2>2. /\ ClausesOf(d) \in TreesUpTo[7] /\ ClausesOf(d) \in Trees
        /\ Cnf(ClausesOf(d))
        /\ NamesIn(ClausesOf(d)) = NamesIn(d)
        /\ \A m : Value(ClausesOf(d), m) = Value(d, m)
    BY <2>1 DEF Stages
  <2>3. Dumps(ClausesOf(d))  BY <2>2 DEF Cnf
  <2>4. QED BY <2>1, <2>2, <2>3 DEF d
<1>4. /\ x \in Trees /\ x \in TreesUpTo[7]
      /\ NamesIn(x) = {Fresh(1)}
      /\ \A m : Value(x, m) = m[Fresh(1)]
      /\ Dumps(x)
  <2>1. /\ x \in Trees /\ x \in TreesUpTo[1]
        /\ NamesIn(x) = {Fresh(1)} /\ \A m : Value(x, m) = m[Fresh(1)]
    BY <1>1, <1>2, VarFacts
  <2>2. 1 \in 0..MaxHeight /\ 7 \in 0..MaxHeight  BY <1>1
  <2>3. x \in TreesUpTo[7]  BY <2>1, <2>2, LevelsGrow
  <2>4. Dumps(x)  BY <1>1, <1>2, DumpedVariable
  <2>5. QED BY <2>1, <2>3, <2>4
<1>5. ASSUME NEW k \in 1..N, NEW t \in TreesUpTo[7 + (k - 1)]
      PROVE  And(t, functionArr[k]) \in TreesUpTo[7 + k]
             /\ And(t, functionArr[k]) \in Trees /\ t \in Trees
  <2>1. /\ 7 \in 0..MaxHeight /\ 7 + (k - 1) \in 0..MaxHeight /\ 7 + k \in 0..MaxHeight
        /\ (7 + (k - 1)) + 1 = 7 + k /\ 7 <= 7 + (k - 1) /\ 7 + k <= MaxHeight
    BY <1>1
  <2>2. functionArr[k] \in TreesUpTo[7 + (k - 1)]  BY <1>3, <2>1, LevelsGrow
  <2> DEFINE n == 7 + (k - 1)
  <2>3. /\ n \in 0..MaxHeight /\ n + 1 <= MaxHeight /\ n + 1 = 7 + k
        /\ t \in TreesUpTo[n] /\ functionArr[k] \in TreesUpTo[n]
    BY <2>1, <2>2
  <2> HIDE DEF n
  <2>4. "and" \in Node  BY DEF Node, Operators
  <2>5. And(t, functionArr[k]) \in TreesUpTo[n + 1] /\ And(t, functionArr[k]) \in Trees
    BY <2>3, <2>4, TreeFacts DEF And
  <2>6. t \in Trees  BY <2>3, TreesFacts
  <2>7. QED BY <2>3, <2>5, <2>6
<1>6. ChainData(N, R, x, step)
  <2>1. x \in R[0]
    <3>1. R[0] = TreesUpTo[7]  BY <1>1
    <3> HIDE DEF R
    <3>2. QED BY <1>4, <3>1
  <2>2. ASSUME NEW k \in 1..N, NEW before \in R[k - 1] PROVE step[k][before] \in R[k]
    <3>1. k \in 0..N /\ k - 1 \in 0..N  BY <1>1
    <3>2. before \in TreesUpTo[7 + (k - 1)]  BY <3>1
    <3>3. And(before, functionArr[k]) \in TreesUpTo[7 + k] /\ before \in Trees
      BY <1>5, <3>2
    <3>4. step[k][before] = And(before, functionArr[k])  BY <3>3
    <3> HIDE DEF step
    <3>5. R[k] = TreesUpTo[7 + k]  BY <3>1
    <3> HIDE DEF R
    <3>6. QED BY <3>3, <3>4, <3>5
  <2> HIDE DEF R, step, N
  <2>3. QED BY <1>1, <2>1, <2>2 DEF ChainData
<1>7. PICK f : IsChain(f, N, R, x, step)
  <2> HIDE DEF R, step, N
  <2>1. QED BY <1>6, ChainExists
<1>8. ASSUME NEW k \in 0..N PROVE f[k] \in TreesUpTo[7 + k]
  <2>1. f[k] \in R[k]
    <3> HIDE DEF R, step, N
    <3>1. QED BY <1>7 DEF IsChain
  <2>2. QED BY <2>1
<1>9. f = [k \in 0..N |-> Step(f, k)]
  <2>1. f = [k \in 0..N |-> IF k = 0 THEN x ELSE step[k][f[k - 1]]]
    <3> HIDE DEF R, step, N
    <3>1. QED BY <1>7 DEF IsChain
  <2>2. ASSUME NEW k \in 0..N
        PROVE  (IF k = 0 THEN x ELSE step[k][f[k - 1]]) = Step(f, k)
    <3>1. CASE k = 0  BY <3>1
    <3>2. CASE k # 0
      <4>1. k \in 1..N /\ k - 1 \in 0..N  BY <1>1, <3>2
      <4>2. f[k - 1] \in TreesUpTo[7 + (k - 1)]  BY <1>8, <4>1
      <4>3. f[k - 1] \in Trees  BY <1>5, <4>1, <4>2
      <4>4. step[k][f[k - 1]] = And(f[k - 1], functionArr[k])  BY <4>1, <4>3
      <4> HIDE DEF step
      <4>5. QED BY <3>2, <4>4 DEF And
    <3>3. QED BY <3>1, <3>2
  <2> HIDE DEF step, Step, N
  <2>3. QED BY <2>1, <2>2
<1>10. C = [k \in 0..N |-> Step(C, k)]
  <2> HIDE DEF Step, N
  <2>1. QED BY <1>9
<1>11. constructTsetinTree = C[N]  BY DEF constructTsetinTree, C, Step, N, x
<1> HIDE DEF C
<1> DEFINE Good(k) == /\ C[k] \in TreesUpTo[7 + k]
                      /\ Dumps(C[k])
                      /\ NamesIn(C[k]) = NamesUpTo(k)
                      /\ \A m : Value(C[k], m) <=>
                                  m[Fresh(1)] /\ \A j \in 1..k : Value(D(j), m)
           G == {k \in Nat : k <= N => Good(k)}
<1>12. 0 \in G
  <2>1. C[0] = x  BY <1>1, <1>10
  <2>2. NamesUpTo(0) = {Fresh(1)}  BY DEF NamesUpTo
  <2>3. \A j \in 1..0 : FALSE  OBVIOUS
  <2>4. ASSUME NEW m
        PROVE  Value(x, m) <=> m[Fresh(1)] /\ \A j \in 1..0 : Value(D(j), m)
    <3> HIDE DEF D
    <3>1. QED BY <1>4, <2>3
  <2>5. 7 + 0 = 7  OBVIOUS
  <2> HIDE DEF D, Dumps
  <2>6. QED BY <1>4, <2>1, <2>2, <2>4, <2>5
<1>13. ASSUME NEW k \in Nat, k \in G PROVE k + 1 \in G
  <2> SUFFICES ASSUME k + 1 <= N PROVE Good(k + 1)  OBVIOUS
  <2>1. k <= N /\ k + 1 \in 0..N /\ k + 1 \in 1..N /\ k + 1 # 0 /\ (k + 1) - 1 = k  BY <1>1
  <2>2. Good(k)  BY <1>13, <2>1
  <2> DEFINE a == C[k]  b == functionArr[k + 1]  t == And(a, b)
  <2>3. C[k + 1] = t
    <3>1. C[k + 1] = Step(C, k + 1)
      <4> HIDE DEF Step, N
      <4>1. QED BY <1>10, <2>1
    <3>2. QED BY <2>1, <3>1 DEF And
  <2>4. a \in TreesUpTo[7 + ((k + 1) - 1)]  BY <2>1, <2>2
  <2>5. t \in TreesUpTo[7 + (k + 1)] /\ t \in Trees /\ a \in Trees
    <3> HIDE DEF a
    <3>1. QED BY <1>5, <2>1, <2>4
  <2>6. /\ b \in Trees /\ Dumps(b) /\ NamesIn(b) = NamesIn(D(k + 1))
        /\ \A m : Value(b, m) = Value(D(k + 1), m)
    <3> HIDE DEF D, Dumps
    <3>1. QED BY <1>3, <2>1
  <2>7. Dumps(a) /\ NamesIn(a) = NamesUpTo(k)
        /\ \A m : Value(a, m) <=> m[Fresh(1)] /\ \A j \in 1..k : Value(D(j), m)
    <3> HIDE DEF D, Dumps
    <3>1. QED BY <2>2
  <2> HIDE DEF a, b, D
  <2>8. Dumps(t)  BY <2>5, <2>6, <2>7, DumpedConjunction
  <2>9. NamesIn(t) = NamesUpTo(k + 1)
    <3>1. "and" \in Operators  BY DEF Operators
    <3>2. NamesIn(t) = NamesIn(a) \cup NamesIn(b)  BY <2>5, <3>1, NodeRules DEF And
    <3>3. 1..k + 1 = 1..k \cup {k + 1}  OBVIOUS
    <3>4. NamesUpTo(k + 1) = NamesUpTo(k) \cup NamesIn(D(k + 1))
      BY <3>3 DEF NamesUpTo, D
    <3>5. QED BY <2>6, <2>7, <3>2, <3>4
  <2>10. ASSUME NEW m
         PROVE  Value(t, m) <=> m[Fresh(1)] /\ \A j \in 1..k + 1 : Value(D(j), m)
    <3>1. Value(t, m) <=> Value(a, m) /\ Value(b, m)  BY <2>5, Values
    <3>2. \A j : j \in 1..k + 1 <=> j \in 1..k \/ j = k + 1  OBVIOUS
    <3>3. Value(a, m) <=> m[Fresh(1)] /\ \A j \in 1..k : Value(D(j), m)  BY <2>7
    <3>4. Value(b, m) = Value(D(k + 1), m)  BY <2>6
    <3> HIDE DEF t
    <3>5. QED BY <3>1, <3>2, <3>3, <3>4
  <2> HIDE DEF t, Dumps
  <2>11. QED BY <2>3, <2>5, <2>8, <2>9, <2>10
<1>14. Nat \subseteq G
  <2> HIDE DEF G
  <2>1. QED BY <1>12, <1>13, SetInduction
<1>15. Good(N)
  <2>1. N \in G
    <3> HIDE DEF N, G
    <3>1. QED BY <1>1, <1>14
  <2>2. N <= N  BY <1>1
  <2>3. QED BY <2>1, <2>2
<1>16. C[N] \in Trees
  <2>1. 7 + N \in 0..MaxHeight  BY <1>1
  <2>2. C[N] \in TreesUpTo[7 + N]  BY <1>15
  <2>3. QED BY <2>1, <2>2, TreesFacts
<1>17. QED
  <2> HIDE DEF C
  <2>1. QED BY <1>11, <1>15, <1>16

-----------------------------------------------------------------------------
(* The file.                                                               *)

FileOK ==
  pc = "done" =>
    /\ variables = addVariables(Literals(constructTsetinTree))
    /\ clauses = countOpTypeNode(constructTsetinTree, "and") + 1
    /\ lines = LinesOf(dumpCNF(constructTsetinTree, variables))

LEMMA FileHolds == Spec => []FileOK
<1>1. Init => FileOK  BY DEF Init, FileOK
<1>2. FileOK /\ [Next]_vars => FileOK'
  <2> SUFFICES ASSUME FileOK, [Next]_vars, pc' = "done"
               PROVE  /\ variables' = addVariables(Literals(constructTsetinTree'))
                      /\ clauses' = countOpTypeNode(constructTsetinTree', "and") + 1
                      /\ lines' = LinesOf(dumpCNF(constructTsetinTree', variables'))
    BY DEF FileOK
  <2>1. CASE ToDimacs
    <3>1. constructTsetinTree' = constructTsetinTree
      BY <2>1 DEF ToDimacs, constructTsetinTree
    <3>2. QED BY <2>1, <3>1 DEF ToDimacs
  <2>2. CASE UNCHANGED vars
    <3>1. constructTsetinTree' = constructTsetinTree
      BY <2>2 DEF vars, constructTsetinTree
    <3>2. QED BY <2>2, <3>1 DEF vars, FileOK
  <2>3. CASE Define  BY <2>3 DEF Define
  <2>4. CASE RemoveBiImplication  BY <2>4 DEF RemoveBiImplication, Apply
  <2>5. CASE RemoveImplication  BY <2>5 DEF RemoveImplication, Apply
  <2>6. ASSUME NEW at \in {"double_neg", "demorgan", "distribute"}, NEW needed, NEW Pass,
               NEW next \in {"demorgan", "distribute", "again"},
               Loop(at, needed, Pass, next)
        PROVE  FALSE
    BY <2>6 DEF Loop, Apply
  <2>7. CASE RemoveDoubleNeg
    <3>1. Loop("double_neg", countDoubleNeg(functionArr[i]), removeDoubleNeg, "demorgan")
      BY <2>7 DEF RemoveDoubleNeg
    <3>2. QED BY <2>6, <3>1
  <2>8. CASE ApplyDemorgan
    <3>1. Loop("demorgan", countDemorgan(functionArr[i]), applyDemorgan, "distribute")
      BY <2>8 DEF ApplyDemorgan
    <3>2. QED BY <2>6, <3>1
  <2>9. CASE ApplyDistributive
    <3>1. Loop("distribute", countDistributiveOrOverAnd(functionArr[i]),
               applyDistibutiveOrOverAnd, "again")
      BY <2>9 DEF ApplyDistributive
    <3>2. QED BY <2>6, <3>1
  <2>10. CASE Again  BY <2>10 DEF Again
  <2>11. QED BY <2>1, <2>2, <2>3, <2>4, <2>5, <2>7, <2>8, <2>9, <2>10 DEF Next
<1>3. QED BY <1>1, <1>2, PTL DEF Spec

\* What is in the file when main returns.
LEMMA FileContents ==
  ASSUME IInv, FileOK, pc = "done"
  PROVE  LET D(k) == Definition(OpNodes(root)[k])
         IN  /\ Dumped(constructTsetinTree, variables, lines)
             /\ clauses = Len(lines)
             /\ variables \in Seq(Names)
             /\ Entries(variables) = NamesUpTo(Len(functionArr))
             /\ NamesIn(constructTsetinTree) = NamesUpTo(Len(functionArr))
             /\ \A name \in NamesUpTo(Len(functionArr)) :
                  findVar(variables, name) \in DOMAIN variables
                  /\ variables[findVar(variables, name)] = name
             /\ \A v \in DOMAIN variables : findVar(variables, variables[v]) = v
             /\ \A m : Value(constructTsetinTree, m) <=>
                         /\ m[Fresh(1)]
                         /\ \A k \in 1..Len(functionArr) : Value(D(k), m)
<1> DEFINE t == constructTsetinTree
           D(k) == Definition(OpNodes(root)[k])
           N == Len(functionArr)
           names == Literals(t)
<1>1. /\ functionArr \in Seq(Trees) /\ N = Len(OpNodes(root)) /\ N \in Nat
      /\ i = N + 1 /\ RootOK
  BY DEF IInv, ArrayOK, PlaceOK
<1>2. \A k \in 1..N : functionArr[k] = ClausesOf(D(k))
  <2> SUFFICES ASSUME NEW k \in 1..N PROVE functionArr[k] = ClausesOf(D(k))  OBVIOUS
  <2>1. k < i  BY <1>1
  <2>2. QED BY <2>1 DEF IInv, ArrayOK
<1>3. /\ t \in Trees
      /\ \A list \in Seq(Names) : \E ls : Dumped(t, list, ls)
      /\ NamesIn(t) = NamesUpTo(N)
      /\ \A m : Value(t, m) <=> m[Fresh(1)] /\ \A k \in 1..N : Value(D(k), m)
  BY <1>1, <1>2, FileTree
<1>4. /\ variables = addVariables(names)
      /\ clauses = countOpTypeNode(t, "and") + 1
      /\ lines = LinesOf(dumpCNF(t, variables))
  BY DEF FileOK
<1> HIDE DEF t
<1>5. names \in Seq(Names) /\ Entries(names) = NamesUpTo(N)  BY <1>3, LiteralNames
<1> HIDE DEF names
<1>6. /\ variables \in Seq(Names)
      /\ Entries(variables) = NamesUpTo(N)
      /\ \A j, k \in DOMAIN variables : variables[j] = variables[k] => j = k
  BY <1>4, <1>5, ListedNames
<1>7. PICK ls : Dumped(t, variables, ls)  BY <1>3, <1>6
<1>8. lines = ls
  <2>1. Body(ls)  BY <1>7 DEF Dumped
  <2>2. dumpCNF(t, variables) = Append(ls, << >>) \/ dumpCNF(t, variables) = ls
    BY <1>7 DEF Dumped
  <2>3. QED BY <1>4, <2>1, <2>2, BodyFacts
<1>9. clauses = Len(lines)  BY <1>4, <1>7, <1>8 DEF Dumped
<1>10. \A name \in NamesUpTo(N) :
         findVar(variables, name) \in DOMAIN variables
         /\ variables[findVar(variables, name)] = name
  <2> SUFFICES ASSUME NEW name \in NamesUpTo(N)
               PROVE  findVar(variables, name) \in DOMAIN variables
                      /\ variables[findVar(variables, name)] = name
    OBVIOUS
  <2>1. \E k \in DOMAIN variables : variables[k] = name  BY <1>6 DEF Entries
  <2>2. QED BY <1>6, <2>1, FindVarFacts
<1>11. \A v \in DOMAIN variables : findVar(variables, variables[v]) = v
  <2> SUFFICES ASSUME NEW v \in DOMAIN variables
               PROVE  findVar(variables, variables[v]) = v
    OBVIOUS
  <2>1. variables[v] \in NamesUpTo(N)  BY <1>6 DEF Entries
  <2>2. QED BY <1>6, <1>10, <2>1
<1>12. QED BY <1>3, <1>6, <1>7, <1>8, <1>9, <1>10, <1>11 DEF t

\* The file is one that the DPLL solver of assignment-2 reads, whatever the
\* formula: its header counts its lines and its variables, no line is empty and
\* no variable is missing.
THEOREM WritesDimacs == Spec => []DimacsWellFormed
<1>1. IInv /\ FileOK => DimacsWellFormed
  <2> SUFFICES ASSUME IInv, FileOK, pc = "done"
               PROVE  /\ Len(lines) = clauses
                      /\ \A k \in DOMAIN lines :
                           /\ lines[k] # << >>
                           /\ \A j \in DOMAIN lines[k] :
                                lines[k][j] \in (-Len(variables)..Len(variables)) \ {0}
                      /\ \A v \in DOMAIN variables :
                           \E k \in DOMAIN lines : \E j \in DOMAIN lines[k] :
                             lines[k][j] \in {v, -v}
    BY DEF DimacsWellFormed
  <2> DEFINE t == constructTsetinTree
             names == NamesIn(t)
             n(name) == findVar(variables, name)
  <2>1. /\ Dumped(t, variables, lines)
        /\ clauses = Len(lines)
        /\ variables \in Seq(Names)
        /\ Entries(variables) = names
        /\ \A name \in names : n(name) \in DOMAIN variables
        /\ \A v \in DOMAIN variables : n(variables[v]) = v
    BY FileContents
  <2> HIDE DEF t, names, n
  <2>2. /\ Body(lines)
        /\ \A l \in Numbers(lines) : \E name \in names : l \in {n(name), -n(name)}
        /\ \A name \in names : \E l \in Numbers(lines) : l \in {n(name), -n(name)}
    BY <2>1 DEF Dumped, names, n
  <2>3. lines \in Seq(Seq(Int)) /\ << >> \notin Entries(lines)
    BY <2>2, BodyFacts DEF Body
  <2>4. ASSUME NEW k \in DOMAIN lines
        PROVE  /\ lines[k] # << >>
               /\ \A j \in DOMAIN lines[k] :
                    lines[k][j] \in (-Len(variables)..Len(variables)) \ {0}
    <3>1. lines[k] \in Entries(lines)  BY DEF Entries
    <3>2. ASSUME NEW j \in DOMAIN lines[k]
          PROVE  lines[k][j] \in (-Len(variables)..Len(variables)) \ {0}
      <4>1. lines[k][j] \in Numbers(lines)  BY <3>1 DEF Numbers, Entries
      <4>2. PICK name \in names : lines[k][j] \in {n(name), -n(name)}  BY <2>2, <4>1
      <4>3. n(name) \in 1..Len(variables) /\ Len(variables) \in Nat  BY <2>1
      <4>4. QED BY <4>2, <4>3
    <3>3. QED BY <2>3, <3>1, <3>2
  <2>5. ASSUME NEW v \in DOMAIN variables
        PROVE  \E k \in DOMAIN lines : \E j \in DOMAIN lines[k] : lines[k][j] \in {v, -v}
    <3>1. variables[v] \in names  BY <2>1 DEF Entries
    <3>2. PICK l \in Numbers(lines) : l \in {v, -v}  BY <2>1, <2>2, <3>1
    <3>3. PICK line \in Entries(lines) : l \in Entries(line)  BY DEF Numbers
    <3>4. QED BY <3>2, <3>3 DEF Entries
  <2>6. QED BY <2>1, <2>4, <2>5
<1>2. QED BY <1>1, InvHolds, FileHolds, PTL

-----------------------------------------------------------------------------
(* The models of the file.                                                 *)

OpSet(t) == NodeSet(t, Ops)

LEMMA OpSetFacts ==
  /\ \A t : OpSet(t) = Entries(OpNodes(t))
  /\ OpSet(Null) = {}
  /\ \A t \in Formulas : t.type_ = "var" => OpSet(t) = {}
  /\ \A t \in Formulas : t.type_ # "var" =>
       /\ t \in OpSet(t)
       /\ OpSet(t) = {t} \cup (OpSet(t.left_) \cup OpSet(t.right_))
  /\ \A t \in Formulas : \A s \in OpSet(t) : s \in Formulas /\ IsOp(s)
<1>1. ASSUME NEW t PROVE OpSet(t) = Entries(OpNodes(t))
  <2>1. OpNodes(t) = Nodes(t, Ops)  BY DEF OpNodes, Ops
  <2>2. QED BY <2>1 DEF OpSet, NodeSet
<1>2. \A t \in Formulas : t \in Trees \ Leaf  BY FormulaFacts
<1>3. OpSet(Null) = {} /\ \A t \in Formulas : t.type_ = "var" => OpSet(t) = {}
  <2>1. Entries(<< >>) = {}  BY DEF Entries
  <2>2. QED BY <1>1, <2>1, OperatorNodes
<1>4. ASSUME NEW t \in Formulas, t.type_ # "var"
      PROVE  t \in OpSet(t) /\ OpSet(t) = {t} \cup (OpSet(t.left_) \cup OpSet(t.right_))
  <2>1. t \in Ops  BY <1>2, <1>4, OperatorNodes DEF Ops
  <2>2. OpSet(t) = ({t} \cap Ops) \cup (OpSet(t.left_) \cup OpSet(t.right_))
    BY <1>2, NodeSetFacts DEF OpSet
  <2>3. QED BY <2>1, <2>2
<1>5. ASSUME NEW t \in Formulas, NEW s \in OpSet(t) PROVE s \in Formulas /\ IsOp(s)
  <2>1. PICK k \in DOMAIN OpNodes(t) : s = OpNodes(t)[k]  BY <1>1 DEF Entries
  <2>2. QED BY <2>1, OperatorNodes
<1>6. QED BY <1>1, <1>3, <1>4, <1>5

\* An operator node of a tree says nothing of names that the tree lacks, and
\* its children are operator nodes of the tree or variables of it.
Below(u, s) ==
  /\ NamesIn(s) \subseteq NamesIn(u)
  /\ \A c \in {s.left_, s.right_} :
       c = Null \/ c \in OpSet(u) \/ (c.type_ = "var" /\ c.var_name_ \in NamesIn(u))

LEMMA OperatorsBelow == \A u \in Formulas : \A s \in OpSet(u) : Below(u, s)
<1> DEFINE S == {Null} \cup {u \in Formulas : \A s \in OpSet(u) : Below(u, s)}
<1>1. ASSUME NEW u \in Formulas, u.left_ \in S /\ u.right_ \in S PROVE u \in S
  <2> SUFFICES ASSUME NEW s \in OpSet(u) PROVE Below(u, s)  OBVIOUS
  <2>1. CASE u.type_ = "var"  BY <2>1, OpSetFacts
  <2>2. CASE u.type_ # "var"
    <3>1. OpSet(u) = {u} \cup (OpSet(u.left_) \cup OpSet(u.right_))  BY <2>2, OpSetFacts
    <3>2. u \in Trees \ Leaf  BY FormulaFacts
    <3>3. NamesIn(u) = NamesIn(u.left_) \cup NamesIn(u.right_)  BY <2>2, <3>2, NamesFacts
    <3>4. ASSUME NEW c \in {u.left_, u.right_}
          PROVE  c = Null \/ c \in OpSet(u) \/ (c.type_ = "var" /\ c.var_name_ \in NamesIn(u))
      <4>1. CASE c = Null  BY <4>1
      <4>2. CASE c # Null /\ c.type_ = "var"
        <5>1. c \in Formulas  BY <1>1, <4>2
        <5>2. c \in Trees \ Leaf  BY <5>1, FormulaFacts
        <5>3. c.var_name_ \in NamesIn(c)  BY <4>2, <5>2, NamesFacts
        <5>4. QED BY <3>3, <3>4, <4>2, <5>3
      <4>3. CASE c # Null /\ c.type_ # "var"
        <5>1. c \in Formulas  BY <1>1, <4>3
        <5>2. c \in OpSet(c)  BY <4>3, <5>1, OpSetFacts
        <5>3. QED BY <3>1, <3>4, <5>2
      <4>4. QED BY <4>1, <4>2, <4>3
    <3>5. CASE s = u  BY <3>4, <3>5 DEF Below
    <3>6. ASSUME NEW d \in {u.left_, u.right_}, s \in OpSet(d) PROVE Below(u, s)
      <4>1. d # Null  BY <3>6, OpSetFacts
      <4>2. Below(d, s)  BY <1>1, <3>6, <4>1
      <4>3. NamesIn(d) \subseteq NamesIn(u) /\ OpSet(d) \subseteq OpSet(u)  BY <3>1, <3>3, <3>6
      <4>4. QED BY <4>2, <4>3 DEF Below
    <3>7. QED BY <3>1, <3>5, <3>6
  <2>3. QED BY <2>1, <2>2
<1>2. Formulas \subseteq S
  <2>1. Null \in S  OBVIOUS
  <2> HIDE DEF S
  <2>2. QED BY <1>1, <2>1, FormulaInduction
<1>3. Null \notin Formulas  BY FormulaFacts DEF Leaf
<1>4. QED BY <1>2, <1>3

\* Every name of a formula with an operator is in a definition.
LEMMA NamesDefined ==
  ASSUME 8 <= MaxHeight
  PROVE  \A u \in Formulas : u.type_ # "var" =>
           NamesIn(u) \subseteq UNION {NamesIn(Definition(s)) : s \in OpSet(u)}
<1> DEFINE DefNames(t) == UNION {NamesIn(Definition(s)) : s \in OpSet(t)}
           S == {Null} \cup {u \in Formulas : u.type_ # "var" => NamesIn(u) \subseteq DefNames(u)}
<1>1. ASSUME NEW u \in Formulas, u.left_ \in S /\ u.right_ \in S PROVE u \in S
  <2> SUFFICES ASSUME u.type_ # "var" PROVE NamesIn(u) \subseteq DefNames(u)  OBVIOUS
  <2>1. OpSet(u) = {u} \cup (OpSet(u.left_) \cup OpSet(u.right_))  BY OpSetFacts
  <2>2. u \in Trees \ Leaf  BY FormulaFacts
  <2>3. NamesIn(u) = NamesIn(u.left_) \cup NamesIn(u.right_)  BY <2>2, NamesFacts
  <2>4. NamesIn(Definition(u)) \subseteq DefNames(u)  BY <2>1
  <2>5. IsOp(u)  BY OperatorNodes
  <2>6. NamesIn(Definition(u)) = {u.var_name_, u.left_.var_name_}
                                 \cup IF u.type_ = "not" THEN {} ELSE {u.right_.var_name_}
    BY <2>5, DefinitionOfNode
  <2>7. u.type_ = "not" => u.right_ = Null  BY FormulaFacts
  <2>8. ASSUME NEW c \in {u.left_, u.right_} PROVE NamesIn(c) \subseteq DefNames(u)
    <3>1. CASE c = Null
      <4>1. NamesIn(c) = {}  BY <3>1, NamesFacts DEF Leaf
      <4>2. QED BY <4>1
    <3>2. CASE c # Null /\ c.type_ = "var"
      <4>1. c \in Formulas  BY <1>1, <3>2
      <4>2. c \in Trees \ Leaf /\ c.left_ = Null /\ c.right_ = Null
        BY <3>2, <4>1, FormulaFacts
      <4>3. NamesIn(c) = {c.var_name_} \cup (NamesIn(Null) \cup NamesIn(Null))
        BY <3>2, <4>2, NamesFacts
      <4>4. NamesIn(Null) = {}  BY NamesFacts DEF Leaf
      <4>5. c.var_name_ \in NamesIn(Definition(u))
        <5>1. CASE c = u.left_  BY <2>6, <5>1
        <5>2. CASE c = u.right_  BY <2>6, <2>7, <3>2, <5>2
        <5>3. QED BY <2>8, <5>1, <5>2
      <4>6. QED BY <2>4, <4>3, <4>4, <4>5
    <3>3. CASE c # Null /\ c.type_ # "var"
      <4>1. NamesIn(c) \subseteq DefNames(c)  BY <1>1, <3>3
      <4>2. OpSet(c) \subseteq OpSet(u)  BY <2>1, <2>8
      <4>3. DefNames(c) \subseteq DefNames(u)  BY <4>2
      <4> HIDE DEF DefNames
      <4>4. QED BY <4>1, <4>3
    <3>4. QED BY <3>1, <3>2, <3>3
  <2> HIDE DEF DefNames
  <2>9. QED BY <2>3, <2>8
<1>2. Formulas \subseteq S
  <2>1. Null \in S  OBVIOUS
  <2> HIDE DEF S
  <2>2. QED BY <1>1, <2>1, FormulaInduction
<1>3. Null \notin Formulas  BY FormulaFacts DEF Leaf
<1>4. \A u \in Formulas : u.type_ # "var" => NamesIn(u) \subseteq DefNames(u)
  <2> HIDE DEF DefNames
  <2>1. QED BY <1>2, <1>3
<1>5. QED BY <1>4

\* The value of a formula depends on its names only.
LEMMA ValueDepends ==
  ASSUME NEW m1, NEW m2
  PROVE  \A u \in Formulas :
           (\A name \in NamesIn(u) : m1[name] = m2[name]) => (Value(u, m1) <=> Value(u, m2))
<1> DEFINE Same(u) == \A name \in NamesIn(u) : m1[name] = m2[name]
           S == {Null} \cup {u \in Formulas : Same(u) => (Value(u, m1) <=> Value(u, m2))}
<1>1. ASSUME NEW u \in Formulas, u.left_ \in S /\ u.right_ \in S PROVE u \in S
  <2> SUFFICES ASSUME Same(u) PROVE Value(u, m1) <=> Value(u, m2)  OBVIOUS
  <2>1. u \in Trees \ Leaf /\ (u.type_ # "var" => u.type_ \in Operators)  BY FormulaFacts
  <2>2. NamesIn(u) = (IF u.type_ = "var" THEN {u.var_name_} ELSE {})
                     \cup (NamesIn(u.left_) \cup NamesIn(u.right_))
    BY <2>1, NamesFacts
  <2>3. CASE u.type_ = "var"
    <3>1. Value(u, m1) = m1[u.var_name_] /\ Value(u, m2) = m2[u.var_name_]
      BY <2>1, <2>3, ValueFacts
    <3>2. m1[u.var_name_] = m2[u.var_name_]  BY <2>2, <2>3
    <3>3. QED BY <3>1, <3>2
  <2>4. CASE u.type_ # "var"
    <3> DEFINE l == u.left_  r == u.right_
    <3>1. Same(l) /\ Same(r)  BY <2>2
    <3>2. l # Null /\ (u.type_ # "not" => r # Null)
      <4>1. l \in Formulas /\ (u.type_ # "not" => r \in Formulas)  BY <2>4, FormulaFacts
      <4>2. QED BY <4>1, FormulaFacts DEF Leaf
    <3>3. Value(l, m1) <=> Value(l, m2)
      <4> HIDE DEF Same
      <4>1. QED BY <1>1, <3>1, <3>2
    <3>4. u.type_ # "not" => (Value(r, m1) <=> Value(r, m2))
      <4> HIDE DEF Same
      <4>1. QED BY <1>1, <3>1, <3>2
    <3>5. CASE u.type_ = "not"  BY <2>1, <3>3, <3>5, ValueFacts
    <3>6. CASE u.type_ = "and"  BY <2>1, <3>3, <3>4, <3>6, ValueFacts
    <3>7. CASE u.type_ = "or"  BY <2>1, <3>3, <3>4, <3>7, ValueFacts
    <3>8. CASE u.type_ = "implication"  BY <2>1, <3>3, <3>4, <3>8, ValueFacts
    <3>9. CASE u.type_ = "bi_implication"  BY <2>1, <3>3, <3>4, <3>9, ValueFacts
    <3>10. QED BY <2>1, <2>4, <3>5, <3>6, <3>7, <3>8, <3>9 DEF Operators
  <2>5. QED BY <2>3, <2>4
<1>2. Formulas \subseteq S
  <2>1. Null \in S  OBVIOUS
  <2> HIDE DEF S
  <2>2. QED BY <1>1, <2>1, FormulaInduction
<1>3. Null \notin Formulas  BY FormulaFacts DEF Leaf
<1>4. \A u \in Formulas : Same(u) => (Value(u, m1) <=> Value(u, m2))
  <2> HIDE DEF Same
  <2>1. QED BY <1>2, <1>3
<1>5. QED BY <1>4

\* What the definition of s says to those who know the values of its children.
LEMMA DefinitionMeans ==
  ASSUME 8 <= MaxHeight, NEW s \in Formulas, IsOp(s), NEW g, NEW m,
         g[s.left_.var_name_] <=> Value(s.left_, m),
         s.type_ # "not" => (g[s.right_.var_name_] <=> Value(s.right_, m))
  PROVE  Value(Definition(s), g) <=> (g[s.var_name_] <=> Value(s, m))
<1> DEFINE l == g[s.left_.var_name_]  r == g[s.right_.var_name_]  x == g[s.var_name_]
           d == Value(Definition(s), g)
<1>1. s \in Trees /\ s.type_ \in Operators  BY FormulaFacts DEF IsOp
<1>2. d <=> (x <=> CASE s.type_ = "not" -> ~ l
                     [] s.type_ = "and" -> l /\ r
                     [] s.type_ = "or" -> l \/ r
                     [] s.type_ = "implication" -> (l => r)
                     [] OTHER -> (l <=> r))
  BY DefinitionOfNode
<1>3. /\ l <=> Value(s.left_, m)
      /\ s.type_ # "not" => (r <=> Value(s.right_, m))
  OBVIOUS
<1> HIDE DEF l, r, x, d
<1>4. CASE s.type_ = "not"
  <2>1. Value(s, m) <=> ~ Value(s.left_, m)  BY <1>1, <1>4, ValueFacts
  <2>2. d <=> (x <=> ~ l)  BY <1>2, <1>4
  <2>3. d <=> (x <=> Value(s, m))  BY <1>3, <2>1, <2>2
  <2>4. QED BY <2>3 DEF d, x
<1>5. CASE s.type_ = "and"
  <2>1. Value(s, m) <=> Value(s.left_, m) /\ Value(s.right_, m)  BY <1>1, <1>5, ValueFacts
  <2>2. d <=> (x <=> l /\ r)  BY <1>2, <1>5
  <2>3. d <=> (x <=> Value(s, m))  BY <1>3, <1>5, <2>1, <2>2
  <2>4. QED BY <2>3 DEF d, x
<1>6. CASE s.type_ = "or"
  <2>1. Value(s, m) <=> Value(s.left_, m) \/ Value(s.right_, m)  BY <1>1, <1>6, ValueFacts
  <2>2. d <=> (x <=> l \/ r)  BY <1>2, <1>6
  <2>3. d <=> (x <=> Value(s, m))  BY <1>3, <1>6, <2>1, <2>2
  <2>4. QED BY <2>3 DEF d, x
<1>7. CASE s.type_ = "implication"
  <2>1. Value(s, m) <=> (Value(s.left_, m) => Value(s.right_, m))  BY <1>1, <1>7, ValueFacts
  <2>2. d <=> (x <=> (l => r))  BY <1>2, <1>7
  <2>3. d <=> (x <=> Value(s, m))  BY <1>3, <1>7, <2>1, <2>2
  <2>4. QED BY <2>3 DEF d, x
<1>8. CASE s.type_ = "bi_implication"
  <2>1. Value(s, m) <=> (Value(s.left_, m) <=> Value(s.right_, m))  BY <1>1, <1>8, ValueFacts
  <2>2. d <=> (x <=> (l <=> r))  BY <1>2, <1>8
  <2>3. d <=> (x <=> Value(s, m))  BY <1>3, <1>8, <2>1, <2>2
  <2>4. QED BY <2>3 DEF d, x
<1>9. QED BY <1>1, <1>4, <1>5, <1>6, <1>7, <1>8 DEF Operators

\* The definitions leave the variables of the operator nodes no choice: each
\* has the value of its node.
LEMMA Determined ==
  ASSUME 8 <= MaxHeight, NEW g
  PROVE  \A u \in Formulas :
           (\A s \in OpSet(u) : Value(Definition(s), g)) =>
             \A s \in OpSet(u) : g[s.var_name_] <=> Value(s, g)
<1> DEFINE Holds(u) == \A s \in OpSet(u) : Value(Definition(s), g)
           Fixed(u) == \A s \in OpSet(u) : g[s.var_name_] <=> Value(s, g)
           S == {Null} \cup {u \in Formulas : Holds(u) => Fixed(u)}
<1>1. ASSUME NEW u \in Formulas, u.left_ \in S /\ u.right_ \in S PROVE u \in S
  <2> SUFFICES ASSUME Holds(u), NEW s \in OpSet(u)
               PROVE  g[s.var_name_] <=> Value(s, g)
    OBVIOUS
  <2>1. u.type_ # "var"  BY OpSetFacts
  <2>2. OpSet(u) = {u} \cup (OpSet(u.left_) \cup OpSet(u.right_)) /\ u \in OpSet(u) /\ IsOp(u)
    BY <2>1, OpSetFacts, OperatorNodes
  <2>3. ASSUME NEW c \in {u.left_, u.right_}, c # Null
        PROVE  Fixed(c) /\ (g[c.var_name_] <=> Value(c, g))
    <3>1. c \in Formulas /\ (Holds(c) => Fixed(c))
      <4> HIDE DEF Holds, Fixed
      <4>1. QED BY <1>1, <2>3
    <3>2. Holds(c)  BY <2>2, <2>3
    <3>3. Fixed(c)  BY <3>1, <3>2
    <3>4. CASE c.type_ = "var"
      <4>1. c \in Trees  BY <3>1, FormulaFacts
      <4>2. Value(c, g) = g[c.var_name_]  BY <3>4, <4>1, ValueFacts
      <4>3. QED BY <3>3, <4>2
    <3>5. CASE c.type_ # "var"
      <4>1. c \in OpSet(c)  BY <3>1, <3>5, OpSetFacts
      <4>2. QED BY <3>3, <4>1
    <3>6. QED BY <3>4, <3>5
  <2>4. u.left_ # Null /\ (u.type_ # "not" => u.right_ # Null)
    <3>1. u.left_ \in Formulas /\ (u.type_ # "not" => u.right_ \in Formulas)
      BY <2>1, FormulaFacts
    <3>2. QED BY <3>1, FormulaFacts DEF Leaf
  <2>5. CASE s = u
    <3>1. g[u.left_.var_name_] <=> Value(u.left_, g)  BY <2>3, <2>4
    <3>2. u.type_ # "not" => (g[u.right_.var_name_] <=> Value(u.right_, g))
      BY <2>3, <2>4
    <3>3. Value(Definition(u), g) <=> (g[u.var_name_] <=> Value(u, g))
      BY <2>2, <3>1, <3>2, DefinitionMeans
    <3>4. Value(Definition(u), g)  BY <2>2
    <3>5. QED BY <2>5, <3>3, <3>4
  <2>6. ASSUME NEW c \in {u.left_, u.right_}, s \in OpSet(c)
        PROVE  g[s.var_name_] <=> Value(s, g)
    <3>1. c # Null  BY <2>6, OpSetFacts
    <3>2. Fixed(c)  BY <2>3, <3>1
    <3>3. QED BY <2>6, <3>2
  <2>7. QED BY <2>2, <2>5, <2>6
<1>2. Formulas \subseteq S
  <2>1. Null \in S  OBVIOUS
  <2> HIDE DEF S
  <2>2. QED BY <1>1, <2>1, FormulaInduction
<1>3. Null \notin Formulas  BY FormulaFacts DEF Leaf
<1>4. \A u \in Formulas : Holds(u) => Fixed(u)
  <2> HIDE DEF Holds, Fixed
  <2>1. QED BY <1>2, <1>3
<1>5. QED BY <1>4

\* Every valuation of the formula's names can be extended to the variables of
\* the operator nodes.
LEMMA Extended ==
  ASSUME RootOK, Numbered(OpNodes(root), 0), NEW m0,
         NEW g,
         \A name \in NamesIn(root) : g[name] = m0[name],
         \A k \in 1..Len(OpNodes(root)) : g[Fresh(k)] = Value(OpNodes(root)[k], m0)
  PROVE  \A k \in 1..Len(OpNodes(root)) : Value(Definition(OpNodes(root)[k]), g)
<1> DEFINE N == Len(OpNodes(root))  Op(k) == OpNodes(root)[k]
<1>1. root \in Formulas /\ root \in Trees  BY FormulaFacts DEF RootOK
<1>2. N \in Nat /\ DOMAIN OpNodes(root) = 1..N  BY <1>1, OperatorNodes
<1>3. \A s \in OpSet(root) : \E k \in 1..N : s = Op(k)
  BY <1>2, OpSetFacts DEF Entries
<1>4. \A k \in 1..N : Op(k).var_name_ = Fresh(k)
  <2> SUFFICES ASSUME NEW k \in 1..N PROVE Op(k).var_name_ = Fresh(k)  OBVIOUS
  <2>1. Op(k).var_name_ = Fresh(0 + k)  BY DEF Numbered
  <2>2. 0 + k = k  BY <1>2
  <2>3. QED BY <2>1, <2>2
<1>5. ASSUME NEW k \in 1..N PROVE Value(Definition(Op(k)), g)
  <2> DEFINE s == Op(k)
  <2>1. s \in Formulas /\ IsOp(s) /\ 8 <= MaxHeight  BY NodeDefinition
  <2>2. s \in OpSet(root)  BY <1>2, OpSetFacts DEF Entries
  <2>3. s.var_name_ = Fresh(k) /\ g[Fresh(k)] = Value(s, m0)  BY <1>4
  <2> HIDE DEF s
  <2>4. Below(root, s)  BY <1>1, <2>2, OperatorsBelow
  <2>5. ASSUME NEW c \in {s.left_, s.right_}, c \in Formulas
        PROVE  g[c.var_name_] = Value(c, m0)
    <3>1. c \in Trees \ Leaf  BY <2>5, FormulaFacts
    <3>2. CASE c \in OpSet(root)
      <4>1. PICK j \in 1..N : c = Op(j)  BY <1>3, <3>2
      <4>2. c.var_name_ = Fresh(j)  BY <1>4, <4>1
      <4>3. g[Fresh(j)] = Value(c, m0)  BY <4>1
      <4>4. QED BY <4>2, <4>3
    <3>3. CASE c.type_ = "var" /\ c.var_name_ \in NamesIn(root)
      <4>1. Value(c, m0) = m0[c.var_name_]  BY <3>1, <3>3, ValueFacts
      <4>2. QED BY <3>3, <4>1
    <3>4. c # Null  BY <3>1 DEF Leaf
    <3>5. QED BY <2>4, <2>5, <3>2, <3>3, <3>4 DEF Below
  <2>6. s.left_ \in Formulas /\ (s.type_ # "not" => s.right_ \in Formulas)
    BY <2>1, FormulaFacts DEF IsOp, Operators
  <2>7. g[s.left_.var_name_] <=> Value(s.left_, m0)
    <3>1. g[s.left_.var_name_] = Value(s.left_, m0)  BY <2>5, <2>6
    <3>2. QED BY <3>1
  <2>8. s.type_ # "not" => (g[s.right_.var_name_] <=> Value(s.right_, m0))
    <3>1. s.type_ # "not" => g[s.right_.var_name_] = Value(s.right_, m0)  BY <2>5, <2>6
    <3>2. QED BY <3>1
  <2>9. Value(Definition(s), g) <=> (g[s.var_name_] <=> Value(s, m0))
    BY <2>1, <2>7, <2>8, DefinitionMeans
  <2>10. g[s.var_name_] <=> Value(s, m0)  BY <2>3
  <2>11. Value(Definition(s), g)  BY <2>9, <2>10
  <2>12. QED BY <2>11 DEF s
<1>6. QED BY <1>5

\* The variables of the file stand for the names of the formula and for the
\* operator nodes.
LEMMA NamesCovered ==
  ASSUME RootOK, Numbered(OpNodes(root), 0), IsOp(root)
  PROVE  LET N == Len(OpNodes(root))
         IN  /\ N \in Nat /\ N >= 1 /\ 8 <= MaxHeight
             /\ root \in Formulas /\ OpNodes(root)[1] = root
             /\ \A k \in 1..N : OpNodes(root)[k].var_name_ = Fresh(k)
             /\ \A k \in 1..N : OpNodes(root)[k] \in OpSet(root)
             /\ \A s \in OpSet(root) : \E k \in 1..N : s = OpNodes(root)[k]
             /\ NamesIn(root) \subseteq NamesUpTo(N)
             /\ \A k \in 1..N : Fresh(k) \in NamesUpTo(N)
             /\ NamesUpTo(N) \subseteq NamesIn(root) \cup {Fresh(k) : k \in 1..N}
<1> DEFINE N == Len(OpNodes(root))  Op(k) == OpNodes(root)[k]  D(k) == Definition(Op(k))
<1>1. root \in Formulas /\ root \in Trees /\ root.type_ # "var"
  BY FormulaFacts DEF RootOK, IsOp, Operators
<1>2. N \in Nat /\ DOMAIN OpNodes(root) = 1..N  BY <1>1, OperatorNodes
<1>3. Op(1) = root /\ N >= 1
  <2>1. root.left_ \in Trees /\ root.right_ \in Trees  BY <1>1, FormulaFacts, TreesFacts
  <2>2. Len(OpNodes(root.left_)) \in Nat /\ Len(OpNodes(root.right_)) \in Nat
    BY <2>1, OperatorNodes
  <2>3. N = 1 + Len(OpNodes(root.left_)) + Len(OpNodes(root.right_)) /\ Op(1) = root
    BY <1>1, OperatorNodes
  <2>4. QED BY <2>2, <2>3
<1>4. 8 <= MaxHeight  BY <1>2, <1>3, Levels DEF RootOK
<1>5. \A s \in OpSet(root) : \E k \in 1..N : s = Op(k)
  BY <1>2, OpSetFacts DEF Entries
<1>6. \A k \in 1..N : Op(k).var_name_ = Fresh(k) /\ Op(k) \in OpSet(root)
  <2> SUFFICES ASSUME NEW k \in 1..N
               PROVE  Op(k).var_name_ = Fresh(k) /\ Op(k) \in OpSet(root)
    OBVIOUS
  <2>1. Op(k).var_name_ = Fresh(0 + k)  BY DEF Numbered
  <2>2. 0 + k = k  BY <1>2
  <2>3. Op(k) \in OpSet(root)  BY <1>2, OpSetFacts DEF Entries
  <2>4. QED BY <2>1, <2>2, <2>3
<1>7. ASSUME NEW k \in 1..N
      PROVE  /\ Op(k) \in Formulas /\ IsOp(Op(k))
             /\ NamesIn(D(k)) = {Op(k).var_name_, Op(k).left_.var_name_}
                                \cup IF Op(k).type_ = "not" THEN {}
                                     ELSE {Op(k).right_.var_name_}
  <2> DEFINE s == Op(k)
  <2>1. s \in Formulas /\ IsOp(s)  BY NodeDefinition
  <2> HIDE DEF s
  <2>2. NamesIn(Definition(s)) = {s.var_name_, s.left_.var_name_}
                                 \cup IF s.type_ = "not" THEN {} ELSE {s.right_.var_name_}
    BY <1>4, <2>1, DefinitionOfNode
  <2>3. QED BY <2>1, <2>2 DEF s
<1>8. NamesIn(root) \subseteq NamesUpTo(N)
  <2>1. NamesIn(root) \subseteq UNION {NamesIn(Definition(s)) : s \in OpSet(root)}
    BY <1>1, <1>4, NamesDefined
  <2>2. UNION {NamesIn(Definition(s)) : s \in OpSet(root)} \subseteq UNION {NamesIn(D(k)) : k \in 1..N}
    BY <1>5
  <2>3. QED BY <2>1, <2>2 DEF NamesUpTo
<1>9. \A k \in 1..N : NamesIn(D(k)) \subseteq NamesUpTo(N)  BY DEF NamesUpTo
<1>10. \A k \in 1..N : Fresh(k) \in NamesUpTo(N)
  <2> HIDE DEF D
  <2>1. QED BY <1>6, <1>7, <1>9
<1>11. NamesUpTo(N) \subseteq NamesIn(root) \cup {Fresh(k) : k \in 1..N}
  <2> DEFINE All == NamesIn(root) \cup {Fresh(k) : k \in 1..N}
  <2>1. Fresh(1) \in All  BY <1>2, <1>3
  <2>2. ASSUME NEW k \in 1..N PROVE NamesIn(D(k)) \subseteq All
    <3> DEFINE s == Op(k)
    <3>1. Below(root, s) /\ s \in Formulas /\ IsOp(s)  BY <1>1, <1>6, <1>7, OperatorsBelow
    <3>2. s.var_name_ \in All  BY <1>6
    <3> HIDE DEF s
    <3>3. ASSUME NEW c \in {s.left_, s.right_}, c \in Formulas PROVE c.var_name_ \in All
      <4>1. c # Null  BY <3>3, FormulaFacts DEF Leaf
      <4>2. CASE c \in OpSet(root)
        <5>1. PICK j \in 1..N : c = Op(j)  BY <1>5, <4>2
        <5>2. c.var_name_ = Fresh(j)  BY <1>6, <5>1
        <5>3. QED BY <5>2
      <4>3. CASE c.type_ = "var" /\ c.var_name_ \in NamesIn(root)  BY <4>3
      <4>4. QED BY <3>1, <3>3, <4>1, <4>2, <4>3 DEF Below
    <3>4. s.left_ \in Formulas /\ (s.type_ # "not" => s.right_ \in Formulas)
      BY <3>1, FormulaFacts DEF IsOp, Operators
    <3>5. s.left_.var_name_ \in All /\ (s.type_ # "not" => s.right_.var_name_ \in All)
      <4> HIDE DEF All
      <4>1. QED BY <3>3, <3>4
    <3>6. NamesIn(D(k)) = {s.var_name_, s.left_.var_name_}
                          \cup IF s.type_ = "not" THEN {} ELSE {s.right_.var_name_}
      BY <1>7 DEF s
    <3> HIDE DEF All, D
    <3>7. QED BY <3>2, <3>5, <3>6
  <2> HIDE DEF All
  <2>3. QED BY <2>1, <2>2 DEF NamesUpTo, All
<1>12. QED BY <1>1, <1>2, <1>3, <1>4, <1>5, <1>6, <1>8, <1>10, <1>11

\* When m gives the variables of the file what g gives their names, the file
\* says of m that a1 and all the definitions hold of g.
LEMMA FileSays ==
  ASSUME IInv, FileOK, pc = "done", NEW m, NEW g,
         \A name \in NamesUpTo(Len(functionArr)) : m[findVar(variables, name)] = g[name]
  PROVE  IsModel(m) <=>
           /\ g[Fresh(1)]
           /\ \A k \in 1..Len(functionArr) : Value(Definition(OpNodes(root)[k]), g)
<1> DEFINE t == constructTsetinTree
           Said == /\ g[Fresh(1)]
                   /\ \A k \in 1..Len(functionArr) : Value(Definition(OpNodes(root)[k]), g)
<1>1. /\ Dumped(t, variables, lines)
      /\ NamesIn(t) = NamesUpTo(Len(functionArr))
      /\ Value(t, g) <=> Said
  BY FileContents
<1>2. Agree(t, variables, m, g)  BY <1>1 DEF Agree
<1> HIDE DEF t, Said
<1>3. Satisfied(lines, m) <=> Value(t, g)  BY <1>1, <1>2 DEF Dumped
<1>4. IsModel(m) <=> Satisfied(lines, m)
  <2>1. IsModel(m) <=> \A k \in DOMAIN lines : \E j \in DOMAIN lines[k] : LitTrue(lines[k][j], m)
    BY DEF IsModel, LitTrue
  <2>2. \A k \in DOMAIN lines :
          (\E j \in DOMAIN lines[k] : LitTrue(lines[k][j], m))
            <=> \E n \in Entries(lines[k]) : LitTrue(n, m)
    BY DEF Entries
  <2>3. Satisfied(lines, m)
          <=> \A k \in DOMAIN lines : \E n \in Entries(lines[k]) : LitTrue(n, m)
    <3>1. Entries(lines) = {lines[k] : k \in DOMAIN lines}  BY DEF Entries
    <3>2. QED BY <3>1 DEF Satisfied
  <2>4. QED BY <2>1, <2>2, <2>3
<1>5. QED BY <1>1, <1>3, <1>4 DEF Said

\* The models of the file of a formula with an operator.
LEMMA OperatorModels ==
  ASSUME IInv, FileOK, pc = "done", IsOp(root)
  PROVE  LET names == NamesIn(root)
             Part(m) == [n \in names |-> m[findVar(variables, n)]]
         IN  /\ {Part(m) : m \in FileModels} = FormulaModels
             /\ \A m1, m2 \in FileModels : Part(m1) = Part(m2) => m1 = m2
<1> DEFINE N == Len(functionArr)
           Op(k) == OpNodes(root)[k]
           NR == NamesIn(root)
           NS == NamesUpTo(N)
           V(name) == findVar(variables, name)
           Part(m) == [n \in NR |-> m[V(n)]]
           All(m) == [name \in NS |-> m[V(name)]]
<1>1. RootOK /\ Numbered(OpNodes(root), 0) /\ N = Len(OpNodes(root))
  BY DEF IInv, RootOK, ArrayOK
<1>2. /\ N \in Nat /\ N >= 1 /\ 8 <= MaxHeight
      /\ root \in Formulas /\ Op(1) = root
      /\ \A k \in 1..N : Op(k).var_name_ = Fresh(k)
      /\ \A k \in 1..N : Op(k) \in OpSet(root)
      /\ \A s \in OpSet(root) : \E k \in 1..N : s = Op(k)
      /\ NR \subseteq NS
      /\ \A k \in 1..N : Fresh(k) \in NS
      /\ NS \subseteq NR \cup {Fresh(k) : k \in 1..N}
  BY <1>1, NamesCovered
<1>3. \A k \in 1..N : Fresh(k) \notin NR  BY <1>1 DEF RootOK
<1>4. /\ variables \in Seq(Names) /\ Entries(variables) = NS
      /\ \A name \in NS : V(name) \in DOMAIN variables /\ variables[V(name)] = name
      /\ \A v \in DOMAIN variables : V(variables[v]) = v
  BY FileContents
<1>5. \A v \in DOMAIN variables : variables[v] \in NS  BY <1>4 DEF Entries
<1>6. 1 \in 1..N  BY <1>2
<1> HIDE DEF NS, NR, V
<1>7. ASSUME NEW m \in FileModels
      PROVE  /\ Part(m) \in FormulaModels
             /\ \A k \in 1..N : m[V(Fresh(k))] <=> Value(Op(k), Part(m))
  <2> DEFINE g == All(m)
  <2>1. m \in [DOMAIN variables -> BOOLEAN] /\ IsModel(m)  BY DEF FileModels
  <2>2. \A name \in NS : m[V(name)] = g[name]  OBVIOUS
  <2> HIDE DEF g
  <2>3. g[Fresh(1)] /\ \A k \in 1..N : Value(Definition(Op(k)), g)
    BY <2>1, <2>2, FileSays DEF NS, V
  <2>4. \A s \in OpSet(root) : Value(Definition(s), g)  BY <1>2, <2>3
  <2>5. \A s \in OpSet(root) : g[s.var_name_] <=> Value(s, g)
    BY <1>2, <2>4, Determined
  <2> DEFINE p == Part(m)
  <2>6. \A name \in NR : g[name] = p[name]  BY <1>2, <2>2
  <2>7. p \in [NR -> BOOLEAN]  BY <1>2, <1>4, <2>1
  <2> HIDE DEF p
  <2>8. ASSUME NEW k \in 1..N PROVE m[V(Fresh(k))] <=> Value(Op(k), p)
    <3> DEFINE s == Op(k)
    <3>1. s \in OpSet(root) /\ s.var_name_ = Fresh(k)  BY <1>2
    <3> HIDE DEF s
    <3>2. s \in Formulas /\ Below(root, s)  BY <1>2, <3>1, OpSetFacts, OperatorsBelow
    <3>3. \A name \in NamesIn(s) : g[name] = p[name]  BY <2>6, <3>2 DEF Below, NR
    <3>4. Value(s, g) <=> Value(s, p)  BY <3>2, <3>3, ValueDepends
    <3>5. g[Fresh(k)] <=> Value(s, g)  BY <2>5, <3>1
    <3>6. m[V(Fresh(k))] = g[Fresh(k)]  BY <1>2, <2>2
    <3>7. m[V(Fresh(k))] <=> Value(s, p)  BY <3>4, <3>5, <3>6
    <3>8. QED BY <3>7 DEF s
  <2>9. Value(root, p)
    <3>1. m[V(Fresh(1))] <=> Value(root, p)  BY <1>2, <1>6, <2>8
    <3>2. m[V(Fresh(1))] = g[Fresh(1)]  BY <1>2, <1>6, <2>2
    <3>3. QED BY <2>3, <3>1, <3>2
  <2>10. QED BY <2>7, <2>8, <2>9 DEF p, FormulaModels, NR
<1>8. ASSUME NEW m0 \in FormulaModels
      PROVE  \E m \in FileModels : Part(m) = m0
  <2>1. m0 \in [NR -> BOOLEAN] /\ Value(root, m0)  BY DEF FormulaModels, NR
  <2> DEFINE g == [name \in NS |-> IF name \in NR THEN m0[name] ELSE Value(Op(name[2]), m0)]
  <2>2. \A name \in NR : g[name] = m0[name]  BY <1>2
  <2>3. \A k \in 1..N : g[Fresh(k)] = Value(Op(k), m0)
    <3> SUFFICES ASSUME NEW k \in 1..N PROVE g[Fresh(k)] = Value(Op(k), m0)  OBVIOUS
    <3>1. Fresh(k) \in NS /\ Fresh(k) \notin NR  BY <1>2, <1>3
    <3>2. Fresh(k)[2] = k  BY DEF Fresh
    <3>3. QED BY <3>1, <3>2
  <2> HIDE DEF g
  <2>4. ASSUME NEW name \in NS PROVE g[name] \in BOOLEAN
    <3>1. CASE name \in NR  BY <2>1, <2>2, <3>1
    <3>2. CASE name \notin NR
      <4>1. PICK k \in 1..N : name = Fresh(k)  BY <1>2, <3>2
      <4> DEFINE s == Op(k)
      <4>2. s \in OpSet(root)  BY <1>2
      <4>3. g[name] = Value(s, m0)  BY <2>3, <4>1
      <4> HIDE DEF s
      <4>4. s \in Formulas /\ IsOp(s)  BY <1>2, <4>2, OpSetFacts
      <4>5. s \in Trees /\ s.type_ # "var"  BY <4>4, FormulaFacts DEF IsOp, Operators
      <4>6. Value(s, m0) \in BOOLEAN  BY <4>5, ValueFacts
      <4>7. QED BY <4>3, <4>6
    <3>3. QED BY <3>1, <3>2
  <2>5. \A k \in 1..N : Value(Definition(Op(k)), g)
    <3>1. \A name \in NamesIn(root) : g[name] = m0[name]  BY <2>2 DEF NR
    <3>2. \A k \in 1..Len(OpNodes(root)) : g[Fresh(k)] = Value(OpNodes(root)[k], m0)
      BY <1>1, <2>3
    <3>3. QED BY <1>1, <3>1, <3>2, Extended
  <2>6. g[Fresh(1)]
    <3>1. g[Fresh(1)] = Value(root, m0)  BY <1>2, <1>6, <2>3
    <3>2. QED BY <2>1, <3>1
  <2> DEFINE m == [v \in DOMAIN variables |-> g[variables[v]]]
  <2>7. m \in [DOMAIN variables -> BOOLEAN]  BY <1>5, <2>4
  <2>8. \A name \in NS : m[V(name)] = g[name]  BY <1>4
  <2>9. Part(m) = m0
    <3>1. \A n \in NR : m[V(n)] = m0[n]  BY <1>2, <2>2, <2>8
    <3> HIDE DEF m
    <3>2. m0 = [n \in NR |-> m0[n]]  BY <2>1
    <3>3. QED BY <3>1, <3>2
  <2> HIDE DEF m
  <2>10. IsModel(m)  BY <2>5, <2>6, <2>8, FileSays DEF NS, V
  <2>11. m \in FileModels  BY <2>7, <2>10 DEF FileModels
  <2>12. QED BY <2>9, <2>11
<1>9. ASSUME NEW m1 \in FileModels, NEW m2 \in FileModels, Part(m1) = Part(m2)
      PROVE  m1 = m2
  <2>1. m1 \in [DOMAIN variables -> BOOLEAN] /\ m2 \in [DOMAIN variables -> BOOLEAN]
    BY DEF FileModels
  <2>2. ASSUME NEW v \in DOMAIN variables PROVE m1[v] = m2[v]
    <3> DEFINE name == variables[v]
    <3>1. name \in NS /\ V(name) = v  BY <1>4, <1>5
    <3> HIDE DEF name
    <3>2. CASE name \in NR
      <4>1. m1[v] = Part(m1)[name]  BY <3>1, <3>2
      <4>2. m2[v] = Part(m2)[name]  BY <3>1, <3>2
      <4> HIDE DEF Part
      <4>3. QED BY <1>9, <4>1, <4>2
    <3>3. CASE name \notin NR
      <4>1. PICK k \in 1..N : name = Fresh(k)  BY <1>2, <3>1, <3>3
      <4> HIDE DEF Part
      <4>2. m1[v] <=> Value(Op(k), Part(m1))  BY <1>7, <3>1, <4>1
      <4>3. m2[v] <=> Value(Op(k), Part(m2))  BY <1>7, <3>1, <4>1
      <4>4. m1[v] <=> m2[v]  BY <1>9, <4>2, <4>3
      <4>5. m1[v] \in BOOLEAN /\ m2[v] \in BOOLEAN  BY <2>1
      <4>6. QED BY <4>4, <4>5
    <3>4. QED BY <3>2, <3>3
  <2>3. QED BY <2>1, <2>2
<1>10. {Part(m) : m \in FileModels} = FormulaModels
  <2> HIDE DEF Part
  <2>1. QED BY <1>7, <1>8
<1>11. QED BY <1>9, <1>10 DEF Part, NR, V

\* The file is satisfiable iff the formula is, and if the formula has an
\* operator its models are those of the file, without the variables added, one
\* for one: what the whole program is for, whatever the formula.
THEOREM PreservesModels == Spec => []ModelsPreserved
<1>1. IInv /\ FileOK => ModelsPreserved
  <2> SUFFICES ASSUME IInv, FileOK, pc = "done" PROVE ModelsPreserved
    BY DEF ModelsPreserved
  <2>1. CASE IsOp(root)
    <3> DEFINE Part(m) == [n \in NamesIn(root) |-> m[findVar(variables, n)]]
    <3>1. /\ {Part(m) : m \in FileModels} = FormulaModels
          /\ \A m1, m2 \in FileModels : Part(m1) = Part(m2) => m1 = m2
      BY <2>1, OperatorModels
    <3>2. FileModels = {} <=> FormulaModels = {}
      <4> HIDE DEF Part
      <4>1. QED BY <3>1
    <3>3. QED BY <3>1, <3>2 DEF ModelsPreserved
  <2>2. CASE ~ IsOp(root)
    <3>1. root \in Formulas /\ root \in Trees \ Leaf /\ root.type_ = "var"
      BY <2>2, FormulaFacts DEF IInv, RootOK, IsOp
    <3>2. FormulaModels # {}
      <4> DEFINE m == [n \in NamesIn(root) |-> TRUE]
      <4>1. root.var_name_ \in NamesIn(root)  BY <3>1, NamesFacts
      <4>2. m \in [NamesIn(root) -> BOOLEAN] /\ m[root.var_name_] = TRUE  BY <4>1
      <4> HIDE DEF m
      <4>3. Value(root, m) = m[root.var_name_]  BY <3>1, ValueFacts
      <4>4. m \in FormulaModels  BY <4>2, <4>3 DEF FormulaModels
      <4>5. QED BY <4>4
    <3>3. FileModels # {}
      <4> DEFINE m == [v \in DOMAIN variables |-> TRUE]
                 NS == NamesUpTo(Len(functionArr))
                 g == [name \in NS |-> TRUE]
      <4>1. Len(functionArr) = 0
        <5>1. OpNodes(root) = << >>  BY <3>1, OperatorNodes
        <5>2. QED BY <5>1 DEF IInv, ArrayOK
      <4>2. Fresh(1) \in NS  BY DEF NamesUpTo
      <4>3. \A name \in NS : findVar(variables, name) \in DOMAIN variables
        BY FileContents
      <4>4. \A name \in NS : m[findVar(variables, name)] = g[name]  BY <4>3
      <4>5. m \in [DOMAIN variables -> BOOLEAN]  OBVIOUS
      <4>6. g[Fresh(1)]  BY <4>2
      <4> HIDE DEF m, g, NS
      <4>7. \A k \in 1..Len(functionArr) : Value(Definition(OpNodes(root)[k]), g)
        BY <4>1
      <4>8. IsModel(m)  BY <4>4, <4>6, <4>7, FileSays DEF NS
      <4>9. m \in FileModels  BY <4>5, <4>8 DEF FileModels
      <4>10. QED BY <4>9
    <3>4. QED BY <2>2, <3>2, <3>3 DEF ModelsPreserved
  <2>3. QED BY <2>1, <2>2
<1>2. QED BY <1>1, InvHolds, FileHolds, PTL
=============================================================================

---------------------- MODULE CongruenceClosureProofs ----------------------
(***************************************************************************)
(* Proofs about CongruenceClosure for every set of node tables.             *)
(***************************************************************************)
EXTENDS CongruenceClosure, Recursion, FiniteSetTheorems

-----------------------------------------------------------------------------
(* Representatives: the recursion of Find over acyclic links.              *)

IsRoots(r, c) == r = [n \in DOMAIN c |-> IF c[n] = n THEN n ELSE r[c[n]]]

HasRoots(c) == \E r : IsRoots(r, c)

\* Links in which every node leads to a representative.
IsForest(c) == c \in [DOMAIN c -> DOMAIN c] /\ Acyclic(c) /\ HasRoots(c)

\* There is one function that follows acyclic links.
LEMMA RootsUnique ==
  ASSUME NEW c, c \in [DOMAIN c -> DOMAIN c], Acyclic(c),
         NEW r, IsRoots(r, c), NEW s, IsRoots(s, c)
  PROVE  r = s
<1> DEFINE S == {n \in DOMAIN c : r[n] = s[n]}
<1>1. ASSUME NEW n \in DOMAIN c, c[n] = n \/ c[n] \in S PROVE n \in S
  <2>1. /\ r[n] = IF c[n] = n THEN n ELSE r[c[n]]
        /\ s[n] = IF c[n] = n THEN n ELSE s[c[n]]
    BY DEF IsRoots
  <2>2. QED BY <1>1, <2>1
<1>2. S \in SUBSET DOMAIN c  OBVIOUS
<1>3. S = DOMAIN c
  <2> HIDE DEF S
  <2>1. QED BY <1>1, <1>2 DEF Acyclic
<1>4. \A n \in DOMAIN c : r[n] = s[n]  BY <1>3
<1>5. QED BY <1>4 DEF IsRoots

\* Find follows the links.
LEMMA RootIsRoots ==
  ASSUME NEW c, HasRoots(c)
  PROVE  IsRoots(Root(c), c)
<1>1. Root(c) = CHOOSE r : r = [n \in DOMAIN c |-> IF c[n] = n THEN n ELSE r[c[n]]]
  BY DEF Root
<1>2. PICK r : r = [n \in DOMAIN c |-> IF c[n] = n THEN n ELSE r[c[n]]]
  BY DEF HasRoots, IsRoots
<1>3. QED BY <1>1, <1>2 DEF IsRoots

\* Find returns a representative, and a representative finds itself.
LEMMA RootFacts ==
  ASSUME NEW c, IsForest(c)
  PROVE  /\ Root(c) \in [DOMAIN c -> DOMAIN c]
         /\ \A n \in DOMAIN c : c[Root(c)[n]] = Root(c)[n]
         /\ \A n \in DOMAIN c : c[n] = n => Root(c)[n] = n
         /\ \A n \in DOMAIN c : Root(c)[n] = n => c[n] = n
         /\ \A n \in DOMAIN c : Root(c)[c[n]] = Root(c)[n]
<1> DEFINE r == Root(c)
           S == {n \in DOMAIN c : r[n] \in DOMAIN c /\ c[r[n]] = r[n]}
<1>1. r = [n \in DOMAIN c |-> IF c[n] = n THEN n ELSE r[c[n]]]
  BY RootIsRoots DEF IsForest, IsRoots
<1> HIDE DEF r
<1>2. ASSUME NEW n \in DOMAIN c
      PROVE  r[n] = IF c[n] = n THEN n ELSE r[c[n]]
  BY <1>1
<1>3. ASSUME NEW n \in DOMAIN c, c[n] = n \/ c[n] \in S PROVE n \in S
  BY <1>2, <1>3
<1>4. S = DOMAIN c
  <2>1. S \in SUBSET DOMAIN c  OBVIOUS
  <2> HIDE DEF S
  <2>2. QED BY <1>3, <2>1 DEF IsForest, Acyclic
<1>5. \A n \in DOMAIN c : r[n] \in DOMAIN c /\ c[r[n]] = r[n]  BY <1>4
<1>6. r \in [DOMAIN c -> DOMAIN c]  BY <1>1, <1>5
<1>7. \A n \in DOMAIN c : c[n] = n => r[n] = n  BY <1>2
<1>8. \A n \in DOMAIN c : r[c[n]] = r[n]  BY <1>2, <1>7
<1>9. \A n \in DOMAIN c : r[n] = n => c[n] = n  BY <1>5
<1>10. QED BY <1>5, <1>6, <1>7, <1>8, <1>9 DEF r

\* Linking a representative to another keeps the links acyclic and moves
\* exactly its class.
LEMMA LinkRoots ==
  ASSUME NEW c, IsForest(c), NEW i \in DOMAIN c, NEW j \in DOMAIN c,
         c[i] = i, c[j] = j, i # j,
         NEW d, d \in [DOMAIN c -> DOMAIN c],
         \A n \in DOMAIN c : d[n] = IF n = i THEN j ELSE c[n]
  PROVE  /\ IsForest(d)
         /\ \A n \in DOMAIN c : Root(d)[n] = IF Root(c)[n] = i THEN j ELSE Root(c)[n]
<1> DEFINE r == Root(c)
           s == [n \in DOMAIN c |-> IF r[n] = i THEN j ELSE r[n]]
<1>1. DOMAIN d = DOMAIN c /\ d \in [DOMAIN c -> DOMAIN c]
      /\ \A n \in DOMAIN c : d[n] = IF n = i THEN j ELSE c[n]
  OBVIOUS
<1>2. Acyclic(d)
  <2> SUFFICES ASSUME NEW S \in SUBSET DOMAIN d,
                      \A n \in DOMAIN d : d[n] = n \/ d[n] \in S => n \in S
               PROVE  S = DOMAIN d
    BY DEF Acyclic
  <2>1. j \in S  BY <1>1
  <2>2. i \in S  BY <1>1, <2>1
  <2>3. \A n \in DOMAIN c : c[n] = n \/ c[n] \in S => n \in S  BY <1>1, <2>2
  <2>4. QED BY <1>1, <2>3 DEF IsForest, Acyclic
<1>3. IsRoots(s, d)
  <2>1. ASSUME NEW n \in DOMAIN c
        PROVE  s[n] = IF d[n] = n THEN n ELSE s[d[n]]
    <3>1. r[n] = n <=> c[n] = n  BY RootFacts
    <3>2. r[c[n]] = r[n] /\ c[n] \in DOMAIN c  BY RootFacts DEF IsForest
    <3>3. r[i] = i /\ r[j] = j  BY RootFacts
    <3> HIDE DEF r
    <3>4. CASE n = i  BY <1>1, <3>3, <3>4
    <3>5. CASE n # i /\ c[n] = n  BY <1>1, <3>1, <3>5
    <3>6. CASE n # i /\ c[n] # n  BY <1>1, <3>2, <3>6
    <3>7. QED BY <3>4, <3>5, <3>6
  <2> HIDE DEF r
  <2>2. s = [n \in DOMAIN d |-> IF d[n] = n THEN n ELSE s[d[n]]]  BY <1>1, <2>1
  <2> HIDE DEF s
  <2>3. QED BY <2>2 DEF IsRoots
<1>4. HasRoots(d)  BY <1>3 DEF HasRoots
<1>5. Root(d) = s
  <2>1. IsRoots(Root(d), d)  BY <1>4, RootIsRoots
  <2>2. d \in [DOMAIN d -> DOMAIN d]  BY <1>1
  <2> HIDE DEF s
  <2>3. QED BY <1>2, <1>3, <2>1, <2>2, RootsUnique
<1>6. QED BY <1>1, <1>2, <1>4, <1>5 DEF IsForest

\* Before any merge every node is its own representative.
LEMMA InitialForest ==
  ASSUME NEW S, NEW c, c = [n \in S |-> n]
  PROVE  IsForest(c) /\ DOMAIN c = S
<1>1. Acyclic(c)  BY DEF Acyclic
<1>2. IsRoots(c, c)  BY DEF IsRoots
<1>3. QED BY <1>1, <1>2 DEF IsForest, HasRoots

-----------------------------------------------------------------------------
(* std::set_union.                                                         *)

Positions(v1, v2) == (1..Len(v1) + 1) \X (1..Len(v2) + 1)

\* What is merged from positions p on, given what U merges from later ones.
SetUnionStep(v1, v2, U, p) ==
  IF p[1] > Len(v1) THEN SubSeq(v2, p[2], Len(v2))
  ELSE IF p[2] > Len(v2) THEN SubSeq(v1, p[1], Len(v1))
  ELSE IF v1[p[1]] < v2[p[2]] THEN <<v1[p[1]]>> \o U[<<p[1] + 1, p[2]>>]
  ELSE IF v2[p[2]] < v1[p[1]] THEN <<v2[p[2]]>> \o U[<<p[1], p[2] + 1>>]
  ELSE <<v1[p[1]]>> \o U[<<p[1] + 1, p[2] + 1>>]

IsSetUnion(v1, v2, U) == U = [p \in Positions(v1, v2) |-> SetUnionStep(v1, v2, U, p)]

\* A step only looks at later positions.
LEMMA SetUnionStepLocal ==
  ASSUME NEW v1, NEW v2, Len(v1) \in Nat, Len(v2) \in Nat,
         NEW p \in Positions(v1, v2), NEW g, NEW h,
         \A q \in Positions(v1, v2) : q[1] + q[2] > p[1] + p[2] => g[q] = h[q]
  PROVE  SetUnionStep(v1, v2, g, p) = SetUnionStep(v1, v2, h, p)
<1>1. p[1] \in 1..Len(v1) + 1 /\ p[2] \in 1..Len(v2) + 1  BY DEF Positions
<1>2. CASE p[1] > Len(v1) \/ p[2] > Len(v2)  BY <1>1, <1>2 DEF SetUnionStep
<1>3. CASE ~ (p[1] > Len(v1)) /\ ~ (p[2] > Len(v2))
  <2>1. /\ <<p[1] + 1, p[2]>> \in Positions(v1, v2)
        /\ <<p[1], p[2] + 1>> \in Positions(v1, v2)
        /\ <<p[1] + 1, p[2] + 1>> \in Positions(v1, v2)
    BY <1>1, <1>3 DEF Positions
  <2>2. /\ g[<<p[1] + 1, p[2]>>] = h[<<p[1] + 1, p[2]>>]
        /\ g[<<p[1], p[2] + 1>>] = h[<<p[1], p[2] + 1>>]
        /\ g[<<p[1] + 1, p[2] + 1>>] = h[<<p[1] + 1, p[2] + 1>>]
    BY <1>1, <2>1, SMTT(30)
  <2>3. QED BY <2>2 DEF SetUnionStep
<1>4. QED BY <1>2, <1>3

\* The recursion of std::set_union is well-founded.
LEMMA SetUnionExists ==
  ASSUME NEW v1, NEW v2, Len(v1) \in Nat, Len(v2) \in Nat
  PROVE  \E U : IsSetUnion(v1, v2, U)
<1> DEFINE D == Positions(v1, v2)
           T == Len(v1) + Len(v2) + 2
           Step(g, p) == SetUnionStep(v1, v2, g, p)
           Solves(g, k) == \A p \in D : p[1] + p[2] + k >= T => g[p] = Step(g, p)
           S == {k \in Nat : \E g : Solves(g, k)}
<1>0. \A p \in D : p[1] \in 1..Len(v1) + 1 /\ p[2] \in 1..Len(v2) + 1  BY DEF Positions
<1>1. 0 \in S
  <2> DEFINE g == [p \in D |-> Step(<< >>, p)]
  <2>1. ASSUME NEW p \in D, p[1] + p[2] + 0 >= T PROVE g[p] = Step(g, p)
    <3>1. p[1] > Len(v1)  BY <1>0, <2>1
    <3>2. \A h : Step(h, p) = SubSeq(v2, p[2], Len(v2))  BY <3>1 DEF SetUnionStep
    <3> HIDE DEF Step
    <3>3. QED BY <3>2
  <2> HIDE DEF g, Step, D, T
  <2>2. QED BY <2>1
<1>2. ASSUME NEW k \in Nat, k \in S PROVE k + 1 \in S
  <2>1. PICK g : Solves(g, k)  BY <1>2
  <2> DEFINE h == [p \in D |-> IF p[1] + p[2] + (k + 1) >= T THEN Step(g, p) ELSE g[p]]
  <2>2. ASSUME NEW p \in D, p[1] + p[2] + k >= T PROVE h[p] = g[p]
    <3>1. p[1] + p[2] + (k + 1) >= T  BY <1>0, <2>2
    <3> HIDE DEF Step, D, T
    <3>2. QED BY <2>1, <2>2, <3>1
  <2>3. ASSUME NEW p \in D, p[1] + p[2] + (k + 1) >= T PROVE h[p] = Step(h, p)
    <3>1. \A q \in D : q[1] + q[2] > p[1] + p[2] => h[q] = g[q]
      <4>1. \A q \in D : q[1] + q[2] > p[1] + p[2] => q[1] + q[2] + k >= T
        BY <1>0, <2>3, SMTT(30)
      <4> HIDE DEF h
      <4>2. QED BY <2>2, <4>1
    <3>2. Step(h, p) = Step(g, p)
      <4> HIDE DEF h
      <4>1. QED BY <3>1, SetUnionStepLocal
    <3> HIDE DEF Step, D, T
    <3>3. QED BY <2>3, <3>2
  <2> HIDE DEF h, Step, D, T
  <2>4. Solves(h, k + 1)  BY <2>3
  <2>5. QED BY <2>4
<1>3. T \in S
  <2> HIDE DEF S
  <2>1. QED BY <1>1, <1>2, SetInduction
<1>4. PICK g : Solves(g, T)  BY <1>3
<1> DEFINE U == [p \in D |-> g[p]]
<1>5. ASSUME NEW p \in D PROVE U[p] = Step(U, p)
  <2>1. g[p] = Step(g, p)
    <3>1. p[1] + p[2] + T >= T  BY <1>0
    <3> HIDE DEF Step, D, T
    <3>2. QED BY <1>4, <3>1
  <2>2. \A q \in D : q[1] + q[2] > p[1] + p[2] => U[q] = g[q]  OBVIOUS
  <2>3. Step(U, p) = Step(g, p)
    <3> HIDE DEF U
    <3>1. QED BY <2>2, SetUnionStepLocal
  <2>4. QED BY <2>1, <2>3
<1>6. U = [p \in D |-> Step(U, p)]
  <2>1. U = [p \in D |-> U[p]]  OBVIOUS
  <2> HIDE DEF U, Step
  <2>2. QED BY <1>5, <2>1
<1>7. IsSetUnion(v1, v2, U)
  <2> HIDE DEF U
  <2>1. QED BY <1>6 DEF IsSetUnion
<1> HIDE DEF U
<1>8. QED BY <1>7

\* The elements of vectors put together.
LEMMA ElementsConcatenated ==
  ASSUME NEW X, NEW x \in X, NEW t \in Seq(X)
  PROVE  <<x>> \o t \in Seq(X) /\ Elements(<<x>> \o t) = {x} \cup Elements(t)
<1> DEFINE s == <<x>> \o t
<1>1. s \in Seq(X) /\ Len(s) = Len(t) + 1  OBVIOUS
<1>2. s[1] = x /\ \A k \in 1..Len(t) : s[k + 1] = t[k]  OBVIOUS
<1>3. DOMAIN s = 1..Len(t) + 1 /\ DOMAIN t = 1..Len(t) /\ Len(t) \in Nat  BY <1>1
<1>4. \A k \in DOMAIN s : s[k] \in {x} \cup Elements(t)
  <2>1. ASSUME NEW k \in DOMAIN s, k # 1 PROVE s[k] \in Elements(t)
    <3>1. k - 1 \in 1..Len(t) /\ s[(k - 1) + 1] = t[k - 1]  BY <1>2, <1>3, <2>1
    <3>2. (k - 1) + 1 = k  BY <1>3, <2>1
    <3>3. QED BY <1>3, <3>1, <3>2 DEF Elements
  <2>2. QED BY <1>2, <2>1
<1>5. \A k \in DOMAIN t : t[k] \in Elements(s)
  <2>1. ASSUME NEW k \in DOMAIN t PROVE t[k] \in Elements(s)
    <3>1. k + 1 \in DOMAIN s  BY <1>3
    <3>2. QED BY <1>2, <1>3, <3>1 DEF Elements
  <2>2. QED BY <2>1
<1>6. x \in Elements(s)  BY <1>2, <1>3 DEF Elements
<1> HIDE DEF s
<1>7. Elements(s) = {x} \cup Elements(t)  BY <1>4, <1>5, <1>6 DEF Elements
<1>8. QED BY <1>1, <1>7 DEF s

\* The elements of the rest of a vector.
LEMMA ElementsOfRest ==
  ASSUME NEW X, NEW v \in Seq(X), NEW a \in 1..Len(v) + 1
  PROVE  /\ SubSeq(v, a, Len(v)) \in Seq(X)
         /\ Elements(SubSeq(v, a, Len(v))) = {v[k] : k \in a..Len(v)}
<1> DEFINE s == SubSeq(v, a, Len(v))
           n == Len(v) - a + 1
<1>1. Len(v) \in Nat /\ n \in Nat  OBVIOUS
<1>2. s \in Seq(X) /\ Len(s) = n  OBVIOUS
<1>3. \A k \in 1..n : s[k] = v[a + k - 1]  OBVIOUS
<1>4. DOMAIN s = 1..n  BY <1>2
<1>5. \A k \in 1..n : s[k] \in {v[m] : m \in a..Len(v)}
  <2>1. \A k \in 1..n : a + k - 1 \in a..Len(v)  BY <1>1
  <2> HIDE DEF s, n
  <2>2. QED BY <1>3, <2>1
<1>6. \A m \in a..Len(v) : v[m] \in Elements(s)
  <2>1. ASSUME NEW m \in a..Len(v) PROVE v[m] \in Elements(s)
    <3>1. m - a + 1 \in 1..n /\ a + (m - a + 1) - 1 = m  BY <1>1
    <3> HIDE DEF s, n
    <3>2. s[m - a + 1] = v[m]  BY <1>3, <3>1
    <3>3. QED BY <1>4, <3>1, <3>2 DEF Elements
  <2>2. QED BY <2>1
<1> HIDE DEF s, n
<1>7. Elements(s) = {v[k] : k \in a..Len(v)}
  BY <1>4, <1>5, <1>6 DEF Elements
<1>8. QED BY <1>2, <1>7 DEF s

\* What holds at a position when it holds at the later ones holds everywhere.
LEMMA PositionInduction ==
  ASSUME NEW v1, NEW v2, Len(v1) \in Nat, Len(v2) \in Nat, NEW G,
         \A p \in Positions(v1, v2) :
           (\A q \in Positions(v1, v2) : q[1] + q[2] > p[1] + p[2] => q \in G) => p \in G
  PROVE  Positions(v1, v2) \subseteq G
<1> DEFINE D == Positions(v1, v2)
           T == Len(v1) + Len(v2) + 2
           S == {k \in Nat : \A p \in D : p[1] + p[2] + k >= T => p \in G}
<1>1. \A p \in D : p[1] \in 1..Len(v1) + 1 /\ p[2] \in 1..Len(v2) + 1  BY DEF Positions
<1>2. 0 \in S
  <2>1. \A p, q \in D : p[1] + p[2] + 0 >= T => ~ (q[1] + q[2] > p[1] + p[2])
    BY <1>1
  <2> HIDE DEF T
  <2>2. QED BY <2>1
<1>3. ASSUME NEW k \in Nat, k \in S PROVE k + 1 \in S
  <2>1. ASSUME NEW p \in D, p[1] + p[2] + (k + 1) >= T PROVE p \in G
    <3>1. \A q \in D : q[1] + q[2] > p[1] + p[2] => q[1] + q[2] + k >= T
      BY <1>1, <2>1, SMTT(30)
    <3> HIDE DEF T
    <3>2. QED BY <1>3, <3>1
  <2> HIDE DEF D, T
  <2>2. QED BY <2>1
<1>4. T \in S
  <2> HIDE DEF S
  <2>1. QED BY <1>2, <1>3, SetInduction
<1>5. \A p \in D : p[1] + p[2] + T >= T  BY <1>1
<1> HIDE DEF D, T
<1>6. QED BY <1>4, <1>5 DEF D

\* The elements of v from position a on.
Rest(v, a) == {v[k] : k \in a..Len(v)}

\* What is merged from a position on: the elements of both vectors from there.
MergesRests(X, v1, v2, U) ==
  \A p \in Positions(v1, v2) :
    U[p] \in Seq(X) /\ Elements(U[p]) = Rest(v1, p[1]) \cup Rest(v2, p[2])

LEMMA SetUnionFrom ==
  ASSUME NEW X \in SUBSET Int, NEW v1 \in Seq(X), NEW v2 \in Seq(X),
         NEW U, IsSetUnion(v1, v2, U)
  PROVE  MergesRests(X, v1, v2, U)
<1> DEFINE D == Positions(v1, v2)
           Good(p) == U[p] \in Seq(X) /\ Elements(U[p]) = Rest(v1, p[1]) \cup Rest(v2, p[2])
           G == {p \in D : Good(p)}
<1>3. \A p \in D : U[p] = SetUnionStep(v1, v2, U, p)  BY DEF IsSetUnion
<1>4. Len(v1) \in Nat /\ Len(v2) \in Nat  OBVIOUS
<1>5. \A p \in D : p[1] \in 1..Len(v1) + 1 /\ p[2] \in 1..Len(v2) + 1  BY DEF Positions
<1>6. ASSUME NEW p \in D, \A q \in D : q[1] + q[2] > p[1] + p[2] => Good(q)
      PROVE  Good(p)
  <2> DEFINE i == p[1]
             j == p[2]
  <2>0. i \in 1..Len(v1) + 1 /\ j \in 1..Len(v2) + 1  BY <1>5
  <2>1. CASE i > Len(v1)
    <3>1. U[p] = SubSeq(v2, j, Len(v2))  BY <1>3, <2>1 DEF SetUnionStep
    <3>2. Rest(v1, i) = {}  BY <2>0, <2>1 DEF Rest
    <3> HIDE DEF i, j
    <3>3. U[p] \in Seq(X) /\ Elements(U[p]) = Rest(v2, j)  BY <2>0, <3>1, ElementsOfRest DEF Rest
    <3>4. QED BY <3>2, <3>3 DEF i, j
  <2>2. CASE ~ (i > Len(v1)) /\ j > Len(v2)
    <3>1. U[p] = SubSeq(v1, i, Len(v1))  BY <1>3, <2>2 DEF SetUnionStep
    <3>2. Rest(v2, j) = {}  BY <2>0, <2>2 DEF Rest
    <3> HIDE DEF i, j
    <3>3. U[p] \in Seq(X) /\ Elements(U[p]) = Rest(v1, i)  BY <2>0, <3>1, ElementsOfRest DEF Rest
    <3>4. QED BY <3>2, <3>3 DEF i, j
  <2>3. CASE ~ (i > Len(v1)) /\ ~ (j > Len(v2))
    <3>1. i \in 1..Len(v1) /\ j \in 1..Len(v2)  BY <1>4, <2>0, <2>3
    <3>2. /\ Rest(v1, i) = {v1[i]} \cup Rest(v1, i + 1)
          /\ Rest(v2, j) = {v2[j]} \cup Rest(v2, j + 1)
      <4>1. i..Len(v1) = {i} \cup (i + 1)..Len(v1)  BY <1>4, <3>1
      <4>2. j..Len(v2) = {j} \cup (j + 1)..Len(v2)  BY <1>4, <3>1
      <4> HIDE DEF i, j
      <4>3. QED BY <4>1, <4>2 DEF Rest
    <3>3. v1[i] \in X /\ v2[j] \in X  BY <3>1
    <3>4. /\ <<i + 1, j>> \in D /\ <<i, j + 1>> \in D /\ <<i + 1, j + 1>> \in D
      BY <1>4, <3>1 DEF Positions
    <3>5. Good(<<i + 1, j>>) /\ Good(<<i, j + 1>>) /\ Good(<<i + 1, j + 1>>)
      <4>1. /\ <<i + 1, j>>[1] + <<i + 1, j>>[2] > p[1] + p[2]
            /\ <<i, j + 1>>[1] + <<i, j + 1>>[2] > p[1] + p[2]
            /\ <<i + 1, j + 1>>[1] + <<i + 1, j + 1>>[2] > p[1] + p[2]
        BY <3>1
      <4> HIDE DEF Good, D, i, j
      <4>2. Good(<<i + 1, j>>)  BY <1>6, <3>4, <4>1
      <4>3. Good(<<i, j + 1>>)  BY <1>6, <3>4, <4>1
      <4>4. Good(<<i + 1, j + 1>>)  BY <1>6, <3>4, <4>1
      <4>5. QED BY <4>2, <4>3, <4>4
    <3>6. U[p] = IF v1[i] < v2[j] THEN <<v1[i]>> \o U[<<i + 1, j>>]
                 ELSE IF v2[j] < v1[i] THEN <<v2[j]>> \o U[<<i, j + 1>>]
                 ELSE <<v1[i]>> \o U[<<i + 1, j + 1>>]
      BY <1>3, <2>3 DEF SetUnionStep
    <3>7. CASE v1[i] < v2[j]
      <4>1. U[p] = <<v1[i]>> \o U[<<i + 1, j>>]  BY <3>6, <3>7
      <4>2. /\ U[<<i + 1, j>>] \in Seq(X)
            /\ Elements(U[<<i + 1, j>>]) = Rest(v1, i + 1) \cup Rest(v2, j)
        <5> HIDE DEF i, j
        <5>1. QED BY <3>5
      <4> HIDE DEF i, j
      <4>3. U[p] \in Seq(X) /\ Elements(U[p]) = {v1[i]} \cup (Rest(v1, i + 1) \cup Rest(v2, j))
        <5> DEFINE x == v1[i]
                   t == U[<<i + 1, j>>]
                   R == Rest(v1, i + 1) \cup Rest(v2, j)
                   u == U[p]
        <5>1. x \in X /\ t \in Seq(X) /\ Elements(t) = R /\ u = <<x>> \o t
          BY <3>3, <4>1, <4>2
        <5> HIDE DEF x, t, R, u
        <5>2. u \in Seq(X) /\ Elements(u) = {x} \cup R  BY <5>1, ElementsConcatenated
        <5>3. QED BY <5>2 DEF x, R, u
      <4>4. QED BY <3>2, <4>3 DEF i, j
    <3>8. CASE ~ (v1[i] < v2[j]) /\ v2[j] < v1[i]
      <4>1. U[p] = <<v2[j]>> \o U[<<i, j + 1>>]  BY <3>6, <3>8
      <4>2. /\ U[<<i, j + 1>>] \in Seq(X)
            /\ Elements(U[<<i, j + 1>>]) = Rest(v1, i) \cup Rest(v2, j + 1)
        <5> HIDE DEF i, j
        <5>1. QED BY <3>5
      <4> HIDE DEF i, j
      <4>3. U[p] \in Seq(X) /\ Elements(U[p]) = {v2[j]} \cup (Rest(v1, i) \cup Rest(v2, j + 1))
        <5> DEFINE x == v2[j]
                   t == U[<<i, j + 1>>]
                   R == Rest(v1, i) \cup Rest(v2, j + 1)
                   u == U[p]
        <5>1. x \in X /\ t \in Seq(X) /\ Elements(t) = R /\ u = <<x>> \o t
          BY <3>3, <4>1, <4>2
        <5> HIDE DEF x, t, R, u
        <5>2. u \in Seq(X) /\ Elements(u) = {x} \cup R  BY <5>1, ElementsConcatenated
        <5>3. QED BY <5>2 DEF x, R, u
      <4>4. QED BY <3>2, <4>3 DEF i, j
    <3>9. CASE ~ (v1[i] < v2[j]) /\ ~ (v2[j] < v1[i])
      <4>1. U[p] = <<v1[i]>> \o U[<<i + 1, j + 1>>]  BY <3>6, <3>9
      <4>2. /\ U[<<i + 1, j + 1>>] \in Seq(X)
            /\ Elements(U[<<i + 1, j + 1>>]) = Rest(v1, i + 1) \cup Rest(v2, j + 1)
        <5> HIDE DEF i, j
        <5>1. QED BY <3>5
      <4>3. v1[i] = v2[j]
        <5>1. v1[i] \in Int /\ v2[j] \in Int  BY <3>3
        <5> HIDE DEF i, j
        <5>2. QED BY <3>9, <5>1
      <4> HIDE DEF i, j
      <4>4. U[p] \in Seq(X) /\ Elements(U[p]) = {v1[i]} \cup (Rest(v1, i + 1) \cup Rest(v2, j + 1))
        <5> DEFINE x == v1[i]
                   t == U[<<i + 1, j + 1>>]
                   R == Rest(v1, i + 1) \cup Rest(v2, j + 1)
                   u == U[p]
        <5>1. x \in X /\ t \in Seq(X) /\ Elements(t) = R /\ u = <<x>> \o t
          BY <3>3, <4>1, <4>2
        <5> HIDE DEF x, t, R, u
        <5>2. u \in Seq(X) /\ Elements(u) = {x} \cup R  BY <5>1, ElementsConcatenated
        <5>3. QED BY <5>2 DEF x, R, u
      <4>5. QED BY <3>2, <4>3, <4>4 DEF i, j
    <3>10. QED BY <3>7, <3>8, <3>9
  <2>4. QED BY <2>1, <2>2, <2>3
<1>7. D \subseteq G
  <2>1. \A p \in D : (\A q \in D : q[1] + q[2] > p[1] + p[2] => q \in G) => p \in G
    <3> HIDE DEF Good, D
    <3>1. QED BY <1>6
  <2> HIDE DEF G
  <2>2. QED BY <1>4, <2>1, PositionInduction
<1> HIDE DEF Good
<1>8. \A p \in D : Good(p)  BY <1>7
<1>9. QED BY <1>8 DEF Good, MergesRests

\* VectorSetUnion merges from the first positions on.
LEMMA SetUnionStarts ==
  ASSUME NEW v1, NEW v2, Len(v1) \in Nat, Len(v2) \in Nat
  PROVE  \E U : /\ IsSetUnion(v1, v2, U)
                /\ VectorSetUnion(v1, v2) = U[<<1, 1>>]
                /\ <<1, 1>> \in Positions(v1, v2)
<1> DEFINE U == CHOOSE U : IsSetUnion(v1, v2, U)
<1>1. VectorSetUnion(v1, v2) = U[<<1, 1>>]
  BY DEF VectorSetUnion, IsSetUnion, SetUnionStep, Positions
<1>2. IsSetUnion(v1, v2, U)  BY SetUnionExists
<1>3. <<1, 1>> \in Positions(v1, v2)  BY DEF Positions
<1> HIDE DEF U
<1>4. QED BY <1>1, <1>2, <1>3

\* The union holds the elements of both vectors and no others.
LEMMA SetUnionElements ==
  ASSUME NEW X \in SUBSET Int, NEW v1 \in Seq(X), NEW v2 \in Seq(X)
  PROVE  /\ VectorSetUnion(v1, v2) \in Seq(X)
         /\ Elements(VectorSetUnion(v1, v2)) = Elements(v1) \cup Elements(v2)
<1>1. Len(v1) \in Nat /\ Len(v2) \in Nat  OBVIOUS
<1>2. PICK U : /\ IsSetUnion(v1, v2, U)
               /\ VectorSetUnion(v1, v2) = U[<<1, 1>>]
               /\ <<1, 1>> \in Positions(v1, v2)
  BY <1>1, SetUnionStarts
<1>3. /\ U[<<1, 1>>] \in Seq(X)
      /\ Elements(U[<<1, 1>>]) = Rest(v1, 1) \cup Rest(v2, 1)
  <2>1. MergesRests(X, v1, v2, U)  BY <1>2, SetUnionFrom, Zenon
  <2>2. QED BY <1>2, <2>1 DEF MergesRests
<1>4. Rest(v1, 1) = Elements(v1) /\ Rest(v2, 1) = Elements(v2)
  <2>1. DOMAIN v1 = 1..Len(v1) /\ DOMAIN v2 = 1..Len(v2)  OBVIOUS
  <2>2. QED BY <2>1 DEF Elements, Rest
<1>5. QED BY <1>2, <1>3, <1>4

\* In a sorted vector no later element is smaller.
LEMMA SortedMonotone ==
  ASSUME NEW v \in Seq(Int), NonDecreasing(v), NEW a \in 1..Len(v), NEW b \in a..Len(v)
  PROVE  v[a] <= v[b]
<1> DEFINE S == {k \in Nat : a + k <= Len(v) => v[a] <= v[a + k]}
<1>1. Len(v) \in Nat /\ \A k \in 1..Len(v) : v[k] \in Int  OBVIOUS
<1>2. 0 \in S  BY <1>1
<1>3. ASSUME NEW k \in Nat, k \in S PROVE k + 1 \in S
  <2>1. CASE a + (k + 1) <= Len(v)
    <3>1. a + k \in 1..Len(v) - 1 /\ (a + k) + 1 = a + (k + 1)  BY <1>1, <2>1
    <3>2. v[a] <= v[a + k]  BY <1>1, <1>3, <3>1
    <3>3. v[a + k] <= v[a + (k + 1)]  BY <3>1 DEF NonDecreasing
    <3>4. v[a] \in Int /\ v[a + k] \in Int /\ v[a + (k + 1)] \in Int  BY <1>1, <2>1, <3>1
    <3>5. v[a] <= v[a + (k + 1)]  BY <3>2, <3>3, <3>4
    <3>6. QED BY <3>5
  <2>2. QED BY <2>1
<1>4. Nat \subseteq S
  <2> HIDE DEF S
  <2>1. QED BY <1>2, <1>3, SetInduction
<1>5. b - a \in Nat /\ a + (b - a) = b /\ b <= Len(v)  BY <1>1
<1>6. QED BY <1>4, <1>5

\* An element put before a sorted vector of elements that are not smaller.
LEMMA SortedPrepended ==
  ASSUME NEW x \in Int, NEW t \in Seq(Int), NonDecreasing(t),
         \A y \in Elements(t) : x <= y
  PROVE  NonDecreasing(<<x>> \o t)
<1> DEFINE s == <<x>> \o t
<1>1. Len(s) = Len(t) + 1 /\ Len(t) \in Nat /\ DOMAIN t = 1..Len(t)  OBVIOUS
<1>2. s[1] = x /\ \A k \in 1..Len(t) : s[k + 1] = t[k]  OBVIOUS
<1> HIDE DEF s
<1>3. ASSUME NEW k \in 1..Len(s) - 1 PROVE s[k] <= s[k + 1]
  <2>1. k \in 1..Len(t) /\ s[k + 1] = t[k]  BY <1>1, <1>2
  <2>2. CASE k = 1
    <3>1. t[k] \in Elements(t)  BY <1>1, <2>1 DEF Elements
    <3>2. QED BY <1>2, <2>1, <2>2, <3>1
  <2>3. CASE k # 1
    <3>1. k - 1 \in 1..Len(t) - 1 /\ (k - 1) + 1 = k  BY <1>1, <2>1, <2>3
    <3>2. k - 1 \in 1..Len(t)  BY <1>1, <3>1
    <3>3. s[k] = t[k - 1]  BY <1>2, <3>1, <3>2
    <3>4. t[k - 1] <= t[k]  BY <3>1 DEF NonDecreasing
    <3>5. QED BY <2>1, <3>3, <3>4
  <2>4. QED BY <2>2, <2>3
<1>4. NonDecreasing(s)  BY <1>3 DEF NonDecreasing
<1>5. QED BY <1>4 DEF s

\* The rest of a sorted vector is sorted.
LEMMA SortedRest ==
  ASSUME NEW v \in Seq(Int), NonDecreasing(v), NEW a \in 1..Len(v) + 1
  PROVE  NonDecreasing(SubSeq(v, a, Len(v)))
<1> DEFINE s == SubSeq(v, a, Len(v))
<1>1. Len(v) \in Nat /\ Len(s) = Len(v) - a + 1  OBVIOUS
<1>2. \A k \in 1..Len(v) - a + 1 : s[k] = v[a + k - 1]  OBVIOUS
<1> HIDE DEF s
<1>3. ASSUME NEW k \in 1..Len(s) - 1 PROVE s[k] <= s[k + 1]
  <2>1. /\ k \in 1..Len(v) - a + 1 /\ k + 1 \in 1..Len(v) - a + 1
        /\ a + k - 1 \in 1..Len(v) - 1 /\ a + (k + 1) - 1 = (a + k - 1) + 1
    BY <1>1
  <2>2. s[k] = v[a + k - 1] /\ s[k + 1] = v[(a + k - 1) + 1]  BY <1>2, <2>1
  <2>3. QED BY <2>1, <2>2 DEF NonDecreasing
<1>4. NonDecreasing(s)  BY <1>3 DEF NonDecreasing
<1>5. QED BY <1>4 DEF s

\* The first element of the rest of a sorted vector is its least.
LEMMA RestAbove ==
  ASSUME NEW v \in Seq(Int), NonDecreasing(v), NEW a \in 1..Len(v)
  PROVE  /\ v[a] \in Int
         /\ \A y \in Rest(v, a) : y \in Int /\ v[a] <= y
         /\ \A y \in Rest(v, a + 1) : y \in Int /\ v[a] <= y
<1>1. Len(v) \in Nat /\ \A k \in 1..Len(v) : v[k] \in Int  OBVIOUS
<1>2. \A b \in a..Len(v) : v[a] <= v[b] /\ v[b] \in Int  BY <1>1, SortedMonotone
<1>3. (a + 1)..Len(v) \subseteq a..Len(v)  BY <1>1
<1>4. QED BY <1>1, <1>2, <1>3 DEF Rest

\* std::set_union of sorted vectors is sorted.
LEMMA SetUnionSorted ==
  ASSUME NEW v1 \in Seq(Int), NEW v2 \in Seq(Int), NonDecreasing(v1), NonDecreasing(v2)
  PROVE  NonDecreasing(VectorSetUnion(v1, v2))
<1>1. Len(v1) \in Nat /\ Len(v2) \in Nat  OBVIOUS
<1>2. PICK U : /\ IsSetUnion(v1, v2, U)
               /\ VectorSetUnion(v1, v2) = U[<<1, 1>>]
               /\ <<1, 1>> \in Positions(v1, v2)
  BY <1>1, SetUnionStarts
<1> DEFINE D == Positions(v1, v2)
           G == {p \in D : NonDecreasing(U[p])}
<1>3. \A p \in D : U[p] = SetUnionStep(v1, v2, U, p)  BY <1>2 DEF IsSetUnion
<1>4. MergesRests(Int, v1, v2, U)
  <2>1. Int \in SUBSET Int  OBVIOUS
  <2>2. QED BY <1>2, <2>1, SetUnionFrom, Zenon
<1>5. ASSUME NEW p \in D, \A q \in D : q[1] + q[2] > p[1] + p[2] => q \in G
      PROVE  NonDecreasing(U[p])
  <2> DEFINE i == p[1]
             j == p[2]
  <2>1. i \in 1..Len(v1) + 1 /\ j \in 1..Len(v2) + 1  BY DEF Positions
  <2>2. CASE i > Len(v1)
    <3>1. U[p] = SubSeq(v2, j, Len(v2))  BY <1>3, <2>2 DEF SetUnionStep
    <3> HIDE DEF i, j
    <3>2. QED BY <2>1, <3>1, SortedRest
  <2>3. CASE ~ (i > Len(v1)) /\ j > Len(v2)
    <3>1. U[p] = SubSeq(v1, i, Len(v1))  BY <1>3, <2>3 DEF SetUnionStep
    <3> HIDE DEF i, j
    <3>2. QED BY <2>1, <3>1, SortedRest
  <2>4. CASE ~ (i > Len(v1)) /\ ~ (j > Len(v2))
    <3>1. i \in 1..Len(v1) /\ j \in 1..Len(v2)  BY <1>1, <2>1, <2>4
    <3>2. U[p] = IF v1[i] < v2[j] THEN <<v1[i]>> \o U[<<i + 1, j>>]
                 ELSE IF v2[j] < v1[i] THEN <<v2[j]>> \o U[<<i, j + 1>>]
                 ELSE <<v1[i]>> \o U[<<i + 1, j + 1>>]
      BY <1>3, <2>4 DEF SetUnionStep
    <3>3. <<i + 1, j>> \in D /\ <<i, j + 1>> \in D /\ <<i + 1, j + 1>> \in D
      BY <1>1, <3>1 DEF Positions
    <3>4. /\ <<i + 1, j>>[1] + <<i + 1, j>>[2] > p[1] + p[2]
          /\ <<i, j + 1>>[1] + <<i, j + 1>>[2] > p[1] + p[2]
          /\ <<i + 1, j + 1>>[1] + <<i + 1, j + 1>>[2] > p[1] + p[2]
      <4>1. i \in Int /\ j \in Int  BY <1>1, <3>1
      <4>2. \A a, b \in Int : a + 1 + b > a + b /\ a + (b + 1) > a + b /\ a + 1 + (b + 1) > a + b
        OBVIOUS
      <4> HIDE DEF i, j
      <4>3. /\ <<i + 1, j>>[1] + <<i + 1, j>>[2] > i + j
            /\ <<i, j + 1>>[1] + <<i, j + 1>>[2] > i + j
            /\ <<i + 1, j + 1>>[1] + <<i + 1, j + 1>>[2] > i + j
        BY <4>1, <4>2
      <4>4. QED BY <4>3 DEF i, j
    <3> HIDE DEF i, j, D
    <3>5. /\ v1[i] \in Int /\ v2[j] \in Int
          /\ \A y \in Rest(v1, i) : y \in Int /\ v1[i] <= y
          /\ \A y \in Rest(v1, i + 1) : y \in Int /\ v1[i] <= y
          /\ \A y \in Rest(v2, j) : y \in Int /\ v2[j] <= y
          /\ \A y \in Rest(v2, j + 1) : y \in Int /\ v2[j] <= y
      BY <3>1, RestAbove
    <3>6. ASSUME NEW q \in D, q[1] + q[2] > p[1] + p[2], NEW x \in Int,
                 \A y \in Rest(v1, q[1]) \cup Rest(v2, q[2]) : x <= y
          PROVE  NonDecreasing(<<x>> \o U[q])
      <4>1. NonDecreasing(U[q])  BY <1>5, <3>6
      <4>2. U[q] \in Seq(Int) /\ \A y \in Elements(U[q]) : x <= y
        BY <1>4, <3>6 DEF MergesRests, D
      <4> DEFINE t == U[q]
      <4> HIDE DEF t
      <4>3. NonDecreasing(<<x>> \o t)  BY <4>1, <4>2, SortedPrepended DEF t
      <4>4. QED BY <4>3 DEF t
    <3>7. CASE v1[i] < v2[j]
      <4>1. \A y \in Rest(v1, i + 1) \cup Rest(v2, j) : v1[i] <= y  BY <3>5, <3>7
      <4>2. NonDecreasing(<<v1[i]>> \o U[<<i + 1, j>>])
        <5> DEFINE q == <<i + 1, j>>
        <5>1. q \in D /\ q[1] + q[2] > p[1] + p[2] /\ q[1] = i + 1 /\ q[2] = j
          BY <3>3, <3>4
        <5> HIDE DEF q
        <5>2. NonDecreasing(<<v1[i]>> \o U[q])  BY <3>5, <3>6, <4>1, <5>1
        <5>3. QED BY <5>2 DEF q
      <4>3. QED BY <3>2, <3>7, <4>2
    <3>8. CASE ~ (v1[i] < v2[j]) /\ v2[j] < v1[i]
      <4>1. \A y \in Rest(v1, i) \cup Rest(v2, j + 1) : v2[j] <= y  BY <3>5, <3>8
      <4>2. NonDecreasing(<<v2[j]>> \o U[<<i, j + 1>>])
        <5> DEFINE q == <<i, j + 1>>
        <5>1. q \in D /\ q[1] + q[2] > p[1] + p[2] /\ q[1] = i /\ q[2] = j + 1
          BY <3>3, <3>4
        <5> HIDE DEF q
        <5>2. NonDecreasing(<<v2[j]>> \o U[q])  BY <3>5, <3>6, <4>1, <5>1
        <5>3. QED BY <5>2 DEF q
      <4>3. QED BY <3>2, <3>8, <4>2
    <3>9. CASE ~ (v1[i] < v2[j]) /\ ~ (v2[j] < v1[i])
      <4>1. \A y \in Rest(v1, i + 1) \cup Rest(v2, j + 1) : v1[i] <= y  BY <3>5, <3>9
      <4>2. NonDecreasing(<<v1[i]>> \o U[<<i + 1, j + 1>>])
        <5> DEFINE q == <<i + 1, j + 1>>
        <5>1. q \in D /\ q[1] + q[2] > p[1] + p[2] /\ q[1] = i + 1 /\ q[2] = j + 1
          BY <3>3, <3>4
        <5> HIDE DEF q
        <5>2. NonDecreasing(<<v1[i]>> \o U[q])  BY <3>5, <3>6, <4>1, <5>1
        <5>3. QED BY <5>2 DEF q
      <4>3. QED BY <3>2, <3>9, <4>2
    <3>10. QED BY <3>7, <3>8, <3>9
  <2>5. QED BY <2>2, <2>3, <2>4
<1>6. D \subseteq G
  <2>1. \A p \in D : (\A q \in D : q[1] + q[2] > p[1] + p[2] => q \in G) => p \in G
    <3> HIDE DEF D
    <3>1. QED BY <1>5
  <2> HIDE DEF G
  <2>2. QED BY <1>1, <2>1, PositionInduction
<1>7. QED BY <1>2, <1>6

-----------------------------------------------------------------------------
(* Union.                                                                  *)

\* The node table and the union-find structure over it.
Structure ==
  /\ IsDag(dag)
  /\ cc_ \in [Nodes -> Nodes]
  /\ IsForest(cc_)
  /\ ccpar_ \in [Nodes -> Seq(Nodes)]
  /\ ParentsAtRoot

\* What a node table gives access to.
LEMMA DagFacts ==
  ASSUME IsDag(dag)
  PROVE  /\ Len(dag.fn_) \in Nat
         /\ Nodes = 1..Len(dag.fn_)
         /\ Nodes \in SUBSET Int
         /\ \A p \in Nodes : \A k \in DOMAIN dag.args_[p] : dag.args_[p][k] \in Nodes
         /\ Len(dag.equality_) \in Nat
         /\ DOMAIN dag.equality_ = 1..Len(dag.equality_)
         /\ \A k \in 1..Len(dag.equality_) :
              dag.equality_[k][1] \in Nodes /\ dag.equality_[k][2] \in Nodes
         /\ Len(dag.inequality_) \in Nat
         /\ DOMAIN dag.inequality_ = 1..Len(dag.inequality_)
         /\ \A k \in 1..Len(dag.inequality_) :
              dag.inequality_[k][1] \in Nodes /\ dag.inequality_[k][2] \in Nodes
<1>1. Len(dag.fn_) \in Nat /\ Nodes = 1..Len(dag.fn_)
  BY DEF IsDag, Nodes, NodesOf
<1>2. \A p \in Nodes : dag.args_[p] \in Seq(Nodes)
  BY DEF IsDag, Nodes
<1>3. \A p \in Nodes : \A k \in DOMAIN dag.args_[p] : dag.args_[p][k] \in Nodes
  BY <1>2
<1>4. dag.equality_ \in Seq(Nodes \X Nodes) /\ dag.inequality_ \in Seq(Nodes \X Nodes)
  BY DEF IsDag, Nodes
<1>5. \A k \in 1..Len(dag.equality_) :
        dag.equality_[k][1] \in Nodes /\ dag.equality_[k][2] \in Nodes
  BY <1>4
<1>6. \A k \in 1..Len(dag.inequality_) :
        dag.inequality_[k][1] \in Nodes /\ dag.inequality_[k][2] \in Nodes
  BY <1>4
<1>7. QED BY <1>1, <1>3, <1>4, <1>5, <1>6

\* Find returns the representative of the class of a node.
LEMMA FindFacts ==
  ASSUME Structure
  PROVE  /\ Root(cc_) \in [Nodes -> Nodes]
         /\ \A n \in Nodes : Find(n) \in Nodes /\ Find(n) \in Roots
         /\ \A n \in Nodes : n \in Roots <=> Find(n) = n
         /\ Roots \in SUBSET Nodes
<1>1. DOMAIN cc_ = Nodes /\ IsForest(cc_)  BY DEF Structure
<1>2. QED BY <1>1, RootFacts DEF Find, Roots

\* The parents of two sets of nodes.
LEMMA ParentsInUnion ==
  ASSUME NEW d, NEW S, NEW T
  PROVE  /\ ParentsIn(d, S \cup T) = ParentsIn(d, S) \cup ParentsIn(d, T)
         /\ ParentsIn(d, {}) = {}
BY DEF ParentsIn

\* Union moves the class of i to j and keeps the structure intact.
LEMMA UnionStructure ==
  ASSUME Structure, NEW i \in Roots, NEW j \in Roots, i # j,
         Union(i, j), dag' = dag
  PROVE  /\ Structure'
         /\ \A n \in Nodes : Root(cc_')[n] = IF Find(n) = i THEN j ELSE Find(n)
         /\ Roots' = Roots \ {i}
<1>1. Nodes' = Nodes /\ IsDag(dag)'  BY DEF Nodes, Structure
<1>2. DOMAIN cc_ = Nodes /\ IsForest(cc_) /\ i \in Nodes /\ j \in Nodes
      /\ cc_[i] = i /\ cc_[j] = j
  BY DEF Structure, Roots
<1>3. cc_' = [cc_ EXCEPT ![i] = cc_[j]]  BY DEF Union
<1>4. cc_' \in [Nodes -> Nodes] /\ \A n \in Nodes : cc_'[n] = IF n = i THEN j ELSE cc_[n]
  BY <1>2, <1>3 DEF Structure
<1>5. /\ IsForest(cc_')
      /\ \A n \in Nodes : Root(cc_')[n] = IF Find(n) = i THEN j ELSE Find(n)
  BY <1>2, <1>4, LinkRoots DEF Find
<1>7. Roots' = Roots \ {i}
  BY <1>1, <1>2, <1>3 DEF Roots, Structure
<1> DEFINE both == VectorSetUnion(ccpar_[i], ccpar_[j])
<1>8. both \in Seq(Nodes) /\ Elements(both) = Elements(ccpar_[i]) \cup Elements(ccpar_[j])
  <2>1. ccpar_[i] \in Seq(Nodes) /\ ccpar_[j] \in Seq(Nodes)  BY <1>2 DEF Structure
  <2>2. Nodes \in SUBSET Int  BY DagFacts DEF Structure
  <2>3. QED BY <2>1, <2>2, SetUnionElements
<1> HIDE DEF both
<1>9. ccpar_' = [ccpar_ EXCEPT ![j] = both, ![i] = << >>]  BY DEF Union, both
<1>10. ccpar_' \in [Nodes -> Seq(Nodes)]
       /\ \A n \in Nodes : ccpar_'[n] = IF n = i THEN << >> ELSE IF n = j THEN both ELSE ccpar_[n]
  <2>1. << >> \in Seq(Nodes)  OBVIOUS
  <2>2. QED BY <1>2, <1>8, <1>9, <2>1 DEF Structure
<1>11. ASSUME NEW n \in Nodes
       PROVE  Elements(ccpar_'[n]) =
                IF n \in Roots' THEN ParentsIn(dag, {m \in Nodes : Root(cc_')[m] = n}) ELSE {}
  <2> DEFINE Class(r) == {m \in Nodes : Find(m) = r}
             Moved == {m \in Nodes : Root(cc_')[m] = n}
  <2>1. \A r \in Nodes : Elements(ccpar_[r]) = IF r \in Roots THEN ParentsIn(dag, Class(r)) ELSE {}
    BY DEF Structure, ParentsAtRoot
  <2>2. CASE n = i
    <3>1. ccpar_'[n] = << >>  BY <1>10, <2>2
    <3>2. Elements(<< >>) = {}  BY DEF Elements
    <3>3. QED BY <1>7, <2>2, <3>1, <3>2
  <2>3. CASE n = j
    <3>1. Moved = Class(i) \cup Class(j)  BY <1>5, <2>3
    <3>2. Elements(ccpar_'[n]) = Elements(ccpar_[i]) \cup Elements(ccpar_[j])
      BY <1>8, <1>10, <2>3
    <3> HIDE DEF Class, Moved
    <3>3. Elements(ccpar_'[n]) = ParentsIn(dag, Class(i)) \cup ParentsIn(dag, Class(j))
      BY <1>2, <2>1, <3>2
    <3>4. Elements(ccpar_'[n]) = ParentsIn(dag, Moved)  BY <3>1, <3>3, ParentsInUnion
    <3>5. n \in Roots'  BY <1>7, <2>3
    <3>6. QED BY <3>4, <3>5 DEF Moved
  <2>4. CASE n # i /\ n # j
    <3>1. Moved = Class(n)  BY <1>5, <2>4
    <3>2. ccpar_'[n] = ccpar_[n]  BY <1>10, <2>4
    <3>3. n \in Roots' <=> n \in Roots  BY <1>7, <2>4
    <3> HIDE DEF Class, Moved
    <3>4. Elements(ccpar_'[n]) = IF n \in Roots' THEN ParentsIn(dag, Moved) ELSE {}
      BY <2>1, <3>1, <3>2, <3>3
    <3>5. QED BY <3>4 DEF Moved
  <2>5. QED BY <2>2, <2>3, <2>4
<1>12. ParentsAtRoot'
  BY <1>1, <1>11 DEF ParentsAtRoot, Find
<1>13. QED BY <1>1, <1>4, <1>5, <1>7, <1>10, <1>12 DEF Structure

-----------------------------------------------------------------------------
(* The activations of Merge.                                               *)

\* The vectors an activation iterates over hold applications of functions.
HoldsParents(f) ==
  /\ \A k \in 1..Len(f.par_i) : dag.args_[f.par_i[k]] # << >>
  /\ \A k \in 1..Len(f.par_j) : dag.args_[f.par_j[k]] # << >>

GoodFrame(f) == IsFrame(f) /\ HoldsParents(f)

\* A stack of well-formed activations.
GoodStack(s) == IsStack(s) /\ \A k \in 1..Len(s) : GoodFrame(s[k])

\* The loops of an activation stay within the vectors.
LEMMA AdvanceGood ==
  ASSUME NEW f, GoodFrame(f), HasPair(f)
  PROVE  /\ GoodFrame(Advance(f))
         /\ f.at_i \in 1..Len(f.par_i) /\ f.at_j \in 1..Len(f.par_j)
         /\ f.par_i[f.at_i] \in Nodes /\ f.par_j[f.at_j] \in Nodes
         /\ dag.args_[f.par_i[f.at_i]] # << >>
<1>1. /\ f = [par_i |-> f.par_i, par_j |-> f.par_j, at_i |-> f.at_i, at_j |-> f.at_j]
      /\ f.par_i \in Seq(Nodes) /\ f.par_j \in Seq(Nodes)
      /\ f.at_i \in 1..Len(f.par_i) + 1
      /\ f.at_j = 1 \/ f.at_j \in 1..Len(f.par_j)
  BY DEF GoodFrame, IsFrame
<1>2. Len(f.par_i) \in Nat /\ Len(f.par_j) \in Nat  BY <1>1
<1>3. f.at_i \in 1..Len(f.par_i) /\ f.at_j \in 1..Len(f.par_j)
  BY <1>1, <1>2 DEF HasPair
<1>4. f.par_i[f.at_i] \in Nodes /\ f.par_j[f.at_j] \in Nodes  BY <1>1, <1>3
<1>5. dag.args_[f.par_i[f.at_i]] # << >>  BY <1>3 DEF GoodFrame, HoldsParents
<1> DEFINE g == Advance(f)
           next == f.at_j < Len(f.par_j)
<1>6. /\ g.par_i = f.par_i /\ g.par_j = f.par_j
      /\ g.at_i = IF next THEN f.at_i ELSE f.at_i + 1
      /\ g.at_j = IF next THEN f.at_j + 1 ELSE 1
      /\ g = [par_i |-> g.par_i, par_j |-> g.par_j, at_i |-> g.at_i, at_j |-> g.at_j]
  BY <1>1 DEF Advance
<1> HIDE DEF g
<1>7. IsFrame(g)  BY <1>1, <1>2, <1>3, <1>6 DEF IsFrame
<1>8. HoldsParents(g)  BY <1>6 DEF GoodFrame, HoldsParents
<1>9. QED BY <1>3, <1>4, <1>5, <1>7, <1>8 DEF GoodFrame, g

\* Advancing passes one pair of parents only.
LEMMA AdvanceAhead ==
  ASSUME NEW f, GoodFrame(f), HasPair(f), NEW p, NEW q, IsAhead(f, p, q)
  PROVE  \/ IsAhead(Advance(f), p, q)
         \/ p = f.par_i[f.at_i] /\ q = f.par_j[f.at_j]
<1>1. /\ f = [par_i |-> f.par_i, par_j |-> f.par_j, at_i |-> f.at_i, at_j |-> f.at_j]
      /\ f.par_i \in Seq(Nodes) /\ f.par_j \in Seq(Nodes)
  BY DEF GoodFrame, IsFrame
<1>2. Len(f.par_i) \in Nat /\ Len(f.par_j) \in Nat  BY <1>1
<1>3. f.at_i \in 1..Len(f.par_i) /\ f.at_j \in 1..Len(f.par_j)  BY AdvanceGood
<1> DEFINE g == Advance(f)
           next == f.at_j < Len(f.par_j)
<1>4. /\ g.par_i = f.par_i /\ g.par_j = f.par_j
      /\ g.at_i = IF next THEN f.at_i ELSE f.at_i + 1
      /\ g.at_j = IF next THEN f.at_j + 1 ELSE 1
  BY <1>1 DEF Advance
<1>5. PICK k \in 1..Len(f.par_i), m \in 1..Len(f.par_j) :
        /\ k > f.at_i \/ (k = f.at_i /\ m >= f.at_j)
        /\ f.par_i[k] = p
        /\ f.par_j[m] = q
  BY DEF IsAhead
<1> HIDE DEF g
<1>6. CASE k = f.at_i /\ m = f.at_j  BY <1>5, <1>6
<1>7. CASE ~ (k = f.at_i /\ m = f.at_j)
  <2>1. k > g.at_i \/ (k = g.at_i /\ m >= g.at_j)
    BY <1>2, <1>3, <1>4, <1>5, <1>7
  <2>2. IsAhead(g, p, q)  BY <1>4, <1>5, <2>1 DEF IsAhead
  <2>3. QED BY <2>2 DEF g
<1>8. QED BY <1>6, <1>7

\* Nothing is ahead of an activation whose loops are through.
LEMMA NothingAhead ==
  ASSUME NEW f, GoodFrame(f), ~ HasPair(f), NEW p, NEW q
  PROVE  ~ IsAhead(f, p, q)
<1>1. /\ f.par_i \in Seq(Nodes) /\ f.par_j \in Seq(Nodes)
      /\ f.at_i \in 1..Len(f.par_i) + 1
      /\ f.at_j = 1 \/ f.at_j \in 1..Len(f.par_j)
  BY DEF GoodFrame, IsFrame
<1>2. Len(f.par_i) \in Nat /\ Len(f.par_j) \in Nat  BY <1>1
<1>3. QED BY <1>1, <1>2 DEF HasPair, IsAhead

\* What a call of Merge does up to its loops: nothing, or it links the
\* representatives and starts to iterate over the parents of both classes.
Linked(i, j, callers) ==
  /\ Find(i) # Find(j)
  /\ Structure'
  /\ \A n \in Nodes : Root(cc_')[n] = IF Find(n) = Find(i) THEN Find(j) ELSE Find(n)
  /\ Roots' = Roots \ {Find(i)}
  /\ frames' = Append(callers, Frame(ccpar_[Find(i)], ccpar_[Find(j)]))

\* Merge does nothing or links.
LEMMA MergeCall ==
  ASSUME Structure, NEW i \in Nodes, NEW j \in Nodes, NEW callers,
         Merge(i, j, callers), dag' = dag
  PROVE  \/ Find(i) = Find(j) /\ frames' = callers /\ cc_' = cc_ /\ ccpar_' = ccpar_
         \/ Linked(i, j, callers)
<1>1. CASE Find(i) = Find(j)  BY <1>1 DEF Merge
<1>2. CASE Find(i) # Find(j)
  <2>1. Union(Find(i), Find(j))
        /\ frames' = Append(callers, Frame(CCPar(Find(i)), CCPar(Find(j))))
    BY <1>2 DEF Merge
  <2>2. Find(i) \in Roots /\ Find(j) \in Roots /\ Find(Find(i)) = Find(i)
        /\ Find(Find(j)) = Find(j)
    BY FindFacts
  <2>3. frames' = Append(callers, Frame(ccpar_[Find(i)], ccpar_[Find(j)]))
    BY <2>1, <2>2 DEF CCPar
  <2> DEFINE ri == Find(i)
             rj == Find(j)
  <2>4. ri \in Roots /\ rj \in Roots /\ ri # rj /\ Union(ri, rj)  BY <1>2, <2>1, <2>2
  <2> HIDE DEF ri, rj
  <2>5. /\ Structure'
        /\ \A n \in Nodes : Root(cc_')[n] = IF Find(n) = ri THEN rj ELSE Find(n)
        /\ Roots' = Roots \ {ri}
    BY <2>4, UnionStructure
  <2>6. QED BY <1>2, <2>3, <2>5 DEF Linked, ri, rj
<1>3. QED BY <1>1, <1>2

\* The frame Merge pushes iterates over all parents of both classes.
LEMMA PushedFrame ==
  ASSUME Structure, NEW i \in Nodes, NEW j \in Nodes
  PROVE  LET f == Frame(ccpar_[Find(i)], ccpar_[Find(j)])
         IN  /\ GoodFrame(f)
             /\ \A p \in ParentsIn(dag, {m \in Nodes : Find(m) = Find(i)}),
                   q \in ParentsIn(dag, {m \in Nodes : Find(m) = Find(j)}) :
                  IsAhead(f, p, q)
<1> DEFINE pi == ccpar_[Find(i)]
           pj == ccpar_[Find(j)]
           f == Frame(pi, pj)
           P(r) == ParentsIn(dag, {m \in Nodes : Find(m) = r})
<1>1. Find(i) \in Roots /\ Find(j) \in Roots /\ Find(i) \in Nodes /\ Find(j) \in Nodes
  BY FindFacts
<1>2. pi \in Seq(Nodes) /\ pj \in Seq(Nodes)  BY <1>1 DEF Structure
<1>3. Elements(pi) = P(Find(i)) /\ Elements(pj) = P(Find(j))
  BY <1>1 DEF Structure, ParentsAtRoot
<1> HIDE DEF pi, pj
<1>4. Len(pi) \in Nat /\ Len(pj) \in Nat /\ DOMAIN pi = 1..Len(pi) /\ DOMAIN pj = 1..Len(pj)
  BY <1>2
<1>5. /\ f = [par_i |-> f.par_i, par_j |-> f.par_j, at_i |-> f.at_i, at_j |-> f.at_j]
      /\ f.par_i = pi /\ f.par_j = pj /\ f.at_i = 1 /\ f.at_j = 1
  BY DEF Frame
<1> HIDE DEF f
<1>6. IsFrame(f)  BY <1>2, <1>4, <1>5 DEF IsFrame
<1>7. \A r : \A p \in P(r) : dag.args_[p] # << >>
  BY DEF ParentsIn
<1>8. HoldsParents(f)
  <2>1. \A k \in 1..Len(pi) : pi[k] \in P(Find(i))  BY <1>3, <1>4 DEF Elements
  <2>2. \A k \in 1..Len(pj) : pj[k] \in P(Find(j))  BY <1>3, <1>4 DEF Elements
  <2> HIDE DEF P
  <2>3. QED BY <1>5, <1>7, <2>1, <2>2 DEF HoldsParents
<1>9. ASSUME NEW p \in P(Find(i)), NEW q \in P(Find(j))
      PROVE  IsAhead(f, p, q)
  <2> HIDE DEF P
  <2>1. PICK k \in 1..Len(pi) : pi[k] = p  BY <1>3, <1>4 DEF Elements
  <2>2. PICK m \in 1..Len(pj) : pj[m] = q  BY <1>3, <1>4 DEF Elements
  <2>3. k > 1 \/ (k = 1 /\ m >= 1)  BY <1>4
  <2>4. QED BY <1>5, <2>1, <2>2, <2>3 DEF IsAhead
<1>10. QED BY <1>6, <1>8, <1>9 DEF GoodFrame, f, pi, pj

-----------------------------------------------------------------------------
(* The inductive invariant.                                                *)

\* The equalities and inequalities Decision is through with.
ConstraintsApplied ==
  /\ \A k \in 1..next_eq - 1 : Find(dag.equality_[k][1]) = Find(dag.equality_[k][2])
  /\ next_neq > 1 \/ verdict # "none" => EqualitiesDone
  /\ res = \A k \in 1..next_neq - 1 :
             Find(dag.inequality_[k][1]) # Find(dag.inequality_[k][2])
  /\ verdict # "none" => /\ next_neq > Len(dag.inequality_)
                         /\ verdict = IF res THEN "SAT" ELSE "UNSAT"

CCInv ==
  /\ TypeOK
  /\ Structure
  /\ GoodStack(frames)
  /\ CongruencesPending
  /\ MergesEntailed
  /\ ConstraintsApplied
  /\ RecursionBounded

\* Terms of one class stay in one class.
ClassesKept ==
  \A m, n \in Nodes : Find(m) = Find(n) => Root(cc_')[m] = Root(cc_')[n]

\* The callers of a step's call of Merge: the stack after the loops moved on.
Callers == [frames EXCEPT ![Len(frames)] = Advance(@)]

\* Two congruent terms of different classes still ahead of an activation of s.
PendingIn(s, p, q) ==
  \E k \in 1..Len(s) : IsAhead(s[k], p, q) \/ IsAhead(s[k], q, p)

\* The activations that go on below a call keep what is ahead of them, but for
\* the pair that is looked at.
LEMMA CallersGood ==
  ASSUME GoodStack(frames), frames # << >>, HasPair(Inner)
  PROVE  /\ GoodStack(Callers)
         /\ Len(Callers) = Len(frames)
         /\ \A p, q : PendingIn(frames, p, q) =>
              \/ PendingIn(Callers, p, q)
              \/ p = Inner.par_i[Inner.at_i] /\ q = Inner.par_j[Inner.at_j]
              \/ q = Inner.par_i[Inner.at_i] /\ p = Inner.par_j[Inner.at_j]
<1>1. IsStack(frames) /\ Len(frames) \in 1..Len(frames)
  BY StackIsSequence DEF GoodStack, IsStack
<1>2. GoodFrame(Inner)  BY <1>1 DEF GoodStack, Inner
<1>3. Callers = [frames EXCEPT ![Len(frames)] = Advance(Inner)]  BY DEF Callers, Inner
<1>4. /\ IsStack(Callers) /\ Len(Callers) = Len(frames)
      /\ \A k \in 1..Len(frames) :
           Callers[k] = IF k = Len(frames) THEN Advance(Inner) ELSE frames[k]
  BY <1>1, <1>3, TopReplaced
<1>5. GoodFrame(Advance(Inner))  BY <1>2, AdvanceGood
<1>6. GoodStack(Callers)  BY <1>4, <1>5 DEF GoodStack
<1>7. ASSUME NEW p, NEW q, PendingIn(frames, p, q)
      PROVE  \/ PendingIn(Callers, p, q)
             \/ p = Inner.par_i[Inner.at_i] /\ q = Inner.par_j[Inner.at_j]
             \/ q = Inner.par_i[Inner.at_i] /\ p = Inner.par_j[Inner.at_j]
  <2>1. PICK k \in 1..Len(frames) : IsAhead(frames[k], p, q) \/ IsAhead(frames[k], q, p)
    BY <1>7 DEF PendingIn
  <2>2. CASE k = Len(frames)
    <3>1. IsAhead(Inner, p, q) \/ IsAhead(Inner, q, p)  BY <2>1, <2>2 DEF Inner
    <3>2. \/ IsAhead(Advance(Inner), p, q) \/ IsAhead(Advance(Inner), q, p)
          \/ p = Inner.par_i[Inner.at_i] /\ q = Inner.par_j[Inner.at_j]
          \/ q = Inner.par_i[Inner.at_i] /\ p = Inner.par_j[Inner.at_j]
      BY <1>2, <3>1, AdvanceAhead
    <3>3. QED BY <1>4, <2>2, <3>2 DEF PendingIn
  <2>3. CASE k # Len(frames)  BY <1>4, <2>1, <2>3 DEF PendingIn
  <2>4. QED BY <2>2, <2>3
<1>8. QED BY <1>4, <1>6, <1>7

\* Linking two classes makes congruent only parents of one and the other.
LEMMA NewlyCongruent ==
  ASSUME Structure, NEW i \in Nodes, NEW j \in Nodes, dag' = dag,
         \A n \in Nodes : Root(cc_')[n] = IF Find(n) = Find(i) THEN Find(j) ELSE Find(n),
         NEW p \in Nodes, NEW q \in Nodes, Congruent(p, q)', ~ Congruent(p, q)
  PROVE  \/ /\ p \in ParentsIn(dag, {m \in Nodes : Find(m) = Find(i)})
            /\ q \in ParentsIn(dag, {m \in Nodes : Find(m) = Find(j)})
         \/ /\ q \in ParentsIn(dag, {m \in Nodes : Find(m) = Find(i)})
            /\ p \in ParentsIn(dag, {m \in Nodes : Find(m) = Find(j)})
<1>1. PICK k \in DOMAIN dag.args_[p] : Find(dag.args_[p][k]) # Find(dag.args_[q][k])
  BY DEF Congruent
<1>2. Root(cc_')[dag.args_[p][k]] = Root(cc_')[dag.args_[q][k]]
  BY <1>1 DEF Congruent, Find
<1>3. k \in DOMAIN dag.args_[q]
  <2>1. dag.args_[p] \in Seq(Nodes) /\ dag.args_[q] \in Seq(Nodes)
    BY DEF Structure, IsDag, Nodes
  <2>2. Len(dag.args_[p]) = Len(dag.args_[q])  BY DEF Congruent
  <2>3. QED BY <2>1, <2>2
<1>4. dag.args_[p][k] \in Nodes /\ dag.args_[q][k] \in Nodes
  BY <1>1, <1>3, DagFacts DEF Structure
<1>5. \/ Find(dag.args_[p][k]) = Find(i) /\ Find(dag.args_[q][k]) = Find(j)
      \/ Find(dag.args_[q][k]) = Find(i) /\ Find(dag.args_[p][k]) = Find(j)
  BY <1>1, <1>2, <1>4
<1>6. p \in NodesOf(dag) /\ q \in NodesOf(dag)  BY DEF Nodes
<1>7. ASSUME NEW r, NEW s \in NodesOf(dag), k \in DOMAIN dag.args_[s],
             dag.args_[s][k] \in Nodes, Find(dag.args_[s][k]) = r
      PROVE  s \in ParentsIn(dag, {m \in Nodes : Find(m) = r})
  BY <1>7 DEF ParentsIn
<1>8. QED BY <1>1, <1>3, <1>4, <1>5, <1>6, <1>7

\* Congruence is symmetric.
LEMMA CongruentSymmetric ==
  ASSUME IsDag(dag), NEW p \in Nodes, NEW q \in Nodes, Congruent(p, q)
  PROVE  Congruent(q, p) /\ (dag.args_[p] # << >> => dag.args_[q] # << >>)
<1>1. dag.args_[p] \in Seq(Nodes) /\ dag.args_[q] \in Seq(Nodes)  BY DEF IsDag, Nodes
<1>2. Len(dag.args_[p]) = Len(dag.args_[q])  BY DEF Congruent
<1>3. DOMAIN dag.args_[p] = DOMAIN dag.args_[q]  BY <1>1, <1>2
<1>4. dag.args_[p] # << >> => dag.args_[q] # << >>  BY <1>1, <1>2
<1>5. QED BY <1>3, <1>4 DEF Congruent

\* The interpretations that satisfy the equalities.
Entailed(m, n) ==
  \A v \in [Nodes -> Nodes] :
    RespectsEqualities(dag, v) /\ RespectsFunctions(dag, v) => v[m] = v[n]

\* There are finitely many representatives.
LEMMA RootsFinite ==
  ASSUME Structure
  PROVE  IsFiniteSet(Nodes) /\ IsFiniteSet(Roots) /\ Cardinality(Roots) \in Nat
<1>1. Nodes = 1..Len(dag.fn_) /\ Len(dag.fn_) \in Nat  BY DagFacts DEF Structure
<1>2. IsFiniteSet(Nodes)  BY <1>1, FS_Interval
<1>3. IsFiniteSet(Roots)  BY <1>2, FindFacts, FS_Subset
<1>4. QED BY <1>2, <1>3, FS_CardinalityType

\* A call of Merge on two terms that the equalities make equal, when nothing
\* but these two is pending outside the callers, keeps the invariant.
LEMMA MergeKeeps ==
  ASSUME Structure, MergesEntailed, dag' = dag, NEW callers, GoodStack(callers),
         NEW i \in Nodes, NEW j \in Nodes, Entailed(i, j), Merge(i, j, callers),
         \A p, q \in Nodes :
           dag.args_[p] # << >> /\ Congruent(p, q) /\ Find(p) # Find(q) =>
             PendingIn(callers, p, q) \/ (p = i /\ q = j) \/ (p = j /\ q = i)
  PROVE  /\ Structure' /\ MergesEntailed' /\ GoodStack(frames)' /\ CongruencesPending'
         /\ Root(cc_')[i] = Root(cc_')[j] /\ ClassesKept
         /\ Len(frames') + Cardinality(Roots') <= Len(callers) + Cardinality(Roots)
<1>0. Nodes' = Nodes  BY DEF Nodes
<1> IsFiniteSet(Roots) /\ Cardinality(Roots) \in Nat  BY RootsFinite
<1> Len(callers) \in Nat  BY DEF GoodStack, IsStack
<1>1. CASE Find(i) = Find(j) /\ frames' = callers /\ cc_' = cc_ /\ ccpar_' = ccpar_
  <2>1. Structure'  BY <1>0, <1>1 DEF Structure, ParentsAtRoot, Roots, Find
  <2>2. MergesEntailed'  BY <1>0, <1>1 DEF MergesEntailed, Find
  <2>3. GoodStack(frames)'
    BY <1>0, <1>1 DEF GoodStack, GoodFrame, IsFrame, HoldsParents
  <2>4. ASSUME NEW p \in Nodes, NEW q \in Nodes, dag.args_[p] # << >>,
               Congruent(p, q)', Find(p)' # Find(q)'
        PROVE  PendingIn(frames', p, q)
    <3>1. Congruent(p, q) /\ Find(p) # Find(q)  BY <1>1, <2>4 DEF Congruent, Find
    <3>2. PendingIn(callers, p, q)  BY <1>1, <2>4, <3>1
    <3>3. QED BY <1>1, <3>2
  <2>5. CongruencesPending'  BY <1>0, <2>4 DEF CongruencesPending, PendingIn
  <2>6. Roots' = Roots  BY <1>0, <1>1 DEF Roots
  <2>7. QED BY <1>1, <2>1, <2>2, <2>3, <2>5, <2>6 DEF ClassesKept, Find
<1>2. CASE Linked(i, j, callers)
  <2> DEFINE f == Frame(ccpar_[Find(i)], ccpar_[Find(j)])
             P(n) == ParentsIn(dag, {m \in Nodes : Find(m) = Find(n)})
  <2>1. \A n \in Nodes : Root(cc_')[n] = IF Find(n) = Find(i) THEN Find(j) ELSE Find(n)
    BY <1>2 DEF Linked
  <2>2. GoodFrame(f) /\ \A p \in P(i), q \in P(j) : IsAhead(f, p, q)  BY PushedFrame
  <2> HIDE DEF f
  <2>3. frames' = Append(callers, f)  BY <1>2 DEF Linked, f
  <2>4. /\ IsStack(frames') /\ Len(frames') = Len(callers) + 1
        /\ \A k \in 1..Len(callers) : frames'[k] = callers[k]
        /\ frames'[Len(callers) + 1] = f
    BY <2>3, Pushed DEF GoodStack
  <2>5. GoodStack(frames)'
    <3>1. \A k \in 1..Len(frames') : GoodFrame(frames'[k])
      <4>1. Len(callers) \in Nat  BY DEF GoodStack, IsStack
      <4>2. \A k \in 1..Len(frames') : k = Len(callers) + 1 \/ k \in 1..Len(callers)
        BY <2>4, <4>1
      <4>3. QED BY <2>2, <2>4, <4>2 DEF GoodStack
    <3>2. QED BY <1>0, <2>4, <3>1 DEF GoodStack, GoodFrame, IsFrame, HoldsParents
  <2>6. MergesEntailed'
    <3> SUFFICES ASSUME NEW v \in [Nodes -> Nodes], RespectsEqualities(dag, v),
                        RespectsFunctions(dag, v), NEW n \in Nodes
                 PROVE  v[n] = v[Root(cc_')[n]]
      BY <1>0 DEF MergesEntailed, Find
    <3>1. \A m \in Nodes : v[m] = v[Find(m)]  BY DEF MergesEntailed
    <3>2. v[i] = v[j]  BY DEF Entailed
    <3>3. QED BY <2>1, <3>1, <3>2
  <2>7. ASSUME NEW p \in Nodes, NEW q \in Nodes, dag.args_[p] # << >>,
               Congruent(p, q)', Find(p)' # Find(q)'
        PROVE  PendingIn(frames', p, q)
    <3>1. Len(callers) \in Nat  BY DEF GoodStack, IsStack
    <3>2. Find(p) # Find(q) /\ ~ (p = i /\ q = j) /\ ~ (p = j /\ q = i)
      BY <2>1, <2>7 DEF Find
    <3>3. CASE Congruent(p, q)
      <4>1. PendingIn(callers, p, q)  BY <2>7, <3>2, <3>3
      <4>2. PICK k \in 1..Len(callers) : IsAhead(callers[k], p, q) \/ IsAhead(callers[k], q, p)
        BY <4>1 DEF PendingIn
      <4>3. k \in 1..Len(frames') /\ frames'[k] = callers[k]  BY <2>4, <3>1
      <4>4. QED BY <4>2, <4>3 DEF PendingIn
    <3>4. CASE ~ Congruent(p, q)
      <4>1. (p \in P(i) /\ q \in P(j)) \/ (q \in P(i) /\ p \in P(j))
        BY <2>1, <2>7, <3>4, NewlyCongruent
      <4>2. IsAhead(f, p, q) \/ IsAhead(f, q, p)  BY <2>2, <4>1
      <4>3. Len(callers) + 1 \in 1..Len(frames')  BY <2>4, <3>1
      <4>4. QED BY <2>4, <4>2, <4>3 DEF PendingIn
    <3>5. QED BY <3>3, <3>4
  <2>8. CongruencesPending'  BY <1>0, <2>7 DEF CongruencesPending, PendingIn
  <2>9. Structure'  BY <1>2 DEF Linked
  <2>10. Len(frames') + Cardinality(Roots') = Len(callers) + Cardinality(Roots)
    <3>1. Roots' = Roots \ {Find(i)} /\ Find(i) \in Roots  BY <1>2, FindFacts DEF Linked
    <3>2. Cardinality(Roots') = Cardinality(Roots) - 1  BY <3>1, FS_RemoveElement
    <3>3. QED BY <2>4, <3>2
  <2>11. QED BY <2>1, <2>5, <2>6, <2>8, <2>9, <2>10 DEF ClassesKept
<1>3. QED BY <1>1, <1>2, MergeCall

\* The constraints applied stay so while Decision merges: the inequalities are
\* looked at afterwards only.
LEMMA ConstraintsKept ==
  ASSUME CCInv, ~ EqualitiesDone, UNCHANGED <<dag, next_neq, res, verdict>>, ClassesKept,
         \/ next_eq' = next_eq
         \/ /\ next_eq' = next_eq + 1 /\ next_eq <= Len(dag.equality_)
            /\ Root(cc_')[dag.equality_[next_eq][1]] = Root(cc_')[dag.equality_[next_eq][2]]
  PROVE  /\ ConstraintsApplied'
         /\ next_eq' \in 1..Len(dag.equality_) + 1
<1>1. /\ next_eq \in 1..Len(dag.equality_) + 1 /\ Len(dag.equality_) \in Nat
      /\ next_neq \in 1..Len(dag.inequality_) + 1 /\ Len(dag.inequality_) \in Nat
      /\ res \in BOOLEAN
  BY DagFacts DEF CCInv, TypeOK, Structure
<1>2. next_neq = 1 /\ verdict = "none" /\ res = TRUE
  <2>1. next_neq = 1 /\ verdict = "none"  BY <1>1 DEF CCInv, ConstraintsApplied
  <2>2. 1..next_neq - 1 = {}  BY <2>1
  <2>3. QED BY <2>1, <2>2 DEF CCInv, ConstraintsApplied
<1>3. 1..next_neq' - 1 = {} /\ res' = TRUE /\ next_neq' = 1 /\ verdict' = "none"  BY <1>2
<1>4. ASSUME NEW k \in 1..next_eq' - 1
      PROVE  Root(cc_')[dag.equality_[k][1]] = Root(cc_')[dag.equality_[k][2]]
  <2>1. CASE k \in 1..next_eq - 1
    <3>1. k \in 1..Len(dag.equality_)  BY <1>1, <2>1
    <3>2. dag.equality_[k][1] \in Nodes /\ dag.equality_[k][2] \in Nodes
      BY <3>1, DagFacts DEF CCInv, Structure
    <3>3. Find(dag.equality_[k][1]) = Find(dag.equality_[k][2])
      BY <2>1 DEF CCInv, ConstraintsApplied
    <3>4. QED BY <3>2, <3>3 DEF ClassesKept
  <2>2. CASE k \notin 1..next_eq - 1
    <3>1. next_eq' = next_eq + 1 /\ k = next_eq  BY <1>1, <2>2
    <3>2. QED BY <1>1, <3>1
  <2>3. QED BY <2>1, <2>2
<1>5. ConstraintsApplied'  BY <1>3, <1>4 DEF ConstraintsApplied, Find
<1>6. next_eq' \in 1..Len(dag.equality_) + 1  BY <1>1
<1>7. QED BY <1>5, <1>6

\* The types follow from the structure and the counters.
LEMMA TypesFromParts ==
  ASSUME Structure', GoodStack(frames)', dag' = dag,
         next_eq' \in 1..Len(dag.equality_) + 1,
         next_neq' \in 1..Len(dag.inequality_) + 1,
         res' \in BOOLEAN, verdict' \in {"none", "SAT", "UNSAT"}
  PROVE  TypeOK'
BY DEF TypeOK, Structure, GoodStack, GoodFrame, IsStack

\* The bound on the recursion holds while activations and representatives
\* together do not become more.
LEMMA BoundedKeeps ==
  ASSUME CCInv, dag' = dag, Structure', GoodStack(frames)',
         Len(frames') + Cardinality(Roots') <= Len(frames) + Cardinality(Roots)
  PROVE  RecursionBounded'
<1>1. Cardinality(Roots) \in Nat /\ Len(frames) \in Nat /\ Len(dag.fn_) \in Nat
  BY RootsFinite, DagFacts DEF CCInv, GoodStack, IsStack, Structure
<1>2. Cardinality(Roots') \in Nat /\ Len(frames') \in Nat
  <2>1. IsFiniteSet(Roots')
    <3>1. Nodes' = Nodes /\ Nodes = 1..Len(dag.fn_)  BY DagFacts DEF Nodes, CCInv, Structure
    <3>2. Roots' \in SUBSET Nodes  BY <3>1 DEF Roots
    <3>3. IsFiniteSet(Nodes)  BY RootsFinite DEF CCInv
    <3>4. QED BY <3>2, <3>3, FS_Subset
  <2>2. QED BY <2>1, FS_CardinalityType DEF GoodStack, IsStack
<1>3. QED BY <1>1, <1>2 DEF CCInv, RecursionBounded

\* An equality is merged.
LEMMA MergeEqualityKeeps == CCInv /\ MergeEquality => CCInv' /\ ClassesKept
<1> SUFFICES ASSUME CCInv, MergeEquality PROVE CCInv' /\ ClassesKept  OBVIOUS
<1> DEFINE i == dag.equality_[next_eq][1]
           j == dag.equality_[next_eq][2]
<1>1. /\ frames = << >> /\ next_eq <= Len(dag.equality_) /\ dag' = dag
      /\ Merge(i, j, << >>) /\ next_eq' = next_eq + 1
      /\ UNCHANGED <<dag, next_neq, res, verdict>>
  BY DEF MergeEquality
<1>2. next_eq \in 1..Len(dag.equality_)
  BY <1>1, DagFacts DEF CCInv, TypeOK
<1>3. i \in Nodes /\ j \in Nodes  BY <1>2, DagFacts DEF CCInv, Structure
<1>4. Entailed(i, j)
  BY <1>2, DagFacts DEF CCInv, Structure, Entailed, RespectsEqualities
<1>5. GoodStack(<< >>)  BY DEF GoodStack, IsStack
<1>6. ~ EqualitiesDone  BY <1>1, <1>2, DagFacts DEF CCInv, Structure, EqualitiesDone
<1>7. \A p, q \in Nodes : ~ (dag.args_[p] # << >> /\ Congruent(p, q) /\ Find(p) # Find(q))
  <2>1. 1..Len(frames) = {}  BY <1>1
  <2>2. QED BY <2>1 DEF CCInv, CongruencesPending
<1> HIDE DEF i, j
<1>8. /\ Structure' /\ MergesEntailed' /\ GoodStack(frames)' /\ CongruencesPending'
      /\ Root(cc_')[i] = Root(cc_')[j] /\ ClassesKept
      /\ Len(frames') + Cardinality(Roots') <= Len(<< >>) + Cardinality(Roots)
  BY <1>1, <1>3, <1>4, <1>5, <1>7, MergeKeeps DEF CCInv
<1>9. Root(cc_')[dag.equality_[next_eq][1]] = Root(cc_')[dag.equality_[next_eq][2]]
  BY <1>8 DEF i, j
<1>10. ConstraintsApplied' /\ next_eq' \in 1..Len(dag.equality_) + 1
  BY <1>1, <1>6, <1>8, <1>9, ConstraintsKept
<1>11. TypeOK'  BY <1>1, <1>8, <1>10, TypesFromParts DEF CCInv, TypeOK
<1>12. RecursionBounded'  BY <1>1, <1>8, BoundedKeeps
<1>13. QED BY <1>8, <1>10, <1>11, <1>12 DEF CCInv

\* A pair of parents is looked at.
LEMMA MergeParentsKeeps == CCInv /\ MergeParents => CCInv' /\ ClassesKept
<1> SUFFICES ASSUME CCInv, MergeParents PROVE CCInv' /\ ClassesKept  OBVIOUS
<1> DEFINE t1 == Inner.par_i[Inner.at_i]
           t2 == Inner.par_j[Inner.at_j]
<1>1. /\ frames # << >> /\ HasPair(Inner)
      /\ UNCHANGED <<dag, next_eq, next_neq, res, verdict>>
      /\ \/ Find(t1) # Find(t2) /\ Congruent(t1, t2) /\ Merge(t1, t2, Callers)
         \/ /\ Find(t1) = Find(t2) \/ ~ Congruent(t1, t2)
            /\ frames' = Callers
            /\ UNCHANGED <<cc_, ccpar_>>
  BY DEF MergeParents, Callers
<1>2. GoodStack(frames) /\ GoodFrame(Inner)
  <2>1. Len(frames) \in 1..Len(frames)
    BY <1>1, StackIsSequence DEF CCInv, GoodStack, IsStack
  <2>2. QED BY <2>1 DEF CCInv, GoodStack, Inner
<1>3. t1 \in Nodes /\ t2 \in Nodes /\ dag.args_[t1] # << >>  BY <1>1, <1>2, AdvanceGood
<1>4. /\ GoodStack(Callers) /\ Len(Callers) = Len(frames)
      /\ \A p, q : PendingIn(frames, p, q) =>
           PendingIn(Callers, p, q) \/ (p = t1 /\ q = t2) \/ (q = t1 /\ p = t2)
  BY <1>1, <1>2, CallersGood
<1>5. ~ EqualitiesDone  BY <1>1 DEF EqualitiesDone
<1> HIDE DEF t1, t2
<1>6. \A p, q \in Nodes :
        dag.args_[p] # << >> /\ Congruent(p, q) /\ Find(p) # Find(q) =>
          PendingIn(Callers, p, q) \/ (p = t1 /\ q = t2) \/ (p = t2 /\ q = t1)
  BY <1>4 DEF CCInv, CongruencesPending, PendingIn
<1>7. /\ Structure' /\ MergesEntailed' /\ GoodStack(frames)' /\ CongruencesPending' /\ ClassesKept
      /\ Len(frames') + Cardinality(Roots') <= Len(Callers) + Cardinality(Roots)
  <2>1. CASE Find(t1) # Find(t2) /\ Congruent(t1, t2) /\ Merge(t1, t2, Callers)
    <3>1. Entailed(t1, t2)
      <4> SUFFICES ASSUME NEW v \in [Nodes -> Nodes], RespectsEqualities(dag, v),
                          RespectsFunctions(dag, v)
                   PROVE  v[t1] = v[t2]
        BY DEF Entailed
      <4>1. \A n \in Nodes : v[n] = v[Find(n)]  BY DEF CCInv, MergesEntailed
      <4>2. dag.args_[t1] \in Seq(Nodes) /\ dag.args_[t2] \in Seq(Nodes)
        BY <1>3 DEF CCInv, TypeOK, IsDag, Nodes
      <4>3. /\ dag.fn_[t1] = dag.fn_[t2] /\ Len(dag.args_[t1]) = Len(dag.args_[t2])
            /\ \A k \in DOMAIN dag.args_[t1] : Find(dag.args_[t1][k]) = Find(dag.args_[t2][k])
        BY <2>1 DEF Congruent
      <4>4. \A k \in DOMAIN dag.args_[t1] :
              dag.args_[t1][k] \in Nodes /\ dag.args_[t2][k] \in Nodes
        BY <4>2, <4>3
      <4>5. \A k \in DOMAIN dag.args_[t1] : v[dag.args_[t1][k]] = v[dag.args_[t2][k]]
        BY <4>1, <4>3, <4>4
      <4>6. QED BY <1>3, <4>3, <4>5 DEF RespectsFunctions, Nodes
    <3>2. QED BY <1>1, <1>3, <1>4, <1>6, <2>1, <3>1, MergeKeeps DEF CCInv
  <2>2. CASE /\ Find(t1) = Find(t2) \/ ~ Congruent(t1, t2)
             /\ frames' = Callers
             /\ UNCHANGED <<cc_, ccpar_>>
    <3>0. Nodes' = Nodes /\ dag' = dag  BY <1>1 DEF Nodes
    <3>1. Structure'  BY <2>2, <3>0 DEF CCInv, Structure, ParentsAtRoot, Roots, Find
    <3>2. MergesEntailed'  BY <2>2, <3>0 DEF CCInv, MergesEntailed, Find
    <3>3. GoodStack(frames)'
      BY <1>4, <2>2, <3>0 DEF GoodStack, GoodFrame, IsFrame, HoldsParents
    <3>4. \A p, q \in Nodes :
            dag.args_[p] # << >> /\ Congruent(p, q) /\ Find(p) # Find(q) =>
              PendingIn(frames', p, q)
      <4>1. \A p, q \in Nodes : Congruent(p, q) => Congruent(q, p)
        BY CongruentSymmetric DEF CCInv, TypeOK
      <4>2. QED BY <1>3, <1>6, <2>2, <4>1
    <3>5. CongruencesPending'
      BY <2>2, <3>0, <3>4 DEF CongruencesPending, PendingIn, Congruent, Find
    <3>6. Roots' = Roots /\ Len(frames') = Len(Callers)  BY <2>2, <3>0 DEF Roots
    <3>7. Len(Callers) \in Nat /\ Cardinality(Roots) \in Nat
      BY <1>4, RootsFinite DEF CCInv, GoodStack, IsStack
    <3>8. QED BY <2>2, <3>1, <3>2, <3>3, <3>5, <3>6, <3>7 DEF ClassesKept, Find
  <2>3. QED BY <1>1, <2>1, <2>2
<1>8. ConstraintsApplied' /\ next_eq' \in 1..Len(dag.equality_) + 1
  BY <1>1, <1>5, <1>7, ConstraintsKept
<1>9. TypeOK'  BY <1>1, <1>7, <1>8, TypesFromParts DEF CCInv, TypeOK
<1>10. RecursionBounded'
  <2>1. Len(frames') + Cardinality(Roots') <= Len(frames) + Cardinality(Roots)
    BY <1>4, <1>7
  <2>2. QED BY <1>1, <1>7, <2>1, BoundedKeeps
<1>11. QED BY <1>7, <1>8, <1>9, <1>10 DEF CCInv

\* An activation returns: nothing was ahead of it.
LEMMA MergeReturnKeeps == CCInv /\ MergeReturn => CCInv' /\ ClassesKept
<1> SUFFICES ASSUME CCInv, MergeReturn PROVE CCInv' /\ ClassesKept  OBVIOUS
<1>1. /\ frames # << >> /\ ~ HasPair(Inner)
      /\ frames' = SubSeq(frames, 1, Len(frames) - 1)
      /\ UNCHANGED <<dag, cc_, ccpar_, next_eq, next_neq, res, verdict>>
  BY DEF MergeReturn
<1>2. Nodes' = Nodes  BY <1>1 DEF Nodes
<1>3. /\ IsStack(frames') /\ Len(frames') = Len(frames) - 1
      /\ \A k \in 1..Len(frames') : frames'[k] = frames[k]
  BY <1>1, Popped DEF CCInv, GoodStack
<1>4. Len(frames) \in Nat /\ Len(frames) \in 1..Len(frames)
  BY <1>1, StackIsSequence DEF CCInv, GoodStack, IsStack
<1>5. GoodStack(frames)'
  <2>1. \A k \in 1..Len(frames') : GoodFrame(frames'[k])
    BY <1>3, <1>4 DEF CCInv, GoodStack
  <2>2. QED BY <1>1, <1>2, <1>3, <2>1 DEF GoodStack, GoodFrame, IsFrame, HoldsParents
<1>6. ASSUME NEW p, NEW q, PendingIn(frames, p, q) PROVE PendingIn(frames', p, q)
  <2>1. PICK k \in 1..Len(frames) : IsAhead(frames[k], p, q) \/ IsAhead(frames[k], q, p)
    BY <1>6 DEF PendingIn
  <2>2. GoodFrame(Inner)  BY <1>4 DEF CCInv, GoodStack, Inner
  <2>3. k # Len(frames)  BY <1>1, <2>1, <2>2, NothingAhead DEF Inner
  <2>4. k \in 1..Len(frames')  BY <1>3, <1>4, <2>3
  <2>5. QED BY <1>3, <2>1, <2>4 DEF PendingIn
<1>7. CongruencesPending'
  <2>1. \A p, q \in Nodes :
          dag.args_[p] # << >> /\ Congruent(p, q) /\ Find(p) # Find(q) =>
            PendingIn(frames', p, q)
    BY <1>6 DEF CCInv, CongruencesPending, PendingIn
  <2>2. \A p, q : (Congruent(p, q))' = Congruent(p, q)  BY <1>1 DEF Congruent, Find
  <2>3. \A p : (Find(p))' = Find(p)  BY <1>1 DEF Find
  <2>4. dag' = dag  BY <1>1
  <2> HIDE DEF Inner
  <2>5. QED BY <1>2, <2>1, <2>2, <2>3, <2>4, Zenon DEF CongruencesPending, PendingIn
<1>8. Structure' /\ MergesEntailed'
  <2>1. dag' = dag /\ cc_' = cc_ /\ ccpar_' = ccpar_  BY <1>1
  <2>2. Structure'
    <3> HIDE DEF Inner
    <3>1. QED BY <1>2, <2>1 DEF CCInv, Structure, ParentsAtRoot, Roots, Find
  <2>3. MergesEntailed'
    <3>1. \A p : (Find(p))' = Find(p)  BY <2>1 DEF Find
    <3>2. QED BY <1>2, <2>1, <3>1 DEF CCInv, MergesEntailed
  <2>4. QED BY <2>2, <2>3
<1>9. ~ EqualitiesDone  BY <1>1 DEF EqualitiesDone
<1>10. ConstraintsApplied' /\ next_eq' \in 1..Len(dag.equality_) + 1
  BY <1>1, <1>9, ConstraintsKept DEF ClassesKept, Find
<1>11. TypeOK'  BY <1>1, <1>5, <1>8, <1>10, TypesFromParts DEF CCInv, TypeOK
<1>12. RecursionBounded'
  <2>1. Roots' = Roots  BY <1>1, <1>2 DEF Roots
  <2>2. Cardinality(Roots) \in Nat  BY RootsFinite DEF CCInv
  <2>3. QED BY <1>1, <1>3, <1>4, <1>5, <1>8, <2>1, <2>2, BoundedKeeps
<1>13. ClassesKept  BY <1>1 DEF ClassesKept, Find
<1>14. QED BY <1>5, <1>7, <1>8, <1>10, <1>11, <1>12, <1>13 DEF CCInv

\* Steps that merge nothing leave the invariants of merging alone.
LEMMA ClassesUnchanged ==
  ASSUME CCInv, UNCHANGED <<dag, cc_, ccpar_, frames>>
  PROVE  /\ Structure' /\ GoodStack(frames)' /\ CongruencesPending' /\ MergesEntailed'
         /\ RecursionBounded'
<1>1. Nodes' = Nodes /\ Roots' = Roots  BY DEF Nodes, Roots
<1>2. Structure'  BY <1>1 DEF CCInv, Structure, ParentsAtRoot, Find
<1>3. GoodStack(frames)'
  BY <1>1 DEF CCInv, GoodStack, GoodFrame, IsFrame, HoldsParents
<1>4. CongruencesPending'  BY <1>1 DEF CCInv, CongruencesPending, Congruent, Find
<1>5. MergesEntailed'  BY <1>1 DEF CCInv, MergesEntailed, Find
<1>6. RecursionBounded'  BY <1>1 DEF CCInv, RecursionBounded
<1>7. QED BY <1>2, <1>3, <1>4, <1>5, <1>6

\* An inequality is looked at.
LEMMA CheckInequalityKeeps == CCInv /\ CheckInequality => CCInv' /\ ClassesKept
<1> SUFFICES ASSUME CCInv, CheckInequality PROVE CCInv' /\ ClassesKept  OBVIOUS
<1>1. /\ EqualitiesDone /\ next_neq <= Len(dag.inequality_) /\ next_neq' = next_neq + 1
      /\ res' = (res /\ Find(dag.inequality_[next_neq][1])
                          # Find(dag.inequality_[next_neq][2]))
      /\ UNCHANGED <<dag, cc_, ccpar_, frames, next_eq, verdict>>
  BY DEF CheckInequality
<1>2. next_neq \in 1..Len(dag.inequality_) + 1 /\ Len(dag.inequality_) \in Nat
      /\ res \in BOOLEAN
  BY DagFacts DEF CCInv, TypeOK, Structure
<1>3. TypeOK'
  <2>1. next_neq' \in 1..Len(dag.inequality_) + 1  BY <1>1, <1>2
  <2>2. res' \in BOOLEAN  BY <1>1, <1>2
  <2>3. QED BY <1>1, <2>1, <2>2 DEF CCInv, TypeOK, IsFrame, Nodes
<1>4. res' = \A k \in 1..next_neq' - 1 :
               Find(dag.inequality_[k][1]) # Find(dag.inequality_[k][2])
  <2> DEFINE Differ(k) == Find(dag.inequality_[k][1]) # Find(dag.inequality_[k][2])
  <2>1. 1..next_neq' - 1 = (1..next_neq - 1) \cup {next_neq}  BY <1>1, <1>2
  <2>2. res = \A k \in 1..next_neq - 1 : Differ(k)  BY DEF CCInv, ConstraintsApplied
  <2>3. res' = (res /\ Differ(next_neq))  BY <1>1
  <2> HIDE DEF Differ
  <2>4. res' = \A k \in 1..next_neq' - 1 : Differ(k)  BY <2>1, <2>2, <2>3
  <2>5. QED BY <2>4 DEF Differ
<1>5. verdict = "none"  BY <1>1, <1>2 DEF CCInv, ConstraintsApplied
<1>6. ConstraintsApplied'
  BY <1>1, <1>4, <1>5 DEF CCInv, ConstraintsApplied, EqualitiesDone, Find
<1>7. /\ Structure' /\ GoodStack(frames)' /\ CongruencesPending' /\ MergesEntailed'
      /\ RecursionBounded'
  BY <1>1, ClassesUnchanged
<1>8. ClassesKept  BY <1>1 DEF ClassesKept, Find
<1>9. QED BY <1>3, <1>6, <1>7, <1>8 DEF CCInv

\* The verdict is printed.
LEMMA ReportKeeps == CCInv /\ Report => CCInv' /\ ClassesKept
<1> SUFFICES ASSUME CCInv, Report PROVE CCInv' /\ ClassesKept  OBVIOUS
<1>1. /\ EqualitiesDone /\ next_neq > Len(dag.inequality_) /\ verdict = "none"
      /\ verdict' = IF res THEN "SAT" ELSE "UNSAT"
      /\ UNCHANGED <<dag, cc_, ccpar_, frames, next_eq, next_neq, res>>
  BY DEF Report
<1>2. TypeOK'  BY <1>1 DEF CCInv, TypeOK, IsFrame, Nodes
<1>3. ConstraintsApplied'
  BY <1>1 DEF CCInv, ConstraintsApplied, EqualitiesDone, Find
<1>4. /\ Structure' /\ GoodStack(frames)' /\ CongruencesPending' /\ MergesEntailed'
      /\ RecursionBounded'
  BY <1>1, ClassesUnchanged
<1>5. ClassesKept  BY <1>1 DEF ClassesKept, Find
<1>6. QED BY <1>2, <1>3, <1>4, <1>5 DEF CCInv

\* Before the first merge Find returns what it is given.
LEMMA InitialRoots ==
  ASSUME cc_ = [n \in Nodes |-> n]
  PROVE  \A n \in Nodes : Find(n) = n /\ n \in Roots
<1>1. IsForest(cc_) /\ DOMAIN cc_ = Nodes  BY InitialForest
<1>2. \A n \in Nodes : cc_[n] = n  OBVIOUS
<1>3. QED BY <1>1, <1>2, RootFacts DEF Find, Roots

\* What the constructor of Dag makes of a node table.
Constructed ==
  /\ IsDag(dag)
  /\ cc_ = [n \in Nodes |-> n] /\ ccpar_ = dag.ccpar_ /\ frames = << >>
  /\ next_eq = 1 /\ next_neq = 1 /\ res = TRUE /\ verdict = "none"

\* Nothing is merged at first.
LEMMA ConstructedCCInv == Constructed => CCInv
<1> SUFFICES ASSUME Constructed PROVE CCInv  OBVIOUS
<1>1. IsDag(dag)  BY DEF Constructed
<1>2. cc_ = [n \in Nodes |-> n] /\ ccpar_ = dag.ccpar_ /\ frames = << >>
      /\ next_eq = 1 /\ next_neq = 1 /\ res = TRUE /\ verdict = "none"
  BY DEF Constructed
<1>3. IsForest(cc_) /\ cc_ \in [Nodes -> Nodes]  BY <1>2, InitialForest
<1>4. \A n \in Nodes : Find(n) = n /\ n \in Roots  BY <1>2, InitialRoots
<1>5. ccpar_ \in [Nodes -> Seq(Nodes)]
      /\ \A n \in Nodes : Elements(ccpar_[n]) = ParentsIn(dag, {n})
  BY <1>1, <1>2 DEF IsDag, Nodes
<1>6. ParentsAtRoot
  <2>1. \A n \in Nodes : {m \in Nodes : Find(m) = n} = {n}  BY <1>4
  <2>2. QED BY <1>4, <1>5, <2>1 DEF ParentsAtRoot
<1>7. Structure  BY <1>1, <1>3, <1>5, <1>6 DEF Structure
<1>8. GoodStack(frames)  BY <1>2 DEF GoodStack, IsStack
<1>9. CongruencesPending
  <2> SUFFICES ASSUME NEW p \in Nodes, NEW q \in Nodes, dag.args_[p] # << >>,
                      Congruent(p, q), Find(p) # Find(q)
               PROVE  FALSE
    BY DEF CongruencesPending
  <2>1. dag.args_[p] \in Seq(Nodes) /\ dag.args_[q] \in Seq(Nodes)
    BY <1>1 DEF IsDag, Nodes
  <2>2. /\ dag.fn_[p] = dag.fn_[q] /\ Len(dag.args_[p]) = Len(dag.args_[q])
        /\ \A k \in DOMAIN dag.args_[p] : dag.args_[p][k] = dag.args_[q][k]
    <3>1. \A k \in DOMAIN dag.args_[p] : Find(dag.args_[p][k]) = Find(dag.args_[q][k])
      BY DEF Congruent
    <3>2. \A k \in DOMAIN dag.args_[p] :
            dag.args_[p][k] \in Nodes /\ dag.args_[q][k] \in Nodes
      BY <2>1 DEF Congruent
    <3>3. QED BY <1>4, <3>1, <3>2 DEF Congruent
  <2>3. dag.args_[p] = dag.args_[q]  BY <2>1, <2>2
  <2>4. p = q  BY <1>1, <2>2, <2>3 DEF IsDag, Nodes
  <2>5. QED BY <2>4
<1>10. MergesEntailed  BY <1>4 DEF MergesEntailed
<1>11. ConstraintsApplied
  <2>1. 1..next_eq - 1 = {} /\ 1..next_neq - 1 = {}  BY <1>2
  <2>2. QED BY <1>2, <2>1 DEF ConstraintsApplied
<1>12. TypeOK
  <2>1. next_eq \in 1..Len(dag.equality_) + 1 /\ next_neq \in 1..Len(dag.inequality_) + 1
    BY <1>1, <1>2, DagFacts
  <2>2. QED BY <1>1, <1>2, <1>3, <1>5, <1>8, <2>1 DEF TypeOK, GoodStack, IsStack
<1>13. RecursionBounded
  <2>1. Nodes = 1..Len(dag.fn_) /\ Len(dag.fn_) \in Nat  BY <1>1, DagFacts
  <2>2. Roots = Nodes  BY <1>4 DEF Roots
  <2>3. Cardinality(Nodes) = Len(dag.fn_)  BY <2>1, FS_Interval
  <2>4. Len(frames) = 0  BY <1>2
  <2>5. QED BY <2>1, <2>2, <2>3, <2>4 DEF RecursionBounded
<1>14. QED BY <1>7, <1>8, <1>9, <1>10, <1>11, <1>12, <1>13 DEF CCInv

LEMMA InitCCInv == Init => CCInv
<1>1. Init => Constructed  BY DagsAssumption DEF Init, Constructed
<1>2. QED BY <1>1, ConstructedCCInv

\* Every step keeps the invariant and keeps classes together.
LEMMA NextCCInv == CCInv /\ [Next]_vars => CCInv' /\ [ClassesKept]_vars
<1>1. CCInv /\ Next => CCInv' /\ ClassesKept
  BY MergeEqualityKeeps, MergeParentsKeeps, MergeReturnKeeps, CheckInequalityKeeps,
    ReportKeeps DEF Next
<1>2. CCInv /\ UNCHANGED vars => CCInv'
  <2> SUFFICES ASSUME CCInv, UNCHANGED vars PROVE CCInv'  OBVIOUS
  <2>1. UNCHANGED <<dag, cc_, ccpar_, frames, next_eq, next_neq, res, verdict>>  BY DEF vars
  <2>2. TypeOK'  BY <2>1 DEF CCInv, TypeOK, IsFrame, Nodes
  <2>3. ConstraintsApplied'
    BY <2>1 DEF CCInv, ConstraintsApplied, EqualitiesDone, Find
  <2>4. /\ Structure' /\ GoodStack(frames)' /\ CongruencesPending' /\ MergesEntailed'
        /\ RecursionBounded'
    BY <2>1, ClassesUnchanged
  <2>5. QED BY <2>2, <2>3, <2>4 DEF CCInv
<1>3. QED BY <1>1, <1>2

\* The invariant holds in every behaviour.
THEOREM Invariant == Spec => []CCInv
<1>1. CCInv /\ [Next]_vars => CCInv'  BY NextCCInv
<1>2. QED BY InitCCInv, <1>1, PTL DEF Spec

\* The types hold in every behaviour.
THEOREM TypeCorrect == Spec => []TypeOK
<1>1. CCInv => TypeOK  BY DEF CCInv
<1>2. QED BY <1>1, Invariant, PTL

\* Find always terminates: the links never form a cycle.
THEOREM LinksAlwaysAcyclic == Spec => []LinksAcyclic
<1>1. CCInv => LinksAcyclic  BY DEF CCInv, Structure, IsForest, LinksAcyclic
<1>2. QED BY <1>1, Invariant, PTL

\* Every class always has exactly its parents recorded at its representative.
THEOREM ParentsAlwaysAtRoot == Spec => []ParentsAtRoot
<1>1. CCInv => ParentsAtRoot  BY DEF CCInv, Structure
<1>2. QED BY <1>1, Invariant, PTL

\* No congruence is ever forgotten by the nested activations of Merge.
THEOREM CongruencesAlwaysPending == Spec => []CongruencesPending
<1>1. CCInv => CongruencesPending  BY DEF CCInv
<1>2. QED BY <1>1, Invariant, PTL

\* Only what the equalities imply is ever merged.
THEOREM MergesAlwaysEntailed == Spec => []MergesEntailed
<1>1. CCInv => MergesEntailed  BY DEF CCInv
<1>2. QED BY <1>1, Invariant, PTL

\* The recursion of Merge is never deeper than the merges that are possible.
THEOREM RecursionAlwaysBounded == Spec => []RecursionBounded
<1>1. CCInv => RecursionBounded  BY DEF CCInv
<1>2. QED BY <1>1, Invariant, PTL

\* The invariant is enough for a verdict to be right.
LEMMA VerdictFromInv == CCInv => VerdictCorrect
<1> SUFFICES ASSUME CCInv, verdict # "none"
             PROVE  (verdict = "SAT") <=>
                      \E v \in [Nodes -> Nodes] : /\ RespectsEqualities(dag, v)
                                                  /\ RespectsInequalities(dag, v)
                                                  /\ RespectsFunctions(dag, v)
  BY DEF VerdictCorrect
<1>1. /\ frames = << >> /\ next_eq > Len(dag.equality_) /\ next_neq > Len(dag.inequality_)
      /\ verdict = IF res THEN "SAT" ELSE "UNSAT"
  BY DEF CCInv, ConstraintsApplied, EqualitiesDone
<1>2. /\ DOMAIN dag.equality_ = 1..Len(dag.equality_) /\ Len(dag.equality_) \in Nat
      /\ DOMAIN dag.inequality_ = 1..Len(dag.inequality_) /\ Len(dag.inequality_) \in Nat
      /\ next_eq \in 1..Len(dag.equality_) + 1
      /\ next_neq \in 1..Len(dag.inequality_) + 1
  BY DagFacts DEF CCInv, TypeOK
<1>3. next_eq - 1 = Len(dag.equality_) /\ next_neq - 1 = Len(dag.inequality_)
  BY <1>1, <1>2
<1>4. CASE res
  <2> DEFINE v == Root(cc_)
  <2>1. v \in [Nodes -> Nodes] /\ \A n : v[n] = Find(n)
    BY FindFacts DEF CCInv, Find
  <2> HIDE DEF v
  <2>2. RespectsEqualities(dag, v)
    BY <1>2, <1>3, <2>1 DEF CCInv, ConstraintsApplied, RespectsEqualities
  <2>3. RespectsInequalities(dag, v)
    BY <1>2, <1>3, <1>4, <2>1 DEF CCInv, ConstraintsApplied, RespectsInequalities
  <2>4. RespectsFunctions(dag, v)
    <3> SUFFICES ASSUME NEW p \in Nodes, NEW q \in Nodes, dag.args_[p] # << >>,
                        dag.fn_[p] = dag.fn_[q],
                        Len(dag.args_[p]) = Len(dag.args_[q]),
                        \A k \in DOMAIN dag.args_[p] :
                          v[dag.args_[p][k]] = v[dag.args_[q][k]]
                 PROVE  v[p] = v[q]
      BY DEF RespectsFunctions, Nodes
    <3>1. Congruent(p, q)  BY <2>1 DEF Congruent
    <3>2. 1..Len(frames) = {}  BY <1>1
    <3>3. Find(p) = Find(q)  BY <3>1, <3>2 DEF CCInv, CongruencesPending
    <3>4. QED BY <2>1, <3>3
  <2>5. QED BY <1>1, <1>4, <2>1, <2>2, <2>3, <2>4
<1>5. CASE ~ res
  <2>1. PICK k \in DOMAIN dag.inequality_ :
          Find(dag.inequality_[k][1]) = Find(dag.inequality_[k][2])
    BY <1>2, <1>3, <1>5 DEF CCInv, ConstraintsApplied
  <2>2. dag.inequality_[k][1] \in Nodes /\ dag.inequality_[k][2] \in Nodes
    BY <1>2, DagFacts DEF CCInv, TypeOK
  <2>3. ASSUME NEW v \in [Nodes -> Nodes], RespectsEqualities(dag, v),
               RespectsFunctions(dag, v)
        PROVE  ~ RespectsInequalities(dag, v)
    <3>1. v[dag.inequality_[k][1]] = v[dag.inequality_[k][2]]
      BY <2>1, <2>2, <2>3 DEF CCInv, MergesEntailed
    <3>2. QED BY <2>1, <3>1 DEF RespectsInequalities
  <2>4. QED BY <1>1, <1>5, <2>3
<1>6. res \in BOOLEAN  BY DEF CCInv, TypeOK
<1>7. QED BY <1>4, <1>5, <1>6

\* Decision is right: it answers SAT exactly when some interpretation that
\* respects functions satisfies all equalities and inequalities.
THEOREM VerdictAlwaysCorrect == Spec => []VerdictCorrect
BY VerdictFromInv, Invariant, PTL

-----------------------------------------------------------------------------
(* The vectors std::set_union is given.                                    *)

\* Union keeps the recorded parents sorted.
LEMMA UnionKeepsSorted ==
  ASSUME Structure, ParentsSorted, NEW i \in Roots, NEW j \in Roots, Union(i, j), dag' = dag
  PROVE  ParentsSorted'
<1> DEFINE both == VectorSetUnion(ccpar_[i], ccpar_[j])
<1>1. i \in Nodes /\ j \in Nodes /\ Nodes \in SUBSET Int /\ ccpar_ \in [Nodes -> Seq(Nodes)]
  BY DagFacts DEF Roots, Structure
<1>2. \A n \in Nodes : ccpar_[n] \in Seq(Int) /\ NonDecreasing(ccpar_[n])
  <2> SUFFICES ASSUME NEW n \in Nodes PROVE ccpar_[n] \in Seq(Int) /\ NonDecreasing(ccpar_[n])
    OBVIOUS
  <2> DEFINE v == ccpar_[n]
  <2>1. v \in Seq(Nodes) /\ NonDecreasing(v)  BY <1>1 DEF ParentsSorted
  <2> HIDE DEF v
  <2>2. v \in [1..Len(v) -> Nodes] /\ Len(v) \in Nat  BY <2>1
  <2>3. v \in [1..Len(v) -> Int]  BY <1>1, <2>2
  <2>4. v \in Seq(Int)  BY <2>2, <2>3
  <2>5. QED BY <2>1, <2>4 DEF v
<1>3. NonDecreasing(both)  BY <1>1, <1>2, SetUnionSorted
<1> HIDE DEF both
<1>4. ccpar_' = [ccpar_ EXCEPT ![j] = both, ![i] = << >>]  BY DEF Union, both
<1>5. NonDecreasing(<< >>)  BY DEF NonDecreasing
<1>6. \A n \in Nodes : ccpar_'[n] = << >> \/ ccpar_'[n] = both \/ ccpar_'[n] = ccpar_[n]
  BY <1>1, <1>4
<1>7. Nodes' = Nodes  BY DEF Nodes
<1>8. QED BY <1>2, <1>3, <1>5, <1>6, <1>7 DEF ParentsSorted

\* A call of Merge keeps the recorded parents sorted.
LEMMA MergeKeepsSorted ==
  ASSUME Structure, ParentsSorted, NEW i \in Nodes, NEW j \in Nodes, NEW callers,
         Merge(i, j, callers), dag' = dag
  PROVE  ParentsSorted'
<1>1. CASE UNCHANGED ccpar_  BY <1>1 DEF ParentsSorted, Nodes
<1>2. CASE Union(Find(i), Find(j))
  <2> DEFINE ri == Find(i)
             rj == Find(j)
  <2>1. ri \in Roots /\ rj \in Roots /\ Union(ri, rj)  BY <1>2, FindFacts
  <2> HIDE DEF ri, rj
  <2>2. QED BY <2>1, UnionKeepsSorted
<1>3. QED BY <1>1, <1>2 DEF Merge

\* Every step keeps the recorded parents sorted.
LEMMA NextSorted == CCInv /\ ParentsSorted /\ [Next]_vars => ParentsSorted'
<1> SUFFICES ASSUME CCInv, ParentsSorted, [Next]_vars PROVE ParentsSorted'  OBVIOUS
<1> USE DEF CCInv
<1>1. CASE MergeEquality
  <2> DEFINE i == dag.equality_[next_eq][1]
             j == dag.equality_[next_eq][2]
  <2>1. /\ next_eq <= Len(dag.equality_) /\ dag' = dag /\ Merge(i, j, << >>)
    BY <1>1 DEF MergeEquality
  <2>2. i \in Nodes /\ j \in Nodes  BY <2>1, DagFacts DEF TypeOK
  <2> HIDE DEF i, j
  <2>3. QED BY <2>1, <2>2, MergeKeepsSorted
<1>2. CASE MergeParents
  <2> DEFINE t1 == Inner.par_i[Inner.at_i]
             t2 == Inner.par_j[Inner.at_j]
  <2>1. /\ frames # << >> /\ HasPair(Inner) /\ dag' = dag
        /\ Merge(t1, t2, Callers) \/ UNCHANGED ccpar_
    BY <1>2 DEF MergeParents, Callers
  <2>2. Len(frames) \in 1..Len(frames)  BY <2>1, StackIsSequence DEF GoodStack, IsStack
  <2>3. GoodFrame(Inner)  BY <2>2 DEF GoodStack, Inner
  <2>4. t1 \in Nodes /\ t2 \in Nodes  BY <2>1, <2>3, AdvanceGood
  <2> HIDE DEF t1, t2
  <2>5. CASE UNCHANGED ccpar_  BY <2>1, <2>5 DEF ParentsSorted, Nodes
  <2>6. QED BY <2>1, <2>4, <2>5, MergeKeepsSorted
<1>3. CASE MergeReturn \/ CheckInequality \/ Report \/ UNCHANGED vars
  <2>1. dag' = dag /\ ccpar_' = ccpar_
    BY <1>3 DEF MergeReturn, CheckInequality, Report, vars
  <2>2. QED BY <2>1 DEF ParentsSorted, Nodes
<1>4. QED BY <1>1, <1>2, <1>3 DEF Next

\* std::set_union is only ever given sorted vectors: the recorded parents stay
\* sorted through all merges.
THEOREM ParentsAlwaysSorted == Spec => []ParentsSorted
<1>1. Init => ParentsSorted
  <2> SUFFICES ASSUME Init PROVE ParentsSorted  OBVIOUS
  <2>1. IsDag(dag) /\ ccpar_ = dag.ccpar_  BY DagsAssumption DEF Init
  <2>2. QED BY <2>1 DEF ParentsSorted, IsDag, Nodes
<1>2. QED BY <1>1, NextSorted, Invariant, PTL DEF Spec

-----------------------------------------------------------------------------
(* Dag computes a congruence closure: the refinement of CongruentRelation.  *)

\* Two nodes are of one class if they have one representative.
LEMMA ClassesByFind ==
  ASSUME NEW m \in Nodes, NEW n \in Nodes
  PROVE  ClassOf[m] = ClassOf[n] <=> Find(m) = Find(n)
<1>1. \A p \in Nodes : ClassOf[p] = {q \in Nodes : Find(q) = Find(p)}  BY DEF ClassOf
<1>2. m \in ClassOf[m]  BY <1>1
<1>3. QED BY <1>1, <1>2

\* Linking the representatives of two nodes identifies their classes.
LEMMA LinkedIdentifies ==
  ASSUME NEW i \in Nodes, NEW j \in Nodes, NEW callers, Linked(i, j, callers), dag' = dag
  PROVE  LET joined == ClassOf[i] \cup ClassOf[j]
         IN  ClassOf' = [p \in Nodes |-> IF p \in joined THEN joined ELSE ClassOf[p]]
<1> DEFINE joined == ClassOf[i] \cup ClassOf[j]
<1>1. \A n \in Nodes : Root(cc_')[n] = IF Find(n) = Find(i) THEN Find(j) ELSE Find(n)
  BY DEF Linked
<1>2. \A p \in Nodes : ClassOf[p] = {q \in Nodes : Find(q) = Find(p)}  BY DEF ClassOf
<1>3. ClassOf' = [p \in Nodes |-> {q \in Nodes : Root(cc_')[q] = Root(cc_')[p]}]
  BY DEF ClassOf, Find, Nodes
<1>4. ASSUME NEW p \in Nodes
      PROVE  {q \in Nodes : Root(cc_')[q] = Root(cc_')[p]} =
               IF p \in joined THEN joined ELSE ClassOf[p]
  <2>1. p \in joined <=> Find(p) = Find(i) \/ Find(p) = Find(j)  BY <1>2
  <2>2. joined = {q \in Nodes : Find(q) = Find(i) \/ Find(q) = Find(j)}  BY <1>2
  <2> HIDE DEF joined
  <2>3. CASE p \in joined
    <3>1. \A q \in Nodes :
            Root(cc_')[q] = Root(cc_')[p] <=> Find(q) = Find(i) \/ Find(q) = Find(j)
      BY <1>1, <2>1, <2>3
    <3>2. QED BY <2>2, <2>3, <3>1
  <2>4. CASE p \notin joined
    <3>1. \A q \in Nodes : Root(cc_')[q] = Root(cc_')[p] <=> Find(q) = Find(p)
      BY <1>1, <2>1, <2>4
    <3>2. QED BY <1>2, <2>4, <3>1
  <2>5. QED BY <2>3, <2>4
<1> HIDE DEF joined
<1>5. ClassOf' = [p \in Nodes |-> IF p \in joined THEN joined ELSE ClassOf[p]]
  BY <1>3, <1>4
<1>6. QED BY <1>5 DEF joined

\* A call of Merge on two terms that an equality or a congruence makes equal
\* identifies them or finds them identified.
LEMMA MergeIdentifies ==
  ASSUME Structure, NEW i \in Nodes, NEW j \in Nodes, NEW callers,
         Merge(i, j, callers), dag' = dag, verdict = "none", verdict' = verdict,
         Abstract!Asserted(i, j) \/ Abstract!CongruentTerms(i, j)
  PROVE  Abstract!Identify(i, j) \/ UNCHANGED <<dag, ClassOf, verdict>>
<1>1. CASE cc_' = cc_  BY <1>1 DEF ClassOf, Find, Nodes
<1>2. CASE Linked(i, j, callers)
  <2>1. LET joined == ClassOf[i] \cup ClassOf[j]
        IN  ClassOf' = [p \in Nodes |-> IF p \in joined THEN joined ELSE ClassOf[p]]
    BY <1>2, LinkedIdentifies
  <2>2. Abstract!Nodes = Nodes  BY DEF Abstract!Nodes, Nodes, NodesOf
  <2>3. QED BY <2>1, <2>2 DEF Abstract!Identify
<1>3. QED BY <1>1, <1>2, MergeCall

\* Congruent, on terms with arguments, is the congruence of their classes.
LEMMA CongruentByClasses ==
  ASSUME IsDag(dag), NEW m \in Nodes, NEW n \in Nodes
  PROVE  Abstract!CongruentTerms(m, n) <=> dag.args_[m] # << >> /\ Congruent(m, n)
<1>1. dag.args_[m] \in Seq(Nodes) /\ dag.args_[n] \in Seq(Nodes)  BY DEF IsDag, Nodes
<1>2. ASSUME Len(dag.args_[m]) = Len(dag.args_[n]), NEW k \in DOMAIN dag.args_[m]
      PROVE  ClassOf[dag.args_[m][k]] = ClassOf[dag.args_[n][k]] <=>
               Find(dag.args_[m][k]) = Find(dag.args_[n][k])
  <2> DEFINE a == dag.args_[m][k]
             b == dag.args_[n][k]
  <2>1. a \in Nodes /\ b \in Nodes  BY <1>1, <1>2
  <2> HIDE DEF a, b
  <2>2. ClassOf[a] = ClassOf[b] <=> Find(a) = Find(b)  BY <2>1, ClassesByFind
  <2>3. QED BY <2>2 DEF a, b
<1>3. QED BY <1>2 DEF Abstract!CongruentTerms, Congruent

\* The first loop of Decision identifies what an equality asserts.
LEMMA MergeEqualityIdentifies ==
  ASSUME CCInv, MergeEquality
  PROVE  Abstract!Next \/ UNCHANGED <<dag, ClassOf, verdict>>
<1> DEFINE i == dag.equality_[next_eq][1]
           j == dag.equality_[next_eq][2]
<1>1. /\ frames = << >> /\ next_eq <= Len(dag.equality_) /\ Merge(i, j, << >>)
      /\ dag' = dag /\ verdict' = verdict
  BY DEF MergeEquality
<1>2. next_eq \in 1..Len(dag.equality_)  BY <1>1, DagFacts DEF CCInv, TypeOK
<1>3. i \in Nodes /\ j \in Nodes  BY <1>2, DagFacts DEF CCInv, Structure
<1>4. Abstract!Asserted(i, j)
  <2>1. dag.equality_ \in Seq(Nodes \X Nodes)  BY DEF CCInv, Structure, IsDag, Nodes
  <2>2. next_eq \in DOMAIN dag.equality_ /\ dag.equality_[next_eq] \in Nodes \X Nodes
    BY <1>2, <2>1
  <2>3. dag.equality_[next_eq] = <<i, j>>  BY <2>2
  <2> HIDE DEF i, j
  <2>4. QED BY <2>2, <2>3 DEF Abstract!Asserted
<1>5. verdict = "none"
  BY <1>1, <1>2, DagFacts DEF CCInv, Structure, ConstraintsApplied, EqualitiesDone
<1>6. Abstract!Nodes = Nodes  BY DEF Abstract!Nodes, Nodes, NodesOf
<1> HIDE DEF i, j
<1>7. Abstract!Identify(i, j) \/ UNCHANGED <<dag, ClassOf, verdict>>
  BY <1>1, <1>3, <1>4, <1>5, MergeIdentifies DEF CCInv
<1>8. QED BY <1>3, <1>6, <1>7 DEF Abstract!Next

\* The loops of Merge identify what is congruent.
LEMMA MergeParentsIdentifies ==
  ASSUME CCInv, MergeParents
  PROVE  Abstract!Next \/ UNCHANGED <<dag, ClassOf, verdict>>
<1> DEFINE t1 == Inner.par_i[Inner.at_i]
           t2 == Inner.par_j[Inner.at_j]
<1>1. /\ frames # << >> /\ HasPair(Inner) /\ dag' = dag /\ verdict' = verdict
      /\ (Congruent(t1, t2) /\ Merge(t1, t2, Callers)) \/ UNCHANGED cc_
  BY DEF MergeParents, Callers
<1>2. Len(frames) \in 1..Len(frames)
  BY <1>1, StackIsSequence DEF CCInv, GoodStack, IsStack
<1>3. GoodFrame(Inner)  BY <1>2 DEF CCInv, GoodStack, Inner
<1>4. t1 \in Nodes /\ t2 \in Nodes /\ dag.args_[t1] # << >>  BY <1>1, <1>3, AdvanceGood
<1>5. verdict = "none"  BY <1>1 DEF CCInv, ConstraintsApplied, EqualitiesDone
<1>6. Abstract!Nodes = Nodes  BY DEF Abstract!Nodes, Nodes, NodesOf
<1> HIDE DEF t1, t2
<1>7. CASE UNCHANGED cc_  BY <1>1, <1>7 DEF ClassOf, Find, Nodes
<1>8. CASE Congruent(t1, t2) /\ Merge(t1, t2, Callers)
  <2>1. Abstract!CongruentTerms(t1, t2)
    BY <1>4, <1>8, CongruentByClasses DEF CCInv, Structure
  <2>2. Abstract!Identify(t1, t2) \/ UNCHANGED <<dag, ClassOf, verdict>>
    BY <1>1, <1>4, <1>5, <1>8, <2>1, MergeIdentifies DEF CCInv
  <2>3. QED BY <1>4, <1>6, <2>2 DEF Abstract!Next
<1>9. QED BY <1>1, <1>7, <1>8

\* The verdict is printed when nothing is left to identify.
LEMMA ReportAnswers ==
  ASSUME CCInv, Report
  PROVE  Abstract!Next
<1>1. /\ frames = << >> /\ next_eq > Len(dag.equality_)
      /\ next_neq > Len(dag.inequality_) /\ verdict = "none"
      /\ verdict' = IF res THEN "SAT" ELSE "UNSAT"
      /\ UNCHANGED <<dag, cc_>>
  BY DEF Report, EqualitiesDone
<1>2. /\ next_eq \in 1..Len(dag.equality_) + 1 /\ Len(dag.equality_) \in Nat
      /\ next_neq \in 1..Len(dag.inequality_) + 1 /\ Len(dag.inequality_) \in Nat
      /\ DOMAIN dag.equality_ = 1..Len(dag.equality_)
      /\ DOMAIN dag.inequality_ = 1..Len(dag.inequality_)
      /\ \A k \in 1..Len(dag.inequality_) :
           dag.inequality_[k][1] \in Nodes /\ dag.inequality_[k][2] \in Nodes
  BY DagFacts DEF CCInv, TypeOK
<1>3. next_eq - 1 = Len(dag.equality_) /\ next_neq - 1 = Len(dag.inequality_)
  BY <1>1, <1>2
<1>4. Abstract!Nodes = Nodes  BY DEF Abstract!Nodes, Nodes, NodesOf
<1>5. Abstract!Closed
  <2> SUFFICES ASSUME NEW m \in Nodes, NEW n \in Nodes,
                      Abstract!Asserted(m, n) \/ Abstract!CongruentTerms(m, n)
               PROVE  Find(m) = Find(n)
    BY <1>4, ClassesByFind DEF Abstract!Closed
  <2>1. CASE Abstract!Asserted(m, n)
    BY <1>2, <1>3, <2>1 DEF Abstract!Asserted, CCInv, ConstraintsApplied
  <2>2. CASE Abstract!CongruentTerms(m, n)
    <3>1. dag.args_[m] # << >> /\ Congruent(m, n)
      BY <2>2, CongruentByClasses DEF CCInv, Structure
    <3>2. 1..Len(frames) = {}  BY <1>1
    <3>3. QED BY <3>1, <3>2 DEF CCInv, CongruencesPending
  <2>3. QED BY <2>1, <2>2
<1>6. res <=> Abstract!Consistent
  <2>1. \A k \in DOMAIN dag.inequality_ :
          ClassOf[dag.inequality_[k][1]] = ClassOf[dag.inequality_[k][2]] <=>
            Find(dag.inequality_[k][1]) = Find(dag.inequality_[k][2])
    BY <1>2, ClassesByFind
  <2>2. res = \A k \in DOMAIN dag.inequality_ :
                Find(dag.inequality_[k][1]) # Find(dag.inequality_[k][2])
    BY <1>2, <1>3 DEF CCInv, ConstraintsApplied
  <2>3. QED BY <2>1, <2>2 DEF Abstract!Consistent
<1>7. res \in BOOLEAN  BY DEF CCInv, TypeOK
<1>8. ClassOf' = ClassOf  BY <1>1 DEF ClassOf, Find, Nodes
<1>9. Abstract!Answer  BY <1>1, <1>5, <1>6, <1>7, <1>8 DEF Abstract!Answer
<1>10. QED BY <1>9 DEF Abstract!Next

\* Dag computes a congruence closure: every merge is of two terms that an
\* equality or the congruence of their arguments identifies, and Decision
\* answers only when nothing is left to identify.
THEOREM ComputesClosure == Spec => ClosureOfCongruence
<1>1. Init => Abstract!Init
  <2> SUFFICES ASSUME Init PROVE Abstract!Init  OBVIOUS
  <2>1. ClassOf = [n \in Nodes |-> {n}]
    <3>1. \A n \in Nodes : Find(n) = n  BY InitialRoots DEF Init
    <3>2. \A n \in Nodes : {m \in Nodes : Find(m) = Find(n)} = {n}  BY <3>1
    <3>3. QED BY <3>2 DEF ClassOf
  <2>2. Abstract!Nodes = Nodes  BY DEF Abstract!Nodes, Nodes, NodesOf
  <2>3. QED BY <2>1, <2>2 DEF Init, Abstract!Init
<1>2. CCInv /\ [Next]_vars => [Abstract!Next]_<<dag, ClassOf, verdict>>
  <2> SUFFICES ASSUME CCInv, [Next]_vars
               PROVE  Abstract!Next \/ UNCHANGED <<dag, ClassOf, verdict>>
    OBVIOUS
  <2>1. CASE MergeEquality  BY <2>1, MergeEqualityIdentifies
  <2>2. CASE MergeParents  BY <2>2, MergeParentsIdentifies
  <2>3. CASE MergeReturn \/ CheckInequality \/ UNCHANGED vars
    <3>1. dag' = dag /\ cc_' = cc_ /\ verdict' = verdict
      BY <2>3 DEF MergeReturn, CheckInequality, vars
    <3>2. QED BY <3>1 DEF ClassOf, Find, Nodes
  <2>4. CASE Report  BY <2>4, ReportAnswers
  <2>5. QED BY <2>1, <2>2, <2>3, <2>4 DEF Next
<1>3. QED BY <1>1, <1>2, Invariant, PTL DEF Spec, ClosureOfCongruence, Abstract!Spec
=============================================================================

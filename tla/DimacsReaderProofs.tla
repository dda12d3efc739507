------------------------- MODULE DimacsReaderProofs -------------------------
(***************************************************************************)
(* Proofs about DimacsReader for all files: the countdown of the clauses    *)
(* ends where the last header says, and only ill-formed files are rejected. *)
(***************************************************************************)
EXTENDS DimacsReader, Recursion, FiniteSetTheorems

-----------------------------------------------------------------------------
(* The loop of Split.                                                      *)

\* The words found before the k-th blank, from those found before.
ResStep(R, line, k) == IF k = 0 THEN << >> ELSE Push(R[k - 1], line[k])

LEMMA ResExists ==
  ASSUME NEW line, Len(line) \in Nat
  PROVE  \E R : R = [k \in 0..Len(line) - 1 |-> ResStep(R, line, k)]
<1> DEFINE D == 0..Len(line) - 1
           step(R, k) == ResStep(R, line, k)
           Solves(R, n) == \A k \in D : k <= n => R[k] = step(R, k)
           S == {n \in Nat : \E R : Solves(R, n)}
           Extend(R) == [k \in D |-> step(R, k)]
<1>1. \A R : \A k \in D : Extend(R)[k] = step(R, k)  OBVIOUS
<1>2. \A R, Q : \A k \in D : (\A j \in D : j < k => R[j] = Q[j]) => step(R, k) = step(Q, k)
  <2> SUFFICES ASSUME NEW R, NEW Q, NEW k \in D, \A j \in D : j < k => R[j] = Q[j]
               PROVE  step(R, k) = step(Q, k)
    OBVIOUS
  <2>1. k # 0 => k - 1 \in D /\ k - 1 < k  OBVIOUS
  <2>2. k # 0 => R[k - 1] = Q[k - 1]  BY <2>1
  <2>3. QED BY <2>2 DEF ResStep
<1> HIDE DEF Extend, step
<1>3. 0 \in S
  <2> DEFINE R == Extend(<< >>)
  <2>1. \A k \in D : k <= 0 => k = 0  OBVIOUS
  <2>2. \A k \in D : k <= 0 => R[k] = step(R, k)  BY <1>1, <1>2, <2>1
  <2> HIDE DEF R
  <2>3. Solves(R, 0)  BY <2>2
  <2>4. QED BY <2>3
<1>4. ASSUME NEW n \in Nat, n \in S PROVE n + 1 \in S
  <2>1. PICK R : Solves(R, n)  BY <1>4
  <2>2. \A k \in D : k <= n => Extend(R)[k] = R[k]  BY <1>1, <2>1
  <2>3. ASSUME NEW k \in D, k <= n + 1 PROVE Extend(R)[k] = step(Extend(R), k)
    <3>1. \A j \in D : j < k => j <= n  BY <2>3
    <3>2. step(R, k) = step(Extend(R), k)  BY <1>2, <2>2, <3>1
    <3>3. QED BY <1>1, <3>2
  <2>4. Solves(Extend(R), n + 1)  BY <2>3
  <2>5. QED BY <2>4
<1>5. Len(line) \in S
  <2> HIDE DEF S
  <2>1. QED BY <1>3, <1>4, SetInduction
<1>6. PICK R : Solves(R, Len(line))  BY <1>5
<1>7. \A k \in D : R[k] = step(R, k)
  <2>1. \A k \in D : k <= Len(line)  OBVIOUS
  <2>2. QED BY <1>6, <2>1
<1> DEFINE Q == Extend(R)
<1>8. Q = [k \in D |-> step(R, k)] /\ \A k \in D : Q[k] = R[k]  BY <1>1, <1>7 DEF Extend
<1>9. \A k \in D : step(R, k) = step(Q, k)  BY <1>2, <1>8
<1> HIDE DEF Q
<1>10. Q = [k \in D |-> step(Q, k)]  BY <1>8, <1>9
<1>11. QED BY <1>10 DEF step

LEMMA SplitUnfolds ==
  ASSUME NEW line, Len(line) \in Nat
  PROVE  \E R : /\ R = [k \in 0..Len(line) - 1 |-> ResStep(R, line, k)]
                /\ Split(line) = Append(R[Len(line) - 1], line[Len(line)])
<1> DEFINE R == CHOOSE R : R = [k \in 0..Len(line) - 1 |-> ResStep(R, line, k)]
<1>1. Split(line) = Append(R[Len(line) - 1], line[Len(line)])
  BY Zenon DEF Split, ResStep
<1>2. R = [k \in 0..Len(line) - 1 |-> ResStep(R, line, k)]  BY ResExists
<1>3. QED BY <1>1, <1>2

\* How many words there are among the first k texts of a line.
Rank(line, k) == Cardinality({j \in WordsOf(line) : j <= k})

LEMMA RankNext ==
  ASSUME NEW line, line \in Seq(LineTexts)
  PROVE  /\ Len(line) \in Nat /\ DOMAIN line = 1..Len(line)
         /\ Rank(line, 0) = 0
         /\ \A k \in 0..Len(line) : Rank(line, k) \in Nat
         /\ \A k \in 1..Len(line) :
              Rank(line, k) = IF line[k] = NoText THEN Rank(line, k - 1) ELSE Rank(line, k - 1) + 1
<1> DEFINE W(k) == {j \in WordsOf(line) : j <= k}
<1>1. Len(line) \in Nat /\ DOMAIN line = 1..Len(line)
  <2> HIDE DEF LineTexts
  <2>1. QED OBVIOUS
<1>2. WordsOf(line) \subseteq 1..Len(line)  BY <1>1 DEF WordsOf
<1>3. W(0) = {}
  <2>1. \A j \in 1..Len(line) : ~ (j <= 0)  OBVIOUS
  <2>2. QED BY <1>2, <2>1
<1>4. \A k : IsFiniteSet(W(k)) /\ Cardinality(W(k)) \in Nat
  <2> SUFFICES ASSUME NEW k PROVE IsFiniteSet(W(k)) /\ Cardinality(W(k)) \in Nat
    OBVIOUS
  <2>1. IsFiniteSet(1..Len(line))  BY <1>1, FS_Interval
  <2>2. W(k) \subseteq 1..Len(line)  BY <1>2
  <2>3. QED BY <2>1, <2>2, FS_Subset, FS_CardinalityType
<1>5. ASSUME NEW k \in 1..Len(line)
      PROVE  Cardinality(W(k)) = IF line[k] = NoText THEN Cardinality(W(k - 1))
                                 ELSE Cardinality(W(k - 1)) + 1
  <2>1. \A j \in 1..Len(line) : j <= k <=> j <= k - 1 \/ j = k  BY <1>1
  <2>2. CASE line[k] = NoText
    <3>1. k \notin WordsOf(line)  BY <2>2 DEF WordsOf
    <3>2. W(k) = W(k - 1)  BY <1>2, <2>1, <3>1
    <3>3. QED BY <2>2, <3>2
  <2>3. CASE line[k] # NoText
    <3>1. k \in WordsOf(line)  BY <1>1, <2>3 DEF WordsOf
    <3>2. W(k) = W(k - 1) \cup {k}  BY <1>2, <2>1, <3>1
    <3>3. k \notin W(k - 1)  BY <1>1
    <3> DEFINE V == W(k - 1)
    <3>4. IsFiniteSet(V)  BY <1>4
    <3> HIDE DEF W, V
    <3>5. W(k) = V \cup {k} /\ k \notin V  BY <3>2, <3>3 DEF V
    <3>6. Cardinality(V \cup {k}) = Cardinality(V) + 1  BY <3>4, <3>5, FS_AddElement
    <3>7. QED BY <2>3, <3>5, <3>6 DEF V
  <2>4. QED BY <2>2, <2>3
<1>6. Cardinality(W(0)) = 0  BY <1>3, FS_EmptySet
<1>7. QED BY <1>1, <1>4, <1>5, <1>6 DEF Rank

\* ws lists the words among the first k texts of the line.
Lists(ws, line, k) ==
  /\ ws \in Seq(LineTexts)
  /\ Len(ws) = Rank(line, k)
  /\ \A j \in WordsOf(line) : j <= k => /\ Rank(line, j) \in 1..Len(ws)
                                        /\ ws[Rank(line, j)] = line[j]
  /\ \A n \in 1..Len(ws) : \E j \in WordsOf(line) : j <= k /\ Rank(line, j) = n

LEMMA ListsNext ==
  ASSUME NEW line, line \in Seq(LineTexts), NEW k \in 1..Len(line), NEW ws, Lists(ws, line, k - 1)
  PROVE  Lists(Push(ws, line[k]), line, k)
<1> DEFINE n == Rank(line, k - 1)
<1>1. /\ Len(line) \in Nat /\ WordsOf(line) \subseteq 1..Len(line)
      /\ n \in Nat /\ Len(ws) = n
      /\ Rank(line, k) = IF line[k] = NoText THEN n ELSE n + 1
      /\ k \in WordsOf(line) <=> line[k] # NoText
  <2>1. k - 1 \in 0..Len(line)  BY RankNext
  <2>2. QED BY <2>1, RankNext DEF Lists, WordsOf
<1>2. line[k] \in LineTexts /\ ws \in Seq(LineTexts)
  <2> HIDE DEF LineTexts
  <2>1. QED BY DEF Lists
<1>3. \A j \in WordsOf(line) : j <= k <=> j <= k - 1 \/ j = k
  <2>1. \A j \in 1..Len(line) : j <= k <=> j <= k - 1 \/ j = k  BY <1>1
  <2>2. QED BY <1>1, <2>1
<1> HIDE DEF n
<1>4. CASE line[k] = NoText
  <2>1. \A j \in WordsOf(line) : j <= k <=> j <= k - 1  BY <1>1, <1>3, <1>4
  <2>2. Push(ws, line[k]) = ws /\ Len(ws) = Rank(line, k)  BY <1>1, <1>4 DEF Push
  <2>3. Lists(ws, line, k)  BY <2>1, <2>2 DEF Lists
  <2>4. QED BY <2>2, <2>3
<1>5. CASE line[k] # NoText
  <2> DEFINE vs == Append(ws, line[k])
  <2>1. /\ vs \in Seq(LineTexts) /\ Len(vs) = n + 1 /\ vs[n + 1] = line[k]
        /\ \A i \in 1..n : vs[i] = ws[i]
    <3> HIDE DEF LineTexts
    <3>1. QED BY <1>1, <1>2
  <2> HIDE DEF vs
  <2>2. Rank(line, k) = n + 1 /\ k \in WordsOf(line)  BY <1>1, <1>5
  <2>3. ASSUME NEW j \in WordsOf(line), j <= k
        PROVE  Rank(line, j) \in 1..n + 1 /\ vs[Rank(line, j)] = line[j]
    <3>1. CASE j = k  BY <1>1, <2>1, <2>2, <3>1
    <3>2. CASE j <= k - 1
      <4>1. Rank(line, j) \in 1..n /\ ws[Rank(line, j)] = line[j]  BY <1>1, <3>2 DEF Lists
      <4>2. QED BY <1>1, <2>1, <4>1
    <3>3. QED BY <1>3, <2>3, <3>1, <3>2
  <2>4. ASSUME NEW i \in 1..n + 1
        PROVE  \E j \in WordsOf(line) : j <= k /\ Rank(line, j) = i
    <3>1. CASE i = n + 1  BY <1>3, <2>2, <3>1
    <3>2. CASE i # n + 1
      <4>1. i \in 1..n  BY <1>1, <3>2
      <4>2. PICK j \in WordsOf(line) : j <= k - 1 /\ Rank(line, j) = i  BY <1>1, <4>1 DEF Lists
      <4>3. QED BY <1>3, <4>2
    <3>3. QED BY <3>1, <3>2
  <2>5. Lists(vs, line, k)  BY <2>1, <2>2, <2>3, <2>4 DEF Lists
  <2>6. Push(ws, line[k]) = vs  BY <1>5 DEF Push, vs
  <2>7. QED BY <2>5, <2>6
<1>6. QED BY <1>4, <1>5

\* Split lists the words of the line, and the empty text after a last blank.
LEMMA SplitLists ==
  ASSUME NEW line, line \in Seq(LineTexts), line # << >>
  PROVE  \E ws : /\ Lists(ws, line, Len(line) - 1)
                 /\ Split(line) = Append(ws, line[Len(line)])
<1>1. Len(line) \in Nat \ {0}
  <2> HIDE DEF LineTexts
  <2>1. QED OBVIOUS
<1>2. PICK R : /\ R = [k \in 0..Len(line) - 1 |-> ResStep(R, line, k)]
               /\ Split(line) = Append(R[Len(line) - 1], line[Len(line)])
  BY <1>1, SplitUnfolds
<1> DEFINE S == {k \in Nat : k <= Len(line) - 1 => Lists(R[k], line, k)}
<1>3. \A k \in 0..Len(line) - 1 : R[k] = ResStep(R, line, k)  BY <1>2
<1>4. 0 \in S
  <2>1. R[0] = << >>  BY <1>1, <1>3 DEF ResStep
  <2>2. \A j \in WordsOf(line) : ~ (j <= 0)
    <3>1. \A j \in 1..Len(line) : ~ (j <= 0)  BY <1>1
    <3>2. QED BY <3>1, RankNext DEF WordsOf
  <2>3. << >> \in Seq(LineTexts) /\ Len(<< >>) = 0
    <3> HIDE DEF LineTexts
    <3>1. QED OBVIOUS
  <2>4. Rank(line, 0) = 0  BY RankNext
  <2>5. Lists(<< >>, line, 0)  BY <2>2, <2>3, <2>4 DEF Lists
  <2>6. QED BY <2>1, <2>5
<1>5. ASSUME NEW k \in Nat, k \in S PROVE k + 1 \in S
  <2> SUFFICES ASSUME k + 1 <= Len(line) - 1 PROVE Lists(R[k + 1], line, k + 1)
    OBVIOUS
  <2>1. k + 1 \in 1..Len(line) /\ k + 1 \in 0..Len(line) - 1 /\ k <= Len(line) - 1
        /\ (k + 1) - 1 = k
    BY <1>1
  <2>2. Lists(R[(k + 1) - 1], line, (k + 1) - 1)  BY <1>5, <2>1
  <2>3. R[k + 1] = Push(R[(k + 1) - 1], line[k + 1])  BY <1>3, <2>1 DEF ResStep
  <2>4. QED BY <2>1, <2>2, <2>3, ListsNext
<1>6. Len(line) - 1 \in S
  <2> HIDE DEF S
  <2>1. Nat \subseteq S  BY <1>4, <1>5, SetInduction
  <2>2. QED BY <1>1, <2>1
<1>7. Lists(R[Len(line) - 1], line, Len(line) - 1)  BY <1>6
<1>8. QED BY <1>2, <1>7

\* The n-th word that Split finds is the n-th word of the line, if it is not
\* the empty text after a last blank.
LEMMA SplitFacts ==
  ASSUME NEW line, line \in Seq(LineTexts), line # << >>
  PROVE  LET words == Split(line)
             last == Len(words)
         IN  /\ words \in Seq(LineTexts) /\ last \in Nat \ {0}
             /\ words[last] = line[Len(line)]
             /\ line[Len(line)] # NoText => last = Cardinality(WordsOf(line))
             /\ \A n \in 1..last : words[n] = NthWord(line, n)
             /\ \A n \in 1..last - 1 : \E j \in WordsOf(line) : j < Len(line) /\ words[n] = line[j]
<1> DEFINE L == Len(line)
<1>1. L \in Nat \ {0} /\ DOMAIN line = 1..L /\ line[L] \in LineTexts
  <2> HIDE DEF LineTexts
  <2>1. QED OBVIOUS
<1>2. PICK ws : Lists(ws, line, L - 1) /\ Split(line) = Append(ws, line[L])  BY SplitLists
<1> DEFINE words == Split(line)
           m == Len(ws)
           Nth(n) == {k \in WordsOf(line) : Rank(line, k) = n}
<1>3. /\ words \in Seq(LineTexts) /\ Len(words) = m + 1 /\ m \in Nat /\ words[m + 1] = line[L]
      /\ \A n \in 1..m : words[n] = ws[n]
  <2>1. ws \in Seq(LineTexts) /\ line[L] \in LineTexts  BY <1>1, <1>2 DEF Lists
  <2> HIDE DEF LineTexts, L
  <2>2. QED BY <1>2, <2>1
<1>4. \A n : NthWord(line, n) = IF Nth(n) = {} THEN NoText ELSE line[CHOOSE k \in Nth(n) : TRUE]
  BY DEF NthWord, Rank
<1>5. \A j \in WordsOf(line) : j <= L - 1 \/ j = L
  <2>1. \A j \in 1..L : j <= L - 1 \/ j = L
    <3> HIDE DEF L
    <3>1. QED BY <1>1
  <2>2. QED BY <1>1, <2>1 DEF WordsOf
<1>6. Rank(line, L) = Cardinality(WordsOf(line))
  <2>1. \A j \in 1..L : j <= L  BY <1>1
  <2>2. {j \in WordsOf(line) : j <= L} = WordsOf(line)  BY <1>1, <2>1 DEF WordsOf
  <2>3. QED BY <2>2 DEF Rank
<1>7. /\ m = Rank(line, L - 1)
      /\ line[L] # NoText => L \in WordsOf(line) /\ Rank(line, L) = m + 1
      /\ line[L] = NoText => L \notin WordsOf(line)
  <2>1. m = Rank(line, L - 1)  BY <1>2 DEF Lists
  <2>2. L \in 1..L  BY <1>1
  <2>3. Rank(line, L) = IF line[L] = NoText THEN Rank(line, L - 1) ELSE Rank(line, L - 1) + 1
    BY <2>2, RankNext
  <2>4. QED BY <1>1, <2>1, <2>2, <2>3 DEF WordsOf
<1> HIDE DEF words, m, L, Nth
<1>8. \A j \in WordsOf(line) : j <= L - 1 => Rank(line, j) \in 1..m /\ words[Rank(line, j)] = line[j]
  BY <1>2, <1>3 DEF Lists, m
<1>9. \A n \in 1..m : \E j \in WordsOf(line) : j <= L - 1 /\ Rank(line, j) = n
  BY <1>2 DEF Lists, m
<1>10. ASSUME NEW n \in 1..m + 1 PROVE words[n] = NthWord(line, n)
  <2>1. ASSUME NEW k \in Nth(n) PROVE line[k] = words[n]
    <3>1. k \in WordsOf(line) /\ Rank(line, k) = n  BY DEF Nth
    <3>2. CASE k <= L - 1  BY <1>8, <3>1, <3>2
    <3>3. CASE k = L
      <4>1. n = m + 1  BY <1>7, <3>1, <3>3
      <4>2. QED BY <1>3, <3>3, <4>1
    <3>4. QED BY <1>5, <3>1, <3>2, <3>3
  <2>2. CASE n \in 1..m
    <3>1. Nth(n) # {}  BY <1>9, <2>2 DEF Nth
    <3>2. QED BY <1>4, <2>1, <3>1
  <2>3. CASE n = m + 1 /\ line[L] # NoText
    <3>1. Nth(n) # {}  BY <1>7, <2>3 DEF Nth
    <3>2. QED BY <1>4, <2>1, <3>1
  <2>4. CASE n = m + 1 /\ line[L] = NoText
    <3>1. Nth(n) = {}
      <4>1. ASSUME NEW k \in Nth(n) PROVE FALSE
        <5>1. k \in WordsOf(line) /\ Rank(line, k) = m + 1  BY <2>4 DEF Nth
        <5>2. k <= L - 1  BY <1>5, <1>7, <2>4, <5>1
        <5>3. Rank(line, k) \in 1..m  BY <1>8, <5>1, <5>2
        <5>4. QED BY <1>3, <5>1, <5>3
      <4>2. QED BY <4>1
    <3>2. QED BY <1>3, <1>4, <2>4, <3>1
  <2>5. QED BY <1>3, <2>2, <2>3, <2>4
<1>11. ASSUME NEW n \in 1..m
       PROVE  \E j \in WordsOf(line) : j < L /\ words[n] = line[j]
  <2>1. PICK j \in WordsOf(line) : j <= L - 1 /\ Rank(line, j) = n  BY <1>9
  <2>2. words[n] = line[j]  BY <1>8, <2>1
  <2>3. j < L
    <3>1. j \in 1..L  BY <1>1 DEF WordsOf
    <3>2. QED BY <1>1, <2>1, <3>1
  <2>4. QED BY <2>2, <2>3
<1>12. (m + 1) - 1 = m /\ m + 1 \in Nat \ {0}  BY <1>3
<1>13. QED BY <1>3, <1>6, <1>7, <1>10, <1>11, <1>12 DEF words, L

\* What the reader takes for a clause it reads as written, and it takes a clause
\* for one when no blank follows it.
LEMMA ClauseFacts ==
  ASSUME NEW line, line \in Seq(LineTexts), line # << >>
  PROVE  /\ IsClause(line) => Clause(line) = Literals(line)
         /\ \A n_var : WrittenClause(line, n_var) /\ line[Len(line)] # NoText =>
              /\ IsClause(line)
              /\ \A j \in DOMAIN Clause(line) : Clause(line)[j] \in -n_var..n_var
<1> DEFINE words == Split(line)
           last == Len(words)
           L == Len(line)
<1>1. /\ last \in Nat \ {0} /\ words[last] = line[L]
      /\ line[L] # NoText => last = Cardinality(WordsOf(line))
      /\ \A n \in 1..last : words[n] = NthWord(line, n)
      /\ \A n \in 1..last - 1 : \E j \in WordsOf(line) : j < L /\ words[n] = line[j]
  BY SplitFacts
<1>2. L \in Nat \ {0} /\ DOMAIN line = 1..L
  <2> HIDE DEF LineTexts
  <2>1. QED OBVIOUS
<1>3. /\ Clause(line) = [k \in 1..last - 1 |-> words[k].value]
      /\ IsClause(line) <=> words[last].text = "0" /\ \A k \in 1..last - 1 : words[k].value # 0
  BY DEF Clause, IsClause, atoi
<1> HIDE DEF words, last, L
<1>4. ASSUME IsClause(line) PROVE Clause(line) = Literals(line)
  <2>0. line[L].text = "0" /\ NoText.text # "0"  BY <1>1, <1>3, <1>4 DEF NoText, Word
  <2>1. line[L] # NoText  BY <2>0
  <2>2. \A n \in 1..last - 1 : n \in 1..last  BY <1>1
  <2>3. QED BY <1>1, <1>3, <2>1, <2>2 DEF Literals
<1>5. ASSUME NEW n_var, WrittenClause(line, n_var), line[L] # NoText
      PROVE  /\ IsClause(line)
             /\ \A j \in DOMAIN Clause(line) : Clause(line)[j] \in -n_var..n_var
  <2>1. PICK end \in DOMAIN line :
          /\ line[end].text = "0"
          /\ \A k \in WordsOf(line) \ {end} :
               k < end /\ line[k].text = "number" /\ line[k].value \in -n_var..n_var \ {0}
    BY <1>5 DEF WrittenClause
  <2>2. L \in WordsOf(line) /\ end \in 1..L  BY <1>2, <1>5, <2>1 DEF WordsOf
  <2>3. end = L
    <3>1. L # end => L < end  BY <2>1, <2>2
    <3>2. QED BY <1>2, <2>2, <3>1
  <2>4. \A n \in 1..last - 1 : words[n].value \in -n_var..n_var \ {0}
    <3> SUFFICES ASSUME NEW n \in 1..last - 1 PROVE words[n].value \in -n_var..n_var \ {0}
      OBVIOUS
    <3>1. PICK j \in WordsOf(line) : j < L /\ words[n] = line[j]  BY <1>1
    <3>2. j # end  BY <1>2, <2>3, <3>1
    <3>3. QED BY <2>1, <3>1, <3>2
  <2>5. words[last].text = "0"  BY <1>1, <2>1, <2>3
  <2>6. QED BY <1>3, <2>4, <2>5
<1>6. QED BY <1>4, <1>5 DEF L

-----------------------------------------------------------------------------
(* The lines of a file.                                                    *)

\* The clauses before the line k, and those of them after the line h.
Before(k) == {m \in ClauseLines : m < k}
Since(h, k) == {m \in ClauseLines : h < m /\ m < k}

\* The last header before the line k is the line h.
LastHeader(h, k) ==
  h \in Headers /\ h < k /\ \A g \in Headers : g <= h \/ k <= g

\* What is assumed of a file.
LEMMA FileFacts ==
  ASSUME file \in Files
  PROVE  /\ SizeMod \in Nat /\ Len(file) \in Nat /\ DOMAIN file = 1..Len(file)
         /\ Len(file) + 1 < SizeMod
         /\ \A h \in Headers : /\ DeclaredClauses(h) \in Int /\ DeclaredClauses(h) < SizeMod
                               /\ DeclaredVars(h) = atoi(Split(file[h])[3])
                               /\ DeclaredClauses(h) = atoi(Split(file[h])[4])
         /\ \A k \in 1..Len(file) : file[k] \in Seq(LineTexts) /\ file[k] # << >>
         /\ Headers \subseteq 1..Len(file) /\ ClauseLines \subseteq 1..Len(file)
         /\ Headers \cap ClauseLines = {}
<1> DEFINE X == Seq(LineTexts) \ {<< >>}
<1>1. file \in Seq(X) /\ SizeMod \in Nat /\ Len(file) + 1 < SizeMod
  BY FilesAssumption
<1>2. ASSUME NEW line \in X PROVE line \in Seq(LineTexts) /\ line # << >>  OBVIOUS
<1> HIDE DEF X
<1>3. /\ Len(file) \in Nat /\ DOMAIN file = 1..Len(file)
      /\ \A k \in 1..Len(file) : file[k] \in X
  BY <1>1
<1>4. ASSUME NEW h \in Headers
      PROVE  /\ DeclaredClauses(h) \in Int /\ DeclaredClauses(h) < SizeMod
             /\ DeclaredVars(h) = atoi(Split(file[h])[3])
             /\ DeclaredClauses(h) = atoi(Split(file[h])[4])
  <2> DEFINE words == Split(file[h])
  <2>1. h \in 1..Len(file) /\ IsHeader(file[h])  BY <1>3 DEF Headers
  <2>2. Len(words) > 3 /\ atoi(words[4]) < SizeMod
    BY <1>3, <2>1, FilesAssumption
  <2>3. /\ words \in Seq(LineTexts) /\ Len(words) \in Nat
        /\ \A n \in 1..Len(words) : words[n] = NthWord(file[h], n)
    BY <1>2, <1>3, <2>1, SplitFacts
  <2> HIDE DEF words
  <2>4. 3 \in 1..Len(words) /\ 4 \in 1..Len(words)  BY <2>2, <2>3
  <2>5. words[4] \in LineTexts
    <3> HIDE DEF LineTexts
    <3>1. QED BY <2>3, <2>4
  <2>6. atoi(words[4]) \in Int  BY <2>5 DEF LineTexts, atoi
  <2>7. QED BY <2>2, <2>3, <2>4, <2>6 DEF words, DeclaredVars, DeclaredClauses, atoi
<1>5. QED BY <1>1, <1>2, <1>3, <1>4 DEF Headers, ClauseLines

\* A line is counted as soon as it is behind.
LEMMA Advance ==
  ASSUME file \in Files, NEW k \in 1..Len(file)
  PROVE  /\ Cardinality(Before(k)) \in 0..k - 1
         /\ \A h \in Headers : Cardinality(Since(h, k)) \in 0..k - 1
         /\ k \notin ClauseLines => /\ Before(k + 1) = Before(k)
                                    /\ \A h \in Headers : Since(h, k + 1) = Since(h, k)
         /\ k \in ClauseLines =>
              /\ Before(k + 1) = Before(k) \cup {k}
              /\ Cardinality(Before(k + 1)) = Cardinality(Before(k)) + 1
              /\ \A h \in Headers : h < k =>
                   Cardinality(Since(h, k + 1)) = Cardinality(Since(h, k)) + 1
         /\ k \notin Headers => \A h : LastHeader(h, k + 1) <=> LastHeader(h, k)
         /\ k \in Headers => /\ \A h : LastHeader(h, k + 1) <=> h = k
                             /\ Since(k, k + 1) = {}
<1>1. /\ Len(file) \in Nat /\ k \in Int /\ k >= 1
      /\ Headers \subseteq 1..Len(file) /\ ClauseLines \subseteq 1..Len(file)
      /\ Headers \cap ClauseLines = {}
  BY FileFacts
<1> DEFINE L == Headers \cup ClauseLines
<1>0. \A m \in L : /\ m \in Int /\ m >= 1
                   /\ m < k + 1 <=> m < k \/ m = k
                   /\ k + 1 <= m <=> k <= m /\ m # k
                   /\ m < k => m \in 1..k - 1
                   /\ ~ (m < k) <=> k <= m
                   /\ m = k => ~ (m < k)
  <2>1. \A m \in L : m \in 1..Len(file)  BY <1>1
  <2> HIDE DEF L
  <2>2. QED BY <1>1, <2>1
<1>2. IsFiniteSet(1..k - 1) /\ Cardinality(1..k - 1) = k - 1
  <2> DEFINE j == k - 1
  <2>0. j \in Nat  BY <1>1
  <2> HIDE DEF j
  <2>1. /\ IsFiniteSet(1..j)
        /\ Cardinality(1..j) = IF 1 > j THEN 0 ELSE j - 1 + 1
    BY <2>0, FS_Interval
  <2>2. IsFiniteSet(1..j) /\ Cardinality(1..j) = j  BY <2>0, <2>1
  <2>3. QED BY <2>2 DEF j
<1>3. ASSUME NEW S, S \subseteq 1..k - 1
      PROVE  /\ IsFiniteSet(S) /\ Cardinality(S) \in 0..k - 1
             /\ Cardinality(S \cup {k}) = Cardinality(S) + 1
  <2>1. IsFiniteSet(S) /\ Cardinality(S) <= k - 1  BY <1>2, <1>3, FS_Subset
  <2>2. Cardinality(S) \in Nat  BY <2>1, FS_CardinalityType
  <2>3. k \notin S  BY <1>1, <1>3
  <2>4. Cardinality(S \cup {k}) = Cardinality(S) + 1  BY <2>1, <2>3, FS_AddElement
  <2>5. QED BY <1>1, <2>1, <2>2, <2>4
<1>4. Before(k) \subseteq 1..k - 1 /\ \A h \in Headers : Since(h, k) \subseteq 1..k - 1
  BY <1>0 DEF Before, Since
<1>5. k \notin ClauseLines => /\ Before(k + 1) = Before(k)
                              /\ \A h \in Headers : Since(h, k + 1) = Since(h, k)
  BY <1>0 DEF Before, Since
<1>6. k \in ClauseLines => /\ Before(k + 1) = Before(k) \cup {k}
                           /\ \A h \in Headers : h < k => Since(h, k + 1) = Since(h, k) \cup {k}
  BY <1>0 DEF Before, Since
<1>7. k \notin Headers => \A h : LastHeader(h, k + 1) <=> LastHeader(h, k)
  BY <1>0 DEF LastHeader
<1>8. ASSUME k \in Headers
      PROVE  (\A h : LastHeader(h, k + 1) <=> h = k) /\ Since(k, k + 1) = {}
  <2>1. \A h : LastHeader(h, k + 1) => h = k
    <3> SUFFICES ASSUME NEW h \in Headers, h < k + 1, k <= h \/ k + 1 <= k PROVE h = k
      BY <1>8 DEF LastHeader
    <3>1. h \in Int  BY <1>0
    <3>2. QED BY <1>1, <3>1
  <2>2. LastHeader(k, k + 1)
    <3>1. \A g \in Headers : g <= k \/ k + 1 <= g
      <4> SUFFICES ASSUME NEW g \in Headers PROVE g <= k \/ k + 1 <= g
        OBVIOUS
      <4>1. g \in Int  BY <1>0
      <4>2. QED BY <1>1, <4>1
    <3>2. k < k + 1  BY <1>1
    <3>3. QED BY <1>8, <3>1, <3>2 DEF LastHeader
  <2>3. Since(k, k + 1) = {}
    <3>1. \A m \in ClauseLines : ~ (k < m /\ m < k + 1)
      <4> SUFFICES ASSUME NEW m \in ClauseLines PROVE ~ (k < m /\ m < k + 1)
        OBVIOUS
      <4>1. m \in Int  BY <1>0
      <4>2. QED BY <1>1, <4>1
    <3>2. QED BY <3>1 DEF Since
  <2>4. QED BY <2>1, <2>2, <2>3
<1>9. QED BY <1>3, <1>4, <1>5, <1>6, <1>7, <1>8

\* The formula is complete at the line k when the clauses since the last header
\* are as many as it declares.
LEMMA CompleteMeans ==
  ASSUME file \in Files, NEW k \in Int
  PROVE  Complete(k) <=> \E h : /\ LastHeader(h, k + 1) /\ h < k
                                /\ Cardinality(Since(h, k + 1)) = DeclaredClauses(h)
<1>1. \A m \in Headers \cup ClauseLines :
        m <= k <=> m < k + 1
  <2> SUFFICES ASSUME NEW m \in Headers \cup ClauseLines PROVE m <= k <=> m < k + 1
    OBVIOUS
  <2>1. m \in 1..Len(file) /\ Len(file) \in Nat  BY FileFacts
  <2>2. QED BY <2>1
<1>2. \A h : {m \in ClauseLines : h < m /\ m <= k} = Since(h, k + 1)
  BY <1>1 DEF Since
<1>3. \A h \in Headers : h < k =>
        /\ h < k + 1
        /\ (\A g \in Headers : g <= h \/ k < g) <=> \A g \in Headers : g <= h \/ k + 1 <= g
  <2>1. \A m \in Headers : m \in Int
    <3>1. Headers \subseteq 1..Len(file) /\ Len(file) \in Nat  BY FileFacts
    <3>2. \A m \in 1..Len(file) : m \in Int  BY <3>1
    <3>3. QED BY <3>1, <3>2
  <2>2. \A m \in Int : m < k => m < k + 1  OBVIOUS
  <2>3. \A m \in Int : k < m <=> k + 1 <= m  OBVIOUS
  <2>4. QED BY <2>1, <2>2, <2>3
<1>4. \A h : LastHeader(h, k + 1) => h \in Headers  BY DEF LastHeader
<1>5. QED BY <1>2, <1>3, <1>4 DEF Complete, LastHeader

-----------------------------------------------------------------------------
(* The invariant.                                                          *)

\* The clauses before the line k have been appended in order.
Listed(k) ==
  /\ functions_ \in Seq({Clause(file[m]) : m \in ClauseLines})
  /\ Len(functions_) = Cardinality(Before(k))
  /\ \A m \in Before(k) : /\ IsClause(file[m])
                          /\ functions_[Cardinality(Before(m + 1))] = Clause(file[m])
  /\ \A c \in 1..Len(functions_) : \E m \in Before(k) : functions_[c] = Clause(file[m])

\* What the last header before the line k declares, and its clauses still to
\* come; without a header the count wraps around at the first clause.
Counted(k) ==
  \/ /\ \A h \in Headers : k <= h
     /\ n_var_ = 0 /\ n_clauses_ = 0
     /\ cluses_read = IF Cardinality(Before(k)) = 0 THEN 0 ELSE SizeMod - Cardinality(Before(k))
  \/ \E h \in Headers :
       /\ LastHeader(h, k)
       /\ n_var_ = DeclaredVars(h) /\ n_var_ > 0
       /\ n_clauses_ = DeclaredClauses(h) /\ n_clauses_ > 0
       /\ cluses_read = n_clauses_ - Cardinality(Since(h, k))

\* The formula is not complete before the line k.
Incomplete(k) == \A m \in 1..k - 1 : ~ Complete(m)

\* Reading ended before the line k: the formula or the file is complete.
Ended(k) == Incomplete(k - 1) /\ (k = Len(file) + 1 \/ Complete(k - 1))

Judged ==
  /\ status = "reading" => Incomplete(at) /\ \A h \in Headers : LastHeader(h, at) => cluses_read > 0
  /\ status \in {"read", "constructed", "out_of_range"} => Ended(at)
  /\ status = "abort" =>
       \/ Incomplete(at) /\ at \in Headers /\ ~ (DeclaredVars(at) > 0 /\ DeclaredClauses(at) > 0)
       \/ Incomplete(at) /\ at \in ClauseLines /\ ~ IsClause(file[at])
       \/ Ended(at) /\ (n_var_ = 0 \/ n_clauses_ = 0)
  /\ status = "out_of_range" => ~ LiteralsInRange

ReaderInv ==
  /\ file \in Files
  /\ at \in 1..Len(file) + 1
  /\ cluses_read \in 0..SizeMod - 1
  /\ Listed(at)
  /\ Counted(at)
  /\ Judged

LEMMA InitReaderInv == Init => ReaderInv
<1> SUFFICES ASSUME Init PROVE ReaderInv
  OBVIOUS
<1>1. /\ file \in Files /\ at = 1 /\ n_var_ = 0 /\ n_clauses_ = 0 /\ functions_ = << >>
      /\ cluses_read = 0 /\ status = "reading"
  BY DEF Init
<1>2. /\ Len(file) \in Nat /\ SizeMod \in Nat /\ Len(file) + 1 < SizeMod
      /\ Headers \subseteq 1..Len(file) /\ ClauseLines \subseteq 1..Len(file)
  BY <1>1, FileFacts
<1>3. \A m \in Headers \cup ClauseLines : 1 <= m /\ ~ (m < 1)
  <2>1. \A m \in Headers \cup ClauseLines : m \in 1..Len(file)  BY <1>2
  <2>2. \A m \in 1..Len(file) : 1 <= m /\ ~ (m < 1)  BY <1>2
  <2>3. QED BY <2>1, <2>2
<1>4. Before(1) = {} /\ \A h : ~ LastHeader(h, 1)  BY <1>3 DEF Before, LastHeader
<1>5. Cardinality(Before(1)) = 0  BY <1>4, FS_EmptySet
<1>6. Listed(1)
  <2> DEFINE X == {Clause(file[m]) : m \in ClauseLines}
  <2>1. functions_ \in Seq(X) /\ Len(functions_) = 0
    <3> HIDE DEF X
    <3>1. QED BY <1>1
  <2>2. QED BY <1>4, <1>5, <2>1 DEF Listed
<1>7. Counted(1)  BY <1>1, <1>3, <1>5 DEF Counted
<1>8. Judged  BY <1>1, <1>4 DEF Judged, Incomplete
<1>9. QED BY <1>1, <1>2, <1>6, <1>7, <1>8 DEF ReaderInv

\* The last header is one.
LEMMA OneLastHeader ==
  ASSUME file \in Files, NEW k, NEW g, NEW h, LastHeader(g, k), LastHeader(h, k), k \in Int
  PROVE  g = h
<1>1. g \in Headers /\ h \in Headers /\ g < k /\ h < k  BY DEF LastHeader
<1>2. \A m \in Headers : m \in Int
  <2>1. Headers \subseteq 1..Len(file) /\ Len(file) \in Nat  BY FileFacts
  <2>2. \A m \in 1..Len(file) : m \in Int  BY <2>1
  <2>3. QED BY <2>1, <2>2
<1>3. (g <= h \/ k <= g) /\ (h <= g \/ k <= h)  BY <1>1 DEF LastHeader
<1>4. QED BY <1>1, <1>2, <1>3

\* A size_t counts down by one, and from 0 to its largest value.
LEMMA Countdown ==
  ASSUME NEW S \in Nat, NEW x \in 0..S - 1
  PROVE  (x - 1) % S = IF x = 0 THEN S - 1 ELSE x - 1
<1>1. S > 0 /\ x \in Int  OBVIOUS
<1>2. CASE x = 0
  <2>1. -1 = (-1) * S + (S - 1) /\ S - 1 \in 0..S - 1  BY <1>1
  <2>2. (-1) % S = S - 1  BY <1>1, <2>1
  <2>3. QED BY <1>2, <2>2
<1>3. CASE x # 0
  <2>1. x - 1 \in 0..S - 1  BY <1>1, <1>3
  <2>2. (x - 1) % S = x - 1  BY <1>1, <2>1
  <2>3. QED BY <1>3, <2>2
<1>4. QED BY <1>2, <1>3

\* Between a line and the next the formula becomes complete, or not.
LEMMA IncompleteNext ==
  ASSUME NEW k \in Nat \ {0}
  PROVE  Incomplete(k + 1) <=> Incomplete(k) /\ ~ Complete(k)
<1>1. 1..(k + 1) - 1 = (1..k - 1) \cup {k}  OBVIOUS
<1>2. QED BY <1>1 DEF Incomplete

\* What is said of the lines depends on the file alone.
LEMMA FileKept ==
  ASSUME file' = file
  PROVE  /\ Headers' = Headers /\ ClauseLines' = ClauseLines
         /\ \A k : /\ Before(k)' = Before(k)
                   /\ Complete(k)' <=> Complete(k)
                   /\ Incomplete(k)' <=> Incomplete(k)
                   /\ Ended(k)' <=> Ended(k)
                   /\ DeclaredVars(k)' = DeclaredVars(k)
                   /\ DeclaredClauses(k)' = DeclaredClauses(k)
         /\ \A h, k : /\ Since(h, k)' = Since(h, k)
                      /\ LastHeader(h, k)' <=> LastHeader(h, k)
<1>1. /\ Headers' = Headers /\ ClauseLines' = ClauseLines
      /\ \A k : /\ DeclaredVars(k)' = DeclaredVars(k)
                /\ DeclaredClauses(k)' = DeclaredClauses(k)
  BY DEF Headers, ClauseLines, DeclaredVars, DeclaredClauses
<1>2. \A k : Complete(k)' <=> Complete(k)
  BY <1>1 DEF Complete
<1>3. /\ \A k : Before(k)' = Before(k)
      /\ \A h, k : /\ Since(h, k)' = Since(h, k)
                   /\ LastHeader(h, k)' <=> LastHeader(h, k)
  BY <1>1 DEF Before, Since, LastHeader
<1>4. \A k : /\ Incomplete(k)' <=> Incomplete(k)
             /\ Ended(k)' <=> Ended(k)
  BY <1>2 DEF Incomplete, Ended
<1>5. QED BY <1>1, <1>2, <1>3, <1>4

\* The clauses listed and counted are those read so far.
LEMMA ListedKept ==
  ASSUME file' = file, functions_' = functions_, NEW k, NEW l, Before(k) = Before(l), Listed(k)
  PROVE  Listed(l)'
<1>1. /\ ClauseLines' = ClauseLines /\ \A m : Before(m)' = Before(m)  BY FileKept
<1>2. Listed(l)  BY DEF Listed
<1>3. QED BY <1>1, <1>2 DEF Listed

LEMMA SkipKeeps ==
  ASSUME ReaderInv, Skip
  PROVE  ReaderInv'
<1>1. PICK k : k = at  OBVIOUS
<1>2. /\ status = "reading" /\ k \in 1..Len(file) /\ IsSkipped(file[k])
      /\ at' = k + 1
      /\ UNCHANGED <<file, n_var_, n_clauses_, functions_, cluses_read, status>>
      /\ file \in Files
  <2>1. Len(file) \in Nat  BY FileFacts DEF ReaderInv
  <2>2. QED BY <1>1, <2>1 DEF ReaderInv, Skip, Reading, Line
<1>3. k \notin Headers /\ k \notin ClauseLines
  <2>1. file[k][1].text \in {"", "c"}
    <3>1. <<NoText>>[1].text = ""  BY DEF NoText, Word
    <3>2. QED BY <1>2, <3>1 DEF IsSkipped
  <2>2. QED BY <1>2, <2>1 DEF Headers, ClauseLines, IsHeader
<1>4. /\ Before(k + 1) = Before(k)
      /\ \A h \in Headers : Since(h, k + 1) = Since(h, k)
      /\ \A h : LastHeader(h, k + 1) <=> LastHeader(h, k)
  BY <1>2, <1>3, Advance
<1>5. Listed(k + 1)'  BY <1>1, <1>2, <1>4, ListedKept DEF ReaderInv
<1>6. Len(file) \in Nat /\ k \in Nat \ {0} /\ \A m \in Headers : m \in Int
  <2>1. Headers \subseteq 1..Len(file) /\ Len(file) \in Nat  BY <1>2, FileFacts
  <2>2. k \in 1..Len(file) /\ \A m \in 1..Len(file) : m \in Int  BY <1>2, <2>1
  <2>3. QED BY <2>1, <2>2
<1>7. Counted(k + 1)
  <2>1. CASE \A h \in Headers : k <= h
    <3>1. \A h \in Headers : k + 1 <= h
      <4> SUFFICES ASSUME NEW h \in Headers PROVE k + 1 <= h
        OBVIOUS
      <4>1. k <= h /\ h # k /\ h \in Int  BY <1>3, <1>6, <2>1
      <4>2. QED BY <1>6, <4>1
    <3>2. \A h : ~ LastHeader(h, k)
      <4>1. \A h \in Headers : ~ (h < k)  BY <1>6, <2>1
      <4>2. QED BY <4>1 DEF LastHeader
    <3>3. QED BY <1>1, <1>4, <3>1, <3>2 DEF ReaderInv, Counted
  <2>2. CASE ~ \A h \in Headers : k <= h
    BY <1>1, <1>4, <2>2 DEF ReaderInv, Counted
  <2>3. QED BY <2>1, <2>2
<1>8. Counted(k + 1)'
  BY <1>2, <1>7, FileKept DEF Counted
<1>9. ~ Complete(k)
  <2> SUFFICES ASSUME Complete(k) PROVE FALSE
    OBVIOUS
  <2>1. PICK h : LastHeader(h, k + 1) /\ Cardinality(Since(h, k + 1)) = DeclaredClauses(h)
    BY <1>2, <1>6, CompleteMeans
  <2>2. h \in Headers /\ LastHeader(h, k) /\ Cardinality(Since(h, k)) = DeclaredClauses(h)
    BY <1>4, <2>1 DEF LastHeader
  <2>3. cluses_read > 0  BY <1>1, <1>2, <2>2 DEF ReaderInv, Judged
  <2>4. ~ (\A g \in Headers : k <= g)
    <3>1. h < k /\ h \in Int  BY <1>6, <2>2 DEF LastHeader
    <3>2. ~ (k <= h)  BY <1>6, <3>1
    <3>3. QED BY <2>2, <3>2
  <2>5. PICK g \in Headers : /\ LastHeader(g, k) /\ n_clauses_ = DeclaredClauses(g)
                             /\ cluses_read = n_clauses_ - Cardinality(Since(g, k))
    BY <1>1, <2>4 DEF ReaderInv, Counted
  <2>6. g = h  BY <1>2, <1>6, <2>2, <2>5, OneLastHeader
  <2>7. DeclaredClauses(h) \in Int  BY <1>2, <2>2, FileFacts
  <2>8. QED BY <2>2, <2>3, <2>5, <2>6, <2>7
<1>10. Incomplete(k + 1)  BY <1>1, <1>2, <1>6, <1>9, IncompleteNext DEF ReaderInv, Judged
<1>11. Judged'
  <2>1. Incomplete(at)'  BY <1>2, <1>10, FileKept
  <2>2. \A h \in Headers : LastHeader(h, k + 1) => cluses_read > 0
    BY <1>1, <1>2, <1>4 DEF ReaderInv, Judged
  <2>3. (\A h \in Headers : LastHeader(h, at) => cluses_read > 0)'
    BY <1>2, <2>2, FileKept
  <2>4. QED BY <1>2, <2>1, <2>3 DEF Judged
<1>12. at' \in 1..Len(file') + 1  BY <1>2, <1>6
<1>13. QED BY <1>2, <1>5, <1>8, <1>11, <1>12 DEF ReaderInv

LEMMA ReadHeaderKeeps ==
  ASSUME ReaderInv, ReadHeader
  PROVE  ReaderInv'
<1>1. PICK k : k = at  OBVIOUS
<1>2. /\ status = "reading" /\ k \in 1..Len(file) /\ IsHeader(file[k])
      /\ UNCHANGED <<file, functions_>> /\ file \in Files /\ Incomplete(k)
      /\ Listed(k) /\ Len(file) \in Nat
  <2>1. Len(file) \in Nat  BY FileFacts DEF ReaderInv
  <2>2. QED BY <1>1, <2>1 DEF ReaderInv, Judged, ReadHeader, Reading, Line
<1>3. k \in Headers /\ k \notin ClauseLines /\ k \in Nat \ {0}
  BY <1>2 DEF Headers, ClauseLines
<1>7. /\ DeclaredVars(k) = atoi(Split(file[k])[3])
      /\ DeclaredClauses(k) = atoi(Split(file[k])[4])
  BY <1>2, <1>3, FileFacts
<1>4. CASE DeclaredVars(k) > 0 /\ DeclaredClauses(k) > 0
  <2>1. /\ n_var_' = DeclaredVars(k) /\ n_clauses_' = DeclaredClauses(k)
        /\ cluses_read' = DeclaredClauses(k) /\ at' = k + 1 /\ status' = status
    BY <1>1, <1>4, <1>7 DEF ReadHeader, Line
  <2>2. /\ Before(k + 1) = Before(k)
        /\ \A h : LastHeader(h, k + 1) <=> h = k
        /\ Since(k, k + 1) = {}
    BY <1>2, <1>3, Advance
  <2>3. Cardinality(Since(k, k + 1)) = 0  BY <2>2, FS_EmptySet
  <2>4. Listed(k + 1)'  BY <1>2, <2>2, ListedKept
  <2>5. /\ DeclaredClauses(k) \in Int /\ DeclaredClauses(k) < SizeMod /\ SizeMod \in Nat
    BY <1>2, <1>3, FileFacts
  <2>6. Counted(k + 1)'
    <3>1. /\ k \in Headers' /\ LastHeader(k, k + 1)'
          /\ n_var_' = DeclaredVars(k)' /\ n_clauses_' = DeclaredClauses(k)'
          /\ n_var_' > 0 /\ n_clauses_' > 0
          /\ Cardinality(Since(k, k + 1))' = 0
      BY <1>2, <1>3, <1>4, <2>1, <2>2, <2>3, FileKept
    <3>2. cluses_read' = n_clauses_' - Cardinality(Since(k, k + 1))'  BY <2>1, <2>5, <3>1
    <3>3. QED BY <3>1, <3>2 DEF Counted
  <2>7. ~ Complete(k)
    <3>1. \A h : LastHeader(h, k + 1) => ~ (h < k)  BY <1>3, <2>2
    <3>2. QED BY <1>2, <1>3, <3>1, CompleteMeans
  <2>8. Incomplete(k + 1)  BY <1>2, <1>3, <2>7, IncompleteNext
  <2>9. Judged'
    <3>1. Incomplete(at)'  BY <1>2, <2>1, <2>8, FileKept
    <3>2. cluses_read' > 0  BY <1>4, <2>1
    <3>3. QED BY <1>2, <2>1, <3>1, <3>2 DEF Judged
  <2>10. at' \in 1..Len(file') + 1 /\ cluses_read' \in 0..SizeMod - 1
    BY <1>2, <1>4, <2>1, <2>5
  <2>11. QED BY <1>2, <2>1, <2>4, <2>6, <2>9, <2>10 DEF ReaderInv
<1>5. CASE ~ (DeclaredVars(k) > 0 /\ DeclaredClauses(k) > 0)
  <2>1. status' = "abort" /\ UNCHANGED <<at, n_var_, n_clauses_, cluses_read>>
    BY <1>1, <1>5, <1>7 DEF ReadHeader, Line
  <2>2. Judged'
    <3>1. /\ Incomplete(at)' /\ at' \in Headers'
          /\ ~ (DeclaredVars(at)' > 0 /\ DeclaredClauses(at)' > 0)
      BY <1>1, <1>2, <1>3, <1>5, <2>1, FileKept
    <3>2. QED BY <2>1, <3>1 DEF Judged
  <2>3. Listed(k)'  BY <1>2, ListedKept
  <2>4. Counted(k)'
    <3>1. Counted(k)  BY <1>1 DEF ReaderInv
    <3>2. QED BY <1>2, <2>1, <3>1, FileKept DEF Counted
  <2>5. QED BY <1>1, <1>2, <2>1, <2>2, <2>3, <2>4 DEF ReaderInv
<1>6. QED BY <1>4, <1>5

\* Reading a clause appends it.
LEMMA ListedNext ==
  ASSUME file \in Files, NEW k \in ClauseLines, Listed(k), IsClause(file[k]), file' = file,
         functions_' = Append(functions_, Clause(file[k]))
  PROVE  Listed(k + 1)'
<1> DEFINE X == {Clause(file[m]) : m \in ClauseLines}
           n == Len(functions_)
           c == Clause(file[k])
<1>1. /\ k \in 1..Len(file) /\ Len(file) \in Nat /\ ClauseLines \subseteq 1..Len(file)
  BY FileFacts
<1>2. /\ Before(k + 1) = Before(k) \cup {k}
      /\ Cardinality(Before(k + 1)) = n + 1
  BY <1>1, Advance DEF Listed
<1>3. functions_ \in Seq(X) /\ c \in X  BY DEF Listed
<1>4. /\ functions_' \in Seq(X) /\ Len(functions_') = n + 1 /\ n \in Nat
      /\ \A i \in 1..n : functions_'[i] = functions_[i]
      /\ functions_'[n + 1] = c
  <2> HIDE DEF X, c
  <2>1. functions_' = Append(functions_, c)  BY DEF c
  <2>2. QED BY <1>3, <2>1
<1>5. ASSUME NEW m \in Before(k) PROVE Cardinality(Before(m + 1)) \in 1..n
  <2>1. m \in 1..Len(file) /\ m < k /\ m \in ClauseLines /\ m \in Int /\ k \in Int
    BY <1>1 DEF Before
  <2>2. Before(m + 1) \subseteq Before(k) /\ m \in Before(m + 1)
    <3>1. m < m + 1 /\ \A i \in Int : i < m + 1 => i < k  BY <2>1
    <3>2. \A i \in ClauseLines : i \in Int
      <4>1. \A i \in 1..Len(file) : i \in Int  BY <1>1
      <4>2. QED BY <1>1, <4>1
    <3>3. QED BY <2>1, <3>1, <3>2 DEF Before
  <2>3. IsFiniteSet(Before(k))
    <3>1. Before(k) \subseteq 1..Len(file)  BY <1>1 DEF Before
    <3>2. IsFiniteSet(1..Len(file))  BY <1>1, FS_Interval
    <3>3. QED BY <3>1, <3>2, FS_Subset
  <2>4. /\ IsFiniteSet(Before(m + 1)) /\ Cardinality(Before(m + 1)) <= Cardinality(Before(k))
    BY <2>2, <2>3, FS_Subset
  <2>5. Cardinality(Before(m + 1)) \in Nat /\ Cardinality(Before(m + 1)) # 0
    BY <2>2, <2>4, FS_CardinalityType, FS_EmptySet
  <2>6. Cardinality(Before(k)) = n  BY DEF Listed
  <2>7. QED BY <1>4, <2>4, <2>5, <2>6
<1>6. ASSUME NEW m \in Before(k + 1)
      PROVE  /\ IsClause(file[m])
             /\ functions_'[Cardinality(Before(m + 1))] = Clause(file[m])
  <2>1. CASE m = k  BY <1>2, <1>4, <2>1
  <2>2. CASE m \in Before(k)
    <3>1. /\ IsClause(file[m])
          /\ functions_[Cardinality(Before(m + 1))] = Clause(file[m])
      BY <2>2 DEF Listed
    <3>2. QED BY <1>4, <1>5, <2>2, <3>1
  <2>3. QED BY <1>2, <2>1, <2>2
<1>7. ASSUME NEW i \in 1..n + 1 PROVE \E m \in Before(k + 1) : functions_'[i] = Clause(file[m])
  <2>1. CASE i = n + 1  BY <1>2, <1>4, <2>1
  <2>2. CASE i # n + 1
    <3>1. i \in 1..n  BY <1>4, <2>2
    <3>2. PICK m \in Before(k) : functions_[i] = Clause(file[m])  BY <3>1 DEF Listed
    <3>3. QED BY <1>2, <1>4, <3>1, <3>2
  <2>3. QED BY <2>1, <2>2
<1>8. /\ ClauseLines' = ClauseLines /\ \A m : Before(m)' = Before(m)  BY FileKept
<1>9. QED BY <1>2, <1>4, <1>6, <1>7, <1>8 DEF Listed

\* A clause is counted.
LEMMA CountedNext ==
  ASSUME file \in Files, NEW k \in ClauseLines, Counted(k), cluses_read \in 0..SizeMod - 1,
         \A h \in Headers : LastHeader(h, k) => cluses_read > 0,
         file' = file, UNCHANGED <<n_var_, n_clauses_>>,
         cluses_read' = (cluses_read - 1) % SizeMod
  PROVE  /\ Counted(k + 1)' /\ cluses_read' \in 0..SizeMod - 1
         /\ Complete(k) <=> cluses_read' = 0
<1>1. /\ SizeMod \in Nat /\ Len(file) \in Nat /\ k \in 1..Len(file) /\ Len(file) + 1 < SizeMod
      /\ k \notin Headers /\ k \in Int
      /\ \A h \in Headers : h \in Int /\ h # k /\ DeclaredClauses(h) \in Int
  <2>1. /\ SizeMod \in Nat /\ Len(file) \in Nat /\ k \in 1..Len(file)
        /\ Len(file) + 1 < SizeMod /\ k \notin Headers /\ Headers \subseteq 1..Len(file)
        /\ \A h \in Headers : DeclaredClauses(h) \in Int
    BY FileFacts
  <2>2. \A h \in 1..Len(file) : h \in Int  BY <2>1
  <2>3. QED BY <2>1, <2>2
<1>2. /\ Cardinality(Before(k)) \in 0..k - 1
      /\ Cardinality(Before(k + 1)) = Cardinality(Before(k)) + 1
      /\ \A h \in Headers : Cardinality(Since(h, k)) \in 0..k - 1
      /\ \A h \in Headers : h < k =>
           Cardinality(Since(h, k + 1)) = Cardinality(Since(h, k)) + 1
      /\ \A h : LastHeader(h, k + 1) <=> LastHeader(h, k)
  BY <1>1, Advance
<1>3. cluses_read' = IF cluses_read = 0 THEN SizeMod - 1 ELSE cluses_read - 1
  BY <1>1, Countdown
<1>4. CASE \A h \in Headers : k <= h
  <2>1. \A h \in Headers : k + 1 <= h /\ ~ (h < k)
    <3> SUFFICES ASSUME NEW h \in Headers PROVE k + 1 <= h /\ ~ (h < k)
      OBVIOUS
    <3>1. h \in Int /\ h # k /\ k <= h  BY <1>1, <1>4
    <3>2. QED BY <1>1, <3>1
  <2>2. \A h : ~ LastHeader(h, k)  BY <2>1 DEF LastHeader
  <2>3. /\ n_var_ = 0 /\ n_clauses_ = 0
        /\ cluses_read = IF Cardinality(Before(k)) = 0 THEN 0
                         ELSE SizeMod - Cardinality(Before(k))
    BY <2>2 DEF Counted
  <2>4. /\ cluses_read' = SizeMod - Cardinality(Before(k + 1))
        /\ cluses_read' \in 1..SizeMod - 1
        /\ Cardinality(Before(k + 1)) # 0
    <3> DEFINE b == Cardinality(Before(k))
    <3>1. b \in Nat /\ b + 2 < SizeMod
      <4>1. b \in 0..k - 1  BY <1>2
      <4> HIDE DEF b
      <4>2. QED BY <1>1, <4>1
    <3>2. cluses_read = IF b = 0 THEN 0 ELSE SizeMod - b  BY <2>3
    <3>3. Cardinality(Before(k + 1)) = b + 1  BY <1>2
    <3> HIDE DEF b
    <3>4. CASE b = 0  BY <1>1, <1>3, <3>1, <3>2, <3>3, <3>4
    <3>5. CASE b # 0
      <4>1. cluses_read = SizeMod - b /\ cluses_read # 0  BY <1>1, <3>1, <3>2, <3>5
      <4>2. cluses_read' = SizeMod - b - 1  BY <1>3, <4>1
      <4>3. QED BY <1>1, <3>1, <3>3, <4>2
    <3>6. QED BY <3>4, <3>5
  <2>5. ~ Complete(k)  BY <1>1, <1>2, <2>2, CompleteMeans
  <2>6. Counted(k + 1)'
    <3>1. /\ \A h \in Headers' : k + 1 <= h
          /\ n_var_' = 0 /\ n_clauses_' = 0
          /\ Before(k + 1)' = Before(k + 1)
      BY <2>1, <2>3, FileKept
    <3>2. QED BY <2>4, <3>1 DEF Counted
  <2>7. cluses_read' # 0 /\ cluses_read' \in 0..SizeMod - 1  BY <1>1, <2>4
  <2>8. QED BY <2>5, <2>6, <2>7
<1>5. CASE ~ (\A h \in Headers : k <= h)
  <2>1. PICK h \in Headers : /\ LastHeader(h, k)
                             /\ n_var_ = DeclaredVars(h) /\ n_var_ > 0
                             /\ n_clauses_ = DeclaredClauses(h) /\ n_clauses_ > 0
                             /\ cluses_read = n_clauses_ - Cardinality(Since(h, k))
    BY <1>5 DEF Counted
  <2>2. h < k /\ cluses_read > 0  BY <2>1 DEF LastHeader
  <2>3. /\ cluses_read' = cluses_read - 1 /\ cluses_read' \in 0..SizeMod - 1
    BY <1>1, <1>3, <2>2
  <2>4. /\ LastHeader(h, k + 1) /\ n_clauses_ \in Int
        /\ Cardinality(Since(h, k + 1)) = Cardinality(Since(h, k)) + 1
        /\ Cardinality(Since(h, k)) \in Int
    BY <1>1, <1>2, <2>1, <2>2
  <2>5. cluses_read' = n_clauses_ - Cardinality(Since(h, k + 1))
    BY <2>1, <2>3, <2>4
  <2>6. Counted(k + 1)'
    <3>1. /\ h \in Headers' /\ LastHeader(h, k + 1)'
          /\ n_var_' = DeclaredVars(h)' /\ n_clauses_' = DeclaredClauses(h)'
          /\ n_var_' > 0 /\ n_clauses_' > 0 /\ n_clauses_' = n_clauses_
          /\ Since(h, k + 1)' = Since(h, k + 1)
      BY <2>1, <2>4, FileKept
    <3>2. QED BY <2>5, <3>1 DEF Counted
  <2>7. Complete(k) <=> Cardinality(Since(h, k + 1)) = DeclaredClauses(h)
    <3>1. \A g : LastHeader(g, k + 1) => g = h  BY <1>1, <1>2, <2>1, OneLastHeader
    <3>2. QED BY <1>1, <2>2, <2>4, <3>1, CompleteMeans
  <2>8. Complete(k) <=> cluses_read' = 0  BY <2>1, <2>4, <2>5, <2>7
  <2>9. QED BY <2>3, <2>6, <2>8
<1>6. QED BY <1>4, <1>5

LEMMA ReadClauseKeeps ==
  ASSUME ReaderInv, ReadClause
  PROVE  ReaderInv'
<1>1. PICK k : k = at  OBVIOUS
<1>2. /\ status = "reading" /\ k \in 1..Len(file) /\ k \in ClauseLines
      /\ UNCHANGED <<file, n_var_, n_clauses_>> /\ file \in Files /\ Incomplete(k)
      /\ Listed(k) /\ Counted(k) /\ Len(file) \in Nat /\ cluses_read \in 0..SizeMod - 1
      /\ \A h \in Headers : LastHeader(h, k) => cluses_read > 0
  <2>1. Len(file) \in Nat /\ DOMAIN file = 1..Len(file)  BY FileFacts DEF ReaderInv
  <2>2. k \in DOMAIN file /\ ~ IsSkipped(file[k]) /\ ~ IsHeader(file[k])
    BY <1>1, <2>1 DEF ReaderInv, ReadClause, Reading, Line
  <2>3. k \in ClauseLines  BY <2>2 DEF ClauseLines
  <2>4. status = "reading" /\ UNCHANGED <<file, n_var_, n_clauses_>>
    BY DEF ReadClause, Reading
  <2>5. QED BY <1>1, <2>1, <2>2, <2>3, <2>4 DEF ReaderInv, Judged
<1>3. k \in Nat \ {0}  BY <1>2
<1>4. CASE IsClause(file[k])
  <2>1. /\ functions_' = Append(functions_, Clause(file[k]))
        /\ cluses_read' = (cluses_read - 1) % SizeMod
        /\ at' = k + 1
        /\ status' = IF cluses_read' = 0 THEN "read" ELSE "reading"
    BY <1>1, <1>4 DEF ReadClause, Line
  <2>2. Listed(k + 1)'  BY <1>2, <1>4, <2>1, ListedNext
  <2>3. /\ Counted(k + 1)' /\ cluses_read' \in 0..SizeMod - 1
        /\ Complete(k) <=> cluses_read' = 0
    BY <1>2, <2>1, CountedNext
  <2>4. Judged'
    <3>1. CASE cluses_read' = 0
      <4>1. status' = "read" /\ Ended(k + 1)
        <5>1. (k + 1) - 1 = k  BY <1>3
        <5>2. QED BY <1>2, <2>1, <2>3, <3>1, <5>1 DEF Ended
      <4>2. Ended(at)'  BY <1>2, <2>1, <4>1, FileKept
      <4>3. QED BY <4>1, <4>2 DEF Judged
    <3>2. CASE cluses_read' # 0
      <4>1. status' = "reading" /\ Incomplete(k + 1)
        BY <1>2, <1>3, <2>1, <2>3, <3>2, IncompleteNext
      <4>2. Incomplete(at)'  BY <1>2, <2>1, <4>1, FileKept
      <4>3. cluses_read' > 0
        <5>1. SizeMod \in Nat  BY <1>2, FileFacts
        <5>2. QED BY <2>3, <3>2, <5>1
      <4>4. QED BY <4>1, <4>2, <4>3 DEF Judged
    <3>3. QED BY <3>1, <3>2
  <2>5. at' \in 1..Len(file') + 1  BY <1>2, <2>1
  <2>6. QED BY <1>2, <2>1, <2>2, <2>3, <2>4, <2>5 DEF ReaderInv
<1>5. CASE ~ IsClause(file[k])
  <2>1. status' = "abort" /\ UNCHANGED <<at, functions_, cluses_read>>
    BY <1>1, <1>5 DEF ReadClause, Line
  <2>2. Judged'
    <3>1. Incomplete(at)' /\ at' \in ClauseLines' /\ ~ IsClause(file'[at'])
      BY <1>1, <1>2, <1>5, <2>1, FileKept
    <3>2. QED BY <2>1, <3>1 DEF Judged
  <2>3. Listed(k)'  BY <1>2, <2>1, ListedKept
  <2>4. Counted(k)'  BY <1>2, <2>1, FileKept DEF Counted
  <2>5. QED BY <1>1, <1>2, <2>1, <2>2, <2>3, <2>4 DEF ReaderInv
<1>6. QED BY <1>4, <1>5

\* The other steps read nothing.
LEMMA OthersKeep ==
  ASSUME ReaderInv, EndOfFile \/ Construct \/ UNCHANGED reader
  PROVE  ReaderInv'
<1>1. PICK k : k = at  OBVIOUS
<1>2. UNCHANGED <<file, at, n_var_, n_clauses_, functions_, cluses_read>>
  BY DEF EndOfFile, Construct, reader
<1>3. Listed(k) /\ Counted(k) /\ file \in Files /\ at \in 1..Len(file) + 1 /\ Len(file) \in Nat
  BY <1>1, FileFacts DEF ReaderInv
<1>4. Listed(k)'  BY <1>2, <1>3, ListedKept
<1>5. Counted(k)'  BY <1>2, <1>3, FileKept DEF Counted
<1>6. Judged'
  <2>1. CASE EndOfFile
    <3>1. status = "reading" /\ at > Len(file) /\ status' = "read"  BY <2>1 DEF EndOfFile
    <3>2. k = Len(file) + 1 /\ Incomplete(k)
      BY <1>1, <1>3, <3>1 DEF ReaderInv, Judged
    <3>3. Ended(k)
      <4>1. 1..(k - 1) - 1 \subseteq 1..k - 1  BY <1>3, <3>2
      <4>2. QED BY <3>2, <4>1 DEF Ended, Incomplete
    <3>4. Ended(at)'  BY <1>1, <1>2, <3>3, FileKept
    <3>5. QED BY <3>1, <3>4 DEF Judged
  <2>2. CASE Construct
    <3>1. /\ status = "read"
          /\ status' = IF n_var_ = 0 \/ n_clauses_ = 0 THEN "abort"
                       ELSE IF LiteralsInRange THEN "constructed" ELSE "out_of_range"
      BY <2>2 DEF Construct
    <3>2. Ended(at)'
      <4>1. Ended(k)  BY <1>1, <3>1 DEF ReaderInv, Judged
      <4>2. QED BY <1>1, <1>2, <4>1, FileKept
    <3>3. LiteralsInRange' <=> LiteralsInRange  BY <1>2 DEF LiteralsInRange
    <3>4. QED BY <1>2, <3>1, <3>2, <3>3 DEF Judged
  <2>3. CASE UNCHANGED reader
    <3>1. status' = status /\ (LiteralsInRange' <=> LiteralsInRange)
      BY <1>2, <2>3 DEF reader, LiteralsInRange
    <3>2. /\ Headers' = Headers /\ ClauseLines' = ClauseLines
          /\ Incomplete(at)' <=> Incomplete(at)
          /\ Ended(at)' <=> Ended(at)
          /\ DeclaredVars(at)' = DeclaredVars(at)
          /\ DeclaredClauses(at)' = DeclaredClauses(at)
      BY <1>1, <1>2, FileKept
    <3>3. \A h \in Headers : LastHeader(h, at)' <=> LastHeader(h, at)
      BY <1>1, <1>2, FileKept
    <3>4. QED BY <1>2, <3>1, <3>2, <3>3 DEF ReaderInv, Judged
  <2>4. QED BY <2>1, <2>2, <2>3
<1>7. QED BY <1>1, <1>2, <1>3, <1>4, <1>5, <1>6 DEF ReaderInv

LEMMA ReaderInvariant == Spec => []ReaderInv
<1>1. ReaderInv /\ [Next]_reader => ReaderInv'
  BY SkipKeeps, ReadHeaderKeeps, ReadClauseKeeps, OthersKeep DEF Next
<1>2. QED BY <1>1, InitReaderInv, PTL DEF Spec

-----------------------------------------------------------------------------
(* The theorems.                                                           *)

\* When reading has ended the lines read are the body of the file.
LEMMA EndedFacts ==
  ASSUME file \in Files, NEW k \in 1..Len(file) + 1, Ended(k)
  PROVE  Body = 1..k - 1 /\ ClauseLines \cap Body = Before(k)
<1>1. /\ Len(file) \in Nat /\ DOMAIN file = 1..Len(file) /\ k \in Int
      /\ ClauseLines \subseteq 1..Len(file)
  BY FileFacts
<1>2. ASSUME NEW j \in 1..k - 1 PROVE j \in Body
  <2>1. j \in DOMAIN file /\ 1..j - 1 \subseteq 1..(k - 1) - 1  BY <1>1
  <2>2. QED BY <2>1 DEF Body, Ended, Incomplete
<1>3. ASSUME NEW j \in Body PROVE j \in 1..k - 1
  <2>1. j \in 1..Len(file) /\ \A m \in 1..j - 1 : ~ Complete(m)  BY <1>1 DEF Body
  <2>2. CASE k = Len(file) + 1  BY <1>1, <2>1, <2>2
  <2>3. CASE Complete(k - 1)
    <3>1. k - 1 >= 1
      <4>1. PICK h \in Headers : h < k - 1  BY <2>3 DEF Complete
      <4>2. h \in 1..Len(file)  BY <1>1 DEF Headers
      <4>3. QED BY <1>1, <4>1, <4>2
    <3>2. ~ (k - 1 \in 1..j - 1)  BY <2>1, <2>3
    <3>3. QED BY <1>1, <2>1, <3>1, <3>2
  <2>4. QED BY <2>2, <2>3 DEF Ended
<1>4. Body = 1..k - 1  BY <1>2, <1>3
<1>5. ClauseLines \cap Body = Before(k)
  <2>1. \A m \in 1..Len(file) : m \in 1..k - 1 <=> m < k  BY <1>1
  <2>2. QED BY <1>1, <1>4, <2>1 DEF Before
<1>6. QED BY <1>4, <1>5

\* A file that was read has given the clauses that its last header announces,
\* or all it has, whatever the lines: the countdown stops neither early nor
\* late, and functions_ holds the clauses in their order.
THEOREM AlwaysReadsDeclared == Spec => []ReadsDeclared
<1>1. ReaderInv => ReadsDeclared
  <2> SUFFICES ASSUME ReaderInv, status \in {"read", "constructed", "out_of_range"}
               PROVE  /\ at = Cardinality(Body) + 1
                      /\ Len(functions_) = Cardinality(ClauseLines \cap Body)
                      /\ \A k \in ClauseLines \cap Body :
                           functions_[Cardinality({m \in ClauseLines : m <= k})] = Literals(file[k])
                      /\ \A h \in Headers \cap Body :
                           (\A g \in Headers \cap Body : g <= h) =>
                             n_var_ = DeclaredVars(h) /\ n_clauses_ = DeclaredClauses(h)
    BY DEF ReadsDeclared
  <2>1. /\ file \in Files /\ at \in 1..Len(file) + 1 /\ Ended(at) /\ Listed(at) /\ Counted(at)
    BY DEF ReaderInv, Judged
  <2>2. Body = 1..at - 1 /\ ClauseLines \cap Body = Before(at)  BY <2>1, EndedFacts
  <2>3. /\ Len(file) \in Nat /\ at \in Int /\ at >= 1
        /\ \A m \in Headers \cup ClauseLines : m \in Int /\ m >= 1
    <3>1. /\ Len(file) \in Nat /\ Headers \subseteq 1..Len(file)
          /\ ClauseLines \subseteq 1..Len(file)
      BY <2>1, FileFacts
    <3>2. \A m \in 1..Len(file) : m \in Int /\ m >= 1  BY <3>1
    <3>3. QED BY <2>1, <3>1, <3>2
  <2>4. Cardinality(Body) = at - 1
    <3> DEFINE j == at - 1
    <3>1. j \in Nat  BY <2>3
    <3> HIDE DEF j
    <3>2. Cardinality(1..j) = IF 1 > j THEN 0 ELSE j - 1 + 1  BY <3>1, FS_Interval
    <3>3. Cardinality(1..j) = j  BY <3>1, <3>2
    <3>4. QED BY <2>2, <3>3 DEF j
  <2>5. ASSUME NEW k \in ClauseLines \cap Body
        PROVE  functions_[Cardinality({m \in ClauseLines : m <= k})] = Literals(file[k])
    <3>1. \A m \in ClauseLines : m <= k <=> m < k + 1  BY <2>3
    <3>2. {m \in ClauseLines : m <= k} = Before(k + 1)  BY <3>1 DEF Before
    <3>3. IsClause(file[k]) /\ functions_[Cardinality(Before(k + 1))] = Clause(file[k])
      BY <2>1, <2>2 DEF Listed
    <3>4. file[k] \in Seq(LineTexts) /\ file[k] # << >>  BY <2>1, FileFacts
    <3>5. Clause(file[k]) = Literals(file[k])  BY <3>3, <3>4, ClauseFacts
    <3>6. QED BY <3>2, <3>3, <3>5
  <2>6. ASSUME NEW h \in Headers \cap Body, \A g \in Headers \cap Body : g <= h
        PROVE  n_var_ = DeclaredVars(h) /\ n_clauses_ = DeclaredClauses(h)
    <3>1. h < at  BY <2>2, <2>3
    <3>2. \A g \in Headers : g <= h \/ at <= g
      <4> SUFFICES ASSUME NEW g \in Headers, ~ (at <= g) PROVE g <= h
        OBVIOUS
      <4>1. g \in 1..at - 1  BY <2>3
      <4>2. QED BY <2>2, <2>6, <4>1
    <3>3. LastHeader(h, at)  BY <3>1, <3>2 DEF LastHeader
    <3>4. ~ (at <= h)  BY <2>3, <3>1
    <3>5. PICK g \in Headers : /\ LastHeader(g, at) /\ n_var_ = DeclaredVars(g)
                               /\ n_clauses_ = DeclaredClauses(g)
      BY <2>1, <3>4 DEF Counted
    <3>6. g = h  BY <2>1, <2>3, <3>3, <3>5, OneLastHeader
    <3>7. QED BY <3>5, <3>6
  <2>7. at = Cardinality(Body) + 1  BY <2>3, <2>4
  <2>8. QED BY <2>1, <2>2, <2>5, <2>6, <2>7 DEF Listed
<1>2. QED BY <1>1, ReaderInvariant, PTL

\* No well-formed file without a blank after a clause makes the program fail,
\* whatever its lines: neither an assertion nor the index of frequency_sign_.
THEOREM AlwaysRejectsOnlyIllFormed == Spec => []RejectsOnlyIllFormed
<1>1. ReaderInv => RejectsOnlyIllFormed
  <2> SUFFICES ASSUME ReaderInv, status \in {"abort", "out_of_range"}, WellFormed,
                      ~ BlankAfterClause
               PROVE  FALSE
    BY DEF RejectsOnlyIllFormed, Failed
  <2>1. PICK h \in Headers :
          /\ Headers \cap Body = {h}
          /\ DeclaredVars(h) > 0
          /\ DeclaredClauses(h) > 0
          /\ \A k \in ClauseLines \cap Body :
               /\ IsClause(file[k])
               /\ \A j \in DOMAIN Clause(file[k]) :
                    Clause(file[k])[j] \in -DeclaredVars(h)..DeclaredVars(h)
    <3>1. PICK h \in Headers :
            /\ Headers \cap Body = {h}
            /\ DeclaredVars(h) > 0
            /\ DeclaredClauses(h) > 0
            /\ \A k \in ClauseLines \cap Body : WrittenClause(file[k], DeclaredVars(h))
      BY DEF WellFormed
    <3>2. ASSUME NEW k \in ClauseLines \cap Body
          PROVE  /\ IsClause(file[k])
                 /\ \A j \in DOMAIN Clause(file[k]) :
                      Clause(file[k])[j] \in -DeclaredVars(h)..DeclaredVars(h)
      <4>1. file[k] \in Seq(LineTexts) /\ file[k] # << >>  BY FileFacts DEF ReaderInv
      <4>2. file[k][Len(file[k])] # NoText  BY DEF BlankAfterClause
      <4>3. WrittenClause(file[k], DeclaredVars(h))  BY <3>1
      <4>4. QED BY <4>1, <4>2, <4>3, ClauseFacts
    <3>3. QED BY <3>1, <3>2
  <2>2. file \in Files /\ at \in 1..Len(file) + 1 /\ Listed(at) /\ Counted(at)
    BY DEF ReaderInv
  <2>3. Incomplete(at) /\ at \in DOMAIN file => at \in Body  BY DEF Incomplete, Body
  <2>4. Ended(at) => n_var_ = DeclaredVars(h) /\ n_var_ > 0 /\ n_clauses_ > 0
    <3> SUFFICES ASSUME Ended(at)
                 PROVE  n_var_ = DeclaredVars(h) /\ n_var_ > 0 /\ n_clauses_ > 0
      OBVIOUS
    <3>1. Body = 1..at - 1 /\ Len(file) \in Nat /\ Headers \subseteq 1..Len(file)
      BY <2>2, EndedFacts, FileFacts
    <3>2. h \in 1..at - 1  BY <2>1, <3>1
    <3>3. ~ (at <= h)  BY <2>2, <3>1, <3>2
    <3>4. PICK g \in Headers : /\ LastHeader(g, at) /\ n_var_ = DeclaredVars(g)
                               /\ n_var_ > 0 /\ n_clauses_ > 0
      BY <2>2, <3>3 DEF Counted
    <3>5. g \in Body
      <4>1. g \in 1..Len(file) /\ g < at  BY <3>1, <3>4 DEF LastHeader
      <4>2. QED BY <2>2, <3>1, <4>1
    <3>6. g = h  BY <2>1, <3>5
    <3>7. QED BY <3>4, <3>6
  <2>5. CASE status = "abort" /\ Incomplete(at)
    <3>1. CASE at \in Headers /\ ~ (DeclaredVars(at) > 0 /\ DeclaredClauses(at) > 0)
      <4>1. at \in Headers \cap Body  BY <2>3, <2>5, <3>1 DEF Headers
      <4>2. QED BY <2>1, <3>1, <4>1
    <3>2. CASE at \in ClauseLines /\ ~ IsClause(file[at])
      <4>1. at \in ClauseLines \cap Body  BY <2>3, <2>5, <3>2 DEF ClauseLines
      <4>2. QED BY <2>1, <3>2, <4>1
    <3>3. CASE Ended(at) /\ (n_var_ = 0 \/ n_clauses_ = 0)
      BY <2>2, <2>4, <3>3
    <3>4. QED BY <2>5, <3>1, <3>2, <3>3 DEF ReaderInv, Judged
  <2>6. CASE status = "abort" /\ Ended(at) /\ (n_var_ = 0 \/ n_clauses_ = 0)  BY <2>4, <2>6
  <2>7. CASE status = "out_of_range"
    <3>1. Ended(at) /\ ~ LiteralsInRange  BY <2>7 DEF ReaderInv, Judged
    <3>2. ClauseLines \cap Body = Before(at) /\ n_var_ = DeclaredVars(h)
      BY <2>2, <2>4, <3>1, EndedFacts
    <3>3. DOMAIN functions_ = 1..Len(functions_)
      <4> DEFINE X == {Clause(file[m]) : m \in ClauseLines}
      <4>1. functions_ \in Seq(X)  BY <2>2 DEF Listed
      <4> HIDE DEF X
      <4>2. QED BY <4>1
    <3>4. PICK i \in 1..Len(functions_) : \E j \in DOMAIN functions_[i] :
            functions_[i][j] \notin -n_var_..n_var_
      BY <3>1, <3>3 DEF LiteralsInRange
    <3>5. PICK m \in Before(at) : functions_[i] = Clause(file[m])  BY <2>2 DEF Listed
    <3>6. QED BY <2>1, <3>2, <3>4, <3>5
  <2>8. QED BY <2>5, <2>6, <2>7 DEF ReaderInv, Judged
<1>2. QED BY <1>1, ReaderInvariant, PTL
=============================================================================

------------------------------- MODULE MCDpll -------------------------------
(***************************************************************************)
(* Instances of Dpll for TLC: sets of small formulas in which every clause  *)
(* shape of the parser occurs (empty, unit, repeated and complementary      *)
(* literals, repeated clauses).                                             *)
(***************************************************************************)
EXTENDS ErasingLoop

\* The clauses of at most two literals over the first two variables, repeated
\* and complementary literals included.  The solver never compares positions,
\* so one order is enough.
FewLits == {-2, -1, 1, 2}
ShortClauses ==
  {<< >>} \cup {<<x>> : x \in FewLits}
  \cup {<<p[1], p[2]>> : p \in {q \in FewLits \X FewLits : q[1] <= q[2]}}

\* Every formula of at most three such clauses.
MCShortFormulas == UNION {[1..k -> ShortClauses] : k \in 0..3}

\* The eight ternary clauses over three variables: only all of them together
\* are unsatisfiable, and to see it needs the whole search tree.
FullClauses ==
  <<<<1, 2, 3>>, <<-1, 2, 3>>, <<1, -2, 3>>, <<-1, -2, 3>>,
    <<1, 2, -3>>, <<-1, 2, -3>>, <<1, -2, -3>>, <<-1, -2, -3>>>>

\* The clauses of FullClauses with their numbers in S, in order.
Chosen(S) ==
  SelectSeq([i \in 1..8 |-> IF i \in S THEN FullClauses[i] ELSE << >>],
            LAMBDA c : c # << >>)

Binary ==
  {<<x, y>> : x \in {-1, 1}, y \in {-2, 2}} \cup {<<y, z>> : y \in {-2, 2}, z \in {-3, 3}}

\* Every set of ternary clauses, alone and behind every binary clause; and the
\* clauses of assignment-2/src/test/101.cnf and 102.cnf.
MCThreeVariableFormulas ==
  {Chosen(S) : S \in SUBSET (1..8)}
  \cup {<<b>> \o Chosen(S) : b \in Binary, S \in SUBSET (1..8)}
  \cup {<< <<1>>, <<-1, 2>>, <<-1, 3>>, <<-2, -3, 1>>, <<-3, -2>>, <<2, 3>> >>,
        << <<1>>, <<-1, -2, 3>>, <<-1, -3, 2>>, <<2, 3, 1>>, <<2, -2, 1>>,
           <<-3, -2, 1>>, <<-3, -2>>, <<2, 3>> >>}

\* Two clauses of three literals, each with repeated and complementary ones in
\* any order: neighbours are erased in every combination.
Repeating == [1..3 -> {-1, 1, 2}]
MCRepeatingFormulas == [1..2 -> Repeating]

MCFormulas == MCShortFormulas \cup MCThreeVariableFormulas \cup MCRepeatingFormulas

=============================================================================

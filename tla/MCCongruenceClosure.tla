------------------------ MODULE MCCongruenceClosure ------------------------
(***************************************************************************)
(* Instances of CongruenceClosure for TLC: term tables in which functions   *)
(* are nested, applied to the same argument twice and have two arguments,   *)
(* with every short list of equalities over them.                           *)
(***************************************************************************)
EXTENDS CongruenceClosure, SequencesExt

\* ccpar_ as DagBuilder fills it: the id of p is pushed once per argument.
ParentsOf(args, n) ==
  FlattenSeq([p \in DOMAIN args |->
    SelectSeq([k \in DOMAIN args[p] |-> IF args[p][k] = n THEN p ELSE 0],
              LAMBDA x : x # 0)])

Table(fn, args, equality, inequality) ==
  [fn_ |-> fn, args_ |-> args, ccpar_ |-> [n \in DOMAIN fn |-> ParentsOf(args, n)],
   equality_ |-> equality, inequality_ |-> inequality]

\* x, f(x), f(f(x)), ...: n terms.
Tower(n) ==
  [fn |-> [k \in 1..n |-> IF k = 1 THEN "x" ELSE "f"],
   args |-> [k \in 1..n |-> IF k = 1 THEN << >> ELSE <<k - 1>>]]

\* a, b, f(a, b), f(f(a, b), b)
Nested == [fn |-> <<"a", "b", "f", "f">>, args |-> << << >>, << >>, <<1, 2>>, <<3, 2>> >>]

\* a, b, f(a, a), f(a, b), f(b, a)
Square ==
  [fn |-> <<"a", "b", "f", "f", "f">>,
   args |-> << << >>, << >>, <<1, 1>>, <<1, 2>>, <<2, 1>> >>]

\* a, b, c, f(a, c), f(b, a)
Crossed ==
  [fn |-> <<"a", "b", "c", "f", "f">>,
   args |-> << << >>, << >>, << >>, <<1, 3>>, <<2, 1>> >>]

\* a, b, f(a), f(b), g(f(a), f(b)), g(f(b), f(b))
Mixed ==
  [fn |-> <<"a", "b", "f", "f", "g", "g">>,
   args |-> << << >>, << >>, <<1>>, <<2>>, <<3, 4>>, <<4, 4>> >>]

Pairs(n) == (1..n) \X (1..n)

\* Every list of at most n equalities taken from E, with inequalities that
\* different lists refute.
Lists(terms, E, n, inequality) ==
  {Table(terms.fn, terms.args, e, inequality) : e \in BoundedSeq(E, n)}

\* Four terms with every list of two equalities, and lists over five and six
\* terms: merges inside merges inside merges.  Among them are the constraints
\* of assignment-3/src/test/2.txt (f(a, b) = a and f(f(a, b), b) # a).
MCDags ==
  Lists(Tower(4), Pairs(4), 2, << <<1, 4>>, <<1, 2>> >>)
  \cup Lists(Nested, Pairs(4), 2, << <<1, 4>>, <<2, 3>> >>)
  \cup Lists(Nested, {<<1, 2>>, <<2, 3>>, <<3, 1>>}, 3, << >>)
  \cup Lists(Tower(5), Pairs(5), 1, << <<2, 5>> >>)
  \cup Lists(Tower(5), {<<1, 2>>, <<1, 4>>, <<5, 2>>, <<3, 1>>}, 2, << >>)
  \cup Lists(Square, Pairs(5), 1, << <<4, 5>>, <<3, 1>> >>)
  \cup Lists(Square, {<<1, 2>>, <<3, 4>>, <<4, 1>>, <<5, 2>>}, 2, << <<4, 5>>, <<3, 1>> >>)
  \cup Lists(Crossed, {<<1, 2>>, <<2, 1>>, <<1, 3>>}, 2, << <<4, 5>> >>)
  \cup Lists(Mixed, {<<1, 2>>, <<4, 3>>}, 1, <<<<5, 6>>>>)
=============================================================================

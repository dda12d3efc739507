----------------------------- MODULE MCEufSolver -----------------------------
(***************************************************************************)
(* Instances of EufSolver for TLC.  Formulas are written as nested records  *)
(* and numbered in post-order, as the parser's tree is traversed.           *)
(***************************************************************************)
EXTENDS EufSolver, SequencesExt

Tree(t, name, args) == [type_ |-> t, name |-> name, args |-> args]
Var(x) == Tree("var", x, << >>)
App(f, args) == Tree("func", f, args)
Eq(s, t) == Tree("equal", "", <<s, t>>)
Neq(s, t) == Tree("not_equal", "", <<s, t>>)
And(p, q) == Tree("and", "", <<p, q>>)

\* The nodes of the tree t, numbered from base + 1 on, and of a list of trees
\* with the numbers of their roots.
RECURSIVE Flatten(_, _), FlattenList(_, _)
FlattenList(ts, base) ==
  IF ts = << >> THEN [nodes |-> << >>, roots |-> << >>]
  ELSE LET first == Flatten(Head(ts), base)
           rest  == FlattenList(Tail(ts), base + Len(first))
       IN  [nodes |-> first \o rest.nodes, roots |-> <<base + Len(first)>> \o rest.roots]
Flatten(t, base) ==
  LET below == FlattenList(t.args, base)
  IN  Append(below.nodes, [type_ |-> t.type_, name |-> t.name, children_ |-> below.roots])

\* The tables of the formulas in a set.
Parse(t) ==
  LET nodes == Flatten(t, 0)
  IN  [type_ |-> [k \in DOMAIN nodes |-> nodes[k].type_],
       name |-> [k \in DOMAIN nodes |-> nodes[k].name],
       children_ |-> [k \in DOMAIN nodes |-> nodes[k].children_]]

a == Var("a")
b == Var("b")
f(t) == App("f", <<t>>)
g(s, t) == App("g", <<s, t>>)

\* a, b, f(a), f(b), f(f(a)), and g(a, b), g(a, a) or, with another
\* signature, f(a, b).
Shallow == {a, b, f(a), f(b)}
Odd == {f(f(a)), g(a, b), g(a, a), App("f", <<a, b>>)}

Atoms(S, T) == {Eq(s, t) : s \in S, t \in T} \cup {Neq(s, t) : s \in S, t \in T}

\* Conjunctions of two atoms, of which one may be a predicate, and nested
\* conjunctions.
MCFormulas ==
  {Parse(t) :
     t \in {And(p, q) : p \in Atoms(Shallow, {a, b}), q \in Atoms({a, f(b)}, Shallow)}
           \cup Atoms(Shallow \cup Odd, Shallow \cup Odd)
           \cup {And(p, q) : p \in Atoms(Odd, {a}), q \in Atoms({a}, {b, f(a)})}
           \cup {And(App("p", <<a>>), q) : q \in Atoms({a, f(a), App("p", <<b, a>>)}, {b, App("p", <<a>>)})}
           \cup {And(And(Eq(a, b), Neq(f(a), a)), p) : p \in Atoms({f(b)}, {b})}}

-----------------------------------------------------------------------------
(* The formulas of assignment-3/src/test with at most six terms.           *)

x == Var("x")
y == Var("y")
ff(s, t) == App("f", <<s, t>>)
f3a == f(f(f(a)))
f5a == f(f(f3a))

MCTestFormulas ==
  {Parse(t) :
     t \in {And(And(Eq(f3a, a), Eq(f5a, a)), Neq(f(a), a)),
            And(Eq(ff(a, b), a), Neq(ff(ff(a, b), b), a)),
            And(And(Eq(f3a, f(f(a))), Eq(f(f3a), a)), Neq(f(a), a)),
            And(And(Eq(f3a, f(a)), Eq(f(f(a)), a)), Neq(f(a), a)),
            Eq(ff(a, b), App("g", <<f(Var("c"))>>)),
            Eq(ff(ff(a, b), b), a),
            And(Eq(f(x), f(y)), Neq(x, y))}}

MCAsts == MCFormulas \cup MCTestFormulas
=============================================================================

------------------------- MODULE CongruenceClosure -------------------------
(***************************************************************************)
(* The congruence-closure decision procedure of assignment-3: class Dag     *)
(* (dag.hpp) and VectorSetUnion (util.hpp).                                 *)
(*                                                                          *)
(* Nodes are the ids 1..n that DagNode's counter hands out while DagBuilder *)
(* creates the sub-terms in post-order.  The recursion of Merge is an       *)
(* explicit stack: a frame holds what an activation copied before Union     *)
(* (par_i, par_j) and the position of its two nested loops.                 *)
(*                                                                          *)
(* An operator whose comment starts with "Fault:" is what a plausible bug   *)
(* would make of the definition after it; nothing uses it.                  *)
(***************************************************************************)
EXTENDS Integers, Sequences, FiniteSets

CONSTANT Dags   \* the node tables and constraints that DagBuilder may hand over

VARIABLES
  dag,        \* the immutable part: fn_, args_ of every node, constraints
  cc_,        \* link of every node towards the representative of its class
  ccpar_,     \* parents recorded at every node, a vector of ids
  frames,     \* the activations of Merge, innermost last
  next_eq,    \* the next element of sub_formulae_equality_
  next_neq,   \* the next element of sub_formulae_inequality_
  res,        \* the local res of Decision
  verdict     \* what main printed: "none", "SAT" or "UNSAT"

vars == <<dag, cc_, ccpar_, frames, next_eq, next_neq, res, verdict>>

-----------------------------------------------------------------------------
(* What DagBuilder hands over.                                             *)

NodesOf(d) == 1..Len(d.fn_)

\* The nodes with an argument in the set S.
ParentsIn(d, S) == {p \in NodesOf(d) : \E k \in DOMAIN d.args_[p] : d.args_[p][k] \in S}

NonDecreasing(v) == \A k \in 1..Len(v) - 1 : v[k] <= v[k + 1]

Elements(v) == {v[k] : k \in DOMAIN v}

\* Arguments are created before their parents and every term once; a node's
\* ccpar_ lists its parents in the order of their creation, once per argument
\* position.
IsDag(d) ==
  LET N == NodesOf(d)
  IN  /\ Len(d.fn_) \in Nat
      /\ d.args_ \in [N -> Seq(N)]
      /\ \A p \in N : \A k \in DOMAIN d.args_[p] : d.args_[p][k] < p
      /\ \A p, q \in N : d.fn_[p] = d.fn_[q] /\ d.args_[p] = d.args_[q] => p = q
      /\ d.ccpar_ \in [N -> Seq(N)]
      /\ \A n \in N : NonDecreasing(d.ccpar_[n]) /\ Elements(d.ccpar_[n]) = ParentsIn(d, {n})
      /\ d.equality_ \in Seq(N \X N)
      /\ d.inequality_ \in Seq(N \X N)

ASSUME DagsAssumption == \A d \in Dags : IsDag(d)

Nodes == NodesOf(dag)

-----------------------------------------------------------------------------
(* Dag: union-find and congruence.                                         *)

\* Find for all nodes at once: follow the links c to a node linked to itself.
Root(c) == LET F[n \in DOMAIN c] == IF c[n] = n THEN n ELSE F[c[n]] IN F

Find(id) == Root(cc_)[id]

CCPar(id) == ccpar_[Find(id)]

\* std::set_union: merges two sorted vectors, from positions p[1] and p[2] on.
VectorSetUnion(v1, v2) ==
  LET U[p \in (1..Len(v1) + 1) \X (1..Len(v2) + 1)] ==
        IF p[1] > Len(v1) THEN SubSeq(v2, p[2], Len(v2))
        ELSE IF p[2] > Len(v2) THEN SubSeq(v1, p[1], Len(v1))
        ELSE IF v1[p[1]] < v2[p[2]] THEN <<v1[p[1]]>> \o U[<<p[1] + 1, p[2]>>]
        ELSE IF v2[p[2]] < v1[p[1]] THEN <<v2[p[2]]>> \o U[<<p[1], p[2] + 1>>]
        ELSE <<v1[p[1]]>> \o U[<<p[1] + 1, p[2] + 1>>]
  IN  U[<<1, 1>>]

\* Fault: the parents of the absorbed class are dropped.
UnionDropsParents(i, j) ==
  /\ cc_' = [cc_ EXCEPT ![i] = cc_[j]]
  /\ ccpar_' = [ccpar_ EXCEPT ![i] = << >>]

\* Fault: the vectors are appended, as in `insert(end, ...)'.
UnionAppends(i, j) ==
  /\ cc_' = [cc_ EXCEPT ![i] = cc_[j]]
  /\ ccpar_' = [ccpar_ EXCEPT ![j] = ccpar_[i] \o ccpar_[j], ![i] = << >>]

Union(i, j) ==
  /\ cc_' = [cc_ EXCEPT ![i] = cc_[j]]
  /\ ccpar_' = [ccpar_ EXCEPT ![j] = VectorSetUnion(ccpar_[i], ccpar_[j]), ![i] = << >>]

\* Fault: the loop over the arguments stops after the first.
CongruentFirstArgument(i, j) ==
  /\ dag.fn_[i] = dag.fn_[j]
  /\ Len(dag.args_[i]) = Len(dag.args_[j])
  /\ dag.args_[i] # << >> => Find(dag.args_[i][1]) = Find(dag.args_[j][1])

Congruent(i, j) ==
  /\ dag.fn_[i] = dag.fn_[j]
  /\ Len(dag.args_[i]) = Len(dag.args_[j])
  /\ \A k \in DOMAIN dag.args_[i] : Find(dag.args_[i][k]) = Find(dag.args_[j][k])

Frame(par_i, par_j) == [par_i |-> par_i, par_j |-> par_j, at_i |-> 1, at_j |-> 1]

\* Fault: the parents are read after Union, when those of root_i are gone.
MergeReadsLate(i, j, callers) ==
  \/ /\ Find(i) = Find(j)
     /\ frames' = callers
     /\ UNCHANGED <<cc_, ccpar_>>
  \/ /\ Find(i) # Find(j)
     /\ Union(Find(i), Find(j))
     /\ frames' = Append(callers, Frame(ccpar_'[Find(i)], ccpar_'[Find(j)]))

\* Fault: nodes are linked without looking for their representatives.
MergeWithoutFind(i, j, callers) ==
  \/ /\ i = j
     /\ frames' = callers
     /\ UNCHANGED <<cc_, ccpar_>>
  \/ /\ i # j
     /\ Union(i, j)
     /\ frames' = Append(callers, Frame(ccpar_[i], ccpar_[j]))

\* Fault: the test that the representatives differ is missing.
MergeUnchecked(i, j, callers) ==
  /\ Union(Find(i), Find(j))
  /\ frames' = Append(callers, Frame(CCPar(Find(i)), CCPar(Find(j))))

\* A call of Merge up to its loops; callers are the activations that go on
\* when it has returned.
Merge(i, j, callers) ==
  \/ /\ Find(i) = Find(j)
     /\ frames' = callers
     /\ UNCHANGED <<cc_, ccpar_>>
  \/ /\ Find(i) # Find(j)
     /\ Union(Find(i), Find(j))
     /\ frames' = Append(callers, Frame(CCPar(Find(i)), CCPar(Find(j))))

-----------------------------------------------------------------------------
(* Decision and the loops of Merge.                                        *)

Init ==
  /\ dag \in Dags
  /\ cc_ = [n \in Nodes |-> n]
  /\ ccpar_ = dag.ccpar_
  /\ frames = << >>
  /\ next_eq = 1
  /\ next_neq = 1
  /\ res = TRUE
  /\ verdict = "none"

\* First loop of Decision.
MergeEquality ==
  /\ frames = << >>
  /\ next_eq <= Len(dag.equality_)
  /\ Merge(dag.equality_[next_eq][1], dag.equality_[next_eq][2], << >>)
  /\ next_eq' = next_eq + 1
  /\ UNCHANGED <<dag, next_neq, res, verdict>>

Inner == frames[Len(frames)]

\* The loops over par_i and par_j have a pair left.
HasPair(f) == f.at_i <= Len(f.par_i) /\ f.at_j <= Len(f.par_j)

\* Fault: the inner loop is left after its first parent.
AdvanceOuterOnly(f) == [f EXCEPT !.at_i = @ + 1, !.at_j = 1]

\* Fault: the inner loop runs one parent too far.
AdvanceTooFar(f) ==
  IF f.at_j <= Len(f.par_j)
    THEN [f EXCEPT !.at_j = @ + 1]
    ELSE [f EXCEPT !.at_i = @ + 1, !.at_j = 1]

\* Fault: the inner loop starts again and the outer one does not move on.
AdvanceInnerAgain(f) ==
  IF f.at_j < Len(f.par_j) THEN [f EXCEPT !.at_j = @ + 1] ELSE [f EXCEPT !.at_j = 1]

Advance(f) ==
  IF f.at_j < Len(f.par_j)
    THEN [f EXCEPT !.at_j = @ + 1]
    ELSE [f EXCEPT !.at_i = @ + 1, !.at_j = 1]

\* One round of the inner loop of the innermost activation of Merge.
MergeParents ==
  /\ frames # << >>
  /\ HasPair(Inner)
  /\ LET t1      == Inner.par_i[Inner.at_i]
         t2      == Inner.par_j[Inner.at_j]
         callers == [frames EXCEPT ![Len(frames)] = Advance(@)]
     IN  \/ /\ Find(t1) # Find(t2)
            /\ Congruent(t1, t2)
            /\ Merge(t1, t2, callers)
         \/ /\ Find(t1) = Find(t2) \/ ~ Congruent(t1, t2)
            /\ frames' = callers
            /\ UNCHANGED <<cc_, ccpar_>>
  /\ UNCHANGED <<dag, next_eq, next_neq, res, verdict>>

MergeReturn ==
  /\ frames # << >>
  /\ ~ HasPair(Inner)
  /\ frames' = SubSeq(frames, 1, Len(frames) - 1)
  /\ UNCHANGED <<dag, cc_, ccpar_, next_eq, next_neq, res, verdict>>

EqualitiesDone == frames = << >> /\ next_eq > Len(dag.equality_)

\* Fault: res is overwritten by every inequality, so that the last one decides.
CheckInequalityLastWins ==
  /\ EqualitiesDone
  /\ next_neq <= Len(dag.inequality_)
  /\ res' = (Find(dag.inequality_[next_neq][1]) # Find(dag.inequality_[next_neq][2]))
  /\ next_neq' = next_neq + 1
  /\ UNCHANGED <<dag, cc_, ccpar_, frames, next_eq, verdict>>

\* Second loop of Decision.
CheckInequality ==
  /\ EqualitiesDone
  /\ next_neq <= Len(dag.inequality_)
  /\ res' = (res /\ Find(dag.inequality_[next_neq][1]) # Find(dag.inequality_[next_neq][2]))
  /\ next_neq' = next_neq + 1
  /\ UNCHANGED <<dag, cc_, ccpar_, frames, next_eq, verdict>>

\* main prints what Decision returned.
Report ==
  /\ EqualitiesDone
  /\ next_neq > Len(dag.inequality_)
  /\ verdict = "none"
  /\ verdict' = IF res THEN "SAT" ELSE "UNSAT"
  /\ UNCHANGED <<dag, cc_, ccpar_, frames, next_eq, next_neq, res>>

Next ==
  \/ MergeEquality \/ MergeParents \/ MergeReturn \/ CheckInequality \/ Report

Spec == Init /\ [][Next]_vars

-----------------------------------------------------------------------------
(* Properties.                                                             *)

IsFrame(f) ==
  /\ f = [par_i |-> f.par_i, par_j |-> f.par_j, at_i |-> f.at_i, at_j |-> f.at_j]
  /\ f.par_i \in Seq(Nodes)
  /\ f.par_j \in Seq(Nodes)
  /\ f.at_i \in 1..Len(f.par_i) + 1
  /\ f.at_j = 1 \/ f.at_j \in 1..Len(f.par_j)

TypeOK ==
  /\ IsDag(dag)
  /\ cc_ \in [Nodes -> Nodes]
  /\ ccpar_ \in [Nodes -> Seq(Nodes)]
  /\ Len(frames) \in Nat
  /\ frames = [k \in 1..Len(frames) |-> frames[k]]
  /\ \A k \in 1..Len(frames) : IsFrame(frames[k])
  /\ next_eq \in 1..Len(dag.equality_) + 1
  /\ next_neq \in 1..Len(dag.inequality_) + 1
  /\ res \in BOOLEAN
  /\ verdict \in {"none", "SAT", "UNSAT"}

Roots == {n \in Nodes : cc_[n] = n}

\* Following the links c reaches a node linked to itself from every node: a
\* set that holds these, and every node linked to one of its members, holds all.
Acyclic(c) ==
  \A S \in SUBSET DOMAIN c :
    (\A n \in DOMAIN c : c[n] = n \/ c[n] \in S => n \in S) => S = DOMAIN c

\* The links never form a cycle, so that the recursion of Find terminates.
LinksAcyclic == Acyclic(cc_)

\* Every class has its parents recorded at its representative and nowhere
\* else, whatever the order of the merges: CCPar never misses a term that may
\* become congruent to another.
ParentsAtRoot ==
  \A n \in Nodes :
    Elements(ccpar_[n]) =
      IF n \in Roots THEN ParentsIn(dag, {m \in Nodes : Find(m) = n}) ELSE {}

\* std::set_union is only defined on sorted ranges: the recorded parents stay
\* sorted through all merges.
ParentsSorted == \A n \in Nodes : NonDecreasing(ccpar_[n])

\* The loops of an activation still have to look at the pair p, q.
IsAhead(f, p, q) ==
  \E k \in 1..Len(f.par_i), m \in 1..Len(f.par_j) :
    /\ k > f.at_i \/ (k = f.at_i /\ m >= f.at_j)
    /\ f.par_i[k] = p
    /\ f.par_j[m] = q

\* No congruence is forgotten: two congruent terms in different classes are
\* still ahead in the loops of some activation, although the activations
\* iterate over parents copied before later merges moved them.
CongruencesPending ==
  \A p, q \in Nodes :
    dag.args_[p] # << >> /\ Congruent(p, q) /\ Find(p) # Find(q) =>
      \E k \in 1..Len(frames) :
        IsAhead(frames[k], p, q) \/ IsAhead(frames[k], q, p)

\* Interpretations of the nodes that respect functions: equal arguments give
\* equal values.  There are never more values than nodes.
RespectsFunctions(d, v) ==
  \A p, q \in NodesOf(d) :
    (/\ d.args_[p] # << >>
     /\ d.fn_[p] = d.fn_[q]
     /\ Len(d.args_[p]) = Len(d.args_[q])
     /\ \A k \in DOMAIN d.args_[p] : v[d.args_[p][k]] = v[d.args_[q][k]]) => v[p] = v[q]

RespectsEqualities(d, v) ==
  \A k \in DOMAIN d.equality_ : v[d.equality_[k][1]] = v[d.equality_[k][2]]

RespectsInequalities(d, v) ==
  \A k \in DOMAIN d.inequality_ : v[d.inequality_[k][1]] # v[d.inequality_[k][2]]

\* Only what the equalities imply is merged: every interpretation that
\* satisfies them gives a node and its representative the same value.
MergesEntailed ==
  \A v \in [Nodes -> Nodes] :
    RespectsEqualities(dag, v) /\ RespectsFunctions(dag, v) =>
      \A n \in Nodes : v[n] = v[Find(n)]

\* The verdict is right: SAT iff some interpretation satisfies all equalities
\* and inequalities.
VerdictCorrect ==
  verdict # "none" =>
    ((verdict = "SAT") <=>
       \E v \in [Nodes -> Nodes] : /\ RespectsEqualities(dag, v)
                                   /\ RespectsInequalities(dag, v)
                                   /\ RespectsFunctions(dag, v))

\* The recursion is never deeper than the merges that are possible.
RecursionBounded == Len(frames) + Cardinality(Roots) <= Len(dag.fn_)

-----------------------------------------------------------------------------
(* The union-find structure seen as a congruence relation.                 *)

ClassOf == [n \in Nodes |-> {m \in Nodes : Find(m) = Find(n)}]

Abstract == INSTANCE CongruentRelation WITH class <- ClassOf, answer <- verdict

\* Dag computes a congruence closure: every merge is of two terms that an
\* equality or the congruence of their arguments identifies, and Decision
\* answers only when nothing is left to identify.
ClosureOfCongruence == Abstract!Spec
=============================================================================

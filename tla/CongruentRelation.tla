------------------------- MODULE CongruentRelation -------------------------
(***************************************************************************)
(* What any congruence-closure procedure promises, whatever data structures *)
(* and order it uses: it only ever identifies two terms that an equality or *)
(* the congruence of their arguments makes equal, and it answers once there *)
(* is nothing left to identify.                                             *)
(***************************************************************************)
EXTENDS Integers, Sequences

CONSTANT Dags

VARIABLES
  dag,     \* the terms and constraints asked
  class,   \* class[n]: the set of terms identified with n
  answer   \* "none", "SAT" or "UNSAT"

Nodes == 1..Len(dag.fn_)

Init ==
  /\ dag \in Dags
  /\ class = [n \in Nodes |-> {n}]
  /\ answer = "none"

Asserted(m, n) ==
  \E k \in DOMAIN dag.equality_ : dag.equality_[k] = <<m, n>>

CongruentTerms(m, n) ==
  /\ dag.args_[m] # << >>
  /\ dag.fn_[m] = dag.fn_[n]
  /\ Len(dag.args_[m]) = Len(dag.args_[n])
  /\ \A k \in DOMAIN dag.args_[m] : class[dag.args_[m][k]] = class[dag.args_[n][k]]

Identify(m, n) ==
  /\ answer = "none"
  /\ Asserted(m, n) \/ CongruentTerms(m, n)
  /\ LET joined == class[m] \cup class[n]
     IN  class' = [p \in Nodes |-> IF p \in joined THEN joined ELSE class[p]]
  /\ UNCHANGED <<dag, answer>>

Closed ==
  \A m, n \in Nodes : Asserted(m, n) \/ CongruentTerms(m, n) => class[m] = class[n]

Consistent ==
  \A k \in DOMAIN dag.inequality_ :
    class[dag.inequality_[k][1]] # class[dag.inequality_[k][2]]

Answer ==
  /\ answer = "none"
  /\ Closed
  /\ answer' = IF Consistent THEN "SAT" ELSE "UNSAT"
  /\ UNCHANGED <<dag, class>>

Next == Answer \/ \E m, n \in Nodes : Identify(m, n)

Spec == Init /\ [][Next]_<<dag, class, answer>>
=============================================================================

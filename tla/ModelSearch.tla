----------------------------- MODULE ModelSearch -----------------------------
(***************************************************************************)
(* What any complete search for a model promises, whatever its strategy:    *)
(* starting from all total assignments it only ever discards assignments    *)
(* that do not satisfy the formula, it may settle on a set of models, and   *)
(* it answers once nothing or only models are left.                         *)
(***************************************************************************)
EXTENDS Integers

CONSTANTS
  Candidates,       \* the total assignments
  Formulas          \* the formulas that can be asked

CONSTANT IsModel(_, _)   \* IsModel(f, m): the assignment m satisfies f

VARIABLES
  formula,    \* the formula asked
  open,       \* the assignments not discarded yet
  answer      \* "none", "SATISFIED" or "UNSATISFIED"

Init ==
  /\ formula \in Formulas
  /\ open = Candidates
  /\ answer = "none"

OnlyModels(S) == \A m \in S : IsModel(formula, m)

Discard ==
  /\ answer = "none"
  /\ open' \subseteq open
  /\ \A m \in open \ open' : ~ IsModel(formula, m)
  /\ UNCHANGED <<formula, answer>>

Settle ==
  /\ answer = "none"
  /\ open' \subseteq open
  /\ open' # {}
  /\ OnlyModels(open')
  /\ UNCHANGED <<formula, answer>>

Answer ==
  /\ answer = "none"
  /\ \/ open = {} /\ answer' = "UNSATISFIED"
     \/ open # {} /\ OnlyModels(open) /\ answer' = "SATISFIED"
  /\ UNCHANGED <<formula, open>>

Next == Discard \/ Settle \/ Answer

Spec == Init /\ [][Next]_<<formula, open, answer>>
=============================================================================

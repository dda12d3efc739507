\* The data structures of the congruence closure, and the verdicts against all
\* interpretations, on tables of four to six terms.
CONSTANT Dags <- MCDags
SPECIFICATION Spec
INVARIANTS TypeOK LinksAcyclic ParentsAtRoot ParentsSorted CongruencesPending RecursionBounded
INVARIANTS MergesEntailed VerdictCorrect
PROPERTIES ClosureOfCongruence
\* main returns after it has printed the verdict
CHECK_DEADLOCK FALSE

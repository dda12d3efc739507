\* Texts that are not formulas.
CONSTANT Texts <- MCTexts
SPECIFICATION Spec
INVARIANTS RejectsTheRest
\* the program ends or goes on to build the Dag
CHECK_DEADLOCK FALSE

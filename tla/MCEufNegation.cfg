\* Formulas with negations, among the texts of MCEufParser.
CONSTANT Texts <- MCTexts
SPECIFICATION Spec
INVARIANTS AcceptsGrammar
\* the program ends or goes on to build the Dag
CHECK_DEADLOCK FALSE

\* All short texts, and formulas with one token too few or too many.
CONSTANT Texts <- MCTexts
SPECIFICATION Spec
INVARIANTS ReadsWhatIsWritten PrintsFormula
\* the program ends or goes on to build the Dag
CHECK_DEADLOCK FALSE

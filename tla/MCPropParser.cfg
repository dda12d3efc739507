\* All texts of at most four tokens, and longer ones.
CONSTANTS
  Texts <- MCTexts
  MaxHeight = 6
SPECIFICATION Spec
INVARIANTS ParsesFormula DumpsReadBack
\* yyparse returns or the program exits
CHECK_DEADLOCK FALSE

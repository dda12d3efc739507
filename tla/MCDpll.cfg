\* Three variables: every formula of at most three clauses over two of them, and
\* formulas with deep search trees, conflicts below conflicts.
CONSTANTS
  NVar = 3
  Formulas <- MCFormulas
SPECIFICATION FairSpec
INVARIANTS ErasesAsSimplify TypeOK Residual FrequenciesFresh DepthBounded PrintedModelSatisfies SearchSound VerdictCorrect
PROPERTIES Terminates AssignedForGood NeverDropsAModel
\* main returns after it has printed the verdict
CHECK_DEADLOCK FALSE

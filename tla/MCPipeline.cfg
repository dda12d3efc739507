\* Texts of up to fifteen operators.
CONSTANTS
  Texts <- MCTexts
  MaxHeight = 22
SPECIFICATION FairPipelineSpec
INVARIANTS VerdictOfFormula
PROPERTIES AlwaysAnswers
\* main returns after it has printed the verdict
CHECK_DEADLOCK FALSE

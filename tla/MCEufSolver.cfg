\* All formulas of two atoms over few terms, and those of the test directory.
CONSTANT Asts <- MCAsts
SPECIFICATION FairSolverSpec
INVARIANTS TypeOK TermsShared ConstraintsGathered AbortsOnMissMatch HandsOverDag PrintsVerdict
PROPERTIES AlwaysAnswers
\* main returns after it has printed the verdict
CHECK_DEADLOCK FALSE

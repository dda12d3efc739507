\* Formulas of up to five operators.
CONSTANTS
  Asts <- MCFormulas
  MaxHeight = 16
SPECIFICATION FairSpec
INVARIANTS TypeOK DefinitionsKept DimacsWellFormed ModelsPreserved
PROPERTIES AlwaysWrites
\* main returns after it has written the file
CHECK_DEADLOCK FALSE

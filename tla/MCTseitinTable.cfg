\* The size of the variable table.
CONSTANTS
  Asts <- MCFormulas
  MaxHeight = 16
SPECIFICATION FairSpec
INVARIANTS VarListLongEnough
\* main returns after it has written the file
CHECK_DEADLOCK FALSE

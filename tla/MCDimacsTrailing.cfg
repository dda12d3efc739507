\* Files of few lines, and a size_t of four bits.
CONSTANTS
  Files <- MCFiles
  SizeMod = 16
SPECIFICATION Spec
INVARIANT ReadsWellFormed
\* main ends after the formula has been constructed
CHECK_DEADLOCK FALSE

SPECIFICATION Spec
CONSTANTS
  Idents <- MCIdents
  Ints <- MCInts
  Lits <- MCLits
  Files <- MCFiles
  MaxErrors = 2
INVARIANTS
  ReadsBack
  AnErrorCostsOnePart
PROPERTY ParsingAdvances
CHECK_DEADLOCK FALSE

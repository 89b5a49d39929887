CONSTANTS
  Bytes = {"letter", "newline", "zero", "other"}
  MaxLen = 7
  MaxBytes = 6
  Chunk = 3
  MinLens = {1, 2, 3}
  MaxStrings = {0, 1, 2, 5}
CHECK_DEADLOCK FALSE
SPECIFICATION Spec
INVARIANTS
  ExtractorsAreReference
  ModuleFindsPieces

CONSTANTS
  FIRST = 3
  FILEMAX = 5
  MAXFILE = 6
  Names = {a, b}
  MAXINODE = 2
  MAXWRITE = 2
SPECIFICATION Spec
INVARIANTS SameFiles NothingLost
PROPERTIES SameReturns
SYMMETRY Permuted
CHECK_DEADLOCK FALSE

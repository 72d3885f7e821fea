CONSTANTS
  BYTE = 16
  FILEMAX = 4
  HDR = 3
  FENT = 2
  Symbols <- MCSymbols
  Objects <- MCObjects
SPECIFICATION Spec
INVARIANTS IndexConsistent ExtractFaithful
PROPERTY ImplementsLibrary

CONSTANTS
  BYTE = 16
  FILEMAX = 4
  HDR = 3
  FENT = 2
  Symbols <- MCSymbols
  Objects <- FourModules
SPECIFICATION Spec
INVARIANT TableFits

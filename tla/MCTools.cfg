CONSTANTS
  BYTE = 16
  DATMAX = 8
  FILEMAX = 4
  STACKMAX = 5
  Symbols <- MCSymbols
  Inputs <- MCInputs
  Programs <- MCPrograms
  JUNK <- MCJunk
  Fold <- MCFold
  Alu <- MCAlu
SPECIFICATION ToolsSpec
INVARIANTS AssemblerTypeOK PlacesAgree StackBalanced ImageMeans AssembledLinks
CHECK_DEADLOCK FALSE

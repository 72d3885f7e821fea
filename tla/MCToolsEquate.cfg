CONSTANTS
  BYTE = 16
  DATMAX = 8
  FILEMAX = 4
  STACKMAX = 5
  Symbols <- MCSymbols
  Inputs <- MCInputs
  Programs <- EquatePrograms
  JUNK <- MCJunk
  Fold <- MCFold
  Alu <- MCAlu
SPECIFICATION ToolsSpec
INVARIANT ImageMeans
CHECK_DEADLOCK FALSE

CONSTANTS
  BYTE = 16
  FILEMAX = 6
  STACKMAX = 3
  Symbols <- MCSymbols
  Inputs <- MCInputs
  Alu <- MCAlu
SPECIFICATION FairSpec
INVARIANTS LibraryClosed PullsNeeded CleanExit InOwnSegment CursorFollows ImageFaithful
PROPERTIES Terminates
CHECK_DEADLOCK FALSE

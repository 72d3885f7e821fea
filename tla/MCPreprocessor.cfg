CONSTANTS
  MACMAX = 3
  MACQMAX = 6
  Idents <- MCIdents
  Others <- MCOthers
  Files <- MCFiles
  Sources <- MCSources
SPECIFICATION FairSpec
INVARIANT TypeOK
INVARIANT SkipExact
INVARIANT SamePasses
PROPERTY MacroStable
PROPERTY Terminates
CHECK_DEADLOCK FALSE

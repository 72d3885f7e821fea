CONSTANTS
  NAMEMAX = 7
  Chars <- MCChars
  RESERVED <- MCReserved
  Idents <- MCIdents
SPECIFICATION FairSpec
INVARIANTS TypeOK UniqueValue RoundTrip OverflowOnlyWhenFull
PROPERTIES ValueStable CallEnds
CHECK_DEADLOCK FALSE

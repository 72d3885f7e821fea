CONSTANTS
  BYTE = 4
  BUFMAX = 2
  Bytes = {b1, b2}
  ZERO = z
  JUNK = junk
  EOF = eof
  NONE = none
  MAXLEN = 5
  SeekOK <- SeekInInput
SPECIFICATION FairSpec
INVARIANTS FilposExact ReadsFile
PROPERTIES IsFile SeekReturns

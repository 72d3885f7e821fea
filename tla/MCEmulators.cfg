CONSTANTS
  BYTE = 16
  NREG = 4
  INTBITS = 16
  Bits <- MCBits
  Service <- MCService
  Invocations <- MCInvocations
SPECIFICATION Spec
INVARIANTS Lockstep PairRestores ArgsInPlace
CHECK_DEADLOCK FALSE

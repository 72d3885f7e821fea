CONSTANTS
  BYTE = 32
  NREG = 11
  INTBITS = 20
  SYMMAX = 14
  SWMAX = 6
  Fuel = 400
  Bits <- MCBits
  Calc <- MCCalc
  Programs <- MCPrograms
SPECIFICATION CompilerSpec
INVARIANTS RegistersReleased LabelsOnce CompiledMeans CallerKeeps
CHECK_DEADLOCK FALSE

\* StateGen::get(cs, cfg, true): every call returns.
CONSTANTS
  AddrMod = 16
  Align = 4
  Headroom = 4
  Word = 2
  LowByte = 8
  MaxMemory = 8
  MaxAttempts = 2
  StackSize = 4
  HeapBase = 8
  RspValues = {8, 12}
  AllowUnaligned = FALSE
  Code <- MCCode
  Inputs <- MCInputs
  Rnd = Rnd
  None = None
SPECIFICATION Spec
INVARIANTS TypeOK
PROPERTIES GetTerminates
CHECK_DEADLOCK FALSE

\* Both sides' CellMemories against the flat-memory specification.
CONSTANTS
  AddrMod = 16
  Guard = 2
  CellSizes <- MCCellSizes
  Lines <- MCLines
SPECIFICATION Spec
INVARIANT TypeOK
PROPERTY CellRefinement
\* build_circuit stops after the last line.
CHECK_DEADLOCK FALSE

\* Three cells: a cell that misses the flush another cell absorbed keeps a stale cache.
CONSTANTS
  NumAccesses = 3
  NumCells = 3
  AddrMod <- MCAddrMod
  MaxSize <- MCMaxSize
  MaxOffset <- MCMaxOffset
SPECIFICATION Spec
PROPERTY FlatRefinement
\* generate_constraints_given_cells returns once every access is replayed.
CHECK_DEADLOCK FALSE

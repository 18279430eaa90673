\* Two cells: the cache protocol against the flat-memory specification.
CONSTANTS
  NumAccesses = 3
  NumCells = 2
  AddrMod <- MCAddrMod
  MaxSize <- MCMaxSize
  MaxOffset <- MCMaxOffset
SPECIFICATION Spec
INVARIANT TypeOK
PROPERTY FlatRefinement
\* generate_constraints_given_cells returns once every access is replayed.
CHECK_DEADLOCK FALSE

\* Offset discovery, cell enumeration and the non-overlap check, with solver
\* errors at the two sites that test has_error().
CONSTANTS
  N = 3
  MaxDisp = 1
  AddrMod = 16
  NoRel = NoRel
  Regs <- MCRegs
  Sizes <- MCSizes
  Assumptions <- MCAssumptions
  SampleEnvs <- MCSampleEnvs
  FallibleSites <- MCFallible
SPECIFICATION Spec
INVARIANT TypeOK
INVARIANT CellAccounting
INVARIANT AddressesMatchCells
INVARIANT NoOverlapSound
\* generate_constraints returns after choosing a path.
CHECK_DEADLOCK FALSE

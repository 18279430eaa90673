\* An assumption that pins a run across the top of the address space: the
\* unsigned range comparison of check_nonoverlapping.
CONSTANTS
  N = 3
  MaxDisp = 1
  AddrMod = 16
  NoRel = NoRel
  Regs <- MCRegs
  Sizes <- MCSizes
  Assumptions <- MCWrapAssumptions
  SampleEnvs <- MCSampleEnvs
  FallibleSites <- MCFallible
SPECIFICATION Spec
INVARIANT NoOverlapSound
\* generate_constraints returns after choosing a path.
CHECK_DEADLOCK FALSE

\* Calls of check() by a caller that passes fresh invariant objects.
CONSTANTS
  Objs <- MCObjs
  MaxChecks = 2
  SharedInvariants = FALSE
  FallibleSites <- MCFallible
  CheckCegs = TRUE
  None = None
SPECIFICATION Spec
INVARIANT TypeOK
INVARIANT Soundness
INVARIANT CegGenuine
\* The caller stops after MaxChecks calls.
CHECK_DEADLOCK FALSE

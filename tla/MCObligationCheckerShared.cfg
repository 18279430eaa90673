\* Calls of check() by a caller that reuses its invariant objects.
CONSTANTS
  Objs <- MCObjs
  MaxChecks = 2
  SharedInvariants = TRUE
  FallibleSites <- MCFallible
  CheckCegs = TRUE
  None = None
SPECIFICATION Spec
INVARIANT Soundness
\* The caller stops after MaxChecks calls.
CHECK_DEADLOCK FALSE

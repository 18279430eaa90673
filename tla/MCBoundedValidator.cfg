\* verify() over two calls: soundness over stale paths_ and testcases.
CONSTANTS
  p1 = p1
  p2 = p2
  Paths <- MCPaths
  Programs <- MCPrograms
  NumInputs = 2
  MaxCalls = 2
  Beyond = Beyond
  None = None
SPECIFICATION Spec
INVARIANTS TypeOK VerifySound
CHECK_DEADLOCK FALSE

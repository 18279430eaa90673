\* compute_failure_edges: failure edges cover what the edges leave unchecked.
CONSTANTS
  Target <- LoopCfg
  Rewrite <- LoopCfg
  FailBlock = 9
  CandidateEdges <- MCCandidateEdges
  Tests <- MCTests
  MaxLen = 6
SPECIFICATION Spec
INVARIANTS FailureEdgesCover

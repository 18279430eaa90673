\* ProgramAlignmentAutomata: edges added, simplified, pruned, tested and
\* given failure edges in any order.
CONSTANTS
  Target <- LoopCfg
  Rewrite <- LoopCfg
  FailBlock = 9
  CandidateEdges <- MCCandidateEdges
  Tests <- MCTests
  MaxLen = 6
SPECIFICATION Spec
INVARIANTS TypeOK StateDataAligned CycleTestsAgree
PROPERTIES SimplifyKeepsAccepted

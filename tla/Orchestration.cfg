SPECIFICATION FairSpec
CONSTANTS
  a = a
  b = b
  c = c
  Nodes = {a, b, c}
  Workflows <- MCWorkflows
  Approvals = {b}
  Cost <- MCCost
  DefaultHard = 10
  Callers = {u, v}
  None = None
  MaxCalls = 2
CHECK_DEADLOCK FALSE
INVARIANTS
  TypeOK
  DependenciesFirst
  CompletedMeansAllRan
  OverspendIsOneLayer
  ApprovalGate
PROPERTY
  RunEnds

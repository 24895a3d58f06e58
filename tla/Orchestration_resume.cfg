SPECIFICATION FairSpec
CONSTANTS
  a = a
  b = b
  c = c
  Nodes = {a, b, c}
  Workflows <- MCChain
  Approvals = {b}
  Cost <- MCCost
  DefaultHard = 10
  Callers = {u}
  None = None
  MaxCalls = 1
CHECK_DEADLOCK FALSE
PROPERTY
  RunningGetsOn

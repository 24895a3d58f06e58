SPECIFICATION Spec
CONSTANTS
  c1 = c1
  m1 = m1
  c2 = c2
  Redemptions = {c1, m1, c2}
  Kind <- MCCash
  Amounts = {1, 2}
  Opening = 3
  MinPayout = 2
  Sessions = {s1, s2}
  None = None
  Ops = {"create", "payout"}
  MaxCalls = 3
  MaxEarnings = 0
  MaxCrashes = 0
CHECK_DEADLOCK FALSE
INVARIANT
  NoDoubleSpend

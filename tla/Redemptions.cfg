SPECIFICATION Spec
CONSTANTS
  c1 = c1
  m1 = m1
  c2 = c2
  Redemptions = {c1, m1, c2}
  Kind <- MCKind
  Amounts = {1, 2}
  Opening = 3
  MinPayout = 2
  Sessions = {s1, s2}
  None = None
  Ops = {"create", "payout", "cancel", "approve", "batch", "reject"}
  MaxCalls = 4
  MaxEarnings = 1
  MaxCrashes = 1
CHECK_DEADLOCK FALSE
INVARIANTS
  TypeOK
  BalanceMatchesEntries
  CreditsMatch
  HoldIsFresh
  StatusHasEffect

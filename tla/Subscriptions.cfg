SPECIFICATION FairSpec
CONSTANTS
  FreePlans = {free}
  PaidPlans = {pro}
  Labels = {TRUE, FALSE}
  Sessions = {s1, s2}
  None = None
  MaxCheckouts = 2
  MaxChanges = 3
  MaxCalls = 2
  MaxCrashes = 1
  MaxRepeats = 1
CHECK_DEADLOCK FALSE
INVARIANTS
  TypeOK
  PaidPlanWasPaid
  LinkedToItsPlan
PROPERTIES
  CancelledStays
  Activated

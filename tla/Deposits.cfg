SPECIFICATION FairSpec
CONSTANTS
  Deposits = {d1}
  Sessions = {s1, s2, s3}
  None = None
  MaxCrashes = 2
INVARIANTS
  TypeOK
  CreditedOnce
PROPERTIES
  CompletedIsFinal
  PaidIsCredited

SPECIFICATION Spec
CONSTANTS
  Bought = {t1, t2}
  Express = {x1}
  Sessions = {s1, s2}
  None = None
  Opening = 1
  MaxCalls = 6
  MaxCrashes = 1
CHECK_DEADLOCK FALSE
INVARIANTS
  TypeOK
  CompletedIsPaid
  OrdersArePaid
  ChargesAreCounted

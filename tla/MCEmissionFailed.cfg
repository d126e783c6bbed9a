CONSTANTS
  None = None
  a1 = a1
  a2 = a2
  b1 = b1
  first = first
  second = second
  Attempt = {a1}
  Sale = {first}
  SaleOf <- MCSaleOf
  Keyed = {a1}
  MaxFolio = 1
  MaxTries = 2
SPECIFICATION Spec
INVARIANT FailedNeverArrived
CHECK_DEADLOCK FALSE

CONSTANTS
  None = None
  a1 = a1
  a2 = a2
  b1 = b1
  first = first
  second = second
  Attempt = {a1, a2, b1}
  Sale = {first, second}
  SaleOf <- MCSaleOf
  Keyed = {a1, a2}
  MaxFolio = 2
  MaxTries = 2
SPECIFICATION FairSpec
INVARIANTS
  TypeOK
  KeyEmitsOnce
  
  OrphansComeFromCrashes
PROPERTIES
  DrawsFromDispenser
  KeepsPromise
  AttemptsEnd
CHECK_DEADLOCK FALSE

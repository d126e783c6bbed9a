CONSTANTS
  None = None
  r1 = r1
  r2 = r2
  r3 = r3
  old = old
  cert = cert
  prod = prod
  clash = clash
  twin = twin
  Call = {r1}
  Caf = {old, prod, twin}
  Legacy = {old}
  FolioFrom <- MCFrom
  FolioTo <- MCTo
  CafEnv <- MCEnv
  ExpiresOn <- MCExpires
  MaxDay = 1
SPECIFICATION Spec
INVARIANT Disjoint
CHECK_DEADLOCK FALSE

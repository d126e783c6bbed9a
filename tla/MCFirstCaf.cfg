CONSTANTS
  None = None
  r1 = r1
  r2 = r2
  r3 = r3
  old = old
  cert = cert
  prod = prod
  clash = clash
  twin = twin
  Call = {r1, r2}
  Caf = {clash, prod}
  Legacy = {}
  FolioFrom <- MCFrom
  FolioTo <- MCTo
  CafEnv <- MCEnv
  ExpiresOn <- MCExpires
  MaxDay = 1
SPECIFICATION Spec
PROPERTY ImplementsDispenser
CHECK_DEADLOCK FALSE

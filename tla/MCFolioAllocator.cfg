CONSTANTS
  None = None
  r1 = r1
  r2 = r2
  r3 = r3
  old = old
  cert = cert
  prod = prod
  clash = clash
  twin = twin
  Call = {r1, r2, r3}
  Caf = {old, cert, prod, clash}
  Legacy = {old, cert}
  FolioFrom <- MCFrom
  FolioTo <- MCTo
  CafEnv <- MCEnv
  ExpiresOn <- MCExpires
  MaxDay = 1
SPECIFICATION FairSpec
INVARIANTS
  TypeOK
  NoConflict
  NoHoles
  ReportAgrees
PROPERTIES
  CountsDown
  SkippedIsReported
  CallsEnd
  ImplementsDispenser
CHECK_DEADLOCK FALSE

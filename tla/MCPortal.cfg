CONSTANTS
  u1 = u1
  u2 = u2
  u3 = u3
  w1 = w1
  w2 = w2
  t1 = t1
  t2 = t2
  t3 = t3
  p1 = p1
  p2 = p2
  User <- MCUser
  Seed = u1
  Request <- MCRequest
  Worker <- MCRequest
  MaxStep = 4
  MaxSecrets = 2
  MaxLogins = 2
  Role = {"superadmin", "operator"}
  MaxChanges = 5
  Thread = {t1, t2, t3}
  Process = {p1, p2}
  ProcessOf <- MCProcessOf
  MaxEvents = 2
  Window = 2
  MaxClock = 4
  MaxCalls = 5
SPECIFICATION MCSpec
INVARIANTS
  SuperadminRemains
  CodeOpensOnce
  RecoveryBounded
  EnabledIsConfirmed
  
CHECK_DEADLOCK FALSE

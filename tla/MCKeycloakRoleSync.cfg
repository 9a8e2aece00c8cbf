SPECIFICATION FairSpec
CONSTANTS
  m1 = m1
  m2 = m2
  user = user
  cashier = cashier
  manager = manager
  Members = {m1, m2}
  UserOf <- SameUser
  Roles = {cashier, manager}
  Baseline <- MCBaseline
  InitialRole <- OneMembership
  Editors = {e1}
  Workers = {w1}
  MaxChanges = 2
  WorkersCrash = TRUE
  None = None
CHECK_DEADLOCK FALSE
INVARIANTS
  TypeOK
  NewestJobIsCurrent
PROPERTIES
  SuccessMeansMapped
  NoGapInRoles
  EveryJobSettles

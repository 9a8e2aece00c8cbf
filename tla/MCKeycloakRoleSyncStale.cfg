SPECIFICATION Spec
CONSTANTS
  m1 = m1
  m2 = m2
  user = user
  cashier = cashier
  manager = manager
  Members = {m1}
  UserOf <- SameUser
  Roles = {cashier, manager}
  Baseline <- MCBaseline
  InitialRole <- OneMembership
  Editors = {e1}
  Workers = {w1}
  MaxChanges = 2
  WorkersCrash = FALSE
  None = None
CHECK_DEADLOCK FALSE
INVARIANTS
  SettledIsInStep

SPECIFICATION Spec
CONSTANTS
  Ops = {1}
  Passes = {tab1, tab2}
  Revocable = {1}
  Runs = {run1, run2}
  RetryLimit = 2
  None = None
SYMMETRY RunSymmetry
INVARIANTS
  TypeOK
  NothingLost
  SyncingHasOwner

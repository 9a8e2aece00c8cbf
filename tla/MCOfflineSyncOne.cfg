SPECIFICATION FairSpec
CONSTANTS
  Ops = {1}
  Passes = {tab1}
  Revocable = {1}
  Runs = {run1, run2}
  RetryLimit = 2
  None = None
INVARIANTS
  DeniedIsNotPushed
PROPERTIES
  SettledIsFinal
  EveryOperationSettles

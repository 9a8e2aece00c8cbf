SPECIFICATION FairSpec
CONSTANTS
  Ops = {1}
  Passes = {tab1}
  Revocable = {}
  Runs = {run1}
  RetryLimit = 2
  None = None
PROPERTIES
  EveryChangeIsPushed

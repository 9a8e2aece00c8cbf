SPECIFICATION FairSpec
CONSTANTS
  Products = {1, 2, 3}
  Tracked = {1, 2}
  sale1 = sale1
  sale2 = sale2
  damaged2 = damaged2
  purchase3 = purchase3
  Sales = {sale1, sale2}
  Movements = {damaged2, purchase3}
  Delta <- MCDelta
  Opening <- MCOpening
  InitialPolicy <- MixedPolicy
  Handlers = {h1, h2}
  Editors = {tab1}
  Edited = {2}
  None = None
INVARIANTS
  TypeOK
  LedgerAccountsForStock
  AppliedOnce
  SaleIsAllOrNothing
  LocksInOrder
  NoDeadlock
  AcceptedHasEffect
PROPERTIES
  NoMovementOnDisabled
  ReplayIsNotRefused
  ImplementsInventory
  EveryAttemptEnds

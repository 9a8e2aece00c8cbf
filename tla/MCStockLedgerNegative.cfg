SPECIFICATION Spec
CONSTANTS
  Products = {1}
  Tracked = {1}
  sale1 = sale1
  sale2 = sale2
  damaged2 = damaged2
  purchase3 = purchase3
  Sales = {sale1, sale2}
  Movements = {}
  Delta <- MCDelta
  Opening <- MCOpening
  InitialPolicy <- NegativePolicy
  Handlers = {h1}
  Editors = {}
  Edited = {}
  None = None
PROPERTIES
  AllowNegativePermits

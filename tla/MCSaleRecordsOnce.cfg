CONSTANTS
  MaxSales = 1
  MaxCustomers = 1
  MaxLoads = 0
SPECIFICATION Spec
INVARIANT ShownOnce
CHECK_DEADLOCK FALSE

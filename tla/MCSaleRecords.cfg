CONSTANTS
  MaxSales = 1
  MaxCustomers = 2
  MaxLoads = 1
SPECIFICATION Spec
INVARIANTS TypeOK RecordedSaleIsKept OfflineSaleIsListed OwnCustomersAreListed
CHECK_DEADLOCK FALSE

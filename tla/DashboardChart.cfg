CONSTANTS
  Tenant = {tenant1, tenant2}
  Article = {article1}
  Reordered = {article1}
  Shelf = {shelf1}
  DefaultShelf = shelf1
  ChartDays = 2
  ReorderPoint = 1
  TargetStock = 2
  LastSalesDay = 3
  MaxUnits = 2
  MaxUnplanned = 1
SPECIFICATION LedgerSpec
CHECK_DEADLOCK FALSE
INVARIANT ChartAgreesWithLedger

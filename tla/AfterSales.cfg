CONSTANTS
  o1 = o1
  r1 = r1
  r2 = r2
  main = main
  ProductCount = 1
  Location <- OneLocation
  Catalogue <- FullCatalogue
  MaxQuantity = 4
  Default = main
  MaxLine = 4
  Order <- OneOrder
  MaxAmount = 2
  Return <- TwoReturns
  Source <- Documented
  Expense <- NoExpenses
  Clerk <- NoClerks
  OtherIncome = OtherIncome
  MaxMoney = 1
  MaxEntries = 1
SPECIFICATION Spec
SYMMETRY Symmetry
CHECK_DEADLOCK FALSE
INVARIANTS
  ReturnedWithinSold
  FullReturnIsExact
  RefundsAreCovered
  BooksBalance
  GoodsConserved

CONSTANTS
  o1 = o1
  d1 = d1
  t1 = t1
  c1 = c1
  main = main
  shop = shop
  ProductCount = 2
  Location <- TwoLocations
  Catalogue <- DefaultCatalogue
  MaxQuantity = 2
  Default = main
  MaxLine = 1
  Order <- OneOrder
  MaxAmount = 0
  Repair <- OneRepair
  MaxCost = 0
  Transfer <- OneTransfer
  StockCount <- NoDocument
  MaxCount = 2
SPECIFICATION Spec
INVARIANTS
  TypeOK
  ReservedIsClaimed
  ClaimsHonoured
PROPERTY UnitsConserved

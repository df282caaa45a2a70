CONSTANTS
  o1 = o1
  d1 = d1
  t1 = t1
  c1 = c1
  main = main
  shop = shop
  ProductCount = 1
  Location <- OneLocation
  Catalogue <- DefaultCatalogue
  MaxQuantity = 1
  Default = main
  MaxLine = 1
  Order <- NoDocument
  MaxAmount = 1
  Repair <- OneRepair
  MaxCost = 1
  Transfer <- NoDocument
  StockCount <- NoDocument
  MaxCount = 1
SPECIFICATION Spec
INVARIANT CompletedIsPriced

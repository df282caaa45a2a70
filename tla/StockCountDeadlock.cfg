CONSTANTS
  t1 = t1
  t2 = t2
  main = main
  ProductCount = 2
  Location <- OneLocation
  Catalogue <- FullCatalogue
  MaxQuantity = 2
  Request <- CountRequests
  Tx <- TwoSessions
  NoRequest = NoRequest
  MaxLedger = 2
SPECIFICATION Spec
INVARIANT NoDeadlock

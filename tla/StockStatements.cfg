CONSTANTS
  t1 = t1
  t2 = t2
  main = main
  ProductCount = 2
  Location <- OneLocation
  Catalogue <- CatalogueWithGap
  MaxQuantity = 2
  Request <- EveryKind
  Tx <- TwoSessions
  NoRequest = NoRequest
  MaxLedger = 1
SPECIFICATION FairSpec
INVARIANTS
  TypeOK
  NeverOversold
  NoLostUpdate
  LedgerReconciles
  NoDeadlock
PROPERTIES
  Atomic
  EveryTransactionEnds

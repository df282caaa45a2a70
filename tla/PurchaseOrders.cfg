CONSTANTS
  d1 = d1
  d2 = d2
  ProductCount = 2
  MaxQuantity = 2
  Delivery <- TwoDeliveries
  ReceiptLines <- ShortReceipts
SPECIFICATION Spec
SYMMETRY Symmetry
CHECK_DEADLOCK FALSE
INVARIANTS
  TypeOK
  NeverOverReceived
  ReceivedIsComplete
PROPERTY ReceivedIsFinal

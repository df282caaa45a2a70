------------------------- MODULE MCPurchaseOrders -------------------------
(***************************************************************************)
(* Instances of PurchaseOrders for TLC: two deliveries, two products.      *)
(***************************************************************************)
EXTENDS PurchaseOrders, TLC

CONSTANTS d1, d2

TwoDeliveries == {d1, d2}
Symmetry == Permutations(TwoDeliveries)

Line == [product : Product, quantity : 1..MaxQuantity]

(* Receipts of one or two lines, in either order, repetitions included.    *)
ShortReceipts == {<<l>> : l \in Line} \cup {<<k, l>> : k \in Line, l \in Line}

=============================================================================

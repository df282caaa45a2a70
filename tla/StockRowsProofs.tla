-------------------------- MODULE StockRowsProofs --------------------------
(***************************************************************************)
(* What one matching UPDATE does to a row of the Inventory table.          *)
(***************************************************************************)
EXTENDS StockRows, TLAPS

(* A matching UPDATE leaves a row of the table's type.                     *)
LEMMA AfterIsRow ==
  ASSUME NEW kind \in Kind, NEW row \in StockRow, NEW n \in Int,
         kind \notin SignedKind => n > 0,
         Permits(kind, row, n)
  PROVE  After(kind, row, n) \in StockRow
  BY RowsAssumption
  DEF Kind, SignedKind, StockRow, Permits, After, QuantityDelta, ReservedDelta

(* A matching UPDATE never takes the reservation past the quantity.        *)
LEMMA AfterWithinQuantity ==
  ASSUME NEW kind \in Kind, NEW row \in StockRow, NEW n \in Int,
         kind \notin SignedKind => n > 0,
         Permits(kind, row, n),
         row.reserved <= row.quantity
  PROVE  After(kind, row, n).reserved <= After(kind, row, n).quantity
  BY RowsAssumption
  DEF Kind, SignedKind, StockRow, Permits, After, QuantityDelta, ReservedDelta

=============================================================================

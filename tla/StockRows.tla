----------------------------- MODULE StockRows -----------------------------
(***************************************************************************)
(* One row of the Inventory table, and what each kind of stock statement   *)
(* does to it.  These are the four steps of                                *)
(* common/inventory/stock-operations.ts - reserve, consume, release,       *)
(* restore - the arrival of a transfer, which first inserts the rows it    *)
(* needs, and the signed adjustment shared by StockService.adjust and by   *)
(* the approval of a stock count.  Every kind is one conditional UPDATE:   *)
(* a WHERE clause (Permits) and a SET clause (After).                      *)
(***************************************************************************)
EXTENDS Integers

CONSTANTS
  ProductCount,  \* products are numbered in the code-unit order of their ids
  Location,      \* the organization's locations
  Catalogue,     \* the rows that products.create has inserted
  MaxQuantity    \* largest value of the int4 quantity column

Product == 1..ProductCount

(* The keys a row of the table can have.                                   *)
Row == Product \X Location

ASSUME RowsAssumption ==
  /\ ProductCount \in Nat
  /\ MaxQuantity \in Nat
  /\ Catalogue \subseteq Row

(* "arrive" is the completion of a transfer, "adjust" the manual           *)
(* adjustment of one product, "count" the variances of a stock count; the  *)
(* last two carry a signed number of units.                                *)
Kind == {"reserve", "consume", "release", "restore", "arrive", "adjust", "count"}
SignedKind == {"adjust", "count"}

(* Kinds whose lines are not put in product order first.                   *)
UnorderedKind == {"arrive", "count"}

(* A request names each product at most once, by a positive quantity - or  *)
(* by a signed, non-zero one for the two signed kinds.  Documents merge or *)
(* refuse lines that repeat a product, but for a goods receipt: it may     *)
(* restore a product in two parts, which is here one part as large (the    *)
(* row is locked from the first to the second, and the second can only be  *)
(* refused with the first).                                                *)
WellFormed(req) ==
  /\ req.kind \in Kind
  /\ req.location \in Location
  /\ DOMAIN req.lines \subseteq Product
  /\ \A p \in DOMAIN req.lines :
       /\ req.lines[p] \in Int \ {0}
       /\ req.kind \notin SignedKind => req.lines[p] > 0
  /\ req.kind = "adjust" => \E p \in Product : DOMAIN req.lines = {p}

(* The rows a request touches.                                             *)
Targets(req) == {<<p, req.location>> : p \in DOMAIN req.lines}

StockRow == [quantity : 0..MaxQuantity, reserved : Nat]

(* A row as products.create and ensureInventoryRows insert it; it also     *)
(* stands for the row that is not there.                                   *)
EmptyRow == [quantity |-> 0, reserved |-> 0]

(* Every statement but the upsert of an arrival needs the row to exist.    *)
FindsRow(kind, r, present) == kind = "arrive" \/ r \in present

QuantityDelta(kind, n) ==
  CASE kind = "consume" -> -n
    [] kind \in {"restore", "arrive", "adjust", "count"} -> n
    [] OTHER -> 0

ReservedDelta(kind, n) ==
  CASE kind = "reserve" -> n
    [] kind \in {"consume", "release"} -> -n
    [] OTHER -> 0

(* The SET clause.                                                         *)
After(kind, row, n) ==
  [quantity |-> row.quantity + QuantityDelta(kind, n),
   reserved |-> row.reserved + ReservedDelta(kind, n)]

(* Mutants: consume trusts its caller to hold the units reserved; an       *)
(* adjustment is checked against zero instead of what is reserved.         *)
PermitsUnreserved(kind, row, n) ==
  /\ kind = "reserve" => row.quantity - row.reserved >= n
  /\ kind = "consume" => row.quantity >= n
  /\ kind = "release" => row.reserved >= n
  /\ kind \in SignedKind => row.quantity + n >= row.reserved
  /\ row.quantity + QuantityDelta(kind, n) <= MaxQuantity

PermitsNonNegative(kind, row, n) ==
  /\ kind = "reserve" => row.quantity - row.reserved >= n
  /\ kind = "consume" => row.quantity >= n /\ row.reserved >= n
  /\ kind = "release" => row.reserved >= n
  /\ row.quantity + QuantityDelta(kind, n) \in 0..MaxQuantity

(* The WHERE clause, and the range of the column: an UPDATE past it is     *)
(* refused by the database.                                                *)
Permits(kind, row, n) ==
  /\ \/ kind = "reserve" /\ row.quantity - row.reserved >= n
     \/ kind = "consume" /\ row.quantity >= n /\ row.reserved >= n
     \/ kind = "release" /\ row.reserved >= n
     \/ kind \in {"restore", "arrive"}
     \/ kind \in SignedKind /\ row.quantity + n >= row.reserved
  /\ row.quantity + QuantityDelta(kind, n) <= MaxQuantity

(* Mutant: the variance of a count is applied and not written down.        *)
MovesUncounted(kind) == kind \notin {"reserve", "release", "count"}

(* Reserving and releasing leave the goods on the shelf: no movement.      *)
Moves(kind) == kind \notin {"reserve", "release"}

(* The StockMovement, computed as the code does: the new quantity is the   *)
(* one the UPDATE returned, the previous one is derived from it.           *)
Movement(kind, n, returned) ==
  [kind     |-> kind,
   quantity |-> IF n < 0 THEN -n ELSE n,
   previous |-> returned - QuantityDelta(kind, n),
   new      |-> returned]

=============================================================================

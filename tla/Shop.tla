-------------------------------- MODULE Shop --------------------------------
(***************************************************************************)
(* The documents of the shop over the one inventory they share.  They      *)
(* never look at each other: a reservation is a number in a row, without   *)
(* the name of the document that made it, and it is only the discipline of *)
(* every document that makes the numbers add up.                           *)
(***************************************************************************)
EXTENDS Orders, Repairs, StockTransfers, StockCounts, FiniteSets

ASSUME ShopAssumption ==
  /\ Order \cap Repair = {}
  /\ Order \cap Transfer = {}
  /\ Repair \cap Transfer = {}
  /\ IsFiniteSet(Order) /\ IsFiniteSet(Repair) /\ IsFiniteSet(Transfer)
  /\ IsFiniteSet(Location)

vars == <<stockVars, orders, repairVars, transfers, countVars>>

Init ==
  /\ StockInit
  /\ OrdersInit
  /\ RepairsInit
  /\ TransfersInit
  /\ CountsInit

(* StockService.adjust.                                                    *)
Adjust(p, delta) == Apply(Ask("adjust", Default, OneLine(p, delta)))

(* Goods put on the shelf by a goods receipt or a completed return.        *)
Restock(p, n) == Apply(Ask("restore", Default, OneLine(p, n)))

StockNext ==
  \E p \in Product, n \in 1..MaxLine : Adjust(p, n) \/ Adjust(p, -n) \/ Restock(p, n)

(* What changes the shelves without claiming units first.                  *)
FloorNext ==
  \/ CountsNext
  \/ StockNext /\ UNCHANGED countVars

Next ==
  \/ OrdersNext /\ UNCHANGED <<repairVars, transfers, countVars>>
  \/ RepairsNext /\ UNCHANGED <<orders, transfers, countVars>>
  \/ TransfersNext /\ UNCHANGED <<orders, repairVars, countVars>>
  \/ FloorNext /\ UNCHANGED <<orders, repairVars, transfers>>

Spec == Init /\ [][Next]_vars

----------------------------------------------------------------------------
(* Properties.                                                             *)

TypeOK ==
  /\ inventory \in [Row -> StockRow]
  /\ rows \subseteq Row
  /\ orders \in [Order -> OrderRecord]
  /\ repairs \in [Repair -> RepairRecord]
  /\ completing \subseteq Repair
  /\ transfers \in [Transfer -> TransferRecord]
  /\ counts \in [StockCount -> CountRecord]
  /\ submitting \subseteq StockCount

Document == Order \cup Repair \cup Transfer

Holds(d, r) ==
  IF d \in Order THEN OrderHolds(d, r)
  ELSE IF d \in Repair THEN RepairHolds(d, r)
  ELSE TransferHolds(d, r)

(* What is reserved in a row is exactly what the open documents have       *)
(* claimed there, unit for unit: no document loses, leaks or doubles a     *)
(* claim, through edits, cancellations and completions in any order.       *)
Claims(r) == {c \in Document \X (1..MaxLine) : c[2] <= Holds(c[1], r)}

ReservedIsClaimed == \A r \in Row : inventory[r].reserved = Cardinality(Claims(r))

(* What a document has claimed it can always take, and always give back,   *)
(* whatever the others did meanwhile: the release that finds its           *)
(* reservation gone, "only reachable if the invariant is already broken",  *)
(* is never reached, and no confirmed sale, started repair or approved     *)
(* transfer is ever short of its units.                                    *)
Claimed(d, l) ==
  [p \in {q \in Product : Holds(d, <<q, l>>) > 0} |-> Holds(d, <<p, l>>)]

ClaimsHonoured ==
  \A d \in Document, l \in Location :
    /\ Accepts(Ask("consume", l, Claimed(d, l)))
    /\ Accepts(Ask("release", l, Claimed(d, l)))

(* A transfer neither creates nor destroys a unit: at each of its steps    *)
(* what lies on the shelves and what is on the road add up to the same,    *)
(* per product.                                                            *)
OnShelves(p) ==
  {u \in Location \X (1..MaxQuantity) : u[2] <= inventory[<<p, u[1]>>].quantity}

OnTheRoad(p) == {u \in Transfer \X (1..MaxLine) : u[2] <= InTransit(u[1], p)}

UnitsOf(p) == Cardinality(OnShelves(p)) + Cardinality(OnTheRoad(p))

UnitsConserved == [][transfers' # transfers => \A p \in Product : UnitsOf(p)' = UnitsOf(p)]_vars

(* No document collects more than it comes to, an order that was called    *)
(* off has collected nothing, and the payment status shown agrees with the *)
(* amounts, however payments, cancellations and edits interleave.          *)
MoneyIsSound ==
  /\ \A o \in Order :
       /\ orders[o].paid <= Total(orders[o])
       /\ orders[o].status = "CANCELLED" => orders[o].paid = 0
       /\ orders[o].paymentStatus = PaymentStatusFor(orders[o].paid, Total(orders[o]))
  /\ \A d \in Repair :
       repairs[d].paid > 0 => /\ repairs[d].status \in Payable
                              /\ repairs[d].paid <= repairs[d].finalCost

(* A count under review has a counted quantity for every line, and keeps   *)
(* it: approval never takes a line nobody counted for an empty shelf.      *)
ReviewIsComplete ==
  \A c \in StockCount :
    counts[c].status \in {"REVIEW", "APPROVED", "COMPLETED"} =>
      /\ DOMAIN counts[c].expected # {}
      /\ DOMAIN counts[c].counted = DOMAIN counts[c].expected

(* What the comment on submitCount says: a recount overwrites the previous *)
(* value while the count is still COUNTING, so what was put up for review  *)
(* is what is approved, and what is approved is what was applied.          *)
CountedIsFrozen ==
  [][\A c \in StockCount :
       counts[c].status \in {"REVIEW", "APPROVED", "COMPLETED"}
         => counts'[c].counted = counts[c].counted]_vars

(* What the comment in changeStatus says: a repair cannot be finished      *)
(* until somebody has said what it costs.                                  *)
CompletedIsPriced ==
  \A d \in Repair : repairs[d].status \in Payable => repairs[d].finalCost # NotSet

=============================================================================

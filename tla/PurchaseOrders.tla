-------------------------- MODULE PurchaseOrders --------------------------
(***************************************************************************)
(* One purchase order and the deliveries recorded against it               *)
(* (purchase-orders.service.ts).                                           *)
(*                                                                         *)
(* Every operation whose first statement takes the order's row lock is one *)
(* atomic action.  receiveGoods does not: it reads the status without a    *)
(* lock, claims its lines one UPDATE at a time, reads the lines back and   *)
(* writes the status last, so it is a process of four steps here.          *)
(***************************************************************************)
EXTENDS Integers, Sequences

CONSTANTS
  ProductCount,  \* products a line can name, one line per product
  MaxQuantity,   \* bound on the quantity of a line
  Delivery,      \* database sessions recording goods receipts
  ReceiptLines   \* the line lists a receipt may carry: <<[product, quantity], ...>>

Product == 1..ProductCount

ASSUME PurchaseOrdersAssumption ==
  /\ ProductCount \in Nat
  /\ MaxQuantity \in Nat \ {0}
  /\ ReceiptLines \subseteq Seq([product : Product, quantity : 1..MaxQuantity]) \ {<<>>}

VARIABLES
  status,    \* of the purchase order
  ordered,   \* per product, the quantity of its line; 0 when it has no line
  received,  \* per product, the committed receivedQuantity of its line
  receipts,  \* how many goods receipts are committed
  shelf,     \* per product, the units put on the shelf by restoreStock
  phase,     \* per delivery: "idle", "claiming" or "evaluated"
  lines,     \* per delivery, the lines it has still to claim
  claimed,   \* per delivery and product, the units claimed, not yet committed
  full       \* per delivery, its reading of whether everything has arrived

vars == <<status, ordered, received, receipts, shelf, phase, lines, claimed, full>>
orderVars == <<status, ordered, received, receipts, shelf>>
deliveryVars == <<phase, lines, claimed, full>>

Status == {"DRAFT", "APPROVED", "ORDERED", "PARTIALLY_RECEIVED", "RECEIVED", "CANCELLED"}
Receivable == {"ORDERED", "PARTIALLY_RECEIVED"}
Cancellable == {"DRAFT", "APPROVED", "ORDERED"}

None == [p \in Product |-> 0]

Init ==
  /\ status = "DRAFT"
  /\ ordered = None
  /\ received = None
  /\ receipts = 0
  /\ shelf = None
  /\ phase = [d \in Delivery |-> "idle"]
  /\ lines = [d \in Delivery |-> <<>>]
  /\ claimed = [d \in Delivery |-> None]
  /\ full = [d \in Delivery |-> FALSE]

----------------------------------------------------------------------------
(* The draft, and the state gates.                                         *)

(* Mutant: a product added twice makes the line longer.                    *)
AddToLine(p, n) ==
  /\ status = "DRAFT"
  /\ ordered' = [ordered EXCEPT ![p] = @ + n]
  /\ UNCHANGED <<status, received, receipts, shelf, deliveryVars>>

(* lockDraft, then insertItem; one line per product.                       *)
AddItem(p, n) ==
  /\ status = "DRAFT"
  /\ ordered[p] = 0
  /\ ordered' = [ordered EXCEPT ![p] = n]
  /\ UNCHANGED <<status, received, receipts, shelf, deliveryVars>>

UpdateItem(p, n) ==
  /\ status = "DRAFT"
  /\ ordered[p] > 0
  /\ ordered' = [ordered EXCEPT ![p] = n]
  /\ UNCHANGED <<status, received, receipts, shelf, deliveryVars>>

RemoveItem(p) ==
  /\ status = "DRAFT"
  /\ ordered[p] > 0
  /\ ordered' = [ordered EXCEPT ![p] = 0]
  /\ UNCHANGED <<status, received, receipts, shelf, deliveryVars>>

Transition(from, to) ==
  /\ status = from
  /\ status' = to
  /\ UNCHANGED <<ordered, received, receipts, shelf, deliveryVars>>

Approve == ordered # None /\ Transition("DRAFT", "APPROVED")

Order == Transition("APPROVED", "ORDERED")

(* The status is read, moved on by a conditional UPDATE, and the receipts  *)
(* are counted under the row lock that UPDATE took.  A delivery cannot     *)
(* commit under that lock, so the three reads agree on one instant; but a  *)
(* delivery that read the status earlier is not stopped.                   *)
Cancel ==
  /\ receipts = 0
  /\ \E from \in Cancellable : Transition(from, "CANCELLED")

----------------------------------------------------------------------------
(* receiveGoods.                                                           *)

(* The unlocked read of the status, and the input.                         *)
StartDelivery(d, input) ==
  /\ phase[d] = "idle"
  /\ status \in Receivable
  /\ phase' = [phase EXCEPT ![d] = "claiming"]
  /\ lines' = [lines EXCEPT ![d] = input]
  /\ UNCHANGED <<orderVars, claimed, full>>

LockedByOther(d, p) == \E e \in Delivery \ {d} : claimed[e][p] > 0

(* Mutant: what the line shows, without the receipt's own earlier lines.   *)
OutstandingCommitted(d, p) == ordered[p] - received[p]

Outstanding(d, p) == ordered[p] - received[p] - claimed[d][p]

(* claimReceivedQuantity: one conditional UPDATE per line, in the order of *)
(* the request; the line's row stays locked until the transaction ends.    *)
ClaimReceivedQuantity(d) ==
  LET line == Head(lines[d])
  IN /\ phase[d] = "claiming"
     /\ lines[d] # <<>>
     /\ ~LockedByOther(d, line.product)
     /\ Outstanding(d, line.product) >= line.quantity
     /\ claimed' = [claimed EXCEPT ![d][line.product] = @ + line.quantity]
     /\ lines' = [lines EXCEPT ![d] = Tail(@)]
     /\ UNCHANGED <<orderVars, phase, full>>

CloseDelivery(d) ==
  /\ phase' = [phase EXCEPT ![d] = "idle"]
  /\ lines' = [lines EXCEPT ![d] = <<>>]
  /\ claimed' = [claimed EXCEPT ![d] = None]
  /\ full' = [full EXCEPT ![d] = FALSE]

(* The UPDATE matches no row: the receipt is refused and rolled back.      *)
RefuseReceipt(d) ==
  /\ phase[d] = "claiming"
  /\ lines[d] # <<>>
  /\ Outstanding(d, Head(lines[d]).product) < Head(lines[d]).quantity
  /\ CloseDelivery(d)
  /\ UNCHANGED orderVars

(* A crash, a timeout or a deadlock victim: everything is rolled back.     *)
AbortDelivery(d) ==
  /\ phase[d] # "idle"
  /\ CloseDelivery(d)
  /\ UNCHANGED orderVars

(* Mutant: only the lines the receipt names are looked at.                 *)
EvaluateClaimed(d) ==
  /\ phase[d] = "claiming"
  /\ lines[d] = <<>>
  /\ full' = [full EXCEPT ![d] = \A p \in Product :
                claimed[d][p] > 0 => received[p] + claimed[d][p] >= ordered[p]]
  /\ phase' = [phase EXCEPT ![d] = "evaluated"]
  /\ UNCHANGED <<orderVars, lines, claimed>>

(* The lines are read back: its own claims and what others have committed. *)
EvaluateReceived(d) ==
  /\ phase[d] = "claiming"
  /\ lines[d] = <<>>
  /\ full' = [full EXCEPT ![d] = \A p \in Product : received[p] + claimed[d][p] >= ordered[p]]
  /\ phase' = [phase EXCEPT ![d] = "evaluated"]
  /\ UNCHANGED <<orderVars, lines, claimed>>

(* The status is written whatever it has become meanwhile, and the         *)
(* transaction commits: claims, receipt, goods on the shelf and status.    *)
CommitDelivery(d) ==
  /\ phase[d] = "evaluated"
  /\ status' = IF full[d] THEN "RECEIVED" ELSE "PARTIALLY_RECEIVED"
  /\ received' = [p \in Product |-> received[p] + claimed[d][p]]
  /\ shelf' = [p \in Product |-> shelf[p] + claimed[d][p]]
  /\ receipts' = receipts + 1
  /\ CloseDelivery(d)
  /\ UNCHANGED ordered

Next ==
  \/ \E p \in Product : \E n \in 1..MaxQuantity : AddItem(p, n) \/ UpdateItem(p, n)
  \/ \E p \in Product : RemoveItem(p)
  \/ Approve
  \/ Order
  \/ Cancel
  \/ \E d \in Delivery :
       \/ \E input \in ReceiptLines : StartDelivery(d, input)
       \/ ClaimReceivedQuantity(d)
       \/ RefuseReceipt(d)
       \/ AbortDelivery(d)
       \/ EvaluateReceived(d)
       \/ CommitDelivery(d)

Spec == Init /\ [][Next]_vars

----------------------------------------------------------------------------
(* Properties.                                                             *)

TypeOK ==
  /\ status \in Status
  /\ ordered \in [Product -> 0..MaxQuantity]
  /\ received \in [Product -> Nat]
  /\ receipts \in Nat
  /\ shelf \in [Product -> Nat]
  /\ phase \in [Delivery -> {"idle", "claiming", "evaluated"}]
  /\ lines \in [Delivery -> Seq([product : Product, quantity : 1..MaxQuantity])]
  /\ claimed \in [Delivery -> [Product -> Nat]]
  /\ full \in [Delivery -> BOOLEAN]

(* However many deliveries race, and however often one repeats a line,     *)
(* they never claim more than was ordered, and what the lines show as      *)
(* received is exactly what was put on the shelf.                          *)
NeverOverReceived ==
  \A p \in Product :
    /\ received[p] = shelf[p]
    /\ \A d \in Delivery : received[p] + claimed[d][p] <= ordered[p]

(* An order shown as fully received is: nothing is outstanding on any      *)
(* line, although the reading behind that status was taken earlier.        *)
ReceivedIsComplete ==
  status = "RECEIVED" => \A p \in Product : received[p] = ordered[p]

(* A fully received order never goes back, though every delivery writes    *)
(* the status unconditionally.                                             *)
ReceivedIsFinal == [][status = "RECEIVED" => status' = "RECEIVED"]_vars

(* Goods only ever arrive on lines that are frozen: no delivery is under   *)
(* way, and nothing is received, while the lines can still be edited or    *)
(* the order has not been sent to the supplier.                            *)
NothingArrivesEarly ==
  status \in {"DRAFT", "APPROVED"} =>
    receipts = 0 /\ received = None /\ \A d \in Delivery : phase[d] = "idle"

(* What the comment in cancel says: no receipt lands in the gap, so a      *)
(* cancelled order stays cancelled.  receiveGoods reads the status before  *)
(* the gap and writes it after.                                            *)
CancelledIsFinal == [][status = "CANCELLED" => status' = "CANCELLED"]_vars

(* What the comment on receiveGoods says: once deliveries have committed,  *)
(* the status reflects what every line now shows as received.  Two         *)
(* deliveries that read the lines before either commits both see less.     *)
StatusReflectsLines ==
  /\ \A d \in Delivery : phase[d] = "idle"
  /\ receipts > 0
  /\ received = ordered
  => status = "RECEIVED"

=============================================================================

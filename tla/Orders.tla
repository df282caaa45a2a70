------------------------------- MODULE Orders -------------------------------
(***************************************************************************)
(* Sales orders (orders.service.ts, order-totals.ts).  Prices are left     *)
(* out: what the lines come to is an amount the caller decides, so the     *)
(* subtotal after an edit is any amount the edit allows.                   *)
(***************************************************************************)
EXTENDS Documents

CONSTANTS Order, MaxAmount  \* MaxAmount bounds every sum of money

ASSUME OrdersAssumption == MaxAmount \in Nat

VARIABLE orders

OrderStatus == {"NONE", "DRAFT", "CONFIRMED", "COMPLETED", "CANCELLED"}
PaymentStatus == {"UNPAID", "PARTIAL", "PAID", "REFUNDED"}
Amount == 0..MaxAmount

OrderRecord ==
  [status : OrderStatus, lines : Lines, subtotal : Amount, discount : Amount,
   tax : Amount, paid : 0..2 * MaxAmount, paymentStatus : PaymentStatus]

(* "NONE": the order has not been raised yet.                              *)
NoOrder ==
  [status |-> "NONE", lines |-> NoLines, subtotal |-> 0, discount |-> 0,
   tax |-> 0, paid |-> 0, paymentStatus |-> "UNPAID"]

OrdersInit == orders = [o \in Order |-> NoOrder]

(* orderTotals.                                                            *)
Total(order) == order.subtotal - order.discount + order.tax

PaymentStatusFor(paid, total) ==
  IF paid <= 0 THEN "UNPAID" ELSE IF paid >= total THEN "PAID" ELSE "PARTIAL"

----------------------------------------------------------------------------
(* Drafts.  Every edit ends by repricing the order from its lines.         *)

Reprice(o, lines, subtotal, discount, tax) ==
  /\ lines = NoLines => subtotal = 0
  /\ discount <= subtotal
  /\ orders' = [orders EXCEPT ![o] =
       [@ EXCEPT !.status = "DRAFT", !.lines = lines, !.subtotal = subtotal,
                 !.discount = discount, !.tax = tax]]
  /\ UNCHANGED stockVars

CreateOrder(o, lines, subtotal, discount, tax) ==
  /\ orders[o].status = "NONE"
  /\ Reprice(o, lines, subtotal, discount, tax)

UpdateOrder(o, discount, tax) ==
  /\ orders[o].status = "DRAFT"
  /\ Reprice(o, orders[o].lines, orders[o].subtotal, discount, tax)

AddOrderItem(o, p, n, subtotal) ==
  /\ orders[o].status = "DRAFT"
  /\ p \notin DOMAIN orders[o].lines
  /\ subtotal >= orders[o].subtotal
  /\ Reprice(o, WithLine(orders[o].lines, p, n), subtotal,
             orders[o].discount, orders[o].tax)

UpdateOrderItem(o, p, n, subtotal) ==
  /\ orders[o].status = "DRAFT"
  /\ p \in DOMAIN orders[o].lines
  /\ Reprice(o, WithLine(orders[o].lines, p, n), subtotal,
             orders[o].discount, orders[o].tax)

RemoveOrderItem(o, p, subtotal) ==
  /\ orders[o].status = "DRAFT"
  /\ p \in DOMAIN orders[o].lines
  /\ subtotal <= orders[o].subtotal
  /\ Reprice(o, WithoutLine(orders[o].lines, p), subtotal,
             orders[o].discount, orders[o].tax)

----------------------------------------------------------------------------
(* The sale.                                                               *)

MoveOrder(o, from, to) ==
  /\ orders[o].status = from
  /\ orders' = [orders EXCEPT ![o] = [@ EXCEPT !.status = to]]

ConfirmOrder(o) ==
  /\ MoveOrder(o, "DRAFT", "CONFIRMED")
  /\ orders[o].lines # NoLines
  /\ Apply(Ask("reserve", Default, orders[o].lines))

CompleteOrder(o) ==
  /\ MoveOrder(o, "CONFIRMED", "COMPLETED")
  /\ Apply(Ask("consume", Default, orders[o].lines))

CancelDraft(o) ==
  /\ MoveOrder(o, "DRAFT", "CANCELLED")
  /\ orders[o].paid = 0
  /\ UNCHANGED stockVars

CancelConfirmed(o) ==
  /\ MoveOrder(o, "CONFIRMED", "CANCELLED")
  /\ orders[o].paid = 0
  /\ Apply(Ask("release", Default, orders[o].lines))

(* Mutant: the payment alone is compared with the total.                   *)
AddAnyPayment(o, amount) ==
  LET paid == orders[o].paid + amount
  IN /\ orders[o].status \in {"CONFIRMED", "COMPLETED"}
     /\ amount <= Total(orders[o])
     /\ orders' = [orders EXCEPT ![o] =
          [@ EXCEPT !.paid = paid,
                    !.paymentStatus = PaymentStatusFor(paid, Total(orders[o]))]]
     /\ UNCHANGED stockVars

AddOrderPayment(o, amount) ==
  LET paid == orders[o].paid + amount
  IN /\ orders[o].status \in {"CONFIRMED", "COMPLETED"}
     /\ paid <= Total(orders[o])
     /\ orders' = [orders EXCEPT ![o] =
          [@ EXCEPT !.paid = paid,
                    !.paymentStatus = PaymentStatusFor(paid, Total(orders[o]))]]
     /\ UNCHANGED stockVars

EditOrder(o) ==
  \/ \E lines \in Lines : \E subtotal, discount, tax \in Amount :
       CreateOrder(o, lines, subtotal, discount, tax)
  \/ \E discount, tax \in Amount : UpdateOrder(o, discount, tax)
  \/ \E p \in Product, subtotal \in Amount :
       \/ \E n \in 1..MaxLine :
            AddOrderItem(o, p, n, subtotal) \/ UpdateOrderItem(o, p, n, subtotal)
       \/ RemoveOrderItem(o, p, subtotal)

OrdersNext ==
  \E o \in Order :
    \/ EditOrder(o)
    \/ ConfirmOrder(o)
    \/ CompleteOrder(o)
    \/ CancelDraft(o)
    \/ CancelConfirmed(o)
    \/ \E amount \in 1..MaxAmount : AddOrderPayment(o, amount)

(* The units of a row an order has claimed and not yet taken.              *)
OrderHolds(o, r) ==
  IF orders[o].status = "CONFIRMED" /\ r[2] = Default
    THEN Units(orders[o].lines, r[1]) ELSE 0

=============================================================================

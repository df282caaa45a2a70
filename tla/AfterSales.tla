----------------------------- MODULE AfterSales -----------------------------
(***************************************************************************)
(* Orders, the returns that take them back, and the ledger both write to:  *)
(* goods and money going out and coming in over the same order.            *)
(***************************************************************************)
EXTENDS Returns, Finance

ASSUME AfterSalesAssumption ==
  /\ Order \cap Return = {}
  /\ IsFiniteSet(Order)
  /\ Source = Order \cup Return

vars == <<stockVars, orders, returnVars, financeVars>>

(* The shelf is full when the shop opens: a state goods receipts lead to.  *)
Init ==
  /\ inventory = [r \in Row |-> [quantity |-> MaxQuantity, reserved |-> 0]]
  /\ rows = Row
  /\ OrdersInit
  /\ ReturnsInit
  /\ FinanceInit

(* A draft is edited; its lines come to what they come to.                 *)
Edit(o) ==
  /\ EditOrder(o)
  /\ \E prices \in PricesOf(orders'[o]) : charged' = [charged EXCEPT ![o] = prices]
  /\ UNCHANGED <<returns, financeVars>>

Sell(o) ==
  /\ ConfirmOrder(o) \/ CompleteOrder(o) \/ CancelDraft(o) \/ CancelConfirmed(o)
  /\ UNCHANGED <<returnVars, financeVars>>

(* addPayment: the payment and its SALE entry.                             *)
Collect(o, amount) ==
  /\ AddOrderPayment(o, amount)
  /\ Book(o, amount)
  /\ UNCHANGED <<returnVars, expenses, reading>>

TakeBack(r) ==
  /\ EditReturn(r) \/ ApproveReturn(r) \/ RejectReturn(r)
  /\ UNCHANGED financeVars

(* Mutant: the whole credit is booked, whatever was paid out.              *)
BookCredit(r) == Book(r, Credit(r))

BookRefund(r) == Book(r, CashFor(r))

(* complete: the refund and its REFUND entry, when there is any money.     *)
GiveBack(r) ==
  /\ CompleteReturn(r)
  /\ IF CashFor(r) > 0 THEN BookRefund(r) ELSE UNCHANGED entries
  /\ UNCHANGED <<expenses, reading>>

Next ==
  \/ \E o \in Order :
       Edit(o) \/ Sell(o) \/ \E amount \in 1..MaxAmount : Collect(o, amount)
  \/ \E r \in Return : TakeBack(r) \/ GiveBack(r)
  \/ FinanceNext /\ UNCHANGED <<stockVars, orders, returnVars>>

Spec == Init /\ [][Next]_vars

----------------------------------------------------------------------------
(* Properties.                                                             *)

(* No unit comes back twice: on every line of every order, what the        *)
(* returns that stand claim together never exceeds what went out.          *)
ReturnedWithinSold ==
  \A o \in Order, p \in Product :
    UnitsClaimed(Against(o), p) <= Units(orders[o].lines, p)

(* However a line is broken up, edited, rejected and raised again, once    *)
(* all of it is claimed the credits sum to precisely what was charged.     *)
FullReturnIsExact ==
  \A o \in Order : \A p \in DOMAIN orders[o].lines :
    UnitsClaimed(Against(o), p) = orders[o].lines[p]
      => CreditClaimed(Against(o), p) = charged[o][p]

(* No more money goes out than came in, and the order says REFUNDED        *)
(* exactly while everything the customer paid has gone back - also when    *)
(* payments and further returns follow a refund.                           *)
RefundsAreCovered ==
  \A o \in Order :
    /\ Refunded(o) <= orders[o].paid
    /\ orders[o].paymentStatus = "REFUNDED"
         <=> orders[o].paid > 0 /\ Refunded(o) = orders[o].paid

(* The ledger tells the same story as the documents: under each order what *)
(* it collected, under each return what it paid out.                       *)
BooksBalance ==
  /\ \A o \in Order : Summed({o}) = orders[o].paid
  /\ \A r \in Return : Summed({r}) = returns[r].cash

(* Goods are conserved: the shelf lacks exactly what completed sales took  *)
(* less the units completed returns accepted for sale again.               *)
Sold(p) ==
  Cardinality({c \in Order \X (1..MaxLine) :
    orders[c[1]].status = "COMPLETED" /\ c[2] <= Units(orders[c[1]].lines, p)})

PutBack(p) ==
  Cardinality({c \in Return \X (1..MaxLine) :
    /\ returns[c[1]].status = "COMPLETED"
    /\ p \in DOMAIN returns[c[1]].lines
    /\ returns[c[1]].lines[p].restock
    /\ c[2] <= returns[c[1]].lines[p].quantity})

GoodsConserved ==
  \A p \in Product :
    inventory[<<p, Default>>].quantity + Sold(p) - PutBack(p) = MaxQuantity

=============================================================================

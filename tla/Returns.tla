------------------------------ MODULE Returns ------------------------------
(***************************************************************************)
(* Sales returns (returns.service.ts, return-refunds.ts, return-status.ts) *)
(* over the orders they take back.  Every operation that changes a claim   *)
(* on an order's lines holds the order's row lock, so each is one action;  *)
(* reject, and the removal of a line, only ever give units up.             *)
(***************************************************************************)
EXTENDS Orders, FiniteSets

CONSTANT Return

ASSUME ReturnsAssumption == IsFiniteSet(Return)

VARIABLES
  charged,  \* per order, what each of its lines came to (OrderItem.total)
  returns   \* per return, its row, its lines and the refund it paid

returnVars == <<charged, returns>>

ReturnStatus == {"NONE", "PENDING", "APPROVED", "COMPLETED", "REJECTED"}

(* The statuses whose lines count against what is left to return.          *)
Claiming == {"PENDING", "APPROVED", "COMPLETED"}

(* Every line: how many units, what they are credited at, and whether they *)
(* go back on the shelf.                                                   *)
ReturnLine == [quantity : 1..MaxLine, total : 0..2 * MaxAmount, restock : BOOLEAN]

NoReturnLines == [p \in {} |-> 0]

NoReturn ==
  [status |-> "NONE", order |-> CHOOSE o \in Order : TRUE,
   lines |-> NoReturnLines, cash |-> 0]

ReturnsInit ==
  /\ charged = [o \in Order |-> [p \in Product |-> 0]]
  /\ returns = [r \in Return |-> NoReturn]

(* Whether an order's lines add up to its subtotal.                        *)
Coins(prices) == {c \in Product \X (1..MaxAmount) : c[2] <= prices[c[1]]}

PricesOf(order) ==
  {prices \in [Product -> Amount] :
     /\ \A p \in Product : p \notin DOMAIN order.lines => prices[p] = 0
     /\ Cardinality(Coins(prices)) = order.subtotal}

----------------------------------------------------------------------------
(* What is left of an order line: lineHistory and refundable.              *)

ReturnUnits(r, p) ==
  IF returns[r].status \in Claiming /\ p \in DOMAIN returns[r].lines
    THEN returns[r].lines[p].quantity ELSE 0

ReturnCredit(r, p) ==
  IF returns[r].status \in Claiming /\ p \in DOMAIN returns[r].lines
    THEN returns[r].lines[p].total ELSE 0

Against(o) == {r \in Return : returns[r].status # "NONE" /\ returns[r].order = o}

UnitsClaimed(R, p) == Cardinality({c \in R \X (1..MaxLine) : c[2] <= ReturnUnits(c[1], p)})

CreditClaimed(R, p) ==
  Cardinality({c \in R \X (1..2 * MaxAmount) : c[2] <= ReturnCredit(c[1], p)})

(* Mutant: rejected returns, or the return itself, are counted wrongly.    *)
UnitsLeftIgnoringPending(o, p, r) ==
  Units(orders[o].lines, p)
    - UnitsClaimed({q \in Against(o) \ {r} : returns[q].status # "PENDING"}, p)

UnitsLeft(o, p, r) == Units(orders[o].lines, p) - UnitsClaimed(Against(o) \ {r}, p)

ValueLeft(o, p, r) == charged[o][p] - CreditClaimed(Against(o) \ {r}, p)

RoundHalfUp(a, b) == (2 * a + b) \div (2 * b)

(* Mutant: the last of a line is prorated like the rest.                   *)
RefundProrated(o, p, r, n) == RoundHalfUp(charged[o][p] * n, Units(orders[o].lines, p))

(* refundFor: the last of a line is credited at exactly what is left.      *)
RefundFor(o, p, r, n) ==
  IF n >= UnitsLeft(o, p, r)
    THEN ValueLeft(o, p, r)
    ELSE RoundHalfUp(charged[o][p] * n, Units(orders[o].lines, p))

(* assertWithinRemainder, and the CHECK that a credit is not negative.     *)
Returnable(o, p, r, n) ==
  /\ p \in DOMAIN orders[o].lines
  /\ n <= UnitsLeft(o, p, r)
  /\ RefundFor(o, p, r, n) >= 0

NewReturnLine(o, p, r, n, restock) ==
  [quantity |-> n, total |-> RefundFor(o, p, r, n), restock |-> restock]

----------------------------------------------------------------------------
(* Operations.                                                             *)

SetReturn(r, record) ==
  /\ returns' = [returns EXCEPT ![r] = record]
  /\ UNCHANGED <<stockVars, orders, charged>>

(* Goods come back from an order that went out, in quantities that did.    *)
CreateReturn(r, o, lines, kept) ==
  /\ returns[r].status = "NONE"
  /\ orders[o].status = "COMPLETED"
  /\ lines # NoLines
  /\ \A p \in DOMAIN lines : Returnable(o, p, r, lines[p])
  /\ SetReturn(r,
       [status |-> "PENDING", order |-> o, cash |-> 0,
        lines |-> [p \in DOMAIN lines |-> NewReturnLine(o, p, r, lines[p], p \notin kept)]])

SetReturnLine(r, p, n, restock) ==
  LET o == returns[r].order
  IN /\ returns[r].status = "PENDING"
     /\ Returnable(o, p, r, n)
     /\ SetReturn(r, [returns[r] EXCEPT !.lines =
          [q \in DOMAIN returns[r].lines \cup {p} |->
             IF q = p THEN NewReturnLine(o, p, r, n, restock) ELSE returns[r].lines[q]]])

AddReturnItem(r, p, n, restock) ==
  p \notin DOMAIN returns[r].lines /\ SetReturnLine(r, p, n, restock)

UpdateReturnItem(r, p, n, restock) ==
  p \in DOMAIN returns[r].lines /\ SetReturnLine(r, p, n, restock)

(* The last line cannot be removed: the return is rejected instead.        *)
RemoveReturnItem(r, p) ==
  /\ returns[r].status = "PENDING"
  /\ p \in DOMAIN returns[r].lines
  /\ DOMAIN returns[r].lines # {p}
  /\ SetReturn(r, [returns[r] EXCEPT !.lines =
       [q \in DOMAIN returns[r].lines \ {p} |-> returns[r].lines[q]]])

MoveReturn(r, from, to) ==
  returns[r].status = from /\ SetReturn(r, [returns[r] EXCEPT !.status = to])

ApproveReturn(r) == MoveReturn(r, "PENDING", "APPROVED")

RejectReturn(r) == MoveReturn(r, "PENDING", "REJECTED")

(* The credit of a return: recomputeRefund keeps it the sum of its lines.  *)
Credit(r) ==
  Cardinality({c \in Product \X (1..2 * MaxAmount) :
    c[1] \in DOMAIN returns[r].lines /\ c[2] <= returns[r].lines[c[1]].total})

(* refundedOnOrder: the refunds the order's returns have paid out.         *)
Refunded(o) ==
  Cardinality({c \in Against(o) \X (1..2 * MaxAmount) : c[2] <= returns[c[1]].cash})

(* Mutant: each return is measured against what was paid on its own.       *)
CashForAlone(r) ==
  LET paid == orders[returns[r].order].paid
  IN IF Credit(r) > paid THEN paid ELSE Credit(r)

(* refundableInCash.                                                       *)
CashFor(r) ==
  LET left == orders[returns[r].order].paid - Refunded(returns[r].order)
  IN IF left <= 0 THEN 0 ELSE IF Credit(r) > left THEN left ELSE Credit(r)

(* Mutant: what was written off is put back on the shelf.                  *)
EveryLine(r) == [p \in DOMAIN returns[r].lines |-> returns[r].lines[p].quantity]

(* The lines whose units go back on the shelf.                             *)
Restockable(r) ==
  LET S == {p \in DOMAIN returns[r].lines : returns[r].lines[p].restock}
  IN [p \in S |-> returns[r].lines[p].quantity]

(* Once everything the customer paid has gone back, the order says so.     *)
SettleOrder(r) ==
  LET o == returns[r].order
  IN orders' = IF orders[o].paid > 0 /\ Refunded(o) + CashFor(r) >= orders[o].paid
                 THEN [orders EXCEPT ![o] = [@ EXCEPT !.paymentStatus = "REFUNDED"]]
                 ELSE orders

(* The goods go back in and the refund goes out, in one transaction.       *)
CompleteReturn(r) ==
  /\ returns[r].status = "APPROVED"
  /\ Apply(Ask("restore", Default, Restockable(r)))
  /\ returns' = [returns EXCEPT ![r] = [@ EXCEPT !.status = "COMPLETED", !.cash = CashFor(r)]]
  /\ SettleOrder(r)
  /\ UNCHANGED charged

EditReturn(r) ==
  \/ \E o \in Order, lines \in Lines, kept \in SUBSET Product : CreateReturn(r, o, lines, kept)
  \/ \E p \in Product, n \in 1..MaxLine, restock \in BOOLEAN :
       AddReturnItem(r, p, n, restock) \/ UpdateReturnItem(r, p, n, restock)
  \/ \E p \in Product : RemoveReturnItem(r, p)

ReturnsNext ==
  \E r \in Return :
    EditReturn(r) \/ ApproveReturn(r) \/ RejectReturn(r) \/ CompleteReturn(r)

=============================================================================

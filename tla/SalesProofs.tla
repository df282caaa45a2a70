---------------------------- MODULE SalesProofs ----------------------------
(***************************************************************************)
(* Proofs about what follows a sale, for any number of orders, returns,    *)
(* clerks and expenses: what goes out comes back at most once and for what *)
(* it cost, and the books agree.                                           *)
(***************************************************************************)
EXTENDS OrdersProofs, AfterSales

----------------------------------------------------------------------------
(* After the sale: types.                                                  *)

ReturnRecord ==
  [status : ReturnStatus, order : Order \cup {NoReturn.order},
   lines : UNION {[D -> ReturnLine] : D \in SUBSET Product},
   cash : 0..2 * MaxAmount]

SalesTyped ==
  /\ orders \in [Order -> OrderRecord] /\ StockSound
  /\ charged \in [Order -> [Product -> Amount]]
  /\ returns \in [Return -> ReturnRecord]

(* Only an order that went out is taken back, and only a completed return  *)
(* has paid anything.                                                      *)
ReturnSound(r) ==
  /\ returns[r].status # "NONE" =>
       returns[r].order \in Order /\ orders[returns[r].order].status = "COMPLETED"
  /\ returns[r].status # "COMPLETED" => returns[r].cash = 0

ReturnsSound == \A r \in Return : ReturnSound(r)

LEMMA ReturnFields ==
  ASSUME SalesTyped, NEW r \in Return
  PROVE  /\ returns[r] \in ReturnRecord
         /\ DOMAIN returns[r].lines \subseteq Product
         /\ \A p \in DOMAIN returns[r].lines : returns[r].lines[p] \in ReturnLine
<1>1. returns[r] \in ReturnRecord
  BY DEF SalesTyped
<1>2. returns[r].lines \in UNION {[D -> ReturnLine] : D \in SUBSET Product}
  BY <1>1 DEF ReturnRecord
<1> QED
  BY <1>1, <1>2

----------------------------------------------------------------------------
(* After the sale: sums over the returns of an order.                      *)

RefundedBy(R) == Cardinality({c \in R \X (1..2 * MaxAmount) : c[2] <= returns[c[1]].cash})

Measured ==
  \A r \in Return :
    /\ returns[r].cash \in 0..2 * MaxAmount
    /\ \A p \in Product : /\ ReturnUnits(r, p) \in 0..MaxLine
                          /\ ReturnCredit(r, p) \in 0..2 * MaxAmount

(* What one return adds to a sum over the returns of an order.             *)
Share(o, r, n) == IF r \in Against(o) THEN n ELSE 0

Splits ==
  \A o \in Order, r \in Return :
    /\ RefundedBy(Against(o) \ {r}) \in Nat
    /\ Refunded(o) = RefundedBy(Against(o) \ {r}) + Share(o, r, returns[r].cash)
    /\ \A p \in Product :
         /\ UnitsClaimed(Against(o) \ {r}, p) \in Nat
         /\ CreditClaimed(Against(o) \ {r}, p) \in Nat
         /\ UnitsClaimed(Against(o), p)
              = UnitsClaimed(Against(o) \ {r}, p) + Share(o, r, ReturnUnits(r, p))
         /\ CreditClaimed(Against(o), p)
              = CreditClaimed(Against(o) \ {r}, p) + Share(o, r, ReturnCredit(r, p))

LEMMA TypedIsMeasured == SalesTyped => Measured
<1> SUFFICES ASSUME SalesTyped, NEW r \in Return
             PROVE  /\ returns[r].cash \in 0..2 * MaxAmount
                    /\ \A p \in Product : /\ ReturnUnits(r, p) \in 0..MaxLine
                                          /\ ReturnCredit(r, p) \in 0..2 * MaxAmount
  BY DEF Measured
<1>1. 0 \in 0..MaxLine /\ 0 \in 0..2 * MaxAmount
  BY DocumentsAssumption, OrdersAssumption
<1>2. returns[r].cash \in 0..2 * MaxAmount
  BY ReturnFields DEF ReturnRecord
<1>3. \A p \in DOMAIN returns[r].lines :
        /\ returns[r].lines[p].quantity \in 0..MaxLine
        /\ returns[r].lines[p].total \in 0..2 * MaxAmount
  BY ReturnFields, DocumentsAssumption DEF ReturnLine
<1> QED
  BY <1>1, <1>2, <1>3 DEF ReturnUnits, ReturnCredit

LEMMA ReturnsSplit ==
  ASSUME NEW M \in Nat, NEW f \in [Return -> 0..M], NEW S \in SUBSET Return, NEW r \in Return
  PROVE  /\ PartSum(S \ {r}, M, f) \in Nat
         /\ PartSum(S, M, f) = PartSum(S \ {r}, M, f) + (IF r \in S THEN f[r] ELSE 0)
  BY ReturnsAssumption, PartSplits

LEMMA MeasuredSplits == Measured => Splits
<1> SUFFICES ASSUME Measured, NEW o \in Order, NEW r \in Return
             PROVE  /\ RefundedBy(Against(o) \ {r}) \in Nat
                    /\ Refunded(o) = RefundedBy(Against(o) \ {r}) + Share(o, r, returns[r].cash)
                    /\ \A p \in Product :
                         /\ UnitsClaimed(Against(o) \ {r}, p) \in Nat
                         /\ CreditClaimed(Against(o) \ {r}, p) \in Nat
                         /\ UnitsClaimed(Against(o), p)
                              = UnitsClaimed(Against(o) \ {r}, p)
                                  + Share(o, r, ReturnUnits(r, p))
                         /\ CreditClaimed(Against(o), p)
                              = CreditClaimed(Against(o) \ {r}, p)
                                  + Share(o, r, ReturnCredit(r, p))
  BY DEF Splits
<1> DEFINE R == Against(o)
           Q == Against(o) \ {r}
<1>1. R \in SUBSET Return /\ Q \in SUBSET Return
  BY DEF Against
<1>2. MaxLine \in Nat /\ 2 * MaxAmount \in Nat
  BY DocumentsAssumption, OrdersAssumption
<1>3. /\ RefundedBy(Q) \in Nat
      /\ RefundedBy(R) = RefundedBy(Q) + Share(o, r, returns[r].cash)
  <2> DEFINE f == [q \in Return |-> returns[q].cash]
  <2>1. f \in [Return -> 0..2 * MaxAmount] /\ f[r] = returns[r].cash
    BY DEF Measured
  <2>2. \A S \in SUBSET Return : RefundedBy(S) = PartSum(S, 2 * MaxAmount, f)
    BY DEF RefundedBy, PartSum
  <2> DEFINE M == 2 * MaxAmount
  <2>3. M \in Nat /\ f \in [Return -> 0..M]
    BY <1>2, <2>1
  <2> HIDE DEF f, R, M
  <2>4. /\ PartSum(R \ {r}, M, f) \in Nat
        /\ PartSum(R, M, f) = PartSum(R \ {r}, M, f) + (IF r \in R THEN f[r] ELSE 0)
    BY <1>1, <2>3, ReturnsSplit
  <2> QED
    BY <1>1, <2>1, <2>2, <2>4 DEF R, M, Share
<1>4. Refunded(o) = RefundedBy(R)
  BY DEF Refunded, RefundedBy
<1>5. ASSUME NEW p \in Product
      PROVE  /\ UnitsClaimed(Q, p) \in Nat
             /\ UnitsClaimed(R, p) = UnitsClaimed(Q, p) + Share(o, r, ReturnUnits(r, p))
  <2> DEFINE f == [q \in Return |-> ReturnUnits(q, p)]
  <2>1. f \in [Return -> 0..MaxLine] /\ f[r] = ReturnUnits(r, p)
    BY DEF Measured
  <2>2. \A S \in SUBSET Return : UnitsClaimed(S, p) = PartSum(S, MaxLine, f)
    BY DEF UnitsClaimed, PartSum
  <2> HIDE DEF f, R
  <2>3. /\ PartSum(R \ {r}, MaxLine, f) \in Nat
        /\ PartSum(R, MaxLine, f)
             = PartSum(R \ {r}, MaxLine, f) + (IF r \in R THEN f[r] ELSE 0)
    BY <1>1, <1>2, <2>1, ReturnsSplit
  <2> QED
    BY <1>1, <2>1, <2>2, <2>3 DEF R, Share
<1>6. ASSUME NEW p \in Product
      PROVE  /\ CreditClaimed(Q, p) \in Nat
             /\ CreditClaimed(R, p) = CreditClaimed(Q, p) + Share(o, r, ReturnCredit(r, p))
  <2> DEFINE f == [q \in Return |-> ReturnCredit(q, p)]
  <2>1. f \in [Return -> 0..2 * MaxAmount] /\ f[r] = ReturnCredit(r, p)
    BY DEF Measured
  <2>2. \A S \in SUBSET Return : CreditClaimed(S, p) = PartSum(S, 2 * MaxAmount, f)
    BY DEF CreditClaimed, PartSum
  <2> DEFINE M == 2 * MaxAmount
  <2>3. M \in Nat /\ f \in [Return -> 0..M]
    BY <1>2, <2>1
  <2> HIDE DEF f, R, M
  <2>4. /\ PartSum(R \ {r}, M, f) \in Nat
        /\ PartSum(R, M, f) = PartSum(R \ {r}, M, f) + (IF r \in R THEN f[r] ELSE 0)
    BY <1>1, <2>3, ReturnsSplit
  <2> QED
    BY <1>1, <2>1, <2>2, <2>4 DEF R, M, Share
<1> QED
  BY <1>3, <1>4, <1>5, <1>6

LEMMA SplitsAfter == SalesTyped' => Splits'
  BY TypedIsMeasured, MeasuredSplits, PTL

----------------------------------------------------------------------------
(* After the sale: what a line is credited at.                             *)

LEMMA Division ==
  ASSUME NEW a \in Nat, NEW b \in Nat \ {0}
  PROVE  a \div b \in Nat /\ (a \div b) * b <= a
  OBVIOUS

(* A part of a line is credited at no more than all of it was charged.     *)
LEMMA ProratedBound ==
  ASSUME NEW a \in Nat, NEW n \in Nat, NEW u \in Nat, n < u
  PROVE  RoundHalfUp(a * n, u) \in 0..a
<1> DEFINE x == 2 * (a * n) + u
           q == x \div (2 * u)
<1>1. a * n \in Nat /\ a * n <= a * u /\ a * u \in Nat
  OBVIOUS
<1>2. x \in Nat /\ 2 * u \in Nat \ {0}
  BY <1>1
<1> HIDE DEF x
<1>3. q \in Nat /\ q * (2 * u) <= x
  BY <1>2, Division
<1>4. q <= a
  <2> SUFFICES ASSUME q >= a + 1 PROVE FALSE
    BY <1>3
  <2> HIDE DEF q
  <2>1. q * (2 * u) >= (a + 1) * (2 * u)
    BY <1>2, <1>3
  <2>2. (a + 1) * (2 * u) = 2 * (a * u) + 2 * u
    OBVIOUS
  <2> QED
    BY <1>1, <1>3, <2>1, <2>2 DEF x
<1> QED
  BY <1>3, <1>4 DEF RoundHalfUp, x

LEMMA NewLineIsLine ==
  ASSUME SalesTyped, NEW o \in Order, NEW p \in Product, NEW r \in Return,
         NEW n \in 1..MaxLine, NEW restock \in BOOLEAN, Returnable(o, p, r, n)
  PROVE  /\ NewReturnLine(o, p, r, n, restock) \in ReturnLine
         /\ NewReturnLine(o, p, r, n, restock).quantity = n
         /\ NewReturnLine(o, p, r, n, restock).total = RefundFor(o, p, r, n)
<1> DEFINE u == Units(orders[o].lines, p)
           c == UnitsClaimed(Against(o) \ {r}, p)
           v == CreditClaimed(Against(o) \ {r}, p)
           a == charged[o][p]
<1>1. u \in 0..MaxLine
  BY LinesAreMaps DEF SalesTyped, OrderRecord
<1>2. a \in 0..MaxAmount
  BY DEF SalesTyped, Amount
<1>3. c \in Nat /\ v \in Nat
  BY TypedIsMeasured, MeasuredSplits DEF Splits
<1>4. RefundFor(o, p, r, n) = IF n >= u - c THEN a - v ELSE RoundHalfUp(a * n, u)
  BY DEF RefundFor, UnitsLeft, ValueLeft
<1>5. n <= u - c /\ RefundFor(o, p, r, n) >= 0
  BY DEF Returnable, UnitsLeft
<1> HIDE DEF u, c, v, a
<1>6. MaxLine \in Nat /\ MaxAmount \in Nat
  BY DocumentsAssumption, OrdersAssumption
<1>7. RefundFor(o, p, r, n) \in 0..2 * MaxAmount
  <2>1. CASE n >= u - c
    BY <1>2, <1>3, <1>4, <1>5, <1>6, <2>1
  <2>2. CASE n < u - c
    <3>1. n \in Nat /\ u \in Nat /\ a \in Nat /\ n < u
      BY <1>1, <1>2, <1>3, <1>6, <2>2
    <3>2. RoundHalfUp(a * n, u) \in 0..a
      BY <3>1, ProratedBound
    <3>3. RefundFor(o, p, r, n) = RoundHalfUp(a * n, u)
      BY <1>1, <1>3, <1>4, <1>6, <2>2
    <3> QED
      BY <1>2, <1>6, <3>2, <3>3
  <2> QED
    BY <1>1, <1>3, <1>6, <2>1, <2>2
<1> QED
  BY <1>7 DEF NewReturnLine, ReturnLine

----------------------------------------------------------------------------
(* After the sale: what a step does to one return.                         *)

(* What a return claims of a line of an order.                             *)
UnitsOf(o, r, p) == Share(o, r, ReturnUnits(r, p))
CreditOf(o, r, p) == Share(o, r, ReturnCredit(r, p))

(* Its claim on a line stays, is given up, or is a new one.                *)
LineMoves(o, r, p) ==
  \/ /\ UnitsOf(o, r, p)' = UnitsOf(o, r, p)
     /\ CreditOf(o, r, p)' = CreditOf(o, r, p)
  \/ UnitsOf(o, r, p) > 0 /\ UnitsOf(o, r, p)' = 0
  \/ /\ Returnable(o, p, r, UnitsOf(o, r, p)')
     /\ CreditOf(o, r, p)' = RefundFor(o, p, r, UnitsOf(o, r, p)')

(* Only r changes, and stays within its type.                              *)
OneReturnMoves(r) ==
  /\ returns'[r] \in ReturnRecord
  /\ returns' = [returns EXCEPT ![r] = returns'[r]]
  /\ \A o \in Order, p \in Product : LineMoves(o, r, p)

(* Nothing goes in or out before a return is completed.                    *)
Pending(r) ==
  /\ OneReturnMoves(r) /\ ReturnSound(r)'
  /\ returns[r].status # "COMPLETED" /\ returns'[r].status # "COMPLETED"
  /\ UNCHANGED <<stockVars, orders, charged>>

LEMMA SetReturnEffect ==
  ASSUME SalesTyped, NEW r \in Return, NEW record \in ReturnRecord, SetReturn(r, record)
  PROVE  /\ returns'[r] = record
         /\ returns' = [returns EXCEPT ![r] = returns'[r]]
         /\ UNCHANGED <<stockVars, orders, charged>>
  BY DEF SetReturn, SalesTyped

(* A pending return of the same order, line by line.                       *)
LEMMA PendingLines ==
  ASSUME SalesTyped, ReturnsSound, NEW r \in Return, NEW record \in ReturnRecord,
         SetReturn(r, record), returns[r].status \in {"NONE", "PENDING"},
         record.status = "PENDING", record.cash = 0,
         record.order \in Order, orders[record.order].status = "COMPLETED",
         returns[r].status = "PENDING" => record.order = returns[r].order,
         \A p \in DOMAIN record.lines :
           \/ /\ returns[r].status = "PENDING" /\ p \in DOMAIN returns[r].lines
              /\ record.lines[p] = returns[r].lines[p]
           \/ /\ Returnable(record.order, p, r, record.lines[p].quantity)
              /\ record.lines[p].total
                   = RefundFor(record.order, p, r, record.lines[p].quantity)
  PROVE  Pending(r)
<1>1. /\ returns'[r] = record /\ returns' = [returns EXCEPT ![r] = returns'[r]]
      /\ UNCHANGED <<stockVars, orders, charged>>
  BY SetReturnEffect
<1>2. r \in Against(record.order)'
  BY <1>1 DEF Against
<1>3. ASSUME NEW o \in Order, NEW p \in Product
      PROVE  LineMoves(o, r, p)
  <2>1. CASE o # record.order
    <3>1. r \notin Against(o)' /\ r \notin Against(o)
      BY <1>1, <2>1 DEF Against
    <3> QED
      BY <3>1 DEF LineMoves, UnitsOf, CreditOf, Share
  <2>2. CASE o = record.order /\ p \notin DOMAIN record.lines
    <3>1. UnitsOf(o, r, p)' = 0 /\ CreditOf(o, r, p)' = 0
      BY <1>1, <2>2 DEF UnitsOf, CreditOf, Share, ReturnUnits, ReturnCredit
    <3>2. \/ UnitsOf(o, r, p) = 0 /\ CreditOf(o, r, p) = 0
          \/ UnitsOf(o, r, p) = returns[r].lines[p].quantity /\ p \in DOMAIN returns[r].lines
      BY DEF UnitsOf, CreditOf, Share, ReturnUnits, ReturnCredit
    <3>3. p \in DOMAIN returns[r].lines => returns[r].lines[p].quantity > 0
      BY ReturnFields, DocumentsAssumption DEF ReturnLine
    <3> QED
      BY <3>1, <3>2, <3>3 DEF LineMoves
  <2>3. CASE o = record.order /\ p \in DOMAIN record.lines
    <3>1. /\ UnitsOf(o, r, p)' = record.lines[p].quantity
          /\ CreditOf(o, r, p)' = record.lines[p].total
      BY <1>1, <1>2, <2>3 DEF UnitsOf, CreditOf, Share, ReturnUnits, ReturnCredit, Claiming
    <3>2. CASE /\ returns[r].status = "PENDING" /\ p \in DOMAIN returns[r].lines
               /\ record.lines[p] = returns[r].lines[p]
      <4>1. r \in Against(o)
        BY <2>3, <3>2 DEF Against
      <4> QED
        BY <3>1, <3>2, <4>1
        DEF LineMoves, UnitsOf, CreditOf, Share, ReturnUnits, ReturnCredit, Claiming
    <3>3. CASE /\ Returnable(o, p, r, record.lines[p].quantity)
               /\ record.lines[p].total = RefundFor(o, p, r, record.lines[p].quantity)
      BY <3>1, <3>3 DEF LineMoves
    <3> QED
      BY <2>3, <3>2, <3>3
  <2> QED
    BY <2>1, <2>2, <2>3
<1>4. ReturnSound(r)'
  BY <1>1 DEF ReturnSound
<1> QED
  BY <1>1, <1>3, <1>4 DEF Pending, OneReturnMoves

LEMMA PendingRecord ==
  ASSUME NEW o \in Order, NEW D \in SUBSET Product, NEW lines \in [D -> ReturnLine]
  PROVE  [status |-> "PENDING", order |-> o, cash |-> 0, lines |-> lines] \in ReturnRecord
<1>1. lines \in UNION {[S -> ReturnLine] : S \in SUBSET Product}
  OBVIOUS
<1>2. 0 \in 0..2 * MaxAmount
  BY OrdersAssumption
<1> QED
  BY <1>1, <1>2 DEF ReturnRecord, ReturnStatus

(* returns.create: a return of an order that went out.                     *)
LEMMA CreatedPending ==
  ASSUME SalesTyped, ReturnsSound, NEW r \in Return, NEW o \in Order, NEW lines \in Lines,
         NEW kept \in SUBSET Product, CreateReturn(r, o, lines, kept)
  PROVE  Pending(r)
<1> DEFINE claim == [p \in DOMAIN lines |-> NewReturnLine(o, p, r, lines[p], p \notin kept)]
           record == [status |-> "PENDING", order |-> o, cash |-> 0, lines |-> claim]
<1>1. /\ returns[r].status = "NONE" /\ orders[o].status = "COMPLETED"
      /\ \A p \in DOMAIN lines : Returnable(o, p, r, lines[p])
      /\ SetReturn(r, record)
  BY DEF CreateReturn
<1>2. DOMAIN lines \in SUBSET Product /\ \A p \in DOMAIN lines : lines[p] \in 1..MaxLine
  BY LinesAreMaps
<1>3. ASSUME NEW p \in DOMAIN lines
      PROVE  /\ claim[p] \in ReturnLine /\ claim[p].quantity = lines[p]
             /\ claim[p].total = RefundFor(o, p, r, lines[p])
  <2>1. p \in Product /\ lines[p] \in 1..MaxLine /\ (p \notin kept) \in BOOLEAN
    BY <1>2
  <2>2. claim[p] = NewReturnLine(o, p, r, lines[p], p \notin kept)
    OBVIOUS
  <2> QED
    BY <1>1, <2>1, <2>2, NewLineIsLine, Zenon
<1>4. claim \in [DOMAIN lines -> ReturnLine]
  BY <1>3
<1> HIDE DEF claim
<1>5. record \in ReturnRecord
  BY <1>2, <1>4, PendingRecord
<1>6. DOMAIN record.lines = DOMAIN lines
  BY <1>4
<1>7. /\ record.status = "PENDING" /\ record.cash = 0 /\ record.order = o
      /\ record.lines = claim
  OBVIOUS
<1>8. \A p \in DOMAIN record.lines :
        /\ Returnable(record.order, p, r, record.lines[p].quantity)
        /\ record.lines[p].total = RefundFor(record.order, p, r, record.lines[p].quantity)
  BY <1>1, <1>3, <1>6, <1>7
<1> HIDE DEF record
<1> QED
  BY <1>1, <1>5, <1>7, <1>8, PendingLines

(* addItem and updateItem.                                                 *)
LEMMA LineSetPending ==
  ASSUME SalesTyped, ReturnsSound, NEW r \in Return, NEW p \in Product,
         NEW n \in 1..MaxLine, NEW restock \in BOOLEAN, SetReturnLine(r, p, n, restock)
  PROVE  Pending(r)
<1> DEFINE o == returns[r].order
           old == returns[r].lines
           new == NewReturnLine(o, p, r, n, restock)
           claim == [q \in DOMAIN old \cup {p} |-> IF q = p THEN new ELSE old[q]]
           record == [returns[r] EXCEPT !.lines = claim]
<1>1. /\ returns[r].status = "PENDING" /\ Returnable(o, p, r, n)
      /\ SetReturn(r, record)
  BY DEF SetReturnLine
<1>2. o \in Order /\ orders[o].status = "COMPLETED" /\ returns[r].cash = 0
  BY <1>1 DEF ReturnsSound, ReturnSound
<1>3. /\ new \in ReturnLine /\ new.quantity = n /\ new.total = RefundFor(o, p, r, n)
  BY <1>1, <1>2, NewLineIsLine
<1>4. /\ returns[r] \in ReturnRecord /\ DOMAIN old \subseteq Product
      /\ \A q \in DOMAIN old : old[q] \in ReturnLine
  BY ReturnFields
<1> HIDE DEF new
<1>5. claim \in [DOMAIN old \cup {p} -> ReturnLine] /\ DOMAIN old \cup {p} \in SUBSET Product
  BY <1>3, <1>4
<1>6. \A q \in DOMAIN claim : IF q = p THEN claim[q] = new
                                       ELSE q \in DOMAIN old /\ claim[q] = old[q]
  OBVIOUS
<1> HIDE DEF claim
<1>7. record = [status |-> "PENDING", order |-> o, cash |-> 0, lines |-> claim]
  BY <1>1, <1>2, <1>4 DEF ReturnRecord
<1>8. record \in ReturnRecord
  BY <1>2, <1>5, <1>7, PendingRecord
<1>9. /\ record.status = "PENDING" /\ record.cash = 0 /\ record.order = o
      /\ record.lines = claim
  BY <1>7
<1> HIDE DEF record
<1>10. \A q \in DOMAIN record.lines :
         \/ /\ returns[r].status = "PENDING" /\ q \in DOMAIN returns[r].lines
            /\ record.lines[q] = returns[r].lines[q]
         \/ /\ Returnable(record.order, q, r, record.lines[q].quantity)
            /\ record.lines[q].total
                 = RefundFor(record.order, q, r, record.lines[q].quantity)
  BY <1>1, <1>3, <1>6, <1>9
<1> QED
  BY <1>1, <1>2, <1>8, <1>9, <1>10, PendingLines

(* removeItem.                                                             *)
LEMMA LineRemovedPending ==
  ASSUME SalesTyped, ReturnsSound, NEW r \in Return, NEW p \in Product,
         RemoveReturnItem(r, p)
  PROVE  Pending(r)
<1> DEFINE o == returns[r].order
           old == returns[r].lines
           claim == [q \in DOMAIN old \ {p} |-> old[q]]
           record == [returns[r] EXCEPT !.lines = claim]
<1>1. returns[r].status = "PENDING" /\ SetReturn(r, record)
  BY DEF RemoveReturnItem
<1>2. o \in Order /\ orders[o].status = "COMPLETED" /\ returns[r].cash = 0
  BY <1>1 DEF ReturnsSound, ReturnSound
<1>3. /\ returns[r] \in ReturnRecord /\ DOMAIN old \subseteq Product
      /\ \A q \in DOMAIN old : old[q] \in ReturnLine
  BY ReturnFields
<1>4. claim \in [DOMAIN old \ {p} -> ReturnLine] /\ DOMAIN old \ {p} \in SUBSET Product
  BY <1>3
<1>5. \A q \in DOMAIN claim : q \in DOMAIN old /\ claim[q] = old[q]
  OBVIOUS
<1> HIDE DEF claim
<1>6. record = [status |-> "PENDING", order |-> o, cash |-> 0, lines |-> claim]
  BY <1>1, <1>2, <1>3 DEF ReturnRecord
<1>7. record \in ReturnRecord
  BY <1>2, <1>4, <1>6, PendingRecord
<1>8. /\ record.status = "PENDING" /\ record.cash = 0 /\ record.order = o
      /\ record.lines = claim
  BY <1>6
<1> HIDE DEF record
<1> QED
  BY <1>1, <1>2, <1>5, <1>7, <1>8, PendingLines

(* approve and reject.                                                     *)
LEMMA MovedPending ==
  ASSUME SalesTyped, ReturnsSound, NEW r \in Return, NEW to \in {"APPROVED", "REJECTED"},
         MoveReturn(r, "PENDING", to)
  PROVE  Pending(r)
<1> DEFINE record == [returns[r] EXCEPT !.status = to]
<1>1. returns[r].status = "PENDING" /\ SetReturn(r, record)
  BY DEF MoveReturn
<1>2. returns[r] \in ReturnRecord
  BY ReturnFields
<1>3. /\ record \in ReturnRecord /\ record.status = to /\ record.cash = returns[r].cash
      /\ record.order = returns[r].order /\ record.lines = returns[r].lines
  BY <1>2 DEF ReturnRecord, ReturnStatus
<1> HIDE DEF record
<1>4. /\ returns'[r] = record /\ returns' = [returns EXCEPT ![r] = returns'[r]]
      /\ UNCHANGED <<stockVars, orders, charged>>
  BY <1>1, <1>3, SetReturnEffect
<1>5. ASSUME NEW o \in Order, NEW p \in Product
      PROVE  LineMoves(o, r, p)
  <2>1. r \in Against(o)' <=> r \in Against(o)
    BY <1>1, <1>3, <1>4 DEF Against
  <2>2. CASE to = "APPROVED"
    BY <1>1, <1>3, <1>4, <2>1, <2>2
    DEF LineMoves, UnitsOf, CreditOf, Share, ReturnUnits, ReturnCredit, Claiming
  <2>3. CASE to = "REJECTED" /\ p \in DOMAIN returns[r].lines /\ r \in Against(o)
    <3>1. UnitsOf(o, r, p)' = 0
      BY <1>3, <1>4, <2>3 DEF UnitsOf, Share, ReturnUnits, Claiming
    <3>2. UnitsOf(o, r, p) = returns[r].lines[p].quantity
      BY <1>1, <2>3 DEF UnitsOf, Share, ReturnUnits, Claiming
    <3>3. returns[r].lines[p].quantity > 0
      BY <2>3, ReturnFields, DocumentsAssumption DEF ReturnLine
    <3> QED
      BY <3>1, <3>2, <3>3 DEF LineMoves
  <2>4. CASE p \notin DOMAIN returns[r].lines \/ r \notin Against(o)
    BY <1>3, <1>4, <2>1, <2>4
    DEF LineMoves, UnitsOf, CreditOf, Share, ReturnUnits, ReturnCredit
  <2> QED
    BY <2>2, <2>3, <2>4
<1>6. ReturnSound(r)'
  BY <1>1, <1>3, <1>4 DEF ReturnSound, ReturnsSound
<1> QED
  BY <1>1, <1>3, <1>4, <1>5, <1>6 DEF Pending, OneReturnMoves

LEMMA TakeBackPending ==
  ASSUME SalesTyped, ReturnsSound, NEW r \in Return, TakeBack(r)
  PROVE  Pending(r)
<1>1. ASSUME EditReturn(r)
      PROVE  Pending(r)
  BY <1>1, CreatedPending, LineSetPending, LineRemovedPending
  DEF EditReturn, AddReturnItem, UpdateReturnItem
<1>2. ASSUME ApproveReturn(r) \/ RejectReturn(r)
      PROVE  Pending(r)
  BY <1>2, MovedPending DEF ApproveReturn, RejectReturn
<1> QED
  BY <1>1, <1>2 DEF TakeBack

----------------------------------------------------------------------------
(* After the sale: a return is completed.                                  *)

LEMMA CreditIsNat == ASSUME NEW r \in Return PROVE Credit(r) \in Nat
<1> DEFINE All == Product \X (1..2 * MaxAmount)
           Part == {c \in All : c[1] \in DOMAIN returns[r].lines
                                  /\ c[2] <= returns[r].lines[c[1]].total}
<1>1. IsFiniteSet(Product) /\ IsFiniteSet(1..2 * MaxAmount)
  BY FS_Interval, RowsAssumption, OrdersAssumption DEF Product
<1>2. IsFiniteSet(All)
  BY <1>1, FS_Product, Zenon
<1>3. IsFiniteSet(Part)
  BY <1>2, FS_Subset
<1>4. Credit(r) = Cardinality(Part)
  BY DEF Credit
<1> HIDE DEF Part
<1> QED
  BY <1>3, <1>4, FS_CardinalityType

(* A refund is at most what is left of what the customer paid.             *)
LEMMA CashBounds ==
  ASSUME SalesTyped, NEW r \in Return, returns[r].order \in Order
  PROVE  LET o == returns[r].order
         IN /\ Refunded(o) \in Nat
            /\ CashFor(r) \in 0..2 * MaxAmount
            /\ Refunded(o) <= orders[o].paid => Refunded(o) + CashFor(r) <= orders[o].paid
<1> DEFINE o == returns[r].order
<1>1. orders[o].paid \in 0..2 * MaxAmount
  BY DEF SalesTyped, OrderRecord
<1>2. returns[r].cash \in 0..2 * MaxAmount
  BY ReturnFields DEF ReturnRecord
<1>3. /\ RefundedBy(Against(o) \ {r}) \in Nat
      /\ Refunded(o) = RefundedBy(Against(o) \ {r}) + Share(o, r, returns[r].cash)
  BY TypedIsMeasured, MeasuredSplits DEF Splits
<1>4. Refunded(o) \in Nat
  BY <1>2, <1>3, OrdersAssumption DEF Share
<1>5. Credit(r) \in Nat
  BY CreditIsNat
<1>6. CashFor(r) = IF orders[o].paid - Refunded(o) <= 0 THEN 0
                   ELSE IF Credit(r) > orders[o].paid - Refunded(o)
                          THEN orders[o].paid - Refunded(o) ELSE Credit(r)
  BY DEF CashFor
<1> HIDE DEF o
<1>7. CashFor(r) \in 0..2 * MaxAmount
  BY <1>1, <1>4, <1>5, <1>6, OrdersAssumption
<1>8. Refunded(o) <= orders[o].paid => Refunded(o) + CashFor(r) <= orders[o].paid
  BY <1>1, <1>4, <1>5, <1>6, OrdersAssumption
<1> QED
  BY <1>4, <1>7, <1>8 DEF o

(* The units that go back on the shelf are lines of a request.             *)
LEMMA RestockableIsLines ==
  ASSUME SalesTyped, NEW r \in Return
  PROVE  /\ Restockable(r) \in Lines
         /\ \A p : Units(Restockable(r), p)
                     = IF p \in DOMAIN returns[r].lines /\ returns[r].lines[p].restock
                         THEN returns[r].lines[p].quantity ELSE 0
<1> DEFINE S == {p \in DOMAIN returns[r].lines : returns[r].lines[p].restock}
<1>1. S \in SUBSET Product /\ \A p \in S : returns[r].lines[p].quantity \in 1..MaxLine
  BY ReturnFields DEF ReturnLine
<1>2. Restockable(r) = [p \in S |-> returns[r].lines[p].quantity]
  BY DEF Restockable
<1> HIDE DEF S
<1>3. Restockable(r) \in [S -> 1..MaxLine]
  BY <1>1, <1>2
<1>4. Restockable(r) \in Lines
  BY <1>1, <1>3, MapIsLines
<1>5. \A p : Units(Restockable(r), p) = IF p \in S THEN returns[r].lines[p].quantity ELSE 0
  BY <1>2 DEF Units
<1> QED
  BY <1>4, <1>5 DEF S

(* An order keeps everything but the word it has for its payment.          *)
SameButPayment(o) ==
  /\ orders'[o].status = orders[o].status /\ orders'[o].lines = orders[o].lines
  /\ orders'[o].paid = orders[o].paid

Completed(r) ==
  LET o == returns[r].order
  IN /\ o \in Order /\ r \in Against(o) /\ returns'[r].order = o
     /\ OneReturnMoves(r) /\ ReturnSound(r)' /\ returns[r].cash = 0
     /\ returns[r].status = "APPROVED" /\ returns'[r].status = "COMPLETED"
     /\ returns'[r].cash = CashFor(r) /\ returns'[r].lines = returns[r].lines
     /\ orders' \in [Order -> OrderRecord] /\ \A q \in Order : SameButPayment(q)
     /\ \A q \in Order : q # o => orders'[q] = orders[q]
     /\ orders'[o].paymentStatus =
          IF orders[o].paid > 0 /\ Refunded(o) + CashFor(r) >= orders[o].paid
            THEN "REFUNDED" ELSE orders[o].paymentStatus
     /\ charged' = charged /\ StockSound'

LEMMA CompletedReturn ==
  ASSUME SalesTyped, ReturnsSound, NEW r \in Return, CompleteReturn(r)
  PROVE  Completed(r)
<1> DEFINE o == returns[r].order
           record == [returns[r] EXCEPT !.status = "COMPLETED", !.cash = CashFor(r)]
           settled == [orders[o] EXCEPT !.paymentStatus = "REFUNDED"]
           full == orders[o].paid > 0 /\ Refunded(o) + CashFor(r) >= orders[o].paid
<1>1. /\ returns[r].status = "APPROVED"
      /\ Apply(Ask("restore", Default, Restockable(r)))
      /\ returns' = [returns EXCEPT ![r] = record]
      /\ orders' = IF full THEN [orders EXCEPT ![o] = settled] ELSE orders
      /\ charged' = charged
  BY DEF CompleteReturn, SettleOrder
<1>2. /\ o \in Order /\ orders[o].status = "COMPLETED" /\ returns[r].cash = 0
      /\ r \in Against(o)
  BY <1>1 DEF ReturnsSound, ReturnSound, Against
<1>3. returns[r] \in ReturnRecord /\ CashFor(r) \in 0..2 * MaxAmount
  BY <1>2, ReturnFields, CashBounds
<1>4. /\ record \in ReturnRecord /\ record.status = "COMPLETED" /\ record.cash = CashFor(r)
      /\ record.order = o /\ record.lines = returns[r].lines
  BY <1>3 DEF ReturnRecord, ReturnStatus
<1>5. orders[o] \in OrderRecord
  BY <1>2 DEF SalesTyped
<1>6. /\ settled \in OrderRecord /\ settled.paymentStatus = "REFUNDED"
      /\ settled.status = orders[o].status /\ settled.lines = orders[o].lines
      /\ settled.paid = orders[o].paid
  BY <1>5 DEF OrderRecord, PaymentStatus
<1> HIDE DEF record, settled, full
<1>7. returns'[r] = record /\ returns' = [returns EXCEPT ![r] = returns'[r]]
  BY <1>1 DEF SalesTyped
<1>8. orders \in [Order -> OrderRecord]
  BY DEF SalesTyped
<1> HIDE DEF o
<1>9. /\ orders' \in [Order -> OrderRecord] /\ \A q \in Order : SameButPayment(q)
      /\ \A q \in Order : q # o => orders'[q] = orders[q]
      /\ orders'[o].paymentStatus = IF full THEN "REFUNDED" ELSE orders[o].paymentStatus
  BY <1>1, <1>2, <1>6, <1>8 DEF SameButPayment
<1>10. ASSUME NEW q \in Order, NEW p \in Product
      PROVE  LineMoves(q, r, p)
  <2>1. r \in Against(q)' <=> r \in Against(q)
    BY <1>1, <1>4, <1>7 DEF Against, o
  <2> QED
    BY <1>1, <1>4, <1>7, <2>1
    DEF LineMoves, UnitsOf, CreditOf, Share, ReturnUnits, ReturnCredit, Claiming
<1>11. ReturnSound(r)'
  BY <1>2, <1>4, <1>7, <1>9 DEF ReturnSound, SameButPayment
<1>12. StockSound'
  <2>1. StockSound /\ Restockable(r) \in Lines /\ Default \in Location
    BY RestockableIsLines, DocumentsAssumption DEF SalesTyped
  <2>2. "restore" \in Kind \ SignedKind
    BY DEF Kind, SignedKind
  <2> QED
    BY <1>1, <2>1, <2>2, AskTypes
<1> QED
  BY <1>1, <1>2, <1>4, <1>7, <1>9, <1>10, <1>11, <1>12
  DEF Completed, OneReturnMoves, full, o

----------------------------------------------------------------------------
(* After the sale: what a step does to one order.                          *)

OneOrderMoves(o) ==
  /\ orders' \in [Order -> OrderRecord] /\ StockSound'
  /\ orders' = [orders EXCEPT ![o] = orders'[o]]
  /\ charged' \in [Order -> [Product -> Amount]]
  /\ \A q \in Order : q # o => charged'[q] = charged[q]
  /\ returns' = returns

(* An order that went out keeps what it consists of.                       *)
WentOutStays(o) ==
  orders[o].status = "COMPLETED" =>
    /\ orders'[o].status = "COMPLETED" /\ orders'[o].lines = orders[o].lines
    /\ charged'[o] = charged[o]

MoneyStays(o) ==
  /\ orders'[o].paid = orders[o].paid
  /\ orders'[o].paymentStatus = orders[o].paymentStatus

LEMMA RepriceFields ==
  ASSUME orders \in [Order -> OrderRecord], NEW o \in Order,
         NEW lines, NEW subtotal, NEW discount, NEW tax,
         Reprice(o, lines, subtotal, discount, tax)
  PROVE  /\ orders' = [orders EXCEPT ![o] = orders'[o]] /\ MoneyStays(o)
         /\ orders'[o].status = "DRAFT" /\ UNCHANGED stockVars
  BY DEF Reprice, OrderRecord, MoneyStays

LEMMA EditMoves ==
  ASSUME SalesTyped, NEW o \in Order, Edit(o)
  PROVE  /\ OneOrderMoves(o) /\ WentOutStays(o) /\ MoneyStays(o)
         /\ orders[o].status \in Editable /\ orders'[o].status = "DRAFT"
         /\ UNCHANGED stockVars
<1>1. EditOrder(o) /\ returns' = returns
  BY DEF Edit
<1>2. orders \in [Order -> OrderRecord] /\ StockSound /\ orders' \in [Order -> OrderRecord]
      /\ StockSound'
  BY <1>1, EditOrderTypes DEF SalesTyped
<1>3. PICK lines, subtotal, discount, tax : Reprice(o, lines, subtotal, discount, tax)
  BY <1>1 DEF EditOrder, CreateOrder, UpdateOrder, AddOrderItem, UpdateOrderItem,
              RemoveOrderItem
<1>4. orders[o].status \in Editable
  BY <1>1 DEF EditOrder, CreateOrder, UpdateOrder, AddOrderItem, UpdateOrderItem,
              RemoveOrderItem, Editable
<1>5. /\ orders' = [orders EXCEPT ![o] = orders'[o]] /\ MoneyStays(o)
      /\ orders'[o].status = "DRAFT" /\ UNCHANGED stockVars
  BY <1>2, <1>3, RepriceFields
<1>6. PICK prices \in [Product -> Amount] : charged' = [charged EXCEPT ![o] = prices]
  BY DEF Edit, PricesOf
<1>7. /\ charged' \in [Order -> [Product -> Amount]]
      /\ \A q \in Order : q # o => charged'[q] = charged[q]
  BY <1>6 DEF SalesTyped
<1> QED
  BY <1>1, <1>2, <1>4, <1>5, <1>7 DEF OneOrderMoves, WentOutStays, Editable

LEMMA SellMoves ==
  ASSUME SalesTyped, NEW o \in Order, Sell(o)
  PROVE  OneOrderMoves(o) /\ WentOutStays(o) /\ MoneyStays(o)
<1>1. /\ ConfirmOrder(o) \/ CompleteOrder(o) \/ CancelDraft(o) \/ CancelConfirmed(o)
      /\ returns' = returns /\ charged' = charged
  BY DEF Sell, returnVars
<1>2. PICK from \in {"DRAFT", "CONFIRMED"}, to \in OrderStatus : MoveOrder(o, from, to)
  BY <1>1 DEF OrderStatus, ConfirmOrder, CompleteOrder, CancelDraft, CancelConfirmed
<1>3. orders \in [Order -> OrderRecord] /\ StockSound
  BY DEF SalesTyped
<1>4. orders' \in [Order -> OrderRecord] /\ StockSound'
  BY <1>1, <1>3, OrdersTypes DEF OrdersNext
<1>5. /\ orders' = [orders EXCEPT ![o] = orders'[o]] /\ MoneyStays(o)
      /\ orders[o].status # "COMPLETED"
  BY <1>2, <1>3 DEF MoveOrder, OrderRecord, MoneyStays
<1> QED
  BY <1>1, <1>4, <1>5 DEF OneOrderMoves, WentOutStays, SalesTyped

LEMMA CollectMoves ==
  ASSUME SalesTyped, NEW o \in Order, NEW amount \in 1..MaxAmount, Collect(o, amount)
  PROVE  /\ OneOrderMoves(o) /\ WentOutStays(o) /\ UNCHANGED stockVars
         /\ orders'[o].paid = orders[o].paid + amount
         /\ orders'[o].paymentStatus # "REFUNDED"
         /\ orders'[o].status = orders[o].status
<1> DEFINE paid == orders[o].paid + amount
           state == PaymentStatusFor(paid, Total(orders[o]))
<1>1. /\ AddOrderPayment(o, amount) /\ returns' = returns /\ charged' = charged
      /\ UNCHANGED stockVars
  BY DEF Collect, AddOrderPayment, returnVars
<1>2. orders \in [Order -> OrderRecord] /\ StockSound /\ orders[o] \in OrderRecord
  BY DEF SalesTyped
<1>3. orders' \in [Order -> OrderRecord] /\ StockSound'
  BY <1>1, <1>2, OrdersTypes DEF OrdersNext
<1>4. orders' = [orders EXCEPT ![o] =
                   [orders[o] EXCEPT !.paid = paid, !.paymentStatus = state]]
  BY <1>1 DEF AddOrderPayment
<1>5. state # "REFUNDED"
  BY DEF PaymentStatusFor
<1> HIDE DEF paid, state
<1>6. /\ orders' = [orders EXCEPT ![o] = orders'[o]]
      /\ orders'[o].paid = paid /\ orders'[o].paymentStatus = state
      /\ orders'[o].status = orders[o].status /\ orders'[o].lines = orders[o].lines
  BY <1>2, <1>4 DEF OrderRecord
<1> QED
  BY <1>1, <1>3, <1>5, <1>6 DEF OneOrderMoves, WentOutStays, SalesTyped, paid

----------------------------------------------------------------------------
(* After the sale: types, and the returns of orders that went out.         *)

SalesSound == SalesTyped /\ ReturnsSound

LEMMA ReturnMovesSound ==
  ASSUME SalesSound, NEW r \in Return, OneReturnMoves(r), ReturnSound(r)',
         orders' \in [Order -> OrderRecord], StockSound', charged' = charged,
         \A q \in Order : orders'[q].status = orders[q].status
  PROVE  SalesSound'
<1>1. returns' \in [Return -> ReturnRecord] /\ \A q \in Return : q # r => returns'[q] = returns[q]
  BY DEF SalesSound, SalesTyped, OneReturnMoves
<1>2. ASSUME NEW q \in Return, q # r
      PROVE  ReturnSound(q)'
  BY <1>1, <1>2 DEF SalesSound, ReturnsSound, ReturnSound
<1> QED
  BY <1>1, <1>2 DEF SalesSound, SalesTyped, ReturnsSound

LEMMA OrderMovesSound ==
  ASSUME SalesSound, NEW o \in Order, OneOrderMoves(o), WentOutStays(o)
  PROVE  SalesSound'
<1>1. \A q \in Order : q # o => orders'[q] = orders[q]
  BY DEF SalesSound, SalesTyped, OneOrderMoves
<1>2. ASSUME NEW r \in Return
      PROVE  ReturnSound(r)'
  BY <1>1 DEF SalesSound, ReturnsSound, ReturnSound, OneOrderMoves, WentOutStays
<1> QED
  BY <1>2 DEF SalesSound, SalesTyped, ReturnsSound, OneOrderMoves

LEMMA SalesSoundInductive == SalesSound /\ [Next]_vars => SalesSound'
<1> SUFFICES ASSUME SalesSound, [Next]_vars PROVE SalesSound'
  OBVIOUS
<1>1. SalesTyped /\ ReturnsSound
  BY DEF SalesSound
<1>2. ASSUME NEW o \in Order, Edit(o) \/ Sell(o) \/ \E amount \in 1..MaxAmount : Collect(o, amount)
      PROVE  SalesSound'
  BY <1>1, <1>2, EditMoves, SellMoves, CollectMoves, OrderMovesSound
<1>3. ASSUME NEW r \in Return, TakeBack(r)
      PROVE  SalesSound'
  <2>1. Pending(r)
    BY <1>1, <1>3, TakeBackPending
  <2>2. orders' = orders /\ charged' = charged /\ StockSound'
    BY <1>1, <2>1, StockUnchanged DEF Pending, SalesTyped
  <2> QED
    BY <1>1, <2>1, <2>2, ReturnMovesSound DEF Pending, SalesTyped
<1>4. ASSUME NEW r \in Return, GiveBack(r)
      PROVE  SalesSound'
  <2>1. Completed(r)
    BY <1>1, <1>4, CompletedReturn DEF GiveBack
  <2> QED
    BY <2>1, ReturnMovesSound DEF Completed, SameButPayment
<1>5. CASE UNCHANGED <<stockVars, orders, returnVars>>
  <2>1. StockSound'
    BY <1>1, <1>5, StockUnchanged DEF SalesTyped
  <2> QED
    BY <1>5, <2>1 DEF SalesSound, SalesTyped, ReturnsSound, ReturnSound, returnVars
<1> QED
  BY <1>2, <1>3, <1>4, <1>5 DEF Next, vars

LEMMA SalesStartSound == Init => SalesSound
<1> SUFFICES ASSUME Init PROVE SalesSound
  OBVIOUS
<1>1. StockSound
  BY RowsAssumption DEF Init, StockSound, ShelvesSound, StockRow
<1>2. orders \in [Order -> OrderRecord]
  <2>1. NoOrder \in OrderRecord
    BY EmptyLines, OrdersAssumption DEF NoOrder, OrderRecord, OrderStatus, PaymentStatus, Amount
  <2> QED
    BY <2>1 DEF Init, OrdersInit
<1>3. charged \in [Order -> [Product -> Amount]]
  BY OrdersAssumption DEF Init, ReturnsInit, Amount
<1>4. /\ NoReturn.status = "NONE" /\ NoReturn.cash = 0 /\ NoReturn \in ReturnRecord
  <2>1. NoReturnLines \in [{} -> ReturnLine]
    BY DEF NoReturnLines
  <2>2. NoReturnLines \in UNION {[D -> ReturnLine] : D \in SUBSET Product}
    BY <2>1
  <2> DEFINE first == CHOOSE o \in Order : TRUE
  <2>3. NoReturn = [status |-> "NONE", order |-> first, lines |-> NoReturnLines, cash |-> 0]
    BY DEF NoReturn
  <2> HIDE DEF first
  <2>4. NoReturn.order = first /\ NoReturn.status = "NONE" /\ NoReturn.cash = 0
    BY <2>3
  <2>5. "NONE" \in ReturnStatus /\ 0 \in 0..2 * MaxAmount
    BY OrdersAssumption DEF ReturnStatus
  <2> QED
    BY <2>2, <2>3, <2>4, <2>5 DEF ReturnRecord
<1>5. returns \in [Return -> ReturnRecord] /\ ReturnsSound
  BY <1>4 DEF Init, ReturnsInit, ReturnsSound, ReturnSound
<1> QED
  BY <1>1, <1>2, <1>3, <1>5 DEF SalesSound, SalesTyped

----------------------------------------------------------------------------
(* After the sale: nothing comes back twice, and a line that comes back    *)
(* whole is credited to the cent.                                          *)

LineSound(o, p) ==
  LET units == Units(orders[o].lines, p)
      claimed == UnitsClaimed(Against(o), p)
  IN /\ claimed <= units
     /\ p \in DOMAIN orders[o].lines /\ claimed = units
          => CreditClaimed(Against(o), p) = charged[o][p]

LinesSound == \A o \in Order, p \in Product : LineSound(o, p)

(* The other returns of an order are those they were, with what they claim. *)
LEMMA RestStays ==
  ASSUME SalesTyped, NEW r \in Return, \A q \in Return : q # r => returns'[q] = returns[q],
         NEW o \in Order, NEW p
  PROVE  /\ (Against(o) \ {r})' = Against(o) \ {r}
         /\ RefundedBy(Against(o) \ {r})' = RefundedBy(Against(o) \ {r})
         /\ UnitsClaimed(Against(o) \ {r}, p)' = UnitsClaimed(Against(o) \ {r}, p)
         /\ CreditClaimed(Against(o) \ {r}, p)' = CreditClaimed(Against(o) \ {r}, p)
<1> DEFINE Rest == {q \in Return \ {r} : returns[q].status # "NONE" /\ returns[q].order = o}
<1>1. Against(o) \ {r} = Rest /\ (Against(o) \ {r})' = Rest
  BY DEF Against
<1>2. \A q \in Rest : returns'[q] = returns[q]
  OBVIOUS
<1> HIDE DEF Rest
<1>3. \A q \in Rest : /\ ReturnUnits(q, p)' = ReturnUnits(q, p)
                      /\ ReturnCredit(q, p)' = ReturnCredit(q, p)
  BY <1>2 DEF ReturnUnits, ReturnCredit
<1>4. RefundedBy(Against(o) \ {r})' = RefundedBy(Against(o) \ {r})
  <2>1. {c \in Rest \X (1..2 * MaxAmount) : c[2] <= returns'[c[1]].cash}
          = {c \in Rest \X (1..2 * MaxAmount) : c[2] <= returns[c[1]].cash}
    BY <1>2
  <2> QED
    BY <1>1, <2>1 DEF RefundedBy
<1>5. UnitsClaimed(Against(o) \ {r}, p)' = UnitsClaimed(Against(o) \ {r}, p)
  <2>1. {c \in Rest \X (1..MaxLine) : c[2] <= ReturnUnits(c[1], p)'}
          = {c \in Rest \X (1..MaxLine) : c[2] <= ReturnUnits(c[1], p)}
    BY <1>3
  <2> QED
    BY <1>1, <2>1 DEF UnitsClaimed
<1>6. CreditClaimed(Against(o) \ {r}, p)' = CreditClaimed(Against(o) \ {r}, p)
  <2>1. {c \in Rest \X (1..2 * MaxAmount) : c[2] <= ReturnCredit(c[1], p)'}
          = {c \in Rest \X (1..2 * MaxAmount) : c[2] <= ReturnCredit(c[1], p)}
    BY <1>3
  <2> QED
    BY <1>1, <2>1 DEF CreditClaimed
<1> QED
  BY <1>1, <1>4, <1>5, <1>6

(* A line of an order one of whose returns moves.                          *)
LEMMA LineStep ==
  ASSUME SalesTyped, SalesTyped', NEW r \in Return, OneReturnMoves(r),
         NEW o \in Order, NEW p \in Product, LineSound(o, p),
         orders'[o].lines = orders[o].lines, charged'[o] = charged[o]
  PROVE  LineSound(o, p)'
<1> DEFINE u == Units(orders[o].lines, p)
           a == charged[o][p]
           c == UnitsClaimed(Against(o) \ {r}, p)
           v == CreditClaimed(Against(o) \ {r}, p)
           n == UnitsOf(o, r, p)
           m == UnitsOf(o, r, p)'
           w == CreditOf(o, r, p)
           x == CreditOf(o, r, p)'
<1>1. u \in Nat /\ a \in Nat
  BY LinesAreMaps, DocumentsAssumption, OrdersAssumption DEF SalesTyped, OrderRecord, Amount
<1>2. /\ c \in Nat /\ v \in Nat
      /\ UnitsClaimed(Against(o), p) = c + n /\ CreditClaimed(Against(o), p) = v + w
  BY TypedIsMeasured, MeasuredSplits DEF Splits, UnitsOf, CreditOf
<1>3. \A q \in Return : q # r => returns'[q] = returns[q]
  BY DEF OneReturnMoves, SalesTyped
<1>4. UnitsClaimed(Against(o) \ {r}, p)' = c /\ CreditClaimed(Against(o) \ {r}, p)' = v
  BY <1>3, RestStays
<1>5. UnitsClaimed(Against(o), p)' = c + m /\ CreditClaimed(Against(o), p)' = v + x
  BY <1>4, SplitsAfter DEF Splits, UnitsOf, CreditOf
<1>6. n \in Nat /\ m \in Nat /\ w \in Nat /\ x \in Nat
  <2>1. n \in Nat /\ w \in Nat
    BY TypedIsMeasured, DocumentsAssumption, OrdersAssumption
    DEF Measured, UnitsOf, CreditOf, Share
  <2>2. Measured'
    BY TypedIsMeasured, PTL
  <2>3. m \in Nat /\ x \in Nat
    BY <2>2, DocumentsAssumption, OrdersAssumption DEF Measured, UnitsOf, CreditOf, Share
  <2> QED
    BY <2>1, <2>3
<1>7. \/ m = n /\ x = w
      \/ n > 0 /\ m = 0
      \/ m <= u - c /\ x = IF m >= u - c THEN a - v
                           ELSE RoundHalfUp(a * m, u)
  BY DEF OneReturnMoves, LineMoves, Returnable, RefundFor, UnitsLeft, ValueLeft
<1>8. c + n <= u /\ (p \in DOMAIN orders[o].lines /\ c + n = u => v + w = a)
  BY <1>2 DEF LineSound
<1> HIDE DEF u, a, c, v, n, m, w, x
<1>9. c + m <= u /\ (p \in DOMAIN orders[o].lines /\ c + m = u => v + x = a)
  BY <1>1, <1>2, <1>6, <1>7, <1>8
<1> QED
  BY <1>5, <1>9 DEF LineSound, u, a

(* Nothing is claimed of an order that has not gone out.                   *)
LEMMA NothingAgainst ==
  ASSUME SalesSound, NEW o \in Order, orders[o].status # "COMPLETED", NEW p
  PROVE  /\ Against(o) = {} /\ Refunded(o) = 0
         /\ UnitsClaimed(Against(o), p) = 0 /\ CreditClaimed(Against(o), p) = 0
<1>1. Against(o) = {}
  BY DEF SalesSound, ReturnsSound, ReturnSound, Against
<1>2. Cardinality({}) = 0
  BY FS_EmptySet
<1>3. /\ {c \in Against(o) \X (1..2 * MaxAmount) : c[2] <= returns[c[1]].cash} = {}
      /\ {c \in Against(o) \X (1..MaxLine) : c[2] <= ReturnUnits(c[1], p)} = {}
      /\ {c \in Against(o) \X (1..2 * MaxAmount) : c[2] <= ReturnCredit(c[1], p)} = {}
  BY <1>1
<1> QED
  BY <1>1, <1>2, <1>3 DEF Refunded, UnitsClaimed, CreditClaimed

LEMMA OrderLinesStep ==
  ASSUME SalesSound, SalesSound', LinesSound, NEW e \in Order, OneOrderMoves(e),
         WentOutStays(e)
  PROVE  LinesSound'
<1> SUFFICES ASSUME NEW o \in Order, NEW p \in Product PROVE LineSound(o, p)'
  BY DEF LinesSound
<1>1. LineSound(o, p) /\ returns' = returns /\ orders'[o] \in OrderRecord
  BY DEF LinesSound, OneOrderMoves
<1>2. /\ UnitsClaimed(Against(o), p)' = UnitsClaimed(Against(o), p)
      /\ CreditClaimed(Against(o), p)' = CreditClaimed(Against(o), p)
  BY <1>1 DEF UnitsClaimed, CreditClaimed, Against, ReturnUnits, ReturnCredit
<1>3. CASE orders'[o].lines = orders[o].lines /\ charged'[o] = charged[o]
  BY <1>1, <1>2, <1>3 DEF LineSound
<1>4. CASE o = e /\ orders[e].status # "COMPLETED"
  <2>1. UnitsClaimed(Against(o), p)' = 0
    BY <1>2, <1>4, NothingAgainst
  <2>2. orders'[o].lines \in Lines
    BY <1>1 DEF OrderRecord
  <2>3. /\ Units(orders'[o].lines, p) \in 0..MaxLine
        /\ p \in DOMAIN orders'[o].lines => Units(orders'[o].lines, p) # 0
    BY <2>2, LinesAreMaps, DocumentsAssumption DEF Units
  <2> QED
    BY <2>1, <2>3, DocumentsAssumption DEF LineSound
<1>5. o # e => orders'[o] = orders[o] /\ charged'[o] = charged[o]
  BY DEF OneOrderMoves, SalesSound, SalesTyped
<1> QED
  BY <1>3, <1>4, <1>5 DEF WentOutStays

LEMMA LinesSoundInductive == SalesSound /\ LinesSound /\ [Next]_vars => LinesSound'
<1> SUFFICES ASSUME SalesSound, LinesSound, [Next]_vars PROVE LinesSound'
  OBVIOUS
<1>1. SalesTyped /\ ReturnsSound /\ SalesSound' /\ SalesTyped'
  BY SalesSoundInductive DEF SalesSound
<1>2. ASSUME NEW o \in Order, Edit(o) \/ Sell(o) \/ \E amount \in 1..MaxAmount : Collect(o, amount)
      PROVE  LinesSound'
  BY <1>1, <1>2, EditMoves, SellMoves, CollectMoves, OrderLinesStep
<1>3. ASSUME NEW r \in Return, OneReturnMoves(r), charged' = charged,
             \A o \in Order : orders'[o].lines = orders[o].lines
      PROVE  LinesSound'
  BY <1>1, <1>3, LineStep DEF LinesSound
<1>4. ASSUME NEW r \in Return, TakeBack(r)
      PROVE  LinesSound'
  BY <1>1, <1>3, <1>4, TakeBackPending DEF Pending
<1>5. ASSUME NEW r \in Return, GiveBack(r)
      PROVE  LinesSound'
  BY <1>1, <1>3, <1>5, CompletedReturn DEF GiveBack, Completed, SameButPayment
<1>6. CASE UNCHANGED <<orders, returnVars>>
  BY <1>6 DEF LinesSound, LineSound, UnitsClaimed, CreditClaimed, Against, ReturnUnits,
              ReturnCredit, returnVars
<1> QED
  BY <1>2, <1>4, <1>5, <1>6 DEF Next, vars

LEMMA LinesStartSound == Init => LinesSound
<1> SUFFICES ASSUME Init, NEW o \in Order, NEW p \in Product PROVE LineSound(o, p)
  BY DEF LinesSound
<1>1. orders[o].lines = NoLines /\ orders[o].status # "COMPLETED"
  BY DEF Init, OrdersInit, NoOrder
<1>2. UnitsClaimed(Against(o), p) = 0
  BY <1>1, SalesStartSound, NothingAgainst
<1>3. Units(NoLines, p) = 0 /\ p \notin DOMAIN NoLines
  BY EmptyLines DEF NoLines
<1> QED
  BY <1>1, <1>2, <1>3 DEF LineSound

(* The returns that stand never claim more of a line than went out, for    *)
(* any number of returns of any number of orders, raised, edited, approved *)
(* and rejected in any order (lineHistory, assertWithinRemainder and       *)
(* their callers in returns.service.ts).                                   *)
THEOREM NothingReturnedTwice == Spec => []ReturnedWithinSold
<1>1. LinesSound => ReturnedWithinSold
  BY DEF LinesSound, LineSound, ReturnedWithinSold
<1> QED
  BY <1>1, SalesStartSound, LinesStartSound, SalesSoundInductive, LinesSoundInductive, PTL
  DEF Spec

(* Once all of a line is claimed, the credits sum to precisely what it was *)
(* charged at, whatever its price and however it was broken up: the last   *)
(* of it is credited at what is left (refundFor in return-refunds.ts).     *)
THEOREM FullReturnCreditsTheLine == Spec => []FullReturnIsExact
<1>1. SalesSound /\ LinesSound => FullReturnIsExact
  <2> SUFFICES ASSUME SalesSound, LinesSound, NEW o \in Order, NEW p \in DOMAIN orders[o].lines,
                      UnitsClaimed(Against(o), p) = orders[o].lines[p]
               PROVE  CreditClaimed(Against(o), p) = charged[o][p]
    BY DEF FullReturnIsExact
  <2>1. orders[o].lines \in Lines
    BY DEF SalesSound, SalesTyped, OrderRecord
  <2>2. p \in Product /\ Units(orders[o].lines, p) = orders[o].lines[p]
    BY <2>1, LinesAreMaps DEF Units
  <2> QED
    BY <2>2 DEF LinesSound, LineSound
<1> QED
  BY <1>1, SalesStartSound, LinesStartSound, SalesSoundInductive, LinesSoundInductive, PTL
  DEF Spec

----------------------------------------------------------------------------
(* After the sale: no more goes back than came in.                         *)

RefundSound(o) ==
  /\ Refunded(o) <= orders[o].paid
  /\ orders[o].paymentStatus = "REFUNDED"
       <=> orders[o].paid > 0 /\ Refunded(o) = orders[o].paid

LEMMA RefundedIsNat ==
  ASSUME SalesSound, NEW o \in Order
  PROVE  Refunded(o) \in Nat /\ orders[o].paid \in Nat
<1>1. orders[o].paid \in Nat
  BY OrdersAssumption DEF SalesSound, SalesTyped, OrderRecord
<1>2. Refunded(o) \in Nat
  <2>1. CASE Against(o) = {}
    <3>1. {c \in Against(o) \X (1..2 * MaxAmount) : c[2] <= returns[c[1]].cash} = {}
      BY <2>1
    <3> QED
      BY <3>1, FS_EmptySet DEF Refunded
  <2>2. ASSUME NEW r \in Against(o)
        PROVE  Refunded(o) \in Nat
    <3>1. r \in Return /\ r \in Against(o)
      BY DEF Against
    <3>2. returns[r].cash \in Nat
      BY <3>1, TypedIsMeasured, OrdersAssumption DEF Measured, SalesSound
    <3>3. /\ RefundedBy(Against(o) \ {r}) \in Nat
          /\ Refunded(o) = RefundedBy(Against(o) \ {r}) + Share(o, r, returns[r].cash)
      BY <3>1, TypedIsMeasured, MeasuredSplits DEF Splits, SalesSound
    <3> QED
      BY <3>1, <3>2, <3>3 DEF Share
  <2> QED
    BY <2>1, <2>2
<1> QED
  BY <1>1, <1>2

(* What has been refunded on an order one of whose returns moves.          *)
LEMMA RefundedStep ==
  ASSUME SalesSound, SalesSound', NEW r \in Return, OneReturnMoves(r), NEW o \in Order
  PROVE  Refunded(o)' = Refunded(o) - Share(o, r, returns[r].cash)
                          + Share(o, r, returns[r].cash)'
<1> DEFINE rest == RefundedBy(Against(o) \ {r})
           old == Share(o, r, returns[r].cash)
           new == Share(o, r, returns[r].cash)'
<1>1. SalesTyped /\ SalesTyped' /\ \A q \in Return : q # r => returns'[q] = returns[q]
  BY DEF SalesSound, SalesTyped, OneReturnMoves
<1>2. rest \in Nat /\ Refunded(o) = rest + old
  BY <1>1, TypedIsMeasured, MeasuredSplits DEF Splits
<1>3. Refunded(o)' = RefundedBy(Against(o) \ {r})' + new
  BY <1>1, SplitsAfter DEF Splits
<1>4. RefundedBy(Against(o) \ {r})' = rest
  BY <1>1, RestStays
<1>5. old \in Nat /\ new \in Nat
  <2>1. old \in Nat
    BY <1>1, TypedIsMeasured, OrdersAssumption DEF Measured, Share
  <2>2. Measured'
    BY <1>1, TypedIsMeasured, PTL
  <2>3. new \in Nat
    BY <2>2, OrdersAssumption DEF Measured, Share
  <2> QED
    BY <2>1, <2>3
<1> HIDE DEF rest, old, new
<1> QED
  BY <1>2, <1>3, <1>4, <1>5 DEF old, new

RefundsSound == \A o \in Order : RefundSound(o)

LEMMA OrderRefundsStep ==
  ASSUME SalesSound, RefundsSound, NEW e \in Order, OneOrderMoves(e),
         \/ MoneyStays(e)
         \/ \E amount \in 1..MaxAmount : orders'[e].paid = orders[e].paid + amount
              /\ orders'[e].paymentStatus # "REFUNDED"
  PROVE  RefundsSound'
<1> SUFFICES ASSUME NEW o \in Order PROVE RefundSound(o)'
  BY DEF RefundsSound
<1>1. RefundSound(o) /\ Refunded(o) \in Nat /\ orders[o].paid \in Nat
  BY RefundedIsNat DEF RefundsSound
<1>2. Refunded(o)' = Refunded(o)
  BY DEF OneOrderMoves, Refunded, Against
<1>3. CASE o # e \/ MoneyStays(e)
  <2>1. MoneyStays(o)
    BY <1>3 DEF OneOrderMoves, SalesSound, SalesTyped, MoneyStays
  <2> QED
    BY <1>1, <1>2, <2>1 DEF RefundSound, MoneyStays
<1>4. CASE o = e /\ ~MoneyStays(e)
  <2>1. PICK amount \in 1..MaxAmount : orders'[o].paid = orders[o].paid + amount
          /\ orders'[o].paymentStatus # "REFUNDED"
    BY <1>4
  <2> QED
    BY <1>1, <1>2, <2>1, OrdersAssumption DEF RefundSound
<1> QED
  BY <1>3, <1>4

LEMMA PendingRefundsStep ==
  ASSUME SalesSound, SalesSound', RefundsSound, NEW r \in Return, Pending(r)
  PROVE  RefundsSound'
<1> SUFFICES ASSUME NEW o \in Order PROVE RefundSound(o)'
  BY DEF RefundsSound
<1>1. returns[r].cash = 0 /\ returns'[r].cash = 0
  BY DEF SalesSound, ReturnsSound, ReturnSound, Pending
<1>2. Share(o, r, returns[r].cash) = 0 /\ Share(o, r, returns[r].cash)' = 0
  BY <1>1 DEF Share
<1>3. Refunded(o)' = Refunded(o) /\ orders'[o] = orders[o]
  BY <1>2, RefundedStep, RefundedIsNat DEF Pending
<1> QED
  BY <1>3 DEF RefundsSound, RefundSound

LEMMA CompletedRefundsStep ==
  ASSUME SalesSound, SalesSound', RefundsSound, NEW r \in Return, Completed(r)
  PROVE  RefundsSound'
<1> SUFFICES ASSUME NEW o \in Order PROVE RefundSound(o)'
  BY DEF RefundsSound
<1>1. RefundSound(o) /\ Refunded(o) \in Nat /\ orders[o].paid \in Nat
  BY RefundedIsNat DEF RefundsSound
<1>2. /\ returns[r].cash = 0 /\ returns'[r].cash = CashFor(r)
      /\ orders'[o].paid = orders[o].paid
  BY DEF Completed, SameButPayment
<1>3. Share(o, r, returns[r].cash) = 0
  BY <1>2 DEF Share
<1>4. CASE returns[r].order # o
  <2>1. r \notin Against(o)'
    BY <1>4 DEF Completed, Against
  <2>2. Share(o, r, returns[r].cash)' = 0
    BY <2>1 DEF Share
  <2>3. Refunded(o)' = Refunded(o) /\ orders'[o] = orders[o]
    BY <1>1, <1>3, <1>4, <2>2, RefundedStep DEF Completed
  <2> QED
    BY <1>1, <2>3 DEF RefundSound
<1>5. CASE returns[r].order = o
  <2>1. r \in Against(o)'
    BY <1>5 DEF Completed, Against
  <2>2. Share(o, r, returns[r].cash)' = CashFor(r)
    BY <1>2, <2>1 DEF Share
  <2>3. CashFor(r) \in Nat /\ Refunded(o) + CashFor(r) <= orders[o].paid
    BY <1>1, <1>5, CashBounds, OrdersAssumption DEF SalesSound, RefundSound
  <2>4. Refunded(o)' = Refunded(o) + CashFor(r)
    BY <1>1, <1>3, <2>2, <2>3, RefundedStep DEF Completed
  <2>5. orders'[o].paymentStatus =
          IF orders[o].paid > 0 /\ Refunded(o) + CashFor(r) >= orders[o].paid
            THEN "REFUNDED" ELSE orders[o].paymentStatus
    BY <1>5 DEF Completed
  <2> QED
    BY <1>1, <1>2, <2>3, <2>4, <2>5 DEF RefundSound
<1> QED
  BY <1>4, <1>5

LEMMA RefundsSoundInductive == SalesSound /\ RefundsSound /\ [Next]_vars => RefundsSound'
<1> SUFFICES ASSUME SalesSound, RefundsSound, [Next]_vars PROVE RefundsSound'
  OBVIOUS
<1>1. SalesTyped /\ ReturnsSound /\ SalesSound'
  BY SalesSoundInductive DEF SalesSound
<1>2. ASSUME NEW o \in Order, Edit(o) \/ Sell(o) \/ \E amount \in 1..MaxAmount : Collect(o, amount)
      PROVE  RefundsSound'
  BY <1>1, <1>2, EditMoves, SellMoves, CollectMoves, OrderRefundsStep
<1>3. ASSUME NEW r \in Return, TakeBack(r)
      PROVE  RefundsSound'
  BY <1>1, <1>3, TakeBackPending, PendingRefundsStep
<1>4. ASSUME NEW r \in Return, GiveBack(r)
      PROVE  RefundsSound'
  BY <1>1, <1>4, CompletedReturn, CompletedRefundsStep DEF GiveBack
<1>5. CASE UNCHANGED <<orders, returnVars>>
  BY <1>5 DEF RefundsSound, RefundSound, Refunded, Against, returnVars
<1> QED
  BY <1>2, <1>3, <1>4, <1>5 DEF Next, vars

(* No more money goes back over an order than the customer paid, and the   *)
(* order says REFUNDED exactly while all of it has gone back, for any      *)
(* number of payments and returns, whichever comes first                   *)
(* (refundableInCash, and complete in returns.service.ts).                 *)
THEOREM RefundsNeverExceedPayments == Spec => []RefundsAreCovered
<1>1. Init => RefundsSound
  <2> SUFFICES ASSUME Init, NEW o \in Order PROVE RefundSound(o)
    BY DEF RefundsSound
  <2>1. /\ orders[o].status # "COMPLETED" /\ orders[o].paid = 0
        /\ orders[o].paymentStatus # "REFUNDED"
    BY DEF Init, OrdersInit, NoOrder
  <2>2. Refunded(o) = 0
    BY <2>1, SalesStartSound, NothingAgainst
  <2> QED
    BY <2>1, <2>2 DEF RefundSound
<1>2. RefundsSound => RefundsAreCovered
  BY DEF RefundsSound, RefundSound, RefundsAreCovered
<1> QED
  BY <1>1, <1>2, SalesStartSound, SalesSoundInductive, RefundsSoundInductive, PTL DEF Spec

----------------------------------------------------------------------------
(* After the sale: the ledger.                                             *)

LEMMA SourcesAreReferences ==
  /\ Order \subseteq Reference /\ Return \subseteq Reference
  /\ \A x \in Order \cup Return : x \notin Expense /\ x # OtherIncome
  /\ \A o \in Order : o \notin Return
  BY FinanceAssumption, AfterSalesAssumption DEF Reference

(* What is filed under one reference.                                      *)
LEMMA SummedIsCents ==
  ASSUME NEW x, IsFiniteSet(Cents(x))
  PROVE  Summed({x}) = Cardinality(Cents(x)) /\ Cardinality(Cents(x)) \in Nat
<1>1. UNION {{y} \X Cents(y) : y \in {x}} = {x} \X Cents(x)
  OBVIOUS
<1>2. IsFiniteSet({x}) /\ Cardinality({x}) = 1
  BY FS_Singleton, Zenon
<1>3. Cardinality({x} \X Cents(x)) = Cardinality({x}) * Cardinality(Cents(x))
  BY <1>2, FS_Product, Zenon
<1>4. Cardinality(Cents(x)) \in Nat
  BY FS_CardinalityType
<1>5. Summed({x}) = Cardinality({x} \X Cents(x))
  BY <1>1, Zenon DEF Summed
<1> QED
  BY <1>2, <1>3, <1>4, <1>5

(* An entry adds its amount.                                               *)
LEMMA AppendedCents ==
  ASSUME NEW x \in Reference, NEW n \in Nat, entries \in [Reference -> Seq(Int)],
         IsFiniteSet(Cents(x)), entries'[x] = Append(entries[x], n)
  PROVE  /\ IsFiniteSet(Cents(x))'
         /\ Cardinality(Cents(x))' = Cardinality(Cents(x)) + n
<1> DEFINE k == Len(entries[x]) + 1
           New == {k} \X (1..n)
<1>1. entries[x] \in Seq(Int) /\ DOMAIN entries[x] = 1..Len(entries[x])
  OBVIOUS
<1>2. /\ DOMAIN entries'[x] = DOMAIN entries[x] \cup {k} /\ k \notin DOMAIN entries[x]
      /\ entries'[x][k] = n /\ \A i \in DOMAIN entries[x] : entries'[x][i] = entries[x][i]
  BY <1>1
<1> HIDE DEF k
<1>3. Cents(x)' = Cents(x) \cup New
  BY <1>2 DEF Cents
<1>4. Cents(x) \cap New = {}
  BY <1>2 DEF Cents
<1>5. IsFiniteSet(New) /\ Cardinality(New) = n
  BY ColumnCard
<1> HIDE DEF New
<1>6. IsFiniteSet(Cents(x) \cup New)
  BY <1>5, FS_Union, Zenon
<1>7. Cardinality(Cents(x) \cup New)
        = Cardinality(Cents(x)) + Cardinality(New) - Cardinality(Cents(x) \cap New)
  BY <1>5, FS_Union, Zenon
<1>8. Cardinality(Cents(x) \cap New) = 0
  BY <1>4, FS_EmptySet, Zenon
<1>9. Cardinality(Cents(x)) \in Nat
  BY FS_CardinalityType
<1>10. Cardinality(Cents(x) \cup New) = Cardinality(Cents(x)) + n
  BY <1>5, <1>7, <1>8, <1>9
<1>11. IsFiniteSet(Cents(x))'
  BY <1>3, <1>6, Zenon
<1>12. Cardinality(Cents(x))' = Cardinality(Cents(x)) + n
  BY <1>3, <1>10, Zenon
<1> QED
  BY <1>11, <1>12

(* Expenses and other income leave the documents' entries alone.           *)
LEMMA SourcesStay ==
  ASSUME ExpensesInv, FinanceNext, NEW x \in Order \cup Return
  PROVE  entries'[x] = entries[x]
<1>1. x \in Reference /\ x \notin Expense /\ x # OtherIncome
  BY SourcesAreReferences
<1>2. \A c \in Clerk : StillThere(c) => reading[c].expense \in Expense
  BY DEF ExpensesInv, StillThere
<1>3. DOMAIN entries = Reference
  BY DEF ExpensesInv
<1> QED
  BY <1>1, <1>2, <1>3
  DEF FinanceNext, CreateExpense, CorrectAmount, RecordOtherIncome, ReadExpense,
      CorrectTheRest, RemoveExpense, AbandonExpense, WriteExpense, Book

(* A document's entry is none of an expense's.                             *)
LEMMA BookedExpenses ==
  ASSUME ExpensesInv, NEW x \in Order \cup Return, NEW n \in Nat, Book(x, n),
         UNCHANGED <<expenses, reading>>
  PROVE  /\ ExpensesInv' /\ entries'[x] = Append(entries[x], n)
         /\ \A y \in Reference : y # x => entries'[y] = entries[y]
<1>1. x \in Reference /\ x \notin Expense
  BY SourcesAreReferences
<1>2. entries \in [Reference -> Seq(Int)]
  BY DEF ExpensesInv
<1>3. Append(entries[x], n) \in Seq(Int)
  BY <1>1, <1>2
<1>4. /\ entries' \in [Reference -> Seq(Int)] /\ entries'[x] = Append(entries[x], n)
      /\ \A y \in Reference : y # x => entries'[y] = entries[y]
  BY <1>1, <1>2, <1>3 DEF Book
<1>5. \A e \in Expense : entries'[e] = entries[e]
  BY <1>1, <1>4 DEF Reference
<1> QED
  BY <1>4, <1>5 DEF ExpensesInv, ExpenseHasOneEntry

Booked(x, amount) == IsFiniteSet(Cents(x)) /\ Cardinality(Cents(x)) = amount

BooksSound ==
  /\ \A o \in Order : Booked(o, orders[o].paid)
  /\ \A r \in Return : Booked(r, returns[r].cash)

LEMMA BooksInductive ==
  SalesSound /\ ExpensesInv /\ BooksSound /\ [Next]_vars => ExpensesInv' /\ BooksSound'
<1> SUFFICES ASSUME SalesSound, ExpensesInv, BooksSound, [Next]_vars
             PROVE  ExpensesInv' /\ BooksSound'
  OBVIOUS
<1>1. SalesTyped /\ ReturnsSound /\ entries \in [Reference -> Seq(Int)]
  BY DEF SalesSound, ExpensesInv
<1>2. ASSUME UNCHANGED entries,
             \A o \in Order : orders'[o].paid = orders[o].paid,
             \A r \in Return : returns'[r].cash = returns[r].cash
      PROVE  BooksSound'
  BY <1>2 DEF BooksSound, Booked, Cents
<1>3. ASSUME UNCHANGED financeVars
      PROVE  ExpensesInv'
  BY <1>3, ExpensesInductive
<1>4. ASSUME NEW o \in Order, Edit(o) \/ Sell(o)
      PROVE  ExpensesInv' /\ BooksSound'
  <2>1. OneOrderMoves(o) /\ MoneyStays(o) /\ UNCHANGED financeVars
    BY <1>1, <1>4, EditMoves, SellMoves DEF Edit, Sell
  <2>2. \A q \in Order : orders'[q].paid = orders[q].paid
    BY <1>1, <2>1 DEF OneOrderMoves, MoneyStays, SalesTyped
  <2> QED
    BY <1>2, <1>3, <2>1, <2>2 DEF financeVars, OneOrderMoves
<1>5. ASSUME NEW o \in Order, NEW amount \in 1..MaxAmount, Collect(o, amount)
      PROVE  ExpensesInv' /\ BooksSound'
  <2>1. OneOrderMoves(o) /\ orders'[o].paid = orders[o].paid + amount
    BY <1>1, <1>5, CollectMoves
  <2>2. amount \in Nat /\ o \in Reference
    BY OrdersAssumption, SourcesAreReferences
  <2>3. /\ ExpensesInv' /\ entries'[o] = Append(entries[o], amount)
        /\ \A y \in Reference : y # o => entries'[y] = entries[y]
    BY <1>5, <2>2, BookedExpenses DEF Collect
  <2>4. ASSUME NEW q \in Order
        PROVE  Booked(q, orders[q].paid)'
    <3>1. CASE q = o
      <4>1. IsFiniteSet(Cents(o)) /\ Cardinality(Cents(o)) = orders[o].paid
        BY DEF BooksSound, Booked
      <4>2. IsFiniteSet(Cents(o))' /\ Cardinality(Cents(o))' = Cardinality(Cents(o)) + amount
        BY <1>1, <2>2, <2>3, <4>1, AppendedCents
      <4> QED
        BY <2>1, <3>1, <4>1, <4>2 DEF Booked
    <3>2. CASE q # o
      <4>1. entries'[q] = entries[q] /\ orders'[q] = orders[q]
        BY <1>1, <2>1, <2>3, <3>2, SourcesAreReferences DEF OneOrderMoves, SalesTyped
      <4> QED
        BY <4>1 DEF BooksSound, Booked, Cents
    <3> QED
      BY <3>1, <3>2
  <2>5. ASSUME NEW r \in Return
        PROVE  Booked(r, returns[r].cash)'
    <3>1. entries'[r] = entries[r] /\ returns' = returns
      BY <2>1, <2>3, SourcesAreReferences DEF OneOrderMoves
    <3> QED
      BY <3>1 DEF BooksSound, Booked, Cents
  <2> QED
    BY <2>3, <2>4, <2>5 DEF BooksSound
<1>6. ASSUME NEW r \in Return, TakeBack(r)
      PROVE  ExpensesInv' /\ BooksSound'
  <2>1. Pending(r) /\ UNCHANGED financeVars
    BY <1>1, <1>6, TakeBackPending DEF TakeBack
  <2>2. returns[r].cash = 0 /\ returns'[r].cash = 0
    BY <1>1, <2>1 DEF ReturnsSound, ReturnSound, Pending
  <2>3. \A q \in Return : returns'[q].cash = returns[q].cash
    BY <1>1, <2>1, <2>2 DEF Pending, OneReturnMoves, SalesTyped
  <2> QED
    BY <1>2, <1>3, <2>1, <2>3 DEF Pending, financeVars
<1>7. ASSUME NEW r \in Return, GiveBack(r)
      PROVE  ExpensesInv' /\ BooksSound'
  <2>1. Completed(r) /\ UNCHANGED <<expenses, reading>>
    BY <1>1, <1>7, CompletedReturn DEF GiveBack
  <2>2. /\ returns[r].cash = 0 /\ returns'[r].cash = CashFor(r) /\ CashFor(r) \in Nat
        /\ \A q \in Return : q # r => returns'[q] = returns[q]
    BY <1>1, <2>1, CashBounds, OrdersAssumption DEF Completed, OneReturnMoves, SalesTyped
  <2>3. \A q \in Order : orders'[q].paid = orders[q].paid
    BY <2>1 DEF Completed, SameButPayment
  <2>4. CASE CashFor(r) > 0
    <3>1. Book(r, CashFor(r))
      BY <1>7, <2>4 DEF GiveBack, BookRefund
    <3>2. /\ ExpensesInv' /\ entries'[r] = Append(entries[r], CashFor(r))
          /\ \A y \in Reference : y # r => entries'[y] = entries[y]
      BY <2>1, <2>2, <3>1, BookedExpenses
    <3>3. Booked(r, returns[r].cash)'
      <4>1. IsFiniteSet(Cents(r)) /\ Cardinality(Cents(r)) = 0 /\ r \in Reference
        BY <2>2, SourcesAreReferences DEF BooksSound, Booked
      <4>2. /\ IsFiniteSet(Cents(r))'
            /\ Cardinality(Cents(r))' = Cardinality(Cents(r)) + CashFor(r)
        BY <1>1, <2>2, <3>2, <4>1, AppendedCents
      <4> QED
        BY <2>2, <4>1, <4>2 DEF Booked
    <3>4. ASSUME NEW q \in Return, q # r
          PROVE  Booked(q, returns[q].cash)'
      <4>1. entries'[q] = entries[q] /\ returns'[q] = returns[q]
        BY <2>2, <3>2, <3>4, SourcesAreReferences
      <4> QED
        BY <4>1 DEF BooksSound, Booked, Cents
    <3>5. ASSUME NEW o \in Order
          PROVE  Booked(o, orders[o].paid)'
      <4>1. entries'[o] = entries[o] /\ orders'[o].paid = orders[o].paid
        BY <2>3, <3>2, SourcesAreReferences
      <4> QED
        BY <4>1 DEF BooksSound, Booked, Cents
    <3> QED
      BY <3>2, <3>3, <3>4, <3>5 DEF BooksSound
  <2>5. CASE ~(CashFor(r) > 0)
    <3>1. UNCHANGED financeVars
      BY <1>7, <2>1, <2>5 DEF GiveBack, financeVars
    <3>2. \A q \in Return : returns'[q].cash = returns[q].cash
      BY <2>2, <2>5
    <3> QED
      BY <1>2, <1>3, <2>3, <3>1, <3>2 DEF financeVars
  <2> QED
    BY <2>4, <2>5
<1>8. CASE FinanceNext /\ UNCHANGED <<stockVars, orders, returnVars>>
  <2>1. \A x \in Order \cup Return : entries'[x] = entries[x]
    BY <1>8, SourcesStay
  <2>2. ASSUME NEW x \in Order \cup Return, NEW n, Booked(x, n)
        PROVE  IsFiniteSet(Cents(x)') /\ Cardinality(Cents(x)') = n
    BY <2>1, <2>2 DEF Booked, Cents
  <2> QED
    BY <1>8, <2>2, ExpensesInductive DEF BooksSound, Booked, returnVars
<1>9. CASE UNCHANGED vars
  <2>1. UNCHANGED financeVars /\ UNCHANGED <<entries, orders, returns>>
    BY <1>9 DEF vars, financeVars, returnVars
  <2> QED
    BY <1>2, <1>3, <2>1
<1> QED
  BY <1>4, <1>5, <1>6, <1>7, <1>8, <1>9 DEF Next

LEMMA BooksStartSound == Init => ExpensesInv /\ BooksSound
<1> SUFFICES ASSUME Init PROVE BooksSound
  BY ExpensesStartSound DEF Init
<1>1. \A x \in Reference : entries[x] = << >>
  BY DEF Init, FinanceInit
<1>2. ASSUME NEW x \in Reference
      PROVE  Booked(x, 0)
  <2>1. Cents(x) = {}
    BY <1>1 DEF Cents
  <2> QED
    BY <2>1, FS_EmptySet DEF Booked
<1>3. \A o \in Order : orders[o].paid = 0
  BY DEF Init, OrdersInit, NoOrder
<1>4. \A r \in Return : returns[r].cash = 0
  BY DEF Init, ReturnsInit, NoReturn
<1> QED
  BY <1>2, <1>3, <1>4, SourcesAreReferences DEF BooksSound

(* The ledger has, under each order, what the order says it collected and, *)
(* under each return, what the return says it paid out, whatever expenses  *)
(* and other income are booked meanwhile (addPayment in orders.service.ts, *)
(* complete in returns.service.ts, finance.service.ts).                    *)
THEOREM LedgerTellsTheDocuments == Spec => []BooksBalance
<1>1. BooksSound => BooksBalance
  BY SummedIsCents DEF BooksSound, Booked, BooksBalance
<1> QED
  BY <1>1, SalesStartSound, BooksStartSound, SalesSoundInductive, BooksInductive, PTL DEF Spec

----------------------------------------------------------------------------
(* After the sale: the goods.                                              *)

(* What one order took of a product, and what one return put back.         *)
SoldOf(o, p) == IF orders[o].status = "COMPLETED" THEN Units(orders[o].lines, p) ELSE 0

PutBackOf(r, p) ==
  IF returns[r].status = "COMPLETED" THEN Units(Restockable(r), p) ELSE 0

SoldMap(p) == [o \in Order |-> SoldOf(o, p)]
PutBackMap(p) == [r \in Return |-> PutBackOf(r, p)]

GoodsCounted ==
  \A p \in Product :
    /\ SoldMap(p) \in [Order -> 0..MaxLine]
    /\ PutBackMap(p) \in [Return -> 0..MaxLine]
    /\ Sold(p) = Cardinality(Boxes(Order, MaxLine, SoldMap(p)))
    /\ PutBack(p) = Cardinality(Boxes(Return, MaxLine, PutBackMap(p)))

LEMMA GoodsAreBoxes == SalesTyped => GoodsCounted
<1> SUFFICES ASSUME SalesTyped, NEW p \in Product
             PROVE  /\ SoldMap(p) \in [Order -> 0..MaxLine]
                    /\ PutBackMap(p) \in [Return -> 0..MaxLine]
                    /\ Sold(p) = Cardinality(Boxes(Order, MaxLine, SoldMap(p)))
                    /\ PutBack(p) = Cardinality(Boxes(Return, MaxLine, PutBackMap(p)))
  BY DEF GoodsCounted
<1>1. 0 \in 0..MaxLine
  BY DocumentsAssumption
<1>2. ASSUME NEW o \in Order
      PROVE  SoldOf(o, p) \in 0..MaxLine
  <2>1. orders[o].lines \in Lines
    BY DEF SalesTyped, OrderRecord
  <2> QED
    BY <1>1, <2>1, LinesAreMaps DEF SoldOf
<1>3. ASSUME NEW r \in Return
      PROVE  PutBackOf(r, p) \in 0..MaxLine
  BY <1>1, RestockableIsLines, LinesAreMaps DEF PutBackOf
<1>4. Sold(p) = Cardinality(Boxes(Order, MaxLine, SoldMap(p)))
  <2>1. {c \in Order \X (1..MaxLine) :
           orders[c[1]].status = "COMPLETED" /\ c[2] <= Units(orders[c[1]].lines, p)}
          = Boxes(Order, MaxLine, SoldMap(p))
    BY DEF Boxes, SoldMap, SoldOf
  <2> QED
    BY <2>1, Zenon DEF Sold
<1>5. PutBack(p) = Cardinality(Boxes(Return, MaxLine, PutBackMap(p)))
  <2> DEFINE Back(c) == /\ returns[c[1]].status = "COMPLETED"
                        /\ p \in DOMAIN returns[c[1]].lines
                        /\ returns[c[1]].lines[p].restock
                        /\ c[2] <= returns[c[1]].lines[p].quantity
  <2>1. ASSUME NEW c \in Return \X (1..MaxLine)
        PROVE  Back(c) <=> c[2] <= PutBackMap(p)[c[1]]
    <3>1. c[1] \in Return /\ c[2] >= 1
      BY DocumentsAssumption
    <3>2. PutBackMap(p)[c[1]] = PutBackOf(c[1], p)
      BY <3>1 DEF PutBackMap
    <3>3. Units(Restockable(c[1]), p)
            = IF p \in DOMAIN returns[c[1]].lines /\ returns[c[1]].lines[p].restock
                THEN returns[c[1]].lines[p].quantity ELSE 0
      BY <3>1, RestockableIsLines
    <3> QED
      BY <3>1, <3>2, <3>3 DEF PutBackOf
  <2>2. {c \in Return \X (1..MaxLine) : Back(c)} = Boxes(Return, MaxLine, PutBackMap(p))
    BY <2>1 DEF Boxes
  <2> QED
    BY <2>2, Zenon DEF PutBack
<1> QED
  BY <1>2, <1>3, <1>4, <1>5 DEF SoldMap, PutBackMap

LEMMA GoodsAfter == SalesTyped' => GoodsCounted'
  BY GoodsAreBoxes, PTL

(* What one order takes, and what one return puts back.                    *)
LEMMA SoldStep ==
  ASSUME SalesTyped, SalesTyped', NEW p \in Product, NEW o \in Order,
         \A q \in Order : q # o => orders'[q] = orders[q]
  PROVE  Sold(p) \in Nat /\ Sold(p)' = Sold(p) - SoldOf(o, p) + SoldOf(o, p)'
<1> DEFINE f == SoldMap(p)
           g == SoldMap(p)'
<1>1. f \in [Order -> 0..MaxLine] /\ Sold(p) = Cardinality(Boxes(Order, MaxLine, f))
  BY GoodsAreBoxes DEF GoodsCounted
<1>2. g \in [Order -> 0..MaxLine] /\ Sold(p)' = Cardinality(Boxes(Order, MaxLine, g))
  BY GoodsAfter DEF GoodsCounted
<1>3. \A q \in Order \ {o} : f[q] = g[q]
  BY DEF SoldMap, SoldOf
<1>4. f[o] = SoldOf(o, p) /\ g[o] = SoldOf(o, p)'
  BY DEF SoldMap
<1> HIDE DEF f, g
<1>5. /\ Cardinality(Boxes(Order, MaxLine, f)) \in Nat
      /\ Cardinality(Boxes(Order, MaxLine, g))
           = Cardinality(Boxes(Order, MaxLine, f)) - f[o] + g[o]
  BY <1>1, <1>2, <1>3, AfterSalesAssumption, DocumentsAssumption, BoxesChange
<1> QED
  BY <1>1, <1>2, <1>4, <1>5

LEMMA PutBackStep ==
  ASSUME SalesTyped, SalesTyped', NEW p \in Product, NEW r \in Return,
         \A q \in Return : q # r => returns'[q] = returns[q]
  PROVE  PutBack(p) \in Nat /\ PutBack(p)' = PutBack(p) - PutBackOf(r, p) + PutBackOf(r, p)'
<1> DEFINE f == PutBackMap(p)
           g == PutBackMap(p)'
<1>1. f \in [Return -> 0..MaxLine] /\ PutBack(p) = Cardinality(Boxes(Return, MaxLine, f))
  BY GoodsAreBoxes DEF GoodsCounted
<1>2. g \in [Return -> 0..MaxLine] /\ PutBack(p)' = Cardinality(Boxes(Return, MaxLine, g))
  BY GoodsAfter DEF GoodsCounted
<1>3. \A q \in Return \ {r} : f[q] = g[q]
  BY DEF PutBackMap, PutBackOf, Restockable
<1>4. f[r] = PutBackOf(r, p) /\ g[r] = PutBackOf(r, p)'
  BY DEF PutBackMap
<1> HIDE DEF f, g
<1>5. /\ Cardinality(Boxes(Return, MaxLine, f)) \in Nat
      /\ Cardinality(Boxes(Return, MaxLine, g))
           = Cardinality(Boxes(Return, MaxLine, f)) - f[r] + g[r]
  BY <1>1, <1>2, <1>3, ReturnsAssumption, DocumentsAssumption, BoxesChange
<1> QED
  BY <1>1, <1>2, <1>4, <1>5

GoodsMove(p) ==
  inventory'[<<p, Default>>].quantity + Sold(p)' - PutBack(p)'
    = inventory[<<p, Default>>].quantity + Sold(p) - PutBack(p)

(* The shelf loses what an order takes.                                    *)
LEMMA OrderGoodsStep ==
  ASSUME SalesTyped, SalesTyped', NEW o \in Order, OneOrderMoves(o), NEW p \in Product,
         PutBack(p) \in Nat, inventory[<<p, Default>>].quantity \in Nat,
         inventory'[<<p, Default>>].quantity
           = inventory[<<p, Default>>].quantity + SoldOf(o, p) - SoldOf(o, p)'
  PROVE  GoodsMove(p)
<1>1. Sold(p) \in Nat /\ Sold(p)' = Sold(p) - SoldOf(o, p) + SoldOf(o, p)'
  BY SoldStep DEF OneOrderMoves, SalesTyped
<1>2. PutBack(p)' = PutBack(p)
  BY DEF OneOrderMoves, PutBack
<1>3. SoldOf(o, p) \in Int /\ SoldOf(o, p)' \in Int
  <2>1. orders[o].lines \in Lines /\ orders'[o].lines \in Lines
    BY DEF OneOrderMoves, SalesTyped, OrderRecord
  <2> QED
    BY <2>1, LinesAreMaps, DocumentsAssumption DEF SoldOf
<1> QED
  BY <1>1, <1>2, <1>3 DEF GoodsMove

LEMMA SellGoods ==
  ASSUME SalesTyped, NEW o \in Order, Sell(o), NEW p \in Product
  PROVE  inventory'[<<p, Default>>].quantity
           = inventory[<<p, Default>>].quantity + SoldOf(o, p) - SoldOf(o, p)'
<1> DEFINE r == <<p, Default>>
           lines == orders[o].lines
<1>1. r \in Row /\ r[1] = p /\ r[2] = Default /\ inventory[r].quantity \in Nat
  BY DocumentsAssumption, RowsAssumption DEF SalesTyped, StockSound, StockRow, Row
<1>2. lines \in Lines /\ Units(lines, p) \in Nat
  BY LinesAreMaps, DocumentsAssumption DEF SalesTyped, OrderRecord
<1>3. inventory \in [Row -> StockRow] /\ Asked(Default, lines, r) = Units(lines, p)
  BY <1>1 DEF SalesTyped, StockSound, Asked
<1>4. ASSUME NEW from, NEW to, MoveOrder(o, from, to)
      PROVE  /\ orders[o].status = from /\ orders'[o].status = to
             /\ orders'[o].lines = lines
  BY <1>4 DEF MoveOrder, SalesTyped, OrderRecord
<1> HIDE DEF r, lines
<1>5. CASE ConfirmOrder(o)
  <2>1. MoveOrder(o, "DRAFT", "CONFIRMED") /\ Apply(Ask("reserve", Default, lines))
    BY <1>5 DEF ConfirmOrder, lines
  <2>2. SoldOf(o, p) = 0 /\ SoldOf(o, p)' = 0
    BY <1>4, <2>1 DEF SoldOf
  <2>3. inventory'[r].quantity = inventory[r].quantity
    BY <1>1, <1>2, <1>3, <2>1, AskMoves, DocumentsAssumption
  <2> QED
    BY <1>1, <2>2, <2>3 DEF r
<1>6. CASE CompleteOrder(o)
  <2>1. MoveOrder(o, "CONFIRMED", "COMPLETED") /\ Apply(Ask("consume", Default, lines))
    BY <1>6 DEF CompleteOrder, lines
  <2>2. SoldOf(o, p) = 0 /\ SoldOf(o, p)' = Units(lines, p)
    BY <1>4, <2>1 DEF SoldOf
  <2>3. inventory'[r].quantity = inventory[r].quantity - Units(lines, p)
    BY <1>1, <1>2, <1>3, <2>1, AskMoves, DocumentsAssumption
  <2> QED
    BY <1>1, <1>2, <2>2, <2>3 DEF r
<1>7. CASE CancelDraft(o)
  <2>1. MoveOrder(o, "DRAFT", "CANCELLED") /\ inventory' = inventory
    BY <1>7 DEF CancelDraft, stockVars
  <2>2. SoldOf(o, p) = 0 /\ SoldOf(o, p)' = 0
    BY <1>4, <2>1 DEF SoldOf
  <2> QED
    BY <1>1, <2>1, <2>2 DEF r
<1>8. CASE CancelConfirmed(o)
  <2>1. MoveOrder(o, "CONFIRMED", "CANCELLED") /\ Apply(Ask("release", Default, lines))
    BY <1>8 DEF CancelConfirmed, lines
  <2>2. SoldOf(o, p) = 0 /\ SoldOf(o, p)' = 0
    BY <1>4, <2>1 DEF SoldOf
  <2>3. inventory'[r].quantity = inventory[r].quantity
    BY <1>1, <1>2, <1>3, <2>1, AskMoves, DocumentsAssumption
  <2> QED
    BY <1>1, <2>2, <2>3 DEF r
<1> QED
  BY <1>5, <1>6, <1>7, <1>8 DEF Sell

LEMMA GoodsAreNumbers ==
  ASSUME SalesTyped, NEW p \in Product
  PROVE  /\ Sold(p) \in Nat /\ PutBack(p) \in Nat
         /\ inventory[<<p, Default>>].quantity \in Nat
<1>1. /\ SoldMap(p) \in [Order -> 0..MaxLine] /\ PutBackMap(p) \in [Return -> 0..MaxLine]
      /\ Sold(p) = Cardinality(Boxes(Order, MaxLine, SoldMap(p)))
      /\ PutBack(p) = Cardinality(Boxes(Return, MaxLine, PutBackMap(p)))
  BY GoodsAreBoxes DEF GoodsCounted
<1>2. IsFiniteSet(Order) /\ IsFiniteSet(Return) /\ MaxLine \in Nat
  BY AfterSalesAssumption, ReturnsAssumption, DocumentsAssumption
<1>3. Sold(p) \in Nat
  BY <1>1, <1>2, BoxesAreFinite, Zenon
<1>4. PutBack(p) \in Nat
  BY <1>1, <1>2, BoxesAreFinite, Zenon
<1>5. inventory[<<p, Default>>].quantity \in Nat
  BY DocumentsAssumption, RowsAssumption DEF SalesTyped, StockSound, StockRow, Row
<1> QED
  BY <1>3, <1>4, <1>5

(* The shelf gains what a return puts back.                                *)
LEMMA GiveBackGoods ==
  ASSUME SalesTyped, ReturnsSound, SalesTyped', NEW r \in Return, GiveBack(r),
         NEW p \in Product
  PROVE  GoodsMove(p)
<1> DEFINE row == <<p, Default>>
           back == Units(Restockable(r), p)
<1>1. row \in Row /\ row[1] = p /\ row[2] = Default /\ inventory[row].quantity \in Nat
  BY DocumentsAssumption, RowsAssumption DEF SalesTyped, StockSound, StockRow, Row
<1>2. Restockable(r) \in Lines /\ back \in Nat
  BY RestockableIsLines, LinesAreMaps, DocumentsAssumption
<1>3. /\ Completed(r) /\ Apply(Ask("restore", Default, Restockable(r)))
      /\ inventory \in [Row -> StockRow]
  BY CompletedReturn DEF GiveBack, CompleteReturn, SalesTyped, StockSound
<1>4. Asked(Default, Restockable(r), row) = back
  BY <1>1 DEF Asked
<1>5. inventory'[row].quantity = inventory[row].quantity + back
  <2> HIDE DEF row, back
  <2> QED
    BY <1>1, <1>2, <1>3, <1>4, AskMoves, DocumentsAssumption
<1>6. Sold(p)' = Sold(p) /\ Sold(p) \in Nat
  <2>1. SoldMap(p)' = SoldMap(p)
    BY <1>3 DEF Completed, SameButPayment, SoldMap, SoldOf
  <2>2. /\ Sold(p) = Cardinality(Boxes(Order, MaxLine, SoldMap(p)))
        /\ Sold(p)' = Cardinality(Boxes(Order, MaxLine, SoldMap(p)'))
    BY GoodsAreBoxes, GoodsAfter DEF GoodsCounted
  <2>3. Sold(p)' = Sold(p)
    BY <2>1, <2>2, Zenon
  <2> QED
    BY <2>3, GoodsAreNumbers
<1>7. PutBackOf(r, p) = 0 /\ PutBackOf(r, p)' = back
  <2>1. Restockable(r)' = Restockable(r)
    BY <1>3 DEF Completed, Restockable
  <2> QED
    BY <1>3, <2>1 DEF Completed, PutBackOf
<1>8. \A q \in Return : q # r => returns'[q] = returns[q]
  BY <1>3 DEF Completed, OneReturnMoves, SalesTyped
<1>9. PutBack(p) \in Nat /\ PutBack(p)' = PutBack(p) - PutBackOf(r, p) + PutBackOf(r, p)'
  BY <1>8, PutBackStep
<1> QED
  BY <1>1, <1>2, <1>5, <1>6, <1>7, <1>9 DEF GoodsMove

LEMMA GoodsInductive ==
  SalesSound /\ GoodsConserved /\ [Next]_vars => GoodsConserved'
<1> SUFFICES ASSUME SalesSound, GoodsConserved, [Next]_vars, NEW p \in Product
             PROVE  GoodsMove(p)
  BY DEF GoodsConserved, GoodsMove
<1>1. SalesTyped /\ ReturnsSound /\ SalesTyped' /\ SalesSound'
  BY SalesSoundInductive DEF SalesSound
<1>2. /\ Sold(p) \in Nat /\ PutBack(p) \in Nat
      /\ inventory[<<p, Default>>].quantity \in Nat
  BY <1>1, GoodsAreNumbers
<1>3. ASSUME NEW o \in Order, Edit(o)
      PROVE  GoodsMove(p)
  <2>1. /\ OneOrderMoves(o) /\ orders[o].status \in Editable
        /\ orders'[o].status = "DRAFT" /\ inventory' = inventory
    BY <1>1, <1>3, EditMoves DEF stockVars
  <2>2. SoldOf(o, p) = 0 /\ SoldOf(o, p)' = 0
    BY <2>1 DEF SoldOf, Editable
  <2> QED
    BY <1>1, <1>2, <2>1, <2>2, OrderGoodsStep
<1>4. ASSUME NEW o \in Order, Sell(o)
      PROVE  GoodsMove(p)
  BY <1>1, <1>2, <1>4, SellMoves, SellGoods, OrderGoodsStep
<1>5. ASSUME NEW o \in Order, NEW amount \in 1..MaxAmount, Collect(o, amount)
      PROVE  GoodsMove(p)
  <2>1. /\ OneOrderMoves(o) /\ WentOutStays(o) /\ inventory' = inventory
        /\ orders'[o].status = orders[o].status
    BY <1>1, <1>5, CollectMoves DEF stockVars
  <2>2. SoldOf(o, p)' = SoldOf(o, p)
    BY <2>1 DEF SoldOf, WentOutStays
  <2>3. SoldOf(o, p) \in Nat
    BY <1>1, LinesAreMaps, DocumentsAssumption DEF SoldOf, SalesTyped, OrderRecord
  <2> QED
    BY <1>1, <1>2, <2>1, <2>2, <2>3, OrderGoodsStep
<1>6. ASSUME NEW r \in Return, TakeBack(r)
      PROVE  GoodsMove(p)
  <2>1. Pending(r)
    BY <1>1, <1>6, TakeBackPending
  <2>2. PutBackOf(r, p) = 0 /\ PutBackOf(r, p)' = 0
    BY <2>1 DEF PutBackOf, Pending
  <2>3. PutBack(p)' = PutBack(p)
    BY <1>1, <1>2, <2>1, <2>2, PutBackStep DEF Pending, OneReturnMoves, SalesTyped
  <2>4. Sold(p)' = Sold(p) /\ inventory' = inventory
    BY <2>1 DEF Pending, Sold, stockVars
  <2> QED
    BY <2>3, <2>4 DEF GoodsMove
<1>7. ASSUME NEW r \in Return, GiveBack(r)
      PROVE  GoodsMove(p)
  BY <1>1, <1>7, GiveBackGoods
<1>8. CASE UNCHANGED <<stockVars, orders, returnVars>>
  BY <1>8 DEF GoodsMove, Sold, PutBack, stockVars, returnVars
<1> QED
  BY <1>3, <1>4, <1>5, <1>6, <1>7, <1>8 DEF Next, vars

(* The shelf lacks exactly what completed sales took less what completed   *)
(* returns accepted for sale again, for any number of orders and returns   *)
(* (complete in orders.service.ts and in returns.service.ts).              *)
THEOREM GoodsComeAndGo == Spec => []GoodsConserved
<1>1. Init => GoodsConserved
  <2> SUFFICES ASSUME Init, NEW p \in Product
               PROVE  inventory[<<p, Default>>].quantity + Sold(p) - PutBack(p) = MaxQuantity
    BY DEF GoodsConserved
  <2>1. inventory[<<p, Default>>].quantity = MaxQuantity
    BY DocumentsAssumption DEF Init, Row
  <2>2. \A o \in Order : orders[o].status # "COMPLETED"
    BY DEF Init, OrdersInit, NoOrder
  <2>3. \A r \in Return : returns[r].status # "COMPLETED"
    BY DEF Init, ReturnsInit, NoReturn
  <2>4. {c \in Order \X (1..MaxLine) :
           orders[c[1]].status = "COMPLETED" /\ c[2] <= Units(orders[c[1]].lines, p)} = {}
    BY <2>2
  <2>5. {c \in Return \X (1..MaxLine) :
           /\ returns[c[1]].status = "COMPLETED"
           /\ p \in DOMAIN returns[c[1]].lines
           /\ returns[c[1]].lines[p].restock
           /\ c[2] <= returns[c[1]].lines[p].quantity} = {}
    BY <2>3
  <2>6. Sold(p) = 0 /\ PutBack(p) = 0
    BY <2>4, <2>5, FS_EmptySet DEF Sold, PutBack
  <2> QED
    BY <2>1, <2>6, RowsAssumption
<1> QED
  BY <1>1, SalesStartSound, SalesSoundInductive, GoodsInductive, PTL DEF Spec

=============================================================================

---------------------------- MODULE OrdersProofs ----------------------------
(***************************************************************************)
(* Lines, requests, orders and sums - which are the numbers of elements of *)
(* sets - as the proofs about the shop and about its sales use them, and   *)
(* the proofs about tills and clerks, who work on orders and expenses with *)
(* whatever else is modelled beside them: no sale is completed at a till   *)
(* before it is paid; every expense has one entry in the ledger.           *)
(***************************************************************************)
EXTENDS Orders, PointOfSale, Finance, StockRowsProofs, FiniteSetTheorems, TLAPS

----------------------------------------------------------------------------
(* Lines.                                                                  *)

LEMMA LinesAreMaps ==
  ASSUME NEW lines \in Lines
  PROVE  /\ DOMAIN lines \subseteq Product
         /\ \A p \in DOMAIN lines : lines[p] \in 1..MaxLine
         /\ \A p : Units(lines, p) \in 0..MaxLine
         /\ \A p : Units(lines, p) > 0 => p \in DOMAIN lines
<1>1. DOMAIN lines \subseteq Product /\ \A p \in DOMAIN lines : lines[p] \in 1..MaxLine
  BY DEF Lines
<1> QED
  BY <1>1, DocumentsAssumption DEF Units

LEMMA MapIsLines ==
  ASSUME NEW D \in SUBSET Product, NEW f \in [D -> 1..MaxLine]
  PROVE  f \in Lines
  BY DEF Lines

LEMMA EditedLines ==
  ASSUME NEW lines \in Lines, NEW p \in Product, NEW n \in 1..MaxLine
  PROVE  /\ WithLine(lines, p, n) \in Lines
         /\ OneLine(p, n) \in Lines
<1>1. DOMAIN lines \subseteq Product /\ \A q \in DOMAIN lines : lines[q] \in 1..MaxLine
  BY LinesAreMaps
<1>2. WithLine(lines, p, n) \in [DOMAIN lines \cup {p} -> 1..MaxLine]
  BY <1>1 DEF WithLine
<1>4. OneLine(p, n) \in [{p} -> 1..MaxLine]
  BY DEF OneLine
<1>5. /\ DOMAIN lines \cup {p} \in SUBSET Product
      /\ {p} \in SUBSET Product
  BY <1>1
<1> QED
  BY <1>2, <1>4, <1>5, MapIsLines

LEMMA WithoutIsLines ==
  ASSUME NEW lines \in Lines, NEW p
  PROVE  WithoutLine(lines, p) \in Lines
<1>1. DOMAIN lines \subseteq Product /\ \A q \in DOMAIN lines : lines[q] \in 1..MaxLine
  BY LinesAreMaps
<1>2. WithoutLine(lines, p) \in [DOMAIN lines \ {p} -> 1..MaxLine]
  BY <1>1 DEF WithoutLine
<1>3. DOMAIN lines \ {p} \in SUBSET Product
  BY <1>1
<1> QED
  BY <1>2, <1>3, MapIsLines

LEMMA EmptyLines == NoLines \in Lines /\ \A p : Units(NoLines, p) = 0
<1>1. NoLines \in [{} -> 1..MaxLine]
  BY DEF NoLines
<1> QED
  BY <1>1 DEF Lines, Units, NoLines

LEMMA EditedUnits ==
  ASSUME NEW lines \in Lines, NEW p, NEW n, NEW q
  PROVE  /\ Units(WithLine(lines, p, n), q) = IF q = p THEN n ELSE Units(lines, q)
         /\ Units(OneLine(p, n), q) = IF q = p THEN n ELSE 0
  BY DEF Units, WithLine, OneLine

LEMMA WithoutUnits ==
  ASSUME NEW lines \in Lines, NEW p, NEW q
  PROVE  Units(WithoutLine(lines, p), q) = IF q = p THEN 0 ELSE Units(lines, q)
  BY DEF Units, WithoutLine

----------------------------------------------------------------------------
(* A request that is granted.                                              *)

(* The requests of the documents are well formed.                          *)
LEMMA AskIsWellFormed ==
  ASSUME NEW kind \in Kind \ SignedKind, NEW l \in Location, NEW lines \in Lines
  PROVE  WellFormed(Ask(kind, l, lines))
<1>1. DOMAIN lines \subseteq Product /\ \A p \in DOMAIN lines : lines[p] \in 1..MaxLine
  BY LinesAreMaps
<1> QED
  BY <1>1, DocumentsAssumption DEF WellFormed, Ask, SignedKind

(* Every row is left alone, or is updated by a statement that matched it.  *)
LEMMA ApplyEffect ==
  ASSUME inventory \in [Row -> StockRow], NEW req, WellFormed(req), Apply(req),
         NEW r \in Row
  PROVE  \/ /\ r \notin Targets(req)
            /\ inventory'[r] = inventory[r]
         \/ /\ r \in Targets(req) /\ r \in rows'
            /\ r[1] \in DOMAIN req.lines /\ r[2] = req.location
            /\ req.lines[r[1]] \in Int
            /\ req.kind \notin SignedKind => req.lines[r[1]] > 0
            /\ FindsRow(req.kind, r, rows)
            /\ Permits(req.kind, inventory[r], req.lines[r[1]])
            /\ inventory'[r] = After(req.kind, inventory[r], req.lines[r[1]])
  BY DEF Apply, Accepts, Targets, WellFormed, Row

LEMMA ApplyTypes ==
  ASSUME inventory \in [Row -> StockRow], rows \subseteq Row,
         NEW req, WellFormed(req), Apply(req)
  PROVE  inventory' \in [Row -> StockRow] /\ rows' \subseteq Row
<1>1. req.kind \in Kind
  BY DEF WellFormed
<1>2. ASSUME NEW r \in Row
      PROVE  inventory'[r] \in StockRow
  <2>1. inventory[r] \in StockRow
    OBVIOUS
  <2> QED
    BY <1>1, <2>1, ApplyEffect, AfterIsRow
<1>3. inventory' \in [Row -> StockRow]
  <2>1. inventory' = [r \in Row |-> inventory'[r]]
    BY DEF Apply
  <2> QED
    BY <1>2, <2>1
<1>4. Targets(req) \subseteq Row
  BY DEF Targets, WellFormed, Row
<1> QED
  BY <1>3, <1>4 DEF Apply

(* No row is over-reserved, and there are no units without a row.          *)
ShelvesSound ==
  \A r \in Row :
    /\ inventory[r].reserved <= inventory[r].quantity
    /\ r \notin rows => inventory[r] = EmptyRow

LEMMA ApplySound ==
  ASSUME inventory \in [Row -> StockRow], ShelvesSound,
         NEW req, WellFormed(req), Apply(req)
  PROVE  ShelvesSound'
<1> SUFFICES ASSUME NEW r \in Row
             PROVE  /\ inventory'[r].reserved <= inventory'[r].quantity
                    /\ r \notin rows' => inventory'[r] = EmptyRow
  BY DEF ShelvesSound
<1>1. req.kind \in Kind /\ rows \subseteq rows'
  BY DEF WellFormed, Apply
<1>2. inventory[r] \in StockRow
  OBVIOUS
<1>3. /\ inventory[r].reserved <= inventory[r].quantity
      /\ r \notin rows => inventory[r] = EmptyRow
  BY DEF ShelvesSound
<1>4. CASE inventory'[r] = inventory[r] /\ r \notin Targets(req)
  BY <1>1, <1>3, <1>4
<1>5. CASE r \in Targets(req)
  BY <1>1, <1>2, <1>3, <1>5, ApplyEffect, AfterWithinQuantity
<1> QED
  BY <1>4, <1>5, ApplyEffect

(* What a request of a document does to the reservations.                  *)
Asked(l, lines, r) == IF r[2] = l THEN Units(lines, r[1]) ELSE 0

LEMMA AskReserves ==
  ASSUME inventory \in [Row -> StockRow], NEW kind \in {"reserve", "consume", "release"},
         NEW l \in Location, NEW lines \in Lines, Apply(Ask(kind, l, lines)),
         NEW r \in Row
  PROVE  inventory'[r].reserved =
           IF kind = "reserve" THEN inventory[r].reserved + Asked(l, lines, r)
                               ELSE inventory[r].reserved - Asked(l, lines, r)
<1> DEFINE req == Ask(kind, l, lines)
<1>1. WellFormed(req) /\ req.kind = kind /\ req.location = l /\ req.lines = lines
  BY AskIsWellFormed DEF Ask, Kind, SignedKind
<1>2. inventory[r].reserved \in Nat
  BY DEF StockRow
<1>3. r \in Targets(req) <=> r[2] = l /\ r[1] \in DOMAIN lines
  BY <1>1 DEF Targets, Row
<1>4. CASE r \in Targets(req)
  <2>1. inventory'[r] = After(kind, inventory[r], lines[r[1]])
    BY <1>1, <1>4, ApplyEffect
  <2>2. Asked(l, lines, r) = lines[r[1]] /\ Asked(l, lines, r) \in Nat
    BY <1>3, <1>4, LinesAreMaps DEF Units, Asked
  <2>3. inventory'[r].reserved = inventory[r].reserved + ReservedDelta(kind, lines[r[1]])
    BY <2>1 DEF After
  <2> QED
    BY <1>2, <2>2, <2>3 DEF ReservedDelta
<1>5. CASE r \notin Targets(req)
  <2>1. inventory'[r] = inventory[r]
    BY <1>1, <1>5, ApplyEffect
  <2>2. Asked(l, lines, r) = 0
    BY <1>3, <1>5 DEF Units, Asked
  <2> QED
    BY <1>2, <2>1, <2>2
<1> QED
  BY <1>4, <1>5

(* The signed requests leave the reservations alone, and so do the arrival *)
(* of a transfer and goods put back on the shelf.                          *)
LEMMA OthersReserveNothing ==
  ASSUME inventory \in [Row -> StockRow], NEW req, WellFormed(req), Apply(req),
         req.kind \in SignedKind \cup {"restore", "arrive"}, NEW r \in Row
  PROVE  inventory'[r].reserved = inventory[r].reserved
<1>1. inventory[r].reserved \in Nat
  BY DEF StockRow
<1>2. \A n : ReservedDelta(req.kind, n) = 0
  BY DEF ReservedDelta, SignedKind
<1>3. CASE inventory'[r] = inventory[r]
  BY <1>3
<1>4. CASE inventory'[r] = After(req.kind, inventory[r], req.lines[r[1]])
  <2>1. inventory'[r].reserved
          = inventory[r].reserved + ReservedDelta(req.kind, req.lines[r[1]])
    BY <1>4 DEF After
  <2> QED
    BY <1>1, <1>2, <2>1
<1> QED
  BY <1>3, <1>4, ApplyEffect

(* And to the quantities: goods leave when they are consumed and are back  *)
(* when they are restored, or arrive.                                      *)
LEMMA AskMoves ==
  ASSUME inventory \in [Row -> StockRow],
         NEW kind \in {"reserve", "consume", "release", "restore", "arrive"},
         NEW l \in Location, NEW lines \in Lines, Apply(Ask(kind, l, lines)),
         NEW r \in Row
  PROVE  inventory'[r].quantity =
           IF kind = "consume" THEN inventory[r].quantity - Asked(l, lines, r)
           ELSE IF kind \in {"restore", "arrive"}
             THEN inventory[r].quantity + Asked(l, lines, r)
           ELSE inventory[r].quantity
<1> DEFINE req == Ask(kind, l, lines)
<1>1. WellFormed(req) /\ req.kind = kind /\ req.location = l /\ req.lines = lines
  BY AskIsWellFormed DEF Ask, Kind, SignedKind
<1>2. inventory[r].quantity \in Nat
  BY RowsAssumption DEF StockRow
<1>3. r \in Targets(req) <=> r[2] = l /\ r[1] \in DOMAIN lines
  BY <1>1 DEF Targets, Row
<1>4. CASE r \in Targets(req)
  <2>1. inventory'[r] = After(kind, inventory[r], lines[r[1]])
    BY <1>1, <1>4, ApplyEffect
  <2>2. Asked(l, lines, r) = lines[r[1]] /\ Asked(l, lines, r) \in Nat
    BY <1>3, <1>4, LinesAreMaps DEF Units, Asked
  <2>3. inventory'[r].quantity = inventory[r].quantity + QuantityDelta(kind, lines[r[1]])
    BY <2>1 DEF After
  <2> QED
    BY <1>2, <2>2, <2>3 DEF QuantityDelta
<1>5. CASE r \notin Targets(req)
  <2>1. inventory'[r] = inventory[r]
    BY <1>1, <1>5, ApplyEffect
  <2>2. Asked(l, lines, r) = 0
    BY <1>3, <1>5 DEF Units, Asked
  <2> QED
    BY <1>2, <2>1, <2>2
<1> QED
  BY <1>4, <1>5

----------------------------------------------------------------------------
(* Types.                                                                  *)

(* The types of the inventory, and with them what every request keeps.     *)
StockSound == inventory \in [Row -> StockRow] /\ rows \subseteq Row /\ ShelvesSound

LEMMA AskTypes ==
  ASSUME StockSound, NEW kind \in Kind \ SignedKind, NEW l \in Location,
         NEW lines \in Lines, Apply(Ask(kind, l, lines))
  PROVE  StockSound'
  BY AskIsWellFormed, ApplyTypes, ApplySound DEF StockSound

LEMMA StockUnchanged ==
  ASSUME StockSound, UNCHANGED stockVars
  PROVE  StockSound'
  BY DEF StockSound, ShelvesSound, stockVars

LEMMA RepriceTypes ==
  ASSUME orders \in [Order -> OrderRecord], StockSound,
         NEW o \in Order, NEW lines \in Lines,
         NEW subtotal \in Amount, NEW discount \in Amount, NEW tax \in Amount,
         Reprice(o, lines, subtotal, discount, tax)
  PROVE  orders' \in [Order -> OrderRecord] /\ StockSound'
<1>1. orders[o] \in OrderRecord
  OBVIOUS
<1>2. [orders[o] EXCEPT !.status = "DRAFT", !.lines = lines, !.subtotal = subtotal,
                        !.discount = discount, !.tax = tax] \in OrderRecord
  BY <1>1 DEF OrderRecord, OrderStatus
<1>3. orders' \in [Order -> OrderRecord]
  BY <1>2 DEF Reprice
<1> QED
  BY <1>1, <1>3, StockUnchanged DEF Reprice

LEMMA EditOrderTypes ==
  ASSUME orders \in [Order -> OrderRecord], StockSound, NEW o \in Order, EditOrder(o)
  PROVE  orders' \in [Order -> OrderRecord] /\ StockSound'
<1>1. /\ orders[o].lines \in Lines /\ orders[o].subtotal \in Amount
      /\ orders[o].discount \in Amount /\ orders[o].tax \in Amount
  BY DEF OrderRecord
<1>2. ASSUME NEW lines \in Lines, NEW subtotal \in Amount, NEW discount \in Amount,
             NEW tax \in Amount, CreateOrder(o, lines, subtotal, discount, tax)
      PROVE  orders' \in [Order -> OrderRecord] /\ StockSound'
  BY <1>2, RepriceTypes DEF CreateOrder
<1>3. ASSUME NEW discount \in Amount, NEW tax \in Amount, UpdateOrder(o, discount, tax)
      PROVE  orders' \in [Order -> OrderRecord] /\ StockSound'
  BY <1>1, <1>3, RepriceTypes DEF UpdateOrder
<1>4. ASSUME NEW p \in Product, NEW n \in 1..MaxLine, NEW subtotal \in Amount,
             AddOrderItem(o, p, n, subtotal) \/ UpdateOrderItem(o, p, n, subtotal)
      PROVE  orders' \in [Order -> OrderRecord] /\ StockSound'
  <2>1. WithLine(orders[o].lines, p, n) \in Lines
    BY <1>1, EditedLines
  <2>2. Reprice(o, WithLine(orders[o].lines, p, n), subtotal,
                orders[o].discount, orders[o].tax)
    BY <1>4 DEF AddOrderItem, UpdateOrderItem
  <2> QED
    BY <1>1, <2>1, <2>2, RepriceTypes
<1>5. ASSUME NEW p \in Product, NEW subtotal \in Amount, RemoveOrderItem(o, p, subtotal)
      PROVE  orders' \in [Order -> OrderRecord] /\ StockSound'
  <2>1. WithoutLine(orders[o].lines, p) \in Lines
    BY <1>1, WithoutIsLines
  <2>2. Reprice(o, WithoutLine(orders[o].lines, p), subtotal,
                orders[o].discount, orders[o].tax)
    BY <1>5 DEF RemoveOrderItem
  <2> QED
    BY <1>1, <2>1, <2>2, RepriceTypes
<1> QED
  BY <1>2, <1>3, <1>4, <1>5 DEF EditOrder

LEMMA OrdersTypes ==
  ASSUME orders \in [Order -> OrderRecord], StockSound, OrdersNext
  PROVE  orders' \in [Order -> OrderRecord] /\ StockSound'
<1> DEFINE Typed == orders' \in [Order -> OrderRecord] /\ StockSound'
<1>1. StockSound
  OBVIOUS
<1>2. ASSUME NEW o \in Order, NEW from, NEW to \in OrderStatus, MoveOrder(o, from, to)
      PROVE  orders' \in [Order -> OrderRecord]
  <2>1. orders[o] \in OrderRecord
    OBVIOUS
  <2>2. [orders[o] EXCEPT !.status = to] \in OrderRecord
    BY <2>1 DEF OrderRecord
  <2> QED
    BY <1>2, <2>2 DEF MoveOrder
<1>3. ASSUME NEW o \in Order PROVE orders[o].lines \in Lines
  BY DEF OrderRecord
<1>4. {"CONFIRMED", "COMPLETED", "CANCELLED"} \subseteq OrderStatus
  BY DEF OrderStatus
<1>5. {"reserve", "consume", "release"} \subseteq Kind \ SignedKind
  BY DEF Kind, SignedKind
<1>6. ASSUME NEW o \in Order, EditOrder(o)
      PROVE  Typed
  BY <1>6, EditOrderTypes
<1>7. ASSUME NEW o \in Order,
             ConfirmOrder(o) \/ CompleteOrder(o) \/ CancelConfirmed(o)
      PROVE  Typed
  <2>1. orders' \in [Order -> OrderRecord]
    BY <1>2, <1>4, <1>7 DEF ConfirmOrder, CompleteOrder, CancelConfirmed
  <2>2. StockSound'
    BY <1>1, <1>3, <1>5, <1>7, AskTypes, DocumentsAssumption
    DEF ConfirmOrder, CompleteOrder, CancelConfirmed
  <2> QED
    BY <2>1, <2>2
<1>8. ASSUME NEW o \in Order, CancelDraft(o)
      PROVE  Typed
  BY <1>1, <1>2, <1>4, <1>8, StockUnchanged DEF CancelDraft
<1>9. ASSUME NEW o \in Order, NEW amount \in 1..MaxAmount, AddOrderPayment(o, amount)
      PROVE  Typed
  <2> DEFINE paid == orders[o].paid + amount
             after == [orders[o] EXCEPT !.paid = paid,
                        !.paymentStatus = PaymentStatusFor(paid, Total(orders[o]))]
  <2>1. orders[o] \in OrderRecord
    OBVIOUS
  <2>2. paid \in 0..2 * MaxAmount
    BY <1>9, <2>1, OrdersAssumption DEF AddOrderPayment, OrderRecord, Total, Amount
  <2>3. PaymentStatusFor(paid, Total(orders[o])) \in PaymentStatus
    BY DEF PaymentStatusFor, PaymentStatus
  <2> HIDE DEF paid
  <2>4. after \in OrderRecord
    BY <2>1, <2>2, <2>3 DEF OrderRecord
  <2>5. orders' = [orders EXCEPT ![o] = after]
    BY <1>9 DEF AddOrderPayment, paid
  <2> QED
    BY <1>1, <1>9, <2>4, <2>5, StockUnchanged DEF AddOrderPayment
<1> QED
  BY <1>6, <1>7, <1>8, <1>9 DEF OrdersNext

----------------------------------------------------------------------------
(* Sums: of f over D is the cardinality of a set with f[d] elements for    *)
(* each d.                                                                 *)

Boxes(D, M, f) == {b \in D \X (1..M) : b[2] <= f[b[1]]}

(* n units of one document.                                                *)
LEMMA ColumnCard ==
  ASSUME NEW d, NEW n \in Nat
  PROVE  IsFiniteSet({d} \X (1..n)) /\ Cardinality({d} \X (1..n)) = n
<1>1. IsFiniteSet({d}) /\ Cardinality({d}) = 1
  BY FS_Singleton, Zenon
<1>2. IsFiniteSet(1..n) /\ Cardinality(1..n) = n
  BY FS_Interval
<1>3. IsFiniteSet({d} \X (1..n)) /\ Cardinality({d} \X (1..n)) = Cardinality({d}) * Cardinality(1..n)
  BY <1>1, <1>2, FS_Product, Zenon
<1> QED
  BY <1>1, <1>2, <1>3

LEMMA BoxesAreFinite ==
  ASSUME NEW D, IsFiniteSet(D), NEW M \in Nat, NEW f \in [D -> 0..M]
  PROVE  IsFiniteSet(Boxes(D, M, f)) /\ Cardinality(Boxes(D, M, f)) \in Nat
<1>1. IsFiniteSet(1..M)
  BY FS_Interval
<1>2. IsFiniteSet(D \X (1..M))
  BY <1>1, FS_Product, Zenon
<1>3. Boxes(D, M, f) \in SUBSET (D \X (1..M))
  BY DEF Boxes
<1>4. IsFiniteSet(Boxes(D, M, f))
  BY <1>2, <1>3, FS_Subset, Zenon
<1> QED
  BY <1>4, FS_CardinalityType

(* When one document changes what it holds, the sum changes by as much.    *)
LEMMA BoxesChange ==
  ASSUME NEW D, IsFiniteSet(D), NEW M \in Nat,
         NEW f \in [D -> 0..M], NEW g \in [D -> 0..M],
         NEW d \in D, \A e \in D \ {d} : f[e] = g[e]
  PROVE  /\ Cardinality(Boxes(D, M, f)) \in Nat
         /\ Cardinality(Boxes(D, M, g)) = Cardinality(Boxes(D, M, f)) - f[d] + g[d]
<1> DEFINE Rest == {b \in D \X (1..M) : b[1] # d /\ b[2] <= f[b[1]]}
<1>1. IsFiniteSet(1..M)
  BY FS_Interval
<1>2. IsFiniteSet(D \X (1..M))
  BY <1>1, FS_Product, Zenon
<1>3. IsFiniteSet(Rest) /\ Cardinality(Rest) \in Nat
  <2>1. Rest \in SUBSET (D \X (1..M))
    OBVIOUS
  <2>2. IsFiniteSet(Rest)
    BY <1>2, <2>1, FS_Subset, Zenon
  <2> HIDE DEF Rest
  <2> QED
    BY <2>2, FS_CardinalityType
<1>4. ASSUME NEW h \in [D -> 0..M], \A e \in D \ {d} : f[e] = h[e]
      PROVE  Cardinality(Boxes(D, M, h)) = Cardinality(Rest) + h[d]
  <2>1. Boxes(D, M, h) = Rest \cup ({d} \X (1..h[d]))
    BY <1>4 DEF Boxes
  <2>2. Rest \cap ({d} \X (1..h[d])) = {}
    OBVIOUS
  <2>3. h[d] \in Nat
    OBVIOUS
  <2> DEFINE Column == {d} \X (1..h[d])
  <2>4. IsFiniteSet(Column) /\ Cardinality(Column) = h[d]
    BY <2>3, ColumnCard
  <2> HIDE DEF Rest, Column
  <2>5. Cardinality(Rest \cup Column)
          = Cardinality(Rest) + Cardinality(Column) - Cardinality(Rest \cap Column)
    BY <1>3, <2>4, FS_Union, Zenon
  <2>6. Cardinality(Rest \cap Column) = 0
    BY <2>2, FS_EmptySet, Zenon DEF Column
  <2>7. Boxes(D, M, h) = Rest \cup Column
    BY <2>1 DEF Column
  <2> QED
    BY <1>3, <2>3, <2>4, <2>5, <2>6, <2>7
<1> HIDE DEF Rest
<1>5. Cardinality(Boxes(D, M, f)) = Cardinality(Rest) + f[d]
  BY <1>4
<1>6. Cardinality(Boxes(D, M, g)) = Cardinality(Rest) + g[d]
  BY <1>4
<1> QED
  BY <1>3, <1>5, <1>6

(* The sum over a part of D: the others contribute nothing.                *)
LEMMA PartIsBoxes ==
  ASSUME NEW D, NEW M \in Nat, NEW S \in SUBSET D, NEW f \in [D -> 0..M]
  PROVE  {c \in S \X (1..M) : c[2] <= f[c[1]]}
           = Boxes(D, M, [d \in D |-> IF d \in S THEN f[d] ELSE 0])
  BY DEF Boxes

(* Nothing adds up to nothing.                                             *)
LEMMA NoBoxes ==
  ASSUME NEW D, NEW M \in Nat, NEW f \in [D -> 0..M], \A d \in D : f[d] = 0
  PROVE  Cardinality(Boxes(D, M, f)) = 0
<1>1. Boxes(D, M, f) = {}
  BY DEF Boxes
<1> QED
  BY <1>1, FS_EmptySet, Zenon

(* The sum over a part of D, without one d and with it.                    *)
PartSum(S, M, f) == Cardinality({c \in S \X (1..M) : c[2] <= f[c[1]]})

LEMMA PartSplits ==
  ASSUME NEW D, IsFiniteSet(D), NEW M \in Nat, NEW S \in SUBSET D,
         NEW f \in [D -> 0..M], NEW d \in D
  PROVE  /\ PartSum(S, M, f) \in Nat /\ PartSum(S \ {d}, M, f) \in Nat
         /\ PartSum(S, M, f) = PartSum(S \ {d}, M, f) + (IF d \in S THEN f[d] ELSE 0)
<1> DEFINE g == [e \in D |-> IF e \in S THEN f[e] ELSE 0]
           h == [e \in D |-> IF e \in S \ {d} THEN f[e] ELSE 0]
<1>1. g \in [D -> 0..M] /\ h \in [D -> 0..M]
  OBVIOUS
<1>2. h[d] = 0 /\ g[d] = (IF d \in S THEN f[d] ELSE 0) /\ g[d] \in Nat
  OBVIOUS
<1>3. \A e \in D \ {d} : h[e] = g[e]
  OBVIOUS
<1>4. /\ PartSum(S, M, f) = Cardinality(Boxes(D, M, g))
      /\ PartSum(S \ {d}, M, f) = Cardinality(Boxes(D, M, h))
  <2>1. ASSUME NEW T \in SUBSET D
        PROVE  PartSum(T, M, f)
                 = Cardinality(Boxes(D, M, [e \in D |-> IF e \in T THEN f[e] ELSE 0]))
    <3>1. {c \in T \X (1..M) : c[2] <= f[c[1]]}
            = Boxes(D, M, [e \in D |-> IF e \in T THEN f[e] ELSE 0])
      BY PartIsBoxes
    <3> QED
      BY <3>1, Zenon DEF PartSum
  <2>2. S \ {d} \in SUBSET D
    OBVIOUS
  <2> QED
    BY <2>1, <2>2, Zenon
<1> HIDE DEF g, h
<1>5. /\ Cardinality(Boxes(D, M, h)) \in Nat
      /\ Cardinality(Boxes(D, M, g)) = Cardinality(Boxes(D, M, h)) - h[d] + g[d]
  BY <1>1, <1>3, BoxesChange
<1> QED
  BY <1>2, <1>4, <1>5

----------------------------------------------------------------------------
(* Orders, whoever works on them.                                          *)

Editable == {"NONE", "DRAFT"}

OrderSound(o) ==
  /\ orders[o].discount <= orders[o].subtotal
  /\ orders[o].paid <= Total(orders[o])
  /\ orders[o].status \in Editable => orders[o].paid = 0

OrdersSound ==
  /\ orders \in [Order -> OrderRecord]
  /\ \A o \in Order : OrderSound(o)

(* What a confirmed order is owed is settled, and only paid off.           *)
OnlyPaidOff(o) ==
  orders[o].status \notin Editable =>
    /\ orders'[o].status \notin Editable
    /\ Total(orders'[o]) = Total(orders[o])
    /\ orders'[o].paid >= orders[o].paid

Advance == OrdersSound' /\ \A o \in Order : OnlyPaidOff(o)

LEMMA OrderIsTyped ==
  ASSUME OrdersSound, NEW o \in Order
  PROVE  /\ orders[o] \in OrderRecord
         /\ orders[o].subtotal \in Nat /\ orders[o].discount \in Nat
         /\ orders[o].tax \in Nat /\ orders[o].paid \in Nat
         /\ Total(orders[o]) \in Int
<1>1. orders[o] \in OrderRecord
  BY DEF OrdersSound
<1>2. /\ orders[o].subtotal \in Nat /\ orders[o].discount \in Nat
      /\ orders[o].tax \in Nat /\ orders[o].paid \in Nat
  BY <1>1, OrdersAssumption DEF OrderRecord, Amount
<1> QED
  BY <1>1, <1>2 DEF Total

(* A step of one order leaves the others as they were.                     *)
LEMMA OneOrderAdvances ==
  ASSUME OrdersSound, NEW e \in Order, NEW record \in OrderRecord,
         orders' = [orders EXCEPT ![e] = record],
         OrderSound(e)', OnlyPaidOff(e)
  PROVE  Advance
<1>1. orders' \in [Order -> OrderRecord]
  BY DEF OrdersSound
<1>2. ASSUME NEW o \in Order, o # e
      PROVE  OrderSound(o)' /\ OnlyPaidOff(o)
  <2>1. orders'[o] = orders[o]
    BY <1>2 DEF OrdersSound
  <2>2. orders[o].paid \in Nat
    BY OrderIsTyped
  <2> QED
    BY <2>1, <2>2 DEF OrdersSound, OrderSound, OnlyPaidOff, Total
<1> QED
  BY <1>1, <1>2 DEF Advance, OrdersSound

LEMMA RepriceAdvances ==
  ASSUME OrdersSound, NEW o \in Order, NEW lines \in Lines, NEW subtotal \in Amount,
         NEW discount \in Amount, NEW tax \in Amount, orders[o].status \in Editable,
         Reprice(o, lines, subtotal, discount, tax)
  PROVE  Advance
<1> DEFINE after == [orders[o] EXCEPT !.status = "DRAFT", !.lines = lines,
                       !.subtotal = subtotal, !.discount = discount, !.tax = tax]
<1>1. orders[o] \in OrderRecord /\ orders[o].paid = 0
  BY DEF OrdersSound, OrderSound
<1>2. after \in OrderRecord
  BY <1>1 DEF OrderRecord, OrderStatus
<1>3. orders' = [orders EXCEPT ![o] = after] /\ discount <= subtotal
  BY DEF Reprice
<1>4. /\ after.subtotal = subtotal /\ after.discount = discount /\ after.tax = tax
      /\ after.paid = 0
  BY <1>1 DEF OrderRecord
<1>5. orders'[o] = after
  BY <1>3 DEF OrdersSound
<1> HIDE DEF after
<1>6. 0 <= subtotal - discount + tax
  BY <1>3, OrdersAssumption DEF Amount
<1>7. Total(orders'[o]) = subtotal - discount + tax
  BY <1>4, <1>5 DEF Total
<1>8. OrderSound(o)'
  BY <1>3, <1>4, <1>5, <1>6, <1>7 DEF OrderSound
<1>9. OnlyPaidOff(o)
  BY DEF OnlyPaidOff
<1> QED
  BY <1>2, <1>3, <1>8, <1>9, OneOrderAdvances

LEMMA EditAdvances ==
  ASSUME OrdersSound, NEW o \in Order, EditOrder(o)
  PROVE  Advance
<1>1. /\ orders[o].lines \in Lines /\ orders[o].subtotal \in Amount
      /\ orders[o].discount \in Amount /\ orders[o].tax \in Amount
  BY OrderIsTyped DEF OrderRecord
<1>2. ASSUME NEW lines \in Lines, NEW subtotal \in Amount, NEW discount \in Amount,
             NEW tax \in Amount, CreateOrder(o, lines, subtotal, discount, tax)
      PROVE  Advance
  BY <1>2, RepriceAdvances DEF CreateOrder, Editable
<1>3. ASSUME NEW discount \in Amount, NEW tax \in Amount, UpdateOrder(o, discount, tax)
      PROVE  Advance
  BY <1>1, <1>3, RepriceAdvances DEF UpdateOrder, Editable
<1>4. ASSUME NEW p \in Product, NEW n \in 1..MaxLine, NEW subtotal \in Amount,
             AddOrderItem(o, p, n, subtotal) \/ UpdateOrderItem(o, p, n, subtotal)
      PROVE  Advance
  <2>1. WithLine(orders[o].lines, p, n) \in Lines
    BY <1>1, EditedLines
  <2>2. /\ Reprice(o, WithLine(orders[o].lines, p, n), subtotal,
                   orders[o].discount, orders[o].tax)
        /\ orders[o].status \in Editable
    BY <1>4 DEF AddOrderItem, UpdateOrderItem, Editable
  <2> QED
    BY <1>1, <2>1, <2>2, RepriceAdvances
<1>5. ASSUME NEW p \in Product, NEW subtotal \in Amount, RemoveOrderItem(o, p, subtotal)
      PROVE  Advance
  <2>1. WithoutLine(orders[o].lines, p) \in Lines
    BY <1>1, WithoutIsLines
  <2>2. /\ Reprice(o, WithoutLine(orders[o].lines, p), subtotal,
                   orders[o].discount, orders[o].tax)
        /\ orders[o].status \in Editable
    BY <1>5 DEF RemoveOrderItem, Editable
  <2> QED
    BY <1>1, <2>1, <2>2, RepriceAdvances
<1> QED
  BY <1>2, <1>3, <1>4, <1>5 DEF EditOrder

LEMMA MoveAdvances ==
  ASSUME OrdersSound, NEW o \in Order, NEW from \in OrderStatus, NEW to \in OrderStatus,
         to \notin Editable, MoveOrder(o, from, to)
  PROVE  Advance
<1> DEFINE after == [orders[o] EXCEPT !.status = to]
<1>1. orders[o] \in OrderRecord
  BY OrderIsTyped
<1>2. after \in OrderRecord
  BY <1>1 DEF OrderRecord
<1>3. orders' = [orders EXCEPT ![o] = after]
  BY DEF MoveOrder
<1>4. /\ after.subtotal = orders[o].subtotal /\ after.discount = orders[o].discount
      /\ after.tax = orders[o].tax /\ after.paid = orders[o].paid
      /\ after.status = to
  BY <1>1 DEF OrderRecord
<1>5. orders'[o] = after
  BY <1>3 DEF OrdersSound
<1> HIDE DEF after
<1>6. Total(orders'[o]) = Total(orders[o])
  BY <1>4, <1>5 DEF Total
<1>7. orders'[o].paid >= orders[o].paid
  BY <1>4, <1>5, OrderIsTyped
<1>8. OrderSound(o)' /\ OnlyPaidOff(o)
  BY <1>4, <1>5, <1>6, <1>7 DEF OrdersSound, OrderSound, OnlyPaidOff
<1> QED
  BY <1>2, <1>3, <1>8, OneOrderAdvances

LEMMA SaleAdvances ==
  ASSUME OrdersSound, NEW o \in Order,
         ConfirmOrder(o) \/ CompleteOrder(o) \/ CancelDraft(o) \/ CancelConfirmed(o)
  PROVE  Advance
<1>1. /\ {"DRAFT", "CONFIRMED", "COMPLETED", "CANCELLED"} \subseteq OrderStatus
      /\ \A status \in {"CONFIRMED", "COMPLETED", "CANCELLED"} : status \notin Editable
  BY DEF OrderStatus, Editable
<1> QED
  BY <1>1, MoveAdvances DEF ConfirmOrder, CompleteOrder, CancelDraft, CancelConfirmed

LEMMA PaymentAdvances ==
  ASSUME OrdersSound, NEW o \in Order, NEW amount \in 1..MaxAmount, AddOrderPayment(o, amount)
  PROVE  Advance
<1> DEFINE paid == orders[o].paid + amount
           state == PaymentStatusFor(paid, Total(orders[o]))
           after == [orders[o] EXCEPT !.paid = paid, !.paymentStatus = state]
<1>1. orders[o] \in OrderRecord
  BY OrderIsTyped
<1>2. /\ orders' = [orders EXCEPT ![o] = after]
      /\ paid <= Total(orders[o]) /\ orders[o].status \in {"CONFIRMED", "COMPLETED"}
  BY DEF AddOrderPayment
<1>3. paid \in 0..2 * MaxAmount /\ paid >= orders[o].paid
  BY <1>1, <1>2, OrdersAssumption DEF OrderRecord, Total, Amount
<1>4. state \in PaymentStatus
  BY DEF PaymentStatusFor, PaymentStatus
<1> HIDE DEF paid, state
<1>5. after \in OrderRecord
  BY <1>1, <1>3, <1>4 DEF OrderRecord
<1>6. /\ after.subtotal = orders[o].subtotal /\ after.discount = orders[o].discount
      /\ after.tax = orders[o].tax /\ after.paid = paid
      /\ after.status = orders[o].status
  BY <1>1 DEF OrderRecord
<1>7. orders'[o] = after
  BY <1>2 DEF OrdersSound
<1> HIDE DEF after
<1>8. Total(orders'[o]) = Total(orders[o])
  BY <1>6, <1>7 DEF Total
<1>9. orders'[o].status \notin Editable
  BY <1>2, <1>6, <1>7 DEF Editable
<1>10. OrderSound(o)' /\ OnlyPaidOff(o)
  BY <1>2, <1>3, <1>6, <1>7, <1>8, <1>9 DEF OrdersSound, OrderSound, OnlyPaidOff
<1> QED
  BY <1>2, <1>5, <1>10, OneOrderAdvances

LEMMA OrdersAdvance ==
  ASSUME OrdersSound, OrdersNext \/ UNCHANGED orders
  PROVE  Advance
<1>1. CASE OrdersNext
  BY <1>1, EditAdvances, SaleAdvances, PaymentAdvances DEF OrdersNext
<1>2. CASE UNCHANGED orders
  BY <1>2, OrderIsTyped DEF Advance, OrdersSound, OrderSound, OnlyPaidOff, Total
<1> QED
  BY <1>1, <1>2

----------------------------------------------------------------------------
(* Tills.  The sale of a till that has paid is confirmed at least, and one *)
(* that is settled has collected its whole total: neither can be undone    *)
(* by another till, or by anybody else who works on the orders.            *)

Seen == [status : OrderStatus, empty : BOOLEAN, outstanding : Int]

TillRecord ==
  [order : Order \cup {NoSale}, seen : Seen,
   step : {"page", "dialog", "paid", "settled"}]

TillSound(t) ==
  /\ tills[t].step \in {"paid", "settled"} =>
       tills[t].order \in Order /\ orders[tills[t].order].status \notin Editable
  /\ tills[t].step = "settled" =>
       orders[tills[t].order].paid >= Total(orders[tills[t].order])

TillsInv ==
  /\ OrdersSound
  /\ tills \in [Till -> TillRecord]
  /\ \A t \in Till : TillSound(t)

(* The tills, and whoever else works on the orders beside them.            *)
SalesNext == TillNext \/ (OrdersNext /\ UNCHANGED tills)

TillsSpec == OrdersInit /\ TillsInit /\ [][SalesNext]_<<orders, tills>>

(* What only the orders do leaves every till sound.                        *)
LEMMA SoundTillsStay ==
  ASSUME TillsInv, Advance, NEW t \in Till, tills'[t] = tills[t]
  PROVE  TillSound(t)'
<1>1. tills[t] \in TillRecord /\ TillSound(t)
  BY DEF TillsInv
<1>2. CASE tills[t].step \in {"paid", "settled"}
  <2> DEFINE o == tills[t].order
  <2>1. o \in Order /\ orders[o].status \notin Editable
    BY <1>1, <1>2 DEF TillSound
  <2>2. /\ orders'[o].status \notin Editable
        /\ Total(orders'[o]) = Total(orders[o]) /\ orders'[o].paid >= orders[o].paid
    BY <2>1 DEF Advance, OnlyPaidOff
  <2>3. /\ orders[o].paid \in Int /\ Total(orders[o]) \in Int
    BY <2>1, OrderIsTyped DEF TillsInv
  <2>4. orders'[o] \in OrderRecord
    BY <2>1 DEF Advance, OrdersSound
  <2>5. orders'[o].paid \in Int
    BY <2>4, OrdersAssumption DEF OrderRecord
  <2>6. tills[t].step = "settled" => orders[o].paid >= Total(orders[o])
    BY <1>1 DEF TillSound
  <2>7. tills[t].step = "settled" => orders'[o].paid >= Total(orders'[o])
    BY <2>2, <2>3, <2>5, <2>6
  <2> HIDE DEF o
  <2>8. tills'[t].order = o /\ tills'[t].step = tills[t].step
    BY DEF o
  <2> QED
    BY <2>1, <2>2, <2>7, <2>8 DEF TillSound
<1>3. CASE tills[t].step \notin {"paid", "settled"}
  BY <1>3 DEF TillSound
<1> QED
  BY <1>2, <1>3

(* One till moves on, with a new record.                                   *)
LEMMA OneTillMoves ==
  ASSUME TillsInv, Advance, NEW t \in Till, NEW record \in TillRecord,
         tills' = [tills EXCEPT ![t] = record], TillSound(t)'
  PROVE  TillsInv'
<1>1. OrdersSound' /\ tills' \in [Till -> TillRecord]
  BY DEF TillsInv, Advance
<1>2. ASSUME NEW u \in Till, u # t PROVE TillSound(u)'
  <2>1. tills'[u] = tills[u]
    BY <1>2 DEF TillsInv
  <2> QED
    BY <2>1, SoundTillsStay
<1> QED
  BY <1>1, <1>2 DEF TillsInv

(* A till that has not paid promises nothing.                              *)
LEMMA TillPutsBack ==
  ASSUME TillsInv, Advance, NEW t \in Till, NEW order \in Order \cup {NoSale},
         NEW seen \in Seen, NEW step \in {"page", "dialog"},
         SetTill(t, order, seen, step)
  PROVE  TillsInv'
<1> DEFINE record == [order |-> order, seen |-> seen, step |-> step]
<1>1. record \in TillRecord /\ record.step \notin {"paid", "settled"}
  BY DEF TillRecord
<1>2. tills' = [tills EXCEPT ![t] = record]
  BY DEF SetTill
<1>3. tills'[t] = record
  BY <1>2 DEF TillsInv
<1> HIDE DEF record
<1>4. TillSound(t)'
  BY <1>1, <1>3 DEF TillSound
<1> QED
  BY <1>1, <1>2, <1>4, OneTillMoves

(* What a page renders.                                                    *)
LEMMA ViewIsSeen ==
  ASSUME OrdersSound, NEW o \in Order
  PROVE  View(o) \in Seen
<1>1. orders[o].status \in OrderStatus /\ orders[o].paid \in Int /\ Total(orders[o]) \in Int
  BY OrderIsTyped DEF OrderRecord
<1> QED
  BY <1>1 DEF View, Seen

LEMMA NothingIsSeen == NothingSeen \in Seen /\ IdleTill \in TillRecord
  BY DEF NothingSeen, Seen, OrderStatus, IdleTill, TillRecord

LEMMA TillMayAdvance ==
  ASSUME TillsInv, UNCHANGED orders
  PROVE  Advance
  BY OrdersAdvance DEF TillsInv

(* A sale that is started is an order created, and a cart changed an order *)
(* edited.                                                                 *)
LEMMA StartIsEdit ==
  ASSUME NEW t \in Till, NEW e \in Order, StartSale(t, e)
  PROVE  EditOrder(e)
BY EmptyLines, OrdersAssumption DEF StartSale, EditOrder, Amount

LEMMA CartIsEdit ==
  ASSUME TillsInv, NEW t \in Till, EditCart(t)
  PROVE  tills[t].order \in Order /\ EditOrder(tills[t].order)
<1> DEFINE o == tills[t].order
<1>1. OrdersSound /\ o \in Order
  BY DEF TillsInv, TillRecord, EditCart, At
<1>2. CASE \E p \in Product, subtotal \in Amount :
             AddOrderItem(o, p, 1, subtotal) \/ RemoveOrderItem(o, p, subtotal)
  <2>1. 1 \in 1..MaxLine
    BY TillAssumption, DocumentsAssumption
  <2> QED
    BY <1>1, <1>2, <2>1 DEF EditOrder
<1>3. CASE \E discount \in Amount : UpdateOrder(o, discount, orders[o].tax)
  <2>1. orders[o].tax \in Amount
    BY <1>1, OrderIsTyped DEF OrderRecord
  <2> QED
    BY <1>1, <1>3, <2>1 DEF EditOrder
<1> QED
  BY <1>1, <1>2, <1>3 DEF EditCart

(* An action of one till.                                                  *)
TillStep(t) ==
  \/ \E o \in Order : StartSale(t, o) \/ ResumeSale(t, o)
  \/ Reload(t) \/ LeaveSale(t) \/ EditCart(t) \/ CancelSale(t)
  \/ ChargeDraft(t) \/ ChargeConfirmed(t) \/ CloseDialog(t)
  \/ \E amount \in 1..MaxAmount : Pay(t, amount)
  \/ LoadPaid(t) \/ CompleteSale(t) \/ CompleteUnheard(t) \/ FailRequest(t)

LEMMA TillInductive ==
  ASSUME TillsInv, NEW t \in Till, TillStep(t)
  PROVE  TillsInv'
<1> DEFINE o == tills[t].order
<1>1. /\ tills[t] \in TillRecord /\ TillSound(t) /\ OrdersSound
  BY DEF TillsInv
<1>2. /\ tills[t].seen \in Seen /\ o \in Order \cup {NoSale}
      /\ o # NoSale => o \in Order
  BY <1>1 DEF TillRecord
<1>3. ASSUME NEW status \in OrderStatus
      PROVE  [tills[t].seen EXCEPT !.status = status] \in Seen
  BY <1>2, <1>3 DEF Seen
<1>4. {"CONFIRMED", "COMPLETED"} \subseteq OrderStatus
  BY DEF OrderStatus
<1>5. ASSUME NEW e \in Order, StartSale(t, e)
      PROVE  TillsInv'
  <2>1. EditOrder(e)
    BY <1>5, StartIsEdit
  <2>2. Advance
    BY <1>1, <2>1, EditAdvances
  <2> QED
    BY <1>5, <2>2, NothingIsSeen, TillPutsBack DEF StartSale
<1>6. ASSUME NEW e \in Order, ResumeSale(t, e)
      PROVE  TillsInv'
  BY <1>1, <1>6, ViewIsSeen, TillMayAdvance, TillPutsBack DEF ResumeSale
<1>7. CASE Reload(t)
  <2>1. /\ o \in Order /\ UNCHANGED orders
        /\ SetTill(t, o, View(o), tills[t].step)
    BY <1>2, <1>7 DEF Reload
  <2> DEFINE record == [order |-> o, seen |-> View(o), step |-> tills[t].step]
  <2>2. record \in TillRecord
    BY <1>1, <2>1, ViewIsSeen DEF TillRecord
  <2>3. tills' = [tills EXCEPT ![t] = record]
    BY <2>1 DEF SetTill
  <2>4. tills'[t].order = o /\ tills'[t].step = tills[t].step
    BY <2>3 DEF TillsInv
  <2>5. TillSound(t)'
    BY <1>1, <2>1, <2>4 DEF TillSound
  <2> HIDE DEF record
  <2> QED
    BY <2>1, <2>2, <2>3, <2>5, TillMayAdvance, OneTillMoves
<1>8. CASE LeaveSale(t)
  BY <1>8, NothingIsSeen, TillMayAdvance, TillPutsBack DEF LeaveSale
<1>9. CASE EditCart(t)
  <2> DEFINE view == [status |-> orders'[o].status, empty |-> orders'[o].lines = NoLines,
                      outstanding |-> Total(orders'[o]) - orders'[o].paid]
  <2>1. /\ o \in Order /\ tills[t].step = "page"
        /\ tills' = [tills EXCEPT ![t].seen = view]
    BY <1>2, <1>9 DEF EditCart, At
  <2>2. EditOrder(o)
    BY <1>9, CartIsEdit
  <2>3. Advance
    BY <1>1, <2>1, <2>2, EditAdvances
  <2>4. orders'[o] \in OrderRecord /\ orders'[o].status \in OrderStatus
    BY <2>1, <2>3 DEF Advance, OrdersSound, OrderRecord
  <2>5. orders'[o].paid \in Int /\ Total(orders'[o]) \in Int
    BY <2>4, OrdersAssumption DEF OrderRecord, Total, Amount
  <2>6. view \in Seen
    BY <2>4, <2>5 DEF Seen
  <2> HIDE DEF view
  <2>7. [tills[t] EXCEPT !.seen = view] \in TillRecord
    BY <1>1, <2>6 DEF TillRecord
  <2>8. tills' = [tills EXCEPT ![t] = [tills[t] EXCEPT !.seen = view]]
    BY <2>1 DEF TillsInv
  <2>9. tills'[t].step = "page"
    BY <1>1, <2>1, <2>8 DEF TillsInv, TillRecord
  <2>10. TillSound(t)'
    BY <2>9 DEF TillSound
  <2> QED
    BY <2>3, <2>7, <2>8, <2>10, OneTillMoves
<1>10. CASE CancelSale(t)
  <2>1. /\ o \in Order /\ (CancelDraft(o) \/ CancelConfirmed(o))
        /\ SetTill(t, NoSale, NothingSeen, "page")
    BY <1>2, <1>10 DEF CancelSale, At
  <2> QED
    BY <1>1, <2>1, SaleAdvances, NothingIsSeen, TillPutsBack
<1>11. CASE ChargeDraft(t)
  <2>1. /\ o \in Order /\ ConfirmOrder(o)
        /\ SetTill(t, o, [tills[t].seen EXCEPT !.status = "CONFIRMED"], "dialog")
    BY <1>2, <1>11 DEF ChargeDraft, At
  <2> QED
    BY <1>1, <1>3, <1>4, <2>1, SaleAdvances, TillPutsBack
<1>12. CASE ChargeConfirmed(t) \/ CloseDialog(t) \/ FailRequest(t)
  <2>1. /\ UNCHANGED orders
        /\ SetTill(t, o, tills[t].seen, "dialog") \/ SetTill(t, o, tills[t].seen, "page")
    BY <1>12 DEF ChargeConfirmed, CloseDialog, FailRequest
  <2> QED
    BY <1>2, <2>1, TillMayAdvance, TillPutsBack
<1>13. ASSUME NEW amount \in 1..MaxAmount, Pay(t, amount)
      PROVE  TillsInv'
  <2>1. /\ o \in Order /\ AddOrderPayment(o, amount)
        /\ SetTill(t, o, tills[t].seen, "paid")
    BY <1>2, <1>13 DEF Pay, At
  <2>2. Advance
    BY <1>1, <2>1, PaymentAdvances
  <2>3. orders[o].status \notin Editable
    BY <2>1 DEF AddOrderPayment, Editable
  <2>4. orders'[o].status \notin Editable
    BY <2>1, <2>2, <2>3 DEF Advance, OnlyPaidOff
  <2> DEFINE record == [order |-> o, seen |-> tills[t].seen, step |-> "paid"]
  <2>5. record \in TillRecord /\ tills' = [tills EXCEPT ![t] = record]
    BY <1>2, <2>1 DEF TillRecord, SetTill
  <2>6. tills'[t].order = o /\ tills'[t].step = "paid"
    BY <2>5 DEF TillsInv
  <2>7. TillSound(t)'
    BY <2>1, <2>4, <2>6 DEF TillSound
  <2> HIDE DEF record
  <2> QED
    BY <2>2, <2>5, <2>7, OneTillMoves
<1>14. CASE LoadPaid(t)
  <2> DEFINE settled == View(o).outstanding <= 0
             step == IF settled THEN "settled" ELSE "page"
             record == [order |-> o, seen |-> View(o), step |-> step]
  <2>1. /\ o \in Order /\ UNCHANGED orders /\ tills[t].step = "paid"
        /\ tills' = [tills EXCEPT ![t] = record]
    BY <1>2, <1>14 DEF LoadPaid, At, SetTill
  <2>2. View(o) \in Seen /\ step \in {"page", "settled"}
    BY <1>1, <2>1, ViewIsSeen
  <2>3. orders[o].status \notin Editable
    BY <1>1, <2>1 DEF TillSound
  <2>4. step = "settled" => orders[o].paid >= Total(orders[o])
    <3>1. orders[o].paid \in Int /\ Total(orders[o]) \in Int
      BY <1>1, <2>1, OrderIsTyped
    <3> QED
      BY <3>1 DEF View
  <2> HIDE DEF step
  <2>5. record \in TillRecord
    BY <2>1, <2>2 DEF TillRecord
  <2>6. tills'[t].order = o /\ tills'[t].step = step
    BY <2>1 DEF TillsInv
  <2>7. TillSound(t)'
    BY <2>1, <2>3, <2>4, <2>6 DEF TillSound
  <2> HIDE DEF record
  <2> QED
    BY <2>1, <2>5, <2>7, TillMayAdvance, OneTillMoves
<1>15. CASE CompleteSale(t) \/ CompleteUnheard(t)
  <2>1. /\ o \in Order /\ CompleteOrder(o)
        /\ \/ SetTill(t, o, [tills[t].seen EXCEPT !.status = "COMPLETED"], "page")
           \/ SetTill(t, o, tills[t].seen, "dialog")
    BY <1>2, <1>15 DEF CompleteSale, CompleteUnheard, At
  <2> QED
    BY <1>1, <1>2, <1>3, <1>4, <2>1, SaleAdvances, TillPutsBack
<1> QED
  BY <1>5, <1>6, <1>7, <1>8, <1>9, <1>10, <1>11, <1>12, <1>13, <1>14, <1>15 DEF TillStep

LEMMA TillsStartSound == OrdersInit /\ TillsInit => TillsInv
<1> SUFFICES ASSUME OrdersInit, TillsInit PROVE TillsInv
  OBVIOUS
<1>1. NoOrder \in OrderRecord
  BY EmptyLines, OrdersAssumption DEF NoOrder, OrderRecord, OrderStatus, PaymentStatus, Amount
<1>2. OrdersSound
  BY <1>1 DEF OrdersInit, OrdersSound, OrderSound, Total, NoOrder
<1>3. tills \in [Till -> TillRecord] /\ \A t \in Till : tills[t].step = "page"
  BY NothingIsSeen DEF TillsInit, IdleTill
<1> QED
  BY <1>2, <1>3 DEF TillsInv, TillSound

LEMMA TillsInductive ==
  TillsInv /\ [SalesNext]_<<orders, tills>> => TillsInv'
<1> SUFFICES ASSUME TillsInv, [SalesNext]_<<orders, tills>> PROVE TillsInv'
  OBVIOUS
<1>1. CASE TillNext
  BY <1>1, TillInductive DEF TillNext, TillStep
<1>2. CASE (OrdersNext \/ UNCHANGED orders) /\ UNCHANGED tills
  <2>1. Advance
    BY <1>2, OrdersAdvance DEF TillsInv
  <2>2. \A t \in Till : TillSound(t)'
    BY <1>2, <2>1, SoundTillsStay
  <2> QED
    BY <1>2, <2>1, <2>2 DEF TillsInv, Advance
<1> QED
  BY <1>1, <1>2 DEF SalesNext

(* A step of a till completes an order only when it has been settled.      *)
PaidFor(o) ==
  tills' # tills /\ orders[o].status # "COMPLETED" /\ orders'[o].status = "COMPLETED"
    => orders'[o].paid = Total(orders'[o])

LEMMA TillPaidFor ==
  ASSUME TillsInv, NEW t \in Till, TillStep(t), NEW o \in Order
  PROVE  PaidFor(o)
<1> DEFINE sale == tills[t].order
<1>1. /\ tills[t] \in TillRecord /\ TillSound(t) /\ OrdersSound
      /\ sale # NoSale => sale \in Order
  BY DEF TillsInv, TillRecord
<1>2. ASSUME orders'[o].status = orders[o].status PROVE PaidFor(o)
  BY <1>2 DEF PaidFor
<1>3. ASSUME NEW e \in Order, NEW lines, NEW subtotal, NEW discount, NEW tax,
             Reprice(e, lines, subtotal, discount, tax)
      PROVE  PaidFor(o)
  <2>1. orders[e] \in OrderRecord
    BY <1>1, OrderIsTyped
  <2>2. orders'[o].status \in {orders[o].status, "DRAFT"}
    BY <1>1, <1>3, <2>1 DEF Reprice, OrdersSound, OrderRecord
  <2> QED
    BY <2>2 DEF PaidFor
<1>4. ASSUME NEW e \in Order, NEW from, NEW to, MoveOrder(e, from, to), to # "COMPLETED"
      PROVE  PaidFor(o)
  <2>1. orders[e] \in OrderRecord
    BY <1>1, OrderIsTyped
  <2>2. orders'[o].status \in {orders[o].status, to}
    BY <1>1, <1>4, <2>1 DEF MoveOrder, OrdersSound, OrderRecord
  <2> QED
    BY <1>4, <2>2 DEF PaidFor
<1>5. CASE \/ \E e \in Order : StartSale(t, e) \/ ResumeSale(t, e)
           \/ Reload(t) \/ LeaveSale(t)
  BY <1>2, <1>3, <1>5 DEF StartSale, ResumeSale, Reload, LeaveSale, CreateOrder
<1>6. CASE EditCart(t)
  BY <1>1, <1>3, <1>6
  DEF EditCart, At, AddOrderItem, RemoveOrderItem, UpdateOrder
<1>7. CASE CancelSale(t) \/ ChargeDraft(t)
  BY <1>1, <1>4, <1>7 DEF CancelSale, ChargeDraft, At, CancelDraft, CancelConfirmed, ConfirmOrder
<1>8. CASE \/ ChargeConfirmed(t) \/ CloseDialog(t) \/ LoadPaid(t) \/ FailRequest(t)
  BY <1>2, <1>8 DEF ChargeConfirmed, CloseDialog, LoadPaid, FailRequest
<1>9. ASSUME NEW amount \in 1..MaxAmount, Pay(t, amount)
      PROVE  PaidFor(o)
  <2>1. sale \in Order /\ AddOrderPayment(sale, amount)
    BY <1>1, <1>9 DEF Pay, At
  <2>2. orders[sale] \in OrderRecord
    BY <1>1, <2>1, OrderIsTyped
  <2>3. orders'[o].status = orders[o].status
    BY <1>1, <2>1, <2>2 DEF AddOrderPayment, OrdersSound, OrderRecord
  <2> QED
    BY <1>2, <2>3
<1>10. CASE CompleteSale(t) \/ CompleteUnheard(t)
  <2>1. /\ sale \in Order /\ tills[t].step = "settled"
        /\ MoveOrder(sale, "CONFIRMED", "COMPLETED")
    BY <1>1, <1>10 DEF CompleteSale, CompleteUnheard, At, CompleteOrder
  <2>2. CASE o = sale
    <3>1. orders[o].paid >= Total(orders[o])
      BY <1>1, <2>1, <2>2 DEF TillSound
    <3>2. orders[o].paid <= Total(orders[o])
      BY <1>1, <2>1, <2>2 DEF OrdersSound, OrderSound
    <3>3. orders[o].paid \in Int /\ Total(orders[o]) \in Int
      BY <1>1, OrderIsTyped
    <3>4. orders[o].paid = Total(orders[o])
      BY <3>1, <3>2, <3>3
    <3>5. orders'[o].paid = orders[o].paid /\ Total(orders'[o]) = Total(orders[o])
      BY <1>1, <2>1, <2>2, OrderIsTyped DEF MoveOrder, OrdersSound, OrderRecord, Total
    <3> QED
      BY <3>4, <3>5 DEF PaidFor
  <2>3. CASE o # sale
    BY <1>1, <1>2, <2>1, <2>3 DEF MoveOrder, OrdersSound
  <2> QED
    BY <2>2, <2>3
<1> QED
  BY <1>5, <1>6, <1>7, <1>8, <1>9, <1>10 DEF TillStep

(* Goods never leave a till unpaid, for any number of tills that share     *)
(* sales, work on outdated pages, fail half way and try again, while       *)
(* others work on the same orders (pos/page.tsx, payment-dialog.tsx).      *)
THEOREM GoodsAlwaysPaidFor == TillsSpec => GoodsArePaidFor
<1>1. TillsInv /\ [SalesNext]_<<orders, tills>>
        => [\A o \in Order : PaidFor(o)]_<<orders, tills>>
  <2> SUFFICES ASSUME TillsInv, SalesNext PROVE \A o \in Order : PaidFor(o)
    OBVIOUS
  <2>1. CASE TillNext
    BY <2>1, TillPaidFor DEF TillNext, TillStep
  <2>2. CASE UNCHANGED tills
    BY <2>2 DEF PaidFor
  <2> QED
    BY <2>1, <2>2 DEF SalesNext
<1>2. TillsSpec => [][\A o \in Order : PaidFor(o)]_<<orders, tills>>
  BY <1>1, TillsStartSound, TillsInductive, PTL DEF TillsSpec
<1> QED
  BY <1>2 DEF GoodsArePaidFor, PaidFor

----------------------------------------------------------------------------
(* Expenses.                                                               *)

(* A request under way has read some expense, and an expense that stands   *)
(* has one entry, whatever amount either of them says.                     *)
ExpenseRow == [status : {"NONE", "RECORDED", "REMOVED"}, amount : Int]

ExpensesInv ==
  /\ expenses \in [Expense -> ExpenseRow]
  /\ entries \in [Reference -> Seq(Int)]
  /\ DOMAIN reading = Clerk
  /\ \A c \in Clerk : reading[c] # NotReading =>
       reading[c].expense \in Expense /\ reading[c].amount \in Int
  /\ ExpenseHasOneEntry

(* One expense and its entries change together.                            *)
LEMMA OneExpenseChanges ==
  ASSUME ExpensesInv, NEW e \in Expense, NEW row \in ExpenseRow, NEW filed \in Seq(Int),
         expenses' = [expenses EXCEPT ![e] = row],
         entries' = [entries EXCEPT ![e] = filed],
         Len(filed) = IF row.status = "RECORDED" THEN 1 ELSE 0
  PROVE  /\ expenses' \in [Expense -> ExpenseRow]
         /\ entries' \in [Reference -> Seq(Int)]
         /\ ExpenseHasOneEntry'
<1>1. e \in Reference
  BY DEF Reference
<1>2. /\ expenses' \in [Expense -> ExpenseRow] /\ expenses'[e] = row
      /\ \A x \in Expense : x # e => expenses'[x] = expenses[x]
  BY DEF ExpensesInv
<1>3. /\ entries' \in [Reference -> Seq(Int)] /\ entries'[e] = filed
      /\ \A x \in Expense : x # e => entries'[x] = entries[x]
  BY <1>1 DEF ExpensesInv, Reference
<1>4. ASSUME NEW x \in Expense
      PROVE  Len(entries'[x]) = IF expenses'[x].status = "RECORDED" THEN 1 ELSE 0
  <2>1. CASE x = e
    BY <1>2, <1>3, <2>1
  <2>2. CASE x # e
    BY <1>2, <1>3, <2>2 DEF ExpensesInv, ExpenseHasOneEntry
  <2> QED
    BY <2>1, <2>2
<1> QED
  BY <1>2, <1>3, <1>4 DEF ExpenseHasOneEntry

LEMMA ClerkStops ==
  ASSUME ExpensesInv, NEW c \in Clerk, StopReading(c)
  PROVE  /\ DOMAIN reading' = Clerk
         /\ \A d \in Clerk : reading'[d] # NotReading =>
              reading'[d].expense \in Expense /\ reading'[d].amount \in Int
  BY DEF ExpensesInv, StopReading

(* A correction goes to the row and to the one entry it has.               *)
LEMMA ExpenseIsWritten ==
  ASSUME ExpensesInv, NEW c \in Clerk, StillThere(c), NEW rowAmount \in Int,
         NEW entryAmount \in Int, WriteExpense(c, rowAmount, entryAmount)
  PROVE  ExpensesInv'
<1> DEFINE e == reading[c].expense
           row == [expenses[e] EXCEPT !.amount = rowAmount]
           filed == [i \in DOMAIN entries[e] |-> entryAmount]
<1>1. e \in Expense /\ expenses[e].status = "RECORDED" /\ expenses[e] \in ExpenseRow
  BY DEF ExpensesInv, StillThere
<1>2. e \in Reference /\ entries[e] \in Seq(Int) /\ Len(entries[e]) = 1
  BY <1>1 DEF ExpensesInv, ExpenseHasOneEntry, Reference
<1>3. row \in ExpenseRow /\ row.status = "RECORDED"
  BY <1>1 DEF ExpenseRow
<1>4. filed \in Seq(Int) /\ Len(filed) = 1
  BY <1>2
<1>5. /\ expenses' = [expenses EXCEPT ![e] = row]
      /\ entries' = [entries EXCEPT ![e] = filed]
      /\ StopReading(c)
  BY <1>1, <1>2 DEF WriteExpense, ExpensesInv
<1> HIDE DEF e, row, filed
<1>6. /\ expenses' \in [Expense -> ExpenseRow]
      /\ entries' \in [Reference -> Seq(Int)] /\ ExpenseHasOneEntry'
  BY <1>1, <1>3, <1>4, <1>5, OneExpenseChanges
<1> QED
  BY <1>5, <1>6, ClerkStops DEF ExpensesInv

LEMMA ExpensesInductive == ExpensesInv /\ [FinanceNext]_financeVars => ExpensesInv'
<1> SUFFICES ASSUME ExpensesInv, [FinanceNext]_financeVars PROVE ExpensesInv'
  OBVIOUS
<1>1. CASE UNCHANGED financeVars
  BY <1>1 DEF financeVars, ExpensesInv, ExpenseHasOneEntry
<1>2. ASSUME NEW amount \in 1..MaxMoney, NEW e \in Expense, CreateExpense(e, amount)
      PROVE  ExpensesInv'
  <2> DEFINE row == [status |-> "RECORDED", amount |-> amount]
             filed == Append(entries[e], amount)
  <2>1. /\ amount \in Int /\ e \in Reference /\ entries[e] \in Seq(Int)
        /\ Len(entries[e]) = 0
    BY <1>2, FinanceAssumption DEF ExpensesInv, ExpenseHasOneEntry, CreateExpense, Reference
  <2>2. row \in ExpenseRow /\ row.status = "RECORDED"
    BY <2>1 DEF ExpenseRow
  <2>3. filed \in Seq(Int) /\ Len(filed) = 1
    BY <2>1
  <2>4. /\ expenses' = [expenses EXCEPT ![e] = row]
        /\ entries' = [entries EXCEPT ![e] = filed]
        /\ UNCHANGED reading
    BY <1>2 DEF CreateExpense, Book
  <2> HIDE DEF row, filed
  <2>5. /\ expenses' \in [Expense -> ExpenseRow]
        /\ entries' \in [Reference -> Seq(Int)] /\ ExpenseHasOneEntry'
    BY <2>2, <2>3, <2>4, OneExpenseChanges
  <2> QED
    BY <2>4, <2>5 DEF ExpensesInv
<1>3. ASSUME NEW amount \in 1..MaxMoney, RecordOtherIncome(amount)
      PROVE  ExpensesInv'
  <2>1. amount \in Int /\ OtherIncome \in Reference /\ OtherIncome \notin Expense
    BY FinanceAssumption DEF Reference
  <2>2. entries' = [entries EXCEPT ![OtherIncome] = Append(entries[OtherIncome], amount)]
    BY <1>3 DEF RecordOtherIncome, Book
  <2>3. entries[OtherIncome] \in Seq(Int)
    BY <2>1 DEF ExpensesInv
  <2>4. Append(entries[OtherIncome], amount) \in Seq(Int)
    BY <2>1, <2>3
  <2>5. entries' \in [Reference -> Seq(Int)]
    BY <2>2, <2>4 DEF ExpensesInv
  <2>6. \A e \in Expense : entries'[e] = entries[e]
    BY <2>1, <2>2 DEF ExpensesInv, Reference
  <2> QED
    BY <1>3, <2>5, <2>6 DEF RecordOtherIncome, ExpensesInv, ExpenseHasOneEntry
<1>4. ASSUME NEW c \in Clerk, NEW e \in Expense, ReadExpense(c, e)
      PROVE  ExpensesInv'
  <2>1. expenses[e].amount \in Int
    BY DEF ExpensesInv, ExpenseRow
  <2>2. \A d \in Clerk : reading'[d] # NotReading =>
          reading'[d].expense \in Expense /\ reading'[d].amount \in Int
    BY <1>4, <2>1 DEF ReadExpense, ExpensesInv
  <2> QED
    BY <1>4, <2>2 DEF ReadExpense, ExpensesInv, ExpenseHasOneEntry
<1>5. ASSUME NEW c \in Clerk, NEW amount \in 1..MaxMoney, CorrectAmount(c, amount)
      PROVE  ExpensesInv'
  <2>1. amount \in Int
    BY FinanceAssumption
  <2> QED
    BY <1>5, <2>1, ExpenseIsWritten DEF CorrectAmount
<1>6. ASSUME NEW c \in Clerk, CorrectTheRest(c)
      PROVE  ExpensesInv'
  <2>1. StillThere(c)
    BY <1>6 DEF CorrectTheRest
  <2>2. reading[c].expense \in Expense /\ reading[c].amount \in Int
    BY <2>1 DEF StillThere, ExpensesInv
  <2>3. expenses[reading[c].expense].amount \in Int
    BY <2>2 DEF ExpensesInv, ExpenseRow
  <2> QED
    BY <1>6, <2>1, <2>2, <2>3, ExpenseIsWritten DEF CorrectTheRest
<1>7. ASSUME NEW c \in Clerk, RemoveExpense(c)
      PROVE  ExpensesInv'
  <2> DEFINE e == reading[c].expense
             row == [status |-> "REMOVED", amount |-> 0]
             filed == << >>
  <2>1. e \in Expense
    BY <1>7 DEF RemoveExpense, StillThere, ExpensesInv
  <2>2. row \in ExpenseRow /\ row.status # "RECORDED"
    BY DEF ExpenseRow
  <2>3. filed \in Seq(Int) /\ Len(filed) = 0
    OBVIOUS
  <2>4. /\ expenses' = [expenses EXCEPT ![e] = row]
        /\ entries' = [entries EXCEPT ![e] = filed]
        /\ StopReading(c)
    BY <1>7 DEF RemoveExpense
  <2> HIDE DEF e, row, filed
  <2>5. /\ expenses' \in [Expense -> ExpenseRow]
        /\ entries' \in [Reference -> Seq(Int)] /\ ExpenseHasOneEntry'
    BY <2>1, <2>2, <2>3, <2>4, OneExpenseChanges
  <2> QED
    BY <2>4, <2>5, ClerkStops DEF ExpensesInv
<1>8. ASSUME NEW c \in Clerk, AbandonExpense(c)
      PROVE  ExpensesInv'
  <2>1. StopReading(c) /\ UNCHANGED <<expenses, entries>>
    BY <1>8 DEF AbandonExpense
  <2> QED
    BY <2>1, ClerkStops DEF ExpensesInv, ExpenseHasOneEntry
<1> QED
  BY <1>1, <1>2, <1>3, <1>4, <1>5, <1>6, <1>7, <1>8 DEF FinanceNext

LEMMA ExpensesStartSound == FinanceInit => ExpensesInv
<1> SUFFICES ASSUME FinanceInit PROVE ExpensesInv
  OBVIOUS
<1>1. NoExpense \in ExpenseRow /\ NoExpense.status = "NONE"
  BY DEF NoExpense, ExpenseRow
<1>2. << >> \in Seq(Int) /\ Len(<< >>) = 0
  OBVIOUS
<1>3. /\ expenses \in [Expense -> ExpenseRow] /\ entries \in [Reference -> Seq(Int)]
      /\ \A e \in Expense : expenses[e].status = "NONE"
      /\ \A e \in Expense : entries[e] = << >>
  BY <1>1, <1>2 DEF FinanceInit, Reference
<1>4. DOMAIN reading = Clerk /\ \A c \in Clerk : reading[c] = NotReading
  BY DEF FinanceInit
<1> QED
  BY <1>2, <1>3, <1>4 DEF ExpensesInv, ExpenseHasOneEntry

(* An expense that stands has one ledger entry and a removed one none,     *)
(* for any number of clerks whose edits and removals decide on what they   *)
(* read beforehand (updateExpense, removeExpense in finance.service.ts).   *)
THEOREM ExpensesHaveOneEntry == ExpensesSpec => []ExpenseHasOneEntry
<1>1. ExpensesInv => ExpenseHasOneEntry
  BY DEF ExpensesInv
<1> QED
  BY <1>1, ExpensesStartSound, ExpensesInductive, PTL DEF ExpensesSpec

=============================================================================

----------------------------- MODULE ShopProofs -----------------------------
(***************************************************************************)
(* Proofs about Shop, for any number of products, locations, documents and *)
(* units: the reservations in the inventory are, unit for unit, the claims *)
(* of the open documents, so a claim can always be taken or given back;    *)
(* the money collected is sound; a count under review is complete.         *)
(***************************************************************************)
EXTENDS Shop, OrdersProofs

----------------------------------------------------------------------------
(* Type correctness.                                                       *)

LEMMA RepairsTypes ==
  ASSUME TypeOK, ShelvesSound, RepairsNext
  PROVE  repairs' \in [Repair -> RepairRecord] /\ completing' \subseteq Repair /\ StockSound'
<1> DEFINE Typed == /\ repairs' \in [Repair -> RepairRecord]
                    /\ completing' \subseteq Repair
                    /\ StockSound'
<1>1. StockSound /\ repairs \in [Repair -> RepairRecord] /\ completing \subseteq Repair
  BY DEF TypeOK, StockSound
<1>2. ASSUME NEW d \in Repair
      PROVE  repairs[d] \in RepairRecord /\ repairs[d].parts \in Lines
  BY <1>1 DEF RepairRecord
<1>3. {"release", "consume", "reserve"} \subseteq Kind \ SignedKind
  BY DEF Kind, SignedKind
<1>4. ASSUME NEW d \in Repair, NEW to, MoveRepair(d, to)
      PROVE  repairs' \in [Repair -> RepairRecord]
  <2>1. to \in RepairStatus
    BY <1>2, <1>4 DEF MoveRepair, RepairRecord, RepairStatus, RepairTransitions
  <2>2. [repairs[d] EXCEPT !.status = to] \in RepairRecord
    BY <1>2, <2>1 DEF RepairRecord
  <2> QED
    BY <1>1, <1>4, <2>2 DEF MoveRepair
<1>5. ASSUME NEW d \in Repair, NEW parts \in Lines, SetParts(d, parts)
      PROVE  repairs' \in [Repair -> RepairRecord] /\ completing' \subseteq Repair
  <2>1. [repairs[d] EXCEPT !.parts = parts] \in RepairRecord
    BY <1>2 DEF RepairRecord
  <2> QED
    BY <1>1, <1>5, <2>1 DEF SetParts
<1>6. ASSUME NEW d \in Repair, CreateRepair(d)
      PROVE  Typed
  <2>1. [repairs[d] EXCEPT !.status = "RECEIVED"] \in RepairRecord
    BY <1>2 DEF RepairRecord, RepairStatus, RepairTransitions
  <2> QED
    BY <1>1, <1>6, <2>1, StockUnchanged DEF CreateRepair
<1>7. ASSUME NEW d \in Repair, NEW cost \in Cost, UpdateRepair(d, cost)
      PROVE  Typed
  <2>1. [repairs[d] EXCEPT !.finalCost = cost] \in RepairRecord
    BY <1>2 DEF RepairRecord
  <2> QED
    BY <1>1, <1>7, <2>1, StockUnchanged DEF UpdateRepair
<1>8. ASSUME NEW d \in Repair, NEW to \in RepairStatus, ProgressRepair(d, to)
      PROVE  Typed
  BY <1>1, <1>4, <1>8, StockUnchanged DEF ProgressRepair
<1>9. ASSUME NEW d \in Repair, CancelRepair(d)
      PROVE  Typed
  BY <1>1, <1>2, <1>3, <1>4, <1>9, AskTypes, DocumentsAssumption DEF CancelRepair
<1>10. ASSUME NEW d \in Repair, ReadFinalCost(d) \/ AbandonCompletion(d)
       PROVE  Typed
  BY <1>1, <1>10, StockUnchanged DEF ReadFinalCost, AbandonCompletion
<1>11. ASSUME NEW d \in Repair, CompleteRepair(d)
       PROVE  Typed
  BY <1>1, <1>2, <1>3, <1>4, <1>11, AskTypes, DocumentsAssumption DEF CompleteRepair
<1>12. ASSUME NEW d \in Repair, NEW p \in Product, NEW n \in 1..MaxLine, AddPart(d, p, n)
       PROVE  Typed
  <2>1. WithLine(repairs[d].parts, p, n) \in Lines /\ OneLine(p, n) \in Lines
    BY <1>2, EditedLines
  <2> QED
    BY <1>1, <1>3, <1>5, <1>12, <2>1, AskTypes, DocumentsAssumption DEF AddPart
<1>13. ASSUME NEW d \in Repair, NEW p \in Product, NEW n \in 1..MaxLine, UpdatePart(d, p, n)
       PROVE  Typed
  <2> DEFINE fitted == repairs[d].parts[p]
  <2>1. WithLine(repairs[d].parts, p, n) \in Lines /\ fitted \in 1..MaxLine
    BY <1>2, <1>13, EditedLines, LinesAreMaps DEF UpdatePart
  <2>2. repairs' \in [Repair -> RepairRecord] /\ completing' \subseteq Repair
    BY <1>5, <1>13, <2>1 DEF UpdatePart
  <2>3. CASE n > fitted /\ Apply(Ask("reserve", Default, OneLine(p, n - fitted)))
    <3>1. n - fitted \in 1..MaxLine
      BY <2>1, <2>3, DocumentsAssumption
    <3>2. OneLine(p, n - fitted) \in Lines
      BY <1>2, <3>1, EditedLines
    <3> QED
      BY <1>1, <1>3, <2>2, <2>3, <3>2, AskTypes, DocumentsAssumption
  <2>4. CASE n < fitted /\ Apply(Ask("release", Default, OneLine(p, fitted - n)))
    <3>1. fitted - n \in 1..MaxLine
      BY <2>1, <2>4, DocumentsAssumption
    <3>2. OneLine(p, fitted - n) \in Lines
      BY <1>2, <3>1, EditedLines
    <3> QED
      BY <1>1, <1>3, <2>2, <2>4, <3>2, AskTypes, DocumentsAssumption
  <2>5. CASE UNCHANGED stockVars
    BY <1>1, <2>2, <2>5, StockUnchanged
  <2> QED
    BY <1>13, <2>3, <2>4, <2>5 DEF UpdatePart
<1>14. ASSUME NEW d \in Repair, NEW p \in Product, RemovePart(d, p)
       PROVE  Typed
  <2>1. WithoutLine(repairs[d].parts, p) \in Lines
    BY <1>2, WithoutIsLines
  <2>2. repairs[d].parts[p] \in 1..MaxLine
    BY <1>2, <1>14, LinesAreMaps DEF RemovePart
  <2>3. OneLine(p, repairs[d].parts[p]) \in Lines
    BY <1>2, <2>2, EditedLines
  <2> QED
    BY <1>1, <1>3, <1>5, <1>14, <2>1, <2>3, AskTypes, DocumentsAssumption DEF RemovePart
<1>15. ASSUME NEW d \in Repair, NEW amount \in 1..MaxCost, AddRepairPayment(d, amount)
       PROVE  Typed
  <2> DEFINE paid == repairs[d].paid + amount
  <2>1. paid \in 0..MaxCost
    BY <1>2, <1>15, RepairsAssumption DEF AddRepairPayment, RepairRecord, Cost, NotSet
  <2>2. repairs' = [repairs EXCEPT ![d] = [repairs[d] EXCEPT !.paid = paid]]
    BY <1>15 DEF AddRepairPayment
  <2> HIDE DEF paid
  <2>3. [repairs[d] EXCEPT !.paid = paid] \in RepairRecord
    BY <1>2, <2>1 DEF RepairRecord
  <2>4. repairs' \in [Repair -> RepairRecord]
    BY <1>1, <2>2, <2>3
  <2> QED
    BY <1>1, <1>15, <2>4, StockUnchanged DEF AddRepairPayment
<1> QED
  BY <1>6, <1>7, <1>8, <1>9, <1>10, <1>11, <1>12, <1>13, <1>14, <1>15 DEF RepairsNext

LEMMA TransfersTypes ==
  ASSUME TypeOK, ShelvesSound, TransfersNext
  PROVE  transfers' \in [Transfer -> TransferRecord] /\ StockSound'
<1> DEFINE Typed == transfers' \in [Transfer -> TransferRecord] /\ StockSound'
<1>1. StockSound /\ transfers \in [Transfer -> TransferRecord]
  BY DEF TypeOK, StockSound
<1>2. ASSUME NEW t \in Transfer
      PROVE  /\ transfers[t] \in TransferRecord /\ transfers[t].lines \in Lines
             /\ transfers[t].source \in Location /\ transfers[t].destination \in Location
  BY <1>1 DEF TransferRecord
<1>3. {"release", "consume", "reserve", "arrive"} \subseteq Kind \ SignedKind
  BY DEF Kind, SignedKind
<1>4. ASSUME NEW t \in Transfer, NEW record \in TransferRecord, SetTransfer(t, record)
      PROVE  transfers' \in [Transfer -> TransferRecord]
  BY <1>1, <1>4 DEF SetTransfer
<1>5. ASSUME NEW t \in Transfer, NEW from, NEW to \in TransferStatus, MoveTransfer(t, from, to)
      PROVE  transfers' \in [Transfer -> TransferRecord]
  <2>1. [transfers[t] EXCEPT !.status = to] \in TransferRecord
    BY <1>2 DEF TransferRecord
  <2>2. SetTransfer(t, [transfers[t] EXCEPT !.status = to])
    BY <1>5 DEF MoveTransfer
  <2> QED
    BY <1>4, <2>1, <2>2
<1>6. ASSUME NEW t \in Transfer, NEW lines \in Lines, EditLines(t, lines)
      PROVE  Typed
  <2>1. [transfers[t] EXCEPT !.lines = lines] \in TransferRecord
    BY <1>2 DEF TransferRecord
  <2> QED
    BY <1>1, <1>4, <1>6, <2>1, StockUnchanged DEF EditLines
<1>7. ASSUME NEW t \in Transfer, EditTransfer(t)
      PROVE  Typed
  <2>1. ASSUME NEW from \in Location, NEW to \in Location, NEW lines \in Lines,
               CreateTransfer(t, from, to, lines)
        PROVE  Typed
    <3>1. [status |-> "DRAFT", source |-> from, destination |-> to, lines |-> lines]
            \in TransferRecord
      BY DEF TransferRecord, TransferStatus
    <3> QED
      BY <1>1, <1>4, <2>1, <3>1, StockUnchanged DEF CreateTransfer
  <2>2. ASSUME NEW from \in Location, NEW to \in Location, UpdateTransfer(t, from, to)
        PROVE  Typed
    <3>1. [transfers[t] EXCEPT !.source = from, !.destination = to] \in TransferRecord
      BY <1>2 DEF TransferRecord
    <3> QED
      BY <1>1, <1>4, <2>2, <3>1, StockUnchanged DEF UpdateTransfer
  <2>3. ASSUME NEW p \in Product, NEW n \in 1..MaxLine,
               AddTransferItem(t, p, n) \/ UpdateTransferItem(t, p, n)
        PROVE  Typed
    BY <1>2, <1>6, <2>3, EditedLines DEF AddTransferItem, UpdateTransferItem
  <2>4. ASSUME NEW p \in Product, RemoveTransferItem(t, p)
        PROVE  Typed
    BY <1>2, <1>6, <2>4, WithoutIsLines DEF RemoveTransferItem
  <2> QED
    BY <1>7, <2>1, <2>2, <2>3, <2>4 DEF EditTransfer
<1>8. ASSUME NEW t \in Transfer,
             RequestTransfer(t) \/ ApproveTransfer(t) \/ ShipTransfer(t)
               \/ CompleteTransfer(t) \/ CancelTransfer(t)
      PROVE  Typed
  <2>1. PICK from, to \in TransferStatus : MoveTransfer(t, from, to)
    BY <1>8 DEF RequestTransfer, ApproveTransfer, ShipTransfer, CompleteTransfer,
                CancelTransfer, TransferStatus
  <2>2. \/ UNCHANGED stockVars
        \/ \E kind \in {"release", "consume", "reserve", "arrive"}, l \in Location :
             Apply(Ask(kind, l, transfers[t].lines))
    BY <1>2, <1>8 DEF RequestTransfer, ApproveTransfer, ShipTransfer, CompleteTransfer,
                      CancelTransfer
  <2>3. StockSound'
    BY <1>1, <1>2, <1>3, <2>2, AskTypes, StockUnchanged
  <2> QED
    BY <1>5, <2>1, <2>3
<1> QED
  BY <1>7, <1>8 DEF TransfersNext

(* The variances of a count are a request of signed lines.                 *)
LEMMA VariancesWellFormed ==
  ASSUME NEW count \in CountRecord
  PROVE  WellFormed(Ask("count", count.location, Variances(count)))
<1>1. /\ DOMAIN count.expected \subseteq Product
      /\ \A p \in DOMAIN count.expected : count.expected[p] \in Int
  <2>1. PICK D \in SUBSET Product : count.expected \in [D -> 0..MaxQuantity]
    BY DEF CountRecord
  <2> QED
    BY <2>1
<1>2. \A p : Units(count.counted, p) \in Int
  <2>1. PICK D \in SUBSET Product : count.counted \in [D -> 0..MaxCount]
    BY DEF CountRecord
  <2> QED
    BY <2>1 DEF Units
<1>3. /\ DOMAIN Variances(count) \subseteq Product
      /\ \A p \in DOMAIN Variances(count) : Variances(count)[p] \in Int \ {0}
  BY <1>1, <1>2 DEF Variances
<1>4. count.location \in Location
  BY DEF CountRecord
<1> QED
  BY <1>3, <1>4 DEF WellFormed, Ask, Kind, SignedKind

LEMMA CountsTypes ==
  ASSUME TypeOK, ShelvesSound, CountsNext
  PROVE  counts' \in [StockCount -> CountRecord] /\ submitting' \subseteq StockCount
         /\ StockSound'
<1> DEFINE Typed == /\ counts' \in [StockCount -> CountRecord]
                    /\ submitting' \subseteq StockCount
                    /\ StockSound'
           Expected == UNION {[D -> 0..MaxQuantity] : D \in SUBSET Product}
           Counted == UNION {[D -> 0..MaxCount] : D \in SUBSET Product}
<1>1. /\ StockSound
      /\ counts \in [StockCount -> CountRecord] /\ submitting \subseteq StockCount
  BY DEF TypeOK, StockSound
<1>2. ASSUME NEW D \in SUBSET Product, NEW f \in [D -> 0..MaxQuantity]
      PROVE  f \in Expected
  OBVIOUS
<1>3. ASSUME NEW D \in SUBSET Product, NEW f \in [D -> 0..MaxCount]
      PROVE  f \in Counted
  OBVIOUS
<1>4. ASSUME NEW f \in Expected
      PROVE  DOMAIN f \subseteq Product /\ \A p \in DOMAIN f : f[p] \in 0..MaxQuantity
  OBVIOUS
<1>5. ASSUME NEW f \in Counted
      PROVE  DOMAIN f \subseteq Product /\ \A p \in DOMAIN f : f[p] \in 0..MaxCount
  OBVIOUS
<1>6. CountRecord = [status : CountStatus, location : Location,
                     expected : Expected, counted : Counted]
  BY DEF CountRecord
<1> HIDE DEF Expected, Counted
<1>7. NoLines \in Counted
  <2>1. NoLines \in [{} -> 0..MaxCount]
    BY DEF NoLines
  <2> QED
    BY <1>3, <2>1
<1>8. ASSUME NEW p \in Product, NEW l \in Location
      PROVE  OnHand(p, l) \in 0..MaxQuantity
  BY <1>1 DEF OnHand, StockSound, StockRow, Row
<1>9. ASSUME NEW c \in StockCount
      PROVE  /\ counts[c] \in CountRecord /\ counts[c].location \in Location
             /\ counts[c].expected \in Expected /\ counts[c].counted \in Counted
  BY <1>1, <1>6
<1>10. ASSUME NEW c \in StockCount, NEW record \in CountRecord, SetCount(c, record)
       PROVE  counts' \in [StockCount -> CountRecord] /\ submitting' \subseteq StockCount
  BY <1>1, <1>10 DEF SetCount
<1>11. ASSUME NEW c \in StockCount, NEW from, NEW to \in CountStatus, MoveCount(c, from, to)
       PROVE  counts' \in [StockCount -> CountRecord] /\ submitting' \subseteq StockCount
  <2>1. [counts[c] EXCEPT !.status = to] \in CountRecord
    BY <1>6, <1>9
  <2>2. SetCount(c, [counts[c] EXCEPT !.status = to])
    BY <1>11 DEF MoveCount
  <2> QED
    BY <1>10, <2>1, <2>2
<1>12. ASSUME NEW c \in StockCount, NEW l \in Location, NEW products \in SUBSET Product,
              CreateCount(c, l, products)
       PROVE  Typed
  <2> DEFINE list == [p \in products |-> OnHand(p, l)]
  <2>1. list \in Expected
    <3>1. list \in [products -> 0..MaxQuantity]
      BY <1>8
    <3> QED
      BY <1>2, <3>1
  <2>2. SetCount(c, [status |-> "DRAFT", location |-> l, expected |-> list,
                     counted |-> NoLines])
    BY <1>12 DEF CreateCount
  <2> HIDE DEF list
  <2>3. [status |-> "DRAFT", location |-> l, expected |-> list, counted |-> NoLines]
          \in CountRecord
    BY <1>6, <1>7, <2>1 DEF CountStatus
  <2> QED
    BY <1>1, <1>10, <1>12, <2>2, <2>3, StockUnchanged DEF CreateCount
<1>13. ASSUME NEW c \in StockCount, NEW p \in Product, AddCountItem(c, p)
       PROVE  Typed
  <2> DEFINE count == counts[c]
             list == WithLine(count.expected, p, OnHand(p, count.location))
  <2>1. list \in Expected
    <3>1. OnHand(p, count.location) \in 0..MaxQuantity
      BY <1>8, <1>9
    <3>2. /\ DOMAIN count.expected \subseteq Product
          /\ \A q \in DOMAIN count.expected : count.expected[q] \in 0..MaxQuantity
      BY <1>4, <1>9
    <3>3. list \in [DOMAIN count.expected \cup {p} -> 0..MaxQuantity]
      BY <3>1, <3>2 DEF WithLine
    <3>4. DOMAIN count.expected \cup {p} \in SUBSET Product
      BY <3>2
    <3> QED
      BY <1>2, <3>3, <3>4
  <2>2. SetCount(c, [count EXCEPT !.expected = list])
    BY <1>13 DEF AddCountItem
  <2> HIDE DEF list
  <2>3. [count EXCEPT !.expected = list] \in CountRecord
    BY <1>6, <1>9, <2>1
  <2> QED
    BY <1>1, <1>10, <1>13, <2>2, <2>3, StockUnchanged DEF AddCountItem
<1>14. ASSUME NEW c \in StockCount, NEW p \in Product, RemoveCountItem(c, p)
       PROVE  Typed
  <2> DEFINE list == WithoutLine(counts[c].expected, p)
  <2>1. list \in Expected
    <3>1. /\ DOMAIN counts[c].expected \subseteq Product
          /\ \A q \in DOMAIN counts[c].expected : counts[c].expected[q] \in 0..MaxQuantity
      BY <1>4, <1>9
    <3>2. list \in [DOMAIN counts[c].expected \ {p} -> 0..MaxQuantity]
      BY <3>1 DEF WithoutLine
    <3>3. DOMAIN counts[c].expected \ {p} \in SUBSET Product
      BY <3>1
    <3> QED
      BY <1>2, <3>2, <3>3
  <2>2. SetCount(c, [counts[c] EXCEPT !.expected = list])
    BY <1>14 DEF RemoveCountItem
  <2> HIDE DEF list
  <2>3. [counts[c] EXCEPT !.expected = list] \in CountRecord
    BY <1>6, <1>9, <2>1
  <2> QED
    BY <1>1, <1>10, <1>14, <2>2, <2>3, StockUnchanged DEF RemoveCountItem
<1>15. ASSUME NEW c \in StockCount, ReadCounting(c) \/ AbandonSubmit(c)
       PROVE  Typed
  BY <1>1, <1>15, StockUnchanged DEF ReadCounting, AbandonSubmit
<1>16. ASSUME NEW c \in StockCount, NEW p \in Product, NEW n \in 0..MaxCount,
              WriteCounted(c, p, n)
       PROVE  Typed
  <2> DEFINE list == WithLine(counts[c].counted, p, n)
  <2>1. list \in Counted
    <3>1. /\ DOMAIN counts[c].counted \subseteq Product
          /\ \A q \in DOMAIN counts[c].counted : counts[c].counted[q] \in 0..MaxCount
      BY <1>5, <1>9
    <3>2. list \in [DOMAIN counts[c].counted \cup {p} -> 0..MaxCount]
      BY <3>1 DEF WithLine
    <3>3. DOMAIN counts[c].counted \cup {p} \in SUBSET Product
      BY <3>1
    <3> QED
      BY <1>3, <3>2, <3>3
  <2>2. counts' = [counts EXCEPT ![c] = [counts[c] EXCEPT !.counted = list]]
    BY <1>16 DEF WriteCounted
  <2> HIDE DEF list
  <2>3. [counts[c] EXCEPT !.counted = list] \in CountRecord
    BY <1>6, <1>9, <2>1
  <2>4. counts' \in [StockCount -> CountRecord]
    BY <1>1, <1>9, <2>2, <2>3, Zenon
  <2> QED
    BY <1>1, <1>16, <2>4, StockUnchanged DEF WriteCounted
<1>17. ASSUME NEW c \in StockCount,
              StartCounting(c) \/ SubmitForReview(c) \/ CloseCount(c) \/ CancelCount(c)
       PROVE  Typed
  <2>1. PICK from, to \in CountStatus : MoveCount(c, from, to)
    BY <1>17 DEF StartCounting, SubmitForReview, CloseCount, CancelCount, CountStatus
  <2>2. UNCHANGED stockVars
    BY <1>17 DEF StartCounting, SubmitForReview, CloseCount, CancelCount
  <2> QED
    BY <1>1, <1>11, <2>1, <2>2, StockUnchanged
<1>18. ASSUME NEW c \in StockCount, ApproveCount(c)
       PROVE  Typed
  <2>1. "APPROVED" \in CountStatus
    BY DEF CountStatus
  <2>2. StockSound'
    BY <1>1, <1>9, <1>18, VariancesWellFormed, ApplyTypes, ApplySound DEF ApproveCount, StockSound
  <2> QED
    BY <1>11, <1>18, <2>1, <2>2 DEF ApproveCount
<1> QED
  BY <1>12, <1>13, <1>14, <1>15, <1>16, <1>17, <1>18 DEF CountsNext

(* The manual adjustment and the goods put back are well formed too.       *)
LEMMA StockNextAsks ==
  ASSUME StockNext
  PROVE  \E req : /\ WellFormed(req) /\ Apply(req)
                  /\ req.kind \in SignedKind \cup {"restore", "arrive"}
<1>1. PICK p \in Product, n \in 1..MaxLine : Adjust(p, n) \/ Adjust(p, -n) \/ Restock(p, n)
  BY DEF StockNext
<1>2. n \in Int \ {0} /\ -n \in Int \ {0} /\ n > 0
  BY DocumentsAssumption
<1>3. ASSUME NEW m \in Int \ {0}
      PROVE  WellFormed(Ask("adjust", Default, OneLine(p, m)))
  BY DocumentsAssumption DEF WellFormed, Ask, OneLine, Kind, SignedKind
<1>4. WellFormed(Ask("restore", Default, OneLine(p, n)))
  BY <1>2, DocumentsAssumption DEF WellFormed, Ask, OneLine, Kind, SignedKind
<1>5. ASSUME NEW m \in Int \ {0}, Adjust(p, m)
      PROVE  \E req : /\ WellFormed(req) /\ Apply(req)
                      /\ req.kind \in SignedKind \cup {"restore", "arrive"}
  <2> WITNESS Ask("adjust", Default, OneLine(p, m))
  <2> QED
    BY <1>3, <1>5 DEF Adjust, Ask, SignedKind
<1>6. ASSUME Restock(p, n)
      PROVE  \E req : /\ WellFormed(req) /\ Apply(req)
                      /\ req.kind \in SignedKind \cup {"restore", "arrive"}
  <2> WITNESS Ask("restore", Default, OneLine(p, n))
  <2> QED
    BY <1>4, <1>6 DEF Restock, Ask
<1> QED
  BY <1>1, <1>2, <1>5, <1>6

LEMMA InitTypes == Init => TypeOK /\ ShelvesSound
<1> SUFFICES ASSUME Init PROVE TypeOK /\ ShelvesSound
  OBVIOUS
<1>1. EmptyRow \in StockRow /\ EmptyRow.reserved <= EmptyRow.quantity
  BY RowsAssumption DEF EmptyRow, StockRow
<1>2. NoOrder \in OrderRecord
  BY EmptyLines, OrdersAssumption
  DEF NoOrder, OrderRecord, OrderStatus, PaymentStatus, Amount
<1>3. NoRepair \in RepairRecord
  BY EmptyLines, RepairsAssumption
  DEF NoRepair, RepairRecord, RepairStatus, RepairTransitions, Cost
<1>4. NoTransfer \in TransferRecord
  BY EmptyLines, DocumentsAssumption DEF NoTransfer, TransferRecord, TransferStatus
<1>5. NoCount \in CountRecord
  <2>1. NoLines \in [{} -> 0..MaxQuantity] /\ NoLines \in [{} -> 0..MaxCount]
    BY DEF NoLines
  <2>2. /\ NoLines \in UNION {[D -> 0..MaxQuantity] : D \in SUBSET Product}
        /\ NoLines \in UNION {[D -> 0..MaxCount] : D \in SUBSET Product}
    BY <2>1
  <2> QED
    BY <2>2, DocumentsAssumption DEF NoCount, CountRecord, CountStatus
<1> QED
  BY <1>1, <1>2, <1>3, <1>4, <1>5, RowsAssumption
  DEF Init, StockInit, OrdersInit, RepairsInit, TransfersInit, CountsInit, TypeOK,
      ShelvesSound

LEMMA TypeInductive == TypeOK /\ ShelvesSound /\ [Next]_vars => TypeOK' /\ ShelvesSound'
<1> SUFFICES ASSUME TypeOK, ShelvesSound, [Next]_vars PROVE TypeOK' /\ ShelvesSound'
  OBVIOUS
<1>1. CASE OrdersNext /\ UNCHANGED <<repairVars, transfers, countVars>>
  BY <1>1, OrdersTypes DEF TypeOK, StockSound, repairVars, countVars
<1>2. CASE RepairsNext /\ UNCHANGED <<orders, transfers, countVars>>
  BY <1>2, RepairsTypes DEF TypeOK, StockSound, countVars
<1>3. CASE TransfersNext /\ UNCHANGED <<orders, repairVars, countVars>>
  BY <1>3, TransfersTypes DEF TypeOK, StockSound, repairVars, countVars
<1>4. CASE CountsNext /\ UNCHANGED <<orders, repairVars, transfers>>
  BY <1>4, CountsTypes DEF TypeOK, StockSound, repairVars
<1>5. CASE StockNext /\ UNCHANGED <<orders, repairVars, transfers, countVars>>
  BY <1>5, StockNextAsks, ApplyTypes, ApplySound DEF TypeOK, repairVars, countVars
<1>6. CASE UNCHANGED vars
  BY <1>6 DEF TypeOK, ShelvesSound, vars, stockVars, repairVars, countVars
<1> QED
  BY <1>1, <1>2, <1>3, <1>4, <1>5, <1>6 DEF Next, FloorNext

(* Every variable keeps its type: no row leaves the range of its column,   *)
(* no reservation is negative, and no payment outgrows its document.       *)
THEOREM TypeCorrect == Spec => []TypeOK
  BY InitTypes, TypeInductive, PTL DEF Spec

----------------------------------------------------------------------------
(* Claims: the sum of what the documents hold.                             *)

LEMMA DocumentsFinite == IsFiniteSet(Document)
<1>1. IsFiniteSet(Order \cup Repair)
  BY ShopAssumption, FS_Union, Zenon
<1> QED
  BY <1>1, ShopAssumption, FS_Union, Zenon DEF Document

HoldsTyped == \A d \in Document, r \in Row : Holds(d, r) \in 0..MaxLine

LEMMA HoldsType == TypeOK => HoldsTyped
<1> SUFFICES ASSUME TypeOK, NEW d \in Document, NEW r \in Row
             PROVE  Holds(d, r) \in 0..MaxLine
  BY DEF HoldsTyped
<1>1. 0 \in 0..MaxLine
  BY DocumentsAssumption
<1>2. CASE d \in Order
  <2>1. Units(orders[d].lines, r[1]) \in 0..MaxLine
    BY <1>2, LinesAreMaps DEF TypeOK, OrderRecord
  <2> QED
    BY <1>1, <1>2, <2>1 DEF Holds, OrderHolds
<1>3. CASE d \in Repair
  <2>1. Units(repairs[d].parts, r[1]) \in 0..MaxLine
    BY <1>3, LinesAreMaps DEF TypeOK, RepairRecord
  <2> QED
    BY <1>1, <1>3, <2>1, ShopAssumption DEF Holds, RepairHolds
<1>4. CASE d \in Transfer
  <2>1. Units(transfers[d].lines, r[1]) \in 0..MaxLine
    BY <1>4, LinesAreMaps DEF TypeOK, TransferRecord
  <2> QED
    BY <1>1, <1>4, <2>1, ShopAssumption DEF Holds, TransferHolds
<1> QED
  BY <1>2, <1>3, <1>4 DEF Document

Held(r) == [d \in Document |-> Holds(d, r)]

(* A step in which one document changes its claim, and the rows change     *)
(* what is reserved by as much.                                            *)
LEMMA ClaimsMove ==
  ASSUME HoldsTyped, HoldsTyped', ReservedIsClaimed,
         inventory \in [Row -> StockRow],
         NEW d \in Document,
         \A e \in Document \ {d}, r \in Row : Holds(e, r)' = Holds(e, r),
         \A r \in Row : inventory'[r].reserved
                          = inventory[r].reserved - Holds(d, r) + Holds(d, r)'
  PROVE  ReservedIsClaimed'
<1> SUFFICES ASSUME NEW r \in Row
             PROVE  inventory'[r].reserved = Cardinality(Claims(r)')
  BY DEF ReservedIsClaimed
<1> DEFINE f == Held(r)
           g == Held(r)'
<1>1. f \in [Document -> 0..MaxLine] /\ g \in [Document -> 0..MaxLine]
  BY DEF Held, HoldsTyped
<1>2. f[d] = Holds(d, r) /\ g[d] = Holds(d, r)'
  BY DEF Held
<1>3. \A e \in Document \ {d} : f[e] = g[e]
  BY DEF Held
<1>4. /\ Claims(r) = Boxes(Document, MaxLine, f)
      /\ Claims(r)' = Boxes(Document, MaxLine, g)
  BY DEF Claims, Boxes, Held
<1>5. inventory[r].reserved = Cardinality(Claims(r))
  BY DEF ReservedIsClaimed
<1>6. inventory'[r].reserved = inventory[r].reserved - f[d] + g[d]
  BY <1>2
<1> HIDE DEF f, g
<1>7. Cardinality(Boxes(Document, MaxLine, g))
        = Cardinality(Boxes(Document, MaxLine, f)) - f[d] + g[d]
  BY <1>1, <1>3, DocumentsFinite, DocumentsAssumption, BoxesChange
<1> QED
  BY <1>4, <1>5, <1>6, <1>7

(* A step in which nobody's claim changes, nor any reservation.            *)
LEMMA ClaimsStay ==
  ASSUME ReservedIsClaimed,
         \A e \in Document, r \in Row : Holds(e, r)' = Holds(e, r),
         \A r \in Row : inventory'[r].reserved = inventory[r].reserved
  PROVE  ReservedIsClaimed'
  BY DEF ReservedIsClaimed, Claims

(* Orders: reserved at confirmation, taken or given back once.             *)
LEMMA OrderClaims ==
  ASSUME TypeOK, TypeOK', ReservedIsClaimed, HoldsTyped, HoldsTyped',
         OrdersNext, UNCHANGED <<repairVars, transfers>>
  PROVE  ReservedIsClaimed'
<1>1. PICK o \in Order :
        \/ EditOrder(o) \/ ConfirmOrder(o) \/ CompleteOrder(o) \/ CancelDraft(o)
        \/ CancelConfirmed(o)
        \/ \E amount \in 1..MaxAmount : AddOrderPayment(o, amount)
  BY DEF OrdersNext
<1>2. /\ inventory \in [Row -> StockRow] /\ Default \in Location
      /\ orders \in [Order -> OrderRecord]
      /\ orders[o] \in OrderRecord /\ orders[o].lines \in Lines
  BY DocumentsAssumption DEF TypeOK, OrderRecord
<1>3. \A r \in Row : inventory[r].reserved \in Nat
  BY <1>2 DEF StockRow
<1>4. \A r \in Row :
        /\ Holds(o, r) = OrderHolds(o, r)
        /\ Holds(o, r)' = OrderHolds(o, r)'
  BY DEF Holds
<1>5. \A r \in Row : Asked(Default, orders[o].lines, r) \in Nat
  BY <1>2, LinesAreMaps DEF Asked
<1>6. ASSUME NEW record, orders' = [orders EXCEPT ![o] = record],
             \A r \in Row : inventory'[r].reserved
                = inventory[r].reserved - OrderHolds(o, r) + OrderHolds(o, r)'
      PROVE  ReservedIsClaimed'
  <2>1. \A e \in Order \ {o} : orders'[e] = orders[e]
    BY <1>2, <1>6
  <2>2. \A e \in Document \ {o}, r \in Row : Holds(e, r)' = Holds(e, r)
    BY <2>1 DEF Document, Holds, OrderHolds, RepairHolds, TransferHolds, repairVars
  <2>3. o \in Document
    BY DEF Document
  <2> QED
    BY <1>2, <1>4, <1>6, <2>2, <2>3, ClaimsMove
<1>7. ASSUME NEW from, NEW to, MoveOrder(o, from, to)
      PROVE  /\ orders' = [orders EXCEPT ![o] = [orders[o] EXCEPT !.status = to]]
             /\ orders[o].status = from /\ orders'[o].status = to
             /\ orders'[o].lines = orders[o].lines
  BY <1>2, <1>7 DEF MoveOrder, OrderRecord
<1>8. CASE EditOrder(o)
  <2>1. PICK lines, subtotal, discount, tax :
          /\ orders[o].status \in {"NONE", "DRAFT"}
          /\ Reprice(o, lines, subtotal, discount, tax)
    BY <1>8 DEF EditOrder, CreateOrder, UpdateOrder, AddOrderItem, UpdateOrderItem,
                RemoveOrderItem
  <2> DEFINE record == [orders[o] EXCEPT !.status = "DRAFT", !.lines = lines,
                          !.subtotal = subtotal, !.discount = discount, !.tax = tax]
  <2>2. orders' = [orders EXCEPT ![o] = record] /\ UNCHANGED stockVars
    BY <2>1 DEF Reprice
  <2>3. orders'[o].status = "DRAFT"
    BY <1>2, <2>2 DEF OrderRecord
  <2>4. \A r \in Row : OrderHolds(o, r) = 0 /\ OrderHolds(o, r)' = 0
    BY <2>1, <2>3 DEF OrderHolds
  <2>5. \A r \in Row : inventory'[r].reserved
                         = inventory[r].reserved - OrderHolds(o, r) + OrderHolds(o, r)'
    BY <1>3, <2>2, <2>4 DEF stockVars
  <2> HIDE DEF record
  <2> QED
    BY <1>6, <2>2, <2>5
<1>9. CASE ConfirmOrder(o)
  <2>1. /\ MoveOrder(o, "DRAFT", "CONFIRMED")
        /\ Apply(Ask("reserve", Default, orders[o].lines))
    BY <1>9 DEF ConfirmOrder
  <2>2. \A r \in Row : /\ OrderHolds(o, r) = 0
                       /\ OrderHolds(o, r)' = Asked(Default, orders[o].lines, r)
    BY <1>7, <2>1 DEF OrderHolds, Asked
  <2>3. \A r \in Row : inventory'[r].reserved
                         = inventory[r].reserved + Asked(Default, orders[o].lines, r)
    BY <1>2, <2>1, AskReserves
  <2> QED
    BY <1>3, <1>5, <1>6, <1>7, <2>1, <2>2, <2>3
<1>10. CASE CompleteOrder(o) \/ CancelConfirmed(o)
  <2>1. PICK kind \in {"consume", "release"}, to \in {"COMPLETED", "CANCELLED"} :
          /\ MoveOrder(o, "CONFIRMED", to)
          /\ Apply(Ask(kind, Default, orders[o].lines))
    BY <1>10 DEF CompleteOrder, CancelConfirmed
  <2>2. \A r \in Row : /\ OrderHolds(o, r) = Asked(Default, orders[o].lines, r)
                       /\ OrderHolds(o, r)' = 0
    BY <1>7, <2>1 DEF OrderHolds, Asked
  <2>3. \A r \in Row : inventory'[r].reserved
                         = inventory[r].reserved - Asked(Default, orders[o].lines, r)
    BY <1>2, <2>1, AskReserves
  <2> QED
    BY <1>3, <1>5, <1>6, <1>7, <2>1, <2>2, <2>3
<1>11. CASE CancelDraft(o)
  <2>1. MoveOrder(o, "DRAFT", "CANCELLED") /\ UNCHANGED stockVars
    BY <1>11 DEF CancelDraft
  <2>2. \A r \in Row : OrderHolds(o, r) = 0 /\ OrderHolds(o, r)' = 0
    BY <1>7, <2>1 DEF OrderHolds
  <2> QED
    BY <1>3, <1>6, <1>7, <2>1, <2>2 DEF stockVars
<1>12. ASSUME NEW amount \in 1..MaxAmount, AddOrderPayment(o, amount)
       PROVE  ReservedIsClaimed'
  <2> DEFINE paid == orders[o].paid + amount
             record == [orders[o] EXCEPT !.paid = paid,
                         !.paymentStatus = PaymentStatusFor(paid, Total(orders[o]))]
  <2>1. orders' = [orders EXCEPT ![o] = record] /\ UNCHANGED stockVars
    BY <1>12 DEF AddOrderPayment
  <2>2. record.status = orders[o].status /\ record.lines = orders[o].lines
    BY <1>2 DEF OrderRecord
  <2> HIDE DEF record
  <2>3. \A r \in Row : OrderHolds(o, r)' = OrderHolds(o, r)
    BY <1>2, <2>1, <2>2 DEF OrderHolds
  <2>4. \A r \in Row : OrderHolds(o, r) \in Nat
    BY <1>4, DocumentsAssumption DEF HoldsTyped, Document
  <2>5. \A r \in Row : inventory'[r].reserved
                         = inventory[r].reserved - OrderHolds(o, r) + OrderHolds(o, r)'
    BY <1>3, <2>1, <2>3, <2>4 DEF stockVars
  <2> QED
    BY <1>6, <2>1, <2>5
<1> QED
  BY <1>1, <1>8, <1>9, <1>10, <1>11, <1>12

(* Repairs: a part is reserved when it is fitted, by the difference when   *)
(* its quantity changes, and taken or given back when the repair ends.     *)
RepairsFresh == \A d \in Repair : repairs[d].status = "NONE" => repairs[d].parts = NoLines

LEMMA RepairClaims ==
  ASSUME TypeOK, TypeOK', ReservedIsClaimed, HoldsTyped, HoldsTyped', RepairsFresh,
         RepairsNext, UNCHANGED <<orders, transfers>>
  PROVE  ReservedIsClaimed'
<1>1. PICK d \in Repair :
        \/ CreateRepair(d) \/ CancelRepair(d) \/ CompleteRepair(d)
        \/ \E to \in RepairStatus : ProgressRepair(d, to)
        \/ \E cost \in Cost : UpdateRepair(d, cost)
        \/ ReadFinalCost(d) \/ AbandonCompletion(d)
        \/ \E amount \in 1..MaxCost : AddRepairPayment(d, amount)
        \/ \E p \in Product, n \in 1..MaxLine : AddPart(d, p, n) \/ UpdatePart(d, p, n)
        \/ \E p \in Product : RemovePart(d, p)
  BY DEF RepairsNext
<1>2. /\ inventory \in [Row -> StockRow] /\ Default \in Location
      /\ repairs \in [Repair -> RepairRecord]
      /\ repairs[d] \in RepairRecord /\ repairs[d].parts \in Lines
  BY DocumentsAssumption DEF TypeOK, RepairRecord
<1>3. \A r \in Row : inventory[r].reserved \in Nat
  BY <1>2 DEF StockRow
<1>4. /\ d \in Document
      /\ \A r \in Row : /\ Holds(d, r) = RepairHolds(d, r)
                        /\ Holds(d, r)' = RepairHolds(d, r)'
  BY ShopAssumption DEF Holds, Document
<1>5. \A r \in Row : RepairHolds(d, r) \in Nat /\ RepairHolds(d, r)' \in Nat
  BY <1>4, DocumentsAssumption DEF HoldsTyped
<1>6. ASSUME \A e \in Repair \ {d} : repairs'[e] = repairs[e],
             \A r \in Row : inventory'[r].reserved
                = inventory[r].reserved - RepairHolds(d, r) + RepairHolds(d, r)'
      PROVE  ReservedIsClaimed'
  <2>1. \A e \in Document \ {d}, r \in Row : Holds(e, r)' = Holds(e, r)
    BY <1>6 DEF Document, Holds, OrderHolds, RepairHolds, TransferHolds
  <2> QED
    BY <1>2, <1>4, <1>6, <2>1, ClaimsMove
<1>7. ASSUME \A e \in Repair \ {d} : repairs'[e] = repairs[e],
             repairs'[d].parts = repairs[d].parts,
             repairs'[d].status \in Open <=> repairs[d].status \in Open,
             UNCHANGED stockVars
      PROVE  ReservedIsClaimed'
  <2>1. \A r \in Row : RepairHolds(d, r)' = RepairHolds(d, r)
    BY <1>7 DEF RepairHolds
  <2>2. \A r \in Row : inventory'[r].reserved
                         = inventory[r].reserved - RepairHolds(d, r) + RepairHolds(d, r)'
    BY <1>3, <1>5, <1>7, <2>1 DEF stockVars
  <2> QED
    BY <1>6, <1>7, <2>2
<1>8. ASSUME NEW to, MoveRepair(d, to)
      PROVE  /\ \A e \in Repair \ {d} : repairs'[e] = repairs[e]
             /\ repairs'[d].parts = repairs[d].parts
             /\ repairs'[d].status = to
             /\ to \in RepairTransitions[repairs[d].status]
  BY <1>2, <1>8 DEF MoveRepair, RepairRecord
<1>9. CASE CreateRepair(d)
  <2>1. /\ repairs[d].status = "NONE" /\ UNCHANGED stockVars
        /\ \A e \in Repair \ {d} : repairs'[e] = repairs[e]
        /\ repairs'[d].parts = repairs[d].parts
    BY <1>2, <1>9 DEF CreateRepair, RepairRecord
  <2>2. \A r \in Row : RepairHolds(d, r) = 0 /\ RepairHolds(d, r)' = 0
    BY <2>1, EmptyLines DEF RepairHolds, Open, RepairsFresh
  <2>3. \A r \in Row : inventory'[r].reserved
                         = inventory[r].reserved - RepairHolds(d, r) + RepairHolds(d, r)'
    BY <1>3, <2>1, <2>2 DEF stockVars
  <2> QED
    BY <1>6, <2>1, <2>3
<1>10. ASSUME NEW to, ProgressRepair(d, to)
       PROVE  ReservedIsClaimed'
  <2>1. MoveRepair(d, to) /\ to \notin {"COMPLETED", "CANCELLED"} /\ UNCHANGED stockVars
    BY <1>10 DEF ProgressRepair
  <2>2. repairs[d].status \in RepairStatus
    BY <1>2 DEF RepairRecord
  <2>3. to \in Open <=> repairs[d].status \in Open
    BY <1>8, <2>1, <2>2 DEF RepairTransitions, RepairStatus, Open
  <2> QED
    BY <1>7, <1>8, <2>1, <2>3
<1>11. CASE CancelRepair(d) \/ CompleteRepair(d)
  <2>1. PICK kind \in {"consume", "release"}, to \in {"COMPLETED", "CANCELLED"} :
          MoveRepair(d, to) /\ Apply(Ask(kind, Default, repairs[d].parts))
    BY <1>11 DEF CancelRepair, CompleteRepair
  <2>2. repairs[d].status \in Open /\ to \notin Open
    <3>1. repairs[d].status \in RepairStatus
      BY <1>2 DEF RepairRecord
    <3> QED
      BY <1>8, <2>1, <3>1 DEF RepairTransitions, RepairStatus, Open
  <2>3. \A r \in Row : /\ RepairHolds(d, r) = Asked(Default, repairs[d].parts, r)
                       /\ RepairHolds(d, r)' = 0
    BY <1>8, <2>1, <2>2 DEF RepairHolds, Asked
  <2>4. \A r \in Row : inventory'[r].reserved
                         = inventory[r].reserved - Asked(Default, repairs[d].parts, r)
    BY <1>2, <2>1, AskReserves
  <2>5. \A r \in Row : inventory'[r].reserved
                         = inventory[r].reserved - RepairHolds(d, r) + RepairHolds(d, r)'
    BY <1>3, <1>5, <2>3, <2>4
  <2> QED
    BY <1>6, <1>8, <2>1, <2>5
<1>12. ASSUME NEW cost, UpdateRepair(d, cost)
       PROVE  ReservedIsClaimed'
  BY <1>2, <1>7, <1>12 DEF UpdateRepair, RepairRecord
<1>13. CASE ReadFinalCost(d) \/ AbandonCompletion(d)
  BY <1>7, <1>13 DEF ReadFinalCost, AbandonCompletion
<1>14. ASSUME NEW amount, AddRepairPayment(d, amount)
       PROVE  ReservedIsClaimed'
  BY <1>2, <1>7, <1>14 DEF AddRepairPayment, RepairRecord
<1>15. ASSUME NEW parts, SetParts(d, parts)
       PROVE  /\ \A e \in Repair \ {d} : repairs'[e] = repairs[e]
              /\ \A r \in Row : /\ RepairHolds(d, r) = Asked(Default, repairs[d].parts, r)
                                /\ RepairHolds(d, r)' = Asked(Default, parts, r)
  <2>1. /\ \A e \in Repair \ {d} : repairs'[e] = repairs[e]
        /\ repairs[d].status \in Open /\ repairs'[d].status = repairs[d].status
        /\ repairs'[d].parts = parts
    BY <1>2, <1>15 DEF SetParts, RepairRecord
  <2> QED
    BY <2>1 DEF RepairHolds, Asked
<1>16. ASSUME NEW parts, SetParts(d, parts), NEW p \in Product, NEW n \in 1..MaxLine,
              Apply(Ask("reserve", Default, OneLine(p, n))),
              \A q \in Product : Units(parts, q) = Units(repairs[d].parts, q)
                                   + (IF q = p THEN n ELSE 0)
       PROVE  ReservedIsClaimed'
  <2>1. OneLine(p, n) \in Lines
    BY <1>2, <1>16, EditedLines
  <2>2. \A r \in Row : Asked(Default, OneLine(p, n), r)
                         = IF r[2] = Default /\ r[1] = p THEN n ELSE 0
    BY <1>2, EditedUnits DEF Asked
  <2>3. \A r \in Row : inventory'[r].reserved
                         = inventory[r].reserved + Asked(Default, OneLine(p, n), r)
    BY <1>2, <1>16, <2>1, AskReserves
  <2>4. ASSUME NEW r \in Row
        PROVE  inventory'[r].reserved
                 = inventory[r].reserved - RepairHolds(d, r) + RepairHolds(d, r)'
    <3>1. /\ RepairHolds(d, r) = Asked(Default, repairs[d].parts, r)
          /\ RepairHolds(d, r)' = Asked(Default, parts, r)
      BY <1>15, <1>16
    <3>2. r[1] \in Product
      BY DEF Row
    <3>3. /\ Units(parts, r[1]) = Units(repairs[d].parts, r[1])
                                    + (IF r[1] = p THEN n ELSE 0)
          /\ Units(repairs[d].parts, r[1]) \in Nat /\ n \in Nat
      BY <1>2, <1>16, <3>2, LinesAreMaps, DocumentsAssumption
    <3>4. inventory[r].reserved \in Nat
      BY <1>3
    <3>5. CASE r[2] = Default
      BY <2>2, <2>3, <3>1, <3>3, <3>4, <3>5 DEF Asked
    <3>6. CASE r[2] # Default
      BY <2>2, <2>3, <3>1, <3>4, <3>6 DEF Asked
    <3> QED
      BY <3>5, <3>6
  <2> QED
    BY <1>6, <1>15, <1>16, <2>4
<1>17. ASSUME NEW parts, SetParts(d, parts), NEW p \in Product, NEW n \in 1..MaxLine,
              Apply(Ask("release", Default, OneLine(p, n))),
              \A q \in Product : Units(parts, q) = Units(repairs[d].parts, q)
                                   - (IF q = p THEN n ELSE 0)
       PROVE  ReservedIsClaimed'
  <2>1. OneLine(p, n) \in Lines
    BY <1>2, <1>17, EditedLines
  <2>2. \A r \in Row : Asked(Default, OneLine(p, n), r)
                         = IF r[2] = Default /\ r[1] = p THEN n ELSE 0
    BY <1>2, EditedUnits DEF Asked
  <2>3. \A r \in Row : inventory'[r].reserved
                         = inventory[r].reserved - Asked(Default, OneLine(p, n), r)
    BY <1>2, <1>17, <2>1, AskReserves
  <2>4. ASSUME NEW r \in Row
        PROVE  inventory'[r].reserved
                 = inventory[r].reserved - RepairHolds(d, r) + RepairHolds(d, r)'
    <3>1. /\ RepairHolds(d, r) = Asked(Default, repairs[d].parts, r)
          /\ RepairHolds(d, r)' = Asked(Default, parts, r)
      BY <1>15, <1>17
    <3>2. r[1] \in Product
      BY DEF Row
    <3>3. /\ Units(parts, r[1]) = Units(repairs[d].parts, r[1])
                                    - (IF r[1] = p THEN n ELSE 0)
          /\ Units(repairs[d].parts, r[1]) \in Nat /\ n \in Nat
      BY <1>2, <1>17, <3>2, LinesAreMaps, DocumentsAssumption
    <3>4. inventory[r].reserved \in Nat
      BY <1>3
    <3>5. CASE r[2] = Default
      BY <2>2, <2>3, <3>1, <3>3, <3>4, <3>5 DEF Asked
    <3>6. CASE r[2] # Default
      BY <2>2, <2>3, <3>1, <3>4, <3>6 DEF Asked
    <3> QED
      BY <3>5, <3>6
  <2> QED
    BY <1>6, <1>15, <1>17, <2>4
<1>18. ASSUME NEW p \in Product, NEW n \in 1..MaxLine, AddPart(d, p, n)
       PROVE  ReservedIsClaimed'
  <2>1. \A q \in Product : Units(WithLine(repairs[d].parts, p, n), q)
          = Units(repairs[d].parts, q) + (IF q = p THEN n ELSE 0)
    <3>1. \A q \in Product : Units(repairs[d].parts, q) \in Nat
      BY <1>2, LinesAreMaps
    <3>2. Units(repairs[d].parts, p) = 0 /\ n \in Nat
      BY <1>18, DocumentsAssumption DEF AddPart, Units
    <3> QED
      BY <1>2, <3>1, <3>2, EditedUnits
  <2> QED
    BY <1>16, <1>18, <2>1 DEF AddPart
<1>19. ASSUME NEW p \in Product, RemovePart(d, p)
       PROVE  ReservedIsClaimed'
  <2> DEFINE n == repairs[d].parts[p]
  <2>1. n \in 1..MaxLine
    BY <1>2, <1>19, LinesAreMaps DEF RemovePart
  <2>2. \A q \in Product : Units(WithoutLine(repairs[d].parts, p), q)
          = Units(repairs[d].parts, q) - (IF q = p THEN n ELSE 0)
    <3>1. \A q \in Product : Units(repairs[d].parts, q) \in Nat
      BY <1>2, LinesAreMaps
    <3>2. Units(repairs[d].parts, p) = n /\ n \in Nat
      BY <1>19, <2>1, DocumentsAssumption DEF RemovePart, Units
    <3> HIDE DEF n
    <3> QED
      BY <1>2, <3>1, <3>2, WithoutUnits
  <2>3. SetParts(d, WithoutLine(repairs[d].parts, p))
    BY <1>19 DEF RemovePart
  <2>4. Apply(Ask("release", Default, OneLine(p, n)))
    BY <1>19 DEF RemovePart
  <2> HIDE DEF n
  <2> QED
    BY <1>17, <2>1, <2>2, <2>3, <2>4
<1>20. ASSUME NEW p \in Product, NEW n \in 1..MaxLine, UpdatePart(d, p, n)
       PROVE  ReservedIsClaimed'
  <2> DEFINE fitted == repairs[d].parts[p]
             parts == WithLine(repairs[d].parts, p, n)
  <2>1. fitted \in 1..MaxLine /\ n \in Nat /\ fitted \in Nat
    BY <1>2, <1>20, LinesAreMaps, DocumentsAssumption DEF UpdatePart
  <2>2. \A q \in Product : /\ Units(parts, q) = IF q = p THEN n ELSE Units(repairs[d].parts, q)
                           /\ Units(repairs[d].parts, q) \in Nat
    BY <1>2, EditedUnits, LinesAreMaps
  <2>3. Units(repairs[d].parts, p) = fitted
    BY <1>20 DEF UpdatePart, Units
  <2>4. /\ SetParts(d, parts)
        /\ \/ n > fitted /\ Apply(Ask("reserve", Default, OneLine(p, n - fitted)))
           \/ n < fitted /\ Apply(Ask("release", Default, OneLine(p, fitted - n)))
           \/ n = fitted /\ UNCHANGED stockVars
    BY <1>20 DEF UpdatePart
  <2> HIDE DEF fitted, parts
  <2>5. CASE n > fitted /\ Apply(Ask("reserve", Default, OneLine(p, n - fitted)))
    <3>1. n - fitted \in 1..MaxLine
      BY <2>1, <2>5, DocumentsAssumption
    <3>2. ASSUME NEW q \in Product
          PROVE  Units(parts, q)
            = Units(repairs[d].parts, q) + (IF q = p THEN n - fitted ELSE 0)
      <4>1. CASE q = p
        BY <2>1, <2>2, <2>3, <4>1
      <4>2. CASE q # p
        BY <2>2, <4>2
      <4> QED
        BY <4>1, <4>2
    <3> QED
      BY <1>16, <2>4, <2>5, <3>1, <3>2
  <2>6. CASE n < fitted /\ Apply(Ask("release", Default, OneLine(p, fitted - n)))
    <3>1. fitted - n \in 1..MaxLine
      BY <2>1, <2>6, DocumentsAssumption
    <3>2. ASSUME NEW q \in Product
          PROVE  Units(parts, q)
            = Units(repairs[d].parts, q) - (IF q = p THEN fitted - n ELSE 0)
      <4>1. CASE q = p
        BY <2>1, <2>2, <2>3, <4>1
      <4>2. CASE q # p
        BY <2>2, <4>2
      <4> QED
        BY <4>1, <4>2
    <3> QED
      BY <1>17, <2>4, <2>6, <3>1, <3>2
  <2>7. CASE n = fitted /\ UNCHANGED stockVars
    <3>1. \A r \in Row : RepairHolds(d, r) = RepairHolds(d, r)'
      <4>1. \A r \in Row : /\ RepairHolds(d, r) = Asked(Default, repairs[d].parts, r)
                           /\ RepairHolds(d, r)' = Asked(Default, parts, r)
        BY <1>15, <2>4
      <4>2. \A r \in Row : r[1] \in Product
        BY DEF Row
      <4> QED
        BY <2>2, <2>3, <2>7, <4>1, <4>2 DEF Asked
    <3>2. \A r \in Row : inventory'[r].reserved
            = inventory[r].reserved - RepairHolds(d, r) + RepairHolds(d, r)'
      BY <1>3, <1>5, <2>7, <3>1 DEF stockVars
    <3> QED
      BY <1>6, <1>15, <2>4, <3>2
  <2> QED
    BY <2>4, <2>5, <2>6, <2>7
<1> QED
  BY <1>1, <1>9, <1>10, <1>11, <1>12, <1>13, <1>14, <1>18, <1>19, <1>20

(* Transfers: reserved at the source by approval, taken by shipping or     *)
(* given back by a cancellation; the arrival reserves nothing.             *)
LEMMA TransferClaims ==
  ASSUME TypeOK, TypeOK', ReservedIsClaimed, HoldsTyped, HoldsTyped',
         TransfersNext, UNCHANGED <<orders, repairVars>>
  PROVE  ReservedIsClaimed'
<1>1. PICK t \in Transfer :
        EditTransfer(t) \/ RequestTransfer(t) \/ ApproveTransfer(t) \/ ShipTransfer(t)
          \/ CompleteTransfer(t) \/ CancelTransfer(t)
  BY DEF TransfersNext
<1>2. /\ inventory \in [Row -> StockRow]
      /\ transfers \in [Transfer -> TransferRecord]
      /\ transfers[t] \in TransferRecord /\ transfers[t].lines \in Lines
      /\ transfers[t].source \in Location /\ transfers[t].destination \in Location
  BY DEF TypeOK, TransferRecord
<1>3. \A r \in Row : inventory[r].reserved \in Nat
  BY <1>2 DEF StockRow
<1>4. /\ t \in Document
      /\ \A r \in Row : /\ Holds(t, r) = TransferHolds(t, r)
                        /\ Holds(t, r)' = TransferHolds(t, r)'
  BY ShopAssumption DEF Holds, Document
<1>5. \A r \in Row : Asked(transfers[t].source, transfers[t].lines, r) \in Nat
  BY <1>2, LinesAreMaps DEF Asked
<1>6. ASSUME NEW record, SetTransfer(t, record),
             \A r \in Row : inventory'[r].reserved
                = inventory[r].reserved - TransferHolds(t, r) + TransferHolds(t, r)'
      PROVE  ReservedIsClaimed'
  <2>1. \A e \in Transfer \ {t} : transfers'[e] = transfers[e]
    BY <1>2, <1>6 DEF SetTransfer
  <2>2. \A e \in Document \ {t}, r \in Row : Holds(e, r)' = Holds(e, r)
    BY <2>1 DEF Document, Holds, OrderHolds, RepairHolds, TransferHolds, repairVars
  <2> QED
    BY <1>2, <1>4, <1>6, <2>2, ClaimsMove
<1>7. ASSUME NEW from, NEW to, MoveTransfer(t, from, to)
      PROVE  /\ SetTransfer(t, [transfers[t] EXCEPT !.status = to])
             /\ transfers[t].status = from /\ transfers'[t].status = to
             /\ transfers'[t].source = transfers[t].source
             /\ transfers'[t].lines = transfers[t].lines
  BY <1>2, <1>7 DEF MoveTransfer, SetTransfer, TransferRecord
<1>8. ASSUME NEW record, SetTransfer(t, record), UNCHANGED stockVars,
             transfers[t].status # "APPROVED", record.status # "APPROVED"
      PROVE  ReservedIsClaimed'
  <2>1. transfers'[t] = record
    BY <1>2, <1>8 DEF SetTransfer
  <2>2. \A r \in Row : TransferHolds(t, r) = 0 /\ TransferHolds(t, r)' = 0
    BY <1>8, <2>1 DEF TransferHolds
  <2>3. \A r \in Row : inventory'[r].reserved
          = inventory[r].reserved - TransferHolds(t, r) + TransferHolds(t, r)'
    BY <1>3, <1>8, <2>2 DEF stockVars
  <2> QED
    BY <1>6, <1>8, <2>3
<1>9. CASE EditTransfer(t)
  <2>1. ASSUME NEW from \in Location, NEW to \in Location, NEW lines \in Lines,
               CreateTransfer(t, from, to, lines)
        PROVE  ReservedIsClaimed'
    BY <1>8, <2>1 DEF CreateTransfer
  <2>2. ASSUME NEW from \in Location, NEW to \in Location, UpdateTransfer(t, from, to)
        PROVE  ReservedIsClaimed'
    <3> DEFINE record == [transfers[t] EXCEPT !.source = from, !.destination = to]
    <3>1. record.status = transfers[t].status
      BY <1>2 DEF TransferRecord
    <3>2. SetTransfer(t, record) /\ UNCHANGED stockVars /\ transfers[t].status = "DRAFT"
      BY <2>2 DEF UpdateTransfer
    <3> HIDE DEF record
    <3> QED
      BY <1>8, <3>1, <3>2
  <2>3. ASSUME NEW lines, EditLines(t, lines)
        PROVE  ReservedIsClaimed'
    <3> DEFINE record == [transfers[t] EXCEPT !.lines = lines]
    <3>1. record.status = transfers[t].status
      BY <1>2 DEF TransferRecord
    <3>2. SetTransfer(t, record) /\ UNCHANGED stockVars /\ transfers[t].status = "DRAFT"
      BY <2>3 DEF EditLines
    <3> HIDE DEF record
    <3> QED
      BY <1>8, <3>1, <3>2
  <2> QED
    BY <1>9, <2>1, <2>2, <2>3
    DEF EditTransfer, AddTransferItem, UpdateTransferItem, RemoveTransferItem
<1>10. ASSUME NEW from \in {"DRAFT", "REQUESTED"}, NEW to \in {"REQUESTED", "CANCELLED"},
              MoveTransfer(t, from, to), UNCHANGED stockVars
       PROVE  ReservedIsClaimed'
  <2>1. [transfers[t] EXCEPT !.status = to].status = to
    BY <1>2 DEF TransferRecord
  <2> QED
    BY <1>7, <1>8, <1>10, <2>1
<1>11. CASE ApproveTransfer(t)
  <2>1. /\ MoveTransfer(t, "REQUESTED", "APPROVED")
        /\ Apply(Ask("reserve", transfers[t].source, transfers[t].lines))
    BY <1>11 DEF ApproveTransfer
  <2>6. /\ transfers[t].status = "REQUESTED" /\ transfers'[t].status = "APPROVED"
        /\ transfers'[t].source = transfers[t].source
        /\ transfers'[t].lines = transfers[t].lines
    BY <1>7, <2>1
  <2>2. \A r \in Row :
          /\ TransferHolds(t, r) = 0
          /\ TransferHolds(t, r)' = Asked(transfers[t].source, transfers[t].lines, r)
    BY <2>6 DEF TransferHolds, Asked
  <2>3. \A r \in Row : inventory'[r].reserved
          = inventory[r].reserved + Asked(transfers[t].source, transfers[t].lines, r)
    BY <1>2, <2>1, AskReserves
  <2>4. \A r \in Row : inventory'[r].reserved
          = inventory[r].reserved - TransferHolds(t, r) + TransferHolds(t, r)'
    BY <1>3, <1>5, <2>2, <2>3
  <2>5. SetTransfer(t, [transfers[t] EXCEPT !.status = "APPROVED"])
    BY <1>7, <2>1
  <2> QED
    BY <1>6, <2>4, <2>5
<1>12. ASSUME NEW kind \in {"consume", "release"}, NEW to \in {"IN_TRANSIT", "CANCELLED"},
              MoveTransfer(t, "APPROVED", to),
              Apply(Ask(kind, transfers[t].source, transfers[t].lines))
       PROVE  ReservedIsClaimed'
  <2>1. \A r \in Row :
          /\ TransferHolds(t, r) = Asked(transfers[t].source, transfers[t].lines, r)
          /\ TransferHolds(t, r)' = 0
    BY <1>7, <1>12 DEF TransferHolds, Asked
  <2>2. \A r \in Row : inventory'[r].reserved
          = inventory[r].reserved - Asked(transfers[t].source, transfers[t].lines, r)
    BY <1>2, <1>12, AskReserves
  <2>3. \A r \in Row : inventory'[r].reserved
          = inventory[r].reserved - TransferHolds(t, r) + TransferHolds(t, r)'
    BY <1>3, <1>5, <2>1, <2>2
  <2>4. SetTransfer(t, [transfers[t] EXCEPT !.status = to])
    BY <1>7, <1>12
  <2> QED
    BY <1>6, <2>3, <2>4
<1>13. CASE CompleteTransfer(t)
  <2> DEFINE req == Ask("arrive", transfers[t].destination, transfers[t].lines)
  <2>1. MoveTransfer(t, "IN_TRANSIT", "COMPLETED") /\ Apply(req)
    BY <1>13 DEF CompleteTransfer
  <2>7. transfers[t].status = "IN_TRANSIT" /\ transfers'[t].status = "COMPLETED"
    BY <1>7, <2>1
  <2>2. \A r \in Row : TransferHolds(t, r) = 0 /\ TransferHolds(t, r)' = 0
    BY <2>7 DEF TransferHolds
  <2>3. WellFormed(req) /\ req.kind = "arrive"
    BY <1>2, AskIsWellFormed DEF Ask, Kind, SignedKind
  <2> HIDE DEF req
  <2>4. \A r \in Row : inventory'[r].reserved = inventory[r].reserved
    BY <1>2, <2>1, <2>3, OthersReserveNothing
  <2>5. \A r \in Row : inventory'[r].reserved
          = inventory[r].reserved - TransferHolds(t, r) + TransferHolds(t, r)'
    BY <1>3, <2>2, <2>4
  <2>6. SetTransfer(t, [transfers[t] EXCEPT !.status = "COMPLETED"])
    BY <1>7, <2>1
  <2> QED
    BY <1>6, <2>5, <2>6
<1>14. CASE RequestTransfer(t)
  BY <1>10, <1>14 DEF RequestTransfer
<1>15. CASE ShipTransfer(t)
  BY <1>12, <1>15 DEF ShipTransfer
<1>16. CASE CancelTransfer(t)
  BY <1>10, <1>12, <1>16 DEF CancelTransfer
<1> QED
  BY <1>1, <1>9, <1>11, <1>13, <1>14, <1>15, <1>16

(* Counts, adjustments and goods put back reserve nothing.                 *)
LEMMA OtherClaims ==
  ASSUME TypeOK, ReservedIsClaimed, CountsNext \/ StockNext,
         UNCHANGED <<orders, repairVars, transfers>>
  PROVE  ReservedIsClaimed'
<1>1. inventory \in [Row -> StockRow]
  BY DEF TypeOK
<1>2. \/ UNCHANGED stockVars
      \/ \E req : /\ WellFormed(req) /\ Apply(req)
                  /\ req.kind \in SignedKind \cup {"restore", "arrive"}
  <2>1. CASE StockNext
    BY <2>1, StockNextAsks
  <2>2. CASE CountsNext
    <3>1. ASSUME NEW c \in StockCount, ApproveCount(c)
          PROVE  \E req : /\ WellFormed(req) /\ Apply(req)
                          /\ req.kind \in SignedKind \cup {"restore", "arrive"}
      <4>1. counts[c] \in CountRecord
        BY DEF TypeOK
      <4> WITNESS Ask("count", counts[c].location, Variances(counts[c]))
      <4> QED
        BY <3>1, <4>1, VariancesWellFormed DEF ApproveCount, Ask, SignedKind
    <3> QED
      BY <2>2, <3>1
      DEF CountsNext, CreateCount, AddCountItem, RemoveCountItem, StartCounting,
          ReadCounting, WriteCounted, AbandonSubmit, SubmitForReview, CloseCount,
          CancelCount
  <2> QED
    BY <2>1, <2>2
<1>3. \A r \in Row : inventory'[r].reserved = inventory[r].reserved
  BY <1>1, <1>2, OthersReserveNothing DEF stockVars
<1>4. \A e \in Document, r \in Row : Holds(e, r)' = Holds(e, r)
  BY DEF Document, Holds, OrderHolds, RepairHolds, TransferHolds, repairVars
<1> QED
  BY <1>3, <1>4, ClaimsStay

(* A repair that has not been created has no parts.                        *)
LEMMA RepairsFreshInductive ==
  ASSUME TypeOK, RepairsFresh, RepairsNext \/ UNCHANGED repairVars
  PROVE  RepairsFresh'
<1>1. repairs \in [Repair -> RepairRecord]
  BY DEF TypeOK
<1>2. CASE UNCHANGED repairVars
  BY <1>2 DEF RepairsFresh, repairVars
<1>3. ASSUME NEW d \in Repair, NEW record, repairs' = [repairs EXCEPT ![d] = record],
             record.status # "NONE"
      PROVE  RepairsFresh'
  BY <1>1, <1>3 DEF RepairsFresh
<1>4. ASSUME NEW d \in Repair PROVE repairs[d] \in RepairRecord
  BY <1>1
<1>5. ASSUME NEW d \in Repair, NEW to, MoveRepair(d, to)
      PROVE  RepairsFresh'
  <2>1. to # "NONE"
    BY <1>4, <1>5 DEF MoveRepair, RepairRecord, RepairStatus, RepairTransitions
  <2>2. [repairs[d] EXCEPT !.status = to].status = to
    BY <1>4 DEF RepairRecord
  <2> QED
    BY <1>3, <1>5, <2>1, <2>2 DEF MoveRepair
<1>6. ASSUME NEW d \in Repair, NEW parts, SetParts(d, parts)
      PROVE  RepairsFresh'
  <2>1. [repairs[d] EXCEPT !.parts = parts].status # "NONE"
    BY <1>4, <1>6 DEF SetParts, RepairRecord, Open
  <2> QED
    BY <1>3, <1>6, <2>1 DEF SetParts
<1>7. ASSUME NEW d \in Repair, CreateRepair(d)
      PROVE  RepairsFresh'
  <2>1. [repairs[d] EXCEPT !.status = "RECEIVED"].status # "NONE"
    BY <1>4 DEF RepairRecord
  <2> QED
    BY <1>3, <1>7, <2>1 DEF CreateRepair
<1>8. ASSUME NEW d \in Repair, NEW cost, UpdateRepair(d, cost)
      PROVE  RepairsFresh'
  <2>1. [repairs[d] EXCEPT !.finalCost = cost].status # "NONE"
    BY <1>4, <1>8 DEF UpdateRepair, RepairRecord, Open
  <2> QED
    BY <1>3, <1>8, <2>1 DEF UpdateRepair
<1>9. ASSUME NEW d \in Repair, NEW amount, AddRepairPayment(d, amount)
      PROVE  RepairsFresh'
  <2> DEFINE record == [repairs[d] EXCEPT !.paid = repairs[d].paid + amount]
  <2>1. record.status # "NONE"
    BY <1>4, <1>9 DEF AddRepairPayment, RepairRecord, Payable
  <2>2. repairs' = [repairs EXCEPT ![d] = record]
    BY <1>9 DEF AddRepairPayment
  <2> HIDE DEF record
  <2> QED
    BY <1>3, <2>1, <2>2
<1>10. ASSUME NEW d \in Repair, ReadFinalCost(d) \/ AbandonCompletion(d)
       PROVE  RepairsFresh'
  BY <1>10 DEF ReadFinalCost, AbandonCompletion, RepairsFresh
<1>11. CASE RepairsNext
  BY <1>5, <1>6, <1>7, <1>8, <1>9, <1>10, <1>11
  DEF RepairsNext, ProgressRepair, CancelRepair, CompleteRepair, AddPart, UpdatePart,
      RemovePart
<1> QED
  BY <1>2, <1>11

(* The inductive invariant.  ReservedIsClaimed needs the types, for its    *)
(* sums to be finite, and RepairsFresh, for a new repair to claim nothing; *)
(* ClaimsHonoured follows from it and ShelvesSound.                        *)
Inv == TypeOK /\ ShelvesSound /\ RepairsFresh /\ ReservedIsClaimed

LEMMA InitInv == Init => Inv
<1> SUFFICES ASSUME Init PROVE Inv
  OBVIOUS
<1>1. RepairsFresh
  BY DEF Init, RepairsInit, RepairsFresh, NoRepair
<1>2. ASSUME NEW r \in Row
      PROVE  inventory[r].reserved = Cardinality(Claims(r))
  <2>1. inventory[r].reserved = 0
    BY DEF Init, StockInit, EmptyRow
  <2>2. \A d \in Document : Holds(d, r) = 0
    BY ShopAssumption
    DEF Init, OrdersInit, NoOrder, RepairsInit, NoRepair, TransfersInit, NoTransfer,
        Document, Holds, OrderHolds, RepairHolds, TransferHolds, Open
  <2>3. Claims(r) = {}
    BY <2>2 DEF Claims
  <2> QED
    BY <2>1, <2>3, FS_EmptySet
<1> QED
  BY <1>1, <1>2, InitTypes DEF Inv, ReservedIsClaimed

LEMMA Inductive == Inv /\ [Next]_vars => Inv'
<1> SUFFICES ASSUME Inv, [Next]_vars PROVE Inv'
  OBVIOUS
<1>1. TypeOK /\ ShelvesSound /\ RepairsFresh /\ ReservedIsClaimed
  BY DEF Inv
<1>2. TypeOK' /\ ShelvesSound'
  BY <1>1, TypeInductive
<1>3. TypeOK' => HoldsTyped'
  BY HoldsType, PTL
<1>4. HoldsTyped /\ HoldsTyped'
  BY <1>1, <1>2, <1>3, HoldsType
<1>5. RepairsFresh'
  <2>1. RepairsNext \/ UNCHANGED repairVars
    BY DEF Next, vars
  <2> QED
    BY <1>1, <2>1, RepairsFreshInductive
<1>6. CASE OrdersNext /\ UNCHANGED <<repairVars, transfers, countVars>>
  BY <1>1, <1>2, <1>4, <1>5, <1>6, OrderClaims DEF Inv
<1>7. CASE RepairsNext /\ UNCHANGED <<orders, transfers, countVars>>
  BY <1>1, <1>2, <1>4, <1>5, <1>7, RepairClaims DEF Inv
<1>8. CASE TransfersNext /\ UNCHANGED <<orders, repairVars, countVars>>
  BY <1>1, <1>2, <1>4, <1>5, <1>8, TransferClaims DEF Inv
<1>9. CASE (CountsNext \/ StockNext) /\ UNCHANGED <<orders, repairVars, transfers>>
  BY <1>1, <1>2, <1>5, <1>9, OtherClaims DEF Inv
<1>10. CASE UNCHANGED vars
  <2>1. ReservedIsClaimed'
    BY <1>1, <1>10
    DEF ReservedIsClaimed, Claims, Document, Holds, OrderHolds, RepairHolds,
        TransferHolds, vars, stockVars, repairVars
  <2> QED
    BY <1>2, <1>5, <2>1 DEF Inv
<1> QED
  BY <1>6, <1>7, <1>8, <1>9, <1>10 DEF Next, FloorNext

(* What is reserved in a row is, unit for unit, what the open documents    *)
(* have claimed there.                                                     *)
THEOREM ReservedAlwaysClaimed == Spec => []ReservedIsClaimed
<1>1. Inv => ReservedIsClaimed
  BY DEF Inv
<1> QED
  BY <1>1, InitInv, Inductive, PTL DEF Spec

(* A document never claims more than is reserved.                          *)
LEMMA ClaimIsReserved ==
  ASSUME TypeOK, ReservedIsClaimed, NEW d \in Document, NEW r \in Row
  PROVE  /\ Holds(d, r) \in 0..MaxLine
         /\ Holds(d, r) <= inventory[r].reserved
<1> DEFINE f == [e \in Document |-> Holds(e, r)]
           g == [f EXCEPT ![d] = 0]
<1>1. \A e \in Document : Holds(e, r) \in 0..MaxLine
  BY HoldsType DEF HoldsTyped
<1>2. f \in [Document -> 0..MaxLine] /\ f[d] = Holds(d, r)
  BY <1>1
<1>3. Claims(r) = Boxes(Document, MaxLine, f)
  BY DEF Claims, Boxes
<1>4. inventory[r].reserved = Cardinality(Claims(r))
  BY DEF ReservedIsClaimed
<1> HIDE DEF f
<1>5. /\ g \in [Document -> 0..MaxLine] /\ g[d] = 0
      /\ \A e \in Document \ {d} : f[e] = g[e]
      /\ \A e \in Document \ {d} : g[e] = f[e]
  BY <1>2, DocumentsAssumption
<1> HIDE DEF g
<1>6. /\ Cardinality(Boxes(Document, MaxLine, f)) \in Nat
      /\ Cardinality(Boxes(Document, MaxLine, g))
           = Cardinality(Boxes(Document, MaxLine, f)) - f[d] + g[d]
  BY <1>2, <1>5, DocumentsFinite, DocumentsAssumption, BoxesChange
<1>7. Cardinality(Boxes(Document, MaxLine, g)) \in Nat
  BY <1>2, <1>5, DocumentsFinite, DocumentsAssumption, BoxesChange
<1> QED
  BY <1>1, <1>2, <1>3, <1>4, <1>5, <1>6, <1>7

(* A claim can always be taken, and always be given back.                  *)
THEOREM ClaimsAlwaysHonoured == Spec => []ClaimsHonoured
<1>1. Inv => ClaimsHonoured
  <2> SUFFICES ASSUME Inv, NEW d \in Document, NEW l \in Location
               PROVE  /\ Accepts(Ask("consume", l, Claimed(d, l)))
                      /\ Accepts(Ask("release", l, Claimed(d, l)))
    BY DEF ClaimsHonoured
  <2>1. ASSUME NEW kind \in {"consume", "release"}
        PROVE  Accepts(Ask(kind, l, Claimed(d, l)))
    <3> SUFFICES ASSUME NEW r \in Targets(Ask(kind, l, Claimed(d, l)))
                 PROVE  /\ FindsRow(kind, r, rows)
                        /\ Permits(kind, inventory[r], Claimed(d, l)[r[1]])
      BY DEF Accepts, Ask
    <3>1. PICK p \in Product : r = <<p, l>> /\ Holds(d, r) > 0
      BY DEF Targets, Ask, Claimed
    <3>2. r \in Row /\ Claimed(d, l)[r[1]] = Holds(d, r)
      BY <3>1 DEF Row, Claimed
    <3>3. Holds(d, r) \in Nat /\ Holds(d, r) <= inventory[r].reserved
      BY <3>2, ClaimIsReserved, DocumentsAssumption DEF Inv
    <3>4. inventory[r].quantity \in 0..MaxQuantity /\ inventory[r].reserved \in Nat
      BY <3>2 DEF Inv, TypeOK, StockRow
    <3>5. inventory[r].reserved <= inventory[r].quantity
      BY <3>2 DEF Inv, ShelvesSound
    <3>6. r \in rows
      BY <3>1, <3>2, <3>3 DEF Inv, ShelvesSound, EmptyRow
    <3>7. Permits(kind, inventory[r], Holds(d, r))
      BY <3>3, <3>4, <3>5, RowsAssumption DEF Permits, QuantityDelta, SignedKind
    <3> QED
      BY <3>2, <3>6, <3>7 DEF FindsRow
  <2> QED
    BY <2>1
<1> QED
  BY <1>1, InitInv, Inductive, PTL DEF Spec

----------------------------------------------------------------------------
(* Money.  An order that can still be edited has collected nothing, and    *)
(* its discount never exceeds its subtotal, so no total is negative.       *)

OrderMoney(o) ==
  /\ orders[o].discount <= orders[o].subtotal
  /\ orders[o].paid <= Total(orders[o])
  /\ orders[o].status \in {"NONE", "DRAFT", "CANCELLED"} => orders[o].paid = 0
  /\ orders[o].paymentStatus = PaymentStatusFor(orders[o].paid, Total(orders[o]))

RepairMoney(d) ==
  repairs[d].paid > 0 => /\ repairs[d].status \in Payable
                         /\ repairs[d].paid <= repairs[d].finalCost

MoneyInv ==
  /\ TypeOK /\ ShelvesSound
  /\ \A o \in Order : OrderMoney(o)
  /\ \A d \in Repair : RepairMoney(d)

LEMMA OrderMoneyStep ==
  ASSUME TypeOK, NEW o \in Order, OrderMoney(o), NEW e \in Order,
         \/ EditOrder(e) \/ ConfirmOrder(e) \/ CompleteOrder(e) \/ CancelDraft(e)
         \/ CancelConfirmed(e)
         \/ \E amount \in 1..MaxAmount : AddOrderPayment(e, amount)
  PROVE  OrderMoney(o)'
<1>1. orders \in [Order -> OrderRecord] /\ orders[o] \in OrderRecord
  BY DEF TypeOK
<1>2. /\ orders[o].subtotal \in Nat /\ orders[o].discount \in Nat
      /\ orders[o].tax \in Nat /\ orders[o].paid \in Nat
  BY <1>1, OrdersAssumption DEF OrderRecord, Amount
<1>3. ASSUME orders'[o] = orders[o]
      PROVE  OrderMoney(o)'
  BY <1>3 DEF OrderMoney, Total
<1>4. ASSUME e # o
      PROVE  OrderMoney(o)'
  <2>1. \E record : orders' = [orders EXCEPT ![e] = record]
    BY DEF EditOrder, CreateOrder, UpdateOrder, AddOrderItem, UpdateOrderItem,
           RemoveOrderItem, Reprice, ConfirmOrder, CompleteOrder, CancelDraft,
           CancelConfirmed, MoveOrder, AddOrderPayment
  <2> QED
    BY <1>1, <1>3, <1>4, <2>1
<1>5. ASSUME NEW from, NEW to, MoveOrder(o, from, to),
             from \notin {"NONE", "DRAFT", "CANCELLED"} =>
               to \in {"CONFIRMED", "COMPLETED"} \/ orders[o].paid = 0
      PROVE  OrderMoney(o)'
  <2>1. /\ orders[o].status = from /\ orders'[o].status = to
        /\ orders'[o].subtotal = orders[o].subtotal
        /\ orders'[o].discount = orders[o].discount
        /\ orders'[o].tax = orders[o].tax /\ orders'[o].paid = orders[o].paid
        /\ orders'[o].paymentStatus = orders[o].paymentStatus
    BY <1>1, <1>5 DEF MoveOrder, OrderRecord
  <2>2. Total(orders'[o]) = Total(orders[o])
    BY <2>1 DEF Total
  <2> QED
    BY <1>5, <2>1, <2>2 DEF OrderMoney
<1>6. ASSUME NEW lines, NEW subtotal \in Amount, NEW discount \in Amount, NEW tax \in Amount,
             orders[o].status \in {"NONE", "DRAFT"},
             Reprice(o, lines, subtotal, discount, tax)
      PROVE  OrderMoney(o)'
  <2>1. /\ orders'[o].subtotal = subtotal /\ orders'[o].discount = discount
        /\ orders'[o].tax = tax /\ orders'[o].paid = orders[o].paid
        /\ orders'[o].paymentStatus = orders[o].paymentStatus
        /\ discount <= subtotal
    BY <1>1, <1>6 DEF Reprice, OrderRecord
  <2>2. orders[o].paid = 0
    BY <1>6 DEF OrderMoney
  <2>3. \A total : PaymentStatusFor(0, total) = "UNPAID"
    BY DEF PaymentStatusFor
  <2>4. orders[o].paymentStatus = "UNPAID"
    BY <2>2, <2>3 DEF OrderMoney
  <2>5. subtotal - discount + tax >= 0
    BY <2>1, OrdersAssumption DEF Amount
  <2>6. Total(orders'[o]) >= 0
    BY <2>1, <2>5 DEF Total
  <2> QED
    BY <2>1, <2>2, <2>3, <2>4, <2>6 DEF OrderMoney
<1>7. CASE ConfirmOrder(o) \/ CompleteOrder(o) \/ CancelDraft(o) \/ CancelConfirmed(o)
  BY <1>5, <1>7 DEF ConfirmOrder, CompleteOrder, CancelDraft, CancelConfirmed
<1>8. ASSUME NEW amount \in 1..MaxAmount, AddOrderPayment(o, amount)
      PROVE  OrderMoney(o)'
  <2> DEFINE paid == orders[o].paid + amount
  <2>1. orders' = [orders EXCEPT ![o] =
          [orders[o] EXCEPT !.paid = paid,
                            !.paymentStatus = PaymentStatusFor(paid, Total(orders[o]))]]
    BY <1>8 DEF AddOrderPayment
  <2>2. paid <= Total(orders[o]) /\ orders[o].status \in {"CONFIRMED", "COMPLETED"}
    BY <1>8 DEF AddOrderPayment
  <2> HIDE DEF paid
  <2>3. /\ orders'[o].subtotal = orders[o].subtotal
        /\ orders'[o].discount = orders[o].discount
        /\ orders'[o].tax = orders[o].tax /\ orders'[o].paid = paid
        /\ orders'[o].status = orders[o].status
        /\ orders'[o].paymentStatus = PaymentStatusFor(paid, Total(orders[o]))
    BY <1>1, <2>1 DEF OrderRecord
  <2>4. Total(orders'[o]) = Total(orders[o])
    BY <2>3 DEF Total
  <2> QED
    BY <2>2, <2>3, <2>4 DEF OrderMoney
<1>9. CASE EditOrder(o)
  <2>1. /\ orders[o].subtotal \in Amount /\ orders[o].discount \in Amount
        /\ orders[o].tax \in Amount
    BY <1>1 DEF OrderRecord
  <2> QED
    BY <1>6, <1>9, <2>1
    DEF EditOrder, CreateOrder, UpdateOrder, AddOrderItem, UpdateOrderItem, RemoveOrderItem
<1> QED
  BY <1>4, <1>7, <1>8, <1>9

LEMMA RepairMoneyStep ==
  ASSUME TypeOK, NEW d \in Repair, RepairMoney(d), RepairsNext
  PROVE  RepairMoney(d)'
<1>1. repairs \in [Repair -> RepairRecord] /\ repairs[d] \in RepairRecord
  BY DEF TypeOK
<1>2. repairs[d].paid \in Nat /\ (repairs[d].status \in Open => repairs[d].paid = 0)
  BY <1>1, RepairsAssumption DEF RepairRecord, RepairMoney, Open, Payable
<1>3. ASSUME repairs'[d].paid = repairs[d].paid, repairs[d].status \in Open
      PROVE  RepairMoney(d)'
  BY <1>2, <1>3 DEF RepairMoney
<1>4. ASSUME repairs'[d] = repairs[d]
      PROVE  RepairMoney(d)'
  BY <1>4 DEF RepairMoney
<1>5. ASSUME NEW e \in Repair, NEW record, repairs' = [repairs EXCEPT ![e] = record],
             e = d => record.paid = repairs[d].paid /\ repairs[d].status \in Open
      PROVE  RepairMoney(d)'
  BY <1>1, <1>3, <1>4, <1>5
<1>6. ASSUME NEW e \in Repair PROVE repairs[e] \in RepairRecord
  BY <1>1
<1>7. ASSUME NEW e \in Repair, NEW to, MoveRepair(e, to)
      PROVE  RepairMoney(d)'
  <2>1. CASE e # d
    BY <1>1, <1>4, <1>7, <2>1 DEF MoveRepair
  <2>2. CASE e = d
    <3>1. /\ repairs'[d].paid = repairs[d].paid
          /\ repairs'[d].finalCost = repairs[d].finalCost
          /\ repairs'[d].status = to
          /\ to \in RepairTransitions[repairs[d].status]
          /\ repairs[d].status \in RepairStatus
      BY <1>1, <1>7, <2>2 DEF MoveRepair, RepairRecord
    <3>2. repairs[d].status \in Payable => to \in Payable
      BY <3>1 DEF RepairTransitions, RepairStatus, Payable
    <3> QED
      BY <3>1, <3>2 DEF RepairMoney
  <2> QED
    BY <2>1, <2>2
<1>8. ASSUME NEW e \in Repair, NEW parts, SetParts(e, parts)
      PROVE  RepairMoney(d)'
  <2>1. [repairs[e] EXCEPT !.parts = parts].paid = repairs[e].paid
    BY <1>6 DEF RepairRecord
  <2> QED
    BY <1>5, <1>8, <2>1 DEF SetParts
<1>9. ASSUME NEW e \in Repair, CreateRepair(e)
      PROVE  RepairMoney(d)'
  <2>1. CASE e # d
    BY <1>1, <1>4, <1>9, <2>1 DEF CreateRepair
  <2>2. CASE e = d
    <3>1. repairs[d].paid = 0
      BY <1>2, <1>9, <2>2 DEF RepairMoney, CreateRepair, Payable
    <3>2. repairs'[d].paid = repairs[d].paid
      BY <1>1, <1>9, <2>2 DEF CreateRepair, RepairRecord
    <3> QED
      BY <3>1, <3>2 DEF RepairMoney
  <2> QED
    BY <2>1, <2>2
<1>10. ASSUME NEW e \in Repair, NEW cost, UpdateRepair(e, cost)
       PROVE  RepairMoney(d)'
  <2>1. [repairs[e] EXCEPT !.finalCost = cost].paid = repairs[e].paid
    BY <1>6 DEF RepairRecord
  <2> QED
    BY <1>5, <1>10, <2>1 DEF UpdateRepair
<1>11. ASSUME NEW e \in Repair, NEW amount \in 1..MaxCost, AddRepairPayment(e, amount)
       PROVE  RepairMoney(d)'
  <2> DEFINE paid == repairs[e].paid + amount
  <2>1. repairs' = [repairs EXCEPT ![e] = [repairs[e] EXCEPT !.paid = paid]]
    BY <1>11 DEF AddRepairPayment
  <2>2. CASE e # d
    BY <1>1, <1>4, <2>1, <2>2
  <2>3. CASE e = d
    <3>1. repairs[d].finalCost \in Int /\ amount \in Nat
      BY <1>1, RepairsAssumption DEF RepairRecord, Cost, NotSet
    <3>2. paid <= repairs[d].finalCost /\ repairs[d].status \in Payable
      BY <1>2, <1>11, <2>3, <3>1 DEF AddRepairPayment
    <3> HIDE DEF paid
    <3>3. /\ repairs'[d].paid = paid /\ repairs'[d].status = repairs[d].status
          /\ repairs'[d].finalCost = repairs[d].finalCost
      BY <1>1, <2>1, <2>3 DEF RepairRecord
    <3> QED
      BY <3>2, <3>3 DEF RepairMoney
  <2> QED
    BY <2>2, <2>3
<1>12. ASSUME NEW e \in Repair, ReadFinalCost(e) \/ AbandonCompletion(e)
       PROVE  RepairMoney(d)'
  BY <1>4, <1>12 DEF ReadFinalCost, AbandonCompletion
<1> QED
  BY <1>7, <1>8, <1>9, <1>10, <1>11, <1>12
  DEF RepairsNext, ProgressRepair, CancelRepair, CompleteRepair, AddPart, UpdatePart,
      RemovePart

LEMMA MoneyInductive == MoneyInv /\ [Next]_vars => MoneyInv'
<1> SUFFICES ASSUME MoneyInv, [Next]_vars PROVE MoneyInv'
  OBVIOUS
<1>1. TypeOK /\ TypeOK' /\ ShelvesSound'
  BY TypeInductive DEF MoneyInv
<1>2. ASSUME NEW o \in Order PROVE OrderMoney(o)'
  <2>1. OrderMoney(o)
    BY DEF MoneyInv
  <2>2. OrdersNext \/ UNCHANGED orders
    BY DEF Next, vars
  <2>3. CASE OrdersNext
    BY <1>1, <2>1, <2>3, OrderMoneyStep DEF OrdersNext
  <2>4. CASE UNCHANGED orders
    BY <2>1, <2>4 DEF OrderMoney
  <2> QED
    BY <2>2, <2>3, <2>4
<1>3. ASSUME NEW d \in Repair PROVE RepairMoney(d)'
  <2>1. RepairMoney(d)
    BY DEF MoneyInv
  <2>2. RepairsNext \/ UNCHANGED repairs
    BY DEF Next, vars, repairVars
  <2>3. CASE RepairsNext
    BY <1>1, <2>1, <2>3, RepairMoneyStep
  <2>4. CASE UNCHANGED repairs
    BY <2>1, <2>4 DEF RepairMoney
  <2> QED
    BY <2>2, <2>3, <2>4
<1> QED
  BY <1>1, <1>2, <1>3 DEF MoneyInv

(* No document collects more than it comes to, a cancelled order has       *)
(* collected nothing, and the payment status agrees with the amounts.      *)
THEOREM MoneyAlwaysSound == Spec => []MoneyIsSound
<1>1. Init => MoneyInv
  <2> SUFFICES ASSUME Init PROVE MoneyInv
    OBVIOUS
  <2>1. \A o \in Order : orders[o] = NoOrder
    BY DEF Init, OrdersInit
  <2>2. \A d \in Repair : repairs[d] = NoRepair
    BY DEF Init, RepairsInit
  <2>3. ASSUME NEW o \in Order PROVE OrderMoney(o)
    <3>1. /\ orders[o].subtotal = 0 /\ orders[o].discount = 0 /\ orders[o].tax = 0
          /\ orders[o].paid = 0 /\ orders[o].paymentStatus = "UNPAID"
      BY <2>1 DEF NoOrder
    <3>2. Total(orders[o]) = 0
      BY <3>1 DEF Total
    <3> QED
      BY <3>1, <3>2 DEF OrderMoney, PaymentStatusFor
  <2>4. \A d \in Repair : RepairMoney(d)
    BY <2>2 DEF RepairMoney, NoRepair
  <2> QED
    BY <2>3, <2>4, InitTypes DEF MoneyInv
<1>2. MoneyInv => MoneyIsSound
  BY DEF MoneyInv, OrderMoney, RepairMoney, MoneyIsSound
<1> QED
  BY <1>1, <1>2, MoneyInductive, PTL DEF Spec

----------------------------------------------------------------------------
(* Counts.  A quantity can be written after the count has left COUNTING,   *)
(* but only on a list that is fixed by then: nobody is entering quantities *)
(* while the list can still be edited.                                     *)

Reviewed == {"REVIEW", "APPROVED", "COMPLETED"}

CountSound(c) ==
  /\ counts[c].status \in {"NONE", "DRAFT"} =>
       counts[c].counted = NoLines /\ c \notin submitting
  /\ DOMAIN counts[c].counted \subseteq DOMAIN counts[c].expected
  /\ counts[c].status \in Reviewed \cup {"COUNTING"} => DOMAIN counts[c].expected # {}
  /\ counts[c].status \in Reviewed =>
       DOMAIN counts[c].counted = DOMAIN counts[c].expected

CountsInv == TypeOK /\ ShelvesSound /\ \A c \in StockCount : CountSound(c)

LEMMA CountsStep ==
  ASSUME TypeOK, NEW c \in StockCount, CountSound(c), CountsNext
  PROVE  CountSound(c)'
<1>1. counts \in [StockCount -> CountRecord] /\ counts[c] \in CountRecord
  BY DEF TypeOK
<1>2. ASSUME counts'[c] = counts[c], submitting' \subseteq submitting \cup {c},
             counts[c].status \in {"NONE", "DRAFT"} => submitting' \subseteq submitting
      PROVE  CountSound(c)'
  BY <1>2 DEF CountSound
<1>3. ASSUME NEW e \in StockCount, e # c, NEW record,
             counts' = [counts EXCEPT ![e] = record]
      PROVE  counts'[c] = counts[c]
  BY <1>1, <1>3
<1>4. ASSUME NEW e \in StockCount, NEW record, SetCount(e, record)
      PROVE  /\ submitting' = submitting
             /\ e = c => counts'[c] = record
             /\ e # c => CountSound(c)'
  BY <1>1, <1>2, <1>3, <1>4 DEF SetCount
<1>5. ASSUME NEW from, NEW to, MoveCount(c, from, to)
      PROVE  /\ counts[c].status = from /\ counts'[c].status = to
             /\ counts'[c].expected = counts[c].expected
             /\ counts'[c].counted = counts[c].counted
             /\ submitting' = submitting
  BY <1>1, <1>4, <1>5 DEF MoveCount, CountRecord
<1>6. ASSUME NEW e \in StockCount, NEW l, NEW products, CreateCount(e, l, products)
      PROVE  CountSound(c)'
  <2> DEFINE record == [status |-> "DRAFT", location |-> l,
                        expected |-> [p \in products |-> OnHand(p, l)],
                        counted |-> NoLines]
  <2>1. SetCount(e, record) /\ counts[e].status = "NONE"
    BY <1>6 DEF CreateCount
  <2>2. record.status = "DRAFT" /\ record.counted = NoLines /\ DOMAIN NoLines = {}
    BY DEF NoLines
  <2> HIDE DEF record
  <2>3. CASE e = c
    <3>1. counts'[c] = record /\ submitting' = submitting /\ c \notin submitting
      BY <1>4, <2>1, <2>3 DEF CountSound
    <3> QED
      BY <2>2, <3>1 DEF CountSound, Reviewed
  <2> QED
    BY <1>4, <2>1, <2>3
<1>7. ASSUME NEW e \in StockCount, NEW list, counts[e].status = "DRAFT",
             SetCount(e, [counts[e] EXCEPT !.expected = list])
      PROVE  CountSound(c)'
  <2>1. CASE e = c
    <3>1. /\ counts'[c].status = "DRAFT" /\ counts'[c].counted = counts[c].counted
          /\ submitting' = submitting
      BY <1>1, <1>4, <1>7, <2>1 DEF CountRecord
    <3>2. counts[c].counted = NoLines /\ c \notin submitting /\ DOMAIN NoLines = {}
      BY <1>7, <2>1 DEF CountSound, NoLines
    <3> QED
      BY <3>1, <3>2 DEF CountSound, Reviewed
  <2> QED
    BY <1>4, <1>7, <2>1
<1>8. ASSUME NEW from, NEW to, MoveCount(c, from, to),
             to \notin {"NONE", "DRAFT"},
             to \in Reviewed \cup {"COUNTING"} => DOMAIN counts[c].expected # {},
             to \in Reviewed => DOMAIN counts[c].counted = DOMAIN counts[c].expected
      PROVE  CountSound(c)'
  BY <1>5, <1>8 DEF CountSound
<1>9. ASSUME NEW e \in StockCount, e # c, NEW from, NEW to, MoveCount(e, from, to)
      PROVE  CountSound(c)'
  BY <1>4, <1>9 DEF MoveCount
<1>10. ASSUME NEW e \in StockCount, StartCounting(e) \/ SubmitForReview(e)
       PROVE  CountSound(c)'
  <2>1. CASE e = c /\ StartCounting(e)
    BY <1>8, <2>1 DEF StartCounting, Reviewed
  <2>2. CASE e = c /\ SubmitForReview(e)
    <3>1. MoveCount(c, "COUNTING", "REVIEW") /\ counts[c].status = "COUNTING"
      BY <2>2 DEF SubmitForReview, MoveCount
    <3>2. DOMAIN counts[c].counted = DOMAIN counts[c].expected
      BY <2>2 DEF SubmitForReview, CountSound
    <3>3. DOMAIN counts[c].expected # {}
      BY <3>1 DEF CountSound
    <3> QED
      BY <1>8, <3>1, <3>2, <3>3
  <2>3. CASE e # c
    BY <1>9, <1>10, <2>3 DEF StartCounting, SubmitForReview
  <2> QED
    BY <1>10, <2>1, <2>2, <2>3
<1>11. ASSUME NEW e \in StockCount, ApproveCount(e) \/ CloseCount(e) \/ CancelCount(e)
       PROVE  CountSound(c)'
  <2>1. PICK from, to : /\ MoveCount(e, from, to)
                        /\ to \in {"APPROVED", "COMPLETED", "CANCELLED"}
                        /\ to # "CANCELLED" => from \in Reviewed
    BY <1>11 DEF ApproveCount, CloseCount, CancelCount, Reviewed
  <2>2. CASE e = c
    <3>1. counts[c].status = from
      BY <2>1, <2>2 DEF MoveCount
    <3>2. to # "CANCELLED" => /\ DOMAIN counts[c].expected # {}
                              /\ DOMAIN counts[c].counted = DOMAIN counts[c].expected
      BY <2>1, <3>1 DEF CountSound
    <3> QED
      BY <1>8, <2>1, <2>2, <3>2 DEF Reviewed
  <2> QED
    BY <1>9, <2>1, <2>2
<1>12. ASSUME NEW e \in StockCount, ReadCounting(e) \/ AbandonSubmit(e)
       PROVE  CountSound(c)'
  <2>1. /\ counts' = counts
        /\ counts[c].status \in {"NONE", "DRAFT"} => (c \in submitting' => c \in submitting)
    BY <1>12 DEF ReadCounting, AbandonSubmit
  <2> QED
    BY <2>1 DEF CountSound
<1>13. ASSUME NEW e \in StockCount, NEW p, NEW n, WriteCounted(e, p, n)
       PROVE  CountSound(c)'
  <2> DEFINE list == WithLine(counts[e].counted, p, n)
  <2>1. /\ counts' = [counts EXCEPT ![e] = [counts[e] EXCEPT !.counted = list]]
        /\ submitting' \subseteq submitting
    BY <1>13 DEF WriteCounted
  <2>2. e \in submitting /\ p \in DOMAIN counts[e].expected
    BY <1>13 DEF WriteCounted
  <2>3. DOMAIN list = DOMAIN counts[e].counted \cup {p}
    BY DEF WithLine
  <2> HIDE DEF list
  <2>4. CASE e = c
    <3>1. /\ counts'[c].status = counts[c].status
          /\ counts'[c].expected = counts[c].expected /\ counts'[c].counted = list
      BY <1>1, <2>1, <2>4 DEF CountRecord
    <3>2. counts[c].status \notin {"NONE", "DRAFT"}
      BY <2>2, <2>4 DEF CountSound
    <3> QED
      BY <2>2, <2>3, <2>4, <3>1, <3>2 DEF CountSound
  <2>5. CASE e # c
    BY <1>2, <1>3, <2>1, <2>5
  <2> QED
    BY <2>4, <2>5
<1> QED
  BY <1>6, <1>7, <1>10, <1>11, <1>12, <1>13 DEF CountsNext, AddCountItem, RemoveCountItem

LEMMA CountsInductive == CountsInv /\ [Next]_vars => CountsInv'
<1> SUFFICES ASSUME CountsInv, [Next]_vars PROVE CountsInv'
  OBVIOUS
<1>1. TypeOK /\ TypeOK' /\ ShelvesSound'
  BY TypeInductive DEF CountsInv
<1>2. ASSUME NEW c \in StockCount PROVE CountSound(c)'
  <2>1. CountSound(c)
    BY DEF CountsInv
  <2>2. CountsNext \/ UNCHANGED countVars
    BY DEF Next, FloorNext, vars
  <2>3. CASE CountsNext
    BY <1>1, <2>1, <2>3, CountsStep
  <2>4. CASE UNCHANGED countVars
    BY <2>1, <2>4 DEF CountSound, countVars
  <2> QED
    BY <2>2, <2>3, <2>4
<1> QED
  BY <1>1, <1>2 DEF CountsInv

(* A count under review has a counted quantity for every line, whatever    *)
(* sessions are still writing quantities to it.                            *)
THEOREM ReviewAlwaysComplete == Spec => []ReviewIsComplete
<1>1. Init => CountsInv
  BY InitTypes DEF Init, CountsInit, CountsInv, CountSound, NoCount, NoLines, Reviewed
<1>2. CountsInv => ReviewIsComplete
  BY DEF CountsInv, CountSound, ReviewIsComplete, Reviewed
<1> QED
  BY <1>1, <1>2, CountsInductive, PTL DEF Spec

----------------------------------------------------------------------------
(* Units: what lies on the shelves and what is on the road.                *)

ShelfUnits(p) == [l \in Location |-> inventory[<<p, l>>].quantity]

RoadUnits(p) == [t \in Transfer |-> InTransit(t, p)]

UnitsAreSums ==
  \A p \in Product :
    /\ ShelfUnits(p) \in [Location -> 0..MaxQuantity]
    /\ RoadUnits(p) \in [Transfer -> 0..MaxLine]
    /\ OnShelves(p) = Boxes(Location, MaxQuantity, ShelfUnits(p))
    /\ OnTheRoad(p) = Boxes(Transfer, MaxLine, RoadUnits(p))

LEMMA SumsOfUnits == TypeOK => UnitsAreSums
<1> SUFFICES ASSUME TypeOK, NEW p \in Product
             PROVE  /\ ShelfUnits(p) \in [Location -> 0..MaxQuantity]
                    /\ RoadUnits(p) \in [Transfer -> 0..MaxLine]
                    /\ OnShelves(p) = Boxes(Location, MaxQuantity, ShelfUnits(p))
                    /\ OnTheRoad(p) = Boxes(Transfer, MaxLine, RoadUnits(p))
  BY DEF UnitsAreSums
<1>1. ASSUME NEW l \in Location PROVE inventory[<<p, l>>].quantity \in 0..MaxQuantity
  BY DEF TypeOK, Row, StockRow
<1>2. ASSUME NEW t \in Transfer PROVE InTransit(t, p) \in 0..MaxLine
  <2>1. transfers[t].lines \in Lines
    BY DEF TypeOK, TransferRecord
  <2> QED
    BY <2>1, LinesAreMaps, DocumentsAssumption DEF InTransit
<1> QED
  BY <1>1, <1>2 DEF ShelfUnits, RoadUnits, OnShelves, OnTheRoad, Boxes

LEMMA SumsOfUnitsNext == TypeOK' => UnitsAreSums'
  BY SumsOfUnits, PTL

(* A step in which what one location has of each product and what one      *)
(* transfer carries of it add up to the same.                              *)
LEMMA UnitsMove ==
  ASSUME TypeOK, TypeOK', NEW t \in Transfer, NEW l \in Location, NEW p \in Product,
         \A e \in Transfer \ {t} : InTransit(e, p)' = InTransit(e, p),
         \A m \in Location \ {l} :
           inventory'[<<p, m>>].quantity = inventory[<<p, m>>].quantity,
         inventory'[<<p, l>>].quantity + InTransit(t, p)'
           = inventory[<<p, l>>].quantity + InTransit(t, p)
  PROVE  UnitsOf(p)' = UnitsOf(p)
<1> DEFINE f == ShelfUnits(p)
           g == ShelfUnits(p)'
           h == RoadUnits(p)
           k == RoadUnits(p)'
<1>1. /\ f \in [Location -> 0..MaxQuantity] /\ h \in [Transfer -> 0..MaxLine]
      /\ OnShelves(p) = Boxes(Location, MaxQuantity, f)
      /\ OnTheRoad(p) = Boxes(Transfer, MaxLine, h)
  BY SumsOfUnits DEF UnitsAreSums
<1>2. /\ g \in [Location -> 0..MaxQuantity] /\ k \in [Transfer -> 0..MaxLine]
      /\ OnShelves(p)' = Boxes(Location, MaxQuantity, g)
      /\ OnTheRoad(p)' = Boxes(Transfer, MaxLine, k)
  BY SumsOfUnitsNext DEF UnitsAreSums
<1>3. /\ \A m \in Location \ {l} : f[m] = g[m]
      /\ \A e \in Transfer \ {t} : h[e] = k[e]
      /\ g[l] + k[t] = f[l] + h[t]
  BY DEF ShelfUnits, RoadUnits
<1> HIDE DEF f, g, h, k
<1>0. /\ IsFiniteSet(Location) /\ IsFiniteSet(Transfer)
      /\ MaxQuantity \in Nat /\ MaxLine \in Nat
  BY ShopAssumption, RowsAssumption, DocumentsAssumption
<1>4. /\ Cardinality(Boxes(Location, MaxQuantity, f)) \in Nat
      /\ Cardinality(Boxes(Location, MaxQuantity, g))
           = Cardinality(Boxes(Location, MaxQuantity, f)) - f[l] + g[l]
  BY <1>0, <1>1, <1>2, <1>3, BoxesChange
<1>5. /\ Cardinality(Boxes(Transfer, MaxLine, h)) \in Nat
      /\ Cardinality(Boxes(Transfer, MaxLine, k))
           = Cardinality(Boxes(Transfer, MaxLine, h)) - h[t] + k[t]
  BY <1>0, <1>1, <1>2, <1>3, BoxesChange
<1>6. f[l] \in Int /\ g[l] \in Int /\ h[t] \in Int /\ k[t] \in Int
  BY <1>1, <1>2
<1>7. UnitsOf(p)' = Cardinality(OnShelves(p)') + Cardinality(OnTheRoad(p)')
  BY DEF UnitsOf
<1> QED
  BY <1>1, <1>2, <1>3, <1>4, <1>5, <1>6, <1>7 DEF UnitsOf

LEMMA TransferUnits ==
  ASSUME TypeOK, TypeOK', TransfersNext, NEW p \in Product
  PROVE  UnitsOf(p)' = UnitsOf(p)
<1>1. PICK t \in Transfer :
        EditTransfer(t) \/ RequestTransfer(t) \/ ApproveTransfer(t) \/ ShipTransfer(t)
          \/ CompleteTransfer(t) \/ CancelTransfer(t)
  BY DEF TransfersNext
<1>2. /\ inventory \in [Row -> StockRow]
      /\ transfers \in [Transfer -> TransferRecord]
      /\ transfers[t] \in TransferRecord /\ transfers[t].lines \in Lines
      /\ transfers[t].source \in Location /\ transfers[t].destination \in Location
  BY DEF TypeOK, TransferRecord
<1>3. /\ \A l \in Location : <<p, l>> \in Row /\ inventory[<<p, l>>].quantity \in Nat
      /\ Units(transfers[t].lines, p) \in Nat
  BY <1>2, LinesAreMaps, RowsAssumption DEF Row, StockRow
<1>4. ASSUME NEW record, SetTransfer(t, record), NEW l \in Location,
             \A m \in Location \ {l} :
               inventory'[<<p, m>>].quantity = inventory[<<p, m>>].quantity,
             inventory'[<<p, l>>].quantity + InTransit(t, p)'
               = inventory[<<p, l>>].quantity + InTransit(t, p)
      PROVE  UnitsOf(p)' = UnitsOf(p)
  <2>1. \A e \in Transfer \ {t} : transfers'[e] = transfers[e]
    BY <1>2, <1>4 DEF SetTransfer
  <2>2. \A e \in Transfer \ {t} : InTransit(e, p)' = InTransit(e, p)
    BY <2>1 DEF InTransit
  <2> QED
    BY <1>4, <2>2, UnitsMove
<1>5. ASSUME NEW record, SetTransfer(t, record),
             \A l \in Location : inventory'[<<p, l>>].quantity = inventory[<<p, l>>].quantity,
             transfers[t].status # "IN_TRANSIT", record.status # "IN_TRANSIT"
      PROVE  UnitsOf(p)' = UnitsOf(p)
  <2>1. transfers'[t] = record
    BY <1>2, <1>5 DEF SetTransfer
  <2>2. InTransit(t, p) = 0 /\ InTransit(t, p)' = 0
    BY <1>5, <2>1 DEF InTransit
  <2> QED
    BY <1>2, <1>4, <1>5, <2>2
<1>6. ASSUME NEW from, NEW to, MoveTransfer(t, from, to)
      PROVE  /\ SetTransfer(t, [transfers[t] EXCEPT !.status = to])
             /\ [transfers[t] EXCEPT !.status = to].status = to
             /\ transfers[t].status = from /\ transfers'[t].status = to
             /\ transfers'[t].lines = transfers[t].lines
  BY <1>2, <1>6 DEF MoveTransfer, SetTransfer, TransferRecord
<1>7. CASE EditTransfer(t)
  <2>1. ASSUME NEW record, SetTransfer(t, record), UNCHANGED stockVars,
               transfers[t].status # "IN_TRANSIT", record.status # "IN_TRANSIT"
        PROVE  UnitsOf(p)' = UnitsOf(p)
    BY <1>5, <2>1 DEF stockVars
  <2>2. ASSUME NEW from \in Location, NEW to \in Location, NEW lines \in Lines,
               CreateTransfer(t, from, to, lines)
        PROVE  UnitsOf(p)' = UnitsOf(p)
    BY <2>1, <2>2 DEF CreateTransfer
  <2>3. ASSUME NEW from \in Location, NEW to \in Location, UpdateTransfer(t, from, to)
        PROVE  UnitsOf(p)' = UnitsOf(p)
    <3> DEFINE record == [transfers[t] EXCEPT !.source = from, !.destination = to]
    <3>1. record.status = transfers[t].status
      BY <1>2 DEF TransferRecord
    <3>2. SetTransfer(t, record) /\ UNCHANGED stockVars /\ transfers[t].status = "DRAFT"
      BY <2>3 DEF UpdateTransfer
    <3> HIDE DEF record
    <3> QED
      BY <2>1, <3>1, <3>2
  <2>4. ASSUME NEW lines, EditLines(t, lines)
        PROVE  UnitsOf(p)' = UnitsOf(p)
    <3> DEFINE record == [transfers[t] EXCEPT !.lines = lines]
    <3>1. record.status = transfers[t].status
      BY <1>2 DEF TransferRecord
    <3>2. SetTransfer(t, record) /\ UNCHANGED stockVars /\ transfers[t].status = "DRAFT"
      BY <2>4 DEF EditLines
    <3> HIDE DEF record
    <3> QED
      BY <2>1, <3>1, <3>2
  <2> QED
    BY <1>7, <2>2, <2>3, <2>4
    DEF EditTransfer, AddTransferItem, UpdateTransferItem, RemoveTransferItem
<1>8. ASSUME NEW from \in {"DRAFT", "REQUESTED"}, NEW to \in {"REQUESTED", "CANCELLED"},
             MoveTransfer(t, from, to), UNCHANGED stockVars
      PROVE  UnitsOf(p)' = UnitsOf(p)
  BY <1>5, <1>6, <1>8 DEF stockVars
<1>9. ASSUME NEW kind \in {"reserve", "release"}, NEW from \in {"REQUESTED", "APPROVED"},
             NEW to \in {"APPROVED", "CANCELLED"}, MoveTransfer(t, from, to),
             Apply(Ask(kind, transfers[t].source, transfers[t].lines))
      PROVE  UnitsOf(p)' = UnitsOf(p)
  <2>1. \A l \in Location : inventory'[<<p, l>>].quantity = inventory[<<p, l>>].quantity
    BY <1>2, <1>3, <1>9, AskMoves
  <2> QED
    BY <1>5, <1>6, <1>9, <2>1
(* Shipping takes from the source what is then on the road.                *)
<1>10. CASE ShipTransfer(t)
  <2> DEFINE l == transfers[t].source
             n == Units(transfers[t].lines, p)
  <2>1. /\ MoveTransfer(t, "APPROVED", "IN_TRANSIT")
        /\ Apply(Ask("consume", l, transfers[t].lines))
    BY <1>10 DEF ShipTransfer
  <2>2. \A m \in Location : inventory'[<<p, m>>].quantity
          = inventory[<<p, m>>].quantity - Asked(l, transfers[t].lines, <<p, m>>)
    BY <1>2, <1>3, <2>1, AskMoves
  <2>3. \A m \in Location :
          Asked(l, transfers[t].lines, <<p, m>>) = IF m = l THEN n ELSE 0
    BY DEF Asked
  <2>4. InTransit(t, p) = 0 /\ InTransit(t, p)' = n
    <3>1. transfers'[t].lines = transfers[t].lines
      BY <1>6, <2>1
    <3>2. Units(transfers[t].lines, p)' = n
      BY <3>1 DEF Units
    <3>3. transfers[t].status = "APPROVED" /\ transfers'[t].status = "IN_TRANSIT"
      BY <1>6, <2>1
    <3> QED
      BY <3>2, <3>3 DEF InTransit
  <2> HIDE DEF n
  <2>5. n \in Nat
    BY <1>3 DEF n
  <2>6. /\ \A m \in Location \ {l} :
             inventory'[<<p, m>>].quantity = inventory[<<p, m>>].quantity
        /\ inventory'[<<p, l>>].quantity + InTransit(t, p)'
             = inventory[<<p, l>>].quantity + InTransit(t, p)
    BY <1>2, <1>3, <2>2, <2>3, <2>4, <2>5
  <2> QED
    BY <1>2, <1>4, <1>6, <2>1, <2>6
(* The arrival puts it on the shelf of the destination.                    *)
<1>11. CASE CompleteTransfer(t)
  <2> DEFINE l == transfers[t].destination
             n == Units(transfers[t].lines, p)
  <2>1. /\ MoveTransfer(t, "IN_TRANSIT", "COMPLETED")
        /\ Apply(Ask("arrive", l, transfers[t].lines))
    BY <1>11 DEF CompleteTransfer
  <2>2. \A m \in Location : inventory'[<<p, m>>].quantity
          = inventory[<<p, m>>].quantity + Asked(l, transfers[t].lines, <<p, m>>)
    BY <1>2, <1>3, <2>1, AskMoves
  <2>3. \A m \in Location :
          Asked(l, transfers[t].lines, <<p, m>>) = IF m = l THEN n ELSE 0
    BY DEF Asked
  <2>4. InTransit(t, p) = n /\ InTransit(t, p)' = 0
    <3>1. transfers'[t].lines = transfers[t].lines
      BY <1>6, <2>1
    <3>2. Units(transfers[t].lines, p)' = n
      BY <3>1 DEF Units
    <3>3. transfers[t].status = "IN_TRANSIT" /\ transfers'[t].status = "COMPLETED"
      BY <1>6, <2>1
    <3> QED
      BY <3>2, <3>3 DEF InTransit
  <2> HIDE DEF n
  <2>5. n \in Nat
    BY <1>3 DEF n
  <2>6. /\ \A m \in Location \ {l} :
             inventory'[<<p, m>>].quantity = inventory[<<p, m>>].quantity
        /\ inventory'[<<p, l>>].quantity + InTransit(t, p)'
             = inventory[<<p, l>>].quantity + InTransit(t, p)
    BY <1>2, <1>3, <2>2, <2>3, <2>4, <2>5
  <2> QED
    BY <1>2, <1>4, <1>6, <2>1, <2>6
<1>12. CASE RequestTransfer(t)
  BY <1>8, <1>12 DEF RequestTransfer
<1>13. CASE ApproveTransfer(t)
  BY <1>9, <1>13 DEF ApproveTransfer
<1>14. CASE CancelTransfer(t)
  BY <1>8, <1>9, <1>14 DEF CancelTransfer
<1> QED
  BY <1>1, <1>7, <1>10, <1>11, <1>12, <1>13, <1>14

(* Whatever else happens to the same products and locations meanwhile, no  *)
(* step of a transfer makes or loses a unit (StockTransfersService).       *)
THEOREM TransfersConserveUnits == Spec => UnitsConserved
<1>1. ASSUME TypeOK, TypeOK', [Next]_vars
      PROVE  [transfers' # transfers => \A p \in Product : UnitsOf(p)' = UnitsOf(p)]_vars
  <2>1. TransfersNext \/ UNCHANGED transfers
    BY <1>1 DEF Next, FloorNext, vars
  <2> QED
    BY <1>1, <2>1, TransferUnits
<1>2. Spec => []TypeOK
  BY TypeCorrect
<1> QED
  BY <1>1, <1>2, PTL DEF Spec, UnitsConserved

=============================================================================

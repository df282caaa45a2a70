----------------------- MODULE PurchaseOrdersProofs -----------------------
(***************************************************************************)
(* Proofs about PurchaseOrders, for any number of deliveries, products and *)
(* receipt lines.                                                          *)
(***************************************************************************)
EXTENDS PurchaseOrders, TLAPS

LineRecord == [product : Product, quantity : 1..MaxQuantity]

(* What a delivery claims next: a real line, of at least one unit.         *)
LEMMA NextLine ==
  ASSUME TypeOK, NEW d \in Delivery, lines[d] # <<>>
  PROVE  /\ Head(lines[d]) \in LineRecord
         /\ Tail(lines[d]) \in Seq(LineRecord)
         /\ Head(lines[d]).product \in Product
         /\ Head(lines[d]).quantity \in Nat
         /\ Head(lines[d]).quantity > 0
<1>1. lines[d] \in Seq(LineRecord)
  BY DEF TypeOK, LineRecord
<1>2. Head(lines[d]) \in LineRecord /\ Tail(lines[d]) \in Seq(LineRecord)
  BY <1>1
<1> QED
  BY <1>2, PurchaseOrdersAssumption DEF LineRecord

LEMMA CloseTypes ==
  ASSUME TypeOK, NEW d \in Delivery, CloseDelivery(d)
  PROVE  /\ phase' \in [Delivery -> {"idle", "claiming", "evaluated"}]
         /\ lines' \in [Delivery -> Seq(LineRecord)]
         /\ claimed' \in [Delivery -> [Product -> Nat]]
         /\ full' \in [Delivery -> BOOLEAN]
<1>1. <<>> \in Seq(LineRecord) /\ None \in [Product -> Nat]
  BY DEF None
<1> QED
  BY <1>1 DEF CloseDelivery, TypeOK, LineRecord

LEMMA TypeInductive == TypeOK /\ [Next]_vars => TypeOK'
<1> SUFFICES ASSUME TypeOK, [Next]_vars PROVE TypeOK'
  OBVIOUS
<1>0. MaxQuantity \in Nat /\ None \in [Product -> Nat]
  BY PurchaseOrdersAssumption DEF None
<1>1. ASSUME NEW p \in Product, NEW n \in 0..MaxQuantity,
             ordered' = [ordered EXCEPT ![p] = n],
             UNCHANGED <<status, received, receipts, shelf, deliveryVars>>
      PROVE  TypeOK'
  <2>1. ordered' \in [Product -> 0..MaxQuantity]
    BY <1>1 DEF TypeOK
  <2> QED
    BY <1>1, <2>1 DEF TypeOK, deliveryVars
<1>2. ASSUME NEW p \in Product, NEW n \in 1..MaxQuantity,
             AddItem(p, n) \/ UpdateItem(p, n) \/ RemoveItem(p)
      PROVE  TypeOK'
  <2>1. n \in 0..MaxQuantity /\ 0 \in 0..MaxQuantity
    BY <1>0
  <2> QED
    BY <1>1, <1>2, <2>1 DEF AddItem, UpdateItem, RemoveItem
<1>3. CASE Approve \/ Order \/ Cancel
  BY <1>3 DEF Approve, Order, Cancel, Transition, Cancellable, Status, TypeOK, deliveryVars
<1>4. ASSUME NEW d \in Delivery, NEW input \in ReceiptLines, StartDelivery(d, input)
      PROVE  TypeOK'
  <2>1. input \in Seq(LineRecord)
    BY PurchaseOrdersAssumption DEF LineRecord
  <2> QED
    BY <1>4, <2>1 DEF StartDelivery, TypeOK, orderVars, LineRecord
<1>5. ASSUME NEW d \in Delivery, ClaimReceivedQuantity(d)
      PROVE  TypeOK'
  <2>2. /\ Tail(lines[d]) \in Seq(LineRecord)
        /\ Head(lines[d]).product \in Product
        /\ Head(lines[d]).quantity \in Nat
    BY <1>5, NextLine DEF ClaimReceivedQuantity
  <2>3. lines' \in [Delivery -> Seq(LineRecord)]
    <3>1. lines' = [lines EXCEPT ![d] = Tail(lines[d])]
      BY <1>5 DEF ClaimReceivedQuantity
    <3>2. lines \in [Delivery -> Seq(LineRecord)]
      BY DEF TypeOK, LineRecord
    <3> QED
      BY <2>2, <3>1, <3>2
  <2>4. claimed' \in [Delivery -> [Product -> Nat]]
    <3>1. claimed' = [claimed EXCEPT ![d][Head(lines[d]).product] =
                                        claimed[d][Head(lines[d]).product] + Head(lines[d]).quantity]
      BY <1>5 DEF ClaimReceivedQuantity
    <3>2. claimed \in [Delivery -> [Product -> Nat]]
      BY DEF TypeOK
    <3> QED
      BY <2>2, <3>1, <3>2
  <2> QED
    BY <1>5, <2>3, <2>4 DEF ClaimReceivedQuantity, TypeOK, orderVars, LineRecord
<1>7. ASSUME NEW d \in Delivery, RefuseReceipt(d) \/ AbortDelivery(d)
      PROVE  TypeOK'
  BY CloseTypes, <1>7 DEF RefuseReceipt, AbortDelivery, TypeOK, orderVars, LineRecord
<1>8. ASSUME NEW d \in Delivery, EvaluateReceived(d)
      PROVE  TypeOK'
  BY <1>8 DEF EvaluateReceived, TypeOK, orderVars
<1>9. ASSUME NEW d \in Delivery, CommitDelivery(d)
      PROVE  TypeOK'
  <2>1. received' \in [Product -> Nat] /\ shelf' \in [Product -> Nat]
    BY <1>9 DEF CommitDelivery, TypeOK
  <2>2. status' \in Status /\ receipts' \in Nat /\ ordered' = ordered /\ CloseDelivery(d)
    BY <1>9 DEF CommitDelivery, TypeOK, Status
  <2> QED
    BY CloseTypes, <2>1, <2>2 DEF TypeOK, LineRecord
<1>10. CASE UNCHANGED vars
  BY <1>10 DEF vars, TypeOK
<1>11. 1 \in 1..MaxQuantity
  BY PurchaseOrdersAssumption
<1> QED
  BY <1>2, <1>3, <1>4, <1>5, <1>7, <1>8, <1>9, <1>10, <1>11 DEF Next

(* Every variable keeps its type.                                          *)
THEOREM TypeCorrect == Spec => []TypeOK
<1>1. Init => TypeOK
  BY PurchaseOrdersAssumption DEF Init, TypeOK, None, Status
<1> QED
  BY <1>1, TypeInductive, PTL DEF Spec

----------------------------------------------------------------------------
(* The inductive invariant: a line is claimed by one delivery at a time, a *)
(* delivery about to write the status has claimed something and, if it has *)
(* found the order complete, complete it is once its claims are counted.   *)

OneClaimant ==
  \A p \in Product : \A d, e \in Delivery :
    d # e => claimed[d][p] = 0 \/ claimed[e][p] = 0

Claims(d) == \E p \in Product : claimed[d][p] > 0

DeliverySound(d) ==
  /\ phase[d] = "idle" => claimed[d] = None
  /\ phase[d] = "claiming" => lines[d] # <<>> \/ Claims(d)
  /\ phase[d] = "evaluated" =>
       /\ Claims(d)
       /\ full[d] => \A p \in Product : received[p] + claimed[d][p] >= ordered[p]

Inv ==
  /\ TypeOK
  /\ OneClaimant
  /\ \A d \in Delivery : DeliverySound(d)
  /\ NeverOverReceived
  /\ NothingArrivesEarly
  /\ ReceivedIsComplete

(* Steps on a draft: nothing has been received and nobody is claiming.     *)
LEMMA DraftSteps ==
  ASSUME Inv, NEW p \in Product, NEW n \in 0..MaxQuantity, status = "DRAFT",
         ordered' = [ordered EXCEPT ![p] = n],
         UNCHANGED <<status, received, receipts, shelf, deliveryVars>>
  PROVE  Inv'
<1>0. /\ phase' = phase /\ lines' = lines /\ claimed' = claimed /\ full' = full
      /\ status' = status /\ received' = received /\ receipts' = receipts
      /\ shelf' = shelf
  BY DEF deliveryVars
<1>1. TypeOK'
  <2>1. ordered' \in [Product -> 0..MaxQuantity]
    BY PurchaseOrdersAssumption DEF Inv, TypeOK
  <2> QED
    BY <1>0, <2>1 DEF Inv, TypeOK
<1>3. OneClaimant'
  BY <1>0 DEF Inv, OneClaimant
<1>4. ASSUME NEW d \in Delivery
      PROVE  DeliverySound(d)'
  <2>1. phase[d] = "idle" /\ DeliverySound(d)
    BY DEF Inv, NothingArrivesEarly
  <2> QED
    BY <1>0, <2>1 DEF DeliverySound
<1>5. NothingArrivesEarly' /\ ReceivedIsComplete'
  BY <1>0 DEF Inv, NothingArrivesEarly, ReceivedIsComplete
<1>2. NeverOverReceived'
  <2>1. received = None /\ \A d \in Delivery : claimed[d] = None
    BY DEF Inv, NothingArrivesEarly, DeliverySound
  <2>2. ordered' \in [Product -> 0..MaxQuantity]
    BY DEF Inv, TypeOK
  <2>3. \A r \in Product : received[r] = shelf[r]
    BY DEF Inv, NeverOverReceived
  <2> QED
    BY <2>1, <2>2, <2>3, PurchaseOrdersAssumption
    DEF NeverOverReceived, None, deliveryVars
<1> QED
  BY <1>1, <1>2, <1>3, <1>4, <1>5 DEF Inv

(* A delivery that gives up takes nothing with it.                         *)
LEMMA CloseSteps ==
  ASSUME Inv, NEW d \in Delivery, CloseDelivery(d), UNCHANGED orderVars
  PROVE  Inv'
<1>1. TypeOK'
  BY CloseTypes DEF Inv, TypeOK, orderVars, LineRecord
<1>2. \A e \in Delivery : claimed'[e] = IF e = d THEN None ELSE claimed[e]
  BY DEF Inv, TypeOK, CloseDelivery
<1>3. OneClaimant' /\ NeverOverReceived'
  <2>1. \A p \in Product : \A e \in Delivery :
          claimed'[e][p] = 0 \/ claimed'[e][p] = claimed[e][p]
    BY <1>2 DEF None
  <2>2. \A p \in Product : /\ received[p] \in Nat /\ ordered[p] \in Nat
                            /\ claimed[d][p] \in Nat
    BY PurchaseOrdersAssumption DEF Inv, TypeOK
  <2>3. \A p \in Product : received[p] <= ordered[p]
    BY <2>2 DEF Inv, NeverOverReceived
  <2> QED
    BY <2>1, <2>2, <2>3 DEF Inv, OneClaimant, NeverOverReceived, orderVars
<1>4. \A e \in Delivery : DeliverySound(e)'
  BY <1>2 DEF Inv, TypeOK, DeliverySound, Claims, CloseDelivery, orderVars
<1>5. NothingArrivesEarly' /\ ReceivedIsComplete'
  BY DEF Inv, TypeOK, NothingArrivesEarly, ReceivedIsComplete, CloseDelivery, orderVars
<1> QED
  BY <1>1, <1>3, <1>4, <1>5 DEF Inv

LEMMA ClaimSteps ==
  ASSUME Inv, NEW d \in Delivery, ClaimReceivedQuantity(d), TypeOK'
  PROVE  Inv'
<1> DEFINE line == Head(lines[d])
           q == line.product
<1>1. q \in Product /\ line.quantity \in Nat /\ line.quantity > 0
  BY NextLine DEF ClaimReceivedQuantity, Inv
<1>2. \A e \in Delivery, p \in Product :
        claimed[e][p] \in Nat /\ received[p] \in Nat /\ ordered[p] \in Nat
  BY PurchaseOrdersAssumption DEF Inv, TypeOK
<1>3. /\ phase[d] = "claiming"
      /\ \A e \in Delivery \ {d} : claimed[e][q] = 0
      /\ ordered[q] - received[q] - claimed[d][q] >= line.quantity
      /\ UNCHANGED <<orderVars, phase, full>>
  <2>1. /\ phase[d] = "claiming"
        /\ ~LockedByOther(d, q)
        /\ Outstanding(d, q) >= line.quantity
        /\ UNCHANGED <<orderVars, phase, full>>
    BY DEF ClaimReceivedQuantity
  <2> QED
    BY <1>1, <1>2, <2>1 DEF LockedByOther, Outstanding
<1>4. \A e \in Delivery, p \in Product :
        claimed'[e][p] = IF e = d /\ p = q THEN claimed[d][q] + line.quantity
                                           ELSE claimed[e][p]
  BY <1>1 DEF ClaimReceivedQuantity, Inv, TypeOK
<1>5. OneClaimant'
  BY <1>1, <1>2, <1>3, <1>4 DEF Inv, OneClaimant
<1>6. NeverOverReceived'
  BY <1>1, <1>2, <1>3, <1>4 DEF Inv, NeverOverReceived, orderVars
<1>7. ASSUME NEW e \in Delivery
      PROVE  DeliverySound(e)'
  <2>1. CASE e = d
    <3>1. claimed'[d][q] > 0
      BY <1>1, <1>2, <1>3, <1>4
    <3> QED
      BY <1>1, <1>3, <2>1, <3>1 DEF DeliverySound, Claims
  <2>2. CASE e # d
    <3>1. lines'[e] = lines[e]
      <4>1. lines' = [lines EXCEPT ![d] = Tail(lines[d])]
        BY DEF ClaimReceivedQuantity
      <4>2. DOMAIN lines = Delivery
        BY DEF Inv, TypeOK
      <4> HIDE DEF line
      <4> QED
        BY <2>2, <4>1, <4>2
    <3>2. \A p \in Product : claimed'[e][p] = claimed[e][p]
      BY <1>4, <2>2
    <3>3. claimed'[e] = claimed[e]
      <4>1. claimed'[e] \in [Product -> Nat] /\ claimed[e] \in [Product -> Nat]
        BY DEF Inv, TypeOK
      <4> QED
        BY <3>2, <4>1
    <3> QED
      BY <1>3, <3>1, <3>3 DEF Inv, DeliverySound, Claims, orderVars
  <2> QED
    BY <2>1, <2>2
<1>8. NothingArrivesEarly' /\ ReceivedIsComplete'
  BY <1>3 DEF Inv, NothingArrivesEarly, ReceivedIsComplete, orderVars
<1> QED
  BY <1>5, <1>6, <1>7, <1>8 DEF Inv

LEMMA CommitSteps ==
  ASSUME Inv, NEW d \in Delivery, CommitDelivery(d), TypeOK'
  PROVE  Inv'
<1>1. \A e \in Delivery, p \in Product :
        claimed[e][p] \in Nat /\ received[p] \in Nat /\ ordered[p] \in Nat /\ shelf[p] \in Nat
  BY PurchaseOrdersAssumption DEF Inv, TypeOK
<1>2. /\ \A e \in Delivery : claimed'[e] = IF e = d THEN None ELSE claimed[e]
      /\ \A p \in Product : /\ received'[p] = received[p] + claimed[d][p]
                            /\ shelf'[p] = shelf[p] + claimed[d][p]
      /\ ordered' = ordered
      /\ \A e \in Delivery \ {d} : phase'[e] = phase[e] /\ lines'[e] = lines[e] /\ full'[e] = full[e]
      /\ phase'[d] = "idle" /\ phase[d] = "evaluated"
  BY DEF CommitDelivery, CloseDelivery, Inv, TypeOK
<1>3. OneClaimant'
  BY <1>2 DEF Inv, OneClaimant, None
<1>4. NeverOverReceived'
  <2>1. ASSUME NEW p \in Product, NEW e \in Delivery
        PROVE  received'[p] = shelf'[p] /\ received'[p] + claimed'[e][p] <= ordered'[p]
    <3>1. /\ received[p] = shelf[p]
          /\ received[p] + claimed[d][p] <= ordered[p]
          /\ received[p] + claimed[e][p] <= ordered[p]
      BY DEF Inv, NeverOverReceived
    <3>2. CASE e = d
      BY <1>1, <1>2, <3>1, <3>2 DEF None
    <3>3. CASE e # d
      <4>1. claimed[d][p] = 0 \/ claimed[e][p] = 0
        BY <3>3 DEF Inv, OneClaimant
      <4> QED
        BY <1>1, <1>2, <3>1, <3>3, <4>1
    <3> QED
      BY <3>2, <3>3
  <2> QED
    BY <1>2, <2>1 DEF NeverOverReceived
<1>5. ASSUME NEW e \in Delivery
      PROVE  DeliverySound(e)'
  <2>1. CASE e = d
    BY <1>2, <2>1 DEF DeliverySound, None
  <2>2. CASE e # d
    <3>1. /\ phase'[e] = phase[e] /\ lines'[e] = lines[e]
          /\ claimed'[e] = claimed[e] /\ full'[e] = full[e]
      BY <1>2, <2>2
    <3>2. DeliverySound(e)
      BY DEF Inv
    <3>3. Claims(e)' <=> Claims(e)
      BY <3>1 DEF Claims
    <3>4. ASSUME NEW p \in Product, received[p] + claimed[e][p] >= ordered[p]
          PROVE  received'[p] + claimed'[e][p] >= ordered'[p]
      BY <1>1, <1>2, <3>1, <3>4
    <3> QED
      BY <3>1, <3>2, <3>3, <3>4 DEF DeliverySound
  <2> QED
    BY <2>1, <2>2
<1>6. NothingArrivesEarly'
  BY DEF CommitDelivery, NothingArrivesEarly
<1>7. ReceivedIsComplete'
  <2> SUFFICES ASSUME status' = "RECEIVED", NEW p \in Product
               PROVE  received'[p] = ordered'[p]
    BY DEF ReceivedIsComplete
  <2>1. full[d]
    BY DEF CommitDelivery
  <2>2. received[p] + claimed[d][p] >= ordered[p]
    BY <1>2, <2>1 DEF Inv, DeliverySound
  <2>3. received[p] + claimed[d][p] <= ordered[p]
    BY DEF Inv, NeverOverReceived
  <2> QED
    BY <1>1, <1>2, <2>2, <2>3
<1> QED
  BY <1>3, <1>4, <1>5, <1>6, <1>7 DEF Inv

LEMMA Inductive == Inv /\ [Next]_vars => Inv'
<1> SUFFICES ASSUME Inv, [Next]_vars PROVE Inv'
  OBVIOUS
<1>0. TypeOK'
  BY TypeInductive DEF Inv
<1>1. ASSUME NEW p \in Product, NEW n \in 1..MaxQuantity, AddItem(p, n) \/ UpdateItem(p, n)
      PROVE  Inv'
  BY <1>1, DraftSteps, PurchaseOrdersAssumption DEF AddItem, UpdateItem
<1>2. ASSUME NEW p \in Product, RemoveItem(p)
      PROVE  Inv'
  <2>1. 0 \in 0..MaxQuantity
    BY PurchaseOrdersAssumption
  <2> QED
    BY <1>2, <2>1, DraftSteps DEF RemoveItem
<1>3. CASE Approve \/ Order \/ Cancel
  <2>1. /\ status \in Cancellable /\ status' \notin {"DRAFT", "RECEIVED"}
        /\ status' = "APPROVED" => status = "DRAFT"
        /\ UNCHANGED <<ordered, received, receipts, shelf, deliveryVars>>
    BY <1>3 DEF Approve, Order, Cancel, Transition, Cancellable
  <2> QED
    BY <1>0, <2>1
    DEF Inv, OneClaimant, DeliverySound, Claims, NeverOverReceived,
        NothingArrivesEarly, ReceivedIsComplete, deliveryVars
<1>4. ASSUME NEW d \in Delivery, NEW input \in ReceiptLines, StartDelivery(d, input)
      PROVE  Inv'
  <2>1. /\ status \in Receivable /\ UNCHANGED <<orderVars, claimed, full>>
        /\ \A e \in Delivery \ {d} : phase'[e] = phase[e] /\ lines'[e] = lines[e]
        /\ phase'[d] = "claiming" /\ lines'[d] = input
    BY <1>4 DEF StartDelivery, Inv, TypeOK
  <2>2. input # <<>>
    BY PurchaseOrdersAssumption
  <2>3. ASSUME NEW e \in Delivery
        PROVE  DeliverySound(e)'
    BY <2>1, <2>2 DEF Inv, DeliverySound, Claims, orderVars
  <2> QED
    BY <1>0, <2>1, <2>3
    DEF Inv, OneClaimant, NeverOverReceived, NothingArrivesEarly, ReceivedIsComplete,
        orderVars, Receivable
<1>5. ASSUME NEW d \in Delivery, ClaimReceivedQuantity(d)
      PROVE  Inv'
  BY <1>0, <1>5, ClaimSteps
<1>6. ASSUME NEW d \in Delivery, RefuseReceipt(d) \/ AbortDelivery(d)
      PROVE  Inv'
  BY <1>6, CloseSteps DEF RefuseReceipt, AbortDelivery
<1>7. ASSUME NEW d \in Delivery, EvaluateReceived(d)
      PROVE  Inv'
  <2>1. /\ phase[d] = "claiming" /\ lines[d] = <<>> /\ phase'[d] = "evaluated"
        /\ full'[d] = \A p \in Product : received[p] + claimed[d][p] >= ordered[p]
        /\ UNCHANGED <<orderVars, lines, claimed>>
        /\ \A e \in Delivery \ {d} : phase'[e] = phase[e] /\ full'[e] = full[e]
    BY <1>7 DEF EvaluateReceived, Inv, TypeOK
  <2>2. Claims(d)
    BY <2>1 DEF Inv, DeliverySound
  <2>3. ASSUME NEW e \in Delivery
        PROVE  DeliverySound(e)'
    BY <2>1, <2>2 DEF Inv, DeliverySound, Claims, orderVars
  <2>4. NothingArrivesEarly'
    BY <2>1 DEF Inv, NothingArrivesEarly, orderVars
  <2> QED
    BY <1>0, <2>1, <2>3, <2>4
    DEF Inv, OneClaimant, NeverOverReceived, ReceivedIsComplete, orderVars
<1>8. ASSUME NEW d \in Delivery, CommitDelivery(d)
      PROVE  Inv'
  BY <1>0, <1>8, CommitSteps
<1>9. CASE UNCHANGED vars
  BY <1>0, <1>9
  DEF vars, Inv, OneClaimant, DeliverySound, Claims, NeverOverReceived,
      NothingArrivesEarly, ReceivedIsComplete
<1> QED
  BY <1>1, <1>2, <1>3, <1>4, <1>5, <1>6, <1>7, <1>8, <1>9 DEF Next

LEMMA Invariance == Spec => []Inv
<1>1. Init => Inv
  BY PurchaseOrdersAssumption
  DEF Init, Inv, TypeOK, Status, None, OneClaimant, DeliverySound, Claims,
      NeverOverReceived, NothingArrivesEarly, ReceivedIsComplete
<1> QED
  BY <1>1, Inductive, PTL DEF Spec

(* Racing deliveries never claim more than was ordered, and everything     *)
(* received is on the shelf.                                               *)
THEOREM NoOverReceiving == Spec => []NeverOverReceived
  BY Invariance, PTL DEF Inv

(* Lines are frozen before the first delivery starts.                      *)
THEOREM FrozenLines == Spec => []NothingArrivesEarly
  BY Invariance, PTL DEF Inv

(* An order shown as received has nothing outstanding.                     *)
THEOREM ReceivedMeansComplete == Spec => []ReceivedIsComplete
  BY Invariance, PTL DEF Inv

(* No delivery, however late its write, takes a received order back.       *)
THEOREM ReceivedStays == Spec => ReceivedIsFinal
<1>1. Inv /\ [Next]_vars => [status = "RECEIVED" => status' = "RECEIVED"]_vars
  <2> SUFFICES ASSUME Inv, Next, status = "RECEIVED"
               PROVE  status' = "RECEIVED"
    OBVIOUS
  <2>1. ASSUME NEW d \in Delivery, CommitDelivery(d)
        PROVE  FALSE
    <3>1. PICK p \in Product : claimed[d][p] > 0
      BY <2>1 DEF CommitDelivery, Inv, DeliverySound, Claims
    <3>2. received[p] + claimed[d][p] <= ordered[p] /\ received[p] = ordered[p]
      BY DEF Inv, NeverOverReceived, ReceivedIsComplete
    <3> QED
      BY <3>1, <3>2 DEF Inv, TypeOK
  <2> QED
    BY <2>1
    DEF Next, AddItem, UpdateItem, RemoveItem, Approve, Order, Cancel, Transition,
        Cancellable, StartDelivery, ClaimReceivedQuantity, RefuseReceipt,
        AbortDelivery, EvaluateReceived, orderVars
<1> QED
  BY <1>1, Invariance, PTL DEF Spec, ReceivedIsFinal

=============================================================================

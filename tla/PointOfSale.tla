---------------------------- MODULE PointOfSale ----------------------------
(***************************************************************************)
(* Tills: browsers on the point-of-sale page (apps/web, dashboard/pos),    *)
(* working on orders through the API.  A till decides on the order it last *)
(* loaded; a payment is three requests - pay, load, complete - and the     *)
(* page may be closed, or an answer fail, between any two of them.         *)
(***************************************************************************)
EXTENDS Orders

CONSTANTS Till, NoSale

ASSUME TillAssumption == NoSale \notin Order /\ MaxLine > 0

VARIABLE tills

(* What the page renders of an order.                                      *)
View(o) ==
  [status |-> orders[o].status, empty |-> orders[o].lines = NoLines,
   outstanding |-> Total(orders[o]) - orders[o].paid]

NothingSeen == [status |-> "NONE", empty |-> TRUE, outstanding |-> 0]

(* step: what the page has under way; "dialog" is an open payment dialog.  *)
IdleTill == [order |-> NoSale, seen |-> NothingSeen, step |-> "page"]

TillsInit == tills = [t \in Till |-> IdleTill]

SetTill(t, order, seen, step) ==
  tills' = [tills EXCEPT ![t] = [order |-> order, seen |-> seen, step |-> step]]

At(t, step) == tills[t].order # NoSale /\ tills[t].step = step

(* The query of the open order runs again: after a mutation, when the      *)
(* window is focused, when the page opens.                                 *)
Reload(t) ==
  /\ tills[t].order # NoSale
  /\ SetTill(t, tills[t].order, View(tills[t].order), tills[t].step)
  /\ UNCHANGED <<orders, stockVars>>

StartSale(t, o) ==
  /\ tills[t].order = NoSale
  /\ CreateOrder(o, NoLines, 0, 0, 0)
  /\ SetTill(t, o, NothingSeen, "page")

(* The held sales are the drafts.                                          *)
ResumeSale(t, o) ==
  /\ tills[t].order = NoSale
  /\ orders[o].status = "DRAFT"
  /\ SetTill(t, o, View(o), "page")
  /\ UNCHANGED <<orders, stockVars>>

(* Hold, New sale, closing the page, or losing it.                         *)
LeaveSale(t) ==
  /\ tills[t].order # NoSale
  /\ SetTill(t, NoSale, NothingSeen, "page")
  /\ UNCHANGED <<orders, stockVars>>

(* Scanning adds one unit; the order's discount may be changed.            *)
EditCart(t) ==
  LET o == tills[t].order
  IN /\ At(t, "page") /\ tills[t].seen.status # "COMPLETED"
     /\ \/ \E p \in Product, subtotal \in Amount :
             AddOrderItem(o, p, 1, subtotal) \/ RemoveOrderItem(o, p, subtotal)
        \/ \E discount \in Amount : UpdateOrder(o, discount, orders[o].tax)
     /\ tills' = [tills EXCEPT ![t].seen =
          [status |-> orders'[o].status, empty |-> orders'[o].lines = NoLines,
           outstanding |-> Total(orders'[o]) - orders'[o].paid]]

CancelSale(t) ==
  /\ At(t, "page")
  /\ CancelDraft(tills[t].order) \/ CancelConfirmed(tills[t].order)
  /\ SetTill(t, NoSale, NothingSeen, "page")

(* Charge confirms a draft and then opens the payment dialog.              *)
CanCharge(t) == ~tills[t].seen.empty /\ tills[t].seen.outstanding > 0

ChargeDraft(t) ==
  /\ At(t, "page") /\ CanCharge(t) /\ tills[t].seen.status = "DRAFT"
  /\ ConfirmOrder(tills[t].order)
  /\ SetTill(t, tills[t].order, [tills[t].seen EXCEPT !.status = "CONFIRMED"], "dialog")

ChargeConfirmed(t) ==
  /\ At(t, "page") /\ CanCharge(t) /\ tills[t].seen.status \notin {"DRAFT", "COMPLETED"}
  /\ SetTill(t, tills[t].order, tills[t].seen, "dialog")
  /\ UNCHANGED <<orders, stockVars>>

(* The dialog is closed.                                                   *)
CloseDialog(t) ==
  /\ At(t, "dialog")
  /\ SetTill(t, tills[t].order, tills[t].seen, "page")
  /\ UNCHANGED <<orders, stockVars>>

(* onSubmit: addPayment, then get, then complete if nothing is left.       *)
Pay(t, amount) ==
  /\ At(t, "dialog")
  /\ AddOrderPayment(tills[t].order, amount)
  /\ SetTill(t, tills[t].order, tills[t].seen, "paid")

(* The same, did the page complete as soon as a payment went through.      *)
LoadPaidBlindly(t) ==
  LET o == tills[t].order
  IN /\ At(t, "paid")
     /\ SetTill(t, o, View(o), "settled")
     /\ UNCHANGED <<orders, stockVars>>

LoadPaid(t) ==
  LET o == tills[t].order
  IN /\ At(t, "paid")
     /\ SetTill(t, o, View(o), IF View(o).outstanding <= 0 THEN "settled" ELSE "page")
     /\ UNCHANGED <<orders, stockVars>>

CompleteSale(t) ==
  /\ At(t, "settled")
  /\ CompleteOrder(tills[t].order)
  /\ SetTill(t, tills[t].order, [tills[t].seen EXCEPT !.status = "COMPLETED"], "page")

(* A request is refused, or its answer is lost, and the dialog shows an    *)
(* error: what came before it has been done, and may be tried again.       *)
FailRequest(t) ==
  /\ At(t, "paid") \/ At(t, "settled")
  /\ SetTill(t, tills[t].order, tills[t].seen, "dialog")
  /\ UNCHANGED <<orders, stockVars>>

CompleteUnheard(t) ==
  /\ At(t, "settled")
  /\ CompleteOrder(tills[t].order)
  /\ SetTill(t, tills[t].order, tills[t].seen, "dialog")

TillNext ==
  \E t \in Till :
    \/ \E o \in Order : StartSale(t, o) \/ ResumeSale(t, o)
    \/ Reload(t) \/ LeaveSale(t) \/ EditCart(t) \/ CancelSale(t)
    \/ ChargeDraft(t) \/ ChargeConfirmed(t) \/ CloseDialog(t)
    \/ \E amount \in 1..MaxAmount : Pay(t, amount)
    \/ LoadPaid(t) \/ CompleteSale(t) \/ CompleteUnheard(t) \/ FailRequest(t)

----------------------------------------------------------------------------
(* Properties.                                                             *)

(* Goods never leave a till unpaid, though paying and completing are       *)
(* separate requests of tills that may share a sale, work on an outdated   *)
(* page, fail half way and try again.                                      *)
GoodsArePaidFor ==
  [][\A o \in Order :
       tills' # tills /\ orders[o].status # "COMPLETED" /\ orders'[o].status = "COMPLETED"
         => orders'[o].paid = Total(orders'[o])]_<<orders, tills>>

(* What the comment on the page says: closing it "loses nothing, it just   *)
(* drops back into" the held sales - every open sale is at a till or in    *)
(* that list.                                                              *)
NoSaleIsLost ==
  \A o \in Order :
    orders[o].status = "CONFIRMED" => \E t \in Till : tills[t].order = o

=============================================================================

------------------------------- MODULE Pages -------------------------------
(***************************************************************************)
(* The six document pages of the web application over the API.  A tab      *)
(* shows the document as it last loaded it and offers buttons by what it   *)
(* shows; the API decides by what the document is and by the caller's role *)
(* (roles.guard.ts).  Other tabs, lost answers and pages left open put the *)
(* two out of step; a refused click leaves the page as it was, because     *)
(* only success reloads it.                                                *)
(***************************************************************************)
EXTENDS Naturals, Roles

CONSTANTS Tab, NoAction  \* browser tabs; no request under way

VARIABLES
  document,  \* the row the API keeps
  tabs       \* what each tab shows, and the request it waits for

pageVars == <<document, tabs>>

(* Of its data the buttons and the API look only at this: has it lines; is *)
(* every line counted, or the repair's final cost set; is money due, or a  *)
(* part of the purchase outstanding; is money taken; and do the shelves    *)
(* hold what its next step needs, which no page shows.                     *)
DocumentKind == {"order", "purchase", "transfer", "count", "return", "repair"}

NewDocument(kind) ==
  [kind   |-> kind,
   status |-> CASE kind = "return" -> "PENDING"
                [] kind = "repair" -> "RECEIVED"
                [] OTHER -> "DRAFT",
   lines  |-> FALSE, ready |-> FALSE, due |-> FALSE,
   paid   |-> FALSE, stocked |-> TRUE]

----------------------------------------------------------------------------
(* The API: a route is an action, who may call it, the statuses it starts  *)
(* from and those it may leave behind ({} leaves the status alone).        *)

Route(action, roles, from, to) ==
  [action |-> action, roles |-> roles, from |-> from, to |-> to]

Edit(roles, from) == Route("edit", roles, from, {})
To(action, roles, from, to) == Route(action, roles, from, {to})

OrderRoutes ==
  {Edit(Sellers, {"DRAFT"}),
   Route("line", Sellers, {"DRAFT"}, {}),
   To("confirm", Sellers, {"DRAFT"}, "CONFIRMED"),
   To("complete", Sellers, {"CONFIRMED"}, "COMPLETED"),
   To("cancel", Sellers, {"DRAFT", "CONFIRMED"}, "CANCELLED"),
   Route("pay", Sellers, {"CONFIRMED", "COMPLETED"}, {})}

PurchaseRoutes ==
  {Edit(Managers, {"DRAFT"}),
   Route("line", Managers, {"DRAFT"}, {}),
   To("approve", Managers, {"DRAFT"}, "APPROVED"),
   To("order", Managers, {"APPROVED"}, "ORDERED"),
   Route("receive", Managers, {"ORDERED", "PARTIALLY_RECEIVED"},
         {"PARTIALLY_RECEIVED", "RECEIVED"}),
   To("cancel", Managers, {"DRAFT", "APPROVED", "ORDERED"}, "CANCELLED")}

TransferRoutes ==
  {Edit(Managers, {"DRAFT"}),
   Route("line", Managers, {"DRAFT"}, {}),
   To("request", Managers, {"DRAFT"}, "REQUESTED"),
   To("approve", Managers, {"REQUESTED"}, "APPROVED"),
   To("ship", Managers, {"APPROVED"}, "IN_TRANSIT"),
   To("complete", Managers, {"IN_TRANSIT"}, "COMPLETED"),
   To("cancel", Managers, {"DRAFT", "REQUESTED", "APPROVED"}, "CANCELLED")}

AnyCountStatus ==
  {"DRAFT", "COUNTING", "REVIEW", "APPROVED", "COMPLETED", "CANCELLED"}

CountRoutes ==
  {Edit(Managers, {"DRAFT"}),
   Route("notes", Managers, AnyCountStatus, {}),
   To("start", Managers, {"DRAFT"}, "COUNTING"),
   Route("enter", Role, {"COUNTING"}, {}),
   To("submit", Managers, {"COUNTING"}, "REVIEW"),
   To("approve", Managers, {"REVIEW"}, "APPROVED"),
   To("complete", Managers, {"APPROVED"}, "COMPLETED"),
   To("cancel", Managers, {"DRAFT", "COUNTING", "REVIEW"}, "CANCELLED")}

ReturnRoutes ==
  {Edit(Sellers, {"PENDING"}),
   To("approve", Managers, {"PENDING"}, "APPROVED"),
   To("reject", Managers, {"PENDING"}, "REJECTED"),
   To("complete", Managers, {"APPROVED"}, "COMPLETED")}

OpenStatus ==
  {"RECEIVED", "DIAGNOSING", "WAITING_APPROVAL", "APPROVED", "IN_PROGRESS", "WAITING_PARTS"}
PayableStatus == {"COMPLETED", "DELIVERED"}

RepairMoves ==
  [RECEIVED         |-> {"DIAGNOSING", "CANCELLED"},
   DIAGNOSING       |-> {"WAITING_APPROVAL", "APPROVED", "CANCELLED"},
   WAITING_APPROVAL |-> {"APPROVED", "CANCELLED"},
   APPROVED         |-> {"IN_PROGRESS", "WAITING_PARTS", "CANCELLED"},
   IN_PROGRESS      |-> {"WAITING_PARTS", "COMPLETED", "CANCELLED"},
   WAITING_PARTS    |-> {"IN_PROGRESS", "CANCELLED"},
   COMPLETED        |-> {"DELIVERED"},
   DELIVERED        |-> {},
   CANCELLED        |-> {}]

RepairRoutes ==
  {Edit(Repairers, OpenStatus),
   Route("work", Repairers, OpenStatus, {}),
   Route("pay", Sellers, PayableStatus, {})}
    \cup UNION {{To(to, Role, {from}, to) : to \in RepairMoves[from]} :
                  from \in DOMAIN RepairMoves}

Routes(kind) ==
  CASE kind = "order"    -> OrderRoutes
    [] kind = "purchase" -> PurchaseRoutes
    [] kind = "transfer" -> TransferRoutes
    [] kind = "count"    -> CountRoutes
    [] kind = "return"   -> ReturnRoutes
    [] kind = "repair"   -> RepairRoutes

(* Mutant: the services have stopped counting the lines.                   *)
WantsNoLines(doc, action) == FALSE

(* The steps that need a line.                                             *)
WantsLines(doc, action) ==
  \/ action \in {"confirm", "request", "start"}
  \/ action = "approve" /\ doc.kind = "purchase"

(* What a service checks besides the status: lines, a finished count or a  *)
(* price, something due, and the shelves, whose conditional UPDATE refuses *)
(* with a 409 (reserveStock, and applyVariance where there is no row).     *)
Checked(doc, action) ==
  /\ WantsLines(doc, action) => doc.lines
  /\ action \in {"submit", "COMPLETED"} => doc.ready
  /\ action \in {"pay", "receive"} => doc.due
  /\ action = "cancel" /\ doc.kind = "order" => ~doc.paid
  /\ action = "confirm" => doc.stocked
  /\ action = "approve" /\ doc.kind \in {"transfer", "count"} => doc.stocked

Accepted(doc, action, role) ==
  {route \in Routes(doc.kind) :
     /\ route.action = action
     /\ role \in route.roles
     /\ doc.status \in route.from
     /\ Checked(doc, action)}

(* What the row may be afterwards: edits add or remove lines, or set the   *)
(* cost; a confirmed sale or a finished repair is owed, unless it is free; *)
(* a purchase sent out is outstanding until everything is received.        *)
Outcomes(doc, action, role) ==
  {[doc EXCEPT !.status = s, !.lines = l, !.ready = r,
               !.due = IF action = "receive" THEN s # "RECEIVED" ELSE d,
               !.paid = @ \/ action = "pay"] :
     s \in UNION {IF route.to = {} THEN {doc.status} ELSE route.to :
                    route \in Accepted(doc, action, role)},
     l \in IF action \in {"edit", "line"} THEN BOOLEAN ELSE {doc.lines},
     r \in IF action \in {"edit", "enter", "work"} THEN BOOLEAN ELSE {doc.ready},
     d \in IF action \in {"confirm", "pay", "COMPLETED"}
             THEN BOOLEAN ELSE {doc.due \/ action = "order"}}

----------------------------------------------------------------------------
(* The pages: the buttons each offers for the document it shows.           *)

When(condition, actions) == IF condition THEN actions ELSE {}

OrderButtons(shown, role) ==
  When(role \in Sellers,
    When(shown.status = "DRAFT" /\ shown.lines, {"confirm"})
      \cup When(shown.status = "CONFIRMED", {"complete"})
      \cup When(shown.status \in {"DRAFT", "CONFIRMED"}, {"cancel"})
      \cup When(shown.status \in {"CONFIRMED", "COMPLETED"} /\ shown.due, {"pay"}))

(* The notes, discount and tax of a draft.                                 *)
HeaderFields(shown, roles, role) ==
  When(shown.status = "DRAFT" /\ role \in roles, {"edit"})

(* The fields of a draft's lines are open to everyone who reads the page.  *)
OrderFields(shown, role) ==
  When(shown.status = "DRAFT" /\ shown.lines, {"line"})
    \cup HeaderFields(shown, Sellers, role)

(* The delivery dialog records nothing once nothing is outstanding.        *)

(* Mutant: an order that is partly here can still be called off.           *)
PurchaseButtonsLate(shown, role) ==
  When(role \in Managers,
    When(shown.status = "DRAFT" /\ shown.lines, {"approve"})
      \cup When(shown.status = "APPROVED", {"order"})
      \cup When(shown.status \in {"ORDERED", "PARTIALLY_RECEIVED"} /\ shown.due,
                {"receive"})
      \cup When(shown.status \notin {"RECEIVED", "CANCELLED"}, {"cancel"}))

PurchaseButtons(shown, role) ==
  When(role \in Managers,
    When(shown.status = "DRAFT" /\ shown.lines, {"approve"})
      \cup When(shown.status = "APPROVED", {"order"})
      \cup When(shown.status \in {"ORDERED", "PARTIALLY_RECEIVED"} /\ shown.due,
                {"receive"})
      \cup When(shown.status \in {"DRAFT", "APPROVED", "ORDERED"}, {"cancel"}))

PurchaseFields(shown, role) ==
  When(shown.status = "DRAFT" /\ shown.lines, {"line"})
    \cup HeaderFields(shown, Managers, role)

TransferButtons(shown, role) ==
  When(role \in Managers,
    When(shown.status = "DRAFT" /\ shown.lines, {"request"})
      \cup When(shown.status = "REQUESTED", {"approve"})
      \cup When(shown.status = "APPROVED", {"ship"})
      \cup When(shown.status = "IN_TRANSIT", {"complete"})
      \cup When(shown.status \in {"DRAFT", "REQUESTED", "APPROVED"}, {"cancel"}))

TransferFields(shown, role) ==
  When(shown.status = "DRAFT" /\ shown.lines, {"line"})
    \cup HeaderFields(shown, Managers, role)

CountButtons(shown, role) ==
  When(role \in Managers,
    When(shown.status = "DRAFT" /\ shown.lines, {"start"})
      \cup When(shown.status = "COUNTING", {"submit"})
      \cup When(shown.status = "REVIEW", {"approve"})
      \cup When(shown.status = "APPROVED", {"complete"})
      \cup When(shown.status \in {"DRAFT", "COUNTING", "REVIEW"}, {"cancel"}))

(* Anyone may enter a quantity while the count is on.                      *)
CountFields(shown, role) ==
  When(shown.status = "COUNTING", {"enter"})
    \cup When(shown.status = "DRAFT" /\ role \in Managers, {"edit", "notes"})

ReturnButtons(shown, role) ==
  When(role \in Managers,
    When(shown.status = "PENDING", {"approve", "reject"})
      \cup When(shown.status = "APPROVED", {"complete"}))

ReturnFields(shown, role) ==
  When(shown.status = "PENDING" /\ role \in Sellers, {"edit"})

(* The page's own copy of REPAIR_TRANSITIONS ("so the dialog only ever     *)
(* offers a move the API will actually accept").                           *)
ShownMoves ==
  [RECEIVED         |-> {"DIAGNOSING", "CANCELLED"},
   DIAGNOSING       |-> {"WAITING_APPROVAL", "APPROVED", "CANCELLED"},
   WAITING_APPROVAL |-> {"APPROVED", "CANCELLED"},
   APPROVED         |-> {"IN_PROGRESS", "WAITING_PARTS", "CANCELLED"},
   IN_PROGRESS      |-> {"WAITING_PARTS", "COMPLETED", "CANCELLED"},
   WAITING_PARTS    |-> {"IN_PROGRESS", "CANCELLED"},
   COMPLETED        |-> {"DELIVERED"},
   DELIVERED        |-> {},
   CANCELLED        |-> {}]

(* Mutant: the move dialog has lost the way out of WAITING_PARTS.          *)
RepairButtonsNoParts(shown, role) ==
  When(shown.status # "WAITING_PARTS", ShownMoves[shown.status])
    \cup When(role \in Sellers /\ shown.status \in PayableStatus /\ shown.due, {"pay"})

RepairButtons(shown, role) ==
  ShownMoves[shown.status]
    \cup When(role \in Sellers /\ shown.status \in PayableStatus /\ shown.due, {"pay"})

WorkFields(role) == When(role \in Repairers, {"work"})

(* The parts of an open repair; the work details of any.                   *)
RepairFields(shown, role) ==
  WorkFields(role) \cup When(role \in Repairers /\ shown.status \in OpenStatus, {"edit"})

Buttons(shown, role) ==
  CASE shown.kind = "order"    -> OrderButtons(shown, role)
    [] shown.kind = "purchase" -> PurchaseButtons(shown, role)
    [] shown.kind = "transfer" -> TransferButtons(shown, role)
    [] shown.kind = "count"    -> CountButtons(shown, role)
    [] shown.kind = "return"   -> ReturnButtons(shown, role)
    [] shown.kind = "repair"   -> RepairButtons(shown, role)

Fields(shown, role) ==
  CASE shown.kind = "order"    -> OrderFields(shown, role)
    [] shown.kind = "purchase" -> PurchaseFields(shown, role)
    [] shown.kind = "transfer" -> TransferFields(shown, role)
    [] shown.kind = "count"    -> CountFields(shown, role)
    [] shown.kind = "return"   -> ReturnFields(shown, role)
    [] shown.kind = "repair"   -> RepairFields(shown, role)

Offers(shown, role) == Buttons(shown, role) \cup Fields(shown, role)

----------------------------------------------------------------------------

NewTab(role, doc) ==
  [role |-> role, shown |-> doc, waiting |-> NoAction, served |-> FALSE]

(* The document and its page are opened together by someone of any role.   *)
PagesInit ==
  /\ document \in {NewDocument(k) : k \in DocumentKind}
  /\ tabs \in [Tab -> {NewTab(r, document) : r \in Role}]

SetTab(t, tab) == tabs' = [tabs EXCEPT ![t] = tab]

Idle(t) == tabs[t].waiting = NoAction

(* Opened again, or fetched again on focus once it is 30 seconds old.      *)
ReloadDocument(t) ==
  /\ Idle(t)
  /\ SetTab(t, NewTab(tabs[t].role, document))
  /\ UNCHANGED document

(* A button is disabled while its own request is under way.                *)
Click(t, action) ==
  /\ Idle(t)
  /\ action \in Offers(tabs[t].shown, tabs[t].role)
  /\ SetTab(t, [tabs[t] EXCEPT !.waiting = action])
  /\ UNCHANGED document

Serve(t) ==
  /\ ~Idle(t) /\ ~tabs[t].served
  /\ document' \in Outcomes(document, tabs[t].waiting, tabs[t].role)
  /\ SetTab(t, [tabs[t] EXCEPT !.served = TRUE])

(* runAction: success invalidates the queries, which loads the page again. *)
Answer(t) ==
  /\ tabs[t].served
  /\ SetTab(t, NewTab(tabs[t].role, document))
  /\ UNCHANGED document

(* runAction: the error is shown beside what the page already showed.      *)
Refuse(t) ==
  /\ ~Idle(t) /\ ~tabs[t].served
  /\ Outcomes(document, tabs[t].waiting, tabs[t].role) = {}
  /\ SetTab(t, NewTab(tabs[t].role, tabs[t].shown))
  /\ UNCHANGED document

(* The network fails before or after the request is served: an error too.  *)
LoseAnswer(t) ==
  /\ ~Idle(t)
  /\ SetTab(t, NewTab(tabs[t].role, tabs[t].shown))
  /\ UNCHANGED document

(* The same page open in front of somebody else, or another client; an     *)
(* administrator may do whatever anybody may.                              *)
Elsewhere ==
  /\ \E route \in Routes(document.kind) :
       /\ document.status \in route.from
       /\ document' \in Outcomes(document, route.action, "ADMIN")
  /\ UNCHANGED tabs

(* Two deliveries at once may both miss that together they were the last,  *)
(* because each decides the status on its own reading; and one under way   *)
(* when the order is cancelled writes its status over the cancellation     *)
(* (PurchaseOrders has the statements of both).                            *)
DeliveriesOverlap ==
  /\ document.kind = "purchase" /\ document.due
  /\ \/ /\ document.status \in {"ORDERED", "PARTIALLY_RECEIVED"}
        /\ document' = [document EXCEPT !.status = "PARTIALLY_RECEIVED", !.due = FALSE]
     \/ /\ document.status = "CANCELLED"
        /\ document' \in {[document EXCEPT !.status = "PARTIALLY_RECEIVED"],
                          [document EXCEPT !.status = "RECEIVED", !.due = FALSE]}
  /\ UNCHANGED tabs

(* Sales, counts and deliveries change what the shelves hold.              *)
ShelvesChange ==
  /\ document' = [document EXCEPT !.stocked = ~@]
  /\ UNCHANGED tabs

PagesNext ==
  \/ Elsewhere
  \/ DeliveriesOverlap
  \/ ShelvesChange
  \/ \E t \in Tab :
       \/ ReloadDocument(t)
       \/ \E action \in Offers(tabs[t].shown, tabs[t].role) : Click(t, action)
       \/ Serve(t)
       \/ Answer(t)
       \/ Refuse(t)
       \/ LoseAnswer(t)

----------------------------------------------------------------------------
(* Properties.                                                             *)

(* What the pages leave to the API to refuse: an unfinished count, a repair *)
(* with no price, an order that money was taken for, and empty shelves.    *)
Unhindered(doc) == [doc EXCEPT !.ready = TRUE, !.paid = FALSE, !.stocked = TRUE]

(* Two copies of the rules, one in the pages and one in the services and   *)
(* their controllers, agree: a button on a page that shows the document as *)
(* it is, is refused for nothing but what the pages leave to the API.      *)
ButtonsWork ==
  \A t \in Tab :
    Unhindered(tabs[t].shown) = Unhindered(document) =>
      \A action \in Buttons(tabs[t].shown, tabs[t].role) :
        Outcomes(Unhindered(document), action, tabs[t].role) # {}

(* A page left open does no harm: however far the document has moved since *)
(* it was loaded, a button of it that the API still carries out is one     *)
(* that a fresh page would offer the same reader.                          *)
OutdatedButtonsAreRefused ==
  \A t \in Tab :
    \A action \in Buttons(tabs[t].shown, tabs[t].role) :
      Outcomes(document, action, tabs[t].role) # {} =>
        action \in Buttons(document, tabs[t].role)

FinalStatus ==
  [order    |-> {"COMPLETED", "CANCELLED"},
   purchase |-> {"RECEIVED", "CANCELLED"},
   transfer |-> {"COMPLETED", "CANCELLED"},
   count    |-> {"COMPLETED", "CANCELLED"},
   return   |-> {"COMPLETED", "REJECTED"},
   repair   |-> {"DELIVERED", "CANCELLED"}]

(* Everything is here and nobody has noticed: two last deliveries at once. *)
LastDeliveryUnnoticed ==
  document.kind = "purchase" /\ document.status = "PARTIALLY_RECEIVED" /\ ~document.due

(* Nothing else strands a document: whatever was clicked on whatever stale *)
(* page and whatever the shelves hold, until it is finished some reader of *)
(* a fresh page has a button that moves it on, unless two last deliveries  *)
(* of a purchase met, which leaves it with no button that does anything.   *)
NeverStranded ==
  \/ document.status \in FinalStatus[document.kind]
  \/ LastDeliveryUnnoticed
  \/ \E role \in Role : \E action \in Buttons(document, role) :
       \E doc \in Outcomes(document, action, role) : doc.status # document.status

=============================================================================

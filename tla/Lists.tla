------------------------------- MODULE Lists -------------------------------
(***************************************************************************)
(* The list pages of the dashboard: a user opens one of them from the      *)
(* navigation, types a search, chooses filters, turns pages and uses the   *)
(* buttons of its rows, while other users add and remove rows.  A row is   *)
(* only counted.  Any search or filter keeps one row of the live ones.     *)
(***************************************************************************)
EXTENDS Naturals, FiniteSets, Roles

CONSTANTS
  MaxRows,   \* bound: rows of one kind in the table
  PageSize   \* DEFAULT_LIMIT

ASSUME ListsAssumption == MaxRows \in Nat /\ PageSize \in Nat \ {0}

VARIABLES
  table,  \* how many rows are live and how many softly deleted
  list    \* the page: who looks at it, what is chosen, the answer shown

listVars == <<table, list>>

Operations == {"create", "edit", "remove", "restore"}

----------------------------------------------------------------------------
(* A page: how its search box works ("none", "settles" after 300 ms, or    *)
(* "direct"), its filters, who is offered each button, and who may read    *)
(* and call the routes behind them.                                        *)

Page(search, filters, buttons, routes) ==
  [search |-> search, filters |-> filters, buttons |-> buttons,
   routes |-> routes]

Only(create, edit, remove, restore) ==
  [create |-> create, edit |-> edit, remove |-> remove, restore |-> restore]

Offered(op, roles) == [o \in Operations |-> IF o = op THEN roles ELSE {}]

NoButtons == [o \in Operations |-> {}]

(* The documents: their rows lead to the document, one button opens a new  *)
(* one.                                                                    *)
OrdersRoutes == Offered("create", Sellers)
RepairsRoutes == Offered("create", Sellers)
PurchaseOrdersRoutes == Offered("create", Managers)
TransfersRoutes == Offered("create", Managers)
CountsRoutes == Offered("create", Managers)
ReturnsRoutes == Offered("create", Sellers)

OrdersPage == Page("settles", {"status", "paymentStatus"},
                   Offered("create", Sellers), OrdersRoutes)
RepairsPage == Page("settles", {"status", "deviceType", "openOnly", "overdue"},
                    Offered("create", Sellers), RepairsRoutes)
PurchaseOrdersPage == Page("settles", {"status"},
                           Offered("create", Managers), PurchaseOrdersRoutes)
StockTransfersPage == Page("settles", {"status"},
                           Offered("create", Managers), TransfersRoutes)
StockCountsPage == Page("settles", {"status"},
                        Offered("create", Managers), CountsRoutes)
ReturnsPage == Page("none", {"status", "reason"},
                    Offered("create", Sellers), ReturnsRoutes)

(* The catalogue.                                                          *)
ProductsRoutes == Only(Managers, Managers, Managers, Managers)
CustomersRoutes == Only(Sellers, Sellers, Managers, Managers)
SuppliersRoutes == Only(Managers, Managers, Managers, Managers)
LocationsRoutes == Only(Managers, Managers, Managers, Managers)
UnitsRoutes == Only(Managers, Managers, Managers, {})

ProductsPage == Page("settles", {"category", "brand", "deleted", "sort"},
                     Only(Managers, Managers, Managers, Managers),
                     ProductsRoutes)
ProductUnitsPage == Page("direct", {"status"},
                         Only(Managers, Managers, {}, {}), UnitsRoutes)

(* EntityCrudPage, with the roles each page gives it.                      *)
EntityCrudPage(canWrite, canDelete, routes) ==
  Page("settles", {"deleted"},
       Only(canWrite, canWrite, canDelete, canDelete), routes)

(* Mutant: one set of roles for both, on a page whose routes differ.       *)
CustomersPageOneRole == EntityCrudPage(Sellers, Sellers, CustomersRoutes)

CustomersPage == EntityCrudPage(Sellers, Managers, CustomersRoutes)
SuppliersPage == EntityCrudPage(Managers, Managers, SuppliersRoutes)
LocationsPage == EntityCrudPage(Managers, Managers, LocationsRoutes)

(* The rest: "edit" is also an adjustment of stock, a mark as read.        *)
StockRoutes == Offered("edit", Managers)
FinanceRoutes == Only(Managers, Managers, Managers, {})
UsersRoutes == Only(Admins, Admins, {}, {})
SettingsRoutes == Only(Admins, Admins, Admins, {})
AutomationRoutes == Only(Managers, Managers, Managers, {})
NotificationsRoutes == Offered("edit", Role)

InventoryPage == Page("settles", {"stockStatus"}, Offered("edit", Managers),
                      StockRoutes)
FinancePage == Page("direct", {}, Only(Managers, Managers, Managers, {}),
                    FinanceRoutes)
UsersPage == Page("settles", {"role", "status"}, Only(Admins, Admins, {}, {}),
                  UsersRoutes)
SettingsPage == Page("none", {}, Only(Admins, Admins, Admins, {}),
                     SettingsRoutes)
AuditPage == Page("none", {"action", "entity"}, NoButtons, NoButtons)
NotificationsPage == Page("none", {"type", "read"}, Offered("edit", Role),
                          NotificationsRoutes)
AutomationPage == Page("none", {}, Only(Managers, Managers, Managers, {}),
                       AutomationRoutes)
ReorderPage == Page("none", {"needed"}, NoButtons, NoButtons)

Pages ==
  [orders |-> OrdersPage, repairs |-> RepairsPage,
   purchaseOrders |-> PurchaseOrdersPage, transfers |-> StockTransfersPage,
   counts |-> StockCountsPage, returns |-> ReturnsPage,
   products |-> ProductsPage, units |-> ProductUnitsPage,
   customers |-> CustomersPage, suppliers |-> SuppliersPage,
   locations |-> LocationsPage, inventory |-> InventoryPage,
   finance |-> FinancePage, users |-> UsersPage, settings |-> SettingsPage,
   audit |-> AuditPage, notifications |-> NotificationsPage,
   automation |-> AutomationPage, reorder |-> ReorderPage]

(* NAV_LINKS: the roles each link is shown to.  The notifications page is  *)
(* reached from the bell.                                                  *)
ShownTo(name) ==
  CASE name \in {"purchaseOrders", "locations", "transfers", "reorder",
                 "automation", "users", "settings"} -> Managers
    [] name = "audit" -> Admins
    [] OTHER          -> Role

(* The controllers with @Roles on their list route.                        *)
ReadableBy(name) ==
  CASE name \in {"users", "settings", "automation"} -> Managers
    [] name = "audit" -> Admins
    [] OTHER          -> Role

(* RolesGuard.                                                             *)
Allowed(name, op, role) == role \in Pages[name].routes[op]

----------------------------------------------------------------------------
(* buildPagination: the rows an answer holds and the number of pages.      *)

Narrowing == {"status", "paymentStatus", "deviceType", "openOnly", "overdue",
              "reason", "category", "brand", "stockStatus", "role", "action",
              "entity", "type", "read", "needed"}

Matching ==
  LET live == IF list.search \/ list.chosen \cap Narrowing # {}
                THEN IF table.live = 0 THEN 0 ELSE 1
                ELSE table.live
  IN  live + IF "deleted" \in list.chosen THEN table.deleted ELSE 0

PagesOf(total) == (total + PageSize - 1) \div PageSize

RowsOn(page, total) ==
  LET before == (page - 1) * PageSize
  IN  IF total <= before THEN 0
      ELSE IF total - before > PageSize THEN PageSize ELSE total - before

NoAnswerYet == [known |-> FALSE, rows |-> 0, total |-> 0]

Opened(name, role) ==
  [name |-> name, role |-> role, page |-> 1, typed |-> FALSE, search |-> FALSE,
   settling |-> Pages[name].search = "settles",
   chosen |-> IF name = "reorder" THEN {"needed"} ELSE {},
   answer |-> NoAnswerYet, left |-> FALSE, outcome |-> "none"]

(* The same, were the page number to outlive the filter.                   *)
SamePage(l) == [l EXCEPT !.answer = NoAnswerYet, !.left = FALSE]

(* left: have rows gone since the first page was asked for?                *)
FirstPage(l) == [l EXCEPT !.page = 1, !.answer = NoAnswerYet, !.left = FALSE]

(* What is typed is searched for at once, or when it has settled.          *)
Type ==
  /\ Pages[list.name].search # "none"
  /\ list' = IF Pages[list.name].search = "direct"
               THEN FirstPage([list EXCEPT !.typed = ~@, !.search = ~@])
               ELSE [list EXCEPT !.typed = ~@, !.settling = TRUE]
  /\ UNCHANGED table

Settle ==
  /\ list.settling
  /\ list' = FirstPage([list EXCEPT !.search = list.typed, !.settling = FALSE])
  /\ UNCHANGED table

(* Bound: one filter is chosen at a time.                                  *)
Choose(f) ==
  /\ f \in Pages[list.name].filters
  /\ list' = FirstPage([list EXCEPT !.chosen = IF f \in @ THEN {} ELSE {f}])
  /\ UNCHANGED table

(* Previous and Next, shown while the answer has more than one page.       *)
Turn(page) ==
  /\ list.answer.known /\ PagesOf(list.answer.total) > 1
  /\ page \in 1 .. PagesOf(list.answer.total)
  /\ page = list.page + 1 \/ page + 1 = list.page
  /\ list' = [list EXCEPT !.page = page, !.answer = NoAnswerYet]
  /\ UNCHANGED table

(* The list route answers: first, after a write, or when what is shown is  *)
(* older than 30 s.                                                        *)
Fetch ==
  /\ list' = IF list.role \in ReadableBy(list.name)
               THEN [list EXCEPT !.answer =
                       [known |-> TRUE, rows |-> RowsOn(list.page, Matching),
                        total |-> Matching]]
               ELSE [list EXCEPT !.outcome = "forbidden"]
  /\ UNCHANGED table

TableAfter(op) ==
  CASE op = "create"  -> [table EXCEPT !.live = @ + 1]
    [] op = "edit"    -> table
    [] op = "remove"  ->
         IF "deleted" \in Pages[list.name].filters
           THEN [table EXCEPT !.live = @ - 1, !.deleted = @ + 1]
           ELSE [table EXCEPT !.live = @ - 1]
    [] op = "restore" -> [table EXCEPT !.live = @ + 1, !.deleted = @ - 1]

Performable(op) ==
  CASE op = "create"  -> table.live + table.deleted < MaxRows
    [] op = "restore" -> table.deleted > 0
    [] OTHER          -> table.live > 0

(* A row's Edit and Delete are shown while it is live, Restore when it is  *)
(* deleted and the deleted rows are listed.                                *)
ButtonShown(op) ==
  /\ list.role \in Pages[list.name].buttons[op]
  /\ op # "create" => list.answer.rows > 0
  /\ op = "restore" => "deleted" \in list.chosen

(* A button: the guard, then the service, which may refuse a row that has  *)
(* changed; a success is followed by a fresh answer.                       *)
Use(op) ==
  /\ ButtonShown(op)
  /\ \/ /\ ~Allowed(list.name, op, list.role)
        /\ list' = [list EXCEPT !.outcome = "forbidden"]
        /\ UNCHANGED table
     \/ /\ Allowed(list.name, op, list.role) /\ Performable(op)
        /\ table' = TableAfter(op)
        /\ list' = [list EXCEPT !.answer = NoAnswerYet, !.outcome = "done",
                                !.left = @ \/ op \in {"remove", "restore"}]
     \/ /\ Allowed(list.name, op, list.role)
        /\ list' = [list EXCEPT !.outcome = "refused"]
        /\ UNCHANGED table

(* Another user's write.                                                   *)
WriteElsewhere(op) ==
  /\ Performable(op) /\ op # "edit"
  /\ op = "restore" => "deleted" \in Pages[list.name].filters
  /\ table' = TableAfter(op)
  /\ list' = [list EXCEPT !.left = @ \/ op \in {"remove", "restore"}]

ListsInit ==
  /\ table \in [live : 0 .. MaxRows, deleted : {0}]
  /\ \E name \in DOMAIN Pages : \E role \in ShownTo(name) :
       list = Opened(name, role)

ListsNext ==
  \/ Type \/ Settle \/ Fetch
  \/ \E f \in Pages[list.name].filters : Choose(f)
  \/ \E page \in 1 .. MaxRows : Turn(page)
  \/ \E op \in Operations : Use(op) \/ WriteElsewhere(op)

----------------------------------------------------------------------------
(* A page a user is led to, and every button it shows the user, calls      *)
(* routes that accept the user's role: the roles are written once in each  *)
(* page, once in the navigation and once in each controller.               *)
ListsAgreeOnRoles == list.outcome # "forbidden"

(* A list that has matching rows is shown empty only when rows have left   *)
(* it since its first page was asked for: a page number never outlives the *)
(* search or the filter it was chosen under.                               *)
NoFalseEmptyList ==
  list.answer.known /\ list.answer.rows = 0 /\ list.answer.total > 0
    => list.left

=============================================================================

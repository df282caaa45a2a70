------------------------------- MODULE Office -------------------------------
(***************************************************************************)
(* The rest of the system beside the shop's documents.  Its parts share no *)
(* state that their properties are about, so each behaviour is that of one *)
(* desk, chosen at the start; the others rest.  The till and the stock     *)
(* counts are desks over the shop's own orders and inventory.              *)
(***************************************************************************)
EXTENDS Shop, PointOfSale, Finance, Pages, Catalogue, Lists, Dialogs, Sessions,
        Accounts, Customers, Subscriptions, Notices, Reports

CONSTANT Scenes  \* the sets of catalogue rows worked on together

ASSUME OfficeAssumption == Scenes \subseteq SUBSET Entry

VARIABLE desk

shopVars == <<stockVars, orders, repairVars, transfers, countVars>>
backVars == <<financeVars, pageVars, catalogueVars, listVars, dialogVars>>
peopleVars == <<sessionVars, accountVars, customerVars>>
headVars == <<subscriptionVars, noticeVars, reportVars>>

officeVars == <<desk, shopVars, tills, backVars, peopleVars, headVars>>

OrdersDesk ==
  /\ desk = "orders"
  /\ \/ OrdersNext
     \/ StockNext /\ UNCHANGED orders
  /\ UNCHANGED <<desk, repairVars, transfers, countVars, tills, backVars, peopleVars, headVars>>

RepairsDesk ==
  /\ desk = "repairs"
  /\ \/ RepairsNext
     \/ StockNext /\ UNCHANGED repairVars
  /\ UNCHANGED <<desk, orders, transfers, countVars, tills, backVars, peopleVars, headVars>>

CountsDesk ==
  /\ desk = "counts"
  /\ FloorNext
  /\ UNCHANGED <<desk, orders, repairVars, transfers, tills, backVars, peopleVars, headVars>>

TillDesk ==
  /\ desk = "till"
  /\ \/ TillNext
     \/ StockNext /\ UNCHANGED <<orders, tills>>
  /\ UNCHANGED <<desk, repairVars, transfers, countVars, backVars, peopleVars, headVars>>

BackDesks ==
  /\ \/ /\ desk = "expenses" /\ FinanceNext
        /\ UNCHANGED <<pageVars, catalogueVars, listVars, dialogVars>>
     \/ /\ desk = "pages" /\ PagesNext
        /\ UNCHANGED <<financeVars, catalogueVars, listVars, dialogVars>>
     \/ /\ desk = "catalogue" /\ CatalogueNext
        /\ UNCHANGED <<financeVars, pageVars, listVars, dialogVars>>
     \/ /\ desk = "lists" /\ ListsNext
        /\ UNCHANGED <<financeVars, pageVars, catalogueVars, dialogVars>>
     \/ /\ desk = "dialogs" /\ DialogsNext
        /\ UNCHANGED <<financeVars, pageVars, catalogueVars, listVars>>
  /\ UNCHANGED <<desk, shopVars, tills, peopleVars, headVars>>

PeopleDesks ==
  /\ \/ /\ desk = "sessions" /\ SessionsNext
        /\ UNCHANGED <<accountVars, customerVars>>
     \/ /\ desk = "accounts" /\ AccountsNext
        /\ UNCHANGED <<sessionVars, customerVars>>
     \/ /\ desk = "customers" /\ CustomersNext
        /\ UNCHANGED <<sessionVars, accountVars>>
  /\ UNCHANGED <<desk, shopVars, tills, backVars, headVars>>

HeadDesks ==
  /\ \/ /\ desk = "subscriptions" /\ SubscriptionsNext
        /\ UNCHANGED <<noticeVars, reportVars>>
     \/ /\ \/ desk = "notices" /\ ShopFloorNext
           \/ desk = "rules" /\ RulesNext
        /\ UNCHANGED <<subscriptionVars, reportVars>>
     \/ /\ \/ desk = "ledger" /\ LedgerNext
           \/ desk = "shelves" /\ ShelvesNext
        /\ UNCHANGED <<subscriptionVars, noticeVars>>
  /\ UNCHANGED <<desk, shopVars, tills, backVars, peopleVars>>

OfficeInit ==
  /\ desk \in {"orders", "repairs", "counts", "till", "expenses", "pages", "catalogue",
               "lists", "dialogs", "sessions", "accounts", "customers", "subscriptions", "notices",
               "rules", "ledger", "shelves"}
  /\ Init /\ TillsInit /\ FinanceInit
  /\ IF desk = "pages" THEN PagesInit
     ELSE /\ document = NewDocument("order")
          /\ tabs = [t \in Tab |-> NewTab("ADMIN", document)]
  /\ \E scene \in IF desk = "catalogue" THEN Scenes ELSE {{}} : CatalogueInit(scene)
  /\ IF desk = "lists" THEN ListsInit
     ELSE /\ table = [live |-> 0, deleted |-> 0]
          /\ list = Opened("orders", "ADMIN")
  /\ IF desk = "dialogs" THEN DialogsInit
     ELSE /\ revisions = [e \in ListedRow |-> 0] /\ fetched = revisions
          /\ screen = [kind |-> EntityDialog, open |-> FALSE, entry |-> NewRow]
          /\ mounted = NoForm
          /\ saves = [s \in Save |-> NoSave]
  /\ SessionsInit /\ AccountsInit /\ CustomersInit
  /\ SubscriptionsInit /\ NoticesInit /\ ReportsInit

OfficeNext ==
  \/ OrdersDesk \/ RepairsDesk \/ CountsDesk
  \/ TillDesk \/ BackDesks \/ PeopleDesks \/ HeadDesks

OfficeSpec == OfficeInit /\ [][OfficeNext]_officeVars

=============================================================================

---------------------------- MODULE OfficeProofs ----------------------------
(***************************************************************************)
(* The whole office: its orders, repairs, counts and tills are those of    *)
(* the shop, each other desk behaves as it does by itself, and so what was *)
(* proved of each of them holds of all of them together.                   *)
(***************************************************************************)
EXTENDS Office, ShopProofs, DesksProofs

----------------------------------------------------------------------------
(* What a step of the office is to each of its parts.                      *)

PeopleStep ==
  /\ [SessionsNext]_sessionVars
  /\ [AccountsNext]_accountVars
  /\ [CustomersNext]_customerVars

BackStep ==
  /\ [FinanceNext]_financeVars
  /\ [PagesNext]_pageVars
  /\ [CatalogueNext]_catalogueVars
  /\ [ListsNext]_listVars
  /\ [DialogsNext]_dialogVars

HeadStep ==
  /\ [SubscriptionsNext]_subscriptionVars
  /\ [ShopFloorNext \/ RulesNext]_noticeVars
  /\ [LedgerNext \/ ShelvesNext]_reportVars

LEMMA OthersRest ==
  ASSUME [OfficeNext]_officeVars
  PROVE  PeopleStep /\ BackStep /\ HeadStep /\ [SalesNext]_<<orders, tills>>
<1>1. CASE UNCHANGED officeVars
  <2>1. UNCHANGED <<shopVars, tills, backVars, peopleVars, headVars>>
    BY <1>1 DEF officeVars
  <2> QED
    BY <2>1 DEF PeopleStep, BackStep, HeadStep, shopVars, backVars, peopleVars, headVars
<1>2. CASE OrdersDesk \/ RepairsDesk \/ CountsDesk \/ TillDesk
  <2>1. UNCHANGED <<backVars, peopleVars, headVars>>
    BY <1>2 DEF OrdersDesk, RepairsDesk, CountsDesk, TillDesk
  <2>2. [SalesNext]_<<orders, tills>>
    BY <1>2 DEF OrdersDesk, RepairsDesk, CountsDesk, TillDesk, SalesNext
  <2> QED
    BY <2>1, <2>2 DEF PeopleStep, BackStep, HeadStep, backVars, peopleVars, headVars
<1>3. CASE BackDesks
  <2>1. UNCHANGED <<shopVars, tills, peopleVars, headVars>>
    BY <1>3 DEF BackDesks
  <2>2. BackStep
    BY <1>3 DEF BackDesks, BackStep
  <2> QED
    BY <2>1, <2>2 DEF PeopleStep, HeadStep, shopVars, peopleVars, headVars
<1>4. CASE PeopleDesks
  <2>1. UNCHANGED <<shopVars, tills, backVars, headVars>>
    BY <1>4 DEF PeopleDesks
  <2>2. PeopleStep
    BY <1>4 DEF PeopleDesks, PeopleStep
  <2> QED
    BY <2>1, <2>2 DEF BackStep, HeadStep, shopVars, backVars, headVars
<1>5. CASE HeadDesks
  <2>1. UNCHANGED <<shopVars, tills, backVars, peopleVars>>
    BY <1>5 DEF HeadDesks
  <2>2. HeadStep
    BY <1>5 DEF HeadDesks, HeadStep
  <2> QED
    BY <2>1, <2>2 DEF BackStep, PeopleStep, shopVars, backVars, peopleVars
<1> QED
  BY <1>1, <1>2, <1>3, <1>4, <1>5 DEF OfficeNext

----------------------------------------------------------------------------
(* The shop.                                                               *)

(* What a till does is an operation of the shop, or happens on its page.   *)
LEMMA TillsOrder ==
  ASSUME TillsInv, TillNext
  PROVE  OrdersNext \/ UNCHANGED <<orders, stockVars>>
<1>1. PICK t \in Till : TillStep(t)
  BY DEF TillNext, TillStep
<1>2. tills[t].order # NoSale => tills[t].order \in Order
  BY DEF TillsInv, TillRecord
<1>3. CASE \E o \in Order : StartSale(t, o)
  BY <1>3, StartIsEdit DEF OrdersNext
<1>4. CASE EditCart(t)
  BY <1>4, CartIsEdit DEF OrdersNext
<1>5. CASE CancelSale(t)
  BY <1>2, <1>5 DEF CancelSale, At, OrdersNext
<1>6. CASE ChargeDraft(t)
  BY <1>2, <1>6 DEF ChargeDraft, At, OrdersNext
<1>7. CASE \E amount \in 1..MaxAmount : Pay(t, amount)
  BY <1>2, <1>7 DEF Pay, At, OrdersNext
<1>8. CASE CompleteSale(t) \/ CompleteUnheard(t)
  BY <1>2, <1>8 DEF CompleteSale, CompleteUnheard, At, OrdersNext
<1>9. CASE \/ \E o \in Order : ResumeSale(t, o)
           \/ Reload(t) \/ LeaveSale(t) \/ ChargeConfirmed(t) \/ CloseDialog(t)
           \/ LoadPaid(t) \/ FailRequest(t)
  BY <1>9 DEF ResumeSale, Reload, LeaveSale, ChargeConfirmed, CloseDialog, LoadPaid, FailRequest
<1> QED
  BY <1>1, <1>3, <1>4, <1>5, <1>6, <1>7, <1>8, <1>9 DEF TillStep

LEMMA ShopMoves == TillsInv /\ [OfficeNext]_officeVars => [Next]_vars
<1> SUFFICES ASSUME TillsInv, [OfficeNext]_officeVars PROVE [Next]_vars
  OBVIOUS
<1>1. CASE OrdersDesk
  BY <1>1 DEF OrdersDesk, Next, FloorNext
<1>2. CASE RepairsDesk
  BY <1>2 DEF RepairsDesk, Next, FloorNext
<1>3. CASE CountsDesk
  BY <1>3 DEF CountsDesk, Next
<1>4. CASE TillDesk
  BY <1>4, TillsOrder DEF TillDesk, Next, FloorNext, vars
<1>5. CASE BackDesks \/ PeopleDesks \/ HeadDesks \/ UNCHANGED officeVars
  <2>1. UNCHANGED shopVars
    BY <1>5 DEF BackDesks, PeopleDesks, HeadDesks, officeVars
  <2> QED
    BY <2>1 DEF shopVars, vars
<1> QED
  BY <1>1, <1>2, <1>3, <1>4, <1>5 DEF OfficeNext

LEMMA TillsKeepSound == TillsInv /\ [OfficeNext]_officeVars => TillsInv'
BY OthersRest, TillsInductive

LEMMA OfficeStarts ==
  ASSUME OfficeInit
  PROVE  /\ Init /\ TillsInit /\ FinanceInit /\ SessionsInit /\ AccountsInit /\ CustomersInit
         /\ SubscriptionsInit /\ NoticesInit /\ ReportsInit
BY DEF OfficeInit

(* The office's orders, repairs, counts and rows behave as the shop's, so  *)
(* all that is proved of the shop holds of them - with tills at work, and  *)
(* with nobody transferring anything.                                      *)
THEOREM OfficeRunsTheShop == OfficeSpec => Spec
<1>1. OfficeInit => Init /\ TillsInv
  BY OfficeStarts, TillsStartSound DEF Init
<1> QED
  BY <1>1, TillsKeepSound, ShopMoves, PTL DEF OfficeSpec, Spec

----------------------------------------------------------------------------
(* The other desks.                                                        *)

LEMMA PagesOpen == OfficeInit => PagesInit
<1> SUFFICES ASSUME OfficeInit PROVE PagesInit
  OBVIOUS
<1>1. "order" \in DocumentKind /\ "ADMIN" \in Role
  BY DEF DocumentKind, Role
<1>2. CASE desk = "pages"
  BY <1>2 DEF OfficeInit
<1>3. CASE desk # "pages"
  <2>1. document = NewDocument("order") /\ tabs = [t \in Tab |-> NewTab("ADMIN", document)]
    BY <1>3 DEF OfficeInit
  <2>2. NewTab("ADMIN", document) \in {NewTab(r, document) : r \in Role}
    BY <1>1
  <2> QED
    BY <1>1, <2>1, <2>2 DEF PagesInit
<1> QED
  BY <1>2, <1>3

LEMMA ListsOpen == OfficeInit => ListsInit
<1> SUFFICES ASSUME OfficeInit PROVE ListsInit
  OBVIOUS
<1>1. "orders" \in DOMAIN Pages /\ "ADMIN" \in ShownTo("orders")
  BY PagesAreNamed DEF PageName, ShownTo, Role
<1>2. CASE desk = "lists"
  BY <1>2 DEF OfficeInit
<1>3. CASE desk # "lists"
  <2>1. table = [live |-> 0, deleted |-> 0] /\ list = Opened("orders", "ADMIN")
    BY <1>3 DEF OfficeInit
  <2>2. 0 \in 0 .. MaxRows
    BY ListsAssumption
  <2> QED
    BY <1>1, <2>1, <2>2 DEF ListsInit
<1> QED
  BY <1>2, <1>3

LEMMA DialogsOpen == OfficeInit => DialogsInit
<1> SUFFICES ASSUME OfficeInit PROVE DialogsInit
  OBVIOUS
<1>1. EntityDialog \in DialogKinds
  BY DEF DialogKinds
<1>2. CASE desk = "dialogs"
  BY <1>2 DEF OfficeInit
<1>3. CASE desk # "dialogs"
  BY <1>1, <1>3 DEF OfficeInit, DialogsInit
<1> QED
  BY <1>2, <1>3

LEMMA CatalogueOpens == OfficeInit => CatalogueInv
<1> SUFFICES ASSUME OfficeInit PROVE CatalogueInv
  OBVIOUS
<1>1. PICK scene \in IF desk = "catalogue" THEN Scenes ELSE {{}} : CatalogueInit(scene)
  BY DEF OfficeInit
<1>2. scene \in SUBSET Entry
  BY <1>1, OfficeAssumption
<1> QED
  BY <1>1, <1>2, CatalogueStarts

(* Each of these parts behaves, in the office, as it does by itself.       *)
THEOREM DesksWorkAlone ==
  OfficeSpec => /\ TillsSpec /\ ExpensesSpec
                /\ PagesSpec /\ ListsSpec /\ DialogsSpec
                /\ SessionsSpec /\ AccountsSpec /\ CustomersSpec /\ SubscriptionsSpec
<1>1. OfficeInit => OrdersInit
  BY OfficeStarts DEF Init
<1>2. [OfficeNext]_officeVars =>
        /\ [SalesNext]_<<orders, tills>> /\ [FinanceNext]_financeVars
        /\ [PagesNext]_pageVars /\ [ListsNext]_listVars /\ [DialogsNext]_dialogVars
        /\ [SessionsNext]_sessionVars /\ [AccountsNext]_accountVars
        /\ [CustomersNext]_customerVars /\ [SubscriptionsNext]_subscriptionVars
  BY OthersRest DEF PeopleStep, BackStep, HeadStep
<1>3. OfficeInit => /\ TillsInit /\ FinanceInit /\ SessionsInit /\ AccountsInit /\ CustomersInit
                    /\ SubscriptionsInit
  BY OfficeStarts
<1> QED
  BY <1>1, <1>2, <1>3, PagesOpen, ListsOpen, DialogsOpen, PTL
  DEF OfficeSpec, TillsSpec, ExpensesSpec, PagesSpec, ListsSpec, DialogsSpec,
      SessionsSpec, AccountsSpec, CustomersSpec, SubscriptionsSpec

(* The catalogue, whichever rows are worked on together.                   *)
LEMMA CatalogueStaysSound == CatalogueInv /\ [OfficeNext]_officeVars => CatalogueInv'
BY OthersRest, CatalogueInductive DEF BackStep

(* Notices: one desk tells people, the other writes rules and runs them.   *)
NoticesInv == OverdueInv /\ RulesInv

LEMMA EventsTell ==
  ASSUME OverdueInv, RulesNext PROVE OverdueInv'
<1>1. ASSUME UNCHANGED inbox PROVE OverdueInv'
  BY <1>1 DEF OverdueInv, InboxTyped, OverdueToldOnce
<1>2. CASE OpenRule \/ EditDialog \/ SaveRule \/ CancelRule \/ RemoveRule
  BY <1>1, <1>2 DEF OpenRule, EditDialog, SaveRule, CancelRule, RemoveRule
<1>3. ASSUME NEW trigger \in Trigger, Occur(trigger) PROVE OverdueInv'
  BY <1>3, AnnounceKeeps DEF Occur
<1>4. "ORDER_COMPLETED" \in Trigger /\ "PURCHASE_RECEIVED" \in Trigger
  BY DEF Trigger
<1> QED
  BY <1>2, <1>3, <1>4 DEF RulesNext

LEMMA ShopFloorWritesNoRule ==
  ASSUME RulesInv, ShopFloorNext PROVE RulesInv'
<1>1. UNCHANGED <<rule, dialog>>
  BY DEF ShopFloorNext, TakeStock, PutStock, NotifyLowStock, CountApplied, RepairReady,
         CheckOverdueRepairs, Promise, Assign, Deactivate, ReadOne, ReadAll, MarkRead, Announce
<1> QED
  BY <1>1 DEF RulesInv

LEMMA NoticesStaySound == NoticesInv /\ [OfficeNext]_officeVars => NoticesInv'
<1> SUFFICES ASSUME NoticesInv, [ShopFloorNext \/ RulesNext]_noticeVars PROVE NoticesInv'
  BY OthersRest DEF HeadStep
<1> QED
  BY OverdueInductive, RulesInductive, EventsTell, ShopFloorWritesNoRule DEF NoticesInv

(* Reports: one desk sells, the other moves stock.                         *)
ReportsInv == LedgerInv /\ ShelvesInv /\ StockInv

LEMMA ReportsStart == ReportsInit => ReportsInv
<1>1. ReportsInit => LedgerInv
  BY ReportsAssumption DEF ReportsInit, LedgerInv, Day
<1>2. ReportsInit => ShelvesInv
  BY Products DEF ReportsInit, ShelvesInv, ShelvesTyped, Committed, AvailableStock
<1>3. ReportsInit => StockInv
  BY Products DEF ReportsInit, StockInv
<1> QED
  BY <1>1, <1>2, <1>3 DEF ReportsInv

LEMMA SellingMovesNothing ==
  ASSUME ReportsInv, LedgerNext PROVE ReportsInv'
<1>1. UNCHANGED shelfVars
  BY DEF LedgerNext, DayPasses, Sell
<1>2. LedgerInv'
  BY LedgerInductive DEF ReportsInv
<1>3. ShelvesInv' /\ StockInv'
  BY <1>1 DEF ReportsInv, ShelvesInv, ShelvesTyped, Committed, AvailableStock, StockInv, shelfVars
<1> QED
  BY <1>2, <1>3 DEF ReportsInv

LEMMA MovingSellsNothing ==
  ASSUME ReportsInv, ShelvesNext PROVE ReportsInv'
<1>1. UNCHANGED <<now, sales>>
  BY DEF ShelvesNext, Arrive, WriteOff, Promised, Ship, GiveUp, DraftSuggested, Place, Revive,
         RemoveProduct, RestoreProduct, SendOn, Deliver, CancelPurchase
<1>2. LedgerInv'
  BY <1>1 DEF ReportsInv, LedgerInv
<1> QED
  BY <1>2, ShelvesInductive, StockInductive DEF ReportsInv

LEMMA ReportsStaySound == ReportsInv /\ [OfficeNext]_officeVars => ReportsInv'
<1> SUFFICES ASSUME ReportsInv, [LedgerNext \/ ShelvesNext]_reportVars PROVE ReportsInv'
  BY OthersRest DEF HeadStep
<1>1. CASE UNCHANGED reportVars
  BY <1>1, LedgerInductive, ShelvesInductive, StockInductive DEF ReportsInv
<1> QED
  BY <1>1, SellingMovesNothing, MovingSellsNothing

----------------------------------------------------------------------------
(* All of the office.                                                      *)

(* Money: what orders, repairs, expenses and trials add up to.             *)
THEOREM OfficeBooksAreSound ==
  OfficeSpec => []MoneyIsSound /\ []ExpenseHasOneEntry /\ []ExtensionsAllCount
BY OfficeRunsTheShop, DesksWorkAlone, MoneyAlwaysSound, ExpensesHaveOneEntry, NoExtensionIsLost,
   PTL

(* Goods: no till hands them over unpaid, every claim on the shelves can   *)
(* be honoured, a count is reviewed whole, and suggestions never buy more  *)
(* than the target and what came unasked for.                              *)
THEOREM OfficeGoodsAreSound ==
  OfficeSpec => /\ GoodsArePaidFor
                /\ []ReservedIsClaimed /\ []ClaimsHonoured
                /\ []ReviewIsComplete /\ []NeverOverstocked
<1>1. OfficeInit => ReportsInv
  BY OfficeStarts, ReportsStart
<1>2. ReportsInv => NeverOverstocked
  BY Products
  DEF ReportsInv, ShelvesInv, ShelvesTyped, NeverOverstocked, Committed, AvailableStock
<1>3. OfficeSpec => []NeverOverstocked
  BY <1>1, <1>2, ReportsStaySound, PTL DEF OfficeSpec
<1> QED
  BY <1>3, OfficeRunsTheShop, DesksWorkAlone, GoodsAlwaysPaidFor, ReservedAlwaysClaimed,
     ClaimsAlwaysHonoured, ReviewAlwaysComplete, PTL

(* People: a session ends for a reason, a retried call is carried out      *)
(* once, somebody can always administer, a second default address takes a  *)
(* second request, and nobody is told twice of an overdue repair or waits  *)
(* for a rule that cannot fire.                                            *)
THEOREM OfficePeopleAreServed ==
  OfficeSpec => /\ []RefusedForAReason /\ []CarriedOutOnce /\ []AdminRemains
                /\ []TwoDefaultsTakeTwoRequests
                /\ []OverdueToldOnce /\ []RulesCanFire
<1>1. OfficeInit => NoticesInv
  <2>1. NoticesInit => OverdueInv
    BY DEF NoticesInit, OverdueInv, InboxTyped, OverdueToldOnce
  <2>2. NoticesInit => RulesInv
    BY DEF NoticesInit, RulesInv
  <2> QED
    BY <2>1, <2>2, OfficeStarts DEF NoticesInv
<1>2. NoticesInv => OverdueToldOnce /\ RulesCanFire
  BY DEF NoticesInv, OverdueInv, RulesInv, RulesCanFire, RuleFits
<1>3. OfficeSpec => []OverdueToldOnce /\ []RulesCanFire
  BY <1>1, <1>2, NoticesStaySound, PTL DEF OfficeSpec
<1> QED
  BY <1>3, DesksWorkAlone, NeverReusedByItself, RetriesRunOnce, AdminAlwaysRemains,
     OneDefaultAddress, PTL

(* Pages: every button works and moves its document on, those of an old    *)
(* page do no harm, no list that has rows is shown empty, roles agree, and *)
(* a code is never used twice.                                             *)
THEOREM OfficePagesAreSound ==
  OfficeSpec => /\ []ButtonsWork /\ []OutdatedButtonsAreRefused /\ []NeverStranded
                /\ []ListsAgreeOnRoles /\ []NoFalseEmptyList
                /\ []RestoreNeverCollides
<1>1. OfficeSpec => []RestoreNeverCollides
  BY CatalogueOpens, CatalogueStaysSound, InvImpliesNoCollision, PTL DEF OfficeSpec
<1> QED
  BY <1>1, DesksWorkAlone, OfferedMeansAccepted, OldPagesDoNoHarm, NoDocumentIsStranded,
     NobodyMeetsForbidden, EmptyMeansEmpty, PTL

(* What is filled in on a page with rows is saved to the row it is of.     *)
THEOREM OfficeFormsAreTheirRows ==
  ASSUME ListedRow # {} PROVE OfficeSpec => []FormsSaveTheirOwn
BY FormsAreTheirRows, DesksWorkAlone, PTL

(* Reports: the stock report's two breakdowns count the same units, and    *)
(* the dashboard's chart has each sale of its days once - whoever made it. *)
THEOREM OfficeReportsAgree == OfficeSpec => []BreakdownsAgree /\ []ChartAddsUp
<1>1. OfficeInit => ReportsInv
  BY OfficeStarts, ReportsStart
<1>2. ReportsInv => BreakdownsAgree /\ ChartAddsUp
  BY BreakdownsFollow, ChartFollows DEF ReportsInv
<1> QED
  BY <1>1, <1>2, ReportsStaySound, PTL DEF OfficeSpec

=============================================================================

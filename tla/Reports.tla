------------------------------ MODULE Reports ------------------------------
(***************************************************************************)
(* The figures: the dashboard's sales, chart and stock summary, the stock  *)
(* report by category and by location, and the reorder suggestions, over a *)
(* database that sales, receipts, transfers and removals keep changing.    *)
(* Every category holds one product here, so a product's figures are its   *)
(* category's.                                                             *)
(***************************************************************************)
EXTENDS Naturals, FiniteSets

CONSTANTS
  Tenant,  \* the tenants of the database
  Article,
  Reordered, \* the products with a reorder point
  Shelf,
  DefaultShelf,
  ChartDays,     \* CHART_DAYS, 14 in the code
  ReorderPoint,
  TargetStock,
  LastSalesDay,  \* bound: the days the model lives through
  MaxUnits,      \* bound: units of a product at one location
  MaxUnplanned   \* bound: units of a product that arrive unasked for

ASSUME ReportsAssumption ==
  /\ IsFiniteSet(Tenant) /\ IsFiniteSet(Article) /\ IsFiniteSet(Shelf)
  /\ DefaultShelf \in Shelf /\ Reordered \subseteq Article
  /\ ChartDays \in Nat \ {0}
  /\ ReorderPoint \in Nat /\ TargetStock \in Nat
  /\ MaxUnits \in Nat /\ MaxUnplanned \in Nat /\ LastSalesDay \in Nat

VARIABLES
  now,       \* today
  sales,     \* SALE rows of the ledger, by organization and day
  quantity,  \* units of each product at each location (of one organization),
             \* all of which have had some of it, and so have a row for it
  reserved,  \* those at the default location that are promised
  removed,   \* products deleted softly
  purchase,  \* units of each product a buyer has noted or drafted, and those to come
  unplanned  \* units of each product that no suggestion had counted

shelfVars == <<quantity, reserved, removed, purchase, unplanned>>

reportVars == <<now, sales, shelfVars>>

Day == 0..LastSalesDay

ReportsInit ==
  /\ now = 0
  /\ sales = [o \in Tenant |-> [d \in Day |-> 0]]
  /\ quantity = [p \in Article |-> [l \in Shelf |-> 0]]
  /\ reserved = [p \in Article |-> 0]
  /\ removed = {}
  /\ unplanned = [p \in Article |-> 0]
  /\ purchase = [p \in Article |-> [draft |-> 0, incoming |-> 0]]

----------------------------------------------------------------------------
(* The figures.                                                            *)

(* The sum of f[i] over i in S, none of them negative: counted one by one. *)
SumOver(f, S) == Cardinality(UNION {{i} \X (1..f[i]) : i \in S})

(* FinanceService.summary and salesTotal, through the tenant's client.     *)
SalesTotal(o, from, to) == SumOver(sales[o], {d \in Day : from <= d /\ d <= to})

(* chartStart: midnight, ChartDays - 1 days before today.                  *)
ChartStart(today) == IF today + 1 > ChartDays THEN today + 1 - ChartDays ELSE 0

(* The raw query behind the chart, which is not the tenant's client's, and *)
(* fillChartDays: one point for each of the last ChartDays days.           *)
ChartRows == [d \in Day |->
  IF d >= ChartStart(now)
  THEN SumOver([o \in Tenant |-> sales[o][d]], Tenant) ELSE 0]

SalesChart == [d \in {d \in Day : now < d + ChartDays /\ d <= now} |-> ChartRows[d]]

(* A row of the stock report by category: every location's stock.          *)
CategoryUnits(p) == IF p \in removed THEN 0 ELSE SumOver(quantity[p], Shelf)

LocationUnitsOfAll(l) == SumOver([p \in Article |-> quantity[p][l]], Article)

(* A row of the report by location.                                        *)
LocationUnits(l) == SumOver([p \in Article |-> quantity[p][l]], Article \ removed)

(* StockService.summary: the default location only.                        *)
TotalUnits ==
  SumOver([p \in Article |-> quantity[p][DefaultShelf]], Article \ removed)

AvailableStock(p) == quantity[p][DefaultShelf] - reserved[p]

(* Mutant: what is on its way is forgotten.                                *)
ProjectedOnHand(p) == AvailableStock(p)

(* findReorderSuggestions: what is available at the default location, and  *)
(* what is still to come on purchase orders that were placed.              *)
Projected(p) == AvailableStock(p) + purchase[p].incoming

SuggestedReorderQuantity(p) ==
  IF Projected(p) <= ReorderPoint /\ Projected(p) < TargetStock
  THEN TargetStock - Projected(p) ELSE 0

----------------------------------------------------------------------------
(* What happens meanwhile.                                                 *)

DayPasses ==
  /\ now < LastSalesDay
  /\ now' = now + 1
  /\ UNCHANGED <<sales, shelfVars>>

(* A sale puts its row in the ledger of its organization.                  *)
Sell(o) ==
  /\ sales[o][now] = 0
  /\ sales' = [sales EXCEPT ![o][now] = 1]
  /\ UNCHANGED <<now, shelfVars>>

(* A unit no suggestion counts on turns up for p: n of them are noted.     *)
Unplanned(p, n) ==
  /\ unplanned[p] + n <= MaxUnplanned
  /\ unplanned' = [unplanned EXCEPT ![p] = unplanned[p] + n]

(* A unit comes in that was not ordered from a supplier on a suggestion:   *)
(* returned, found by a count, adjusted upwards, bought all the same.      *)
Arrive(p) ==
  /\ quantity[p][DefaultShelf] < MaxUnits
  /\ quantity' = [quantity EXCEPT ![p][DefaultShelf] = quantity[p][DefaultShelf] + 1]
  /\ Unplanned(p, 1)
  /\ UNCHANGED <<now, sales, reserved, removed, purchase>>

(* A unit is missed by a count, or adjusted away.                          *)
WriteOff(p) ==
  /\ AvailableStock(p) > 0
  /\ quantity' = [quantity EXCEPT ![p][DefaultShelf] = quantity[p][DefaultShelf] - 1]
  /\ UNCHANGED <<now, sales, reserved, removed, purchase, unplanned>>

(* A unit is promised, to an order, a repair or a transfer, and leaves.    *)
Promised(p) ==
  /\ p \in Reordered
  /\ AvailableStock(p) > 0
  /\ reserved' = [reserved EXCEPT ![p] = reserved[p] + 1]
  /\ UNCHANGED <<now, sales, quantity, removed, purchase, unplanned>>

Ship(p) ==
  /\ reserved[p] > 0
  /\ quantity' = [quantity EXCEPT ![p][DefaultShelf] = quantity[p][DefaultShelf] - 1]
  /\ reserved' = [reserved EXCEPT ![p] = reserved[p] - 1]
  /\ UNCHANGED <<now, sales, removed, purchase, unplanned>>

(* The promise is called off.                                              *)
GiveUp(p) ==
  /\ reserved[p] > 0
  /\ reserved' = [reserved EXCEPT ![p] = reserved[p] - 1]
  /\ Unplanned(p, 1)
  /\ UNCHANGED <<now, sales, quantity, removed, purchase>>

(* A unit is transferred from one location to another.                     *)
SendOn(p, k, l) ==
  /\ k # l
  /\ IF k = DefaultShelf THEN AvailableStock(p) > 0 ELSE quantity[p][k] > 0
  /\ quantity[p][l] < MaxUnits
  /\ quantity' = [quantity EXCEPT ![p][k] = quantity[p][k] - 1, ![p][l] = quantity[p][l] + 1]
  /\ Unplanned(p, IF l = DefaultShelf THEN 1 ELSE 0)
  /\ UNCHANGED <<now, sales, reserved, removed, purchase>>

(* A buyer takes up what is suggested, from the moment it is read to when  *)
(* the draft is placed - the suggestion looks at no draft, his own or      *)
(* another's, so what is open already has been overlooked.                 *)
DraftSuggested(p) ==
  /\ p \in Reordered \ removed
  /\ SuggestedReorderQuantity(p) > 0
  /\ purchase[p].draft + SuggestedReorderQuantity(p) <= MaxUnits
  /\ purchase' = [purchase EXCEPT
       ![p].draft = purchase[p].draft + SuggestedReorderQuantity(p)]
  /\ Unplanned(p, purchase[p].draft)
  /\ UNCHANGED <<now, sales, quantity, reserved, removed>>

Place(p) ==
  /\ purchase' = [purchase EXCEPT
       ![p] = [draft |-> 0, incoming |-> purchase[p].incoming + purchase[p].draft]]
  /\ UNCHANGED <<now, sales, quantity, reserved, removed, unplanned>>

(* A draft, or the n units still to come on an order, are given up.        *)
CancelPurchase(p, n) ==
  /\ n <= purchase[p].incoming
  /\ \/ purchase' = [purchase EXCEPT ![p].draft = 0]
     \/ purchase' = [purchase EXCEPT ![p].incoming = purchase[p].incoming - n]
  /\ UNCHANGED <<now, sales, quantity, reserved, removed, unplanned>>

(* A delivery that was under way when its order was cancelled writes its   *)
(* status over the cancellation: a unit of it is to come again.            *)
Revive(p) ==
  /\ p \in Reordered /\ purchase[p].incoming < MaxUnits
  /\ purchase' = [purchase EXCEPT ![p].incoming = purchase[p].incoming + 1]
  /\ Unplanned(p, 1)
  /\ UNCHANGED <<now, sales, quantity, reserved, removed>>

(* A delivery of n units, to the default location.                         *)
Deliver(p, n) ==
  /\ n <= purchase[p].incoming
  /\ quantity[p][DefaultShelf] + n <= MaxUnits + TargetStock
  /\ quantity' = [quantity EXCEPT ![p][DefaultShelf] = quantity[p][DefaultShelf] + n]
  /\ purchase' = [purchase EXCEPT ![p].incoming = purchase[p].incoming - n]
  /\ UNCHANGED <<now, sales, reserved, removed, unplanned>>

(* remove: refused while the one inventory row that the product is read    *)
(* with - any of its rows, the query names no location - has units of it.  *)
RemoveProduct(p) ==
  /\ p \notin removed
  /\ \E l \in Shelf : quantity[p][l] = 0
  /\ removed' = removed \cup {p}
  /\ UNCHANGED <<now, sales, quantity, reserved, purchase, unplanned>>

RestoreProduct(p) ==
  /\ p \in removed
  /\ removed' = removed \ {p}
  /\ UNCHANGED <<now, sales, quantity, reserved, purchase, unplanned>>

LedgerNext == DayPasses \/ \E o \in Tenant : Sell(o)

LedgerSpec == ReportsInit /\ [][LedgerNext]_reportVars

ShelvesNext ==
  \E p \in Article :
    \/ Arrive(p) \/ WriteOff(p) \/ Promised(p) \/ Ship(p) \/ GiveUp(p)
    \/ DraftSuggested(p) \/ Place(p) \/ Revive(p) \/ RemoveProduct(p) \/ RestoreProduct(p)
    \/ \E k, l \in Shelf : SendOn(p, k, l)
    \/ \E n \in 1..MaxUnits : Deliver(p, n) \/ CancelPurchase(p, n)

ShelvesSpec == ReportsInit /\ [][ShelvesNext]_reportVars

----------------------------------------------------------------------------
(* Properties.                                                             *)

(* What the comment over the dashboard's figures says, "the dashboard can  *)
(* never disagree with the page a figure came from": each day the chart    *)
(* shows is what the finance page of every organization says of that day.  *)
ChartAgreesWithLedger ==
  \A o \in Tenant, d \in DOMAIN SalesChart : SalesChart[d] = SalesTotal(o, d, d)

(* What holds of the code: a day the chart shows adds up what the ledgers  *)
(* of all organizations say of it - the right days, at either end of the   *)
(* window too, but for nobody in particular.                               *)
ChartAddsUp ==
  \A d \in DOMAIN SalesChart :
    SalesChart[d] = SumOver([o \in Tenant |-> SalesTotal(o, d, d)], Tenant)

(* The categories of the stock report and its locations are two breakdowns *)
(* of the same units, and the summary beside them is the default           *)
(* location's row - whatever moved, was removed and was restored.          *)
BreakdownsAgree ==
  /\ SumOver([p \in Article |-> CategoryUnits(p)], Article)
       = SumOver([l \in Shelf |-> LocationUnits(l)], Shelf)
  /\ TotalUnits = LocationUnits(DefaultShelf)

(* Whoever buys only what is suggested never has more available and to     *)
(* come than the target and whatever no suggestion could have counted -    *)
(* units returned, found, transferred in, taken back from a promise, to    *)
(* come after all, or on drafts that were open - however many purchase     *)
(* orders that takes, in whatever parts they are delivered, whichever are  *)
(* cancelled and whatever is sold or written off in between.               *)
NeverOverstocked ==
  \A p \in Reordered :
    AvailableStock(p) + purchase[p].incoming <= TargetStock + unplanned[p]

(* What the comment of remove says it is there for: "Deleting a product    *)
(* that still has units would strand them", so that a deleted product has  *)
(* no unit anywhere.                                                       *)
NothingStranded ==
  \A p \in removed : \A l \in Shelf : quantity[p][l] = 0

=============================================================================

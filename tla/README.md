# Stock Pro in TLA+

Stock Pro is an inventory, sales, repair and purchasing system: a NestJS API over
PostgreSQL (`apps/api`), used by a Next.js dashboard (`apps/web`). This directory
holds TLA+ models of the part of it that is hard to get right by testing - documents
that move stock and money, the transactions they run in, and the people, pages and
outside services that use them at the same time - with the TLC runs that check them
and the TLAPS proofs of what matters most.

`PROJECT.json` lists the components, the runs, the mutants of every property, the
source lines of every definition, the hazards and the theorems.

## The system

The API keeps no state between requests. Operations on documents are PostgreSQL
transactions at READ COMMITTED; those on reference data, accounts, addresses and
subscriptions are plain statements, one after the other. What keeps the data right is
the SQL: conditional `UPDATE`s whose `WHERE` clause is the guard, the row locks they
take until the transaction ends, unique indexes and check constraints. The web
application keeps what it last loaded, and offers buttons by it.

| Part | State | Operations | Talks to |
| --- | --- | --- | --- |
| Stock operations (`common/inventory/`, `stock/`) | `Inventory` rows (quantity, reserved) per product and location; the `StockMovement` ledger | reserve, consume, release, restore, adjust, count | called by every document |
| Orders (`orders/`) | status, lines, subtotal, discount, tax, paid amount, payment status | create, edit a draft, confirm (reserve), complete (consume), cancel (release), take payments | stock, ledger, returns |
| Repairs (`repairs/`) | status, parts, final cost, payments | create, update, change status, add / change / remove a part, take payments | stock, ledger |
| Stock transfers (`stock-transfers/`) | status, source, destination, lines | edit a draft, request, approve, ship, complete, cancel | stock at two locations |
| Stock counts (`stock-counts/`) | status, expected and counted quantity per product | edit a draft, start, enter quantities, review, approve, complete, cancel | stock |
| Purchase orders (`purchase-orders/`) | status, lines with ordered and received quantity, receipts | edit a draft, approve, order, receive goods, cancel | stock |
| Returns (`returns/`) | status, lines of an order claimed back, refunds | create, edit, approve, reject, complete (restore, refund) | orders, stock, ledger |
| Finance (`finance/`) | the ledger (`FinancialTransaction`), expenses | expenses and their entries, other income; payments and refunds book here | every document that takes money |
| Catalogue (`products/`, `categories/`, `brands/`, `suppliers/`, `customers/`, `locations/`) | reference rows, softly deleted; unique codes; who names whom | create, update, delete, restore, make default | named by documents |
| Addresses (`customers/`) | saved addresses, the default among them | add, edit, remove, make default | - |
| Sessions (`auth/`, `lib/api-client.ts`) | refresh tokens; a cookie per browser; an access token and calls per tab | sign in, refresh and rotate, detect reuse, sign out, retry a refused call | every call |
| Accounts (`users/`, `auth/`) | users, roles, statuses, access tokens that outlive them | sign up, create, change role and status | sessions |
| Subscriptions (`billing/`, `platform-admin/`) | subscription status, end of the trial, Stripe customer | webhooks, suspend, reactivate, extend | Stripe |
| Notices (`notifications/`, `automation/`) | inboxes, automation rules | notify, remind of overdue repairs, read; write rules | stock, orders, repairs |
| Figures (`dashboard/`, `reports/`, `stock/`) | none: queries over the rest | chart, totals, breakdowns, reorder suggestions | ledger, stock, purchase orders |
| Web application (`apps/web`) | what each page last loaded, forms, a sale at a till | buttons, lists, dialogs, the point of sale | every route |

What is hard:

* **Concurrency.** Any two operations interleave statement by statement. Documents
  do not see each other: a reservation is a number in a row, without an owner.
* **Decisions on something read earlier.** `receiveGoods`, `submitCount`,
  `changeStatus`, the expense edits, everything in the catalogue, roles and addresses
  read first and write later, without a lock. So does every page.
* **Failure.** A refused line, a crash, a timeout or a deadlock must undo everything
  the transaction did, and nothing else. A till's payment is three requests, any of
  which may fail; an answer may be lost after the work was done.
* **Delivery.** Webhooks are repeated and arrive in any order.
* **Long protocols.** A transfer goes through six states; a repair's parts, a return's
  lines or a rule's conditions are changed many times before they take effect.
* **The same rule written twice.** Roles and statuses are checked in the API and
  again, from another copy, in the pages.

## Modules

```
StockRows              one row: guards and effects of each kind of stock statement
  Stock                all rows: a request is applied whole or refused
    Inventory          ... and recorded in the ledger (the abstract specification)
    Documents          lines, and the requests documents make
      Orders           PointOfSale: tills over the orders
        Returns        AfterSales: orders, returns and the ledger together
      Repairs  StockTransfers  StockCounts
        Shop           the four documents over one inventory
  StockOperations      statements of concurrent transactions; implements Inventory
PurchaseOrders         one purchase order and its concurrent deliveries
Finance                expenses and the ledger
Catalogue              soft deletion, restoration, codes and references
Customers              addresses and the default among them
Sessions   Accounts    who is signed in; who may do what
Subscriptions          an organization's access, and its three writers
Roles                  the roles, for
  Notices              what people are told, and the rules that tell them
  Pages                the six document pages over the API
  Lists                the list pages over a table
Dialogs                the form dialogs
Reports                the dashboard, the breakdowns, the suggestions
Office                 all of these beside Shop, one desk at a time
```

Modules named `MC...` give constants their values; modules named `...Proofs` hold
lemmas and theorems.

### Stock and documents

**Two levels of stock.** `StockOperations` has sessions whose transactions run one
`UPDATE` at a time: `Begin` is the call, `ApplyLine` an `UPDATE` that matches its row
(and takes its lock), `RejectLine` one that does not (the service throws and the
transaction rolls back), `Commit` writes the movements and makes everything visible,
`Abort` is a crash, a timeout or PostgreSQL choosing a deadlock victim. `pending`
holds the row versions written and not committed; their rows are locked. `Matches`
judges the committed row, which is what PostgreSQL does after a lock wait too: the
`WHERE` clause is evaluated again on the version the other transaction committed.
`Inventory` says the same with no transactions: a request's lines move together or
not at all. `Atomic` states - and `Refinement` proves - that the first implements the
second, which is what lets every document treat a stock request as one atomic step.

**Documents.** An operation whose first statement locks the document's row is one
action: its guard is the conditional `UPDATE`'s `WHERE`, its effect the new fields
and the stock request (`Apply(Ask(...))`); if the request is refused the action is
not enabled, which is the rollback. Operations that decide on an unlocked read are
two actions: `ReadFinalCost` / `CompleteRepair`, `ReadCounting` / `WriteCounted`, and
the four steps of a delivery in `PurchaseOrders` (`StartDelivery`,
`ClaimReceivedQuantity` per line, `EvaluateReceived`, `CommitDelivery`).

**Returns and the ledger.** Everything in `Returns` that changes a claim on an order's
lines holds the order's row lock, so each operation is one action. `RefundFor`
prorates a part of a line and rounds half up; the last part of a line is what is
left of it. `CashFor` is what the customer paid and has not had back. `AfterSales`
composes orders, returns and the ledger as the code does: a payment and its entry
(`Collect`), a completed return, its goods, its refund, its entry and REFUNDED
(`GiveBack`) are one transaction each. Sums of money and units are cardinalities of
sets with one element per cent or unit, which TLC evaluates and proofs can count (a
fold they cannot unfold).

**Expenses** (`Finance`) are read before the transaction that writes them:
`ReadExpense`, then `CorrectAmount`, `CorrectTheRest` or `RemoveExpense` on whatever
the row is by then, or `AbandonExpense`.

### People, reference data and subscriptions

`Catalogue` has six tables in one set of rows, because what can go wrong runs across
them: each operation reads what it asserts (`Read` puts it in `doing`) and
writes afterwards (`WriteColumns`, `SoftDelete`, `Restore`, or `CodeConflict` when an
index refuses it). `Customers` follows one request per statement:
clear the other defaults, then write. `Accounts` splits a change of role or status
between the count of administrators and the write, and lets callers act on an access
token that still says ADMIN. `Sessions` follows the refresh cookie, shared by the
tabs of a browser, against the tokens in the database: a refresh reads its token,
revokes it and issues the next in steps of their own (`Consume`, `Spend` or `Lapse`,
`Rotate`), any of which may fail (`FailRefresh`, which clears the cookie); requests and
answers are in flight, answers are lost, and two tabs may present the cookie they both had.
`Subscriptions` has the three writers of one column - webhooks, operators, the clock -
with events that stay deliverable after they were delivered. `Notices` has one
product, one repair and one rule, which is what each notice is about.

### The web application

`Pages`: a tab holds a copy of a document, and a table per kind says which buttons the
page shows for what it holds; another table per kind says which routes the API has, in
which statuses and for which roles, and `Checked` what the services look at besides:
lines, counted quantities, a price, what is due or outstanding, money taken, and whether
the shelves can give what is asked (`stocked`, which no page shows and which changes at
any time). A click that is refused leaves the page as it was, because only success
reloads it. What two deliveries do to a purchase order when they overlap is a step of
its own (`DeliveriesOverlap`), with the outcomes the runs of `PurchaseOrders` show.
`Lists` has the nineteen list pages and
the routes behind them in the same way, over a table that is only counted. `Dialogs`
follows a React form: its key decides whether opening the dialog remounts it, its
opener whether it is refilled, a late answer acts on the dialog that is open then, and a
lost one (`LoseSave`), before or after the API carried the request out, frees the form.
`PointOfSale` is the till: pay, load, complete.

`Reports` has no state but the ledger's sales, by tenant and day, and the shelves: units
arrive, are written off, promised, released, shipped and transferred in either
direction, suggestions are drafted, placed, delivered in parts, cancelled and revived.

### Office

`Office` puts all of it beside `Shop`: a behaviour is one desk's, chosen at the start,
and the others rest. Stock counts run at a desk of their own there (`FloorNext`, the
shop's part that moves only rows and counts), because beside three other documents they
make an instance TLC cannot enumerate: the theorems of `ShopProofs` cover all documents
together. The desks other than the shop's and the till share no state that a property is
about, so interleaving them would show nothing that one desk does not, and would
multiply their state spaces. The till works on the shop's own orders.

### What every model leaves out

Prices: after an edit of a draft the subtotal is any amount the edit allows. Names,
notes, timestamps, document numbers, translations, layout and the audit log: nothing
modelled reads them. Products that are withdrawn and customers, suppliers and
locations that cannot be used only refuse an edit, which is the edit not happening. A
product has a row at the default location from its creation; elsewhere a transfer's
arrival inserts it. Row locks, commit and rollback are PostgreSQL's, events are
Stripe's: their definitions are marked external.

## Runs

| Run | Instance | Shows |
| --- | --- | --- |
| StockStatements | 2 sessions, 2 products, one without a row; every kind of request; quantity up to 2; fair | types, `NeverOversold`, `NoLostUpdate`, `LedgerReconciles`, `NoDeadlock`, `Atomic` (the refinement) and `EveryTransactionEnds` (liveness) |
| ShopStock | an order, a repair, a transfer, 2 products, 2 locations, 2 units; no count | types, `ReservedIsClaimed`, `ClaimsHonoured`, `UnitsConserved` |
| PurchaseOrders | 2 products, up to 2 units a line, 2 deliveries of one or two lines | types, `NeverOverReceived`, `ReceivedIsComplete`, `ReceivedIsFinal` |
| AfterSales | one order of up to 4 units and 2 cents, two returns, one entry of other income | `ReturnedWithinSold`, `FullReturnIsExact`, `RefundsAreCovered`, `BooksBalance`, `GoodsConserved` |
| Office | two of most actors, one or two of each row, two tenants; 1,031,392 distinct states | the twenty properties below |
| StockCountDeadlock | 2 sessions, a count beside sales | `NoDeadlock` violated |
| PurchaseOrderCancelRace, PurchaseOrderStatusRace | as PurchaseOrders | `CancelledIsFinal`, `StatusReflectsLines` violated |
| CountRecountRace, RepairPriceRace | one document | `CountedIsFrozen`, `CompletedIsPriced` violated |
| CatalogueRestore | a product and a category | `NoBrokenCatalogue` violated |

Office's properties, by desk: orders and repairs `MoneyIsSound`; counts
`ReviewIsComplete`; tills `GoodsArePaidFor`; expenses `ExpenseHasOneEntry`; document
pages `ButtonsWork` (the two copies of the rules agree: on a page that shows the document
as it is, a button is refused for nothing but what the pages leave to the API -
`Unhindered` lists it), `OutdatedButtonsAreRefused` (a button of an old page that the API
still carries out is one a fresh page offers) and `NeverStranded` (until it is finished,
somebody has a button that moves the document on, whatever the shelves hold); catalogue
`RestoreNeverCollides`; lists `ListsAgreeOnRoles` and `NoFalseEmptyList`; dialogs
`FormsSaveTheirOwn`; sessions `RefusedForAReason` and `CarriedOutOnce`; accounts
`AdminRemains`; addresses `TwoDefaultsTakeTwoRequests`; subscriptions
`ExtensionsAllCount`; notices `OverdueToldOnce`; rules `RulesCanFire`; figures
`BreakdownsAgree` and `NeverOverstocked` (suggestions never buy past the target by more
than what came unasked for).

Some of these carry a proviso, stated in the property and kept by a history variable
of the model: `overlapped` (two changes of accounts under way at once), `crossed` (two
requests about addresses), `excused` (answers lost, a refresh that failed or came too
late, two tabs refreshing together, a session ended), `unplanned` (how many units of a
product no suggestion could count), `unanswered` (the form's last answer was lost, so
that it can be sent again though it was saved). `NeverStranded` excepts one state by
name, `LastDeliveryUnnoticed`: everything has arrived, the status does not say so, and
the page has no button that does anything. Without the proviso each is false of the
code; with it each still fails under the mutants.

### Bounds

Two sessions and two rows give every pairwise race and the shortest deadlock - longer
rings are the theorem's; a product without a row gives the refusals and the
insertions; two units let one document take some and another be refused; a line of
two units lets an edit reserve or release one. Four units at two cents make a line
whose parts round up, down and to nothing before the last one takes what is left; two
returns are the fewest that compete for it. Two tills, windows, clerks, editors,
handlers, operators or requests give every race between two decisions; the restart of
any of them is its leaving. Three refresh tokens let one be used, replaced and used
again. Two locations tell the default from the others; a chart of two days in a life
of four drops days at its start; two units unasked for, at a target of two, double it.
Three trial days let two extensions overlap. Rows come in the sets of `Scenes`: those
that can refer to, or collide with, one another.
`MaxQuantity` stands for the largest int4, and refusing what exceeds it is the
database's error; `MaxLedger`, `MaxEntries`, `MaxRevision`, `MaxTokens`, `MaxEvents`,
`MaxPayer`, `MaxTrialEnd`, `LastTrialDay`, `LastSalesDay`, `MaxUnits` and `MaxUnplanned`
only keep the runs finite.

Deadlock is checked in StockStatements and ShopStock. In PurchaseOrders, AfterSales
and Office a document that is finished, or a bound that is reached, rightly has no
further step.

### Fairness

`StockStatements` alone has a liveness property. The next statement of a session is
strongly fair, because PostgreSQL queues those who wait for a row lock, and a session
whose lines are done commits (weakly fair, nobody can disable it). No request has to
arrive and no transaction has to be aborted: with sorted lines, deadlock victims are
not needed for progress. The rest waits on people, networks or Stripe, of which the
code may assume nothing.

## Disagreements between comments and code

Checked by a run each, and described with their lines in `PROJECT.json`:

1. A cancelled purchase order can be received (`PurchaseOrderCancelRace`).
2. Two deliveries that complete a purchase order together leave it
   PARTIALLY_RECEIVED for ever (`PurchaseOrderStatusRace`).
3. Approving a stock count takes its row locks in query order and can deadlock
   (`StockCountDeadlock`).
4. A counted quantity can change after the count was reviewed, or even applied
   (`CountRecountRace`).
5. A repair can be completed without a final cost, and then never be paid
   (`RepairPriceRace`).
6. A product restored after its category was deleted points at nothing a list shows
   (`CatalogueRestore`).
7. The dashboard's chart adds up every organization's sales (`DashboardChart`).

Met while modelling and stated as properties beside the others, in the words of the
code's own comments, but checked by no run that is kept - each fails in the instance
of Office, or in a run of its module alone:

* `EntryDescribesExpense` (Finance): an edit that leaves the amount alone writes the
  amount it read to the ledger entry, over a correction made meanwhile.
* `SomebodyManages` (Accounts): two administrators demoted at once leave none.
* `NothingStranded` (Reports): one inventory row of a product, of whichever location, is
  looked at before the product is deleted; units at another location stay on it.
* `NoSaleIsLost` (PointOfSale): a confirmed sale whose till is closed is not among
  the held sales, which list drafts only.
* `SuspendedStaysOut` (Subscriptions): a late webhook lets a suspended organization in.
* `CrossingIsReported` (Notices): an applied stock count that takes a product past its
  minimum is reported to nobody; a sale or a manual adjustment is.

Also seen: a payment after a full refund sets the payment status from the amounts
again, so REFUNDED is lost (nothing says it is final; `RefundsAreCovered` ties it to
the money instead); the expected quantity of a count is taken when its draft is
written, not when counting starts; the generic entity pages free a form before their
rows are fetched again, so it can be sent twice, as can any form whose answer was lost.

## Proofs

All constants are arbitrary in the theorems: any number of products, locations,
sessions, documents, tills, clerks, users, tabs, rows, operators and days. The
assumptions are the named `ASSUME`s of the modules, which say what the code's
validation and schema say: lines name products once, by positive quantities; tables
have ids of their own and finitely many rows; a default location exists. A goods receipt
is the one request whose lines may name a product twice (two lines of the order, or one
line twice): the stock models take its two parts as one, since the first `UPDATE` locks
the row for the second; `PurchaseOrders` has the repeated lines themselves.

*StockOperationsProofs.* `TypeCorrect` first. `Isolation` is the heart: the invariant
`NoLostUpdate` says that row locks are exclusive and that what a transaction has
pending is the effect of its own lines on the committed rows. It is inductive with
the types: another session's commit cannot touch a row in `pending` because the two
would both hold its lock. `Refinement` follows: at a commit every line of the request
is done, so the rows it makes visible are `Apply` of the request, and the movements
it appends are those of `Record`; every other step leaves the committed state alone.
`NoOverselling` and `Reconciliation` are invariants of the same induction, and
`DeadlockFreedom` uses an extremal argument: in a ring of waiting sessions, take one
that waits for the largest product; the session it waits for holds that product and
has only larger ones left.

*PurchaseOrdersProofs.* One inductive invariant carries the claims of open deliveries
beside the committed quantities: `received + claimed <= ordered` for all deliveries
of one product at once (only one can have a claim, the line is locked).
`ReceivedMeansComplete` needs that a delivery's reading `full` stays true: nothing
can lower `received`. `FrozenLines` is the lemma both use, that goods only arrive on
lines that can no longer be edited.

*ShopProofs.* `TypeCorrect` goes together with `ShelvesSound` (no row is
over-reserved, no units without a row), because a refused request is what keeps a row
in range. `ReservedAlwaysClaimed` is about a sum over any number of documents: the
sum is the cardinality of a set with one element per claimed unit, `BoxesChange` says
that it moves by as much as the one document that changed, and each action is shown
to change a claim and the rows by the same number. The inductive invariant adds
`RepairsFresh` (a repair that does not exist has no parts), without which the creation
of a repair would create a claim. `ClaimsAlwaysHonoured` follows: one claim is at most
the sum, the sum is what is reserved, and that is at most what is there.
`MoneyAlwaysSound` needs that an order whose lines can still change has collected
nothing and that a discount never exceeds its subtotal. `ReviewAlwaysComplete` needs
that nobody is entering quantities while the list can still be edited.
`TransfersConserveUnits` is an action property: the units on all shelves together with
those on the road are as many after a step of a transfer as before it. Shipping takes
from one shelf what it adds to the road, arriving does the opposite, and no other step of
a transfer moves either. A sum over the shelves needs finitely many locations, which
`ShopAssumption` says: they are rows of a table. What the proofs about documents share -
lines, requests, the sums of claims - is in *OrdersProofs*.

*OrdersProofs.* `GoodsAlwaysPaidFor` is about tills among other users of the same
orders (`SalesNext`). Its invariant `TillsInv` says of a till between its payment and
its completion that the order is confirmed at least, and once settled that it has
collected its total; `OnlyPaidOff` is why that survives everybody else - a confirmed
order's total is fixed and what it collected only grows. `ExpensesHaveOneEntry` needs
that a request under way has read some expense, and that a write leaves the number of
entries alone.

*SalesProofs.* The five properties of `AfterSales`, for any number of orders, returns,
expenses, entries and cents. They rest on `SalesSound`, inductive by itself: the types,
and that a return that exists is of an order that went out, and has paid nothing before
it is complete. So an order's lines and charges stand still from its first return on.
`NothingReturnedTwice` and `FullReturnCreditsTheLine` share the invariant `LinesSound`:
of each line no more is claimed than was sold, and once all of it is claimed the credits
come to its charge. One return moves at a time, so the sums of the others are what the
step itself read as left (`UnitsLeft`, `ValueLeft`), and the two are judged from the same
reading. `RefundsNeverExceedPayments` is inductive with the types (`RefundsSound`):
what a return pays is at most what is left at that moment, and a later payment leaves
more and sets the status from the amounts again. `LedgerTellsTheDocuments`
(`BooksSound`) counts the cents of the entries under one reference, which only the steps
of that document add to; `ExpensesInv` is needed because a request about an expense
writes under that expense.
`GoodsComeAndGo` is inductive with the types: a completed sale moves `Sold` and the
shelf, a completed return `PutBack` and the shelf, by the same number of units.

*DesksProofs.* Each part beside the shop by itself. `AdminAlwaysRemains`
(`AccountsInv`: while one change alone is under way in an organization, another active
administrator is among the others, so the write leaves one; `TokensOwned`: whoever holds
an access token has an account).
`RetriesRunOnce` (`CallsInv`: until a call is answered for good it has not been carried
out, so sending it again after a 401 is safe). `NeverReusedByItself` (`TokensInv`: while
nothing excuses it, the user is active, at most one refresh is on its way, and it
carries the cookie, which is live until it is exchanged). `EmptyMeansEmpty`
(`ListsInv`: until rows leave, the page asked for is the first or has matching rows, and
no answer told of more rows than there are; every search, filter and change of list goes
back to the first page). `NobodyMeetsForbidden` (`LedHere`: whoever is on a list
page is among those its link is shown to) compares, list by list, the roles a button is
shown to with those of the route it calls. `OfferedMeansAccepted` and
`NoDocumentIsStranded` (`PagesInv`: the document has a status of its kind, nothing is
paid for a draft, and every page shows a document of the same kind) go through the
buttons of each kind of document to the route that takes each. `OldPagesDoNoHarm` needs
nothing of what an outdated page shows but its kind: a route that still accepts the click
starts from a status in which a fresh page offers it.

`RestoreIsSafe` (`CatalogueInv`: what is under way on a row, but its
creation, is on a row that exists, and rows never stop existing; the unique indexes
span deleted rows, so a row keeps its code to itself while it is deleted; stated for
every set of rows to start from). `FormsAreTheirRows` (`DialogsInv`: the mounted form
has the key and the row of what is open, each save carries the form of its own row,
and a form kept after it was saved waits for its own answer). `OneDefaultAddress`
(`AddressesInv`: until requests cross, one is pending at a time, and one that has
cleared the others finds no default left).
`NoExtensionIsLost` (`TrialInv`: an extension counts from the row,
and nothing else moves the end of the trial). `ToldOnce` (`OverdueInv`: notices of
other kinds do not count as being told, and the job asks whether anybody was ever told
of the repair before it writes).
`EveryRuleCanFire` (`RulesInv`: the rule that is still in its dialog keeps only fields
of its trigger, too). `SuggestionsNeverOverstock` (`ShelvesInv`: what is available,
on its way and drafted together never exceeds the target by more than what came unasked
for; a draft only fills what lacks, sales only make more room, and `NotedOrLess` is the
rest: a step adds no more to the one than it notes in the other).
`ReportsAgree` (`StockInv`: no quantity is negative and no more is promised than is
there) counts the same units twice: `SumOfCounts` turns a sum of sums into the number of
units in all places, and `Swapped` maps those found category by category one to one to
those found location by location. `ChartAddsTenantsUp` says of
a chart and a life of any number of days that the raw query starts no later than the
chart's first day and counts each sale once, for any number of tenants - all of them
together, as the code has it (`ChartAgreesWithLedger`, what the page promises, fails for
two of them in `DashboardChart`).

*OfficeProofs.* The run of `Office` checks the properties of all its parts on the
composed specification, so that is what they are proved of. `OfficeRunsTheShop` says
that `OfficeSpec` implements `Shop`'s `Spec`: what a till does is an edit, a payment or
a completion of the shop's own orders (`TillsOrder`, which needs `TillsInv` to know that
the order a till holds is one), and every other step is one of `Next` or a stutter. So
`MoneyAlwaysSound`, `ReservedAlwaysClaimed`, `ClaimsAlwaysHonoured` and
`ReviewAlwaysComplete` hold of the office without being proved again.
`DesksWorkAlone` says the same of the nine desks that have variables of their own: each
step of the office is a step of one of them and a stutter of the others (`OthersRest`),
and a page that starts in one fixed state starts in one of its own. Two desks tell
people and two are behind the figures; their invariants are shown to survive each other
(`NoticesStaySound`, `ReportsStaySound`). The catalogue starts from any set of rows that
`Scenes` names (`OfficeAssumption`: they are rows). The `Office...` theorems collect what
follows, property by property of the run; one has a hypothesis, that the page has rows,
as the theorem it rests on has.

Not proved, only model-checked: `EveryTransactionEnds`, which is liveness under
fairness, out of the prover's reach. Every other property of the passing runs is a
theorem. `ChartAddsUp` and `FrozenLines` are proved beside them and
checked by no run.

## Not modelled

* **Tenancy and audit**: a filter added to every query and a row beside every change.
  One organization is modelled, except where a raw query has no such filter
  (`Reports`).
* **Settings, uploads, health, mail, the AI assistant**: configuration rows and
  outside services on whose state nothing modelled depends.
* **Product units**: registering serial numbers and their statuses moves no quantity
  and no document; only the pages are modelled.
* **Other reports and search**: single queries over one table.
* **Seed data, migrations, generated clients, styles and translations.**

What would come next: returns beside repairs and transfers over the same rows, as one
composition; two instances of the reminder job, which the deployment does not have
today.

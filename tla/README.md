# Verification of the SET shop (webj)

TLA+ models of the SET shop, from the last unit on a shelf to the month's tax
return: the TLC configurations that check them and the TLAPS proofs about them.
Paths are relative to the repository's root.

1. [The system](#1-the-system): inventory of all parts
2. [The models](#2-the-models): modules, and how they correspond to the code
3. [What the runs show](#3-what-the-runs-show): runs, bounds, fairness
4. [Where code and documents disagree](#4-where-code-and-documents-disagree)
5. [What is proved](#5-what-is-proved)
6. [What is not modelled](#6-what-is-not-modelled)
7. [Plan](#7-plan)

`tlc -workers 2 -config X.cfg M` runs a configuration X of section 3 on its
module M; `tlapm M.tla` checks the proofs of section 5.

## 1. The system

webj is a shop for phone accessories with a web front, a cash desk and a back
office. It is a TypeScript monorepo: `packages/*` hold the services, each a
class or a set of functions over a `Database`; `apps/api` (NestJS) exposes them
over HTTP, and `apps/web` (Next) renders the pages. All lasting state is in one
PostgreSQL database (PGlite in tests), used with the default isolation level
READ COMMITTED. There is no message broker and no cache shared by processes;
services call each other directly, and several processes of the API may run.

What makes the program hard follows from this. A statement sent through
`db.query` commits by itself and drops its row locks; only `db.transaction`
keeps several together. Handlers that read, check and write in separate
statements interleave with all others. Unique indexes, CHECK constraints and
conditional UPDATEs decide many races; where they are missing, the last write
wins.

### The parts

For each part: the state it keeps, what it does, whom it meets, what is hard,
and what would make it correct.

**Stock** (`packages/inventory`, table `stock_items`). On-hand and reserved
units per warehouse and variant. `reserveStock`, `confirmStock` and
`releaseStock` run inside the transactions of orders; receipts, adjustments,
supplier returns and transfers come from the back office. Hard: two orders for
the last unit; `releaseStock` clamps at zero and so hides a double release.
Correct when no shelf promises more than it holds and the reserved units are
those of the unpaid orders.

**Orders** (`packages/orders/src/index.ts`, `cycle.ts`). Rows of orders and
their items, status, idempotency key, payment deadline. `createOrder`,
`confirmPayment(On)`, `cancel`. Called by cart, cash desk, payments and
controllers; calls stock, coupons, numbering, accounting and the outbox in its
transaction. Hard: repeated calls with one key, settlement against
cancellation, two warehouses in one life of an order. Correct when goods leave
once per paid order, an order that can be paid finds its goods, and a cancelled
order stays so.

**Sweeper** (`releaseExpiredReservations`). Cancels orders whose payment time
has run out. Its comment says that a periodic worker runs it; in this commit
only tests call it. Hard: it acts on a selection whose locks are gone. Correct
when it frees every expired order and nothing else.

**Coupons** (`packages/coupons`). Counter, limit per coupon, limit per
customer, redemptions. Redeemed and released in the order's transaction. Hard:
the last use taken twice; giving a use back. Correct when the counter counts
the redemptions and limits hold.

**Payments** (`packages/payments`). Payment rows and the bank's session.
`start` reads, calls the gateway, inserts; `verify` locks the row, asks the
gateway and settles the order in one transaction. Hard: the bank's answer lost
after it took the money, callbacks repeated, the order changed on the way.
Correct when goods and money go together.

**Fulfilment** (`packing.controller.ts`, `packages/orders/src/packing.ts`,
`packages/commerce/src/shipping.ts`). Confirm, pack, unpack, ship, deliver,
report a loss. Hard: no transaction and no conditional update of the order, so
every stale read may be written back. Correct when nothing unpaid is handled
and terminal statuses are terminal.

**Cash desk** (`packages/pos`). Shifts, sales, movements of cash, closing. A
sale is four commits and may be repeated by a device that was offline. Correct
when a sale has one order, one settlement and one shift, and when a closed
shift adds up.

**Outbox** (`packages/db/src/outbox.ts`). Events written with the change they
tell of, sent by a timer with backoff. Hard: batches overlap, die, and write
what they read before. Correct when every event is delivered at least once and
sent ones rest.

**Database client, numbering, migrations** (`packages/db`). Transactions,
document numbers from one atomic upsert, schema. Correct when a rolled back
transaction leaves nothing and numbers are unique.

**Cart** (`packages/cart`, `apps/web/src/lib/cart-actions.ts`). Lines of a
visitor, whose browser keeps the number of the cart in a cookie; `checkout`
locks the row of the cart, closes it and creates the order in one transaction;
payment follows in another. Hard: tabs of one browser add, look and check out
while prices change. Correct when a cart becomes one order, of what was shown.

**Terminal** (`apps/web/.../pos-terminal.tsx`). The page of the cash desk,
which sends a sale until it is told that it was registered. Correct when one
sale is settled once.

**Returns** (`packages/returns`). Request, decision, transit, receipt with
restock and refund, with eligibility and warranty rules. Hard: parts of a line
in several returns, refunds rounded by the unit. Correct when no unit and no
rial is returned twice.

**Procurement and cheques** (`packages/procurement`, `commerce/src/checks.ts`).
Purchase requests, invoices, receipts, payments; cheques and their ceiling.
Hard: decisions of several members of the staff read first and write later.
Correct when no more is received and paid than was ordered and invoiced.

**Accounting** (`packages/accounting`, `reports/src/gross-profit.ts`). Journals
that balance, reversal, moving average cost, profit and loss. Written in the
transactions of orders, returns and procurement. Hard: the average is read
without a lock; the report counts by another date than the ledger. Correct when
the goods in stock are worth what the books say and both reports agree.

**Tax** (`packages/tax`, `scripts/tax-worker.ts`). A queue of invoices and
credit notes, an office with late answers, inquiries, rebuilt notes, the keys
that sign, the return of a month. Hard: the worker and the button of the panel
send at once, and each frees rows that seem stuck. Correct when what the books
call accepted is, and every invoice gets its verdict.

**Texts** (`packages/commerce/src/sms*.ts`, `scripts/post-sale-worker.ts`). A
queue with leases. Hard: rounds overlap, die, and outlive their lease. Correct
when no text is lost and none is sent more often than was counted.

**Stock alerts** (`commerce/src/stock-alerts.ts`). Who waits for an article is
told once it is back. Hard: the message is sent by one statement and the row is
marked by the next; rows without a phone are passed over and keep their place at the
head of the line.

**Staff authentication** (`packages/auth`, `apps/web/src/middleware.ts`).
Passwords with a lock after failures, refresh tokens that rotate, and the web
front that renews them on the way. Hard: pages opened at once bring one token to
several processes. Correct when a session goes on until somebody ends it.

**Shopper accounts** (`packages/shopper`). One-time codes, sessions, blocking.
Correct when codes, guesses and sessions stay within their numbers whatever
overlaps.

**Rate limiter** (`packages/rate-limit`). Counting windows in memory or in the
database. Hard: a request reads the clock before it counts itself. Correct when
a window lets through what the rule allows.

**Catalogue and media** (`packages/catalog`, `packages/media`). The tree of
categories with triggers and a cached menu; files of pictures, named after their
content. Hard: several statements without a transaction, a cache that is filled
while it is cleared, a sweep that walks while uploads write. Correct when the
tree stays a tree and no picture of a product disappears.

**Reviews** (`packages/reviews`). Correct when what is shown was let through,
and a badge was earned.

**Reports, exports, shared kernel, roles, audit, observability, CRM, web pages,
deployment and scripts.** Queries, rendering, pure helpers and single-row
edits. Money (`shared-kernel/money.ts`) and the calendar of the tax months are
modelled where amounts are divided and months are counted.

The hazards of this code, each at its line and with the properties that would
catch it, are listed in `PROJECT.json`.

## 2. The models

```
OrderCycle   Stock                Allocation (abstract)
      \       /                        ^
       Orders  . . . . refines . . . . :
      /   |   \
Payments  |   Pos --- Terminal           StaffSessions --- PanelSession
      Fulfilment

by themselves:  Cart  Returns  Purchasing  Cheques  Valuation  Ledger  Amounts
                VatReturn  Outbox  SmsQueue  TaxQueue  Credentials  Shopper
                RateLimit  Catalogue  Media  StockAlerts  Reviews
```

Payments, Fulfilment and Pos each EXTEND Orders and interleave with its actions;
Terminal puts the page of the cash desk before Pos, and PanelSession puts the web
front before StaffSessions. Front joins seven parts that a visitor meets.

| Module | Code | What it is |
| --- | --- | --- |
| `OrderCycle` | `orders/src/cycle.ts` | statuses, table of transitions, `canTransition` |
| `Stock` | `inventory/src/index.ts`, `inventory.controller.ts`, `admin.controller.ts`, `procurement/src/index.ts` | the table `stock_items`; the three order operations as operators, four back-office operations as actions |
| `Orders` | `orders/src/index.ts`, `coupons.ts`, `inventory/src/index.ts:145-188` | orders with keys, coupons and sweepers |
| `Allocation` | - | what the shop promises: goods are held for an unpaid order and for nobody else, computed from the orders without any counter |
| `Payments` | `payments/src/index.ts` | payments and the bank's session |
| `Fulfilment` | packing, shipping | requests of the staff, statement by statement |
| `Pos`, `Terminal` | `pos/src/index.ts`, `pos-terminal.tsx` | shifts, calls of the desk commit by commit, and the page that repeats them |
| `Cart` | `cart/src/index.ts`, `cart.controller.ts`, `cart-actions.ts` | carts, the cookie and the tabs of a browser |
| `Returns` | `returns/src` | returns of one line of a paid order, refund by refund, and its warranty |
| `Purchasing` | `procurement/src/index.ts`, `settlement.ts` | a purchase request, its invoices, receipts and payments |
| `Cheques` | `commerce/src/checks.ts` | the cheques of one partner and their ceiling |
| `Valuation` | `accounting`, with the writers of stock | units, moving average and the books of one variant |
| `Ledger` | `accounting`, `returns/src/service.ts`, `reports/src/gross-profit.ts` | entries of sale, return and refund, their reversal, and two reports on them |
| `Amounts` | `orders`, `coupons`, `accounting`, `shared-kernel/src/money.ts` | shares of a discount, tax by the line, the journal entry of a sale and of a purchase |
| `VatReturn` | `tax/src/vat.ts` | the return of a month, and which days are a month |
| `TaxQueue` | `tax/src/queue.ts`, `submission.ts`, `credit.ts` | rows, senders, the office, rebuilt notes |
| `Credentials` | `tax/src/credentials.ts` | the keys that sign |
| `Outbox` | `db/src/outbox.ts` | events and the batches that send them |
| `SmsQueue` | `commerce/src/sms.ts`, `sms-send.ts`, `housekeeping.ts` | texts, leases, rounds |
| `StockAlerts` | `commerce/src/stock-alerts.ts` | who waits for an article |
| `StaffSessions`, `PanelSession` | `auth/src/service.ts`, `apps/web/src/middleware.ts` | logins, refresh tokens, and the renewal on the way |
| `Shopper` | `shopper/src/index.ts` | codes, account, sessions of one mobile number |
| `RateLimit` | `rate-limit/src` | windows in the database and in memory |
| `Catalogue` | `catalog/src/categories.ts`, migration 029, `query-cache.ts` | the tree and the cached menu |
| `Media` | `media/src` | files, rows that refer to them, uploads, sweeps |
| `Reviews` | `reviews/src` | one customer's review of one product |
| `Front` | - | Cart, RateLimit, Shopper, StaffSessions, PanelSession, Reviews and Credentials, of which a behaviour moves one |

The parts share rows only where the picture shows a line. A run on parts that
share nothing is composed of them by a variable `part`, fixed for a behaviour,
which says whose actions it takes: `MCShop` (payments, staff, desk), `MCQueues`
(outbox, texts, tax), `MCOffice` (ten parts of the back office), and `Front` (seven
parts at the door), to which `MCFront` only adds the symmetry. `MCOrders`, `MCPos`,
`MCTerminal` and `MCTax` instantiate one module each.

**Granularity.** One action is one committed transaction, or one statement that
commits by itself. What a transaction does before it throws is rolled back and
has no action, except where the outside world keeps a trace (the bank in
`Payments`) or where something read earlier is dropped (`CreateRollsBack`,
`VerifyRollsBack`). Where a handler reads first and writes later without a lock,
the read is an action that stores what it read: `inflight` (key not found),
`batch` (orders a sweeper selected, events a batch selected), `seen` (attempts a
batch read), `task` (what a request of the staff checked), `call` (what a call
of the desk, of a device or of a round read), `request` (the token a refresh
read), `hit` (the window a request read), `click` (the review a call looked at),
`load` (the rows a sender claimed), `verifying` (the transaction that waits for
the gateway). A process may die wherever such a value is held.

**State.** A variable is a column or the memory of a running call, and its
declaration names it. Ghosts that no code keeps record what a property compares
with: where an order reserved (`warehouse`), the net of stock movements that are
not sales (`supply`), what the desk answered (`answered`), how often a provider
was called (`tries`, `taken`), which rows were freed under a sender (`twice`),
whose lease ran out (`overrun`), which sessions somebody ended (`ended`), what a
page showed (`seen`, `shown`), what a window let through (`admitted`).

**Abstractions.** A basket maps a variant to a quantity: the loops over order
lines apply conditional updates in one transaction, which succeed exactly when
their sum does. `Orders` leaves amounts out; `Amounts`, `Returns`, `Ledger`,
`Valuation` and `Purchasing` are about amounts and do the code's divisions and
roundings. At the desk every unit costs one, so that the cash of two sales can be
told from that of one. Time is a value with as many cases as the code
distinguishes (`deadline`, `due`, `ripe`, the `age` of a code, a window), and
passes at any moment.

**Two transactions of `createOrder` do not interleave** once they hold the
counter row of `nextNumber`; its lookup of the key runs before that and may be
stale, which `CreateBegins` and `CreateCommits` model, and the unique index
`ux_orders_idempotency` is a guard of `PlaceOrder`.

**Faulty variants.** Definitions whose comment starts with "Faulty variant" are
not used by any specification: each is a plausible mistake in the definition it
follows or precedes, kept to show that a property can fail.

## 3. What the runs show

### Runs that pass

| Run (module) | Instance | Shows |
| --- | --- | --- |
| `orders` (`MCOrders`) | 3 orders for 2 units, baskets of up to 2, 2 warehouses, 2 requests that repeat one key, a coupon with limits 2 and 1 | `NeverOverReserved`, `ReservationLedger`, `PaymentNeverStarved`, `GoodsLeaveOncePerPaidOrder`, `OneOrderPerKey`, `CouponsAddUp`, `NoWayBack`, and that Orders implements Allocation |
| `shop` (`MCShop`) | payments: 2 payments of 2 orders with lost answers, answers of another gateway, repeated callbacks and crashes; sweepers: 2, with settlements in one step; staff: 2 requests, 2 shipments; desk: 2 calls, 2 shifts, one offline number, one withdrawal | `GoodsLeaveOncePerPaidOrder` and `NeverOverReserved` (with sweepers too), `GoodsHaveTheirMoney`, `CapturedMoneyCanStillSettle`, `SuccessIsFinal`, `OnlyPaidOrdersAreHandled`, `DeliveryIsFinal`, `OneCallSettlesASale`, `SaleStaysInItsShift` |
| `queues` (`MCQueues`) | 2 events and 2 overlapping batches; 1 text and 2 rounds, one requeue, one death; 1 invoice and 2 senders, one retry, one death; fairness | `SentWasDelivered`, `EveryEventIsSent`, `SmsHolds`, and `QueuesDrain`: every invoice gets its verdict, and every text is sent or given up, or stranded by the death or the lateness of its last attempt (see section 4) |
| `tax` (`MCTax`) | a sale and its credit note, 2 senders, 2 editions of the note, a retry, a death | `AcceptedIsFiled`, `AcceptedStays` |
| `office` (`MCOffice`) | ten parts, 2 actors each, rows and amounts of up to 3 | `ReturnsAddUp`, `PurchasingHolds`, `CatalogueHolds`, `PicturesAreKept`, `WaitersAreTold`, `AmountsAddUp`, `ValuationFollowsStock`, `CountedOnceAYear`, `CeilingHolds`, `LedgerHolds` |
| `front` (`MCFront`) | seven parts, 2 tabs, devices, requests, pages, calls or keepers each | `CartHolds`, `LimitHolds`, `CodesHold`, `SignInHolds`, `PanelHolds`, `ReviewsHold`, `CredentialsHold` |

A name that ends in Holds or AddUp is a conjunction of the type invariant of its
module and of named invariants, each with its comment: `SmsHolds`, for one, is
`OneHolder`, `CallsAreBounded` and `SentWasTaken`.

### Bounds, and why they are enough to be interesting

- Orders: three where they compete for one shelf, so that a unit can be freed by
  one order, taken by a second and be missing for a third; two where the
  competition is over payments, parcels or shifts.
- `MaxQty`: 2 in `orders`, so that an order may want more than is free although
  something is free; 1 elsewhere. `MaxStock` caps the shelf for finiteness
  (receipts stop there): at least what one order needs and less than what all
  need together.
- Two sweepers (in `shop`), requests, staff members, calls, batches, rounds, senders, tabs,
  devices, pages, uploads, sweeps: the races listed as hazards need two actors
  that hold something stale. Where it takes a third row (a category moved under
  a category that moves, a caller that finds the store full) there are three.
- Limits are the smallest that make the limit differ from its neighbours:
  `MaxAttempts`, `MaxRequests`, `MaxFailed` 2, one code an hour, batches of one
  (two in `tax`, where one call carries several rows).
- `MaxSmsDeaths`, `MaxSenderDeaths`, `MaxRequeues`, `MaxRetries` 1: one failure
  of each kind, at any point. `MaxEditions`, `MaxCodes`, `MaxTokens`,
  `MaxReviews`, `MaxCarts`, `MaxWindow`, `MaxMoves` and their like bound what the
  code lets grow without end; each is a guard of the action that adds.
- Where two actors on every row would only multiply what is already there, the MC
  module bounds one of them by a named conjunct of its next-state relation:
  `StaffBounds` and `DeskBounds` (`shop`: the staff handle one of the two orders;
  cash is moved before there is an order, sales are paid in cash),
  `YoungerFailsOnce` (`queues`), `LastCodeIsQuiet` (`front`: the panel leaves alone
  an account that was sent its last code), `NothingPaidYet` (`office`: a
  behaviour commits receipts or payments, which write no row in common) and `RebuildsShells` (`tax`: a note is
  rebuilt only when a packet is empty). The theorems of section 4 are about the
  specifications without these bounds. `YoungerFailsOnce` takes away failures only,
  none of the steps whose fairness `queues` assumes.
- Amounts are small numbers chosen so that divisions leave a remainder
  (`Percents` 3333, `UnitPrices` 7, a line of 3 units at 3 rials), zero included.
- Days of `VatReturn` are those on both sides of the middle and the ends of the years
  1404 to 1408, where `vat.ts` and the calendar part; the twelve returns of 1404, 1405,
  1407 and 1408 are looked at, two of which are leap years by one calendar only.
  `EachYearCountsOnce` holds for every year of the century.
- Of those who wait for an article one has left an address of email only (`Mute`), so that
  the call passes over it; there are places in the line for two.
- Goods are bought and delivered at one cost in `office`, so that a rounding is of one
  average; `ValueIsRight` is proved for any costs. An invoice of a request, a receipt
  of it and a direct delivery are different transactions there, four of which commit.
- `CatalogueHolds` is about one menu, the one of the process that writes: the menus of
  other processes are stale for as long as they keep them, and no property says otherwise.
- The window of `LimitHolds` is bounded by the rule only where no request was late
  or released; with them the bound is the rule and their number.
- Symmetry over actors is used where only safety is checked, never with liveness.
- Deadlock is checked in `orders` and `shop`. In the others the bounds
  on what grows, or an empty queue, let a behaviour end.

### Fairness

- Nothing is assumed of sweepers: no process of this commit calls them, and no property
  says that an expired order is freed. What they may break is looked at in `shop`.
- `OutboxFairness` (run `queues`): `startOutboxWorker` starts a batch at every
  tick of a `setInterval`, in every process, and swallows its errors. A row that
  is waiting again and again is selected in the end (SKIP LOCKED skips only while
  another statement holds the lock), the backoff ends, and neither the handler nor
  the statement that marks the event fails for ever. Without the last two the
  property is false and should be.
- `SmsFairness` (run `queues`): the post-sale worker starts a round at every tick,
  a round that is alive goes on, time passes. Deaths are bounded. No text is
  assumed to be taken: one that is refused or fails too often ends as `dead`, and one whose
  last attempt dies or outlives its lease is stranded.
- `TaxFairness` (run `queues`): the tax worker runs round after round, a sender
  that is alive goes on, and the office decides what it was sent. Calls may fail
  and answers be lost, but not for ever.

## 4. Where code and documents disagree

Each of these runs checks one sentence of the repository, quoted in
`PROJECT.json`, which the code does not keep.

| Run (module) | Property | Counterexample |
| --- | --- | --- |
| `captured_money` (`Payments`) | `CapturedMoneyBuysGoods` | the bank captures money for an order that was cancelled or paid otherwise meanwhile; the settlement rolls back, the money does not |
| `late_sale` (`MCPos`) | `ClosedShiftAddsUp` | a sale that found its shift open is linked and settled after the shift was counted |
| `double_sale` (`MCTerminal`) | `SoldOnce` | the number of a sale is made anew by every rendering, so that a repeated sale is another sale |
| `vat_return` (`VatReturn`) | `DeclaredIsCollected` | an order that was packed before the return is asked for drops out of it |
| `vat_months` (`VatReturn`) | `CountedInItsMonth` | 1404 has 29 days in Esfand and `vat.ts` gives it 30: a sale of 1 Farvardin 1405 is in the return of both months |
| `cart_retry` (`Cart`) | `KnownCartIsUsable` | a payment that does not start leaves the browser with a cart that is closed |

Further properties that the code does not keep are stated in the modules beside
those that hold. To see a counterexample, put the property in the place of those
of the passing run that is named, as INVARIANT or, where marked *, as PROPERTY:

| Run | Property | Where |
| --- | --- | --- |
| `shop` | `ReservationLedger` | `inventory/src/index.ts:150`, the sweeper releases an order that was settled or cancelled after it was selected |
| `shop` | `OnlyUnpaidOrdersTimeOut`* | `inventory/src/index.ts:174`, update without a condition |
| `shop` with a coupon | `CouponReturned` | `inventory/src/index.ts:162`, the coupon is not released |
| `orders` with `branch` in `OrderWarehouses` | `PaymentNeverStarved` | `orders/src/index.ts:466`, an order reserved in a branch is settled from the default warehouse |
| `orders` | `CancelledOrdersKeepNoGoods` | `orders/src/index.ts:559`, goods of a paid order do not come back |
| `shop` | `NoWayBack`*, `ShortageIsNotShipped`, `DeliveredOnlyReturns`*, `ShippedStaysShipped`* | `orders/src/packing.ts:76,102`, `commerce/src/shipping.ts:148`, `orders/src/index.ts:551`: blind updates, a flag nobody asks |
| `shop` | `AnsweredSalesArePaid` | `pos/src/index.ts:97`, a sale that died between order and payment is answered unpaid for ever |
| `queues` | `DeadEventsRest`* | `db/src/outbox.ts:95`, no query reads the flag |
| `queues` | `NeverStranded` | `commerce/src/sms-send.ts:927-931` says that a text whose worker died is taken again and blocked by nothing; when that was its last attempt it is left `failed`, and waits for the admin |
| `tax` | `NeverTwoSenders`, `InvalidIsNotSent`, `NoteFiledOnce` | `tax/src/queue.ts:13-16,123-129`, `credit.ts:239`: a row is freed under its sender, a note is filed under two numbers |
| `office` | `RefundsWithinLine` | `returns/src/refund.ts:31-38`, rounding by the unit |
| `office` | `OneInvoicePerRequest`, `CompleteMeansReceived`, `SettledIsFinal`* | procurement; migration `014` lines 113-114 |
| `office` | `CeilingIsKept`, `ClosedStaysClosed`*, `EveryChangeIsLogged` | `commerce/src/checks.ts:11,13` (BR-36, BR-62) |
| `office` | `MenuIsNeverStale`, `NoDeeperLevel`, `NoCycle` | `catalog/src/categories.ts:150,279-282,371` |
| `office` | `OnlyOrphansAreRemoved` | `media/src/service.ts:8-10` |
| `office` | `NobodyIsShutOut` | migration `030` lines 68-74 |
| `office` | `SharesAreExact`, `EveryOrderSettles` | `coupons/src/coupons.ts:280`, a basket that names a variant twice, an order that comes to nothing |
| `office` | `NoSaleIsForgotten` | `accounting/src/index.ts:680`, a receipt of damaged goods takes no lock |
| `office` | `AccountIsTheStock` | `orders/src/index.ts:487`, "stock and ledger never drift apart": the supplier's invoice books extra costs and units that arrive damaged, receipts value sound units only and book nothing (`procurement/src/index.ts:502-753`, `accounting/src/index.ts:327-337`) |
| `office`, `MaxReversals` 2 | `RefundedIsSubtracted`, `DisagreementIsSeen`, `ReversedOnce`, `RefundSettles` | `reports/src/gross-profit.ts:18-27`, `accounting/src/index.ts:585-615`, `returns/src/service.ts:755-775` |
| `front` | `DiscountIsGiven`, `SignedInCanBuy` | migrations `045`, `001` line 210, `007` line 16 |
| `front` | `LimitAtMostDoubles` | `rate-limit/src/memory-store.ts:22-24` |
| `front` | `OnlyDeadSessionsAreCleared`*, `SignedOutStaysOut`* | `apps/web/src/middleware.ts:139` |
| `front` | `ShownAsRead`, `RefusedIsNotEdited`* | `reviews/src/reviews.ts:603` |
| `front` | `ErrorChangesNothing`*, `PanelComesFirst`, `PairsAreNotMixed` | `tax/src/credentials.ts:120-126`, `client.ts:305-313` |

**What a call of the public may say.** `verify` takes the gateway and the decision from its
caller before it looks at the row (`payments/src/index.ts:280,287`), and the sandbox accepts a
decision that says so. A payment of another gateway can thus succeed without money: the model
has it (`OtherGatewayAnswers`), such a payment bears a number of the sandbox, and
`GoodsHaveTheirMoney` tells the two apart by it. It does not say that goods leave for
captured money only, which the code does not keep.

Noticed while reading, without a run: a refund as store credit or by exchange debits and
credits the one account 2300, while the comment says that the liability moves
(`returns/src/service.ts:754-775`); the failure code of a payment is written
and rolled back by the error that follows (`payments/src/index.ts:301-309`), and
the message says that no money was taken, which a lost answer does not tell;
nothing verifies a payment whose callback never came; `pack` counts shelves from
which the order's own goods have already gone; two clicks make two shipments of
one order; an offline sale that is synchronised after its shift was closed is
refused. Without a caller in this commit: `resolvePrice`, `setPartnerStatus`,
`mergeCustomers`, `changeCredit`, `findOrCreateCustomer`, `setSetting`, and the
older flow of returns in `commerce/src/returns.ts`; `order_payment_lines` is
written by a seed script only.

## 5. What is proved

TLAPS checks every theorem from nothing; no statement is assumed besides the
named assumptions on the constants (`StockAssumption` and its like, one for each
module), which only say that defaults and null values are, or are not, members of
their sets, that limits are numbers, and that the sets whose members are counted
are finite. Theorems marked W also assume `WebShopOnly`: no sweeper runs, and
orders reserve in the default warehouse. This is the program as deployed, without
sales from branches; the first and the fourth line of the table in section 4 show
that neither half can be dropped.

| Theorem | States | Inductive invariant |
| --- | --- | --- |
| *OrdersProofs* | | |
| `TypeCorrect`, `StockBound` | types; no shelf over-reserved | `Safe`: both together, because `on_hand` stays natural on settlement only since `reserved <= on_hand` |
| `NoReservationLeaks` (W) | `ReservationLedger` | `Ledger`: `Safe`, every order on the default warehouse, and the ledger per shelf |
| `NoPaidOrderLacksGoods` (W) | goal U6, `PaymentNeverStarved` | from `Ledger`: the units of one unpaid order are part of the reserved ones |
| `GoodsLeaveOnce` | `GoodsLeaveOncePerPaidOrder` | `Shelves`: a settled order has left `pending_payment` for good, and sweepers hold no row that does not exist |
| `KeysAreUnique` | `OneOrderPerKey` | `Keyed` |
| `OrdersNeverGoBack` | `NoWayBack` | `Safe`: the property follows step by step from the types |
| `CouponsAreCounted`, `CouponsComeBack` | `CouponLedger`; `CouponsAddUp` while no sweeper runs | `Redeemed`: `Safe`, redemptions are of orders there are, and the counters count them |
| `OrdersImplementAllocation` (W) | refinement of `Allocation` | `Ledger`: each action maps to `Place`, `Settle`, `Drop`, `CallOff`, `Restock` or a stutter |
| *PaymentsProofs* | | |
| `PaymentsKeepOrders` | behaviours of payments are behaviours of orders | `Books` |
| `PaymentsImplementAllocation` (W) | refinement of `Allocation` by the payments | by `PaymentsKeepOrders` and `OrdersImplementAllocation` |
| `GoodsAndMoneyMatch` | `GoodsHaveTheirMoney`: goods leave for one successful payment, whose money the bank holds or whose number says that a gateway simulated it | `Books`: `Shelves`, `Locks` (who holds the row, what the bank answered) and the property |
| `SuccessNeverReopens` | `SuccessIsFinal` | `Locks`: only pending and failed payments are being verified |
| `CapturedMoneyIsRecoverable` (W) | `CapturedMoneyCanStillSettle` | `Books` and `NoPaidOrderLacksGoods` |
| *FulfilmentProofs* | | |
| `NothingUnpaidIsHandled` | `OnlyPaidOrdersAreHandled` | `Desk`: the order a request of the staff has read was paid, and payment is never undone (`Trusted`) |
| `StaffKeepsTheLedger` (W) | `ReservationLedger` under the staff | `Desk` and `Ledger`: blind writes touch settled orders only, which hold nothing |
| `DeliveryStands` | `DeliveryIsFinal` | `Desk` |
| *PosProofs* | | |
| `PosKeepsOrders` | behaviours of the desk are behaviours of orders | `Till` |
| `DeskKeepsTheShelves` | `NeverOverReserved` and `GoodsLeaveOncePerPaidOrder` at the desks of any warehouse | by `PosKeepsOrders`, `StockBound` and `GoodsLeaveOnce` |
| `OneSettlement` | `OneCallSettlesASale` | `Till`: only the call that made an order goes on without the mark "duplicate" (`Alone`), and a marked one never settles (`Fits`) |
| `SalesStay` | `SaleStaysInItsShift` | `Till`: the key of a linked order names its shift (`Linked`), and what a call has read fits its key (`Fits`) |
| `RepeatedSaleIsOneOrder` | `OneOrderPerKey` at the desk | by `PosKeepsOrders` and `KeysAreUnique` |
| `PageKeepsDesk` | behaviours of the page are behaviours of the desk, if the numbers it shows are numbers of a device (`NumbersOfDevice`) | a number that is shown was rendered |
| `OneNumberOneSale` | the three before, for the page: the second sale of the run `double_sale` needs a second number | by `PageKeepsDesk` |
| *QueueProofs* | | |
| `SentMeansDelivered` | `SentWasDelivered` | `AtLeastOnce`: a batch that is past its handler has delivered the first of its events (`Handling`) |
| `TextsAreSentRight`, `SentTextsRest` | `SmsHolds`, `SentStaysSent` | `Sending`: a row in a round's hand is marked and leased (`LeasesHold`), a call tells the truth about a row in its hand (`CallsAreTrue`), and calls made plus calls to come are no more than attempts counted and forgotten (`AttemptsAreCounted`) |
| `AcceptedWasFiled`, `OneSenderForAPacket`, `AcceptedIsNotUndone` | `AcceptedIsFiled`, `OneSender`, `AcceptedStays` | `Filing`: packets are numbered as they are built (`PacketsInOrder`), what a sender holds (`SendersInOrder`), and in which status a row is while somebody works on it, unless it was freed under him (`RowsOfSenders`) |
| *FrontProofs* | | |
| `RevokedKeysDoNotSign` | `CredentialsHold` | `Vault`: a keeper holds one credential, whose pair nobody saved before (`PairsAreFresh`), and what a sending has read was active when it began (`SeenWasActive`) |
| `SignInIsSafe` | `SignInHolds` | `SignIn`: the properties with the shape of requests; guesses are counted with the set of requests between count and answer |
| `WindowsKeepTheirLimit` | `LimitHolds` | `Limiting`: what a window has let through, against the row's count when the row is of that window, and nothing but late requests and silence when it is of an earlier one (`WindowsAreLimited`); the store in memory by what a sweep leaves (`UnexpiredIsShorter`, `SweptHasRoom`) |
| `PanelIsSafe`, `NobodyIsThrownOutByPages` | `PanelHolds` of the whole front; the same of the panel by itself | `Renewing`: the pages under way bring one token (`OneToken`), a pair on its way was used by nobody (`PairsAreNew`), and when the token of the browser was replaced the pair that replaces it is on its way (`OnItsWay`) |
| *ShopperProofs* | | |
| `CodesAreBounded` | `CodesHold` | `Entering`: an accepted code is used up and in one device's hand (`CodesUsedOnce`), one of a purpose is unused (`OneLive`), and codes of the hour plus requests that counted them are bounded (`HourCounted`) |
| `OneOrderAsShown` | `CartHolds` | `Shopping`: a checkout holds the row of an active cart (`CartsAreHeld`), orders are of different carts, and what a tab shows is the total of the cart the browser knows (`TabsShowTheCart`) |
| `ReviewsAreInOrder` | `ReviewsHold` | `Reviewing`: rows in order, and what a call has read still holds of the row when its statement comes (`ClickInOrder`) |
| *OfficeProofs* | | |
| `MediaIsSafe` | `PicturesAreKept` | `Storing`: a file that is about to get its row is new (`ComingAreYoung`), and so is one that got it behind the back of a sweep (`LateAreYoung`); what a sweep is to remove has no row and is not about to get one (`DoomedAreOrphans`) |
| `ValueIsRight` | `ValuationFollowsStock` | `Valuing`: one transaction at a time moves units (`OneMoves`), and what it has read of the valuation is worth what is in it (`WhatWasReadHolds`); the account is compared less what invoices booked for goods that did not come or came for another price (`afloat`) |
| `CeilingIsSafe` | `CeilingHolds` | `Endorsing`: types, with the ceiling for what is open, what calls have checked and what they may reopen (`WithinCeiling`) |
| `LedgerIsSafe` | `LedgerHolds` | `Bookkeeping`: what is paid has its entry (`BuysMakeSense`), the accounts of a month are the sums of its entries (`SalesAreBooked`), and `DebtsAreBooked` |
| `PurchasesAddUp` | `PurchasingHolds` | `Buying`: what a call has read still holds (`CallsHold`), for no two calls receive one line or pay one invoice (`CallsAreApart`) |
| `ReturnsAreSafe` | `ReturnsAddUp` | `Returning`: what a return was given, by how far it went (`ReturnHolds`), and the account as the sum of what is due and not paid in money |
| `WaitersAreSafe` | `WaitersAreTold` | `Alerting`: a row in hand has been sent nothing but by the call that is about to mark it (`RowsInHand`), and those who wait plus those who found room are fewer than the limit and the requests (`RoomIsLeft`) |
| `NoRialIsLost` | `AmountsAddUp` | `Amounting`: a bill is what basket and coupon come to; the rest is arithmetic |
| `TreeStaysATree` | `CatalogueHolds` | `Cataloguing`: unless two moves crossed, one statement at most is about to set a parent, the tree is a tree now and after it, and the depths it brings are those of that tree (`DepthsHold`); the cache is as good as the tree unless a clear is owed (`MenusHold`) |
| `EachYearCountsOnce` | `CountedOnceAYear`, for every year | none: between the first day and the last of a year of `vat.ts` each day is in the period of one month (`OnePeriodADay`) |

The counting behind `Ledger` and `Shelves` is done with cardinalities: a basket's
units of a variant are a finite set (`Units`), which splits when an order joins or
leaves (`UnitsSplit`, `UnitsOfOne`) and depends on the baskets alone
(`UnitsAgree`). The bounds of texts, logins and codes are of one pattern: what was
counted plus the finite set of actors that have counted and not acted yet.

**Sums.** The books are sums over finite sets, which the community modules define by
a fold, and no fact about a fold is at hand. `OfficeProofs` begins with what is needed:
the sum over nothing (`SumEmpty`), that any term can be taken out (`SumSplits`), that equal
terms have equal sums (`SumSame`). They come from partial sums whose existence is proved
by induction over the number of terms, as a fact about one function rather than about a
schema. `InvoiceAddsUp`, `PayableIsOwed`, `NotesAreUncleared` and the ceiling of
the cheques then follow step by step: a row changes, one term is taken out and put back.

**Shares.** A discount, a tax or a cost is divided by the largest remainder. The parts
rounded down leave less than one rial for every line with a weight, so that the rials left
over are fewer than the lines, and the places of the lines by remainder and index are a
permutation of 1 to their number: as many lines get one rial more as there are rials left.
Hence a line gets a rial more at most, and never more than it costs.

**The tree.** A category's depth is the size of the set of its ancestors, which is the least
set that is closed under "parent of". A tree is one in which no category is its own
ancestor. What a move does to the ancestors of the branch and of all others is a lemma on
such closed sets; that the statement which sets the parents brings the depths of the new
tree is then an equality of functions. What the theorem says of depths and cycles ends when two
moves have crossed, as the code's check and update are separate statements
(`categories.ts:371`).

**The panel.** `PanelHolds` is about requests that pass through processes of the web
front that share nothing. The invariant follows the one token of the browser: from the page
that asks for its pair, through the answers that wait in the process, to the page whose answer
carries the pair home. A token is replaced only where its pair is on this way, or
lost, which the property excepts.

**What the proofs changed.** Statements that turned out wrong or unprovable were corrected
in the models, against the source. `CeilingHolds` counted a cheque once for every call
that was about to reopen it; it counts a cheque once now. `Catalogue` had an edit that changes a
name and nothing else, while the trigger of migration 029 fires on the column the update
names, and computes the depths of the whole branch again: `Relabel` does so now, and
`Reorder` is the update that does not. `PanelHolds` is stated of the whole front, in which
the staff also sign in without a browser.

**What is only model-checked.** `EveryEventIsSent` and `QueuesDrain` are liveness
properties: they need fairness and ENABLED, which the prover does not handle. For every
other property of a passing run there is a theorem in the table. The runs of section 4 are
counterexamples and stay with TLC.

## 6. What is not modelled

The parts listed as `not_modelled`, and what is left out of those listed as
`partly`, in `PROJECT.json`, with the reason at each. Most of the repository's
lines are of this kind: pages and components of the web front, controllers that
parse, authorise and call one service, list and search queries, reports, exports
and PDFs, seed, load and deployment scripts. They keep no state that other parts
rely on.

Within the modelled parts: rows that are only written (status history, movements,
audit), numbering, the wording of texts and mails, authorisation in the
controllers, the runner of migrations, and quantities of more than one variant in
the instances (the proofs about orders hold for any number). READ COMMITTED is
modelled as atomic statements and transactions: each transaction here locks the
one row it decides on, or decides by a conditional statement or a unique index,
before it reads anything else that its outcome depends on; where it does not, it
is several steps.

## 7. Plan

Modelled, checked and proved so far: the parts of section 2. What would come next, in
this order:

1. The liveness properties by hand-written argument, or a prover with fairness.
2. Abstract specifications of the queues (an event or a text that is delivered at least
   once) and of the stock of a return (goods that come back once), with refinements by
   `Outbox`, `SmsQueue` and `Returns`, as `Allocation` is for orders.
3. The writers that are left out of the parts listed as `partly`: the older flow of
   returns, mails, the adoption of guest orders, manual entries and the closing of a year.
4. A composition of orders, accounting and returns on shared rows, in which the
   journal of `Ledger` is written by the transactions of `Orders`.

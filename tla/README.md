# Orders, stock, points, sign-in and the mobile checkout of the modern-trade shop in TLA+

The shop is a TypeScript backend (Fastify, `src/backend/src`) over PostgreSQL
(`src/database`), used by a web shop, a mobile application, tills and staff. Its
core is the cash-on-delivery pilot: a customer fills a cart, checks it out into
an order whose units are reserved, staff pick, pack and dispatch it, a courier
hands it over against cash, and tills sell from the same stock. Customers sign in
with a code or a Google account, collect points, and may join a founding campaign.
The backend runs in several processes that share nothing but the database, so most
questions of correctness are about interleaved transactions; the mobile
application's are about calls and answers that get lost. The repository's tests cover
them one at a time, apart from one concurrent duplicate checkout;
`implementation/RELEASE_RISKS.md` (R-016) lists concurrency as not tested.

## The system's parts

| Part | State it keeps | Operations | Depends on |
|---|---|---|---|
| COD orders (`checkoutService`, `webOrderService`, `routes/webOrders`) | `web_orders`, `web_order_items`, `order_fulfillment`, `cod_cash_collections`, `cod_cash_settlements` | checkout, confirm/pick/pack, assign courier, dispatch, deliver, cancel (customer, staff), payment status, cash settlement | stock, carts |
| Stock (`cartValidationService`, opening stock in `routes/admin` and the catalogue import) | `batch_inventory`, `inventory_transactions`, `stock_reservations` | opening stock, availability query, deduction | advisory lock per product and store |
| Counter sales (`posService`) | `sales`, `sale_items` | create, park, void, complete | stock |
| Carts (`shoppingCartService`, `routes/shoppingCart`) | `shopping_carts`, `cart_items` | get or create, add, change, remove, clear, replace, merge, clean up | read and converted by checkout |
| Batches (`batchService`, `routes/batches`, the loops over batches in `webOrderService` and `posService`) | `batch_inventory`, `inventory_transactions` | deliver and sell what expires first; add, deduct, adjust, merge without locks | orders, sales |
| Legacy order lifecycle (`orderLifecycleService`) | the same `web_orders` | transition, cancel, without locks; return and refund are disabled | triggers on points |
| Loyalty pilot (`loyaltyMvpService`, triggers of `022`, `031`) | `customer_loyalty_accounts`, `loyalty_ledger` | enrol, earn on a sale or delivery, redeem, reverse, reconcile | sales, orders |
| Sign-in (`otpService`, `sessionService`, `firebaseCustomerIdentityService`, `routes/auth`, `customerService`) | `customer_otp`, `customers`, `customer_external_identities`, `customer_sessions` | send a code, bring it back, register, verify, link, sign in, merge, log out | staff |
| Founding campaign (`routes/founding`, `035`) | `founding_campaign_state`, `founding_members` | join | sessions |
| Mobile application (`modern_trade_flutter`: `checkout_repository`, `app_state`, `api_client`, `cart_controller`) | cart and checkout attempt on the telephone (SharedPreferences) | change the cart, check out, retry after errors and restarts | carts, checkout |
| Web shop (`frontend`) | cart in the browser, checkout key | see "Not modelled" | carts, checkout |
| Legacy points, transfers, receiving, purchase orders, payments, refunds, shifts, offline sync, zones, analytics | their own tables | see "Not modelled" | |

How they interact: carts, orders, tills, batch routes, points and sign-in hardly
call one another; they meet in tables, and in triggers on them. What keeps them
apart are (1) the row lock of an order, sale or cart (`SELECT .. FOR UPDATE`), (2) the transaction-level advisory lock of
each product at a store, taken in product order by checkout, delivery and
completed sales, but not by opening stock, cancellation or dispatch, (3)
the advisory lock of a customer's idempotency key, and (4) unique and check
constraints, which two processes hit instead of a lock. PostgreSQL runs at READ
COMMITTED: each statement sees what was committed before it began.

What is hard: interleavings of these transactions and of the unlocked
statements of the cart routes; values read before a lock and used after it;
failures half way through a multi-line delivery; repeated requests; and promises
made at checkout that have to survive a long protocol until delivery. The list,
line by line, is `PROJECT.json` "hazards".

What makes each part correct:

* orders: reservations and cash follow the order's status; final states are
  final; every order that left the store can be handed over;
* stock: what is reserved is on hand; every unit received is on hand, delivered
  or sold;
* carts and checkout: one order per cart, holding the cart as it was converted;
  a repeated request gets the first one's order;
* transactions: their interleavings look like atomic steps, and all of them end;
* batches: a delivery takes units that are there, from the batch that expires
  first, whatever staff do to the rows meanwhile;
* points: the balance follows the ledger and is never negative; a purchase earns
  once and is reversed once, a key redeems once;
* sign-in: a code signs in once and bears a bounded number of guesses; an account
  signs in one customer; nobody is signed in unverified;
* mobile application: an order holds all that was submitted; a retry gets the order,
  or a conflict only if units came to the server's cart twice or late; the customer
  hears of either in the end;
* campaign: numbers without gaps or doubles, verified members only, no place lost.

## Modules

| Module | What it is |
|---|---|
| `UnitCount` | `SUM(quantity)` over rows, as a cardinality so that the library's theorems apply. |
| `StockPromise` | Abstract specification: stock on hand, promised, received, issued; five kinds of change. It knows no orders, sales or locks. |
| `CodOrders` | Orders, reservations, assignments, cash, counter sales and stock. One action is one committed transaction. |
| `StockTxns` | The transactions of `CodOrders` that move stock, statement by statement, with locks and failures. |
| `CartCheckout` | Carts, their edits and merging, and the checkout request under idempotency keys, statement by statement. |
| `Batches` | The batches of one product: deliveries that lock rows next to batch routes that do not. |
| `OrderLifecycle` | The status of an order under `WebOrderService` and under the unlocked legacy service. |
| `LoyaltyMvp` | Extends `OrderLifecycle` with sales, tills, accounts and the ledger: triggers and redemptions. |
| `SignIn` | Codes, customers, linked accounts, sessions, statement by statement. |
| `Founding` | The campaign's row, its members, and requests to join. |
| `Accounts` | `SignIn` composed with `Founding` (INSTANCE): joining needs a live session. |
| `CheckoutApi` | The calls a customer's application makes, the server that works on each in two steps, and the network between them. |
| `MobileCheckout` | Extends `CheckoutApi` with the mobile application and the attempt it keeps. |
| `MC*` | Instances for TLC. |
| `*_proofs` | Theorems and proofs: `UnitCount`, `CodOrders`, `Batches`, `LoyaltyMvp`, `Accounts` (with `SignIn` and `Founding`), `MobileCheckout`, `StockTxns`, `CartCheckout`. |

Why three state machines over checkout and delivery. `CodOrders` answers what the whole
protocol guarantees; it may take a transaction
as one step only because `StockTxns` shows that the locks make it so: both are
proved to implement the same `StockPromise` and to keep the same invariants. `CartCheckout`
is the front half of checkout, before stock matters; there the stock part of
checkout is one step, for the same reason. `CheckoutApi` goes one step further out: it is
about whole calls that get lost or come late, and keeps of each the two steps between
which others matter, its look without a lock and its write.

### CodOrders

`status`, `kind`, `payment` are columns of `web_orders`; `items` its lines;
`reservation` the status of the order's reservation rows, which the code always
changes together; `assignment` and `cash` the rows of `order_fulfillment` and
`cod_cash_collections` with its settlement. `onHand` is the sum over a product's
batches, and `received` and `issued` are sums over `inventory_transactions`.

A refused request rolls back and is no step. A key is a (customer, idempotency
key) pair; `NONE` means no order exists. `CreateCodOrder` takes the contents of
a cart as a quantity per product, that is, one line per product, as the web
shop's `PUT .../items` guarantees (`routes/shoppingCart.ts:102`); two lines of
one product are `CartCheckout`'s subject. Reservations of orders do not expire:
both queries count rows with an order whatever `expires_at` is
(`cartValidationService.ts:175`, `posService.ts:333`). The reservation rows made
for carts by the privileged routes are not modelled, nor are the statuses
`PENDING`, `RETURN_REQUESTED`, `RETURNED` and `REFUNDED`, which no order of this
checkout reaches. The legacy lifecycle breaks what this module guarantees about
reservations, cash and stock, and the batch routes, which ask for no advisory lock,
can take units from under a reservation: `NoOversell`, `DeliveryNeverShort` and
`StockConserved`, here and in `StockTxns`, and the theorems about them, are about a
shop where both rest. `OrderLifecycle` and `LoyaltyMvp` are about one that uses the
lifecycle, `Batches` about one that uses the batch routes. `CreateSale` and `AddOpeningStock` leave out their repeats,
which answer with the first result and change nothing. `VoidSale` is the void route,
which also voids completed sales although `PRODUCTION_READINESS.md:27` says they
are blocked; the stock stays issued, so a voided sale that was completed has a
status of its own here, `VOIDED_SOLD`.

### StockTxns

A transaction is in `running` between BEGIN and its end; `lock` holds the advisory
locks, `done` the products it has checked or taken, `seen` what a sale read
before its second query. Its writes show when it commits, and `Fail` may end it
at any statement. The row lock of an order is `OrderRowFree`. Statuses between
checkout and dispatch are one status `PLACED`, since they touch no stock. Opening
stock and dispatch are single steps: each is one write that nobody reads half of.
That nothing is oversold and no delivery is short is part of the promise
(`KeepsStockPromise`) here, and stated by itself in `CodOrders`.

### CartCheckout

`request[q].pc` tells how far a checkout is: `sent`, `fingerprinted` (key lock
held, cart read without a lock), `new` (no order under this key), `locked` (cart
and lines locked), `answered`. Locks are derived from it. `call[e]` is the write
a cart route is about to do after its check, so that a checkout or another edit
can come between. A row's id is never used again (UUIDs). Deleted rows make an
update or a delete a no-op, as in SQL. An INSERT waits for a checkout that holds
the cart's row (foreign key), an UPDATE or DELETE for one that holds the line;
when they go on, the cart may be `CONVERTED`, and the code writes all the same.
Several check statements of one call are one `Look..` step. A merge
(`LookAtCarts`, `MergeLine`, the same `InsertLine` or `UpdateLine` as an addition,
`DeleteCart`) goes line by line, its next step kept in `then`; any call may break
off between two statements (`CallFails`). A cart that was ordered can still be
deleted by a merge that began before; the order stays and keeps, in the model,
the cart it was made of, where the code sets `cart_id` to NULL. Quantities above
999, prices, availability and the address are left out; the clean-up of expired
carts has no caller (its route answers 403).

### Batches

One product in one shop; batches are numbered by expiry. `Begin` is the advisory lock
and the snapshot of the SELECT, `LockRow` the row locks in its order: a row whose
quantity is gone when it is locked is skipped, as PostgreSQL re-checks the WHERE
clause. `held` is what the delivery has read, `take` what it will write at
`Commit`. The batch routes are requests of separate statements, or single
UPDATEs, which wait for a row lock (`RowFree`) but never ask for the advisory
lock. Quantities may become negative (`adjustBatchQuantity` refuses after it has
written). A counter sale runs the same loop; its comparison with the reservations
is one of the reasons for `RollBack`.

### OrderLifecycle and LoyaltyMvp

`OrderLifecycle` has the status only: `UpdateWebOrderStatus` for every transaction
under the row lock, `CheckTransition` and `TransitionOrderStatus` for the two
statements of the legacy service. What else the handlers ask for is left open, so
that whatever holds here holds with the guards as well. `LoyaltyMvp` adds the triggers,
which run in the transaction that changes the status (`ChangeOrder`,
`UpdateSaleStatus`, `VoidSale`), and redemptions, which hold the sale and then
the account (`asked`, `locked`). The triggers lock the account inside their
transaction, so each is one step that waits for redemptions (`AccountFree`).
A trigger also looks for an earlier entry of the source before the lock; only one
transaction at a time changes the status of a source, hence the same step.

### SignIn, Founding, Accounts

Each statement of a call is an action, and `call[c]` holds what the call has read:
`comparing` (a usable code found), `proved` (consumed), `unknown`, `unverified`,
`verified`, `linked`. Whether the code brought back is right is a choice
(`WrongCode`, `Consume`). A code's age has four values, so that cool-down, expiry
and clean-up happen without a clock. Customers are known by telephone. Staff
create, verify and merge customers at any moment. `signIns` counts the sessions of
a code; no column does. `Founding` is the join transaction alone, over abstract
customers; `Accounts` gives it those who have a session when they ask.

### CheckoutApi and MobileCheckout

A telephone's call is in `awaited[c]` from the sending until the application has
dealt with the answer. The server works on it in two steps. `Begin` is what it looks at
without locking the cart: whether the cart is active (`addToCart`), whether there is
one (`getOrCreateCart`), or, under the lock of the key, the lines for the fingerprint
and whether the key has an order (`createCodOrder`). `Process` is the answer,
with the write if there is one. Other calls may come between, so a late
upload may be written between the fingerprint of a checkout and its order, or after it,
for `AddToCart` does not look at the cart's status again. An order has the `lines` it
was made of, and `print`, the lines when the fingerprint was taken, which repeats are
compared with (`SameRequest`). Rows of one product in a cart count as their sum, which is
exact here because the application only adds; that the fingerprint lists two rows in
either order could give one more conflict, in a cart that holds extra units anyway.

`Leave` is the end of waiting: an error, a refusal, a time-out, or the application
being closed. A call that was left is lost, or is in `late[c]` as far as it has come
and goes on at any later time, between the calls of the next try; an answer
nobody waits for is lost. Refusals and errors leave nothing behind, as `CartCheckout`
and `StockTxns` have it, so they are no action of the server.

`attempt[c]` is the record under `checkout_attempt_v1`, saved before the first call
and after each answer; it survives a restart, as `Stop` leaves it alone. Saving it
and sending the next call are one step, since a restart in between is a call
that is lost. `Submit` takes the kept attempt when its products are those of the
cart, as the fingerprint has it, or makes a new one. `Confirm` and `ClearCart` are
two steps, so that the application may stop between them: the attempt is gone by
then, and submitting the same cart again is a new order. An order's `from` and `asked`
are kept for the properties only. An answered upload that got lost is repeated and adds
its units again, so an order may hold more than was asked; `NothingMissing` states
the direction that the code ensures. A repeat may be a conflict: with another form by
the rules of the keys, with the same form only when the cart has got extra units
(`ConflictOnlyAfterExtras`). `Dispute` shows it; the attempt stays, and its later tries
get the same answer until the customer changes the cart. `HeardInTheEnd` therefore
promises that the customer hears of the order or of the conflict, not of the
order. A try whose kept cart was ordered by another telephone is refused again and
again (`shoppingCartService.ts:179`), and no property claims otherwise.

## Runs

| Run | Bounds | Distinct states | Shows |
|---|---|---|---|
| `cod_orders` | 2 orders, 1 sale, 1 product, lines of 1-2 units, at most 3 units received | 57 278 | safety of the protocol, refinement of `StockPromise` |
| `stock_txns` | 2 orders, 1 sale, 2 products, lines of 1 unit, 1 unit of each received | 20 126 | the same promise, statement by statement, with failures; no transaction waits for ever |
| `cart_checkout` | 2 requests, 2 keys, 2 carts, 1 editor, lines of 1-2 units, 2 rows ever inserted, 2 units in stock | 405 032 | duplicate checkouts, edits and merges during checkout |
| `cart_checkout_live` | 2 requests, 2 keys, 1 cart, 1 editor, lines of 1 unit | 43 399 | every request is answered |
| `batches` | 2 batches, 2 deliveries of 2 units, 2 staff requests, adjustments of 1, quantities up to 2 | about 1 310 000 | deliveries next to unlocked batch routes |
| `loyalty` | 1 customer, 1 order (2 points), 2 sales (1 point each), 2 tills, 2 clerks, 1 key | about 257 000 | ledger, replays of the lifecycle, redemptions |
| `sign_in` | 2 calls, 2 telephones, 1 Google account, 2 codes, 2 attempts | 1 873 430 | codes, links, verification |
| `accounts` | 1 call, 2 telephones, 2 codes, 2 requests for 1 place | 427 275 | campaign over sign-in, its liveness |
| `mobile_checkout` | 1 telephone, 2 products, 1 form, 2 carts, 2 keys, 1 unit of a product in the telephone's cart, 2 in a cart of the server | 432 988 | retries, restarts and late calls of the application, which write between the steps of others |
| `pickup_dispatch` | as `cod_orders` | violation | finding 1 |
| `duplicate_submission` | 2 requests, 1 cart, 1 editor | violation | finding 2 |
| `duplicate_lines` | 1 request, 1 cart, 2 editors | violation | finding 3 |

Why the bounds are enough: every conflict in this code is between two transactions
over one order, cart, key or product, or over two products in opposite order; the
bounds give each of these two parties and, where units are counted, less stock than
the parties want together. The named bounds are `StockCap` (units received), `MaxQty`,
`MaxRows`, `MaxUnits` (units of a batch, or of a product in a cart of the server),
`MaxCarts` (carts ever made), `MaxKeys` (keys ever made) and `MaxCodes` (codes ever
sent); all are arbitrary in the theorems. One telephone has a call under
way and a late one at the same time, two products let an upload stop half way, two
carts and two keys let a second attempt begin, and two units let an upload be
repeated; several telephones are covered by the theorems. In `loyalty` the tills share
one account and one key, and the order and the sales together earn more than one
redemption takes; in `accounts` there is one place for two customers, and `sign_in`
has a second code and a second attempt. Symmetry permutes orders, requests, keys,
carts, editors, calls, telephones, sales, tills, clerks and deliveries, which no
action tells apart, in runs without liveness. Deadlock is not checked: when all orders
are final and the stock bound is used up, the shop has nothing left to do, and the
same goes for batches at their bound and requests that are all answered.
`EveryTransactionEnds`, `EveryRequestAnswered`, `JoinEnds` and `HeardInTheEnd` state
what a deadlock check could not, that nobody is left waiting.

Each property is also checked to fail when the code is changed the way a mistake
would change it: the definitions named `Bug..` are these changes.

Fairness: only statements of a transaction that has begun, or of a request that was
submitted, are fair, because the server runs a handler to its end. Waiting for a
lock is strongly fair because PostgreSQL grants a lock in the order of its queue.
In `Founding` the lock of the campaign's row is strongly fair and the statements
after it weakly. In `MobileCheckout` the end of waiting is weakly fair, because each
call has a time-out (`api_client.dart:109`), and the rest strongly: `HeardInTheEnd` is
about a customer who keeps submitting, as the application asks after an
error, with a network and a server that fail many times but not for ever.
Elsewhere customers, staff and failures are never assumed to act.

## What the runs found

1. **Pickup orders cannot be handed out** (`pickup_dispatch`). Dispatch asks every
   order for a courier assignment (`webOrderService.ts:366`), and the assignment
   route refuses pickup orders ("Pickup orders do not require delivery assignment",
   `routes/webOrders.ts:226`). The order stays packed with its units reserved until
   it is cancelled.
2. **A duplicate can be a conflict** (`duplicate_submission`). The fingerprint stored
   with an order is of the cart before it was locked; after an edit in
   between, repeating the request for the cart as ordered is answered
   `IDEMPOTENCY_CONFLICT` instead of the order. In the mobile application the edit may
   be its own late upload, which is written even to a converted cart
   (`shoppingCartService.ts:202`): every retry after that time-out is a conflict, and
   `BACKEND_SECURITY_REQUIRED.md:7`, which promises the original order "including after
   a client timeout", is not kept. `mobile_checkout` has these steps; what it shows to
   hold is that a conflict has no other cause.
3. **Two lines of one product oversell** (`duplicate_lines`). Simultaneous
   additions insert two lines, and checkout compares each alone with the stock.

## Proofs

`CodOrders_proofs` proves, for any finite sets of keys and sales, any set of
products and any natural `MaxQty` and `StockCap` (assumptions `KeysFinite`,
`SalesFinite`, `MaxQtyIsNat`, `StockCapIsNat`): type correctness,
`ReservationsFollowOrders`, `CashMatchesDelivery`, `NoOversell`,
`DeliveryNeverShort`, `StockConserved`, the action property `FinalStatesStay`, and
that `CodOrders` implements `StockPromise` (`PromiseKept`).

The argument. `Consistent` joins the facts about one order (reservation, status,
assignment, cash and payment move together); with `TypeOK` it is inductive
(`OrderInv`). `StockInv` adds `NoOversell` to it.
`NoOversell` alone is not inductive: a delivery takes units from `onHand` without
asking for reservations, so it needs to know that the order it delivers is
among those that reserve, which `ReservationsFollowOrders` gives; then delivery lowers
both sides by the same units. With it, `DeliveryNeverShort` follows because
one order's units are part of the total, and `StepMovesPromise` shows that each
action changes stock in one of the five ways of `StockPromise`, from which the
refinement follows. The arithmetic rests on the lemmas of `UnitCount_proofs`: a
total is a natural number, depends only on its rows' quantities, is zero
without rows, and grows or shrinks by the quantity of the row that is added or removed.

`StockTxns_proofs` proves the same of the transactions statement by statement, for any
orders, sales and products under `StockTxnsAssumptions`: types, `StockConserved`,
`FinalStatesStay`, the refinement of `StockPromise` (`PromiseKept`), and two
invariants that no run lists: `ReservedOnHand` (`NeverOversold`: what is reserved is
on hand after every statement) and `WaitsAscend` (along a chain of transactions that
wait for each other's product locks the products ascend, so no circle can close; the
locks of rows are not part of it). The inductive invariant `IInv` says what the locks are for.
A transaction begins in a status that stays until it ends (`BegunRight`), holds the locks
of the products it has worked on (`LocksAreHeld`), and what it has checked under a lock
is still true (`ChecksStillHold`: its units and those reserved fit in what is on hand;
`ReadStillHolds`: what a sale read of the batches is still there). So only `ReservedOnHand`
is about stock; it is not inductive without the checks, since a checkout reserves on the
strength of what it compared several statements ago. `StepMoves`, `StockStep` and
`StepWorks` say once what each kind of step does to stock, locks and checks; the
conjuncts of the invariant and the refinement all follow from these.

`CartCheckout_proofs` proves its five safety properties for any requests, editors, keys,
carts, products and bounds (`CartCheckoutAssumptions`: requests, carts and products are
finitely many). The inductive invariant `CInv`: one transaction at a time works on a key,
and once it has seen that the key has no order there is none (`KeyIsLocked`); one
transaction at a time holds a cart, which stays active and as it was read
(`CartIsLocked`); the cart of an order is closed for good, and the order carries its
fingerprint (`OrderedCartsClosed`). So an order is made of a cart without one, which gives
`OneOrderPerCart`; a refusal comes only where the key has no order, which gives
`RepeatIsRecognised`; and equal fingerprints mean one cart, which gives
`AnswerIsForTheCart`. All edits together are one lemma (`EditStep`): whatever they do,
they leave a cart that is held, and its lines, alone (`EditEffect`), because they wait for
the row of the cart or of the line.

`Accounts_proofs` has three parts. The first proves the four invariants of sign-in for any
sets of telephones, accounts and calls and any limits (`SignInAssumptions`). The inductive
invariant `IInv` joins them with types and with what a call in each stage may rely on: a
call that has consumed its code is the only one past that point with that code, and the
code has opened no session yet; a call that is `verified` or `linked` is for a
verified customer, since no action takes the verification back; one that is
`linked` has its account linked to its customer, since no action changes a link.

The second proves `FoundersNumbered` and `NoPlaceLost` of the campaign alone, from `FInv`: a
request that holds the row knows the count (`number = allocated + 1`), and only one does.
The third puts them together: `Accounts` implements both parts
(`AccountsImplementParts`), so that what was proved of each holds of the whole, and
`FoundersAreVerified` needs one link more, that a request on its way is for a
verified customer even after the session has ended.

`LoyaltyMvp_proofs` proves the five properties of points. `LedgerRunsAlong` rests
on the account lock: a till in `locked` has read the balance the account still has.
`SourceEarnsOnce` does not depend on the order statuses at all, only on the lookup
before each posting, which is why the legacy lifecycle cannot break it.

`Batches_proofs` proves types, `DeliveriesNeverOverdraw`, `EarliestExpiringFirst` and
`LinesAddUp`. The invariant: while a delivery holds a row, its quantity is what was read, the row
is there, nobody else holds it, and what is taken is at most that; batches already
passed were taken to the last unit while units were still missing. For `LinesAddUp` it
also says that what is taken and what is left make up what was asked for
(`LeftIsRight`); the sum over the batches is `TotalOf` of `UnitCount`, which grows by
what is taken from the next batch because nothing was taken from it before.

`MobileCheckout_proofs` proves types, `ConflictOnlyAfterExtras` and `NothingMissing`. The
invariant `Inv` says what the calls on their way, late ones too, and the orders have
in common: a key is bound to one cart and to what was submitted (`OneTryPerKey`),
that of its attempt if the attempt is still kept; what an attempt counts as uploaded is
in that cart (`UploadsThere`); and carts only grow, before an order and after. So what was
asked for is in the fingerprint, and the fingerprint in the cart as it is now
(`AskedThere`, `OrdersKept`), and where a repeat finds other lines than the fingerprint
has, there are more of some product than were asked for.

Every safety invariant and every action property of a passing run is proved. Only
model-checked are `EveryTransactionEnds`, `EveryRequestAnswered`, `JoinEnds` and
`HeardInTheEnd`: liveness under fairness, and ENABLED, are beyond the prover. The three
runs that expect a violation refute statements of the documentation and have no theorem.

## Plan

1. Theorems that join modules: that the transactions of `StockTxns` implement those
   actions of `CodOrders` that move stock, each at its commit.
2. `Batches` as a refinement of the sums of `CodOrders` when the batch routes rest;
   fractional quantities and the rounding of the availability query.
3. `PooledConnections`: a handler that returns a connection inside a transaction
   (`routes/webOrders.ts:223`).
4. The web shop's checkout over `CheckoutApi`: its keys and carts live in the page,
   and it asks for a cart at each try (`app/checkout/page.tsx:174`).
5. `OfflineSync`, when the repository takes it out of its deferred features.

## Not modelled

* **Reservation routes** (`stockReservationService`): the server registers none of
  them, and nothing else calls the service except the legacy cancellation, which
  finds no row to release.
* **Legacy points, earn lots, promotions**: a second points book that only older till
  routes write, next to the ledger of the pilot. The void route looks there for
  entries of type `SALE`, which the pilot's triggers do not write.
* **Payments and refunds**: off by default (`ENABLE_ELECTRONIC_PAYMENTS`), and the
  webhook's INSERT fails as written (`paymentService.ts:201`: its conflict target
  matches only the partial index of `014_phase07_integration_safety.sql:6`).
* **Transfers, receiving, purchase orders, shifts, tenders**: documents whose status
  an UPDATE sets without looking at the old one, and which move no stock or cash.
  There is no protocol, so every property would be false or a restatement.
* **Offline sales, hardware, advanced analytics**: deferred features.
* **Web shop**: the checkout page is a candidate for the plan. Its retry after a lost
  answer is answered `IDEMPOTENCY_CONFLICT`, since the cart is another one by then;
  `BugCartForgotten` in `MobileCheckout` is the same mistake there.
* **Delivery zones, addresses, prices, analytics, audit, user interfaces** compute
  values or display them. They are most of the repository's lines (the front
  ends and the reporting services alone), and keep no protocol to check.
* **Parts of modelled components**: prices and availability in carts, costs and
  quality exceptions of batches, staff sessions, deliveries ordered in the mobile
  application (the server asks for an address id that it does not send), two
  submissions at once in it, and what the legacy
  cancellation does to reservations (nothing; see the hazards).

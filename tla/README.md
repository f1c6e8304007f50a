# A verification project for the scalable e-commerce API

TLA+ models of the services of this repository, checked with TLC on small
instances, with theorems about them that TLAPS proves for every instance. Paths
are relative to the repository (`product-service` is `src/product-service`).

## 1. The system

A gateway forwards HTTP requests to four NestJS services. The services have a
PostgreSQL database each (through Prisma), talk to each other over RabbitMQ, and
product-service caches in Redis.

| component | state it keeps | operations |
|---|---|---|
| product-service, stock | `Product.stock`, `Product.reserved`, `StockReservation` rows | create, update, delete, `inventory.check`, `stock.reserved` |
| product-service, categories | the `Category` rows (a forest through `parentId`, `hasSubcategories`), cached categories and the cached tree | create, update, remove, bulk updates, findById, getProducts, getBreadcrumb, getCategoryPath, getCategoryTree |
| order-service, checkout | the `Order` rows, unique by `idempotencyKey` | `create` with three calls to other services |
| order-service, life cycle | `status`, `paymentStatus`, history, `Payment` and `Fulfillment` rows | processPayment, rejectOrder, cancelOrder, refundOrder, updateFulfillment, updateStatus, updatePaymentStatus, and the events that call them |
| order-service, items | the lines and the totals | addItems, removeItem, updateShippingAddress, deleteOrder |
| payment-service | none of its own | payment link for `order.created`; links of any amount for any order (`POST /payment`); success and failure pages that call `order.update_payment_status` with a five-second time-out |
| user-service | users with password hash, verification token and reset link, sessions, roles, audit rows | register, verify, login, refresh, logout, forgotten password, reset, revocation, deletion, RPC lookups |
| gateway | none | guards, forwarding with a ten-second time-out, conversion of failures |

How they interact:

- `POST /order`: order-service asks product-service what is in stock
  (`inventory.check`), stores the order, asks again, sends the second answer to
  payment-service (`order.created`), which makes a payment link, and finally
  sends `stock.reserved` to product-service without waiting for the result.
- The customer pays at the provider, which redirects to payment-service; its
  success and failure pages call `order.update_payment_status` of order-service.
  The pages are public and look at neither the status nor the payment they are
  given: who opens `/payment/success` with the id of an order has a payment
  recorded, whether or not anybody has paid and whether or not there is a link.
- `payment.confirmed`, `payment.failed` and `shipping.updated` events reach
  `events/events.controller.ts`, which calls the same operations as HTTP.
- Every event and RPC queue acknowledges on delivery (`noAck`).
- user-service sends mail with a verification code or a reset link; the user brings
  back what it contained. The gateway's AdminGuard asks user-service who calls.

What is hard here:

- All services are asynchronous: between two awaits of an operation any other
  operation of the same service runs. Nearly every operation reads, decides and
  writes in separate statements, and reads nothing again.
- Only the reservation, `order.update` with a nested history entry and a few
  others are transactions; the rest is left half done by a failure or a restart.
- Retries, double clicks, page reloads and provider retries repeat operations.
- Caches are filled with what was read before a concurrent deletion of the entry.
- Sessions are opened, renewed and revoked by requests that decided on earlier reads.
- The gateway answers its client while the service is still at work.

The properties that make each component correct, and the line where each hazard
bites, are in `PROJECT.json` (`hazards`); the ones checked are in section 3.

## 2. Modules

```
ReservationItems ─┐
                  ├ StockRequests ─┬ StockReservationProofs
StockReservation ─┘                └ MCStockReservation
   │ refines
AtomicStock ◄─ INSTANCE ─ Checkout ─┬ CheckoutProofs
                                    └ MCCheckout
OrderLifecycle ── OrderAlone ─┬ OrderLifecycleProofs
                              └ MCOrderLifecycle
OrderBilling ─┬ OrderBillingProofs
              └ MCOrderBilling
CategoryHierarchy ─┬ CategoryHierarchyProofs
                   └ MCCategoryHierarchy
Sessions ── SessionsAlone ─┬ SessionsProofs
   │ refines               └ MCSessions
SessionLife
Gateway ─┬ GatewayProofs
   │     └ MCGateway
   │ refines
RemoteCall
```

Arrows down and lines are EXTENDS. `SumTheorems` has the lemmas on sums that
`StockReservationProofs` and `OrderBillingProofs` need.

### ReservationItems: `normalizeReservationItems`

Lines of a request become one quantity per product, ascending by product id.
A product id is a number, its rank in the sorting order; 0 is a missing id.
`Malformed` is the loop's `throw`, `AddLine` its body, `Ascending` the sort.
`StockRequests` puts it in front of the reservation: `DemandOf` is what the
transaction takes of each product when it walks through the normalised items.

### StockReservation: `reservedStock` and its transaction

`catalogue`, `stock`, `reserved` and `rows` are committed rows; `phase`, `demand`
and `held` are the transaction each request has open.

| action | code |
|---|---|
| `Receive`, `Refuse` | the message arrives; `normalizeReservationItems` accepts or throws |
| `ReserveRow`, `Insufficient` | the conditional `updateMany` changes one row, or none |
| `Commit`, `Abandon` | the end of `$transaction`: commit; time-out, lost connection, stop |
| `CreateProduct`, `UpdateStock` | `POST /product`, `PATCH /product/:id` with a stock |

PostgreSQL is modelled at read committed, its default, which neither schema nor
code changes: an updated row is locked until the transaction ends, and an UPDATE
that waited evaluates its WHERE on the version it then finds. Uncommitted changes
are the set `held`, applied to the committed rows by `Commit`.

`AtomicStock` is what reservations promise: all products at one instant, only if
all have the units, or nothing. `StockReservation` implements it with the mapping
`outcome <- phase` (`RefinesAtomicStock`): locks and partial work are invisible.

### OrderLifecycle: one order of order-service

Orders share no state, so there is one. A `Frame` is a request, message or event
in progress: `call` says what it asks, `pc` at which await it stands, `seen` the
status it read if it uses it later. One action is what a frame does between two
awaits: `PayRead`, `PayCreate`, `PayAdvance`, `PayEmit` are `processPayment`;
`RejectRead`/`RejectWrite` are `rejectOrder`; likewise for `refundOrder`,
`updateFulfillment`, `updateStatus` and `updatePaymentStatus`. `CancelRead` is the
controller's own test before `rejectOrder`. `Thrown` is where an exception takes a
frame: `handlePaymentConfirmed` catches it and calls `rejectOrder`. `Fault` makes
any call of a frame fail, `Restart` loses every frame. `OrderAlone` adds one
history variable, `disturbed`: whether requests have overlapped or anything failed.

Two details of the code shape the model:

- `emitEvent` is a *request* to payment-service, which has a handler for
  `order.created` only. For any other pattern it answers with an error, so
  `PayEmit` and `Emit` throw after the commit. While payment-service is down the
  request has no time-out: the frame simply stays there.
- `updateStatus` to CANCELLED or DELIVERED also sets `cancelledAt` or
  `deliveredAt`, which model `Order` of `schema.prisma` does not have. Prisma
  rejects the statement, so `StatusWrite` fails and changes nothing.

### Checkout: from `POST /order` to a paid order

`Attempts` are requests, several per idempotency key. `Lookup`, `VerifyStock`
(one product at a time, as `verifyStock` reads them), `CreateOrder`,
`EmitOrderCreated`, `HandleOrderCreated` and `SendStockReserved` are the awaits of
`OrderService.create` in their order; `CheckFails` is the throw after a failed
inventory request, before or after the order is stored, and `EmitFails` the one when
payment-service does not answer. The reservation itself is `AtomicStock` by
INSTANCE. `Pay` is a load of the success page that gets its payment recorded: for
any stored order, with or without a link. `Restart` stops order-service.

### OrderBilling: what an order costs and what is paid

One order again, seen from its amounts. `lines`, `subtotal`, `total` and
`modifiable` (the status is PENDING or CONFIRMED) are its rows; `quoted` is the total
it was created with, `links` and `charged` are the amounts of its links and of the
payments at the provider, `recorded` the `Payment` rows. Amounts are integers: addItems
validates no quantity and a discount has no upper bound.

| action | code |
|---|---|
| `BeginAdd`, `BeginRemove`, `EditRead`, `FindItem` | addItems, removeItem up to their transactions |
| `Insert`, `Delete`, `Recalculate`, `Retotal`, `AbandonEdit` | the statements of the transaction, its commit, its roll-back |
| `MoveOn` | the order leaves PENDING and CONFIRMED |
| `MakeLink`, `Charge` | `POST /payment` makes a link of any amount; somebody pays a link |
| `Load` | a page is opened, by the redirection of the provider or by anybody else |
| `Answer`, `TimeOut` | `updateOrderPaymentStatus`: a reply, or five seconds without one |
| `NotifyRead`, `NotifyWrite`, `NotifyFails` | `updatePaymentStatus` in order-service, which goes on after a time-out |

What an open edit has inserted (`own`) or deleted is visible to that edit only
(`LinesSeen`) until `Retotal` commits. An insert waits for an open transaction that
inserted or deleted a line of the same product, because of the unique index. Two
edits that wait for each other are ended by `AbandonEdit`, as PostgreSQL does.
`amount` stands for `unitPrice * quantity`, so sums are sums of amounts.

### CategoryHierarchy: the tree, its flags and its caches

`row`, `alive`, `unborn` are the table and the ids still to come; `entry` and
`tree` the two caches; the other variables are the locals of the request each
client has in progress. One action is one await: the cache lookup (`Lookup`), the
row (`Load`), the fill (`Fill`), the parent's existence (`ParentExists`), one turn
of `checkForCircularReference` (`Walk`), the update (`Write`), the insert
(`Create`), the count and the two ways of removal (`CountChildren`, `Erase`),
`updateMany` (`UpdateStatus`), `updateSubcategoriesFlag` (`FlagCount`,
`FlagWrite`), the deletions of cached answers (`DropEntry`, `DropTree`),
`getAllSubcategoriesWithDepth` for the products of a category (`Descend`), a turn
of `getBreadcrumb` or `getCategoryPath` (`Climb`) and `getCategoryTree`. `Expire`
is the time to live of both caches.

`UpdateCategoryDto` admits an `id`, and update writes it: `Rewritten` are the rows
afterwards (`ON UPDATE CASCADE` renames the parent of the children), while the
flags and the cached entry are still those of the old id, whose flag update fails.
The history variable `rekeyed` says whether that has ever happened.

Of a cached category the model keeps the parent and the active flag (`Snapshot`),
on which update and remove decide.

`Descend` visits categories in any order, the code depth first; which categories
are found does not depend on the order, and that is what the property is about.

### Sessions: accounts, credentials and sessions of user-service

A request is a frame: `step` is the await it stands at, `user` and `saw` what it
keeps of its reads. One action is what a request does between two awaits.

| action | code |
|---|---|
| `RegisterRead`, `RegisterWrite`, `RegisterMail` | `create`: the lookup, the transaction with the unique address, the mail |
| `VerifyRead`, `VerifyWrite` | `verifyEmail` |
| `LoginRead`, `LoginWrite` | `login`: the account and its hash, then the insertion of the session |
| `RefreshFind`, `RefreshOwner`, `RefreshWrite` | `refresh`: the session of the token, its account, the rotation |
| `LogoutFind`, `LogoutWrite` | `logout` |
| `ForgotRead`, `ForgotWrite` | `sendPasswordResetEmail`: the account and the signature, then the new link |
| `ResetRead`, `ResetWrite` | `resetPassword`: the link, then one transaction for the password, the link and the sessions |
| `RevokeSession`, `RevokeAllSessions`, `SoftDelete` | what administrators do, each one statement or transaction |
| `Fail` | a database or mail call fails, or the service restarts: the rest of the request never happens |
| `ExpireSession`, `ExpireCode`, `ExpireLink`, `Tick` | the clock |

Passwords are numbers in the order in which they were set: what matters of one is
whether it is the one stored. A link is its account and the second its token was
signed in (`LinkOf`): two that are asked for within a second are equal, and
`reissued` are those that were signed more than once. A verification needs an
account with a code that has not expired, and no more: without a token the query
has no condition on it, and `POST /auth/validate` answers with rows that contain
theirs. bcrypt compares 72 bytes,
which the refresh tokens of one user have in common, so the session a token finds
is the newest active one of its user (`IsNewest`).

`SessionLife` is what users may rely on: a session lapses, is renewed, and once
revoked stays so; one that was opened for an account already deleted is never
renewed. `Sessions` implements it with `phase` computed from `revoked` and
`expired` and `barred <- orphans`.

`SessionsAlone` adds a history variable, `overlapped`: whether two requests have
ever been in progress at once.

### Gateway: guards, proxy, controllers

A route is its service, its guard and what its controller does with a failure of
the proxy: pass it on (`relay`), make an exception of fields it does not have
(`rewrap`), throw a value that is no exception (`bare`), answer something of its
own (`standIn`). The route sets are the controllers. `Arrive` and `Vet` are the
guards, `Send`, `Receive` and `TimeOut` are `ProxyRequest.request`, `Thrown` is the
controller. `Refuse`, `Run`, `Reply` and `ServiceRestart` are any service: it may
refuse, take any time, fail after its work is done, or restart. The routes
`/payment/success` and `/payment/failure` lead to pages whose service asks
order-service and waits five seconds: `GiveUp` answers such a call while its
operation is still under way (`adrift`), to run later or never.

`RemoteCall` is what a caller may rely on: the operation runs at most once; a
result means that it ran, a denial that it never will, a failure that nothing more
happens; only a client left unsure may have it run behind its back. `Gateway`
implements it with `told` computed from the answer. Two answers that look like news
are none, and `told` says so: an error of the success page, after which the payment
may still be recorded, and any answer of the failure page, which swallows what it
is told.

## 3. What is checked

Every action of every module fires in some passing run.

| run | instance | what it shows |
|---|---|---|
| `stock_reservation` | 3 requests, 3 products, carts that form a ring, one with a repeated product, stock edits to 0 and 2, fairness; every list of up to 3 lines over the products and a missing id, quantities 0 to 2 | no overselling, no circular wait; the transaction implements `AtomicStock`; every reservation begun is answered; the reserved counters are the sums of the reservation rows; `NormalizedOncePerProduct`: the result is the sum per product, each product once, ascending |
| `order_lifecycle` | any 3 requests of every kind, fully interleaved, faults and restarts | refunds follow a shipment, PAID is backed by a payment, a paid order leaves PENDING unless a request was lost, the history names exactly the statuses the order had; as long as requests neither overlap nor fail there is one charge, and operations that test the status keep to the matrix |
| `checkout_safety` | 2 checkouts, one tried twice, 2 products with one unit each, failing calls, restarts, payments at any time | one order per key; units asked for once and for a stored order only; lines of a reserved order reserved in full |
| `order_billing` | 2 edits that add 2 lines of a negative amount or remove one, the order's link and one of another amount, charges, 2 loads of the success or failure page by anybody, a time-out or a lost request at any step | who is told of a payment finds one recorded, which does not mean that anybody paid; what is recorded is the total the order was created with unless an edit was committed, and then what was charged if anything was and all links have that amount; serial edits leave totals that fit the lines; one line per product |
| `category_serial` | 1 administrator, any number of requests of every kind, 3 categories, every initial forest | no row ever names a parent without a row. As long as no update has changed an id: the tree stays a forest; after every request the flags, the cached tree and the parent and active flag of cached categories agree with the rows; getProducts finds the whole subtree that shows |
| `sessions` | 1 account, 2 requests at once, any number in all, 2 sessions, 2 seconds, 2 resets, failures, everything that expires | one account and one mail per address; only verified accounts have sessions; no session outlives a reset or, but for a login under way, a deletion; used links are dead unless signed again; the service implements `SessionLife`; requests that come one at a time leave only sessions that proved the current password |
| `gateway_calls` | 2 calls to any two routes, slow, refusing, failing and restarting services, one that gives up on another, a gateway that restarts | the gateway implements `RemoteCall`; every call that passed its guard is answered |

Five runs show a property that the repository states and the code violates:

| run | disagreement |
|---|---|
| `order_double_paid` | `updatePaymentStatus` skips an order that has a payment, but tests it before its transaction: two overlapping callbacks record two payments |
| `order_paid_cancelled` | one `payment.confirmed` event records the payment, then the emit throws, and the handler's catch cancels the paid order |
| `checkout_oversold` | the link is made after a plain read of the stock and the reservation's result is not awaited: two orders for the last unit get a link and are paid |
| `category_cycle` | an update without `parentId` writes back the parent `findById` answered, perhaps from an outdated cache entry and never tested for a loop: two categories become each other's ancestor |
| `sessions_link_reused` | `resetPassword` finds the link, hashes the new password and writes later without testing the link again: a form sent twice sets two passwords with one link |

Each has a counterpart that says how far the promise does hold: one charge per
order as long as requests do not overlap (`AloneChargedOnce`), a forest as long as
one client asks and no id is changed (`category_serial`), one password per link as
long as requests come one at a time (`AloneIsSafe`), units never reserved beyond the
stock (`NoOversell`, `ReservationCoversOrder`).

What is not claimed of categories, although requests come one after the other:

- After an update has changed an id, only that rows name existing parents. The
  cached entries of the children still name the old id; with a `parentId` in the same
  request, the flag of the old id fails after the write, so the new parent's flag stays
  false and its subtree is missing from the products of the categories above it;
  later updates can even close a cycle.
- The children, the name of the parent and hasSubcategories in a cached category.
  Only its own update deletes the entry, not that of a child or of its parent, so
  they go stale in ordinary use. getProducts logs its decisions by them (:205)
  and answers them to the client.

### Bounds, and why they are enough

- Stock: `NoCircularWait` needs a ring of three lock holders over three products
  to be interesting, and that is the instance. Rows of different products meet
  only through carts that name both. Levels {0, 2} give one unit too few and
  enough for two carts. The proofs remove the bounds.
- Order life cycle: `Frames` bounds the number of requests in one life, `MaxActive`
  how many overlap. Each anomaly of the code needs two frames (one that decided on
  an old read, one that moved the order); three leave room for the order to be
  brought to the state in question. The proofs remove the bounds.
- Checkout: two attempts of one key are what idempotency is about, a second key
  competes for the stock. The proofs remove the bounds.
- Billing: the lost line needs two edits; a page told twice needs two pages. Lists
  of two lines in both orders make edits wait for each other; a negative amount
  brings subtotals below zero; one link of another amount is enough to be charged
  something else. The proofs remove the bounds.
- Categories: with three, a category has an old parent, a new parent and
  a subtree. The number of requests is not bounded; creation does not reuse ids. Once
  an id was changed only the rows are of interest, and `FewCached` leaves out states
  with more than one cached category or a cached tree. The proofs remove the bound on
  the categories, that on the caches and, for `TypeOK`, that on the clients.
- Sessions: accounts share nothing but `Bearer`, so one account is enough; two
  requests are one that has read and one that writes, and any number may come one
  after the other; two sessions, so that the walk over the tokens has a choice; two
  seconds and two resets, so that a link is signed twice in one, or another one is
  signed and used while the first is in hand. The proofs remove the bounds.
- Gateway: calls meet only in restarts, so two are enough. The proofs remove the
  bound for safety.
- Symmetry is declared only for sets whose elements no other definition names,
  and not in `stock_reservation`, which checks liveness and orders its products.

### Fairness

- `stock_reservation` assumes weak fairness of `Serve(r)`: the event loop of the
  service and PostgreSQL go on serving a transaction that is open. A transaction
  blocked on a row is not enabled, and becomes enabled when the holder commits or
  rolls back. Nothing is assumed of time-outs, messages, administrators or of
  requests that have not begun.
- `gateway_calls` assumes weak fairness of `Send` and `TimeOut`: the gateway goes on
  with a call that passed its guard, and its ten-second timer fires. Nothing is
  assumed of the services, nor of `Vet`, which has no time-out: a call that waits
  for user-service in AdminGuard may wait for ever, and none is promised an answer.

The other modules have no liveness property. `emitEvent` has no time-out, so the
code gives no reason why an order operation should end while payment-service is
down; that its client is answered nevertheless is `AdmittedCallsAnswered`.

### Deadlock

Checked in `category_serial`, where clients never stop. The other instances have
finitely many requests, sessions or calls and really end, so their configurations
say `CHECK_DEADLOCK FALSE`; deadlock of reservations on row locks is the property
`NoCircularWait`.

## 4. What is proved

For all values of the constants, under the assumptions stated in the modules:

- `StockReservationProofs` (products are a finite set of naturals, demands are
  functions to the naturals, written stock levels are not negative, which
  `@Min(0)` of `create-product.dto.ts` ensures; lines have a natural number for a
  product and an integer for a quantity): `TypeCorrect`, `Invariant`,
  `NeverOversold`, `NeverDeadlocked`, `NeverStuck`, `Refinement`,
  `BooksAlwaysBalance`; `NormalizedAlways`, `DemandIsSum`, for lists of any length.
- `OrderLifecycleProofs` (calls are of the enumerated kinds; any number of
  frames, with or without faults): `Invariant`, `TypeCorrect`,
  `RefundsFollowShipping`, `PaidFlagIsBacked`, `PaidOrdersSettle`,
  `HistoryIsComplete`; `AloneInvariant`, `ChargedOnceAlone`, `MatrixKeptAlone`.
- `OrderBillingProofs` (any edits, links and pages, finitely many products, amounts
  that are integers): `TypeCorrect`, `Invariant`,
  `ToldOnlyOfPayments`, `RecordsTheCharge`; `EditInvariant`, `OneLine`,
  `SerialTotals`.
- `CheckoutProofs` (supply and carts are functions to the naturals): `Invariant`,
  `TypeCorrect`, `OneOrder`, `ReservedOnce`, `ReservedInFull`.
- `SessionsProofs` (any users, requests, sessions, links and seconds): `Invariant`,
  `TypeCorrect`, `MailedOnce`, `OnlyVerifiedSignIn`, `ResetsEndSessions`,
  `DeletionsEndSessions`, `LinksDie`, `Refinement`; `AloneInvariant`, `SafeAlone`.
- `GatewayProofs` (any calls): `Invariant`, `TypeCorrect`, `Refinement`.
- `CategoryHierarchyProofs`: `TypeCorrect`, for any categories, clients and
  requests; `Invariant`, `Acyclic`, `FlagsStayExact`, `CachesStayCoherent`,
  `WholeSubtree`, for any categories, one client, which is what `category_cycle`
  shows to be necessary, and, but for `Invariant`, as long as no update has changed
  an id.

The arguments:

- *No overselling.* `stock >= 0` is not inductive: `Commit` subtracts what was
  tested long before. `HeldCovered` says what a transaction has updated stays
  covered by the committed stock; it holds because `LocksExclusive` keeps every
  other commit away from those rows and `UpdateStock` waits for the lock.
- *No deadlock.* `LocksAscend`: what a transaction holds is smaller than what it
  still wants. So if r waits for s, what s wants next is greater than what r wants
  next (`WaitsAscend`). In a set in which everybody waits for somebody, the
  products wanted would ascend for ever; a finite set of naturals has none such
  (`AscentBreaksCycles`).
- *Progress.* Among the open reservations, `NoCircularWait` gives one that waits for
  no other. What it does next is the commit, or the update of the least row it still
  wants, which is not locked or lacks the units (`ServedNext`). Each such step brings
  that reservation nearer to its end, so of `EveryReservationEnds` only the part that
  fairness plays is left to TLC.
- *Books.* `Commit` adds the demand to the counter row by row where it holds the
  row; elsewhere the demand is 0, because nothing remains that is wanted. The sum of
  the column grows by the same (`CountAdds`). `BooksBalance` says as well that there
  have been finitely many reservations; of an infinite sum nothing would follow.
- *Sums.* The community modules fold a set in an order of which nothing is known.
  `SumTheorems` proves that a sum is the number of units there are, which has an
  order neither: a set of pairs, whose cardinality the library's theorems compute.
  Induction over finite sets is replaced by a minimal counterexample
  (`SubsetInduction`): the sets for which the claim fails are a set, and so one of
  them has no smaller one.
- *Normalisation.* `MapOf(lines, S)` is the map after the lines of `S`, by definition:
  to each product named the units of its lines. It satisfies the recursion of the
  fold (`AddLineAdds`), so it is its value (`AggregatedIsMap`). That the ids can be
  sorted is shown by their ranks (`CanBeSorted`): the number of ids up to one is
  injective, and hence hits every place.
- *Types of billing.* `TypeOK` is not inductive: the subtotal of infinitely many
  lines need not be a number. `RowsFinite` is the strengthening.
- *Refinement.* `ReserveRow` stutters, `Commit` is `Reserve` because `HeldCovered`
  gives its guard, `RollBack` is `Fail`.
- *Order life cycle.* The status a frame read may be outdated when it writes.
  `WritesJustified` rests the decision on the history instead, which only grows:
  who read SHIPPED finds SHIPPED in the history for ever. `PaymentAttended` says
  that a paid order which is still PENDING has a frame that will move it, or that
  was lost.
- *Order, one request at a time.* `OwnSteps`: whether disturbed or not, a frame at the
  step of an operation is a call of that operation. `DecisionsCurrent`: what the frame
  in progress decided is still permitted by the status of the order, so it keeps to the
  matrix. `PaymentAdvances`: a paid order that is still PENDING has the frame that will
  move it on, so no other request can find it PENDING and charge it again.
- *Billing.* The success page says "paid" only after an answer of order-service, and
  `PagesSound` says that answer means a payment row exists. `AmountsSound` says a
  total that was read is the one the order was created with, or was read after an
  edit was committed (`late`), and that nobody was charged but by a link; edits matter
  to payments only through that (`EditsOnly`).
- *Edits.* The unique index compares an insert with the committed lines only; that
  no two open transactions have inserted lines of one product is `InsertedOnce`, and
  it holds because an insert waits for the other transaction. `SerialSound`: until
  edits overlap, the sum computed is that of the lines the edit will leave.
- *Checkout.* `AskedAtTheEnd`: units are asked for by the last step of an attempt,
  so its order is stored (`OrderStored`), and one order per key (`OneOrderPerKey`,
  the unique index) makes the attempt unique.
- *Sessions.* What a request read may be outdated when it writes, so the invariant
  keeps of each read what cannot change: who is being verified or is signing in has
  a row (`Addressed`), a session found belongs to the user who asked and was not
  opened for a deleted account if it is about to be renewed (`Pointed`), a link that
  is about to be stored and was signed once is stored nowhere yet and in no other
  hand (`Linked`). `ResetEndsSessions` and `DeletionEndsSessions`
  are then kept because the transaction revokes all there are at that instant. For
  the refinement a rotation is a `Renew` of a lapsed session or a stutter: it never
  touches `revoked`.
- *Sessions, one request at a time.* `ReadsCurrent`: the password that a login has
  compared is still the account's, and the link that a reset has found has set none
  yet unless it was signed again. So a link sets one password, and `LoginsCurrent`, every session was opened with
  the password of its time, none for an account already deleted.
- *Gateway.* `Consistent` relates where a call stands in the gateway to where it
  stands in the service; that a result, a failure or a denial is only told once the
  service is done with the call, or has never had it, follows from its conjuncts.
- *Categories.* The invariant has two parts. `Typed` holds of any number of clients:
  a foreign key that cascades keeps every parent a row, and `Stage` says which
  requests reach a step. `Sound` holds until an update has changed an id, of one
  client. Acyclicity is that every set of categories has one whose parent is
  not in it. `Climbed` says that the set the walk of
  `checkForCircularReference` has visited is closed under parents up to where it
  stands and does not contain the category; so a set that became a cycle by the
  move would meet the visited set in a smaller one that was a cycle before
  (`ForestMove`). What findById answered is still so when it is used (`Fresh`): with
  one client, every cached answer that is outdated is about to be deleted
  (`EntriesFresh`). `FlagsNamed`: a flag that is not exact is on the list of those to
  be recomputed. `DescentsSound`: what getProducts has found is what shows below
  where it has been, and it will go wherever an exact flag says there is more.

The inductive invariants (`IInv`; `EditInv` and `TypeInv` of `OrderBilling`; `AloneInv`
of `OrderAlone` and `SessionsAlone`; `BooksBalance` and `SomebodyIsServed` of
`StockReservation`) were checked with TLC on the instances above before they were
proved.

Only model-checked: `EveryReservationEnds` and `AdmittedCallsAnswered`, which are
liveness under fairness.

## 5. What is not modelled

- Reads, searches, statistics, CSV export, audit log and health reports, and the RPC
  lookups of user-service: they keep no state that another operation reads.
- Profile and role updates of users, and the roles themselves: the models let a
  guard admit or deny.
- The paths and bodies of the gateway's routes.
- Names, descriptions, prices, addresses and products of categories. A name that
  is taken and a category with products end a request early, which is in the
  models as a choice.
- `isActive` of products and `deletedAt` of orders: no operation of the models
  reads them. `moveCategory` is not routed. The public route that asks for
  a reservation by hand, and stock edits during a checkout, are not in `Checkout`.
- The webhook and the Stripe service: they change nothing or are never called.
- updateShippingAddress and deleteOrder write columns that no operation of the
  models reads.
- Faults between the steps of a category request: no code repairs what they leave,
  so after one neither flags nor caches are promised, nor, through an outdated
  parent in the cache, the forest.
- The children, the name of the parent and hasSubcategories of a cached category
  (section 3), and what an update answers when it has changed an id and then fails.
- The tokens that verify addresses, as values: any account with a code that has not
  expired can be verified by somebody.

Observed while modelling, and no property of a run:

- Nothing confirms, releases or expires a reservation: `expiresAt` is written and
  never read. Abandoned checkouts use up the stock.
- `emitOrderCreated` checks the stock after the order is stored. If that check
  fails the order has no link and no reservation, and retries with the same key
  return it as it is.
- `create` computes the totals and the reservation from all the lines, and stores
  only those in stock.
- addItems and removeItem set the total to the subtotal: tax, shipping and discount
  of a new order are dropped by its first edit (`TotalsFitLines` states what the
  code does).
- `GET /payment/success` records a payment for whatever order it is given, without
  asking the provider: nothing need have been charged, and there need be no link.
  `PaidPageIsBacked` is about the row, not about money.
- The payment row has the total at the time of the callback, not what was charged;
  the two differ when an edit is committed in between, and when the link was one of
  those `POST /payment` makes for any order with the amount in its body
  (`RecordedIsCharged`).
- The refusal of missing, zero or negative quantities is only in
  `normalizeReservationItems`; addItems takes them, and a discount may exceed the rest
  of an order, so totals can be negative.
- A customer who sees an error after five seconds may have paid: the request goes
  on. Loading the page again then says so.
- The owner of an order can reach PROCESSING by `updateStatus` without a payment:
  the matrix allows CONFIRMED and PROCESSING.
- A failed callback that is overtaken writes the status it read into the history,
  and FAILED on an order that is paid: only while requests
  do not overlap does the history end with the status of the order.
- `processPayment` writes the payment and the status in two statements. A failure
  in between leaves a paid order PENDING and open to a second payment.
- `updateFulfillment` sets the status whatever it was: a late fulfilment reopens a
  cancelled or refunded order, which the matrix of `updateStatus` forbids.
- Two edits of an order that overlap each write the sum of the lines they see; the
  last to commit leaves a total without the other's line (`TotalsFitLines` holds of
  edits that do not overlap).
- `deletedAt` of orders is written by deleteOrder and read by no query. A listing
  and its total count are separate queries.
- A login that overlaps a reset leaves a session whose password is no longer the
  account's, and one that overlaps a deletion a session without an account; the
  latter can never be renewed (`RefinesSessionLife`).
- `verifyEmail` without a token verifies the first account whose code has not expired,
  perhaps before its mail was sent; `POST /auth/validate` answers with rows that contain
  the token. So a verified address is not one whose mail was read, and no property
  says so (`WelcomedOnce` and `SessionsAreVerified` do not need it).
- Two links that an account asks for within one second are the same token: one that
  set a password may be the account's link again (`UsedLinkIsDead` and `LinkUsedOnce`
  exempt links that were signed again).
- An update of a category may carry another id (section 3).
- Two moves of categories that overlap can close a cycle, each having walked up before
  the other wrote; `category_cycle` shows that not even that much is needed.
- A registration whose mail fails strands the address: the row is there, the code
  was never told, and registering again is refused. So is registering the address of
  a deleted account, since the address is unique and the lookup leaves deleted rows
  out.
- The refresh cookie is limited to the path `/auth/refresh`, so `/auth/logout` never
  receives it. The gateway forwards no Authorization header on the routes of
  AuthController, so those of user-service that ask for one refuse.
- `ProxyRequest` spreads the caller's options before its own ten seconds, so the
  time-outs that controllers name have no effect; axios reports a time-out as
  ECONNABORTED, so the branch that answers 504 is never taken.
- The handlers that rewrap an error read `response.data` and `response.status`,
  which the exception of the proxy does not have: the client receives an empty body
  with the status of success. ProductCategoryController throws a value that is no
  exception, which becomes status 500.
- `PATCH` of a product is forwarded as `PUT`, for which product-service has no
  route; the gateway's reserved-stock route leads to `/orders/tested`, which does not
  exist.

## 6. Plan

Done: every module above with its runs and proofs.

Left:

1. Faults and restarts in `CategoryHierarchy`; `TypeOK` says already what should
   survive them, as it does overlapping requests and changed ids (rows keep naming
   existing parents).
2. The composition of `Checkout` with `StockReservation` instead of `AtomicStock`,
   with stock edits and the hand-made reservation request; the refinement says that
   it would add no behaviour to `Checkout` as long as nobody edits stocks.

# Formal models of the Bite Theory backend

The repository is a NestJS service over PostgreSQL that runs a cloud kitchen:
customers order, pay and track; the kitchen cooks; riders or an external
courier deliver; walk-in counters bill. Almost every handler is a sequence of
SQL statements with `await`s between them. A statement commits on its own
unless the code opens a transaction, so what a test exercises one request at a
time runs interleaved in production. That is what these models are about: the
state is the rows, a step is one statement (or one transaction), and any other
request may run between two steps.

Paths below are relative to the repository; `OS` is
`src/orders/orders.service.ts`.

## The system

| part | state it keeps | operations | talks to |
|---|---|---|---|
| Order lifecycle (`orders/`) | `orders` row: status, rider, courier, timestamps, make-good claim | updateStatus, cancelByCustomer, assignRider, bookExternalCourier, cancelExternalCourier, update; updateLocation of `delivery_partners/` | trips, payments, wallet, earnings, outbox |
| Checkout (`orders/`) | order, items, payment, stock, coupon use, wallet, invoice counter | create-payment, checkout, posOrder, Razorpay's `payment.captured` | Razorpay, lifecycle |
| Doorstep payment (`orders/`) | `order_qr_payments`, the COD row of `payments`, `rider_cash_ledger`, `payment_incidents` | createDoorstepQr, collectStatus, settleQrPayment, delivered, cancel | Razorpay, lifecycle |
| Refunds (`orders/`) | `payments`, wallet, stock, coupon, points, audit log | refundOnCancel, adminRefund | Razorpay, lifecycle |
| Counter POS (`pos/`) | `outlets`, rates, `pos_counters`, `pos_bills` | saveOutlet, saveRates, createBill, cancelBill, reports | - |
| Trips (`delivery/`) | `delivery_trips`, `trip_stops`, `orders.trip_id`, riders' availability | createTrip, addToTrip, pickup, attach, detach, deliver | lifecycle |
| Dispatch (`delivery/`) | advisory lock, `delay_notified_at`, suggestions of a pass | suggestions, apply, autoDispatch, tick, delayAlerts | trips, outbox |
| ETA (`delivery/`) | `eta_stats`, promises | recompute, quote, live estimate | checkout, tracking |
| Outbox (`notify/`) | `notification_outbox` | enqueue, flush, receipts | WhatsApp |
| Promotions | coupons, offers, gifts, flash deals, loyalty, referrals, wallet | quote, redeem, gift, blast, convert, take back | checkout, lifecycle |
| Reports (`reports/`, `delivery/`) | none (queries) | twenty screens over the same orders | everyone's rows |
| Administration and content | settings, catalogue, storefront, users, roles, reviews, ... | row editors, guards | everyone reads settings |

The hard behaviours are the same everywhere: entities saved long after they
were read; checks that are a separate statement from the write they protect;
Razorpay's and Meta's webhooks, which come late, twice or out of order;
processes that restart between two statements; several instances that run the
same timer. `PROJECT.json` lists each hazard at its line.

What makes each part correct, in a sentence: an order moves along its tables
and never leaves a terminal status; a COD order is paid by cash or online, and
the rider answers for exactly the cash; an online payment makes one order that
costs what was captured; a refund returns what came in, once; a bill series has
no gap, no repeat and no deletion; a trip closes once and pays its bonus once,
and its order, rider and board agree; the loop gives every order one answer and
takes none from anybody; a customer is promised a time that can be kept and
told once when it is not; a queued message is sent or given up, not lost; a
quote is what is charged; a reward is paid once; a blast reaches everybody
once; two screens show the same sums.

## Modules

| module | models | role |
|---|---|---|
| `OrderStatus` | `orders/order-status.machine.ts`, `orders/courier.util.ts` | transition tables and status sets, no state |
| `OrderLifecycle` | the handlers that save an order, TypeORM's two-statement `save`, the database trigger | detailed specification |
| `OrderPromise` | what a customer is promised of an order | abstract; `OrderLifecycle` implements it (`KeepsPromise`) |
| `DoorstepPayment` | the money of a cash-on-delivery order at the door | detailed specification |
| `Checkout` | the quote of a cart, the transaction that makes its order, `payment.captured` and its dead letters | detailed specification |
| `Refunds` | the money and goods of one order on their way back | detailed specification |
| `PosBilling` | outlets, counters and bills of the walk-in counters | detailed specification |
| `BillRegister` | an append-only bill book in which a bill may be struck out | abstract; `PosBilling` implements it (`KeepsRegister`) |
| `PosReports` | what till and office read off the bills | operators over `PosBilling`'s state |
| `Trips` | stops, trips, riders and the saves that race over them | detailed specification |
| `Routes` | the route planner: legal routes, savings, extra waits | operators |
| `Dispatch` | one pass of "who carries each order" | extends `Routes` |
| `Eta` | what is learned from deliveries and what an order is promised | operators |
| `Promises` | what customers are told of the time: the promise quoted from the order table, the delays they hear of, and the promises about both | extends `Eta`, `OrderStatus` |
| `Watch` | promises, delay apologies and staff alerts on every instance | extends `Promises` |
| `MessageBooks` | the rows of WhatsApp messages, what Meta has accepted, and the promise about them | extended by `Outbox` |
| `Outbox` | the queue of WhatsApp messages and the senders that drain it | detailed specification |
| `Money`, `StoreHours`, `Counter` | prices, discounts and GST; opening hours; a counter's rates and bills | operators |
| `Reports` | the owner's and the delivery reports | operators over rows |
| `Quotes` | one cart between its quote and its order, and the counters' bills | composes `Money`, `StoreHours`, `Counter` |
| `Pricing` | that order in the reports | extends `Quotes`, `Reports` |
| `RewardBooks` | what the books say of rewards and coupon uses, and the promise about them | extended by `Rewards` |
| `Rewards` | referral rewards, milestone, coupon and gift under row locks | detailed specification |
| `Blast` | one coupon mailed to many customers | detailed specification |
| `MC*` | symmetry sets and constant functions (`Outbox` and `Blast` need none and are run as they are) | TLC instances |
| `*_proofs` | theorems of the module they extend; `Billing_proofs` of `PosBilling`, `PosReports`, `Quotes` and `Pricing`, `Delivery_proofs` of `Trips`, `Dispatch_proofs` of `Dispatch` and `Watch`, `Messages_proofs` of `Blast` and `Outbox`, `RefundsRewards_proofs` of `Refunds` and `Rewards` | TLAPS |

A definition whose name begins with `Bug` is a variant of its neighbour with a
plausible mistake in it. No specification uses one; they show that the checks
would notice the mistake.

### How requests are modelled

The modules about requests have a set of slots (`Requests`, `Tills`, `Pods`,
`Clicks`). A slot is idle or holds one request: its program counter and the
local variables that outlive an `await`. A handler becomes one action up to its
first `await` that matters, and one for each later statement. A handler that
rejects takes no step. Where a crash, or an error no one catches, can separate
two statements, an action (`Abort`, `Cut`, `Refuse`, `Fail`) frees the slot and
leaves the rows.

* `OrderLifecycle`: `UpdateStatus`, `AssignRider`, ... read the row, decide and
  keep a changed copy; `CreditRider` inserts the earnings row; `Diff` is the
  SELECT of `repo.save`, `Save` its UPDATE of the columns that differed,
  `SaveRefused` the trigger. `ClaimMakegood`/`PayMakegood` are lateMakegood and
  `RiderIsNear`/`MarkArriving` are updateLocation. OTP, geofence and cash-cap
  checks only reject, and every status they could reject is also reachable by
  staff, for whom they are skipped. `stale` is a history variable: the requests
  another save has overtaken.
* `DoorstepPayment`: `RequestQr`, `Mint`, `InsertQr` are createDoorstepQr with
  its call to Razorpay in the middle; `Poll`, `AskRazorpay` are collectStatus;
  `Webhook` the `qr_code.credited` event; `LockOrder` and `Settle` the
  transaction of settleQrPayment, split after the read of the COD row because
  the rider's cash UPDATE does not wait for the lock. `TapDelivered` to
  `CloseQr` are the delivery, and a cancellation refunds what is online.
  Razorpay and the clock are the environment: `Scan`, `Lapse`. A payment is
  named by its code, since a code is paid once.
* `Checkout`: a request is the browser's POST or Razorpay's event. `OpenPayment`
  is createPaymentOrder; `Ask` and `Webhook`, `Begin` lead into the transaction,
  whose statements are `Open` (dupe check and prices), `Hold` (stock row locked,
  coupon counted), `Charge` (wallet row locked, the paid amount compared),
  `Draw` (invoice counter) and `Commit`, which shows what was written. Between
  them READ COMMITTED lets others commit; a row lock is a guard (`StockFree`,
  `WalletFree`, `NumberFree`) held until the slot is idle. A closed store and
  any refused statement is a `Fail`. `DeadLetter` and `LoseLetter` are the catch
  of the webhook. Takeaway is a cart whose fee is the flat charge.
* `Refunds`: after `SaveCancelled`, each statement of refundOnCancel is an
  action in the code's order: payment (to wallet or to the source), wallet part,
  marker, stock, coupon, points. `Click`, `AskForAdmin`, `AdminMark` and
  `AdminReport` are adminRefund, with parts of the sum. Razorpay is the
  environment: it never returns more than it captured (`Returns`), refuses, or
  returns money and loses its answer. `past` records what the properties have
  to except: requests that overlapped, a break, money returned and not marked.
* `PosBilling`: `Click` to `InsertBill` are createBill. A till carries the
  counter values it drew, the variables `tokens` and `last` hold what is
  committed, and the row locks of `nextCounter` are the guards `TokenUnlocked`
  and `NumberUnlocked`. `Collide` is the unique violation, `AnswerCollision` the
  answer to it. The outlet's business day is free: the code takes it from the
  clock and `day_starts_at`, which an admin may change. `VetEdit` and
  `UpdateOutlet` are the two statements of saveOutlet.
* `Trips`: a request is the list of statements it has still to run (`work`), so
  that a helper of `trip.sql.ts` puts its statements in front of its caller's.
  `Assign`, `Update`, `Book`, `CreateTrip`, ... open into such lists; `Save` is
  TypeORM's, which writes the whole row that was read, `trip_id` too; `Throw` is
  an error, which only addToTrip catches. The board's view of a rider is
  `RiderState`.
* `Dispatch`: a pass is the three reads (`ReadRiders`, `ReadPool`, `ReadTrips`),
  joins one planned trip at a time, formTrips' greedy rounds (`FormTrip`,
  `Solo`), a carrier for each trip (`Carry`) and the applying. `HandAssign` and
  `Cancel` act between the reads. Ties of sorting are a choice. Places are
  points of one road through the kitchen.
* `Watch`: on every instance (`Pods`) a tick takes the advisory lock, relearns
  if need be, lists the late orders, and per order looks, claims and tells;
  then come both staff alerts. `Disconnect` loses the lock under a running tick
  (a session lock lives on its connection), `Restart` the tick, `Fail` a
  statement. Each instance quotes by the `eta_stats` it has cached, at most five
  minutes old: `cached` holds the tables an instance may still go by. The list
  is cut at a hundred orders (`ListLimit`), and both alert queries look at what
  is overdue and at most six hours old (`Overdue`).
* `Outbox`: each instance has one flush at a time, as `flushing` sees to.
  `BeginFlush` requeues what a dead instance was sending, `Claim` is the UPDATE
  with SKIP LOCKED, `Skip` and the three `Post...` the outcomes of a delivery,
  `Store` the UPDATE after it, which names the row by its id alone. Time is not
  counted: `ComeDue` ends a back-off and `Age` makes an abandoned row five
  minutes old. A batch is at most twenty posts of ten seconds, so a row whose
  instance is alive gets that old only by `Stall`.
* `Quotes`: `CreatePaymentOrder`, `Checkout` and a clock (`CartSpec`). Amounts are paise, rates percent.
  The quote's and the checkout's arithmetic are two sets of operators, as they
  are two copies in the code. In `Pricing` the order joins `Past` in every
  report at the end of the day.
* `Rewards`: a checkout's coupon, gift, wallet and referral statements with the
  row each locks (`held`); what it writes shows at `Commit`. `Abort` is
  PostgreSQL's deadlock detector. The cancellation's statements follow one by
  one.
* `Blast`: `Click` is the SELECT of a batch, `Assign` and `Mail` the two
  statements per customer in the order of ids, `Answer` the recount. A customer
  has one row at most, `gift`, since (coupon, user) is unique in the table
  (`migrations/2026-07-09-prep-video-invoice-coupon-assign.sql:27`): `Assign`
  either inserts it (`Insert`) or fails on the row of another request
  (`Collide`), and the request with it, before the mail and without the rest of
  its batch. Gifts by hand (`Give`, `SaveGift`, `Take`), use of the coupon
  (`Order`), a customer's lapse (`Lapse`) and switching the coupon off
  (`Retire`) interleave; `SaveGift` fails on the same index.

## What the runs check

| run | instance | states | shows |
|---|---|---|---|
| `lifecycle` | 1 rider, 2 requests | 1,052,108 | `KeepsPromise`: whatever two handlers do to each other they implement `OrderPromise`; `UndisturbedBehaves`: a request nothing overtook follows the machine, keeps the carrier, cancels for the customer only before cooking |
| `doorstep` | 2 codes, 2 requests | 284,670 | cash once taken is never turned into online money (`CashOrOnline`), ledger and payments agree (`CashReachesLedger`), no settled code is unbooked (`SettledQrIsBooked`), money moves for a reason (`MoneyHasReason`) |
| `checkout` | 2 carts, 2 requests, 1 portion, prices 4 and 6, wallet 6, at most 2 orders asked for by the browser | 2,540,432 | stock and invoice series, one order per payment unless two requests are past the dupe check, an order costs what was captured, no captured payment is forgotten |
| `refunds` | 2 requests, 3 paid online, 2 by wallet, parts of 1 | 1,006,039 | what is reported as refunded went back (`ReportIsTrue`), undisturbed requests return once and completely (`ReturnsOnce`, `CancelGivesBack`), a cancelled order's payment stays visible (`NeverOutOfSight`) |
| `pos` | 2 tills, 2 outlets, 2 codes, 2 days, up to 3 bills | 195,919 | refinement of `BillRegister`, one bill per click, the till's day line agrees with the office's report |
| `outbox` | 2 messages, 2 instances, batches of 2, 2 tries, 1 fault | 365,899 | accepted once unless in doubt, receipts only move a status forward, every message settles |
| `trips` | 2 orders, 2 riders, 2 requests, 2 trips, 2 calls | 605,182 | orders, trips, board and busy flags tell one story (`BooksAgree`), no trip stays on the road empty, the bonus is paid once unless drops race |
| `dispatch` | up to 3 orders of 4 kinds, 2 riders of 4 kinds, 1 hand at a time | 684,063 | one answer per order, and what is said is done and explained (`AnswersHold`), shared trips keep the customers' limits (`SharesWhatItMay`), nobody's order is taken (`TakesFromNobody`) |
| `watch` | 1 order, 2 instances, 3 carts, 1 fault | 653,211 | one apology, and one in the end (`OneApology`, `LateIsTold`); the kitchen hears of what waits while its queries look for it (`KitchenHears`); a promise covers the kitchen and the road by whichever statistics an instance has cached (`PromiseCovers`) |
| `pricing` | carts x shops x 8 moments | 33,920 | a quote that nothing overtook is charged, announcements come true, bills add up to the paisa, reports agree |
| `rewards` | 3 users, 3 orders, 2 coupons, 1 gift, 1 cancellation, 1 break | 689,014 | rewards, milestone and coupon within their limits, a customer's and everybody's; every checkout ends, deadlocks included |
| `blast` | 2 customers, 2 clicks, 3 events | 729,920 | nobody whose row was not taken is mailed twice, however clicks cross; nobody without a mail goes unreported but those of a request that was cut off or collided; the repeated click reaches everybody |

### Bounds, and why they are enough

Two requests are enough for every race of two statements, and a slot is reused,
so longer sequences occur as well; one rider suffices where two riders would be
the same to the handlers. Two codes are what one order can have open at once at
Razorpay. What every run bounds is how often something happens, never in which
order.

* `checkout`: the wishes of the two carts are any two of four, so that two carts
  can want the last portion, one wallet and one coupon, and a cart can be asked
  for by both its requests. The two prices differ by more than `Tolerance` (one
  rupee in the code); the wallet is smaller than some totals and larger than
  others and lies between the two ways to compute one. `MaxOrders` bounds what
  the browser asks for; webhooks repeat as often as they like.
* `refunds`: `Paid` 3 and parts of 1 give a part, a rest and a full refund; the
  wallet's 2 differ from both, so that no sum hides a confusion. `MaxRestocks`
  lets the admin set the stock once, so that a restock meets an empty and a
  filled shelf.
* `pos`: `TokenCap` is 2 instead of 999, so that tokens wrap within three bills,
  `SeriesCap` 3 instead of 999999, so that the series outgrows it; the totals
  are powers of ten, so that a sum names its bills. Both days lie in one
  financial year: the years share no counter.
* `outbox`: two instances and two messages give every race over a claim, a batch
  that breaks off in the middle and receipts for one message while the other is
  being sent; two tries reach both a retry and the limit (5 in the code), and
  the one fault is a restart, a failed statement or a stall at any point.
* `trips`: the run starts from a fresh kitchen or with a rider who carries any
  orders at any stage, so that two more calls suffice for every pair of calls
  that race; capacity 2 lets the orders share a trip. What needs more calls,
  such as new details for a booked courier already on the road, is left to
  `BooksAreOne`, which has no bound.
* `dispatch`: the four kinds of order lie on both sides of the kitchen, early,
  late and without promise, cash and prepaid; the four kinds of rider are there,
  away, too small and offline. Three orders are what one trip may hold
  (`MaxOrders`), and two riders let one be taken. The clock stands still in a
  pass, which takes a second.
* `watch`: the clock jumps forty minutes, past every threshold at once or not at
  all, and for orders without a known way to the door another six hours, past
  the end of the alerts (the way to the door plays no part in them); the saved
  settings mix junk, zero, one and nothing; `Histories` are five
  deliveries, more than `MinSamples`, in two bands.
* `pricing`: a day of four minutes and a week of three days hold every relation
  of opening hours, holidays and now; prices are chosen so that percentages,
  caps and GST all have to round.
* `rewards`: two friends of one referrer, one of them with two orders, and a
  milestone of one conversion: the smallest instance in which both friends
  convert at once. Checkouts lock wallet, coupon, referral, referrer or only
  some of them, so that circles close. The coupon has a limit per customer or
  one for all.
* `blast`: two customers in one batch or one by one (asked for 0 the code takes
  25, for less or more the nearest of 1 and 100), two clicks that cross or not,
  and three events of the office and the customers.

Symmetry is used only over slots, riders, outlets and codes, in runs without
liveness. `CHECK_DEADLOCK FALSE` stands where the system may stop: an order at
the door, a refund or a pass comes to rest, tills, calls and events reach their
bound, time ends. `lifecycle`, `checkout` and `outbox` check for deadlock.

### Fairness, and why it is justified

* `outbox`, `MessagesSettle`: weak fairness of each instance's work, since its
  timer fires every fifteen seconds (`notify/outbox.service.ts:55`), `post`
  returns within ten and the loop of a flush waits for nothing else; and of the
  clock (`ComeDue`, `Age`). Nothing is assumed of handlers, of Meta's answers
  or of receipts.
* `watch`, `LateIsTold` and `KitchenHears`: weak fairness of each instance's
  loop, which `setInterval` starts every thirty seconds
  (`delivery/dispatch.service.ts:85`) and whose statements end. Nothing is
  assumed of the kitchen, riders or customers; `faults` are bounded, since
  without that the database may refuse every statement for ever.
* `rewards`, `EveryCheckoutEnds`: weak fairness of the statements in flight
  together: PostgreSQL finishes what waits for nothing and its detector looks
  for circles. No checkout has to begin.
* `blast`, `EveryoneIsReached`: weak fairness of a request's statements, and of
  the click itself, as the service says: "the admin screen drives the loop"
  (`coupon-blast.service.ts:8`). A coupon switched off releases the claim.

No other run assumes fairness.

### What the models except, and claims that are false

Where a comment or test claims more than the code keeps, the module states what
is kept and, next to it, the claim as a definition marked "Refuted". Adding its
name to the run's cfg (INVARIANT, or PROPERTY for the action property) shows
the counterexample. No cfg lists them.

| definition | run | claim | what happens |
|---|---|---|---|
| `StepsFollowMachine` | `lifecycle` | "the lifecycle is a state machine, not a free-for-all" (OS:2036) | a stale `save` (OS:2167) takes the status backwards; the trigger protects terminal statuses only |
| `MakegoodOnce` | `lifecycle` | "is the idempotency lock: a retried "delivered" can never pay twice" (OS:274) | the lock is a column of the entity (OS:284), and a stale save clears it |
| `MoneyBookedOnce` | `doorstep` | idempotent settlement (OS:2461) | the poll books a payment without its id, and the webhook books it again (OS:2477) |
| `NeverKeepBoth` | `doorstep` | does not silently keep the money (OS:2464, OS:2483) | cash taken between the settlement's read and its UPDATE (OS:2527) leaves both payments with the store and no incident |
| `OneOrderPerPayment` | `checkout` | an existing order of the payment is returned (OS:1128) | the look for it takes no lock and no unique index backs it (OS:1132): browser and webhook can both make one |
| `QuoteStands` | `checkout` | quote and total "can never disagree" (OS:931, OS:1036) | when the wallet covers the food but not the delivery, the quote takes it off the charge by distance, the checkout off the flat charge (OS:1243): a paid order is rejected, or the total is negative, hence `Int` in `TypeOK` |
| `WalletPartComesBack` | `refunds` | the wallet portion is credited back (OS:1811) | the guard against doing it twice (OS:1901) matches the row of the online part's credit as well |
| `PorterIsLast` | `dispatch` | "otherwise Porter" only without a rider in time (`dispatch.service.ts:51`) | only the best-ranked rider is asked for the time (`dispatch.algo.ts:609`, `dispatch.service.ts:221`) |
| `PromiseInFives` | `watch` (with `Saved <- MCNarrow`) | quoteEta "returns a 5-minute-rounded range" (`dispatch.algo.spec.ts:134`, `:143`) | true of the default width, which the test takes; `normalizeDispatch` lets a saved width of seven through and the high end, which is saved, is the low end plus seven (`dispatch.algo.ts:279`) |
| `ZoneIsKept` | `pricing` | the address screen "mirrors checkout's pricing exactly" (OS:982) | the checkout's formula returns free delivery (OS:1050) before it looks at the radius (OS:1060): a large order is taken that the screen calls not deliverable |

Others need no definition, since a history variable of the property names the
exception: in `Blast`, `taken` (a customer whose row the office deletes is mailed by the
next batch), `dropped` and `lost` (a request that runs into the row of another,
or is cut off, takes its list of failed mails with it);
in `Outbox`, `doubt` (a message Meta accepted
after the ten seconds of `post` is sent again, though `outbox.service.ts:38`
says "exactly once"); in `Refunds`, `unmarked` (Razorpay returned money while
the row still says paid: a cancellation to the wallet then pays it all again)
and `cut` (a break after the row is marked for the wallet leaves nothing to
find); in `Rewards`, `raced` (two checkouts of one customer both use one gift)
and `crowded` (two checkouts pass the coupon's global limit together: neither
locks its row before it has counted);
in `Trips`, `raced` (two last drops both pay the bonus) and `tangled` (a request
that plans overlapped another: halves of a trip, a trip over capacity, a trip on
the road put back to planned by addToTrip's revival).

Smaller observations made on the way, kept by the models as the code has them:

* `Refunds`: two cancellations that overlap credit twice; a cancellation shows a
  dish again that was hidden by hand.
* `Rewards`: a reversed referral cannot convert again although OS:1957 says so,
  because the cancelled order counts as an earlier one (OS:1421); the milestone
  is not taken back, and a used gift is not restored. That no two conversions
  pay it twice rests on the order of two statements: the referrer's row is
  updated, and so locked, before the conversions are counted.
* `Trips`: a rider who is reserved early stays "available" when the order goes
  out (`trip.sql.ts:19`), and one may stay "busy" with an empty bag: a save that
  read `preparing_food` takes an assigned order back to `food_ready` after the
  delivery of another order has counted the rider's bags (`trip.sql.ts:24`), and
  nobody counts again. `BusyCarries` grants this to races only (`raced`); it
  takes four calls, and the attempt to prove the property for any number of
  them found it. createTrip and pickup work stop by stop and leave halves behind
  when one fails.
* `Dispatch`: joins ignore cash; the cash headroom counts collected cash only; a
  shared trip no rider can take goes to Porter though each order alone would
  find one; "Admin can override with `force`" (OS:186) has no code.
* `Watch`: an order that waits six hours while no pass comes is never alerted
  (`notify.service.ts:272`, `:293`), hence `Overdue` in `KitchenHears`; of more
  than a hundred late orders the last in the list wait for the others to arrive;
  an instance quotes by statistics up to five minutes older than another's;
  a restart between COMMIT and the promise leaves an order without one,
  and so without an apology; an apology claimed and then lost is lost; an alert
  is sent once per order, whatever happens later; a later stop's estimate
  ignores that others cook.
* `Quotes`: exclusive GST is computed (OS:2691) and added to no total, though OS:2671 says it
  would raise every price; coupon
  and deal together may exceed the food; a quote ignores a gifted coupon; a day
  with empty hours is announced as an opening; an offer with `perUser` 0 is
  "exhausted" in the list and unlimited in the cart; a coupon is good at its
  last instant, an offer is not; a saved rate below half a paisa rounds to 0 and
  breaks its CHECK.
* `Reports`: "ONE filter shape" (`reports.service.ts:6`) does not hold for all
  twenty, hence `PlainFilter`; `from` and `to` use the session's midnight while
  days are grouped in IST; an order with a second payment row counts twice in
  the payment breakdown and the export; the delivery report groups by the day
  of delivery and includes deleted orders.
* `Blast`: a batch under way goes on after the coupon is switched off; a request
  cut between the row and the mail leaves a customer marked and never told,
  which is the code's choice ("Assign first"); a mail that arrived without its
  answer is reported as failed.

## What is proved

For every set of riders, requests, codes, tills, outlets, instances, messages,
carts, customers, clicks and amounts, eight modules:

* `OrderLifecycle_proofs`: `TypeCorrect`, `KitchenComesFirst`,
  `HandoverComesFirst`, `PickupNeverDispatched`, `TerminalForever`, `Refinement`
  (`KeepsPromise`) and `FreshBehaves` (`UndisturbedBehaves`). The invariants are
  not inductive: a request may hold a copy with any status and save it late.
  The strengthening says of each copy what the invariants say of the row
  (`SlotInv`): a copy with a dispatched status was made when the kitchen had
  packed, and `seen` only grows; and of the row the history that its status
  implies (`RowInv`). Each action preserves both, since the row after a save is
  a mixture of columns of two rows that satisfy them. `TerminalForever` and
  `Refinement` are action properties from the same invariant; the trigger is
  what they rest on. `FreshBehaves` needs that a request nothing overtook is
  about to write a decision on the row as it stands, and saves exactly the
  columns that differ (`FreshInv`).
* `DoorstepPayment_proofs`: `TypeCorrect`, `CashIsClaimedOnce`,
  `CashIsAnsweredFor`, `MoneyHasGrounds` and `SettledIsBooked`
  (`SettledQrIsBooked`). `Inv` says what each request stands on
  (`Grounds`): one about to settle holds a code Razorpay credited, one about to
  write the ledger has claimed the cash, one about to refund belongs to a
  cancelled order; that every online row of the payments table is `Backed` by
  money of Razorpay; that the COD row is only ever pending or paid and carries
  no code (`CodRow`); and that cash on the books is in the ledger or on its way
  there, unless a delivery was cut off (`CashAccounted`). The WHERE clause of
  the conversion (`status = 'pending'`) is what the proof rests on, not the lock
  on the order, which the rider's UPDATE does not take. `SettledIsBooked` adds
  who holds the lock (`LockInv`) and that a settled code has its row in the
  payments table or the row's transaction is still open (`BooksInv`).
* `Billing_proofs`, of `PosBilling`: `TypeCorrect`, `UnbrokenSeries`, `FreshNumbers`,
  `ClickOnce`, `Refinement` and, of `PosReports`, `TillAndOfficeAreOne`
  (`TillAndOfficeAgree`). `SeriesUnbroken` needs that the number a till
  carries is the committed one plus one (`NumberInv`), which holds since no
  other till of the series can be at the same point; `RequestInv` says that a
  request past its first read has an outlet and a code. The refinement maps a
  series to the statuses of its bills in the order of their numbers; an insert
  appends to it because the series is unbroken. `TillAndOfficeAreOne` adds that
  the newest bill of a day has the token its counter gave last (`LastInv`, from
  the lock on that counter, `TokenInv`) and that no two bills show one number
  (`BillsInv`, from the index). The rest is about sums over sets of bills, by
  day, by outlet, by row of the export: `SumByGroups` and `CountByGroups` say
  that grouping by a key changes no total, and come from an induction over the
  parts of a finite set (`PartsInduction`, with a set in the place of the
  library's operator).
* `Billing_proofs`, of `Quotes`: `QuotesAreHonoured` (`QuoteIsHonoured`),
  `AnnouncementsAreKept` (`AnnouncementsHold`) and `BillsAddUp` (`BillAddsUp`).
  `CartInv` says that a quote of this moment is `priceCart` of the cart and the
  store as they are, and of a bill that its parts add up. What is left is
  arithmetic. `SameCharge`: the wallet covers as much before step 5b as after
  it, so the correction of the charge cancels out. `NextOpenHolds`: a moment
  lies in one day (`OneDay`), and the days nextOpen scans hold each weekday.
  `TaxWithin` and `RoundedRupee` bound the roundings. `SavedRates` follows a
  list entry by entry; `SavingExists` is what makes the recursive function of
  `SaveRates` one, and both are least counterexamples.
* `Billing_proofs`, of `Pricing`: `ScreensAreOne` (`ScreensAgree`). The reports
  are queries, so nearly all of it is about any two sets of rows (`Books`: an
  id is one order's, an order is delivered once and after it was placed, and so
  on), each pair of screens by a lemma of its own. A breakdown partitions
  what it breaks down, so its columns add up (`AmountColumn`, `CountColumn`,
  `GroupedAddsUp`, from the groupings of `PosReports`): by day, hour and weekday
  (`BreakdownsOfBooks`); by area, customer, dish and category, and within bounds
  where a query leaves out orders (riders, coupons) or its join repeats them
  (payments) (`SalesOfBooks`). Each customer has one first order, and his cohort's first month
  holds him once (`NewcomersOfBooks`); an order falls on one day of the delivery
  report and to one rider (`DeliveriesOfBooks`); the cash screens share one sum
  and one comparison (`CashOfBooks`); more healthy days make no shorter a run of
  them (`StreakOfBooks`). What remains is that the cart's order is one more in
  the books, whatever became of it (`PlacedInv`, `OrderIsBooked`). The proof
  showed that `DeliveriesAgree` needs a premise: a delivered order that was
  struck off is in the delivery report and in no summary.
* `Messages_proofs`, of `Outbox`: `AcceptedOnce` (`OnceUnlessInDoubt`),
  `SentIsTrue` (`SentWasAccepted`) and `ForwardOnly` (`StatusForward`), with the
  types in `SenderTypeCorrect`. `SenderInv` says of a message out of doubt that one instance at most
  holds it, on a fresh row that says sending (`Sole`), and that after Meta has
  accepted it the row is settled or about to be (`Witnessed`). A claim takes
  pending rows, requeueing stale ones and a receipt finds settled ones, so none
  touches a row in somebody's hands; what would is what `doubt` records.
* `Checkout_proofs`: `TypeCorrect`, `PaymentsKnown`, `PaymentCoversOrder`,
  `NumbersUnbroken`, `WalletCovers`, `StockCovers` (`NeverOversold`) and
  `OneOrder` (`OneOrderUnlessRaced`). The invariants speak of committed rows;
  what keeps them is what a transaction in flight carries: it is for a payment
  that was made and, once compared, charges what was paid (`PaidInv`); the
  number it drew is the next and nobody else has drawn (`NumberInv`); the wallet
  still has what it will debit, and one request at a time holds it
  (`WalletInv`). `SnapshotInv` is what lets the webhook ignore a payment: no
  pending snapshot means there is an order. The stock counts what
  was sold and what is reserved by a transaction in flight (`StockInv`, a
  cardinality of the set of sales); a second order for a payment needs two
  transactions past their check at once, which is what `raced` records
  (`RaceInv`).
* `Messages_proofs`, of `Blast`: `TypeCorrect`, `SentOnce` (`NeverTwice`) and
  `NobodyIsForgotten` (`NobodyForgotten`). `Once` says of a customer whose row
  nobody took that he has one mail at most, and that whoever is about to mail
  him is the only one, and he has none yet; it lives on `Carried`, each mail is
  sent on a row, since the INSERT of a second request finds that row and
  collides. `Minded` says that a row without
  its mail is being mailed, is on a failed list, or was accounted for; `Alone`
  that a customer no two requests had read has no row while one of them
  is about to write it, so that only crossing requests collide.
* `RefundsRewards_proofs`, of `Refunds`: `TypeCorrect`, `MoneyReturnsOnce` (`ReturnsOnce`),
  `CancellationGivesBack` (`CancelGivesBack`), `PaymentStaysInSight`
  (`NeverOutOfSight`) and `ReportsAreTrue` (`ReportIsTrue`). `PaymentStaysInSight` holds whatever races, from what a request knows
  by having come where it is (`Knows`: one about to mark the row has Razorpay's
  answer). The others need that without a race one request is under way
  (`Alone`) and finds what it expects: a row that says paid has all its money at
  Razorpay, unless an answer or a mark was lost (`Clean`); each reversal finds
  what the one before it left (`Stage`); past its online part a cancellation has
  returned it or flagged it (`OnlineBack`). A report is what its run
  refunded (`AuditInv`): the sum is the cardinality of a set of slices, one per
  unit of money and payment.
* `RefundsRewards_proofs`, of `Rewards`: `RewardsStayWithinLimits`
  (`RewardsWithinLimits`). `RewardInv` rests on the row locks a checkout keeps
  until it commits. `Earns`: who is about to credit a reward holds the referral's
  row, and finds it unconverted when it commits; who is about to pay a milestone
  holds the row of the user it goes to, and no entry has been written since it
  looked. `OneReward`: of a customer's orders one at most has its reward out, or
  has it debited and the referral not open again yet, and while it has the
  referral is converted. `CouponInv` counts a gift not used yet as a use to come;
  a checkout that read the limit can rely on it until it commits, unless another
  of the same customer is in flight (`raced`). For the limit of all customers,
  `CountInv` says that `used_count` is no less than the live uses and those a
  cancellation has dropped and not uncounted yet, for it drops before it
  uncounts; and `RoomInv` that the one checkout about to use the coupon without
  a gift still has room when it commits, unless another such was in flight
  (`crowded`).
* `Delivery_proofs`, of `Trips`: `TypeCorrect`, `BonusIsPaidOnce` (`BonusOnce`),
  `TripsAreFinished` (`NoTripLeftOpen`) and `BooksAreOne` (`BooksAgree`). What a
  request may still do is a list, so the types come first (`TypeInv`) and with
  them the shape of the lists (`ListInv`): which statement may stand before
  which, that a request either plans or moves orders, and that an assignment to
  no particular trip is alone. `BonusInv` says that without a race one request
  is under way, that a paid trip is over and has no stop left, and that no
  statement on a list would pay for it or open it again. `OpenInv` is about
  races too: a trip under way has an undelivered stop, or some request on whose
  list stands a statement that will count it or give it a stop (`Covered`).
  Whoever takes the last stop has put such a statement on its list by then, and
  whoever counts last closes the trip; this holds however the drops race. A
  request that plans (createTrip, addToTrip) is sound only if no other one runs
  beside it (`tangled`), and `PlanOK` says what it relies on: each order is
  placed once and on one trip, it has left its old stop before it gets a new
  one, the trip is planned and the rider's while stops are added, no statement
  takes stops from the trip being filled, and the trip addToTrip falls back on
  has stops of its own. `BooksInv` is about what two places keep: for every
  order its column and its stop (`Pointed`), its status and its stop (`Served`),
  its carrier and its trip's rider (`Rides`), and for every rider the flag and
  the orders (`RidersOK`). Each pair agrees, or a statement on some list is
  named that still has to write one of the two, and what such a statement will
  write is right (`TasksOK`, `ListsOK`). Requests that move statuses may race,
  which `MoveOK` survives: a list saves first, and what the new status entails
  stands behind the save. A request that plans is alone, and `PlansOK` follows
  an order from one rider to the next: whom it is taken from is looked at again,
  whoever is to carry it gets a stop for it, and addToTrip's trip is made anew
  with all its orders or brought back. When all lists are empty nothing is left
  to excuse a disagreement; that the board names nobody without an order needs
  `Covered` too.
* `Dispatch_proofs`, of `Dispatch`: `TypeCorrect`, `AnswersAreTrue` (`AnswersHold`),
  `SharesAllItMay` (`SharesWhatItMay`) and `HandsAreRespected`
  (`TakesFromNobody`). What a pass read may be out of date when it applies it,
  so `IInv` keeps apart what is true of plans and answers by themselves and
  what the rows bear out. By themselves: what was read is waiting, planned or
  answered, each order in one place (`PlanInv`); an answer's orders fit its
  rider's bag and cash, two answers that share an order are for one plan, and no
  rider has two (`SaidInv`); orders that ride alone save nothing together
  (`LonelyInv`). Of the rows: what is on a trip is carried by its rider and fits
  his bag (`CarriesInv`); nobody carries what the pass has read but whom a hand
  or the pass itself gave it to (`FreeInv`); and while no hand has moved
  anything, what is applied is carried as said, and what was due before this
  turn is applied (`DidInv`), for which `createTrip` must let through every new
  trip suggested (`NewTripsAreAllowed`). `LonelyInv` rests on what `formTrips`
  leaves: with two legal orders that save time together the best of the pairs
  is shared (`PairsSave`), the saving being the same whoever is first
  (`PairSaving`). `Explained` says that a route that is not legal breaks a rule
  `explain` knows. Cash and minutes are sums and extremes over finite sets:
  `Bounds`, `SumsExist`, `SumNat` and `SumTwo` get them by a least
  counterexample, in the well-founded orders of the naturals and of finite sets.
* `Dispatch_proofs`, of `Watch`: `ApologisedOnce` (`OneApology`) and `SlowStagesAreCovered`
  (`PromiseCovers`). The advisory lock plays no part in the first: any number of instances may believe they hold it.
  `ToldInv` says that nobody tells, has told or has lost an order whose column is
  empty, and that one instance at most tells of the others; the claim's
  `AND delay_notified_at IS NULL` keeps it. `LoopInv` says that lists hold placed
  orders, which needs that `Listings` of a finite set are sequences of it.
  For the second, `QuoteInv` says that a checkout about to quote has a cart, and
  that `eta_stats`, and whatever an instance has cached of it, holds statistics
  only; `EveryRankIsTaken` finds the
  neighbours a percentile lies between (n rows have n ranks below n), and
  `HighEndCovers` the least multiple of five minutes that lies as far above as
  the root of the squares: the sum of the spreads does (`SumCovers`), and what
  does covers each of them (`RootCovers`). That both ends are multiples of
  five is proved of widths that are; of others it is false (`PromiseInFives`).

Assumptions, each named in its module and evaluated by TLC: the "no value"
constants are outside their sets, days are `1 .. LastDay` with a year each, the
token cap, batch size and number of tries are positive, outlets are finitely
many, amounts of the checkout and of the counters' bills are natural numbers, no
coupon takes off more than a cart costs, a refund in part is less than what was
paid, receipts are among Meta's four, customers are `1 .. N` with `N` positive,
the orders of `Trips` and of `Watch` are finitely many, the moments of `Watch`
are whole minutes of twelve hours and more than five minutes apart (so that what
an instance has cached is out of date at the next, and nothing is learnt twice), and so are those of
`Dispatch` (whose times and places are integers, whose cash is a natural number,
and whose bags take at least one order: the code reads an empty one or a zero as
two), no rider of `Trips` is called `nobody` or `porter`, a rider's trip takes
at least one order, an order of `Rewards` has an owner among its users, the
milestone is positive and the limits of the coupon are natural numbers (zero is
none), and the bounds of events, calls and trips are natural
numbers, and prices, quantities and charges of `Quotes` too, as the admin's
forms demand, with GST of at most 28 percent and hours within a day; the earlier
orders of `Pricing` have ids of their own, amounts that are numbers and finitely
many lines and payments, they are delivered once, at a known moment after they
were placed, a customer places no two at one moment, and this cart's is later
than the others of its customer (`Books`, `PastAssumption`); for `Watch`
so are preparation times, quantities and distances (or there is none), and a
saved setting is a natural number, absent or junk.

Only model-checked:

* liveness (`MessagesSettle`, `LateIsTold`, `KitchenHears`, `EveryCheckoutEnds`,
  `EveryoneIsReached`): the provers do neither fairness nor ENABLED.

Of the operators of `Routes` the proofs of `Dispatch` say what they return;
those of `Quotes` of the amounts, roundings and opening hours of `Money`,
`StoreHours` and `Counter`; those of `Watch` of statistics, stages and quotes of
`Eta`; those of `Pricing` and `PosReports` of the reports' sums and counts. No
module declares a recursive operator: routes are sequences of a set, sums are
folds, and a saved rate list is a recursive function.

## Not modelled

* Row editors (catalogue, content, settings, addresses, reviews, coupons,
  offers, deals, customers, roles) and append-only logs: independent rows
  without state machines.
* Payments administration: an editor of rows whose movements are in
  `Checkout`, `DoorstepPayment` and `Refunds`.
* Scratch cards: one card per delivered order, revealed in one transaction under
  the card's row lock; nothing else depends on it.
* Storefront: content and the normalisation of its configuration.
* Access control: the guards decide which requests arrive; the models take
  those that do. Signature checks likewise.
* Uploads and mail transport: I/O. What becomes of a mail is in `Blast`.
* Of the modelled parts: wording and layout; OTP and geofence; opt-out of
  WhatsApp messages; the order of a trip's stops once made; learned driving
  speeds (a constant of `Watch`'s instance); statistics recomputed by hand, or a
  read of them that fails and is cached as empty; carts of several tracked
  dishes in one transaction; two claims of a referral code by one customer at
  the same moment (`claim` is one step, though it looks twice before it inserts,
  `referrals.service.ts:36`); exported reports; tiffin subscriptions.

The unique indexes, checks and triggers of the migrations are part of the models
of the tables they guard.

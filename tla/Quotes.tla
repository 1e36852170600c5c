------------------------------- MODULE Quotes --------------------------------
(***************************************************************************)
(* One cart between its quote and its order.  createPaymentOrder prices it *)
(* with priceCart, and the checkout prices it again, with a copy of that   *)
(* code.  Between the two the clock runs: the kitchen closes, coupons and  *)
(* deals end.  Who else orders meanwhile is in Checkout.                   *)
(***************************************************************************)
EXTENDS Counter, StoreHours

CONSTANTS
  Worlds,     \* carts, each with the settings of the store it is in (bound)
  Offers,     \* what the offers page may list (bound)
  CounterBills, \* rate lists, bills and discounts at the counters (bound)
  LastMoment  \* the clock stops here (bound)

\* What the admin's forms let through (@Min(0) on every price and rate):
\* prices, quantities and grams are not negative, and nothing is infinite.
PricedDish(d) == d.price \in Nat /\ d.offer \in Nat /\ d.protein \in Nat

PricedThali(t) ==
  /\ t.thali.base \in Nat /\ IsFiniteSet(DOMAIN t.picks)
  /\ \A i \in DOMAIN t.picks : t.picks[i].qty \in Nat /\ t.picks[i].option.extra \in Nat

PricedCart(c) ==
  /\ IsFiniteSet(DOMAIN c.items) /\ IsFiniteSet(DOMAIN c.thalis) /\ IsFiniteSet(c.coupons)
  /\ \A d \in DOMAIN c.items : PricedDish(d) /\ c.items[d] \in Nat
  /\ \A i \in DOMAIN c.thalis : PricedThali(c.thalis[i])
  /\ \A k \in c.coupons : k.value \in Nat /\ k.cap \in Nat
  /\ {c.online, c.pickup, c.gifted, c.useWallet} \subseteq BOOLEAN
  /\ c.km \in Int /\ c.tip \in Int /\ c.balance \in Nat /\ c.usedByUser \in Nat

\* Hours are within a day, and GST is at most 28 percent (@Max(28)).
PricedShop(s) ==
  /\ {s.flat, s.freeAbove, s.base, s.perKm, s.freeKm, s.flash.pct} \subseteq Nat
  /\ s.gst.rate \in 0 .. 28 /\ {s.gst.on, s.gst.inclusive, s.gst.onDelivery} \subseteq BOOLEAN
  /\ \A d \in 0 .. Week - 1 : /\ s.hours[d].open \in 0 .. DayMinutes - 1
                               /\ s.hours[d].close \in 0 .. DayMinutes

PricedRates(rates) == \A d \in DOMAIN rates : rates[d].rate \in Nat /\ rates[d].onSale \in BOOLEAN

PricedBill(b) ==
  /\ DOMAIN b.lists = {"here", "there"} /\ PricedRates(b.lists.here) /\ PricedRates(b.lists.there)
  /\ Len(b.saved) \in Nat /\ DOMAIN b.saved = 1 .. Len(b.saved)
  /\ \A i \in DOMAIN b.saved : b.saved[i].rate \in Int /\ b.saved[i].onSale \in BOOLEAN
  /\ IsFiniteSet(DOMAIN b.entries)
  /\ \A i \in DOMAIN b.entries : /\ b.entries[i].qty \in Nat /\ b.entries[i].dish \in b.dishes
                                  /\ PricedDish(b.entries[i].dish)
  /\ b.value \in Nat

ASSUME QuotesAssumption ==
  /\ \A w \in Worlds : PricedCart(w.cart) /\ PricedShop(w.shop)
  /\ \A o \in Offers : o.perUser \in Nat
  /\ \A b \in CounterBills : PricedBill(b)
  /\ LastMoment \in Nat

VARIABLES
  cart,
  shop,
  now,
  quote,     \* what createPaymentOrder answered
  quotedAt,
  bill       \* the order's row, or how the checkout ended

cartVars == <<cart, shop, now, quote, quotedAt, bill>>

Nothing == [state |-> "none"]
Refused == [state |-> "refused"]

----------------------------------------------------------------------------
(* The parts both copies share.                                            *)

ThalisOffered(c) == \A i \in DOMAIN c.thalis : ThaliOffered(c.thalis[i].thali, c.thalis[i].picks)

Subtotal(c) ==
  DishesTotal(c.items)
  + SumFunction([i \in DOMAIN c.thalis |-> ThaliPrice(c.thalis[i].thali, c.thalis[i].picks)])

\* At most one coupon.
CouponTaken(c, gifted) ==
  \A k \in c.coupons : CouponValid(k, Subtotal(c), c.usedByUser, gifted, now)

Discount(c) ==
  SumFunction([k \in c.coupons |-> CouponWorth(k, Subtotal(c))])
  + FlashWorth(shop.flash, Subtotal(c), now)

WithinOrderLimits(c) ==
  /\ Subtotal(c) >= shop.min
  /\ shop.max > 0 => Subtotal(c) <= shop.max

\* The zone cannot be checked without a pin.
Pinned(c) == shop.radius > 0 => c.km # NoPin

Distance(c) == IF shop.pinned THEN c.km ELSE NoPin

Net(c) == Subtotal(c) - Discount(c)

Delivery(c) == IF c.pickup THEN 0 ELSE DeliveryCharge(shop, Net(c), Distance(c))

Tip(c) == IF c.pickup THEN 0 ELSE Positive(Min({c.tip, 500 * Rupee}))

\* What neither copy accepts.
Acceptable(c, gifted) ==
  /\ IsOpen(shop, now)
  /\ ThalisOffered(c) /\ CouponTaken(c, gifted) /\ WithinOrderLimits(c)
  /\ IF c.pickup THEN HandsOut(c.outlet, Day(now))
     ELSE Pinned(c) /\ ~ DeliveryRefused(shop, Net(c), Distance(c))

\* Math.min(balance, payable), whatever the sign of payable.
FromWallet(c, payable) == IF c.useWallet THEN Min({c.balance, payable}) ELSE 0

----------------------------------------------------------------------------
(* The quote.                                                              *)

PriceCart(c) ==
  LET due == Net(c) + Delivery(c) + Tip(c)
      wallet == FromWallet(c, due)
  IN [state |-> "open", delivery |-> Delivery(c), wallet |-> wallet, payable |-> due - wallet]

----------------------------------------------------------------------------
(* The order.                                                              *)

\* What the checkout starts from.
FlatCharge(c) == IF c.pickup \/ Net(c) >= shop.freeAbove THEN 0 ELSE shop.flat

\* A checkout that leaves the charge at what it started from.
BugDueAfter(c, payable) == payable

\* Step 5b corrects the charge.
DueAfter(c, payable) == payable + (Delivery(c) - FlatCharge(c))

\* A negative part of the wallet is neither added nor debited, and stored.
Total(c) ==
  LET due == Net(c) + FlatCharge(c) + Tip(c)
  IN DueAfter(c, due - Positive(FromWallet(c, due)))

Order(c) ==
  LET gst == Gst(shop.gst, Positive(Net(c)), Delivery(c))
  IN [state |-> "placed", at |-> now, subtotal |-> Subtotal(c), discount |-> Discount(c),
      delivery |-> Delivery(c), tip |-> Tip(c),
      wallet |-> FromWallet(c, Net(c) + FlatCharge(c) + Tip(c)),
      tax |-> gst.tax, halves |-> gst.halves, total |-> Total(c)]

\* Math.abs(payable - paid) > 100 paise
Paid(c) == c.online => quote.state = "open" /\ Total(c) - quote.payable \in -Rupee .. Rupee

\* The address is on record, or written out.
Addressed(c) == c.pickup \/ c.addressed

CheckoutAccepts(c) == Acceptable(c, c.gifted) /\ Addressed(c) /\ Paid(c)

\* posOrder: the menu's prices, nothing off, nothing delivered, paid at once.
CounterOrder(food) ==
  LET gst == Gst(shop.gst, food, 0)
  IN [tax |-> gst.tax, halves |-> gst.halves, total |-> food]

----------------------------------------------------------------------------
(* The cart's way.                                                         *)

\* createPaymentOrder; priceCart knows nothing of gifted coupons.
CreatePaymentOrder ==
  /\ cart.online /\ quote = Nothing /\ bill = Nothing
  /\ Acceptable(cart, FALSE)
  /\ PriceCart(cart).payable >= Rupee
  /\ quote' = PriceCart(cart)
  /\ quotedAt' = now
  /\ UNCHANGED <<cart, shop, now, bill>>

Tick ==
  /\ now < LastMoment
  /\ now' = now + 1
  /\ UNCHANGED <<cart, shop, quote, quotedAt, bill>>

\* A cart paid online comes with its payment.
Checkout ==
  /\ bill = Nothing
  /\ cart.online => quote # Nothing
  /\ bill' = IF CheckoutAccepts(cart) THEN Order(cart) ELSE Refused
  /\ UNCHANGED <<cart, shop, now, quote, quotedAt>>

CartInit ==
  /\ \E w \in Worlds : cart = w.cart /\ shop = w.shop
  /\ now \in 0 .. LastMoment
  /\ quote = Nothing /\ quotedAt = Never /\ bill = Nothing

CartNext == CreatePaymentOrder \/ Tick \/ Checkout

CartSpec == CartInit /\ [][CartNext]_cartVars

----------------------------------------------------------------------------
\* The same customer pays the same when the charge the checkout starts from
\* is the final one, or the wallet would cover neither.
WalletSettled(c) ==
  \/ ~ c.useWallet
  \/ FlatCharge(c) = Delivery(c)
  \/ c.balance <= Net(c) + Tip(c) + Min({FlatCharge(c), Delivery(c)})

\* "Prices the cart exactly like checkout would": at the moment of its quote,
\* a cart with an address is accepted for exactly what was quoted, unless the
\* wallet reaches into a delivery charge that differs from the flat one.
QuoteIsHonoured ==
  quote # Nothing /\ now = quotedAt /\ Addressed(cart) /\ WalletSettled(cart)
    => CheckoutAccepts(cart) /\ Total(cart) = quote.payable

Misconfigured(day) == Listed(shop, day) /\ ~ Served(shop, day)

\* "Computes the next opening time ... instead of a dead end": at the moment
\* a closed store announces it does open, and at none before; when it
\* announces none it stays closed for a week.  A day whose hours are empty is
\* announced like another.
NextOpenIsReal ==
  LET at == NextOpenAt(shop, now) IN
    ~ IsOpen(shop, now) /\ ~ shop.forceClosed =>
      IF at = Never
        THEN \A t \in now .. now + Week * DayMinutes : ~ IsOpen(shop, t)
        ELSE /\ \A t \in now .. at - 1 : ~ IsOpen(shop, t)
             /\ IsOpen(shop, at) \/ Misconfigured(Day(at))

\* "CGST + SGST must sum EXACTLY to the total" of the tax, "the bill still
\* adds up to the paisa": the parts of an order make its total unless its
\* discounts exceed it, and so do those of the counters' bills and orders.
\* A bill at a counter whose rates were saved or copied charges what its menu
\* shows, and is refused when it asks for a dish its menu does not show.
BillAddsUp ==
  /\ bill.state = "placed" =>
       /\ bill.halves.cgst + bill.halves.sgst = bill.tax
       /\ bill.wallet >= 0 =>
            bill.total = bill.subtotal - bill.discount + bill.delivery + bill.tip - bill.wallet
  /\ now = LastMoment /\ quote = Nothing /\ bill = Nothing => \A b \in CounterBills :
       LET lists == [b.lists EXCEPT !.there = SaveRates(@, b.saved)]
           rates == (IF b.copied THEN CopyRates(lists, "here", "there") ELSE lists).here
           subtotal == BillSubtotal(rates, b.entries)
           t == BillTotals(shop.gst, subtotal, b.percent, b.value)
           o == CounterOrder(subtotal)
       IN /\ SavedAsTyped(b.lists.there, b.saved) /\ BilledAsShown(rates, b.dishes, b.entries)
          /\ BillAccepted(rates, b.entries) =>
               /\ t.taxable + t.halves.cgst + t.halves.sgst + t.roundOff = t.total
               /\ t.roundOff \in -50 .. 50
               /\ o.halves.cgst + o.halves.sgst = o.tax /\ o.tax <= o.total

\* "Two different answers to the same question is how customers end up
\* arguing with support": an offer on the page, not greyed out, that is worth
\* something on the cart is not refused when the cart asks for it.
ListedOffersApply ==
  \A o \in Offers :
    LET worth == \/ o.type = "free_item" /\ o.hasItem
                 \/ o.type = "free_delivery" /\ Delivery(cart) > 0
                 \/ OfferWorth(o, Subtotal(cart)) > 0
    IN OfferListed(o, now) /\ ~ OfferExhausted(o, cart.usedByUser)
         /\ Subtotal(cart) >= o.min /\ worth
         => OfferValid(o, Subtotal(cart), Delivery(cart), cart.usedByUser, now)

\* Refuted (README): "mirrors checkout's pricing exactly": what the address screen calls not
\* deliverable is not ordered.
ZoneIsKept ==
  bill.state = "placed" /\ ~ cart.pickup => Deliverable(shop, cart.km, Distance(cart))

\* What the shop announces to a customer comes true: the next opening, and the
\* offers on the list.
AnnouncementsHold == NextOpenIsReal /\ ListedOffersApply
=============================================================================

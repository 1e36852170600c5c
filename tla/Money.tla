-------------------------------- MODULE Money --------------------------------
(***************************************************************************)
(* The arithmetic of prices: dishes, thalis, coupons, offers, flash deals, *)
(* delivery charges and GST.  Amounts are paise, rates percent, distances  *)
(* tenths of a kilometre; times are whatever unit the caller counts in.    *)
(***************************************************************************)
EXTENDS Integers, Sequences, FiniteSetsExt, Functions

Rupee == 100

\* Math.round(n / d)
Round(n, d) == (2 * n + d) \div (2 * d)

Positive(n) == Max({n, 0})

----------------------------------------------------------------------------
(* Food.                                                                   *)

UnitPrice(dish) == IF 0 < dish.offer /\ dish.offer < dish.price THEN dish.offer ELSE dish.price

\* items: how many of each dish.
DishesTotal(items) == SumFunction([d \in DOMAIN items |-> UnitPrice(d) * items[d]])

\* The portions of an option; the same one may be picked twice.
Portions(picks, o) ==
  SumFunction([i \in {j \in DOMAIN picks : picks[j].option = o} |-> picks[i].qty])

Picked(picks) == {picks[i].option : i \in DOMAIN picks}

\* priceCheck: the options belong to the thali and are available, and the
\* portions keep to the limits of each option and of each section.
ThaliOffered(thali, picks) ==
  /\ Picked(picks) \subseteq UNION {s.options : s \in thali.sections}
  /\ \A o \in Picked(picks) : o.available /\ Portions(picks, o) <= o.maxQty
  /\ \A s \in thali.sections :
       SumFunction([o \in s.options |-> Portions(picks, o)]) \in s.minSelect .. s.maxSelect

ThaliPrice(thali, picks) ==
  thali.base + SumFunction([o \in Picked(picks) |-> o.extra * Portions(picks, o)])

----------------------------------------------------------------------------
(* What comes off.                                                         *)

WithinLimits(c, usedByUser) ==
  /\ c.limit > 0 => c.used < c.limit
  /\ c.perUser > 0 => usedByUser < c.perUser

CouponWorth(c, subtotal) ==
  LET plain == IF c.flat THEN c.value ELSE Round(subtotal * c.value, 100)
      capped == IF c.cap > 0 THEN Min({plain, c.cap}) ELSE plain
  IN Min({capped, subtotal})

\* computeCouponDiscount; a gift is its own authorisation.
CouponValid(c, subtotal, usedByUser, gifted, now) ==
  /\ c.active /\ c.from <= now /\ now <= c.until
  /\ gifted \/ WithinLimits(c, usedByUser)
  /\ subtotal >= c.min
  /\ CouponWorth(c, subtotal) > 0

\* FlashService.current: BETWEEN includes both ends.
FlashLive(deal, now) == deal.active /\ deal.from <= now /\ now <= deal.until

FlashWorth(deal, subtotal, now) ==
  IF FlashLive(deal, now) THEN Round(subtotal * deal.pct, 100) ELSE 0

\* The filter of OffersService.live, and what the list adds for a customer.
OfferListed(o, now) ==
  /\ o.active /\ o.from <= now /\ now < o.until
  /\ o.limited => o.used < o.limit

OfferExhausted(o, usedByUser) == usedByUser >= o.perUser

OfferWorth(o, subtotal) ==
  CASE o.type = "flat" -> Min({o.value, subtotal})
    [] o.type = "percentage" ->
         LET plain == Round(subtotal * o.value, 100)
         IN Min({IF o.cap > 0 THEN Min({plain, o.cap}) ELSE plain, subtotal})
    [] OTHER -> 0

\* An offer whose last moment counts, as a coupon's does.
BugOfferInWindow(o, now) == o.from < now /\ now < o.until

OfferInWindow(o, now) == o.from <= now /\ now < o.until

\* evaluateOffer
OfferValid(o, subtotal, delivery, usedByUser, now) ==
  /\ o.active /\ OfferInWindow(o, now)
  /\ subtotal >= o.min
  /\ o.limited => o.used < o.limit
  /\ o.perUser > 0 => usedByUser < o.perUser
  /\ CASE o.type = "free_delivery" -> delivery > 0
       [] o.type = "free_item" -> o.hasItem
       [] OTHER -> OfferWorth(o, subtotal) > 0

----------------------------------------------------------------------------
(* Delivery.                                                               *)

NoPin == -1

\* 250 rupees up to 2 km, and 100 more for each 2 km begun beyond.
FreeDeliveryThreshold(shop, km) ==
  IF km = NoPin THEN IF shop.freeAbove = 0 THEN 250 * Rupee ELSE shop.freeAbove
    ELSE (250 + 100 * (Positive(km - 1) \div 20)) * Rupee

TooFar(shop, km) == shop.radius > 0 /\ km # NoPin /\ km > shop.radius

\* deliveryPricing refuses a place outside the zone, unless delivery is free.
DeliveryRefused(shop, net, km) == net < FreeDeliveryThreshold(shop, km) /\ TooFar(shop, km)

DeliveryCharge(shop, net, km) ==
  CASE net >= FreeDeliveryThreshold(shop, km) -> 0
    [] OTHER ->
       CASE km = NoPin -> shop.flat
         [] km # NoPin /\ km <= shop.freeKm -> 0
         [] OTHER -> Rupee * Round(10 * shop.base + km * shop.perKm, 10 * Rupee)

\* What the address screen is told of a place.
Deliverable(shop, pin, km) == ~ TooFar(shop, km) /\ ~ (shop.radius > 0 /\ pin = NoPin)

----------------------------------------------------------------------------
(* Tax.                                                                    *)

\* Both halves rounded.
BugHalves(tax) == [cgst |-> Round(tax, 2), sgst |-> Round(tax, 2)]

\* Halve, and take the other half by subtraction.
Halves(tax) == LET cgst == Round(tax, 2) IN [cgst |-> cgst, sgst |-> tax - cgst]

\* computeGst: tax within the price, or on top of it.
Gst(gst, food, delivery) ==
  LET base == food + (IF gst.onDelivery THEN delivery ELSE 0)
      tax == IF ~ gst.on \/ base <= 0 THEN 0
             ELSE IF gst.inclusive THEN Round(base * gst.rate, 100 + gst.rate)
             ELSE Round(base * gst.rate, 100)
  IN [tax |-> tax, halves |-> Halves(tax)]

\* billTotals of the counters: tax on the net, the total in whole rupees.
BillTotals(gst, subtotal, percent, value) ==
  LET off == IF percent THEN Round(subtotal * Min({value, 100}), 100) ELSE value
      discount == Min({subtotal, off})
      net == subtotal - discount
      taxed == gst.on /\ net > 0
      taxable == IF taxed /\ gst.inclusive THEN Round(100 * net, 100 + gst.rate) ELSE net
      tax == IF ~ taxed THEN 0 ELSE IF gst.inclusive THEN net - taxable ELSE Round(net * gst.rate, 100)
      total == Rupee * Round(taxable + tax, Rupee)
  IN [discount |-> discount, taxable |-> taxable, halves |-> Halves(tax),
      roundOff |-> total - (taxable + tax), total |-> total]
=============================================================================

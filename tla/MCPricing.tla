----------------------------- MODULE MCPricing -----------------------------
(* Instances of Pricing for TLC. *)
EXTENDS Pricing, TLC

Dish(name, price, offer) == [name |-> name, category |-> "food", active |-> name # "stew", protein |-> 15, price |-> price, offer |-> offer]
Meal == Dish("meal", 24000, 19901)
Feast == Dish("feast", 60050, 0)

Option(extra, maxQty) == [extra |-> extra, maxQty |-> maxQty, available |-> TRUE]
Roti == Option(1000, 4)
Thali == [base |-> 15000,
          sections |-> {[options |-> {Roti, Option(2500, 1)}, minSelect |-> 1, maxSelect |-> 3]}]
Picks(qty) == <<[thali |-> Thali,
                 picks |-> <<[option |-> Roti, qty |-> 1], [option |-> Roti, qty |-> qty]>>]>>

Coupon(flat, value, cap, perUser) ==
  [active |-> TRUE, from |-> 0, until |-> 5, limit |-> 3, used |-> 2, perUser |-> perUser,
   min |-> 15000, flat |-> flat, value |-> value, cap |-> cap]
TenPercent == Coupon(FALSE, 10, 3000, 1)
AllOff == Coupon(TRUE, 60000, 0, 1)

Cart(items, thalis, coupons, usedByUser, gifted, useWallet, balance, pickup, km, addressed, tip, online) ==
  [items |-> items, thalis |-> thalis, coupons |-> coupons, usedByUser |-> usedByUser,
   gifted |-> gifted, useWallet |-> useWallet, balance |-> balance, pickup |-> pickup,
   outlet |-> [active |-> TRUE, takeaway |-> TRUE, opensOn |-> IF online THEN 1 ELSE 0],
   km |-> km, addressed |-> addressed, tip |-> tip, online |-> online]

NoDish == [d \in {} |-> 0]
One(d) == d :> 1

\* What customers order and how they pay for it; at the door, near and far.
Plain ==
  {Cart(One(Meal), <<>>, k, n, g, w # 0, w, FALSE, km, TRUE, 2000, TRUE) :
     k \in {{}, {TenPercent}, {AllOff}}, n \in {0, 1}, g \in BOOLEAN,
     w \in {0, 18000, 99999}, km \in {NoPin, 0, 35, 90}}
Odd ==
  {Cart(items, Picks(q), {}, 0, FALSE, w # 0, w, pickup, km, a, 0, online) :
     items \in {NoDish, Meal :> 1 @@ Feast :> 2}, q \in {2, 3}, w \in {0, 21000}, pickup \in BOOLEAN,
     km \in {20, 90}, a \in BOOLEAN, online \in BOOLEAN}

Always == [open |-> 0, close |-> 4, closed |-> FALSE]
Lunch == [open |-> 1, close |-> 3, closed |-> FALSE]
Empty == [open |-> 2, close |-> 2, closed |-> FALSE]
Closed == [open |-> 1, close |-> 3, closed |-> TRUE]
Days(a, b, c) == 0 :> a @@ 1 :> b @@ 2 :> c

Tax(on, inclusive, onDelivery) ==
  [on |-> on, rate |-> 5, inclusive |-> inclusive, onDelivery |-> onDelivery]

Shop(hours, holidays, forceClosed, pinned, radius, gst, pct) ==
  [hours |-> hours, holidays |-> holidays, forceClosed |-> forceClosed,
   min |-> 15000, max |-> 200000, flat |-> 3000, freeAbove |-> 50000,
   base |-> 2000, perKm |-> 800, freeKm |-> 10, radius |-> radius, pinned |-> pinned,
   gst |-> gst, flash |-> [active |-> pct > 0, from |-> 0, until |-> 1, pct |-> pct]]

AllDay == Days(Always, Always, Always)

PricedShops ==
  {Shop(AllDay, {}, FALSE, TRUE, 60, Tax(TRUE, TRUE, TRUE), 0),
   Shop(AllDay, {}, FALSE, TRUE, 0, Tax(TRUE, FALSE, FALSE), 13),
   Shop(AllDay, {}, FALSE, FALSE, 0, Tax(FALSE, TRUE, FALSE), 50)}
ClosingShops ==
  {Shop(h, d, f, TRUE, 0, Tax(TRUE, TRUE, FALSE), 0) :
     h \in [0 .. 2 -> {Lunch, Empty, Closed}], d \in {{}, {1}, {2, 4}}, f \in BOOLEAN}

MCWorlds ==
  [cart : Plain \cup Odd, shop : PricedShops] \cup
  [cart : {Cart(One(Meal), <<>>, {}, 0, FALSE, FALSE, 0, FALSE, 0, TRUE, 0, TRUE)}, shop : ClosingShops]

Offer(type, value, cap, limited, perUser) ==
  [active |-> TRUE, from |-> 1, until |-> 4, min |-> 15000, limited |-> limited, limit |-> 2, used |-> 1,
   perUser |-> perUser, type |-> type, value |-> value, cap |-> cap, hasItem |-> TRUE]

MCOffers ==
  {Offer("flat", 99999, 0, TRUE, 1), Offer("percentage", 15, 2000, FALSE, 2),
   Offer("free_item", 0, 0, TRUE, 1), Offer("free_delivery", 0, 0, FALSE, 1)}

Stew == Dish("stew", 9000, 0)
Rate(rate, onSale) == [rate |-> rate, onSale |-> onSale]
Entry(dish, rate, onSale) == [dish |-> dish, rate |-> rate, onSale |-> onSale]
Line(dish, qty) == [dish |-> dish, qty |-> qty]
NoRates == [d \in {} |-> Rate(0, TRUE)]

\* A list is saved over another one, and copied or not; carts with repeats, a
\* dish nobody sells and one too many.
MCCounterBills ==
  [lists : {[here |-> Meal :> Rate(4999, TRUE), there |-> old] :
              old \in {NoRates, Meal :> Rate(12345, TRUE) @@ Feast :> Rate(0, FALSE)}},
   saved : {<<>>, <<Entry(Feast, 0, TRUE)>>, <<Entry(Meal, 15500, FALSE), Entry(Meal, 15501, TRUE)>>},
   copied : BOOLEAN, dishes : {{Meal, Feast, Stew}},
   entries : {<<Line(Meal, 1), Line(Feast, 1), Line(Meal, 2)>>, <<Line(Stew, 1)>>, <<Line(Meal, 999), Line(Meal, 1)>>},
   percent : BOOLEAN, value : {0, 7, 120}]

\* Three earlier orders: of the same customer, before the day and its range;
\* a cancelled one; and one whose QR left a second payment.
PastOrder(id, placed, status, user, rider, coupon, total, payments) ==
  [pickup |-> FALSE, promised |-> IF id = "p3" THEN {} ELSE {placed + 1}, stops |-> IF id = "p3" THEN 2 ELSE 1,
   fee |-> IF id = "p3" THEN {120} ELSE {}, done |-> IF status = "delivered" THEN {placed + 2} ELSE {},
   id |-> id, placed |-> placed, status |-> status, deleted |-> FALSE, user |-> user,
   rider |-> rider, area |-> "near", coupon |-> coupon, subtotal |-> total + 700, discount |-> 700,
   delivery |-> 0, tax |-> 5, tip |-> 0, wallet |-> 0, total |-> total,
   lines |-> {[line |-> 0, dish |-> "meal", category |-> "food", qty |-> 1, protein |-> 30, amount |-> total]},
   payments |-> payments]
Payment(method, status, amount) == [method |-> method, status |-> status, amount |-> amount]

MCPast ==
  [orders |-> {PastOrder("p1", -2, "delivered", "customer", "rider", "none", 900, {Payment("cod", "paid", 900)}),
               PastOrder("p2", 1, "cancelled", "other", "nobody", "coupon", 400, {}),
               PastOrder("p3", 5, "delivered", "other", "rider2", "coupon", 300,
                         {Payment("cod", "refunded", 300), Payment("online", "paid", 300)})},
   ledger |-> {[order |-> "p1", rider |-> "rider", amount |-> 900]},
   deposits |-> {[rider |-> "rider", amount |-> 500, at |-> -1], [rider |-> "rider2", amount |-> 50, at |-> 6]},
   earnings |-> {[order |-> "p1", rider |-> "rider", total |-> 40]},
   baseFare |-> 3000, perKmPay |-> 50, riders |-> {"rider", "rider2"}, cap |-> 30000,
   menu |-> {"meal", "feast", "soup"}, enough |-> 25]

NoFilter == [from |-> {}, to |-> {}, status |-> {}, rider |-> {}, category |-> {}, product |-> {},
             payment |-> {}, coupon |-> {}]
MCFilters ==
  {NoFilter, [NoFilter EXCEPT !.from = {0}], [NoFilter EXCEPT !.from = {0}, !.to = {0}],
   [NoFilter EXCEPT !.to = {0}, !.rider = {"rider"}], [NoFilter EXCEPT !.status = {"cancelled"}],
   [NoFilter EXCEPT !.from = {1}, !.payment = {"cod"}, !.product = {"meal"}]}
=============================================================================

------------------------------- MODULE Pricing -------------------------------
(***************************************************************************)
(* The order a cart becomes (Quotes), in the reports.                      *)
(***************************************************************************)
EXTENDS Quotes, Reports

CONSTANTS
  Past,       \* the orders, the cash and the deposits before this cart (bound)
  Filters     \* what the owner asks the reports for (bound)

\* An order's rows: its lines and payments are finitely many, it is delivered
\* once, after it was placed, and at a door at a known moment.
Recorded(o) ==
  /\ {o.placed, o.total} \subseteq Int /\ o.discount \in Nat
  /\ IsFiniteSet(o.lines) /\ \A l \in o.lines : l.amount \in Int /\ l.protein \in Nat
  /\ IsFiniteSet(o.payments)
  /\ \A t, u \in o.done : t = u /\ t \in Int /\ o.placed <= t
  /\ o.status = "delivered" /\ ~ o.pickup => o.done # {}

\* Orders have ids, and no customer places two at the same moment; who earned
\* something for an order is its rider.
Books(orders, earnings) ==
  /\ IsFiniteSet(orders) /\ \A o \in orders : Recorded(o)
  /\ \A o, p \in orders : o.id = p.id \/ (o.user = p.user /\ o.placed = p.placed) => o = p
  /\ IsFiniteSet(earnings) /\ \A e \in earnings : e.total \in Int
  /\ \A e \in earnings, o \in orders : e.order = o.id => o.rider # "nobody"

\* Cash counted at the door or handed in.
Counted(S) == IsFiniteSet(S) /\ \A x \in S : x.amount \in Int

\* This cart's order is a new one, later than the others of its customer.
ASSUME PastAssumption ==
  /\ Books(Past.orders, Past.earnings) /\ Counted(Past.ledger) /\ Counted(Past.deposits)
  /\ \A o \in Past.orders : o.id # "this" /\ (o.user = "customer" => o.placed < 0)
  /\ \A e \in Past.earnings : e.order # "this"
  /\ {Past.baseFare, Past.perKmPay, Past.cap, Past.enough} \subseteq Int

\* order_items: the dishes, and each thali a line of its own.
Lines(c) ==
  {[line |-> 0, dish |-> d.name, category |-> d.category, qty |-> c.items[d],
    protein |-> d.protein * c.items[d], amount |-> UnitPrice(d) * c.items[d]] : d \in DOMAIN c.items}
  \cup {[line |-> i, dish |-> "thali", category |-> "Uncategorised", qty |-> 1,
         protein |-> 0, amount |-> ThaliPrice(c.thalis[i].thali, c.thalis[i].picks)] : i \in DOMAIN c.thalis}

\* The order as the reports find it once it has come to a status.
Reported(status) ==
  [id |-> "this", placed |-> bill.at, status |-> status, deleted |-> FALSE, user |-> "customer",
   rider |-> IF cart.pickup THEN "nobody" ELSE "rider",
   area |-> IF cart.pickup THEN "Unknown" ELSE "near",
   coupon |-> IF cart.coupons = {} THEN "none" ELSE "coupon",
   subtotal |-> bill.subtotal, discount |-> bill.discount, delivery |-> bill.delivery,
   tax |-> bill.tax, tip |-> bill.tip, wallet |-> bill.wallet, total |-> bill.total,
   pickup |-> cart.pickup, promised |-> {bill.at + 1}, stops |-> 1, fee |-> {},
   done |-> IF status = "delivered" THEN {now} ELSE {},
   lines |-> Lines(cart),
   payments |-> {[method |-> IF cart.online THEN "online" ELSE "cod",
                  status |-> IF cart.online \/ status = "delivered" THEN "paid" ELSE "pending",
                  amount |-> bill.total]}]

\* What its rider collected for it.
CashOf(order) ==
  {[order |-> order.id, rider |-> order.rider, amount |-> p.amount] :
     p \in {q \in order.payments : q.method = "cod" /\ q.status = "paid"}}

\* What its rider earned: the fare, the way and the tip.
PayOf(order) ==
  LET way == IF Distance(cart) = NoPin THEN 0 ELSE Distance(cart) * Past.perKmPay
  IN IF order.done = {} \/ order.rider = "nobody" THEN {}
     ELSE {[order |-> order.id, rider |-> order.rider, total |-> Past.baseFare + way + order.tip]}

----------------------------------------------------------------------------
\* "EVERY report shares ONE filter shape ... a report that can't be filtered
\* the same way is a report people stop trusting, because two screens
\* disagree": at the end of the day, whatever became of the order, reports on
\* one selection of dates and riders add up to the same counts and amounts,
\* and so does every breakdown by any filter.  The rider, the owner and the
\* dispatcher see the same cash, and a delivery shortens no streak.
ScreensAgree ==
  bill.state = "placed" /\ now = LastMoment =>
    \A status \in {"order_received", "delivered", "cancelled"} :
      LET order == Reported(status)
          orders == Past.orders \cup {order}
          ledger == Past.ledger \cup CashOf(order)
      IN /\ \A f \in Filters :
              /\ BreakdownsAddUp(orders, f)
              /\ PlainFilter(f) => SalesAgree(orders, f, Past.menu) /\ NewcomersAgree(orders, f)
         /\ DeliveriesAgree(orders, Past.earnings \cup PayOf(order), 0, Day(now))
         /\ CashScreensAgree(ledger, Past.deposits, Past.riders, Past.cap, now)
         /\ Streak(orders, order.user, Day(now), Past.enough)
              >= Streak(Past.orders, order.user, Day(now), Past.enough)
=============================================================================

------------------------------- MODULE Reports -------------------------------
(***************************************************************************)
(* The owner's reports: aggregates over the orders table, one query each.  *)
(* An order here is its row with its lines and its payments; a filter that *)
(* is not given is the empty set.  Averages, percentiles and the reports   *)
(* on reviews, stock, wallets, referrals and tickets are left out.         *)
(***************************************************************************)
EXTENDS StoreHours, Functions

CONSTANTS
  Ahead,      \* minutes that India is ahead of the database session's clock
  HourLength, \* minutes of an hour (bound: 60 in the code)
  MonthDays   \* days of a month (bound: about 30)

ASSUME ReportsAssumption == Ahead \in Nat /\ HourLength \in Nat \ {0} /\ MonthDays \in Nat \ {0}

Sum(f(_), S) == SumFunction([x \in S |-> f(x)])

\* placed_at >= '2026-07-16' means the midnight of the session's time zone.
Midnight(day) == day * DayMinutes + Ahead

----------------------------------------------------------------------------
(* The WHERE every report shares.                                          *)

InRange(o, f) ==
  /\ \A d \in f.from : o.placed >= Midnight(d)
  /\ \A d \in f.to : o.placed < Midnight(d + 1)

\* deliveredOnly replaces the filter on the status.
Rows(orders, f, deliveredOnly) ==
  {o \in orders :
     /\ ~ o.deleted
     /\ InRange(o, f)
     /\ IF deliveredOnly THEN o.status = "delivered" ELSE f.status # {} => o.status \in f.status
     /\ f.rider # {} => o.rider \in f.rider}

Sold(orders, f) == Rows(orders, f, TRUE)

With(S, status) == {o \in S : o.status = status}

\* Revenue that counts every order that was not cancelled.
BugRevenue(S) == Sum(LAMBDA o : o.total, S \ With(S, "cancelled"))

\* "Revenue counts DELIVERED orders only."
Revenue(S) == Sum(LAMBDA o : o.total, With(S, "delivered"))

Users(S) == {o.user : o \in S}

----------------------------------------------------------------------------
(* Orders.                                                                 *)

OrdersSummary(orders, f) ==
  LET S == Rows(orders, f, FALSE)
      done == With(S, "delivered")
      gone == With(S, "cancelled")
  IN [totalOrders |-> Cardinality(S), delivered |-> Cardinality(done), cancelled |-> Cardinality(gone),
      inFlight |-> Cardinality(S \ (done \cup gone)),
      revenue |-> Revenue(S),
      discounts |-> Sum(LAMBDA o : o.discount, done), tax |-> Sum(LAMBDA o : o.tax, done),
      deliveryFees |-> Sum(LAMBDA o : o.delivery, done), tips |-> Sum(LAMBDA o : o.tip, done),
      walletUsed |-> Sum(LAMBDA o : o.wallet, done),
      uniqueCustomers |-> Cardinality(Users(S)),
      cancelRate |-> IF S = {} THEN 0 ELSE (2000 * Cardinality(gone) + Cardinality(S)) \div (2 * Cardinality(S))]

\* GROUP BY key(o).
Grouped(S, key(_)) ==
  [k \in {key(o) : o \in S} |->
     LET G == {o \in S : key(o) = k}
     IN [orders |-> Cardinality(G), delivered |-> Cardinality(With(G, "delivered")),
         cancelled |-> Cardinality(With(G, "cancelled")), customers |-> Cardinality(Users(G)),
         revenue |-> Revenue(G)]]

SalesByDay(orders, f) == Grouped(Rows(orders, f, FALSE), LAMBDA o : Day(o.placed))

OrdersByHour(orders, f) == Grouped(Rows(orders, f, FALSE), LAMBDA o : Minute(o.placed) \div HourLength)

OrdersByWeekday(orders, f) == Grouped(Rows(orders, f, FALSE), LAMBDA o : Day(o.placed) % Week)

SalesByArea(orders, f) == Grouped(Sold(orders, f), LAMBDA o : o.area)

RiderReport(orders, f) ==
  Grouped({o \in Sold(orders, f) : o.rider # "nobody"}, LAMBDA o : o.rider)

\* Cancelled orders of the selection, their totals as lost value.
Cancellations(orders, f) ==
  LET gone == With(Rows(orders, f, FALSE), "cancelled")
  IN [d \in {Day(o.placed) : o \in gone} |->
        LET G == {o \in gone : Day(o.placed) = d}
        IN [cancelled |-> Cardinality(G), lostValue |-> Sum(LAMBDA o : o.total, G)]]

DiscountLeakage(orders, f) ==
  LET S == Sold(orders, f)
  IN [grossValue |-> Sum(LAMBDA o : o.subtotal, S), couponDiscounts |-> Sum(LAMBDA o : o.discount, S),
      walletUsed |-> Sum(LAMBDA o : o.wallet, S), netCollected |-> Sum(LAMBDA o : o.total, S),
      discountedOrders |-> Cardinality({o \in S : o.discount > 0}), orders |-> Cardinality(S)]

CouponPerformance(orders, f) ==
  LET S == {o \in Sold(orders, f) : o.coupon # "none"}
  IN [c \in {o.coupon : o \in S} |->
        LET G == {o \in S : o.coupon = c}
        IN [orders |-> Cardinality(G), discountGiven |-> Sum(LAMBDA o : o.discount, G),
            revenue |-> Sum(LAMBDA o : o.total, G), customers |-> Cardinality(Users(G))]]

----------------------------------------------------------------------------
(* Dishes.                                                                 *)

\* order_items of the delivered orders, with the order each belongs to.
LinesSold(orders, f) == UNION {{<<o.id, l>> : l \in o.lines} : o \in Sold(orders, f)}

\* The dimensions only the best sellers know; their limit is left out.
Wanted(line, f) ==
  /\ f.category # {} => line.category \in f.category
  /\ f.product # {} => line.dish \in f.product

LineTotals(L, key(_)) ==
  [k \in {key(x[2]) : x \in L} |->
     LET G == {x \in L : key(x[2]) = k}
     IN [units |-> Sum(LAMBDA x : x[2].qty, G), revenue |-> Sum(LAMBDA x : x[2].amount, G),
         orders |-> Cardinality({x[1] : x \in G})]]

TopItems(orders, f) ==
  LineTotals({x \in LinesSold(orders, f) : Wanted(x[2], f)}, LAMBDA l : l.dish)

SalesByCategory(orders, f) == LineTotals(LinesSold(orders, f), LAMBDA l : l.category)

\* The filter stands in the ON of the join with the orders, after that with
\* the lines: the lines are summed whatever order they belong to, when ever.
DeadItems(orders, menu) ==
  {d \in menu : \A o \in orders : \A l \in o.lines : l.dish # d}

----------------------------------------------------------------------------
(* Customers.                                                              *)

PerCustomer(orders, f) ==
  [u \in Users(Sold(orders, f)) |->
     LET G == {o \in Sold(orders, f) : o.user = u}
     IN [orders |-> Cardinality(G), spent |-> Sum(LAMBDA o : o.total, G)]]

RepeatCustomers(orders, f) ==
  LET c == PerCustomer(orders, f)
      count(least) == Cardinality({u \in DOMAIN c : c[u].orders >= least})
  IN [customers |-> count(1), oneTime |-> count(1) - count(2), repeat |-> count(2), loyal |-> count(5)]

\* A customer's first delivered order; no filter bounds the search for it.
Ever(orders) == {o \in orders : o.status = "delivered" /\ ~ o.deleted}

FirstOrder(orders, u) == Min({o.placed : o \in {x \in Ever(orders) : x.user = u}})

NewVsReturning(orders, f) ==
  LET S == Sold(orders, f)
  IN [d \in {Day(o.placed) : o \in S} |->
        LET G == {o \in S : Day(o.placed) = d}
            new == {o \in G : o.placed = FirstOrder(orders, o.user)}
        IN [new |-> Cardinality(new), returning |-> Cardinality(G \ new)]]

Month(moment) == Day(moment) \div MonthDays

\* Customers by the month of their first order and the months until a later one.
Cohorts(orders) ==
  LET cohort(u) == Month(FirstOrder(orders, u))
      activity == {<<o.user, Month(o.placed)>> : o \in Ever(orders)}
      cell(a) == <<cohort(a[1]), a[2] - cohort(a[1])>>
  IN [k \in {cell(a) : a \in activity} |-> Cardinality({a[1] : a \in {b \in activity : cell(b) = k}})]

\* streak: consecutive days, to today or to yesterday, on which the delivered
\* orders of a customer bring enough protein; of the last 90 such days.
Streak(orders, u, today, enough) ==
  LET mine == {o \in orders : o.user = u /\ o.status = "delivered"}
      grams(o) == Sum(LAMBDA l : l.protein, o.lines)
      protein(d) == Sum(grams, {o \in mine : Day(o.placed) = d})
      healthy == {d \in {Day(o.placed) : o \in mine} : protein(d) >= enough}
      cursor == IF today \in healthy THEN today ELSE today - 1
  IN Max({n \in 0 .. Cardinality(healthy) : \A i \in 0 .. n - 1 : cursor - i \in healthy})

----------------------------------------------------------------------------
(* Money.                                                                  *)

\* A payments row counts as an order.
PaymentBreakdown(orders, f) ==
  LET P == UNION {{<<o.id, p>> : p \in o.payments} : o \in Rows(orders, f, FALSE)}
      key(x) == <<x[2].method, x[2].status>>
  IN [k \in {key(x) : x \in P} |->
        LET G == {x \in P : key(x) = k}
        IN [orders |-> Cardinality(G), amount |-> Sum(LAMBDA x : x[2].amount, G)]]

\* One row per order and payment, and one for an order without a payment; the
\* only report that heeds the payment method and the coupon.
Export(orders, f) ==
  LET kept(o, p) == /\ f.payment # {} => p.method \in f.payment
                    /\ f.coupon # {} => o.coupon \in f.coupon
      none == [method |-> "none", status |-> "none", amount |-> 0]
  IN UNION {{<<o.id, p>> : p \in {q \in IF o.payments = {} THEN {none} ELSE o.payments : kept(o, q)}} :
              o \in Rows(orders, f, FALSE)}

----------------------------------------------------------------------------
(* The delivery report: days are those of the store's own clock, and of    *)
(* the delivery, not of the order.                                         *)

\* Not the takeaways; orders struck off are counted all the same.
DroppedOff(orders, from, to) ==
  {o \in orders : o.status = "delivered" /\ ~ o.pickup /\ \E t \in o.done : Day(t) \in from .. to}

OnTime(S) == {o \in S : \E t \in o.done, p \in o.promised : t <= p}

\* Percentages to a tenth, and none of nothing.
Percent(part, whole) == IF whole = 0 THEN {} ELSE {(2000 * part + whole) \div (2 * whole)}

Punctuality(S) ==
  LET promised == {o \in S : o.promised # {}}
  IN [delivered |-> Cardinality(S), withPromise |-> Cardinality(promised),
      onTime |-> Cardinality(OnTime(S)), onTimePct |-> Percent(Cardinality(OnTime(S)), Cardinality(promised))]

\* Rows of rider_earnings joined with the orders they were paid for.
PaidFor(earnings, S) == Sum(LAMBDA e : e.total, {e \in earnings : e.order \in {o.id : o \in S}})

DeliveryReport(orders, earnings, from, to) ==
  LET S == DroppedOff(orders, from, to)
      fees == Sum(LAMBDA o : Sum(LAMBDA x : x, o.fee), S)
  IN [totals |-> Punctuality(S),
      porterPct |-> Percent(Cardinality({o \in S : o.fee # {}}), Cardinality(S)),
      batchedPct |-> Percent(Cardinality({o \in S : o.stops > 1}), Cardinality(S)),
      riderPay |-> PaidFor(earnings, S), porterFees |-> fees,
      daily |-> [d \in UNION {{Day(t) : t \in o.done} : o \in S} |-> Punctuality(DroppedOff(S, d, d))],
      riders |-> [r \in {o.rider : o \in S} \ {"nobody"} |->
                    LET mine == {o \in S : o.rider = r}
                    IN [rider |-> Punctuality(mine), earned |-> PaidFor(earnings, mine)]]]

----------------------------------------------------------------------------
(* The riders' cash.  An order of the ledger was paid to its rider in      *)
(* cash; a deposit is what an admin typed when the rider handed it in.     *)

\* "Single source of truth: rider_cash_ledger", less the deposits.
CashInHand(ledger, deposits, r) ==
  LET of(S) == Sum(LAMBDA x : x.amount, {x \in S : x.rider = r})
  IN Max({0, of(ledger) - of(deposits)})

\* assignRider refuses a cash order ...
MayTakeCash(ledger, deposits, r, cap) == CashInHand(ledger, deposits, r) < cap

\* ... when the rider's own screen says so ...
Earnings(ledger, deposits, r, cap) ==
  LET cash == CashInHand(ledger, deposits, r)
  IN [cashInHand |-> cash, reached |-> cash >= cap, headroom |-> Max({0, cap - cash})]

\* ... and the owner's; a rider three days without a deposit is watched.
Reconciliation(ledger, deposits, riders, cap, now) ==
  [r \in riders |->
     LET cash == CashInHand(ledger, deposits, r)
         days == {(now - x.at) \div DayMinutes : x \in {y \in deposits : y.rider = r}}
     IN [cashInHand |-> cash, blocked |-> cash >= cap,
         risk |-> IF cash >= cap THEN "blocked"
                  ELSE IF (days # {} /\ Min(days) >= 3) \/ 10 * cash >= 7 * cap THEN "watch" ELSE "ok"]]

----------------------------------------------------------------------------
(* The screens together.                                                   *)

Added(report, field(_)) == Sum(LAMBDA k : field(report[k]), DOMAIN report)

Breakdowns(orders, f) == {SalesByDay(orders, f), OrdersByHour(orders, f), OrdersByWeekday(orders, f)}

\* The selections all reports can make: dates and a rider.
PlainFilter(f) == \A k \in {"status", "payment", "coupon", "category", "product"} : f[k] = {}

\* Each breakdown adds up to the summary.
BreakdownsAddUp(orders, f) ==
  LET s == OrdersSummary(orders, f)
  IN /\ \A b \in Breakdowns(orders, f) :
          /\ Added(b, LAMBDA r : r.orders) = s.totalOrders
          /\ Added(b, LAMBDA r : r.revenue) = s.revenue
     /\ Added(Cancellations(orders, f), LAMBDA r : r.cancelled) = s.cancelled
     /\ s.delivered + s.cancelled + s.inFlight = s.totalOrders

\* Reports on what was sold tell what the summary tells.
SalesAgree(orders, f, menu) ==
  LET s == OrdersSummary(orders, f)
      leak == DiscountLeakage(orders, f)
  IN /\ leak.netCollected = s.revenue /\ leak.orders = s.delivered
     /\ leak.couponDiscounts = s.discounts /\ leak.walletUsed = s.walletUsed
     /\ Added(SalesByArea(orders, f), LAMBDA r : r.revenue) = s.revenue
     /\ Added(PerCustomer(orders, f), LAMBDA r : r.spent) = s.revenue
     /\ Added(NewVsReturning(orders, f), LAMBDA r : r.new + r.returning) = s.delivered
     /\ RepeatCustomers(orders, f).customers <= s.uniqueCustomers
     /\ Added(PaymentBreakdown(orders, f), LAMBDA r : r.orders)
          >= Cardinality({o \in Rows(orders, f, FALSE) : o.payments # {}})
     /\ Added(RiderReport(orders, f), LAMBDA r : r.orders) <= s.delivered
     /\ Added(CouponPerformance(orders, f), LAMBDA r : r.discountGiven) <= s.discounts
     /\ Added(TopItems(orders, f), LAMBDA r : r.revenue)
          = Added(SalesByCategory(orders, f), LAMBDA r : r.revenue)
     /\ DeadItems(orders, menu) \cap DOMAIN TopItems(orders, f) = {}
     /\ {x[1] : x \in Export(orders, f)} = {o.id : o \in Rows(orders, f, FALSE)}

\* Every customer is new once, in the first month of one cohort.
NewcomersAgree(orders, f) ==
  LET first == {k \in DOMAIN Cohorts(orders) : k[2] = 0}
  IN (\A k \in {"from", "to", "rider"} : f[k] = {}) =>
       Added(NewVsReturning(orders, f), LAMBDA r : r.new)
         = Sum(LAMBDA k : Cohorts(orders)[k], first)

\* Days, riders and totals of the delivery report add up, and it finds the
\* deliveries that the summary of all times finds, unless some were struck off.
DeliveriesAgree(orders, earnings, from, to) ==
  LET r == DeliveryReport(orders, earnings, from, to)
      none == [k \in {"from", "to", "status", "rider"} |-> {}]
      carried == {o \in DroppedOff(orders, from, to) : o.rider # "nobody"}
      takenAway == {o \in Sold(orders, none) : o.pickup}
      all == DeliveryReport(orders, earnings, Day(Min({o.placed : o \in orders})), to)
  IN /\ Added(r.daily, LAMBDA d : d.delivered) = r.totals.delivered
     /\ Added(r.daily, LAMBDA d : d.onTime) = r.totals.onTime
     /\ Added(r.riders, LAMBDA x : x.rider.delivered) = Cardinality(carried)
     /\ Added(r.riders, LAMBDA x : x.earned) = r.riderPay
     /\ r.totals.onTime <= r.totals.withPromise
     /\ (\A o \in orders : ~ o.deleted /\ \A t \in o.done : Day(t) <= to) =>
          all.totals.delivered + Cardinality(takenAway) = OrdersSummary(orders, none).delivered

\* The dispatcher, the rider and the owner tell one story of the cash.
CashScreensAgree(ledger, deposits, riders, cap, now) ==
  \A r \in riders :
    LET own == Earnings(ledger, deposits, r, cap)
        row == Reconciliation(ledger, deposits, riders, cap, now)[r]
    IN /\ own.cashInHand = row.cashInHand
       /\ row.risk = "blocked" <=> ~ MayTakeCash(ledger, deposits, r, cap)
       /\ row.blocked <=> own.headroom = 0
=============================================================================

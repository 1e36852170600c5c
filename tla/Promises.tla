------------------------------ MODULE Promises ------------------------------
(***************************************************************************)
(* What a customer is told of the time: the promise a new order gets from  *)
(* what the database says at that moment (eta.service.ts, quote), how long *)
(* an order is known to be late (dispatch.service.ts, delayAlerts), and    *)
(* the promises about both.  Watch says when these variables change.       *)
(***************************************************************************)
EXTENDS Eta, OrderStatus

CONSTANTS
  Orders,    \* the orders taken
  Carts,     \* instance: what is ordered: items, km, pickup
  Histories, \* instance: the deliveries of the last 30 days
  OpensAt,   \* the minute of the day at time 0
  Others     \* orders in the kitchen besides these

ASSUME OrdersAssumption ==
  /\ IsFiniteSet(Orders) /\ Others \in Nat
  /\ Carts \subseteq [items : Seq([prep : Nat, quantity : Nat]), km : Nat \cup {NoKm},
                     pickup : BOOLEAN]
  /\ \A rows \in Histories :
       rows \in Seq([hour : Nat, placed : Int, accepted : Int, ready : Int, picked : Int,
                    delivered : Int, estimate : Int, km : Int, stops : Int])

VARIABLES
  now,
  row,       \* per order: its row of orders
  checkout,  \* per order: what its checkout has still to do
  stats,     \* eta_stats
  cached,    \* the tables an instance may go by: it keeps what it read five minutes
  apologies, \* history variable: apologies in notifications, per order
  lost       \* history variable: orders whose apology broke off after the claim

Row(cart, status, placed) ==
  [cart |-> cart, status |-> status, placed |-> placed, accepted |-> NoTime, ready |-> NoTime,
   picked |-> FALSE, carried |-> FALSE, spot |-> NoKm, eta |-> NoTime, promised |-> NoTime,
   apologised |-> FALSE]

NotPlaced == [status |-> "none"]

Placed == {o \in Orders : row[o] # NotPlaced}

----------------------------------------------------------------------------
\* ordersCooking: the other orders accepted and not ready.
CookingWith(o) == Others + Cardinality({p \in Placed \ {o} : row[p].status \in Cooking})

StatsNow(table) == StatsFor(table, HourBand(((OpensAt + now) \div 60) % 24))

Promise(o, table) ==
  LET c == row[o].cart
  IN  Quote(PrepMinutes(c.items), CookingWith(o), IF c.pickup THEN 0 ELSE c.km, c.pickup,
            StatsNow(table))

----------------------------------------------------------------------------
\* The promise about to be saved, by whichever table the instance goes: its low
\* end in steps of five minutes, and its high end, which is what is saved, where
\* the shop's width is; a range as wide as the shop wants, that covers any one
\* stage taking its slow time.
PromiseCovers ==
  \A o \in Orders : checkout[o] = "stamp" => \A table \in cached :
    LET c == row[o].cart
        q == Promise(o, table)
        stages == StagesOf(PrepMinutes(c.items), IF c.pickup THEN 0 ELSE c.km, c.pickup,
                           StatsNow(table))
        usual  == Usual(stages) + 100 * QueueMinutes(CookingWith(o))
    IN  /\ q.min % 5 = 0 /\ (cfg.rangeWidth % 5 = 0 => q.max % 5 = 0)
        /\ q.max - q.min >= cfg.rangeWidth
        /\ \A i \in DOMAIN stages : 100 * q.max >= usual + Spread(stages[i])

\* Refuted (README): "returns a 5-minute-rounded range", as dispatch.algo.spec.ts:134
\* tests with the default width: both ends come in steps of five minutes.
PromiseInFives ==
  \A o \in Orders : checkout[o] = "stamp" =>
    \A table \in cached : Promise(o, table).min % 5 = 0 /\ Promise(o, table).max % 5 = 0

\* A customer hears of a delay once, however many pods believe they hold the
\* lock, and not at all when the apology broke off after its claim.
OneApology ==
  \A o \in DOMAIN apologies : apologies[o] + (IF o \in lost THEN 1 ELSE 0) <= 1
=============================================================================

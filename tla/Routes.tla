------------------------------- MODULE Routes -------------------------------
(***************************************************************************)
(* The route planner of dispatch.algo.ts: which orders may ride together,  *)
(* in which order, and what that saves.                                    *)
(*                                                                         *)
(* Places are points of one road through the kitchen, in km, so that two   *)
(* drops lie in the same direction or in opposite ones.  Times are minutes *)
(* from now, a km takes MinPerKm.  Values are whole, hence the tolerances  *)
(* of half a minute and of a hundredth are strict inequalities here.       *)
(***************************************************************************)
EXTENDS Integers, FiniteSets, SequencesExt

CONSTANTS
  MinPerKm,         \* planning speed
  MaxOrders,        \* batchMaxOrders
  MaxExtraMin,      \* batchMaxExtraMin
  ReadyGapMin,      \* batchReadyGapMin
  FoodAgeMaxMin,    \* foodAgeMaxMin
  MaxDropGapKm,     \* batchMaxDropGapKm
  OneDirection      \* batchMaxBearingDeg < 180

ASSUME RoutesAssumption ==
  /\ MinPerKm \in Nat \ {0} /\ MaxOrders \in 1 .. 3 /\ OneDirection \in BOOLEAN
  /\ MaxExtraMin \in Nat /\ ReadyGapMin \in Nat /\ FoodAgeMaxMin \in Nat /\ MaxDropGapKm \in Nat

VARIABLE order  \* per order: where it goes, when it is packed, what it promises

Kitchen == 0

\* promised_at of an order without a promise.
NoPromise == 9999

\* haversineKm and driveMin.
Km(a, b) == IF a < b THEN b - a ELSE a - b
DriveMin(a, b) == MinPerKm * Km(a, b)

Latest(seq) == Max({order[seq[i]].ready : i \in DOMAIN seq})
Soonest(seq) == Min({order[seq[i]].ready : i \in DOMAIN seq})

\* areaIssues: drops too far apart, or on two sides of the kitchen; one at the
\* kitchen's door lies in every direction.
TooFarApart(a, b) == MaxDropGapKm > 0 /\ Km(order[a].at, order[b].at) > MaxDropGapKm
OtherDirection(a, b) == OneDirection /\ order[a].at * order[b].at < 0
AreaIssues(orders) == {p \in orders \X orders : TooFarApart(p[1], p[2]) \/ OtherDirection(p[1], p[2])}

\* The leg before stop k, and when the rider, leaving with the last bag, is there.
Leg(seq, k) == DriveMin(IF k = 1 THEN Kitchen ELSE order[seq[k - 1]].at, order[seq[k]].at)
Arrival(seq, k) == Latest(seq) + SumFunction([i \in 1 .. k |-> Leg(seq, i)])
SoloArrival(o) == order[o].ready + DriveMin(Kitchen, order[o].at)
ExtraWait(seq, k) == Arrival(seq, k) - SoloArrival(seq[k])
FoodAge(seq, k) == Arrival(seq, k) - order[seq[k]].ready

TripMinutes(seq) ==
  SumFunction([i \in DOMAIN seq |-> Leg(seq, i)]) + DriveMin(order[seq[Len(seq)]].at, Kitchen)
SoloMinutes(seq) == SumFunction([i \in DOMAIN seq |-> 2 * DriveMin(Kitchen, order[seq[i]].at)])
Saving(seq) == SoloMinutes(seq) - TripMinutes(seq)

\* A plan that may come after the promise.
BugNoPromise(seq) ==
  /\ Len(seq) > 1 => AreaIssues(ToSet(seq)) = {}
  /\ Latest(seq) - Soonest(seq) <= ReadyGapMin
  /\ \A k \in DOMAIN seq : /\ Len(seq) > 1 => ExtraWait(seq, k) <= MaxExtraMin
                           /\ FoodAge(seq, k) <= FoodAgeMaxMin

\* planRoute has a plan for these stops: no rule breaks.
Legal(seq) ==
  /\ Len(seq) > 1 => AreaIssues(ToSet(seq)) = {}
  /\ Latest(seq) - Soonest(seq) <= ReadyGapMin
  /\ \A k \in DOMAIN seq : /\ Len(seq) > 1 => ExtraWait(seq, k) <= MaxExtraMin
                           /\ FoodAge(seq, k) <= FoodAgeMaxMin
                           /\ Arrival(seq, k) <= order[seq[k]].promise

\* Twice the cost of a route: rider minutes and half the customers' waits.
Cost(seq) == 2 * TripMinutes(seq) + SumFunction([k \in DOMAIN seq |-> FoodAge(seq, k)])

\* permutations.
Sequences(orders) == SetToSeqs(orders)

Cheapest(seqs) ==
  LET least == Min({Cost(s) : s \in seqs}) IN {s \in seqs : Cost(s) = least}

\* bestRoute: the cheapest legal drop orders.  Ties go by the order of the
\* pool, which the queries behind poolOrders leave open.
BestRoutes(orders) == Cheapest({s \in Sequences(orders) : Legal(s)})

\* bestRoute with the rules on waits, gaps, ages and areas switched off.
LooseRoutes(orders) ==
  Cheapest({s \in Sequences(orders) : \A k \in DOMAIN s : Arrival(s, k) <= order[s[k]].promise})

\* formTrips, one round: the pairs that save most, then, while there is room,
\* the order that adds most.
Pairs(orders) == {ps \in SUBSET orders : Cardinality(ps) = 2}
Savers(routes, more) ==
  LET most == Max({Saving(s) : s \in routes}) IN {s \in routes : Saving(s) = most /\ most > more}
BestPairs(orders) ==
  IF MaxOrders < 2 THEN {} ELSE Savers(UNION {BestRoutes(ps) : ps \in Pairs(orders)}, 0)
Grown(seq, orders) ==
  IF Len(seq) >= MaxOrders THEN {}
  ELSE Savers(UNION {BestRoutes(ToSet(seq) \cup {o}) : o \in orders \ ToSet(seq)}, Saving(seq))

\* The trips one round of formTrips may make of the orders left.
BestTrips(orders) ==
  LET grow(s) == IF Grown(s, orders) = {} THEN {s} ELSE Grown(s, orders)
  IN  UNION {UNION {grow(t) : t \in grow(s)} : s \in BestPairs(orders)}

\* An explanation that leaves the promise out.
BugBreaks(seq, rule) ==
  CASE rule = "area"  -> AreaIssues(ToSet(seq)) # {}
    [] rule = "ready" -> Latest(seq) - Soonest(seq) > ReadyGapMin
    [] rule = "wait"  -> \E k \in DOMAIN seq : ExtraWait(seq, k) > MaxExtraMin
    [] rule = "age"   -> \E k \in DOMAIN seq : FoodAge(seq, k) > FoodAgeMaxMin
    [] OTHER -> FALSE

\* explain looks for its reasons on its own.
Breaks(seq, rule) ==
  CASE rule = "area"    -> AreaIssues(ToSet(seq)) # {}
    [] rule = "ready"   -> Latest(seq) - Soonest(seq) > ReadyGapMin
    [] rule = "wait"    -> \E k \in DOMAIN seq : ExtraWait(seq, k) > MaxExtraMin
    [] rule = "age"     -> \E k \in DOMAIN seq : FoodAge(seq, k) > FoodAgeMaxMin
    [] rule = "promise" -> \E k \in DOMAIN seq : Arrival(seq, k) > order[seq[k]].promise
Explain(seq) == {rule \in {"area", "ready", "wait", "age", "promise"} : Breaks(seq, rule)}

=============================================================================

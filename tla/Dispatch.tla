------------------------------ MODULE Dispatch ------------------------------
(***************************************************************************)
(* "Who carries each order": one pass of dispatch.service.ts.  It reads    *)
(* the riders, the waiting orders and the trips being packed, one query    *)
(* after the other; suggests a carrier for every order; and, with          *)
(* autoDispatch on, applies the suggestions one by one.  Meanwhile the     *)
(* admin may assign a rider by hand or an order may be cancelled.          *)
(*                                                                         *)
(* createTrip is one step here (its statements are those of Trips), and    *)
(* the clock stands still during a pass.                                   *)
(***************************************************************************)
EXTENDS Routes

CONSTANTS
  Riders,        \* active riders
  Ids,           \* orders
  OrderKinds,    \* instance: where orders go, when they are packed, what they
                 \*   promise (minutes from now, or NoPromise), the cash due,
  RiderKinds,    \*   and what riders are like
  MaxMeddling,   \* bound: hand-made changes during the pass
  AutoDispatch,  \* cfg.autoDispatch
  DueMin         \* autoDispatch applies what is packed within 5 minutes

ASSUME DispatchAssumption ==
  /\ IsFiniteSet(Ids) /\ AutoDispatch \in BOOLEAN
  /\ Riders \cap {"nobody", "cancelled", "porter"} = {}
  /\ OrderKinds \subseteq [at : Int, ready : Int, promise : Int, cod : Nat]
  /\ RiderKinds \subseteq [capacity : Nat \ {0}, online : BOOLEAN, away : BOOLEAN,
                          back : Int, headroom : Int]

VARIABLES
  rider,    \* the riders' data; it does not change
  carrier,  \* per order: a rider, "nobody" or "cancelled"
  trips,    \* planned trips, by id: rider and orders
  phase,    \* where the pass is
  seen,     \* what the pass has read: riders packing, waiting orders, trips
  left,     \* orders without a plan yet
  plans,    \* formTrips' plans
  said,     \* the suggestions, in order
  turn,     \* the suggestion to apply next
  done,     \* orders applied
  meddled   \* history variable: orders touched by hand during the pass

world == <<order, rider>>
db == <<carrier, trips>>
pass == <<phase, seen, left, plans, said, turn, done>>
vars == <<world, db, pass, meddled>>

On(t) == trips[t].orders
Cod(ids) == SumFunction([o \in ids |-> order[o].cod])

----------------------------------------------------------------------------
(* The three reads.                                                        *)

\* riders(): who is packing a trip; riders away and offline stay so.
ReadRiders ==
  /\ phase = "riders"
  /\ seen' = [seen EXCEPT !.packing = {trips[t].rider : t \in {u \in DOMAIN trips : On(u) # {}}}]
  /\ phase' = "pool"
  /\ UNCHANGED <<world, db, left, plans, said, turn, done, meddled>>

\* The query with delivery_partner_id IS NULL turned round.
BugNotNull == {o \in Ids : carrier[o] \in Riders}

\* Orders nobody is to carry yet.
Waiting == {o \in Ids : carrier[o] = "nobody"}

ReadPool ==
  /\ phase = "pool"
  /\ seen' = [seen EXCEPT !.pool = Waiting] /\ left' = Waiting
  /\ phase' = "trips" /\ meddled' = {}
  /\ UNCHANGED <<world, db, plans, said, turn, done>>

ReadTrips ==
  /\ phase = "trips"
  /\ seen' = [seen EXCEPT !.trips = {<<t, On(t)>> : t \in {u \in DOMAIN trips : On(u) # {}}}]
  /\ phase' = "join"
  /\ UNCHANGED <<world, db, left, plans, said, turn, done, meddled>>

----------------------------------------------------------------------------
(* The suggestions.                                                        *)

Suggestion(o, kind, r, orders, trip) ==
  [order |-> o, kind |-> kind, rider |-> r, orders |-> orders, trip |-> trip]

Say(suggestions) == said' = said \o suggestions

\* 1) Join a planned trip that has room: what the order adds to the trip is
\* less than its own round trip.
Joins(stops) ==
  LET worth(o, s, r) == 2 * DriveMin(Kitchen, order[o].at) - (TripMinutes(r) - TripMinutes(s))
      ways == UNION {{o} \X LooseRoutes(stops) \X BestRoutes(stops \cup {o}) : o \in left}
      value(w) == worth(w[1], w[2], w[3])
      most == Max({0} \cup {value(w) : w \in ways})
  IN  {w[1] : w \in {v \in ways : most > 0 /\ value(v) = most}}

Join ==
  /\ phase = "join" /\ seen.trips # {}
  /\ LET next == CHOOSE u \in seen.trips : \A v \in seen.trips : u[1] <= v[1]
         r == trips[next[1]].rider
     IN  /\ seen' = [seen EXCEPT !.trips = @ \ {next}]
         /\ IF Cardinality(next[2]) < rider[r].capacity /\ Joins(next[2]) # {}
            THEN \E o \in Joins(next[2]) :
                   /\ Say(<<Suggestion(o, "join", r, <<o>>, next[1])>>)
                   /\ left' = left \ {o}
            ELSE UNCHANGED <<said, left>>
  /\ UNCHANGED <<world, db, phase, plans, turn, done, meddled>>

JoinsOver ==
  /\ phase = "join" /\ seen.trips = {}
  /\ phase' = "form"
  /\ UNCHANGED <<world, db, seen, left, plans, said, turn, done, meddled>>

\* 2) formTrips: a round, ...
FormTrip ==
  /\ phase = "form"
  /\ \E s \in BestTrips(left) : plans' = plans \cup {s} /\ left' = left \ ToSet(s)
  /\ UNCHANGED <<world, db, phase, seen, said, turn, done, meddled>>

\* ... and, no pair being left to save anything, each of the rest on its own,
\* even if it breaks its promise.
Solo ==
  /\ phase = "form" /\ BestPairs(left) = {}
  /\ plans' = plans \cup {<<o>> : o \in left}
  /\ left' = {} /\ phase' = "carry"
  /\ UNCHANGED <<world, db, seen, said, turn, done, meddled>>

\* The states of riders(): away, packing a trip, or at the kitchen.
Assigned(r) == r \in seen.packing /\ ~ rider[r].away

\* rankRiders: idle minutes count once, late ones twice; food should wait 2.
RankCost(r, readyAt) ==
  LET d == rider[r].back - (readyAt - 2) IN IF d > 0 THEN 2 * d ELSE -d

\* Riders without a look at what they hold, or at what they can carry.
BugNoCash(seq, taken) ==
  {r \in Riders \ taken : /\ rider[r].capacity >= Len(seq) /\ rider[r].online /\ ~ Assigned(r)}
BugNoCapacity(seq, taken) ==
  {r \in Riders \ taken : rider[r].online /\ ~ Assigned(r) /\ Cod(ToSet(seq)) <= rider[r].headroom}

Fit(seq, taken) ==
  {r \in Riders \ taken : /\ rider[r].capacity >= Len(seq)
                          /\ rider[r].online /\ ~ Assigned(r)
                          /\ Cod(ToSet(seq)) > 0 => Cod(ToSet(seq)) <= rider[r].headroom}

\* Ties go by the deliveries of the day, here in any order.
Ranked(seq, taken) ==
  {r \in Fit(seq, taken) : \A q \in Fit(seq, taken) :
     RankCost(r, Latest(seq)) <= RankCost(q, Latest(seq))}

\* riderLateMin: how long the food waits for the rider.
InTime(r, seq) == rider[r].back - Latest(seq) <= ReadyGapMin

\* Only those who carry a shared trip count as taken.
BugTaken == {said[i].rider : i \in {j \in DOMAIN said : said[j].kind = "trip"}}

Taken == {said[i].rider : i \in {j \in DOMAIN said : said[j].kind \in {"trip", "rider"}}}

\* One suggestion per order of the plan.
ForEach(seq, kind, r) ==
  [k \in DOMAIN seq |-> Suggestion(seq[k], kind, r, seq, 0)]

\* 3) In the order of departure: the best rider, if in time, or Porter.
Carry ==
  /\ phase = "carry"
  /\ \E seq \in plans :
       /\ \A other \in plans : Latest(seq) <= Latest(other)
       /\ plans' = plans \ {seq}
       /\ \/ \E r \in Ranked(seq, Taken) :
               /\ InTime(r, seq)
               /\ Say(ForEach(seq, IF Len(seq) > 1 THEN "trip" ELSE "rider", r))
          \/ /\ \A r \in Ranked(seq, Taken) : ~ InTime(r, seq)
             /\ Say(ForEach(seq, "porter", "porter"))
  /\ UNCHANGED <<world, db, phase, seen, left, turn, done, meddled>>

Suggested ==
  /\ phase = "carry" /\ plans = {}
  /\ phase' = IF AutoDispatch THEN "apply" ELSE "over"
  /\ UNCHANGED <<world, db, seen, left, plans, said, turn, done, meddled>>

----------------------------------------------------------------------------
(* autoDispatch.                                                           *)

\* A trip made without counting what the rider's bag holds.
BugAllowed(ids, r) ==
  /\ \A o \in ids : carrier[o] # "cancelled"
  /\ Cod(ids) > 0 => Cod(ids) <= rider[r].headroom
  /\ Cardinality(ids) > 1 => BestRoutes(ids) # {}

\* createTrip's rules, for orders that need not be waiting any more.
Allowed(ids, r) ==
  /\ Cardinality(ids) <= rider[r].capacity
  /\ \A o \in ids : carrier[o] # "cancelled"
  /\ Cod(ids) > 0 => Cod(ids) <= rider[r].headroom
  /\ Cardinality(ids) > 1 => BestRoutes(ids) # {}

\* A trip of its own for these orders, off any trip they were on.
CreateTrip(ids, r) ==
  /\ trips' = Append([t \in DOMAIN trips |-> [trips[t] EXCEPT !.orders = @ \ ids]],
                     [rider |-> r, orders |-> ids])
  /\ carrier' = [o \in Ids |-> IF o \in ids THEN r ELSE carrier[o]]

\* What to apply for a suggestion; a join plans the trip anew, if it is there.
Wanted(s) == ToSet(s.orders) \cup (IF s.kind = "join" THEN On(s.trip) ELSE {})
Gone(s) == s.kind = "join" /\ On(s.trip) = {}

\* A suggestion that is due is applied; a refusal is logged and skipped, and
\* the trip's other orders bring it up again.
Apply ==
  /\ phase = "apply" /\ turn <= Len(said)
  /\ turn' = turn + 1
  /\ LET s == said[turn]
         due == s.kind # "porter" /\ order[s.order].ready <= DueMin
     IN  IF due /\ s.order \notin done /\ ~ Gone(s) /\ Allowed(Wanted(s), s.rider)
         THEN CreateTrip(Wanted(s), s.rider) /\ done' = done \cup ToSet(s.orders)
         ELSE UNCHANGED <<db, done>>
  /\ UNCHANGED <<world, phase, seen, left, plans, said, meddled>>

Applied ==
  /\ phase = "apply" /\ turn > Len(said)
  /\ phase' = "over"
  /\ UNCHANGED <<world, db, seen, left, plans, said, turn, done, meddled>>

----------------------------------------------------------------------------
(* Meanwhile.  The planning proper awaits nothing and is not interrupted.  *)

Meddle(o) ==
  /\ phase \in {"pool", "trips", "join", "apply"}
  /\ Cardinality(meddled) < MaxMeddling /\ meddled' = meddled \cup {o}

\* assignRider, by hand: the rider's first planned trip with room, or a new one.
HandAssign(o, r) ==
  /\ Meddle(o) /\ carrier[o] \in ({"nobody"} \cup Riders) \ {r}
  /\ LET room == {t \in DOMAIN trips : /\ trips[t].rider = r /\ On(t) # {}
                                       /\ Cardinality(On(t)) < rider[r].capacity}
         off == [t \in DOMAIN trips |-> [trips[t] EXCEPT !.orders = @ \ {o}]]
         first == CHOOSE t \in room : \A u \in room : t <= u
     IN  trips' = IF room = {} THEN Append(off, [rider |-> r, orders |-> {o}])
                  ELSE [off EXCEPT ![first].orders = @ \cup {o}]
  /\ carrier' = [carrier EXCEPT ![o] = r]
  /\ UNCHANGED <<world, pass>>

Cancel(o) ==
  /\ Meddle(o) /\ carrier[o] # "cancelled"
  /\ carrier' = [carrier EXCEPT ![o] = "cancelled"]
  /\ trips' = [t \in DOMAIN trips |-> [trips[t] EXCEPT !.orders = @ \ {o}]]
  /\ UNCHANGED <<world, pass>>

----------------------------------------------------------------------------
\* All orders wait, or one is on a trip that is being packed.
Init ==
  /\ order \in [Ids -> OrderKinds]
  /\ rider \in [Riders -> RiderKinds]
  /\ \/ /\ carrier = [o \in Ids |-> "nobody"]
        /\ trips = <<>>
     \/ \E r \in Riders, first \in Ids :
          /\ carrier = [o \in Ids |-> IF o = first THEN r ELSE "nobody"]
          /\ trips = <<[rider |-> r, orders |-> {first}]>>
  /\ phase = "riders"
  /\ seen = [packing |-> {}, pool |-> {}, trips |-> {}]
  /\ left = {} /\ plans = {} /\ said = <<>> /\ turn = 1 /\ done = {} /\ meddled = {}

Next ==
  \/ ReadRiders \/ ReadPool \/ ReadTrips
  \/ Join \/ JoinsOver \/ FormTrip \/ Solo \/ Carry \/ Suggested
  \/ Apply \/ Applied
  \/ \E o \in Ids : Cancel(o) \/ \E r \in Riders : HandAssign(o, r)

Spec == Init /\ [][Next]_vars

----------------------------------------------------------------------------
\* The pass has its types, and no trip is larger than its rider's bag.
TypeOK ==
  /\ carrier \in [Ids -> Riders \cup {"nobody", "cancelled"}]
  /\ \A t \in DOMAIN trips : /\ trips[t].rider \in Riders /\ On(t) \subseteq Ids
                             /\ Cardinality(On(t)) <= rider[trips[t].rider].capacity
  /\ phase \in {"riders", "pool", "trips", "join", "form", "carry", "apply", "over"}
  /\ left \cup done \cup meddled \subseteq Ids
  /\ \A seq \in plans : Len(seq) <= MaxOrders /\ IsInjective(seq)

\* The list of suggestions is complete.
Ready == phase \in {"apply", "over"} \/ (phase = "carry" /\ plans = {})

\* suggestions() answers each waiting order once, and sends no rider on two new
\* trips, whatever trips it joined the orders to and in whatever order it planned.
AnsweredOnce ==
  Ready =>
    /\ seen.pool = {said[i].order : i \in DOMAIN said}
    /\ \A i, j \in DOMAIN said :
         /\ said[i].order = said[j].order => i = j
         /\ said[i].rider = said[j].rider /\ said[i].rider # "porter"
              /\ said[i].kind # "join" /\ said[j].kind # "join" => said[i].orders = said[j].orders

\* formTrips is greedy, yet leaves no two orders alone that the rules let ride
\* together to save time, nor shares a trip that comes too late for a promise
\* or makes a customer wait longer than allowed.
SharesWhatItMay ==
  Ready =>
    LET alone == {said[i].order : i \in {j \in DOMAIN said : /\ said[j].kind # "join"
                                                            /\ Len(said[j].orders) = 1}}
    IN  /\ MaxOrders > 1 =>
             \A o, p \in alone : \A s \in Sequences({o, p}) :
               o # p => ~ (Legal(s) /\ Saving(s) > 0)
        /\ \A i \in DOMAIN said :
             LET s == said[i].orders IN
             Len(s) > 1 => \A k \in DOMAIN s : /\ Arrival(s, k) <= order[s[k]].promise
                                              /\ ExtraWait(s, k) <= MaxExtraMin

\* createTrip refuses no new trip that suggestions() proposed: the two check
\* capacity, cash and route each in their own way.  Unless someone meddled, each
\* order that was due is with the rider suggested.
DoesAsSaid ==
  phase = "over" /\ AutoDispatch /\ meddled = {} =>
    \A i \in DOMAIN said :
      said[i].kind \in {"trip", "rider"} /\ order[said[i].order].ready <= DueMin =>
        carrier[said[i].order] = said[i].rider

\* An order somebody carries is taken from that rider by hand only, except if it
\* was given out by hand while the pass was running.
TakesFromNobody ==
  [][\A o \in Ids : carrier[o] \in Riders /\ carrier'[o] # carrier[o] => o \in meddled']_vars

\* Refuted (README): "Our own rider must be at the kitchen within a few minutes of the food being
\* ready; otherwise Porter": no rider who could take the order is passed over.
PorterIsLast ==
  Ready =>
    \A i \in DOMAIN said :
      said[i].kind = "porter" =>
        \A r \in Fit(<<said[i].order>>, Taken) : ~ InTime(r, <<said[i].order>>)

\* explain finds a reason for every set of orders createTrip refuses to put on
\* one trip: its own copy of the rules misses none of planRoute's.
RefusalsExplained ==
  phase = "riders" =>
  \A ids \in SUBSET Ids :
    Cardinality(ids) > 1 /\ BestRoutes(ids) = {} =>
      \A s \in Cheapest(Sequences(ids)) : Explain(s) # {}

\* Every order of a pass gets one answer, and whatever the loop or the console
\* says of it is what it does, and why.
AnswersHold == AnsweredOnce /\ DoesAsSaid /\ RefusalsExplained
=============================================================================

------------------------------- MODULE Trips -------------------------------
(***************************************************************************)
(* Riders' trips: trip.sql.ts (attach, detach, picked up, delivered),      *)
(* trips.service.ts (create, add, pick up, the riders' states) and the     *)
(* parts of orders.service.ts that call them (assignRider, updateStatus,   *)
(* Porter bookings).                                                       *)
(*                                                                         *)
(* Nothing runs in a transaction: a request is a list of statements still  *)
(* to be run, one step each, and another request may run between any two.  *)
(* TypeORM's save writes back every column of the row that was read, the   *)
(* trip too.  An error drops the rest of the list; addToTrip catches it.   *)
(*                                                                         *)
(* The drop order and the routing rules are in Routes, cash in             *)
(* DoorstepPayment, the location ping in OrderLifecycle.                   *)
(***************************************************************************)
EXTENDS Integers, Sequences, FiniteSets, OrderStatus

CONSTANTS
  Orders,    \* delivery orders
  Riders,    \* active riders
  Capacity,  \* orders per trip
  Requests,  \* slots for requests in flight
  MaxTrips,  \* bound: trips ever created
  MaxCalls   \* bound: calls ever made

ASSUME TripsAssumption ==
  /\ IsFiniteSet(Orders) /\ "nobody" \notin Riders /\ "porter" \notin Riders
  /\ Capacity \in Nat \ {0} /\ MaxTrips \in Nat \ {0} /\ MaxCalls \in Nat

VARIABLES
  rows,   \* per order: status, carrier and trip_id
  stops,  \* per order: its row in trip_stops, where order_id is unique
  trips,  \* delivery_trips, in the order of their ids
  free,   \* delivery_partners.is_available
  bonus,  \* rider_earnings.batch_bonus paid, with the trip it was paid for
  work,   \* per request: the statements it has still to run
  past    \* history variable: calls made; whether some raced, one broke off

db == <<rows, stops, trips, free, bonus>>
vars == <<db, work, past>>

\* A carrier: a rider, nobody, or Porter (delivery_provider external).
Carriers == Riders \cup {"nobody", "porter"}

\* Statuses of an accepted delivery.
Stages == {"preparing_food", "food_ready", "assigned_to_delivery", "out_for_delivery",
           "delivered", "cancelled"}

Active == {"planned", "picked_up"}

----------------------------------------------------------------------------
(* Tasks: the statements of a request.                                     *)

Task(do, order, rider, trip) == [do |-> do, order |-> order, rider |-> rider, trip |-> trip]
StatusTask(order, rider, to) == [do |-> "update", order |-> order, rider |-> rider, to |-> to]
SaveTask(order, row)         == [do |-> "save", order |-> order, row |-> row]
TripTask(do, trip)           == [do |-> do, trip |-> trip]
CloseTask(trip, to)          == [do |-> "close", trip |-> trip, to |-> to]
CreateTask(do, rider, orders) == [do |-> do, rider |-> rider, orders |-> orders]
DepartTask(order)            == [do |-> "leave", order |-> order]
DropTask(order)              == [do |-> "drop", order |-> order]
RefreshTask(rider)           == [do |-> "refresh", rider |-> rider]

NoStop == [trip |-> 0, dropped |-> FALSE]

On(t) == {o \in Orders : stops[o].trip = t}

Undropped(t) == {o \in On(t) : ~ stops[o].dropped}

Runs(q, what) == work[q] # <<>> /\ Head(work[q]).do = what

\* The first statement is done; these come before the rest.
Then(q, tasks) == work' = [work EXCEPT ![q] = tasks \o Tail(@)]

\* An error: addToTrip's catch revives its trip, any other request ends.
Throw(q) ==
  LET guards == {i \in DOMAIN work[q] : work[q][i].do = "catch"}
  IN  work' = [work EXCEPT ![q] =
                 IF guards = {} THEN <<>>
                 ELSE <<TripTask("revive", @[CHOOSE i \in guards : TRUE].trip)>>]

\* Calls that move a status only; the others decide who carries what.
StatusCalls == {"update", "pickup"}

\* A call arrives.  It may find others in flight, planning ones or not.
Call(q, task) ==
  LET rivals == {p \in Requests : work[p] # <<>>}
      planners == (past.planners \cap rivals)
                    \cup (IF task.do \in StatusCalls THEN {} ELSE {q})
  IN  /\ work[q] = <<>> /\ past.calls < MaxCalls
      /\ work' = [work EXCEPT ![q] = <<task>>]
      /\ past' = [past EXCEPT !.calls = @ + 1, !.planners = planners,
                              !.raced = @ \/ rivals # {},
                              !.tangled = @ \/ (rivals # {} /\ planners # {})]
      /\ UNCHANGED db

CallAssign(q) == \E o \in Orders, r \in Riders : Call(q, Task("assign", o, r, 0))
CallUpdate(q) == \E o \in Orders, s \in Stages : Call(q, StatusTask(o, "nobody", s))
CallPorter(q) == \E o \in Orders, d \in {"book", "unbook"} : Call(q, [do |-> d, order |-> o])
CallCreate(q) == \E r \in Riders, o \in Orders :
                   \E ids \in {<<o>>} \cup {<<o, p>> : p \in Orders \ {o}} :
                     Call(q, CreateTask("create", r, ids))
CallAdd(q)    == \E o \in Orders, t \in DOMAIN trips : Call(q, Task("add", o, trips[t].rider, t))
CallPickup(q) == \E t \in DOMAIN trips : Call(q, TripTask("pickup", t))

----------------------------------------------------------------------------
(* trip.sql.ts                                                             *)

\* detachFromTrip: DELETE the stop, RETURNING its trip, ...
Drop(q) ==
  /\ Runs(q, "drop")
  /\ LET o == Head(work[q]).order IN
     /\ stops' = [stops EXCEPT ![o] = NoStop]
     /\ Then(q, <<Task("point", o, "nobody", 0)>>
                \o IF stops[o] = NoStop THEN <<>> ELSE <<TripTask("settle", stops[o].trip)>>)
  /\ UNCHANGED <<rows, trips, free, bonus, past>>

\* ... set the order's trip_id (cleared by detach, set by attach), ...
Point(q) ==
  /\ Runs(q, "point")
  /\ rows' = [rows EXCEPT ![Head(work[q]).order].trip = Head(work[q]).trip]
  /\ Then(q, <<>>)
  /\ UNCHANGED <<stops, trips, free, bonus, past>>

\* A trip that ends in a state of its own when its last stop is taken away.
BugAbandoned(t) ==
  IF On(t) = {} THEN "abandoned" ELSE IF Undropped(t) = {} THEN "done" ELSE "open"

\* A count that takes the stops left for the stops open.
BugCountsStops(t) == IF On(t) = {} THEN "cancelled" ELSE "open"

\* settleTrip's count decides how the trip ends.
Verdict(t) ==
  IF On(t) = {} THEN "cancelled" ELSE IF Undropped(t) = {} THEN "done" ELSE "open"

Closing(t) == IF Verdict(t) = "open" THEN <<>> ELSE <<CloseTask(t, Verdict(t))>>

\* ... and settle the trip: the count, then (CloseTrip) the update.
Settle(q) ==
  /\ Runs(q, "settle")
  /\ Then(q, Closing(Head(work[q]).trip))
  /\ UNCHANGED <<db, past>>

CloseTrip(q) ==
  /\ Runs(q, "close")
  /\ LET t == Head(work[q]).trip IN
     trips' = IF trips[t].status \in Active
              THEN [trips EXCEPT ![t].status = Head(work[q]).to] ELSE trips
  /\ Then(q, <<>>)
  /\ UNCHANGED <<rows, stops, free, bonus, past>>

\* The planned trips of the rider that have room.
Room(r) == {t \in DOMAIN trips : trips[t].rider = r /\ trips[t].status = "planned"
                                 /\ Cardinality(On(t)) < Capacity}

\* attachToTrip takes the trip it is told to, whatever its load, or the
\* rider's first with room, or a new one.
Pick(q) ==
  /\ Runs(q, "pick")
  /\ LET k == Head(work[q])
         into(t) == Then(q, <<Task("place", k.order, k.rider, t)>>)
     IN  \/ /\ k.trip # 0
            /\ IF trips[k.trip].rider = k.rider /\ trips[k.trip].status = "planned"
               THEN into(k.trip) ELSE Throw(q)
         \/ /\ k.trip = 0 /\ Room(k.rider) # {}
            /\ into(CHOOSE t \in Room(k.rider) : \A u \in Room(k.rider) : t <= u)
         \/ /\ k.trip = 0 /\ Room(k.rider) = {}
            /\ Then(q, <<Task("open", k.order, k.rider, 0)>>)
  /\ UNCHANGED <<db, past>>

NewTrip(r) == trips' = Append(trips, [rider |-> r, status |-> "planned"])

OpenTrip(q) ==
  /\ Runs(q, "open") /\ Len(trips) < MaxTrips
  /\ NewTrip(Head(work[q]).rider)
  /\ Then(q, <<[Head(work[q]) EXCEPT !.do = "place", !.trip = Len(trips) + 1]>>)
  /\ UNCHANGED <<rows, stops, free, bonus, past>>

\* The stop is inserted, unless the order got one in the meantime.
Place(q) ==
  /\ Runs(q, "place")
  /\ LET k == Head(work[q]) IN
     IF stops[k.order] = NoStop
     THEN /\ stops' = [stops EXCEPT ![k.order].trip = k.trip]
          /\ Then(q, <<[k EXCEPT !.do = "point"]>>)
     ELSE Throw(q) /\ UNCHANGED stops
  /\ UNCHANGED <<rows, trips, free, bonus, past>>

\* markTripPickedUp: the trip the order points to leaves with its first bag.
PickedUp(q) ==
  /\ Runs(q, "leave")
  /\ LET t == rows[Head(work[q]).order].trip IN
     trips' = IF t # 0 /\ trips[t].status = "planned"
              THEN [trips EXCEPT ![t].status = "picked_up"] ELSE trips
  /\ Then(q, <<>>)
  /\ UNCHANGED <<rows, stops, free, bonus, past>>

\* markStopDelivered, whose settling also decides on the batch bonus.
Deliver(q) ==
  /\ Runs(q, "deliver")
  /\ LET k == Head(work[q]) IN
     IF stops[k.order] # NoStop /\ ~ stops[k.order].dropped
     THEN /\ stops' = [stops EXCEPT ![k.order].dropped = TRUE]
          /\ Then(q, <<Task("last", k.order, k.rider, stops[k.order].trip)>>)
     ELSE Then(q, <<RefreshTask(k.rider)>>) /\ UNCHANGED stops
  /\ UNCHANGED <<rows, trips, free, bonus, past>>

\* A bonus on every drop of a shared trip.
BugEveryDrop(t) == Cardinality(On(t)) > 1

\* The bonus is for the last drop of a shared trip.
EarnsBonus(t) == Verdict(t) = "done" /\ Cardinality(On(t)) > 1

SettleDelivered(q) ==
  /\ Runs(q, "last")
  /\ LET k == Head(work[q]) IN
     Then(q, Closing(k.trip) \o <<RefreshTask(k.rider)>>
             \o IF EarnsBonus(k.trip) /\ k.rider \in Riders
                THEN <<[k EXCEPT !.do = "bonus"]>> ELSE <<>>)
  /\ UNCHANGED <<db, past>>

\* What refreshRiderAvailability looks for: bags assigned or on the road.
Carrying(r) ==
  {o \in Orders : rows[o].carrier = r /\ rows[o].status \in NeedsCarrier}

Refresh(q) ==
  /\ Runs(q, "refresh")
  /\ LET r == Head(work[q]).rider IN
     free' = IF r \in Riders THEN [free EXCEPT ![r] = Carrying(r) = {}] ELSE free
  /\ Then(q, <<>>)
  /\ UNCHANGED <<rows, stops, trips, bonus, past>>

\* The order's own row of rider_earnings takes the bonus at most once.
PayBonus(q) ==
  /\ Runs(q, "bonus")
  /\ LET k == Head(work[q]) IN
     bonus' = IF \E b \in bonus : b[1] = k.order THEN bonus ELSE bonus \cup {<<k.order, k.trip>>}
  /\ Then(q, <<>>)
  /\ UNCHANGED <<rows, stops, trips, free, past>>

----------------------------------------------------------------------------
(* orders.service.ts                                                       *)

\* repo.save: the copy goes back as a whole, or the trigger raises.
Save(q) ==
  /\ Runs(q, "save")
  /\ LET k == Head(work[q]) IN
     IF rows[k.order].status \in Terminal /\ k.row.status # rows[k.order].status
     THEN Throw(q) /\ UNCHANGED rows
     ELSE rows' = [rows EXCEPT ![k.order] = k.row] /\ Then(q, <<>>)
  /\ UNCHANGED <<stops, trips, free, bonus, past>>

\* assignRider: a cooking order is reserved, one on the road keeps its status;
\* the rider it had is refreshed last.
Assign(q) ==
  /\ Runs(q, "assign")
  /\ LET k == Head(work[q])
         old == rows[k.order]
         new == [old EXCEPT !.carrier = k.rider,
                            !.status = IF @ \in Cooking \cup OnTheRoad THEN @
                                       ELSE "assigned_to_delivery"]
     IN  IF old.status \in Terminal THEN Throw(q)
         ELSE Then(q, <<SaveTask(k.order, new), DropTask(k.order),
                        [k EXCEPT !.do = "pick"], RefreshTask(k.rider)>>
                      \o IF old.carrier \in Riders \ {k.rider}
                         THEN <<RefreshTask(old.carrier)>> ELSE <<>>)
  /\ UNCHANGED <<db, past>>

\* Handlers that forget the trip of a cancelled order, or its rider.
BugForgetsTrip(o, s, carrier) ==
  IF s = "delivered" THEN <<Task("deliver", o, carrier, 0)>> ELSE <<RefreshTask(carrier)>>
BugForgetsRider(o, s, carrier) ==
  IF s = "delivered" THEN <<Task("deliver", o, carrier, 0)>> ELSE <<DropTask(o)>>

\* What updateStatus does about trips and riders once the status is saved.
Aftermath(o, s, carrier) ==
  CASE s = "out_for_delivery" -> <<DepartTask(o)>>
    [] s = "delivered" -> <<Task("deliver", o, carrier, 0)>>
    [] s = "cancelled" -> <<DropTask(o), RefreshTask(carrier)>>
    [] OTHER -> <<>>

\* updateStatus, by staff ("nobody") or by the rider of the order.
Update(q) ==
  /\ Runs(q, "update")
  /\ LET k == Head(work[q])
         old == rows[k.order]
     IN  IF /\ MayMove(old.status, k.to, "delivery")
            /\ k.to \in NeedsCarrier => old.carrier # "nobody"
            /\ k.rider \in {"nobody", old.carrier}
         THEN Then(q, <<SaveTask(k.order, [old EXCEPT !.status = k.to])>>
                      \o Aftermath(k.order, k.to, old.carrier))
         ELSE Throw(q)
  /\ UNCHANGED <<db, past>>

\* A courier is booked up to the hand-over, and the details of one booked already
\* are still changed on the road.
MayBook(row) ==
  row.status \in Bookable \/ (row.carrier = "porter" /\ row.status \in OnTheRoad)

\* bookExternalCourier: off the trip first, then the save.
Book(q) ==
  /\ Runs(q, "book")
  /\ LET o == Head(work[q]).order
         old == rows[o]
         new == [old EXCEPT !.carrier = "porter", !.trip = 0,
                            !.status = IF @ = "food_ready" THEN "assigned_to_delivery" ELSE @]
     IN  IF MayBook(old)
         THEN Then(q, <<DropTask(o), SaveTask(o, new), RefreshTask(old.carrier)>>)
         ELSE Throw(q)
  /\ UNCHANGED <<db, past>>

\* cancelExternalCourier.
Unbook(q) ==
  /\ Runs(q, "unbook")
  /\ LET o == Head(work[q]).order
         new == [rows[o] EXCEPT !.carrier = "nobody",
                                !.status = IF @ = "assigned_to_delivery" THEN "food_ready" ELSE @]
     IN  IF rows[o].carrier = "porter" /\ rows[o].status \in Bookable
         THEN Then(q, <<SaveTask(o, new)>>) ELSE Throw(q)
  /\ UNCHANGED <<db, past>>

----------------------------------------------------------------------------
(* trips.service.ts                                                        *)

\* createTrip: the rules, the trip, and one assignRider per order.
CreateTrip(q) ==
  /\ Runs(q, "create")
  /\ LET k == Head(work[q]) IN
     IF /\ Len(k.orders) <= Capacity
        /\ \A i \in DOMAIN k.orders : /\ rows[k.orders[i]].status \in Bookable
                                      /\ rows[k.orders[i]].carrier # "porter"
     THEN Then(q, <<[k EXCEPT !.do = "insert"]>>) ELSE Throw(q)
  /\ UNCHANGED <<db, past>>

InsertTrip(q) ==
  /\ Runs(q, "insert") /\ Len(trips) < MaxTrips
  /\ LET k == Head(work[q]) IN
     /\ NewTrip(k.rider)
     /\ Then(q, [i \in DOMAIN k.orders |->
                   Task("assign", k.orders[i], k.rider, Len(trips) + 1)])
  /\ UNCHANGED <<rows, stops, free, bonus, past>>

\* The orders of a set, in some order.
Listed(S) == {s \in [1 .. Cardinality(S) -> S] : \A o \in S : \E i \in DOMAIN s : s[i] = o}

\* addToTrip: a planned trip is cancelled, and made anew with one more order.
AddToTrip(q) ==
  /\ Runs(q, "add")
  /\ LET k == Head(work[q]) IN
     IF trips[k.trip].status = "planned"
     THEN \E ids \in Listed(On(k.trip) \cup {k.order}) :
            Then(q, <<TripTask("cancel", k.trip), CreateTask("create", k.rider, ids),
                      TripTask("catch", k.trip)>>)
     ELSE Throw(q)
  /\ UNCHANGED <<db, past>>

CancelTrip(q) ==
  /\ Runs(q, "cancel")
  /\ LET t == Head(work[q]).trip IN
     trips' = IF trips[t].status = "planned"
              THEN [trips EXCEPT ![t].status = "cancelled"] ELSE trips
  /\ Then(q, <<>>)
  /\ UNCHANGED <<rows, stops, free, bonus, past>>

\* Nothing was thrown.
NotCaught(q) ==
  /\ Runs(q, "catch")
  /\ Then(q, <<>>)
  /\ UNCHANGED <<db, past>>

\* The catch sets the trip back to planned, whatever it has become since.
Revive(q) ==
  /\ Runs(q, "revive")
  /\ trips' = [trips EXCEPT ![Head(work[q]).trip].status = "planned"]
  /\ Then(q, <<>>)
  /\ UNCHANGED <<rows, stops, free, bonus, past>>

\* pickup collects a trip whose every bag is packed.
Packed(t) == \A o \in On(t) : rows[o].status \in {"food_ready", "assigned_to_delivery"}

\* A reserved order is handed over first.
HandOver(o, r) ==
  (IF rows[o].status = "food_ready"
   THEN <<StatusTask(o, "nobody", "assigned_to_delivery")>> ELSE <<>>)
  \o <<StatusTask(o, r, "out_for_delivery")>>

\* pickup: the stops one by one, an error leaves the rest behind.
Pickup(q) ==
  /\ Runs(q, "pickup")
  /\ LET t == Head(work[q]).trip
         r == trips[t].rider
         bag(ids, i) == IF i \in DOMAIN ids THEN HandOver(ids[i], r) ELSE <<>>
     IN  IF trips[t].status = "planned" /\ Packed(t)
         THEN \E ids \in Listed(On(t)) : Then(q, bag(ids, 1) \o bag(ids, 2) \o bag(ids, 3))
         ELSE Throw(q)
  /\ UNCHANGED <<db, past>>

\* A board that asks only for the trips on the road.
BugRiderState(r) ==
  IF \E t \in DOMAIN trips : trips[t].rider = r /\ trips[t].status = "picked_up"
  THEN "on_trip" ELSE "at_kitchen"

\* riders(): what the board and the dispatcher take the rider to be doing; a
\* rider on the way back counts as at the kitchen.
RiderState(r) ==
  LET has(s) == \E t \in DOMAIN trips : /\ trips[t].rider = r /\ trips[t].status = s
                                        /\ On(t) # {}
  IN  IF has("picked_up") THEN "on_trip" ELSE IF has("planned") THEN "assigned"
      ELSE "at_kitchen"

----------------------------------------------------------------------------
\* A statement fails, or the process stops.
Fail(q) ==
  /\ work[q] # <<>>
  /\ Throw(q) \/ work' = [work EXCEPT ![q] = <<>>]
  /\ past' = [past EXCEPT !.cut = TRUE]
  /\ UNCHANGED db

Cooks == [trip |-> 0, status |-> "preparing_food", carrier |-> "nobody"]

\* Some orders, not all delivered, ride together on trip 1, the others cook:
\* where a few calls have brought the kitchen.  A trip is on the road once one
\* of its bags has left.
Riding(r, at) ==
  LET os == DOMAIN at
      left == \E o \in os : at[o] \in {"out_for_delivery", "delivered"}
  IN  /\ \E o \in os : at[o] # "delivered"
      /\ rows = [o \in Orders |-> IF o \in os THEN [trip |-> 1, status |-> at[o], carrier |-> r]
                                  ELSE Cooks]
      /\ stops = [o \in Orders |-> IF o \in os THEN [trip |-> 1, dropped |-> at[o] = "delivered"]
                                   ELSE NoStop]
      /\ trips = <<[rider |-> r, status |-> IF left THEN "picked_up" ELSE "planned"]>>
      /\ free = [x \in Riders |-> x = r => \A o \in os : at[o] \notin NeedsCarrier]

\* Nobody is to carry anything yet.
Fresh ==
  /\ rows = [o \in Orders |-> Cooks] /\ stops = [o \in Orders |-> NoStop]
  /\ trips = <<>> /\ free = [r \in Riders |-> TRUE]

Init ==
  /\ \/ Fresh
     \/ \E r \in Riders, os \in SUBSET Orders :
          Cardinality(os) <= Capacity /\ \E at \in [os -> Stages \ {"cancelled"}] : Riding(r, at)
  /\ bonus = {}
  /\ work = [q \in Requests |-> <<>>]
  /\ past = [calls |-> 0, planners |-> {}, raced |-> FALSE, tangled |-> FALSE, cut |-> FALSE]

Next ==
  \E q \in Requests :
    \/ CallAssign(q) \/ CallUpdate(q) \/ CallPorter(q)
    \/ CallCreate(q) \/ CallAdd(q) \/ CallPickup(q)
    \/ Drop(q) \/ Point(q) \/ Settle(q) \/ CloseTrip(q)
    \/ Pick(q) \/ OpenTrip(q) \/ Place(q)
    \/ PickedUp(q) \/ Deliver(q) \/ SettleDelivered(q) \/ Refresh(q) \/ PayBonus(q)
    \/ Save(q) \/ Assign(q) \/ Update(q) \/ Book(q) \/ Unbook(q)
    \/ CreateTrip(q) \/ InsertTrip(q) \/ AddToTrip(q) \/ CancelTrip(q)
    \/ NotCaught(q) \/ Revive(q) \/ Pickup(q)
    \/ Fail(q)

Spec == Init /\ [][Next]_vars

----------------------------------------------------------------------------
\* Rows have their types.
TypeOK ==
  /\ rows \in [Orders -> [trip : 0 .. MaxTrips, status : Stages, carrier : Carriers]]
  /\ stops \in [Orders -> [trip : 0 .. MaxTrips, dropped : BOOLEAN]]
  /\ Len(trips) <= MaxTrips
  /\ \A t \in DOMAIN trips : trips[t] \in [rider : Riders, status : Active \cup {"done", "cancelled"}]
  /\ free \in [Riders -> BOOLEAN]
  /\ bonus \subseteq Orders \X (1 .. MaxTrips)
  /\ past.calls \in 0 .. MaxCalls /\ past.planners \subseteq Requests

\* All requests have ended, none broke off, and no call that plans has raced.
Settled == (\A q \in Requests : work[q] = <<>>) /\ ~ past.cut /\ ~ past.tangled

\* An order, its stop, its trip and its rider agree once the requests have
\* ended, status changes may race: the rider's app shows every bag of his.
TripsAgree ==
  Settled =>
    \A o \in Orders :
      /\ rows[o].trip = stops[o].trip
      /\ rows[o].status \notin Terminal =>
           IF stops[o] = NoStop THEN rows[o].carrier \notin Riders
           ELSE /\ trips[stops[o].trip].rider = rows[o].carrier
                /\ trips[stops[o].trip].status \in Active

\* No trip stays on the road with nothing left to deliver, though the drops of
\* its orders race: whichever counts last sees none open.
NoTripLeftOpen ==
  Settled => \A t \in DOMAIN trips : trips[t].status = "picked_up" => Undropped(t) # {}

\* A shared trip earns its rider the batch bonus once, unless drops race.
BonusOnce ==
  ~ past.raced => \A b, c \in bonus : b[2] = c[2] => b = c

\* The board takes a rider for busy exactly if some live order is theirs.
BoardIsTrue ==
  Settled =>
    \A r \in Riders :
      RiderState(r) = "at_kitchen"
        <=> \A o \in Orders : rows[o].carrier = r => rows[o].status \in Terminal

\* A rider flagged as not available has an order to bring; unless requests have
\* raced, one that is in his bag.  (A save that had read an older status may take
\* a bag back to the counter, and nobody looks at the flag then.)
BusyCarries ==
  Settled =>
    \A r \in Riders : ~ free[r] =>
      \E o \in Orders : /\ rows[o].carrier = r /\ rows[o].status \notin Terminal
                        /\ past.raced \/ o \in Carrying(r)

\* Between requests the orders, the trips, the dispatch board and the riders'
\* flags tell one story.
BooksAgree == TripsAgree /\ BoardIsTrue /\ BusyCarries
=============================================================================

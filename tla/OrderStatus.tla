---------------------------- MODULE OrderStatus ----------------------------
(***************************************************************************)
(* The order lifecycle tables of orders/order-status.machine.ts and the    *)
(* status lists of orders/courier.util.ts.  No state: the modules about    *)
(* orders extend this one.                                                 *)
(***************************************************************************)

Statuses == {"order_received", "order_confirmed", "preparing_food",
             "food_ready", "assigned_to_delivery", "out_for_delivery",
             "arriving_soon", "delivered", "cancelled"}

Fulfillments == {"delivery", "pickup"}

Terminal == {"delivered", "cancelled"}

\* The kitchen still has the food: a rider may be reserved, not dispatched.
Cooking == {"order_received", "order_confirmed", "preparing_food"}

\* The food is on the bike.
OnTheRoad == {"out_for_delivery", "arriving_soon"}

\* assertTransition demands a carrier before a move to one of these.
NeedsCarrier == {"assigned_to_delivery"} \cup OnTheRoad

RiderAllowed == {"out_for_delivery", "arriving_soon", "delivered"}

\* A courier may be booked, and its booking cancelled, in these.
Bookable == {"order_confirmed", "preparing_food", "food_ready",
             "assigned_to_delivery"}

\* A list that lets the customer cancel while the food is on the stove.
BugCancellableTooLong == {"order_received", "order_confirmed", "preparing_food"}

\* A customer may cancel from these.
CustomerCancellable == {"order_received", "order_confirmed"}

Transitions ==
  [order_received       |-> {"order_confirmed", "preparing_food", "cancelled"},
   order_confirmed      |-> {"preparing_food", "cancelled"},
   preparing_food       |-> {"food_ready", "cancelled"},
   food_ready           |-> {"assigned_to_delivery", "cancelled"},
   assigned_to_delivery |-> {"out_for_delivery", "cancelled"},
   out_for_delivery     |-> {"arriving_soon", "delivered"},
   arriving_soon        |-> {"delivered"},
   delivered            |-> {},
   cancelled            |-> {}]

\* A takeaway goes from Ready to picked up, recorded as delivered.
PickupTransitions ==
  [Transitions EXCEPT !.food_ready           = {"delivered", "cancelled"},
                      !.assigned_to_delivery = {"delivered", "cancelled"},
                      !.out_for_delivery     = {"delivered"}]

\* assertTransition with one table for both kinds of order.
BugDeliveryAsPickup(from, to, fulfillment) == to \in PickupTransitions[from]
BugPickupAsDelivery(from, to, fulfillment) == to \in Transitions[from]

\* assertTransition: a status is never re-set to itself (no list holds its key).
MayMove(from, to, fulfillment) ==
  to \in (IF fulfillment = "pickup" THEN PickupTransitions ELSE Transitions)[from]
=============================================================================

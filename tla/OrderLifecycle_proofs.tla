----------------------- MODULE OrderLifecycle_proofs -----------------------
(***************************************************************************)
(* Proofs about OrderLifecycle for every set of riders and any number of   *)
(* requests in flight.                                                     *)
(*                                                                         *)
(* KitchenFirst and HandoverFirst are not inductive: a save may write a    *)
(* status decided from a row that is long gone.  The invariant Inv says    *)
(* the same of every copy a request still holds.  It is kept because a     *)
(* copy's status is one step of the table away from a status the row has   *)
(* had, and seen only grows.                                               *)
(***************************************************************************)
EXTENDS OrderLifecycle, TLAPS

\* What the promise asks of a status, and of the columns saved with it.
SoundStatus(s) ==
  /\ s \in Packed => "food_ready" \in seen
  /\ fulfillment = "delivery" /\ s \in {"arriving_soon", "delivered"}
       => "out_for_delivery" \in seen
  /\ fulfillment = "pickup" => s \notin NeedsCarrier

Sound(r) == SoundStatus(r.status) /\ (fulfillment = "pickup" => ~ r.external)

\* The order itself: its row has been in its status, and a rider is paid
\* for a delivery only once the food has left.
RowInv ==
  /\ fulfillment \in Fulfillments
  /\ row \in Rows
  /\ earnings \in Riders \cup {NoRider}
  /\ credits \in Nat
  /\ seen \subseteq Statuses
  /\ row.status \in seen
  /\ Sound(row)
  /\ earnings # NoRider /\ fulfillment = "delivery" => "out_for_delivery" \in seen

\* What a ping near the door relies on when it writes arriving_soon.
HasLeft ==
  /\ "food_ready" \in seen
  /\ "out_for_delivery" \in seen
  /\ fulfillment = "delivery"

\* The requests in flight.
SlotInv ==
  /\ pc \in [Requests -> Steps]
  /\ task \in [Requests -> Tasks]
  /\ copy \in [Requests -> Rows]
  /\ dirty \in [Requests -> SUBSET Columns]
  /\ stale \subseteq Requests
  /\ \A q \in Requests : Sound(copy[q])
  /\ \A q \in Requests : pc[q] = "crediting" => copy[q].status = "delivered"
  /\ \A q \in Requests : pc[q] = "arriving" => HasLeft

Inv == RowInv /\ SlotInv

----------------------------------------------------------------------------
\* The facts about the transition tables the proofs need: a packed status is
\* entered from a packed or ready one, a delivery ends on the road, and a
\* takeaway is never dispatched.
LEMMA TableFacts ==
  ASSUME NEW from \in Statuses, NEW to, NEW f \in Fulfillments,
         MayMove(from, to, f)
  PROVE  /\ to \in Statuses
         /\ to \in Packed => from \in Packed \cup {"food_ready"}
         /\ f = "delivery" /\ to \in {"arriving_soon", "delivered"} => from \in OnTheRoad
         /\ f = "pickup" /\ from \notin NeedsCarrier => to \notin NeedsCarrier
<1>1. CASE from = "order_received"
  BY <1>1 DEF MayMove, Transitions, PickupTransitions, Statuses, Fulfillments,
     Packed, OnTheRoad, NeedsCarrier
<1>2. CASE from = "order_confirmed"
  BY <1>2 DEF MayMove, Transitions, PickupTransitions, Statuses, Fulfillments,
     Packed, OnTheRoad, NeedsCarrier
<1>3. CASE from = "preparing_food"
  BY <1>3 DEF MayMove, Transitions, PickupTransitions, Statuses, Fulfillments,
     Packed, OnTheRoad, NeedsCarrier
<1>4. CASE from = "food_ready"
  BY <1>4 DEF MayMove, Transitions, PickupTransitions, Statuses, Fulfillments,
     Packed, OnTheRoad, NeedsCarrier
<1>5. CASE from = "assigned_to_delivery"
  BY <1>5 DEF MayMove, Transitions, PickupTransitions, Statuses, Fulfillments,
     Packed, OnTheRoad, NeedsCarrier
<1>6. CASE from = "out_for_delivery"
  BY <1>6 DEF MayMove, Transitions, PickupTransitions, Statuses, Fulfillments,
     Packed, OnTheRoad, NeedsCarrier
<1>7. CASE from = "arriving_soon"
  BY <1>7 DEF MayMove, Transitions, PickupTransitions, Statuses, Fulfillments,
     Packed, OnTheRoad, NeedsCarrier
<1>8. CASE from = "delivered"
  BY <1>8 DEF MayMove, Transitions, PickupTransitions, Statuses, Fulfillments,
     Packed, OnTheRoad, NeedsCarrier
<1>9. CASE from = "cancelled"
  BY <1>9 DEF MayMove, Transitions, PickupTransitions, Statuses, Fulfillments,
     Packed, OnTheRoad, NeedsCarrier
<1>. QED
  BY <1>1, <1>2, <1>3, <1>4, <1>5, <1>6, <1>7, <1>8, <1>9 DEF Statuses

----------------------------------------------------------------------------
\* Facts about rows: NewRow is one, and it is sound.
LEMMA NewRowSound == NewRow \in Rows /\ Sound(NewRow)
  BY DEF NewRow, Rows, Statuses, Sound, SoundStatus, Packed, OnTheRoad, NeedsCarrier

\* What a request holds stays sound while seen grows, whatever the request
\* that moves does to its own slot.
LEMMA SlotsKept ==
  ASSUME SlotInv, NEW q \in Requests,
         UNCHANGED fulfillment, seen \subseteq seen',
         \/ Finish(q)
         \/ \E next \in Steps :
               /\ GoTo(q, next)
               /\ next = "crediting" => copy[q].status = "delivered"
               /\ next = "arriving" => HasLeft
         \/ \E job \in Tasks, draft \in Rows, next \in {"saving", "crediting"} :
               /\ Hold(q, job, draft, next)
               /\ Sound(draft)
               /\ next = "crediting" => draft.status = "delivered"
  PROVE  SlotInv'
<1>1. \A r : Sound(r) => Sound(r)'
  BY DEF Sound, SoundStatus
<1>2. HasLeft => HasLeft'
  BY DEF HasLeft
<1>3. CASE Finish(q)
  BY <1>1, <1>2, <1>3, NewRowSound DEF SlotInv, Finish, Overtaken, Steps, Tasks
<1>4. ASSUME NEW next \in Steps, GoTo(q, next),
             next = "crediting" => copy[q].status = "delivered",
             next = "arriving" => HasLeft
      PROVE  SlotInv'
  BY <1>1, <1>2, <1>4 DEF SlotInv, GoTo, Overtaken
<1>5. ASSUME NEW job \in Tasks, NEW draft \in Rows,
             NEW next \in {"saving", "crediting"},
             Hold(q, job, draft, next), Sound(draft),
             next = "crediting" => draft.status = "delivered"
      PROVE  SlotInv'
  BY <1>1, <1>2, <1>5 DEF SlotInv, Hold, Steps
<1>. QED
  BY <1>3, <1>4, <1>5

----------------------------------------------------------------------------
\* A request that only reads, or only moves on, leaves the order alone.
LEMMA RowKept ==
  ASSUME RowInv, UNCHANGED <<fulfillment, row, earnings, credits, seen>>
  PROVE  RowInv'
  BY DEF RowInv, Sound, SoundStatus

\* A row made of sound rows, column by column, is sound.
LEMMA MixedRowSound ==
  ASSUME RowInv, SlotInv, NEW q \in Requests
  PROVE  Written(q) \in Rows /\ Sound(Written(q))
<1>1. row \in Rows /\ copy[q] \in Rows /\ Sound(row) /\ Sound(copy[q])
  BY DEF RowInv, SlotInv
<1>2. /\ Written(q).status \in {row.status, copy[q].status}
      /\ Written(q).rider \in {row.rider, copy[q].rider}
      /\ Written(q).external \in {row.external, copy[q].external}
      /\ Written(q).madeGood \in {row.madeGood, copy[q].madeGood}
      /\ Written(q) = [c \in {"status", "rider", "external", "madeGood"} |-> Written(q)[c]]
  BY DEF Written, Columns
<1>3. Written(q) \in Rows
  BY <1>1, <1>2 DEF Rows
<1>4. Sound(Written(q))
  BY <1>1, <1>2 DEF Sound, SoundStatus
<1>. QED
  BY <1>3, <1>4

\* Reading the row and keeping a changed copy of it.
LEMMA ReadingKeeps ==
  ASSUME Inv, NEW q \in Requests, NEW job \in Tasks, NEW draft \in Rows,
         NEW next \in {"saving", "crediting"},
         Hold(q, job, draft, next), Sound(draft),
         next = "crediting" => draft.status = "delivered",
         UNCHANGED <<fulfillment, row, earnings, credits, seen>>
  PROVE  Inv'
<1>1. RowInv'
  BY RowKept DEF Inv
<1>2. SlotInv'
  BY SlotsKept DEF Inv
<1>. QED
  BY <1>1, <1>2 DEF Inv

LEMMA UpdateStatusKeeps ==
  ASSUME Inv, NEW q \in Requests, NEW by \in Riders \cup {"staff"},
         NEW to \in Statuses, UpdateStatus(q, by, to)
  PROVE  Inv'
<1>1. row \in Rows /\ fulfillment \in Fulfillments /\ Sound(row) /\ row.status \in seen
  BY DEF Inv, RowInv
<1>2. MayMove(row.status, to, fulfillment) /\ row.status \in Statuses
  BY <1>1 DEF UpdateStatus, Accepts, Rows
<1>3. SoundStatus(to)
  BY <1>1, <1>2, TableFacts DEF Sound, SoundStatus, Packed, OnTheRoad, Fulfillments
<1>4. [row EXCEPT !.status = to] \in Rows
  BY <1>1 DEF Rows
<1>5. Sound([row EXCEPT !.status = to])
  BY <1>1, <1>3 DEF Sound, Rows
<1>. QED
  BY <1>1, <1>4, <1>5, ReadingKeeps DEF UpdateStatus, Tasks, Rows

LEMMA CustomerCancelKeeps ==
  ASSUME Inv, NEW q \in Requests, CustomerCancel(q)
  PROVE  Inv'
<1>1. CASE MayMove(row.status, "cancelled", fulfillment)
  <2>1. [row EXCEPT !.status = "cancelled"] \in Rows
    BY DEF Inv, RowInv, Rows, Statuses
  <2>2. Sound([row EXCEPT !.status = "cancelled"])
    BY DEF Inv, RowInv, Rows, Sound, SoundStatus, Packed, OnTheRoad, NeedsCarrier
  <2>. QED
    BY <1>1, <2>1, <2>2, ReadingKeeps DEF CustomerCancel, Tasks
<1>2. CASE ~ MayMove(row.status, "cancelled", fulfillment)
  BY <1>2, RowKept, SlotsKept DEF CustomerCancel, Inv
<1>. QED
  BY <1>1, <1>2

LEMMA DispatchKeeps ==
  ASSUME Inv, NEW q \in Requests,
         \/ \E r \in Riders : AssignRider(q, r)
         \/ BookCourier(q)
         \/ CancelCourier(q)
         \/ \E r \in Riders : EditOrder(q, r)
         \/ SetPrepVideo(q)
  PROVE  Inv'
<1>1. row \in Rows /\ fulfillment \in Fulfillments /\ Sound(row) /\ row.status \in seen
  BY DEF Inv, RowInv
<1>2. ASSUME NEW r \in Riders, AssignRider(q, r) PROVE Inv'
  <2>1. row.status = "food_ready" => "food_ready" \in seen
    BY <1>1
  <2>2. PICK s \in Statuses :
          /\ Hold(q, "edit", [row EXCEPT !.rider = r, !.external = FALSE, !.status = s], "saving")
          /\ s = row.status \/ (s = "assigned_to_delivery" /\ row.status \in {"food_ready", "assigned_to_delivery"})
    BY <1>1, <1>2 DEF AssignRider, AssignedStatus, Rows, Statuses, Terminal, Cooking, OnTheRoad
  <2>3. [row EXCEPT !.rider = r, !.external = FALSE, !.status = s] \in Rows
    BY <1>1 DEF Rows
  <2>4. fulfillment # "pickup"
    BY <1>2 DEF AssignRider
  <2>5. Sound([row EXCEPT !.rider = r, !.external = FALSE, !.status = s])
    BY <1>1, <2>1, <2>2, <2>4 DEF Sound, SoundStatus, Rows, Packed, OnTheRoad
  <2>. QED
    BY <1>2, <2>2, <2>3, <2>5, ReadingKeeps DEF AssignRider, Tasks
<1>3. ASSUME BookCourier(q) PROVE Inv'
  <2>1. PICK s \in Statuses :
          /\ Hold(q, "edit", [row EXCEPT !.rider = NoRider, !.external = TRUE, !.status = s], "saving")
          /\ s = row.status \/ (s = "assigned_to_delivery" /\ row.status = "food_ready")
    BY <1>1, <1>3 DEF BookCourier, BookedStatus, Rows, Statuses
  <2>2. [row EXCEPT !.rider = NoRider, !.external = TRUE, !.status = s] \in Rows
    BY <1>1 DEF Rows
  <2>3. Sound([row EXCEPT !.rider = NoRider, !.external = TRUE, !.status = s])
    BY <1>1, <1>3, <2>1 DEF BookCourier, Sound, SoundStatus, Rows, Packed, OnTheRoad
  <2>. QED
    BY <1>3, <2>1, <2>2, <2>3, ReadingKeeps DEF BookCourier, Tasks
<1>4. ASSUME CancelCourier(q) PROVE Inv'
  <2>1. PICK s \in Statuses :
          /\ Hold(q, "edit", [row EXCEPT !.external = FALSE, !.status = s], "saving")
          /\ s = row.status \/ s = "food_ready"
    BY <1>1, <1>4 DEF CancelCourier, RevertedStatus, Rows, Statuses
  <2>2. [row EXCEPT !.external = FALSE, !.status = s] \in Rows
    BY <1>1 DEF Rows
  <2>3. Sound([row EXCEPT !.external = FALSE, !.status = s])
    BY <1>1, <2>1 DEF Sound, SoundStatus, Rows, Packed, OnTheRoad, NeedsCarrier
  <2>. QED
    BY <1>4, <2>1, <2>2, <2>3, ReadingKeeps DEF CancelCourier, Tasks
<1>5. ASSUME NEW r \in Riders, EditOrder(q, r) PROVE Inv'
  <2>1. [row EXCEPT !.rider = r] \in Rows
    BY <1>1 DEF Rows
  <2>2. Sound([row EXCEPT !.rider = r])
    BY <1>1 DEF Sound, Rows
  <2>. QED
    BY <1>5, <2>1, <2>2, ReadingKeeps DEF EditOrder, Tasks
<1>6. ASSUME SetPrepVideo(q) PROVE Inv'
  BY <1>1, <1>6, ReadingKeeps DEF SetPrepVideo, Tasks
<1>. QED
  BY <1>2, <1>3, <1>4, <1>5, <1>6

----------------------------------------------------------------------------
LEMMA MovingOnKeeps ==
  ASSUME Inv, NEW q \in Requests,
         \/ VetCustomerCancel(q)
         \/ \E r \in Riders : RiderIsNear(q, r)
         \/ SaveRefused(q)
         \/ Abort(q)
  PROVE  Inv'
<1>1. CASE VetCustomerCancel(q)
  BY <1>1, RowKept, SlotsKept DEF VetCustomerCancel, Inv, Steps
<1>2. ASSUME NEW r \in Riders, RiderIsNear(q, r) PROVE Inv'
  <2>1. HasLeft
    BY <1>2 DEF RiderIsNear, HasLeft, Inv, RowInv, Sound, SoundStatus, Packed,
                OnTheRoad, NeedsCarrier, Fulfillments
  <2>. QED
    BY <1>2, <2>1, RowKept, SlotsKept DEF RiderIsNear, Inv, Steps
<1>3. CASE SaveRefused(q) \/ Abort(q)
  BY <1>3, RowKept, SlotsKept DEF SaveRefused, Abort, Inv
<1>. QED
  BY <1>1, <1>2, <1>3

LEMMA CreditRiderKeeps ==
  ASSUME Inv, NEW q \in Requests, CreditRider(q)
  PROVE  Inv'
<1>1. SlotInv'
  BY SlotsKept DEF CreditRider, Inv, Steps
<1>2. copy[q] \in Rows /\ Sound(copy[q]) /\ copy[q].status = "delivered"
  BY DEF CreditRider, Inv, SlotInv
<1>3. earnings' \in Riders \cup {NoRider}
  BY <1>2 DEF CreditRider, Inv, RowInv, Rows
<1>4. fulfillment = "delivery" => "out_for_delivery" \in seen
  BY <1>2 DEF Sound, SoundStatus
<1>5. RowInv'
  BY <1>3, <1>4 DEF CreditRider, Inv, RowInv, Sound, SoundStatus
<1>. QED
  BY <1>1, <1>5 DEF Inv

LEMMA DiffKeeps ==
  ASSUME Inv, NEW q \in Requests, Diff(q)
  PROVE  Inv'
<1>1. RowInv'
  BY RowKept DEF Diff, Inv
<1>2. SlotInv'
  BY DEF Diff, Inv, SlotInv, Steps, Sound, SoundStatus, HasLeft
<1>. QED
  BY <1>1, <1>2 DEF Inv

LEMMA SaveKeeps ==
  ASSUME Inv, NEW q \in Requests, Save(q)
  PROVE  Inv'
<1>1. Written(q) \in Rows /\ Sound(Written(q))
  BY MixedRowSound DEF Inv
<1>2. /\ row' = Written(q)
      /\ seen' = seen \cup {row'.status}
      /\ UNCHANGED <<fulfillment, earnings, credits>>
  BY DEF Save
<1>3. RowInv'
  BY <1>1, <1>2 DEF Inv, RowInv, Rows, Sound, SoundStatus
<1>4. SlotInv'
  BY <1>2, SlotsKept DEF Save, Inv, Steps
<1>. QED
  BY <1>3, <1>4 DEF Inv

LEMMA MakegoodKeeps ==
  ASSUME Inv, NEW q \in Requests, ClaimMakegood(q) \/ PayMakegood(q)
  PROVE  Inv'
<1>1. SlotInv'
  BY SlotsKept DEF ClaimMakegood, PayMakegood, Inv, Steps
<1>2. /\ row' \in Rows
      /\ row'.status = row.status /\ row'.external = row.external
      /\ credits' \in Nat
      /\ UNCHANGED <<fulfillment, earnings, seen>>
  <2>1. row \in Rows /\ credits \in Nat
    BY DEF Inv, RowInv
  <2>2. CASE ClaimMakegood(q)
    <3>1. row' = row \/ row' = [row EXCEPT !.madeGood = TRUE]
      BY <2>2 DEF ClaimMakegood
    <3>2. UNCHANGED <<fulfillment, earnings, credits, seen>>
      BY <2>2 DEF ClaimMakegood
    <3>. QED
      BY <2>1, <3>1, <3>2 DEF Rows
  <2>3. CASE PayMakegood(q)
    BY <2>1, <2>3 DEF PayMakegood
  <2>. QED
    BY <2>2, <2>3
<1>3. RowInv'
  BY <1>2 DEF Inv, RowInv, Sound, SoundStatus
<1>. QED
  BY <1>1, <1>3 DEF Inv

LEMMA MarkArrivingKeeps ==
  ASSUME Inv, NEW q \in Requests, MarkArriving(q)
  PROVE  Inv'
<1>1. HasLeft
  BY DEF MarkArriving, Inv, SlotInv
<1>2. SlotInv'
  BY SlotsKept DEF MarkArriving, Inv
<1>3. CASE TriggerRaises("arriving_soon")
  BY <1>2, <1>3, RowKept DEF MarkArriving, Inv
<1>4. CASE ~ TriggerRaises("arriving_soon")
  <2>1. /\ row' \in Rows
        /\ row'.status = "arriving_soon" /\ row'.external = row.external
        /\ seen' = seen \cup {"arriving_soon"}
        /\ UNCHANGED <<fulfillment, earnings, credits>>
    BY <1>4 DEF MarkArriving, Inv, RowInv, Rows, Statuses
  <2>2. RowInv'
    BY <1>1, <2>1 DEF Inv, RowInv, Sound, SoundStatus, HasLeft, Statuses
  <2>. QED
    BY <1>2, <2>2 DEF Inv
<1>. QED
  BY <1>3, <1>4

----------------------------------------------------------------------------
LEMMA InvInit == Init => Inv
<1>. SUFFICES ASSUME Init PROVE Inv
  OBVIOUS
<1>1. RowInv
  BY NewRowSound DEF Init, RowInv, NewRow, Statuses
<1>2. SlotInv
  BY NewRowSound DEF Init, SlotInv, Steps, Tasks
<1>. QED
  BY <1>1, <1>2 DEF Inv

LEMMA InvStep == Inv /\ [Next]_vars => Inv'
<1>. SUFFICES ASSUME Inv, [Next]_vars PROVE Inv'
  OBVIOUS
<1>1. CASE UNCHANGED vars
  BY <1>1 DEF vars, Inv, RowInv, SlotInv, Sound, SoundStatus, HasLeft
<1>2. ASSUME NEW q \in Requests, NEW by \in Riders \cup {"staff"},
             NEW to \in Statuses, UpdateStatus(q, by, to)
      PROVE  Inv'
  BY <1>2, UpdateStatusKeeps
<1>3. ASSUME NEW q \in Requests,
             \/ \E r \in Riders : AssignRider(q, r)
             \/ BookCourier(q)
             \/ CancelCourier(q)
             \/ \E r \in Riders : EditOrder(q, r)
             \/ SetPrepVideo(q)
      PROVE  Inv'
  BY <1>3, DispatchKeeps
<1>4. ASSUME NEW q \in Requests,
             \/ VetCustomerCancel(q)
             \/ \E r \in Riders : RiderIsNear(q, r)
             \/ SaveRefused(q)
             \/ Abort(q)
      PROVE  Inv'
  BY <1>4, MovingOnKeeps
<1>5. ASSUME NEW q \in Requests, CustomerCancel(q) PROVE Inv'
  BY <1>5, CustomerCancelKeeps
<1>6. ASSUME NEW q \in Requests, CreditRider(q) PROVE Inv'
  BY <1>6, CreditRiderKeeps
<1>7. ASSUME NEW q \in Requests, Diff(q) PROVE Inv'
  BY <1>7, DiffKeeps
<1>8. ASSUME NEW q \in Requests, Save(q) PROVE Inv'
  BY <1>8, SaveKeeps
<1>9. ASSUME NEW q \in Requests, ClaimMakegood(q) \/ PayMakegood(q) PROVE Inv'
  BY <1>9, MakegoodKeeps
<1>10. ASSUME NEW q \in Requests, MarkArriving(q) PROVE Inv'
  BY <1>10, MarkArrivingKeeps
<1>. QED
  BY <1>1, <1>2, <1>3, <1>4, <1>5, <1>6, <1>7, <1>8, <1>9, <1>10 DEF Next

LEMMA Invariance == Spec => []Inv
  BY InvInit, InvStep, PTL DEF Spec

----------------------------------------------------------------------------
\* Whatever requests race, the variables of the lifecycle keep their types.
THEOREM TypeCorrect == Spec => []TypeOK
<1>1. Inv => TypeOK
  BY DEF Inv, RowInv, SlotInv, TypeOK
<1>. QED
  BY <1>1, Invariance, PTL

\* An order that is dispatched or delivered has been marked ready by the
\* kitchen, for every number of racing handlers of orders.service.ts.
THEOREM KitchenComesFirst == Spec => []KitchenFirst
<1>1. Inv => KitchenFirst
  BY DEF Inv, RowInv, Sound, SoundStatus, KitchenFirst
<1>. QED
  BY <1>1, Invariance, PTL

\* A delivery is completed, and its rider credited, only after the food has
\* left the kitchen.
THEOREM HandoverComesFirst == Spec => []HandoverFirst
<1>1. Inv => HandoverFirst
  BY DEF Inv, RowInv, Sound, SoundStatus, HandoverFirst
<1>. QED
  BY <1>1, Invariance, PTL

\* A takeaway order is never handed to a courier or dispatched.
THEOREM PickupNeverDispatched == Spec => []PickupStaysHome
<1>1. Inv => PickupStaysHome
  BY DEF Inv, RowInv, Sound, SoundStatus, PickupStaysHome
<1>. QED
  BY <1>1, Invariance, PTL

----------------------------------------------------------------------------
(* Terminal statuses and the promise.                                      *)

\* No step leaves a terminal status: a save that would is refused.
LEMMA TerminalStep ==
  ASSUME Inv, [Next]_vars, row.status \in Terminal
  PROVE  row'.status = row.status /\ seen' = seen
<1>1. row.status \in seen /\ row \in Rows
  BY DEF Inv, RowInv
<1>2. ASSUME NEW q \in Requests, Save(q)
      PROVE  row'.status = row.status /\ seen' = seen
  BY <1>1, <1>2 DEF Save, TriggerRaises
<1>3. ASSUME NEW q \in Requests, MarkArriving(q)
      PROVE  row'.status = row.status /\ seen' = seen
  BY <1>3 DEF MarkArriving, TriggerRaises, Terminal
<1>4. ASSUME NEW q \in Requests, ClaimMakegood(q)
      PROVE  row'.status = row.status /\ seen' = seen
  BY <1>1, <1>4 DEF ClaimMakegood, Rows
<1>5. CASE UNCHANGED <<row, seen>>
  BY <1>5
<1>6. (\E q \in Requests : Save(q) \/ MarkArriving(q) \/ ClaimMakegood(q))
        \/ UNCHANGED <<row, seen>>
  BY DEF Next, vars, UpdateStatus, VetCustomerCancel, CustomerCancel, AssignRider,
         BookCourier, CancelCourier, EditOrder, SetPrepVideo, RiderIsNear,
         CreditRider, Diff, SaveRefused, PayMakegood, Abort
<1>. QED
  BY <1>2, <1>3, <1>4, <1>5, <1>6

\* A delivered or cancelled order never changes its status again, whichever
\* stale copies are still to be saved.
THEOREM TerminalForever == Spec => TerminalIsFinal
<1>1. Inv /\ [Next]_vars => [row.status \in Terminal => row'.status = row.status]_vars
  BY TerminalStep
<1>. QED
  BY <1>1, Invariance, PTL DEF Spec, TerminalIsFinal

\* Requests never change the kind of an order.
LEMMA KindFixed ==
  ASSUME [Next]_vars
  PROVE  fulfillment' = fulfillment
  BY DEF Next, vars, UpdateStatus, VetCustomerCancel, CustomerCancel, AssignRider,
         BookCourier, CancelCourier, EditOrder, SetPrepVideo, RiderIsNear, CreditRider,
         Diff, Save, SaveRefused, ClaimMakegood, PayMakegood, MarkArriving, Abort

\* seen grows by the status that is written, if it grows.
LEMMA SeenStep ==
  ASSUME Inv, [Next]_vars
  PROVE  \/ seen' = seen /\ row'.status = row.status
         \/ seen' = seen \cup {row'.status}
<1>1. row \in Rows
  BY DEF Inv, RowInv
<1>2. ASSUME NEW q \in Requests, MarkArriving(q)
      PROVE  \/ seen' = seen /\ row'.status = row.status
             \/ seen' = seen \cup {row'.status}
  BY <1>1, <1>2 DEF MarkArriving, Rows
<1>3. ASSUME NEW q \in Requests, ClaimMakegood(q)
      PROVE  seen' = seen /\ row'.status = row.status
  BY <1>1, <1>3 DEF ClaimMakegood, Rows
<1>4. \/ \E q \in Requests : Save(q) \/ MarkArriving(q) \/ ClaimMakegood(q)
      \/ UNCHANGED <<row, seen>>
  BY DEF Next, vars, UpdateStatus, VetCustomerCancel, CustomerCancel, AssignRider,
         BookCourier, CancelCourier, EditOrder, SetPrepVideo, RiderIsNear,
         CreditRider, Diff, SaveRefused, PayMakegood, Abort
<1>. QED
  BY <1>2, <1>3, <1>4 DEF Save

\* Every step of the lifecycle is a step of the promise or none of its business.
LEMMA PromiseStep ==
  ASSUME Inv, Inv', [Next]_vars
  PROVE  [Promise!Next]_(Promise!vars)
<1>1. fulfillment' = fulfillment /\ fulfillment \in Fulfillments
  BY KindFixed DEF Inv, RowInv
<1>2. CASE row.status \in Terminal
  BY <1>1, <1>2, TerminalStep DEF Promise!vars
<1>3. CASE seen' = seen /\ row'.status = row.status
  BY <1>1, <1>3 DEF Promise!vars
<1>4. CASE row.status \notin Terminal /\ seen' = seen \cup {row'.status}
  <2>1. Sound(row)'
    BY DEF Inv, RowInv
  <2>2. CASE row'.status = "food_ready"
    BY <1>1, <1>4, <2>2 DEF Promise!Next, Promise!Pack, Terminal
  <2>3. CASE row'.status = "out_for_delivery"
    BY <1>1, <1>4, <2>1, <2>3 DEF Promise!Next, Promise!Leave, Terminal, Sound,
       SoundStatus, Packed, OnTheRoad, NeedsCarrier, Fulfillments
  <2>4. CASE row'.status = "delivered"
    BY <1>1, <1>4, <2>1, <2>4 DEF Promise!Next, Promise!Deliver, Terminal, Sound,
       SoundStatus, Packed, OnTheRoad
  <2>5. CASE row'.status = "cancelled"
    BY <1>1, <1>4, <2>5 DEF Promise!Next, Promise!Cancel, Terminal
  <2>6. CASE row'.status \notin Terminal \cup {"food_ready", "out_for_delivery"}
    BY <1>1, <1>4, <2>6 DEF Promise!vars, Terminal
  <2>. QED
    BY <2>2, <2>3, <2>4, <2>5, <2>6 DEF Terminal
<1>. QED
  BY <1>2, <1>3, <1>4, SeenStep

\* The racing handlers implement OrderPromise: they pack before they
\* dispatch, dispatch before they deliver, and end the order once.
THEOREM Refinement == Spec => KeepsPromise
<1>1. Init => Promise!Init
  BY DEF Init, NewRow, Promise!Init, Terminal
<1>2. Inv /\ Inv' /\ [Next]_vars => [Promise!Next]_(Promise!vars)
  BY PromiseStep
<1>. QED
  BY <1>1, <1>2, Invariance, PTL DEF Spec, KeepsPromise, Promise!Spec

----------------------------------------------------------------------------
(* A request nobody overtook.                                              *)

\* How a handler may change the row it read.
Decided(r, d) ==
  /\ \/ d.status = r.status
     \/ MayMove(r.status, d.status, fulfillment)
     \/ /\ r.status = "assigned_to_delivery" /\ d.status = "food_ready"
        /\ r.external /\ ~ d.external
  /\ DispatchedIsCarried(r) => DispatchedIsCarried(d)

\* What a request that was not overtaken is about to write: a decision on
\* the row as it stands, of which it saves exactly the columns that differ.
FreshInv == \A q \in Requests \ stale :
  /\ pc[q] \in {"crediting", "saving", "diffed"} => Decided(row, copy[q])
  /\ pc[q] \in {"crediting", "saving", "diffed"} /\ task[q] = "customer_cancel"
       => row.status \in CustomerCancellable
  /\ pc[q] = "diffed" => dirty[q] = {c \in Columns : copy[q][c] # row[c]}
  /\ pc[q] = "vetted" => row.status \in CustomerCancellable
  /\ pc[q] = "arriving" => row.status = "out_for_delivery"

\* What it writes is its whole copy.
LEMMA WritesItsCopy ==
  ASSUME Inv, FreshInv, NEW q \in Requests \ stale, pc[q] = "diffed"
  PROVE  /\ Written(q).status = copy[q].status
         /\ Written(q).external = copy[q].external
         /\ Written(q).rider = copy[q].rider
  BY DEF Inv, RowInv, SlotInv, FreshInv, Written, Columns

\* A request that did not move.
OthersKept(p) ==
  /\ (p \in stale) <=> (p \in stale')
  /\ pc'[p] = pc[p]
  /\ task'[p] = task[p]
  /\ copy'[p] = copy[p]
  /\ dirty'[p] = dirty[p]

\* A step that leaves the row alone, and the other requests too, needs to be
\* looked at for its own request only.
LEMMA FreshKept ==
  ASSUME Inv, FreshInv, NEW q \in Requests, UNCHANGED <<row, fulfillment>>,
         \A p \in Requests \ {q} : OthersKept(p),
         q \notin stale' =>
           /\ pc'[q] \in {"crediting", "saving", "diffed"} => Decided(row, copy'[q])
           /\ pc'[q] \in {"crediting", "saving", "diffed"} /\ task'[q] = "customer_cancel"
                => row.status \in CustomerCancellable
           /\ pc'[q] = "diffed" => dirty'[q] = {c \in Columns : copy'[q][c] # row[c]}
           /\ pc'[q] = "vetted" => row.status \in CustomerCancellable
           /\ pc'[q] = "arriving" => row.status = "out_for_delivery"
  PROVE  FreshInv'
<1>. SUFFICES ASSUME NEW p \in Requests \ stale' PROVE
       /\ pc'[p] \in {"crediting", "saving", "diffed"} => Decided(row, copy[p])'
       /\ pc'[p] \in {"crediting", "saving", "diffed"} /\ task'[p] = "customer_cancel"
            => row'.status \in CustomerCancellable
       /\ pc'[p] = "diffed" => dirty'[p] = {c \in Columns : copy'[p][c] # row'[c]}
       /\ pc'[p] = "vetted" => row'.status \in CustomerCancellable
       /\ pc'[p] = "arriving" => row'.status = "out_for_delivery"
  BY DEF FreshInv
<1>1. CASE p = q
  BY <1>1 DEF Decided
<1>2. CASE p # q
  BY <1>2 DEF FreshInv, Decided, OthersKept
<1>. QED
  BY <1>1, <1>2

\* The request that reads the row holds a decision on it.
LEMMA DecisionHeld ==
  ASSUME Inv, FreshInv, NEW q \in Requests, NEW job \in Tasks, NEW draft,
         NEW next \in {"saving", "crediting"},
         Hold(q, job, draft, next),
         q \notin stale => Decided(row, draft),
         q \notin stale /\ job = "customer_cancel" => row.status \in CustomerCancellable,
         UNCHANGED <<fulfillment, row>>
  PROVE  FreshInv'
<1>1. /\ \A p \in Requests \ {q} : OthersKept(p)
      /\ stale' = stale
      /\ pc'[q] = next /\ task'[q] = job /\ copy'[q] = draft
  BY DEF Hold, Inv, SlotInv, OthersKept
<1>. QED
  BY <1>1, FreshKept

\* The request that returns or moves on leaves the others as they are.
LEMMA FreshAfterFinish ==
  ASSUME Inv, FreshInv, NEW q \in Requests, Finish(q), UNCHANGED <<fulfillment, row>>
  PROVE  FreshInv'
<1>1. /\ \A p \in Requests \ {q} : OthersKept(p)
      /\ pc'[q] = "idle"
  BY DEF Finish, Overtaken, Inv, SlotInv, OthersKept
<1>. QED
  BY <1>1, FreshKept

\* Once the row has changed nobody in flight but q is fresh.
LEMMA FreshAfterWrite ==
  ASSUME Inv, FreshInv, NEW q \in Requests, row' # row,
         \/ Finish(q)
         \/ \E next \in {"goodwill", "owing"} : GoTo(q, next)
  PROVE  FreshInv'
<1>1. \A p \in Requests \ stale' : pc'[p] \in {"idle", "goodwill", "owing"}
  <2>1. CASE Finish(q)
    BY <2>1 DEF Finish, Overtaken, Inv, SlotInv
  <2>2. ASSUME NEW next \in {"goodwill", "owing"}, GoTo(q, next)
        PROVE  \A p \in Requests \ stale' : pc'[p] \in {"idle", "goodwill", "owing"}
    BY <2>2 DEF GoTo, Overtaken, Inv, SlotInv
  <2>. QED
    BY <2>1, <2>2
<1>. QED
  BY <1>1 DEF FreshInv

LEMMA FreshReading ==
  ASSUME Inv, FreshInv, NEW q \in Requests,
         \/ \E by \in Riders \cup {"staff"}, to \in Statuses : UpdateStatus(q, by, to)
         \/ \E r \in Riders : AssignRider(q, r)
         \/ BookCourier(q)
         \/ CancelCourier(q)
         \/ \E r \in Riders : EditOrder(q, r)
         \/ SetPrepVideo(q)
  PROVE  FreshInv'
<1>. USE NoRiderAssumption
<1>1. row \in Rows /\ fulfillment \in Fulfillments
  BY DEF Inv, RowInv
<1>2. ASSUME NEW by \in Riders \cup {"staff"}, NEW to \in Statuses, UpdateStatus(q, by, to)
      PROVE  FreshInv'
  <2>1. Decided(row, [row EXCEPT !.status = to])
    BY <1>1, <1>2 DEF UpdateStatus, Accepts, Decided, DispatchedIsCarried, Carried, Rows
  <2>. QED
    BY <1>2, <2>1, DecisionHeld DEF UpdateStatus, Tasks
<1>3. ASSUME NEW r \in Riders, AssignRider(q, r) PROVE FreshInv'
  <2>. DEFINE d == [row EXCEPT !.rider = r, !.external = FALSE, !.status = AssignedStatus(@)]
  <2>1. /\ row.status = "food_ready" => MayMove(row.status, "assigned_to_delivery", fulfillment)
        /\ d.status = row.status \/ (d.status = "assigned_to_delivery" /\ row.status = "food_ready")
    <3>1. /\ row.status \in Statuses /\ row.status \notin Terminal
          /\ fulfillment # "pickup"
          /\ d.status = AssignedStatus(row.status)
      BY <1>1, <1>3 DEF AssignRider, Rows
    <3>. HIDE DEF d
    <3>. QED
      BY <3>1 DEF AssignedStatus, MayMove, Transitions, Statuses, Terminal, Cooking, OnTheRoad
  <2>2. Decided(row, d)
    BY <1>1, <2>1 DEF Decided, DispatchedIsCarried, Carried, Rows
  <2>. QED
    BY <1>3, <2>2, DecisionHeld DEF AssignRider, Tasks
<1>4. ASSUME BookCourier(q) PROVE FreshInv'
  <2>. DEFINE d == [row EXCEPT !.rider = NoRider, !.external = TRUE, !.status = BookedStatus(@)]
  <2>1. /\ row.status = "food_ready" => MayMove(row.status, "assigned_to_delivery", fulfillment)
        /\ d.status = row.status \/ (d.status = "assigned_to_delivery" /\ row.status = "food_ready")
    BY <1>1, <1>4 DEF BookCourier, BookedStatus, MayMove, Transitions, Rows, Statuses
  <2>2. Decided(row, d)
    BY <1>1, <2>1 DEF Decided, DispatchedIsCarried, Carried, Rows
  <2>. QED
    BY <1>4, <2>2, DecisionHeld DEF BookCourier, Tasks
<1>5. ASSUME CancelCourier(q) PROVE FreshInv'
  <2>. DEFINE d == [row EXCEPT !.external = FALSE, !.status = RevertedStatus(@)]
  <2>1. Decided(row, d)
    BY <1>1, <1>5 DEF CancelCourier, RevertedStatus, Bookable, Decided, DispatchedIsCarried,
                      Carried, Rows, NeedsCarrier, OnTheRoad
  <2>. QED
    BY <1>5, <2>1, DecisionHeld DEF CancelCourier, Tasks
<1>6. ASSUME NEW r \in Riders, EditOrder(q, r) PROVE FreshInv'
  <2>1. Decided(row, [row EXCEPT !.rider = r])
    BY <1>1 DEF Decided, DispatchedIsCarried, Carried, Rows
  <2>. QED
    BY <1>6, <2>1, DecisionHeld DEF EditOrder, Tasks
<1>7. ASSUME SetPrepVideo(q) PROVE FreshInv'
  <2>1. Decided(row, row)
    BY DEF Decided
  <2>. QED
    BY <1>7, <2>1, DecisionHeld DEF SetPrepVideo, Tasks
<1>. QED
  BY <1>2, <1>3, <1>4, <1>5, <1>6, <1>7

LEMMA FreshMoving ==
  ASSUME Inv, FreshInv, NEW q \in Requests,
         \/ VetCustomerCancel(q)
         \/ CustomerCancel(q)
         \/ \E r \in Riders : RiderIsNear(q, r)
         \/ CreditRider(q)
         \/ Diff(q)
         \/ SaveRefused(q)
         \/ PayMakegood(q)
         \/ Abort(q)
  PROVE  FreshInv'
<1>1. CASE VetCustomerCancel(q)
  BY <1>1, FreshKept DEF OthersKept, VetCustomerCancel, GoTo, Overtaken, Inv, SlotInv
<1>2. CASE CustomerCancel(q)
  <2>1. CASE MayMove(row.status, "cancelled", fulfillment)
    <3>1. Decided(row, [row EXCEPT !.status = "cancelled"])
      BY <2>1 DEF Decided, DispatchedIsCarried, Inv, RowInv, Rows, NeedsCarrier, OnTheRoad
    <3>2. q \notin stale => row.status \in CustomerCancellable
      BY <1>2 DEF CustomerCancel, FreshInv
    <3>. QED
      BY <1>2, <2>1, <3>1, <3>2, DecisionHeld DEF CustomerCancel, Tasks
  <2>2. CASE ~ MayMove(row.status, "cancelled", fulfillment)
    BY <1>2, <2>2, FreshAfterFinish DEF CustomerCancel
  <2>. QED
    BY <2>1, <2>2
<1>3. ASSUME NEW r \in Riders, RiderIsNear(q, r) PROVE FreshInv'
  BY <1>3, FreshKept DEF OthersKept, RiderIsNear, GoTo, Overtaken, Inv, SlotInv
<1>4. CASE CreditRider(q)
  BY <1>4, FreshKept DEF OthersKept, CreditRider, GoTo, Overtaken, Inv, SlotInv, FreshInv
<1>5. CASE Diff(q)
  BY <1>5, FreshKept DEF OthersKept, Diff, Inv, SlotInv, FreshInv
<1>6. CASE SaveRefused(q) \/ PayMakegood(q) \/ Abort(q)
  BY <1>6, FreshAfterFinish DEF SaveRefused, PayMakegood, Abort
<1>. QED
  BY <1>1, <1>2, <1>3, <1>4, <1>5, <1>6

LEMMA FreshWriting ==
  ASSUME Inv, FreshInv, NEW q \in Requests,
         Save(q) \/ ClaimMakegood(q) \/ MarkArriving(q)
  PROVE  FreshInv'
<1>1. /\ Finish(q) \/ \E next \in {"goodwill", "owing"} : GoTo(q, next)
      /\ UNCHANGED fulfillment
  BY DEF Save, ClaimMakegood, MarkArriving
<1>2. CASE row' # row
  BY <1>1, <1>2, FreshAfterWrite
<1>3. CASE row' = row /\ Finish(q)
  BY <1>1, <1>3, FreshAfterFinish
<1>4. ASSUME row' = row, NEW next \in {"goodwill", "owing"}, GoTo(q, next) PROVE FreshInv'
  BY <1>1, <1>4, FreshKept DEF OthersKept, GoTo, Overtaken, Inv, SlotInv
<1>. QED
  BY <1>1, <1>2, <1>3, <1>4

LEMMA FreshInvariance == Spec => [](Inv /\ FreshInv)
<1>1. Init => FreshInv
  BY DEF Init, FreshInv
<1>2. Inv /\ FreshInv /\ [Next]_vars => FreshInv'
  <2>. SUFFICES ASSUME Inv, FreshInv, [Next]_vars PROVE FreshInv'
    OBVIOUS
  <2>1. CASE UNCHANGED vars
    BY <2>1 DEF vars, FreshInv, Decided
  <2>. QED
    BY <2>1, FreshReading, FreshMoving, FreshWriting DEF Next
<1>. QED
  BY <1>1, <1>2, Invariance, PTL DEF Spec

\* What a request not overtaken writes, on landing, is what it decided.
LEMMA Landing ==
  ASSUME Inv, FreshInv, [Next]_vars, NEW q \in Requests \ stale, Lands(q)
  PROVE  \/ row'.status = row.status /\ Carried(row') = Carried(row)
         \/ row.status = "out_for_delivery" /\ row' = [row EXCEPT !.status = "arriving_soon"]
         \/ /\ pc[q] = "diffed"
            /\ Decided(row, copy[q])
            /\ row'.status = copy[q].status /\ row'.external = copy[q].external
            /\ row'.rider = copy[q].rider
<1>1. CASE Save(q)
  <2>1. row' = Written(q) /\ pc[q] = "diffed"
    BY <1>1 DEF Save
  <2>. QED
    BY <2>1, WritesItsCopy DEF FreshInv
<1>2. CASE MarkArriving(q)
  BY <1>2 DEF MarkArriving, FreshInv
<1>3. CASE SaveRefused(q) \/ Abort(q)
  BY <1>3 DEF SaveRefused, Abort
<1>4. Save(q) \/ MarkArriving(q) \/ SaveRefused(q) \/ Abort(q)
  <2>1. PICK p \in Requests :
          \/ \E by \in Riders \cup {"staff"}, to \in Statuses : UpdateStatus(p, by, to)
          \/ VetCustomerCancel(p)
          \/ CustomerCancel(p)
          \/ \E r \in Riders : AssignRider(p, r)
          \/ BookCourier(p)
          \/ CancelCourier(p)
          \/ \E r \in Riders : EditOrder(p, r)
          \/ SetPrepVideo(p)
          \/ \E r \in Riders : RiderIsNear(p, r)
          \/ CreditRider(p)
          \/ Diff(p)
          \/ Save(p)
          \/ SaveRefused(p)
          \/ ClaimMakegood(p)
          \/ PayMakegood(p)
          \/ MarkArriving(p)
          \/ Abort(p)
    BY DEF Next, Lands, vars
  <2>2. p = q
    BY <2>1 DEF Lands, UpdateStatus, VetCustomerCancel, CustomerCancel, AssignRider,
         BookCourier, CancelCourier, EditOrder, SetPrepVideo, RiderIsNear, CreditRider,
         Diff, Save, SaveRefused, ClaimMakegood, PayMakegood, MarkArriving, Abort,
         Hold, GoTo, Finish, Inv, SlotInv
  <2>. QED
    BY <2>1, <2>2 DEF Lands, UpdateStatus, VetCustomerCancel, CustomerCancel, AssignRider,
         BookCourier, CancelCourier, EditOrder, SetPrepVideo, RiderIsNear, CreditRider,
         Diff, ClaimMakegood, PayMakegood
<1>. QED
  BY <1>1, <1>2, <1>3, <1>4

\* A handler that was not overtaken moves the status along the tables or
\* reverts a courier booking, for any number of requests in flight.
THEOREM FreshFollows == Spec => UndisturbedFollows
<1>1. Inv /\ FreshInv /\ [Next]_vars
        => [\A q \in Requests \ stale : Lands(q) => FollowsMachine]_vars
  <2>. SUFFICES ASSUME Inv, FreshInv, [Next]_vars, NEW q \in Requests \ stale, Lands(q)
                PROVE  FollowsMachine
    OBVIOUS
  <2>1. row \in Rows /\ fulfillment \in Fulfillments
    BY DEF Inv, RowInv
  <2>2. MayMove("out_for_delivery", "arriving_soon", "delivery")
    BY DEF MayMove, Transitions
  <2>3. row.status = "out_for_delivery" => fulfillment = "delivery"
    BY <2>1 DEF Inv, RowInv, Sound, SoundStatus, NeedsCarrier, OnTheRoad, Fulfillments
  <2>. QED
    BY <2>1, <2>2, <2>3, Landing DEF FollowsMachine, CourierRevert, Decided, Rows
<1>. QED
  BY <1>1, FreshInvariance, PTL DEF Spec, UndisturbedFollows

\* A handler that was not overtaken never leaves a dispatched order without a
\* carrier.
THEOREM FreshKeepsCarrier == Spec => CarrierKept
<1>1. Inv /\ FreshInv /\ [Next]_vars
        => [\A q \in Requests \ stale :
              Lands(q) /\ DispatchedIsCarried(row) => DispatchedIsCarried(row')]_vars
  <2>. SUFFICES ASSUME Inv, FreshInv, [Next]_vars, NEW q \in Requests \ stale, Lands(q),
                       DispatchedIsCarried(row)
                PROVE  DispatchedIsCarried(row')
    OBVIOUS
  <2>1. row \in Rows
    BY DEF Inv, RowInv
  <2>. QED
    BY <2>1, Landing DEF DispatchedIsCarried, Carried, Decided, Rows, NeedsCarrier, OnTheRoad
<1>. QED
  BY <1>1, FreshInvariance, PTL DEF Spec, CarrierKept

\* A customer's cancellation that was not overtaken lands before the kitchen
\* has started.
THEOREM FreshCancelsEarly == Spec => CustomerCancelsEarly
<1>1. Inv /\ FreshInv /\ [Next]_vars
        => [\A q \in Requests \ stale :
              task[q] = "customer_cancel" /\ Lands(q) /\ row'.status = "cancelled"
              => row.status \in (Cooking \ {"preparing_food"}) \cup {"cancelled"}]_vars
  <2>. SUFFICES ASSUME Inv, FreshInv, [Next]_vars, NEW q \in Requests \ stale, Lands(q),
                       task[q] = "customer_cancel", row'.status = "cancelled"
                PROVE  row.status \in (Cooking \ {"preparing_food"}) \cup {"cancelled"}
    OBVIOUS
  <2>1. row \in Rows
    BY DEF Inv, RowInv
  <2>2. pc[q] = "diffed" => row.status \in CustomerCancellable
    BY DEF FreshInv
  <2>. QED
    BY <2>1, <2>2, Landing DEF CustomerCancellable, Cooking, Rows
<1>. QED
  BY <1>1, FreshInvariance, PTL DEF Spec, CustomerCancelsEarly

\* A handler that nothing overtook between its SELECT and its save keeps the
\* machine, leaves the carrier of a dispatched order alone and cancels for
\* the customer only before the kitchen starts.
THEOREM FreshBehaves == Spec => UndisturbedBehaves
BY FreshFollows, FreshKeepsCarrier, FreshCancelsEarly DEF UndisturbedBehaves
=============================================================================

-------------------------- MODULE OrderLifecycle ---------------------------
(***************************************************************************)
(* One order row and the requests that change it concurrently.             *)
(*                                                                         *)
(* Every handler of orders.service.ts that changes an order reads the row  *)
(* with findOne, decides on that copy, and saves the copy several awaits   *)
(* later.  TypeORM's save is itself two statements: a SELECT that tells    *)
(* which columns of the copy differ from the database, then an UPDATE of   *)
(* those columns.  Requests interleave at each of these points; the only   *)
(* guard at the moment of writing is the trigger of the database, which    *)
(* refuses to move an order out of a terminal status.                      *)
(*                                                                         *)
(* A request that the code rejects takes no step.  The trips, payments and *)
(* notifications that follow a saved status have modules of their own.     *)
(***************************************************************************)
EXTENDS Naturals, OrderStatus

CONSTANTS
  Riders,     \* delivery partners
  NoRider,    \* delivery_partner_id IS NULL
  Requests    \* slots for requests in flight; a slot is reused when free

ASSUME NoRiderAssumption == NoRider \notin Riders

VARIABLES
  fulfillment,  \* orders.fulfillment, fixed at checkout
  row,          \* the order's row: status, rider, external courier, make-good claim
  earnings,     \* the rider of the order's rider_earnings row, or NoRider
  credits,      \* late make-good wallet credits paid for the order
  seen,         \* history variable: every status the row has had
  pc,           \* per request: what it does next
  task,         \* per request: what remains to be done after its save
  copy,         \* per request: the entity it read and has changed
  dirty,        \* per request: the columns its save found changed
  stale         \* history variable: the requests that read an older row

vars == <<fulfillment, row, earnings, credits, seen, pc, task, copy, dirty, stale>>

Columns == {"status", "rider", "external", "madeGood"}

Rows == [status : Statuses, rider : Riders \cup {NoRider},
         external : BOOLEAN, madeGood : BOOLEAN]

\* The row as checkout inserts it.
NewRow == [status |-> "order_received", rider |-> NoRider,
           external |-> FALSE, madeGood |-> FALSE]

Steps == {"idle", "vetted", "crediting", "saving", "diffed",
          "goodwill", "owing", "arriving"}

Tasks == {"edit", "deliver", "customer_cancel"}

Carried(r) == r.rider # NoRider \/ r.external

----------------------------------------------------------------------------
(* What a request does to its own slot.                                    *)

\* Whoever else is in flight when q changes the row has read an older one.
Overtaken(q) ==
  IF row' = row THEN stale ELSE {p \in Requests \ {q} : pc[p] # "idle"}

\* The request has read the row: it keeps draft, the copy it means to save.
Hold(q, job, draft, next) ==
  /\ pc' = [pc EXCEPT ![q] = next]
  /\ task' = [task EXCEPT ![q] = job]
  /\ copy' = [copy EXCEPT ![q] = draft]
  /\ UNCHANGED <<dirty, stale>>

GoTo(q, next) ==
  /\ pc' = [pc EXCEPT ![q] = next]
  /\ stale' = Overtaken(q)
  /\ UNCHANGED <<task, copy, dirty>>

\* The request returns or throws.
Finish(q) ==
  /\ pc' = [pc EXCEPT ![q] = "idle"]
  /\ task' = [task EXCEPT ![q] = "edit"]
  /\ copy' = [copy EXCEPT ![q] = NewRow]
  /\ dirty' = [dirty EXCEPT ![q] = {}]
  /\ stale' = Overtaken(q) \ {q}

----------------------------------------------------------------------------
(* Reading and deciding.                                                   *)

\* The checks of updateStatus on the row it read.  by is "staff" or the
\* rider of the token.  The open-QR, cash-limit and OTP checks only reject.
Accepts(by, to) ==
  /\ MayMove(row.status, to, fulfillment)
  /\ by \in Riders => row.rider = by /\ to \in RiderAllowed
  /\ to \in NeedsCarrier => Carried(row)

\* updateStatus, and the hand-over calls of TripsService.pickup.
UpdateStatus(q, by, to) ==
  /\ pc[q] = "idle"
  /\ Accepts(by, to)
  /\ Hold(q, IF to = "delivered" THEN "deliver" ELSE "edit",
          [row EXCEPT !.status = to],
          IF to = "delivered" /\ row.rider # NoRider THEN "crediting" ELSE "saving")
  /\ UNCHANGED <<fulfillment, row, earnings, credits, seen>>

\* cancelByCustomer looks at the status first ...
VetCustomerCancel(q) ==
  /\ pc[q] = "idle"
  /\ row.status \in CustomerCancellable
  /\ UNCHANGED <<fulfillment, row, earnings, credits, seen>>
  /\ GoTo(q, "vetted")

\* ... and then calls updateStatus, which reads the row again.
CustomerCancel(q) ==
  /\ pc[q] = "vetted"
  /\ UNCHANGED <<fulfillment, row, earnings, credits, seen>>
  /\ IF MayMove(row.status, "cancelled", fulfillment)
       THEN Hold(q, "customer_cancel", [row EXCEPT !.status = "cancelled"], "saving")
       ELSE Finish(q)

\* assignRider with the test for an order still cooking left out.
BugSkipsTheKitchen(s) ==
  IF s \in OnTheRoad THEN s ELSE "assigned_to_delivery"

\* assignRider moves a packed order; a cooking one is only reserved.
AssignedStatus(s) ==
  IF s \in Cooking \cup OnTheRoad THEN s ELSE "assigned_to_delivery"

AssignRider(q, r) ==
  /\ pc[q] = "idle"
  /\ row.status \notin Terminal
  /\ fulfillment # "pickup"
  /\ Hold(q, "edit",
          [row EXCEPT !.rider = r, !.external = FALSE,
                      !.status = AssignedStatus(@)],
          "saving")
  /\ UNCHANGED <<fulfillment, row, earnings, credits, seen>>

\* A booking that writes a status the rest of the code does not know.
BugUnknownStatus(s) == IF s = "food_ready" THEN "courier_booked" ELSE s

\* bookExternalCourier dispatches an order that is ready.
BookedStatus(s) == IF s = "food_ready" THEN "assigned_to_delivery" ELSE s

\* bookExternalCourier: a first booking, or new details of one on the road.
BookCourier(q) ==
  /\ pc[q] = "idle"
  /\ fulfillment # "pickup"
  /\ row.status \in Bookable \/ (row.external /\ row.status \in OnTheRoad)
  /\ Hold(q, "edit",
          [row EXCEPT !.rider = NoRider, !.external = TRUE,
                      !.status = BookedStatus(@)],
          "saving")
  /\ UNCHANGED <<fulfillment, row, earnings, credits, seen>>

\* A cancelled booking that leaves the order where it was.
BugNoRevert(s) == s

\* cancelExternalCourier puts an assigned order back to Ready.
RevertedStatus(s) == IF s = "assigned_to_delivery" THEN "food_ready" ELSE s

\* cancelExternalCourier, until the food has left.
CancelCourier(q) ==
  /\ pc[q] = "idle"
  /\ row.external
  /\ row.status \in Bookable
  /\ Hold(q, "edit",
          [row EXCEPT !.external = FALSE,
                      !.status = RevertedStatus(@)],
          "saving")
  /\ UNCHANGED <<fulfillment, row, earnings, credits, seen>>

\* update: the admin edits the order, its rider among other fields.
EditOrder(q, r) ==
  /\ pc[q] = "idle"
  /\ Hold(q, "edit", [row EXCEPT !.rider = r], "saving")
  /\ UNCHANGED <<fulfillment, row, earnings, credits, seen>>

\* setPrepVideo: a column of no interest here, but the whole copy is saved.
SetPrepVideo(q) ==
  /\ pc[q] = "idle"
  /\ Hold(q, "edit", row, "saving")
  /\ UNCHANGED <<fulfillment, row, earnings, credits, seen>>

\* updateLocation: a ping within a kilometre of the door.
RiderIsNear(q, r) ==
  /\ pc[q] = "idle"
  /\ row.rider = r
  /\ row.status = "out_for_delivery"
  /\ UNCHANGED <<fulfillment, row, earnings, credits, seen>>
  /\ GoTo(q, "arriving")

----------------------------------------------------------------------------
(* Writing.                                                                *)

\* The rider_earnings row is inserted before the save; order_id is unique.
CreditRider(q) ==
  /\ pc[q] = "crediting"
  /\ earnings' = IF earnings = NoRider THEN copy[q].rider ELSE earnings
  /\ UNCHANGED <<fulfillment, row, credits, seen>>
  /\ GoTo(q, "saving")

\* The SELECT of repo.save: which columns must be written?
Diff(q) ==
  /\ pc[q] = "saving"
  /\ dirty' = [dirty EXCEPT ![q] = {c \in Columns : copy[q][c] # row[c]}]
  /\ pc' = [pc EXCEPT ![q] = "diffed"]
  /\ UNCHANGED <<fulfillment, row, earnings, credits, seen, task, copy, stale>>

\* The row that the UPDATE of repo.save leaves.
Written(q) == [c \in Columns |-> IF c \in dirty[q] THEN copy[q][c] ELSE row[c]]

\* The database without the trigger, and with half of it.
BugNoTrigger(to) == FALSE
BugTriggerMissesCancelled(to) == row.status = "delivered" /\ to # "delivered"

\* orders_block_terminal_transition raises.
TriggerRaises(to) == row.status \in Terminal /\ to # row.status

Save(q) ==
  /\ pc[q] = "diffed"
  /\ ~ TriggerRaises(Written(q).status)
  /\ row' = Written(q)
  /\ seen' = seen \cup {Written(q).status}
  /\ IF task[q] = "deliver" /\ fulfillment # "pickup"
       THEN GoTo(q, "goodwill")
       ELSE Finish(q)
  /\ UNCHANGED <<fulfillment, earnings, credits>>

SaveRefused(q) ==
  /\ pc[q] = "diffed"
  /\ TriggerRaises(Written(q).status)
  /\ UNCHANGED <<fulfillment, row, earnings, credits, seen>>
  /\ Finish(q)

\* lateMakegood claims late_makegood_at in one conditional UPDATE ...
ClaimMakegood(q) ==
  /\ pc[q] = "goodwill"
  /\ IF row.madeGood
       THEN UNCHANGED row /\ Finish(q)
       ELSE row' = [row EXCEPT !.madeGood = TRUE] /\ GoTo(q, "owing")
  /\ UNCHANGED <<fulfillment, earnings, credits, seen>>

\* ... and the holder of the claim credits the wallet.
PayMakegood(q) ==
  /\ pc[q] = "owing"
  /\ credits' = credits + 1
  /\ UNCHANGED <<fulfillment, row, earnings, seen>>
  /\ Finish(q)

\* The UPDATE of updateLocation names the order only, not its status.
MarkArriving(q) ==
  /\ pc[q] = "arriving"
  /\ IF TriggerRaises("arriving_soon")
       THEN UNCHANGED <<row, seen>>
       ELSE /\ row' = [row EXCEPT !.status = "arriving_soon"]
            /\ seen' = seen \cup {"arriving_soon"}
  /\ Finish(q)
  /\ UNCHANGED <<fulfillment, earnings, credits>>

\* A later check rejects, a statement fails, no make-good is due, or the
\* process restarts.
Abort(q) ==
  /\ pc[q] # "idle"
  /\ UNCHANGED <<fulfillment, row, earnings, credits, seen>>
  /\ Finish(q)

----------------------------------------------------------------------------
Init ==
  /\ fulfillment \in Fulfillments
  /\ row = NewRow
  /\ earnings = NoRider
  /\ credits = 0
  /\ seen = {"order_received"}
  /\ pc = [q \in Requests |-> "idle"]
  /\ task = [q \in Requests |-> "edit"]
  /\ copy = [q \in Requests |-> NewRow]
  /\ dirty = [q \in Requests |-> {}]
  /\ stale = {}

Next == \E q \in Requests :
  \/ \E by \in Riders \cup {"staff"}, to \in Statuses : UpdateStatus(q, by, to)
  \/ VetCustomerCancel(q)
  \/ CustomerCancel(q)
  \/ \E r \in Riders : AssignRider(q, r)
  \/ BookCourier(q)
  \/ CancelCourier(q)
  \/ \E r \in Riders : EditOrder(q, r)
  \/ SetPrepVideo(q)
  \/ \E r \in Riders : RiderIsNear(q, r)
  \/ CreditRider(q)
  \/ Diff(q)
  \/ Save(q)
  \/ SaveRefused(q)
  \/ ClaimMakegood(q)
  \/ PayMakegood(q)
  \/ MarkArriving(q)
  \/ Abort(q)

Spec == Init /\ [][Next]_vars

----------------------------------------------------------------------------
\* Every variable has its type; a request holds a row as a copy.
TypeOK ==
  /\ fulfillment \in Fulfillments
  /\ row \in Rows
  /\ earnings \in Riders \cup {NoRider}
  /\ credits \in Nat
  /\ seen \subseteq Statuses
  /\ pc \in [Requests -> Steps]
  /\ task \in [Requests -> Tasks]
  /\ copy \in [Requests -> Rows]
  /\ dirty \in [Requests -> SUBSET Columns]
  /\ stale \subseteq Requests

\* What must be packed before it can happen.
Packed == {"assigned_to_delivery", "delivered"} \cup OnTheRoad

\* However stale the copies that are saved, an order is dispatched or
\* delivered only after the kitchen has marked it ready.
KitchenFirst == row.status \in Packed => "food_ready" \in seen

\* A delivery is completed, and a rider paid for it, only after the food has
\* left with someone, whichever requests raced on the way.
HandoverFirst ==
  fulfillment = "delivery"
    /\ (row.status \in {"arriving_soon", "delivered"} \/ earnings # NoRider)
  => "out_for_delivery" \in seen

\* A takeaway order is never dispatched: no courier, no status of a dispatch.
PickupStaysHome ==
  fulfillment = "pickup" => ~ row.external /\ row.status \notin NeedsCarrier

\* No save, however stale, brings a delivered or cancelled order back: what
\* order-status.machine.ts calls TERMINAL.
TerminalIsFinal == [][row.status \in Terminal => row'.status = row.status]_vars

\* Refuted (README): lateness is made good at most once per order (lateMakegood: "can never
\* pay twice").
MakegoodOnce == credits <= 1

\* The one backward step the code takes on purpose.
CourierRevert ==
  /\ row.status = "assigned_to_delivery" /\ row'.status = "food_ready"
  /\ row.external /\ ~ row'.external

FollowsMachine ==
  \/ row'.status = row.status
  \/ MayMove(row.status, row'.status, fulfillment)
  \/ CourierRevert

\* Refuted (README): the status moves only along the tables, apart from a cancelled courier
\* booking ("the lifecycle is a state machine, not a free-for-all").
StepsFollowMachine == [][FollowsMachine]_vars

\* The request writes what it decided on.
Lands(q) == pc[q] \in {"diffed", "arriving"} /\ pc'[q] # pc[q]

\* What of it holds: no handler, not those that bypass assertTransition
\* either, takes a step outside the tables unless it was overtaken.
UndisturbedFollows == [][\A q \in Requests \ stale : Lands(q) => FollowsMachine]_vars

\* A dispatched order has someone carrying it.
DispatchedIsCarried(r) == r.status \in NeedsCarrier => Carried(r)

\* A request that was not overtaken leaves no dispatched order without a
\* carrier: the check of updateStatus "prevents the out_for_delivery with
\* NULL rider bug", and bookings, reversals and edits keep to it.
CarrierKept ==
  [][\A q \in Requests \ stale :
       Lands(q) /\ DispatchedIsCarried(row) => DispatchedIsCarried(row')]_vars

\* A customer's cancellation that was not overtaken since its first look lands
\* only before the kitchen has started (cancelByCustomer: "Allowed only before
\* the kitchen has started cooking").
CustomerCancelsEarly ==
  [][\A q \in Requests \ stale :
       task[q] = "customer_cancel" /\ Lands(q) /\ row'.status = "cancelled"
       => row.status \in (Cooking \ {"preparing_food"}) \cup {"cancelled"}]_vars

\* All that holds of a request nobody overtook.
UndisturbedBehaves == UndisturbedFollows /\ CarrierKept /\ CustomerCancelsEarly

\* The order as OrderPromise sees it.
Promise == INSTANCE OrderPromise WITH
  Kinds   <- Fulfillments,
  kind    <- fulfillment,
  packed  <- "food_ready" \in seen,
  left    <- "out_for_delivery" \in seen,
  outcome <- IF row.status \in Terminal THEN row.status ELSE "open"

\* The racing requests together keep the promise: every step of theirs is a
\* step of OrderPromise or leaves the order as it was.
KeepsPromise == Promise!Spec
=============================================================================

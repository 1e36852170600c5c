------------------------------- MODULE Watch -------------------------------
(***************************************************************************)
(* Promises and apologies: an order is promised a time after checkout has  *)
(* committed it (orders.service.ts, stampPromise; the range is Eta's); the *)
(* background loop of dispatch.service.ts, on every instance of the API    *)
(* but behind one advisory lock, relearns the time model, apologises once  *)
(* to a customer whose order runs late (delayAlerts) and alerts the        *)
(* kitchen (notify.service.ts, watch).                                     *)
(*                                                                         *)
(* The loop's autoDispatch pass is Dispatch, messages from the queue on    *)
(* are Outbox, and shared trips (whose earlier drops lengthen the live     *)
(* estimate) are Trips.                                                    *)
(***************************************************************************)
EXTENDS Promises

CONSTANTS
  Pods,               \* instances of the API
  RiderPace,          \* minutes per km, from settings.avgRiderKmph
  NotAcceptedMin,     \* cfg.notAcceptedMin
  ReadyNoCarrierMin,  \* cfg.readyNoCarrierMin
  Moments,            \* bound: per cart, the minutes at which something may happen,
                      \*   besides 0
  MaxFaults           \* bound: database errors, restarts, broken connections

\* What an instance has cached of eta_stats is out of date at the next moment, and
\* nothing is learnt twice (12 hours).
ASSUME MomentsAssumption ==
  /\ Moments \in [Carts -> SUBSET (1..719)]
  /\ \A s, t \in {0} \cup UNION {Moments[c] : c \in Carts} : s < t => t - s > 5

VARIABLES
  learnt,   \* whether eta_stats was ever computed
  queue,    \* dedupe keys of notification_outbox
  lock,     \* the pod whose connection holds the advisory lock, or "free"
  at,       \* per pod: where its tick is
  todo,     \* per pod: orders delayAlerts has listed and not yet looked at
  faults

kitchen == <<now, row, checkout>>
tables == <<stats, learnt, cached>>
loop == <<lock, at, todo, tables>>
vars == <<kitchen, loop, queue, apologies, lost, faults>>

Init ==
  /\ now = 0 /\ row = [o \in Orders |-> NotPlaced] /\ checkout = [o \in Orders |-> "none"]
  /\ stats = {} /\ learnt = FALSE /\ cached = {{}}
  /\ queue = {} /\ lock = "free"
  /\ at = [p \in Pods |-> "idle"] /\ todo = [p \in Pods |-> <<>>]
  /\ apologies = [o \in Orders |-> 0] /\ lost = {} /\ faults = 0

----------------------------------------------------------------------------
(* Checkout, from its COMMIT on.                                           *)

Place(o) ==
  /\ o \notin Placed
  /\ \E c \in Carts :
       /\ now \in {0} \cup Moments[c]
       /\ row' = [row EXCEPT ![o] = Row(c, "order_received", now)]
  /\ checkout' = [checkout EXCEPT ![o] = "stamp"]
  /\ UNCHANGED <<now, loop, queue, apologies, lost, faults>>

\* stampPromise: the high end is the promise, counted from placing.
Stamp(o) ==
  /\ checkout[o] = "stamp"
  /\ \E table \in cached :
       row' = [row EXCEPT ![o].eta = Promise(o, table).max,
                          ![o].promised = row[o].placed + Promise(o, table).max]
  /\ checkout' = [checkout EXCEPT ![o] = "announce"]
  /\ UNCHANGED <<now, loop, queue, apologies, lost, faults>>

\* notify.orderPlaced: the customer and the kitchen.
Announce(o) ==
  /\ checkout[o] = "announce"
  /\ queue' = queue \cup {<<"order_placed", o>>, <<"new_order", o>>}
  /\ checkout' = [checkout EXCEPT ![o] = "none"]
  /\ UNCHANGED <<now, row, loop, apologies, lost, faults>>

\* The ETA fails (caught: no promise), or the server stops after COMMIT.
CheckoutBreaks(o) ==
  /\ checkout[o] # "none" /\ faults < MaxFaults
  /\ faults' = faults + 1
  /\ checkout' = [checkout EXCEPT ![o] = IF @ = "stamp" THEN "announce" ELSE "none"]
  /\ UNCHANGED <<now, row, loop, queue, apologies, lost>>

----------------------------------------------------------------------------
(* The order goes its way (OrderLifecycle has it in full).                 *)

Stamped(r, to) ==
  [r EXCEPT !.status = to,
            !.accepted = IF to \in {"order_confirmed", "preparing_food"} /\ @ = NoTime
                         THEN now ELSE @,
            !.ready  = IF to = "food_ready" /\ @ = NoTime THEN now ELSE @,
            !.picked = @ \/ to = "out_for_delivery"]

\* statusLine: what the customer hears of.
Newsworthy(to, pickup) ==
  to \in {"preparing_food", "delivered", "cancelled",
          IF pickup THEN "food_ready" ELSE "out_for_delivery"}

Move(o, to) ==
  /\ o \in Placed
  /\ MayMove(row[o].status, to, IF row[o].cart.pickup THEN "pickup" ELSE "delivery")
  /\ to \in NeedsCarrier => row[o].carried
  /\ row' = [row EXCEPT ![o] = Stamped(@, to)]
  /\ queue' = IF Newsworthy(to, row[o].cart.pickup) THEN queue \cup {<<to, o>>} ELSE queue
  /\ UNCHANGED <<now, checkout, loop, apologies, lost, faults>>

\* A rider is assigned: at once on the way if the food is ready.
Carry(o) ==
  /\ o \in Placed
  /\ ~ row[o].cart.pickup /\ ~ row[o].carried /\ row[o].status \notin Terminal
  /\ row' = [row EXCEPT ![o].carried = TRUE,
                        ![o].status = IF @ = "food_ready" THEN "assigned_to_delivery" ELSE @]
  /\ UNCHANGED <<now, checkout, loop, queue, apologies, lost, faults>>

\* The rider's phone reports its place on the way from the kitchen to the door.
Ping(o) ==
  /\ o \in Placed
  /\ row[o].carried /\ row[o].status \notin Terminal
  /\ \E km \in 0..row[o].cart.km : row' = [row EXCEPT ![o].spot = km]
  /\ UNCHANGED <<now, checkout, loop, queue, apologies, lost, faults>>

Tick ==
  /\ \E c \in Carts : \E t \in Moments[c] : t > now /\ now' = t
  /\ \A o \in Placed : now' \in Moments[row[o].cart]
  /\ cached' = {stats}
  /\ UNCHANGED <<row, checkout, lock, at, todo, stats, learnt, queue, apologies, lost, faults>>

----------------------------------------------------------------------------
(* The live estimate.                                                      *)

\* What is left of the cooking, counted from acceptance, else from placing.
PrepLeft(r) ==
  LET since == IF r.accepted = NoTime THEN r.placed ELSE r.accepted
  IN  Max({0, AvgPrepMinutes - (now - since)})

\* track: from where the food is; the saved number for an order that is over
\* or has no pin.
LiveEta(r) ==
  CASE r.status \in Terminal \/ r.cart.km = NoKm -> r.eta
    [] r.status \notin Terminal /\ r.cart.km # NoKm /\ r.picked /\ r.spot # NoKm ->
         Max({1, (r.cart.km - r.spot) * RiderPace})
    [] OTHER -> Max({1, (Max({0, r.spot}) + r.cart.km) * RiderPace + PrepLeft(r)})

\* isDelayed.
Delayed(r) == LiveEta(r) # NoTime /\ now + LiveEta(r) > r.promised + cfg.delayAlert

\* A list that leaves out the orders close to the door.
BugWatched(r) ==
  /\ r.status \in {"order_confirmed", "preparing_food", "food_ready", "assigned_to_delivery"}
  /\ ~ r.cart.pickup /\ r.promised # NoTime /\ ~ r.apologised

\* What delayAlerts lists.
Watched(r) ==
  /\ r.status \in Statuses \ (Terminal \cup {"order_received"})
  /\ ~ r.cart.pickup /\ r.promised # NoTime /\ ~ r.apologised

----------------------------------------------------------------------------
(* The loop.                                                               *)

Goto(p, where) == at' = [at EXCEPT ![p] = where]

Next1(p) == todo' = [todo EXCEPT ![p] = Tail(@)] /\ Goto(p, "look")

TryLock(p) ==
  /\ at[p] = "idle" /\ lock = "free"
  /\ lock' = p
  /\ Goto(p, IF learnt THEN "list" ELSE "learn")
  /\ UNCHANGED <<kitchen, todo, tables, queue, apologies, lost, faults>>

\* What recompute may find.
Tables == {Learned(rows) : rows \in Histories}

\* recompute; not again within the 12 hours that follow.
Learn(p) ==
  /\ at[p] = "learn"
  /\ stats' \in Tables /\ cached' = cached \cup {stats'}
  /\ learnt' = TRUE
  /\ Goto(p, "list")
  /\ UNCHANGED <<kitchen, lock, todo, queue, apologies, lost, faults>>

\* Orders of a set by their promise; the query leaves ties to the database.
Listings(S) ==
  {s \in SetToSeqs(S) : \A i, j \in DOMAIN s : i < j => row[s[i]].promised <= row[s[j]].promised}

\* LIMIT.
ListLimit == 100

First(s) == SubSeq(s, 1, Min({Len(s), ListLimit}))

List(p) ==
  /\ at[p] = "list"
  /\ \E s \in Listings({o \in Placed : Watched(row[o])}) : todo' = [todo EXCEPT ![p] = First(s)]
  /\ Goto(p, "look")
  /\ UNCHANGED <<kitchen, lock, tables, queue, apologies, lost, faults>>

Look(p) ==
  /\ at[p] = "look" /\ todo[p] # <<>>
  /\ IF Delayed(row[Head(todo[p])]) THEN Goto(p, "claim") /\ UNCHANGED todo ELSE Next1(p)
  /\ UNCHANGED <<kitchen, lock, tables, queue, apologies, lost, faults>>

\* The claim's UPDATE without AND delay_notified_at IS NULL.
BugMine(o) == TRUE

Mine(o) == ~ row[o].apologised

\* UPDATE ... WHERE delay_notified_at IS NULL RETURNING id.
Claim(p) ==
  /\ at[p] = "claim"
  /\ LET o == Head(todo[p]) IN
     IF Mine(o) THEN /\ row' = [row EXCEPT ![o].apologised = TRUE]
                     /\ Goto(p, "tell") /\ UNCHANGED todo
     ELSE Next1(p) /\ UNCHANGED row
  /\ UNCHANGED <<now, checkout, lock, tables, queue, apologies, lost, faults>>

\* The notification, and WhatsApp to the customer and the kitchen.
Tell(p) ==
  /\ at[p] = "tell"
  /\ LET o == Head(todo[p]) IN
     /\ apologies' = [apologies EXCEPT ![o] = @ + 1]
     /\ queue' = queue \cup {<<"delayed", o>>, <<"late", o>>}
  /\ Next1(p)
  /\ UNCHANGED <<kitchen, lock, tables, lost, faults>>

\* What is older than this no longer alerts: interval '6 hours'.
AlertWindow == 360

\* Long enough ago to alert, and not too long.
Overdue(since, minutes) == since < now - minutes /\ since > now - AlertWindow

\* notify.watch's first query.
Unaccepted(o) == row[o].status = "order_received" /\ Overdue(row[o].placed, NotAcceptedMin)

WatchAccept(p) ==
  /\ at[p] = "look" /\ todo[p] = <<>>
  /\ queue' = queue \cup {<<"not_accepted", o>> : o \in {w \in Placed : Unaccepted(w)}}
  /\ Goto(p, "ready")
  /\ UNCHANGED <<kitchen, lock, todo, tables, apologies, lost, faults>>

\* A query that forgets that a ready takeaway needs no rider, and the reverse.
BugStranded(o) ==
  /\ row[o].status = "food_ready" /\ row[o].cart.pickup
  /\ row[o].ready # NoTime /\ Overdue(row[o].ready, ReadyNoCarrierMin)

\* notify.watch's second query.
Stranded(o) ==
  /\ row[o].status = "food_ready" /\ ~ row[o].cart.pickup /\ ~ row[o].carried
  /\ row[o].ready # NoTime /\ Overdue(row[o].ready, ReadyNoCarrierMin)

WatchReady(p) ==
  /\ at[p] = "ready"
  /\ queue' = queue \cup {<<"ready", o>> : o \in {w \in Placed : Stranded(w)}}
  /\ Goto(p, "unlock")
  /\ UNCHANGED <<kitchen, lock, todo, tables, apologies, lost, faults>>

\* The lock is free again, unless another connection has it.
Released(p) == IF lock = p THEN "free" ELSE lock

\* finally.
Unlock(p) ==
  /\ at[p] = "unlock"
  /\ lock' = Released(p)
  /\ Goto(p, "idle")
  /\ UNCHANGED <<kitchen, todo, tables, queue, apologies, lost, faults>>

----------------------------------------------------------------------------
(* What goes wrong.                                                        *)

\* An apology that has been claimed and not told is lost.
Forgotten(p) == IF at[p] = "tell" THEN lost \cup {Head(todo[p])} ELSE lost

\* A statement fails: within the list the order is skipped, else the tick ends.
Fail(p) ==
  /\ at[p] \notin {"idle", "unlock"} /\ faults < MaxFaults
  /\ faults' = faults + 1
  /\ lost' = Forgotten(p)
  /\ IF at[p] \in {"look", "claim", "tell"} /\ todo[p] # <<>> THEN Next1(p)
     ELSE Goto(p, "unlock") /\ UNCHANGED todo
  /\ UNCHANGED <<kitchen, lock, tables, queue, apologies>>

\* The process restarts; its connection, and with it the lock, is gone.
Restart(p) ==
  /\ at[p] # "idle" /\ faults < MaxFaults
  /\ faults' = faults + 1
  /\ lost' = Forgotten(p)
  /\ lock' = Released(p)
  /\ todo' = [todo EXCEPT ![p] = <<>>]
  /\ Goto(p, "idle")
  /\ UNCHANGED <<kitchen, tables, queue, apologies>>

\* The lock's connection breaks; the tick goes on over others of the pool.
Disconnect(p) ==
  /\ lock = p /\ faults < MaxFaults
  /\ faults' = faults + 1
  /\ lock' = "free"
  /\ UNCHANGED <<kitchen, at, todo, tables, queue, apologies, lost>>

----------------------------------------------------------------------------
Pod(p) ==
  \/ TryLock(p) \/ Learn(p) \/ List(p) \/ Look(p) \/ Claim(p) \/ Tell(p)
  \/ WatchAccept(p) \/ WatchReady(p) \/ Unlock(p)

Next ==
  \/ \E o \in Orders : Place(o) \/ Stamp(o) \/ Announce(o) \/ CheckoutBreaks(o)
                         \/ Carry(o) \/ Ping(o)
  \/ \E o \in Orders, to \in Statuses : Move(o, to)
  \/ Tick
  \/ \E p \in Pods : Pod(p)
  \/ \E p \in Pods : Fail(p) \/ Restart(p) \/ Disconnect(p)

\* setInterval calls tick every 30 seconds on every pod, and a statement ends.
Spec == Init /\ [][Next]_vars /\ \A p \in Pods : WF_vars(Pod(p))

----------------------------------------------------------------------------
(* Properties.                                                             *)

\* An order that stays late on its way is apologised for: another pod, or the
\* next tick, takes over whatever broke off before the claim.
LateIsTold ==
  \A o \in Orders :
    []<>(\/ o \notin Placed \/ row[o].status \in {"order_received"} \cup Terminal
         \/ row[o].cart.pickup \/ row[o].promised = NoTime \/ ~ Delayed(row[o])
         \/ apologies[o] > 0 \/ o \in lost)

\* Food that nobody comes for, and an order nobody accepts, reach the kitchen, for
\* as long as the six hours of the queries have not passed; after that an order
\* no pass has found is never alerted.
KitchenHears ==
  \A o \in Orders :
    /\ []<>(o \notin Placed \/ ~ Unaccepted(o) \/ <<"not_accepted", o>> \in queue)
    /\ []<>(\/ o \notin Placed \/ row[o].status # "food_ready" \/ row[o].cart.pickup
            \/ row[o].carried \/ ~ Overdue(row[o].ready, ReadyNoCarrierMin)
            \/ <<"ready", o>> \in queue)
=============================================================================

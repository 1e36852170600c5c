------------------------------- MODULE Blast -------------------------------
(***************************************************************************)
(* One coupon sent to many customers (coupon-blast.service.ts), while the  *)
(* office gives it by hand and takes it back (coupon_assignments.service)  *)
(* and the customers spend it.                                             *)
(*                                                                         *)
(* One request handles one batch: it reads the first customers of the      *)
(* segment who have no row of coupon_assignments, then assigns and mails   *)
(* them one by one, each statement on its own.  The admin's screen repeats *)
(* the request until nobody is left.  No lock is taken, so a second click  *)
(* may read the same customers; but (coupon, user) is unique in the table, *)
(* so the second INSERT fails, and the request with it.                    *)
(***************************************************************************)
EXTENDS Integers, FiniteSets, FiniteSetsExt

CONSTANTS
  N,           \* customers with an address, 1 .. N in the order of users.id
  Clicks,      \* requests of the admin's screen that may run at once
  Segments,    \* instance: the segments asked for,
  Asked,       \*   and the batch sizes
  MaxEvents    \* bound: gifts by hand, rows taken back, requests cut off, orders,
               \*   lapses and coupons switched off, together

ASSUME BlastAssumption == N \in Nat \ {0} /\ Asked \subseteq Int /\ MaxEvents \in Nat

VARIABLES
  active,      \* coupons.is_active
  gift,        \* per customer: the row of coupon_assignments, unused or used
  orders,      \* per customer: "none", "recent" (30 days), "old"
  batch,       \* per click: its step, who is left, who failed
  hand,        \* the gift by hand in progress: its step, and for whom
  mails,       \* per customer: mails of the campaign that arrived; 2 is "2 or more"
  told,        \* history variable: customers an answer named as failed, or who were
               \*   given the coupon by hand
  lost,        \* history variable: customers whose mail had failed, or was due, when
               \*   their request was cut off
  dropped,     \* history variable: customers whose mail had failed when their request
               \*   ran into the row of another
  taken,       \* history variable: customers a row was taken from
  crossed,     \* history variable: picked by two requests at a time
  events       \* of MaxEvents

history == <<told, lost, dropped, taken, crossed>>
vars == <<active, gift, orders, batch, hand, mails, history, events>>

Users == 1..N

Event == events < MaxEvents /\ events' = events + 1

Idle == [step |-> "idle", left |-> {}, failed |-> {}]

NoGift == [step |-> "idle", to |-> 0]

Init ==
  /\ active = TRUE /\ orders = [u \in Users |-> "none"]
  /\ gift = [u \in Users |-> "none"]
  /\ batch = [k \in Clicks |-> Idle] /\ hand = NoGift
  /\ mails = [u \in Users |-> 0] /\ events = 0
  /\ told = {} /\ lost = {} /\ dropped = {} /\ taken = {} /\ crossed = {}

----------------------------------------------------------------------------
(* Who is asked.                                                           *)

InSegment(u, segment) ==
  CASE segment = "all" -> TRUE
    [] segment = "never_ordered" -> orders[u] = "none"
    [] segment = "lapsed_30" -> orders[u] = "old"
    [] segment = "recent_30" -> orders[u] = "recent"

Remaining(segment) == {u \in Users : InSegment(u, segment) /\ gift[u] = "none"}

BatchLimit(asked) == IF asked = 0 THEN 25 ELSE Min({Max({1, asked}), 100})

\* ORDER BY u.id LIMIT.
Picked(segment, asked) ==
  {u \in Remaining(segment) :
     Cardinality({v \in Remaining(segment) : v < u}) < BatchLimit(asked)}

\* The customer a request is at: it goes through them by id.
At(k) == Min(batch[k].left)

\* Customers a request has read the rows of, and not written yet.
Unwritten(k) == batch[k].left \ IF batch[k].step = "mail" THEN {At(k)} ELSE {}

Pending == ({hand.to} \cap Users) \cup UNION {Unwritten(k) : k \in Clicks}

----------------------------------------------------------------------------
(* A batch.                                                                *)

Click(k, segment, asked) ==
  LET users == Picked(segment, asked)
  IN /\ batch[k] = Idle /\ active /\ users # {}
     /\ batch' = [batch EXCEPT ![k] = [step |-> "assign", left |-> users, failed |-> {}]]
     /\ crossed' = crossed \cup (users \cap Pending)
     /\ UNCHANGED <<active, gift, orders, hand, mails, told, lost, dropped, taken, events>>

\* A row that is there already is passed over, and the customer mailed.
BugAssign(k) ==
  /\ batch[k].step = "assign" /\ batch[k].left # {}
  /\ gift' = [gift EXCEPT ![At(k)] = IF @ = "none" THEN "unused" ELSE @]
  /\ batch' = [batch EXCEPT ![k].step = "mail"]
  /\ UNCHANGED <<active, orders, hand, mails, history, events>>

\* "Assign first": the row goes in before the mail, unless somebody else's is there.
Insert(k) ==
  /\ gift[At(k)] = "none"
  /\ gift' = [gift EXCEPT ![At(k)] = "unused"]
  /\ batch' = [batch EXCEPT ![k].step = "mail"]
  /\ UNCHANGED dropped

\* UNIQUE (coupon_id, user_id): the request fails, the rest of its batch is not
\* done, and nobody learns which of its mails had failed.
Collide(k) ==
  /\ gift[At(k)] # "none"
  /\ dropped' = dropped \cup batch[k].failed
  /\ batch' = [batch EXCEPT ![k] = Idle]
  /\ UNCHANGED gift

Assign(k) ==
  /\ batch[k].step = "assign" /\ batch[k].left # {}
  /\ Insert(k) \/ Collide(k)
  /\ UNCHANGED <<active, orders, hand, mails, told, lost, taken, crossed, events>>

\* What came of a mail: it arrived, it failed, or it arrived and the answer did not.
Outcomes == [arrived : BOOLEAN, ok : BOOLEAN] \ {[arrived |-> FALSE, ok |-> TRUE]}

\* A failed mail is only logged.
BugFailedAfter(k, outcome) == batch[k].failed

FailedAfter(k, outcome) ==
  batch[k].failed \cup IF outcome.ok THEN {} ELSE {At(k)}

\* A failed mail takes the row back, for the next batch to try again.
BugMail(k) ==
  LET u == At(k)
  IN /\ batch[k].step = "mail"
     /\ batch' = [batch EXCEPT ![k] = [@ EXCEPT !.step = "assign", !.left = @ \ {u}]]
     /\ \/ mails' = [mails EXCEPT ![u] = Min({2, @ + 1})] /\ UNCHANGED gift
        \/ gift' = [gift EXCEPT ![u] = "none"] /\ UNCHANGED mails
     /\ UNCHANGED <<active, orders, hand, history, events>>

Mail(k) ==
  /\ batch[k].step = "mail"
  /\ \E outcome \in Outcomes :
       /\ batch' = [batch EXCEPT ![k] = [step |-> "assign", left |-> Unwritten(k),
                                         failed |-> FailedAfter(k, outcome)]]
       /\ mails' = [mails EXCEPT ![At(k)] =
                      IF outcome.arrived THEN Min({2, @ + 1}) ELSE @]
  /\ UNCHANGED <<active, gift, orders, hand, history, events>>

Answer(k) ==
  /\ batch[k].step = "assign" /\ batch[k].left = {}
  /\ told' = told \cup batch[k].failed
  /\ batch' = [batch EXCEPT ![k] = Idle]
  /\ UNCHANGED <<active, gift, orders, hand, mails, lost, dropped, taken, crossed, events>>

\* The process stops, a statement fails, or the request timed out on its way and
\* nobody reads the answer: what was done stays, and is not told.
Cut(k) ==
  /\ batch[k] # Idle /\ Event
  /\ lost' = lost \cup batch[k].failed
                  \cup IF batch[k].step = "mail" THEN {At(k)} ELSE {}
  /\ batch' = [batch EXCEPT ![k] = Idle]
  /\ UNCHANGED <<active, gift, orders, hand, mails, told, dropped, taken, crossed>>

----------------------------------------------------------------------------
(* By hand.                                                                *)

\* create looks for the row of the two: an unused one refuses the gift.
Give(u) ==
  /\ hand = NoGift /\ Event
  /\ \/ /\ gift[u] = "none"
        /\ hand' = [step |-> "insert", to |-> u]
        /\ crossed' = crossed \cup ({u} \cap Pending)
     \/ gift[u] = "used" /\ hand' = [step |-> "reset", to |-> u] /\ UNCHANGED crossed
  /\ UNCHANGED <<active, gift, orders, batch, mails, told, lost, dropped, taken>>

\* The row is reset or inserted; the insert fails where a batch has put one.
SaveGift ==
  LET u == hand.to
  IN /\ hand # NoGift /\ hand' = NoGift
     /\ \/ /\ hand.step = "reset" \/ gift[u] = "none"
           /\ gift' = [gift EXCEPT ![u] = "unused"] /\ told' = told \cup {u}
        \/ hand.step = "insert" /\ gift[u] # "none" /\ UNCHANGED <<gift, told>>
     /\ UNCHANGED <<active, orders, batch, mails, lost, dropped, taken, crossed, events>>

\* remove.  Saving a row that has gone in between is an insert.
Take(u) ==
  /\ Event /\ gift[u] # "none" /\ gift' = [gift EXCEPT ![u] = "none"]
  /\ hand' = IF hand.to = u THEN [step |-> "insert", to |-> u] ELSE hand
  /\ taken' = taken \cup {u}
  /\ UNCHANGED <<active, orders, batch, mails, told, lost, dropped, crossed>>

----------------------------------------------------------------------------
(* Meanwhile.                                                              *)

\* A checkout, which may use up the gift: one transaction, interleaved in Rewards.
Order(u) ==
  /\ Event /\ orders' = [orders EXCEPT ![u] = "recent"]
  /\ \/ UNCHANGED gift
     \/ active /\ gift[u] = "unused" /\ gift' = [gift EXCEPT ![u] = "used"]
  /\ UNCHANGED <<active, batch, hand, mails, history>>

\* Thirty days without an order.
Lapse(u) ==
  /\ Event /\ orders[u] = "recent" /\ orders' = [orders EXCEPT ![u] = "old"]
  /\ UNCHANGED <<active, gift, batch, hand, mails, history>>

\* The coupon is switched off: batches under way read is_active before, and go on.
Retire ==
  /\ Event /\ active /\ active' = FALSE
  /\ UNCHANGED <<gift, orders, batch, hand, mails, history>>

ClickAny(k) == \E segment \in Segments, asked \in Asked : Click(k, segment, asked)

Work(k) == Assign(k) \/ Mail(k) \/ Answer(k)

Next ==
  \/ \E k \in Clicks : ClickAny(k) \/ Work(k) \/ Cut(k)
  \/ \E u \in Users : Give(u) \/ Take(u) \/ Order(u) \/ Lapse(u)
  \/ SaveGift \/ Retire

\* "The admin screen drives the loop": it repeats the request while anybody is
\* left, and a request that is not cut off gets its statements done.
Fairness ==
  \A k \in Clicks : WF_vars(Work(k)) /\ WF_vars(\E asked \in Asked : Click(k, "all", asked))

Spec == Init /\ [][Next]_vars /\ Fairness

----------------------------------------------------------------------------
(* Properties.                                                             *)

TypeOK ==
  /\ active \in BOOLEAN
  /\ gift \in [Users -> {"none", "unused", "used"}]
  /\ orders \in [Users -> {"none", "recent", "old"}]
  /\ batch \in [Clicks -> [step : {"idle", "assign", "mail"}, left : SUBSET Users,
                           failed : SUBSET Users]]
  /\ hand \in [step : {"insert", "reset"}, to : Users] \cup {NoGift}
  /\ mails \in [Users -> 0..2]
  /\ \A done \in {told, lost, dropped, taken, crossed} : done \subseteq Users
  /\ events \in 0..MaxEvents

\* coupon-blast.service.ts:10-12: whoever has a row has been sent the coupon and
\* is never sent it again, spent or not, whatever is clicked twice, cut off or
\* given by hand at the same time; unless the office took the row back.
NeverTwice == \A u \in Users \ taken : mails[u] <= 1

\* coupon-blast.service.ts:18-20 and 167-169: a mail never promises a coupon that
\* is not on the account; a customer of the campaign whom no mail reached is
\* still being worked on, or was named to the admin, or went down with a request
\* that was cut off or ran into a row; and a request runs into a row only where
\* two had read the same customer.
NobodyForgotten ==
  /\ \A u \in Users :
       /\ mails[u] > 0 => gift[u] # "none" \/ u \in taken
       /\ gift[u] # "none" /\ mails[u] = 0 /\ u \notin told \cup lost \cup dropped
            => \E k \in Clicks :
                 \/ u \in batch[k].failed
                 \/ batch[k].step = "mail" /\ At(k) = u
  /\ dropped # {} => crossed # {}

\* coupon-blast.service.ts:14-16: the loop gets through the audience; a customer
\* whose mails bounce does not keep the others from their turn.
EveryoneIsReached == []<>(~active \/ Remaining("all") = {})
=============================================================================

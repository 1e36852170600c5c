-------------------------- MODULE DoorstepPayment --------------------------
(***************************************************************************)
(* A cash-on-delivery order at the door: the rider collects cash and taps  *)
(* "delivered", or shows a UPI QR that Razorpay credits.  The money is     *)
(* announced by a webhook, which may be late or come twice, and by the     *)
(* rider's poll, which asks Razorpay directly.                             *)
(*                                                                         *)
(* Requests interleave between statements.  settleQrPayment runs in a      *)
(* transaction that locks the orders row, so a save of the order waits for *)
(* it; the other statements of a delivery touch no orders row and do not.  *)
(* The writes of the transaction are one step, with its commit.            *)
(***************************************************************************)
EXTENDS Naturals, Sequences, FiniteSets

CONSTANTS
  QRs,       \* the QR codes Razorpay may mint; each is paid at most once
  NoQr,
  Requests   \* slots for requests in flight

ASSUME NoQrAssumption == NoQr \notin QRs

VARIABLES
  status,    \* orders.status
  payment,   \* the payments row of the checkout
  added,     \* payments rows inserted by settlements, in order
  qr,        \* order_qr_payments.status of each code, "none" before its row exists
  lapsed,    \* codes whose close_by has passed
  razorpay,  \* what Razorpay knows of each code
  ledger,    \* is there a rider_cash_ledger row for the order?
  incidents, \* codes with a double_collection incident
  refunded,  \* codes whose money was sent back
  cut,       \* history variable: a request was cut off between two statements
  pc, code, byWebhook, codSeen   \* per request: next step and local variables

orderVars == <<status, payment, added, qr, lapsed, razorpay, ledger, incidents, refunded, cut>>
slotVars == <<pc, code, byWebhook, codSeen>>
vars == <<orderVars, slotVars>>

OrderStatuses == {"assigned_to_delivery", "out_for_delivery", "delivered", "cancelled"}

PaymentRows == [method : {"cod", "online"}, status : {"pending", "paid", "refunded"},
                txn : QRs \cup {NoQr}]

\* A row booked for online money; txn is NoQr when the poll settled it.
OnlineRow(txn) == [method |-> "online", status |-> "paid", txn |-> txn]

\* All payments rows of the order, the checkout's first.
Payments == <<payment>> \o added

IsPaid(p) == p.status = "paid"

Live(q) == qr[q] = "active" /\ q \notin lapsed

\* Has the customer been shown the code?  Its image is returned with its row.
Shown(q) == qr[q] # "none"

Steps == {"idle", "minting", "inserting", "asking", "locking", "settling", "delivering",
          "collecting", "ledgering", "closing", "closing_razorpay", "retiring",
          "cancelling", "refunding", "marking"}

\* A settlement holds the lock on the orders row until it commits.
OrderUnlocked == \A s \in Requests : pc[s] # "settling"

----------------------------------------------------------------------------
(* The slots.                                                              *)

GoTo(s, next) == pc' = [pc EXCEPT ![s] = next] /\ UNCHANGED <<code, byWebhook, codSeen>>

GoWith(s, next, q) ==
  /\ pc' = [pc EXCEPT ![s] = next]
  /\ code' = [code EXCEPT ![s] = q]
  /\ UNCHANGED <<byWebhook, codSeen>>

Finish(s) ==
  /\ pc' = [pc EXCEPT ![s] = "idle"]
  /\ code' = [code EXCEPT ![s] = NoQr]
  /\ byWebhook' = [byWebhook EXCEPT ![s] = FALSE]
  /\ codSeen' = [codSeen EXCEPT ![s] = "none"]

----------------------------------------------------------------------------
(* createDoorstepQr.                                                       *)

\* A retirement that ignores which state the row is in.
BugRetired(st) == "expired"

\* UPDATE ... SET status = 'closed' WHERE ... AND status = 'active'.
Retired(st) == IF st = "active" THEN "closed" ELSE st

\* Rows past close_by are retired; a live code is shown again, and a new one
\* is minted only when there is none.
RequestQr(s) ==
  /\ pc[s] = "idle"
  /\ status # "cancelled"
  /\ payment.method = "cod" /\ payment.status = "pending"
  /\ qr' = [q \in QRs |-> IF q \in lapsed THEN Retired(qr[q]) ELSE qr[q]]
  /\ IF \E q \in QRs : Live(q) THEN UNCHANGED slotVars ELSE GoTo(s, "minting")
  /\ UNCHANGED <<status, payment, added, lapsed, razorpay, ledger, incidents, refunded, cut>>

Mint(s) ==
  /\ pc[s] = "minting"
  /\ \E q \in QRs :
       /\ razorpay[q] = "unminted"
       /\ razorpay' = [razorpay EXCEPT ![q] = "open"]
       /\ GoWith(s, "inserting", q)
  /\ UNCHANGED <<status, payment, added, qr, lapsed, ledger, incidents, refunded, cut>>

\* The partial unique index lets one active row in; the loser of a double
\* tap answers with the winner's code, and its own is never shown.
InsertQr(s) ==
  /\ pc[s] = "inserting"
  /\ qr' = IF \E q \in QRs : qr[q] = "active" THEN qr
           ELSE [qr EXCEPT ![code[s]] = "active"]
  /\ Finish(s)
  /\ UNCHANGED <<status, payment, added, lapsed, razorpay, ledger, incidents, refunded, cut>>

----------------------------------------------------------------------------
(* The customer, Razorpay and the clock.                                   *)

Scan(q) ==
  /\ razorpay[q] = "open"
  /\ Shown(q)
  /\ razorpay' = [razorpay EXCEPT ![q] = "paid"]
  /\ UNCHANGED <<status, payment, added, qr, lapsed, ledger, incidents, refunded, cut, slotVars>>

\* close_by passes: Razorpay closes the code unless it has been paid.
Lapse(q) ==
  /\ razorpay[q] # "unminted" /\ q \notin lapsed
  /\ lapsed' = lapsed \cup {q}
  /\ razorpay' = [razorpay EXCEPT ![q] = IF @ = "open" THEN "closed" ELSE @]
  /\ UNCHANGED <<status, payment, added, qr, ledger, incidents, refunded, cut, slotVars>>

----------------------------------------------------------------------------
(* settleQrPayment, from the webhook and from the poll.                    *)

\* The payment id of the code is on a row already.
Booked(q) == \E i \in DOMAIN Payments : Payments[i].txn = q

\* qr_code.credited, delivered at least once; a payment id already booked is
\* ignored.
Webhook(s, q) ==
  /\ pc[s] = "idle"
  /\ razorpay[q] = "paid"
  /\ ~ Booked(q)
  /\ pc' = [pc EXCEPT ![s] = "locking"]
  /\ code' = [code EXCEPT ![s] = q]
  /\ byWebhook' = [byWebhook EXCEPT ![s] = TRUE]
  /\ UNCHANGED <<orderVars, codSeen>>

\* collectStatus has an active code of an unpaid order to ask about ...
Poll(s, q) ==
  /\ pc[s] = "idle"
  /\ \A i \in DOMAIN Payments : ~ IsPaid(Payments[i])
  /\ qr[q] = "active"
  /\ GoWith(s, "asking", q)
  /\ UNCHANGED orderVars

\* A poll that takes a closed single-use code for a paid one.
BugCredited(q) == razorpay[q] \in {"paid", "closed"}

\* payments_count_received > 0
Credited(q) == razorpay[q] = "paid"

\* ... and settles it when Razorpay has the money.  The answer carries no
\* payment id; an error is an answer of no.
AskRazorpay(s) ==
  /\ pc[s] = "asking"
  /\ \/ Credited(code[s]) /\ GoTo(s, "locking")
     \/ Finish(s)
  /\ UNCHANGED orderVars

\* SELECT ... FOR UPDATE on the order, then the COD row is read.
LockOrder(s) ==
  /\ pc[s] = "locking"
  /\ OrderUnlocked
  /\ pc' = [pc EXCEPT ![s] = "settling"]
  /\ codSeen' = [codSeen EXCEPT ![s] = IF payment.method = "cod" THEN payment.status ELSE "none"]
  /\ UNCHANGED <<orderVars, code, byWebhook>>

\* The rider has the cash already: an incident, and the money goes back.
\* The refund is not awaited and its failure only logged.
DoubleCollection(s) ==
  /\ incidents' = incidents \cup {code[s]}
  /\ \/ refunded' = refunded \cup {code[s]}
     \/ refunded' = refunded
  /\ UNCHANGED <<payment, added>>

\* A settlement that converts the row whatever has become of it.
BugConvertsAnyway(s) ==
  /\ payment' = OnlineRow(IF byWebhook[s] THEN code[s] ELSE NoQr)
  /\ UNCHANGED <<added, incidents, refunded>>

\* cod -> online, if the row read is still pending.
Convert(s) ==
  /\ payment' = IF payment.status = "pending"
                  THEN OnlineRow(IF byWebhook[s] THEN code[s] ELSE NoQr)
                  ELSE payment
  /\ UNCHANGED <<added, incidents, refunded>>

\* A settlement that books nothing when there is no COD row to convert.
BugBooksNothing(s) ==
  /\ UNCHANGED <<payment, added, incidents, refunded>>

\* No COD row any more: the money is booked in a row of its own.
Book(s) ==
  /\ added' = Append(added, OnlineRow(IF byWebhook[s] THEN code[s] ELSE NoQr))
  /\ UNCHANGED <<payment, incidents, refunded>>

\* The webhook's test without the payment status.
BugAnyCodIsDouble(s) == codSeen[s] # "none" /\ byWebhook[s]

IsDouble(s) == codSeen[s] = "paid" /\ byWebhook[s]

Settle(s) ==
  /\ pc[s] = "settling"
  /\ \/ IsDouble(s) /\ DoubleCollection(s)
     \/ ~ IsDouble(s) /\ codSeen[s] # "none" /\ Convert(s)
     \/ codSeen[s] = "none" /\ Book(s)
  /\ qr' = [qr EXCEPT ![code[s]] = "paid"]
  /\ Finish(s)
  /\ UNCHANGED <<status, lapsed, razorpay, ledger, cut>>

----------------------------------------------------------------------------
(* updateStatus to delivered, and cancelDoorstepQr.                        *)

LeaveKitchen ==
  /\ status = "assigned_to_delivery"
  /\ OrderUnlocked
  /\ status' = "out_for_delivery"
  /\ UNCHANGED <<payment, added, qr, lapsed, razorpay, ledger, incidents, refunded, cut, slotVars>>

\* A rider is refused while a code is live; staff are not.
TapDelivered(s, by) ==
  /\ pc[s] = "idle"
  /\ status = "out_for_delivery"
  /\ by = "rider" => ~ \E q \in QRs : Live(q)
  /\ GoTo(s, "delivering")
  /\ UNCHANGED orderVars

\* The save waits for a settlement; the trigger refuses a cancelled order.
SaveDelivered(s) ==
  /\ pc[s] = "delivering"
  /\ OrderUnlocked
  /\ IF status = "cancelled"
       THEN Finish(s) /\ UNCHANGED status
       ELSE GoTo(s, "collecting") /\ status' = "delivered"
  /\ UNCHANGED <<payment, added, qr, lapsed, razorpay, ledger, incidents, refunded, cut>>

\* A delivery that does not look at the rows its UPDATE returned.
BugLedgerAlways == TRUE

\* The UPDATE ... WHERE method = 'cod' AND status = 'pending' finds its row.
CashIsOwed == payment.method = "cod" /\ payment.status = "pending"

CollectCash(s) ==
  /\ pc[s] = "collecting"
  /\ IF CashIsOwed
       THEN payment' = [payment EXCEPT !.status = "paid"] /\ GoTo(s, "ledgering")
       ELSE UNCHANGED payment /\ GoTo(s, "closing")
  /\ UNCHANGED <<status, added, qr, lapsed, razorpay, ledger, incidents, refunded, cut>>

WriteLedger(s) ==
  /\ pc[s] = "ledgering"
  /\ ledger' = TRUE
  /\ GoTo(s, "closing")
  /\ UNCHANGED <<status, payment, added, qr, lapsed, razorpay, incidents, refunded, cut>>

\* The rider gives up on the code ...
AbandonQr(s) ==
  /\ pc[s] = "idle"
  /\ \E q \in QRs : qr[q] = "active" /\ GoWith(s, "closing_razorpay", q)
  /\ UNCHANGED orderVars

\* ... or the delivery has made it moot.
CloseQr(s) ==
  /\ pc[s] = "closing"
  /\ \/ \E q \in QRs : qr[q] = "active" /\ GoWith(s, "closing_razorpay", q)
     \/ (\A q \in QRs : qr[q] # "active") /\ Finish(s)
  /\ UNCHANGED orderVars

\* Best effort: Razorpay may not answer, and a paid code stays paid.
CloseAtRazorpay(s) ==
  /\ pc[s] = "closing_razorpay"
  /\ \/ razorpay' = [razorpay EXCEPT ![code[s]] = IF @ = "open" THEN "closed" ELSE @]
     \/ razorpay' = razorpay
  /\ GoTo(s, "retiring")
  /\ UNCHANGED <<status, payment, added, qr, lapsed, ledger, incidents, refunded, cut>>

RetireQr(s) ==
  /\ pc[s] = "retiring"
  /\ qr' = [qr EXCEPT ![code[s]] = Retired(@)]
  /\ Finish(s)
  /\ UNCHANGED <<status, payment, added, lapsed, razorpay, ledger, incidents, refunded, cut>>

----------------------------------------------------------------------------
(* updateStatus to cancelled, and the online part of refundOnCancel.       *)

TapCancel(s) ==
  /\ pc[s] = "idle"
  /\ status = "assigned_to_delivery"
  /\ GoTo(s, "cancelling")
  /\ UNCHANGED orderVars

SaveCancelled(s) ==
  /\ pc[s] = "cancelling"
  /\ OrderUnlocked
  /\ IF status = "delivered"
       THEN Finish(s) /\ UNCHANGED status
       ELSE GoTo(s, "refunding") /\ status' = "cancelled"
  /\ UNCHANGED <<payment, added, qr, lapsed, razorpay, ledger, incidents, refunded, cut>>

\* Without the status the query would find refunded rows too.
Refundable(p) == p.method = "online" /\ IsPaid(p) /\ p.txn # NoQr

\* One paid online row with a transaction id is refunded at Razorpay; a
\* failure is audited for a human and the row stays paid.
RefundOnCancel(s) ==
  /\ pc[s] = "refunding"
  /\ \/ \E i \in DOMAIN Payments :
          /\ Refundable(Payments[i])
          /\ \/ refunded' = refunded \cup {Payments[i].txn}
                /\ GoWith(s, "marking", Payments[i].txn)
             \/ refunded' = refunded /\ Finish(s)
     \/ /\ \A i \in DOMAIN Payments : ~ Refundable(Payments[i])
        /\ refunded' = refunded /\ Finish(s)
  /\ UNCHANGED <<status, payment, added, qr, lapsed, razorpay, ledger, incidents, cut>>

Refunded(p, txn) == IF p.txn = txn THEN [p EXCEPT !.status = "refunded"] ELSE p

MarkRefunded(s) ==
  /\ pc[s] = "marking"
  /\ payment' = Refunded(payment, code[s])
  /\ added' = [i \in DOMAIN added |-> Refunded(added[i], code[s])]
  /\ Finish(s)
  /\ UNCHANGED <<status, qr, lapsed, razorpay, ledger, incidents, refunded, cut>>

----------------------------------------------------------------------------
\* The process restarts or a statement fails; an open transaction rolls back.
Cut(s) ==
  /\ pc[s] # "idle"
  /\ cut' = TRUE
  /\ Finish(s)
  /\ UNCHANGED <<status, payment, added, qr, lapsed, razorpay, ledger, incidents, refunded>>

Init ==
  /\ status = "assigned_to_delivery"
  /\ payment = [method |-> "cod", status |-> "pending", txn |-> NoQr]
  /\ added = << >>
  /\ qr = [q \in QRs |-> "none"]
  /\ lapsed = {}
  /\ razorpay = [q \in QRs |-> "unminted"]
  /\ ledger = FALSE
  /\ incidents = {} /\ refunded = {}
  /\ cut = FALSE
  /\ pc = [s \in Requests |-> "idle"]
  /\ code = [s \in Requests |-> NoQr]
  /\ byWebhook = [s \in Requests |-> FALSE]
  /\ codSeen = [s \in Requests |-> "none"]

Next ==
  \/ \E q \in QRs : Scan(q) \/ Lapse(q)
  \/ LeaveKitchen
  \/ \E s \in Requests :
       \/ RequestQr(s) \/ Mint(s) \/ InsertQr(s)
       \/ \E q \in QRs : Webhook(s, q) \/ Poll(s, q)
       \/ AskRazorpay(s) \/ LockOrder(s) \/ Settle(s)
       \/ \E by \in {"rider", "staff"} : TapDelivered(s, by)
       \/ SaveDelivered(s) \/ CollectCash(s) \/ WriteLedger(s)
       \/ AbandonQr(s) \/ CloseQr(s) \/ CloseAtRazorpay(s) \/ RetireQr(s)
       \/ TapCancel(s) \/ SaveCancelled(s) \/ RefundOnCancel(s) \/ MarkRefunded(s)
       \/ Cut(s)

Spec == Init /\ [][Next]_vars

----------------------------------------------------------------------------
\* The rows, codes and slots have their types.
TypeOK ==
  /\ status \in OrderStatuses
  /\ payment \in PaymentRows
  /\ added \in Seq(PaymentRows)
  /\ qr \in [QRs -> {"none", "active", "closed", "paid"}]
  /\ lapsed \subseteq QRs
  /\ razorpay \in [QRs -> {"unminted", "open", "closed", "paid"}]
  /\ ledger \in BOOLEAN /\ cut \in BOOLEAN
  /\ incidents \subseteq QRs /\ refunded \subseteq QRs
  /\ pc \in [Requests -> Steps]
  /\ code \in [Requests -> QRs \cup {NoQr}]
  /\ byWebhook \in [Requests -> BOOLEAN]
  /\ codSeen \in [Requests -> {"none", "pending", "paid", "refunded"}]

CashTaken == payment.method = "cod" /\ payment.status = "paid"

\* The COD row is claimed once, by cash or by the QR: when the rider answers
\* for cash, the row still says cash (the row is never converted after).
CashOrOnline == ledger => CashTaken

\* Unless a delivery was cut off between its statements, the rider's cash
\* ledger and the payments table agree on whether cash was taken.
CashReachesLedger ==
  ~ cut /\ (\A s \in Requests : pc[s] # "ledgering") => (CashTaken <=> ledger)

\* An automatic refund has a reason: the rider took cash as well, or the
\* order was cancelled; and only money that came in goes back.
RefundHasReason ==
  \A q \in refunded : razorpay[q] = "paid" /\ (CashTaken \/ status = "cancelled")

\* Unless cash was taken for the order, every code marked paid has an online
\* row of its own: settling a code never loses its money, whatever races.
SettledQrIsBooked ==
  ~ CashTaken =>
    Cardinality({q \in QRs : qr[q] = "paid"})
      <= Cardinality({i \in DOMAIN Payments : Payments[i].method = "online"})

\* Every online payment on the books is money Razorpay really credited.
NoPhantomMoney ==
  \A i \in DOMAIN Payments : Payments[i].method = "online" =>
    IF Payments[i].txn = NoQr THEN \E q \in QRs : razorpay[q] = "paid"
    ELSE razorpay[Payments[i].txn] = "paid"

\* Money is booked, and goes back, only for a reason.
MoneyHasReason == RefundHasReason /\ NoPhantomMoney

\* Refuted (README): settleQrPayment converts "atomically and idempotently": two online rows
\* stand for two payments, so one payment is booked at most once.
MoneyBookedOnce ==
  \A i, j \in DOMAIN Payments :
    /\ i # j /\ Payments[i].method = "online" /\ Payments[j].method = "online"
    => \E p, q \in QRs : p # q /\ razorpay[p] = "paid" /\ razorpay[q] = "paid"

\* Refuted (README): cash and a settled QR for one order: the store does "NOT silently keep the
\* money", an incident is on file when everything has come to rest.
NeverKeepBoth ==
  ~ cut /\ (\A s \in Requests : pc[s] = "idle") /\ CashTaken
    => \A q \in QRs : qr[q] = "paid" => q \in incidents
=============================================================================

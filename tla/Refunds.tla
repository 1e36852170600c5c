------------------------------ MODULE Refunds ------------------------------
(***************************************************************************)
(* The money and goods of one order on their way back: refundOnCancel and  *)
(* adminRefund of orders.service.ts, and what checkout took.               *)
(*                                                                         *)
(* refundOnCancel runs after the save of the cancelled status, statement   *)
(* by statement and outside any transaction.  It guards against a second   *)
(* run by reading three marks (the payment row, the wallet's refund rows,  *)
(* a note in the status history), each some awaits before it writes it.    *)
(* Two cancellations that read the order before either saves it both get   *)
(* here: the trigger allows cancelled to cancelled.                        *)
(*                                                                         *)
(* Razorpay is the environment: it never returns more than it captured,    *)
(* and its answer may get lost.  Referral rewards are in Rewards.          *)
(***************************************************************************)
EXTENDS Integers

CONSTANTS
  Requests,    \* slots for requests in flight
  Paid,        \* what Razorpay captured for the order; 0 for cash
  WalletUsed,  \* what the wallet paid
  Parts,       \* the partial amounts an admin may refund
  Points,      \* loyalty points the order earned
  MaxRestocks  \* bound: how often the admin sets the stock

ASSUME AmountsAssumption ==
  /\ Paid \in Nat /\ WalletUsed \in Nat /\ Points \in Nat /\ MaxRestocks \in Nat
  /\ Parts \subseteq {a \in Nat : 0 < a /\ a < Paid}

VARIABLES
  order,    \* orders.status as far as money is concerned
  money,    \* payments.status of the online row; what Razorpay returned; what
            \* the wallet got for the online part, for its own part, and the
            \* refund rows it recorded
  goods,    \* stock, product shown, coupon uses, redemption row, points, marker;
            \* restored and restocks count (history, bound)
  audit,    \* audit_logs: the sum reported as refunded, a failure flagged
  pc,       \* per request: what it does next
  dest,     \* per request: where a cancellation's refund goes
  sum,      \* per request: what it asks Razorpay to return
  past      \* history variable: two requests raced; one broke off; Razorpay
            \* returned money and the row still says paid

vars == <<order, money, goods, audit, pc, dest, sum, past>>

Destinations == {"original", "wallet"}

Steps == {"idle", "vetted", "refunding",
          "to_wallet", "crediting", "recording", "reporting_credit",
          "asking", "marking", "reporting", "failing",
          "guarding", "crediting_part", "recording_part",
          "reversing", "restocking", "showing", "dropping", "uncounting",
          "points", "finishing",
          "clicked", "admin_marking", "admin_reporting"}

----------------------------------------------------------------------------
(* Slots.                                                                  *)

GoTo(q, from, to) ==
  /\ pc[q] = from
  /\ pc' = [pc EXCEPT ![q] = to]
  /\ UNCHANGED <<dest, sum>>

\* A request that finds another one in flight makes a race.
Start(q, to) ==
  /\ pc[q] = "idle"
  /\ pc' = [pc EXCEPT ![q] = to]
  /\ past' = [past EXCEPT !.raced = @ \/ \E p \in Requests : pc[p] # "idle"]
  /\ UNCHANGED <<order, money, goods, audit>>

----------------------------------------------------------------------------
(* What checkout took.                                                     *)

\* The last portion hides the dish.
Taken(g) ==
  [g EXCEPT !.stock = @ - 1, !.shown = g.stock > 1, !.uses = @ + 1,
            !.redeemed = TRUE, !.points = Points]

Place ==
  /\ order = "none" /\ goods.stock > 0
  /\ order' = "live"
  /\ money' = [money EXCEPT !.payment = IF Paid > 0 THEN "paid" ELSE "none"]
  /\ goods' = Taken(goods)
  /\ UNCHANGED <<audit, pc, dest, sum, past>>

\* InventoryService.update: the admin sets the stock; a dish that has some is
\* shown again.  One step: what a reader sees between its statements is of no
\* interest to the cancellation.
Restock(n) ==
  /\ goods.restocks < MaxRestocks
  /\ goods' = [goods EXCEPT !.restocks = @ + 1, !.stock = n, !.shown = @ \/ n > 0]
  /\ UNCHANGED <<order, money, audit, pc, dest, sum, past>>

----------------------------------------------------------------------------
(* The cancellation: the online part.                                      *)

\* updateStatus to cancelled, by the customer or by staff, reads a live order.
Cancel(q, d) ==
  /\ order = "live"
  /\ Start(q, "vetted")
  /\ dest' = [dest EXCEPT ![q] = d]
  /\ UNCHANGED sum

\* Its save, which the trigger accepts on a cancelled row as well.
SaveCancelled(q) ==
  /\ GoTo(q, "vetted", "refunding")
  /\ order' = "cancelled"
  /\ UNCHANGED <<money, goods, audit, past>>

\* A lookup that also takes the row already refunded.
BugAnyPayment == money.payment # "none"

\* The captured payment the queries of refundOnCancel and adminRefund look
\* for, which Admin - Refunds lists as refundable.
Refundable == money.payment = "paid"

\* refundOnCancel reads the payment row.
ReadPayment(q) ==
  /\ GoTo(q, "refunding", IF ~ Refundable THEN "guarding"
                          ELSE IF dest[q] = "wallet" THEN "to_wallet" ELSE "asking")
  /\ UNCHANGED <<order, money, goods, audit, past>>

ClosePayment == money' = [money EXCEPT !.payment = "refunded"]

\* refundTo wallet: the payment row is marked refunded ...
MarkForWallet(q) ==
  /\ GoTo(q, "to_wallet", "crediting")
  /\ ClosePayment
  /\ UNCHANGED <<order, goods, audit, past>>

\* ... the balance credited ...
CreditOnline(q) ==
  /\ GoTo(q, "crediting", "recording")
  /\ money' = [money EXCEPT !.online = @ + Paid]
  /\ UNCHANGED <<order, goods, audit, past>>

\* ... the credit recorded ("Refund to wallet") ...
RecordOnline(q) ==
  /\ GoTo(q, "recording", "reporting_credit")
  /\ money' = [money EXCEPT !.rows = @ \cup {"online"}]
  /\ UNCHANGED <<order, goods, audit, past>>

Report(amount) == audit' = [audit EXCEPT !.refunded = @ + amount]

\* ... and reported.
ReportCredit(q) ==
  /\ GoTo(q, "reporting_credit", "guarding")
  /\ Report(Paid)
  /\ UNCHANGED <<order, money, goods, past>>

\* Razorpay returns the amount, unless that is more than it still holds.
Returns(amount) ==
  /\ money.returned + amount <= Paid
  /\ money' = [money EXCEPT !.returned = @ + amount]

\* Money has gone back and the row keeps saying paid.
Unmarked == past' = [past EXCEPT !.unmarked = TRUE]

\* refundTo original: Razorpay returns the whole payment; its answer may get
\* lost, or it refuses.
AskRazorpay(q) ==
  /\ \/ GoTo(q, "asking", "marking") /\ Returns(Paid) /\ UNCHANGED past
     \/ GoTo(q, "asking", "failing") /\ Returns(Paid) /\ Unmarked
     \/ GoTo(q, "asking", "failing") /\ UNCHANGED <<money, past>>
  /\ UNCHANGED <<order, goods, audit>>

MarkRefunded(q) ==
  /\ GoTo(q, "marking", "reporting")
  /\ ClosePayment
  /\ UNCHANGED <<order, goods, audit, past>>

ReportRefund(q) ==
  /\ GoTo(q, "reporting", "guarding")
  /\ Report(Paid)
  /\ UNCHANGED <<order, money, goods, past>>

\* A request that breaks off between Razorpay's answer and its UPDATE of the
\* payment row leaves the row paid.
BreaksOff(q) ==
  /\ past' = [past EXCEPT !.cut = TRUE,
                          !.unmarked = @ \/ pc[q] \in {"marking", "admin_marking"}]
  /\ UNCHANGED <<order, money, goods, audit>>

\* A statement after Razorpay's answer throws: the catch takes it for a refusal.
Throw(q) ==
  /\ GoTo(q, "marking", "failing") \/ GoTo(q, "reporting", "failing")
  /\ BreaksOff(q)

\* What refundOnCancel writes when Razorpay does not confirm; it used to be
\* only the server's console.
BugConsoleOnly == UNCHANGED audit

FlagFailure == audit' = [audit EXCEPT !.failed = TRUE]

\* The failure is flagged for manual follow-up and does not stop the rest.
ReportFailure(q) ==
  /\ GoTo(q, "failing", "guarding")
  /\ FlagFailure
  /\ UNCHANGED <<order, money, goods, past>>

----------------------------------------------------------------------------
(* The cancellation: the wallet part and the goods.                        *)

\* reason LIKE 'Refund%': any refund row of the order, also the online part's.
WalletPartReturned == money.rows # {}

\* The guard against a second credit of the wallet part.
ReadWalletRows(q) ==
  /\ GoTo(q, "guarding", IF WalletUsed > 0 /\ ~ WalletPartReturned THEN "crediting_part"
                         ELSE "reversing")
  /\ UNCHANGED <<order, money, goods, audit, past>>

CreditPart(q) ==
  /\ GoTo(q, "crediting_part", "recording_part")
  /\ money' = [money EXCEPT !.wallet = @ + WalletUsed]
  /\ UNCHANGED <<order, goods, audit, past>>

RecordPart(q) ==
  /\ GoTo(q, "recording_part", "reversing")
  /\ money' = [money EXCEPT !.rows = @ \cup {"wallet"}]
  /\ UNCHANGED <<order, goods, audit, past>>

\* The marker is read once, before all the reversals.
ReadMarker(q) ==
  /\ GoTo(q, "reversing", IF goods.reversed THEN "idle" ELSE "restocking")
  /\ UNCHANGED <<order, money, goods, audit, past>>

RestoreStock(q) ==
  /\ GoTo(q, "restocking", "showing")
  /\ goods' = [goods EXCEPT !.stock = @ + 1, !.restored = @ + 1]
  /\ UNCHANGED <<order, money, audit, past>>

\* A dish hidden for being sold out comes back; so does one hidden by hand.
ShowAgain(q) ==
  /\ GoTo(q, "showing", "dropping")
  /\ goods' = [goods EXCEPT !.shown = @ \/ goods.stock > 0]
  /\ UNCHANGED <<order, money, audit, past>>

\* DELETE ... RETURNING says whether there was a redemption to give back.
DropRedemption(q) ==
  /\ GoTo(q, "dropping", IF goods.redeemed THEN "uncounting" ELSE "points")
  /\ goods' = [goods EXCEPT !.redeemed = FALSE]
  /\ UNCHANGED <<order, money, audit, past>>

\* A release that forgets the counter.
BugUncount(g) == g

Uncount(g) == [g EXCEPT !.uses = IF @ > 0 THEN @ - 1 ELSE 0]

ReleaseCoupon(q) ==
  /\ GoTo(q, "uncounting", "points")
  /\ goods' = Uncount(goods)
  /\ UNCHANGED <<order, money, audit, past>>

\* A reversal without the floor.
BugBelowZero(g) == [g EXCEPT !.points = @ - Points]

\* The points earned are taken off the user's total, which stops at zero; the
\* tier follows from the total.
TakeBack(g) == [g EXCEPT !.points = IF @ > Points THEN @ - Points ELSE 0]

ReversePoints(q) ==
  /\ GoTo(q, "points", "finishing")
  /\ goods' = TakeBack(goods)
  /\ UNCHANGED <<order, money, audit, past>>

\* The note 'cancel-reversal-done'.
WriteMarker(q) ==
  /\ GoTo(q, "finishing", "idle")
  /\ goods' = [goods EXCEPT !.reversed = TRUE]
  /\ UNCHANGED <<order, money, audit, past>>

----------------------------------------------------------------------------
(* The admin's refund, before or after delivery.                           *)

\* adminRefund reads the payment row; a larger amount is capped to it.
Click(q, amount) ==
  /\ order # "none" /\ Refundable
  /\ Start(q, "clicked")
  /\ sum' = [sum EXCEPT ![q] = amount]
  /\ UNCHANGED dest

\* A refund that closes the payment row whatever the amount.
BugClosesAnyway(q) == sum[q] > 0

\* A refund is in full if it is all that was paid.
Full(q) == sum[q] = Paid

\* A request that logs the refund and then leaves the rest to Razorpay.
BugLogsFirst(q) ==
  /\ GoTo(q, "clicked", "idle")
  /\ Report(sum[q])
  /\ UNCHANGED <<order, money, goods, past>>

\* Razorpay returns it, or the request ends in an error with nothing logged.
AskForAdmin(q) ==
  /\ \/ /\ GoTo(q, "clicked", IF Full(q) THEN "admin_marking" ELSE "admin_reporting")
        /\ Returns(sum[q])
        /\ IF Full(q) THEN UNCHANGED past ELSE Unmarked
     \/ GoTo(q, "clicked", "idle") /\ Returns(sum[q]) /\ Unmarked
     \/ GoTo(q, "clicked", "idle") /\ UNCHANGED <<money, past>>
  /\ UNCHANGED <<order, goods, audit>>

\* Only a full refund closes the payment row.
AdminMark(q) ==
  /\ GoTo(q, "admin_marking", "admin_reporting")
  /\ ClosePayment
  /\ UNCHANGED <<order, goods, audit, past>>

AdminReport(q) ==
  /\ GoTo(q, "admin_reporting", "idle")
  /\ Report(sum[q])
  /\ UNCHANGED <<order, money, goods, past>>

\* The process restarts, or the database refuses a statement nobody catches.
Cut(q) ==
  /\ pc[q] # "idle"
  /\ GoTo(q, pc[q], "idle")
  /\ BreaksOff(q)

----------------------------------------------------------------------------
Init ==
  /\ order = "none"
  /\ money = [payment |-> "none", online |-> 0, rows |-> {}, returned |-> 0, wallet |-> 0]
  /\ goods = [stock |-> 1, shown |-> TRUE, uses |-> 0, redeemed |-> FALSE, points |-> 0,
              restocks |-> 0, reversed |-> FALSE, restored |-> 0]
  /\ audit = [refunded |-> 0, failed |-> FALSE]
  /\ pc = [q \in Requests |-> "idle"]
  /\ dest = [q \in Requests |-> "original"]
  /\ sum = [q \in Requests |-> Paid]
  /\ past = [raced |-> FALSE, unmarked |-> FALSE, cut |-> FALSE]

Next ==
  \/ Place
  \/ \E n \in {0, 2} : Restock(n)
  \/ \E q \in Requests :
       \/ \E d \in Destinations : Cancel(q, d)
       \/ SaveCancelled(q) \/ ReadPayment(q)
       \/ MarkForWallet(q) \/ CreditOnline(q) \/ RecordOnline(q) \/ ReportCredit(q)
       \/ AskRazorpay(q) \/ MarkRefunded(q) \/ ReportRefund(q)
       \/ Throw(q) \/ ReportFailure(q)
       \/ ReadWalletRows(q) \/ CreditPart(q) \/ RecordPart(q)
       \/ ReadMarker(q) \/ RestoreStock(q) \/ ShowAgain(q)
       \/ DropRedemption(q) \/ ReleaseCoupon(q) \/ ReversePoints(q) \/ WriteMarker(q)
       \/ \E a \in Parts \cup {Paid} : Click(q, a)
       \/ AskForAdmin(q) \/ AdminMark(q) \/ AdminReport(q)
       \/ Cut(q)

Spec == Init /\ [][Next]_vars

----------------------------------------------------------------------------
\* Rows, requests and amounts have their types.
TypeOK ==
  /\ order \in {"none", "live", "cancelled"}
  /\ money \in [payment : {"none", "paid", "refunded"}, returned : 0 .. Paid,
                online : Nat, wallet : Nat, rows : SUBSET {"online", "wallet"}]
  /\ goods \in [stock : Nat, shown : BOOLEAN, uses : Nat, redeemed : BOOLEAN, points : Nat,
                reversed : BOOLEAN, restored : Nat, restocks : 0 .. MaxRestocks]
  /\ audit \in [refunded : Nat, failed : BOOLEAN]
  /\ pc \in [Requests -> Steps]
  /\ dest \in [Requests -> Destinations]
  /\ sum \in [Requests -> Parts \cup {Paid}]
  /\ past \in [raced : BOOLEAN, cut : BOOLEAN, unmarked : BOOLEAN]

\* What Admin - Refunds reports as refunded has really gone back, whatever
\* requests race, break off or lose Razorpay's answer: an audit row follows
\* the money, never the intention.
ReportIsTrue == audit.refunded <= money.returned + money.online

\* Requests that come one after the other, also when they break off, return
\* the customer no more than came in and give the portion back once: the
\* payment row is marked before the wallet is credited, Razorpay keeps its own
\* account, the marker stops a second run.  Not so once Razorpay has returned
\* money while the row still says paid (a refund in part, a lost answer, a
\* break before the mark): a cancellation to the wallet then pays it all again.
ReturnsOnce ==
  ~ past.raced /\ ~ past.unmarked =>
    /\ money.returned + money.online <= Paid
    /\ money.wallet <= WalletUsed
    /\ goods.restored <= 1

\* A cancellation that ran undisturbed to its marker has given back all that
\* checkout took, or flagged the refund as failed; the wallet's part only if
\* the online part did not go to the wallet.
CancelGivesBack ==
  goods.reversed /\ ~ past.raced /\ ~ past.cut =>
    /\ money.returned + money.online >= Paid \/ audit.failed
    /\ "online" \notin money.rows => money.wallet = WalletUsed
    /\ goods.restored = 1 /\ (goods.stock > 0 => goods.shown)
    /\ goods.uses = 0 /\ ~ goods.redeemed
    /\ goods.points = 0

\* The online payment of a cancelled order is never lost from sight: once all
\* requests have come to rest it has gone back, or Admin - Refunds still lists
\* it.  But a cancellation to the wallet marks the row before it credits, and
\* one that breaks off in between leaves nothing to find.
NeverOutOfSight ==
  order = "cancelled" /\ (\A q \in Requests : pc[q] = "idle") =>
    \/ money.payment = "none" \/ Refundable
    \/ money.returned + money.online >= Paid
    \/ past.cut /\ \E q \in Requests : dest[q] = "wallet"

\* Refuted (README), the comment on refundOnCancel: "wallet portion -> credited back to the
\* wallet".
WalletPartComesBack ==
  goods.reversed /\ ~ past.raced /\ ~ past.cut => money.wallet = WalletUsed
=============================================================================

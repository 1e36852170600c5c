----------------------- MODULE DoorstepPayment_proofs -----------------------
(***************************************************************************)
(* Proofs about DoorstepPayment for any number of codes and requests.      *)
(*                                                                         *)
(* That money is booked, and goes back, only for a reason is not           *)
(* inductive.  It needs to know what a request in flight stands on: a      *)
(* settlement on a credited code, a refund on a cancelled order, a cash    *)
(* ledger entry on cash taken (Grounds); that cash, once taken, stays      *)
(* (CodRow); and that a settlement which read a paid COD row read the      *)
(* rider's cash.                                                           *)
(***************************************************************************)
EXTENDS DoorstepPayment, FiniteSetTheorems, TLAPS

\* A row that says online stands for money Razorpay credited, by what it knows.
BackedBy(known, p) ==
  p.method = "online" =>
    IF p.txn = NoQr THEN \E q \in QRs : known[q] = "paid"
    ELSE known[p.txn] = "paid"

Backed(p) == BackedBy(razorpay, p)

\* The COD row carries no code, and is only ever pending or paid.
CodRow ==
  payment.method = "cod" => payment.txn = NoQr /\ payment.status \in {"pending", "paid"}

\* What the next step of a request stands on.
Grounds(s) ==
  /\ pc[s] \in {"inserting", "asking", "closing_razorpay", "retiring"} => code[s] \in QRs
  /\ pc[s] \in {"locking", "settling"} => code[s] \in QRs /\ razorpay[code[s]] = "paid"
  /\ pc[s] = "settling" /\ codSeen[s] = "paid" => CashTaken
  /\ pc[s] = "ledgering" => CashTaken
  /\ pc[s] \in {"refunding", "marking"} => status = "cancelled"
  /\ pc[s] = "marking" => code[s] \in QRs

\* Cash on the books is in the ledger, on its way there, or was cut off.
CashAccounted == CashTaken => ledger \/ cut \/ \E s \in Requests : pc[s] = "ledgering"

Inv ==
  /\ TypeOK
  /\ CodRow
  /\ Backed(payment) /\ \A i \in DOMAIN added : Backed(added[i])
  /\ \A s \in Requests : Grounds(s)
  /\ CashOrOnline
  /\ CashAccounted
  /\ RefundHasReason

----------------------------------------------------------------------------
(* Type correctness.                                                       *)

LEMMA PaymentsType ==
  ASSUME TypeOK
  PROVE  \A i \in DOMAIN Payments : Payments[i] \in PaymentRows
BY DEF TypeOK, Payments

LEMMA OnlineRowType ==
  ASSUME NEW txn \in QRs \cup {NoQr}
  PROVE  OnlineRow(txn) \in PaymentRows
BY DEF OnlineRow, PaymentRows

\* Marking a refund keeps the rows' types.
LEMMA RefundedType ==
  ASSUME NEW p \in PaymentRows, NEW txn
  PROVE  Refunded(p, txn) \in PaymentRows
BY DEF Refunded, PaymentRows

LEMMA InitInv == Init => Inv
<1> SUFFICES ASSUME Init PROVE Inv
  OBVIOUS
<1>1. TypeOK
  <2>1. payment \in PaymentRows
    BY DEF Init, PaymentRows
  <2>2. added \in Seq(PaymentRows)
    BY DEF Init
  <2> QED
    BY <2>1, <2>2 DEF Init, TypeOK, OrderStatuses, Steps
<1>2. CodRow /\ Backed(payment)
  BY DEF Init, CodRow, Backed, BackedBy
<1>5. \A i \in DOMAIN added : Backed(added[i])
  <2>1. DOMAIN added = {}
    BY DEF Init
  <2> QED
    BY <2>1
<1>3. \A s \in Requests : Grounds(s)
  BY DEF Init, Grounds
<1>4. CashOrOnline /\ CashAccounted /\ RefundHasReason
  BY DEF Init, CashOrOnline, CashTaken, CashAccounted, RefundHasReason
<1> QED
  BY <1>1, <1>2, <1>3, <1>4, <1>5 DEF Inv

SlotsType ==
  /\ pc \in [Requests -> Steps]
  /\ code \in [Requests -> QRs \cup {NoQr}]
  /\ byWebhook \in [Requests -> BOOLEAN]
  /\ codSeen \in [Requests -> {"none", "pending", "paid", "refunded"}]

\* A request that goes on, or ends, keeps the types of the slots.
LEMMA SlotType ==
  ASSUME TypeOK, NEW s \in Requests
  PROVE  /\ \A next \in Steps : GoTo(s, next) => SlotsType'
         /\ \A next \in Steps, q \in QRs \cup {NoQr} : GoWith(s, next, q) => SlotsType'
         /\ Finish(s) => SlotsType'
BY DEF TypeOK, SlotsType, GoTo, GoWith, Finish, Steps

\* Every step keeps the types.
LEMMA TypeStep ==
  ASSUME Inv, [Next]_vars
  PROVE  TypeOK'
<1> USE DEF Inv, TypeOK
<1>1. ASSUME NEW q \in QRs, Scan(q) \/ Lapse(q) PROVE TypeOK'
  BY <1>1 DEF Scan, Lapse, slotVars
<1>2. CASE LeaveKitchen
  BY <1>2 DEF LeaveKitchen, slotVars, OrderStatuses
<1>3. ASSUME NEW s \in Requests, RequestQr(s) PROVE TypeOK'
  <2>1. SlotsType'
    BY <1>3, SlotType DEF RequestQr, slotVars, SlotsType, Steps
  <2> QED
    BY <1>3, <2>1 DEF RequestQr, Retired, SlotsType
<1>4. ASSUME NEW s \in Requests, Mint(s) \/ InsertQr(s) PROVE TypeOK'
  <2>1. SlotsType'
    BY <1>4, SlotType DEF Mint, InsertQr, Steps
  <2> QED
    BY <1>4, <2>1 DEF Mint, InsertQr, SlotsType
<1>5. ASSUME NEW s \in Requests, NEW q \in QRs, Webhook(s, q) \/ Poll(s, q) PROVE TypeOK'
  <2>1. SlotsType'
    <3>1. CASE Webhook(s, q)
      BY <3>1 DEF Webhook, SlotsType, Steps
    <3>2. CASE Poll(s, q)
      BY <3>2, SlotType DEF Poll, Steps
    <3> QED
      BY <1>5, <3>1, <3>2
  <2> QED
    BY <1>5, <2>1 DEF Webhook, Poll, SlotsType, orderVars
<1>6. ASSUME NEW s \in Requests, AskRazorpay(s) \/ LockOrder(s) PROVE TypeOK'
  <2>1. SlotsType'
    <3>1. CASE AskRazorpay(s)
      BY <3>1, SlotType DEF AskRazorpay, Steps
    <3>2. CASE LockOrder(s)
      BY <3>2 DEF LockOrder, SlotsType, Steps, PaymentRows
    <3> QED
      BY <1>6, <3>1, <3>2
  <2> QED
    BY <1>6, <2>1 DEF AskRazorpay, LockOrder, SlotsType, orderVars
<1>7. ASSUME NEW s \in Requests, Settle(s) PROVE TypeOK'
  <2>1. SlotsType'
    BY <1>7, SlotType DEF Settle
  <2>2. code[s] \in QRs
    BY <1>7 DEF Settle, Grounds
  <2>3. OnlineRow(IF byWebhook[s] THEN code[s] ELSE NoQr) \in PaymentRows
    BY <2>2, OnlineRowType
  <2>4. /\ payment' \in PaymentRows /\ added' \in Seq(PaymentRows)
        /\ incidents' \subseteq QRs /\ refunded' \subseteq QRs
    <3>1. CASE DoubleCollection(s)
      BY <3>1, <2>2 DEF DoubleCollection
    <3>2. CASE Convert(s)
      BY <3>2, <2>3 DEF Convert
    <3>3. CASE Book(s)
      BY <3>3, <2>3 DEF Book
    <3> QED
      BY <1>7, <3>1, <3>2, <3>3 DEF Settle
  <2> QED
    BY <1>7, <2>1, <2>2, <2>4 DEF Settle, SlotsType
<1>8. ASSUME NEW s \in Requests, NEW by \in {"rider", "staff"}, TapDelivered(s, by) PROVE TypeOK'
  <2>1. SlotsType'
    BY <1>8, SlotType DEF TapDelivered, Steps
  <2> QED
    BY <1>8, <2>1 DEF TapDelivered, SlotsType, orderVars
<1>9. ASSUME NEW s \in Requests, SaveDelivered(s) \/ SaveCancelled(s) PROVE TypeOK'
  <2>1. SlotsType'
    BY <1>9, SlotType DEF SaveDelivered, SaveCancelled, Steps
  <2> QED
    BY <1>9, <2>1 DEF SaveDelivered, SaveCancelled, SlotsType, OrderStatuses
<1>10. ASSUME NEW s \in Requests, CollectCash(s) \/ WriteLedger(s) PROVE TypeOK'
  <2>1. SlotsType'
    BY <1>10, SlotType DEF CollectCash, WriteLedger, Steps
  <2> QED
    BY <1>10, <2>1 DEF CollectCash, WriteLedger, SlotsType, PaymentRows
<1>11. ASSUME NEW s \in Requests, AbandonQr(s) \/ CloseQr(s) \/ TapCancel(s) PROVE TypeOK'
  <2>1. SlotsType'
    BY <1>11, SlotType DEF AbandonQr, CloseQr, TapCancel, Steps
  <2> QED
    BY <1>11, <2>1 DEF AbandonQr, CloseQr, TapCancel, SlotsType, orderVars
<1>12. ASSUME NEW s \in Requests, CloseAtRazorpay(s) \/ RetireQr(s) PROVE TypeOK'
  <2>1. SlotsType'
    BY <1>12, SlotType DEF CloseAtRazorpay, RetireQr, Steps
  <2> QED
    BY <1>12, <2>1 DEF CloseAtRazorpay, RetireQr, SlotsType, Retired
<1>13. ASSUME NEW s \in Requests, RefundOnCancel(s) PROVE TypeOK'
  <2>1. ASSUME NEW i \in DOMAIN Payments, Refundable(Payments[i]) PROVE Payments[i].txn \in QRs
    BY <2>1, PaymentsType DEF Refundable, PaymentRows
  <2>2. SlotsType'
    BY <1>13, <2>1, SlotType DEF RefundOnCancel, Steps
  <2>3. refunded' \subseteq QRs
    BY <1>13, <2>1 DEF RefundOnCancel
  <2> QED
    BY <1>13, <2>2, <2>3 DEF RefundOnCancel, SlotsType
<1>14. ASSUME NEW s \in Requests, MarkRefunded(s) PROVE TypeOK'
  <2>1. SlotsType'
    BY <1>14, SlotType DEF MarkRefunded
  <2>2. payment' \in PaymentRows
    BY <1>14, RefundedType DEF MarkRefunded
  <2>3. added' \in Seq(PaymentRows)
    <3>1. \A i \in DOMAIN added : Refunded(added[i], code[s]) \in PaymentRows
      BY RefundedType
    <3>2. DOMAIN added = 1 .. Len(added) /\ Len(added) \in Nat
      OBVIOUS
    <3> QED
      BY <1>14, <3>1, <3>2 DEF MarkRefunded
  <2> QED
    BY <1>14, <2>1, <2>2, <2>3 DEF MarkRefunded, SlotsType
<1>15. ASSUME NEW s \in Requests, Cut(s) PROVE TypeOK'
  <2>1. SlotsType'
    BY <1>15, SlotType DEF Cut
  <2> QED
    BY <1>15, <2>1 DEF Cut, SlotsType
<1>16. CASE UNCHANGED vars
  BY <1>16 DEF vars, orderVars, slotVars
<1> QED
  BY <1>1, <1>2, <1>3, <1>4, <1>5, <1>6, <1>7, <1>8, <1>9, <1>10, <1>11, <1>12, <1>13,
     <1>14, <1>15, <1>16 DEF Next

----------------------------------------------------------------------------
(* The other parts of the invariant.                                       *)

\* Requests other than the one that steps keep their grounds, as long as
\* credited codes stay credited, taken cash stays taken and a cancelled order
\* stays cancelled.
LEMMA OthersStand ==
  ASSUME Inv, NEW s \in Requests,
         \A r \in Requests \ {s} :
           pc'[r] = pc[r] /\ code'[r] = code[r] /\ codSeen'[r] = codSeen[r],
         \A q \in QRs : razorpay[q] = "paid" => razorpay'[q] = "paid",
         CashTaken => CashTaken',
         status = "cancelled" => status' = "cancelled",
         Grounds(s)'
  PROVE  \A r \in Requests : Grounds(r)'
<1> SUFFICES ASSUME NEW r \in Requests \ {s} PROVE Grounds(r)'
  OBVIOUS
<1>1. Grounds(r)
  BY DEF Inv
<1> QED
  BY <1>1 DEF Grounds

\* Only the slot of the request changes.
LEMMA OneSlot ==
  ASSUME Inv, NEW s \in Requests, NEW r \in Requests \ {s}
  PROVE  /\ \A next \in Steps : GoTo(s, next) =>
              pc'[r] = pc[r] /\ code'[r] = code[r] /\ codSeen'[r] = codSeen[r]
         /\ \A next \in Steps, q \in QRs : GoWith(s, next, q) =>
              pc'[r] = pc[r] /\ code'[r] = code[r] /\ codSeen'[r] = codSeen[r]
         /\ Finish(s) =>
              pc'[r] = pc[r] /\ code'[r] = code[r] /\ codSeen'[r] = codSeen[r]
BY DEF Inv, TypeOK, GoTo, GoWith, Finish

\* A request that ends stands on nothing.
LEMMA FinishStands ==
  ASSUME Inv, NEW s \in Requests, Finish(s)
  PROVE  Grounds(s)'
BY DEF Inv, TypeOK, Finish, Grounds

\* Rows that stay as they are stay backed, as long as credited codes do.
LEMMA RowsStayBacked ==
  ASSUME Inv, UNCHANGED <<payment, added>>,
         \A q \in QRs : razorpay[q] = "paid" => razorpay'[q] = "paid"
  PROVE  /\ CodRow' /\ (CashTaken <=> CashTaken')
         /\ Backed(payment)' /\ (\A i \in DOMAIN added : Backed(added[i]))'
<1>1. ASSUME NEW p \in PaymentRows, Backed(p) PROVE Backed(p)'
  BY <1>1 DEF Backed, BackedBy, PaymentRows
<1>2. \A i \in DOMAIN added : added[i] \in PaymentRows /\ Backed(added[i])
  BY DEF Inv, TypeOK
<1>3. payment \in PaymentRows /\ Backed(payment)
  BY DEF Inv, TypeOK
<1>4. CodRow' /\ (CashTaken <=> CashTaken')
  BY DEF Inv, CodRow, CashTaken
<1> QED
  BY <1>1, <1>2, <1>3, <1>4, Zenon DEF Backed

\* A step that touches neither rows nor refunds, and leaves no cash behind.
LEMMA Quiet ==
  ASSUME Inv, TypeOK', NEW s \in Requests,
         UNCHANGED <<payment, added, refunded, ledger>>,
         \A r \in Requests \ {s} :
           pc'[r] = pc[r] /\ code'[r] = code[r] /\ codSeen'[r] = codSeen[r],
         \A q \in QRs : razorpay[q] = "paid" => razorpay'[q] = "paid",
         status = "cancelled" => status' = "cancelled",
         cut => cut',
         pc[s] = "ledgering" => cut',
         Grounds(s)'
  PROVE  Inv'
<1>1. /\ CodRow' /\ (CashTaken <=> CashTaken')
      /\ Backed(payment)' /\ (\A i \in DOMAIN added : Backed(added[i]))'
  BY RowsStayBacked
<1>2. (\A r \in Requests : Grounds(r))'
  BY <1>1, OthersStand
<1>3. CashOrOnline'
  BY <1>1 DEF Inv, CashOrOnline
<1>4. CashAccounted'
  BY <1>1 DEF Inv, CashAccounted
<1>5. RefundHasReason'
  BY <1>1 DEF Inv, TypeOK, RefundHasReason
<1> QED
  BY <1>1, <1>2, <1>3, <1>4, <1>5 DEF Inv

\* The same for a step of nobody's request.
LEMMA Outside ==
  ASSUME Inv, TypeOK', UNCHANGED <<payment, added, refunded, ledger, cut, slotVars>>,
         \A q \in QRs : razorpay[q] = "paid" => razorpay'[q] = "paid",
         status = "cancelled" => status' = "cancelled"
  PROVE  Inv'
<1>1. /\ CodRow' /\ (CashTaken <=> CashTaken')
      /\ Backed(payment)' /\ (\A i \in DOMAIN added : Backed(added[i]))'
  BY RowsStayBacked
<1>2. ASSUME NEW r \in Requests PROVE Grounds(r)'
  <2>1. Grounds(r)
    BY DEF Inv
  <2> QED
    BY <1>1, <2>1 DEF Grounds, slotVars
<1>3. CashOrOnline' /\ CashAccounted'
  BY <1>1 DEF Inv, CashOrOnline, CashAccounted, slotVars
<1>4. RefundHasReason'
  BY <1>1 DEF Inv, TypeOK, RefundHasReason
<1> QED
  BY <1>1, <1>2, <1>3, <1>4 DEF Inv

LEMMA OutsideStep ==
  ASSUME Inv, TypeOK',
         \/ \E q \in QRs : Scan(q) \/ Lapse(q)
         \/ LeaveKitchen
         \/ UNCHANGED vars
  PROVE  Inv'
<1>1. ASSUME NEW q \in QRs, Scan(q) \/ Lapse(q) PROVE Inv'
  BY <1>1, Outside DEF Scan, Lapse, Inv, TypeOK
<1>2. CASE LeaveKitchen
  BY <1>2, Outside DEF LeaveKitchen
<1>3. CASE UNCHANGED vars
  BY <1>3, Outside DEF vars, orderVars
<1> QED
  BY <1>1, <1>2, <1>3

\* Codes: asked for, minted, shown, given up, retired.
LEMMA CodeStep ==
  ASSUME Inv, TypeOK', NEW s \in Requests,
         \/ RequestQr(s) \/ Mint(s) \/ InsertQr(s)
         \/ AbandonQr(s) \/ CloseQr(s) \/ CloseAtRazorpay(s) \/ RetireQr(s)
  PROVE  Inv'
<1> USE DEF Inv, TypeOK
<1>1. CASE RequestQr(s)
  <2>1. Grounds(s)'
    BY <1>1 DEF RequestQr, Grounds, GoTo, slotVars, CashTaken
  <2> QED
    BY <1>1, <2>1, OneSlot, Quiet DEF RequestQr, slotVars, Steps
<1>2. CASE Mint(s)
  <2>1. Grounds(s)'
    BY <1>2 DEF Mint, Grounds, GoWith
  <2>2. \A q \in QRs : razorpay[q] = "paid" => razorpay'[q] = "paid"
    BY <1>2 DEF Mint
  <2>3. \A r \in Requests \ {s} :
          pc'[r] = pc[r] /\ code'[r] = code[r] /\ codSeen'[r] = codSeen[r]
    BY <1>2 DEF Mint, GoWith
  <2> QED
    BY <1>2, <2>1, <2>2, <2>3, Quiet DEF Mint
<1>3. CASE InsertQr(s)
  BY <1>3, FinishStands, OneSlot, Quiet DEF InsertQr
<1>4. CASE AbandonQr(s)
  <2>1. Grounds(s)'
    BY <1>4 DEF AbandonQr, Grounds, GoWith
  <2> QED
    BY <1>4, <2>1, OneSlot, Quiet DEF AbandonQr, Steps, orderVars
<1>5. CASE CloseQr(s)
  <2>1. Grounds(s)'
    <3>1. CASE Finish(s)
      BY <3>1, FinishStands
    <3>2. CASE \E q \in QRs : GoWith(s, "closing_razorpay", q)
      BY <3>2 DEF Grounds, GoWith
    <3> QED
      BY <1>5, <3>1, <3>2 DEF CloseQr
  <2> QED
    BY <1>5, <2>1, OneSlot, Quiet DEF CloseQr, Steps, orderVars
<1>6. CASE CloseAtRazorpay(s)
  <2>1. Grounds(s)'
    BY <1>6 DEF CloseAtRazorpay, Grounds, GoTo
  <2>2. \A q \in QRs : razorpay[q] = "paid" => razorpay'[q] = "paid"
    BY <1>6 DEF CloseAtRazorpay
  <2> QED
    BY <1>6, <2>1, <2>2, OneSlot, Quiet DEF CloseAtRazorpay, Steps
<1>7. CASE RetireQr(s)
  BY <1>7, FinishStands, OneSlot, Quiet DEF RetireQr
<1> QED
  BY <1>1, <1>2, <1>3, <1>4, <1>5, <1>6, <1>7

\* Word of a payment, up to the lock on the order.
LEMMA WordStep ==
  ASSUME Inv, TypeOK', NEW s \in Requests,
         \/ \E q \in QRs : Webhook(s, q) \/ Poll(s, q)
         \/ AskRazorpay(s) \/ LockOrder(s)
  PROVE  Inv'
<1> USE DEF Inv, TypeOK
<1>1. ASSUME NEW q \in QRs, Webhook(s, q) PROVE Inv'
  <2>1. Grounds(s)'
    BY <1>1 DEF Webhook, Grounds, orderVars
  <2> QED
    BY <1>1, <2>1, Quiet DEF Webhook, orderVars
<1>2. ASSUME NEW q \in QRs, Poll(s, q) PROVE Inv'
  <2>1. Grounds(s)'
    BY <1>2 DEF Poll, Grounds, GoWith, orderVars
  <2> QED
    BY <1>2, <2>1, OneSlot, Quiet DEF Poll, Steps, orderVars
<1>3. CASE AskRazorpay(s)
  <2>1. Grounds(s)
    OBVIOUS
  <2>2. Grounds(s)'
    <3>1. CASE Finish(s)
      BY <3>1, FinishStands
    <3>2. CASE Credited(code[s]) /\ GoTo(s, "locking")
      BY <1>3, <2>1, <3>2 DEF AskRazorpay, Credited, Grounds, GoTo, orderVars
    <3> QED
      BY <1>3, <3>1, <3>2 DEF AskRazorpay
  <2> QED
    BY <1>3, <2>2, OneSlot, Quiet DEF AskRazorpay, Steps, orderVars
<1>4. CASE LockOrder(s)
  <2>1. Grounds(s)
    OBVIOUS
  <2>2. Grounds(s)'
    BY <1>4, <2>1 DEF LockOrder, Grounds, CashTaken, orderVars
  <2> QED
    BY <1>4, <2>2, Quiet DEF LockOrder, orderVars
<1> QED
  BY <1>1, <1>2, <1>3, <1>4

\* The order's own saves: they end, or go on to collect or to refund.
LEMMA OrderStep ==
  ASSUME Inv, TypeOK', NEW s \in Requests,
         \/ \E by \in {"rider", "staff"} : TapDelivered(s, by)
         \/ SaveDelivered(s) \/ TapCancel(s) \/ SaveCancelled(s)
  PROVE  Inv'
<1> USE DEF Inv, TypeOK
<1>1. ASSUME NEW by \in {"rider", "staff"}, TapDelivered(s, by) PROVE Inv'
  <2>1. Grounds(s)'
    BY <1>1 DEF TapDelivered, Grounds, GoTo, orderVars
  <2> QED
    BY <1>1, <2>1, OneSlot, Quiet DEF TapDelivered, Steps, orderVars
<1>2. CASE SaveDelivered(s)
  <2>1. CASE status = "cancelled"
    BY <1>2, <2>1, FinishStands, OneSlot, Quiet DEF SaveDelivered
  <2>2. CASE status # "cancelled"
    <3>1. Grounds(s)'
      BY <1>2, <2>2 DEF SaveDelivered, Grounds, GoTo
    <3> QED
      BY <1>2, <2>2, <3>1, OneSlot, Quiet DEF SaveDelivered, Steps
  <2> QED
    BY <2>1, <2>2
<1>3. CASE TapCancel(s)
  <2>1. Grounds(s)'
    BY <1>3 DEF TapCancel, Grounds, GoTo, orderVars
  <2> QED
    BY <1>3, <2>1, OneSlot, Quiet DEF TapCancel, Steps, orderVars
<1>4. CASE SaveCancelled(s)
  <2>1. CASE status = "delivered"
    BY <1>4, <2>1, FinishStands, OneSlot, Quiet DEF SaveCancelled
  <2>2. CASE status # "delivered"
    <3>1. Grounds(s)'
      BY <1>4, <2>2 DEF SaveCancelled, Grounds, GoTo
    <3> QED
      BY <1>4, <2>2, <3>1, OneSlot, Quiet DEF SaveCancelled, Steps
  <2> QED
    BY <2>1, <2>2
<1> QED
  BY <1>1, <1>2, <1>3, <1>4

\* A request broken off leaves its grounds, and cash on its way, behind.
LEMMA CutStep ==
  ASSUME Inv, TypeOK', NEW s \in Requests, Cut(s)
  PROVE  Inv'
BY FinishStands, OneSlot, Quiet DEF Cut

\* The rider takes the cash, and answers for it.
LEMMA CashStep ==
  ASSUME Inv, TypeOK', NEW s \in Requests, CollectCash(s) \/ WriteLedger(s)
  PROVE  Inv'
<1> USE DEF Inv, TypeOK
<1>1. CASE CollectCash(s) /\ ~ CashIsOwed
  <2>1. Grounds(s)'
    BY <1>1 DEF CollectCash, Grounds, GoTo
  <2> QED
    BY <1>1, <2>1, OneSlot, Quiet DEF CollectCash, Steps
<1>2. CASE CollectCash(s) /\ CashIsOwed
  <2>1. payment' = [payment EXCEPT !.status = "paid"] /\ payment.method = "cod"
    BY <1>2 DEF CollectCash, CashIsOwed
  <2>2. CashTaken' /\ CodRow' /\ Backed(payment)'
    BY <2>1 DEF CashTaken, CodRow, Backed, BackedBy, PaymentRows
  <2>3. Grounds(s)'
    BY <1>2, <2>2 DEF CollectCash, Grounds, GoTo
  <2>4. (\A r \in Requests : Grounds(r))'
    <3>1. \A r \in Requests \ {s} :
            pc'[r] = pc[r] /\ code'[r] = code[r] /\ codSeen'[r] = codSeen[r]
      BY <1>2 DEF CollectCash, GoTo
    <3> QED
      BY <1>2, <2>2, <2>3, <3>1, OthersStand DEF CollectCash
  <2>5. (\A i \in DOMAIN added : Backed(added[i]))'
    BY <1>2 DEF CollectCash, Backed
  <2>6. CashOrOnline' /\ CashAccounted' /\ RefundHasReason'
    BY <1>2, <2>2 DEF CollectCash, GoTo, CashOrOnline, CashAccounted, RefundHasReason
  <2> QED
    BY <2>2, <2>4, <2>5, <2>6
<1>3. CASE WriteLedger(s)
  <2>1. Grounds(s)
    OBVIOUS
  <2>2. CashTaken /\ CashTaken'
    BY <1>3, <2>1 DEF WriteLedger, Grounds, CashTaken
  <2>3. Grounds(s)'
    BY <1>3 DEF WriteLedger, Grounds, GoTo
  <2>4. (\A r \in Requests : Grounds(r))'
    <3>1. \A r \in Requests \ {s} :
            pc'[r] = pc[r] /\ code'[r] = code[r] /\ codSeen'[r] = codSeen[r]
      BY <1>3 DEF WriteLedger, GoTo
    <3> QED
      BY <1>3, <2>2, <2>3, <3>1, OthersStand DEF WriteLedger
  <2>5. CodRow' /\ Backed(payment)' /\ (\A i \in DOMAIN added : Backed(added[i]))'
    BY <1>3, RowsStayBacked DEF WriteLedger
  <2>6. CashOrOnline' /\ CashAccounted' /\ RefundHasReason'
    BY <1>3, <2>2 DEF WriteLedger, CashOrOnline, CashAccounted, RefundHasReason
  <2> QED
    BY <2>4, <2>5, <2>6
<1> QED
  BY <1>1, <1>2, <1>3

\* A settlement that does not undo cash keeps everybody's grounds, its own
\* ending.
LEMMA SettleStands ==
  ASSUME Inv, NEW s \in Requests, Settle(s), CashTaken => CashTaken'
  PROVE  (\A r \in Requests : Grounds(r))'
<1>1. \A r \in Requests \ {s} :
        pc'[r] = pc[r] /\ code'[r] = code[r] /\ codSeen'[r] = codSeen[r]
  BY OneSlot DEF Settle
<1>2. Grounds(s)'
  BY FinishStands DEF Settle
<1> QED
  BY <1>1, <1>2, OthersStand DEF Settle

\* A settlement books credited money; it gives it back only if the rider has
\* the cash.
LEMMA SettleStep ==
  ASSUME Inv, TypeOK', NEW s \in Requests, Settle(s)
  PROVE  Inv'
<1> USE DEF Inv, TypeOK
<1> DEFINE row == OnlineRow(IF byWebhook[s] THEN code[s] ELSE NoQr)
<1>1. Grounds(s)
  OBVIOUS
<1>2. code[s] \in QRs /\ razorpay[code[s]] = "paid" /\ razorpay' = razorpay
  BY <1>1 DEF Settle, Grounds
<1>3. BackedBy(razorpay', row) /\ row.method = "online"
  BY <1>2, NoQrAssumption DEF BackedBy, OnlineRow
<1>4. UNCHANGED <<status, razorpay, ledger, cut>> /\ pc[s] # "ledgering"
  BY DEF Settle
<1>5. \A r \in Requests : pc'[r] = "ledgering" <=> pc[r] = "ledgering"
  BY <1>4 DEF Settle, Finish
<1>6. ASSUME UNCHANGED payment PROVE CodRow' /\ (CashTaken <=> CashTaken')
  BY <1>6 DEF CodRow, CashTaken
<1>7. CASE IsDouble(s) /\ DoubleCollection(s)
  <2>1. CashTaken
    BY <1>1, <1>7 DEF Settle, Grounds, IsDouble
  <2>2. UNCHANGED <<payment, added>>
    BY <1>7 DEF DoubleCollection
  <2>3. RefundHasReason'
    BY <1>2, <1>4, <1>6, <1>7, <2>1, <2>2 DEF DoubleCollection, RefundHasReason
  <2>4. Backed(payment)' /\ (\A i \in DOMAIN added : Backed(added[i]))'
    BY <1>4, <2>2, RowsStayBacked
  <2>5. (\A r \in Requests : Grounds(r))'
    BY <1>6, <2>2, SettleStands
  <2>6. CashOrOnline' /\ CashAccounted'
    BY <1>4, <1>5, <1>6, <2>2 DEF CashOrOnline, CashAccounted
  <2> QED
    BY <1>6, <2>2, <2>3, <2>4, <2>5, <2>6
<1>8. CASE Convert(s) /\ payment.status # "pending"
  <2>1. UNCHANGED <<payment, added, refunded>>
    BY <1>8 DEF Convert
  <2>2. Backed(payment)' /\ (\A i \in DOMAIN added : Backed(added[i]))'
    BY <1>4, <2>1, RowsStayBacked
  <2>3. (\A r \in Requests : Grounds(r))'
    BY <1>6, <2>1, SettleStands
  <2>4. CashOrOnline' /\ CashAccounted' /\ RefundHasReason'
    BY <1>4, <1>5, <1>6, <2>1 DEF CashOrOnline, CashAccounted, RefundHasReason
  <2> QED
    BY <1>6, <2>1, <2>2, <2>3, <2>4
<1>9. CASE Convert(s) /\ payment.status = "pending"
  <2>1. payment' = row /\ UNCHANGED <<added, refunded>>
    BY <1>9 DEF Convert
  <2>2. ~ CashTaken /\ ~ CashTaken'
    BY <1>9, <2>1 DEF CashTaken, OnlineRow
  <2>3. Backed(payment)' /\ CodRow'
    BY <1>3, <2>1 DEF CodRow, Backed
  <2>4. (\A i \in DOMAIN added : Backed(added[i]))'
    BY <1>4, <2>1 DEF Backed
  <2>5. (\A r \in Requests : Grounds(r))'
    BY <2>2, SettleStands
  <2>6. CashOrOnline' /\ CashAccounted' /\ RefundHasReason'
    BY <1>4, <2>1, <2>2 DEF CashOrOnline, CashAccounted, RefundHasReason
  <2> QED
    BY <2>3, <2>4, <2>5, <2>6
<1>10. CASE Book(s)
  <2>1. added' = Append(added, row) /\ UNCHANGED <<payment, refunded>>
    BY <1>10 DEF Book
  <2>2. Backed(payment)'
    BY <1>4, <2>1 DEF Backed
  <2>3. \A i \in DOMAIN added' : BackedBy(razorpay', added'[i])
    <3> HIDE DEF row
    <3>1. ASSUME NEW i \in DOMAIN added PROVE BackedBy(razorpay', added[i])
      BY <1>4 DEF Backed
    <3> SUFFICES ASSUME NEW i \in DOMAIN added' PROVE BackedBy(razorpay', added'[i])
      OBVIOUS
    <3>2. row \in PaymentRows
      BY <1>2, OnlineRowType DEF row
  <3>3. (i \in DOMAIN added /\ added'[i] = added[i]) \/ added'[i] = row
      BY <2>1, <3>2
    <3> QED
      BY <1>3, <3>1, <3>3
  <2>4. (\A r \in Requests : Grounds(r))'
    BY <1>6, <2>1, SettleStands
  <2>5. CashOrOnline' /\ CashAccounted' /\ RefundHasReason'
    BY <1>4, <1>5, <1>6, <2>1 DEF CashOrOnline, CashAccounted, RefundHasReason
  <2> QED
    BY <1>6, <2>1, <2>2, <2>3, <2>4, <2>5 DEF Backed
<1> QED
  BY <1>7, <1>8, <1>9, <1>10 DEF Settle

\* The rows of the order, one by one.
LEMMA PaymentsRows ==
  ASSUME Inv, NEW i \in DOMAIN Payments
  PROVE  /\ Payments[i] \in PaymentRows /\ Backed(Payments[i])
         /\ Payments[i] = payment \/ \E j \in DOMAIN added : Payments[i] = added[j]
<1>1. payment \in PaymentRows /\ added \in Seq(PaymentRows)
  BY DEF Inv, TypeOK
<1>2. Payments[i] = payment \/ \E j \in DOMAIN added : Payments[i] = added[j]
  <2>1. CASE i = 1
    BY <1>1, <2>1 DEF Payments
  <2>2. CASE i # 1
    <3>1. i - 1 \in DOMAIN added /\ Payments[i] = added[i - 1]
      BY <1>1, <2>2 DEF Payments
    <3> QED
      BY <3>1
  <2> QED
    BY <2>1, <2>2
<1> QED
  BY <1>1, <1>2 DEF Inv

\* A cancelled order's money goes back, and its row is marked.
LEMMA RefundStep ==
  ASSUME Inv, TypeOK', NEW s \in Requests, RefundOnCancel(s) \/ MarkRefunded(s)
  PROVE  Inv'
<1> USE DEF Inv, TypeOK
<1>1. Grounds(s)
  OBVIOUS
<1>2. CASE RefundOnCancel(s)
  <2>1. status = "cancelled" /\ status' = status
    BY <1>1, <1>2 DEF RefundOnCancel, Grounds
  <2>2. UNCHANGED <<payment, added, razorpay, ledger, cut>>
    BY <1>2 DEF RefundOnCancel
  <2>3. ASSUME NEW i \in DOMAIN Payments, Refundable(Payments[i])
        PROVE  Payments[i].txn \in QRs /\ razorpay[Payments[i].txn] = "paid"
    BY <2>3, PaymentsRows DEF Refundable, PaymentRows, Backed, BackedBy
  <2>4. /\ \A r \in Requests \ {s} :
             pc'[r] = pc[r] /\ code'[r] = code[r] /\ codSeen'[r] = codSeen[r]
        /\ Grounds(s)'
    <3>1. CASE Finish(s)
      BY <3>1, FinishStands, OneSlot
    <3>2. ASSUME NEW i \in DOMAIN Payments, Refundable(Payments[i]),
                 GoWith(s, "marking", Payments[i].txn)
          PROVE  /\ \A r \in Requests \ {s} :
                      pc'[r] = pc[r] /\ code'[r] = code[r] /\ codSeen'[r] = codSeen[r]
                 /\ Grounds(s)'
      BY <2>1, <2>3, <3>2 DEF GoWith, Grounds
    <3> QED
      BY <1>2, <3>1, <3>2 DEF RefundOnCancel
  <2>5. \A q \in refunded' : razorpay[q] = "paid"
    BY <1>2, <2>3 DEF RefundOnCancel, RefundHasReason
  <2>6. /\ CodRow' /\ (CashTaken <=> CashTaken')
        /\ Backed(payment)' /\ (\A i \in DOMAIN added : Backed(added[i]))'
    BY <2>2, RowsStayBacked
  <2>7. (\A r \in Requests : Grounds(r))'
    BY <2>1, <2>2, <2>4, <2>6, OthersStand
  <2>8. RefundHasReason'
    BY <2>1, <2>2, <2>5 DEF RefundHasReason
  <2>9. pc[s] # "ledgering"
    BY <1>2 DEF RefundOnCancel
  <2>10. CashOrOnline' /\ CashAccounted'
    BY <2>2, <2>4, <2>6, <2>9 DEF CashOrOnline, CashAccounted
  <2> QED
    BY <2>6, <2>7, <2>8, <2>10
<1>3. CASE MarkRefunded(s)
  <2>1. code[s] \in QRs /\ status = "cancelled"
    BY <1>1, <1>3 DEF MarkRefunded, Grounds
  <2>2. UNCHANGED <<status, razorpay, ledger, refunded, cut>>
    BY <1>3 DEF MarkRefunded
  <2>3. ASSUME NEW p \in PaymentRows, Backed(p)
        PROVE  BackedBy(razorpay', Refunded(p, code[s]))
    BY <2>2, <2>3 DEF Refunded, Backed, BackedBy, PaymentRows
  <2>4. Backed(payment)'
    BY <1>3, <2>3 DEF MarkRefunded, Backed
  <2>5. \A i \in DOMAIN added' : BackedBy(razorpay', added'[i])
    <3>1. \A i \in DOMAIN added : added[i] \in PaymentRows
      OBVIOUS
    <3>2. added' = [i \in DOMAIN added |-> Refunded(added[i], code[s])]
      BY <1>3 DEF MarkRefunded
    <3> QED
      BY <2>3, <3>1, <3>2
  <2>6. payment' = Refunded(payment, code[s])
    BY <1>3 DEF MarkRefunded
  <2>7. CodRow' /\ (CashTaken <=> CashTaken')
    BY <2>1, <2>6, NoQrAssumption DEF CodRow, CashTaken, Refunded, PaymentRows
  <2>8. (\A r \in Requests : Grounds(r))'
    <3>1. Grounds(s)'
      BY <1>3, FinishStands DEF MarkRefunded
    <3> QED
      BY <1>3, <2>2, <2>7, <3>1, OneSlot, OthersStand DEF MarkRefunded
  <2>9. pc[s] # "ledgering" /\ \A r \in Requests \ {s} : pc'[r] = pc[r]
    BY <1>3, OneSlot DEF MarkRefunded
  <2>10. CashOrOnline' /\ CashAccounted' /\ RefundHasReason'
    BY <2>2, <2>7, <2>9 DEF CashOrOnline, CashAccounted, RefundHasReason
  <2> QED
    BY <2>4, <2>5, <2>7, <2>8, <2>10 DEF Backed
<1> QED
  BY <1>2, <1>3

LEMMA InvStep == Inv /\ [Next]_vars => Inv'
<1> SUFFICES ASSUME Inv, [Next]_vars PROVE Inv'
  OBVIOUS
<1>1. TypeOK'
  BY TypeStep
<1> QED
  BY <1>1, OutsideStep, CodeStep, WordStep, OrderStep, CutStep, CashStep, SettleStep,
     RefundStep DEF Next

LEMMA Invariance == Spec => []Inv
<1>1. Init => Inv
  BY InitInv
<1>2. Inv /\ [Next]_vars => Inv'
  BY InvStep
<1> QED
  BY <1>1, <1>2, PTL DEF Spec

----------------------------------------------------------------------------
(* Settled codes and booked rows.                                          *)

CodesPaid == {q \in QRs : qr[q] = "paid"}

OnlineRows == {i \in DOMAIN Payments : Payments[i].method = "online"}

\* One settlement at a time has locked the order, and the COD row it has
\* read is not converted while it has.
LockInv ==
  /\ \A s, t \in Requests : pc[s] = "settling" /\ pc[t] = "settling" => s = t
  /\ \A s \in Requests : pc[s] = "settling" /\ codSeen[s] # "none" => payment.method = "cod"

\* As many online rows as paid codes, unless cash was taken.
BooksInv ==
  /\ IsFiniteSet(CodesPaid)
  /\ ~ CashTaken => Cardinality(CodesPaid) <= Cardinality(OnlineRows)

BooksFullInv == Inv /\ LockInv /\ BooksInv

\* The rows by their place: the checkout's first, then those added.
LEMMA PaymentsShape ==
  ASSUME TypeOK
  PROVE  /\ Len(added) \in Nat /\ DOMAIN added = 1 .. Len(added)
         /\ DOMAIN Payments = 1 .. Len(added) + 1
         /\ Payments[1] = payment
         /\ \A i \in DOMAIN added : Payments[i + 1] = added[i]
         /\ \A i \in DOMAIN Payments : i = 1 \/ i - 1 \in DOMAIN added
         /\ IsFiniteSet(OnlineRows)
<1>1. added \in Seq(PaymentRows) /\ payment \in PaymentRows
  BY DEF TypeOK
<1>2. /\ Len(added) \in Nat /\ DOMAIN added = 1 .. Len(added)
      /\ DOMAIN Payments = 1 .. Len(added) + 1
      /\ Payments[1] = payment
      /\ \A i \in DOMAIN added : Payments[i + 1] = added[i]
      /\ \A i \in DOMAIN Payments : i = 1 \/ i - 1 \in DOMAIN added
  BY <1>1 DEF Payments
<1>3. IsFiniteSet(1 .. Len(added) + 1)
  BY <1>2, FS_Interval
<1>4. OnlineRows \subseteq 1 .. Len(added) + 1
  BY <1>2 DEF OnlineRows
<1>5. IsFiniteSet(OnlineRows)
  BY <1>3, <1>4, FS_Subset
<1> QED
  BY <1>2, <1>5

LEMMA NextShape ==
  ASSUME TypeOK'
  PROVE  /\ DOMAIN Payments' = 1 .. Len(added') + 1
         /\ Payments'[1] = payment'
         /\ \A i \in DOMAIN added' : Payments'[i + 1] = added'[i]
<1>1. added' \in Seq(PaymentRows) /\ payment' \in PaymentRows
  BY DEF TypeOK
<1>2. Payments' = <<payment'>> \o added'
  BY DEF Payments
<1> QED
  BY <1>1, <1>2

\* What nearly every step leaves alone: the rows' methods, the codes that
\* are paid, cash that was taken, and the lock.
LEMMA BooksKept ==
  ASSUME TypeOK, LockInv, BooksInv, CodesPaid' \subseteq CodesPaid, OnlineRows' = OnlineRows,
         CashTaken => CashTaken', payment'.method = payment.method,
         \A r \in Requests : pc'[r] = "settling" => pc[r] = "settling" /\ codSeen'[r] = codSeen[r]
  PROVE  LockInv' /\ BooksInv'
<1>1. LockInv'
  BY DEF LockInv
<1>2. IsFiniteSet(CodesPaid') /\ Cardinality(CodesPaid') <= Cardinality(CodesPaid)
  BY FS_Subset DEF BooksInv
<1>3. /\ Cardinality(CodesPaid') \in Nat /\ Cardinality(CodesPaid) \in Nat
      /\ Cardinality(OnlineRows) \in Nat
  BY <1>2, FS_CardinalityType, PaymentsShape DEF BooksInv
<1>4. ~ CashTaken' => Cardinality(CodesPaid') <= Cardinality(OnlineRows')
  BY <1>2, <1>3 DEF BooksInv
<1> QED
  BY <1>1, <1>2, <1>4 DEF BooksInv

\* A request that goes on to anything but a settlement, or ends.
LEMMA NoNewLock ==
  ASSUME TypeOK, NEW s \in Requests, NEW next \in Steps \ {"settling"}, NEW q,
         GoTo(s, next) \/ GoWith(s, next, q) \/ Finish(s)
  PROVE  \A r \in Requests :
           pc'[r] = "settling" => r # s /\ pc[r] = "settling" /\ codSeen'[r] = codSeen[r]
BY DEF TypeOK, GoTo, GoWith, Finish

\* Rows and codes that a step does not write.
LEMMA UntouchedBooks ==
  ASSUME UNCHANGED <<payment, added, qr>>
  PROVE  /\ CodesPaid' = CodesPaid /\ OnlineRows' = OnlineRows
         /\ CashTaken' <=> CashTaken
BY DEF CodesPaid, OnlineRows, Payments, CashTaken

LEMMA RowsUntouched ==
  ASSUME UNCHANGED <<payment, added>>
  PROVE  OnlineRows' = OnlineRows /\ (CashTaken' <=> CashTaken)
BY DEF OnlineRows, Payments, CashTaken

\* Rows whose methods stay are the same rows.
LEMMA MethodsKept ==
  ASSUME TypeOK, TypeOK', payment'.method = payment.method,
         DOMAIN added' = DOMAIN added,
         \A i \in DOMAIN added : added'[i].method = added[i].method
  PROVE  OnlineRows' = OnlineRows
<1>1. Len(added') = Len(added)
  BY DEF TypeOK
<1>2. /\ DOMAIN Payments' = 1 .. Len(added) + 1 /\ Payments'[1] = payment'
      /\ \A i \in DOMAIN added : Payments'[i + 1] = added'[i]
  BY <1>1, NextShape
<1>3. DOMAIN Payments' = DOMAIN Payments
  BY <1>2, PaymentsShape
<1>4. ASSUME NEW i \in DOMAIN Payments PROVE Payments'[i].method = Payments[i].method
  <2>1. CASE i = 1
    BY <1>2, <2>1, PaymentsShape
  <2>2. CASE i # 1
    <3>1. PICK j \in DOMAIN added : i = j + 1
      BY <2>2, PaymentsShape
    <3> QED
      BY <1>2, <3>1, PaymentsShape
  <2> QED
    BY <2>1, <2>2
<1> QED
  BY <1>3, <1>4 DEF OnlineRows

\* The settlement: its code becomes paid and a row online, or cash is there.
LEMMA SettleBooks ==
  ASSUME Inv, TypeOK', LockInv, BooksInv, NEW s \in Requests, Settle(s)
  PROVE  LockInv' /\ BooksInv'
<1> DEFINE row == OnlineRow(IF byWebhook[s] THEN code[s] ELSE NoQr)
<1>0. TypeOK /\ TypeOK' /\ code[s] \in QRs /\ pc[s] = "settling" /\ Grounds(s) /\ CodRow
  BY DEF Inv, Grounds, Settle
<1>1. \A r \in Requests : pc'[r] # "settling"
  BY <1>0 DEF Settle, Finish, TypeOK, LockInv
<1>2. LockInv'
  BY <1>1 DEF LockInv
<1>3. CodesPaid' = CodesPaid \cup {code[s]}
  BY <1>0 DEF Settle, CodesPaid, TypeOK
<1>4. IsFiniteSet(CodesPaid')
  BY <1>3, FS_AddElement DEF BooksInv
<1>5. /\ Cardinality(CodesPaid') \in Nat /\ Cardinality(CodesPaid) \in Nat
      /\ Cardinality(OnlineRows) \in Nat
      /\ Cardinality(CodesPaid') <= Cardinality(CodesPaid) + 1
  <2>1. /\ Cardinality(CodesPaid') \in Nat /\ Cardinality(CodesPaid) \in Nat
        /\ Cardinality(OnlineRows) \in Nat
    BY <1>0, <1>4, FS_CardinalityType, PaymentsShape DEF BooksInv
  <2>2. Cardinality(CodesPaid') = Cardinality(CodesPaid)
          \/ Cardinality(CodesPaid') = Cardinality(CodesPaid) + 1
    BY <1>3, FS_AddElement DEF BooksInv
  <2> QED
    BY <2>1, <2>2
\* A new online row makes up for the new paid code.
<1>6. ASSUME NEW n, n \notin OnlineRows, OnlineRows' = OnlineRows \cup {n}, ~ CashTaken
      PROVE  Cardinality(CodesPaid') <= Cardinality(OnlineRows')
  <2>1. Cardinality(OnlineRows') = Cardinality(OnlineRows) + 1
    BY <1>0, <1>6, PaymentsShape, FS_AddElement
  <2> QED
    BY <1>5, <1>6, <2>1 DEF BooksInv
<1>7. CASE UNCHANGED <<payment, added>> /\ CashTaken
  BY <1>2, <1>4, <1>7 DEF BooksInv, CashTaken
<1>8. CASE codSeen[s] # "none" /\ payment.status = "pending" /\ payment' = row /\ added' = added
  <2>1. payment.method = "cod" /\ ~ CashTaken /\ row.method = "online"
    BY <1>0, <1>8 DEF LockInv, CashTaken, OnlineRow
  <2>2. /\ DOMAIN Payments' = DOMAIN Payments /\ Payments'[1] = row
        /\ \A i \in DOMAIN Payments : i # 1 => Payments'[i] = Payments[i]
    <3>1. /\ DOMAIN Payments' = 1 .. Len(added') + 1 /\ Payments'[1] = payment'
          /\ \A i \in DOMAIN added' : Payments'[i + 1] = added'[i]
      BY <1>0, NextShape
    <3>2. DOMAIN Payments' = DOMAIN Payments /\ Payments'[1] = row
      BY <1>0, <1>8, <3>1, PaymentsShape
    <3>3. ASSUME NEW i \in DOMAIN Payments, i # 1 PROVE Payments'[i] = Payments[i]
      <4>1. PICK j \in DOMAIN added : i = j + 1
        BY <1>0, <3>3, PaymentsShape
      <4> QED
        BY <1>0, <1>8, <3>1, <4>1, PaymentsShape
    <3> QED
      BY <3>2, <3>3
  <2>3. 1 \in DOMAIN Payments /\ Payments[1] = payment
    BY <1>0, PaymentsShape
  <2>4. OnlineRows' = OnlineRows \cup {1} /\ 1 \notin OnlineRows
    BY <2>1, <2>2, <2>3 DEF OnlineRows
  <2> QED
    BY <1>2, <1>4, <1>6, <2>1, <2>4 DEF BooksInv
<1>9. CASE Book(s)
  <2> DEFINE n == Len(added) + 2
  <2>1. added' = Append(added, row) /\ payment' = payment
    BY <1>9 DEF Book
  <2>2. row \in PaymentRows /\ row.method = "online"
    BY <1>0, OnlineRowType DEF OnlineRow
  <2> HIDE DEF row
  <2>3. /\ Len(added') = Len(added) + 1 /\ added'[Len(added) + 1] = row
        /\ \A i \in DOMAIN added : added'[i] = added[i] /\ i \in DOMAIN added'
        /\ Len(added) + 1 \in DOMAIN added'
    BY <1>0, <2>1, <2>2 DEF TypeOK
  <2>4. /\ DOMAIN Payments' = 1 .. Len(added') + 1 /\ Payments'[1] = payment'
        /\ \A i \in DOMAIN added' : Payments'[i + 1] = added'[i]
    BY <1>0, NextShape
  <2>5. /\ DOMAIN Payments' = DOMAIN Payments \cup {n} /\ n \notin DOMAIN Payments
        /\ Payments'[n] = row
    <3>1. DOMAIN Payments = 1 .. Len(added) + 1 /\ Len(added) \in Nat
      BY <1>0, PaymentsShape
    <3>2. Payments'[Len(added) + 1 + 1] = row
      BY <2>3, <2>4
    <3>3. Len(added) + 1 + 1 = n
      BY <3>1
    <3> QED
      BY <2>3, <2>4, <3>1, <3>2, <3>3
  <2>6. ASSUME NEW i \in DOMAIN Payments PROVE Payments'[i] = Payments[i]
    <3>1. CASE i = 1
      BY <1>0, <2>1, <2>4, <3>1, PaymentsShape
    <3>2. CASE i # 1
      <4>1. PICK j \in DOMAIN added : i = j + 1
        BY <1>0, <3>2, PaymentsShape
      <4> QED
        BY <1>0, <2>3, <2>4, <4>1, PaymentsShape
    <3> QED
      BY <3>1, <3>2
  <2> HIDE DEF n
  <2>7. OnlineRows' = OnlineRows \cup {n} /\ n \notin OnlineRows
    BY <2>2, <2>5, <2>6 DEF OnlineRows
  <2>8. ~ CashTaken' => ~ CashTaken
    BY <2>1 DEF CashTaken
  <2> QED
    BY <1>2, <1>4, <1>6, <2>7, <2>8 DEF BooksInv
<1>10. CASE Convert(s) /\ codSeen[s] # "none" /\ payment.status # "pending"
  <2>1. CashTaken
    BY <1>0, <1>10 DEF LockInv, CodRow, CashTaken
  <2> QED
    BY <1>7, <1>10, <2>1 DEF Convert
<1>11. CASE DoubleCollection(s) /\ IsDouble(s)
  <2>1. CashTaken
    BY <1>0, <1>11 DEF Grounds, IsDouble
  <2> QED
    BY <1>7, <1>11, <2>1 DEF DoubleCollection
<1> QED
  BY <1>8, <1>9, <1>10, <1>11 DEF Settle, Convert

LEMMA InitBooks == Init => BooksFullInv
<1> SUFFICES ASSUME Init PROVE BooksFullInv
  OBVIOUS
<1>1. CodesPaid = {}
  BY DEF Init, CodesPaid
<1>2. TypeOK
  BY InitInv DEF Inv
<1>3. Cardinality(OnlineRows) \in Nat
  BY <1>2, PaymentsShape, FS_CardinalityType
<1>4. BooksInv
  BY <1>1, <1>3, FS_EmptySet DEF BooksInv
<1>5. LockInv
  BY DEF Init, LockInv
<1> QED
  BY <1>4, <1>5, InitInv DEF BooksFullInv

LEMMA BooksStep == BooksFullInv /\ [Next]_vars => BooksFullInv'
<1> SUFFICES ASSUME Inv, LockInv, BooksInv, [Next]_vars PROVE LockInv' /\ BooksInv'
  BY InvStep DEF BooksFullInv
<1>0. TypeOK /\ TypeOK' /\ CodRow
  BY TypeStep DEF Inv
<1>1. ASSUME UNCHANGED <<payment, added, qr>>,
             \A r \in Requests :
               pc'[r] = "settling" => pc[r] = "settling" /\ codSeen'[r] = codSeen[r]
      PROVE  LockInv' /\ BooksInv'
  BY <1>0, <1>1, UntouchedBooks, BooksKept
<1>2. ASSUME \/ \E q \in QRs : Scan(q) \/ Lapse(q)
             \/ LeaveKitchen
             \/ UNCHANGED vars
      PROVE  LockInv' /\ BooksInv'
  BY <1>1, <1>2 DEF Scan, Lapse, LeaveKitchen, vars, orderVars, slotVars
<1>3. ASSUME NEW s \in Requests, RequestQr(s) \/ InsertQr(s) \/ RetireQr(s)
      PROVE  LockInv' /\ BooksInv'
  <2>1. UNCHANGED <<payment, added>>
    BY <1>3 DEF RequestQr, InsertQr, RetireQr
  <2>2. CodesPaid' \subseteq CodesPaid
    BY <1>0, <1>3 DEF RequestQr, InsertQr, RetireQr, Retired, CodesPaid, TypeOK
  <2>3. \A r \in Requests :
          pc'[r] = "settling" => pc[r] = "settling" /\ codSeen'[r] = codSeen[r]
    BY <1>0, <1>3, NoNewLock DEF RequestQr, InsertQr, RetireQr, slotVars, Steps
  <2> QED
    BY <1>0, <2>1, <2>2, <2>3, RowsUntouched, BooksKept
<1>4. ASSUME NEW s \in Requests,
             \/ Mint(s) \/ AbandonQr(s) \/ CloseQr(s) \/ CloseAtRazorpay(s)
             \/ \E q \in QRs : Poll(s, q)
             \/ AskRazorpay(s)
      PROVE  LockInv' /\ BooksInv'
  <2>1. UNCHANGED <<payment, added, qr>>
    BY <1>4 DEF Mint, AbandonQr, CloseQr, CloseAtRazorpay, Poll, AskRazorpay, orderVars
  <2>2. \A r \in Requests :
          pc'[r] = "settling" => pc[r] = "settling" /\ codSeen'[r] = codSeen[r]
    BY <1>0, <1>4, NoNewLock
       DEF Mint, AbandonQr, CloseQr, CloseAtRazorpay, Poll, AskRazorpay, Steps
  <2> QED
    BY <1>1, <2>1, <2>2
<1>5. ASSUME NEW s \in Requests, NEW q \in QRs, Webhook(s, q) PROVE LockInv' /\ BooksInv'
  BY <1>0, <1>1, <1>5 DEF Webhook, orderVars, TypeOK
<1>6. ASSUME NEW s \in Requests, LockOrder(s) PROVE LockInv' /\ BooksInv'
  <2>1. UNCHANGED <<payment, added, qr>>
    BY <1>6 DEF LockOrder, orderVars
  <2>2. \A r \in Requests : pc'[r] = "settling" => r = s
    BY <1>0, <1>6 DEF LockOrder, OrderUnlocked, TypeOK
  <2>3. codSeen'[s] # "none" => payment.method = "cod"
    BY <1>0, <1>6 DEF LockOrder, TypeOK
  <2>4. LockInv'
    BY <2>1, <2>2, <2>3 DEF LockInv
  <2> QED
    BY <2>1, <2>4, UntouchedBooks DEF BooksInv
<1>7. ASSUME NEW s \in Requests, Settle(s) PROVE LockInv' /\ BooksInv'
  BY <1>0, <1>7, SettleBooks
<1>8. ASSUME NEW s \in Requests,
             \/ \E by \in {"rider", "staff"} : TapDelivered(s, by)
             \/ SaveDelivered(s) \/ WriteLedger(s) \/ TapCancel(s) \/ SaveCancelled(s)
             \/ RefundOnCancel(s) \/ Cut(s)
      PROVE  LockInv' /\ BooksInv'
  <2>1. UNCHANGED <<payment, added, qr>>
    BY <1>8 DEF TapDelivered, SaveDelivered, WriteLedger, TapCancel, SaveCancelled,
                RefundOnCancel, Cut, orderVars
  <2>2. \A r \in Requests :
          pc'[r] = "settling" => pc[r] = "settling" /\ codSeen'[r] = codSeen[r]
    BY <1>0, <1>8, NoNewLock
       DEF TapDelivered, SaveDelivered, WriteLedger, TapCancel, SaveCancelled,
           RefundOnCancel, Cut, Steps
  <2> QED
    BY <1>1, <2>1, <2>2
<1>9. ASSUME NEW s \in Requests, CollectCash(s) PROVE LockInv' /\ BooksInv'
  <2>1. /\ UNCHANGED <<added, qr>> /\ payment'.method = payment.method
        /\ CashTaken => CashTaken'
    BY <1>0, <1>9 DEF CollectCash, CashIsOwed, CashTaken, TypeOK, PaymentRows
  <2>2. OnlineRows' = OnlineRows
    BY <1>0, <2>1, MethodsKept
  <2>3. \A r \in Requests :
          pc'[r] = "settling" => pc[r] = "settling" /\ codSeen'[r] = codSeen[r]
    BY <1>0, <1>9, NoNewLock DEF CollectCash, Steps
  <2> QED
    BY <1>0, <2>1, <2>2, <2>3, BooksKept DEF CodesPaid
<1>10. ASSUME NEW s \in Requests, MarkRefunded(s) PROVE LockInv' /\ BooksInv'
  <2>1. qr' = qr /\ payment'.method = payment.method /\ code[s] # NoQr
    BY <1>0, <1>10, NoQrAssumption DEF MarkRefunded, Refunded, Inv, Grounds, TypeOK, PaymentRows
  <2>2. CashTaken => CashTaken'
    BY <1>0, <1>10, <2>1 DEF MarkRefunded, Refunded, CashTaken, CodRow
  <2>3. /\ DOMAIN added' = DOMAIN added
        /\ \A i \in DOMAIN added : added'[i].method = added[i].method
    <3>1. \A i \in DOMAIN added : added[i] \in PaymentRows
      BY <1>0 DEF TypeOK
    <3> QED
      BY <1>10, <3>1 DEF MarkRefunded, Refunded, PaymentRows
  <2>4. OnlineRows' = OnlineRows
    BY <1>0, <2>1, <2>3, MethodsKept
  <2>5. \A r \in Requests :
          pc'[r] = "settling" => pc[r] = "settling" /\ codSeen'[r] = codSeen[r]
    BY <1>0, <1>10, NoNewLock DEF MarkRefunded, Steps
  <2> QED
    BY <1>0, <2>1, <2>2, <2>4, <2>5, BooksKept DEF CodesPaid
<1> QED
  BY <1>2, <1>3, <1>4, <1>5, <1>6, <1>7, <1>8, <1>9, <1>10 DEF Next

LEMMA BooksInvariance == Spec => []BooksFullInv
  BY InitBooks, BooksStep, PTL DEF Spec

----------------------------------------------------------------------------
(* The theorems.                                                           *)

\* Rows, codes and requests keep their types, whatever interleaves.
THEOREM TypeCorrect == Spec => []TypeOK
<1>1. Inv => TypeOK
  BY DEF Inv
<1> QED
  BY <1>1, Invariance, PTL

\* The COD row is claimed once (delivered's UPDATE ... WHERE status =
\* 'pending' against settleQrPayment's): once the rider answers for cash the
\* row says cash for good.
THEOREM CashIsClaimedOnce == Spec => []CashOrOnline
<1>1. Inv => CashOrOnline
  BY DEF Inv
<1> QED
  BY <1>1, Invariance, PTL

\* Unless a delivery is cut off, cash on the books is cash the rider's
\* ledger carries, and the other way round.
THEOREM CashIsAnsweredFor == Spec => []CashReachesLedger
<1>1. Inv => CashReachesLedger
  BY DEF Inv, CashOrOnline, CashAccounted, CashReachesLedger
<1> QED
  BY <1>1, Invariance, PTL

\* Money is booked only when Razorpay credited it, and goes back only from a
\* cancelled order or one paid in cash as well.
THEOREM MoneyHasGrounds == Spec => []MoneyHasReason
<1>1. Inv => MoneyHasReason
  <2> SUFFICES ASSUME Inv PROVE MoneyHasReason
    OBVIOUS
  <2>1. NoPhantomMoney
    BY PaymentsRows DEF NoPhantomMoney, Backed, BackedBy
  <2> QED
    BY <2>1 DEF Inv, MoneyHasReason
<1> QED
  BY <1>1, Invariance, PTL

\* A code is marked paid in the transaction that books its money: unless the
\* rider took cash, no settled code is without an online row of its own,
\* whoever settles it and whatever becomes of the order meanwhile.
THEOREM SettledIsBooked == Spec => []SettledQrIsBooked
<1>1. BooksFullInv => SettledQrIsBooked
  BY DEF BooksFullInv, BooksInv, CodesPaid, OnlineRows, SettledQrIsBooked
<1> QED
  BY <1>1, BooksInvariance, PTL
=============================================================================

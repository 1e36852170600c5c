-------------------------- MODULE Checkout_proofs --------------------------
(***************************************************************************)
(* Proofs about Checkout for any carts, requests, wishes and amounts.      *)
(*                                                                         *)
(* The invariants speak of rows; what keeps them is what a transaction in  *)
(* flight carries.  Inv says of each request that the number it has drawn  *)
(* is the next one, and that nobody else has drawn; that the wallet still  *)
(* has what it debited; and that what it will book is what Razorpay        *)
(* captured, within the tolerance.                                         *)
(***************************************************************************)
EXTENDS Checkout, FiniteSetTheorems, TLAPS

\* Whatever has been captured has a Razorpay order and a snapshot, and a
\* snapshot is consumed by an order only.
SnapshotInv ==
  /\ \A c \in captured : quote[c] > 0
  /\ \A c \in Carts : quote[c] > 0 => snapshot[c] # "none"
  /\ \A c \in Carts : snapshot[c] = "consumed" => HasOrder(c)

\* A request past its beginning is for a payment that was made, and once it
\* has compared them its total is what was paid.
PaidInv ==
  \A s \in Requests :
    /\ task[s].pc # "idle" /\ want[task[s].cart].online => task[s].cart \in captured
    /\ task[s].pc \in HoldsWallet /\ want[task[s].cart].online
         => task[s].total - quote[task[s].cart] \in -Tolerance .. Tolerance

\* One number is drawn at a time, and it is the next.
NumberInv ==
  /\ \A s \in Requests : task[s].pc = "drawn" => task[s].invoice = last + 1
  /\ \A s, t \in Requests : task[s].pc = "drawn" /\ task[t].pc = "drawn" => s = t

\* One request at a time holds the wallet, which has what it takes.
WalletInv ==
  /\ \A s \in Requests :
       task[s].pc \in HoldsWallet =>
         IF want[task[s].cart].wallet THEN task[s].wallet <= wallet ELSE task[s].wallet = 0
  /\ \A s, t \in Requests :
       /\ task[s].pc \in HoldsWallet /\ want[task[s].cart].wallet
       /\ task[t].pc \in HoldsWallet /\ want[task[t].cart].wallet
       => s = t

Inv ==
  /\ TypeOK
  /\ SnapshotInv /\ CapturedIsKnown
  /\ PaidInv /\ ChargedIsPaid
  /\ NumberInv /\ InvoicesUnbroken
  /\ WalletInv /\ NeverOverdrawn

----------------------------------------------------------------------------
(* Type correctness.                                                       *)

TaskOK ==
  /\ task \in [Requests -> Task]
  /\ \A s \in Requests : (task[s].pc = "idle" <=> task[s].cart = NoCart)

LEMMA IdleType == Idle \in Task /\ Idle.pc = "idle" /\ Idle.cart = NoCart
  BY DEF Idle, Task

\* A request is replaced by another of the type.
LEMMA StoreType ==
  ASSUME TypeOK, NEW s \in Requests, NEW t \in Task, (t.pc = "idle" <=> t.cart = NoCart),
         task' = [task EXCEPT ![s] = t]
  PROVE  TaskOK'
  BY DEF TypeOK, TaskOK

\* A request that begins.
LEMMA BeginType ==
  ASSUME NEW pc \in {"starting", "checked"}, NEW c \in Carts,
         NEW via \in {"browser", "webhook"}, NEW p \in Nat,
         NEW t, t = [Idle EXCEPT !.pc = pc, !.cart = c, !.via = via, !.price = p]
  PROVE  t \in Task /\ (t.pc = "idle" <=> t.cart = NoCart)
<1>1. t = [pc |-> pc, cart |-> c, via |-> via, price |-> p, total |-> 0, wallet |-> 0, invoice |-> 0]
  BY DEF Idle
<1>2. t.pc = pc /\ t.cart = c
  BY <1>1
<1>3. t \in Task
  BY <1>1 DEF Task
<1> QED
  BY <1>2, <1>3, NoCartAssumption

LEMMA WebhookType ==
  ASSUME NEW c \in Carts,
         NEW t, t = [Idle EXCEPT !.pc = "starting", !.cart = c, !.via = "webhook"]
  PROVE  t \in Task /\ (t.pc = "idle" <=> t.cart = NoCart)
<1>1. t = [pc |-> "starting", cart |-> c, via |-> "webhook",
           price |-> 0, total |-> 0, wallet |-> 0, invoice |-> 0]
  BY DEF Idle
<1>2. t.pc = "starting" /\ t.cart = c
  BY <1>1
<1>3. t \in Task
  BY <1>1 DEF Task
<1> QED
  BY <1>2, <1>3, NoCartAssumption

LEMMA RejectsType ==
  ASSUME TypeOK, NEW s \in Requests, task[s].pc # "idle", Rejects(s)
  PROVE  TaskOK'
<1>1. task[s] \in Task /\ task[s].cart # NoCart
  BY DEF TypeOK
<1>2. [task[s] EXCEPT !.pc = "parking"] \in Task
  BY <1>1 DEF Task
<1>3. [task[s] EXCEPT !.pc = "parking"].pc = "parking"
  BY <1>1 DEF Task
<1>4. [task[s] EXCEPT !.pc = "parking"].cart = task[s].cart
  BY <1>1 DEF Task
<1>5. CASE task[s].via = "webhook"
  <2>1. task' = [task EXCEPT ![s] = [task[s] EXCEPT !.pc = "parking"]]
    BY <1>5 DEF Rejects
  <2> QED
    BY <1>1, <1>2, <1>3, <1>4, <2>1 DEF TypeOK, TaskOK
<1>6. CASE task[s].via # "webhook"
  <2>1. task' = [task EXCEPT ![s] = Idle]
    BY <1>6 DEF Rejects
  <2> QED
    BY <2>1, IdleType DEF TypeOK, TaskOK
<1> QED
  BY <1>5, <1>6

LEMMA FinishType ==
  ASSUME TypeOK, NEW s \in Requests, task[s].pc # "idle", Finish(s)
  PROVE  TaskOK' /\ answered' \subseteq Carts
<1>1. TaskOK'
  BY IdleType DEF Finish, TypeOK, TaskOK
<1>2. task[s].cart \in Carts
  BY DEF TypeOK, Task
<1> QED
  BY <1>1, <1>2 DEF Finish, TypeOK

LEMMA OpenType ==
  ASSUME TypeOK, NEW s \in Requests, NEW c \in Carts, NEW via \in {"browser", "webhook"},
         Open(s, c, via)
  PROVE  TaskOK' /\ answered' \subseteq Carts /\ raced' \subseteq Carts
<1>1. CASE AlreadyOrdered(c)
  BY <1>1, IdleType DEF Open, TypeOK, TaskOK
<1>2. CASE ~ AlreadyOrdered(c)
  <2> DEFINE t == [Idle EXCEPT !.pc = "checked", !.cart = c, !.via = via, !.price = price]
  <2>1. price \in Nat
    BY AmountsAssumption DEF TypeOK
  <2>2. t \in Task /\ (t.pc = "idle" <=> t.cart = NoCart)
    <3>1. t = [Idle EXCEPT !.pc = "checked", !.cart = c, !.via = via, !.price = price]
      OBVIOUS
    <3> HIDE DEF t
    <3> QED
      BY <2>1, <3>1, BeginType, ZenonT(60)
  <2>3. task' = [task EXCEPT ![s] = t] /\ answered' = answered /\ raced' \subseteq Carts
    BY <1>2 DEF Open, TypeOK
  <2> HIDE DEF t
  <2>4. TaskOK'
    BY <2>2, <2>3, StoreType
  <2> QED
    BY <2>3, <2>4 DEF TypeOK
<1> QED
  BY <1>1, <1>2

LEMMA InitType == Init => TypeOK
<1> SUFFICES ASSUME Init PROVE TypeOK
  OBVIOUS
<1>1. stock \in 0 .. Portions /\ wallet \in Int /\ orders \in Seq(Order)
  BY AmountsAssumption DEF Init
<1>2. task \in [Requests -> Task] /\ \A s \in Requests : task[s].pc = "idle" /\ task[s].cart = NoCart
  BY IdleType DEF Init
<1> QED
  BY <1>1, <1>2 DEF Init, TypeOK

\* What a checkout debits and charges, the debit within the balance.
LEMMA AmountsType ==
  ASSUME TypeOK, NEW s \in Requests, task[s].pc # "idle"
  PROVE  LET w == want[task[s].cart]
             debit == Debit(w, task[s].price)
         IN /\ debit \in Int /\ Payable(w, task[s].price) \in Int
            /\ IF w.wallet THEN debit <= wallet ELSE debit = 0
<1>1. task[s] \in Task /\ task[s].cart \in Carts
  BY DEF TypeOK, Task
<1>2. want[task[s].cart].fee \in Nat
  BY <1>1, WantsAssumption DEF TypeOK, Want
<1>3. Goods(want[task[s].cart], task[s].price) \in Int
  BY <1>1, AmountsAssumption DEF Goods, Task
<1>4. wallet \in Int /\ Flat \in Nat
  BY AmountsAssumption DEF TypeOK
<1> QED
  BY <1>2, <1>3, <1>4 DEF Debit, Payable, WalletPart, Smaller

LEMMA TypeStep == TypeOK /\ [Next]_vars => TypeOK'
<1> SUFFICES ASSUME TypeOK, [Next]_vars PROVE TypeOK'
  OBVIOUS
<1>1. ASSUME Reprice PROVE TypeOK'
  BY <1>1 DEF Reprice, TypeOK, rows
<1>2. ASSUME NEW c \in Carts, OpenPayment(c) PROVE TypeOK'
  <2>1. Quoted(want[c], price) \in Int
    BY AmountsAssumption, WantsAssumption DEF TypeOK, Quoted, Goods, WalletPart, Smaller, Want
  <2>2. quote' \in [Carts -> Nat]
    BY <1>2, <2>1 DEF OpenPayment, TypeOK
  <2>3. snapshot' \in [Carts -> {"none", "pending", "consumed"}]
    BY <1>2 DEF OpenPayment, TypeOK
  <2> QED
    BY <1>2, <2>2, <2>3 DEF OpenPayment, TypeOK
<1>3. ASSUME NEW c \in Carts, Capture(c) PROVE TypeOK'
  BY <1>3 DEF Capture, TypeOK, rows, history
<1>4. ASSUME NEW s \in Requests, NEW c \in Carts, Ask(s, c) PROVE TypeOK'
  <2>1. TaskOK' /\ answered' \subseteq Carts /\ raced' \subseteq Carts
    BY <1>4, OpenType DEF Ask
  <2> QED
    BY <1>4, <2>1 DEF Ask, TypeOK, TaskOK, rows, world, history
<1>5. ASSUME NEW s \in Requests, NEW c \in Carts, Webhook(s, c) PROVE TypeOK'
  <2> DEFINE t == [Idle EXCEPT !.pc = "starting", !.cart = c, !.via = "webhook"]
  <2>1. t \in Task /\ (t.pc = "idle" <=> t.cart = NoCart)
    BY WebhookType
  <2>2. /\ task' = task \/ task' = [task EXCEPT ![s] = t]
        /\ answered' \subseteq Carts
    BY <1>5 DEF Webhook, TypeOK
  <2> HIDE DEF t
  <2>3. TaskOK' /\ answered' \subseteq Carts
    <3>1. CASE task' = task
      BY <2>2, <3>1 DEF TypeOK, TaskOK
    <3>2. CASE task' = [task EXCEPT ![s] = t]
      BY <2>1, <2>2, <3>2, StoreType
    <3> QED
      BY <2>2, <3>1, <3>2
  <2> QED
    BY <1>5, <2>3 DEF Webhook, TypeOK, TaskOK, rows, world, history
<1>6. ASSUME NEW s \in Requests, Begin(s) PROVE TypeOK'
  <2>1. task[s].cart \in Carts
    BY <1>6 DEF Begin, TypeOK, Task
  <2>2. TaskOK' /\ answered' \subseteq Carts /\ raced' \subseteq Carts
    BY <1>6, <2>1, OpenType DEF Begin
  <2> QED
    BY <1>6, <2>2 DEF Begin, TypeOK, TaskOK, rows, world, history
<1>7. ASSUME NEW s \in Requests, Hold(s) PROVE TypeOK'
  <2>1. task[s] \in Task /\ task[s].pc # "idle"
    BY <1>7 DEF Hold, TypeOK
  <2>2. TaskOK'
    <3>1. CASE Rejects(s)
      BY <2>1, <3>1, RejectsType
    <3>2. CASE task' = [task EXCEPT ![s].pc = "holding"]
      BY <2>1, <3>2 DEF Task, TypeOK, TaskOK
    <3> QED
      BY <1>7, <3>1, <3>2 DEF Hold
  <2> QED
    BY <1>7, <2>2 DEF Hold, TypeOK, TaskOK, rows, world, history
<1>8. ASSUME NEW s \in Requests, Charge(s) PROVE TypeOK'
  <2>1. task[s] \in Task /\ task[s].pc # "idle"
    BY <1>8 DEF Charge, TypeOK
  <2>2. TaskOK'
    <3> DEFINE debit == Debit(want[task[s].cart], task[s].price)
               payable == Payable(want[task[s].cart], task[s].price)
    <3>1. CASE Rejects(s)
      BY <2>1, <3>1, RejectsType
    <3>2. CASE task' = [task EXCEPT ![s].pc = "debited", ![s].wallet = debit, ![s].total = payable]
      <4>1. debit \in Int /\ payable \in Int
        BY <1>8, <2>1, AmountsType
      <4> HIDE DEF debit, payable
      <4> QED
        BY <2>1, <3>2, <4>1 DEF Task, TypeOK, TaskOK
    <3> QED
      BY <1>8, <3>1, <3>2 DEF Charge
  <2> QED
    BY <1>8, <2>2 DEF Charge, TypeOK, TaskOK, rows, world, history
<1>9. ASSUME NEW s \in Requests, Draw(s) PROVE TypeOK'
  <2> DEFINE t == [task[s] EXCEPT !.pc = "drawn", !.invoice = last + 1]
  <2>1. task[s] \in Task /\ task[s].pc # "idle" /\ task[s].cart # NoCart
    BY <1>9 DEF Draw, TypeOK
  <2>2. t \in Task /\ t.pc = "drawn" /\ t.cart = task[s].cart
    <3>1. last + 1 \in Nat
      BY DEF TypeOK
    <3> QED
      BY <2>1, <3>1 DEF Task
  <2>3. task' = [task EXCEPT ![s] = t]
    BY <1>9 DEF Draw, TypeOK
  <2> HIDE DEF t
  <2>4. TaskOK'
    BY <2>1, <2>2, <2>3, StoreType
  <2> QED
    BY <1>9, <2>4 DEF Draw, TypeOK, TaskOK, rows, world, history
<1>10. ASSUME NEW s \in Requests, Commit(s) PROVE TypeOK'
  <2>1. task[s] \in Task /\ task[s].pc # "idle" /\ task[s].cart \in Carts
    BY <1>10 DEF Commit, TypeOK, Task
  <2>2. TaskOK' /\ answered' \subseteq Carts
    BY <1>10, <2>1, FinishType DEF Commit
  <2>3. orders' \in Seq(Order)
    <3>1. [cart |-> task[s].cart, total |-> task[s].total,
           wallet |-> task[s].wallet, invoice |-> task[s].invoice] \in Order
      BY <2>1 DEF Order, Task
    <3> QED
      BY <1>10, <3>1 DEF Commit, TypeOK
  <2>4. stock' \in 0 .. Portions
    BY <1>10, AmountsAssumption DEF Commit, Sold, TypeOK
  <2>5. redeemed' \in Nat /\ wallet' \in Int /\ last' \in Nat
    BY <1>10, <2>1 DEF Commit, TypeOK, Task
  <2>6. snapshot' \in [Carts -> {"none", "pending", "consumed"}]
    BY <1>10 DEF Commit, Consumed, TypeOK
  <2> QED
    BY <1>10, <2>2, <2>3, <2>4, <2>5, <2>6 DEF Commit, TypeOK, TaskOK, world, history
<1>11. ASSUME NEW s \in Requests, DeadLetter(s) \/ LoseLetter(s) PROVE TypeOK'
  <2>1. task[s].pc # "idle" /\ task[s].cart \in Carts
    BY <1>11 DEF DeadLetter, LoseLetter, TypeOK, Task
  <2>2. TaskOK' /\ answered' \subseteq Carts
    BY <1>11, <2>1, FinishType DEF DeadLetter, LoseLetter
  <2> QED
    BY <1>11, <2>1, <2>2 DEF DeadLetter, LoseLetter, Parked, TypeOK, TaskOK, rows, world, history
<1>12. ASSUME NEW s \in Requests, Fail(s) PROVE TypeOK'
  <2>1. task[s].pc # "idle"
    BY <1>12 DEF Fail, PastCheck, HoldsStock
  <2>2. TaskOK'
    BY <1>12, <2>1, RejectsType DEF Fail
  <2> QED
    BY <1>12, <2>2 DEF Fail, LastAfterRollback, TypeOK, TaskOK, world, history
<1>13. ASSUME NEW s \in Requests, Restart(s) PROVE TypeOK'
  <2>1. TaskOK'
    BY <1>13, IdleType DEF Restart, TypeOK, TaskOK
  <2> QED
    BY <1>13, <2>1 DEF Restart, LastAfterRollback, TypeOK, TaskOK, world, history
<1>14. CASE UNCHANGED vars
  BY <1>14 DEF vars, world, history, rows, TypeOK
<1> QED
  BY <1>1, <1>2, <1>3, <1>4, <1>5, <1>6, <1>7, <1>8, <1>9, <1>10, <1>11, <1>12, <1>13, <1>14
     DEF Next, Transaction

\* The tables and the requests in flight keep their types.
THEOREM TypeCorrect == Spec => []TypeOK
  BY InitType, TypeStep, PTL DEF Spec

----------------------------------------------------------------------------
(* The money, the numbers and what becomes of a payment.                   *)

\* What is said of requests, and what of orders and payments.
TaskInv == PaidInv /\ NumberInv /\ WalletInv

RowInv == SnapshotInv /\ CapturedIsKnown /\ ChargedIsPaid /\ InvoicesUnbroken /\ NeverOverdrawn

LEMMA InitInv == Init => Inv
<1> SUFFICES ASSUME Init PROVE Inv
  OBVIOUS
<1>1. \A s \in Requests : task[s].pc = "idle"
  BY IdleType DEF Init
<1>2. PaidInv /\ NumberInv /\ WalletInv
  BY <1>1 DEF PaidInv, NumberInv, WalletInv, HoldsWallet
<1>3. orders = <<>> /\ last = 0 /\ captured = {} /\ answered = {} /\ wallet = Balance
  BY DEF Init
<1>4. ChargedIsPaid /\ InvoicesUnbroken /\ CapturedIsKnown
  BY <1>3 DEF ChargedIsPaid, InvoicesUnbroken, CapturedIsKnown
<1>5. SnapshotInv /\ NeverOverdrawn
  BY <1>3, AmountsAssumption DEF Init, SnapshotInv, NeverOverdrawn
<1> QED
  BY InitType, <1>2, <1>4, <1>5 DEF Inv

\* A request that holds neither wallet nor number disturbs no other.
LEMMA TaskKept ==
  ASSUME Inv, NEW s \in Requests, NEW t,
         task' = [task EXCEPT ![s] = t], t.pc \notin HoldsWallet,
         t.pc # "idle" /\ want[t.cart].online => t.cart \in captured,
         UNCHANGED <<want, quote, captured, wallet, last>>
  PROVE  TaskInv'
<1>1. task'[s] = t /\ \A r \in Requests : r # s => task'[r] = task[r]
  BY DEF Inv, TypeOK
<1>2. PaidInv'
  BY <1>1 DEF Inv, PaidInv, HoldsWallet
<1>3. NumberInv'
  BY <1>1 DEF Inv, NumberInv, HoldsWallet
<1>4. WalletInv'
  BY <1>1 DEF Inv, WalletInv, HoldsWallet
<1> QED
  BY <1>2, <1>3, <1>4 DEF TaskInv

\* What is said of orders and payments depends on these variables only.
LEMMA RowKept ==
  ASSUME RowInv, UNCHANGED <<want, quote, captured, snapshot, orders, wallet, last>>,
         \A c \in answered' : HasOrder(c) \/ c \in parked' \/ c \in unparked'
  PROVE  RowInv'
  BY DEF RowInv, SnapshotInv, CapturedIsKnown, ChargedIsPaid, InvoicesUnbroken, NeverOverdrawn,
         HasOrder

LEMMA RejectsInv ==
  ASSUME Inv, NEW s \in Requests, task[s].pc # "idle", Rejects(s),
         UNCHANGED <<want, quote, captured, wallet, last>>
  PROVE  TaskInv'
<1>1. CASE task[s].via = "webhook"
  <2> DEFINE t == [task[s] EXCEPT !.pc = "parking"]
  <2>1. t.pc = "parking" /\ t.cart = task[s].cart
    BY DEF Inv, TypeOK, Task
  <2>2. task' = [task EXCEPT ![s] = t]
    BY <1>1 DEF Rejects
  <2>3. want[task[s].cart].online => task[s].cart \in captured
    BY DEF Inv, PaidInv
  <2> HIDE DEF t
  <2> QED
    BY <2>1, <2>2, <2>3, TaskKept DEF HoldsWallet
<1>2. CASE task[s].via # "webhook"
  BY <1>2, IdleType, TaskKept DEF Rejects, HoldsWallet
<1> QED
  BY <1>1, <1>2

LEMMA OpenInv ==
  ASSUME Inv, NEW s \in Requests, NEW c \in Carts, NEW via \in {"browser", "webhook"},
         Open(s, c, via), want[c].online => c \in captured,
         UNCHANGED <<world, rows, parked, unparked>>
  PROVE  TaskInv' /\ RowInv'
<1>1. RowInv'
  BY RowKept DEF Inv, RowInv, CapturedIsKnown, Open, AlreadyOrdered, world, history, rows
<1>2. CASE AlreadyOrdered(c)
  BY <1>1, <1>2, IdleType, TaskKept DEF Open, HoldsWallet, world, history, rows
<1>3. CASE ~ AlreadyOrdered(c)
  <2> DEFINE t == [Idle EXCEPT !.pc = "checked", !.cart = c, !.via = via, !.price = price]
  <2>1. t.pc = "checked" /\ t.cart = c
    BY DEF Idle
  <2>2. task' = [task EXCEPT ![s] = t]
    BY <1>3 DEF Open
  <2> HIDE DEF t
  <2>3. TaskInv'
    BY <2>1, <2>2, TaskKept DEF HoldsWallet, world, history, rows
  <2> QED
    BY <1>1, <2>3
<1> QED
  BY <1>2, <1>3

LEMMA InvStep == Inv /\ [Next]_vars => Inv'
<1> SUFFICES ASSUME Inv, [Next]_vars PROVE Inv'
  OBVIOUS
<1> SUFFICES TaskInv' /\ RowInv'
  BY TypeStep DEF Inv, TaskInv, RowInv
<1>0. TaskInv /\ RowInv
  BY DEF Inv, TaskInv, RowInv
<1>1. CASE UNCHANGED vars \/ Reprice
  <2>1. UNCHANGED <<want, quote, captured, rows, parked, answered, unparked, task>>
    BY <1>1 DEF vars, world, history, rows, Reprice
  <2>2. RowInv'
    BY <1>0, <2>1, RowKept DEF RowInv, CapturedIsKnown, rows
  <2>3. TaskInv'
    BY <1>0, <2>1 DEF TaskInv, PaidInv, NumberInv, WalletInv, rows
  <2> QED
    BY <2>2, <2>3
<1>2. ASSUME NEW c \in Carts, OpenPayment(c) PROVE TaskInv' /\ RowInv'
  <2>1. /\ UNCHANGED <<want, captured, wallet, last, orders, parked, answered, unparked, task>>
        /\ \A d \in Carts \ {c} : quote'[d] = quote[d] /\ snapshot'[d] = snapshot[d]
        /\ quote[c] = 0 /\ snapshot'[c] = "pending"
    BY <1>2 DEF OpenPayment, Inv, TypeOK
  <2>2. c \notin captured /\ captured \subseteq Carts
    BY <2>1 DEF Inv, SnapshotInv, TypeOK
  <2>3. \A d \in captured : quote'[d] = quote[d]
    BY <2>1, <2>2
  <2>4. TaskInv'
    <3>1. PaidInv'
      BY <2>1, <2>3 DEF Inv, PaidInv, HoldsWallet
    <3> QED
      BY <1>0, <2>1, <3>1 DEF TaskInv, NumberInv, WalletInv
  <2>5. SnapshotInv'
    BY <2>1, <2>2, <2>3 DEF Inv, SnapshotInv, HasOrder
  <2>6. ChargedIsPaid'
    BY <2>1, <2>3 DEF Inv, ChargedIsPaid
  <2> QED
    BY <1>0, <2>1, <2>4, <2>5, <2>6
       DEF RowInv, CapturedIsKnown, InvoicesUnbroken, NeverOverdrawn, HasOrder
<1>3. ASSUME NEW c \in Carts, Capture(c) PROVE TaskInv' /\ RowInv'
  <2>1. /\ UNCHANGED <<want, quote, rows, parked, answered, unparked, task>>
        /\ captured' = captured \cup {c} /\ quote[c] > 0
    BY <1>3 DEF Capture, history
  <2>2. TaskInv'
    BY <1>0, <2>1 DEF TaskInv, PaidInv, NumberInv, WalletInv, rows
  <2> QED
    BY <1>0, <2>1, <2>2
       DEF RowInv, SnapshotInv, ChargedIsPaid, CapturedIsKnown, InvoicesUnbroken, NeverOverdrawn,
           HasOrder, rows
<1>4. ASSUME NEW s \in Requests, NEW c \in Carts, Ask(s, c) PROVE TaskInv' /\ RowInv'
  BY <1>4, OpenInv DEF Ask
<1>5. ASSUME NEW s \in Requests, NEW c \in Carts, Webhook(s, c) PROVE TaskInv' /\ RowInv'
  <2> DEFINE t == [Idle EXCEPT !.pc = "starting", !.cart = c, !.via = "webhook"]
  <2>1. t.pc = "starting" /\ t.cart = c
    BY DEF Idle
  <2>2. c \in captured /\ UNCHANGED <<want, quote, captured, rows, parked, unparked>>
    BY <1>5 DEF Webhook, world, history
  <2>3. CASE HasOrder(c) \/ snapshot[c] # "pending"
    <3>1. answered' = answered \cup {c} /\ task' = task
      BY <1>5, <2>3 DEF Webhook
    <3>2. HasOrder(c)
      BY <2>2, <2>3 DEF Inv, SnapshotInv, TypeOK
    <3>3. RowInv'
      BY <1>0, <2>2, <3>1, <3>2, RowKept DEF RowInv, CapturedIsKnown, rows
    <3> QED
      BY <1>0, <2>2, <3>1, <3>3 DEF TaskInv, PaidInv, NumberInv, WalletInv, rows
  <2>4. CASE ~ (HasOrder(c) \/ snapshot[c] # "pending")
    <3>1. answered' = answered /\ task' = [task EXCEPT ![s] = t]
      BY <1>5, <2>4 DEF Webhook
    <3>2. RowInv'
      BY <1>0, <2>2, <3>1, RowKept DEF RowInv, CapturedIsKnown, rows
    <3> HIDE DEF t
    <3> QED
      BY <2>1, <2>2, <3>1, <3>2, TaskKept DEF HoldsWallet, rows
  <2> QED
    BY <2>3, <2>4
<1>6. ASSUME NEW s \in Requests, Begin(s) PROVE TaskInv' /\ RowInv'
  <2>1. task[s].cart \in Carts
    BY <1>6 DEF Begin, Inv, TypeOK, Task
  <2>2. want[task[s].cart].online => task[s].cart \in captured
    BY <1>6 DEF Begin, Inv, PaidInv
  <2> QED
    BY <1>6, <2>1, <2>2, OpenInv DEF Begin
<1>7. ASSUME NEW s \in Requests, Hold(s) PROVE TaskInv' /\ RowInv'
  <2>1. UNCHANGED <<world, rows, parked, answered, unparked>> /\ task[s].pc = "checked"
    BY <1>7 DEF Hold, history
  <2>2. RowInv'
    BY <1>0, <2>1, RowKept DEF RowInv, CapturedIsKnown, rows, world, history
  <2>3. CASE Rejects(s)
    BY <2>1, <2>2, <2>3, RejectsInv DEF rows, world, history
  <2>4. CASE task' = [task EXCEPT ![s].pc = "holding"]
    <3> DEFINE t == [task[s] EXCEPT !.pc = "holding"]
    <3>1. t.pc = "holding" /\ t.cart = task[s].cart
      BY DEF Inv, TypeOK, Task
    <3>2. task' = [task EXCEPT ![s] = t]
      BY <2>4
    <3>3. want[task[s].cart].online => task[s].cart \in captured
      BY <2>1 DEF Inv, PaidInv
    <3> HIDE DEF t
    <3> QED
      BY <2>1, <2>2, <3>1, <3>2, <3>3, TaskKept DEF HoldsWallet, rows, world, history
  <2> QED
    BY <1>7, <2>3, <2>4 DEF Hold
<1>8. ASSUME NEW s \in Requests, Charge(s) PROVE TaskInv' /\ RowInv'
  <2> DEFINE c == task[s].cart
             debit == Debit(want[c], task[s].price)
             payable == Payable(want[c], task[s].price)
  <2>1. UNCHANGED <<world, rows, parked, answered, unparked>> /\ task[s].pc = "holding"
    BY <1>8 DEF Charge, history
  <2>2. RowInv'
    BY <1>0, <2>1, RowKept DEF RowInv, CapturedIsKnown, rows, world, history
  <2>3. CASE Rejects(s)
    BY <2>1, <2>2, <2>3, RejectsInv DEF rows, world, history
  <2>4. CASE /\ PaidEnough(c, payable)
             /\ task' = [task EXCEPT ![s].pc = "debited", ![s].wallet = debit, ![s].total = payable]
    <3>1. debit \in Int /\ payable \in Int
      BY <2>1, AmountsType DEF Inv
    <3>2. IF want[c].wallet THEN debit <= wallet ELSE debit = 0
      BY <2>1, AmountsType DEF Inv
    <3>3. want[c].online => payable - quote[c] \in -Tolerance .. Tolerance /\ c \in captured
      BY <2>1, <2>4 DEF PaidEnough, Inv, PaidInv
    <3> HIDE DEF debit, payable
    <3>4. /\ task'[s].pc = "debited" /\ task'[s].cart = c
          /\ task'[s].wallet = debit /\ task'[s].total = payable
          /\ \A r \in Requests : r # s => task'[r] = task[r]
      BY <2>4 DEF Inv, TypeOK, Task
    <3>5. PaidInv'
      BY <2>1, <3>3, <3>4 DEF Inv, PaidInv, world, history
    <3>6. NumberInv'
      BY <2>1, <3>4 DEF Inv, NumberInv, rows
    <3>7. WalletInv'
      <4>1. want[c].wallet => WalletFree(s)
        BY <1>8 DEF Charge
      <4> QED
        BY <2>1, <3>2, <3>4, <4>1 DEF Inv, WalletInv, WalletFree, rows, world, history
    <3> QED
      BY <2>2, <3>5, <3>6, <3>7 DEF TaskInv
  <2> QED
    BY <1>8, <2>3, <2>4 DEF Charge
<1>9. ASSUME NEW s \in Requests, Draw(s) PROVE TaskInv' /\ RowInv'
  <2>1. UNCHANGED <<world, rows, parked, answered, unparked>> /\ task[s].pc = "debited"
    BY <1>9 DEF Draw, history
  <2>2. RowInv'
    BY <1>0, <2>1, RowKept DEF RowInv, CapturedIsKnown, rows, world, history
  <2>3. /\ task'[s].pc = "drawn" /\ task'[s].invoice = last + 1
        /\ task'[s].cart = task[s].cart /\ task'[s].total = task[s].total
        /\ task'[s].wallet = task[s].wallet
        /\ \A r \in Requests : r # s => task'[r] = task[r]
    BY <1>9 DEF Draw, Inv, TypeOK, Task
  <2>4. PaidInv' /\ WalletInv'
    BY <2>1, <2>3 DEF Inv, PaidInv, WalletInv, HoldsWallet, rows, world, history
  <2>5. NumberInv'
    <3>1. \A r \in Requests \ {s} : task[r].pc # "drawn"
      BY <1>9 DEF Draw, NumberFree
    <3>2. last' = last
      BY <2>1 DEF rows
    <3>3. \A r \in Requests : task'[r].pc = "drawn" => r = s
      BY <2>3, <3>1
    <3> QED
      BY <2>3, <3>2, <3>3 DEF NumberInv
  <2> QED
    BY <2>2, <2>4, <2>5 DEF TaskInv
<1>10. ASSUME NEW s \in Requests, Commit(s) PROVE TaskInv' /\ RowInv'
  <2> DEFINE c == task[s].cart
             o == [cart |-> c, total |-> task[s].total,
                   wallet |-> task[s].wallet, invoice |-> task[s].invoice]
  <2>1. /\ UNCHANGED <<want, quote, captured, parked, unparked>>
        /\ orders' = Append(orders, o)
        /\ last' = task[s].invoice /\ wallet' = wallet - task[s].wallet
        /\ answered' \subseteq answered \cup {c}
        /\ snapshot' = [snapshot EXCEPT ![c] = IF want[c].online THEN "consumed" ELSE @]
    BY <1>10 DEF Commit, Finish, Consumed, world, history
  <2>2. /\ task[s].pc = "drawn" /\ c \in Carts /\ o \in Order
        /\ task[s].wallet \in Int /\ task[s].invoice = last + 1
    BY <1>10 DEF Commit, Inv, TypeOK, Task, Order, NumberInv
  <2>3. /\ task'[s].pc = "idle"
        /\ \A r \in Requests : r # s => task'[r] = task[r]
    BY <1>10, IdleType DEF Commit, Finish, Inv, TypeOK
  <2>4. orders \in Seq(Order) /\ last = Len(orders) /\ last \in Nat /\ wallet \in Int
    BY DEF Inv, TypeOK, InvoicesUnbroken
  <2> HIDE DEF o
  <2>5. /\ Len(orders') = Len(orders) + 1 /\ orders'[Len(orders) + 1] = o
        /\ DOMAIN orders = 1 .. Len(orders) /\ DOMAIN orders' = 1 .. Len(orders) + 1
        /\ \A i \in DOMAIN orders : orders'[i] = orders[i]
    BY <2>1, <2>2, <2>4
  <2>6. /\ o.cart = c /\ o.total = task[s].total /\ o.invoice = task[s].invoice
    BY DEF o
  <2>7. \A d \in Carts : HasOrder(d) \/ d = c => HasOrder(d)'
    BY <2>4, <2>5, <2>6 DEF HasOrder
  <2>8. SnapshotInv' /\ CapturedIsKnown'
    BY <2>1, <2>2, <2>7 DEF Inv, SnapshotInv, CapturedIsKnown, TypeOK
  <2>9. ChargedIsPaid'
    <3>1. want[c].online =>
            c \in captured /\ task[s].total - quote[c] \in -Tolerance .. Tolerance
      BY <2>2 DEF Inv, PaidInv, HoldsWallet
    <3>2. \A i \in DOMAIN orders' : i \in DOMAIN orders \/ i = Len(orders) + 1
      BY <2>4, <2>5
    <3> QED
      BY <2>1, <2>5, <2>6, <3>1, <3>2 DEF Inv, ChargedIsPaid
  <2>10. InvoicesUnbroken'
    <3>1. \A i \in DOMAIN orders' : i \in DOMAIN orders \/ i = Len(orders) + 1
      BY <2>4, <2>5
    <3> QED
      BY <2>1, <2>2, <2>4, <2>5, <2>6, <3>1 DEF Inv, InvoicesUnbroken
  <2>11. /\ NeverOverdrawn'
         /\ ~ want[c].wallet => wallet' = wallet
    BY <2>1, <2>2, <2>4 DEF Inv, WalletInv, NeverOverdrawn, HoldsWallet
  <2>12. PaidInv'
    BY <2>1, <2>3 DEF Inv, PaidInv, HoldsWallet
  <2>13. NumberInv'
    <3>1. \A r \in Requests : task'[r].pc # "drawn"
      BY <2>2, <2>3 DEF Inv, NumberInv
    <3> QED
      BY <3>1 DEF NumberInv
  <2>14. WalletInv'
    <3>1. \A r \in Requests : task'[r].pc \in HoldsWallet => r # s /\ task'[r] = task[r]
      BY <2>3 DEF HoldsWallet
    <3>2. \A r \in Requests :
            task'[r].pc \in HoldsWallet /\ want[task[r].cart].wallet => ~ want[c].wallet
      BY <2>2, <3>1 DEF Inv, WalletInv, HoldsWallet
    <3> QED
      BY <2>1, <2>11, <3>1, <3>2 DEF Inv, WalletInv
  <2> QED
    BY <2>8, <2>9, <2>10, <2>11, <2>12, <2>13, <2>14 DEF TaskInv, RowInv
<1>11. ASSUME NEW s \in Requests, DeadLetter(s) \/ LoseLetter(s) PROVE TaskInv' /\ RowInv'
  <2>1. /\ UNCHANGED <<world, rows>>
        /\ task' = [task EXCEPT ![s] = Idle]
        /\ answered' \subseteq answered \cup {task[s].cart}
        /\ parked \subseteq parked' /\ unparked \subseteq unparked'
        /\ task[s].cart \in parked' \cup unparked'
    BY <1>11 DEF DeadLetter, LoseLetter, Finish, Parked, history
  <2>2. RowInv'
    BY <1>0, <2>1, RowKept DEF RowInv, CapturedIsKnown, rows, world, history
  <2> QED
    BY <2>1, <2>2, IdleType, TaskKept DEF HoldsWallet, rows, world, history
<1>12. ASSUME NEW s \in Requests, Fail(s) PROVE TaskInv' /\ RowInv'
  <2>1. /\ UNCHANGED <<world, rows, parked, answered, unparked>>
        /\ Rejects(s) /\ task[s].pc # "idle"
    BY <1>12 DEF Fail, LastAfterRollback, PastCheck, HoldsStock, rows, history
  <2>2. RowInv'
    BY <1>0, <2>1, RowKept DEF RowInv, CapturedIsKnown, rows, world, history
  <2> QED
    BY <2>1, <2>2, RejectsInv DEF rows, world, history
<1>13. ASSUME NEW s \in Requests, Restart(s) PROVE TaskInv' /\ RowInv'
  <2>1. UNCHANGED <<world, rows, parked, answered, unparked>> /\ task' = [task EXCEPT ![s] = Idle]
    BY <1>13 DEF Restart, LastAfterRollback, rows, history
  <2>2. RowInv'
    BY <1>0, <2>1, RowKept DEF RowInv, CapturedIsKnown, rows, world, history
  <2> QED
    BY <2>1, <2>2, IdleType, TaskKept DEF HoldsWallet, rows, world, history
<1> QED
  BY <1>1, <1>2, <1>3, <1>4, <1>5, <1>6, <1>7, <1>8, <1>9, <1>10, <1>11, <1>12, <1>13
     DEF Next, Transaction

LEMMA Invariance == Spec => []Inv
  BY InitInv, InvStep, PTL DEF Spec

\* A payment whose webhook was answered is on an order, parked, or reported
\* as impossible to park: the catch of razorpayWebhook loses none.
THEOREM PaymentsKnown == Spec => []CapturedIsKnown
<1>1. Inv => CapturedIsKnown
  BY DEF Inv
<1> QED
  BY <1>1, Invariance, PTL

\* An order paid online costs what was captured, whatever became of prices,
\* deals and the wallet while the customer paid: step 5b of createOrder.
THEOREM PaymentCoversOrder == Spec => []ChargedIsPaid
<1>1. Inv => ChargedIsPaid
  BY DEF Inv
<1> QED
  BY <1>1, Invariance, PTL

\* The numbers of nextInvoiceNo have no gap and no double, whatever rolls
\* back and however many checkouts run.
THEOREM NumbersUnbroken == Spec => []InvoicesUnbroken
<1>1. Inv => InvoicesUnbroken
  BY DEF Inv
<1> QED
  BY <1>1, Invariance, PTL

\* The locked balance is never spent twice.
THEOREM WalletCovers == Spec => []NeverOverdrawn
<1>1. Inv => NeverOverdrawn
  BY DEF Inv
<1> QED
  BY <1>1, Invariance, PTL

----------------------------------------------------------------------------
(* The stock of the dish and the orders of a payment.                      *)

Dishes == {i \in DOMAIN orders : want[orders[i].cart].dish}

HoldsDish(s) == task[s].pc \in HoldsStock /\ want[task[s].cart].dish

\* Sold and left make up the start, and the one request that has locked the
\* row has seen a portion that nobody else can take before it commits.
StockInv ==
  /\ stock + Cardinality(Dishes) = Portions
  /\ \A s \in Requests : HoldsDish(s) => stock > 0
  /\ \A s, t \in Requests : HoldsDish(s) /\ HoldsDish(t) => s = t

\* Of a payment that is not raced at most one checkout is past the dupe
\* check; while it is, the payment has no order; and it never has two.
RaceInv ==
  /\ \A s, t \in Requests :
       /\ PastCheck(s) /\ PastCheck(t)
       /\ task[s].cart = task[t].cart /\ task[s].cart \notin raced
       => s = t
  /\ \A s \in Requests :
       PastCheck(s) /\ want[task[s].cart].online /\ task[s].cart \notin raced
         => ~ HasOrder(task[s].cart)
  /\ \A i, j \in DOMAIN orders :
       /\ orders[i].cart = orders[j].cart
       /\ want[orders[i].cart].online /\ orders[i].cart \notin raced
       => i = j

SalesInv == Inv /\ StockInv /\ RaceInv

\* A request whose lock on the stock, if it has one, is not new.
LEMMA StockKept ==
  ASSUME TypeOK, StockInv, NEW s \in Requests, NEW t, task' = [task EXCEPT ![s] = t],
         t.pc \in HoldsStock => task[s].pc \in HoldsStock /\ t.cart = task[s].cart,
         UNCHANGED <<want, orders, stock>>
  PROVE  StockInv'
<1>1. task'[s] = t /\ \A r \in Requests : r # s => task'[r] = task[r]
  BY DEF TypeOK
<1>2. \A r \in Requests : HoldsDish(r)' => HoldsDish(r)
  BY <1>1 DEF HoldsDish
<1> QED
  BY <1>2 DEF StockInv, Dishes

\* A request that was past the check of its cart, if it is now.
LEMMA RaceKept ==
  ASSUME TypeOK, RaceInv, NEW s \in Requests, NEW t, task' = [task EXCEPT ![s] = t],
         t.pc \in {"checked"} \cup HoldsStock => PastCheck(s) /\ t.cart = task[s].cart,
         UNCHANGED <<want, orders, raced>>
  PROVE  RaceInv'
<1>1. task'[s] = t /\ \A r \in Requests : r # s => task'[r] = task[r]
  BY DEF TypeOK
<1>2. \A r \in Requests : PastCheck(r)' => PastCheck(r) /\ task'[r].cart = task[r].cart
  BY <1>1 DEF PastCheck
<1> QED
  BY <1>2 DEF RaceInv, HasOrder

LEMMA ReleaseKept ==
  ASSUME TypeOK, StockInv, RaceInv, NEW s \in Requests, NEW t, task' = [task EXCEPT ![s] = t],
         t.pc \in {"idle", "starting", "parking"},
         UNCHANGED <<want, orders, stock, raced>>
  PROVE  StockInv' /\ RaceInv'
<1>1. t.pc \notin {"checked"} \cup HoldsStock
  BY DEF HoldsStock
<1> QED
  BY <1>1, StockKept, RaceKept

LEMMA RejectsKept ==
  ASSUME TypeOK, StockInv, RaceInv, NEW s \in Requests, Rejects(s),
         UNCHANGED <<want, orders, stock, raced>>
  PROVE  StockInv' /\ RaceInv'
<1>1. CASE task[s].via = "webhook"
  <2> DEFINE t == [task[s] EXCEPT !.pc = "parking"]
  <2>1. t.pc = "parking" /\ task' = [task EXCEPT ![s] = t]
    BY <1>1 DEF Rejects, TypeOK, Task
  <2> HIDE DEF t
  <2> QED
    BY <2>1, ReleaseKept
<1>2. CASE task[s].via # "webhook"
  BY <1>2, IdleType, ReleaseKept DEF Rejects
<1> QED
  BY <1>1, <1>2

\* The dupe check: a second checkout past it makes its cart a raced one.
LEMMA OpenKept ==
  ASSUME TypeOK, StockInv, RaceInv, NEW s \in Requests, NEW c \in Carts,
         NEW via \in {"browser", "webhook"}, ~ PastCheck(s), Open(s, c, via),
         UNCHANGED <<want, orders, stock>>
  PROVE  StockInv' /\ RaceInv'
<1>1. CASE AlreadyOrdered(c)
  BY <1>1, IdleType, ReleaseKept DEF Open
<1>2. CASE ~ AlreadyOrdered(c)
  <2> DEFINE t == [Idle EXCEPT !.pc = "checked", !.cart = c, !.via = via, !.price = price]
  <2>1. t.pc = "checked" /\ t.cart = c
    BY DEF Idle
  <2>2. task' = [task EXCEPT ![s] = t]
    BY <1>2 DEF Open
  <2> HIDE DEF t
  <2>3. StockInv'
    BY <2>1, <2>2, StockKept DEF HoldsStock
  <2>4. task'[s] = t /\ \A r \in Requests : r # s => task'[r] = task[r]
    BY <2>2 DEF TypeOK
  <2>5. /\ raced \subseteq raced'
        /\ c \notin raced' => \A r \in Requests : PastCheck(r) => task[r].cart # c
    BY <1>2 DEF Open
  <2>6. \A r \in Requests : r # s => (PastCheck(r)' <=> PastCheck(r))
    BY <2>4 DEF PastCheck
  <2>7. want[c].online => ~ HasOrder(c)
    BY <1>2 DEF AlreadyOrdered
  <2>8. RaceInv'
    BY <2>1, <2>4, <2>5, <2>6, <2>7 DEF RaceInv, HasOrder
  <2> QED
    BY <2>3, <2>8
<1> QED
  BY <1>1, <1>2

\* The order that is booked: one portion less, or none.
LEMMA CommitKept ==
  ASSUME Inv, StockInv, RaceInv, NEW s \in Requests, Commit(s)
  PROVE  StockInv' /\ RaceInv'
<1> DEFINE c == task[s].cart
           n == Len(orders) + 1
<1>1. /\ UNCHANGED <<want, raced>> /\ stock' = Sold(want[c])
      /\ task[s].pc = "drawn" /\ task' = [task EXCEPT ![s] = Idle]
  BY DEF Commit, Finish, world
<1>2. /\ task'[s].pc = "idle"
      /\ \A r \in Requests : r # s => task'[r] = task[r]
  BY <1>1, IdleType DEF Inv, TypeOK
<1>3. /\ DOMAIN orders = 1 .. Len(orders) /\ DOMAIN orders' = 1 .. n
      /\ Len(orders) \in Nat /\ orders'[n].cart = c
      /\ \A i \in DOMAIN orders : orders'[i] = orders[i]
  <2> DEFINE o == [cart |-> c, total |-> task[s].total,
                   wallet |-> task[s].wallet, invoice |-> task[s].invoice]
  <2>1. orders' = Append(orders, o) /\ orders \in Seq(Order) /\ o \in Order /\ o.cart = c
    BY <1>1 DEF Commit, Inv, TypeOK, Task, Order
  <2> HIDE DEF o
  <2> QED
    BY <2>1
<1>4. \A i \in DOMAIN orders' : i \in DOMAIN orders \/ i = n
  BY <1>3
<1>5. n \notin DOMAIN orders /\ n \in DOMAIN orders' /\ DOMAIN orders \subseteq DOMAIN orders'
  BY <1>3
<1> HIDE DEF n
<1>6. IsFiniteSet(Dishes)
  <2>1. IsFiniteSet(1 .. Len(orders))
    BY <1>3, FS_Interval
  <2> QED
    BY <1>3, <2>1, FS_Subset DEF Dishes
<1>7. \A r \in Requests : HoldsDish(r)' => HoldsDish(r) /\ r # s
  BY <1>1, <1>2 DEF HoldsDish, HoldsStock
<1>8. StockInv'
  <2>1. CASE want[c].dish
    <3>1. HoldsDish(s) /\ stock > 0
      BY <1>1, <2>1 DEF HoldsDish, HoldsStock, StockInv
    <3>2. Dishes' = Dishes \cup {n} /\ n \notin Dishes
      BY <1>1, <1>3, <1>4, <1>5, <2>1 DEF Dishes
    <3>3. Cardinality(Dishes') = Cardinality(Dishes) + 1
      BY <1>6, <3>2, FS_AddElement
    <3>4. stock' = stock - 1
      BY <1>1, <2>1, <3>1 DEF Sold
    <3>5. Cardinality(Dishes) \in Nat /\ stock \in Nat /\ Portions \in Nat
      BY <1>6, FS_CardinalityType, AmountsAssumption DEF Inv, TypeOK
    <3>6. stock' + Cardinality(Dishes') = Portions
      BY <3>3, <3>4, <3>5 DEF StockInv
    <3>7. \A r \in Requests : ~ HoldsDish(r)'
      BY <1>7, <3>1 DEF StockInv
    <3> QED
      BY <3>6, <3>7 DEF StockInv
  <2>2. CASE ~ want[c].dish
    <3>1. Dishes' = Dishes
      BY <1>1, <1>3, <1>4, <1>5, <2>2 DEF Dishes
    <3>2. stock' = stock
      BY <1>1, <2>2 DEF Sold
    <3> QED
      BY <1>7, <3>1, <3>2 DEF StockInv
  <2> QED
    BY <2>1, <2>2
<1>9. RaceInv'
  <2>1. PastCheck(s)
    BY <1>1 DEF PastCheck, HoldsStock
  <2>2. \A r \in Requests : PastCheck(r)' => PastCheck(r) /\ r # s /\ task'[r] = task[r]
    BY <1>2 DEF PastCheck, HoldsStock
  <2>3. want[c].online /\ c \notin raced => ~ HasOrder(c)
    BY <2>1 DEF RaceInv
  <2>4. c \notin raced => \A r \in Requests : PastCheck(r)' => task[r].cart # c
    BY <2>1, <2>2 DEF RaceInv
  <2>5. \A d : HasOrder(d)' => HasOrder(d) \/ d = c
    BY <1>3, <1>4 DEF HasOrder
  <2>6. \A i, j \in DOMAIN orders' :
          /\ orders'[i].cart = orders'[j].cart
          /\ want[orders'[i].cart].online /\ orders'[i].cart \notin raced
          => i = j
    BY <1>3, <1>4, <2>3 DEF RaceInv, HasOrder
  <2>7. \A r \in Requests :
          PastCheck(r)' /\ want[task[r].cart].online /\ task[r].cart \notin raced
            => ~ HasOrder(task[r].cart)'
    BY <2>2, <2>4, <2>5 DEF RaceInv
  <2>8. \A r, t \in Requests :
          /\ PastCheck(r)' /\ PastCheck(t)'
          /\ task[r].cart = task[t].cart /\ task[r].cart \notin raced
          => r = t
    BY <2>2 DEF RaceInv
  <2> QED
    BY <1>1, <2>2, <2>6, <2>7, <2>8 DEF RaceInv
<1> QED
  BY <1>8, <1>9

LEMMA InitSales == Init => SalesInv
<1> SUFFICES ASSUME Init PROVE SalesInv
  OBVIOUS
<1>1. \A s \in Requests : task[s].pc = "idle"
  BY IdleType DEF Init
<1>2. orders = <<>> /\ stock = Portions /\ Portions \in Nat
  BY AmountsAssumption DEF Init
<1>3. Dishes = {} /\ Cardinality({}) = 0
  BY <1>2, FS_EmptySet DEF Dishes
<1>4. StockInv
  BY <1>1, <1>2, <1>3 DEF StockInv, HoldsDish, HoldsStock
<1>5. RaceInv
  BY <1>1, <1>2 DEF RaceInv, PastCheck, HoldsStock
<1> QED
  BY <1>4, <1>5, InitInv DEF SalesInv

LEMMA SalesStep == SalesInv /\ [Next]_vars => SalesInv'
<1> SUFFICES ASSUME SalesInv, [Next]_vars PROVE StockInv' /\ RaceInv'
  BY InvStep DEF SalesInv
<1> USE DEF SalesInv
<1>0. TypeOK
  BY DEF Inv
<1>1. ASSUME UNCHANGED <<want, task, orders, stock, raced>> PROVE StockInv' /\ RaceInv'
  BY <1>1 DEF StockInv, RaceInv, Dishes, HoldsDish, PastCheck, HasOrder
<1>2. CASE UNCHANGED vars \/ Reprice \/ \E c \in Carts : OpenPayment(c) \/ Capture(c)
  BY <1>1, <1>2 DEF vars, world, rows, history, Reprice, OpenPayment, Capture
<1>3. ASSUME NEW s \in Requests, NEW c \in Carts, Ask(s, c) PROVE StockInv' /\ RaceInv'
  BY <1>0, <1>3, OpenKept DEF Ask, PastCheck, HoldsStock, world, rows
<1>4. ASSUME NEW s \in Requests, NEW c \in Carts, Webhook(s, c) PROVE StockInv' /\ RaceInv'
  <2> DEFINE t == [Idle EXCEPT !.pc = "starting", !.cart = c, !.via = "webhook"]
  <2>1. t.pc = "starting"
    BY DEF Idle
  <2>2. /\ UNCHANGED <<want, orders, stock, raced>>
        /\ task' = task \/ task' = [task EXCEPT ![s] = t]
    BY <1>4 DEF Webhook, world, rows, history
  <2> HIDE DEF t
  <2> QED
    BY <1>0, <1>1, <2>1, <2>2, ReleaseKept
<1>5. ASSUME NEW s \in Requests, Begin(s) PROVE StockInv' /\ RaceInv'
  <2>1. task[s].cart \in Carts
    BY <1>0, <1>5 DEF Begin, TypeOK, Task
  <2> QED
    BY <1>0, <1>5, <2>1, OpenKept DEF Begin, PastCheck, HoldsStock, world, rows
<1>6. ASSUME NEW s \in Requests, Hold(s) PROVE StockInv' /\ RaceInv'
  <2>1. UNCHANGED <<want, orders, stock, raced>> /\ task[s].pc = "checked"
    BY <1>6 DEF Hold, world, rows, history
  <2>2. CASE Rejects(s)
    BY <1>0, <2>1, <2>2, RejectsKept
  <2>3. CASE InStock(want[task[s].cart]) /\ task' = [task EXCEPT ![s].pc = "holding"]
    <3> DEFINE t == [task[s] EXCEPT !.pc = "holding"]
    <3>1. t.pc = "holding" /\ t.cart = task[s].cart /\ task' = [task EXCEPT ![s] = t]
      BY <1>0, <2>3 DEF TypeOK, Task
    <3> HIDE DEF t
    <3>2. RaceInv'
      BY <1>0, <2>1, <3>1, RaceKept DEF PastCheck
    <3>3. task'[s] = t /\ \A r \in Requests : r # s => task'[r] = task[r]
      BY <1>0, <3>1 DEF TypeOK
    <3>4. /\ HoldsDish(s)' => stock > 0
          /\ HoldsDish(s)' => \A r \in Requests \ {s} : ~ HoldsDish(r)
      BY <1>6, <2>1, <2>3, <3>1, <3>3 DEF Hold, HoldsDish, InStock, StockFree
    <3>5. \A r \in Requests : r # s => (HoldsDish(r)' <=> HoldsDish(r))
      BY <2>1, <3>3 DEF HoldsDish
    <3>6. StockInv'
      BY <2>1, <3>4, <3>5 DEF StockInv, Dishes
    <3> QED
      BY <3>2, <3>6
  <2> QED
    BY <1>6, <2>2, <2>3 DEF Hold
<1>7. ASSUME NEW s \in Requests, Charge(s) PROVE StockInv' /\ RaceInv'
  <2> DEFINE debit == Debit(want[task[s].cart], task[s].price)
             payable == Payable(want[task[s].cart], task[s].price)
             t == [task[s] EXCEPT !.pc = "debited", !.wallet = debit, !.total = payable]
  <2>1. UNCHANGED <<want, orders, stock, raced>> /\ task[s].pc = "holding"
    BY <1>7 DEF Charge, world, rows, history
  <2>2. Rejects(s) \/ task' = [task EXCEPT ![s] = t]
    BY <1>0, <1>7 DEF Charge, TypeOK
  <2>3. t.pc = "debited" /\ t.cart = task[s].cart
    BY <1>0 DEF TypeOK, Task
  <2> HIDE DEF t
  <2>4. task' = [task EXCEPT ![s] = t] => StockInv' /\ RaceInv'
    BY <1>0, <2>1, <2>3, StockKept, RaceKept DEF PastCheck, HoldsStock
  <2> QED
    BY <1>0, <2>1, <2>2, <2>4, RejectsKept
<1>8. ASSUME NEW s \in Requests, Draw(s) PROVE StockInv' /\ RaceInv'
  <2> DEFINE t == [task[s] EXCEPT !.pc = "drawn", !.invoice = last + 1]
  <2>1. UNCHANGED <<want, orders, stock, raced>> /\ task[s].pc = "debited"
    BY <1>8 DEF Draw, world, rows, history
  <2>2. task' = [task EXCEPT ![s] = t] /\ t.pc = "drawn" /\ t.cart = task[s].cart
    BY <1>0, <1>8 DEF Draw, TypeOK, Task
  <2> HIDE DEF t
  <2> QED
    BY <1>0, <2>1, <2>2, StockKept, RaceKept DEF PastCheck, HoldsStock
<1>9. ASSUME NEW s \in Requests, Commit(s) PROVE StockInv' /\ RaceInv'
  BY <1>9, CommitKept
<1>10. ASSUME NEW s \in Requests, DeadLetter(s) \/ LoseLetter(s) \/ Restart(s)
       PROVE  StockInv' /\ RaceInv'
  BY <1>0, <1>10, IdleType, ReleaseKept
     DEF DeadLetter, LoseLetter, Restart, Finish, world, rows, history
<1>11. ASSUME NEW s \in Requests, Fail(s) PROVE StockInv' /\ RaceInv'
  BY <1>0, <1>11, RejectsKept DEF Fail, world, history
<1> QED
  BY <1>2, <1>3, <1>4, <1>5, <1>6, <1>7, <1>8, <1>9, <1>10, <1>11 DEF Next, Transaction

LEMMA SalesInvariance == Spec => []SalesInv
  BY InitSales, SalesStep, PTL DEF Spec

\* A set of numbers without two different ones.
LEMMA AtMostOne ==
  ASSUME NEW S, \A i, j \in S : i = j
  PROVE  Cardinality(S) <= 1
<1>1. CASE S = {}
  BY <1>1, FS_EmptySet
<1>2. CASE S # {}
  <2>1. PICK i : i \in S
    BY <1>2
  <2>2. S = {i}
    BY <2>1
  <2>3. Cardinality({i}) = 1
    BY FS_Singleton
  <2> QED
    BY <2>2, <2>3
<1> QED
  BY <1>1, <1>2

\* However many checkouts run, and whichever of them roll back, what was
\* sold of the dish and what is left are what there was: the lock that
\* createOrder takes on the inventory row.
THEOREM StockCovers == Spec => []NeverOversold
<1>1. SalesInv => NeverOversold
  BY DEF SalesInv, StockInv, Dishes, NeverOversold, OrdersOf
<1> QED
  BY <1>1, SalesInvariance, PTL

\* Browser and webhook make one order of a payment unless both are past the
\* dupe check at once.
THEOREM OneOrder == Spec => []OneOrderUnlessRaced
<1>1. SalesInv => OneOrderUnlessRaced
  <2> SUFFICES ASSUME RaceInv, NEW c \in Carts, want[c].online, c \notin raced
               PROVE  Cardinality({i \in DOMAIN orders : orders[i].cart = c}) <= 1
    BY DEF SalesInv, OneOrderUnlessRaced, OrdersOf
  <2>1. \A i, j \in {i \in DOMAIN orders : orders[i].cart = c} : i = j
    BY DEF RaceInv
  <2> QED
    BY <2>1, AtMostOne
<1> QED
  BY <1>1, SalesInvariance, PTL
=============================================================================

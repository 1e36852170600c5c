------------------------------ MODULE Checkout ------------------------------
(***************************************************************************)
(* The checkout of an order and its payment online.  A cart is priced and  *)
(* opened at Razorpay; once its money is captured, the customer's browser  *)
(* and Razorpay's webhook both ask for the order, possibly at once and     *)
(* more than once.  A cart paid in cash is asked for by the browser alone. *)
(*                                                                         *)
(* A checkout is one transaction under READ COMMITTED: a step is a         *)
(* statement whose outcome others may change before the commit.  A row it  *)
(* has locked is given by the guards ...Free; what it wrote shows at the   *)
(* commit.  Amounts are small numbers; thali options, tips, loyalty,       *)
(* referrals and notifications are left out.                               *)
(***************************************************************************)
EXTENDS Integers, Sequences, FiniteSets

CONSTANTS
  Carts,     \* what a customer fills; a Razorpay order belongs to one cart
  NoCart,
  Requests,  \* slots for requests in flight (bound)
  Wants,     \* the wishes carts may have (bound)
  Prices,    \* what a cart's food may cost while prices and deals change
  Discount,  \* what a coupon takes off
  Flat,      \* settings.deliveryCharge
  Tolerance, \* by how much payment and total may differ
  Portions,  \* stock of the dish at the start
  Balance,   \* the customer's wallet at the start
  CouponLimit,
  MaxOrders  \* the browser asks for no more (bound)

Want == [dish : BOOLEAN,    \* the cart has the dish whose stock is tracked
         online : BOOLEAN,
         wallet : BOOLEAN,  \* use the wallet
         coupon : BOOLEAN,
         fee : Nat]         \* delivery to its address, by the distance

ASSUME NoCartAssumption == NoCart \notin Carts
ASSUME WantsAssumption == Wants \subseteq Want
ASSUME AmountsAssumption ==
  /\ Prices \subseteq Nat
  /\ Discount \in Nat /\ Flat \in Nat /\ Tolerance \in Nat
  /\ Portions \in Nat /\ Balance \in Nat
  /\ CouponLimit \in Nat /\ MaxOrders \in Nat
  /\ \A p \in Prices : Discount <= p

VARIABLES
  want,      \* each cart's wishes
  price,     \* products.price and the flash deal together
  stock,     \* inventory.quantity of the dish
  redeemed,  \* coupon_redemptions of the customer
  wallet,    \* users.wallet_balance
  last,      \* invoice_sequences.last_number
  orders,    \* orders and payments, in the order of commit
  quote,     \* amount of a cart's Razorpay order, 0 if it has none
  captured,  \* carts whose money Razorpay has
  snapshot,  \* pending_payments
  parked,    \* failed_payments
  answered,  \* webhooks answered with 200
  task,      \* the requests
  unparked,  \* history variable: a dead letter that could not be written
  raced,     \* history variable: carts with two checkouts past the dupe check
  steady     \* history variable: open payments whose price and wallet are as
             \* quoted

rows == <<stock, redeemed, wallet, last, orders, snapshot>>
world == <<want, price, quote, captured>>
history == <<unparked, raced, steady>>
vars == <<world, rows, parked, answered, task, history>>

Order == [cart : Carts, total : Int, wallet : Int, invoice : Nat]

Task == [pc : {"idle", "starting", "checked", "holding", "debited", "drawn", "parking"},
         cart : Carts \cup {NoCart},
         via : {"browser", "webhook"},
         price : Nat, total : Int, wallet : Int, invoice : Nat]

Idle == [pc |-> "idle", cart |-> NoCart, via |-> "browser",
         price |-> 0, total |-> 0, wallet |-> 0, invoice |-> 0]

Smaller(a, b) == IF a < b THEN a ELSE b

Goods(w, p) == IF w.coupon THEN p - Discount ELSE p

\* The lesser of the balance and what is due.
WalletPart(w, due) == IF w.wallet THEN Smaller(wallet, due) ELSE 0

\* priceCart takes the wallet off what the food and the delivery cost.
Quoted(w, p) ==
  LET due == Goods(w, p) + w.fee IN due - WalletPart(w, due)

\* The checkout takes it off the flat charge, and then corrects the charge.
Debit(w, p) == WalletPart(w, Goods(w, p) + Flat)

Payable(w, p) == Goods(w, p) + Flat - Debit(w, p) + (w.fee - Flat)

HasOrder(c) == \E i \in DOMAIN orders : orders[i].cart = c

\* Where a checkout has locked the stock row, and the customer's row.
HoldsStock == {"holding", "debited", "drawn"}
HoldsWallet == {"debited", "drawn"}

\* A checkout that has looked for the payment's order and not found it.
PastCheck(s) == task[s].pc \in {"checked"} \cup HoldsStock

\* A rejection that keeps the cart of the request.
BugRejects(s) ==
  task' = [task EXCEPT ![s].pc = IF task[s].via = "webhook" THEN "parking" ELSE "idle"]

\* The browser shows the error; the webhook parks the payment.
Rejects(s) ==
  task' = [task EXCEPT ![s] = IF @.via = "webhook" THEN [@ EXCEPT !.pc = "parking"] ELSE Idle]

Finish(s) ==
  /\ task' = [task EXCEPT ![s] = Idle]
  /\ answered' = IF task[s].via = "webhook" THEN answered \cup {task[s].cart} ELSE answered

----------------------------------------------------------------------------
(* Before the checkout, and the webhook's way to it.                       *)

\* The menu or a flash deal changes.
Reprice ==
  /\ price' \in Prices \ {price}
  /\ steady' = {}
  /\ UNCHANGED <<want, quote, captured, rows, parked, answered, task, unparked, raced>>

CouponValid(w) == w.coupon => redeemed < CouponLimit

InStock(w) == w.dish => stock > 0

\* createPaymentOrder: priceCart, the Razorpay order and the snapshot.
OpenPayment(c) ==
  LET w == want[c] IN
  /\ w.online /\ quote[c] = 0
  /\ InStock(w) /\ CouponValid(w)
  /\ Quoted(w, price) >= 1
  /\ quote' = [quote EXCEPT ![c] = Quoted(w, price)]
  /\ snapshot' = [snapshot EXCEPT ![c] = "pending"]
  /\ steady' = steady \cup {c}
  /\ UNCHANGED <<want, price, captured, stock, redeemed, wallet, last, orders,
                 parked, answered, task, unparked, raced>>

Capture(c) ==
  /\ quote[c] > 0 /\ c \notin captured
  /\ captured' = captured \cup {c}
  /\ UNCHANGED <<want, price, quote, rows, parked, answered, task, history>>

\* payment.captured, any number of times: nothing to do, or a checkout.
Webhook(s, c) ==
  /\ task[s].pc = "idle"
  /\ c \in captured
  /\ IF HasOrder(c) \/ snapshot[c] # "pending"
       THEN answered' = answered \cup {c} /\ task' = task
       ELSE /\ task' = [task EXCEPT ![s] =
                          [Idle EXCEPT !.pc = "starting", !.cart = c, !.via = "webhook"]]
            /\ answered' = answered
  /\ UNCHANGED <<world, rows, parked, history>>

----------------------------------------------------------------------------
(* The transaction.                                                        *)

\* A checkout that does not look for an order of the payment.
BugNoDupeCheck(c) == FALSE

AlreadyOrdered(c) == want[c].online /\ HasOrder(c)

\* The transaction begins: the dupe check, then the products are read.
Open(s, c, via) ==
  IF AlreadyOrdered(c)
    THEN /\ task' = [task EXCEPT ![s] = Idle]
         /\ answered' = IF via = "webhook" THEN answered \cup {c} ELSE answered
         /\ raced' = raced
    ELSE /\ task' = [task EXCEPT ![s] =
                       [Idle EXCEPT !.pc = "checked", !.cart = c, !.via = via, !.price = price]]
         /\ raced' = IF \E t \in Requests : PastCheck(t) /\ task[t].cart = c
                       THEN raced \cup {c} ELSE raced
         /\ answered' = answered

\* The browser's POST; online, Razorpay's signature proves the payment.
Ask(s, c) ==
  /\ task[s].pc = "idle"
  /\ want[c].online => c \in captured
  /\ Len(orders) + Cardinality({t \in Requests : PastCheck(t)}) < MaxOrders
  /\ Open(s, c, "browser")
  /\ UNCHANGED <<world, rows, parked, unparked, steady>>

\* The webhook goes on to the checkout some statements later.
Begin(s) ==
  /\ task[s].pc = "starting"
  /\ Open(s, task[s].cart, "webhook")
  /\ UNCHANGED <<world, rows, parked, unparked, steady>>

\* A stock check that takes no lock.
BugStockFree(s) == TRUE

StockFree(s) ==
  \A t \in Requests \ {s} : task[t].pc \in HoldsStock => ~ want[task[t].cart].dish

\* The stock row is locked and checked, the coupon's redemptions counted.
Hold(s) ==
  LET w == want[task[s].cart] IN
  /\ task[s].pc = "checked"
  /\ w.dish => StockFree(s)
  /\ IF InStock(w) /\ CouponValid(w)
       THEN task' = [task EXCEPT ![s].pc = "holding"]
       ELSE Rejects(s)
  /\ UNCHANGED <<world, rows, parked, answered, history>>

\* A balance that is read without FOR UPDATE.
BugWalletFree(s) == TRUE

WalletFree(s) ==
  \A t \in Requests \ {s} : task[t].pc \in HoldsWallet => ~ want[task[t].cart].wallet

\* A payment that is taken for enough because it is genuine.
BugPaidEnough(c, payable) == TRUE

PaidEnough(c, payable) ==
  want[c].online => payable - quote[c] \in -Tolerance .. Tolerance

\* The wallet is locked and debited, the delivery charge corrected, and the
\* amount compared with what was paid.
Charge(s) ==
  LET c == task[s].cart
      debit == Debit(want[c], task[s].price)
      payable == Payable(want[c], task[s].price)
  IN /\ task[s].pc = "holding"
     /\ want[c].wallet => WalletFree(s)
     /\ IF PaidEnough(c, payable)
          THEN task' = [task EXCEPT ![s].pc = "debited", ![s].wallet = debit, ![s].total = payable]
          ELSE Rejects(s)
     /\ UNCHANGED <<world, rows, parked, answered, history>>

NumberFree(s) == \A t \in Requests \ {s} : task[t].pc # "drawn"

\* nextInvoiceNo; the counter's row stays locked.
Draw(s) ==
  /\ task[s].pc = "debited"
  /\ NumberFree(s)
  /\ task' = [task EXCEPT ![s].pc = "drawn", ![s].invoice = last + 1]
  /\ UNCHANGED <<world, rows, parked, answered, history>>

\* A number drawn before the transaction, which a rollback does not return.
BugDrawnOutside(s) == IF task[s].pc = "drawn" THEN task[s].invoice ELSE last

LastAfterRollback(s) == last

Consumed(c) == [snapshot EXCEPT ![c] = IF want[c].online THEN "consumed" ELSE @]

\* GREATEST(quantity - 1, 0)
Sold(w) == IF w.dish /\ stock > 0 THEN stock - 1 ELSE stock

\* The rest of the transaction and its commit.
Commit(s) ==
  LET c == task[s].cart IN
  /\ task[s].pc = "drawn"
  /\ orders' = Append(orders, [cart |-> c, total |-> task[s].total,
                               wallet |-> task[s].wallet, invoice |-> task[s].invoice])
  /\ last' = task[s].invoice
  /\ wallet' = wallet - task[s].wallet
  /\ stock' = Sold(want[c])
  /\ redeemed' = IF want[c].coupon THEN redeemed + 1 ELSE redeemed
  /\ snapshot' = Consumed(c)
  /\ steady' = IF wallet' = wallet THEN steady \ {c} ELSE {}
  /\ Finish(s)
  /\ UNCHANGED <<world, parked, unparked, raced>>

----------------------------------------------------------------------------
(* What goes wrong.                                                        *)

\* A webhook that answers 200 and forgets the payment.
BugNoDeadLetter(c) == parked

Parked(c) == parked \cup {c}

\* The webhook's catch: the payment is parked for the staff.
DeadLetter(s) ==
  /\ task[s].pc = "parking"
  /\ parked' = Parked(task[s].cart)
  /\ Finish(s)
  /\ UNCHANGED <<world, rows, history>>

\* Parking fails as well, which is logged and answered all the same.
LoseLetter(s) ==
  /\ task[s].pc = "parking"
  /\ unparked' = unparked \cup {task[s].cart}
  /\ Finish(s)
  /\ UNCHANGED <<world, rows, parked, raced, steady>>

\* A statement fails: the transaction rolls back and the request rejects.
Fail(s) ==
  /\ task[s].pc = "starting" \/ PastCheck(s)
  /\ Rejects(s)
  /\ last' = LastAfterRollback(s)
  /\ UNCHANGED <<world, stock, redeemed, wallet, orders, snapshot, parked, answered, history>>

\* The process restarts: Razorpay gets no answer and will ask again.
Restart(s) ==
  /\ task[s].pc # "idle"
  /\ task' = [task EXCEPT ![s] = Idle]
  /\ last' = LastAfterRollback(s)
  /\ UNCHANGED <<world, stock, redeemed, wallet, orders, snapshot, parked, answered, history>>

Init ==
  /\ want \in [Carts -> Wants]
  /\ price \in Prices
  /\ stock = Portions /\ redeemed = 0 /\ wallet = Balance /\ last = 0
  /\ orders = <<>>
  /\ quote = [c \in Carts |-> 0]
  /\ captured = {} /\ parked = {} /\ answered = {} /\ unparked = {} /\ raced = {}
  /\ steady = {}
  /\ snapshot = [c \in Carts |-> "none"]
  /\ task = [s \in Requests |-> Idle]

Transaction(s) == Begin(s) \/ Hold(s) \/ Charge(s) \/ Draw(s) \/ Commit(s)

Next ==
  \/ Reprice
  \/ \E c \in Carts : OpenPayment(c) \/ Capture(c)
  \/ \E s \in Requests :
       \/ \E c \in Carts : Ask(s, c) \/ Webhook(s, c)
       \/ Transaction(s) \/ DeadLetter(s) \/ LoseLetter(s) \/ Fail(s) \/ Restart(s)

Spec == Init /\ [][Next]_vars

----------------------------------------------------------------------------
\* The tables and the requests have their types.
TypeOK ==
  /\ want \in [Carts -> Wants] /\ price \in Prices
  /\ stock \in 0 .. Portions /\ redeemed \in Nat /\ wallet \in Int /\ last \in Nat
  /\ orders \in Seq(Order)
  /\ quote \in [Carts -> Nat]
  /\ captured \subseteq Carts /\ parked \subseteq Carts /\ answered \subseteq Carts
  /\ unparked \subseteq Carts /\ raced \subseteq Carts /\ steady \subseteq Carts
  /\ snapshot \in [Carts -> {"none", "pending", "consumed"}]
  /\ task \in [Requests -> Task]
  /\ \A s \in Requests : (task[s].pc = "idle" <=> task[s].cart = NoCart)

OrdersOf(P(_)) == Cardinality({i \in DOMAIN orders : P(orders[i].cart)})

\* "Never oversell": what is left and what was sold are what there was, so
\* the GREATEST of the decrement never hides a missing portion.
NeverOversold ==
  LET dishes(c) == want[c].dish IN stock + OrdersOf(dishes) = Portions

\* "If this payment already produced an order, return the existing order":
\* browser and webhook make one order of a payment, unless both are past
\* the check at once.
OneOrderUnlessRaced ==
  \A c \in Carts :
    LET isC(d) == d = c IN want[c].online /\ c \notin raced => OrdersOf(isC) <= 1

\* Refuted (README): the same without the exception.
OneOrderPerPayment ==
  \A c \in Carts :
    LET isC(d) == d = c IN want[c].online => OrdersOf(isC) <= 1

\* "It can never collide", in "an unbroken, per-financial-year series": the
\* i-th order carries number i, whatever rolls back.
InvoicesUnbroken ==
  /\ last = Len(orders)
  /\ \A i \in DOMAIN orders : orders[i].invoice = i

\* "The signature proves the payment is genuine, but not that it covers this
\* cart": prices and wallet may change between quote and order, and still
\* an order paid online costs what Razorpay captured, give or take a rupee.
ChargedIsPaid ==
  \A i \in DOMAIN orders :
    LET c == orders[i].cart IN
      want[c].online =>
        c \in captured /\ orders[i].total - quote[c] \in -Tolerance .. Tolerance

\* Refuted (README): "so the Razorpay amount and the final order total can never disagree":
\* when neither price nor wallet has changed since the quote, the checkout
\* does not reject the payment for its amount.
QuoteStands ==
  \A s \in Requests :
    LET c == task[s].cart IN
      task[s].pc = "holding" /\ c \in steady
        => PaidEnough(c, Payable(want[c], task[s].price))

\* "Money captured and there is no order": a captured payment whose webhook
\* was answered is on an order or parked, unless parking itself failed.
CapturedIsKnown == \A c \in answered : HasOrder(c) \/ c \in parked \/ c \in unparked

\* Two orders never spend the same money of the wallet.
NeverOverdrawn == wallet >= 0
=============================================================================

------------------------ MODULE RefundsRewards_proofs ------------------------
(***************************************************************************)
(* Proofs about what an order gives back and what it brings: Refunds for   *)
(* any number of requests and any amounts, Rewards for any customers,      *)
(* orders and limits.                                                      *)
(*                                                                         *)
(* None of Refunds' properties is inductive.  What a request may do next   *)
(* depends on what it has done (Knows, Stage); that it did so alone, on    *)
(* there being no race so far (Alone); and what a cancellation finds, on   *)
(* nothing having been returned before (Before, Clean).                    *)
(*                                                                         *)
(* Rewards rests on the row locks a checkout keeps until it commits: who   *)
(* is about to convert a friend holds the referral's row, and who is about *)
(* to pay the milestone the row of the one it goes to (Earns).             *)
(***************************************************************************)
EXTENDS Refunds, RewardBooks, FiniteSetTheorems, TLAPS

CONSTANTS MaxGifts, MaxCancelled, MaxCuts
VARIABLES status, tx, held, gift, undo, cuts

R == INSTANCE Rewards

\* A cancellation past its save, up to the credit of the wallet part, up to
\* the restock, up to the redemption, up to the points, and to the end.
UntilPart == {"refunding", "to_wallet", "crediting", "recording", "reporting_credit",
              "asking", "marking", "reporting", "failing", "guarding", "crediting_part"}
UntilStock == UntilPart \cup {"recording_part", "reversing", "restocking"}
UntilDrop == UntilStock \cup {"showing", "dropping"}
UntilPoints == UntilDrop \cup {"uncounting", "points"}
Cancelling == UntilPoints \cup {"finishing"}

\* Past the online part.
Settled == (Cancelling \ UntilPart) \cup {"guarding", "crediting_part"}

Marking == {"marking", "admin_marking"}

\* Without a race there is one request at a time.
Alone ==
  ~ past.raced => \A p, q \in Requests : pc[p] # "idle" /\ pc[q] # "idle" => p = q

\* What an order has seen before it is placed, and before it is cancelled.
Before ==
  /\ order = "none" => /\ money.payment = "none" /\ money.returned = 0
                       /\ goods.uses = 0
                       /\ \A q \in Requests : pc[q] = "idle"
  /\ order # "none" /\ money.payment = "none" => Paid = 0
  /\ order = "live" => goods.uses = 1 /\ goods.redeemed /\ goods.points = Points
  /\ order # "cancelled" =>
       /\ money.online = 0 /\ money.wallet = 0 /\ money.rows = {}
       /\ goods.restored = 0 /\ ~ goods.reversed
       /\ \A q \in Requests : pc[q] \notin Cancelling

\* What a request knows of the money, raced or not.
Knows(q) ==
  /\ pc[q] \in Marking \cup {"reporting"} => money.returned = Paid
  /\ pc[q] \in {"recording", "reporting_credit"} => money.online >= Paid
  /\ pc[q] \in {"to_wallet", "crediting"} => dest[q] = "wallet"

\* A payment marked as refunded went back, or is about to, or broke off.
Sight ==
  money.payment = "refunded" =>
    \/ money.returned + money.online >= Paid
    \/ \E q \in Requests : pc[q] = "crediting"
    \/ order = "cancelled" /\ past.cut /\ \E q \in Requests : dest[q] = "wallet"

\* A dish that is there and hidden is about to be shown.
Shown ==
  ~ past.cut /\ goods.stock > 0 /\ ~ goods.shown => \E q \in Requests : pc[q] = "showing"

\* What a request that had no rival finds, if none left money unmarked.
CleanRow(q) ==
  /\ pc[q] \in {"to_wallet", "asking", "clicked"} => money.payment = "paid"
  /\ pc[q] \in Marking => money.online = 0
  /\ pc[q] = "crediting" => money.returned = 0 /\ money.online = 0 /\ money.payment = "refunded"

\* One request at a time, none of which left money unmarked.
Clean ==
  ~ past.raced /\ ~ past.unmarked =>
    /\ money.returned + money.online <= Paid
    /\ money.payment = "paid" /\ (\A q \in Requests : pc[q] \notin Marking)
         => money.returned = 0 /\ money.online = 0
    /\ \A q \in Requests : CleanRow(q)

\* How far a cancellation that had no rival has come.
Stage(q) ==
  /\ pc[q] = "vetted" => order = "live"
  /\ pc[q] \in UntilPart => money.wallet = 0 /\ "wallet" \notin money.rows
  /\ pc[q] \in Cancelling \ UntilPart => "online" \in money.rows \/ money.wallet = WalletUsed
  /\ pc[q] \in UntilStock => goods.restored = 0
  /\ pc[q] \in Cancelling \ UntilStock => goods.restored = 1
  /\ pc[q] \in UntilDrop => goods.uses = 1 /\ goods.redeemed
  /\ pc[q] = "uncounting" => goods.uses = 1 /\ ~ goods.redeemed
  /\ pc[q] \in {"points", "finishing"} => goods.uses = 0 /\ ~ goods.redeemed
  /\ pc[q] \in UntilPoints => goods.points = Points
  /\ pc[q] = "finishing" => goods.points = 0

\* A cancellation that had no rival gives back step by step, and once.
Stages ==
  ~ past.raced =>
    /\ money.wallet <= WalletUsed /\ goods.restored <= 1
    /\ \A q \in Requests : Stage(q)
    /\ goods.reversed =>
         /\ \A q \in Requests : pc[q] \notin Cancelling \cup {"vetted"}
         /\ "online" \in money.rows \/ money.wallet = WalletUsed
         /\ goods.restored = 1 /\ goods.uses = 0 /\ ~ goods.redeemed /\ goods.points = 0

\* Past its online part a cancellation has returned it, or flagged it.
OnlineBack ==
  ~ past.raced /\ ~ past.cut =>
    ((goods.reversed \/ \E q \in Requests : pc[q] \in Settled)
      => money.returned + money.online >= Paid \/ audit.failed)

Inv ==
  /\ TypeOK /\ Alone /\ Before /\ \A q \in Requests : Knows(q)
  /\ Sight /\ Shown /\ Clean /\ Stages /\ OnlineBack

----------------------------------------------------------------------------
\* An order not yet placed has given nothing back.
LEMMA InitInv == Init => Inv
<1> SUFFICES ASSUME Init PROVE Inv
  OBVIOUS
<1>1. TypeOK
  BY AmountsAssumption DEF Init, TypeOK, Steps, Destinations
<1>2. Alone /\ Before /\ (\A q \in Requests : Knows(q)) /\ Sight /\ Shown
  BY DEF Init, Alone, Before, Knows, Sight, Shown, Cancelling, UntilPoints, UntilDrop, UntilStock,
         UntilPart, Marking
<1>3. Clean /\ Stages /\ OnlineBack
  BY AmountsAssumption DEF Init, Clean, CleanRow, Stages, Stage, OnlineBack, Settled, Cancelling, UntilPoints,
         UntilDrop, UntilStock, UntilPart, Marking
<1> QED
  BY <1>1, <1>2, <1>3 DEF Inv

----------------------------------------------------------------------------
(* The types.                                                              *)

MoneyType == [payment : {"none", "paid", "refunded"}, returned : 0 .. Paid,
              online : Nat, wallet : Nat, rows : SUBSET {"online", "wallet"}]
GoodsType == [stock : Nat, shown : BOOLEAN, uses : Nat, redeemed : BOOLEAN, points : Nat,
              reversed : BOOLEAN, restored : Nat, restocks : 0 .. MaxRestocks]
AuditType == [refunded : Nat, failed : BOOLEAN]
PastType == [raced : BOOLEAN, cut : BOOLEAN, unmarked : BOOLEAN]
RequestType == /\ pc \in [Requests -> Steps]
               /\ dest \in [Requests -> Destinations]
               /\ sum \in [Requests -> Parts \cup {Paid}]

Typed == /\ order \in {"none", "live", "cancelled"}
         /\ money \in MoneyType /\ goods \in GoodsType /\ audit \in AuditType
         /\ RequestType /\ past \in PastType

\* The type invariant, part by part.
LEMMA Types == TypeOK <=> Typed
BY DEF TypeOK, Typed, MoneyType, GoodsType, AuditType, PastType, RequestType

\* What the statements write has its type.
LEMMA Writes ==
  ASSUME TypeOK
  PROVE  /\ [money EXCEPT !.payment = IF Paid > 0 THEN "paid" ELSE "none"] \in MoneyType
         /\ [money EXCEPT !.payment = "refunded"] \in MoneyType
         /\ [money EXCEPT !.online = @ + Paid] \in MoneyType
         /\ [money EXCEPT !.wallet = @ + WalletUsed] \in MoneyType
         /\ [money EXCEPT !.rows = @ \cup {"online"}] \in MoneyType
         /\ [money EXCEPT !.rows = @ \cup {"wallet"}] \in MoneyType
         /\ \A a \in Parts \cup {Paid} : Returns(a) => money' \in MoneyType
         /\ goods.stock > 0 => Taken(goods) \in GoodsType
         /\ \A n \in {0, 2} : Restock(n) => goods' \in GoodsType
         /\ [goods EXCEPT !.stock = @ + 1, !.restored = @ + 1] \in GoodsType
         /\ [goods EXCEPT !.shown = @ \/ goods.stock > 0] \in GoodsType
         /\ [goods EXCEPT !.redeemed = FALSE] \in GoodsType
         /\ Uncount(goods) \in GoodsType
         /\ TakeBack(goods) \in GoodsType
         /\ [goods EXCEPT !.reversed = TRUE] \in GoodsType
         /\ \A a \in Parts \cup {Paid} : Report(a) => audit' \in AuditType
         /\ FlagFailure => audit' \in AuditType
         /\ Unmarked => past' \in PastType
         /\ \A q \in Requests : BreaksOff(q) => past' \in PastType
<1> USE AmountsAssumption, Types DEF Typed
<1>1. money \in MoneyType /\ goods \in GoodsType /\ audit \in AuditType /\ past \in PastType
  OBVIOUS
<1>2. /\ [money EXCEPT !.payment = IF Paid > 0 THEN "paid" ELSE "none"] \in MoneyType
      /\ [money EXCEPT !.payment = "refunded"] \in MoneyType
      /\ [money EXCEPT !.online = @ + Paid] \in MoneyType
      /\ [money EXCEPT !.wallet = @ + WalletUsed] \in MoneyType
  BY <1>1 DEF MoneyType
<1>3. /\ [money EXCEPT !.rows = @ \cup {"online"}] \in MoneyType
      /\ [money EXCEPT !.rows = @ \cup {"wallet"}] \in MoneyType
  BY <1>1 DEF MoneyType
<1>4. ASSUME NEW a \in Parts \cup {Paid}, Returns(a) PROVE money' \in MoneyType
  <2>1. a \in Nat /\ money.returned + a \in 0 .. Paid
    BY <1>1, <1>4 DEF MoneyType, Returns
  <2> QED
    BY <1>1, <1>4, <2>1 DEF MoneyType, Returns
<1>5. ASSUME goods.stock > 0 PROVE Taken(goods) \in GoodsType
  <2>1. goods.stock - 1 \in Nat /\ goods.uses + 1 \in Nat /\ (goods.stock > 1) \in BOOLEAN
    BY <1>1, <1>5 DEF GoodsType
  <2> QED
    BY <1>1, <2>1 DEF GoodsType, Taken
<1>6. ASSUME NEW n \in {0, 2}, Restock(n) PROVE goods' \in GoodsType
  <2>1. goods.restocks + 1 \in 0 .. MaxRestocks /\ (goods.shown \/ n > 0) \in BOOLEAN /\ n \in Nat
    BY <1>1, <1>6 DEF GoodsType, Restock
  <2> QED
    BY <1>1, <1>6, <2>1 DEF GoodsType, Restock
<1>7. [goods EXCEPT !.stock = @ + 1, !.restored = @ + 1] \in GoodsType
  <2>1. goods.stock + 1 \in Nat /\ goods.restored + 1 \in Nat
    BY <1>1 DEF GoodsType
  <2> QED
    BY <1>1, <2>1 DEF GoodsType
<1>8. [goods EXCEPT !.shown = @ \/ goods.stock > 0] \in GoodsType
  <2>1. \A b \in BOOLEAN : [goods EXCEPT !.shown = b] \in GoodsType
    BY <1>1 DEF GoodsType
  <2>2. (goods.shown \/ goods.stock > 0) \in BOOLEAN
    OBVIOUS
  <2> QED
    BY ONLY <2>1, <2>2, Zenon
<1>9. /\ [goods EXCEPT !.redeemed = FALSE] \in GoodsType
      /\ [goods EXCEPT !.reversed = TRUE] \in GoodsType
  BY <1>1 DEF GoodsType
<1>10. Uncount(goods) \in GoodsType
  <2>1. (IF goods.uses > 0 THEN goods.uses - 1 ELSE 0) \in Nat
    BY <1>1 DEF GoodsType
  <2> QED
    BY <1>1, <2>1 DEF GoodsType, Uncount
<1>11. TakeBack(goods) \in GoodsType
  <2>1. (IF goods.points > Points THEN goods.points - Points ELSE 0) \in Nat
    BY <1>1 DEF GoodsType
  <2> QED
    BY <1>1, <2>1 DEF GoodsType, TakeBack
<1>12. ASSUME NEW a \in Parts \cup {Paid}, Report(a) PROVE audit' \in AuditType
  <2>1. audit.refunded + a \in Nat
    BY <1>1 DEF AuditType
  <2> QED
    BY <1>1, <1>12, <2>1 DEF AuditType, Report
<1>13. FlagFailure => audit' \in AuditType
  BY <1>1 DEF AuditType, FlagFailure
<1>14. Unmarked => past' \in PastType
  BY <1>1 DEF PastType, Unmarked
<1>15. ASSUME NEW q \in Requests, BreaksOff(q) PROVE past' \in PastType
  <2>1. (past.unmarked \/ pc[q] \in {"marking", "admin_marking"}) \in BOOLEAN
    OBVIOUS
  <2> QED
    BY <1>1, <1>15, <2>1 DEF PastType, BreaksOff
<1> QED
  BY <1>2, <1>3, <1>4, <1>5, <1>6, <1>7, <1>8, <1>9, <1>10, <1>11, <1>12, <1>13, <1>14, <1>15

----------------------------------------------------------------------------
(* The steps of a request under way.                                       *)

OnlineStep(q) ==
  ReadPayment(q) \/ MarkForWallet(q) \/ CreditOnline(q) \/ RecordOnline(q) \/ ReportCredit(q)
  \/ AskRazorpay(q) \/ MarkRefunded(q) \/ ReportRefund(q) \/ Throw(q) \/ ReportFailure(q)

PartStep(q) ==
  ReadWalletRows(q) \/ CreditPart(q) \/ RecordPart(q)

GoodsStep(q) ==
  ReadMarker(q) \/ RestoreStock(q) \/ ShowAgain(q) \/ DropRedemption(q) \/ ReleaseCoupon(q)
  \/ ReversePoints(q) \/ WriteMarker(q)

AdminStep(q) == AskForAdmin(q) \/ AdminMark(q) \/ AdminReport(q)

\* Every step is one of these.
LEMMA NextCases ==
  ASSUME Next
  PROVE  \/ Place
         \/ \E n \in {0, 2} : Restock(n)
         \/ \E q \in Requests :
              \/ \E d \in Destinations : Cancel(q, d)
              \/ \E a \in Parts \cup {Paid} : Click(q, a)
              \/ SaveCancelled(q) \/ OnlineStep(q) \/ PartStep(q) \/ GoodsStep(q) \/ AdminStep(q)
              \/ Cut(q)
BY DEF Next, OnlineStep, PartStep, GoodsStep, AdminStep

\* Every step keeps the types.
LEMMA TypeStep ==
  ASSUME TypeOK, [Next]_vars
  PROVE  TypeOK'
<1>a. Typed
  BY Types
<1>b. SUFFICES Typed'
  BY DEF TypeOK, Typed, MoneyType, GoodsType, AuditType, PastType, RequestType
<1>g. ASSUME NEW q \in Requests, NEW from, NEW to \in Steps, GoTo(q, from, to) PROVE RequestType'
  BY <1>a, <1>g DEF Typed, RequestType, GoTo
<1>s. ASSUME NEW q \in Requests, NEW to \in Steps, Start(q, to)
      PROVE  /\ pc' \in [Requests -> Steps] /\ past' \in PastType
             /\ UNCHANGED <<order, money, goods, audit>>
  <2>1. (past.raced \/ \E p \in Requests : pc[p] # "idle") \in BOOLEAN
    OBVIOUS
  <2>2. \A b \in BOOLEAN : [past EXCEPT !.raced = b] \in PastType
    BY <1>a DEF PastType, Typed
  <2>3. past' \in PastType
    BY ONLY <2>1, <2>2, <1>s, Zenon DEF Start
  <2> QED
    BY <1>a, <1>s, <2>3 DEF Typed, RequestType, Start
<1>w. \A q \in Requests : sum[q] \in Parts \cup {Paid}
  BY <1>a DEF Typed, RequestType
<1>1. CASE Place
  BY <1>a, <1>1, Writes DEF Place, Typed, RequestType
<1>2. ASSUME NEW n \in {0, 2}, Restock(n) PROVE Typed'
  BY <1>a, <1>2, Writes DEF Restock, Typed, RequestType
<1>3. ASSUME NEW q \in Requests, NEW d \in Destinations, Cancel(q, d) PROVE Typed'
  BY <1>a, <1>3, <1>s DEF Cancel, Typed, RequestType, Steps
<1>4. ASSUME NEW q \in Requests, NEW a \in Parts \cup {Paid}, Click(q, a) PROVE Typed'
  BY <1>a, <1>4, <1>s DEF Click, Typed, RequestType, Steps
<1>5. ASSUME NEW q \in Requests, SaveCancelled(q) PROVE Typed'
  BY <1>a, <1>5, <1>g DEF SaveCancelled, Typed, Steps
<1>6. ASSUME NEW q \in Requests, OnlineStep(q) PROVE Typed'
  <2> USE <1>a, <1>g, Writes DEF Typed, Steps
  <2>1. CASE ReadPayment(q) \/ MarkForWallet(q)
    BY <2>1 DEF ReadPayment, MarkForWallet, ClosePayment
  <2>2. CASE CreditOnline(q) \/ RecordOnline(q)
    BY <2>2 DEF CreditOnline, RecordOnline
  <2>3. CASE ReportCredit(q) \/ ReportRefund(q) \/ ReportFailure(q)
    BY <2>3 DEF ReportCredit, ReportRefund, ReportFailure
  <2>4. CASE AskRazorpay(q)
    BY <2>4 DEF AskRazorpay
  <2>5. CASE MarkRefunded(q)
    BY <2>5 DEF MarkRefunded, ClosePayment
  <2>6. CASE Throw(q)
    <3>1. RequestType'
      BY <2>6 DEF Throw
    <3> QED
      BY <2>6, <3>1 DEF Throw, BreaksOff
  <2> QED
    BY <1>6, <2>1, <2>2, <2>3, <2>4, <2>5, <2>6 DEF OnlineStep
<1>7. ASSUME NEW q \in Requests, PartStep(q) PROVE Typed'
  BY <1>a, <1>g, <1>7, Writes DEF PartStep, ReadWalletRows, CreditPart, RecordPart, Typed, Steps
<1>8. ASSUME NEW q \in Requests, GoodsStep(q) PROVE Typed'
  <2> USE <1>a, <1>g, Writes DEF Typed, Steps
  <2>1. CASE ReadMarker(q) \/ RestoreStock(q)
    BY <2>1 DEF ReadMarker, RestoreStock
  <2>2. CASE ShowAgain(q)
    <3>1. RequestType'
      BY <2>2 DEF ShowAgain
    <3>2. goods' \in GoodsType
      BY <2>2 DEF ShowAgain
    <3> QED
      BY <2>2, <3>1, <3>2 DEF ShowAgain
  <2>3. CASE DropRedemption(q) \/ ReleaseCoupon(q)
    BY <2>3 DEF DropRedemption, ReleaseCoupon
  <2>4. CASE ReversePoints(q) \/ WriteMarker(q)
    BY <2>4 DEF ReversePoints, WriteMarker
  <2> QED
    BY <1>8, <2>1, <2>2, <2>3, <2>4 DEF GoodsStep
<1>9. ASSUME NEW q \in Requests, AdminStep(q) PROVE Typed'
  <2> USE <1>a, <1>g, <1>w, Writes DEF Typed, Steps
  <2>1. CASE AskForAdmin(q)
    BY <2>1 DEF AskForAdmin
  <2>2. CASE AdminMark(q)
    BY <2>2 DEF AdminMark, ClosePayment
  <2>3. CASE AdminReport(q)
    BY <2>3 DEF AdminReport
  <2> QED
    BY <1>9, <2>1, <2>2, <2>3 DEF AdminStep
<1>10. ASSUME NEW q \in Requests, Cut(q) PROVE Typed'
  <2>1. RequestType'
    BY <1>10, <1>g DEF Cut, Steps
  <2> QED
    BY <1>a, <1>10, <2>1, Writes DEF Cut, BreaksOff, Typed
<1>11. CASE UNCHANGED vars
  BY <1>a, <1>11 DEF vars, Typed, RequestType
<1> QED
  BY <1>1, <1>2, <1>3, <1>4, <1>5, <1>6, <1>7, <1>8, <1>9, <1>10, <1>11, NextCases

----------------------------------------------------------------------------
(* What all steps have in common.                                          *)

\* A step under way of one request leaves the others where they are.
LEMMA OneMoves ==
  ASSUME TypeOK, NEW q \in Requests,
         SaveCancelled(q) \/ OnlineStep(q) \/ PartStep(q) \/ GoodsStep(q) \/ AdminStep(q) \/ Cut(q)
  PROVE  /\ pc[q] # "idle" /\ dest' = dest /\ past'.raced = past.raced
         /\ \A p \in Requests \ {q} : pc'[p] = pc[p]
         /\ order' \in {order, "cancelled"}
<1> USE DEF TypeOK
<1>1. CASE SaveCancelled(q)
  BY <1>1 DEF SaveCancelled, GoTo
<1>2. CASE OnlineStep(q)
  <2> USE DEF GoTo
  <2>1. CASE ReadPayment(q) \/ MarkForWallet(q) \/ CreditOnline(q) \/ RecordOnline(q)
    BY <2>1 DEF ReadPayment, MarkForWallet, CreditOnline, RecordOnline
  <2>2. CASE ReportCredit(q) \/ ReportRefund(q) \/ ReportFailure(q) \/ MarkRefunded(q)
    BY <2>2 DEF ReportCredit, ReportRefund, ReportFailure, MarkRefunded
  <2>3. CASE AskRazorpay(q)
    BY <2>3 DEF AskRazorpay, Unmarked
  <2>4. CASE Throw(q)
    BY <2>4 DEF Throw, BreaksOff
  <2> QED
    BY <1>2, <2>1, <2>2, <2>3, <2>4 DEF OnlineStep
<1>3. CASE PartStep(q)
  BY <1>3 DEF PartStep, ReadWalletRows, CreditPart, RecordPart, GoTo
<1>4. CASE GoodsStep(q)
  <2>1. CASE ReadMarker(q) \/ RestoreStock(q) \/ ShowAgain(q)
    BY <2>1 DEF ReadMarker, RestoreStock, ShowAgain, GoTo
  <2>2. CASE DropRedemption(q) \/ ReleaseCoupon(q) \/ ReversePoints(q) \/ WriteMarker(q)
    BY <2>2 DEF DropRedemption, ReleaseCoupon, ReversePoints, WriteMarker, GoTo
  <2> QED
    BY <1>4, <2>1, <2>2 DEF GoodsStep
<1>5. CASE AdminStep(q)
  BY <1>5 DEF AdminStep, AskForAdmin, AdminMark, AdminReport, GoTo, Unmarked
<1>6. CASE Cut(q)
  BY <1>6 DEF Cut, BreaksOff, GoTo
<1> QED
  BY <1>1, <1>2, <1>3, <1>4, <1>5, <1>6

\* A request that starts finds the others, or makes a race.
LEMMA OneStarts ==
  ASSUME TypeOK, NEW q \in Requests, NEW to, Start(q, to)
  PROVE  /\ pc[q] = "idle" /\ pc'[q] = to
         /\ \A p \in Requests \ {q} : pc'[p] = pc[p]
         /\ past'.raced = (past.raced \/ \E p \in Requests : pc[p] # "idle")
         /\ past'.unmarked = past.unmarked /\ past'.cut = past.cut
         /\ UNCHANGED <<order, money, goods, audit>>
BY DEF TypeOK, Start

\* A request that breaks off leaves the money where it was.
LEMMA Broken ==
  ASSUME TypeOK, NEW q \in Requests, BreaksOff(q)
  PROVE  /\ past'.raced = past.raced /\ past'.cut
         /\ past.unmarked \/ pc[q] \in Marking => past'.unmarked
         /\ UNCHANGED <<order, money, goods, audit>>
BY DEF TypeOK, BreaksOff, Marking

\* Money that has gone back stays back, and what has happened has happened.
Grows ==
  /\ money.returned <= money'.returned /\ money.online <= money'.online
  /\ audit.failed => audit'.failed
  /\ past.raced => past'.raced
  /\ past.unmarked => past'.unmarked
  /\ past.cut => past'.cut

\* No step takes back what Razorpay or the wallet returned, or what was noted.
LEMMA Growth ==
  ASSUME TypeOK, [Next]_vars
  PROVE  Grows
<1> USE AmountsAssumption DEF TypeOK, Grows
<1>1. CASE Place \/ \E n \in {0, 2} : Restock(n)
  BY <1>1 DEF Place, Restock
<1>2. ASSUME NEW q \in Requests, NEW d \in Destinations, Cancel(q, d) PROVE Grows
  BY <1>2, OneStarts DEF Cancel
<1>3. ASSUME NEW q \in Requests, NEW a \in Parts \cup {Paid}, Click(q, a) PROVE Grows
  BY <1>3, OneStarts DEF Click
<1>4. ASSUME NEW q \in Requests, SaveCancelled(q) \/ PartStep(q) \/ GoodsStep(q) PROVE Grows
  BY <1>4 DEF SaveCancelled, PartStep, ReadWalletRows, CreditPart, RecordPart, GoodsStep, ReadMarker,
              RestoreStock, ShowAgain, DropRedemption, ReleaseCoupon, ReversePoints, WriteMarker
<1>5. ASSUME NEW q \in Requests, OnlineStep(q) PROVE Grows
  <2>1. CASE ReadPayment(q) \/ MarkForWallet(q) \/ CreditOnline(q) \/ RecordOnline(q) \/ ReportCredit(q)
    BY <2>1 DEF ReadPayment, MarkForWallet, CreditOnline, RecordOnline, ReportCredit, ClosePayment, Report
  <2>2. CASE AskRazorpay(q)
    BY <2>2 DEF AskRazorpay, Returns, Unmarked
  <2>3. CASE MarkRefunded(q) \/ ReportRefund(q) \/ ReportFailure(q)
    BY <2>3 DEF MarkRefunded, ReportRefund, ReportFailure, ClosePayment, Report, FlagFailure
  <2>4. CASE Throw(q)
    BY <2>4, Broken DEF Throw
  <2> QED
    BY <1>5, <2>1, <2>2, <2>3, <2>4 DEF OnlineStep
<1>6. ASSUME NEW q \in Requests, AdminStep(q) PROVE Grows
  <2>1. sum[q] \in Nat
    OBVIOUS
  <2>2. CASE AskForAdmin(q)
    <3>1. CASE Returns(sum[q]) /\ (UNCHANGED past \/ Unmarked)
      BY <2>1, <2>2, <3>1 DEF AskForAdmin, Returns, Unmarked
    <3>2. CASE UNCHANGED <<money, past>>
      BY <2>2, <3>2 DEF AskForAdmin
    <3> QED
      BY <2>2, <3>1, <3>2 DEF AskForAdmin
  <2>3. CASE AdminMark(q) \/ AdminReport(q)
    BY <2>3 DEF AdminMark, AdminReport, ClosePayment, Report
  <2> QED
    BY <1>6, <2>2, <2>3 DEF AdminStep
<1>7. ASSUME NEW q \in Requests, Cut(q) PROVE Grows
  BY <1>7, Broken DEF Cut
<1>8. CASE UNCHANGED vars
  BY <1>8 DEF vars
<1> QED
  BY <1>1, <1>2, <1>3, <1>4, <1>5, <1>6, <1>7, <1>8, NextCases

\* A race is seen when it begins.
LEMMA AloneStep ==
  ASSUME TypeOK, Alone, [Next]_vars
  PROVE  Alone'
<1>1. CASE Place \/ \E n \in {0, 2} : Restock(n)
  BY <1>1 DEF Place, Restock, Alone
<1>2. ASSUME NEW q \in Requests, \/ \E d \in Destinations : Cancel(q, d)
                                 \/ \E a \in Parts \cup {Paid} : Click(q, a)
      PROVE  Alone'
  <2>1. Start(q, "vetted") \/ Start(q, "clicked")
    BY <1>2 DEF Cancel, Click
  <2>2. SUFFICES ASSUME ~ past'.raced PROVE Alone'
    BY DEF Alone
  <2>3. \A p \in Requests : pc[p] = "idle"
    BY <2>1, <2>2, OneStarts
  <2>4. \A p \in Requests \ {q} : pc'[p] = "idle"
    BY <2>1, <2>3, OneStarts
  <2> QED
    BY <2>4 DEF Alone
<1>3. ASSUME NEW q \in Requests, SaveCancelled(q) \/ OnlineStep(q) \/ PartStep(q) \/ GoodsStep(q)
                                   \/ AdminStep(q) \/ Cut(q)
      PROVE  Alone'
  BY <1>3, OneMoves DEF Alone
<1>4. CASE UNCHANGED vars
  BY <1>4 DEF vars, Alone
<1> QED
  BY <1>1, <1>2, <1>3, <1>4, NextCases

----------------------------------------------------------------------------
(* What an order has seen, and what a request knows.                       *)

\* A cancellation under way knows the order is cancelled.
LEMMA CancelledOrder ==
  ASSUME TypeOK, Before, NEW q \in Requests, pc[q] \in Cancelling
  PROVE  order = "cancelled"
BY DEF Before, TypeOK

\* A step of a cancellation that leaves the goods of the others alone.
LEMMA CancelMoves ==
  ASSUME TypeOK, NEW q \in Requests, OnlineStep(q) \/ PartStep(q) \/ GoodsStep(q)
  PROVE  /\ pc[q] \in Cancelling
         /\ order' = order /\ money'.payment \in {money.payment, "refunded"}
<1> USE DEF TypeOK, Cancelling, UntilPoints, UntilDrop, UntilStock, UntilPart
<1>1. CASE OnlineStep(q)
  <2> USE DEF GoTo
  <2>1. CASE ReadPayment(q) \/ MarkForWallet(q) \/ CreditOnline(q) \/ RecordOnline(q) \/ ReportCredit(q)
    BY <2>1 DEF ReadPayment, MarkForWallet, CreditOnline, RecordOnline, ReportCredit, ClosePayment, Report
  <2>2. CASE AskRazorpay(q)
    BY <2>2 DEF AskRazorpay, Returns, Unmarked
  <2>3. CASE MarkRefunded(q) \/ ReportRefund(q) \/ Throw(q) \/ ReportFailure(q)
    BY <2>3 DEF MarkRefunded, ReportRefund, Throw, ReportFailure, ClosePayment, Report, BreaksOff,
                FlagFailure
  <2> QED
    BY <1>1, <2>1, <2>2, <2>3 DEF OnlineStep
<1>2. CASE PartStep(q)
  BY <1>2 DEF PartStep, ReadWalletRows, CreditPart, RecordPart, GoTo
<1>3. CASE GoodsStep(q)
  BY <1>3 DEF GoodsStep, ReadMarker, RestoreStock, ShowAgain, DropRedemption, ReleaseCoupon,
              ReversePoints, WriteMarker, GoTo
<1> QED
  BY <1>1, <1>2, <1>3

\* Nothing comes back before the order is cancelled, except at Razorpay.
LEMMA BeforeStep ==
  ASSUME TypeOK, Before, [Next]_vars
  PROVE  Before'
<1> USE DEF TypeOK
<1>1. CASE Place
  <2>1. /\ order = "none" /\ order' = "live" /\ pc' = pc
        /\ money'.payment = (IF Paid > 0 THEN "paid" ELSE "none")
        /\ money'.online = money.online /\ money'.wallet = money.wallet /\ money'.rows = money.rows
    BY <1>1 DEF Place
  <2>2. /\ goods'.uses = goods.uses + 1 /\ goods'.redeemed /\ goods'.points = Points
        /\ goods'.restored = goods.restored /\ goods'.reversed = goods.reversed
    BY <1>1 DEF Place, Taken
  <2> QED
    BY <2>1, <2>2, AmountsAssumption DEF Before
<1>2. ASSUME NEW n \in {0, 2}, Restock(n) PROVE Before'
  <2>1. /\ goods'.uses = goods.uses /\ goods'.redeemed = goods.redeemed
        /\ goods'.points = goods.points
        /\ goods'.restored = goods.restored /\ goods'.reversed = goods.reversed
        /\ UNCHANGED <<order, money, pc>>
    BY <1>2 DEF Restock
  <2> QED
    BY <2>1 DEF Before
<1>3. ASSUME NEW q \in Requests, \/ \E d \in Destinations : Cancel(q, d)
                                 \/ \E a \in Parts \cup {Paid} : Click(q, a)
      PROVE  Before'
  <2>1. order # "none" /\ (Start(q, "vetted") \/ Start(q, "clicked"))
    BY <1>3 DEF Cancel, Click
  <2>2. /\ pc'[q] \in {"vetted", "clicked"} /\ \A p \in Requests \ {q} : pc'[p] = pc[p]
        /\ UNCHANGED <<order, money, goods>>
    BY <2>1, OneStarts
  <2>3. {"vetted", "clicked"} \cap Cancelling = {}
    BY DEF Cancelling, UntilPoints, UntilDrop, UntilStock, UntilPart
  <2> QED
    BY <2>1, <2>2, <2>3 DEF Before
<1>4. ASSUME NEW q \in Requests, SaveCancelled(q) PROVE Before'
  <2>1. order' = "cancelled" /\ order # "none" /\ money' = money
    BY <1>4 DEF SaveCancelled, GoTo, Before
  <2> QED
    BY <2>1 DEF Before
<1>5. ASSUME NEW q \in Requests, OnlineStep(q) \/ PartStep(q) \/ GoodsStep(q) PROVE Before'
  <2>1. order = "cancelled" /\ order' = order /\ money'.payment \in {money.payment, "refunded"}
    BY <1>5, CancelMoves, CancelledOrder
  <2> QED
    BY <2>1 DEF Before
<1>6. ASSUME NEW q \in Requests, AdminStep(q) \/ Cut(q) PROVE Before'
  <2>1. /\ UNCHANGED <<order, goods>> /\ money'.payment \in {money.payment, "refunded"}
        /\ money'.online = money.online /\ money'.wallet = money.wallet /\ money'.rows = money.rows
    BY <1>6 DEF AdminStep, AskForAdmin, AdminMark, AdminReport, Cut, BreaksOff, ClosePayment, Returns
  <2>2. pc[q] # "idle" /\ \A p \in Requests \ {q} : pc'[p] = pc[p]
    BY <1>6, OneMoves
  <2>3. pc'[q] \notin Cancelling
    BY <1>6 DEF AdminStep, AskForAdmin, AdminMark, AdminReport, Cut, GoTo, Cancelling, UntilPoints,
                UntilDrop, UntilStock, UntilPart
  <2> QED
    BY <2>1, <2>2, <2>3 DEF Before
<1>7. CASE UNCHANGED vars
  BY <1>7 DEF vars, Before
<1> QED
  BY <1>1, <1>2, <1>3, <1>4, <1>5, <1>6, <1>7, NextCases

\* No rival takes from a request what it knows: money only comes back.
LEMMA KnowsStep ==
  ASSUME TypeOK, TypeOK', Before, \A q \in Requests : Knows(q), [Next]_vars
  PROVE  \A q \in Requests : Knows(q)'
<1> USE AmountsAssumption
<1>1. Grows
  BY Growth
<1>2. ASSUME NEW p \in Requests, pc'[p] = pc[p], dest'[p] = dest[p] PROVE Knows(p)'
  <2>1. money.returned = Paid => money'.returned = Paid
    BY <1>1 DEF Grows, TypeOK
  <2>2. money.online >= Paid => money'.online >= Paid
    BY <1>1 DEF Grows, TypeOK
  <2> QED
    BY <1>2, <2>1, <2>2 DEF Knows
<1>3. ASSUME NEW q \in Requests, SaveCancelled(q) \/ OnlineStep(q) \/ PartStep(q) \/ GoodsStep(q)
                                   \/ AdminStep(q) \/ Cut(q), Knows(q)'
      PROVE  \A p \in Requests : Knows(p)'
  BY <1>2, <1>3, OneMoves
<1>4. CASE Place \/ \E n \in {0, 2} : Restock(n)
  BY <1>2, <1>4 DEF Place, Restock
<1>5. ASSUME NEW q \in Requests, NEW d \in Destinations, Cancel(q, d)
      PROVE  \A p \in Requests : Knows(p)'
  <2>1. pc'[q] = "vetted" /\ \A p \in Requests \ {q} : pc'[p] = pc[p] /\ dest'[p] = dest[p]
    BY <1>5, OneStarts DEF Cancel, TypeOK
  <2>2. Knows(q)'
    BY <2>1 DEF Knows, Marking
  <2> QED
    BY <1>2, <2>1, <2>2
<1>6. ASSUME NEW q \in Requests, NEW a \in Parts \cup {Paid}, Click(q, a)
      PROVE  \A p \in Requests : Knows(p)'
  <2>1. pc'[q] = "clicked" /\ \A p \in Requests \ {q} : pc'[p] = pc[p] /\ dest'[p] = dest[p]
    BY <1>6, OneStarts DEF Click
  <2>2. Knows(q)'
    BY <2>1 DEF Knows, Marking
  <2> QED
    BY <1>2, <2>1, <2>2
<1>7. ASSUME NEW q \in Requests, SaveCancelled(q) \/ PartStep(q) \/ GoodsStep(q) \/ Cut(q)
      PROVE  Knows(q)'
  BY <1>7 DEF SaveCancelled, PartStep, ReadWalletRows, CreditPart, RecordPart, GoodsStep, ReadMarker,
              RestoreStock, ShowAgain, DropRedemption, ReleaseCoupon, ReversePoints, WriteMarker, Cut,
              GoTo, Knows, Marking, TypeOK
<1>8. ASSUME NEW q \in Requests, OnlineStep(q) PROVE Knows(q)'
  <2>1. CASE ReadPayment(q) \/ MarkForWallet(q)
    BY <2>1 DEF ReadPayment, MarkForWallet, GoTo, Knows, Marking, TypeOK
  <2>2. CASE CreditOnline(q)
    BY <2>2 DEF CreditOnline, GoTo, Knows, Marking, TypeOK
  <2>3. CASE RecordOnline(q) \/ ReportCredit(q)
    BY <2>3 DEF RecordOnline, ReportCredit, GoTo, Knows, Marking, TypeOK
  <2>4. CASE AskRazorpay(q)
    <3>1. CASE GoTo(q, "asking", "marking") /\ Returns(Paid)
      BY <3>1 DEF GoTo, Returns, Knows, Marking, TypeOK
    <3>2. CASE GoTo(q, "asking", "failing")
      BY <3>2 DEF GoTo, Knows, Marking, TypeOK
    <3> QED
      BY <2>4, <3>1, <3>2 DEF AskRazorpay
  <2>5. CASE MarkRefunded(q)
    BY <2>5 DEF MarkRefunded, ClosePayment, GoTo, Knows, Marking, TypeOK
  <2>6. CASE ReportRefund(q) \/ Throw(q) \/ ReportFailure(q)
    BY <2>6 DEF ReportRefund, Throw, ReportFailure, GoTo, Knows, Marking, TypeOK
  <2> QED
    BY <1>8, <2>1, <2>2, <2>3, <2>4, <2>5, <2>6 DEF OnlineStep
<1>9. ASSUME NEW q \in Requests, AdminStep(q) PROVE Knows(q)'
  <2>1. CASE AskForAdmin(q)
    <3>1. CASE GoTo(q, "clicked", "admin_marking") /\ Full(q) /\ Returns(sum[q])
      BY <3>1 DEF GoTo, Full, Returns, Knows, Marking, TypeOK
    <3>2. CASE GoTo(q, "clicked", "admin_reporting") \/ GoTo(q, "clicked", "idle")
      BY <3>2 DEF GoTo, Knows, Marking, TypeOK
    <3> QED
      BY <2>1, <3>1, <3>2 DEF AskForAdmin
  <2>2. CASE AdminMark(q) \/ AdminReport(q)
    BY <2>2 DEF AdminMark, AdminReport, GoTo, Knows, Marking, TypeOK
  <2> QED
    BY <1>9, <2>1, <2>2 DEF AdminStep
<1>10. CASE UNCHANGED vars
  BY <1>2, <1>10 DEF vars
<1> QED
  BY <1>3, <1>4, <1>5, <1>6, <1>7, <1>8, <1>9, <1>10, NextCases

\* The row is marked by a request that has Razorpay's answer, or that goes on to
\* credit the wallet.
LEMMA SightStep ==
  ASSUME TypeOK, TypeOK', Before, \A q \in Requests : Knows(q), Sight, [Next]_vars
  PROVE  Sight'
<1> USE AmountsAssumption
<1>1. Grows
  BY Growth
<1>2. SUFFICES ASSUME money'.payment = "refunded",
                      ~ (money'.returned + money'.online >= Paid)
               PROVE  \/ \E q \in Requests : pc'[q] = "crediting"
                      \/ order' = "cancelled" /\ past'.cut /\ \E q \in Requests : dest'[q] = "wallet"
  BY DEF Sight
<1>3. ~ (money.returned + money.online >= Paid)
  BY <1>1, <1>2 DEF Grows, TypeOK
<1>4. CASE Place \/ \E n \in {0, 2} : Restock(n)
  BY <1>2, <1>3, <1>4 DEF Sight, Place, Restock, TypeOK
<1>5. ASSUME NEW q \in Requests, \/ \E d \in Destinations : Cancel(q, d)
                                 \/ \E a \in Parts \cup {Paid} : Click(q, a)
      PROVE  \/ \E p \in Requests : pc'[p] = "crediting"
             \/ order' = "cancelled" /\ past'.cut /\ \E p \in Requests : dest'[p] = "wallet"
  <2>1. /\ Start(q, "vetted") \/ Start(q, "clicked")
        /\ order = "cancelled" => dest' = dest
    BY <1>5 DEF Cancel, Click
  <2>2. /\ pc[q] = "idle" /\ \A p \in Requests \ {q} : pc'[p] = pc[p]
        /\ past'.cut = past.cut /\ UNCHANGED <<order, money>>
    BY <2>1, OneStarts
  <2> QED
    BY <1>2, <1>3, <2>1, <2>2 DEF Sight
<1>6. ASSUME NEW q \in Requests, SaveCancelled(q) \/ OnlineStep(q) \/ PartStep(q) \/ GoodsStep(q)
                                   \/ AdminStep(q) \/ Cut(q)
      PROVE  \/ \E p \in Requests : pc'[p] = "crediting"
             \/ order' = "cancelled" /\ past'.cut /\ \E p \in Requests : dest'[p] = "wallet"
  <2>1. dest' = dest /\ \A p \in Requests \ {q} : pc'[p] = pc[p]
    BY <1>6, OneMoves
  <2>2. order = "cancelled" => order' = "cancelled"
    BY <1>6, OneMoves
  <2>3. CASE money.payment # "refunded"
    <3>1. MarkForWallet(q) \/ MarkRefunded(q) \/ AdminMark(q)
      BY <1>2, <1>6, <2>3 DEF SaveCancelled, OnlineStep, ReadPayment, CreditOnline, RecordOnline,
         ReportCredit, AskRazorpay, ReportRefund, Throw, ReportFailure, PartStep, ReadWalletRows,
         CreditPart, RecordPart, GoodsStep, ReadMarker, RestoreStock, ShowAgain, DropRedemption,
         ReleaseCoupon, ReversePoints, WriteMarker, AdminStep, AskForAdmin, AdminReport, Cut, BreaksOff,
         Returns, TypeOK
    <3>2. CASE MarkForWallet(q)
      BY <3>2 DEF MarkForWallet, GoTo, TypeOK
    <3>3. CASE MarkRefunded(q) \/ AdminMark(q)
      <4>1. money.returned = Paid
        BY <3>3 DEF MarkRefunded, AdminMark, GoTo, Knows, Marking
      <4> QED
        BY <1>3, <4>1 DEF TypeOK
    <3> QED
      BY <3>1, <3>2, <3>3
  <2>4. CASE order = "cancelled" /\ past.cut /\ \E p \in Requests : dest[p] = "wallet"
    BY <1>1, <2>1, <2>2, <2>4 DEF Grows
  <2>5. ASSUME NEW p \in Requests, pc[p] = "crediting"
        PROVE  \/ \E r \in Requests : pc'[r] = "crediting"
               \/ order' = "cancelled" /\ past'.cut /\ \E r \in Requests : dest'[r] = "wallet"
    <3>1. CASE p # q
      BY <2>1, <2>5, <3>1
    <3>2. CASE p = q
      <4>1. CreditOnline(q) \/ Cut(q)
        BY <1>6, <2>5, <3>2 DEF SaveCancelled, OnlineStep, ReadPayment, MarkForWallet, RecordOnline,
           ReportCredit, AskRazorpay, MarkRefunded, ReportRefund, Throw, ReportFailure, PartStep,
           ReadWalletRows, CreditPart, RecordPart, GoodsStep, ReadMarker, RestoreStock, ShowAgain,
           DropRedemption, ReleaseCoupon, ReversePoints, WriteMarker, AdminStep, AskForAdmin, AdminMark,
           AdminReport, GoTo
      <4>2. CASE CreditOnline(q)
        BY <1>2, <4>2 DEF CreditOnline, TypeOK
      <4>3. CASE Cut(q)
        <5>1. order = "cancelled"
          BY <2>5, <3>2, CancelledOrder DEF Cancelling, UntilPoints, UntilDrop, UntilStock, UntilPart
        <5>2. dest'[q] = "wallet"
          BY <2>1, <2>5, <3>2 DEF Knows
        <5>3. past'.cut
          BY <4>3, Broken DEF Cut
        <5> QED
          BY <2>2, <5>1, <5>2, <5>3
      <4> QED
        BY <4>1, <4>2, <4>3
    <3> QED
      BY <3>1, <3>2
  <2> QED
    BY <1>3, <2>3, <2>4, <2>5 DEF Sight
<1>7. CASE UNCHANGED vars
  BY <1>2, <1>3, <1>7 DEF vars, Sight
<1> QED
  BY <1>4, <1>5, <1>6, <1>7, NextCases

\* The dish restored is hidden only until the next statement.
LEMMA ShownStep ==
  ASSUME TypeOK, Shown, [Next]_vars
  PROVE  Shown'
<1>1. Grows
  BY Growth
<1>2. SUFFICES ASSUME ~ past'.cut, goods'.stock > 0, ~ goods'.shown
               PROVE  \E q \in Requests : pc'[q] = "showing"
  BY DEF Shown
<1>3. ~ past.cut
  BY <1>1, <1>2 DEF Grows
<1>4. CASE Place
  <2>1. goods'.stock = goods.stock - 1 /\ (goods.stock > 1 => goods'.shown)
    BY <1>4 DEF Place, Taken, TypeOK
  <2> QED
    BY <1>2, <2>1 DEF TypeOK
<1>5. ASSUME NEW n \in {0, 2}, Restock(n) PROVE FALSE
  <2>1. goods'.stock = n /\ goods'.shown = (goods.shown \/ n > 0)
    BY <1>5 DEF Restock, TypeOK
  <2> QED
    BY <1>2, <2>1
<1>6. ASSUME NEW q \in Requests, \/ \E d \in Destinations : Cancel(q, d)
                                 \/ \E a \in Parts \cup {Paid} : Click(q, a)
      PROVE  \E p \in Requests : pc'[p] = "showing"
  <2>1. Start(q, "vetted") \/ Start(q, "clicked")
    BY <1>6 DEF Cancel, Click
  <2> QED
    BY <1>2, <1>3, <2>1, OneStarts DEF Shown
<1>7. ASSUME NEW q \in Requests, SaveCancelled(q) \/ OnlineStep(q) \/ PartStep(q) \/ GoodsStep(q)
                                   \/ AdminStep(q) \/ Cut(q)
      PROVE  \E p \in Requests : pc'[p] = "showing"
  <2>1. CASE RestoreStock(q)
    BY <2>1 DEF RestoreStock, GoTo, TypeOK
  <2>2. CASE ShowAgain(q)
    <3>1. goods'.stock = goods.stock /\ goods'.shown = (goods.shown \/ goods.stock > 0)
      BY <2>2 DEF ShowAgain, TypeOK
    <3> QED
      BY <1>2, <3>1
  <2>3. CASE Cut(q) \/ Throw(q)
    BY <1>2, <2>3, Broken DEF Cut, Throw
  <2>4. CASE ~ (RestoreStock(q) \/ ShowAgain(q) \/ Cut(q) \/ Throw(q))
    <3>1. goods'.stock = goods.stock /\ goods'.shown = goods.shown
      BY <1>7, <2>4 DEF SaveCancelled, OnlineStep, ReadPayment, MarkForWallet, CreditOnline,
         RecordOnline, ReportCredit, AskRazorpay, MarkRefunded, ReportRefund, ReportFailure, PartStep,
         ReadWalletRows, CreditPart, RecordPart, GoodsStep, ReadMarker, DropRedemption, ReleaseCoupon,
         Uncount, ReversePoints, TakeBack, WriteMarker, AdminStep, AskForAdmin, AdminMark, AdminReport,
         TypeOK
    <3>2. PICK p \in Requests : pc[p] = "showing"
      BY <1>2, <1>3, <3>1 DEF Shown
    <3>3. pc[q] # "showing"
      BY <1>7, <2>4 DEF SaveCancelled, OnlineStep, ReadPayment, MarkForWallet, CreditOnline,
         RecordOnline, ReportCredit, AskRazorpay, MarkRefunded, ReportRefund, ReportFailure, PartStep,
         ReadWalletRows, CreditPart, RecordPart, GoodsStep, ReadMarker, DropRedemption, ReleaseCoupon,
         ReversePoints, WriteMarker, AdminStep, AskForAdmin, AdminMark, AdminReport, GoTo
    <3> QED
      BY <1>7, <3>2, <3>3, OneMoves
  <2> QED
    BY <2>1, <2>2, <2>3, <2>4
<1>8. CASE UNCHANGED vars
  BY <1>2, <1>3, <1>8 DEF vars, Shown
<1> QED
  BY <1>4, <1>5, <1>6, <1>7, <1>8, NextCases

----------------------------------------------------------------------------
(* Without a race: there is one request, and it finds what it expects.     *)

\* The others are at rest while a request without a rival takes a step.
LEMMA Rests ==
  ASSUME TypeOK, Alone, ~ past'.raced, NEW q \in Requests,
         \/ SaveCancelled(q) \/ OnlineStep(q) \/ PartStep(q) \/ GoodsStep(q) \/ AdminStep(q) \/ Cut(q)
         \/ \E to \in {"vetted", "clicked"} : Start(q, to)
  PROVE  ~ past.raced /\ \A p \in Requests \ {q} : pc[p] = "idle" /\ pc'[p] = "idle"
<1>1. CASE \E to \in {"vetted", "clicked"} : Start(q, to)
  <2>1. \A p \in Requests : pc[p] = "idle"
    BY <1>1, OneStarts
  <2> QED
    BY <1>1, <2>1, OneStarts
<1>2. CASE \/ SaveCancelled(q) \/ OnlineStep(q) \/ PartStep(q) \/ GoodsStep(q) \/ AdminStep(q)
           \/ Cut(q)
  BY <1>2, OneMoves DEF Alone
<1> QED
  BY <1>1, <1>2

\* Clean of an order whose one request is q.
CleanOf(q) ==
  /\ money.returned + money.online <= Paid
  /\ money.payment = "paid" /\ pc[q] \notin Marking => money.returned = 0 /\ money.online = 0
  /\ CleanRow(q)

\* A payment row that says paid has all its money at Razorpay.
LEMMA CleanStep ==
  ASSUME TypeOK, TypeOK', Alone, Before, Clean, [Next]_vars
  PROVE  Clean'
<1> USE AmountsAssumption
<1>1. SUFFICES ASSUME ~ past'.raced, ~ past'.unmarked PROVE Clean'
  BY DEF Clean
<1>2. ~ past.unmarked
  BY <1>1, Growth DEF Grows
<1>3. ASSUME NEW q \in Requests,
             \/ SaveCancelled(q) \/ OnlineStep(q) \/ PartStep(q) \/ GoodsStep(q) \/ AdminStep(q)
             \/ Cut(q) \/ \E to \in {"vetted", "clicked"} : Start(q, to)
      PROVE  CleanOf(q) /\ (CleanOf(q)' => Clean')
  <2>1. ~ past.raced /\ \A p \in Requests \ {q} : pc[p] = "idle" /\ pc'[p] = "idle"
    BY <1>1, <1>3, Rests
  <2>2. CleanOf(q)
    BY <1>2, <2>1 DEF Clean, CleanOf, CleanRow, Marking
  <2>3. CleanOf(q)' => Clean'
    BY <2>1 DEF Clean, CleanOf, CleanRow, Marking
  <2> QED
    BY <2>2, <2>3
<1>4. CASE Place
  <2>1. /\ money'.returned = 0 /\ money'.online = 0 /\ \A q \in Requests : pc'[q] = "idle"
    BY <1>4 DEF Place, Before, TypeOK
  <2> QED
    BY <2>1 DEF Clean, CleanRow, Marking
<1>5. ASSUME NEW n \in {0, 2}, Restock(n) PROVE Clean'
  BY <1>1, <1>5 DEF Restock, Clean, CleanRow, Marking
<1>6. ASSUME NEW q \in Requests, NEW d \in Destinations, Cancel(q, d) PROVE Clean'
  <2>1. Start(q, "vetted") /\ pc'[q] = "vetted" /\ pc[q] = "idle" /\ money' = money
    BY <1>6, OneStarts DEF Cancel
  <2> QED
    BY <1>3, <2>1 DEF CleanOf, CleanRow, Marking
<1>7. ASSUME NEW q \in Requests, NEW a \in Parts \cup {Paid}, Click(q, a) PROVE Clean'
  <2>1. Start(q, "clicked") /\ pc'[q] = "clicked" /\ pc[q] = "idle" /\ money' = money /\ Refundable
    BY <1>7, OneStarts DEF Click
  <2> QED
    BY <1>3, <2>1 DEF CleanOf, CleanRow, Marking, Refundable
<1>8. ASSUME NEW q \in Requests, SaveCancelled(q) \/ PartStep(q) \/ GoodsStep(q) PROVE Clean'
  <2>1. /\ money'.returned = money.returned /\ money'.online = money.online
        /\ money'.payment = money.payment
    BY <1>8 DEF SaveCancelled, PartStep, ReadWalletRows, CreditPart, RecordPart, GoodsStep, ReadMarker,
                RestoreStock, ShowAgain, DropRedemption, ReleaseCoupon, ReversePoints, WriteMarker, TypeOK
  <2>2. /\ pc[q] \notin Marking
        /\ pc'[q] \notin Marking \cup {"to_wallet", "asking", "clicked", "crediting"}
    BY <1>8 DEF SaveCancelled, PartStep, ReadWalletRows, CreditPart, RecordPart, GoodsStep, ReadMarker,
                RestoreStock, ShowAgain, DropRedemption, ReleaseCoupon, ReversePoints, WriteMarker,
                GoTo, TypeOK, Marking
  <2>3. CleanOf(q)'
    BY <1>3, <1>8, <2>1, <2>2 DEF CleanOf, CleanRow
  <2> QED
    BY <1>3, <1>8, <2>3
<1>9. ASSUME NEW q \in Requests, OnlineStep(q) PROVE Clean'
  <2>a. CleanOf(q) /\ (CleanOf(q)' => Clean')
    BY <1>3, <1>9
  <2>b. SUFFICES CleanOf(q)'
    BY <2>a
  <2>1. CASE ReadPayment(q)
    BY <2>a, <2>1 DEF ReadPayment, Refundable, GoTo, CleanOf, CleanRow, Marking, TypeOK
  <2>2. CASE MarkForWallet(q)
    BY <2>a, <2>2 DEF MarkForWallet, ClosePayment, GoTo, CleanOf, CleanRow, Marking, TypeOK
  <2>3. CASE CreditOnline(q)
    BY <2>a, <2>3 DEF CreditOnline, GoTo, CleanOf, CleanRow, Marking, TypeOK
  <2>4. CASE RecordOnline(q) \/ ReportCredit(q) \/ ReportRefund(q) \/ ReportFailure(q)
    BY <2>a, <2>4 DEF RecordOnline, ReportCredit, ReportRefund, ReportFailure, GoTo, CleanOf, CleanRow,
                Marking, TypeOK
  <2>5. CASE AskRazorpay(q)
    <3>1. CASE GoTo(q, "asking", "marking") /\ Returns(Paid)
      BY <2>a, <3>1 DEF GoTo, Returns, CleanOf, CleanRow, Marking, TypeOK
    <3>2. CASE Unmarked
      BY <1>1, <3>2 DEF Unmarked, TypeOK
    <3>3. CASE GoTo(q, "asking", "failing") /\ UNCHANGED <<money, past>>
      BY <2>a, <3>3 DEF GoTo, CleanOf, CleanRow, Marking, TypeOK
    <3> QED
      BY <2>5, <3>1, <3>2, <3>3 DEF AskRazorpay
  <2>6. CASE MarkRefunded(q)
    BY <2>a, <2>6 DEF MarkRefunded, ClosePayment, GoTo, CleanOf, CleanRow, Marking, TypeOK
  <2>7. CASE Throw(q)
    <3>1. pc[q] \notin Marking /\ money' = money
      BY <1>1, <2>7, Broken DEF Throw
    <3>2. pc'[q] = "failing"
      BY <2>7 DEF Throw, GoTo, TypeOK
    <3> QED
      BY <2>a, <3>1, <3>2 DEF CleanOf, CleanRow, Marking
  <2> QED
    BY <1>9, <2>1, <2>2, <2>3, <2>4, <2>5, <2>6, <2>7 DEF OnlineStep
<1>10. ASSUME NEW q \in Requests, AdminStep(q) PROVE Clean'
  <2>a. CleanOf(q) /\ (CleanOf(q)' => Clean')
    BY <1>3, <1>10
  <2>b. SUFFICES CleanOf(q)'
    BY <2>a
  <2>1. CASE AskForAdmin(q)
    <3>1. CASE GoTo(q, "clicked", "admin_marking") /\ Full(q) /\ Returns(sum[q])
      BY <2>a, <3>1 DEF GoTo, Full, Returns, CleanOf, CleanRow, Marking, TypeOK
    <3>2. CASE Unmarked
      BY <1>1, <3>2 DEF Unmarked, TypeOK
    <3>3. CASE GoTo(q, "clicked", "idle") /\ UNCHANGED <<money, past>>
      BY <2>a, <3>3 DEF GoTo, CleanOf, CleanRow, Marking, TypeOK
    <3> QED
      BY <2>1, <3>1, <3>2, <3>3 DEF AskForAdmin
  <2>2. CASE AdminMark(q)
    BY <2>a, <2>2 DEF AdminMark, ClosePayment, GoTo, CleanOf, CleanRow, Marking, TypeOK
  <2>3. CASE AdminReport(q)
    BY <2>a, <2>3 DEF AdminReport, GoTo, CleanOf, CleanRow, Marking, TypeOK
  <2> QED
    BY <1>10, <2>1, <2>2, <2>3 DEF AdminStep
<1>11. ASSUME NEW q \in Requests, Cut(q) PROVE Clean'
  <2>1. pc[q] \notin Marking /\ money' = money
    BY <1>1, <1>11, Broken DEF Cut
  <2>2. pc'[q] = "idle"
    BY <1>11 DEF Cut, GoTo, TypeOK
  <2>3. CleanOf(q)'
    BY <1>3, <1>11, <2>1, <2>2 DEF CleanOf, CleanRow, Marking
  <2> QED
    BY <1>3, <1>11, <2>3
<1>12. CASE UNCHANGED vars
  BY <1>1, <1>12 DEF vars, Clean, CleanRow, Marking
<1> QED
  BY <1>4, <1>5, <1>6, <1>7, <1>8, <1>9, <1>10, <1>11, <1>12, NextCases

\* Stages of an order whose one request is q.
Reversed(q) ==
  goods.reversed =>
    /\ pc[q] \notin Cancelling \cup {"vetted"}
    /\ "online" \in money.rows \/ money.wallet = WalletUsed
    /\ goods.restored = 1 /\ goods.uses = 0 /\ ~ goods.redeemed /\ goods.points = 0

StagesOf(q) ==
  /\ money.wallet <= WalletUsed /\ goods.restored <= 1
  /\ Stage(q) /\ Reversed(q)

\* Each reversal finds what the one before it left.
LEMMA StagesStep ==
  ASSUME TypeOK, TypeOK', Alone, Before, Stages, [Next]_vars
  PROVE  Stages'
<1> USE AmountsAssumption
<1>s. /\ UntilPart \subseteq UntilStock /\ UntilStock \subseteq UntilDrop
      /\ UntilDrop \subseteq UntilPoints /\ UntilPoints \subseteq Cancelling
      /\ \A p \in Requests : pc[p] \in Cancelling => order = "cancelled"
      /\ {"idle", "vetted", "clicked"} \cap Cancelling = {}
  BY CancelledOrder DEF Cancelling, UntilPoints, UntilDrop, UntilStock, UntilPart
<1>1. SUFFICES ASSUME ~ past'.raced PROVE Stages'
  BY DEF Stages
<1>2. \A p \in Requests : pc[p] = "idle" => Stage(p)
  BY <1>s DEF Stage, Cancelling, UntilPoints, UntilDrop, UntilStock, UntilPart
<1>3. ASSUME NEW q \in Requests,
             \/ SaveCancelled(q) \/ OnlineStep(q) \/ PartStep(q) \/ GoodsStep(q) \/ AdminStep(q)
             \/ Cut(q) \/ \E to \in {"vetted", "clicked"} : Start(q, to)
      PROVE  StagesOf(q) /\ (StagesOf(q)' => Stages')
  <2>1. ~ past.raced /\ \A p \in Requests \ {q} : pc[p] = "idle" /\ pc'[p] = "idle"
    BY <1>1, <1>3, Rests
  <2>2. StagesOf(q)
    BY <2>1 DEF Stages, StagesOf, Reversed
  <2>3. ASSUME StagesOf(q)' PROVE Stages'
    <3>1. \A p \in Requests \ {q} : Stage(p)'
      BY <2>1 DEF Stage, Cancelling, UntilPoints, UntilDrop, UntilStock, UntilPart
    <3>2. \A p \in Requests \ {q} : pc'[p] \notin Cancelling \cup {"vetted"}
      BY <1>s, <2>1
    <3> QED
      BY <2>3, <3>1, <3>2 DEF StagesOf, Reversed, Stages
  <2> QED
    BY <2>2, <2>3
\* A step after which q is no cancellation, and which gives nothing back.
<1>4. ASSUME NEW q \in Requests, StagesOf(q), StagesOf(q)' => Stages',
             pc'[q] \notin Cancelling \cup {"vetted"}, goods' = goods,
             money'.wallet = money.wallet, money'.rows = money.rows
      PROVE  Stages'
  <2>1. Stage(q)'
    BY <1>4 DEF Stage, Cancelling, UntilPoints, UntilDrop, UntilStock, UntilPart
  <2> QED
    BY <1>4, <2>1 DEF StagesOf, Reversed
<1>5. CASE Place
  <2>1. /\ money'.wallet = 0 /\ goods'.restored = 0 /\ ~ goods'.reversed
        /\ \A p \in Requests : pc'[p] = "idle"
    BY <1>5 DEF Place, Taken, Before, TypeOK
  <2> QED
    BY <2>1 DEF Stages, Stage, Cancelling, UntilPoints, UntilDrop, UntilStock, UntilPart
<1>6. ASSUME NEW n \in {0, 2}, Restock(n) PROVE Stages'
  <2>1. /\ goods'.uses = goods.uses /\ goods'.redeemed = goods.redeemed
        /\ goods'.points = goods.points
        /\ goods'.restored = goods.restored /\ goods'.reversed = goods.reversed
        /\ UNCHANGED <<order, money, pc, past>>
    BY <1>6 DEF Restock, TypeOK
  <2> QED
    BY <1>1, <2>1 DEF Stages, Stage
<1>7. ASSUME NEW q \in Requests, NEW d \in Destinations, Cancel(q, d) PROVE Stages'
  <2>1. /\ Start(q, "vetted") /\ pc'[q] = "vetted" /\ order = "live"
        /\ UNCHANGED <<order, money, goods>>
    BY <1>7, OneStarts DEF Cancel
  <2>2. money.wallet = 0 /\ goods.restored = 0 /\ ~ goods.reversed
    BY <2>1 DEF Before
  <2>3. StagesOf(q)'
    BY <1>s, <2>1, <2>2 DEF StagesOf, Reversed, Stage, Cancelling, UntilPoints, UntilDrop, UntilStock,
                       UntilPart
  <2> QED
    BY <1>3, <2>1, <2>3
<1>8. ASSUME NEW q \in Requests, NEW a \in Parts \cup {Paid}, Click(q, a) PROVE Stages'
  <2>1. Start(q, "clicked") /\ pc'[q] = "clicked" /\ UNCHANGED <<money, goods>>
    BY <1>8, OneStarts DEF Click
  <2> QED
    BY <1>s, <1>3, <1>4, <2>1
<1>9. ASSUME NEW q \in Requests, AdminStep(q) \/ Cut(q) PROVE Stages'
  <2>1. pc'[q] \in {"idle", "admin_marking", "admin_reporting"}
    BY <1>9 DEF AdminStep, AskForAdmin, AdminMark, AdminReport, Cut, GoTo, TypeOK
  <2>2. goods' = goods /\ money'.wallet = money.wallet /\ money'.rows = money.rows
    BY <1>9 DEF AdminStep, AskForAdmin, AdminMark, AdminReport, Cut, BreaksOff, ClosePayment, Returns,
                TypeOK
  <2>3. pc'[q] \notin Cancelling \cup {"vetted"}
    BY <2>1 DEF Cancelling, UntilPoints, UntilDrop, UntilStock, UntilPart
  <2> QED
    BY <1>3, <1>4, <1>9, <2>2, <2>3
<1>10. ASSUME NEW q \in Requests, SaveCancelled(q) PROVE Stages'
  <2>1. StagesOf(q) /\ pc[q] = "vetted" /\ pc'[q] = "refunding" /\ UNCHANGED <<money, goods>>
    BY <1>3, <1>10 DEF SaveCancelled, GoTo, TypeOK
  <2>2. order = "live"
    BY <2>1 DEF StagesOf, Stage
  <2>3. /\ money.wallet = 0 /\ money.rows = {} /\ goods.restored = 0 /\ ~ goods.reversed
        /\ goods.uses = 1 /\ goods.redeemed /\ goods.points = Points
    BY <2>2 DEF Before
  <2>4. StagesOf(q)'
    BY <2>1, <2>3 DEF StagesOf, Reversed, Stage, Cancelling, UntilPoints, UntilDrop, UntilStock,
                       UntilPart
  <2> QED
    BY <1>3, <1>10, <2>4
<1>11. ASSUME NEW q \in Requests, OnlineStep(q) PROVE Stages'
  <2>1. /\ pc[q] \in UntilPart \ {"crediting_part"} /\ pc'[q] \in UntilPart \ {"crediting_part"}
    BY <1>11 DEF OnlineStep, ReadPayment, MarkForWallet, CreditOnline, RecordOnline, ReportCredit,
                 AskRazorpay, MarkRefunded, ReportRefund, Throw, ReportFailure, GoTo, UntilPart, TypeOK
  <2>2. goods' = goods /\ money'.wallet = money.wallet /\ money'.rows \subseteq money.rows \cup {"online"}
    BY <1>11 DEF OnlineStep, ReadPayment, MarkForWallet, CreditOnline, RecordOnline, ReportCredit,
                 AskRazorpay, MarkRefunded, ReportRefund, Throw, ReportFailure, ClosePayment, Returns,
                 BreaksOff, TypeOK
  <2>3. StagesOf(q)
    BY <1>3, <1>11
  <2>4. pc[q] \in Cancelling /\ pc'[q] \in Cancelling /\ ~ goods.reversed
    BY <1>s, <2>1, <2>3 DEF StagesOf, Reversed
  <2>5. Stage(q)'
    BY <2>1, <2>2, <2>3 DEF StagesOf, Stage, Cancelling, UntilPoints, UntilDrop, UntilStock, UntilPart
  <2> QED
    BY <1>3, <1>11, <2>2, <2>3, <2>4, <2>5 DEF StagesOf, Reversed
<1>12. ASSUME NEW q \in Requests, PartStep(q) \/ GoodsStep(q) PROVE StagesOf(q)'
  <2> USE DEF GoTo, Stage, Cancelling, UntilPoints, UntilDrop, UntilStock, UntilPart, TypeOK
  <2>a. StagesOf(q)
    BY <1>3, <1>12
  <2>b. ~ goods.reversed
    BY <1>12, <2>a, CancelMoves DEF StagesOf, Reversed
  <2>1. CASE ReadWalletRows(q)
    BY <2>a, <2>b, <2>1 DEF ReadWalletRows, WalletPartReturned, StagesOf, Reversed
  <2>2. CASE CreditPart(q)
    BY <2>a, <2>b, <2>2 DEF CreditPart, StagesOf, Reversed
  <2>3. CASE RecordPart(q)
    BY <2>a, <2>b, <2>3 DEF RecordPart, StagesOf, Reversed
  <2>4. CASE ReadMarker(q)
    BY <2>a, <2>b, <2>4 DEF ReadMarker, StagesOf, Reversed
  <2>5. CASE RestoreStock(q)
    BY <2>a, <2>b, <2>5 DEF RestoreStock, StagesOf, Reversed
  <2>6. CASE ShowAgain(q)
    BY <2>a, <2>b, <2>6 DEF ShowAgain, StagesOf, Reversed
  <2>7. CASE DropRedemption(q)
    BY <2>a, <2>b, <2>7 DEF DropRedemption, StagesOf, Reversed
  <2>8. CASE ReleaseCoupon(q)
    BY <2>a, <2>b, <2>8 DEF ReleaseCoupon, Uncount, StagesOf, Reversed
  <2>9. CASE ReversePoints(q)
    BY <2>a, <2>b, <2>9 DEF ReversePoints, TakeBack, StagesOf, Reversed
  <2>10. CASE WriteMarker(q)
    BY <2>a, <2>b, <2>10 DEF WriteMarker, StagesOf, Reversed
  <2> QED
    BY <1>12, <2>1, <2>2, <2>3, <2>4, <2>5, <2>6, <2>7, <2>8, <2>9, <2>10 DEF PartStep, GoodsStep
<1>13. CASE UNCHANGED vars
  BY <1>1, <1>13 DEF vars, Stages, Stage
<1> QED
  BY <1>3, <1>5, <1>6, <1>7, <1>8, <1>9, <1>10, <1>11, <1>12, <1>13, NextCases

\* The online part is done with when nothing can be refunded, when Razorpay or
\* the wallet has it, or when the failure is flagged.
LEMMA OnlineBackStep ==
  ASSUME TypeOK, TypeOK', Alone, Before, \A q \in Requests : Knows(q), Sight, OnlineBack, [Next]_vars
  PROVE  OnlineBack'
<1> USE AmountsAssumption
<1> DEFINE Back == money.returned + money.online >= Paid \/ audit.failed
<1>1. SUFFICES ASSUME ~ past'.raced, ~ past'.cut,
                      goods'.reversed \/ \E q \in Requests : pc'[q] \in Settled
               PROVE  Back'
  BY DEF OnlineBack
<1>2. ~ past.raced /\ ~ past.cut /\ (Back => Back')
  BY <1>1, Growth DEF Grows, TypeOK
<1>3. goods.reversed \/ (\E q \in Requests : pc[q] \in Settled) => Back
  BY <1>2 DEF OnlineBack
<1>o. Settled \subseteq Cancelling /\ {"idle", "vetted", "clicked"} \cap Settled = {}
  BY DEF Settled, Cancelling, UntilPoints, UntilDrop, UntilStock, UntilPart
<1>4. CASE Place
  <2>1. /\ \A q \in Requests : pc'[q] = "idle"
        /\ ~ goods'.reversed
    BY <1>4 DEF Place, Taken, Before, TypeOK
  <2> QED
    BY <1>1, <1>o, <2>1
<1>5. ASSUME NEW n \in {0, 2}, Restock(n) PROVE Back'
  BY <1>1, <1>2, <1>3, <1>5 DEF Restock, TypeOK
<1>6. ASSUME NEW q \in Requests, \/ \E d \in Destinations : Cancel(q, d)
                                 \/ \E a \in Parts \cup {Paid} : Click(q, a)
      PROVE  Back'
  <2>1. \E to \in {"vetted", "clicked"} : Start(q, to)
    BY <1>6 DEF Cancel, Click
  <2>2. goods' = goods /\ pc'[q] \in {"vetted", "clicked"} /\ \A p \in Requests \ {q} : pc'[p] = pc[p]
    BY <2>1, OneStarts
  <2> QED
    BY <1>1, <1>2, <1>3, <1>o, <2>2
<1>7. ASSUME NEW q \in Requests, \/ SaveCancelled(q) \/ OnlineStep(q) \/ PartStep(q) \/ GoodsStep(q)
                                 \/ AdminStep(q) \/ Cut(q)
      PROVE  Back'
  <2>1. \A p \in Requests \ {q} : pc[p] = "idle" /\ pc'[p] = "idle"
    BY <1>1, <1>7, Rests
  <2>2. pc'[q] \in Settled \/ goods'.reversed
    BY <1>1, <1>o, <2>1
  <2>3. CASE pc[q] \in Settled \/ goods.reversed
    BY <1>2, <1>3, <2>3
  <2>4. CASE ReadPayment(q) /\ pc'[q] = "guarding"
    <3>1. pc[q] = "refunding" /\ order = "cancelled" /\ money.payment # "paid"
      BY <2>4, CancelledOrder DEF ReadPayment, Refundable, GoTo, TypeOK, Cancelling, UntilPoints,
                                 UntilDrop, UntilStock, UntilPart
    <3>2. CASE money.payment = "none"
      <4>1. Paid = 0
        BY <3>1, <3>2 DEF Before
      <4> QED
        BY <1>2, <4>1 DEF TypeOK
    <3>3. CASE money.payment = "refunded"
      <4>1. ~ \E p \in Requests : pc[p] = "crediting"
        BY <2>1, <3>1
      <4> QED
        BY <1>2, <3>3, <4>1 DEF Sight
    <3> QED
      BY <3>1, <3>2, <3>3 DEF TypeOK
  <2>5. CASE ReportCredit(q) \/ ReportRefund(q)
    <3>1. money.online >= Paid \/ money.returned = Paid
      BY <2>5 DEF ReportCredit, ReportRefund, GoTo, Knows
    <3> QED
      BY <1>2, <3>1 DEF TypeOK
  <2>6. CASE ReportFailure(q)
    BY <2>6 DEF ReportFailure, FlagFailure, TypeOK
  <2>7. \/ pc[q] \in Settled \/ goods.reversed
        \/ ReadPayment(q) /\ pc'[q] = "guarding"
        \/ ReportCredit(q) \/ ReportRefund(q) \/ ReportFailure(q)
    <3>1. CASE SaveCancelled(q) \/ AdminStep(q) \/ Cut(q)
      BY <2>2, <3>1 DEF SaveCancelled, AdminStep, AskForAdmin, AdminMark, AdminReport, Cut, BreaksOff,
         GoTo, TypeOK, Settled, Cancelling, UntilPoints, UntilDrop, UntilStock, UntilPart
    <3>2. CASE OnlineStep(q)
      BY <2>2, <3>2 DEF OnlineStep, ReadPayment, MarkForWallet, CreditOnline, RecordOnline, ReportCredit,
         AskRazorpay, MarkRefunded, ReportRefund, Throw, ReportFailure, BreaksOff, GoTo, TypeOK, Settled,
         Cancelling, UntilPoints, UntilDrop, UntilStock, UntilPart
    <3>3. CASE PartStep(q) \/ GoodsStep(q)
      BY <3>3 DEF PartStep, ReadWalletRows, CreditPart, RecordPart, GoodsStep, ReadMarker, RestoreStock,
         ShowAgain, DropRedemption, ReleaseCoupon, ReversePoints, WriteMarker, GoTo, Settled, Cancelling,
         UntilPoints, UntilDrop, UntilStock, UntilPart
    <3> QED
      BY <1>7, <3>1, <3>2, <3>3
  <2> QED
    BY <2>3, <2>4, <2>5, <2>6, <2>7
<1>8. CASE UNCHANGED vars
  BY <1>1, <1>2, <1>3, <1>8 DEF vars
<1> QED
  BY <1>4, <1>5, <1>6, <1>7, <1>8, NextCases

----------------------------------------------------------------------------
(* What is reported as refunded.                                           *)

\* What a request has still to report of the money that went back.
Due(q) ==
  IF pc[q] \in {"recording", "reporting_credit", "marking", "reporting"} THEN Paid
  ELSE IF pc[q] \in {"admin_marking", "admin_reporting"} THEN sum[q]
  ELSE 0

\* All of it, a pair for every unit of money: the sum over the requests is
\* the size of this set, also when the requests are not bounded.
Owed == {x \in Requests \X (1 .. Paid) : x[2] <= Due(x[1])}

\* What is reported and what is still to be reported has gone back.
AuditInv ==
  /\ IsFiniteSet(Owed)
  /\ audit.refunded + Cardinality(Owed) <= money.returned + money.online

LEMMA SumType ==
  ASSUME NEW a \in Parts \cup {Paid}
  PROVE  a \in 0 .. Paid
BY AmountsAssumption

LEMMA DueType ==
  ASSUME TypeOK, NEW q \in Requests
  PROVE  Due(q) \in 0 .. Paid
<1>1. sum[q] \in 0 .. Paid
  BY SumType DEF TypeOK
<1>2. Paid \in 0 .. Paid /\ 0 \in 0 .. Paid
  BY AmountsAssumption
<1> QED
  BY <1>1, <1>2 DEF Due

\* The debt of one request.
Slice(q, a) == {q} \X (1 .. a)

LEMMA SliceSize ==
  ASSUME NEW q, NEW a \in Nat
  PROVE  IsFiniteSet(Slice(q, a)) /\ Cardinality(Slice(q, a)) = a
<1> DEFINE Q == {q}
           U == 1 .. a
<1>1. IsFiniteSet(Q) /\ Cardinality(Q) = 1
  BY FS_Singleton
<1>2. IsFiniteSet(U) /\ Cardinality(U) = a
  BY FS_Interval
<1>3. Slice(q, a) = Q \X U
  BY DEF Slice
<1> HIDE DEF Q, U
<1>4. IsFiniteSet(Q \X U) /\ Cardinality(Q \X U) = Cardinality(Q) * Cardinality(U)
  BY <1>1, <1>2, FS_Product
<1> QED
  BY <1>1, <1>2, <1>3, <1>4

\* Two sets of debts, of which one has the debt of a request besides.
LEMMA OneDebt ==
  ASSUME NEW S, NEW T, NEW q, NEW a \in Nat, IsFiniteSet(S),
         T = S \cup Slice(q, a), S \cap Slice(q, a) = {}
  PROVE  /\ IsFiniteSet(T) /\ Cardinality(T) = Cardinality(S) + a
         /\ Cardinality(S) \in Nat /\ Cardinality(T) \in Nat
<1>1. IsFiniteSet(Slice(q, a)) /\ Cardinality(Slice(q, a)) = a
  BY SliceSize
<1>2. Cardinality(S \cap Slice(q, a)) = 0
  BY FS_EmptySet
<1>3. /\ IsFiniteSet(T)
      /\ Cardinality(T) = Cardinality(S) + a - Cardinality(S \cap Slice(q, a))
  BY <1>1, FS_Union
<1>4. Cardinality(S) \in Nat /\ Cardinality(T) \in Nat
  BY <1>3, FS_CardinalityType
<1> QED
  BY <1>2, <1>3, <1>4

LEMMA OwedGrows ==
  ASSUME AuditInv, NEW q \in Requests, NEW a \in 0 .. Paid, Due(q) = 0, Due(q)' = a,
         \A p \in Requests \ {q} : Due(p)' = Due(p)
  PROVE  /\ IsFiniteSet(Owed') /\ Cardinality(Owed') = Cardinality(Owed) + a
         /\ Cardinality(Owed) \in Nat
<1>1. Owed' = Owed \cup Slice(q, a)
  BY AmountsAssumption DEF Owed, Slice
<1>2. Owed \cap Slice(q, a) = {}
  BY AmountsAssumption DEF Owed, Slice
<1>3. a \in Nat /\ IsFiniteSet(Owed)
  BY AmountsAssumption DEF AuditInv
<1> QED
  BY ONLY <1>1, <1>2, <1>3, OneDebt

LEMMA OwedShrinks ==
  ASSUME AuditInv, NEW q \in Requests, NEW a \in 0 .. Paid, Due(q) = a, Due(q)' = 0,
         \A p \in Requests \ {q} : Due(p)' = Due(p)
  PROVE  /\ IsFiniteSet(Owed') /\ Cardinality(Owed') + a = Cardinality(Owed)
         /\ Cardinality(Owed') \in Nat
<1>1. Owed = Owed' \cup Slice(q, a)
  BY AmountsAssumption DEF Owed, Slice
<1>2. Owed' \cap Slice(q, a) = {}
  BY AmountsAssumption DEF Owed, Slice
<1>3. IsFiniteSet(Owed')
  BY <1>1, FS_Subset DEF AuditInv
<1>4. a \in Nat
  BY AmountsAssumption
<1> QED
  BY ONLY <1>1, <1>2, <1>3, <1>4, OneDebt

\* Money that goes back unseen, or that nobody is going to report.
LEMMA DuesKept ==
  ASSUME TypeOK, AuditInv, \A p \in Requests : Due(p)' = Due(p),
         audit'.refunded = audit.refunded,
         money'.returned + money'.online >= money.returned + money.online,
         TypeOK'
  PROVE  AuditInv'
<1>1. Owed' = Owed
  BY DEF Owed
<1>2. Cardinality(Owed) \in Nat
  BY FS_CardinalityType DEF AuditInv
<1> QED
  BY <1>1, <1>2 DEF AuditInv, TypeOK

\* A step of one request, by what it reports and what it has sent back.
LEMMA DueMoves ==
  ASSUME TypeOK, TypeOK', AuditInv, NEW q \in Requests,
         \A p \in Requests \ {q} : pc'[p] = pc[p], sum' = sum,
         NEW back \in Nat, NEW told \in Nat,
         money'.returned + money'.online = money.returned + money.online + back,
         audit'.refunded = audit.refunded + told,
         \/ Due(q)' = Due(q) /\ told = 0
         \/ Due(q) = 0 /\ Due(q)' = back /\ told = 0
         \/ Due(q)' = 0 /\ told <= Due(q)
  PROVE  AuditInv'
<1>1. \A p \in Requests \ {q} : Due(p)' = Due(p)
  BY DEF Due
<1>2. Due(q) \in 0 .. Paid /\ Due(q)' \in 0 .. Paid
  <2>1. Due(q) \in 0 .. Paid
    BY DueType
  <2>2. Due(q)' \in 0 .. Paid
    <3>1. sum[q] \in 0 .. Paid
      BY SumType DEF TypeOK
    <3>2. Paid \in 0 .. Paid /\ 0 \in 0 .. Paid
      BY AmountsAssumption
    <3> QED
      BY <3>1, <3>2 DEF Due
  <2> QED
    BY <2>1, <2>2
<1>3. audit.refunded \in Nat /\ money.returned + money.online \in Nat
  BY AmountsAssumption DEF TypeOK
<1>4. CASE Due(q)' = Due(q) /\ told = 0
  BY <1>1, <1>3, <1>4, DuesKept
<1>5. CASE Due(q) = 0 /\ Due(q)' = back /\ told = 0
  <2>1. /\ IsFiniteSet(Owed') /\ Cardinality(Owed') = Cardinality(Owed) + back
        /\ Cardinality(Owed) \in Nat
    BY <1>1, <1>2, <1>5, OwedGrows
  <2> QED
    BY <1>3, <1>5, <2>1 DEF AuditInv
<1>6. CASE Due(q)' = 0 /\ told <= Due(q)
  <2>1. /\ IsFiniteSet(Owed') /\ Cardinality(Owed') + Due(q) = Cardinality(Owed)
        /\ Cardinality(Owed') \in Nat
    BY <1>1, <1>2, <1>6, OwedShrinks
  <2> QED
    BY <1>2, <1>3, <1>6, <2>1 DEF AuditInv
<1> QED
  BY <1>4, <1>5, <1>6

LEMMA InitAudit == Init => AuditInv
<1> SUFFICES ASSUME Init PROVE AuditInv
  OBVIOUS
<1>1. Owed = {}
  BY DEF Init, Owed, Due
<1> QED
  BY <1>1, FS_EmptySet DEF Init, AuditInv

\* Every step reports no more than it, or an earlier one, sent back.
LEMMA AuditStep ==
  ASSUME TypeOK, TypeOK', AuditInv, [Next]_vars
  PROVE  AuditInv'
<1>1. CASE Place \/ (\E n \in {0, 2} : Restock(n)) \/ UNCHANGED vars
  <2>1. /\ UNCHANGED <<audit, pc, sum>>
        /\ money'.returned = money.returned /\ money'.online = money.online
    BY <1>1 DEF Place, Restock, vars, TypeOK
  <2> QED
    BY <2>1, AmountsAssumption, DuesKept DEF Due, TypeOK
<1>2. ASSUME NEW q \in Requests, \/ \E d \in Destinations : Cancel(q, d)
                                 \/ \E a \in Parts \cup {Paid} : Click(q, a)
      PROVE  AuditInv'
  <2>1. UNCHANGED <<audit, money>>
    BY <1>2 DEF Cancel, Click, Start
  <2>2. ASSUME NEW p \in Requests PROVE Due(p)' = Due(p)
    BY <1>2 DEF Cancel, Click, Start, Due, TypeOK
  <2> QED
    BY <2>1, <2>2, AmountsAssumption, DuesKept DEF TypeOK
<1>3. ASSUME NEW q \in Requests, SaveCancelled(q) \/ PartStep(q) \/ GoodsStep(q) PROVE AuditInv'
  <2>1. /\ UNCHANGED <<audit, sum>> /\ \A p \in Requests \ {q} : pc'[p] = pc[p]
        /\ money'.returned = money.returned /\ money'.online = money.online
    BY <1>3 DEF SaveCancelled, PartStep, ReadWalletRows, CreditPart, RecordPart, GoodsStep, ReadMarker,
       RestoreStock, ShowAgain, DropRedemption, ReleaseCoupon, ReversePoints, WriteMarker, GoTo, TypeOK
  <2>2. Due(q) = 0 /\ Due(q)' = 0
    BY <1>3 DEF SaveCancelled, PartStep, ReadWalletRows, CreditPart, RecordPart, GoodsStep, ReadMarker,
       RestoreStock, ShowAgain, DropRedemption, ReleaseCoupon, ReversePoints, WriteMarker, GoTo, TypeOK, Due
  <2> QED
    BY <2>1, <2>2, AmountsAssumption, DueMoves DEF TypeOK
<1>4. ASSUME NEW q \in Requests, OnlineStep(q) PROVE AuditInv'
  <2>0. /\ sum' = sum /\ \A p \in Requests \ {q} : pc'[p] = pc[p]
        /\ Paid \in Nat /\ audit.refunded \in Nat
        /\ money.returned \in Nat /\ money.online \in Nat
    <3>1. sum' = sum
      BY <1>4 DEF OnlineStep, ReadPayment, MarkForWallet, CreditOnline, RecordOnline, ReportCredit,
         AskRazorpay, MarkRefunded, ReportRefund, Throw, ReportFailure, GoTo
    <3> QED
      BY <1>4, <3>1, OneMoves, AmountsAssumption DEF TypeOK
  <2>1. CASE ReadPayment(q) \/ MarkForWallet(q) \/ RecordOnline(q) \/ MarkRefunded(q) \/ ReportFailure(q)
    <3>1. /\ audit'.refunded = audit.refunded
          /\ money'.returned = money.returned /\ money'.online = money.online
      BY <2>1 DEF ReadPayment, MarkForWallet, RecordOnline, MarkRefunded, ReportFailure, ClosePayment,
         FlagFailure, TypeOK
    <3>2. Due(q)' = Due(q)
      BY <2>1 DEF ReadPayment, MarkForWallet, RecordOnline, MarkRefunded, ReportFailure, GoTo, Due, TypeOK
    <3> QED
      BY <2>0, <3>1, <3>2, DueMoves
  <2>2. CASE CreditOnline(q)
    <3>1. /\ audit'.refunded = audit.refunded
          /\ money'.returned = money.returned /\ money'.online = money.online + Paid
          /\ Due(q) = 0 /\ Due(q)' = Paid
      BY <2>2 DEF CreditOnline, GoTo, Due, TypeOK
    <3> QED
      BY <2>0, <3>1, DueMoves
  <2>3. CASE ReportCredit(q) \/ ReportRefund(q)
    <3>1. /\ audit'.refunded = audit.refunded + Paid /\ money' = money
          /\ Due(q) = Paid /\ Due(q)' = 0
      BY <2>3 DEF ReportCredit, ReportRefund, Report, GoTo, Due, TypeOK
    <3> QED
      BY <2>0, <3>1, DueMoves
  <2>4. CASE AskRazorpay(q)
    <3>1. audit' = audit /\ Due(q) = 0 /\ Due(q)' \in {0, Paid}
      BY <2>4 DEF AskRazorpay, GoTo, Due, TypeOK
    <3>2. CASE Returns(Paid)
      <4>1. /\ money'.returned + money'.online = money.returned + money.online + Paid
            /\ audit'.refunded = audit.refunded + 0
        BY <2>0, <3>1, <3>2 DEF Returns, TypeOK
      <4>2. CASE Due(q)' = 0
        BY <2>0, <3>1, <4>1, <4>2, DueMoves
      <4>3. CASE Due(q)' = Paid
        BY <2>0, <3>1, <4>1, <4>3, DueMoves
      <4> QED
        BY <3>1, <4>2, <4>3
    <3>3. CASE money' = money /\ Due(q)' = 0
      BY <2>0, <3>1, <3>3, DueMoves
    <3> QED
      BY <2>4, <3>2, <3>3 DEF AskRazorpay, GoTo, Due, TypeOK
  <2>5. CASE Throw(q)
    <3>1. audit' = audit /\ money' = money /\ Due(q)' = 0 /\ Due(q) \in Nat
      BY <2>0, <2>5 DEF Throw, BreaksOff, GoTo, Due, TypeOK
    <3>2. /\ audit'.refunded = audit.refunded + 0 /\ 0 <= Due(q)
          /\ money'.returned + money'.online = money.returned + money.online + 0
      BY <2>0, <3>1
    <3>3. \A p \in Requests \ {q} : pc'[p] = pc[p]
      BY <2>0
    <3> QED
      BY <2>0, <3>1, <3>2, <3>3, DueMoves
  <2> QED
    BY <1>4, <2>1, <2>2, <2>3, <2>4, <2>5 DEF OnlineStep
<1>5. ASSUME NEW q \in Requests, AdminStep(q) PROVE AuditInv'
  <2>0. /\ sum' = sum /\ \A p \in Requests \ {q} : pc'[p] = pc[p]
        /\ sum[q] \in Nat /\ audit.refunded \in Nat
        /\ money.returned \in Nat /\ money.online \in Nat
    <3>1. sum' = sum
      BY <1>5 DEF AdminStep, AskForAdmin, AdminMark, AdminReport, GoTo
    <3>2. sum[q] \in 0 .. Paid
      BY SumType DEF TypeOK
    <3>3. sum[q] \in Nat
      BY <3>2, AmountsAssumption
    <3> QED
      BY <1>5, <3>1, <3>3, OneMoves DEF TypeOK
  <2>1. CASE AskForAdmin(q)
    <3>1. audit' = audit /\ Due(q) = 0 /\ Due(q)' \in {0, sum[q]}
      BY <2>1 DEF AskForAdmin, GoTo, Due, TypeOK
    <3>2. CASE Returns(sum[q])
      <4>1. /\ money'.returned + money'.online = money.returned + money.online + sum[q]
            /\ audit'.refunded = audit.refunded + 0
        BY <2>0, <3>1, <3>2 DEF Returns, TypeOK
      <4>2. CASE Due(q)' = 0
        BY <2>0, <3>1, <4>1, <4>2, DueMoves
      <4>3. CASE Due(q)' = sum[q]
        BY <2>0, <3>1, <4>1, <4>3, DueMoves
      <4> QED
        BY <3>1, <4>2, <4>3
    <3>3. CASE money' = money /\ Due(q)' = 0
      BY <2>0, <3>1, <3>3, DueMoves
    <3> QED
      BY <2>1, <3>2, <3>3 DEF AskForAdmin, GoTo, Due, TypeOK
  <2>2. CASE AdminMark(q)
    <3>1. /\ audit' = audit /\ Due(q)' = Due(q)
          /\ money'.returned = money.returned /\ money'.online = money.online
      BY <2>2 DEF AdminMark, ClosePayment, GoTo, Due, TypeOK
    <3> QED
      BY <2>0, <3>1, DueMoves
  <2>3. CASE AdminReport(q)
    <3>1. /\ audit'.refunded = audit.refunded + sum[q] /\ money' = money
          /\ Due(q) = sum[q] /\ Due(q)' = 0
      BY <2>3 DEF AdminReport, Report, GoTo, Due, TypeOK
    <3> QED
      BY <2>0, <3>1, DueMoves
  <2> QED
    BY <1>5, <2>1, <2>2, <2>3 DEF AdminStep
<1>6. ASSUME NEW q \in Requests, Cut(q) PROVE AuditInv'
  <2>1. /\ audit' = audit /\ money' = money /\ sum' = sum
        /\ \A p \in Requests \ {q} : pc'[p] = pc[p]
        /\ Due(q)' = 0
    BY <1>6 DEF Cut, BreaksOff, GoTo, Due, TypeOK
  <2>2. Due(q) \in Nat
    BY DueType, AmountsAssumption
  <2> QED
    BY <2>1, <2>2, AmountsAssumption, DueMoves DEF TypeOK
<1> QED
  BY <1>1, <1>2, <1>3, <1>4, <1>5, <1>6, NextCases

----------------------------------------------------------------------------
(* The theorems.                                                           *)

\* The inductive invariant of the order's refunds.
THEOREM Invariant == Spec => []Inv
<1>1. Init => Inv
  BY InitInv
<1>2. Inv /\ [Next]_vars => Inv'
  <2> SUFFICES ASSUME Inv, [Next]_vars PROVE Inv'
    OBVIOUS
  <2>1. TypeOK'
    BY TypeStep DEF Inv
  <2>2. Alone' /\ Before' /\ Shown'
    BY AloneStep, BeforeStep, ShownStep DEF Inv
  <2>3. (\A q \in Requests : Knows(q)') /\ Sight'
    BY <2>1, KnowsStep, SightStep DEF Inv
  <2>4. Clean' /\ Stages' /\ OnlineBack'
    BY <2>1, CleanStep, StagesStep, OnlineBackStep DEF Inv
  <2> QED
    BY <2>1, <2>2, <2>3, <2>4 DEF Inv
<1> QED
  BY <1>1, <1>2, PTL DEF Spec

\* Whatever requests race, break off or lose Razorpay's answer, the rows and
\* the amounts of an order keep their types: nothing goes below zero, and
\* Razorpay returns no more than it captured.
THEOREM TypeCorrect == Spec => []TypeOK
<1>1. Inv => TypeOK
  BY DEF Inv
<1> QED
  BY <1>1, Invariant, PTL

\* Requests one after the other return no more than came in, as long as no
\* money went back unmarked.
THEOREM MoneyReturnsOnce == Spec => []ReturnsOnce
<1>1. Inv => ReturnsOnce
  BY DEF Inv, Clean, Stages, ReturnsOnce
<1> QED
  BY <1>1, Invariant, PTL

\* A cancellation that ran to its marker has given back what checkout took.
THEOREM CancellationGivesBack == Spec => []CancelGivesBack
<1>1. ASSUME Inv, goods.reversed, ~ past.raced, ~ past.cut
      PROVE  /\ money.returned + money.online >= Paid \/ audit.failed
             /\ "online" \notin money.rows => money.wallet = WalletUsed
             /\ goods.restored = 1 /\ (goods.stock > 0 => goods.shown)
             /\ goods.uses = 0 /\ ~ goods.redeemed
             /\ goods.points = 0
  <2>1. money.returned + money.online >= Paid \/ audit.failed
    BY <1>1 DEF Inv, OnlineBack
  <2>2. /\ "online" \in money.rows \/ money.wallet = WalletUsed
        /\ goods.restored = 1 /\ goods.uses = 0 /\ ~ goods.redeemed /\ goods.points = 0
        /\ \A q \in Requests : pc[q] \notin Cancelling
    BY <1>1 DEF Inv, Stages
  <2>3. \A q \in Requests : pc[q] # "showing"
    BY <2>2 DEF Cancelling, UntilPoints, UntilDrop
  <2>4. goods.stock > 0 => goods.shown
    BY <1>1, <2>3 DEF Inv, Shown
  <2> QED
    BY <2>1, <2>2, <2>4
<1>2. Inv => CancelGivesBack
  BY <1>1 DEF CancelGivesBack
<1> QED
  BY <1>2, Invariant, PTL

\* A payment that is no longer listed as refundable has gone back, unless a
\* cancellation to the wallet broke off.
THEOREM PaymentStaysInSight == Spec => []NeverOutOfSight
<1>1. Inv => NeverOutOfSight
  BY DEF Inv, TypeOK, Sight, NeverOutOfSight, Refundable
<1> QED
  BY <1>1, Invariant, PTL

\* Admin - Refunds reports as refunded only what has gone back: of every
\* request the audit row comes after the money, and no interleaving, lost
\* answer or break turns one into two.
THEOREM ReportsAreTrue == Spec => []ReportIsTrue
<1>1. Init => Inv /\ AuditInv
  BY InitInv, InitAudit
<1>2. Inv /\ Inv' /\ AuditInv /\ [Next]_vars => AuditInv'
  BY AuditStep DEF Inv
<1>3. TypeOK /\ AuditInv => ReportIsTrue
  <2> SUFFICES ASSUME TypeOK, AuditInv PROVE ReportIsTrue
    OBVIOUS
  <2>1. Cardinality(Owed) \in Nat
    BY FS_CardinalityType DEF AuditInv
  <2> QED
    BY <2>1, AmountsAssumption DEF AuditInv, TypeOK, ReportIsTrue
<1>4. Inv => TypeOK
  BY DEF Inv
<1> QED
  BY <1>1, <1>2, <1>3, <1>4, Invariant, PTL DEF Spec

(* Rewards: the invariant.                                                 *)

Undoings == {"none", "redemption", "count", "rewards", "debit", "reopen", "done"}
TxType   == [step : {"idle", "wallet", "coupon", "referral", "credit", "commit"}, wallet : BOOLEAN,
             coupon : BOOLEAN, gift : BOOLEAN, reward : BOOLEAN, milestone : BOOLEAN]

BookTypes ==
  /\ status \in [Orders -> {"none", "placed", "cancelled", "refused"}]
  /\ tx \in [Orders -> TxType]
  /\ friend \in [Users -> [by : Users \cup {"nobody"}, converted : BOOLEAN]]
  /\ redeemed \in SUBSET Orders /\ IsFiniteSet(redeemed)
  /\ coupon \in [used : Nat, user : Nat, all : Nat]
  /\ gift \in [Users -> {"none", "unused", "used"}] /\ gifted \in [Users -> Nat]
  /\ undo \in [Orders -> Undoings]
  /\ ledger \in [R!Kinds \X Orders -> Nat]

\* What is written down of an order, by its status and its cancellation.
Written(o) ==
  /\ R!InFlight(o) => status[o] = "none"
  /\ status[o] \in {"none", "refused"} => \A k \in R!Kinds : ledger[<<k, o>>] = 0
  /\ undo[o] # "none" => status[o] = "cancelled"
  /\ undo[o] \notin {"reopen", "done"} => ledger[<<"reversal", o>>] = 0
  /\ undo[o] = "debit" => ledger[<<"reward", o>>] > 0
  /\ undo[o] = "reopen" => ledger[<<"reversal", o>>] > 0
  /\ \A k \in R!Kinds : ledger[<<k, o>>] <= 1

Holds(o, r) == r \in DOMAIN held /\ held[r] = o

\* A checkout on its way to a reward has the referral to itself, open as it is,
\* and one on its way to the milestone the wallet of the friend, without it.
Earns(o) ==
  /\ tx[o].step # "commit" => ~ tx[o].reward /\ ~ tx[o].milestone
  /\ tx[o].step = "credit" \/ tx[o].reward =>
       Holds(o, R!ReferralRow(Owner[o])) /\ R!Pending(Owner[o])
  /\ tx[o].milestone =>
       /\ tx[o].reward
       /\ Holds(o, R!UserRow(friend[Owner[o]].by)) /\ R!Entries("milestone", friend[Owner[o]].by) = {}

\* The reward of an order is out, or its referral is not open again yet.
Rewarded(o) == ledger[<<"reward", o>>] > ledger[<<"reversal", o>>] \/ undo[o] = "reopen"

OneReward ==
  /\ \A o \in Orders : Rewarded(o) => friend[Owner[o]].converted
  /\ \A o, p \in Orders : Rewarded(o) /\ Rewarded(p) /\ Owner[o] = Owner[p] => o = p

OneMilestone ==
  \A o, p \in Orders :
    /\ ledger[<<"milestone", o>>] > 0 /\ ledger[<<"milestone", p>>] > 0
    /\ friend[Owner[o]].by = friend[Owner[p]].by
    => o = p

Unused(u) == IF gift[u] = "unused" THEN 1 ELSE 0

\* A gift not used yet is one use to come, and so is a checkout within the limit.
CouponInv ==
  \A u \in Users :
    /\ gift[u] = "unused" => gifted[u] > 0
    /\ u \notin raced /\ coupon.user > 0 =>
         /\ UsedBy(u) + Unused(u) <= coupon.user + gifted[u]
         /\ \A o, p \in Orders : R!InFlight(o) /\ R!InFlight(p) /\ Owner[o] = u /\ Owner[p] = u => o = p
         /\ \A o \in Orders : R!InFlight(o) /\ Owner[o] = u /\ tx[o].coupon =>
              IF tx[o].gift THEN gift[u] = "unused" ELSE UsedBy(u) < coupon.user

Books == BookTypes /\ \A o \in Orders : Written(o) /\ Earns(o)

----------------------------------------------------------------------------
(* What the steps do.                                                      *)

LEMMA SameUses == ASSUME NEW u PROVE R!UsedBy(u) = UsedBy(u)
<1>1. \A S : R!Cardinality(S) = Cardinality(S)
  BY DEF R!Cardinality, Cardinality
<1> QED
  BY <1>1 DEF R!UsedBy, UsedBy

LEMMA OwnerIs == ASSUME NEW o \in Orders PROVE Owner[o] \in Users
BY RewardsAssumption

\* A row is locked, and the others stay locked.
LEMMA LockGrows ==
  ASSUME NEW o, NEW r, R!Mine(o, r), held' = R!Locked(o, r)
  PROVE  Holds(o, r)' /\ \A p, s : Holds(p, s) => Holds(p, s)'
BY DEF R!Mine, R!Locked, Holds

\* The rows of one order are released.
LEMMA LocksShrink ==
  ASSUME NEW o, held' = R!Released(o)
  PROVE  \A p, s : Holds(p, s) /\ p # o => Holds(p, s)'
BY DEF R!Released, Holds

\* A checkout goes on to its next statement.
LEMMA StepsOn ==
  ASSUME BookTypes, NEW o \in Orders, NEW s \in {"coupon", "referral", "credit", "commit"},
         R!Step(o, s)
  PROVE  /\ tx' \in [Orders -> TxType] /\ tx'[o].step = s
         /\ tx'[o].coupon = tx[o].coupon /\ tx'[o].gift = tx[o].gift
         /\ tx'[o].reward = tx[o].reward /\ tx'[o].milestone = tx[o].milestone
         /\ \A p \in Orders \ {o} : tx'[p] = tx[p]
<1>1. tx \in [Orders -> TxType]
  BY DEF BookTypes
<1>2. tx' = [tx EXCEPT ![o].step = s]
  BY DEF R!Step
<1>3. tx[o] \in TxType
  BY <1>1
<1>4. [tx[o] EXCEPT !.step = s] \in TxType
  BY <1>3 DEF TxType
<1> QED
  BY <1>1, <1>2, <1>3, <1>4 DEF TxType

\* The statements of a checkout up to its reward write nothing.
Quiet == UNCHANGED <<status, friend, redeemed, coupon, gift, ledger, undo, gifted, onGift>>

LEMMA EarlySteps ==
  ASSUME BookTypes, NEW o \in Orders, R!Wallet(o) \/ R!Coupon(o) \/ R!Referral(o)
  PROVE  /\ Quiet /\ UNCHANGED <<raced, crowded>> /\ tx' \in [Orders -> TxType] /\ tx'[o].step # "idle"
         /\ tx[o].step \in {"wallet", "coupon", "referral"}
         /\ tx'[o].coupon = tx[o].coupon /\ tx'[o].gift = tx[o].gift
         /\ tx'[o].reward = tx[o].reward /\ tx'[o].milestone = tx[o].milestone
         /\ \A p \in Orders \ {o} : tx'[p] = tx[p]
         /\ \A p, r : Holds(p, r) => Holds(p, r)'
         /\ tx'[o].step = "credit" => Holds(o, R!ReferralRow(Owner[o]))' /\ R!Pending(Owner[o])
<1>1. Quiet /\ UNCHANGED <<raced, crowded>>
  BY DEF R!Wallet, R!Coupon, R!Referral, R!db, R!history, Quiet
<1>2. CASE R!Wallet(o)
  <2>1. R!Step(o, "coupon") /\ tx[o].step = "wallet"
    BY <1>2 DEF R!Wallet, R!At
  <2>2. \A p, r : Holds(p, r) => Holds(p, r)'
    BY <1>2, LockGrows DEF R!Wallet
  <2> QED
    BY <1>1, <2>1, <2>2, StepsOn
<1>3. CASE R!Coupon(o)
  <2>1. R!Step(o, "referral") /\ tx[o].step = "coupon"
    BY <1>3 DEF R!Coupon, R!At
  <2>2. \A p, r : Holds(p, r) => Holds(p, r)'
    <3>1. CASE held' = held
      BY <3>1 DEF Holds
    <3>2. CASE R!Mine(o, R!CouponRow) /\ held' = R!Locked(o, R!CouponRow)
      BY <3>2, LockGrows
    <3> QED
      BY <1>3, <3>1, <3>2 DEF R!Coupon
  <2> QED
    BY <1>1, <2>1, <2>2, StepsOn
<1>4. CASE R!Referral(o)
  <2>1. tx[o].step = "referral"
    BY <1>4 DEF R!Referral, R!At
  <2>2. CASE R!Pending(Owner[o])
    <3>1. /\ R!Mine(o, R!ReferralRow(Owner[o])) /\ held' = R!Locked(o, R!ReferralRow(Owner[o]))
          /\ R!Step(o, "credit") \/ R!Step(o, "commit")
      BY <1>4, <2>2 DEF R!Referral
    <3>2. Holds(o, R!ReferralRow(Owner[o]))' /\ \A p, r : Holds(p, r) => Holds(p, r)'
      BY <3>1, LockGrows
    <3> QED
      BY <1>1, <2>1, <2>2, <3>1, <3>2, StepsOn
  <2>3. CASE ~ R!Pending(Owner[o])
    <3>1. held' = held /\ R!Step(o, "commit")
      BY <1>4, <2>3 DEF R!Referral
    <3>2. \A p, r : Holds(p, r) => Holds(p, r)'
      BY <3>1 DEF Holds
    <3> QED
      BY <1>1, <2>1, <3>1, <3>2, StepsOn
  <2> QED
    BY <2>2, <2>3
<1> QED
  BY <1>2, <1>3, <1>4

LEMMA CreditStep ==
  ASSUME BookTypes, NEW o \in Orders, R!Credit(o)
  PROVE  /\ Quiet /\ UNCHANGED <<raced, crowded>> /\ tx' \in [Orders -> TxType] /\ tx'[o].step = "commit" /\ tx[o].step = "credit"
         /\ tx'[o].coupon = tx[o].coupon /\ tx'[o].gift = tx[o].gift /\ tx'[o].reward
         /\ \A p \in Orders \ {o} : tx'[p] = tx[p]
         /\ \A p, r : Holds(p, r) => Holds(p, r)'
         /\ Holds(o, R!UserRow(friend[Owner[o]].by))'
         /\ tx'[o].milestone => R!Entries("milestone", friend[Owner[o]].by) = {}
<1> DEFINE by == friend[Owner[o]].by
<1>1. Quiet /\ UNCHANGED <<raced, crowded>> /\ tx[o].step = "credit"
  BY DEF R!Credit, R!db, R!history, R!At, Quiet
<1>2. R!Mine(o, R!UserRow(by)) /\ held' = R!Locked(o, R!UserRow(by))
  BY DEF R!Credit
<1>3. PICK c : tx' = [tx EXCEPT ![o].reward = TRUE, ![o].step = "commit",
                               ![o].milestone = R!EarnsMilestone(by, c)]
  BY Zenon DEF R!Credit
<1> DEFINE m == R!EarnsMilestone(by, c)
<1>12. tx' = [tx EXCEPT ![o].reward = TRUE, ![o].step = "commit", ![o].milestone = m]
  BY <1>3
<1>4. m \in BOOLEAN /\ (m => R!Entries("milestone", by) = {})
  BY DEF R!EarnsMilestone
<1>5. Holds(o, R!UserRow(friend[Owner[o]].by))' /\ \A p, r : Holds(p, r) => Holds(p, r)'
  <2>1. friend' = friend
    BY <1>1 DEF Quiet
  <2>2. PICK r : r = R!UserRow(by)
    OBVIOUS
  <2>3. Holds(o, r)' /\ \A p, s : Holds(p, s) => Holds(p, s)'
    BY <1>2, <2>2, LockGrows
  <2> QED
    BY <2>1, <2>2, <2>3 DEF R!UserRow
<1> HIDE DEF m, by
<1>6. tx \in [Orders -> TxType] /\ tx[o] \in TxType
  BY DEF BookTypes
<1>7. [tx[o] EXCEPT !.reward = TRUE, !.step = "commit", !.milestone = m] \in TxType
  BY <1>4, <1>6 DEF TxType
<1>8. tx'[o] = [tx[o] EXCEPT !.reward = TRUE, !.step = "commit", !.milestone = m]
  BY <1>12, <1>6
<1>9. \A p \in Orders \ {o} : tx'[p] = tx[p]
  BY <1>12, <1>6
<1>10. tx' \in [Orders -> TxType]
  <2>1. tx' = [p \in Orders |-> tx'[p]]
    BY <1>12, <1>6
  <2> QED
    BY <1>6, <1>7, <1>8, <1>9, <2>1
<1>11. /\ tx'[o].step = "commit" /\ tx'[o].reward /\ tx'[o].milestone = m
       /\ tx'[o].coupon = tx[o].coupon /\ tx'[o].gift = tx[o].gift
  BY <1>6, <1>8 DEF TxType
<1> QED
  BY <1>1, <1>4, <1>5, <1>9, <1>10, <1>11 DEF by

\* A checkout ends.
LEMMA Ending ==
  ASSUME BookTypes, NEW o \in Orders, R!Ends(o)
  PROVE  /\ tx' \in [Orders -> TxType] /\ tx'[o] = R!Idle
         /\ \A p \in Orders \ {o} : tx'[p] = tx[p]
         /\ \A p, r : Holds(p, r) /\ p # o => Holds(p, r)'
<1>1. tx \in [Orders -> TxType] /\ R!Idle \in TxType
  BY DEF BookTypes, TxType, R!Idle
<1>2. tx' = [tx EXCEPT ![o] = R!Idle] /\ held' = R!Released(o)
  BY DEF R!Ends
<1>3. tx' \in [Orders -> TxType] /\ tx'[o] = R!Idle /\ \A p \in Orders \ {o} : tx'[p] = tx[p]
  BY <1>1, <1>2
<1> QED
  BY <1>2, <1>3, LocksShrink

LEMMA CommitStep ==
  ASSUME BookTypes, NEW o \in Orders, R!Commit(o)
  PROVE  /\ tx[o].step = "commit" /\ status' = [status EXCEPT ![o] = "placed"]
         /\ UNCHANGED <<undo, gifted, raced, crowded>> /\ R!Ends(o)
         /\ redeemed' = IF tx[o].coupon THEN redeemed \cup {o} ELSE redeemed
         /\ gift' = IF tx[o].gift THEN [gift EXCEPT ![Owner[o]] = "used"] ELSE gift
         /\ onGift' = IF tx[o].gift THEN onGift \cup {o} ELSE onGift
         /\ coupon' \in [used : Nat, user : Nat, all : Nat]
         /\ coupon'.user = coupon.user /\ coupon'.all = coupon.all
         /\ coupon'.used = IF tx[o].coupon THEN coupon.used + 1 ELSE coupon.used
         /\ friend' \in [Users -> [by : Users \cup {"nobody"}, converted : BOOLEAN]]
         /\ \A u \in Users : friend'[u].by = friend[u].by /\ (friend[u].converted => friend'[u].converted)
         /\ \A u \in Users \ {Owner[o]} : friend'[u] = friend[u]
         /\ tx[o].reward => friend'[Owner[o]].converted
         /\ ~ tx[o].reward => friend' = friend
         /\ ledger' \in [R!Kinds \X Orders -> Nat]
         /\ \A k \in R!Kinds, p \in Orders \ {o} : ledger'[<<k, p>>] = ledger[<<k, p>>]
         /\ \A k \in R!Kinds : ledger'[<<k, o>>] =
              IF (k = "reward" /\ tx[o].reward) \/ (k = "milestone" /\ tx[o].milestone)
              THEN ledger[<<k, o>>] + 1 ELSE ledger[<<k, o>>]
<1>1. /\ tx[o].step = "commit" /\ status' = [status EXCEPT ![o] = "placed"]
      /\ UNCHANGED <<undo, gifted, raced, crowded>> /\ R!Ends(o)
      /\ redeemed' = IF tx[o].coupon THEN redeemed \cup {o} ELSE redeemed
      /\ gift' = IF tx[o].gift THEN [gift EXCEPT ![Owner[o]] = "used"] ELSE gift
      /\ onGift' = IF tx[o].gift THEN onGift \cup {o} ELSE onGift
      /\ coupon' = IF tx[o].coupon THEN [coupon EXCEPT !.used = @ + 1] ELSE coupon
  BY Zenon DEF R!Commit, R!At
<1>2. /\ friend' = IF tx[o].reward THEN [friend EXCEPT ![Owner[o]].converted = TRUE] ELSE friend
      /\ ledger' = [e \in DOMAIN ledger |->
                  IF (e = <<"reward", o>> /\ tx[o].reward) \/ (e = <<"milestone", o>> /\ tx[o].milestone)
                  THEN ledger[e] + 1 ELSE ledger[e]]
  BY Zenon DEF R!Commit
<1>3. /\ friend \in [Users -> [by : Users \cup {"nobody"}, converted : BOOLEAN]]
      /\ ledger \in [R!Kinds \X Orders -> Nat] /\ Owner[o] \in Users
  BY OwnerIs DEF BookTypes
<1>4. /\ friend' \in [Users -> [by : Users \cup {"nobody"}, converted : BOOLEAN]]
      /\ \A u \in Users : friend'[u].by = friend[u].by /\ (friend[u].converted => friend'[u].converted)
      /\ \A u \in Users \ {Owner[o]} : friend'[u] = friend[u]
      /\ tx[o].reward => friend'[Owner[o]].converted
      /\ ~ tx[o].reward => friend' = friend
  BY <1>2, <1>3
<1>5. ledger' \in [R!Kinds \X Orders -> Nat]
  BY <1>2, <1>3
<1>6. \A k \in R!Kinds, p \in Orders : ledger'[<<k, p>>] =
         IF p = o /\ ((k = "reward" /\ tx[o].reward) \/ (k = "milestone" /\ tx[o].milestone))
         THEN ledger[<<k, p>>] + 1 ELSE ledger[<<k, p>>]
  BY <1>2, <1>3
<1>7. /\ coupon' \in [used : Nat, user : Nat, all : Nat]
      /\ coupon'.user = coupon.user /\ coupon'.all = coupon.all
      /\ coupon'.used = IF tx[o].coupon THEN coupon.used + 1 ELSE coupon.used
  BY <1>1 DEF BookTypes
<1> QED
  BY <1>1, <1>4, <1>5, <1>6, <1>7

\* A checkout begins.
LEMMA BeginStep ==
  ASSUME BookTypes, NEW o \in Orders, R!Begin(o)
  PROVE  /\ UNCHANGED <<status, friend, redeemed, coupon, gift, ledger, held, undo, gifted, onGift>>
         /\ status[o] = "none" /\ tx[o] = R!Idle
         /\ tx' \in [Orders -> TxType] /\ \A p \in Orders \ {o} : tx'[p] = tx[p]
         /\ tx'[o].step \in {"wallet", "coupon"} /\ ~ tx'[o].reward /\ ~ tx'[o].milestone
         /\ tx'[o].coupon => R!MayUse(Owner[o])
         /\ tx'[o].gift = (tx'[o].coupon /\ gift[Owner[o]] = "unused")
         /\ crowded' = (crowded \/ (/\ tx'[o].coupon /\ ~ tx'[o].gift
                                    /\ \E p \in Orders : R!Plain(p)))
         /\ raced' = raced \cup {Owner[p] : p \in {q \in Orders : R!InFlight(q) /\ Owner[q] = Owner[o]}}
<1>1. /\ UNCHANGED <<status, friend, redeemed, coupon, gift, ledger, held, undo, gifted, onGift>>
      /\ status[o] = "none" /\ tx[o] = R!Idle
      /\ raced' = raced \cup {Owner[p] : p \in {q \in Orders : R!InFlight(q) /\ Owner[q] = Owner[o]}}
  BY Zenon DEF R!Begin, R!db, R!InFlight
<1>2. PICK plan \in Plans :
        /\ plan.coupon => R!MayUse(Owner[o])
        /\ tx' = [tx EXCEPT ![o] = [R!Idle EXCEPT !.step = IF plan.wallet THEN "wallet" ELSE "coupon",
                                      !.wallet = plan.wallet, !.coupon = plan.coupon,
                                      !.gift = plan.coupon /\ gift[Owner[o]] = "unused"]]
        /\ crowded' = (crowded \/ (/\ plan.coupon /\ gift[Owner[o]] # "unused"
                                   /\ \E p \in Orders : R!Plain(p)))
  BY Zenon DEF R!Begin
<1> DEFINE g == plan.coupon /\ gift[Owner[o]] = "unused"
           s == IF plan.wallet THEN "wallet" ELSE "coupon"
           new == [R!Idle EXCEPT !.step = s, !.wallet = plan.wallet, !.coupon = plan.coupon, !.gift = g]
<1>3. plan \in [wallet : BOOLEAN, coupon : BOOLEAN] /\ g \in BOOLEAN /\ s \in {"wallet", "coupon"}
  BY RewardsAssumption
<1>4. tx' = [tx EXCEPT ![o] = new]
  BY <1>2
<1>5. g = (plan.coupon /\ gift[Owner[o]] = "unused")
  OBVIOUS
<1> HIDE DEF g, s
<1>6. /\ new \in TxType /\ new.step = s /\ new.coupon = plan.coupon /\ new.gift = g
      /\ ~ new.reward /\ ~ new.milestone
  BY <1>3 DEF R!Idle, TxType
<1> HIDE DEF new
<1>7. tx \in [Orders -> TxType]
  BY DEF BookTypes
<1>8. tx' \in [Orders -> TxType] /\ tx'[o] = new /\ \A p \in Orders \ {o} : tx'[p] = tx[p]
  BY <1>4, <1>6, <1>7
<1>9. crowded' = (crowded \/ (/\ tx'[o].coupon /\ ~ tx'[o].gift
                              /\ \E p \in Orders : R!Plain(p)))
  BY <1>2, <1>5, <1>6, <1>8
<1> QED
  BY <1>1, <1>2, <1>3, <1>5, <1>6, <1>8, <1>9

----------------------------------------------------------------------------
(* Rewards are paid once.                                                  *)

RewardInv == Books /\ OneReward /\ OneMilestone

\* Orders with a milestone entry, when the entries and their friends stay.
LEMMA EntriesSame ==
  ASSUME \A p \in Orders : /\ ledger'[<<"milestone", p>>] = ledger[<<"milestone", p>>]
                           /\ ledger[<<"milestone", p>>] > 0 =>
                                friend'[Owner[p]].by = friend[Owner[p]].by
  PROVE  \A x : R!Entries("milestone", x)' = R!Entries("milestone", x)
BY DEF R!Entries

\* A checkout that others leave alone.
LEMMA EarnsOn ==
  ASSUME NEW p \in Orders, Earns(p), tx'[p] = tx[p], friend'[Owner[p]] = friend[Owner[p]],
         \A r : Holds(p, r) => Holds(p, r)',
         \A x : tx[p].milestone /\ x = friend[Owner[p]].by => R!Entries("milestone", x)' = {}
  PROVE  Earns(p)'
<1>1. (tx'[p].step # "commit" => ~ tx'[p].reward /\ ~ tx'[p].milestone)
      /\ (tx'[p].milestone => tx'[p].reward)
  BY DEF Earns
<1>2. ASSUME tx'[p].step = "credit" \/ tx'[p].reward
      PROVE  Holds(p, R!ReferralRow(Owner[p]))' /\ R!Pending(Owner[p])'
  <2>1. Holds(p, R!ReferralRow(Owner[p])) /\ R!Pending(Owner[p])
    BY <1>2 DEF Earns
  <2> QED
    BY <2>1 DEF R!Pending, R!NoReferral, R!ReferralRow
<1>3. ASSUME tx'[p].milestone
      PROVE  Holds(p, R!UserRow(friend[Owner[p]].by))'
             /\ R!Entries("milestone", friend[Owner[p]].by)' = {}
  <2>1. PICK x : x = friend[Owner[p]].by
    OBVIOUS
  <2>2. Holds(p, R!UserRow(x))
    BY <1>3, <2>1 DEF Earns
  <2>3. Holds(p, R!UserRow(x))' /\ R!Entries("milestone", x)' = {} /\ x = friend'[Owner[p]].by
    BY <1>3, <2>1, <2>2 DEF R!UserRow
  <2> QED
    BY <2>3
<1> QED
  BY <1>1, <1>2, <1>3 DEF Earns

\* A step of one checkout that writes nothing yet.
LEMMA QuietKeeps ==
  ASSUME RewardInv, NEW o \in Orders, Quiet, tx' \in [Orders -> TxType], status[o] = "none",
         \A p \in Orders \ {o} : tx'[p] = tx[p],
         \A p, r : Holds(p, r) => Holds(p, r)',
         Earns(o)'
  PROVE  RewardInv'
<1>1. BookTypes'
  BY DEF RewardInv, Books, BookTypes, Quiet
<1>2. \A p \in Orders : Written(p)'
  <2>1. \A p \in Orders : R!InFlight(p)' => status[p] = "none"
    BY DEF RewardInv, Books, Written, R!InFlight, R!Idle
  <2> QED
    BY <2>1 DEF RewardInv, Books, Written, Quiet
<1>3. ASSUME NEW p \in Orders \ {o} PROVE Earns(p)'
  <2>1. \A x : R!Entries("milestone", x)' = R!Entries("milestone", x)
    BY EntriesSame DEF Quiet
  <2>2. Earns(p) /\ friend' = friend
    BY DEF RewardInv, Books, Quiet
  <2>3. \A x : tx[p].milestone /\ x = friend[Owner[p]].by => R!Entries("milestone", x)' = {}
    BY <2>1, <2>2 DEF Earns
  <2> QED
    BY <2>2, <2>3, EarnsOn
<1>4. OneReward' /\ OneMilestone'
  BY DEF RewardInv, OneReward, OneMilestone, Rewarded, Quiet
<1> QED
  BY <1>1, <1>2, <1>3, <1>4 DEF RewardInv, Books

LEMMA EarlyKeeps ==
  ASSUME RewardInv, NEW o \in Orders, R!Wallet(o) \/ R!Coupon(o) \/ R!Referral(o)
  PROVE  RewardInv'
<1>1. /\ Quiet /\ tx' \in [Orders -> TxType]
      /\ tx[o].step \in {"wallet", "coupon", "referral"}
      /\ tx'[o].reward = tx[o].reward /\ tx'[o].milestone = tx[o].milestone
      /\ \A p \in Orders \ {o} : tx'[p] = tx[p]
      /\ \A p, r : Holds(p, r) => Holds(p, r)'
      /\ tx'[o].step = "credit" => Holds(o, R!ReferralRow(Owner[o]))' /\ R!Pending(Owner[o])
  BY EarlySteps DEF RewardInv, Books
<1>2. Written(o) /\ Earns(o)
  BY DEF RewardInv, Books
<1>3. status[o] = "none"
  BY <1>1, <1>2 DEF Written, R!InFlight, R!Idle
<1>4. ~ tx'[o].reward /\ ~ tx'[o].milestone
  BY <1>1, <1>2 DEF Earns
<1>5. Earns(o)'
  BY <1>1, <1>4 DEF Earns, R!Pending, R!NoReferral, R!ReferralRow, Quiet
<1> QED
  BY <1>1, <1>3, <1>5, QuietKeeps

LEMMA CreditKeeps ==
  ASSUME RewardInv, NEW o \in Orders, R!Credit(o)
  PROVE  RewardInv'
<1>1. /\ Quiet /\ tx' \in [Orders -> TxType] /\ tx'[o].step = "commit" /\ tx[o].step = "credit"
      /\ tx'[o].reward
      /\ \A p \in Orders \ {o} : tx'[p] = tx[p]
      /\ \A p, r : Holds(p, r) => Holds(p, r)'
      /\ Holds(o, R!UserRow(friend[Owner[o]].by))'
      /\ tx'[o].milestone => R!Entries("milestone", friend[Owner[o]].by) = {}
  BY CreditStep DEF RewardInv, Books
<1>2. Written(o) /\ Earns(o)
  BY DEF RewardInv, Books
<1>3. status[o] = "none"
  BY <1>1, <1>2 DEF Written, R!InFlight, R!Idle
<1>4. Holds(o, R!ReferralRow(Owner[o])) /\ R!Pending(Owner[o])
  BY <1>1, <1>2 DEF Earns
<1>5. Holds(o, R!ReferralRow(Owner[o]))' /\ R!Pending(Owner[o])'
  BY <1>1, <1>4 DEF R!Pending, R!NoReferral, R!ReferralRow, Quiet
<1>6. tx'[o].milestone => R!Entries("milestone", friend[Owner[o]].by)' = {}
  <2>1. \A x : R!Entries("milestone", x)' = R!Entries("milestone", x)
    BY <1>1, EntriesSame DEF Quiet
  <2>2. friend' = friend
    BY <1>1 DEF Quiet
  <2> QED
    BY <1>1, <2>1, <2>2
<1>7. Earns(o)'
  BY <1>1, <1>5, <1>6 DEF Earns
<1> QED
  BY <1>1, <1>3, <1>7, QuietKeeps

LEMMA BeginKeeps ==
  ASSUME RewardInv, NEW o \in Orders, R!Begin(o)
  PROVE  RewardInv'
<1>1. /\ Quiet /\ status[o] = "none" /\ held' = held
      /\ tx' \in [Orders -> TxType] /\ \A p \in Orders \ {o} : tx'[p] = tx[p]
      /\ tx'[o].step \in {"wallet", "coupon"} /\ ~ tx'[o].reward /\ ~ tx'[o].milestone
  BY BeginStep DEF RewardInv, Books, Quiet
<1>2. \A p, r : Holds(p, r) => Holds(p, r)'
  BY <1>1 DEF Holds
<1>3. Earns(o)'
  BY <1>1 DEF Earns
<1> QED
  BY <1>1, <1>2, <1>3, QuietKeeps

\* A checkout ends without an order, or with one.
LEMMA AbortKeeps ==
  ASSUME RewardInv, NEW o \in Orders, R!Abort(o)
  PROVE  RewardInv'
<1>1. /\ status' = [status EXCEPT ![o] = "refused"] /\ R!Ends(o)
      /\ UNCHANGED <<friend, redeemed, coupon, gift, ledger, undo, gifted>>
      /\ \E S \in SUBSET Orders : o \in S /\ R!Circle(S)
  BY Zenon DEF R!Abort, R!history
<1>2. /\ tx' \in [Orders -> TxType] /\ tx'[o] = R!Idle
      /\ \A p \in Orders \ {o} : tx'[p] = tx[p]
      /\ \A p, r : Holds(p, r) /\ p # o => Holds(p, r)'
  BY <1>1, Ending DEF RewardInv, Books
<1>3. tx[o] # R!Idle
  <2>1. R!Needs(o) # {}
    BY <1>1 DEF R!Circle, R!WaitsFor
  <2> QED
    BY <2>1 DEF R!Needs, R!At, R!Idle
<1>4. status[o] = "none" /\ Written(o)
  BY <1>3 DEF RewardInv, Books, Written, R!InFlight
<1>5. status \in [Orders -> {"none", "placed", "cancelled", "refused"}]
  BY DEF RewardInv, Books, BookTypes
<1>6. /\ status' \in [Orders -> {"none", "placed", "cancelled", "refused"}]
      /\ status'[o] = "refused" /\ \A p \in Orders \ {o} : status'[p] = status[p]
  BY <1>1, <1>5
<1>7. BookTypes'
  BY <1>1, <1>2, <1>6 DEF RewardInv, Books, BookTypes
<1>8. Written(o)' /\ Earns(o)'
  BY <1>1, <1>2, <1>4, <1>6 DEF Written, Earns, R!InFlight, R!Idle
<1>9. ASSUME NEW p \in Orders \ {o} PROVE Written(p)' /\ Earns(p)'
  <2>1. Written(p) /\ Earns(p)
    BY DEF RewardInv, Books
  <2>2. Written(p)'
    BY <1>1, <1>2, <1>6, <2>1 DEF Written, R!InFlight, R!Idle
  <2>3. \A x : R!Entries("milestone", x)' = R!Entries("milestone", x)
    BY <1>1, EntriesSame
  <2>4. \A x : tx[p].milestone /\ x = friend[Owner[p]].by => R!Entries("milestone", x)' = {}
    BY <2>1, <2>3 DEF Earns
  <2> QED
    BY <1>1, <1>2, <2>1, <2>2, <2>4, EarnsOn
<1>10. OneReward' /\ OneMilestone'
  BY <1>1 DEF RewardInv, OneReward, OneMilestone, Rewarded
<1> QED
  BY <1>7, <1>8, <1>9, <1>10 DEF RewardInv, Books

LEMMA CommitKeeps ==
  ASSUME RewardInv, NEW o \in Orders, R!Commit(o)
  PROVE  RewardInv'
<1>0. BookTypes /\ Owner[o] \in Users /\ Written(o) /\ Earns(o)
  BY OwnerIs DEF RewardInv, Books
<1>1. /\ tx[o].step = "commit" /\ status' = [status EXCEPT ![o] = "placed"]
      /\ UNCHANGED <<undo, gifted>> /\ R!Ends(o)
      /\ redeemed' = IF tx[o].coupon THEN redeemed \cup {o} ELSE redeemed
      /\ gift' = IF tx[o].gift THEN [gift EXCEPT ![Owner[o]] = "used"] ELSE gift
      /\ friend' \in [Users -> [by : Users \cup {"nobody"}, converted : BOOLEAN]]
      /\ \A u \in Users : friend'[u].by = friend[u].by /\ (friend[u].converted => friend'[u].converted)
      /\ \A u \in Users \ {Owner[o]} : friend'[u] = friend[u]
      /\ tx[o].reward => friend'[Owner[o]].converted
      /\ ~ tx[o].reward => friend' = friend
      /\ ledger' \in [R!Kinds \X Orders -> Nat]
      /\ coupon' \in [used : Nat, user : Nat, all : Nat]
      /\ \A k \in R!Kinds, p \in Orders \ {o} : ledger'[<<k, p>>] = ledger[<<k, p>>]
      /\ \A k \in R!Kinds : ledger'[<<k, o>>] =
           IF (k = "reward" /\ tx[o].reward) \/ (k = "milestone" /\ tx[o].milestone)
           THEN ledger[<<k, o>>] + 1 ELSE ledger[<<k, o>>]
  BY <1>0, CommitStep
<1>2. /\ tx' \in [Orders -> TxType] /\ tx'[o] = R!Idle
      /\ \A p \in Orders \ {o} : tx'[p] = tx[p]
      /\ \A p, r : Holds(p, r) /\ p # o => Holds(p, r)'
  BY <1>0, <1>1, Ending
<1>3. status[o] = "none" /\ \A k \in R!Kinds : ledger[<<k, o>>] = 0
  BY <1>0, <1>1 DEF Written, R!InFlight, R!Idle
<1>4. /\ status' \in [Orders -> {"none", "placed", "cancelled", "refused"}]
      /\ status'[o] = "placed" /\ \A p \in Orders \ {o} : status'[p] = status[p]
  BY <1>0, <1>1 DEF BookTypes
<1>5. BookTypes'
  <2>1. redeemed' \in SUBSET Orders /\ IsFiniteSet(redeemed')
    BY <1>0, <1>1, FS_AddElement DEF BookTypes
  <2>2. gift' \in [Users -> {"none", "unused", "used"}]
    BY <1>0, <1>1 DEF BookTypes
  <2> QED
    BY <1>0, <1>1, <1>2, <1>4, <2>1, <2>2 DEF BookTypes
<1>6. Written(o)' /\ Earns(o)'
  <2>1. undo[o] = "none"
    BY <1>0, <1>3 DEF Written
  <2>2. "reversal" \in R!Kinds /\ \A k \in R!Kinds : ledger'[<<k, o>>] <= 1
    BY <1>1, <1>3 DEF R!Kinds
  <2>3. ledger'[<<"reversal", o>>] = 0
    BY <1>1, <1>3, <2>2
  <2>4. Written(o)'
    BY <1>1, <1>2, <1>4, <2>1, <2>2, <2>3 DEF Written, R!InFlight
  <2>5. Earns(o)'
    BY <1>2 DEF Earns, R!Idle
  <2> QED
    BY <2>4, <2>5
<1>7. \A u \in Users : friend'[u].by = friend[u].by
  BY <1>1
<1>8. ASSUME NEW p \in Orders \ {o} PROVE Written(p)' /\ Earns(p)'
  <2>1. Written(p) /\ Earns(p) /\ Owner[p] \in Users
    BY OwnerIs DEF RewardInv, Books
  <2>2. Written(p)'
    <3>1. \A k \in R!Kinds : ledger'[<<k, p>>] = ledger[<<k, p>>]
      BY <1>1
    <3>2. "reward" \in R!Kinds /\ "reversal" \in R!Kinds
      BY DEF R!Kinds
    <3> QED
      BY <1>1, <1>2, <1>4, <2>1, <3>1, <3>2 DEF Written, R!InFlight, R!Idle
  <2>3. CASE tx[p].step = "credit" \/ tx[p].reward
    <3>1. Holds(p, R!ReferralRow(Owner[p]))
      BY <2>1, <2>3 DEF Earns
    <3>2. tx[o].reward => Owner[p] # Owner[o]
      <4>1. tx[o].reward => Holds(o, R!ReferralRow(Owner[o]))
        BY <1>0 DEF Earns
      <4> QED
        BY <3>1, <4>1 DEF Holds
    <3>3. friend'[Owner[p]] = friend[Owner[p]]
      BY <1>1, <2>1, <3>2
    <3>4. ASSUME tx[p].milestone, NEW x, x = friend[Owner[p]].by
          PROVE  R!Entries("milestone", x)' = {}
      <4>1. R!Entries("milestone", x) = {} /\ Holds(p, R!UserRow(x))
        BY <2>1, <3>4 DEF Earns
      <4>2. tx[o].milestone => friend[Owner[o]].by # x
        <5>1. tx[o].milestone => Holds(o, R!UserRow(friend[Owner[o]].by))
          BY <1>0 DEF Earns
        <5> QED
          BY <4>1, <5>1 DEF Holds
      <4>3. ASSUME NEW e \in Orders, ledger'[<<"milestone", e>>] > 0, friend'[Owner[e]].by = x PROVE FALSE
        <5>1. friend[Owner[e]].by = x /\ "milestone" \in R!Kinds
          BY <1>7, <4>3, OwnerIs DEF R!Kinds
        <5>2. e \notin R!Entries("milestone", x)
          BY <4>1
        <5>3. ~ (ledger[<<"milestone", e>>] > 0)
          BY <5>1, <5>2 DEF R!Entries
        <5>4. e = o /\ tx[o].milestone
          BY <1>1, <1>3, <4>3, <5>1, <5>3
        <5> QED
          BY <4>2, <5>1, <5>4
      <4> QED
        BY <4>3 DEF R!Entries
    <3> QED
      BY <1>2, <2>1, <2>2, <3>3, <3>4, EarnsOn
  <2>4. CASE ~ (tx[p].step = "credit" \/ tx[p].reward)
    <3>1. ~ tx[p].milestone
      BY <2>1, <2>4 DEF Earns
    <3> QED
      BY <1>2, <2>2, <2>4, <3>1 DEF Earns
  <2> QED
    BY <2>3, <2>4
<1>9. OneReward'
  <2>1. ASSUME NEW p \in Orders, Rewarded(p)'
        PROVE  Rewarded(p) \/ (p = o /\ tx[o].reward)
    <3>1. "reward" \in R!Kinds /\ "reversal" \in R!Kinds
      BY DEF R!Kinds
    <3>2. CASE p # o
      BY <1>1, <2>1, <3>1, <3>2 DEF Rewarded
    <3>3. CASE p = o
      BY <1>1, <1>3, <2>1, <3>1, <3>3 DEF Rewarded
    <3> QED
      BY <3>2, <3>3
  <2>2. tx[o].reward => ~ friend[Owner[o]].converted
    BY <1>0 DEF Earns, R!Pending
  <2>3. \A p \in Orders : Rewarded(p) => friend[Owner[p]].converted
    BY DEF RewardInv, OneReward
  <2>4. \A p, e \in Orders : Rewarded(p) /\ Rewarded(e) /\ Owner[p] = Owner[e] => p = e
    BY DEF RewardInv, OneReward
  <2>5. \A p \in Orders : Rewarded(p)' => friend'[Owner[p]].converted
    BY <1>1, <2>1, <2>3, OwnerIs
  <2>6. \A p, e \in Orders : Rewarded(p)' /\ Rewarded(e)' /\ Owner[p] = Owner[e] => p = e
    BY <2>1, <2>2, <2>3, <2>4
  <2> QED
    BY <2>5, <2>6 DEF OneReward
<1>10. OneMilestone'
  <2> SUFFICES ASSUME NEW p \in Orders, NEW e \in Orders,
                      ledger'[<<"milestone", p>>] > 0, ledger'[<<"milestone", e>>] > 0,
                      friend'[Owner[p]].by = friend'[Owner[e]].by
               PROVE  p = e
    BY DEF OneMilestone
  <2>1. friend[Owner[p]].by = friend[Owner[e]].by /\ "milestone" \in R!Kinds
    BY <1>7, OwnerIs DEF R!Kinds
  <2>2. \A x \in Orders : ledger'[<<"milestone", x>>] > 0
          => ledger[<<"milestone", x>>] > 0 \/ (x = o /\ tx[o].milestone)
    BY <1>1, <1>3, <2>1
  <2>3. tx[o].milestone => \A x \in Orders : friend[Owner[x]].by = friend[Owner[o]].by
                                             => ~ (ledger[<<"milestone", x>>] > 0)
    BY <1>0 DEF Earns, R!Entries
  <2> QED
    BY <2>1, <2>2, <2>3 DEF RewardInv, OneMilestone
<1> QED
  BY <1>5, <1>6, <1>8, <1>9, <1>10 DEF RewardInv, Books

\* A code is claimed by a customer without orders.
LEMMA ClaimKeeps ==
  ASSUME RewardInv, NEW u \in Users, R!Claim(u)
  PROVE  RewardInv'
<1>1. /\ UNCHANGED <<status, redeemed, coupon, gift, ledger, tx, held, undo, gifted>>
      /\ friend[u] = R!NoReferral /\ \A o \in Orders : Owner[o] = u => status[o] = "none"
  BY Zenon DEF R!Claim, R!history
<1>2. PICK v \in Codes[u] \ {u} : friend' = [friend EXCEPT ![u] = [by |-> v, converted |-> FALSE]]
  BY Zenon DEF R!Claim
<1>3. /\ v \in Users /\ friend \in [Users -> [by : Users \cup {"nobody"}, converted : BOOLEAN]]
  BY RewardsAssumption DEF RewardInv, Books, BookTypes
<1>4. /\ friend' \in [Users -> [by : Users \cup {"nobody"}, converted : BOOLEAN]]
      /\ \A w \in Users \ {u} : friend'[w] = friend[w]
  BY <1>2, <1>3
<1>5. BookTypes'
  BY <1>1, <1>4 DEF RewardInv, Books, BookTypes
<1>6. \A p \in Orders : Written(p)'
  BY <1>1 DEF RewardInv, Books, Written, R!InFlight
<1>7. ASSUME NEW p \in Orders, ledger[<<"milestone", p>>] > 0 \/ Rewarded(p)
      PROVE  friend'[Owner[p]] = friend[Owner[p]]
  <2>1. Written(p) /\ Owner[p] \in Users /\ "milestone" \in R!Kinds /\ "reward" \in R!Kinds
    BY OwnerIs DEF RewardInv, Books, R!Kinds
  <2>2. ledger[<<"reversal", p>>] \in Nat
    BY DEF RewardInv, Books, BookTypes, R!Kinds
  <2>3. status[p] # "none"
    BY <1>7, <2>1, <2>2 DEF Written, Rewarded
  <2> QED
    BY <1>1, <1>4, <2>1, <2>3
<1>8. ASSUME NEW p \in Orders PROVE Earns(p)'
  <2>1. Earns(p) /\ Owner[p] \in Users
    BY OwnerIs DEF RewardInv, Books
  <2>2. \A x : R!Entries("milestone", x)' = R!Entries("milestone", x)
    BY <1>1, <1>7, EntriesSame
  <2>3. CASE Owner[p] = u
    <3>1. ~ R!Pending(Owner[p])
      BY <1>1, <2>3 DEF R!Pending
    <3> QED
      BY <1>1, <2>1, <3>1 DEF Earns
  <2>4. CASE Owner[p] # u
    <3>1. friend'[Owner[p]] = friend[Owner[p]]
      BY <1>4, <2>1, <2>4
    <3>2. \A r : Holds(p, r) => Holds(p, r)'
      BY <1>1 DEF Holds
    <3>3. \A x : tx[p].milestone /\ x = friend[Owner[p]].by => R!Entries("milestone", x)' = {}
      BY <2>1, <2>2 DEF Earns
    <3> QED
      BY <1>1, <2>1, <3>1, <3>2, <3>3, EarnsOn
  <2> QED
    BY <2>3, <2>4
<1>9. \A p \in Orders : Rewarded(p)' <=> Rewarded(p)
  BY <1>1 DEF Rewarded
<1>10. OneReward'
  BY <1>7, <1>9 DEF RewardInv, OneReward
<1>11. OneMilestone'
  BY <1>1, <1>7 DEF RewardInv, OneMilestone
<1> QED
  BY <1>5, <1>6, <1>8, <1>10, <1>11 DEF RewardInv, Books

LEMMA GiftKeeps ==
  ASSUME RewardInv, NEW u \in Users, R!Gift(u)
  PROVE  RewardInv'
<1>1. /\ UNCHANGED <<status, friend, redeemed, coupon, ledger, tx, held, undo>>
      /\ gift' = [gift EXCEPT ![u] = "unused"] /\ gifted' = [gifted EXCEPT ![u] = @ + 1]
  BY Zenon DEF R!Gift
<1>2. BookTypes'
  BY <1>1 DEF RewardInv, Books, BookTypes
<1>3. \A p \in Orders : Written(p)'
  BY <1>1 DEF RewardInv, Books, Written, R!InFlight
<1>4. \A p \in Orders : Earns(p)'
  BY <1>1 DEF RewardInv, Books, Earns, Holds, R!Entries, R!Pending
<1>5. OneReward' /\ OneMilestone'
  BY <1>1 DEF RewardInv, OneReward, OneMilestone, Rewarded
<1> QED
  BY <1>2, <1>3, <1>4, <1>5 DEF RewardInv, Books

\* A cancellation goes on to its next statement.
LEMMA UndoesOn ==
  ASSUME BookTypes, NEW o \in Orders, NEW s \in Undoings, R!Undo(o, s)
  PROVE  /\ undo' \in [Orders -> Undoings] /\ undo'[o] = s
         /\ \A p \in Orders \ {o} : undo'[p] = undo[p]
BY DEF BookTypes, R!Undo

\* One that leaves the referrals, the ledger and the checkouts alone.
LEMMA UndoKeeps ==
  ASSUME RewardInv, BookTypes', NEW o \in Orders, UNCHANGED <<friend, ledger, tx, held>>,
         \A p \in Orders \ {o} : undo'[p] = undo[p] /\ status'[p] = status[p],
         Written(o)', Rewarded(o)' => Rewarded(o)
  PROVE  RewardInv'
<1>1. \A p \in Orders \ {o} : Written(p)'
  BY DEF RewardInv, Books, Written, R!InFlight
<1>2. \A p \in Orders : Earns(p)'
  BY DEF RewardInv, Books, Earns, Holds, R!Entries, R!Pending
<1>3. \A p \in Orders : Rewarded(p)' => Rewarded(p)
  BY DEF Rewarded
<1>4. OneReward' /\ OneMilestone'
  BY <1>3 DEF RewardInv, OneReward, OneMilestone
<1> QED
  BY <1>1, <1>2, <1>4 DEF RewardInv, Books

LEMMA CancelKeeps ==
  ASSUME RewardInv, NEW o \in Orders, R!Cancel(o)
  PROVE  RewardInv'
<1>1. /\ status[o] = "placed" /\ status' = [status EXCEPT ![o] = "cancelled"] /\ R!Undo(o, "redemption")
      /\ UNCHANGED <<friend, redeemed, coupon, gift, ledger, tx, held, gifted>>
  BY Zenon DEF R!Cancel, R!history
<1>2. BookTypes /\ Written(o)
  BY DEF RewardInv, Books
<1>3. /\ undo' \in [Orders -> Undoings] /\ undo'[o] = "redemption"
      /\ \A p \in Orders \ {o} : undo'[p] = undo[p]
  BY <1>1, <1>2, UndoesOn DEF Undoings
<1>4. /\ status' \in [Orders -> {"none", "placed", "cancelled", "refused"}]
      /\ status'[o] = "cancelled" /\ \A p \in Orders \ {o} : status'[p] = status[p]
  BY <1>1, <1>2 DEF BookTypes
<1>5. BookTypes'
  BY <1>1, <1>2, <1>3, <1>4 DEF BookTypes
<1>6. Written(o)' /\ (Rewarded(o)' => Rewarded(o))
  BY <1>1, <1>2, <1>3, <1>4 DEF Written, Rewarded, R!InFlight
<1> QED
  BY <1>1, <1>3, <1>4, <1>5, <1>6, UndoKeeps

LEMMA UndoStepKeeps ==
  ASSUME RewardInv, NEW o \in Orders, R!DropRedemption(o) \/ R!Uncount(o) \/ R!ClawBack(o) \/ R!Cut(o)
  PROVE  RewardInv'
<1>1. BookTypes /\ Written(o)
  BY DEF RewardInv, Books
<1>2. UNCHANGED <<status, friend, gift, ledger, tx, held, gifted>> /\ (redeemed' = redeemed \/ redeemed' = redeemed \ {o})
  BY Zenon DEF R!DropRedemption, R!Uncount, R!ClawBack, R!Cut, R!db, R!history
<1>3. PICK s \in {"count", "rewards", "debit", "done"} :
        /\ R!Undo(o, s) /\ undo[o] # "none" /\ (s = "debit" => ledger[<<"reward", o>>] > 0)
        /\ s # "done" => undo[o] \notin {"reopen", "done"}
  <2>1. CASE R!DropRedemption(o)
    BY <2>1 DEF R!DropRedemption
  <2>2. CASE R!Uncount(o)
    BY <2>2 DEF R!Uncount
  <2>3. CASE R!ClawBack(o)
    BY <2>3 DEF R!ClawBack
  <2>4. CASE R!Cut(o)
    BY <2>4 DEF R!Cut
  <2> QED
    BY <2>1, <2>2, <2>3, <2>4
<1>4. /\ undo' \in [Orders -> Undoings] /\ undo'[o] = s
      /\ \A p \in Orders \ {o} : undo'[p] = undo[p]
  BY <1>1, <1>3, UndoesOn DEF Undoings
<1>5. redeemed' \in SUBSET Orders /\ IsFiniteSet(redeemed')
  BY <1>1, <1>2, FS_RemoveElement DEF BookTypes
<1>8. coupon' \in [used : Nat, user : Nat, all : Nat]
  <2>1. coupon' = coupon \/ coupon' = [coupon EXCEPT !.used = IF @ > 0 THEN @ - 1 ELSE 0]
    BY Zenon DEF R!DropRedemption, R!Uncount, R!ClawBack, R!Cut, R!db
  <2> QED
    BY <1>1, <2>1 DEF BookTypes
<1>6. BookTypes'
  BY <1>1, <1>2, <1>4, <1>5, <1>8 DEF BookTypes
<1>7. Written(o)' /\ (Rewarded(o)' => Rewarded(o))
  BY <1>1, <1>2, <1>3, <1>4 DEF Written, Rewarded, R!InFlight
<1> QED
  BY <1>2, <1>4, <1>6, <1>7, UndoKeeps

\* The reward is taken back, and the referral opened again.
LEMMA DebitKeeps ==
  ASSUME RewardInv, NEW o \in Orders, R!Debit(o)
  PROVE  RewardInv'
<1>1. /\ undo[o] = "debit" /\ ledger' = [ledger EXCEPT ![<<"reversal", o>>] = @ + 1] /\ R!Undo(o, "reopen")
      /\ UNCHANGED <<status, friend, redeemed, coupon, gift, tx, held, gifted>>
  BY Zenon DEF R!Debit, R!history
<1>2. BookTypes /\ Written(o) /\ "reversal" \in R!Kinds /\ "milestone" \in R!Kinds /\ "reward" \in R!Kinds
  BY DEF RewardInv, Books, R!Kinds
<1>3. /\ undo' \in [Orders -> Undoings] /\ undo'[o] = "reopen"
      /\ \A p \in Orders \ {o} : undo'[p] = undo[p]
  BY <1>1, <1>2, UndoesOn DEF Undoings
<1>4. /\ ledger' \in [R!Kinds \X Orders -> Nat]
      /\ \A k \in R!Kinds, p \in Orders : ledger'[<<k, p>>] =
           IF k = "reversal" /\ p = o THEN ledger[<<k, p>>] + 1 ELSE ledger[<<k, p>>]
  BY <1>1, <1>2 DEF BookTypes
<1>5. BookTypes'
  BY <1>1, <1>2, <1>3, <1>4 DEF BookTypes
<1>6. status[o] = "cancelled" /\ ledger[<<"reversal", o>>] = 0 /\ ledger[<<"reward", o>>] > 0
  BY <1>1, <1>2 DEF Written
<1>7. ASSUME NEW p \in Orders PROVE Written(p)'
  <2>1. CASE p = o
    <3>1. ledger'[<<"reversal", o>>] = 1 /\ \A k \in R!Kinds : ledger'[<<k, o>>] <= 1
      BY <1>2, <1>4, <1>6 DEF Written
    <3> QED
      BY <1>1, <1>2, <1>3, <1>6, <2>1, <3>1 DEF Written, R!InFlight
  <2>2. CASE p # o
    <3>1. \A k \in R!Kinds : ledger'[<<k, p>>] = ledger[<<k, p>>]
      BY <1>4, <2>2
    <3> QED
      BY <1>1, <1>2, <1>3, <2>2, <3>1 DEF RewardInv, Books, Written, R!InFlight
  <2> QED
    BY <2>1, <2>2
<1>8. \A p \in Orders : ledger'[<<"milestone", p>>] = ledger[<<"milestone", p>>]
  BY <1>2, <1>4
<1>9. ASSUME NEW p \in Orders PROVE Earns(p)'
  <2>1. \A x : R!Entries("milestone", x)' = R!Entries("milestone", x)
    BY <1>1, <1>8, EntriesSame
  <2>2. Earns(p)
    BY DEF RewardInv, Books
  <2>3. \A x : tx[p].milestone /\ x = friend[Owner[p]].by => R!Entries("milestone", x)' = {}
    BY <2>1, <2>2 DEF Earns
  <2>4. \A r : Holds(p, r) => Holds(p, r)'
    BY <1>1 DEF Holds
  <2> QED
    BY <1>1, <2>2, <2>3, <2>4, EarnsOn
<1>10. \A p \in Orders : Rewarded(p)' => Rewarded(p)
  BY <1>2, <1>3, <1>4, <1>6 DEF Rewarded
<1>11. OneReward' /\ OneMilestone'
  BY <1>1, <1>8, <1>10 DEF RewardInv, OneReward, OneMilestone
<1> QED
  BY <1>5, <1>7, <1>9, <1>11 DEF RewardInv, Books

LEMMA ReopenKeeps ==
  ASSUME RewardInv, NEW o \in Orders, R!Reopen(o)
  PROVE  RewardInv'
<1>1. /\ undo[o] = "reopen" /\ R!Free(R!ReferralRow(Owner[o])) /\ R!Undo(o, "done")
      /\ friend' = [friend EXCEPT ![Owner[o]].converted = FALSE]
      /\ UNCHANGED <<status, redeemed, coupon, gift, ledger, tx, held, gifted>>
  BY Zenon DEF R!Reopen, R!history
<1>2. BookTypes /\ Written(o) /\ Owner[o] \in Users
  BY OwnerIs DEF RewardInv, Books
<1>3. /\ undo' \in [Orders -> Undoings] /\ undo'[o] = "done"
      /\ \A p \in Orders \ {o} : undo'[p] = undo[p]
  BY <1>1, <1>2, UndoesOn DEF Undoings
<1>4. /\ friend' \in [Users -> [by : Users \cup {"nobody"}, converted : BOOLEAN]]
      /\ \A u \in Users : friend'[u].by = friend[u].by
      /\ \A u \in Users \ {Owner[o]} : friend'[u] = friend[u]
  BY <1>1, <1>2 DEF BookTypes
<1>5. BookTypes'
  BY <1>1, <1>2, <1>3, <1>4 DEF BookTypes
<1>6. \A p \in Orders : Written(p)'
  BY <1>1, <1>2, <1>3 DEF RewardInv, Books, Written, R!InFlight
<1>7. \A x : R!Entries("milestone", x)' = R!Entries("milestone", x)
  BY <1>1, <1>4, OwnerIs, EntriesSame
<1>8. ASSUME NEW p \in Orders PROVE Earns(p)'
  <2>1. Earns(p) /\ Owner[p] \in Users
    BY OwnerIs DEF RewardInv, Books
  <2>2. CASE Owner[p] = Owner[o]
    <3>1. ~ Holds(p, R!ReferralRow(Owner[p]))
      BY <1>1, <2>2 DEF Holds, R!Free
    <3> QED
      BY <1>1, <2>1, <3>1 DEF Earns
  <2>3. CASE Owner[p] # Owner[o]
    <3>1. friend'[Owner[p]] = friend[Owner[p]]
      BY <1>4, <2>1, <2>3
    <3>2. \A r : Holds(p, r) => Holds(p, r)'
      BY <1>1 DEF Holds
    <3>3. \A x : tx[p].milestone /\ x = friend[Owner[p]].by => R!Entries("milestone", x)' = {}
      BY <1>7, <2>1 DEF Earns
    <3> QED
      BY <1>1, <2>1, <3>1, <3>2, <3>3, EarnsOn
  <2> QED
    BY <2>2, <2>3
<1>9. ASSUME NEW p \in Orders, Rewarded(p)'
      PROVE  Rewarded(p) /\ friend'[Owner[p]].converted
  <2>1. Rewarded(o) /\ ~ Rewarded(o)'
    <3>1. "reward" \in R!Kinds /\ "reversal" \in R!Kinds
      BY DEF R!Kinds
    <3>2. ledger[<<"reward", o>>] \in Nat /\ ledger[<<"reversal", o>>] \in Nat
      BY <1>2, <3>1 DEF BookTypes
    <3>3. ledger[<<"reversal", o>>] > 0 /\ ledger[<<"reward", o>>] <= 1
      BY <1>1, <1>2, <3>1 DEF Written
    <3> QED
      BY <1>1, <1>3, <3>2, <3>3 DEF Rewarded
  <2>2. p # o /\ Rewarded(p)
    BY <1>1, <1>3, <1>9, <2>1 DEF Rewarded
  <2>3. Owner[p] # Owner[o]
    BY <2>1, <2>2 DEF RewardInv, OneReward
  <2> QED
    BY <1>4, <2>2, <2>3, OwnerIs DEF RewardInv, OneReward
<1>10. OneReward'
  BY <1>9 DEF RewardInv, OneReward
<1>11. OneMilestone'
  BY <1>1, <1>4, OwnerIs DEF RewardInv, OneMilestone
<1> QED
  BY <1>5, <1>6, <1>8, <1>10, <1>11 DEF RewardInv, Books

\* Every step.
LEMMA RewardsInductive == RewardInv /\ [R!Next]_R!vars => RewardInv'
<1> SUFFICES ASSUME RewardInv, [R!Next]_R!vars PROVE RewardInv'
  OBVIOUS
<1>1. CASE UNCHANGED R!vars
  BY <1>1 DEF R!vars, R!db, R!history, RewardInv, Books, BookTypes, Written, Earns, Holds, OneReward,
     OneMilestone, Rewarded, R!InFlight, R!Entries, R!Pending
<1>2. ASSUME NEW u \in Users, R!Claim(u) \/ R!Gift(u) PROVE RewardInv'
  BY <1>2, ClaimKeeps, GiftKeeps
<1>3. ASSUME NEW o \in Orders, R!Begin(o) \/ R!Checkout(o) PROVE RewardInv'
  BY <1>3, BeginKeeps, EarlyKeeps, CreditKeeps, CommitKeeps, AbortKeeps DEF R!Checkout
<1>4. ASSUME NEW o \in Orders, R!Cancel(o) \/ R!Undoing(o) \/ R!Cut(o) PROVE RewardInv'
  BY <1>4, CancelKeeps, UndoStepKeeps, DebitKeeps, ReopenKeeps DEF R!Undoing
<1> QED
  BY <1>1, <1>2, <1>3, <1>4 DEF R!Next

----------------------------------------------------------------------------
(* Coupons stay within their limits.                                       *)

UsesOf(u) == {o \in redeemed : Owner[o] = u}

LEMMA UsesAre ==
  ASSUME BookTypes, NEW u
  PROVE  /\ IsFiniteSet(UsesOf(u)) /\ UsedBy(u) \in Nat /\ UsedBy(u) = Cardinality(UsesOf(u))
<1>1. IsFiniteSet(redeemed) /\ UsesOf(u) \subseteq redeemed
  BY DEF BookTypes, UsesOf
<1>2. IsFiniteSet(UsesOf(u))
  BY <1>1, FS_Subset
<1> QED
  BY <1>2, FS_CardinalityType DEF UsedBy, UsesOf

\* One use more counts for its customer only, and a use less for nobody.
LEMMA UseMore ==
  ASSUME BookTypes, NEW o \in Orders, redeemed' = redeemed \cup {o}, NEW u
  PROVE  /\ UsedBy(u)' \in Nat /\ UsedBy(u)' <= UsedBy(u) + 1
         /\ u # Owner[o] => UsedBy(u)' = UsedBy(u)
<1>1. IsFiniteSet(UsesOf(u)) /\ UsedBy(u) \in Nat /\ UsedBy(u) = Cardinality(UsesOf(u))
  BY UsesAre
<1>2. UsedBy(u)' = Cardinality(UsesOf(u)')
  BY DEF UsedBy, UsesOf
<1>3. UsesOf(u)' = IF u = Owner[o] THEN UsesOf(u) \cup {o} ELSE UsesOf(u)
  BY DEF UsesOf
<1> DEFINE S == UsesOf(u)
           T == S \cup {o}
<1> HIDE DEF S
<1>4. IsFiniteSet(S) /\ Cardinality(S) \in Nat
  BY <1>1 DEF S
<1>5. IsFiniteSet(T) /\ (Cardinality(T) = Cardinality(S) \/ Cardinality(T) = Cardinality(S) + 1)
  BY <1>4, FS_AddElement
<1>6. Cardinality(T) \in Nat /\ Cardinality(T) <= Cardinality(S) + 1
  BY <1>4, <1>5
<1>7. UsesOf(u)' = IF u = Owner[o] THEN T ELSE S
  BY <1>3 DEF S
<1>8. UsedBy(u) = Cardinality(S)
  BY <1>1 DEF S
<1> QED
  BY <1>2, <1>4, <1>6, <1>7, <1>8, <1>3 DEF S

LEMMA UseLess ==
  ASSUME BookTypes, redeemed' \subseteq redeemed, NEW u
  PROVE  UsedBy(u)' <= UsedBy(u) /\ UsedBy(u)' \in Nat
<1>1. IsFiniteSet(UsesOf(u)) /\ UsedBy(u) = Cardinality(UsesOf(u))
  BY UsesAre
<1>2. UsedBy(u)' = Cardinality(UsesOf(u)') /\ UsesOf(u)' \subseteq UsesOf(u)
  BY DEF UsedBy, UsesOf
<1> QED
  BY <1>1, <1>2, FS_Subset, FS_CardinalityType

\* No step changes the limits.
LEMMA LimitsStay ==
  ASSUME BookTypes, [R!Next]_R!vars PROVE coupon'.user = coupon.user /\ coupon'.all = coupon.all
<1>1. CASE UNCHANGED R!vars
  BY <1>1 DEF R!vars, R!db
<1>2. ASSUME NEW u \in Users, R!Claim(u) \/ R!Gift(u) PROVE coupon' = coupon
  BY <1>2, Zenon DEF R!Claim, R!Gift
<1>3. ASSUME NEW o \in Orders, R!Begin(o) \/ R!Wallet(o) \/ R!Coupon(o) \/ R!Referral(o) \/ R!Credit(o) \/ R!Abort(o)
      PROVE  coupon' = coupon
  BY <1>3, Zenon DEF R!Begin, R!Wallet, R!Coupon, R!Referral, R!Credit, R!Abort, R!db
<1>4. ASSUME NEW o \in Orders, R!Commit(o) PROVE coupon'.user = coupon.user /\ coupon'.all = coupon.all
  BY <1>4, CommitStep
<1>5. ASSUME NEW o \in Orders, R!Cancel(o) \/ R!Undoing(o) \/ R!Cut(o)
      PROVE  coupon'.user = coupon.user /\ coupon'.all = coupon.all
  <2>1. coupon' = coupon \/ coupon' = [coupon EXCEPT !.used = IF @ > 0 THEN @ - 1 ELSE 0]
    BY <1>5, Zenon DEF R!Cancel, R!Undoing, R!Cut, R!DropRedemption, R!Uncount, R!ClawBack, R!Debit, R!Reopen, R!db
  <2> QED
    BY <2>1 DEF BookTypes
<1> QED
  BY <1>1, <1>2, <1>3, <1>4, <1>5 DEF R!Next, R!Checkout

\* A step that starts no checkout, uses no coupon and gives none.
LEMMA CouponStays ==
  ASSUME BookTypes, BookTypes', CouponInv, redeemed' \subseteq redeemed,
         coupon'.user = coupon.user, UNCHANGED <<gift, gifted, raced>>,
         \A p \in Orders : R!InFlight(p)' => R!InFlight(p) /\ tx'[p].coupon = tx[p].coupon
                                                          /\ tx'[p].gift = tx[p].gift
  PROVE  CouponInv'
<1> SUFFICES ASSUME NEW u \in Users PROVE
    /\ gift'[u] = "unused" => gifted'[u] > 0
    /\ u \notin raced' /\ coupon'.user > 0 =>
         /\ UsedBy(u)' + Unused(u)' <= coupon'.user + gifted'[u]
         /\ \A o, p \in Orders : R!InFlight(o)' /\ R!InFlight(p)' /\ Owner[o] = u /\ Owner[p] = u => o = p
         /\ \A o \in Orders : R!InFlight(o)' /\ Owner[o] = u /\ tx'[o].coupon =>
              IF tx'[o].gift THEN gift'[u] = "unused" ELSE UsedBy(u)' < coupon'.user
  BY DEF CouponInv
<1>1. UsedBy(u) \in Nat /\ UsedBy(u)' \in Nat /\ UsedBy(u)' <= UsedBy(u)
  BY UsesAre, UseLess
<1>2. Unused(u)' = Unused(u) /\ Unused(u) \in Nat /\ gifted[u] \in Nat /\ coupon.user \in Nat
  BY DEF Unused, BookTypes
<1>3. CASE u \in raced \/ ~ (coupon.user > 0)
  BY <1>3 DEF CouponInv
<1>4. CASE u \notin raced /\ coupon.user > 0
  BY <1>1, <1>2, <1>4 DEF CouponInv
<1> QED
  BY <1>3, <1>4

LEMMA CommitCoupon ==
  ASSUME RewardInv, BookTypes', CouponInv, NEW o \in Orders, R!Commit(o)
  PROVE  CouponInv'
<1>1. BookTypes /\ Owner[o] \in Users
  BY OwnerIs DEF RewardInv, Books
<1>2. /\ tx[o].step = "commit" /\ UNCHANGED <<gifted, raced>> /\ R!Ends(o) /\ coupon'.user = coupon.user
      /\ redeemed' = IF tx[o].coupon THEN redeemed \cup {o} ELSE redeemed
      /\ gift' = IF tx[o].gift THEN [gift EXCEPT ![Owner[o]] = "used"] ELSE gift
  BY <1>1, CommitStep
<1>3. tx'[o] = R!Idle /\ \A p \in Orders \ {o} : tx'[p] = tx[p]
  BY <1>1, <1>2, Ending
<1>4. R!InFlight(o)
  BY <1>2 DEF R!InFlight, R!Idle
<1>5. \A p \in Orders : R!InFlight(p)' => p # o /\ R!InFlight(p) /\ tx'[p] = tx[p]
  BY <1>3 DEF R!InFlight, R!Idle
<1> SUFFICES ASSUME NEW u \in Users PROVE
    /\ gift'[u] = "unused" => gifted'[u] > 0
    /\ u \notin raced' /\ coupon'.user > 0 =>
         /\ UsedBy(u)' + Unused(u)' <= coupon'.user + gifted'[u]
         /\ \A e, p \in Orders : R!InFlight(e)' /\ R!InFlight(p)' /\ Owner[e] = u /\ Owner[p] = u => e = p
         /\ \A e \in Orders : R!InFlight(e)' /\ Owner[e] = u /\ tx'[e].coupon =>
              IF tx'[e].gift THEN gift'[u] = "unused" ELSE UsedBy(u)' < coupon'.user
  BY DEF CouponInv
<1>6. UsedBy(u) \in Nat /\ coupon.user \in Nat /\ gifted[u] \in Nat
  BY <1>1, UsesAre DEF BookTypes
<1>7. UsedBy(u)' \in Nat /\ UsedBy(u)' <= UsedBy(u) + 1 /\ (u # Owner[o] \/ ~ tx[o].coupon => UsedBy(u)' = UsedBy(u))
  <2>1. CASE tx[o].coupon
    BY <1>1, <1>2, <2>1, UseMore
  <2>2. CASE ~ tx[o].coupon
    <3>1. redeemed' = redeemed
      BY <1>2, <2>2
    <3>2. UsedBy(u)' = UsedBy(u)
      BY <3>1 DEF UsedBy
    <3> QED
      BY <1>6, <2>2, <3>2
  <2> QED
    BY <2>1, <2>2
<1>8. gift'[u] = IF tx[o].gift /\ u = Owner[o] THEN "used" ELSE gift[u]
  BY <1>1, <1>2 DEF BookTypes
<1>9. gift'[u] = "unused" => gifted'[u] > 0
  BY <1>2, <1>8 DEF CouponInv
<1>10. CASE u \in raced \/ ~ (coupon.user > 0)
  BY <1>2, <1>9, <1>10
<1>11. CASE u \notin raced /\ coupon.user > 0 /\ u # Owner[o]
  BY <1>2, <1>5, <1>7, <1>8, <1>9, <1>11 DEF CouponInv, Unused
<1>12. CASE u \notin raced /\ coupon.user > 0 /\ u = Owner[o]
  <2>1. \A p \in Orders : Owner[p] = u => ~ R!InFlight(p)'
    BY <1>4, <1>5, <1>12 DEF CouponInv
  <2>2. /\ UsedBy(u) + Unused(u) <= coupon.user + gifted[u]
        /\ tx[o].coupon => IF tx[o].gift THEN gift[u] = "unused" ELSE UsedBy(u) < coupon.user
        /\ gift[u] = "unused" => gifted[u] > 0
    BY <1>4, <1>12 DEF CouponInv
  <2>3. UsedBy(u)' + Unused(u)' <= coupon.user + gifted[u]
    <3>1. CASE ~ tx[o].coupon
      BY <1>6, <1>7, <1>8, <2>2, <3>1 DEF Unused
    <3>2. CASE tx[o].coupon /\ tx[o].gift
      BY <1>6, <1>7, <1>8, <1>12, <2>2, <3>2 DEF Unused
    <3>3. CASE tx[o].coupon /\ ~ tx[o].gift
      BY <1>6, <1>7, <1>8, <2>2, <3>3 DEF Unused
    <3> QED
      BY <3>1, <3>2, <3>3
  <2> QED
    BY <1>2, <1>9, <2>1, <2>3
<1> QED
  BY <1>10, <1>11, <1>12

LEMMA BeginCoupon ==
  ASSUME RewardInv, CouponInv, NEW o \in Orders, R!Begin(o)
  PROVE  CouponInv'
<1>1. BookTypes /\ Owner[o] \in Users
  BY OwnerIs DEF RewardInv, Books
<1>2. /\ UNCHANGED <<redeemed, coupon, gift, gifted>> /\ \A p \in Orders \ {o} : tx'[p] = tx[p]
      /\ tx'[o].coupon => R!MayUse(Owner[o])
      /\ tx'[o].gift = (tx'[o].coupon /\ gift[Owner[o]] = "unused")
      /\ raced' = raced \cup {Owner[p] : p \in {q \in Orders : R!InFlight(q) /\ Owner[q] = Owner[o]}}
      /\ tx[o] = R!Idle
  BY <1>1, BeginStep
<1>3. \A p \in Orders \ {o} : R!InFlight(p)' <=> R!InFlight(p)
  BY <1>2 DEF R!InFlight, R!Idle
<1> SUFFICES ASSUME NEW u \in Users PROVE
    /\ gift'[u] = "unused" => gifted'[u] > 0
    /\ u \notin raced' /\ coupon'.user > 0 =>
         /\ UsedBy(u)' + Unused(u)' <= coupon'.user + gifted'[u]
         /\ \A e, p \in Orders : R!InFlight(e)' /\ R!InFlight(p)' /\ Owner[e] = u /\ Owner[p] = u => e = p
         /\ \A e \in Orders : R!InFlight(e)' /\ Owner[e] = u /\ tx'[e].coupon =>
              IF tx'[e].gift THEN gift'[u] = "unused" ELSE UsedBy(u)' < coupon'.user
  BY DEF CouponInv
<1>4. UsedBy(u)' = UsedBy(u) /\ Unused(u)' = Unused(u)
  BY <1>2 DEF UsedBy, Unused
<1>5. gift'[u] = "unused" => gifted'[u] > 0
  BY <1>2 DEF CouponInv
<1>6. CASE u \in raced' \/ ~ (coupon.user > 0)
  BY <1>2, <1>5, <1>6
<1>7. CASE u \notin raced' /\ coupon.user > 0 /\ u # Owner[o]
  BY <1>2, <1>3, <1>4, <1>5, <1>7 DEF CouponInv
<1>8. CASE u \notin raced' /\ coupon.user > 0 /\ u = Owner[o]
  <2>1. u \notin raced /\ \A p \in Orders \ {o} : Owner[p] = u => ~ R!InFlight(p)'
    BY <1>2, <1>3, <1>8
  <2>2. UsedBy(u) + Unused(u) <= coupon.user + gifted[u]
    BY <1>8, <2>1 DEF CouponInv
  <2>3. R!UsedBy(u) = UsedBy(u)
    BY SameUses
  <2>4. tx'[o].coupon => IF tx'[o].gift THEN gift[u] = "unused" ELSE UsedBy(u) < coupon.user
    BY <1>2, <1>8, <2>3 DEF R!MayUse
  <2> QED
    BY <1>2, <1>4, <1>5, <2>1, <2>2, <2>4
<1> QED
  BY <1>6, <1>7, <1>8

LEMMA GiftCoupon ==
  ASSUME RewardInv, CouponInv, NEW w \in Users, R!Gift(w)
  PROVE  CouponInv'
<1>1. BookTypes
  BY DEF RewardInv, Books
<1>2. /\ gift[w] # "unused" /\ UNCHANGED <<redeemed, coupon, tx, raced>>
      /\ gift' = [gift EXCEPT ![w] = "unused"] /\ gifted' = [gifted EXCEPT ![w] = @ + 1]
  BY Zenon DEF R!Gift
<1> SUFFICES ASSUME NEW u \in Users PROVE
    /\ gift'[u] = "unused" => gifted'[u] > 0
    /\ u \notin raced /\ coupon'.user > 0 =>
         /\ UsedBy(u)' + Unused(u)' <= coupon'.user + gifted'[u]
         /\ \A e, p \in Orders : R!InFlight(e) /\ R!InFlight(p) /\ Owner[e] = u /\ Owner[p] = u => e = p
         /\ \A e \in Orders : R!InFlight(e) /\ Owner[e] = u /\ tx[e].coupon =>
              IF tx[e].gift THEN gift'[u] = "unused" ELSE UsedBy(u)' < coupon'.user
  BY <1>2 DEF CouponInv, R!InFlight
<1>3. UsedBy(u)' = UsedBy(u)
  BY <1>2 DEF UsedBy
<1>4. UsedBy(u) \in Nat /\ coupon.user \in Nat /\ gifted[u] \in Nat
  BY <1>1, UsesAre DEF BookTypes
<1>5. /\ gift'[u] = IF u = w THEN "unused" ELSE gift[u]
      /\ gifted'[u] = IF u = w THEN gifted[u] + 1 ELSE gifted[u]
  BY <1>1, <1>2 DEF BookTypes
<1>6. gift'[u] = "unused" => gifted'[u] > 0
  BY <1>4, <1>5 DEF CouponInv
<1>7. CASE u \in raced \/ ~ (coupon.user > 0)
  BY <1>2, <1>6, <1>7
<1>8. CASE u \notin raced /\ coupon.user > 0
  <2>1. UsedBy(u) + Unused(u) <= coupon.user + gifted[u]
    BY <1>8 DEF CouponInv
  <2>2. UsedBy(u)' + Unused(u)' <= coupon.user + gifted'[u]
    BY <1>2, <1>3, <1>4, <1>5, <2>1 DEF Unused
  <2>3. gift[u] = "unused" => gift'[u] = "unused"
    BY <1>5
  <2> QED
    BY <1>2, <1>3, <1>6, <1>8, <2>2, <2>3 DEF CouponInv
<1> QED
  BY <1>7, <1>8

LEMMA CouponInductive == RewardInv /\ CouponInv /\ [R!Next]_R!vars => CouponInv'
<1> SUFFICES ASSUME RewardInv, CouponInv, [R!Next]_R!vars PROVE CouponInv'
  OBVIOUS
<1>1. BookTypes /\ BookTypes' /\ coupon'.user = coupon.user
  BY RewardsInductive, LimitsStay DEF RewardInv, Books
<1>2. ASSUME redeemed' \subseteq redeemed, tx' = tx, UNCHANGED <<gift, gifted, raced>> PROVE CouponInv'
  BY <1>1, <1>2, CouponStays DEF R!InFlight
<1>3. CASE UNCHANGED R!vars
  BY <1>2, <1>3 DEF R!vars, R!db, R!history
<1>4. ASSUME NEW u \in Users, R!Claim(u) PROVE CouponInv'
  BY <1>2, <1>4 DEF R!Claim, R!history
<1>5. ASSUME NEW o \in Orders, R!Wallet(o) \/ R!Coupon(o) \/ R!Referral(o) \/ R!Credit(o) PROVE CouponInv'
  <2>1. /\ Quiet /\ raced' = raced /\ tx[o].step # "idle"
        /\ tx'[o].coupon = tx[o].coupon /\ tx'[o].gift = tx[o].gift
        /\ \A p \in Orders \ {o} : tx'[p] = tx[p]
    <3>1. CASE R!Credit(o)
      BY <1>1, <3>1, CreditStep
    <3>2. CASE R!Wallet(o) \/ R!Coupon(o) \/ R!Referral(o)
      BY <1>1, <3>2, EarlySteps
    <3> QED
      BY <1>5, <3>1, <3>2
  <2>2. R!InFlight(o)
    BY <2>1 DEF R!InFlight, R!Idle
  <2>3. \A p \in Orders \ {o} : R!InFlight(p)' => R!InFlight(p)
    BY <2>1 DEF R!InFlight, R!Idle
  <2> QED
    BY <1>1, <2>1, <2>2, <2>3, CouponStays DEF Quiet
<1>6. ASSUME NEW o \in Orders, R!Abort(o) PROVE CouponInv'
  <2>1. R!Ends(o) /\ UNCHANGED <<redeemed, gift, gifted, raced>>
    BY <1>6, Zenon DEF R!Abort, R!history
  <2>2. tx'[o] = R!Idle /\ \A p \in Orders \ {o} : tx'[p] = tx[p]
    BY <1>1, <2>1, Ending
  <2>3. \A p \in Orders : R!InFlight(p)' => p # o /\ R!InFlight(p)
    BY <2>2 DEF R!InFlight, R!Idle
  <2> QED
    BY <1>1, <2>1, <2>2, <2>3, CouponStays
<1>7. ASSUME NEW o \in Orders, R!Cancel(o) \/ R!Undoing(o) \/ R!Cut(o) PROVE CouponInv'
  <2>1. redeemed' \subseteq redeemed /\ tx' = tx /\ UNCHANGED <<gift, gifted, raced>>
    BY <1>7, Zenon DEF R!Cancel, R!Undoing, R!Cut, R!DropRedemption, R!Uncount, R!ClawBack, R!Debit, R!Reopen, R!db, R!history
  <2> QED
    BY <1>2, <2>1
<1> QED
  BY <1>1, <1>3, <1>4, <1>5, <1>6, <1>7, GiftCoupon, BeginCoupon, CommitCoupon DEF R!Next, R!Checkout

----------------------------------------------------------------------------
(* The uses of all customers together.                                     *)

\* Live uses, and those a cancellation has dropped and not uncounted.
Booked == redeemed \cup {o \in Orders : undo[o] = "count"}

\* used_count covers them: what is let in is counted, and dropped before it is
\* uncounted.
CountInv ==
  /\ IsFiniteSet(Booked) /\ Cardinality(Booked) <= coupon.used
  /\ \A o \in redeemed : undo[o] \in {"none", "redemption", "done"}

\* One checkout at a time is about to use the coupon without a gift, and has room.
RoomInv ==
  coupon.all > 0 /\ ~ crowded =>
    /\ Cardinality(redeemed \ onGift) <= coupon.all
    /\ \A o, p \in Orders : R!Plain(o) /\ R!Plain(p) => o = p
    /\ \A o \in Orders : R!Plain(o) => Cardinality(redeemed \ onGift) < coupon.all

\* Neither changes where no coupon is used and no cancellation moves.
LEMMA CountStays ==
  ASSUME CountInv, UNCHANGED <<redeemed, undo>>, coupon' = coupon PROVE CountInv'
BY DEF CountInv, Booked

LEMMA UsesFit ==
  ASSUME BookTypes, CountInv
  PROVE  /\ IsFiniteSet(redeemed \ onGift) /\ Cardinality(redeemed \ onGift) \in Nat
         /\ Cardinality(redeemed \ onGift) <= coupon.used
<1>1. redeemed \ onGift \subseteq Booked
  BY DEF Booked
<1>2. /\ IsFiniteSet(redeemed \ onGift)
      /\ Cardinality(redeemed \ onGift) <= Cardinality(Booked)
  BY <1>1, FS_Subset DEF CountInv
<1>3. Cardinality(redeemed \ onGift) \in Nat /\ Cardinality(Booked) \in Nat
  BY <1>2, FS_CardinalityType DEF CountInv
<1> QED
  BY <1>2, <1>3 DEF CountInv, BookTypes

LEMMA RoomStays ==
  ASSUME BookTypes, CountInv, RoomInv, (redeemed \ onGift)' \subseteq redeemed \ onGift,
         coupon'.all = coupon.all, crowded' = crowded,
         \A p \in Orders : R!Plain(p)' => R!Plain(p)
  PROVE  RoomInv'
<1>1. IsFiniteSet(redeemed \ onGift) /\ Cardinality(redeemed \ onGift) \in Nat
  BY UsesFit
<1>2. /\ Cardinality((redeemed \ onGift)') \in Nat
      /\ Cardinality((redeemed \ onGift)') <= Cardinality(redeemed \ onGift)
  BY <1>1, FS_Subset, FS_CardinalityType
<1>3. coupon.all \in Nat
  BY DEF BookTypes
<1>4. CASE ~ (coupon.all > 0 /\ ~ crowded)
  BY <1>4 DEF RoomInv
<1>5. CASE coupon.all > 0 /\ ~ crowded
  <2>1. /\ Cardinality(redeemed \ onGift) <= coupon.all
        /\ \A o, p \in Orders : R!Plain(o) /\ R!Plain(p) => o = p
        /\ \A o \in Orders : R!Plain(o) => Cardinality(redeemed \ onGift) < coupon.all
    BY <1>5 DEF RoomInv
  <2>2. Cardinality((redeemed \ onGift)') <= coupon'.all
    BY <1>1, <1>2, <1>3, <2>1
  <2>3. \A o \in Orders : R!Plain(o)' => Cardinality((redeemed \ onGift)') < coupon'.all
    BY <1>1, <1>2, <1>3, <2>1
  <2>4. \A o, p \in Orders : R!Plain(o)' /\ R!Plain(p)' => o = p
    BY <2>1
  <2> QED
    BY <2>2, <2>3, <2>4 DEF RoomInv
<1> QED
  BY <1>4, <1>5

LEMMA CommitUses ==
  ASSUME RewardInv, CountInv, RoomInv, NEW o \in Orders, R!Commit(o)
  PROVE  CountInv' /\ RoomInv'
<1>1. BookTypes /\ Written(o)
  BY DEF RewardInv, Books
<1>2. /\ tx[o].step = "commit" /\ UNCHANGED <<undo, crowded>> /\ R!Ends(o)
      /\ redeemed' = IF tx[o].coupon THEN redeemed \cup {o} ELSE redeemed
      /\ onGift' = IF tx[o].gift THEN onGift \cup {o} ELSE onGift
      /\ coupon'.all = coupon.all
      /\ coupon'.used = IF tx[o].coupon THEN coupon.used + 1 ELSE coupon.used
  BY <1>1, CommitStep
<1>3. tx'[o] = R!Idle /\ \A p \in Orders \ {o} : tx'[p] = tx[p]
  BY <1>1, <1>2, Ending
<1>4. undo[o] = "none"
  BY <1>1, <1>2 DEF Written, R!InFlight, R!Idle
<1>5. coupon.used \in Nat /\ coupon.all \in Nat
  BY <1>1 DEF BookTypes
<1>6. CountInv'
  <2>1. CASE ~ tx[o].coupon
    <3>1. Booked' = Booked /\ redeemed' = redeemed /\ coupon'.used = coupon.used
      BY <1>2, <2>1 DEF Booked
    <3> QED
      BY <1>2, <3>1 DEF CountInv
  <2>2. CASE tx[o].coupon
    <3>1. Booked' = Booked \cup {o} /\ redeemed' = redeemed \cup {o} /\ coupon'.used = coupon.used + 1
      BY <1>2, <2>2 DEF Booked
    <3>2. IsFiniteSet(Booked) /\ Cardinality(Booked) \in Nat /\ Cardinality(Booked) <= coupon.used
      BY FS_CardinalityType DEF CountInv
    <3> DEFINE S == Booked
    <3> HIDE DEF S
    <3>3. IsFiniteSet(S) /\ Cardinality(S) \in Nat /\ Cardinality(S) <= coupon.used
      BY <3>2 DEF S
    <3>4. IsFiniteSet(S \cup {o}) /\ Cardinality(S \cup {o}) <= coupon.used + 1
      <4>1. IsFiniteSet(S \cup {o})
            /\ (Cardinality(S \cup {o}) = Cardinality(S) \/ Cardinality(S \cup {o}) = Cardinality(S) + 1)
        BY <3>3, FS_AddElement
      <4> QED
        BY <1>5, <3>3, <4>1
    <3>5. IsFiniteSet(Booked') /\ Cardinality(Booked') <= coupon'.used
      BY <3>1, <3>4 DEF S
    <3>6. \A e \in redeemed' : undo'[e] \in {"none", "redemption", "done"}
      BY <1>2, <1>4, <3>1 DEF CountInv
    <3> QED
      BY <3>5, <3>6 DEF CountInv
  <2> QED
    BY <2>1, <2>2
<1>7. \A p \in Orders : R!Plain(p)' => p # o /\ R!Plain(p)
  BY <1>3 DEF R!Plain, R!Idle
<1>8. CASE ~ R!Plain(o)
  <2>1. (redeemed \ onGift)' \subseteq redeemed \ onGift
    BY <1>2, <1>8 DEF R!Plain
  <2> QED
    BY <1>1, <1>2, <1>6, <1>7, <2>1, RoomStays
<1>9. CASE R!Plain(o)
  <2>1. redeemed' \ onGift' \subseteq (redeemed \ onGift) \cup {o}
    BY <1>2, <1>9 DEF R!Plain
  <2> DEFINE S == redeemed \ onGift
  <2>2. IsFiniteSet(S) /\ Cardinality(S) \in Nat
    BY <1>1, UsesFit
  <2> HIDE DEF S
  <2>3. IsFiniteSet(S \cup {o})
        /\ (Cardinality(S \cup {o}) = Cardinality(S) \/ Cardinality(S \cup {o}) = Cardinality(S) + 1)
    BY <2>2, FS_AddElement
  <2>4. redeemed' \ onGift' \subseteq S \cup {o}
    BY <2>1 DEF S
  <2>5. /\ IsFiniteSet(redeemed' \ onGift')
        /\ Cardinality(redeemed' \ onGift') <= Cardinality(S \cup {o})
    BY <2>3, <2>4, FS_Subset
  <2>6. Cardinality(redeemed' \ onGift') \in Nat /\ Cardinality(S \cup {o}) \in Nat
    BY <2>3, <2>5, FS_CardinalityType
  <2>7. CASE ~ (coupon.all > 0 /\ ~ crowded)
    BY <1>2, <1>6, <2>7 DEF RoomInv
  <2>8. CASE coupon.all > 0 /\ ~ crowded
    <3>1. Cardinality(S) < coupon.all /\ \A p \in Orders : R!Plain(p) => p = o
      BY <1>9, <2>8 DEF RoomInv, S
    <3>2. Cardinality(redeemed' \ onGift') <= coupon'.all
      BY <1>2, <1>5, <2>2, <2>3, <2>5, <2>6, <3>1
    <3>3. \A p \in Orders : ~ R!Plain(p)'
      BY <1>7, <3>1
    <3> QED
      BY <1>6, <3>2, <3>3 DEF RoomInv
  <2> QED
    BY <2>7, <2>8
<1> QED
  BY <1>6, <1>8, <1>9

LEMMA BeginUses ==
  ASSUME RewardInv, CountInv, RoomInv, NEW o \in Orders, R!Begin(o)
  PROVE  CountInv' /\ RoomInv'
<1>1. BookTypes
  BY DEF RewardInv, Books
<1>2. /\ UNCHANGED <<redeemed, coupon, undo, onGift>> /\ \A p \in Orders \ {o} : tx'[p] = tx[p]
      /\ tx'[o].coupon => R!MayUse(Owner[o])
      /\ tx'[o].gift = (tx'[o].coupon /\ gift[Owner[o]] = "unused")
      /\ tx[o] = R!Idle
      /\ crowded' = (crowded \/ (tx'[o].coupon /\ ~ tx'[o].gift /\ \E p \in Orders : R!Plain(p)))
  BY <1>1, BeginStep
<1>3. CountInv'
  BY <1>2, CountStays
<1>4. \A p \in Orders \ {o} : R!Plain(p)' <=> R!Plain(p)
  BY <1>2 DEF R!Plain
<1>5. R!Plain(o)' <=> tx'[o].coupon /\ ~ tx'[o].gift
  BY DEF R!Plain
<1>6. CASE ~ R!Plain(o)'
  <2>2. (~ crowded' => ~ crowded) /\ (redeemed \ onGift)' = redeemed \ onGift
    BY <1>2, <1>5, <1>6
  <2> QED
    BY <1>2, <1>3, <1>4, <1>6, <2>2 DEF RoomInv
<1>7. CASE R!Plain(o)'
  <2>1. R!MayUse(Owner[o]) /\ gift[Owner[o]] # "unused"
    BY <1>2, <1>5, <1>7
  <2>2. coupon.all > 0 => coupon.used < coupon.all
    BY <2>1 DEF R!MayUse
  <2>3. /\ Cardinality(redeemed \ onGift) \in Nat
        /\ Cardinality(redeemed \ onGift) <= coupon.used /\ coupon.used \in Nat /\ coupon.all \in Nat
    BY <1>1, UsesFit DEF BookTypes
  <2>4. coupon.all > 0 => Cardinality(redeemed \ onGift) < coupon.all
    BY <2>2, <2>3
  <2>5. ~ crowded' => ~ crowded /\ \A p \in Orders : ~ R!Plain(p)
    BY <1>2, <1>5, <1>7
  <2>6. coupon.all > 0 => Cardinality(redeemed \ onGift) <= coupon.all
    BY <2>3, <2>4
  <2>7. ~ crowded' => \A p, e \in Orders : R!Plain(p)' /\ R!Plain(e)' => p = e
    BY <1>4, <2>5
  <2> QED
    BY <1>2, <1>3, <2>4, <2>6, <2>7 DEF RoomInv
<1> QED
  BY <1>3, <1>6, <1>7

\* The redemption goes before the count.
LEMMA UndoCount ==
  ASSUME RewardInv, CountInv, NEW o \in Orders, R!Cancel(o) \/ R!Undoing(o) \/ R!Cut(o)
  PROVE  CountInv' /\ redeemed' \subseteq redeemed
<1>1. BookTypes /\ Written(o) /\ coupon.used \in Nat
  BY DEF RewardInv, Books, BookTypes
<1>2. PICK s \in Undoings : R!Undo(o, s)
  BY Zenon DEF R!Cancel, R!Undoing, R!Cut, R!DropRedemption, R!Uncount, R!ClawBack, R!Debit, R!Reopen, Undoings
<1>3. undo'[o] = s /\ \A p \in Orders \ {o} : undo'[p] = undo[p]
  BY <1>1, <1>2, UndoesOn
<1>4. CASE R!Uncount(o)
  <2>1. /\ undo[o] = "count" /\ redeemed' = redeemed /\ R!Undo(o, "rewards")
        /\ coupon' = [coupon EXCEPT !.used = IF @ > 0 THEN @ - 1 ELSE 0]
    BY <1>4, Zenon DEF R!Uncount
  <2>2. undo'[o] = "rewards"
    BY <1>1, <2>1, UndoesOn DEF Undoings
  <2>3. o \in Booked /\ o \notin redeemed
    BY <2>1 DEF Booked, CountInv
  <2>4. Booked' = Booked \ {o}
    BY <1>3, <2>1, <2>2, <2>3 DEF Booked
  <2> DEFINE S == Booked
  <2>5. IsFiniteSet(S) /\ o \in S /\ Cardinality(S) \in Nat /\ Cardinality(S) <= coupon.used
    BY <2>3, FS_CardinalityType DEF CountInv
  <2> HIDE DEF S
  <2>6. IsFiniteSet(S \ {o}) /\ Cardinality(S \ {o}) = Cardinality(S) - 1
    BY <2>5, FS_RemoveElement
  <2>7. Cardinality(S \ {o}) \in Nat
    BY <2>6, FS_CardinalityType
  <2>8. coupon'.used = IF coupon.used > 0 THEN coupon.used - 1 ELSE 0
    BY <1>1, <2>1 DEF BookTypes
  <2>9. Cardinality(S \ {o}) <= coupon'.used
    BY <1>1, <2>5, <2>6, <2>7, <2>8
  <2>10. IsFiniteSet(Booked') /\ Cardinality(Booked') <= coupon'.used
    BY <2>4, <2>6, <2>9 DEF S
  <2>11. \A e \in redeemed' : undo'[e] \in {"none", "redemption", "done"}
    BY <1>1, <1>3, <2>1, <2>3 DEF CountInv, BookTypes
  <2> QED
    BY <2>1, <2>10, <2>11 DEF CountInv
<1>5. CASE ~ R!Uncount(o)
  <2>1. coupon' = coupon /\ (redeemed' = redeemed \/ redeemed' = redeemed \ {o})
    BY <1>5, Zenon DEF R!Cancel, R!Undoing, R!Cut, R!DropRedemption, R!ClawBack, R!Debit, R!Reopen, R!db
  <2>2. Booked' \subseteq Booked /\ (o \in redeemed' => undo'[o] \in {"none", "redemption", "done"})
    <3>1. CASE R!Cancel(o)
      <4>1. R!Undo(o, "redemption") /\ redeemed' = redeemed
        BY <3>1, Zenon DEF R!Cancel
      <4>2. undo'[o] = "redemption"
        BY <1>1, <4>1, UndoesOn DEF Undoings
      <4> QED
        BY <1>3, <4>1, <4>2 DEF Booked
    <3>2. CASE R!DropRedemption(o)
      <4>1. redeemed' = redeemed \ {o} /\ R!Undo(o, IF o \in redeemed THEN "count" ELSE "rewards")
        BY <3>2, Zenon DEF R!DropRedemption
      <4>2. undo'[o] = IF o \in redeemed THEN "count" ELSE "rewards"
        BY <1>1, <4>1, UndoesOn DEF Undoings
      <4> QED
        BY <1>3, <4>1, <4>2 DEF Booked
    <3>3. CASE R!ClawBack(o) \/ R!Debit(o) \/ R!Reopen(o)
      <4>1. redeemed' = redeemed /\ undo[o] \notin {"none", "redemption", "count", "done"}
            /\ \E t \in {"debit", "reopen", "done"} : R!Undo(o, t)
        BY <3>3, Zenon DEF R!ClawBack, R!Debit, R!Reopen, R!db
      <4>2. undo'[o] \in {"debit", "reopen", "done"}
        BY <1>1, <4>1, UndoesOn DEF Undoings
      <4>3. o \notin redeemed
        BY <4>1 DEF CountInv
      <4> QED
        BY <1>3, <4>1, <4>2, <4>3 DEF Booked
    <3>4. CASE R!Cut(o)
      <4>1. redeemed' = redeemed /\ R!Undo(o, "done")
        BY <3>4, Zenon DEF R!Cut, R!db
      <4>2. undo'[o] = "done"
        BY <1>1, <4>1, UndoesOn DEF Undoings
      <4> QED
        BY <1>3, <4>1, <4>2 DEF Booked
    <3> QED
      BY <1>5, <3>1, <3>2, <3>3, <3>4 DEF R!Undoing
  <2>3. /\ IsFiniteSet(Booked') /\ Cardinality(Booked') <= Cardinality(Booked)
        /\ Cardinality(Booked') \in Nat /\ Cardinality(Booked) \in Nat
    BY <2>2, FS_Subset, FS_CardinalityType DEF CountInv
  <2>4. Cardinality(Booked') <= coupon'.used
    BY <1>1, <2>1, <2>3 DEF CountInv
  <2>5. \A e \in redeemed' : undo'[e] \in {"none", "redemption", "done"}
    BY <1>1, <1>3, <2>1, <2>2 DEF CountInv, BookTypes
  <2> QED
    BY <2>1, <2>3, <2>4, <2>5 DEF CountInv
<1> QED
  BY <1>4, <1>5

LEMMA UsesInductive ==
  RewardInv /\ CountInv /\ RoomInv /\ [R!Next]_R!vars => CountInv' /\ RoomInv'
<1> SUFFICES ASSUME RewardInv, CountInv, RoomInv, [R!Next]_R!vars PROVE CountInv' /\ RoomInv'
  OBVIOUS
<1>1. BookTypes /\ coupon'.all = coupon.all
  BY LimitsStay DEF RewardInv, Books
<1>2. ASSUME UNCHANGED <<redeemed, coupon, undo, onGift, crowded>>,
             \A p \in Orders : R!Plain(p)' => R!Plain(p)
      PROVE  CountInv' /\ RoomInv'
  BY <1>1, <1>2, CountStays, RoomStays
<1>3. ASSUME UNCHANGED <<redeemed, coupon, undo, onGift, crowded, tx>> PROVE CountInv' /\ RoomInv'
  BY <1>2, <1>3 DEF R!Plain
<1>4. CASE UNCHANGED R!vars
  BY <1>3, <1>4 DEF R!vars, R!db, R!history
<1>5. ASSUME NEW u \in Users, R!Claim(u) \/ R!Gift(u) PROVE CountInv' /\ RoomInv'
  BY <1>3, <1>5, Zenon DEF R!Claim, R!Gift, R!history
<1>6. ASSUME NEW o \in Orders, R!Wallet(o) \/ R!Coupon(o) \/ R!Referral(o) \/ R!Credit(o)
      PROVE  CountInv' /\ RoomInv'
  <2>1. /\ Quiet /\ crowded' = crowded
        /\ tx'[o].coupon = tx[o].coupon /\ tx'[o].gift = tx[o].gift
        /\ \A p \in Orders \ {o} : tx'[p] = tx[p]
    <3>1. CASE R!Credit(o)
      BY <1>1, <3>1, CreditStep
    <3>2. CASE R!Wallet(o) \/ R!Coupon(o) \/ R!Referral(o)
      BY <1>1, <3>2, EarlySteps
    <3> QED
      BY <1>6, <3>1, <3>2
  <2>2. \A p \in Orders : R!Plain(p)' => R!Plain(p)
    BY <2>1 DEF R!Plain
  <2> QED
    BY <1>2, <2>1, <2>2 DEF Quiet
<1>7. ASSUME NEW o \in Orders, R!Abort(o) PROVE CountInv' /\ RoomInv'
  <2>1. R!Ends(o) /\ UNCHANGED <<redeemed, coupon, undo, onGift, crowded>>
    BY <1>7, Zenon DEF R!Abort, R!history
  <2>2. tx'[o] = R!Idle /\ \A p \in Orders \ {o} : tx'[p] = tx[p]
    BY <1>1, <2>1, Ending
  <2>3. \A p \in Orders : R!Plain(p)' => R!Plain(p)
    BY <2>2 DEF R!Plain, R!Idle
  <2> QED
    BY <1>2, <2>1, <2>3
<1>8. ASSUME NEW o \in Orders, R!Cancel(o) \/ R!Undoing(o) \/ R!Cut(o) PROVE CountInv' /\ RoomInv'
  <2>1. tx' = tx /\ UNCHANGED <<onGift, crowded>>
    BY <1>8, Zenon DEF R!Cancel, R!Undoing, R!Cut, R!DropRedemption, R!Uncount, R!ClawBack, R!Debit, R!Reopen, R!db, R!history
  <2>2. CountInv' /\ (redeemed \ onGift)' \subseteq redeemed \ onGift
    BY <1>8, <2>1, UndoCount
  <2>3. \A p \in Orders : R!Plain(p)' => R!Plain(p)
    BY <2>1 DEF R!Plain
  <2> QED
    BY <1>1, <2>1, <2>2, <2>3, RoomStays
<1> QED
  BY <1>4, <1>5, <1>6, <1>7, <1>8, BeginUses, CommitUses DEF R!Next, R!Checkout

----------------------------------------------------------------------------
(* The theorem.                                                            *)

\* Nothing is placed, earned, used or given at first.
LEMMA BooksOpen == R!Init => RewardInv /\ CouponInv /\ CountInv /\ RoomInv
<1> SUFFICES ASSUME R!Init PROVE RewardInv /\ CouponInv /\ CountInv /\ RoomInv
  OBVIOUS
<1>1. /\ status = [o \in Orders |-> "none"] /\ tx = [o \in Orders |-> R!Idle]
      /\ friend = [u \in Users |-> R!NoReferral] /\ redeemed = {} /\ gift = [u \in Users |-> "none"]
      /\ undo = [o \in Orders |-> "none"] /\ ledger = [e \in R!Kinds \X Orders |-> 0]
      /\ gifted = [u \in Users |-> 0]
      /\ coupon \in {[used |-> 0, user |-> limit.user, all |-> limit.all] : limit \in Limits}
  BY DEF R!Init
<1>2. R!Idle \in TxType /\ R!NoReferral \in [by : Users \cup {"nobody"}, converted : BOOLEAN]
  BY DEF R!Idle, R!NoReferral, TxType
<1>10. coupon \in [used : Nat, user : Nat, all : Nat] /\ coupon.used = 0
  BY <1>1, RewardsAssumption
<1>3. BookTypes
  BY <1>1, <1>2, <1>10, FS_EmptySet DEF BookTypes, Undoings
<1>4. \A o \in Orders : /\ status[o] = "none" /\ tx[o] = R!Idle /\ undo[o] = "none"
                        /\ ~ R!InFlight(o) /\ \A k \in R!Kinds : ledger[<<k, o>>] = 0
  BY <1>1 DEF R!InFlight
<1>5. "reward" \in R!Kinds /\ "reversal" \in R!Kinds /\ "milestone" \in R!Kinds
  BY DEF R!Kinds
<1>6. \A o \in Orders : Written(o) /\ Earns(o) /\ ~ Rewarded(o)
  BY <1>4, <1>5 DEF Written, Earns, Rewarded, R!Idle
<1>7. OneReward /\ OneMilestone
  BY <1>4, <1>5, <1>6 DEF OneReward, OneMilestone
<1>8. ASSUME NEW u \in Users
      PROVE  gift[u] # "unused" /\ UsedBy(u) = 0 /\ Unused(u) = 0 /\ gifted[u] = 0 /\ coupon.user \in Nat
  <2>1. UsesOf(u) = {}
    BY <1>1 DEF UsesOf
  <2>2. UsedBy(u) = 0
    BY <1>3, <2>1, UsesAre, FS_EmptySet
  <2> QED
    BY <1>1, <1>10, <2>2 DEF Unused
<1>9. CouponInv
  BY <1>4, <1>8 DEF CouponInv
<1>11. CountInv
  <2>1. Booked = {}
    BY <1>1, <1>4 DEF Booked
  <2> QED
    BY <1>1, <1>10, <2>1, FS_EmptySet DEF CountInv
<1>12. RoomInv
  <2>1. redeemed \ onGift = {} /\ coupon.all \in Nat
    BY <1>1, <1>10
  <2>2. Cardinality(redeemed \ onGift) = 0
    BY <2>1, FS_EmptySet
  <2>3. \A o \in Orders : ~ R!Plain(o)
    BY <1>4 DEF R!Plain, R!Idle
  <2> QED
    BY <2>1, <2>2, <2>3 DEF RoomInv
<1> QED
  BY <1>3, <1>6, <1>7, <1>9, <1>11, <1>12 DEF RewardInv, Books

\* A set no two elements of which differ.
LEMMA AtMostOne ==
  ASSUME NEW S, \A x, y \in S : x = y
  PROVE  Cardinality(S) <= 1
<1>1. CASE S = {}
  BY <1>1, FS_EmptySet
<1>2. ASSUME NEW x \in S PROVE Cardinality(S) <= 1
  <2>1. S = {x}
    BY <1>2
  <2> QED
    BY <2>1, FS_Singleton
<1> QED
  BY <1>1, <1>2

LEMMA LimitsFollow == RewardInv /\ CouponInv /\ RoomInv => RewardsWithinLimits
<1> SUFFICES ASSUME RewardInv, CouponInv, RoomInv PROVE RewardsWithinLimits
  OBVIOUS
<1>1. BookTypes /\ R!Kinds = Kinds
  BY DEF RewardInv, Books, R!Kinds, Kinds
<1>2. ASSUME NEW u \in Users
      PROVE  Cardinality({o \in {e \in Orders : Owner[e] = u} : ledger[<<"reward", o>>] > ledger[<<"reversal", o>>]}) <= 1
  <2> DEFINE S == {o \in {e \in Orders : Owner[e] = u} : ledger[<<"reward", o>>] > ledger[<<"reversal", o>>]}
  <2>1. \A x, y \in S : x = y
    BY DEF RewardInv, OneReward, Rewarded
  <2> QED
    BY <2>1, AtMostOne
<1>3. ASSUME NEW u \in Users PROVE Cardinality(Entries("milestone", u)) <= 1
  <2>1. \A x, y \in Entries("milestone", u) : x = y
    BY DEF RewardInv, OneMilestone, Entries
  <2> QED
    BY <2>1, AtMostOne
<1>4. ASSUME NEW e \in Kinds \X Orders PROVE ledger[e] <= 1
  <2>1. PICK k \in Kinds, o \in Orders : e = <<k, o>>
    OBVIOUS
  <2>2. Written(o)
    BY DEF RewardInv, Books
  <2> QED
    BY <1>1, <2>1, <2>2 DEF Written
<1>5. CouponWithinLimit
  <2>1. ASSUME coupon.user > 0, NEW u \in Users \ raced PROVE UsedBy(u) <= coupon.user + gifted[u]
    <3>1. UsedBy(u) + Unused(u) <= coupon.user + gifted[u]
      BY <2>1 DEF CouponInv
    <3>2. UsedBy(u) \in Nat /\ Unused(u) \in Nat /\ coupon.user \in Nat /\ gifted[u] \in Nat
      BY <1>1, UsesAre DEF BookTypes, Unused
    <3> QED
      BY <3>1, <3>2
  <2> QED
    BY <2>1 DEF CouponWithinLimit, RoomInv
<1> QED
  BY <1>2, <1>3, <1>4, <1>5 DEF RewardsWithinLimits, PaidOnce

\* A friend's reward and milestone are paid once; a customer uses a coupon within
\* the customer's limit, unless two of its checkouts overlap, and all together
\* within the coupon's, unless two overlap that use it without a gift.
THEOREM RewardsStayWithinLimits == R!Spec => []RewardsWithinLimits
<1> DEFINE I == RewardInv /\ CouponInv /\ CountInv /\ RoomInv
<1>1. I /\ [R!Next]_R!vars => I'
  BY RewardsInductive, CouponInductive, UsesInductive
<1> QED
  BY <1>1, BooksOpen, LimitsFollow, PTL DEF R!Spec

=============================================================================

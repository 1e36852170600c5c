------------------------------ MODULE Rewards ------------------------------
(***************************************************************************)
(* What an order earns and spends besides money: a friend's referral       *)
(* reward and its milestone, and a coupon, gifted or not (checkout and      *)
(* refundOnCancel of orders.service.ts; the referrals and the coupon       *)
(* assignments services).                                                  *)
(*                                                                         *)
(* A checkout is a transaction: it sees what is committed and what it      *)
(* wrote itself, and keeps the lock of every row it writes until it ends.  *)
(* Checkouts that wait for each other in a circle are broken up by         *)
(* PostgreSQL, which aborts one.  A cancellation is a list of statements   *)
(* of their own; two of the same order race in Refunds.                    *)
(***************************************************************************)
EXTENDS RewardBooks, Functions

CONSTANTS
  MaxGifts,    \* bounds: gifts, cancellations,
  MaxCancelled,
  MaxCuts      \*   and cancellations that break off

VARIABLES
  status,   \* per order: "none", "placed", "cancelled", or "refused" (no row)
  tx,       \* per order: its checkout's transaction, or Idle
  held,     \* locked rows: <<table, key>> -> the order of the checkout
  gift,     \* per user: its row of coupon_assignments: "none", "unused", "used"
  undo,     \* per order: what its cancellation does next
  cuts

db == <<status, friend, redeemed, coupon, gift, ledger>>
history == <<gifted, onGift, raced, crowded>>
vars == <<db, tx, held, undo, history, cuts>>

Idle == [step |-> "idle", wallet |-> FALSE, coupon |-> FALSE, gift |-> FALSE,
         reward |-> FALSE, milestone |-> FALSE]

NoReferral == [by |-> "nobody", converted |-> FALSE]

Init ==
  /\ status = [o \in Orders |-> "none"] /\ tx = [o \in Orders |-> Idle]
  /\ held = [r \in {} |-> ""]
  /\ friend = [u \in Users |-> NoReferral]
  /\ redeemed = {} /\ gift = [u \in Users |-> "none"]
  /\ coupon \in {[used |-> 0, user |-> limit.user, all |-> limit.all] : limit \in Limits}
  /\ undo = [o \in Orders |-> "none"]
  /\ ledger = [e \in Kinds \X Orders |-> 0]
  /\ gifted = [u \in Users |-> 0] /\ onGift = {} /\ raced = {}
  /\ crowded = FALSE /\ cuts = 0

----------------------------------------------------------------------------
(* Rows and locks.                                                         *)

UserRow(u) == <<"users", u>>
ReferralRow(u) == <<"referrals", u>>
CouponRow == <<"coupons", "one">>

Free(r) == r \notin DOMAIN held

Mine(o, r) == r \in DOMAIN held => held[r] = o

Locked(o, r) == [s \in DOMAIN held \cup {r} |-> IF s = r THEN o ELSE held[s]]

Released(o) == [s \in {r \in DOMAIN held : held[r] # o} |-> held[s]]

\* Rows of orders and wallet_transactions a checkout sees.
Earlier(o) == {p \in Orders \ {o} : Owner[p] = Owner[o] /\ status[p] \in {"placed", "cancelled"}}

Referred(u) == {v \in Users : friend[v].by = u}

----------------------------------------------------------------------------
(* Before an order.                                                        *)

\* referrals.claim: before the first order, a code of somebody else's, once.
Claim(u) ==
  /\ friend[u] = NoReferral
  /\ \A o \in Orders : Owner[o] = u => status[o] = "none"
  /\ \E v \in Codes[u] \ {u} : friend' = [friend EXCEPT ![u] = [by |-> v, converted |-> FALSE]]
  /\ UNCHANGED <<status, redeemed, coupon, gift, ledger, tx, held, undo, history, cuts>>

\* coupon-assignments.create: a new row, or a used one reset.
Gift(u) ==
  /\ gift[u] # "unused" /\ FoldFunction(+, 0, gifted) < MaxGifts
  /\ gift' = [gift EXCEPT ![u] = "unused"]
  /\ gifted' = [gifted EXCEPT ![u] = @ + 1]
  /\ UNCHANGED <<status, friend, redeemed, coupon, ledger, tx, held, undo, onGift, raced, crowded, cuts>>

----------------------------------------------------------------------------
(* Checkout.                                                               *)

At(o, step) == tx[o].step = step

Step(o, step) == tx' = [tx EXCEPT ![o].step = step]

InFlight(o) == tx[o] # Idle

\* computeCouponDiscount, as far as limits go: a gift passes them.  Here with
\* limits one too generous.
BugMayUse(u) ==
  \/ gift[u] = "unused"
  \/ /\ coupon.all > 0 => coupon.used <= coupon.all
     /\ coupon.user > 0 => UsedBy(u) <= coupon.user

MayUse(u) ==
  \/ gift[u] = "unused"
  \/ /\ coupon.all > 0 => coupon.used < coupon.all
     /\ coupon.user > 0 => UsedBy(u) < coupon.user

\* A checkout under way that uses the coupon without a gift.
Plain(o) == tx[o].coupon /\ ~ tx[o].gift

\* The coupon, the gift and its limits are read, and no row is locked for it.
Begin(o) ==
  /\ status[o] = "none" /\ ~ InFlight(o)
  /\ \E plan \in Plans :
       /\ plan.coupon => MayUse(Owner[o])
       /\ tx' = [tx EXCEPT ![o] = [Idle EXCEPT !.step = IF plan.wallet THEN "wallet" ELSE "coupon",
                                    !.wallet = plan.wallet, !.coupon = plan.coupon,
                                    !.gift = plan.coupon /\ gift[Owner[o]] = "unused"]]
       /\ crowded' = (crowded \/ (/\ plan.coupon /\ gift[Owner[o]] # "unused"
                                  /\ \E p \in Orders : Plain(p)))
  /\ raced' = raced \cup {Owner[p] : p \in {q \in Orders : InFlight(q) /\ Owner[q] = Owner[o]}}
  /\ UNCHANGED <<db, held, undo, gifted, onGift, cuts>>

\* SELECT wallet_balance ... FOR UPDATE.
Wallet(o) ==
  /\ At(o, "wallet") /\ Mine(o, UserRow(Owner[o]))
  /\ held' = Locked(o, UserRow(Owner[o]))
  /\ Step(o, "coupon")
  /\ UNCHANGED <<db, undo, history, cuts>>

\* UPDATE coupons SET used_count ..., and the gift is burnt.
Coupon(o) ==
  /\ At(o, "coupon")
  /\ IF tx[o].coupon THEN Mine(o, CouponRow) /\ held' = Locked(o, CouponRow)
     ELSE UNCHANGED held
  /\ Step(o, "referral")
  /\ UNCHANGED <<db, undo, history, cuts>>

Pending(u) == friend[u] # NoReferral /\ ~ friend[u].converted

\* SELECT ... FROM referrals ... FOR UPDATE, then the count of earlier orders.
Referral(o) ==
  /\ At(o, "referral")
  /\ IF Pending(Owner[o])
     THEN /\ Mine(o, ReferralRow(Owner[o]))
          /\ held' = Locked(o, ReferralRow(Owner[o]))
          /\ Step(o, IF Earlier(o) = {} THEN "credit" ELSE "commit")
     ELSE UNCHANGED held /\ Step(o, "commit")
  /\ UNCHANGED <<db, undo, history, cuts>>

\* A bonus paid again with every further friend.
BugEarnsMilestone(u, conversions) == conversions >= MilestoneN

EarnsMilestone(u, conversions) == conversions >= MilestoneN /\ Entries("milestone", u) = {}

\* The reward goes to the friend's wallet, whose row is locked from here on;
\* under that lock the conversions are counted and the bonus looked for.
Credit(o) ==
  /\ At(o, "credit")
  /\ LET by == friend[Owner[o]].by
         conversions == Cardinality({v \in Referred(by) : friend[v].converted}) + 1
     IN  /\ Mine(o, UserRow(by)) /\ held' = Locked(o, UserRow(by))
         /\ tx' = [tx EXCEPT ![o].reward = TRUE, ![o].step = "commit",
                             ![o].milestone = EarnsMilestone(by, conversions)]
  /\ UNCHANGED <<db, undo, history, cuts>>

\* A transaction that ends without giving its rows back.
BugEnds(o) == held' = held /\ tx' = [tx EXCEPT ![o] = Idle]

Ends(o) == held' = Released(o) /\ tx' = [tx EXCEPT ![o] = Idle]

\* The points go to the customer's own row, and COMMIT.
Commit(o) ==
  /\ At(o, "commit") /\ Mine(o, UserRow(Owner[o]))
  /\ status' = [status EXCEPT ![o] = "placed"]
  /\ redeemed' = IF tx[o].coupon THEN redeemed \cup {o} ELSE redeemed
  /\ coupon' = IF tx[o].coupon THEN [coupon EXCEPT !.used = @ + 1] ELSE coupon
  /\ gift' = IF tx[o].gift THEN [gift EXCEPT ![Owner[o]] = "used"] ELSE gift
  /\ onGift' = IF tx[o].gift THEN onGift \cup {o} ELSE onGift
  /\ friend' = IF tx[o].reward THEN [friend EXCEPT ![Owner[o]].converted = TRUE] ELSE friend
  /\ ledger' = [e \in DOMAIN ledger |->
                  IF (e = <<"reward", o>> /\ tx[o].reward) \/ (e = <<"milestone", o>> /\ tx[o].milestone)
                  THEN ledger[e] + 1 ELSE ledger[e]]
  /\ Ends(o)
  /\ UNCHANGED <<undo, gifted, raced, crowded, cuts>>

----------------------------------------------------------------------------
(* PostgreSQL's deadlock detector.                                         *)

\* The row a checkout needs next.
Needs(o) ==
  CASE At(o, "wallet") \/ At(o, "commit") -> {UserRow(Owner[o])}
    [] At(o, "coupon")   -> IF tx[o].coupon THEN {CouponRow} ELSE {}
    [] At(o, "referral") -> IF Pending(Owner[o]) THEN {ReferralRow(Owner[o])} ELSE {}
    [] At(o, "credit")   -> {UserRow(friend[Owner[o]].by)}
    [] OTHER -> {}

WaitsFor(o) == {held[r] : r \in Needs(o) \cap DOMAIN held} \ {o}

\* Checkouts each of which waits for another of them.
Circle(S) == \A o \in S : WaitsFor(o) # {} /\ WaitsFor(o) \subseteq S

\* One of them is aborted: the customer sees an error, and may try again
\* with another order.
Abort(o) ==
  /\ \E S \in SUBSET Orders : o \in S /\ Circle(S)
  /\ status' = [status EXCEPT ![o] = "refused"]
  /\ Ends(o)
  /\ UNCHANGED <<friend, redeemed, coupon, gift, ledger, undo, history, cuts>>

----------------------------------------------------------------------------
(* After the order.                                                        *)

Undo(o, step) == undo' = [undo EXCEPT ![o] = step]

Cancel(o) ==
  /\ status[o] = "placed" /\ Cardinality({p \in Orders : status[p] = "cancelled"}) < MaxCancelled
  /\ status' = [status EXCEPT ![o] = "cancelled"]
  /\ Undo(o, "redemption")
  /\ UNCHANGED <<friend, redeemed, coupon, gift, ledger, tx, held, history, cuts>>

\* DELETE ... RETURNING; the gift stays used.
DropRedemption(o) ==
  /\ undo[o] = "redemption"
  /\ redeemed' = redeemed \ {o}
  /\ Undo(o, IF o \in redeemed THEN "count" ELSE "rewards")
  /\ UNCHANGED <<status, friend, coupon, gift, ledger, tx, held, history, cuts>>

Uncount(o) ==
  /\ undo[o] = "count" /\ Free(CouponRow)
  /\ coupon' = [coupon EXCEPT !.used = IF @ > 0 THEN @ - 1 ELSE 0]
  /\ Undo(o, "rewards")
  /\ UNCHANGED <<status, friend, redeemed, gift, ledger, tx, held, history, cuts>>

\* A reward this order paid is taken out of the friend's wallet, ...
ClawBack(o) ==
  /\ undo[o] = "rewards"
  /\ IF ledger[<<"reward", o>>] > 0
     THEN Free(UserRow(friend[Owner[o]].by)) /\ Undo(o, "debit") ELSE Undo(o, "done")
  /\ UNCHANGED <<db, tx, held, history, cuts>>

\* ... the debit written down, ...
Debit(o) ==
  /\ undo[o] = "debit"
  /\ ledger' = [ledger EXCEPT ![<<"reversal", o>>] = @ + 1]
  /\ Undo(o, "reopen")
  /\ UNCHANGED <<status, friend, redeemed, coupon, gift, tx, held, history, cuts>>

\* ... and the referral opened again (the milestone stays).
Reopen(o) ==
  /\ undo[o] = "reopen" /\ Free(ReferralRow(Owner[o]))
  /\ friend' = [friend EXCEPT ![Owner[o]].converted = FALSE]
  /\ Undo(o, "done")
  /\ UNCHANGED <<status, redeemed, coupon, gift, ledger, tx, held, history, cuts>>

\* The cancellation stops between two statements.
Cut(o) ==
  /\ undo[o] \notin {"none", "done"} /\ cuts < MaxCuts
  /\ cuts' = cuts + 1
  /\ Undo(o, "done")
  /\ UNCHANGED <<db, tx, held, history>>

----------------------------------------------------------------------------
Checkout(o) ==
  \/ Wallet(o) \/ Coupon(o) \/ Referral(o) \/ Credit(o) \/ Commit(o)
  \/ Abort(o)

Undoing(o) ==
  \/ DropRedemption(o) \/ Uncount(o) \/ ClawBack(o) \/ Debit(o) \/ Reopen(o)

Next ==
  \/ \E u \in Users : Claim(u) \/ Gift(u)
  \/ \E o \in Orders : Begin(o) \/ Checkout(o)
  \/ \E o \in Orders : Cancel(o) \/ Undoing(o) \/ Cut(o)

\* Statements that wait for nothing end, and the detector looks for circles.
Spec == Init /\ [][Next]_vars /\ WF_vars(\E o \in Orders : Checkout(o))

----------------------------------------------------------------------------
(* Properties.                                                             *)

\* No checkout hangs, those that wait for each other neither: of the finitely
\* many orders none stays in flight.
EveryCheckoutEnds == []<>(\A o \in Orders : ~ InFlight(o))
=============================================================================

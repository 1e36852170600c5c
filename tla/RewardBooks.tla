---------------------------- MODULE RewardBooks ----------------------------
(***************************************************************************)
(* What the books say of rewards: referrals, the wallet's ledger and the   *)
(* uses of a coupon (orders.service.ts, refundOnCancel and checkout), for  *)
(* which customers and limits, and what must hold.  Rewards says when they *)
(* change.                                                                 *)
(***************************************************************************)
EXTENDS Integers, FiniteSets

CONSTANTS
  Users,
  Orders,      \* orders that may be placed
  Owner,       \* instance: the user of each
  Codes,       \* instance: the users whose codes each has been told
  Plans,       \* instance: what a checkout uses: wallet, coupon
  MilestoneN,  \* MILESTONE_N
  Limits       \* instance: per_user_limit and usage_limit of the coupon; 0 is none

ASSUME RewardsAssumption ==
  /\ Owner \in [Orders -> Users] /\ Codes \in [Users -> SUBSET Users]
  /\ Plans \subseteq [wallet : BOOLEAN, coupon : BOOLEAN]
  /\ MilestoneN \in Nat \ {0} /\ Limits \subseteq [user : Nat, all : Nat]

VARIABLES
  friend,   \* per user: its row of referrals: who referred it, converted
  redeemed, \* orders with a row in coupon_redemptions
  coupon,   \* its row of coupons: used_count, and the two limits
  ledger,   \* wallet_transactions: entries per kind and order
  gifted,   \* history variable: gifts ever given, per user
  onGift,   \* history variable: orders that spent a gift
  raced,    \* history variable: users two of whose checkouts overlapped
  crowded   \* history variable: two checkouts overlapped that used the coupon
            \*   without a gift

Kinds == {"reward", "reversal", "milestone"}

Entries(kind, u) ==
  {o \in Orders : ledger[<<kind, o>>] > 0 /\ friend[Owner[o]].by = u}

\* computeCouponDiscount, as far as limits go.
UsedBy(u) == Cardinality({o \in redeemed : Owner[o] = u})

\* A friend brings one reward at a time, however many first orders are placed
\* and cancelled; the milestone is paid once, whoever converts at the same
\* moment; a reward is taken back at most once.
PaidOnce ==
  /\ \A u \in Users :
       LET orders == {o \in Orders : Owner[o] = u}
       IN  Cardinality({o \in orders : ledger[<<"reward", o>>] > ledger[<<"reversal", o>>]}) <= 1
  /\ \A u \in Users : Cardinality(Entries("milestone", u)) <= 1
  /\ \A e \in Kinds \X Orders : ledger[e] <= 1

\* A customer's live uses of the coupon stay within its limit and what was
\* given; two checkouts at once read the same gift and the same count.  So do
\* those of all customers that were not given, whatever is cancelled: uses are
\* counted before one more is let in, and uncounted after they are dropped.
CouponWithinLimit ==
  /\ coupon.user > 0 => \A u \in Users \ raced : UsedBy(u) <= coupon.user + gifted[u]
  /\ coupon.all > 0 /\ ~ crowded => Cardinality(redeemed \ onGift) <= coupon.all

\* An order earns its reward and its milestone once, and coupons are used as
\* often as their limits and gifts allow.
RewardsWithinLimits == PaidOnce /\ CouponWithinLimit
=============================================================================

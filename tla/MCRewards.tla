----------------------------- MODULE MCRewards -----------------------------
(* Instances of Rewards for TLC.                                            *)
EXTENDS Rewards, TLC

CONSTANTS u1, u2, u3, o1, o2, o3, o4

MCOwner3 == (o1 :> u1) @@ (o3 :> u3) @@ (o4 :> u3)

\* One customer has two orders.
MCOwner == (o1 :> u1) @@ (o2 :> u2) @@ (o3 :> u3) @@ (o4 :> u3)

Plan(w, c) == [wallet |-> w, coupon |-> c]

\* Two customers who have been told the code of a third.
MCCodes == (u1 :> {u2}) @@ (u2 :> {}) @@ (u3 :> {u2})

\* Two coupons: one for each customer, and one for whoever is first.
MCLimits == {[user |-> 1, all |-> 0], [user |-> 0, all |-> 1]}

MCPlans == {Plan(TRUE, TRUE), Plan(FALSE, FALSE)}
=============================================================================

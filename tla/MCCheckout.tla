----------------------------- MODULE MCCheckout -----------------------------
(* Instances of Checkout for TLC.                                          *)
EXTENDS Checkout, TLC

\* A thali paid online, the dish paid online with wallet and coupon and sent
\* far away, the dish in cash, and a thali in cash with the wallet, sent next
\* door.
MCWants ==
  {[dish |-> FALSE, online |-> TRUE, wallet |-> FALSE, coupon |-> FALSE, fee |-> 1],
   [dish |-> TRUE, online |-> TRUE, wallet |-> TRUE, coupon |-> TRUE, fee |-> 5],
   [dish |-> TRUE, online |-> FALSE, wallet |-> FALSE, coupon |-> FALSE, fee |-> 1],
   [dish |-> FALSE, online |-> FALSE, wallet |-> TRUE, coupon |-> FALSE, fee |-> 0]}

MCPrices == {4, 6}

Symmetry == Permutations(Carts) \cup Permutations(Requests)
=============================================================================

----------------------------- MODULE MCDispatch -----------------------------
(* Instances of Dispatch for TLC. *)
EXTENDS Dispatch

Order(at, ready, promise, cod) == [at |-> at, ready |-> ready, promise |-> promise, cod |-> cod]

\* Near and far, on both sides; soon, late already, without a promise.
MCOrders == {Order(1, 0, 15, 1), Order(2, 4, NoPromise, 1), Order(3, 4, 40, 0), Order(-2, 3, 10, 0)}

Rider(capacity, online, away, back, headroom) ==
  [capacity |-> capacity, online |-> online, away |-> away, back |-> back, headroom |-> headroom]

\* At the kitchen, on the way back, offline; with and without room for cash.
MCRiders == {Rider(2, TRUE, FALSE, 0, 1), Rider(3, TRUE, TRUE, 7, 2), Rider(1, TRUE, FALSE, 0, 0),
             Rider(2, FALSE, FALSE, 0, 2)}

\* An order for later, a rider who waits at the kitchen, one who is a bit late.
LateOrders == {Order(1, 25, NoPromise, 0), Order(2, 20, NoPromise, 0)}
LateRiders == {Rider(2, TRUE, FALSE, 0, 1), Rider(2, TRUE, TRUE, 31, 1), Rider(1, TRUE, TRUE, 26, 1)}

Symmetry == Permutations(Riders) \cup Permutations(Ids)
=============================================================================

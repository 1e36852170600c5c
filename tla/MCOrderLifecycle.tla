------------------------- MODULE MCOrderLifecycle --------------------------
(* Instances of OrderLifecycle for TLC: the configurations choose the      *)
(* riders and the number of requests in flight, which are alike.           *)
EXTENDS OrderLifecycle, TLC

RequestSymmetry == Permutations(Requests)
=============================================================================

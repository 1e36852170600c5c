----------------------------- MODULE MCRefunds -----------------------------
(* Instances of Refunds for TLC.  Requests are interchangeable.            *)
EXTENDS Refunds, TLC

RequestSymmetry == Permutations(Requests)
=============================================================================

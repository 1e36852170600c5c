------------------------- MODULE MCDoorstepPayment -------------------------
(* Instances of DoorstepPayment for TLC.  The requests are interchangeable *)
(* and no run checks liveness, so their symmetry is sound.                 *)
EXTENDS DoorstepPayment, TLC

RequestSymmetry == Permutations(Requests)
=============================================================================

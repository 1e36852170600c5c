------------------------------ MODULE MCTrips ------------------------------
(* Instances of Trips for TLC.  Orders are interchangeable, so are requests. *)
EXTENDS Trips, TLC

Symmetry == Permutations(Orders) \cup Permutations(Riders) \cup Permutations(Requests)
=============================================================================

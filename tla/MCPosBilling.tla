--------------------------- MODULE MCPosBilling ---------------------------
(* Instances of PosBilling for TLC.  Tills, outlets and codes are          *)
(* interchangeable, no property names one, and none is a liveness          *)
(* property: their symmetry is sound.                                      *)
EXTENDS PosReports, TLC

Symmetry == Permutations(Tills) \cup Permutations(Outlets) \cup Permutations(Codes)

\* All business days are in one financial year.
OneYear == [d \in 1 .. LastDay |-> "26-27"]

\* Amounts no two sets of bills share.
Totals == [n \in 1 .. SeriesCap |-> 10 ^ n]
=============================================================================

--------------------------- MODULE OrderPromise ----------------------------
(***************************************************************************)
(* What the order lifecycle promises whatever requests race: the order     *)
(* ends at most once, and it is delivered only after the kitchen has       *)
(* packed it and, unless the customer collects it, after it has left.      *)
(***************************************************************************)
CONSTANT Kinds   \* the kinds of order; "delivery" ones must leave the kitchen

VARIABLES kind, packed, left, outcome

vars == <<kind, packed, left, outcome>>

Init ==
  /\ kind \in Kinds
  /\ packed = FALSE
  /\ left = FALSE
  /\ outcome = "open"

\* The kitchen marks the food ready.
Pack ==
  /\ outcome = "open"
  /\ packed' = TRUE
  /\ UNCHANGED <<kind, left, outcome>>

\* The food goes out with a rider or a courier.
Leave ==
  /\ outcome = "open"
  /\ kind = "delivery"
  /\ packed
  /\ left' = TRUE
  /\ UNCHANGED <<kind, packed, outcome>>

\* The customer has the food.
Deliver ==
  /\ outcome = "open"
  /\ packed
  /\ kind = "delivery" => left
  /\ outcome' = "delivered"
  /\ UNCHANGED <<kind, packed, left>>

Cancel ==
  /\ outcome = "open"
  /\ outcome' = "cancelled"
  /\ UNCHANGED <<kind, packed, left>>

Next == Pack \/ Leave \/ Deliver \/ Cancel

Spec == Init /\ [][Next]_vars
=============================================================================

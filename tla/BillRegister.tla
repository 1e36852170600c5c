--------------------------- MODULE BillRegister ---------------------------
(***************************************************************************)
(* What a counter's bill book promises the tax office: per series a list   *)
(* of bills that only grows at its end, and in which a bill may be struck  *)
(* out but never removed, replaced or revived.                             *)
(***************************************************************************)
EXTENDS Naturals, Sequences

CONSTANT Series   \* one per outlet and financial year

VARIABLE book     \* series -> statuses of its bills, in the order of their numbers

Init == book = [s \in Series |-> << >>]

Issue(s) == book' = [book EXCEPT ![s] = Append(@, "paid")]

Strike(s, n) ==
  /\ n \in DOMAIN book[s]
  /\ book[s][n] = "paid"
  /\ book' = [book EXCEPT ![s][n] = "cancelled"]

Next == \E s \in Series : Issue(s) \/ \E n \in DOMAIN book[s] : Strike(s, n)

Spec == Init /\ [][Next]_book
=============================================================================

------------------------------ MODULE MCWatch ------------------------------
(* Instances of Watch for TLC: a morning that turns into lunch time.        *)
EXTENDS Watch

Item(prep, quantity) == [prep |-> prep, quantity |-> quantity]
Cart(items, km, pickup) == [items |-> items, km |-> km, pickup |-> pickup]

MCCarts ==
  {Cart(<<Item(15, 1), Item(0, 3)>>, 1, FALSE), Cart(<<Item(5, 1)>>, NoKm, FALSE),
            Cart(<<>>, 0, TRUE)}

\* Forty minutes on everything is overdue; after six hours more the alerts have
\* ended, which a known way to the door does not change.
MCMoments == [c \in MCCarts |-> IF c.km > 0 THEN {40} ELSE {40, 400}]

Delivery(hour, accepted, ready, picked, delivered, km, stops) ==
  [hour |-> hour, placed |-> 0, accepted |-> accepted, ready |-> ready, picked |-> picked,
   delivered |-> delivered, estimate |-> 20, km |-> km, stops |-> stops]

Slow  == Delivery(11, 8, 40, 50, 80, 3, 1)
Quick == Delivery(11, 1, 13, 14, 20, 2, 2)
Early == Delivery(9, 2, 20, 26, 38, 2, 0)

\* Deliveries of which some cannot be measured.
MCHistories == {<<Slow, Quick, Early, Quick, Delivery(11, NoTime, 30, NoTime, 95, 0, 1)>>}

\* A shop that leaves most settings alone, and one of them broken.
MCSaved == [k \in {"prepStep", "prepStepCap", "kitchenParallel", "queuePerOrder", "accept",
                   "handoff", "kmph", "rangeWidth", "delayAlert"} |->
              CASE k = "kitchenParallel" -> 0
                [] k = "delayAlert" -> Junk
                [] k = "handoff" -> 1
                [] OTHER -> Absent]

\* The same shop with a range seven minutes wide.
MCNarrow == [MCSaved EXCEPT !.rangeWidth = 7]
=============================================================================

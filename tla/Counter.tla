------------------------------- MODULE Counter -------------------------------
(***************************************************************************)
(* What a counter charges: an outlet's rate list (a row only where it      *)
(* differs from the website), the till's menu, and the lines of a bill;    *)
(* and whether the outlet hands out online orders.  The bill's number,     *)
(* token and day are PosBilling's.  Pure operators.                        *)
(***************************************************************************)
EXTENDS Money

\* The rate of a row that keeps the website's: NULL in the table.
WebsiteRate == 0

----------------------------------------------------------------------------
(* The rate list.  rates: dish -> row of outlet_prices.                    *)

\* One entry of the list: on sale at the website's rate needs no row.
SaveRate(rates, e) ==
  LET rate == IF e.rate <= 0 THEN WebsiteRate ELSE e.rate
      others == DOMAIN rates \ {e.dish}
  IN IF rate = WebsiteRate /\ e.onSale THEN [d \in others |-> rates[d]]
     ELSE [d \in others \cup {e.dish} |->
             IF d = e.dish THEN [rate |-> rate, onSale |-> e.onSale] ELSE rates[d]]

SaveRates(rates, list) ==
  LET after[n \in 0 .. Len(list)] == IF n = 0 THEN rates ELSE SaveRate(after[n - 1], list[n])
  IN after[Len(list)]

\* Another outlet's list replaces this one's.
CopyRates(lists, outlet, from) == [lists EXCEPT ![outlet] = lists[from]]

RateOf(rates, d) == IF d \in DOMAIN rates THEN rates[d].rate ELSE WebsiteRate

Offered(rates, d) == d \in DOMAIN rates => rates[d].onSale

----------------------------------------------------------------------------
(* The till and its bills.                                                 *)

\* COALESCE(outlet rate, website price).
CounterPrice(rates, d) == IF RateOf(rates, d) = WebsiteRate THEN UnitPrice(d) ELSE RateOf(rates, d)

\* A dish that is switched off, not sold here or worth nothing is not shown.
Menu(rates, dishes) ==
  {[dish |-> d, price |-> CounterPrice(rates, d)] :
     d \in {x \in dishes : x.active /\ Offered(rates, x) /\ CounterPrice(rates, x) > 0}}

MaxQuantity == 999

\* Repeats of a dish are merged into one line.
Quantity(entries, d) ==
  SumFunction([i \in {j \in DOMAIN entries : entries[j].dish = d} |-> entries[i].qty])

\* createBill prices from the tables, never from the till: a dish that went
\* off sale meanwhile fails the bill.
BillLines(rates, entries) ==
  {[dish |-> d, qty |-> Quantity(entries, d), price |-> CounterPrice(rates, d)] :
     d \in {entries[i].dish : i \in DOMAIN entries}}

BillAccepted(rates, entries) ==
  \A l \in BillLines(rates, entries) :
    l.dish.active /\ Offered(rates, l.dish) /\ l.price > 0 /\ l.qty <= MaxQuantity

BillSubtotal(rates, entries) ==
  SumFunction([l \in BillLines(rates, entries) |-> l.qty * l.price])

----------------------------------------------------------------------------
(* Online orders collected at the counter.                                 *)

\* pickupOutlet: switched on for takeaway, from its first day on.
HandsOut(outlet, today) == outlet.active /\ outlet.takeaway /\ outlet.opensOn <= today

----------------------------------------------------------------------------
(* What the rate list, the menu and a bill tell of each other.             *)

\* Each dish is left as the last entry for it says.
SavedAsTyped(rates, list) ==
  \A i \in DOMAIN list :
    (\A j \in DOMAIN list : j > i => list[j].dish # list[i].dish) =>
      /\ RateOf(SaveRates(rates, list), list[i].dish) = Positive(list[i].rate)
      /\ Offered(SaveRates(rates, list), list[i].dish) <=> list[i].onSale

\* A bill is accepted for what the menu shows, at its prices, and for nothing else.
BilledAsShown(rates, dishes, entries) ==
  LET menu == Menu(rates, dishes)
      lines == BillLines(rates, entries)
  IN /\ BillAccepted(rates, entries) <=>
          \A l \in lines : l.qty <= MaxQuantity /\ l.dish \in {m.dish : m \in menu}
     /\ BillAccepted(rates, entries) => \A l \in lines : [dish |-> l.dish, price |-> l.price] \in menu
=============================================================================

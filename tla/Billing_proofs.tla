--------------------------- MODULE Billing_proofs ---------------------------
(***************************************************************************)
(* Proofs about PosBilling for all sets of outlets, codes, clicks and      *)
(* tills, any number of days and years and any number of bills; about      *)
(* Quotes for all carts, stores, offers and counter bills; and about       *)
(* Pricing for all earlier orders, payments and filters.                   *)
(*                                                                         *)
(* SeriesUnbroken is kept by an insert only because the number inserted is *)
(* the next one, and it still is that when the insert comes: the till has  *)
(* held the counter's lock since it read it.  Inv adds what the lock       *)
(* gives: a drawn number follows the last one of its series, and no two    *)
(* tills hold numbers of one series.                                       *)
(*                                                                         *)
(* What the office reads off the bills are sums and counts over sets of    *)
(* them.  They are compared by grouping: SumByGroups and CountByGroups,    *)
(* from an induction over the parts of a finite set.                       *)
(*                                                                         *)
(* Of Quotes, CartInv says that a quote of this moment is what the cart    *)
(* comes to now, and that the parts of a bill add up.  The rest is         *)
(* arithmetic: of days and minutes, and of amounts, roundings and sums.    *)
(*                                                                         *)
(* The reports are shown to agree for any books whose rows are recorded    *)
(* (Books of Pricing), each pair of screens by a lemma of its own, from    *)
(* the same groupings; PlacedInv makes the cart's order one of such rows.  *)
(***************************************************************************)
EXTENDS PosReports, Pricing, SequenceTheorems, FiniteSetTheorems, WellFoundedInduction, TLAPS

Drawing == {"drawing_token", "drawing_number", "inserting"}

\* A request has an outlet, and once it has read the outlet's row, its code.
RequestInv ==
  \A t \in Tills :
    /\ till[t].pc # "idle" => till[t].outlet \in Outlets
    /\ till[t].pc \in Drawing => till[t].code \in Codes
    /\ till[t].pc \in {"drawing_number", "inserting"} => till[t].draw > 0

\* What the lock on the bill counter gives.
NumberInv ==
  /\ \A t \in Tills : till[t].pc = "inserting" => till[t].n = last[SeriesOf(t)] + 1
  /\ \A t, u \in Tills :
       t # u /\ till[t].pc = "inserting" /\ till[u].pc = "inserting" =>
         SeriesOf(t) # SeriesOf(u)

Inv == TypeOK /\ RequestInv /\ NumberInv /\ SeriesUnbroken

\* A day's financial year is one of the years.
LEMMA FyIsYear == \A d \in Days : FyOf[d] \in Years
BY DEF Years

\* A token printed is 1 .. TokenCap.
LEMMA TokenInRange ==
  ASSUME NEW k \in Nat, k > 0
  PROVE  TokenFromCounter(k) \in 1 .. TokenCap
<1>1. (k - 1) % TokenCap \in 0 .. TokenCap - 1
  BY CapAssumption
<1> QED
  BY <1>1, CapAssumption DEF TokenFromCounter

LEMMA IdleIsRequest == Idle \in Request
BY DaysAssumption DEF Idle, Request, Days

\* The rows of a state that differs in no table but those of outlets.
LEMMA TillsOnly ==
  ASSUME Inv, UNCHANGED <<tokens, last, bills>>,
         code' \in [Outlets -> Codes \cup {NoCode}],
         edits' \subseteq [outlet : Outlets, code : Codes],
         till' \in [Tills -> Request], RequestInv', NumberInv'
  PROVE  Inv'
<1>1. TypeOK'
  BY DEF Inv, TypeOK, Bill
<1>2. SeriesUnbroken'
  BY DEF Inv, SeriesUnbroken
<1> QED
  BY <1>1, <1>2 DEF Inv

\* One till becomes idle, or takes a step that holds no number.
LEMMA OneTill ==
  ASSUME Inv, NEW t \in Tills, NEW r \in Request,
         till' = [till EXCEPT ![t] = r], UNCHANGED <<code, edits, tokens, last, bills>>,
         r.pc # "inserting",
         r.pc # "idle" => r.outlet \in Outlets,
         r.pc \in Drawing => r.code \in Codes,
         r.pc = "drawing_number" => r.draw > 0
  PROVE  Inv'
<1>1. till' \in [Tills -> Request]
  BY DEF Inv, TypeOK
<1>2. \A u \in Tills : till'[u] = IF u = t THEN r ELSE till[u]
  BY DEF Inv, TypeOK
<1>3. RequestInv'
  BY <1>2 DEF Inv, RequestInv
<1>4. NumberInv'
  BY <1>2 DEF Inv, NumberInv, SeriesOf, Fy
<1> QED
  BY <1>1, <1>3, <1>4, TillsOnly DEF Inv, TypeOK

\* Inv is inductive: the initial state ...
LEMMA InvInit == Init => Inv
<1> SUFFICES ASSUME Init PROVE Inv
  OBVIOUS
<1>1. TypeOK
  BY IdleIsRequest DEF Init, TypeOK
<1>2. RequestInv /\ NumberInv
  BY DEF Init, RequestInv, NumberInv, Idle, Drawing
<1>3. SeriesUnbroken
  BY DEF Init, SeriesUnbroken
<1> QED
  BY <1>1, <1>2, <1>3 DEF Inv

\* ... a step of a till that writes no table, and what each till step is as such ...
LEMMA TillStep ==
  ASSUME Inv, NEW t \in Tills,
         \/ \E o \in Outlets, ref \in Refs \cup {NoRef} : Click(t, o, ref)
         \/ ReadOutlet(t) \/ DrawToken(t)
         \/ Collide(t) \/ AnswerCollision(t) \/ Refuse(t)
  PROVE  Inv'
<1> USE DEF Drawing
<1>1. till[t] \in Request /\ till \in [Tills -> Request]
  BY DEF Inv, TypeOK
<1>2. Idle \in Request /\ Idle.pc = "idle"
  BY IdleIsRequest DEF Idle
<1>3. CASE \E o \in Outlets, ref \in Refs \cup {NoRef} : Click(t, o, ref)
  <2>1. PICK o \in Outlets, ref \in Refs \cup {NoRef} : Click(t, o, ref)
    BY <1>3
  <2> DEFINE r == [Idle EXCEPT !.pc = "reading", !.outlet = o, !.ref = ref]
  <2>2. r \in Request /\ r.pc = "reading" /\ r.outlet = o
    BY <1>2 DEF Request, Idle
  <2>3. till' = [till EXCEPT ![t] = r] /\ UNCHANGED <<code, edits, tokens, last, bills>>
    BY <2>1 DEF Click
  <2> HIDE DEF r
  <2> QED
    BY <2>2, <2>3, OneTill
<1>4. CASE ReadOutlet(t)
  <2>1. PICK d \in Days :
          till' = [till EXCEPT ![t] = IF code[till[t].outlet] = NoCode THEN Idle
                     ELSE [till[t] EXCEPT !.pc = "drawing_token",
                             !.code = code[till[t].outlet], !.day = d]]
    BY <1>1, <1>4 DEF ReadOutlet
  <2> DEFINE r == [till[t] EXCEPT !.pc = "drawing_token",
                                  !.code = code[till[t].outlet], !.day = d]
  <2>2. till[t].outlet \in Outlets /\ UNCHANGED <<code, edits, tokens, last, bills>>
    BY <1>4 DEF ReadOutlet, Inv, RequestInv
  <2>3. CASE code[till[t].outlet] = NoCode
    BY <1>2, <2>1, <2>2, <2>3, OneTill
  <2>4. CASE code[till[t].outlet] # NoCode
    <3>1. code[till[t].outlet] \in Codes
      BY <2>2, <2>4 DEF Inv, TypeOK
    <3>2. r \in Request /\ r.pc = "drawing_token" /\ r.outlet \in Outlets /\ r.code \in Codes
      BY <1>1, <2>2, <3>1 DEF Request
    <3>3. till' = [till EXCEPT ![t] = r]
      BY <2>1, <2>4
    <3> HIDE DEF r
    <3> QED
      BY <2>2, <3>2, <3>3, OneTill
  <2> QED
    BY <2>3, <2>4
<1>5. CASE DrawToken(t)
  <2>1. till[t].outlet \in Outlets /\ till[t].code \in Codes /\ till[t].day \in Days
    BY <1>1, <1>5 DEF DrawToken, Inv, RequestInv, Request
  <2>2. tokens[DayOf(t)] \in Nat
    BY <2>1 DEF Inv, TypeOK, DayOf, AllDays
  <2>3. PICK k \in Nat : k = tokens[DayOf(t)] + 1 /\ k > 0
    BY <2>2
  <2> DEFINE r == [till[t] EXCEPT !.pc = "drawing_number", !.draw = k]
  <2>4. r \in Request /\ r.pc = "drawing_number" /\ r.outlet \in Outlets
          /\ r.code \in Codes /\ r.draw > 0
    BY <1>1, <2>1, <2>3 DEF Request
  <2>5. till' = [till EXCEPT ![t] = r] /\ UNCHANGED <<code, edits, tokens, last, bills>>
    BY <1>1, <1>5, <2>3 DEF DrawToken
  <2> HIDE DEF r
  <2> QED
    BY <2>4, <2>5, OneTill
<1>6. CASE Collide(t)
  <2> DEFINE r == [till[t] EXCEPT !.pc = "collided"]
  <2>1. r \in Request /\ r.pc = "collided" /\ r.outlet \in Outlets
    BY <1>1, <1>6 DEF Collide, Inv, RequestInv, Request
  <2>2. till' = [till EXCEPT ![t] = r] /\ UNCHANGED <<code, edits, tokens, last, bills>>
    BY <1>1, <1>6 DEF Collide, LastAfterRollback
  <2> HIDE DEF r
  <2> QED
    BY <2>1, <2>2, OneTill
<1>7. CASE AnswerCollision(t) \/ Refuse(t)
  <2>1. till' = [till EXCEPT ![t] = Idle] /\ UNCHANGED <<code, edits, tokens, last, bills>>
    BY <1>7 DEF AnswerCollision, Refuse, LastAfterRollback
  <2> QED
    BY <1>2, <2>1, OneTill
<1> QED
  BY <1>3, <1>4, <1>5, <1>6, <1>7

\* ... the step that draws a number, while nobody else holds one of the series ...
LEMMA DrawNumberStep ==
  ASSUME Inv, NEW t \in Tills, DrawNumber(t)
  PROVE  Inv'
<1>1. till[t] \in Request /\ till \in [Tills -> Request] /\ till[t].pc = "drawing_number"
  BY DEF Inv, TypeOK, DrawNumber
<1>2. till[t].outlet \in Outlets /\ till[t].code \in Codes /\ till[t].day \in Days
        /\ till[t].draw > 0
  BY <1>1 DEF Inv, RequestInv, Request, Drawing
<1>3. SeriesOf(t) \in AllSeries /\ last[SeriesOf(t)] \in Nat
  BY <1>2, FyIsYear DEF Inv, TypeOK, SeriesOf, Fy, AllSeries
<1>4. PICK n \in Nat : n = last[SeriesOf(t)] + 1
  BY <1>3
<1> DEFINE r == [till[t] EXCEPT !.pc = "inserting", !.n = n]
<1>5. r \in Request /\ r.pc = "inserting" /\ r.outlet = till[t].outlet /\ r.day = till[t].day
        /\ r.code = till[t].code /\ r.n = last[SeriesOf(t)] + 1 /\ r.draw = till[t].draw
  BY <1>1, <1>4 DEF Request
<1>6. till' = [till EXCEPT ![t] = r] /\ UNCHANGED <<code, edits, tokens, last, bills>>
  BY <1>1, <1>4 DEF DrawNumber
<1> HIDE DEF r
<1>7. till' \in [Tills -> Request] /\ \A u \in Tills : till'[u] = IF u = t THEN r ELSE till[u]
  BY <1>1, <1>5, <1>6
<1>8. RequestInv'
  BY <1>2, <1>5, <1>7 DEF Inv, RequestInv, Drawing
<1>9. \A u \in Tills : SeriesOf(u)' = SeriesOf(u)
  BY <1>5, <1>7 DEF SeriesOf, Fy
<1>10. NumberInv'
  <2>1. \A u \in Tills \ {t} : till[u].pc = "inserting" => SeriesOf(u) # SeriesOf(t)
    BY DEF DrawNumber, NumberUnlocked
  <2> QED
    BY <1>5, <1>6, <1>7, <1>9, <2>1 DEF Inv, NumberInv
<1> QED
  BY <1>6, <1>7, <1>8, <1>10, TillsOnly DEF Inv, TypeOK

\* What an insert starts from and leaves: the bill continues its series, which
\* is nobody else's meanwhile.
LEMMA InsertFacts ==
  ASSUME Inv, NEW t \in Tills, InsertBill(t)
  PROVE  /\ SeriesOf(t) \in AllSeries /\ SeriesOf(t) = <<till[t].outlet, Fy(t)>>
         /\ NewBill(t) \in Bill
         /\ NewBill(t).outlet = till[t].outlet /\ NewBill(t).fy = Fy(t)
         /\ NewBill(t).n = last[SeriesOf(t)] + 1 /\ NewBill(t).status = "paid"
         /\ NewBill(t).ref = till[t].ref
         /\ bills' = bills \cup {NewBill(t)}
         /\ last' = [last EXCEPT ![SeriesOf(t)] = last[SeriesOf(t)] + 1]
<1>1. till[t] \in Request /\ till[t].pc = "inserting" /\ till[t].n = last[SeriesOf(t)] + 1
  BY DEF Inv, TypeOK, NumberInv, InsertBill
<1>2. till[t].outlet \in Outlets /\ till[t].code \in Codes /\ till[t].day \in Days
        /\ till[t].draw \in Nat /\ till[t].draw > 0 /\ till[t].n \in Nat
        /\ till[t].ref \in Refs \cup {NoRef}
  BY <1>1 DEF Inv, RequestInv, Request, Drawing
<1>3. Fy(t) \in Years /\ TokenFromCounter(till[t].draw) \in 1 .. TokenCap
  BY <1>2, FyIsYear, TokenInRange DEF Fy
<1> QED
  BY <1>1, <1>2, <1>3 DEF InsertBill, NewBill, Bill, SeriesOf, AllSeries

LEMMA InsertBillStep ==
  ASSUME Inv, NEW t \in Tills, InsertBill(t)
  PROVE  Inv'
<1> DEFINE new == NewBill(t)
<1>1. /\ SeriesOf(t) \in AllSeries /\ SeriesOf(t) = <<till[t].outlet, Fy(t)>>
      /\ new \in Bill /\ new.outlet = till[t].outlet /\ new.fy = Fy(t)
      /\ new.n = last[SeriesOf(t)] + 1 /\ bills' = bills \cup {new}
      /\ last' = [last EXCEPT ![SeriesOf(t)] = last[SeriesOf(t)] + 1]
  BY InsertFacts
<1>2. till \in [Tills -> Request] /\ last \in [AllSeries -> Nat] /\ tokens \in [AllDays -> Nat]
        /\ bills \subseteq Bill
  BY DEF Inv, TypeOK
<1>3. till' = [till EXCEPT ![t] = Idle]
        /\ \A u \in Tills : till'[u] = IF u = t THEN Idle ELSE till[u]
  BY <1>2 DEF InsertBill
<1>4. Idle \in Request /\ Idle.pc = "idle"
  BY IdleIsRequest DEF Idle
<1>5. till[t].draw \in Nat
  BY <1>2 DEF Request
<1> HIDE DEF new
<1>6. last' \in [AllSeries -> Nat]
        /\ \A s \in AllSeries : last'[s] = IF s = SeriesOf(t) THEN last[s] + 1 ELSE last[s]
  BY <1>1, <1>2
<1>7. TypeOK'
  <2>1. tokens' \in [AllDays -> Nat]
    BY <1>2, <1>5 DEF InsertBill
  <2> QED
    BY <1>1, <1>2, <1>3, <1>4, <1>6, <2>1 DEF Inv, TypeOK, InsertBill, Bill
<1>8. RequestInv'
  BY <1>3, <1>4 DEF Inv, RequestInv, Drawing
<1>9. NumberInv'
  <2>1. \A u \in Tills \ {t} : till'[u] = till[u] /\ SeriesOf(u)' = SeriesOf(u)
    BY <1>3 DEF SeriesOf, Fy
  <2>2. ASSUME NEW u \in Tills, till'[u].pc = "inserting"
        PROVE  till'[u].n = last'[SeriesOf(u)'] + 1
    <3>1. u # t /\ till[u].pc = "inserting" /\ till[u].n = last[SeriesOf(u)] + 1
            /\ SeriesOf(u) # SeriesOf(t)
      BY <1>3, <1>4, <2>2 DEF Inv, NumberInv, InsertBill
    <3>2. SeriesOf(u) \in AllSeries
      BY <1>2, <3>1, FyIsYear DEF Inv, RequestInv, Request, SeriesOf, AllSeries, Fy
    <3> QED
      BY <1>6, <2>1, <3>1, <3>2
  <2>3. ASSUME NEW u \in Tills, NEW v \in Tills, u # v,
               till'[u].pc = "inserting", till'[v].pc = "inserting"
        PROVE  SeriesOf(u)' # SeriesOf(v)'
    BY <1>3, <1>4, <2>1, <2>3 DEF Inv, NumberInv
  <2> QED
    BY <2>2, <2>3 DEF NumberInv
<1>10. SeriesUnbroken'
  <2>1. ASSUME NEW b \in bills'
        PROVE  b.n \in 1 .. last'[<<b.outlet, b.fy>>]
    <3>1. b \in Bill /\ <<b.outlet, b.fy>> \in AllSeries
      BY <1>1, <1>2 DEF Bill, AllSeries
    <3>2. CASE b \in bills
      <4>1. b.n \in 1 .. last[<<b.outlet, b.fy>>]
        BY <3>2 DEF Inv, SeriesUnbroken
      <4> QED
        BY <1>2, <1>6, <3>1, <4>1
    <3>3. CASE b = new
      BY <1>1, <1>2, <1>6, <3>3
    <3> QED
      BY <1>1, <3>2, <3>3
  <2>2. ASSUME NEW s \in AllSeries, NEW k \in 1 .. last'[s]
        PROVE  \E b \in bills' : <<b.outlet, b.fy, b.n>> = <<s[1], s[2], k>>
    <3>1. CASE k \in 1 .. last[s]
      BY <1>1, <3>1 DEF Inv, SeriesUnbroken
    <3>2. CASE k \notin 1 .. last[s]
      <4>1. s = SeriesOf(t) /\ k = last[s] + 1
        BY <1>2, <1>6, <3>2
      <4> QED
        BY <1>1, <4>1
    <3> QED
      BY <3>1, <3>2
  <2>3. ASSUME NEW b \in bills', NEW c \in bills',
               <<b.outlet, b.fy, b.n>> = <<c.outlet, c.fy, c.n>>
        PROVE  b = c
    <3>1. ASSUME NEW d \in bills
          PROVE  <<d.outlet, d.fy, d.n>> # <<new.outlet, new.fy, new.n>>
      <4>1. d.n \in 1 .. last[<<d.outlet, d.fy>>]
        BY DEF Inv, SeriesUnbroken
      <4>2. <<d.outlet, d.fy>> = SeriesOf(t) => d.n # new.n
        BY <1>1, <1>2, <4>1
      <4> QED
        BY <1>1, <4>2
    <3> QED
      BY <1>1, <2>3, <3>1 DEF Inv, SeriesUnbroken
  <2> QED
    BY <2>1, <2>2, <2>3 DEF SeriesUnbroken
<1> QED
  BY <1>7, <1>8, <1>9, <1>10 DEF Inv

\* ... and a cancellation, which leaves every number where it was.
LEMMA CancelBillStep ==
  ASSUME Inv, NEW b \in bills, CancelBill(b)
  PROVE  Inv'
<1> DEFINE struck == [b EXCEPT !.status = "cancelled"]
<1>1. b \in Bill
  BY DEF Inv, TypeOK
<1>2. /\ struck \in Bill /\ struck.outlet = b.outlet /\ struck.fy = b.fy /\ struck.n = b.n
      /\ bills' = (bills \ {b}) \cup {struck} /\ UNCHANGED <<code, edits, tokens, last, till>>
  BY <1>1 DEF Bill, CancelBill, Cancelled
<1> HIDE DEF struck
<1>3. TypeOK' /\ RequestInv' /\ NumberInv'
  BY <1>2 DEF Inv, TypeOK, RequestInv, NumberInv, SeriesOf, Fy, Bill
<1>4. SeriesUnbroken'
  <2>1. \A c \in bills' : \E d \in bills :
          d.outlet = c.outlet /\ d.fy = c.fy /\ d.n = c.n /\ (d = b <=> c = struck) /\ (d # b => d = c)
    <3> SUFFICES ASSUME NEW c \in bills'
                 PROVE  \E d \in bills : d.outlet = c.outlet /\ d.fy = c.fy /\ d.n = c.n
                          /\ (d = b <=> c = struck) /\ (d # b => d = c)
      OBVIOUS
    <3>1. CASE c = struck
      BY <1>2, <3>1
    <3>2. CASE c # struck
      BY <1>2, <3>2
    <3> QED
      BY <3>1, <3>2
  <2>2. \A c \in bills' : c.n \in 1 .. last'[<<c.outlet, c.fy>>]
    BY <1>2, <2>1 DEF Inv, SeriesUnbroken
  <2>3. \A s \in AllSeries : \A k \in 1 .. last'[s] :
          \E c \in bills' : <<c.outlet, c.fy, c.n>> = <<s[1], s[2], k>>
    <3> SUFFICES ASSUME NEW s \in AllSeries, NEW k \in 1 .. last'[s]
                 PROVE  \E c \in bills' : <<c.outlet, c.fy, c.n>> = <<s[1], s[2], k>>
      OBVIOUS
    <3>1. PICK d \in bills : <<d.outlet, d.fy, d.n>> = <<s[1], s[2], k>>
      BY <1>2 DEF Inv, SeriesUnbroken
    <3> QED
      BY <1>2, <3>1
  <2>4. \A c, d \in bills' : <<c.outlet, c.fy, c.n>> = <<d.outlet, d.fy, d.n>> => c = d
    BY <2>1 DEF Inv, SeriesUnbroken
  <2> QED
    BY <2>2, <2>3, <2>4 DEF SeriesUnbroken
<1> QED
  BY <1>3, <1>4 DEF Inv

LEMMA InvNext == Inv /\ [Next]_vars => Inv'
<1> SUFFICES ASSUME Inv, [Next]_vars PROVE Inv'
  OBVIOUS
<1>1. ASSUME NEW o \in Outlets, NEW c \in Codes, CreateOutlet(o, c) \/ VetEdit(o, c)
      PROVE  Inv'
  BY <1>1, TillsOnly DEF CreateOutlet, VetEdit, Inv, TypeOK, RequestInv, NumberInv, SeriesOf, Fy
<1>2. ASSUME NEW e \in edits, UpdateOutlet(e)
      PROVE  Inv'
  BY <1>2, TillsOnly DEF UpdateOutlet, Inv, TypeOK, RequestInv, NumberInv, SeriesOf, Fy
<1>3. ASSUME NEW t \in Tills,
             \/ \E o \in Outlets, ref \in Refs \cup {NoRef} : Click(t, o, ref)
             \/ ReadOutlet(t) \/ DrawToken(t)
             \/ Collide(t) \/ AnswerCollision(t) \/ Refuse(t)
      PROVE  Inv'
  BY <1>3, TillStep
<1>4. ASSUME NEW t \in Tills, DrawNumber(t)
      PROVE  Inv'
  BY <1>4, DrawNumberStep
<1>5. ASSUME NEW t \in Tills, InsertBill(t)
      PROVE  Inv'
  BY <1>5, InsertBillStep
<1>6. ASSUME NEW b \in bills, CancelBill(b)
      PROVE  Inv'
  BY <1>6, CancelBillStep
<1>7. CASE UNCHANGED vars
  BY <1>7 DEF vars, Inv, TypeOK, RequestInv, NumberInv, SeriesOf, Fy, SeriesUnbroken, Bill
<1> QED
  BY <1>1, <1>2, <1>3, <1>4, <1>5, <1>6, <1>7 DEF Next

THEOREM Invariance == Spec => []Inv
<1> QED
  BY InvInit, InvNext, PTL DEF Spec

\* The tables and the requests keep their types, and tokens their range.
THEOREM TypeCorrect == Spec => []TypeOK
<1>1. Inv => TypeOK
  BY DEF Inv
<1> QED
  BY <1>1, Invariance, PTL

\* The bill numbers of an outlet and year are 1 to the last one, each used
\* once, whatever the tills do at once and whichever of them fail.
THEOREM UnbrokenSeries == Spec => []SeriesUnbroken
<1>1. Inv => SeriesUnbroken
  BY DEF Inv
<1> QED
  BY <1>1, Invariance, PTL

\* A till about to insert holds a number nobody has or will insert before it.
THEOREM FreshNumbers == Spec => []NumberIsFree
<1>1. Inv => NumberIsFree
  <2> SUFFICES ASSUME Inv, NEW t \in Tills, till[t].pc = "inserting"
               PROVE  /\ \A b \in bills : <<b.outlet, b.fy>> = SeriesOf(t) => b.n # till[t].n
                      /\ \A u \in Tills \ {t} :
                           till[u].pc = "inserting" /\ SeriesOf(u) = SeriesOf(t)
                             => till[u].n # till[t].n
    BY DEF NumberIsFree
  <2>1. ASSUME NEW b \in bills, <<b.outlet, b.fy>> = SeriesOf(t)
        PROVE  b.n # till[t].n
    <3>1. b \in Bill /\ SeriesOf(t) \in AllSeries /\ last[SeriesOf(t)] \in Nat
      BY <2>1 DEF Inv, TypeOK, Bill, AllSeries
    <3>2. b.n \in 1 .. last[SeriesOf(t)] /\ till[t].n = last[SeriesOf(t)] + 1
      BY <2>1 DEF Inv, SeriesUnbroken, NumberInv
    <3> QED
      BY <3>1, <3>2
  <2>2. \A u \in Tills \ {t} : till[u].pc = "inserting" => SeriesOf(u) # SeriesOf(t)
    BY DEF Inv, NumberInv
  <2> QED
    BY <2>1, <2>2
<1> QED
  BY <1>1, Invariance, PTL

\* A click, repeated at any till and at any time, makes at most one bill.
THEOREM ClickOnce == Spec => []OneBillPerClick
<1>1. Init => OneBillPerClick
  BY DEF Init, OneBillPerClick
<1>2. Inv /\ OneBillPerClick /\ [Next]_vars => OneBillPerClick'
  <2> SUFFICES ASSUME Inv, OneBillPerClick, [Next]_vars PROVE OneBillPerClick'
    OBVIOUS
  <2>1. ASSUME NEW t \in Tills, InsertBill(t)
        PROVE  OneBillPerClick'
    <3>1. NewBill(t).outlet = till[t].outlet /\ NewBill(t).ref = till[t].ref
            /\ bills' = bills \cup {NewBill(t)}
      BY <2>1, InsertFacts
    <3>2. \A b \in bills : b.outlet = till[t].outlet /\ b.ref = till[t].ref => b.ref = NoRef
      BY <2>1 DEF InsertBill, RefTaken, Prior, BillsOf
    <3> QED
      BY <3>1, <3>2 DEF OneBillPerClick
  <2>2. ASSUME NEW b \in bills, CancelBill(b)
        PROVE  OneBillPerClick'
    <3>1. b \in Bill
      BY DEF Inv, TypeOK
    <3> DEFINE struck == [b EXCEPT !.status = "cancelled"]
    <3>2. struck.outlet = b.outlet /\ struck.ref = b.ref /\ bills' = (bills \ {b}) \cup {struck}
      BY <2>2, <3>1 DEF Bill, CancelBill, Cancelled
    <3> HIDE DEF struck
    <3> QED
      BY <3>2 DEF OneBillPerClick
  <2>3. CASE UNCHANGED bills
    BY <2>3 DEF OneBillPerClick
  <2> QED
    BY <2>1, <2>2, <2>3 DEF Next, vars, CreateOutlet, VetEdit, UpdateOutlet, Click, ReadOutlet,
       DrawToken, DrawNumber, Collide, AnswerCollision, Refuse
<1> QED
  BY <1>1, <1>2, Invariance, PTL DEF Spec

----------------------------------------------------------------------------
(* The refinement.                                                         *)

BillStatus == {"paid", "cancelled"}

\* In a series unbroken the number determines the bill ...
LEMMA NumberedBill ==
  ASSUME Inv, NEW s \in AllSeries, NEW k \in 1 .. last[s]
  PROVE  /\ Numbered(s, k) \in bills
         /\ \A b \in bills : <<b.outlet, b.fy, b.n>> = <<s[1], s[2], k>> <=> b = Numbered(s, k)
<1>1. \E b \in bills : <<b.outlet, b.fy, b.n>> = <<s[1], s[2], k>>
  BY DEF Inv, SeriesUnbroken
<1>2. Numbered(s, k) \in bills
        /\ <<Numbered(s, k).outlet, Numbered(s, k).fy, Numbered(s, k).n>> = <<s[1], s[2], k>>
  BY <1>1 DEF Numbered
<1> QED
  BY <1>2 DEF Inv, SeriesUnbroken

\* ... in the next state as well ...
LEMMA UniqueBill ==
  ASSUME Inv', NEW b \in bills', NEW x, <<b.outlet, b.fy, b.n>> = x
  PROVE  (CHOOSE c \in bills' : <<c.outlet, c.fy, c.n>> = x) = b
<1> DEFINE c == CHOOSE c \in bills' : <<c.outlet, c.fy, c.n>> = x
<1>1. c \in bills' /\ <<c.outlet, c.fy, c.n>> = x
  OBVIOUS
<1> HIDE DEF c
<1>2. c = b
  BY <1>1 DEF Inv, SeriesUnbroken
<1> QED
  BY <1>2 DEF c

\* ... so the book is a list of as many bills as the counter says.
LEMMA BookShape ==
  ASSUME Inv
  PROVE  /\ Book \in [AllSeries -> Seq(BillStatus)]
         /\ \A s \in AllSeries :
              /\ Len(Book[s]) = last[s] /\ DOMAIN Book[s] = 1 .. last[s]
              /\ \A k \in 1 .. last[s] : Book[s][k] = Numbered(s, k).status
<1>1. ASSUME NEW s \in AllSeries
      PROVE  /\ Book[s] \in Seq(BillStatus)
             /\ Len(Book[s]) = last[s] /\ DOMAIN Book[s] = 1 .. last[s]
             /\ \A k \in 1 .. last[s] : Book[s][k] = Numbered(s, k).status
  <2>1. Book[s] = [k \in 1 .. last[s] |-> Numbered(s, k).status]
    BY DEF Book
  <2>2. last[s] \in Nat
    BY DEF Inv, TypeOK
  <2>3. \A k \in 1 .. last[s] : Numbered(s, k).status \in BillStatus
    BY NumberedBill DEF Inv, TypeOK, Bill, BillStatus
  <2>4. Book[s] \in [1 .. last[s] -> BillStatus]
    BY <2>1, <2>3
  <2>5. Book[s] \in Seq(BillStatus) /\ Len(Book[s]) = last[s]
    BY <2>2, <2>4
  <2> QED
    BY <2>1, <2>5
<1>2. Book \in [AllSeries -> Seq(BillStatus)]
  BY <1>1 DEF Book
<1> QED
  BY <1>1, <1>2

\* An insert appends to one list of the book.
LEMMA InsertIssues ==
  ASSUME Inv, Inv', NEW t \in Tills, InsertBill(t)
  PROVE  \E s \in AllSeries : Register!Issue(s)
<1>1. PICK s \in AllSeries, n \in Nat, new \in Bill :
        /\ s = <<till[t].outlet, Fy(t)>> /\ n = last[s] + 1
        /\ new.outlet = till[t].outlet /\ new.fy = Fy(t) /\ new.n = n
        /\ new.status = "paid" /\ bills' = bills \cup {new}
        /\ last' = [last EXCEPT ![s] = n]
  BY InsertFacts DEF Bill
<1>2. last \in [AllSeries -> Nat] /\ n > 0
  BY <1>1 DEF Inv, TypeOK
<1>3. \A r \in AllSeries : last'[r] = IF r = s THEN n ELSE last[r]
  BY <1>1, <1>2
<1>4. ASSUME NEW r \in AllSeries, NEW k \in 1 .. last[r]
      PROVE  Numbered(r, k)' = Numbered(r, k)
  <2>1. Numbered(r, k) \in bills'
          /\ <<Numbered(r, k).outlet, Numbered(r, k).fy, Numbered(r, k).n>> = <<r[1], r[2], k>>
    BY <1>1, NumberedBill
  <2> QED
    BY <2>1, UniqueBill DEF Numbered
<1>5. Numbered(s, n)' = new
  <2>1. new \in bills' /\ <<new.outlet, new.fy, new.n>> = <<s[1], s[2], n>>
    BY <1>1
  <2> QED
    BY <2>1, UniqueBill DEF Numbered
<1>6. ASSUME NEW r \in AllSeries, r # s
      PROVE  Book'[r] = Book[r]
  BY <1>3, <1>4, <1>6 DEF Book
<1>7. Book'[s] = Append(Book[s], "paid")
  <2>1. Book[s] \in Seq(BillStatus) /\ Len(Book[s]) = last[s] /\ n = Len(Book[s]) + 1
          /\ \A k \in 1 .. last[s] : Book[s][k] = Numbered(s, k).status
    BY <1>1, BookShape
  <2>2. Book'[s] = [k \in 1 .. n |-> Numbered(s, k)'.status]
    BY <1>3 DEF Book
  <2>3. Append(Book[s], "paid") =
          [k \in 1 .. n |-> IF k <= last[s] THEN Book[s][k] ELSE "paid"]
    BY <2>1 DEF BillStatus
  <2>4. ASSUME NEW k \in 1 .. n
        PROVE  Numbered(s, k)'.status = IF k <= last[s] THEN Book[s][k] ELSE "paid"
    <3>1. CASE k = n
      BY <1>1, <1>2, <1>5, <3>1
    <3>2. CASE k # n
      <4>1. k \in 1 .. last[s] /\ k <= last[s]
        BY <1>1, <1>2, <3>2
      <4>2. Numbered(s, k)' = Numbered(s, k)
        BY <1>4, <4>1
      <4> QED
        BY <2>1, <4>1, <4>2
    <3> QED
      BY <3>1, <3>2
  <2> QED
    BY <2>2, <2>3, <2>4
<1>8. Book \in [AllSeries -> Seq(BillStatus)] /\ Book' = [r \in AllSeries |-> Book'[r]]
  BY BookShape DEF Book
<1> QED
  BY <1>6, <1>7, <1>8 DEF Register!Issue

\* A cancellation strikes out one entry.
LEMMA CancelStrikes ==
  ASSUME Inv, Inv', NEW b \in bills, CancelBill(b)
  PROVE  \E s \in AllSeries : \E k \in DOMAIN Book[s] : Register!Strike(s, k)
<1>1. PICK s \in AllSeries, k \in Nat, struck \in Bill :
        /\ s = <<b.outlet, b.fy>> /\ k = b.n /\ k \in 1 .. last[s]
        /\ <<struck.outlet, struck.fy, struck.n>> = <<s[1], s[2], k>>
        /\ struck.status = "cancelled"
        /\ bills' = (bills \ {b}) \cup {struck} /\ last' = last
  <2>1. b \in Bill /\ b.n \in 1 .. last[<<b.outlet, b.fy>>] /\ <<b.outlet, b.fy>> \in AllSeries
    BY DEF Inv, TypeOK, SeriesUnbroken, Bill, AllSeries
  <2>2. [b EXCEPT !.status = "cancelled"] \in Bill
    BY <2>1 DEF Bill
  <2>3. b.n \in Nat /\ bills' = (bills \ {b}) \cup {[b EXCEPT !.status = "cancelled"]}
          /\ last' = last
    BY <2>1 DEF Bill, CancelBill, Cancelled
  <2> QED
    BY <2>1, <2>2, <2>3 DEF Bill
<1>2. b = Numbered(s, k) /\ b.status = "paid"
  BY <1>1, NumberedBill DEF CancelBill
<1>3. ASSUME NEW r \in AllSeries, NEW j \in 1 .. last[r], r # s \/ j # k
      PROVE  Numbered(r, j)' = Numbered(r, j)
  <2>1. /\ <<Numbered(r, j).outlet, Numbered(r, j).fy, Numbered(r, j).n>> = <<r[1], r[2], j>>
        /\ Numbered(r, j) \in bills
    BY NumberedBill
  <2>2. Numbered(r, j) # b
    BY <1>1, <1>3, <2>1 DEF AllSeries
  <2>3. Numbered(r, j) \in bills'
    BY <1>1, <2>1, <2>2
  <2> QED
    BY <2>1, <2>3, UniqueBill DEF Numbered
<1>4. Numbered(s, k)' = struck
  <2>1. struck \in bills'
    BY <1>1
  <2> QED
    BY <1>1, <2>1, UniqueBill DEF Numbered
<1>5. ASSUME NEW r \in AllSeries, r # s
      PROVE  Book'[r] = Book[r]
  BY <1>1, <1>3, <1>5 DEF Book
<1>6. /\ k \in DOMAIN Book[s] /\ Book[s][k] = "paid" /\ DOMAIN Book[s] = 1 .. last[s]
      /\ \A j \in 1 .. last[s] : Book[s][j] = Numbered(s, j).status
  BY <1>1, <1>2, BookShape
<1>7. Book'[s] = [Book[s] EXCEPT ![k] = "cancelled"]
  <2>1. Book'[s] = [j \in 1 .. last[s] |-> Numbered(s, j)'.status]
    BY <1>1 DEF Book
  <2>2. \A j \in 1 .. last[s] :
          Numbered(s, j)'.status = IF j = k THEN "cancelled" ELSE Book[s][j]
    BY <1>1, <1>3, <1>4, <1>6
  <2> QED
    BY <1>6, <2>1, <2>2
<1>8. Book \in [AllSeries -> Seq(BillStatus)] /\ Book' = [r \in AllSeries |-> Book'[r]]
  BY BookShape DEF Book
<1>9. Register!Strike(s, k)
  BY <1>5, <1>6, <1>7, <1>8 DEF Register!Strike
<1> QED
  BY <1>6, <1>9

\* The tills implement the bill book: it grows at its ends, entries are struck
\* out and never removed.
THEOREM Refinement == Spec => KeepsRegister
<1>1. Init => Register!Init
  <2> SUFFICES ASSUME Init PROVE Book = [s \in AllSeries |-> << >>]
    BY DEF Register!Init
  <2>1. ASSUME NEW s \in AllSeries
        PROVE  Book[s] = << >>
    <3>1. Inv
      BY InvInit
    <3>2. Len(Book[s]) = 0 /\ Book[s] \in Seq(BillStatus)
      BY <3>1, BookShape DEF Init
    <3> QED
      BY <3>2, EmptySeq
  <2> QED
    BY <2>1 DEF Book
<1>2. Inv /\ Inv' /\ [Next]_vars => [Register!Next]_Book
  <2> SUFFICES ASSUME Inv, Inv', [Next]_vars PROVE [Register!Next]_Book
    OBVIOUS
  <2>1. ASSUME NEW t \in Tills, InsertBill(t)
        PROVE  Register!Next
    BY <2>1, InsertIssues DEF Register!Next
  <2>2. ASSUME NEW b \in bills, CancelBill(b)
        PROVE  Register!Next
    BY <2>2, CancelStrikes DEF Register!Next
  <2>3. CASE UNCHANGED <<last, bills>>
    <3>1. UNCHANGED Book
      BY <2>3 DEF Book, Numbered
    <3> QED
      BY <3>1
  <2> QED
    BY <2>1, <2>2, <2>3 DEF Next, vars, CreateOutlet, VetEdit, UpdateOutlet, Click, ReadOutlet,
       DrawToken, DrawNumber, Collide, AnswerCollision, Refuse, LastAfterRollback
<1> QED
  BY <1>1, <1>2, Invariance, PTL DEF Spec, KeepsRegister, Register!Spec

----------------------------------------------------------------------------
(* The bills of a day.  DaysInv adds what the lock on its token counter    *)
(* gives, and that nobody else's bill has the number on this one.          *)

\* There are finitely many bills, each in the financial year of its day and
\* none with the number of another on it.
BillsInv ==
  /\ IsFiniteSet(bills)
  /\ \A b \in bills : b.n <= SeriesCap /\ b.fy = FyOf[b.day]
  /\ \A b, c \in bills : <<b.code, b.fy, b.n>> = <<c.code, c.fy, c.n>> => b = c

Holding == {"drawing_number", "inserting"}

\* What the lock on the token counter gives.
TokenInv ==
  /\ \A t \in Tills : till[t].pc \in Holding => till[t].draw = tokens[DayOf(t)] + 1
  /\ \A t, u \in Tills :
       t # u /\ till[t].pc \in Holding /\ till[u].pc \in Holding => DayOf(t) # DayOf(u)

\* The newest bill of a day has the token its counter gave last.
LastInv ==
  /\ \A o \in Outlets, d \in Days : tokens[<<o, d>>] > 0 => DayBills(o, d) # {}
  /\ \A b \in bills :
       (\A c \in DayBills(b.outlet, b.day) : c.n <= b.n) =>
         b.token = TokenFromCounter(tokens[<<b.outlet, b.day>>])

DaysInv == BillsInv /\ TokenInv /\ LastInv

\* A till that comes to hold no token, or keeps the one it holds.
LEMMA OneTillDays ==
  ASSUME Inv, DaysInv, NEW t \in Tills, NEW r \in Request,
         till' = [till EXCEPT ![t] = r], UNCHANGED <<tokens, bills>>,
         r.pc \in Holding => /\ till[t].pc \in Holding
                             /\ r.outlet = till[t].outlet /\ r.day = till[t].day
                             /\ r.draw = till[t].draw
  PROVE  DaysInv'
<1>1. \A u \in Tills : till'[u] = IF u = t THEN r ELSE till[u]
  BY DEF Inv, TypeOK
<1>2. TokenInv'
  <2>1. \A u \in Tills : till'[u].pc \in Holding =>
          till[u].pc \in Holding /\ DayOf(u)' = DayOf(u) /\ till'[u].draw = till[u].draw
    BY <1>1 DEF DayOf
  <2> QED
    BY <2>1 DEF DaysInv, TokenInv
<1>3. BillsInv' /\ LastInv'
  BY DEF DaysInv, BillsInv, LastInv, DayBills, BillsOf
<1> QED
  BY <1>2, <1>3 DEF DaysInv

\* DaysInv is inductive relative to Inv: the initial state ...
LEMMA DaysInvInit == Init => DaysInv
<1> SUFFICES ASSUME Init PROVE DaysInv
  OBVIOUS
<1>1. BillsInv
  BY FS_EmptySet DEF Init, BillsInv
<1>2. TokenInv
  BY DEF Init, TokenInv, Idle, Holding
<1>3. LastInv
  BY DEF Init, LastInv, AllDays
<1> QED
  BY <1>1, <1>2, <1>3 DEF DaysInv

\* ... the step that draws a token, from a counter nobody else holds ...
LEMMA DrawTokenDays ==
  ASSUME Inv, DaysInv, NEW t \in Tills, DrawToken(t)
  PROVE  DaysInv'
<1>1. till \in [Tills -> Request] /\ till[t] \in Request
  BY DEF Inv, TypeOK
<1>2. \A u \in Tills \ {t} : till'[u] = till[u]
  BY <1>1 DEF DrawToken
<1>3. till'[t].pc = "drawing_number" /\ till'[t].draw = tokens[DayOf(t)] + 1
        /\ till'[t].outlet = till[t].outlet /\ till'[t].day = till[t].day
  BY <1>1 DEF DrawToken, Request
<1>4. \A u \in Tills : DayOf(u)' = DayOf(u)
  BY <1>2, <1>3 DEF DayOf
<1>5. UNCHANGED <<tokens, bills>>
  BY DEF DrawToken
<1>6. TokenInv'
  <2>1. \A u \in Tills \ {t} : till[u].pc \in Holding => DayOf(u) # DayOf(t)
    BY DEF DrawToken, TokenUnlocked, Holding
  <2> QED
    BY <1>2, <1>3, <1>4, <1>5, <2>1 DEF DaysInv, TokenInv
<1>7. BillsInv' /\ LastInv'
  BY <1>5 DEF DaysInv, BillsInv, LastInv, DayBills, BillsOf
<1> QED
  BY <1>6, <1>7 DEF DaysInv

\* ... an insert, which makes the newest bill of its day ...
LEMMA InsertBillDays ==
  ASSUME Inv, DaysInv, NEW t \in Tills, InsertBill(t)
  PROVE  DaysInv'
<1> DEFINE new == NewBill(t)
<1>1. till \in [Tills -> Request] /\ till[t] \in Request /\ till[t].pc = "inserting"
  BY DEF Inv, TypeOK, InsertBill
<1>2. till[t].outlet \in Outlets /\ till[t].day \in Days /\ till[t].draw \in Nat
        /\ till[t].draw > 0
  BY <1>1 DEF Inv, RequestInv, Request, Drawing
<1>3. /\ new.outlet = till[t].outlet /\ new.day = till[t].day /\ new.fy = FyOf[till[t].day]
      /\ new.code = till[t].code /\ new.n = till[t].n
      /\ new.token = TokenFromCounter(till[t].draw)
  BY DEF NewBill, Fy
<1>4. /\ bills' = bills \cup {new} /\ new \in Bill /\ bills \subseteq Bill
      /\ new.n = last[<<new.outlet, new.fy>>] + 1
  BY InsertFacts, <1>3 DEF SeriesOf, Fy, Inv, TypeOK
<1>5. new.n <= SeriesCap
        /\ \A b \in bills : <<b.code, b.fy, b.n>> # <<new.code, new.fy, new.n>>
  BY <1>3 DEF InsertBill, NumberTaken, Fy
<1>6. DayOf(t) = <<new.outlet, new.day>> /\ DayOf(t) \in AllDays
  BY <1>2, <1>3 DEF DayOf, AllDays
<1>7. tokens \in [AllDays -> Nat] /\ tokens' = [tokens EXCEPT ![DayOf(t)] = till[t].draw]
  BY DEF InsertBill, Inv, TypeOK
<1>8. \A x \in AllDays : tokens'[x] = IF x = DayOf(t) THEN till[t].draw ELSE tokens[x]
  BY <1>6, <1>7
<1>9. till' = [till EXCEPT ![t] = Idle]
  BY DEF InsertBill
<1>10. \A u \in Tills : till'[u] = IF u = t THEN Idle ELSE till[u]
  BY <1>1, <1>9
<1> HIDE DEF new
<1>11. BillsInv'
  <2>1. IsFiniteSet(bills')
    BY <1>4, FS_AddElement DEF DaysInv, BillsInv
  <2> QED
    BY <1>3, <1>4, <1>5, <2>1 DEF DaysInv, BillsInv
<1>12. TokenInv'
  <2>1. \A u \in Tills : till'[u].pc \in Holding =>
          /\ u # t /\ till[u].pc \in Holding /\ till'[u] = till[u] /\ DayOf(u)' = DayOf(u)
    BY <1>10 DEF DayOf, Idle, Holding
  <2>2. \A u \in Tills : till'[u].pc \in Holding => DayOf(u) # DayOf(t)
    BY <1>1, <2>1 DEF DaysInv, TokenInv, Holding
  <2>3. \A u \in Tills : till'[u].pc \in Holding => DayOf(u) \in AllDays
    BY <1>1, <2>1 DEF Inv, RequestInv, Request, Holding, DayOf, AllDays
  <2> QED
    BY <1>8, <2>1, <2>2, <2>3 DEF DaysInv, TokenInv
<1>13. LastInv'
  <2>1. ASSUME NEW o \in Outlets, NEW d \in Days, tokens'[<<o, d>>] > 0
        PROVE  DayBills(o, d)' # {}
    <3>1. CASE <<o, d>> = DayOf(t)
      BY <1>4, <1>6, <3>1 DEF DayBills, BillsOf
    <3>2. CASE <<o, d>> # DayOf(t)
      <4>1. tokens[<<o, d>>] > 0
        BY <1>8, <2>1, <3>2 DEF AllDays
      <4> QED
        BY <1>4, <4>1 DEF DaysInv, LastInv, DayBills, BillsOf
    <3> QED
      BY <3>1, <3>2
  <2>2. ASSUME NEW b \in bills', \A c \in DayBills(b.outlet, b.day)' : c.n <= b.n
        PROVE  b.token = TokenFromCounter(tokens'[<<b.outlet, b.day>>])
    <3>1. CASE b = new
      BY <1>3, <1>6, <1>8, <3>1
    <3>2. CASE b \in bills /\ <<b.outlet, b.day>> = DayOf(t)
      <4>1. b.n \in 1 .. last[<<b.outlet, b.fy>>]
        BY <3>2 DEF Inv, SeriesUnbroken
      <4>2. b.outlet = new.outlet /\ b.day = new.day /\ b.fy = new.fy
        BY <1>3, <1>6, <3>2 DEF DaysInv, BillsInv
      <4>3. new.n <= b.n
        BY <1>4, <2>2, <4>2 DEF DayBills, BillsOf
      <4>4. last[<<new.outlet, new.fy>>] \in Nat
        BY <1>4 DEF Inv, TypeOK, Bill, AllSeries
      <4> QED
        BY <1>4, <4>1, <4>2, <4>3, <4>4
    <3>3. CASE b \in bills /\ <<b.outlet, b.day>> # DayOf(t)
      <4>1. tokens'[<<b.outlet, b.day>>] = tokens[<<b.outlet, b.day>>]
        BY <1>4, <1>8, <3>3 DEF Bill, AllDays
      <4>2. \A c \in DayBills(b.outlet, b.day) : c.n <= b.n
        BY <1>4, <2>2 DEF DayBills, BillsOf
      <4> QED
        BY <3>3, <4>1, <4>2 DEF DaysInv, LastInv
    <3> QED
      BY <1>4, <3>1, <3>2, <3>3
  <2> QED
    BY <2>1, <2>2 DEF LastInv
<1> QED
  BY <1>11, <1>12, <1>13 DEF DaysInv

\* ... and a cancellation, which leaves the tokens where they were.
LEMMA CancelBillDays ==
  ASSUME Inv, DaysInv, NEW b \in bills, CancelBill(b)
  PROVE  DaysInv'
<1> DEFINE struck == [b EXCEPT !.status = "cancelled"]
<1>1. b \in Bill
  BY DEF Inv, TypeOK
<1>2. /\ struck.outlet = b.outlet /\ struck.code = b.code /\ struck.fy = b.fy /\ struck.n = b.n
      /\ struck.day = b.day /\ struck.token = b.token
      /\ bills' = (bills \ {b}) \cup {struck} /\ UNCHANGED <<tokens, till>>
  BY <1>1 DEF Bill, CancelBill, Cancelled
<1> HIDE DEF struck
<1> DEFINE Same(c, d) == /\ d.outlet = c.outlet /\ d.code = c.code /\ d.fy = c.fy /\ d.n = c.n
                         /\ d.day = c.day /\ d.token = c.token
<1>3. \A c \in bills' : \E d \in bills : Same(c, d) /\ (d = b <=> c = struck) /\ (d # b => d = c)
  <2> SUFFICES ASSUME NEW c \in bills'
               PROVE  \E d \in bills : Same(c, d) /\ (d = b <=> c = struck) /\ (d # b => d = c)
    OBVIOUS
  <2>1. CASE c = struck
    BY <1>2, <2>1
  <2>2. CASE c # struck
    BY <1>2, <2>2
  <2> QED
    BY <2>1, <2>2
<1>4. \A d \in bills : \E c \in bills' : Same(c, d)
  BY <1>2
<1>5. BillsInv'
  <2>1. IsFiniteSet(bills')
    <3>1. IsFiniteSet(bills \ {b})
      BY FS_Subset DEF DaysInv, BillsInv
    <3> QED
      BY <1>2, <3>1, FS_AddElement
  <2>2. \A c \in bills' : c.n <= SeriesCap /\ c.fy = FyOf[c.day]
    BY <1>3 DEF DaysInv, BillsInv
  <2>3. \A c, d \in bills' : <<c.code, c.fy, c.n>> = <<d.code, d.fy, d.n>> => c = d
    BY <1>3 DEF DaysInv, BillsInv
  <2> QED
    BY <2>1, <2>2, <2>3 DEF BillsInv
<1>6. TokenInv'
  BY <1>2 DEF DaysInv, TokenInv, DayOf
<1>7. LastInv'
  <2>1. ASSUME NEW o \in Outlets, NEW d \in Days, tokens'[<<o, d>>] > 0
        PROVE  DayBills(o, d)' # {}
    <3>1. PICK x \in bills : x.outlet = o /\ x.day = d
      BY <1>2, <2>1 DEF DaysInv, LastInv, DayBills, BillsOf
    <3> QED
      BY <1>4, <3>1 DEF DayBills, BillsOf
  <2>2. ASSUME NEW c \in bills', \A x \in DayBills(c.outlet, c.day)' : x.n <= c.n
        PROVE  c.token = TokenFromCounter(tokens'[<<c.outlet, c.day>>])
    <3>1. PICK d \in bills : Same(c, d)
      BY <1>3
    <3>2. \A x \in DayBills(d.outlet, d.day) : x.n <= d.n
      BY <1>4, <2>2, <3>1 DEF DayBills, BillsOf
    <3> QED
      BY <1>2, <3>1, <3>2 DEF DaysInv, LastInv
  <2> QED
    BY <2>1, <2>2 DEF LastInv
<1> QED
  BY <1>5, <1>6, <1>7 DEF DaysInv

LEMMA DaysInvNext == Inv /\ DaysInv /\ [Next]_vars => DaysInv'
<1> SUFFICES ASSUME Inv, DaysInv, [Next]_vars PROVE DaysInv'
  OBVIOUS
<1>0. Idle \in Request /\ Idle.pc = "idle"
  BY IdleIsRequest DEF Idle
<1>1. ASSUME UNCHANGED <<tokens, bills, till>> PROVE DaysInv'
  BY <1>1 DEF DaysInv, BillsInv, TokenInv, LastInv, DayBills, BillsOf, DayOf
<1>2. ASSUME NEW t \in Tills,
             \/ \E o \in Outlets, ref \in Refs \cup {NoRef} : Click(t, o, ref)
             \/ ReadOutlet(t) \/ DrawNumber(t) \/ Collide(t) \/ AnswerCollision(t) \/ Refuse(t)
      PROVE  DaysInv'
  <2>1. till[t] \in Request /\ till \in [Tills -> Request] /\ till' \in [Tills -> Request]
    BY <1>2, InvNext DEF Inv, TypeOK
  <2> DEFINE r == till'[t]
  <2>2. UNCHANGED <<tokens, bills>> /\ till' = [till EXCEPT ![t] = r]
    BY <1>2, <2>1 DEF Click, ReadOutlet, DrawNumber, Collide, AnswerCollision, Refuse
  <2>3. r \in Request
    BY <2>1
  <2>4. r.pc \in Holding => /\ till[t].pc \in Holding
                            /\ r.outlet = till[t].outlet /\ r.day = till[t].day
                            /\ r.draw = till[t].draw
    <3>1. CASE DrawNumber(t)
      BY <2>1, <3>1 DEF DrawNumber, Holding, Request
    <3>2. CASE \E o \in Outlets, ref \in Refs \cup {NoRef} : Click(t, o, ref)
      BY <2>1, <3>2 DEF Click, Holding, Idle
    <3>3. CASE ReadOutlet(t)
      <4>1. r.pc \in {"idle", "drawing_token"}
        BY <1>0, <2>1, <3>3 DEF ReadOutlet, Request
      <4> QED
        BY <4>1 DEF Holding
    <3>4. CASE Collide(t)
      BY <2>1, <3>4 DEF Collide, Holding, Request
    <3>5. CASE AnswerCollision(t) \/ Refuse(t)
      BY <1>0, <2>1, <3>5 DEF AnswerCollision, Refuse, Holding
    <3> QED
      BY <1>2, <3>1, <3>2, <3>3, <3>4, <3>5
  <2> HIDE DEF r
  <2> QED
    BY <2>2, <2>3, <2>4, OneTillDays
<1>3. ASSUME NEW t \in Tills, DrawToken(t) PROVE DaysInv'
  BY <1>3, DrawTokenDays
<1>4. ASSUME NEW t \in Tills, InsertBill(t) PROVE DaysInv'
  BY <1>4, InsertBillDays
<1>5. ASSUME NEW b \in bills, CancelBill(b) PROVE DaysInv'
  BY <1>5, CancelBillDays
<1> QED
  BY <1>1, <1>2, <1>3, <1>4, <1>5 DEF Next, vars, CreateOutlet, VetEdit, UpdateOutlet

LEMMA DaysAreKept == Spec => []DaysInv
<1> QED
  BY DaysInvInit, DaysInvNext, Invariance, PTL DEF Spec

----------------------------------------------------------------------------
(* Sums over finite sets.                                                  *)

\* Induction over the parts of a finite set; what is to be shown of a part is
\* that it is in G.
LEMMA PartsInduction ==
  ASSUME NEW S, IsFiniteSet(S), NEW G,
         \A T \in SUBSET S : (\A x \in T : T \ {x} \in G) => T \in G
  PROVE  \A T \in SUBSET S : T \in G
<1> DEFINE Bad == {T \in FiniteSubsetsOf(S) : T \notin G}
<1> SUFFICES ASSUME NEW R \in SUBSET S, R \notin G PROVE FALSE
  OBVIOUS
<1>1. R \in Bad
  BY FS_Subset DEF FiniteSubsetsOf
<1>2. PICK T \in Bad : \A U \in Bad : ~ (<<U, T>> \in StrictSubsetOrdering(S))
  BY <1>1, FS_StrictSubsetOrderingWellFounded, WFMin
<1>3. T \in SUBSET S /\ IsFiniteSet(T) /\ T \notin G
  BY DEF FiniteSubsetsOf
<1>4. ASSUME NEW x \in T PROVE T \ {x} \in G
  <2>1. T \ {x} \in FiniteSubsetsOf(S)
    BY <1>3, FS_RemoveElement DEF FiniteSubsetsOf
  <2>2. <<T \ {x}, T>> \in StrictSubsetOrdering(S)
    BY <1>3 DEF StrictSubsetOrdering
  <2> QED
    BY <1>2, <2>1, <2>2
<1> QED
  BY <1>3, <1>4

\* What SumFunction unfolds to: a function on the parts of S.
First(s) == CHOOSE x \in s : TRUE

Sums(g, f, S) ==
  g = [s \in SUBSET S |-> IF s = {} THEN 0 ELSE f[First(s)] + g[s \ {First(s)}]]

\* There is one such function, ...
LEMMA SumsAgree ==
  ASSUME NEW S, IsFiniteSet(S), NEW T \in SUBSET S, NEW U \in SUBSET S, NEW f,
         NEW g, Sums(g, f, T), NEW h, Sums(h, f, U)
  PROVE  \A W \in SUBSET (T \cap U) : g[W] = h[W]
<1> DEFINE G == {W \in SUBSET S : W \subseteq T \cap U => g[W] = h[W]}
<1>1. ASSUME NEW W \in SUBSET S, \A x \in W : W \ {x} \in G PROVE W \in G
  <2> SUFFICES ASSUME W \subseteq T \cap U PROVE g[W] = h[W]
    OBVIOUS
  <2>1. /\ g[W] = IF W = {} THEN 0 ELSE f[First(W)] + g[W \ {First(W)}]
        /\ h[W] = IF W = {} THEN 0 ELSE f[First(W)] + h[W \ {First(W)}]
    BY DEF Sums
  <2>2. W # {} => First(W) \in W
    BY DEF First
  <2>3. W # {} => g[W \ {First(W)}] = h[W \ {First(W)}]
    BY <1>1, <2>2
  <2> QED
    BY <2>1, <2>3
<1> HIDE DEF G
<1>2. \A W \in SUBSET S : W \in G
  BY <1>1, PartsInduction
<1> QED
  BY <1>2 DEF G

LEMMA SumsExist ==
  ASSUME NEW S, IsFiniteSet(S), NEW f
  PROVE  \E g : Sums(g, f, S)
<1> DEFINE G == {T \in SUBSET S : \E g : Sums(g, f, T)}
<1>1. ASSUME NEW T \in SUBSET S, \A x \in T : T \ {x} \in G PROVE T \in G
  <2> DEFINE sums == [x \in T |-> CHOOSE g : Sums(g, f, T \ {x})]
             h == [s \in SUBSET T |-> IF s = {} THEN 0
                                      ELSE f[First(s)] + sums[First(s)][s \ {First(s)}]]
  <2>1. \A x \in T : Sums(sums[x], f, T \ {x})
    BY <1>1
  <2>2. \A s \in SUBSET T : s # {} => First(s) \in s
    BY DEF First
  <2> HIDE DEF sums
  <2>3. ASSUME NEW s \in SUBSET T, s # {}
        PROVE  h[s \ {First(s)}] = sums[First(s)][s \ {First(s)}]
    <3> DEFINE a == First(s)
               w == s \ {a}
    <3>1. a \in T /\ w \in SUBSET T /\ w \in SUBSET (T \ {a})
      BY <2>2, <2>3
    <3>2. sums[a][w] = IF w = {} THEN 0 ELSE f[First(w)] + sums[a][w \ {First(w)}]
      BY <2>1, <3>1 DEF Sums
    <3>3. CASE w = {}
      BY <3>1, <3>2, <3>3
    <3>4. CASE w # {}
      <4>1. First(w) \in T /\ w \ {First(w)} \in SUBSET ((T \ {a}) \cap (T \ {First(w)}))
        BY <2>2, <3>1, <3>4
      <4>2. sums[a][w \ {First(w)}] = sums[First(w)][w \ {First(w)}]
        <5>1. PICK P, Q \in SUBSET S : P = T \ {a} /\ Q = T \ {First(w)}
          OBVIOUS
        <5>2. Sums(sums[a], f, P) /\ Sums(sums[First(w)], f, Q)
          BY <2>1, <3>1, <4>1, <5>1
        <5>3. \A W \in SUBSET (P \cap Q) : sums[a][W] = sums[First(w)][W]
          BY <5>2, SumsAgree, SMTT(60)
        <5> QED
          BY <4>1, <5>1, <5>3
      <4> QED
        BY <3>1, <3>2, <3>4, <4>2
    <3> QED
      BY <3>3, <3>4
  <2>4. h = [s \in SUBSET T |-> IF s = {} THEN 0 ELSE f[First(s)] + h[s \ {First(s)}]]
    BY <2>3
  <2>5. Sums(h, f, T)
    BY <2>4 DEF Sums
  <2> QED
    BY <2>5
<1> HIDE DEF G
<1>2. S \in G
  BY <1>1, PartsInduction
<1> QED
  BY <1>2 DEF G

\* ... the one whose value is the sum.
SumOf(f, S) == SumFunction([x \in S |-> f[x]])

LEMMA SumIs ==
  ASSUME NEW S, IsFiniteSet(S), NEW f, NEW g, Sums(g, f, S), NEW T \in SUBSET S
  PROVE  SumOf(f, T) = g[T]
<1> DEFINE k == [x \in T |-> f[x]]
           h == CHOOSE e : Sums(e, k, T)
<1>0. IsFiniteSet(T) /\ DOMAIN k = T
  BY FS_Subset
<1>1. SumOf(f, T) = h[T]
  BY <1>0 DEF SumOf, SumFunction, SumFunctionOnSet, FoldFunctionOnSet, MapThenFoldSet, Sums, First
<1>2. Sums(h, k, T)
  BY <1>0, SumsExist
<1>3. Sums(h, f, T)
  <2>1. \A s \in SUBSET T : s # {} => k[First(s)] = f[First(s)]
    BY DEF First
  <2> HIDE DEF k, h
  <2> QED
    BY <1>2, <2>1 DEF Sums
<1> HIDE DEF k, h
<1>4. h[T] = g[T]
  BY <1>3, SumsAgree
<1> QED
  BY <1>1, <1>4

\* A sum takes its terms one by one, in any order.
LEMMA SumTakes ==
  ASSUME NEW S, IsFiniteSet(S), NEW f \in [S -> Int]
  PROVE  /\ SumOf(f, {}) = 0
         /\ \A T \in SUBSET S : /\ SumOf(f, T) \in Int
                                /\ \A x \in T : SumOf(f, T) = f[x] + SumOf(f, T \ {x})
<1> DEFINE s == [T \in SUBSET S |-> SumOf(f, T)]
           G == {T \in SUBSET S : /\ s[T] \in Int
                                  /\ \A x \in T : s[T] = f[x] + s[T \ {x}]}
<1>1. \A T \in SUBSET S : s[T] = IF T = {} THEN 0 ELSE f[First(T)] + s[T \ {First(T)}]
  <2>1. PICK g : Sums(g, f, S)
    BY SumsExist
  <2>2. \A T \in SUBSET S : s[T] = g[T]
    BY <2>1, SumIs
  <2>3. \A T \in SUBSET S : g[T] = IF T = {} THEN 0 ELSE f[First(T)] + g[T \ {First(T)}]
    BY <2>1 DEF Sums
  <2> HIDE DEF s
  <2> QED
    BY <2>2, <2>3
<1>2. \A T \in SUBSET S : s[T] = SumOf(f, T)
  OBVIOUS
<1> HIDE DEF s
<1>5. \A T \in SUBSET S : s[T] \in Int
  <2> DEFINE N == {T \in SUBSET S : s[T] \in Int}
  <2>1. ASSUME NEW T \in SUBSET S, \A x \in T : T \ {x} \in N PROVE T \in N
    <3>1. ASSUME T # {} PROVE f[First(T)] \in Int /\ s[T \ {First(T)}] \in Int
      <4>1. First(T) \in T
        BY <3>1 DEF First
      <4> QED
        BY <2>1, <4>1
    <3>2. s[T] = IF T = {} THEN 0 ELSE f[First(T)] + s[T \ {First(T)}]
      BY <1>1
    <3>3. s[T] \in Int
      BY <3>1, <3>2
    <3> QED
      BY <3>3
  <2> HIDE DEF N
  <2>2. \A T \in SUBSET S : T \in N
    BY <2>1, PartsInduction
  <2> QED
    BY <2>2 DEF N
<1>3. ASSUME NEW T \in SUBSET S, \A x \in T : T \ {x} \in G PROVE T \in G
  <2>1. CASE T = {}
    BY <1>5, <2>1
  <2>2. CASE T # {}
    <3>1. PICK a \in T : s[T] = f[a] + s[T \ {a}]
      BY <1>1, <2>2 DEF First
    <3>2. s[T \ {a}] \in Int /\ f[a] \in Int
      BY <1>5
    <3>3. ASSUME NEW x \in T, x # a PROVE s[T] = f[x] + s[T \ {x}]
      <4>1. s[T \ {a}] = f[x] + s[(T \ {a}) \ {x}]
        BY <1>3, <3>3
      <4>2. s[T \ {x}] = f[a] + s[(T \ {x}) \ {a}]
        BY <1>3, <3>3
      <4>3. (T \ {a}) \ {x} = (T \ {x}) \ {a}
        OBVIOUS
      <4>4. s[(T \ {a}) \ {x}] \in Int
        BY <1>5
      <4>5. PICK p \in Int, q \in Int, r \in Int : p = f[a] /\ q = f[x] /\ r = s[(T \ {a}) \ {x}]
        BY <4>4
      <4>6. s[T] = p + (q + r) /\ s[T \ {x}] = p + r
        BY <3>1, <4>1, <4>2, <4>3, <4>5
      <4>7. p + (q + r) = q + (p + r)
        OBVIOUS
      <4> QED
        BY <4>5, <4>6, <4>7
    <3>4. \A x \in T : s[T] = f[x] + s[T \ {x}]
      BY <3>1, <3>3
    <3> QED
      BY <1>5, <3>4
  <2> QED
    BY <2>1, <2>2
<1> HIDE DEF G
<1>4. \A T \in SUBSET S : T \in G
  BY <1>3, PartsInduction
<1> QED
  BY <1>1, <1>2, <1>4 DEF G

\* Two sums over parts that share nothing.
LEMMA SumJoins ==
  ASSUME NEW S, IsFiniteSet(S), NEW f \in [S -> Int], NEW A \in SUBSET S, NEW B \in SUBSET S,
         A \cap B = {}
  PROVE  SumOf(f, A \cup B) = SumOf(f, A) + SumOf(f, B)
<1> DEFINE G == {T \in SUBSET S : T \subseteq A => SumOf(f, T \cup B) = SumOf(f, T) + SumOf(f, B)}
<1>1. ASSUME NEW T \in SUBSET S, \A x \in T : T \ {x} \in G PROVE T \in G
  <2> SUFFICES ASSUME T \subseteq A PROVE SumOf(f, T \cup B) = SumOf(f, T) + SumOf(f, B)
    OBVIOUS
  <2>1. CASE T = {}
    <3>1. SumOf(f, B) \in Int /\ SumOf(f, {}) = 0
      BY SumTakes
    <3>2. T \cup B = B
      BY <2>1
    <3> QED
      BY <2>1, <3>1, <3>2
  <2>2. CASE T # {}
    <3>1. PICK x \in T : x \notin B
      BY <2>2
    <3>2. SumOf(f, T) = f[x] + SumOf(f, T \ {x})
      BY <3>1, SumTakes
    <3>3. T \cup B \in SUBSET S /\ x \in T \cup B /\ (T \cup B) \ {x} = (T \ {x}) \cup B
      BY <3>1
    <3>4. SumOf(f, T \cup B) = f[x] + SumOf(f, (T \cup B) \ {x})
      BY <3>3, SumTakes
    <3>5. SumOf(f, (T \ {x}) \cup B) = SumOf(f, T \ {x}) + SumOf(f, B)
      BY <1>1
    <3>6. T \ {x} \in SUBSET S
      OBVIOUS
    <3>7. SumOf(f, T \ {x}) \in Int /\ SumOf(f, B) \in Int
      BY <3>6, SumTakes
    <3>8. PICK p \in Int, q \in Int, r \in Int : p = f[x] /\ q = SumOf(f, T \ {x}) /\ r = SumOf(f, B)
      BY <3>7
    <3>9. SumOf(f, T) = p + q /\ SumOf(f, T \cup B) = p + (q + r)
      BY <3>2, <3>3, <3>4, <3>5, <3>8
    <3>10. p + (q + r) = (p + q) + r
      OBVIOUS
    <3> QED
      BY <3>8, <3>9, <3>10
  <2> QED
    BY <2>1, <2>2
<1> HIDE DEF G
<1>2. A \in G
  BY <1>1, PartsInduction
<1> QED
  BY <1>2 DEF G

\* Sums of groups add up to the whole's.
LEMMA SumByGroups ==
  ASSUME NEW S, IsFiniteSet(S), NEW f \in [S -> Int], NEW K, IsFiniteSet(K), NEW k \in [S -> K]
  PROVE  SumFunction([c \in K |-> SumOf(f, {x \in S : k[x] = c})]) = SumOf(f, S)
<1> DEFINE h == [c \in K |-> SumOf(f, {x \in S : k[x] = c})]
           In(C) == {x \in S : k[x] \in C}
           G == {C \in SUBSET K : SumOf(h, C) = SumOf(f, In(C))}
<1>1. h \in [K -> Int]
  <2>1. ASSUME NEW c \in K PROVE SumOf(f, {x \in S : k[x] = c}) \in Int
    <3>1. {x \in S : k[x] = c} \in SUBSET S
      OBVIOUS
    <3> QED
      BY <3>1, SumTakes
  <2> QED
    BY <2>1
<1>2. \A c \in K : h[c] = SumOf(f, {x \in S : k[x] = c})
  OBVIOUS
<1> HIDE DEF h
<1>3. ASSUME NEW C \in SUBSET K, \A c \in C : C \ {c} \in G PROVE C \in G
  <2>1. CASE C = {}
    <3>1. In(C) = {}
      BY <2>1
    <3> QED
      BY <1>1, <2>1, <3>1, SumTakes
  <2>2. CASE C # {}
    <3>1. PICK c \in C : TRUE
      BY <2>2
    <3> DEFINE A == {x \in S : k[x] = c}
               B == In(C \ {c})
    <3>2. SumOf(h, C) = h[c] + SumOf(h, C \ {c})
      BY <1>1, SumTakes
    <3>3. SumOf(h, C \ {c}) = SumOf(f, B)
      BY <1>3
    <3>4. A \in SUBSET S /\ B \in SUBSET S /\ A \cap B = {} /\ In(C) = A \cup B
      OBVIOUS
    <3>5. SumOf(f, A \cup B) = SumOf(f, A) + SumOf(f, B)
      <4> HIDE DEF A, B
      <4> QED
        BY <3>4, SumJoins
    <3>6. h[c] = SumOf(f, A)
      BY <1>2
    <3>7. SumOf(h, C) = SumOf(f, In(C))
      BY <3>2, <3>3, <3>4, <3>5, <3>6
    <3> QED
      BY <3>7
  <2> QED
    BY <2>1, <2>2
<1> HIDE DEF G
<1>4. K \in G
  <2>1. \A C \in SUBSET K : C \in G
    BY <1>3, PartsInduction
  <2> QED
    BY <2>1
<1>5. SumOf(h, K) = SumOf(f, In(K)) /\ In(K) = S
  BY <1>4 DEF G
<1>6. SumOf(h, K) = SumFunction(h)
  <2>1. [c \in K |-> h[c]] = h
    BY <1>1
  <2> QED
    BY <2>1 DEF SumOf
<1> QED
  BY <1>5, <1>6 DEF h

\* Counting is adding ones.
LEMMA CountByGroups ==
  ASSUME NEW S, IsFiniteSet(S), NEW K, IsFiniteSet(K), NEW k \in [S -> K]
  PROVE  SumFunction([c \in K |-> Cardinality({x \in S : k[x] = c})]) = Cardinality(S)
<1> DEFINE f == [x \in S |-> 1]
           G == {T \in SUBSET S : SumOf(f, T) = Cardinality(T)}
<1>1. f \in [S -> Nat] /\ \A x \in S : f[x] = 1
  OBVIOUS
<1> HIDE DEF f
<1>2. ASSUME NEW T \in SUBSET S, \A x \in T : T \ {x} \in G PROVE T \in G
  <2>1. CASE T = {}
    BY <1>1, <2>1, SumTakes, FS_EmptySet
  <2>2. CASE T # {}
    <3>1. PICK x \in T : TRUE
      BY <2>2
    <3>2. IsFiniteSet(T) /\ Cardinality(T) \in Nat
      BY FS_Subset, FS_CardinalityType
    <3>3. Cardinality(T \ {x}) = Cardinality(T) - 1
      BY <3>2, FS_RemoveElement
    <3>4. SumOf(f, T) = f[x] + SumOf(f, T \ {x}) /\ f[x] = 1
      BY <1>1, SumTakes
    <3>5. SumOf(f, T) = Cardinality(T)
      BY <1>2, <3>2, <3>3, <3>4
    <3> QED
      BY <3>5
  <2> QED
    BY <2>1, <2>2
<1> HIDE DEF G
<1>3. \A T \in SUBSET S : SumOf(f, T) = Cardinality(T)
  <2>1. \A T \in SUBSET S : T \in G
    BY <1>2, PartsInduction
  <2> QED
    BY <2>1 DEF G
<1>4. \A c \in K : SumOf(f, {x \in S : k[x] = c}) = Cardinality({x \in S : k[x] = c})
  <2>1. ASSUME NEW c \in K PROVE {x \in S : k[x] = c} \in SUBSET S
    OBVIOUS
  <2> QED
    BY <1>3, <2>1
<1>5. [c \in K |-> SumOf(f, {x \in S : k[x] = c})] = [c \in K |-> Cardinality({x \in S : k[x] = c})]
  BY <1>4
<1> QED
  BY <1>1, <1>3, <1>5, SumByGroups

----------------------------------------------------------------------------
(* What the till and the office read off the bills.                        *)

\* As many as they are mapped to, one to one.
LEMMA OneToOne ==
  ASSUME NEW S, IsFiniteSet(S), NEW T, NEW f \in [S -> T],
         \A y \in T : \E x \in S : f[x] = y,
         \A x, z \in S : f[x] = f[z] => x = z
  PROVE  IsFiniteSet(T) /\ Cardinality(T) = Cardinality(S)
<1>1. f \in Surjection(S, T)
  BY DEF Surjection
<1>2. f \in Injection(S, T)
  BY DEF Injection, IsInjective
<1> QED
  BY <1>1, <1>2, FS_Surjection

\* As many as there are values, when each is taken.
LEMMA ValuesAreFinite ==
  ASSUME NEW S, IsFiniteSet(S), NEW T, NEW f \in [S -> T],
         \A y \in T : \E x \in S : f[x] = y
  PROVE  IsFiniteSet(T)
<1>1. f \in Surjection(S, T)
  BY DEF Surjection
<1> QED
  BY <1>1, FS_Surjection

\* The bills are finitely many, and each has an amount.
LEMMA BillsHaveAmounts ==
  ASSUME Inv, DaysInv
  PROVE  /\ IsFiniteSet(bills)
         /\ \A b \in bills : /\ b \in Bill /\ b.n \in 1 .. SeriesCap
                             /\ TotalOf[b.n] \in Nat
<1>1. ASSUME NEW b \in bills PROVE b \in Bill /\ b.n \in 1 .. SeriesCap
  <2>1. b \in Bill /\ b.n \in 1 .. last[<<b.outlet, b.fy>>] /\ b.n <= SeriesCap
    BY DEF Inv, TypeOK, SeriesUnbroken, DaysInv, BillsInv
  <2>2. last[<<b.outlet, b.fy>>] \in Nat
    BY <2>1 DEF Inv, TypeOK, Bill, AllSeries
  <2> QED
    BY <2>1, <2>2, CapAssumption
<1> QED
  BY <1>1, PosReportsAssumption DEF DaysInv, BillsInv

\* Amounts of bills grouped by a key add up ...
LEMMA AmountByGroups ==
  ASSUME Inv, DaysInv, NEW S \in SUBSET bills, NEW K, IsFiniteSet(K), NEW k \in [S -> K]
  PROVE  SumFunction([c \in K |-> Amount({b \in S : k[b] = c})]) = Amount(S)
<1> DEFINE f == [b \in S |-> TotalOf[b.n]]
<1>1. IsFiniteSet(S)
  BY BillsHaveAmounts, FS_Subset
<1>2. f \in [S -> Nat]
  BY BillsHaveAmounts
<1>3. ASSUME NEW T \in SUBSET S PROVE SumOf(f, T) = Amount(T)
  <2>1. [x \in T |-> f[x]] = [b \in T |-> TotalOf[b.n]]
    OBVIOUS
  <2> QED
    BY <2>1 DEF SumOf, Amount
<1> HIDE DEF f
<1>4. SumFunction([c \in K |-> SumOf(f, {b \in S : k[b] = c})]) = SumOf(f, S)
  BY <1>1, <1>2, SumByGroups
<1>5. \A c \in K : SumOf(f, {b \in S : k[b] = c}) = Amount({b \in S : k[b] = c})
  <2>1. \A c \in K : {b \in S : k[b] = c} \in SUBSET S
    OBVIOUS
  <2> QED
    BY <1>3, <2>1
<1>6. [c \in K |-> SumOf(f, {b \in S : k[b] = c})] = [c \in K |-> Amount({b \in S : k[b] = c})]
  BY <1>5
<1> QED
  BY <1>3, <1>4, <1>6

\* ... and one bill's is its total.
LEMMA AmountOfOne ==
  ASSUME Inv, DaysInv, NEW b \in bills
  PROVE  Amount({b}) = TotalOf[b.n]
<1> DEFINE f == [c \in {b} |-> TotalOf[c.n]]
<1>1. IsFiniteSet({b}) /\ f \in [{b} -> Nat] /\ f[b] = TotalOf[b.n]
  BY BillsHaveAmounts, FS_Singleton
<1>2. SumOf(f, {b}) = Amount({b})
  <2>1. [x \in {b} |-> f[x]] = [c \in {b} |-> TotalOf[c.n]]
    OBVIOUS
  <2> QED
    BY <2>1 DEF SumOf, Amount
<1> HIDE DEF f
<1>3. SumOf(f, {b}) = f[b] + SumOf(f, {b} \ {b}) /\ SumOf(f, {}) = 0
  BY <1>1, SumTakes
<1>4. {b} \ {b} = {}
  OBVIOUS
<1>5. f[b] \in Nat
  BY <1>1
<1> QED
  BY <1>1, <1>2, <1>3, <1>4, <1>5

\* A day with bills has a newest one.
LEMMA NewestBill ==
  ASSUME Inv, DaysInv, NEW S \in SUBSET bills, S # {}
  PROVE  \E b \in S : \A c \in S : c.n <= b.n
<1> DEFINE G == {T \in SUBSET bills : T # {} => \E b \in T : \A c \in T : c.n <= b.n}
<1>1. IsFiniteSet(bills) /\ \A b \in bills : b.n \in Nat
  BY BillsHaveAmounts, CapAssumption
<1>2. ASSUME NEW T \in SUBSET bills, \A x \in T : T \ {x} \in G PROVE T \in G
  <2> SUFFICES ASSUME T # {} PROVE \E b \in T : \A c \in T : c.n <= b.n
    OBVIOUS
  <2>1. PICK x \in T : TRUE
    OBVIOUS
  <2>2. CASE T \ {x} = {}
    <3>1. \A c \in T : c = x
      BY <2>2
    <3> QED
      BY <1>1, <3>1
  <2>3. CASE T \ {x} # {}
    <3>1. PICK b \in T \ {x} : \A c \in T \ {x} : c.n <= b.n
      BY <1>2, <2>3
    <3>2. b.n \in Nat /\ x.n \in Nat /\ \A c \in T : c.n \in Nat
      BY <1>1
    <3>3. CASE x.n <= b.n
      BY <3>1, <3>3
    <3>4. CASE ~ (x.n <= b.n)
      <4>1. \A c \in T : c.n <= x.n
        BY <3>1, <3>2, <3>4
      <4> QED
        BY <4>1
    <3> QED
      BY <3>3, <3>4
  <2> QED
    BY <2>2, <2>3
<1> HIDE DEF G
<1>3. S \in G
  <2>1. \A T \in SUBSET bills : T \in G
    BY <1>1, <1>2, PartsInduction
  <2> QED
    BY <2>1
<1> QED
  BY <1>3 DEF G

\* The day's last token is the one its counter gave last.
LEMMA LastTokenIsLast ==
  ASSUME Inv, DaysInv, NEW o \in Outlets, NEW d \in Days, tokens[<<o, d>>] > 0
  PROVE  DayStats(o, d).lastToken = TokenFromCounter(tokens[<<o, d>>])
<1> DEFINE S == DayBills(o, d)
           b == CHOOSE x \in S : \A c \in S : c.n <= x.n
<1>1. S # {} /\ S \in SUBSET bills
  BY DEF DaysInv, LastInv, DayBills, BillsOf
<1>2. \E x \in S : \A c \in S : c.n <= x.n
  <2> HIDE DEF S
  <2> QED
    BY <1>1, NewestBill
<1>3. b \in S /\ \A c \in S : c.n <= b.n
  <2> HIDE DEF S
  <2> QED
    BY <1>2
<1>4. DayStats(o, d).lastToken = b.token
  BY <1>1 DEF DayStats, LastToken
<1> HIDE DEF b
<1>5. b \in bills /\ b.outlet = o /\ b.day = d
  BY <1>3 DEF DayBills, BillsOf
<1> QED
  BY <1>3, <1>4, <1>5 DEF DaysInv, LastInv

\* The bills of a selection, paid and cancelled.
LEMMA PaidAndCancelled ==
  ASSUME Inv, DaysInv, NEW S \in SUBSET bills
  PROVE  /\ IsFiniteSet(S) /\ IsFiniteSet(PaidOf(S)) /\ IsFiniteSet(CancelledOf(S))
         /\ PaidOf(S) \in SUBSET bills /\ CancelledOf(S) \in SUBSET bills
         /\ Cardinality(PaidOf(S)) + Cardinality(CancelledOf(S)) = Cardinality(S)
<1>1. IsFiniteSet(S) /\ PaidOf(S) \subseteq S
  BY BillsHaveAmounts, FS_Subset DEF PaidOf
<1>2. IsFiniteSet(PaidOf(S)) /\ IsFiniteSet(CancelledOf(S))
        /\ Cardinality(CancelledOf(S)) = Cardinality(S) - Cardinality(S \cap PaidOf(S))
  BY <1>1, FS_Subset, FS_Difference DEF CancelledOf
<1>3. Cardinality(S \cap PaidOf(S)) = Cardinality(PaidOf(S))
  <2>1. S \cap PaidOf(S) = PaidOf(S)
    BY <1>1
  <2> QED
    BY <2>1
<1>4. Cardinality(S) \in Nat /\ Cardinality(PaidOf(S)) \in Nat
  BY <1>1, <1>2, FS_CardinalityType
<1>5. PaidOf(S) \in SUBSET bills /\ CancelledOf(S) \in SUBSET bills
  BY <1>1 DEF CancelledOf
<1>6. Cardinality(PaidOf(S)) + Cardinality(CancelledOf(S)) = Cardinality(S)
  BY <1>2, <1>3, <1>4
<1> QED
  BY <1>1, <1>2, <1>5, <1>6

\* A summary's totals are those of the days and of the outlets it lists.
LEMMA SummaryAddsUp ==
  ASSUME Inv, DaysInv, NEW from \in Days, NEW to \in Days, NEW outlets \in SUBSET Outlets,
         NEW s, s = Summary(from, to, outlets), NEW days, days = outlets \X (from .. to)
  PROVE  AddsUp(s, days)
<1> DEFINE S == Selected(from, to, outlets)
           P == PaidOf(S)
           C == CancelledOf(S)
           shops == {b.outlet : b \in S}
           dates == {b.day : b \in P}
<1>1. S \in SUBSET bills /\ P = {b \in S : b.status = "paid"} /\ C = {b \in S : b.status # "paid"}
  BY DEF Selected, PaidOf, CancelledOf
<1>2. IsFiniteSet(S) /\ IsFiniteSet(P) /\ IsFiniteSet(C)
        /\ P \in SUBSET bills /\ C \in SUBSET bills
  <2> HIDE DEF S
  <2> QED
    BY <1>1, PaidAndCancelled
<1>3. \A b \in S : b.outlet \in outlets /\ b.day \in from .. to
  BY DEF Selected
<1>4. IsFiniteSet(days)
  <2>1. IsFiniteSet(outlets)
    BY PosReportsAssumption, FS_Subset
  <2>2. IsFiniteSet(from .. to)
    BY DaysAssumption, FS_Interval DEF Days
  <2> QED
    BY <2>1, <2>2, FS_Product
<1>5. IsFiniteSet(shops) /\ IsFiniteSet(dates)
  <2> DEFINE outletOf == [b \in S |-> b.outlet]
             dayOf == [b \in P |-> b.day]
  <2>1. outletOf \in [S -> shops] /\ \A o \in shops : \E b \in S : outletOf[b] = o
    OBVIOUS
  <2>2. dayOf \in [P -> dates] /\ \A d \in dates : \E b \in P : dayOf[b] = d
    OBVIOUS
  <2> HIDE DEF S, P, shops, dates, outletOf, dayOf
  <2>3. IsFiniteSet(shops)
    BY ONLY <1>2, <2>1, ValuesAreFinite
  <2>4. IsFiniteSet(dates)
    BY ONLY <1>2, <2>2, ValuesAreFinite
  <2> QED
    BY <2>3, <2>4
<1>6. /\ s.totals.bills = Cardinality(P) /\ s.totals.amount = Amount(P)
      /\ s.cancelledBills = Cardinality(C)
      /\ s.byDay = [d \in dates |-> Figures({b \in S : b.day = d})]
      /\ s.byOutlet = [o \in shops |->
           [bills |-> Cardinality(PaidOf(S \cap BillsOf(o))),
            amount |-> Amount(PaidOf(S \cap BillsOf(o))),
            cancelled |-> Cardinality(CancelledOf(S \cap BillsOf(o)))]]
  BY DEF Summary, Figures
<1>7. ASSUME NEW x \in days
      PROVE  PaidOf(DayBills(x[1], x[2])) = {b \in P : <<b.outlet, b.day>> = x}
  BY DEF PaidOf, DayBills, BillsOf, Selected
<1>8. ASSUME NEW d \in dates
      PROVE  PaidOf({b \in S : b.day = d}) = {b \in P : b.day = d}
  BY DEF PaidOf
<1>9. ASSUME NEW o \in shops
      PROVE  /\ PaidOf(S \cap BillsOf(o)) = {b \in P : b.outlet = o}
             /\ CancelledOf(S \cap BillsOf(o)) = {b \in C : b.outlet = o}
  <2> HIDE DEF S
  <2> QED
    BY <1>1 DEF PaidOf, CancelledOf, BillsOf
<1> HIDE DEF S, P, C, shops, dates
<1>10. s.totals.bills = SumFunction([x \in days |-> DayStats(x[1], x[2]).bills])
         /\ s.totals.amount = SumFunction([x \in days |-> DayStats(x[1], x[2]).sales])
  <2> DEFINE k == [b \in P |-> <<b.outlet, b.day>>]
  <2>1. k \in [P -> days]
    BY <1>1, <1>3
  <2>2. \A x \in days : {b \in P : k[b] = x} = PaidOf(DayBills(x[1], x[2]))
    BY <1>7
  <2> HIDE DEF k
  <2>3. \A x \in days : /\ DayStats(x[1], x[2]).bills = Cardinality({b \in P : k[b] = x})
                        /\ DayStats(x[1], x[2]).sales = Amount({b \in P : k[b] = x})
    BY <2>2 DEF DayStats
  <2>4. /\ [x \in days |-> DayStats(x[1], x[2]).bills]
             = [x \in days |-> Cardinality({b \in P : k[b] = x})]
        /\ [x \in days |-> DayStats(x[1], x[2]).sales]
             = [x \in days |-> Amount({b \in P : k[b] = x})]
    BY <2>3
  <2>5. SumFunction([x \in days |-> Cardinality({b \in P : k[b] = x})]) = Cardinality(P)
    BY <1>2, <1>4, <2>1, CountByGroups
  <2>6. SumFunction([x \in days |-> Amount({b \in P : k[b] = x})]) = Amount(P)
    BY ONLY Inv, DaysInv, <1>2, <1>4, <2>1, AmountByGroups
  <2> QED
    BY <1>6, <2>4, <2>5, <2>6
<1>11. s.totals.bills = SumFunction([d \in DOMAIN s.byDay |-> s.byDay[d].bills])
  <2> DEFINE k == [b \in P |-> b.day]
  <2>1. k \in [P -> dates] /\ \A d \in dates : {b \in P : k[b] = d} = {b \in P : b.day = d}
    BY DEF dates
  <2> HIDE DEF k
  <2>2. ASSUME NEW d \in dates
        PROVE  s.byDay[d].bills = Cardinality({b \in P : k[b] = d})
    <3>1. s.byDay[d].bills = Cardinality(PaidOf({b \in S : b.day = d}))
      BY <1>6 DEF Figures
    <3> QED
      BY <1>8, <2>1, <3>1
  <2>3. [d \in DOMAIN s.byDay |-> s.byDay[d].bills]
          = [d \in dates |-> Cardinality({b \in P : k[b] = d})]
    BY <1>6, <2>2
  <2>4. SumFunction([d \in dates |-> Cardinality({b \in P : k[b] = d})]) = Cardinality(P)
    BY <1>2, <1>5, <2>1, CountByGroups
  <2> QED
    BY <1>6, <2>3, <2>4
<1>12. DOMAIN s.byOutlet = shops
         /\ \A o \in shops :
              /\ s.byOutlet[o].amount = Amount({b \in P : b.outlet = o})
              /\ s.byOutlet[o].cancelled = Cardinality({b \in C : b.outlet = o})
  <2>1. ASSUME NEW o \in shops
        PROVE  /\ s.byOutlet[o].amount = Amount({b \in P : b.outlet = o})
               /\ s.byOutlet[o].cancelled = Cardinality({b \in C : b.outlet = o})
    <3>1. /\ s.byOutlet[o].amount = Amount(PaidOf(S \cap BillsOf(o)))
          /\ s.byOutlet[o].cancelled = Cardinality(CancelledOf(S \cap BillsOf(o)))
      BY <1>6
    <3> QED
      BY <1>9, <3>1
  <2> QED
    BY <1>6, <2>1
<1>13. s.totals.amount = SumFunction([o \in DOMAIN s.byOutlet |-> s.byOutlet[o].amount])
  <2> DEFINE k == [b \in P |-> b.outlet]
  <2>1. k \in [P -> shops]
          /\ \A o \in shops : {b \in P : k[b] = o} = {b \in P : b.outlet = o}
    BY <1>1 DEF shops
  <2> HIDE DEF k
  <2>2. [o \in DOMAIN s.byOutlet |-> s.byOutlet[o].amount]
          = [o \in shops |-> Amount({b \in P : k[b] = o})]
    BY <1>12, <2>1
  <2>3. SumFunction([o \in shops |-> Amount({b \in P : k[b] = o})]) = Amount(P)
    BY <1>2, <1>5, <2>1, AmountByGroups
  <2> QED
    BY <1>6, <2>2, <2>3
<1>14. s.cancelledBills = SumFunction([o \in DOMAIN s.byOutlet |-> s.byOutlet[o].cancelled])
  <2> DEFINE k == [b \in C |-> b.outlet]
  <2>1. k \in [C -> shops]
          /\ \A o \in shops : {b \in C : k[b] = o} = {b \in C : b.outlet = o}
    BY <1>1 DEF shops
  <2> HIDE DEF k
  <2>2. [o \in DOMAIN s.byOutlet |-> s.byOutlet[o].cancelled]
          = [o \in shops |-> Cardinality({b \in C : k[b] = o})]
    BY <1>12, <2>1
  <2>3. SumFunction([o \in shops |-> Cardinality({b \in C : k[b] = o})]) = Cardinality(C)
    BY <1>2, <1>5, <2>1, CountByGroups
  <2> QED
    BY <1>6, <2>2, <2>3
<1> QED
  BY <1>10, <1>11, <1>13, <1>14 DEF AddsUp

\* The export has a row for each bill, and its paid rows come to the same.
LEMMA ExportAgrees ==
  ASSUME Inv, DaysInv, NEW from \in Days, NEW to \in Days, NEW outlets \in SUBSET Outlets,
         NEW s, s = Summary(from, to, outlets), NEW csv, csv = BillsCsv(from, to, outlets)
  PROVE  HasEachBill(s, csv)
<1> DEFINE S == Selected(from, to, outlets)
           P == PaidOf(S)
           row == [b \in S |-> [no |-> <<b.code, b.fy, b.n>>, status |-> b.status,
                                total |-> TotalOf[b.n]]]
           paid == {x \in csv : x.status = "paid"}
<1>1. S \in SUBSET bills /\ P = {b \in S : b.status = "paid"}
  BY DEF Selected, PaidOf
<1>2. /\ s.totals.bills = Cardinality(P) /\ s.totals.amount = Amount(P)
      /\ s.cancelledBills = Cardinality(CancelledOf(S))
  BY DEF Summary, Figures
<1>3. csv = {row[b] : b \in S}
  BY DEF BillsCsv
<1>4. \A b, c \in S : row[b] = row[c] => b = c
  <2>1. \A b, c \in S : row[b].no = row[c].no => b = c
    BY <1>1 DEF DaysInv, BillsInv
  <2> QED
    BY <2>1
<1>5. \A b \in S : row[b].status = b.status /\ row[b].total = TotalOf[b.n]
  OBVIOUS
<1>6. row \in [S -> csv] /\ \A y \in csv : \E b \in S : row[b] = y
  BY <1>3
<1> HIDE DEF S, row
<1>7. IsFiniteSet(S) /\ IsFiniteSet(P) /\ P \in SUBSET bills
        /\ Cardinality(P) + Cardinality(CancelledOf(S)) = Cardinality(S)
  BY <1>1, PaidAndCancelled
<1>8. IsFiniteSet(csv) /\ Cardinality(csv) = Cardinality(S)
  BY ONLY <1>4, <1>6, <1>7, OneToOne
<1>9. s.totals.amount = SumFunction([r \in paid |-> r.total])
  <2> DEFINE k == [b \in P |-> row[b]]
  <2>1. k \in [P -> paid] /\ IsFiniteSet(paid)
    BY <1>1, <1>5, <1>6, <1>8, FS_Subset
  <2>2. ASSUME NEW r \in paid PROVE Amount({b \in P : k[b] = r}) = r.total
    <3>1. PICK b \in S : row[b] = r
      BY <1>6
    <3>2. b \in P /\ b \in bills /\ r.total = TotalOf[b.n]
      BY <1>1, <1>5, <3>1
    <3>3. {c \in P : k[c] = r} = {b}
      BY <1>1, <1>4, <3>1, <3>2
    <3> QED
      BY <3>2, <3>3, AmountOfOne
  <2>3. [r \in paid |-> Amount({b \in P : k[b] = r})] = [r \in paid |-> r.total]
    BY <2>2
  <2>4. SumFunction([r \in paid |-> Amount({b \in P : k[b] = r})]) = Amount(P)
    <3> HIDE DEF k, paid, P
    <3> QED
      BY <1>7, <2>1, AmountByGroups
  <2> QED
    BY <1>2, <2>3, <2>4
<1> QED
  BY <1>2, <1>7, <1>8, <1>9 DEF HasEachBill

\* A range accepted or not, its three views agree.
LEMMA RangesAgree ==
  ASSUME Inv, DaysInv, NEW from \in Days, NEW to \in Days, NEW outlets \in SUBSET Outlets
  PROVE  RangeAgrees(from, to, outlets)
BY SummaryAddsUp, ExportAgrees DEF RangeAgrees

\* The bills of all the days of an outlet are its series.
LEMMA YearsCount ==
  ASSUME Inv, DaysInv, NEW o \in Outlets
  PROVE  SeriesAgree(o)
<1> DEFINE s == Summary(1, LastDay, {o})
           S == BillsOf(o)
           k == [b \in S |-> b.fy]
<1>1. S \in SUBSET bills /\ \A b \in S : b \in Bill /\ b.outlet = o
  BY DEF BillsOf, Inv, TypeOK
<1>2. Selected(1, LastDay, {o}) = S
  BY <1>1 DEF Selected, BillsOf, Bill, Days
<1>3. s.totals.bills = Cardinality(PaidOf(S)) /\ s.cancelledBills = Cardinality(CancelledOf(S))
  BY <1>2 DEF Summary, Figures
<1> HIDE DEF s
<1>4. IsFiniteSet(Years)
  <2>1. IsFiniteSet(Days)
    BY DaysAssumption, FS_Interval DEF Days
  <2>2. [d \in Days |-> FyOf[d]] \in [Days -> Years]
          /\ \A y \in Years : \E d \in Days : [e \in Days |-> FyOf[e]][d] = y
    BY DEF Years
  <2> QED
    BY ONLY <2>1, <2>2, ValuesAreFinite
<1>5. k \in [S -> Years] /\ \A b \in S : k[b] = b.fy
  BY <1>1 DEF Bill
<1> HIDE DEF S, k
<1>6. IsFiniteSet(S)
        /\ Cardinality(PaidOf(S)) + Cardinality(CancelledOf(S)) = Cardinality(S)
  BY <1>1, PaidAndCancelled
<1>7. ASSUME NEW y \in Years
      PROVE  Cardinality({b \in S : k[b] = y}) = last[<<o, y>>]
  <2> DEFINE T == {b \in S : k[b] = y}
             m == last[<<o, y>>]
             f == [b \in T |-> b.n]
  <2>1. <<o, y>> \in AllSeries /\ m \in Nat
    BY DEF Inv, TypeOK, AllSeries
  <2>2. IsFiniteSet(T) /\ \A b \in T : b \in bills /\ b.outlet = o /\ b.fy = y
    BY <1>1, <1>5, <1>6, FS_Subset
  <2>3. \A b \in bills : b.outlet = o /\ b.fy = y => b \in T
    BY <1>5 DEF S, BillsOf
  <2> HIDE DEF T
  <2>4. f \in [T -> 1 .. m]
    BY <2>2 DEF Inv, SeriesUnbroken
  <2>5. \A j \in 1 .. m : \E b \in T : f[b] = j
    <3> SUFFICES ASSUME NEW j \in 1 .. m PROVE \E b \in T : f[b] = j
      OBVIOUS
    <3>1. PICK b \in bills : <<b.outlet, b.fy, b.n>> = <<o, y, j>>
      BY <2>1 DEF Inv, SeriesUnbroken
    <3> QED
      BY <2>3, <3>1
  <2>6. \A b, c \in T : f[b] = f[c] => b = c
    BY <2>2 DEF Inv, SeriesUnbroken
  <2> HIDE DEF f, m
  <2>7. Cardinality(1 .. m) = Cardinality(T)
    BY ONLY <2>2, <2>4, <2>5, <2>6, OneToOne
  <2>8. Cardinality(1 .. m) = m
    BY <2>1, FS_Interval
  <2> QED
    BY <2>7, <2>8 DEF T, m
<1>8. [y \in Years |-> Cardinality({b \in S : k[b] = y})] = [y \in Years |-> last[<<o, y>>]]
  BY <1>7
<1>9. SumFunction([y \in Years |-> Cardinality({b \in S : k[b] = y})]) = Cardinality(S)
  BY <1>4, <1>5, <1>6, CountByGroups
<1>10. s.totals.bills + s.cancelledBills = SumFunction([y \in Years |-> last[<<o, y>>]])
  BY <1>3, <1>6, <1>8, <1>9
<1> QED
  BY <1>10 DEF SeriesAgree, s

\* The till's screen, the summary and the export of every range agree, the
\* last token shown is the counter's, and a year's report counts its series.
THEOREM TillAndOfficeAreOne == Spec => []TillAndOfficeAgree
<1>1. Inv /\ DaysInv => TillAndOfficeAgree
  <2> SUFFICES ASSUME Inv, DaysInv PROVE TillAndOfficeAgree
    OBVIOUS
  <2>1. \A o \in Outlets, d \in Days :
          tokens[<<o, d>>] > 0 => DayStats(o, d).lastToken = TokenFromCounter(tokens[<<o, d>>])
    BY LastTokenIsLast
  <2>2. \A from, to \in Days, outlets \in {{o} : o \in Outlets} \cup {Outlets} :
          RangeAgrees(from, to, outlets)
    BY RangesAgree
  <2>3. \A o \in Outlets : SeriesAgree(o)
    BY YearsCount
  <2> QED
    BY <2>1, <2>2, <2>3 DEF TillAndOfficeAgree
<1> QED
  BY <1>1, Invariance, DaysAreKept, PTL

----------------------------------------------------------------------------
(* Amounts.                                                                *)

\* A set of naturals has a least member.
LEMMA LeastOf ==
  ASSUME NEW T \in SUBSET Nat, T # {}
  PROVE  \E x \in T : \A y \in T : x <= y
<1> SUFFICES ASSUME \A x \in T : \E y \in T : y < x PROVE FALSE
  OBVIOUS
<1>1. PICK x \in T : \A y \in T : ~ (<<y, x>> \in OpToRel(<, Nat))
  BY NatLessThanWellFounded, WFMin
<1>2. PICK y \in T : y < x
  OBVIOUS
<1> QED
  BY <1>1, <1>2 DEF OpToRel

\* A product grows with its factor.
LEMMA TimesGrows ==
  ASSUME NEW a \in Int, NEW b \in Int, a <= b, NEW n \in Nat
  PROVE  a * n <= b * n
<1>1. PICK k \in Nat : b = a + k
  <2>1. b - a \in Nat /\ b = a + (b - a)
    OBVIOUS
  <2> QED
    BY <2>1
<1>2. k * n \in Nat /\ (a + k) * n = a * n + k * n
  OBVIOUS
<1> QED
  BY <1>1, <1>2

\* A sum of naturals is one.
LEMMA SumInNat ==
  ASSUME NEW S, IsFiniteSet(S), NEW f \in [S -> Nat]
  PROVE  SumFunction(f) \in Nat
<1> DEFINE G == {T \in SUBSET S : SumOf(f, T) \in Nat}
<1>1. ASSUME NEW T \in SUBSET S, \A x \in T : T \ {x} \in G PROVE T \in G
  <2>1. SumOf(f, {}) = 0 /\ \A x \in T : SumOf(f, T) = f[x] + SumOf(f, T \ {x})
    BY SumTakes
  <2>2. CASE T = {}
    BY <2>1, <2>2
  <2>3. CASE T # {}
    <3>1. PICK x \in T : TRUE
      BY <2>3
    <3>2. f[x] \in Nat /\ SumOf(f, T \ {x}) \in Nat
      BY <1>1, <3>1
    <3> QED
      BY <2>1, <3>2
  <2> QED
    BY <2>2, <2>3
<1> HIDE DEF G
<1>2. \A T \in SUBSET S : T \in G
  BY <1>1, PartsInduction
<1>3. SumOf(f, S) \in Nat
  BY <1>2 DEF G
<1>4. [x \in S |-> f[x]] = f
  OBVIOUS
<1> QED
  BY <1>3, <1>4 DEF SumOf

\* The extremes of two numbers.
LEMMA MinOfTwo ==
  ASSUME NEW a \in Int, NEW b \in Int
  PROVE  Min({a, b}) = IF a <= b THEN a ELSE b
<1> DEFINE m == Min({a, b})
<1>1. \E x \in {a, b} : \A y \in {a, b} : x <= y
  BY DEF Min
<1>2. m \in {a, b} /\ \A y \in {a, b} : m <= y
  BY <1>1 DEF Min
<1> HIDE DEF m
<1> QED
  BY <1>2 DEF m

LEMMA PositivePart ==
  ASSUME NEW n \in Int
  PROVE  Positive(n) = IF n > 0 THEN n ELSE 0
<1> DEFINE m == Max({n, 0})
<1>1. \E x \in {n, 0} : \A y \in {n, 0} : x >= y
  OBVIOUS
<1>2. m \in {n, 0} /\ \A y \in {n, 0} : m >= y
  BY <1>1 DEF Max
<1> HIDE DEF m
<1>3. m = IF n > 0 THEN n ELSE 0
  BY <1>2
<1>4. Positive(n) = m
  BY DEF m, Positive
<1> QED
  BY <1>3, <1>4

\* A rounded quotient.
LEMMA RoundIsInt ==
  ASSUME NEW n \in Int, NEW d \in Nat \ {0}
  PROVE  Round(n, d) \in Int
BY DEF Round

LEMMA RoundIsNat ==
  ASSUME NEW n \in Nat, NEW d \in Nat \ {0}
  PROVE  Round(n, d) \in Nat
<1> DEFINE k == 2 * n + d
           e == 2 * d
<1>1. k \in Nat /\ e \in Nat \ {0}
  OBVIOUS
<1> HIDE DEF k, e
<1>2. k \div e \in Nat
  BY <1>1
<1> QED
  BY <1>2 DEF Round, k, e

\* What a cart and a store make of each amount.
LEMMA UnitPriceIsNat ==
  ASSUME NEW d, PricedDish(d)
  PROVE  UnitPrice(d) \in Nat
BY DEF UnitPrice, PricedDish

LEMMA ThaliPriceIsNat ==
  ASSUME NEW t, PricedThali(t)
  PROVE  ThaliPrice(t.thali, t.picks) \in Nat
<1> DEFINE picks == t.picks
           chosen == Picked(picks)
           f == [o \in chosen |-> o.extra * Portions(picks, o)]
<1>1. IsFiniteSet(DOMAIN picks) /\ \A i \in DOMAIN picks : picks[i].qty \in Nat /\ picks[i].option.extra \in Nat
  BY DEF PricedThali
<1>2. IsFiniteSet(chosen)
  <2> DEFINE g == [i \in DOMAIN picks |-> picks[i].option]
  <2>1. g \in [DOMAIN picks -> chosen] /\ \A o \in chosen : \E i \in DOMAIN picks : g[i] = o
    BY DEF Picked
  <2> HIDE DEF g, chosen, picks
  <2> QED
    BY <1>1, <2>1, ValuesAreFinite
<1>3. \A o \in chosen : o.extra \in Nat
  BY <1>1 DEF Picked
<1>4. ASSUME NEW o PROVE Portions(picks, o) \in Nat
  <2> DEFINE S == {j \in DOMAIN picks : picks[j].option = o}
             g == [i \in S |-> picks[i].qty]
  <2>1. IsFiniteSet(S) /\ g \in [S -> Nat]
    BY <1>1, FS_Subset
  <2>2. Portions(picks, o) = SumFunction(g)
    BY DEF Portions
  <2> HIDE DEF S, g
  <2> QED
    BY <2>1, <2>2, SumInNat
<1>5. f \in [chosen -> Nat]
  BY <1>3, <1>4
<1>6. ThaliPrice(t.thali, picks) = t.thali.base + SumFunction(f)
  BY DEF ThaliPrice
<1> HIDE DEF f, chosen
<1>7. SumFunction(f) \in Nat
  BY <1>2, <1>5, SumInNat
<1> QED
  BY <1>6, <1>7 DEF PricedThali

LEMMA SubtotalIsNat ==
  ASSUME NEW c, PricedCart(c)
  PROVE  Subtotal(c) \in Nat
<1> DEFINE f == [d \in DOMAIN c.items |-> UnitPrice(d) * c.items[d]]
           g == [i \in DOMAIN c.thalis |-> ThaliPrice(c.thalis[i].thali, c.thalis[i].picks)]
<1>1. f \in [DOMAIN c.items -> Nat]
  <2>1. ASSUME NEW d \in DOMAIN c.items PROVE UnitPrice(d) * c.items[d] \in Nat
    <3>1. UnitPrice(d) \in Nat /\ c.items[d] \in Nat
      BY UnitPriceIsNat DEF PricedCart
    <3> QED
      BY <3>1
  <2> QED
    BY <2>1
<1>2. g \in [DOMAIN c.thalis -> Nat]
  BY ThaliPriceIsNat DEF PricedCart
<1>3. Subtotal(c) = SumFunction(f) + SumFunction(g)
  BY DEF Subtotal, DishesTotal
<1> HIDE DEF f, g
<1>4. SumFunction(f) \in Nat /\ SumFunction(g) \in Nat
  BY <1>1, <1>2, SumInNat DEF PricedCart
<1> QED
  BY <1>3, <1>4

LEMMA CouponWorthIsNat ==
  ASSUME NEW k, k.value \in Nat, k.cap \in Nat, NEW subtotal \in Nat
  PROVE  CouponWorth(k, subtotal) \in Nat
<1> DEFINE plain == IF k.flat THEN k.value ELSE Round(subtotal * k.value, 100)
           capped == IF k.cap > 0 THEN Min({plain, k.cap}) ELSE plain
<1>1. plain \in Nat
  <2>1. subtotal * k.value \in Nat
    OBVIOUS
  <2>2. Round(subtotal * k.value, 100) \in Nat
    BY <2>1, RoundIsNat
  <2> QED
    BY <2>2
<1> HIDE DEF plain
<1>2. capped \in Nat
  BY <1>1, MinOfTwo
<1> HIDE DEF capped
<1>3. Min({capped, subtotal}) \in Nat
  BY <1>2, MinOfTwo
<1> QED
  BY <1>3 DEF CouponWorth, capped, plain

LEMMA DiscountIsNat ==
  ASSUME NEW c, PricedCart(c), PricedShop(shop)
  PROVE  Discount(c) \in Nat
<1> DEFINE f == [k \in c.coupons |-> CouponWorth(k, Subtotal(c))]
<1>1. Subtotal(c) \in Nat
  BY SubtotalIsNat
<1>2. f \in [c.coupons -> Nat]
  BY <1>1, CouponWorthIsNat DEF PricedCart
<1>3. FlashWorth(shop.flash, Subtotal(c), now) \in Nat
  <2>1. Subtotal(c) * shop.flash.pct \in Nat
    BY <1>1 DEF PricedShop
  <2> QED
    BY <2>1, RoundIsNat DEF FlashWorth
<1>4. Discount(c) = SumFunction(f) + FlashWorth(shop.flash, Subtotal(c), now)
  BY DEF Discount
<1> HIDE DEF f
<1>5. SumFunction(f) \in Nat
  BY <1>2, SumInNat DEF PricedCart
<1> QED
  BY <1>3, <1>4, <1>5

LEMMA ChargeIsInt ==
  ASSUME PricedShop(shop), NEW net \in Int, NEW km \in Int
  PROVE  DeliveryCharge(shop, net, km) \in Int
<1>1. 10 * shop.base + km * shop.perKm \in Int
  BY DEF PricedShop
<1>2. Rupee * Round(10 * shop.base + km * shop.perKm, 10 * Rupee) \in Int
  BY <1>1, RoundIsInt DEF Rupee
<1>3. shop.flat \in Int
  BY DEF PricedShop
<1> QED
  BY <1>2, <1>3 DEF DeliveryCharge

LEMMA AmountsAreInts ==
  ASSUME NEW c, PricedCart(c), PricedShop(shop)
  PROVE  /\ Net(c) \in Int /\ Delivery(c) \in Int /\ FlatCharge(c) \in Int
         /\ Tip(c) \in Nat
<1>1. Net(c) \in Int
  BY SubtotalIsNat, DiscountIsNat DEF Net
<1>2. Distance(c) \in Int
  BY DEF Distance, NoPin, PricedCart
<1>3. Delivery(c) \in Int
  BY <1>1, <1>2, ChargeIsInt DEF Delivery
<1>4. FlatCharge(c) \in Int
  BY DEF FlatCharge, PricedShop
<1>5. Tip(c) \in Nat
  <2>1. Min({c.tip, 500 * Rupee}) \in Int
    BY MinOfTwo DEF PricedCart, Rupee
  <2>2. Positive(Min({c.tip, 500 * Rupee})) \in Nat
    BY <2>1, PositivePart
  <2> QED
    BY <2>2 DEF Tip
<1> QED
  BY <1>1, <1>3, <1>4, <1>5

----------------------------------------------------------------------------
(* A quote and the bill it turns into.                                     *)

\* At the moment of the quote the checkout charges the same.
LEMMA SameCharge ==
  ASSUME PricedCart(cart), PricedShop(shop), Acceptable(cart, FALSE), cart.online,
         quote = PriceCart(cart), quote.payable >= Rupee, Addressed(cart), WalletSettled(cart)
  PROVE  CheckoutAccepts(cart) /\ Total(cart) = quote.payable
<1> DEFINE n == Net(cart)
           d == Delivery(cart)
           f == FlatCharge(cart)
           t == Tip(cart)
           b == cart.balance
<1>1. n \in Int /\ d \in Int /\ f \in Int /\ t \in Nat /\ b \in Nat /\ cart.useWallet \in BOOLEAN
  BY AmountsAreInts DEF PricedCart
<1>2. quote.payable = (n + d + t) - FromWallet(cart, n + d + t) /\ quote.state = "open"
  <2>1. PriceCart(cart) = [state |-> "open", delivery |-> d, wallet |-> FromWallet(cart, n + d + t),
                           payable |-> (n + d + t) - FromWallet(cart, n + d + t)]
    BY Zenon DEF PriceCart
  <2> HIDE DEF n, d, t
  <2> QED
    BY <2>1
<1>3. Total(cart) = ((n + f + t) - Positive(FromWallet(cart, n + f + t))) + (d - f)
  BY Zenon DEF Total, DueAfter
<1>4. WalletSettled(cart) <=> ~ cart.useWallet \/ f = d \/ b <= n + t + Min({f, d})
  BY DEF WalletSettled
<1> HIDE DEF n, d, f, t, b
<1>5. \A x \in Int : FromWallet(cart, x) = IF ~ cart.useWallet THEN 0 ELSE IF b <= x THEN b ELSE x
  BY <1>1, MinOfTwo DEF FromWallet, b
<1>6. \A x \in Int : Positive(x) = IF x > 0 THEN x ELSE 0
  BY PositivePart
<1>7. Min({f, d}) = IF f <= d THEN f ELSE d
  BY <1>1, MinOfTwo
<1>8. FromWallet(cart, n + d + t) \in Int /\ FromWallet(cart, n + f + t) \in Int
  BY <1>1, <1>5
<1>9. Total(cart) = quote.payable
  <2>1. PICK v \in Int : v = FromWallet(cart, n + d + t)
    BY <1>8
  <2>2. PICK w \in Int : w = FromWallet(cart, n + f + t)
    BY <1>8
  <2>3. v = IF ~ cart.useWallet THEN 0 ELSE IF b <= n + d + t THEN b ELSE n + d + t
    BY <1>1, <1>5, <2>1
  <2>4. w = IF ~ cart.useWallet THEN 0 ELSE IF b <= n + f + t THEN b ELSE n + f + t
    BY <1>1, <1>5, <2>2
  <2>5. (n + d + t) - v >= 100
    BY <1>2, <2>1 DEF Rupee
  <2>6. w >= 0 /\ v = w
    BY <1>1, <1>4, <1>7, <2>3, <2>4, <2>5
  <2>7. Positive(w) = w
    BY <1>6, <2>6
  <2> QED
    BY <1>1, <1>2, <1>3, <2>1, <2>2, <2>6, <2>7
<1>10. Paid(cart)
  <2>1. quote.payable \in Int
    BY <1>1, <1>2, <1>8
  <2> QED
    BY <1>2, <1>9, <2>1 DEF Paid, Rupee
<1>11. Acceptable(cart, cart.gifted)
  BY DEF Acceptable, CouponTaken, CouponValid, PricedCart
<1> QED
  BY <1>9, <1>10, <1>11 DEF CheckoutAccepts

\* A quote is of no later moment than now, and when of this moment it is what
\* the cart comes to now.
QuoteInv ==
  /\ \E w \in Worlds : cart = w.cart /\ shop = w.shop
  /\ now \in Nat
  /\ quote # Nothing =>
       /\ cart.online /\ quotedAt \in Nat /\ quotedAt <= now
       /\ now = quotedAt =>
            Acceptable(cart, FALSE) /\ quote = PriceCart(cart) /\ quote.payable >= Rupee

\* What a cart comes to depends on the store and the time.
LEMMA SameMoment ==
  ASSUME UNCHANGED <<cart, shop, now>>
  PROVE  (Acceptable(cart, FALSE) => Acceptable(cart, FALSE)') /\ PriceCart(cart)' = PriceCart(cart)
<1>1. /\ Net(cart)' = Net(cart)
      /\ Distance(cart)' = Distance(cart)
      /\ Tip(cart)' = Tip(cart)
  BY DEF Net, Discount, Distance, Tip
<1>2. Delivery(cart)' = Delivery(cart)
  BY <1>1 DEF Delivery
<1>3. PriceCart(cart)' = PriceCart(cart)
  BY <1>1, <1>2 DEF PriceCart
<1>4. Acceptable(cart, FALSE) => Acceptable(cart, FALSE)'
  BY <1>1 DEF Acceptable, ThalisOffered, CouponTaken, WithinOrderLimits, Pinned
<1> QED
  BY <1>3, <1>4

LEMMA QuoteInvInit == CartInit => QuoteInv
BY QuotesAssumption DEF CartInit, QuoteInv

LEMMA QuoteInvNext == QuoteInv /\ [CartNext]_cartVars => QuoteInv'
<1> SUFFICES ASSUME QuoteInv, [CartNext]_cartVars PROVE QuoteInv'
  OBVIOUS
<1>0. PICK w \in Worlds : cart = w.cart /\ shop = w.shop
  BY DEF QuoteInv
<1>1. CASE CreatePaymentOrder
  <2>1. cart' = cart /\ shop' = shop /\ now' = now
    BY <1>1 DEF CreatePaymentOrder
  <2>2. Acceptable(cart, FALSE)' /\ PriceCart(cart)' = PriceCart(cart)
    BY <1>1, <2>1, SameMoment DEF CreatePaymentOrder
  <2>3. quote' = PriceCart(cart)' /\ quote'.payable >= Rupee /\ quotedAt' = now'
    BY <1>1, <2>1, <2>2 DEF CreatePaymentOrder
  <2>4. cart'.online /\ quotedAt' \in Nat /\ quotedAt' <= now'
    BY <1>1 DEF QuoteInv, CreatePaymentOrder
  <2>5. cart' = w.cart /\ shop' = w.shop /\ now' \in Nat
    BY <1>0, <2>1 DEF QuoteInv
  <2> QED
    BY <2>2, <2>3, <2>4, <2>5 DEF QuoteInv
<1>2. CASE Tick
  <2>1. now' = now + 1 /\ now \in Nat /\ cart' = cart /\ shop' = shop /\ quote' = quote /\ quotedAt' = quotedAt
    BY <1>2 DEF Tick, QuoteInv
  <2>2. quote' # Nothing => cart'.online /\ quotedAt' \in Nat /\ quotedAt' <= now'
    BY <2>1 DEF QuoteInv
  <2>3. quote' # Nothing /\ now' = quotedAt' =>
          Acceptable(cart, FALSE)' /\ quote' = PriceCart(cart)' /\ quote'.payable >= Rupee
    BY <2>1 DEF QuoteInv
  <2>4. cart' = w.cart /\ shop' = w.shop /\ now' \in Nat
    BY <1>0, <2>1
  <2> QED
    BY <2>2, <2>3, <2>4 DEF QuoteInv
<1>3. CASE Checkout \/ UNCHANGED cartVars
  <2>1. cart' = cart /\ shop' = shop /\ now' = now /\ quote' = quote /\ quotedAt' = quotedAt
    BY <1>3 DEF Checkout, cartVars
  <2>2. (Acceptable(cart, FALSE) => Acceptable(cart, FALSE)') /\ PriceCart(cart)' = PriceCart(cart)
    BY <2>1, SameMoment
  <2>3. quote' # Nothing => cart'.online /\ quotedAt' \in Nat /\ quotedAt' <= now'
    BY <2>1 DEF QuoteInv
  <2>4. quote' # Nothing /\ now' = quotedAt' => quote # Nothing /\ now = quotedAt
    BY <2>1
  <2>5. quote' # Nothing /\ now' = quotedAt' =>
          Acceptable(cart, FALSE)' /\ quote' = PriceCart(cart)' /\ quote'.payable >= Rupee
    <3> SUFFICES ASSUME quote' # Nothing, now' = quotedAt'
                 PROVE Acceptable(cart, FALSE)' /\ quote' = PriceCart(cart)' /\ quote'.payable >= Rupee
      OBVIOUS
    <3>1. Acceptable(cart, FALSE) /\ quote = PriceCart(cart) /\ quote.payable >= Rupee
      BY <2>4 DEF QuoteInv
    <3> QED
      BY <2>1, <2>2, <3>1
  <2>6. cart' = w.cart /\ shop' = w.shop /\ now' \in Nat
    BY <1>0, <2>1 DEF QuoteInv
  <2> QED
    BY <2>3, <2>5, <2>6 DEF QuoteInv
<1> QED
  BY <1>1, <1>2, <1>3 DEF CartNext

\* A quote of this moment is honoured.
LEMMA QuoteInvHonours == QuoteInv => QuoteIsHonoured
<1> SUFFICES ASSUME QuoteInv, quote # Nothing, now = quotedAt, Addressed(cart), WalletSettled(cart)
             PROVE  CheckoutAccepts(cart) /\ Total(cart) = quote.payable
  BY DEF QuoteIsHonoured
<1>1. PricedCart(cart) /\ PricedShop(shop)
  BY QuotesAssumption DEF QuoteInv
<1> QED
  BY <1>1, SameCharge DEF QuoteInv

----------------------------------------------------------------------------
(* What is announced.                                                      *)

\* A moment lies in its day, ...
LEMMA MomentInDay ==
  ASSUME NEW t \in Int
  PROVE  /\ Day(t) \in Int /\ Minute(t) \in 0 .. DayMinutes - 1
         /\ t = Day(t) * DayMinutes + Minute(t)
BY CalendarAssumption DEF Day, Minute

\* ... and in no other.
LEMMA OneDay ==
  ASSUME NEW d \in Int, NEW m \in 0 .. DayMinutes - 1
  PROVE  Day(d * DayMinutes + m) = d /\ Minute(d * DayMinutes + m) = m
<1> DEFINE t == d * DayMinutes + m
           e == Day(t)
           n == Minute(t)
<1>1. t \in Int /\ DayMinutes \in Nat \ {0}
  BY CalendarAssumption
<1>2. e \in Int /\ n \in 0 .. DayMinutes - 1 /\ t = e * DayMinutes + n
  BY <1>1, MomentInDay
<1>3. d * DayMinutes \in Int /\ e * DayMinutes \in Int /\ t = d * DayMinutes + m
  BY <1>1, <1>2
<1> HIDE DEF t, e, n
<1>4. ~ d < e
  <2> SUFFICES ASSUME d + 1 <= e PROVE FALSE
    BY <1>2
  <2>1. (d + 1) * DayMinutes <= e * DayMinutes
    BY <1>1, <1>2, TimesGrows
  <2>2. (d + 1) * DayMinutes = d * DayMinutes + DayMinutes
    BY <1>1
  <2> QED
    BY <1>1, <1>2, <1>3, <2>1, <2>2
<1>5. ~ e < d
  <2> SUFFICES ASSUME e + 1 <= d PROVE FALSE
    BY <1>2
  <2>1. (e + 1) * DayMinutes <= d * DayMinutes
    BY <1>1, <1>2, TimesGrows
  <2>2. (e + 1) * DayMinutes = e * DayMinutes + DayMinutes
    BY <1>1, <1>2
  <2> QED
    BY <1>1, <1>2, <1>3, <2>1, <2>2
<1>6. e = d /\ n = m
  BY <1>1, <1>2, <1>3, <1>4, <1>5
<1> QED
  BY <1>6 DEF t, e, n

LEMMA LaterDay ==
  ASSUME NEW s \in Int, NEW t \in Int, s <= t
  PROVE  Day(s) <= Day(t) /\ (Day(s) = Day(t) => Minute(s) <= Minute(t))
<1> DEFINE d == Day(s)
           e == Day(t)
<1>1. DayMinutes \in Nat \ {0}
  BY CalendarAssumption
<1>2. /\ d \in Int /\ Minute(s) \in 0 .. DayMinutes - 1 /\ s = d * DayMinutes + Minute(s)
      /\ e \in Int /\ Minute(t) \in 0 .. DayMinutes - 1 /\ t = e * DayMinutes + Minute(t)
  BY MomentInDay
<1> HIDE DEF d, e
<1>3. d * DayMinutes \in Int /\ e * DayMinutes \in Int
  BY <1>1, <1>2
<1>4. ~ e < d
  <2> SUFFICES ASSUME e + 1 <= d PROVE FALSE
    BY <1>2
  <2>1. (e + 1) * DayMinutes <= d * DayMinutes
    BY <1>1, <1>2, TimesGrows
  <2>2. (e + 1) * DayMinutes = e * DayMinutes + DayMinutes
    BY <1>1, <1>2
  <2> QED
    BY <1>1, <1>2, <1>3, <2>1, <2>2
<1>5. d <= e /\ (d = e => Minute(s) <= Minute(t))
  BY <1>1, <1>2, <1>3, <1>4
<1> QED
  BY <1>5 DEF d, e

\* Hours are within a day.
LEMMA HoursInDay ==
  ASSUME PricedShop(shop), NEW d \in Int
  PROVE  /\ Hours(shop, d).open \in 0 .. DayMinutes - 1
         /\ Hours(shop, d).close \in 0 .. DayMinutes
<1>1. d % Week \in 0 .. Week - 1
  BY CalendarAssumption
<1> QED
  BY <1>1 DEF PricedShop, Hours

\* A day's opening is in it, and before it the store is closed.
LEMMA OpeningIs ==
  ASSUME PricedShop(shop), ~ shop.forceClosed, NEW d \in Nat
  PROVE  LET at == Opening(shop, d)
         IN /\ at \in Nat /\ Day(at) = d
            /\ Served(shop, d) => IsOpen(shop, at)
            /\ \A t \in Int : Day(t) = d /\ t < at => ~ IsOpen(shop, t)
<1> DEFINE at == Opening(shop, d)
           m == Hours(shop, d).open
<1>1. m \in 0 .. DayMinutes - 1 /\ DayMinutes \in Nat \ {0} /\ Hours(shop, d).close \in 0 .. DayMinutes
  BY HoursInDay, CalendarAssumption
<1>2. at = d * DayMinutes + m /\ d * DayMinutes \in Nat
  BY <1>1 DEF Opening
<1>3. Day(at) = d /\ Minute(at) = m
  <2>1. \A k \in 0 .. DayMinutes - 1 : Day(d * DayMinutes + k) = d /\ Minute(d * DayMinutes + k) = k
    BY OneDay
  <2> HIDE DEF at, m
  <2> QED
    BY <1>1, <1>2, <2>1
<1>4. at \in Nat
  BY <1>1, <1>2
<1>5. ASSUME NEW t \in Int, Day(t) = d, t < at PROVE ~ IsOpen(shop, t)
  <2>1. t = d * DayMinutes + Minute(t) /\ Minute(t) \in Int
    BY <1>1, <1>5, MomentInDay
  <2>2. Minute(t) < m
    BY <1>1, <1>2, <1>5, <2>1
  <2> QED
    BY <1>1, <1>5, <2>1, <2>2 DEF IsOpen
<1>6. Served(shop, d) => IsOpen(shop, at)
  BY <1>1, <1>3 DEF IsOpen, Served
<1> QED
  BY <1>3, <1>4, <1>5, <1>6

\* nextOpen looks at a week, in which every weekday comes once.
LEMMA NextOpenHolds ==
  ASSUME PricedShop(shop), now \in Nat
  PROVE  NextOpenIsReal
<1> SUFFICES ASSUME ~ IsOpen(shop, now), ~ shop.forceClosed
             PROVE  LET at == NextOpenAt(shop, now)
                    IN IF at = Never
                         THEN \A t \in now .. now + Week * DayMinutes : ~ IsOpen(shop, t)
                         ELSE /\ \A t \in now .. at - 1 : ~ IsOpen(shop, t)
                              /\ IsOpen(shop, at) \/ Misconfigured(Day(at))
  BY DEF NextOpenIsReal
<1> DEFINE today == Day(now)
           days == {d \in Scan(today) : Listed(shop, d)}
           at == NextOpenAt(shop, now)
<1>0. DayMinutes \in Nat \ {0} /\ Week \in Nat \ {0} /\ Never = -1
  BY CalendarAssumption DEF Never
<1>1. today \in Nat
  <2>1. today \in Int /\ Minute(now) \in 0 .. DayMinutes - 1 /\ now = today * DayMinutes + Minute(now)
    BY MomentInDay
  <2>2. Day(0) = 0
    <3>1. 0 \in 0 .. DayMinutes - 1 /\ 0 * DayMinutes + 0 = 0
      BY <1>0
    <3> QED
      BY <3>1, OneDay
  <2>3. 0 <= today
    BY <2>2, LaterDay
  <2> QED
    BY <2>1, <2>3
<1> HIDE DEF today
<1>2. CASE Served(shop, today) /\ Minute(now) < Hours(shop, today).open
  <2>1. at = Opening(shop, today)
    BY <1>2 DEF NextOpenAt, today
  <2>2. at \in Nat /\ Day(at) = today /\ IsOpen(shop, at) /\ \A t \in Int : Day(t) = today /\ t < at => ~ IsOpen(shop, t)
    BY <1>1, <1>2, <2>1, OpeningIs
  <2>3. ASSUME NEW t \in now .. at - 1 PROVE ~ IsOpen(shop, t)
    <3>1. t \in Int /\ now <= t /\ t < at /\ t <= at
      BY <2>2
    <3>2. Day(now) <= Day(t) /\ Day(t) <= Day(at) /\ Day(t) \in Int
      BY <2>2, <3>1, LaterDay, MomentInDay
    <3>3. Day(t) = today
      BY <1>1, <2>2, <3>2 DEF today
    <3> QED
      BY <2>2, <3>1, <3>3
  <2> QED
    BY <1>0, <2>2, <2>3
<1>3. CASE ~ (Served(shop, today) /\ Minute(now) < Hours(shop, today).open)
  <2>1. at = NextOpen(shop, today)
    BY <1>3 DEF NextOpenAt, today
  \* The rest of today the store stays closed.
  <2>2. ASSUME NEW t \in Int, now <= t, Day(t) = today PROVE ~ IsOpen(shop, t)
    <3>1. Minute(now) <= Minute(t) /\ Minute(now) \in Int /\ Minute(t) \in Int
      BY <2>2, LaterDay, MomentInDay DEF today
    <3>2. Hours(shop, today).open \in Int /\ Hours(shop, today).close \in Int
      BY <1>1, HoursInDay
    <3>3. Served(shop, today) => Hours(shop, today).close <= Minute(now)
      BY <1>3, <3>1, <3>2 DEF IsOpen, today
    <3> QED
      BY <2>2, <3>1, <3>2, <3>3 DEF IsOpen
  <2>3. CASE days = {}
    <3>1. at = Never
      BY <2>1, <2>3 DEF NextOpen
    <3>2. ASSUME NEW t \in now .. now + Week * DayMinutes PROVE ~ IsOpen(shop, t)
      <4>0. Week * DayMinutes \in Nat
        BY <1>0
      <4>1. t \in Int /\ now <= t /\ t <= now + Week * DayMinutes
        BY <4>0
      <4>2. today <= Day(t) /\ Day(t) \in Int
        BY <4>1, LaterDay, MomentInDay DEF today
      <4>3. Day(t) <= today + Week
        <5>1. Minute(now) \in 0 .. DayMinutes - 1 /\ now = today * DayMinutes + Minute(now)
          BY MomentInDay DEF today
        <5>2. now + Week * DayMinutes = (today + Week) * DayMinutes + Minute(now)
          BY <1>0, <1>1, <5>1
        <5>3. Day(now + Week * DayMinutes) = today + Week
          BY <1>0, <1>1, <5>1, <5>2, OneDay
        <5> QED
          BY <4>0, <4>1, <5>3, LaterDay
      <4>4. CASE Day(t) = today
        BY <2>2, <4>1, <4>4
      <4>5. CASE Day(t) # today
        <5>1. Day(t) \in Scan(today)
          BY <1>0, <1>1, <4>2, <4>3, <4>5 DEF Scan
        <5>2. ~ Listed(shop, Day(t))
          BY <2>3, <5>1
        <5> QED
          BY <5>2 DEF IsOpen, Served
      <4> QED
        BY <4>4, <4>5
    <3> QED
      BY <3>1, <3>2
  <2>4. CASE days # {}
    <3> DEFINE m == Min(days)
    <3>1. m \in days /\ \A d \in days : m <= d
      <4>1. \E x \in days : \A y \in days : x <= y
        <5>1. days \in SUBSET Nat
          BY <1>0, <1>1 DEF Scan
        <5> HIDE DEF days
        <5> QED
          BY <2>4, <5>1, LeastOf
      <4> HIDE DEF days
      <4> QED
        BY <4>1 DEF Min
    <3>2. at = Opening(shop, m)
      BY <2>1, <2>4 DEF NextOpen
    <3>3. m \in Nat /\ today < m /\ m <= today + Week /\ Listed(shop, m)
      BY <1>0, <1>1, <3>1 DEF Scan
    <3> HIDE DEF m
    <3>4. /\ at \in Nat /\ Day(at) = m /\ (Served(shop, m) => IsOpen(shop, at))
          /\ \A t \in Int : Day(t) = m /\ t < at => ~ IsOpen(shop, t)
      BY <3>2, <3>3, OpeningIs
    <3>5. IsOpen(shop, at) \/ Misconfigured(Day(at))
      BY <3>3, <3>4 DEF Misconfigured
    <3>6. ASSUME NEW t \in now .. at - 1 PROVE ~ IsOpen(shop, t)
      <4>1. t \in Int /\ now <= t /\ t < at /\ t <= at
        BY <3>4
      <4>2. today <= Day(t) /\ Day(t) <= m /\ Day(t) \in Int
        BY <3>4, <4>1, LaterDay, MomentInDay DEF today
      <4>3. CASE Day(t) = today
        BY <2>2, <4>1, <4>3
      <4>4. CASE today < Day(t) /\ Day(t) < m
        <5>1. Day(t) \in Scan(today)
          BY <1>0, <1>1, <3>3, <4>2, <4>4 DEF Scan
        <5>2. ~ Listed(shop, Day(t))
          BY <3>1, <3>3, <4>2, <4>4, <5>1
        <5> QED
          BY <5>2 DEF IsOpen, Served
      <4>5. CASE Day(t) = m
        BY <3>4, <4>1, <4>5
      <4> QED
        BY <1>1, <3>3, <4>2, <4>3, <4>4, <4>5
    <3> QED
      BY <1>0, <3>4, <3>5, <3>6
  <2> QED
    BY <2>3, <2>4
<1> QED
  BY <1>2, <1>3

\* The list's filter and evaluateOffer agree.
LEMMA OffersHold ==
  ASSUME PricedCart(cart)
  PROVE  ListedOffersApply
<1> SUFFICES ASSUME NEW o \in Offers, OfferListed(o, now), ~ OfferExhausted(o, cart.usedByUser),
                    Subtotal(cart) >= o.min,
                    \/ o.type = "free_item" /\ o.hasItem
                    \/ o.type = "free_delivery" /\ Delivery(cart) > 0
                    \/ OfferWorth(o, Subtotal(cart)) > 0
             PROVE  OfferValid(o, Subtotal(cart), Delivery(cart), cart.usedByUser, now)
  BY DEF ListedOffersApply
<1>1. cart.usedByUser \in Nat /\ o.perUser \in Nat
  BY QuotesAssumption DEF PricedCart
<1>2. cart.usedByUser < o.perUser
  BY <1>1 DEF OfferExhausted
<1>3. o.active /\ OfferInWindow(o, now) /\ (o.limited => o.used < o.limit)
  BY DEF OfferListed, OfferInWindow
<1> DEFINE w == OfferWorth(o, Subtotal(cart))
<1>4. o.type \in {"free_item", "free_delivery"} => w = 0
  BY DEF OfferWorth
<1>5. ASSUME o.type = "free_item" PROVE o.hasItem
  BY <1>4, <1>5
<1>6. ASSUME o.type = "free_delivery" PROVE Delivery(cart) > 0
  BY <1>4, <1>6
<1>7. ASSUME o.type # "free_item", o.type # "free_delivery" PROVE w > 0
  BY <1>7
<1> HIDE DEF w
<1> QED
  BY <1>2, <1>3, <1>5, <1>6, <1>7 DEF OfferValid, w

----------------------------------------------------------------------------
(* Rate lists.                                                             *)

PricedEntry(e) == e.rate \in Int /\ e.onSale \in BOOLEAN

\* One entry sets the rate of its dish and leaves the others.
LEMMA SaveOne ==
  ASSUME NEW rates, PricedRates(rates), NEW e, PricedEntry(e)
  PROVE  /\ PricedRates(SaveRate(rates, e))
         /\ RateOf(SaveRate(rates, e), e.dish) = Positive(e.rate)
         /\ Offered(SaveRate(rates, e), e.dish) <=> e.onSale
         /\ \A d : d # e.dish => /\ RateOf(SaveRate(rates, e), d) = RateOf(rates, d)
                                 /\ Offered(SaveRate(rates, e), d) <=> Offered(rates, d)
<1> DEFINE rate == IF e.rate <= 0 THEN WebsiteRate ELSE e.rate
           others == DOMAIN rates \ {e.dish}
           saved == SaveRate(rates, e)
<1>1. rate \in Nat /\ rate = Positive(e.rate) /\ WebsiteRate = 0
  BY PositivePart DEF PricedEntry, WebsiteRate
<1>2. saved = IF rate = WebsiteRate /\ e.onSale THEN [d \in others |-> rates[d]]
              ELSE [d \in others \cup {e.dish} |->
                      IF d = e.dish THEN [rate |-> rate, onSale |-> e.onSale] ELSE rates[d]]
  BY DEF SaveRate
<1> HIDE DEF rate, saved
<1>3. CASE rate = WebsiteRate /\ e.onSale
  <2>1. DOMAIN saved = others /\ \A d \in others : saved[d] = rates[d]
    BY <1>2, <1>3
  <2> QED
    BY <1>1, <1>3, <2>1 DEF PricedRates, RateOf, Offered, saved
<1>4. CASE ~ (rate = WebsiteRate /\ e.onSale)
  <2>1. DOMAIN saved = others \cup {e.dish} /\ \A d \in others : saved[d] = rates[d]
    BY <1>2, <1>4
  <2>2. saved[e.dish].rate = rate /\ saved[e.dish].onSale = e.onSale
    BY <1>2, <1>4
  <2> QED
    BY <1>1, <2>1, <2>2 DEF PricedRates, PricedEntry, RateOf, Offered, saved
<1> QED
  BY <1>3, <1>4

Saving(g, rates, list, n) ==
  g = [k \in 0 .. n |-> IF k = 0 THEN rates ELSE SaveRate(g[k - 1], list[k])]

\* The list after each entry.
LEMMA SavingExists ==
  ASSUME NEW rates, NEW list, NEW n \in Nat
  PROVE  \E g : Saving(g, rates, list, n)
<1> DEFINE Bad == {k \in Nat : ~ \E g : Saving(g, rates, list, k)}
<1> SUFFICES ASSUME Bad # {} PROVE FALSE
  OBVIOUS
<1>1. PICK k \in Bad : \A j \in Bad : k <= j
  <2>1. Bad \in SUBSET Nat
    OBVIOUS
  <2> HIDE DEF Bad
  <2> QED
    BY <2>1, LeastOf
<1>2. CASE k = 0
  <2>1. Saving([j \in 0 .. 0 |-> rates], rates, list, 0)
    BY DEF Saving
  <2> QED
    BY <1>2, <2>1
<1>3. CASE k # 0
  <2>1. k - 1 \in Nat /\ k - 1 \notin Bad
    BY <1>1, <1>3
  <2>2. PICK h : Saving(h, rates, list, k - 1)
    BY <2>1
  <2> DEFINE g == [j \in 0 .. k |-> IF j = k THEN SaveRate(h[k - 1], list[k]) ELSE h[j]]
  <2>3. \A j \in 0 .. k - 1 : h[j] = IF j = 0 THEN rates ELSE SaveRate(h[j - 1], list[j])
    BY <2>2 DEF Saving
  <2>4. \A j \in 0 .. k : g[j] = IF j = 0 THEN rates ELSE SaveRate(g[j - 1], list[j])
    BY <1>3, <2>1, <2>3
  <2>5. g = [j \in 0 .. k |-> g[j]]
    OBVIOUS
  <2> HIDE DEF g
  <2>6. Saving(g, rates, list, k)
    BY <2>4, <2>5 DEF Saving
  <2> QED
    BY <1>1, <2>6
<1> QED
  BY <1>2, <1>3

\* The list is saved entry by entry.
LEMMA SavedBySteps ==
  ASSUME NEW rates, NEW list, Len(list) \in Nat
  PROVE  \E g : Saving(g, rates, list, Len(list)) /\ SaveRates(rates, list) = g[Len(list)]
<1> DEFINE g == CHOOSE h : Saving(h, rates, list, Len(list))
<1>1. SaveRates(rates, list) = g[Len(list)]
  BY DEF SaveRates, Saving
<1>2. Saving(g, rates, list, Len(list))
  BY SavingExists
<1> QED
  BY <1>1, <1>2

\* Each dish is left as the last entry for it says.
LEMMA SavedRates ==
  ASSUME NEW rates, PricedRates(rates), NEW list, Len(list) \in Nat, DOMAIN list = 1 .. Len(list),
         \A i \in DOMAIN list : PricedEntry(list[i])
  PROVE  PricedRates(SaveRates(rates, list)) /\ SavedAsTyped(rates, list)
<1>1. PICK g : Saving(g, rates, list, Len(list)) /\ SaveRates(rates, list) = g[Len(list)]
  BY SavedBySteps
<1> DEFINE n == Len(list)
           Kept(k) ==
             /\ PricedRates(g[k])
             /\ \A i \in 1 .. k :
                  (\A j \in 1 .. k : j > i => list[j].dish # list[i].dish) =>
                    /\ RateOf(g[k], list[i].dish) = Positive(list[i].rate)
                    /\ Offered(g[k], list[i].dish) <=> list[i].onSale
           Bad == {k \in 0 .. n : ~ Kept(k)}
<1>2. \A k \in 0 .. n : g[k] = IF k = 0 THEN rates ELSE SaveRate(g[k - 1], list[k])
  BY <1>1 DEF Saving
<1>3. Kept(n)
  <2> SUFFICES ASSUME Bad # {} PROVE FALSE
    OBVIOUS
  <2>1. PICK k \in Bad : \A j \in Bad : k <= j
    <3>1. Bad \in SUBSET Nat
      OBVIOUS
    <3> HIDE DEF Bad
    <3> QED
      BY <3>1, LeastOf
  <2>2. CASE k = 0
    <3>1. Kept(0)
      BY <1>2
    <3> QED
      BY <2>1, <2>2, <3>1
  <2>3. CASE k # 0
    <3>1. k - 1 \in 0 .. n /\ k - 1 \notin Bad
      BY <2>1, <2>3
    <3>2. Kept(k - 1)
      BY <3>1
    <3>3. k \in 1 .. n /\ g[k] = SaveRate(g[k - 1], list[k]) /\ PricedEntry(list[k])
      BY <1>2, <2>1, <2>3
    <3>4. /\ PricedRates(g[k])
          /\ RateOf(g[k], list[k].dish) = Positive(list[k].rate)
          /\ Offered(g[k], list[k].dish) <=> list[k].onSale
          /\ \A d : d # list[k].dish => /\ RateOf(g[k], d) = RateOf(g[k - 1], d)
                                        /\ Offered(g[k], d) <=> Offered(g[k - 1], d)
      BY <3>2, <3>3, SaveOne
    <3>5. ASSUME NEW i \in 1 .. k, \A j \in 1 .. k : j > i => list[j].dish # list[i].dish
          PROVE  /\ RateOf(g[k], list[i].dish) = Positive(list[i].rate)
                 /\ Offered(g[k], list[i].dish) <=> list[i].onSale
      <4>1. CASE i = k
        BY <3>4, <4>1
      <4>2. CASE i # k
        <5>1. i \in 1 .. k - 1 /\ list[k].dish # list[i].dish
          BY <3>3, <3>5, <4>2
        <5>2. \A j \in 1 .. k - 1 : j > i => list[j].dish # list[i].dish
          BY <3>3, <3>5
        <5>3. /\ RateOf(g[k - 1], list[i].dish) = Positive(list[i].rate)
              /\ Offered(g[k - 1], list[i].dish) <=> list[i].onSale
          BY <3>2, <5>1, <5>2
        <5> QED
          BY <3>4, <5>1, <5>3
      <4> QED
        BY <4>1, <4>2
    <3>6. Kept(k)
      BY <3>4, <3>5
    <3> QED
      BY <2>1, <3>6
  <2> QED
    BY <2>2, <2>3
<1> QED
  BY <1>1, <1>3 DEF SavedAsTyped

----------------------------------------------------------------------------
(* Bills.                                                                  *)

\* createBill prices as the menu does.
LEMMA MenuIsBilled ==
  ASSUME NEW rates, NEW dishes, NEW entries, \A i \in DOMAIN entries : entries[i].dish \in dishes
  PROVE  BilledAsShown(rates, dishes, entries)
<1> DEFINE menu == Menu(rates, dishes)
           lines == BillLines(rates, entries)
           Shown(d) == d.active /\ Offered(rates, d) /\ CounterPrice(rates, d) > 0
<1>1. \A l \in lines : l.dish \in dishes /\ l.price = CounterPrice(rates, l.dish)
  BY DEF BillLines
<1>2. \A d \in dishes : Shown(d) => [dish |-> d, price |-> CounterPrice(rates, d)] \in menu
  BY DEF Menu
<1>3. \A d \in dishes : d \in {m.dish : m \in menu} <=> Shown(d)
  <2>1. \A m \in menu : Shown(m.dish)
    BY DEF Menu
  <2>2. \A d : [dish |-> d, price |-> CounterPrice(rates, d)].dish = d
    OBVIOUS
  <2> HIDE DEF menu, Shown
  <2> QED
    BY <1>2, <2>1, <2>2
<1>4. BillAccepted(rates, entries) <=> \A l \in lines : Shown(l.dish) /\ l.qty <= MaxQuantity
  BY <1>1 DEF BillAccepted
<1> HIDE DEF menu, lines, Shown
<1>5. BillAccepted(rates, entries) <=>
        \A l \in lines : l.qty <= MaxQuantity /\ l.dish \in {m.dish : m \in menu}
  BY <1>1, <1>3, <1>4
<1>6. BillAccepted(rates, entries) => \A l \in lines : [dish |-> l.dish, price |-> l.price] \in menu
  BY <1>1, <1>2, <1>4
<1> QED
  BY <1>5, <1>6 DEF BilledAsShown, menu, lines

\* A bill's subtotal.
LEMMA BillSubtotalIsNat ==
  ASSUME NEW rates, PricedRates(rates), NEW entries, IsFiniteSet(DOMAIN entries),
         \A i \in DOMAIN entries : entries[i].qty \in Nat /\ PricedDish(entries[i].dish)
  PROVE  BillSubtotal(rates, entries) \in Nat
<1> DEFINE lines == BillLines(rates, entries)
           f == [l \in lines |-> l.qty * l.price]
           line == [i \in DOMAIN entries |->
                      [dish |-> entries[i].dish, qty |-> Quantity(entries, entries[i].dish),
                       price |-> CounterPrice(rates, entries[i].dish)]]
<1>1. ASSUME NEW d PROVE Quantity(entries, d) \in Nat
  <2> DEFINE S == {j \in DOMAIN entries : entries[j].dish = d}
             g == [i \in S |-> entries[i].qty]
  <2>1. IsFiniteSet(S) /\ g \in [S -> Nat]
    BY FS_Subset
  <2>2. Quantity(entries, d) = SumFunction(g)
    BY DEF Quantity
  <2> HIDE DEF S, g
  <2> QED
    BY <2>1, <2>2, SumInNat
<1>2. ASSUME NEW d, PricedDish(d) PROVE CounterPrice(rates, d) \in Nat
  BY <1>2, UnitPriceIsNat DEF CounterPrice, RateOf, WebsiteRate, PricedRates
<1>3. IsFiniteSet(lines)
  <2>1. line \in [DOMAIN entries -> lines] /\ \A l \in lines : \E i \in DOMAIN entries : line[i] = l
    BY DEF BillLines
  <2> HIDE DEF line, lines
  <2> QED
    BY <2>1, ValuesAreFinite
<1>4. \A l \in lines : l.qty \in Nat /\ l.price \in Nat
  BY <1>1, <1>2 DEF BillLines
<1>5. f \in [lines -> Nat]
  <2> HIDE DEF lines
  <2> QED
    BY <1>4
<1>6. BillSubtotal(rates, entries) = SumFunction(f)
  BY DEF BillSubtotal
<1> HIDE DEF lines, f
<1> QED
  BY <1>3, <1>5, <1>6, SumInNat

\* cgst and sgst are the tax.
LEMMA HalvesAddUp ==
  ASSUME NEW tax \in Int
  PROVE  Halves(tax).cgst + Halves(tax).sgst = tax /\ Halves(tax).cgst \in Int /\ Halves(tax).sgst \in Int
<1>1. Round(tax, 2) \in Int
  BY RoundIsInt
<1> QED
  BY <1>1 DEF Halves

\* A total is in whole rupees, half a rupee off at most.
LEMMA RoundedRupee ==
  ASSUME NEW n \in Int
  PROVE  Rupee * Round(n, Rupee) \in Int /\ Rupee * Round(n, Rupee) - n \in -50 .. 50
<1>1. PICK q \in Int : q = (2 * n + 100) \div 200 /\ 200 * q <= 2 * n + 100 /\ 2 * n + 100 < 200 * q + 200
  OBVIOUS
<1> QED
  BY <1>1 DEF Round, Rupee

\* A quotient is below what the dividend is below.
LEMMA QuotientBelow ==
  ASSUME NEW a \in Int, NEW b \in Nat \ {0}, NEW c \in Int, a < b * c
  PROVE  a \div b < c
<1> DEFINE q == a \div b
<1>1. q \in Int /\ b * q <= a
  OBVIOUS
<1> HIDE DEF q
<1>2. ~ c <= q
  <2> SUFFICES ASSUME c <= q PROVE FALSE
    OBVIOUS
  <2>1. c * b <= q * b
    BY <1>1, TimesGrows
  <2>2. c * b = b * c /\ q * b = b * q /\ b * c \in Int /\ b * q \in Int
    BY <1>1
  <2> QED
    BY <1>1, <2>1, <2>2
<1> QED
  BY <1>1, <1>2 DEF q

\* A tax of up to 28 percent is within what it is on.
LEMMA TaxWithin ==
  ASSUME NEW base \in Nat, base > 0, NEW rate \in 0 .. 28
  PROVE  /\ Round(base * rate, 100) \in Nat /\ Round(base * rate, 100) <= base
         /\ Round(base * rate, 100 + rate) \in Nat /\ Round(base * rate, 100 + rate) <= base
<1> DEFINE x == base * rate
<1>1. x \in Nat /\ x <= 28 * base
  <2>1. rate * base <= 28 * base
    BY TimesGrows
  <2>2. x = rate * base /\ x \in Nat
    OBVIOUS
  <2> QED
    BY <2>1, <2>2
<1>2. Round(x, 100) \in Nat /\ Round(x, 100 + rate) \in Nat
  <2> HIDE DEF x
  <2> QED
    BY <1>1, RoundIsNat
<1>3. (200 + 2 * rate) * (base + 1) = 200 * base + 2 * x + 200 + 2 * rate
  OBVIOUS
<1> HIDE DEF x
<1>4. (2 * x + 100) \div 200 < base + 1
  BY <1>1
<1>5. (2 * x + (100 + rate)) \div (200 + 2 * rate) < base + 1
  <2>1. 2 * x + (100 + rate) < (200 + 2 * rate) * (base + 1)
    BY <1>1, <1>3
  <2> QED
    BY <1>1, <2>1, QuotientBelow
<1>6. Round(x, 100) < base + 1 /\ Round(x, 100 + rate) < base + 1
  <2>1. 2 * 100 = 200 /\ 2 * (100 + rate) = 200 + 2 * rate
    OBVIOUS
  <2> QED
    BY <1>4, <1>5, <2>1 DEF Round
<1> QED
  BY <1>2, <1>6 DEF x

----------------------------------------------------------------------------
(* What a bill's parts make.                                               *)

\* computeGst.
LEMMA GstIsPart ==
  ASSUME PricedShop(shop), NEW food \in Int, NEW delivery \in Int
  PROVE  LET g == Gst(shop.gst, food, delivery)
         IN /\ g.tax \in Int /\ g.halves.cgst + g.halves.sgst = g.tax
            /\ food \in Nat /\ delivery = 0 => g.tax <= food
<1> DEFINE base == food + (IF shop.gst.onDelivery THEN delivery ELSE 0)
           rate == shop.gst.rate
           tax == IF ~ shop.gst.on \/ base <= 0 THEN 0
                  ELSE IF shop.gst.inclusive THEN Round(base * rate, 100 + rate)
                  ELSE Round(base * rate, 100)
<1>1. base \in Int /\ rate \in 0 .. 28
  BY DEF PricedShop
<1>2. Gst(shop.gst, food, delivery) = [tax |-> tax, halves |-> Halves(tax)]
  BY Zenon DEF Gst
<1>3. food \in Nat /\ delivery = 0 => base = food
  OBVIOUS
<1>4. tax \in Int /\ (base \in Nat => tax <= base)
  <2> HIDE DEF base, rate
  <2>1. CASE ~ shop.gst.on \/ base <= 0
    BY <2>1
  <2>2. CASE ~ (~ shop.gst.on \/ base <= 0)
    <3>1. base \in Nat /\ base > 0
      BY <1>1, <2>2
    <3>2. tax \in {Round(base * rate, 100 + rate), Round(base * rate, 100)}
      BY <2>2
    <3>3. /\ Round(base * rate, 100) \in Nat /\ Round(base * rate, 100) <= base
          /\ Round(base * rate, 100 + rate) \in Nat /\ Round(base * rate, 100 + rate) <= base
      BY <1>1, <3>1, TaxWithin
    <3>4. \A x \in {Round(base * rate, 100 + rate), Round(base * rate, 100)} : x \in Int /\ x <= base
      BY <3>3
    <3> HIDE DEF tax
    <3> QED
      BY <3>2, <3>4
  <2> QED
    BY <2>1, <2>2
<1> HIDE DEF tax, base
<1>5. Halves(tax).cgst + Halves(tax).sgst = tax
  BY <1>4, HalvesAddUp
<1> QED
  BY <1>2, <1>3, <1>4, <1>5

\* billTotals.
LEMMA CounterBillAddsUp ==
  ASSUME PricedShop(shop), NEW subtotal \in Nat, NEW percent, NEW value \in Nat
  PROVE  LET t == BillTotals(shop.gst, subtotal, percent, value)
         IN /\ t.taxable + t.halves.cgst + t.halves.sgst + t.roundOff = t.total
            /\ t.roundOff \in -50 .. 50
<1> DEFINE gst == shop.gst
           off == IF percent THEN Round(subtotal * Min({value, 100}), 100) ELSE value
           discount == Min({subtotal, off})
           net == subtotal - discount
           taxed == gst.on /\ net > 0
           taxable == IF taxed /\ gst.inclusive THEN Round(100 * net, 100 + gst.rate) ELSE net
           tax == IF ~ taxed THEN 0 ELSE IF gst.inclusive THEN net - taxable ELSE Round(net * gst.rate, 100)
           total == Rupee * Round(taxable + tax, Rupee)
<1>1. BillTotals(gst, subtotal, percent, value) =
        [discount |-> discount, taxable |-> taxable, halves |-> Halves(tax),
         roundOff |-> total - (taxable + tax), total |-> total]
  BY Zenon DEF BillTotals
<1>2. gst.rate \in 0 .. 28
  BY DEF PricedShop
<1>3. net \in Int
  <2>1. Min({value, 100}) \in Int
    BY MinOfTwo
  <2>2. subtotal * Min({value, 100}) \in Int
    BY <2>1
  <2>3. Round(subtotal * Min({value, 100}), 100) \in Int
    <3> DEFINE k == subtotal * Min({value, 100})
    <3> HIDE DEF k
    <3>1. k \in Int => Round(k, 100) \in Int
      BY RoundIsInt
    <3> QED
      BY <2>2, <3>1 DEF k
  <2>4. off \in Int
    BY <2>3
  <2> HIDE DEF off
  <2>5. discount \in Int
    BY <2>4, MinOfTwo
  <2> HIDE DEF discount
  <2> QED
    BY <2>5
<1> HIDE DEF net
<1>4. taxable \in Int
  <2>1. 100 * net \in Int /\ 100 + gst.rate \in Nat \ {0}
    BY <1>2, <1>3
  <2>2. Round(100 * net, 100 + gst.rate) \in Int
    BY <2>1, RoundIsInt
  <2> QED
    BY <1>3, <2>2
<1> HIDE DEF taxable
<1>5. tax \in Int
  <2>1. net * gst.rate \in Int
    BY <1>2, <1>3
  <2>2. Round(net * gst.rate, 100) \in Int
    BY <2>1, RoundIsInt
  <2> QED
    BY <1>3, <1>4, <2>2
<1> HIDE DEF tax
<1>6. total \in Int /\ total - (taxable + tax) \in -50 .. 50
  <2>1. taxable + tax \in Int
    BY <1>4, <1>5
  <2> QED
    BY <2>1, RoundedRupee
<1> HIDE DEF total
<1>7. /\ Halves(tax).cgst + Halves(tax).sgst = tax
      /\ Halves(tax).cgst \in Int /\ Halves(tax).sgst \in Int
  BY <1>5, HalvesAddUp
<1>8. taxable + Halves(tax).cgst + Halves(tax).sgst + (total - (taxable + tax)) = total
  <2>1. PICK c \in Int, s \in Int : c = Halves(tax).cgst /\ s = Halves(tax).sgst
    BY <1>7
  <2>2. taxable + c + s + (total - (taxable + tax)) = total
    BY <1>4, <1>5, <1>6, <1>7, <2>1
  <2> QED
    BY <2>1, <2>2
<1> QED
  BY <1>1, <1>6, <1>8

\* The parts of an order.
PartsAddUp(b) ==
  b.state = "placed" =>
    /\ b.halves.cgst + b.halves.sgst = b.tax
    /\ b.wallet >= 0 => b.total = b.subtotal - b.discount + b.delivery + b.tip - b.wallet

\* An order, whatever the wallet pays.
LEMMA OrderAddsUp ==
  ASSUME PricedCart(cart), PricedShop(shop)
  PROVE  PartsAddUp(Order(cart))
<1> DEFINE n == Net(cart)
           d == Delivery(cart)
           f == FlatCharge(cart)
           t == Tip(cart)
           w == FromWallet(cart, n + f + t)
           g == Gst(shop.gst, Positive(n), d)
           o == Order(cart)
<1>1. n \in Int /\ d \in Int /\ f \in Int /\ t \in Nat
  BY AmountsAreInts
<1>2. n = Subtotal(cart) - Discount(cart) /\ Subtotal(cart) \in Nat /\ Discount(cart) \in Nat
  BY SubtotalIsNat, DiscountIsNat DEF Net
<1>3. w \in Int
  <2>1. cart.balance \in Int /\ n + f + t \in Int
    BY <1>1 DEF PricedCart
  <2>2. Min({cart.balance, n + f + t}) \in Int
    BY <2>1, MinOfTwo
  <2> QED
    BY <2>2 DEF FromWallet
<1>4. Total(cart) = ((n + f + t) - Positive(w)) + (d - f)
  BY Zenon DEF Total, DueAfter
<1>5. /\ o.halves = g.halves /\ o.tax = g.tax /\ o.wallet = w /\ o.total = Total(cart)
      /\ o.subtotal = Subtotal(cart) /\ o.discount = Discount(cart) /\ o.delivery = d /\ o.tip = t
  BY DEF Order
<1>6. g.halves.cgst + g.halves.sgst = g.tax
  <2>1. Positive(n) \in Int
    BY <1>1, PositivePart
  <2> QED
    BY <1>1, <2>1, GstIsPart
<1>7. w >= 0 => Positive(w) = w
  BY <1>3, PositivePart
<1> HIDE DEF n, d, f, t, w, g, o
<1>8. w >= 0 => Total(cart) = Subtotal(cart) - Discount(cart) + d + t - w
  BY <1>1, <1>2, <1>3, <1>4, <1>7
<1>9. PartsAddUp(o)
  BY <1>5, <1>6, <1>8 DEF PartsAddUp
<1> QED
  BY <1>9 DEF o

\* Every counter bill, whatever was saved or copied before it.
LEMMA CountersAddUp ==
  ASSUME PricedShop(shop), NEW b \in CounterBills
  PROVE  LET lists == [b.lists EXCEPT !.there = SaveRates(@, b.saved)]
             rates == (IF b.copied THEN CopyRates(lists, "here", "there") ELSE lists).here
             subtotal == BillSubtotal(rates, b.entries)
             t == BillTotals(shop.gst, subtotal, b.percent, b.value)
             o == CounterOrder(subtotal)
         IN /\ SavedAsTyped(b.lists.there, b.saved) /\ BilledAsShown(rates, b.dishes, b.entries)
            /\ t.taxable + t.halves.cgst + t.halves.sgst + t.roundOff = t.total
            /\ t.roundOff \in -50 .. 50
            /\ o.halves.cgst + o.halves.sgst = o.tax /\ o.tax <= o.total
<1> DEFINE lists == [b.lists EXCEPT !.there = SaveRates(@, b.saved)]
           rates == (IF b.copied THEN CopyRates(lists, "here", "there") ELSE lists).here
           subtotal == BillSubtotal(rates, b.entries)
           o == CounterOrder(subtotal)
<1>1. PricedBill(b)
  BY QuotesAssumption
<1>2. PricedRates(SaveRates(b.lists.there, b.saved)) /\ SavedAsTyped(b.lists.there, b.saved)
  BY <1>1, SavedRates DEF PricedBill, PricedEntry
<1>3. lists.here = b.lists.here /\ lists.there = SaveRates(b.lists.there, b.saved) /\ DOMAIN lists = {"here", "there"}
  BY <1>1 DEF PricedBill
<1>4. rates \in {lists.here, lists.there}
  <2> HIDE DEF lists
  <2> QED
    BY <1>3 DEF CopyRates
<1>5. PricedRates(rates)
  <2> HIDE DEF lists, rates
  <2> QED
    BY <1>1, <1>2, <1>3, <1>4 DEF PricedBill
<1> HIDE DEF rates
<1>6. BilledAsShown(rates, b.dishes, b.entries)
  BY <1>1, MenuIsBilled DEF PricedBill
<1>7. subtotal \in Nat
  BY <1>1, <1>5, BillSubtotalIsNat DEF PricedBill
<1> HIDE DEF subtotal
<1>8. b.value \in Nat
  BY <1>1 DEF PricedBill
<1>9. o.halves.cgst + o.halves.sgst = o.tax /\ o.tax <= o.total
  <2> DEFINE g == Gst(shop.gst, subtotal, 0)
  <2>1. o.tax = g.tax /\ o.halves = g.halves /\ o.total = subtotal
    BY DEF CounterOrder
  <2>2. g.halves.cgst + g.halves.sgst = g.tax /\ g.tax <= subtotal
    BY <1>7, GstIsPart
  <2> HIDE DEF o, g
  <2> QED
    BY <2>1, <2>2
<1> HIDE DEF o
<1>10. LET t == BillTotals(shop.gst, subtotal, b.percent, b.value)
       IN /\ t.taxable + t.halves.cgst + t.halves.sgst + t.roundOff = t.total
          /\ t.roundOff \in -50 .. 50
  BY <1>7, <1>8, CounterBillAddsUp
<1> QED
  BY <1>2, <1>6, <1>9, <1>10 DEF o, subtotal, rates

----------------------------------------------------------------------------
(* What the cart's steps keep.                                             *)

CartInv == QuoteInv /\ PartsAddUp(bill)

LEMMA CartInvInit == CartInit => CartInv
BY QuoteInvInit DEF CartInit, CartInv, PartsAddUp, Nothing

LEMMA CartInvNext == CartInv /\ [CartNext]_cartVars => CartInv'
<1> SUFFICES ASSUME CartInv, [CartNext]_cartVars PROVE CartInv'
  OBVIOUS
<1>1. QuoteInv'
  BY QuoteInvNext DEF CartInv
<1>2. PricedCart(cart) /\ PricedShop(shop)
  BY QuotesAssumption DEF CartInv, QuoteInv
<1>3. CASE Checkout
  <2>1. bill' = Order(cart) \/ bill' = Refused
    BY <1>3 DEF Checkout
  <2>2. PartsAddUp(Order(cart)) /\ PartsAddUp(Refused)
    BY <1>2, OrderAddsUp DEF PartsAddUp, Refused
  <2>3. PartsAddUp(bill')
    BY <2>1, <2>2
  <2> QED
    BY <1>1, <2>3 DEF CartInv, PartsAddUp
<1>4. CASE UNCHANGED bill
  BY <1>1, <1>4 DEF CartInv, PartsAddUp
<1> QED
  BY <1>3, <1>4 DEF CartNext, CreatePaymentOrder, Tick, cartVars

\* Along the cart's way from its quote to its bill.
THEOREM CartInvariant == CartSpec => []CartInv
BY CartInvInit, CartInvNext, PTL DEF CartSpec

\* createPaymentOrder's amount is the one the checkout charges, for every cart,
\* store and time.
THEOREM QuotesAreHonoured == CartSpec => []QuoteIsHonoured
<1>1. CartInv => QuoteIsHonoured
  BY QuoteInvHonours DEF CartInv
<1> QED
  BY <1>1, CartInvariant, PTL

\* nextOpen tells when the store opens, and a listed offer is granted.
THEOREM AnnouncementsAreKept == CartSpec => []AnnouncementsHold
<1>1. CartInv => AnnouncementsHold
  <2> SUFFICES ASSUME CartInv PROVE AnnouncementsHold
    OBVIOUS
  <2>1. PricedCart(cart) /\ PricedShop(shop) /\ now \in Nat
    BY QuotesAssumption DEF CartInv, QuoteInv
  <2> QED
    BY <2>1, NextOpenHolds, OffersHold DEF AnnouncementsHold
<1> QED
  BY <1>1, CartInvariant, PTL

\* The parts of an order and of a counter's bill make its total, and the tax
\* its halves, at any rates, prices and discounts.
THEOREM BillsAddUp == CartSpec => []BillAddsUp
<1>1. CartInv => BillAddsUp
  <2> SUFFICES ASSUME CartInv PROVE BillAddsUp
    OBVIOUS
  <2>1. PricedShop(shop)
    BY QuotesAssumption DEF CartInv, QuoteInv
  <2> QED
    BY <2>1, CountersAddUp DEF BillAddsUp, CartInv, PartsAddUp
<1> QED
  BY <1>1, CartInvariant, PTL

----------------------------------------------------------------------------
(* Reports: groups of rows and what they add up to.                        *)

Keys(k, S) == {k[x] : x \in S}

Group(k, c, S) == {x \in S : k[x] = c}

LEMMA KeysAreFinite ==
  ASSUME NEW S, IsFiniteSet(S), NEW k
  PROVE  IsFiniteSet(Keys(k, S))
<1> DEFINE g == [x \in S |-> k[x]]
           T == Keys(k, S)
<1>1. g \in [S -> T] /\ \A y \in T : \E x \in S : g[x] = y
  BY DEF Keys
<1> HIDE DEF g, T
<1>2. IsFiniteSet(T)
  BY <1>1, ValuesAreFinite
<1> QED
  BY <1>2 DEF T

\* The groups are those of S; what a column h adds or counts may be a part of it.
LEMMA AmountColumn ==
  ASSUME NEW S, IsFiniteSet(S), NEW k, NEW D \in SUBSET S, NEW f, \A x \in D : f[x] \in Int,
         NEW h, h = [c \in Keys(k, S) |-> h[c]],
         \A c \in Keys(k, S) : h[c] = SumOf(f, Group(k, c, D))
  PROVE  SumFunction(h) = SumOf(f, D)
<1> DEFINE K == Keys(k, S)
           g == [x \in D |-> f[x]]
           j == [x \in D |-> k[x]]
<1>1. IsFiniteSet(K) /\ IsFiniteSet(D)
  BY KeysAreFinite, FS_Subset
<1>2. g \in [D -> Int] /\ j \in [D -> K]
  BY DEF Keys
<1>3. \A c : {y \in D : j[y] = c} = Group(k, c, D)
  BY DEF Group
<1>4. ASSUME NEW T \in SUBSET D PROVE SumOf(g, T) = SumOf(f, T)
  <2>1. [x \in T |-> g[x]] = [x \in T |-> f[x]]
    OBVIOUS
  <2> HIDE DEF g
  <2> QED
    BY <2>1 DEF SumOf
<1> HIDE DEF g, j, K
<1>5. SumFunction([c \in K |-> SumOf(g, {y \in D : j[y] = c})]) = SumOf(g, D)
  BY <1>1, <1>2, SumByGroups
<1>6. ASSUME NEW c \in K PROVE h[c] = SumOf(g, {y \in D : j[y] = c})
  <2>1. Group(k, c, D) \in SUBSET D
    BY DEF Group
  <2>2. SumOf(g, Group(k, c, D)) = SumOf(f, Group(k, c, D))
    BY <1>4, <2>1
  <2>3. h[c] = SumOf(f, Group(k, c, D))
    BY DEF K
  <2> QED
    BY <1>3, <2>2, <2>3
<1>7. h = [c \in K |-> SumOf(g, {y \in D : j[y] = c})]
  <2>1. h = [c \in K |-> h[c]]
    BY DEF K
  <2>2. [c \in K |-> h[c]] = [c \in K |-> SumOf(g, {y \in D : j[y] = c})]
    BY <1>6
  <2> QED
    BY <2>1, <2>2
<1> QED
  BY <1>4, <1>5, <1>7

LEMMA CountColumn ==
  ASSUME NEW S, IsFiniteSet(S), NEW k, NEW D \in SUBSET S,
         NEW h, h = [c \in Keys(k, S) |-> h[c]],
         \A c \in Keys(k, S) : h[c] = Cardinality(Group(k, c, D))
  PROVE  SumFunction(h) = Cardinality(D)
<1> DEFINE K == Keys(k, S)
           j == [x \in D |-> k[x]]
<1>1. IsFiniteSet(K) /\ IsFiniteSet(D)
  BY KeysAreFinite, FS_Subset
<1>2. j \in [D -> K]
  BY DEF Keys
<1>3. \A c : {y \in D : j[y] = c} = Group(k, c, D)
  BY DEF Group
<1> HIDE DEF j, K
<1>4. SumFunction([c \in K |-> Cardinality({y \in D : j[y] = c})]) = Cardinality(D)
  BY <1>1, <1>2, CountByGroups
<1>5. \A c \in K : h[c] = Cardinality({y \in D : j[y] = c})
  BY <1>3 DEF K
<1>6. h = [c \in K |-> Cardinality({y \in D : j[y] = c})]
  <2>1. h = [c \in K |-> h[c]]
    BY DEF K
  <2>2. [c \in K |-> h[c]] = [c \in K |-> Cardinality({y \in D : j[y] = c})]
    BY <1>5
  <2> QED
    BY <2>1, <2>2
<1> QED
  BY <1>4, <1>6

OrdersOf(b) == Added(b, LAMBDA r : r.orders)

RevenueOf(b) == Added(b, LAMBDA r : r.revenue)

\* What the orders of a set came to.
LEMMA RevenueIsSum ==
  ASSUME NEW S, NEW f, \A o \in With(S, "delivered") : f[o] = o.total
  PROVE  Revenue(S) = SumOf(f, With(S, "delivered"))
<1> DEFINE D == With(S, "delivered")
<1>1. [o \in D |-> f[o]] = [o \in D |-> o.total]
  OBVIOUS
<1>2. Revenue(S) = SumFunction([o \in D |-> o.total])
  BY DEF Revenue, Sum
<1>3. SumOf(f, D) = SumFunction([o \in D |-> f[o]])
  BY DEF SumOf
<1> QED
  BY <1>1, <1>2, <1>3

\* A report grouped by a key of the orders.
LEMMA GroupedAddsUp ==
  ASSUME NEW S, IsFiniteSet(S), \A o \in S : o.total \in Int, NEW k, NEW b,
         DOMAIN b = Keys(k, S),
         \A c \in Keys(k, S) : /\ b[c].orders = Cardinality(Group(k, c, S))
                               /\ b[c].revenue = Revenue(Group(k, c, S))
  PROVE  OrdersOf(b) = Cardinality(S) /\ RevenueOf(b) = Revenue(S)
<1> DEFINE D == With(S, "delivered")
           f == [o \in S |-> o.total]
           n == [c \in DOMAIN b |-> b[c].orders]
           h == [c \in DOMAIN b |-> b[c].revenue]
<1>1. D \in SUBSET S /\ \A o \in D : f[o] \in Int /\ f[o] = o.total
  BY DEF With
<1>2. /\ n = [c \in Keys(k, S) |-> n[c]]
      /\ \A c \in Keys(k, S) : n[c] = Cardinality(Group(k, c, S))
  OBVIOUS
<1>3. h = [c \in Keys(k, S) |-> h[c]] /\ \A c \in Keys(k, S) : h[c] = Revenue(Group(k, c, S))
  OBVIOUS
<1>4. OrdersOf(b) = SumFunction(n) /\ RevenueOf(b) = SumFunction(h)
  BY DEF OrdersOf, RevenueOf, Added, Sum
<1>5. ASSUME NEW c PROVE Revenue(Group(k, c, S)) = SumOf(f, Group(k, c, D))
  <2>1. With(Group(k, c, S), "delivered") = Group(k, c, D)
    BY DEF With, Group
  <2>2. \A o \in Group(k, c, D) : f[o] = o.total
    BY <1>1 DEF Group
  <2> HIDE DEF f, D
  <2> QED
    BY <2>1, <2>2, RevenueIsSum
<1>6. Revenue(S) = SumOf(f, D)
  <2> HIDE DEF f
  <2> QED
    BY <1>1, RevenueIsSum
<1> HIDE DEF D, f, n, h
<1>7. SumFunction(n) = Cardinality(S)
  <2>1. S \in SUBSET S
    OBVIOUS
  <2> QED
    BY <1>2, <2>1, CountColumn
<1>8. SumFunction(h) = SumOf(f, D)
  <2>1. \A c \in Keys(k, S) : h[c] = SumOf(f, Group(k, c, D))
    BY <1>3, <1>5
  <2> QED
    BY <1>1, <1>3, <2>1, AmountColumn
<1> QED
  BY <1>4, <1>6, <1>7, <1>8

----------------------------------------------------------------------------
(* The breakdowns of a selection.                                          *)

LEMMA RowsAreOrders ==
  ASSUME NEW orders, NEW earnings, Books(orders, earnings), NEW f, NEW only
  PROVE  /\ Rows(orders, f, only) \in SUBSET orders
         /\ IsFiniteSet(Rows(orders, f, only))
         /\ \A o \in Rows(orders, f, only) : o.total \in Int
<1>1. Rows(orders, f, only) \in SUBSET orders
  BY DEF Rows
<1> QED
  BY <1>1, FS_Subset DEF Books, Recorded

LEMMA DisjointCount ==
  ASSUME NEW A, IsFiniteSet(A), NEW B, IsFiniteSet(B), A \cap B = {}
  PROVE  /\ Cardinality(A \cup B) = Cardinality(A) + Cardinality(B)
         /\ IsFiniteSet(A \cup B) /\ Cardinality(A) \in Nat /\ Cardinality(B) \in Nat
<1>1. Cardinality(A \cap B) = 0
  BY FS_EmptySet
<1>2. Cardinality(A) \in Nat /\ Cardinality(B) \in Nat
  BY FS_CardinalityType
<1>3. IsFiniteSet(A \cup B) /\ Cardinality(A \cup B) = Cardinality(A) + Cardinality(B) - Cardinality(A \cap B)
  BY FS_Union
<1> QED
  BY <1>1, <1>2, <1>3

\* Every order is delivered, cancelled or in flight.
LEMMA StatusesSplit ==
  ASSUME NEW S, IsFiniteSet(S)
  PROVE  Cardinality(With(S, "delivered")) + Cardinality(With(S, "cancelled"))
           + Cardinality(S \ (With(S, "delivered") \cup With(S, "cancelled"))) = Cardinality(S)
<1> DEFINE d == With(S, "delivered")
           c == With(S, "cancelled")
           r == S \ (d \cup c)
<1>1. d \in SUBSET S /\ c \in SUBSET S /\ r \in SUBSET S /\ d \cap c = {} /\ (d \cup c) \cap r = {}
      /\ (d \cup c) \cup r = S
  BY DEF With
<1> HIDE DEF d, c, r
<1>2. IsFiniteSet(d) /\ IsFiniteSet(c) /\ IsFiniteSet(r)
  BY <1>1, FS_Subset
<1>3. Cardinality(d \cup c) = Cardinality(d) + Cardinality(c) /\ IsFiniteSet(d \cup c)
  BY <1>1, <1>2, DisjointCount
<1>4. Cardinality((d \cup c) \cup r) = Cardinality(d \cup c) + Cardinality(r)
  BY <1>1, <1>2, <1>3, DisjointCount
<1>5. Cardinality(S) = Cardinality(d) + Cardinality(c) + Cardinality(r)
  BY <1>1, <1>3, <1>4
<1> QED
  BY <1>5 DEF d, c, r

\* Days, hours and weekdays each have every order once.
LEMMA BreakdownIsGrouped ==
  ASSUME NEW orders, NEW f, NEW b \in Breakdowns(orders, f)
  PROVE  \E k : LET S == Rows(orders, f, FALSE)
                IN /\ DOMAIN b = Keys(k, S)
                   /\ \A c \in Keys(k, S) : /\ b[c].orders = Cardinality(Group(k, c, S))
                                            /\ b[c].revenue = Revenue(Group(k, c, S))
<1> DEFINE S == Rows(orders, f, FALSE)
           Fits(x, k) == /\ DOMAIN x = Keys(k, S)
                         /\ \A c \in Keys(k, S) : /\ x[c].orders = Cardinality(Group(k, c, S))
                                                  /\ x[c].revenue = Revenue(Group(k, c, S))
           day == [o \in S |-> Day(o.placed)]
           hour == [o \in S |-> Minute(o.placed) \div HourLength]
           weekday == [o \in S |-> Day(o.placed) % Week]
<1>1. Fits(SalesByDay(orders, f), day)
  <2>1. /\ {Day(o.placed) : o \in S} = Keys(day, S)
        /\ \A c : {o \in S : Day(o.placed) = c} = Group(day, c, S)
    BY DEF Keys, Group
  <2> HIDE DEF day
  <2> QED
    BY <2>1 DEF SalesByDay, Grouped
<1>2. Fits(OrdersByHour(orders, f), hour)
  <2>1. /\ {Minute(o.placed) \div HourLength : o \in S} = Keys(hour, S)
        /\ \A c : {o \in S : Minute(o.placed) \div HourLength = c} = Group(hour, c, S)
    BY DEF Keys, Group
  <2> HIDE DEF hour
  <2> QED
    BY <2>1 DEF OrdersByHour, Grouped
<1>3. Fits(OrdersByWeekday(orders, f), weekday)
  <2>1. /\ {Day(o.placed) % Week : o \in S} = Keys(weekday, S)
        /\ \A c : {o \in S : Day(o.placed) % Week = c} = Group(weekday, c, S)
    BY DEF Keys, Group
  <2> HIDE DEF weekday
  <2> QED
    BY <2>1 DEF OrdersByWeekday, Grouped
<1> HIDE DEF day, hour, weekday, Fits
<1>4. Fits(b, day) \/ Fits(b, hour) \/ Fits(b, weekday)
  BY <1>1, <1>2, <1>3 DEF Breakdowns
<1>5. PICK k : Fits(b, k)
  BY <1>4
<1> QED
  BY <1>5 DEF Fits

LEMMA BreakdownsOfBooks ==
  ASSUME NEW orders, NEW earnings, Books(orders, earnings), NEW f
  PROVE  BreakdownsAddUp(orders, f)
<1> DEFINE S == Rows(orders, f, FALSE)
           s == OrdersSummary(orders, f)
           gone == With(S, "cancelled")
           lost == Cancellations(orders, f)
<1>1. IsFiniteSet(S) /\ \A o \in S : o.total \in Int
  BY RowsAreOrders
<1>2. /\ s.totalOrders = Cardinality(S) /\ s.revenue = Revenue(S)
      /\ s.delivered = Cardinality(With(S, "delivered")) /\ s.cancelled = Cardinality(gone)
      /\ s.inFlight = Cardinality(S \ (With(S, "delivered") \cup gone))
  BY DEF OrdersSummary
<1> HIDE DEF s, lost
<1>3. ASSUME NEW b \in Breakdowns(orders, f)
      PROVE  OrdersOf(b) = s.totalOrders /\ RevenueOf(b) = s.revenue
  <2>1. PICK k : /\ DOMAIN b = Keys(k, S)
                 /\ \A c \in Keys(k, S) : /\ b[c].orders = Cardinality(Group(k, c, S))
                                          /\ b[c].revenue = Revenue(Group(k, c, S))
    BY BreakdownIsGrouped
  <2> HIDE DEF S
  <2> QED
    BY <1>1, <1>2, <2>1, GroupedAddsUp
<1>4. Added(lost, LAMBDA r : r.cancelled) = s.cancelled
  <2> DEFINE day == [o \in gone |-> Day(o.placed)]
             h == [c \in DOMAIN lost |-> lost[c].cancelled]
  <2>1. IsFiniteSet(gone)
    BY <1>1, FS_Subset DEF With
  <2>2. {Day(o.placed) : o \in gone} = Keys(day, gone) /\ \A c : {o \in gone : Day(o.placed) = c} = Group(day, c, gone)
    BY DEF Keys, Group
  <2>3. Added(lost, LAMBDA r : r.cancelled) = SumFunction(h)
    BY DEF Added, Sum
  <2> HIDE DEF day
  <2>4. DOMAIN lost = Keys(day, gone) /\ \A c \in Keys(day, gone) : lost[c].cancelled = Cardinality(Group(day, c, gone))
    BY <2>2 DEF lost, Cancellations
  <2>5. /\ h = [c \in Keys(day, gone) |-> h[c]]
        /\ \A c \in Keys(day, gone) : h[c] = Cardinality(Group(day, c, gone))
    BY <2>4
  <2> HIDE DEF h, gone
  <2>6. gone \in SUBSET gone
    OBVIOUS
  <2>7. SumFunction(h) = Cardinality(gone)
    BY <2>1, <2>5, <2>6, CountColumn
  <2> QED
    BY <1>2, <2>3, <2>7
<1>5. s.delivered + s.cancelled + s.inFlight = s.totalOrders
  BY <1>1, <1>2, StatusesSplit DEF gone
<1> QED
  BY <1>3, <1>4, <1>5 DEF BreakdownsAddUp, OrdersOf, RevenueOf, s, lost

----------------------------------------------------------------------------
(* What was sold.                                                          *)

\* Nothing is taken off by a part.
LEMMA PartOfSum ==
  ASSUME NEW S, IsFiniteSet(S), NEW f, \A x \in S : f[x] \in Nat, NEW A \in SUBSET S
  PROVE  SumOf(f, A) <= SumOf(f, S)
<1> DEFINE g == [x \in S |-> f[x]]
           rest == S \ A
<1>1. g \in [S -> Nat] /\ g \in [S -> Int]
  OBVIOUS
<1>2. ASSUME NEW T \in SUBSET S PROVE SumOf(g, T) = SumOf(f, T)
  <2>1. [x \in T |-> g[x]] = [x \in T |-> f[x]]
    OBVIOUS
  <2> HIDE DEF g
  <2> QED
    BY <2>1 DEF SumOf
<1>3. SumOf(g, rest) \in Nat
  <2> DEFINE h == [x \in rest |-> g[x]]
  <2>1. h \in [rest -> Nat] /\ IsFiniteSet(rest)
    BY FS_Subset
  <2>2. SumOf(g, rest) = SumFunction(h)
    BY DEF SumOf
  <2> HIDE DEF h, rest
  <2> QED
    BY <2>1, <2>2, SumInNat
<1> HIDE DEF g
<1>4. rest \in SUBSET S /\ A \cap rest = {} /\ A \cup rest = S
  OBVIOUS
<1> HIDE DEF rest
<1>5. SumOf(g, S) = SumOf(g, A) + SumOf(g, rest)
  BY <1>1, <1>4, SumJoins
<1>6. SumOf(g, A) \in Int
  BY <1>1, SumTakes
<1>7. SumOf(f, A) = SumOf(g, A) /\ SumOf(f, S) = SumOf(g, S)
  BY <1>2
<1> QED
  BY <1>3, <1>5, <1>6, <1>7

\* Rows of the orders: their lines, or their payments.
LEMMA RowsAreFinite ==
  ASSUME NEW S, IsFiniteSet(S), NEW r, \A o \in S : IsFiniteSet(r[o])
  PROVE  IsFiniteSet(UNION {{<<o.id, x>> : x \in r[o]} : o \in S})
<1> DEFINE k == [o \in S |-> {<<o.id, x>> : x \in r[o]}]
           T == {k[o] : o \in S}
<1>1. ASSUME NEW o \in S PROVE IsFiniteSet(k[o])
  <2> DEFINE j == [x \in r[o] |-> <<o.id, x>>]
  <2>1. {j[x] : x \in r[o]} = k[o]
    OBVIOUS
  <2> HIDE DEF j, k
  <2>2. IsFiniteSet({j[x] : x \in r[o]})
    BY KeysAreFinite DEF Keys
  <2> QED
    BY <2>1, <2>2
<1>2. T = {{<<o.id, x>> : x \in r[o]} : o \in S}
  OBVIOUS
<1> HIDE DEF k
<1>3. IsFiniteSet(T) /\ \A t \in T : IsFiniteSet(t)
  BY <1>1, KeysAreFinite DEF Keys
<1> HIDE DEF T
<1>4. IsFiniteSet(UNION T)
  BY <1>3, FS_UNION
<1> QED
  BY <1>2, <1>4

\* A plain selection of what was sold is the delivered part of the selection.
LEMMA SoldIsDelivered ==
  ASSUME NEW orders, NEW f, f.status = {}
  PROVE  Sold(orders, f) = With(Rows(orders, f, FALSE), "delivered")
BY DEF Sold, Rows, With

LEMMA SoldRows ==
  ASSUME NEW orders, NEW earnings, Books(orders, earnings), NEW f
  PROVE  /\ IsFiniteSet(Sold(orders, f))
         /\ \A o \in Sold(orders, f) : o \in orders /\ Recorded(o) /\ o.status = "delivered" /\ ~ o.deleted
<1>1. Sold(orders, f) \in SUBSET orders
  BY DEF Sold, Rows
<1> QED
  BY <1>1, FS_Subset DEF Books, Sold, Rows

\* Leakage, areas, riders and coupons.
LEMMA RevenueAgrees ==
  ASSUME NEW orders, NEW earnings, Books(orders, earnings), NEW f, f.status = {}
  PROVE  LET s == OrdersSummary(orders, f)
             leak == DiscountLeakage(orders, f)
         IN /\ leak.netCollected = s.revenue /\ leak.orders = s.delivered
            /\ leak.couponDiscounts = s.discounts /\ leak.walletUsed = s.walletUsed
            /\ Added(SalesByArea(orders, f), LAMBDA r : r.revenue) = s.revenue
            /\ Added(RiderReport(orders, f), LAMBDA r : r.orders) <= s.delivered
            /\ Added(CouponPerformance(orders, f), LAMBDA r : r.discountGiven) <= s.discounts
<1> DEFINE D == Sold(orders, f)
           s == OrdersSummary(orders, f)
           leak == DiscountLeakage(orders, f)
           areas == SalesByArea(orders, f)
           riders == RiderReport(orders, f)
           coupons == CouponPerformance(orders, f)
<1>1. D = With(Rows(orders, f, FALSE), "delivered")
  BY SoldIsDelivered
<1>2. IsFiniteSet(D) /\ \A o \in D : o.total \in Int /\ o.discount \in Nat /\ o.status = "delivered"
  BY SoldRows DEF Recorded
<1>3. /\ s.revenue = SumFunction([o \in D |-> o.total]) /\ s.delivered = Cardinality(D)
      /\ s.discounts = SumFunction([o \in D |-> o.discount])
      /\ s.walletUsed = SumFunction([o \in D |-> o.wallet])
  BY <1>1 DEF OrdersSummary, Revenue, Sum
<1>4. /\ leak.netCollected = SumFunction([o \in D |-> o.total]) /\ leak.orders = Cardinality(D)
      /\ leak.couponDiscounts = SumFunction([o \in D |-> o.discount])
      /\ leak.walletUsed = SumFunction([o \in D |-> o.wallet])
  BY DEF DiscountLeakage, Sum
<1> HIDE DEF s, leak
<1>5. RevenueOf(areas) = s.revenue
  <2> DEFINE area == [o \in D |-> o.area]
  <2>1. {o.area : o \in D} = Keys(area, D) /\ \A c : {o \in D : o.area = c} = Group(area, c, D)
    BY DEF Keys, Group
  <2> HIDE DEF area
  <2>2. /\ DOMAIN areas = Keys(area, D)
        /\ \A c \in Keys(area, D) : /\ areas[c].orders = Cardinality(Group(area, c, D))
                                    /\ areas[c].revenue = Revenue(Group(area, c, D))
    BY <2>1 DEF SalesByArea, Grouped
  <2> HIDE DEF areas, D
  <2>3. RevenueOf(areas) = Revenue(D)
    BY <1>2, <2>2, GroupedAddsUp
  <2>4. With(D, "delivered") = D
    BY <1>2 DEF With
  <2> QED
    BY <1>3, <2>3, <2>4 DEF Revenue, Sum
<1>6. OrdersOf(riders) <= s.delivered
  <2> DEFINE R == {o \in D : o.rider # "nobody"}
             rider == [o \in R |-> o.rider]
  <2>1. {o.rider : o \in R} = Keys(rider, R) /\ \A c : {o \in R : o.rider = c} = Group(rider, c, R)
    BY DEF Keys, Group
  <2> HIDE DEF rider
  <2>2. /\ DOMAIN riders = Keys(rider, R)
        /\ \A c \in Keys(rider, R) : /\ riders[c].orders = Cardinality(Group(rider, c, R))
                                     /\ riders[c].revenue = Revenue(Group(rider, c, R))
    BY <2>1 DEF RiderReport, Grouped
  <2>3. R \in SUBSET D
    OBVIOUS
  <2> HIDE DEF riders, D, R
  <2>4. IsFiniteSet(R) /\ Cardinality(R) <= Cardinality(D)
    BY <1>2, <2>3, FS_Subset
  <2>5. OrdersOf(riders) = Cardinality(R)
    BY <1>2, <2>2, <2>3, <2>4, GroupedAddsUp
  <2> QED
    BY <1>3, <2>4, <2>5
<1>7. Added(coupons, LAMBDA r : r.discountGiven) <= s.discounts
  <2> DEFINE C == {o \in D : o.coupon # "none"}
             coupon == [o \in C |-> o.coupon]
             g == [o \in D |-> o.discount]
             h == [c \in DOMAIN coupons |-> coupons[c].discountGiven]
  <2>1. {o.coupon : o \in C} = Keys(coupon, C) /\ \A c : {o \in C : o.coupon = c} = Group(coupon, c, C)
    BY DEF Keys, Group
  <2>2. ASSUME NEW T \in SUBSET D PROVE SumFunction([o \in T |-> o.discount]) = SumOf(g, T)
    <3>1. [o \in T |-> o.discount] = [o \in T |-> g[o]]
      OBVIOUS
    <3> HIDE DEF g
    <3> QED
      BY <3>1 DEF SumOf
  <2>3. \A o \in D : g[o] \in Nat /\ g[o] \in Int
    BY <1>2
  <2>4. C \in SUBSET D /\ IsFiniteSet(C)
    BY <1>2, FS_Subset
  <2>5. Added(coupons, LAMBDA r : r.discountGiven) = SumFunction(h)
    BY DEF Added, Sum
  <2> HIDE DEF coupon, g
  <2>6. /\ DOMAIN coupons = Keys(coupon, C)
        /\ \A c \in Keys(coupon, C) :
             coupons[c].discountGiven = SumFunction([o \in Group(coupon, c, C) |-> o.discount])
    BY <2>1 DEF CouponPerformance, Sum
  <2> HIDE DEF coupons, C, D
  <2>7. ASSUME NEW c \in Keys(coupon, C) PROVE h[c] = SumOf(g, Group(coupon, c, C))
    <3>1. Group(coupon, c, C) \in SUBSET D
      BY <2>4 DEF Group
    <3>2. SumFunction([o \in Group(coupon, c, C) |-> o.discount]) = SumOf(g, Group(coupon, c, C))
      BY <2>2, <3>1
    <3> QED
      BY <2>6, <3>2
  <2>8. h = [c \in Keys(coupon, C) |-> h[c]]
    BY <2>6
  <2> HIDE DEF h
  <2>9. SumFunction(h) = SumOf(g, C)
    <3>1. C \in SUBSET C /\ \A o \in C : g[o] \in Int
      BY <2>3, <2>4
    <3> QED
      BY <2>4, <2>7, <2>8, <3>1, AmountColumn
  <2>10. SumOf(g, C) <= SumOf(g, D)
    BY <1>2, <2>3, <2>4, PartOfSum
  <2>11. s.discounts = SumOf(g, D)
    BY <1>3, <2>2
  <2> QED
    BY <2>5, <2>9, <2>10, <2>11
<1> HIDE DEF areas, riders, coupons, D
<1>8. /\ leak.netCollected = s.revenue /\ leak.orders = s.delivered
      /\ leak.couponDiscounts = s.discounts /\ leak.walletUsed = s.walletUsed
  BY <1>3, <1>4
<1> QED
  BY <1>5, <1>6, <1>7, <1>8 DEF OrdersOf, RevenueOf, s, leak, areas, riders, coupons

\* Customers: what they spent, which are new, how many there are.
LEMMA CustomersAgree ==
  ASSUME NEW orders, NEW earnings, Books(orders, earnings), NEW f, f.status = {}
  PROVE  LET s == OrdersSummary(orders, f)
         IN /\ Added(PerCustomer(orders, f), LAMBDA r : r.spent) = s.revenue
            /\ Added(NewVsReturning(orders, f), LAMBDA r : r.new + r.returning) = s.delivered
            /\ RepeatCustomers(orders, f).customers <= s.uniqueCustomers
<1> DEFINE S == Rows(orders, f, FALSE)
           D == Sold(orders, f)
           s == OrdersSummary(orders, f)
           spent == PerCustomer(orders, f)
           days == NewVsReturning(orders, f)
<1>1. D = With(S, "delivered")
  BY SoldIsDelivered
<1>2. IsFiniteSet(D) /\ \A o \in D : o.total \in Int
  BY SoldRows DEF Recorded
<1>3. /\ s.revenue = SumFunction([o \in D |-> o.total]) /\ s.delivered = Cardinality(D)
      /\ s.uniqueCustomers = Cardinality(Users(S))
  BY <1>1 DEF OrdersSummary, Revenue, Sum
<1>4. D \in SUBSET S /\ IsFiniteSet(S)
  BY <1>1, RowsAreOrders DEF With
<1> HIDE DEF s
<1>5. Added(spent, LAMBDA r : r.spent) = s.revenue
  <2> DEFINE user == [o \in D |-> o.user]
             g == [o \in D |-> o.total]
             h == [u \in DOMAIN spent |-> spent[u].spent]
  <2>1. Users(D) = Keys(user, D) /\ \A c : {o \in D : o.user = c} = Group(user, c, D)
    BY DEF Users, Keys, Group
  <2>2. ASSUME NEW T \in SUBSET D PROVE SumFunction([o \in T |-> o.total]) = SumOf(g, T)
    <3>1. [o \in T |-> o.total] = [o \in T |-> g[o]]
      OBVIOUS
    <3> HIDE DEF g
    <3> QED
      BY <3>1 DEF SumOf
  <2>3. \A o \in D : g[o] \in Int
    BY <1>2
  <2>4. Added(spent, LAMBDA r : r.spent) = SumFunction(h)
    BY DEF Added, Sum
  <2> HIDE DEF user, g
  <2>5. /\ DOMAIN spent = Keys(user, D)
        /\ \A c \in Keys(user, D) : spent[c].spent = SumFunction([o \in Group(user, c, D) |-> o.total])
    BY <2>1 DEF PerCustomer, Sum
  <2> HIDE DEF spent, D
  <2>6. ASSUME NEW c \in Keys(user, D) PROVE h[c] = SumOf(g, Group(user, c, D))
    <3>1. Group(user, c, D) \in SUBSET D
      BY DEF Group
    <3>2. SumFunction([o \in Group(user, c, D) |-> o.total]) = SumOf(g, Group(user, c, D))
      BY <2>2, <3>1
    <3> QED
      BY <2>5, <3>2
  <2>7. h = [c \in Keys(user, D) |-> h[c]]
    BY <2>5
  <2> HIDE DEF h
  <2>8. SumFunction(h) = SumOf(g, D)
    <3>1. D \in SUBSET D
      OBVIOUS
    <3> QED
      BY <1>2, <2>3, <2>6, <2>7, <3>1, AmountColumn
  <2>9. s.revenue = SumOf(g, D)
    BY <1>3, <2>2
  <2> QED
    BY <2>4, <2>8, <2>9
<1>6. Added(days, LAMBDA r : r.new + r.returning) = s.delivered
  <2> DEFINE day == [o \in D |-> Day(o.placed)]
             new(G) == {o \in G : o.placed = FirstOrder(orders, o.user)}
             h == [d \in DOMAIN days |-> days[d].new + days[d].returning]
  <2>1. {Day(o.placed) : o \in D} = Keys(day, D) /\ \A c : {o \in D : Day(o.placed) = c} = Group(day, c, D)
    BY DEF Keys, Group
  <2>2. Added(days, LAMBDA r : r.new + r.returning) = SumFunction(h)
    BY DEF Added, Sum
  <2> HIDE DEF day
  <2>3. /\ DOMAIN days = Keys(day, D)
        /\ \A c \in Keys(day, D) : /\ days[c].new = Cardinality(new(Group(day, c, D)))
                                   /\ days[c].returning = Cardinality(Group(day, c, D) \ new(Group(day, c, D)))
    BY <2>1 DEF NewVsReturning
  <2> HIDE DEF days, D
  <2>4. ASSUME NEW c \in Keys(day, D) PROVE h[c] = Cardinality(Group(day, c, D))
    <3> DEFINE B == Group(day, c, D)
               A == new(B)
    <3>1. A \in SUBSET B /\ IsFiniteSet(B)
      BY <1>2, FS_Subset DEF Group
    <3>2. h[c] = Cardinality(A) + Cardinality(B \ A)
      BY <2>3
    <3> HIDE DEF A, B
    <3>3. IsFiniteSet(A) /\ IsFiniteSet(B \ A) /\ A \cap (B \ A) = {} /\ A \cup (B \ A) = B
      BY <3>1, FS_Subset
    <3>4. Cardinality(A \cup (B \ A)) = Cardinality(A) + Cardinality(B \ A)
      BY <3>3, DisjointCount
    <3>5. h[c] = Cardinality(B)
      BY <3>2, <3>3, <3>4
    <3> QED
      BY <3>5 DEF B
  <2>5. h = [c \in Keys(day, D) |-> h[c]]
    BY <2>3
  <2> HIDE DEF h
  <2>6. SumFunction(h) = Cardinality(D)
    <3>1. D \in SUBSET D
      OBVIOUS
    <3> QED
      BY <1>2, <2>4, <2>5, <3>1, CountColumn
  <2> QED
    BY <1>3, <2>2, <2>6
<1>7. RepeatCustomers(orders, f).customers <= s.uniqueCustomers
  <2> DEFINE R == {u \in DOMAIN spent : spent[u].orders >= 1}
             user == [o \in S |-> o.user]
  <2>1. RepeatCustomers(orders, f).customers = Cardinality(R)
    BY DEF RepeatCustomers
  <2>2. R \in SUBSET Users(S)
    BY <1>4 DEF PerCustomer, Users
  <2>3. Users(S) = Keys(user, S)
    BY DEF Users, Keys
  <2> HIDE DEF R, user, S
  <2>4. IsFiniteSet(Users(S))
    BY <1>4, <2>3, KeysAreFinite
  <2> QED
    BY <1>3, <2>1, <2>2, <2>4, FS_Subset
<1> HIDE DEF spent, days, D, S
<1> QED
  BY <1>5, <1>6, <1>7 DEF s, spent, days

\* Every paid order has a row of payments at least.
LEMMA PaymentsCover ==
  ASSUME NEW orders, NEW earnings, Books(orders, earnings), NEW f
  PROVE  Added(PaymentBreakdown(orders, f), LAMBDA r : r.orders)
           >= Cardinality({o \in Rows(orders, f, FALSE) : o.payments # {}})
<1> DEFINE S == Rows(orders, f, FALSE)
           P == UNION {{<<o.id, p>> : p \in o.payments} : o \in S}
           Q == {o \in S : o.payments # {}}
           b == PaymentBreakdown(orders, f)
           k == [x \in P |-> <<x[2].method, x[2].status>>]
           h == [c \in DOMAIN b |-> b[c].orders]
<1>1. S \in SUBSET orders /\ IsFiniteSet(S)
  BY RowsAreOrders
<1>2. IsFiniteSet(P)
  <2> DEFINE r == [o \in S |-> o.payments]
  <2>1. \A o \in S : IsFiniteSet(r[o])
    BY <1>1 DEF Books, Recorded
  <2>2. P = UNION {{<<o.id, p>> : p \in r[o]} : o \in S}
    OBVIOUS
  <2> HIDE DEF r, P, S
  <2>3. IsFiniteSet(UNION {{<<o.id, p>> : p \in r[o]} : o \in S})
    BY <1>1, <2>1, RowsAreFinite
  <2> QED
    BY <2>2, <2>3
<1>3. OrdersOf(b) = Cardinality(P)
  <2>1. /\ {<<x[2].method, x[2].status>> : x \in P} = Keys(k, P)
        /\ \A c : {x \in P : <<x[2].method, x[2].status>> = c} = Group(k, c, P)
    BY DEF Keys, Group
  <2>2. OrdersOf(b) = SumFunction(h)
    BY DEF OrdersOf, Added, Sum
  <2> HIDE DEF k
  <2>3. DOMAIN b = Keys(k, P) /\ \A c \in Keys(k, P) : b[c].orders = Cardinality(Group(k, c, P))
    BY <2>1 DEF PaymentBreakdown
  <2>4. h = [c \in Keys(k, P) |-> h[c]] /\ \A c \in Keys(k, P) : h[c] = Cardinality(Group(k, c, P))
    <3> HIDE DEF b, P
    <3> QED
      BY <2>3
  <2> HIDE DEF b, h, P
  <2>5. P \in SUBSET P
    OBVIOUS
  <2> QED
    BY <1>2, <2>2, <2>4, <2>5, CountColumn
<1>4. Cardinality(Q) <= Cardinality(P)
  <2> DEFINE one(o) == CHOOSE p \in o.payments : TRUE
  <2>0. \A o \in Q : one(o) \in o.payments
    OBVIOUS
  <2> HIDE DEF one
  <2> DEFINE j == [o \in Q |-> <<o.id, one(o)>>]
  <2>1. ASSUME NEW o \in Q PROVE j[o] \in P
    <3>1. <<o.id, one(o)>> \in P
      <4>1. <<o.id, one(o)>> \in {<<o.id, p>> : p \in o.payments} /\ o \in S
        BY <2>0
      <4> HIDE DEF S
      <4> QED
        BY <4>1
    <3>2. j[o] = <<o.id, one(o)>>
      OBVIOUS
    <3> QED
      BY <3>1, <3>2
  <2>2. \A o \in Q : j[o][1] = o.id
    OBVIOUS
  <2>3. j = [o \in Q |-> j[o]]
    OBVIOUS
  <2>4. Q \in SUBSET orders
    BY <1>1
  <2> HIDE DEF j, Q, P
  <2>5. \A o, p \in Q : j[o] = j[p] => o = p
    BY <2>2, <2>4 DEF Books
  <2>6. j \in [Q -> P]
    BY <2>1, <2>3
  <2>7. j \in Injection(Q, P)
    BY <2>5, <2>6 DEF Injection, IsInjective
  <2> QED
    BY <1>2, <2>7, FS_Injection
<1>5. Cardinality(P) \in Nat /\ Cardinality(Q) \in Nat
  <2>1. Q \in SUBSET S
    OBVIOUS
  <2> HIDE DEF Q, P
  <2> QED
    BY <1>1, <1>2, <2>1, FS_Subset, FS_CardinalityType
<1>6. OrdersOf(b) >= Cardinality(Q)
  <2> HIDE DEF b, P, Q
  <2> QED
    BY <1>3, <1>4, <1>5
<1> QED
  BY <1>6 DEF OrdersOf

\* Dishes and categories come to the same, and a dish nobody ever ordered is
\* not among the best sellers.
LEMMA DishesAgree ==
  ASSUME NEW orders, NEW earnings, Books(orders, earnings), NEW f, f.category = {}, f.product = {}, NEW menu
  PROVE  /\ RevenueOf(TopItems(orders, f)) = RevenueOf(SalesByCategory(orders, f))
         /\ DeadItems(orders, menu) \cap DOMAIN TopItems(orders, f) = {}
<1> DEFINE D == Sold(orders, f)
           L == LinesSold(orders, f)
           g == [x \in L |-> x[2].amount]
           dish == [x \in L |-> x[2].dish]
           category == [x \in L |-> x[2].category]
           Adds(b, k) == /\ DOMAIN b = Keys(k, L)
                         /\ \A c \in Keys(k, L) :
                              b[c].revenue = SumFunction([x \in Group(k, c, L) |-> x[2].amount])
<1>1. IsFiniteSet(D) /\ \A o \in D : o \in orders /\ Recorded(o)
  BY SoldRows
<1>2. IsFiniteSet(L)
  <2> DEFINE r == [o \in D |-> o.lines]
  <2>1. \A o \in D : IsFiniteSet(r[o])
    BY <1>1 DEF Recorded
  <2>2. L = UNION {{<<o.id, x>> : x \in r[o]} : o \in D}
    BY DEF LinesSold
  <2> HIDE DEF r, L, D
  <2>3. IsFiniteSet(UNION {{<<o.id, x>> : x \in r[o]} : o \in D})
    BY <1>1, <2>1, RowsAreFinite
  <2> QED
    BY <2>2, <2>3
<1>3. \A x \in L : \E o \in D : x[2] \in o.lines
  BY DEF LinesSold
<1>4. \A x \in L : g[x] \in Int
  BY <1>1, <1>3 DEF Recorded
<1>5. Adds(TopItems(orders, f), dish)
  <2>1. {x \in L : Wanted(x[2], f)} = L
    BY DEF Wanted
  <2>2. {x[2].dish : x \in L} = Keys(dish, L) /\ \A c : {x \in L : x[2].dish = c} = Group(dish, c, L)
    BY DEF Keys, Group
  <2> HIDE DEF dish
  <2>3. TopItems(orders, f) = LineTotals(L, LAMBDA l : l.dish)
    BY <2>1 DEF TopItems
  <2> QED
    BY <2>2, <2>3 DEF LineTotals, Sum
<1>6. Adds(SalesByCategory(orders, f), category)
  <2>1. {x[2].category : x \in L} = Keys(category, L) /\ \A c : {x \in L : x[2].category = c} = Group(category, c, L)
    BY DEF Keys, Group
  <2> HIDE DEF category
  <2> QED
    BY <2>1 DEF SalesByCategory, LineTotals, Sum
<1>7. ASSUME NEW b, NEW k, Adds(b, k) PROVE RevenueOf(b) = SumOf(g, L)
  <2> DEFINE h == [c \in DOMAIN b |-> b[c].revenue]
  <2>1. ASSUME NEW T \in SUBSET L PROVE SumFunction([x \in T |-> x[2].amount]) = SumOf(g, T)
    <3>1. [x \in T |-> x[2].amount] = [x \in T |-> g[x]]
      OBVIOUS
    <3> HIDE DEF g
    <3> QED
      BY <3>1 DEF SumOf
  <2>2. RevenueOf(b) = SumFunction(h)
    BY DEF RevenueOf, Added, Sum
  <2> HIDE DEF g, L
  <2>3. ASSUME NEW c \in Keys(k, L) PROVE h[c] = SumOf(g, Group(k, c, L))
    <3>1. Group(k, c, L) \in SUBSET L
      BY DEF Group
    <3>2. SumFunction([x \in Group(k, c, L) |-> x[2].amount]) = SumOf(g, Group(k, c, L))
      BY <2>1, <3>1
    <3> QED
      BY <1>7, <3>2
  <2>4. h = [c \in Keys(k, L) |-> h[c]]
    BY <1>7
  <2> HIDE DEF h
  <2>5. L \in SUBSET L
    OBVIOUS
  <2> QED
    BY <1>2, <1>4, <2>2, <2>3, <2>4, <2>5, AmountColumn
<1>8. DeadItems(orders, menu) \cap DOMAIN TopItems(orders, f) = {}
  <2>1. \A x \in L : dish[x] = x[2].dish
    OBVIOUS
  <2> HIDE DEF dish, L
  <2> QED
    BY <1>1, <1>3, <1>5, <2>1 DEF DeadItems, Keys
<1> HIDE DEF Adds, g, dish, category, L
<1>9. RevenueOf(TopItems(orders, f)) = SumOf(g, L) /\ RevenueOf(SalesByCategory(orders, f)) = SumOf(g, L)
  BY <1>5, <1>6, <1>7
<1> QED
  BY <1>8, <1>9

\* The export leaves no order out.
LEMMA ExportIsWhole ==
  ASSUME NEW orders, NEW f, f.payment = {}, f.coupon = {}
  PROVE  {x[1] : x \in Export(orders, f)} = {o.id : o \in Rows(orders, f, FALSE)}
<1> DEFINE none == [method |-> "none", status |-> "none", amount |-> 0]
           S == Rows(orders, f, FALSE)
           paid(o) == IF o.payments = {} THEN {none} ELSE o.payments
<1>1. Export(orders, f) = UNION {{<<o.id, p>> : p \in paid(o)} : o \in S}
  BY DEF Export
<1>2. \A o \in S : \E p : p \in paid(o)
  OBVIOUS
<1> HIDE DEF S, paid
<1>3. ASSUME NEW o \in S PROVE o.id \in {x[1] : x \in Export(orders, f)}
  <2>1. PICK p : p \in paid(o)
    BY <1>2
  <2>2. <<o.id, p>> \in Export(orders, f) /\ <<o.id, p>>[1] = o.id
    BY <1>1, <2>1
  <2> QED
    BY <2>2
<1>4. ASSUME NEW x \in Export(orders, f) PROVE x[1] \in {o.id : o \in S}
  <2>1. PICK o \in S : \E p \in paid(o) : x = <<o.id, p>>
    BY <1>1
  <2> QED
    BY <2>1
<1> QED
  BY <1>3, <1>4 DEF S

LEMMA SalesOfBooks ==
  ASSUME NEW orders, NEW earnings, Books(orders, earnings), NEW f, PlainFilter(f), NEW menu
  PROVE  SalesAgree(orders, f, menu)
<1>1. f.status = {} /\ f.payment = {} /\ f.coupon = {} /\ f.category = {} /\ f.product = {}
  BY DEF PlainFilter
<1>2. {x[1] : x \in Export(orders, f)} = {o.id : o \in Rows(orders, f, FALSE)}
  BY <1>1, ExportIsWhole
<1>3. /\ RevenueOf(TopItems(orders, f)) = RevenueOf(SalesByCategory(orders, f))
      /\ DeadItems(orders, menu) \cap DOMAIN TopItems(orders, f) = {}
  BY <1>1, DishesAgree
<1>4. Added(PaymentBreakdown(orders, f), LAMBDA r : r.orders)
        >= Cardinality({o \in Rows(orders, f, FALSE) : o.payments # {}})
  BY PaymentsCover
<1> QED
  BY <1>1, <1>2, <1>3, <1>4, RevenueAgrees, CustomersAgree DEF SalesAgree, RevenueOf

----------------------------------------------------------------------------
(* Newcomers.                                                              *)

\* A finite set of numbers has a least and a greatest member.
LEMMA FiniteExtremes ==
  ASSUME NEW S, IsFiniteSet(S), S \in SUBSET Int, S # {}
  PROVE  /\ \E x \in S : \A y \in S : x <= y
         /\ \E x \in S : \A y \in S : x >= y
<1> DEFINE G == {T \in SUBSET S : T # {} => /\ \E x \in T : \A y \in T : x <= y
                                            /\ \E x \in T : \A y \in T : x >= y}
<1>1. ASSUME NEW T \in SUBSET S, \A x \in T : T \ {x} \in G PROVE T \in G
  <2> SUFFICES ASSUME T # {}
               PROVE  /\ \E x \in T : \A y \in T : x <= y
                      /\ \E x \in T : \A y \in T : x >= y
    OBVIOUS
  <2>1. PICK a \in T : TRUE
    OBVIOUS
  <2>2. CASE T \ {a} = {}
    <3>1. T = {a} /\ a \in Int
      BY <2>1, <2>2
    <3> QED
      BY <3>1
  <2>3. CASE T \ {a} # {}
    <3>1. PICK l \in T \ {a} : \A y \in T \ {a} : l <= y
      BY <1>1, <2>1, <2>3
    <3>2. PICK g \in T \ {a} : \A y \in T \ {a} : g >= y
      BY <1>1, <2>1, <2>3
    <3>3. a \in Int /\ l \in Int /\ g \in Int
      BY <2>1, <3>1, <3>2
    <3>4. \E x \in T : \A y \in T : x <= y
      <4>1. CASE a <= l
        BY <2>1, <3>1, <3>3, <4>1
      <4>2. CASE l <= a
        BY <2>1, <3>1, <3>3, <4>2
      <4> QED
        BY <3>3, <4>1, <4>2
    <3>5. \E x \in T : \A y \in T : x >= y
      <4>1. CASE a >= g
        BY <2>1, <3>2, <3>3, <4>1
      <4>2. CASE g >= a
        BY <2>1, <3>2, <3>3, <4>2
      <4> QED
        BY <3>3, <4>1, <4>2
    <3> QED
      BY <3>4, <3>5
  <2> QED
    BY <2>2, <2>3
<1> HIDE DEF G
<1>2. S \in G
  BY <1>1, PartsInduction
<1> QED
  BY <1>2 DEF G

LEMMA MinIsLeast ==
  ASSUME NEW S, IsFiniteSet(S), S \in SUBSET Int, S # {}
  PROVE  Min(S) \in S /\ \A y \in S : Min(S) <= y
<1>1. \E x \in S : \A y \in S : x <= y
  BY FiniteExtremes
<1> QED
  BY <1>1 DEF Min

LEMMA MaxIsGreatest ==
  ASSUME NEW S, IsFiniteSet(S), S \in SUBSET Int, S # {}
  PROVE  Max(S) \in S /\ \A y \in S : Max(S) >= y
<1>1. \E x \in S : \A y \in S : x >= y
  BY FiniteExtremes
<1> QED
  BY <1>1 DEF Max

\* A customer who ever bought something has a first order.
LEMMA FirstOrderIs ==
  ASSUME NEW orders, NEW earnings, Books(orders, earnings), NEW u \in Users(Ever(orders))
  PROVE  /\ FirstOrder(orders, u) \in Int
         /\ \E o \in Ever(orders) : o.user = u /\ o.placed = FirstOrder(orders, u)
<1> DEFINE E == {o \in Ever(orders) : o.user = u}
           k == [o \in E |-> o.placed]
           T == {o.placed : o \in E}
<1>1. E \in SUBSET orders /\ E # {}
  BY DEF Ever, Users
<1>2. IsFiniteSet(E) /\ \A o \in E : o.placed \in Int
  BY <1>1, FS_Subset DEF Books, Recorded
<1>3. T = Keys(k, E)
  BY DEF Keys
<1>4. T \in SUBSET Int /\ T # {}
  BY <1>1, <1>2
<1>5. FirstOrder(orders, u) = Min(T)
  BY DEF FirstOrder
<1> HIDE DEF k, E
<1>6. IsFiniteSet(T)
  BY <1>2, <1>3, KeysAreFinite
<1> HIDE DEF T
<1>7. Min(T) \in T
  BY <1>4, <1>6, MinIsLeast
<1>8. PICK o \in E : o.placed = Min(T)
  BY <1>7 DEF T
<1> QED
  BY <1>2, <1>5, <1>8 DEF E

\* Customers are as many as first orders: nobody places two at one moment.
LEMMA OneFirstEach ==
  ASSUME NEW orders, NEW earnings, Books(orders, earnings)
  PROVE  LET E == Ever(orders)
         IN /\ IsFiniteSet(E) /\ IsFiniteSet(Users(E))
            /\ Cardinality({o \in E : o.placed = FirstOrder(orders, o.user)}) = Cardinality(Users(E))
<1> DEFINE E == Ever(orders)
           N == {o \in E : o.placed = FirstOrder(orders, o.user)}
           U == Users(E)
           g == [o \in N |-> o.user]
<1>1. E \in SUBSET orders
  BY DEF Ever
<1>2. IsFiniteSet(E)
  BY <1>1, FS_Subset DEF Books
<1>3. IsFiniteSet(N) /\ N \in SUBSET E
  BY <1>2, FS_Subset
<1>4. g \in [N -> U]
  BY DEF Users
<1>5. \A y \in U : \E o \in N : g[o] = y
  <2>1. \A y \in U : \E o \in E : o.user = y /\ o.placed = FirstOrder(orders, y)
    BY FirstOrderIs
  <2> HIDE DEF E, U
  <2> QED
    BY <2>1
<1>6. \A o, p \in N : g[o] = g[p] => o = p
  BY <1>1 DEF Books
<1> HIDE DEF E, N, U, g
<1>7. IsFiniteSet(U) /\ Cardinality(U) = Cardinality(N)
  BY <1>3, <1>4, <1>5, <1>6, OneToOne
<1> QED
  BY <1>2, <1>7 DEF E, N, U

\* The first months of the cohorts hold every customer once.
LEMMA CohortsHoldUsers ==
  ASSUME NEW orders, NEW earnings, Books(orders, earnings)
  PROVE  LET first == {c \in DOMAIN Cohorts(orders) : c[2] = 0}
         IN Sum(LAMBDA c : Cohorts(orders)[c], first) = Cardinality(Users(Ever(orders)))
<1> DEFINE E == Ever(orders)
           U == Users(E)
           cohort(u) == Month(FirstOrder(orders, u))
           activity == {<<o.user, Month(o.placed)>> : o \in E}
           cell(a) == <<cohort(a[1]), a[2] - cohort(a[1])>>
           C == Cohorts(orders)
           first == {c \in DOMAIN C : c[2] = 0}
           h == [c \in first |-> C[c]]
           k == [u \in U |-> <<cohort(u), 0>>]
<1>1. /\ DOMAIN C = {cell(a) : a \in activity}
      /\ \A c \in DOMAIN C : C[c] = Cardinality({a[1] : a \in {b \in activity : cell(b) = c}})
  BY DEF Cohorts
<1>2. Sum(LAMBDA c : C[c], first) = SumFunction(h)
  BY DEF Sum
<1>3. ASSUME NEW u \in U PROVE cohort(u) \in Int
  <2>1. FirstOrder(orders, u) \in Int
    BY FirstOrderIs
  <2>2. Day(FirstOrder(orders, u)) \in Int
    BY <2>1, MomentInDay
  <2> QED
    BY <2>2, ReportsAssumption DEF Month
<1>4. ASSUME NEW a \in activity PROVE a = <<a[1], a[2]>> /\ a[1] \in U /\ a[2] \in Int
  <2>1. PICK o \in E : a = <<o.user, Month(o.placed)>>
    OBVIOUS
  <2>2. o.placed \in Int
    BY DEF Ever, Books, Recorded
  <2>3. Month(o.placed) \in Int
    BY <2>2, MomentInDay, ReportsAssumption DEF Month
  <2> QED
    BY <2>1, <2>3 DEF Users
<1>5. ASSUME NEW u \in U PROVE <<u, cohort(u)>> \in activity
  <2>1. PICK o \in E : o.user = u /\ o.placed = FirstOrder(orders, u)
    BY FirstOrderIs
  <2> QED
    BY <2>1
<1>6. \A u \in U : k[u] = <<cohort(u), 0>>
  OBVIOUS
<1> HIDE DEF E, U, cohort, activity, C, h, k
<1>7. ASSUME NEW a \in activity, NEW x PROVE cell(a) = <<x, 0>> <=> a[2] = cohort(a[1]) /\ cohort(a[1]) = x
  <2>1. a[2] \in Int /\ cohort(a[1]) \in Int
    BY <1>3, <1>4
  <2> QED
    BY <2>1
<1>8. ASSUME NEW u \in U PROVE cell(<<u, cohort(u)>>) = <<cohort(u), 0>>
  BY <1>3
<1>9. first = Keys(k, U)
  <2>1. ASSUME NEW c \in first PROVE c \in Keys(k, U)
    <3>1. PICK a \in activity : c = cell(a)
      BY <1>1
    <3>2. c = <<cohort(a[1]), 0>>
      BY <3>1
    <3> QED
      BY <1>4, <1>6, <3>2 DEF Keys
  <2>2. ASSUME NEW u \in U PROVE k[u] \in first
    <3>1. cell(<<u, cohort(u)>>) \in DOMAIN C
      BY <1>1, <1>5
    <3> QED
      BY <1>6, <1>8, <3>1
  <2> QED
    BY <2>1, <2>2 DEF Keys
<1>10. ASSUME NEW c \in Keys(k, U) PROVE h[c] = Cardinality(Group(k, c, U))
  <2> DEFINE X == {a[1] : a \in {b \in activity : cell(b) = c}}
  <2>1. PICK v \in U : c = <<cohort(v), 0>>
    BY <1>6 DEF Keys
  <2>2. h[c] = Cardinality(X)
    BY <1>1, <1>9 DEF h
  <2>3. ASSUME NEW u \in X PROVE u \in U /\ cohort(u) = cohort(v)
    <3>1. PICK a \in activity : cell(a) = c /\ u = a[1]
      OBVIOUS
    <3> QED
      BY <1>4, <1>7, <2>1, <3>1
  <2>4. ASSUME NEW u \in U, cohort(u) = cohort(v) PROVE u \in X
    <3>1. <<u, cohort(u)>> \in activity /\ cell(<<u, cohort(u)>>) = c /\ <<u, cohort(u)>>[1] = u
      BY <1>5, <1>8, <2>1, <2>4
    <3> QED
      BY <3>1
  <2> HIDE DEF X
  <2>5. X = {u \in U : k[u] = c}
    <3>1. \A u \in U : k[u] = c <=> cohort(u) = cohort(v)
      BY <1>6, <2>1
    <3> QED
      BY <2>3, <2>4, <3>1
  <2> QED
    BY <2>2, <2>5 DEF Group
<1>11. h = [c \in Keys(k, U) |-> h[c]]
  BY <1>9 DEF h
<1>12. IsFiniteSet(U) /\ U \in SUBSET U
  BY OneFirstEach DEF U, E
<1>13. SumFunction(h) = Cardinality(U)
  BY <1>10, <1>11, <1>12, CountColumn
<1> QED
  BY <1>2, <1>13 DEF U, E, C

LEMMA NewcomersOfBooks ==
  ASSUME NEW orders, NEW earnings, Books(orders, earnings), NEW f, PlainFilter(f)
  PROVE  NewcomersAgree(orders, f)
<1> SUFFICES ASSUME \A k \in {"from", "to", "rider"} : f[k] = {}
             PROVE  Added(NewVsReturning(orders, f), LAMBDA r : r.new)
                      = Sum(LAMBDA k : Cohorts(orders)[k], {k \in DOMAIN Cohorts(orders) : k[2] = 0})
  BY DEF NewcomersAgree
<1> DEFINE E == Ever(orders)
           N == {o \in E : o.placed = FirstOrder(orders, o.user)}
           days == NewVsReturning(orders, f)
           day == [o \in E |-> Day(o.placed)]
           h == [d \in DOMAIN days |-> days[d].new]
<1>1. f.from = {} /\ f.to = {} /\ f.rider = {}
  OBVIOUS
<1>2. Sold(orders, f) = E
  BY <1>1 DEF Sold, Rows, InRange, Ever
<1>3. {Day(o.placed) : o \in E} = Keys(day, E) /\ \A c : {o \in E : Day(o.placed) = c} = Group(day, c, E)
  BY DEF Keys, Group
<1>4. Added(days, LAMBDA r : r.new) = SumFunction(h)
  BY DEF Added, Sum
<1> HIDE DEF day
<1>5. /\ DOMAIN days = Keys(day, E)
      /\ \A c \in Keys(day, E) :
           days[c].new = Cardinality({o \in Group(day, c, E) : o.placed = FirstOrder(orders, o.user)})
  BY <1>2, <1>3 DEF NewVsReturning
<1>6. \A c : {o \in Group(day, c, E) : o.placed = FirstOrder(orders, o.user)} = Group(day, c, N)
  <2> HIDE DEF E
  <2> QED
    BY DEF Group
<1>7. IsFiniteSet(E) /\ Cardinality(N) = Cardinality(Users(E))
  BY OneFirstEach
<1>8. N \in SUBSET E
  OBVIOUS
<1> HIDE DEF days, E, N
<1>9. h = [c \in Keys(day, E) |-> h[c]] /\ \A c \in Keys(day, E) : h[c] = Cardinality(Group(day, c, N))
  BY <1>5, <1>6
<1> HIDE DEF h
<1>10. SumFunction(h) = Cardinality(N)
  BY <1>7, <1>8, <1>9, CountColumn
<1> QED
  BY <1>4, <1>7, <1>10, CohortsHoldUsers DEF days, E

----------------------------------------------------------------------------
(* Deliveries.                                                             *)

\* Orders dropped off are delivered once, in the days asked for.
LEMMA DroppedOffRows ==
  ASSUME NEW orders, NEW earnings, Books(orders, earnings), NEW from, NEW to
  PROVE  LET S == DroppedOff(orders, from, to)
         IN /\ S \in SUBSET orders /\ IsFiniteSet(S)
            /\ \A o \in S : /\ o.status = "delivered" /\ ~ o.pickup
                            /\ \E t \in Int : o.done = {t} /\ Day(t) \in from .. to
<1> DEFINE S == DroppedOff(orders, from, to)
<1>1. S \in SUBSET orders
  BY DEF DroppedOff
<1>2. IsFiniteSet(S)
  BY <1>1, FS_Subset DEF Books
<1>3. ASSUME NEW o \in S
      PROVE  /\ o.status = "delivered" /\ ~ o.pickup
             /\ \E t \in Int : o.done = {t} /\ Day(t) \in from .. to
  <2>1. /\ o.status = "delivered" /\ ~ o.pickup
        /\ \E t \in o.done : Day(t) \in from .. to
    BY DEF DroppedOff
  <2>2. PICK t \in o.done : Day(t) \in from .. to
    BY <2>1
  <2>3. \A x, y \in o.done : x = y /\ x \in Int
    BY <1>1 DEF Books, Recorded
  <2>4. o.done = {t} /\ t \in Int
    BY <2>3
  <2> QED
    BY <2>1, <2>2, <2>4
<1> QED
  BY <1>1, <1>2, <1>3

\* The days of the report: each delivery on one of them.
LEMMA DailyAddsUp ==
  ASSUME NEW orders, NEW earnings, Books(orders, earnings), NEW from, NEW to
  PROVE  LET r == DeliveryReport(orders, earnings, from, to)
         IN /\ Added(r.daily, LAMBDA d : d.delivered) = r.totals.delivered
            /\ Added(r.daily, LAMBDA d : d.onTime) = r.totals.onTime
<1> DEFINE S == DroppedOff(orders, from, to)
           days == UNION {{Day(t) : t \in o.done} : o \in S}
           daily == [d \in days |-> Punctuality(DroppedOff(S, d, d))]
           day == [o \in S |-> Day(CHOOSE t \in o.done : TRUE)]
           n == [d \in DOMAIN daily |-> daily[d].delivered]
           h == [d \in DOMAIN daily |-> daily[d].onTime]
           r == DeliveryReport(orders, earnings, from, to)
<1>1. r.daily = daily /\ r.totals.delivered = Cardinality(S) /\ r.totals.onTime = Cardinality(OnTime(S))
  BY DEF DeliveryReport, Punctuality
<1>2. IsFiniteSet(S) /\ \A o \in S : o.status = "delivered" /\ ~ o.pickup /\ \E t \in Int : o.done = {t}
  BY DroppedOffRows
<1>3. ASSUME NEW o \in S PROVE day[o] \in Int /\ \A d : (\E t \in o.done : d = Day(t)) <=> d = day[o]
  <2>1. PICK t \in Int : o.done = {t}
    BY <1>2
  <2>2. (CHOOSE x \in o.done : TRUE) = t
    BY <2>1
  <2>3. day[o] = Day(t)
    BY <2>2
  <2> QED
    BY <2>1, <2>3, MomentInDay
<1>4. /\ Added(r.daily, LAMBDA d : d.delivered) = SumFunction(n)
      /\ Added(r.daily, LAMBDA d : d.onTime) = SumFunction(h)
  BY <1>1 DEF Added, Sum
<1> HIDE DEF r
<1>5. days = Keys(day, S)
  <2>1. ASSUME NEW d PROVE d \in days <=> \E o \in S : \E t \in o.done : d = Day(t)
    OBVIOUS
  <2> HIDE DEF days, day, S
  <2>2. ASSUME NEW d PROVE d \in days <=> \E o \in S : d = day[o]
    BY <1>3, <2>1
  <2> QED
    BY <2>2 DEF Keys
<1>6. ASSUME NEW d \in Keys(day, S) PROVE DroppedOff(S, d, d) = Group(day, d, S)
  <2>1. d \in Int
    BY <1>3 DEF Keys
  <2>2. ASSUME NEW o \in S PROVE (\E t \in o.done : Day(t) \in d .. d) <=> day[o] = d
    <3>1. PICK t \in Int : o.done = {t}
      BY <1>2
    <3>2. Day(t) = day[o] /\ Day(t) \in Int
      BY <1>3, <3>1, MomentInDay
    <3> HIDE DEF day
    <3>3. Day(t) \in d .. d <=> Day(t) = d
      BY <2>1, <3>2
    <3> QED
      BY <3>1, <3>2, <3>3
  <2> HIDE DEF S, day
  <2> QED
    BY <1>2, <2>2 DEF DroppedOff, Group
<1>7. ASSUME NEW d \in Keys(day, S)
      PROVE  /\ daily[d].delivered = Cardinality(Group(day, d, S))
             /\ daily[d].onTime = Cardinality(Group(day, d, OnTime(S)))
  <2>1. daily[d] = Punctuality(Group(day, d, S))
    BY <1>5, <1>6
  <2>2. OnTime(Group(day, d, S)) = Group(day, d, OnTime(S))
    BY DEF OnTime, Group
  <2> HIDE DEF daily
  <2> QED
    BY <2>1, <2>2 DEF Punctuality
<1>8. DOMAIN daily = Keys(day, S)
  BY <1>5
<1> HIDE DEF daily, day, days, S
<1>9. /\ n = [d \in Keys(day, S) |-> n[d]] /\ \A d \in Keys(day, S) : n[d] = Cardinality(Group(day, d, S))
      /\ h = [d \in Keys(day, S) |-> h[d]] /\ \A d \in Keys(day, S) : h[d] = Cardinality(Group(day, d, OnTime(S)))
  BY <1>7, <1>8
<1> HIDE DEF n, h
<1>10. SumFunction(n) = Cardinality(S)
  <2>1. S \in SUBSET S
    OBVIOUS
  <2> QED
    BY <1>2, <1>9, <2>1, CountColumn
<1>11. SumFunction(h) = Cardinality(OnTime(S))
  <2>1. OnTime(S) \in SUBSET S
    BY DEF OnTime
  <2> QED
    BY <1>2, <1>9, <2>1, CountColumn
<1> QED
  BY <1>1, <1>4, <1>10, <1>11 DEF r

\* The riders of the report: each delivery and each pay is one rider's.
LEMMA RidersAddUp ==
  ASSUME NEW orders, NEW earnings, Books(orders, earnings), NEW from, NEW to
  PROVE  LET r == DeliveryReport(orders, earnings, from, to)
             carried == {o \in DroppedOff(orders, from, to) : o.rider # "nobody"}
         IN /\ Added(r.riders, LAMBDA x : x.rider.delivered) = Cardinality(carried)
            /\ Added(r.riders, LAMBDA x : x.earned) = r.riderPay
<1> DEFINE S == DroppedOff(orders, from, to)
           B == {o \in S : o.rider # "nobody"}
           rider == [o \in B |-> o.rider]
           K == Keys(rider, B)
           riders == [x \in {o.rider : o \in S} \ {"nobody"} |->
                        LET mine == {o \in S : o.rider = x}
                        IN [rider |-> Punctuality(mine), earned |-> PaidFor(earnings, mine)]]
           n == [x \in DOMAIN riders |-> riders[x].rider.delivered]
           h == [x \in DOMAIN riders |-> riders[x].earned]
           r == DeliveryReport(orders, earnings, from, to)
<1>1. r.riders = riders /\ r.riderPay = PaidFor(earnings, S)
  BY DEF DeliveryReport
<1>2. S \in SUBSET orders /\ IsFiniteSet(S)
  BY DroppedOffRows
<1>3. /\ Added(r.riders, LAMBDA x : x.rider.delivered) = SumFunction(n)
      /\ Added(r.riders, LAMBDA x : x.earned) = SumFunction(h)
  BY <1>1 DEF Added, Sum
<1> HIDE DEF r
<1>4. {o.rider : o \in S} \ {"nobody"} = K
  BY DEF Keys
<1>5. \A x \in K : {o \in S : o.rider = x} = Group(rider, x, B)
  <2>1. \A x \in K : x # "nobody"
    BY <1>4
  <2> HIDE DEF K, S
  <2> QED
    BY <2>1 DEF Group
<1>6. B \in SUBSET S /\ IsFiniteSet(B) /\ IsFiniteSet(K)
  <2>1. B \in SUBSET S
    OBVIOUS
  <2>2. IsFiniteSet(B)
    BY <1>2, <2>1, FS_Subset
  <2> HIDE DEF B, rider, S
  <2> QED
    BY <2>1, <2>2, KeysAreFinite
<1>7. /\ DOMAIN riders = K
      /\ \A x \in K : /\ riders[x].rider = Punctuality(Group(rider, x, B))
                      /\ riders[x].earned = PaidFor(earnings, Group(rider, x, B))
  <2> HIDE DEF K, rider, B
  <2> QED
    BY <1>4, <1>5
<1>8. \A o \in B : rider[o] = o.rider /\ rider[o] \in K
  BY DEF Keys
<1>9. \A o \in B : o \in S /\ o.rider # "nobody"
  OBVIOUS
<1>10. \A o \in S : o.rider # "nobody" => o \in B
  OBVIOUS
<1> HIDE DEF riders, rider, S, B, K
<1>11. SumFunction(n) = Cardinality(B)
  <2>1. n = [x \in K |-> n[x]] /\ \A x \in K : n[x] = Cardinality(Group(rider, x, B))
    <3>1. ASSUME NEW x \in K PROVE n[x] = Cardinality(Group(rider, x, B))
      <4>1. n[x] = riders[x].rider.delivered
        BY <1>7
      <4>2. Punctuality(Group(rider, x, B)).delivered = Cardinality(Group(rider, x, B))
        BY DEF Punctuality
      <4> QED
        BY <1>7, <4>1, <4>2
    <3> QED
      BY <1>7, <3>1
  <2>2. B \in SUBSET B
    OBVIOUS
  <2> HIDE DEF n
  <2> QED
    BY <1>6, <2>1, <2>2, CountColumn DEF K
<1>12. SumFunction(h) = PaidFor(earnings, S)
  <2> DEFINE E == {e \in earnings : e.order \in {o.id : o \in S}}
             f == [e \in E |-> e.total]
             of == [e \in E |-> rider[CHOOSE o \in S : o.id = e.order]]
  <2>1. IsFiniteSet(E) /\ \A e \in E : e.total \in Int /\ e \in earnings
    BY FS_Subset DEF Books
  <2>2. ASSUME NEW e \in E
        PROVE  \E o \in B : o.id = e.order /\ of[e] = o.rider /\ \A p \in S : p.id = e.order => p = o
    <3> DEFINE o == CHOOSE x \in S : x.id = e.order
    <3>1. o \in S /\ o.id = e.order
      OBVIOUS
    <3>2. of[e] = rider[o]
      OBVIOUS
    <3> HIDE DEF o, of
    <3>3. o.rider # "nobody"
      BY <1>2, <2>1, <3>1 DEF Books
    <3>4. o \in B
      BY <1>10, <3>1, <3>3
    <3>5. \A p \in S : p.id = e.order => p = o
      BY <1>2, <3>1 DEF Books
    <3> QED
      BY <1>8, <3>1, <3>2, <3>4, <3>5
  <2>3. f \in [E -> Int]
    BY <2>1
  <2>4. of \in [E -> K]
    <3>1. ASSUME NEW e \in E PROVE of[e] \in K
      BY <1>8, <2>2
    <3>2. of = [e \in E |-> of[e]]
      OBVIOUS
    <3> HIDE DEF of, E
    <3> QED
      BY <3>1, <3>2
  <2>5. ASSUME NEW T \in SUBSET E PROVE SumFunction([e \in T |-> e.total]) = SumOf(f, T)
    <3>1. [e \in T |-> e.total] = [e \in T |-> f[e]]
      OBVIOUS
    <3> HIDE DEF f
    <3> QED
      BY <3>1 DEF SumOf
  <2>6. ASSUME NEW x \in K PROVE {e \in earnings : e.order \in {o.id : o \in Group(rider, x, B)}} = {e \in E : of[e] = x}
    <3>1. ASSUME NEW e \in earnings, NEW o \in Group(rider, x, B), e.order = o.id PROVE e \in E /\ of[e] = x
      <4>1. o \in B /\ rider[o] = x /\ o \in S
        BY <1>9 DEF Group
      <4>2. e \in E
        BY <3>1, <4>1
      <4> HIDE DEF E, of
      <4> QED
        BY <1>8, <2>2, <3>1, <4>1, <4>2
    <3>2. ASSUME NEW e \in E, of[e] = x PROVE e \in earnings /\ \E o \in Group(rider, x, B) : e.order = o.id
      <4> HIDE DEF E, of
      <4> QED
        BY <1>8, <2>1, <2>2, <3>2 DEF Group
    <3> HIDE DEF E, of
    <3> QED
      BY <3>1, <3>2
  <2>7. PaidFor(earnings, S) = SumFunction([e \in E |-> e.total])
    BY DEF PaidFor, Sum
  <2>8. PaidFor(earnings, S) = SumOf(f, E)
    BY <2>5, <2>7
  <2>9. ASSUME NEW x \in K PROVE h[x] = SumOf(f, {e \in E : of[e] = x})
    <3> DEFINE T == {e \in earnings : e.order \in {o.id : o \in Group(rider, x, B)}}
    <3>1. h[x] = PaidFor(earnings, Group(rider, x, B))
      BY <1>7
    <3>2. PaidFor(earnings, Group(rider, x, B)) = SumFunction([e \in T |-> e.total])
      BY DEF PaidFor, Sum
    <3>3. T = {e \in E : of[e] = x} /\ T \in SUBSET E
      BY <2>6
    <3> HIDE DEF T, h, f, E, of
    <3>4. SumFunction([e \in T |-> e.total]) = SumOf(f, T)
      BY <2>5, <3>3
    <3> QED
      BY <3>1, <3>2, <3>3, <3>4
  <2>10. h = [x \in K |-> h[x]]
    BY <1>7
  <2> HIDE DEF h, f, E, of
  <2>11. [x \in K |-> h[x]] = [x \in K |-> SumOf(f, {e \in E : of[e] = x})]
    BY <2>9
  <2>12. SumFunction([x \in K |-> SumOf(f, {e \in E : of[e] = x})]) = SumOf(f, E)
    BY <1>6, <2>1, <2>3, <2>4, SumByGroups
  <2> QED
    BY <2>8, <2>10, <2>11, <2>12
<1> QED
  BY <1>1, <1>3, <1>11, <1>12 DEF r, B, S

\* Over all time the delivery report and the summary miss none.
LEMMA DeliveriesOfAllTime ==
  ASSUME NEW orders, NEW earnings, Books(orders, earnings), NEW to \in Int,
         \A o \in orders : ~ o.deleted /\ \A t \in o.done : Day(t) <= to
  PROVE  LET none == [k \in {"from", "to", "status", "rider"} |-> {}]
             all == DeliveryReport(orders, earnings, Day(Min({o.placed : o \in orders})), to)
         IN all.totals.delivered + Cardinality({o \in Sold(orders, none) : o.pickup})
              = OrdersSummary(orders, none).delivered
<1> DEFINE none == [k \in {"from", "to", "status", "rider"} |-> {}]
           D == Sold(orders, none)
           T == {o \in D : o.pickup}
           start == Day(Min({o.placed : o \in orders}))
           S == DroppedOff(orders, start, to)
<1>1. none.from = {} /\ none.to = {} /\ none.status = {} /\ none.rider = {}
  OBVIOUS
<1> HIDE DEF none
<1>2. D = {o \in orders : o.status = "delivered"}
  BY <1>1 DEF Sold, Rows, InRange
<1>3. OrdersSummary(orders, none).delivered = Cardinality(D)
  BY <1>1, SoldIsDelivered DEF OrdersSummary
<1>4. DeliveryReport(orders, earnings, start, to).totals.delivered = Cardinality(S)
  BY DEF DeliveryReport, Punctuality
<1>5. ASSUME NEW o \in D, ~ o.pickup PROVE o \in S
  <2>1. o \in orders /\ Recorded(o) /\ o.status = "delivered"
    BY <1>2 DEF Books
  <2>2. PICK t \in o.done : t \in Int /\ o.placed <= t /\ o.placed \in Int
    BY <1>5, <2>1 DEF Recorded
  <2>3. start \in Int /\ start <= Day(o.placed)
    <3> DEFINE k == [x \in orders |-> x.placed]
               P == {x.placed : x \in orders}
    <3>1. P = Keys(k, orders) /\ P \in SUBSET Int /\ P # {} /\ o.placed \in P
      BY <2>1 DEF Keys, Books, Recorded
    <3> HIDE DEF k
    <3>2. IsFiniteSet(P)
      BY <3>1, KeysAreFinite DEF Books
    <3> HIDE DEF P
    <3>3. Min(P) \in Int /\ Min(P) <= o.placed
      BY <3>1, <3>2, MinIsLeast
    <3>4. start = Day(Min(P))
      BY DEF P
    <3> HIDE DEF start
    <3> QED
      BY <2>2, <3>3, <3>4, LaterDay, MomentInDay
  <2>4. Day(o.placed) <= Day(t) /\ Day(t) \in Int /\ Day(o.placed) \in Int /\ Day(t) <= to
    BY <2>1, <2>2, LaterDay, MomentInDay
  <2> HIDE DEF start
  <2>5. Day(t) \in start .. to
    BY <2>3, <2>4
  <2> QED
    BY <1>5, <2>1, <2>2, <2>5 DEF DroppedOff
<1>6. ASSUME NEW o \in S PROVE o \in D /\ ~ o.pickup
  BY <1>2 DEF DroppedOff
<1>7. IsFiniteSet(D)
  BY SoldRows
<1> HIDE DEF D, S, start
<1>8. S \cap T = {} /\ S \cup T = D /\ S \in SUBSET D /\ T \in SUBSET D
  BY <1>5, <1>6
<1> HIDE DEF T
<1>9. IsFiniteSet(S) /\ IsFiniteSet(T)
  BY <1>7, <1>8, FS_Subset
<1>10. Cardinality(S \cup T) = Cardinality(S) + Cardinality(T)
  BY <1>8, <1>9, DisjointCount
<1> QED
  BY <1>3, <1>4, <1>8, <1>10 DEF none, T, D, start

LEMMA DeliveriesOfBooks ==
  ASSUME NEW orders, NEW earnings, Books(orders, earnings), NEW from, NEW to \in Int
  PROVE  DeliveriesAgree(orders, earnings, from, to)
<1> DEFINE S == DroppedOff(orders, from, to)
           r == DeliveryReport(orders, earnings, from, to)
<1>1. r.totals.onTime <= r.totals.withPromise
  <2> DEFINE P == {o \in S : o.promised # {}}
  <2>1. r.totals.onTime = Cardinality(OnTime(S)) /\ r.totals.withPromise = Cardinality(P)
    BY DEF DeliveryReport, Punctuality
  <2>2. IsFiniteSet(S)
    BY DroppedOffRows
  <2> HIDE DEF S
  <2>3. IsFiniteSet(P) /\ OnTime(S) \in SUBSET P
    BY <2>2, FS_Subset DEF OnTime
  <2> HIDE DEF P, r
  <2> QED
    BY <2>1, <2>3, FS_Subset
<1>2. /\ Added(r.daily, LAMBDA d : d.delivered) = r.totals.delivered
      /\ Added(r.daily, LAMBDA d : d.onTime) = r.totals.onTime
  BY DailyAddsUp
<1>3. /\ Added(r.riders, LAMBDA x : x.rider.delivered) = Cardinality({o \in S : o.rider # "nobody"})
      /\ Added(r.riders, LAMBDA x : x.earned) = r.riderPay
  BY RidersAddUp
<1> QED
  BY <1>1, <1>2, <1>3, DeliveriesOfAllTime DEF DeliveriesAgree

----------------------------------------------------------------------------
(* Cash and streaks.                                                       *)

LEMMA MaxOfTwo ==
  ASSUME NEW a \in Int, NEW b \in Int
  PROVE  Max({a, b}) = IF a >= b THEN a ELSE b
<1> DEFINE m == Max({a, b})
<1>1. \E x \in {a, b} : \A y \in {a, b} : x >= y
  BY DEF Max
<1>2. m \in {a, b} /\ \A y \in {a, b} : m >= y
  BY <1>1 DEF Max
<1> HIDE DEF m
<1> QED
  BY <1>2 DEF m

LEMMA CashIsInt ==
  ASSUME NEW ledger, Counted(ledger), NEW deposits, Counted(deposits), NEW r
  PROVE  CashInHand(ledger, deposits, r) \in Int
<1> DEFINE Of(S) == SumFunction([x \in {y \in S : y.rider = r} |-> x.amount])
<1>1. ASSUME NEW S, Counted(S) PROVE Of(S) \in Int
  <2> DEFINE T == {y \in S : y.rider = r}
             f == [x \in T |-> x.amount]
  <2>1. IsFiniteSet(T) /\ f \in [T -> Int]
    BY <1>1, FS_Subset DEF Counted
  <2>2. [x \in T |-> f[x]] = f
    OBVIOUS
  <2>3. Of(S) = SumFunction(f)
    OBVIOUS
  <2> HIDE DEF f, T, Of
  <2>4. SumOf(f, T) \in Int /\ SumOf(f, T) = SumFunction(f)
    BY <2>1, <2>2, SumTakes DEF SumOf
  <2> QED
    BY <2>3, <2>4
<1>2. CashInHand(ledger, deposits, r) = Max({0, Of(ledger) - Of(deposits)})
  BY DEF CashInHand, Sum
<1> HIDE DEF Of
<1>3. Of(ledger) - Of(deposits) \in Int
  BY <1>1
<1> QED
  BY <1>2, <1>3, MaxOfTwo

LEMMA CashOfBooks ==
  ASSUME NEW ledger, Counted(ledger), NEW deposits, Counted(deposits), NEW riders, NEW cap \in Int, NEW at
  PROVE  CashScreensAgree(ledger, deposits, riders, cap, at)
<1> SUFFICES ASSUME NEW r \in riders
             PROVE  LET own == Earnings(ledger, deposits, r, cap)
                        row == Reconciliation(ledger, deposits, riders, cap, at)[r]
                    IN /\ own.cashInHand = row.cashInHand
                       /\ row.risk = "blocked" <=> ~ MayTakeCash(ledger, deposits, r, cap)
                       /\ row.blocked <=> own.headroom = 0
  BY DEF CashScreensAgree
<1> DEFINE own == Earnings(ledger, deposits, r, cap)
           row == Reconciliation(ledger, deposits, riders, cap, at)[r]
           cash == CashInHand(ledger, deposits, r)
           days == {(at - x.at) \div DayMinutes : x \in {y \in deposits : y.rider = r}}
           watched == (days # {} /\ Min(days) >= 3) \/ 10 * cash >= 7 * cap
<1>1. cash \in Int
  BY CashIsInt
<1>2. own.cashInHand = cash /\ own.headroom = Max({0, cap - cash})
  BY DEF Earnings
<1>3. row = [cashInHand |-> cash, blocked |-> cash >= cap,
             risk |-> IF cash >= cap THEN "blocked" ELSE IF watched THEN "watch" ELSE "ok"]
  BY Zenon DEF Reconciliation
<1>4. MayTakeCash(ledger, deposits, r, cap) <=> cash < cap
  BY DEF MayTakeCash
<1> HIDE DEF own, row, cash, watched
<1>5. own.headroom = 0 <=> cash >= cap
  BY <1>1, <1>2, MaxOfTwo
<1>6. row.cashInHand = cash /\ (row.blocked <=> cash >= cap) /\ (row.risk = "blocked" <=> cash >= cap)
  BY <1>3
<1> QED
  BY <1>1, <1>2, <1>4, <1>5, <1>6 DEF own, row

\* More healthy days, no shorter a streak.
LEMMA StreakGrows ==
  ASSUME NEW A, IsFiniteSet(A), NEW B, IsFiniteSet(B), A \subseteq B, NEW today \in Int
  PROVE  LET from(h) == IF today \in h THEN today ELSE today - 1
             runs(h) == {n \in 0 .. Cardinality(h) : \A i \in 0 .. n - 1 : from(h) - i \in h}
         IN Max(runs(B)) >= Max(runs(A))
<1> DEFINE from(h) == IF today \in h THEN today ELSE today - 1
           runs(h) == {n \in 0 .. Cardinality(h) : \A i \in 0 .. n - 1 : from(h) - i \in h}
<1>1. Cardinality(A) \in Nat /\ Cardinality(B) \in Nat /\ Cardinality(A) <= Cardinality(B)
  BY FS_CardinalityType, FS_Subset
<1>2. ASSUME NEW n \in runs(A) PROVE n \in runs(B)
  <2>1. n \in 0 .. Cardinality(B)
    BY <1>1
  <2>2. ASSUME NEW i \in 0 .. n - 1 PROVE from(B) - i \in B
    <3>1. n \in Int /\ i \in Int /\ from(A) - i \in A
      BY <1>1
    <3>2. CASE from(B) = from(A)
      BY <3>1, <3>2
    <3>3. CASE from(B) # from(A)
      <4>1. today \in B /\ from(B) = today /\ from(A) = today - 1
        BY <3>3
      <4>2. CASE i = 0
        BY <4>1, <4>2
      <4>3. CASE i # 0
        <5>1. i - 1 \in 0 .. n - 1
          BY <3>1, <4>3
        <5>2. from(A) - (i - 1) \in A
          BY <5>1
        <5>3. from(A) - (i - 1) = from(B) - i
          BY <3>1, <4>1
        <5> QED
          BY <5>2, <5>3
      <4> QED
        BY <4>2, <4>3
    <3> QED
      BY <3>2, <3>3
  <2> QED
    BY <2>1, <2>2
<1>3. ASSUME NEW h, Cardinality(h) \in Nat
      PROVE  Max(runs(h)) \in runs(h) /\ \A n \in runs(h) : Max(runs(h)) >= n
  <2>1. runs(h) \in SUBSET (0 .. Cardinality(h)) /\ 0 \in runs(h)
    BY <1>3
  <2> HIDE DEF runs
  <2>2. IsFiniteSet(0 .. Cardinality(h)) /\ 0 .. Cardinality(h) \subseteq Int
    BY <1>3, FS_Interval
  <2> DEFINE R == runs(h)
  <2>3. R \in SUBSET (0 .. Cardinality(h)) /\ R # {}
    BY <2>1
  <2> HIDE DEF R
  <2>4. IsFiniteSet(R) /\ R \subseteq Int
    BY <2>2, <2>3, FS_Subset
  <2>5. Max(R) \in R /\ \A n \in R : Max(R) >= n
    BY <2>3, <2>4, MaxIsGreatest
  <2> QED
    BY <2>5 DEF R
<1> HIDE DEF runs
<1>4. Max(runs(B)) >= Max(runs(A))
  BY <1>1, <1>2, <1>3
<1> QED
  BY <1>4 DEF runs

\* An order more shortens no streak.
LEMMA StreakOfBooks ==
  ASSUME NEW orders, NEW earnings, Books(orders, earnings), NEW past \in SUBSET orders,
         NEW u, NEW today \in Int, NEW enough \in Int
  PROVE  Streak(orders, u, today, enough) >= Streak(past, u, today, enough)
<1> DEFINE Mine(S) == {o \in S : o.user = u /\ o.status = "delivered"}
           grams == [o \in orders |-> SumFunction([l \in o.lines |-> l.protein])]
           Protein(S, d) == SumOf(grams, {o \in Mine(S) : Day(o.placed) = d})
           Healthy(S) == {d \in {Day(o.placed) : o \in Mine(S)} : Protein(S, d) >= enough}
           from(h) == IF today \in h THEN today ELSE today - 1
           runs(h) == {n \in 0 .. Cardinality(h) : \A i \in 0 .. n - 1 : from(h) - i \in h}
<1>1. ASSUME NEW o \in orders PROVE grams[o] \in Nat
  <2> DEFINE f == [l \in o.lines |-> l.protein]
  <2>1. IsFiniteSet(o.lines) /\ f \in [o.lines -> Nat]
    BY DEF Books, Recorded
  <2>2. grams[o] = SumFunction(f)
    OBVIOUS
  <2> HIDE DEF f, grams
  <2> QED
    BY <2>1, <2>2, SumInNat
<1>2. ASSUME NEW S \in SUBSET orders, NEW d
      PROVE  SumFunction([o \in {p \in Mine(S) : Day(p.placed) = d} |-> SumFunction([l \in o.lines |-> l.protein])])
               = Protein(S, d)
  <2> DEFINE T == {p \in Mine(S) : Day(p.placed) = d}
  <2>1. [o \in T |-> SumFunction([l \in o.lines |-> l.protein])] = [o \in T |-> grams[o]]
    OBVIOUS
  <2> HIDE DEF T, grams
  <2>2. SumFunction([o \in T |-> SumFunction([l \in o.lines |-> l.protein])]) = SumOf(grams, T)
    BY <2>1 DEF SumOf
  <2> QED
    BY <2>2 DEF T
<1>3. ASSUME NEW S \in SUBSET orders PROVE Streak(S, u, today, enough) = Max(runs(Healthy(S)))
  <2> DEFINE H == {d \in {Day(o.placed) : o \in Mine(S)} :
                     SumFunction([o \in {p \in Mine(S) : Day(p.placed) = d} |-> SumFunction([l \in o.lines |-> l.protein])])
                       >= enough}
  <2>1. Streak(S, u, today, enough) = Max(runs(H))
    BY DEF Streak, Sum
  <2>2. H = Healthy(S)
    <3> HIDE DEF Protein, Mine, grams
    <3> QED
      BY <1>2
  <2> HIDE DEF H, runs, Healthy
  <2> QED
    BY <2>1, <2>2
<1>4. ASSUME NEW S \in SUBSET orders PROVE IsFiniteSet(Healthy(S)) /\ IsFiniteSet(Mine(S)) /\ Mine(S) \in SUBSET orders
  <2> DEFINE k == [o \in Mine(S) |-> Day(o.placed)]
  <2>1. Mine(S) \in SUBSET orders
    OBVIOUS
  <2>2. IsFiniteSet(Mine(S))
    BY <2>1, FS_Subset DEF Books
  <2>3. Healthy(S) \in SUBSET Keys(k, Mine(S))
    BY DEF Keys
  <2> HIDE DEF k, Healthy, Mine
  <2> QED
    BY <2>1, <2>2, <2>3, KeysAreFinite, FS_Subset
<1>5. Healthy(past) \subseteq Healthy(orders)
  <2> SUFFICES ASSUME NEW d \in Healthy(past) PROVE d \in Healthy(orders)
    OBVIOUS
  <2> DEFINE P == {o \in Mine(past) : Day(o.placed) = d}
             Q == {o \in Mine(orders) : Day(o.placed) = d}
  <2>1. P \in SUBSET Q /\ Q \in SUBSET orders /\ P # {} /\ SumOf(grams, P) >= enough
    OBVIOUS
  <2>2. IsFiniteSet(Q)
    BY <2>1, FS_Subset DEF Books
  <2>3. d \in {Day(o.placed) : o \in Mine(orders)} /\ Protein(orders, d) = SumOf(grams, Q)
    BY <2>1
  <2> HIDE DEF P, Q, grams, Mine
  <2>4. SumOf(grams, P) <= SumOf(grams, Q)
    BY <1>1, <2>1, <2>2, PartOfSum
  <2>5. ASSUME NEW T \in SUBSET Q PROVE SumOf(grams, T) \in Nat
    <3> DEFINE f == [x \in T |-> grams[x]]
    <3>1. IsFiniteSet(T) /\ f \in [T -> Nat]
      BY <1>1, <2>1, <2>2, FS_Subset
    <3>2. SumOf(grams, T) = SumFunction(f)
      BY DEF SumOf
    <3> HIDE DEF f
    <3> QED
      BY <3>1, <3>2, SumInNat
  <2>6. SumOf(grams, Q) >= enough
    BY <2>1, <2>4, <2>5
  <2> QED
    BY <2>3, <2>6
<1>6. past \in SUBSET orders /\ orders \in SUBSET orders
  OBVIOUS
<1> HIDE DEF Healthy, Mine
<1>7. IsFiniteSet(Healthy(past)) /\ IsFiniteSet(Healthy(orders))
  BY <1>4, <1>6
<1>8. Max(runs(Healthy(orders))) >= Max(runs(Healthy(past)))
  BY <1>5, <1>7, StreakGrows
<1> HIDE DEF runs
<1> QED
  BY <1>3, <1>6, <1>8

----------------------------------------------------------------------------
(* The cart's order in the reports.                                        *)

\* When the order was placed, and that its amounts are numbers.
PlacedInv ==
  bill.state = "placed" =>
    bill.at \in Nat /\ bill.at <= now /\ bill.total \in Int /\ bill.discount \in Nat /\ bill.tip \in Nat

LEMMA TotalIsInt ==
  ASSUME PricedCart(cart), PricedShop(shop)
  PROVE  Total(cart) \in Int
<1> DEFINE due == Net(cart) + FlatCharge(cart) + Tip(cart)
           w == FromWallet(cart, due)
<1>1. Net(cart) \in Int /\ Delivery(cart) \in Int /\ FlatCharge(cart) \in Int /\ Tip(cart) \in Nat
  BY AmountsAreInts
<1>2. due \in Int /\ cart.balance \in Int
  BY <1>1 DEF PricedCart
<1>3. Total(cart) = (due - Positive(w)) + (Delivery(cart) - FlatCharge(cart))
  BY Zenon DEF Total, DueAfter
<1> HIDE DEF due
<1>4. Min({cart.balance, due}) \in Int
  BY <1>2, MinOfTwo
<1>5. w \in Int
  BY <1>4 DEF FromWallet
<1> HIDE DEF w
<1>6. Positive(w) \in Int
  BY <1>5, PositivePart
<1> QED
  BY <1>1, <1>2, <1>3, <1>6

LEMMA PlacedInvInit == CartInit => PlacedInv
BY DEF CartInit, PlacedInv, Nothing

LEMMA PlacedInvNext == CartInv /\ PlacedInv /\ [CartNext]_cartVars => PlacedInv'
<1> SUFFICES ASSUME CartInv, PlacedInv, [CartNext]_cartVars PROVE PlacedInv'
  OBVIOUS
<1>1. PricedCart(cart) /\ PricedShop(shop) /\ now \in Nat
  BY QuotesAssumption DEF CartInv, QuoteInv
<1>2. CASE Checkout
  <2>1. now' = now /\ (bill' = Order(cart) \/ bill' = Refused)
    BY <1>2 DEF Checkout
  <2>2. /\ Order(cart).at = now /\ Order(cart).total = Total(cart)
        /\ Order(cart).discount = Discount(cart) /\ Order(cart).tip = Tip(cart)
    BY DEF Order
  <2>3. Total(cart) \in Int /\ Discount(cart) \in Nat /\ Tip(cart) \in Nat
    BY <1>1, TotalIsInt, DiscountIsNat, AmountsAreInts
  <2>4. CASE bill' = Order(cart)
    BY <1>1, <2>1, <2>2, <2>3, <2>4 DEF PlacedInv
  <2>5. CASE bill' = Refused
    BY <2>5 DEF PlacedInv, Refused
  <2> QED
    BY <2>1, <2>4, <2>5
<1>3. CASE bill' = bill /\ now' \in {now, now + 1}
  BY <1>1, <1>3 DEF PlacedInv
<1> QED
  BY <1>2, <1>3 DEF CartNext, CreatePaymentOrder, Tick, cartVars

LEMMA PlacedInvariant == CartSpec => [](CartInv /\ PlacedInv)
<1>1. CartInit => CartInv /\ PlacedInv
  BY CartInvInit, PlacedInvInit
<1>2. CartInv /\ PlacedInv /\ [CartNext]_cartVars => (CartInv /\ PlacedInv)'
  BY CartInvNext, PlacedInvNext
<1> QED
  BY <1>1, <1>2, PTL DEF CartSpec

\* The cart's lines are those of an order.
LEMMA LinesAreRecorded ==
  ASSUME PricedCart(cart)
  PROVE  IsFiniteSet(Lines(cart)) /\ \A l \in Lines(cart) : l.amount \in Int /\ l.protein \in Nat
<1> DEFINE dish == [d \in DOMAIN cart.items |->
                      [line |-> 0, dish |-> d.name, category |-> d.category, qty |-> cart.items[d],
                       protein |-> d.protein * cart.items[d], amount |-> UnitPrice(d) * cart.items[d]]]
           thali == [i \in DOMAIN cart.thalis |->
                       [line |-> i, dish |-> "thali", category |-> "Uncategorised", qty |-> 1,
                        protein |-> 0, amount |-> ThaliPrice(cart.thalis[i].thali, cart.thalis[i].picks)]]
           Dishes == Keys(dish, DOMAIN cart.items)
           Thalis == Keys(thali, DOMAIN cart.thalis)
<1>1. IsFiniteSet(DOMAIN cart.items) /\ IsFiniteSet(DOMAIN cart.thalis)
  BY DEF PricedCart
<1>2. Lines(cart) = Dishes \cup Thalis
  BY DEF Lines, Keys
<1>3. ASSUME NEW d \in DOMAIN cart.items
      PROVE  dish[d].amount \in Int /\ dish[d].protein \in Nat
  <2>1. PricedDish(d) /\ cart.items[d] \in Nat
    BY DEF PricedCart
  <2>2. UnitPrice(d) \in Nat /\ d.protein \in Nat
    BY <2>1, UnitPriceIsNat DEF PricedDish
  <2>3. dish[d].amount = UnitPrice(d) * cart.items[d] /\ dish[d].protein = d.protein * cart.items[d]
    OBVIOUS
  <2> HIDE DEF dish
  <2> QED
    BY <2>1, <2>2, <2>3
<1>4. ASSUME NEW i \in DOMAIN cart.thalis
      PROVE  thali[i].amount \in Int /\ thali[i].protein \in Nat
  <2>1. ThaliPrice(cart.thalis[i].thali, cart.thalis[i].picks) \in Nat
    BY ThaliPriceIsNat DEF PricedCart
  <2> QED
    BY <2>1
<1> HIDE DEF dish, thali
<1>5. IsFiniteSet(Dishes) /\ IsFiniteSet(Thalis)
  BY <1>1, KeysAreFinite
<1>6. IsFiniteSet(Lines(cart))
  BY <1>2, <1>5, FS_Union
<1> QED
  BY <1>2, <1>3, <1>4, <1>6 DEF Keys

\* A part of a set of one is finite.
LEMMA PartOfOne ==
  ASSUME NEW x, NEW S \in SUBSET {x}
  PROVE  IsFiniteSet(S)
BY FS_Singleton, FS_Subset

\* Whatever became of it, the order is one more in the books.
LEMMA OrderIsBooked ==
  ASSUME CartInv, PlacedInv, bill.state = "placed", NEW status
  PROVE  Books(Past.orders \cup {Reported(status)}, Past.earnings \cup PayOf(Reported(status)))
<1> DEFINE order == Reported(status)
           orders == Past.orders \cup {order}
           pay == PayOf(order)
           earnings == Past.earnings \cup pay
<1>1. PricedCart(cart) /\ now \in Nat
  BY QuotesAssumption DEF CartInv, QuoteInv
<1>2. bill.at \in Nat /\ bill.at <= now /\ bill.total \in Int /\ bill.discount \in Nat /\ bill.tip \in Nat
  BY DEF PlacedInv
<1>3. /\ order.id = "this" /\ order.user = "customer" /\ order.placed = bill.at
      /\ order.total = bill.total /\ order.discount = bill.discount /\ order.tip = bill.tip
      /\ order.lines = Lines(cart) /\ order.status = status
      /\ order.done = (IF status = "delivered" THEN {now} ELSE {})
  BY DEF Reported
<1>4. IsFiniteSet(order.payments)
  <2> DEFINE p == [method |-> IF cart.online THEN "online" ELSE "cod",
                   status |-> IF cart.online \/ status = "delivered" THEN "paid" ELSE "pending",
                   amount |-> bill.total]
  <2>1. order.payments = {p}
    BY DEF Reported
  <2> HIDE DEF p, order
  <2> QED
    BY <2>1, FS_Singleton
<1>5. IsFiniteSet(Lines(cart)) /\ \A l \in Lines(cart) : l.amount \in Int /\ l.protein \in Nat
  BY <1>1, LinesAreRecorded
<1> HIDE DEF order
<1>6. Recorded(order)
  <2>1. {order.placed, order.total} \subseteq Int /\ order.discount \in Nat
    BY <1>2, <1>3
  <2>2. \A t, u \in order.done : t = u /\ t \in Int /\ order.placed <= t
    BY <1>1, <1>2, <1>3
  <2>3. order.status = "delivered" /\ ~ order.pickup => order.done # {}
    BY <1>3
  <2> QED
    BY <1>3, <1>4, <1>5, <2>1, <2>2, <2>3 DEF Recorded
<1>7. Books(Past.orders, Past.earnings)
  BY PastAssumption
<1>8. IsFiniteSet(orders) /\ \A o \in orders : Recorded(o)
  <2>1. IsFiniteSet(Past.orders) /\ IsFiniteSet({order})
    BY <1>7, FS_Singleton DEF Books
  <2>2. IsFiniteSet(orders)
    BY <2>1, FS_Union
  <2> QED
    BY <1>6, <1>7, <2>2 DEF Books
<1>9. \A o, p \in orders : o.id = p.id \/ (o.user = p.user /\ o.placed = p.placed) => o = p
  <2>1. ASSUME NEW o \in Past.orders
        PROVE  o.id # order.id /\ ~ (o.user = order.user /\ o.placed = order.placed)
    <3>1. o.id # "this" /\ (o.user = "customer" => o.placed < 0)
      BY PastAssumption
    <3>2. bill.at >= 0
      BY <1>2
    <3>3. order.id = "this" /\ order.user = "customer" /\ order.placed = bill.at
      BY <1>3
    <3>4. o.placed = bill.at => ~ (o.placed < 0)
      BY <1>2, <3>2
    <3> QED
      BY <3>1, <3>3, <3>4
  <2>2. \A o, p \in Past.orders : o.id = p.id \/ (o.user = p.user /\ o.placed = p.placed) => o = p
    BY <1>7 DEF Books
  <2> QED
    BY <2>1, <2>2
<1>10. /\ IsFiniteSet(pay) /\ \A e \in pay : e.total \in Int /\ e.order = "this"
       /\ pay # {} => order.rider # "nobody"
  <2> DEFINE way == IF Distance(cart) = NoPin THEN 0 ELSE Distance(cart) * Past.perKmPay
             e == [order |-> order.id, rider |-> order.rider, total |-> Past.baseFare + way + order.tip]
  <2>1. pay = IF order.done = {} \/ order.rider = "nobody" THEN {} ELSE {e}
    BY Zenon DEF PayOf
  <2>2. way \in Int
    <3>1. Distance(cart) \in Int
      BY <1>1 DEF Distance, NoPin, PricedCart
    <3>2. Past.perKmPay \in Int
      BY PastAssumption
    <3> QED
      BY <3>1, <3>2
  <2>3. e.total = Past.baseFare + way + order.tip /\ e.order = order.id
    OBVIOUS
  <2> HIDE DEF way
  <2>4. e.total \in Int /\ e.order = "this"
    <3>1. Past.baseFare \in Int
      BY PastAssumption
    <3> QED
      BY <1>2, <1>3, <2>2, <2>3, <3>1
  <2> HIDE DEF e, pay
  <2>5. pay \in SUBSET {e}
    BY <2>1
  <2>6. IsFiniteSet(pay)
    BY <2>5, PartOfOne
  <2> QED
    BY <2>1, <2>4, <2>5, <2>6
<1> HIDE DEF pay
<1>11. IsFiniteSet(earnings) /\ \A e \in earnings : e.total \in Int
  <2>1. IsFiniteSet(Past.earnings) /\ \A e \in Past.earnings : e.total \in Int
    BY <1>7 DEF Books
  <2>2. IsFiniteSet(earnings)
    BY <1>10, <2>1, FS_Union
  <2> QED
    BY <1>10, <2>1, <2>2
<1>12. \A e \in earnings, o \in orders : e.order = o.id => o.rider # "nobody"
  <2> SUFFICES ASSUME NEW e \in earnings, NEW o \in orders, e.order = o.id
               PROVE  o.rider # "nobody"
    OBVIOUS
  <2>1. CASE e \in pay
    <3>1. o.id = "this"
      BY <1>10, <2>1
    <3>2. o = order
      BY <3>1, PastAssumption
    <3> QED
      BY <1>10, <2>1, <3>2
  <2>2. CASE e \in Past.earnings
    <3>1. e.order # "this"
      BY <2>2, PastAssumption
    <3>2. o \in Past.orders
      BY <1>3, <3>1
    <3> QED
      BY <1>7, <2>2, <3>2 DEF Books
  <2> QED
    BY <2>1, <2>2
<1>13. Books(orders, earnings)
  BY <1>8, <1>9, <1>11, <1>12 DEF Books
<1> QED
  BY <1>13 DEF order, pay

\* What is collected for the order is counted with the rest.
LEMMA OrderIsCounted ==
  ASSUME CartInv, PlacedInv, bill.state = "placed", NEW status
  PROVE  Counted(Past.ledger \cup CashOf(Reported(status)))
<1> DEFINE order == Reported(status)
           p == [method |-> IF cart.online THEN "online" ELSE "cod",
                 status |-> IF cart.online \/ status = "delivered" THEN "paid" ELSE "pending",
                 amount |-> bill.total]
           x == [order |-> order.id, rider |-> order.rider, amount |-> p.amount]
<1>1. order.payments = {p}
  BY DEF Reported
<1>2. p.amount = bill.total /\ x.amount = p.amount
  OBVIOUS
<1> HIDE DEF order, p
<1>3. CashOf(order) \in SUBSET {x}
  BY <1>1 DEF CashOf
<1>4. bill.total \in Int
  BY DEF PlacedInv
<1> HIDE DEF x
<1>5. IsFiniteSet(CashOf(order)) /\ \A y \in CashOf(order) : y.amount \in Int
  BY <1>2, <1>3, <1>4, PartOfOne
<1>6. Counted(Past.ledger)
  BY PastAssumption
<1>7. IsFiniteSet(Past.ledger \cup CashOf(order))
  BY <1>5, <1>6, FS_Union DEF Counted
<1>8. Counted(Past.ledger \cup CashOf(order))
  BY <1>5, <1>6, <1>7 DEF Counted
<1> QED
  BY <1>8 DEF order

\* "Two screens disagree": whatever became of a cart's order, the reports on
\* one selection of orders add up to the same counts and amounts, the cash
\* screens show the same cash, and a delivery shortens no streak; for any
\* earlier orders, filters, carts and settings.
THEOREM ScreensAreOne == CartSpec => []ScreensAgree
<1>1. CartInv /\ PlacedInv => ScreensAgree
  <2> SUFFICES ASSUME CartInv, PlacedInv, bill.state = "placed", NEW status
               PROVE  LET order == Reported(status)
                          orders == Past.orders \cup {order}
                          ledger == Past.ledger \cup CashOf(order)
                      IN /\ \A f \in Filters :
                              /\ BreakdownsAddUp(orders, f)
                              /\ PlainFilter(f) => SalesAgree(orders, f, Past.menu) /\ NewcomersAgree(orders, f)
                         /\ DeliveriesAgree(orders, Past.earnings \cup PayOf(order), 0, Day(now))
                         /\ CashScreensAgree(ledger, Past.deposits, Past.riders, Past.cap, now)
                         /\ Streak(orders, order.user, Day(now), Past.enough)
                              >= Streak(Past.orders, order.user, Day(now), Past.enough)
    BY Zenon DEF ScreensAgree
  <2> DEFINE order == Reported(status)
             orders == Past.orders \cup {order}
             ledger == Past.ledger \cup CashOf(order)
             earnings == Past.earnings \cup PayOf(order)
  <2>1. Books(orders, earnings) /\ Counted(ledger)
    BY OrderIsBooked, OrderIsCounted
  <2>2. Counted(Past.deposits) /\ Past.cap \in Int /\ Past.enough \in Int
    BY PastAssumption
  <2>3. Day(now) \in Int
    BY CalendarAssumption DEF CartInv, QuoteInv, Day
  <2>4. Past.orders \in SUBSET orders
    OBVIOUS
  <2> HIDE DEF order, orders, ledger, earnings
  <2>5. \A f \in Filters : BreakdownsAddUp(orders, f)
    BY <2>1, BreakdownsOfBooks
  <2>6. \A f \in Filters : PlainFilter(f) => SalesAgree(orders, f, Past.menu)
    BY <2>1, SalesOfBooks
  <2>7. \A f \in Filters : PlainFilter(f) => NewcomersAgree(orders, f)
    BY <2>1, NewcomersOfBooks
  <2>8. DeliveriesAgree(orders, earnings, 0, Day(now))
    BY <2>1, <2>3, DeliveriesOfBooks
  <2>9. CashScreensAgree(ledger, Past.deposits, Past.riders, Past.cap, now)
    BY <2>1, <2>2, CashOfBooks
  <2>10. Streak(orders, order.user, Day(now), Past.enough) >= Streak(Past.orders, order.user, Day(now), Past.enough)
    BY <2>1, <2>2, <2>3, <2>4, StreakOfBooks
  <2> QED
    BY <2>5, <2>6, <2>7, <2>8, <2>9, <2>10 DEF order, orders, ledger, earnings
<1> QED
  BY <1>1, PlacedInvariant, PTL
=============================================================================

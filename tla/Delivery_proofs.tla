--------------------------- MODULE Delivery_proofs ---------------------------
(***************************************************************************)
(* Proofs about the riders' trips, for any number of orders, riders and    *)
(* requests: what the lists of statements of the requests in flight look   *)
(* like, that a shared trip earns its bonus once, and that when the        *)
(* requests have ended no trip is left open and all records tell one story.*)
(***************************************************************************)
EXTENDS Trips, FiniteSetTheorems, WellFoundedInduction, TLAPS

----------------------------------------------------------------------------
(* The lists of statements.                                                *)

RowType  == [trip : 0 .. Len(trips), status : Stages, carrier : Carriers]
TripType == [rider : Riders, status : Active \cup {"done", "cancelled"}]

\* The statements a request may have to run, over n trips.
OrderTasks(n) ==
  [do : {"assign", "pick", "open"}, order : Orders, rider : Riders, trip : 0 .. n]
  \cup [do : {"add", "place"}, order : Orders, rider : Riders, trip : 1 .. n]
  \cup [do : {"point"}, order : Orders, rider : Carriers, trip : 0 .. n]
  \cup [do : {"last", "bonus"}, order : Orders, rider : Carriers, trip : 1 .. n]
  \cup [do : {"deliver"}, order : Orders, rider : Carriers, trip : {0}]
RowTasks(n) ==
  [do : {"update"}, order : Orders, rider : Carriers, to : Stages]
  \cup [do : {"save"}, order : Orders, row : [trip : 0 .. n, status : Stages, carrier : Carriers]]
TripTasks(n) ==
  [do : {"settle", "cancel", "catch", "revive", "pickup"}, trip : 1 .. n]
  \cup [do : {"close"}, trip : 1 .. n, to : {"done", "cancelled"}]
OtherTasks ==
  [do : {"create", "insert"}, rider : Riders, orders : Seq(Orders)]
  \cup [do : {"leave", "drop", "book", "unbook"}, order : Orders]
  \cup [do : {"refresh"}, rider : Carriers]

Tasks(n) == OrderTasks(n) \cup RowTasks(n) \cup TripTasks(n) \cup OtherTasks

\* The database and the lists have their types; no trip is mentioned that is
\* not there.
DbType ==
  /\ trips \in Seq(TripType) /\ Len(trips) <= MaxTrips
  /\ rows \in [Orders -> RowType]
  /\ stops \in [Orders -> [trip : 0 .. Len(trips), dropped : BOOLEAN]]
  /\ \A o \in Orders : stops[o].trip = 0 => stops[o] = NoStop
  /\ free \in [Riders -> BOOLEAN]
  /\ bonus \subseteq Orders \X (1 .. Len(trips))

TypeInv ==
  /\ DbType
  /\ work \in [Requests -> Seq(Tasks(Len(trips)))]
  /\ past \in [calls : 0 .. MaxCalls, planners : SUBSET Requests, raced : BOOLEAN,
               tangled : BOOLEAN, cut : BOOLEAN]

\* What a task of each kind carries.
LEMMA TaskFields ==
  ASSUME NEW n \in Nat, NEW k \in Tasks(n)
  PROVE  /\ k.do \in {"assign", "pick", "open"} =>
              k \in [do : {k.do}, order : Orders, rider : Riders, trip : 0 .. n]
         /\ k.do \in {"add", "place"} =>
              k \in [do : {k.do}, order : Orders, rider : Riders, trip : 1 .. n]
         /\ k.do = "point" => k \in [do : {k.do}, order : Orders, rider : Carriers, trip : 0 .. n]
         /\ k.do \in {"last", "bonus"} =>
              k \in [do : {k.do}, order : Orders, rider : Carriers, trip : 1 .. n]
         /\ k.do = "deliver" => k \in [do : {k.do}, order : Orders, rider : Carriers, trip : {0}]
         /\ k.do = "update" => k \in [do : {k.do}, order : Orders, rider : Carriers, to : Stages]
         /\ k.do = "save" => k \in [do : {k.do}, order : Orders,
                                    row : [trip : 0 .. n, status : Stages, carrier : Carriers]]
         /\ k.do \in {"settle", "cancel", "catch", "revive", "pickup"} =>
              k \in [do : {k.do}, trip : 1 .. n]
         /\ k.do = "close" => k \in [do : {k.do}, trip : 1 .. n, to : {"done", "cancelled"}]
         /\ k.do \in {"create", "insert"} => k \in [do : {k.do}, rider : Riders, orders : Seq(Orders)]
         /\ k.do \in {"leave", "drop", "book", "unbook"} => k \in [do : {k.do}, order : Orders]
         /\ k.do = "refresh" => k \in [do : {k.do}, rider : Carriers]
<1>1. CASE k \in OrderTasks(n)
  BY <1>1 DEF OrderTasks
<1>2. CASE k \in RowTasks(n)
  BY <1>2 DEF RowTasks
<1>3. CASE k \in TripTasks(n)
  BY <1>3 DEF TripTasks
<1>4. CASE k \in OtherTasks
  BY <1>4 DEF OtherTasks
<1> QED
  BY <1>1, <1>2, <1>3, <1>4 DEF Tasks

\* More trips, more tasks.
LEMMA MoreTrips ==
  ASSUME NEW n \in Nat, NEW m \in Nat, n <= m
  PROVE  Tasks(n) \subseteq Tasks(m)
<1> SUFFICES ASSUME NEW k \in Tasks(n) PROVE k \in Tasks(m)
  OBVIOUS
<1>1. CASE k \in OrderTasks(n)
  BY <1>1 DEF OrderTasks, Tasks
<1>2. CASE k \in RowTasks(n)
  BY <1>2 DEF RowTasks, Tasks
<1>3. CASE k \in TripTasks(n)
  BY <1>3 DEF TripTasks, Tasks
<1> QED
  BY <1>1, <1>2, <1>3 DEF Tasks

\* What a request has to do, and what after its first statement.
Todo(q)  == {work[q][i] : i \in DOMAIN work[q]}
Later(q) == {work[q][i] : i \in 2 .. Len(work[q])}

\* A list whose first statement is replaced by others.
LEMMA Replaced ==
  ASSUME NEW S, NEW s \in Seq(S), s # <<>>, NEW ts \in Seq(S)
  PROVE  /\ ts \o Tail(s) \in Seq(S)
         /\ Len(ts \o Tail(s)) = Len(ts) + Len(s) - 1
         /\ \A i \in 1 .. Len(ts) : (ts \o Tail(s))[i] = ts[i]
         /\ \A i \in 2 .. Len(s) : (ts \o Tail(s))[i + Len(ts) - 1] = s[i]
         /\ Head(s) = s[1] /\ Len(s) >= 1 /\ Head(s) \in S
OBVIOUS

\* The list of q after a step that has replaced its first statement by ts.
LEMMA Advanced ==
  ASSUME NEW n \in Nat, work \in [Requests -> Seq(Tasks(n))], NEW q \in Requests, work[q] # <<>>,
         NEW ts \in Seq(Tasks(n)), Then(q, ts)
  PROVE  /\ work' \in [Requests -> Seq(Tasks(n))]
         /\ \A p \in Requests \ {q} : work'[p] = work[p]
         /\ Len(work'[q]) = Len(ts) + Len(work[q]) - 1
         /\ \A i \in 1 .. Len(ts) : work'[q][i] = ts[i]
         /\ \A i \in 2 .. Len(work[q]) : work'[q][i + Len(ts) - 1] = work[q][i]
         /\ Todo(q)' = {ts[i] : i \in 1 .. Len(ts)} \cup Later(q)
         /\ Head(work[q]) = work[q][1] /\ Head(work[q]) \in Tasks(n)
         /\ Todo(q) = {Head(work[q])} \cup Later(q)
         /\ Later(q) \subseteq Tasks(n)
<1> DEFINE s == work[q]
           l == ts \o Tail(s)
<1>1. s \in Seq(Tasks(n)) /\ s # <<>>
  OBVIOUS
<1>2. work' = [work EXCEPT ![q] = l]
  BY DEF Then
<1>3. work'[q] = l /\ \A p \in Requests \ {q} : work'[p] = work[p]
  BY <1>2
<1>4. /\ l \in Seq(Tasks(n)) /\ Len(l) = Len(ts) + Len(s) - 1
      /\ \A i \in 1 .. Len(ts) : l[i] = ts[i]
      /\ \A i \in 2 .. Len(s) : l[i + Len(ts) - 1] = s[i]
      /\ Head(s) = s[1] /\ Len(s) >= 1 /\ Head(s) \in Tasks(n)
  BY <1>1, Replaced
<1>5. work' \in [Requests -> Seq(Tasks(n))]
  BY <1>2, <1>4
<1> HIDE DEF l
<1>6. {l[i] : i \in DOMAIN l} = {ts[i] : i \in 1 .. Len(ts)} \cup {s[i] : i \in 2 .. Len(s)}
  <2>1. DOMAIN l = 1 .. Len(l) /\ Len(ts) \in Nat /\ Len(s) \in Nat
    BY <1>1, <1>4
  <2>2. ASSUME NEW i \in DOMAIN l
        PROVE  l[i] \in {ts[j] : j \in 1 .. Len(ts)} \cup {s[j] : j \in 2 .. Len(s)}
    <3>1. CASE i <= Len(ts)
      <4>1. i \in 1 .. Len(ts)
        BY <2>1, <3>1
      <4>2. l[i] = ts[i]
        BY <1>4, <4>1
      <4> QED
        BY <4>1, <4>2
    <3>2. CASE i > Len(ts)
      <4>1. PICK j \in 2 .. Len(s) : i = j + Len(ts) - 1
        <5>1. i - Len(ts) + 1 \in 2 .. Len(s) /\ i = (i - Len(ts) + 1) + Len(ts) - 1
          BY <1>4, <2>1, <3>2
        <5> QED
          BY <5>1
      <4>2. l[i] = s[j]
        BY <1>4, <4>1
      <4> QED
        BY <4>2
    <3> QED
      BY <2>1, <3>1, <3>2
  <2>3. ASSUME NEW i \in 1 .. Len(ts) PROVE ts[i] \in {l[j] : j \in DOMAIN l}
    <3>1. i \in DOMAIN l /\ l[i] = ts[i]
      BY <1>4, <2>1, <2>3
    <3> QED
      BY <3>1
  <2>4. ASSUME NEW i \in 2 .. Len(s) PROVE s[i] \in {l[j] : j \in DOMAIN l}
    <3>1. i + Len(ts) - 1 \in DOMAIN l /\ l[i + Len(ts) - 1] = s[i]
      BY <1>4, <2>1, <2>4
    <3> QED
      BY <3>1
  <2> QED
    BY <2>2, <2>3, <2>4
<1>7. Todo(q)' = {ts[i] : i \in 1 .. Len(ts)} \cup Later(q)
  BY <1>3, <1>6 DEF Todo, Later
<1>8. Todo(q) = {s[1]} \cup Later(q)
  <2>1. DOMAIN s = {1} \cup (2 .. Len(s))
    BY <1>1, <1>4
  <2> QED
    BY <2>1 DEF Todo, Later
<1>9. Later(q) \subseteq Tasks(n)
  BY <1>1 DEF Later
<1> QED
  BY <1>3, <1>4, <1>5, <1>7, <1>8, <1>9

\* An error: the list is empty, or revives the trip of its catch.
LEMMA Thrown ==
  ASSUME NEW n \in Nat, work \in [Requests -> Seq(Tasks(n))], NEW q \in Requests, Throw(q)
  PROVE  /\ work' \in [Requests -> Seq(Tasks(n))]
         /\ \A p \in Requests \ {q} : work'[p] = work[p]
         /\ \/ work'[q] = <<>>
            \/ \E k \in Todo(q) : k.do = "catch" /\ work'[q] = <<TripTask("revive", k.trip)>>
<1> DEFINE guards == {i \in DOMAIN work[q] : work[q][i].do = "catch"}
<1>1. CASE guards = {}
  <2>1. work' = [work EXCEPT ![q] = <<>>]
    BY <1>1 DEF Throw
  <2> QED
    BY <2>1
<1>2. CASE guards # {}
  <2>1. (CHOOSE i \in guards : TRUE) \in guards
    BY <1>2
  <2>2. PICK i \in guards : work' = [work EXCEPT ![q] = <<TripTask("revive", work[q][i].trip)>>]
    BY <1>2, <2>1 DEF Throw
  <2>3. work[q][i] \in Tasks(n) /\ work[q][i].do = "catch" /\ work[q][i] \in Todo(q)
    BY <2>2 DEF Todo
  <2>4. work[q][i].trip \in 1 .. n
    BY <2>3, TaskFields
  <2>5. TripTask("revive", work[q][i].trip) \in Tasks(n)
    BY <2>4 DEF TripTask, Tasks, TripTasks
  <2>6. <<TripTask("revive", work[q][i].trip)>> \in Seq(Tasks(n))
    BY <2>5
  <2> QED
    BY <2>2, <2>3, <2>6
<1> QED
  BY <1>1, <1>2
Planning == {"assign", "pick", "open", "place", "add", "create", "insert", "cancel", "catch",
             "revive", "book", "unbook"}
Moving == {"update", "pickup", "leave", "deliver", "last", "bonus"}
Shared == {"save", "drop", "point", "settle", "close", "refresh"}
Dos == Planning \cup Moving \cup Shared

\* What a statement may put in its place.
Follow(x) ==
  CASE x = "drop" -> {"point", "settle"}
    [] x = "settle" -> {"close"}
    [] x = "pick" -> {"place", "open"}
    [] x = "open" -> {"place"}
    [] x = "place" -> {"point"}
    [] x = "deliver" -> {"last", "refresh"}
    [] x = "last" -> {"close", "refresh", "bonus"}
    [] x = "assign" -> {"save", "drop", "pick", "refresh"}
    [] x = "update" -> {"save", "leave", "deliver", "drop", "refresh"}
    [] x = "book" -> {"drop", "save", "refresh"}
    [] x = "unbook" -> {"save"}
    [] x = "create" -> {"insert"}
    [] x = "insert" -> {"assign"}
    [] x = "add" -> {"cancel", "create", "catch"}
    [] x = "pickup" -> {"update"}
    [] OTHER -> {}

\* What may stand before a statement in a list.
Before(y) ==
  CASE y \in {"settle", "last", "close"} -> {"point"}
    [] y = "pick" -> {"save", "drop", "point", "settle", "close"}
    [] y = "assign" -> {"assign", "pick", "open", "place"} \cup Shared
    [] y \in {"drop", "deliver", "leave"} -> {"save"}
    [] y = "save" -> {"drop", "point", "settle", "close"}
    [] y = "refresh" -> {"pick", "open", "place"} \cup Shared
    [] y = "catch" -> {"cancel", "create", "insert", "assign", "pick", "open", "place"} \cup Shared
    [] y = "bonus" -> {"close", "refresh"}
    [] y = "create" -> {"cancel"}
    [] y = "update" -> (Moving \ {"pickup"}) \cup Shared
    [] OTHER -> {}

Ordered(s) == \A i, j \in DOMAIN s : i < j => s[i].do \in Before(s[j].do)

\* The step of a request on its list.
Shape(q) ==
  /\ work[q] # <<>>
  /\ \/ Throw(q)
     \/ \E ts \in Seq(Tasks(Len(trips'))) :
          /\ Then(q, ts) /\ Ordered(ts)
          /\ \A i \in 1 .. Len(ts) : /\ ts[i].do \in Follow(Head(work[q]).do)
                                     /\ ts[i].do = "assign" => ts[i].trip # 0

LEMMA KnownDos == ASSUME NEW n \in Nat, NEW k \in Tasks(n) PROVE k.do \in Dos
<1>1. CASE k \in OrderTasks(n)
  BY <1>1 DEF OrderTasks, Dos, Planning, Moving, Shared
<1>2. CASE k \in RowTasks(n)
  BY <1>2 DEF RowTasks, Dos, Planning, Moving, Shared
<1>3. CASE k \in TripTasks(n)
  BY <1>3 DEF TripTasks, Dos, Planning, Moving, Shared
<1>4. CASE k \in OtherTasks
  BY <1>4 DEF OtherTasks, Dos, Planning, Moving, Shared
<1> QED
  BY <1>1, <1>2, <1>3, <1>4 DEF Tasks

\* What follows a statement may stand wherever it may.
LEMMA FollowsStay ==
  ASSUME NEW x \in Dos, NEW y \in Dos, NEW z \in Follow(x), x \in Before(y)
  PROVE  z \in Before(y)
<1>1. z \in Dos
  BY DEF Follow, Dos, Planning, Moving, Shared
<1>2. CASE y \in {"settle", "last", "close"}
  BY <1>2 DEF Before, Follow
<1>3. CASE y = "pick"
  BY <1>3 DEF Before, Follow
<1>4. CASE y = "assign"
  BY <1>4 DEF Before, Follow, Shared
<1>5. CASE y \in {"drop", "deliver", "leave", "save"}
  BY <1>5 DEF Before, Follow
<1>6. CASE y \in {"refresh", "update"}
  BY <1>6 DEF Before, Follow, Shared, Moving
<1>7. CASE y = "catch"
  BY <1>7 DEF Before, Follow, Shared
<1>8. CASE y \in {"create", "bonus"}
  BY <1>8 DEF Before, Follow
<1>9. CASE y \notin {"settle", "last", "close", "pick", "assign", "drop", "deliver",
                      "leave", "save", "refresh", "update", "catch", "create", "bonus"}
  BY <1>9 DEF Before
<1> QED
  BY <1>2, <1>3, <1>4, <1>5, <1>6, <1>7, <1>8, <1>9

\* Who plans stays with planning, who moves with moving.
LEMMA FollowsKind ==
  ASSUME NEW x \in Dos, NEW z \in Follow(x)
  PROVE  /\ z \in Dos
         /\ x \in Planning \cup Shared => z \in Planning \cup Shared
         /\ x \in Moving \cup Shared => z \in Moving \cup Shared
BY DEF Follow, Dos, Planning, Moving, Shared

\* The lists: in order, of one kind, and one assignment alone takes any trip.
ListOK(q) ==
  /\ Ordered(work[q])
  /\ q \in past.planners => \A k \in Todo(q) : k.do \in Planning \cup Shared
  /\ q \notin past.planners => \A k \in Todo(q) : k.do \in Moving \cup Shared
  /\ \A k \in Todo(q) : k.do = "assign" /\ k.trip = 0 => Len(work[q]) = 1

ListInv == \A q \in Requests : ListOK(q)

\* What stands after the first statement.
LEMMA Behind ==
  ASSUME NEW n \in Nat, work \in [Requests -> Seq(Tasks(n))], NEW q \in Requests,
         Ordered(work[q]), NEW k \in Later(q)
  PROVE  Head(work[q]).do \in Before(k.do)
<1>1. PICK i \in 2 .. Len(work[q]) : k = work[q][i]
  BY DEF Later
<1>2. work[q] \in Seq(Tasks(n)) /\ 1 \in DOMAIN work[q] /\ i \in DOMAIN work[q] /\ 1 < i
  OBVIOUS
<1>3. Head(work[q]) = work[q][1]
  BY <1>2
<1> QED
  BY <1>1, <1>2, <1>3 DEF Ordered

\* A step keeps the lists in order.
LEMMA ShapeKept ==
  ASSUME TypeInv, ListInv, NEW q \in Requests, Shape(q), DbType', Len(trips) <= Len(trips'),
         past'.planners = past.planners
  PROVE  work' \in [Requests -> Seq(Tasks(Len(trips')))] /\ ListInv'
<1> DEFINE n == Len(trips')
<1>0. n \in Nat /\ Len(trips) \in Nat
  BY DEF TypeInv, DbType
<1>1. work \in [Requests -> Seq(Tasks(n))]
  <2>1. Tasks(Len(trips)) \subseteq Tasks(n)
    BY <1>0, MoreTrips
  <2>2. \A p \in Requests : work[p] \in Seq(Tasks(n))
    BY <2>1 DEF TypeInv
  <2> QED
    BY <2>2 DEF TypeInv
<1> HIDE DEF n
<1>2. ASSUME NEW p \in Requests, work'[p] = work[p] PROVE ListOK(p)'
  BY <1>2 DEF ListInv, ListOK, Todo
<1>3. CASE Throw(q)
  <2>1. /\ work' \in [Requests -> Seq(Tasks(n))]
        /\ \A p \in Requests \ {q} : work'[p] = work[p]
        /\ \/ work'[q] = <<>>
           \/ \E k \in Todo(q) : k.do = "catch" /\ work'[q] = <<TripTask("revive", k.trip)>>
    BY <1>0, <1>1, <1>3, Thrown
  <2>2. ASSUME work'[q] = <<>> PROVE ListOK(q)'
    BY <2>2 DEF ListOK, Ordered, Todo
  <2>3. ASSUME NEW k \in Todo(q), k.do = "catch", work'[q] = <<TripTask("revive", k.trip)>>
        PROVE  ListOK(q)'
    <3>1. q \in past.planners
      BY <2>3 DEF ListInv, ListOK, Moving, Shared
    <3>2. Todo(q)' = {TripTask("revive", k.trip)}
      BY <2>3 DEF Todo
    <3>3. TripTask("revive", k.trip).do = "revive"
      BY DEF TripTask
    <3>4. Ordered(work'[q])
      BY <2>3 DEF Ordered
    <3> QED
      BY <3>1, <3>2, <3>3, <3>4 DEF ListOK, Planning
  <2> QED
    BY <1>2, <2>1, <2>2, <2>3 DEF ListInv, n
<1>4. ASSUME NEW ts \in Seq(Tasks(n)), Then(q, ts), Ordered(ts),
             \A i \in 1 .. Len(ts) : /\ ts[i].do \in Follow(Head(work[q]).do)
                                     /\ ts[i].do = "assign" => ts[i].trip # 0
      PROVE  work' \in [Requests -> Seq(Tasks(n))] /\ ListInv'
  <2> DEFINE s == work[q]
             l == work'[q]
             h == Head(work[q])
  <2>0. s # <<>> /\ s \in Seq(Tasks(n)) /\ Ordered(s)
    BY <1>1 DEF Shape, ListInv, ListOK
  <2>1. /\ work' \in [Requests -> Seq(Tasks(n))]
        /\ \A p \in Requests \ {q} : work'[p] = work[p]
        /\ Len(l) = Len(ts) + Len(s) - 1
        /\ \A i \in 1 .. Len(ts) : l[i] = ts[i]
        /\ \A i \in 2 .. Len(s) : l[i + Len(ts) - 1] = s[i]
        /\ Todo(q)' = {ts[i] : i \in 1 .. Len(ts)} \cup Later(q)
        /\ h = s[1] /\ h \in Tasks(n)
        /\ Todo(q) = {h} \cup Later(q)
        /\ Later(q) \subseteq Tasks(n)
    BY <1>0, <1>1, <1>4, <2>0, Advanced
  <2>a. \A i \in 1 .. Len(ts) : /\ ts[i].do \in Follow(h.do)
                                /\ ts[i].do = "assign" => ts[i].trip # 0
    BY <1>4
  <2>b. Later(q) = {s[i] : i \in 2 .. Len(s)}
    BY DEF Later
  <2>5. /\ q \in past.planners => \A k \in Todo(q) : k.do \in Planning \cup Shared
        /\ q \notin past.planners => \A k \in Todo(q) : k.do \in Moving \cup Shared
        /\ \A k \in Todo(q) : k.do = "assign" /\ k.trip = 0 => Len(s) = 1
    BY DEF ListInv, ListOK
  <2>c. work'[q] = l /\ work[q] = s /\ l \in Seq(Tasks(n))
    BY <2>1
  <2> HIDE DEF s, l, h
  <2>2. h.do \in Dos
    BY <1>0, <2>1, KnownDos
  <2>3. ASSUME NEW i \in DOMAIN l, NEW j \in DOMAIN l, i < j PROVE l[i].do \in Before(l[j].do)
    <3>0. /\ Len(ts) \in Nat /\ Len(s) \in Nat /\ i \in Nat /\ j \in Nat /\ DOMAIN l = 1 .. Len(l)
          /\ DOMAIN ts = 1 .. Len(ts) /\ DOMAIN s = 1 .. Len(s)
      BY <1>4, <2>0, <2>1, <2>c
    <3>1. CASE j <= Len(ts)
      <4>1. l[i] = ts[i] /\ l[j] = ts[j] /\ i \in DOMAIN ts /\ j \in DOMAIN ts
        BY <2>1, <2>3, <3>0, <3>1
      <4> QED
        BY <1>4, <2>3, <4>1 DEF Ordered
    <3>2. CASE j > Len(ts)
      <4>1. PICK b \in 2 .. Len(s) : j = b + Len(ts) - 1
        <5>1. j - Len(ts) + 1 \in 2 .. Len(s) /\ j = (j - Len(ts) + 1) + Len(ts) - 1
          BY <2>1, <3>0, <3>2
        <5> QED
          BY <5>1
      <4>2. l[j] = s[b]
        BY <2>1, <4>1
      <4>3. s[b].do \in Dos /\ h.do \in Before(s[b].do)
        <5>1. 1 \in DOMAIN s /\ b \in DOMAIN s /\ 1 < b
          BY <3>0
        <5>2. s[b] \in Tasks(n)
          BY <2>0, <5>1
        <5> QED
          BY <1>0, <2>0, <2>1, <5>1, <5>2, KnownDos DEF Ordered
      <4>4. CASE i <= Len(ts)
        <5>1. i \in 1 .. Len(ts) /\ l[i] = ts[i]
          BY <2>1, <3>0, <4>4
        <5>2. ts[i].do \in Follow(h.do)
          BY <2>a, <5>1
        <5> QED
          BY <2>2, <4>2, <4>3, <5>1, <5>2, FollowsStay
      <4>5. CASE i > Len(ts)
        <5>1. PICK a \in 2 .. Len(s) : i = a + Len(ts) - 1
          <6>1. i - Len(ts) + 1 \in 2 .. Len(s) /\ i = (i - Len(ts) + 1) + Len(ts) - 1
            BY <2>1, <3>0, <4>5
          <6> QED
            BY <6>1
        <5>2. l[i] = s[a]
          BY <2>1, <5>1
        <5>3. a < b /\ a \in DOMAIN s /\ b \in DOMAIN s
          BY <2>3, <3>0, <4>1, <5>1
        <5> QED
          BY <2>0, <4>2, <5>2, <5>3 DEF Ordered
      <4> QED
        BY <3>0, <4>4, <4>5
    <3> QED
      BY <3>0, <3>1, <3>2
  <2>4. \A i \in 1 .. Len(ts) : /\ ts[i].do \in Dos
                                /\ h.do \in Planning \cup Shared => ts[i].do \in Planning \cup Shared
                                /\ h.do \in Moving \cup Shared => ts[i].do \in Moving \cup Shared
    BY <2>2, <2>a, FollowsKind
  <2>6. q \in past.planners => \A k \in Todo(q)' : k.do \in Planning \cup Shared
    BY <2>1, <2>4, <2>5
  <2>7. q \notin past.planners => \A k \in Todo(q)' : k.do \in Moving \cup Shared
    BY <2>1, <2>4, <2>5
  <2>8. \A k \in Todo(q)' : ~ (k.do = "assign" /\ k.trip = 0)
    <3>1. ASSUME NEW k \in Later(q), k.do = "assign", k.trip = 0 PROVE FALSE
      <4>1. Len(s) = 1
        BY <2>1, <2>5, <3>1
      <4> QED
        BY <2>b, <3>1, <4>1
    <3> QED
      BY <2>1, <2>a, <3>1
  <2>9. ListOK(q)'
    BY <2>3, <2>6, <2>7, <2>8, <2>c DEF ListOK, Ordered
  <2> QED
    BY <1>2, <2>1, <2>9 DEF ListInv
<1> QED
  BY <1>3, <1>4 DEF Shape, n

----------------------------------------------------------------------------
(* Data.                                                                   *)

\* A set of numbers has a least one.
LEMMA Least == ASSUME NEW T \in SUBSET Nat, T # {} PROVE \E n \in T : \A m \in T : n <= m
<1> DEFINE R == OpToRel(<, Nat)
<1>1. \A x, y \in Nat : y < x => <<y, x>> \in R
  BY DEF OpToRel
<1>2. IsWellFoundedOn(R, Nat)
  BY NatLessThanWellFounded
<1> HIDE DEF R
<1>3. PICK x \in T : \A y \in T : <<y, x>> \notin R
  BY <1>2, WFMin
<1>4. \A y \in T : ~ (y < x)
  BY <1>1, <1>3
<1>5. \A y \in T : x <= y
  BY <1>4
<1> QED
  BY <1>5

\* The statements of a list.
Elems(s) == {s[i] : i \in DOMAIN s}

LEMMA ShortLists ==
  ASSUME NEW n \in Nat
  PROVE  /\ <<>> \in Seq(Tasks(n)) /\ Elems(<<>>) = {} /\ Ordered(<<>>)
         /\ \A a \in Tasks(n) :
              /\ <<a>> \in Seq(Tasks(n)) /\ Elems(<<a>>) = {a}
              /\ Ordered(<<a>>)
         /\ \A a, b \in Tasks(n) :
              /\ <<a, b>> \in Seq(Tasks(n)) /\ Elems(<<a, b>>) = {a, b}
              /\ a.do \in Before(b.do) => Ordered(<<a, b>>)
         /\ \A a, b, c \in Tasks(n) :
              /\ <<a, b, c>> \in Seq(Tasks(n)) /\ Elems(<<a, b, c>>) = {a, b, c}
              /\ a.do \in Before(b.do) \cap Before(c.do) /\ b.do \in Before(c.do)
                   => Ordered(<<a, b, c>>)
<1>1. <<>> \in Seq(Tasks(n)) /\ Elems(<<>>) = {} /\ Ordered(<<>>)
  BY DEF Elems, Ordered
<1>2. ASSUME NEW a \in Tasks(n)
      PROVE  <<a>> \in Seq(Tasks(n)) /\ Elems(<<a>>) = {a} /\ Ordered(<<a>>)
  BY DEF Elems, Ordered
<1>3. ASSUME NEW a \in Tasks(n), NEW b \in Tasks(n)
      PROVE  /\ <<a, b>> \in Seq(Tasks(n)) /\ Elems(<<a, b>>) = {a, b}
             /\ a.do \in Before(b.do) => Ordered(<<a, b>>)
  BY DEF Elems, Ordered
<1>4. ASSUME NEW a \in Tasks(n), NEW b \in Tasks(n), NEW c \in Tasks(n)
      PROVE  /\ <<a, b, c>> \in Seq(Tasks(n)) /\ Elems(<<a, b, c>>) = {a, b, c}
             /\ a.do \in Before(b.do) \cap Before(c.do) /\ b.do \in Before(c.do)
                  => Ordered(<<a, b, c>>)
  BY DEF Elems, Ordered
<1> QED
  BY <1>1, <1>2, <1>3, <1>4

\* One list after another.
LEMMA Joined ==
  ASSUME NEW S, NEW s \in Seq(S), NEW t \in Seq(S)
  PROVE  /\ s \o t \in Seq(S) /\ Elems(s \o t) = Elems(s) \cup Elems(t)
         /\ Ordered(s) /\ Ordered(t) /\ (\A a \in Elems(s), b \in Elems(t) : a.do \in Before(b.do))
              => Ordered(s \o t)
<1> DEFINE l == s \o t
<1>1. /\ l \in Seq(S) /\ Len(l) = Len(s) + Len(t) /\ Len(s) \in Nat /\ Len(t) \in Nat
      /\ DOMAIN s = 1 .. Len(s) /\ DOMAIN t = 1 .. Len(t) /\ DOMAIN l = 1 .. Len(l)
      /\ \A i \in DOMAIN s : l[i] = s[i]
      /\ \A i \in DOMAIN t : l[i + Len(s)] = t[i]
  OBVIOUS
<1> HIDE DEF l
<1>2. ASSUME NEW i \in DOMAIN l
      PROVE  \/ i \in DOMAIN s /\ l[i] = s[i]
             \/ \E j \in DOMAIN t : i = j + Len(s) /\ l[i] = t[j]
  <2>1. CASE i <= Len(s)
    BY <1>1, <2>1
  <2>2. CASE i > Len(s)
    <3>1. i - Len(s) \in DOMAIN t /\ i = (i - Len(s)) + Len(s)
      BY <1>1, <2>2
    <3> QED
      BY <1>1, <3>1
  <2> QED
    BY <1>1, <2>1, <2>2
<1>3. Elems(l) = Elems(s) \cup Elems(t)
  <2>1. \A i \in DOMAIN s : i \in DOMAIN l
    BY <1>1
  <2>2. \A i \in DOMAIN t : i + Len(s) \in DOMAIN l
    BY <1>1
  <2>3. Elems(l) \subseteq Elems(s) \cup Elems(t)
    BY <1>2 DEF Elems
  <2>4. Elems(s) \subseteq Elems(l)
    BY <1>1, <2>1 DEF Elems
  <2>5. Elems(t) \subseteq Elems(l)
    BY <1>1, <2>2 DEF Elems
  <2> QED
    BY <2>3, <2>4, <2>5
<1>4. ASSUME Ordered(s), Ordered(t), \A a \in Elems(s), b \in Elems(t) : a.do \in Before(b.do),
             NEW i \in DOMAIN l, NEW j \in DOMAIN l, i < j
      PROVE  l[i].do \in Before(l[j].do)
  <2>1. CASE i \in DOMAIN s /\ l[i] = s[i] /\ j \in DOMAIN s /\ l[j] = s[j]
    BY <1>4, <2>1 DEF Ordered
  <2>2. ASSUME i \in DOMAIN s, l[i] = s[i], NEW b \in DOMAIN t, l[j] = t[b]
        PROVE  l[i].do \in Before(l[j].do)
    <3>1. s[i] \in Elems(s) /\ t[b] \in Elems(t)
      BY <2>2 DEF Elems
    <3> QED
      BY <1>4, <2>2, <3>1
  <2>3. ASSUME NEW a \in DOMAIN t, i = a + Len(s), l[i] = t[a],
               NEW b \in DOMAIN t, j = b + Len(s), l[j] = t[b]
        PROVE  l[i].do \in Before(l[j].do)
    <3>1. a < b
      BY <1>1, <1>4, <2>3
    <3> QED
      BY <1>4, <2>3, <3>1 DEF Ordered
  <2>4. ~ (j \in DOMAIN s /\ \E a \in DOMAIN t : i = a + Len(s))
    BY <1>1, <1>4
  <2>5. /\ \/ i \in DOMAIN s /\ l[i] = s[i]
           \/ \E a \in DOMAIN t : i = a + Len(s) /\ l[i] = t[a]
        /\ \/ j \in DOMAIN s /\ l[j] = s[j]
           \/ \E b \in DOMAIN t : j = b + Len(s) /\ l[j] = t[b]
    BY <1>2
  <2> QED
    BY <2>1, <2>2, <2>3, <2>4, <2>5
<1> QED
  BY <1>1, <1>3, <1>4 DEF l, Ordered

\* A step that puts a list in the place of its first statement.
LEMMA ShapeOf ==
  ASSUME NEW q \in Requests, work[q] # <<>>, NEW ts \in Seq(Tasks(Len(trips'))), Then(q, ts),
         Ordered(ts),
         \A k \in Elems(ts) : k.do \in Follow(Head(work[q]).do) /\ (k.do = "assign" => k.trip # 0)
  PROVE  Shape(q)
<1>1. \A i \in 1 .. Len(ts) : ts[i] \in Elems(ts)
  BY DEF Elems
<1> QED
  BY <1>1 DEF Shape

----------------------------------------------------------------------------
(* Types.                                                                  *)

\* A step of q on its list that leaves the database well formed.
Sound(q) == Shape(q) /\ DbType' /\ Len(trips) <= Len(trips') /\ past' = past

\* The statement at hand.
LEMMA AtHand ==
  ASSUME TypeInv, NEW q \in Requests, work[q] # <<>>
  PROVE  Head(work[q]) \in Tasks(Len(trips)) /\ Len(trips) \in Nat
BY DEF TypeInv, DbType

\* A step that puts one statement, or none, in the place of its first.
LEMMA ShapeOfOne ==
  ASSUME NEW n \in Nat, n = Len(trips'), NEW q \in Requests, work[q] # <<>>,
         \/ Then(q, <<>>)
         \/ \E k \in Tasks(n) : /\ Then(q, <<k>>) /\ k.do \in Follow(Head(work[q]).do)
                                /\ k.do # "assign"
  PROVE  Shape(q)
<1>1. CASE Then(q, <<>>)
  BY <1>1, ShortLists, ShapeOf
<1>2. ASSUME NEW k \in Tasks(n), Then(q, <<k>>), k.do \in Follow(Head(work[q]).do), k.do # "assign"
      PROVE  Shape(q)
  BY <1>2, ShortLists, ShapeOf
<1> QED
  BY <1>1, <1>2

\* Steps on the list alone.
LEMMA DbKept ==
  ASSUME TypeInv, UNCHANGED db
  PROVE  DbType' /\ Len(trips) <= Len(trips') /\ Len(trips') = Len(trips)
BY DEF TypeInv, DbType, db, TripType, RowType, Carriers, NoStop

\* The status of one trip changes.
LEMMA TripChanges ==
  ASSUME TypeInv, NEW t \in 1 .. Len(trips), NEW s \in Active \cup {"done", "cancelled"},
         trips' = trips \/ trips' = [trips EXCEPT ![t].status = s],
         UNCHANGED <<rows, stops, free, bonus>>
  PROVE  /\ DbType' /\ Len(trips') = Len(trips) /\ DOMAIN trips' = DOMAIN trips
         /\ \A u \in DOMAIN trips : trips'[u].rider = trips[u].rider
         /\ \A u \in DOMAIN trips \ {t} : trips'[u] = trips[u]
         /\ trips' # trips => trips'[t].status = s
<1>1. /\ Len(trips') = Len(trips) /\ DOMAIN trips' = DOMAIN trips /\ trips' \in Seq(TripType)
      /\ \A u \in DOMAIN trips : trips'[u].rider = trips[u].rider
      /\ \A u \in DOMAIN trips \ {t} : trips'[u] = trips[u]
      /\ trips' # trips => trips'[t].status = s
  <2>1. trips \in Seq(TripType) /\ t \in DOMAIN trips /\ trips[t] \in TripType
    BY DEF TypeInv, DbType
  <2>2. CASE trips' = trips
    BY <2>1, <2>2
  <2>3. CASE trips' = [trips EXCEPT ![t].status = s]
    <3>1. [trips[t] EXCEPT !.status = s] \in TripType
      BY <2>1 DEF TripType
    <3>2. trips' = [trips EXCEPT ![t] = [trips[t] EXCEPT !.status = s]]
      BY <2>3
    <3>3. trips'[t] = [trips[t] EXCEPT !.status = s] /\ \A u \in DOMAIN trips \ {t} : trips'[u] = trips[u]
      BY <2>1, <3>2
    <3>4. trips'[t].status = s /\ trips'[t].rider = trips[t].rider
      BY <2>1, <3>3 DEF TripType
    <3> QED
      BY <2>1, <3>1, <3>2, <3>3, <3>4
  <2> QED
    BY <2>2, <2>3
<1>2. DbType'
  BY <1>1 DEF TypeInv, DbType, TripType, RowType, Carriers, NoStop
<1> QED
  BY <1>1, <1>2

LEMMA DropShape == ASSUME TypeInv, NEW q \in Requests, Drop(q) PROVE Sound(q)
<1> DEFINE k == Head(work[q])
           o == k.order
           n == Len(trips)
<1>1. work[q] # <<>> /\ k.do = "drop" /\ k \in Tasks(n) /\ n \in Nat
  BY AtHand DEF Drop, Runs
<1>2. o \in Orders
  BY <1>1, TaskFields
<1>3. Len(trips') = n /\ past' = past
  BY DEF Drop
<1>4. DbType'
  <2>1. NoStop \in [trip : 0 .. n, dropped : BOOLEAN]
    BY <1>1 DEF NoStop
  <2> QED
    BY <1>2, <1>3, <2>1 DEF TypeInv, DbType, Drop, TripType, RowType, Carriers, NoStop
<1>5. stops[o] \in [trip : 0 .. n, dropped : BOOLEAN] /\ (stops[o] # NoStop => stops[o].trip \in 1 .. n)
  BY <1>1, <1>2 DEF TypeInv, DbType
<1> DEFINE a == Task("point", o, "nobody", 0)
           b == TripTask("settle", stops[o].trip)
<1>6. a \in Tasks(n) /\ a.do = "point" /\ b.do = "settle"
  BY <1>1, <1>2 DEF Task, TripTask, Tasks, OrderTasks, Carriers
<1>7. stops[o] # NoStop => b \in Tasks(n)
  BY <1>1, <1>5 DEF TripTask, Tasks, TripTasks
<1> DEFINE rest == IF stops[o] = NoStop THEN <<>> ELSE <<b>>
<1>8. Then(q, <<a>> \o rest)
  BY DEF Drop
<1>9. Follow(k.do) = {"point", "settle"}
  BY <1>1 DEF Follow
<1> HIDE DEF a, b
<1>10. <<a>> \in Seq(Tasks(n)) /\ Ordered(<<a>>) /\ Elems(<<a>>) = {a}
  BY <1>1, <1>6, ShortLists
<1>11. rest \in Seq(Tasks(n)) /\ Ordered(rest) /\ Elems(rest) \subseteq {b}
  BY <1>1, <1>7, ShortLists
<1> HIDE DEF rest
<1>12. "point" \in Before("settle")
  BY DEF Before
<1>13. /\ <<a>> \o rest \in Seq(Tasks(n)) /\ Ordered(<<a>> \o rest)
       /\ Elems(<<a>> \o rest) \subseteq {a, b}
  <2> DEFINE first == <<a>>
  <2>1. \A x \in Elems(first), y \in Elems(rest) : x.do \in Before(y.do)
    BY <1>6, <1>10, <1>11, <1>12
  <2>2. first \in Seq(Tasks(n)) /\ Ordered(first) /\ Elems(first) = {a}
    BY <1>10
  <2> HIDE DEF first
  <2>3. /\ first \o rest \in Seq(Tasks(n)) /\ Ordered(first \o rest)
        /\ Elems(first \o rest) = Elems(first) \cup Elems(rest)
    BY <1>11, <2>1, <2>2, Joined
  <2> QED
    BY <1>11, <2>2, <2>3 DEF first
<1>14. Shape(q)
  BY <1>1, <1>3, <1>6, <1>8, <1>9, <1>13, ShapeOf
<1> QED
  BY <1>1, <1>3, <1>4, <1>14 DEF Sound

LEMMA PointShape == ASSUME TypeInv, NEW q \in Requests, Point(q) PROVE Sound(q)
<1> SUFFICES ASSUME NEW k, k = Head(work[q]) PROVE Sound(q)
  OBVIOUS
<1> DEFINE n == Len(trips)
<1>1. work[q] # <<>> /\ k.do = "point" /\ k \in Tasks(n) /\ n \in Nat
  BY AtHand DEF Point, Runs
<1>2. k.order \in Orders /\ k.trip \in 0 .. n
  BY <1>1, TaskFields
<1>3. Len(trips') = n /\ past' = past /\ Then(q, <<>>)
  BY DEF Point
<1>4. rows' = [rows EXCEPT ![k.order] = [rows[k.order] EXCEPT !.trip = k.trip]]
  BY DEF Point
<1>5. [rows[k.order] EXCEPT !.trip = k.trip] \in RowType
  <2>1. rows[k.order] \in RowType
    BY <1>2, Zenon DEF TypeInv, DbType
  <2> QED
    BY <1>2, <2>1 DEF RowType
<1>6. DbType'
  BY <1>2, <1>3, <1>4, <1>5 DEF TypeInv, DbType, Point, TripType, RowType, Carriers, NoStop
<1> QED
  BY <1>1, <1>3, <1>6, ShapeOfOne DEF Sound

LEMMA SettleShape == ASSUME TypeInv, NEW q \in Requests, Settle(q) PROVE Sound(q)
<1> DEFINE k == Head(work[q])
           n == Len(trips)
           c == CloseTask(k.trip, Verdict(k.trip))
<1>1. work[q] # <<>> /\ k.do = "settle" /\ k \in Tasks(n) /\ n \in Nat
  BY AtHand DEF Settle, Runs
<1>2. k.trip \in 1 .. n
  BY <1>1, TaskFields
<1>3. past' = past /\ DbType' /\ Len(trips') = n
  BY DbKept DEF Settle
<1>4. Verdict(k.trip) = "open" \/ Verdict(k.trip) \in {"done", "cancelled"}
  BY DEF Verdict
<1>5. Verdict(k.trip) # "open" => c \in Tasks(n) /\ c.do = "close"
  BY <1>1, <1>2, <1>4 DEF CloseTask, Tasks, TripTasks
<1>6. IF Verdict(k.trip) = "open" THEN Then(q, <<>>) ELSE Then(q, <<c>>)
  BY DEF Settle, Closing
<1>7. "close" \in Follow(k.do)
  BY <1>1 DEF Follow
<1> HIDE DEF c
<1>8. Shape(q)
  BY <1>1, <1>3, <1>5, <1>6, <1>7, ShapeOfOne
<1> QED
  BY <1>1, <1>3, <1>8 DEF Sound

LEMMA CloseShape == ASSUME TypeInv, NEW q \in Requests, CloseTrip(q) PROVE Sound(q)
<1> SUFFICES ASSUME NEW k, k = Head(work[q]) PROVE Sound(q)
  OBVIOUS
<1> DEFINE n == Len(trips)
<1>1. work[q] # <<>> /\ k.do = "close" /\ k \in Tasks(n) /\ n \in Nat
  BY AtHand DEF CloseTrip, Runs
<1>2. k.trip \in 1 .. n /\ k.to \in {"done", "cancelled"}
  BY <1>1, TaskFields
<1>3. past' = past /\ Then(q, <<>>) /\ UNCHANGED <<rows, stops, free, bonus>>
  BY DEF CloseTrip
<1>4. trips' = trips \/ trips' = [trips EXCEPT ![k.trip].status = k.to]
  BY Zenon DEF CloseTrip
<1>5. DbType' /\ Len(trips') = n
  BY <1>2, <1>3, <1>4, TripChanges, Zenon
<1> QED
  BY <1>1, <1>3, <1>5, ShapeOfOne DEF Sound

LEMMA RoomHas ==
  ASSUME TypeInv, NEW r \in Riders, Room(r) # {}
  PROVE  (CHOOSE t \in Room(r) : \A u \in Room(r) : t <= u) \in Room(r)
<1>1. Room(r) \in SUBSET Nat
  BY DEF Room, TypeInv, DbType
<1>2. \E t \in Room(r) : \A u \in Room(r) : t <= u
  BY <1>1, Least
<1> QED
  BY <1>2

LEMMA PickShape == ASSUME TypeInv, NEW q \in Requests, Pick(q) PROVE Sound(q)
<1> DEFINE k == Head(work[q])
           n == Len(trips)
<1>1. work[q] # <<>> /\ k.do = "pick" /\ k \in Tasks(n) /\ n \in Nat
  BY AtHand DEF Pick, Runs
<1>2. k.order \in Orders /\ k.rider \in Riders /\ k.trip \in 0 .. n
  BY <1>1, TaskFields
<1>3. past' = past /\ DbType' /\ Len(trips') = n
  BY DbKept DEF Pick
<1>4. {"place", "open"} = Follow(k.do)
  BY <1>1 DEF Follow
<1>5. ASSUME NEW t \in 1 .. n PROVE Task("place", k.order, k.rider, t) \in Tasks(n)
  BY <1>1, <1>2, <1>5 DEF Task, Tasks, OrderTasks
<1>6. Task("open", k.order, k.rider, 0) \in Tasks(n)
  BY <1>1, <1>2 DEF Task, Tasks, OrderTasks
<1>7. Room(k.rider) \subseteq 1 .. n
  BY DEF Room, TypeInv, DbType
<1>8. \/ Throw(q)
      \/ \E t \in 1 .. n : Then(q, <<Task("place", k.order, k.rider, t)>>)
      \/ Then(q, <<Task("open", k.order, k.rider, 0)>>)
  <2>1. CASE k.trip # 0
    BY <1>2, <2>1 DEF Pick
  <2>2. CASE k.trip = 0 /\ Room(k.rider) # {}
    <3>1. (CHOOSE t \in Room(k.rider) : \A u \in Room(k.rider) : t <= u) \in 1 .. n
      BY <1>2, <1>7, <2>2, RoomHas
    <3> QED
      BY <2>2, <3>1 DEF Pick
  <2>3. CASE k.trip = 0 /\ Room(k.rider) = {}
    BY <2>3 DEF Pick
  <2> QED
    BY <2>1, <2>2, <2>3
<1>9. \A t : Task("place", k.order, k.rider, t).do = "place" /\ Task("open", k.order, k.rider, t).do = "open"
  BY DEF Task
<1>10. CASE Throw(q)
  BY <1>1, <1>3, <1>10 DEF Sound, Shape
<1>11. ASSUME NEW t \in 1 .. n, Then(q, <<Task("place", k.order, k.rider, t)>>) PROVE Shape(q)
  BY <1>1, <1>3, <1>4, <1>5, <1>9, <1>11, ShapeOfOne
<1>12. CASE Then(q, <<Task("open", k.order, k.rider, 0)>>)
  BY <1>1, <1>3, <1>4, <1>6, <1>9, <1>12, ShapeOfOne DEF Sound
<1> QED
  <2>1. Shape(q)
    BY <1>8, <1>10, <1>11, <1>12 DEF Sound
  <2> QED
    BY <1>3, <2>1 DEF Sound

\* A new trip.
LEMMA TripAdded ==
  ASSUME TypeInv, NEW r \in Riders, NewTrip(r), Len(trips) < MaxTrips,
         UNCHANGED <<rows, stops, free, bonus>>
  PROVE  /\ DbType' /\ Len(trips') = Len(trips) + 1
         /\ trips'[Len(trips) + 1] = [rider |-> r, status |-> "planned"]
         /\ \A t \in DOMAIN trips : t \in DOMAIN trips' /\ trips'[t] = trips[t]
<1> DEFINE n == Len(trips)
           new == [rider |-> r, status |-> "planned"]
<1>1. trips \in Seq(TripType) /\ new \in TripType /\ n \in Nat /\ trips' = Append(trips, new)
  BY DEF TypeInv, DbType, TripType, Active, NewTrip
<1> HIDE DEF new
<1>2. /\ trips' \in Seq(TripType) /\ Len(trips') = n + 1 /\ trips'[n + 1] = new
      /\ \A t \in DOMAIN trips : t \in DOMAIN trips' /\ trips'[t] = trips[t]
  BY <1>1
<1>3. Len(trips') <= MaxTrips
  BY <1>1, <1>2, TripsAssumption
<1>4. 0 .. n \subseteq 0 .. n + 1 /\ 1 .. n \subseteq 1 .. n + 1
  BY <1>1
<1>5. rows' \in [Orders -> RowType']
  <2>1. RowType \subseteq RowType'
    BY <1>2, <1>4 DEF RowType, Carriers
  <2>2. \A o \in Orders : rows[o] \in RowType'
    BY <2>1 DEF TypeInv, DbType
  <2> QED
    BY <2>2 DEF TypeInv, DbType
<1>6. /\ stops' \in [Orders -> [trip : 0 .. Len(trips'), dropped : BOOLEAN]]
      /\ \A o \in Orders : stops'[o].trip = 0 => stops'[o] = NoStop
  <2>1. [trip : 0 .. n, dropped : BOOLEAN] \subseteq [trip : 0 .. n + 1, dropped : BOOLEAN]
    BY <1>4
  <2> QED
    BY <1>2, <2>1 DEF TypeInv, DbType
<1>7. bonus' \subseteq Orders \X (1 .. Len(trips'))
  BY <1>2, <1>4 DEF TypeInv, DbType
<1> QED
  BY <1>2, <1>3, <1>5, <1>6, <1>7 DEF TypeInv, DbType, new, NoStop, TripType, Active

LEMMA OpenShape == ASSUME TypeInv, NEW q \in Requests, OpenTrip(q) PROVE Sound(q)
<1> DEFINE k == Head(work[q])
           n == Len(trips)
           x == [k EXCEPT !.do = "place", !.trip = n + 1]
<1>1. work[q] # <<>> /\ k.do = "open" /\ k \in Tasks(n) /\ n \in Nat
  BY AtHand DEF OpenTrip, Runs
<1>2. k \in [do : {k.do}, order : Orders, rider : Riders, trip : 0 .. n]
  BY <1>1, TaskFields
<1>3. past' = past /\ Then(q, <<x>>) /\ DbType' /\ Len(trips') = n + 1
  BY <1>2, TripAdded DEF OpenTrip
<1>4. x \in Tasks(n + 1) /\ x.do = "place"
  <2>1. k.order \in Orders /\ k.rider \in Riders /\ n + 1 \in 1 .. n + 1
    BY <1>1, <1>2
  <2>2. x = [do |-> "place", order |-> k.order, rider |-> k.rider, trip |-> n + 1]
    <3>1. k = [do |-> k.do, order |-> k.order, rider |-> k.rider, trip |-> k.trip]
      BY <1>2
    <3>2. [k EXCEPT !.do = "place"]
            = [do |-> "place", order |-> k.order, rider |-> k.rider, trip |-> k.trip]
      BY <3>1
    <3>3. [[do |-> "place", order |-> k.order, rider |-> k.rider, trip |-> k.trip]
             EXCEPT !.trip = n + 1]
            = [do |-> "place", order |-> k.order, rider |-> k.rider, trip |-> n + 1]
      OBVIOUS
    <3> QED
      BY <3>2, <3>3, Zenon
  <2>3. x \in [do : {"add", "place"}, order : Orders, rider : Riders, trip : 1 .. n + 1] /\ x.do = "place"
    BY <2>1, <2>2
  <2> QED
    BY <2>3 DEF Tasks, OrderTasks
<1>5. "place" \in Follow(k.do)
  BY <1>1 DEF Follow
<1> HIDE DEF x
<1>6. Shape(q)
  BY <1>1, <1>3, <1>4, <1>5, ShapeOfOne
<1> QED
  BY <1>1, <1>3, <1>6 DEF Sound

LEMMA PlaceShape == ASSUME TypeInv, NEW q \in Requests, Place(q) PROVE Sound(q)
<1> DEFINE k == Head(work[q])
           n == Len(trips)
           x == [k EXCEPT !.do = "point"]
<1>1. work[q] # <<>> /\ k.do = "place" /\ k \in Tasks(n) /\ n \in Nat
  BY AtHand DEF Place, Runs
<1>2. k \in [do : {k.do}, order : Orders, rider : Riders, trip : 1 .. n]
  BY <1>1, TaskFields
<1>3. past' = past /\ trips' = trips
  BY DEF Place
<1>4. CASE stops[k.order] # NoStop
  <2>1. Throw(q) /\ UNCHANGED db
    BY <1>4 DEF Place, db
  <2> QED
    BY <1>1, <1>3, <2>1, DbKept DEF Sound, Shape
<1>5. CASE stops[k.order] = NoStop
  <2>1. Then(q, <<x>>) /\ stops' = [stops EXCEPT ![k.order] = [stops[k.order] EXCEPT !.trip = k.trip]]
    BY <1>5 DEF Place
  <2>2. /\ [stops[k.order] EXCEPT !.trip = k.trip] \in [trip : 0 .. n, dropped : BOOLEAN]
        /\ [stops[k.order] EXCEPT !.trip = k.trip].trip # 0
    <3>1. /\ stops[k.order] \in [trip : {0}, dropped : {FALSE}] /\ k.trip \in 0 .. n /\ k.trip # 0
          /\ stops[k.order].dropped = FALSE
      BY <1>1, <1>2, <1>5 DEF NoStop
    <3>2. stops[k.order] = [trip |-> stops[k.order].trip, dropped |-> stops[k.order].dropped]
      BY <3>1
    <3>3. [stops[k.order] EXCEPT !.trip = k.trip] = [trip |-> k.trip, dropped |-> stops[k.order].dropped]
      BY <3>2
    <3> QED
      BY <3>1, <3>3
  <2>3. DbType'
    <3> HIDE DEF k
    <3>1. k.order \in Orders
      BY <1>2
    <3> QED
      BY <1>3, <2>1, <2>2, <3>1 DEF Place, TypeInv, DbType, TripType, RowType, Carriers, NoStop
  <2>4. x \in Tasks(n) /\ x.do = "point"
    <3>0. k = [do |-> k.do, order |-> k.order, rider |-> k.rider, trip |-> k.trip]
      BY <1>2
    <3>1. x = [do |-> "point", order |-> k.order, rider |-> k.rider, trip |-> k.trip]
      BY <3>0
    <3>2. x \in [do : {"point"}, order : Orders, rider : Carriers, trip : 0 .. n] /\ x.do = "point"
      BY <1>1, <1>2, <3>1 DEF Carriers
    <3> QED
      BY <3>2 DEF Tasks, OrderTasks
  <2>5. "point" \in Follow(k.do)
    BY <1>1 DEF Follow
  <2> HIDE DEF x
  <2>6. Shape(q)
    BY <1>1, <1>3, <2>1, <2>4, <2>5, ShapeOfOne
  <2> QED
    BY <1>1, <1>3, <2>3, <2>6 DEF Sound
<1> QED
  BY <1>4, <1>5

\* The rider sets out: the order's trip, when it was planned, is under way.
LEMMA Leaves ==
  ASSUME TypeInv, NEW q \in Requests, PickedUp(q)
  PROVE  /\ past' = past /\ Then(q, <<>>) /\ UNCHANGED <<rows, stops, free, bonus>>
         /\ DbType' /\ Len(trips') = Len(trips) /\ DOMAIN trips' = DOMAIN trips
         /\ \A t \in DOMAIN trips : trips[t].status \notin Active => trips'[t] = trips[t]
         /\ \A t \in DOMAIN trips : trips'[t].status \in Active => trips[t].status \in Active
<1> DEFINE u == rows[Head(work[q]).order].trip
<1>1. past' = past /\ Then(q, <<>>) /\ UNCHANGED <<rows, stops, free, bonus>>
  BY Zenon DEF PickedUp
<1>2. \/ trips' = trips
      \/ /\ u # 0 /\ trips[u].status = "planned"
         /\ trips' = [trips EXCEPT ![u].status = "picked_up"]
  BY Zenon DEF PickedUp
<1>3. u \in 0 .. Len(trips)
  <2>1. Head(work[q]).order \in Orders
    BY AtHand, TaskFields, Zenon DEF PickedUp, Runs
  <2>2. rows[Head(work[q]).order] \in RowType
    BY <2>1, Zenon DEF TypeInv, DbType
  <2> QED
    BY <2>2 DEF RowType
<1> HIDE DEF u
<1>4. CASE trips' = trips
  BY <1>1, <1>4, DbKept DEF db
<1>5. CASE u # 0 /\ trips[u].status = "planned" /\ trips' = [trips EXCEPT ![u].status = "picked_up"]
  <2>1. Len(trips) \in Nat
    BY DEF TypeInv, DbType
  <2>2. u \in 1 .. Len(trips) /\ "picked_up" \in Active
    BY <1>3, <1>5, <2>1 DEF Active
  <2>3. /\ DbType' /\ Len(trips') = Len(trips) /\ DOMAIN trips' = DOMAIN trips
        /\ \A t \in DOMAIN trips \ {u} : trips'[t] = trips[t]
    BY <1>1, <1>5, <2>2, TripChanges, Zenon
  <2>4. trips[u].status \in Active
    BY <1>5 DEF Active
  <2> QED
    BY <1>1, <2>3, <2>4
<1> QED
  BY <1>2, <1>4, <1>5

LEMMA PickedUpShape == ASSUME TypeInv, NEW q \in Requests, PickedUp(q) PROVE Sound(q)
<1>1. work[q] # <<>> /\ Head(work[q]) \in Tasks(Len(trips)) /\ Len(trips) \in Nat
  BY AtHand DEF PickedUp, Runs
<1>2. past' = past /\ Then(q, <<>>) /\ DbType' /\ Len(trips') = Len(trips)
  BY Leaves
<1> QED
  BY <1>1, <1>2, ShapeOfOne DEF Sound

LEMMA DeliverShape == ASSUME TypeInv, NEW q \in Requests, Deliver(q) PROVE Sound(q)
<1> DEFINE k == Head(work[q])
           n == Len(trips)
           s == stops[k.order]
           x == Task("last", k.order, k.rider, s.trip)
           y == RefreshTask(k.rider)
<1>1. work[q] # <<>> /\ k.do = "deliver" /\ k \in Tasks(n) /\ n \in Nat
  BY AtHand DEF Deliver, Runs
<1>2. k.order \in Orders /\ k.rider \in Carriers
  BY <1>1, TaskFields
<1>3. past' = past /\ trips' = trips
  BY DEF Deliver
<1>4. Follow(k.do) = {"last", "refresh"}
  BY <1>1 DEF Follow
<1>5. CASE ~ (s # NoStop /\ ~ s.dropped)
  <2>1. Then(q, <<y>>) /\ UNCHANGED db
    BY <1>5 DEF Deliver, db
  <2>2. y \in Tasks(n) /\ y.do = "refresh"
    BY <1>2 DEF RefreshTask, Tasks, OtherTasks
  <2> HIDE DEF y
  <2>3. Shape(q)
    BY <1>1, <1>3, <1>4, <2>1, <2>2, ShapeOfOne
  <2> QED
    BY <1>3, <2>1, <2>3, DbKept DEF Sound
<1>6. CASE s # NoStop /\ ~ s.dropped
  <2>1. /\ Then(q, <<x>>) /\ stops' = [stops EXCEPT ![k.order] = [s EXCEPT !.dropped = TRUE]]
        /\ UNCHANGED <<rows, trips, free, bonus>>
    BY <1>6 DEF Deliver
  <2>2. s \in [trip : 0 .. n, dropped : BOOLEAN] /\ s.trip \in 1 .. n
    BY <1>1, <1>2, <1>6 DEF TypeInv, DbType
  <2>3. /\ [s EXCEPT !.dropped = TRUE] \in [trip : 0 .. n, dropped : BOOLEAN]
        /\ [s EXCEPT !.dropped = TRUE].trip # 0
    <3> HIDE DEF s
    <3>1. [s EXCEPT !.dropped = TRUE] \in [trip : 0 .. n, dropped : BOOLEAN]
      BY <2>2
    <3>2. [s EXCEPT !.dropped = TRUE].trip = s.trip
      BY <2>2
    <3>3. s.trip # 0
      BY <1>1, <2>2
    <3> QED
      BY <3>1, <3>2, <3>3
  <2>4. x \in Tasks(n) /\ x.do = "last"
    BY <1>1, <1>2, <2>2 DEF Task, Tasks, OrderTasks
  <2>5. DbType'
    <3> DEFINE new == [s EXCEPT !.dropped = TRUE]
    <3>1. /\ new \in [trip : 0 .. n, dropped : BOOLEAN] /\ new.trip # 0
          /\ stops' = [stops EXCEPT ![k.order] = new]
      BY <2>1, <2>3
    <3>2. UNCHANGED <<rows, trips, free, bonus>>
      BY <2>1
    <3> HIDE DEF new, k
    <3> QED
      BY <1>2, <3>1, <3>2 DEF TypeInv, DbType, TripType, RowType, Carriers, NoStop
  <2> HIDE DEF x
  <2>6. Shape(q)
    BY <1>1, <1>3, <1>4, <2>1, <2>4, ShapeOfOne
  <2> QED
    BY <1>1, <1>3, <2>5, <2>6 DEF Sound
<1> QED
  BY <1>5, <1>6

LEMMA ClosingList ==
  ASSUME NEW n \in Nat, NEW t \in 1 .. n
  PROVE  /\ Closing(t) \in Seq(Tasks(n)) /\ Ordered(Closing(t))
         /\ \A x \in Elems(Closing(t)) : /\ x = CloseTask(t, Verdict(t)) /\ x.do = "close" /\ x.trip = t
                                         /\ x.to = Verdict(t) /\ Verdict(t) # "open"
<1> DEFINE c == CloseTask(t, Verdict(t))
<1>1. Verdict(t) = "open" \/ Verdict(t) \in {"done", "cancelled"}
  BY DEF Verdict
<1>2. Verdict(t) # "open" => c \in Tasks(n)
  BY <1>1 DEF CloseTask, Tasks, TripTasks
<1>3. c.do = "close" /\ c.trip = t /\ c.to = Verdict(t)
  BY DEF CloseTask
<1>4. CASE Verdict(t) = "open"
  BY <1>4, ShortLists DEF Closing
<1>5. CASE Verdict(t) # "open"
  <2>1. Closing(t) = <<c>>
    BY <1>5 DEF Closing
  <2> HIDE DEF c
  <2>2. Closing(t) \in Seq(Tasks(n)) /\ Ordered(Closing(t)) /\ Elems(Closing(t)) = {c}
    BY <1>2, <1>5, <2>1, ShortLists
  <2> QED
    BY <1>3, <1>5, <2>2 DEF c
<1> QED
  BY <1>4, <1>5

\* The list that a delivery ends with.
LEMMA LastList ==
  ASSUME TypeInv, NEW q \in Requests, SettleDelivered(q)
  PROVE  LET k == Head(work[q]) IN
           /\ k \in Tasks(Len(trips)) /\ k.do = "last" /\ k.trip \in 1 .. Len(trips) /\ k.order \in Orders
           /\ \E ts \in Seq(Tasks(Len(trips))) :
                /\ Then(q, ts) /\ Ordered(ts)
                /\ \A x \in Elems(ts) :
                     \/ x = CloseTask(k.trip, Verdict(k.trip)) /\ Verdict(k.trip) # "open"
                     \/ x = RefreshTask(k.rider)
                     \/ x = [k EXCEPT !.do = "bonus"] /\ EarnsBonus(k.trip) /\ k.rider \in Riders
                /\ Verdict(k.trip) # "open" => CloseTask(k.trip, Verdict(k.trip)) \in Elems(ts)
                /\ RefreshTask(k.rider) \in Elems(ts)
<1> DEFINE k == Head(work[q])
           n == Len(trips)
           c == Closing(k.trip)
           y == RefreshTask(k.rider)
           z == [k EXCEPT !.do = "bonus"]
           b == IF EarnsBonus(k.trip) /\ k.rider \in Riders THEN <<z>> ELSE <<>>
<1>1. work[q] # <<>> /\ k.do = "last" /\ k \in Tasks(n) /\ n \in Nat
  BY AtHand DEF SettleDelivered, Runs
<1>2. k \in [do : {k.do}, order : Orders, rider : Carriers, trip : 1 .. n]
  BY <1>1, TaskFields
<1>3. Then(q, c \o <<y>> \o b)
  BY DEF SettleDelivered
<1>4. y \in Tasks(n) /\ y.do = "refresh"
  BY <1>2 DEF RefreshTask, Tasks, OtherTasks
<1>5. z \in Tasks(n) /\ z.do = "bonus"
  <2>1. k = [do |-> k.do, order |-> k.order, rider |-> k.rider, trip |-> k.trip]
    BY <1>2
  <2>2. z = [do |-> "bonus", order |-> k.order, rider |-> k.rider, trip |-> k.trip]
    BY <2>1
  <2>3. z \in [do : {"last", "bonus"}, order : Orders, rider : Carriers, trip : 1 .. n] /\ z.do = "bonus"
    BY <1>2, <2>2
  <2> QED
    BY <2>3 DEF Tasks, OrderTasks
<1>6. /\ c \in Seq(Tasks(n)) /\ Ordered(c)
      /\ \A x \in Elems(c) : /\ x = CloseTask(k.trip, Verdict(k.trip)) /\ x.do = "close"
                             /\ Verdict(k.trip) # "open"
  BY <1>1, <1>2, ClosingList
<1>7. Verdict(k.trip) # "open" => CloseTask(k.trip, Verdict(k.trip)) \in Elems(c)
  BY DEF Closing, Elems
<1> DEFINE r == <<y>>
<1>8. r \in Seq(Tasks(n)) /\ Ordered(r) /\ Elems(r) = {y}
  <2> HIDE DEF y
  <2> QED
    BY <1>1, <1>4, ShortLists
<1>9. b \in Seq(Tasks(n)) /\ Ordered(b)
      /\ \A x \in Elems(b) : x = z /\ EarnsBonus(k.trip) /\ k.rider \in Riders
  <2> HIDE DEF z
  <2>1. CASE EarnsBonus(k.trip) /\ k.rider \in Riders
    BY <1>1, <1>5, <2>1, ShortLists
  <2>2. CASE ~ (EarnsBonus(k.trip) /\ k.rider \in Riders)
    BY <1>1, <2>2, ShortLists
  <2> QED
    BY <2>1, <2>2
<1> HIDE DEF c, r, y, z, b, k
<1>10. /\ "close" \in Before("refresh") /\ "close" \in Before("bonus") /\ "refresh" \in Before("bonus")
  BY DEF Before, Dos, Planning, Moving, Shared
<1>11. c \o r \in Seq(Tasks(n)) /\ Ordered(c \o r) /\ Elems(c \o r) = Elems(c) \cup {y}
  <2>1. \A x \in Elems(c), w \in Elems(r) : x.do \in Before(w.do)
    BY <1>4, <1>6, <1>8, <1>10
  <2> QED
    BY <1>6, <1>8, <2>1, Joined
<1>12. /\ (c \o r) \o b \in Seq(Tasks(n)) /\ Ordered((c \o r) \o b)
       /\ Elems((c \o r) \o b) = Elems(c) \cup {y} \cup Elems(b)
  <2> DEFINE l == c \o r
  <2>1. \A x \in Elems(l), w \in Elems(b) : x.do \in Before(w.do)
    BY <1>4, <1>5, <1>6, <1>9, <1>10, <1>11
  <2>2. l \in Seq(Tasks(n)) /\ Ordered(l) /\ Elems(l) = Elems(c) \cup {y}
    BY <1>11
  <2> HIDE DEF l
  <2>3. l \o b \in Seq(Tasks(n)) /\ Ordered(l \o b) /\ Elems(l \o b) = Elems(l) \cup Elems(b)
    BY <1>9, <2>1, <2>2, Joined
  <2> QED
    BY <2>2, <2>3 DEF l
<1>13. Then(q, (c \o r) \o b)
  BY <1>3 DEF r
<1> DEFINE ts == (c \o r) \o b
<1> HIDE DEF ts
<1>14. ts \in Seq(Tasks(n)) /\ Ordered(ts) /\ Then(q, ts) /\ Elems(ts) = Elems(c) \cup {y} \cup Elems(b)
  BY <1>12, <1>13 DEF ts
<1>15. \A x \in Elems(ts) :
         \/ x = CloseTask(k.trip, Verdict(k.trip)) /\ Verdict(k.trip) # "open"
         \/ x = RefreshTask(k.rider)
         \/ x = [k EXCEPT !.do = "bonus"] /\ EarnsBonus(k.trip) /\ k.rider \in Riders
  <2> TAKE x \in Elems(ts)
  <2>1. CASE x \in Elems(c)
    BY <1>6, <2>1
  <2>2. CASE x = y
    BY <2>2 DEF y
  <2>3. CASE x \in Elems(b)
    BY <1>9, <2>3, Zenon DEF z
  <2> QED
    BY <1>14, <2>1, <2>2, <2>3
<1>16. RefreshTask(k.rider) \in Elems(ts)
  BY <1>14 DEF y
<1> QED
  BY <1>1, <1>2, <1>7, <1>14, <1>15, <1>16, Zenon DEF k

LEMMA SettleDeliveredShape == ASSUME TypeInv, NEW q \in Requests, SettleDelivered(q) PROVE Sound(q)
<1> DEFINE k == Head(work[q])
           n == Len(trips)
           z == [k EXCEPT !.do = "bonus"]
<1>1. work[q] # <<>> /\ k.do = "last" /\ k \in Tasks(n) /\ n \in Nat
  BY AtHand DEF SettleDelivered, Runs
<1>2. k \in [do : {k.do}, order : Orders, rider : Carriers, trip : 1 .. n]
  BY <1>1, TaskFields
<1>3. past' = past /\ trips' = trips /\ DbType'
  BY DbKept DEF SettleDelivered, db
<1>4. z.do = "bonus"
  BY <1>2
<1>5. PICK ts \in Seq(Tasks(n)) :
        /\ Then(q, ts) /\ Ordered(ts)
        /\ \A x \in Elems(ts) : \/ x = CloseTask(k.trip, Verdict(k.trip))
                                \/ x = RefreshTask(k.rider)
                                \/ x = z
  BY LastList, Zenon
<1> HIDE DEF z
<1>6. \A x \in Elems(ts) : x.do \in {"close", "refresh", "bonus"}
  BY <1>4, <1>5 DEF CloseTask, RefreshTask
<1>7. Follow(k.do) = {"close", "refresh", "bonus"}
  BY <1>1 DEF Follow
<1>8. Shape(q)
  BY <1>1, <1>3, <1>5, <1>6, <1>7, ShapeOf
<1> QED
  BY <1>1, <1>3, <1>8 DEF Sound

LEMMA RefreshShape == ASSUME TypeInv, NEW q \in Requests, Refresh(q) PROVE Sound(q)
<1>1. work[q] # <<>> /\ Len(trips) \in Nat
  BY AtHand DEF Refresh, Runs
<1>2. past' = past /\ Then(q, <<>>) /\ UNCHANGED <<rows, stops, trips, bonus>>
  BY DEF Refresh
<1>3. free' \in [Riders -> BOOLEAN]
  BY DEF Refresh, TypeInv, DbType
<1>4. DbType'
  BY <1>2, <1>3 DEF TypeInv, DbType, TripType, RowType, Carriers, NoStop
<1>5. Shape(q)
  BY <1>1, <1>2, ShapeOfOne
<1> QED
  BY <1>1, <1>2, <1>4, <1>5 DEF Sound

LEMMA PayBonusShape == ASSUME TypeInv, NEW q \in Requests, PayBonus(q) PROVE Sound(q)
<1> DEFINE k == Head(work[q])
           n == Len(trips)
<1>1. work[q] # <<>> /\ k.do = "bonus" /\ k \in Tasks(n) /\ n \in Nat
  BY AtHand DEF PayBonus, Runs
<1>2. k.order \in Orders /\ k.trip \in 1 .. n
  BY <1>1, TaskFields
<1>3. past' = past /\ Then(q, <<>>) /\ UNCHANGED <<rows, stops, trips, free>>
  BY DEF PayBonus
<1>4. bonus' \subseteq Orders \X (1 .. n)
  BY <1>2 DEF PayBonus, TypeInv, DbType
<1>5. DbType'
  BY <1>3, <1>4 DEF TypeInv, DbType, TripType, RowType, Carriers, NoStop
<1>6. Shape(q)
  BY <1>1, <1>3, ShapeOfOne
<1> QED
  BY <1>1, <1>3, <1>5, <1>6 DEF Sound

LEMMA SaveShape == ASSUME TypeInv, NEW q \in Requests, Save(q) PROVE Sound(q)
<1> DEFINE k == Head(work[q])
           n == Len(trips)
<1>1. work[q] # <<>> /\ k.do = "save" /\ k \in Tasks(n) /\ n \in Nat
  BY AtHand DEF Save, Runs
<1>2. k.order \in Orders /\ k.row \in RowType
  BY <1>1, TaskFields DEF RowType
<1>3. past' = past /\ UNCHANGED <<stops, trips, free, bonus>>
  BY DEF Save
<1>4. \/ Throw(q) /\ rows' = rows
      \/ Then(q, <<>>) /\ rows' = [rows EXCEPT ![k.order] = k.row]
  BY DEF Save
<1>5. Shape(q)
  <2>1. CASE Throw(q)
    BY <1>1, <2>1 DEF Shape
  <2>2. CASE Then(q, <<>>)
    BY <1>1, <1>3, <2>2, ShapeOfOne
  <2> QED
    BY <1>4, <2>1, <2>2
<1>6. rows' \in [Orders -> RowType]
  BY <1>2, <1>4 DEF TypeInv, DbType
<1>7. DbType'
  BY <1>3, <1>6 DEF TypeInv, DbType, TripType, RowType, Carriers, NoStop
<1> QED
  BY <1>1, <1>3, <1>5, <1>7 DEF Sound

LEMMA FourList ==
  ASSUME NEW n \in Nat, NEW a \in Tasks(n), NEW b \in Tasks(n), NEW c \in Tasks(n), NEW d \in Tasks(n),
         a.do \in Before(b.do) \cap Before(c.do) \cap Before(d.do),
         b.do \in Before(c.do) \cap Before(d.do), c.do \in Before(d.do)
  PROVE  /\ <<a, b, c, d>> \in Seq(Tasks(n)) /\ Elems(<<a, b, c, d>>) = {a, b, c, d}
         /\ Ordered(<<a, b, c, d>>)
<1> DEFINE s == <<a, b, c, d>>
<1>1. s \in Seq(Tasks(n)) /\ DOMAIN s = {1, 2, 3, 4} /\ s[1] = a /\ s[2] = b /\ s[3] = c /\ s[4] = d
  OBVIOUS
<1> HIDE DEF s
<1>2. Elems(s) = {a, b, c, d}
  BY <1>1 DEF Elems
<1>3. Ordered(s)
  BY <1>1 DEF Ordered
<1> QED
  BY <1>1, <1>2, <1>3 DEF s

\* The list of an assignment.
LEMMA AssignList ==
  ASSUME TypeInv, NEW q \in Requests, Assign(q)
  PROVE  LET k == Head(work[q]) IN
           /\ k \in Tasks(Len(trips)) /\ k.do = "assign" /\ k.order \in Orders /\ k.rider \in Riders
           /\ \/ Throw(q) /\ rows[k.order].status \in Terminal
              \/ /\ rows[k.order].status \notin Terminal
                 /\ \E ts \in Seq(Tasks(Len(trips))), new \in RowType, p \in Tasks(Len(trips)) :
                      /\ Then(q, ts) /\ Ordered(ts)
                      /\ new.trip = rows[k.order].trip /\ new.carrier = k.rider
                      /\ new.status = IF rows[k.order].status \in Cooking \cup OnTheRoad
                                      THEN rows[k.order].status ELSE "assigned_to_delivery"
                      /\ p.do = "pick" /\ p.order = k.order /\ p.rider = k.rider /\ p.trip = k.trip
                      /\ {SaveTask(k.order, new), DropTask(k.order), p, RefreshTask(k.rider)}
                           \subseteq Elems(ts)
                      /\ Elems(ts) \subseteq {SaveTask(k.order, new), DropTask(k.order), p,
                                              RefreshTask(k.rider), RefreshTask(rows[k.order].carrier)}
                      /\ rows[k.order].carrier \in Riders
                           => RefreshTask(rows[k.order].carrier) \in Elems(ts)
<1> DEFINE k == Head(work[q])
           n == Len(trips)
           old == rows[k.order]
           new == [old EXCEPT !.carrier = k.rider,
                              !.status = IF @ \in Cooking \cup OnTheRoad THEN @
                                         ELSE "assigned_to_delivery"]
           p == [k EXCEPT !.do = "pick"]
           a == SaveTask(k.order, new)
           b == DropTask(k.order)
           d == RefreshTask(k.rider)
           e == RefreshTask(old.carrier)
           more == IF old.carrier \in Riders \ {k.rider} THEN <<e>> ELSE <<>>
           main == <<a, b, p, d>>
<1>1. work[q] # <<>> /\ k.do = "assign" /\ k \in Tasks(n) /\ n \in Nat
  BY AtHand DEF Assign, Runs
<1>2. k \in [do : {k.do}, order : Orders, rider : Riders, trip : 0 .. n]
  BY <1>1, TaskFields
<1>3. k.order \in Orders /\ k.rider \in Riders /\ k.rider \in Carriers
  BY <1>2 DEF Carriers
<1>4. old \in [trip : 0 .. n, status : Stages, carrier : Carriers]
  BY <1>3 DEF TypeInv, DbType, RowType
<1>5. "assigned_to_delivery" \in Stages
  BY DEF Stages
<1>6. /\ new \in [trip : 0 .. n, status : Stages, carrier : Carriers]
      /\ new.trip = old.trip /\ new.carrier = k.rider
      /\ new.status = IF old.status \in Cooking \cup OnTheRoad THEN old.status
                      ELSE "assigned_to_delivery"
  <2> DEFINE r == k.rider
  <2>1. r \in Carriers
    BY <1>3
  <2> HIDE DEF old, r
  <2>2. new = [old EXCEPT !.carrier = r,
                          !.status = IF @ \in Cooking \cup OnTheRoad THEN @
                                     ELSE "assigned_to_delivery"]
    BY DEF r
  <2> DEFINE new2 == [old EXCEPT !.carrier = r,
                          !.status = IF @ \in Cooking \cup OnTheRoad THEN @
                                     ELSE "assigned_to_delivery"]
  <2>3. new2 \in [trip : 0 .. n, status : Stages, carrier : Carriers]
    BY <1>4, <1>5, <2>1
  <2>4. new2.trip = old.trip
    BY <1>4, <1>5, <2>1
  <2>5. new2.carrier = r
    BY <1>4, <1>5, <2>1
  <2>6. new2.status = IF old.status \in Cooking \cup OnTheRoad THEN old.status
                      ELSE "assigned_to_delivery"
    BY <1>4, <1>5, <2>1
  <2> QED
    BY <2>2, <2>3, <2>4, <2>5, <2>6, Zenon DEF r
<1>7. /\ p \in [do : {"assign", "pick", "open"}, order : Orders, rider : Riders, trip : 0 .. n]
      /\ p.do = "pick" /\ p.order = k.order /\ p.rider = k.rider /\ p.trip = k.trip
  <2> DEFINE D == {"assign"}
  <2>1. k \in [do : {"assign"}, order : Orders, rider : Riders, trip : 0 .. n]
    BY <1>1, <1>2
  <2> HIDE DEF k
  <2>2. p \in [do : {"assign", "pick", "open"}, order : Orders, rider : Riders, trip : 0 .. n]
    BY <2>1
  <2>3. p.do = "pick"
    BY <2>1
  <2>4. p.order = k.order
    BY <2>1
  <2>5. p.rider = k.rider
    BY <2>1
  <2>6. p.trip = k.trip
    BY <2>1
  <2> QED
    BY <2>2, <2>3, <2>4, <2>5, <2>6
<1>8. CASE old.status \in Terminal
  BY <1>1, <1>3, <1>8 DEF Assign
<1>9. CASE old.status \notin Terminal
  <2>1. Then(q, main \o more)
    BY <1>9 DEF Assign
  <2> HIDE DEF new, p
  <2>2. /\ a \in Tasks(n) /\ b \in Tasks(n) /\ p \in Tasks(n) /\ d \in Tasks(n) /\ e \in Tasks(n)
        /\ a.do = "save" /\ b.do = "drop" /\ p.do = "pick" /\ d.do = "refresh" /\ e.do = "refresh"
    <3>1. a \in Tasks(n) /\ a.do = "save"
      BY <1>3, <1>6 DEF SaveTask, Tasks, RowTasks
    <3>2. b \in Tasks(n) /\ b.do = "drop"
      BY <1>3 DEF DropTask, Tasks, OtherTasks
    <3>3. p \in Tasks(n) /\ p.do = "pick"
      BY <1>7 DEF Tasks, OrderTasks
    <3>4. d \in Tasks(n) /\ d.do = "refresh"
      BY <1>3 DEF RefreshTask, Tasks, OtherTasks
    <3>5. e \in Tasks(n) /\ e.do = "refresh"
      BY <1>4 DEF RefreshTask, Tasks, OtherTasks
    <3> QED
      BY <3>1, <3>2, <3>3, <3>4, <3>5
  <2>3. /\ "save" \in Before("drop") \cap Before("pick") \cap Before("refresh")
        /\ "drop" \in Before("pick") \cap Before("refresh")
        /\ "pick" \in Before("refresh") /\ "refresh" \in Before("refresh")
    BY DEF Before, Dos, Planning, Moving, Shared
  <2> HIDE DEF a, b, d, e, k, old
  <2>4. main \in Seq(Tasks(n)) /\ Elems(main) = {a, b, p, d} /\ Ordered(main)
    BY <1>1, <2>2, <2>3, FourList
  <2>5. /\ more \in Seq(Tasks(n)) /\ Ordered(more) /\ Elems(more) \subseteq {e}
        /\ old.carrier \in Riders \ {k.rider} => e \in Elems(more)
    <3>1. CASE old.carrier \in Riders \ {k.rider}
      BY <1>1, <2>2, <3>1, ShortLists
    <3>2. CASE old.carrier \notin Riders \ {k.rider}
      BY <1>1, <2>2, <3>2, ShortLists
    <3> QED
      BY <3>1, <3>2
  <2> HIDE DEF main, more
  <2>6. /\ main \o more \in Seq(Tasks(n)) /\ Ordered(main \o more)
        /\ Elems(main \o more) = Elems(main) \cup Elems(more)
    <3>1. \A x \in Elems(main), w \in Elems(more) : x.do \in Before(w.do)
      <4>1. ASSUME NEW x \in Elems(main), NEW w \in Elems(more) PROVE x.do \in Before(w.do)
        <5>1. x.do \in {"save", "drop", "pick", "refresh"} /\ w.do = "refresh"
          BY <2>2, <2>4, <2>5
        <5> QED
          BY <2>3, <5>1
      <4> QED
        BY <4>1
    <3> QED
      BY <2>4, <2>5, <3>1, Joined
  <2> DEFINE ts == main \o more
  <2> HIDE DEF ts
  <2>7. /\ ts \in Seq(Tasks(n)) /\ Ordered(ts) /\ Then(q, ts) /\ {a, b, p, d} \subseteq Elems(ts)
        /\ Elems(ts) \subseteq {a, b, p, d, e}
    BY <2>1, <2>4, <2>5, <2>6 DEF ts
  <2>8. old.carrier \in Riders => e \in Elems(ts)
    <3>1. old.carrier = k.rider => e = d
      BY DEF e, d
    <3> QED
      BY <2>4, <2>5, <2>6, <3>1 DEF ts
  <2>9. new \in RowType
    BY <1>6 DEF RowType
  <2> QED
    BY <1>1, <1>3, <1>6, <1>7, <1>9, <2>2, <2>7, <2>8, <2>9, Zenon DEF a, b, d, e, old, k
<1> QED
  BY <1>8, <1>9

LEMMA AssignShape == ASSUME TypeInv, NEW q \in Requests, Assign(q) PROVE Sound(q)
<1> DEFINE k == Head(work[q])
           n == Len(trips)
<1>1. work[q] # <<>> /\ k.do = "assign" /\ n \in Nat
  BY AtHand DEF Assign, Runs
<1>2. past' = past /\ trips' = trips /\ DbType'
  BY DbKept DEF Assign, db
<1>3. \/ Throw(q)
      \/ \E ts \in Seq(Tasks(n)), p \in Tasks(n), new \in RowType :
            /\ Then(q, ts) /\ Ordered(ts) /\ p.do = "pick"
            /\ Elems(ts) \subseteq {SaveTask(k.order, new), DropTask(k.order), p,
                                    RefreshTask(k.rider), RefreshTask(rows[k.order].carrier)}
  BY AssignList, Zenon
<1>4. CASE Throw(q)
  BY <1>1, <1>2, <1>4 DEF Sound, Shape
<1>5. ASSUME NEW ts \in Seq(Tasks(n)), NEW p \in Tasks(n), NEW new \in RowType,
             Then(q, ts), Ordered(ts), p.do = "pick",
             Elems(ts) \subseteq {SaveTask(k.order, new), DropTask(k.order), p,
                                  RefreshTask(k.rider), RefreshTask(rows[k.order].carrier)}
      PROVE  Shape(q)
  <2>1. \A x \in Elems(ts) : x.do \in {"save", "drop", "pick", "refresh"}
    BY <1>5 DEF SaveTask, DropTask, RefreshTask
  <2>2. Follow(k.do) = {"save", "drop", "pick", "refresh"}
    BY <1>1 DEF Follow
  <2> QED
    BY <1>1, <1>2, <1>5, <2>1, <2>2, ShapeOf
<1>6. Shape(q)
  BY <1>1, <1>3, <1>4, <1>5 DEF Shape
<1> QED
  BY <1>1, <1>2, <1>6 DEF Sound

LEMMA AftermathList ==
  ASSUME NEW n \in Nat, NEW o \in Orders, NEW s \in Stages, NEW c \in Carriers
  PROVE  /\ Aftermath(o, s, c) \in Seq(Tasks(n)) /\ Ordered(Aftermath(o, s, c))
         /\ Elems(Aftermath(o, s, c)) =
              CASE s = "out_for_delivery" -> {DepartTask(o)}
                [] s = "delivered" -> {Task("deliver", o, c, 0)}
                [] s = "cancelled" -> {DropTask(o), RefreshTask(c)}
                [] OTHER -> {}
         /\ \A x \in Elems(Aftermath(o, s, c)) : x.do \in {"leave", "deliver", "drop", "refresh"}
<1> DEFINE a == DepartTask(o)
           b == Task("deliver", o, c, 0)
           d == DropTask(o)
           e == RefreshTask(c)
           l == Aftermath(o, s, c)
<1>1. /\ a \in Tasks(n) /\ b \in Tasks(n) /\ d \in Tasks(n) /\ e \in Tasks(n)
      /\ a.do = "leave" /\ b.do = "deliver" /\ d.do = "drop" /\ e.do = "refresh"
  <2>1. a \in Tasks(n) /\ a.do = "leave"
    BY DEF DepartTask, Tasks, OtherTasks
  <2>2. b \in Tasks(n) /\ b.do = "deliver"
    BY DEF Task, Tasks, OrderTasks
  <2>3. d \in Tasks(n) /\ d.do = "drop"
    BY DEF DropTask, Tasks, OtherTasks
  <2>4. e \in Tasks(n) /\ e.do = "refresh"
    BY DEF RefreshTask, Tasks, OtherTasks
  <2> QED
    BY <2>1, <2>2, <2>3, <2>4
<1>2. l = CASE s = "out_for_delivery" -> <<a>>
            [] s = "delivered" -> <<b>>
            [] s = "cancelled" -> <<d, e>>
            [] OTHER -> <<>>
  BY DEF Aftermath
<1>3. "drop" \in Before("refresh")
  BY DEF Before, Dos, Planning, Moving, Shared
<1> HIDE DEF a, b, d, e, l
<1>4. CASE s = "out_for_delivery"
  <2>1. l = <<a>>
    BY <1>2, <1>4
  <2>2. l \in Seq(Tasks(n)) /\ Ordered(l) /\ Elems(l) = {a}
    BY <1>1, <2>1, ShortLists
  <2> QED
    BY <1>1, <1>4, <2>2 DEF l, a
<1>5. CASE s = "delivered"
  <2>1. l = <<b>>
    BY <1>2, <1>5
  <2>2. l \in Seq(Tasks(n)) /\ Ordered(l) /\ Elems(l) = {b}
    BY <1>1, <2>1, ShortLists
  <2> QED
    BY <1>1, <1>5, <2>2 DEF l, b
<1>6. CASE s = "cancelled"
  <2>1. l = <<d, e>>
    BY <1>2, <1>6
  <2>2. l \in Seq(Tasks(n)) /\ Ordered(l) /\ Elems(l) = {d, e}
    BY <1>1, <1>3, <2>1, ShortLists
  <2> QED
    BY <1>1, <1>6, <2>2 DEF l, d, e
<1>7. CASE s \notin {"out_for_delivery", "delivered", "cancelled"}
  <2>1. l = <<>>
    BY <1>2, <1>7
  <2>2. l \in Seq(Tasks(n)) /\ Ordered(l) /\ Elems(l) = {}
    BY <2>1, ShortLists
  <2> QED
    BY <1>7, <2>2 DEF l
<1> QED
  BY <1>4, <1>5, <1>6, <1>7

\* The list of a change of status.
LEMMA UpdateList ==
  ASSUME TypeInv, NEW q \in Requests, Update(q)
  PROVE  LET k == Head(work[q]) IN
           /\ k \in Tasks(Len(trips)) /\ k.do = "update" /\ k.order \in Orders /\ k.to \in Stages
           /\ \/ Throw(q)
              \/ /\ MayMove(rows[k.order].status, k.to, "delivery")
                 /\ k.to \in NeedsCarrier => rows[k.order].carrier # "nobody"
                 /\ \E ts \in Seq(Tasks(Len(trips))), new \in RowType :
                      /\ Then(q, ts) /\ Ordered(ts)
                      /\ new.trip = rows[k.order].trip /\ new.carrier = rows[k.order].carrier
                      /\ new.status = k.to
                      /\ Elems(ts) = {SaveTask(k.order, new)}
                           \cup Elems(Aftermath(k.order, k.to, rows[k.order].carrier))
<1> DEFINE k == Head(work[q])
           n == Len(trips)
           old == rows[k.order]
           new == [old EXCEPT !.status = k.to]
           a == SaveTask(k.order, new)
           main == <<a>>
           more == Aftermath(k.order, k.to, old.carrier)
<1>1. work[q] # <<>> /\ k.do = "update" /\ k \in Tasks(n) /\ n \in Nat
  BY AtHand DEF Update, Runs
<1>2. k.order \in Orders /\ k.to \in Stages
  BY <1>1, TaskFields
<1>3. old \in [trip : 0 .. n, status : Stages, carrier : Carriers]
  BY <1>2 DEF TypeInv, DbType, RowType
<1>4. /\ new \in [trip : 0 .. n, status : Stages, carrier : Carriers]
      /\ new.trip = old.trip /\ new.carrier = old.carrier /\ new.status = k.to
  <2> DEFINE r == k.to
             new2 == [old EXCEPT !.status = r]
  <2>1. r \in Stages
    BY <1>2
  <2>2. new = new2
    OBVIOUS
  <2> HIDE DEF old, r, new
  <2>3. new2 \in [trip : 0 .. n, status : Stages, carrier : Carriers]
    BY <1>3, <2>1
  <2>4. new2.trip = old.trip
    BY <1>3, <2>1
  <2>5. new2.carrier = old.carrier
    BY <1>3, <2>1
  <2>6. new2.status = r
    BY <1>3, <2>1
  <2> QED
    BY <2>2, <2>3, <2>4, <2>5, <2>6, Zenon DEF r
<1>5. \/ Throw(q)
      \/ /\ MayMove(old.status, k.to, "delivery")
         /\ k.to \in NeedsCarrier => old.carrier # "nobody"
         /\ Then(q, main \o more)
  BY DEF Update
<1> HIDE DEF new
<1>6. a \in Tasks(n) /\ a.do = "save"
  BY <1>2, <1>4 DEF SaveTask, Tasks, RowTasks
<1>7. /\ more \in Seq(Tasks(n)) /\ Ordered(more)
      /\ \A x \in Elems(more) : x.do \in {"leave", "deliver", "drop", "refresh"}
  BY <1>1, <1>2, <1>3, AftermathList
<1> HIDE DEF a, more, k, old
<1>8. main \in Seq(Tasks(n)) /\ Ordered(main) /\ Elems(main) = {a}
  BY <1>1, <1>6, ShortLists
<1> HIDE DEF main
<1>9. "save" \in Before("leave") \cap Before("deliver") \cap Before("drop") \cap Before("refresh")
  BY DEF Before, Dos, Planning, Moving, Shared
<1>10. \A x \in Elems(main), w \in Elems(more) : x.do \in Before(w.do)
  BY <1>6, <1>7, <1>8, <1>9
<1>11. /\ main \o more \in Seq(Tasks(n)) /\ Ordered(main \o more)
       /\ Elems(main \o more) = {a} \cup Elems(more)
  BY <1>7, <1>8, <1>10, Joined
<1>12. new \in RowType
  BY <1>4 DEF RowType
<1> DEFINE ts == main \o more
<1>13. CASE Throw(q)
  BY <1>1, <1>2, <1>13 DEF k
<1>14. CASE /\ MayMove(old.status, k.to, "delivery")
            /\ k.to \in NeedsCarrier => old.carrier # "nobody"
            /\ Then(q, ts)
  <2>1. ts \in Seq(Tasks(n)) /\ Ordered(ts) /\ Elems(ts) = {a} \cup Elems(more)
    BY <1>11
  <2> HIDE DEF ts
  <2> QED
    BY <1>1, <1>2, <1>4, <1>12, <1>14, <2>1, Zenon DEF k, a, more, old
<1> QED
  BY <1>5, <1>13, <1>14

LEMMA UpdateShape == ASSUME TypeInv, NEW q \in Requests, Update(q) PROVE Sound(q)
<1> DEFINE k == Head(work[q])
           n == Len(trips)
           c == rows[k.order].carrier
<1>1. work[q] # <<>> /\ k.do = "update" /\ n \in Nat
  BY AtHand DEF Update, Runs
<1>2. past' = past /\ trips' = trips /\ DbType'
  BY DbKept DEF Update, db
<1>3. /\ k.order \in Orders /\ k.to \in Stages
      /\ \/ Throw(q)
         \/ \E ts \in Seq(Tasks(n)), new \in RowType :
               /\ Then(q, ts) /\ Ordered(ts)
               /\ Elems(ts) = {SaveTask(k.order, new)} \cup Elems(Aftermath(k.order, k.to, c))
  BY UpdateList, Zenon
<1>4. c \in Carriers
  BY <1>3 DEF TypeInv, DbType, RowType
<1>5. ASSUME NEW ts \in Seq(Tasks(n)), NEW new \in RowType, Then(q, ts), Ordered(ts),
             Elems(ts) = {SaveTask(k.order, new)} \cup Elems(Aftermath(k.order, k.to, c))
      PROVE  Shape(q)
  <2>1. \A x \in Elems(Aftermath(k.order, k.to, c)) : x.do \in {"leave", "deliver", "drop", "refresh"}
    BY <1>1, <1>3, <1>4, AftermathList
  <2>2. SaveTask(k.order, new).do = "save"
    BY DEF SaveTask
  <2>3. Follow(k.do) = {"save", "leave", "deliver", "drop", "refresh"}
    BY <1>1 DEF Follow
  <2>4. \A x \in Elems(ts) : x.do \in Follow(k.do) /\ x.do # "assign"
    BY <1>5, <2>1, <2>2, <2>3
  <2> QED
    BY <1>1, <1>2, <1>5, <2>4, ShapeOf
<1>6. Shape(q)
  BY <1>1, <1>3, <1>5 DEF Shape
<1> QED
  BY <1>1, <1>2, <1>6 DEF Sound

\* The list of a booking.
LEMMA BookList ==
  ASSUME TypeInv, NEW q \in Requests, Book(q)
  PROVE  LET k == Head(work[q]) IN
           /\ k \in Tasks(Len(trips)) /\ k.do = "book" /\ k.order \in Orders
           /\ \/ Throw(q)
              \/ /\ rows[k.order].status \in Bookable \cup OnTheRoad
                 /\ \E ts \in Seq(Tasks(Len(trips))), new \in RowType :
                      /\ Then(q, ts) /\ Ordered(ts)
                      /\ new.trip = 0 /\ new.carrier = "porter"
                      /\ new.status = IF rows[k.order].status = "food_ready"
                                      THEN "assigned_to_delivery" ELSE rows[k.order].status
                      /\ Elems(ts) = {DropTask(k.order), SaveTask(k.order, new),
                                      RefreshTask(rows[k.order].carrier)}
<1> DEFINE k == Head(work[q])
           n == Len(trips)
           old == rows[k.order]
           new == [old EXCEPT !.carrier = "porter", !.trip = 0,
                              !.status = IF @ = "food_ready" THEN "assigned_to_delivery" ELSE @]
           a == DropTask(k.order)
           b == SaveTask(k.order, new)
           c == RefreshTask(old.carrier)
<1>1. work[q] # <<>> /\ k.do = "book" /\ k \in Tasks(n) /\ n \in Nat
  BY AtHand DEF Book, Runs
<1>2. k.order \in Orders
  BY <1>1, TaskFields
<1>3. old \in [trip : 0 .. n, status : Stages, carrier : Carriers]
  BY <1>2 DEF TypeInv, DbType, RowType
<1>4. /\ new \in [trip : 0 .. n, status : Stages, carrier : Carriers]
      /\ new.trip = 0 /\ new.carrier = "porter"
      /\ new.status = IF old.status = "food_ready" THEN "assigned_to_delivery" ELSE old.status
  <2> DEFINE new2 == [old EXCEPT !.carrier = "porter", !.trip = 0,
                                 !.status = IF @ = "food_ready" THEN "assigned_to_delivery" ELSE @]
  <2>1. "porter" \in Carriers /\ 0 \in 0 .. n /\ "assigned_to_delivery" \in Stages
    BY <1>1 DEF Carriers, Stages
  <2>2. new = new2
    OBVIOUS
  <2> HIDE DEF old, new
  <2>3. new2 \in [trip : 0 .. n, status : Stages, carrier : Carriers]
    BY <1>3, <2>1
  <2>4. new2.trip = 0
    BY <1>3, <2>1
  <2>5. new2.carrier = "porter"
    BY <1>3, <2>1
  <2>6. new2.status = IF old.status = "food_ready" THEN "assigned_to_delivery" ELSE old.status
    BY <1>3, <2>1
  <2> QED
    BY <2>2, <2>3, <2>4, <2>5, <2>6, Zenon
<1>5. Throw(q) \/ (old.status \in Bookable \cup OnTheRoad /\ Then(q, <<a, b, c>>))
  BY DEF Book, MayBook
<1> HIDE DEF new
<1>6. a \in Tasks(n) /\ a.do = "drop"
  BY <1>2 DEF DropTask, Tasks, OtherTasks
<1>7. b \in Tasks(n) /\ b.do = "save"
  BY <1>2, <1>4 DEF SaveTask, Tasks, RowTasks
<1>8. c \in Tasks(n) /\ c.do = "refresh"
  BY <1>3 DEF RefreshTask, Tasks, OtherTasks
<1>9. "drop" \in Before("save") \cap Before("refresh") /\ "save" \in Before("refresh")
  BY DEF Before, Dos, Planning, Moving, Shared
<1> DEFINE ts == <<a, b, c>>
<1> HIDE DEF a, b, c, k, old
<1>10. ts \in Seq(Tasks(n)) /\ Ordered(ts) /\ Elems(ts) = {a, b, c}
  BY <1>1, <1>6, <1>7, <1>8, <1>9, ShortLists
<1>11. Throw(q) \/ (old.status \in Bookable \cup OnTheRoad /\ Then(q, ts))
  BY <1>5
<1>12. new \in RowType
  BY <1>4 DEF RowType
<1> HIDE DEF ts
<1> QED
  BY <1>1, <1>2, <1>4, <1>10, <1>11, <1>12, Zenon DEF k, a, b, c, old

LEMMA BookShape == ASSUME TypeInv, NEW q \in Requests, Book(q) PROVE Sound(q)
<1> DEFINE k == Head(work[q])
           n == Len(trips)
<1>1. work[q] # <<>> /\ k.do = "book" /\ n \in Nat
  BY AtHand DEF Book, Runs
<1>2. past' = past /\ trips' = trips /\ DbType'
  BY DbKept DEF Book, db
<1>3. \/ Throw(q)
      \/ \E ts \in Seq(Tasks(n)), new \in RowType :
            /\ Then(q, ts) /\ Ordered(ts)
            /\ Elems(ts) = {DropTask(k.order), SaveTask(k.order, new), RefreshTask(rows[k.order].carrier)}
  BY BookList, Zenon
<1>4. ASSUME NEW ts \in Seq(Tasks(n)), NEW new \in RowType, Then(q, ts), Ordered(ts),
             Elems(ts) = {DropTask(k.order), SaveTask(k.order, new), RefreshTask(rows[k.order].carrier)}
      PROVE  Shape(q)
  <2>1. \A x \in Elems(ts) : x.do \in {"drop", "save", "refresh"}
    BY <1>4 DEF SaveTask, DropTask, RefreshTask
  <2>2. Follow(k.do) = {"drop", "save", "refresh"}
    BY <1>1 DEF Follow
  <2> QED
    BY <1>1, <1>2, <1>4, <2>1, <2>2, ShapeOf
<1>5. Shape(q)
  BY <1>1, <1>3, <1>4 DEF Shape
<1> QED
  BY <1>1, <1>2, <1>5 DEF Sound

\* The list of a cancelled booking.
LEMMA UnbookList ==
  ASSUME TypeInv, NEW q \in Requests, Unbook(q)
  PROVE  LET k == Head(work[q]) IN
           /\ k \in Tasks(Len(trips)) /\ k.do = "unbook" /\ k.order \in Orders
           /\ \/ Throw(q)
              \/ /\ rows[k.order].carrier = "porter" /\ rows[k.order].status \in Bookable
                 /\ \E new \in RowType :
                      /\ Then(q, <<SaveTask(k.order, new)>>)
                      /\ SaveTask(k.order, new) \in Tasks(Len(trips))
                      /\ new.trip = rows[k.order].trip /\ new.carrier = "nobody"
                      /\ new.status = IF rows[k.order].status = "assigned_to_delivery"
                                      THEN "food_ready" ELSE rows[k.order].status
<1> DEFINE k == Head(work[q])
           n == Len(trips)
           old == rows[k.order]
           new == [old EXCEPT !.carrier = "nobody",
                              !.status = IF @ = "assigned_to_delivery" THEN "food_ready" ELSE @]
<1>1. work[q] # <<>> /\ k.do = "unbook" /\ k \in Tasks(n) /\ n \in Nat
  BY AtHand DEF Unbook, Runs
<1>2. k.order \in Orders
  BY <1>1, TaskFields
<1>3. old \in [trip : 0 .. n, status : Stages, carrier : Carriers]
  BY <1>2 DEF TypeInv, DbType, RowType
<1>4. /\ new \in [trip : 0 .. n, status : Stages, carrier : Carriers]
      /\ new.trip = old.trip /\ new.carrier = "nobody"
      /\ new.status = IF old.status = "assigned_to_delivery" THEN "food_ready" ELSE old.status
  <2> DEFINE new2 == [old EXCEPT !.carrier = "nobody",
                                 !.status = IF @ = "assigned_to_delivery" THEN "food_ready" ELSE @]
  <2>1. "nobody" \in Carriers /\ "food_ready" \in Stages
    BY <1>1 DEF Carriers, Stages
  <2>2. new = new2
    OBVIOUS
  <2> HIDE DEF old, new
  <2>3. new2 \in [trip : 0 .. n, status : Stages, carrier : Carriers]
    BY <1>3, <2>1
  <2>4. new2.trip = old.trip
    BY <1>3, <2>1
  <2>5. new2.carrier = "nobody"
    BY <1>3, <2>1
  <2>6. new2.status = IF old.status = "assigned_to_delivery" THEN "food_ready" ELSE old.status
    BY <1>3, <2>1
  <2> QED
    BY <2>2, <2>3, <2>4, <2>5, <2>6, Zenon
<1>5. \/ Throw(q)
      \/ /\ old.carrier = "porter" /\ old.status \in Bookable
         /\ Then(q, <<SaveTask(k.order, new)>>)
  BY DEF Unbook
<1> HIDE DEF new
<1>6. SaveTask(k.order, new) \in Tasks(n)
  BY <1>2, <1>4 DEF SaveTask, Tasks, RowTasks
<1>7. new \in RowType
  BY <1>4 DEF RowType
<1> QED
  BY <1>1, <1>2, <1>4, <1>5, <1>6, <1>7, Zenon

LEMMA UnbookShape == ASSUME TypeInv, NEW q \in Requests, Unbook(q) PROVE Sound(q)
<1> DEFINE k == Head(work[q])
           n == Len(trips)
<1>1. work[q] # <<>> /\ k.do = "unbook" /\ n \in Nat
  BY AtHand DEF Unbook, Runs
<1>2. past' = past /\ trips' = trips /\ DbType'
  BY DbKept DEF Unbook, db
<1>3. Throw(q) \/ \E new \in RowType : /\ Then(q, <<SaveTask(k.order, new)>>)
                                       /\ SaveTask(k.order, new) \in Tasks(n)
  BY UnbookList, Zenon
<1>4. "save" \in Follow(k.do) /\ \A new : SaveTask(k.order, new).do = "save"
  BY <1>1 DEF Follow, SaveTask
<1>5. ASSUME NEW new \in RowType, Then(q, <<SaveTask(k.order, new)>>), SaveTask(k.order, new) \in Tasks(n)
      PROVE  Shape(q)
  BY <1>1, <1>2, <1>4, <1>5, ShapeOfOne
<1>6. Shape(q)
  BY <1>1, <1>3, <1>5 DEF Shape
<1> QED
  BY <1>1, <1>2, <1>6 DEF Sound

LEMMA CreateShape == ASSUME TypeInv, NEW q \in Requests, CreateTrip(q) PROVE Sound(q)
<1> DEFINE k == Head(work[q])
           n == Len(trips)
           x == [k EXCEPT !.do = "insert"]
<1>1. work[q] # <<>> /\ k.do = "create" /\ k \in Tasks(n) /\ n \in Nat
  BY AtHand DEF CreateTrip, Runs
<1>2. k \in [do : {k.do}, rider : Riders, orders : Seq(Orders)]
  BY <1>1, TaskFields
<1>3. past' = past /\ trips' = trips /\ DbType'
  BY DbKept DEF CreateTrip, db
<1>4. Throw(q) \/ Then(q, <<x>>)
  BY DEF CreateTrip
<1>5. x \in Tasks(n) /\ x.do = "insert"
  <2>1. k = [do |-> k.do, rider |-> k.rider, orders |-> k.orders]
    BY <1>2
  <2>2. x = [do |-> "insert", rider |-> k.rider, orders |-> k.orders]
    BY <2>1
  <2>3. x \in [do : {"create", "insert"}, rider : Riders, orders : Seq(Orders)] /\ x.do = "insert"
    BY <1>2, <2>2
  <2> QED
    BY <2>3 DEF Tasks, OtherTasks
<1>6. "insert" \in Follow(k.do)
  BY <1>1 DEF Follow
<1> HIDE DEF x
<1>7. ASSUME Then(q, <<x>>) PROVE Shape(q)
  BY <1>1, <1>3, <1>5, <1>6, <1>7, ShapeOfOne
<1>8. Shape(q)
  BY <1>1, <1>4, <1>7 DEF Shape
<1> QED
  BY <1>1, <1>3, <1>8 DEF Sound

\* The list of a trip that is made: one assignment per order.
LEMMA InsertList ==
  ASSUME TypeInv, NEW q \in Requests, InsertTrip(q)
  PROVE  LET k == Head(work[q])
             ts == [i \in DOMAIN k.orders |-> Task("assign", k.orders[i], k.rider, Len(trips) + 1)]
         IN  /\ k \in Tasks(Len(trips)) /\ k.do = "insert"
             /\ k.rider \in Riders /\ k.orders \in Seq(Orders)
             /\ DbType' /\ Len(trips') = Len(trips) + 1
             /\ trips'[Len(trips) + 1] = [rider |-> k.rider, status |-> "planned"]
             /\ \A t \in DOMAIN trips : t \in DOMAIN trips' /\ trips'[t] = trips[t]
             /\ ts \in Seq(Tasks(Len(trips'))) /\ Len(ts) = Len(k.orders)
             /\ Then(q, ts) /\ Ordered(ts)
             /\ \A x \in Elems(ts) : /\ x.do = "assign" /\ x.trip = Len(trips) + 1
                                     /\ x.rider = k.rider /\ x.order \in Orders
<1> DEFINE k == Head(work[q])
           n == Len(trips)
           f(i) == Task("assign", k.orders[i], k.rider, n + 1)
           ts == [i \in DOMAIN k.orders |-> f(i)]
<1>1. work[q] # <<>> /\ k.do = "insert" /\ k \in Tasks(n) /\ n \in Nat
  BY AtHand DEF InsertTrip, Runs
<1>2. k.rider \in Riders /\ k.orders \in Seq(Orders)
  BY <1>1, TaskFields
<1>3. /\ DbType' /\ Len(trips') = n + 1
      /\ trips'[n + 1] = [rider |-> k.rider, status |-> "planned"]
      /\ \A t \in DOMAIN trips : t \in DOMAIN trips' /\ trips'[t] = trips[t]
  BY <1>2, TripAdded DEF InsertTrip
<1>4. Then(q, ts)
  BY Zenon DEF InsertTrip
<1>5. ASSUME NEW i \in DOMAIN k.orders
      PROVE  /\ f(i) \in Tasks(n + 1) /\ f(i).do = "assign" /\ f(i).trip = n + 1
             /\ f(i).rider = k.rider /\ f(i).order \in Orders
  <2>1. k.orders[i] \in Orders /\ n + 1 \in 0 .. n + 1
    BY <1>1, <1>2, <1>5
  <2>2. /\ f(i) \in [do : {"assign", "pick", "open"}, order : Orders, rider : Riders, trip : 0 .. n + 1]
        /\ f(i).do = "assign" /\ f(i).trip = n + 1 /\ f(i).rider = k.rider /\ f(i).order \in Orders
    BY <1>2, <2>1 DEF Task
  <2> QED
    BY <2>2 DEF Tasks, OrderTasks
<1> DEFINE m == Len(k.orders)
<1>6. DOMAIN k.orders = 1 .. m /\ m \in Nat
  BY <1>2
<1> HIDE DEF f, m
<1>7. ts \in Seq(Tasks(n + 1)) /\ Len(ts) = m /\ DOMAIN ts = 1 .. m /\ \A i \in 1 .. m : ts[i] = f(i)
  BY <1>5, <1>6
<1> HIDE DEF ts
<1>8. "assign" \in Before("assign")
  BY DEF Before
<1>9. Ordered(ts)
  BY <1>5, <1>6, <1>7, <1>8 DEF Ordered
<1>10. \A x \in Elems(ts) : /\ x.do = "assign" /\ x.trip = n + 1
                            /\ x.rider = k.rider /\ x.order \in Orders
  BY <1>5, <1>6, <1>7 DEF Elems
<1> QED
  BY <1>1, <1>2, <1>3, <1>4, <1>7, <1>9, <1>10, Zenon DEF ts, f, m

LEMMA InsertShape == ASSUME TypeInv, NEW q \in Requests, InsertTrip(q) PROVE Sound(q)
<1> DEFINE k == Head(work[q])
           n == Len(trips)
           ts == [i \in DOMAIN k.orders |-> Task("assign", k.orders[i], k.rider, n + 1)]
<1>1. work[q] # <<>> /\ k.do = "insert" /\ n \in Nat /\ past' = past
  BY AtHand DEF InsertTrip, Runs
<1>2. /\ DbType' /\ Len(trips') = n + 1 /\ ts \in Seq(Tasks(Len(trips')))
      /\ Then(q, ts) /\ Ordered(ts) /\ \A x \in Elems(ts) : x.do = "assign" /\ x.trip = n + 1
  BY InsertList, Zenon
<1> HIDE DEF ts
<1>3. n + 1 # 0 /\ "assign" \in Follow(k.do)
  BY <1>1 DEF Follow
<1>4. \A x \in Elems(ts) : x.do \in Follow(k.do) /\ (x.do = "assign" => x.trip # 0)
  BY <1>1, <1>2, <1>3
<1>5. Shape(q)
  BY <1>1, <1>2, <1>4, ShapeOf
<1> QED
  BY <1>1, <1>2, <1>5 DEF Sound

LEMMA OnFinite == ASSUME NEW t PROVE On(t) \subseteq Orders /\ IsFiniteSet(On(t))
BY TripsAssumption, FS_Subset DEF On

LEMMA ListedIs ==
  ASSUME NEW S \in SUBSET Orders, NEW ids \in Listed(S)
  PROVE  /\ ids \in Seq(Orders) /\ Len(ids) = Cardinality(S) /\ IsFiniteSet(S)
         /\ Cardinality(S) \in Nat /\ ids \in [1 .. Cardinality(S) -> S]
         /\ \A o \in S : \E i \in DOMAIN ids : ids[i] = o
<1>1. IsFiniteSet(S)
  BY TripsAssumption, FS_Subset
<1>2. Cardinality(S) \in Nat
  BY <1>1, FS_CardinalityType
<1>3. ids \in [1 .. Cardinality(S) -> S] /\ \A o \in S : \E i \in DOMAIN ids : ids[i] = o
  BY DEF Listed
<1>4. ids \in Seq(Orders) /\ Len(ids) = Cardinality(S)
  BY <1>2, <1>3
<1> QED
  BY <1>1, <1>2, <1>3, <1>4

\* The list of an addition.
LEMMA AddList ==
  ASSUME TypeInv, NEW q \in Requests, AddToTrip(q)
  PROVE  LET k == Head(work[q]) IN
           /\ k \in Tasks(Len(trips)) /\ k.do = "add"
           /\ k.order \in Orders /\ k.rider \in Riders /\ k.trip \in 1 .. Len(trips)
           /\ \/ Throw(q)
              \/ /\ trips[k.trip].status = "planned"
                 /\ \E ids \in Listed(On(k.trip) \cup {k.order}), ts \in Seq(Tasks(Len(trips))) :
                      /\ Then(q, ts) /\ Ordered(ts)
                      /\ Elems(ts) = {TripTask("cancel", k.trip), CreateTask("create", k.rider, ids),
                                      TripTask("catch", k.trip)}
<1> DEFINE k == Head(work[q])
           n == Len(trips)
           a == TripTask("cancel", k.trip)
           b(ids) == CreateTask("create", k.rider, ids)
           c == TripTask("catch", k.trip)
           S == On(k.trip) \cup {k.order}
<1>1. work[q] # <<>> /\ k.do = "add" /\ k \in Tasks(n) /\ n \in Nat
  BY AtHand DEF AddToTrip, Runs
<1>2. k.order \in Orders /\ k.rider \in Riders /\ k.trip \in 1 .. n
  BY <1>1, TaskFields
<1>3. \/ Throw(q)
      \/ /\ trips[k.trip].status = "planned"
         /\ \E ids \in Listed(S) : Then(q, <<a, b(ids), c>>)
  BY DEF AddToTrip
<1>4. a \in Tasks(n) /\ a.do = "cancel" /\ c \in Tasks(n) /\ c.do = "catch"
  BY <1>2 DEF TripTask, Tasks, TripTasks
<1>5. ASSUME NEW ids \in Listed(S) PROVE b(ids) \in Tasks(n) /\ b(ids).do = "create"
  <2>1. S \subseteq Orders
    BY <1>2, OnFinite
  <2>2. ids \in Seq(Orders)
    BY <1>5, <2>1, ListedIs
  <2> QED
    BY <1>2, <2>2 DEF CreateTask, Tasks, OtherTasks
<1>6. "cancel" \in Before("create") \cap Before("catch") /\ "create" \in Before("catch")
  BY DEF Before, Dos, Planning, Moving, Shared
<1>7. ASSUME trips[k.trip].status = "planned", NEW ids \in Listed(S), Then(q, <<a, b(ids), c>>)
      PROVE  \E ts \in Seq(Tasks(n)) : /\ Then(q, ts) /\ Ordered(ts)
                                       /\ Elems(ts) = {a, b(ids), c}
  <2> DEFINE d == b(ids)
             ts == <<a, d, c>>
  <2>1. Then(q, ts)
    BY <1>7
  <2>2. d \in Tasks(n) /\ d.do = "create"
    BY <1>5
  <2> HIDE DEF a, d, c
  <2>3. ts \in Seq(Tasks(n)) /\ Ordered(ts) /\ Elems(ts) = {a, d, c}
    BY <1>1, <1>4, <1>6, <2>2, ShortLists
  <2> QED
    BY <2>1, <2>3, Zenon DEF d
<1> QED
  BY <1>1, <1>2, <1>3, <1>7, Zenon

LEMMA AddShape == ASSUME TypeInv, NEW q \in Requests, AddToTrip(q) PROVE Sound(q)
<1> DEFINE k == Head(work[q])
           n == Len(trips)
<1>1. work[q] # <<>> /\ k.do = "add" /\ n \in Nat
  BY AtHand DEF AddToTrip, Runs
<1>2. past' = past /\ trips' = trips /\ DbType'
  BY DbKept DEF AddToTrip, db
<1>3. \/ Throw(q)
      \/ \E ids \in Listed(On(k.trip) \cup {k.order}), ts \in Seq(Tasks(n)) :
            /\ Then(q, ts) /\ Ordered(ts)
            /\ Elems(ts) = {TripTask("cancel", k.trip), CreateTask("create", k.rider, ids),
                            TripTask("catch", k.trip)}
  BY AddList, Zenon
<1>4. ASSUME NEW ids, NEW ts \in Seq(Tasks(n)), Then(q, ts), Ordered(ts),
             Elems(ts) = {TripTask("cancel", k.trip), CreateTask("create", k.rider, ids),
                          TripTask("catch", k.trip)}
      PROVE  Shape(q)
  <2>1. \A x \in Elems(ts) : x.do \in {"cancel", "create", "catch"}
    BY <1>4 DEF TripTask, CreateTask
  <2>2. Follow(k.do) = {"cancel", "create", "catch"}
    BY <1>1 DEF Follow
  <2> QED
    BY <1>1, <1>2, <1>4, <2>1, <2>2, ShapeOf
<1>5. Shape(q)
  BY <1>1, <1>3, <1>4 DEF Shape
<1> QED
  BY <1>1, <1>2, <1>5 DEF Sound

LEMMA CancelShape == ASSUME TypeInv, NEW q \in Requests, CancelTrip(q) PROVE Sound(q)
<1> SUFFICES ASSUME NEW k, k = Head(work[q]) PROVE Sound(q)
  OBVIOUS
<1> DEFINE n == Len(trips)
<1>1. work[q] # <<>> /\ k.do = "cancel" /\ k \in Tasks(n) /\ n \in Nat
  BY AtHand DEF CancelTrip, Runs
<1>2. k.trip \in 1 .. n
  <2>1. k \in [do : {k.do}, trip : 1 .. n]
    BY <1>1, TaskFields, Zenon
  <2> QED
    BY <2>1
<1>3. DbType' /\ Len(trips') = n
  BY <1>2, TripChanges, Zenon DEF CancelTrip
<1>4. past' = past /\ Then(q, <<>>)
  BY DEF CancelTrip
<1> QED
  BY <1>1, <1>3, <1>4, ShapeOfOne DEF Sound

LEMMA NotCaughtShape == ASSUME TypeInv, NEW q \in Requests, NotCaught(q) PROVE Sound(q)
<1>1. work[q] # <<>> /\ Len(trips) \in Nat
  BY AtHand DEF NotCaught, Runs
<1>2. past' = past /\ Then(q, <<>>) /\ DbType' /\ trips' = trips
  BY DbKept DEF NotCaught, db
<1> QED
  BY <1>1, <1>2, ShapeOfOne DEF Sound

LEMMA ReviveShape == ASSUME TypeInv, NEW q \in Requests, Revive(q) PROVE Sound(q)
<1> SUFFICES ASSUME NEW k, k = Head(work[q]) PROVE Sound(q)
  OBVIOUS
<1> DEFINE n == Len(trips)
<1>1. work[q] # <<>> /\ k.do = "revive" /\ k \in Tasks(n) /\ n \in Nat
  BY AtHand DEF Revive, Runs
<1>2. k.trip \in 1 .. n /\ "planned" \in Active
  <2>1. k \in [do : {k.do}, trip : 1 .. n]
    BY <1>1, TaskFields, Zenon
  <2> QED
    BY <2>1 DEF Active
<1>3. DbType' /\ Len(trips') = n
  BY <1>2, TripChanges DEF Revive
<1>4. past' = past /\ Then(q, <<>>)
  BY DEF Revive
<1> QED
  BY <1>1, <1>3, <1>4, ShapeOfOne DEF Sound

\* Changes of status.
UpdateTasks == [do : {"update"}, order : Orders, rider : Carriers, to : Stages]

LEMMA HandOverList ==
  ASSUME NEW o \in Orders, NEW r \in Riders
  PROVE  HandOver(o, r) \in Seq(UpdateTasks)
<1> DEFINE a == StatusTask(o, "nobody", "assigned_to_delivery")
           b == StatusTask(o, r, "out_for_delivery")
           first == IF rows[o].status = "food_ready" THEN <<a>> ELSE <<>>
           second == <<b>>
<1>1. a \in UpdateTasks /\ b \in UpdateTasks
  BY DEF StatusTask, UpdateTasks, Carriers, Stages
<1>2. HandOver(o, r) = first \o second
  BY DEF HandOver
<1> HIDE DEF a, b
<1>3. first \in Seq(UpdateTasks) /\ second \in Seq(UpdateTasks)
  BY <1>1
<1> HIDE DEF first, second
<1>4. first \o second \in Seq(UpdateTasks)
  BY <1>3, Joined
<1> QED
  BY <1>2, <1>4

\* The list of a pickup: changes of status.
LEMMA PickupList ==
  ASSUME TypeInv, NEW q \in Requests, Pickup(q)
  PROVE  Throw(q) \/ \E ts \in Seq(UpdateTasks) : Then(q, ts)
<1> DEFINE k == Head(work[q])
           n == Len(trips)
           t == k.trip
           r == trips[t].rider
           bag(ids, i) == IF i \in DOMAIN ids THEN HandOver(ids[i], r) ELSE <<>>
<1>1. work[q] # <<>> /\ k.do = "pickup" /\ k \in Tasks(n) /\ n \in Nat
  BY AtHand DEF Pickup, Runs
<1>2. t \in 1 .. n
  BY <1>1, TaskFields
<1>3. r \in Riders
  <2>1. trips[t] \in TripType
    BY <1>1, <1>2 DEF TypeInv, DbType
  <2> QED
    BY <2>1 DEF TripType
<1>4. \/ Throw(q)
      \/ \E ids \in Listed(On(t)) : Then(q, bag(ids, 1) \o bag(ids, 2) \o bag(ids, 3))
  BY DEF Pickup
<1>5. ASSUME NEW ids \in Listed(On(t)), Then(q, bag(ids, 1) \o bag(ids, 2) \o bag(ids, 3))
      PROVE  \E ts \in Seq(UpdateTasks) : Then(q, ts)
  <2>1. ids \in Seq(Orders)
    BY <1>5, OnFinite, ListedIs
  <2>2. ASSUME NEW i PROVE bag(ids, i) \in Seq(UpdateTasks)
    <3>1. CASE i \in DOMAIN ids
      BY <1>3, <2>1, <3>1, HandOverList
    <3>2. CASE i \notin DOMAIN ids
      BY <3>2
    <3> QED
      BY <3>1, <3>2
  <2> DEFINE a == bag(ids, 1)
             b == bag(ids, 2)
             c == bag(ids, 3)
  <2>3. a \in Seq(UpdateTasks) /\ b \in Seq(UpdateTasks) /\ c \in Seq(UpdateTasks)
    BY <2>2
  <2>4. Then(q, (a \o b) \o c)
    BY <1>5
  <2> HIDE DEF a, b, c
  <2> DEFINE ab == a \o b
  <2>5. ab \in Seq(UpdateTasks)
    BY <2>3, Joined
  <2> HIDE DEF ab
  <2>6. ab \o c \in Seq(UpdateTasks)
    BY <2>3, <2>5, Joined
  <2>7. Then(q, ab \o c)
    BY <2>4 DEF ab
  <2> QED
    BY <2>6, <2>7
<1> QED
  BY <1>4, <1>5

LEMMA PickupShape == ASSUME TypeInv, NEW q \in Requests, Pickup(q) PROVE Sound(q)
<1> DEFINE k == Head(work[q])
           n == Len(trips)
<1>1. work[q] # <<>> /\ k.do = "pickup" /\ n \in Nat
  BY AtHand DEF Pickup, Runs
<1>2. past' = past /\ trips' = trips /\ DbType'
  BY DbKept DEF Pickup, db
<1>3. Throw(q) \/ \E ts \in Seq(UpdateTasks) : Then(q, ts)
  BY PickupList
<1>4. ASSUME NEW ts \in Seq(UpdateTasks), Then(q, ts) PROVE Shape(q)
  <2>1. UpdateTasks \subseteq Tasks(n)
    BY DEF UpdateTasks, Tasks, RowTasks
  <2>2. ts \in Seq(Tasks(n))
    BY <2>1
  <2>3. \A i \in DOMAIN ts : ts[i].do = "update"
    <3>1. \A i \in DOMAIN ts : ts[i] \in UpdateTasks
      OBVIOUS
    <3>2. \A x \in UpdateTasks : x.do = "update"
      BY DEF UpdateTasks
    <3> QED
      BY <3>1, <3>2
  <2>4. "update" \in Before("update") /\ "update" \in Follow(k.do)
    BY <1>1 DEF Before, Follow, Dos, Moving
  <2>5. Ordered(ts)
    BY <2>3, <2>4 DEF Ordered
  <2>6. \A x \in Elems(ts) : x.do = "update"
    BY <2>3 DEF Elems
  <2> QED
    BY <1>1, <1>2, <1>4, <2>2, <2>4, <2>5, <2>6, ShapeOf
<1>5. Shape(q)
  BY <1>1, <1>3, <1>4 DEF Shape
<1> QED
  BY <1>1, <1>2, <1>5 DEF Sound

\* No order is on a list twice.
Injective(s) == \A i, j \in DOMAIN s : s[i] = s[j] => i = j

\* What a call asks for.
CallTasks ==
  [do : {"assign"}, order : Orders, rider : Riders, trip : {0}]
  \cup [do : {"update"}, order : Orders, rider : {"nobody"}, to : Stages]
  \cup [do : {"book", "unbook"}, order : Orders]
  \cup [do : {"create"}, rider : Riders, orders : {s \in Seq(Orders) : s # <<>> /\ Injective(s)}]
  \cup [do : {"add"}, order : Orders, rider : Riders, trip : 1 .. Len(trips)]
  \cup [do : {"pickup"}, trip : 1 .. Len(trips)]

Calls(q) == CallAssign(q) \/ CallUpdate(q) \/ CallPorter(q) \/ CallCreate(q) \/ CallAdd(q) \/ CallPickup(q)

LEMMA CallIs ==
  ASSUME TypeInv, NEW q \in Requests, Calls(q)
  PROVE  \E x \in CallTasks : Call(q, x)
<1> DEFINE n == Len(trips)
<1>0. n \in Nat /\ DOMAIN trips = 1 .. n
  BY DEF TypeInv, DbType
<1>1. CASE CallAssign(q)
  <2>1. PICK o \in Orders, r \in Riders : Call(q, Task("assign", o, r, 0))
    BY <1>1 DEF CallAssign
  <2>2. Task("assign", o, r, 0) \in CallTasks
    BY DEF Task, CallTasks
  <2> QED
    BY <2>1, <2>2
<1>2. CASE CallUpdate(q)
  <2>1. PICK o \in Orders, s \in Stages : Call(q, StatusTask(o, "nobody", s))
    BY <1>2 DEF CallUpdate
  <2>2. StatusTask(o, "nobody", s) \in CallTasks
    BY DEF StatusTask, CallTasks
  <2> QED
    BY <2>1, <2>2
<1>3. CASE CallPorter(q)
  <2>1. PICK o \in Orders, d \in {"book", "unbook"} : Call(q, [do |-> d, order |-> o])
    BY <1>3 DEF CallPorter
  <2>2. [do |-> d, order |-> o] \in CallTasks
    BY DEF CallTasks
  <2> QED
    BY <2>1, <2>2
<1>4. CASE CallCreate(q)
  <2>1. PICK r \in Riders, o \in Orders :
          \E ids \in {<<o>>} \cup {<<o, p>> : p \in Orders \ {o}} : Call(q, CreateTask("create", r, ids))
    BY <1>4 DEF CallCreate
  <2>2. PICK ids \in {<<o>>} \cup {<<o, p>> : p \in Orders \ {o}} : Call(q, CreateTask("create", r, ids))
    BY <2>1
  <2>3. ids \in Seq(Orders) /\ ids # <<>> /\ Injective(ids)
    <3>1. <<o>> \in Seq(Orders) /\ <<o>> # <<>> /\ Injective(<<o>>)
      BY DEF Injective
    <3>2. ASSUME NEW p \in Orders \ {o}, ids = <<o, p>>
          PROVE  ids \in Seq(Orders) /\ ids # <<>> /\ Injective(ids)
      BY <3>2 DEF Injective
    <3> QED
      BY <2>2, <3>1, <3>2
  <2>4. CreateTask("create", r, ids) \in CallTasks
    BY <2>3 DEF CreateTask, CallTasks
  <2> QED
    BY <2>2, <2>4
<1>5. CASE CallAdd(q)
  <2>1. PICK o \in Orders, t \in DOMAIN trips : Call(q, Task("add", o, trips[t].rider, t))
    BY <1>5 DEF CallAdd
  <2>2. trips[t] \in TripType
    BY <1>0 DEF TypeInv, DbType
  <2>3. trips[t].rider \in Riders
    BY <2>2 DEF TripType
  <2>4. Task("add", o, trips[t].rider, t) \in CallTasks
    BY <1>0, <2>3 DEF Task, CallTasks
  <2> QED
    BY <2>1, <2>4
<1>6. CASE CallPickup(q)
  <2>1. PICK t \in DOMAIN trips : Call(q, TripTask("pickup", t))
    BY <1>6 DEF CallPickup
  <2>2. TripTask("pickup", t) \in CallTasks
    BY <1>0 DEF TripTask, CallTasks
  <2> QED
    BY <2>1, <2>2
<1> QED
  BY <1>1, <1>2, <1>3, <1>4, <1>5, <1>6 DEF Calls

LEMMA CallTasksAre ==
  ASSUME TypeInv, NEW x \in CallTasks
  PROVE  /\ x \in Tasks(Len(trips))
         /\ x.do \in {"assign", "update", "book", "unbook", "create", "add", "pickup"}
         /\ x.do \in StatusCalls => x.do \in Moving
         /\ x.do \notin StatusCalls => x.do \in Planning
<1>1. x.do \in {"assign", "update", "book", "unbook", "create", "add", "pickup"}
  BY DEF CallTasks
<1>2. x \in Tasks(Len(trips))
  <2>1. Len(trips) \in Nat
    BY DEF TypeInv, DbType
  <2>2. CASE x \in [do : {"assign"}, order : Orders, rider : Riders, trip : {0}]
    BY <2>1, <2>2 DEF Tasks, OrderTasks
  <2>3. CASE x \in [do : {"update"}, order : Orders, rider : {"nobody"}, to : Stages]
    BY <2>3 DEF Tasks, RowTasks, Carriers
  <2>4. CASE x \in [do : {"book", "unbook"}, order : Orders]
    BY <2>4 DEF Tasks, OtherTasks
  <2>5. CASE x \in [do : {"create"}, rider : Riders, orders : {s \in Seq(Orders) : s # <<>> /\ Injective(s)}]
    BY <2>5 DEF Tasks, OtherTasks
  <2>6. CASE x \in [do : {"add"}, order : Orders, rider : Riders, trip : 1 .. Len(trips)]
    BY <2>6 DEF Tasks, OrderTasks
  <2>7. CASE x \in [do : {"pickup"}, trip : 1 .. Len(trips)]
    BY <2>7 DEF Tasks, TripTasks
  <2> QED
    BY <2>2, <2>3, <2>4, <2>5, <2>6, <2>7 DEF CallTasks
<1> QED
  BY <1>1, <1>2 DEF StatusCalls, Moving, Planning

\* A call that arrives.
LEMMA Called ==
  ASSUME TypeInv, NEW q \in Requests, NEW x \in CallTasks, Call(q, x)
  PROVE  /\ work[q] = <<>> /\ work'[q] = <<x>> /\ Todo(q)' = {x} /\ Len(work'[q]) = 1
         /\ \A p \in Requests \ {q} : work'[p] = work[p]
         /\ UNCHANGED db
         /\ past'.planners = (past.planners \cap {p \in Requests : work[p] # <<>>})
                               \cup (IF x.do \in StatusCalls THEN {} ELSE {q})
         /\ past'.raced = (past.raced \/ {p \in Requests : work[p] # <<>>} # {})
         /\ past'.cut = past.cut
         /\ past'.tangled = (past.tangled \/ ({p \in Requests : work[p] # <<>>} # {} /\ past'.planners # {}))
         /\ past' \in [calls : 0 .. MaxCalls, planners : SUBSET Requests, raced : BOOLEAN,
                       tangled : BOOLEAN, cut : BOOLEAN]
<1> DEFINE rivals == {p \in Requests : work[p] # <<>>}
           planners == (past.planners \cap rivals) \cup (IF x.do \in StatusCalls THEN {} ELSE {q})
<1>1. /\ work[q] = <<>> /\ work' = [work EXCEPT ![q] = <<x>>] /\ UNCHANGED db
      /\ past.calls < MaxCalls
      /\ past' = [past EXCEPT !.calls = @ + 1, !.planners = planners,
                              !.raced = @ \/ rivals # {},
                              !.tangled = @ \/ (rivals # {} /\ planners # {})]
  BY DEF Call
<1>2. past \in [calls : 0 .. MaxCalls, planners : SUBSET Requests, raced : BOOLEAN,
                tangled : BOOLEAN, cut : BOOLEAN] /\ MaxCalls \in Nat
  BY TripsAssumption DEF TypeInv
<1>3. work \in [Requests -> Seq(Tasks(Len(trips)))]
  BY DEF TypeInv
<1>4. work'[q] = <<x>> /\ \A p \in Requests \ {q} : work'[p] = work[p]
  BY <1>1, <1>3
<1>5. Todo(q)' = {x} /\ Len(work'[q]) = 1
  BY <1>4 DEF Todo
<1>6. planners \in SUBSET Requests
  BY <1>2
<1> DEFINE a == rivals # {}
           b == rivals # {} /\ planners # {}
<1>7. past' = [past EXCEPT !.calls = @ + 1, !.planners = planners, !.raced = @ \/ a, !.tangled = @ \/ b]
  BY <1>1
<1> HIDE DEF planners, rivals, a, b
<1>8. past'.planners = planners /\ past'.calls = past.calls + 1
  BY <1>2, <1>7
<1>9. past'.raced = (past.raced \/ a)
  BY <1>2, <1>7
<1>10. past'.tangled = (past.tangled \/ b)
  BY <1>2, <1>7
<1>11. past'.cut = past.cut
  BY <1>2, <1>7
<1>12. past' \in [calls : 0 .. MaxCalls, planners : SUBSET Requests, raced : BOOLEAN,
                  tangled : BOOLEAN, cut : BOOLEAN]
  <2>1. past.calls + 1 \in 0 .. MaxCalls
    BY <1>1, <1>2
  <2> QED
    BY <1>2, <1>6, <1>7, <2>1
<1> QED
  BY <1>1, <1>4, <1>5, <1>8, <1>9, <1>10, <1>11, <1>12 DEF planners, rivals, a, b

LEMMA CallKeepsLists ==
  ASSUME TypeInv, ListInv, NEW q \in Requests, NEW x \in CallTasks, Call(q, x)
  PROVE  TypeInv' /\ ListInv'
<1> DEFINE n == Len(trips)
<1>1. DbType' /\ n \in Nat /\ Len(trips') = n
  <2>1. UNCHANGED db
    BY Called
  <2> QED
    BY <2>1, AtHand, DbKept DEF TypeInv, DbType
<1>2. x \in Tasks(n)
  BY CallTasksAre
<1>3. work' \in [Requests -> Seq(Tasks(n))]
  <2>1. <<x>> \in Seq(Tasks(n))
    BY <1>2
  <2>2. work' = [work EXCEPT ![q] = <<x>>] /\ work \in [Requests -> Seq(Tasks(n))]
    BY DEF Call, TypeInv
  <2> QED
    BY <2>1, <2>2
<1>4. TypeInv'
  <2>1. past' \in [calls : 0 .. MaxCalls, planners : SUBSET Requests, raced : BOOLEAN,
                   tangled : BOOLEAN, cut : BOOLEAN]
    BY Called
  <2> QED
    BY <1>1, <1>3, <2>1 DEF TypeInv
<1> DEFINE rivals == {p \in Requests : work[p] # <<>>}
<1>5. /\ work[q] = <<>> /\ work'[q] = <<x>> /\ Todo(q)' = {x} /\ Len(work'[q]) = 1
      /\ \A p \in Requests \ {q} : work'[p] = work[p]
      /\ past'.planners = (past.planners \cap rivals) \cup (IF x.do \in StatusCalls THEN {} ELSE {q})
  BY Called
<1>6. ListOK(q)'
  <2>1. Ordered(work'[q])
    BY <1>5 DEF Ordered
  <2>2. q \in past'.planners <=> x.do \notin StatusCalls
    BY <1>5
  <2>3. /\ x.do \in StatusCalls => x.do \in Moving
        /\ x.do \notin StatusCalls => x.do \in Planning
    BY CallTasksAre
  <2> QED
    BY <1>5, <2>1, <2>2, <2>3 DEF ListOK
<1>7. ASSUME NEW p \in Requests \ {q} PROVE ListOK(p)'
  <2>1. work'[p] = work[p] /\ Todo(p)' = Todo(p)
    BY <1>5 DEF Todo
  <2>2. ListOK(p)
    BY DEF ListInv
  <2>3. CASE work[p] = <<>>
    <3>1. Todo(p) = {}
      BY <2>3 DEF Todo
    <3> QED
      BY <2>1, <2>2, <3>1 DEF ListOK
  <2>4. CASE work[p] # <<>>
    <3>1. p \in past'.planners <=> p \in past.planners
      BY <1>5, <2>4
    <3> QED
      BY <2>1, <2>2, <3>1 DEF ListOK
  <2> QED
    BY <2>3, <2>4
<1> QED
  BY <1>4, <1>6, <1>7 DEF ListInv

LEMMA SoundKeeps ==
  ASSUME TypeInv, ListInv, NEW q \in Requests, Sound(q)
  PROVE  TypeInv' /\ ListInv'
<1>1. Shape(q) /\ DbType' /\ Len(trips) <= Len(trips') /\ past' = past
  BY DEF Sound
<1>2. work' \in [Requests -> Seq(Tasks(Len(trips')))] /\ ListInv'
  BY <1>1, ShapeKept
<1> QED
  BY <1>1, <1>2 DEF TypeInv

\* A request breaks off, or its error is caught.
LEMMA FailIs ==
  ASSUME TypeInv, ListInv, NEW q \in Requests, Fail(q)
  PROVE  /\ TypeInv' /\ ListInv' /\ UNCHANGED db
         /\ past'.cut /\ past'.raced = past.raced /\ past'.tangled = past.tangled
         /\ past'.planners = past.planners
         /\ \A p \in Requests \ {q} : work'[p] = work[p]
         /\ \/ work'[q] = <<>>
            \/ \E k \in Todo(q) : k.do = "catch" /\ work'[q] = <<TripTask("revive", k.trip)>>
<1> DEFINE n == Len(trips)
<1>1. UNCHANGED db /\ past' = [past EXCEPT !.cut = TRUE] /\ work[q] # <<>>
  BY DEF Fail
<1>2. DbType' /\ Len(trips') = n /\ n \in Nat
  BY <1>1, DbKept DEF TypeInv, DbType
<1>3. past \in [calls : 0 .. MaxCalls, planners : SUBSET Requests, raced : BOOLEAN,
                tangled : BOOLEAN, cut : BOOLEAN]
  BY DEF TypeInv
<1>4. /\ past' \in [calls : 0 .. MaxCalls, planners : SUBSET Requests, raced : BOOLEAN,
                    tangled : BOOLEAN, cut : BOOLEAN]
      /\ past'.planners = past.planners /\ past'.raced = past.raced /\ past'.tangled = past.tangled
  BY <1>1, <1>3
<1>5. past'.cut
  BY <1>1, <1>3
<1>6. work \in [Requests -> Seq(Tasks(n))]
  BY DEF TypeInv
<1>7. /\ work' \in [Requests -> Seq(Tasks(n))]
      /\ \A p \in Requests \ {q} : work'[p] = work[p]
      /\ \/ work'[q] = <<>>
         \/ \E k \in Todo(q) : k.do = "catch" /\ work'[q] = <<TripTask("revive", k.trip)>>
  <2>1. CASE Throw(q)
    BY <1>2, <1>6, <2>1, Thrown
  <2>2. CASE work' = [work EXCEPT ![q] = <<>>]
    BY <1>6, <2>2
  <2> QED
    BY <2>1, <2>2 DEF Fail
<1>8. \A p \in Requests \ {q} : ListOK(p)'
  BY <1>4, <1>7 DEF ListInv, ListOK, Todo
<1>9. ListOK(q)'
  <2>1. CASE work'[q] = <<>>
    BY <2>1 DEF ListOK, Ordered, Todo
  <2>2. ASSUME NEW k \in Todo(q), k.do = "catch", work'[q] = <<TripTask("revive", k.trip)>>
        PROVE  ListOK(q)'
    <3>1. q \in past.planners
      BY <2>2 DEF ListInv, ListOK, Moving, Shared
    <3>2. Todo(q)' = {TripTask("revive", k.trip)}
      BY <2>2 DEF Todo
    <3>3. TripTask("revive", k.trip).do = "revive"
      BY DEF TripTask
    <3>4. Ordered(work'[q])
      BY <2>2 DEF Ordered
    <3> QED
      BY <1>4, <3>1, <3>2, <3>3, <3>4 DEF ListOK, Planning
  <2> QED
    BY <1>7, <2>1, <2>2
<1> QED
  BY <1>1, <1>2, <1>4, <1>5, <1>7, <1>8, <1>9 DEF ListInv, TypeInv

\* The steps of a request on its list.
Steps(q) ==
  \/ Drop(q) \/ Point(q) \/ Settle(q) \/ CloseTrip(q)
  \/ Pick(q) \/ OpenTrip(q) \/ Place(q)
  \/ PickedUp(q) \/ Deliver(q) \/ SettleDelivered(q) \/ Refresh(q) \/ PayBonus(q)
  \/ Save(q) \/ Assign(q) \/ Update(q) \/ Book(q) \/ Unbook(q)
  \/ CreateTrip(q) \/ InsertTrip(q) \/ AddToTrip(q) \/ CancelTrip(q)
  \/ NotCaught(q) \/ Revive(q) \/ Pickup(q)

LEMMA StepsAreSound == ASSUME TypeInv, NEW q \in Requests, Steps(q) PROVE Sound(q)
BY DropShape, PointShape, SettleShape, CloseShape, PickShape, OpenShape, PlaceShape, PickedUpShape,
   DeliverShape, SettleDeliveredShape, RefreshShape, PayBonusShape, SaveShape, AssignShape,
   UpdateShape, BookShape, UnbookShape, CreateShape, InsertShape, AddShape, CancelShape,
   NotCaughtShape, ReviveShape, PickupShape DEF Steps

LEMMA NextIs ==
  Next <=> \E q \in Requests : Calls(q) \/ Steps(q) \/ Fail(q)
BY DEF Next, Calls, Steps

LEMMA InitTypes == Init => TypeInv /\ ListInv
<1> SUFFICES ASSUME Init PROVE TypeInv /\ ListInv
  OBVIOUS
<1>1. work \in [Requests -> Seq(Tasks(Len(trips)))] /\ \A q \in Requests : work[q] = <<>>
  BY DEF Init
<1>2. ListInv
  BY <1>1 DEF ListInv, ListOK, Ordered, Todo
<1>3. past \in [calls : 0 .. MaxCalls, planners : SUBSET Requests, raced : BOOLEAN,
                tangled : BOOLEAN, cut : BOOLEAN]
  BY TripsAssumption DEF Init
<1>4. CASE Fresh
  <2>1. trips = <<>> /\ trips \in Seq(TripType) /\ Len(trips) = 0
    BY <1>4 DEF Fresh
  <2>2. Cooks \in RowType /\ NoStop \in [trip : 0 .. Len(trips), dropped : BOOLEAN]
    BY <2>1 DEF Cooks, RowType, Stages, Carriers, NoStop
  <2> QED
    BY <1>1, <1>2, <1>3, <1>4, <2>1, <2>2, TripsAssumption DEF Fresh, Init, TypeInv, DbType, NoStop
<1>5. ASSUME NEW r \in Riders, NEW os \in SUBSET Orders, NEW stage \in [os -> Stages \ {"cancelled"}],
             Riding(r, stage)
      PROVE  TypeInv /\ ListInv
  <2>1. DOMAIN stage = os
    OBVIOUS
  <2> DEFINE left == \E o \in os : stage[o] \in {"out_for_delivery", "delivered"}
             tr == [rider |-> r, status |-> IF left THEN "picked_up" ELSE "planned"]
             ride(o) == [trip |-> 1, status |-> stage[o], carrier |-> r]
             stop(o) == [trip |-> 1, dropped |-> stage[o] = "delivered"]
  <2>2. /\ rows = [o \in Orders |-> IF o \in os THEN ride(o) ELSE Cooks]
        /\ stops = [o \in Orders |-> IF o \in os THEN stop(o) ELSE NoStop]
        /\ trips = <<tr>>
        /\ free = [x \in Riders |-> x = r => \A o \in os : stage[o] \notin NeedsCarrier]
    BY <1>5, <2>1 DEF Riding
  <2>3. tr \in TripType
    BY DEF TripType, Active
  <2> HIDE DEF tr
  <2>4. trips \in Seq(TripType) /\ Len(trips) = 1
    BY <2>2, <2>3
  <2>5. \A o \in os : ride(o) \in RowType
    BY <1>5, <2>4 DEF RowType, Carriers
  <2>6. Cooks \in RowType
    BY <2>4 DEF Cooks, RowType, Stages, Carriers
  <2>7. \A o \in os : stop(o) \in [trip : 0 .. Len(trips), dropped : BOOLEAN] /\ stop(o).trip = 1
    BY <2>4
  <2>8. NoStop \in [trip : 0 .. Len(trips), dropped : BOOLEAN]
    BY <2>4 DEF NoStop
  <2> HIDE DEF ride, stop
  <2>9. rows \in [Orders -> RowType]
    BY <2>2, <2>5, <2>6
  <2>10. /\ stops \in [Orders -> [trip : 0 .. Len(trips), dropped : BOOLEAN]]
         /\ \A o \in Orders : stops[o].trip = 0 => stops[o] = NoStop
    BY <2>2, <2>7, <2>8
  <2>11. free \in [Riders -> BOOLEAN]
    BY <2>2
  <2>12. bonus \subseteq Orders \X (1 .. Len(trips))
    BY DEF Init
  <2>13. Len(trips) <= MaxTrips
    BY <2>4, TripsAssumption
  <2> QED
    BY <1>1, <1>2, <1>3, <2>4, <2>9, <2>10, <2>11, <2>12, <2>13 DEF TypeInv, DbType
<1> QED
  BY <1>4, <1>5 DEF Init

LEMMA NextTypes == TypeInv /\ ListInv /\ [Next]_vars => TypeInv' /\ ListInv'
<1> SUFFICES ASSUME TypeInv, ListInv, [Next]_vars PROVE TypeInv' /\ ListInv'
  OBVIOUS
<1>1. CASE UNCHANGED vars
  BY <1>1 DEF vars, db, TypeInv, ListInv, ListOK, Todo, DbType, RowType
<1>2. ASSUME NEW q \in Requests, Calls(q) PROVE TypeInv' /\ ListInv'
  BY <1>2, CallIs, CallKeepsLists
<1>3. ASSUME NEW q \in Requests, Steps(q) PROVE TypeInv' /\ ListInv'
  BY <1>3, StepsAreSound, SoundKeeps
<1>4. ASSUME NEW q \in Requests, Fail(q) PROVE TypeInv' /\ ListInv'
  BY <1>4, FailIs
<1> QED
  BY <1>1, <1>2, <1>3, <1>4, NextIs

\* Rows, trips and stops have their types at every moment.
THEOREM TypeCorrect == Spec => []TypeOK
<1>1. TypeInv => TypeOK
  <2> SUFFICES ASSUME TypeInv PROVE TypeOK
    OBVIOUS
  <2>1. Len(trips) \in Nat /\ Len(trips) <= MaxTrips /\ MaxTrips \in Nat
    BY TripsAssumption DEF TypeInv, DbType
  <2>2. 0 .. Len(trips) \subseteq 0 .. MaxTrips /\ 1 .. Len(trips) \subseteq 1 .. MaxTrips
    BY <2>1
  <2>3. rows \in [Orders -> [trip : 0 .. MaxTrips, status : Stages, carrier : Carriers]]
    <3>1. RowType \subseteq [trip : 0 .. MaxTrips, status : Stages, carrier : Carriers]
      BY <2>2 DEF RowType
    <3> QED
      BY <3>1 DEF TypeInv, DbType
  <2>4. stops \in [Orders -> [trip : 0 .. MaxTrips, dropped : BOOLEAN]]
    <3>1. [trip : 0 .. Len(trips), dropped : BOOLEAN] \subseteq [trip : 0 .. MaxTrips, dropped : BOOLEAN]
      BY <2>2
    <3> QED
      BY <3>1 DEF TypeInv, DbType
  <2>5. \A t \in DOMAIN trips : trips[t] \in [rider : Riders, status : Active \cup {"done", "cancelled"}]
    <3>1. \A t \in DOMAIN trips : trips[t] \in TripType
      BY DEF TypeInv, DbType
    <3> QED
      BY <3>1 DEF TripType
  <2>6. bonus \subseteq Orders \X (1 .. MaxTrips)
    BY <2>2 DEF TypeInv, DbType
  <2>7. free \in [Riders -> BOOLEAN] /\ past.calls \in 0 .. MaxCalls /\ past.planners \subseteq Requests
    BY DEF TypeInv, DbType
  <2> QED
    BY <2>1, <2>3, <2>4, <2>5, <2>6, <2>7 DEF TypeOK
<1> QED
  BY <1>1, InitTypes, NextTypes, PTL DEF Spec

----------------------------------------------------------------------------
(* What a step leaves to be done.                                          *)

\* A step that puts ts in the place of the first statement.
LEMMA NewTodo ==
  ASSUME TypeInv, DbType', Len(trips) <= Len(trips'), NEW q \in Requests, work[q] # <<>>,
         NEW ts \in Seq(Tasks(Len(trips'))), Then(q, ts)
  PROVE  /\ Todo(q)' = Elems(ts) \cup Later(q)
         /\ Head(work[q]) \in Tasks(Len(trips')) /\ Later(q) \subseteq Tasks(Len(trips'))
         /\ Todo(q) = {Head(work[q])} \cup Later(q)
         /\ \A p \in Requests \ {q} : work'[p] = work[p] /\ Todo(p)' = Todo(p)
<1> DEFINE n == Len(trips')
<1>1. n \in Nat /\ Len(trips) \in Nat
  BY DEF TypeInv, DbType
<1>2. Tasks(Len(trips)) \subseteq Tasks(n)
  BY <1>1, MoreTrips
<1>3. work \in [Requests -> Seq(Tasks(n))]
  <2>1. \A p \in Requests : work[p] \in Seq(Tasks(n))
    BY <1>2 DEF TypeInv
  <2> QED
    BY <2>1 DEF TypeInv
<1> HIDE DEF n
<1>4. /\ \A p \in Requests \ {q} : work'[p] = work[p]
      /\ Todo(q)' = {ts[i] : i \in 1 .. Len(ts)} \cup Later(q)
      /\ Head(work[q]) \in Tasks(n)
      /\ Todo(q) = {Head(work[q])} \cup Later(q)
      /\ Later(q) \subseteq Tasks(n)
  <2>1. ts \in Seq(Tasks(n))
    BY DEF n
  <2> QED
    <3>1. /\ work' \in [Requests -> Seq(Tasks(n))]
          /\ \A p \in Requests \ {q} : work'[p] = work[p]
          /\ Len(work'[q]) = Len(ts) + Len(work[q]) - 1
          /\ \A i \in 1 .. Len(ts) : work'[q][i] = ts[i]
          /\ \A i \in 2 .. Len(work[q]) : work'[q][i + Len(ts) - 1] = work[q][i]
          /\ Todo(q)' = {ts[i] : i \in 1 .. Len(ts)} \cup Later(q)
          /\ Head(work[q]) = work[q][1] /\ Head(work[q]) \in Tasks(n)
          /\ Todo(q) = {Head(work[q])} \cup Later(q)
          /\ Later(q) \subseteq Tasks(n)
      BY <1>1, <1>3, <2>1, Advanced
    <3> QED
      BY <3>1
<1>5. Elems(ts) = {ts[i] : i \in 1 .. Len(ts)}
  BY DEF Elems
<1> QED
  BY <1>4, <1>5 DEF n, Todo

\* A step: what is left was there, follows from the first statement, or revives
\* a trip.
LEMMA ShapeTodo ==
  ASSUME TypeInv, NEW q \in Requests, Sound(q)
  PROVE  /\ work[q] # <<>> /\ Head(work[q]) \in Todo(q) /\ Later(q) \subseteq Todo(q)
         /\ Todo(q) = {Head(work[q])} \cup Later(q)
         /\ Todo(q) \subseteq Tasks(Len(trips))
         /\ \A p \in Requests \ {q} : work'[p] = work[p] /\ Todo(p)' = Todo(p)
         /\ \A x \in Todo(q)' :
              \/ x \in Later(q)
              \/ x.do \in Follow(Head(work[q]).do)
              \/ \E k \in Todo(q) : k.do = "catch" /\ x = TripTask("revive", k.trip)
         /\ Throw(q) \/ Later(q) \subseteq Todo(q)'
         /\ past' = past
<1>1. work[q] # <<>> /\ DbType' /\ Len(trips) <= Len(trips') /\ past' = past
  BY DEF Sound, Shape
<1>2. work \in [Requests -> Seq(Tasks(Len(trips)))] /\ Len(trips) \in Nat
  BY DEF TypeInv, DbType
<1>3. /\ Head(work[q]) = work[q][1] /\ DOMAIN work[q] = {1} \cup (2 .. Len(work[q]))
      /\ work[q] \in Seq(Tasks(Len(trips)))
  BY <1>1, <1>2
<1>4. /\ Head(work[q]) \in Todo(q) /\ Later(q) \subseteq Todo(q)
      /\ Todo(q) = {Head(work[q])} \cup Later(q)
      /\ Todo(q) \subseteq Tasks(Len(trips))
  BY <1>3 DEF Todo, Later
<1>5. CASE Throw(q)
  <2>1. /\ \A p \in Requests \ {q} : work'[p] = work[p]
        /\ \/ work'[q] = <<>>
           \/ \E k \in Todo(q) : k.do = "catch" /\ work'[q] = <<TripTask("revive", k.trip)>>
    <3> DEFINE n == Len(trips)
    <3>1. work \in [Requests -> Seq(Tasks(n))] /\ n \in Nat
      BY <1>2
    <3> HIDE DEF n
    <3> QED
      BY <1>5, <3>1, Thrown
  <2>2. \A x \in Todo(q)' : \E k \in Todo(q) : k.do = "catch" /\ x = TripTask("revive", k.trip)
    BY <2>1 DEF Todo
  <2> QED
    BY <1>1, <1>4, <1>5, <2>1, <2>2 DEF Todo
<1>6. ASSUME NEW ts \in Seq(Tasks(Len(trips'))), Then(q, ts),
             \A i \in 1 .. Len(ts) : ts[i].do \in Follow(Head(work[q]).do)
      PROVE  /\ \A p \in Requests \ {q} : work'[p] = work[p] /\ Todo(p)' = Todo(p)
             /\ \A x \in Todo(q)' : x \in Later(q) \/ x.do \in Follow(Head(work[q]).do)
             /\ Later(q) \subseteq Todo(q)'
  <2>1. /\ \A p \in Requests \ {q} : work'[p] = work[p] /\ Todo(p)' = Todo(p)
        /\ Todo(q)' = Elems(ts) \cup Later(q)
    BY <1>1, <1>6, NewTodo
  <2>2. \A x \in Elems(ts) : x.do \in Follow(Head(work[q]).do)
    BY <1>6 DEF Elems
  <2> QED
    BY <2>1, <2>2
<1> QED
  BY <1>1, <1>4, <1>5, <1>6 DEF Sound, Shape

\* attachToTrip's choice.
LEMMA PickList ==
  ASSUME TypeInv, NEW q \in Requests, Pick(q)
  PROVE  LET k == Head(work[q]) IN
           /\ k \in Tasks(Len(trips)) /\ k.do = "pick"
           /\ k.order \in Orders /\ k.rider \in Riders /\ k.trip \in 0 .. Len(trips)
           /\ \/ /\ Throw(q) /\ k.trip # 0
                 /\ ~ (trips[k.trip].rider = k.rider /\ trips[k.trip].status = "planned")
              \/ \E t \in 1 .. Len(trips) :
                   /\ trips[t].rider = k.rider /\ trips[t].status = "planned"
                   /\ k.trip # 0 => t = k.trip
                   /\ Task("place", k.order, k.rider, t) \in Tasks(Len(trips))
                   /\ Then(q, <<Task("place", k.order, k.rider, t)>>)
              \/ /\ k.trip = 0
                 /\ Task("open", k.order, k.rider, 0) \in Tasks(Len(trips))
                 /\ Then(q, <<Task("open", k.order, k.rider, 0)>>)
<1> DEFINE k == Head(work[q])
           n == Len(trips)
           r == Room(k.rider)
           first == CHOOSE t \in r : \A u \in r : t <= u
<1>1. work[q] # <<>> /\ k.do = "pick" /\ k \in Tasks(n) /\ n \in Nat
  BY AtHand DEF Pick, Runs
<1>2. k.order \in Orders /\ k.rider \in Riders /\ k.trip \in 0 .. n
  BY <1>1, TaskFields
<1>3. ASSUME NEW t \in 1 .. n PROVE Task("place", k.order, k.rider, t) \in Tasks(n)
  BY <1>1, <1>2, <1>3 DEF Task, Tasks, OrderTasks
<1>4. Task("open", k.order, k.rider, 0) \in Tasks(n)
  BY <1>1, <1>2 DEF Task, Tasks, OrderTasks
<1>5. r \subseteq 1 .. n /\ \A t \in r : trips[t].rider = k.rider /\ trips[t].status = "planned"
  BY DEF Room, TypeInv, DbType
<1>6. CASE k.trip # 0
  <2>1. IF trips[k.trip].rider = k.rider /\ trips[k.trip].status = "planned"
        THEN Then(q, <<Task("place", k.order, k.rider, k.trip)>>) ELSE Throw(q)
    BY <1>6 DEF Pick
  <2>2. k.trip \in 1 .. n
    BY <1>1, <1>2, <1>6
  <2> QED
    BY <1>1, <1>2, <1>3, <1>6, <2>1, <2>2
<1>7. CASE k.trip = 0 /\ r # {}
  <2>1. Then(q, <<Task("place", k.order, k.rider, first)>>)
    BY <1>7 DEF Pick
  <2>2. first \in r
    BY <1>2, <1>7, RoomHas, Zenon
  <2> HIDE DEF r, first
  <2> QED
    BY <1>1, <1>2, <1>3, <1>5, <1>7, <2>1, <2>2
<1>8. CASE k.trip = 0 /\ r = {}
  BY <1>1, <1>2, <1>4, <1>8 DEF Pick
<1> QED
  BY <1>6, <1>7, <1>8

----------------------------------------------------------------------------
(* The batch bonus.                                                        *)

Paid(t) == \E b \in bonus : b[2] = t

\* Statements that lead to a stop, a trip on its way again, or a bonus.
Guarded == {"place", "last", "cancel", "catch", "revive", "bonus"}

\* One request is under way.
Single == \A p, q \in Requests : work[p] # <<>> /\ work[q] # <<>> => p = q

\* A bonus that is about to be paid: the trip is over, or is about to be closed.
Earned(q, t) ==
  /\ Undropped(t) = {}
  /\ trips[t].status \in Active => \E y \in Todo(q) : y.do = "close" /\ y.trip = t

\* Without a race a trip that was paid for is over, and nothing is under way
\* that would pay for it again.
BonusInv ==
  ~ past.raced =>
    /\ Single
    /\ \A b, c \in bonus : b[2] = c[2] => b = c
    /\ \A t \in DOMAIN trips : Paid(t) => trips[t].status \notin Active /\ Undropped(t) = {}
    /\ \A q \in Requests : \A x \in Todo(q) :
         /\ x.do \in Guarded => ~ Paid(x.trip)
         /\ x.do = "bonus" => Earned(q, x.trip)

\* The stops of the trips that were paid for.
LEMMA SingleKept ==
  ASSUME TypeInv, Single, NEW q \in Requests, Sound(q)
  PROVE  Single' /\ \A p \in Requests \ {q} : work[p] = <<>> /\ work'[p] = <<>> /\ Todo(p)' = {}
<1>1. work[q] # <<>> /\ \A p \in Requests \ {q} : work'[p] = work[p]
  BY ShapeTodo
<1>2. \A p \in Requests \ {q} : work[p] = <<>>
  BY <1>1 DEF Single
<1> QED
  BY <1>1, <1>2 DEF Single, Todo

\* A step that pays nothing: it suffices that paid trips stay over, that its
\* new statements lead to no paid trip, and that bonuses stay earned.
LEMMA NothingPaid ==
  ASSUME TypeInv, BonusInv, ~ past.raced, NEW q \in Requests, Sound(q), bonus' = bonus,
         \A t \in DOMAIN trips : Paid(t) => trips'[t].status \notin Active /\ Undropped(t)' = {},
         \A x \in Todo(q)' \ Later(q) :
            x.do \in Follow(Head(work[q]).do) \cap Guarded => ~ Paid(x.trip),
         \A x \in Todo(q)' : x.do = "bonus" => Earned(q, x.trip)'
  PROVE  BonusInv'
<1>1. Single' /\ \A p \in Requests \ {q} : Todo(p)' = {}
  BY SingleKept DEF BonusInv
<1>2. \A b, c \in bonus' : b[2] = c[2] => b = c
  BY DEF BonusInv
<1>3. \A t : Paid(t)' <=> Paid(t)
  BY DEF Paid
<1>4. ASSUME NEW t \in DOMAIN trips', Paid(t)'
      PROVE  trips'[t].status \notin Active /\ Undropped(t)' = {}
  <2>1. t \in DOMAIN trips
    BY <1>4 DEF Paid, TypeInv, DbType
  <2> QED
    BY <1>3, <1>4, <2>1
<1>5. ASSUME NEW x \in Todo(q)', x.do \in Guarded PROVE ~ Paid(x.trip)
  <2>1. \/ x \in Later(q)
        \/ x.do \in Follow(Head(work[q]).do)
        \/ \E k \in Todo(q) : k.do = "catch" /\ x = TripTask("revive", k.trip)
    BY ShapeTodo
  <2>2. CASE x \in Later(q)
    BY <1>5, <2>2, ShapeTodo DEF BonusInv
  <2>3. CASE x \notin Later(q) /\ x.do \in Follow(Head(work[q]).do)
    BY <1>5, <2>3
  <2>4. ASSUME NEW k \in Todo(q), k.do = "catch", x = TripTask("revive", k.trip)
        PROVE  ~ Paid(x.trip)
    <3>1. x.trip = k.trip
      BY <2>4 DEF TripTask
    <3> QED
      BY <2>4, <3>1 DEF BonusInv, Guarded
  <2> QED
    BY <2>1, <2>2, <2>3, <2>4
<1> QED
  BY <1>1, <1>2, <1>3, <1>4, <1>5 DEF BonusInv

\* No bonus stands behind most statements.
LEMMA NoBonusAhead ==
  ASSUME TypeInv, ListInv, NEW q \in Requests, Sound(q),
         Head(work[q]).do \notin {"close", "refresh", "last"}
  PROVE  \A x \in Todo(q)' : x.do # "bonus"
<1>1. work[q] # <<>> /\ Len(trips) \in Nat /\ Ordered(work[q])
      /\ work \in [Requests -> Seq(Tasks(Len(trips)))]
  BY ShapeTodo DEF TypeInv, DbType, ListInv, ListOK
<1>2. ASSUME NEW x \in Later(q) PROVE x.do # "bonus"
  <2>1. Head(work[q]).do \in Before(x.do)
    BY <1>1, Behind
  <2> QED
    BY <2>1 DEF Before
<1>3. Head(work[q]).do \in Dos
  BY <1>1, AtHand, KnownDos
<1>4. "bonus" \notin Follow(Head(work[q]).do)
  BY <1>3 DEF Follow, Dos, Planning, Moving, Shared
<1>5. \A k : TripTask("revive", k.trip).do # "bonus"
  BY DEF TripTask
<1> QED
  BY <1>2, <1>4, <1>5, ShapeTodo

\* Stops that are taken away or dropped.
LEMMA StopsShrink ==
  ASSUME NEW t, \A o \in Orders : stops'[o] = stops[o] \/ stops'[o].trip # t
                                  \/ (stops[o].trip = t /\ stops'[o].dropped)
  PROVE  Undropped(t)' \subseteq Undropped(t)
BY DEF Undropped, On

\* Steps after which no trip is more alive than before.
LEMMA QuietBonus ==
  ASSUME TypeInv, ListInv, BonusInv, ~ past.raced, NEW q \in Requests, Sound(q), bonus' = bonus,
         Head(work[q]).do \notin {"close", "refresh", "last"},
         \A t \in DOMAIN trips : Paid(t) => trips'[t].status \notin Active /\ Undropped(t)' = {},
         \A x \in Todo(q)' \ Later(q) :
            x.do \in Follow(Head(work[q]).do) \cap Guarded => ~ Paid(x.trip)
  PROVE  BonusInv'
BY NoBonusAhead, NothingPaid

\* Steps that touch neither stops nor trips, and whose new statements are harmless.
LEMMA IdleBonus ==
  ASSUME TypeInv, ListInv, BonusInv, ~ past.raced, NEW q \in Requests, Sound(q),
         UNCHANGED <<stops, trips, bonus>>,
         Head(work[q]).do \notin {"close", "refresh", "last"},
         \A x \in Todo(q)' \ Later(q) :
            x.do \in Follow(Head(work[q]).do) \cap Guarded => ~ Paid(x.trip)
  PROVE  BonusInv'
<1>1. \A t \in DOMAIN trips : Paid(t) => trips'[t].status \notin Active /\ Undropped(t)' = {}
  BY DEF BonusInv, Undropped, On
<1> QED
  BY <1>1, QuietBonus

\* Statements that put nothing guarded in their place.
Harmless == {"point", "settle", "drop", "save", "assign", "update", "book", "unbook", "create",
             "insert", "leave", "pickup", "catch", "revive", "cancel", "place", "refresh", "close"}

LEMMA HarmlessFollow ==
  ASSUME NEW d \in Harmless PROVE Follow(d) \cap Guarded = {}
BY DEF Harmless, Follow, Guarded

LEMMA PlainSteps ==
  ASSUME TypeInv, ListInv, BonusInv, ~ past.raced, NEW q \in Requests,
         \/ Point(q) \/ Settle(q) \/ Save(q) \/ Assign(q) \/ Update(q) \/ Book(q) \/ Unbook(q)
         \/ CreateTrip(q) \/ Pickup(q) \/ NotCaught(q)
  PROVE  BonusInv'
<1>1. Sound(q)
  BY StepsAreSound DEF Steps
<1>2. UNCHANGED <<stops, trips, bonus>>
  <2>1. CASE Point(q)
    BY <2>1, Zenon DEF Point
  <2>2. CASE Settle(q) \/ Save(q) \/ Assign(q)
    BY <2>2, Zenon DEF Settle, Save, Assign, db
  <2>3. CASE Update(q) \/ Pickup(q) \/ NotCaught(q)
    BY <2>3, Zenon DEF Update, Pickup, NotCaught, db
  <2>4. CASE Book(q) \/ Unbook(q) \/ CreateTrip(q)
    BY <2>4, Zenon DEF Book, Unbook, CreateTrip, db
  <2> QED
    BY <2>1, <2>2, <2>3, <2>4
<1>3. Head(work[q]).do \in {"point", "settle", "save", "assign", "update", "book", "unbook",
                            "create", "pickup", "catch"}
  BY Zenon DEF Runs, Point, Settle, Save, Assign, Update, Book, Unbook, CreateTrip, Pickup, NotCaught
<1>4. Head(work[q]).do \in Harmless /\ Head(work[q]).do \notin {"close", "refresh", "last"}
  BY <1>3 DEF Harmless
<1> QED
  BY <1>1, <1>2, <1>4, HarmlessFollow, IdleBonus

LEMMA RefreshBonus ==
  ASSUME TypeInv, ListInv, BonusInv, ~ past.raced, NEW q \in Requests, Refresh(q)
  PROVE  BonusInv'
<1> DEFINE k == Head(work[q])
<1>1. Sound(q) /\ k.do = "refresh" /\ UNCHANGED <<stops, trips, bonus>> /\ Then(q, <<>>)
  BY StepsAreSound DEF Steps, Refresh, Runs
<1>2. Todo(q)' = Later(q) /\ Todo(q) = {k} \cup Later(q) /\ Later(q) \subseteq Todo(q)
  <2>1. DbType' /\ Len(trips) <= Len(trips') /\ work[q] # <<>> /\ Len(trips') \in Nat
    BY <1>1 DEF Sound, Shape, DbType, TypeInv
  <2>2. <<>> \in Seq(Tasks(Len(trips'))) /\ Elems(<<>>) = {}
    BY <2>1, ShortLists
  <2> QED
    BY <1>1, <2>1, <2>2, NewTodo
<1>3. \A t \in DOMAIN trips : Paid(t) => trips'[t].status \notin Active /\ Undropped(t)' = {}
  BY <1>1 DEF BonusInv, Undropped, On
<1>4. ASSUME NEW x \in Todo(q)', x.do = "bonus" PROVE Earned(q, x.trip)'
  <2>1. Earned(q, x.trip)
    BY <1>2, <1>4 DEF BonusInv
  <2>2. \A y \in Todo(q) : y.do = "close" => y \in Todo(q)'
    BY <1>1, <1>2
  <2>3. Undropped(x.trip)' = Undropped(x.trip)
    BY <1>1 DEF Undropped, On
  <2> QED
    BY <1>1, <2>1, <2>2, <2>3 DEF Earned
<1>5. \A x \in Todo(q)' \ Later(q) : x.do \in Follow(k.do) \cap Guarded => ~ Paid(x.trip)
  BY <1>2
<1> QED
  BY <1>1, <1>3, <1>4, <1>5, NothingPaid

\* The first statement is done, nothing comes in its place.
LEMMA OneDone ==
  ASSUME TypeInv, NEW q \in Requests, Sound(q), Then(q, <<>>)
  PROVE  /\ Todo(q)' = Later(q) /\ Todo(q) = {Head(work[q])} \cup Later(q)
         /\ Head(work[q]) \in Tasks(Len(trips)) /\ work[q] # <<>>
<1>1. DbType' /\ Len(trips) <= Len(trips') /\ work[q] # <<>> /\ Len(trips') \in Nat
  BY DEF Sound, Shape, DbType
<1>2. <<>> \in Seq(Tasks(Len(trips'))) /\ Elems(<<>>) = {}
  BY <1>1, ShortLists
<1> QED
  BY <1>1, <1>2, NewTodo, AtHand

LEMMA CloseBonus ==
  ASSUME TypeInv, ListInv, BonusInv, ~ past.raced, NEW q \in Requests, CloseTrip(q)
  PROVE  BonusInv'
<1> DEFINE k == Head(work[q])
<1>1. Sound(q) /\ k.do = "close" /\ UNCHANGED <<rows, stops, free, bonus>> /\ Then(q, <<>>)
  BY StepsAreSound DEF Steps, CloseTrip, Runs
<1>2. Todo(q)' = Later(q) /\ Todo(q) = {k} \cup Later(q) /\ k \in Tasks(Len(trips))
  BY <1>1, OneDone
<1>0. Len(trips) \in Nat /\ DOMAIN trips = 1 .. Len(trips)
  BY DEF TypeInv, DbType
<1>3. k.trip \in 1 .. Len(trips) /\ k.to \in {"done", "cancelled"}
  BY <1>0, <1>1, <1>2, TaskFields
<1>4. \/ trips' = trips /\ trips[k.trip].status \notin Active
      \/ trips' = [trips EXCEPT ![k.trip].status = k.to]
  BY DEF CloseTrip
<1>5. /\ \A u \in DOMAIN trips \ {k.trip} : trips'[u] = trips[u]
      /\ trips' # trips => trips'[k.trip].status = k.to
  BY <1>1, <1>3, <1>4, TripChanges
<1>6. trips'[k.trip].status \notin Active
  <2>1. CASE trips' = trips
    <3>1. CASE trips[k.trip].status \notin Active
      BY <2>1, <3>1
    <3>2. CASE trips' = [trips EXCEPT ![k.trip].status = k.to]
      <4>1. k.trip \in DOMAIN trips /\ trips[k.trip] \in TripType
        BY <1>3 DEF TypeInv, DbType
      <4>2. trips'[k.trip].status = k.to
        BY <3>2, <4>1 DEF TripType
      <4> QED
        BY <1>3, <4>2 DEF Active
    <3> QED
      BY <1>4, <3>1, <3>2
  <2>2. CASE trips' # trips
    BY <1>3, <1>5, <2>2 DEF Active
  <2> QED
    BY <2>1, <2>2
<1>7. \A t \in DOMAIN trips : trips'[t].status \in Active => trips[t].status \in Active /\ t # k.trip
  BY <1>5, <1>6
<1>8. \A t : Undropped(t)' = Undropped(t)
  BY <1>1 DEF Undropped, On
<1>9. ASSUME NEW x \in Todo(q)', x.do = "bonus" PROVE Earned(q, x.trip)'
  <2>1. Earned(q, x.trip) /\ x \in Tasks(Len(trips))
    BY <1>1, <1>2, <1>9, ShapeTodo DEF BonusInv
  <2>2. x.trip \in DOMAIN trips
    BY <1>0, <1>9, <2>1, TaskFields
  <2>3. CASE trips'[x.trip].status \in Active
    <3>1. PICK y \in Todo(q) : y.do = "close" /\ y.trip = x.trip
      BY <1>7, <2>1, <2>2, <2>3 DEF Earned
    <3>2. y \in Todo(q)'
      BY <1>2, <1>7, <2>2, <2>3, <3>1
    <3> QED
      BY <1>8, <2>1, <3>1, <3>2 DEF Earned
  <2>4. CASE trips'[x.trip].status \notin Active
    BY <1>8, <2>1, <2>4 DEF Earned
  <2> QED
    BY <2>3, <2>4
<1>10. \A t \in DOMAIN trips : Paid(t) => trips'[t].status \notin Active /\ Undropped(t)' = {}
  BY <1>7, <1>8 DEF BonusInv
<1>11. \A x \in Todo(q)' \ Later(q) : x.do \in Follow(k.do) \cap Guarded => ~ Paid(x.trip)
  BY <1>2
<1> QED
  BY <1>1, <1>9, <1>10, <1>11, NothingPaid

\* A trip that is not paid for changes, or one is closed.
LEMMA TripBonus ==
  ASSUME TypeInv, ListInv, BonusInv, ~ past.raced, NEW q \in Requests, Sound(q),
         UNCHANGED <<stops, bonus>>, Head(work[q]).do \in Harmless \ {"close", "refresh"},
         \A t \in DOMAIN trips : Paid(t) => trips'[t] = trips[t] \/ trips'[t].status \notin Active
  PROVE  BonusInv'
<1>1. \A t \in DOMAIN trips : Paid(t) => trips'[t].status \notin Active /\ Undropped(t)' = {}
  BY DEF BonusInv, Undropped, On
<1>2. Head(work[q]).do \notin {"close", "refresh", "last"} /\ Head(work[q]).do \in Harmless
  BY DEF Harmless
<1> QED
  BY <1>1, <1>2, HarmlessFollow, QuietBonus

LEMMA LeaveBonus ==
  ASSUME TypeInv, ListInv, BonusInv, ~ past.raced, NEW q \in Requests, PickedUp(q)
  PROVE  BonusInv'
<1>1. Sound(q) /\ Head(work[q]).do = "leave"
  BY StepsAreSound, Zenon DEF Steps, PickedUp, Runs
<1>2. Head(work[q]).do \in Harmless \ {"close", "refresh"}
  BY <1>1 DEF Harmless
<1>3. /\ UNCHANGED <<stops, bonus>>
      /\ \A t \in DOMAIN trips : trips[t].status \notin Active => trips'[t] = trips[t]
  BY Leaves
<1>4. \A t \in DOMAIN trips : Paid(t) => trips'[t] = trips[t] \/ trips'[t].status \notin Active
  BY <1>3 DEF BonusInv
<1> QED
  BY <1>1, <1>2, <1>3, <1>4, TripBonus

LEMMA CancelBonus ==
  ASSUME TypeInv, ListInv, BonusInv, ~ past.raced, NEW q \in Requests, CancelTrip(q) \/ Revive(q)
  PROVE  BonusInv'
<1> DEFINE k == Head(work[q])
<1>1. Sound(q) /\ k.do \in {"cancel", "revive"} /\ UNCHANGED <<rows, stops, free, bonus>>
  BY StepsAreSound DEF Steps, CancelTrip, Revive, Runs
<1>0. k \in Todo(q) /\ k \in Tasks(Len(trips)) /\ Len(trips) \in Nat
  BY <1>1, ShapeTodo, AtHand
<1>2. k \in Todo(q) /\ k.trip \in 1 .. Len(trips)
  BY <1>0, <1>1, TaskFields
<1>3. ~ Paid(k.trip)
  BY <1>1, <1>2 DEF BonusInv, Guarded
<1>4. \A t \in DOMAIN trips \ {k.trip} : trips'[t] = trips[t]
  <2>1. \E s \in Active \cup {"done", "cancelled"} :
           trips' = trips \/ trips' = [trips EXCEPT ![k.trip].status = s]
    BY DEF CancelTrip, Revive, Active
  <2> QED
    BY <1>1, <1>2, <2>1, TripChanges
<1>5. \A t \in DOMAIN trips : Paid(t) => trips'[t] = trips[t] \/ trips'[t].status \notin Active
  BY <1>3, <1>4
<1> QED
  BY <1>1, <1>5, TripBonus, Zenon DEF Harmless

LEMMA InsertBonus ==
  ASSUME TypeInv, ListInv, BonusInv, ~ past.raced, NEW q \in Requests, InsertTrip(q)
  PROVE  BonusInv'
<1>1. Sound(q) /\ Head(work[q]).do = "insert" /\ UNCHANGED <<rows, stops, free, bonus>>
  BY StepsAreSound DEF Steps, InsertTrip, Runs
<1>2. \A t \in DOMAIN trips : trips'[t] = trips[t]
  BY InsertList
<1> QED
  BY <1>1, <1>2, TripBonus DEF Harmless

LEMMA OpenBonus ==
  ASSUME TypeInv, ListInv, BonusInv, ~ past.raced, NEW q \in Requests, OpenTrip(q)
  PROVE  BonusInv'
<1> DEFINE k == Head(work[q])
           n == Len(trips)
           x == [k EXCEPT !.do = "place", !.trip = n + 1]
<1>1. Sound(q) /\ k.do = "open" /\ UNCHANGED <<rows, stops, free, bonus>>
  BY StepsAreSound DEF Steps, OpenTrip, Runs
<1>2. work[q] # <<>> /\ k \in Tasks(n) /\ n \in Nat
  BY <1>1, AtHand, ShapeTodo
<1>3. k \in [do : {k.do}, order : Orders, rider : Riders, trip : 0 .. n]
  BY <1>1, <1>2, TaskFields
<1>4. /\ Then(q, <<x>>) /\ DbType' /\ Len(trips') = n + 1
      /\ \A t \in DOMAIN trips : trips'[t] = trips[t]
  BY <1>3, TripAdded DEF OpenTrip
<1>5. x \in Tasks(n + 1) /\ x.trip = n + 1
  <2>1. k.order \in Orders /\ k.rider \in Riders /\ n + 1 \in 1 .. n + 1
    BY <1>2, <1>3
  <2>2. k = [do |-> k.do, order |-> k.order, rider |-> k.rider, trip |-> k.trip]
    BY <1>3
  <2>3. [k EXCEPT !.do = "place"]
          = [do |-> "place", order |-> k.order, rider |-> k.rider, trip |-> k.trip]
    BY <2>2
  <2>4. [[do |-> "place", order |-> k.order, rider |-> k.rider, trip |-> k.trip]
           EXCEPT !.trip = n + 1]
          = [do |-> "place", order |-> k.order, rider |-> k.rider, trip |-> n + 1]
    OBVIOUS
  <2>5. x = [do |-> "place", order |-> k.order, rider |-> k.rider, trip |-> n + 1]
    BY <2>3, <2>4, Zenon
  <2>6. /\ x \in [do : {"add", "place"}, order : Orders, rider : Riders, trip : 1 .. n + 1]
        /\ x.trip = n + 1
    BY <2>1, <2>5
  <2> QED
    BY <2>6 DEF Tasks, OrderTasks
<1> HIDE DEF x
<1>6. Todo(q)' = {x} \cup Later(q)
  <2>1. <<x>> \in Seq(Tasks(Len(trips'))) /\ Elems(<<x>>) = {x} /\ Len(trips) <= Len(trips')
    BY <1>2, <1>4, <1>5, ShortLists
  <2> QED
    BY <1>2, <1>4, <2>1, NewTodo
<1>7. ~ Paid(n + 1)
  BY <1>2 DEF Paid, TypeInv, DbType
<1>8. \A t \in DOMAIN trips : Paid(t) => trips'[t].status \notin Active /\ Undropped(t)' = {}
  BY <1>1, <1>4 DEF BonusInv, Undropped, On
<1>9. \A y \in Todo(q)' \ Later(q) : y.do \in Follow(k.do) \cap Guarded => ~ Paid(y.trip)
  BY <1>5, <1>6, <1>7
<1> QED
  BY <1>1, <1>8, <1>9, QuietBonus

LEMMA PickBonus ==
  ASSUME TypeInv, ListInv, BonusInv, ~ past.raced, NEW q \in Requests, Pick(q)
  PROVE  BonusInv'
<1> DEFINE k == Head(work[q])
           n == Len(trips)
<1>1. Sound(q) /\ k.do = "pick" /\ UNCHANGED <<stops, trips, bonus>>
  BY StepsAreSound DEF Steps, Pick, Runs, db
<1>2. work[q] # <<>> /\ k \in Tasks(n) /\ n \in Nat /\ DbType' /\ Len(trips') = n
  BY <1>1, AtHand, ShapeTodo DEF Sound
<1>3. \/ Throw(q)
      \/ \E y \in Tasks(n) : Then(q, <<y>>) /\ (y.do = "place" => ~ Paid(y.trip))
  <2>1. \A o, r, t : /\ Task("place", o, r, t).do = "place" /\ Task("place", o, r, t).trip = t
                     /\ Task("open", o, r, t).do = "open"
    BY DEF Task
  <2>2. ASSUME NEW t \in 1 .. n, trips[t].status = "planned" PROVE ~ Paid(t)
    <3>1. t \in DOMAIN trips
      BY DEF TypeInv, DbType
    <3> QED
      BY <2>2, <3>1 DEF BonusInv, Active
  <2>3. \/ Throw(q)
        \/ \E t \in 1 .. n : /\ trips[t].status = "planned"
                             /\ Task("place", k.order, k.rider, t) \in Tasks(n)
                             /\ Then(q, <<Task("place", k.order, k.rider, t)>>)
        \/ /\ Task("open", k.order, k.rider, 0) \in Tasks(n)
           /\ Then(q, <<Task("open", k.order, k.rider, 0)>>)
    BY PickList, Zenon
  <2>4. ASSUME NEW t \in 1 .. n, trips[t].status = "planned",
               Task("place", k.order, k.rider, t) \in Tasks(n),
               Then(q, <<Task("place", k.order, k.rider, t)>>)
        PROVE  \E y \in Tasks(n) : Then(q, <<y>>) /\ (y.do = "place" => ~ Paid(y.trip))
    <3>1. Task("place", k.order, k.rider, t).trip = t /\ ~ Paid(t)
      BY <2>1, <2>2, <2>4
    <3> QED
      BY <2>4, <3>1, Zenon
  <2>5. ASSUME Task("open", k.order, k.rider, 0) \in Tasks(n),
               Then(q, <<Task("open", k.order, k.rider, 0)>>)
        PROVE  \E y \in Tasks(n) : Then(q, <<y>>) /\ (y.do = "place" => ~ Paid(y.trip))
    <3>1. Task("open", k.order, k.rider, 0).do # "place"
      BY <2>1
    <3> QED
      BY <2>5, <3>1, Zenon
  <2> QED
    BY <2>3, <2>4, <2>5, Zenon
<1>4. \A y \in Todo(q)' \ Later(q) : y.do \in Follow(k.do) \cap Guarded => ~ Paid(y.trip)
  <2>1. Follow(k.do) \cap Guarded = {"place"}
    BY <1>1 DEF Follow, Guarded
  <2>2. CASE Throw(q)
    <3>1. work \in [Requests -> Seq(Tasks(n))]
      BY DEF TypeInv
    <3>2. \/ work'[q] = <<>>
          \/ \E x \in Todo(q) : x.do = "catch" /\ work'[q] = <<TripTask("revive", x.trip)>>
      BY <1>2, <2>2, <3>1, Thrown
    <3>3. \A y \in Todo(q)' : \E x : y = TripTask("revive", x)
      BY <3>2 DEF Todo
    <3>4. \A x : TripTask("revive", x).do = "revive"
      BY DEF TripTask
    <3> QED
      BY <2>1, <3>3, <3>4
  <2>3. ASSUME NEW y \in Tasks(n), Then(q, <<y>>), y.do = "place" => ~ Paid(y.trip)
        PROVE  \A x \in Todo(q)' \ Later(q) : x.do \in Follow(k.do) \cap Guarded => ~ Paid(x.trip)
    <3> DEFINE ts == <<y>>
    <3>1. ts \in Seq(Tasks(Len(trips'))) /\ Elems(ts) = {y} /\ Len(trips) <= Len(trips') /\ Then(q, ts)
      BY <1>2, <2>3, ShortLists
    <3> HIDE DEF ts
    <3>2. Todo(q)' = {y} \cup Later(q)
      BY <1>2, <3>1, NewTodo
    <3> QED
      BY <2>1, <2>3, <3>2
  <2> QED
    BY <1>3, <2>2, <2>3
<1> QED
  BY <1>1, <1>4, IdleBonus

\* Stops are taken away, dropped, or go to a trip that is not paid for.
LEMMA StopBonus ==
  ASSUME TypeInv, ListInv, BonusInv, ~ past.raced, NEW q \in Requests, Sound(q),
         UNCHANGED <<trips, bonus>>, Head(work[q]).do \notin {"close", "refresh", "last"},
         \A t \in DOMAIN trips : Paid(t) =>
            \A o \in Orders : stops'[o] = stops[o] \/ stops'[o].trip # t
                              \/ (stops[o].trip = t /\ stops'[o].dropped),
         \A x \in Todo(q)' \ Later(q) :
            x.do \in Follow(Head(work[q]).do) \cap Guarded => ~ Paid(x.trip)
  PROVE  BonusInv'
<1>1. ASSUME NEW t \in DOMAIN trips, Paid(t)
      PROVE  trips'[t].status \notin Active /\ Undropped(t)' = {}
  <2>1. Undropped(t)' \subseteq Undropped(t)
    BY <1>1, StopsShrink
  <2> QED
    BY <1>1, <2>1 DEF BonusInv
<1> QED
  BY <1>1, QuietBonus

LEMMA DropBonus ==
  ASSUME TypeInv, ListInv, BonusInv, ~ past.raced, NEW q \in Requests, Drop(q)
  PROVE  BonusInv'
<1>1. Sound(q) /\ Head(work[q]).do = "drop" /\ UNCHANGED <<trips, bonus>>
  BY StepsAreSound DEF Steps, Drop, Runs
<1>2. Head(work[q]).do \in Harmless /\ Head(work[q]).do \notin {"close", "refresh", "last"}
  BY <1>1 DEF Harmless
<1>3. \A t \in DOMAIN trips, o \in Orders : stops'[o] = stops[o] \/ stops'[o].trip # t
  <2>1. stops' = [stops EXCEPT ![Head(work[q]).order] = NoStop]
    BY DEF Drop
  <2>2. \A t \in DOMAIN trips : NoStop.trip # t
    BY DEF TypeInv, DbType, NoStop
  <2> QED
    BY <2>1, <2>2 DEF TypeInv, DbType
<1> QED
  BY <1>1, <1>2, <1>3, HarmlessFollow, StopBonus

LEMMA PlaceBonus ==
  ASSUME TypeInv, ListInv, BonusInv, ~ past.raced, NEW q \in Requests, Place(q)
  PROVE  BonusInv'
<1> DEFINE k == Head(work[q])
<1>1. Sound(q) /\ k.do = "place" /\ UNCHANGED <<trips, bonus>>
  BY StepsAreSound DEF Steps, Place, Runs
<1>2. k \in Todo(q) /\ k \in Tasks(Len(trips)) /\ Len(trips) \in Nat
  BY <1>1, ShapeTodo, AtHand
<1>3. ~ Paid(k.trip) /\ k.order \in Orders
  BY <1>1, <1>2, TaskFields DEF BonusInv, Guarded
<1>4. k.do \in Harmless /\ k.do \notin {"close", "refresh", "last"}
  BY <1>1 DEF Harmless
<1>5. \A o \in Orders : stops'[o] = stops[o] \/ stops'[o].trip = k.trip
  <2>1. CASE stops[k.order] # NoStop
    BY <2>1 DEF Place
  <2>2. CASE stops[k.order] = NoStop
    <3>1. stops' = [stops EXCEPT ![k.order] = [stops[k.order] EXCEPT !.trip = k.trip]]
      BY <2>2 DEF Place
    <3>2. [NoStop EXCEPT !.trip = k.trip].trip = k.trip
      BY DEF NoStop
    <3>3. [stops[k.order] EXCEPT !.trip = k.trip].trip = k.trip
      BY <2>2, <3>2
    <3>4. DOMAIN stops = Orders
      BY DEF TypeInv, DbType
    <3> QED
      BY <3>1, <3>3, <3>4
  <2> QED
    BY <2>1, <2>2
<1>6. \A t \in DOMAIN trips : Paid(t) => \A o \in Orders : stops'[o] = stops[o] \/ stops'[o].trip # t
  BY <1>3, <1>5
<1> QED
  BY <1>1, <1>4, <1>6, HarmlessFollow, StopBonus

LEMMA DeliverBonus ==
  ASSUME TypeInv, ListInv, BonusInv, ~ past.raced, NEW q \in Requests, Deliver(q)
  PROVE  BonusInv'
<1> DEFINE k == Head(work[q])
           n == Len(trips)
           s == stops[k.order]
           x == Task("last", k.order, k.rider, s.trip)
           y == RefreshTask(k.rider)
<1>1. Sound(q) /\ k.do = "deliver" /\ UNCHANGED <<trips, bonus>> /\ DbType' /\ work[q] # <<>>
  BY StepsAreSound, ShapeTodo DEF Steps, Deliver, Runs, Sound
<1>2. k \in Tasks(n) /\ n \in Nat /\ Len(trips') = n /\ DOMAIN trips = 1 .. n
  BY <1>1, AtHand DEF TypeInv, DbType
<1>3. k.order \in Orders /\ k.rider \in Carriers
  BY <1>1, <1>2, TaskFields
<1>4. s \in [trip : 0 .. n, dropped : BOOLEAN] /\ (s # NoStop => s.trip # 0)
  BY <1>3 DEF TypeInv, DbType
<1>5. \/ Then(q, <<y>>) /\ stops' = stops
      \/ /\ Then(q, <<x>>) /\ s # NoStop /\ ~ s.dropped
         /\ stops' = [stops EXCEPT ![k.order] = [s EXCEPT !.dropped = TRUE]]
  BY DEF Deliver
<1>6. y \in Tasks(n) /\ y.do = "refresh"
  BY <1>3, Zenon DEF RefreshTask, Tasks, OtherTasks
<1>7. ASSUME s # NoStop, ~ s.dropped
      PROVE  x \in Tasks(n) /\ x.do = "last" /\ x.trip = s.trip /\ ~ Paid(s.trip)
  <2>1. s.trip \in 1 .. n
    BY <1>2, <1>4, <1>7
  <2>2. k.order \in Undropped(s.trip)
    BY <1>3, <1>7 DEF Undropped, On
  <2>3. ~ Paid(s.trip)
    BY <1>2, <2>1, <2>2 DEF BonusInv
  <2>4. x \in [do : {"last", "bonus"}, order : Orders, rider : Carriers, trip : 1 .. n]
        /\ x.do = "last" /\ x.trip = s.trip
    BY <1>3, <2>1 DEF Task
  <2> QED
    BY <2>3, <2>4 DEF Tasks, OrderTasks
<1>8. \A t \in DOMAIN trips, o \in Orders :
        stops'[o] = stops[o] \/ (stops'[o].trip # t \/ (stops[o].trip = t /\ stops'[o].dropped))
  <2>1. CASE stops' = stops
    BY <2>1
  <2>2. CASE stops' = [stops EXCEPT ![k.order] = [s EXCEPT !.dropped = TRUE]]
    <3> DEFINE z == [s EXCEPT !.dropped = TRUE]
    <3>1. z.dropped /\ z.trip = s.trip
      <4> HIDE DEF s
      <4>1. z.dropped
        BY <1>4
      <4>2. z.trip = s.trip
        BY <1>4
      <4> QED
        BY <4>1, <4>2
    <3>2. DOMAIN stops = Orders
      BY DEF TypeInv, DbType
    <3> HIDE DEF z
    <3>3. \A o \in Orders : stops'[o] = IF o = k.order THEN z ELSE stops[o]
      BY <2>2, <3>2 DEF z
    <3> QED
      BY <3>1, <3>3
  <2> QED
    BY <1>5, <2>1, <2>2
<1>9. \A z \in Todo(q)' \ Later(q) : z.do \in Guarded => ~ Paid(z.trip)
  <2> HIDE DEF x, y
  <2>1. CASE Then(q, <<y>>)
    <3>1. <<y>> \in Seq(Tasks(Len(trips'))) /\ Elems(<<y>>) = {y} /\ Len(trips) <= Len(trips')
      BY <1>2, <1>6, ShortLists
    <3>2. Todo(q)' = Elems(<<y>>) \cup Later(q)
      BY <1>1, <2>1, <3>1, NewTodo
    <3> QED
      BY <1>6, <3>1, <3>2 DEF Guarded
  <2>2. CASE Then(q, <<x>>) /\ s # NoStop /\ ~ s.dropped
    <3>1. <<x>> \in Seq(Tasks(Len(trips'))) /\ Elems(<<x>>) = {x} /\ Len(trips) <= Len(trips')
      BY <1>2, <1>7, <2>2, ShortLists
    <3>2. Todo(q)' = Elems(<<x>>) \cup Later(q)
      BY <1>1, <2>2, <3>1, NewTodo
    <3> QED
      BY <1>7, <2>2, <3>1, <3>2
  <2> QED
    BY <1>5, <2>1, <2>2
<1> QED
  BY <1>1, <1>8, <1>9, StopBonus, Zenon

LEMMA SettleDeliveredBonus ==
  ASSUME TypeInv, ListInv, BonusInv, ~ past.raced, NEW q \in Requests, SettleDelivered(q)
  PROVE  BonusInv'
<1> DEFINE k == Head(work[q])
           n == Len(trips)
           c == CloseTask(k.trip, Verdict(k.trip))
           z == [k EXCEPT !.do = "bonus"]
<1>1. Sound(q) /\ k.do = "last" /\ UNCHANGED <<rows, stops, trips, bonus>>
  BY StepsAreSound DEF Steps, SettleDelivered, Runs, db
<1>2. /\ k \in Todo(q) /\ k \in Tasks(n) /\ n \in Nat /\ Len(trips') = n /\ DbType' /\ work[q] # <<>>
      /\ Len(trips) <= Len(trips') /\ Ordered(work[q])
      /\ work \in [Requests -> Seq(Tasks(n))]
  BY <1>1, ShapeTodo, AtHand DEF Sound, ListInv, ListOK, TypeInv
<1>3. PICK ts \in Seq(Tasks(n)) :
        /\ Then(q, ts)
        /\ \A x \in Elems(ts) :
             \/ x = c /\ Verdict(k.trip) # "open"
             \/ x = RefreshTask(k.rider)
             \/ x = z /\ EarnsBonus(k.trip) /\ k.rider \in Riders
        /\ Verdict(k.trip) # "open" => c \in Elems(ts)
  BY LastList, Zenon
<1>4. Todo(q)' = Elems(ts) \cup Later(q)
  <2>1. ts \in Seq(Tasks(Len(trips')))
    BY <1>2
  <2> QED
    BY <1>2, <1>3, <2>1, NewTodo
<1>5. z.do = "bonus" /\ z.trip = k.trip
  BY <1>1, <1>2, TaskFields
<1>6. c.do = "close" /\ c.trip = k.trip /\ RefreshTask(k.rider).do = "refresh"
  BY DEF CloseTask, RefreshTask
<1>7. ~ Paid(k.trip)
  BY <1>1, <1>2 DEF BonusInv, Guarded
<1> HIDE DEF z, c
<1>8. \A x \in Todo(q)' \ Later(q) : x.do \in Follow(k.do) \cap Guarded => ~ Paid(x.trip)
  BY <1>3, <1>4, <1>5, <1>6, <1>7 DEF Guarded
<1>9. ASSUME NEW x \in Todo(q)', x.do = "bonus" PROVE Earned(q, x.trip)'
  <2>1. x \notin Later(q)
    <3>1. ASSUME x \in Later(q) PROVE FALSE
      <4>1. k.do \in Before(x.do)
        BY <1>2, <3>1, Behind
      <4> QED
        BY <1>1, <1>9, <4>1 DEF Before
    <3> QED
      BY <3>1
  <2>2. x.trip = k.trip /\ EarnsBonus(k.trip)
    BY <1>3, <1>4, <1>5, <1>6, <1>9, <2>1
  <2>3. Verdict(k.trip) # "open" /\ Undropped(k.trip) = {}
    BY <2>2 DEF EarnsBonus, Verdict
  <2>4. c \in Todo(q)'
    BY <1>3, <1>4, <2>3
  <2>5. \A t : Undropped(t)' = Undropped(t)
    BY <1>1 DEF Undropped, On
  <2> QED
    BY <1>6, <2>2, <2>3, <2>4, <2>5 DEF Earned
<1>10. \A t \in DOMAIN trips : Paid(t) => trips'[t].status \notin Active /\ Undropped(t)' = {}
  BY <1>1 DEF BonusInv, Undropped, On
<1> QED
  BY <1>1, <1>8, <1>9, <1>10, NothingPaid

LEMMA AddBonus ==
  ASSUME TypeInv, ListInv, BonusInv, ~ past.raced, NEW q \in Requests, AddToTrip(q)
  PROVE  BonusInv'
<1> DEFINE k == Head(work[q])
           n == Len(trips)
<1>1. Sound(q) /\ k.do = "add" /\ UNCHANGED <<stops, trips, bonus>>
  BY StepsAreSound DEF Steps, AddToTrip, Runs, db
<1>a. work[q] # <<>> /\ DbType' /\ Len(trips') = n
  BY <1>1, ShapeTodo DEF Sound
<1>2. /\ n \in Nat /\ Len(trips') = n /\ DbType' /\ work[q] # <<>> /\ Len(trips) <= Len(trips')
      /\ work \in [Requests -> Seq(Tasks(n))] /\ DOMAIN trips = 1 .. n
  BY <1>1, <1>a DEF TypeInv, DbType
<1>3. k.trip \in 1 .. n
  BY AddList, Zenon
<1>4. \/ Throw(q)
      \/ /\ trips[k.trip].status = "planned"
         /\ \E ids \in Listed(On(k.trip) \cup {k.order}), ts \in Seq(Tasks(n)) :
              /\ Then(q, ts) /\ Ordered(ts)
              /\ Elems(ts) = {TripTask("cancel", k.trip), CreateTask("create", k.rider, ids),
                              TripTask("catch", k.trip)}
  BY AddList, Zenon
<1>5. CASE Throw(q)
  <2>1. \A x \in Todo(q)' : \E t : x = TripTask("revive", t)
    <3>1. \/ work'[q] = <<>>
          \/ \E y \in Todo(q) : y.do = "catch" /\ work'[q] = <<TripTask("revive", y.trip)>>
      BY <1>2, <1>5, Thrown
    <3> QED
      BY <3>1 DEF Todo
  <2>2. \A x \in Todo(q)' : x.do = "revive"
    BY <2>1 DEF TripTask
  <2>3. \A x \in Todo(q)' \ Later(q) : x.do \in Follow(k.do) \cap Guarded => ~ Paid(x.trip)
    BY <1>1, <2>2 DEF Follow
  <2> QED
    BY <1>1, <2>3, IdleBonus
<1>6. ASSUME trips[k.trip].status = "planned", NEW ids, NEW ts \in Seq(Tasks(n)), Then(q, ts),
             Elems(ts) = {TripTask("cancel", k.trip), CreateTask("create", k.rider, ids),
                          TripTask("catch", k.trip)}
      PROVE  BonusInv'
  <2>1. Todo(q)' = Elems(ts) \cup Later(q)
    <3>1. ts \in Seq(Tasks(Len(trips')))
      BY <1>2
    <3> QED
      BY <1>2, <1>6, <3>1, NewTodo
  <2>2. ~ Paid(k.trip)
    BY <1>2, <1>3, <1>6 DEF BonusInv, Active
  <2>3. \A x \in Elems(ts) : x.do = "create" \/ x.trip = k.trip
    BY <1>6 DEF TripTask, CreateTask
  <2>4. \A x \in Todo(q)' \ Later(q) : x.do \in Follow(k.do) \cap Guarded => ~ Paid(x.trip)
    BY <2>1, <2>2, <2>3 DEF Guarded
  <2> QED
    BY <1>1, <2>4, IdleBonus
<1> QED
  BY <1>4, <1>5, <1>6

LEMMA PayBonusBonus ==
  ASSUME TypeInv, ListInv, BonusInv, ~ past.raced, NEW q \in Requests, PayBonus(q)
  PROVE  BonusInv'
<1> DEFINE k == Head(work[q])
           n == Len(trips)
<1>1. Sound(q) /\ k.do = "bonus" /\ UNCHANGED <<rows, stops, trips>> /\ Then(q, <<>>)
  BY StepsAreSound DEF Steps, PayBonus, Runs
<1>2. Todo(q)' = Later(q) /\ Todo(q) = {k} \cup Later(q) /\ k \in Tasks(n) /\ work[q] # <<>>
  BY <1>1, OneDone
<1>3. n \in Nat /\ Ordered(work[q]) /\ work \in [Requests -> Seq(Tasks(n))]
  BY DEF TypeInv, DbType, ListInv, ListOK
<1>4. \A x \in Later(q) : "bonus" \in Before(x.do)
  BY <1>1, <1>2, <1>3, Behind
<1>5. q \notin past.planners
  BY <1>1, <1>2 DEF ListInv, ListOK, Planning, Shared
<1>6. \A x \in Later(q) : x.do \in Moving \cup Shared
  BY <1>2, <1>5 DEF ListInv, ListOK
<1>7. \A x \in Later(q) : x.do \notin Guarded
  BY <1>4, <1>6 DEF Before, Guarded, Moving, Shared
<1>8. ~ Paid(k.trip) /\ Earned(q, k.trip)
  BY <1>1, <1>2 DEF BonusInv, Guarded
<1>9. trips[k.trip].status \notin Active
  <2>1. \A y \in Todo(q) : y.do # "close"
    BY <1>1, <1>2, <1>4 DEF Before
  <2> QED
    BY <1>8, <2>1 DEF Earned
<1>10. bonus' \subseteq bonus \cup {<<k.order, k.trip>>}
  BY DEF PayBonus
<1>11. \A t : Paid(t)' => Paid(t) \/ t = k.trip
  BY <1>10 DEF Paid
<1>12. \A b, c \in bonus' : b[2] = c[2] => b = c
  <2> SUFFICES ASSUME NEW b \in bonus', NEW c \in bonus', b[2] = c[2] PROVE b = c
    OBVIOUS
  <2>1. \A d \in bonus : d[2] # k.trip
    BY <1>8 DEF Paid
  <2>2. <<k.order, k.trip>>[2] = k.trip
    OBVIOUS
  <2> QED
    BY <1>10, <2>1, <2>2 DEF BonusInv
<1>13. Single' /\ \A p \in Requests \ {q} : Todo(p)' = {}
  BY <1>1, SingleKept DEF BonusInv
<1>14. \A t \in DOMAIN trips' : Paid(t)' => trips'[t].status \notin Active /\ Undropped(t)' = {}
  <2>1. \A t : Undropped(t)' = Undropped(t)
    BY <1>1 DEF Undropped, On
  <2>2. Undropped(k.trip) = {}
    BY <1>8 DEF Earned
  <2> QED
    BY <1>1, <1>9, <1>11, <2>1, <2>2 DEF BonusInv
<1>15. \A p \in Requests : \A x \in Todo(p)' : x.do \notin Guarded
  BY <1>2, <1>7, <1>13
<1> QED
  BY <1>12, <1>13, <1>14, <1>15 DEF BonusInv, Guarded

LEMMA StepBonus ==
  ASSUME TypeInv, ListInv, BonusInv, ~ past.raced, NEW q \in Requests, Steps(q)
  PROVE  BonusInv'
BY PlainSteps, RefreshBonus, CloseBonus, LeaveBonus, CancelBonus, InsertBonus, OpenBonus, PickBonus,
   DropBonus, PlaceBonus, DeliverBonus, SettleDeliveredBonus, AddBonus, PayBonusBonus DEF Steps

LEMMA CallBonus ==
  ASSUME TypeInv, BonusInv, NEW q \in Requests, Calls(q)
  PROVE  BonusInv'
<1>1. PICK x \in CallTasks : Call(q, x)
  BY CallIs
<1> DEFINE rivals == {p \in Requests : work[p] # <<>>}
<1>2. /\ work'[q] = <<x>> /\ Todo(q)' = {x} /\ \A p \in Requests \ {q} : work'[p] = work[p]
      /\ UNCHANGED db /\ past'.raced = (past.raced \/ rivals # {})
  BY <1>1, Called
<1>3. x.do \notin Guarded
  BY <1>1, CallTasksAre DEF Guarded
<1>4. ASSUME ~ past'.raced PROVE BonusInv'
  <2>1. ~ past.raced /\ \A p \in Requests : work[p] = <<>>
    BY <1>2, <1>4
  <2>2. \A p \in Requests \ {q} : work'[p] = <<>> /\ Todo(p)' = {}
    BY <1>2, <2>1 DEF Todo
  <2>3. Single'
    BY <2>2 DEF Single
  <2>4. UNCHANGED <<stops, trips, bonus>>
    BY <1>2 DEF db
  <2>5. /\ \A b, c \in bonus' : b[2] = c[2] => b = c
        /\ \A t \in DOMAIN trips' : Paid(t)' => trips'[t].status \notin Active /\ Undropped(t)' = {}
    BY <2>1, <2>4 DEF BonusInv, Paid, Undropped, On
  <2>6. \A p \in Requests : \A y \in Todo(p)' : y.do \notin Guarded
    BY <1>2, <1>3, <2>2
  <2> QED
    BY <2>3, <2>5, <2>6 DEF BonusInv, Guarded
<1> QED
  BY <1>4 DEF BonusInv

LEMMA FailBonus ==
  ASSUME TypeInv, ListInv, BonusInv, ~ past.raced, NEW q \in Requests, Fail(q)
  PROVE  BonusInv'
<1>1. /\ UNCHANGED db /\ \A p \in Requests \ {q} : work'[p] = work[p]
      /\ \/ work'[q] = <<>>
         \/ \E k \in Todo(q) : k.do = "catch" /\ work'[q] = <<TripTask("revive", k.trip)>>
  BY FailIs
<1>2. work[q] # <<>>
  BY DEF Fail
<1>3. \A p \in Requests \ {q} : work[p] = <<>> /\ work'[p] = <<>> /\ Todo(p)' = {}
  BY <1>1, <1>2 DEF BonusInv, Single, Todo
<1>4. Single'
  BY <1>3 DEF Single
<1>5. UNCHANGED <<stops, trips, bonus>>
  BY <1>1 DEF db
<1>6. /\ \A b, c \in bonus' : b[2] = c[2] => b = c
      /\ \A t \in DOMAIN trips' : Paid(t)' => trips'[t].status \notin Active /\ Undropped(t)' = {}
      /\ \A t : Paid(t)' <=> Paid(t)
  BY <1>5 DEF BonusInv, Paid, Undropped, On
<1>7. \A y \in Todo(q)' : y.do = "revive" /\ ~ Paid(y.trip)
  <2>1. \A y \in Todo(q)' : \E k \in Todo(q) : k.do = "catch" /\ y = TripTask("revive", k.trip)
    BY <1>1 DEF Todo
  <2>2. \A k \in Todo(q) : k.do = "catch" => ~ Paid(k.trip)
    BY DEF BonusInv, Guarded
  <2>3. \A t : TripTask("revive", t).do = "revive" /\ TripTask("revive", t).trip = t
    BY DEF TripTask
  <2> QED
    BY <2>1, <2>2, <2>3
<1> QED
  BY <1>3, <1>4, <1>6, <1>7 DEF BonusInv

LEMMA InitBonus == Init => BonusInv
<1> SUFFICES ASSUME Init PROVE BonusInv
  OBVIOUS
<1>1. bonus = {} /\ \A q \in Requests : work[q] = <<>>
  BY DEF Init
<1> QED
  BY <1>1 DEF BonusInv, Single, Paid, Todo

LEMMA NextBonus == TypeInv /\ ListInv /\ BonusInv /\ [Next]_vars => BonusInv'
<1> SUFFICES ASSUME TypeInv, ListInv, BonusInv, [Next]_vars PROVE BonusInv'
  OBVIOUS
<1>1. CASE UNCHANGED vars
  BY <1>1 DEF vars, db, BonusInv, Single, Paid, Todo, Undropped, On, Earned
<1>2. ASSUME NEW q \in Requests, Calls(q) PROVE BonusInv'
  BY <1>2, CallBonus
<1>3. ASSUME NEW q \in Requests, Steps(q) PROVE BonusInv'
  <2>1. CASE past.raced
    <3>1. past' = past
      BY <1>3, StepsAreSound DEF Sound
    <3> QED
      BY <2>1, <3>1 DEF BonusInv
  <2>2. CASE ~ past.raced
    BY <1>3, <2>2, StepBonus
  <2> QED
    BY <2>1, <2>2
<1>4. ASSUME NEW q \in Requests, Fail(q) PROVE BonusInv'
  <2>1. CASE past.raced
    <3>1. past'.raced = past.raced
      BY <1>4, FailIs
    <3> QED
      BY <2>1, <3>1 DEF BonusInv
  <2>2. CASE ~ past.raced
    BY <1>4, <2>2, FailBonus
  <2> QED
    BY <2>1, <2>2
<1> QED
  BY <1>1, <1>2, <1>3, <1>4, NextIs

\* The batch bonus of a trip is paid once, unless requests race.
THEOREM BonusIsPaidOnce == Spec => []BonusOnce
<1>1. BonusInv => BonusOnce
  BY DEF BonusInv, BonusOnce
<1> QED
  BY <1>1, InitTypes, NextTypes, InitBonus, NextBonus, PTL DEF Spec

----------------------------------------------------------------------------
(* No trip stays open.                                                     *)

\* Statements that see to it that the trip they name gets a stop, or is counted.
Watching == {"settle", "last", "close", "assign", "pick", "place"}

\* Statements on the way to a stop of their order.
Taking == {"assign", "pick", "open", "place"}
Placing == {"pick", "open", "place"}
Bound == {"assign", "pick", "place"}

Watches(q, t) == \E x \in Todo(q) : x.do \in Watching /\ x.trip = t

\* A trip under way has a stop to serve, or some request still sees to it.
Covered ==
  \A t \in DOMAIN trips : trips[t].status \in Active =>
    Undropped(t) # {} \/ \E q \in Requests : Watches(q, t)

\* Of a request that plans: it is the only one, it puts no order on two trips
\* and fills one trip.
Alone(q) == \A p \in Requests : work[p] # <<>> => p = q

Distinct(q) ==
  \A i, j \in DOMAIN work[q] :
    i < j /\ work[q][i].do \in Taking /\ work[q][j].do = "assign"
      => work[q][i].order # work[q][j].order

OneTrip(q) == \A x, y \in Todo(q) : x.do \in Taking /\ y.do \in Taking => x.trip = y.trip

\* What its statements were made from still holds.
Fits(x) ==
  /\ x.do \in {"assign", "pick"} /\ x.trip # 0 =>
       trips[x.trip].rider = x.rider /\ trips[x.trip].status = "planned"
  /\ x.do = "assign" /\ x.trip # 0 => rows[x.order].status \notin Terminal
  /\ x.do = "save" => x.row.status \notin Terminal /\ rows[x.order].status \notin Terminal
  /\ x.do = "open" => x.trip = 0
  /\ x.do \in {"create", "insert"} => x.orders # <<>> /\ Injective(x.orders)
  /\ x.do = "insert" => \A i \in DOMAIN x.orders : rows[x.orders[i]].status \notin Terminal
  /\ x.do = "revive" => Undropped(x.trip) # {}

\* An order has left its old trip before it goes to a new one.
Cleared(q, x) == x.do \in Placing => stops[x.order] = NoStop \/ DropTask(x.order) \in Todo(q)

\* Until its trip is made anew, addToTrip can fall back on the old one.
Caught(q, x) ==
  x.do = "catch" /\ (\E y \in Todo(q) : y.do \in {"cancel", "create"}) => Undropped(x.trip) # {}

\* No statement takes stops from the trip that y fills.
Clash(x, y) ==
  /\ y.do \in Bound /\ y.trip # 0
  /\ \/ x.do \in {"assign", "drop"} /\ stops[x.order].trip = y.trip
     \/ x.do \in {"settle", "close"} /\ x.trip = y.trip

PlanOK(q) ==
  /\ Alone(q) /\ Distinct(q) /\ OneTrip(q)
  /\ \A x \in Todo(q) : Fits(x) /\ Cleared(q, x) /\ Caught(q, x)
  /\ \A x, y \in Todo(q) : ~ Clash(x, y)

\* What a request relies on.
Kept(q) == Covered /\ (q \in past.planners /\ work[q] # <<>> => PlanOK(q))

\* As long as no request that plans has raced and none has broken off.
OpenInv == past.tangled \/ past.cut \/ (Covered /\ \A q \in Requests : Kept(q))

\* A step of a request on its list.
LEMMA Facts ==
  ASSUME TypeInv, ListInv, NEW q \in Requests, Sound(q), NEW k, k = Head(work[q])
  PROVE  /\ work[q] # <<>> /\ k \in Todo(q) /\ k \in Tasks(Len(trips)) /\ k = work[q][1]
         /\ Todo(q) = {k} \cup Later(q) /\ Later(q) \subseteq Tasks(Len(trips))
         /\ work \in [Requests -> Seq(Tasks(Len(trips)))]
         /\ Len(trips) \in Nat /\ DOMAIN trips = 1 .. Len(trips)
         /\ DbType' /\ Len(trips) <= Len(trips') /\ past' = past
         /\ \A x \in Later(q) : k.do \in Before(x.do)
         /\ \A p \in Requests \ {q} : work'[p] = work[p] /\ Todo(p)' = Todo(p)
         /\ Throw(q) \/ Later(q) \subseteq Todo(q)'
         /\ q \in past.planners => \A x \in Todo(q) : x.do \in Planning \cup Shared
         /\ q \notin past.planners => \A x \in Todo(q) : x.do \in Moving \cup Shared
         /\ \A x \in Todo(q) : x.do = "assign" /\ x.trip = 0 => Later(q) = {} /\ x = k
<1>1. /\ work[q] # <<>> /\ k \in Todo(q) /\ Todo(q) = {k} \cup Later(q)
      /\ Todo(q) \subseteq Tasks(Len(trips)) /\ past' = past
      /\ \A p \in Requests \ {q} : work'[p] = work[p] /\ Todo(p)' = Todo(p)
      /\ Throw(q) \/ Later(q) \subseteq Todo(q)'
  BY ShapeTodo
<1>2. /\ work \in [Requests -> Seq(Tasks(Len(trips)))] /\ Len(trips) \in Nat
      /\ DOMAIN trips = 1 .. Len(trips) /\ Ordered(work[q])
  BY DEF TypeInv, DbType, ListInv, ListOK
<1>3. DbType' /\ Len(trips) <= Len(trips')
  BY DEF Sound
<1>4. \A x \in Later(q) : k.do \in Before(x.do)
  BY <1>2, Behind
<1>5. /\ q \in past.planners => \A x \in Todo(q) : x.do \in Planning \cup Shared
      /\ q \notin past.planners => \A x \in Todo(q) : x.do \in Moving \cup Shared
      /\ \A x \in Todo(q) : x.do = "assign" /\ x.trip = 0 => Len(work[q]) = 1
  BY DEF ListInv, ListOK
<1>6. k = work[q][1]
  BY <1>1, <1>2
<1>7. Len(work[q]) = 1 => Later(q) = {} /\ Todo(q) = {k}
  BY <1>1 DEF Later
<1> QED
  BY <1>1, <1>2, <1>3, <1>4, <1>5, <1>6, <1>7

\* A new list in the place of a statement.
LEMMA Moved ==
  ASSUME TypeInv, ListInv, NEW q \in Requests, Sound(q), NEW k, k = Head(work[q]),
         NEW ts \in Seq(Tasks(Len(trips'))), Then(q, ts)
  PROVE  /\ Todo(q)' = Elems(ts) \cup Later(q)
         /\ Len(work'[q]) = Len(ts) + Len(work[q]) - 1
         /\ DOMAIN work'[q] = 1 .. Len(work'[q]) /\ Len(work[q]) \in Nat /\ Len(ts) \in Nat
         /\ \A i \in 1 .. Len(ts) : work'[q][i] = ts[i]
         /\ \A i \in 2 .. Len(work[q]) : work'[q][i + Len(ts) - 1] = work[q][i]
<1> DEFINE n == Len(trips')
<1>1. n \in Nat /\ Len(trips) \in Nat /\ Len(trips) <= n /\ DbType' /\ work[q] # <<>>
  BY Facts DEF DbType
<1>2. work \in [Requests -> Seq(Tasks(n))]
  <2>1. Tasks(Len(trips)) \subseteq Tasks(n)
    BY <1>1, MoreTrips
  <2>2. \A p \in Requests : work[p] \in Seq(Tasks(n))
    BY <2>1 DEF TypeInv
  <2> QED
    BY <2>2 DEF TypeInv
<1>3. ts \in Seq(Tasks(n))
  OBVIOUS
<1> HIDE DEF n
<1>4. /\ work' \in [Requests -> Seq(Tasks(n))]
      /\ \A p \in Requests \ {q} : work'[p] = work[p]
      /\ Len(work'[q]) = Len(ts) + Len(work[q]) - 1
      /\ \A i \in 1 .. Len(ts) : work'[q][i] = ts[i]
      /\ \A i \in 2 .. Len(work[q]) : work'[q][i + Len(ts) - 1] = work[q][i]
      /\ Todo(q)' = {ts[i] : i \in 1 .. Len(ts)} \cup Later(q)
      /\ Head(work[q]) = work[q][1] /\ Head(work[q]) \in Tasks(n)
      /\ Todo(q) = {Head(work[q])} \cup Later(q)
      /\ Later(q) \subseteq Tasks(n)
  BY <1>1, <1>2, <1>3, Advanced
<1>5. DOMAIN work'[q] = 1 .. Len(work'[q]) /\ Len(work[q]) \in Nat /\ Len(ts) \in Nat
  BY <1>2, <1>3, <1>4
<1>6. Elems(ts) = {ts[i] : i \in 1 .. Len(ts)}
  BY <1>3 DEF Elems
<1> QED
  BY <1>4, <1>5, <1>6

\* An error behind which no catch stands ends the request.
LEMMA Ended ==
  ASSUME TypeInv, NEW q \in Requests, Throw(q), \A x \in Todo(q) : x.do # "catch"
  PROVE  work'[q] = <<>> /\ Todo(q)' = {}
<1> DEFINE n == Len(trips)
<1>1. n \in Nat /\ work \in [Requests -> Seq(Tasks(n))]
  BY DEF TypeInv, DbType
<1> HIDE DEF n
<1>2. \/ work'[q] = <<>>
      \/ \E k \in Todo(q) : k.do = "catch" /\ work'[q] = <<TripTask("revive", k.trip)>>
  BY <1>1, Thrown
<1>3. work'[q] = <<>>
  BY <1>2
<1> QED
  BY <1>3 DEF Todo

\* Trips stay covered: it suffices to look at those that lose a stop or the
\* statement that sees to them.
LEMMA CoverStep ==
  ASSUME TypeInv, ListInv, NEW q \in Requests, Sound(q), NEW k, k = Head(work[q]), Covered,
         Later(q) \subseteq Todo(q)' \/ \A x \in Later(q) : x.do \notin Watching,
         \A t \in DOMAIN trips' : trips'[t].status \in Active =>
            \/ Undropped(t)' # {}
            \/ Watches(q, t)'
            \/ /\ t \in DOMAIN trips /\ trips[t].status \in Active /\ Undropped(t) = {}
               /\ k.do \in Watching => k.trip # t
  PROVE  Covered'
<1> SUFFICES ASSUME NEW t \in DOMAIN trips', trips'[t].status \in Active, Undropped(t)' = {},
                    ~ Watches(q, t)'
             PROVE  \E p \in Requests : Watches(p, t)'
  BY DEF Covered
<1>1. /\ t \in DOMAIN trips /\ trips[t].status \in Active /\ Undropped(t) = {}
      /\ k.do \in Watching => k.trip # t
  OBVIOUS
<1>2. PICK p \in Requests : Watches(p, t)
  BY <1>1 DEF Covered
<1>3. Todo(q) = {k} \cup Later(q) /\ \A r \in Requests \ {q} : Todo(r)' = Todo(r)
  BY Facts
<1>4. CASE p = q
  <2>1. PICK x \in Todo(q) : x.do \in Watching /\ x.trip = t
    BY <1>2, <1>4 DEF Watches
  <2>2. x \in Later(q)
    BY <1>1, <1>3, <2>1
  <2>3. x \in Todo(q)'
    BY <2>1, <2>2
  <2> QED
    BY <2>1, <2>3 DEF Watches
<1>5. CASE p # q
  BY <1>2, <1>3, <1>5 DEF Watches
<1> QED
  BY <1>4, <1>5

\* Steps that touch neither stops nor trips.
LEMMA CoverIdle ==
  ASSUME TypeInv, ListInv, NEW q \in Requests, Sound(q), NEW k, k = Head(work[q]), Covered,
         UNCHANGED <<stops, trips>>,
         Later(q) \subseteq Todo(q)' \/ \A x \in Later(q) : x.do \notin Watching,
         k.do \in Watching => k.trip \notin DOMAIN trips \/ Undropped(k.trip) # {} \/ Watches(q, k.trip)'
  PROVE  Covered'
<1>1. \A t : Undropped(t)' = Undropped(t)
  BY DEF Undropped, On
<1>2. \A t \in DOMAIN trips' : trips'[t].status \in Active =>
            \/ Undropped(t)' # {}
            \/ Watches(q, t)'
            \/ /\ t \in DOMAIN trips /\ trips[t].status \in Active /\ Undropped(t) = {}
               /\ k.do \in Watching => k.trip # t
  BY <1>1
<1> QED
  BY <1>2, CoverStep

\* A request that plans goes on planning.
LEMMA PlanKept ==
  ASSUME TypeInv, ListInv, NEW q \in Requests, Sound(q), NEW k, k = Head(work[q]), PlanOK(q),
         NEW ts \in Seq(Tasks(Len(trips'))), Then(q, ts),
         \A x \in Elems(ts) : x.do \in Taking =>
            x.do # "assign" /\ k.do \in Taking /\ x.order = k.order
            /\ (x.trip = k.trip \/ \A y \in Later(q) : y.do \notin Taking),
         \A x, y \in Elems(ts) : x.do \in Taking /\ y.do \in Taking => x = y,
         \A x \in Elems(ts) \cup Later(q) : Fits(x)' /\ Cleared(q, x)' /\ Caught(q, x)',
         \A x, y \in Elems(ts) \cup Later(q) : ~ Clash(x, y)'
  PROVE  PlanOK(q)'
<1>1. /\ Todo(q)' = Elems(ts) \cup Later(q)
      /\ Len(work'[q]) = Len(ts) + Len(work[q]) - 1
      /\ DOMAIN work'[q] = 1 .. Len(work'[q]) /\ Len(work[q]) \in Nat /\ Len(ts) \in Nat
      /\ \A i \in 1 .. Len(ts) : work'[q][i] = ts[i]
      /\ \A i \in 2 .. Len(work[q]) : work'[q][i + Len(ts) - 1] = work[q][i]
  BY Moved
<1>2. /\ k = work[q][1] /\ work[q] # <<>> /\ work \in [Requests -> Seq(Tasks(Len(trips)))]
      /\ \A p \in Requests \ {q} : work'[p] = work[p]
      /\ k \in Todo(q) /\ Todo(q) = {k} \cup Later(q)
  BY Facts
<1>3. Alone(q)'
  BY <1>2 DEF PlanOK, Alone
<1> DEFINE s == work[q]
           l == work'[q]
           d == Len(ts) - 1
<1>4. DOMAIN s = 1 .. Len(s)
  BY <1>2
<1>5. ASSUME NEW i \in DOMAIN l, NEW j \in DOMAIN l, i < j, l[i].do \in Taking, l[j].do = "assign"
      PROVE  l[i].order # l[j].order
  <2>1. j > Len(ts)
    <3>1. ASSUME j <= Len(ts) PROVE FALSE
      <4>1. j \in 1 .. Len(ts)
        BY <1>1, <3>1
      <4>2. l[j] \in Elems(ts) /\ "assign" \in Taking
        BY <1>1, <4>1 DEF Elems, Taking
      <4> QED
        BY <1>5, <4>2
    <3> QED
      BY <1>1, <3>1
  <2>2. j - d \in 2 .. Len(s) /\ l[j] = s[j - d]
    <3>1. j - d \in 2 .. Len(s) /\ (j - d) + Len(ts) - 1 = j
      BY <1>1, <2>1
    <3> QED
      BY <1>1, <3>1
  <2>3. j - d \in DOMAIN s /\ 1 \in DOMAIN s
    BY <1>1, <1>4, <2>2
  <2>4. CASE i <= Len(ts)
    <3>1. i \in 1 .. Len(ts)
      BY <1>1, <2>4
    <3>2. l[i] \in Elems(ts)
      BY <1>1, <3>1 DEF Elems
    <3>3. k.do \in Taking /\ l[i].order = k.order
      BY <1>5, <3>2
    <3>4. s[1].order # s[j - d].order
      BY <1>2, <1>5, <2>2, <2>3, <3>3 DEF PlanOK, Distinct
    <3> QED
      BY <1>2, <2>2, <3>3, <3>4
  <2>5. CASE i > Len(ts)
    <3>1. i - d \in 2 .. Len(s) /\ l[i] = s[i - d]
      <4>1. i - d \in 2 .. Len(s) /\ (i - d) + Len(ts) - 1 = i
        BY <1>1, <2>5
      <4> QED
        BY <1>1, <4>1
    <3>2. i - d \in DOMAIN s /\ i - d < j - d
      BY <1>1, <1>4, <1>5, <3>1
    <3> QED
      BY <1>5, <2>2, <2>3, <3>1, <3>2 DEF PlanOK, Distinct
  <2> QED
    BY <1>1, <2>4, <2>5
<1>6. Distinct(q)'
  BY <1>5 DEF Distinct
<1>7. OneTrip(q)'
  BY <1>1, <1>2 DEF PlanOK, OneTrip
<1> QED
  BY <1>1, <1>3, <1>6, <1>7 DEF PlanOK

\* The same for steps that touch neither stops nor trips and end no order: only
\* what they put on the list matters.
LEMMA PlanIdle ==
  ASSUME TypeInv, ListInv, NEW q \in Requests, Sound(q), NEW k, k = Head(work[q]), PlanOK(q),
         NEW ts \in Seq(Tasks(Len(trips'))), Then(q, ts), UNCHANGED <<stops, trips>>,
         \A o \in Orders : rows[o].status \notin Terminal => rows'[o].status \notin Terminal,
         k.do # "drop",
         \A x \in Elems(ts) : x.do \in Taking =>
            x.do # "assign" /\ k.do \in Taking /\ x.order = k.order
            /\ (x.trip = k.trip \/ \A y \in Later(q) : y.do \notin Taking),
         \A x, y \in Elems(ts) : x.do \in Taking /\ y.do \in Taking => x = y,
         \A x \in Elems(ts) : Fits(x) /\ Caught(q, x)' /\ Cleared(q, x)'
                              /\ (x.do \in {"cancel", "create"} => \A y \in Later(q) : y.do # "catch"),
         \A x \in Elems(ts), y \in Elems(ts) \cup Later(q) : ~ Clash(x, y) /\ ~ Clash(y, x)
  PROVE  PlanOK(q)'
<1>1. /\ Todo(q) = {k} \cup Later(q) /\ Todo(q)' = Elems(ts) \cup Later(q)
      /\ \A x \in Todo(q) : x \in Tasks(Len(trips))
  BY Facts, Moved
<1>2. \A t : Undropped(t)' = Undropped(t)
  BY DEF Undropped, On
<1>3. ASSUME NEW x \in Tasks(Len(trips'))  PROVE Fits(x) => Fits(x)'
  <2>1. x.do = "assign" \/ x.do = "save" => x.order \in Orders
    <3>1. Len(trips') \in Nat
      BY Facts DEF DbType
    <3> QED
      BY <3>1, TaskFields
  <2>2. x.do = "insert" => \A i \in DOMAIN x.orders : x.orders[i] \in Orders
    <3>1. Len(trips') \in Nat
      BY Facts DEF DbType
    <3>2. x.do = "insert" => x.orders \in Seq(Orders)
      BY <3>1, TaskFields
    <3> QED
      BY <3>2
  <2> QED
    BY <1>2, <2>1, <2>2 DEF Fits
<1>4. \A x \in Elems(ts) \cup Later(q) : x \in Tasks(Len(trips'))
  BY <1>1 DEF Elems
<1>5. ASSUME NEW x \in Elems(ts) \cup Later(q)
      PROVE  Fits(x)' /\ Cleared(q, x)' /\ Caught(q, x)'
  <2>1. CASE x \in Elems(ts)
    BY <1>3, <1>4, <2>1
  <2>2. CASE x \in Later(q)
    <3>1. Fits(x)'
      BY <1>1, <1>3, <1>4, <2>2 DEF PlanOK
    <3>2. Cleared(q, x)'
      <4>1. DropTask(x.order).do = "drop"
        BY DEF DropTask
      <4> QED
        BY <1>1, <2>2, <4>1 DEF PlanOK, Cleared
    <3>3. Caught(q, x)'
      BY <1>1, <1>2, <2>2 DEF PlanOK, Caught
    <3> QED
      BY <3>1, <3>2, <3>3
  <2> QED
    BY <2>1, <2>2
<1>6. ASSUME NEW x \in Elems(ts) \cup Later(q), NEW y \in Elems(ts) \cup Later(q) PROVE ~ Clash(x, y)'
  <2>1. ~ Clash(x, y)
    BY <1>1 DEF PlanOK
  <2> QED
    BY <2>1 DEF Clash
<1> QED
  BY <1>5, <1>6, PlanKept

\* A statement that is done and leaves nothing behind.
LEMMA DoneKeeps ==
  ASSUME TypeInv, ListInv, NEW q \in Requests, Kept(q), Sound(q), NEW k, k = Head(work[q]),
         k.do \notin Watching \cup {"drop"}, Then(q, <<>>), UNCHANGED <<stops, trips>>,
         q \in past.planners =>
           \A o \in Orders : rows[o].status \notin Terminal => rows'[o].status \notin Terminal
  PROVE  Kept(q)'
<1> DEFINE n == Len(trips')
           ts == <<>>
<1>1. n \in Nat /\ past' = past
  BY Facts DEF DbType
<1>2. ts \in Seq(Tasks(n)) /\ Elems(ts) = {} /\ Then(q, ts)
  BY <1>1, ShortLists
<1> HIDE DEF ts
<1>3. Todo(q)' = Later(q)
  <2>1. Todo(q)' = Elems(ts) \cup Later(q)
    BY <1>2, Moved
  <2> QED
    BY <1>2, <2>1
<1>4. Covered'
  BY <1>3, CoverIdle DEF Kept
<1>5. ASSUME q \in past.planners, work'[q] # <<>> PROVE PlanOK(q)'
  <2>1. PlanOK(q)
    BY <1>5, Facts DEF Kept
  <2> QED
    BY <1>2, <1>5, <2>1, PlanIdle
<1> QED
  BY <1>1, <1>4, <1>5 DEF Kept

\* What an error leaves: nothing, or the way back for addToTrip.
LEMMA BrokenKeeps ==
  ASSUME TypeInv, ListInv, NEW q \in Requests, Kept(q), Sound(q), NEW k, k = Head(work[q]),
         Throw(q), UNCHANGED <<stops, trips>>,
         k.do \in Watching => k.trip \notin DOMAIN trips,
         \A x \in Later(q) : x.do \notin Watching,
         q \in past.planners => \A x \in Todo(q) : x.do = "catch" => k.do = "create"
  PROVE  Kept(q)'
<1>1. Covered'
  BY CoverIdle DEF Kept
<1>2. /\ past' = past /\ k \in Todo(q) /\ work[q] # <<>>
      /\ work \in [Requests -> Seq(Tasks(Len(trips)))] /\ Len(trips) \in Nat
      /\ \A p \in Requests \ {q} : work'[p] = work[p]
  BY Facts
<1>3. ASSUME q \in past.planners, work'[q] # <<>> PROVE PlanOK(q)'
  <2>1. PlanOK(q)
    BY <1>2, <1>3 DEF Kept
  <2>2. PICK c \in Todo(q) : c.do = "catch" /\ work'[q] = <<TripTask("revive", c.trip)>>
    <3> DEFINE n == Len(trips)
    <3>1. work \in [Requests -> Seq(Tasks(n))] /\ n \in Nat
      BY <1>2
    <3> HIDE DEF n
    <3> QED
      BY <1>3, <3>1, Thrown
  <2>3. Undropped(c.trip) # {}
    BY <1>2, <1>3, <2>1, <2>2 DEF PlanOK, Caught
  <2>4. \A t : Undropped(t)' = Undropped(t)
    BY DEF Undropped, On
  <2> DEFINE x == TripTask("revive", c.trip)
  <2>5. x.do = "revive" /\ x.trip = c.trip
    BY DEF TripTask
  <2>6. Todo(q)' = {x} /\ DOMAIN work'[q] = {1} /\ work'[q][1] = x
    BY <2>2 DEF Todo
  <2> HIDE DEF x
  <2>7. Fits(x)' /\ Cleared(q, x)' /\ Caught(q, x)' /\ ~ Clash(x, x)'
    BY <2>3, <2>4, <2>5 DEF Fits, Cleared, Caught, Clash, Placing
  <2>8. Alone(q)'
    BY <1>2, <2>1 DEF PlanOK, Alone
  <2>9. Distinct(q)' /\ OneTrip(q)'
    BY <2>6 DEF Distinct, OneTrip
  <2> QED
    BY <2>6, <2>7, <2>8, <2>9 DEF PlanOK
<1> QED
  BY <1>1, <1>2, <1>3 DEF Kept

LEMMA RefreshKeeps == ASSUME TypeInv, ListInv, NEW q \in Requests, Kept(q), Refresh(q) PROVE Kept(q)'
<1>1. Sound(q)
  BY RefreshShape
<1>2. Head(work[q]).do = "refresh" /\ Then(q, <<>>) /\ UNCHANGED <<rows, stops, trips>>
  BY DEF Refresh, Runs
<1>3. Head(work[q]).do \notin Watching \cup {"drop"}
  BY <1>2 DEF Watching
<1> QED
  BY <1>1, <1>2, <1>3, DoneKeeps

LEMMA PointKeeps == ASSUME TypeInv, ListInv, NEW q \in Requests, Kept(q), Point(q) PROVE Kept(q)'
<1> DEFINE k == Head(work[q])
<1>1. Sound(q)
  BY PointShape
<1>2. k.do = "point" /\ Then(q, <<>>) /\ UNCHANGED <<stops, trips>>
  BY DEF Point, Runs
<1>3. k.do \notin Watching \cup {"drop"}
  BY <1>2 DEF Watching
<1>4. rows' = [rows EXCEPT ![k.order].trip = k.trip] /\ rows \in [Orders -> RowType]
  BY DEF Point, TypeInv, DbType
<1> HIDE DEF k
<1>5. \A o \in Orders : rows'[o].status = rows[o].status
  BY <1>4 DEF RowType
<1> QED
  BY <1>1, <1>2, <1>3, <1>5, DoneKeeps DEF k

LEMMA PayBonusKeeps == ASSUME TypeInv, ListInv, NEW q \in Requests, Kept(q), PayBonus(q) PROVE Kept(q)'
<1>1. Sound(q)
  BY PayBonusShape
<1>2. Head(work[q]).do = "bonus" /\ Then(q, <<>>) /\ UNCHANGED <<rows, stops, trips>>
  BY DEF PayBonus, Runs
<1>3. Head(work[q]).do \notin Watching \cup {"drop"}
  BY <1>2 DEF Watching
<1> QED
  BY <1>1, <1>2, <1>3, DoneKeeps

LEMMA NotCaughtKeeps == ASSUME TypeInv, ListInv, NEW q \in Requests, Kept(q), NotCaught(q) PROVE Kept(q)'
<1>1. Sound(q)
  BY NotCaughtShape
<1>2. Head(work[q]).do = "catch" /\ Then(q, <<>>) /\ UNCHANGED <<rows, stops, trips>>
  BY DEF NotCaught, Runs, db
<1>3. Head(work[q]).do \notin Watching \cup {"drop"}
  BY <1>2 DEF Watching
<1> QED
  BY <1>1, <1>2, <1>3, DoneKeeps

LEMMA SaveKeeps == ASSUME TypeInv, ListInv, NEW q \in Requests, Kept(q), Save(q) PROVE Kept(q)'
<1> DEFINE k == Head(work[q])
<1>1. Sound(q)
  BY SaveShape
<1>2. k.do = "save" /\ UNCHANGED <<stops, trips>> /\ rows \in [Orders -> RowType] /\ work[q] # <<>>
  BY DEF Save, Runs, TypeInv, DbType
<1>3. k.do \notin Watching \cup {"drop"}
  BY <1>2 DEF Watching
<1>4. \/ Throw(q) /\ rows[k.order].status \in Terminal /\ k.row.status # rows[k.order].status
      \/ Then(q, <<>>) /\ rows' = [rows EXCEPT ![k.order] = k.row]
  BY DEF Save
<1>5. q \in past.planners => k.row.status \notin Terminal /\ rows[k.order].status \notin Terminal
  <2>1. q \in past.planners => PlanOK(q) /\ k \in Todo(q)
    BY <1>1, <1>2, Facts DEF Kept
  <2> QED
    BY <1>2, <2>1 DEF PlanOK, Fits
<1>6. \A x \in Later(q) : k.do \in Before(x.do)
  BY <1>1, Facts
<1>7. q \notin past.planners => \A x \in Later(q) : x.do \in Moving \cup Shared
  BY <1>1, Facts
<1> HIDE DEF k
<1>8. CASE Then(q, <<>>) /\ rows' = [rows EXCEPT ![k.order] = k.row]
  <2>1. q \in past.planners => \A o \in Orders : rows[o].status \notin Terminal => rows'[o].status \notin Terminal
    BY <1>2, <1>5, <1>8
  <2> QED
    BY <1>1, <1>2, <1>3, <1>8, <2>1, DoneKeeps DEF k
<1>9. CASE Throw(q) /\ rows[k.order].status \in Terminal
  <2>1. q \notin past.planners
    BY <1>5, <1>9
  <2>2. \A x \in Later(q) : x.do \notin Watching
    BY <1>2, <1>6, <1>7, <2>1 DEF Before, Moving, Shared, Watching
  <2> QED
    BY <1>1, <1>2, <1>3, <1>9, <2>1, <2>2, BrokenKeeps DEF k
<1> QED
  BY <1>4, <1>8, <1>9

LEMMA DropKeeps == ASSUME TypeInv, ListInv, NEW q \in Requests, Kept(q), Drop(q) PROVE Kept(q)'
<1> DEFINE o == Head(work[q]).order
           n == Len(trips)
           a == Task("point", o, "nobody", 0)
           b == TripTask("settle", stops[o].trip)
           rest == IF stops[o] = NoStop THEN <<>> ELSE <<b>>
           ts == <<a>> \o rest
<1>0. Sound(q)
  BY DropShape
<1> SUFFICES ASSUME NEW k, k = Head(work[q]) PROVE Kept(q)'
  OBVIOUS
<1>1. /\ work[q] # <<>> /\ k.do = "drop" /\ k \in Tasks(n) /\ n \in Nat /\ past' = past
      /\ k \in Todo(q) /\ Todo(q) = {k} \cup Later(q) /\ Later(q) \subseteq Tasks(n)
  BY <1>0, Facts DEF Drop, Runs
<1>2. o \in Orders
  BY <1>1, TaskFields
<1>3. /\ stops' = [stops EXCEPT ![o] = NoStop] /\ UNCHANGED <<rows, trips>> /\ Then(q, ts)
      /\ stops \in [Orders -> [trip : 0 .. n, dropped : BOOLEAN]]
      /\ \A u \in Orders : stops[u].trip = 0 => stops[u] = NoStop
  BY DEF Drop, TypeInv, DbType
<1>4. /\ stops'[o] = NoStop /\ \A u \in Orders \ {o} : stops'[u] = stops[u]
      /\ stops[o] # NoStop => stops[o].trip \in 1 .. n
      /\ stops'[o].trip = 0
  <2>1. stops'[o] = NoStop /\ \A u \in Orders \ {o} : stops'[u] = stops[u]
    BY <1>2, <1>3
  <2>2. stops[o].trip \in 0 .. n /\ (stops[o].trip = 0 => stops[o] = NoStop)
    BY <1>2, <1>3
  <2>3. NoStop.trip = 0
    BY DEF NoStop
  <2> QED
    BY <1>1, <2>1, <2>2, <2>3
<1>5. a \in Tasks(n) /\ a.do = "point" /\ b.do = "settle" /\ b.trip = stops[o].trip
  BY <1>1, <1>2 DEF Task, TripTask, Tasks, OrderTasks, Carriers
<1>6. stops[o] # NoStop => b \in Tasks(n)
  BY <1>1, <1>4 DEF TripTask, Tasks, TripTasks
<1>7. ts \in Seq(Tasks(n)) /\ Elems(ts) = {a} \cup (IF stops[o] = NoStop THEN {} ELSE {b})
  <2> DEFINE first == <<a>>
             S == Tasks(n)
  <2>1. first \in Seq(S) /\ Elems(first) = {a}
    BY <1>1, <1>5, ShortLists
  <2>2. rest \in Seq(S) /\ Elems(rest) = IF stops[o] = NoStop THEN {} ELSE {b}
    BY <1>1, <1>6, ShortLists
  <2> HIDE DEF first, rest, S, a, b
  <2>3. first \o rest \in Seq(S) /\ Elems(first \o rest) = Elems(first) \cup Elems(rest)
    BY <2>1, <2>2, Joined
  <2> QED
    BY <2>1, <2>2, <2>3 DEF first, S
<1>8. \A x \in Later(q) : k.do \in Before(x.do)
  BY <1>0, Facts
<1> HIDE DEF a, b, ts, rest
<1>9. Todo(q)' = Elems(ts) \cup Later(q)
  BY <1>0, <1>3, <1>7, Moved
<1>10. Covered'
  <2>1. k.do \notin Watching /\ b.do \in Watching
    BY <1>1, <1>5 DEF Watching
  <2>2. ASSUME NEW t \in DOMAIN trips, Undropped(t) # {}, Undropped(t)' = {}
        PROVE  Watches(q, t)'
    <3>1. PICK u \in Orders : stops[u].trip = t /\ ~ stops[u].dropped
      BY <2>2 DEF Undropped, On
    <3>2. u = o
      BY <1>4, <2>2, <3>1 DEF Undropped, On
    <3>3. t # 0
      BY <1>0, <1>1, Facts
    <3>4. stops[o] # NoStop
      BY <3>1, <3>2, <3>3 DEF NoStop
    <3>5. b \in Todo(q)' /\ b.trip = t
      BY <1>5, <1>7, <1>9, <3>1, <3>2, <3>4
    <3> QED
      BY <2>1, <3>5 DEF Watches
  <2>3. \A t \in DOMAIN trips' : trips'[t].status \in Active =>
            \/ Undropped(t)' # {}
            \/ Watches(q, t)'
            \/ /\ t \in DOMAIN trips /\ trips[t].status \in Active /\ Undropped(t) = {}
               /\ k.do \in Watching => k.trip # t
    BY <1>3, <2>1, <2>2
  <2> QED
    BY <1>0, <1>9, <2>3, CoverStep DEF Kept
<1>11. ASSUME q \in past.planners PROVE PlanOK(q)'
  <2>1. PlanOK(q)
    BY <1>1, <1>11 DEF Kept
  <2>2. \A x \in Elems(ts) : x.do \in {"point", "settle"}
    BY <1>5, <1>7
  <2>3. \A x \in Elems(ts) : x.do \notin Taking
    BY <2>2 DEF Taking
  <2>4. \A x \in Elems(ts) \cup Later(q) : x.do \notin {"cancel", "create", "revive"}
    BY <1>1, <1>8, <2>2 DEF Before
  <2>5. ASSUME NEW x \in Elems(ts) \cup Later(q) PROVE Fits(x)' /\ Cleared(q, x)' /\ Caught(q, x)'
    <3>1. CASE x \in Elems(ts)
      BY <2>2, <3>1 DEF Fits, Cleared, Caught, Placing
    <3>2. CASE x \in Later(q)
      <4>1. Fits(x) /\ Cleared(q, x)
        BY <1>1, <2>1, <3>2 DEF PlanOK
      <4>2. Fits(x)'
        BY <1>3, <2>4, <4>1 DEF Fits
      <4>3. Caught(q, x)'
        BY <1>9, <2>4 DEF Caught
      <4>4. Cleared(q, x)'
        <5>1. SUFFICES ASSUME x.do \in Placing
                       PROVE  stops'[x.order] = NoStop \/ DropTask(x.order) \in Todo(q)'
          BY DEF Cleared
        <5>2. stops[x.order] = NoStop \/ DropTask(x.order) \in Todo(q)
          BY <4>1, <5>1 DEF Cleared
        <5>3. x.order \in Orders
          BY <1>1, <3>2, <5>1, TaskFields DEF Placing
        <5>4. DropTask(x.order).order = x.order
          BY DEF DropTask
        <5>5. CASE x.order = o
          BY <1>4, <5>5
        <5>6. CASE x.order # o
          BY <1>1, <1>4, <1>9, <5>2, <5>3, <5>4, <5>6
        <5> QED
          BY <5>5, <5>6
      <4> QED
        BY <4>2, <4>3, <4>4
    <3> QED
      BY <3>1, <3>2
  <2>6. ASSUME NEW x \in Elems(ts) \cup Later(q), NEW y \in Elems(ts) \cup Later(q), Clash(x, y)'
        PROVE  FALSE
    <3>1. /\ y.do \in Bound /\ y.trip # 0
          /\ \/ x.do \in {"assign", "drop"} /\ stops'[x.order].trip = y.trip
             \/ x.do \in {"settle", "close"} /\ x.trip = y.trip
      BY <2>6 DEF Clash
    <3>2. y \in Later(q)
      BY <2>2, <3>1 DEF Bound
    <3>3. ~ Clash(k, y) /\ (x \in Later(q) => ~ Clash(x, y))
      BY <1>1, <2>1, <3>2 DEF PlanOK
    <3>4. CASE x \in Elems(ts)
      <4>1. x = b
        BY <1>5, <1>7, <3>1, <3>4
      <4>2. stops[k.order].trip = y.trip
        BY <1>5, <3>1, <4>1
      <4> QED
        BY <1>1, <3>1, <3>3, <4>2 DEF Clash
    <3>5. CASE x \in Later(q) /\ x.do \in {"assign", "drop"}
      <4>1. x.order \in Orders
        BY <1>1, <3>5, TaskFields
      <4>2. stops'[x.order].trip = stops[x.order].trip
        BY <1>4, <3>1, <3>5, <4>1
      <4> QED
        BY <3>1, <3>3, <3>5, <4>2 DEF Clash
    <3>6. CASE x \in Later(q) /\ x.do \in {"settle", "close"}
      BY <3>1, <3>3, <3>6 DEF Clash
    <3> QED
      BY <3>1, <3>4, <3>5, <3>6
  <2>7. trips' = trips /\ ts \in Seq(Tasks(Len(trips')))
    BY <1>3, <1>7
  <2> QED
    BY <1>0, <1>3, <2>1, <2>3, <2>5, <2>6, <2>7, PlanKept
<1> QED
  BY <1>1, <1>10, <1>11 DEF Kept

LEMMA SettleKeeps == ASSUME TypeInv, ListInv, NEW q \in Requests, Kept(q), Settle(q) PROVE Kept(q)'
<1>0. Sound(q)
  BY SettleShape
<1> SUFFICES ASSUME NEW k, k = Head(work[q]) PROVE Kept(q)'
  OBVIOUS
<1> DEFINE n == Len(trips)
           c == CloseTask(k.trip, Verdict(k.trip))
           ts == Closing(k.trip)
<1>1. /\ work[q] # <<>> /\ k.do = "settle" /\ k \in Tasks(n) /\ n \in Nat /\ past' = past
      /\ k \in Todo(q) /\ Todo(q) = {k} \cup Later(q) /\ Then(q, ts) /\ UNCHANGED db
  BY <1>0, Facts DEF Settle, Runs
<1>2. k.trip \in 1 .. n
  BY <1>1, TaskFields
<1>3. Verdict(k.trip) = "open" \/ Verdict(k.trip) \in {"done", "cancelled"}
  BY DEF Verdict
<1>4. c.do = "close" /\ c.trip = k.trip /\ (Verdict(k.trip) # "open" => c \in Tasks(n))
  BY <1>1, <1>2, <1>3 DEF CloseTask, Tasks, TripTasks
<1>5. ts = IF Verdict(k.trip) = "open" THEN <<>> ELSE <<c>>
  BY DEF Closing
<1> HIDE DEF c, ts
<1>6. ts \in Seq(Tasks(n)) /\ Elems(ts) = IF Verdict(k.trip) = "open" THEN {} ELSE {c}
  BY <1>1, <1>4, <1>5, ShortLists
<1>7. UNCHANGED <<stops, trips>> /\ rows' = rows /\ ts \in Seq(Tasks(Len(trips')))
  BY <1>1, <1>6 DEF db
<1>8. Todo(q)' = Elems(ts) \cup Later(q)
  BY <1>0, <1>1, <1>7, Moved
<1>9. Covered'
  <2>1. Verdict(k.trip) = "open" => Undropped(k.trip) # {}
    BY DEF Verdict
  <2>2. Verdict(k.trip) # "open" => Watches(q, k.trip)'
    BY <1>4, <1>6, <1>8 DEF Watches, Watching
  <2> QED
    BY <1>0, <1>7, <1>8, <2>1, <2>2, CoverIdle DEF Kept
<1>10. ASSUME q \in past.planners PROVE PlanOK(q)'
  <2>1. PlanOK(q)
    BY <1>1, <1>10 DEF Kept
  <2>2. \A x \in Elems(ts) : x.do = "close" /\ x.trip = k.trip
    BY <1>4, <1>6
  <2>3. \A x \in Elems(ts) : x.do \notin Taking /\ Fits(x) /\ Caught(q, x)' /\ Cleared(q, x)'
                             /\ x.do \notin {"cancel", "create"}
    BY <2>2 DEF Taking, Fits, Caught, Cleared, Placing
  <2>4. ASSUME NEW x \in Elems(ts), NEW y \in Elems(ts) \cup Later(q) PROVE ~ Clash(x, y) /\ ~ Clash(y, x)
    <3>1. ~ Clash(y, x)
      BY <2>2 DEF Clash, Bound
    <3>2. CASE y \in Elems(ts)
      BY <2>2, <3>1, <3>2 DEF Clash, Bound
    <3>3. CASE y \in Later(q)
      <4>1. ~ Clash(k, y)
        BY <1>1, <2>1, <3>3 DEF PlanOK
      <4> QED
        BY <1>1, <2>2, <3>1, <4>1 DEF Clash
    <3> QED
      BY <3>2, <3>3
  <2>5. k.do # "drop" /\ \A o \in Orders : rows[o].status \notin Terminal => rows'[o].status \notin Terminal
    BY <1>1, <1>7
  <2> QED
    BY <1>0, <1>1, <1>7, <2>1, <2>3, <2>4, <2>5, PlanIdle
<1> QED
  BY <1>1, <1>9, <1>10 DEF Kept

LEMMA CloseKeeps == ASSUME TypeInv, ListInv, NEW q \in Requests, Kept(q), CloseTrip(q) PROVE Kept(q)'
<1>0. Sound(q)
  BY CloseShape
<1> SUFFICES ASSUME NEW k, k = Head(work[q]) PROVE Kept(q)'
  OBVIOUS
<1> DEFINE n == Len(trips)
           ts == <<>>
<1>1. /\ work[q] # <<>> /\ k.do = "close" /\ k \in Tasks(n) /\ n \in Nat /\ past' = past
      /\ k \in Todo(q) /\ Todo(q) = {k} \cup Later(q) /\ Then(q, ts) /\ UNCHANGED <<rows, stops, free, bonus>>
      /\ DOMAIN trips = 1 .. n /\ Later(q) \subseteq Tasks(n)
  BY <1>0, Facts DEF CloseTrip, Runs
<1>2. k.trip \in 1 .. n /\ k.to \in {"done", "cancelled"}
  BY <1>1, TaskFields
<1>3. trips' = IF trips[k.trip].status \in Active THEN [trips EXCEPT ![k.trip].status = k.to] ELSE trips
  BY Zenon DEF CloseTrip
<1>4. /\ Len(trips') = n /\ DOMAIN trips' = DOMAIN trips
      /\ \A u \in DOMAIN trips \ {k.trip} : trips'[u] = trips[u]
      /\ trips' # trips => trips'[k.trip].status = k.to
  <2>1. trips' = trips \/ trips' = [trips EXCEPT ![k.trip].status = k.to]
    BY <1>3, Zenon
  <2> QED
    BY <1>1, <1>2, <2>1, TripChanges, Zenon
<1>5. trips'[k.trip].status \notin Active
  <2>1. CASE trips' = trips
    <3>1. trips \in Seq(TripType)
      BY DEF TypeInv, DbType
    <3>2. [trips EXCEPT ![k.trip].status = k.to][k.trip].status = k.to
      BY <1>1, <1>2, <3>1 DEF TripType
    <3> QED
      BY <1>2, <1>3, <2>1, <3>2 DEF Active
  <2>2. CASE trips' # trips
    BY <1>2, <1>4, <2>2 DEF Active
  <2> QED
    BY <2>1, <2>2
<1>6. ts \in Seq(Tasks(Len(trips'))) /\ Elems(ts) = {}
  BY <1>1, <1>4, ShortLists
<1> HIDE DEF ts
<1>7. Todo(q)' = Elems(ts) \cup Later(q)
  BY <1>0, <1>1, <1>6, Moved
<1>8. \A t : Undropped(t)' = Undropped(t)
  BY <1>1 DEF Undropped, On
<1>9. Covered'
  <2>1. \A t \in DOMAIN trips' : trips'[t].status \in Active =>
            \/ Undropped(t)' # {}
            \/ Watches(q, t)'
            \/ /\ t \in DOMAIN trips /\ trips[t].status \in Active /\ Undropped(t) = {}
               /\ k.do \in Watching => k.trip # t
    BY <1>4, <1>5, <1>8
  <2> QED
    BY <1>0, <1>7, <2>1, CoverStep DEF Kept
<1>10. ASSUME q \in past.planners PROVE PlanOK(q)'
  <2>1. PlanOK(q)
    BY <1>1, <1>10 DEF Kept
  <2>2. ASSUME NEW x \in Later(q) PROVE Fits(x)' /\ Cleared(q, x)' /\ Caught(q, x)'
    <3>1. Fits(x) /\ Cleared(q, x) /\ Caught(q, x) /\ ~ Clash(k, x)
      BY <1>1, <2>1 DEF PlanOK
    <3>2. ASSUME x.do \in {"assign", "pick"}, x.trip # 0 PROVE trips'[x.trip] = trips[x.trip]
      <4>1. x.trip # k.trip
        BY <1>1, <3>1, <3>2 DEF Clash, Bound
      <4>2. x.trip \in 1 .. n
        BY <1>1, <3>2, TaskFields
      <4> QED
        BY <1>1, <1>4, <4>1, <4>2
    <3>3. Fits(x)'
      BY <1>1, <1>8, <3>1, <3>2 DEF Fits
    <3>4. Cleared(q, x)'
      <4>1. DropTask(x.order).do = "drop"
        BY DEF DropTask
      <4> QED
        BY <1>1, <1>7, <3>1, <4>1 DEF Cleared
    <3>5. Caught(q, x)'
      BY <1>1, <1>6, <1>7, <1>8, <3>1 DEF Caught
    <3> QED
      BY <3>3, <3>4, <3>5
  <2>3. ASSUME NEW x \in Later(q), NEW y \in Later(q) PROVE ~ Clash(x, y)'
    <3>1. ~ Clash(x, y)
      BY <1>1, <2>1 DEF PlanOK
    <3> QED
      BY <1>1, <3>1 DEF Clash
  <2> QED
    BY <1>0, <1>1, <1>6, <2>1, <2>2, <2>3, PlanKept
<1> QED
  BY <1>1, <1>9, <1>10 DEF Kept

\* Behind a pick, an open or a place of no trip yet, nothing else takes one.
LEMMA TakenAlone ==
  ASSUME TypeInv, ListInv, NEW q \in Requests, Sound(q), NEW k, k = Head(work[q]), PlanOK(q),
         k.do \in Placing
  PROVE  /\ \A x \in Later(q) : x.do \notin Placing \cup {"drop", "settle", "close", "cancel", "create", "revive"}
         /\ stops[k.order] = NoStop
         /\ k.trip = 0 => \A x \in Later(q) : x.do \notin Taking
<1>1. /\ Todo(q) = {k} \cup Later(q) /\ \A x \in Later(q) : k.do \in Before(x.do)
      /\ \A x \in Todo(q) : x.do = "assign" /\ x.trip = 0 => Later(q) = {} /\ x = k
  BY Facts
<1>2. ASSUME NEW x \in Later(q)
      PROVE  x.do \notin Placing \cup {"drop", "settle", "close", "cancel", "create", "revive"}
  <2>1. k.do \in Before(x.do)
    BY <1>1
  <2> QED
    BY <2>1 DEF Before, Placing
<1>3. stops[k.order] = NoStop
  <2>1. DropTask(k.order).do = "drop"
    BY DEF DropTask
  <2>2. DropTask(k.order) \notin Todo(q)
    <3>1. k.do # "drop"
      BY DEF Placing
    <3> QED
      BY <1>1, <1>2, <2>1, <3>1
  <2>3. Cleared(q, k)
    BY <1>1 DEF PlanOK
  <2> QED
    BY <2>2, <2>3 DEF Cleared
<1>4. ASSUME k.trip = 0, NEW x \in Later(q), x.do \in Taking PROVE FALSE
  <2>1. x.do = "assign"
    BY <1>2, <1>4 DEF Taking, Placing
  <2>2. x.trip = 0
    <3>1. k.do \in Taking
      BY DEF Taking, Placing
    <3> QED
      BY <1>1, <1>4, <3>1 DEF PlanOK, OneTrip
  <2> QED
    BY <1>1, <1>4, <2>1, <2>2
<1> QED
  BY <1>2, <1>3, <1>4

LEMMA PickKeeps == ASSUME TypeInv, ListInv, NEW q \in Requests, Kept(q), Pick(q) PROVE Kept(q)'
<1>0. Sound(q)
  BY PickShape
<1> SUFFICES ASSUME NEW k, k = Head(work[q]) PROVE Kept(q)'
  OBVIOUS
<1> DEFINE n == Len(trips)
           place(t) == Task("place", k.order, k.rider, t)
           open == Task("open", k.order, k.rider, 0)
<1>1. /\ work[q] # <<>> /\ k \in Tasks(n) /\ n \in Nat /\ past' = past
      /\ k \in Todo(q) /\ Todo(q) = {k} \cup Later(q) /\ UNCHANGED db
      /\ DOMAIN trips = 1 .. n
  BY <1>0, Facts DEF Pick
<1>2. /\ k.do = "pick"
      /\ \/ /\ Throw(q) /\ k.trip # 0
            /\ ~ (trips[k.trip].rider = k.rider /\ trips[k.trip].status = "planned")
         \/ \E t \in 1 .. n :
              /\ k.trip # 0 => t = k.trip
              /\ place(t) \in Tasks(n) /\ Then(q, <<place(t)>>)
         \/ k.trip = 0 /\ open \in Tasks(n) /\ Then(q, <<open>>)
  BY PickList, Zenon
<1>3. PlanOK(q)
  <2>1. q \in past.planners
    BY <1>0, <1>1, <1>2, Facts DEF Moving, Shared
  <2> QED
    BY <1>1, <2>1 DEF Kept
<1>4. UNCHANGED <<rows, stops, trips>>
  BY <1>1 DEF db
<1>5. /\ \A x \in Later(q) : x.do \notin Placing \cup {"drop", "settle", "close", "cancel", "create", "revive"}
      /\ stops[k.order] = NoStop
      /\ k.trip = 0 => \A x \in Later(q) : x.do \notin Taking
  <2>1. k.do \in Placing
    BY <1>2 DEF Placing
  <2> QED
    BY <1>0, <1>3, <2>1, TakenAlone
<1>6. ASSUME NEW x \in Tasks(n), Then(q, <<x>>), x.order = k.order, x.do \in {"place", "open"},
             x.trip = k.trip \/ (k.trip = 0 /\ x.trip \in 1 .. n),
             x.do = "place" => x.trip \in 1 .. n, x.do = "open" => x.trip = 0,
             k.trip # 0 => x.do = "place"
      PROVE  Kept(q)'
  <2> DEFINE ts == <<x>>
  <2>1. ts \in Seq(Tasks(n)) /\ Elems(ts) = {x} /\ Then(q, ts)
    BY <1>1, <1>6, ShortLists
  <2> HIDE DEF ts
  <2>2. ts \in Seq(Tasks(Len(trips')))
    BY <1>4, <2>1
  <2>3. Todo(q)' = Elems(ts) \cup Later(q)
    BY <1>0, <2>1, <2>2, Moved
  <2>4. Covered'
    <3>1. k.trip \in DOMAIN trips => Watches(q, k.trip)'
      <4>1. k.trip # 0 => x.do \in Watching /\ x.trip = k.trip
        BY <1>6 DEF Watching
      <4> QED
        BY <1>1, <2>1, <2>3, <4>1 DEF Watches
    <3> QED
      BY <1>0, <1>4, <2>3, <3>1, CoverIdle DEF Kept
  <2>5. PlanOK(q)'
    <3>1. k.do \in Taking /\ x.do # "assign"
      BY <1>2, <1>6 DEF Taking
    <3>2. /\ Fits(x) /\ Caught(q, x)' /\ Cleared(q, x)' /\ x.do \notin {"cancel", "create"}
      <4>1. Cleared(q, x)'
        BY <1>4, <1>5, <1>6 DEF Cleared
      <4> QED
        BY <1>6, <4>1 DEF Fits, Caught
    <3>3. ASSUME NEW y \in Elems(ts) \cup Later(q) PROVE ~ Clash(x, y) /\ ~ Clash(y, x)
      <4>1. ~ Clash(x, y)
        BY <1>6 DEF Clash
      <4>2. CASE y \in Elems(ts)
        BY <2>1, <4>1, <4>2
      <4>3. CASE y \in Later(q)
        <5>1. y.do \notin {"drop", "settle", "close"}
          BY <1>5, <4>3
        <5>2. CASE k.trip = 0
          <6>1. y.do # "assign"
            BY <1>5, <4>3, <5>2 DEF Taking
          <6> QED
            BY <4>1, <5>1, <6>1 DEF Clash
        <5>3. CASE k.trip # 0
          <6>1. ~ Clash(y, k) /\ x.trip = k.trip /\ k.do \in Bound
            BY <1>1, <1>2, <1>3, <1>6, <4>3, <5>3 DEF PlanOK, Bound
          <6> QED
            BY <4>1, <5>1, <5>3, <6>1, Zenon DEF Clash
        <5> QED
          BY <5>2, <5>3
      <4> QED
        BY <4>2, <4>3
    <3>4. x.trip = k.trip \/ \A y \in Later(q) : y.do \notin Taking
      BY <1>5, <1>6
    <3>5. k.do # "drop"
      BY <1>2
    <3> QED
      BY <1>0, <1>3, <1>4, <1>6, <2>1, <2>2, <3>1, <3>2, <3>3, <3>4, <3>5, PlanIdle
  <2> QED
    BY <1>1, <2>4, <2>5 DEF Kept
<1>7. CASE Throw(q) /\ k.trip # 0 /\ ~ (trips[k.trip].rider = k.rider /\ trips[k.trip].status = "planned")
  <2>1. Fits(k)
    BY <1>1, <1>3 DEF PlanOK
  <2> QED
    BY <1>2, <1>7, <2>1 DEF Fits
<1>8. ASSUME NEW t \in 1 .. n, k.trip # 0 => t = k.trip, place(t) \in Tasks(n), Then(q, <<place(t)>>)
      PROVE  Kept(q)'
  <2> DEFINE x == place(t)
  <2>1. x.order = k.order /\ x.do = "place" /\ x.trip = t /\ x \in Tasks(n) /\ Then(q, <<x>>)
    BY <1>8 DEF Task
  <2> HIDE DEF x
  <2> QED
    BY <1>6, <1>8, <2>1
<1>9. CASE k.trip = 0 /\ open \in Tasks(n) /\ Then(q, <<open>>)
  <2>1. open.order = k.order /\ open.do = "open" /\ open.trip = 0
    BY DEF Task
  <2>2. PICK x \in Tasks(n) : Then(q, <<x>>) /\ x.order = k.order /\ x.do = "open" /\ x.trip = 0
    BY <1>9, <2>1
  <2>3. x.do \in {"place", "open"} /\ (x.do = "place" => x.trip \in 1 .. n)
    BY <2>2
  <2>4. /\ x.trip = k.trip \/ (k.trip = 0 /\ x.trip \in 1 .. n)
        /\ x.do = "open" => x.trip = 0
        /\ k.trip # 0 => x.do = "place"
    BY <1>9, <2>2
  <2> QED
    BY <1>6, <2>2, <2>3, <2>4
<1> QED
  BY <1>2, <1>7, <1>8, <1>9

LEMMA OpenKeeps == ASSUME TypeInv, ListInv, NEW q \in Requests, Kept(q), OpenTrip(q) PROVE Kept(q)'
<1>0. Sound(q)
  BY OpenShape
<1> SUFFICES ASSUME NEW k, k = Head(work[q]), NEW n, n = Len(trips) PROVE Kept(q)'
  OBVIOUS
<1> DEFINE x == [k EXCEPT !.do = "place", !.trip = n + 1]
           ts == <<x>>
<1>1. /\ work[q] # <<>> /\ k.do = "open" /\ k \in Tasks(n) /\ n \in Nat /\ past' = past
      /\ k \in Todo(q) /\ Todo(q) = {k} \cup Later(q) /\ Later(q) \subseteq Tasks(n)
      /\ DOMAIN trips = 1 .. n /\ UNCHANGED <<rows, stops, free, bonus>> /\ Then(q, ts)
      /\ n < MaxTrips /\ NewTrip(k.rider) /\ DbType'
  BY <1>0, Facts DEF OpenTrip, Runs
<1>2. k \in [do : {"open"}, order : Orders, rider : Riders, trip : 0 .. n]
  BY <1>1, TaskFields
<1>3. /\ Len(trips') = n + 1 /\ \A t \in DOMAIN trips : t \in DOMAIN trips' /\ trips'[t] = trips[t]
  BY <1>1, <1>2, TripAdded
<1>4. DOMAIN trips' = 1 .. n + 1
  BY <1>1, <1>3 DEF DbType
<1>5. x.do = "place" /\ x.trip = n + 1 /\ x.order = k.order /\ x \in Tasks(n + 1)
  <2>1. n + 1 \in 1 .. n + 1
    BY <1>1
  <2>2. x \in [do : {"place"}, order : Orders, rider : Riders, trip : 1 .. n + 1]
    BY <1>2, <2>1
  <2>3. x \in Tasks(n + 1)
    BY <2>2 DEF Tasks, OrderTasks
  <2> QED
    BY <1>2, <2>3
<1> HIDE DEF x
<1>6. ts \in Seq(Tasks(Len(trips'))) /\ Elems(ts) = {x}
  BY <1>1, <1>3, <1>5, ShortLists
<1> HIDE DEF ts
<1>7. Todo(q)' = Elems(ts) \cup Later(q)
  BY <1>0, <1>1, <1>6, Moved
<1>8. \A t : Undropped(t)' = Undropped(t)
  BY <1>1 DEF Undropped, On
<1>9. PlanOK(q) /\ k.trip = 0
  <2>1. q \in past.planners
    BY <1>0, <1>1, Facts DEF Moving, Shared
  <2>2. PlanOK(q)
    BY <1>1, <2>1 DEF Kept
  <2> QED
    BY <1>1, <2>2 DEF PlanOK, Fits
<1>10. /\ \A y \in Later(q) : y.do \notin Placing \cup {"drop", "settle", "close", "cancel", "create", "revive"}
       /\ stops[k.order] = NoStop
       /\ \A y \in Later(q) : y.do \notin Taking
  <2>1. k.do \in Placing
    BY <1>1 DEF Placing
  <2> QED
    BY <1>0, <1>9, <2>1, TakenAlone
<1>11. Covered'
  <2>1. Watches(q, n + 1)'
    BY <1>5, <1>6, <1>7 DEF Watches, Watching
  <2>2. \A t \in DOMAIN trips' : t = n + 1 \/ t \in DOMAIN trips
    BY <1>1, <1>4
  <2>3. k.do \notin Watching
    BY <1>1 DEF Watching
  <2>4. \A t \in DOMAIN trips' : trips'[t].status \in Active =>
            \/ Undropped(t)' # {}
            \/ Watches(q, t)'
            \/ /\ t \in DOMAIN trips /\ trips[t].status \in Active /\ Undropped(t) = {}
               /\ k.do \in Watching => k.trip # t
    BY <1>3, <1>8, <2>1, <2>2, <2>3
  <2> QED
    BY <1>0, <1>7, <2>4, CoverStep DEF Kept
<1>12. PlanOK(q)'
  <2>1. ASSUME NEW y \in Later(q) PROVE Fits(y)' /\ Cleared(q, y)' /\ Caught(q, y)'
    <3>1. Fits(y) /\ y.do \notin {"assign", "pick", "place", "open", "revive"}
      BY <1>1, <1>9, <1>10, <2>1 DEF PlanOK, Taking
    <3>2. Fits(y)'
      BY <1>1, <3>1 DEF Fits
    <3>3. Cleared(q, y)'
      BY <3>1 DEF Cleared, Placing
    <3>4. Caught(q, y)'
      BY <1>5, <1>6, <1>7, <1>10 DEF Caught
    <3> QED
      BY <3>2, <3>3, <3>4
  <2>2. Fits(x)' /\ Cleared(q, x)' /\ Caught(q, x)'
    <3>1. Cleared(q, x)'
      BY <1>1, <1>5, <1>10 DEF Cleared
    <3> QED
      BY <1>5, <3>1 DEF Fits, Caught
  <2>3. ASSUME NEW y \in Elems(ts) \cup Later(q) PROVE y.do \notin {"assign", "drop", "settle", "close"}
    BY <1>5, <1>6, <1>10 DEF Taking
  <2>4. \A y, z \in Elems(ts) \cup Later(q) : ~ Clash(y, z)'
    BY <2>3 DEF Clash
  <2>5. k.do \in Taking
    BY <1>1 DEF Taking
  <2> QED
    BY <1>0, <1>1, <1>5, <1>6, <1>9, <1>10, <2>1, <2>2, <2>4, <2>5, PlanKept
<1> QED
  BY <1>1, <1>11, <1>12 DEF Kept

LEMMA PlaceKeeps == ASSUME TypeInv, ListInv, NEW q \in Requests, Kept(q), Place(q) PROVE Kept(q)'
<1>0. Sound(q)
  BY PlaceShape
<1> SUFFICES ASSUME NEW k, k = Head(work[q]) PROVE Kept(q)'
  OBVIOUS
<1> DEFINE n == Len(trips)
           x == [k EXCEPT !.do = "point"]
           ts == <<x>>
<1>1. /\ work[q] # <<>> /\ k.do = "place" /\ k \in Tasks(n) /\ n \in Nat /\ past' = past
      /\ k \in Todo(q) /\ Todo(q) = {k} \cup Later(q) /\ Later(q) \subseteq Tasks(n)
      /\ DOMAIN trips = 1 .. n /\ UNCHANGED <<rows, trips, free, bonus>> /\ k = work[q][1]
  BY <1>0, Facts DEF Place, Runs
<1>2. k \in [do : {"place"}, order : Orders, rider : Riders, trip : 1 .. n]
  BY <1>1, TaskFields
<1>3. PlanOK(q)
  <2>1. q \in past.planners
    BY <1>0, <1>1, Facts DEF Moving, Shared
  <2> QED
    BY <1>1, <2>1 DEF Kept
<1>4. /\ \A y \in Later(q) : y.do \notin Placing \cup {"drop", "settle", "close", "cancel", "create", "revive"}
      /\ stops[k.order] = NoStop
  <2>1. k.do \in Placing
    BY <1>1 DEF Placing
  <2> QED
    BY <1>0, <1>3, <2>1, TakenAlone
<1>5. stops' = [stops EXCEPT ![k.order].trip = k.trip] /\ Then(q, ts)
  BY <1>4 DEF Place
<1>6. x.do = "point" /\ x \in Tasks(n)
  <2>1. x \in [do : {"point"}, order : Orders, rider : Carriers, trip : 0 .. n]
    BY <1>1, <1>2 DEF Carriers
  <2>2. x \in Tasks(n)
    BY <2>1 DEF Tasks, OrderTasks
  <2> QED
    BY <1>2, <2>2
<1> HIDE DEF x
<1>7. ts \in Seq(Tasks(Len(trips'))) /\ Elems(ts) = {x}
  BY <1>1, <1>6, ShortLists
<1> HIDE DEF ts
<1>8. Todo(q)' = Elems(ts) \cup Later(q)
  BY <1>0, <1>5, <1>7, Moved
<1>9. /\ k.order \in Orders /\ k.trip \in 1 .. n
      /\ stops'[k.order].trip = k.trip /\ stops'[k.order].dropped = FALSE
      /\ \A o \in Orders \ {k.order} : stops'[o] = stops[o]
  <2>1. k.order \in Orders /\ k.trip \in 1 .. n
    BY <1>2
  <2>2. stops \in [Orders -> [trip : 0 .. n, dropped : BOOLEAN]] /\ stops[k.order].dropped = FALSE
    BY <1>4 DEF TypeInv, DbType, NoStop
  <2> QED
    BY <1>5, <2>1, <2>2
<1>10. Covered'
  <2>1. Undropped(k.trip)' # {}
    BY <1>9 DEF Undropped, On
  <2>2. ASSUME NEW t \in DOMAIN trips, Undropped(t) # {} PROVE Undropped(t)' # {}
    <3>1. PICK o \in Orders : stops[o].trip = t /\ ~ stops[o].dropped
      BY <2>2 DEF Undropped, On
    <3>2. o # k.order
      BY <1>1, <1>4, <3>1 DEF NoStop
    <3>3. stops'[o] = stops[o]
      BY <1>9, <3>2
    <3> QED
      BY <3>1, <3>3 DEF Undropped, On
  <2>3. \A t \in DOMAIN trips' : trips'[t].status \in Active =>
            \/ Undropped(t)' # {}
            \/ Watches(q, t)'
            \/ /\ t \in DOMAIN trips /\ trips[t].status \in Active /\ Undropped(t) = {}
               /\ k.do \in Watching => k.trip # t
    BY <1>1, <2>1, <2>2
  <2> QED
    BY <1>0, <1>8, <2>3, CoverStep DEF Kept
<1>11. PlanOK(q)'
  <2>1. ASSUME NEW y \in Later(q) PROVE Fits(y)' /\ Cleared(q, y)' /\ Caught(q, y)'
    <3>1. Fits(y) /\ y.do \notin {"pick", "place", "open", "revive"}
      BY <1>1, <1>3, <1>4, <2>1 DEF PlanOK, Placing
    <3>2. Fits(y)'
      BY <1>1, <3>1 DEF Fits
    <3>3. Cleared(q, y)'
      BY <3>1 DEF Cleared, Placing
    <3>4. Caught(q, y)'
      BY <1>4, <1>6, <1>7, <1>8 DEF Caught
    <3> QED
      BY <3>2, <3>3, <3>4
  <2>2. Fits(x)' /\ Cleared(q, x)' /\ Caught(q, x)'
    BY <1>6 DEF Fits, Caught, Cleared, Placing
  <2>3. ASSUME NEW y \in Later(q), y.do = "assign" PROVE stops'[y.order].trip = stops[y.order].trip
    <3>1. y.order \in Orders
      BY <1>1, <2>3, TaskFields
    <3>2. y.order # k.order
      <4>1. PICK i \in 2 .. Len(work[q]) : y = work[q][i]
        BY DEF Later
      <4>2. work[q] \in Seq(Tasks(n))
        BY DEF TypeInv
      <4>3. 1 \in DOMAIN work[q] /\ i \in DOMAIN work[q] /\ 1 < i
        BY <1>1, <4>2
      <4>4. k.do \in Taking
        BY <1>1 DEF Taking
      <4> QED
        BY <1>1, <1>3, <2>3, <4>1, <4>3, <4>4 DEF PlanOK, Distinct
    <3> QED
      BY <1>9, <3>1, <3>2
  <2>4. ASSUME NEW y \in Elems(ts) \cup Later(q), NEW z \in Elems(ts) \cup Later(q), Clash(y, z)'
        PROVE  FALSE
    <3>1. /\ z.do \in Bound /\ z.trip # 0
          /\ \/ y.do \in {"assign", "drop"} /\ stops'[y.order].trip = z.trip
             \/ y.do \in {"settle", "close"} /\ y.trip = z.trip
      BY <2>4 DEF Clash
    <3>2. y.do \notin {"drop", "settle", "close"} /\ (y.do = "assign" => y \in Later(q))
      BY <1>4, <1>6, <1>7
    <3>3. z \in Later(q)
      BY <1>6, <1>7, <3>1 DEF Bound
    <3>4. y.do = "assign" /\ y \in Later(q)
      BY <3>1, <3>2
    <3>5. ~ Clash(y, z)
      BY <1>1, <1>3, <3>3, <3>4 DEF PlanOK
    <3> QED
      BY <2>3, <3>1, <3>4, <3>5 DEF Clash
  <2>5. \A y \in Elems(ts) : y.do \notin Taking
    BY <1>6, <1>7 DEF Taking
  <2> QED
    BY <1>0, <1>3, <1>5, <1>7, <2>1, <2>2, <2>4, <2>5, PlanKept
<1> QED
  BY <1>1, <1>10, <1>11 DEF Kept

LEMMA PickedUpKeeps == ASSUME TypeInv, ListInv, NEW q \in Requests, Kept(q), PickedUp(q) PROVE Kept(q)'
<1>0. Sound(q)
  BY PickedUpShape
<1> SUFFICES ASSUME NEW k, k = Head(work[q]) PROVE Kept(q)'
  OBVIOUS
<1> DEFINE n == Len(trips)
           ts == <<>>
<1>1. /\ k.do = "leave" /\ k \in Tasks(n) /\ n \in Nat /\ past' = past
      /\ k \in Todo(q) /\ Then(q, ts) /\ UNCHANGED <<rows, stops, free, bonus>> /\ DOMAIN trips = 1 .. n
  BY <1>0, Facts, Zenon DEF PickedUp, Runs
<1>2. q \notin past.planners
  BY <1>0, <1>1, Facts DEF Planning, Shared
<1>3. ts \in Seq(Tasks(Len(trips'))) /\ Elems(ts) = {}
  <2>1. Len(trips') \in Nat
    BY <1>0, Facts DEF DbType
  <2> QED
    BY <2>1, ShortLists
<1> HIDE DEF ts
<1>4. Todo(q)' = Elems(ts) \cup Later(q)
  BY <1>0, <1>1, <1>3, Moved
<1>7. DOMAIN trips' = DOMAIN trips /\ \A t \in DOMAIN trips : trips'[t].status \in Active => trips[t].status \in Active
  BY Leaves
<1>8. \A t : Undropped(t)' = Undropped(t)
  BY <1>1 DEF Undropped, On
<1>9. Covered'
  <2>1. k.do \notin Watching
    BY <1>1 DEF Watching
  <2>2. \A t \in DOMAIN trips' : trips'[t].status \in Active =>
            \/ Undropped(t)' # {}
            \/ Watches(q, t)'
            \/ /\ t \in DOMAIN trips /\ trips[t].status \in Active /\ Undropped(t) = {}
               /\ k.do \in Watching => k.trip # t
    BY <1>7, <1>8, <2>1
  <2> QED
    BY <1>0, <1>4, <2>2, CoverStep DEF Kept
<1> QED
  <2>1. q \notin past'.planners
    BY <1>1, <1>2
  <2> QED
    BY <1>9, <2>1, Zenon DEF Kept

LEMMA DeliverKeeps == ASSUME TypeInv, ListInv, NEW q \in Requests, Kept(q), Deliver(q) PROVE Kept(q)'
<1>0. Sound(q)
  BY DeliverShape
<1> SUFFICES ASSUME NEW k, k = Head(work[q]) PROVE Kept(q)'
  OBVIOUS
<1> DEFINE n == Len(trips)
           s == stops[k.order]
           x == Task("last", k.order, k.rider, s.trip)
           y == RefreshTask(k.rider)
<1>1. /\ work[q] # <<>> /\ k.do = "deliver" /\ k \in Tasks(n) /\ n \in Nat /\ past' = past
      /\ k \in Todo(q) /\ UNCHANGED <<rows, trips, free, bonus>> /\ DOMAIN trips = 1 .. n
  BY <1>0, Facts DEF Deliver, Runs
<1>2. q \notin past.planners
  BY <1>0, <1>1, Facts DEF Planning, Shared
<1>3. k.order \in Orders /\ k.rider \in Carriers
  BY <1>1, TaskFields
<1>4. k.do \notin Watching
  BY <1>1 DEF Watching
<1>5. Later(q) \subseteq Todo(q)' \/ \A z \in Later(q) : z.do \notin Watching
  <2>1. \A z \in Later(q) : k.do \in Before(z.do) /\ z.do \in Moving \cup Shared
    BY <1>0, <1>2, Facts
  <2> QED
    BY <1>1, <2>1 DEF Before, Watching, Moving, Shared
<1>6. CASE ~ (s # NoStop /\ ~ s.dropped)
  <2>1. UNCHANGED <<stops, trips>>
    BY <1>1, <1>6 DEF Deliver
  <2>2. Covered'
    BY <1>0, <1>4, <1>5, <2>1, CoverIdle DEF Kept
  <2> QED
    BY <1>1, <1>2, <2>2 DEF Kept
<1>7. CASE s # NoStop /\ ~ s.dropped
  <2>1. stops' = [stops EXCEPT ![k.order].dropped = TRUE] /\ Then(q, <<x>>)
    BY <1>7 DEF Deliver
  <2>2. s.trip \in 1 .. n
    <3>1. s.trip \in 0 .. n /\ (s.trip = 0 => s = NoStop)
      BY <1>3 DEF TypeInv, DbType
    <3> QED
      BY <1>1, <1>7, <3>1
  <2>3. x \in Tasks(n) /\ x.do = "last" /\ x.trip = s.trip
    BY <1>1, <1>3, <2>2 DEF Task, Tasks, OrderTasks
  <2> DEFINE ts == <<x>>
  <2> HIDE DEF x
  <2>4. ts \in Seq(Tasks(Len(trips'))) /\ Elems(ts) = {x}
    BY <1>1, <2>3, ShortLists
  <2> HIDE DEF ts
  <2>5. Then(q, ts)
    BY <2>1 DEF ts
  <2>6. Todo(q)' = Elems(ts) \cup Later(q)
    BY <1>0, <2>4, <2>5, Moved
  <2>7. ASSUME NEW t \in DOMAIN trips, t # s.trip, Undropped(t) # {} PROVE Undropped(t)' # {}
    <3>1. PICK o \in Orders : stops[o].trip = t /\ ~ stops[o].dropped
      BY <2>7 DEF Undropped, On
    <3>2. o # k.order
      BY <2>7, <3>1
    <3>3. stops'[o] = stops[o]
      BY <2>1, <3>2 DEF TypeInv, DbType
    <3> QED
      BY <3>1, <3>3 DEF Undropped, On
  <2>8. Covered'
    <3> SUFFICES ASSUME NEW t \in DOMAIN trips', trips'[t].status \in Active
                 PROVE  Undropped(t)' # {} \/ \E p \in Requests : Watches(p, t)'
      BY DEF Covered
    <3>1. CASE t = s.trip
      <4>1. \E z \in Todo(q)' : z.do \in Watching /\ z.trip = t
        BY <2>3, <2>4, <2>6, <3>1 DEF Watching
      <4> QED
        BY <4>1 DEF Watches
    <3>2. CASE t # s.trip
      <4>1. Undropped(t) # {} \/ \E p \in Requests : Watches(p, t)
        BY <1>1 DEF Kept, Covered
      <4>2. ASSUME NEW p \in Requests, Watches(p, t) PROVE Watches(p, t)'
        <5>1. Todo(q) = {k} \cup Later(q) /\ \A r \in Requests \ {q} : Todo(r)' = Todo(r)
          BY <1>0, Facts
        <5>2. CASE p = q
          BY <1>4, <2>6, <4>2, <5>1, <5>2 DEF Watches
        <5>3. CASE p # q
          BY <4>2, <5>1, <5>3 DEF Watches
        <5> QED
          BY <5>2, <5>3
      <4> QED
        BY <1>1, <2>7, <3>2, <4>1, <4>2
    <3> QED
      BY <3>1, <3>2
  <2> QED
    BY <1>1, <1>2, <2>8 DEF Kept
<1> QED
  BY <1>6, <1>7

LEMMA SettleDeliveredKeeps ==
  ASSUME TypeInv, ListInv, NEW q \in Requests, Kept(q), SettleDelivered(q)
  PROVE  Kept(q)'
<1>0. Sound(q)
  BY SettleDeliveredShape
<1> SUFFICES ASSUME NEW k, k = Head(work[q]) PROVE Kept(q)'
  OBVIOUS
<1> DEFINE n == Len(trips)
           c == CloseTask(k.trip, Verdict(k.trip))
<1>1. /\ k.do = "last" /\ past' = past /\ UNCHANGED db
      /\ \E ts \in Seq(Tasks(n)) : Then(q, ts) /\ (Verdict(k.trip) # "open" => c \in Elems(ts))
  <2>1. /\ k.do = "last"
        /\ \E ts \in Seq(Tasks(n)) : Then(q, ts) /\ (Verdict(k.trip) # "open" => c \in Elems(ts))
    BY LastList, Zenon
  <2> QED
    BY <2>1 DEF SettleDelivered
<1>2. q \notin past.planners
  <2>1. k \in Todo(q) /\ (q \in past.planners => \A x \in Todo(q) : x.do \in Planning \cup Shared)
    BY <1>0, Facts
  <2> QED
    BY <1>1, <2>1 DEF Planning, Shared
<1>3. PICK ts \in Seq(Tasks(n)) : Then(q, ts) /\ (Verdict(k.trip) # "open" => c \in Elems(ts))
  BY <1>1
<1>4. UNCHANGED <<stops, trips>> /\ ts \in Seq(Tasks(Len(trips')))
  BY <1>1 DEF db
<1>5. Todo(q)' = Elems(ts) \cup Later(q)
  BY <1>0, <1>3, <1>4, Moved
<1>6. Covered'
  <2>1. Verdict(k.trip) = "open" => Undropped(k.trip) # {}
    BY DEF Verdict
  <2>2. c.do = "close" /\ c.trip = k.trip
    BY DEF CloseTask
  <2> HIDE DEF c
  <2>3. Verdict(k.trip) # "open" => Watches(q, k.trip)'
    BY <1>3, <1>5, <2>2 DEF Watches, Watching
  <2> QED
    BY <1>0, <1>4, <1>5, <2>1, <2>3, CoverIdle DEF Kept
<1> QED
  BY <1>1, <1>2, <1>6 DEF Kept

\* Statements of a moving request that leave stops and trips alone.
LEMMA MovesKeep ==
  ASSUME TypeInv, ListInv, NEW q \in Requests, Kept(q), Sound(q), NEW k, k = Head(work[q]),
         k.do \in {"update", "pickup"}, UNCHANGED <<stops, trips>>
  PROVE  Kept(q)'
<1>1. q \notin past.planners /\ past' = past
  <2>1. /\ k \in Todo(q) /\ (q \in past.planners => \A x \in Todo(q) : x.do \in Planning \cup Shared)
        /\ past' = past
    BY Facts
  <2> QED
    BY <2>1 DEF Planning, Shared
<1>2. \A z \in Later(q) : z.do \notin Watching
  <2>1. \A z \in Later(q) : k.do \in Before(z.do) /\ z.do \in Moving \cup Shared
    BY <1>1, Facts
  <2> QED
    BY <2>1 DEF Before, Watching, Moving, Shared
<1>3. k.do \notin Watching
  BY DEF Watching
<1>4. Covered'
  BY <1>2, <1>3, CoverIdle DEF Kept
<1> QED
  BY <1>1, <1>4 DEF Kept

LEMMA UpdateKeeps == ASSUME TypeInv, ListInv, NEW q \in Requests, Kept(q), Update(q) PROVE Kept(q)'
<1>1. Sound(q)
  BY UpdateShape
<1>2. Head(work[q]).do \in {"update", "pickup"} /\ UNCHANGED <<stops, trips>>
  BY DEF Update, Runs, db
<1> QED
  BY <1>1, <1>2, MovesKeep

LEMMA PickupKeeps == ASSUME TypeInv, ListInv, NEW q \in Requests, Kept(q), Pickup(q) PROVE Kept(q)'
<1>1. Sound(q)
  BY PickupShape
<1>2. Head(work[q]).do \in {"update", "pickup"} /\ UNCHANGED <<stops, trips>>
  <2>1. Head(work[q]).do = "pickup"
    BY Zenon DEF Pickup, Runs
  <2>2. UNCHANGED <<stops, trips>>
    BY Zenon DEF Pickup, db
  <2> QED
    BY <2>1, <2>2
<1> QED
  BY <1>1, <1>2, MovesKeep

LEMMA AssignKeeps == ASSUME TypeInv, ListInv, NEW q \in Requests, Kept(q), Assign(q) PROVE Kept(q)'
<1>0. Sound(q)
  BY AssignShape
<1> SUFFICES ASSUME NEW k, k = Head(work[q]) PROVE Kept(q)'
  OBVIOUS
<1> SUFFICES ASSUME NEW old, old = rows[k.order] PROVE Kept(q)'
  OBVIOUS
<1> DEFINE n == Len(trips)
<1>1. /\ k.do = "assign" /\ k.order \in Orders
      /\ \/ Throw(q) /\ old.status \in Terminal
         \/ /\ old.status \notin Terminal
            /\ \E ts \in Seq(Tasks(n)), new \in RowType, p \in Tasks(n) :
                 /\ Then(q, ts)
                 /\ new.status = IF old.status \in Cooking \cup OnTheRoad
                                 THEN old.status ELSE "assigned_to_delivery"
                 /\ p.do = "pick" /\ p.order = k.order /\ p.rider = k.rider /\ p.trip = k.trip
                 /\ {SaveTask(k.order, new), DropTask(k.order), p, RefreshTask(k.rider)} \subseteq Elems(ts)
                 /\ Elems(ts) \subseteq {SaveTask(k.order, new), DropTask(k.order), p,
                                         RefreshTask(k.rider), RefreshTask(old.carrier)}
  BY AssignList, Zenon
<1>2. /\ past' = past /\ UNCHANGED db /\ k \in Todo(q) /\ Todo(q) = {k} \cup Later(q) /\ work[q] # <<>>
      /\ DOMAIN trips = 1 .. n /\ k \in Tasks(n) /\ n \in Nat
      /\ (k.trip = 0 => Later(q) = {})
  <2>1. UNCHANGED db
    BY Zenon DEF Assign
  <2>2. /\ past' = past /\ k \in Todo(q) /\ Todo(q) = {k} \cup Later(q) /\ work[q] # <<>>
        /\ DOMAIN trips = 1 .. n /\ k \in Tasks(n) /\ n \in Nat
        /\ \A x \in Todo(q) : x.do = "assign" /\ x.trip = 0 => Later(q) = {} /\ x = k
    BY <1>0, Facts, Zenon
  <2> QED
    BY <1>1, <2>1, <2>2, Zenon
<1>3. UNCHANGED <<rows, stops, trips>>
  BY <1>2 DEF db
<1>4. PlanOK(q)
  <2>1. q \in past.planners
    <3>1. "assign" \notin Moving \cup Shared
      BY DEF Moving, Shared
    <3>2. q \notin past.planners => \A x \in Todo(q) : x.do \in Moving \cup Shared
      BY <1>0, Facts, Zenon
    <3> QED
      BY <1>1, <1>2, <3>1, <3>2, Zenon
  <2> QED
    BY <1>2, <2>1 DEF Kept
<1>5. Fits(k)
  BY <1>2, <1>4 DEF PlanOK
<1>6. CASE Throw(q) /\ old.status \in Terminal
  <2>1. k.trip = 0 /\ Later(q) = {}
    BY <1>1, <1>2, <1>5, <1>6, Zenon DEF Fits
  <2>2. k.trip \notin DOMAIN trips
    BY <1>2, <2>1
  <2> QED
    BY <1>0, <1>1, <1>2, <1>3, <1>6, <2>1, <2>2, BrokenKeeps
<1>7. ASSUME old.status \notin Terminal,
             NEW ts \in Seq(Tasks(n)), NEW new \in RowType, NEW p \in Tasks(n), Then(q, ts),
             new.status = IF old.status \in Cooking \cup OnTheRoad THEN old.status ELSE "assigned_to_delivery",
             p.do = "pick" /\ p.order = k.order /\ p.rider = k.rider /\ p.trip = k.trip,
             {SaveTask(k.order, new), DropTask(k.order), p, RefreshTask(k.rider)} \subseteq Elems(ts),
             Elems(ts) \subseteq {SaveTask(k.order, new), DropTask(k.order), p,
                                  RefreshTask(k.rider), RefreshTask(old.carrier)}
      PROVE  Kept(q)'
  <2>1. ts \in Seq(Tasks(Len(trips')))
    BY <1>3
  <2>2. Todo(q)' = Elems(ts) \cup Later(q)
    BY <1>0, <1>7, <2>1, Moved
  <2>3. p \in Elems(ts) /\ DropTask(k.order) \in Elems(ts)
    BY <1>7
  <2>4. Covered'
    <3>1. Watches(q, k.trip)'
      BY <1>7, <2>2, <2>3 DEF Watches, Watching
    <3> QED
      BY <1>0, <1>3, <2>2, <3>1, CoverIdle DEF Kept
  <2>5. new.status \notin Terminal
    BY <1>7 DEF Terminal
  <2>6. ASSUME NEW x \in Elems(ts)
        PROVE  \/ x = p
               \/ x.do = "save" /\ x.order = k.order /\ x.row = new
               \/ x.do = "drop" /\ x.order = k.order
               \/ x.do = "refresh"
    BY <1>7 DEF SaveTask, DropTask, RefreshTask
  <2>7. ASSUME NEW x \in Elems(ts)
        PROVE  /\ Fits(x) /\ Caught(q, x)' /\ Cleared(q, x)' /\ x.do \notin {"cancel", "create"}
               /\ x.do \in Taking => x = p
    <3>1. x.do \in Taking => x = p
      BY <2>6 DEF Taking
    <3>2. x.do \notin {"cancel", "create", "catch"}
      BY <1>7, <2>6
    <3>3. Fits(x)
      <4>1. CASE x = p
        BY <1>1, <1>5, <1>7, <4>1, Zenon DEF Fits
      <4>2. CASE x.do = "save" /\ x.order = k.order /\ x.row = new
        BY <1>7, <2>5, <4>2 DEF Fits
      <4>3. CASE x.do \in {"drop", "refresh"}
        BY <4>3 DEF Fits
      <4> QED
        BY <2>6, <4>1, <4>2, <4>3, Zenon
    <3>4. Cleared(q, x)'
      <4>1. CASE x = p
        BY <1>7, <2>2, <2>3, <4>1 DEF Cleared
      <4>2. CASE x # p
        BY <2>6, <4>2 DEF Cleared, Placing
      <4> QED
        BY <4>1, <4>2
    <3> QED
      BY <3>1, <3>2, <3>3, <3>4 DEF Caught
  <2>8. \A y \in Todo(q) : ~ Clash(k, y) /\ ~ Clash(y, k)
    BY <1>2, <1>4 DEF PlanOK
  <2>9. ASSUME NEW x \in Elems(ts), NEW y \in Elems(ts) \cup Later(q) PROVE ~ Clash(x, y) /\ ~ Clash(y, x)
    <3>1. \A z : z.do \in {"save", "refresh", "drop", "pick"} => z.do \notin {"assign", "settle", "close"}
      BY Zenon
    <3>2. \A z \in Todo(q) : k.trip # 0 => ~ (z.do \in {"assign", "drop"} /\ stops[z.order].trip = k.trip)
                                           /\ ~ (z.do \in {"settle", "close"} /\ z.trip = k.trip)
      BY <1>1, <2>8, Zenon DEF Clash, Bound
    <3>3. \A z \in Todo(q) : z.do \in Bound /\ z.trip # 0 => stops[k.order].trip # z.trip
      BY <1>1, <2>8, Zenon DEF Clash
    <3>4. \A z \in Elems(ts) : z.do \in Bound => z = p
      BY <2>6 DEF Bound
    <3>7. k.do \in Bound
      BY <1>1 DEF Bound
    <3>5. ASSUME NEW z \in Elems(ts), NEW w \in Elems(ts) \cup Later(q), Clash(z, w) PROVE FALSE
      <4>1. z.do = "drop" /\ z.order = k.order /\ w.do \in Bound /\ w.trip # 0 /\ stops[k.order].trip = w.trip
        BY <1>7, <2>6, <3>5 DEF Clash
      <4>2. CASE w \in Later(q)
        BY <1>2, <3>3, <4>1, <4>2, Zenon
      <4>3. CASE w \in Elems(ts)
        <5>1. w = p
          BY <3>4, <4>1, <4>3
        <5> QED
          BY <1>2, <1>7, <3>3, <4>1, <5>1, <3>7
      <4> QED
        BY <4>2, <4>3
    <3>6. ASSUME NEW w \in Later(q), NEW z \in Elems(ts), Clash(w, z) PROVE FALSE
      <4>1. z = p
        BY <3>4, <3>6, Zenon DEF Clash
      <4> QED
        BY <1>2, <1>7, <3>2, <3>6, <4>1 DEF Clash
    <3> QED
      BY <3>5, <3>6
  <2>10. k.do \in Taking /\ k.do # "drop" /\ p.do # "assign"
    BY <1>1, <1>7, Zenon DEF Taking
  <2>11. PlanOK(q)'
    <3>1. \A x \in Elems(ts) : x.do \in Taking =>
            x.do # "assign" /\ k.do \in Taking /\ x.order = k.order
            /\ (x.trip = k.trip \/ \A y \in Later(q) : y.do \notin Taking)
      BY <1>7, <2>7, <2>10
    <3>2. \A x, y \in Elems(ts) : x.do \in Taking /\ y.do \in Taking => x = y
      BY <2>7
    <3>3. \A o \in Orders : rows[o].status \notin Terminal => rows'[o].status \notin Terminal
      BY <1>3
    <3> QED
      BY <1>0, <1>3, <1>4, <1>7, <2>1, <2>7, <2>9, <2>10, <3>1, <3>2, <3>3, PlanIdle
  <2> QED
    BY <1>2, <2>4, <2>11 DEF Kept
<1> QED
  BY <1>1, <1>6, <1>7, Zenon

\* Statements that put nothing on the list that takes a trip.
LEMMA AsideKeeps ==
  ASSUME TypeInv, ListInv, NEW q \in Requests, Kept(q), Sound(q), NEW k, k = Head(work[q]),
         UNCHANGED <<rows, stops, trips>>, k.do \notin Watching \cup {"drop", "catch"},
         \A x \in Later(q) : x.do \notin Watching \cup {"catch"},
         Throw(q) \/ \E ts \in Seq(Tasks(Len(trips))) :
                       /\ Then(q, ts)
                       /\ \A x \in Elems(ts) : x.do \in {"drop", "save", "refresh"} /\ Fits(x)
  PROVE  Kept(q)'
<1>1. /\ past' = past /\ work[q] # <<>> /\ Todo(q) = {k} \cup Later(q)
      /\ \A x \in Later(q) : k.do \in Before(x.do)
  BY Facts
<1>2. CASE Throw(q)
  BY <1>1, <1>2, BrokenKeeps
<1>3. ASSUME NEW ts \in Seq(Tasks(Len(trips))), Then(q, ts),
             \A x \in Elems(ts) : x.do \in {"drop", "save", "refresh"} /\ Fits(x)
      PROVE  Kept(q)'
  <2>1. ts \in Seq(Tasks(Len(trips')))
    OBVIOUS
  <2>2. Todo(q)' = Elems(ts) \cup Later(q)
    BY <1>3, <2>1, Moved
  <2>3. Covered'
    BY <2>2, CoverIdle DEF Kept
  <2>4. ASSUME q \in past.planners PROVE PlanOK(q)'
    <3>1. PlanOK(q)
      BY <1>1, <2>4 DEF Kept
    <3>2. \A x \in Elems(ts) : /\ x.do \notin Taking /\ Fits(x) /\ Caught(q, x)' /\ Cleared(q, x)'
                               /\ x.do \notin {"cancel", "create"}
      BY <1>3 DEF Taking, Caught, Cleared, Placing
    <3>3. \A y \in Elems(ts) \cup Later(q) : y.do \notin Bound
      BY <1>3 DEF Bound, Watching
    <3>4. \A x \in Elems(ts), y \in Elems(ts) \cup Later(q) : ~ Clash(x, y) /\ ~ Clash(y, x)
      BY <3>3 DEF Clash
    <3>5. k.do # "drop" /\ \A o \in Orders : rows[o].status \notin Terminal => rows'[o].status \notin Terminal
      BY Zenon
    <3> QED
      BY <1>3, <2>1, <3>1, <3>2, <3>4, <3>5, PlanIdle
  <2> QED
    BY <1>1, <2>3, <2>4 DEF Kept
<1> QED
  BY <1>2, <1>3

LEMMA BookKeeps == ASSUME TypeInv, ListInv, NEW q \in Requests, Kept(q), Book(q) PROVE Kept(q)'
<1>0. Sound(q)
  BY BookShape
<1> SUFFICES ASSUME NEW k, k = Head(work[q]) PROVE Kept(q)'
  OBVIOUS
<1> DEFINE n == Len(trips)
<1>1. /\ k.do = "book" /\ k.order \in Orders
      /\ \/ Throw(q)
         \/ /\ rows[k.order].status \in Bookable \cup OnTheRoad
            /\ \E ts \in Seq(Tasks(n)), new \in RowType :
                 /\ Then(q, ts)
                 /\ new.status = IF rows[k.order].status = "food_ready"
                                 THEN "assigned_to_delivery" ELSE rows[k.order].status
                 /\ Elems(ts) = {DropTask(k.order), SaveTask(k.order, new),
                                 RefreshTask(rows[k.order].carrier)}
  BY BookList, Zenon
<1>2. UNCHANGED <<rows, stops, trips>>
  BY DEF Book, db
<1>3. k.do \notin Watching \cup {"drop", "catch"} /\ \A x \in Later(q) : x.do \notin Watching \cup {"catch"}
  <2>1. \A x \in Later(q) : k.do \in Before(x.do)
    BY <1>0, Facts
  <2> QED
    BY <1>1, <2>1 DEF Before, Watching, Shared
<1>4. ASSUME rows[k.order].status \in Bookable \cup OnTheRoad, NEW ts \in Seq(Tasks(n)), NEW new \in RowType, Then(q, ts),
             new.status = IF rows[k.order].status = "food_ready"
                          THEN "assigned_to_delivery" ELSE rows[k.order].status,
             Elems(ts) = {DropTask(k.order), SaveTask(k.order, new), RefreshTask(rows[k.order].carrier)}
      PROVE  \A x \in Elems(ts) : x.do \in {"drop", "save", "refresh"} /\ Fits(x)
  <2>1. new.status \notin Terminal /\ rows[k.order].status \notin Terminal
    BY <1>4 DEF Bookable, OnTheRoad, Terminal
  <2>2. ASSUME NEW x \in Elems(ts)
        PROVE  x.do \in {"drop", "refresh"} \/ (x.do = "save" /\ x.order = k.order /\ x.row = new)
    BY <1>4 DEF DropTask, SaveTask, RefreshTask
  <2> QED
    BY <2>1, <2>2 DEF Fits
<1> QED
  BY <1>0, <1>1, <1>2, <1>3, <1>4, AsideKeeps

LEMMA UnbookKeeps == ASSUME TypeInv, ListInv, NEW q \in Requests, Kept(q), Unbook(q) PROVE Kept(q)'
<1>0. Sound(q)
  BY UnbookShape
<1> SUFFICES ASSUME NEW k, k = Head(work[q]) PROVE Kept(q)'
  OBVIOUS
<1> DEFINE n == Len(trips)
<1>1. /\ k.do = "unbook" /\ k.order \in Orders
      /\ \/ Throw(q)
         \/ /\ rows[k.order].status \in Bookable
            /\ \E new \in RowType :
                 /\ Then(q, <<SaveTask(k.order, new)>>)
                 /\ SaveTask(k.order, new) \in Tasks(n)
                 /\ new.status = IF rows[k.order].status = "assigned_to_delivery"
                                 THEN "food_ready" ELSE rows[k.order].status
  BY UnbookList, Zenon
<1>2. UNCHANGED <<rows, stops, trips>>
  BY DEF Unbook, db
<1>3. k.do \notin Watching \cup {"drop", "catch"} /\ \A x \in Later(q) : x.do \notin Watching \cup {"catch"}
  <2>1. \A x \in Later(q) : k.do \in Before(x.do)
    BY <1>0, Facts
  <2> QED
    BY <1>1, <2>1 DEF Before, Watching, Shared
<1>4. ASSUME rows[k.order].status \in Bookable, NEW new \in RowType,
             Then(q, <<SaveTask(k.order, new)>>), SaveTask(k.order, new) \in Tasks(n),
             new.status = IF rows[k.order].status = "assigned_to_delivery"
                          THEN "food_ready" ELSE rows[k.order].status
      PROVE  \E ts \in Seq(Tasks(n)) :
               Then(q, ts) /\ \A x \in Elems(ts) : x.do \in {"drop", "save", "refresh"} /\ Fits(x)
  <2>1. new.status \notin Terminal /\ rows[k.order].status \notin Terminal
    BY <1>4 DEF Bookable, Terminal
  <2> DEFINE s == SaveTask(k.order, new)
             ts == <<s>>
  <2>2. s.do = "save" /\ s.order = k.order /\ s.row = new /\ s \in Tasks(n)
    BY <1>4, Zenon DEF SaveTask
  <2>3. Fits(s)
    BY <2>1, <2>2 DEF Fits
  <2>4. n \in Nat
    BY DEF TypeInv, DbType
  <2>5. Then(q, ts)
    BY <1>4
  <2> HIDE DEF s
  <2>6. ts \in Seq(Tasks(n)) /\ Elems(ts) = {s}
    BY <2>2, <2>4, ShortLists, Zenon
  <2> HIDE DEF ts
  <2> QED
    BY <2>2, <2>3, <2>5, <2>6
<1> QED
  BY <1>0, <1>1, <1>2, <1>3, <1>4, AsideKeeps

LEMMA CreateKeeps == ASSUME TypeInv, ListInv, NEW q \in Requests, Kept(q), CreateTrip(q) PROVE Kept(q)'
<1>0. Sound(q)
  BY CreateShape
<1> SUFFICES ASSUME NEW k, k = Head(work[q]) PROVE Kept(q)'
  OBVIOUS
<1> DEFINE n == Len(trips)
           x == [k EXCEPT !.do = "insert"]
           ts == <<x>>
<1>1. /\ work[q] # <<>> /\ k.do = "create" /\ k \in Tasks(n) /\ n \in Nat /\ past' = past
      /\ k \in Todo(q) /\ Todo(q) = {k} \cup Later(q) /\ UNCHANGED db
      /\ \A z \in Later(q) : k.do \in Before(z.do)
  BY <1>0, Facts DEF CreateTrip, Runs
<1>2. k \in [do : {"create"}, rider : Riders, orders : Seq(Orders)]
  BY <1>1, TaskFields
<1>3. UNCHANGED <<rows, stops, trips>>
  BY <1>1 DEF db
<1>4. k.do \notin Watching \cup {"drop"} /\ \A z \in Later(q) : z.do \notin Watching \cup Taking
  BY <1>1 DEF Before, Watching, Taking, Shared
<1>5. CASE Throw(q)
  BY <1>0, <1>1, <1>3, <1>4, <1>5, BrokenKeeps
<1>6. ASSUME \A i \in DOMAIN k.orders : rows[k.orders[i]].status \in Bookable, Then(q, ts)
      PROVE  Kept(q)'
  <2>1. x.do = "insert" /\ x.orders = k.orders /\ x \in Tasks(n)
    <3>1. x \in [do : {"insert"}, rider : Riders, orders : Seq(Orders)]
      BY <1>2
    <3>2. x \in Tasks(n)
      BY <3>1 DEF Tasks, OtherTasks
    <3> QED
      BY <1>2, <3>2
  <2> HIDE DEF x
  <2>2. ts \in Seq(Tasks(n)) /\ Elems(ts) = {x}
    BY <1>1, <2>1, ShortLists
  <2> HIDE DEF ts
  <2>3. ts \in Seq(Tasks(Len(trips')))
    BY <1>3, <2>2
  <2>4. Todo(q)' = Elems(ts) \cup Later(q)
    BY <1>0, <1>6, <2>3, Moved
  <2>5. Covered'
    BY <1>0, <1>3, <1>4, <2>4, CoverIdle DEF Kept
  <2>6. ASSUME q \in past.planners PROVE PlanOK(q)'
    <3>1. PlanOK(q)
      BY <1>1, <2>6 DEF Kept
    <3>2. k.orders # <<>> /\ Injective(k.orders)
      BY <1>1, <3>1 DEF PlanOK, Fits
    <3>3. \A i \in DOMAIN k.orders : rows[k.orders[i]].status \notin Terminal
      BY <1>6 DEF Bookable, Terminal
    <3>4. Fits(x)
      BY <2>1, <3>2, <3>3 DEF Fits
    <3>5. \A z \in Elems(ts) : /\ z.do \notin Taking /\ Fits(z) /\ Caught(q, z)' /\ Cleared(q, z)'
                               /\ z.do \notin {"cancel", "create"}
      BY <2>1, <2>2, <3>4 DEF Taking, Caught, Cleared, Placing
    <3>6. \A z \in Elems(ts) \cup Later(q) : z.do \notin Bound
      BY <1>4, <2>1, <2>2 DEF Bound, Watching
    <3>7. \A z \in Elems(ts), y \in Elems(ts) \cup Later(q) : ~ Clash(z, y) /\ ~ Clash(y, z)
      BY <3>6 DEF Clash
    <3>8. k.do # "drop" /\ \A o \in Orders : rows[o].status \notin Terminal => rows'[o].status \notin Terminal
      BY <1>1, <1>3
    <3> QED
      BY <1>0, <1>3, <1>6, <2>3, <3>1, <3>5, <3>7, <3>8, PlanIdle
  <2> QED
    BY <1>1, <2>5, <2>6 DEF Kept
<1>7. Throw(q) \/ ((\A i \in DOMAIN k.orders : rows[k.orders[i]].status \in Bookable) /\ Then(q, ts))
  BY DEF CreateTrip
<1> QED
  BY <1>5, <1>6, <1>7

LEMMA InsertKeeps == ASSUME TypeInv, ListInv, NEW q \in Requests, Kept(q), InsertTrip(q) PROVE Kept(q)'
<1>0. Sound(q)
  BY InsertShape
<1> SUFFICES ASSUME NEW k, k = Head(work[q]), NEW n, n = Len(trips) PROVE Kept(q)'
  OBVIOUS
<1> DEFINE list == [i \in DOMAIN k.orders |-> Task("assign", k.orders[i], k.rider, n + 1)]
<1>1. /\ k.do = "insert" /\ k.rider \in Riders /\ k.orders \in Seq(Orders)
      /\ Len(trips') = n + 1
      /\ trips'[n + 1] = [rider |-> k.rider, status |-> "planned"]
      /\ \A t \in DOMAIN trips : t \in DOMAIN trips' /\ trips'[t] = trips[t]
      /\ list \in Seq(Tasks(Len(trips'))) /\ Len(list) = Len(k.orders) /\ Then(q, list)
      /\ \A x \in Elems(list) : /\ x.do = "assign" /\ x.trip = n + 1
                                /\ x.rider = k.rider /\ x.order \in Orders
  BY InsertList, Zenon
<1>2. /\ work[q] # <<>> /\ past' = past /\ k \in Todo(q) /\ Todo(q) = {k} \cup Later(q)
      /\ Later(q) \subseteq Tasks(n) /\ n \in Nat /\ DOMAIN trips = 1 .. n
      /\ \A z \in Later(q) : k.do \in Before(z.do)
      /\ \A p \in Requests \ {q} : work'[p] = work[p]
      /\ DbType'
  BY <1>0, Facts
<1>3. UNCHANGED <<rows, stops>> /\ DOMAIN trips' = 1 .. n + 1
  BY <1>1, <1>2 DEF InsertTrip, DbType
<1>4. PlanOK(q)
  <2>1. q \in past.planners
    BY <1>0, <1>1, <1>2, Facts DEF Moving, Shared
  <2> QED
    BY <1>2, <2>1 DEF Kept
<1>5. /\ k.orders # <<>> /\ Injective(k.orders)
      /\ \A i \in DOMAIN k.orders : rows[k.orders[i]].status \notin Terminal
  BY <1>1, <1>2, <1>4 DEF PlanOK, Fits
<1>6. /\ DOMAIN list = 1 .. Len(list) /\ DOMAIN k.orders = 1 .. Len(list) /\ Len(list) \in Nat \ {0}
      /\ \A i \in 1 .. Len(list) : list[i].order = k.orders[i]
  <2>1. DOMAIN k.orders = 1 .. Len(k.orders) /\ Len(k.orders) \in Nat \ {0}
    BY <1>1, <1>5
  <2>2. \A i \in DOMAIN k.orders : list[i].order = k.orders[i]
    BY DEF Task
  <2> QED
    BY <1>1, <2>1, <2>2
<1>7. PICK ts : ts = list
  OBVIOUS
<1> HIDE DEF list
<1>8. /\ Todo(q)' = Elems(ts) \cup Later(q)
      /\ Len(work'[q]) = Len(ts) + Len(work[q]) - 1
      /\ DOMAIN work'[q] = 1 .. Len(work'[q]) /\ Len(work[q]) \in Nat /\ Len(ts) \in Nat
      /\ \A i \in 1 .. Len(ts) : work'[q][i] = ts[i]
      /\ \A i \in 2 .. Len(work[q]) : work'[q][i + Len(ts) - 1] = work[q][i]
  BY <1>0, <1>1, <1>7, Moved
<1>9. \A z \in Later(q) : z.do \notin Watching \cup Taking \cup {"drop", "cancel", "create", "revive"}
  BY <1>1, <1>2 DEF Before, Watching, Taking, Shared
<1>10. \A x \in Elems(ts) : /\ x.do = "assign" /\ x.trip = n + 1 /\ x.rider = k.rider /\ x.order \in Orders
                            /\ \E i \in DOMAIN k.orders : x.order = k.orders[i]
  BY <1>1, <1>6, <1>7 DEF Elems
<1>11. \A t : Undropped(t)' = Undropped(t)
  BY <1>3 DEF Undropped, On
<1>12. Covered'
  <2>1. ts[1] \in Elems(ts)
    BY <1>6, <1>7 DEF Elems
  <2>2. Watches(q, n + 1)'
    BY <1>8, <1>10, <2>1 DEF Watches, Watching
  <2>3. \A t \in DOMAIN trips' : t = n + 1 \/ t \in DOMAIN trips
    BY <1>2, <1>3
  <2>4. k.do \notin Watching
    BY <1>1 DEF Watching
  <2>5. \A t \in DOMAIN trips' : trips'[t].status \in Active =>
            \/ Undropped(t)' # {}
            \/ Watches(q, t)'
            \/ /\ t \in DOMAIN trips /\ trips[t].status \in Active /\ Undropped(t) = {}
               /\ k.do \in Watching => k.trip # t
    BY <1>1, <1>11, <2>2, <2>3, <2>4
  <2>6. Later(q) \subseteq Todo(q)' /\ Covered
    BY <1>8, Zenon DEF Kept
  <2> QED
    BY <1>0, <2>5, <2>6, CoverStep, Zenon
<1>13. Alone(q)'
  BY <1>2, <1>4 DEF PlanOK, Alone
<1>14. Distinct(q)'
  <2> DEFINE l == work'[q]
  <2>1. SUFFICES ASSUME NEW i \in DOMAIN l, NEW j \in DOMAIN l, i < j, l[i].do \in Taking,
                        l[j].do = "assign"
                 PROVE  l[i].order # l[j].order
    BY DEF Distinct
  <2>2. j <= Len(ts)
    <3>1. ASSUME j > Len(ts) PROVE FALSE
      <4>1. j - Len(ts) + 1 \in 2 .. Len(work[q]) /\ (j - Len(ts) + 1) + Len(ts) - 1 = j
        <5>1. j \in 1 .. Len(ts) + Len(work[q]) - 1
          BY <1>8
        <5>2. Len(ts) \in Nat /\ Len(work[q]) \in Nat
          BY <1>8
        <5>3. \A a, b \in Nat : j \in 1 .. a + b - 1 /\ j > a => j - a + 1 \in 2 .. b /\ (j - a + 1) + a - 1 = j
          OBVIOUS
        <5> QED
          BY <3>1, <5>1, <5>2, <5>3
      <4>2. l[j] = work[q][j - Len(ts) + 1]
        BY <1>8, <4>1
      <4>3. l[j] \in Later(q)
        BY <4>1, <4>2 DEF Later
      <4> QED
        BY <1>9, <2>1, <4>3 DEF Taking
    <3> QED
      BY <1>8, <2>1, <3>1
  <2>3. i \in 1 .. Len(ts) /\ j \in 1 .. Len(ts) /\ i # j
    BY <1>8, <2>1, <2>2
  <2>4. l[i].order = k.orders[i] /\ l[j].order = k.orders[j] /\ i \in DOMAIN k.orders /\ j \in DOMAIN k.orders
    BY <1>6, <1>7, <1>8, <2>3
  <2> QED
    BY <1>5, <2>3, <2>4 DEF Injective
<1>15. OneTrip(q)'
  BY <1>8, <1>9, <1>10 DEF OneTrip
<1>16. ASSUME NEW x \in Todo(q)' PROVE Fits(x)' /\ Cleared(q, x)' /\ Caught(q, x)'
  <2>1. CASE x \in Elems(ts)
    <3>1. x.do = "assign" /\ x.trip = n + 1 /\ x.rider = k.rider
      BY <1>10, <2>1
    <3>2. rows'[x.order].status \notin Terminal
      BY <1>3, <1>5, <1>10, <2>1
    <3>3. trips'[x.trip].rider = x.rider /\ trips'[x.trip].status = "planned"
      BY <1>1, <3>1
    <3> QED
      BY <3>1, <3>2, <3>3 DEF Fits, Cleared, Caught, Placing
  <2>2. CASE x \in Later(q)
    <3>1. Fits(x) /\ x.do \notin Watching \cup Taking \cup {"drop", "cancel", "create", "revive"}
      BY <1>2, <1>4, <1>9, <2>2 DEF PlanOK
    <3>2. Fits(x)'
      BY <1>3, <3>1 DEF Fits, Watching
    <3>3. Cleared(q, x)'
      BY <3>1 DEF Cleared, Placing, Watching, Taking
    <3>4. Caught(q, x)'
      BY <1>8, <1>9, <1>10 DEF Caught
    <3> QED
      BY <3>2, <3>3, <3>4
  <2> QED
    BY <1>8, <2>1, <2>2
<1>17. ASSUME NEW x \in Todo(q)', NEW y \in Todo(q)', Clash(x, y)' PROVE FALSE
  <2>1. y.do \in Bound /\ x.do \in {"assign", "drop", "settle", "close"}
    BY <1>17 DEF Clash
  <2>2. x \in Elems(ts) /\ y \in Elems(ts)
    BY <1>8, <1>9, <2>1 DEF Bound, Watching, Taking
  <2>3. x.do = "assign" /\ y.trip = n + 1 /\ x.order \in Orders
    BY <1>10, <2>2
  <2>4. stops'[x.order].trip = n + 1
    BY <1>17, <2>3 DEF Clash
  <2>5. stops[x.order].trip \in 0 .. n
    BY <2>3 DEF TypeInv, DbType
  <2> QED
    BY <1>2, <1>3, <2>4, <2>5
<1>18. PlanOK(q)'
  BY <1>13, <1>14, <1>15, <1>16, <1>17 DEF PlanOK
<1> QED
  BY <1>2, <1>12, <1>18 DEF Kept

LEMMA AddKeeps == ASSUME TypeInv, ListInv, NEW q \in Requests, Kept(q), AddToTrip(q) PROVE Kept(q)'
<1>0. Sound(q)
  BY AddShape
<1> SUFFICES ASSUME NEW k, k = Head(work[q]) PROVE Kept(q)'
  OBVIOUS
<1> DEFINE n == Len(trips)
<1>1. /\ k.do = "add" /\ k.order \in Orders /\ k.trip \in 1 .. n
      /\ \/ Throw(q)
         \/ /\ trips[k.trip].status = "planned"
            /\ \E ids \in Listed(On(k.trip) \cup {k.order}), ts \in Seq(Tasks(n)) :
                 /\ Then(q, ts)
                 /\ Elems(ts) = {TripTask("cancel", k.trip), CreateTask("create", k.rider, ids),
                                 TripTask("catch", k.trip)}
  BY AddList, Zenon
<1>2. /\ work[q] # <<>> /\ past' = past /\ k \in Todo(q) /\ Todo(q) = {k} \cup Later(q)
      /\ \A z \in Later(q) : k.do \in Before(z.do)
      /\ DOMAIN trips = 1 .. n
  BY <1>0, Facts
<1>3. UNCHANGED <<rows, stops, trips>>
  BY DEF AddToTrip, db
<1>4. /\ k.do \notin Watching \cup {"drop", "catch"}
      /\ \A z \in Later(q) : z.do \notin Watching \cup Taking \cup {"catch"}
  BY <1>1, <1>2 DEF Before, Watching, Taking, Shared
<1>5. CASE Throw(q)
  BY <1>0, <1>2, <1>3, <1>4, <1>5, BrokenKeeps
<1>6. ASSUME trips[k.trip].status = "planned",
             NEW ids \in Listed(On(k.trip) \cup {k.order}), NEW ts \in Seq(Tasks(n)), Then(q, ts),
             Elems(ts) = {TripTask("cancel", k.trip), CreateTask("create", k.rider, ids),
                          TripTask("catch", k.trip)}
      PROVE  Kept(q)'
  <2>1. ts \in Seq(Tasks(Len(trips')))
    BY <1>3
  <2>2. Todo(q)' = Elems(ts) \cup Later(q)
    BY <1>0, <1>6, <2>1, Moved
  <2>3. Covered'
    BY <1>0, <1>3, <1>4, <2>2, CoverIdle DEF Kept
  <2>4. ASSUME NEW x \in Elems(ts)
        PROVE  \/ x.do = "cancel"
               \/ x.do = "create" /\ x.orders = ids
               \/ x.do = "catch" /\ x.trip = k.trip
    BY <1>6 DEF TripTask, CreateTask
  <2>5. ids # <<>> /\ Injective(ids)
    <3>0. PICK S : S = On(k.trip) \cup {k.order}
      OBVIOUS
    <3> DEFINE m == Cardinality(S)
    <3>1. S \in SUBSET Orders /\ ids \in Listed(S)
      BY <1>1, <1>6, <3>0 DEF On
    <3>2. /\ ids \in Seq(Orders) /\ Len(ids) = m /\ IsFiniteSet(S) /\ m \in Nat /\ ids \in [1 .. m -> S]
          /\ \A o \in S : \E i \in DOMAIN ids : ids[i] = o
      BY <3>1, ListedIs
    <3>3. k.order \in S
      BY <3>0
    <3> HIDE DEF m
    <3>4. ids # <<>>
      BY <3>2, <3>3
    <3>5. IsFiniteSet(1 .. m) /\ Cardinality(1 .. m) = m
      BY <3>2, FS_Interval
    <3>6. ids \in Surjection(1 .. m, S)
      BY <3>2 DEF Surjection
    <3>7. Cardinality(S) = m
      BY DEF m
    <3>8. ids \in Injection(1 .. m, S)
      BY <3>2, <3>5, <3>6, <3>7, FS_SurjSameCardinalityImpliesInj
    <3>9. Injective(ids)
      BY <3>2, <3>8 DEF Injective, Injection, IsInjective
    <3> QED
      BY <3>4, <3>9
  <2>6. ASSUME q \in past.planners PROVE PlanOK(q)'
    <3>1. PlanOK(q)
      BY <1>2, <2>6 DEF Kept
    <3>2. Undropped(k.trip) # {}
      <4>1. Undropped(k.trip) # {} \/ \E p \in Requests : Watches(p, k.trip)
        BY <1>1, <1>2, <1>6 DEF Kept, Covered, Active
      <4>2. ASSUME NEW p \in Requests, Watches(p, k.trip) PROVE FALSE
        <5>1. work[p] # <<>>
          <6>1. ASSUME work[p] = <<>> PROVE FALSE
            <7>1. Todo(p) = {}
              BY <6>1 DEF Todo
            <7> QED
              BY <4>2, <7>1 DEF Watches
          <6> QED
            BY <6>1
        <5>2. p = q
          BY <3>1, <5>1 DEF PlanOK, Alone
        <5> QED
          BY <1>2, <1>4, <4>2, <5>2 DEF Watches
      <4> QED
        BY <4>1, <4>2
    <3>3. \A t : Undropped(t)' = Undropped(t)
      BY <1>3 DEF Undropped, On
    <3>4. \A z \in Elems(ts) : z.do \notin Taking /\ Fits(z) /\ Caught(q, z)' /\ Cleared(q, z)'
      BY <2>4, <2>5, <3>2, <3>3 DEF Taking, Fits, Caught, Cleared, Placing
    <3>5. \A z \in Later(q) : z.do # "catch"
      BY <1>4
    <3>6. \A z \in Elems(ts) \cup Later(q) : z.do \notin Bound
      BY <1>4, <2>4 DEF Bound, Watching
    <3>7. \A z \in Elems(ts), y \in Elems(ts) \cup Later(q) : ~ Clash(z, y) /\ ~ Clash(y, z)
      BY <3>6 DEF Clash
    <3>8. k.do # "drop" /\ \A o \in Orders : rows[o].status \notin Terminal => rows'[o].status \notin Terminal
      BY <1>1, <1>3
    <3> QED
      BY <1>0, <1>3, <1>6, <2>1, <3>1, <3>4, <3>5, <3>7, <3>8, PlanIdle
  <2> QED
    BY <1>2, <2>3, <2>6 DEF Kept
<1> QED
  BY <1>1, <1>5, <1>6

LEMMA CancelKeeps == ASSUME TypeInv, ListInv, NEW q \in Requests, Kept(q), CancelTrip(q) PROVE Kept(q)'
<1>0. Sound(q)
  BY CancelShape
<1> SUFFICES ASSUME NEW k, k = Head(work[q]) PROVE Kept(q)'
  OBVIOUS
<1> DEFINE n == Len(trips)
           ts == <<>>
<1>1. /\ work[q] # <<>> /\ k.do = "cancel" /\ k \in Tasks(n) /\ n \in Nat /\ past' = past
      /\ k \in Todo(q) /\ Todo(q) = {k} \cup Later(q) /\ Then(q, ts) /\ UNCHANGED <<rows, stops, free, bonus>>
      /\ DOMAIN trips = 1 .. n /\ \A z \in Later(q) : k.do \in Before(z.do)
  BY <1>0, Facts DEF CancelTrip, Runs
<1>2. k.trip \in 1 .. n
  BY <1>1, TaskFields
<1>3. \/ trips' = trips
      \/ trips[k.trip].status = "planned" /\ trips' = [trips EXCEPT ![k.trip].status = "cancelled"]
  BY DEF CancelTrip
<1>4. /\ Len(trips') = n /\ DOMAIN trips' = DOMAIN trips
      /\ \A u \in DOMAIN trips \ {k.trip} : trips'[u] = trips[u]
      /\ trips' # trips => trips'[k.trip].status = "cancelled"
  BY <1>1, <1>2, <1>3, TripChanges
<1>5. ts \in Seq(Tasks(Len(trips'))) /\ Elems(ts) = {}
  BY <1>1, <1>4, ShortLists
<1> HIDE DEF ts
<1>6. Todo(q)' = Elems(ts) \cup Later(q)
  BY <1>0, <1>1, <1>5, Moved
<1>7. \A t : Undropped(t)' = Undropped(t)
  BY <1>1 DEF Undropped, On
<1>8. Covered'
  <2>1. "cancelled" \notin Active /\ k.do \notin Watching
    BY <1>1 DEF Active, Watching
  <2>2. \A t \in DOMAIN trips' : trips'[t].status \in Active => trips[t].status \in Active
    BY <1>4, <2>1
  <2>3. \A t \in DOMAIN trips' : trips'[t].status \in Active =>
            \/ Undropped(t)' # {}
            \/ Watches(q, t)'
            \/ /\ t \in DOMAIN trips /\ trips[t].status \in Active /\ Undropped(t) = {}
               /\ k.do \in Watching => k.trip # t
    BY <1>4, <1>7, <2>1, <2>2
  <2> QED
    BY <1>0, <1>6, <2>3, CoverStep DEF Kept
<1>9. ASSUME q \in past.planners PROVE PlanOK(q)'
  <2>1. PlanOK(q)
    BY <1>1, <1>9 DEF Kept
  <2>2. ASSUME NEW x \in Later(q) PROVE Fits(x)' /\ Cleared(q, x)' /\ Caught(q, x)'
    <3>1. /\ Fits(x) /\ Caught(q, x)
          /\ x.do \notin Taking
      <4>1. x.do \notin Taking
        BY <1>1 DEF Before, Taking, Shared
      <4> QED
        BY <1>1, <2>1, <4>1 DEF PlanOK
    <3>2. Fits(x)'
      BY <1>1, <1>7, <3>1 DEF Fits, Taking
    <3>3. Cleared(q, x)'
      BY <3>1 DEF Cleared, Placing, Taking
    <3>4. Caught(q, x)'
      BY <1>1, <1>5, <1>6, <1>7, <3>1 DEF Caught
    <3> QED
      BY <3>2, <3>3, <3>4
  <2>3. ASSUME NEW x \in Later(q), NEW y \in Later(q) PROVE ~ Clash(x, y)'
    <3>1. ~ Clash(x, y)
      BY <1>1, <2>1 DEF PlanOK
    <3> QED
      BY <1>1, <3>1 DEF Clash
  <2> QED
    BY <1>0, <1>1, <1>5, <2>1, <2>2, <2>3, PlanKept
<1> QED
  BY <1>1, <1>8, <1>9 DEF Kept

LEMMA ReviveKeeps == ASSUME TypeInv, ListInv, NEW q \in Requests, Kept(q), Revive(q) PROVE Kept(q)'
<1>0. Sound(q)
  BY ReviveShape
<1> SUFFICES ASSUME NEW k, k = Head(work[q]) PROVE Kept(q)'
  OBVIOUS
<1> DEFINE n == Len(trips)
           ts == <<>>
<1>1. /\ work[q] # <<>> /\ k.do = "revive" /\ k \in Tasks(n) /\ n \in Nat /\ past' = past
      /\ k \in Todo(q) /\ Todo(q) = {k} \cup Later(q) /\ Then(q, ts) /\ UNCHANGED <<rows, stops, free, bonus>>
      /\ DOMAIN trips = 1 .. n /\ \A z \in Later(q) : k.do \in Before(z.do)
  BY <1>0, Facts DEF Revive, Runs
<1>2. k.trip \in 1 .. n
  BY <1>1, TaskFields
<1>3. trips' = [trips EXCEPT ![k.trip].status = "planned"]
  BY Zenon DEF Revive
<1>4. /\ Len(trips') = n /\ DOMAIN trips' = DOMAIN trips
      /\ \A u \in DOMAIN trips \ {k.trip} : trips'[u] = trips[u]
  <2>1. "planned" \in Active
    BY DEF Active
  <2> QED
    BY <1>1, <1>2, <1>3, <2>1, TripChanges, Zenon
<1>5. PlanOK(q) /\ Undropped(k.trip) # {}
  <2>1. q \in past.planners
    <3>1. "revive" \notin Moving \cup Shared
      BY DEF Moving, Shared
    <3>2. q \notin past.planners => \A x \in Todo(q) : x.do \in Moving \cup Shared
      BY <1>0, Facts, Zenon
    <3> QED
      BY <1>1, <3>1, <3>2, Zenon
  <2>2. PlanOK(q)
    BY <1>1, <2>1 DEF Kept
  <2> QED
    BY <1>1, <2>2 DEF PlanOK, Fits
<1>6. ts \in Seq(Tasks(Len(trips'))) /\ Elems(ts) = {}
  BY <1>1, <1>4, ShortLists
<1> HIDE DEF ts
<1>7. Todo(q)' = Elems(ts) \cup Later(q)
  BY <1>0, <1>1, <1>6, Moved
<1>8. \A t : Undropped(t)' = Undropped(t)
  BY <1>1 DEF Undropped, On
<1>9. Covered'
  <2>1. k.do \notin Watching
    BY <1>1 DEF Watching
  <2>2. \A t \in DOMAIN trips' : trips'[t].status \in Active =>
            \/ Undropped(t)' # {}
            \/ Watches(q, t)'
            \/ /\ t \in DOMAIN trips /\ trips[t].status \in Active /\ Undropped(t) = {}
               /\ k.do \in Watching => k.trip # t
    BY <1>4, <1>5, <1>8, <2>1
  <2> QED
    BY <1>0, <1>7, <2>2, CoverStep DEF Kept
<1>10. PlanOK(q)'
  <2>1. ASSUME NEW x \in Later(q) PROVE Fits(x)' /\ Cleared(q, x)' /\ Caught(q, x)'
    <3>1. Fits(x) /\ x.do \notin Taking \cup {"cancel", "create", "catch"}
      <4>1. x.do \notin Taking \cup {"cancel", "create", "catch"}
        BY <1>1 DEF Before, Taking, Shared
      <4> QED
        BY <1>1, <1>5, <4>1 DEF PlanOK
    <3>2. Fits(x)'
      BY <1>1, <1>8, <3>1 DEF Fits, Taking
    <3>3. Cleared(q, x)' /\ Caught(q, x)'
      BY <3>1 DEF Cleared, Caught, Placing, Taking
    <3> QED
      BY <3>2, <3>3
  <2>2. ASSUME NEW x \in Later(q), NEW y \in Later(q) PROVE ~ Clash(x, y)'
    <3>1. ~ Clash(x, y)
      BY <1>1, <1>5 DEF PlanOK
    <3> QED
      BY <1>1, <3>1 DEF Clash
  <2> QED
    BY <1>0, <1>1, <1>5, <1>6, <2>1, <2>2, PlanKept
<1> QED
  BY <1>1, <1>9, <1>10 DEF Kept

LEMMA StepsKeep == ASSUME TypeInv, ListInv, NEW q \in Requests, Kept(q), Steps(q) PROVE Kept(q)'
BY DropKeeps, PointKeeps, SettleKeeps, CloseKeeps, PickKeeps, OpenKeeps, PlaceKeeps, PickedUpKeeps,
   DeliverKeeps, SettleDeliveredKeeps, RefreshKeeps, PayBonusKeeps, SaveKeeps, AssignKeeps,
   UpdateKeeps, BookKeeps, UnbookKeeps, CreateKeeps, InsertKeeps, AddKeeps, CancelKeeps,
   NotCaughtKeeps, ReviveKeeps, PickupKeeps DEF Steps

\* A request that plans runs alone, so whose step it is not has nothing to keep.
LEMMA StepOpen ==
  ASSUME TypeInv, ListInv, OpenInv, NEW q \in Requests, Steps(q)
  PROVE  OpenInv'
<1>1. Sound(q)
  BY StepsAreSound
<1>2. /\ past' = past /\ work[q] # <<>> /\ \A p \in Requests \ {q} : work'[p] = work[p]
  BY <1>1, ShapeTodo
<1>3. CASE past.tangled \/ past.cut
  BY <1>2, <1>3 DEF OpenInv
<1>4. CASE ~ past.tangled /\ ~ past.cut
  <2>1. Kept(q)'
    BY <1>4, StepsKeep DEF OpenInv
  <2>2. Covered'
    BY <2>1 DEF Kept
  <2>3. ASSUME NEW p \in Requests \ {q}, p \in past.planners, work'[p] # <<>> PROVE FALSE
    <3>1. Alone(p)
      BY <1>2, <1>4, <2>3 DEF OpenInv, Kept, PlanOK
    <3> QED
      BY <1>2, <3>1 DEF Alone
  <2>4. \A p \in Requests : Kept(p)'
    BY <1>2, <2>1, <2>2, <2>3 DEF Kept
  <2> QED
    BY <2>2, <2>4 DEF OpenInv
<1> QED
  BY <1>3, <1>4

LEMMA CallOpen ==
  ASSUME TypeInv, ListInv, OpenInv, NEW q \in Requests, NEW x \in CallTasks, Call(q, x)
  PROVE  OpenInv'
<1> DEFINE rivals == {p \in Requests : work[p] # <<>>}
<1>1. /\ work[q] = <<>> /\ work'[q] = <<x>> /\ Todo(q)' = {x} /\ Len(work'[q]) = 1
      /\ \A p \in Requests \ {q} : work'[p] = work[p]
      /\ UNCHANGED db
      /\ past'.planners = (past.planners \cap rivals) \cup (IF x.do \in StatusCalls THEN {} ELSE {q})
      /\ past'.cut = past.cut
      /\ past'.tangled = (past.tangled \/ (rivals # {} /\ past'.planners # {}))
  BY Called
<1>2. CASE past'.tangled \/ past'.cut
  BY <1>2 DEF OpenInv
<1>3. CASE ~ past'.tangled /\ ~ past'.cut
  <2>1. Covered /\ (rivals = {} \/ past'.planners = {})
    BY <1>1, <1>3 DEF OpenInv
  <2>2. UNCHANGED <<stops, trips>>
    BY <1>1 DEF db
  <2>3. \A t : Undropped(t)' = Undropped(t)
    BY <2>2 DEF Undropped, On
  <2>4. ASSUME NEW p \in Requests, NEW t, Watches(p, t) PROVE Watches(p, t)'
    <3>1. p # q
      <4>1. Todo(q) = {}
        BY <1>1 DEF Todo
      <4> QED
        BY <2>4, <4>1 DEF Watches
    <3>2. Todo(p)' = Todo(p)
      BY <1>1, <3>1 DEF Todo
    <3> QED
      BY <2>4, <3>2 DEF Watches
  <2>5. Covered'
    BY <2>1, <2>2, <2>3, <2>4 DEF Covered
  <2>6. ASSUME NEW p \in Requests, p \in past'.planners, work'[p] # <<>> PROVE PlanOK(p)'
    <3>1. rivals = {}
      BY <2>1, <2>6
    <3>2. p = q
      BY <1>1, <2>6, <3>1
    <3>3. Alone(q)'
      BY <1>1, <3>1 DEF Alone
    <3>4. DOMAIN work'[q] = {1} /\ work'[q][1] = x
      BY <1>1
    <3>5. Distinct(q)' /\ OneTrip(q)'
      BY <1>1, <3>4 DEF Distinct, OneTrip
    <3>6. /\ x.do \in {"assign", "update", "book", "unbook", "create", "add", "pickup"}
          /\ x.do = "assign" => x.trip = 0
          /\ x.do = "create" => x.orders # <<>> /\ Injective(x.orders)
      BY DEF CallTasks
    <3>7. Fits(x)' /\ Cleared(q, x)' /\ Caught(q, x)'
      BY <3>6 DEF Fits, Cleared, Caught, Placing
    <3>8. ~ Clash(x, x)'
      BY <3>6 DEF Clash, Bound
    <3> QED
      BY <1>1, <3>2, <3>3, <3>5, <3>7, <3>8 DEF PlanOK
  <2> QED
    BY <2>5, <2>6 DEF OpenInv, Kept
<1> QED
  BY <1>2, <1>3

LEMMA InitOpen == Init => OpenInv
<1> SUFFICES ASSUME Init PROVE OpenInv
  OBVIOUS
<1>1. \A q \in Requests : work[q] = <<>>
  BY DEF Init
<1>2. Covered
  <2>1. CASE Fresh
    <3>1. trips = <<>>
      BY <2>1 DEF Fresh
    <3> QED
      BY <3>1 DEF Covered
  <2>2. ASSUME NEW r \in Riders, NEW os \in SUBSET Orders, NEW stage \in [os -> Stages \ {"cancelled"}],
               Riding(r, stage)
        PROVE  Covered
    <3>1. DOMAIN stage = os
      OBVIOUS
    <3>2. PICK o \in os : stage[o] # "delivered"
      BY <2>2, <3>1 DEF Riding
    <3>3. /\ stops = [p \in Orders |-> IF p \in os THEN [trip |-> 1, dropped |-> stage[p] = "delivered"] ELSE NoStop]
          /\ \E t : trips = <<t>>
      BY <2>2, <3>1 DEF Riding
    <3>4. stops[o].trip = 1 /\ ~ stops[o].dropped /\ o \in Orders
      BY <3>2, <3>3
    <3>5. Undropped(1) # {}
      BY <3>4 DEF Undropped, On
    <3>6. DOMAIN trips = {1}
      BY <3>3
    <3> QED
      BY <3>5, <3>6 DEF Covered
  <2> QED
    BY <2>1, <2>2 DEF Init
<1> QED
  BY <1>1, <1>2 DEF OpenInv, Kept

LEMMA NextOpen == TypeInv /\ ListInv /\ OpenInv /\ [Next]_vars => OpenInv'
<1> SUFFICES ASSUME TypeInv, ListInv, OpenInv, [Next]_vars PROVE OpenInv'
  OBVIOUS
<1>1. CASE UNCHANGED vars
  <2>1. UNCHANGED <<rows, stops, trips, work, past>>
    BY <1>1 DEF vars, db
  <2>2. \A t : Undropped(t)' = Undropped(t)
    BY <2>1 DEF Undropped, On
  <2>3. \A q : Todo(q)' = Todo(q)
    BY <2>1 DEF Todo
  <2>4. Covered' = Covered
    BY <2>1, <2>2, <2>3 DEF Covered, Watches
  <2>5. ASSUME NEW q \in Requests PROVE PlanOK(q)' = PlanOK(q)
    <3>1. Alone(q)' = Alone(q) /\ Distinct(q)' = Distinct(q) /\ OneTrip(q)' = OneTrip(q)
      BY <2>1, <2>3 DEF Alone, Distinct, OneTrip
    <3>2. \A x : Fits(x)' = Fits(x) /\ Cleared(q, x)' = Cleared(q, x) /\ Caught(q, x)' = Caught(q, x)
      BY <2>1, <2>2, <2>3 DEF Fits, Cleared, Caught
    <3>3. \A x, y : Clash(x, y)' = Clash(x, y)
      BY <2>1 DEF Clash
    <3> QED
      BY <2>3, <3>1, <3>2, <3>3 DEF PlanOK
  <2> QED
    BY <2>1, <2>4, <2>5 DEF OpenInv, Kept
<1>2. ASSUME NEW q \in Requests, Calls(q) PROVE OpenInv'
  BY <1>2, CallIs, CallOpen
<1>3. ASSUME NEW q \in Requests, Steps(q) PROVE OpenInv'
  BY <1>3, StepOpen
<1>4. ASSUME NEW q \in Requests, Fail(q) PROVE OpenInv'
  BY <1>4, FailIs DEF OpenInv
<1> QED
  BY <1>1, <1>2, <1>3, <1>4, NextIs

\* No trip is left on the road with nothing to deliver once the requests have
\* ended, none broken off and no planning one raced: whoever takes its last
\* stop, or marks it delivered, still has to count, and who counts closes it;
\* a request that plans opens a trip only for a stop it then places.
THEOREM TripsAreFinished == Spec => []NoTripLeftOpen
<1>1. OpenInv => NoTripLeftOpen
  <2> SUFFICES ASSUME OpenInv, Settled, NEW t \in DOMAIN trips, trips[t].status = "picked_up"
               PROVE  Undropped(t) # {}
    BY DEF NoTripLeftOpen
  <2>1. Covered /\ \A q \in Requests : work[q] = <<>>
    BY DEF OpenInv, Settled
  <2>2. \A q \in Requests : Todo(q) = {}
    BY <2>1 DEF Todo
  <2>3. trips[t].status \in Active
    BY DEF Active
  <2> QED
    BY <2>1, <2>2, <2>3 DEF Covered, Watches
<1> QED
  BY <1>1, InitTypes, NextTypes, InitOpen, NextOpen, PTL DEF Spec

----------------------------------------------------------------------------
(* Between requests the orders, the trips, the board and the riders' flags *)
(* tell one story.                                                         *)
(*                                                                         *)
(* Requests that move statuses may run side by side, one that plans runs   *)
(* alone.  For each record that two places keep the invariant says that    *)
(* they agree, or which statement on some list still has to write it.      *)

\* What is dropped was delivered.
Delivered(o) == stops[o].dropped => rows[o].status = "delivered"

\* The order points to the trip it has a stop on, or a list still points it.
Pointed(o) ==
  \/ rows[o].trip = stops[o].trip
  \/ \E q \in Requests : /\ \E x \in Todo(q) : x.do \in {"drop", "point"} /\ x.order = o
                         /\ q \in past.planners \/ rows[o].status = "cancelled"

\* An order that is over leaves its trip, or some list makes it.
Served(o) ==
  stops[o] # NoStop /\ ~ stops[o].dropped /\ rows[o].status \in Terminal =>
    \E q \in Requests : \E x \in Todo(q) :
      /\ x.order = o
      /\ \/ x.do = "deliver" /\ rows[o].status = "delivered"
         \/ x.do = "drop" /\ rows[o].status = "cancelled"

\* A request is giving the order to somebody else.
HandsOver(q, o) ==
  /\ q \in past.planners
  /\ \E x \in Todo(q) : x.do \in {"save", "drop"} \cup Placing /\ x.order = o

\* A trip is being made anew: the order comes along, or the old one comes back.
Remakes(q, o) ==
  /\ q \in past.planners
  /\ \/ TripTask("revive", stops[o].trip) \in Todo(q)
     \/ /\ TripTask("catch", stops[o].trip) \in Todo(q)
        /\ \E x \in Todo(q) : \/ x.do \in {"create", "insert"} /\ \E i \in DOMAIN x.orders : x.orders[i] = o
                              \/ x.do = "assign" /\ x.order = o

\* An order under way is on a trip of its rider that goes, or no rider's.
Plain(o) ==
  IF stops[o] = NoStop THEN rows[o].carrier \notin Riders
  ELSE /\ trips[stops[o].trip].rider = rows[o].carrier
       /\ trips[stops[o].trip].status \in Active \/ \E q \in Requests : Remakes(q, o)

Rides(o) == rows[o].status \in Terminal \/ Plain(o) \/ \E q \in Requests : HandsOver(q, o)

OrdersOK == \A o \in Orders : Delivered(o) /\ Pointed(o) /\ Served(o) /\ Rides(o)

\* A list has the rider looked at: a status move only once it is saved.
Minds(q, r) ==
  /\ \E x \in Todo(q) : x.do \in {"refresh", "deliver", "last"} /\ x.rider = r
  /\ q \in past.planners \/ \A y \in Todo(q) : y.do # "save"

Loaded(r) ==
  \E o \in Orders : /\ rows[o].carrier = r /\ rows[o].status \notin Terminal
                    /\ past.raced \/ rows[o].status \in NeedsCarrier

RidersOK == \A r \in Riders : free[r] \/ Loaded(r) \/ \E q \in Requests : Minds(q, r)

\* What a statement is about to write is so.
TaskOK(x) ==
  /\ x.do = "point" => stops[x.order].trip = x.trip
  /\ x.do = "close" => Undropped(x.trip) = {}

TasksOK == \A q \in Requests : \A x \in Todo(q) : TaskOK(x)

\* A list that moves statuses, around a save: it comes first, and what the new
\* status entails is behind it.
SaveOK(q, x) ==
  /\ x.row.carrier = rows[x.order].carrier
  /\ x.row.status = "cancelled" =>
       DropTask(x.order) \in Todo(q) /\ RefreshTask(rows[x.order].carrier) \in Todo(q)
  /\ x.row.status = "delivered" => Task("deliver", x.order, rows[x.order].carrier, 0) \in Todo(q)
  /\ x.row.status # "cancelled" =>
       x.row.trip = stops[x.order].trip \/ rows[x.order].status = "cancelled"
  /\ ~ past.raced => MayMove(rows[x.order].status, x.row.status, "delivery")
  /\ \A y \in Todo(q) : /\ y.do = "drop" => y.order = x.order /\ x.row.status = "cancelled"
                        /\ y.do = "deliver" => y.order = x.order /\ x.row.status = "delivered"

Saves(q) == \E x \in Todo(q) : x.do = "save"

MoveOK(q) ==
  /\ Saves(q) => Head(work[q]).do = "save"
  /\ \A x \in Todo(q) :
       /\ x.do = "save" => SaveOK(q, x)
       /\ x.do = "drop" => rows[x.order].status = "cancelled" \/ Saves(q)
       /\ x.do = "deliver" => rows[x.order].status = "delivered" \/ Saves(q)
       /\ x.do = "point" => x.trip = 0

\* A list that plans.  A save: whom it takes the order from is looked at, and
\* the order gets a stop on its new rider's trip, or none.
TakeOK(q, x) ==
  /\ rows[x.order].carrier \in Riders => RefreshTask(rows[x.order].carrier) \in Todo(q)
  /\ Head(work[q]).do = "save" \/ (x.row.carrier \notin Riders /\ x.row.trip = 0)
  /\ DropTask(x.order) \in Todo(q) \/ x.row.trip = stops[x.order].trip
  /\ \/ \E y \in Todo(q) : y.do \in Placing /\ y.order = x.order /\ y.rider = x.row.carrier
     \/ x.row.carrier \notin Riders /\ (DropTask(x.order) \in Todo(q) \/ stops[x.order] = NoStop)

SavesOf(q, o) == {y \in Todo(q) : y.do = "save" /\ y.order = o}

GiveOK(q, x) ==
  /\ rows[x.order].status \notin Terminal
  /\ rows[x.order].carrier = x.rider \/ SavesOf(q, x.order) # {}
  /\ \A y \in SavesOf(q, x.order) : y.row.carrier = x.rider

LeaveOK(q, x) ==
  \/ rows[x.order].carrier \notin Riders
  \/ \E y \in Todo(q) : y.do \in {"save"} \cup Placing /\ y.order = x.order

\* addToTrip gives up the trip for one with all its orders.
RemakeOK(q, x) ==
  /\ TripTask("catch", x.trip) \in Todo(q)
  /\ \E y \in Todo(q) : /\ y.do = "create"
                        /\ \A o \in On(x.trip) : \E i \in DOMAIN y.orders : y.orders[i] = o

PlanTask(q, x) ==
  /\ x.do = "save" => TakeOK(q, x)
  /\ x.do = "drop" => LeaveOK(q, x)
  /\ x.do \in Placing => GiveOK(q, x)
  /\ x.do = "place" => trips[x.trip].rider = x.rider /\ trips[x.trip].status = "planned"
  /\ x.do = "cancel" => RemakeOK(q, x)
  /\ x.do = "catch" => \A y \in Todo(q) : y.do = "catch" => y = x

PlansOK(q) == \A x \in Todo(q) : PlanTask(q, x)

ListsOK == \A q \in Requests : IF q \in past.planners THEN PlansOK(q) ELSE MoveOK(q)

Books == OrdersOK /\ RidersOK /\ TasksOK /\ ListsOK

BooksInv == past.tangled \/ past.cut \/ Books

----------------------------------------------------------------------------
(* Requests that move statuses.                                            *)

\* Nobody plans meanwhile.
NobodyPlans == \A p \in Requests : p \in past.planners => Todo(p) = {}

\* A step of a request that moves statuses.
MoverStep(q) ==
  /\ TypeInv /\ ListInv /\ Sound(q) /\ q \notin past.planners /\ NobodyPlans /\ Books
  /\ past.raced \/ Single

LEMMA MoversOnly ==
  ASSUME TypeInv, OpenInv, ~ past.tangled, ~ past.cut, NEW q \in Requests, work[q] # <<>>,
         q \notin past.planners
  PROVE  NobodyPlans
<1> SUFFICES ASSUME NEW p \in Requests, p \in past.planners, Todo(p) # {} PROVE FALSE
  BY DEF NobodyPlans
<1>1. work[p] # <<>>
  BY DEF Todo
<1>2. PlanOK(p)
  BY <1>1 DEF OpenInv, Kept
<1> QED
  BY <1>2 DEF PlanOK, Alone

\* What the others and the rest of the list are after such a step.
LEMMA MoverFrame ==
  ASSUME NEW q \in Requests, MoverStep(q), NEW k, k = Head(work[q])
  PROVE  /\ work[q] # <<>> /\ k \in Todo(q) /\ Todo(q) = {k} \cup Later(q)
         /\ past' = past /\ \A p \in Requests \ {q} : Todo(p)' = Todo(p) /\ work'[p] = work[p]
         /\ \A x \in Later(q) : k.do \in Before(x.do)
         /\ \A x \in Todo(q) : x.do \in Moving \cup Shared
         /\ NobodyPlans' /\ MoveOK(q)
         /\ \A o : \A p \in Requests : ~ HandsOver(p, o) /\ ~ HandsOver(p, o)' /\ ~ Remakes(p, o) /\ ~ Remakes(p, o)'
<1>1. /\ work[q] # <<>> /\ k \in Todo(q) /\ Todo(q) = {k} \cup Later(q)
      /\ past' = past /\ \A p \in Requests \ {q} : Todo(p)' = Todo(p) /\ work'[p] = work[p]
      /\ \A x \in Later(q) : k.do \in Before(x.do)
      /\ \A x \in Todo(q) : x.do \in Moving \cup Shared
  BY Facts DEF MoverStep
<1>2. NobodyPlans'
  BY <1>1 DEF MoverStep, NobodyPlans
<1>3. MoveOK(q)
  BY DEF MoverStep, Books, ListsOK
<1>4. \A o : \A p \in Requests : ~ HandsOver(p, o) /\ ~ Remakes(p, o)
  BY DEF MoverStep, NobodyPlans, HandsOver, Remakes
<1>5. \A o : \A p \in Requests : ~ HandsOver(p, o)' /\ ~ Remakes(p, o)'
  BY <1>2 DEF NobodyPlans, HandsOver, Remakes
<1> QED
  BY <1>1, <1>2, <1>3, <1>4, <1>5

\* Orders stay on their trips.
LEMMA MoverRides ==
  ASSUME NEW q \in Requests, MoverStep(q), NEW o \in Orders,
         rows'[o].status \notin Terminal =>
           /\ rows[o].status \notin Terminal /\ rows'[o].carrier = rows[o].carrier
           /\ stops'[o] = stops[o]
           /\ stops[o] # NoStop =>
                /\ trips'[stops[o].trip].rider = trips[stops[o].trip].rider
                /\ trips[stops[o].trip].status \in Active => trips'[stops[o].trip].status \in Active
  PROVE  Rides(o)'
<1>1. \A p \in Requests : ~ HandsOver(p, o) /\ ~ Remakes(p, o) 
  BY MoverFrame
<1>2. Rides(o)
  BY DEF MoverStep, Books, OrdersOK
<1>3. NoStop' = NoStop
  BY DEF NoStop
<1>4. rows[o].status \in Terminal \/ Plain(o)
  BY <1>1, <1>2 DEF Rides
<1>5. rows'[o].status \notin Terminal => Plain(o)'
  BY <1>1, <1>3, <1>4 DEF Plain
<1> QED
  BY <1>5 DEF Rides

\* Statements that an order, a stop or a rider's flag may wait for.
Telling == {"save", "drop", "deliver", "point"}

\* A step that writes no order and no stop and is none of these statements.
LEMMA MoverQuiet ==
  ASSUME NEW q \in Requests, MoverStep(q), NEW k, k = Head(work[q]), UNCHANGED <<rows, stops>>,
         k.do \notin Telling,
         Later(q) \subseteq Todo(q)' \/ \A x \in Later(q) : x.do = "update",
         \A x \in Todo(q)' : x \in Later(q) \/ (x.do \notin Telling /\ TaskOK(x)'),
         \A o \in Orders : rows[o].status \notin Terminal /\ stops[o] # NoStop =>
            /\ trips'[stops[o].trip].rider = trips[stops[o].trip].rider
            /\ trips[stops[o].trip].status \in Active => trips'[stops[o].trip].status \in Active,
         \A r \in Riders :
            \/ free'[r] \/ Loaded(r)
            \/ /\ ~ free[r]
               /\ k.do \in {"refresh", "last"} /\ k.rider = r =>
                    \E x \in Todo(q)' : x.do \in {"refresh", "deliver", "last"} /\ x.rider = r
  PROVE  Books'
<1>1. /\ work[q] # <<>> /\ k \in Todo(q) /\ Todo(q) = {k} \cup Later(q)
      /\ past' = past /\ \A p \in Requests \ {q} : Todo(p)' = Todo(p) /\ work'[p] = work[p]
      /\ NobodyPlans' /\ MoveOK(q)
  BY MoverFrame
<1>2. \A x \in Todo(q) : x.do # "save"
  BY <1>1 DEF MoveOK, Saves, Telling
<1>3. \A x \in Todo(q)' : x.do \in Telling => x \in Later(q) /\ x \in Todo(q)
  BY <1>1
<1>4. \A x \in Todo(q) : x.do \in Telling => x \in Later(q) /\ x \in Todo(q)'
  BY <1>1 DEF Telling
<1>5. \A t : Undropped(t)' = Undropped(t)
  BY DEF Undropped, On
<1>6. q \notin past.planners /\ Books
  BY DEF MoverStep
<1>7. OrdersOK'
  <2> SUFFICES ASSUME NEW o \in Orders PROVE Delivered(o)' /\ Pointed(o)' /\ Served(o)' /\ Rides(o)'
    BY DEF OrdersOK
  <2>1. Delivered(o) /\ Pointed(o) /\ Served(o)
    BY <1>6 DEF Books, OrdersOK
  <2>2. Delivered(o)'
    BY <2>1 DEF Delivered
  <2>3. Pointed(o)'
    <3>1. CASE rows[o].trip = stops[o].trip
      BY <3>1 DEF Pointed
    <3>2. ASSUME NEW p \in Requests, NEW x \in Todo(p), x.do \in {"drop", "point"}, x.order = o,
                 p \in past.planners \/ rows[o].status = "cancelled"
          PROVE  Pointed(o)'
      <4>1. x \in Todo(p)'
        BY <1>1, <1>4, <3>2 DEF Telling
      <4> QED
        BY <1>1, <3>2, <4>1 DEF Pointed
    <3> QED
      BY <2>1, <3>1, <3>2 DEF Pointed
  <2>4. Served(o)'
    <3> SUFFICES ASSUME stops[o] # NoStop, ~ stops[o].dropped, rows[o].status \in Terminal
                 PROVE  Served(o)'
      BY DEF Served, NoStop
    <3>1. PICK p \in Requests : \E x \in Todo(p) :
            /\ x.order = o
            /\ \/ x.do = "deliver" /\ rows[o].status = "delivered"
               \/ x.do = "drop" /\ rows[o].status = "cancelled"
      BY <2>1 DEF Served
    <3>2. PICK x \in Todo(p) :
            /\ x.order = o
            /\ \/ x.do = "deliver" /\ rows[o].status = "delivered"
               \/ x.do = "drop" /\ rows[o].status = "cancelled"
      BY <3>1
    <3>3. x \in Todo(p)'
      BY <1>1, <1>4, <3>2 DEF Telling
    <3> QED
      BY <3>2, <3>3 DEF Served
  <2>5. Rides(o)'
    BY MoverRides
  <2> QED
    BY <2>2, <2>3, <2>4, <2>5
<1>8. RidersOK'
  <2> SUFFICES ASSUME NEW r \in Riders, ~ free'[r], ~ Loaded(r)' PROVE \E p \in Requests : Minds(p, r)'
    BY DEF RidersOK
  <2>1. ~ Loaded(r)
    BY <1>1 DEF Loaded
  <2>2. PICK p \in Requests : Minds(p, r)
    BY <1>6, <2>1 DEF Books, RidersOK
  <2>3. CASE p # q
    BY <1>1, <2>2, <2>3 DEF Minds
  <2>4. CASE p = q
    <3>1. PICK x \in Todo(q) : x.do \in {"refresh", "deliver", "last"} /\ x.rider = r
      BY <2>2, <2>4 DEF Minds
    <3>2. \E y \in Todo(q)' : y.do \in {"refresh", "deliver", "last"} /\ y.rider = r
      <4>1. CASE x = k
        BY <2>1, <3>1, <4>1 DEF Telling
      <4>2. CASE x \in Later(q)
        BY <3>1, <4>2
      <4> QED
        BY <1>1, <4>1, <4>2
    <3>3. \A y \in Todo(q)' : y.do # "save"
      BY <1>2, <1>3 DEF Telling
    <3> QED
      BY <3>2, <3>3 DEF Minds
  <2> QED
    BY <2>3, <2>4
<1>9. TasksOK'
  <2> SUFFICES ASSUME NEW p \in Requests, NEW x \in Todo(p)' PROVE TaskOK(x)'
    BY DEF TasksOK
  <2>1. ASSUME x \in Todo(p) PROVE TaskOK(x)'
    BY <1>5, <1>6, <2>1 DEF Books, TasksOK, TaskOK
  <2> QED
    BY <1>1, <2>1
<1>10. ListsOK'
  <2> SUFFICES ASSUME NEW p \in Requests
               PROVE  IF p \in past.planners THEN PlansOK(p)' ELSE MoveOK(p)'
    BY <1>1 DEF ListsOK
  <2>1. ASSUME p \in past.planners PROVE PlansOK(p)'
    BY <1>1, <2>1 DEF NobodyPlans, PlansOK
  <2>2. ASSUME p \notin past.planners PROVE MoveOK(p)'
    <3>1. CASE p = q
      BY <1>1, <1>2, <1>3, <3>1 DEF MoveOK, Telling, Saves
    <3>2. CASE p # q
      <4>1. MoveOK(p)
        BY <1>6, <2>2 DEF Books, ListsOK
      <4>2. Todo(p)' = Todo(p) /\ work'[p] = work[p] /\ past' = past
        BY <1>1, <3>2
      <4>3. \A x \in Todo(p) : SaveOK(p, x) => SaveOK(p, x)'
        BY <4>2 DEF SaveOK
      <4> QED
        BY <4>1, <4>2, <4>3 DEF MoveOK, Saves
    <3> QED
      BY <3>1, <3>2
  <2> QED
    BY <2>1, <2>2
<1> QED
  BY <1>7, <1>8, <1>9, <1>10 DEF Books

\* A stop is on a trip that there is.
LEMMA StopTrip ==
  ASSUME TypeInv, NEW o \in Orders, stops[o] # NoStop
  PROVE  stops[o].trip \in 1 .. Len(trips) /\ DOMAIN trips = 1 .. Len(trips) /\ o \in On(stops[o].trip)
BY DEF TypeInv, DbType, On

LEMMA SettleMoves == ASSUME NEW q \in Requests, MoverStep(q), Settle(q) PROVE Books'
<1> SUFFICES ASSUME NEW k, k = Head(work[q]) PROVE Books'
  OBVIOUS
<1> DEFINE n == Len(trips)
           ts == Closing(k.trip)
<1>1. /\ k.do = "settle" /\ k \in Tasks(n) /\ n \in Nat /\ Then(q, ts)
      /\ TypeInv /\ ListInv /\ Sound(q) /\ UNCHANGED <<rows, stops, trips, free>>
  BY Facts DEF MoverStep, Settle, Runs, db
<1>2. k.trip \in 1 .. n
  BY <1>1, TaskFields
<1>3. /\ ts \in Seq(Tasks(n))
      /\ \A x \in Elems(ts) : x.do = "close" /\ x.trip = k.trip /\ Verdict(k.trip) # "open"
  BY <1>1, <1>2, ClosingList
<1> HIDE DEF ts
<1>4. Todo(q)' = Elems(ts) \cup Later(q)
  BY <1>1, <1>3, Moved
<1>5. Verdict(k.trip) # "open" => Undropped(k.trip)' = {}
  BY <1>1 DEF Verdict, Undropped, On
<1>6. \A x \in Elems(ts) : x.do \notin Telling /\ TaskOK(x)'
  BY <1>3, <1>5 DEF Telling, TaskOK
<1>7. k.do \notin Telling /\ k.do \notin {"refresh", "last"}
  BY <1>1 DEF Telling
<1> QED
  BY <1>1, <1>4, <1>6, <1>7, MoverQuiet

LEMMA CloseMoves == ASSUME NEW q \in Requests, MoverStep(q), CloseTrip(q) PROVE Books'
<1> SUFFICES ASSUME NEW k, k = Head(work[q]) PROVE Books'
  OBVIOUS
<1> DEFINE n == Len(trips)
           ts == <<>>
<1>1. /\ k.do = "close" /\ k \in Tasks(n) /\ n \in Nat /\ Then(q, ts) /\ k \in Todo(q)
      /\ TypeInv /\ ListInv /\ Sound(q) /\ UNCHANGED <<rows, stops, free, bonus>>
      /\ trips' = IF trips[k.trip].status \in Active THEN [trips EXCEPT ![k.trip].status = k.to] ELSE trips
  BY Facts DEF MoverStep, CloseTrip, Runs
<1>2. k.trip \in 1 .. n /\ k.to \in Active \cup {"done", "cancelled"}
  BY <1>1, TaskFields
<1>3. /\ Len(trips') = n /\ \A u \in DOMAIN trips \ {k.trip} : trips'[u] = trips[u]
      /\ \A u \in DOMAIN trips : trips'[u].rider = trips[u].rider
  <2>1. trips' = trips \/ trips' = [trips EXCEPT ![k.trip].status = k.to]
    BY <1>1, Zenon
  <2> QED
    BY <1>1, <1>2, <2>1, TripChanges, Zenon
<1>4. ts \in Seq(Tasks(Len(trips'))) /\ Elems(ts) = {}
  BY <1>1, <1>3, ShortLists
<1> HIDE DEF ts
<1>5. Todo(q)' = Later(q)
  <2>1. Todo(q)' = Elems(ts) \cup Later(q)
    BY <1>1, <1>4, Moved
  <2> QED
    BY <1>4, <2>1
<1>6. Undropped(k.trip) = {} /\ \A o \in Orders : Delivered(o)
  BY <1>1 DEF MoverStep, Books, OrdersOK, TasksOK, TaskOK
<1>7. ASSUME NEW o \in Orders, rows[o].status \notin Terminal, stops[o] # NoStop
      PROVE  trips'[stops[o].trip] = trips[stops[o].trip]
  <2>1. stops[o].trip \in DOMAIN trips /\ o \in On(stops[o].trip)
    BY <1>1, <1>7, StopTrip
  <2>2. stops[o].trip # k.trip
    BY <1>6, <1>7, <2>1 DEF Undropped, Delivered, Terminal
  <2> QED
    BY <1>3, <2>1, <2>2
<1>8. k.do \notin Telling /\ k.do \notin {"refresh", "last"}
  BY <1>1 DEF Telling
<1> QED
  BY <1>1, <1>5, <1>7, <1>8, MoverQuiet

LEMMA PickedUpMoves == ASSUME NEW q \in Requests, MoverStep(q), PickedUp(q) PROVE Books'
<1> SUFFICES ASSUME NEW k, k = Head(work[q]) PROVE Books'
  OBVIOUS
<1> DEFINE n == Len(trips)
           ts == <<>>
           t == rows[k.order].trip
<1>1. /\ k.do = "leave" /\ k \in Tasks(n) /\ n \in Nat /\ Then(q, ts) /\ k \in Todo(q)
      /\ TypeInv /\ ListInv /\ Sound(q) /\ UNCHANGED <<rows, stops, free, bonus>>
      /\ trips' = IF t # 0 /\ trips[t].status = "planned"
                  THEN [trips EXCEPT ![t].status = "picked_up"] ELSE trips
  BY Facts, Zenon DEF MoverStep, PickedUp, Runs
<1>2. t \in 0 .. n
  <2>1. k.order \in Orders
    BY <1>1, TaskFields
  <2> QED
    BY <1>1, <2>1 DEF TypeInv, DbType, RowType
<1>3. /\ Len(trips') = n
      /\ \A u \in DOMAIN trips : trips'[u].rider = trips[u].rider
      /\ \A u \in DOMAIN trips : trips[u].status \in Active => trips'[u].status \in Active
  <2>1. CASE trips' = trips
    BY <2>1
  <2>2. CASE trips' # trips
    <3>0. t # 0 /\ trips' = [trips EXCEPT ![t].status = "picked_up"]
      BY <1>1, <2>2, Zenon
    <3>1. t \in 1 .. n
      <4>1. t # 0 /\ n \in Nat
        BY <1>1, <3>0, Zenon
      <4> HIDE DEF t, n
      <4> QED
        BY <1>2, <4>1
    <3>2. "picked_up" \in Active
      BY DEF Active
    <3>3. /\ Len(trips') = n /\ \A u \in DOMAIN trips : trips'[u].rider = trips[u].rider
          /\ \A u \in DOMAIN trips \ {t} : trips'[u] = trips[u]
          /\ trips'[t].status = "picked_up"
      <4>1. TypeInv /\ UNCHANGED <<rows, stops, free, bonus>>
        BY <1>1
      <4> HIDE DEF t
      <4> QED
        BY <2>2, <3>0, <3>1, <3>2, <4>1, TripChanges, Zenon
    <3> QED
      BY <3>2, <3>3
  <2> QED
    BY <2>1, <2>2
<1>4. ts \in Seq(Tasks(Len(trips'))) /\ Elems(ts) = {}
  <2>1. n \in Nat
    BY <1>1
  <2> HIDE DEF n
  <2>2. ts \in Seq(Tasks(n)) /\ Elems(ts) = {}
    BY <2>1, ShortLists
  <2> QED
    BY <1>3, <2>2
<1> HIDE DEF ts
<1>5. Todo(q)' = Later(q)
  <2>1. Todo(q)' = Elems(ts) \cup Later(q)
    BY <1>1, <1>4, Moved
  <2> QED
    BY <1>4, <2>1
<1>6. \A o \in Orders : stops[o] # NoStop => stops[o].trip \in DOMAIN trips
  BY <1>1, StopTrip
<1>7. k.do \notin Telling /\ k.do \notin {"refresh", "last"}
  BY <1>1 DEF Telling
<1> HIDE DEF t
<1> QED
  BY <1>1, <1>3, <1>5, <1>6, <1>7, MoverQuiet, Zenon

LEMMA SettleDeliveredMoves == ASSUME NEW q \in Requests, MoverStep(q), SettleDelivered(q) PROVE Books'
<1> SUFFICES ASSUME NEW k, k = Head(work[q]) PROVE Books'
  OBVIOUS
<1> DEFINE n == Len(trips)
<1>1. /\ k.do = "last" /\ k \in Tasks(n) /\ n \in Nat
      /\ TypeInv /\ ListInv /\ Sound(q) /\ UNCHANGED <<rows, stops, trips, free>>
  BY Facts DEF MoverStep, SettleDelivered, Runs, db
<1>2. k \in [do : {k.do}, order : Orders, rider : Carriers, trip : 1 .. n]
  BY <1>1, TaskFields
<1>3. PICK ts \in Seq(Tasks(n)) :
        /\ Then(q, ts)
        /\ \A x \in Elems(ts) : \/ x = CloseTask(k.trip, Verdict(k.trip)) /\ Verdict(k.trip) # "open"
                                \/ x = RefreshTask(k.rider)
                                \/ x = [k EXCEPT !.do = "bonus"]
        /\ RefreshTask(k.rider) \in Elems(ts)
  BY <1>1, LastList, Zenon
<1>4. Todo(q)' = Elems(ts) \cup Later(q)
  BY <1>1, <1>3, Moved
<1>5. Verdict(k.trip) # "open" => Undropped(k.trip)' = {}
  BY <1>1 DEF Verdict, Undropped, On
<1>6. [k EXCEPT !.do = "bonus"].do = "bonus"
  BY <1>2
<1>7. ASSUME NEW x \in Elems(ts) PROVE x.do \notin Telling /\ TaskOK(x)'
  <2>1. CASE x = CloseTask(k.trip, Verdict(k.trip)) /\ Verdict(k.trip) # "open"
    <3>1. x.do = "close" /\ x.trip = k.trip
      BY <2>1 DEF CloseTask
    <3> QED
      BY <1>5, <2>1, <3>1 DEF Telling, TaskOK
  <2>2. CASE x = RefreshTask(k.rider)
    BY <2>2 DEF RefreshTask, Telling, TaskOK
  <2>3. CASE x = [k EXCEPT !.do = "bonus"]
    BY <1>6, <2>3 DEF Telling, TaskOK
  <2> QED
    BY <1>3, <2>1, <2>2, <2>3
<1>8. \E x \in Todo(q)' : x.do \in {"refresh", "deliver", "last"} /\ x.rider = k.rider
  BY <1>3, <1>4 DEF RefreshTask
<1>9. k.do \notin Telling
  BY <1>1 DEF Telling
<1> QED
  BY <1>1, <1>4, <1>7, <1>8, <1>9, MoverQuiet

LEMMA RefreshMoves == ASSUME NEW q \in Requests, MoverStep(q), Refresh(q) PROVE Books'
<1> SUFFICES ASSUME NEW k, k = Head(work[q]) PROVE Books'
  OBVIOUS
<1> DEFINE n == Len(trips)
           ts == <<>>
<1>1. /\ k.do = "refresh" /\ n \in Nat /\ Then(q, ts) /\ past' = past
      /\ TypeInv /\ ListInv /\ Sound(q) /\ UNCHANGED <<rows, stops, trips>>
      /\ free' = IF k.rider \in Riders THEN [free EXCEPT ![k.rider] = Carrying(k.rider) = {}] ELSE free
  BY Facts DEF MoverStep, Refresh, Runs
<1>2. ts \in Seq(Tasks(Len(trips'))) /\ Elems(ts) = {}
  BY <1>1, ShortLists
<1> HIDE DEF ts
<1>3. Todo(q)' = Later(q)
  <2>1. Todo(q)' = Elems(ts) \cup Later(q)
    BY <1>1, <1>2, Moved
  <2> QED
    BY <1>2, <2>1
<1>4. ASSUME NEW r \in Riders, ~ free'[r]
      PROVE  Loaded(r) \/ (~ free[r] /\ k.rider # r)
  <2>1. free \in [Riders -> BOOLEAN]
    BY <1>1 DEF TypeInv, DbType
  <2>2. CASE k.rider = r
    <3>1. free' = [free EXCEPT ![r] = Carrying(r) = {}]
      BY <1>1, <2>2
    <3>2. Carrying(r) # {}
      BY <1>4, <2>1, <3>1
    <3>3. PICK o \in Orders : rows[o].carrier = r /\ rows[o].status \in NeedsCarrier
      BY <3>2 DEF Carrying
    <3> QED
      BY <3>3 DEF Loaded, NeedsCarrier, OnTheRoad, Terminal
  <2>3. CASE k.rider # r
    BY <1>1, <1>4, <2>1, <2>3
  <2> QED
    BY <2>2, <2>3
<1>5. k.do \notin Telling
  BY <1>1 DEF Telling
<1> QED
  BY <1>1, <1>3, <1>4, <1>5, MoverQuiet

LEMMA PayBonusMoves == ASSUME NEW q \in Requests, MoverStep(q), PayBonus(q) PROVE Books'
<1> SUFFICES ASSUME NEW k, k = Head(work[q]) PROVE Books'
  OBVIOUS
<1> DEFINE n == Len(trips)
           ts == <<>>
<1>1. /\ k.do = "bonus" /\ n \in Nat /\ Then(q, ts)
      /\ TypeInv /\ ListInv /\ Sound(q) /\ UNCHANGED <<rows, stops, trips, free>>
  BY Facts DEF MoverStep, PayBonus, Runs
<1>2. ts \in Seq(Tasks(Len(trips'))) /\ Elems(ts) = {}
  BY <1>1, ShortLists
<1> HIDE DEF ts
<1>3. Todo(q)' = Later(q)
  <2>1. Todo(q)' = Elems(ts) \cup Later(q)
    BY <1>1, <1>2, Moved
  <2> QED
    BY <1>2, <2>1
<1>4. k.do \notin Telling /\ k.do \notin {"refresh", "last"}
  BY <1>1 DEF Telling
<1> QED
  BY <1>1, <1>3, <1>4, MoverQuiet

\* An error ends a list that moves statuses.
LEMMA MoverThrows ==
  ASSUME NEW q \in Requests, MoverStep(q), Throw(q)
  PROVE  work'[q] = <<>> /\ Todo(q)' = {}
<1>1. TypeInv /\ \A x \in Todo(q) : x.do \in Moving \cup Shared
  BY MoverFrame DEF MoverStep
<1>2. \A x \in Todo(q) : x.do # "catch"
  BY <1>1 DEF Moving, Shared
<1> QED
  BY <1>1, <1>2, Ended

LEMMA PickupMoves == ASSUME NEW q \in Requests, MoverStep(q), Pickup(q) PROVE Books'
<1> SUFFICES ASSUME NEW k, k = Head(work[q]) PROVE Books'
  OBVIOUS
<1>1. k.do = "pickup"
  BY Zenon DEF Pickup, Runs
<1>2. UNCHANGED <<rows, stops, trips, free>>
  BY Zenon DEF Pickup, db
<1>3. /\ TypeInv /\ ListInv /\ Sound(q) /\ Len(trips) \in Nat
      /\ \A x \in Later(q) : k.do \in Before(x.do) /\ x.do \in Moving \cup Shared
  BY Facts DEF MoverStep
<1>4. k.do \notin Telling /\ k.do \notin {"refresh", "last"}
  BY <1>1 DEF Telling
<1>5. Later(q) = {}
  BY <1>1, <1>3 DEF Before, Moving, Shared
<1>6. CASE Throw(q)
  <2>1. Todo(q)' = {}
    BY <1>6, MoverThrows
  <2> QED
    BY <1>2, <1>4, <1>5, <2>1, MoverQuiet
<1>7. ASSUME NEW ts \in Seq(UpdateTasks), Then(q, ts) PROVE Books'
  <2>1. \A i \in DOMAIN ts : ts[i] \in UpdateTasks
    OBVIOUS
  <2>2. UpdateTasks \subseteq Tasks(Len(trips'))
    BY DEF UpdateTasks, Tasks, RowTasks
  <2>3. ts \in Seq(Tasks(Len(trips')))
    BY <2>2
  <2>4. Todo(q)' = Elems(ts) \cup Later(q)
    BY <1>3, <2>3, <1>7, Moved
  <2>5. \A x \in Elems(ts) : x.do = "update"
    BY <2>1 DEF Elems, UpdateTasks
  <2>6. \A x \in Todo(q)' : x.do \notin Telling /\ TaskOK(x)'
    BY <1>5, <2>4, <2>5 DEF Telling, TaskOK
  <2> QED
    BY <1>2, <1>4, <1>5, <2>6, MoverQuiet
<1> QED
  BY <1>3, <1>6, <1>7, PickupList

\* A list made of a statement, others and a rest begins with the statement.
LEMMA HeadOf ==
  ASSUME NEW S, NEW a \in S, NEW m \in Seq(S), NEW t \in Seq(S)
  PROVE  Head((<<a>> \o m) \o t) = a
<1> DEFINE l == <<a>> \o m
<1>1. l \in Seq(S) /\ Len(l) >= 1 /\ l[1] = a
  OBVIOUS
<1> HIDE DEF l
<1>2. l \o t \in Seq(S) /\ (l \o t)[1] = l[1] /\ l \o t # <<>>
  BY <1>1
<1> QED
  BY <1>1, <1>2 DEF l

\* updateStatus saves first.
LEMMA UpdateSaves ==
  ASSUME TypeInv, NEW q \in Requests, Update(q)
  PROVE  Throw(q) \/ Head(work'[q]).do = "save"
<1> DEFINE k == Head(work[q])
           old == rows[k.order]
           a == SaveTask(k.order, [old EXCEPT !.status = k.to])
           more == Aftermath(k.order, k.to, old.carrier)
           n == Len(trips)
           S == Tasks(n) \cup {a}
<1>1. work[q] # <<>> /\ k.do = "update" /\ k \in Tasks(n) /\ n \in Nat
  BY AtHand DEF Update, Runs
<1>2. k.order \in Orders /\ k.to \in Stages
  BY <1>1, TaskFields
<1>3. old.carrier \in Carriers
  BY <1>2 DEF TypeInv, DbType, RowType
<1>4. Throw(q) \/ Then(q, <<a>> \o more)
  BY DEF Update
<1>5. a.do = "save"
  BY DEF SaveTask
<1>6. work[q] \in Seq(Tasks(n)) /\ more \in Seq(Tasks(n))
  BY <1>1, <1>2, <1>3, AftermathList DEF TypeInv
<1> HIDE DEF a, more, n
<1>7. Tail(work[q]) \in Seq(S) /\ more \in Seq(S) /\ a \in S
  <2>1. Tail(work[q]) \in Seq(Tasks(n))
    BY <1>1, <1>6
  <2> QED
    BY <1>6, <2>1
<1> HIDE DEF S
<1>8. CASE Then(q, <<a>> \o more)
  <2>1. work'[q] = (<<a>> \o more) \o Tail(work[q])
    BY <1>8 DEF Then, TypeInv
  <2> QED
    BY <1>5, <1>7, <2>1, HeadOf
<1> QED
  BY <1>4, <1>8

\* The lists of the others: who carries what stays, no order comes back from
\* its end, and stops are taken from cancelled orders only.
LEMMA OthersLists ==
  ASSUME NEW q \in Requests, MoverStep(q),
         \A o \in Orders : /\ rows'[o].carrier = rows[o].carrier
                           /\ rows[o].status \in Terminal => rows'[o].status = rows[o].status
                           /\ stops'[o].trip = stops[o].trip \/ rows'[o].status = "cancelled"
  PROVE  \A p \in Requests \ {q} : IF p \in past.planners THEN PlansOK(p)' ELSE MoveOK(p)'
<1> SUFFICES ASSUME NEW p \in Requests \ {q}
             PROVE  IF p \in past.planners THEN PlansOK(p)' ELSE MoveOK(p)'
  OBVIOUS
<1>1. /\ work[q] # <<>> /\ past' = past /\ Todo(p)' = Todo(p) /\ work'[p] = work[p] /\ NobodyPlans
      /\ TypeInv
  BY MoverFrame DEF MoverStep
<1>2. ASSUME Todo(p) = {} PROVE PlansOK(p)' /\ MoveOK(p)'
  BY <1>1, <1>2 DEF PlansOK, MoveOK, Saves
<1>3. ASSUME p \notin past.planners, past.raced PROVE MoveOK(p)'
  <2>1. MoveOK(p)
    BY <1>3 DEF MoverStep, Books, ListsOK
  <2>2. Todo(p) \subseteq Tasks(Len(trips)) /\ Len(trips) \in Nat
    BY <1>1 DEF TypeInv, DbType, Todo
  <2>3. ASSUME NEW x \in Todo(p), x.do \in {"save", "drop", "deliver"} PROVE x.order \in Orders
    BY <2>2, <2>3, TaskFields
  <2>4. ASSUME NEW x \in Todo(p), x.do = "save" PROVE SaveOK(p, x)'
    <3>1. SaveOK(p, x) /\ x.order \in Orders
      BY <2>1, <2>3, <2>4 DEF MoveOK
    <3> QED
      BY <1>1, <1>3, <3>1 DEF SaveOK, Terminal
  <2>5. \A x \in Todo(p) : x.do \in {"drop", "deliver"} /\ rows[x.order].status \in Terminal
                             => rows'[x.order].status = rows[x.order].status
    BY <2>3
  <2> QED
    BY <1>1, <2>1, <2>4, <2>5 DEF MoveOK, Saves, Terminal
<1>4. ASSUME ~ past.raced PROVE Todo(p) = {}
  BY <1>1, <1>4 DEF MoverStep, Single, Todo
<1> QED
  BY <1>1, <1>2, <1>3, <1>4 DEF NobodyPlans

\* An order that the step leaves alone.
LEMMA OrderStays ==
  ASSUME NEW q \in Requests, MoverStep(q), NEW k, k = Head(work[q]), UNCHANGED trips,
         NEW o \in Orders, stops'[o] = stops[o], rows'[o].status = rows[o].status,
         rows'[o].carrier = rows[o].carrier, rows'[o].trip = rows[o].trip,
         Later(q) \subseteq Todo(q)',
         k.do \in {"drop", "point", "deliver"} => k.order # o
  PROVE  Delivered(o)' /\ Pointed(o)' /\ Served(o)' /\ Rides(o)'
<1>1. /\ k \in Todo(q) /\ Todo(q) = {k} \cup Later(q)
      /\ past' = past /\ \A p \in Requests \ {q} : Todo(p)' = Todo(p)
  BY MoverFrame
<1>2. Delivered(o) /\ Pointed(o) /\ Served(o)
  BY DEF MoverStep, Books, OrdersOK
<1>3. \A p \in Requests : \A x \in Todo(p) :
        x.do \in {"drop", "point", "deliver"} /\ x.order = o => x \in Todo(p)'
  BY <1>1
<1>4. Delivered(o)'
  BY <1>2 DEF Delivered
<1>5. Pointed(o)'
  <2>1. CASE rows[o].trip = stops[o].trip
    BY <2>1 DEF Pointed
  <2>2. ASSUME NEW p \in Requests, NEW x \in Todo(p), x.do \in {"drop", "point"}, x.order = o,
               p \in past.planners \/ rows[o].status = "cancelled"
        PROVE  Pointed(o)'
    <3>1. x \in Todo(p)'
      BY <1>3, <2>2
    <3> QED
      BY <1>1, <2>2, <3>1 DEF Pointed
  <2> QED
    BY <1>2, <2>1, <2>2 DEF Pointed
<1>6. Served(o)'
  <2> SUFFICES ASSUME stops[o] # NoStop, ~ stops[o].dropped, rows[o].status \in Terminal
               PROVE  Served(o)'
    BY DEF Served, NoStop
  <2>1. PICK p \in Requests : \E x \in Todo(p) :
          /\ x.order = o
          /\ \/ x.do = "deliver" /\ rows[o].status = "delivered"
             \/ x.do = "drop" /\ rows[o].status = "cancelled"
    BY <1>2 DEF Served
  <2>2. PICK x \in Todo(p) :
          /\ x.order = o
          /\ \/ x.do = "deliver" /\ rows[o].status = "delivered"
             \/ x.do = "drop" /\ rows[o].status = "cancelled"
    BY <2>1
  <2>3. x \in Todo(p)'
    BY <1>3, <2>2
  <2> QED
    BY <2>2, <2>3 DEF Served
<1>7. Rides(o)'
  BY MoverRides
<1> QED
  BY <1>4, <1>5, <1>6, <1>7

\* A step that keeps who carries what, and the riders looked at.
LEMMA RidersStay ==
  ASSUME NEW q \in Requests, MoverStep(q), NEW k, k = Head(work[q]), UNCHANGED free,
         \A o \in Orders : rows'[o].status = rows[o].status /\ rows'[o].carrier = rows[o].carrier,
         \A x \in Todo(q)' : x.do # "save",
         Later(q) \subseteq Todo(q)',
         k.do \in {"refresh", "deliver", "last"} =>
            \E x \in Todo(q)' : x.do \in {"refresh", "deliver", "last"} /\ x.rider = k.rider
  PROVE  RidersOK'
<1> SUFFICES ASSUME NEW r \in Riders, ~ free[r], ~ Loaded(r)' PROVE \E p \in Requests : Minds(p, r)'
  BY DEF RidersOK
<1>1. /\ Todo(q) = {k} \cup Later(q)
      /\ past' = past /\ \A p \in Requests \ {q} : Todo(p)' = Todo(p)
  BY MoverFrame
<1>2. ~ Loaded(r)
  BY <1>1 DEF Loaded
<1>3. PICK p \in Requests : Minds(p, r)
  BY <1>2 DEF MoverStep, Books, RidersOK
<1>4. CASE p # q
  BY <1>1, <1>3, <1>4 DEF Minds
<1>5. CASE p = q
  <2>1. PICK x \in Todo(q) : x.do \in {"refresh", "deliver", "last"} /\ x.rider = r
    BY <1>3, <1>5 DEF Minds
  <2>2. \E y \in Todo(q)' : y.do \in {"refresh", "deliver", "last"} /\ y.rider = r
    BY <1>1, <2>1
  <2> QED
    BY <2>2 DEF Minds
<1> QED
  BY <1>4, <1>5

LEMMA PointMoves == ASSUME NEW q \in Requests, MoverStep(q), Point(q) PROVE Books'
<1> SUFFICES ASSUME NEW k, k = Head(work[q]) PROVE Books'
  OBVIOUS
<1> DEFINE n == Len(trips)
           ts == <<>>
<1>1. /\ k.do = "point" /\ k \in Tasks(n) /\ n \in Nat /\ Then(q, ts)
      /\ TypeInv /\ ListInv /\ Sound(q) /\ UNCHANGED <<stops, trips, free>> /\ k \in Todo(q)
      /\ rows' = [rows EXCEPT ![k.order].trip = k.trip]
      /\ Todo(q) = {k} \cup Later(q) /\ \A x \in Later(q) : k.do \in Before(x.do)
      /\ past' = past /\ \A p \in Requests \ {q} : Todo(p)' = Todo(p)
      /\ q \notin past.planners
  BY Facts DEF MoverStep, Point, Runs
<1>2. k.order \in Orders
  BY <1>1, TaskFields
<1>3. ts \in Seq(Tasks(Len(trips'))) /\ Elems(ts) = {}
  BY <1>1, ShortLists
<1> HIDE DEF ts
<1>4. Todo(q)' = Later(q)
  <2>1. Todo(q)' = Elems(ts) \cup Later(q)
    BY <1>1, <1>3, Moved
  <2> QED
    BY <1>3, <2>1
<1>5. /\ rows'[k.order].trip = k.trip /\ \A o \in Orders \ {k.order} : rows'[o] = rows[o]
      /\ \A o \in Orders : rows'[o].status = rows[o].status /\ rows'[o].carrier = rows[o].carrier
  <2>1. rows \in [Orders -> RowType]
    BY <1>1 DEF TypeInv, DbType
  <2> QED
    BY <1>1, <1>2, <2>1 DEF RowType
<1>6. MoveOK(q) /\ TasksOK /\ OrdersOK
  BY <1>1 DEF MoverStep, Books, ListsOK
<1>7. k.trip = stops[k.order].trip
  BY <1>1, <1>6 DEF TasksOK, TaskOK
<1>8. \A x \in Todo(q) : x.do # "save"
  BY <1>1, <1>6 DEF MoveOK, Saves
<1>9. OrdersOK'
  <2> SUFFICES ASSUME NEW o \in Orders PROVE Delivered(o)' /\ Pointed(o)' /\ Served(o)' /\ Rides(o)'
    BY Zenon DEF OrdersOK
  <2>1. CASE o # k.order
    BY <1>1, <1>4, <1>5, <2>1, OrderStays
  <2>2. CASE o = k.order
    <3>1. Delivered(o)'
      BY <1>1, <1>5, <1>6 DEF OrdersOK, Delivered
    <3>2. Pointed(o)'
      BY <1>1, <1>5, <1>7, <2>2 DEF Pointed
    <3>3. Served(o)'
      <4> SUFFICES ASSUME stops[o] # NoStop, ~ stops[o].dropped, rows[o].status \in Terminal
                   PROVE  Served(o)'
        BY <1>1, <1>5 DEF Served, NoStop
      <4>1. PICK p \in Requests : \E x \in Todo(p) :
              /\ x.order = o
              /\ \/ x.do = "deliver" /\ rows[o].status = "delivered"
                 \/ x.do = "drop" /\ rows[o].status = "cancelled"
        BY <1>6 DEF OrdersOK, Served
      <4>2. PICK x \in Todo(p) :
              /\ x.order = o
              /\ \/ x.do = "deliver" /\ rows[o].status = "delivered"
                 \/ x.do = "drop" /\ rows[o].status = "cancelled"
        BY <4>1
      <4>3. x \in Todo(p)'
        BY <1>1, <1>4, <4>2, Zenon
      <4> QED
        BY <1>5, <4>2, <4>3, Zenon DEF Served
    <3>4. Rides(o)'
      BY <1>1, <1>5, MoverRides
    <3> QED
      BY <3>1, <3>2, <3>3, <3>4, Zenon
  <2> QED
    BY <2>1, <2>2
<1>10. RidersOK'
  BY <1>1, <1>4, <1>5, <1>8, RidersStay
<1>11. TasksOK'
  <2>1. \A t : Undropped(t)' = Undropped(t)
    BY <1>1 DEF Undropped, On
  <2>2. \A p \in Requests : Todo(p)' \subseteq Todo(p)
    BY <1>1, <1>4
  <2> QED
    BY <1>1, <1>6, <2>1, <2>2 DEF TasksOK, TaskOK
<1>12. ListsOK'
  <2>1. MoveOK(q)'
    <3>1. \A x \in Todo(q)' : x \in Todo(q) /\ x.do # "save"
      BY <1>1, <1>4, <1>8
    <3>2. \A x \in Todo(q) : x.do \in {"drop", "deliver"} => x.order \in Orders
      <4>1. \A x \in Todo(q) : x \in Tasks(n)
        BY <1>1, Facts
      <4> QED
        BY <1>1, <4>1, TaskFields
    <3> QED
      BY <1>5, <1>6, <1>8, <3>1, <3>2 DEF MoveOK, Saves
  <2>2. \A p \in Requests \ {q} : IF p \in past.planners THEN PlansOK(p)' ELSE MoveOK(p)'
    BY <1>1, <1>5, OthersLists
  <2> QED
    BY <1>1, <2>1, <2>2 DEF ListsOK
<1> QED
  BY <1>9, <1>10, <1>11, <1>12 DEF Books

\* The list of a detach.
LEMMA DropList ==
  ASSUME TypeInv, NEW q \in Requests, Drop(q), NEW o, o = Head(work[q]).order
  PROVE  /\ o \in Orders /\ stops'[o] = NoStop /\ \A u \in Orders \ {o} : stops'[u] = stops[u]
         /\ \E ts \in Seq(Tasks(Len(trips))) :
              /\ Then(q, ts)
              /\ Elems(ts) = {Task("point", o, "nobody", 0)}
                               \cup (IF stops[o] = NoStop THEN {} ELSE {TripTask("settle", stops[o].trip)})
<1> DEFINE k == Head(work[q])
           n == Len(trips)
           a == Task("point", o, "nobody", 0)
           b == TripTask("settle", stops[o].trip)
           rest == IF stops[o] = NoStop THEN <<>> ELSE <<b>>
           ts == <<a>> \o rest
           S == Tasks(n)
<1>1. work[q] # <<>> /\ k.do = "drop" /\ k \in Tasks(n) /\ n \in Nat
  BY AtHand DEF Drop, Runs
<1>2. o \in Orders
  BY <1>1, TaskFields
<1>3. /\ stops' = [stops EXCEPT ![o] = NoStop] /\ Then(q, ts)
      /\ stops \in [Orders -> [trip : 0 .. n, dropped : BOOLEAN]]
      /\ \A u \in Orders : stops[u].trip = 0 => stops[u] = NoStop
  BY DEF Drop, TypeInv, DbType
<1>4. stops'[o] = NoStop /\ \A u \in Orders \ {o} : stops'[u] = stops[u]
  BY <1>2, <1>3
<1>5. a \in Tasks(n)
  BY <1>1, <1>2 DEF Task, Tasks, OrderTasks, Carriers
<1>6. stops[o] # NoStop => b \in Tasks(n)
  BY <1>1, <1>2, <1>3 DEF TripTask, Tasks, TripTasks
<1> DEFINE first == <<a>>
<1>7. first \in Seq(S) /\ Elems(first) = {a}
  BY <1>1, <1>5, ShortLists
<1>8. rest \in Seq(S) /\ Elems(rest) = IF stops[o] = NoStop THEN {} ELSE {b}
  BY <1>1, <1>6, ShortLists
<1>9. Then(q, first \o rest)
  BY <1>3
<1> HIDE DEF first, rest, S, a, b
<1>10. first \o rest \in Seq(S) /\ Elems(first \o rest) = Elems(first) \cup Elems(rest)
  BY <1>7, <1>8, Joined
<1>11. Elems(first \o rest) = {a} \cup (IF stops[o] = NoStop THEN {} ELSE {b})
  BY <1>7, <1>8, <1>10
<1>12. \E l \in Seq(S) : Then(q, l) /\ Elems(l) = {a} \cup (IF stops[o] = NoStop THEN {} ELSE {b})
  BY <1>9, <1>10, <1>11
<1> QED
  BY <1>2, <1>4, <1>12 DEF S, a, b

LEMMA DropMoves == ASSUME NEW q \in Requests, MoverStep(q), Drop(q) PROVE Books'
<1> SUFFICES ASSUME NEW k, k = Head(work[q]) PROVE Books'
  OBVIOUS
<1> DEFINE n == Len(trips)
           o == k.order
           a == Task("point", o, "nobody", 0)
           b == TripTask("settle", stops[o].trip)
<1>0. TypeInv
  BY DEF MoverStep
<1>1. /\ k.do = "drop" /\ n \in Nat /\ k \in Todo(q)
      /\ TypeInv /\ ListInv /\ Sound(q) /\ UNCHANGED <<rows, trips, free>>
      /\ Todo(q) = {k} \cup Later(q)
      /\ past' = past /\ \A p \in Requests \ {q} : Todo(p)' = Todo(p)
      /\ q \notin past.planners
  BY Facts DEF MoverStep, Drop, Runs
<1>2. PICK ts \in Seq(Tasks(n)) :
        Then(q, ts) /\ Elems(ts) = {a} \cup (IF stops[o] = NoStop THEN {} ELSE {b})
  BY <1>0, DropList
<1>3. o \in Orders /\ stops'[o] = NoStop /\ \A u \in Orders \ {o} : stops'[u] = stops[u]
  BY <1>1, DropList
<1>4. Todo(q)' = Elems(ts) \cup Later(q)
  BY <1>1, <1>2, Moved
<1>5. a.do = "point" /\ a.order = o /\ a.trip = 0 /\ b.do = "settle"
  BY DEF Task, TripTask
<1> HIDE DEF a, b
<1>6. MoveOK(q) /\ TasksOK /\ OrdersOK
  BY <1>1 DEF MoverStep, Books, ListsOK
<1>7. \A x \in Todo(q) : x.do # "save"
  BY <1>1, <1>6 DEF MoveOK, Saves
<1>8. rows[o].status = "cancelled"
  BY <1>1, <1>6, <1>7 DEF MoveOK, Saves
<1>9. NoStop.trip = 0 /\ ~ NoStop.dropped /\ NoStop' = NoStop
  BY DEF NoStop
<1>10. OrdersOK'
  <2> SUFFICES ASSUME NEW u \in Orders PROVE Delivered(u)' /\ Pointed(u)' /\ Served(u)' /\ Rides(u)'
    BY DEF OrdersOK
  <2>1. CASE u # o
    BY <1>1, <1>3, <1>4, <2>1, OrderStays
  <2>2. CASE u = o
    <3>1. Delivered(u)'
      BY <1>3, <1>9, <2>2 DEF Delivered
    <3>2. Pointed(u)'
      BY <1>1, <1>2, <1>4, <1>5, <1>8, <2>2 DEF Pointed
    <3>3. Served(u)'
      BY <1>3, <1>9, <2>2 DEF Served
    <3>4. Rides(u)'
      BY <1>1, <1>8, <2>2 DEF Rides, Terminal
    <3> QED
      BY <3>1, <3>2, <3>3, <3>4
  <2> QED
    BY <2>1, <2>2
<1>11. RidersOK'
  <2>1. \A x \in Todo(q)' : x.do # "save"
    BY <1>1, <1>2, <1>4, <1>5, <1>7
  <2> QED
    BY <1>1, <1>4, <2>1, RidersStay
<1>12. TasksOK'
  <2>1. \A t : Undropped(t)' \subseteq Undropped(t) \cup (IF t = 0 THEN {o} ELSE {})
    BY <1>3, <1>9 DEF Undropped, On
  <2>2. ASSUME NEW p \in Requests, NEW x \in Todo(p) PROVE TaskOK(x)'
    <3>1. x \in Tasks(n) /\ TaskOK(x)
      BY <1>1, <1>6, <2>2 DEF TypeInv, Todo, TasksOK
    <3>2. x.do = "close" => x.trip # 0
      BY <1>1, <3>1, TaskFields
    <3>3. ASSUME x.do = "point" PROVE stops'[x.order].trip = x.trip
      <4>1. CASE x.order = o
        <5>1. x.trip = 0
          <6>1. p \notin past.planners
            BY <2>2 DEF MoverStep, NobodyPlans
          <6>2. MoveOK(p)
            BY <6>1 DEF MoverStep, Books, ListsOK
          <6> QED
            BY <2>2, <3>3, <6>2 DEF MoveOK
        <5> QED
          BY <1>3, <1>9, <4>1, <5>1
      <4>2. CASE x.order # o
        <5>1. x.order \in Orders
          BY <1>1, <3>1, <3>3, TaskFields
        <5> QED
          BY <1>3, <3>1, <3>3, <4>2, <5>1 DEF TaskOK
      <4> QED
        BY <4>1, <4>2
    <3> QED
      BY <2>1, <3>1, <3>2, <3>3 DEF TaskOK
  <2>3. \A x : x = a \/ x = b => TaskOK(x)'
    BY <1>3, <1>5, <1>9 DEF TaskOK
  <2> QED
    BY <1>1, <1>2, <1>4, <2>2, <2>3 DEF TasksOK
<1>13. ListsOK'
  <2>1. MoveOK(q)'
    <3>1. \A x \in Todo(q)' : (x \in Todo(q) /\ x.do # "save") \/ x.do = "settle" \/ (x.do = "point" /\ x.trip = 0)
      BY <1>1, <1>2, <1>4, <1>5, <1>7
    <3> QED
      BY <1>1, <1>6, <1>7, <3>1 DEF MoveOK, Saves
  <2>2. \A p \in Requests \ {q} : IF p \in past.planners THEN PlansOK(p)' ELSE MoveOK(p)'
    BY <1>1, <1>3, <1>8, OthersLists, Zenon
  <2> QED
    BY <1>1, <2>1, <2>2 DEF ListsOK
<1> QED
  BY <1>10, <1>11, <1>12, <1>13 DEF Books

LEMMA DeliverMoves == ASSUME NEW q \in Requests, MoverStep(q), Deliver(q) PROVE Books'
<1> SUFFICES ASSUME NEW k, k = Head(work[q]) PROVE Books'
  OBVIOUS
<1> DEFINE n == Len(trips)
           o == k.order
           open == stops[o] # NoStop /\ ~ stops[o].dropped
           a == IF open THEN Task("last", o, k.rider, stops[o].trip) ELSE RefreshTask(k.rider)
           ts == <<a>>
<1>1. /\ k.do = "deliver" /\ n \in Nat /\ k \in Todo(q) /\ k \in Tasks(n)
      /\ TypeInv /\ ListInv /\ Sound(q) /\ UNCHANGED <<rows, trips, free>>
      /\ Todo(q) = {k} \cup Later(q)
      /\ past' = past /\ \A p \in Requests \ {q} : Todo(p)' = Todo(p)
      /\ q \notin past.planners
  BY Facts DEF MoverStep, Deliver, Runs
<1>2. o \in Orders /\ k.rider \in Carriers
  BY <1>1, TaskFields
<1>3. /\ Then(q, ts)
      /\ stops' = IF open THEN [stops EXCEPT ![o].dropped = TRUE] ELSE stops
  BY DEF Deliver
<1>4. /\ \A u \in Orders \ {o} : stops'[u] = stops[u]
      /\ stops'[o].trip = stops[o].trip
      /\ stops'[o] # NoStop => stops'[o].dropped
      /\ \A u \in Orders : stops[u].dropped => stops'[u].dropped
  <2>1. stops \in [Orders -> [trip : 0 .. n, dropped : BOOLEAN]]
    BY <1>1 DEF TypeInv, DbType
  <2>2. CASE open
    <3>1. stops' = [stops EXCEPT ![o].dropped = TRUE]
      BY <1>3, <2>2, Zenon
    <3> HIDE DEF o, open
    <3> QED
      BY <1>2, <2>1, <3>1
  <2>3. CASE ~ open
    BY <1>3, <2>3, Zenon
  <2> QED
    BY <2>2, <2>3
<1>5. a \in Tasks(n) /\ a.do \in {"last", "refresh"} /\ a.rider = k.rider
  <2>1. CASE open
    <3>1. stops[o].trip \in 1 .. n
      BY <1>1, <1>2, <2>1, StopTrip, Zenon
    <3> QED
      BY <1>1, <1>2, <2>1, <3>1 DEF Task, Tasks, OrderTasks
  <2>2. CASE ~ open
    BY <1>2, <2>2 DEF RefreshTask, Tasks, OtherTasks
  <2> QED
    BY <2>1, <2>2
<1> HIDE DEF a, open
<1>6. ts \in Seq(Tasks(n)) /\ Elems(ts) = {a}
  BY <1>1, <1>5, ShortLists
<1> HIDE DEF ts
<1>7. Todo(q)' = {a} \cup Later(q)
  <2>1. Todo(q)' = Elems(ts) \cup Later(q)
    BY <1>1, <1>3, <1>6, Moved
  <2> QED
    BY <1>6, <2>1
<1>8. MoveOK(q) /\ TasksOK /\ OrdersOK
  BY <1>1 DEF MoverStep, Books, ListsOK
<1>9. \A x \in Todo(q) : x.do # "save"
  BY <1>1, <1>8 DEF MoveOK, Saves
<1>10. rows[o].status = "delivered"
  BY <1>1, <1>8, <1>9 DEF MoveOK, Saves
<1>11. NoStop' = NoStop
  BY DEF NoStop
<1>12. OrdersOK'
  <2> SUFFICES ASSUME NEW u \in Orders PROVE Delivered(u)' /\ Pointed(u)' /\ Served(u)' /\ Rides(u)'
    BY DEF OrdersOK
  <2>1. CASE u # o
    BY <1>1, <1>4, <1>7, <2>1, OrderStays
  <2>2. CASE u = o
    <3>1. Delivered(u)'
      BY <1>1, <1>10, <2>2 DEF Delivered
    <3>2. Pointed(u)'
      <4>1. rows[o].trip = stops[o].trip
        <5>1. Pointed(o)
          BY <1>2, <1>8 DEF OrdersOK
        <5>2. \A p \in Requests : \A x \in Todo(p) : p \notin past.planners
          BY DEF MoverStep, NobodyPlans
        <5> QED
          BY <1>10, <5>1, <5>2 DEF Pointed
      <4> QED
        BY <1>1, <1>4, <2>2, <4>1 DEF Pointed
    <3>3. Served(u)'
      BY <1>4, <1>11, <2>2 DEF Served
    <3>4. Rides(u)'
      BY <1>1, <1>10, <2>2 DEF Rides, Terminal
    <3> QED
      BY <3>1, <3>2, <3>3, <3>4
  <2> QED
    BY <2>1, <2>2
<1>13. RidersOK'
  <2>1. \A x \in Todo(q)' : x.do # "save"
    BY <1>1, <1>5, <1>7, <1>9
  <2> QED
    BY <1>1, <1>5, <1>7, <2>1, RidersStay
<1>14. TasksOK'
  <2>1. \A t : Undropped(t)' \subseteq Undropped(t)
    BY <1>2, <1>4 DEF Undropped, On
  <2>2. ASSUME NEW p \in Requests, NEW x \in Todo(p) PROVE TaskOK(x)'
    <3>1. x \in Tasks(n) /\ TaskOK(x)
      BY <1>1, <1>8, <2>2 DEF TypeInv, Todo, TasksOK
    <3>2. x.do = "point" => x.order \in Orders
      BY <1>1, <3>1, TaskFields
    <3> QED
      BY <1>4, <2>1, <3>1, <3>2 DEF TaskOK
  <2>3. \A x : x = a => TaskOK(x)'
    BY <1>5 DEF TaskOK
  <2> QED
    BY <1>1, <1>7, <2>2, <2>3 DEF TasksOK
<1>15. ListsOK'
  <2>1. MoveOK(q)'
    <3>1. \A x \in Todo(q)' : (x \in Todo(q) /\ x.do # "save") \/ x.do \in {"last", "refresh"}
      BY <1>1, <1>5, <1>7, <1>9
    <3> QED
      BY <1>1, <1>8, <1>9, <3>1 DEF MoveOK, Saves
  <2>2. \A p \in Requests \ {q} : IF p \in past.planners THEN PlansOK(p)' ELSE MoveOK(p)'
    <3>1. \A u \in Orders : stops'[u].trip = stops[u].trip
      BY <1>4
    <3> QED
      BY <1>1, <3>1, OthersLists
  <2> QED
    BY <1>1, <2>1, <2>2 DEF ListsOK
<1> QED
  BY <1>12, <1>13, <1>14, <1>15 DEF Books

\* A save of a list that moves statuses.
LEMMA SaveMoves == ASSUME NEW q \in Requests, MoverStep(q), Save(q) PROVE Books'
<1> SUFFICES ASSUME NEW k, k = Head(work[q]) PROVE Books'
  OBVIOUS
<1> DEFINE n == Len(trips)
           o == k.order
           ts == <<>>
           over == rows[o].status \in Terminal /\ k.row.status # rows[o].status
<1>1. /\ k.do = "save" /\ n \in Nat /\ k \in Todo(q) /\ k \in Tasks(n)
      /\ TypeInv /\ ListInv /\ Sound(q) /\ UNCHANGED <<stops, trips, free>>
      /\ Todo(q) = {k} \cup Later(q) /\ \A x \in Later(q) : k.do \in Before(x.do)
      /\ past' = past /\ \A p \in Requests \ {q} : Todo(p)' = Todo(p)
      /\ q \notin past.planners
  BY Facts DEF MoverStep, Save, Runs
<1>2. o \in Orders
  BY <1>1, TaskFields
<1>3. IF over THEN Throw(q) /\ UNCHANGED rows
      ELSE rows' = [rows EXCEPT ![o] = k.row] /\ Then(q, <<>>)
  BY DEF Save
<1>4. MoveOK(q) /\ TasksOK /\ OrdersOK /\ RidersOK
  BY <1>1 DEF MoverStep, Books, ListsOK
<1>5. SaveOK(q, k)
  BY <1>1, <1>4 DEF MoveOK
<1>6. \A x \in Later(q) : x.do \notin {"save", "point", "last"}
  BY <1>1 DEF Before
<1>7. \A r : ~ Minds(q, r)
  BY <1>1 DEF Minds
<1>8. \A t : Undropped(t)' = Undropped(t)
  BY <1>1 DEF Undropped, On
<1>9. NoStop' = NoStop
  BY DEF NoStop
<1>10. \A p \in Requests : \A x \in Todo(p) : p \notin past.planners
  BY DEF MoverStep, NobodyPlans
<1>11. CASE over
  <2>1. Todo(q)' = {} /\ UNCHANGED rows
    BY <1>3, <1>11, MoverThrows
  <2>3. \A x \in Todo(q) : /\ x.do = "drop" => x.order = o /\ rows[o].status # "cancelled"
                           /\ x.do = "deliver" => x.order = o /\ rows[o].status # "delivered"
    BY <1>5, <1>11 DEF SaveOK
  <2>4. OrdersOK'
    <3> SUFFICES ASSUME NEW u \in Orders PROVE Delivered(u)' /\ Pointed(u)' /\ Served(u)' /\ Rides(u)'
      BY DEF OrdersOK
    <3>1. Delivered(u) /\ Pointed(u) /\ Served(u)
      BY <1>4 DEF OrdersOK
    <3>2. Delivered(u)'
      BY <1>1, <2>1, <3>1 DEF Delivered
    <3>3. Pointed(u)'
      <4>1. CASE rows[u].trip = stops[u].trip
        BY <1>1, <2>1, <4>1 DEF Pointed
      <4>2. ASSUME NEW p \in Requests, NEW x \in Todo(p), x.do \in {"drop", "point"}, x.order = u,
                   p \in past.planners \/ rows[u].status = "cancelled"
            PROVE  Pointed(u)'
        <5>1. p # q
          BY <1>1, <1>6, <1>10, <2>3, <4>2
        <5> QED
          BY <1>1, <2>1, <4>2, <5>1 DEF Pointed
      <4> QED
        BY <3>1, <4>1, <4>2 DEF Pointed
    <3>4. Served(u)'
      <4> SUFFICES ASSUME stops[u] # NoStop, ~ stops[u].dropped, rows[u].status \in Terminal
                   PROVE  Served(u)'
        BY <1>1, <1>9, <2>1 DEF Served
      <4>1. PICK p \in Requests : \E x \in Todo(p) :
              /\ x.order = u
              /\ \/ x.do = "deliver" /\ rows[u].status = "delivered"
                 \/ x.do = "drop" /\ rows[u].status = "cancelled"
        BY <3>1 DEF Served
      <4>2. p # q
        BY <2>3, <4>1
      <4> QED
        BY <1>1, <2>1, <4>1, <4>2 DEF Served
    <3>5. Rides(u)'
      BY <1>1, <2>1, MoverRides
    <3> QED
      BY <3>2, <3>3, <3>4, <3>5
  <2>5. RidersOK'
    <3> SUFFICES ASSUME NEW r \in Riders, ~ free[r], ~ Loaded(r)' PROVE \E p \in Requests : Minds(p, r)'
      BY <1>1 DEF RidersOK
    <3>1. ~ Loaded(r)
      BY <1>1, <2>1 DEF Loaded
    <3>2. PICK p \in Requests : Minds(p, r)
      BY <1>4, <3>1 DEF RidersOK
    <3>3. p # q
      BY <1>7, <3>2
    <3> QED
      BY <1>1, <3>2, <3>3 DEF Minds
  <2>6. TasksOK'
    BY <1>1, <1>4, <1>8, <2>1 DEF TasksOK, TaskOK
  <2>7. ListsOK'
    <3>1. MoveOK(q)'
      BY <2>1 DEF MoveOK, Saves
    <3>2. \A p \in Requests \ {q} : IF p \in past.planners THEN PlansOK(p)' ELSE MoveOK(p)'
      BY <1>1, <2>1, OthersLists
    <3> QED
      BY <1>1, <3>1, <3>2 DEF ListsOK
  <2> QED
    BY <2>4, <2>5, <2>6, <2>7 DEF Books
<1>12. CASE ~ over
  <2>1. rows' = [rows EXCEPT ![o] = k.row] /\ Then(q, ts)
    BY <1>3, <1>12
  <2>2. /\ rows'[o] = k.row /\ \A u \in Orders \ {o} : rows'[u] = rows[u]
        /\ k.row.carrier = rows[o].carrier
        /\ rows[o].status \in Terminal => k.row.status = rows[o].status
    <3>1. rows \in [Orders -> RowType]
      BY <1>1 DEF TypeInv, DbType
    <3> QED
      BY <1>2, <1>5, <1>12, <2>1, <3>1 DEF SaveOK
  <2>3. ts \in Seq(Tasks(Len(trips'))) /\ Elems(ts) = {}
    BY <1>1, ShortLists
  <2> HIDE DEF ts
  <2>4. Todo(q)' = Later(q)
    <3>1. Todo(q)' = Elems(ts) \cup Later(q)
      BY <1>1, <2>1, <2>3, Moved
    <3> QED
      BY <2>3, <3>1
  <2>5. \A x \in Todo(q) : x.do # "save" => x \in Todo(q)'
    BY <1>1, <2>4
  <2>6. /\ k.row.status = "cancelled" => DropTask(o) \in Todo(q)' /\ RefreshTask(rows[o].carrier) \in Todo(q)'
        /\ k.row.status = "delivered" => Task("deliver", o, rows[o].carrier, 0) \in Todo(q)'
    <3>1. DropTask(o).do = "drop" /\ RefreshTask(rows[o].carrier).do = "refresh"
          /\ Task("deliver", o, rows[o].carrier, 0).do = "deliver"
      BY DEF DropTask, RefreshTask, Task
    <3> QED
      BY <1>5, <2>5, <3>1 DEF SaveOK
  <2>7. OrdersOK'
    <3> SUFFICES ASSUME NEW u \in Orders PROVE Delivered(u)' /\ Pointed(u)' /\ Served(u)' /\ Rides(u)'
      BY DEF OrdersOK
    <3>1. CASE u # o
      <4>1. k.do \notin {"drop", "point", "deliver"}
        BY <1>1
      <4> QED
        BY <1>1, <2>2, <2>4, <3>1, <4>1, OrderStays
    <3>2. CASE u = o
      <4>1. Delivered(u)'
        <5>1. Delivered(o)
          BY <1>2, <1>4 DEF OrdersOK
        <5> QED
          BY <1>1, <2>2, <3>2, <5>1 DEF Delivered, Terminal
      <4>2. Pointed(u)'
        <5>1. CASE k.row.status = "cancelled"
          <6>1. DropTask(o).do = "drop" /\ DropTask(o).order = o
            BY DEF DropTask
          <6> QED
            BY <2>2, <2>6, <3>2, <5>1, <6>1 DEF Pointed
        <5>2. CASE k.row.status # "cancelled"
          <6>1. k.row.trip = stops[o].trip
            BY <1>5, <2>2, <5>2, Zenon DEF SaveOK, Terminal
          <6> QED
            BY <1>1, <2>2, <3>2, <6>1 DEF Pointed
        <5> QED
          BY <5>1, <5>2
      <4>3. Served(u)'
        <5>1. CASE k.row.status = "cancelled"
          <6>1. DropTask(o).do = "drop" /\ DropTask(o).order = o
            BY DEF DropTask
          <6> QED
            BY <2>2, <2>6, <3>2, <5>1, <6>1 DEF Served
        <5>2. CASE k.row.status = "delivered"
          <6> DEFINE x == Task("deliver", o, rows[o].carrier, 0)
          <6>1. x.do = "deliver" /\ x.order = o
            BY DEF Task
          <6>2. \E y \in Todo(q)' : y.do = "deliver" /\ y.order = o
            BY <2>6, <5>2, <6>1
          <6> QED
            BY <2>2, <3>2, <5>2, <6>2 DEF Served
        <5> QED
          BY <2>2, <3>2, <5>1, <5>2, Zenon DEF Served, Terminal
      <4>4. Rides(u)'
        BY <1>1, <2>2, <3>2, MoverRides
      <4> QED
        BY <4>1, <4>2, <4>3, <4>4
    <3> QED
      BY <3>1, <3>2
  <2>8. RidersOK'
    <3> SUFFICES ASSUME NEW r \in Riders, ~ free[r], ~ Loaded(r)' PROVE \E p \in Requests : Minds(p, r)'
      BY <1>1 DEF RidersOK
    <3>1. CASE ~ Loaded(r)
      <4>1. PICK p \in Requests : Minds(p, r)
        BY <1>4, <3>1 DEF RidersOK
      <4>2. p # q
        BY <1>7, <4>1
      <4> QED
        BY <1>1, <4>1, <4>2 DEF Minds
    <3>2. CASE Loaded(r)
      <4>1. PICK u \in Orders : /\ rows[u].carrier = r /\ rows[u].status \notin Terminal
                                /\ past.raced \/ rows[u].status \in NeedsCarrier
        BY <3>2 DEF Loaded
      <4>2. u = o
        BY <1>1, <2>2, <4>1 DEF Loaded
      <4>3. k.row.status \in Terminal
        <5>1. CASE past.raced
          BY <1>1, <1>2, <2>2, <4>1, <4>2, <5>1 DEF Loaded
        <5>2. CASE ~ past.raced
          <6>1. MayMove(rows[o].status, k.row.status, "delivery") /\ rows[o].status \in NeedsCarrier
            BY <1>5, <4>1, <4>2, <5>2 DEF SaveOK
          <6>2. k.row.status \in NeedsCarrier \cup Terminal
            BY <6>1 DEF MayMove, Transitions, NeedsCarrier, OnTheRoad, Terminal
          <6> QED
            BY <1>1, <1>2, <2>2, <4>1, <4>2, <6>2 DEF Loaded
        <5> QED
          BY <5>1, <5>2
      <4>4. \E x \in Todo(q)' : x.do \in {"refresh", "deliver"} /\ x.rider = r
        <5>1. RefreshTask(r).do = "refresh" /\ RefreshTask(r).rider = r
              /\ Task("deliver", o, r, 0).do = "deliver" /\ Task("deliver", o, r, 0).rider = r
          BY DEF RefreshTask, Task
        <5> QED
          BY <2>6, <4>1, <4>2, <4>3, <5>1 DEF Terminal
      <4> QED
        BY <1>6, <2>4, <4>4 DEF Minds
    <3> QED
      BY <3>1, <3>2
  <2>9. TasksOK'
    <3>1. \A p \in Requests : Todo(p)' \subseteq Todo(p)
      BY <1>1, <2>4
    <3> QED
      BY <1>1, <1>4, <1>8, <3>1 DEF TasksOK, TaskOK
  <2>10. ListsOK'
    <3>1. MoveOK(q)'
      <4>1. \A x \in Todo(q)' : x \in Todo(q) /\ x.do \notin {"save", "point"}
        BY <1>1, <1>6, <2>4
      <4> QED
        BY <1>5, <2>2, <4>1 DEF MoveOK, Saves, SaveOK
    <3>2. \A p \in Requests \ {q} : IF p \in past.planners THEN PlansOK(p)' ELSE MoveOK(p)'
      BY <1>1, <2>2, OthersLists
    <3> QED
      BY <1>1, <3>1, <3>2 DEF ListsOK
  <2> QED
    BY <2>7, <2>8, <2>9, <2>10 DEF Books
<1> QED
  BY <1>11, <1>12

\* updateStatus makes its list from the order as it is.
LEMMA UpdateMoves == ASSUME NEW q \in Requests, MoverStep(q), Update(q) PROVE Books'
<1> SUFFICES ASSUME NEW k, k = Head(work[q]) PROVE Books'
  OBVIOUS
<1> DEFINE n == Len(trips)
           o == k.order
           c == rows[o].carrier
<1>1. /\ k.do = "update" /\ n \in Nat /\ k \in Todo(q) /\ k \in Tasks(n)
      /\ TypeInv /\ ListInv /\ Sound(q) /\ UNCHANGED <<rows, stops, trips, free>>
      /\ Todo(q) = {k} \cup Later(q)
      /\ \A x \in Later(q) : k.do \in Before(x.do) /\ x.do \in Moving \cup Shared
      /\ past' = past /\ \A p \in Requests \ {q} : Todo(p)' = Todo(p)
      /\ q \notin past.planners
  BY Facts DEF MoverStep, Update, Runs, db
<1>2. \A x \in Later(q) : x.do = "update"
  BY <1>1 DEF Before, Moving, Shared
<1>3. k.do \notin Telling /\ k.do \notin {"refresh", "last"}
  BY <1>1 DEF Telling
<1>4. CASE Throw(q)
  <2>1. Todo(q)' = {}
    BY <1>4, MoverThrows
  <2> QED
    BY <1>1, <1>2, <1>3, <2>1, MoverQuiet
<1>5. CASE ~ Throw(q)
  <2>1. o \in Orders /\ k.to \in Stages /\ MayMove(rows[o].status, k.to, "delivery")
        /\ \E ts \in Seq(Tasks(n)), new \in RowType :
             /\ Then(q, ts)
             /\ new.trip = rows[o].trip /\ new.carrier = c /\ new.status = k.to
             /\ Elems(ts) = {SaveTask(o, new)} \cup Elems(Aftermath(o, k.to, c))
    BY <1>1, <1>5, UpdateList, Zenon
  <2>2. PICK ts \in Seq(Tasks(n)), new \in RowType :
          /\ Then(q, ts)
          /\ new.trip = rows[o].trip /\ new.carrier = c /\ new.status = k.to
          /\ Elems(ts) = {SaveTask(o, new)} \cup Elems(Aftermath(o, k.to, c))
    BY <2>1
  <2> DEFINE s == SaveTask(o, new)
             more == Elems(Aftermath(o, k.to, c))
             d == DropTask(o)
             e == RefreshTask(c)
             v == Task("deliver", o, c, 0)
  <2>3. s.do = "save" /\ s.order = o /\ s.row = new
    BY DEF SaveTask
  <2>4. /\ d.do = "drop" /\ d.order = o /\ e.do = "refresh"
        /\ v.do = "deliver" /\ v.order = o
    BY DEF DropTask, RefreshTask, Task
  <2>5. c \in Carriers
    BY <1>1, <2>1 DEF TypeInv, DbType, RowType
  <2>6. /\ \A x \in more : x.do \in {"leave", "deliver", "drop", "refresh"}
        /\ more = CASE k.to = "out_for_delivery" -> {DepartTask(o)}
                    [] k.to = "delivered" -> {v}
                    [] k.to = "cancelled" -> {d, e}
                    [] OTHER -> {}
    <3> HIDE DEF n, o, c
    <3>1. /\ Elems(Aftermath(o, k.to, c)) =
               CASE k.to = "out_for_delivery" -> {DepartTask(o)}
                 [] k.to = "delivered" -> {Task("deliver", o, c, 0)}
                 [] k.to = "cancelled" -> {DropTask(o), RefreshTask(c)}
                 [] OTHER -> {}
          /\ \A x \in Elems(Aftermath(o, k.to, c)) : x.do \in {"leave", "deliver", "drop", "refresh"}
      BY <1>1, <2>1, <2>5, AftermathList, Zenon
    <3> QED
      BY <3>1, Zenon
  <2>7. DepartTask(o).do = "leave"
    BY DEF DepartTask
  <2> HIDE DEF s, more, d, e, v
  <2>8. /\ k.to = "cancelled" => d \in more /\ e \in more
        /\ k.to = "delivered" => v \in more
        /\ \A x \in more : /\ x.do = "drop" => x.order = o /\ k.to = "cancelled"
                           /\ x.do = "deliver" => x.order = o /\ k.to = "delivered"
    BY <2>4, <2>6, <2>7
  <2>9. Todo(q)' = Elems(ts) \cup Later(q)
    BY <1>1, <2>2, Moved
  <2>10. Todo(q)' = {s} \cup more \cup Later(q)
    BY <2>2, <2>9 DEF s, more
  <2>11. MoveOK(q) /\ TasksOK /\ OrdersOK /\ RidersOK
    BY <1>1 DEF MoverStep, Books, ListsOK
  <2>12. \A t : Undropped(t)' = Undropped(t)
    BY <1>1 DEF Undropped, On
  <2>13. NoStop' = NoStop
    BY DEF NoStop
  <2>14. \A p \in Requests : \A x \in Todo(p) : p \notin past.planners
    BY DEF MoverStep, NobodyPlans
  <2>15. \A x \in Todo(q) : x.do = "update"
    BY <1>1, <1>2
  <2>16. \A p \in Requests : \A x \in Todo(p) : x.do # "update" => p # q /\ x \in Todo(p)'
    BY <1>1, <2>15
  <2>17. OrdersOK'
    <3> SUFFICES ASSUME NEW u \in Orders PROVE Delivered(u)' /\ Pointed(u)' /\ Served(u)' /\ Rides(u)'
      BY DEF OrdersOK
    <3>1. Delivered(u) /\ Pointed(u) /\ Served(u)
      BY <2>11 DEF OrdersOK
    <3>2. Delivered(u)'
      BY <1>1, <3>1 DEF Delivered
    <3>3. Pointed(u)'
      <4>1. CASE rows[u].trip = stops[u].trip
        BY <1>1, <4>1 DEF Pointed
      <4>2. ASSUME NEW p \in Requests, NEW x \in Todo(p), x.do \in {"drop", "point"}, x.order = u,
                   p \in past.planners \/ rows[u].status = "cancelled"
            PROVE  Pointed(u)'
        <5>1. x \in Todo(p)'
          BY <2>16, <4>2
        <5> QED
          BY <1>1, <4>2, <5>1 DEF Pointed
      <4> QED
        BY <3>1, <4>1, <4>2 DEF Pointed
    <3>4. Served(u)'
      <4> SUFFICES ASSUME stops[u] # NoStop, ~ stops[u].dropped, rows[u].status \in Terminal
                   PROVE  Served(u)'
        BY <1>1, <2>13 DEF Served
      <4>1. PICK p \in Requests : \E x \in Todo(p) :
              /\ x.order = u
              /\ \/ x.do = "deliver" /\ rows[u].status = "delivered"
                 \/ x.do = "drop" /\ rows[u].status = "cancelled"
        BY <3>1 DEF Served
      <4>2. p # q
        BY <2>15, <4>1
      <4> QED
        BY <1>1, <4>1, <4>2 DEF Served
    <3>5. Rides(u)'
      BY <1>1, MoverRides
    <3> QED
      BY <3>2, <3>3, <3>4, <3>5
  <2>18. RidersOK'
    <3> SUFFICES ASSUME NEW r \in Riders, ~ free[r], ~ Loaded(r)' PROVE \E p \in Requests : Minds(p, r)'
      BY <1>1 DEF RidersOK
    <3>1. ~ Loaded(r)
      BY <1>1 DEF Loaded
    <3>2. PICK p \in Requests : Minds(p, r)
      BY <2>11, <3>1 DEF RidersOK
    <3>3. p # q
      BY <2>15, <3>2 DEF Minds
    <3> QED
      BY <1>1, <3>2, <3>3 DEF Minds
  <2>19. TasksOK'
    <3>1. ASSUME NEW p \in Requests, NEW x \in Todo(p) PROVE TaskOK(x)'
      BY <1>1, <2>11, <2>12, <3>1 DEF TasksOK, TaskOK
    <3>2. ASSUME NEW x \in Todo(q)' PROVE TaskOK(x)'
      <4>1. x.do \notin {"point", "close"}
        BY <1>2, <2>3, <2>6, <2>10, <3>2
      <4> QED
        BY <4>1 DEF TaskOK
    <3> QED
      BY <1>1, <3>1, <3>2 DEF TasksOK
  <2>20. ListsOK'
    <3>1. SaveOK(q, s)'
      <4>1. k.to # "cancelled" => new.trip = stops[o].trip \/ rows[o].status = "cancelled"
        <5>1. Pointed(o)
          BY <2>1, <2>11 DEF OrdersOK
        <5> QED
          BY <2>2, <2>14, <5>1 DEF Pointed
      <4>2. \A y \in Todo(q)' : /\ y.do = "drop" => y.order = o /\ k.to = "cancelled"
                                /\ y.do = "deliver" => y.order = o /\ k.to = "delivered"
        BY <1>2, <2>3, <2>8, <2>10
      <4>3. d \in Todo(q)' <=> DropTask(o) \in Todo(q)'
        BY DEF d
      <4>4. e \in Todo(q)' <=> RefreshTask(rows[o].carrier) \in Todo(q)'
        BY DEF e
      <4>5. v \in Todo(q)' <=> Task("deliver", o, rows[o].carrier, 0) \in Todo(q)'
        BY DEF v
      <4>6. \A x : x = s => SaveOK(q, x)'
        BY <1>1, <2>1, <2>2, <2>3, <2>8, <2>10, <4>1, <4>2, <4>3, <4>4, <4>5 DEF SaveOK
      <4> QED
        BY <4>6 DEF s
    <3>2. Head(work'[q]).do = "save"
      BY <1>1, <1>5, UpdateSaves
    <3>3. MoveOK(q)'
      <4>1. \A x \in Todo(q)' : /\ x.do = "save" => x = s
                                /\ x.do # "point"
        BY <1>2, <2>3, <2>6, <2>10
      <4>2. s \in Todo(q)' /\ s.do = "save"
        BY <2>3, <2>10
      <4>3. Saves(q)'
        BY <4>2 DEF Saves
      <4>4. \A x \in Todo(q)' : x.do = "save" => SaveOK(q, x)'
        BY <3>1, <4>1 DEF s
      <4> QED
        BY <3>2, <4>1, <4>3, <4>4 DEF MoveOK
    <3>4. \A p \in Requests \ {q} : IF p \in past.planners THEN PlansOK(p)' ELSE MoveOK(p)'
      BY <1>1, OthersLists
    <3> QED
      BY <1>1, <3>3, <3>4 DEF ListsOK
  <2> QED
    BY <2>17, <2>18, <2>19, <2>20 DEF Books
<1> QED
  BY <1>4, <1>5

\* What only a request that plans runs, a mover does not, and the other way round.
LEMMA Kinds ==
  /\ \A d \in Moving \cup Shared : d \notin Planning
  /\ \A d \in Planning \cup Shared : d \notin Moving
BY DEF Moving, Shared, Planning

LEMMA MoverKeeps == ASSUME NEW q \in Requests, MoverStep(q), Steps(q) PROVE Books'
<1>1. /\ Head(work[q]) \in Todo(q) /\ \A x \in Todo(q) : x.do \in Moving \cup Shared
  BY MoverFrame
<1>2. Head(work[q]).do \notin Planning
  BY <1>1, Kinds
<1>3. ~ Pick(q) /\ ~ OpenTrip(q) /\ ~ Place(q) /\ ~ Assign(q) /\ ~ Book(q) /\ ~ Unbook(q)
  BY <1>2, Zenon DEF Planning, Pick, OpenTrip, Place, Assign, Book, Unbook, Runs
<1>4. ~ CreateTrip(q) /\ ~ InsertTrip(q) /\ ~ AddToTrip(q) /\ ~ CancelTrip(q) /\ ~ NotCaught(q) /\ ~ Revive(q)
  BY <1>2, Zenon DEF Planning, CreateTrip, InsertTrip, AddToTrip, CancelTrip, NotCaught, Revive, Runs
<1> QED
  BY <1>3, <1>4, DropMoves, PointMoves, SettleMoves, CloseMoves, PickedUpMoves, DeliverMoves,
     SettleDeliveredMoves, RefreshMoves, PayBonusMoves, SaveMoves, UpdateMoves, PickupMoves DEF Steps

----------------------------------------------------------------------------
(* A request that plans.                                                   *)

\* A step of a request that plans.
PlanStep(q) ==
  /\ TypeInv /\ ListInv /\ Sound(q) /\ q \in past.planners /\ Books /\ PlanOK(q)

\* It is alone, and so is what the invariant says of it.
LEMMA PlanFrame ==
  ASSUME NEW q \in Requests, PlanStep(q), NEW k, k = Head(work[q])
  PROVE  /\ work[q] # <<>> /\ k \in Todo(q) /\ Todo(q) = {k} \cup Later(q)
         /\ past' = past /\ \A p \in Requests \ {q} : Todo(p) = {} /\ Todo(p)' = {}
         /\ \A x \in Later(q) : k.do \in Before(x.do)
         /\ \A x \in Todo(q) : x.do \in Planning \cup Shared
         /\ PlansOK(q) /\ \A x \in Todo(q) : PlanTask(q, x)
         /\ k \in Tasks(Len(trips)) /\ Len(trips) \in Nat /\ \A x \in Todo(q) : x \in Tasks(Len(trips))
<1>1. /\ work[q] # <<>> /\ k \in Todo(q) /\ Todo(q) = {k} \cup Later(q)
      /\ past' = past /\ \A p \in Requests \ {q} : Todo(p)' = Todo(p) /\ work'[p] = work[p]
      /\ \A x \in Later(q) : k.do \in Before(x.do)
      /\ \A x \in Todo(q) : x.do \in Planning \cup Shared
      /\ k \in Tasks(Len(trips)) /\ Later(q) \subseteq Tasks(Len(trips)) /\ Len(trips) \in Nat
  BY Facts DEF PlanStep
<1>2. PlansOK(q)
  BY DEF PlanStep, Books, ListsOK
<1>3. \A p \in Requests \ {q} : work[p] = <<>>
  BY DEF PlanStep, PlanOK, Alone
<1>4. \A p \in Requests \ {q} : Todo(p) = {}
  BY <1>3 DEF Todo
<1> QED
  BY <1>1, <1>2, <1>4 DEF PlansOK

\* An order that the step leaves alone, its stop and the trip pointer.
LEMMA PlanOrder ==
  ASSUME NEW q \in Requests, PlanStep(q), NEW k, k = Head(work[q]),
         NEW o \in Orders, stops'[o] = stops[o], rows'[o].status = rows[o].status,
         rows'[o].trip = rows[o].trip,
         \A x \in Later(q) : x.do \in {"drop", "point"} => x \in Todo(q)',
         k.do \in {"drop", "point"} => k.order # o
  PROVE  Delivered(o)' /\ Pointed(o)' /\ Served(o)'
<1>1. /\ Todo(q) = {k} \cup Later(q) /\ past' = past /\ \A p \in Requests \ {q} : Todo(p) = {}
      /\ \A x \in Todo(q) : x.do \in Planning \cup Shared
  BY PlanFrame
<1>2. Delivered(o) /\ Pointed(o) /\ Served(o) /\ q \in past.planners
  BY DEF PlanStep, Books, OrdersOK
<1>3. \A p \in Requests : \A x \in Todo(p) :
        p = q /\ x.do # "deliver" /\ (x.do \in {"drop", "point"} /\ x.order = o => x \in Todo(q)')
  BY <1>1 DEF Planning, Shared
<1>4. Delivered(o)'
  BY <1>2 DEF Delivered
<1>5. Pointed(o)'
  <2>1. CASE rows[o].trip = stops[o].trip
    BY <2>1 DEF Pointed
  <2>2. ASSUME NEW p \in Requests, NEW x \in Todo(p), x.do \in {"drop", "point"}, x.order = o
        PROVE  Pointed(o)'
    <3>1. x \in Todo(q)'
      BY <1>3, <2>2
    <3> QED
      BY <1>1, <1>2, <2>2, <3>1 DEF Pointed
  <2> QED
    BY <1>2, <2>1, <2>2 DEF Pointed
<1>6. Served(o)'
  <2> SUFFICES ASSUME stops[o] # NoStop, ~ stops[o].dropped, rows[o].status \in Terminal
               PROVE  Served(o)'
    BY DEF Served, NoStop
  <2>1. PICK p \in Requests : \E x \in Todo(p) :
          /\ x.order = o
          /\ \/ x.do = "deliver" /\ rows[o].status = "delivered"
             \/ x.do = "drop" /\ rows[o].status = "cancelled"
    BY <1>2 DEF Served
  <2>2. PICK x \in Todo(p) :
          /\ x.order = o
          /\ \/ x.do = "deliver" /\ rows[o].status = "delivered"
             \/ x.do = "drop" /\ rows[o].status = "cancelled"
    BY <2>1
  <2>3. x \in Todo(q)' /\ x.do = "drop"
    BY <1>3, <2>2
  <2> QED
    BY <2>2, <2>3 DEF Served
<1> QED
  BY <1>4, <1>5, <1>6

\* Where it rides: it suffices that it goes on being handed over, or made anew.
LEMMA PlanRides ==
  ASSUME NEW q \in Requests, PlanStep(q), NEW k, k = Head(work[q]),
         NEW o \in Orders, stops'[o] = stops[o], rows'[o].status = rows[o].status,
         rows'[o].carrier = rows[o].carrier,
         rows[o].status \notin Terminal => (HandsOver(q, o) => HandsOver(q, o)'),
         rows[o].status \notin Terminal /\ stops[o] # NoStop =>
           /\ trips'[stops[o].trip].rider = trips[stops[o].trip].rider
           /\ trips[stops[o].trip].status \in Active \/ Remakes(q, o) =>
                trips'[stops[o].trip].status \in Active \/ Remakes(q, o)' \/ HandsOver(q, o)'
  PROVE  Rides(o)'
<1>1. \A p \in Requests \ {q} : ~ HandsOver(p, o) /\ ~ Remakes(p, o)
  BY PlanFrame DEF HandsOver, Remakes
<1>2. Rides(o)
  BY DEF PlanStep, Books, OrdersOK
<1>3. NoStop' = NoStop
  BY DEF NoStop
<1>4. CASE rows[o].status \in Terminal
  BY <1>4 DEF Rides
<1>5. CASE rows[o].status \notin Terminal /\ HandsOver(q, o)
  BY <1>5 DEF Rides
<1>6. CASE rows[o].status \notin Terminal /\ Plain(o)
  <2>1. CASE stops[o] = NoStop
    BY <1>3, <1>6, <2>1 DEF Plain, Rides
  <2>2. CASE stops[o] # NoStop
    <3>1. /\ trips[stops[o].trip].rider = rows[o].carrier
          /\ trips[stops[o].trip].status \in Active \/ Remakes(q, o)
      BY <1>1, <1>6, <2>2 DEF Plain
    <3>2. /\ trips'[stops'[o].trip].rider = rows'[o].carrier
          /\ trips'[stops'[o].trip].status \in Active \/ Remakes(q, o)' \/ HandsOver(q, o)'
      BY <1>6, <2>2, <3>1
    <3>3. CASE HandsOver(q, o)'
      BY <3>3 DEF Rides
    <3>4. CASE trips'[stops'[o].trip].status \in Active \/ Remakes(q, o)'
      <4>1. Plain(o)'
        BY <1>3, <2>2, <3>2, <3>4 DEF Plain
      <4> QED
        BY <4>1 DEF Rides
    <3> QED
      BY <3>2, <3>3, <3>4
  <2> QED
    BY <2>1, <2>2
<1> QED
  BY <1>1, <1>2, <1>4, <1>5, <1>6 DEF Rides

\* Statements that stay on the list stand for what they stood for.
LEMMA SameHands ==
  ASSUME NEW q \in Requests, PlanStep(q), NEW k, k = Head(work[q]), NEW o \in Orders,
         stops'[o] = stops[o], Later(q) \subseteq Todo(q)'
  PROVE  /\ HandsOver(q, o) /\ (k.do \in {"save", "drop"} \cup Placing => k.order # o)
              => HandsOver(q, o)'
         /\ Remakes(q, o) /\ k.do \notin {"revive", "catch", "create", "insert", "assign"}
              => Remakes(q, o)'
<1>1. /\ Todo(q) = {k} \cup Later(q) /\ past' = past
  BY PlanFrame
<1>2. ASSUME HandsOver(q, o), k.do \in {"save", "drop"} \cup Placing => k.order # o PROVE HandsOver(q, o)'
  BY <1>1, <1>2 DEF HandsOver
<1>3. ASSUME Remakes(q, o), k.do \notin {"revive", "catch", "create", "insert", "assign"} PROVE Remakes(q, o)'
  <2>1. \A t : TripTask("revive", t).do = "revive" /\ TripTask("catch", t).do = "catch"
    BY DEF TripTask
  <2>2. \A x \in Todo(q) : x.do \in {"revive", "catch", "create", "insert", "assign"} => x \in Todo(q)'
    BY <1>1, <1>3
  <2> QED
    BY <1>1, <1>3, <2>1, <2>2 DEF Remakes
<1> QED
  BY <1>2, <1>3

\* What a step that writes no stop leaves on the list is as good as before.
LEMMA PlanLater ==
  ASSUME NEW q \in Requests, PlanStep(q), NEW k, k = Head(work[q]), UNCHANGED stops,
         \A o \in Orders : rows'[o].status = rows[o].status /\ rows'[o].carrier = rows[o].carrier,
         k.do \notin {"save", "drop"}, Later(q) \subseteq Todo(q)', NEW x \in Later(q)
  PROVE  PlanTask(q, x)'
<1>1. /\ Todo(q) = {k} \cup Later(q) /\ \A y \in Later(q) : k.do \in Before(y.do)
      /\ \A y \in Todo(q) : y.do \in Planning \cup Shared
      /\ PlanTask(q, x) /\ x \in Tasks(Len(trips)) /\ Len(trips) \in Nat
  BY PlanFrame
<1>2. \A y \in Todo(q)' : \/ y \in Later(q)
                          \/ y.do \in Follow(k.do)
                          \/ \E z \in Todo(q) : z.do = "catch" /\ y = TripTask("revive", z.trip)
  BY ShapeTodo DEF PlanStep
<1>3. \A z : TripTask("revive", z).do = "revive"
  BY DEF TripTask
<1>4. NoStop' = NoStop
  BY DEF NoStop
<1>5. x.do \notin {"drop", "place", "open", "cancel"}
  BY <1>1 DEF Before
<1>6. x.do = "save" => TakeOK(q, x)'
  <2> SUFFICES ASSUME x.do = "save" PROVE TakeOK(q, x)'
    OBVIOUS
  <2>1. x.order \in Orders
    BY <1>1, TaskFields
  <2>2. TakeOK(q, x) /\ k.do \in {"point", "settle", "close"}
    BY <1>1 DEF PlanTask, Before
  <2>3. \A y \in Todo(q) : y.do \in {"refresh", "drop"} \cup Placing => y \in Todo(q)'
    BY <1>1, <2>2 DEF Placing
  <2>4. /\ \A r : RefreshTask(r).do = "refresh"
        /\ \A o : DropTask(o).do = "drop"
    BY DEF RefreshTask, DropTask
  <2>5. x.row.carrier \notin Riders /\ x.row.trip = 0
    BY <2>2 DEF TakeOK
  <2>6. rows[x.order].carrier \in Riders => RefreshTask(rows[x.order].carrier) \in Todo(q)'
    BY <2>2, <2>3, <2>4 DEF TakeOK
  <2>7. DropTask(x.order) \in Todo(q)' \/ x.row.trip = stops[x.order].trip
    BY <2>2, <2>3, <2>4 DEF TakeOK
  <2>8. DropTask(x.order) \in Todo(q)' \/ stops[x.order] = NoStop
        \/ \E y \in Todo(q)' : y.do \in Placing /\ y.order = x.order /\ y.rider = x.row.carrier
    BY <2>2, <2>3, <2>4 DEF TakeOK
  <2> QED
    BY <1>4, <2>1, <2>5, <2>6, <2>7, <2>8 DEF TakeOK
<1>7. x.do \in Placing => GiveOK(q, x)'
  <2> SUFFICES ASSUME x.do = "pick" PROVE GiveOK(q, x)'
    BY <1>5 DEF Placing
  <2>1. x.order \in Orders
    BY <1>1, TaskFields
  <2>2. GiveOK(q, x) /\ k.do \in {"point", "settle", "close"}
    BY <1>1 DEF PlanTask, Before, Placing
  <2>3. \A y \in Todo(q)' : y.do = "save" => y \in Todo(q)
    BY <1>1, <1>2, <1>3, <2>2 DEF Follow
  <2>4. \A y \in Todo(q) : y.do = "save" => y \in Todo(q)'
    BY <1>1, <2>2
  <2>5. SavesOf(q, x.order)' = SavesOf(q, x.order)
    BY <2>3, <2>4 DEF SavesOf
  <2> QED
    BY <2>1, <2>2, <2>5 DEF GiveOK
<1>8. x.do = "catch" => \A y \in Todo(q)' : y.do = "catch" => y = x
  <2> SUFFICES ASSUME x.do = "catch", NEW y \in Todo(q)', y.do = "catch" PROVE y = x
    OBVIOUS
  <2>1. y.do \notin Follow(k.do)
    BY <1>1 DEF Before, Follow, Shared
  <2>2. y \in Todo(q)
    BY <1>1, <1>2, <1>3, <2>1
  <2> QED
    BY <1>1, <2>2 DEF PlanTask
<1> QED
  BY <1>5, <1>6, <1>7, <1>8 DEF PlanTask

\* The riders' flags: who was looked at still is.
LEMMA PlanRiders ==
  ASSUME NEW q \in Requests, PlanStep(q), NEW k, k = Head(work[q]),
         \A o \in Orders : rows'[o].status = rows[o].status /\ rows'[o].carrier = rows[o].carrier,
         \A x \in Later(q) : x.do = "refresh" => x \in Todo(q)',
         \A r \in Riders : \/ free'[r] \/ Loaded(r)
                           \/ ~ free[r] /\ (k.do = "refresh" => k.rider # r)
  PROVE  RidersOK'
<1> SUFFICES ASSUME NEW r \in Riders, ~ free'[r], ~ Loaded(r)' PROVE \E p \in Requests : Minds(p, r)'
  BY DEF RidersOK
<1>1. /\ Todo(q) = {k} \cup Later(q) /\ past' = past /\ \A p \in Requests \ {q} : Todo(p) = {}
      /\ \A x \in Todo(q) : x.do \in Planning \cup Shared
  BY PlanFrame
<1>2. ~ Loaded(r)
  BY <1>1 DEF Loaded
<1>3. PICK p \in Requests : Minds(p, r)
  BY <1>2 DEF PlanStep, Books, RidersOK
<1>4. p = q /\ q \in past.planners
  BY <1>1, <1>3 DEF Minds, PlanStep
<1>5. PICK x \in Todo(q) : x.do = "refresh" /\ x.rider = r
  BY <1>1, <1>3, <1>4 DEF Minds, Planning, Shared
<1>6. x \in Todo(q)'
  BY <1>1, <1>2, <1>5
<1> QED
  BY <1>1, <1>4, <1>5, <1>6 DEF Minds

\* A step that writes no order and no stop: it suffices that what it was to do
\* stays on the list, and that its new statements are in order.
LEMMA PlanQuiet ==
  ASSUME NEW q \in Requests, PlanStep(q), NEW k, k = Head(work[q]), UNCHANGED <<rows, stops>>,
         k.do \notin {"save", "drop", "point"},
         \/ Later(q) \subseteq Todo(q)'
         \/ (\A x \in Later(q) : x.do = "catch") /\ (\A x \in Todo(q)' : x \notin Later(q)),
         \A x \in Todo(q)' : x \in Later(q) \/ (PlanTask(q, x)' /\ TaskOK(x)'),
         \A o \in Orders : rows[o].status \notin Terminal => (HandsOver(q, o) => HandsOver(q, o)'),
         \A o \in Orders : rows[o].status \notin Terminal /\ stops[o] # NoStop =>
           /\ trips'[stops[o].trip].rider = trips[stops[o].trip].rider
           /\ trips[stops[o].trip].status \in Active \/ Remakes(q, o) =>
                trips'[stops[o].trip].status \in Active \/ Remakes(q, o)' \/ HandsOver(q, o)',
         \A r \in Riders : \/ free'[r] \/ Loaded(r)
                           \/ ~ free[r] /\ (k.do = "refresh" => k.rider # r)
  PROVE  Books'
<1>1. /\ Todo(q) = {k} \cup Later(q) /\ past' = past
      /\ \A p \in Requests \ {q} : Todo(p) = {} /\ Todo(p)' = {}
      /\ q \in past.planners
  BY PlanFrame DEF PlanStep
<1>2. \A x \in Later(q) : x.do \in {"drop", "point", "refresh"} => x \in Todo(q)'
  OBVIOUS
<1>3. OrdersOK'
  <2> SUFFICES ASSUME NEW o \in Orders PROVE Delivered(o)' /\ Pointed(o)' /\ Served(o)' /\ Rides(o)'
    BY DEF OrdersOK
  <2>1. Delivered(o)' /\ Pointed(o)' /\ Served(o)'
    BY <1>2, PlanOrder
  <2>2. Rides(o)'
    BY PlanRides
  <2> QED
    BY <2>1, <2>2
<1>4. RidersOK'
  BY <1>2, PlanRiders
<1>5. TasksOK'
  <2>1. \A t : Undropped(t)' = Undropped(t)
    BY DEF Undropped, On
  <2>2. ASSUME NEW p \in Requests, NEW x \in Todo(p)' PROVE TaskOK(x)'
    <3>1. p = q
      BY <1>1, <2>2
    <3>2. CASE x \in Later(q)
      <4>1. TaskOK(x)
        BY <1>1, <3>2 DEF PlanStep, Books, TasksOK
      <4> QED
        BY <2>1, <4>1 DEF TaskOK
    <3> QED
      BY <2>2, <3>1, <3>2
  <2> QED
    BY <2>2 DEF TasksOK
<1>6. ListsOK'
  <2>1. ASSUME NEW x \in Todo(q)' PROVE PlanTask(q, x)'
    <3>1. CASE x \in Later(q)
      <4>1. Later(q) \subseteq Todo(q)'
        BY <2>1, <3>1
      <4> QED
        BY <3>1, <4>1, PlanLater
    <3> QED
      BY <2>1, <3>1
  <2>2. PlansOK(q)'
    BY <2>1 DEF PlansOK
  <2>3. ASSUME NEW p \in Requests \ {q}
        PROVE  IF p \in past.planners THEN PlansOK(p)' ELSE MoveOK(p)'
    BY <1>1 DEF PlansOK, MoveOK, Saves
  <2> QED
    BY <1>1, <2>2, <2>3 DEF ListsOK
<1> QED
  BY <1>3, <1>4, <1>5, <1>6 DEF Books

LEMMA SettlePlans == ASSUME NEW q \in Requests, PlanStep(q), Settle(q) PROVE Books'
<1> SUFFICES ASSUME NEW k, k = Head(work[q]) PROVE Books'
  OBVIOUS
<1> DEFINE n == Len(trips)
           ts == Closing(k.trip)
<1>1. /\ k.do = "settle" /\ k \in Tasks(n) /\ n \in Nat /\ Then(q, ts)
      /\ TypeInv /\ ListInv /\ Sound(q) /\ UNCHANGED <<rows, stops, trips, free>>
  BY Facts DEF PlanStep, Settle, Runs, db
<1>2. k.trip \in 1 .. n
  BY <1>1, TaskFields
<1>3. /\ ts \in Seq(Tasks(n))
      /\ \A x \in Elems(ts) : x.do = "close" /\ x.trip = k.trip /\ Verdict(k.trip) # "open"
  BY <1>1, <1>2, ClosingList
<1> HIDE DEF ts
<1>4. Todo(q)' = Elems(ts) \cup Later(q)
  BY <1>1, <1>3, Moved
<1>5. Verdict(k.trip) # "open" => Undropped(k.trip)' = {}
  BY <1>1 DEF Verdict, Undropped, On
<1>6. \A x \in Elems(ts) : PlanTask(q, x)' /\ TaskOK(x)'
  BY <1>3, <1>5 DEF PlanTask, TaskOK, Placing
<1>7. \A o \in Orders : /\ HandsOver(q, o) => HandsOver(q, o)'
                        /\ Remakes(q, o) => Remakes(q, o)'
  BY <1>1, <1>4, SameHands DEF Placing
<1> QED
  BY <1>1, <1>4, <1>6, <1>7, PlanQuiet

LEMMA ClosePlans == ASSUME NEW q \in Requests, PlanStep(q), CloseTrip(q) PROVE Books'
<1> SUFFICES ASSUME NEW k, k = Head(work[q]) PROVE Books'
  OBVIOUS
<1> DEFINE n == Len(trips)
           ts == <<>>
<1>1. /\ k.do = "close" /\ k \in Tasks(n) /\ n \in Nat /\ Then(q, ts) /\ k \in Todo(q)
      /\ TypeInv /\ ListInv /\ Sound(q) /\ UNCHANGED <<rows, stops, free, bonus>>
      /\ trips' = IF trips[k.trip].status \in Active THEN [trips EXCEPT ![k.trip].status = k.to] ELSE trips
  BY Facts DEF PlanStep, CloseTrip, Runs
<1>2. k.trip \in 1 .. n /\ k.to \in Active \cup {"done", "cancelled"}
  BY <1>1, TaskFields
<1>3. /\ Len(trips') = n /\ \A u \in DOMAIN trips \ {k.trip} : trips'[u] = trips[u]
      /\ \A u \in DOMAIN trips : trips'[u].rider = trips[u].rider
  <2>1. trips' = trips \/ trips' = [trips EXCEPT ![k.trip].status = k.to]
    BY <1>1, Zenon
  <2> QED
    BY <1>1, <1>2, <2>1, TripChanges, Zenon
<1>4. ts \in Seq(Tasks(Len(trips'))) /\ Elems(ts) = {}
  BY <1>1, <1>3, ShortLists
<1> HIDE DEF ts
<1>5. Todo(q)' = Later(q)
  <2>1. Todo(q)' = Elems(ts) \cup Later(q)
    BY <1>1, <1>4, Moved
  <2> QED
    BY <1>4, <2>1
<1>6. Undropped(k.trip) = {} /\ \A o \in Orders : Delivered(o)
  BY <1>1 DEF PlanStep, Books, OrdersOK, TasksOK, TaskOK
<1>7. ASSUME NEW o \in Orders, rows[o].status \notin Terminal, stops[o] # NoStop
      PROVE  trips'[stops[o].trip] = trips[stops[o].trip]
  <2>1. stops[o].trip \in DOMAIN trips /\ o \in On(stops[o].trip)
    BY <1>1, <1>7, StopTrip
  <2>2. stops[o].trip # k.trip
    BY <1>6, <1>7, <2>1 DEF Undropped, Delivered, Terminal
  <2> QED
    BY <1>3, <2>1, <2>2
<1>8. \A o \in Orders : /\ HandsOver(q, o) => HandsOver(q, o)'
                        /\ Remakes(q, o) => Remakes(q, o)'
  <2>1. k.do \notin {"save", "drop"} \cup Placing /\ k.do \notin {"revive", "catch", "create", "insert", "assign"}
    BY <1>1 DEF Placing
  <2> QED
    BY <1>1, <1>5, <2>1, SameHands
<1>9. k.do \notin {"save", "drop", "point", "refresh"}
  BY <1>1
<1> QED
  BY <1>1, <1>5, <1>7, <1>8, <1>9, PlanQuiet

LEMMA RefreshPlans == ASSUME NEW q \in Requests, PlanStep(q), Refresh(q) PROVE Books'
<1> SUFFICES ASSUME NEW k, k = Head(work[q]) PROVE Books'
  OBVIOUS
<1> DEFINE n == Len(trips)
           ts == <<>>
<1>1. /\ k.do = "refresh" /\ n \in Nat /\ Then(q, ts) /\ past' = past
      /\ TypeInv /\ ListInv /\ Sound(q) /\ UNCHANGED <<rows, stops, trips>>
      /\ free' = IF k.rider \in Riders THEN [free EXCEPT ![k.rider] = Carrying(k.rider) = {}] ELSE free
  BY Facts DEF PlanStep, Refresh, Runs
<1>2. ts \in Seq(Tasks(Len(trips'))) /\ Elems(ts) = {}
  BY <1>1, ShortLists
<1> HIDE DEF ts
<1>3. Todo(q)' = Later(q)
  <2>1. Todo(q)' = Elems(ts) \cup Later(q)
    BY <1>1, <1>2, Moved
  <2> QED
    BY <1>2, <2>1
<1>4. ASSUME NEW r \in Riders, ~ free'[r]
      PROVE  Loaded(r) \/ (~ free[r] /\ k.rider # r)
  <2>1. free \in [Riders -> BOOLEAN]
    BY <1>1 DEF TypeInv, DbType
  <2>2. CASE k.rider = r
    <3>1. free' = [free EXCEPT ![r] = Carrying(r) = {}]
      BY <1>1, <2>2
    <3>2. Carrying(r) # {}
      BY <1>4, <2>1, <3>1
    <3>3. PICK o \in Orders : rows[o].carrier = r /\ rows[o].status \in NeedsCarrier
      BY <3>2 DEF Carrying
    <3> QED
      BY <3>3 DEF Loaded, NeedsCarrier, OnTheRoad, Terminal
  <2>3. CASE k.rider # r
    BY <1>1, <1>4, <2>1, <2>3
  <2> QED
    BY <2>2, <2>3
<1>5. \A o \in Orders : /\ HandsOver(q, o) => HandsOver(q, o)'
                        /\ Remakes(q, o) => Remakes(q, o)'
  <2>1. k.do \notin {"save", "drop"} \cup Placing /\ k.do \notin {"revive", "catch", "create", "insert", "assign"}
    BY <1>1 DEF Placing
  <2> QED
    BY <1>1, <1>3, <2>1, SameHands
<1>6. k.do \notin {"save", "drop", "point"}
  BY <1>1
<1> QED
  BY <1>1, <1>3, <1>4, <1>5, <1>6, PlanQuiet

\* The way to a stop goes on.
LEMMA GoesOn ==
  ASSUME NEW q \in Requests, PlanStep(q), Sound(q), NEW k, k = Head(work[q]), k.do \in {"pick", "open"},
         UNCHANGED <<rows, stops, free>>, \A t \in DOMAIN trips : trips'[t] = trips[t],
         NEW y \in Tasks(Len(trips')), Then(q, <<y>>), y.order = k.order, y.rider = k.rider,
         y.do \in {"open", "place"},
         y.do = "place" => trips'[y.trip].rider = y.rider /\ trips'[y.trip].status = "planned"
  PROVE  Books'
<1> DEFINE m == Len(trips')
           ts == <<y>>
<1>1. /\ TypeInv /\ ListInv /\ past' = past /\ k \in Todo(q) /\ m \in Nat
      /\ Todo(q) = {k} \cup Later(q) /\ \A x \in Later(q) : k.do \in Before(x.do)
      /\ PlanTask(q, k) /\ q \in past.planners
  BY PlanFrame, Facts DEF PlanStep, DbType
<1>2. ts \in Seq(Tasks(m)) /\ Elems(ts) = {y}
  BY <1>1, ShortLists
<1> HIDE DEF ts
<1>3. Todo(q)' = {y} \cup Later(q)
  <2>1. Then(q, ts)
    BY DEF ts
  <2>2. Todo(q)' = Elems(ts) \cup Later(q)
    BY <1>1, <1>2, <2>1, Moved
  <2> QED
    BY <1>2, <2>2
<1>4. GiveOK(q, k)
  BY <1>1 DEF PlanTask, Placing
<1>5. \A x \in Later(q) : x.do # "save"
  BY <1>1 DEF Before
<1>6. SavesOf(q, k.order) = {} /\ SavesOf(q, k.order)' = {}
  <2>1. k.do # "save" /\ y.do # "save"
    OBVIOUS
  <2> QED
    BY <1>1, <1>3, <1>5, <2>1 DEF SavesOf
<1>7. GiveOK(q, y)'
  BY <1>4, <1>6 DEF GiveOK
<1>8. PlanTask(q, y)' /\ TaskOK(y)'
  BY <1>7 DEF PlanTask, TaskOK
<1>9. ASSUME NEW o \in Orders, HandsOver(q, o) PROVE HandsOver(q, o)'
  <2>1. PICK x \in Todo(q) : x.do \in {"save", "drop"} \cup Placing /\ x.order = o
    BY <1>9 DEF HandsOver
  <2>2. \E z \in Todo(q)' : z.do \in {"save", "drop"} \cup Placing /\ z.order = o
    <3>1. CASE x = k
      BY <1>3, <2>1, <3>1 DEF Placing
    <3>2. CASE x \in Later(q)
      BY <1>3, <2>1, <3>2
    <3> QED
      BY <1>1, <3>1, <3>2
  <2> QED
    BY <1>1, <2>2 DEF HandsOver
<1>10. ASSUME NEW o \in Orders, stops[o] # NoStop
       PROVE  /\ trips'[stops[o].trip] = trips[stops[o].trip]
              /\ Remakes(q, o) => Remakes(q, o)'
  <2>1. stops[o].trip \in DOMAIN trips
    BY <1>1, <1>10, StopTrip
  <2>2. k.do \notin {"revive", "catch", "create", "insert", "assign"}
    OBVIOUS
  <2> QED
    BY <1>3, <2>1, <2>2, SameHands
<1>11. k.do \notin {"save", "drop", "point", "refresh"}
  OBVIOUS
<1> QED
  BY <1>3, <1>8, <1>9, <1>10, <1>11, PlanQuiet

LEMMA PickPlans == ASSUME NEW q \in Requests, PlanStep(q), Pick(q) PROVE Books'
<1> SUFFICES ASSUME NEW k, k = Head(work[q]) PROVE Books'
  OBVIOUS
<1> DEFINE n == Len(trips)
           a(t) == Task("place", k.order, k.rider, t)
           b == Task("open", k.order, k.rider, 0)
<1>0. Sound(q) /\ TypeInv
  BY PickShape DEF PlanStep
<1>1. /\ k.do = "pick" /\ UNCHANGED <<rows, stops, trips, free>> /\ k \in Todo(q)
      /\ PlanOK(q)
  BY PlanFrame DEF PlanStep, Pick, Runs, db
<1>2. Fits(k)
  BY <1>1 DEF PlanOK
<1>3. \/ \E t \in 1 .. n : /\ trips[t].rider = k.rider /\ trips[t].status = "planned"
                           /\ a(t) \in Tasks(n) /\ Then(q, <<a(t)>>)
      \/ b \in Tasks(n) /\ Then(q, <<b>>)
  <2>1. \/ /\ Throw(q) /\ k.trip # 0
           /\ ~ (trips[k.trip].rider = k.rider /\ trips[k.trip].status = "planned")
        \/ \E t \in 1 .. n : /\ trips[t].rider = k.rider /\ trips[t].status = "planned"
                             /\ a(t) \in Tasks(n) /\ Then(q, <<a(t)>>)
        \/ b \in Tasks(n) /\ Then(q, <<b>>)
    BY <1>0, PickList, Zenon
  <2> QED
    BY <1>1, <1>2, <2>1 DEF Fits
<1>4. ASSUME NEW t \in 1 .. n, trips[t].rider = k.rider, trips[t].status = "planned",
             a(t) \in Tasks(n), Then(q, <<a(t)>>)
      PROVE  Books'
  <2>1. PICK y : y = a(t)
    OBVIOUS
  <2>2. /\ y.do = "place" /\ y.order = k.order /\ y.rider = k.rider /\ y.trip = t
        /\ y \in Tasks(Len(trips')) /\ Then(q, <<y>>)
    BY <1>1, <1>4, <2>1 DEF Task
  <2> QED
    BY <1>0, <1>1, <1>4, <2>2, GoesOn
<1>5. CASE b \in Tasks(n) /\ Then(q, <<b>>)
  <2>1. PICK y : y = b
    OBVIOUS
  <2>2. /\ y.do = "open" /\ y.order = k.order /\ y.rider = k.rider
        /\ y \in Tasks(Len(trips')) /\ Then(q, <<y>>)
    BY <1>1, <1>5, <2>1 DEF Task
  <2> QED
    BY <1>0, <1>1, <2>2, GoesOn
<1> QED
  BY <1>3, <1>4, <1>5

LEMMA OpenPlans == ASSUME NEW q \in Requests, PlanStep(q), OpenTrip(q) PROVE Books'
<1> SUFFICES ASSUME NEW k, k = Head(work[q]), NEW n, n = Len(trips) PROVE Books'
  OBVIOUS
<1>0. Sound(q) /\ TypeInv
  BY OpenShape DEF PlanStep
<1>1. /\ k.do = "open" /\ UNCHANGED <<rows, stops, free, bonus>> /\ k \in Tasks(n) /\ n \in Nat
      /\ n < MaxTrips /\ NewTrip(k.rider) /\ Then(q, <<[k EXCEPT !.do = "place", !.trip = n + 1]>>)
  BY PlanFrame DEF OpenTrip, Runs
<1>2. k \in [do : {"open"}, order : Orders, rider : Riders, trip : 0 .. n]
  BY <1>1, TaskFields
<1>3. /\ Len(trips') = n + 1 /\ \A t \in DOMAIN trips : trips'[t] = trips[t]
      /\ trips'[n + 1] = [rider |-> k.rider, status |-> "planned"]
  BY <1>0, <1>1, <1>2, TripAdded
<1>4. PICK y : y = [k EXCEPT !.do = "place", !.trip = n + 1]
  OBVIOUS
<1>5. y.do = "place" /\ y.trip = n + 1 /\ y.order = k.order /\ y.rider = k.rider /\ y \in Tasks(n + 1)
  <2>1. n + 1 \in 1 .. n + 1
    BY <1>1
  <2>2. y \in [do : {"place"}, order : Orders, rider : Riders, trip : 1 .. n + 1]
    BY <1>2, <1>4, <2>1
  <2>3. y \in Tasks(n + 1)
    BY <2>2 DEF Tasks, OrderTasks
  <2> QED
    BY <1>2, <1>4, <2>3
<1>6. Then(q, <<y>>)
  BY <1>1, <1>4
<1> QED
  BY <1>0, <1>1, <1>3, <1>5, <1>6, GoesOn

LEMMA NotCaughtPlans == ASSUME NEW q \in Requests, PlanStep(q), NotCaught(q) PROVE Books'
<1> SUFFICES ASSUME NEW k, k = Head(work[q]) PROVE Books'
  OBVIOUS
<1> DEFINE ts == <<>>
<1>1. /\ k.do = "catch" /\ UNCHANGED <<rows, stops, trips, free>> /\ Then(q, ts)
      /\ Todo(q) = {k} \cup Later(q) /\ \A x \in Later(q) : k.do \in Before(x.do)
      /\ TypeInv /\ ListInv /\ Sound(q) /\ Len(trips) \in Nat
  BY PlanFrame, NotCaughtShape DEF PlanStep, NotCaught, Runs, db
<1>2. ts \in Seq(Tasks(Len(trips'))) /\ Elems(ts) = {}
  BY <1>1, ShortLists
<1> HIDE DEF ts
<1>3. Later(q) = {}
  BY <1>1 DEF Before, Shared, Moving
<1>4. Todo(q)' = {} /\ Todo(q) = {k}
  BY <1>1, <1>2, <1>3, Moved
<1>5. \A o : ~ HandsOver(q, o) /\ ~ Remakes(q, o)
  BY <1>1, <1>4 DEF HandsOver, Remakes, Placing, TripTask
<1>6. k.do \notin {"save", "drop", "point", "refresh"}
  BY <1>1
<1> QED
  BY <1>1, <1>3, <1>4, <1>5, <1>6, PlanQuiet

LEMMA RevivePlans == ASSUME NEW q \in Requests, PlanStep(q), Revive(q) PROVE Books'
<1> SUFFICES ASSUME NEW k, k = Head(work[q]) PROVE Books'
  OBVIOUS
<1> DEFINE ts == <<>>
           n == Len(trips)
<1>1. /\ k.do = "revive" /\ UNCHANGED <<rows, stops, free, bonus>> /\ Then(q, ts)
      /\ Todo(q) = {k} \cup Later(q) /\ \A x \in Later(q) : k.do \in Before(x.do)
      /\ TypeInv /\ ListInv /\ Sound(q) /\ n \in Nat /\ k \in Tasks(n)
  BY PlanFrame, ReviveShape DEF PlanStep, Revive, Runs
<1>2. k.trip \in 1 .. n
  BY <1>1, TaskFields
<1>3. trips' = [trips EXCEPT ![k.trip].status = "planned"]
  BY Zenon DEF Revive
<1>4. /\ Len(trips') = n /\ \A u \in DOMAIN trips \ {k.trip} : trips'[u] = trips[u]
      /\ \A u \in DOMAIN trips : trips'[u].rider = trips[u].rider
  <2>1. "planned" \in Active
    BY DEF Active
  <2> QED
    BY <1>1, <1>2, <1>3, <2>1, TripChanges, Zenon
<1>5. trips'[k.trip].status = "planned"
  <2>1. trips \in Seq(TripType) /\ k.trip \in DOMAIN trips /\ trips[k.trip] \in TripType
    BY <1>1, <1>2 DEF TypeInv, DbType
  <2> QED
    BY <1>3, <2>1 DEF TripType
<1>6. ts \in Seq(Tasks(Len(trips'))) /\ Elems(ts) = {}
  BY <1>1, <1>4, ShortLists
<1> HIDE DEF ts
<1>7. Later(q) = {}
  BY <1>1 DEF Before, Shared, Moving
<1>8. Todo(q)' = {} /\ Todo(q) = {k}
  <2>1. Todo(q)' = Elems(ts) \cup Later(q)
    BY <1>1, <1>6, Moved
  <2> QED
    BY <1>1, <1>6, <1>7, <2>1
<1>9. \A o : ~ HandsOver(q, o)
  BY <1>1, <1>8 DEF HandsOver, Placing
<1>10. ASSUME NEW o \in Orders, Remakes(q, o) PROVE stops[o].trip = k.trip
  BY <1>1, <1>8, <1>10 DEF Remakes, TripTask
<1>11. ASSUME NEW o \in Orders, stops[o] # NoStop
       PROVE  /\ trips'[stops[o].trip].rider = trips[stops[o].trip].rider
              /\ trips[stops[o].trip].status \in Active \/ Remakes(q, o) =>
                   trips'[stops[o].trip].status \in Active
  <2>1. stops[o].trip \in DOMAIN trips
    BY <1>1, <1>11, StopTrip
  <2>2. CASE stops[o].trip = k.trip
    BY <1>4, <1>5, <2>1, <2>2 DEF Active
  <2>3. CASE stops[o].trip # k.trip
    BY <1>4, <1>10, <2>1, <2>3
  <2> QED
    BY <2>2, <2>3
<1>12. k.do \notin {"save", "drop", "point", "refresh"}
  BY <1>1
<1> QED
  BY <1>1, <1>7, <1>8, <1>9, <1>11, <1>12, PlanQuiet

LEMMA CancelPlans == ASSUME NEW q \in Requests, PlanStep(q), CancelTrip(q) PROVE Books'
<1> SUFFICES ASSUME NEW k, k = Head(work[q]) PROVE Books'
  OBVIOUS
<1> DEFINE ts == <<>>
           n == Len(trips)
<1>1. /\ k.do = "cancel" /\ UNCHANGED <<rows, stops, free, bonus>> /\ Then(q, ts)
      /\ Todo(q) = {k} \cup Later(q) /\ past' = past /\ q \in past.planners
      /\ TypeInv /\ ListInv /\ Sound(q) /\ n \in Nat /\ k \in Tasks(n) /\ PlanTask(q, k)
  BY PlanFrame, CancelShape DEF PlanStep, CancelTrip, Runs
<1>2. k.trip \in 1 .. n
  BY <1>1, TaskFields
<1>3. trips' = trips \/ trips' = [trips EXCEPT ![k.trip].status = "cancelled"]
  BY Zenon DEF CancelTrip
<1>4. /\ Len(trips') = n /\ \A u \in DOMAIN trips \ {k.trip} : trips'[u] = trips[u]
      /\ \A u \in DOMAIN trips : trips'[u].rider = trips[u].rider
  BY <1>1, <1>2, <1>3, TripChanges, Zenon
<1>5. ts \in Seq(Tasks(Len(trips'))) /\ Elems(ts) = {}
  BY <1>1, <1>4, ShortLists
<1> HIDE DEF ts
<1>6. Todo(q)' = Later(q)
  <2>1. Todo(q)' = Elems(ts) \cup Later(q)
    BY <1>1, <1>5, Moved
  <2> QED
    BY <1>5, <2>1
<1>7. /\ TripTask("catch", k.trip) \in Todo(q)'
      /\ \E y \in Todo(q)' : y.do = "create" /\ \A o \in On(k.trip) : \E i \in DOMAIN y.orders : y.orders[i] = o
  <2>1. RemakeOK(q, k) /\ TripTask("catch", k.trip).do = "catch"
    BY <1>1 DEF PlanTask, TripTask
  <2> QED
    BY <1>1, <1>6, <2>1 DEF RemakeOK
<1>8. ASSUME NEW o \in Orders, stops[o] # NoStop
      PROVE  /\ trips'[stops[o].trip].rider = trips[stops[o].trip].rider
             /\ trips[stops[o].trip].status \in Active \/ Remakes(q, o) =>
                  trips'[stops[o].trip].status \in Active \/ Remakes(q, o)'
  <2>1. stops[o].trip \in DOMAIN trips
    BY <1>1, <1>8, StopTrip
  <2>2. CASE stops[o].trip = k.trip
    <3>1. o \in On(k.trip) /\ stops'[o].trip = k.trip
      BY <1>1, <2>2 DEF On
    <3>2. Remakes(q, o)'
      BY <1>1, <1>7, <3>1 DEF Remakes
    <3> QED
      BY <1>4, <2>1, <3>2
  <2>3. CASE stops[o].trip # k.trip
    <3>1. trips'[stops[o].trip] = trips[stops[o].trip]
      BY <1>4, <2>1, <2>3
    <3>2. k.do \notin {"revive", "catch", "create", "insert", "assign"}
      BY <1>1
    <3>3. Remakes(q, o) => Remakes(q, o)'
      BY <1>1, <1>6, <3>2, SameHands
    <3> QED
      BY <3>1, <3>3
  <2> QED
    BY <2>2, <2>3
<1>9. \A o \in Orders : HandsOver(q, o) => HandsOver(q, o)'
  <2>1. k.do \notin {"save", "drop"} \cup Placing
    BY <1>1 DEF Placing
  <2> QED
    BY <1>1, <1>6, <2>1, SameHands
<1>10. k.do \notin {"save", "drop", "point", "refresh"}
  BY <1>1
<1> QED
  BY <1>1, <1>6, <1>8, <1>9, <1>10, PlanQuiet

\* An error is caught where a catch stands.
LEMMA Rescued ==
  ASSUME TypeInv, NEW q \in Requests, Throw(q), NEW x \in Todo(q), x.do = "catch",
         \A y \in Todo(q) : y.do = "catch" => y = x
  PROVE  Todo(q)' = {TripTask("revive", x.trip)}
<1> DEFINE guards == {i \in DOMAIN work[q] : work[q][i].do = "catch"}
           n == Len(trips)
<1>1. PICK i \in DOMAIN work[q] : work[q][i] = x
  BY DEF Todo
<1>2. (CHOOSE j \in guards : TRUE) \in guards
  BY <1>1
<1>3. PICK j \in guards : work' = [work EXCEPT ![q] = <<TripTask("revive", work[q][j].trip)>>]
  BY <1>1, <1>2 DEF Throw
<1>4. work[q][j] \in Todo(q) /\ work[q][j].do = "catch"
  BY <1>3 DEF Todo
<1>5. work[q][j] = x
  BY <1>4
<1>6. work'[q] = <<TripTask("revive", x.trip)>>
  BY <1>3, <1>5 DEF TypeInv
<1> QED
  BY <1>6 DEF Todo

LEMMA CreatePlans == ASSUME NEW q \in Requests, PlanStep(q), CreateTrip(q) PROVE Books'
<1> SUFFICES ASSUME NEW k, k = Head(work[q]) PROVE Books'
  OBVIOUS
<1> DEFINE n == Len(trips)
           x == [k EXCEPT !.do = "insert"]
           ts == <<x>>
<1>1. /\ k.do = "create" /\ UNCHANGED <<rows, stops, trips, free>> /\ (Throw(q) \/ Then(q, ts))
      /\ Todo(q) = {k} \cup Later(q) /\ past' = past /\ q \in past.planners
      /\ \A z \in Later(q) : k.do \in Before(z.do) /\ PlanTask(q, z)
      /\ TypeInv /\ ListInv /\ Sound(q) /\ n \in Nat /\ k \in Tasks(n)
  BY PlanFrame, CreateShape DEF PlanStep, CreateTrip, Runs, db
<1>2. k \in [do : {"create"}, rider : Riders, orders : Seq(Orders)]
  BY <1>1, TaskFields
<1>3. \A z \in Later(q) : z.do = "catch"
  BY <1>1 DEF Before, Shared, Moving
<1>4. \A o : ~ HandsOver(q, o)
  BY <1>1, <1>3 DEF HandsOver, Placing
<1>5. k.do \notin {"save", "drop", "point", "refresh"}
  BY <1>1
<1>6. \A t : /\ TripTask("catch", t).do = "catch" /\ TripTask("revive", t).do = "revive"
             /\ TripTask("catch", t).trip = t
  BY DEF TripTask
<1>7. ASSUME NEW o \in Orders, Remakes(q, o)
      PROVE  /\ TripTask("catch", stops[o].trip) \in Later(q)
             /\ \E i \in DOMAIN k.orders : k.orders[i] = o
  <2>1. TripTask("revive", stops[o].trip) \notin Todo(q)
    BY <1>1, <1>3, <1>6
  <2>2. /\ TripTask("catch", stops[o].trip) \in Todo(q)
        /\ \E y \in Todo(q) : \/ y.do \in {"create", "insert"} /\ \E i \in DOMAIN y.orders : y.orders[i] = o
                              \/ y.do = "assign" /\ y.order = o
    BY <1>7, <2>1 DEF Remakes
  <2> QED
    BY <1>1, <1>3, <1>6, <2>2
<1>8. CASE Then(q, ts)
  <2>1. x.do = "insert" /\ x.orders = k.orders /\ x \in Tasks(n)
    <3>1. x \in [do : {"insert"}, rider : Riders, orders : Seq(Orders)]
      BY <1>2
    <3>2. x \in Tasks(n)
      BY <3>1 DEF Tasks, OtherTasks
    <3> QED
      BY <1>2, <3>2
  <2> HIDE DEF x
  <2>2. ts \in Seq(Tasks(Len(trips'))) /\ Elems(ts) = {x}
    BY <1>1, <2>1, ShortLists
  <2>3. Then(q, ts)
    BY <1>8
  <2> HIDE DEF ts
  <2>4. Todo(q)' = {x} \cup Later(q)
    BY <1>1, <2>2, <2>3, Moved
  <2>5. \A o \in Orders : Remakes(q, o) => Remakes(q, o)'
    BY <1>1, <1>7, <2>1, <2>4 DEF Remakes
  <2>6. PlanTask(q, x)' /\ TaskOK(x)'
    BY <2>1 DEF PlanTask, TaskOK, Placing
  <2> QED
    BY <1>1, <1>4, <1>5, <2>4, <2>5, <2>6, PlanQuiet
<1>9. CASE Throw(q)
  <2>1. CASE Later(q) = {}
    <3>1. Todo(q)' = {}
      BY <1>1, <1>9, <2>1, Ended
    <3>2. \A o \in Orders : ~ Remakes(q, o)
      BY <1>7, <2>1
    <3> QED
      BY <1>1, <1>4, <1>5, <2>1, <3>1, <3>2, PlanQuiet
  <2>2. ASSUME NEW z \in Later(q) PROVE Books'
    <3>1. \A y \in Todo(q) : y.do = "catch" => y = z
      BY <1>1, <1>3, <2>2 DEF PlanTask
    <3>2. Todo(q)' = {TripTask("revive", z.trip)}
      BY <1>1, <1>3, <1>9, <2>2, <3>1, Rescued
    <3>3. ASSUME NEW o \in Orders, Remakes(q, o) PROVE Remakes(q, o)'
      <4>1. TripTask("catch", stops[o].trip) = z
        BY <1>6, <1>7, <3>1, <3>3, <1>1
      <4>2. z.trip = stops'[o].trip
        BY <1>1, <1>6, <4>1
      <4> QED
        BY <1>1, <3>2, <4>2 DEF Remakes
    <3>4. \A y \in Todo(q)' : y.do = "revive" /\ y \notin Later(q)
      BY <1>3, <1>6, <3>2
    <3>5. \A y \in Todo(q)' : PlanTask(q, y)' /\ TaskOK(y)'
      BY <3>4 DEF PlanTask, TaskOK, Placing
    <3> QED
      BY <1>1, <1>3, <1>4, <1>5, <3>3, <3>4, <3>5, PlanQuiet
  <2> QED
    BY <2>1, <2>2
<1> QED
  BY <1>1, <1>8, <1>9

LEMMA InsertPlans == ASSUME NEW q \in Requests, PlanStep(q), InsertTrip(q) PROVE Books'
<1> SUFFICES ASSUME NEW k, k = Head(work[q]), NEW n, n = Len(trips) PROVE Books'
  OBVIOUS
<1> DEFINE ts == [i \in DOMAIN k.orders |-> Task("assign", k.orders[i], k.rider, n + 1)]
<1>0. Sound(q) /\ TypeInv
  BY InsertShape DEF PlanStep
<1>1. /\ k.do = "insert" /\ UNCHANGED <<rows, stops, free>>
      /\ Todo(q) = {k} \cup Later(q) /\ past' = past /\ q \in past.planners
      /\ \A z \in Later(q) : k.do \in Before(z.do)
      /\ ListInv
  BY <1>0, PlanFrame DEF PlanStep, InsertTrip, Runs
<1>2. /\ ts \in Seq(Tasks(Len(trips'))) /\ Then(q, ts)
      /\ \A x \in Elems(ts) : x.do = "assign"
      /\ \A t \in DOMAIN trips : trips'[t] = trips[t]
  BY <1>0, InsertList, Zenon
<1>3. \A i \in DOMAIN k.orders : \E x \in Elems(ts) : x.do = "assign" /\ x.order = k.orders[i]
  <2> SUFFICES ASSUME NEW i \in DOMAIN k.orders PROVE \E x \in Elems(ts) : x.do = "assign" /\ x.order = k.orders[i]
    OBVIOUS
  <2>1. ts[i] = Task("assign", k.orders[i], k.rider, n + 1) /\ ts[i] \in Elems(ts)
    BY DEF Elems
  <2>2. ts[i].do = "assign" /\ ts[i].order = k.orders[i]
    BY <2>1 DEF Task
  <2> QED
    BY <2>1, <2>2
<1> HIDE DEF ts
<1>4. Todo(q)' = Elems(ts) \cup Later(q)
  BY <1>0, <1>1, <1>2, Moved
<1>5. \A z \in Later(q) : z.do = "catch"
  BY <1>1 DEF Before, Shared, Moving
<1>6. \A o : ~ HandsOver(q, o)
  BY <1>1, <1>5 DEF HandsOver, Placing
<1>7. k.do \notin {"save", "drop", "point", "refresh"}
  BY <1>1
<1>8. \A t : /\ TripTask("catch", t).do = "catch" /\ TripTask("revive", t).do = "revive"
             /\ TripTask("catch", t).trip = t
  BY DEF TripTask
<1>9. ASSUME NEW o \in Orders, Remakes(q, o) PROVE Remakes(q, o)'
  <2>1. TripTask("revive", stops[o].trip) \notin Todo(q)
    BY <1>1, <1>5, <1>8
  <2>2. /\ TripTask("catch", stops[o].trip) \in Todo(q)
        /\ \E y \in Todo(q) : \/ y.do \in {"create", "insert"} /\ \E i \in DOMAIN y.orders : y.orders[i] = o
                              \/ y.do = "assign" /\ y.order = o
    BY <1>9, <2>1 DEF Remakes
  <2>3. TripTask("catch", stops[o].trip) \in Later(q) /\ \E i \in DOMAIN k.orders : k.orders[i] = o
    BY <1>1, <1>5, <1>8, <2>2
  <2>4. PICK x \in Elems(ts) : x.do = "assign" /\ x.order = o
    BY <1>3, <2>3
  <2> QED
    BY <1>1, <1>4, <2>3, <2>4 DEF Remakes
<1>10. ASSUME NEW o \in Orders, stops[o] # NoStop PROVE trips'[stops[o].trip] = trips[stops[o].trip]
  BY <1>0, <1>2, <1>10, StopTrip
<1>11. \A x \in Elems(ts) : PlanTask(q, x)' /\ TaskOK(x)'
  BY <1>2 DEF PlanTask, TaskOK, Placing
<1> QED
  BY <1>1, <1>4, <1>6, <1>7, <1>9, <1>10, <1>11, PlanQuiet

LEMMA AddPlans == ASSUME NEW q \in Requests, PlanStep(q), AddToTrip(q) PROVE Books'
<1> SUFFICES ASSUME NEW k, k = Head(work[q]) PROVE Books'
  OBVIOUS
<1> DEFINE n == Len(trips)
           a == TripTask("cancel", k.trip)
           b(ids) == CreateTask("create", k.rider, ids)
           c == TripTask("catch", k.trip)
<1>0. Sound(q) /\ TypeInv
  BY AddShape DEF PlanStep
<1>1. /\ k.do = "add" /\ UNCHANGED <<rows, stops, trips, free>>
      /\ Todo(q) = {k} \cup Later(q) /\ past' = past /\ q \in past.planners
      /\ \A z \in Later(q) : k.do \in Before(z.do)
      /\ ListInv /\ n \in Nat
  BY <1>0, PlanFrame DEF PlanStep, AddToTrip, Runs, db
<1>2. /\ k.order \in Orders
      /\ \/ Throw(q)
         \/ \E ids \in Listed(On(k.trip) \cup {k.order}), ts \in Seq(Tasks(n)) :
              Then(q, ts) /\ Elems(ts) = {a, b(ids), c}
  BY <1>0, AddList, Zenon
<1>3. Later(q) = {} /\ Todo(q) = {k}
  BY <1>1 DEF Before, Shared, Moving
<1>4. \A o : ~ HandsOver(q, o) /\ ~ Remakes(q, o)
  BY <1>1, <1>3 DEF HandsOver, Placing, Remakes, TripTask
<1>5. k.do \notin {"save", "drop", "point", "refresh"}
  BY <1>1
<1>6. CASE Throw(q)
  <2>1. Todo(q)' = {}
    BY <1>0, <1>1, <1>3, <1>6, Ended
  <2> QED
    BY <1>1, <1>3, <1>4, <1>5, <2>1, PlanQuiet
<1>7. ASSUME NEW ids \in Listed(On(k.trip) \cup {k.order}), NEW ts \in Seq(Tasks(n)),
             Then(q, ts), Elems(ts) = {a, b(ids), c}
      PROVE  Books'
  <2>1. ts \in Seq(Tasks(Len(trips')))
    BY <1>1
  <2>2. Todo(q)' = {a, b(ids), c}
    <3>1. Todo(q)' = Elems(ts) \cup Later(q)
      BY <1>0, <1>1, <1>7, <2>1, Moved
    <3> QED
      BY <1>3, <1>7, <3>1
  <2>3. \A o \in On(k.trip) : \E i \in DOMAIN ids : ids[i] = o
    <3>1. PICK S : S = On(k.trip) \cup {k.order}
      OBVIOUS
    <3>2. S \in SUBSET Orders /\ ids \in Listed(S)
      BY <1>2, <1>7, <3>1 DEF On
    <3>3. \A o \in S : \E i \in DOMAIN ids : ids[i] = o
      BY <3>2, ListedIs
    <3> QED
      BY <3>1, <3>3
  <2>4. On(k.trip)' = On(k.trip)
    BY <1>1 DEF On
  <2>5. /\ a.do = "cancel" /\ a.trip = k.trip /\ b(ids).do = "create" /\ b(ids).orders = ids
        /\ c.do = "catch" /\ c.trip = k.trip
    BY DEF TripTask, CreateTask
  <2>6. PICK x, y, z : x = a /\ y = b(ids) /\ z = c
    OBVIOUS
  <2>7. /\ x.do = "cancel" /\ x.trip = k.trip /\ y.do = "create" /\ y.orders = ids
        /\ z.do = "catch" /\ z = TripTask("catch", x.trip) /\ Todo(q)' = {x, y, z}
    BY <2>2, <2>5, <2>6, Zenon
  <2>8. RemakeOK(q, x)'
    BY <2>3, <2>4, <2>7 DEF RemakeOK
  <2>9. \A w \in Todo(q)' : PlanTask(q, w)' /\ TaskOK(w)'
    BY <2>7, <2>8 DEF PlanTask, TaskOK, Placing
  <2> QED
    BY <1>1, <1>3, <1>4, <1>5, <2>9, PlanQuiet
<1> QED
  BY <1>2, <1>6, <1>7

\* The lists, if the one of the request is in order.
LEMMA PlanLists ==
  ASSUME NEW q \in Requests, PlanStep(q), \A x \in Todo(q)' : PlanTask(q, x)' /\ TaskOK(x)'
  PROVE  TasksOK' /\ ListsOK'
<1>1. /\ past' = past /\ q \in past.planners
      /\ \A p \in Requests \ {q} : Todo(p)' = {}
  BY PlanFrame DEF PlanStep
<1>2. TasksOK'
  <2>1. \A p \in Requests : \A x \in Todo(p)' : TaskOK(x)'
    BY <1>1
  <2> QED
    BY <2>1 DEF TasksOK
<1>3. ListsOK'
  <2>1. PlansOK(q)'
    BY DEF PlansOK
  <2>2. ASSUME NEW p \in Requests \ {q}
        PROVE  IF p \in past.planners THEN PlansOK(p)' ELSE MoveOK(p)'
    BY <1>1 DEF PlansOK, MoveOK, Saves
  <2> QED
    BY <1>1, <2>1, <2>2 DEF ListsOK
<1> QED
  BY <1>2, <1>3

\* An order that such a step leaves alone, on trips that stay.
LEMMA PlanStays ==
  ASSUME NEW q \in Requests, PlanStep(q), NEW k, k = Head(work[q]), UNCHANGED trips,
         NEW o \in Orders, stops'[o] = stops[o], rows'[o] = rows[o],
         Later(q) \subseteq Todo(q)',
         k.do \in {"save", "drop", "point"} \cup Placing => k.order # o,
         k.do \notin {"revive", "catch", "create", "insert", "assign"}
  PROVE  Delivered(o)' /\ Pointed(o)' /\ Served(o)' /\ Rides(o)'
<1>1. Delivered(o)' /\ Pointed(o)' /\ Served(o)'
  BY PlanOrder
<1>2. (HandsOver(q, o) => HandsOver(q, o)') /\ (Remakes(q, o) => Remakes(q, o)')
  BY SameHands
<1>3. Rides(o)'
  BY <1>2, PlanRides
<1> QED
  BY <1>1, <1>3

LEMMA PointPlans == ASSUME NEW q \in Requests, PlanStep(q), Point(q) PROVE Books'
<1> SUFFICES ASSUME NEW k, k = Head(work[q]), NEW o, o = k.order PROVE Books'
  OBVIOUS
<1> DEFINE n == Len(trips)
           ts == <<>>
<1>1. /\ k.do = "point" /\ UNCHANGED <<stops, trips, free>> /\ Then(q, ts)
      /\ Todo(q) = {k} \cup Later(q) /\ past' = past /\ q \in past.planners /\ k \in Todo(q)
      /\ \A p \in Requests \ {q} : Todo(p) = {}
      /\ \A x \in Todo(q) : x.do \in Planning \cup Shared
      /\ TypeInv /\ ListInv /\ Sound(q) /\ n \in Nat /\ k \in Tasks(n)
      /\ rows' = [rows EXCEPT ![o].trip = k.trip]
  BY PlanFrame, PointShape DEF PlanStep, Point, Runs
<1>2. o \in Orders
  BY <1>1, TaskFields
<1>3. /\ \A u \in Orders : rows'[u].status = rows[u].status /\ rows'[u].carrier = rows[u].carrier
      /\ \A u \in Orders \ {o} : rows'[u] = rows[u]
      /\ rows'[o].trip = k.trip
  BY <1>1, <1>2 DEF TypeInv, DbType, RowType
<1>4. ts \in Seq(Tasks(Len(trips'))) /\ Elems(ts) = {}
  BY <1>1, ShortLists
<1> HIDE DEF ts
<1>5. Todo(q)' = Later(q)
  <2>1. Todo(q)' = Elems(ts) \cup Later(q)
    BY <1>1, <1>4, Moved
  <2> QED
    BY <1>4, <2>1
<1>6. stops[o].trip = k.trip /\ \A x \in Todo(q) : TaskOK(x)
  BY <1>1 DEF PlanStep, Books, TasksOK, TaskOK
<1>7. k.do \notin {"revive", "catch", "create", "insert", "assign"} /\ k.do \notin {"save", "drop"} \cup Placing
  BY <1>1 DEF Placing
<1>8. OrdersOK'
  <2> SUFFICES ASSUME NEW u \in Orders PROVE Delivered(u)' /\ Pointed(u)' /\ Served(u)' /\ Rides(u)'
    BY Zenon DEF OrdersOK
  <2>1. CASE u # o
    BY <1>1, <1>3, <1>5, <1>7, <2>1, PlanStays
  <2>2. CASE u = o
    <3>1. Delivered(u) /\ Served(u)
      BY Zenon DEF PlanStep, Books, OrdersOK
    <3>2. Delivered(u)'
      BY <1>1, <1>3, <3>1, Zenon DEF Delivered
    <3>3. Pointed(u)'
      BY <1>1, <1>3, <1>6, <2>2 DEF Pointed
    <3>4. Served(u)'
      <4> SUFFICES ASSUME stops[u] # NoStop, ~ stops[u].dropped, rows[u].status \in Terminal
                   PROVE  Served(u)'
        BY <1>1, <1>3 DEF Served, NoStop
      <4>1. PICK p \in Requests : \E x \in Todo(p) :
              /\ x.order = u
              /\ \/ x.do = "deliver" /\ rows[u].status = "delivered"
                 \/ x.do = "drop" /\ rows[u].status = "cancelled"
        BY <3>1 DEF Served
      <4>2. PICK x \in Todo(p) :
              /\ x.order = u
              /\ \/ x.do = "deliver" /\ rows[u].status = "delivered"
                 \/ x.do = "drop" /\ rows[u].status = "cancelled"
        BY <4>1
      <4>3. p = q /\ x \in Todo(p)'
        BY <1>1, <1>5, <4>2
      <4> QED
        BY <1>3, <4>2, <4>3, Zenon DEF Served
    <3>5. (HandsOver(q, u) => HandsOver(q, u)') /\ (Remakes(q, u) => Remakes(q, u)')
      BY <1>1, <1>5, <1>7, SameHands, Zenon
    <3>6. Rides(u)'
      BY <1>1, <1>3, <3>5, PlanRides, Zenon
    <3> QED
      BY <3>2, <3>3, <3>4, <3>6
  <2> QED
    BY <2>1, <2>2
<1>9. RidersOK'
  <2>1. k.do # "refresh"
    BY <1>1
  <2> QED
    BY <1>1, <1>3, <1>5, <2>1, PlanRiders
<1>10. \A x \in Todo(q)' : PlanTask(q, x)' /\ TaskOK(x)'
  <2> SUFFICES ASSUME NEW x \in Later(q) PROVE PlanTask(q, x)' /\ TaskOK(x)'
    BY <1>5, Zenon
  <2>1. PlanTask(q, x)'
    BY <1>1, <1>3, <1>5, <1>7, PlanLater
  <2>2. \A t : Undropped(t)' = Undropped(t)
    BY <1>1 DEF Undropped, On
  <2>3. TaskOK(x)'
    BY <1>1, <1>6, <2>2 DEF TaskOK
  <2> QED
    BY <2>1, <2>3
<1> QED
  BY <1>8, <1>9, <1>10, PlanLists DEF Books

LEMMA DropPlans == ASSUME NEW q \in Requests, PlanStep(q), Drop(q) PROVE Books'
<1> DEFINE h == Head(work[q]).order
<1>0. \E ts \in Seq(Tasks(Len(trips))) :
        /\ Then(q, ts)
        /\ Elems(ts) = {Task("point", h, "nobody", 0)}
                         \cup (IF stops[h] = NoStop THEN {} ELSE {TripTask("settle", stops[h].trip)})
  BY DropList DEF PlanStep
<1> SUFFICES ASSUME NEW k, k = Head(work[q]), NEW o, o = k.order PROVE Books'
  OBVIOUS
<1> DEFINE n == Len(trips)
           a == Task("point", o, "nobody", 0)
           b == TripTask("settle", stops[o].trip)
<1>1. /\ k.do = "drop" /\ UNCHANGED <<rows, trips, free>>
      /\ Todo(q) = {k} \cup Later(q) /\ past' = past /\ q \in past.planners /\ k \in Todo(q)
      /\ \A x \in Later(q) : k.do \in Before(x.do)
      /\ \A x \in Todo(q) : x.do \in Planning \cup Shared
      /\ \A x \in Todo(q) : PlanTask(q, x) /\ x \in Tasks(n)
      /\ TypeInv /\ ListInv /\ Sound(q) /\ n \in Nat
  BY PlanFrame, DropShape DEF PlanStep, Drop, Runs
<1>2. PICK ts \in Seq(Tasks(n)) :
        Then(q, ts) /\ Elems(ts) = {a} \cup (IF stops[o] = NoStop THEN {} ELSE {b})
  BY <1>0
<1>3. o \in Orders /\ stops'[o] = NoStop /\ \A u \in Orders \ {o} : stops'[u] = stops[u]
  BY <1>1, DropList
<1>4. Todo(q)' = Elems(ts) \cup Later(q)
  BY <1>1, <1>2, Moved
<1>5. a.do = "point" /\ a.order = o /\ a.trip = 0 /\ b.do = "settle"
  BY DEF Task, TripTask
<1> HIDE DEF a, b
<1>6. \A x \in Later(q) : x.do \in {"pick", "save", "assign", "refresh", "catch"}
  BY <1>1 DEF Before, Planning, Shared
<1>7. NoStop.trip = 0 /\ ~ NoStop.dropped /\ NoStop' = NoStop
  BY DEF NoStop
<1>8. k.do \notin {"revive", "catch", "create", "insert", "assign"} /\ k.do \notin {"save", "point"} \cup Placing
  BY <1>1 DEF Placing
<1>9. OrdersOK'
  <2> SUFFICES ASSUME NEW u \in Orders PROVE Delivered(u)' /\ Pointed(u)' /\ Served(u)' /\ Rides(u)'
    BY DEF OrdersOK
  <2>1. CASE u # o
    BY <1>1, <1>3, <1>4, <1>8, <2>1, PlanStays
  <2>2. CASE u = o
    <3>1. Delivered(u)' /\ Served(u)'
      BY <1>3, <1>7, <2>2 DEF Delivered, Served
    <3>2. Pointed(u)'
      BY <1>1, <1>2, <1>4, <1>5, <2>2 DEF Pointed
    <3>3. LeaveOK(q, k)
      BY <1>1 DEF PlanTask
    <3>4. ASSUME rows[o].carrier \notin Riders PROVE Rides(u)'
      <4>1. Plain(u)'
        BY <1>1, <1>3, <1>7, <2>2, <3>4 DEF Plain
      <4> QED
        BY <4>1 DEF Rides
    <3>5. ASSUME NEW y \in Todo(q), y.do \in {"save"} \cup Placing, y.order = o PROVE Rides(u)'
      <4>1. y \in Todo(q)'
        BY <1>1, <1>4, <1>8, <3>5
      <4>2. HandsOver(q, u)'
        BY <1>1, <2>2, <3>5, <4>1 DEF HandsOver
      <4> QED
        BY <4>2 DEF Rides
    <3> QED
      BY <3>1, <3>2, <3>3, <3>4, <3>5 DEF LeaveOK
  <2> QED
    BY <2>1, <2>2
<1>10. RidersOK'
  <2>1. k.do # "refresh"
    BY <1>1
  <2> QED
    BY <1>1, <1>4, <2>1, PlanRiders
<1>11. \A x \in Todo(q)' : PlanTask(q, x)' /\ TaskOK(x)'
  <2>1. \A x : x = a \/ x = b => PlanTask(q, x)' /\ TaskOK(x)'
    BY <1>3, <1>5, <1>7 DEF PlanTask, TaskOK, Placing
  <2>2. \A y \in Todo(q)' : y.do \in {"save", "catch"} \cup Placing => y \in Todo(q)
    BY <1>1, <1>2, <1>4, <1>5 DEF Placing
  <2>3. \A y \in Todo(q) : y # k => y \in Todo(q)'
    BY <1>1, <1>4
  <2>4. /\ \A r : RefreshTask(r).do = "refresh"
        /\ \A u : DropTask(u).do = "drop" /\ DropTask(u).order = u
    BY DEF RefreshTask, DropTask
  <2>5. ASSUME NEW x \in Later(q) PROVE PlanTask(q, x)' /\ TaskOK(x)'
    <3>1. x \in Todo(q) /\ PlanTask(q, x) /\ x \in Tasks(n)
      BY <1>1
    <3>2. x.do \in {"pick", "save", "assign", "refresh", "catch"}
      BY <1>6
    <3>3. ASSUME x.do = "save" PROVE TakeOK(q, x)'
      <4>1. x.order \in Orders
        BY <1>1, <3>1, <3>3, TaskFields
      <4>2. TakeOK(q, x)
        BY <3>1, <3>3 DEF PlanTask
      <4>3. x.row.carrier \notin Riders /\ x.row.trip = 0
        BY <1>1, <4>2 DEF TakeOK
      <4>4. rows[x.order].carrier \in Riders => RefreshTask(rows[x.order].carrier) \in Todo(q)'
        BY <1>1, <2>3, <2>4, <4>2 DEF TakeOK
      <4>5. CASE x.order = o
        BY <1>1, <1>3, <1>7, <4>3, <4>4, <4>5 DEF TakeOK
      <4>6. CASE x.order # o
        <5>1. DropTask(x.order) \in Todo(q) => DropTask(x.order) \in Todo(q)'
          BY <2>3, <2>4, <4>6
        <5>2. stops'[x.order] = stops[x.order]
          BY <1>3, <4>1, <4>6
        <5>3. DropTask(x.order) \in Todo(q)' \/ x.row.trip = stops'[x.order].trip
          BY <4>2, <5>1, <5>2 DEF TakeOK
        <5>4. \/ \E y \in Todo(q)' : y.do \in Placing /\ y.order = x.order /\ y.rider = x.row.carrier
              \/ DropTask(x.order) \in Todo(q)' \/ stops'[x.order] = NoStop'
          BY <1>7, <1>8, <2>3, <4>2, <5>1, <5>2 DEF TakeOK
        <5> QED
          BY <1>1, <4>3, <4>4, <5>3, <5>4 DEF TakeOK
      <4> QED
        BY <4>5, <4>6
    <3>4. ASSUME x.do = "pick" PROVE GiveOK(q, x)'
      <4>1. GiveOK(q, x)
        BY <3>1, <3>4 DEF PlanTask, Placing
      <4>2. SavesOf(q, x.order)' = SavesOf(q, x.order)
        BY <1>8, <2>2, <2>3 DEF SavesOf
      <4> QED
        BY <1>1, <4>1, <4>2 DEF GiveOK
    <3>5. x.do = "catch" => \A y \in Todo(q)' : y.do = "catch" => y = x
      BY <2>2, <3>1 DEF PlanTask
    <3>6. PlanTask(q, x)'
      BY <3>2, <3>3, <3>4, <3>5 DEF PlanTask, Placing
    <3>7. TaskOK(x)'
      BY <3>2 DEF TaskOK
    <3> QED
      BY <3>6, <3>7
  <2> QED
    BY <1>2, <1>4, <2>1, <2>5
<1> QED
  BY <1>9, <1>10, <1>11, PlanLists DEF Books

LEMMA PlacePlans == ASSUME NEW q \in Requests, PlanStep(q), Place(q) PROVE Books'
<1> SUFFICES ASSUME NEW k, k = Head(work[q]), NEW o, o = k.order PROVE Books'
  OBVIOUS
<1> DEFINE n == Len(trips)
<1>1. /\ k.do = "place" /\ UNCHANGED <<rows, trips, free>>
      /\ Todo(q) = {k} \cup Later(q) /\ past' = past /\ q \in past.planners /\ k \in Todo(q)
      /\ \A x \in Later(q) : k.do \in Before(x.do)
      /\ \A x \in Todo(q) : x.do \in Planning \cup Shared
      /\ \A x \in Todo(q) : PlanTask(q, x) /\ x \in Tasks(n)
      /\ TypeInv /\ ListInv /\ Sound(q) /\ n \in Nat /\ PlanOK(q)
  BY PlanFrame, PlaceShape DEF PlanStep, Place, Runs
<1>2. k \in [do : {"place"}, order : Orders, rider : Riders, trip : 1 .. n]
  BY <1>1, TaskFields
<1>3. stops[o] = NoStop
  <2>1. k.do \in Placing
    BY <1>1 DEF Placing
  <2> QED
    BY <1>1, <2>1, TakenAlone
<1>4. stops' = [stops EXCEPT ![o].trip = k.trip] /\ Then(q, <<[k EXCEPT !.do = "point"]>>)
  BY <1>3 DEF Place
<1>5. PICK y : y = [k EXCEPT !.do = "point"]
  OBVIOUS
<1>6. y.do = "point" /\ y.order = o /\ y.trip = k.trip /\ y \in Tasks(n)
  <2>1. y \in [do : {"point"}, order : Orders, rider : Carriers, trip : 0 .. n]
    BY <1>1, <1>2, <1>5 DEF Carriers
  <2>2. y \in Tasks(n)
    BY <2>1 DEF Tasks, OrderTasks
  <2> QED
    BY <1>2, <1>5, <2>2
<1> DEFINE ts == <<y>>
<1>7. ts \in Seq(Tasks(Len(trips'))) /\ Elems(ts) = {y}
  BY <1>1, <1>6, ShortLists
<1>8. Then(q, ts)
  BY <1>4, <1>5
<1> HIDE DEF ts
<1>9. Todo(q)' = {y} \cup Later(q)
  BY <1>1, <1>7, <1>8, Moved
<1>10. /\ o \in Orders /\ k.trip \in 1 .. n
       /\ stops'[o].trip = k.trip /\ stops'[o].dropped = FALSE /\ stops'[o] # NoStop'
       /\ \A u \in Orders \ {o} : stops'[u] = stops[u]
  <2>1. o \in Orders /\ k.trip \in 1 .. n
    BY <1>2
  <2>2. stops \in [Orders -> [trip : 0 .. n, dropped : BOOLEAN]] /\ stops[o].dropped = FALSE
    BY <1>1, <1>3 DEF TypeInv, DbType, NoStop
  <2> QED
    BY <1>4, <2>1, <2>2 DEF NoStop
<1>11. \A x \in Later(q) : x.do \in {"assign", "refresh", "catch"}
  BY <1>1 DEF Before, Planning, Shared
<1>12. k.do \notin {"revive", "catch", "create", "insert", "assign", "refresh"}
  BY <1>1
<1>13. rows[o].status \notin Terminal /\ rows[o].carrier = k.rider
       /\ trips[k.trip].rider = k.rider /\ trips[k.trip].status = "planned"
  <2>1. GiveOK(q, k) /\ trips[k.trip].rider = k.rider /\ trips[k.trip].status = "planned"
    BY <1>1 DEF PlanTask, Placing
  <2>2. SavesOf(q, k.order) = {}
    BY <1>1, <1>11 DEF SavesOf
  <2> QED
    BY <2>1, <2>2 DEF GiveOK
<1>14. OrdersOK'
  <2> SUFFICES ASSUME NEW u \in Orders PROVE Delivered(u)' /\ Pointed(u)' /\ Served(u)' /\ Rides(u)'
    BY DEF OrdersOK
  <2>1. CASE u # o
    BY <1>1, <1>9, <1>10, <1>12, <2>1, PlanStays
  <2>2. CASE u = o
    <3>1. Delivered(u)' /\ Served(u)'
      BY <1>1, <1>10, <1>13, <2>2 DEF Delivered, Served
    <3>2. Pointed(u)'
      BY <1>1, <1>6, <1>9, <2>2 DEF Pointed
    <3>3. Plain(u)'
      BY <1>1, <1>10, <1>13, <2>2 DEF Plain, Active
    <3> QED
      BY <3>1, <3>2, <3>3, Zenon DEF Rides
  <2> QED
    BY <2>1, <2>2
<1>15. RidersOK'
  BY <1>1, <1>9, <1>12, PlanRiders
<1>16. \A x \in Todo(q)' : PlanTask(q, x)' /\ TaskOK(x)'
  <2>1. PlanTask(q, y)' /\ TaskOK(y)'
    BY <1>6, <1>10 DEF PlanTask, TaskOK, Placing
  <2>2. ASSUME NEW x \in Later(q) PROVE PlanTask(q, x)' /\ TaskOK(x)'
    <3>1. PlanTask(q, x) /\ x.do \in {"assign", "refresh", "catch"}
      BY <1>1, <1>11
    <3>2. x.do = "catch" => \A z \in Todo(q)' : z.do = "catch" => z = x
      BY <1>1, <1>6, <1>9, <3>1 DEF PlanTask
    <3> QED
      BY <3>1, <3>2 DEF PlanTask, TaskOK, Placing
  <2> QED
    BY <1>9, <2>1, <2>2
<1> QED
  BY <1>14, <1>15, <1>16, PlanLists DEF Books

LEMMA SavePlans == ASSUME NEW q \in Requests, PlanStep(q), Save(q) PROVE Books'
<1> SUFFICES ASSUME NEW k, k = Head(work[q]), NEW o, o = k.order PROVE Books'
  OBVIOUS
<1> DEFINE n == Len(trips)
           ts == <<>>
<1>1. /\ k.do = "save" /\ UNCHANGED <<stops, trips, free>>
      /\ Todo(q) = {k} \cup Later(q) /\ past' = past /\ q \in past.planners /\ k \in Todo(q)
      /\ \A p \in Requests \ {q} : Todo(p) = {}
      /\ \A x \in Later(q) : k.do \in Before(x.do)
      /\ \A x \in Todo(q) : x.do \in Planning \cup Shared
      /\ \A x \in Todo(q) : PlanTask(q, x) /\ x \in Tasks(n)
      /\ TypeInv /\ ListInv /\ Sound(q) /\ n \in Nat /\ PlanOK(q)
  BY PlanFrame, SaveShape DEF PlanStep, Save, Runs
<1>2. o \in Orders
  BY <1>1, TaskFields
<1>3. k.row.status \notin Terminal /\ rows[o].status \notin Terminal
  BY <1>1 DEF PlanOK, Fits
<1>4. rows' = [rows EXCEPT ![o] = k.row] /\ Then(q, ts)
  BY <1>3 DEF Save
<1>5. rows'[o] = k.row /\ \A u \in Orders \ {o} : rows'[u] = rows[u]
  BY <1>1, <1>2, <1>4 DEF TypeInv, DbType
<1>6. ts \in Seq(Tasks(Len(trips'))) /\ Elems(ts) = {}
  BY <1>1, ShortLists
<1> HIDE DEF ts
<1>7. Todo(q)' = Later(q)
  <2>1. Todo(q)' = Elems(ts) \cup Later(q)
    BY <1>1, <1>4, <1>6, Moved
  <2> QED
    BY <1>6, <2>1
<1>8. \A x \in Later(q) : x.do \in {"pick", "drop", "assign", "refresh", "catch"}
  BY <1>1 DEF Before, Planning, Shared
<1>9. k.do \notin {"revive", "catch", "create", "insert", "assign", "refresh", "drop", "point"} \cup Placing
  BY <1>1 DEF Placing
<1>10. TakeOK(q, k)
  BY <1>1 DEF PlanTask
<1>11. /\ \A r : RefreshTask(r).do = "refresh" /\ RefreshTask(r).rider = r
       /\ \A u : DropTask(u).do = "drop" /\ DropTask(u).order = u
  BY DEF RefreshTask, DropTask
<1>12. \A x \in Todo(q) : x.do # "save" => x \in Todo(q)'
  BY <1>1, <1>7
<1>13. \/ \E y \in Todo(q)' : y.do \in Placing /\ y.order = o /\ y.rider = k.row.carrier
       \/ k.row.carrier \notin Riders /\ (DropTask(o) \in Todo(q)' \/ stops[o] = NoStop)
  <2>1. CASE \E y \in Todo(q) : y.do \in Placing /\ y.order = o /\ y.rider = k.row.carrier
    BY <1>12, <2>1 DEF Placing
  <2>2. CASE k.row.carrier \notin Riders /\ (DropTask(o) \in Todo(q) \/ stops[o] = NoStop)
    BY <1>11, <1>12, <2>2
  <2> QED
    BY <1>10, <2>1, <2>2 DEF TakeOK
<1>14. OrdersOK'
  <2> SUFFICES ASSUME NEW u \in Orders PROVE Delivered(u)' /\ Pointed(u)' /\ Served(u)' /\ Rides(u)'
    BY DEF OrdersOK
  <2>1. CASE u # o
    BY <1>1, <1>5, <1>7, <1>9, <2>1, PlanStays
  <2>2. CASE u = o
    <3>1. Delivered(u) /\ NoStop' = NoStop
      BY DEF PlanStep, Books, OrdersOK, NoStop
    <3>2. Delivered(u)'
      BY <1>1, <1>3, <2>2, <3>1 DEF Delivered, Terminal
    <3>3. Served(u)'
      BY <1>3, <1>5, <2>2 DEF Served
    <3>4. Pointed(u)'
      <4>1. CASE DropTask(o) \in Todo(q)
        <5>1. DropTask(o) \in Todo(q)'
          BY <1>11, <1>12, <4>1
        <5> QED
          BY <1>1, <1>11, <2>2, <5>1 DEF Pointed
      <4>2. CASE k.row.trip = stops[o].trip
        BY <1>1, <1>5, <2>2, <4>2 DEF Pointed
      <4> QED
        BY <1>1, <1>10, <4>1, <4>2 DEF TakeOK
    <3>5. Rides(u)'
      <4>1. CASE k.row.carrier \notin Riders /\ stops[o] = NoStop
        <5>1. Plain(u)'
          BY <1>1, <1>5, <2>2, <3>1, <4>1 DEF Plain
        <5> QED
          BY <5>1 DEF Rides
      <4>2. CASE DropTask(o) \in Todo(q)'
        <5>1. HandsOver(q, u)'
          BY <1>1, <1>11, <2>2, <4>2 DEF HandsOver
        <5> QED
          BY <5>1 DEF Rides
      <4>3. ASSUME NEW y \in Todo(q)', y.do \in Placing, y.order = o PROVE Rides(u)'
        <5>1. HandsOver(q, u)'
          BY <1>1, <2>2, <4>3 DEF HandsOver
        <5> QED
          BY <5>1 DEF Rides
      <4> QED
        BY <1>13, <4>1, <4>2, <4>3
    <3> QED
      BY <3>2, <3>3, <3>4, <3>5
  <2> QED
    BY <2>1, <2>2
<1>15. RidersOK'
  <2> SUFFICES ASSUME NEW r \in Riders, ~ free[r], ~ Loaded(r)' PROVE \E p \in Requests : Minds(p, r)'
    BY <1>1 DEF RidersOK
  <2>1. CASE rows[o].carrier = r
    <3>1. RefreshTask(r) \in Todo(q)
      BY <1>1, <1>10, <2>1 DEF TakeOK
    <3>2. RefreshTask(r) \in Todo(q)'
      BY <1>11, <1>12, <3>1
    <3> QED
      BY <1>1, <1>11, <3>2 DEF Minds
  <2>2. CASE rows[o].carrier # r
    <3>1. ~ Loaded(r)
      BY <1>1, <1>5, <2>2 DEF Loaded
    <3>2. PICK p \in Requests : Minds(p, r)
      BY <3>1 DEF PlanStep, Books, RidersOK
    <3>3. p = q
      BY <1>1, <3>2 DEF Minds
    <3>4. PICK x \in Todo(q) : x.do = "refresh" /\ x.rider = r
      BY <1>1, <3>2, <3>3 DEF Minds, Planning, Shared
    <3>5. x \in Todo(q)'
      BY <1>12, <3>4
    <3> QED
      BY <1>1, <3>4, <3>5 DEF Minds
  <2> QED
    BY <2>1, <2>2
<1>16. \A x \in Todo(q)' : PlanTask(q, x)' /\ TaskOK(x)'
  <2> SUFFICES ASSUME NEW x \in Later(q) PROVE PlanTask(q, x)' /\ TaskOK(x)'
    BY <1>7
  <2>1. PlanTask(q, x) /\ x.do \in {"pick", "drop", "assign", "refresh", "catch"} /\ x \in Tasks(n) /\ x \in Todo(q)
    BY <1>1, <1>8
  <2>2. ASSUME x.do = "drop" PROVE LeaveOK(q, x)'
    <3>1. LeaveOK(q, x) /\ x.order \in Orders
      BY <1>1, <2>1, <2>2, TaskFields DEF PlanTask
    <3>2. CASE x.order = o
      BY <1>5, <1>13, <3>2 DEF LeaveOK
    <3>3. CASE x.order # o
      <4>1. \A y \in Todo(q) : y.do \in {"save"} \cup Placing /\ y.order = x.order => y \in Todo(q)'
        BY <1>1, <1>7, <3>3
      <4> QED
        BY <1>5, <3>1, <3>3, <4>1 DEF LeaveOK
    <3> QED
      BY <3>2, <3>3
  <2>3. ASSUME x.do = "pick" PROVE GiveOK(q, x)'
    <3>1. GiveOK(q, x) /\ x.order \in Orders
      BY <1>1, <2>1, <2>3, TaskFields DEF PlanTask, Placing
    <3>2. SavesOf(q, x.order)' = {}
      BY <1>7, <1>8 DEF SavesOf
    <3>3. CASE x.order = o
      <4>1. k \in SavesOf(q, x.order)
        BY <1>1, <3>3 DEF SavesOf
      <4>2. k.row.carrier = x.rider
        BY <3>1, <4>1 DEF GiveOK
      <4> QED
        BY <1>3, <1>5, <3>2, <3>3, <4>2 DEF GiveOK
    <3>4. CASE x.order # o
      <4>1. SavesOf(q, x.order) = {}
        BY <1>1, <1>8, <3>4 DEF SavesOf
      <4> QED
        BY <1>5, <3>1, <3>2, <3>4, <4>1 DEF GiveOK
    <3> QED
      BY <3>3, <3>4
  <2>4. x.do = "catch" => \A z \in Todo(q)' : z.do = "catch" => z = x
    BY <1>1, <1>7, <2>1 DEF PlanTask
  <2> QED
    BY <2>1, <2>2, <2>3, <2>4 DEF PlanTask, TaskOK, Placing
<1> QED
  BY <1>14, <1>15, <1>16, PlanLists DEF Books

\* A list that comes before another one goes on as it begins.
LEMMA HeadStays ==
  ASSUME NEW S, NEW l \in Seq(S), l # <<>>, NEW t \in Seq(S)
  PROVE  Head(l \o t) = Head(l)
<1>1. l \o t \in Seq(S) /\ (l \o t)[1] = l[1] /\ l \o t # <<>> /\ Head(l) = l[1]
  OBVIOUS
<1> QED
  BY <1>1

\* assignRider saves first.
LEMMA AssignSaves ==
  ASSUME TypeInv, NEW q \in Requests, Assign(q)
  PROVE  Throw(q) \/ Head(work'[q]).do = "save"
<1> DEFINE k == Head(work[q])
           old == rows[k.order]
           a == SaveTask(k.order, [old EXCEPT !.carrier = k.rider,
                                              !.status = IF @ \in Cooking \cup OnTheRoad THEN @
                                                         ELSE "assigned_to_delivery"])
           b == DropTask(k.order)
           c == [k EXCEPT !.do = "pick"]
           d == RefreshTask(k.rider)
           e == RefreshTask(old.carrier)
           more == IF old.carrier \in Riders \ {k.rider} THEN <<e>> ELSE <<>>
           n == Len(trips)
           S == Tasks(n) \cup {a, b, c, d, e}
<1>1. work[q] # <<>> /\ work[q] \in Seq(Tasks(n))
  BY DEF Assign, Runs, TypeInv
<1>2. Throw(q) \/ Then(q, <<a, b, c, d>> \o more)
  BY DEF Assign
<1>3. a.do = "save"
  BY DEF SaveTask
<1> HIDE DEF a, b, c, d, e, n
<1>4. Tail(work[q]) \in Seq(S) /\ <<a, b, c, d>> \in Seq(S) /\ more \in Seq(S)
  <2>1. Tail(work[q]) \in Seq(Tasks(n))
    BY <1>1
  <2>2. Tail(work[q]) \in Seq(S)
    BY <2>1
  <2>3. a \in S /\ b \in S /\ c \in S /\ d \in S /\ e \in S
    OBVIOUS
  <2> HIDE DEF S
  <2> QED
    BY <2>2, <2>3
<1> DEFINE first == <<a, b, c, d>>
<1>5. first \in Seq(S) /\ first # <<>> /\ Head(first) = a
  BY <1>4
<1> HIDE DEF S, more, first
<1>6. CASE Then(q, first \o more)
  <2>1. work'[q] = (first \o more) \o Tail(work[q])
    BY <1>6 DEF Then, TypeInv
  <2>2. first \o more \in Seq(S) /\ first \o more # <<>>
    BY <1>4, <1>5
  <2>3. Head(first \o more) = a
    BY <1>4, <1>5, HeadStays
  <2>4. Head((first \o more) \o Tail(work[q])) = a
    BY <1>4, <2>2, <2>3, HeadStays
  <2> QED
    BY <1>3, <2>1, <2>4
<1> QED
  BY <1>2, <1>6 DEF first

LEMMA AssignPlans == ASSUME NEW q \in Requests, PlanStep(q), Assign(q) PROVE Books'
<1> SUFFICES ASSUME NEW k, k = Head(work[q]), NEW o, o = k.order PROVE Books'
  OBVIOUS
<1> SUFFICES ASSUME NEW old, old = rows[o] PROVE Books'
  OBVIOUS
<1> DEFINE n == Len(trips)
<1>0. Sound(q) /\ TypeInv
  BY AssignShape DEF PlanStep
<1>1. /\ k.do = "assign" /\ o \in Orders
      /\ \/ Throw(q) /\ old.status \in Terminal
         \/ /\ old.status \notin Terminal
            /\ \E ts \in Seq(Tasks(n)), new \in RowType, p \in Tasks(n) :
                 /\ Then(q, ts) /\ new.carrier = k.rider
                 /\ new.trip = old.trip
                 /\ p.do = "pick" /\ p.order = o /\ p.rider = k.rider
                 /\ {SaveTask(o, new), DropTask(o), p, RefreshTask(k.rider)} \subseteq Elems(ts)
                 /\ Elems(ts) \subseteq {SaveTask(o, new), DropTask(o), p,
                                         RefreshTask(k.rider), RefreshTask(old.carrier)}
                 /\ old.carrier \in Riders => RefreshTask(old.carrier) \in Elems(ts)
  BY <1>0, AssignList, ZenonT(40)
<1>2. /\ UNCHANGED <<rows, stops, trips, free>>
      /\ Todo(q) = {k} \cup Later(q) /\ past' = past /\ q \in past.planners /\ k \in Todo(q)
      /\ \A x \in Later(q) : k.do \in Before(x.do)
      /\ \A x \in Todo(q) : x.do \in Planning \cup Shared
      /\ ListInv /\ n \in Nat /\ PlanOK(q)
  <2>1. UNCHANGED <<rows, stops, trips, free>>
    BY Zenon DEF Assign, db
  <2>2. /\ Todo(q) = {k} \cup Later(q) /\ past' = past /\ k \in Todo(q)
        /\ \A x \in Later(q) : k.do \in Before(x.do)
        /\ \A x \in Todo(q) : x.do \in Planning \cup Shared
        /\ n \in Nat
    BY PlanFrame, Zenon
  <2> QED
    BY <2>1, <2>2 DEF PlanStep
<1>3. \A x \in Later(q) : x.do \in {"assign", "catch"}
  BY <1>1, <1>2 DEF Before, Planning, Shared
<1>4. \A u : ~ HandsOver(q, u)
  BY <1>1, <1>2, <1>3, Zenon DEF HandsOver, Placing
<1>5. k.do \notin {"save", "drop", "point", "refresh"}
  BY <1>1
<1>6. CASE Throw(q) /\ old.status \in Terminal
  <2>1. k.trip = 0
    BY <1>1, <1>2, <1>6, Zenon DEF PlanOK, Fits
  <2>2. Later(q) = {}
    BY <1>0, <1>1, <1>2, <2>1, Facts, Zenon
  <2>3. Todo(q)' = {}
    BY <1>0, <1>1, <1>2, <1>6, <2>2, Ended
  <2>4. \A u : ~ Remakes(q, u)
    BY <1>1, <1>2, <2>2 DEF Remakes, TripTask
  <2> QED
    BY <1>2, <1>4, <1>5, <2>2, <2>3, <2>4, PlanQuiet, Zenon
<1>7. ASSUME old.status \notin Terminal,
             NEW ts \in Seq(Tasks(n)), NEW new \in RowType, NEW p \in Tasks(n), Then(q, ts),
             new.carrier = k.rider, p.do = "pick" /\ p.order = o /\ p.rider = k.rider,
             {SaveTask(o, new), DropTask(o), p, RefreshTask(k.rider)} \subseteq Elems(ts),
             Elems(ts) \subseteq {SaveTask(o, new), DropTask(o), p,
                                  RefreshTask(k.rider), RefreshTask(old.carrier)},
             old.carrier \in Riders => RefreshTask(old.carrier) \in Elems(ts)
      PROVE  Books'
  <2>1. ts \in Seq(Tasks(Len(trips')))
    BY <1>2
  <2>2. Todo(q)' = Elems(ts) \cup Later(q)
    BY <1>0, <1>2, <1>7, <2>1, Moved
  <2>3. PICK s, d : s = SaveTask(o, new) /\ d = DropTask(o)
    OBVIOUS
  <2>4. /\ s.do = "save" /\ s.order = o /\ s.row = new /\ d.do = "drop" /\ d.order = o
        /\ \A r : RefreshTask(r).do = "refresh"
    BY <2>3 DEF SaveTask, DropTask, RefreshTask
  <2>5. /\ s \in Todo(q)' /\ d \in Todo(q)' /\ DropTask(o) \in Todo(q)' /\ p \in Todo(q)'
        /\ old.carrier \in Riders => RefreshTask(old.carrier) \in Todo(q)'
    BY <1>7, <2>2, <2>3
  <2>6. \A x \in Elems(ts) : x = s \/ x = d \/ x = p \/ x.do = "refresh"
    BY <1>7, <2>3, <2>4
  <2>7. Head(work'[q]).do = "save"
    <3>1. Throw(q) => Later(q) \cap Todo(q)' = {} /\ \A x \in Todo(q)' : x.do = "revive"
      <4> SUFFICES ASSUME Throw(q) PROVE \A x \in Todo(q)' : x.do = "revive" /\ x \notin Later(q)
        OBVIOUS
      <4> DEFINE m == Len(trips)
      <4>1. m \in Nat /\ work \in [Requests -> Seq(Tasks(m))]
        BY <1>0 DEF TypeInv, DbType
      <4> HIDE DEF m
      <4>2. \/ work'[q] = <<>>
            \/ \E z \in Todo(q) : z.do = "catch" /\ work'[q] = <<TripTask("revive", z.trip)>>
        BY <4>1, Thrown
      <4>3. \A t : TripTask("revive", t).do = "revive"
        BY DEF TripTask
      <4>4. ASSUME NEW t, work'[q] = <<t>>, NEW x \in Todo(q)' PROVE x = t
        BY <4>4 DEF Todo
      <4>5. work'[q] = <<>> => Todo(q)' = {}
        BY DEF Todo
      <4>6. \A x \in Todo(q)' : x.do = "revive"
        BY <4>2, <4>3, <4>4, <4>5
      <4> QED
        BY <1>3, <4>6
    <3>2. ~ Throw(q)
      BY <2>4, <2>5, <3>1
    <3> QED
      BY <1>0, <3>2, AssignSaves
  <2>8. TakeOK(q, s)'
    BY <1>2, <1>7, <2>4, <2>5, <2>7 DEF TakeOK, Placing
  <2>9. LeaveOK(q, d)'
    BY <2>4, <2>5 DEF LeaveOK
  <2>10. GiveOK(q, p)'
    <3>1. s \in SavesOf(q, o)' /\ \A y \in SavesOf(q, o)' : y = s
      BY <1>3, <1>7, <2>2, <2>4, <2>5, <2>6 DEF SavesOf
    <3> QED
      BY <1>2, <1>7, <2>4, <3>1 DEF GiveOK
  <2>11. \A x \in Elems(ts) : PlanTask(q, x)' /\ TaskOK(x)'
    <3>1. PlanTask(q, s)' /\ TaskOK(s)'
      BY <2>4, <2>8 DEF PlanTask, TaskOK, Placing
    <3>2. PlanTask(q, d)' /\ TaskOK(d)'
      BY <2>4, <2>9 DEF PlanTask, TaskOK, Placing
    <3>3. PlanTask(q, p)' /\ TaskOK(p)'
      BY <1>7, <2>10 DEF PlanTask, TaskOK, Placing
    <3>4. \A x : x.do = "refresh" => PlanTask(q, x)' /\ TaskOK(x)'
      BY DEF PlanTask, TaskOK, Placing
    <3> QED
      BY <2>6, <3>1, <3>2, <3>3, <3>4
  <2>12. \A t : /\ TripTask("catch", t).do = "catch" /\ TripTask("revive", t).do = "revive"
    BY DEF TripTask
  <2>13. ASSUME NEW u \in Orders, Remakes(q, u) PROVE Remakes(q, u)' \/ HandsOver(q, u)'
    <3>1. TripTask("revive", stops[u].trip) \notin Todo(q)
      BY <1>1, <1>2, <1>3, <2>12
    <3>2. /\ TripTask("catch", stops[u].trip) \in Todo(q)
          /\ \E y \in Todo(q) : \/ y.do \in {"create", "insert"} /\ \E i \in DOMAIN y.orders : y.orders[i] = u
                                \/ y.do = "assign" /\ y.order = u
      BY <2>13, <3>1, Zenon DEF Remakes
    <3>3. TripTask("catch", stops'[u].trip) \in Todo(q)'
      BY <1>1, <1>2, <2>2, <2>12, <3>2
    <3>4. PICK y \in Todo(q) : y.do = "assign" /\ y.order = u
      BY <1>1, <1>2, <1>3, <3>2
    <3>5. CASE y = k
      BY <1>2, <2>4, <2>5, <3>4, <3>5 DEF HandsOver
    <3>6. CASE y \in Later(q)
      BY <1>2, <2>2, <3>3, <3>4, <3>6 DEF Remakes
    <3> QED
      BY <1>2, <3>5, <3>6
  <2> QED
    BY <1>2, <1>4, <1>5, <2>2, <2>11, <2>13, PlanQuiet
<1> QED
  BY <1>1, <1>6, <1>7

LEMMA BookPlans == ASSUME NEW q \in Requests, PlanStep(q), Book(q) PROVE Books'
<1> SUFFICES ASSUME NEW k, k = Head(work[q]), NEW o, o = k.order PROVE Books'
  OBVIOUS
<1> DEFINE n == Len(trips)
<1>0. Sound(q) /\ TypeInv
  BY BookShape DEF PlanStep
<1>1. /\ k.do = "book" /\ o \in Orders
      /\ \/ Throw(q)
         \/ \E ts \in Seq(Tasks(n)), new \in RowType :
              /\ Then(q, ts) /\ new.trip = 0 /\ new.carrier = "porter"
              /\ Elems(ts) = {DropTask(o), SaveTask(o, new), RefreshTask(rows[o].carrier)}
  BY <1>0, BookList, Zenon
<1>2. /\ UNCHANGED <<rows, stops, trips, free>>
      /\ Todo(q) = {k} \cup Later(q) /\ past' = past /\ q \in past.planners /\ k \in Todo(q)
      /\ \A x \in Later(q) : k.do \in Before(x.do)
      /\ ListInv /\ n \in Nat
  BY PlanFrame DEF PlanStep, Book, db
<1>3. Later(q) = {} /\ Todo(q) = {k}
  BY <1>1, <1>2 DEF Before, Shared, Moving
<1>4. \A u : ~ HandsOver(q, u) /\ ~ Remakes(q, u)
  BY <1>1, <1>3 DEF HandsOver, Placing, Remakes, TripTask
<1>5. k.do \notin {"save", "drop", "point", "refresh"}
  BY <1>1
<1>6. CASE Throw(q)
  <2>1. Todo(q)' = {}
    BY <1>0, <1>1, <1>3, <1>6, Ended
  <2> QED
    BY <1>2, <1>3, <1>4, <1>5, <2>1, PlanQuiet
<1>7. ASSUME NEW ts \in Seq(Tasks(n)), NEW new \in RowType, Then(q, ts),
             new.trip = 0, new.carrier = "porter",
             Elems(ts) = {DropTask(o), SaveTask(o, new), RefreshTask(rows[o].carrier)}
      PROVE  Books'
  <2>1. ts \in Seq(Tasks(Len(trips')))
    BY <1>2
  <2>2. Todo(q)' = Elems(ts) \cup Later(q)
    BY <1>0, <1>2, <1>7, <2>1, Moved
  <2>3. PICK d, s, r : d = DropTask(o) /\ s = SaveTask(o, new) /\ r = RefreshTask(rows[o].carrier)
    OBVIOUS
  <2>4. /\ s.do = "save" /\ s.order = o /\ s.row = new /\ d.do = "drop" /\ d.order = o /\ r.do = "refresh"
    BY <2>3 DEF SaveTask, DropTask, RefreshTask
  <2>5. Todo(q)' = {d, s, r}
    BY <1>3, <1>7, <2>2, <2>3
  <2>6. "porter" \notin Riders
    BY TripsAssumption
  <2>7. TakeOK(q, s)'
    <3>1. rows'[s.order].carrier \in Riders => RefreshTask(rows'[s.order].carrier) \in Todo(q)'
      BY <1>2, <2>3, <2>4, <2>5
    <3>2. DropTask(s.order) \in Todo(q)'
      BY <2>3, <2>4, <2>5
    <3> QED
      BY <1>7, <2>4, <2>6, <3>1, <3>2, Zenon DEF TakeOK
  <2>8. LeaveOK(q, d)'
    BY <2>4, <2>5 DEF LeaveOK
  <2>9. \A x \in Todo(q)' : PlanTask(q, x)' /\ TaskOK(x)'
    <3>1. PlanTask(q, s)' /\ TaskOK(s)'
      BY <2>4, <2>7 DEF PlanTask, TaskOK, Placing
    <3>2. PlanTask(q, d)' /\ TaskOK(d)'
      BY <2>4, <2>8 DEF PlanTask, TaskOK, Placing
    <3>3. PlanTask(q, r)' /\ TaskOK(r)'
      BY <2>4 DEF PlanTask, TaskOK, Placing
    <3> QED
      BY <2>5, <3>1, <3>2, <3>3
  <2> QED
    BY <1>2, <1>3, <1>4, <1>5, <2>9, PlanQuiet
<1> QED
  BY <1>1, <1>6, <1>7

LEMMA UnbookPlans == ASSUME NEW q \in Requests, PlanStep(q), Unbook(q) PROVE Books'
<1> SUFFICES ASSUME NEW k, k = Head(work[q]), NEW o, o = k.order PROVE Books'
  OBVIOUS
<1> DEFINE n == Len(trips)
<1>0. Sound(q) /\ TypeInv
  BY UnbookShape DEF PlanStep
<1>1. /\ k.do = "unbook" /\ o \in Orders
      /\ \/ Throw(q)
         \/ /\ rows[o].carrier = "porter" /\ rows[o].status \in Bookable
            /\ \E new \in RowType :
                 /\ Then(q, <<SaveTask(o, new)>>) /\ SaveTask(o, new) \in Tasks(n)
                 /\ new.trip = rows[o].trip /\ new.carrier = "nobody"
  BY <1>0, UnbookList, Zenon
<1>2. /\ UNCHANGED <<rows, stops, trips, free>>
      /\ Todo(q) = {k} \cup Later(q) /\ past' = past /\ q \in past.planners /\ k \in Todo(q)
      /\ \A x \in Later(q) : k.do \in Before(x.do)
      /\ \A p \in Requests \ {q} : Todo(p) = {}
      /\ ListInv /\ n \in Nat
  BY PlanFrame DEF PlanStep, Unbook, db
<1>3. Later(q) = {} /\ Todo(q) = {k}
  BY <1>1, <1>2 DEF Before, Shared, Moving
<1>4. \A u : ~ HandsOver(q, u) /\ ~ Remakes(q, u)
  BY <1>1, <1>3 DEF HandsOver, Placing, Remakes, TripTask
<1>5. k.do \notin {"save", "drop", "point", "refresh"}
  BY <1>1
<1>6. CASE Throw(q)
  <2>1. Todo(q)' = {}
    BY <1>0, <1>1, <1>3, <1>6, Ended
  <2> QED
    BY <1>2, <1>3, <1>4, <1>5, <2>1, PlanQuiet
<1>7. ASSUME rows[o].carrier = "porter", rows[o].status \in Bookable, NEW new \in RowType,
             Then(q, <<SaveTask(o, new)>>), SaveTask(o, new) \in Tasks(n),
             new.trip = rows[o].trip, new.carrier = "nobody"
      PROVE  Books'
  <2>1. PICK s : s = SaveTask(o, new)
    OBVIOUS
  <2>2. s.do = "save" /\ s.order = o /\ s.row = new /\ s \in Tasks(n)
    BY <1>7, <2>1 DEF SaveTask
  <2> DEFINE ts == <<s>>
  <2>3. ts \in Seq(Tasks(Len(trips'))) /\ Elems(ts) = {s} /\ Then(q, ts)
    BY <1>2, <1>7, <2>1, <2>2, ShortLists
  <2>4. Len(ts) = 1 /\ ts[1] = s
    OBVIOUS
  <2> HIDE DEF ts
  <2>5. Todo(q)' = {s}
    <3>1. Todo(q)' = Elems(ts) \cup Later(q)
      BY <1>0, <1>2, <2>3, Moved
    <3> QED
      BY <1>3, <2>3, <3>1
  <2>6. rows[o].trip = stops[o].trip
    <3>1. Pointed(o)
      BY <1>1 DEF PlanStep, Books, OrdersOK
    <3>2. \A p \in Requests : \A x \in Todo(p) : x.do = "unbook"
      BY <1>1, <1>2, <1>3
    <3> QED
      BY <3>1, <3>2 DEF Pointed
  <2>7. stops[o] = NoStop
    <3>1. Rides(o) /\ rows[o].status \notin Terminal
      BY <1>1, <1>7 DEF PlanStep, Books, OrdersOK, Bookable, Terminal
    <3>2. \A p \in Requests \ {q} : ~ HandsOver(p, o)
      BY <1>2 DEF HandsOver
    <3>3. Plain(o)
      BY <1>4, <3>1, <3>2 DEF Rides
    <3>4. ASSUME stops[o] # NoStop PROVE FALSE
      <4>1. stops[o].trip \in DOMAIN trips
        BY <1>0, <1>1, <3>4, StopTrip
      <4>2. trips[stops[o].trip] \in TripType
        BY <1>0, <4>1 DEF TypeInv, DbType
      <4> QED
        BY <1>7, <3>3, <3>4, <4>2, TripsAssumption DEF Plain, TripType
    <3> QED
      BY <3>4
  <2>8. Head(work'[q]).do = "save"
    <3>1. work'[q] # <<>>
      BY <2>5 DEF Todo
    <3>2. work'[q][1] = s
      <4>1. Len(ts) = 1 /\ \A i \in 1 .. Len(ts) : work'[q][i] = ts[i]
        BY <1>0, <1>2, <2>3, <2>4, Moved
      <4> QED
        BY <2>4, <4>1
    <3> QED
      <4>1. TypeInv'
        BY <1>0, <1>2, SoundKeeps
      <4>2. Head(work'[q]) = work'[q][1]
        BY <3>1, <4>1 DEF TypeInv
      <4> QED
        BY <2>2, <3>2, <4>2
  <2>9. TakeOK(q, s)'
    <3>1. NoStop' = NoStop /\ "nobody" \notin Riders /\ "porter" \notin Riders
      BY TripsAssumption DEF NoStop
    <3> QED
      BY <1>2, <1>7, <2>2, <2>6, <2>7, <2>8, <3>1 DEF TakeOK
  <2>10. PlanTask(q, s)' /\ TaskOK(s)'
    BY <2>2, <2>9 DEF PlanTask, TaskOK, Placing
  <2> QED
    BY <1>2, <1>3, <1>4, <1>5, <2>5, <2>10, PlanQuiet
<1> QED
  BY <1>1, <1>6, <1>7

LEMMA PlanKeeps == ASSUME NEW q \in Requests, PlanStep(q), Steps(q) PROVE Books'
<1>1. /\ Head(work[q]) \in Todo(q) /\ \A x \in Todo(q) : x.do \in Planning \cup Shared
  BY PlanFrame
<1>2. Head(work[q]).do \notin Moving
  BY <1>1, Kinds
<1>3. ~ PickedUp(q) /\ ~ Deliver(q) /\ ~ SettleDelivered(q) /\ ~ PayBonus(q) /\ ~ Update(q) /\ ~ Pickup(q)
  BY <1>2, Zenon DEF Moving, PickedUp, Deliver, SettleDelivered, PayBonus, Update, Pickup, Runs
<1> QED
  BY <1>3, DropPlans, PointPlans, SettlePlans, ClosePlans, PickPlans, OpenPlans, PlacePlans, RefreshPlans,
     SavePlans, AssignPlans, BookPlans, UnbookPlans, CreatePlans, InsertPlans, AddPlans, CancelPlans,
     NotCaughtPlans, RevivePlans DEF Steps

----------------------------------------------------------------------------
(* All requests together.                                                  *)

\* A call finds either no request that plans or no request at all.
LEMMA CallBooks ==
  ASSUME TypeInv, BooksInv, NEW q \in Requests, NEW x \in CallTasks, Call(q, x)
  PROVE  BooksInv'
<1> DEFINE rivals == {p \in Requests : work[p] # <<>>}
<1>1. /\ work[q] = <<>> /\ Todo(q)' = {x}
      /\ \A p \in Requests \ {q} : work'[p] = work[p]
      /\ UNCHANGED db
      /\ past'.planners = (past.planners \cap rivals) \cup (IF x.do \in StatusCalls THEN {} ELSE {q})
      /\ past'.raced = (past.raced \/ rivals # {})
      /\ past'.cut = past.cut
      /\ past'.tangled = (past.tangled \/ (rivals # {} /\ past'.planners # {}))
  BY Called
<1>2. CASE past'.tangled \/ past'.cut
  BY <1>2 DEF BooksInv
<1>3. CASE ~ past'.tangled /\ ~ past'.cut
  <2>1. /\ Books /\ (rivals = {} \/ past'.planners = {})
        /\ UNCHANGED <<rows, stops, trips, free>> /\ (past.raced => past'.raced)
    BY <1>1, <1>3 DEF BooksInv, db
  <2>2. \A p \in Requests : p \notin rivals => Todo(p) = {}
    BY DEF Todo
  <2>3. \A p \in Requests : p \in past.planners => Todo(p) = {}
    BY <1>1, <2>1, <2>2
  <2>4. \A p \in Requests \ {q} : Todo(p)' = Todo(p) /\ work'[p] = work[p]
    BY <1>1 DEF Todo
  <2>5. Todo(q) = {} /\ \A p \in Requests \ {q} : p \in past'.planners => Todo(p)' = {}
    BY <1>1, <2>2, <2>3, <2>4
  <2>6. x.do \in {"assign", "update", "book", "unbook", "create", "add", "pickup"}
    BY CallTasksAre
  <2> HIDE DEF rivals
  <2>7. \A t : Undropped(t)' = Undropped(t)
    BY <2>1 DEF Undropped, On
  <2>8. \A o : \A p \in Requests : ~ HandsOver(p, o) /\ ~ Remakes(p, o)
    BY <2>3 DEF HandsOver, Remakes
  <2>9. OrdersOK'
    <3> SUFFICES ASSUME NEW o \in Orders PROVE Delivered(o)' /\ Pointed(o)' /\ Served(o)' /\ Rides(o)'
      BY DEF OrdersOK
    <3>1. Delivered(o) /\ Pointed(o) /\ Served(o) /\ Rides(o) /\ NoStop' = NoStop
      BY <2>1 DEF Books, OrdersOK, NoStop
    <3>2. Delivered(o)'
      BY <2>1, <3>1 DEF Delivered
    <3>3. Pointed(o)'
      <4>1. CASE rows[o].trip = stops[o].trip
        BY <2>1, <4>1 DEF Pointed
      <4>2. ASSUME NEW p \in Requests, NEW y \in Todo(p), y.do \in {"drop", "point"}, y.order = o,
                   p \in past.planners \/ rows[o].status = "cancelled"
            PROVE  Pointed(o)'
        <5>1. p # q /\ p \notin past.planners
          BY <2>3, <2>5, <4>2
        <5> QED
          BY <2>1, <2>4, <4>2, <5>1 DEF Pointed
      <4> QED
        BY <3>1, <4>1, <4>2 DEF Pointed
    <3>4. Served(o)'
      <4> SUFFICES ASSUME stops[o] # NoStop, ~ stops[o].dropped, rows[o].status \in Terminal
                   PROVE  \E p \in Requests : \E y \in Todo(p)' :
                            /\ y.order = o
                            /\ \/ y.do = "deliver" /\ rows[o].status = "delivered"
                               \/ y.do = "drop" /\ rows[o].status = "cancelled"
        BY <2>1, <3>1 DEF Served
      <4>1. PICK p \in Requests : \E y \in Todo(p) :
              /\ y.order = o
              /\ \/ y.do = "deliver" /\ rows[o].status = "delivered"
                 \/ y.do = "drop" /\ rows[o].status = "cancelled"
        BY <3>1 DEF Served
      <4>2. p # q
        BY <2>5, <4>1
      <4> QED
        BY <2>4, <4>1, <4>2
    <3>5. Rides(o)'
      <4>1. rows[o].status \in Terminal \/ Plain(o)
        BY <2>8, <3>1 DEF Rides
      <4>2. Plain(o) => Plain(o)'
        BY <2>1, <2>8, <3>1 DEF Plain
      <4> QED
        BY <2>1, <4>1, <4>2 DEF Rides
    <3> QED
      BY <3>2, <3>3, <3>4, <3>5
  <2>10. RidersOK'
    <3> SUFFICES ASSUME NEW r \in Riders, ~ free'[r], ~ Loaded(r)' PROVE \E p \in Requests : Minds(p, r)'
      BY DEF RidersOK
    <3>1. ~ Loaded(r)
      BY <2>1 DEF Loaded
    <3>2. PICK p \in Requests : Minds(p, r)
      BY <2>1, <3>1 DEF Books, RidersOK
    <3>3. p # q /\ p \notin past.planners
      BY <2>3, <2>5, <3>2 DEF Minds
    <3>4. Minds(p, r)'
      BY <2>4, <3>2, <3>3 DEF Minds
    <3> QED
      BY <3>4
  <2>11. TasksOK'
    <3>1. TaskOK(x)'
      BY <2>6 DEF TaskOK
    <3>2. ASSUME NEW p \in Requests, NEW y \in Todo(p) PROVE TaskOK(y)'
      BY <2>1, <2>7 DEF Books, TasksOK, TaskOK
    <3> QED
      BY <1>1, <2>4, <3>1, <3>2 DEF TasksOK
  <2>12. ListsOK'
    <3>1. PlansOK(q)' /\ MoveOK(q)'
      <4>1. PlanTask(q, x)'
        BY <2>6 DEF PlanTask, Placing
      <4> QED
        BY <1>1, <2>6, <4>1 DEF PlansOK, MoveOK, Saves
    <3>2. ASSUME NEW p \in Requests \ {q}, Todo(p)' = {} PROVE PlansOK(p)' /\ MoveOK(p)'
      BY <3>2 DEF PlansOK, MoveOK, Saves
    <3>3. ASSUME NEW p \in Requests \ {q}, Todo(p)' # {} PROVE p \notin past'.planners /\ MoveOK(p)'
      <4>1. p \notin past.planners /\ p \notin past'.planners
        BY <2>3, <2>4, <2>5, <3>3
      <4>2. MoveOK(p)
        BY <2>1, <4>1 DEF Books, ListsOK
      <4>3. ASSUME NEW y, SaveOK(p, y) PROVE SaveOK(p, y)'
        BY <2>1, <2>4, <4>3 DEF SaveOK
      <4> QED
        BY <2>1, <2>4, <4>1, <4>2, <4>3 DEF MoveOK, Saves
    <3> QED
      BY <3>1, <3>2, <3>3 DEF ListsOK
  <2> QED
    BY <2>9, <2>10, <2>11, <2>12 DEF BooksInv, Books
<1> QED
  BY <1>2, <1>3

LEMMA StepBooks ==
  ASSUME TypeInv, ListInv, OpenInv, BonusInv, BooksInv, NEW q \in Requests, Steps(q)
  PROVE  BooksInv'
<1>1. Sound(q)
  BY StepsAreSound
<1>2. past' = past /\ work[q] # <<>>
  BY <1>1, ShapeTodo
<1>3. CASE past.tangled \/ past.cut
  BY <1>2, <1>3 DEF BooksInv
<1>4. CASE ~ past.tangled /\ ~ past.cut
  <2>1. Books
    BY <1>4 DEF BooksInv
  <2>2. CASE q \in past.planners
    <3>1. PlanOK(q)
      BY <1>2, <1>4, <2>2 DEF OpenInv, Kept
    <3>2. PlanStep(q)
      BY <1>1, <2>1, <2>2, <3>1 DEF PlanStep
    <3> QED
      BY <3>2, PlanKeeps DEF BooksInv
  <2>3. CASE q \notin past.planners
    <3>1. NobodyPlans /\ (past.raced \/ Single)
      BY <1>2, <1>4, <2>3, MoversOnly DEF BonusInv
    <3>2. MoverStep(q)
      BY <1>1, <2>1, <2>3, <3>1 DEF MoverStep
    <3> QED
      BY <3>2, MoverKeeps DEF BooksInv
  <2> QED
    BY <2>2, <2>3
<1> QED
  BY <1>3, <1>4

\* A kitchen that starts with some orders on a trip, or none.
LEMMA InitBooks == Init => BooksInv
<1> SUFFICES ASSUME Init PROVE Books
  BY DEF BooksInv
<1>1. \A q \in Requests : work[q] = <<>> /\ Todo(q) = {}
  BY DEF Init, Todo
<1>2. past.planners = {} /\ "nobody" \notin Riders
  BY TripsAssumption DEF Init
<1>3. TasksOK /\ ListsOK
  BY <1>1, <1>2 DEF TasksOK, ListsOK, MoveOK, Saves
<1>4. OrdersOK /\ RidersOK
  <2>1. CASE Fresh
    <3>1. \A o \in Orders : rows[o] = Cooks /\ stops[o] = NoStop
      BY <2>1 DEF Fresh
    <3>2. \A r \in Riders : free[r]
      BY <2>1 DEF Fresh
    <3>3. \A o \in Orders : Delivered(o) /\ Pointed(o) /\ Served(o) /\ Rides(o)
      BY <1>2, <3>1 DEF Delivered, Pointed, Served, Rides, Plain, Cooks, NoStop
    <3> QED
      BY <3>2, <3>3 DEF OrdersOK, RidersOK
  <2>2. ASSUME NEW r \in Riders, NEW os \in SUBSET Orders, NEW stage \in [os -> Stages \ {"cancelled"}],
               Riding(r, stage)
        PROVE  OrdersOK /\ RidersOK
    <3>1. DOMAIN stage = os
      OBVIOUS
    <3>2. /\ rows = [o \in Orders |-> IF o \in os THEN [trip |-> 1, status |-> stage[o], carrier |-> r]
                                      ELSE Cooks]
          /\ stops = [o \in Orders |-> IF o \in os THEN [trip |-> 1, dropped |-> stage[o] = "delivered"]
                                       ELSE NoStop]
          /\ free = [x \in Riders |-> x = r => \A o \in os : stage[o] \notin NeedsCarrier]
          /\ \E s \in Active : trips = <<[rider |-> r, status |-> s]>>
      BY <2>2, <3>1 DEF Riding, Active
    <3>3. ASSUME NEW o \in Orders \ os PROVE Delivered(o) /\ Pointed(o) /\ Served(o) /\ Rides(o)
      <4>1. rows[o] = Cooks /\ stops[o] = NoStop
        BY <3>2
      <4> QED
        BY <1>2, <4>1 DEF Delivered, Pointed, Served, Rides, Plain, Cooks, NoStop
    <3>4. ASSUME NEW o \in os PROVE Delivered(o) /\ Pointed(o) /\ Served(o) /\ Rides(o)
      <4>1. /\ o \in Orders /\ rows[o] = [trip |-> 1, status |-> stage[o], carrier |-> r]
            /\ stops[o] = [trip |-> 1, dropped |-> stage[o] = "delivered"]
        BY <3>2
      <4>2. /\ rows[o].trip = 1 /\ rows[o].status = stage[o] /\ rows[o].carrier = r
            /\ stops[o].trip = 1 /\ stops[o].dropped = (stage[o] = "delivered") /\ stops[o] # NoStop
        BY <4>1 DEF NoStop
      <4>3. trips[1].rider = r /\ trips[1].status \in Active
        BY <3>2
      <4>4. stage[o] \in Stages \ {"cancelled"}
        BY <4>1
      <4>5. stage[o] \in Terminal => stage[o] = "delivered"
        BY <4>4 DEF Stages, Terminal
      <4>6. Plain(o)
        BY <4>2, <4>3 DEF Plain
      <4> QED
        BY <4>2, <4>5, <4>6 DEF Delivered, Pointed, Served, Rides
    <3>5. ASSUME NEW x \in Riders, ~ free[x] PROVE Loaded(x)
      <4>1. x = r /\ \E o \in os : stage[o] \in NeedsCarrier
        BY <3>2, <3>5
      <4>2. PICK o \in os : stage[o] \in NeedsCarrier
        BY <4>1
      <4>3. o \in Orders /\ rows[o] = [trip |-> 1, status |-> stage[o], carrier |-> r]
        BY <3>2, <4>2
      <4>4. stage[o] \notin Terminal
        BY <4>2 DEF NeedsCarrier, OnTheRoad, Terminal
      <4>5. rows[o].carrier = x /\ rows[o].status = stage[o]
        BY <4>1, <4>3
      <4> QED
        BY <4>2, <4>3, <4>4, <4>5 DEF Loaded
    <3> QED
      BY <3>3, <3>4, <3>5 DEF OrdersOK, RidersOK
  <2> QED
    BY <2>1, <2>2 DEF Init
<1> QED
  BY <1>3, <1>4 DEF Books

LEMMA NextBooks == TypeInv /\ ListInv /\ OpenInv /\ BonusInv /\ BooksInv /\ [Next]_vars => BooksInv'
<1> SUFFICES ASSUME TypeInv, ListInv, OpenInv, BonusInv, BooksInv, [Next]_vars PROVE BooksInv'
  OBVIOUS
<1>1. CASE UNCHANGED vars
  <2>1. UNCHANGED <<rows, stops, trips, free, work, past>>
    BY <1>1 DEF vars, db
  <2>2. \A q : Todo(q)' = Todo(q)
    BY <2>1 DEF Todo
  <2>3. (\A t : On(t)' = On(t) /\ Undropped(t)' = Undropped(t)) /\ NoStop' = NoStop
    BY <2>1 DEF Undropped, On, NoStop
  <2>4. OrdersOK' = OrdersOK
    <3>1. \A q, o : HandsOver(q, o)' = HandsOver(q, o) /\ Remakes(q, o)' = Remakes(q, o)
      BY <2>1, <2>2 DEF HandsOver, Remakes
    <3>2. \A o : Delivered(o)' = Delivered(o) /\ Pointed(o)' = Pointed(o) /\ Served(o)' = Served(o)
      BY <2>1, <2>2, <2>3 DEF Delivered, Pointed, Served
    <3>3. \A o : Rides(o)' = Rides(o)
      BY <2>1, <2>3, <3>1 DEF Rides, Plain
    <3> QED
      BY <3>2, <3>3 DEF OrdersOK
  <2>5. RidersOK' = RidersOK
    BY <2>1, <2>2 DEF RidersOK, Loaded, Minds
  <2>6. TasksOK' = TasksOK
    BY <2>1, <2>2, <2>3 DEF TasksOK, TaskOK
  <2>7. ListsOK' = ListsOK
    <3>1. \A q : MoveOK(q)' = MoveOK(q)
      BY <2>1, <2>2 DEF MoveOK, Saves, SaveOK
    <3>2. \A q, x : TakeOK(q, x)' = TakeOK(q, x) /\ LeaveOK(q, x)' = LeaveOK(q, x)
      BY <2>1, <2>2, <2>3 DEF TakeOK, LeaveOK
    <3>3. \A q, x : GiveOK(q, x)' = GiveOK(q, x) /\ RemakeOK(q, x)' = RemakeOK(q, x)
      BY <2>1, <2>2, <2>3 DEF GiveOK, SavesOf, RemakeOK
    <3>4. \A q : PlansOK(q)' = PlansOK(q)
      BY <2>1, <2>2, <3>2, <3>3 DEF PlansOK, PlanTask
    <3> QED
      BY <2>1, <3>1, <3>4 DEF ListsOK
  <2> QED
    BY <2>1, <2>4, <2>5, <2>6, <2>7 DEF BooksInv, Books
<1>2. ASSUME NEW q \in Requests, Calls(q) PROVE BooksInv'
  BY <1>2, CallIs, CallBooks
<1>3. ASSUME NEW q \in Requests, Steps(q) PROVE BooksInv'
  BY <1>3, StepBooks
<1>4. ASSUME NEW q \in Requests, Fail(q) PROVE BooksInv'
  BY <1>4, FailIs DEF BooksInv
<1> QED
  BY <1>1, <1>2, <1>3, <1>4, NextIs

\* What the invariant says once the requests have ended.
LEMMA BooksSettled ==
  ASSUME TypeInv, OpenInv, BooksInv, Settled
  PROVE  TripsAgree /\ BoardIsTrue /\ BusyCarries
<1>1. Books /\ Covered /\ \A q \in Requests : Todo(q) = {}
  BY DEF Settled, BooksInv, OpenInv, Todo
<1>2. ASSUME NEW o \in Orders
      PROVE  /\ Delivered(o) /\ rows[o].trip = stops[o].trip
             /\ stops[o] # NoStop /\ ~ stops[o].dropped => rows[o].status \notin Terminal
             /\ rows[o].status \notin Terminal =>
                  IF stops[o] = NoStop THEN rows[o].carrier \notin Riders
                  ELSE /\ trips[stops[o].trip].rider = rows[o].carrier
                       /\ trips[stops[o].trip].status \in Active
  <2>1. Delivered(o) /\ Pointed(o) /\ Served(o) /\ Rides(o)
    BY <1>1 DEF Books, OrdersOK
  <2>2. \A q \in Requests : ~ HandsOver(q, o) /\ ~ Remakes(q, o)
    BY <1>1 DEF HandsOver, Remakes
  <2> QED
    BY <1>1, <2>1, <2>2 DEF Pointed, Served, Rides, Plain
<1>3. TripsAgree
  BY <1>2 DEF TripsAgree
<1>4. ASSUME NEW r \in Riders
      PROVE  RiderState(r) = "at_kitchen"
               <=> \A o \in Orders : rows[o].carrier = r => rows[o].status \in Terminal
  <2>1. ASSUME NEW o \in Orders, rows[o].carrier = r, rows[o].status \notin Terminal
        PROVE  RiderState(r) # "at_kitchen"
    <3>1. stops[o] # NoStop /\ trips[stops[o].trip].rider = r /\ trips[stops[o].trip].status \in Active
      BY <1>2, <2>1
    <3>2. stops[o].trip \in DOMAIN trips
      BY <3>1, StopTrip
    <3>3. o \in On(stops[o].trip)
      BY DEF On
    <3>4. PICK t \in DOMAIN trips : trips[t].rider = r /\ trips[t].status \in Active /\ On(t) # {}
      BY <3>1, <3>2, <3>3
    <3> QED
      BY <3>4 DEF RiderState, Active
  <2>2. ASSUME RiderState(r) # "at_kitchen"
        PROVE  \E o \in Orders : rows[o].carrier = r /\ rows[o].status \notin Terminal
    <3>1. PICK t \in DOMAIN trips : trips[t].rider = r /\ trips[t].status \in Active
      BY <2>2 DEF RiderState, Active
    <3>2. Undropped(t) # {}
      BY <1>1, <3>1 DEF Covered, Watches
    <3>3. PICK o \in Orders : stops[o].trip = t /\ ~ stops[o].dropped
      BY <3>2 DEF Undropped, On
    <3>4. stops[o] # NoStop
      <4>1. 0 \notin DOMAIN trips
        BY DEF TypeInv, DbType
      <4> QED
        BY <3>3, <4>1 DEF NoStop
    <3>5. rows[o].status \notin Terminal /\ rows[o].carrier = r
      BY <1>2, <3>1, <3>3, <3>4
    <3> QED
      BY <3>5
  <2> QED
    BY <2>1, <2>2
<1>5. BoardIsTrue
  BY <1>4 DEF BoardIsTrue
<1>6. BusyCarries
  <2> SUFFICES ASSUME NEW r \in Riders, ~ free[r]
               PROVE  \E o \in Orders : /\ rows[o].carrier = r /\ rows[o].status \notin Terminal
                                        /\ past.raced \/ o \in Carrying(r)
    BY DEF BusyCarries
  <2>1. \A q \in Requests : ~ Minds(q, r)
    BY <1>1 DEF Minds
  <2>2. Loaded(r)
    BY <1>1, <2>1 DEF Books, RidersOK
  <2> QED
    BY <2>2 DEF Loaded, Carrying
<1> QED
  BY <1>3, <1>5, <1>6

\* Once the requests have ended, none broken off and no planning one raced, the
\* orders, the trips, the dispatch board and the riders' flags tell one story:
\* whatever a record lacks, some list has still to write.
THEOREM BooksAreOne == Spec => []BooksAgree
<1>1. TypeInv /\ OpenInv /\ BooksInv => BooksAgree
  <2> SUFFICES ASSUME TypeInv, OpenInv, BooksInv PROVE BooksAgree
    OBVIOUS
  <2>1. CASE Settled
    BY <2>1, BooksSettled DEF BooksAgree
  <2>2. CASE ~ Settled
    BY <2>2 DEF BooksAgree, TripsAgree, BoardIsTrue, BusyCarries
  <2> QED
    BY <2>1, <2>2
<1> QED
  BY <1>1, InitTypes, NextTypes, InitOpen, NextOpen, InitBonus, NextBonus, InitBooks, NextBooks, PTL DEF Spec
=============================================================================

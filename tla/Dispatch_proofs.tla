--------------------------- MODULE Dispatch_proofs ---------------------------
(***************************************************************************)
(* Proofs about the dispatcher, for any number of orders and riders, any   *)
(* places, times, bags and cash.                                           *)
(*                                                                         *)
(* What a pass applies is not what it read: hands move orders in between.  *)
(* So the invariant says what the plans and the answers are worth by       *)
(* themselves (PlanInv, SaidInv), what of it the rows still bear out       *)
(* (FreeInv, DidInv, CarriesInv), and which orders rode alone for want of  *)
(* company (LonelyInv).  Orders that ride alone are those formTrips left;  *)
(* that it left no pair behind is PairsSave.                               *)
(*                                                                         *)
(* Cash and minutes are sums over finite sets.  The library's induction    *)
(* cannot be instantiated here; a least counterexample, by the well-       *)
(* founded orders of Nat and of finite sets, does its work.                *)
(*                                                                         *)
(* Watch (here W) apologises for a delay once.  The advisory lock plays no *)
(* part in it.  What does is the UPDATE that claims the order: of all who  *)
(* listed it, one finds the column empty.  And what is promised covers the *)
(* slow time of each stage, as long as a checkout quotes from a cart and   *)
(* from statistics: CartStep, TableStep.                                   *)
(***************************************************************************)
EXTENDS Dispatch, Promises, FiniteSetTheorems, SequenceTheorems, WellFoundedInduction, TLAPS

----------------------------------------------------------------------------
(* Numbers.  A least counterexample stands for an induction.               *)

\* A set of naturals has a least member.
LEMMA Least == ASSUME NEW T \in SUBSET Nat, T # {} PROVE \E n \in T : \A m \in T : n <= m
<1> SUFFICES ASSUME \A n \in T : \E m \in T : m < n PROVE FALSE
  OBVIOUS
<1>1. PICK n \in T : \A m \in T : ~ (<<m, n>> \in OpToRel(<, Nat))
  BY NatLessThanWellFounded, WFMin
<1>2. PICK m \in T : m < n
  OBVIOUS
<1> QED
  BY <1>1, <1>2 DEF OpToRel

\* A set without a bound would have a least part without one.
LEMMA Bounds ==
  ASSUME NEW S \in SUBSET Int, IsFiniteSet(S), S # {}
  PROVE  /\ Max(S) \in S /\ \A x \in S : x <= Max(S)
         /\ Min(S) \in S /\ \A x \in S : Min(S) <= x
<1> DEFINE Bounded(T) == T = {} \/ ((\E m \in T : \A x \in T : x <= m)
                                    /\ (\E m \in T : \A x \in T : m <= x))
           Bad == {T \in FiniteSubsetsOf(S) : ~ Bounded(T)}
<1>1. Bad = {}
  <2> SUFFICES ASSUME Bad # {} PROVE FALSE
    OBVIOUS
  <2>1. PICK T \in Bad : \A U \in Bad : ~ (<<U, T>> \in StrictSubsetOrdering(S))
    BY FS_StrictSubsetOrderingWellFounded, WFMin
  <2>2. T \in SUBSET S /\ IsFiniteSet(T) /\ T # {}
    BY DEF FiniteSubsetsOf
  <2>3. PICK x \in T : TRUE
    BY <2>2
  <2>4. T \ {x} \in FiniteSubsetsOf(S)
    BY <2>2, FS_RemoveElement DEF FiniteSubsetsOf
  <2>5. <<T \ {x}, T>> \in StrictSubsetOrdering(S)
    BY <2>2, <2>3 DEF StrictSubsetOrdering
  <2>6. Bounded(T \ {x})
    BY <2>1, <2>4, <2>5
  <2>7. Bounded(T)
    BY <2>2, <2>3, <2>6
  <2> QED
    BY <2>7
<1>2. S \in FiniteSubsetsOf(S)
  BY DEF FiniteSubsetsOf
<1>3. Bounded(S)
  BY <1>1, <1>2
<1> QED
  BY <1>3 DEF Max, Min

\* The values of a function on a finite set.
LEMMA Values ==
  ASSUME NEW S, IsFiniteSet(S), NEW f, DOMAIN f = S
  PROVE  IsFiniteSet({f[x] : x \in S})
<1> DEFINE T == {f[x] : x \in S}
           g == [x \in S |-> f[x]]
<1>1. g \in Surjection(S, T)
  BY DEF Surjection
<1> QED
  BY <1>1, FS_Surjection

----------------------------------------------------------------------------
(* Sums: a function g on the parts of S that adds up f, whatever is picked *)
(* first.                                                                  *)

First(s) == CHOOSE x \in s : TRUE

SumsUp(g, f, S) ==
  g = [s \in SUBSET S |-> IF s = {} THEN 0 ELSE f[First(s)] + g[s \ {First(s)}]]

\* The sums of the parts of at most n members.
SumsUpTo(g, f, S, n) ==
  g = [s \in SUBSET S |-> IF s = {} \/ Cardinality(s) > n THEN 0
                          ELSE f[First(s)] + g[s \ {First(s)}]]

LEMMA SumsExist ==
  ASSUME NEW S, IsFiniteSet(S), NEW f
  PROVE  \E g : SumsUp(g, f, S)
<1> DEFINE Bad == {n \in Nat : ~ \E g : SumsUpTo(g, f, S, n)}
<1>0. \A s \in SUBSET S : /\ IsFiniteSet(s) /\ Cardinality(s) \in Nat /\ Cardinality(s) <= Cardinality(S)
                          /\ (Cardinality(s) = 0 <=> s = {})
                          /\ s # {} => s \ {First(s)} \in SUBSET S
                                       /\ Cardinality(s \ {First(s)}) = Cardinality(s) - 1
  <2> SUFFICES ASSUME NEW s \in SUBSET S
               PROVE  /\ IsFiniteSet(s) /\ Cardinality(s) \in Nat /\ Cardinality(s) <= Cardinality(S)
                      /\ (Cardinality(s) = 0 <=> s = {})
                      /\ s # {} => s \ {First(s)} \in SUBSET S
                                   /\ Cardinality(s \ {First(s)}) = Cardinality(s) - 1
    OBVIOUS
  <2>1. IsFiniteSet(s) /\ Cardinality(s) \in Nat /\ Cardinality(s) <= Cardinality(S)
    BY FS_Subset, FS_CardinalityType
  <2>2. Cardinality(s) = 0 <=> s = {}
    BY <2>1, FS_EmptySet
  <2>3. s # {} => First(s) \in s
    BY DEF First
  <2> QED
    BY <2>1, <2>2, <2>3, FS_RemoveElement
<1>1. \E g : SumsUpTo(g, f, S, 0)
  <2> DEFINE g == [s \in SUBSET S |-> 0]
  <2>1. ASSUME NEW s \in SUBSET S PROVE s = {} \/ Cardinality(s) > 0
    <3>1. Cardinality(s) \in Nat /\ (Cardinality(s) = 0 <=> s = {})
      BY <1>0
    <3> QED
      BY <3>1
  <2>2. SumsUpTo(g, f, S, 0)
    BY <2>1 DEF SumsUpTo
  <2> QED
    BY <2>2
<1>2. Bad = {}
  <2> SUFFICES ASSUME Bad # {} PROVE FALSE
    OBVIOUS
  <2>1. PICK m \in Bad : \A k \in Bad : m <= k
    BY Least
  <2>2. m \in Nat /\ m # 0 /\ m - 1 \in Nat
    BY <1>1
  <2>3. PICK g : SumsUpTo(g, f, S, m - 1)
    BY <2>1, <2>2
  <2> DEFINE h == [s \in SUBSET S |-> IF s = {} \/ Cardinality(s) > m THEN 0
                                      ELSE f[First(s)] + g[s \ {First(s)}]]
  <2>4. ASSUME NEW s \in SUBSET S, Cardinality(s) <= m - 1 PROVE h[s] = g[s]
    <3>0. Cardinality(s) \in Nat
      BY <1>0
    <3>1. ~ (Cardinality(s) > m) /\ ~ (Cardinality(s) > m - 1)
      <4> HIDE DEF h
      <4> QED
        BY <3>0, <2>2, <2>4
    <3>2. g[s] = IF s = {} \/ Cardinality(s) > m - 1 THEN 0 ELSE f[First(s)] + g[s \ {First(s)}]
      BY <2>3 DEF SumsUpTo
    <3>3. h[s] = IF s = {} \/ Cardinality(s) > m THEN 0 ELSE f[First(s)] + g[s \ {First(s)}]
      OBVIOUS
    <3> HIDE DEF h
    <3> QED
      BY <3>1, <3>2, <3>3
  <2>5. ASSUME NEW s \in SUBSET S, s # {}, ~ (Cardinality(s) > m)
        PROVE  h[s \ {First(s)}] = g[s \ {First(s)}]
    <3>1. s \ {First(s)} \in SUBSET S /\ Cardinality(s \ {First(s)}) <= m - 1
      BY <1>0, <2>2, <2>5
    <3> QED
      BY <2>4, <3>1
  <2>6. h = [s \in SUBSET S |-> IF s = {} \/ Cardinality(s) > m THEN 0
                                ELSE f[First(s)] + h[s \ {First(s)}]]
    BY <2>5
  <2>7. SumsUpTo(h, f, S, m)
    BY <2>6 DEF SumsUpTo
  <2> QED
    BY <2>1, <2>7
<1>3. Cardinality(S) \in Nat
  BY FS_CardinalityType
<1>4. PICK g : SumsUpTo(g, f, S, Cardinality(S))
  BY <1>2, <1>3
<1>5. ASSUME NEW s \in SUBSET S PROVE ~ (Cardinality(s) > Cardinality(S))
  <2>1. Cardinality(s) \in Nat /\ Cardinality(s) <= Cardinality(S)
    BY <1>0
  <2> QED
    BY <2>1, <1>3
<1>6. SumsUp(g, f, S)
  BY <1>4, <1>5 DEF SumsUp, SumsUpTo
<1> QED
  BY <1>6

\* The sum the community modules define is one of these.
LEMMA SumIs ==
  ASSUME NEW f, IsFiniteSet(DOMAIN f)
  PROVE  \E g : SumsUp(g, f, DOMAIN f) /\ SumFunction(f) = g[DOMAIN f]
<1> DEFINE g == CHOOSE h : SumsUp(h, f, DOMAIN f)
<1>1. SumFunction(f) = g[DOMAIN f]
  BY DEF SumFunction, SumFunctionOnSet, FoldFunctionOnSet, MapThenFoldSet, SumsUp, First
<1>2. SumsUp(g, f, DOMAIN f)
  BY SumsExist
<1> QED
  BY <1>1, <1>2

\* Naturals add up to a natural, ...
LEMMA SumNat ==
  ASSUME NEW S, IsFiniteSet(S), NEW f \in [S -> Nat]
  PROVE  SumFunction(f) \in Nat
<1>1. PICK g : SumsUp(g, f, S) /\ SumFunction(f) = g[S]
  BY SumIs
<1> DEFINE Bad == {T \in FiniteSubsetsOf(S) : g[T] \notin Nat}
<1>2. Bad = {}
  <2> SUFFICES ASSUME Bad # {} PROVE FALSE
    OBVIOUS
  <2>1. PICK T \in Bad : \A U \in Bad : ~ (<<U, T>> \in StrictSubsetOrdering(S))
    BY FS_StrictSubsetOrderingWellFounded, WFMin
  <2>2. T \in SUBSET S /\ IsFiniteSet(T) /\ g[T] \notin Nat
    BY DEF FiniteSubsetsOf
  <2>3. g[T] = IF T = {} THEN 0 ELSE f[First(T)] + g[T \ {First(T)}]
    BY <1>1, <2>2 DEF SumsUp
  <2>4. T # {} /\ First(T) \in T
    BY <2>2, <2>3 DEF First
  <2>5. T \ {First(T)} \in FiniteSubsetsOf(S)
    BY <2>2, FS_RemoveElement DEF FiniteSubsetsOf
  <2>6. <<T \ {First(T)}, T>> \in StrictSubsetOrdering(S)
    BY <2>2, <2>4 DEF StrictSubsetOrdering
  <2>7. g[T \ {First(T)}] \in Nat
    BY <2>1, <2>5, <2>6
  <2> QED
    BY <2>2, <2>3, <2>4, <2>7
<1>3. S \in FiniteSubsetsOf(S)
  BY DEF FiniteSubsetsOf
<1> QED
  BY <1>1, <1>2, <1>3

\* ... and two of them to their sum.
LEMMA SumTwo ==
  ASSUME NEW f \in [1 .. 2 -> Nat]
  PROVE  SumFunction(f) = f[1] + f[2]
<1>0. IsFiniteSet(1 .. 2)
  BY FS_Interval, 1 \in Int, 2 \in Int
<1>1. PICK g : SumsUp(g, f, 1 .. 2) /\ SumFunction(f) = g[1 .. 2]
  BY <1>0, SumIs
<1>2. \A s \in SUBSET (1 .. 2) : g[s] = IF s = {} THEN 0 ELSE f[First(s)] + g[s \ {First(s)}]
  BY <1>1 DEF SumsUp
<1>3. g[{}] = 0
  BY <1>2
<1>4. ASSUME NEW x \in 1 .. 2 PROVE g[{x}] = f[x]
  <2>1. First({x}) = x /\ {x} \ {x} = {} /\ {x} \in SUBSET (1 .. 2) /\ {x} # {}
    BY DEF First
  <2>2. g[{x}] = f[First({x})] + g[{x} \ {First({x})}]
    BY <1>2, <2>1
  <2>3. g[{x}] = f[x] + 0
    BY <1>3, <2>1, <2>2
  <2> QED
    BY <2>3
<1>5. First(1 .. 2) \in 1 .. 2 /\ 1 .. 2 # {} /\ 1 .. 2 = {1, 2}
  BY DEF First
<1>6. g[1 .. 2] = f[First(1 .. 2)] + g[(1 .. 2) \ {First(1 .. 2)}]
  BY <1>2, <1>5
<1>7. CASE First(1 .. 2) = 1
  <2>1. (1 .. 2) \ {First(1 .. 2)} = {2}
    BY <1>7
  <2>2. g[1 .. 2] = f[1] + f[2]
    BY <1>4, <1>6, <1>7, <2>1
  <2> QED
    BY <1>1, <2>2
<1>8. CASE First(1 .. 2) = 2
  <2>1. (1 .. 2) \ {First(1 .. 2)} = {1}
    BY <1>8
  <2>2. g[1 .. 2] = f[2] + f[1]
    BY <1>4, <1>6, <1>8, <2>1
  <2> QED
    BY <1>1, <2>2
<1> QED
  BY <1>5, <1>7, <1>8

----------------------------------------------------------------------------
(* Routes.                                                                 *)

OrderType == order \in [Ids -> [at : Int, ready : Int, promise : Int, cod : Nat]]

Route(s) == s \in Seq(Ids) /\ s # <<>>

LEMMA IdsFinite == ASSUME NEW ids \in SUBSET Ids PROVE IsFiniteSet(ids) /\ Cardinality(ids) \in Nat
BY DispatchAssumption, FS_Subset, FS_CardinalityType

\* A permutation of some orders visits each once and no other.
LEMMA SequencesOf ==
  ASSUME NEW ids \in SUBSET Ids, NEW s \in Sequences(ids)
  PROVE  /\ s \in Seq(Ids) /\ Len(s) = Cardinality(ids) /\ ToSet(s) = ids /\ IsInjective(s)
         /\ ids # {} => Route(s)
<1> DEFINE n == Cardinality(ids)
<1>1. IsFiniteSet(ids) /\ n \in Nat
  BY IdsFinite
<1>2. s \in [1 .. n -> ids] /\ \A i, j \in 1 .. n : i # j => s[i] # s[j]
  BY DEF Sequences, SetToSeqs
<1>3. s \in Injection(1 .. n, ids) /\ IsInjective(s)
  BY <1>2 DEF Injection, IsInjective
<1>4. IsFiniteSet(1 .. n) /\ Cardinality(1 .. n) = n
  <2>1. 1 \in Int /\ n \in Int /\ (IF 1 > n THEN 0 ELSE n - 1 + 1) = n
    BY <1>1
  <2> QED
    BY <2>1, FS_Interval
<1>5. s \in Surjection(1 .. n, ids)
  BY <1>1, <1>3, <1>4, FS_Injection
<1>6. s \in Seq(ids) /\ Len(s) = n /\ DOMAIN s = 1 .. n
  BY <1>1, <1>2
<1>7. ToSet(s) = ids
  BY <1>5, <1>6 DEF Surjection, ToSet
<1>8. ids # {} => n # 0
  BY <1>1, FS_EmptySet
<1> QED
  BY <1>3, <1>6, <1>7, <1>8 DEF Route

LEMMA Drives ==
  ASSUME NEW a \in Int, NEW b \in Int
  PROVE  DriveMin(a, b) \in Nat /\ DriveMin(a, b) = DriveMin(b, a)
<1>1. MinPerKm \in Nat
  BY RoutesAssumption
<1>2. Km(a, b) \in Nat /\ Km(a, b) = Km(b, a)
  BY DEF Km
<1>3. \A m, n \in Nat : m * n \in Nat
  OBVIOUS
<1> QED
  BY <1>1, <1>2, <1>3 DEF DriveMin

\* When the bags are packed.
LEMMA Packing ==
  ASSUME OrderType, NEW s, Route(s)
  PROVE  /\ Latest(s) \in Int /\ Soonest(s) \in Int
         /\ \A k \in DOMAIN s : s[k] \in Ids /\ order[s[k]].ready \in Int /\ order[s[k]].ready <= Latest(s)
<1> DEFINE f == [i \in DOMAIN s |-> order[s[i]].ready]
           S == {f[i] : i \in DOMAIN s}
<1>1. DOMAIN s = 1 .. Len(s) /\ Len(s) \in Nat /\ Len(s) > 0 /\ \A k \in DOMAIN s : s[k] \in Ids
  BY DEF Route
<1>2. IsFiniteSet(DOMAIN s)
  BY <1>1, FS_Interval, 1 \in Int, Len(s) \in Int
<1>3. IsFiniteSet(S)
  BY <1>2, Values
<1>4. \A i \in DOMAIN s : f[i] \in Int
  BY <1>1 DEF OrderType
<1>5. S \in SUBSET Int /\ S # {}
  BY <1>1, <1>4
<1>6. S = {order[s[i]].ready : i \in DOMAIN s}
  OBVIOUS
<1>7. Max(S) \in S /\ Min(S) \in S /\ \A x \in S : x <= Max(S)
  BY <1>3, <1>5, Bounds
<1>8. Latest(s) = Max(S) /\ Soonest(s) = Min(S)
  BY <1>6 DEF Latest, Soonest
<1> HIDE DEF S
<1>9. \A k \in DOMAIN s : order[s[k]].ready \in S
  BY <1>6
<1> QED
  BY <1>1, <1>5, <1>7, <1>8, <1>9

\* The times along a route, and what it costs.
LEMMA Timetable ==
  ASSUME OrderType, NEW s, Route(s)
  PROVE  /\ \A k \in DOMAIN s : /\ Leg(s, k) \in Nat /\ Arrival(s, k) \in Int
                                /\ ExtraWait(s, k) \in Int /\ FoodAge(s, k) \in Nat
         /\ SoloMinutes(s) \in Nat /\ TripMinutes(s) \in Nat
         /\ Saving(s) \in Int /\ Cost(s) \in Nat
<1>1. DOMAIN s = 1 .. Len(s) /\ Len(s) \in Nat /\ Len(s) > 0 /\ \A k \in DOMAIN s : s[k] \in Ids
  BY DEF Route
<1>2. \A k \in DOMAIN s : /\ order[s[k]].at \in Int /\ order[s[k]].ready \in Int
                          /\ order[s[k]].promise \in Int
  BY <1>1 DEF OrderType
<1>3. Kitchen \in Int
  BY DEF Kitchen
<1>4. \A k \in DOMAIN s : IsFiniteSet(1 .. k)
  <2> TAKE k \in DOMAIN s
  <2>1. k \in Int /\ 1 \in Int
    BY <1>1
  <2> QED
    BY <2>1, FS_Interval
<1>5. IsFiniteSet(DOMAIN s)
  BY <1>1, <1>4
<1>6. ASSUME NEW k \in DOMAIN s PROVE Leg(s, k) \in Nat
  <2>1. (IF k = 1 THEN Kitchen ELSE order[s[k - 1]].at) \in Int
    BY <1>1, <1>2, <1>3
  <2> QED
    BY <1>2, <2>1, Drives DEF Leg
<1>7. ASSUME NEW k \in DOMAIN s
      PROVE  SumFunction([i \in 1 .. k |-> Leg(s, i)]) \in Nat
  <2> DEFINE f == [i \in 1 .. k |-> Leg(s, i)]
  <2>1. 1 .. k \subseteq DOMAIN s
    BY <1>1
  <2>2. f \in [1 .. k -> Nat]
    BY <1>6, <2>1
  <2> HIDE DEF f
  <2>3. SumFunction(f) \in Nat
    BY <1>4, <2>2, SumNat
  <2> QED
    BY <2>3 DEF f
<1>8. Latest(s) \in Int /\ \A k \in DOMAIN s : order[s[k]].ready <= Latest(s)
  BY Packing
<1>9. ASSUME NEW k \in DOMAIN s
      PROVE  Arrival(s, k) \in Int /\ ExtraWait(s, k) \in Int /\ FoodAge(s, k) \in Nat
  <2>1. Arrival(s, k) \in Int /\ Latest(s) <= Arrival(s, k)
    BY <1>7, <1>8 DEF Arrival
  <2>2. SoloArrival(s[k]) \in Int
    <3>1. order[s[k]].at \in Int /\ order[s[k]].ready \in Int
      BY <1>2
    <3>2. DriveMin(Kitchen, order[s[k]].at) \in Nat
      BY <1>3, <3>1, Drives
    <3> QED
      BY <3>1, <3>2 DEF SoloArrival
  <2> QED
    BY <1>2, <1>8, <2>1, <2>2 DEF ExtraWait, FoodAge
<1>10. TripMinutes(s) \in Nat
  <2> DEFINE f == [i \in DOMAIN s |-> Leg(s, i)]
  <2>1. f \in [DOMAIN s -> Nat]
    BY <1>6
  <2> HIDE DEF f
  <2>2. SumFunction(f) \in Nat
    BY <1>5, <2>1, SumNat
  <2>3. DriveMin(order[s[Len(s)]].at, Kitchen) \in Nat
    <3>1. order[s[Len(s)]].at \in Int
      BY <1>1, <1>2
    <3> QED
      BY <1>3, <3>1, Drives
  <2> QED
    BY <2>2, <2>3 DEF f, TripMinutes
<1>11. SoloMinutes(s) \in Nat
  <2> DEFINE f == [i \in DOMAIN s |-> 2 * DriveMin(Kitchen, order[s[i]].at)]
  <2>1. \A i \in DOMAIN s : DriveMin(Kitchen, order[s[i]].at) \in Nat
    BY <1>2, <1>3, Drives
  <2>2. f \in [DOMAIN s -> Nat]
    BY <2>1
  <2> HIDE DEF f
  <2>3. SumFunction(f) \in Nat
    BY <1>5, <2>2, SumNat
  <2> QED
    BY <2>3 DEF f, SoloMinutes
<1>12. Cost(s) \in Nat
  <2> DEFINE f == [k \in DOMAIN s |-> FoodAge(s, k)]
  <2>1. f \in [DOMAIN s -> Nat]
    BY <1>9
  <2> HIDE DEF f
  <2>2. SumFunction(f) \in Nat
    BY <1>5, <2>1, SumNat
  <2> QED
    BY <1>10, <2>2 DEF f, Cost
<1> QED
  BY <1>6, <1>9, <1>10, <1>11, <1>12 DEF Saving

\* bestRoute answers whenever some drop order is legal.
LEMMA BestExists ==
  ASSUME OrderType, NEW ids \in SUBSET Ids, ids # {}, NEW s \in Sequences(ids), Legal(s)
  PROVE  BestRoutes(ids) # {}
<1> DEFINE L == {t \in Sequences(ids) : Legal(t)}
           C == {Cost(t) : t \in L}
<1>1. \A t \in L : Cost(t) \in Nat
  BY SequencesOf, Timetable
<1>2. C \in SUBSET Nat /\ C # {}
  BY <1>1
<1>3. PICK n \in C : \A m \in C : n <= m
  BY <1>2, Least
<1>4. Min(C) \in C
  BY <1>3 DEF Min
<1> QED
  BY <1>4 DEF BestRoutes, Cheapest

LEMMA BestAre ==
  ASSUME NEW ids, NEW t \in BestRoutes(ids)
  PROVE  t \in Sequences(ids) /\ Legal(t)
BY DEF BestRoutes, Cheapest

\* explain: a route that is not legal breaks a rule it knows.
LEMMA Explained ==
  ASSUME OrderType, NEW s, Route(s), ~ Legal(s)
  PROVE  Explain(s) # {}
<1>1. CASE AreaIssues(ToSet(s)) # {}
  <2>1. Breaks(s, "area")
    BY <1>1 DEF Breaks
  <2> QED
    BY <2>1 DEF Explain
<1>2. CASE ~ (Latest(s) - Soonest(s) <= ReadyGapMin)
  <2>1. Latest(s) - Soonest(s) > ReadyGapMin
    BY <1>2, Packing, RoutesAssumption
  <2>2. Breaks(s, "ready")
    BY <2>1 DEF Breaks
  <2> QED
    BY <2>2 DEF Explain
<1>3. ASSUME NEW k \in DOMAIN s, ~ (ExtraWait(s, k) <= MaxExtraMin) PROVE Explain(s) # {}
  <2>1. ExtraWait(s, k) > MaxExtraMin
    BY <1>3, Timetable, RoutesAssumption
  <2>2. Breaks(s, "wait")
    BY <2>1 DEF Breaks
  <2> QED
    BY <2>2 DEF Explain
<1>4. ASSUME NEW k \in DOMAIN s, ~ (FoodAge(s, k) <= FoodAgeMaxMin) PROVE Explain(s) # {}
  <2>1. FoodAge(s, k) > FoodAgeMaxMin
    BY <1>4, Timetable, RoutesAssumption
  <2>2. Breaks(s, "age")
    BY <2>1 DEF Breaks
  <2> QED
    BY <2>2 DEF Explain
<1>5. ASSUME NEW k \in DOMAIN s, ~ (Arrival(s, k) <= order[s[k]].promise) PROVE Explain(s) # {}
  <2>1. order[s[k]].promise \in Int
    BY <1>5, Packing DEF OrderType
  <2>2. Arrival(s, k) > order[s[k]].promise
    BY <1>5, <2>1, Timetable
  <2>3. Breaks(s, "promise")
    BY <2>2 DEF Breaks
  <2> QED
    BY <2>3 DEF Explain
<1> QED
  BY <1>1, <1>2, <1>3, <1>4, <1>5 DEF Legal

\* Sets of two.
LEMMA Two ==
  ASSUME NEW o, NEW p, o # p
  PROVE  IsFiniteSet({o, p}) /\ Cardinality({o, p}) = 2
<1>1. {o} \cup {p} = {o, p} /\ p \notin {o}
  OBVIOUS
<1>2. IsFiniteSet({o}) /\ Cardinality({o}) = 1
  BY FS_Singleton
<1>3. IsFiniteSet({o} \cup {p}) /\ Cardinality({o} \cup {p}) = 1 + 1
  BY <1>1, <1>2, FS_AddElement
<1> QED
  BY <1>1, <1>3

LEMMA TwoAre ==
  ASSUME NEW ps, IsFiniteSet(ps), Cardinality(ps) = 2
  PROVE  \E x, y : ps = {x, y} /\ x # y
<1>1. ps # {}
  BY FS_EmptySet
<1>2. PICK x \in ps : TRUE
  BY <1>1
<1>3. IsFiniteSet(ps \ {x}) /\ Cardinality(ps \ {x}) = 1
  BY <1>2, FS_RemoveElement
<1>4. PICK y : ps \ {x} = {y}
  BY <1>3, FS_Singleton
<1>5. ps = {x, y} /\ x # y
  BY <1>2, <1>4
<1> QED
  BY <1>5

\* Two orders ride the same way round whoever is first.
LEMMA PairSaving ==
  ASSUME OrderType, NEW o \in Ids, NEW p \in Ids, o # p, NEW s \in Sequences({o, p})
  PROVE  /\ s \in [1 .. 2 -> {o, p}] /\ Len(s) = 2 /\ s[1] # s[2]
         /\ Saving(s) = DriveMin(Kitchen, order[o].at) + DriveMin(Kitchen, order[p].at)
                          - DriveMin(order[o].at, order[p].at)
<1>1. IsFiniteSet({o, p}) /\ Cardinality({o, p}) = 2
  BY Two
<1>2. s \in [1 .. 2 -> {o, p}] /\ s[1] # s[2] /\ Len(s) = 2 /\ DOMAIN s = 1 .. 2
  <2>1. s \in [1 .. 2 -> {o, p}] /\ \A i, j \in 1 .. 2 : i # j => s[i] # s[j]
    BY <1>1 DEF Sequences, SetToSeqs
  <2>2. Len(s) = 2
    BY <1>1, SequencesOf
  <2> QED
    BY <2>1, <2>2
<1>3. /\ order[o].at \in Int /\ order[p].at \in Int /\ Kitchen \in Int
  BY DEF OrderType, Kitchen
<1> DEFINE do == DriveMin(Kitchen, order[o].at)
           dp == DriveMin(Kitchen, order[p].at)
           op == DriveMin(order[o].at, order[p].at)
           legs == [i \in 1 .. 2 |-> Leg(s, i)]
           solo == [i \in 1 .. 2 |-> 2 * DriveMin(Kitchen, order[s[i]].at)]
<1>4. /\ do \in Nat /\ dp \in Nat /\ op \in Nat
      /\ DriveMin(order[o].at, Kitchen) = do /\ DriveMin(order[p].at, Kitchen) = dp
      /\ DriveMin(order[p].at, order[o].at) = op
  BY <1>3, Drives
<1>5. /\ legs[1] = DriveMin(Kitchen, order[s[1]].at)
      /\ legs[2] = DriveMin(order[s[1]].at, order[s[2]].at)
      /\ solo[1] = 2 * DriveMin(Kitchen, order[s[1]].at)
      /\ solo[2] = 2 * DriveMin(Kitchen, order[s[2]].at)
  BY DEF Leg
<1>6. (s[1] = o /\ s[2] = p) \/ (s[1] = p /\ s[2] = o)
  BY <1>2
<1>7. /\ legs[1] \in Nat /\ legs[2] \in Nat /\ solo[1] \in Nat /\ solo[2] \in Nat
      /\ solo[1] + solo[2] = 2 * do + 2 * dp
      /\ legs[1] + legs[2] + DriveMin(order[s[2]].at, Kitchen) = do + op + dp
  <2> HIDE DEF legs, solo, do, dp, op
  <2>1. CASE s[1] = o /\ s[2] = p
    BY <1>4, <1>5, <2>1 DEF do, dp, op
  <2>2. CASE s[1] = p /\ s[2] = o
    BY <1>4, <1>5, <2>2 DEF do, dp, op
  <2> QED
    BY <1>6, <2>1, <2>2
<1>8. legs \in [1 .. 2 -> Nat] /\ solo \in [1 .. 2 -> Nat]
  <2>1. \A i \in 1 .. 2 : i = 1 \/ i = 2
    OBVIOUS
  <2> QED
    BY <1>7, <2>1
<1>9. SumFunction(legs) = legs[1] + legs[2] /\ SumFunction(solo) = solo[1] + solo[2]
  <2> HIDE DEF legs, solo
  <2> QED
    BY <1>8, SumTwo
<1>10. SoloMinutes(s) = solo[1] + solo[2]
  BY <1>2, <1>9 DEF SoloMinutes
<1>11. TripMinutes(s) = legs[1] + legs[2] + DriveMin(order[s[2]].at, Kitchen)
  BY <1>2, <1>9 DEF TripMinutes
<1> HIDE DEF legs, solo, do, dp, op
<1>12. Saving(s) = (2 * do + 2 * dp) - (do + op + dp)
  BY <1>7, <1>10, <1>11 DEF Saving
<1>13. Saving(s) = do + dp - op
  BY <1>4, <1>12 DEF do, dp, op
<1> QED
  BY <1>2, <1>13 DEF do, dp, op

\* formTrips goes on as long as two orders may ride together and save time.
LEMMA PairsSave ==
  ASSUME OrderType, MaxOrders > 1, NEW orders \in SUBSET Ids,
         NEW o \in orders, NEW p \in orders, o # p,
         NEW s \in Sequences({o, p}), Legal(s), Saving(s) > 0
  PROVE  BestPairs(orders) # {}
<1> DEFINE save == [w \in orders \X orders |->
                      DriveMin(Kitchen, order[w[1]].at) + DriveMin(Kitchen, order[w[2]].at)
                        - DriveMin(order[w[1]].at, order[w[2]].at)]
           routes == UNION {BestRoutes(ps) : ps \in Pairs(orders)}
           all == {save[w] : w \in orders \X orders}
           savings == {Saving(t) : t \in routes}
<1>1. IsFiniteSet(all)
  <2>1. IsFiniteSet(orders \X orders)
    BY IdsFinite, FS_Product
  <2>2. DOMAIN save = orders \X orders
    OBVIOUS
  <2> HIDE DEF save
  <2> QED
    BY <2>1, <2>2, Values
<1>2. ASSUME NEW t \in routes PROVE Saving(t) \in all /\ Saving(t) \in Int
  <2>1. PICK ps \in SUBSET orders : Cardinality(ps) = 2 /\ t \in BestRoutes(ps)
    BY DEF Pairs
  <2>2. PICK x, y : ps = {x, y} /\ x # y
    BY <2>1, IdsFinite, TwoAre
  <2>3. x \in orders /\ y \in orders /\ x \in Ids /\ y \in Ids
    BY <2>1, <2>2
  <2>4. t \in Sequences({x, y})
    BY <2>1, <2>2, BestAre
  <2>5. Saving(t) = save[<<x, y>>]
    BY <2>2, <2>3, <2>4, PairSaving
  <2>6. Route(t)
    <3>1. {x, y} \in SUBSET Ids /\ {x, y} # {}
      BY <2>3
    <3> QED
      BY <2>4, <3>1, SequencesOf
  <2> HIDE DEF save
  <2> QED
    BY <2>3, <2>5, <2>6, Timetable
<1>3. {o, p} \in Pairs(orders)
  BY Two DEF Pairs
<1>4. PICK t \in BestRoutes({o, p}) : TRUE
  BY BestExists
<1>5. t \in routes
  BY <1>3, <1>4
<1>6. Saving(t) = Saving(s)
  BY <1>4, BestAre, PairSaving
<1> HIDE DEF all, routes
<1>7. IsFiniteSet(savings) /\ savings \in SUBSET Int /\ savings # {}
  <2>1. savings \in SUBSET all
    BY <1>2
  <2> QED
    BY <1>1, <1>2, <1>5, <2>1, FS_Subset
<1>8. Max(savings) \in savings /\ Saving(t) <= Max(savings)
  BY <1>5, <1>7, Bounds
<1>9. PICK u \in routes : Saving(u) = Max(savings)
  BY <1>8
<1>10. Max(savings) > 0
  BY <1>2, <1>5, <1>6, <1>7, <1>8
<1>11. u \in Savers(routes, 0)
  BY <1>9, <1>10 DEF Savers
<1>12. MaxOrders \in Int /\ ~ (MaxOrders < 2)
  BY RoutesAssumption
<1> QED
  BY <1>11, <1>12 DEF BestPairs, routes

LEMMA PairsAre ==
  ASSUME NEW orders, NEW s \in BestPairs(orders)
  PROVE  \E ps \in SUBSET orders : Cardinality(ps) = 2 /\ s \in BestRoutes(ps) /\ MaxOrders >= 2
<1>1. ~ (MaxOrders < 2) /\ s \in UNION {BestRoutes(ps) : ps \in Pairs(orders)}
  BY DEF BestPairs, Savers
<1> QED
  BY <1>1, RoutesAssumption DEF Pairs

LEMMA GrownAre ==
  ASSUME NEW orders, NEW s, NEW t \in Grown(s, orders)
  PROVE  ~ (Len(s) >= MaxOrders) /\ \E o \in orders \ ToSet(s) : t \in BestRoutes(ToSet(s) \cup {o})
<1>1. ~ (Len(s) >= MaxOrders)
  BY DEF Grown
<1>2. t \in UNION {BestRoutes(ToSet(s) \cup {o}) : o \in orders \ ToSet(s)}
  BY <1>1 DEF Grown, Savers
<1> QED
  BY <1>1, <1>2

\* A shared trip as formTrips may make it.
SharedTrip(s, orders) ==
  /\ s \in Seq(Ids) /\ IsInjective(s) /\ Len(s) \in 2 .. MaxOrders
  /\ ToSet(s) \subseteq orders /\ s \in BestRoutes(ToSet(s))

LEMMA BestIsShared ==
  ASSUME NEW orders \in SUBSET Ids, NEW ids \in SUBSET orders, Cardinality(ids) \in 2 .. MaxOrders,
         NEW s \in BestRoutes(ids)
  PROVE  SharedTrip(s, orders)
BY BestAre, SequencesOf DEF SharedTrip

LEMMA GrownIsShared ==
  ASSUME NEW orders \in SUBSET Ids, NEW s, SharedTrip(s, orders),
         NEW t \in (IF Grown(s, orders) = {} THEN {s} ELSE Grown(s, orders))
  PROVE  SharedTrip(t, orders)
<1>1. CASE t = s
  BY <1>1
<1>2. CASE t \in Grown(s, orders)
  <2>1. PICK o \in orders \ ToSet(s) : ~ (Len(s) >= MaxOrders) /\ t \in BestRoutes(ToSet(s) \cup {o})
    BY <1>2, GrownAre
  <2>2. ToSet(s) \subseteq orders /\ IsFiniteSet(ToSet(s)) /\ Cardinality(ToSet(s)) \in Nat
    BY IdsFinite DEF SharedTrip
  <2>3. Cardinality(ToSet(s)) = Len(s)
    <3>1. s \in Sequences(ToSet(s))
      BY BestAre DEF SharedTrip
    <3> QED
      BY <2>2, <3>1, SequencesOf
  <2>4. Cardinality(ToSet(s) \cup {o}) = Len(s) + 1
    BY <2>1, <2>2, <2>3, FS_AddElement
  <2>5. Len(s) \in Nat /\ Len(s) >= 2 /\ MaxOrders \in Nat
    BY RoutesAssumption DEF SharedTrip
  <2>6. Cardinality(ToSet(s) \cup {o}) \in 2 .. MaxOrders
    BY <2>1, <2>4, <2>5
  <2>7. ToSet(s) \cup {o} \in SUBSET orders
    BY <2>1, <2>2
  <2> QED
    BY <2>1, <2>6, <2>7, BestIsShared
<1> QED
  BY <1>1, <1>2

LEMMA TripsAre ==
  ASSUME NEW orders \in SUBSET Ids, NEW s \in BestTrips(orders)
  PROVE  SharedTrip(s, orders)
<1> DEFINE grow(t) == IF Grown(t, orders) = {} THEN {t} ELSE Grown(t, orders)
<1>1. PICK u \in BestPairs(orders) : s \in UNION {grow(t) : t \in grow(u)}
  BY DEF BestTrips
<1>2. PICK t \in grow(u) : s \in grow(t)
  BY <1>1
<1>3. PICK ps \in SUBSET orders : Cardinality(ps) = 2 /\ u \in BestRoutes(ps) /\ MaxOrders >= 2
  BY <1>1, PairsAre
<1>4. SharedTrip(u, orders)
  <2>1. Cardinality(ps) \in 2 .. MaxOrders
    BY <1>3, RoutesAssumption
  <2> QED
    BY <1>3, <2>1, BestIsShared
<1>5. SharedTrip(t, orders)
  BY <1>2, <1>4, GrownIsShared
<1> QED
  BY <1>2, <1>5, GrownIsShared

\* The riders a join has to compare: none, if none is offered.
LEMMA JoinsAre ==
  ASSUME NEW stops, NEW o \in Joins(stops)
  PROVE  o \in left
<1> DEFINE ways == UNION {{x} \X LooseRoutes(stops) \X BestRoutes(stops \cup {x}) : x \in left}
<1>1. \E w \in ways : w[1] = o
  BY DEF Joins
<1>2. PICK w \in ways : w[1] = o
  BY <1>1
<1>3. PICK x \in left : w \in {x} \X LooseRoutes(stops) \X BestRoutes(stops \cup {x})
  BY <1>2
<1> QED
  BY <1>2, <1>3
----------------------------------------------------------------------------
(* No step changes where the orders go, hence no step changes the routes.  *)

LEMMA LatestStays == ASSUME order' = order, NEW s PROVE Latest(s)' = Latest(s) /\ Soonest(s)' = Soonest(s)
BY DEF Latest, Soonest

LEMMA LegStays == ASSUME order' = order, NEW s, NEW k PROVE Leg(s, k)' = Leg(s, k)
BY DEF Leg

LEMMA ArrivalStays ==
  ASSUME order' = order, NEW s, NEW k
  PROVE  Arrival(s, k)' = Arrival(s, k) /\ ExtraWait(s, k)' = ExtraWait(s, k) /\ FoodAge(s, k)' = FoodAge(s, k)
<1>1. Arrival(s, k)' = Arrival(s, k)
  <2>1. [i \in 1 .. k |-> Leg(s, i)]' = [i \in 1 .. k |-> Leg(s, i)]
    BY LegStays
  <2> QED
    BY <2>1, LatestStays DEF Arrival
<1> QED
  BY <1>1 DEF ExtraWait, FoodAge, SoloArrival

LEMMA TripStays ==
  ASSUME order' = order, NEW s
  PROVE  TripMinutes(s)' = TripMinutes(s) /\ SoloMinutes(s)' = SoloMinutes(s)
         /\ Saving(s)' = Saving(s) /\ Cost(s)' = Cost(s)
<1>1. TripMinutes(s)' = TripMinutes(s)
  <2>1. [i \in DOMAIN s |-> Leg(s, i)]' = [i \in DOMAIN s |-> Leg(s, i)]
    BY LegStays
  <2> QED
    BY <2>1 DEF TripMinutes
<1>2. SoloMinutes(s)' = SoloMinutes(s)
  BY DEF SoloMinutes
<1>3. Cost(s)' = Cost(s)
  <2>1. [k \in DOMAIN s |-> FoodAge(s, k)]' = [k \in DOMAIN s |-> FoodAge(s, k)]
    BY ArrivalStays
  <2> QED
    BY <1>1, <2>1 DEF Cost
<1> QED
  BY <1>1, <1>2, <1>3 DEF Saving

LEMMA LegalStays == ASSUME order' = order, NEW s PROVE Legal(s)' = Legal(s)
<1>1. AreaIssues(ToSet(s))' = AreaIssues(ToSet(s))
  BY DEF AreaIssues, TooFarApart, OtherDirection
<1>2. \A k : /\ Arrival(s, k)' = Arrival(s, k) /\ ExtraWait(s, k)' = ExtraWait(s, k)
             /\ FoodAge(s, k)' = FoodAge(s, k)
  BY ArrivalStays
<1> QED
  BY <1>1, <1>2, LatestStays DEF Legal

LEMMA BestStays == ASSUME order' = order, NEW ids PROVE BestRoutes(ids)' = BestRoutes(ids)
<1> DEFINE L == {s \in Sequences(ids) : Legal(s)}
<1>1. L' = L
  BY LegalStays
<1>2. Cheapest(L)' = Cheapest(L)
  <2>1. \A s : Cost(s)' = Cost(s)
    BY TripStays
  <2>2. {Cost(s) : s \in L}' = {Cost(s) : s \in L}
    BY <1>1, <2>1
  <2> HIDE DEF L
  <2> QED
    BY <1>1, <2>1, <2>2 DEF Cheapest
<1> QED
  BY <1>2 DEF BestRoutes

LEMMA CodStays == ASSUME order' = order, NEW ids PROVE Cod(ids)' = Cod(ids)
BY DEF Cod

----------------------------------------------------------------------------
(* The inductive invariant, by parts.                                      *)

Early == {"riders", "pool"}
Reading == Early \cup {"trips"}
Joining == Reading \cup {"join"}
Forming == Joining \cup {"form"}
Planning == Forming \cup {"carry"}
Applying == {"apply", "over"}

Answers == [order : Ids, kind : {"join", "trip", "rider", "porter"}, rider : Riders \cup {"porter"},
            orders : Seq(Ids), trip : Nat]

Types ==
  /\ order \in [Ids -> OrderKinds] /\ rider \in [Riders -> RiderKinds]
  /\ carrier \in [Ids -> Riders \cup {"nobody", "cancelled"}]
  /\ trips \in Seq([rider : Riders, orders : SUBSET Ids])
  /\ phase \in Planning \cup Applying
  /\ seen \in [packing : SUBSET Riders, pool : SUBSET Ids, trips : SUBSET (Nat \X SUBSET Ids)]
  /\ left \subseteq Ids /\ plans \subseteq Seq(Ids) /\ said \in Seq(Answers)
  /\ turn \in Nat \ {0} /\ done \subseteq Ids /\ meddled \subseteq Ids

\* What is on a trip is carried by its rider, and fits.
CarriesInv ==
  \A t \in DOMAIN trips :
    /\ \A o \in On(t) : carrier[o] = trips[t].rider
    /\ Cardinality(On(t)) <= rider[trips[t].rider].capacity

\* What each phase leaves behind.
PhaseInv ==
  /\ phase \in Early => left = {} /\ seen.pool = {}
  /\ phase \in Reading => said = <<>> /\ seen.trips = {}
  /\ phase \in Joining => plans = {}
  /\ phase \in Forming => /\ \A i \in DOMAIN said : said[i].kind = "join"
                          /\ \A s \in plans : Len(s) # 1
  /\ phase \in Planning => done = {} /\ turn = 1
  /\ phase \notin Forming => left = {}
  /\ phase \in Applying => plans = {}
  /\ phase = "over" /\ AutoDispatch => turn > Len(said)

Answered == {said[i].order : i \in DOMAIN said}
Planned == UNION {ToSet(s) : s \in plans}

\* A trip that suggestions() may propose.
Sensible(s) ==
  /\ s \in Seq(Ids) /\ IsInjective(s) /\ Len(s) \in 1 .. MaxOrders
  /\ Len(s) > 1 => s \in BestRoutes(ToSet(s))

\* An order read waits for a trip, is planned, or has an answer.
PlanInv ==
  /\ seen.pool = left \cup Planned \cup Answered
  /\ left \cap Planned = {} /\ left \cap Answered = {} /\ Planned \cap Answered = {}
  /\ \A s \in plans : Sensible(s)
  /\ \A s, u \in plans : s # u => ToSet(s) \cap ToSet(u) = {}

\* The rider can take the trip.
Fits(s, r) ==
  /\ r \in Riders /\ rider[r].capacity >= Len(s)
  /\ Cod(ToSet(s)) > 0 => Cod(ToSet(s)) <= rider[r].headroom

\* An answer on its own, ...
Sound(s) ==
  /\ s.kind = "join" => /\ s.orders = <<s.order>> /\ s.trip \in DOMAIN trips
                        /\ s.rider = trips[s.trip].rider
  /\ s.kind # "join" => /\ Sensible(s.orders) /\ s.order \in ToSet(s.orders)
                        /\ ToSet(s.orders) \subseteq Answered
  /\ s.kind \in {"trip", "rider"} => Fits(s.orders, s.rider)
  /\ s.kind = "porter" => s.rider = "porter"

\* ... and two of them: answers that share an order are for one plan, and no
\* rider has two.
Agree(s, u) ==
  /\ ToSet(s.orders) \cap ToSet(u.orders) # {} =>
       s.kind = u.kind /\ s.rider = u.rider /\ s.orders = u.orders
  /\ s.kind \in {"trip", "rider"} /\ u.kind \in {"trip", "rider"} /\ s.rider = u.rider =>
       s.orders = u.orders

SaidInv ==
  /\ \A i \in DOMAIN said : Sound(said[i])
  /\ \A i, j \in DOMAIN said : /\ said[i].order = said[j].order => i = j
                               /\ Agree(said[i], said[j])
  /\ \A u \in seen.trips : u[1] \in DOMAIN trips

\* Nobody else gives out what the pass has read.
FreeInv == \A o \in seen.pool : carrier[o] = "nobody" \/ o \in meddled \/ o \in done

\* The orders of a plan are applied together.
DoneInv ==
  \A i \in DOMAIN said : \A o \in ToSet(said[i].orders) :
    o \in done => ToSet(said[i].orders) \subseteq done

\* An answer that autoDispatch applies.
Due(i) == said[i].kind \in {"trip", "rider"} /\ order[said[i].order].ready <= DueMin

\* The trips the pass has read carry nothing it gives out; with nobody
\* meddling, what is applied is carried, and what is due is applied.
DidInv ==
  meddled = {} =>
    /\ \A u \in seen.trips : On(u[1]) \cap seen.pool = {}
    /\ \A i \in DOMAIN said : said[i].kind = "join" => On(said[i].trip) \cap seen.pool = {}
    /\ \A i \in DOMAIN said :
         said[i].kind \in {"trip", "rider"} /\ said[i].order \in done =>
           carrier[said[i].order] = said[i].rider
    /\ \A i \in DOMAIN said : i < turn /\ Due(i) => said[i].order \in done

\* The orders that ride alone.
Alone == {s[1] : s \in {u \in plans : Len(u) = 1}}
         \cup {said[i].order : i \in {j \in DOMAIN said : said[j].kind # "join" /\ Len(said[j].orders) = 1}}

LonelyInv ==
  MaxOrders > 1 =>
    \A o, p \in Alone : o # p => \A s \in Sequences({o, p}) : ~ (Legal(s) /\ Saving(s) > 0)

IInv ==
  /\ Types /\ CarriesInv /\ PhaseInv /\ PlanInv /\ SaidInv
  /\ FreeInv /\ DoneInv /\ DidInv /\ LonelyInv

----------------------------------------------------------------------------
(* What a step that leaves something alone keeps.                          *)

LEMMA OnTrips ==
  ASSUME Types
  PROVE  /\ DOMAIN trips = 1 .. Len(trips) /\ Len(trips) \in Nat
         /\ \A t \in DOMAIN trips : /\ t \in Nat /\ trips[t] \in [rider : Riders, orders : SUBSET Ids]
                                    /\ trips[t].rider \in Riders /\ On(t) \in SUBSET Ids
<1> DEFINE S == [rider : Riders, orders : SUBSET Ids]
<1>1. trips \in Seq(S)
  BY DEF Types
<1> HIDE DEF S
<1>2. DOMAIN trips = 1 .. Len(trips) /\ Len(trips) \in Nat
  BY <1>1
<1>3. ASSUME NEW t \in DOMAIN trips PROVE t \in Nat /\ trips[t] \in S
  <2>1. t \in 1 .. Len(trips)
    BY <1>2
  <2>2. t \in Nat
    <3>1. \A n \in Nat : \A i \in 1 .. n : i \in Nat
      OBVIOUS
    <3> QED
      BY <1>2, <2>1, <3>1
  <2> QED
    BY <1>1, <2>1, <2>2
<1> QED
  BY <1>2, <1>3 DEF On, S

LEMMA WorldStays ==
  ASSUME world' = world
  PROVE  /\ \A s : Legal(s)' = Legal(s) /\ Saving(s)' = Saving(s) /\ Sensible(s)' = Sensible(s)
         /\ \A s, r : Fits(s, r)' = Fits(s, r)
<1>1. order' = order /\ rider' = rider
  BY DEF world
<1>2. ASSUME NEW s PROVE Sensible(s)' = Sensible(s)
  BY <1>1, BestStays DEF Sensible
<1>3. ASSUME NEW s, NEW r PROVE Fits(s, r)' = Fits(s, r)
  BY <1>1, CodStays DEF Fits
<1> QED
  BY <1>1, <1>2, <1>3, LegalStays, TripStays

LEMMA SaidStays ==
  ASSUME Types, SaidInv, world' = world, said' = said, seen'.trips \subseteq seen.trips,
         DOMAIN trips \subseteq DOMAIN trips',
         \A t \in DOMAIN trips : trips'[t].rider = trips[t].rider
  PROVE  SaidInv'
<1>1. Answered' = Answered
  BY DEF Answered
<1>2. ASSUME NEW i \in DOMAIN said PROVE Sound(said[i])'
  <2>1. Sound(said[i])
    BY DEF SaidInv
  <2> QED
    BY <1>1, <2>1, WorldStays DEF Sound
<1>3. \A i, j \in DOMAIN said : Agree(said[i], said[j])'
  BY DEF SaidInv, Agree
<1> QED
  BY <1>2, <1>3 DEF SaidInv

LEMMA PlanStays ==
  ASSUME PlanInv, LonelyInv, world' = world, seen'.pool = seen.pool, left' = left, plans' = plans,
         said' = said
  PROVE  PlanInv' /\ LonelyInv'
<1>1. Answered' = Answered /\ Planned' = Planned /\ Alone' = Alone
  BY DEF Answered, Planned, Alone
<1>2. PlanInv'
  BY <1>1, WorldStays DEF PlanInv
<1>3. LonelyInv'
  BY <1>1, WorldStays DEF LonelyInv
<1> QED
  BY <1>2, <1>3

LEMMA LonelyStays ==
  ASSUME LonelyInv, world' = world, Alone' \subseteq Alone
  PROVE  LonelyInv'
BY WorldStays DEF LonelyInv

\* Steps that plan, and say and apply nothing.
LEMMA Still ==
  ASSUME IInv, UNCHANGED <<world, db, said, turn, done, meddled>>,
         seen'.trips \subseteq seen.trips, seen'.pool = seen.pool
  PROVE  CarriesInv' /\ SaidInv' /\ FreeInv' /\ DoneInv' /\ DidInv'
<1>0. carrier' = carrier /\ trips' = trips /\ rider' = rider /\ order' = order
  BY DEF db, world
<1>1. CarriesInv'
  BY <1>0 DEF IInv, CarriesInv, On
<1>2. SaidInv'
  BY <1>0, SaidStays DEF IInv
<1>3. FreeInv'
  BY <1>0 DEF IInv, FreeInv
<1>4. DoneInv'
  BY DEF IInv, DoneInv
<1>5. DidInv'
  BY <1>0 DEF IInv, DidInv, On, Due
<1> QED
  BY <1>1, <1>2, <1>3, <1>4, <1>5

----------------------------------------------------------------------------
(* The reads.                                                              *)

LEMMA ReadRidersKeeps == ASSUME IInv, ReadRiders PROVE IInv'
<1> USE DEF ReadRiders
<1>0. Types /\ PhaseInv
  BY DEF IInv
<1>1. /\ seen'.pool = seen.pool /\ seen'.trips = seen.trips /\ phase = "riders" /\ phase' = "pool"
      /\ seen' = [seen EXCEPT !.packing = {trips[t].rider : t \in {u \in DOMAIN trips : On(u) # {}}}]
  BY <1>0 DEF Types
<1>2. Types'
  <2>1. {trips[t].rider : t \in {u \in DOMAIN trips : On(u) # {}}} \subseteq Riders
    BY <1>0, OnTrips
  <2> QED
    BY <1>0, <1>1, <2>1 DEF Types, world, db, Planning, Forming, Joining, Reading, Early
<1>3. PhaseInv'
  BY <1>0, <1>1 DEF PhaseInv, Planning, Forming, Joining, Reading, Early, Applying
<1>4. PlanInv' /\ LonelyInv'
  BY <1>1, PlanStays DEF IInv
<1>5. CarriesInv' /\ SaidInv' /\ FreeInv' /\ DoneInv' /\ DidInv'
  BY <1>1, Still
<1> QED
  BY <1>2, <1>3, <1>4, <1>5 DEF IInv

\* What the pool holds nobody carries.
LEMMA ReadPoolKeeps == ASSUME IInv, ReadPool PROVE IInv'
<1> USE DEF ReadPool
<1>0. Types /\ PhaseInv /\ PlanInv /\ SaidInv
  BY DEF IInv
<1>1. /\ phase = "pool" /\ phase' = "trips" /\ Waiting \subseteq Ids
      /\ seen'.pool = Waiting /\ seen'.trips = seen.trips
      /\ carrier' = carrier /\ trips' = trips /\ rider' = rider /\ order' = order
  BY <1>0 DEF Types, Waiting, world, db
<1>2. said = <<>> /\ seen.trips = {} /\ plans = {} /\ done = {} /\ turn = 1
  BY <1>0, <1>1 DEF PhaseInv, Planning, Forming, Joining, Reading, Early
<1>3. Types'
  BY <1>0, <1>1 DEF Types, Planning, Forming, Joining, Reading, Early
<1>4. CarriesInv'
  BY <1>1 DEF IInv, CarriesInv, On
<1>5. PhaseInv'
  BY <1>1, <1>2 DEF PhaseInv, Planning, Forming, Joining, Reading, Early, Applying
<1>6. Planned' = {} /\ Answered' = {} /\ Alone' = {}
  BY <1>2 DEF Planned, Answered, Alone
<1>7. PlanInv'
  BY <1>1, <1>2, <1>6 DEF PlanInv
<1>8. SaidInv'
  BY <1>0, <1>1, <1>2, SaidStays
<1>9. FreeInv'
  BY <1>1 DEF FreeInv, Waiting
<1>10. DoneInv' /\ DidInv'
  BY <1>1, <1>2 DEF DoneInv, DidInv
<1>11. LonelyInv'
  BY <1>6 DEF LonelyInv
<1> QED
  BY <1>3, <1>4, <1>5, <1>7, <1>8, <1>9, <1>10, <1>11 DEF IInv

\* Nor is it on a trip, unless someone has meddled since.
LEMMA ReadTripsKeeps == ASSUME IInv, ReadTrips PROVE IInv'
<1> USE DEF ReadTrips
<1> DEFINE read == {<<t, On(t)>> : t \in {u \in DOMAIN trips : On(u) # {}}}
<1>0. Types /\ PhaseInv /\ PlanInv /\ SaidInv /\ CarriesInv /\ FreeInv
  BY DEF IInv
<1>1. /\ phase = "trips" /\ phase' = "join"
      /\ seen'.pool = seen.pool /\ seen'.trips = read
      /\ carrier' = carrier /\ trips' = trips /\ rider' = rider /\ order' = order
  BY <1>0 DEF Types, world, db
<1>2. said = <<>> /\ plans = {} /\ done = {} /\ turn = 1
  BY <1>0, <1>1 DEF PhaseInv, Planning, Forming, Joining, Reading, Early
<1>3. \A u \in read : u[1] \in DOMAIN trips /\ u \in Nat \X SUBSET Ids
  BY <1>0, OnTrips
<1>4. Types'
  <2>1. read \subseteq Nat \X SUBSET Ids
    BY <1>3
  <2> HIDE DEF read
  <2> QED
    BY <1>0, <1>1, <2>1 DEF Types, Planning, Forming, Joining, Reading, Early
<1> HIDE DEF read
<1>5. CarriesInv'
  BY <1>1 DEF IInv, CarriesInv, On
<1>6. PhaseInv'
  BY <1>0, <1>1, <1>2 DEF PhaseInv, Planning, Forming, Joining, Reading, Early, Applying
<1>7. PlanInv' /\ LonelyInv'
  BY <1>1, PlanStays DEF IInv
<1>8. SaidInv'
  BY <1>1, <1>2, <1>3 DEF SaidInv
<1>9. FreeInv' /\ DoneInv'
  BY <1>0, <1>1, <1>2 DEF FreeInv, DoneInv
<1>10. DidInv'
  <2> SUFFICES ASSUME meddled = {}, NEW u \in read, NEW o \in On(u[1]), o \in seen.pool
               PROVE  FALSE
    BY <1>1, <1>2 DEF DidInv, On
  <2>1. u[1] \in DOMAIN trips /\ carrier[o] = trips[u[1]].rider /\ trips[u[1]].rider \in Riders
    BY <1>0, <1>3, OnTrips DEF CarriesInv
  <2>2. carrier[o] = "nobody"
    BY <1>0, <1>2 DEF FreeInv
  <2> QED
    BY <2>1, <2>2, DispatchAssumption
<1> QED
  BY <1>4, <1>5, <1>6, <1>7, <1>8, <1>9, <1>10 DEF IInv

----------------------------------------------------------------------------
(* The suggestions.                                                        *)

\* What is on a list with more at its end.
LEMMA Appended ==
  ASSUME NEW S, NEW s \in Seq(S), NEW t \in Seq(S)
  PROVE  /\ s \o t \in Seq(S) /\ Len(s \o t) = Len(s) + Len(t)
         /\ \A i \in DOMAIN s : i \in DOMAIN (s \o t) /\ (s \o t)[i] = s[i]
         /\ \A k \in DOMAIN t : Len(s) + k \in DOMAIN (s \o t) /\ (s \o t)[Len(s) + k] = t[k]
         /\ \A i \in DOMAIN (s \o t) : i \notin DOMAIN s =>
              i > Len(s) /\ \E k \in DOMAIN t : i = Len(s) + k
<1>1. \A i \in DOMAIN (s \o t) : i \notin DOMAIN s => i > Len(s) /\ i - Len(s) \in DOMAIN t
                                                     /\ i = Len(s) + (i - Len(s))
  OBVIOUS
<1> QED
  BY <1>1

\* A join adds one answer, for an order that was waiting.
LEMMA JoinKeeps == ASSUME IInv, Join PROVE IInv'
<1> USE DEF Join
<1> DEFINE next == CHOOSE u \in seen.trips : \A v \in seen.trips : u[1] <= v[1]
           r == trips[next[1]].rider
<1>0. Types /\ PhaseInv /\ PlanInv /\ SaidInv
  BY DEF IInv
<1>1. next \in seen.trips
  <2>1. {u[1] : u \in seen.trips} \in SUBSET Nat /\ {u[1] : u \in seen.trips} # {}
    BY <1>0 DEF Types
  <2>2. PICK n \in {u[1] : u \in seen.trips} : \A m \in {u[1] : u \in seen.trips} : n <= m
    BY <2>1, Least
  <2>3. \E u \in seen.trips : \A v \in seen.trips : u[1] <= v[1]
    BY <2>2
  <2> QED
    BY <2>3
<1>2. next[1] \in DOMAIN trips /\ r \in Riders /\ next[1] \in Nat
  BY <1>0, <1>1, OnTrips DEF SaidInv
<1>3. /\ phase = "join" /\ phase' = phase /\ plans' = plans /\ plans = {}
      /\ seen'.pool = seen.pool /\ seen'.trips = seen.trips \ {next}
      /\ seen' = [seen EXCEPT !.trips = @ \ {next}]
      /\ carrier' = carrier /\ trips' = trips /\ rider' = rider /\ order' = order
      /\ done = {} /\ turn = 1 /\ \A i \in DOMAIN said : said[i].kind = "join"
      /\ world' = world /\ db' = db /\ turn' = turn /\ done' = done /\ meddled' = meddled
  BY <1>0 DEF Types, world, db, PhaseInv, Planning, Forming, Joining, Reading, Early
<1>4. \/ said' = said /\ left' = left
      \/ \E o \in left : /\ said' = said \o <<Suggestion(o, "join", r, <<o>>, next[1])>>
                         /\ left' = left \ {o}
  BY JoinsAre DEF Say
<1> HIDE DEF Join, next
<1>5. CASE said' = said /\ left' = left
  <2>1. Types'
    BY <1>0, <1>3, <1>5 DEF Types
  <2>2. PhaseInv'
    BY <1>0, <1>3, <1>5 DEF PhaseInv, Planning, Forming, Joining, Reading, Early, Applying
  <2>3. PlanInv' /\ LonelyInv'
    BY <1>3, <1>5, PlanStays DEF IInv
  <2>4. CarriesInv' /\ SaidInv' /\ FreeInv' /\ DoneInv' /\ DidInv'
    BY <1>3, <1>5, Still
  <2> QED
    BY <2>1, <2>2, <2>3, <2>4 DEF IInv
<1>6. ASSUME NEW o \in left, said' = said \o <<Suggestion(o, "join", r, <<o>>, next[1])>>,
             left' = left \ {o}
      PROVE  IInv'
  <2> DEFINE a == Suggestion(o, "join", r, <<o>>, next[1])
  <2>1. /\ a.order = o /\ a.kind = "join" /\ a.rider = r /\ a.orders = <<o>> /\ a.trip = next[1]
        /\ o \in Ids /\ a \in Answers /\ ToSet(a.orders) = {o}
    <3>1. o \in Ids /\ <<o>> \in Seq(Ids) /\ ToSet(<<o>>) = {o}
      BY <1>0 DEF Types, ToSet
    <3> QED
      BY <1>2, <3>1 DEF Suggestion, Answers
  <2> HIDE DEF a
  <2>2. /\ said \in Seq(Answers) /\ said' \in Seq(Answers) /\ Len(said') = Len(said) + 1
        /\ DOMAIN said \subseteq DOMAIN said' /\ Len(said) + 1 \in DOMAIN said'
        /\ \A i \in DOMAIN said : said'[i] = said[i] /\ i # Len(said) + 1
        /\ said'[Len(said) + 1] = a
        /\ \A i \in DOMAIN said' : i \in DOMAIN said \/ i = Len(said) + 1
    <3>1. said \in Seq(Answers) /\ said' = Append(said, a)
      BY <1>0, <1>6 DEF Types, a
    <3> QED
      BY <2>1, <3>1
  <2>3. Types'
    BY <1>0, <1>3, <1>6, <2>2 DEF Types
  <2>4. CarriesInv'
    BY <1>3 DEF IInv, CarriesInv, On
  <2>5. PhaseInv'
    BY <1>0, <1>3, <1>6, <2>1, <2>2 DEF PhaseInv, Planning, Forming, Joining, Reading, Early, Applying
  <2>6. Answered' = Answered \cup {o} /\ Planned' = {} /\ Planned = {} /\ Alone' = {}
    <3>1. Answered' = Answered \cup {o}
      BY <2>1, <2>2 DEF Answered
    <3>2. \A i \in DOMAIN said' : said'[i].kind = "join"
      BY <1>3, <2>1, <2>2
    <3> QED
      BY <1>3, <3>1, <3>2 DEF Planned, Alone
  <2>7. PlanInv'
    BY <1>0, <1>3, <1>6, <2>6 DEF PlanInv
  <2>8. SaidInv'
    <3>1. \A i \in DOMAIN said : Sound(said[i]) /\ said[i].order \in Answered
      BY <1>0 DEF SaidInv, Answered
    <3>2. o \notin Answered
      BY <1>0 DEF PlanInv
    <3>3. ASSUME NEW i \in DOMAIN said' PROVE Sound(said[i])'
      <4>1. CASE i \in DOMAIN said
        BY <1>3, <2>2, <2>6, <3>1, <4>1, WorldStays DEF Sound
      <4>2. CASE i = Len(said) + 1
        BY <1>2, <1>3, <2>1, <2>2, <4>2 DEF Sound
      <4> QED
        BY <2>2, <4>1, <4>2
    <3>4. \A i \in DOMAIN said : ToSet(said[i].orders) = {said[i].order}
      BY <1>3, <3>1 DEF Sound, ToSet
    <3>5. ASSUME NEW i \in DOMAIN said', NEW j \in DOMAIN said'
          PROVE  said'[i].order = said'[j].order => i = j
      <4>1. CASE i \in DOMAIN said /\ j \in DOMAIN said
        BY <1>0, <2>2, <4>1 DEF SaidInv
      <4> QED
        BY <2>1, <2>2, <3>1, <3>2, <4>1
    <3>6. ASSUME NEW i \in DOMAIN said', NEW j \in DOMAIN said'
          PROVE  Agree(said'[i], said'[j])
      <4>1. said'[i].kind = "join" /\ said'[j].kind = "join"
        BY <1>3, <2>1, <2>2
      <4>2. ToSet(said'[i].orders) = {said'[i].order} /\ ToSet(said'[j].orders) = {said'[j].order}
        BY <2>1, <2>2, <3>4
      <4>3. ToSet(said'[i].orders) \cap ToSet(said'[j].orders) # {} => i = j
        BY <3>5, <4>2
      <4> QED
        BY <4>1, <4>3 DEF Agree
    <3> QED
      BY <1>0, <1>3, <3>3, <3>5, <3>6 DEF SaidInv
  <2>9. FreeInv' /\ DoneInv'
    BY <1>3 DEF IInv, FreeInv, DoneInv
  <2>10. DidInv'
    <3> SUFFICES ASSUME meddled = {} PROVE DidInv'
      BY <1>3 DEF DidInv
    <3>1. DidInv
      BY DEF IInv
    <3>2. \A t : On(t)' = On(t)
      BY <1>3 DEF On
    <3>3. \A u \in seen'.trips : On(u[1])' \cap seen'.pool = {}
      BY <1>3, <3>1, <3>2 DEF DidInv
    <3>4. ASSUME NEW i \in DOMAIN said' PROVE (On(said[i].trip) \cap seen.pool)' = {}
      <4>1. CASE i \in DOMAIN said
        BY <1>3, <2>2, <3>1, <3>2, <4>1 DEF DidInv
      <4>2. CASE i = Len(said) + 1
        BY <1>1, <1>3, <2>1, <2>2, <3>1, <3>2, <4>2 DEF DidInv
      <4> QED
        BY <2>2, <4>1, <4>2
    <3>5. \A i \in DOMAIN said' : said'[i].kind = "join"
      BY <1>3, <2>1, <2>2
    <3>6. \A i : ~ (Due(i)' /\ i \in DOMAIN said')
      BY <3>5 DEF Due
    <3> QED
      BY <3>3, <3>4, <3>5, <3>6 DEF DidInv
  <2>11. LonelyInv'
    BY <2>6 DEF LonelyInv
  <2> QED
    BY <2>3, <2>4, <2>5, <2>7, <2>8, <2>9, <2>10, <2>11 DEF IInv
<1> QED
  BY <1>4, <1>5, <1>6

LEMMA JoinsOverKeeps == ASSUME IInv, JoinsOver PROVE IInv'
<1> USE DEF JoinsOver
<1>0. Types /\ PhaseInv
  BY DEF IInv
<1>1. phase = "join" /\ phase' = "form"
  OBVIOUS
<1>2. Types'
  BY <1>0, <1>1 DEF Types, world, db, Planning, Forming
<1>3. PhaseInv'
  BY <1>0, <1>1 DEF PhaseInv, Planning, Forming, Joining, Reading, Early, Applying
<1>4. PlanInv' /\ LonelyInv'
  BY PlanStays DEF IInv
<1>5. CarriesInv' /\ SaidInv' /\ FreeInv' /\ DoneInv' /\ DidInv'
  BY Still
<1> QED
  BY <1>2, <1>3, <1>4, <1>5 DEF IInv

\* A trip takes its orders out of the waiting ones.
LEMMA FormTripKeeps == ASSUME IInv, FormTrip PROVE IInv'
<1> USE DEF FormTrip
<1>0. Types /\ PhaseInv /\ PlanInv
  BY DEF IInv
<1>1. PICK s \in BestTrips(left) : plans' = plans \cup {s} /\ left' = left \ ToSet(s)
  OBVIOUS
<1>2. /\ phase = "form" /\ phase' = "form" /\ seen' = seen /\ said' = said /\ turn' = turn
      /\ done' = done /\ meddled' = meddled /\ world' = world /\ db' = db
      /\ \A i \in DOMAIN said : said[i].kind = "join"
      /\ carrier' = carrier /\ trips' = trips /\ rider' = rider /\ order' = order
  BY <1>0 DEF PhaseInv, Forming, world, db
<1>3. SharedTrip(s, left)
  BY <1>0, TripsAre DEF Types
<1>4. /\ s \in Seq(Ids) /\ Sensible(s) /\ ToSet(s) \subseteq left /\ Len(s) # 1
  <2>1. Len(s) \in 2 .. MaxOrders /\ MaxOrders \in Nat /\ s \in Seq(Ids)
    BY <1>3, RoutesAssumption DEF SharedTrip
  <2>2. Len(s) \in 1 .. MaxOrders /\ Len(s) # 1
    <3>1. \A n \in 2 .. MaxOrders : n \in 1 .. MaxOrders /\ n # 1
      BY <2>1
    <3> QED
      BY <2>1, <3>1
  <2> QED
    BY <1>3, <2>1, <2>2 DEF SharedTrip, Sensible
<1>5. Types'
  BY <1>0, <1>1, <1>2, <1>4 DEF Types
<1>6. PhaseInv'
  BY <1>0, <1>1, <1>2, <1>4 DEF PhaseInv, Planning, Forming, Joining, Reading, Early, Applying
<1>7. Planned' = Planned \cup ToSet(s) /\ Answered' = Answered /\ Alone' = Alone
  <2>1. Planned' = Planned \cup ToSet(s)
    BY <1>1 DEF Planned
  <2>2. Alone' = Alone
    BY <1>1, <1>2, <1>4 DEF Alone
  <2> QED
    BY <1>2, <2>1, <2>2 DEF Answered
<1>8. PlanInv'
  <2>1. \A u \in plans' : Sensible(u)'
    BY <1>0, <1>1, <1>2, <1>4, WorldStays DEF PlanInv
  <2>2. ASSUME NEW u \in plans PROVE ToSet(u) \cap ToSet(s) = {}
    BY <1>0, <1>4 DEF PlanInv, Planned
  <2>3. \A u, w \in plans' : u # w => ToSet(u) \cap ToSet(w) = {}
    BY <1>0, <1>1, <2>2 DEF PlanInv
  <2>4. ToSet(s) \cap Answered = {}
    BY <1>0, <1>4 DEF PlanInv
  <2>5. /\ seen'.pool = left' \cup Planned' \cup Answered' /\ left' \cap Planned' = {}
        /\ left' \cap Answered' = {} /\ Planned' \cap Answered' = {}
    BY <1>0, <1>1, <1>2, <1>4, <1>7, <2>4 DEF PlanInv
  <2> QED
    BY <2>1, <2>3, <2>5 DEF PlanInv
<1>9. CarriesInv' /\ SaidInv' /\ FreeInv' /\ DoneInv' /\ DidInv'
  BY <1>2, Still
<1>10. LonelyInv'
  BY <1>2, <1>7, LonelyStays DEF IInv
<1> QED
  BY <1>5, <1>6, <1>8, <1>9, <1>10 DEF IInv

\* The rest ride alone, once no two of them save anything together.
LEMMA SoloKeeps == ASSUME IInv, Solo PROVE IInv'
<1> USE DEF Solo
<1>0. Types /\ PhaseInv /\ PlanInv
  BY DEF IInv
<1>1. /\ phase = "form" /\ phase' = "carry" /\ seen' = seen /\ said' = said /\ turn' = turn
      /\ done' = done /\ meddled' = meddled /\ world' = world /\ db' = db
      /\ \A i \in DOMAIN said : said[i].kind = "join"
      /\ \A u \in plans : Len(u) # 1
      /\ carrier' = carrier /\ trips' = trips /\ rider' = rider /\ order' = order
      /\ left' = {} /\ left \in SUBSET Ids /\ done = {} /\ turn = 1
  BY <1>0 DEF PhaseInv, Forming, Planning, world, db, Types
<1> DEFINE ones == {<<o>> : o \in left}
<1>2. \A o \in left : <<o>> \in Seq(Ids) /\ Len(<<o>>) = 1 /\ ToSet(<<o>>) = {o} /\ <<o>>[1] = o
                      /\ IsInjective(<<o>>)
  BY <1>1 DEF ToSet, IsInjective
<1>3. plans' = plans \cup ones
  OBVIOUS
<1>4. Types'
  <2>1. ones \subseteq Seq(Ids)
    BY <1>2
  <2> HIDE DEF ones
  <2> QED
    BY <1>0, <1>1, <1>3, <2>1 DEF Types, Planning
<1>5. PhaseInv'
  BY <1>1 DEF PhaseInv, Planning, Forming, Joining, Reading, Early, Applying
<1>6. Planned' = Planned \cup left /\ Answered' = Answered
  <2>1. UNION {ToSet(u) : u \in ones} = left
    <3>1. \A u \in ones : ToSet(u) \subseteq left
      BY <1>2
    <3>2. \A o \in left : <<o>> \in ones /\ o \in ToSet(<<o>>)
      BY <1>2
    <3> HIDE DEF ones
    <3> QED
      BY <3>1, <3>2
  <2>2. Planned' = Planned \cup UNION {ToSet(u) : u \in ones}
    BY <1>3 DEF Planned
  <2> QED
    BY <1>1, <2>1, <2>2 DEF Answered
<1>7. PlanInv'
  <2>1. ASSUME NEW u \in plans' PROVE Sensible(u)'
    <3>1. ASSUME NEW o \in left PROVE Sensible(<<o>>)
      <4>1. 1 \in 1 .. MaxOrders /\ ~ (Len(<<o>>) > 1)
        BY <1>2, RoutesAssumption
      <4> QED
        BY <1>2, <4>1 DEF Sensible
    <3> QED
      BY <1>0, <1>1, <1>3, <2>1, <3>1, WorldStays DEF PlanInv
  <2>2. ASSUME NEW u \in plans', NEW w \in plans', u # w PROVE ToSet(u) \cap ToSet(w) = {}
    <3>1. \A x \in plans, o \in left : ToSet(x) \cap {o} = {}
      BY <1>0 DEF PlanInv, Planned
    <3>2. CASE u \in plans /\ w \in plans
      BY <1>0, <2>2, <3>2 DEF PlanInv
    <3>3. CASE u \in plans /\ w \in ones
      BY <1>2, <3>1, <3>3
    <3>4. CASE u \in ones /\ w \in plans
      BY <1>2, <3>1, <3>4
    <3>5. CASE u \in ones /\ w \in ones
      BY <1>2, <2>2, <3>5
    <3> QED
      BY <1>3, <3>2, <3>3, <3>4, <3>5
  <2>3. /\ seen'.pool = left' \cup Planned' \cup Answered' /\ left' \cap Planned' = {}
        /\ left' \cap Answered' = {} /\ Planned' \cap Answered' = {}
    BY <1>0, <1>1, <1>6 DEF PlanInv
  <2> QED
    BY <2>1, <2>2, <2>3 DEF PlanInv
<1>8. CarriesInv' /\ SaidInv' /\ FreeInv' /\ DoneInv' /\ DidInv'
  BY <1>1, Still
<1>9. LonelyInv'
  <2> SUFFICES ASSUME MaxOrders > 1, NEW o \in left, NEW p \in left, o # p,
                      NEW s \in Sequences({o, p}), Legal(s), Saving(s) > 0
               PROVE  FALSE
    <3>1. Alone' \subseteq left
      BY <1>1, <1>2, <1>3 DEF Alone
    <3> QED
      BY <1>1, <3>1, WorldStays DEF LonelyInv
  <2>1. OrderType
    BY <1>0, DispatchAssumption DEF Types, OrderType
  <2>2. BestPairs(left) # {}
    BY <1>1, <2>1, PairsSave
  <2> QED
    BY <2>2
<1> QED
  BY <1>4, <1>5, <1>7, <1>8, <1>9 DEF IInv

\* A step of Carry gives the orders of one plan to one rider, or to Porter.
Gives(seq, kind, r) ==
  /\ seq \in plans /\ plans' = plans \ {seq}
  /\ said' = said \o ForEach(seq, kind, r)
  /\ (kind \in {"trip", "rider"} /\ r \in Fit(seq, Taken)) \/ (kind = "porter" /\ r = "porter")

LEMMA CarryIs == ASSUME Carry PROVE \E seq, kind, r : Gives(seq, kind, r)
<1>1. PICK seq \in plans :
        /\ plans' = plans \ {seq}
        /\ \/ \E r \in Ranked(seq, Taken) :
                Say(ForEach(seq, IF Len(seq) > 1 THEN "trip" ELSE "rider", r))
           \/ Say(ForEach(seq, "porter", "porter"))
  BY DEF Carry
<1>2. CASE Say(ForEach(seq, "porter", "porter"))
  <2>1. Gives(seq, "porter", "porter")
    BY <1>1, <1>2 DEF Gives, Say
  <2> QED
    BY <2>1
<1>3. CASE \E r \in Ranked(seq, Taken) : Say(ForEach(seq, IF Len(seq) > 1 THEN "trip" ELSE "rider", r))
  <2>1. PICK r \in Ranked(seq, Taken) : Say(ForEach(seq, IF Len(seq) > 1 THEN "trip" ELSE "rider", r))
    BY <1>3
  <2> DEFINE kind == IF Len(seq) > 1 THEN "trip" ELSE "rider"
  <2>2. kind \in {"trip", "rider"} /\ r \in Fit(seq, Taken)
    BY <2>1 DEF Ranked
  <2>3. said' = said \o ForEach(seq, kind, r)
    BY <2>1 DEF Say
  <2> HIDE DEF kind
  <2>4. Gives(seq, kind, r)
    BY <1>1, <2>2, <2>3 DEF Gives
  <2> QED
    BY <2>4
<1> QED
  BY <1>1, <1>2, <1>3

\* The answers of a plan, behind those there are.
LEMMA NewAnswers ==
  ASSUME Types, PlanInv, NEW seq, NEW kind, NEW r, Gives(seq, kind, r)
  PROVE  /\ seq \in Seq(Ids) /\ Sensible(seq) /\ ToSet(seq) \subseteq Ids
         /\ kind \in {"trip", "rider", "porter"} /\ r \in Riders \cup {"porter"}
         /\ said' \in Seq(Answers) /\ Len(said') >= Len(said)
         /\ \A i \in DOMAIN said : i \in DOMAIN said' /\ said'[i] = said[i]
         /\ \A i \in DOMAIN said' : i \notin DOMAIN said =>
              \E k \in DOMAIN seq : /\ i = Len(said) + k
                                    /\ said'[i] = Suggestion(seq[k], kind, r, seq, 0)
         /\ \A k \in DOMAIN seq : \E i \in DOMAIN said' : said'[i] = Suggestion(seq[k], kind, r, seq, 0)
<1> DEFINE more == ForEach(seq, kind, r)
<1>1. seq \in Seq(Ids) /\ Sensible(seq) /\ \A k \in DOMAIN seq : seq[k] \in Ids
  <2>1. seq \in Seq(Ids) /\ Sensible(seq)
    BY DEF Types, PlanInv, Gives
  <2> QED
    BY <2>1
<1>2. kind \in {"trip", "rider", "porter"} /\ r \in Riders \cup {"porter"}
  BY DEF Gives, Fit
<1>3. more \in Seq(Answers) /\ DOMAIN more = DOMAIN seq
      /\ \A k \in DOMAIN seq : more[k] = Suggestion(seq[k], kind, r, seq, 0)
  <2>1. DOMAIN seq = 1 .. Len(seq) /\ Len(seq) \in Nat
    BY <1>1
  <2>2. more = [k \in 1 .. Len(seq) |-> Suggestion(seq[k], kind, r, seq, 0)]
    BY <2>1 DEF ForEach
  <2>3. \A k \in 1 .. Len(seq) : Suggestion(seq[k], kind, r, seq, 0) \in Answers
    BY <1>1, <1>2, <2>1 DEF Suggestion, Answers
  <2> HIDE DEF more
  <2> QED
    BY <2>1, <2>2, <2>3
<1>4. said \in Seq(Answers) /\ said' = said \o more
  BY DEF Types, Gives
<1> HIDE DEF more
<1>5. /\ said' \in Seq(Answers) /\ Len(said') = Len(said) + Len(more)
      /\ \A i \in DOMAIN said : i \in DOMAIN said' /\ said'[i] = said[i]
      /\ \A k \in DOMAIN more : Len(said) + k \in DOMAIN said' /\ said'[Len(said) + k] = more[k]
      /\ \A i \in DOMAIN said' : i \notin DOMAIN said => \E k \in DOMAIN more : i = Len(said) + k
  BY <1>3, <1>4, Appended
<1>6. Len(said') >= Len(said)
  BY <1>3, <1>4, <1>5
<1>7. \A i \in DOMAIN said' : i \notin DOMAIN said =>
        \E k \in DOMAIN seq : i = Len(said) + k /\ said'[i] = Suggestion(seq[k], kind, r, seq, 0)
  BY <1>3, <1>5
<1>8. \A k \in DOMAIN seq : \E i \in DOMAIN said' : said'[i] = Suggestion(seq[k], kind, r, seq, 0)
  BY <1>3, <1>5
<1>9. ToSet(seq) \subseteq Ids
  BY <1>1 DEF ToSet
<1> QED
  BY <1>1, <1>2, <1>5, <1>6, <1>7, <1>8, <1>9

\* The plan's orders go from the planned to the answered ones.
LEMMA PlanGiven ==
  ASSUME Types, PlanInv, NEW seq, NEW kind, NEW r, Gives(seq, kind, r)
  PROVE  /\ Answered' = Answered \cup ToSet(seq)
         /\ Planned = Planned' \cup ToSet(seq) /\ Planned' \cap ToSet(seq) = {}
         /\ ToSet(seq) \cap Answered = {}
<1>1. seq \in plans /\ plans' = plans \ {seq}
  BY DEF Gives
<1>2. Planned = Planned' \cup ToSet(seq) /\ Planned' \cap ToSet(seq) = {}
  BY <1>1 DEF Planned, PlanInv
<1>3. Answered' = Answered \cup ToSet(seq)
  <2>1. ASSUME NEW o \in Answered' PROVE o \in Answered \cup ToSet(seq)
    <3>1. PICK i \in DOMAIN said' : o = said'[i].order
      BY DEF Answered
    <3>2. CASE i \in DOMAIN said
      BY <3>1, <3>2, NewAnswers DEF Answered
    <3>3. CASE i \notin DOMAIN said
      <4>1. PICK k \in DOMAIN seq : said'[i] = Suggestion(seq[k], kind, r, seq, 0)
        BY <3>1, <3>3, NewAnswers
      <4> QED
        BY <3>1, <4>1 DEF Suggestion, ToSet
    <3> QED
      BY <3>2, <3>3
  <2>2. Answered \subseteq Answered'
    BY NewAnswers DEF Answered
  <2>3. ASSUME NEW k \in DOMAIN seq PROVE seq[k] \in Answered'
    <3>1. PICK i \in DOMAIN said' : said'[i] = Suggestion(seq[k], kind, r, seq, 0)
      BY NewAnswers
    <3>2. said'[i].order = seq[k]
      BY <3>1 DEF Suggestion
    <3> QED
      BY <3>2 DEF Answered
  <2> QED
    BY <2>1, <2>2, <2>3 DEF ToSet
<1>4. ToSet(seq) \cap Answered = {}
  BY <1>2 DEF PlanInv
<1> QED
  BY <1>2, <1>3, <1>4

\* No order gets a second answer, no rider a second new trip.
LEMMA CarrySaid ==
  ASSUME IInv, world' = world, trips' = trips, seen' = seen,
         NEW seq, NEW kind, NEW r, Gives(seq, kind, r)
  PROVE  SaidInv'
<1>0. Types /\ PlanInv /\ SaidInv
  BY DEF IInv
<1> DEFINE a(k) == Suggestion(seq[k], kind, r, seq, 0)
<1>1. \A k : /\ a(k).order = seq[k] /\ a(k).kind = kind /\ a(k).rider = r /\ a(k).orders = seq
  BY DEF Suggestion
<1>2. \A i \in DOMAIN said' : \/ i \in DOMAIN said /\ said'[i] = said[i]
                              \/ \E k \in DOMAIN seq : i = Len(said) + k /\ said'[i] = a(k)
  BY <1>0, NewAnswers
<1> HIDE DEF a
<1>3. /\ Sensible(seq) /\ kind \in {"trip", "rider", "porter"}
      /\ Answered' = Answered \cup ToSet(seq) /\ ToSet(seq) \cap Answered = {}
      /\ \A k \in DOMAIN seq : seq[k] \in ToSet(seq)
  BY <1>0, NewAnswers, PlanGiven DEF ToSet
<1>4. kind \in {"trip", "rider"} => Fits(seq, r) /\ r \notin Taken
  BY DEF Gives, Fit, Fits
<1>5. kind = "porter" => r = "porter"
  BY DEF Gives
<1>6. \A i \in DOMAIN said : /\ Sound(said[i]) /\ said[i].order \in Answered
                             /\ ToSet(said[i].orders) \subseteq Answered
  <2>1. \A i \in DOMAIN said : Sound(said[i]) /\ said[i].order \in Answered
    BY <1>0 DEF SaidInv, Answered
  <2>2. \A o : ToSet(<<o>>) = {o}
    BY DEF ToSet
  <2> QED
    BY <2>1, <2>2 DEF Sound
<1>7. ASSUME NEW i \in DOMAIN said' PROVE Sound(said[i])'
  <2>1. CASE said'[i] = said[i] /\ i \in DOMAIN said
    BY <1>3, <1>6, <2>1, WorldStays DEF Sound
  <2>2. ASSUME NEW k \in DOMAIN seq, said'[i] = a(k) PROVE Sound(said[i])'
    BY <1>1, <1>3, <1>4, <1>5, <2>2, WorldStays DEF Sound
  <2> QED
    BY <1>2, <2>1, <2>2
<1>8. ASSUME NEW i \in DOMAIN said', NEW j \in DOMAIN said', said'[i].order = said'[j].order
      PROVE  i = j
  <2>1. CASE i \in DOMAIN said /\ j \in DOMAIN said
    BY <1>0, <1>8, <2>1, NewAnswers DEF SaidInv
  <2>2. ASSUME NEW k \in DOMAIN seq, said'[i] = a(k), i = Len(said) + k PROVE i = j
    <3>1. said'[i].order = seq[k] /\ seq[k] \notin Answered
      BY <1>1, <1>3, <2>2
    <3>2. ~ (j \in DOMAIN said /\ said'[j] = said[j])
      BY <1>6, <1>8, <3>1
    <3>3. PICK l \in DOMAIN seq : j = Len(said) + l /\ said'[j] = a(l)
      BY <1>2, <3>2
    <3>4. seq[k] = seq[l]
      BY <1>1, <1>8, <3>1, <3>3
    <3>5. k = l
      BY <1>3, <3>4 DEF Sensible, IsInjective
    <3> QED
      BY <2>2, <3>3, <3>5
  <2>3. ASSUME NEW k \in DOMAIN seq, said'[j] = a(k), j = Len(said) + k PROVE i = j
    <3>1. said'[j].order = seq[k] /\ seq[k] \notin Answered
      BY <1>1, <1>3, <2>3
    <3>2. ~ (i \in DOMAIN said /\ said'[i] = said[i])
      BY <1>6, <1>8, <3>1
    <3>3. PICK l \in DOMAIN seq : i = Len(said) + l /\ said'[i] = a(l)
      BY <1>2, <3>2
    <3>4. seq[k] = seq[l]
      BY <1>1, <1>8, <3>1, <3>3
    <3>5. k = l
      BY <1>3, <3>4 DEF Sensible, IsInjective
    <3> QED
      BY <2>3, <3>3, <3>5
  <2> QED
    BY <1>2, <2>1, <2>2, <2>3
<1>9. ASSUME NEW i \in DOMAIN said', NEW j \in DOMAIN said' PROVE Agree(said'[i], said'[j])
  <2>1. ASSUME NEW x \in DOMAIN said, NEW k \in DOMAIN seq
        PROVE  Agree(said[x], a(k)) /\ Agree(a(k), said[x])
    <3>1. ToSet(said[x].orders) \cap ToSet(seq) = {}
      BY <1>3, <1>6
    <3>2. said[x].kind \in {"trip", "rider"} /\ kind \in {"trip", "rider"} => said[x].rider # r
      BY <1>4 DEF Taken
    <3> QED
      BY <1>1, <3>1, <3>2 DEF Agree
  <2>2. \A k, l : Agree(a(k), a(l))
    BY <1>1 DEF Agree
  <2>3. \A x, y \in DOMAIN said : Agree(said[x], said[y])
    BY <1>0 DEF SaidInv
  <2> QED
    BY <1>2, <2>1, <2>2, <2>3
<1> QED
  BY <1>0, <1>7, <1>8, <1>9 DEF SaidInv

LEMMA CarryKeeps == ASSUME IInv, Carry PROVE IInv'
<1>0. Types /\ PhaseInv /\ PlanInv /\ SaidInv
  BY DEF IInv
<1>1. PICK seq, kind, r : Gives(seq, kind, r)
  BY CarryIs
<1>2. /\ phase = "carry" /\ phase' = "carry" /\ seen' = seen /\ turn' = turn /\ left' = left
      /\ done' = done /\ meddled' = meddled /\ world' = world /\ db' = db
      /\ carrier' = carrier /\ trips' = trips /\ rider' = rider /\ order' = order
  BY DEF Carry, world, db
<1>3. done = {} /\ turn = 1 /\ left = {} /\ seq \in plans /\ plans' = plans \ {seq}
  BY <1>0, <1>1, <1>2 DEF PhaseInv, Planning, Forming, Joining, Reading, Early, Gives
<1>4. Types'
  BY <1>0, <1>1, <1>2, <1>3, NewAnswers DEF Types
<1>5. CarriesInv'
  BY <1>2 DEF IInv, CarriesInv, On
<1>6. PhaseInv'
  BY <1>2, <1>3 DEF PhaseInv, Planning, Forming, Joining, Reading, Early, Applying
<1>7. PlanInv'
  <2>1. /\ Answered' = Answered \cup ToSet(seq) /\ Planned = Planned' \cup ToSet(seq)
        /\ Planned' \cap ToSet(seq) = {}
    BY <1>0, <1>1, PlanGiven
  <2>2. \A u \in plans' : Sensible(u)'
    BY <1>0, <1>2, <1>3, WorldStays DEF PlanInv
  <2>3. \A u, w \in plans' : u # w => ToSet(u) \cap ToSet(w) = {}
    BY <1>0, <1>3 DEF PlanInv
  <2>4. /\ seen'.pool = left' \cup Planned' \cup Answered' /\ left' \cap Planned' = {}
        /\ left' \cap Answered' = {} /\ Planned' \cap Answered' = {}
    BY <1>0, <1>2, <1>3, <2>1 DEF PlanInv
  <2> QED
    BY <2>2, <2>3, <2>4 DEF PlanInv
<1>8. SaidInv'
  BY <1>1, <1>2, CarrySaid
<1>9. FreeInv' /\ DoneInv'
  BY <1>2, <1>3 DEF IInv, FreeInv, DoneInv
<1>10. \A i \in DOMAIN said' :
         \/ i \in DOMAIN said /\ said'[i] = said[i]
         \/ \E k \in DOMAIN seq : /\ said'[i].kind = kind /\ said'[i].order = seq[k]
                                  /\ said'[i].orders = seq
  BY <1>0, <1>1, NewAnswers DEF Suggestion
<1>11. DidInv'
  <2> SUFFICES ASSUME meddled = {} PROVE DidInv'
    BY <1>2 DEF DidInv
  <2>1. \A u \in seen'.trips : (On(u[1]) \cap seen.pool)' = {}
    BY <1>2 DEF IInv, DidInv, On
  <2>2. ASSUME NEW i \in DOMAIN said', said'[i].kind = "join"
        PROVE  (On(said[i].trip) \cap seen.pool)' = {}
    <3>1. kind # "join"
      BY <1>0, <1>1, NewAnswers
    <3>2. i \in DOMAIN said /\ said'[i] = said[i]
      BY <1>10, <2>2, <3>1
    <3> QED
      BY <1>2, <2>2, <3>2 DEF IInv, DidInv, On
  <2>3. \A i \in DOMAIN said' : ~ (i < turn') /\ said'[i].order \notin done'
    <3>1. \A i \in DOMAIN said' : i \in Nat \ {0}
      BY <1>4 DEF Types
    <3> QED
      BY <1>2, <1>3, <3>1
  <2> QED
    BY <2>1, <2>2, <2>3 DEF DidInv
<1>12. LonelyInv'
  <2>1. Alone' \subseteq Alone
    <3>1. ASSUME NEW i \in DOMAIN said', said'[i].kind # "join", Len(said'[i].orders) = 1
          PROVE  said'[i].order \in Alone
      <4>1. CASE i \in DOMAIN said /\ said'[i] = said[i]
        BY <3>1, <4>1 DEF Alone
      <4>2. ASSUME NEW k \in DOMAIN seq, said'[i].order = seq[k], said'[i].orders = seq
            PROVE  said'[i].order \in Alone
        <5>1. Len(seq) = 1 /\ seq \in Seq(Ids)
          BY <1>0, <1>3, <3>1, <4>2 DEF Types
        <5>2. k = 1
          BY <4>2, <5>1
        <5> QED
          BY <1>3, <4>2, <5>1, <5>2 DEF Alone
      <4> QED
        BY <1>10, <4>1, <4>2
    <3>2. {u[1] : u \in {w \in plans' : Len(w) = 1}} \subseteq Alone
      BY <1>3 DEF Alone
    <3> QED
      BY <3>1, <3>2 DEF Alone
  <2> QED
    BY <1>2, <2>1, LonelyStays DEF IInv
<1> QED
  BY <1>4, <1>5, <1>6, <1>7, <1>8, <1>9, <1>11, <1>12 DEF IInv

LEMMA SuggestedKeeps == ASSUME IInv, Suggested PROVE IInv'
<1> USE DEF Suggested
<1>0. Types /\ PhaseInv
  BY DEF IInv
<1>1. phase = "carry" /\ phase' \in Applying /\ (phase' = "over" => ~ AutoDispatch) /\ plans = {}
  BY DEF Applying
<1>2. Types'
  BY <1>0, <1>1 DEF Types, world, db
<1>3. PhaseInv'
  BY <1>0, <1>1 DEF PhaseInv, Planning, Forming, Joining, Reading, Early, Applying
<1>4. PlanInv' /\ LonelyInv'
  BY PlanStays DEF IInv
<1>5. CarriesInv' /\ SaidInv' /\ FreeInv' /\ DoneInv' /\ DidInv'
  BY Still
<1> QED
  BY <1>2, <1>3, <1>4, <1>5 DEF IInv

----------------------------------------------------------------------------
(* What moves orders between trips.                                        *)

Without(ids) == [t \in DOMAIN trips |-> [trips[t] EXCEPT !.orders = @ \ ids]]

\* Trips that orders are taken off.
LEMMA Emptied ==
  ASSUME Types, NEW ids
  PROVE  /\ Without(ids) \in Seq([rider : Riders, orders : SUBSET Ids])
         /\ Len(Without(ids)) = Len(trips) /\ DOMAIN Without(ids) = DOMAIN trips
         /\ \A t \in DOMAIN trips : /\ Without(ids)[t].rider = trips[t].rider
                                    /\ Without(ids)[t].orders = On(t) \ ids
<1>1. /\ DOMAIN trips = 1 .. Len(trips) /\ Len(trips) \in Nat
      /\ \A t \in DOMAIN trips : trips[t] \in [rider : Riders, orders : SUBSET Ids]
  BY OnTrips
<1>2. \A t \in DOMAIN trips : /\ Without(ids)[t] \in [rider : Riders, orders : SUBSET Ids]
                              /\ Without(ids)[t].rider = trips[t].rider
                              /\ Without(ids)[t].orders = On(t) \ ids
  BY <1>1 DEF Without, On
<1>3. Without(ids) \in [1 .. Len(trips) -> [rider : Riders, orders : SUBSET Ids]]
  BY <1>1, <1>2 DEF Without
<1> DEFINE S == [rider : Riders, orders : SUBSET Ids]
           w == Without(ids)
<1> HIDE DEF S, w
<1>4. w \in [1 .. Len(trips) -> S]
  BY <1>3 DEF S, w
<1>5. w \in Seq(S) /\ Len(w) = Len(trips) /\ DOMAIN w = 1 .. Len(trips)
  BY <1>1, <1>4
<1> QED
  BY <1>1, <1>2, <1>5 DEF S, w

\* A new trip behind the others.
Extended(ids, r) == Append(Without(ids), [rider |-> r, orders |-> ids])

LEMMA Extends ==
  ASSUME Types, NEW ids \in SUBSET Ids, NEW r \in Riders, trips' = Extended(ids, r)
  PROVE  /\ trips' \in Seq([rider : Riders, orders : SUBSET Ids])
         /\ DOMAIN trips \subseteq DOMAIN trips'
         /\ \A t \in DOMAIN trips : trips'[t].rider = trips[t].rider /\ On(t)' = On(t) \ ids
         /\ \A t \in DOMAIN trips' : t \notin DOMAIN trips => trips'[t].rider = r /\ On(t)' = ids
<1> DEFINE S == [rider : Riders, orders : SUBSET Ids]
           w == Without(ids)
           e == [rider |-> r, orders |-> ids]
<1>1. /\ w \in Seq(S) /\ Len(w) = Len(trips) /\ DOMAIN w = DOMAIN trips /\ e \in S
      /\ e.rider = r /\ e.orders = ids
      /\ \A t \in DOMAIN trips : w[t].rider = trips[t].rider /\ w[t].orders = On(t) \ ids
  BY Emptied
<1>2. trips' = Append(w, e)
  BY DEF Extended
<1> HIDE DEF S, w, e
<1>3. /\ trips' \in Seq(S) /\ DOMAIN w \subseteq DOMAIN trips'
      /\ \A t \in DOMAIN w : trips'[t] = w[t]
      /\ \A t \in DOMAIN trips' : t \notin DOMAIN w => trips'[t] = e
  BY <1>1, <1>2
<1> QED
  BY <1>1, <1>3 DEF On, S

LEMMA Loads ==
  ASSUME NEW ids \in SUBSET Ids, NEW part \in SUBSET ids
  PROVE  /\ Cardinality(part) \in Nat /\ Cardinality(ids) \in Nat
         /\ Cardinality(part) <= Cardinality(ids)
BY IdsFinite, FS_Subset

LEMMA Bags ==
  ASSUME Types, NEW r \in Riders
  PROVE  rider[r].capacity \in Nat /\ rider[r].capacity >= 1
<1>1. rider[r] \in [capacity : Nat \ {0}, online : BOOLEAN, away : BOOLEAN, back : Int, headroom : Int]
  BY DispatchAssumption DEF Types
<1> QED
  BY <1>1

\* Orders given to a rider on a new trip.
LEMMA ExtendCarries ==
  ASSUME Types, CarriesInv, rider' = rider, NEW ids \in SUBSET Ids, NEW r \in Riders,
         trips' = Extended(ids, r), Cardinality(ids) <= rider[r].capacity,
         carrier' = [o \in Ids |-> IF o \in ids THEN r ELSE carrier[o]]
  PROVE  CarriesInv' /\ carrier' \in [Ids -> Riders \cup {"nobody", "cancelled"}]
<1>1. carrier' \in [Ids -> Riders \cup {"nobody", "cancelled"}]
  BY DEF Types
<1>2. ASSUME NEW t \in DOMAIN trips, NEW o \in On(t) \ ids PROVE carrier'[o] = trips[t].rider
  <2>1. o \in Ids /\ carrier[o] = trips[t].rider
    BY OnTrips DEF CarriesInv
  <2> QED
    BY <1>2, <2>1
<1>3. ASSUME NEW t \in DOMAIN trips PROVE Cardinality(On(t) \ ids) <= rider[trips[t].rider].capacity
  <2>1. On(t) \in SUBSET Ids /\ trips[t].rider \in Riders
    BY OnTrips
  <2>2. Cardinality(On(t)) <= rider[trips[t].rider].capacity
    BY DEF CarriesInv
  <2>3. On(t) \ ids \in SUBSET On(t)
    OBVIOUS
  <2>4. Cardinality(On(t) \ ids) <= Cardinality(On(t)) /\ Cardinality(On(t)) \in Nat
        /\ Cardinality(On(t) \ ids) \in Nat
    BY <2>1, <2>3, Loads
  <2>5. rider[trips[t].rider].capacity \in Nat
    BY <2>1, Bags
  <2> QED
    BY <2>2, <2>4, <2>5
<1>4. \A o \in ids : carrier'[o] = r
  OBVIOUS
<1>5. ASSUME NEW t \in DOMAIN trips'
      PROVE  /\ \A o \in On(t)' : carrier'[o] = trips'[t].rider
             /\ Cardinality(On(t)') <= rider[trips'[t].rider].capacity
  <2>1. CASE t \in DOMAIN trips
    <3>1. trips'[t].rider = trips[t].rider /\ On(t)' = On(t) \ ids
      BY <2>1, Extends
    <3> QED
      BY <1>2, <1>3, <2>1, <3>1
  <2>2. CASE t \notin DOMAIN trips
    <3>1. trips'[t].rider = r /\ On(t)' = ids
      BY <2>2, Extends
    <3> QED
      BY <1>4, <3>1
  <2> QED
    BY <2>1, <2>2
<1>6. CarriesInv'
  BY <1>5 DEF CarriesInv
<1> QED
  BY <1>1, <1>6

----------------------------------------------------------------------------
(* autoDispatch.                                                           *)

Applies(s) ==
  /\ s.kind # "porter" /\ order[s.order].ready <= DueMin
  /\ s.order \notin done /\ ~ Gone(s) /\ Allowed(Wanted(s), s.rider)

\* What is applied, and to whom.
LEMMA AppliedTo ==
  ASSUME IInv, phase = "apply", NEW i \in DOMAIN said, said[i].kind # "porter", said[i].order \notin done
  PROVE  /\ said[i].rider \in Riders /\ Wanted(said[i]) \in SUBSET Ids
         /\ ToSet(said[i].orders) \subseteq seen.pool /\ said[i].order \in ToSet(said[i].orders)
         /\ ToSet(said[i].orders) \cap done = {}
         /\ \A o \in Wanted(said[i]) \ ToSet(said[i].orders) :
              said[i].kind = "join" /\ o \in On(said[i].trip) /\ carrier[o] = said[i].rider
<1> DEFINE s == said[i]
<1>1. Types /\ CarriesInv /\ PlanInv /\ DoneInv
  BY DEF IInv
<1>2. Sound(s) /\ s \in Answers /\ s.order \in Answered /\ Answered \subseteq seen.pool
      /\ seen.pool \subseteq Ids
  BY <1>1 DEF IInv, SaidInv, Types, Answered, PlanInv
<1>3. ToSet(s.orders) \cap done # {} => ToSet(s.orders) \subseteq done
  BY <1>1 DEF DoneInv
<1> HIDE DEF s
<1>4. s.kind # "porter" /\ s.order \notin done
  BY DEF s
<1>5. ToSet(s.orders) \subseteq Answered /\ s.order \in ToSet(s.orders)
  <2>1. \A o : ToSet(<<o>>) = {o}
    BY DEF ToSet
  <2> QED
    BY <1>2, <2>1 DEF Sound
<1>6. s.kind = "join" => /\ s.trip \in DOMAIN trips /\ s.rider = trips[s.trip].rider
                         /\ s.rider \in Riders /\ On(s.trip) \in SUBSET Ids
                         /\ \A o \in On(s.trip) : carrier[o] = s.rider
  BY <1>1, <1>2, OnTrips DEF Sound, CarriesInv
<1>7. s.kind # "join" => s.rider \in Riders
  BY <1>2, <1>4 DEF Sound, Fits, Answers
<1>8. Wanted(s) \in SUBSET Ids
      /\ \A o \in Wanted(s) \ ToSet(s.orders) : s.kind = "join" /\ o \in On(s.trip) /\ carrier[o] = s.rider
  BY <1>2, <1>5, <1>6 DEF Wanted
<1>9. ToSet(s.orders) \cap done = {}
  BY <1>3, <1>4, <1>5
<1> QED
  BY <1>2, <1>5, <1>6, <1>7, <1>8, <1>9 DEF s

\* createTrip lets through every new trip suggested, if nobody meddled.
LEMMA NewTripsAreAllowed ==
  ASSUME IInv, phase = "apply", meddled = {}, NEW i \in DOMAIN said, Due(i), said[i].order \notin done
  PROVE  Applies(said[i])
<1> DEFINE s == said[i]
           ids == ToSet(s.orders)
<1>1. s.kind \in {"trip", "rider"} /\ order[s.order].ready <= DueMin
  BY DEF Due
<1>2. Sound(s)
  BY DEF IInv, SaidInv
<1>3. Sensible(s.orders) /\ Fits(s.orders, s.rider)
  BY <1>1, <1>2 DEF Sound
<1>4. ids \in SUBSET Ids /\ ids \subseteq seen.pool /\ ids \cap done = {} /\ s.rider \in Riders
  <2>1. seen.pool \subseteq Ids
    BY DEF IInv, Types
  <2> QED
    BY <1>1, <2>1, AppliedTo
<1>5. Wanted(s) = ids /\ ~ Gone(s)
  BY <1>1 DEF Wanted, Gone
<1>6. \A o \in ids : carrier[o] # "cancelled"
  BY <1>4 DEF IInv, FreeInv
<1>7. Len(s.orders) > 1 => s.orders \in BestRoutes(ids)
  BY <1>3 DEF Sensible
<1>8. Cardinality(ids) = Len(s.orders)
  <2> DEFINE n == Len(s.orders)
  <2>1. s.orders \in Seq(Ids) /\ IsInjective(s.orders) /\ n \in Nat
    BY <1>3 DEF Sensible
  <2>2. s.orders \in [1 .. n -> ids] /\ DOMAIN s.orders = 1 .. n
    BY <2>1 DEF ToSet
  <2>3. s.orders \in Surjection(1 .. n, ids) /\ s.orders \in Injection(1 .. n, ids)
    BY <2>1, <2>2 DEF Surjection, Injection, ToSet
  <2>4. IsFiniteSet(1 .. n) /\ Cardinality(1 .. n) = n
    <3>1. 1 \in Int /\ n \in Int /\ (IF 1 > n THEN 0 ELSE n - 1 + 1) = n
      BY <2>1
    <3> QED
      BY <3>1, FS_Interval
  <2> QED
    BY <2>3, <2>4, FS_Surjection
<1>9. Cardinality(ids) <= rider[s.rider].capacity /\ (Cod(ids) > 0 => Cod(ids) <= rider[s.rider].headroom)
  <2>1. rider[s.rider].capacity \in Nat /\ Len(s.orders) \in Nat
    BY <1>3, <1>4, Bags DEF IInv, Sensible
  <2> QED
    BY <1>3, <1>8, <2>1 DEF Fits
<1>10. Cardinality(ids) > 1 => BestRoutes(ids) # {}
  BY <1>7, <1>8
<1>11. Allowed(ids, s.rider)
  BY <1>6, <1>9, <1>10 DEF Allowed
<1> QED
  BY <1>1, <1>5, <1>11 DEF Applies

\* A suggestion passed over.
LEMMA SkipKeeps ==
  ASSUME IInv, phase = "apply", turn \in DOMAIN said, turn' = turn + 1, ~ Applies(said[turn]),
         UNCHANGED <<world, db, phase, seen, left, plans, said, done, meddled>>
  PROVE  IInv'
<1>0. Types /\ PhaseInv
  BY DEF IInv
<1>1. carrier' = carrier /\ trips' = trips /\ rider' = rider /\ order' = order
  BY DEF db, world
<1>2. Types'
  BY <1>0, <1>1 DEF Types
<1>3. CarriesInv' /\ FreeInv' /\ DoneInv'
  BY <1>1 DEF IInv, CarriesInv, On, FreeInv, DoneInv
<1>4. PhaseInv'
  BY <1>0 DEF PhaseInv, Planning, Forming, Joining, Reading, Early, Applying
<1>5. PlanInv' /\ LonelyInv'
  BY PlanStays DEF IInv
<1>6. SaidInv'
  BY <1>0, <1>1, SaidStays DEF IInv
<1>7. DidInv'
  <2> SUFFICES ASSUME meddled = {} PROVE DidInv'
    BY DEF DidInv
  <2>1. \A i \in DOMAIN said : i < turn' /\ Due(i) => said[i].order \in done
    <3> SUFFICES ASSUME NEW i \in DOMAIN said, i < turn', Due(i) PROVE said[i].order \in done
      OBVIOUS
    <3>1. i = turn \/ i < turn
      <4>1. turn \in Nat /\ i \in Nat
        BY <1>0 DEF Types
      <4> QED
        BY <4>1
    <3>2. i < turn => said[i].order \in done
      BY DEF IInv, DidInv
    <3>3. i = turn => said[i].order \in done
      BY NewTripsAreAllowed
    <3> QED
      BY <3>1, <3>2, <3>3
  <2> QED
    BY <1>1, <2>1 DEF IInv, DidInv, On, Due
<1> QED
  BY <1>2, <1>3, <1>4, <1>5, <1>6, <1>7 DEF IInv

\* A suggestion applied.
LEMMA DoKeeps ==
  ASSUME IInv, phase = "apply", turn \in DOMAIN said, turn' = turn + 1, Applies(said[turn]),
         CreateTrip(Wanted(said[turn]), said[turn].rider),
         done' = done \cup ToSet(said[turn].orders),
         UNCHANGED <<world, phase, seen, left, plans, said, meddled>>
  PROVE  IInv'
<1> DEFINE s == said[turn]
           ids == Wanted(s)
           mine == ToSet(s.orders)
<1>0. Types /\ CarriesInv /\ PhaseInv /\ PlanInv /\ SaidInv /\ FreeInv /\ DoneInv /\ DidInv
  BY DEF IInv
<1>1. rider' = rider /\ order' = order
  BY DEF world
<1>2. /\ s.rider \in Riders /\ ids \in SUBSET Ids /\ mine \subseteq seen.pool /\ s.order \in mine
      /\ mine \cap done = {} /\ s \in Answers
      /\ \A o \in ids \ mine : s.kind = "join" /\ o \in On(s.trip) /\ carrier[o] = s.rider
  BY <1>0, AppliedTo DEF Applies, Types
<1>3. mine \subseteq ids /\ Cardinality(ids) <= rider[s.rider].capacity
  BY DEF Applies, Allowed, Wanted
<1>4. trips' = Extended(ids, s.rider) /\ carrier' = [o \in Ids |-> IF o \in ids THEN s.rider ELSE carrier[o]]
  BY DEF CreateTrip, Extended, Without
<1>5. CarriesInv' /\ carrier' \in [Ids -> Riders \cup {"nobody", "cancelled"}]
  BY <1>0, <1>1, <1>2, <1>3, <1>4, ExtendCarries
<1>6. /\ trips' \in Seq([rider : Riders, orders : SUBSET Ids])
      /\ DOMAIN trips \subseteq DOMAIN trips'
      /\ \A t \in DOMAIN trips : trips'[t].rider = trips[t].rider /\ On(t)' = On(t) \ ids
  BY <1>0, <1>2, <1>4, Extends
<1> HIDE DEF s, ids, mine
<1>7. done' = done \cup mine /\ s = said[turn]
  BY DEF mine, s
<1>8. Types'
  <2>1. done' \subseteq Ids /\ turn' \in Nat \ {0}
    BY <1>0, <1>2, <1>7 DEF Types
  <2> QED
    BY <1>0, <1>1, <1>5, <1>6, <2>1 DEF Types
<1>9. PhaseInv'
  BY <1>0 DEF PhaseInv, Planning, Forming, Joining, Reading, Early, Applying
<1>10. PlanInv' /\ LonelyInv'
  BY PlanStays DEF IInv
<1>11. SaidInv'
  BY <1>0, <1>6, SaidStays
<1>12. FreeInv'
  <2> SUFFICES ASSUME NEW o \in seen.pool
               PROVE  carrier'[o] = "nobody" \/ o \in meddled \/ o \in done'
    BY DEF FreeInv
  <2>1. o \in Ids /\ (carrier[o] = "nobody" \/ o \in meddled \/ o \in done)
    BY <1>0 DEF FreeInv, Types
  <2>2. CASE o \in ids \ mine
    BY <1>2, <1>7, <2>1, <2>2, DispatchAssumption
  <2>3. CASE o \in mine
    BY <1>7, <2>3
  <2>4. CASE o \notin ids
    BY <1>4, <1>7, <2>1, <2>4
  <2> QED
    BY <2>2, <2>3, <2>4
<1>13. \A i \in DOMAIN said : ToSet(said[i].orders) \cap mine # {} =>
         /\ said[i].orders = s.orders /\ said[i].rider = s.rider /\ said[i].kind = s.kind
         /\ ToSet(said[i].orders) = mine
  <2>1. \A i \in DOMAIN said : Agree(said[i], s)
    BY <1>0, <1>7 DEF SaidInv
  <2> QED
    BY <2>1 DEF Agree, mine
<1>14. DoneInv'
  BY <1>0, <1>7, <1>13 DEF DoneInv
<1>15. DidInv'
  <2> SUFFICES ASSUME meddled = {} PROVE DidInv'
    BY DEF DidInv
  <2>1. ASSUME NEW t \in DOMAIN trips, On(t) \cap seen.pool = {} PROVE On(t)' \cap seen.pool = {}
    BY <1>6, <2>1
  <2>2. \A u \in seen.trips : On(u[1])' \cap seen.pool = {}
    BY <1>0, <2>1 DEF SaidInv, DidInv
  <2>3. \A i \in DOMAIN said : said[i].kind = "join" => On(said[i].trip)' \cap seen.pool = {}
    <3>1. \A i \in DOMAIN said : said[i].kind = "join" => said[i].trip \in DOMAIN trips
      BY <1>0 DEF SaidInv, Sound
    <3> QED
      BY <1>0, <2>1, <3>1 DEF DidInv
  <2>4. ASSUME NEW i \in DOMAIN said, said[i].kind \in {"trip", "rider"}, said[i].order \in done'
        PROVE  carrier'[said[i].order] = said[i].rider
    <3>1. /\ said[i].order \in ToSet(said[i].orders) /\ said[i].order \in seen.pool
          /\ said[i].order \in Ids
      <4>1. Sound(said[i]) /\ said[i].order \in Answered
        BY <1>0 DEF SaidInv, Answered
      <4> QED
        BY <1>0, <2>4, <4>1 DEF Sound, PlanInv, Types
    <3>2. CASE said[i].order \in mine
      <4>1. said[i].rider = s.rider
        BY <1>13, <3>1, <3>2
      <4> QED
        BY <1>3, <1>4, <3>1, <3>2, <4>1
    <3>3. CASE said[i].order \notin mine
      <4>1. carrier[said[i].order] = said[i].rider
        BY <1>0, <1>7, <2>4, <3>3 DEF DidInv
      <4>2. said[i].order \notin ids
        <5> SUFFICES ASSUME said[i].order \in ids PROVE FALSE
          OBVIOUS
        <5>1. s.kind = "join" /\ said[i].order \in On(s.trip)
          BY <1>2, <3>3
        <5>2. On(s.trip) \cap seen.pool = {}
          BY <1>0, <1>7, <5>1 DEF DidInv
        <5> QED
          BY <3>1, <5>1, <5>2
      <4> QED
        BY <1>4, <3>1, <4>1, <4>2
    <3> QED
      BY <3>2, <3>3
  <2>5. ASSUME NEW i \in DOMAIN said, i < turn', Due(i) PROVE said[i].order \in done'
    <3>1. turn \in Nat /\ i \in Nat
      BY <1>0 DEF Types
    <3>2. i = turn \/ i < turn
      BY <2>5, <3>1
    <3>3. i < turn => said[i].order \in done
      BY <1>0, <2>5 DEF DidInv
    <3> QED
      BY <1>2, <1>7, <3>2, <3>3
  <2>6. \A i : Due(i)' <=> Due(i)
    BY <1>1 DEF Due
  <2> QED
    BY <2>2, <2>3, <2>4, <2>5, <2>6 DEF DidInv
<1> QED
  BY <1>5, <1>8, <1>9, <1>10, <1>11, <1>12, <1>14, <1>15 DEF IInv

LEMMA ApplyKeeps == ASSUME IInv, Apply PROVE IInv'
<1>1. /\ phase = "apply" /\ turn' = turn + 1
      /\ UNCHANGED <<world, phase, seen, left, plans, said, meddled>>
      /\ IF Applies(said[turn])
         THEN CreateTrip(Wanted(said[turn]), said[turn].rider) /\ done' = done \cup ToSet(said[turn].orders)
         ELSE UNCHANGED <<db, done>>
  BY DEF Apply, Applies
<1>2. turn \in DOMAIN said
  <2>1. turn \in Nat \ {0} /\ said \in Seq(Answers) /\ turn <= Len(said)
    BY DEF Apply, IInv, Types
  <2> QED
    BY <2>1
<1> QED
  BY <1>1, <1>2, SkipKeeps, DoKeeps

LEMMA AppliedKeeps == ASSUME IInv, Applied PROVE IInv'
<1> USE DEF Applied
<1>0. Types /\ PhaseInv
  BY DEF IInv
<1>1. Types'
  BY <1>0 DEF Types, world, db, Applying
<1>2. PhaseInv'
  BY <1>0 DEF PhaseInv, Planning, Forming, Joining, Reading, Early, Applying
<1>3. PlanInv' /\ LonelyInv'
  BY PlanStays DEF IInv
<1>4. CarriesInv' /\ SaidInv' /\ FreeInv' /\ DoneInv' /\ DidInv'
  BY Still
<1> QED
  BY <1>1, <1>2, <1>3, <1>4 DEF IInv

----------------------------------------------------------------------------
(* The admin, meanwhile.                                                   *)

\* A hand moves an order that it is remembered to have touched.
LEMMA MeddleKeeps ==
  ASSUME IInv, NEW o \in Ids, Meddle(o), UNCHANGED <<world, pass>>,
         trips' \in Seq([rider : Riders, orders : SUBSET Ids]),
         DOMAIN trips \subseteq DOMAIN trips',
         \A t \in DOMAIN trips : trips'[t].rider = trips[t].rider,
         carrier' \in [Ids -> Riders \cup {"nobody", "cancelled"}],
         \A p \in Ids \ {o} : carrier'[p] = carrier[p],
         CarriesInv'
  PROVE  IInv'
<1>0. Types /\ PhaseInv /\ FreeInv
  BY DEF IInv
<1>1. /\ rider' = rider /\ order' = order /\ seen' = seen /\ left' = left /\ plans' = plans
      /\ phase' = phase /\ said' = said /\ turn' = turn /\ done' = done /\ meddled' = meddled \cup {o}
  BY DEF world, pass, Meddle
<1>2. Types'
  BY <1>0, <1>1 DEF Types
<1>3. PhaseInv'
  BY <1>0, <1>1 DEF PhaseInv, Planning, Forming, Joining, Reading, Early, Applying
<1>4. PlanInv' /\ LonelyInv'
  BY <1>1, PlanStays DEF IInv
<1>5. SaidInv'
  BY <1>0, <1>1, SaidStays DEF IInv
<1>6. FreeInv'
  BY <1>0, <1>1 DEF FreeInv, Types
<1>7. DoneInv'
  BY <1>1 DEF IInv, DoneInv
<1>8. DidInv'
  BY <1>1 DEF DidInv
<1> QED
  BY <1>2, <1>3, <1>4, <1>5, <1>6, <1>7, <1>8 DEF IInv

LEMMA CancelKeeps == ASSUME IInv, NEW o \in Ids, Cancel(o) PROVE IInv'
<1>0. Types /\ CarriesInv
  BY DEF IInv
<1>1. /\ Meddle(o) /\ UNCHANGED <<world, pass>> /\ trips' = Without({o}) /\ rider' = rider
      /\ carrier' = [carrier EXCEPT ![o] = "cancelled"]
  BY DEF Cancel, Without, world
<1>2. /\ carrier' \in [Ids -> Riders \cup {"nobody", "cancelled"}]
      /\ \A p \in Ids \ {o} : carrier'[p] = carrier[p]
  BY <1>0, <1>1 DEF Types
<1>3. /\ trips' \in Seq([rider : Riders, orders : SUBSET Ids]) /\ DOMAIN trips' = DOMAIN trips
      /\ \A t \in DOMAIN trips : trips'[t].rider = trips[t].rider /\ On(t)' = On(t) \ {o}
  BY <1>0, <1>1, Emptied DEF On
<1>4. CarriesInv'
  <2> SUFFICES ASSUME NEW t \in DOMAIN trips
               PROVE  /\ \A p \in On(t) \ {o} : carrier'[p] = trips[t].rider
                      /\ Cardinality(On(t) \ {o}) <= rider[trips[t].rider].capacity
    BY <1>1, <1>3 DEF CarriesInv
  <2>1. /\ On(t) \in SUBSET Ids /\ trips[t].rider \in Riders /\ On(t) \ {o} \in SUBSET On(t)
        /\ Cardinality(On(t)) <= rider[trips[t].rider].capacity
        /\ \A p \in On(t) : carrier[p] = trips[t].rider
    BY <1>0, OnTrips DEF CarriesInv
  <2>2. /\ Cardinality(On(t) \ {o}) \in Nat /\ Cardinality(On(t)) \in Nat
        /\ Cardinality(On(t) \ {o}) <= Cardinality(On(t))
    BY <2>1, Loads
  <2>3. rider[trips[t].rider].capacity \in Nat
    BY <1>0, <2>1, Bags
  <2> QED
    BY <1>2, <2>1, <2>2, <2>3
<1> QED
  BY <1>1, <1>2, <1>3, <1>4, MeddleKeeps

\* The hand's choice of a trip: one with room.
LEMMA HandAssignKeeps == ASSUME IInv, NEW o \in Ids, NEW r \in Riders, HandAssign(o, r) PROVE IInv'
<1> DEFINE room == {t \in DOMAIN trips : /\ trips[t].rider = r /\ On(t) # {}
                                         /\ Cardinality(On(t)) < rider[r].capacity}
           first == CHOOSE t \in room : \A u \in room : t <= u
           off == Without({o})
<1>0. Types /\ CarriesInv
  BY DEF IInv
<1>1. /\ Meddle(o) /\ UNCHANGED <<world, pass>> /\ rider' = rider
      /\ carrier' = [carrier EXCEPT ![o] = r]
      /\ trips' = IF room = {} THEN Extended({o}, r) ELSE [off EXCEPT ![first].orders = @ \cup {o}]
  BY DEF HandAssign, Without, Extended, world
<1>2. /\ carrier' \in [Ids -> Riders \cup {"nobody", "cancelled"}]
      /\ \A p \in Ids \ {o} : carrier'[p] = carrier[p]
      /\ carrier'[o] = r
  BY <1>0, <1>1 DEF Types
<1>3. CASE room = {}
  <2>1. trips' = Extended({o}, r) /\ {o} \in SUBSET Ids
    BY <1>1, <1>3
  <2>2. Cardinality({o}) <= rider[r].capacity
    BY <1>0, Bags, FS_Singleton
  <2>3. carrier' = [p \in Ids |-> IF p \in {o} THEN r ELSE carrier[p]]
    BY <1>0, <1>1 DEF Types
  <2>4. CarriesInv'
    BY <1>0, <1>1, <2>1, <2>2, <2>3, ExtendCarries
  <2>5. /\ trips' \in Seq([rider : Riders, orders : SUBSET Ids])
        /\ DOMAIN trips \subseteq DOMAIN trips'
        /\ \A t \in DOMAIN trips : trips'[t].rider = trips[t].rider
    BY <1>0, <2>1, Extends
  <2> QED
    BY <1>1, <1>2, <2>4, <2>5, MeddleKeeps
<1>4. CASE room # {}
  <2>1. first \in room
    <3>1. room \in SUBSET Nat
      BY <1>0, OnTrips
    <3>2. \E t \in room : \A u \in room : t <= u
      BY <1>4, <3>1, Least
    <3> HIDE DEF room
    <3> QED
      BY <3>2
  <2>2. /\ first \in DOMAIN trips /\ trips[first].rider = r
        /\ Cardinality(On(first)) < rider[r].capacity
    BY <2>1
  <2> HIDE DEF first
  <2>3. /\ off \in Seq([rider : Riders, orders : SUBSET Ids])
        /\ DOMAIN off = DOMAIN trips
        /\ \A t \in DOMAIN trips : off[t].rider = trips[t].rider /\ off[t].orders = On(t) \ {o}
    BY <1>0, Emptied
  <2>4. trips' = [off EXCEPT ![first].orders = @ \cup {o}]
    BY <1>1, <1>4
  <2>5. /\ trips' \in Seq([rider : Riders, orders : SUBSET Ids]) /\ DOMAIN trips' = DOMAIN trips
        /\ \A t \in DOMAIN trips :
             /\ trips'[t].rider = trips[t].rider
             /\ On(t)' = IF t = first THEN (On(t) \ {o}) \cup {o} ELSE On(t) \ {o}
    <3> DEFINE S == [rider : Riders, orders : SUBSET Ids]
               new == [off[first] EXCEPT !.orders = @ \cup {o}]
    <3> HIDE DEF off
    <3>1. off[first] \in S
      <4> HIDE DEF S
      <4>1. off \in Seq(S) /\ first \in DOMAIN off
        BY <2>2, <2>3 DEF S
      <4> QED
        BY <4>1
    <3>2. /\ new \in S /\ new.rider = trips[first].rider
          /\ new.orders = (On(first) \ {o}) \cup {o}
      BY <2>2, <2>3, <3>1
    <3>3. trips' = [off EXCEPT ![first] = new]
      BY <2>4
    <3> HIDE DEF S, new
    <3>4. off \in Seq(S)
      BY <2>3 DEF S
    <3>5. trips' \in Seq(S) /\ DOMAIN trips' = DOMAIN trips
          /\ \A t \in DOMAIN trips : trips'[t] = IF t = first THEN new ELSE off[t]
      BY <2>2, <2>3, <3>2, <3>3, <3>4
    <3> QED
      BY <2>3, <3>2, <3>5 DEF On, S
  <2>6. CarriesInv'
    <3> SUFFICES ASSUME NEW t \in DOMAIN trips
                 PROVE  /\ \A p \in On(t)' : carrier'[p] = trips[t].rider
                        /\ Cardinality(On(t)') <= rider[trips[t].rider].capacity
      BY <1>1, <2>5 DEF CarriesInv
    <3>1. /\ On(t) \in SUBSET Ids /\ trips[t].rider \in Riders /\ On(t) \ {o} \in SUBSET On(t)
          /\ Cardinality(On(t)) <= rider[trips[t].rider].capacity
          /\ \A p \in On(t) : carrier[p] = trips[t].rider
      BY <1>0, OnTrips DEF CarriesInv
    <3>2. /\ Cardinality(On(t) \ {o}) \in Nat /\ Cardinality(On(t)) \in Nat
          /\ Cardinality(On(t) \ {o}) <= Cardinality(On(t)) /\ IsFiniteSet(On(t) \ {o})
      BY <3>1, Loads, IdsFinite, FS_Subset
    <3>3. rider[trips[t].rider].capacity \in Nat
      BY <1>0, <3>1, Bags
    <3>4. CASE t = first
      <4>1. On(t)' = (On(t) \ {o}) \cup {o}
        BY <2>5, <3>4
      <4>2. Cardinality(On(t)') = Cardinality(On(t) \ {o}) + 1
        BY <3>2, <4>1, FS_AddElement
      <4>3. Cardinality(On(t)) < rider[trips[t].rider].capacity
        BY <2>2, <3>4
      <4>4. Cardinality(On(t)') <= rider[trips[t].rider].capacity
        BY <3>2, <3>3, <4>2, <4>3
      <4> QED
        BY <1>2, <2>2, <3>1, <3>4, <4>1, <4>4
    <3>5. CASE t # first
      <4>1. On(t)' = On(t) \ {o}
        BY <2>5, <3>5
      <4> QED
        BY <1>2, <3>1, <3>2, <3>3, <4>1
    <3> QED
      BY <3>4, <3>5
  <2> QED
    BY <1>1, <1>2, <2>5, <2>6, MeddleKeeps
<1> QED
  BY <1>3, <1>4

----------------------------------------------------------------------------
(* The specification.                                                      *)

LEMMA InitHolds == Init => IInv
<1> SUFFICES ASSUME Init PROVE IInv
  OBVIOUS
<1>1. /\ order \in [Ids -> OrderKinds] /\ rider \in [Riders -> RiderKinds]
      /\ phase = "riders" /\ seen = [packing |-> {}, pool |-> {}, trips |-> {}]
      /\ left = {} /\ plans = {} /\ said = <<>> /\ turn = 1 /\ done = {} /\ meddled = {}
  BY DEF Init
<1>2. /\ carrier \in [Ids -> Riders \cup {"nobody", "cancelled"}]
      /\ trips \in Seq([rider : Riders, orders : SUBSET Ids])
      /\ \A t \in DOMAIN trips : /\ \A o \in On(t) : carrier[o] = trips[t].rider
                                 /\ trips[t].rider \in Riders /\ \E first : On(t) = {first}
  <2>1. CASE carrier = [o \in Ids |-> "nobody"] /\ trips = <<>>
    BY <2>1
  <2>2. ASSUME NEW r \in Riders, NEW first \in Ids,
               carrier = [o \in Ids |-> IF o = first THEN r ELSE "nobody"],
               trips = <<[rider |-> r, orders |-> {first}]>>
        PROVE  /\ carrier \in [Ids -> Riders \cup {"nobody", "cancelled"}]
               /\ trips \in Seq([rider : Riders, orders : SUBSET Ids])
               /\ \A t \in DOMAIN trips : /\ \A o \in On(t) : carrier[o] = trips[t].rider
                                          /\ trips[t].rider \in Riders /\ \E x : On(t) = {x}
    <3>1. carrier \in [Ids -> Riders \cup {"nobody", "cancelled"}] /\ carrier[first] = r
      BY <2>2
    <3>2. [rider |-> r, orders |-> {first}] \in [rider : Riders, orders : SUBSET Ids]
      OBVIOUS
    <3>3. trips \in Seq([rider : Riders, orders : SUBSET Ids]) /\ DOMAIN trips = {1}
          /\ trips[1] = [rider |-> r, orders |-> {first}]
      BY <2>2, <3>2
    <3>4. \A t \in DOMAIN trips : trips[t].rider = r /\ On(t) = {first}
      BY <3>3 DEF On
    <3> QED
      BY <3>1, <3>3, <3>4
  <2> QED
    BY <2>1, <2>2 DEF Init
<1>3. Types
  BY <1>1, <1>2 DEF Types, Planning, Forming, Joining, Reading, Early
<1>4. CarriesInv
  <2>1. ASSUME NEW t \in DOMAIN trips PROVE Cardinality(On(t)) <= rider[trips[t].rider].capacity
    <3>1. Cardinality(On(t)) = 1
      BY <1>2, FS_Singleton
    <3>2. trips[t].rider \in Riders
      BY <1>2
    <3> QED
      BY <1>3, <3>1, <3>2, Bags
  <2> QED
    BY <1>2, <2>1 DEF CarriesInv
<1>5. PhaseInv
  BY <1>1 DEF PhaseInv, Planning, Forming, Joining, Reading, Early, Applying
<1>6. Answered = {} /\ Planned = {} /\ Alone = {}
  BY <1>1 DEF Answered, Planned, Alone
<1>7. PlanInv /\ SaidInv /\ FreeInv /\ DoneInv /\ DidInv /\ LonelyInv
  BY <1>1, <1>6 DEF PlanInv, SaidInv, FreeInv, DoneInv, DidInv, LonelyInv
<1> QED
  BY <1>3, <1>4, <1>5, <1>7 DEF IInv

LEMMA IdleKeeps == ASSUME IInv, UNCHANGED vars PROVE IInv'
<1>1. /\ UNCHANGED <<world, db, pass, meddled>> /\ carrier' = carrier /\ trips' = trips
      /\ rider' = rider /\ order' = order /\ seen' = seen /\ left' = left /\ plans' = plans
      /\ phase' = phase /\ said' = said /\ turn' = turn /\ done' = done /\ meddled' = meddled
  BY DEF vars, world, db, pass
<1>2. Types' /\ PhaseInv'
  BY <1>1 DEF IInv, Types, PhaseInv
<1>3. PlanInv' /\ LonelyInv'
  BY <1>1, PlanStays DEF IInv
<1>4. CarriesInv' /\ SaidInv' /\ FreeInv' /\ DoneInv' /\ DidInv'
  BY <1>1, Still
<1> QED
  BY <1>2, <1>3, <1>4 DEF IInv

LEMMA StepKeeps == IInv /\ [Next]_vars => IInv'
BY ReadRidersKeeps, ReadPoolKeeps, ReadTripsKeeps, JoinKeeps, JoinsOverKeeps, FormTripKeeps,
   SoloKeeps, CarryKeeps, SuggestedKeeps, ApplyKeeps, AppliedKeeps, CancelKeeps, HandAssignKeeps,
   IdleKeeps DEF Next

\* Throughout a pass and whatever hands do meanwhile, plans and answers are
\* sound by themselves, agree with each other, and agree with carriers and
\* trips as far as nobody has meddled.
THEOREM DispatchInvariant == Spec => []IInv
BY InitHolds, StepKeeps, PTL DEF Spec

\* Type correctness of a pass: no plan is longer than batchMaxOrders, and
\* nobody's trip is larger than the rider's bag.
THEOREM TypeCorrect == Spec => []TypeOK
<1>1. IInv => TypeOK
  <2> SUFFICES ASSUME IInv PROVE TypeOK
    OBVIOUS
  <2>1. Types /\ CarriesInv /\ PlanInv
    BY DEF IInv
  <2>2. \A t \in DOMAIN trips : /\ trips[t].rider \in Riders /\ On(t) \subseteq Ids
                                /\ Cardinality(On(t)) <= rider[trips[t].rider].capacity
    BY <2>1, OnTrips DEF CarriesInv
  <2>3. \A seq \in plans : Len(seq) <= MaxOrders /\ IsInjective(seq)
    BY <2>1 DEF PlanInv, Sensible
  <2> QED
    BY <2>1, <2>2, <2>3 DEF TypeOK, Types, Planning, Forming, Joining, Reading, Early, Applying
<1> QED
  BY <1>1, DispatchInvariant, PTL

\* suggestions() answers each order it read once, and sends no rider on two
\* new trips; without meddling, what is due is done as said; and explain finds
\* a reason for every set of orders that createTrip keeps off one trip.
THEOREM AnswersAreTrue == Spec => []AnswersHold
<1>1. IInv => AnsweredOnce
  <2> SUFFICES ASSUME IInv, Ready PROVE AnsweredOnce
    BY DEF AnsweredOnce
  <2>1. PlanInv /\ SaidInv /\ PhaseInv /\ Types
    BY DEF IInv
  <2>2. left = {} /\ Planned = {}
    <3>1. phase \notin Forming /\ plans = {}
      BY <2>1 DEF Ready, PhaseInv, Forming, Joining, Reading, Early, Applying
    <3> QED
      BY <2>1, <3>1 DEF PhaseInv, Planned
  <2>3. seen.pool = {said[i].order : i \in DOMAIN said}
    BY <2>1, <2>2 DEF PlanInv, Answered
  <2>4. ASSUME NEW i \in DOMAIN said, NEW j \in DOMAIN said, said[i].rider = said[j].rider,
               said[i].rider # "porter", said[i].kind # "join", said[j].kind # "join"
        PROVE  said[i].orders = said[j].orders
    <3>1. /\ Sound(said[i]) /\ Sound(said[j]) /\ said[i] \in Answers /\ said[j] \in Answers
          /\ Agree(said[i], said[j])
      BY <2>1 DEF SaidInv, Types
    <3>2. said[i].kind \in {"trip", "rider"} /\ said[j].kind \in {"trip", "rider"}
      BY <2>4, <3>1 DEF Sound, Answers
    <3> QED
      BY <2>4, <3>1, <3>2 DEF Agree
  <2> QED
    BY <2>1, <2>3, <2>4 DEF SaidInv, AnsweredOnce
<1>2. IInv => DoesAsSaid
  <2> SUFFICES ASSUME IInv, phase = "over", AutoDispatch, meddled = {}, NEW i \in DOMAIN said,
                      said[i].kind \in {"trip", "rider"}, order[said[i].order].ready <= DueMin
               PROVE  carrier[said[i].order] = said[i].rider
    BY DEF DoesAsSaid
  <2>1. i < turn
    <3>1. said \in Seq(Answers) /\ turn \in Nat /\ turn > Len(said)
      BY DEF IInv, Types, PhaseInv
    <3> QED
      BY <3>1
  <2>2. said[i].order \in done
    BY <2>1 DEF IInv, DidInv, Due
  <2> QED
    BY <2>2 DEF IInv, DidInv
<1>3. IInv => RefusalsExplained
  <2> SUFFICES ASSUME IInv, NEW ids \in SUBSET Ids, Cardinality(ids) > 1, BestRoutes(ids) = {},
                      NEW s \in Cheapest(Sequences(ids))
               PROVE  Explain(s) # {}
    BY DEF RefusalsExplained
  <2>1. s \in Sequences(ids)
    BY DEF Cheapest
  <2>2. ids # {}
    BY FS_EmptySet
  <2>3. OrderType
    BY DispatchAssumption DEF IInv, Types, OrderType
  <2>4. Route(s) /\ ~ Legal(s)
    BY <2>1, <2>2, <2>3, SequencesOf, BestExists
  <2> QED
    BY <2>3, <2>4, Explained
<1> QED
  BY <1>1, <1>2, <1>3, DispatchInvariant, PTL DEF AnswersHold

\* formTrips, a greedy heuristic, leaves no two orders alone that the rules let
\* ride together to save time, and keeps its promises.
THEOREM SharesAllItMay == Spec => []SharesWhatItMay
<1>1. IInv => SharesWhatItMay
  <2> SUFFICES ASSUME IInv PROVE SharesWhatItMay
    OBVIOUS
  <2>1. SaidInv /\ LonelyInv
    BY DEF IInv
  <2> DEFINE alone == {said[i].order : i \in {j \in DOMAIN said : /\ said[j].kind # "join"
                                                                 /\ Len(said[j].orders) = 1}}
  <2>2. MaxOrders > 1 => \A o, p \in alone : \A s \in Sequences({o, p}) :
                           o # p => ~ (Legal(s) /\ Saving(s) > 0)
    <3>1. alone \subseteq Alone
      BY DEF Alone
    <3> HIDE DEF alone
    <3> QED
      BY <2>1, <3>1 DEF LonelyInv
  <2>3. ASSUME NEW i \in DOMAIN said, Len(said[i].orders) > 1, NEW k \in DOMAIN said[i].orders
        PROVE  /\ Arrival(said[i].orders, k) <= order[said[i].orders[k]].promise
               /\ ExtraWait(said[i].orders, k) <= MaxExtraMin
    <3>1. Sound(said[i])
      BY <2>1 DEF SaidInv
    <3>2. said[i].kind # "join"
      <4>1. \A o : ~ (Len(<<o>>) > 1)
        OBVIOUS
      <4> QED
        BY <2>3, <3>1, <4>1 DEF Sound
    <3>3. Legal(said[i].orders)
      BY <2>3, <3>1, <3>2, BestAre DEF Sound, Sensible
    <3> QED
      BY <2>3, <3>3 DEF Legal
  <2> QED
    BY <2>2, <2>3 DEF SharesWhatItMay
<1> QED
  BY <1>1, DispatchInvariant, PTL

\* A step that changes who carries an order leaves the orders of a rider with
\* that rider, but for those a hand has touched.
LEMMA StepTakesFromNobody ==
  ASSUME IInv, [Next]_vars, NEW o \in Ids, carrier[o] \in Riders, carrier'[o] # carrier[o]
  PROVE  o \in meddled'
<1>1. CASE Apply
  <2> DEFINE s == said[turn]
  <2>1. /\ phase = "apply" /\ Applies(s) /\ meddled' = meddled
        /\ CreateTrip(Wanted(s), s.rider)
    BY <1>1 DEF Apply, Applies, db
  <2>2. turn \in DOMAIN said
    <3>1. turn \in Nat \ {0} /\ said \in Seq(Answers) /\ turn <= Len(said)
      BY <1>1 DEF Apply, IInv, Types
    <3> QED
      BY <3>1
  <2>3. o \in Wanted(s) /\ carrier[o] # s.rider
    BY <2>1 DEF CreateTrip
  <2>4. /\ ToSet(s.orders) \subseteq seen.pool /\ ToSet(s.orders) \cap done = {}
        /\ \A p \in Wanted(s) \ ToSet(s.orders) : carrier[p] = s.rider
    BY <2>1, <2>2, AppliedTo DEF Applies
  <2>5. o \in seen.pool /\ o \notin done
    BY <2>3, <2>4
  <2>6. carrier[o] # "nobody"
    BY DispatchAssumption
  <2> QED
    BY <2>1, <2>5, <2>6 DEF IInv, FreeInv
<1>2. ASSUME NEW p \in Ids, Cancel(p) PROVE o \in meddled'
  <2>1. carrier' = [carrier EXCEPT ![p] = "cancelled"] /\ p \in meddled'
    BY <1>2 DEF Cancel, Meddle
  <2>2. o = p
    BY <2>1 DEF IInv, Types
  <2> QED
    BY <2>1, <2>2
<1>3. ASSUME NEW p \in Ids, NEW r \in Riders, HandAssign(p, r) PROVE o \in meddled'
  <2>1. carrier' = [carrier EXCEPT ![p] = r] /\ p \in meddled'
    BY <1>3 DEF HandAssign, Meddle
  <2>2. o = p
    BY <2>1 DEF IInv, Types
  <2> QED
    BY <2>1, <2>2
<1>4. CASE ReadRiders \/ ReadPool \/ ReadTrips
  BY <1>4 DEF ReadRiders, ReadPool, ReadTrips, db
<1>5. CASE Join \/ JoinsOver \/ FormTrip \/ Solo
  BY <1>5 DEF Join, JoinsOver, FormTrip, Solo, db
<1>6. CASE Carry \/ Suggested \/ Applied
  BY <1>6 DEF Carry, Suggested, Applied, db
<1>7. CASE UNCHANGED vars
  BY <1>7 DEF vars, db
<1> QED
  BY <1>1, <1>2, <1>3, <1>4, <1>5, <1>6, <1>7 DEF Next

\* The dispatcher takes an order from a rider only if it was given out by hand
\* while the pass was running.
THEOREM HandsAreRespected == Spec => TakesFromNobody
<1>1. IInv /\ [Next]_vars =>
        [\A o \in Ids : carrier[o] \in Riders /\ carrier'[o] # carrier[o] => o \in meddled']_vars
  BY StepTakesFromNobody
<1> QED
  BY <1>1, DispatchInvariant, PTL DEF Spec, TakesFromNobody
----------------------------------------------------------------------------
(* The apologies for a delay (Watch).                                      *)

CONSTANTS Pods, RiderPace, NotAcceptedMin, ReadyNoCarrierMin, Moments, MaxFaults
VARIABLES learnt, queue, lock, at, todo, faults

W == INSTANCE Watch

\* A row of the table, of whatever contents.
IsRow(r) ==
  /\ r \in [cart : {r.cart}, status : W!Statuses, placed : {r.placed}, accepted : {r.accepted},
            ready : {r.ready}, picked : {r.picked}, carried : {r.carried}, spot : {r.spot},
            eta : {r.eta}, promised : {r.promised}, apologised : BOOLEAN]

\* The database: rows, and checkouts of placed orders.
TableInv ==
  /\ row \in [Orders -> {row[o] : o \in Orders}]
  /\ \A o \in W!Placed : IsRow(row[o])
  /\ checkout \in [Orders -> {"none", "stamp", "announce"}]
  /\ \A o \in Orders : checkout[o] # "none" => o \in W!Placed

\* The loops: lists of placed orders, one at hand where it is needed.
LoopInv ==
  /\ todo \in [Pods -> Seq(Orders)]
  /\ \A p \in Pods : \A i \in DOMAIN todo[p] : todo[p][i] \in W!Placed
  /\ at \in [Pods -> {"idle", "learn", "list", "look", "claim", "tell", "ready", "unlock"}]
  /\ \A p \in Pods : at[p] \in {"claim", "tell"} => todo[p] # <<>>

\* Pod p is about to apologise for order o.
Tells(p, o) == at[p] = "tell" /\ Head(todo[p]) = o

\* Nothing has been apologies of an order that nobody claimed.
Unclaimed(o) == o \in W!Placed => ~ row[o].apologised

\* One instance at most tells, of what nobody has told or lost; and nobody
\* does of an order that is not claimed.
ToldInv ==
  /\ apologies \in [Orders -> Nat]
  /\ \A o \in Orders :
       /\ Unclaimed(o) => apologies[o] = 0 /\ o \notin lost /\ \A p \in Pods : ~ Tells(p, o)
       /\ \A p \in Pods : Tells(p, o) => apologies[o] = 0 /\ o \notin lost
       /\ \A p, q \in Pods : Tells(p, o) /\ Tells(q, o) => p = q
       /\ apologies[o] = 0 \/ (apologies[o] = 1 /\ o \notin lost)

ApologyInv == TableInv /\ LoopInv /\ ToldInv

----------------------------------------------------------------------------
\* No order is placed at first.
LEMMA InitApologies == W!Init => ApologyInv
<1> SUFFICES ASSUME W!Init PROVE ApologyInv
  OBVIOUS
<1>1. W!Placed = {}
  BY DEF W!Init, W!Placed
<1>2. TableInv
  BY <1>1 DEF W!Init, TableInv
<1>3. LoopInv
  BY DEF W!Init, LoopInv
<1>4. ToldInv
  BY <1>1 DEF W!Init, ToldInv, Tells
<1> QED
  BY <1>2, <1>3, <1>4 DEF ApologyInv

\* A row that is changed stays a row: the order is still placed.
LEMMA RowKept ==
  ASSUME NEW r, IsRow(r), NEW x, NEW s \in W!Statuses, NEW b \in BOOLEAN
  PROVE  /\ IsRow([r EXCEPT !.eta = x]) /\ IsRow([r EXCEPT !.promised = x])
         /\ IsRow([r EXCEPT !.accepted = x]) /\ IsRow([r EXCEPT !.ready = x])
         /\ IsRow([r EXCEPT !.picked = x]) /\ IsRow([r EXCEPT !.carried = x])
         /\ IsRow([r EXCEPT !.spot = x]) /\ IsRow([r EXCEPT !.status = s])
         /\ IsRow([r EXCEPT !.apologised = b])
BY DEF IsRow

\* What is a row is not the absence of one.
LEMMA RowsArePlaced ==
  ASSUME NEW r, IsRow(r)
  PROVE  r # W!NotPlaced
BY DEF IsRow, W!NotPlaced, W!Statuses

\* One row changes.
LEMMA RowChanges ==
  ASSUME TableInv, NEW o \in Orders, NEW r, IsRow(r), row' = [row EXCEPT ![o] = r]
  PROVE  /\ row' \in [Orders -> {row'[p] : p \in Orders}]
         /\ W!Placed' = W!Placed \cup {o}
         /\ row'[o] = r /\ \A p \in Orders \ {o} : row'[p] = row[p]
         /\ \A p \in W!Placed' : IsRow(row'[p])
<1>1. row'[o] = r /\ \A p \in Orders \ {o} : row'[p] = row[p]
  BY DEF TableInv
<1>2. row' \in [Orders -> {row'[p] : p \in Orders}]
  BY DEF TableInv
<1>3. W!Placed' = W!Placed \cup {o}
  BY <1>1, RowsArePlaced DEF W!Placed
<1>4. \A p \in W!Placed' : IsRow(row'[p])
  BY <1>1, <1>3 DEF TableInv, W!Placed
<1> QED
  BY <1>1, <1>2, <1>3, <1>4

\* A step that leaves the loops alone and claims no apology.
Aside ==
  /\ TableInv' /\ W!Placed \subseteq W!Placed'
  /\ \A o \in Orders : Unclaimed(o)' => Unclaimed(o)
  /\ UNCHANGED <<at, todo, apologies, lost>>

\* The order's own steps.
LEMMA OrderStep ==
  ASSUME TableInv, NEW o \in Orders,
         \/ W!Place(o) \/ W!Stamp(o) \/ W!Announce(o) \/ W!CheckoutBreaks(o) \/ W!Carry(o) \/ W!Ping(o)
         \/ \E to \in W!Statuses : W!Move(o, to)
  PROVE  Aside
<1>a. ASSUME NEW r, IsRow(r), row' = [row EXCEPT ![o] = r], o \in W!Placed => r.apologised = row[o].apologised,
             o \notin W!Placed => ~ r.apologised,
             checkout' \in [Orders -> {"none", "stamp", "announce"}],
             \A p \in Orders : checkout'[p] # "none" => checkout[p] # "none" \/ p = o,
             UNCHANGED <<at, todo, apologies, lost>>
      PROVE  Aside
  <2>1. /\ row' \in [Orders -> {row'[p] : p \in Orders}]
        /\ W!Placed' = W!Placed \cup {o}
        /\ row'[o] = r /\ \A p \in Orders \ {o} : row'[p] = row[p]
        /\ \A p \in W!Placed' : IsRow(row'[p])
    BY <1>a, RowChanges
  <2>2. TableInv'
    BY <1>a, <2>1 DEF TableInv
  <2>3. \A p \in Orders : Unclaimed(p)' => Unclaimed(p)
    BY <1>a, <2>1 DEF Unclaimed
  <2> QED
    BY <1>a, <2>1, <2>2, <2>3 DEF Aside
<1>b. ASSUME o \in W!Placed PROVE IsRow(row[o]) /\ row[o] \in {row[p] : p \in Orders}
  BY <1>b DEF TableInv
<1>1. CASE W!Place(o)
  <2>1. PICK c \in Carts : row' = [row EXCEPT ![o] = W!Row(c, "order_received", now)]
    BY <1>1 DEF W!Place
  <2>2. IsRow(W!Row(c, "order_received", now)) /\ ~ W!Row(c, "order_received", now).apologised
    BY DEF W!Row, IsRow, W!Statuses
  <2>3. o \notin W!Placed /\ checkout' = [checkout EXCEPT ![o] = "stamp"] /\ UNCHANGED <<at, todo, apologies, lost>>
    BY <1>1 DEF W!Place, W!loop
  <2> QED
    BY <1>a, <2>1, <2>2, <2>3 DEF TableInv
<1>2. CASE W!Stamp(o)
  <2>1. o \in W!Placed
    BY <1>2 DEF W!Stamp, TableInv
  <2>a. PICK table : row' = [row EXCEPT ![o].eta = W!Promise(o, table).max,
                                        ![o].promised = row[o].placed + W!Promise(o, table).max]
    BY <1>2 DEF W!Stamp
  <2> DEFINE r1 == [row[o] EXCEPT !.eta = W!Promise(o, table).max]
             r2 == [r1 EXCEPT !.promised = row[o].placed + W!Promise(o, table).max]
  <2>2. row' = [row EXCEPT ![o] = r2]
    BY <2>a DEF TableInv
  <2>3. IsRow(r2) /\ r2.apologised = row[o].apologised
    BY <1>b, <2>1 DEF IsRow
  <2>4. checkout' = [checkout EXCEPT ![o] = "announce"] /\ UNCHANGED <<at, todo, apologies, lost>>
    BY <1>2 DEF W!Stamp, W!loop
  <2> HIDE DEF r1, r2
  <2> QED
    BY <1>a, <2>1, <2>2, <2>3, <2>4 DEF TableInv
<1>3. ASSUME UNCHANGED row, checkout' \in [Orders -> {"none", "stamp", "announce"}],
             \A p \in Orders : checkout'[p] # "none" => checkout[p] # "none",
             UNCHANGED <<at, todo, apologies, lost>>
      PROVE  Aside
  BY <1>3 DEF Aside, TableInv, W!Placed, Unclaimed
<1>4. CASE W!Announce(o) \/ W!CheckoutBreaks(o)
  <2>1. UNCHANGED row /\ UNCHANGED <<at, todo, apologies, lost>>
    BY <1>4 DEF W!Announce, W!CheckoutBreaks, W!loop
  <2>2. /\ checkout' \in [Orders -> {"none", "stamp", "announce"}]
        /\ \A p \in Orders : checkout'[p] # "none" => checkout[p] # "none"
    BY <1>4 DEF W!Announce, W!CheckoutBreaks, TableInv
  <2> QED
    BY <1>3, <2>1, <2>2
\* The row moves, the checkout does not.
<1>5. ASSUME NEW r, IsRow(r), row' = [row EXCEPT ![o] = r], o \in W!Placed, r.apologised = row[o].apologised,
             UNCHANGED <<checkout, at, todo, apologies, lost>>
      PROVE  Aside
  BY <1>a, <1>5 DEF TableInv
<1>6. CASE W!Carry(o)
  <2> DEFINE s == IF row[o].status = "food_ready" THEN "assigned_to_delivery" ELSE row[o].status
             r1 == [row[o] EXCEPT !.carried = TRUE]
             r2 == [r1 EXCEPT !.status = s]
  <2>1. o \in W!Placed /\ UNCHANGED <<checkout, at, todo, apologies, lost>>
    BY <1>6 DEF W!Carry, W!loop
  <2>2. row' = [row EXCEPT ![o] = r2]
    BY <1>6, <1>b, <2>1 DEF W!Carry, TableInv, IsRow
  <2>3. s \in W!Statuses
    BY <1>b, <2>1 DEF IsRow, W!Statuses
  <2> HIDE DEF s
  <2>4. IsRow(r2) /\ r2.apologised = row[o].apologised
    BY <1>b, <2>1, <2>3 DEF IsRow
  <2> HIDE DEF r1, r2
  <2> QED
    BY <1>5, <2>1, <2>2, <2>4
<1>7. CASE W!Ping(o)
  <2>1. o \in W!Placed /\ UNCHANGED <<checkout, at, todo, apologies, lost>>
    BY <1>7 DEF W!Ping, W!loop
  <2>2. PICK km : row' = [row EXCEPT ![o].spot = km]
    BY <1>7 DEF W!Ping
  <2> DEFINE r == [row[o] EXCEPT !.spot = km]
  <2>3. row' = [row EXCEPT ![o] = r]
    BY <2>2 DEF TableInv
  <2>4. IsRow(r) /\ r.apologised = row[o].apologised
    BY <1>b, <2>1 DEF IsRow
  <2> HIDE DEF r
  <2> QED
    BY <1>5, <2>1, <2>3, <2>4
<1>8. ASSUME NEW to \in W!Statuses, W!Move(o, to) PROVE Aside
  <2>1. o \in W!Placed /\ UNCHANGED <<checkout, at, todo, apologies, lost>>
    BY <1>8 DEF W!Move, W!loop
  <2> DEFINE r == W!Stamped(row[o], to)
  <2>2. row' = [row EXCEPT ![o] = r]
    BY <1>8 DEF W!Move, TableInv
  <2>3. IsRow(r) /\ r.apologised = row[o].apologised
    BY <1>b, <2>1, <1>8 DEF IsRow, W!Stamped
  <2> HIDE DEF r
  <2> QED
    BY <1>5, <2>1, <2>2, <2>3
<1> QED
  BY <1>1, <1>2, <1>4, <1>6, <1>7, <1>8

\* Steps of the pods that leave table and apologies alone.
PodQuiet(p) ==
  W!TryLock(p) \/ W!Learn(p) \/ W!List(p) \/ W!Look(p) \/ W!WatchAccept(p) \/ W!WatchReady(p) \/ W!Unlock(p)

\* Sequences that a pod takes its orders from.
LEMMA ListingsAreLists ==
  ASSUME NEW S \in SUBSET Orders, NEW s \in W!Listings(S)
  PROVE  s \in Seq(Orders) /\ \A i \in DOMAIN s : s[i] \in S
<1>1. IsFiniteSet(S) /\ Cardinality(S) \in Nat
  BY OrdersAssumption, FS_Subset, FS_CardinalityType
<1>2. W!Cardinality(S) = Cardinality(S)
  BY DEF W!Cardinality, Cardinality
<1>3. s \in [1 .. Cardinality(S) -> S]
  BY <1>2 DEF W!Listings, W!SetToSeqs
<1> QED
  BY <1>1, <1>3

\* So is what the LIMIT leaves of one.
LEMMA FirstIsList ==
  ASSUME NEW S, NEW s \in Seq(Orders), \A i \in DOMAIN s : s[i] \in S
  PROVE  W!First(s) \in Seq(Orders) /\ \A i \in DOMAIN W!First(s) : W!First(s)[i] \in S
<1>1. PICK n \in Nat : n = Len(s)
  OBVIOUS
<1>2. PICK m \in Nat : m = W!Min({n, 100}) /\ m <= n
  <2>1. W!Min({n, 100}) = IF n <= 100 THEN n ELSE 100
    BY DEF W!Min
  <2> QED
    BY <2>1
<1>3. W!First(s) = SubSeq(s, 1, m)
  BY <1>1, <1>2 DEF W!First, W!ListLimit
<1>4. \A i \in 1 .. m : i \in DOMAIN s /\ s[i] \in Orders /\ s[i] \in S
  BY <1>1, <1>2
<1>5. /\ SubSeq(s, 1, m) \in Seq(Orders) /\ Len(SubSeq(s, 1, m)) = m
      /\ \A i \in 1 .. m : SubSeq(s, 1, m)[i] = s[i]
  <2>1. m \in Int /\ 1 \in Int /\ m - 1 + 1 = m /\ (m < 1 => m = 0) /\ \A i \in 1 .. m : 1 + i - 1 = i
    OBVIOUS
  <2>2. /\ SubSeq(s, 1, m) \in Seq(Orders)
        /\ Len(SubSeq(s, 1, m)) = IF 1 <= m THEN m - 1 + 1 ELSE 0
        /\ \A i \in 1 .. m - 1 + 1 : SubSeq(s, 1, m)[i] = s[1 + i - 1]
    BY ONLY <1>4, <2>1, SubSeqProperties
  <2> QED
    BY <2>1, <2>2
<1>6. DOMAIN SubSeq(s, 1, m) = 1 .. m
  BY <1>5
<1> QED
  BY <1>3, <1>4, <1>5, <1>6

\* The rest of a list is a list.
LEMMA Tails ==
  ASSUME NEW s \in Seq(Orders), s # <<>>, NEW S, \A i \in DOMAIN s : s[i] \in S
  PROVE  Tail(s) \in Seq(Orders) /\ (\A i \in DOMAIN Tail(s) : Tail(s)[i] \in S) /\ Head(s) \in S
         /\ Head(s) \in Orders
OBVIOUS

\* A pod that leaves the table alone keeps its list.
LEMMA LoopKept ==
  ASSUME LoopInv, W!Placed \subseteq W!Placed', NEW p \in Pods,
         NEW where \in {"idle", "learn", "list", "look", "claim", "tell", "ready", "unlock"},
         at' = [at EXCEPT ![p] = where], where \in {"claim", "tell"} => todo'[p] # <<>>,
         \/ todo' = todo
         \/ todo[p] # <<>> /\ todo' = [todo EXCEPT ![p] = Tail(@)]
         \/ todo' = [todo EXCEPT ![p] = <<>>]
         \/ \E S \in SUBSET W!Placed : \E s \in W!Listings(S) :
              todo' = [todo EXCEPT ![p] = W!First(s)]
  PROVE  LoopInv'
<1>1. /\ todo'[p] \in Seq(Orders) /\ \A i \in DOMAIN todo'[p] : todo'[p][i] \in W!Placed
  <2>1. CASE todo' = todo
    BY <2>1 DEF LoopInv
  <2>4. CASE todo' = [todo EXCEPT ![p] = <<>>]
    <3>1. todo'[p] = <<>>
      BY <2>4 DEF LoopInv
    <3> QED
      BY <3>1
  <2>2. CASE todo[p] # <<>> /\ todo' = [todo EXCEPT ![p] = Tail(@)]
    <3>1. todo'[p] = Tail(todo[p])
      BY <2>2 DEF LoopInv
    <3>2. todo[p] \in Seq(Orders) /\ \A i \in DOMAIN todo[p] : todo[p][i] \in W!Placed
      BY DEF LoopInv
    <3> QED
      BY <2>2, <3>1, <3>2, Tails
  <2>3. ASSUME NEW S \in SUBSET W!Placed, NEW s \in W!Listings(S),
               todo' = [todo EXCEPT ![p] = W!First(s)]
        PROVE  todo'[p] \in Seq(Orders) /\ \A i \in DOMAIN todo'[p] : todo'[p][i] \in W!Placed
    <3>1. todo'[p] = W!First(s)
      BY <2>3 DEF LoopInv
    <3>2. S \in SUBSET Orders
      BY DEF W!Placed
    <3>3. s \in Seq(Orders) /\ \A i \in DOMAIN s : s[i] \in S
      BY ONLY <2>3, <3>2, ListingsAreLists
    <3>4. W!First(s) \in Seq(Orders) /\ \A i \in DOMAIN W!First(s) : W!First(s)[i] \in S
      BY ONLY <3>3, FirstIsList
    <3> QED
      BY <3>1, <3>4
  <2> QED
    BY <2>1, <2>2, <2>3, <2>4
<1>2. \A q \in Pods \ {p} : todo'[q] = todo[q]
  BY DEF LoopInv
<1>3. todo' \in [Pods -> Seq(Orders)]
  BY <1>1 DEF LoopInv
<1> QED
  BY <1>1, <1>2, <1>3 DEF LoopInv

\* What ToldInv needs of a step that neither claims nor tells.
LEMMA ToldKept ==
  ASSUME ToldInv, \A o \in Orders : Unclaimed(o)' => Unclaimed(o), UNCHANGED <<apologies, lost>>,
         \A o \in Orders, p \in Pods : Tells(p, o)' => Tells(p, o)
  PROVE  ToldInv'
BY DEF ToldInv

LEMMA QuietStep ==
  ASSUME ApologyInv, NEW p \in Pods, PodQuiet(p)
  PROVE  ApologyInv'
<1> USE DEF ApologyInv
<1>1. UNCHANGED <<row, checkout, apologies, lost>>
  BY DEF PodQuiet, W!TryLock, W!Learn, W!List, W!Look, W!WatchAccept, W!WatchReady, W!Unlock, W!Next1, W!kitchen
<1>2. TableInv' /\ W!Placed' = W!Placed /\ \A o \in Orders : Unclaimed(o)' => Unclaimed(o)
  BY <1>1 DEF TableInv, W!Placed, Unclaimed
<1> DEFINE Places == {"idle", "learn", "list", "look", "claim", "ready", "unlock"}
<1>3. \E where \in Places : at' = [at EXCEPT ![p] = where] /\ (where = "claim" => todo'[p] # <<>>)
  BY DEF PodQuiet, W!TryLock, W!Learn, W!List, W!Look, W!WatchAccept, W!WatchReady, W!Unlock, W!Next1, W!Goto
<1>4. \/ todo' = todo
      \/ todo[p] # <<>> /\ todo' = [todo EXCEPT ![p] = Tail(@)]
      \/ \E S \in SUBSET W!Placed : \E s \in W!Listings(S) : todo' = [todo EXCEPT ![p] = W!First(s)]
  <2>1. CASE W!List(p)
    <3>1. {o \in W!Placed : W!Watched(row[o])} \in SUBSET W!Placed
      OBVIOUS
    <3> QED
      BY <2>1, <3>1 DEF W!List
  <2>2. CASE ~ W!List(p)
    BY <2>2 DEF PodQuiet, W!TryLock, W!Learn, W!Look, W!WatchAccept, W!WatchReady, W!Unlock, W!Next1
  <2> QED
    BY <2>1, <2>2
<1>5. LoopInv'
  BY <1>2, <1>3, <1>4, LoopKept
<1>6. \A o \in Orders, q \in Pods : Tells(q, o)' => Tells(q, o)
  BY <1>3, <1>4 DEF Tells, LoopInv
<1>7. ToldInv'
  BY <1>1, <1>2, <1>6, ToldKept
<1> QED
  BY <1>2, <1>5, <1>7

\* The UPDATE that finds the column empty.
LEMMA ApologyClaim ==
  ASSUME ApologyInv, NEW p \in Pods, W!Claim(p)
  PROVE  ApologyInv'
<1> USE DEF ApologyInv
<1>0. todo[p] # <<>> /\ Head(todo[p]) \in W!Placed /\ Head(todo[p]) \in Orders
  BY Tails DEF W!Claim, LoopInv
<1>1. PICK o \in Orders : o = Head(todo[p]) /\ o \in W!Placed
  BY <1>0
<1>2. IsRow(row[o])
  BY <1>1 DEF TableInv
<1>3. UNCHANGED <<checkout, apologies, lost>>
  BY DEF W!Claim
<1>4. CASE W!Mine(o)
  <2> DEFINE r == [row[o] EXCEPT !.apologised = TRUE]
  <2>1. row' = [row EXCEPT ![o] = r] /\ at' = [at EXCEPT ![p] = "tell"] /\ UNCHANGED todo
    BY <1>1, <1>4 DEF W!Claim, W!Goto, TableInv
  <2>2. IsRow(r) /\ r.apologised
    BY <1>2 DEF IsRow
  <2> HIDE DEF r
  <2>3. /\ row' \in [Orders -> {row'[q] : q \in Orders}]
        /\ W!Placed' = W!Placed \cup {o} /\ row'[o] = r /\ \A q \in Orders \ {o} : row'[q] = row[q]
        /\ \A q \in W!Placed' : IsRow(row'[q])
    BY <2>1, <2>2, RowChanges
  <2>p. W!Placed' = W!Placed
    BY <1>1, <2>3
  <2>4. TableInv'
    BY <1>3, <2>3, <2>p DEF TableInv
  <2>5. LoopInv'
    BY <1>0, <2>1, <2>p DEF LoopInv
  <2>6. Unclaimed(o)
    BY <1>4 DEF Unclaimed, W!Mine
  <2>7. ~ Unclaimed(o)'
    BY <1>1, <2>2, <2>3, <2>p DEF Unclaimed
  <2>8. \A q \in Orders \ {o} : Unclaimed(q)' => Unclaimed(q)
    BY <2>3, <2>p DEF Unclaimed
  <2>9. apologies[o] = 0 /\ o \notin lost /\ \A q \in Pods : ~ Tells(q, o)
    BY <2>6 DEF ToldInv
  <2>10. /\ \A x \in Orders \ {o}, q \in Pods : Tells(q, x)' => Tells(q, x)
         /\ \A q \in Pods : Tells(q, o)' => q = p
    BY <1>1, <2>1, <2>9 DEF Tells, LoopInv
  <2>11. ASSUME NEW x \in Orders
         PROVE  /\ Unclaimed(x)' => apologies'[x] = 0 /\ x \notin lost' /\ \A q \in Pods : ~ Tells(q, x)'
                /\ \A q \in Pods : Tells(q, x)' => apologies'[x] = 0 /\ x \notin lost'
                /\ \A q, q2 \in Pods : Tells(q, x)' /\ Tells(q2, x)' => q = q2
                /\ apologies'[x] = 0 \/ (apologies'[x] = 1 /\ x \notin lost')
    <3>1. CASE x = o
      BY <1>3, <2>7, <2>9, <2>10, <3>1
    <3>2. CASE x # o
      BY <1>3, <2>8, <2>10, <3>2 DEF ToldInv
    <3> QED
      BY <3>1, <3>2
  <2>12. ToldInv'
    BY <1>3, <2>11 DEF ToldInv
  <2> QED
    BY <2>4, <2>5, <2>12
<1>5. CASE ~ W!Mine(o)
  <2>1. UNCHANGED row /\ todo' = [todo EXCEPT ![p] = Tail(@)] /\ at' = [at EXCEPT ![p] = "look"]
    BY <1>1, <1>5 DEF W!Claim, W!Next1, W!Goto
  <2>2. TableInv' /\ W!Placed' = W!Placed /\ \A q \in Orders : Unclaimed(q)' => Unclaimed(q)
    BY <1>3, <2>1 DEF TableInv, W!Placed, Unclaimed
  <2>3. LoopInv'
    BY <1>0, <2>1, <2>2, LoopKept
  <2>4. \A x \in Orders, q \in Pods : Tells(q, x)' => Tells(q, x)
    BY <2>1 DEF Tells, LoopInv
  <2> QED
    BY <1>3, <2>2, <2>3, <2>4, ToldKept
<1> QED
  BY <1>4, <1>5

\* Of an order at hand to tell, one apology goes out or is lost.
LEMMA TellsOnce ==
  ASSUME ApologyInv, NEW p \in Pods, at[p] = "tell", NEW o, o = Head(todo[p]),
         UNCHANGED <<row, checkout>>, LoopInv',
         \/ apologies' = [apologies EXCEPT ![o] = @ + 1] /\ UNCHANGED lost
         \/ lost' = lost \cup {o} /\ UNCHANGED apologies,
         at'[p] # "tell", \A q \in Pods \ {p} : at'[q] = at[q] /\ todo'[q] = todo[q]
  PROVE  ApologyInv'
<1> USE DEF ApologyInv
<1>1. o \in Orders /\ Tells(p, o)
  BY Tails DEF LoopInv, Tells
<1>2. apologies[o] = 0 /\ o \notin lost /\ ~ Unclaimed(o) /\ \A q \in Pods \ {p} : ~ Tells(q, o)
  BY <1>1 DEF ToldInv
<1>3. TableInv' /\ \A x \in Orders : Unclaimed(x)' = Unclaimed(x)
  BY DEF TableInv, W!Placed, Unclaimed
<1>4. (\A q \in Pods : ~ Tells(q, o)') /\ \A x \in Orders \ {o}, q \in Pods : Tells(q, x)' => Tells(q, x)
  BY <1>2 DEF Tells
<1>5. /\ apologies' \in [Orders -> Nat]
      /\ apologies'[o] = 0 \/ (apologies'[o] = 1 /\ o \notin lost')
      /\ \A x \in Orders \ {o} : apologies'[x] = apologies[x] /\ (x \in lost' <=> x \in lost)
  <2>1. CASE apologies' = [apologies EXCEPT ![o] = @ + 1] /\ UNCHANGED lost
    <3>1. apologies \in [Orders -> Nat]
      BY DEF ToldInv
    <3>2. apologies'[o] = 1 /\ \A x \in Orders \ {o} : apologies'[x] = apologies[x]
      BY <1>1, <1>2, <2>1, <3>1
    <3>3. apologies' \in [Orders -> Nat]
      BY <1>1, <1>2, <2>1, <3>1
    <3>4. lost' = lost
      BY <2>1
    <3>5. apologies'[o] = 1 /\ o \notin lost'
      BY <1>2, <3>2, <3>4
    <3>6. \A x \in Orders \ {o} : apologies'[x] = apologies[x] /\ (x \in lost' <=> x \in lost)
      BY <3>2, <3>4
    <3> QED
      BY ONLY <3>3, <3>5, <3>6
  <2>2. CASE lost' = lost \cup {o} /\ UNCHANGED apologies
    BY <1>1, <1>2, <2>2 DEF ToldInv
  <2> QED
    BY <2>1, <2>2
<1>6. ToldInv'
  BY <1>1, <1>2, <1>3, <1>4, <1>5 DEF ToldInv
<1> QED
  BY <1>3, <1>6

\* A pod gives up where it is, or its process does.
LEMMA FaultStep ==
  ASSUME ApologyInv, NEW p \in Pods, W!Tell(p) \/ W!Fail(p) \/ W!Restart(p) \/ W!Disconnect(p)
  PROVE  ApologyInv'
<1> USE DEF ApologyInv
<1>1. UNCHANGED <<row, checkout>>
  BY DEF W!Tell, W!Fail, W!Restart, W!Disconnect, W!kitchen
<1>2. TableInv' /\ W!Placed' = W!Placed /\ \A o \in Orders : Unclaimed(o)' => Unclaimed(o)
  BY <1>1 DEF TableInv, W!Placed, Unclaimed
<1>3. CASE W!Disconnect(p)
  BY <1>2, <1>3, ToldKept DEF W!Disconnect, LoopInv, Tells
<1>4. CASE ~ W!Disconnect(p)
  <2>1. \/ at' = [at EXCEPT ![p] = "look"] /\ todo[p] # <<>> /\ todo' = [todo EXCEPT ![p] = Tail(@)]
        \/ at' = [at EXCEPT ![p] = "unlock"] /\ todo' = todo /\ at[p] # "tell"
        \/ at' = [at EXCEPT ![p] = "idle"] /\ todo' = [todo EXCEPT ![p] = <<>>]
    BY <1>4 DEF W!Tell, W!Fail, W!Restart, W!Next1, W!Goto, LoopInv
  <2>2. LoopInv'
    BY <1>2, <2>1, LoopKept
  <2>3. at'[p] # "tell" /\ \A q \in Pods \ {p} : at'[q] = at[q] /\ todo'[q] = todo[q]
    BY <2>1 DEF LoopInv
  <2>4. CASE at[p] = "tell"
    <3> DEFINE o == Head(todo[p])
    <3>1. \/ apologies' = [apologies EXCEPT ![o] = @ + 1] /\ UNCHANGED lost
          \/ lost' = lost \cup {o} /\ UNCHANGED apologies
      BY <1>4, <2>4 DEF W!Tell, W!Fail, W!Restart, W!Forgotten
    <3> HIDE DEF o
    <3> QED
      BY <1>1, <2>2, <2>3, <2>4, <3>1, TellsOnce DEF o
  <2>5. CASE at[p] # "tell"
    <3>1. UNCHANGED <<apologies, lost>>
      BY <1>4, <2>5 DEF W!Tell, W!Fail, W!Restart, W!Forgotten
    <3>2. \A o \in Orders, q \in Pods : Tells(q, o)' => Tells(q, o)
      BY <2>3 DEF Tells
    <3> QED
      BY <1>2, <2>2, <3>1, <3>2, ToldKept
  <2> QED
    BY <2>4, <2>5
<1> QED
  BY <1>3, <1>4

\* What the order does leaves the apologies alone.
LEMMA AsideStep ==
  ASSUME ApologyInv, Aside
  PROVE  ApologyInv'
<1>1. LoopInv'
  BY DEF ApologyInv, Aside, LoopInv
<1>2. ToldInv'
  BY ToldKept DEF ApologyInv, Aside, Tells
<1> QED
  BY <1>1, <1>2 DEF ApologyInv, Aside

\* The inductive invariant.
THEOREM ApologyInvariant == W!Spec => []ApologyInv
<1>1. W!Init => ApologyInv
  BY InitApologies
<1>2. ApologyInv /\ [W!Next]_W!vars => ApologyInv'
  <2> SUFFICES ASSUME ApologyInv, [W!Next]_W!vars PROVE ApologyInv'
    OBVIOUS
  <2>1. ASSUME NEW o \in Orders,
               \/ W!Place(o) \/ W!Stamp(o) \/ W!Announce(o) \/ W!CheckoutBreaks(o) \/ W!Carry(o) \/ W!Ping(o)
               \/ \E to \in W!Statuses : W!Move(o, to)
        PROVE  ApologyInv'
    BY <2>1, OrderStep, AsideStep DEF ApologyInv
  <2>2. ASSUME NEW p \in Pods, W!Pod(p) \/ W!Fail(p) \/ W!Restart(p) \/ W!Disconnect(p) PROVE ApologyInv'
    BY <2>2, QuietStep, ApologyClaim, FaultStep DEF W!Pod, PodQuiet
  <2>3. CASE W!Tick \/ UNCHANGED W!vars
    <3>1. UNCHANGED <<row, checkout, at, todo, apologies, lost>>
      BY <2>3 DEF W!Tick, W!vars, W!kitchen, W!loop
    <3>2. Aside
      BY <3>1 DEF Aside, ApologyInv, TableInv, W!Placed, Unclaimed
    <3> QED
      BY <3>2, AsideStep
  <2> QED
    BY <2>1, <2>2, <2>3 DEF W!Next
<1> QED
  BY <1>1, <1>2, PTL DEF W!Spec

\* A customer hears of a delay once, and never after an apology was lost, for
\* any number of orders and of instances that all believe they hold the lock.
THEOREM ApologisedOnce == W!Spec => []OneApology
<1>1. ApologyInv => OneApology
  BY DEF ApologyInv, ToldInv, OneApology
<1> QED
  BY <1>1, ApologyInvariant, PTL

----------------------------------------------------------------------------
(* The promise (Eta): what is quoted from whole numbers is whole, ...      *)

\* The extremes of two numbers.
LEMMA OfTwo ==
  ASSUME NEW a \in Int, NEW b \in Int
  PROVE  /\ Max({a, b}) = IF a >= b THEN a ELSE b
         /\ Min({a, b}) = IF a <= b THEN a ELSE b
  BY DEF Max, Min

\* A setting in force is a number, and no smaller than its floor, ...
LEMMA Settings ==
  \A k \in DOMAIN Defaults : cfg[k] \in Nat /\ cfg[k] >= Floors[k]
<1> SUFFICES ASSUME NEW k \in DOMAIN Defaults PROVE cfg[k] \in Nat /\ cfg[k] >= Floors[k]
  OBVIOUS
<1>1. Defaults[k] \in Nat /\ Floors[k] \in Nat /\ Defaults[k] >= Floors[k]
  <2>1. k \in {"prepStep", "prepStepCap", "kitchenParallel", "queuePerOrder", "accept", "handoff",
              "kmph", "rangeWidth", "delayAlert"}
    BY DEF Defaults
  <2>2. /\ Defaults.prepStep \in Nat /\ Defaults.prepStepCap \in Nat /\ Defaults.queuePerOrder \in Nat
        /\ Defaults.accept \in Nat /\ Defaults.handoff \in Nat /\ Defaults.rangeWidth \in Nat
        /\ Defaults.delayAlert \in Nat
        /\ Floors.prepStep = 0 /\ Floors.prepStepCap = 0 /\ Floors.queuePerOrder = 0
        /\ Floors.accept = 0 /\ Floors.handoff = 0 /\ Floors.rangeWidth = 0
        /\ Floors.delayAlert = 0
    BY DEF Defaults, Floors
  <2>3. Defaults["kitchenParallel"] = 3 /\ Floors["kitchenParallel"] = 1
        /\ Defaults["kmph"] = 15 /\ Floors["kmph"] = 3
    BY DEF Defaults, Floors
  <2> QED
    BY <2>1, <2>2, <2>3
<1>2. Saved[k] \in Nat \/ Saved[k] \in {Absent, Junk}
  BY EtaAssumption
<1>3. cfg[k] = IF Saved[k] \in {Absent, Junk} THEN Defaults[k] ELSE Max({Floors[k], Saved[k]})
  BY DEF cfg
<1>4. CASE Saved[k] \in {Absent, Junk}
  BY <1>1, <1>3, <1>4
<1>5. CASE Saved[k] \notin {Absent, Junk}
  BY <1>1, <1>2, <1>3, <1>5, OfTwo
<1> QED
  BY <1>4, <1>5

\* ... whatever was saved; a rider moves.
LEMMA Charged ==
  /\ cfg.prepStep \in Nat /\ cfg.prepStepCap \in Nat /\ cfg.kitchenParallel \in Nat
  /\ cfg.queuePerOrder \in Nat /\ cfg.accept \in Nat /\ cfg.handoff \in Nat
  /\ cfg.kmph \in Nat /\ cfg.kmph >= 3 /\ cfg.rangeWidth \in Nat
<1>1. \A k \in {"prepStep", "prepStepCap", "kitchenParallel", "queuePerOrder", "accept",
                "handoff", "kmph", "rangeWidth"} : k \in DOMAIN Defaults
  BY DEF Defaults
<1>2. Floors["kmph"] = 3
  BY DEF Floors, Defaults
<1> QED
  BY <1>1, <1>2, Settings

\* The slowest dish, and the units beyond the first.
LEMMA PrepIsWhole ==
  ASSUME NEW items \in Seq([prep : Nat, quantity : Nat])
  PROVE  PrepMinutes(items) \in Int
<1>1. CASE items = <<>>
  BY <1>1, EtaAssumption DEF PrepMinutes
<1>2. CASE items # <<>>
  <2> DEFINE time(i) == IF items[i].prep > 0 THEN items[i].prep ELSE AvgPrepMinutes
             own == {time(i) : i \in DOMAIN items}
             count == [i \in DOMAIN items |-> Max({1, items[i].quantity})]
             units == SumFunction(count)
  <2>0. DOMAIN items = 1 .. Len(items) /\ Len(items) \in Nat \ {0}
        /\ \A i \in 1 .. Len(items) : items[i] \in [prep : Nat, quantity : Nat]
    <3> HIDE DEF own, units, count
    <3>1. Len(items) # 0
      BY <1>2
    <3>2. Len(items) \in Nat /\ DOMAIN items = 1 .. Len(items)
      OBVIOUS
    <3>3. \A i \in 1 .. Len(items) : items[i] \in [prep : Nat, quantity : Nat]
      BY ElementOfSeq
    <3> QED
      BY <3>1, <3>2, <3>3
  <2>1. IsFiniteSet(DOMAIN items) /\ DOMAIN items # {}
    <3>1. IsFiniteSet(1 .. Len(items))
      BY <2>0, FS_Interval, 1 \in Int
    <3> QED
      BY <2>0, <3>1
  <2>2. \A i \in DOMAIN items : items[i].prep \in Nat /\ items[i].quantity \in Nat
    <3> HIDE DEF own, units, count
    <3> QED
      BY <2>0
  <2>3. own \in SUBSET Int /\ own # {} /\ IsFiniteSet(own)
    <3> DEFINE f == [i \in DOMAIN items |-> time(i)]
    <3>1. IsFiniteSet({f[i] : i \in DOMAIN items})
      BY <2>1, Values
    <3>2. own = {f[i] : i \in DOMAIN items}
      OBVIOUS
    <3>3. own \in SUBSET Int
      BY <2>2, EtaAssumption
    <3> QED
      BY <2>1, <3>1, <3>2, <3>3
  <2>4. Max(own) \in Int
    <3> HIDE DEF own
    <3> QED
      BY <2>3, Bounds
  <2>5. count \in [DOMAIN items -> Nat]
    <3>1. ASSUME NEW i \in DOMAIN items PROVE Max({1, items[i].quantity}) \in Nat
      BY <2>2, OfTwo
    <3> QED
      BY <3>1
  <2>6. units \in Nat
    <3> HIDE DEF count
    <3> QED
      BY <2>1, <2>5, SumNat
  <2>7. (units - 1) * cfg.prepStep \in Int
    <3> HIDE DEF units
    <3> QED
      BY <2>6, Charged
  <2>8. Min({cfg.prepStepCap, (units - 1) * cfg.prepStep}) \in Int
    <3>1. PICK x \in Int : x = (units - 1) * cfg.prepStep
      BY <2>7
    <3>2. PICK y \in Int : y = cfg.prepStepCap
      BY Charged
    <3>3. Min({y, x}) \in Int
      <4> HIDE DEF own, units, count
      <4> QED
        BY OfTwo
    <3> QED
      BY <3>1, <3>2, <3>3
  <2>9. PrepMinutes(items) = Max(own) + Min({cfg.prepStepCap, (units - 1) * cfg.prepStep})
    BY <1>2 DEF PrepMinutes
  <2> HIDE DEF own, units
  <2> QED
    BY <2>4, <2>8, <2>9
<1> QED
  BY <1>1, <1>2

\* A stage's usual and slow time, or a statistic.
IsStage(s) == s.median \in Int /\ s.p80 \in Int

\* An order has four stages, learned or by default.
LEMMA StagesAre ==
  ASSUME NEW prep \in Int, NEW km \in Nat \cup {NoKm}, NEW pickup \in BOOLEAN, NEW st,
         \A p \in Parts : IsStage(st[p])
  PROVE  /\ DOMAIN StagesOf(prep, km, pickup, st) = 1 .. 4
         /\ \A i \in 1 .. 4 : IsStage(StagesOf(prep, km, pickup, st)[i])
<1> DEFINE ratio == Known(st.prep_ratio, Stage(100, 120))
           speed == Known(st.speed, Stage(6000 \div cfg.kmph, (7500 \div cfg.kmph)))
           way   == IF pickup THEN 0 ELSE IF km = NoKm THEN 3 ELSE km
           first == Known(st.accept, Stage(100 * cfg.accept, 200 * cfg.accept))
           third == IF pickup THEN Stage(0, 0)
                    ELSE Known(st.handoff, Stage(100 * cfg.handoff, 200 * cfg.handoff))
           all == StagesOf(prep, km, pickup, st)
<1>1. ASSUME NEW a \in Int, NEW b \in Int PROVE IsStage(Stage(a, b))
  BY DEF IsStage, Stage
<1>2. ASSUME NEW s, NEW d, IsStage(s), IsStage(d) PROVE IsStage(Known(s, d))
  BY <1>1, <1>2 DEF Known, IsStage, Stage
<1>3. IsStage(st.accept) /\ IsStage(st.prep_ratio) /\ IsStage(st.handoff) /\ IsStage(st.speed)
  BY DEF Parts
<1>4. 6000 \div cfg.kmph \in Int /\ 7500 \div cfg.kmph \in Int
  BY Charged
<1>5. IsStage(ratio) /\ IsStage(speed) /\ IsStage(first) /\ IsStage(third)
  <2>1. 100 * cfg.accept \in Int /\ 200 * cfg.accept \in Int
        /\ 100 * cfg.handoff \in Int /\ 200 * cfg.handoff \in Int
    BY Charged
  <2> QED
    BY <1>1, <1>2, <1>3, <1>4, <2>1
<1>6. way \in Int
  BY DEF NoKm
<1> HIDE DEF ratio, speed, way, first, third
<1>7. IsStage(Stage(prep * ratio.median, prep * ratio.p80))
      /\ IsStage(Stage(way * speed.median, way * speed.p80))
  <2>1. \A a, b \in Int : a * b \in Int
    OBVIOUS
  <2>2. /\ prep * ratio.median \in Int /\ prep * ratio.p80 \in Int
        /\ way * speed.median \in Int /\ way * speed.p80 \in Int
    BY <1>5, <1>6, <2>1 DEF IsStage
  <2> QED
    BY <1>1, <2>2
<1>8. all = <<first, Stage(prep * ratio.median, prep * ratio.p80), third,
              Stage(way * speed.median, way * speed.p80)>>
  BY DEF StagesOf, ratio, speed, way, first, third
<1> QED
  BY <1>5, <1>7, <1>8

----------------------------------------------------------------------------
(* ... and so is what was learned.                                         *)

\* The rows that come before row i in order of their values.
Before(v, i) == {j \in DOMAIN v : v[j] < v[i] \/ (v[j] = v[i] /\ j < i)}

\* Ranks of n rows are n numbers below n: each is some row's.
LEMMA EveryRankIsTaken ==
  ASSUME NEW v, DOMAIN v \in SUBSET Int, IsFiniteSet(DOMAIN v), \A i \in DOMAIN v : v[i] \in Int,
         NEW k \in 0 .. Cardinality(DOMAIN v) - 1
  PROVE  Sorted(v, k) \in Int
<1> DEFINE S == DOMAIN v
           n == Cardinality(S)
           rank == [i \in S |-> Rank(v, i)]
<1>1. n \in Nat
  BY FS_CardinalityType
<1>2. ASSUME NEW i \in S PROVE Rank(v, i) = Cardinality(Before(v, i)) /\ IsFiniteSet(Before(v, i))
                              /\ Rank(v, i) \in Nat
  <2>1. Before(v, i) \in SUBSET S
    BY DEF Before
  <2>2. IsFiniteSet(Before(v, i))
    BY <2>1, FS_Subset
  <2> QED
    BY <2>2, FS_CardinalityType DEF Rank, Before
<1>3. ASSUME NEW i \in S PROVE Rank(v, i) \in 0 .. n - 1
  <2>1. Before(v, i) \in SUBSET S /\ i \notin Before(v, i)
    BY DEF Before
  <2>2. Cardinality(Before(v, i)) <= n /\ Cardinality(Before(v, i)) # n
    BY <2>1, FS_Subset
  <2> QED
    BY <1>1, <1>2, <2>2
<1>4. ASSUME NEW i \in S, NEW j \in S, i \in Before(v, j) PROVE Rank(v, i) < Rank(v, j)
  <2>1. Before(v, i) \in SUBSET Before(v, j) /\ i \notin Before(v, i)
    BY <1>4 DEF Before
  <2>2. Cardinality(Before(v, i)) <= Cardinality(Before(v, j))
        /\ Cardinality(Before(v, i)) # Cardinality(Before(v, j))
    BY <1>2, <1>4, <2>1, FS_Subset
  <2> QED
    BY <1>2, <2>2
<1>5. ASSUME NEW i \in S, NEW j \in S, i # j PROVE Rank(v, i) # Rank(v, j)
  <2>1. i \in Before(v, j) \/ j \in Before(v, i)
    BY <1>5 DEF Before
  <2> QED
    BY <1>2, <1>4, <2>1
<1>6. rank \in Injection(S, 0 .. n - 1)
  <2>1. rank \in [S -> 0 .. n - 1]
    BY <1>3
  <2> QED
    BY <1>5, <2>1 DEF Injection, IsInjective
<1>7. IsFiniteSet(0 .. n - 1) /\ Cardinality(0 .. n - 1) = n
  BY <1>1, FS_Interval, 0 \in Int, n - 1 \in Int
<1>8. rank \in Surjection(S, 0 .. n - 1)
  BY <1>6, <1>7, FS_Injection
<1>9. PICK i \in S : Rank(v, i) = k
  BY <1>8 DEF Surjection
<1> QED
  BY <1>9 DEF Sorted

\* Median and 80th percentile lie between neighbours that exist.
LEMMA SummaryIsStage ==
  ASSUME NEW v, DOMAIN v \in SUBSET Int, IsFiniteSet(DOMAIN v), DOMAIN v # {},
         \A i \in DOMAIN v : v[i] \in Int
  PROVE  IsStage(Summarize(v))
<1> DEFINE n == Cardinality(DOMAIN v)
<1>1. n \in Nat \ {0}
  BY FS_CardinalityType, FS_EmptySet
<1>2. ASSUME NEW tenths \in {5, 8} PROVE Quantile(v, tenths) \in Int
  <2> DEFINE i == (n - 1) * tenths
  <2>1. i \in Nat /\ i \div 10 \in 0 .. n - 1 /\ (i + 9) \div 10 \in 0 .. n - 1 /\ i % 10 \in Int
    <3>1. tenths = 5 \/ tenths = 8
      OBVIOUS
    <3> HIDE DEF n
    <3> QED
      BY <1>1, <3>1
  <2>2. Sorted(v, i \div 10) \in Int /\ Sorted(v, (i + 9) \div 10) \in Int
    BY <2>1, EveryRankIsTaken
  <2>3. \A a, b, c \in Int : a + ((b - a) * c) \div 10 \in Int
    OBVIOUS
  <2>4. Quantile(v, tenths) = Sorted(v, i \div 10)
          + ((Sorted(v, (i + 9) \div 10) - Sorted(v, i \div 10)) * (i % 10)) \div 10
    BY DEF Quantile
  <2> HIDE DEF i
  <2> QED
    BY <2>1, <2>2, <2>3, <2>4
<1> QED
  BY <1>2 DEF Summarize, IsStage

\* A table of eta_stats.
IsTable(table) == \A r \in table : IsStage(r.stat)

\* Outliers are thrown away, and a band without samples gets no row.
LEMMA LearnedIsTable ==
  ASSUME NEW rows, NEW n \in Nat, DOMAIN rows = 1 .. n
  PROVE  IsTable(Learned(rows))
<1>1. ASSUME NEW band \in Bands, NEW part \in Parts, DOMAIN Samples(rows, band, part) # {}
      PROVE  IsStage(Summarize(Samples(rows, band, part)))
  <2> DEFINE v == Samples(rows, band, part)
  <2>1. DOMAIN v \in SUBSET (1 .. n) /\ \A i \in DOMAIN v : v[i] \in Honest[part]
    BY DEF Samples
  <2>2. Honest[part] \in SUBSET Int
    <3>1. Honest["accept"] \in SUBSET Int /\ Honest["prep_ratio"] \in SUBSET Int
          /\ Honest["handoff"] \in SUBSET Int /\ Honest["speed"] \in SUBSET Int
      BY DEF Honest
    <3>2. part = "accept" \/ part = "prep_ratio" \/ part = "handoff" \/ part = "speed"
      BY DEF Parts
    <3> QED
      BY <3>1, <3>2
  <2>3. IsFiniteSet(1 .. n)
    BY FS_Interval, 1 \in Int
  <2>4. IsFiniteSet(DOMAIN v)
    BY <2>1, <2>3, FS_Subset
  <2> HIDE DEF v
  <2>5. DOMAIN v \in SUBSET Int /\ \A i \in DOMAIN v : v[i] \in Int
    BY <2>1, <2>2
  <2>6. DOMAIN v # {}
    BY <1>1 DEF v
  <2>7. IsStage(Summarize(v))
    BY <2>4, <2>5, <2>6, SummaryIsStage
  <2> QED
    BY <2>7 DEF v
<1> QED
  BY <1>1 DEF IsTable, Learned

\* A band's statistics, where there are any.
LEMMA BandOfTable ==
  ASSUME NEW table, IsTable(table), NEW band
  PROVE  \A p \in Parts : IsStage(StatsFor(table, band)[p])
<1> SUFFICES ASSUME NEW p \in Parts PROVE IsStage(StatsFor(table, band)[p])
  OBVIOUS
<1> DEFINE own == {r \in table : r.band = band /\ r.part = p}
<1>1. StatsFor(table, band)[p] = IF own = {} THEN NoStat ELSE (CHOOSE r \in own : TRUE).stat
  BY DEF StatsFor
<1>2. IsStage(NoStat)
  BY DEF IsStage, NoStat
<1>3. CASE own # {}
  <2>1. (CHOOSE r \in own : TRUE) \in own
    BY <1>3
  <2> QED
    BY <1>1, <1>3, <2>1 DEF IsTable
<1> QED
  BY <1>1, <1>2, <1>3

----------------------------------------------------------------------------
(* The high end: far enough above for the root of the squares.             *)

\* What is at least as far above as the root of the squares is above each one.
LEMMA RootCovers ==
  ASSUME NEW d \in Int, d >= 0, NEW a \in Nat, NEW b \in Nat, NEW c \in Nat, NEW e \in Nat,
         d * d >= a * a + b * b + c * c + e * e
  PROVE  d >= a /\ d >= b /\ d >= c /\ d >= e
<1>1. \A x \in Nat : x * x >= 0
  OBVIOUS
<1>2. \A x \in Nat : d * d >= x * x => d >= x
  OBVIOUS
<1>3. d * d >= a * a /\ d * d >= b * b /\ d * d >= c * c /\ d * d >= e * e
  <2>1. \A p, q, r, s, t \in Int : p >= 0 /\ q >= 0 /\ r >= 0 /\ s >= 0 /\ t >= p + q + r + s
          => t >= p /\ t >= q /\ t >= r /\ t >= s
    OBVIOUS
  <2>2. \A x \in Int : x * x \in Int
    OBVIOUS
  <2> QED
    BY <1>1, <2>1, <2>2
<1> QED
  BY <1>2, <1>3

\* The sum is as far above as the root.
LEMMA SumCovers ==
  ASSUME NEW d \in Int, NEW a \in Nat, NEW b \in Nat, NEW c \in Nat, NEW e \in Nat,
         d >= a + b + c + e
  PROVE  d * d >= a * a + b * b + c * c + e * e
<1>1. \A x, y \in Nat : (x + y) * (x + y) >= x * x + y * y
  <2> SUFFICES ASSUME NEW x \in Nat, NEW y \in Nat PROVE (x + y) * (x + y) >= x * x + y * y
    OBVIOUS
  <2>1. (x + y) * (x + y) = x * x + y * y + 2 * (x * y)
    OBVIOUS
  <2>2. x * y >= 0
    OBVIOUS
  <2> QED
    BY <2>1, <2>2
<1>2. \A x, y \in Nat : x >= y => x * x >= y * y
  OBVIOUS
<1> DEFINE f == a + b
           g == f + c
           h == g + e
<1>3. f \in Nat /\ g \in Nat /\ h \in Nat /\ d \in Nat /\ d >= h
  OBVIOUS
<1>4. f * f >= a * a + b * b
  BY <1>1
<1>5. g * g >= f * f + c * c
  BY <1>1, <1>3
<1>6. h * h >= g * g + e * e
  <2> HIDE DEF g
  <2> QED
    BY <1>1, <1>3
<1>7. d * d >= h * h
  <2> HIDE DEF h
  <2> QED
    BY <1>2, <1>3
<1>8. \A x \in Int : x * x \in Int
  OBVIOUS
<1> HIDE DEF f, g, h
<1> QED
  BY <1>3, <1>4, <1>5, <1>6, <1>7, <1>8

----------------------------------------------------------------------------
(* The promise covers each stage's slow time.                              *)

\* How much longer a stage takes when it is slow.
LEMMA SpreadIs == ASSUME NEW s, IsStage(s) PROVE Spread(s) \in Nat
<1>1. s.p80 - s.median \in Int
  BY DEF IsStage
<1>2. PICK x \in Int : x = s.p80 - s.median
  BY <1>1
<1>3. Max({0, x}) \in Nat
  BY OfTwo
<1> QED
  BY <1>2, <1>3 DEF Spread

\* The least multiple that is far enough exists: the sum of the spreads is.
LEMMA HighEndCovers ==
  ASSUME NEW t \in Int, NEW stages, \A i \in 1 .. 4 : IsStage(stages[i])
  PROVE  /\ HighEnd(t, stages) \in Int /\ HighEnd(t, stages) % 5 = 0
         /\ \A i \in 1 .. 4 : 100 * HighEnd(t, stages) >= t + Spread(stages[i])
<1> DEFINE slow(i) == Spread(stages[i])
           squares == slow(1) * slow(1) + slow(2) * slow(2) + slow(3) * slow(3) + slow(4) * slow(4)
           covers(m) == 500 * m >= t /\ (500 * m - t) * (500 * m - t) >= squares
           least == (t + 499) \div 500
           most == (t + slow(1) + slow(2) + slow(3) + slow(4) + 499) \div 500
           good(m) == covers(m) /\ \A n \in least .. (m - 1) : ~ covers(n)
           S == {k \in Nat : least + k <= most /\ covers(least + k)}
<1>1. slow(1) \in Nat /\ slow(2) \in Nat /\ slow(3) \in Nat /\ slow(4) \in Nat
  BY SpreadIs
<1>2. PICK a \in Nat, b \in Nat, c \in Nat, e \in Nat :
        a = slow(1) /\ b = slow(2) /\ c = slow(3) /\ e = slow(4)
  BY <1>1
<1>3. squares = a * a + b * b + c * c + e * e /\ most = (t + a + b + c + e + 499) \div 500
  BY <1>2
<1>4. least \in Int /\ most \in Int /\ least <= most /\ 500 * least >= t
      /\ 500 * most - t >= a + b + c + e
  <2> HIDE DEF slow
  <2> QED
    BY <1>3
<1>5. covers(most)
  <2>1. PICK d \in Int : d = 500 * most - t
    BY <1>4
  <2>2. d * d >= a * a + b * b + c * c + e * e /\ d >= 0
    BY <1>4, <2>1, SumCovers
  <2> HIDE DEF most, least, squares
  <2> QED
    BY <1>3, <1>4, <2>1, <2>2
<1> HIDE DEF slow, squares, least, most, covers
<1>6. S \in SUBSET Nat /\ S # {}
  <2>1. most - least \in Nat /\ least + (most - least) = most
    BY <1>4
  <2>2. most - least \in S
    BY <1>4, <1>5, <2>1
  <2> QED
    BY <2>2
<1>7. PICK k \in S : \A j \in S : k <= j
  BY <1>6, Least
<1>8. good(least + k) /\ least + k \in least .. most
  <2>1. k \in Nat /\ least + k <= most /\ covers(least + k)
    BY <1>7
  <2>2. ASSUME NEW n \in least .. (least + k - 1), covers(n) PROVE FALSE
    <3>1. n - least \in Nat /\ least + (n - least) = n /\ n <= most /\ n - least < k
      BY <1>4, <2>1
    <3>2. n - least \in S
      BY <2>2, <3>1
    <3> QED
      BY <1>7, <2>1, <3>1, <3>2
  <2> QED
    BY <1>4, <2>1, <2>2
<1> DEFINE m == CHOOSE x \in least .. most : good(x)
<1>9. m \in least .. most /\ good(m)
  <2> HIDE DEF good
  <2> QED
    BY <1>8
<1>10. m \in Int /\ covers(m)
  BY <1>4, <1>9
<1>11. HighEnd(t, stages) = 5 * m
  BY DEF HighEnd, slow, squares, least, most, covers
<1> HIDE DEF m
<1>12. PICK d \in Int : d = 500 * m - t /\ d >= 0 /\ d * d >= a * a + b * b + c * c + e * e
  <2>1. 500 * m >= t /\ (500 * m - t) * (500 * m - t) >= squares
    BY <1>10 DEF covers
  <2>2. PICK d \in Int : d = 500 * m - t
    <3>1. 500 * m - t \in Int
      BY <1>10
    <3> QED
      BY <3>1
  <2>3. d >= 0 /\ d * d >= squares
    BY <1>10, <2>1, <2>2
  <2> QED
    BY <1>3, <2>2, <2>3
<1>13. d >= a /\ d >= b /\ d >= c /\ d >= e
  BY <1>12, RootCovers
<1>14. \A i \in 1 .. 4 : 500 * m >= t + Spread(stages[i])
  <2>1. /\ a = Spread(stages[1]) /\ b = Spread(stages[2]) /\ c = Spread(stages[3])
        /\ e = Spread(stages[4])
    BY <1>2 DEF slow
  <2>2. \A x \in Nat : d >= x => 500 * m >= t + x
    BY <1>10, <1>12
  <2>3. \A i \in 1 .. 4 : i = 1 \/ i = 2 \/ i = 3 \/ i = 4
    OBVIOUS
  <2> QED
    BY <1>13, <2>1, <2>2, <2>3
<1>15. 5 * m \in Int /\ (5 * m) % 5 = 0
  BY <1>10
<1> QED
  BY <1>10, <1>11, <1>14, <1>15

\* A quote for an order, in the words of PromiseCovers.
LEMMA QuoteCovers ==
  ASSUME NEW prep \in Int, NEW cooking \in Int, NEW km \in Nat \cup {NoKm}, NEW pickup \in BOOLEAN,
         NEW st, \A p \in Parts : IsStage(st[p])
  PROVE  LET q == Quote(prep, cooking, km, pickup, st)
             stages == StagesOf(prep, km, pickup, st)
             usual == Usual(stages) + 100 * QueueMinutes(cooking)
         IN  /\ q.min % 5 = 0 /\ (cfg.rangeWidth % 5 = 0 => q.max % 5 = 0)
             /\ q.max - q.min >= cfg.rangeWidth
             /\ \A i \in DOMAIN stages : 100 * q.max >= usual + Spread(stages[i])
<1> DEFINE stages == StagesOf(prep, km, pickup, st)
           low == Usual(stages) + 100 * QueueMinutes(cooking)
           from == RoundDown5(low)
           high == HighEnd(low, stages)
           q == Quote(prep, cooking, km, pickup, st)
<1>1. DOMAIN stages = 1 .. 4 /\ \A i \in 1 .. 4 : IsStage(stages[i])
  BY StagesAre
<1>2. QueueMinutes(cooking) \in Int
  <2>1. PICK x \in Int : x = cooking - cfg.kitchenParallel + 1
    BY Charged
  <2>2. Max({0, x}) \in Nat
    BY OfTwo
  <2>3. \A y, z \in Int : y * z \in Int
    OBVIOUS
  <2> QED
    BY <2>1, <2>2, <2>3, Charged DEF QueueMinutes
<1>3. low \in Int
  <2>1. Usual(stages) \in Int
    <3> HIDE DEF stages
    <3> QED
      BY <1>1 DEF Usual, IsStage
  <2> QED
    BY <1>2, <2>1
<1>4. from \in Int /\ from % 5 = 0
  <2> HIDE DEF low
  <2>1. PICK x \in Int : x = low \div 500
    BY <1>3
  <2>2. PICK y \in Int : y = 5 * x
    OBVIOUS
  <2>3. y % 5 = 0 /\ 5 % 5 = 0
    <3>1. \A z \in Int : (5 * z) % 5 = 0
      OBVIOUS
    <3> QED
      BY <2>2, <3>1
  <2>4. Max({5, y}) = 5 \/ Max({5, y}) = y
    BY OfTwo
  <2>5. RoundDown5(low) = Max({5, y})
    BY <2>1, <2>2 DEF RoundDown5
  <2> QED
    BY <2>2, <2>3, <2>4, <2>5
<1>5. high \in Int /\ high % 5 = 0 /\ \A i \in 1 .. 4 : 100 * high >= low + Spread(stages[i])
  <2> HIDE DEF stages, low
  <2> QED
    BY <1>1, <1>3, HighEndCovers
<1>6. q.min = from /\ q.max = Max({high, from + cfg.rangeWidth})
  BY DEF Quote
<1> HIDE DEF stages, low, from, high, q
<1>7. /\ q.max \in Int /\ q.max >= high /\ q.max >= from + cfg.rangeWidth
      /\ cfg.rangeWidth % 5 = 0 => q.max % 5 = 0
  <2>1. PICK w \in Nat : w = cfg.rangeWidth
    BY Charged
  <2>2. PICK x \in Int : x = from + w
    BY <1>4
  <2>3. w % 5 = 0 => x % 5 = 0
    BY <1>4, <2>2
  <2>4. /\ Max({high, x}) \in Int /\ Max({high, x}) >= high /\ Max({high, x}) >= x
        /\ Max({high, x}) = high \/ Max({high, x}) = x
    BY <1>5, OfTwo
  <2> QED
    BY <1>5, <1>6, <2>1, <2>2, <2>3, <2>4
<1>8. q.max - q.min >= cfg.rangeWidth
  BY <1>4, <1>6, <1>7, Charged
<1>9. ASSUME NEW i \in 1 .. 4 PROVE 100 * q.max >= low + Spread(stages[i])
  <2>1. Spread(stages[i]) \in Nat
    BY <1>1, SpreadIs
  <2> QED
    BY <1>3, <1>5, <1>7, <2>1
<1>10. /\ q.min % 5 = 0 /\ (cfg.rangeWidth % 5 = 0 => q.max % 5 = 0)
       /\ q.max - q.min >= cfg.rangeWidth
       /\ \A i \in DOMAIN stages : 100 * q.max >= low + Spread(stages[i])
  BY <1>1, <1>4, <1>6, <1>7, <1>8, <1>9
<1> QED
  BY <1>10 DEF stages, low, q

\* What a checkout quotes from: a cart, and a table of statistics, the one in the
\* database or one read before.
QuoteInv ==
  /\ IsTable(stats) /\ \A table \in cached : IsTable(table)
  /\ \A o \in Orders : checkout[o] = "stamp" => row[o].cart \in Carts

\* Watch's operators are those of Promises.
LEMMA SameLearned == ASSUME NEW rows PROVE W!Learned(rows) = Learned(rows)
<1>1. \A S : W!Cardinality(S) = Cardinality(S)
  BY DEF W!Cardinality, Cardinality
<1>2. \A d, part : W!Measure(d, part) = Measure(d, part)
  BY DEF W!Measure, Measure, W!Between, Between, W!NoTime, NoTime
<1>3. \A h : W!HourBand(h) = HourBand(h)
  BY DEF W!HourBand, HourBand
<1>4. W!Honest = Honest /\ W!Bands = Bands /\ W!Parts = Parts
  BY DEF W!Honest, Honest, W!Bands, Bands, W!Parts, Parts
<1>5. \A band, part : W!Samples(rows, band, part) = Samples(rows, band, part)
  BY <1>2, <1>3, <1>4 DEF W!Samples, Samples
<1>6. \A v, i : W!Rank(v, i) = Rank(v, i)
  BY <1>1 DEF W!Rank, Rank
<1>7. \A v, k : W!Sorted(v, k) = Sorted(v, k)
  BY <1>6 DEF W!Sorted, Sorted
<1>8. \A v, tenths : W!Quantile(v, tenths) = Quantile(v, tenths)
  BY <1>1, <1>7 DEF W!Quantile, Quantile
<1>9. \A v : W!Summarize(v) = Summarize(v)
  BY <1>1, <1>8 DEF W!Summarize, Summarize
<1> QED
  BY <1>4, <1>5, <1>9 DEF W!Learned, Learned

\* A checkout that quotes from these saves a promise that covers.
LEMMA QuotesHaveCarts == QuoteInv => PromiseCovers
<1> SUFFICES ASSUME QuoteInv, NEW o \in Orders, checkout[o] = "stamp", NEW table \in cached
             PROVE  LET c == row[o].cart
                        q == Promise(o, table)
                        stages == StagesOf(PrepMinutes(c.items), IF c.pickup THEN 0 ELSE c.km,
                                           c.pickup, StatsNow(table))
                        usual == Usual(stages) + 100 * QueueMinutes(CookingWith(o))
                    IN  /\ q.min % 5 = 0 /\ (cfg.rangeWidth % 5 = 0 => q.max % 5 = 0)
                        /\ q.max - q.min >= cfg.rangeWidth
                        /\ \A i \in DOMAIN stages : 100 * q.max >= usual + Spread(stages[i])
  BY DEF PromiseCovers
<1> DEFINE c == row[o].cart
           km == IF c.pickup THEN 0 ELSE c.km
<1>1. c.items \in Seq([prep : Nat, quantity : Nat]) /\ c.km \in Nat \cup {NoKm} /\ c.pickup \in BOOLEAN
  <2>1. c \in Carts
    BY DEF QuoteInv
  <2> HIDE DEF c
  <2> QED
    BY <2>1, OrdersAssumption
<1>2. PrepMinutes(c.items) \in Int /\ km \in Nat \cup {NoKm}
  BY <1>1, PrepIsWhole
<1>3. CookingWith(o) \in Int
  <2>1. IsFiniteSet(Placed \ {o})
    BY OrdersAssumption, FS_Subset, Placed \ {o} \in SUBSET Orders DEF Placed
  <2>2. IsFiniteSet({p \in Placed \ {o} : row[p].status \in Cooking})
    BY <2>1, FS_Subset
  <2>3. Cardinality({p \in Placed \ {o} : row[p].status \in Cooking}) \in Nat
    BY <2>2, FS_CardinalityType
  <2> QED
    BY <2>3, OrdersAssumption DEF CookingWith
<1>4. \A p \in Parts : IsStage(StatsNow(table)[p])
  BY BandOfTable DEF QuoteInv, StatsNow
<1>5. Promise(o, table) = Quote(PrepMinutes(c.items), CookingWith(o), km, c.pickup, StatsNow(table))
  BY DEF Promise
<1> HIDE DEF c, km
<1>6. LET q == Quote(PrepMinutes(c.items), CookingWith(o), km, c.pickup, StatsNow(table))
          stages == StagesOf(PrepMinutes(c.items), km, c.pickup, StatsNow(table))
          usual == Usual(stages) + 100 * QueueMinutes(CookingWith(o))
      IN  /\ q.min % 5 = 0 /\ (cfg.rangeWidth % 5 = 0 => q.max % 5 = 0)
          /\ q.max - q.min >= cfg.rangeWidth
          /\ \A i \in DOMAIN stages : 100 * q.max >= usual + Spread(stages[i])
  <2> DEFINE prep == PrepMinutes(c.items)
             cooking == CookingWith(o)
             pickup == c.pickup
             st == StatsNow(table)
  <2>1. prep \in Int /\ cooking \in Int /\ pickup \in BOOLEAN /\ \A p \in Parts : IsStage(st[p])
    BY <1>1, <1>2, <1>3, <1>4
  <2> HIDE DEF prep, cooking, pickup, st
  <2>2. LET q == Quote(prep, cooking, km, pickup, st)
            stages == StagesOf(prep, km, pickup, st)
            usual == Usual(stages) + 100 * QueueMinutes(cooking)
        IN  /\ q.min % 5 = 0 /\ (cfg.rangeWidth % 5 = 0 => q.max % 5 = 0)
            /\ q.max - q.min >= cfg.rangeWidth
            /\ \A i \in DOMAIN stages : 100 * q.max >= usual + Spread(stages[i])
    BY <1>2, <2>1, QuoteCovers
  <2> QED
    BY <2>2 DEF prep, cooking, pickup, st
<1> QED
  BY <1>5, <1>6 DEF c, km

----------------------------------------------------------------------------
(* What a checkout quotes from is never anything else (Watch).             *)

\* A row that is changed keeps its cart.
LEMMA CartKept ==
  ASSUME NEW r, IsRow(r), NEW x
  PROVE  /\ [r EXCEPT !.eta = x].cart = r.cart /\ [r EXCEPT !.promised = x].cart = r.cart
         /\ [r EXCEPT !.spot = x].cart = r.cart /\ [r EXCEPT !.carried = x].cart = r.cart
         /\ [r EXCEPT !.apologised = x].cart = r.cart
         /\ W!Stamped(r, x).cart = r.cart
  BY DEF IsRow, W!Stamped

\* A step leaves the checkouts about to quote with a cart of Carts.
LEMMA CartStep ==
  ASSUME ApologyInv, QuoteInv, [W!Next]_W!vars
  PROVE  \A x \in Orders : checkout'[x] = "stamp" => row'[x].cart \in Carts
<1>0. TableInv /\ LoopInv
  BY DEF ApologyInv
<1> DEFINE Keeps == \A x \in Orders : checkout'[x] = "stamp" => checkout[x] = "stamp" /\ row'[x].cart = row[x].cart
<1>1. ASSUME Keeps PROVE \A x \in Orders : checkout'[x] = "stamp" => row'[x].cart \in Carts
  BY <1>1 DEF QuoteInv
<1>2. ASSUME NEW o \in Orders, W!Place(o)
      PROVE  \A x \in Orders : checkout'[x] = "stamp" => row'[x].cart \in Carts
  <2>1. PICK c \in Carts : row' = [row EXCEPT ![o] = W!Row(c, "order_received", now)]
    BY <1>2 DEF W!Place
  <2>2. row'[o].cart = c
    BY <1>0, <2>1 DEF TableInv, W!Row
  <2>3. \A x \in Orders \ {o} : row'[x] = row[x] /\ checkout'[x] = checkout[x]
    BY <1>0, <1>2, <2>1 DEF TableInv, W!Place
  <2> QED
    BY <2>2, <2>3 DEF QuoteInv
<1>3. ASSUME UNCHANGED <<row, checkout>> PROVE Keeps
  BY <1>3
<1>4. ASSUME NEW o \in Orders, NEW r, row' = [row EXCEPT ![o] = r], r.cart = row[o].cart,
             \A x \in Orders : checkout'[x] = "stamp" => checkout[x] = "stamp"
      PROVE  Keeps
  BY <1>0, <1>4 DEF TableInv
<1>5. ASSUME NEW o \in Orders, W!Stamp(o) PROVE Keeps
  <2>1. IsRow(row[o])
    BY <1>0, <1>5 DEF TableInv, W!Stamp
  <2>a. PICK table : row' = [row EXCEPT ![o].eta = W!Promise(o, table).max,
                                        ![o].promised = row[o].placed + W!Promise(o, table).max]
    BY <1>5 DEF W!Stamp
  <2> DEFINE r == [[row[o] EXCEPT !.eta = W!Promise(o, table).max]
                      EXCEPT !.promised = row[o].placed + W!Promise(o, table).max]
  <2>2. row' = [row EXCEPT ![o] = r]
    BY <1>0, <2>a DEF TableInv
  <2>3. r.cart = row[o].cart
    BY <2>1 DEF IsRow
  <2>4. \A x \in Orders : checkout'[x] = "stamp" => checkout[x] = "stamp"
    BY <1>0, <1>5 DEF W!Stamp, TableInv
  <2> HIDE DEF r
  <2> QED
    BY <1>4, <2>2, <2>3, <2>4
<1>6. ASSUME NEW o \in Orders, W!Announce(o) \/ W!CheckoutBreaks(o) PROVE Keeps
  BY <1>0, <1>6 DEF W!Announce, W!CheckoutBreaks, TableInv
<1>7. ASSUME NEW o \in Orders, W!Carry(o) \/ W!Ping(o) \/ \E to \in W!Statuses : W!Move(o, to) PROVE Keeps
  <2>1. IsRow(row[o]) /\ UNCHANGED checkout
    BY <1>0, <1>7 DEF TableInv, W!Carry, W!Ping, W!Move
  <2>2. CASE W!Carry(o)
    <3> DEFINE r == [[row[o] EXCEPT !.carried = TRUE] EXCEPT !.status =
                        IF @ = "food_ready" THEN "assigned_to_delivery" ELSE @]
    <3>1. row' = [row EXCEPT ![o] = r]
      BY <1>0, <2>2 DEF W!Carry, TableInv
    <3>2. r.cart = row[o].cart
      BY <2>1 DEF IsRow
    <3> HIDE DEF r
    <3> QED
      BY <1>4, <2>1, <3>1, <3>2
  <2>3. CASE W!Ping(o)
    <3>1. PICK km : row' = [row EXCEPT ![o].spot = km]
      BY <2>3 DEF W!Ping
    <3> QED
      BY <1>4, <2>1, <3>1, CartKept
  <2>4. CASE \E to \in W!Statuses : W!Move(o, to)
    <3>1. PICK to : row' = [row EXCEPT ![o] = W!Stamped(row[o], to)]
      BY <1>0, <2>4 DEF W!Move, TableInv
    <3> QED
      BY <1>4, <2>1, <3>1, CartKept
  <2> QED
    BY <1>7, <2>2, <2>3, <2>4
<1>8. ASSUME NEW p \in Pods, W!Claim(p) PROVE Keeps
  <2>1. Head(todo[p]) \in W!Placed /\ UNCHANGED checkout
    BY <1>0, <1>8, Tails DEF W!Claim, LoopInv
  <2>2. CASE UNCHANGED row
    BY <1>3, <2>1, <2>2
  <2>3. CASE row' = [row EXCEPT ![Head(todo[p])].apologised = TRUE]
    <3>1. Head(todo[p]) \in Orders /\ IsRow(row[Head(todo[p])])
      BY <1>0, <2>1 DEF TableInv, W!Placed
    <3> QED
      BY <1>4, <2>1, <2>3, <3>1, CartKept
  <2> QED
    BY <1>8, <2>2, <2>3 DEF W!Claim
<1>9. ASSUME NEW p \in Pods, W!Pod(p) \/ W!Fail(p) \/ W!Restart(p) \/ W!Disconnect(p), ~ W!Claim(p)
      PROVE  Keeps
  BY <1>3, <1>9 DEF W!Pod, W!TryLock, W!Learn, W!List, W!Look, W!Tell, W!WatchAccept, W!WatchReady,
     W!Unlock, W!Fail, W!Restart, W!Disconnect, W!kitchen
<1>10. CASE W!Tick \/ UNCHANGED W!vars
  BY <1>1, <1>3, <1>10 DEF W!Tick, W!vars, W!kitchen
<1> HIDE DEF Keeps
<1> QED
  BY <1>1, <1>2, <1>5, <1>6, <1>7, <1>8, <1>9, <1>10 DEF W!Next

\* Statistics are replaced by what recompute finds, and by nothing else; an instance
\* goes by what they are or were.
LEMMA TableStep ==
  ASSUME QuoteInv, [W!Next]_W!vars
  PROVE  IsTable(stats') /\ \A table \in cached' : IsTable(table)
<1> USE DEF QuoteInv
<1>1. ASSUME NEW p \in Pods, W!Learn(p)
      PROVE  IsTable(stats') /\ \A table \in cached' : IsTable(table)
  <2>1. PICK rows \in Histories : stats' = W!Learned(rows)
    BY <1>1 DEF W!Learn, W!Tables
  <2>2. Len(rows) \in Nat /\ DOMAIN rows = 1 .. Len(rows)
    BY OrdersAssumption
  <2>3. IsTable(stats')
    BY <2>1, <2>2, SameLearned, LearnedIsTable
  <2>4. cached' = cached \cup {stats'}
    BY <1>1 DEF W!Learn
  <2> QED
    BY <2>3, <2>4
<1>2. ASSUME UNCHANGED stats, cached' \in {cached, {stats}}
      PROVE  IsTable(stats') /\ \A table \in cached' : IsTable(table)
  BY <1>2 DEF IsTable
<1>3. ASSUME NEW o \in Orders,
             \/ W!Place(o) \/ W!Stamp(o) \/ W!Announce(o) \/ W!CheckoutBreaks(o) \/ W!Carry(o) \/ W!Ping(o)
             \/ \E to \in W!Statuses : W!Move(o, to)
      PROVE  UNCHANGED <<stats, cached>>
  BY <1>3 DEF W!Place, W!Stamp, W!Announce, W!CheckoutBreaks, W!Carry, W!Ping, W!Move, W!loop,
     W!tables
<1>4. ASSUME NEW p \in Pods, W!Pod(p) \/ W!Fail(p) \/ W!Restart(p) \/ W!Disconnect(p), ~ W!Learn(p)
      PROVE  UNCHANGED <<stats, cached>>
  BY <1>4 DEF W!Pod, W!TryLock, W!List, W!Look, W!Claim, W!Tell, W!WatchAccept, W!WatchReady,
     W!Unlock, W!Fail, W!Restart, W!Disconnect, W!tables
<1>5. CASE W!Tick
  BY <1>2, <1>5 DEF W!Tick
<1>6. CASE UNCHANGED W!vars
  BY <1>2, <1>6 DEF W!vars, W!loop, W!tables
<1> QED
  BY <1>1, <1>2, <1>3, <1>4, <1>5, <1>6 DEF W!Next

\* The promise saved at checkout is the high end of a range as wide as the shop
\* wants, comes in steps of five minutes where that width does, and covers every
\* stage's slow time: for any carts, settings, deliveries learned from, age of
\* what is cached of them, and state of the kitchen.
THEOREM SlowStagesAreCovered == W!Spec => []PromiseCovers
<1>1. W!Init => QuoteInv
  BY DEF W!Init, QuoteInv, IsTable
<1>2. ApologyInv /\ QuoteInv /\ [W!Next]_W!vars => QuoteInv'
  BY CartStep, TableStep DEF QuoteInv, IsTable
<1> QED
  BY <1>1, <1>2, ApologyInvariant, QuotesHaveCarts, PTL DEF W!Spec
=============================================================================

---------------------------- MODULE PosBilling ----------------------------
(***************************************************************************)
(* Bills of the walk-in counters.  Several tills bill at once; each takes  *)
(* the next token of its outlet's business day and the next number of the  *)
(* outlet's series for the financial year, from counter rows whose locks   *)
(* it keeps until its transaction ends.  An admin may edit an outlet, and  *)
(* with it the code that starts its bill numbers, at any time.             *)
(*                                                                         *)
(* A counter bumped in a transaction is not seen until the commit, so a    *)
(* till carries the values it drew and the variables hold what is          *)
(* committed.  INSERT of the bill and of its lines and COMMIT are one step.*)
(***************************************************************************)
EXTENDS Naturals, FiniteSets

CONSTANTS
  Outlets, NoOutlet, Codes, NoCode,
  Refs, NoRef,  \* client_ref of a click; an old till sends none
  Tills,
  LastDay,      \* business days are 1 .. LastDay (bound)
  FyOf,         \* financialYearShort: business day -> financial year
  TokenCap,     \* tokens run 1 .. TokenCap, 999 in the code
  SeriesCap,    \* the largest number bill_no has room for, 999999 in the code
  MaxBills,     \* no click is begun once there are so many bills (bound)
  MaxEdits      \* outlet edits in flight (bound)

Days == 1 .. LastDay

ASSUME NoOutletAssumption == NoOutlet \notin Outlets
ASSUME NoCodeAssumption == NoCode \notin Codes
ASSUME NoRefAssumption == NoRef \notin Refs
ASSUME DaysAssumption == LastDay \in Nat \ {0} /\ DOMAIN FyOf = Days
ASSUME CapAssumption == TokenCap \in Nat \ {0} /\ SeriesCap \in Nat

Years == {FyOf[d] : d \in Days}

\* A bill-number series, and the scope of a token counter.
AllSeries == Outlets \X Years
AllDays == Outlets \X Days

VARIABLES
  code,    \* outlets.code; an outlet not created yet has none
  edits,   \* saves of an outlet that have passed the code check
  tokens,  \* pos_counters 'token:<day>'
  last,    \* pos_counters 'bill:<fy>'
  bills,   \* pos_bills
  till     \* the createBill request of each till, and its local variables

vars == <<code, edits, tokens, last, bills, till>>

Bill == [outlet : Outlets, code : Codes, fy : Years, n : Nat, day : Days,
         token : 1 .. TokenCap, ref : Refs \cup {NoRef}, status : {"paid", "cancelled"}]

Idle == [pc |-> "idle", outlet |-> NoOutlet, ref |-> NoRef,
         code |-> NoCode, day |-> 1, draw |-> 0, n |-> 0]

Request == [pc : {"idle", "reading", "drawing_token", "drawing_number", "inserting", "collided"},
            outlet : Outlets \cup {NoOutlet}, ref : Refs \cup {NoRef}, code : Codes \cup {NoCode},
            day : Days, draw : Nat, n : Nat]

BillsOf(o) == {b \in bills : b.outlet = o}

\* billIdByRef
Prior(o, ref) == {b \in BillsOf(o) : ref # NoRef /\ b.ref = ref}

----------------------------------------------------------------------------
(* saveOutlet.                                                             *)

CodeFree(o, c) == \A p \in Outlets : p # o => code[p] # c

CreateOutlet(o, c) ==
  /\ code[o] = NoCode
  /\ CodeFree(o, c)
  /\ code' = [code EXCEPT ![o] = c]
  /\ UNCHANGED <<edits, tokens, last, bills, till>>

\* An outlet with bills keeps its code.  Edits of other columns are left out.
VetEdit(o, c) ==
  /\ Cardinality(edits) < MaxEdits
  /\ code[o] # NoCode
  /\ BillsOf(o) # {} => code[o] = c
  /\ edits' = edits \cup {[outlet |-> o, code |-> c]}
  /\ UNCHANGED <<code, tokens, last, bills, till>>

\* The UPDATE fails as a whole on a taken code.
UpdateOutlet(e) ==
  /\ edits' = edits \ {e}
  /\ code' = IF CodeFree(e.outlet, e.code) THEN [code EXCEPT ![e.outlet] = e.code] ELSE code
  /\ UNCHANGED <<tokens, last, bills, till>>

----------------------------------------------------------------------------
(* createBill.                                                             *)

\* A repeat of a click that has made its bill gets that bill.
Click(t, o, ref) ==
  /\ till[t].pc = "idle"
  /\ Cardinality(bills) < MaxBills
  /\ Prior(o, ref) = {}
  /\ till' = [till EXCEPT ![t] = [Idle EXCEPT !.pc = "reading", !.outlet = o, !.ref = ref]]
  /\ UNCHANGED <<code, edits, tokens, last, bills>>

\* BEGIN, the outlet's row, and the business day.  The clock is not modelled
\* and day_starts_at moves the day either way, so the day is any.
ReadOutlet(t) ==
  /\ till[t].pc = "reading"
  /\ LET o == till[t].outlet IN
       \E d \in Days :
         till' = [till EXCEPT ![t] =
                    IF code[o] = NoCode THEN Idle
                    ELSE [@ EXCEPT !.pc = "drawing_token", !.code = code[o], !.day = d]]
  /\ UNCHANGED <<code, edits, tokens, last, bills>>

Fy(t) == FyOf[till[t].day]

SeriesOf(t) == <<till[t].outlet, Fy(t)>>
DayOf(t) == <<till[t].outlet, till[t].day>>

\* Two counter reads without the row's lock.
BugTokenUnlocked(t) == TRUE
BugNumberUnlocked(t) == TRUE

\* No other transaction holds the counter's row.
TokenUnlocked(t) ==
  \A u \in Tills \ {t} :
    till[u].pc \in {"drawing_number", "inserting"} => DayOf(u) # DayOf(t)

NumberUnlocked(t) ==
  \A u \in Tills \ {t} : till[u].pc = "inserting" => SeriesOf(u) # SeriesOf(t)

DrawToken(t) ==
  /\ till[t].pc = "drawing_token"
  /\ TokenUnlocked(t)
  /\ till' = [till EXCEPT ![t].pc = "drawing_number",
                          ![t].draw = tokens[DayOf(t)] + 1]
  /\ UNCHANGED <<code, edits, tokens, last, bills>>

DrawNumber(t) ==
  /\ till[t].pc = "drawing_number"
  /\ NumberUnlocked(t)
  /\ till' = [till EXCEPT ![t].pc = "inserting", ![t].n = last[SeriesOf(t)] + 1]
  /\ UNCHANGED <<code, edits, tokens, last, bills>>

\* A wrap to zero.
BugTokenFromCounter(k) == k % TokenCap

\* 1 ... 999, then back to 1.
TokenFromCounter(k) == ((k - 1) % TokenCap) + 1

NewBill(t) ==
  [outlet |-> till[t].outlet, code |-> till[t].code, fy |-> Fy(t), n |-> till[t].n,
   day |-> till[t].day, token |-> TokenFromCounter(till[t].draw), ref |-> till[t].ref,
   status |-> "paid"]

\* The indexes on bill_no and on (outlet_id, client_ref).
NumberTaken(t) ==
  \E b \in bills : <<b.code, b.fy, b.n>> = <<till[t].code, Fy(t), till[t].n>>

\* A schema without the second.
BugNoRefIndex(t) == FALSE

RefTaken(t) == Prior(till[t].outlet, till[t].ref) # {}

InsertBill(t) ==
  /\ till[t].pc = "inserting"
  /\ till[t].n <= SeriesCap /\ ~ NumberTaken(t) /\ ~ RefTaken(t)
  /\ bills' = bills \cup {NewBill(t)}
  /\ tokens' = [tokens EXCEPT ![DayOf(t)] = till[t].draw]
  /\ last' = [last EXCEPT ![SeriesOf(t)] = till[t].n]
  /\ till' = [till EXCEPT ![t] = Idle]
  /\ UNCHANGED <<code, edits>>

\* A number drawn outside the transaction, which keeps it when it rolls back.
BugDrawnOutside(t) ==
  IF till[t].pc = "inserting" THEN [last EXCEPT ![SeriesOf(t)] = till[t].n] ELSE last

\* ROLLBACK gives the numbers back.
LastAfterRollback(t) == last

\* 23505: the transaction is rolled back, its locks with it.
Collide(t) ==
  /\ till[t].pc = "inserting"
  /\ till[t].n <= SeriesCap /\ (NumberTaken(t) \/ RefTaken(t))
  /\ last' = LastAfterRollback(t)
  /\ till' = [till EXCEPT ![t].pc = "collided"]
  /\ UNCHANGED <<code, edits, tokens, bills>>

\* The till is handed the bill of its own click, or the error.
AnswerCollision(t) ==
  /\ till[t].pc = "collided"
  /\ till' = [till EXCEPT ![t] = Idle]
  /\ UNCHANGED <<code, edits, tokens, last, bills>>

\* An outlet switched off, a dish off the menu, a number too long for
\* bill_no, a lost connection.
Refuse(t) ==
  /\ till[t].pc \notin {"idle", "collided"}
  /\ last' = LastAfterRollback(t)
  /\ till' = [till EXCEPT ![t] = Idle]
  /\ UNCHANGED <<code, edits, tokens, bills>>

----------------------------------------------------------------------------
\* A cancellation that names the bill by its token.
BugByToken(b) ==
  {IF c.outlet = b.outlet /\ c.token = b.token THEN [c EXCEPT !.status = "cancelled"] ELSE c : c \in bills}

Cancelled(b) == (bills \ {b}) \cup {[b EXCEPT !.status = "cancelled"]}

CancelBill(b) ==
  /\ b.status = "paid"
  /\ bills' = Cancelled(b)
  /\ UNCHANGED <<code, edits, tokens, last, till>>

Init ==
  /\ code = [o \in Outlets |-> NoCode]
  /\ edits = {}
  /\ tokens = [x \in AllDays |-> 0]
  /\ last = [x \in AllSeries |-> 0]
  /\ bills = {}
  /\ till = [t \in Tills |-> Idle]

Next ==
  \/ \E o \in Outlets, c \in Codes : CreateOutlet(o, c) \/ VetEdit(o, c)
  \/ \E e \in edits : UpdateOutlet(e)
  \/ \E t \in Tills :
       \/ \E o \in Outlets, ref \in Refs \cup {NoRef} : Click(t, o, ref)
       \/ ReadOutlet(t) \/ DrawToken(t) \/ DrawNumber(t)
       \/ InsertBill(t) \/ Collide(t) \/ AnswerCollision(t) \/ Refuse(t)
  \/ \E b \in bills : CancelBill(b)

Spec == Init /\ [][Next]_vars

----------------------------------------------------------------------------
\* The tables and the requests have their types; a token is 1 .. TokenCap.
TypeOK ==
  /\ code \in [Outlets -> Codes \cup {NoCode}]
  /\ edits \subseteq [outlet : Outlets, code : Codes]
  /\ tokens \in [AllDays -> Nat]
  /\ last \in [AllSeries -> Nat]
  /\ bills \subseteq Bill
  /\ till \in [Tills -> Request]

\* One unbroken series per outlet and financial year: the bills carry the
\* numbers 1 to the last one, each once, whatever failed or collided between.
SeriesUnbroken ==
  /\ \A b \in bills : b.n \in 1 .. last[<<b.outlet, b.fy>>]
  /\ \A s \in AllSeries : \A k \in 1 .. last[s] :
       \E b \in bills : <<b.outlet, b.fy, b.n>> = <<s[1], s[2], k>>
  /\ \A b, c \in bills : <<b.outlet, b.fy, b.n>> = <<c.outlet, c.fy, c.n>> => b = c

\* "Two tills can never get the same bill number": the number a till is about
\* to insert is one no bill of the outlet's year and no other till has.
NumberIsFree ==
  \A t \in Tills : till[t].pc = "inserting" =>
    /\ \A b \in bills : <<b.outlet, b.fy>> = SeriesOf(t) => b.n # till[t].n
    /\ \A u \in Tills \ {t} : till[u].pc = "inserting" /\ SeriesOf(u) = SeriesOf(t)
         => till[u].n # till[t].n

\* Two customers of one day hold the same token only with TokenCap bills from
\* one to the next, counted in the order of the bill numbers.
TokensFarApart ==
  \A b, c \in bills :
    b.outlet = c.outlet /\ b.day = c.day /\ b.n < c.n /\ b.token = c.token =>
      Cardinality({d \in BillsOf(b.outlet) : d.day = b.day /\ b.n < d.n /\ d.n <= c.n}) >= TokenCap

\* "A double-click can't make two bills", not even two tills' at once or
\* across the turn of the day.
OneBillPerClick ==
  \A b, c \in bills : b.outlet = c.outlet /\ b.ref = c.ref /\ b # c => b.ref = NoRef

\* The bill of series s with number k.
Numbered(s, k) == CHOOSE b \in bills : <<b.outlet, b.fy, b.n>> = <<s[1], s[2], k>>

\* The bill book: bills of a series in the order of their numbers.
Book == [s \in AllSeries |-> [k \in 1 .. last[s] |-> Numbered(s, k).status]]

Register == INSTANCE BillRegister WITH Series <- AllSeries, book <- Book

\* "Bills are never deleted": the tills implement the register.
KeepsRegister == Register!Spec
=============================================================================

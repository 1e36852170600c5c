----------------------------- MODULE PosReports -----------------------------
(***************************************************************************)
(* What the till and the office read off the bills: the day's figures and  *)
(* last token on the till's screen, the list of a day's bills, the summary *)
(* of a range and its export.  None of it changes anything.                *)
(***************************************************************************)
EXTENDS PosBilling, FiniteSetsExt, Functions

CONSTANTS
  TotalOf,       \* what a bill comes to, by its number (bound)
  MaxReportDays  \* the longest range, 366 in the code

ASSUME PosReportsAssumption == IsFiniteSet(Outlets) /\ TotalOf \in [1 .. SeriesCap -> Nat]

Amount(S) == SumFunction([b \in S |-> TotalOf[b.n]])

PaidOf(S) == {b \in S : b.status = "paid"}
CancelledOf(S) == S \ PaidOf(S)

\* One business day of bills at an outlet.
DayBills(o, d) == {b \in BillsOf(o) : b.day = d}

\* The token with the highest number.
BugLastToken(o, d) == LET S == DayBills(o, d) IN IF S = {} THEN 0 ELSE Max({b.token : b \in S})

\* The token of the newest bill: bills of a day are inserted in the order of
\* their numbers.
LastToken(o, d) ==
  LET S == DayBills(o, d)
  IN IF S = {} THEN 0 ELSE (CHOOSE b \in S : \A c \in S : c.n <= b.n).token

\* Cancelled bills drop out of the figures, not out of the tokens.
DayStats(o, d) ==
  LET paid == PaidOf(DayBills(o, d))
  IN [bills |-> Cardinality(paid), sales |-> Amount(paid), lastToken |-> LastToken(o, d)]

\* range: an end before the start and more than a year are refused.
RangeAccepted(from, to) == from <= to /\ to - from + 1 <= MaxReportDays

\* An outlet, or all of them.
Selected(from, to, outlets) == {b \in bills : b.day \in from .. to /\ b.outlet \in outlets}

Figures(S) == [bills |-> Cardinality(PaidOf(S)), amount |-> Amount(PaidOf(S))]

Summary(from, to, outlets) ==
  LET S == Selected(from, to, outlets)
  IN [totals |-> Figures(S),
      byOutlet |-> [o \in {b.outlet : b \in S} |->
                      LET T == S \cap BillsOf(o)
                      IN [bills |-> Cardinality(PaidOf(T)), amount |-> Amount(PaidOf(T)),
                          cancelled |-> Cardinality(CancelledOf(T))]],
      byDay |-> [d \in {b.day : b \in PaidOf(S)} |-> Figures({b \in S : b.day = d})],
      cancelledBills |-> Cardinality(CancelledOf(S)), cancelledAmount |-> Amount(CancelledOf(S))]

\* The export has every bill, and says which were cancelled.
BillsCsv(from, to, outlets) ==
  {[no |-> <<b.code, b.fy, b.n>>, status |-> b.status, total |-> TotalOf[b.n]] : b \in Selected(from, to, outlets)}

\* A summary's totals are those of the days on the till's screen, and of the
\* days and the outlets it lists.
AddsUp(s, days) ==
  /\ s.totals.bills = SumFunction([x \in days |-> DayStats(x[1], x[2]).bills])
  /\ s.totals.amount = SumFunction([x \in days |-> DayStats(x[1], x[2]).sales])
  /\ s.totals.bills = SumFunction([d \in DOMAIN s.byDay |-> s.byDay[d].bills])
  /\ s.totals.amount = SumFunction([o \in DOMAIN s.byOutlet |-> s.byOutlet[o].amount])
  /\ s.cancelledBills = SumFunction([o \in DOMAIN s.byOutlet |-> s.byOutlet[o].cancelled])

\* The export has a row for each bill, and its paid rows come to the total.
HasEachBill(s, csv) ==
  /\ s.totals.bills + s.cancelledBills = Cardinality(csv)
  /\ s.totals.amount = SumFunction([r \in {x \in csv : x.status = "paid"} |-> r.total])

\* The three views of a range.
RangeAgrees(from, to, outlets) ==
  LET s == Summary(from, to, outlets)
  IN AddsUp(s, outlets \X (from .. to)) /\ HasEachBill(s, BillsCsv(from, to, outlets))

\* All the days of an outlet: paid or cancelled, the bills of its series.
SeriesAgree(o) ==
  LET s == Summary(1, LastDay, {o})
  IN s.totals.bills + s.cancelledBills = SumFunction([y \in Years |-> last[<<o, y>>]])

\* The till's screen, the summary and the export agree on every range; the
\* token shown as the day's last is the one its counter gave last; and the
\* bills a year's report counts, cancelled ones with them, are its series.
TillAndOfficeAgree ==
  /\ \A o \in Outlets, d \in Days :
       tokens[<<o, d>>] > 0 => DayStats(o, d).lastToken = TokenFromCounter(tokens[<<o, d>>])
  /\ \A from, to \in Days, outlets \in {{o} : o \in Outlets} \cup {Outlets} :
       RangeAccepted(from, to) => RangeAgrees(from, to, outlets)
  /\ RangeAccepted(1, LastDay) => \A o \in Outlets : SeriesAgree(o)
=============================================================================

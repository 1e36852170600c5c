\* Two tills, two outlets and their codes, two days of a year, up to three
\* bills (a click begins while there is at most one): enough for a token to
\* come round, a double click and a code to change hands.
SPECIFICATION Spec
CONSTANTS
  Outlets = {o1, o2}
  NoOutlet = NoOutlet
  Codes = {bkw, vjn}
  NoCode = NoCode
  Refs = {r1}
  NoRef = NoRef
  Tills = {t1, t2}
  LastDay = 2
  FyOf <- OneYear
  TokenCap = 2
  SeriesCap = 3
  MaxBills = 2
  MaxEdits = 1
  TotalOf <- Totals
  MaxReportDays = 2
SYMMETRY Symmetry
INVARIANTS
  OneBillPerClick
  TillAndOfficeAgree
PROPERTIES
  KeepsRegister
CHECK_DEADLOCK FALSE

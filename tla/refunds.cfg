SPECIFICATION Spec
CONSTANTS
  Requests = {q1, q2}
  Paid = 3
  WalletUsed = 2
  Parts = {1}
  Points = 1
  MaxRestocks = 1
SYMMETRY RequestSymmetry
INVARIANTS
  ReportIsTrue
  ReturnsOnce
  CancelGivesBack
  NeverOutOfSight
CHECK_DEADLOCK FALSE

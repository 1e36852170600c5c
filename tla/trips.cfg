SPECIFICATION Spec
CONSTANTS
  Orders = {o1, o2}
  Riders = {r1, r2}
  Requests = {q1, q2}
  Capacity = 2
  MaxTrips = 2
  MaxCalls = 2
SYMMETRY Symmetry
INVARIANTS
  BooksAgree
  NoTripLeftOpen
  BonusOnce
CHECK_DEADLOCK FALSE

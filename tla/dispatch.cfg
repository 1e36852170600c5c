SPECIFICATION Spec
CONSTANTS
  MinPerKm = 4
  MaxOrders = 3
  MaxExtraMin = 8
  ReadyGapMin = 5
  FoodAgeMaxMin = 30
  MaxDropGapKm = 2
  OneDirection = TRUE
  Riders = {r1, r2}
  Ids = {o1, o2, o3}
  OrderKinds <- MCOrders
  RiderKinds <- MCRiders
  MaxMeddling = 1
  AutoDispatch = TRUE
  DueMin = 5
SYMMETRY Symmetry
INVARIANTS
  AnswersHold
  SharesWhatItMay
PROPERTIES
  TakesFromNobody
CHECK_DEADLOCK FALSE

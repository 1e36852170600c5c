SPECIFICATION Spec
CONSTANTS
  Orders = {o1}
  Pods = {p1, p2}
  Carts <- MCCarts
  Histories <- MCHistories
  MinSamples = 2
  Saved <- MCSaved
  AvgPrepMinutes = 20
  RiderPace = 10
  NotAcceptedMin = 3
  ReadyNoCarrierMin = 5
  OpensAt = 640
  Others = 2
  Moments <- MCMoments
  MaxFaults = 1
INVARIANTS
  OneApology
  PromiseCovers
PROPERTIES
  LateIsTold
  KitchenHears
CHECK_DEADLOCK FALSE

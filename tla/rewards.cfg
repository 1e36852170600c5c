SPECIFICATION Spec
CONSTANTS
  u1 = u1
  u2 = u2
  u3 = u3
  o1 = o1
  o2 = o2
  o3 = o3
  o4 = o4
  Users = {u1, u2, u3}
  Orders = {o1, o3, o4}
  Owner <- MCOwner3
  Codes <- MCCodes
  Plans <- MCPlans
  MilestoneN = 1
  Limits <- MCLimits
  MaxGifts = 1
  MaxCancelled = 1
  MaxCuts = 1
INVARIANTS
  RewardsWithinLimits
PROPERTIES
  EveryCheckoutEnds
CHECK_DEADLOCK FALSE

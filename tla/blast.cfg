SPECIFICATION Spec
CONSTANTS
  N = 2
  Clicks = {k1, k2}
  Segments = {"all", "never_ordered"}
  Asked = {0, 1}
  MaxEvents = 3
INVARIANTS
  NeverTwice
  NobodyForgotten
PROPERTIES
  EveryoneIsReached
CHECK_DEADLOCK FALSE

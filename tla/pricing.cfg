SPECIFICATION CartSpec
CONSTANTS
  Week = 3
  DayMinutes = 4
  LastMoment = 7
  Worlds <- MCWorlds
  Offers <- MCOffers
  CounterBills <- MCCounterBills
  Past <- MCPast
  Filters <- MCFilters
  Ahead = 1
  HourLength = 2
  MonthDays = 1
INVARIANTS
  QuoteIsHonoured
  AnnouncementsHold
  BillAddsUp
  ScreensAgree
CHECK_DEADLOCK FALSE

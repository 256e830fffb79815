SPECIFICATION FairSpec
CONSTANTS
  Calls = 2
  MaxSpreads = 2
  MaxDay = 2
  MaxForgot = 1
  MaxUnknown = 1
  Marks <- SmallMarks
  DailyTarget = 33
  DailyLossLimit = 40
  ProfitTarget = 35
  DebitLoss = 40
  MaxTradesPerDay = 0
  MinTrades = 2
  DrawdownLimit = 50
INVARIANTS
  BrokerAgreesWithState
  
PROPERTIES
  DayLimitsLockEntries
  SpreadsAreClosed
CHECK_DEADLOCK FALSE

SPECIFICATION Spec
CONSTANTS
  MaxTrades = 2
  Instruments = {i1, i2}
  Quantity = 2
  MaxStop = 1
  MaxCrashes = 2
INVARIANTS FillsMatchState LiquidationIsComplete
PROPERTY FollowsLifecycle
CHECK_DEADLOCK FALSE

SPECIFICATION Spec
CONSTANTS
  s1 = s1
  s2 = s2
  a1 = a1
  a2 = a2
  MaxTrades = 2
  MaxDay = 2
  Symbols = {s1, s2}
  Agents = {a1, a2}
  Plans <- SomePlans
  CandidateLists <- Mixed
  Marks <- NarrowMarks
  StopDistances = {1}
  Quantities = {1, 2}
  OrderCost = 1
  MinRisk = 3
  MidRisk = 3
  MaxRisk = 4
  CautionLoss <- NarrowCaution
  CautionProfit = 1
  NearTarget = 2
  AggregateCap = 5
  LossLimit = 6
  Target = 3
  LearningObjective = 2
  LearningMode = TRUE
  MaxOpen = 2
  MaxPerDay = 2
  LossStreakLimit = 2
  Sandbox = FALSE
  ScanPaused = FALSE
  OperatorPauses = FALSE
  CostCap = 4
  BrokerFloor = 0
INVARIANTS
  
  ClosedTradesAddUp

  
  

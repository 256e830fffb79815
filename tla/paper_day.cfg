SPECIFICATION Spec
CONSTANTS
  s1 = s1
  s2 = s2
  a1 = a1
  a2 = a2
  MaxTrades = 3
  MaxDay = 1
  Symbols = {s1, s2}
  Agents = {a1, a2}
  Plans <- AllTraded
  CandidateLists <- Mixed
  Marks <- WideMarks
  StopDistances = {2}
  Quantities = {1, 2}
  OrderCost = 1
  MinRisk = 4
  MidRisk = 5
  MaxRisk = 6
  CautionLoss <- WideCaution
  CautionProfit = 3
  NearTarget = 5
  AggregateCap = 7
  LossLimit = 9
  Target = 6
  LearningObjective = 4
  LearningMode = FALSE
  MaxOpen = 2
  MaxPerDay = 2
  LossStreakLimit = 2
  Sandbox = FALSE
  ScanPaused = FALSE
  OperatorPauses = FALSE
  CostCap = 4
  BrokerFloor = 0
INVARIANTS
  TypeOK
  
  DailyTradeCap
  RiskCapped
  
PROPERTIES
  ClosedFinal

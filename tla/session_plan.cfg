SPECIFICATION PlanSpec
CONSTANTS
  Symbols <- MCSymbols
  Recorded = {"INFY"}
  Mornings <- MCMornings
  Evidences <- MCEvidences
  Losses <- MCLosses
  MaxDays = 2
  MaxTrades = 2
  MaxReviews = 2
  MaxPlanCrashes = 1
INVARIANTS   IncidentsAreUnique

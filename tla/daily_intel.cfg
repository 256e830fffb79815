SPECIFICATION Spec
CONSTANTS
  Categories <- MCCategories
  Kinds <- MCKinds
  Moods <- MCMoods
  Calls <- MCCalls
  Sessions <- MCSessions
  MaxHold <- MCMaxHold
  MaxDay = 4
  MaxReruns = 1
  MaxFailures = 1
  History = 2
  MinExpiry = 1
  KillMin = 1
  Republish = 1
INVARIANTS CallsAreCountedOnce FinishedMorningsAreComplete
PROPERTIES ResultsComeWithTheirRun NoEntriesWithoutEdge
CHECK_DEADLOCK FALSE

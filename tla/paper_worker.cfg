SPECIFICATION FairSpec
CONSTANTS
  Minutes <- LastMinutes
  Rescans = {"rescan"}
  SlotMemory = 1
  MaxJobs = 1
  MaxRuns = 1
  MaxBoots = 2
INVARIANTS
  JobRowsMatchLock
  InterruptedRunsAreFailed
PROPERTIES
  JobLockIsReleased
  TakenSlotsAreAnswered
CHECK_DEADLOCK FALSE

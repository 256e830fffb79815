SPECIFICATION FairSpec
CONSTANTS
  Commands <- MCCommands
  MaxUpdates = 3
  MaxCrashes = 1
INVARIANTS NoUpdateIsSkipped RepeatsNeedRestart
PROPERTY EveryUpdateIsTaken
CHECK_DEADLOCK FALSE

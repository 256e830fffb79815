SPECIFICATION FeedFairSpec
CONSTANTS
  Instruments = {i1}
  Scans = {scan}
  OpenHours <- AfterFirst
  Freeze = 0
  MaxNow = 2
  MaxBoots = 2

  
PROPERTIES
  BarsAreHandedOver
  BarsLeaveFeed

SPECIFICATION FairSpec
CONSTANTS
  MaxSpawns = 1
  MaxCalls = 2
  MaxCrashes = 0
  MaxHangs = 0
  Stubborn <- OnlyOne
  Unsure <- Nothing
PROPERTIES
  LastStopHolds
CHECK_DEADLOCK FALSE

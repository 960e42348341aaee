SPECIFICATION FairSpec
CONSTANTS
  MaxSpawns = 3
  MaxCalls = 1
  MaxCrashes = 1
  MaxHangs = 0
  Stubborn <- Nothing
  Unsure <- Nothing
PROPERTIES
  NoDoubleSpawn
CHECK_DEADLOCK FALSE

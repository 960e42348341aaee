SPECIFICATION FairSpec
CONSTANTS
  MaxSpawns = 3
  MaxCalls = 3
  MaxCrashes = 1
  MaxHangs = 1
  Stubborn <- Unreachable
  Unsure <- Unverifiable
INVARIANTS
  TypeOK
  StoppedMeansNone
  RunningIsRecorded
PROPERTIES
  SpawnsAlone
  ExitIsToldApart
  RequestsEnd
  CrashedEngineIsTakenBack
CHECK_DEADLOCK FALSE

SPECIFICATION Spec
CONSTANTS
  j1 = j1
  j2 = j2
  p1 = p1
  p2 = p2
  p3 = p3
  t1 = t1
  t2 = t2
  NoJob = NoJob
  NoPrompt = NoPrompt
  StreakLimit = 1
  NoOutputCap = 1
  Jobs <- OneJob
  Prompts <- ThreePrompts
  Tabs <- OneTab
  Linked <- OneJob
  Packets <- OneJob
  MayAge <- None
  Outcomes = {"done", "empty", "error"}
  MaxOutages = 0
  MaxCrashes = 0
  MaxLandings = 2
  MaxInbox = 1
  MaxMishaps = 1
SYMMETRY Syms3
INVARIANTS
  TypeOK
  OneTakePerJob
  LandedWasRendered
  RetryFollowsError
PROPERTIES
  KeepsPromise
CHECK_DEADLOCK FALSE

SPECIFICATION FairSpec
CONSTANTS
  j1 = j1
  j2 = j2
  p1 = p1
  p2 = p2
  p3 = p3
  t1 = t1
  t2 = t2
  NoJob = NoJob
  NoPrompt = NoPrompt
  StreakLimit = 1
  NoOutputCap = 1
  Jobs <- OneJob
  Prompts <- OnePrompt
  Tabs <- OneTab
  Linked <- OneJob
  Packets <- None
  MayAge <- OneJob
  Outcomes = {"done","error"}
  MaxOutages = 1
  MaxCrashes = 1
  MaxLandings = 2
  MaxInbox = 1
  MaxMishaps = 0
INVARIANTS
  LostIsGone
PROPERTIES
  CompletedLands
  ActiveSettles
  SweepsEnd
CHECK_DEADLOCK FALSE

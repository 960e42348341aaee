SPECIFICATION Spec
CONSTANTS
  a1 = a1
  a2 = a2
  a3 = a3
  a4 = a4
  j1 = j1
  j2 = j2
  j3 = j3
  c1 = c1
  c2 = c2
  NoJob = NoJob
  NoAttempt = NoAttempt
  Sweep = Sweep
  Attempts <- OneAttempt
  Jobs <- TwoJobs
  Foreign <- Nothing
  Carry <- Nothing
  Removable <- Nothing
  Retriable <- Nothing
  Calls <- OneCall
  Outcomes = {"done"}
  MaxOutages = 1
  MaxCrashes = 0
  MaxRounds = 1
  MaxPollErrors = 1
PROPERTIES
  TerminalIsFinal
CHECK_DEADLOCK FALSE

SPECIFICATION Spec
CONSTANTS
  a1 = a1
  a2 = a2
  a3 = a3
  a4 = a4
  j1 = j1
  j2 = j2
  j3 = j3
  c1 = c1
  c2 = c2
  NoJob = NoJob
  NoAttempt = NoAttempt
  Sweep = Sweep
  Attempts <- AllAttempts
  Jobs <- ThreeJobs
  Foreign <- ThirdJob
  Carry <- OneAttempt
  Removable <- OneAttempt
  Retriable <- OneAttempt
  Calls <- TwoCalls
  Outcomes = {"done", "empty", "error", "carryError", "carryErrorOut", "interrupted"}
  MaxOutages = 1
  MaxCrashes = 2
  MaxRounds = 2
  MaxPollErrors = 2
CONSTRAINT Scenarios
SYMMETRY Syms
INVARIANTS
  TypeOK
  ReadinessIsLayered
  EngineAgrees
  VerdictMeansNoJob
  JobIsOwn
  RepeatNeedsCrash
  NoSecondWatcher
PROPERTIES
  ReadyIsNotUndone
  JobIsFinal
  TerminalWithoutFaults
CHECK_DEADLOCK FALSE

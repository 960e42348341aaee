----------------------- MODULE CompletionOwnerProofs -----------------------
(***************************************************************************)
(* Theorems of CompletionOwner, proved for every value of the constants.   *)
(***************************************************************************)
EXTENDS CompletionOwner, TLAPS

(* The states an execution column can hold. *)
States == TerminalStates \cup InFlightStates

(* The writes of the store yield rows. *)
LEMMA ExecutionType ==
    ASSUME NEW r \in Rows, NEW s \in States
    PROVE  SetExecution(r, s) \in Rows
  BY DEF Rows, SetExecution, Verdicts, States

(* So does the write of a failed delivery.                                 *)
LEMMA VerdictType ==
    ASSUME NEW r \in Rows, NEW v \in Verdicts
    PROVE  SetVerdict(r, v) \in Rows
  BY DEF Rows, SetVerdict, InFlightStates

(* So does the write of an engine job.                                     *)
LEMMA JobType ==
    ASSUME NEW r \in Rows, NEW s \in States, NEW j \in Jobs
    PROVE  SetJob(r, s, j) \in Rows
  BY DEF Rows, SetJob, SetExecution, Verdicts, States

(* So does the write of a preparation.                                     *)
LEMMA PreparationType ==
    ASSUME NEW r \in Rows, NEW p \in Preparations
    PROVE  SetPreparation(r, p) \in Rows
  BY DEF Rows, SetPreparation

(* So does the write of a continuation.                                    *)
LEMMA ContinuationType ==
    ASSUME NEW r \in Rows, NEW c \in Continuations
    PROVE  SetContinuation(r, c) \in Rows
  BY DEF Rows, SetContinuation

(* So does landCandidate.                                                  *)
LEMMA LandType ==
    ASSUME NEW r \in Rows, NEW j \in Jobs \cup {NoJob}
    PROVE  LandCandidate(r, j) \in Rows
  BY DEF Rows, LandCandidate

(* The row of a stopped job is a row.                                      *)
LEMMA StoppedType ==
    ASSUME NEW r \in Rows
    PROVE  Stopped(r) \in Rows
  BY ExecutionType DEF Stopped, States, TerminalStates

(* The row a status without a clip leaves behind is a row.                 *)
LEMMA SettledRowType ==
    ASSUME row \in [Attempts -> Rows],
           NEW a \in Attempts, NEW saw, NEW cause
    PROVE  SettledRow(a, saw, cause) \in Rows
  <1>1. row[a] \in Rows
    OBVIOUS
  <1>2. \A s \in {"rendering", "interrupted", "failed"} : 
           SetExecution(row[a], s) \in Rows
    BY <1>1, ExecutionType DEF States, TerminalStates, InFlightStates
  <1>3. SetContinuation(SetExecution(row[a], "failed"), "not-produced") \in Rows
    BY <1>2, ContinuationType DEF Continuations
  <1> QED
    BY <1>1, <1>2, <1>3, StoppedType DEF SettledRow

(* A write to a row that exists, or to none, leaves rows. *)
LEMMA SetRowType ==
    ASSUME row \in [Attempts -> Rows],
           NEW a, NEW r, a \in Attempts => r \in Rows, SetRow(a, r)
    PROVE  row' \in [Attempts -> Rows]
  BY DEF SetRow

(* A task that gets a record leaves records.                               *)
LEMMA SetTaskType ==
    ASSUME task \in [Tasks -> TaskRecords],
           NEW t, NEW w, w \in TaskRecords, SetTask(t, w)
    PROVE  task' \in [Tasks -> TaskRecords]
  BY DEF SetTask

(* A dispatch that goes on stays a dispatch.                               *)
LEMMA SetDispatchType ==
    ASSUME TypeOK,
           NEW a, NEW where \in DispatchAwaits, NEW j \in Jobs \cup {NoJob},
           SetDispatch(a, where, j)
    PROVE  dispatch' \in [Attempts -> [at : DispatchAwaits,
                                      job : Jobs \cup {NoJob}]]
  BY DEF TypeOK, SetDispatch

(* A dispatch that ends leaves dispatches.                                 *)
LEMMA EndDispatchType ==
    ASSUME TypeOK, NEW a, EndDispatch(a)
    PROVE  dispatch' \in [Attempts -> [at : DispatchAwaits,
                                      job : Jobs \cup {NoJob}]]
  BY DEF TypeOK, EndDispatch, NoDispatch, DispatchAwaits

(* The records of tasks. *)
LEMMA TaskType ==
    /\ Idle \in TaskRecords
    /\ \A at \in Awaits, a \in Attempts \cup {NoAttempt}, by \in Kinds :
          Started(at, a, by) \in TaskRecords
    /\ NextOfSweep \in TaskRecords
    /\ \A a \in Attempts \cup {NoAttempt} : Watching(a) \in TaskRecords
    /\ \A w \in TaskRecords, at \in Awaits : [w EXCEPT !.at = at] \in TaskRecords
    /\ \A w \in TaskRecords, n \in Nat : [w EXCEPT !.n = n] \in TaskRecords
    /\ \A w \in TaskRecords, s \in Answers \cup Verdicts :
          [w EXCEPT !.saw = s] \in TaskRecords
  <1>1. Idle \in TaskRecords
    BY DEF Idle, TaskRecords, Awaits, Kinds, Verdicts
  <1>2. ASSUME NEW at \in Awaits, NEW a \in Attempts \cup {NoAttempt},
               NEW by \in Kinds
        PROVE  Started(at, a, by) \in TaskRecords
    BY DEF Started, Idle, TaskRecords, Verdicts
  <1>3. /\ NextOfSweep \in TaskRecords
        /\ \A a \in Attempts \cup {NoAttempt} : Watching(a) \in TaskRecords
    BY <1>2 DEF NextOfSweep, Watching, Awaits, Kinds
  <1>4. /\ \A w \in TaskRecords, at \in Awaits :
              [w EXCEPT !.at = at] \in TaskRecords
        /\ \A w \in TaskRecords, n \in Nat : [w EXCEPT !.n = n] \in TaskRecords
        /\ \A w \in TaskRecords, s \in Answers \cup Verdicts :
              [w EXCEPT !.saw = s] \in TaskRecords
    BY DEF TaskRecords
  <1> QED
    BY <1>1, <1>2, <1>3, <1>4

(***************************************************************************)
(* Which task may await where: a watcher, a call and the sweep each keep   *)
(* to their part, and every wait but the sweep's own concerns an attempt.  *)
(***************************************************************************)
ResolveAwaits == {"history", "answered", "landing", "resuming"}
CancelAwaits  == {"interrupt", "listed", "dequeue", "listedAgain", "remember"}
WatchAwaits   == ResolveAwaits \cup {"poll"}
CallAwaits    == ResolveAwaits \cup CancelAwaits \cup {"settling", "reprepare"}
SweepAwaits   == ResolveAwaits \cup {"find", "queue", "redispatch"}

WatchRole(t, w) ==
    t \in Attempts /\ w.by = "watch" /\ w.att = t /\ w.at \in WatchAwaits
CallRole(t, w) ==
    /\ t \in Calls
    /\ w.by \in {"event", "cancel", "retry"}
    /\ w.att \in Attempts
    /\ w.at \in CallAwaits
SweepRole(t, w) ==
    /\ t = Sweep
    /\ w.by = "sweep"
    /\ \/ w = NextOfSweep
       \/ w.att \in Attempts /\ w.at \in SweepAwaits

InRole(t, w) == w = Idle \/ WatchRole(t, w) \/ CallRole(t, w) \/ SweepRole(t, w)

TasksInRole == \A t \in Tasks : InRole(t, task[t])

(* A crash leaves nothing of the process. *)
DownIsIdle ==
    ~serverUp =>
        /\ \A t \in Tasks : task[t] = Idle
        /\ \A a \in Attempts : dispatch[a] = NoDispatch
        /\ registering = {}
        /\ todo = {}

TypeInv == TypeOK /\ TasksInRole

(* A task that gets a record of its role stays in it.                      *)
LEMMA SetTaskRole ==
    ASSUME TypeInv, NEW t \in Tasks, NEW w, w \in TaskRecords, InRole(t, w),
           SetTask(t, w)
    PROVE  task' \in [Tasks -> TaskRecords] /\ TasksInRole'
  BY DEF TypeInv, TypeOK, SetTask, TasksInRole

(* A record that changes neither its attempt nor its caller keeps its role *)
(* where the role has the new wait.                                        *)
LEMMA MovedRole ==
    ASSUME NEW t \in Tasks, NEW w \in TaskRecords, InRole(t, w), w # Idle,
           NEW v \in TaskRecords, v.by = w.by, v.att = w.att,
           v.att \in Attempts, v.at \in ResolveAwaits
    PROVE  InRole(t, v)
  BY DEF InRole, WatchRole, CallRole, SweepRole, WatchAwaits, CallAwaits,
         SweepAwaits

(* What a caller of resolveFromEngine does next keeps every role. *)
LEMMA AfterResolveRole ==
    ASSUME TypeInv, NEW t \in Tasks, task[t] # Idle, NEW o,
           o = "running" => task[t].att \in Attempts,
           task' = AfterResolve(t, o)
    PROVE  task' \in [Tasks -> TaskRecords] /\ TasksInRole'
  <1>1. /\ task \in [Tasks -> TaskRecords]
        /\ \A u \in Tasks : InRole(u, task[u])
    BY DEF TypeInv, TypeOK, TasksInRole
  <1>2. CASE task[t].by = "watch"
    <2>1. t \in Attempts
      BY <1>1, <1>2, TasksAssumption
         DEF InRole, WatchRole, CallRole, SweepRole
    <2>2. AfterTick(t, o) \in TaskRecords /\ InRole(t, AfterTick(t, o))
      BY <2>1, TaskType
         DEF AfterTick, Awaits, Kinds, InRole, WatchRole, WatchAwaits, Started,
             Idle
    <2>3. task' = [task EXCEPT ![t] = AfterTick(t, o)]
      BY <1>2 DEF AfterResolve
    <2> QED
      BY <1>1, <2>2, <2>3 DEF TasksInRole
  <1>3. CASE task[t].by = "sweep"
    <2>1. t = Sweep
      BY <1>1, <1>3 DEF InRole, WatchRole, CallRole, SweepRole
    <2>2. NextOfSweep \in TaskRecords /\ InRole(Sweep, NextOfSweep)
      BY TaskType DEF InRole, SweepRole, NextOfSweep, Started, Idle
    <2>3. \A a \in Attempts :
             Watching(a) \in TaskRecords /\ InRole(a, Watching(a))
      BY TaskType DEF InRole, WatchRole, WatchAwaits, ResolveAwaits, Watching,
                      Started, Idle
    <2>4. task' = AfterVisit(task[t].att, o)
      BY <1>3 DEF AfterResolve
    <2>5. CASE o = "running"
      <3>1. task' = [task EXCEPT ![Sweep] = NextOfSweep,
                                 ![task[t].att] = Watching(task[t].att)]
        BY <2>4, <2>5 DEF AfterVisit
      <3> QED
        BY <1>1, <2>1, <2>2, <2>3, <2>5, <3>1 DEF TasksInRole
    <2>6. CASE o # "running"
      <3>1. task' = [task EXCEPT ![Sweep] = NextOfSweep]
        BY <2>4, <2>6 DEF AfterVisit
      <3> QED
        BY <1>1, <2>1, <2>2, <3>1 DEF TasksInRole
    <2> QED
      BY <2>5, <2>6
  <1>4. CASE task[t].by \notin {"watch", "sweep"}
    <2>1. task' = [task EXCEPT ![t] = Idle]
      BY <1>4 DEF AfterResolve, AfterCall
    <2> QED
      BY <1>1, <2>1, TaskType DEF TasksInRole, InRole
  <1> QED
    BY <1>2, <1>3, <1>4

(* Every wait but "idle" and "next" is for an attempt, and each wait       *)
(* belongs to the tasks whose role has it.                                 *)
LEMMA AwaitsKnown ==
    ASSUME TypeInv, NEW t \in Tasks
    PROVE  /\ task[t] \in TaskRecords
           /\ InRole(t, task[t])
           /\ task[t].at # "idle" => task[t] # Idle
           /\ task[t].at \notin {"idle", "next"} => task[t].att \in Attempts
           /\ task[t].at = "poll" => task[t].by = "watch" /\ task[t].att = t
           /\ task[t].at \in CancelAwaits \cup {"settling", "reprepare"}
                => t \in Calls
           /\ task[t].at \in {"find", "queue", "redispatch", "next"}
                => t = Sweep
           /\ task[t].by = "watch" => t \in Attempts /\ task[t].att = t
           /\ task[t].by = "sweep" => t = Sweep
           /\ task[t].at = "next" => task[t] = NextOfSweep
  <1>1. NextOfSweep.by = "sweep" /\ NextOfSweep.at = "next"
    BY DEF NextOfSweep, Started, Idle
  <1> QED
    BY <1>1
       DEF TypeInv, TypeOK, TasksInRole, InRole, WatchRole, CallRole, SweepRole,
           WatchAwaits, CallAwaits, SweepAwaits, ResolveAwaits, CancelAwaits,
           Idle

(* A kicked registration. *)
LEMMA KickCarryType ==
    ASSUME TypeOK, NEW a \in Attempts, NEW r \in Rows, KickCarry(a, r)
    PROVE  row' \in [Attempts -> Rows] /\ registering' \subseteq Attempts
  <1>1. SetContinuation(r, "registering") \in Rows
    BY ContinuationType DEF Continuations
  <1> QED
    BY <1>1 DEF KickCarry, SetRow, TypeOK

(* resolveFromEngine up to its first await, whoever calls it. *)
LEMMA ResolveType ==
    ASSUME TypeInv, NEW t \in Tasks, task[t] # Idle,
           NEW a \in Attempts, NEW w \in TaskRecords,
           InRole(t, [w EXCEPT !.at = "resuming"]),
           InRole(t, [w EXCEPT !.at = "history"]),
           Resolve(t, w, a)
    PROVE  /\ task' \in [Tasks -> TaskRecords] /\ TasksInRole'
           /\ row' \in [Attempts -> Rows]
           /\ registering' \subseteq Attempts
  <1>1. row[a] \in Rows /\ row \in [Attempts -> Rows] /\ registering \subseteq Attempts
    BY DEF TypeInv, TypeOK
  <1>2. CASE Terminal(row[a]) /\ PreparationDue(row[a])
    <2>1. /\ SetTask(t, [w EXCEPT !.at = "resuming"])
          /\ UNCHANGED <<row, registering>>
      BY <1>2 DEF Resolve
    <2>2. [w EXCEPT !.at = "resuming"] \in TaskRecords
      BY TaskType DEF Awaits
    <2> QED
      BY <1>1, <2>1, <2>2, SetTaskRole
  <1>3. CASE Terminal(row[a]) /\ ~PreparationDue(row[a])
    <2>1. /\ task' = AfterResolve(t, "untouched")
          /\ IF row[a].state = "ready" THEN KickCarry(a, row[a])
                                       ELSE UNCHANGED <<row, registering>>
      BY <1>3 DEF Resolve
    <2>2. task' \in [Tasks -> TaskRecords] /\ TasksInRole'
      BY <2>1, AfterResolveRole
    <2>3. row' \in [Attempts -> Rows] /\ registering' \subseteq Attempts
      BY <1>1, <2>1, KickCarryType DEF TypeInv
    <2> QED
      BY <2>2, <2>3
  <1>4. CASE ~Terminal(row[a])
    <2>1. /\ UNCHANGED <<row, registering>>
          /\ IF row[a].job = NoJob
                THEN task' = AfterResolve(t, "untouched")
                ELSE SetTask(t, [w EXCEPT !.at = "history"])
      BY <1>4 DEF Resolve
    <2>2. [w EXCEPT !.at = "history"] \in TaskRecords
      BY TaskType DEF Awaits
    <2>3. task' \in [Tasks -> TaskRecords] /\ TasksInRole'
      BY <2>1, <2>2, AfterResolveRole, SetTaskRole
    <2> QED
      BY <1>1, <2>1, <2>3
  <1> QED
    BY <1>2, <1>3, <1>4

-----------------------------------------------------------------------------
(* The engine's steps, and what the server asks of it. *)
LEMMA EngineTypeStep ==
    ASSUME EngineTypeOK, EngineStep
    PROVE  EngineTypeOK'
  <1>1. JobStates = {"free", "pending", "running", "closing", "gone"} \cup Records
    BY DEF JobStates
  <1>2. ASSUME NEW j \in Jobs,
               ForeignPrompt(j) \/ JobStarts(j) \/ JobCloses(j)
        PROVE  EngineTypeOK'
    BY <1>1, <1>2 DEF EngineTypeOK, ForeignPrompt, JobStarts, JobCloses
  <1>3. ASSUME NEW j \in Jobs, NEW o \in Outcomes, JobRecorded(j, o)
        PROVE  EngineTypeOK'
    <2>1. job' \in [Jobs -> JobStates]
      BY <1>1, <1>3, OutcomesAssumption DEF EngineTypeOK, JobRecorded
    <2>2. ended' \in [Jobs -> Records \cup {"none"}]
      BY <1>3, OutcomesAssumption DEF EngineTypeOK, JobRecorded
    <2>3. carryFile' \in [Attempts -> CarryFiles]
      BY <1>3 DEF EngineTypeOK, JobRecorded
    <2> QED
      BY <1>3, <2>1, <2>2, <2>3 DEF EngineTypeOK, JobRecorded
  <1>4. CASE EngineUnreachable
    <2>1. outages' \in 0 .. MaxOutages
      BY <1>4, MaxOutagesAssumption DEF EngineTypeOK, EngineUnreachable
    <2>2. engineUp' \in BOOLEAN
      BY <1>4 DEF EngineUnreachable
    <2> QED
      BY <1>4, <2>1, <2>2 DEF EngineTypeOK, EngineUnreachable
  <1>5. CASE EngineReachable
    BY <1>5 DEF EngineTypeOK, EngineReachable
  <1>6. CASE EngineRestarts
    BY <1>1, <1>6 DEF EngineTypeOK, EngineRestarts
  <1> QED
    BY <1>2, <1>3, <1>4, <1>5, <1>6 DEF EngineStep

(* A dequeued job is in a state of jobs.                                   *)
LEMMA DequeuedType ==
    ASSUME EngineTypeOK, NEW j, Dequeued(j)
    PROVE  job' \in [Jobs -> JobStates]
  BY DEF EngineTypeOK, Dequeued, JobStates

(* The steps of a task that resolves an attempt. *)
LEMMA ResolveStepType ==
    ASSUME TypeInv, NEW t \in Tasks, ResolveStep(t)
    PROVE  TypeInv'
  <1> DEFINE a == task[t].att
  <1> USE DEF TypeInv
  <1>1. /\ TypeOK
        /\ task[t] \in TaskRecords
        /\ InRole(t, task[t])
        /\ task[t].at \in ResolveAwaits => task[t] # Idle /\ a \in Attempts
        /\ a \in Attempts => row[a] \in Rows
    BY AwaitsKnown DEF ResolveAwaits, TypeOK
  <1> HIDE DEF a
  <1>2. CASE EngineAnswers(t)
    <2>1. HistoryOf(row[a].job) \in Answers
      BY DEF HistoryOf, Answers, Recorded
    <2>2. HistoryOf(row[a].job) \in Answers \cup Verdicts
      BY <2>1
    <2> DEFINE w == [task[t] EXCEPT !.at = "answered",
                                    !.saw = HistoryOf(row[a].job)]
    <2>3. w \in TaskRecords /\ w.by = task[t].by /\ w.att = a /\ w.at = "answered"
      BY <1>1, <2>2 DEF TaskRecords, Awaits, a
    <2>4. SetTask(t, w) /\ task[t].at = "history"
      BY <1>2 DEF EngineAnswers, At, a
    <2>5. InRole(t, w)
      BY <1>1, <2>3, <2>4, MovedRole DEF ResolveAwaits, a
    <2>6. task' \in [Tasks -> TaskRecords] /\ TasksInRole'
      BY <2>3, <2>4, <2>5, SetTaskRole
    <2> QED
      BY <1>2, <2>6 DEF EngineAnswers, TypeOK, EngineTypeOK, engineVars
  <1>3. CASE HistoryThrows(t)
    <2>1. At(t, "history") /\ task' = AfterResolve(t, "reconciling")
      BY <1>3 DEF HistoryThrows
    <2>2. task' \in [Tasks -> TaskRecords] /\ TasksInRole'
      BY <1>1, <2>1, AfterResolveRole DEF At, ResolveAwaits, a
    <2>3. row' \in [Attempts -> Rows]
      BY <1>1, <1>3, ExecutionType, SetRowType
         DEF HistoryThrows, TypeOK, States, InFlightStates, a
    <2> QED
      BY <1>3, <2>2, <2>3 DEF HistoryThrows, TypeOK, EngineTypeOK, engineVars
  <1>4. CASE AnswerTooLate(t)
    <2>1. At(t, "answered") /\ task' = AfterResolve(t, "untouched")
      BY <1>4 DEF AnswerTooLate
    <2>2. task' \in [Tasks -> TaskRecords] /\ TasksInRole'
      BY <1>1, <2>1, AfterResolveRole DEF At, ResolveAwaits, a
    <2> QED
      BY <1>4, <2>2 DEF AnswerTooLate, TypeOK, EngineTypeOK, engineVars
  <1>5. CASE Settles(t)
    <2>1. At(t, "answered") /\ task' = AfterResolve(t, task[t].saw)
      BY <1>5 DEF Settles
    <2>2. task' \in [Tasks -> TaskRecords] /\ TasksInRole'
      BY <1>1, <2>1, AfterResolveRole DEF At, ResolveAwaits, a
    <2>3. row' \in [Attempts -> Rows]
      BY <1>1, <1>5, SettledRowType, SetRowType DEF Settles, TypeOK, a
    <2> QED
      BY <1>5, <2>2, <2>3 DEF Settles, TypeOK, EngineTypeOK, engineVars
  <1>6. CASE Lands(t)
    <2> DEFINE r == LandCandidate(SetExecution(row[a], "preparing"), row[a].job)
    <2>1. At(t, "answered") /\ SetRow(a, r)
      BY <1>6 DEF Lands, a
    <2>2. /\ a \in Attempts
          /\ row[a].job \in Jobs \cup {NoJob}
          /\ SetExecution(row[a], "preparing") \in Rows
      BY <1>1, <2>1, ExecutionType
         DEF At, ResolveAwaits, Rows, States, InFlightStates
    <2>3. row' \in [Attempts -> Rows]
      BY <2>1, <2>2, LandType, SetRowType DEF TypeOK
    <2> DEFINE w == [task[t] EXCEPT !.at = "landing"]
    <2>4. w \in TaskRecords /\ w.by = task[t].by /\ w.att = a /\ w.at = "landing"
      BY <1>1 DEF TaskRecords, Awaits, a
    <2>5. SetTask(t, w) /\ InRole(t, w)
      BY <1>1, <1>6, <2>1, <2>2, <2>4, MovedRole DEF Lands, At, ResolveAwaits, a
    <2>6. task' \in [Tasks -> TaskRecords] /\ TasksInRole'
      BY <2>4, <2>5, SetTaskRole
    <2> QED
      BY <1>6, <2>3, <2>6 DEF Lands, TypeOK, EngineTypeOK, engineVars
  <1>7. CASE LandingThrows(t)
    <2>1. At(t, "answered") /\ a \in Attempts /\ task[t] # Idle
      BY <1>1, <1>7 DEF LandingThrows, At, ResolveAwaits
    <2>2. row' \in [Attempts -> Rows]
      BY <1>1, <1>7, ExecutionType, SetRowType
         DEF LandingThrows, TypeOK, States, InFlightStates, a
    <2>3. CASE task' = AfterResolve(t, "reconciling")
      BY <1>1, <1>7, <2>1, <2>2, <2>3, AfterResolveRole
         DEF LandingThrows, TypeOK, EngineTypeOK, engineVars, a
    <2> DEFINE w == [Started("poll", a, "watch") EXCEPT !.n = task[t].n + 1]
    <2>4. CASE task[t].by = "watch" /\ SetTask(t, w)
      <3>1. task[t].n + 1 \in Nat
        BY <1>1 DEF TaskRecords
      <3>2. w \in TaskRecords
        BY <2>1, <3>1, TaskType DEF Awaits, Kinds
      <3>3. w.by = "watch" /\ w.att = a /\ w.at = "poll"
        BY DEF Started, Idle
      <3>4. t \in Attempts /\ a = t
        BY <2>4, AwaitsKnown DEF a
      <3>5. InRole(t, w)
        BY <3>3, <3>4 DEF InRole, WatchRole, WatchAwaits
      <3>6. task' \in [Tasks -> TaskRecords] /\ TasksInRole'
        BY <2>4, <3>2, <3>5, SetTaskRole
      <3> QED
        BY <1>7, <2>2, <3>6
           DEF LandingThrows, TypeOK, EngineTypeOK, engineVars
    <2> QED
      BY <1>7, <2>3, <2>4 DEF LandingThrows, SetTask, a
  <1>8. ASSUME NEW p \in Prepared, LandingCompletes(t, p)
        PROVE  TypeInv'
    <2>1. At(t, "landing") /\ task' = AfterResolve(t, "done")
      BY <1>8 DEF LandingCompletes
    <2>2. a \in Attempts /\ task[t] # Idle
      BY <1>1, <2>1 DEF At, ResolveAwaits
    <2>3. task' \in [Tasks -> TaskRecords] /\ TasksInRole'
      BY <1>1, <2>1, <2>2, AfterResolveRole DEF a
    <2>4. SetExecution(SetPreparation(row[a], p), "ready") \in Rows
      BY <1>1, <2>2, PreparationType, ExecutionType
         DEF Prepared, Preparations, States, TerminalStates
    <2>5. row' \in [Attempts -> Rows] /\ registering' \subseteq Attempts
      BY <1>1, <1>8, <2>2, <2>4, KickCarryType DEF LandingCompletes, a
    <2> QED
      BY <1>8, <2>3, <2>5 DEF LandingCompletes, TypeOK, EngineTypeOK, engineVars
  <1>9. ASSUME NEW p \in Prepared, PreparationResumes(t, p)
        PROVE  TypeInv'
    <2>1. At(t, "resuming") /\ task' = AfterResolve(t, "untouched")
      BY <1>9 DEF PreparationResumes
    <2>2. a \in Attempts /\ task[t] # Idle
      BY <1>1, <2>1 DEF At, ResolveAwaits
    <2>3. task' \in [Tasks -> TaskRecords] /\ TasksInRole'
      BY <1>1, <2>1, <2>2, AfterResolveRole DEF a
    <2>4. SetPreparation(row[a], p) \in Rows
      BY <1>1, <2>2, PreparationType DEF Prepared, Preparations
    <2>5. row' \in [Attempts -> Rows] /\ registering' \subseteq Attempts
      BY <1>1, <1>9, <2>2, <2>4, KickCarryType DEF PreparationResumes, a
    <2> QED
      BY <1>9, <2>3, <2>5
         DEF PreparationResumes, TypeOK, EngineTypeOK, engineVars
  <1> QED
    BY <1>2, <1>3, <1>4, <1>5, <1>6, <1>7, <1>8, <1>9 DEF ResolveStep

(* A fresh wait of a call is in its role. *)
LEMMA StartedCall ==
    ASSUME NEW c \in Calls, NEW at \in CallAwaits, NEW a \in Attempts,
           NEW by \in {"event", "cancel", "retry"}
    PROVE  Started(at, a, by) \in TaskRecords /\ InRole(c, Started(at, a, by))
  <1>1. at \in Awaits /\ by \in Kinds
    BY DEF CallAwaits, ResolveAwaits, CancelAwaits, Awaits, Kinds
  <1> QED
    BY <1>1, TaskType DEF InRole, CallRole, Started, Idle

(* A call that goes on waiting is in its role. *)
LEMMA CallMoves ==
    ASSUME TypeInv, NEW c \in Calls, task[c].at \in CallAwaits,
           NEW w \in TaskRecords,
           w.att = task[c].att, w.by = task[c].by, w.at \in CallAwaits
    PROVE  InRole(c, w)
  <1>1. c \in Tasks /\ c \notin Attempts /\ c # Sweep
    BY TasksAssumption DEF Tasks
  <1>2. InRole(c, task[c])
    BY <1>1, AwaitsKnown
  <1> QED
    BY <1>1, <1>2
       DEF InRole, WatchRole, CallRole, SweepRole, Idle, CallAwaits,
           ResolveAwaits, CancelAwaits

(* One step of a depose loop leads to another of its awaits. *)
LEMMA DeposingMoves ==
    ASSUME NEW c, task[c] \in TaskRecords, NEW j, Deposing(c, j)
    PROVE  \E at \in CancelAwaits, n \in Nat :
              SetTask(c, [task[c] EXCEPT !.at = at, !.n = n])
  <1>1. task[c].n \in Nat /\ task[c].n + 1 \in Nat
    BY DEF TaskRecords
  <1>2. \A at : [task[c] EXCEPT !.at = at]
                  = [task[c] EXCEPT !.at = at, !.n = task[c].n]
    BY DEF TaskRecords
  <1> QED
    BY <1>1, <1>2 DEF Deposing, CancelAwaits

(* The steps of cancels, announced completions and preparation retries. *)
LEMMA CallStepType ==
    ASSUME TypeInv, NEW c \in Calls, CallStep(c)
    PROVE  TypeInv'
  <1> DEFINE a == task[c].att
  <1> USE DEF TypeInv
  <1>1. /\ TypeOK
        /\ c \in Tasks
        /\ task[c] \in TaskRecords
        /\ InRole(c, task[c])
        /\ task[c].at \in CallAwaits => task[c] # Idle /\ a \in Attempts
        /\ a \in Attempts => row[a] \in Rows
    BY AwaitsKnown DEF CallAwaits, CancelAwaits, ResolveAwaits, TypeOK, Tasks
  <1> HIDE DEF a
  <1>2. ASSUME NEW b \in Attempts,
               \/ OnCompletion(c, b)
               \/ CancelWithJob(c, b)
               \/ RetryPreparation(c, b)
        PROVE  TypeInv'
    <2> DEFINE w == [Started("interrupt", b, "cancel") EXCEPT !.n = 1]
    <2>1. w \in TaskRecords
      BY StartedCall, TaskType DEF CallAwaits, CancelAwaits
    <2>2. w.by = "cancel" /\ w.att = b /\ w.at = "interrupt"
      BY DEF Started, Idle
    <2>3. InRole(c, w)
      BY <2>2 DEF InRole, CallRole, CallAwaits, CancelAwaits
    <2>4. \E v \in TaskRecords : InRole(c, v) /\ SetTask(c, v)
      BY <1>2, <2>1, <2>3, StartedCall
         DEF OnCompletion, CancelWithJob, RetryPreparation, CallAwaits
    <2>5. task' \in [Tasks -> TaskRecords] /\ TasksInRole'
      BY <1>1, <2>4, SetTaskRole
    <2> QED
      BY <1>2, <2>5
         DEF OnCompletion, CancelWithJob, RetryPreparation, TypeOK,
             EngineTypeOK, engineVars
  <1>3. CASE Settled(c)
    <2>1. At(c, "settling") /\ Resolve(c, task[c], a)
      BY <1>3 DEF Settled, a
    <2>2. \A at \in ResolveAwaits : InRole(c, [task[c] EXCEPT !.at = at])
      <3> TAKE at \in ResolveAwaits
      <3> DEFINE w == [task[c] EXCEPT !.at = at]
      <3>1. w \in TaskRecords /\ w.att = task[c].att /\ w.by = task[c].by /\ w.at = at
        BY <1>1 DEF TaskRecords, ResolveAwaits, Awaits
      <3>2. task[c].at \in CallAwaits /\ w.at \in CallAwaits
        BY <2>1, <3>1 DEF At, CallAwaits
      <3> QED
        BY <3>1, <3>2, CallMoves
    <2>3. a \in Attempts /\ task[c] # Idle
      BY <1>1, <2>1 DEF At, CallAwaits
    <2>4. /\ task' \in [Tasks -> TaskRecords] /\ TasksInRole'
          /\ row' \in [Attempts -> Rows]
          /\ registering' \subseteq Attempts
      BY <1>1, <2>1, <2>2, <2>3, ResolveType DEF ResolveAwaits
    <2> QED
      BY <1>3, <2>4 DEF Settled, TypeOK, EngineTypeOK, engineVars
  <1>4. CASE CancelDeposes(c)
    <2>1. Deposing(c, row[a].job)
      BY <1>4 DEF CancelDeposes, a
    <2>2. job' \in [Jobs -> JobStates]
      BY <2>1, DequeuedType DEF Deposing, TypeOK, EngineTypeOK
    <2>3. task[c].at \in CallAwaits
      BY <2>1 DEF Deposing, At, CallAwaits, CancelAwaits
    <2>4. PICK at \in CancelAwaits, n \in Nat :
             SetTask(c, [task[c] EXCEPT !.at = at, !.n = n])
      BY <1>1, <2>1, DeposingMoves
    <2> DEFINE w == [task[c] EXCEPT !.at = at, !.n = n]
    <2>5. w \in TaskRecords /\ w.att = task[c].att /\ w.by = task[c].by /\ w.at = at
      BY <1>1
         DEF TaskRecords, Awaits, CallAwaits, CancelAwaits, ResolveAwaits
    <2>6. InRole(c, w)
      BY <2>3, <2>5, CallMoves DEF CallAwaits
    <2>7. task' \in [Tasks -> TaskRecords] /\ TasksInRole'
      BY <1>1, <2>4, <2>5, <2>6, SetTaskRole
    <2> QED
      BY <1>4, <2>2, <2>7 DEF CancelDeposes, TypeOK, EngineTypeOK
  <1>5. CASE CancelRemembers(c)
    <2>1. At(c, "remember") /\ a \in Attempts /\ row[a] \in Rows
      BY <1>1, <1>5 DEF CancelRemembers, At, CallAwaits, CancelAwaits
    <2>2. row' \in [Attempts -> Rows]
      BY <1>5, <2>1, SettledRowType, SetRowType DEF CancelRemembers, TypeOK, a
    <2> DEFINE w == [task[c] EXCEPT !.at = "settling"]
    <2>3. w \in TaskRecords /\ w.att = task[c].att /\ w.by = task[c].by /\ w.at = "settling"
      BY <1>1 DEF TaskRecords, Awaits
    <2>4. InRole(c, w)
      BY <2>1, <2>3, CallMoves DEF At, CallAwaits, CancelAwaits
    <2>5. SetTask(c, Idle) \/ SetTask(c, w)
      BY <1>5 DEF CancelRemembers
    <2>6. task' \in [Tasks -> TaskRecords] /\ TasksInRole'
      BY <1>1, <2>3, <2>4, <2>5, SetTaskRole, TaskType DEF InRole
    <2> QED
      BY <1>5, <2>2, <2>6 DEF CancelRemembers, TypeOK, EngineTypeOK, engineVars
  <1>6. CASE CancelThrows(c)
    <2>1. a \in Attempts /\ row[a] \in Rows
      BY <1>1, <1>6 DEF CancelThrows, CallAwaits, CancelAwaits
    <2>2. row' \in [Attempts -> Rows]
      BY <1>6, <2>1, ExecutionType, SetRowType
         DEF CancelThrows, TypeOK, States, InFlightStates, a
    <2>3. task' \in [Tasks -> TaskRecords] /\ TasksInRole'
      BY <1>1, <1>6, SetTaskRole, TaskType DEF CancelThrows, InRole
    <2> QED
      BY <1>6, <2>2, <2>3 DEF CancelThrows, TypeOK, EngineTypeOK, engineVars
  <1>7. ASSUME NEW p \in Prepared, Reprepared(c, p)
        PROVE  TypeInv'
    <2>1. a \in Attempts /\ row[a] \in Rows
      BY <1>1, <1>7 DEF Reprepared, At, CallAwaits
    <2>2. row' \in [Attempts -> Rows]
      BY <1>7, <2>1, PreparationType, SetRowType
         DEF Reprepared, TypeOK, Prepared, Preparations, a
    <2>3. task' \in [Tasks -> TaskRecords] /\ TasksInRole'
      BY <1>1, <1>7, SetTaskRole, TaskType DEF Reprepared, InRole
    <2> QED
      BY <1>7, <2>2, <2>3 DEF Reprepared, TypeOK, EngineTypeOK, engineVars
  <1> QED
    BY <1>2, <1>3, <1>4, <1>5, <1>6, <1>7 DEF CallStep

(* A watcher's tasks are in their role. *)
LEMMA WatcherRole ==
    ASSUME NEW a \in Attempts
    PROVE  Watching(a) \in TaskRecords /\ InRole(a, Watching(a)) /\ a \in Tasks
  BY TaskType DEF InRole, WatchRole, WatchAwaits, ResolveAwaits, Watching,
                  Started, Idle, Tasks

(* The steps of the dispatch of an attempt. *)
LEMMA DispatchStepType ==
    ASSUME TypeInv, NEW a \in Attempts, DispatchStep(a)
    PROVE  TypeInv'
  <1> USE DEF TypeInv
  <1>1. TypeOK /\ row[a] \in Rows /\ dispatch[a].job \in Jobs \cup {NoJob}
    BY DEF TypeOK
  <1>2. ASSUME NEW here, NEW next \in DispatchAwaits,
               DispatchGate(a, here, next)
        PROVE  TypeInv'
    <2>1. dispatch' \in [Attempts -> [at : DispatchAwaits,
                                     job : Jobs \cup {NoJob}]]
      BY <1>1, <1>2, SetDispatchType, EndDispatchType DEF DispatchGate
    <2> QED
      BY <1>1, <1>2, <2>1
         DEF DispatchGate, TypeOK, EngineTypeOK, engineVars, TasksInRole
  <1>3. CASE DispatchUploads(a) \/ DispatchResolves(a)
    BY <1>2, <1>3 DEF DispatchUploads, DispatchResolves, DispatchAwaits
  <1>4. CASE DispatchRefused(a)
    <2>1. row' \in [Attempts -> Rows]
      BY <1>1, <1>4, ExecutionType, SetRowType
         DEF DispatchRefused, TypeOK, States, TerminalStates
    <2>2. dispatch' \in [Attempts -> [at : DispatchAwaits,
                                     job : Jobs \cup {NoJob}]]
      BY <1>4, EndDispatchType DEF DispatchRefused
    <2> QED
      BY <1>4, <2>1, <2>2
         DEF DispatchRefused, TypeOK, EngineTypeOK, engineVars, TasksInRole
  <1>5. CASE DispatchThrows(a)
    <2>1. row' \in [Attempts -> Rows]
      BY <1>1, <1>5, VerdictType, SetRowType DEF DispatchThrows, TypeOK, Verdicts
    <2>2. dispatch' \in [Attempts -> [at : DispatchAwaits,
                                     job : Jobs \cup {NoJob}]]
      BY <1>5, EndDispatchType DEF DispatchThrows
    <2> QED
      BY <1>5, <2>1, <2>2
         DEF DispatchThrows, TypeOK, EngineTypeOK, engineVars, TasksInRole
  <1>6. ASSUME NEW j \in Jobs, Delivered(a, j)
        PROVE  TypeInv'
    <2>1. dispatch' \in [Attempts -> [at : DispatchAwaits,
                                     job : Jobs \cup {NoJob}]]
      BY <1>6, SetDispatchType DEF Delivered, DispatchAwaits
    <2>2. EngineTypeOK'
      BY <1>6 DEF Delivered, AcceptPrompt, TypeOK, EngineTypeOK, JobStates
    <2> QED
      BY <1>6, <2>1, <2>2 DEF Delivered, TypeOK, TasksInRole
  <1>7. CASE DispatchAcked(a)
    <2>1. CASE Terminal(row[a])
      <3>1. dispatch' \in [Attempts -> [at : DispatchAwaits,
                                       job : Jobs \cup {NoJob}]]
        BY <1>1, <1>7, <2>1, SetDispatchType DEF DispatchAcked, DispatchAwaits
      <3> QED
        BY <1>7, <2>1, <3>1
           DEF DispatchAcked, TypeOK, EngineTypeOK, engineVars, TasksInRole
    <2>2. CASE ~Terminal(row[a])
      <3>1. dispatch' \in [Attempts -> [at : DispatchAwaits,
                                       job : Jobs \cup {NoJob}]]
        BY <1>7, <2>2, EndDispatchType DEF DispatchAcked
      <3>2. SetJob(row[a], "queued", dispatch[a].job) \in Rows
        BY <1>1, ExecutionType
           DEF SetJob, States, InFlightStates, Rows
      <3>3. row' \in [Attempts -> Rows]
        BY <1>7, <2>2, <3>2, SetRowType DEF DispatchAcked, TypeOK
      <3>4. task' \in [Tasks -> TaskRecords] /\ TasksInRole'
        BY <1>7, <2>2, WatcherRole, SetTaskRole DEF DispatchAcked
      <3> QED
        BY <1>7, <3>1, <3>3, <3>4
           DEF DispatchAcked, TypeOK, EngineTypeOK, engineVars
    <2> QED
      BY <2>1, <2>2
  <1>8. CASE DispatchDeposes(a)
    <2>1. job' \in [Jobs -> JobStates]
      BY <1>8, DequeuedType DEF DispatchDeposes, TypeOK, EngineTypeOK
    <2>2. dispatch' \in [Attempts -> [at : DispatchAwaits,
                                     job : Jobs \cup {NoJob}]]
      BY <1>8, EndDispatchType DEF DispatchDeposes
    <2> QED
      BY <1>8, <2>1, <2>2
         DEF DispatchDeposes, TypeOK, EngineTypeOK, TasksInRole
  <1> QED
    BY <1>3, <1>4, <1>5, <1>6, <1>7, <1>8 DEF DispatchStep

(* The other steps that concern one attempt. *)
LEMMA AttemptStepType ==
    ASSUME TypeInv, NEW a \in Attempts, AttemptStep(a)
    PROVE  TypeInv'
  <1> USE DEF TypeInv
  <1>1. /\ TypeOK
        /\ row[a] \in Rows
        /\ a \in Tasks
        /\ task[a] \in TaskRecords
    BY AwaitsKnown DEF TypeOK, Tasks
  <1>2. CASE Submit(a)
    <2>1. RecordAttempt \in Rows
      BY DEF RecordAttempt, NoRow, Rows, InFlightStates, Verdicts,
             Preparations, Continuations
    <2>2. row' \in [Attempts -> Rows]
      BY <1>2, <2>1, SetRowType DEF Submit, TypeOK
    <2>3. dispatch' \in [Attempts -> [at : DispatchAwaits,
                                     job : Jobs \cup {NoJob}]]
      BY <1>2, SetDispatchType DEF Submit, DispatchAwaits
    <2> QED
      BY <1>2, <2>2, <2>3
         DEF Submit, TypeOK, EngineTypeOK, engineVars, TasksInRole
  <1>3. CASE DispatchStep(a)
    BY <1>3, DispatchStepType
  <1>4. CASE PollTick(a)
    <2>1. At(a, "poll") /\ Resolve(a, task[a], a)
      BY <1>4 DEF PollTick
    <2>2. task[a].by = "watch" /\ task[a].att = a /\ task[a] # Idle
      BY <1>1, <2>1, AwaitsKnown DEF At
    <2>3. \A at \in ResolveAwaits : InRole(a, [task[a] EXCEPT !.at = at])
      <3> TAKE at \in ResolveAwaits
      <3> DEFINE w == [task[a] EXCEPT !.at = at]
      <3>1. w.att = a /\ w.by = "watch" /\ w.at = at
        BY <1>1, <2>2 DEF TaskRecords
      <3> QED
        BY <3>1 DEF InRole, WatchRole, WatchAwaits
    <2>4. /\ task' \in [Tasks -> TaskRecords] /\ TasksInRole'
          /\ row' \in [Attempts -> Rows]
          /\ registering' \subseteq Attempts
      BY <1>1, <2>1, <2>2, <2>3, ResolveType DEF ResolveAwaits
    <2> QED
      BY <1>4, <2>4 DEF PollTick, TypeOK, EngineTypeOK, engineVars
  <1>5. CASE OnProgress(a) \/ CancelWithoutJob(a)
    <2>1. row' \in [Attempts -> Rows]
      BY <1>1, <1>5, ExecutionType, SetRowType
         DEF OnProgress, CancelWithoutJob, TypeOK, States, InFlightStates,
             TerminalStates
    <2> QED
      BY <1>5, <2>1
         DEF OnProgress, CancelWithoutJob, TypeOK, EngineTypeOK, engineVars,
             TasksInRole
  <1>6. CASE RetryRegistration(a)
    <2>1. row' \in [Attempts -> Rows] /\ registering' \subseteq Attempts
      BY <1>1, <1>6, KickCarryType DEF RetryRegistration
    <2> QED
      BY <1>6, <2>1
         DEF RetryRegistration, TypeOK, EngineTypeOK, engineVars, TasksInRole
  <1>7. ASSUME NEW c \in Continuations, Registers(a, c)
        PROVE  TypeInv'
    <2>1. row' \in [Attempts -> Rows]
      BY <1>1, <1>7, ContinuationType, SetRowType DEF Registers, TypeOK
    <2> QED
      BY <1>7, <2>1
         DEF Registers, TypeOK, EngineTypeOK, engineVars, TasksInRole
  <1>8. CASE CarryRegistered(a) \/ CarryNotProduced(a) \/ CarryExhausted(a)
    BY <1>7, <1>8
       DEF CarryRegistered, CarryNotProduced, CarryExhausted, Continuations
  <1>9. CASE RemoveTarget(a)
    BY <1>9 DEF RemoveTarget, TypeOK, EngineTypeOK, engineVars, TasksInRole
  <1> QED
    BY <1>2, <1>3, <1>4, <1>5, <1>6, <1>8, <1>9 DEF AttemptStep

(* A wait of the sweep is in its role. *)
LEMMA StartedSweep ==
    ASSUME NEW a \in Attempts, NEW at \in SweepAwaits
    PROVE  /\ Started(at, a, "sweep") \in TaskRecords
           /\ InRole(Sweep, Started(at, a, "sweep"))
           /\ Sweep \in Tasks
  <1>1. at \in Awaits
    BY DEF SweepAwaits, ResolveAwaits, Awaits
  <1> QED
    BY <1>1, TaskType DEF Kinds, InRole, SweepRole, Started, Idle, Tasks

(* The steps of the boot sweep. *)
LEMMA SweepStepType ==
    ASSUME TypeInv, SweepStep
    PROVE  TypeInv'
  <1> DEFINE a == task[Sweep].att
  <1> USE DEF TypeInv
  <1>1. /\ TypeOK
        /\ Sweep \in Tasks
        /\ task[Sweep] \in TaskRecords
        /\ InRole(Sweep, task[Sweep])
        /\ task[Sweep].at \in SweepAwaits => a \in Attempts
        /\ a \in Attempts => row[a] \in Rows
        /\ NextOfSweep \in TaskRecords /\ InRole(Sweep, NextOfSweep)
        /\ Idle \in TaskRecords /\ InRole(Sweep, Idle)
    BY AwaitsKnown, TaskType
       DEF SweepAwaits, ResolveAwaits, TypeOK, Tasks, InRole, SweepRole,
           NextOfSweep, Started, Idle
  <1> HIDE DEF a
  <1>2. ASSUME NEW b \in Attempts, SweepVisits(b)
        PROVE  TypeInv'
    <2>1. task[Sweep] # Idle /\ row[b] \in Rows
      BY <1>1, <1>2, AwaitsKnown DEF SweepVisits, At, TypeOK
    <2>2. CASE row[b].job = NoJob
      <3>1. /\ SetTask(Sweep, Started("find", b, "sweep"))
            /\ UNCHANGED <<row, registering>>
        BY <1>2, <2>2 DEF SweepVisits
      <3>2. task' \in [Tasks -> TaskRecords] /\ TasksInRole'
        BY <3>1, StartedSweep, SetTaskRole DEF SweepAwaits
      <3> QED
        BY <1>2, <3>1, <3>2
           DEF SweepVisits, TypeOK, EngineTypeOK, engineVars
    <2>3. CASE row[b].job # NoJob
      <3> DEFINE w == Started("next", b, "sweep")
      <3>1. Resolve(Sweep, w, b)
        BY <1>2, <2>3 DEF SweepVisits
      <3>2. w \in TaskRecords
        BY TaskType DEF Awaits, Kinds
      <3>3. \A at \in ResolveAwaits : InRole(Sweep, [w EXCEPT !.at = at])
        <4> TAKE at \in ResolveAwaits
        <4>1. [w EXCEPT !.at = at] = Started(at, b, "sweep")
          BY DEF Started, Idle
        <4> QED
          BY <4>1, StartedSweep DEF SweepAwaits
      <3> HIDE DEF w
      <3>4. /\ task' \in [Tasks -> TaskRecords] /\ TasksInRole'
            /\ row' \in [Attempts -> Rows]
            /\ registering' \subseteq Attempts
        BY <1>1, <2>1, <3>1, <3>2, <3>3, ResolveType DEF ResolveAwaits
      <3> QED
        BY <1>2, <3>4 DEF SweepVisits, TypeOK, EngineTypeOK, engineVars
    <2> QED
      BY <2>2, <2>3
  <1>3. ASSUME NEW j \in Jobs, SweepFinds(j)
        PROVE  TypeInv'
    <2>1. a \in Attempts
      BY <1>1, <1>3 DEF SweepFinds, At, SweepAwaits
    <2>2. row' \in [Attempts -> Rows]
      BY <1>1, <1>3, <2>1, JobType, SetRowType
         DEF SweepFinds, TypeOK, States, InFlightStates, a
    <2>3. task' \in [Tasks -> TaskRecords] /\ TasksInRole'
      BY <1>3, <2>1, StartedSweep, SetTaskRole
         DEF SweepFinds, SweepAwaits, ResolveAwaits, a
    <2> QED
      BY <1>3, <2>2, <2>3 DEF SweepFinds, TypeOK, EngineTypeOK, engineVars
  <1>4. CASE SweepMisses
    <2> DEFINE w == [Started("queue", a, "sweep") EXCEPT !.saw = row[a].verdict]
    <2>1. a \in Attempts
      BY <1>1, <1>4 DEF SweepMisses, At, SweepAwaits
    <2>2. row[a].verdict \in Answers \cup Verdicts
      BY <1>1, <2>1 DEF Rows
    <2>3. w \in TaskRecords /\ w.by = "sweep" /\ w.att = a /\ w.at = "queue"
      BY <2>1, <2>2, StartedSweep DEF SweepAwaits, Started, Idle, TaskRecords
    <2>4. InRole(Sweep, w)
      BY <2>1, <2>3 DEF InRole, SweepRole, SweepAwaits
    <2>5. SetTask(Sweep, w) \/ SetTask(Sweep, NextOfSweep)
      BY <1>4 DEF SweepMisses, a
    <2>6. task' \in [Tasks -> TaskRecords] /\ TasksInRole'
      BY <1>1, <2>3, <2>4, <2>5, SetTaskRole
    <2> QED
      BY <1>4, <2>6 DEF SweepMisses, TypeOK, EngineTypeOK, engineVars
  <1>5. CASE SweepUncertain \/ SweepInterrupts
    <2>1. At(Sweep, "queue") /\ a \in Attempts
      BY <1>1, <1>5 DEF SweepUncertain, SweepInterrupts, At, SweepAwaits
    <2>2. row' \in [Attempts -> Rows]
      BY <1>1, <1>5, <2>1, ExecutionType, SetRowType
         DEF SweepUncertain, SweepInterrupts, TypeOK, States, InFlightStates,
             TerminalStates, a
    <2>3. task' \in [Tasks -> TaskRecords] /\ TasksInRole'
      BY <1>1, <1>5, SetTaskRole DEF SweepUncertain, SweepInterrupts
    <2> QED
      BY <1>5, <2>2, <2>3
         DEF SweepUncertain, SweepInterrupts, TypeOK, EngineTypeOK, engineVars
  <1>6. CASE SweepRedispatches
    <2> DEFINE w == [task[Sweep] EXCEPT !.at = "redispatch", !.saw = "none"]
    <2>1. At(Sweep, "queue") /\ a \in Attempts
      BY <1>1, <1>6 DEF SweepRedispatches, At, SweepAwaits
    <2>2. task[Sweep].by = "sweep"
      BY <1>1, <2>1, TasksAssumption
         DEF InRole, WatchRole, CallRole, SweepRole, At, Idle
    <2>3. w \in TaskRecords /\ w.by = "sweep" /\ w.att = a /\ w.at = "redispatch"
      BY <1>1, <2>2 DEF TaskRecords, Awaits, Verdicts, a
    <2>4. InRole(Sweep, w)
      BY <2>1, <2>3 DEF InRole, SweepRole, SweepAwaits
    <2>5. task' \in [Tasks -> TaskRecords] /\ TasksInRole'
      BY <1>1, <1>6, <2>3, <2>4, SetTaskRole DEF SweepRedispatches
    <2>6. dispatch' \in [Attempts -> [at : DispatchAwaits,
                                     job : Jobs \cup {NoJob}]]
      BY <1>6, SetDispatchType DEF SweepRedispatches, DispatchAwaits
    <2> QED
      BY <1>6, <2>5, <2>6 DEF SweepRedispatches, TypeOK, EngineTypeOK, engineVars
  <1>7. CASE SweepRedispatched
    <2>1. task' \in [Tasks -> TaskRecords] /\ TasksInRole'
      BY <1>1, <1>7, SetTaskRole DEF SweepRedispatched
    <2> QED
      BY <1>7, <2>1 DEF SweepRedispatched, TypeOK, EngineTypeOK, engineVars
  <1>8. CASE SweepEnds
    <2>1. \A b \in Attempts : SetContinuation(row[b], "registering") \in Rows
      BY ContinuationType DEF TypeOK, Continuations
    <2>2. row' \in [Attempts -> Rows]
      BY <2>1, <1>8 DEF SweepEnds, TypeOK
    <2>3. registering' \subseteq Attempts
      BY <1>8 DEF SweepEnds, TypeOK
    <2>4. task' \in [Tasks -> TaskRecords] /\ TasksInRole'
      BY <1>1, <1>8, SetTaskRole DEF SweepEnds
    <2> QED
      BY <1>8, <2>2, <2>3, <2>4 DEF SweepEnds, TypeOK, EngineTypeOK, engineVars
  <1> QED
    BY <1>2, <1>3, <1>4, <1>5, <1>6, <1>7, <1>8 DEF SweepStep

-----------------------------------------------------------------------------
(* The initial state is typed.                                             *)
LEMMA TypeInit == Init => TypeInv
  <1> SUFFICES ASSUME Init
               PROVE  TypeInv
    OBVIOUS
  <1>1. EngineTypeOK
    BY MaxOutagesAssumption
       DEF Init, EngineInit, EngineTypeOK, JobStates, CarryFiles
  <1>2. row \in [Attempts -> Rows]
    BY DEF Init, NoRow, Rows, Verdicts, Preparations, Continuations
  <1>3. task \in [Tasks -> TaskRecords] /\ TasksInRole
    BY TaskType DEF Init, TasksInRole, InRole
  <1>4. dispatch \in [Attempts -> [at : DispatchAwaits, job : Jobs \cup {NoJob}]]
    BY DEF Init, NoDispatch, DispatchAwaits
  <1> QED
    BY <1>1, <1>2, <1>3, <1>4, BoundsAssumption DEF Init, TypeInv, TypeOK

(* Every step keeps the types and the roles.                               *)
LEMMA TypeStep == TypeInv /\ [Next]_vars => TypeInv'
  <1> SUFFICES ASSUME TypeInv, [Next]_vars
               PROVE  TypeInv'
    OBVIOUS
  <1>1. CASE EngineStep /\ UNCHANGED ownerVars
    BY <1>1, EngineTypeStep DEF TypeInv, TypeOK, TasksInRole, ownerVars
  <1>2. CASE Crash
    <2>1. crashes' \in 0 .. MaxCrashes
      BY <1>2, BoundsAssumption DEF Crash, TypeInv, TypeOK
    <2>2. task' \in [Tasks -> TaskRecords] /\ TasksInRole'
      BY <1>2, TaskType DEF Crash, TasksInRole, InRole
    <2>3. dispatch' \in [Attempts -> [at : DispatchAwaits,
                                     job : Jobs \cup {NoJob}]]
      BY <1>2 DEF Crash, NoDispatch, DispatchAwaits
    <2>4. serverUp' \in BOOLEAN /\ registering' \subseteq Attempts /\ todo' \subseteq Attempts
      BY <1>2 DEF Crash
    <2> QED
      BY <1>2, <2>1, <2>2, <2>3, <2>4
         DEF Crash, TypeInv, TypeOK, EngineTypeOK, engineVars
  <1>3. CASE Boot
    <2>1. /\ Sweep \in Tasks
          /\ NextOfSweep \in TaskRecords
          /\ InRole(Sweep, NextOfSweep)
      BY TaskType DEF Tasks, InRole, SweepRole, NextOfSweep, Started, Idle
    <2>2. task' \in [Tasks -> TaskRecords] /\ TasksInRole'
      BY <1>3, <2>1, SetTaskRole DEF Boot
    <2> QED
      BY <1>3, <2>2 DEF Boot, TypeInv, TypeOK, EngineTypeOK, engineVars
  <1>4. CASE UNCHANGED vars
    BY <1>4
       DEF vars, ownerVars, engineVars, TypeInv, TypeOK, EngineTypeOK,
           TasksInRole
  <1> QED
    BY <1>1, <1>2, <1>3, <1>4, ResolveStepType, CallStepType, AttemptStepType,
       SweepStepType
       DEF Next

(* Every reachable state is typed, and every task keeps to the awaits of   *)
(* its role: whatever the number of attempts, jobs and calls, a watcher    *)
(* only works for its own attempt, and no call does the work of the sweep. *)
THEOREM TypeCorrect == Spec => []TypeOK
  <1>1. Spec => []TypeInv
    BY TypeInit, TypeStep, PTL DEF Spec
  <1>2. TypeInv => TypeOK
    BY DEF TypeInv
  <1> QED
    BY <1>1, <1>2, PTL
=============================================================================

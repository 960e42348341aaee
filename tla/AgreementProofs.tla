-------------------------- MODULE AgreementProofs --------------------------
(***************************************************************************)
(* Rows, engine and answers agree: what a task was told of a job is what   *)
(* the engine recorded of it, so a settled row says the same.  From this   *)
(* follow EngineAgrees, ReadinessIsLayered and what a terminal row may     *)
(* become.                                                                 *)
(***************************************************************************)
EXTENDS OwnershipProofs, FiniteSetTheorems

(***************************************************************************)
(* The parts of the invariant.                                             *)
(***************************************************************************)
OutagesCounted == ~engineUp => outages > 0
CarryErrorsOfCarries ==
    \A j \in Jobs :
        ended[j] \in {"carryError", "carryErrorOut"} => jobOf[j] \in Carry

(* A record stands until a restart of the engine forgets it. *)
RecordsStand ==
    \A j \in Jobs :
        /\ job[j] \in Records => ended[j] = job[j]
        /\ ended[j] # "none" =>
              job[j] = ended[j] \/ (job[j] = "gone" /\ outages > 0)
EngineInv == OutagesCounted /\ CarryErrorsOfCarries /\ RecordsStand

(* The engine recorded s of job j, be it before it was restarted.          *)
Stands(j, s) == ended[j] = s
Clips == {"done", "carryErrorOut"}

(* Task t holds a record of the engine for attempt a.                      *)
Told(t, a) ==
    task[t].at = "answered" /\ task[t].att = a /\ task[t].saw \in Records

AnswerStands(t) ==
    task[t].at = "answered" =>
        /\ task[t].saw \in Answers
        /\ task[t].saw \in Records => Stands(row[task[t].att].job, task[t].saw)
        /\ task[t].saw = "lost" => job[row[task[t].att].job] = "gone"
AnswersStand == \A t \in Tasks : AnswerStands(t)
AnswersMatch ==
    \A a \in Attempts : \A t, u \in Tasks :
        Told(t, a) /\ Told(u, a) => task[t].saw = task[u].saw

(* What landed is on record as a clip, and nobody was told otherwise.      *)
ToldOfClips(a) == \A t \in Tasks : Told(t, a) => task[t].saw \in Clips
Clipped(a) == \E s \in Clips : Stands(row[a].job, s)
LandedStands ==
    \A a \in Attempts : Landed(row[a]) => Clipped(a) /\ ToldOfClips(a)

AgreeInv ==
    /\ EngineInv
    /\ AnswersStand
    /\ AnswersMatch
    /\ LandedStands
    /\ EngineAgrees
    /\ ReadinessIsLayered

(***************************************************************************)
(* What a step makes of a row: it becomes s.                               *)
(***************************************************************************)
Agreed(j, S) == j # NoJob => ended[j] \in S
Unknown(j)   == j # NoJob => job[j] = "gone"

StateTo(a, s) ==
    LET r == row[a] IN
    \/ s.state = r.state
    \/ s.state \in {"queued", "rendering", "preparing"} /\ ~Terminal(r)
    \/ s.state = "reconciling"
       /\ (Terminal(r) => ~engineUp \/ task[Sweep].at # "idle")
    \/ s.state = "ready" /\ Landed(r)
    \/ /\ s.state = "failed"
       /\ Agreed(r.job, {"empty", "error", "carryError"})
       /\ Terminal(r) => r.job = NoJob /\ dispatch[a].at \in {"resolve", "send"}
    \/ /\ s.state = "cancelled"
       /\ Agreed(r.job, {"interrupted"}) \/ Unknown(r.job)
       /\ ~Terminal(r)
    \/ /\ s.state = "interrupted"
       /\ Unknown(r.job)
       /\ Terminal(r) => task[Sweep].at # "idle" /\ r.job = NoJob

JobTo(a, s) ==
    s.job = row[a].job \/ (row[a].job = NoJob /\ s.state \notin TerminalStates)

ResultTo(a, s) ==
    \/ s.result = row[a].result
    \/ /\ s.result = row[a].job
       /\ row[a].job # NoJob
       /\ Clipped(a) /\ ToldOfClips(a)

PreparationTo(a, s) == s.preparation = row[a].preparation \/ Landed(row[a])

(* A row without a job is only written by its dispatch, its cancel, the    *)
(* sweep, or a submission.                                                 *)
JoblessTo(a, s) ==
    row[a].job = NoJob /\ s # row[a] =>
        \/ dispatch'[a].at = "idle"
        \/ InFlight(row[a]) /\ s.state = "cancelled"
        \/ row[a].state = "none"

(* Only a dispatch that ends before its send writes the verdict.           *)
VerdictTo(a, s) ==
    s.verdict = "never-delivered" =>
        \/ row[a].verdict = "never-delivered"
        \/ dispatch[a].at \in {"upload", "resolve"} /\ dispatch'[a].at = "idle"

PartTo(a, s) ==
    /\ StateTo(a, s) /\ JobTo(a, s) /\ ResultTo(a, s) /\ PreparationTo(a, s)
    /\ JoblessTo(a, s) /\ VerdictTo(a, s)

CarryTo(a, s) ==
    \/ /\ s.continuation = row[a].continuation
       /\ a \in registering' => a \in registering
    \/ /\ s.continuation = "registering"
       /\ a \in Carry /\ Landed(row[a])
    \/ /\ s.continuation \in {"ready", "not-produced"}
       /\ a \in Carry /\ a \notin registering'
       /\ s.continuation = "ready" => Landed(row[a])

RowsMove == \A a \in Attempts : PartTo(a, row'[a]) /\ CarryTo(a, row'[a])

-----------------------------------------------------------------------------
(* A row nobody writes.                                                    *)
LEMMA PartSame == ASSUME NEW a PROVE PartTo(a, row[a])
BY DEF PartTo, StateTo, JobTo, ResultTo, PreparationTo, JoblessTo, VerdictTo

LEMMA RowsSame ==
    ASSUME UNCHANGED row, registering' \subseteq registering
    PROVE  RowsMove
BY PartSame DEF RowsMove, CarryTo

(* One row written, and nothing registered but it.                         *)
LEMMA RowsOne ==
    ASSUME TypeOK, NEW a \in Attempts, NEW s, SetRow(a, s),
           PartTo(a, s), CarryTo(a, s),
           \A b \in registering' : b \in registering \/ b = a
    PROVE  RowsMove
<1>1. ASSUME NEW b \in Attempts
      PROVE  PartTo(b, row'[b]) /\ CarryTo(b, row'[b])
  <2>1. row'[b] = IF b = a THEN s ELSE row[b]
    BY DEF SetRow, TypeOK
  <2>2. CASE b = a
    BY <2>1, <2>2
  <2>3. CASE b # a
    BY <2>1, <2>3, PartSame DEF CarryTo
  <2> QED BY <2>2, <2>3
<1> QED BY <1>1 DEF RowsMove

(* The write of an execution state.                                        *)
LEMMA ExecutionMove ==
    ASSUME TypeOK, NEW a \in Attempts, NEW x,
           SetRow(a, SetExecution(row[a], x)), UNCHANGED registering,
           StateTo(a, [state |-> x]),
           row[a].job # NoJob \/ dispatch'[a].at = "idle"
           \/ (InFlight(row[a]) /\ x = "cancelled")
    PROVE  RowsMove
<1> DEFINE s == SetExecution(row[a], x)
<1>1. /\ s.state = x /\ s.verdict = "none" /\ s.job = row[a].job
      /\ s.result = row[a].result /\ s.preparation = row[a].preparation
      /\ s.continuation = row[a].continuation
  BY DEF SetExecution, TypeOK, Rows
<1>2. SetRow(a, s)
  OBVIOUS
<1> HIDE DEF s
<1>3. PartTo(a, s)
  BY <1>1 DEF PartTo, StateTo, JobTo, ResultTo, PreparationTo, JoblessTo,
              VerdictTo
<1>4. CarryTo(a, s)
  BY <1>1 DEF CarryTo
<1> QED BY <1>2, <1>3, <1>4, RowsOne

(* A kick of a row with a clip, which may have got a state or a frame.     *)
LEMMA KickMove ==
    ASSUME TypeOK, NEW a \in Attempts, NEW r \in Rows, KickCarry(a, r),
           PartTo(a, r), r.continuation = row[a].continuation,
           Landed(row[a]), row[a].job # NoJob
    PROVE  RowsMove
<1>1. CASE CarryDue(a, r)
  <2> DEFINE s == SetContinuation(r, "registering")
  <2>1. /\ s.state = r.state /\ s.verdict = r.verdict /\ s.job = r.job
        /\ s.result = r.result /\ s.preparation = r.preparation
        /\ s.continuation = "registering"
    BY DEF SetContinuation, Rows
  <2>2. SetRow(a, s) /\ registering' = registering \cup {a} /\ a \in Carry
    BY <1>1 DEF KickCarry, CarryDue, ContinuationPending
  <2> HIDE DEF s
  <2>3. PartTo(a, s)
    BY <2>1 DEF PartTo, StateTo, JobTo, ResultTo, PreparationTo, JoblessTo,
                VerdictTo
  <2>4. CarryTo(a, s)
    BY <2>1, <2>2 DEF CarryTo
  <2> QED BY <2>2, <2>3, <2>4, RowsOne
<1>2. CASE ~CarryDue(a, r)
  <2>1. SetRow(a, r) /\ UNCHANGED registering
    BY <1>2 DEF KickCarry
  <2>2. CarryTo(a, r)
    BY <2>1 DEF CarryTo
  <2> QED BY <2>1, <2>2, RowsOne
<1> QED BY <1>1, <1>2

-----------------------------------------------------------------------------
(***************************************************************************)
(* What a step does to the engine's records and to the answers held.       *)
(***************************************************************************)
EngineMove ==
    /\ OutagesCounted'
    /\ CarryErrorsOfCarries'
    /\ RecordsStand'
    /\ \A j \in Jobs : job[j] = "gone" => job'[j] = "gone"
    /\ \A j \in Jobs : ended[j] # "none" => ended'[j] = ended[j]

(* Task t asked the engine, and w is its record with the answer. *)
Asked(w) ==
    /\ w.att \in Attempts
    /\ row[w.att].job # NoJob
    /\ CanAnswer(row[w.att].job)
    /\ w.saw = HistoryOf(row[w.att].job)

TasksMove ==
    /\ \A t \in Tasks : task'[t].at = "answered" =>
          task'[t] = task[t] \/ Asked(task'[t])
    /\ serverUp /\ At(Sweep, "idle") => task'[Sweep].at = "idle"

(* An engine that is left alone. *)
LEMMA EngineSame ==
    ASSUME EngineInv, UNCHANGED engineVars
    PROVE  EngineMove
BY DEF EngineInv, EngineMove, engineVars, OutagesCounted, CarryErrorsOfCarries,
       RecordsStand

(* A request that takes a pending job out of the queue.                    *)
LEMMA DequeuedMove ==
    ASSUME TypeOK, EngineInv, NEW j, Dequeued(j),
           UNCHANGED <<jobOf, ended, engineUp, outages>>
    PROVE  EngineMove
<1>1. ASSUME NEW i \in Jobs
      PROVE  job'[i] = job[i] \/ (job[i] = "pending" /\ job'[i] = "gone")
  BY <1>1 DEF Dequeued, TypeOK, EngineTypeOK
<1> QED
  BY <1>1 DEF EngineInv, EngineMove, OutagesCounted, CarryErrorsOfCarries,
              RecordsStand, Records, TypeOK, EngineTypeOK

(* The engine's own steps. *)
LEMMA EngineStepMoves ==
    ASSUME TypeOK, EngineInv, EngineStep
    PROVE  EngineMove
<1>1. ASSUME NEW j \in Jobs, NEW s \in JobStates,
             NEW e \in Records \cup {"none"},
             job[j] \notin Records \cup {"gone"},
             s \in {"carryError", "carryErrorOut"} => jobOf[j] \in Carry,
             s \in Records => e = s, s \notin Records => e = "none",
             job' = [job EXCEPT ![j] = s],
             ended' = [ended EXCEPT ![j] = e],
             UNCHANGED <<jobOf, engineUp, outages>>
      PROVE  EngineMove
  <2>1. /\ \A i \in Jobs : job'[i] = IF i = j THEN s ELSE job[i]
        /\ \A i \in Jobs : ended'[i] = IF i = j THEN e ELSE ended[i]
    BY <1>1 DEF TypeOK, EngineTypeOK
  <2>2. ended[j] = "none"
    BY <1>1 DEF EngineInv, RecordsStand, TypeOK, EngineTypeOK
  <2>3. CarryErrorsOfCarries'
    BY <1>1, <2>1 DEF EngineInv, CarryErrorsOfCarries
  <2>4. RecordsStand'
    <3>1. s \in Records => e = s /\ s # "none"
      BY <1>1 DEF Records
    <3>2. e # "none" => e = s
      BY <1>1
    <3> QED
      BY <1>1, <2>1, <3>1, <3>2 DEF EngineInv, RecordsStand
  <2> QED
    BY <1>1, <2>1, <2>2, <2>3, <2>4 DEF EngineInv, EngineMove, OutagesCounted
<1>2. ASSUME NEW j \in Jobs, ForeignPrompt(j) \/ JobStarts(j) \/ JobCloses(j)
      PROVE  EngineMove
  <2>1. /\ job[j] \notin Records \cup {"gone"}
        /\ \E s \in {"pending", "running", "closing"} :
              job' = [job EXCEPT ![j] = s]
        /\ UNCHANGED <<jobOf, ended, engineUp, outages>>
    BY <1>2 DEF ForeignPrompt, JobStarts, JobCloses, Records
  <2>2. ended' = [ended EXCEPT ![j] = "none"]
    BY <2>1 DEF EngineInv, RecordsStand, TypeOK, EngineTypeOK
  <2> QED
    BY <1>1, <2>1, <2>2 DEF JobStates, Records
<1>3. ASSUME NEW j \in Jobs, NEW o \in Outcomes, JobRecorded(j, o)
      PROVE  EngineMove
  <2>1. /\ o \in Records /\ o \in JobStates
        /\ job[j] \notin Records \cup {"gone"}
    BY <1>3, OutcomesAssumption DEF JobRecorded, Records, JobStates
  <2> QED
    BY <1>1, <1>3, <2>1 DEF JobRecorded
<1>4. CASE EngineUnreachable
  BY <1>4 DEF EngineUnreachable, EngineInv, EngineMove, OutagesCounted,
              CarryErrorsOfCarries, RecordsStand, TypeOK, EngineTypeOK
<1>5. CASE EngineReachable
  BY <1>5 DEF EngineReachable, EngineInv, EngineMove, OutagesCounted,
              CarryErrorsOfCarries, RecordsStand
<1>6. CASE EngineRestarts
  <2>1. /\ outages > 0 /\ engineUp' /\ UNCHANGED <<jobOf, ended, outages>>
        /\ \A j \in Jobs : job'[j] = IF job[j] = "free" THEN "free" ELSE "gone"
    BY <1>6 DEF EngineRestarts, EngineInv, OutagesCounted
  <2> QED
    BY <2>1 DEF EngineInv, EngineMove, OutagesCounted, CarryErrorsOfCarries,
                RecordsStand, Records
<1> QED
  BY <1>2, <1>3, <1>4, <1>5, <1>6 DEF EngineStep

(* A task that moves on without an answer. *)
LEMMA SetTaskMoves ==
    ASSUME TypeInv, NEW t \in Tasks, NEW w, SetTask(t, w), w.at # "answered",
           t = Sweep => ~At(Sweep, "idle")
    PROVE  TasksMove
<1>1. \A u \in Tasks : task'[u] = IF u = t THEN w ELSE task[u]
  BY DEF SetTask, TypeInv, TypeOK
<1> QED
  BY <1>1 DEF TasksMove, At, Tasks

(* A resolution that returns to its caller.                                *)
LEMMA ReturnMoves ==
    ASSUME TypeInv, NEW t \in Tasks, task[t] # Idle, NEW o,
           task' = AfterResolve(t, o)
    PROVE  TasksMove
<1>1. /\ DOMAIN task = Tasks /\ Sweep \in Tasks
      /\ Idle.at = "idle" /\ NextOfSweep.at = "next"
      /\ \A a : Watching(a).at = "history"
      /\ \A a : Started("poll", a, "watch").at = "poll"
  BY DEF TypeInv, TypeOK, Tasks, Idle, NextOfSweep, Watching, Started
<1>2. CASE task[t].by = "watch"
  <2>1. t # Sweep
    BY <1>2, AwaitsKnown, TasksAssumption
  <2>2. SetTask(t, AfterTick(t, o))
    BY <1>2 DEF AfterResolve, SetTask
  <2> QED
    BY <1>1, <2>1, <2>2, SetTaskMoves DEF AfterTick
<1>3. CASE task[t].by = "sweep"
  <2>1. t = Sweep /\ ~At(Sweep, "idle")
    BY <1>3, AwaitsKnown, SweepIdle
  <2>2. \A u \in Tasks :
           task'[u] = task[u] \/ task'[u] = NextOfSweep
           \/ task'[u] = Watching(task[t].att)
    BY <1>1, <1>3 DEF AfterResolve, AfterVisit
  <2> QED
    BY <1>1, <2>1, <2>2 DEF TasksMove
<1>4. CASE task[t].by \notin {"watch", "sweep"}
  <2>1. t # Sweep
    <3>1. InRole(t, task[t])
      BY AwaitsKnown
    <3> QED
      BY <1>4, <3>1, TasksAssumption
         DEF InRole, WatchRole, CallRole, SweepRole
  <2>2. SetTask(t, Idle)
    BY <1>4 DEF AfterResolve, AfterCall, SetTask
  <2> QED
    BY <1>1, <2>1, <2>2, SetTaskMoves
<1> QED
  BY <1>2, <1>3, <1>4

-----------------------------------------------------------------------------
(***************************************************************************)
(* Every step moves rows, answers and engine in these ways.                *)
(***************************************************************************)
Moves == RowsMove /\ TasksMove /\ EngineMove

(* A clip's row has the job of the clip. *)
LEMMA LandedHasJob ==
    ASSUME OwnInv, NEW a \in Attempts, Landed(row[a])
    PROVE  row[a].job # NoJob /\ row[a].result = row[a].job
BY DEF OwnInv, RowInv, JobIsOwn, Landed

(* resolveFromEngine up to its first await. *)
LEMMA ResolveMoves ==
    ASSUME OwnInv, AgreeInv, NEW t \in Tasks, task[t] # Idle,
           NEW w \in TaskRecords, NEW a \in Attempts, Resolve(t, w, a)
    PROVE  RowsMove /\ TasksMove
<1>1. TypeInv /\ TypeOK /\ row[a] \in Rows
  BY DEF OwnInv, TypeInv, TypeOK
<1>2. t = Sweep => ~At(Sweep, "idle")
  BY <1>1, SweepIdle
<1>3. /\ [w EXCEPT !.at = "resuming"].at = "resuming"
      /\ [w EXCEPT !.at = "history"].at = "history"
  BY DEF TaskRecords
<1>4. CASE Terminal(row[a]) /\ PreparationDue(row[a])
  <2>1. /\ SetTask(t, [w EXCEPT !.at = "resuming"])
        /\ UNCHANGED <<row, registering>>
    BY <1>4 DEF Resolve
  <2> QED
    BY <1>1, <1>2, <1>3, <2>1, SetTaskMoves, RowsSame
<1>5. CASE Terminal(row[a]) /\ ~PreparationDue(row[a])
  <2>1. /\ task' = AfterResolve(t, "untouched")
        /\ IF row[a].state = "ready" THEN KickCarry(a, row[a])
                                     ELSE UNCHANGED <<row, registering>>
    BY <1>5 DEF Resolve
  <2>2. TasksMove
    BY <1>1, <2>1, ReturnMoves
  <2>3. CASE row[a].state = "ready"
    <3>1. Landed(row[a])
      BY <2>3 DEF AgreeInv, ReadinessIsLayered
    <3> QED
      BY <1>1, <2>1, <2>2, <2>3, <3>1, LandedHasJob, PartSame, KickMove
  <2>4. CASE row[a].state # "ready"
    BY <2>1, <2>2, <2>4, RowsSame
  <2> QED
    BY <2>3, <2>4
<1>6. CASE ~Terminal(row[a])
  <2>1. /\ UNCHANGED <<row, registering>>
        /\ \/ task' = AfterResolve(t, "untouched")
           \/ SetTask(t, [w EXCEPT !.at = "history"])
    BY <1>6 DEF Resolve
  <2>2. TasksMove
    BY <1>1, <1>2, <1>3, <2>1, ReturnMoves, SetTaskMoves
  <2> QED
    BY <2>1, <2>2, RowsSame
<1> QED
  BY <1>4, <1>5, <1>6

(* What an answer says of a row's job. *)
LEMMA AnswerTells ==
    ASSUME OwnInv, AgreeInv, NEW t \in Tasks, task[t].at = "answered"
    PROVE  /\ task[t].att \in Attempts
           /\ row[task[t].att] \in Rows
           /\ row[task[t].att].job \in Jobs
           /\ jobOf[row[task[t].att].job] = task[t].att
           /\ AnswerStands(t)
           /\ Landed(row[task[t].att]) /\ task[t].saw \in Records =>
                 task[t].saw \in Clips
<1> DEFINE a == task[t].att
<1>1. a \in Attempts /\ row[a].job # NoJob
  BY AwaitsKnown DEF OwnInv, TasksRely, Relies, WithJob
<1>2. row[a] \in Rows /\ row[a].job \in Jobs /\ jobOf[row[a].job] = a
  BY <1>1 DEF OwnInv, TypeInv, TypeOK, Rows, RowInv, JobIsOwn
<1>3. AnswerStands(t)
  BY DEF AgreeInv, AnswersStand
<1>4. Landed(row[a]) /\ task[t].saw \in Records => task[t].saw \in Clips
  BY <1>1 DEF AgreeInv, LandedStands, ToldOfClips, Told
<1> QED
  BY <1>1, <1>2, <1>3, <1>4

(* The row a status without a clip leaves behind. *)
LEMMA SettlesMove ==
    ASSUME OwnInv, AgreeInv, NEW t \in Tasks, Settles(t)
    PROVE  RowsMove
<1> DEFINE a == task[t].att
           j == row[a].job
           saw == task[t].saw
<1>1. /\ task[t].at = "answered" /\ ~Terminal(row[a]) /\ ~BringsClip(a, saw)
      /\ SetRow(a, SettledRow(a, saw, task[t].by))
      /\ UNCHANGED <<registering, dispatch>>
  BY DEF Settles, At
<1>2. /\ TypeOK /\ a \in Attempts /\ row[a] \in Rows
      /\ j \in Jobs /\ j # NoJob /\ jobOf[j] = a
      /\ saw \in Answers
      /\ saw \in Records => Stands(j, saw)
      /\ saw = "lost" => job[j] = "gone"
      /\ Landed(row[a]) /\ saw \in Records => saw \in Clips
  BY <1>1, AnswerTells, NoJobAssumption
     DEF OwnInv, TypeInv, AnswerStands
<1> HIDE DEF a, j, saw
<1>3. ASSUME NEW x, SetRow(a, SetExecution(row[a], x)),
             StateTo(a, [state |-> x])
      PROVE  RowsMove
  BY <1>1, <1>2, <1>3, ExecutionMove DEF j
<1>4. CASE saw = "running"
  <2>1. SetRow(a, SetExecution(row[a], "rendering"))
    BY <1>1, <1>4 DEF SettledRow, saw
  <2> QED
    BY <1>1, <1>3, <2>1 DEF StateTo
<1>5. CASE saw = "lost"
  <2>1. Unknown(j)
    BY <1>2, <1>5 DEF Unknown
  <2>2. \E x \in {"ready", "cancelled", "interrupted"} :
           /\ SetRow(a, SetExecution(row[a], x))
           /\ x = "ready" => Landed(row[a])
    BY <1>1, <1>5 DEF SettledRow, Stopped, saw
  <2> QED
    BY <1>1, <1>3, <2>1, <2>2 DEF StateTo, j
<1>6. CASE saw = "interrupted"
  <2>1. ~Landed(row[a])
    BY <1>2, <1>6 DEF Records, Clips
  <2>2. SetRow(a, SetExecution(row[a], "cancelled"))
    BY <1>1, <1>6, <2>1 DEF SettledRow, Stopped, saw
  <2>3. Agreed(j, {"interrupted"})
    BY <1>2, <1>6 DEF Agreed, Stands, Records
  <2> QED
    BY <1>1, <1>3, <2>2, <2>3 DEF StateTo, j
<1>7. CASE saw \in {"empty", "error", "carryError", "carryErrorOut"}
  <2>1. saw = "carryErrorOut" => a \notin Carry
    BY <1>1 DEF BringsClip
  <2>2. ended[j] = "carryErrorOut" => a \in Carry
    BY <1>2 DEF AgreeInv, EngineInv, CarryErrorsOfCarries
  <2>3. Agreed(j, {"empty", "error", "carryError"})
    BY <1>2, <1>7, <2>1, <2>2 DEF Agreed, Stands, Records
  <2>4. CASE saw = "carryError" /\ a \in Carry
    <3> DEFINE s == SetContinuation(SetExecution(row[a], "failed"),
                                    "not-produced")
    <3>1. SetRow(a, s)
      BY <1>1, <2>4 DEF SettledRow, saw
    <3>2. /\ s.state = "failed" /\ s.verdict = "none" /\ s.job = row[a].job
          /\ s.result = row[a].result /\ s.preparation = row[a].preparation
          /\ s.continuation = "not-produced"
      BY <1>2 DEF SetContinuation, SetExecution, Rows
    <3> HIDE DEF s
    <3>3. ~Landed(row[a])
      BY <1>2, <2>4 DEF Records, Clips
    <3>4. a \notin registering
      BY <3>3 DEF OwnInv, RegisteringHasLanded
    <3>5. PartTo(a, s)
      BY <1>1, <1>2, <2>3, <3>2
         DEF PartTo, StateTo, JobTo, ResultTo, PreparationTo, JoblessTo,
             VerdictTo, j
    <3>6. CarryTo(a, s)
      BY <1>1, <2>4, <3>2, <3>4 DEF CarryTo
    <3> QED
      BY <1>1, <1>2, <3>1, <3>5, <3>6, RowsOne
  <2>5. CASE ~(saw = "carryError" /\ a \in Carry)
    <3>1. SetRow(a, SetExecution(row[a], "failed"))
      BY <1>1, <1>7, <2>5 DEF SettledRow, saw
    <3> QED
      BY <1>1, <1>3, <2>3, <3>1 DEF StateTo, j
  <2> QED
    BY <2>4, <2>5
<1> QED
  BY <1>1, <1>2, <1>4, <1>5, <1>6, <1>7 DEF Answers, Records, BringsClip

(* The clip lands: what the task was told is on record, and everybody who  *)
(* was told something was told the same.                                   *)
LEMMA LandsMove ==
    ASSUME OwnInv, AgreeInv, NEW t \in Tasks, Lands(t)
    PROVE  RowsMove
<1> DEFINE a == task[t].att
           j == row[a].job
           s == LandCandidate(SetExecution(row[a], "preparing"), j)
<1>1. /\ task[t].at = "answered" /\ ~Terminal(row[a])
      /\ task[t].saw \in Clips
      /\ SetRow(a, s)
      /\ UNCHANGED <<registering, dispatch>>
  BY DEF Lands, At, BringsClip, Clips
<1>2. /\ TypeOK /\ a \in Attempts /\ row[a] \in Rows /\ j # NoJob
      /\ Stands(j, task[t].saw) /\ task[t].saw \in Records
  BY <1>1, AnswerTells, NoJobAssumption
     DEF OwnInv, TypeInv, AnswerStands, Clips, Records
<1>3. Clipped(a)
  BY <1>1, <1>2 DEF Clipped
<1>4. ToldOfClips(a)
  <2> SUFFICES ASSUME NEW u \in Tasks, Told(u, a)
               PROVE  task[u].saw \in Clips
    BY DEF ToldOfClips
  <2>1. Told(t, a)
    BY <1>1, <1>2 DEF Told
  <2>2. task[u].saw = task[t].saw
    BY <1>2, <2>1 DEF AgreeInv, AnswersMatch
  <2> QED
    BY <1>1, <2>2
<1>5. /\ s.state = "preparing" /\ s.verdict = "none" /\ s.job = row[a].job
      /\ s.result \in {row[a].result, j}
      /\ s.preparation = row[a].preparation
      /\ s.continuation = row[a].continuation
  BY <1>2 DEF LandCandidate, SetExecution, Rows
<1> HIDE DEF s
<1>6. PartTo(a, s)
  BY <1>1, <1>2, <1>3, <1>4, <1>5
     DEF PartTo, StateTo, JobTo, ResultTo, PreparationTo, JoblessTo, VerdictTo
<1>7. CarryTo(a, s)
  BY <1>1, <1>5 DEF CarryTo
<1> QED
  BY <1>1, <1>2, <1>6, <1>7, RowsOne

(* A frame is prepared for a row with a clip, which may get ready.         *)
LEMMA PreparedMove ==
    ASSUME OwnInv, NEW a \in Attempts, Landed(row[a]), NEW p \in Prepared,
           \/ KickCarry(a, SetExecution(SetPreparation(row[a], p), "ready"))
           \/ KickCarry(a, SetPreparation(row[a], p))
    PROVE  RowsMove
<1> DEFINE s == SetPreparation(row[a], p)
           r == SetExecution(s, "ready")
<1>1. TypeOK /\ row[a] \in Rows /\ row[a].job # NoJob
  BY LandedHasJob DEF OwnInv, TypeInv, TypeOK
<1>2. s \in Rows /\ r \in Rows
  BY <1>1, PreparationType, ExecutionType
     DEF Prepared, Preparations, States, TerminalStates
<1>3. /\ s.state = row[a].state /\ s.verdict = row[a].verdict
      /\ s.job = row[a].job /\ s.result = row[a].result
      /\ s.continuation = row[a].continuation
  BY <1>1 DEF SetPreparation, Rows
<1>4. /\ r.state = "ready" /\ r.verdict = "none"
      /\ r.job = row[a].job /\ r.result = row[a].result
      /\ r.continuation = row[a].continuation
  BY <1>1 DEF SetExecution, SetPreparation, Rows
<1> HIDE DEF s, r
<1>5. PartTo(a, s) /\ PartTo(a, r)
  BY <1>1, <1>3, <1>4
     DEF PartTo, StateTo, JobTo, ResultTo, PreparationTo, JoblessTo, VerdictTo
<1>6. KickCarry(a, r) \/ KickCarry(a, s)
  BY DEF r, s
<1> QED
  BY <1>1, <1>2, <1>3, <1>4, <1>5, <1>6, KickMove

(* The steps of resolveFromEngine after its await. *)
LEMMA ResolveStepMoves ==
    ASSUME OwnInv, AgreeInv, NEW t \in Tasks, ResolveStep(t)
    PROVE  Moves
<1> DEFINE a == task[t].att
<1>1. /\ TypeInv /\ TypeOK /\ EngineInv
      /\ task[t] \in TaskRecords
      /\ task[t].at \in ResolveAwaits
      /\ UNCHANGED <<engineVars, dispatch>>
  BY AwaitsKnown
     DEF ResolveStep, EngineAnswers, HistoryThrows, AnswerTooLate, Settles,
         Lands, LandingThrows, LandingCompletes, PreparationResumes, At,
         ResolveAwaits, OwnInv, TypeInv, AgreeInv
<1>2. EngineMove
  BY <1>1, EngineSame
<1>3. /\ task[t] # Idle /\ a \in Attempts /\ row[a] \in Rows
      /\ t = Sweep => ~At(Sweep, "idle")
  BY <1>1, AwaitsKnown DEF ResolveAwaits, TypeOK, At
<1>4. /\ task[t].at \in {"history", "answered"} => row[a].job # NoJob
      /\ task[t].at \in {"landing", "resuming"} => Landed(row[a])
  BY <1>1 DEF OwnInv, TasksRely, Relies, WithJob, WithResult
<1>5. ASSUME NEW o, task' = AfterResolve(t, o)
      PROVE  TasksMove
  BY <1>1, <1>3, <1>5, ReturnMoves
<1>6. CASE EngineAnswers(t)
  <2> DEFINE w == [task[t] EXCEPT !.at = "answered",
                                  !.saw = HistoryOf(row[a].job)]
  <2>1. /\ UNCHANGED <<row, registering>> /\ task' = [task EXCEPT ![t] = w]
        /\ CanAnswer(row[a].job) /\ task[t].at = "history"
    BY <1>6 DEF EngineAnswers, SetTask, At
  <2>2. w.att = a /\ w.saw = HistoryOf(row[a].job) /\ w.at = "answered"
    BY <1>1 DEF TaskRecords
  <2>3. Asked(w)
    BY <1>3, <1>4, <2>1, <2>2 DEF Asked
  <2> HIDE DEF w
  <2>4. /\ task'[t] = w /\ DOMAIN task = Tasks
        /\ \A u \in Tasks \ {t} : task'[u] = task[u]
    BY <1>1, <2>1 DEF TypeOK
  <2>5. TasksMove
    BY <1>3, <2>3, <2>4 DEF TasksMove, Tasks, At
  <2> QED
    BY <1>2, <2>1, <2>5, RowsSame DEF Moves
<1>7. CASE HistoryThrows(t)
  <2>1. /\ task[t].at = "history" /\ ~engineUp /\ UNCHANGED registering
        /\ SetRow(a, SetExecution(row[a], "reconciling"))
        /\ task' = AfterResolve(t, "reconciling")
    BY <1>7 DEF HistoryThrows, At
  <2>2. RowsMove
    BY <1>1, <1>3, <1>4, <2>1, ExecutionMove DEF StateTo
  <2> QED
    BY <1>2, <1>5, <2>1, <2>2 DEF Moves
<1>8. CASE AnswerTooLate(t)
  BY <1>2, <1>5, <1>8, RowsSame DEF AnswerTooLate, Moves
<1>9. CASE Settles(t)
  BY <1>2, <1>5, <1>9, SettlesMove DEF Settles, Moves
<1>10. CASE Lands(t)
  <2>1. SetTask(t, [task[t] EXCEPT !.at = "landing"])
    BY <1>10 DEF Lands
  <2>2. [task[t] EXCEPT !.at = "landing"].at = "landing"
    BY <1>1 DEF TaskRecords
  <2> QED
    BY <1>1, <1>2, <1>3, <1>10, <2>1, <2>2, LandsMove, SetTaskMoves DEF Moves
<1>11. CASE LandingThrows(t)
  <2>1. /\ task[t].at = "answered" /\ ~Terminal(row[a]) /\ UNCHANGED registering
        /\ \E x \in {"preparing", "reconciling"} :
              SetRow(a, SetExecution(row[a], x))
    BY <1>11 DEF LandingThrows, At
  <2>2. RowsMove
    BY <1>1, <1>3, <1>4, <2>1, ExecutionMove DEF StateTo
  <2> DEFINE w == [Started("poll", a, "watch") EXCEPT !.n = task[t].n + 1]
  <2>3. \/ SetTask(t, w)
        \/ task' = AfterResolve(t, "reconciling")
    BY <1>11 DEF LandingThrows, SetTask
  <2>4. w.at = "poll"
    BY DEF Started, Idle
  <2>5. TasksMove
    BY <1>1, <1>3, <1>5, <2>3, <2>4, SetTaskMoves
  <2> QED
    BY <1>2, <2>2, <2>5 DEF Moves
<1>12. ASSUME NEW p \in Prepared,
              LandingCompletes(t, p) \/ PreparationResumes(t, p)
       PROVE  Moves
  <2>1. /\ task[t].at \in {"landing", "resuming"}
        /\ \/ KickCarry(a, SetExecution(SetPreparation(row[a], p), "ready"))
           \/ KickCarry(a, SetPreparation(row[a], p))
        /\ \/ task' = AfterResolve(t, "done")
           \/ task' = AfterResolve(t, "untouched")
    BY <1>12 DEF LandingCompletes, PreparationResumes, At
  <2>2. RowsMove
    BY <1>3, <1>4, <2>1, PreparedMove
  <2> QED
    BY <1>2, <1>5, <2>1, <2>2 DEF Moves
<1> QED
  BY <1>6, <1>7, <1>8, <1>9, <1>10, <1>11, <1>12 DEF ResolveStep

(* A task that carries the same wait on, or another one than "answered". *)
LEMMA MovedMoves ==
    ASSUME TypeInv, NEW c \in Calls, NEW w, SetTask(c, w),
           w.at # "answered"
    PROVE  TasksMove
<1>1. c \in Tasks /\ c # Sweep
  BY TasksAssumption DEF Tasks
<1> QED
  BY <1>1, SetTaskMoves

(* The depose loop of a cancel asks and dequeues, and writes no row. *)
LEMMA CancelDeposesMoves ==
    ASSUME OwnInv, AgreeInv, NEW c \in Calls, CancelDeposes(c)
    PROVE  Moves
<1>1. /\ TypeInv /\ TypeOK /\ EngineInv /\ c \in Tasks
      /\ task[c] \in TaskRecords
      /\ UNCHANGED <<row, registering>>
      /\ UNCHANGED <<jobOf, ended, carryFile, engineUp, outages>>
  BY DEF OwnInv, TypeInv, TypeOK, AgreeInv, Tasks, CancelDeposes
<1>2. RowsMove
  BY <1>1, RowsSame
<1>3. UNCHANGED job \/ \E j : Dequeued(j)
  BY DEF CancelDeposes, Deposing
<1>4. EngineMove
  BY <1>1, <1>3, EngineSame, DequeuedMove DEF engineVars
<1>5. \E at \in Awaits \ {"answered"} :
         \/ SetTask(c, [task[c] EXCEPT !.at = at])
         \/ \E n : SetTask(c, [task[c] EXCEPT !.at = at, !.n = n])
  BY DEF CancelDeposes, Deposing, Awaits
<1>6. \A at, n : /\ [task[c] EXCEPT !.at = at].at = at
                 /\ [task[c] EXCEPT !.at = at, !.n = n].at = at
  BY <1>1 DEF TaskRecords
<1>7. TasksMove
  BY <1>1, <1>5, <1>6, MovedMoves
<1> QED
  BY <1>2, <1>4, <1>7 DEF Moves

(* User calls and announced completions. *)
LEMMA CallStepMoves ==
    ASSUME OwnInv, AgreeInv, NEW c \in Calls, CallStep(c)
    PROVE  Moves
<1> DEFINE a == task[c].att
<1>1. /\ TypeInv /\ TypeOK /\ EngineInv /\ c \in Tasks
      /\ task[c] \in TaskRecords
      /\ Idle.at = "idle"
      /\ \A at, b, by : Started(at, b, by).at = at
      /\ \A at, b, by : [Started(at, b, by) EXCEPT !.n = 1].at = at
  BY DEF OwnInv, TypeInv, TypeOK, AgreeInv, Tasks, Started, Idle
<1>2. UNCHANGED engineVars => EngineMove
  BY <1>1, EngineSame
<1>3. task[c].at \in CancelAwaits \cup {"settling", "reprepare"} =>
         /\ task[c] # Idle /\ a \in Attempts /\ row[a] \in Rows
         /\ task[c].at # "reprepare" => row[a].job # NoJob
         /\ task[c].at = "reprepare" => Landed(row[a])
  BY <1>1, AwaitsKnown
     DEF CancelAwaits, TypeOK, OwnInv, TasksRely, Relies, WithJob, WithResult
<1>4. CASE \E b \in Attempts : OnCompletion(c, b) \/ CancelWithJob(c, b)
                               \/ RetryPreparation(c, b)
  <2>1. /\ UNCHANGED <<row, registering>> /\ UNCHANGED engineVars
        /\ \E b : \/ SetTask(c, Started("settling", b, "event"))
                  \/ SetTask(c, [Started("interrupt", b, "cancel")
                                   EXCEPT !.n = 1])
                  \/ SetTask(c, Started("reprepare", b, "retry"))
    BY <1>4 DEF OnCompletion, CancelWithJob, RetryPreparation
  <2>2. TasksMove
    BY <1>1, <2>1, MovedMoves
  <2>3. RowsMove
    BY <2>1, RowsSame
  <2> QED
    BY <1>2, <2>1, <2>2, <2>3 DEF Moves
<1>5. CASE Settled(c)
  <2>1. /\ task[c].at = "settling" /\ Resolve(c, task[c], a)
        /\ UNCHANGED engineVars
    BY <1>5 DEF Settled, At
  <2> QED
    BY <1>1, <1>2, <1>3, <2>1, ResolveMoves DEF Moves
<1>6. CASE CancelRemembers(c)
  <2>1. /\ task[c].at = "remember" /\ CanAnswer(row[a].job)
        /\ UNCHANGED <<registering, dispatch>> /\ UNCHANGED engineVars
        /\ \/ SetTask(c, Idle)
           \/ SetTask(c, [task[c] EXCEPT !.at = "settling"])
        /\ \/ UNCHANGED row
           \/ /\ ~Terminal(row[a]) /\ HistoryOf(row[a].job) = "lost"
              /\ SetRow(a, Stopped(row[a]))
    BY <1>6 DEF CancelRemembers, At, SettledRow
  <2>2. [task[c] EXCEPT !.at = "settling"].at = "settling"
    BY <1>1 DEF TaskRecords
  <2>3. TasksMove
    BY <1>1, <2>1, <2>2, MovedMoves
  <2>4. RowsMove
    <3>1. CASE UNCHANGED row
      BY <2>1, <3>1, RowsSame
    <3>2. CASE /\ ~Terminal(row[a]) /\ HistoryOf(row[a].job) = "lost"
               /\ SetRow(a, Stopped(row[a]))
      <4>1. a \in Attempts /\ row[a].job \in Jobs /\ row[a].job # NoJob
            /\ jobOf[row[a].job] = a
        BY <1>3, <2>1 DEF CancelAwaits, Rows, OwnInv, RowInv, JobIsOwn
      <4>2. job[row[a].job] # "free"
        BY <4>1, NoAttemptAssumption DEF OwnInv, DispatchInv, FreeIsUnowned
      <4>3. job[row[a].job] = "gone"
        BY <1>1, <2>1, <3>2, <4>1, <4>2
           DEF HistoryOf, CanAnswer, Recorded, Queued, TypeOK, EngineTypeOK,
               JobStates, Records
      <4>4. \E x \in {"ready", "cancelled"} :
               /\ SetRow(a, SetExecution(row[a], x))
               /\ x = "ready" => Landed(row[a])
        BY <3>2 DEF Stopped
      <4>5. \A x \in {"ready", "cancelled"} :
               (x = "ready" => Landed(row[a])) => StateTo(a, [state |-> x])
        BY <3>2, <4>3 DEF StateTo, Unknown
      <4> QED
        BY <1>1, <2>1, <4>1, <4>4, <4>5, ExecutionMove
    <3> QED
      BY <2>1, <3>1, <3>2
  <2> QED
    BY <1>2, <2>1, <2>3, <2>4 DEF Moves
<1>7. CASE CancelThrows(c)
  <2>1. /\ task[c].at \in CancelAwaits /\ ~engineUp
        /\ SetRow(a, SetExecution(row[a], "reconciling"))
        /\ SetTask(c, Idle)
        /\ UNCHANGED registering /\ UNCHANGED engineVars
    BY <1>7 DEF CancelThrows, CancelAwaits
  <2>2. RowsMove
    BY <1>1, <1>3, <2>1, ExecutionMove DEF StateTo, CancelAwaits
  <2>3. TasksMove
    BY <1>1, <2>1, MovedMoves
  <2> QED
    BY <1>2, <2>1, <2>2, <2>3 DEF Moves
<1>8. ASSUME NEW p \in Prepared, Reprepared(c, p)
      PROVE  Moves
  <2> DEFINE s == SetPreparation(row[a], p)
  <2>1. /\ task[c].at = "reprepare" /\ SetRow(a, s) /\ SetTask(c, Idle)
        /\ UNCHANGED registering /\ UNCHANGED engineVars
    BY <1>8 DEF Reprepared, At
  <2>2. /\ a \in Attempts /\ row[a] \in Rows
        /\ Landed(row[a]) /\ row[a].job # NoJob
    BY <1>3, <2>1, LandedHasJob
  <2>3. /\ s.state = row[a].state /\ s.verdict = row[a].verdict
        /\ s.job = row[a].job /\ s.result = row[a].result
        /\ s.continuation = row[a].continuation
    BY <2>2 DEF SetPreparation, Rows
  <2> HIDE DEF s
  <2>4. PartTo(a, s) /\ CarryTo(a, s)
    BY <2>1, <2>2, <2>3
       DEF PartTo, StateTo, JobTo, ResultTo, PreparationTo, JoblessTo,
           VerdictTo, CarryTo
  <2>5. RowsMove
    BY <1>1, <2>1, <2>2, <2>4, RowsOne
  <2> QED
    BY <1>1, <1>2, <2>1, <2>5, MovedMoves DEF Moves
<1> QED
  BY <1>4, <1>5, <1>6, <1>7, <1>8, CancelDeposesMoves DEF CallStep

(* The accept of a prompt takes a free job. *)
LEMMA DeliveredMoves ==
    ASSUME OwnInv, AgreeInv, NEW a \in Attempts, NEW j \in Jobs, Delivered(a, j)
    PROVE  Moves
<1>1. /\ TypeInv /\ TypeOK /\ EngineInv
      /\ UNCHANGED <<row, registering, task>>
      /\ UNCHANGED <<ended, engineUp, outages>>
      /\ job[j] = "free"
  BY DEF OwnInv, TypeInv, AgreeInv, Delivered, AcceptPrompt
<1>2. \A i \in Jobs : \/ job'[i] = job[i] /\ jobOf'[i] = jobOf[i]
                      \/ /\ job[i] = "free" /\ job'[i] = "pending"
                         /\ ended[i] = "none"
  BY <1>1 DEF Delivered, AcceptPrompt, TypeOK, EngineTypeOK, EngineInv,
              RecordsStand, Records
<1>3. EngineMove
  BY <1>1, <1>2 DEF EngineInv, EngineMove, OutagesCounted,
                    CarryErrorsOfCarries, RecordsStand, Records
<1>4. TasksMove
  BY <1>1 DEF TasksMove, At
<1> QED
  BY <1>1, <1>3, <1>4, RowsSame DEF Moves

(* The dispatch writes the row it works for, which has no job. *)
LEMMA DispatchStepMoves ==
    ASSUME OwnInv, AgreeInv, NEW a \in Attempts, DispatchStep(a)
    PROVE  Moves
<1>1. dispatch[a].at # "idle"
  BY DEF DispatchStep, DispatchUploads, DispatchResolves, DispatchGate,
         DispatchRefused, DispatchThrows, Delivered, DispatchAcked,
         DispatchDeposes, DispatchAt
<1>2. /\ TypeInv /\ TypeOK /\ EngineInv
      /\ row[a] \in Rows /\ row[a].job = NoJob /\ ~Landed(row[a])
      /\ DOMAIN dispatch = Attempts
      /\ NoDispatch.at = "idle"
  BY <1>1, Dispatching DEF AgreeInv, TypeOK, NoDispatch
<1>3. UNCHANGED engineVars => EngineMove
  BY <1>2, EngineSame
<1>4. UNCHANGED task => TasksMove
  BY DEF TasksMove, At
<1>5. EndDispatch(a) => dispatch'[a].at = "idle"
  BY <1>2 DEF EndDispatch
<1>6. CASE DispatchUploads(a) \/ DispatchResolves(a)
  BY <1>3, <1>4, <1>6, RowsSame
     DEF DispatchUploads, DispatchResolves, DispatchGate, Moves
<1>7. CASE DispatchRefused(a)
  <2>1. /\ Terminal(row[a]) => dispatch[a].at \in {"resolve", "send"}
        /\ SetRow(a, SetExecution(row[a], "failed"))
        /\ dispatch'[a].at = "idle"
        /\ UNCHANGED <<registering, task>> /\ UNCHANGED engineVars
    BY <1>5, <1>7 DEF DispatchRefused, DispatchAt
  <2>2. RowsMove
    BY <1>2, <2>1, ExecutionMove DEF StateTo, Agreed
  <2> QED
    BY <1>3, <1>4, <2>1, <2>2 DEF Moves
<1>8. CASE DispatchThrows(a)
  <2>1. /\ ~engineUp /\ dispatch'[a].at = "idle"
        /\ \E v \in {"never-delivered", "uncertain"} :
              /\ SetRow(a, SetVerdict(row[a], v))
              /\ v = "never-delivered" =>
                    dispatch[a].at \in {"upload", "resolve"}
        /\ UNCHANGED <<registering, task>> /\ UNCHANGED engineVars
    BY <1>5, <1>8 DEF DispatchThrows
  <2>2. PICK v \in {"never-delivered", "uncertain"} :
              /\ SetRow(a, SetVerdict(row[a], v))
              /\ v = "never-delivered" =>
                    dispatch[a].at \in {"upload", "resolve"}
    BY <2>1
  <2> DEFINE s == SetVerdict(row[a], v)
  <2>3. /\ s.state = "reconciling" /\ s.verdict = v /\ s.job = row[a].job
        /\ s.result = row[a].result /\ s.preparation = row[a].preparation
        /\ s.continuation = row[a].continuation
    BY <1>2 DEF SetVerdict, Rows
  <2>4. SetRow(a, s)
    BY <2>2
  <2> HIDE DEF s
  <2>5. PartTo(a, s) /\ CarryTo(a, s)
    BY <2>1, <2>2, <2>3
       DEF PartTo, StateTo, JobTo, ResultTo, PreparationTo, JoblessTo,
           VerdictTo, CarryTo
  <2>6. RowsMove
    BY <1>2, <2>1, <2>4, <2>5, RowsOne
  <2> QED
    BY <1>3, <1>4, <2>1, <2>6 DEF Moves
<1>9. CASE DispatchAcked(a)
  <2>1. UNCHANGED <<registering>> /\ UNCHANGED engineVars
    BY <1>9 DEF DispatchAcked
  <2>2. CASE Terminal(row[a])
    BY <1>3, <1>4, <1>9, <2>1, <2>2, RowsSame DEF DispatchAcked, Moves
  <2>3. CASE ~Terminal(row[a])
    <3> DEFINE s == SetJob(row[a], "queued", dispatch[a].job)
    <3>1. /\ SetRow(a, s) /\ SetTask(a, Watching(a))
          /\ dispatch'[a].at = "idle"
      BY <1>5, <1>9, <2>3 DEF DispatchAcked
    <3>2. /\ s.state = "queued" /\ s.verdict = "none"
          /\ s.result = row[a].result /\ s.preparation = row[a].preparation
          /\ s.continuation = row[a].continuation
      BY <1>2 DEF SetJob, SetExecution, Rows
    <3> HIDE DEF s
    <3>3. PartTo(a, s) /\ CarryTo(a, s)
      BY <1>2, <2>1, <2>3, <3>1, <3>2
         DEF PartTo, StateTo, JobTo, ResultTo, PreparationTo, JoblessTo,
             VerdictTo, CarryTo, TerminalStates
    <3>4. RowsMove
      BY <1>2, <2>1, <3>1, <3>3, RowsOne
    <3>5. a \in Tasks /\ a # Sweep /\ Watching(a).at = "history"
      BY TasksAssumption DEF Tasks, Watching, Started, Idle
    <3>6. TasksMove
      BY <1>2, <3>1, <3>5, SetTaskMoves
    <3> QED
      BY <1>3, <2>1, <3>4, <3>6 DEF Moves
  <2> QED
    BY <2>2, <2>3
<1>10. CASE DispatchDeposes(a)
  <2>1. /\ UNCHANGED <<row, registering, task>>
        /\ UNCHANGED <<jobOf, ended, engineUp, outages>> /\ UNCHANGED carryFile
        /\ UNCHANGED job \/ Dequeued(dispatch[a].job)
    BY <1>10 DEF DispatchDeposes
  <2>2. EngineMove
    BY <1>2, <1>3, <2>1, DequeuedMove DEF engineVars
  <2> QED
    BY <1>4, <2>1, <2>2, RowsSame DEF Moves
<1> QED
  BY <1>6, <1>7, <1>8, <1>9, <1>10, DeliveredMoves DEF DispatchStep

(* The steps of an attempt: a submission, its dispatch, its watcher, hints *)
(* of the feed, and its carry. *)
LEMMA AttemptStepMoves ==
    ASSUME OwnInv, AgreeInv, NEW a \in Attempts, AttemptStep(a)
    PROVE  Moves
<1>1. /\ TypeInv /\ TypeOK /\ EngineInv /\ row[a] \in Rows
      /\ DOMAIN dispatch = Attempts
  BY DEF OwnInv, TypeInv, TypeOK, AgreeInv
<1>2. UNCHANGED engineVars => EngineMove
  BY <1>1, EngineSame
<1>3. UNCHANGED task => TasksMove
  BY DEF TasksMove, At
<1>4. CASE Submit(a)
  <2>1. /\ row[a].state = "none" /\ SetRow(a, RecordAttempt)
        /\ UNCHANGED <<registering, task>> /\ UNCHANGED engineVars
    BY <1>4 DEF Submit
  <2>2. row[a] = NoRow
    BY <2>1 DEF OwnInv, RowInv, UnrecordedIsBlank
  <2>3. PartTo(a, RecordAttempt) /\ CarryTo(a, RecordAttempt)
    BY <2>1, <2>2
       DEF PartTo, StateTo, JobTo, ResultTo, PreparationTo, JoblessTo,
           VerdictTo, CarryTo, RecordAttempt, NoRow, Terminal, TerminalStates
  <2>4. RowsMove
    BY <1>1, <2>1, <2>3, RowsOne
  <2> QED
    BY <1>2, <1>3, <2>1, <2>4 DEF Moves
<1>5. CASE PollTick(a)
  <2>1. /\ a \in Tasks /\ task[a].at = "poll" /\ Resolve(a, task[a], a)
        /\ UNCHANGED engineVars
    BY <1>5 DEF PollTick, At, Tasks
  <2>2. task[a] # Idle /\ task[a] \in TaskRecords
    BY <1>1, <2>1, AwaitsKnown
  <2> QED
    BY <1>2, <2>1, <2>2, ResolveMoves DEF Moves
<1>6. CASE OnProgress(a)
  <2>1. /\ row[a].job # NoJob /\ ~Terminal(row[a])
        /\ SetRow(a, SetExecution(row[a], "rendering"))
        /\ UNCHANGED <<registering, task>> /\ UNCHANGED engineVars
    BY <1>6 DEF OnProgress
  <2>2. RowsMove
    BY <1>1, <2>1, ExecutionMove DEF StateTo
  <2> QED
    BY <1>2, <1>3, <2>1, <2>2 DEF Moves
<1>7. CASE CancelWithoutJob(a)
  <2>1. /\ row[a].job = NoJob /\ InFlight(row[a])
        /\ SetRow(a, SetExecution(row[a], "cancelled"))
        /\ UNCHANGED <<registering, task>> /\ UNCHANGED engineVars
    BY <1>7 DEF CancelWithoutJob
  <2>2. ~Terminal(row[a])
    BY <2>1 DEF InFlight, InFlightStates, Terminal, TerminalStates
  <2>3. RowsMove
    BY <1>1, <2>1, <2>2, ExecutionMove DEF StateTo, Agreed
  <2> QED
    BY <1>2, <1>3, <2>1, <2>3 DEF Moves
<1>8. CASE RetryRegistration(a)
  <2>1. /\ KickCarry(a, row[a]) /\ Landed(row[a])
        /\ UNCHANGED task /\ UNCHANGED engineVars
    BY <1>8 DEF RetryRegistration, CarryDue, ContinuationPending
  <2>2. RowsMove
    BY <1>1, <2>1, LandedHasJob, PartSame, KickMove
  <2> QED
    BY <1>2, <1>3, <2>1, <2>2 DEF Moves
<1>9. ASSUME NEW c \in {"ready", "not-produced", "registering"},
             Registers(a, c)
      PROVE  Moves
  <2> DEFINE s == SetContinuation(row[a], c)
  <2>1. /\ a \in registering /\ SetRow(a, s)
        /\ registering' = registering \ {a}
        /\ UNCHANGED task /\ UNCHANGED engineVars
    BY <1>9 DEF Registers
  <2>2. /\ Landed(row[a]) /\ a \in Carry /\ row[a].job # NoJob
    BY <2>1, LandedHasJob
       DEF OwnInv, RegisteringHasLanded, AgreeInv, ReadinessIsLayered
  <2>3. /\ s.state = row[a].state /\ s.verdict = row[a].verdict
        /\ s.job = row[a].job /\ s.result = row[a].result
        /\ s.preparation = row[a].preparation /\ s.continuation = c
    BY <1>1 DEF SetContinuation, Rows
  <2> HIDE DEF s
  <2>4. PartTo(a, s) /\ CarryTo(a, s)
    BY <1>9, <2>1, <2>2, <2>3
       DEF PartTo, StateTo, JobTo, ResultTo, PreparationTo, JoblessTo,
           VerdictTo, CarryTo
  <2>5. RowsMove
    BY <1>1, <2>1, <2>4, RowsOne
  <2> QED
    BY <1>2, <1>3, <2>1, <2>5 DEF Moves
<1>10. CASE CarryRegistered(a) \/ CarryNotProduced(a) \/ CarryExhausted(a)
  BY <1>9, <1>10 DEF CarryRegistered, CarryNotProduced, CarryExhausted
<1>11. CASE RemoveTarget(a)
  BY <1>2, <1>3, <1>11, RowsSame DEF RemoveTarget, Moves
<1> QED
  BY <1>4, <1>5, <1>6, <1>7, <1>8, <1>10, <1>11, DispatchStepMoves
     DEF AttemptStep

(* The boot sweep writes the rows it visits. *)
LEMMA SweepStepMoves ==
    ASSUME OwnInv, AgreeInv, SweepStep
    PROVE  Moves
<1> DEFINE a == task[Sweep].att
<1>1. /\ ~At(Sweep, "idle") /\ UNCHANGED engineVars
  BY DEF SweepStep, SweepVisits, SweepFinds, SweepMisses, SweepUncertain,
         SweepRedispatches, SweepInterrupts, SweepRedispatched, SweepEnds, At
<1>2. /\ TypeInv /\ TypeOK /\ EngineInv
      /\ Sweep \in Tasks /\ task[Sweep] # Idle
      /\ task[Sweep] \in TaskRecords
  BY <1>1, Sweeping DEF AgreeInv, At, Idle
<1>3. EngineMove
  BY <1>1, <1>2, EngineSame
<1>4. /\ Idle.at = "idle" /\ NextOfSweep.at = "next"
      /\ \A at, b, by : Started(at, b, by).at = at
      /\ \A at, b, by, v : [Started(at, b, by) EXCEPT !.saw = v].at = at
  BY DEF Idle, NextOfSweep, Started
<1>5. ASSUME NEW w, SetTask(Sweep, w), w.at # "answered"
      PROVE  TasksMove
  BY <1>1, <1>2, <1>5, SetTaskMoves
<1>6. ASSUME NEW b \in Attempts, SweepVisits(b)
      PROVE  Moves
  <2>1. CASE row[b].job = NoJob
    BY <1>3, <1>4, <1>5, <1>6, <2>1, RowsSame DEF SweepVisits, Moves
  <2>2. CASE row[b].job # NoJob
    <3>1. Started("next", b, "sweep") \in TaskRecords
      BY TaskType DEF Awaits, Kinds
    <3>2. Resolve(Sweep, Started("next", b, "sweep"), b)
      BY <1>6, <2>2 DEF SweepVisits
    <3> QED
      BY <1>2, <1>3, <3>1, <3>2, ResolveMoves DEF Moves
  <2> QED
    BY <2>1, <2>2
<1>7. ASSUME NEW j \in Jobs, SweepFinds(j)
      PROVE  Moves
  <2> DEFINE s == SetJob(row[a], "reconciling", j)
  <2>1. /\ task[Sweep].at = "find" /\ SetRow(a, s)
        /\ SetTask(Sweep, Started("history", a, "sweep"))
        /\ UNCHANGED <<registering, dispatch>>
    BY <1>7 DEF SweepFinds, At
  <2>2. /\ a \in Attempts /\ row[a] \in Rows /\ row[a].job = NoJob
        /\ dispatch[a].at = "idle"
    BY <1>1, <2>1, Sweeping DEF SweepAwaits, WithoutJob, At
  <2>3. /\ s.state = "reconciling" /\ s.verdict = "none"
        /\ s.result = row[a].result /\ s.preparation = row[a].preparation
        /\ s.continuation = row[a].continuation
    BY <2>2 DEF SetJob, SetExecution, Rows
  <2> HIDE DEF s
  <2>4. PartTo(a, s) /\ CarryTo(a, s)
    BY <1>1, <2>1, <2>2, <2>3
       DEF PartTo, StateTo, JobTo, ResultTo, PreparationTo, JoblessTo,
           VerdictTo, CarryTo, TerminalStates, At
  <2>5. RowsMove
    BY <1>2, <2>1, <2>2, <2>4, RowsOne
  <2> QED
    BY <1>3, <1>4, <1>5, <2>1, <2>5 DEF Moves
<1>8. CASE SweepMisses
  <2> DEFINE w == [Started("queue", a, "sweep") EXCEPT !.saw = row[a].verdict]
  <2>1. /\ SetTask(Sweep, w) \/ SetTask(Sweep, NextOfSweep)
        /\ UNCHANGED <<row, registering>>
    BY <1>8 DEF SweepMisses
  <2>2. w.at = "queue"
    BY <1>4
  <2> HIDE DEF w
  <2> QED
    BY <1>3, <1>4, <1>5, <2>1, <2>2, RowsSame DEF Moves
<1>9. CASE SweepUncertain \/ SweepInterrupts
  <2>1. /\ task[Sweep].at = "queue" /\ SetTask(Sweep, NextOfSweep)
        /\ \E x \in {"reconciling", "interrupted"} :
              SetRow(a, SetExecution(row[a], x))
        /\ UNCHANGED <<registering, dispatch>>
    BY <1>9 DEF SweepUncertain, SweepInterrupts, At
  <2>2. /\ a \in Attempts /\ row[a] \in Rows /\ row[a].job = NoJob
        /\ dispatch[a].at = "idle"
    BY <1>1, <2>1, Sweeping DEF SweepAwaits, WithoutJob, At
  <2>3. RowsMove
    BY <1>1, <1>2, <2>1, <2>2, ExecutionMove DEF StateTo, Unknown, At
  <2> QED
    BY <1>3, <1>4, <1>5, <2>1, <2>3 DEF Moves
<1>10. CASE SweepRedispatches
  <2> DEFINE w == [task[Sweep] EXCEPT !.at = "redispatch", !.saw = "none"]
  <2>1. SetTask(Sweep, w) /\ UNCHANGED <<row, registering>>
    BY <1>10 DEF SweepRedispatches
  <2>2. w.at = "redispatch"
    BY <1>2 DEF TaskRecords
  <2> QED
    BY <1>3, <1>5, <2>1, <2>2, RowsSame DEF Moves
<1>11. CASE SweepRedispatched
  BY <1>3, <1>4, <1>5, <1>11, RowsSame DEF SweepRedispatched, Moves
<1>12. CASE SweepEnds
  <2> DEFINE due == {b \in Attempts : CarryDue(b, row[b])}
  <2>1. /\ row' = [b \in Attempts |->
                     IF b \in due THEN SetContinuation(row[b], "registering")
                                  ELSE row[b]]
        /\ registering' = registering \cup due
        /\ SetTask(Sweep, Idle)
    BY <1>12 DEF SweepEnds
  <2>2. ASSUME NEW b \in Attempts
        PROVE  PartTo(b, row'[b]) /\ CarryTo(b, row'[b])
    <3>1. CASE b \in due
      <4> DEFINE s == SetContinuation(row[b], "registering")
      <4>1. row'[b] = s /\ Landed(row[b]) /\ b \in Carry
        BY <2>1, <3>1 DEF CarryDue, ContinuationPending
      <4>2. row[b] \in Rows /\ row[b].job # NoJob
        BY <1>2, <4>1, LandedHasJob DEF TypeOK
      <4>3. /\ s.state = row[b].state /\ s.verdict = row[b].verdict
            /\ s.job = row[b].job /\ s.result = row[b].result
            /\ s.preparation = row[b].preparation
            /\ s.continuation = "registering"
        BY <4>2 DEF SetContinuation, Rows
      <4> HIDE DEF s
      <4> QED
        BY <4>1, <4>2, <4>3
           DEF PartTo, StateTo, JobTo, ResultTo, PreparationTo, JoblessTo,
               VerdictTo, CarryTo
    <3>2. CASE b \notin due
      BY <2>1, <3>2, PartSame DEF CarryTo
    <3> QED
      BY <3>1, <3>2
  <2>3. RowsMove
    BY <2>2 DEF RowsMove
  <2> QED
    BY <1>3, <1>4, <1>5, <2>1, <2>3 DEF Moves
<1> QED
  BY <1>6, <1>7, <1>8, <1>9, <1>10, <1>11, <1>12 DEF SweepStep

(* So does every step. *)
LEMMA NextMoves ==
    ASSUME OwnInv, AgreeInv, [Next]_vars
    PROVE  Moves
<1>1. TypeInv /\ TypeOK /\ EngineInv
  BY DEF OwnInv, TypeInv, AgreeInv
<1>2. CASE EngineStep /\ UNCHANGED ownerVars
  <2>1. UNCHANGED <<row, registering, task>>
    BY <1>2 DEF ownerVars
  <2> QED
    BY <1>1, <1>2, <2>1, EngineStepMoves, RowsSame DEF Moves, TasksMove, At
<1>3. CASE Crash
  <2>1. /\ UNCHANGED row /\ UNCHANGED engineVars
        /\ \A t \in Tasks : task'[t].at = "idle"
        /\ registering' \subseteq registering
    BY <1>3 DEF Crash, Idle
  <2> QED
    BY <1>1, <2>1, EngineSame, RowsSame DEF Moves, TasksMove, Tasks
<1>4. CASE Boot
  <2>1. /\ UNCHANGED <<row, registering>> /\ UNCHANGED engineVars
        /\ ~serverUp /\ SetTask(Sweep, NextOfSweep)
    BY <1>4 DEF Boot
  <2>2. \A t \in Tasks : task'[t] = task[t] \/ task'[t].at = "next"
    BY <1>1, <2>1 DEF SetTask, TypeOK, NextOfSweep, Started, Idle
  <2>3. TasksMove
    BY <2>1, <2>2 DEF TasksMove
  <2> QED
    BY <1>1, <2>1, <2>3, EngineSame, RowsSame DEF Moves
<1>5. CASE UNCHANGED vars
  BY <1>1, <1>5, EngineSame, RowsSame DEF Moves, TasksMove, At, vars, ownerVars
<1> QED
  BY <1>2, <1>3, <1>4, <1>5, ResolveStepMoves, CallStepMoves,
     AttemptStepMoves, SweepStepMoves
     DEF Next

-----------------------------------------------------------------------------
(***************************************************************************)
(* The moves preserve the agreement.                                       *)
(***************************************************************************)

(* What stood still stands. *)
LEMMA StandsOn ==
    ASSUME EngineMove, NEW j \in Jobs, NEW s \in Records, Stands(j, s)
    PROVE  Stands(j, s)'
BY DEF EngineMove, Stands, Records

(* A row's job stays in its column, and its clip lands as its job. *)
LEMMA RowJobKept ==
    ASSUME OwnInv, OwnInv', JobIsKept, RowsMove, NEW a \in Attempts
    PROVE  /\ row[a].job # NoJob =>
                 row'[a].job = row[a].job /\ row[a].job \in Jobs
           /\ Landed(row[a]) => Landed(row'[a])
           /\ Landed(row'[a]) =>
                 /\ row[a].job # NoJob
                 /\ Landed(row[a]) \/ (Clipped(a) /\ ToldOfClips(a))
<1>1. /\ PartTo(a, row'[a]) /\ row[a] \in Rows
      /\ Landed(row[a]) => row[a].result = row[a].job
  BY DEF RowsMove, OwnInv, TypeInv, TypeOK, RowInv, JobIsOwn
<1> QED
  BY <1>1 DEF JobIsKept, PartTo, ResultTo, Landed, Rows

(* An answer that was just given is the engine's record, which is what     *)
(* anyone was told before.                                                 *)
LEMMA AskedTells ==
    ASSUME OwnInv, AgreeInv, NEW w, Asked(w)
    PROVE  LET j == row[w.att].job IN
           /\ w.att \in Attempts /\ j \in Jobs
           /\ w.saw \in Answers
           /\ w.saw \in Records => job[j] = w.saw
           /\ w.saw = "lost" => job[j] = "gone"
           /\ \A u \in Tasks : Told(u, w.att) /\ w.saw \in Records =>
                 task[u].saw = w.saw
           /\ Landed(row[w.att]) /\ w.saw \in Records => w.saw \in Clips
<1> DEFINE a == w.att
           j == row[a].job
<1>1. a \in Attempts /\ j # NoJob /\ job[j] # "closing" /\ w.saw = HistoryOf(j)
  BY DEF Asked, CanAnswer
<1>2. j \in Jobs /\ jobOf[j] = a
  BY <1>1 DEF OwnInv, TypeInv, TypeOK, Rows, RowInv, JobIsOwn
<1>3. job[j] # "free"
  BY <1>1, <1>2, NoAttemptAssumption DEF OwnInv, DispatchInv, FreeIsUnowned
<1>4. job[j] \in JobStates
  BY <1>2 DEF OwnInv, TypeInv, TypeOK, EngineTypeOK
<1>5. /\ w.saw \in Answers
      /\ w.saw \in Records => job[j] = w.saw
      /\ w.saw = "lost" => job[j] = "gone"
  BY <1>1, <1>3, <1>4
     DEF HistoryOf, Recorded, Queued, Answers, Records, JobStates
<1>6. ASSUME NEW u \in Tasks, Told(u, a), w.saw \in Records
      PROVE  task[u].saw = w.saw
  <2>1. Stands(j, task[u].saw)
    BY <1>6 DEF AgreeInv, AnswersStand, AnswerStands, Told
  <2> QED
    BY <1>2, <1>5, <1>6, <2>1 DEF Stands, AgreeInv, EngineInv, RecordsStand
<1>7. ASSUME Landed(row[a]), w.saw \in Records
      PROVE  w.saw \in Clips
  <2>1. Clipped(a)
    BY <1>1, <1>7 DEF AgreeInv, LandedStands
  <2> QED
    BY <1>2, <1>5, <1>7, <2>1 DEF Clipped, Stands, AgreeInv, EngineInv,
                                  RecordsStand
<1> QED
  BY <1>1, <1>2, <1>5, <1>6, <1>7

(* The answers held after the step. *)
LEMMA AnswersMove ==
    ASSUME OwnInv, OwnInv', JobIsKept, AgreeInv, Moves
    PROVE  AnswersStand' /\ AnswersMatch'
<1>1. EngineMove /\ RowsMove /\ TasksMove
  BY DEF Moves
<1>2. ASSUME NEW t \in Tasks, task'[t].at = "answered"
      PROVE  AnswerStands(t)'
  <2> DEFINE w == task'[t]
             j == row[w.att].job
  <2>1. task'[t] = task[t] \/ Asked(w)
    BY <1>1, <1>2 DEF TasksMove
  <2>2. /\ w.att \in Attempts /\ j \in Jobs
        /\ w.saw \in Answers
        /\ w.saw \in Records => Stands(j, w.saw)
        /\ w.saw = "lost" => job[j] = "gone"
    BY <1>2, <2>1, AnswerTells, AskedTells
       DEF AnswerStands, Stands, AgreeInv, EngineInv, RecordsStand
  <2>3. row'[w.att].job = j
    BY <1>1, <2>2, RowJobKept, NoJobAssumption
  <2>4. /\ w.saw \in Records => ended'[j] = w.saw
        /\ w.saw = "lost" => job'[j] = "gone"
    BY <1>1, <2>2 DEF EngineMove, Stands, Records
  <2> QED
    BY <2>2, <2>3, <2>4 DEF AnswerStands, Stands
<1>3. AnswersStand'
  BY <1>2 DEF AnswersStand, AnswerStands, Tasks
<1>4. ASSUME NEW a \in Attempts, NEW t \in Tasks, NEW u \in Tasks,
             Told(t, a)', Told(u, a)'
      PROVE  task'[t].saw = task'[u].saw
  <2>1. /\ task'[t].att = a /\ task'[t].saw \in Records
        /\ task'[u].att = a /\ task'[u].saw \in Records
        /\ task'[t] = task[t] => Told(t, a)
        /\ task'[u] = task[u] => Told(u, a)
        /\ task'[t] = task[t] \/ Asked(task'[t])
        /\ task'[u] = task[u] \/ Asked(task'[u])
    BY <1>1, <1>4 DEF TasksMove, Told
  <2>2. CASE Asked(task'[t]) /\ Asked(task'[u])
    BY <2>1, <2>2 DEF Asked
  <2>3. CASE Asked(task'[t]) /\ task'[u] = task[u]
    BY <2>1, <2>3, AskedTells
  <2>4. CASE Asked(task'[u]) /\ task'[t] = task[t]
    BY <2>1, <2>4, AskedTells
  <2>5. CASE task'[u] = task[u] /\ task'[t] = task[t]
    BY <2>1, <2>5 DEF AgreeInv, AnswersMatch
  <2> QED
    BY <2>1, <2>2, <2>3, <2>4, <2>5
<1>5. AnswersMatch'
  BY <1>4 DEF AnswersMatch, Tasks
<1> QED
  BY <1>3, <1>5

(* The clips on record after the step. *)
LEMMA LandedMove ==
    ASSUME OwnInv, OwnInv', JobIsKept, AgreeInv, Moves
    PROVE  LandedStands'
<1> SUFFICES ASSUME NEW a \in Attempts, Landed(row'[a])
             PROVE  Clipped(a)' /\ ToldOfClips(a)'
  BY DEF LandedStands
<1>1. EngineMove /\ RowsMove /\ TasksMove
  BY DEF Moves
<1>2. /\ row[a].job \in Jobs /\ row'[a].job = row[a].job
      /\ Clipped(a) /\ ToldOfClips(a)
  BY <1>1, RowJobKept DEF AgreeInv, LandedStands
<1>3. Clipped(a)'
  BY <1>1, <1>2, StandsOn DEF Clipped, Clips, Records
<1>4. ASSUME NEW t \in Tasks, Told(t, a)'
      PROVE  task'[t].saw \in Clips
  <2>1. /\ task'[t].att = a /\ task'[t].saw \in Records
        /\ task'[t] = task[t] => Told(t, a)
        /\ task'[t] = task[t] \/ Asked(task'[t])
    BY <1>1, <1>4 DEF TasksMove, Told
  <2>2. CASE task'[t] = task[t]
    BY <1>2, <2>1, <2>2 DEF ToldOfClips
  <2>3. CASE Asked(task'[t])
    <3>1. job[row[a].job] = task'[t].saw
      BY <2>1, <2>3, AskedTells
    <3> QED
      BY <1>2, <2>1, <3>1 DEF Clipped, Stands, AgreeInv, EngineInv, RecordsStand
  <2> QED
    BY <2>1, <2>2, <2>3
<1> QED
  BY <1>3, <1>4 DEF ToldOfClips, Tasks

(* Settled rows after the step. *)
LEMMA EngineAgreesMove ==
    ASSUME OwnInv, OwnInv', JobIsKept, AgreeInv, LandedStands', Moves
    PROVE  EngineAgrees'
<1> SUFFICES ASSUME NEW a \in Attempts, row'[a].job # NoJob
             PROVE  LET r == row'[a] IN
                    /\ Landed(r) => ended'[r.job] \in {"done", "carryErrorOut"}
                    /\ r.state = "failed" =>
                          ended'[r.job] \in {"empty", "error", "carryError"}
                    /\ r.state = "cancelled" =>
                          \/ ended'[r.job] = "interrupted"
                          \/ job'[r.job] = "gone"
                    /\ r.state = "interrupted" => job'[r.job] = "gone"
  BY DEF EngineAgrees
<1>1. EngineMove /\ RowsMove /\ PartTo(a, row'[a])
  BY DEF Moves, RowsMove
<1>2. Landed(row'[a]) => ended'[row'[a].job] \in {"done", "carryErrorOut"}
  BY DEF LandedStands, Clipped, Clips, Stands
<1>3. CASE row[a].job = NoJob
  BY <1>1, <1>2, <1>3 DEF PartTo, JobTo, TerminalStates
<1>4. CASE row[a].job # NoJob
  <2> DEFINE j == row[a].job
  <2>1. row'[a].job = j /\ j \in Jobs
    BY <1>1, <1>4, RowJobKept
  <2>2. ASSUME NEW S \in SUBSET Records, Agreed(j, S)
        PROVE  ended'[j] \in S
    BY <1>1, <1>4, <2>1, <2>2 DEF Agreed, EngineMove, Records
  <2>3. Unknown(j) => job'[j] = "gone"
    BY <1>1, <1>4, <2>1 DEF Unknown, EngineMove
  <2>4. /\ row[a].state = "failed" =>
              Agreed(j, {"empty", "error", "carryError"})
        /\ row[a].state = "cancelled" =>
              Agreed(j, {"interrupted"}) \/ Unknown(j)
        /\ row[a].state = "interrupted" => Unknown(j)
    BY <1>4 DEF AgreeInv, EngineAgrees, Agreed, Unknown
  <2>5. /\ row'[a].state = "failed" =>
              Agreed(j, {"empty", "error", "carryError"})
        /\ row'[a].state = "cancelled" =>
              Agreed(j, {"interrupted"}) \/ Unknown(j)
        /\ row'[a].state = "interrupted" => Unknown(j)
    BY <1>1, <2>4 DEF PartTo, StateTo
  <2>6. /\ row'[a].state = "failed" =>
              ended'[j] \in {"empty", "error", "carryError"}
        /\ row'[a].state = "cancelled" =>
              ended'[j] = "interrupted" \/ job'[j] = "gone"
        /\ row'[a].state = "interrupted" => job'[j] = "gone"
    BY <2>2, <2>3, <2>5 DEF Records
  <2> QED
    BY <1>2, <2>1, <2>6
<1> QED
  BY <1>3, <1>4

(* Readiness after the step. *)
LEMMA ReadinessMove ==
    ASSUME OwnInv, OwnInv', JobIsKept, AgreeInv, Moves
    PROVE  ReadinessIsLayered'
<1> SUFFICES ASSUME NEW a \in Attempts
             PROVE  LET r == row'[a] IN
                    /\ r.state = "ready" => Landed(r)
                    /\ r.preparation # "pending" => Landed(r)
                    /\ r.continuation \in {"registering", "ready"} => Landed(r)
                    /\ r.continuation # "absent" => a \in Carry
                    /\ a \in registering' => r.continuation = "registering"
  BY DEF ReadinessIsLayered
<1>1. PartTo(a, row'[a]) /\ CarryTo(a, row'[a])
  BY DEF Moves, RowsMove
<1>2. Landed(row[a]) => Landed(row'[a])
  BY RowJobKept DEF Moves
<1>3. /\ row[a].state = "ready" => Landed(row[a])
      /\ row[a].preparation # "pending" => Landed(row[a])
      /\ row[a].continuation \in {"registering", "ready"} => Landed(row[a])
      /\ row[a].continuation # "absent" => a \in Carry
      /\ a \in registering => row[a].continuation = "registering"
  BY DEF AgreeInv, ReadinessIsLayered
<1>4. row'[a].state = "ready" => Landed(row[a])
  BY <1>1, <1>3 DEF PartTo, StateTo
<1>5. row'[a].preparation # "pending" => Landed(row[a])
  BY <1>1, <1>3 DEF PartTo, PreparationTo
<1>6. /\ row'[a].continuation \in {"registering", "ready"} => Landed(row[a])
      /\ row'[a].continuation # "absent" => a \in Carry
      /\ a \in registering' => row'[a].continuation = "registering"
  BY <1>1, <1>3 DEF CarryTo
<1> QED
  BY <1>2, <1>4, <1>5, <1>6

(* The agreement holds initially. *)
LEMMA AgreeInit == Init => AgreeInv
<1> SUFFICES ASSUME Init
             PROVE  AgreeInv
  OBVIOUS
<1>1. /\ \A t \in Tasks : task[t].at = "idle"
      /\ \A a \in Attempts : row[a] = NoRow
      /\ \A j \in Jobs : job[j] = "free" /\ ended[j] = "none"
      /\ engineUp /\ registering = {}
  BY DEF Init, EngineInit, Idle
<1>2. /\ NoRow.state = "none" /\ NoRow.job = NoJob /\ ~Landed(NoRow)
      /\ NoRow.preparation = "pending" /\ NoRow.continuation = "absent"
  BY DEF NoRow, Landed
<1>3. EngineInv /\ AnswersStand /\ AnswersMatch
  BY <1>1 DEF EngineInv, OutagesCounted, CarryErrorsOfCarries, RecordsStand,
              Records, AnswersStand, AnswerStands, AnswersMatch, Told
<1>4. LandedStands /\ EngineAgrees /\ ReadinessIsLayered
  BY <1>1, <1>2 DEF LandedStands, EngineAgrees, ReadinessIsLayered
<1> QED
  BY <1>3, <1>4 DEF AgreeInv

(* The agreement is inductive, over the ownership.                         *)
LEMMA AgreeStep ==
    OwnInv /\ AgreeInv /\ [Next]_vars => OwnInv' /\ AgreeInv' /\ Moves
<1> SUFFICES ASSUME OwnInv, AgreeInv, [Next]_vars
             PROVE  OwnInv' /\ AgreeInv' /\ Moves
  OBVIOUS
<1>1. OwnInv' /\ JobIsKept /\ Moves
  BY OwnStep, NextMoves
<1>2. EngineInv'
  BY <1>1 DEF Moves, EngineMove, EngineInv
<1>3. LandedStands'
  BY <1>1, LandedMove
<1> QED
  BY <1>1, <1>2, <1>3, AnswersMove, EngineAgreesMove, ReadinessMove
     DEF AgreeInv

(* The agreement of every reachable state. *)
LEMMA AgreeAlways == Spec => [](OwnInv /\ AgreeInv)
BY OwnInit, AgreeInit, AgreeStep, PTL DEF Spec

-----------------------------------------------------------------------------
(* A settled row agrees with what the engine recorded of its job, unless   *)
(* the engine has forgotten it: no order of watcher, events, cancel and    *)
(* sweep makes a failure of a clip or a clip of a failure.                 *)
THEOREM EngineStaysAgreed == Spec => []EngineAgrees
<1>1. AgreeInv => EngineAgrees
  BY DEF AgreeInv
<1> QED
  BY <1>1, AgreeAlways, PTL

(* No row is ready, has a prepared frame or a carry to speak of before its *)
(* clip landed, though the three are written by different tasks.           *)
THEOREM ReadinessStaysLayered == Spec => []ReadinessIsLayered
<1>1. AgreeInv => ReadinessIsLayered
  BY DEF AgreeInv
<1> QED
  BY <1>1, AgreeAlways, PTL

(* A ready row leaves ready for reconciling or not at all: late answers,   *)
(* cancels and dispatches that act on an older reading find it settled.    *)
THEOREM ReadyStaysReady == Spec => ReadyIsNotUndone
<1>1. ASSUME OwnInv, AgreeInv, [Next]_vars,
             NEW a \in Attempts, row[a].state = "ready"
      PROVE  row'[a].state \in {"ready", "reconciling"}
  <2>1. StateTo(a, row'[a])
    BY <1>1, NextMoves DEF Moves, RowsMove, PartTo
  <2>2. row[a].job # NoJob
    BY <1>1, LandedHasJob DEF AgreeInv, ReadinessIsLayered
  <2>3. Terminal(row[a])
    BY <1>1 DEF Terminal, TerminalStates
  <2> QED
    BY <1>1, <2>1, <2>2, <2>3 DEF StateTo
<1>2. OwnInv /\ AgreeInv /\ [Next]_vars =>
         [\A a \in Attempts :
             row[a].state = "ready" =>
                 row'[a].state \in {"ready", "reconciling"}]_vars
  BY <1>1
<1> QED
  BY <1>2, AgreeAlways, PTL DEF Spec, ReadyIsNotUndone

-----------------------------------------------------------------------------
(***************************************************************************)
(* What a crash costs: the boot sweep runs only after one, and each prompt *)
(* but the first was paid with one.                                        *)
(***************************************************************************)
SweepCosts == ~serverUp \/ ~At(Sweep, "idle") => crashes > 0

(* A dispatched row is pending or was cancelled meanwhile. *)
DispatchHolds ==
    \A a \in Attempts :
        /\ dispatch[a].at # "idle" =>
              row[a].state \in InFlightStates \cup {"cancelled"}
        /\ dispatch[a].at = "depose" => Terminal(row[a])

(* Attempt a may be sent again, and is about to be sent.                   *)
Again(a)   == row[a].verdict = "never-delivered"
BeforeSend == {"upload", "resolve", "send"}
Unsent(a)  == dispatch[a].at \in BeforeSend
              \/ (dispatch[a].at = "idle" /\ Again(a))

(* The prompts of an attempt against the crashes: a row that may yet be    *)
(* sent has one to spare, one whose accepted prompt would be sent again    *)
(* after a crash has none too many.                                        *)
Prompted(a) == Cardinality(PromptsOf(a))
PromptsPaid(a) ==
    /\ row[a].state = "none" => Prompted(a) = 0
    /\ Prompted(a) <= 1 \/ Prompted(a) <= crashes
    /\ Unsent(a) => Prompted(a) = 0 \/ Prompted(a) < crashes
    /\ dispatch[a].at \in BeforeSend /\ Again(a) => Prompted(a) < crashes
    /\ dispatch[a].at = "acked" /\ Again(a) => Prompted(a) <= crashes
PromptsCounted ==
    \A a \in Attempts : IsFiniteSet(PromptsOf(a)) /\ PromptsPaid(a)

CostInv == SweepCosts /\ DispatchHolds /\ PromptsCounted

(* What a step does to a dispatch and to the prompts of its attempt. *)
Stays(a) == dispatch'[a].at = dispatch[a].at
Begins(a) ==
    /\ dispatch[a].at = "idle" /\ dispatch'[a].at = "upload"
    /\ InFlight(row'[a])
    /\ row[a].state = "none" \/ (Again(a) /\ ~At(Sweep, "idle"))
Passes(a) ==
    dispatch[a].at \in BeforeSend /\ dispatch'[a].at \in {"resolve", "send"}
Deposed(a) ==
    /\ dispatch[a].at = "acked" /\ dispatch'[a].at = "depose"
    /\ Terminal(row[a]) /\ row'[a] = row[a]
Ends(a) ==
    /\ dispatch'[a].at = "idle"
    /\ dispatch[a].at = "acked" =>
          row'[a].verdict # "never-delivered" \/ crashes' = crashes + 1
Sends(a) ==
    /\ dispatch[a].at = "send" /\ dispatch'[a].at = "acked"
    /\ \E j \in Jobs : PromptsOf(a)' = PromptsOf(a) \cup {j}

DispatchTo(a) ==
    \/ Sends(a)
    \/ /\ PromptsOf(a)' = PromptsOf(a)
       /\ Stays(a) \/ Begins(a) \/ Passes(a) \/ Deposed(a) \/ Ends(a)

CostMove ==
    /\ crashes' \in {crashes, crashes + 1}
    /\ ~serverUp' => ~serverUp \/ crashes' = crashes + 1
    /\ \A a \in Attempts : DispatchTo(a)

(* Most steps cost nothing. *)
LEMMA CostSame ==
    ASSUME UNCHANGED <<jobOf, dispatch, crashes>>, ~serverUp' => ~serverUp
    PROVE  CostMove
BY DEF CostMove, DispatchTo, Stays, PromptsOf

(* One dispatch moves. *)
LEMMA CostOne ==
    ASSUME TypeOK, NEW a \in Attempts, NEW d,
           dispatch' = [dispatch EXCEPT ![a] = d],
           UNCHANGED <<jobOf, crashes, serverUp>>,
           Stays(a) \/ Begins(a) \/ Passes(a) \/ Deposed(a) \/ Ends(a)
    PROVE  CostMove
<1>1. \A b \in Attempts : b # a => Stays(b)
  BY DEF Stays, TypeOK
<1>2. \A b \in Attempts : PromptsOf(b)' = PromptsOf(b)
  BY DEF PromptsOf
<1> QED
  BY <1>1, <1>2 DEF CostMove, DispatchTo

(* The steps of a dispatch. *)
LEMMA DispatchStepCosts ==
    ASSUME OwnInv, NEW a \in Attempts, DispatchStep(a)
    PROVE  CostMove
<1>1. /\ TypeOK /\ row[a] \in Rows /\ DOMAIN dispatch = Attempts
      /\ NoDispatch.at = "idle" /\ DOMAIN row = Attempts
  BY DEF OwnInv, TypeInv, TypeOK, NoDispatch
<1>2. CASE DispatchUploads(a) \/ DispatchResolves(a)
  <2>1. /\ dispatch[a].at \in {"upload", "resolve"}
        /\ \/ dispatch' = [dispatch EXCEPT ![a] = NoDispatch]
           \/ \E w \in {"resolve", "send"} :
                 dispatch' = [dispatch EXCEPT ![a] = [at |-> w, job |-> NoJob]]
        /\ UNCHANGED <<jobOf, crashes, serverUp>>
    BY <1>2 DEF DispatchUploads, DispatchResolves, DispatchGate, DispatchAt,
                EndDispatch, SetDispatch, engineVars
  <2>2. Ends(a) \/ Passes(a)
    BY <1>1, <2>1 DEF Ends, Passes, BeforeSend
  <2> QED
    BY <1>1, <2>1, <2>2, CostOne
<1>3. CASE DispatchRefused(a)
  <2>1. /\ dispatch[a].at # "acked"
        /\ dispatch' = [dispatch EXCEPT ![a] = NoDispatch]
        /\ UNCHANGED <<jobOf, crashes, serverUp>>
    BY <1>3 DEF DispatchRefused, DispatchAt, EndDispatch, engineVars
  <2> QED
    BY <1>1, <2>1, CostOne DEF Ends
<1>4. CASE DispatchThrows(a)
  <2>1. /\ dispatch[a].at = "acked" =>
              SetRow(a, SetVerdict(row[a], "uncertain"))
        /\ dispatch' = [dispatch EXCEPT ![a] = NoDispatch]
        /\ UNCHANGED <<jobOf, crashes, serverUp>>
    BY <1>4 DEF DispatchThrows, EndDispatch, engineVars
  <2>2. SetVerdict(row[a], "uncertain").verdict = "uncertain"
    BY <1>1 DEF SetVerdict, Rows
  <2>3. dispatch[a].at = "acked" => row'[a].verdict # "never-delivered"
    BY <1>1, <2>1, <2>2 DEF SetRow
  <2> QED
    BY <1>1, <2>1, <2>3, CostOne DEF Ends
<1>5. ASSUME NEW j \in Jobs, Delivered(a, j)
      PROVE  CostMove
  <2>1. /\ dispatch[a].at = "send" /\ job[j] = "free"
        /\ jobOf' = [jobOf EXCEPT ![j] = a]
        /\ dispatch' = [dispatch EXCEPT ![a] = [at |-> "acked", job |-> j]]
        /\ UNCHANGED <<crashes, serverUp>>
    BY <1>5 DEF Delivered, DispatchAt, AcceptPrompt, SetDispatch
  <2>2. jobOf[j] = NoAttempt /\ DOMAIN jobOf = Jobs
    BY <1>1, <2>1 DEF OwnInv, DispatchInv, FreeIsUnowned, TypeOK, EngineTypeOK
  <2>3. \A i \in Jobs : jobOf'[i] = IF i = j THEN a ELSE jobOf[i]
    BY <2>1, <2>2
  <2>4. Sends(a)
    BY <1>1, <2>1, <2>3 DEF Sends, PromptsOf
  <2>5. ASSUME NEW b \in Attempts, b # a
        PROVE  Stays(b) /\ PromptsOf(b)' = PromptsOf(b)
    BY <1>1, <2>1, <2>2, <2>3, <2>5, NoAttemptAssumption DEF Stays, PromptsOf
  <2> QED
    BY <2>1, <2>4, <2>5 DEF CostMove, DispatchTo
<1>6. CASE DispatchAcked(a)
  <2>1. /\ dispatch[a].at = "acked"
        /\ UNCHANGED <<jobOf, crashes, serverUp>>
    BY <1>6 DEF DispatchAcked, DispatchAt, engineVars
  <2>2. CASE Terminal(row[a])
    <3>1. /\ dispatch' = [dispatch EXCEPT ![a] =
                             [at |-> "depose", job |-> dispatch[a].job]]
          /\ row' = row
      BY <1>6, <2>2 DEF DispatchAcked, SetDispatch
    <3>2. Deposed(a)
      BY <1>1, <2>1, <2>2, <3>1 DEF Deposed
    <3> QED
      BY <1>1, <2>1, <3>1, <3>2, CostOne
  <2>3. CASE ~Terminal(row[a])
    <3>1. /\ dispatch' = [dispatch EXCEPT ![a] = NoDispatch]
          /\ SetRow(a, SetJob(row[a], "queued", dispatch[a].job))
      BY <1>6, <2>3 DEF DispatchAcked, EndDispatch
    <3>2. SetJob(row[a], "queued", dispatch[a].job).verdict = "none"
      BY <1>1 DEF SetJob, SetExecution, Rows
    <3>3. row'[a].verdict = "none"
      BY <1>1, <3>1, <3>2 DEF SetRow
    <3> QED
      BY <1>1, <2>1, <3>1, <3>3, CostOne DEF Ends
  <2> QED
    BY <2>2, <2>3
<1>7. CASE DispatchDeposes(a)
  <2>1. /\ dispatch[a].at = "depose"
        /\ dispatch' = [dispatch EXCEPT ![a] = NoDispatch]
        /\ UNCHANGED <<jobOf, crashes, serverUp>>
    BY <1>7 DEF DispatchDeposes, DispatchAt, EndDispatch
  <2> QED
    BY <1>1, <2>1, CostOne DEF Ends
<1> QED
  BY <1>2, <1>3, <1>4, <1>5, <1>6, <1>7 DEF DispatchStep

(* Every step costs as much. *)
LEMMA NextCosts ==
    ASSUME OwnInv, [Next]_vars
    PROVE  CostMove
<1>1. TypeOK
  BY DEF OwnInv, TypeInv
<1>2. CASE \/ EngineStep /\ UNCHANGED ownerVars
           \/ \E t \in Tasks : ResolveStep(t)
           \/ \E c \in Calls : CallStep(c)
           \/ Boot
           \/ UNCHANGED vars
  <2>1. CASE EngineStep /\ UNCHANGED ownerVars
    BY <2>1, CostSame
       DEF EngineStep, ForeignPrompt, JobStarts, JobCloses, JobRecorded,
           EngineUnreachable, EngineReachable, EngineRestarts, ownerVars
  <2>2. CASE \E t \in Tasks : ResolveStep(t)
    BY <2>2, CostSame
       DEF ResolveStep, EngineAnswers, HistoryThrows, AnswerTooLate, Settles,
           Lands, LandingThrows, LandingCompletes, PreparationResumes,
           engineVars
  <2>3. ASSUME NEW c \in Calls, CallStep(c)
        PROVE  CostMove
    <3>1. UNCHANGED <<jobOf, dispatch, crashes, serverUp>>
      BY <2>3
         DEF CallStep, OnCompletion, CancelWithJob, RetryPreparation, Settled,
             CancelDeposes, CancelRemembers, CancelThrows, Reprepared,
             engineVars
    <3> QED
      BY <3>1, CostSame
  <2>4. CASE Boot
    BY <2>4, CostSame DEF Boot, engineVars
  <2>5. CASE UNCHANGED vars
    BY <2>5, CostSame DEF vars, ownerVars, engineVars
  <2> QED
    BY <1>2, <2>1, <2>2, <2>3, <2>4, <2>5
<1>3. ASSUME NEW a \in Attempts, AttemptStep(a)
      PROVE  CostMove
  <2>1. CASE Submit(a)
    <3>1. /\ row[a].state = "none" /\ SetRow(a, RecordAttempt)
          /\ dispatch' = [dispatch EXCEPT ![a] = [at |-> "upload",
                                                  job |-> NoJob]]
          /\ UNCHANGED <<jobOf, crashes, serverUp>>
      BY <2>1 DEF Submit, SetDispatch, engineVars
    <3>2. dispatch[a].at = "idle"
      BY <3>1, Dispatching
    <3>3. dispatch'[a].at = "upload" /\ InFlight(row'[a])
      BY <1>1, <3>1
         DEF TypeOK, SetRow, RecordAttempt, NoRow, InFlight, InFlightStates
    <3> QED
      BY <1>1, <3>1, <3>2, <3>3, CostOne DEF Begins
  <2>2. CASE DispatchStep(a)
    BY <2>2, DispatchStepCosts
  <2>3. CASE ~Submit(a) /\ ~DispatchStep(a)
    BY <1>3, <2>3, CostSame
       DEF AttemptStep, PollTick, OnProgress, CancelWithoutJob,
           RetryRegistration, CarryRegistered, CarryNotProduced,
           CarryExhausted, Registers, RemoveTarget, engineVars
  <2> QED
    BY <2>1, <2>2, <2>3
<1>4. CASE SweepStep
  <2> DEFINE a == task[Sweep].att
  <2>1. CASE SweepRedispatches
    <3>1. /\ ~At(Sweep, "idle") /\ task[Sweep].at = "queue"
          /\ Redispatchable(row[a])
          /\ dispatch' = [dispatch EXCEPT ![a] = [at |-> "upload",
                                                  job |-> NoJob]]
          /\ UNCHANGED <<row, jobOf, crashes, serverUp>>
      BY <2>1 DEF SweepRedispatches, SetDispatch, engineVars, At
    <3>2. a \in Attempts /\ dispatch[a].at = "idle"
      BY <3>1, Sweeping DEF SweepAwaits, At
    <3>3. dispatch'[a].at = "upload"
      BY <1>1, <3>1, <3>2 DEF TypeOK
    <3>4. Begins(a)
      BY <3>1, <3>2, <3>3 DEF Begins, Redispatchable, Again
    <3> QED
      BY <1>1, <3>1, <3>2, <3>4, CostOne
  <2>2. CASE ~SweepRedispatches
    BY <1>4, <2>2, CostSame
       DEF SweepStep, SweepVisits, SweepFinds, SweepMisses, SweepUncertain,
           SweepInterrupts, SweepRedispatched, SweepEnds, engineVars
  <2> QED
    BY <2>1, <2>2
<1>5. CASE Crash
  <2>1. /\ crashes' = crashes + 1 /\ UNCHANGED jobOf
        /\ \A a \in Attempts : dispatch'[a].at = "idle"
    BY <1>5 DEF Crash, NoDispatch, engineVars
  <2> QED
    BY <2>1 DEF CostMove, DispatchTo, Ends, PromptsOf
<1> QED
  BY <1>2, <1>3, <1>4, <1>5 DEF Next

(* A cancelled row is not pending, so the sweep may not send it again.     *)
LEMMA TerminalNotAgain ==
    ASSUME OwnInv, NEW a \in Attempts, Terminal(row[a])
    PROVE  ~Again(a)
BY DEF OwnInv, RowInv, VerdictMeansNoJob, Again, Terminal, TerminalStates

(* Dispatched rows after the step. *)
LEMMA DispatchHoldsMove ==
    ASSUME OwnInv, OwnInv', DispatchHolds, RowsMove, CostMove
    PROVE  DispatchHolds'
<1> SUFFICES ASSUME NEW a \in Attempts
             PROVE  /\ dispatch'[a].at # "idle" =>
                          row'[a].state \in InFlightStates \cup {"cancelled"}
                    /\ dispatch'[a].at = "depose" => Terminal(row'[a])
  BY DEF DispatchHolds
<1>1. PartTo(a, row'[a]) /\ DispatchTo(a)
  BY DEF RowsMove, CostMove
<1>2. CASE Begins(a)
  BY <1>2 DEF Begins, InFlight
<1>3. CASE dispatch[a].at # "idle" /\ dispatch'[a].at # "idle"
  <2>1. row[a].job = NoJob /\ row[a].state # "none"
    BY <1>3, Dispatching
  <2>2. row'[a] = row[a] \/ (InFlight(row[a]) /\ row'[a].state = "cancelled")
    BY <1>1, <1>3, <2>1 DEF PartTo, JoblessTo
  <2>3. /\ row[a].state \in InFlightStates \cup {"cancelled"}
        /\ dispatch[a].at = "depose" => Terminal(row[a])
    BY <1>3 DEF DispatchHolds
  <2>4. dispatch'[a].at = "depose" => Terminal(row[a])
    BY <1>1, <1>3, <2>3 DEF DispatchTo, Sends, Stays, Begins, Passes, Deposed,
                            Ends
  <2> QED
    BY <2>2, <2>3, <2>4 DEF Terminal, TerminalStates
<1> QED
  BY <1>1, <1>2, <1>3 DEF DispatchTo, Sends, Stays, Begins, Passes, Deposed,
                          Ends, BeforeSend

(* The prompts of an attempt after the step. *)
LEMMA PromptsMove ==
    ASSUME OwnInv, OwnInv', CostInv, RowsMove, CostMove, NEW a \in Attempts
    PROVE  (IsFiniteSet(PromptsOf(a)) /\ PromptsPaid(a))'
<1> DEFINE n == Prompted(a)
           m == Prompted(a)'
           here == dispatch[a].at
           there == dispatch'[a].at
           again == row[a].verdict = "never-delivered"
           still == row'[a].verdict = "never-delivered"
<1>1. /\ n \in Nat /\ IsFiniteSet(PromptsOf(a))
      /\ crashes \in Nat /\ crashes' \in {crashes, crashes + 1}
  BY FS_CardinalityType
     DEF CostInv, PromptsCounted, Prompted, OwnInv, TypeInv, TypeOK, CostMove
<1>2. /\ row[a].state = "none" => n = 0
      /\ n <= 1 \/ n <= crashes
      /\ here \in BeforeSend \/ (here = "idle" /\ again) =>
            n = 0 \/ n < crashes
      /\ here \in BeforeSend /\ again => n < crashes
      /\ here = "acked" /\ again => n <= crashes
  BY DEF CostInv, PromptsCounted, PromptsPaid, Unsent, Again
<1>3. PartTo(a, row'[a]) /\ DispatchTo(a)
  BY DEF RowsMove, CostMove
<1>4. still => again \/ (here \in {"upload", "resolve"} /\ there = "idle")
  BY <1>3 DEF PartTo, VerdictTo
<1>5. row'[a].state = "none" => row[a].state = "none" /\ here = "idle"
  BY <1>3, Dispatching DEF PartTo, StateTo
<1>6. here = "depose" => ~again
  BY TerminalNotAgain DEF CostInv, DispatchHolds, Again
<1>7. Terminal(row[a]) => ~again
  BY TerminalNotAgain DEF Again
<1>8. ~At(Sweep, "idle") => crashes > 0
  BY DEF CostInv, SweepCosts
<1>9. /\ IsFiniteSet(PromptsOf(a)')
      /\ PromptsOf(a)' = PromptsOf(a) => m = n
      /\ Sends(a) => m \in {n, n + 1}
  <2>1. PromptsOf(a)' = PromptsOf(a) => m = n
    BY DEF Prompted
  <2>2. ASSUME NEW j \in Jobs, PromptsOf(a)' = PromptsOf(a) \cup {j}
        PROVE  IsFiniteSet(PromptsOf(a)') /\ m \in {n, n + 1}
    <3>1. m = Cardinality(PromptsOf(a) \cup {j})
      BY <2>2 DEF Prompted
    <3> QED
      BY <1>1, <2>2, <3>1, FS_AddElement DEF Prompted
  <2> QED
    BY <1>1, <1>3, <2>1, <2>2 DEF DispatchTo, Sends
<1> SUFFICES /\ row'[a].state = "none" => m = 0
             /\ m <= 1 \/ m <= crashes'
             /\ there \in BeforeSend \/ (there = "idle" /\ still) =>
                   m = 0 \/ m < crashes'
             /\ there \in BeforeSend /\ still => m < crashes'
             /\ there = "acked" /\ still => m <= crashes'
  BY <1>9 DEF PromptsPaid, Unsent, Again
<1> HIDE DEF n, m, again, still
<1>10. CASE Sends(a)
  <2>1. here = "send" /\ there = "acked" /\ m \in {n, n + 1}
    BY <1>9, <1>10 DEF Sends
  <2> QED
    BY <1>1, <1>2, <1>4, <1>5, <2>1 DEF BeforeSend
<1>11. CASE m = n /\ Stays(a)
  BY <1>1, <1>2, <1>4, <1>5, <1>11 DEF BeforeSend, Stays
<1>12. CASE m = n /\ Begins(a)
  <2>1. /\ here = "idle" /\ there = "upload" /\ row'[a].state # "none"
        /\ row[a].state = "none" \/ (again /\ crashes > 0)
    BY <1>8, <1>12 DEF Begins, Again, again, InFlight, InFlightStates
  <2>2. row[a].state = "none" => ~again
    BY DEF OwnInv, RowInv, VerdictMeansNoJob, again
  <2> QED
    BY <1>1, <1>2, <1>4, <1>12, <2>1, <2>2 DEF BeforeSend
<1>13. CASE m = n /\ Passes(a)
  BY <1>1, <1>2, <1>4, <1>5, <1>13 DEF BeforeSend, Passes
<1>14. CASE m = n /\ Deposed(a)
  <2>1. here = "acked" /\ there = "depose"
    BY <1>14 DEF Deposed
  <2> QED
    BY <1>1, <1>2, <1>5, <1>14, <2>1 DEF BeforeSend
<1>15. CASE m = n /\ Ends(a)
  <2>1. /\ there = "idle"
        /\ here = "acked" => ~still \/ crashes' = crashes + 1
    BY <1>15 DEF Ends, still
  <2>2. here \in {"idle", "acked", "depose"} \cup BeforeSend
    BY DEF OwnInv, TypeInv, TypeOK, DispatchAwaits, BeforeSend
  <2> QED
    BY <1>1, <1>2, <1>4, <1>5, <1>6, <1>15, <2>1, <2>2 DEF BeforeSend
<1> QED
  BY <1>3, <1>9, <1>10, <1>11, <1>12, <1>13, <1>14, <1>15 DEF DispatchTo

(* The costs hold initially. *)
LEMMA CostInit == Init => CostInv
<1> SUFFICES ASSUME Init
             PROVE  CostInv
  OBVIOUS
<1>1. /\ serverUp /\ At(Sweep, "idle") /\ crashes = 0
      /\ \A a \in Attempts : dispatch[a].at = "idle" /\ row[a] = NoRow
  BY DEF Init, At, Idle, NoDispatch, Tasks
<1>2. \A a \in Attempts : PromptsOf(a) = {}
  BY NoAttemptAssumption DEF Init, EngineInit, PromptsOf
<1>3. NoRow.verdict = "none" /\ IsFiniteSet({}) /\ Cardinality({}) = 0
  BY FS_EmptySet DEF NoRow
<1>4. SweepCosts /\ DispatchHolds
  BY <1>1 DEF SweepCosts, DispatchHolds
<1>5. PromptsCounted
  <2> SUFFICES ASSUME NEW a \in Attempts
               PROVE  IsFiniteSet(PromptsOf(a)) /\ PromptsPaid(a)
    BY DEF PromptsCounted
  <2>1. IsFiniteSet(PromptsOf(a)) /\ Prompted(a) = 0
    BY <1>2, <1>3 DEF Prompted
  <2>2. ~Again(a) /\ dispatch[a].at = "idle"
    BY <1>1, <1>3 DEF Again
  <2> QED
    BY <2>1, <2>2 DEF PromptsPaid, Unsent, BeforeSend
<1> QED
  BY <1>4, <1>5 DEF CostInv

(* The costs are counted by every step. *)
LEMMA CostStep ==
    OwnInv /\ AgreeInv /\ CostInv /\ [Next]_vars => CostInv'
<1> SUFFICES ASSUME OwnInv, AgreeInv, CostInv, [Next]_vars
             PROVE  CostInv'
  OBVIOUS
<1>1. OwnInv' /\ RowsMove /\ TasksMove /\ CostMove
  BY AgreeStep, NextCosts DEF Moves
<1>2. SweepCosts'
  <2>1. crashes \in Nat
    BY DEF OwnInv, TypeInv, TypeOK
  <2> QED
    BY <1>1, <2>1 DEF CostInv, SweepCosts, CostMove, TasksMove, At
<1>3. DispatchHolds'
  BY <1>1, DispatchHoldsMove DEF CostInv
<1>4. PromptsCounted'
  BY <1>1, PromptsMove DEF PromptsCounted
<1> QED
  BY <1>2, <1>3, <1>4 DEF CostInv

(* The costs of every reachable state. *)
LEMMA CostAlways == Spec => [](OwnInv /\ AgreeInv /\ CostInv)
BY OwnInit, AgreeInit, CostInit, AgreeStep, CostStep, PTL DEF Spec

(* GPU work is repeated only through a crash, and each repeat costs one:   *)
(* the window between the engine's accept and the write of its answer is   *)
(* the only one in which a prompt is forgotten.                            *)
THEOREM RepeatsCostCrashes == Spec => []RepeatNeedsCrash
<1>1. ASSUME OwnInv, CostInv, NEW a \in Attempts, NEW J \in SUBSET PromptsOf(a)
      PROVE  Cardinality(J) <= 1 \/ Cardinality(J) <= crashes
  <2>1. /\ IsFiniteSet(PromptsOf(a))
        /\ Prompted(a) <= 1 \/ Prompted(a) <= crashes
    BY <1>1 DEF CostInv, PromptsCounted, PromptsPaid
  <2>2. /\ Cardinality(J) \in Nat /\ Prompted(a) \in Nat
        /\ Cardinality(J) <= Prompted(a)
    BY <1>1, <2>1, FS_Subset, FS_CardinalityType DEF Prompted
  <2>3. crashes \in Nat
    BY <1>1 DEF OwnInv, TypeInv, TypeOK
  <2> QED
    BY <2>1, <2>2, <2>3
<1>2. OwnInv /\ CostInv => RepeatNeedsCrash
  BY <1>1 DEF RepeatNeedsCrash
<1> QED
  BY <1>2, CostAlways, PTL

(* While engine and server stay up, a terminal state is final but for a    *)
(* dispatch that is refused behind a cancel: what TerminalIsFinal claims   *)
(* fails only through a failed request or a boot.                          *)
THEOREM TerminalStaysWithoutFaults == Spec => TerminalWithoutFaults
<1>1. ASSUME OwnInv, AgreeInv, CostInv, [Next]_vars, NEW a \in Attempts,
             outages = 0, crashes = 0, row[a].state \in TerminalStates
      PROVE  \/ row'[a].state = row[a].state
             \/ /\ row[a].state = "cancelled"
                /\ row'[a].state = "failed"
                /\ dispatch[a].at \in {"resolve", "send"}
  <2>1. StateTo(a, row'[a]) /\ Terminal(row[a])
    BY <1>1, NextMoves DEF Moves, RowsMove, PartTo, Terminal
  <2>2. engineUp /\ task[Sweep].at = "idle"
    BY <1>1 DEF AgreeInv, EngineInv, OutagesCounted, CostInv, SweepCosts, At
  <2>3. Landed(row[a]) => row[a].state = "ready"
    <3> SUFFICES ASSUME Landed(row[a]), row[a].state # "ready"
                 PROVE  FALSE
      OBVIOUS
    <3>1. row[a].job # NoJob /\ ended[row[a].job] \in Clips
      BY <1>1, LandedHasJob
         DEF AgreeInv, LandedStands, Clipped, Stands, Clips
    <3>2. \/ job[row[a].job] = "gone"
          \/ ended[row[a].job] \in {"empty", "error", "carryError",
                                    "interrupted"}
      BY <1>1, <3>1 DEF AgreeInv, EngineAgrees, TerminalStates
    <3>3. job[row[a].job] # "gone"
      BY <1>1, <3>1 DEF AgreeInv, EngineInv, RecordsStand, Clips, OwnInv,
                        TypeInv, TypeOK, Rows
    <3> QED
      BY <3>1, <3>2, <3>3 DEF Clips
  <2>4. dispatch[a].at # "idle" => row[a].state = "cancelled"
    BY <1>1 DEF CostInv, DispatchHolds, TerminalStates, InFlightStates
  <2> QED
    BY <2>1, <2>2, <2>3, <2>4 DEF StateTo
<1>2. OwnInv /\ AgreeInv /\ CostInv /\ [Next]_vars =>
         [\A a \in Attempts :
             outages = 0 /\ crashes = 0 /\ row[a].state \in TerminalStates =>
                 \/ row'[a].state = row[a].state
                 \/ /\ row[a].state = "cancelled"
                    /\ row'[a].state = "failed"
                    /\ dispatch[a].at \in {"resolve", "send"}]_vars
  BY <1>1
<1> QED
  BY <1>2, CostAlways, PTL DEF Spec, TerminalWithoutFaults
=============================================================================

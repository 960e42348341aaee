-------------------------- MODULE OwnershipProofs --------------------------
(***************************************************************************)
(* Who owns an engine job: the inductive invariant behind JobIsOwn,        *)
(* VerdictMeansNoJob and NoSecondWatcher, and the finality of a row's job. *)
(***************************************************************************)
EXTENDS CompletionOwnerProofs

(***************************************************************************)
(* The parts of the invariant.                                             *)
(***************************************************************************)
UnrecordedIsBlank == \A a \in Attempts : row[a].state = "none" => row[a] = NoRow

RegisteringHasLanded == \A a \in registering : Landed(row[a])

FreeIsUnowned == \A j \in Jobs : job[j] = "free" => jobOf[j] = NoAttempt

(* A dispatch works for a recorded row without a job, and the job the      *)
(* engine acknowledges carries its attempt.                                *)
DispatchOfRow ==
    \A a \in Attempts :
        dispatch[a].at # "idle" => row[a].job = NoJob /\ row[a].state # "none"
DispatchOwn ==
    \A a \in Attempts :
        dispatch[a].at \in {"acked", "depose"} =>
            dispatch[a].job \in Jobs /\ jobOf[dispatch[a].job] = a

(* While the sweep works, no attempt is dispatched but the one it sends    *)
(* again, and nobody watches what it still has to visit.                   *)
SweepAlone ==
    \A a \in Attempts :
        ~At(Sweep, "idle") /\ dispatch[a].at # "idle" =>
            At(Sweep, "redispatch") /\ task[Sweep].att = a
SweepFirst ==
    \A a \in Attempts :
        /\ a \in todo => ~At(Sweep, "idle") /\ task[a] = Idle
                         /\ row[a].state # "none"
        /\ task[Sweep].att = a /\ ~At(Sweep, "redispatch") => task[a] = Idle
        /\ task[Sweep].att = a => a \notin todo

(* What task t may rely on while it waits as w. *)
WithJob    == {"history", "answered", "settling"} \cup CancelAwaits
WithResult == {"landing", "resuming", "reprepare"}
WithoutJob == {"find", "queue"}

Relies(t, w) ==
    /\ w.at \in WithJob => row[w.att].job # NoJob
    /\ w.at \in WithResult => Landed(row[w.att])
    /\ w.at \in WithoutJob => row[w.att].job = NoJob
    /\ w.at \in SweepAwaits => row[w.att].state # "none"
    /\ t \in Attempts /\ w # Idle => row[t].job # NoJob

TasksRely == \A t \in Tasks : Relies(t, task[t])

RowInv == UnrecordedIsBlank /\ JobIsOwn /\ VerdictMeansNoJob
DispatchInv == FreeIsUnowned /\ DispatchOfRow /\ DispatchOwn
SweepInv == SweepAlone /\ SweepFirst

OwnInv ==
    /\ TypeInv
    /\ DownIsIdle
    /\ RowInv
    /\ RegisteringHasLanded
    /\ DispatchInv
    /\ SweepInv
    /\ TasksRely

(***************************************************************************)
(* Most writes keep the job of a row, keep a result, do not invent a       *)
(* verdict and leave a blank row blank.                                    *)
(***************************************************************************)
Keeps(r, s) ==
    /\ s.job = r.job
    /\ s.result \in {r.result, r.job}
    /\ Landed(r) => s.result = r.result
    /\ s.verdict # "none" => s.verdict = r.verdict /\ s.state = r.state
    /\ r.state = "none" => s = r
    /\ s.state = "none" => s = r

RowsKept == \A a \in Attempts : Keeps(row[a], row'[a])

(* A row keeps what it keeps: the relation is reflexive.                   *)
LEMMA KeepsSame == ASSUME NEW r PROVE Keeps(r, r)
  BY DEF Keeps

(* Two keeping writes are one.                                             *)
LEMMA KeepsTransitive ==
    ASSUME NEW r, NEW s, NEW u, Keeps(r, s), Keeps(s, u)
    PROVE  Keeps(r, u)
  BY DEF Keeps, Landed

(* The writes that keep a recorded row. *)
LEMMA WritesKeep ==
    ASSUME NEW r \in Rows, r.state # "none"
    PROVE  /\ \A s \in States : Keeps(r, SetExecution(r, s))
           /\ \A p \in Preparations : Keeps(r, SetPreparation(r, p))
           /\ \A c \in Continuations : Keeps(r, SetContinuation(r, c))
           /\ Keeps(r, LandCandidate(r, r.job))
           /\ Keeps(r, Stopped(r))
  <1>1. \A s \in States : Keeps(r, SetExecution(r, s))
    BY DEF Keeps, SetExecution, Rows, States, TerminalStates, InFlightStates
  <1>2. /\ \A p \in Preparations : Keeps(r, SetPreparation(r, p))
        /\ \A c \in Continuations : Keeps(r, SetContinuation(r, c))
        /\ Keeps(r, LandCandidate(r, r.job))
    BY DEF Keeps, SetPreparation, SetContinuation, LandCandidate, Rows, Landed
  <1>3. Keeps(r, Stopped(r))
    BY <1>1 DEF Stopped, States, TerminalStates
  <1> QED
    BY <1>1, <1>2, <1>3

(* The row a status without a clip leaves behind is kept.                  *)
LEMMA SettledRowKeeps ==
    ASSUME TypeOK, NEW a \in Attempts, row[a].state # "none", NEW saw, NEW cause
    PROVE  Keeps(row[a], SettledRow(a, saw, cause))
  <1>1. row[a] \in Rows
    BY DEF TypeOK
  <1>2. \A s \in {"rendering", "interrupted", "failed"} :
           Keeps(row[a], SetExecution(row[a], s))
    BY <1>1, WritesKeep DEF States, TerminalStates, InFlightStates
  <1>3. Keeps(row[a], Stopped(row[a]))
    BY <1>1, WritesKeep
  <1> DEFINE f == SetExecution(row[a], "failed")
  <1>4. f \in Rows /\ f.state # "none"
    BY <1>1, ExecutionType
       DEF States, TerminalStates, SetExecution, Rows
  <1>5. Keeps(f, SetContinuation(f, "not-produced"))
    BY <1>4, WritesKeep DEF Continuations
  <1>6. Keeps(row[a], SetContinuation(f, "not-produced"))
    BY <1>2, <1>5, KeepsTransitive
  <1> QED
    BY <1>2, <1>3, <1>6 DEF SettledRow

(* One row written by a keeping write. *)
LEMMA SetRowKeeps ==
    ASSUME TypeOK, NEW a \in Attempts, NEW r, Keeps(row[a], r), SetRow(a, r)
    PROVE  RowsKept
  BY KeepsSame DEF TypeOK, SetRow, RowsKept

(* A kick keeps the row it was given, and only registers what landed.      *)
LEMMA KickCarryKeeps ==
    ASSUME TypeOK, NEW a \in Attempts, NEW r \in Rows, r.state # "none",
           Keeps(row[a], r), KickCarry(a, r)
    PROVE  /\ RowsKept
           /\ row'[a].result = r.result
           /\ \A b \in registering' : b \in registering \/ Landed(row'[b])
  <1>1. CASE CarryDue(a, r)
    <2> DEFINE s == SetContinuation(r, "registering")
    <2>1. Keeps(r, s) /\ s.result = r.result
      BY WritesKeep DEF Continuations, SetContinuation, Rows
    <2>2. Keeps(row[a], s)
      BY <2>1, KeepsTransitive
    <2>3. SetRow(a, s) /\ registering' = registering \cup {a}
      BY <1>1 DEF KickCarry
    <2>4. row'[a] = s /\ Landed(r)
      BY <1>1, <2>3 DEF SetRow, TypeOK, CarryDue, ContinuationPending
    <2> QED
      BY <2>1, <2>2, <2>3, <2>4, SetRowKeeps DEF Landed
  <1>2. CASE ~CarryDue(a, r)
    <2>1. SetRow(a, r) /\ UNCHANGED registering
      BY <1>2 DEF KickCarry
    <2> QED
      BY <2>1, SetRowKeeps DEF SetRow, TypeOK
  <1> QED
    BY <1>1, <1>2

-----------------------------------------------------------------------------
(* What keeping writes preserve. *)
LEMMA RowInvKept ==
    ASSUME RowInv, RowsKept, UNCHANGED jobOf
    PROVE  RowInv'
  <1>1. ASSUME NEW a \in Attempts
        PROVE  /\ Keeps(row[a], row'[a])
               /\ row[a].state = "none" => row[a] = NoRow
               /\ row[a].job # NoJob => jobOf[row[a].job] = a
               /\ Landed(row[a]) => row[a].result = row[a].job
               /\ row[a].verdict # "none" =>
                     row[a].state = "reconciling" /\ row[a].job = NoJob
    BY DEF RowInv, RowsKept, UnrecordedIsBlank, JobIsOwn, VerdictMeansNoJob
  <1>2. UnrecordedIsBlank'
    BY <1>1 DEF Keeps, UnrecordedIsBlank
  <1>3. JobIsOwn'
    BY <1>1 DEF Keeps, JobIsOwn, Landed
  <1>4. VerdictMeansNoJob'
    BY <1>1 DEF Keeps, VerdictMeansNoJob
  <1> QED
    BY <1>2, <1>3, <1>4 DEF RowInv

(* What landed stays landed.                                               *)
LEMMA LandedKept ==
    ASSUME RowsKept, NEW a \in Attempts, Landed(row[a])
    PROVE  Landed(row'[a])
  BY DEF RowsKept, Keeps, Landed

(* A task that does not move may go on relying on kept rows.               *)
LEMMA ReliesKept ==
    ASSUME TypeInv, RowsKept, NEW t \in Tasks, Relies(t, task[t])
    PROVE  Relies(t, task[t])' \/ task'[t] # task[t]
  <1>1. task[t].at \notin {"idle", "next"} => task[t].att \in Attempts
    BY AwaitsKnown
  <1>2. \A a \in Attempts : Keeps(row[a], row'[a])
    BY DEF RowsKept
  <1> QED
    BY <1>1, <1>2
       DEF Relies, Keeps, Landed, WithJob, WithResult, WithoutJob, SweepAwaits,
           ResolveAwaits, CancelAwaits

(* Moved tasks have to establish what they rely on, the others keep it.    *)
LEMMA TasksRelyKept ==
    ASSUME TypeInv, TasksRely, RowsKept,
           \A t \in Tasks : task'[t] = task[t] \/ Relies(t, task[t])'
    PROVE  TasksRely'
  BY ReliesKept DEF TasksRely

(***************************************************************************)
(* A quiet step keeps the rows, the dispatches and the engine's stamps; it *)
(* may move tasks, as long as their new waits can rely on what they need.  *)
(***************************************************************************)
JobIsKept ==
    \A a \in Attempts :
        row[a].job # NoJob =>
            /\ row'[a].job = row[a].job
            /\ \A j \in Jobs : jobOf'[j] = a => jobOf[j] = a

(* A quiet step keeps the invariant.                                       *)
LEMMA QuietStep ==
    ASSUME OwnInv, TypeInv', RowsKept, serverUp, serverUp' = serverUp,
           UNCHANGED <<jobOf, dispatch>>,
           \A j \in Jobs : job'[j] = "free" => job[j] = "free",
           \A a \in registering' : a \in registering \/ Landed(row'[a]),
           \A t \in Tasks : task'[t] = task[t] \/ Relies(t, task[t])',
           SweepInv'
    PROVE  OwnInv' /\ JobIsKept
  <1>1. RowInv' /\ TasksRely'
    BY RowInvKept, TasksRelyKept DEF OwnInv
  <1>2. DownIsIdle'
    BY DEF DownIsIdle
  <1>3. RegisteringHasLanded'
    BY LandedKept DEF OwnInv, RegisteringHasLanded, TypeInv, TypeOK
  <1>4. DispatchInv'
    <2>1. FreeIsUnowned' /\ DispatchOwn'
      BY DEF OwnInv, DispatchInv, FreeIsUnowned, DispatchOwn
    <2>2. DispatchOfRow'
      BY DEF OwnInv, DispatchInv, DispatchOfRow, RowsKept, Keeps
    <2> QED
      BY <2>1, <2>2 DEF DispatchInv
  <1>5. JobIsKept
    BY DEF JobIsKept, RowsKept, Keeps
  <1> QED
    BY <1>1, <1>2, <1>3, <1>4, <1>5 DEF OwnInv

(* A step that leaves the sweep alone: calls and rows only. *)
LEMMA SweepUntouched ==
    ASSUME OwnInv, RowsKept, UNCHANGED <<dispatch, todo>>,
           task'[Sweep] = task[Sweep],
           \A a \in Attempts : task'[a] = task[a] \/ task[a] # Idle
    PROVE  SweepInv'
  BY DEF OwnInv, SweepInv, SweepAlone, SweepFirst, At, RowsKept, Keeps

(* The return of a resolution: the caller goes on. *)
LEMMA ReturnStep ==
    ASSUME OwnInv, TypeInv', RowsKept, UNCHANGED <<jobOf, dispatch>>,
           serverUp' = serverUp,
           \A j \in Jobs : job'[j] = "free" => job[j] = "free",
           \A a \in registering' : a \in registering \/ Landed(row'[a]),
           UNCHANGED todo,
           NEW t \in Tasks, task[t].at \in ResolveAwaits \cup {"settling", "poll"},
           NEW o, o = "running" => task[t].at = "answered",
           task' = AfterResolve(t, o)
    PROVE  OwnInv' /\ JobIsKept
  <1>1. /\ TypeInv
        /\ task \in [Tasks -> TaskRecords]
        /\ task[t] # Idle
        /\ task[t].att \in Attempts
        /\ task[t].at = "answered" => row[task[t].att].job # NoJob
        /\ t \in Attempts => row[t].job # NoJob
    BY AwaitsKnown
       DEF OwnInv, TypeInv, TypeOK, TasksRely, Relies, WithJob, ResolveAwaits,
           Idle
  <1>2. serverUp
    BY <1>1 DEF OwnInv, DownIsIdle
  <1>3. \A a \in Attempts : row'[a].job = row[a].job
    BY DEF RowsKept, Keeps
  <1>4. CASE task[t].by = "watch"
    <2>1. t \in Attempts /\ t # Sweep
      BY <1>1, <1>4, AwaitsKnown, TasksAssumption
    <2>2. task' = [task EXCEPT ![t] = AfterTick(t, o)]
      BY <1>4 DEF AfterResolve
    <2>3. Relies(t, task[t])'
      BY <1>1, <1>3, <2>1, <2>2
         DEF AfterTick, Relies, Started, Idle, WithJob, WithResult, WithoutJob,
             SweepAwaits, ResolveAwaits, CancelAwaits
    <2>4. SweepInv'
      BY <1>1, <2>1, <2>2, SweepUntouched
    <2> QED
      BY <1>1, <1>2, <2>2, <2>3, <2>4, QuietStep
  <1>5. CASE task[t].by = "sweep"
    <2>1. t = Sweep /\ Sweep \notin Attempts
      BY <1>1, <1>5, AwaitsKnown, TasksAssumption
    <2> DEFINE a == task[Sweep].att
    <2>2. \/ task' = [task EXCEPT ![Sweep] = NextOfSweep]
          \/ /\ task[t].at = "answered"
             /\ task' = [task EXCEPT ![Sweep] = NextOfSweep,
                                     ![a] = Watching(a)]
      BY <1>5, <2>1 DEF AfterResolve, AfterVisit
    <2>3. /\ NextOfSweep.at = "next" /\ NextOfSweep.att = NoAttempt
          /\ Watching(a).at = "history" /\ Watching(a).att = a
      BY DEF NextOfSweep, Watching, Started, Idle
    <2>4. Relies(Sweep, task[Sweep])'
      BY <1>1, <2>1, <2>2, <2>3
         DEF Relies, WithJob, WithResult, WithoutJob, SweepAwaits,
             ResolveAwaits, CancelAwaits
    <2>5. \A u \in Tasks \ {Sweep} :
             \/ task'[u] = task[u]
             \/ u = a /\ task[t].at = "answered" /\ task'[u] = Watching(a)
      BY <1>1, <2>1, <2>2
    <2>6. \A u \in Tasks : task'[u] = task[u] \/ Relies(u, task[u])'
      <3> SUFFICES ASSUME NEW u \in Tasks, task'[u] # task[u]
                   PROVE  Relies(u, task[u])'
        OBVIOUS
      <3>1. CASE u = Sweep
        BY <2>4, <3>1
      <3>2. CASE u # Sweep
        <4>1. u = a /\ task[t].at = "answered" /\ task'[u] = Watching(a)
          BY <2>5, <3>2
        <4>2. row'[a].job # NoJob /\ row[a].state # "none"
          BY <1>1, <1>3, <2>1, <4>1
             DEF OwnInv, RowInv, UnrecordedIsBlank, NoRow
        <4>3. row'[a].state # "none"
          BY <1>1, <2>1, <4>2 DEF RowsKept, Keeps
        <4> QED
          BY <2>3, <4>1, <4>2, <4>3
             DEF Relies, WithJob, WithResult, WithoutJob, CancelAwaits
      <3> QED
        BY <3>1, <3>2
    <2>7. SweepInv'
      <3>1. task'[Sweep] = NextOfSweep
        BY <1>1, <2>1, <2>2
      <3>2. ~At(Sweep, "redispatch") /\ ~At(Sweep, "idle")
        BY <1>1, <2>1 DEF At, ResolveAwaits
      <3>3. \A b \in Attempts : dispatch[b].at = "idle"
        BY <3>2 DEF OwnInv, SweepInv, SweepAlone
      <3>4. SweepAlone'
        BY <3>3 DEF SweepAlone
      <3>5. \A b \in Attempts : b \in todo => task'[b] = Idle
        BY <2>1, <2>5, TasksAssumption DEF OwnInv, SweepInv, SweepFirst, Tasks
      <3>6. SweepFirst'
        BY <2>3, <3>1, <3>2, <3>5, NoAttemptAssumption
           DEF SweepFirst, At, OwnInv, SweepInv, RowsKept, Keeps
      <3> QED
        BY <3>4, <3>6 DEF SweepInv
    <2> QED
      BY <1>2, <2>6, <2>7, QuietStep
  <1>6. CASE task[t].by \notin {"watch", "sweep"}
    <2>1. task' = [task EXCEPT ![t] = Idle]
      BY <1>6 DEF AfterResolve, AfterCall
    <2>2. t \in Calls
      BY <1>1, <1>6, AwaitsKnown
         DEF InRole, WatchRole, SweepRole, CallRole, NextOfSweep, Started, Idle
    <2>3. SweepInv'
      BY <1>1, <2>1, <2>2, SweepUntouched, TasksAssumption
    <2>4. Relies(t, task[t])'
      BY <1>1, <2>1, <2>2, TasksAssumption
         DEF Relies, Idle, WithJob, WithResult, WithoutJob, SweepAwaits,
             ResolveAwaits, CancelAwaits
    <2> QED
      BY <1>1, <1>2, <2>1, <2>3, <2>4, QuietStep
  <1> QED
    BY <1>4, <1>5, <1>6

-----------------------------------------------------------------------------
(* A recorded job is never free again. *)
LEMMA EngineKeeps ==
    ASSUME OwnInv, EngineStep, UNCHANGED ownerVars, TypeInv'
    PROVE  OwnInv' /\ JobIsKept
  <1>1. UNCHANGED jobOf /\ \A j \in Jobs : job'[j] = "free" => job[j] = "free"
    BY OutcomesAssumption
       DEF EngineStep, ForeignPrompt, JobStarts, JobCloses, JobRecorded,
           EngineUnreachable, EngineReachable, EngineRestarts, OwnInv, TypeInv,
           TypeOK, EngineTypeOK, Records
  <1>2. RowsKept
    BY KeepsSame DEF RowsKept, ownerVars
  <1>3. RowInv' /\ TasksRely'
    BY <1>1, <1>2, RowInvKept, TasksRelyKept DEF OwnInv, ownerVars
  <1>4. DownIsIdle' /\ RegisteringHasLanded' /\ SweepInv'
    BY DEF OwnInv, DownIsIdle, RegisteringHasLanded, SweepInv, SweepAlone,
           SweepFirst, At, ownerVars
  <1>5. DispatchInv' /\ JobIsKept
    BY <1>1
       DEF OwnInv, DispatchInv, FreeIsUnowned, DispatchOfRow, DispatchOwn,
           JobIsKept, ownerVars
  <1> QED
    BY <1>3, <1>4, <1>5 DEF OwnInv

(* A task of a call or a watcher that waits on: it stays what it was to    *)
(* the sweep.                                                              *)
LEMMA MovesOn ==
    ASSUME OwnInv, TypeInv', RowsKept, UNCHANGED <<jobOf, dispatch, todo>>,
           serverUp' = serverUp,
           \A j \in Jobs : job'[j] = "free" => job[j] = "free",
           \A a \in registering' : a \in registering \/ Landed(row'[a]),
           NEW t \in Tasks, task[t] # Idle, NEW w, SetTask(t, w),
           w.att = task[t].att,
           w.at \in WithJob => row[w.att].job # NoJob,
           w.at \in WithResult => Landed(row'[w.att]),
           w.at \notin WithoutJob \cup {"idle", "next", "redispatch"},
           task[t].at \notin {"next", "redispatch"}
    PROVE  OwnInv' /\ JobIsKept
  <1>1. /\ TypeInv
        /\ task \in [Tasks -> TaskRecords]
        /\ task' = [task EXCEPT ![t] = w]
        /\ task[t].att \in Attempts
    BY AwaitsKnown
       DEF OwnInv, TypeInv, TypeOK, SetTask, TasksInRole, InRole, WatchRole,
           CallRole, SweepRole, NextOfSweep, Started, Idle
  <1>2. serverUp
    BY <1>1 DEF OwnInv, DownIsIdle
  <1>3. \A a \in Attempts : Keeps(row[a], row'[a])
    BY DEF RowsKept
  <1>4. row[w.att].state # "none"
    <2>1. Relies(t, task[t])
      BY DEF OwnInv, TasksRely
    <2>2. row[task[t].att].job # NoJob \/ Landed(row[task[t].att])
          \/ row[task[t].att].state # "none"
      <3>1. task[t].at # "next" /\ InRole(t, task[t])
        BY <1>1 DEF TypeInv, TasksInRole
      <3>2. CASE WatchRole(t, task[t])
        BY <2>1, <3>2 DEF WatchRole, Relies
      <3>3. CASE CallRole(t, task[t])
        BY <2>1, <3>3 DEF CallRole, Relies, CallAwaits, ResolveAwaits, WithJob,
                          WithResult
      <3>4. CASE SweepRole(t, task[t])
        BY <2>1, <3>1, <3>4 DEF SweepRole, Relies, NextOfSweep, Started, Idle
      <3> QED
        BY <3>1, <3>2, <3>3, <3>4 DEF InRole
    <2> QED
      BY <1>1, <2>2 DEF OwnInv, RowInv, UnrecordedIsBlank, NoRow, Landed
  <1>5. Relies(t, task[t])'
    <2>1. task'[t] = w
      BY <1>1
    <2>2. t \in Attempts => row'[t].job # NoJob
      BY <1>3 DEF OwnInv, TasksRely, Relies, Keeps
    <2> QED
      BY <1>1, <1>3, <1>4, <2>1, <2>2 DEF Relies, Keeps
  <1>6. SweepInv'
    <2>1. CASE t # Sweep
      BY <1>1, <2>1, SweepUntouched DEF Tasks
    <2>2. CASE t = Sweep
      <3>1. /\ \A a \in Attempts : task'[a] = task[a]
            /\ task'[Sweep] = w
        BY <1>1, <2>2, TasksAssumption DEF Tasks
      <3>2. InRole(Sweep, task[Sweep]) /\ task[Sweep] # Idle
        BY <1>1, <2>2 DEF TypeInv, TasksInRole
      <3>3. task[Sweep].at # "idle"
        BY <3>2, TasksAssumption
           DEF InRole, WatchRole, CallRole, SweepRole, SweepAwaits,
               ResolveAwaits, NextOfSweep, Started, Idle
      <3>4. /\ task'[Sweep].att = task[Sweep].att
            /\ task[Sweep].at # "redispatch" /\ task'[Sweep].at # "redispatch"
            /\ task[Sweep].at # "idle" /\ task'[Sweep].at # "idle"
        BY <2>2, <3>1, <3>3
      <3>5. \A a \in Attempts : row'[a].state = "none" => row[a].state = "none"
        BY <1>3 DEF Keeps
      <3> QED
        BY <3>1, <3>4, <3>5 DEF OwnInv, SweepInv, SweepAlone, SweepFirst, At
    <2> QED
      BY <2>1, <2>2
  <1> QED
    BY <1>1, <1>2, <1>5, <1>6, QuietStep

(* A recorded row is one with a job, a result or an execution state. *)
LEMMA RecordedRow ==
    ASSUME OwnInv, NEW a \in Attempts,
           row[a].job # NoJob \/ Landed(row[a])
    PROVE  row[a] \in Rows /\ row[a].state # "none"
  BY DEF OwnInv, TypeInv, TypeOK, RowInv, UnrecordedIsBlank, NoRow, Landed

(* The steps of resolveFromEngine after its await.                         *)
LEMMA ResolveStepOwn ==
    ASSUME OwnInv, TypeInv', NEW t \in Tasks, ResolveStep(t)
    PROVE  OwnInv' /\ JobIsKept
  <1> DEFINE a == task[t].att
  <1>1. /\ TypeInv /\ TypeOK
        /\ task[t] \in TaskRecords
        /\ task[t].at \in ResolveAwaits => task[t] # Idle /\ a \in Attempts
        /\ task[t].at \in {"history", "answered"} => row[a].job # NoJob
        /\ task[t].at \in {"landing", "resuming"} => Landed(row[a])
    BY AwaitsKnown
       DEF ResolveAwaits, OwnInv, TypeInv, TasksRely, Relies, WithJob, WithResult
  <1>2. task[t].at \in ResolveAwaits => row[a] \in Rows /\ row[a].state # "none"
    BY <1>1, RecordedRow DEF ResolveAwaits
  <1>3. UNCHANGED row => RowsKept
    BY KeepsSame DEF RowsKept
  <1> HIDE DEF a
  <1>4. CASE EngineAnswers(t)
    <2> DEFINE w == [task[t] EXCEPT !.at = "answered",
                                    !.saw = HistoryOf(row[a].job)]
    <2>1. task[t].at = "history" /\ SetTask(t, w)
      BY <1>4 DEF EngineAnswers, At, a
    <2>2. w.at = "answered" /\ w.att = a
      BY <1>1 DEF TaskRecords, a
    <2>3. /\ RowsKept
          /\ UNCHANGED <<jobOf, dispatch, todo, job, registering, serverUp>>
      BY <1>3, <1>4 DEF EngineAnswers, engineVars
    <2> HIDE DEF w
    <2> QED
      BY <1>1, <2>1, <2>2, <2>3, MovesOn
         DEF a, ResolveAwaits, WithJob, WithResult, WithoutJob, CancelAwaits
  <1>5. CASE HistoryThrows(t)
    <2>1. task[t].at = "history" /\ task' = AfterResolve(t, "reconciling")
      BY <1>5 DEF HistoryThrows, At
    <2>2. RowsKept
      BY <1>1, <1>2, <1>5, <2>1, WritesKeep, SetRowKeeps
         DEF HistoryThrows, ResolveAwaits, States, InFlightStates, a
    <2>3. UNCHANGED <<jobOf, dispatch, todo, job, registering, serverUp>>
      BY <1>5 DEF HistoryThrows, engineVars
    <2> QED
      BY <2>1, <2>2, <2>3, ReturnStep DEF ResolveAwaits
  <1>6. CASE AnswerTooLate(t)
    <2>1. task[t].at = "answered" /\ task' = AfterResolve(t, "untouched")
      BY <1>6 DEF AnswerTooLate, At
    <2>2. /\ RowsKept
          /\ UNCHANGED <<jobOf, dispatch, todo, job, registering, serverUp>>
      BY <1>3, <1>6 DEF AnswerTooLate, engineVars
    <2> QED
      BY <2>1, <2>2, ReturnStep DEF ResolveAwaits
  <1>7. CASE Settles(t)
    <2>1. task[t].at = "answered" /\ task' = AfterResolve(t, task[t].saw)
      BY <1>7 DEF Settles, At
    <2>2. RowsKept
      BY <1>1, <1>2, <1>7, <2>1, SettledRowKeeps, SetRowKeeps
         DEF Settles, ResolveAwaits, a
    <2>3. UNCHANGED <<jobOf, dispatch, todo, job, registering, serverUp>>
      BY <1>7 DEF Settles, engineVars
    <2> QED
      BY <2>1, <2>2, <2>3, ReturnStep DEF ResolveAwaits
  <1>8. CASE Lands(t)
    <2> DEFINE s == SetExecution(row[a], "preparing")
               r == LandCandidate(s, row[a].job)
               w == [task[t] EXCEPT !.at = "landing"]
    <2>1. task[t].at = "answered" /\ SetRow(a, r) /\ SetTask(t, w)
      BY <1>8 DEF Lands, At, a
    <2>2. a \in Attempts /\ row[a] \in Rows /\ row[a].state # "none"
          /\ row[a].job # NoJob
      BY <1>1, <1>2, <2>1 DEF ResolveAwaits
    <2>3. /\ s \in Rows /\ s.state # "none" /\ s.job = row[a].job
          /\ Keeps(row[a], s)
      BY <2>2, ExecutionType, WritesKeep
         DEF States, InFlightStates, SetExecution, Rows
    <2>4. Keeps(s, r)
      BY <2>3, WritesKeep
    <2>5. RowsKept
      BY <1>1, <2>1, <2>2, <2>3, <2>4, KeepsTransitive, SetRowKeeps
    <2>6. Landed(row'[a])
      BY <1>1, <2>1, <2>2, <2>3 DEF SetRow, TypeOK, LandCandidate, Landed, Rows
    <2>7. w.at = "landing" /\ w.att = a
      BY <1>1 DEF TaskRecords, a
    <2>8. UNCHANGED <<jobOf, dispatch, todo, job, registering, serverUp>>
      BY <1>8 DEF Lands, engineVars
    <2> HIDE DEF s, r, w
    <2> QED
      BY <1>1, <2>1, <2>5, <2>6, <2>7, <2>8, MovesOn
         DEF a, ResolveAwaits, WithJob, WithResult, WithoutJob, CancelAwaits
  <1>9. CASE LandingThrows(t)
    <2>1. task[t].at = "answered"
      BY <1>9 DEF LandingThrows, At
    <2>2. RowsKept
      BY <1>1, <1>2, <1>9, <2>1, WritesKeep, SetRowKeeps
         DEF LandingThrows, ResolveAwaits, States, InFlightStates, a
    <2>3. UNCHANGED <<jobOf, dispatch, todo, job, registering, serverUp>>
      BY <1>9 DEF LandingThrows, engineVars
    <2>4. CASE task' = AfterResolve(t, "reconciling")
      BY <2>1, <2>2, <2>3, <2>4, ReturnStep DEF ResolveAwaits
    <2> DEFINE w == [Started("poll", a, "watch") EXCEPT !.n = task[t].n + 1]
    <2>5. CASE SetTask(t, w)
      <3>1. w.at = "poll" /\ w.att = a
        BY DEF Started, Idle
      <3> HIDE DEF w
      <3> QED
        BY <1>1, <2>1, <2>2, <2>3, <2>5, <3>1, MovesOn
           DEF a, ResolveAwaits, WithJob, WithResult, WithoutJob, CancelAwaits
    <2> QED
      BY <1>9, <2>4, <2>5 DEF LandingThrows, SetTask, a
  <1>10. ASSUME NEW p \in Prepared, LandingCompletes(t, p)
         PROVE  OwnInv' /\ JobIsKept
    <2> DEFINE s == SetPreparation(row[a], p)
               r == SetExecution(s, "ready")
    <2>1. /\ task[t].at = "landing"
          /\ task' = AfterResolve(t, "done")
          /\ KickCarry(a, r)
      BY <1>10 DEF LandingCompletes, At, a
    <2>2. a \in Attempts /\ row[a] \in Rows /\ row[a].state # "none"
      BY <1>1, <1>2, <2>1 DEF ResolveAwaits
    <2>3. s \in Rows /\ s.state # "none" /\ Keeps(row[a], s)
      BY <2>2, PreparationType, WritesKeep
         DEF Prepared, Preparations, SetPreparation, Rows
    <2>4. r \in Rows /\ r.state # "none" /\ Keeps(s, r)
      BY <2>3, ExecutionType, WritesKeep
         DEF States, TerminalStates, SetExecution, Rows
    <2>5. Keeps(row[a], r)
      BY <2>3, <2>4, KeepsTransitive
    <2> HIDE DEF s, r
    <2>6. /\ RowsKept
          /\ \A b \in registering' : b \in registering \/ Landed(row'[b])
      BY <1>1, <2>1, <2>2, <2>4, <2>5, KickCarryKeeps
    <2>7. UNCHANGED <<jobOf, dispatch, todo, job, serverUp>>
      BY <1>10 DEF LandingCompletes, engineVars
    <2> QED
      BY <2>1, <2>6, <2>7, ReturnStep DEF ResolveAwaits
  <1>11. ASSUME NEW p \in Prepared, PreparationResumes(t, p)
         PROVE  OwnInv' /\ JobIsKept
    <2> DEFINE r == SetPreparation(row[a], p)
    <2>1. /\ task[t].at = "resuming"
          /\ task' = AfterResolve(t, "untouched")
          /\ KickCarry(a, r)
      BY <1>11 DEF PreparationResumes, At, a
    <2>2. a \in Attempts /\ row[a] \in Rows /\ row[a].state # "none"
      BY <1>1, <1>2, <2>1 DEF ResolveAwaits
    <2>3. r \in Rows /\ r.state # "none" /\ Keeps(row[a], r)
      BY <2>2, PreparationType, WritesKeep
         DEF Prepared, Preparations, SetPreparation, Rows
    <2> HIDE DEF r
    <2>4. /\ RowsKept
          /\ \A b \in registering' : b \in registering \/ Landed(row'[b])
      BY <1>1, <2>1, <2>2, <2>3, KickCarryKeeps
    <2>5. UNCHANGED <<jobOf, dispatch, todo, job, serverUp>>
      BY <1>11 DEF PreparationResumes, engineVars
    <2> QED
      BY <2>1, <2>4, <2>5, ReturnStep DEF ResolveAwaits
  <1> QED
    BY <1>4, <1>5, <1>6, <1>7, <1>8, <1>9, <1>10, <1>11 DEF ResolveStep

(* resolveFromEngine up to its first await, called by a watcher or a call. *)
LEMMA ResolveOwn ==
    ASSUME OwnInv, TypeInv', NEW t \in Tasks, task[t].at \in {"settling", "poll"},
           Resolve(t, task[t], task[t].att),
           UNCHANGED <<jobOf, job, dispatch, todo, serverUp>>
    PROVE  OwnInv' /\ JobIsKept
  <1> DEFINE a == task[t].att
  <1>1. /\ TypeInv /\ TypeOK
        /\ task[t] \in TaskRecords
        /\ a \in Attempts
        /\ task[t] # Idle
        /\ row[a] \in Rows
    BY AwaitsKnown DEF OwnInv, TypeInv, TypeOK
  <1>2. UNCHANGED row => RowsKept
    BY KeepsSame DEF RowsKept
  <1>3. \A at : [task[t] EXCEPT !.at = at].at = at
                /\ [task[t] EXCEPT !.at = at].att = a
    BY <1>1 DEF TaskRecords
  <1>4. CASE Terminal(row[a]) /\ PreparationDue(row[a])
    <2>1. /\ SetTask(t, [task[t] EXCEPT !.at = "resuming"])
          /\ UNCHANGED <<row, registering>>
          /\ Landed(row'[a])
      BY <1>4 DEF Resolve, PreparationDue
    <2> QED
      BY <1>1, <1>2, <1>3, <2>1, MovesOn
         DEF WithJob, WithResult, WithoutJob, CancelAwaits
  <1>5. CASE Terminal(row[a]) /\ ~PreparationDue(row[a])
    <2>1. /\ task' = AfterResolve(t, "untouched")
          /\ IF row[a].state = "ready" THEN KickCarry(a, row[a])
                                       ELSE UNCHANGED <<row, registering>>
      BY <1>5 DEF Resolve
    <2>2. row[a].state # "none"
      BY <1>5 DEF Terminal, TerminalStates
    <2>3. /\ RowsKept
          /\ \A b \in registering' : b \in registering \/ Landed(row'[b])
      BY <1>1, <1>2, <2>1, <2>2, KeepsSame, KickCarryKeeps
    <2> QED
      BY <2>1, <2>3, ReturnStep
  <1>6. CASE ~Terminal(row[a])
    <2>1. /\ UNCHANGED <<row, registering>>
          /\ IF row[a].job = NoJob
                THEN task' = AfterResolve(t, "untouched")
                ELSE SetTask(t, [task[t] EXCEPT !.at = "history"])
      BY <1>6 DEF Resolve
    <2>2. CASE row[a].job = NoJob
      BY <1>2, <2>1, <2>2, ReturnStep
    <2>3. CASE row[a].job # NoJob
      <3> DEFINE w == [task[t] EXCEPT !.at = "history"]
      <3>1. /\ UNCHANGED <<row, registering>> /\ SetTask(t, w)
            /\ w.at = "history" /\ w.att = a
        BY <1>3, <2>1, <2>3
      <3> HIDE DEF w
      <3> QED
        BY <1>1, <1>2, <2>3, <3>1, MovesOn
           DEF WithJob, WithResult, WithoutJob, CancelAwaits
    <2> QED
      BY <2>2, <2>3
  <1> QED
    BY <1>4, <1>5, <1>6

(* A step of a call slot. *)
LEMMA SlotStep ==
    ASSUME OwnInv, TypeInv', RowsKept, serverUp, serverUp' = serverUp,
           UNCHANGED <<jobOf, dispatch, todo, registering>>,
           \A j \in Jobs : job'[j] = "free" => job[j] = "free",
           NEW c \in Calls, NEW w, SetTask(c, w),
           w.at \in WithJob => row'[w.att].job # NoJob,
           w.at \in WithResult => Landed(row'[w.att]),
           w.at \notin WithoutJob \cup SweepAwaits
               \/ (w.at \notin WithoutJob /\ row'[w.att].state # "none")
    PROVE  OwnInv' /\ JobIsKept
  <1>1. /\ c \in Tasks /\ c \notin Attempts /\ c # Sweep
        /\ task' = [task EXCEPT ![c] = w]
        /\ task \in [Tasks -> TaskRecords]
        /\ Sweep \in Tasks /\ Attempts \subseteq Tasks
    BY TasksAssumption DEF Tasks, SetTask, OwnInv, TypeInv, TypeOK
  <1>2. Relies(c, task[c])'
    BY <1>1 DEF Relies
  <1>3. SweepInv'
    BY <1>1, SweepUntouched
  <1> QED
    BY <1>1, <1>2, <1>3, QuietStep

(* The steps of cancels, announced completions and retries.                *)
LEMMA CallStepOwn ==
    ASSUME OwnInv, TypeInv', NEW c \in Calls, CallStep(c)
    PROVE  OwnInv' /\ JobIsKept
  <1> DEFINE a == task[c].att
  <1>1. /\ TypeInv /\ TypeOK
        /\ c \in Tasks
        /\ task[c] \in TaskRecords
        /\ task[c].at \notin {"idle", "next"} => a \in Attempts /\ serverUp
        /\ task[c].at \in CancelAwaits \cup {"settling"} => row[a].job # NoJob
        /\ task[c].at = "reprepare" => Landed(row[a])
    <2>1. c \in Tasks /\ TypeInv /\ TypeOK
      BY DEF Tasks, OwnInv, TypeInv
    <2>2. Relies(c, task[c])
      BY <2>1 DEF OwnInv, TasksRely
    <2>3. ~serverUp => task[c].at = "idle"
      BY <2>1 DEF OwnInv, DownIsIdle, Idle
    <2> QED
      BY <2>1, <2>2, <2>3, AwaitsKnown DEF Relies, WithJob, WithResult
  <1>2. a \in Attempts /\ (row[a].job # NoJob \/ Landed(row[a]))
        => row[a] \in Rows /\ row[a].state # "none"
    BY RecordedRow
  <1>3. UNCHANGED row => RowsKept
    BY KeepsSame DEF RowsKept
  <1> HIDE DEF a
  <1>4. ASSUME NEW b \in Attempts,
               \/ OnCompletion(c, b)
               \/ CancelWithJob(c, b)
               \/ RetryPreparation(c, b)
        PROVE  OwnInv' /\ JobIsKept
    <2>1. PICK w : /\ SetTask(c, w) /\ w.att = b
                   /\ \/ w.at \in {"settling", "interrupt"} /\ row[b].job # NoJob
                      \/ w.at = "reprepare" /\ Landed(row[b])
      <3> DEFINE settling  == Started("settling", b, "event")
                 interrupt == [Started("interrupt", b, "cancel") EXCEPT !.n = 1]
                 reprepare == Started("reprepare", b, "retry")
      <3>1. /\ settling.att = b /\ settling.at = "settling"
            /\ interrupt.att = b /\ interrupt.at = "interrupt"
            /\ reprepare.att = b /\ reprepare.at = "reprepare"
        BY DEF Started, Idle
      <3>2. \/ SetTask(c, settling) /\ row[b].job # NoJob
            \/ SetTask(c, interrupt) /\ row[b].job # NoJob
            \/ SetTask(c, reprepare) /\ Landed(row[b])
        BY <1>4 DEF OnCompletion, CancelWithJob, RetryPreparation
      <3> HIDE DEF settling, interrupt, reprepare
      <3> QED
        BY <3>1, <3>2
    <2>2. /\ UNCHANGED <<jobOf, dispatch, todo, registering, job, row, serverUp>>
          /\ serverUp
      BY <1>4 DEF OnCompletion, CancelWithJob, RetryPreparation, engineVars
    <2> QED
      BY <1>3, <2>1, <2>2, SlotStep
         DEF WithJob, WithResult, WithoutJob, CancelAwaits, SweepAwaits,
             ResolveAwaits
  <1>5. CASE Settled(c)
    BY <1>1, <1>5, ResolveOwn DEF Settled, At, engineVars
  <1>6. CASE CancelDeposes(c)
    <2>1. PICK w : /\ SetTask(c, w) /\ w.att = a /\ w.at \in CancelAwaits
                   /\ task[c].at \in CancelAwaits
      <3>1. PICK at \in CancelAwaits, n \in Nat :
               SetTask(c, [task[c] EXCEPT !.at = at, !.n = n])
        BY <1>1, <1>6, DeposingMoves DEF CancelDeposes
      <3> DEFINE w == [task[c] EXCEPT !.at = at, !.n = n]
      <3>2. w.at = at /\ w.att = a
        BY <1>1 DEF TaskRecords, a
      <3>3. task[c].at \in CancelAwaits
        BY <1>6 DEF CancelDeposes, Deposing, At, CancelAwaits
      <3> HIDE DEF w
      <3> QED
        BY <3>1, <3>2, <3>3 DEF w
    <2>2. /\ UNCHANGED <<jobOf, dispatch, todo, registering, row, serverUp>>
          /\ job' = job \/ \E j : Dequeued(j)
      BY <1>6 DEF CancelDeposes, Deposing
    <2>3. \A j \in Jobs : job'[j] = "free" => job[j] = "free"
      BY <1>1, <2>2 DEF Dequeued, TypeOK, EngineTypeOK
    <2>4. w.at \notin WithResult \cup WithoutJob \cup SweepAwaits
      BY <2>1 DEF CancelAwaits, WithResult, WithoutJob, SweepAwaits,
                  ResolveAwaits
    <2>5. row'[w.att].job # NoJob /\ serverUp
      BY <1>1, <2>1, <2>2 DEF CancelAwaits
    <2> QED
      BY <1>3, <2>1, <2>2, <2>3, <2>4, <2>5, SlotStep
  <1>7. CASE CancelRemembers(c)
    <2>1. task[c].at = "remember" /\ a \in Attempts /\ serverUp
          /\ row[a].job # NoJob
      BY <1>1, <1>7 DEF CancelRemembers, At, CancelAwaits
    <2>2. RowsKept
      BY <1>1, <1>2, <1>3, <1>7, <2>1, SettledRowKeeps, SetRowKeeps
         DEF CancelRemembers, a
    <2>3. UNCHANGED <<jobOf, dispatch, todo, registering, job, serverUp>>
      BY <1>7 DEF CancelRemembers, engineVars
    <2>4. \/ SetTask(c, Idle)
          \/ SetTask(c, [task[c] EXCEPT !.at = "settling"])
      BY <1>7 DEF CancelRemembers
    <2>5. /\ [task[c] EXCEPT !.at = "settling"].at = "settling"
          /\ [task[c] EXCEPT !.at = "settling"].att = a
          /\ Idle.at = "idle"
      BY <1>1 DEF TaskRecords, a, Idle
    <2>6. row'[a].job # NoJob
      BY <2>1, <2>2 DEF RowsKept, Keeps
    <2> QED
      BY <2>1, <2>2, <2>3, <2>4, <2>5, <2>6, SlotStep
         DEF WithJob, WithResult, WithoutJob, CancelAwaits, SweepAwaits,
             ResolveAwaits
  <1>8. CASE CancelThrows(c)
    <2>1. task[c].at \in CancelAwaits
      BY <1>8 DEF CancelThrows, CancelAwaits
    <2>2. a \in Attempts /\ serverUp /\ row[a].job # NoJob
      BY <1>1, <2>1 DEF CancelAwaits
    <2>3. RowsKept
      BY <1>1, <1>2, <1>8, <2>2, WritesKeep, SetRowKeeps
         DEF CancelThrows, States, InFlightStates, a
    <2>4. /\ UNCHANGED <<jobOf, dispatch, todo, registering, job, serverUp>>
          /\ SetTask(c, Idle)
          /\ Idle.at = "idle"
      BY <1>8 DEF CancelThrows, engineVars, Idle
    <2> QED
      BY <2>2, <2>3, <2>4, SlotStep
         DEF WithJob, WithResult, WithoutJob, CancelAwaits, SweepAwaits,
             ResolveAwaits
  <1>9. ASSUME NEW p \in Prepared, Reprepared(c, p)
        PROVE  OwnInv' /\ JobIsKept
    <2>1. task[c].at = "reprepare" /\ a \in Attempts /\ serverUp
          /\ Landed(row[a])
      BY <1>1, <1>9 DEF Reprepared, At
    <2>2. RowsKept
      BY <1>1, <1>2, <1>9, <2>1, WritesKeep, SetRowKeeps
         DEF Reprepared, Prepared, Preparations, a
    <2>3. /\ UNCHANGED <<jobOf, dispatch, todo, registering, job, serverUp>>
          /\ SetTask(c, Idle)
          /\ Idle.at = "idle"
      BY <1>9 DEF Reprepared, engineVars, Idle
    <2> QED
      BY <2>1, <2>2, <2>3, SlotStep
         DEF WithJob, WithResult, WithoutJob, CancelAwaits, SweepAwaits,
             ResolveAwaits
  <1> QED
    BY <1>4, <1>5, <1>6, <1>7, <1>8, <1>9 DEF CallStep

-----------------------------------------------------------------------------
(* An idle sweep concerns no attempt. *)
LEMMA SweepIdle ==
    ASSUME TypeInv, At(Sweep, "idle")
    PROVE  task[Sweep] = Idle /\ task[Sweep].att \notin Attempts
  <1>1. InRole(Sweep, task[Sweep])
    BY AwaitsKnown DEF Tasks
  <1>2. task[Sweep] = Idle
    BY <1>1, TasksAssumption
       DEF At, InRole, WatchRole, CallRole, SweepRole, SweepAwaits,
           ResolveAwaits, NextOfSweep, Started, Idle
  <1> QED
    BY <1>2, NoAttemptAssumption DEF Idle

(* What holds while attempt a is dispatched. *)
LEMMA Dispatching ==
    ASSUME OwnInv, NEW a \in Attempts, dispatch[a].at # "idle"
    PROVE  /\ TypeInv /\ TypeOK /\ serverUp
           /\ row[a] \in Rows
           /\ row[a].job = NoJob /\ ~Landed(row[a]) /\ row[a].state # "none"
           /\ At(Sweep, "idle")
                 \/ (At(Sweep, "redispatch") /\ task[Sweep].att = a)
           /\ a \notin todo
           /\ task[a] = Idle
  <1>1. TypeInv /\ TypeOK /\ row[a] \in Rows /\ a \in Tasks
    BY DEF OwnInv, TypeInv, TypeOK, Tasks
  <1>2. serverUp
    BY DEF OwnInv, DownIsIdle, NoDispatch
  <1>3. row[a].job = NoJob /\ row[a].state # "none"
    BY DEF OwnInv, DispatchInv, DispatchOfRow
  <1>4. ~Landed(row[a])
    BY <1>3 DEF OwnInv, RowInv, JobIsOwn, Landed
  <1>5. At(Sweep, "idle") \/ (At(Sweep, "redispatch") /\ task[Sweep].att = a)
    BY DEF OwnInv, SweepInv, SweepAlone
  <1>6. a \notin todo
    BY <1>5 DEF OwnInv, SweepInv, SweepFirst
  <1>7. task[a] = Idle
    BY <1>1, <1>3 DEF OwnInv, TasksRely, Relies
  <1> QED
    BY <1>1, <1>2, <1>3, <1>4, <1>5, <1>6, <1>7

(* A dispatch that goes on or ends without a job: it may write its row. *)
LEMMA DispatchMoves ==
    ASSUME OwnInv, TypeInv', NEW a \in Attempts, dispatch[a].at # "idle",
           NEW r \in Rows, SetRow(a, r),
           r.job = NoJob, r.result = row[a].result, r.state # "none",
           r.verdict # "none" => r.state = "reconciling",
           UNCHANGED <<jobOf, serverUp, task, registering, todo>>,
           \A j \in Jobs : job'[j] = "free" => job[j] = "free",
           NEW d, dispatch' = [dispatch EXCEPT ![a] = d],
           d.at \in {"acked", "depose"} =>
               dispatch[a].at = "acked" /\ d.job = dispatch[a].job
    PROVE  OwnInv' /\ JobIsKept
  <1>1. /\ TypeInv /\ TypeOK /\ serverUp
        /\ row[a] \in Rows
        /\ row[a].job = NoJob /\ ~Landed(row[a]) /\ row[a].state # "none"
    BY Dispatching
  <1>2. row' = [row EXCEPT ![a] = r] /\ row \in [Attempts -> Rows]
        /\ DOMAIN dispatch = Attempts
    BY <1>1 DEF SetRow, TypeOK
  <1>3. ~Landed(r)
    BY <1>1 DEF Landed
  <1>4. RowInv'
    <2>1. UnrecordedIsBlank'
      BY <1>2 DEF OwnInv, RowInv, UnrecordedIsBlank
    <2>2. JobIsOwn'
      BY <1>2, <1>3 DEF OwnInv, RowInv, JobIsOwn
    <2>3. VerdictMeansNoJob'
      BY <1>2 DEF OwnInv, RowInv, VerdictMeansNoJob
    <2> QED
      BY <2>1, <2>2, <2>3 DEF RowInv
  <1>5. RegisteringHasLanded'
    BY <1>1, <1>2 DEF OwnInv, RegisteringHasLanded, TypeOK
  <1>6. DispatchInv'
    <2>1. FreeIsUnowned'
      BY DEF OwnInv, DispatchInv, FreeIsUnowned
    <2>2. DispatchOfRow'
      BY <1>2 DEF OwnInv, DispatchInv, DispatchOfRow
    <2>3. DispatchOwn'
      BY <1>2 DEF OwnInv, DispatchInv, DispatchOwn
    <2> QED
      BY <2>1, <2>2, <2>3 DEF DispatchInv
  <1>7. SweepInv'
    BY <1>2 DEF OwnInv, SweepInv, SweepAlone, SweepFirst, At
  <1>8. TasksRely'
    <2> SUFFICES ASSUME NEW t \in Tasks
                 PROVE  Relies(t, task[t])'
      BY DEF TasksRely, Tasks
    <2>1. Relies(t, task[t]) /\ task' = task
      BY DEF OwnInv, TasksRely
    <2>2. task[t].at \notin {"idle", "next"} => task[t].att \in Attempts
      BY <1>1, AwaitsKnown
    <2> QED
      BY <1>1, <1>2, <1>3, <2>1, <2>2
         DEF Relies, WithJob, WithResult, WithoutJob, SweepAwaits, ResolveAwaits,
             CancelAwaits
  <1>9. JobIsKept
    BY <1>1, <1>2 DEF JobIsKept
  <1> QED
    BY <1>1, <1>4, <1>5, <1>6, <1>7, <1>8, <1>9 DEF OwnInv, DownIsIdle

(* The engine accepts the prompt under a fresh id. *)
LEMMA DeliveredOwn ==
    ASSUME OwnInv, TypeInv', NEW a \in Attempts, NEW j \in Jobs, Delivered(a, j)
    PROVE  OwnInv' /\ JobIsKept
  <1>1. /\ TypeInv /\ TypeOK /\ serverUp
        /\ row[a].job = NoJob /\ row[a].state # "none"
        /\ job[j] = "free"
        /\ jobOf[j] = NoAttempt
        /\ dispatch[a].at # "idle"
    <2>1. DispatchAt(a, "send") /\ job[j] = "free"
      BY DEF Delivered, AcceptPrompt
    <2> QED
      BY <2>1, Dispatching
         DEF DispatchAt, OwnInv, DispatchInv, FreeIsUnowned
  <1>2. /\ jobOf' = [jobOf EXCEPT ![j] = a] /\ DOMAIN jobOf = Jobs
        /\ job' = [job EXCEPT ![j] = "pending"] /\ DOMAIN job = Jobs
        /\ dispatch' = [dispatch EXCEPT ![a] = [at |-> "acked", job |-> j]]
        /\ DOMAIN dispatch = Attempts
        /\ UNCHANGED <<row, task, registering, todo, serverUp>>
    BY <1>1 DEF Delivered, AcceptPrompt, SetDispatch, TypeOK, EngineTypeOK
  <1>3. RowInv'
    BY <1>1, <1>2, NoAttemptAssumption
       DEF OwnInv, RowInv, UnrecordedIsBlank, JobIsOwn, VerdictMeansNoJob
  <1>4. DispatchInv'
    <2>1. FreeIsUnowned'
      BY <1>2 DEF OwnInv, DispatchInv, FreeIsUnowned
    <2>2. DispatchOfRow'
      BY <1>1, <1>2 DEF OwnInv, DispatchInv, DispatchOfRow
    <2>3. DispatchOwn'
      BY <1>1, <1>2, NoAttemptAssumption DEF OwnInv, DispatchInv, DispatchOwn
    <2> QED
      BY <2>1, <2>2, <2>3 DEF DispatchInv
  <1>5. SweepInv'
    BY <1>1, <1>2 DEF OwnInv, SweepInv, SweepAlone, SweepFirst, At
  <1>6. TasksRely' /\ RegisteringHasLanded'
    BY <1>2 DEF OwnInv, TasksRely, Relies, RegisteringHasLanded
  <1>7. JobIsKept
    BY <1>1, <1>2 DEF JobIsKept
  <1> QED
    BY <1>1, <1>2, <1>3, <1>4, <1>5, <1>6, <1>7 DEF OwnInv, DownIsIdle

(* The engine's answer reaches a row that still wants the job. *)
LEMMA AckedOwn ==
    ASSUME OwnInv, TypeInv', NEW a \in Attempts,
           DispatchAcked(a), ~Terminal(row[a])
    PROVE  OwnInv' /\ JobIsKept
  <1> DEFINE j == dispatch[a].job
             r == SetJob(row[a], "queued", j)
  <1>1. dispatch[a].at = "acked"
    BY DEF DispatchAcked, DispatchAt
  <1>2. /\ TypeInv /\ TypeOK /\ serverUp
        /\ row[a] \in Rows
        /\ row[a].job = NoJob /\ ~Landed(row[a])
        /\ At(Sweep, "idle")
              \/ (At(Sweep, "redispatch") /\ task[Sweep].att = a)
        /\ a \notin todo
        /\ j \in Jobs /\ jobOf[j] = a
    BY <1>1, Dispatching DEF OwnInv, DispatchInv, DispatchOwn
  <1>3. /\ r.job = j /\ r.result = row[a].result /\ r.state = "queued"
        /\ r.verdict = "none" /\ ~Landed(r) /\ j # NoJob
    BY <1>2, NoJobAssumption DEF SetJob, SetExecution, Rows, Landed
  <1>4. /\ row' = [row EXCEPT ![a] = r] /\ DOMAIN row = Attempts
        /\ task' = [task EXCEPT ![a] = Watching(a)] /\ DOMAIN task = Tasks
        /\ dispatch' = [dispatch EXCEPT ![a] = NoDispatch]
        /\ DOMAIN dispatch = Attempts
        /\ UNCHANGED <<job, jobOf, registering, todo, serverUp>>
    BY <1>2
       DEF DispatchAcked, SetRow, SetTask, EndDispatch, TypeOK, EngineTypeOK,
           engineVars
  <1> HIDE DEF r, j
  <1>5. RowInv'
    <2>1. UnrecordedIsBlank'
      BY <1>3, <1>4 DEF OwnInv, RowInv, UnrecordedIsBlank
    <2>2. JobIsOwn'
      BY <1>2, <1>3, <1>4 DEF OwnInv, RowInv, JobIsOwn
    <2>3. VerdictMeansNoJob'
      BY <1>3, <1>4 DEF OwnInv, RowInv, VerdictMeansNoJob
    <2> QED
      BY <2>1, <2>2, <2>3 DEF RowInv
  <1>6. RegisteringHasLanded'
    BY <1>2, <1>4 DEF OwnInv, RegisteringHasLanded, TypeOK
  <1>7. NoDispatch.at = "idle"
    BY DEF NoDispatch
  <1>8. DispatchInv'
    BY <1>4, <1>7 DEF OwnInv, DispatchInv, FreeIsUnowned, DispatchOfRow, DispatchOwn
  <1>9. task'[Sweep] = task[Sweep] /\ a # Sweep
        /\ Watching(a).at = "history" /\ Watching(a).att = a
    BY <1>4, TasksAssumption DEF Watching, Started, Idle
  <1>10. SweepInv'
    <2>1. SweepAlone'
      BY <1>4, <1>7, <1>9 DEF OwnInv, SweepInv, SweepAlone, At
    <2>2. At(Sweep, "idle") => task[Sweep].att \notin Attempts
      BY <1>2, SweepIdle
    <2>3. SweepFirst'
      BY <1>2, <1>3, <1>4, <1>9, <2>2 DEF OwnInv, SweepInv, SweepFirst, At, Tasks
    <2> QED
      BY <2>1, <2>3 DEF SweepInv
  <1>11. TasksRely'
    <2> SUFFICES ASSUME NEW t \in Tasks
                 PROVE  Relies(t, task[t])'
      BY DEF TasksRely, Tasks
    <2>1. CASE t = a
      BY <1>3, <1>4, <1>9, <2>1
         DEF Relies, WithJob, WithResult, WithoutJob, SweepAwaits, ResolveAwaits,
             CancelAwaits
    <2>2. CASE t # a
      <3>1. Relies(t, task[t]) /\ task'[t] = task[t]
        BY <1>4, <2>2 DEF OwnInv, TasksRely
      <3>2. /\ task[t].at \notin {"idle", "next"} => task[t].att \in Attempts
            /\ task[t].at \in WithoutJob => task[t].att # a
        BY <1>2, AwaitsKnown DEF WithoutJob, At
      <3> QED
        BY <1>2, <1>3, <1>4, <3>1, <3>2
           DEF Relies, WithJob, WithResult, WithoutJob, SweepAwaits,
               ResolveAwaits, CancelAwaits
    <2> QED
      BY <2>1, <2>2
  <1>12. JobIsKept
    BY <1>2, <1>4 DEF JobIsKept
  <1> QED
    BY <1>2, <1>4, <1>5, <1>6, <1>8, <1>10, <1>11, <1>12 DEF OwnInv, DownIsIdle

(* The steps of a dispatch.                                                *)
LEMMA DispatchStepOwn ==
    ASSUME OwnInv, TypeInv', NEW a \in Attempts, DispatchStep(a)
    PROVE  OwnInv' /\ JobIsKept
  <1>1. dispatch[a].at # "idle"
    BY DEF DispatchStep, DispatchUploads, DispatchResolves, DispatchGate,
           DispatchRefused, DispatchThrows, Delivered, DispatchAcked,
           DispatchDeposes, DispatchAt
  <1>2. /\ TypeOK /\ row[a] \in Rows
        /\ row[a].job = NoJob /\ row[a].state # "none"
        /\ row[a].verdict # "none" => row[a].state = "reconciling"
        /\ row \in [Attempts -> Rows]
    BY <1>1, Dispatching DEF TypeOK, OwnInv, RowInv, VerdictMeansNoJob
  <1>3. ASSUME UNCHANGED row
        PROVE  SetRow(a, row[a])
    BY <1>2, <1>3 DEF SetRow
  <1>4. NoDispatch.at = "idle" /\ NoDispatch.job = NoJob
    BY DEF NoDispatch
  <1>5. CASE DispatchUploads(a) \/ DispatchResolves(a)
    <2>1. /\ UNCHANGED <<jobOf, serverUp, task, registering, todo, job, row>>
          /\ \E d : /\ dispatch' = [dispatch EXCEPT ![a] = d]
                    /\ d.at \notin {"acked", "depose"}
      BY <1>4, <1>5
         DEF DispatchUploads, DispatchResolves, DispatchGate, SetDispatch,
             EndDispatch, engineVars
    <2> QED
      BY <1>1, <1>2, <1>3, <2>1, DispatchMoves
  <1>6. CASE DispatchRefused(a)
    <2> DEFINE r == SetExecution(row[a], "failed")
    <2>1. /\ SetRow(a, r)
          /\ dispatch' = [dispatch EXCEPT ![a] = NoDispatch]
          /\ UNCHANGED <<jobOf, serverUp, task, registering, todo, job>>
      BY <1>6 DEF DispatchRefused, EndDispatch, engineVars
    <2>2. /\ r \in Rows /\ r.job = NoJob /\ r.result = row[a].result
          /\ r.state # "none" /\ r.verdict = "none"
      BY <1>2, ExecutionType DEF SetExecution, States, TerminalStates, Rows
    <2> HIDE DEF r
    <2> QED
      BY <1>1, <1>4, <2>1, <2>2, DispatchMoves
  <1>7. CASE DispatchThrows(a)
    <2>1. PICK v \in Verdicts : SetRow(a, SetVerdict(row[a], v))
      BY <1>7 DEF DispatchThrows, Verdicts
    <2> DEFINE r == SetVerdict(row[a], v)
    <2>2. /\ r \in Rows /\ r.job = NoJob /\ r.result = row[a].result
          /\ r.state = "reconciling"
      BY <1>2, VerdictType DEF SetVerdict, Rows
    <2>3. /\ SetRow(a, r)
          /\ dispatch' = [dispatch EXCEPT ![a] = NoDispatch]
          /\ UNCHANGED <<jobOf, serverUp, task, registering, todo, job>>
      BY <1>7, <2>1 DEF DispatchThrows, EndDispatch, engineVars
    <2> HIDE DEF r
    <2> QED
      BY <1>1, <1>4, <2>2, <2>3, DispatchMoves
  <1>8. CASE DispatchAcked(a) /\ Terminal(row[a])
    <2> DEFINE d == [at |-> "depose", job |-> dispatch[a].job]
    <2>1. /\ dispatch' = [dispatch EXCEPT ![a] = d]
          /\ dispatch[a].at = "acked" /\ d.job = dispatch[a].job
          /\ UNCHANGED <<jobOf, serverUp, task, registering, todo, job, row>>
      BY <1>8 DEF DispatchAcked, SetDispatch, DispatchAt, engineVars
    <2> HIDE DEF d
    <2> QED
      BY <1>1, <1>2, <1>3, <2>1, DispatchMoves
  <1>9. CASE DispatchDeposes(a)
    <2>1. /\ dispatch' = [dispatch EXCEPT ![a] = NoDispatch]
          /\ UNCHANGED <<jobOf, serverUp, task, registering, todo, row>>
          /\ job' = job \/ \E j : Dequeued(j)
      BY <1>9 DEF DispatchDeposes, EndDispatch
    <2>2. \A j \in Jobs : job'[j] = "free" => job[j] = "free"
      BY <1>2, <2>1 DEF Dequeued, TypeOK, EngineTypeOK
    <2> QED
      BY <1>1, <1>2, <1>3, <1>4, <2>1, <2>2, DispatchMoves
  <1> QED
    BY <1>5, <1>6, <1>7, <1>8, <1>9, DeliveredOwn, AckedOwn DEF DispatchStep

(* The first write of an attempt's row. *)
LEMMA SubmitOwn ==
    ASSUME OwnInv, TypeInv', NEW a \in Attempts, Submit(a)
    PROVE  OwnInv' /\ JobIsKept
  <1> DEFINE d == [at |-> "upload", job |-> NoJob]
  <1>1. /\ TypeInv /\ TypeOK /\ serverUp
        /\ At(Sweep, "idle") /\ task[Sweep].att \notin Attempts
        /\ row[a] = NoRow
        /\ todo = {}
    <2>1. TypeInv /\ TypeOK /\ serverUp /\ At(Sweep, "idle") /\ row[a] = NoRow
      BY DEF OwnInv, TypeInv, Submit, Ready, At, RowInv, UnrecordedIsBlank
    <2> QED
      BY <2>1, SweepIdle DEF OwnInv, SweepInv, SweepFirst, TypeOK
  <1>2. /\ row' = [row EXCEPT ![a] = RecordAttempt] /\ DOMAIN row = Attempts
        /\ dispatch' = [dispatch EXCEPT ![a] = d] /\ DOMAIN dispatch = Attempts
        /\ UNCHANGED <<job, jobOf, task, registering, todo, serverUp>>
    BY <1>1 DEF Submit, SetRow, SetDispatch, TypeOK, engineVars
  <1>3. /\ RecordAttempt.state = "queued" /\ RecordAttempt.job = NoJob
        /\ ~Landed(RecordAttempt) /\ RecordAttempt.verdict = "none"
        /\ NoRow.job = NoJob /\ ~Landed(NoRow) /\ NoRow.state = "none"
        /\ d.at = "upload"
    BY DEF RecordAttempt, NoRow, Landed
  <1> HIDE DEF d
  <1>4. RowInv'
    BY <1>2, <1>3
       DEF OwnInv, RowInv, UnrecordedIsBlank, JobIsOwn, VerdictMeansNoJob
  <1>5. RegisteringHasLanded'
    BY <1>1, <1>2, <1>3 DEF OwnInv, RegisteringHasLanded, TypeOK
  <1>6. DispatchInv'
    BY <1>2, <1>3
       DEF OwnInv, DispatchInv, FreeIsUnowned, DispatchOfRow, DispatchOwn
  <1>7. SweepInv'
    BY <1>1, <1>2 DEF OwnInv, SweepInv, SweepAlone, SweepFirst, At
  <1>8. TasksRely'
    <2> SUFFICES ASSUME NEW t \in Tasks
                 PROVE  Relies(t, task[t])'
      BY DEF TasksRely, Tasks
    <2>1. Relies(t, task[t]) /\ task'[t] = task[t]
      BY <1>2 DEF OwnInv, TasksRely
    <2>2. task[t].at \notin {"idle", "next"} => task[t].att \in Attempts
      BY <1>1, AwaitsKnown
    <2> QED
      BY <1>1, <1>2, <1>3, <2>1, <2>2
         DEF Relies, WithJob, WithResult, WithoutJob, SweepAwaits,
             ResolveAwaits, CancelAwaits
  <1>9. JobIsKept
    BY <1>1, <1>2, <1>3 DEF JobIsKept
  <1> QED
    BY <1>1, <1>2, <1>4, <1>5, <1>6, <1>7, <1>8, <1>9 DEF OwnInv, DownIsIdle

(* A write of one row by a route, an event or a registration: no task moves. *)
LEMMA RowStep ==
    ASSUME OwnInv, TypeInv', RowsKept, serverUp, serverUp' = serverUp,
           UNCHANGED <<job, jobOf, dispatch, task, todo>>,
           \A a \in registering' : a \in registering \/ Landed(row'[a])
    PROVE  OwnInv' /\ JobIsKept
  <1>1. SweepInv'
    BY SweepUntouched
  <1> QED
    BY <1>1, QuietStep

(* The other steps that concern one attempt.                               *)
LEMMA AttemptStepOwn ==
    ASSUME OwnInv, TypeInv', NEW a \in Attempts, AttemptStep(a)
    PROVE  OwnInv' /\ JobIsKept
  <1>1. TypeInv /\ TypeOK /\ row[a] \in Rows /\ a \in Tasks
        /\ row \in [Attempts -> Rows]
    BY DEF OwnInv, TypeInv, TypeOK, Tasks
  <1>2. CASE PollTick(a)
    <2>1. task[a].at = "poll" /\ task[a].att = a
      BY <1>1, <1>2, AwaitsKnown DEF PollTick, At
    <2> QED
      BY <1>1, <1>2, <2>1, ResolveOwn DEF PollTick, engineVars
  <1>3. CASE OnProgress(a) \/ CancelWithoutJob(a)
    <2>1. row[a].state # "none"
      BY <1>1, <1>3, RecordedRow
         DEF OnProgress, CancelWithoutJob, InFlight, InFlightStates
    <2>2. RowsKept
      BY <1>1, <1>3, <2>1, WritesKeep, SetRowKeeps
         DEF OnProgress, CancelWithoutJob, States, InFlightStates, TerminalStates
    <2> QED
      BY <1>3, <2>2, RowStep DEF OnProgress, CancelWithoutJob, engineVars
  <1>4. CASE RetryRegistration(a)
    <2>1. row[a].state # "none"
      BY <1>1, <1>4, RecordedRow
         DEF RetryRegistration, CarryDue, ContinuationPending
    <2>2. RowsKept /\ \A b \in registering' : b \in registering \/ Landed(row'[b])
      BY <1>1, <1>4, <2>1, KeepsSame, KickCarryKeeps DEF RetryRegistration
    <2> QED
      BY <1>4, <2>2, RowStep DEF RetryRegistration, engineVars
  <1>5. ASSUME NEW c \in Continuations, Registers(a, c)
        PROVE  OwnInv' /\ JobIsKept
    <2>1. row[a].state # "none" /\ serverUp
      BY <1>1, <1>5, RecordedRow
         DEF Registers, OwnInv, RegisteringHasLanded, DownIsIdle
    <2>2. RowsKept
      BY <1>1, <1>5, <2>1, WritesKeep, SetRowKeeps DEF Registers
    <2> QED
      BY <1>5, <2>1, <2>2, RowStep DEF Registers, engineVars
  <1>6. CASE CarryRegistered(a) \/ CarryNotProduced(a) \/ CarryExhausted(a)
    BY <1>5, <1>6
       DEF CarryRegistered, CarryNotProduced, CarryExhausted, Continuations
  <1>7. CASE RemoveTarget(a)
    <2>1. RowsKept
      BY <1>7, KeepsSame DEF RemoveTarget, RowsKept
    <2> QED
      BY <1>7, <2>1, RowStep DEF RemoveTarget, engineVars
  <1> QED
    BY <1>2, <1>3, <1>4, <1>6, <1>7, SubmitOwn, DispatchStepOwn DEF AttemptStep

-----------------------------------------------------------------------------
(* What holds while the sweep works on an attempt. *)
LEMMA Sweeping ==
    ASSUME OwnInv, ~At(Sweep, "idle")
    PROVE  /\ TypeInv /\ TypeOK /\ serverUp
           /\ Sweep \in Tasks /\ Sweep \notin Attempts
           /\ task[Sweep] \in TaskRecords
           /\ task[Sweep].by = "sweep"
           /\ task[Sweep].at \in SweepAwaits =>
                 /\ task[Sweep].att \in Attempts
                 /\ row[task[Sweep].att] \in Rows
                 /\ row[task[Sweep].att].state # "none"
           /\ task[Sweep].at \in WithoutJob =>
                 row[task[Sweep].att].job = NoJob
           /\ ~At(Sweep, "redispatch") =>
                 \A a \in Attempts : dispatch[a].at = "idle"
  <1>1. /\ TypeInv /\ TypeOK /\ Sweep \in Tasks /\ Sweep \notin Attempts
        /\ task[Sweep].at # "idle" /\ task[Sweep] # Idle
    BY TasksAssumption DEF OwnInv, TypeInv, Tasks, At, Idle
  <1>2. task[Sweep] \in TaskRecords /\ InRole(Sweep, task[Sweep])
    BY <1>1, AwaitsKnown
  <1>3. serverUp
    BY <1>1 DEF OwnInv, DownIsIdle
  <1>4. task[Sweep].by = "sweep"
    BY <1>1, <1>2, TasksAssumption DEF InRole, WatchRole, CallRole, SweepRole
  <1>5. Relies(Sweep, task[Sweep])
    BY <1>1 DEF OwnInv, TasksRely
  <1>6. task[Sweep].at \in SweepAwaits => task[Sweep].att \in Attempts
    BY <1>1, AwaitsKnown DEF SweepAwaits, ResolveAwaits
  <1>7. ~At(Sweep, "redispatch") => \A a \in Attempts : dispatch[a].at = "idle"
    BY DEF OwnInv, SweepInv, SweepAlone
  <1> QED
    BY <1>1, <1>2, <1>3, <1>4, <1>5, <1>6, <1>7 DEF Relies, TypeOK

(* The sweep waits for something else, or takes the next attempt. *)
LEMMA SweepMoves ==
    ASSUME OwnInv, TypeInv', RowsKept, UNCHANGED <<job, jobOf, dispatch, serverUp>>,
           ~At(Sweep, "idle"),
           \A a \in Attempts : dispatch[a].at = "idle",
           \A a \in registering' : a \in registering \/ Landed(row'[a]),
           todo' \subseteq todo,
           NEW w, SetTask(Sweep, w),
           w.at \in WithJob => row'[w.att].job # NoJob,
           w.at \in WithResult => Landed(row'[w.att]),
           w.at \in WithoutJob => row'[w.att].job = NoJob,
           \/ /\ w.att \in Attempts
              /\ row[w.att].state # "none"
              /\ task[w.att] = Idle
              /\ w.att \notin todo'
              /\ w.at # "idle"
           \/ w = NextOfSweep
           \/ w = Idle /\ todo' = {}
    PROVE  OwnInv' /\ JobIsKept
  <1>1. /\ TypeInv /\ TypeOK /\ serverUp
        /\ Sweep \in Tasks /\ Sweep \notin Attempts
    BY Sweeping
  <1>2. /\ task' = [task EXCEPT ![Sweep] = w] /\ DOMAIN task = Tasks
        /\ \A a \in Attempts : a \in Tasks /\ task'[a] = task[a]
        /\ task'[Sweep] = w
    BY <1>1 DEF SetTask, TypeOK, Tasks
  <1>3. /\ NextOfSweep.at = "next" /\ NextOfSweep.att = NoAttempt
        /\ Idle.at = "idle" /\ Idle.att = NoAttempt
        /\ NoAttempt \notin Attempts
    BY NoAttemptAssumption DEF NextOfSweep, Started, Idle
  <1>4. \A a \in Attempts : row'[a].state = "none" => row[a].state = "none"
    BY DEF RowsKept, Keeps
  <1>5. Relies(Sweep, task[Sweep])'
    BY <1>1, <1>2, <1>3, <1>4
       DEF Relies, WithJob, WithResult, WithoutJob, SweepAwaits, ResolveAwaits,
           CancelAwaits
  <1>6. SweepAlone'
    BY DEF SweepAlone
  <1>7. SweepFirst'
    BY <1>2, <1>3, <1>4 DEF OwnInv, SweepInv, SweepFirst, At
  <1> QED
    BY <1>1, <1>2, <1>5, <1>6, <1>7, QuietStep DEF SweepInv

(* The sweep takes its next attempt, with or without a job.                *)
LEMMA SweepVisitsOwn ==
    ASSUME OwnInv, TypeInv', NEW b \in Attempts, SweepVisits(b)
    PROVE  OwnInv' /\ JobIsKept
  <1>1. At(Sweep, "next") /\ ~At(Sweep, "idle") /\ ~At(Sweep, "redispatch")
        /\ b \in todo /\ todo' = todo \ {b}
        /\ UNCHANGED <<job, jobOf, dispatch, serverUp>>
    BY DEF SweepVisits, At, engineVars
  <1>2. /\ TypeInv /\ TypeOK /\ serverUp /\ task[Sweep].by = "sweep"
        /\ \A a \in Attempts : dispatch[a].at = "idle"
        /\ row[b] \in Rows /\ row[b].state # "none" /\ task[b] = Idle
        /\ b \notin todo' /\ todo' \subseteq todo
    BY <1>1, Sweeping DEF OwnInv, SweepInv, SweepFirst, TypeOK
  <1>3. UNCHANGED row => RowsKept
    BY KeepsSame DEF RowsKept
  <1> DEFINE w == Started("next", b, "sweep")
  <1>4. \A at : /\ Started(at, b, "sweep").at = at
               /\ Started(at, b, "sweep").att = b
               /\ [w EXCEPT !.at = at] = Started(at, b, "sweep")
    BY DEF Started, Idle
  <1>5. /\ NextOfSweep.at = "next"
        /\ AfterResolve(Sweep, "untouched") = [task EXCEPT ![Sweep] = NextOfSweep]
    BY <1>2 DEF AfterResolve, AfterVisit, NextOfSweep, Started, Idle
  <1>6. CASE row[b].job = NoJob
    <2>1. /\ SetTask(Sweep, Started("find", b, "sweep"))
          /\ UNCHANGED <<row, registering>>
      BY <1>6 DEF SweepVisits
    <2> QED
      BY <1>1, <1>2, <1>3, <1>4, <1>6, <2>1, SweepMoves
         DEF WithJob, WithResult, CancelAwaits
  <1>7. CASE row[b].job # NoJob
    <2> HIDE DEF w
    <2>1. Resolve(Sweep, w, b)
      BY <1>7 DEF SweepVisits, w
    <2>2. CASE Terminal(row[b]) /\ PreparationDue(row[b])
      <3>1. /\ SetTask(Sweep, Started("resuming", b, "sweep"))
            /\ UNCHANGED <<row, registering>>
            /\ Landed(row'[b])
        BY <1>4, <2>1, <2>2 DEF Resolve, PreparationDue
      <3> QED
        BY <1>1, <1>2, <1>3, <1>4, <3>1, SweepMoves
           DEF WithJob, WithoutJob, CancelAwaits
    <2>3. CASE Terminal(row[b]) /\ ~PreparationDue(row[b])
      <3>1. /\ SetTask(Sweep, NextOfSweep)
            /\ IF row[b].state = "ready" THEN KickCarry(b, row[b])
                                         ELSE UNCHANGED <<row, registering>>
        BY <1>5, <2>1, <2>3 DEF Resolve, SetTask
      <3>2. /\ RowsKept
            /\ \A c \in registering' : c \in registering \/ Landed(row'[c])
        BY <1>2, <1>3, <3>1, KeepsSame, KickCarryKeeps
      <3> QED
        BY <1>1, <1>2, <1>5, <3>1, <3>2, SweepMoves
           DEF WithJob, WithResult, WithoutJob, CancelAwaits
    <2>4. CASE ~Terminal(row[b])
      <3>1. /\ SetTask(Sweep, Started("history", b, "sweep"))
            /\ UNCHANGED <<row, registering>>
        BY <1>4, <1>7, <2>1, <2>4 DEF Resolve
      <3> QED
        BY <1>1, <1>2, <1>3, <1>4, <1>7, <3>1, SweepMoves
           DEF WithResult, WithoutJob
    <2> QED
      BY <2>2, <2>3, <2>4
  <1> QED
    BY <1>6, <1>7

(* A search that finds the job of an earlier life of the server. *)
LEMMA SweepFindsOwn ==
    ASSUME OwnInv, TypeInv', NEW j \in Jobs, SweepFinds(j)
    PROVE  OwnInv' /\ JobIsKept
  <1> DEFINE a == task[Sweep].att
             r == SetJob(row[a], "reconciling", j)
             w == Started("history", a, "sweep")
  <1>1. task[Sweep].at = "find" /\ ~At(Sweep, "idle") /\ ~At(Sweep, "redispatch")
        /\ jobOf[j] = a /\ job[j] # "free"
    BY DEF SweepFinds, At, FoundFor, Recorded, Records
  <1>2. /\ TypeInv /\ TypeOK /\ serverUp
        /\ Sweep \in Tasks /\ Sweep \notin Attempts
        /\ a \in Attempts /\ row[a] \in Rows /\ row[a].state # "none"
        /\ row[a].job = NoJob
        /\ \A b \in Attempts : dispatch[b].at = "idle"
    BY <1>1, Sweeping DEF SweepAwaits, WithoutJob
  <1>3. ~Landed(row[a])
    BY <1>2 DEF OwnInv, RowInv, JobIsOwn, Landed
  <1>4. /\ r.job = j /\ r.result = row[a].result /\ r.state = "reconciling"
        /\ r.verdict = "none" /\ ~Landed(r) /\ j # NoJob
        /\ w.at = "history" /\ w.att = a
    BY <1>2, <1>3, NoJobAssumption
       DEF SetJob, SetExecution, Rows, Landed, Started, Idle
  <1>5. /\ row' = [row EXCEPT ![a] = r] /\ DOMAIN row = Attempts
        /\ task' = [task EXCEPT ![Sweep] = w] /\ DOMAIN task = Tasks
        /\ UNCHANGED <<job, jobOf, dispatch, registering, todo, serverUp>>
    BY <1>2 DEF SweepFinds, SetRow, SetTask, TypeOK, engineVars
  <1>6. a \notin todo /\ task[a] = Idle
    BY <1>1, <1>2 DEF OwnInv, SweepInv, SweepFirst
  <1> HIDE DEF a, r, w
  <1>7. RowInv'
    <2>1. UnrecordedIsBlank'
      BY <1>4, <1>5 DEF OwnInv, RowInv, UnrecordedIsBlank
    <2>2. JobIsOwn'
      BY <1>1, <1>4, <1>5 DEF OwnInv, RowInv, JobIsOwn
    <2>3. VerdictMeansNoJob'
      BY <1>4, <1>5 DEF OwnInv, RowInv, VerdictMeansNoJob
    <2> QED
      BY <2>1, <2>2, <2>3 DEF RowInv
  <1>8. RegisteringHasLanded'
    BY <1>2, <1>3, <1>5 DEF OwnInv, RegisteringHasLanded, TypeOK
  <1>9. DispatchInv'
    BY <1>2, <1>5
       DEF OwnInv, DispatchInv, FreeIsUnowned, DispatchOfRow, DispatchOwn
  <1>10. task'[Sweep] = w /\ \A b \in Attempts : task'[b] = task[b]
    BY <1>2, <1>5 DEF Tasks
  <1>11. SweepAlone'
    BY <1>2, <1>5 DEF SweepAlone
  <1>12. SweepFirst'
    BY <1>1, <1>4, <1>5, <1>6, <1>10 DEF OwnInv, SweepInv, SweepFirst, At
  <1>13. TasksRely'
    <2> SUFFICES ASSUME NEW t \in Tasks
                 PROVE  Relies(t, task[t])'
      BY DEF TasksRely, Tasks
    <2>1. CASE t = Sweep
      BY <1>2, <1>4, <1>5, <1>10, <2>1
         DEF Relies, WithJob, WithResult, WithoutJob, SweepAwaits, ResolveAwaits,
             CancelAwaits
    <2>2. CASE t # Sweep
      <3>1. Relies(t, task[t]) /\ task'[t] = task[t]
        BY <1>5, <2>2 DEF OwnInv, TasksRely
      <3>2. /\ task[t].at \notin {"idle", "next"} => task[t].att \in Attempts
            /\ task[t].at \notin WithoutJob
        BY <1>2, <2>2, AwaitsKnown DEF WithoutJob
      <3> QED
        BY <1>2, <1>3, <1>4, <1>5, <3>1, <3>2
           DEF Relies, WithJob, WithResult, WithoutJob, SweepAwaits,
               ResolveAwaits, CancelAwaits
    <2> QED
      BY <2>1, <2>2
  <1>14. JobIsKept
    BY <1>2, <1>5 DEF JobIsKept
  <1> QED
    BY <1>2, <1>5, <1>7, <1>8, <1>9, <1>11, <1>12, <1>13, <1>14
       DEF OwnInv, DownIsIdle, SweepInv

(* The sweep sends again what was never delivered.                         *)
LEMMA SweepRedispatchesOwn ==
    ASSUME OwnInv, TypeInv', SweepRedispatches
    PROVE  OwnInv' /\ JobIsKept
  <1> DEFINE a == task[Sweep].att
             d == [at |-> "upload", job |-> NoJob]
             w == [task[Sweep] EXCEPT !.at = "redispatch", !.saw = "none"]
  <1>1. task[Sweep].at = "queue" /\ ~At(Sweep, "idle") /\ ~At(Sweep, "redispatch")
    BY DEF SweepRedispatches, At
  <1>2. /\ TypeInv /\ TypeOK /\ serverUp
        /\ Sweep \in Tasks /\ Sweep \notin Attempts
        /\ task[Sweep] \in TaskRecords
        /\ a \in Attempts /\ row[a].state # "none" /\ row[a].job = NoJob
        /\ \A b \in Attempts : dispatch[b].at = "idle"
    BY <1>1, Sweeping DEF SweepAwaits, WithoutJob
  <1>3. w.at = "redispatch" /\ w.att = a /\ d.at = "upload"
    BY <1>2 DEF TaskRecords
  <1>4. /\ dispatch' = [dispatch EXCEPT ![a] = d] /\ DOMAIN dispatch = Attempts
        /\ task' = [task EXCEPT ![Sweep] = w] /\ DOMAIN task = Tasks
        /\ UNCHANGED <<job, jobOf, row, registering, todo, serverUp>>
    BY <1>2
       DEF SweepRedispatches, SetDispatch, SetTask, TypeOK, engineVars
  <1>5. a \notin todo /\ task[a] = Idle
    BY <1>1, <1>2 DEF OwnInv, SweepInv, SweepFirst
  <1> HIDE DEF a, d, w
  <1>6. RowInv' /\ RegisteringHasLanded' /\ JobIsKept
    BY <1>4
       DEF OwnInv, RowInv, UnrecordedIsBlank, JobIsOwn, VerdictMeansNoJob,
           RegisteringHasLanded, JobIsKept
  <1>7. DispatchInv'
    BY <1>2, <1>3, <1>4
       DEF OwnInv, DispatchInv, FreeIsUnowned, DispatchOfRow, DispatchOwn
  <1>8. task'[Sweep] = w /\ \A b \in Attempts : task'[b] = task[b]
    BY <1>2, <1>4 DEF Tasks
  <1>9. SweepInv'
    BY <1>1, <1>2, <1>3, <1>4, <1>5, <1>8
       DEF OwnInv, SweepInv, SweepAlone, SweepFirst, At
  <1>10. TasksRely'
    BY <1>2, <1>3, <1>4, <1>8
       DEF OwnInv, TasksRely, Relies, WithJob, WithResult, WithoutJob,
           SweepAwaits, ResolveAwaits, CancelAwaits
  <1> QED
    BY <1>2, <1>4, <1>6, <1>7, <1>9, <1>10 DEF OwnInv, DownIsIdle

(* The end of the sweep: every registration a landed carry owes is kicked. *)
LEMMA SweepEndsOwn ==
    ASSUME OwnInv, TypeInv', SweepEnds
    PROVE  OwnInv' /\ JobIsKept
  <1> DEFINE due == {a \in Attempts : CarryDue(a, row[a])}
  <1>1. /\ ~At(Sweep, "idle") /\ ~At(Sweep, "redispatch")
        /\ todo' = todo /\ todo = {}
        /\ SetTask(Sweep, Idle)
        /\ registering' = registering \cup due
        /\ UNCHANGED <<job, jobOf, dispatch, serverUp>>
    BY DEF SweepEnds, At, engineVars
  <1>2. \A a \in due : Landed(row[a])
    BY DEF CarryDue, ContinuationPending
  <1>3. RowsKept
    <2> SUFFICES ASSUME NEW a \in Attempts
                 PROVE  Keeps(row[a], row'[a])
      BY DEF RowsKept
    <2>1. CASE a \in due
      <3>1. row'[a] = SetContinuation(row[a], "registering")
        BY <2>1 DEF SweepEnds
      <3>2. row[a] \in Rows /\ row[a].state # "none"
        BY <1>2, <2>1, RecordedRow
      <3> QED
        BY <3>1, <3>2, WritesKeep DEF Continuations
    <2>2. CASE a \notin due
      BY <2>2, KeepsSame DEF SweepEnds
    <2> QED
      BY <2>1, <2>2
  <1>4. \A a \in registering' : a \in registering \/ Landed(row'[a])
    BY <1>1, <1>2, <1>3, LandedKept
  <1>5. \A a \in Attempts : dispatch[a].at = "idle"
    BY <1>1, Sweeping
  <1>6. Idle.at = "idle"
    BY DEF Idle
  <1> QED
    BY <1>1, <1>3, <1>4, <1>5, <1>6, SweepMoves
       DEF WithJob, WithResult, WithoutJob, CancelAwaits

(* The steps of the boot sweep.                                            *)
LEMMA SweepStepOwn ==
    ASSUME OwnInv, TypeInv', SweepStep
    PROVE  OwnInv' /\ JobIsKept
  <1> DEFINE a == task[Sweep].att
  <1>1. UNCHANGED row => RowsKept
    BY KeepsSame DEF RowsKept
  <1>2. NextOfSweep.at = "next"
    BY DEF NextOfSweep, Started, Idle
  <1>3. ~At(Sweep, "idle")
    BY DEF SweepStep, SweepVisits, SweepFinds, SweepMisses, SweepUncertain,
           SweepRedispatches, SweepInterrupts, SweepRedispatched, SweepEnds, At
  <1>4. CASE SweepMisses
    <2> DEFINE w == [Started("queue", a, "sweep") EXCEPT !.saw = row[a].verdict]
    <2>1. /\ task[Sweep].at = "find"
          /\ SetTask(Sweep, w) \/ SetTask(Sweep, NextOfSweep)
          /\ UNCHANGED <<row, registering, job, jobOf, dispatch, todo, serverUp>>
      BY <1>4 DEF SweepMisses, At, engineVars
    <2>2. /\ a \in Attempts /\ row[a].state # "none" /\ row[a].job = NoJob
          /\ \A b \in Attempts : dispatch[b].at = "idle"
          /\ a \notin todo /\ task[a] = Idle
      BY <1>3, <2>1, Sweeping
         DEF SweepAwaits, WithoutJob, OwnInv, SweepInv, SweepFirst, At
    <2>3. w.at = "queue" /\ w.att = a
      BY DEF Started, Idle
    <2> HIDE DEF w, a
    <2> QED
      BY <1>1, <1>2, <1>3, <2>1, <2>2, <2>3, SweepMoves
         DEF WithJob, WithResult, WithoutJob, CancelAwaits
  <1>5. CASE SweepUncertain \/ SweepInterrupts
    <2>1. /\ task[Sweep].at = "queue"
          /\ SetTask(Sweep, NextOfSweep)
          /\ \E s \in States : SetRow(a, SetExecution(row[a], s))
          /\ UNCHANGED <<registering, job, jobOf, dispatch, todo, serverUp>>
      BY <1>5
         DEF SweepUncertain, SweepInterrupts, At, engineVars, States,
             TerminalStates, InFlightStates
    <2>2. /\ TypeOK /\ a \in Attempts /\ row[a] \in Rows /\ row[a].state # "none"
          /\ \A b \in Attempts : dispatch[b].at = "idle"
      BY <1>3, <2>1, Sweeping DEF SweepAwaits, At
    <2>3. RowsKept
      BY <2>1, <2>2, WritesKeep, SetRowKeeps
    <2> HIDE DEF a
    <2> QED
      BY <1>2, <1>3, <2>1, <2>2, <2>3, SweepMoves
         DEF WithJob, WithResult, WithoutJob, CancelAwaits
  <1>6. CASE SweepRedispatched
    <2>1. /\ task[Sweep].at = "redispatch" /\ dispatch[a].at = "idle"
          /\ SetTask(Sweep, NextOfSweep)
          /\ UNCHANGED <<row, registering, job, jobOf, dispatch, todo, serverUp>>
      BY <1>6 DEF SweepRedispatched, At, DispatchAt, engineVars
    <2>2. \A b \in Attempts : dispatch[b].at = "idle"
      BY <1>3, <2>1 DEF OwnInv, SweepInv, SweepAlone
    <2> HIDE DEF a
    <2> QED
      BY <1>1, <1>2, <1>3, <2>1, <2>2, SweepMoves
         DEF WithJob, WithResult, WithoutJob, CancelAwaits
  <1> QED
    BY <1>4, <1>5, <1>6, SweepVisitsOwn, SweepFindsOwn, SweepRedispatchesOwn,
       SweepEndsOwn
       DEF SweepStep

-----------------------------------------------------------------------------
(* A crash takes the process with it; a boot starts the sweep. *)
LEMMA CrashOwn ==
    ASSUME OwnInv, TypeInv', Crash
    PROVE  OwnInv' /\ JobIsKept
  <1>1. /\ Idle.at = "idle" /\ Idle.att = NoAttempt /\ NoDispatch.at = "idle"
        /\ Sweep \in Tasks /\ Attempts \subseteq Tasks
    BY DEF Idle, NoDispatch, Tasks
  <1>2. RowInv' /\ RegisteringHasLanded' /\ JobIsKept
    BY DEF Crash, OwnInv, RowInv, UnrecordedIsBlank, JobIsOwn,
           VerdictMeansNoJob, RegisteringHasLanded, JobIsKept, engineVars
  <1>3. DownIsIdle'
    BY DEF Crash, DownIsIdle, Tasks
  <1>4. DispatchInv'
    BY <1>1
       DEF Crash, OwnInv, DispatchInv, FreeIsUnowned, DispatchOfRow,
           DispatchOwn, engineVars
  <1>5. SweepInv'
    BY <1>1, NoAttemptAssumption DEF Crash, SweepInv, SweepAlone, SweepFirst, At
  <1>6. TasksRely'
    <2>1. \A t \in Tasks : task'[t] = Idle
      BY DEF Crash
    <2> QED
      BY <1>1, <2>1
         DEF TasksRely, Relies, WithJob, WithResult, WithoutJob, SweepAwaits,
             ResolveAwaits, CancelAwaits, Tasks
  <1> QED
    BY <1>2, <1>3, <1>4, <1>5, <1>6 DEF OwnInv

(* A boot finds nothing of the process and starts the sweep.               *)
LEMMA BootOwn ==
    ASSUME OwnInv, TypeInv', Boot
    PROVE  OwnInv' /\ JobIsKept
  <1>1. /\ NextOfSweep.at = "next" /\ NextOfSweep.att = NoAttempt
        /\ NoDispatch.at = "idle"
        /\ Sweep \in Tasks /\ Attempts \subseteq Tasks /\ Sweep \notin Attempts
        /\ DOMAIN task = Tasks
    BY TasksAssumption
       DEF NextOfSweep, Started, Idle, NoDispatch, Tasks, OwnInv, TypeInv, TypeOK
  <1>2. /\ \A t \in Tasks : task[t] = Idle
        /\ \A a \in Attempts : dispatch[a].at = "idle"
    BY <1>1 DEF Boot, OwnInv, DownIsIdle
  <1>3. /\ task'[Sweep] = NextOfSweep
        /\ \A t \in Tasks \ {Sweep} : task'[t] = Idle
        /\ UNCHANGED <<job, jobOf, row, registering, dispatch>>
    BY <1>1, <1>2 DEF Boot, SetTask, engineVars
  <1>4. \A a \in todo' : row[a].state # "none"
    BY DEF Boot, InFlight, InFlightStates
  <1>5. RowInv' /\ RegisteringHasLanded' /\ JobIsKept
    BY <1>3
       DEF OwnInv, RowInv, UnrecordedIsBlank, JobIsOwn, VerdictMeansNoJob,
           RegisteringHasLanded, JobIsKept
  <1>6. DispatchInv'
    BY <1>3
       DEF OwnInv, DispatchInv, FreeIsUnowned, DispatchOfRow, DispatchOwn
  <1>7. SweepInv'
    BY <1>1, <1>2, <1>3, <1>4, NoAttemptAssumption
       DEF SweepInv, SweepAlone, SweepFirst, At
  <1>8. TasksRely'
    <2>1. Idle.at = "idle"
      BY DEF Idle
    <2> QED
      BY <1>1, <1>3, <2>1
         DEF TasksRely, Relies, WithJob, WithResult, WithoutJob, SweepAwaits,
             ResolveAwaits, CancelAwaits, Tasks
  <1> QED
    BY <1>5, <1>6, <1>7, <1>8 DEF OwnInv, DownIsIdle, Boot

-----------------------------------------------------------------------------
(* The invariant holds initially.                                          *)
LEMMA OwnInit == Init => OwnInv
  <1> SUFFICES ASSUME Init
               PROVE  OwnInv
    OBVIOUS
  <1>1. /\ NoRow.state = "none" /\ NoRow.job = NoJob /\ NoRow.verdict = "none"
        /\ ~Landed(NoRow)
        /\ Idle.at = "idle" /\ Idle.att = NoAttempt /\ NoDispatch.at = "idle"
        /\ Sweep \in Tasks /\ Attempts \subseteq Tasks
    BY DEF NoRow, Landed, Idle, NoDispatch, Tasks
  <1>2. TypeInv /\ DownIsIdle
    BY TypeInit DEF Init, DownIsIdle
  <1>3. RowInv /\ RegisteringHasLanded
    BY <1>1
       DEF Init, RowInv, UnrecordedIsBlank, JobIsOwn, VerdictMeansNoJob,
           RegisteringHasLanded
  <1>4. DispatchInv
    BY <1>1
       DEF Init, EngineInit, DispatchInv, FreeIsUnowned, DispatchOfRow,
           DispatchOwn
  <1>5. SweepInv
    BY <1>1, NoAttemptAssumption
       DEF Init, SweepInv, SweepAlone, SweepFirst, At
  <1>6. TasksRely
    BY <1>1
       DEF Init, TasksRely, Relies, WithJob, WithResult, WithoutJob,
           SweepAwaits, ResolveAwaits, CancelAwaits
  <1> QED
    BY <1>2, <1>3, <1>4, <1>5, <1>6 DEF OwnInv

(* The invariant is inductive, and every step keeps the jobs of rows.      *)
LEMMA OwnStep == OwnInv /\ [Next]_vars => OwnInv' /\ JobIsKept
  <1> SUFFICES ASSUME OwnInv, [Next]_vars
               PROVE  OwnInv' /\ JobIsKept
    OBVIOUS
  <1>1. TypeInv'
    BY TypeStep DEF OwnInv
  <1>2. CASE EngineStep /\ UNCHANGED ownerVars
    BY <1>1, <1>2, EngineKeeps
  <1>3. CASE UNCHANGED vars
    BY <1>1, <1>3
       DEF vars, ownerVars, engineVars, OwnInv, DownIsIdle, RowInv,
           UnrecordedIsBlank, JobIsOwn, VerdictMeansNoJob,
           RegisteringHasLanded, DispatchInv, FreeIsUnowned, DispatchOfRow,
           DispatchOwn, SweepInv, SweepAlone, SweepFirst, At, TasksRely,
           Relies, JobIsKept
  <1> QED
    BY <1>1, <1>2, <1>3, ResolveStepOwn, CallStepOwn, AttemptStepOwn,
       SweepStepOwn, CrashOwn, BootOwn
       DEF Next

(* The invariant of every reachable state.                                 *)
LEMMA OwnAlways == Spec => []OwnInv
  BY OwnInit, OwnStep, PTL DEF Spec

(* The engine job a row holds was accepted for this attempt, and a landed  *)
(* clip is that job's: neither the answer to a send, nor the sweep's       *)
(* search, nor any late answer mixes up two attempts.                      *)
THEOREM JobsAreOwn == Spec => []JobIsOwn
  <1>1. OwnInv => JobIsOwn
    BY DEF OwnInv, RowInv
  <1> QED
    BY <1>1, OwnAlways, PTL

(* A delivery verdict stands only on a pending row without a job, so the   *)
(* sweep never sends again what the engine has already acknowledged.       *)
THEOREM VerdictsHaveNoJob == Spec => []VerdictMeansNoJob
  <1>1. OwnInv => VerdictMeansNoJob
    BY DEF OwnInv, RowInv
  <1> QED
    BY <1>1, OwnAlways, PTL

(* observe() always finds the attempt unwatched: neither a dispatch nor    *)
(* the sweep ever replaces a live watcher.                                 *)
THEOREM WatchersAreSingle == Spec => []NoSecondWatcher
  <1>1. OwnInv => NoSecondWatcher
    <2> SUFFICES ASSUME OwnInv, NEW a \in Attempts,
                        \/ dispatch[a].at # "idle"
                        \/ task[Sweep].att = a /\ ~At(Sweep, "redispatch")
                 PROVE  At(a, "idle")
      BY DEF NoSecondWatcher
    <2>1. task[a] = Idle
      BY Dispatching DEF OwnInv, SweepInv, SweepFirst
    <2> QED
      BY <2>1 DEF At, Idle
  <1> QED
    BY <1>1, OwnAlways, PTL

(* The job column is written once, and no prompt is accepted for an        *)
(* attempt whose row has a job: no step repeats a render on record.        *)
THEOREM JobsAreFinal == Spec => JobIsFinal
  <1>1. OwnInv /\ [Next]_vars =>
           [\A a \in Attempts :
               row[a].job # NoJob =>
                   /\ row'[a].job = row[a].job
                   /\ \A j \in Jobs : jobOf'[j] = a => jobOf[j] = a]_vars
    BY OwnStep DEF JobIsKept
  <1> QED
    BY <1>1, OwnAlways, PTL DEF Spec, JobIsFinal
=============================================================================

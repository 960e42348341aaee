-------------------------- MODULE CompletionOwner --------------------------
(***************************************************************************)
(* The life of the animation attempts on the server: dispatch              *)
(* (server/animation/rendering.ts), and the completion owner that watches  *)
(* the engine, lands candidates, prepares frames, registers carries,       *)
(* cancels, and reconciles after a restart (completion-owner.ts).          *)
(*                                                                         *)
(* The server is one JavaScript thread: a task runs without interruption   *)
(* from one await to the next, and every action below is one such run.     *)
(* The store's writes take effect at once and survive a crash; the tasks,  *)
(* the watchers and the in-flight set are lost with the process.           *)
(***************************************************************************)
EXTENDS Engine, FiniteSets

CONSTANTS Calls,          \* slots for user calls and event handlers at once
          Sweep,          \* the task of the boot sweep
          Removable,      \* attempts whose target slot the user may remove
          Retriable,      \* attempts whose preparation the user may retry
          MaxCrashes,     \* bound on the crashes of the server
          MaxRounds,      \* rounds of the cancel's depose loop (5 in the code)
          MaxPollErrors   \* landing errors a watcher tolerates (3 in the code)

ASSUME RemovableAssumption == Removable \subseteq Attempts
ASSUME RetriableAssumption == Retriable \subseteq Attempts
ASSUME BoundsAssumption ==
    /\ MaxCrashes \in Nat
    /\ MaxRounds \in Nat \ {0}
    /\ MaxPollErrors \in Nat \ {0}
ASSUME TasksAssumption ==
    /\ Calls \cap Attempts = {}
    /\ Sweep \notin Attempts \cup Calls

VARIABLES row,          \* row[a]: the stored row of attempt a
          targets,      \* the attempts whose target slot is in the document
          serverUp,     \* is the server process running?
          crashes,      \* how often it crashed
          task,         \* the tasks that resolve attempts from the engine
          dispatch,     \* dispatch[a]: the dispatch of attempt a
          registering,  \* registeringCarry: registrations in flight
          todo          \* the attempts the boot sweep has still to visit

ownerVars == <<row, targets, serverUp, crashes, task, dispatch, registering,
               todo>>
vars == <<engineVars, ownerVars>>

(* Attempt a's watcher is task a; a call slot holds one cancel, one         *)
(* announced completion or one preparation retry.                           *)
Tasks == Attempts \cup Calls \cup {Sweep}

Kinds == {"none", "watch", "event", "cancel", "retry", "sweep"}

(* Where a task awaits.  "history" is resolveFromEngine's question to the  *)
(* engine, "answered" holds the answer; the names of the others follow the *)
(* call that is awaited.                                                   *)
Awaits == {"idle", "history", "answered", "landing", "resuming", "poll",
           "settling", "interrupt", "listed", "dequeue", "listedAgain",
           "remember", "reprepare", "next", "find", "queue", "redispatch"}

(* saw is what the task read and will act on: the engine's answer, or the  *)
(* row's verdict; n counts a watcher's errors or a cancel's rounds.        *)
TaskRecords == [at : Awaits, att : Attempts \cup {NoAttempt}, by : Kinds,
                saw : Answers \cup Verdicts, n : Nat]

Idle == [at |-> "idle", att |-> NoAttempt, by |-> "none", saw |-> "none",
         n |-> 0]
Started(at, a, by) == [Idle EXCEPT !.at = at, !.att = a, !.by = by]

NextOfSweep == Started("next", NoAttempt, "sweep")

(* Dispatch awaits the uploads, the enumerations, and the answer to        *)
(* /prompt; "acked" is an engine that accepted and whose answer is on its  *)
(* way, "depose" the clean-up of a job nobody wants any more.              *)
DispatchAwaits == {"idle", "upload", "resolve", "send", "acked", "depose"}
NoDispatch == [at |-> "idle", job |-> NoJob]

TypeOK ==
    /\ EngineTypeOK
    /\ row \in [Attempts -> Rows]
    /\ targets \subseteq Attempts
    /\ serverUp \in BOOLEAN
    /\ crashes \in 0 .. MaxCrashes
    /\ task \in [Tasks -> TaskRecords]
    /\ dispatch \in [Attempts -> [at : DispatchAwaits,
                                  job : Jobs \cup {NoJob}]]
    /\ registering \subseteq Attempts
    /\ todo \subseteq Attempts

Init ==
    /\ EngineInit
    /\ row = [a \in Attempts |-> NoRow]
    /\ targets = Attempts
    /\ serverUp = TRUE
    /\ crashes = 0
    /\ task = [t \in Tasks |-> Idle]
    /\ dispatch = [a \in Attempts |-> NoDispatch]
    /\ registering = {}
    /\ todo = {}

(* The route's ready flag: submissions wait for the boot sweep. *)
Ready == serverUp /\ task[Sweep].at = "idle"

-----------------------------------------------------------------------------
(* Steps of the tasks, in the terms the code uses. *)

At(t, where) == task[t].at = where

SetRow(a, r)  == row' = [row EXCEPT ![a] = r]
SetTask(t, w) == task' = [task EXCEPT ![t] = w]

(* observe: the first tick asks the engine at once. *)
Watching(a) == Started("history", a, "watch")

(* Mutants: a watcher that ticks once; a sweep that does not re-attach the *)
(* watcher of a running job; a call that is never over.                    *)
TickOnce(a, o) == Idle
VisitWithoutObserve(a, o) == [task EXCEPT ![Sweep] = NextOfSweep]
CallNeverOver(c) == task

(* What each caller of resolveFromEngine does when it returns o: a watcher *)
(* polls on while the job runs, the sweep re-attaches the watcher of a     *)
(* running job and goes on, a call is over.                                *)
AfterTick(a, o) == IF o = "running" THEN Started("poll", a, "watch") ELSE Idle

AfterVisit(a, o) ==
    IF o = "running"
       THEN [task EXCEPT ![Sweep] = NextOfSweep, ![a] = Watching(a)]
       ELSE [task EXCEPT ![Sweep] = NextOfSweep]

AfterCall(c) == [task EXCEPT ![c] = Idle]

AfterResolve(t, o) ==
    CASE task[t].by = "watch" -> [task EXCEPT ![t] = AfterTick(t, o)]
      [] task[t].by = "sweep" -> AfterVisit(task[t].att, o)
      [] OTHER                -> AfterCall(t)

(* Mutant: a registration already begun is not begun again after a crash. *)
CarryDueOnce(a, r) ==
    /\ ContinuationPending(a, r)
    /\ r.continuation = "absent"
    /\ a \notin registering

(* registerCarryArtifact up to its first await, and the same as a kick for *)
(* the attempts in A that owe a registration.                              *)
CarryDue(a, r) == ContinuationPending(a, r) /\ a \notin registering

KickCarry(a, r) ==
    IF CarryDue(a, r)
       THEN /\ SetRow(a, SetContinuation(r, "registering"))
            /\ registering' = registering \cup {a}
       ELSE /\ SetRow(a, r)
            /\ UNCHANGED registering

(* A row that is ready but whose frame never got prepared. *)
PreparationDue(r) ==
    r.state = "ready" /\ Landed(r) /\ r.preparation \in {"pending", "failed"}

(* resolveFromEngine up to its first await, called by task t for attempt a; *)
(* w is the task's record, of which the caller's kind and counter survive. *)
Resolve(t, w, a) ==
    LET r == row[a] IN
    IF Terminal(r) THEN
       IF PreparationDue(r)
          THEN /\ SetTask(t, [w EXCEPT !.at = "resuming"])
               /\ UNCHANGED <<row, registering>>
          ELSE /\ task' = AfterResolve(t, "untouched")
               /\ IF r.state = "ready" THEN KickCarry(a, r)
                                       ELSE UNCHANGED <<row, registering>>
    ELSE /\ UNCHANGED <<row, registering>>
         /\ IF r.job = NoJob
               THEN task' = AfterResolve(t, "untouched")
               ELSE SetTask(t, [w EXCEPT !.at = "history"])

-----------------------------------------------------------------------------
(* resolveFromEngine after its await. *)

EngineAnswers(t) ==
    LET a == task[t].att IN
    /\ At(t, "history")
    /\ CanAnswer(row[a].job)
    /\ SetTask(t, [task[t] EXCEPT !.at = "answered",
                                  !.saw = HistoryOf(row[a].job)])
    /\ UNCHANGED <<engineVars, row, targets, serverUp, crashes, dispatch,
                   registering, todo>>

(* history() threw: the row goes to reconciling, whatever it is by now. *)
HistoryThrows(t) ==
    LET a == task[t].att IN
    /\ At(t, "history")
    /\ ~engineUp
    /\ SetRow(a, SetExecution(row[a], "reconciling"))
    /\ task' = AfterResolve(t, "reconciling")
    /\ UNCHANGED <<engineVars, targets, serverUp, crashes, dispatch,
                   registering, todo>>

(* The answer reaches a row that settled meanwhile. *)
AnswerTooLate(t) ==
    /\ At(t, "answered")
    /\ Terminal(row[task[t].att])
    /\ task' = AfterResolve(t, "untouched")
    /\ UNCHANGED <<engineVars, row, targets, serverUp, crashes, dispatch,
                   registering, todo>>

(* Mutant: a stopped job's row is ready, landed or not. *)
StoppedReady(r) == SetExecution(r, "ready")

(* settleCancelLost's settle, and that of an interrupted job: what landed  *)
(* stays landed, what did not is cancelled.                                *)
Stopped(r) == SetExecution(r, IF Landed(r) THEN "ready" ELSE "cancelled")

(* The row a status without a clip to land leaves behind. *)
SettledRow(a, saw, cause) ==
    LET r == row[a] IN
    CASE saw = "running" -> SetExecution(r, "rendering")
      [] saw = "lost" /\ cause = "cancel" -> Stopped(r)
      [] saw = "lost" /\ cause # "cancel" -> SetExecution(r, "interrupted")
      [] saw = "interrupted" -> Stopped(r)
      [] saw = "carryError" /\ a \in Carry ->
            SetContinuation(SetExecution(r, "failed"), "not-produced")
      [] OTHER -> SetExecution(r, "failed")

(* The statuses that bring a clip: success with outputs, and the carry     *)
(* save's failure with the clip already on record.                         *)
BringsClip(a, saw) == saw = "done" \/ (saw = "carryErrorOut" /\ a \in Carry)

Settles(t) ==
    LET a == task[t].att
        saw == task[t].saw IN
    /\ At(t, "answered")
    /\ ~Terminal(row[a])
    /\ ~BringsClip(a, saw)
    /\ SetRow(a, SettledRow(a, saw, task[t].by))
    /\ task' = AfterResolve(t, saw)
    /\ UNCHANGED <<engineVars, targets, serverUp, crashes, dispatch,
                   registering, todo>>

(* landOutputs up to its await: preparing, then the landing transaction,   *)
(* which refuses when the target slot has left the document.               *)
CanLand(a) == Landed(row[a]) \/ a \in targets

Lands(t) ==
    LET a == task[t].att IN
    /\ At(t, "answered")
    /\ ~Terminal(row[a])
    /\ BringsClip(a, task[t].saw)
    /\ CanLand(a)
    /\ SetRow(a, LandCandidate(SetExecution(row[a], "preparing"), row[a].job))
    /\ SetTask(t, [task[t] EXCEPT !.at = "landing"])
    /\ UNCHANGED <<engineVars, targets, serverUp, crashes, dispatch,
                   registering, todo>>

(* The landing throws: a watcher counts the error and polls on until its   *)
(* bound, every other caller marks the in-flight row reconciling.          *)
LandingThrows(t) ==
    LET a == task[t].att
        errors == task[t].n + 1
        polls == task[t].by = "watch" /\ errors < MaxPollErrors IN
    /\ At(t, "answered")
    /\ ~Terminal(row[a])
    /\ BringsClip(a, task[t].saw)
    /\ ~CanLand(a)
    /\ SetRow(a, SetExecution(row[a],
                              IF polls THEN "preparing" ELSE "reconciling"))
    /\ task' = IF polls
                  THEN [task EXCEPT ![t] = [Started("poll", a, "watch")
                                            EXCEPT !.n = errors]]
                  ELSE AfterResolve(t, "reconciling")
    /\ UNCHANGED <<engineVars, targets, serverUp, crashes, dispatch,
                   registering, todo>>

(* prepareProposedFrame: its bounded tries are one await whose last try    *)
(* decides; the frame may come from the engine or from the durable clip.   *)
Prepared == {"proposed", "failed"}

LandingCompletes(t, p) ==
    LET a == task[t].att IN
    /\ At(t, "landing")
    /\ p \in Prepared
    /\ KickCarry(a, SetExecution(SetPreparation(row[a], p), "ready"))
    /\ task' = AfterResolve(t, "done")
    /\ UNCHANGED <<engineVars, targets, serverUp, crashes, dispatch, todo>>

PreparationResumes(t, p) ==
    LET a == task[t].att IN
    /\ At(t, "resuming")
    /\ p \in Prepared
    /\ KickCarry(a, SetPreparation(row[a], p))
    /\ task' = AfterResolve(t, "untouched")
    /\ UNCHANGED <<engineVars, targets, serverUp, crashes, dispatch, todo>>

ResolveStep(t) ==
    \/ EngineAnswers(t)
    \/ HistoryThrows(t)
    \/ AnswerTooLate(t)
    \/ Settles(t)
    \/ Lands(t)
    \/ LandingThrows(t)
    \/ \E p \in Prepared : LandingCompletes(t, p) \/ PreparationResumes(t, p)

-----------------------------------------------------------------------------
(* The watcher, and events from the engine feed. *)

PollTick(a) ==
    /\ At(a, "poll")
    /\ Resolve(a, task[a], a)
    /\ UNCHANGED <<engineVars, targets, serverUp, crashes, dispatch, todo>>

(* The feed finds the attempt by its engine job. *)
HasStarted(j) == job[j] \in {"running", "closing"} \cup Records

(* Mutant: a sign of life re-attaches the watcher. *)
OnProgressObserving(a) ==
    /\ serverUp
    /\ row[a].job # NoJob
    /\ HasStarted(row[a].job)
    /\ ~Terminal(row[a])
    /\ SetRow(a, SetExecution(row[a], "rendering"))
    /\ SetTask(a, Watching(a))
    /\ UNCHANGED <<engineVars, targets, serverUp, crashes, dispatch,
                   registering, todo>>

OnProgress(a) ==
    /\ serverUp
    /\ row[a].job # NoJob
    /\ HasStarted(row[a].job)
    /\ ~Terminal(row[a])
    /\ SetRow(a, SetExecution(row[a], "rendering"))
    /\ UNCHANGED <<engineVars, targets, serverUp, crashes, task, dispatch,
                   registering, todo>>

(* A completion event is a hint: settleAndResolve waits a bounded while    *)
(* for the history to show it, and then resolves, whatever it shows.       *)
OnCompletion(c, a) ==
    /\ serverUp
    /\ At(c, "idle")
    /\ row[a].job # NoJob
    /\ job[row[a].job] = "closing" \/ Recorded(row[a].job)
    /\ ~Terminal(row[a])
    /\ SetTask(c, Started("settling", a, "event"))
    /\ UNCHANGED <<engineVars, row, targets, serverUp, crashes, dispatch,
                   registering, todo>>

Settled(c) ==
    /\ At(c, "settling")
    /\ Resolve(c, task[c], task[c].att)
    /\ UNCHANGED <<engineVars, targets, serverUp, crashes, dispatch, todo>>

-----------------------------------------------------------------------------
(* cancel. *)

CancelWithoutJob(a) ==
    /\ serverUp
    /\ InFlight(row[a])
    /\ row[a].job = NoJob
    /\ SetRow(a, SetExecution(row[a], "cancelled"))
    /\ UNCHANGED <<engineVars, targets, serverUp, crashes, task, dispatch,
                   registering, todo>>

CancelWithJob(c, a) ==
    /\ serverUp
    /\ At(c, "idle")
    /\ InFlight(row[a])
    /\ row[a].job # NoJob
    /\ SetTask(c, [Started("interrupt", a, "cancel") EXCEPT !.n = 1])
    /\ UNCHANGED <<engineVars, row, targets, serverUp, crashes, dispatch,
                   registering, todo>>

(* One round of the depose loop: interrupt, is it listed?, dequeue, is it  *)
(* still listed?  The loop ends when it is not, or after the last round.   *)
Deposing(c, j) ==
    \/ /\ At(c, "interrupt")
       /\ SetTask(c, [task[c] EXCEPT !.at = "listed"])
       /\ UNCHANGED job
    \/ /\ At(c, "listed")
       /\ SetTask(c, [task[c] EXCEPT
                        !.at = IF Queued(j) THEN "dequeue" ELSE "remember"])
       /\ UNCHANGED job
    \/ /\ At(c, "dequeue")
       /\ SetTask(c, [task[c] EXCEPT !.at = "listedAgain"])
       /\ Dequeued(j)
    \/ /\ At(c, "listedAgain")
       /\ SetTask(c, IF Queued(j) /\ task[c].n < MaxRounds
                        THEN [task[c] EXCEPT !.at = "interrupt", !.n = @ + 1]
                        ELSE [task[c] EXCEPT !.at = "remember"])
       /\ UNCHANGED job

CancelDeposes(c) ==
    /\ engineUp
    /\ Deposing(c, row[task[c].att].job)
    /\ UNCHANGED <<jobOf, ended, carryFile, engineUp, outages, row, targets,
                   serverUp, crashes, dispatch, registering, todo>>

(* What the engine remembers of the deposed job: nothing settles the row   *)
(* as the user's Stop, anything else goes through settleAndResolve.        *)
CancelRemembers(c) ==
    LET a == task[c].att IN
    /\ At(c, "remember")
    /\ CanAnswer(row[a].job)
    /\ IF HistoryOf(row[a].job) = "lost"
          THEN /\ SetTask(c, Idle)
               /\ IF Terminal(row[a])
                     THEN UNCHANGED row
                     ELSE SetRow(a, SettledRow(a, "lost", "cancel"))
          ELSE /\ SetTask(c, [task[c] EXCEPT !.at = "settling"])
               /\ UNCHANGED row
    /\ UNCHANGED <<engineVars, targets, serverUp, crashes, dispatch,
                   registering, todo>>

(* Any request of the cancel failing writes reconciling, unchecked. *)
CancelThrows(c) ==
    LET a == task[c].att IN
    /\ task[c].at \in {"interrupt", "listed", "dequeue", "listedAgain",
                       "remember"}
    /\ ~engineUp
    /\ SetRow(a, SetExecution(row[a], "reconciling"))
    /\ SetTask(c, Idle)
    /\ UNCHANGED <<engineVars, targets, serverUp, crashes, dispatch,
                   registering, todo>>

-----------------------------------------------------------------------------
(* The explicit retries, and the carry registration. *)

RetryPreparation(c, a) ==
    /\ serverUp
    /\ a \in Retriable
    /\ At(c, "idle")
    /\ Landed(row[a])
    /\ SetTask(c, Started("reprepare", a, "retry"))
    /\ UNCHANGED <<engineVars, row, targets, serverUp, crashes, dispatch,
                   registering, todo>>

Reprepared(c, p) ==
    /\ At(c, "reprepare")
    /\ p \in Prepared
    /\ SetRow(task[c].att, SetPreparation(row[task[c].att], p))
    /\ SetTask(c, Idle)
    /\ UNCHANGED <<engineVars, targets, serverUp, crashes, dispatch,
                   registering, todo>>

RetryRegistration(a) ==
    /\ serverUp
    /\ CarryDue(a, row[a])
    /\ KickCarry(a, row[a])
    /\ UNCHANGED <<engineVars, targets, serverUp, crashes, task, dispatch,
                   todo>>

(* registerCarryArtifact after its bounded tries: the last one decides. *)
Registers(a, c) ==
    /\ a \in registering
    /\ SetRow(a, SetContinuation(row[a], c))
    /\ registering' = registering \ {a}
    /\ UNCHANGED <<engineVars, targets, serverUp, crashes, task, dispatch,
                   todo>>

CarryRegistered(a) ==
    engineUp /\ carryFile[a] = "good" /\ Registers(a, "ready")
CarryNotProduced(a) ==
    engineUp /\ carryFile[a] = "absent" /\ Registers(a, "not-produced")
CarryExhausted(a) ==
    (~engineUp \/ carryFile[a] = "bad") /\ Registers(a, "registering")

-----------------------------------------------------------------------------
(* Dispatch: submit's tail, which the boot sweep's redispatch shares. *)

DispatchAt(a, where) == dispatch[a].at = where
SetDispatch(a, where, j) ==
    dispatch' = [dispatch EXCEPT ![a] = [at |-> where, job |-> j]]

(* Mutant: a dispatch that ends without giving up its place. *)
KeepDispatch(a) == dispatch' = dispatch

EndDispatch(a) == dispatch' = [dispatch EXCEPT ![a] = NoDispatch]

(* submit, once the key is new and the input valid: the row first. *)
Submit(a) ==
    /\ Ready
    /\ row[a].state = "none"
    /\ SetRow(a, RecordAttempt)
    /\ SetDispatch(a, "upload", NoJob)
    /\ UNCHANGED <<engineVars, targets, serverUp, crashes, task, registering,
                   todo>>

(* The terminal gate: the row is read again after every await before the   *)
(* send, and a terminal one ends the dispatch.                             *)
DispatchGate(a, here, next) ==
    /\ DispatchAt(a, here)
    /\ engineUp
    /\ IF Terminal(row[a]) THEN EndDispatch(a) ELSE SetDispatch(a, next, NoJob)
    /\ UNCHANGED <<engineVars, row, targets, serverUp, crashes, task,
                   registering, todo>>

DispatchUploads(a)  == DispatchGate(a, "upload", "resolve")
DispatchResolves(a) == DispatchGate(a, "resolve", "send")

(* A definitive refusal.  An unreadable reference is found right after a   *)
(* gate; a dead model slot, a continuation refusal and the engine's own    *)
(* validation arrive with an await, and no gate stands between them and    *)
(* the write.                                                              *)
DispatchRefused(a) ==
    /\ \/ DispatchAt(a, "upload") /\ ~Terminal(row[a])
       \/ DispatchAt(a, "resolve") /\ engineUp
       \/ DispatchAt(a, "send") /\ engineUp
    /\ SetRow(a, SetExecution(row[a], "failed"))
    /\ EndDispatch(a)
    /\ UNCHANGED <<engineVars, targets, serverUp, crashes, task, registering,
                   todo>>

(* A transport failure: the verdict says on which side of the send it fell. *)
DispatchThrows(a) ==
    /\ ~engineUp
    /\ \/ /\ dispatch[a].at \in {"upload", "resolve"}
          /\ SetRow(a, SetVerdict(row[a], "never-delivered"))
       \/ /\ dispatch[a].at \in {"send", "acked"}
          /\ SetRow(a, SetVerdict(row[a], "uncertain"))
    /\ EndDispatch(a)
    /\ UNCHANGED <<engineVars, targets, serverUp, crashes, task, registering,
                   todo>>

(* The engine accepts the prompt; the server does not know yet. *)
Delivered(a, j) ==
    /\ DispatchAt(a, "send")
    /\ AcceptPrompt(a, j)
    /\ SetDispatch(a, "acked", j)
    /\ UNCHANGED <<row, targets, serverUp, crashes, task, registering, todo>>

(* The answer arrives: the job is the row's and is observed, or the row is *)
(* terminal by now and the orphan is deposed.                              *)
DispatchAcked(a) ==
    LET j == dispatch[a].job IN
    /\ DispatchAt(a, "acked")
    /\ IF Terminal(row[a])
          THEN /\ SetDispatch(a, "depose", j)
               /\ UNCHANGED <<row, task>>
          ELSE /\ SetRow(a, SetJob(row[a], "queued", j))
               /\ SetTask(a, Watching(a))
               /\ EndDispatch(a)
    /\ UNCHANGED <<engineVars, targets, serverUp, crashes, registering, todo>>

DispatchDeposes(a) ==
    /\ DispatchAt(a, "depose")
    /\ IF engineUp THEN Dequeued(dispatch[a].job) ELSE UNCHANGED job
    /\ EndDispatch(a)
    /\ UNCHANGED <<jobOf, ended, carryFile, engineUp, outages, row, targets,
                   serverUp, crashes, task, registering, todo>>

DispatchStep(a) ==
    \/ DispatchUploads(a)
    \/ DispatchResolves(a)
    \/ DispatchRefused(a)
    \/ DispatchThrows(a)
    \/ \E j \in Jobs : Delivered(a, j)
    \/ DispatchAcked(a)
    \/ DispatchDeposes(a)

-----------------------------------------------------------------------------
(* reconcile: the boot sweep, one in-flight attempt after the other. *)

SweepVisits(a) ==
    /\ At(Sweep, "next")
    /\ a \in todo
    /\ todo' = todo \ {a}
    /\ IF row[a].job = NoJob
          THEN /\ SetTask(Sweep, Started("find", a, "sweep"))
               /\ UNCHANGED <<row, registering>>
          ELSE Resolve(Sweep, Started("next", a, "sweep"), a)
    /\ UNCHANGED <<engineVars, targets, serverUp, crashes, dispatch>>

(* The search by attempt id: a hit adopts the job and resolves from it,    *)
(* unchecked; a miss, or an engine that does not answer, re-reads the row  *)
(* and asks for the queue.                                                 *)
SweepFinds(j) ==
    LET a == task[Sweep].att IN
    /\ At(Sweep, "find")
    /\ engineUp
    /\ j \in FoundFor(a)
    /\ SetRow(a, SetJob(row[a], "reconciling", j))
    /\ SetTask(Sweep, Started("history", a, "sweep"))
    /\ UNCHANGED <<engineVars, targets, serverUp, crashes, dispatch,
                   registering, todo>>

SweepMisses ==
    LET a == task[Sweep].att IN
    /\ At(Sweep, "find")
    /\ ~engineUp \/ FoundFor(a) = {}
    /\ SetTask(Sweep, IF InFlight(row[a])
                         THEN [Started("queue", a, "sweep")
                                 EXCEPT !.saw = row[a].verdict]
                         ELSE NextOfSweep)
    /\ UNCHANGED <<engineVars, row, targets, serverUp, crashes, dispatch,
                   registering, todo>>

(* Work in the queue may be the attempt's own: it stays pending. *)
SweepUncertain ==
    LET a == task[Sweep].att IN
    /\ At(Sweep, "queue")
    /\ ~engineUp \/ QueuedJobs # {}
    /\ SetRow(a, SetExecution(row[a], "reconciling"))
    /\ SetTask(Sweep, NextOfSweep)
    /\ UNCHANGED <<engineVars, targets, serverUp, crashes, dispatch,
                   registering, todo>>

(* redispatchAttempt's own guard, on the row as it is now. *)
Redispatchable(r) ==
    r.job = NoJob /\ r.verdict = "never-delivered" /\ InFlight(r)

(* An empty queue and no trace: the verdict read before the await decides. *)
SweepRedispatches ==
    LET a == task[Sweep].att IN
    /\ At(Sweep, "queue")
    /\ engineUp
    /\ QueuedJobs = {}
    /\ task[Sweep].saw = "never-delivered"
    /\ Redispatchable(row[a])
    /\ SetDispatch(a, "upload", NoJob)
    /\ SetTask(Sweep, [task[Sweep] EXCEPT !.at = "redispatch", !.saw = "none"])
    /\ UNCHANGED <<engineVars, row, targets, serverUp, crashes, registering,
                   todo>>

SweepInterrupts ==
    LET a == task[Sweep].att IN
    /\ At(Sweep, "queue")
    /\ engineUp
    /\ QueuedJobs = {}
    /\ ~(task[Sweep].saw = "never-delivered" /\ Redispatchable(row[a]))
    /\ SetRow(a, SetExecution(row[a], "interrupted"))
    /\ SetTask(Sweep, NextOfSweep)
    /\ UNCHANGED <<engineVars, targets, serverUp, crashes, dispatch,
                   registering, todo>>

SweepRedispatched ==
    /\ At(Sweep, "redispatch")
    /\ DispatchAt(task[Sweep].att, "idle")
    /\ SetTask(Sweep, NextOfSweep)
    /\ UNCHANGED <<engineVars, row, targets, serverUp, crashes, dispatch,
                   registering, todo>>

(* The sweep ends by kicking every registration a landed carry still owes, *)
(* and opens the submissions.                                              *)
SweepEnds ==
    LET due == {a \in Attempts : CarryDue(a, row[a])} IN
    /\ At(Sweep, "next")
    /\ todo = {}
    /\ row' = [a \in Attempts |->
                 IF a \in due THEN SetContinuation(row[a], "registering")
                              ELSE row[a]]
    /\ registering' = registering \cup due
    /\ SetTask(Sweep, Idle)
    /\ UNCHANGED <<engineVars, targets, serverUp, crashes, dispatch, todo>>

SweepStep ==
    \/ \E a \in Attempts : SweepVisits(a)
    \/ \E j \in Jobs : SweepFinds(j)
    \/ SweepMisses
    \/ SweepUncertain
    \/ SweepRedispatches
    \/ SweepInterrupts
    \/ SweepRedispatched
    \/ SweepEnds

-----------------------------------------------------------------------------
(* The server process, and the user's edits of the document. *)

Crash ==
    /\ serverUp
    /\ crashes < MaxCrashes
    /\ serverUp' = FALSE
    /\ crashes' = crashes + 1
    /\ task' = [t \in Tasks |-> Idle]
    /\ dispatch' = [a \in Attempts |-> NoDispatch]
    /\ registering' = {}
    /\ todo' = {}
    /\ UNCHANGED <<engineVars, row, targets>>

Boot ==
    /\ ~serverUp
    /\ serverUp' = TRUE
    /\ todo' = {a \in Attempts : InFlight(row[a])}
    /\ SetTask(Sweep, NextOfSweep)
    /\ UNCHANGED <<engineVars, row, targets, crashes, dispatch, registering>>

RemoveTarget(a) ==
    /\ serverUp
    /\ a \in targets \cap Removable
    /\ targets' = targets \ {a}
    /\ UNCHANGED <<engineVars, row, serverUp, crashes, task, dispatch,
                   registering, todo>>

-----------------------------------------------------------------------------
CallStep(c) ==
    \/ \E a \in Attempts : \/ OnCompletion(c, a)
                           \/ CancelWithJob(c, a)
                           \/ RetryPreparation(c, a)
    \/ Settled(c)
    \/ CancelDeposes(c)
    \/ CancelRemembers(c)
    \/ CancelThrows(c)
    \/ \E p \in Prepared : Reprepared(c, p)

AttemptStep(a) ==
    \/ Submit(a)
    \/ DispatchStep(a)
    \/ PollTick(a)
    \/ OnProgress(a)
    \/ CancelWithoutJob(a)
    \/ RetryRegistration(a)
    \/ CarryRegistered(a)
    \/ CarryNotProduced(a)
    \/ CarryExhausted(a)
    \/ RemoveTarget(a)

Next ==
    \/ EngineStep /\ UNCHANGED ownerVars
    \/ \E t \in Tasks : ResolveStep(t)
    \/ \E c \in Calls : CallStep(c)
    \/ \E a \in Attempts : AttemptStep(a)
    \/ SweepStep
    \/ Crash
    \/ Boot

Spec == Init /\ [][Next]_vars

(***************************************************************************)
(* Fairness.  The event loop runs every task that can continue, requests   *)
(* are answered or fail, and the engine works its queue off.  Nothing is   *)
(* assumed of users, of the event feed, of outages, crashes and boots.     *)
(***************************************************************************)
EngineWorks(j) == (JobStarts(j) \/ JobCloses(j)
                     \/ \E o \in Outcomes : JobRecorded(j, o))
                  /\ UNCHANGED ownerVars

CallContinues(c) ==
    \/ Settled(c)
    \/ CancelDeposes(c)
    \/ CancelRemembers(c)
    \/ CancelThrows(c)
    \/ \E p \in Prepared : Reprepared(c, p)

RegistrationContinues(a) ==
    CarryRegistered(a) \/ CarryNotProduced(a) \/ CarryExhausted(a)

Fairness ==
    /\ \A j \in Jobs : WF_vars(EngineWorks(j))
    /\ \A t \in Tasks : WF_vars(ResolveStep(t))
    /\ \A c \in Calls : WF_vars(CallContinues(c))
    /\ \A a \in Attempts : /\ WF_vars(DispatchStep(a))
                           /\ WF_vars(PollTick(a))
                           /\ WF_vars(RegistrationContinues(a))
    /\ WF_vars(SweepStep)

FairSpec == Spec /\ Fairness

-----------------------------------------------------------------------------
(***************************************************************************)
(* Invariants.                                                             *)
(***************************************************************************)

(* The job a row adopts, from the answer to its own send or from the       *)
(* sweep's search, is one the engine was asked to run for this attempt,    *)
(* and the clip that landed is that job's clip.                            *)
JobIsOwn ==
    \A a \in Attempts :
        /\ row[a].job # NoJob => jobOf[row[a].job] = a
        /\ Landed(row[a]) => row[a].result = row[a].job

(* Readiness is layered (spec 8.2, 11.4, and the carry's readiness split): *)
(* a row is never ready, its frame never prepared or its carry under       *)
(* registration or registered, without a clip that landed first, and only  *)
(* a row that asked for a carry has one to speak of.                       *)
ReadinessIsLayered ==
    \A a \in Attempts :
        LET r == row[a] IN
        /\ r.state = "ready" => Landed(r)
        /\ r.preparation # "pending" => Landed(r)
        /\ r.continuation \in {"registering", "ready"} => Landed(r)
        /\ r.continuation # "absent" => a \in Carry
        /\ a \in registering => r.continuation = "registering"

(* A settled row agrees with the record the engine gave its job, even when *)
(* a restart of the engine has forgotten it since: no interleaving of      *)
(* watcher, events, cancel and sweep lands a clip that failed, fails one   *)
(* that rendered, or calls a job lost that the engine still knows.         *)
EngineAgrees ==
    \A a \in Attempts :
        LET r == row[a] IN
        r.job # NoJob =>
            /\ Landed(r) => ended[r.job] \in {"done", "carryErrorOut"}
            /\ r.state = "failed" =>
                  ended[r.job] \in {"empty", "error", "carryError"}
            /\ r.state = "cancelled" =>
                  ended[r.job] = "interrupted" \/ job[r.job] = "gone"
            /\ r.state = "interrupted" => job[r.job] = "gone"

(* observe() is only called for an attempt nobody watches, so its          *)
(* replacement of a live watcher, whose late tick would stop the new one,  *)
(* never happens.                                                          *)
NoSecondWatcher ==
    \A a \in Attempts :
        \/ dispatch[a].at # "idle"
        \/ task[Sweep].att = a /\ ~At(Sweep, "redispatch")
        => At(a, "idle")

(* A delivery verdict stands only on a row that is pending without a job:  *)
(* nothing the sweep may redispatch has a job of record.                   *)
VerdictMeansNoJob ==
    \A a \in Attempts :
        row[a].verdict # "none" =>
            row[a].state = "reconciling" /\ row[a].job = NoJob

(* GPU work is repeated only through a crash: without one an attempt's     *)
(* prompt reaches the engine at most once, and each repeat costs a crash   *)
(* (the window between /prompt and the write of its answer).               *)
PromptsOf(a) == {j \in Jobs : jobOf[j] = a}

RepeatNeedsCrash ==
    \A a \in Attempts :
        \A J \in SUBSET PromptsOf(a) :
            Cardinality(J) <= 1 \/ Cardinality(J) <= crashes

-----------------------------------------------------------------------------
(***************************************************************************)
(* Action properties.                                                      *)
(***************************************************************************)

(* The engine job of a row is written once: no late answer, sweep or       *)
(* redispatch replaces it, and no prompt is accepted for an attempt whose  *)
(* row has one.                                                            *)
JobIsFinal ==
    [][\A a \in Attempts :
          row[a].job # NoJob =>
              /\ row'[a].job = row[a].job
              /\ \A j \in Jobs : jobOf'[j] = a => jobOf[j] = a]_vars

(* A ready row leaves ready only for reconciling: no late answer, cancel   *)
(* or dispatch declares a playable clip failed, cancelled or lost.         *)
ReadyIsNotUndone ==
    [][\A a \in Attempts :
          row[a].state = "ready" =>
              row'[a].state \in {"ready", "reconciling"}]_vars

(* As long as the engine answers and the server lives, a terminal state is *)
(* final, but for the one write that the comments deny and                 *)
(* OwnerClaims!TerminalIsFinal reports: a dispatch that is refused behind  *)
(* a cancel turns cancelled into failed, and does so only where its        *)
(* enumeration or its send was under way.                                  *)
TerminalWithoutFaults ==
    [][\A a \in Attempts :
          outages = 0 /\ crashes = 0 /\ row[a].state \in TerminalStates =>
              \/ row'[a].state = row[a].state
              \/ /\ row[a].state = "cancelled"
                 /\ row'[a].state = "failed"
                 /\ dispatch[a].at \in {"resolve", "send"}]_vars

-----------------------------------------------------------------------------
(***************************************************************************)
(* Liveness, under Fairness.                                               *)
(***************************************************************************)

(* An attempt under observation is never forgotten: it settles, or is left *)
(* reconciliation-pending, or has its clip, or the server goes down.  The  *)
(* clip alone is what two calls can leave of a row: a cancel that fails    *)
(* while the watcher prepares the landed clip writes reconciling, the next *)
(* progress event rendering, and the watcher ends with the clip it landed. *)
WatchedSettles ==
    \A a \in Attempts :
        task[a].at # "idle" ~>
            \/ Terminal(row[a]) \/ row[a].state = "reconciling"
            \/ Landed(row[a]) \/ ~serverUp

(* Submissions wait for the boot sweep, and the sweep ends. *)
SweepCompletes == ~Ready /\ serverUp ~> Ready \/ ~serverUp

(* A cancel, an announced completion and a retry each come to an end. *)
CallsEnd == \A c \in Calls : ~At(c, "idle") ~> At(c, "idle")

(* Once the faults are over, one boot sweep settles every in-flight        *)
(* attempt whose job is known, a still running one through the watcher it  *)
(* re-attaches; the exception is a clip whose target slot is gone.         *)
BootSettles ==
    \A a \in Attempts \ Removable :
        /\ crashes = MaxCrashes
        /\ outages = MaxOutages
        /\ engineUp
        /\ serverUp
        /\ a \in todo
        /\ row[a].job # NoJob
        ~> Terminal(row[a])

(* A registration that a crash or an unreachable engine cut short is       *)
(* re-driven: once the faults are over, one boot sweep brings every landed *)
(* carry to registered or not produced, unless its file does not read as a *)
(* carry.                                                                  *)
BootRegisters ==
    \A a \in Attempts :
        /\ crashes = MaxCrashes
        /\ outages = MaxOutages
        /\ engineUp
        /\ At(Sweep, "next")
        /\ ContinuationPending(a, row[a])
        ~> \/ row[a].continuation \in {"ready", "not-produced"}
           \/ carryFile[a] = "bad"
=============================================================================

# Verification of the Monoka studio

This directory holds TLA+ specifications of the server of the studio
(`src/server`, with the code it shares with the browser), the TLC
configurations that model-check them on small instances, and TLAPS proofs.
The specifications are written from the code; comments, tests and
`docs/superpowers/specs` only say what the code is meant to do.

## The system and its parts

The studio is one Node process in front of a render engine (ComfyUI). It keeps
SQLite databases and a blob store, serves browser tabs over HTTP and a
WebSocket, and talks to the engine over HTTP (`/prompt`, `/queue`, `/history`,
`/interrupt`, `/view`, `/upload`) and a WebSocket feed. Two lanes produce
pictures and video:

* the **animation lane** (`server/animation/`), whose attempts are owned
  entirely by the server, and
* the **canvas lane** (`server/jobWatcher.ts`, `src/hooks/useGenerationQueue.ts`),
  whose jobs are authored by browser tabs and settled by tabs and server alike.

| component | state | operations | interacts with | hard behaviour | what makes it correct |
|---|---|---|---|---|---|
| Completion owner, `completion-owner.ts` | `watchers` (timer, stopped, polls, errors per attempt), `registeringCarry` | observe and tick, resolveFromEngine, landOutputs, settleAndResolve, onEngineProgress/Completion, cancel, retryPreparation, registerCarryArtifact, reconcile | store rows, engine port, event tap, routes | five actors over one row, each with awaits between read and write; engine restarts and outages; restart of the server | a clip lands once and only for its attempt; verdicts agree with the engine; readiness is layered; nothing is forgotten; GPU work is not repeated |
| Attempt dispatch, `rendering.ts` | nothing of its own: the row | submit, redispatchAttempt, terminal gate, upload, resolve, send, failure verdict | store, engine port, completion owner | a cancel during any await; a crash between send and record; transport failure on either side of the send | at most one job per row; a terminal row is not sent; the verdict decides what the sweep may repeat |
| Attempt rows, `store.ts` | attempt table: execution, verdict, engine job, result, preparation, continuation | recordAttempt, setAttemptExecution, setAttemptPreparation, setAttemptContinuation, landCandidate | everything above | a column rebuilt from its arguments, with no check of the state it replaces | a landing is written once; the job column is never cleared |
| Engine port and engine | the engine's queue, history, output folder; port is stateless | submitGraph, history (with the `lostSettleMs` settle window), queuedJobIds, findJobByAttempt, interrupt, dequeue, fetchCarryArtifact | other clients of the engine | the gap between queue and history; a restart forgets both; other clients' jobs | an answer is never taken from the gap; a search only returns jobs stamped with the attempt |
| Authoring, `store.ts` 519-1300 | documents: sequences, tween slots, windows, heroes, revision | the authoring commands, staleness marking, rebinding | tabs, landing | two tabs; landing against removal | compare-and-swap on the revision; staleness reaches every dependent |
| Submission, `rendering.ts` 1775-1899 | idempotency key and input hash of a row | peek, compare, validate, record, lose the insert race | dispatch | two submissions with one key, both awaiting the engine | one row per key; a different input is a conflict |
| Carry stage-back, `rendering.ts` 1132-1243 | `stageBackFlights`, the row's continuation | requireContinuationArtifact, stageContinuationArtifact | engine input folder | two extensions of one source; check, upload, read back | a graph consumes only verified carries |
| Routes and tap, `animation/routes.ts` | the `ready` flag | HTTP handlers, feed to owner | owner, dispatch | submissions during the boot sweep | no submission before the sweep ends |
| Export and assembly | none | export | blobs, ffmpeg | I/O pipeline behind gates | |
| Compiler, graphs, models | none | snapshot to graph | | string building | |
| Job watcher, `jobWatcher.ts`, `jobReducer.ts` | absence clocks, pending landings, `recoveredOnce`, `sweeping` | tick, observe, reduceJobPoll, settleLanding, landJob, drainPendingLandings, recover | repo, takes, engine, hub | stale snapshot written back; retries in memory; tabs writing the same rows | a settled job stays settled; its take lands once |
| Job queue client, `useGenerationQueue.ts` | the tab's ledger, debounced persist | submit, poll, retry, cancel | repo | stale tabs post whole rows | tabs and server converge |
| Studio repository, `repo.ts`, `db.ts` | tables | upsertJobs and its guard, migrations | both lanes | the resubmission exception | |
| Canvas documents, `documents.ts` | projects, chains, takes, outputs, tombstones | appendTake, createOutput, tombstoneChain, collection, archive | job watcher, tabs | idempotent take, supersession | one live take per job |
| Realtime hub, `realtime.ts` | clients, queues, sequence numbers | publish, overflow, resync | tabs, engine feed | slow clients | a client learns what it missed |
| Managed engine, `runtime.ts`, `engineProcess.ts` | process state, restart budget | start, stop, reconcile, adopt | engine | boot reconcile against a user's start; stop against exit | one engine process |
| Engine packs | files, pins | install, patch, roll back | engine | I/O | |
| Fetcher, `fetcher.ts` | partial files, jobs | resume, verify, cancel | disk | cut-off downloads | a partial file never passes as complete |
| Datasets, `server/datasets` | clips, curation, bakes | curation commands, bake | documents | | |
| LLM streams, HTTP core, model identity, folder migration, client surfaces, nodes, scripts, tests | | | | I/O, user interface, tooling | |

`PROJECT.json` repeats this list with the modules and the reason for everything
left out. The hazards it lists are the places in these parts that tests hardly
reach.

## Modules

```
AttemptStore            the row of an attempt and the store's writes (values, no state)
   ^
Engine                  queue, history, carry files, outage and restart of the engine
   ^          ^ (INSTANCE)
   |          JobRows           the row of a canvas job, the reducer, the guarded upsert (values)
   |             ^
   |          JobWatcher        job table, takes, sweeps of the watcher, landings, crash
   |             ^
   |          JobLane           + browser tabs: ledger, posts, submissions, retries, cancels
   |             |  ^  implements JobPromise, what the lane promises of one job
   |             |  |
   |             |  JobLaneProofs, LandingProofs, JobPromiseProofs    theorems
   |
CompletionOwner         dispatch, watchers, events, cancel, retries, carry, boot sweep, crash
   ^          ^
OwnerClaims   CompletionOwnerProofs, OwnershipProofs, AgreementProofs    theorems

Authoring               the animation document, its commands, submissions and landings
   ^
AuthoringProofs         theorems

ManagedEngine           the engine process of the studio: start, stop, exit, reconcile, crash
   ^
ManagedEngineProofs     theorems

MCCompletionOwner, MCJobLane, MCAuthoring, MCManagedEngine    constants and symmetries for TLC
```

The four groups meet where the code's parts meet: the animation lane and the
canvas lane use the same `Engine` (the canvas lane as an instance whose jobs are
its prompts); `Authoring` and `CompletionOwner` share the attempt, of which the
first keeps what was frozen and where it lands and the second the execution;
`ManagedEngine` is what stands behind an outage or a restart of `Engine`.

### AttemptStore

A row is a record of what the table holds: `state` (the execution state, with
`"none"` for a row nobody recorded yet), `verdict` (the delivery verdict),
`job` (the engine job id or `NoJob`), `result`, `preparation`, `continuation`.
The asset of a candidate is abstracted to the job that produced it, so
`Landed(r)` is `r.result # NoJob`. Each write of `store.ts` is one operator.
`SetExecution` shows the write's two peculiarities: it clears the verdict,
because the column is rebuilt from the arguments, and it does not look at the
state it replaces. `LandCandidate` keeps the first result. Progress, failure
texts, revisions and notifications are left out.

### Engine

ComfyUI as the port uses it. A job is free, pending, running, in the gap
between queue and history (`closing`), recorded with one of six outcomes, or
gone. The port's `history()` polls through the gap, so its answer (`CanAnswer`)
is only enabled outside of it: this states the assumption that the settle
window is longer than the gap. `EngineUnreachable`/`EngineReachable` is an
outage, `EngineRestarts` loses queue and history but not the output folder.
Non-OK answers count as outages. `/interrupt` changes nothing by itself,
because a running job may end as interrupted at any moment (another client may
ask for it). Jobs of other clients share the queue and the history. The history
variable `ended` keeps the record a job got when it ended, which restarts,
removals and outages do not erase: properties that say what became of a job read
it, so that a job that is `gone` counts neither as done nor as failed.

### CompletionOwner

The server is one JavaScript thread. A task runs from one `await` to the next
without interruption, and every action is one such run; `task[t].at` names the
call a task waits for.

* Task `a \in Attempts` is the watcher of attempt `a` (`observe`, `tick`); a
  task `c \in Calls` is one user call or event handler (`cancel`,
  `onEngineCompletion`, `retryPreparation`); `Sweep` is `reconcile` at boot.
* `Resolve` is `resolveFromEngine` up to its first await, `EngineAnswers`,
  `HistoryThrows`, `AnswerTooLate`, `Settles`, `Lands`, `LandingThrows`,
  `LandingCompletes` and `PreparationResumes` are its continuations, and
  `AfterResolve` what each caller does with its result. The answer is read in
  one step and used in another, so every other actor gets in between.
* `CancelWithoutJob`, `CancelWithJob`, `CancelDeposes` (the depose loop, one
  request per step), `CancelRemembers`, `CancelThrows` are `cancel`.
* `KickCarry`, `Registers` and `RetryRegistration` are the carry registration
  behind its `registeringCarry` guard.
* `Submit`, `DispatchUploads`, `DispatchResolves`, `DispatchRefused`,
  `DispatchThrows`, `Delivered`, `DispatchAcked`, `DispatchDeposes` are the
  dispatch; the accept of the engine and the arrival of its answer are two
  steps, so a crash or a cancel fits between them.
* `SweepVisits` to `SweepEnds` are `reconcile`. The order in which it visits
  the rows is left open.
* `Crash` keeps the rows and the engine and loses everything else; `Boot`
  starts the sweep over the in-flight rows.

Abstractions: the bounded tries of frame preparation and of carry registration
are one await whose last try decides; `settleAndResolve` waits somewhere
between not at all and its bound (the `settling` await) and then resolves; the
uploads are one await and the enumerations another; a target slot may be
removed at any time, which is all of the document that landing reads. The
continuation value `unavailable` is written by the stage-back, which is not
modelled.

### JobRows, JobWatcher, JobLane

`JobRows` has the record of a job and the two functions that write it:
`Reduce` (`reduceJobPoll`, one poll against one record) and `Upsert` (the guard
of `repo.ts` in front of a whole-row write, with its exception for
resubmissions). `Overlay` is what a record becomes that travels as JSON and is
spread over another: a field that is not set leaves the other's in place.

`JobWatcher` is `jobWatcher.ts` with the two tables it writes. A sweep has the
passes `recover` (once per process), `observe` and `drain`; `watch.list` holds
the copies of the rows it read when the pass began, and the awaits are the
queue, the history and the two ingests. A run without an await spans several
actions (`at = "turn"`), in which no handler of the server runs. `LandingOf` is
`landJob`; failures are retried by later drains out of `pending`, which a crash
empties, and parked at `MaxLandings` as an errored take. `AppendTake` is the
idempotent append of `documents.ts`. Clocks are sets: a packet's grace, the
confirmation window of the restart verdict (longer than the gap between queue
and history) and the running deadline each may end at any moment.

`JobLane` adds the tabs of `useGenerationQueue.ts`, `useDebouncedPersist.ts` and
`h3Submit.ts`: load and resync of the ledger, the debounced post of the whole
ledger, the envelopes of the server (in order, lost, or missed by a tab that is
not connected), submission with its late cancel, the one automatic retry,
cancel (read the queue, act, answer) and the take a tab lands itself. Steps
marked `Mishap` are what users and the network do beside the plain course; the
bound `MaxMishaps` counts them. `promptEnd` is the instance's `ended`: the record
each prompt got.

Three things are simpler than the code. One post of a tab is under way at a time
(`TabPosts`), though `useDebouncedPersist` lets a second one overtake the first.
A tab submits after its boot fetch (`TabSubmits`); the code lets a user submit
earlier, and the list that arrives then replaces the new job
(`useGenerationQueue.ts:63`). Opening the line and reading the table are one step.

### Authoring

`store.ts` 519-1300 with the submissions of `rendering.ts` and `routes.ts` and
the rules of `types.ts`. The document is one body under one revision; each
command is one transaction and one action, `Author` being the shared end: parse
the new body, refuse it as an internal error or write it with the next
revision. A command at a stale revision is refused, which changes nothing, so
the actions are the commands whose revision matches: any command of any tab
that has seen the newest document, in any order, around submissions and
landings that work from older ones. A submission peeks, freezes its inputs,
waits for the engine (`requests`) and inserts (`Record`), where the unique key
decides between two of them; a landing attaches the clip to its target without
touching the revision. That commands at a stale revision change nothing is taken
from the code's comparison (519-527), which is no step here, so no property could see
it missing. A step freezes its span's intent (`StepInputs`): the
movement in it comes from the client's draft (`routes.ts:488`), which is assumed to be the
span's. A sequence freezes its start drawing (`KeyInputs`), not the one at the end of its
window. `FirstBody` is a document with two keys, a span and a
landed take: a state the first commands of a user lead to. `IdsAssumption` says
what the ids of the code, random UUIDs, are relied on for: no two things share one. A window's
id is a number here, so that a new one is the least that is free.
`StartAssumption`: the first document's parts exist.

A document has many commands and few of them share state. `Sessions` bounds each
behaviour to a number of calls per lane (key, span, document, editorial, chain,
lock, the four submissions), and the run checks seven sessions, each of lanes
that share state: keys with steps, spans with steps, chains with extensions
(five chain commands around three extensions), chains against document and
locks, chains against removal of their span, contributions with heroes and
sequences.

### ManagedEngine

`runtime.ts` over `engineProcess.ts`. `starting` and `stopping` say where the
single flights `startInFlight` and `stopInFlight` are and which process they
work for; `mgr` is the manager's snapshot with the engine it holds, the engine it
adopted and the flag that tells an ordered exit from a crash; `proc` is the
operating system's view, `file` the process that `runtime-state.json` names,
`registry` the children whose exit event has not been delivered. `Exit` is
`settle` with `handleExit`; `BootReads`, `BootAdopts`, `BootClears` and
`BootCleared` are `reconcileOnBoot`, `StatusFindsDead` is the probe of an adopted
engine. A stop that finds `stopped` or `stopping` answers without an await (the
settings are cached), so it is one step. Every end of the server is a crash here:
nothing but tests calls `stopLanServer`, so the orderly shutdown never runs.

Users call at any time, also while the reconcile reads, probes and clears
(`core.ts:4111-4114` does not await it), so an adoption or a `stopped` may be
written over a start, a stop or an exit of a request. The removal of the state file
that an exit orders is awaited by nobody (`runtime.ts:797`): `removals` holds
the ordered ones, and `RemovalLands` removes whatever the file names by then.
`Stubborn` are the processes that survive every signal, `Unsure` those that the
verification may fail to recognise (no `/proc`, a failed read or `tasklist`): an
unverified engine that answers is left alone and dropped from the record by the
boot, and not signalled by a stop, which then ends in `failed`.

`crossed` is a history variable that says what wrote over what in this life of the
server: `"boot"` when the reconcile ended over a request it did not see,
`"removal"` when the file was written before a removal ordered earlier had
landed. Several properties hold except behind one of these, and say so;
`claim_spawn` reports the first. `asked` is what users or `autoStart` asked for last.

Left out: launch profiles, hooks, ports, the mirrored config and logs (they are
the preparation, which may fail), the reuse of process ids and responders that
are not the recorded engine, and the re-pointing of `comfyUrl` when an engine is
ready (a read and a write of the settings file). Writes of the state file are
assumed to succeed. `status` is answered without a visible effect but for
`StatusFindsDead`, whose removal is treated like the one of an exit although the
code awaits it.

The model shows behaviour a maintainer should know, beside the findings:

* A spawn that throws settles before the manager holds the engine
  (`LaunchThrows`); the settled engine stays held, and the next stop ends with
  the snapshot in `stopping` until the next start.
* A crash between the spawn and `WriteStateFile` leaves an engine that no record
  names. An engine that is alive but does not answer the boot's probe in time, or
  answers and cannot be verified, is dropped from the record (`BootClears`), and
  the next start spawns beside it; for the second case that is what
  `runtime.ts:44` announces.
* A removal that an exit ordered may land after the state file of the next engine
  was written; that engine then runs without a record and is not found by the
  next boot.

## What TLC checks

| run | instance | question |
|---|---|---|
| `owner` | three scenarios: one attempt with a carry, two jobs, one call, every outcome, an outage, a crash; two attempts, three jobs of which one foreign, an outage, two crashes; one attempt, two calls at once, an outage, a crash | does a row stay layered and agree with the engine; what is repeated, adopted, watched twice; what is final? |
| `owner_live` | one attempt with a carry, a user's call beside an announced completion, an outage, a crash, fairness | does everything end? |
| `jobs_safety` | one packet job, one tab, three prompts, one mishap of any kind | what is sent or landed twice? |
| `jobs_live` | one job, one tab, an outage, a crash, fairness | do jobs settle and land, do sweeps end? |
| `authoring` | four attempts, two keys, spans, windows and drawings, seven sessions | does the document stay coherent and honest about what is outdated? |
| `managed` | three processes of which one survives signals and one cannot be verified, three requests at any time, a crash, a hang, fairness | one engine, an honest state, every request ends? |
| `claim_terminal`, `claim_repeat`, `claim_orphan`, `claim_window_drawings`, `claim_stop`, `claim_spawn` | a small instance of each | comments the code does not live up to |

Properties of the animation lane:

* `TypeOK`, the type invariant.
* `ReadinessIsLayered`: ready, prepared and registered imply landed, for every
  order of landing, retry, cancel and crash.
* `EngineAgrees`: a settled row says what the engine recorded of its job, and a
  row that says lost has a job that was interrupted, removed or forgotten. This is where
  the settle window earns its keep: with `CanAnswer` reduced to
  reachability, TLC finds a job called lost that renders.
* `VerdictMeansNoJob`: what the sweep may send again has no job of record.
* `ReadyIsNotUndone`: a ready row is at worst written back to reconciling.
* `RepeatNeedsCrash`: n prompts of one attempt cost n crashes (n > 1); comments
  promise that there is only one, which `claim_repeat` refutes.
* `NoSecondWatcher`: `observe` never replaces a live watcher.
* `JobIsFinal`, `JobIsOwn`: the job of a row is the attempt's own and is
  written once.
* `TerminalWithoutFaults`: with a reachable engine and a living server a
  terminal state is final, except that a refusal that arrives behind a cancel
  turns cancelled into failed. The exception, and what requests that fail do to
  terminal rows, is what `claim_terminal` reports.
* `WatchedSettles`, `SweepCompletes`, `CallsEnd`, `BootSettles`,
  `BootRegisters`: a watched attempt settles, lands or is parked as reconciling, the
  boot sweep and every call end, and after the last fault one boot sweep
  settles what is in flight and drives each registration to its end.

Properties of the canvas lane:

* `OneTakePerJob`: the tab's landing, the watcher's, its retries and the
  recovery after a boot make one take of a job.
* `LandedWasRendered`: a take that is no error shows a prompt whose record in the
  engine was done, however stale the record is that the landing works from;
  a prompt that was removed or lost never makes a take.
* `RetryFollowsError`: a second prompt of a job follows a prompt that the engine
  recorded as ended by an error or an interruption, not a cancelled, lost or
  finished one.
* `KeepsPromise`, the refinement `JobLane => JobPromise` with
  `asked[j]` the prompts submitted for `j` and `landed[j]` its takes: a job is
  sent at most twice, never after it landed, and lands once. Three prompts are
  offered, so a third request would be seen.
* `LostIsGone`: a job called lost in a restart is lost, though the queue is read
  long before the history.
* `CompletedLands`, `ActiveSettles`, `SweepsEnd`: completed jobs get a take,
  though retries live in memory and the server may die in between; active jobs
  settle; the watcher comes back from every sweep.

Properties of the document:

* `GateNeverRefuses`: the validation before a write never has anything to refuse,
  so no command ends in an internal error and no clip is turned away.
* `LineageStaysInChain`, `PreviewIsCoherent`: what a window's take was conditioned
  on lies earlier in its chain; when `chainMismatch`, which only compares
  neighbours, reports nothing, the whole lineage is the selected one.
* `BrokenLineageIsMarked`: the step that breaks the lineage of a window's take
  marks the window, over branches and links bound to an older ancestry.
* `OutdatedIsShown`: a take whose frozen inputs differ from what its step would
  render from now is in a marked span or was flagged when it landed.
* `AnswerIsTheirs`: nobody is told a submission was accepted while the row under
  its key renders something else. Losing the insert is also refused when
  another tab's command moved the revision between the two submissions.
* `EditorialIsBacked`: contributions are unique per lane and still held.
* `RevisionNamesContent`: nothing a command may write changes under an
  unchanged revision.

Properties of the managed engine:

* `SpawnsAlone`: once the reconcile has ended, and over no request, a process is
  spawned beside no living engine of the studio: no child, no adopted one, none
  that the record names. Without the condition it is `NoDoubleSpawn`, which
  `claim_spawn` refutes.
* `StoppedMeansNone`, `RunningIsRecorded`: the snapshot is honest in `stopped`
  unless the reconcile ended over a request, and a running engine is on record,
  whichever exit or stop came between, unless a removal ordered earlier was still
  to land.
* `ExitIsToldApart`: an exit is reported as stopped exactly when a stop waits for
  that process, unless the reconcile ended over a request.
* `RequestsEnd`: starts and stops wait for one another and never for ever, unless
  a child survives every signal, which `claim_stop` reports.
* `CrashedEngineIsTakenBack`: the engine that outlives its server, answers and can
  be verified is adopted by the next one, in whichever mode, unless a user starts
  another before the reconcile has ended.

Every property has a mutant: a plausible bug in a definition of the model under
which TLC finds the property violated.

**Bounds.** `MaxRounds` (5 in the code) and `MaxPollErrors` (3), `StreakLimit`
(15), `NoOutputCap` (30) and `MaxLandings` (3) only say how often a loop repeats
the same requests; one or two already give its first, its repeated and its last
round. `MaxCrashes`, `MaxOutages`, `MaxHangs`, `MaxMishaps` bound the faults; a
crash resets every task of the server, so two of them already contain each order
of a fault before, between and after two dispatches. A behaviour of `owner` is
one of three scenarios, told apart by the attempts it submits; the constraint of
`MCCompletionOwner` ends it where it would become two of them at once. `Pair` has
no carry and no user call and one outcome: the attempts share nothing but the
engine's queue and history, which it is about; with two crashes it has two
of its three parties (two attempts and the foreign job). `Duel` keeps two outcomes. What
the constraint cuts off are submissions, calls, crashes and outcomes, which no
fairness asks for. `owner_live` has a cancel or a retry in one call slot and an
announced completion in the other, both at once before the crash and one at a time
after it; instead of symmetry, which is unsound with liveness, its jobs are taken in
order. `WatchedSettles` counts a landed row as settled: a cancel that fails can write
reconciling over a ready row and a progress event then write rendering with no
watcher left, the fault that `claim_terminal` shows, but the clip has landed, and
the next boot settles the row.
`MaxInbox` is one envelope: a second one is a gap, the case a resync is for.
`MaxRequests` (two submissions waiting for the engine) is the race on a key.
`MaxSpawns` and `MaxCalls` are three: a start, a stop or a failure, and a second
start, or the engine before a crash, a user's start during the reconcile and the
start of the boot; `BootsLeft` keeps processes back for the
boots. In the claims about the managed engine they are one and three processes.
Jobs, prompts, calls and attempts are symmetric and used as symmetry
sets in runs without liveness. The runs say `CHECK_DEADLOCK FALSE` because a
bounded instance stops when its work, faults and requests are used up, as the
real server rests.

**Fairness.** Weak fairness of every continuation of a task, of the dispatch,
of a registration and of the sweep: the event loop runs what is runnable, and a
request is answered or fails. Weak fairness of the engine's work on its queue.
In the canvas lane weak fairness of the watcher's steps (an interval timer and
its continuations), of the clocks, of the engine and of the boot that follows a
crash. In the managed engine weak fairness of the steps of a start, a stop and
a reconcile, of signals and exit events, and of the boot. Nothing is assumed of
users, tabs, the event feed, outages, crashes, or of an engine getting ready: the
liveness properties allow for these or start from states in which the
faults are over.

## What the claims show

Each of the six claims states a comment of the code as a property that TLC
refutes.

* `TerminalIsFinal` (`OwnerClaims`). `completion-owner.ts:50` says no event, poll
  or cancel moves a terminal row, `rendering.ts:1614-1623` that the dispatch reads
  the row again around every await and a terminal one keeps its state. Two places
  do not. The catch arms of the dispatch (`rendering.ts:1704-1761`) write failed,
  and its transport arm reconciling with a verdict, without reading the row again:
  a row that was cancelled during the await that threw becomes failed, or
  reconciling with never-delivered, which the next boot sends to the engine. And the
  catch around `engine.history` (`completion-owner.ts:166`) and the one of `cancel`
  (683) write reconciling over a row that landed meanwhile; the next boot sweep
  repairs that one.
* `PromptIsNotRepeated` (`OwnerClaims`). `completion-owner.ts:592` says never an
  automatic repeat of work that may have run, `rendering.ts:1903` that a redispatch
  repeats no engine work. The redispatch leaves never-delivered in the row while its own
  prompt is on the way. TLC: an outage at the upload, a crash, the boot sends
  the row again, the engine takes the prompt, a crash before the answer; the next
  boot looks while the prompt is between queue and history, finds nothing, reads
  never-delivered and sends it again.
* `OrphanSettles` (`JobLane`). `jobReducer.ts:190` says work lost in a restart of
  the engine is recognised within seconds, queued or running.
  `jobWatcher.ts:237` asks the queue only while some row is queued; a lone
  running row waits for its deadline.
* `OutdatedWindowIsShown` (`Authoring`). `store.ts:575` says staleness errs towards
  marking more. `selectKeyCandidate` (851) marks the spans at the key; windows of
  a chain froze the same drawing and are shown as current.
* `LastStopHolds` (`ManagedEngine`). `runtime.ts:697` says a stop lets a start in
  flight settle. The answer for a snapshot that says stopped (694) comes first,
  and the snapshot says so until the preparation of the start is over: the stop
  changes nothing and the engine is spawned after it. And `runtime.ts:19-21` says
  an engine that the escalation cannot reap ends in failed, never in a hang;
  `gracefulStop` (`engineProcess.ts:485`) resolves with the exit alone, so its stop,
  and every start behind it, waits for ever.
* `NoDoubleSpawn` (`ManagedEngine`). `runtime.ts:44` and `core.ts:4112` say that a boot
  adopts instead of spawning a second engine. Users are served while the
  reconcile is under way: a start before it has read the record spawns beside the
  recorded engine. The same gap lets the reconcile write `stopped` over a living child,
  leave a running engine without a record, and make a later exit look ordered, which is
  why `StoppedMeansNone`, `RunningIsRecorded` and `ExitIsToldApart` only
  speak of a reconcile that ended over no request.

## What is proved

Thirty-one theorems, each for every value of the constants.

| module | theorem | property | in short |
|---|---|---|---|
| `CompletionOwnerProofs` | `TypeCorrect` | `TypeOK` | rows, tasks, dispatches and engine are typed |
| `OwnershipProofs` | `JobsAreOwn` | `JobIsOwn` | a row's job and clip belong to its attempt |
| `OwnershipProofs` | `VerdictsHaveNoJob` | `VerdictMeansNoJob` | what may be sent again has no job |
| `OwnershipProofs` | `WatchersAreSingle` | `NoSecondWatcher` | no live watcher is replaced |
| `OwnershipProofs` | `JobsAreFinal` | `JobIsFinal` | a row's job is written once, and its attempt never sent again |
| `AgreementProofs` | `EngineStaysAgreed` | `EngineAgrees` | what a row says of its job is what became of the job |
| `AgreementProofs` | `ReadinessStaysLayered` | `ReadinessIsLayered` | a ready row has its clip, its frame and its carry |
| `AgreementProofs` | `ReadyStaysReady` | `ReadyIsNotUndone` | a ready attempt is not rendered, landed or rejected again |
| `AgreementProofs` | `RepeatsCostCrashes` | `RepeatNeedsCrash` | every prompt of an attempt beyond the first costs a crash |
| `AgreementProofs` | `TerminalStaysWithoutFaults` | `TerminalWithoutFaults` | without faults a terminal state is final, but for a dispatch refused behind a cancel |
| `JobLaneProofs` | `LaneTypeCorrect` | `TypeOK` | table, ledgers, posts, envelopes and watcher are typed |
| `LandingProofs` | `OneTakeForEver` | `OneTakePerJob` | a job has one take |
| `LandingProofs` | `TakesAreRendered` | `LandedWasRendered` | a take that is no error shows a prompt of the job that the engine recorded as done |
| `LandingProofs` | `LostForGood` | `LostIsGone` | a job called lost is gone from the engine |
| `JobPromiseProofs` | `RetryIsOfAFailure` | `RetryFollowsError` | of two prompts the engine recorded one as failed or interrupted |
| `JobPromiseProofs` | `LaneKeepsPromise` | `KeepsPromise` | the lane implements its promise: two requests, none after the take, one take |
| `AuthoringProofs` | `AnswersAreTheirs` | `AnswerIsTheirs` | who is told a submission was accepted finds what it froze under its key |
| `AuthoringProofs` | `DocumentStays` | the invariant `DocInv` | the body's shape, its references, its rows and what was frozen stay in order |
| `AuthoringProofs` | `DocumentTypes` | `TypeOK` | document, rows, requests and answers are typed |
| `AuthoringProofs` | `GateStaysQuiet` | `GateNeverRefuses` | no body is ever refused by the validation before a write |
| `AuthoringProofs` | `LineageStays` | `LineageStaysInChain` | what a window and its takes continue precedes it in its chain |
| `AuthoringProofs` | `PreviewStaysCoherent` | `PreviewIsCoherent` | matching neighbours mean the whole lineage is on the selected path |
| `AuthoringProofs` | `OutdatedStaysShown` | `OutdatedIsShown` | a take with old inputs is flagged or its span is marked |
| `AuthoringProofs` | `EditorialStaysBacked` | `EditorialIsBacked` | the editorial list names takes their lanes hold, each once |
| `AuthoringProofs` | `BrokenStaysMarked` | `BrokenLineageIsMarked` | the step that breaks a window's lineage marks it |
| `AuthoringProofs` | `RevisionStaysTheName` | `RevisionNamesContent` | what a command may write changes only with the revision |
| `ManagedEngineProofs` | `EngineTypeCorrect` | `TypeOK` | manager, requests, processes and record are typed |
| `ManagedEngineProofs` | `StoppedHoldsNone` | `StoppedMeansNone` | stopped holds no child and no adopted engine, but behind a reconcile that ended over a request |
| `ManagedEngineProofs` | `RunningStaysRecorded` | `RunningIsRecorded` | the record names the running engine, with the two exceptions of `crossed` |
| `ManagedEngineProofs` | `SpawnsAreSingle` | `SpawnsAlone` | after the reconcile no engine is spawned beside a living one |
| `ManagedEngineProofs` | `ExitsAreToldApart` | `ExitIsToldApart` | an exit is called stopped exactly when it was ordered, with the same exception |

### The owner's theorems

*Assumptions.* Any number of attempts, jobs, calls, crashes and outages, any
subset of outcomes. The assumptions are the ones the modules name: `NoJob` is no job and `NoAttempt` no
attempt, the carrying, removable and retriable attempts are attempts, foreign
jobs are jobs, the outcomes are ones the history can hold, the task names are
disjoint, the bounds are natural numbers. TLC evaluates all of them in each run.

*Types.* `TypeOK` alone is not inductive: a landing step writes the row of the
attempt its task works for, so the proof has to know that a task that waits
works for an attempt. `TypeInv` adds `TasksInRole`: a watcher only awaits what
`tick` awaits and only for its own attempt, a call slot only what events,
cancels and retries await, the sweep only what `reconcile` awaits.

*Ownership.* `OwnInv` is the inductive invariant of the four other theorems. Its
parts, and why each is needed:

* `RowInv`: the two properties about rows, and that an attempt nobody recorded
  has a blank row (so that a first submission finds no job and no result).
* `DispatchInv`: a dispatch works for a recorded row without a job, so writing
  the acknowledged job overwrites nothing; the job between the engine's accept
  and its answer carries the attempt; a free job carries nobody, so a new prompt
  takes no job away from another row.
* `SweepInv`: while the sweep works no attempt is dispatched but the one it
  sends again, which is the `ready` flag of the routes; and what it has still to
  visit is watched by nobody. Without it a search and a dispatch could both give
  a job to one row.
* `TasksRely`: what each wait may rely on when it ends, for example that a task
  that asked the history has a job, that one that prepares a frame has a landed
  clip, and that a watcher only exists for a row with a job.
* `RegisteringHasLanded` and `DownIsIdle`: a registration only runs for a landed
  clip; a dead process leaves no task.

Most writes of the store do not touch what `OwnInv` is about. `Keeps` says so
once (job, result, no new verdict, blank stays blank), `WritesKeep` proves it of
each write, and `QuietStep` turns it into the invariant's preservation for every
step that only makes such writes; `ReturnStep` and `MovesOn` do the same for a
task that returns or waits on. What remains are the steps that give a row its job
(`AckedOwn`, `SweepFindsOwn`), the first write of a row (`SubmitOwn`), the accept
(`DeliveredOwn`) and the sweep's own.

*Agreement.* `AgreeInv` adds to `OwnInv` what relates the rows and the answers
that tasks hold to the engine, whatever the engine does between the two reads:

* `EngineInv`: outages are counted, and only a carry has a carry's errors.
* `AnswersStand`: an answer a task holds is the engine's record of that job, or
  the engine was restarted since; an answer "lost" means the job is gone for good.
* `AnswersMatch`: two tasks that were told about one attempt were told the same.
  Without it the second of two readers could overwrite a landing with a failure.
* `LandedStands`: what landed is on record as a clip, and nobody holds another
  answer for it.
* `EngineAgrees` and `ReadinessIsLayered` themselves.

Every step is split into three moves: `RowsMove` (what one step may make of a row:
`PartTo` and `CarryTo` list the cases), `TasksMove` (what the tasks hold then)
and `EngineMove`. One lemma per step kind says that the step makes these moves, and
then the preservation of each conjunct is proved once from the moves, instead
of once per action.

*Cost.* `CostInv` is the counting argument. `SweepCosts` says a sweep, or a dead
server, means that a crash happened; `DispatchHolds` that the row in dispatch is
pending or cancelled; `PromptsCounted` relates the number of prompts stamped with
an attempt to the number of crashes, by the stage of its dispatch and its
verdict. The cardinalities are those of the library's finite-set theorems.
`RepeatNeedsCrash` is its last case, and `TerminalWithoutFaults` follows since
without a crash only the two unguarded writes behind a failed request touch a
terminal row.

### The lane's theorems

*Assumptions.* Any number of jobs, tabs, prompts, crashes, outages and mishaps.
Those named in the modules: `NoPrompt` is no prompt and `NoJob` no job, the linked
and the video jobs are jobs, the outcomes are ones the history can hold
(`EngineAssumption`), the bounds are natural numbers, the caps of failed and of empty
polls at least one.

*Types and landings.* `LaneInv` is `TypeInv /\ LandingInv /\ TakesInv`. The
hazard of the lane is that whole rows travel: a job's record lives in the table, in
the list a sweep read, among the landings to be retried, in each tab's ledger, in a
post, in a submission and in an envelope, and each of them may be written over
another. `HonestInv` therefore speaks of every copy (`Honest`): the prompt it names
was submitted for that job, a copy that says completed names a prompt that was
rendered, a copy that says lost one that is gone. `StepWithin` says once that
a step only adds records that the reducer, the guard or a tab makes of honest
ones. `QueueInv` orders the two reads behind the restart verdict (the queue's
answer is older than the history's), `AnsweredInv` and `PassInv` say what the
watcher holds in each pass, `TakesInv` that the takes are those of landed jobs,
one each.

*The promise.* `PromiseInv` is the invariant behind the refinement. `OwnerInv`:
one tab owns a job's submission. `RequestInv`: how many prompts were submitted at
each point of a submission, never more than two. `FreshInv`: while a job may
still be sent, none of its copies is marked retried, and a failure told by the
engine sits in one envelope only; this is what makes the one automatic retry
happen once although the flag travels with the row. `ErrorInv`: a prompt that was
told as failed renders nothing, so the retry cannot meet a late take of the
first prompt. From it `AskCounts` and `LandCounts` give each step's effect on the
cardinalities `asked[j]` and `landed[j]`, and `EffectStep` maps the step to one of
`JobPromise` or to a stutter.

### The document's theorems

*Assumptions.* Any sets of keys, spans, windows, drawings, texts and frames, any
number of takes and of calls per lane, any number of submissions under way.
`IdsAssumption`: attempts are finitely many (the walk through a take's ancestors
counts them), the ids of windows are numbers, a clip and a
drawing never have the same id, and `None` is no id. `StartAssumption`: what the
first document contains exists. `AnswersAreTheirs` needs neither.

*Answers.* The invariant adds to `AnswerIsTheirs` that each row says what it
froze. Commands leave rows and answers alone (`CommandKeeps`), a landing writes two
other fields of a row (`LandingKeeps`), the peek accepts a held key only for the same
frozen record (`SubmitAnswers`), and the insert either finds the winner's row or
makes the row of its submission (`RecordAnswers`).

*The document.* `DocInv` is the inductive invariant of the other theorems. It relates
three things that change at different times: the body, the rows, and what the
submissions that still wait for the engine have frozen.

* `RowsInv`, `Bodies`, `KeysInv`, `SpansInv`: the shapes; a key selects and a
  reference names what its slot holds, a span lies between keys that are there.
* `FrozenInv`: what was frozen names a target that is there, or a span that has left,
  and the source of a window's take landed and precedes the window. It speaks of
  `Submitted`, the rows and the waiting requests, since a command may remove the
  span or rebind the chain while the engine renders. Without it a landing could find no
  target, or bring a take into a chain it does not continue.
* `TakesInv`: a take is in the step or window it was rendered for, and landed.
* `ChainsInv`: places in a chain are distinct, a window selects what it holds and
  continues what precedes it. `Rooted` says that a window is younger than the root
  of its chain: neither the root nor an ancestor of it is one of the window's
  takes. `PreviewIsCoherent` rests on it: otherwise a walk through the ancestors could leave
  the chain at the root and come back into it beside the selected path.
* `EditorialInv`: the list is without repetition and backed.
* `CurrentInv`: what was frozen at the revision the document still has was frozen
  from the inputs the document still says. So a landing that is not called earlier
  brings a current take. `ShownInv` is what follows for the takes: current, flagged, or
  in a marked span.
* `~gateFailed`: no write was refused so far.

*Commands.* `Commanded` says once what a command does: it ends in `Author` with a
body that satisfies `FormInv` and `ShownInv` and in which each window that lost its
lineage is marked (`LineageMarked`). One lemma per command proves it
(`addKeyCandidateCommands` to `createWindowSlotCommands`), over lemmas for the
parts: what a change of one key, span or window keeps (`KeyPutForm`,
`SpanChangedForm`, `WindowChangedForm` and their like), and what the marking helpers of the
code reach (`MarkSpansForm`, `MarkWindowsForm`, `SpanIsAffected`). `GateAccepts` says
that `FormInv` implies everything the validation asks, hence `GateNeverRefuses`;
`CommandedInv` then gives `DocInv'`.

*Submissions and landings.* `FrozenNow` is what each submission freezes, and
`RowsAdded` shows that a new request or row disturbs nothing. `Joined` is what a
landing makes of the body: the clip is added to its target, and nothing that other takes
render from changes. `LandingJoins` proves it for keys, sequences, steps
and windows, `LandingInv` derives `DocInv'`. `LandingAuthored` is the same
comparison for all a command may write, which is `RevisionNamesContent`; and since every
ancestor of a landed take has landed (`AncestorsLanded`), a landing breaks no
lineage, which leaves `BrokenLineageIsMarked` to the commands.

*Walks.* Ancestry in the model is a recursive function over the number of attempts. What it
computes is reached without the library's induction rules: `NatMin`, the
least element of a set of naturals, gives `Climb` (what holds at 0 and climbs holds up to
N) and `Climber` (the function defined by steps exists), hence `AncestryWalks`,
`AncestorsIn` (a walk stays in a set that is closed under sources) and `WalkMeetsRoot`
(a walk that meets the root goes on among the root's ancestors).

### The managed engine's theorems

*Assumptions.* Any number of processes, requests, crashes and hangs, any sets of
processes that survive signals or cannot be verified, and users that call at any
time, also before the reconcile has ended.

*Argument.* `IInv` is `TypeOK`, `NamedInv`, `BootInv` and: the reconcile ended over
a request (`"boot" \in crossed`), or `Rest`. The disjunction is needed because a
reconcile that writes over a request breaks every part of `Rest`; the
properties speak of the other case. A crash empties `crossed`, and `Rest` holds again.

* `NamedInv`: whoever is held, adopted, recorded, worked for or about to be probed
  was spawned, so the next process is nobody's.
* `BootInv`: a server that is down holds nothing; nobody is adopted, and nothing
  written over, before the reconcile gets there; while it clears, the record it
  removes is not the one of the engine that is held.
* `HoldInv`: the manager holds the one child there can be.
* `StateInv`: the snapshot against the flights, for example that a child in
  `stopping` is waited for by a stop, one in `failed` by a failed start, that
  `running` never has the flag of an ordered exit set, and that an adopted engine
  is beside no child and no flight.
* `StartInv`: a start that prepares finds no child; from the spawn on it works
  for the only child; a stop behind its first wait runs beside no start.
* `FileInv`: after the reconcile, a record that names a living engine names the
  held one, except in the end of a stop, which removes it; and the record of
  an engine that runs is not about to be removed.

`StartStepInv`, `StopStepInv`, `ProcessStepInv`, `BootStepInv`, `UserStepInv` and
`ServerStepInv` prove `Rest` for the steps of each kind, with one step per action
and conjunct; `NextNamed`, `NextBootInv` and `NextCrossed` prove the other parts.
The two action properties follow at the only steps
that spawn (`Launch`, `LaunchThrows`) or deliver an exit (`Exit`).

### Only model-checked

Every invariant and every action property that a passing run checks is stated
by a theorem above, and so is the refinement of `JobPromise`. What stays with TLC
is liveness, which needs fairness and `ENABLED`, out of the prover's reach:
`WatchedSettles` and its companions of the owner, `CompletedLands`, `ActiveSettles`
and `SweepsEnd` of the lane, `RequestsEnd` and `CrashedEngineIsTakenBack` of the
managed engine. That the six claims above fail is shown by their counterexamples.

## Plan

Still open, in this order:

1. **Stage-back of carries** (`rendering.ts` 1132-1243): two extensions of one
   source share a flight; `ready` and `unavailable` follow the file.
2. **Realtime hub, fetcher, dataset clips, media viewer**: overflow and resync;
   partial files and resume; the life cycle of a clip; the pool of players.

## Not modelled

Export and assembly, engine packs, LLM streams, model identity and folder
migration are pipelines of I/O whose states live in files and other processes.
Of the HTTP core only the wiring, the boot and the routes of the modelled parts
appear. The compiler, the graph builders and most validators are pure string
and object construction. Browser surfaces other than the job queue, Python node
packs, benchmarks, build scripts and tests keep no protocol state with the
server. The stage-back of carries, the realtime hub, the fetcher, the datasets
and the media viewer keep state of their own and are left for later (see the
plan); the modelled parts only rely on them through steps that may fail or
events that may be lost. Of the studio's repository and the canvas documents
only the job table and the takes of a chain are modelled, of the job queue client
neither the migration of local storage nor the other lanes.

Wall-clock times appear only as the order of events: the settle window of the
engine port is assumed longer than the gap it covers, and requests are assumed
to be answered or to fail.

Hazards that no property covers:

* an upload without a timeout that hangs in a redispatch holds up the sweep and
  every submission (`rendering.ts:842`, excluded by the fairness of requests);
* a prompt accepted behind a cancel that is not withdrawn renders for nobody
  (`h3Submit.ts:444`): the model has it, and no property asks that it leaves the queue;
* a command with a missing or wrong comparison of revisions (`store.ts:525`), since a refused
  command is no step.

That the watcher may write over a cancel (`jobWatcher.ts:345`) is in the model as well:
`OneTakePerJob` keeps what follows to one take, and no property says that the cancel stays.

----------------------------- MODULE JobWatcher -----------------------------
(***************************************************************************)
(* The server's side of the canvas lane: the job table, the takes of one   *)
(* chain, and the watcher that observes the engine, settles the rows and   *)
(* lands their outputs (server/jobWatcher.ts).  JobLane adds the tabs.     *)
(*                                                                         *)
(* The server is one thread.  An action of the watcher runs from one await *)
(* to the next; where it ends in the state "turn" the run continues in the *)
(* next action, and no handler of the server runs in between (ThreadFree). *)
(***************************************************************************)
EXTENDS JobRows, Sequences, FiniteSets

CONSTANTS Jobs, NoJob,
          Tabs,          \* the tabs that may be open
          Linked,        \* jobs whose manifest names the chain
          Packets,       \* jobs that render an image packet
          MayAge,        \* jobs that may pass the running deadline
          Outcomes,      \* what the engine may record
          MaxOutages,    \* bound on outages of the engine
          MaxCrashes,    \* bound on crashes of the server
          MaxLandings,   \* MAX_LANDING_ATTEMPTS (3 in the code)
          MaxInbox       \* envelopes under way to a tab

ASSUME SubsetsAssumption == /\ Linked \subseteq Jobs
                            /\ Packets \subseteq Jobs
                            /\ MayAge \subseteq Jobs
ASSUME LimitsAssumption == /\ MaxCrashes \in Nat
                           /\ MaxInbox \in Nat
                           /\ MaxLandings \in Nat \ {0}
ASSUME NoJobAssumption == NoJob \notin Jobs

VARIABLES prompt,      \* prompt[p]: where the engine has prompt p
          promptOf,    \* promptOf[p]: the job it was submitted for
          promptEnd,   \* promptEnd[p]: the record it got, if it got one
          engineUp, outages,
          row,         \* the job table
          takes,       \* the takes of the chain's output, oldest first
          chainAlive,  \* the chain is not in the trash
          serverUp, crashes,
          watch,       \* the watcher's sweep
          recovered,   \* recoveredOnce
          pending,     \* pendingLandings
          seen,        \* packetSeenAt: the grace of a packet
          orphan,      \* restartOrphanSeenAt, by prompt
          late,        \* the jobs past the running deadline
          line         \* line[t]: the envelopes under way to tab t

engineVars  == <<prompt, promptOf, promptEnd, engineUp, outages>>
storeVars   == <<row, takes, chainAlive>>
processVars == <<serverUp, crashes>>
clockVars   == <<seen, orphan, late>>
serverVars  == <<engineVars, storeVars, processVars, watch, recovered,
                 pending, clockVars, line>>

E == INSTANCE Engine WITH Attempts <- Jobs, Jobs <- Prompts, Carry <- {},
                          NoJob <- NoPrompt, NoAttempt <- NoJob,
                          Foreign <- {}, job <- prompt, jobOf <- promptOf,
                          ended <- promptEnd,
                          carryFile <- [j \in Jobs |-> "absent"]

ASSUME EngineAssumption == Outcomes \subseteq E!Records /\ MaxOutages \in Nat

Rows  == [Jobs -> JobRecords]
Blank == [j \in Jobs |-> NoRecord]

-----------------------------------------------------------------------------
(* The take store. *)

TakeKinds == {"full", "partial", "errored"}
Takes == [job : Jobs, from : Prompts \cup {NoPrompt}, kind : TakeKinds]

Taken(j) == \E i \in DOMAIN takes : takes[i].job = j

(* Mutant: no look at the takes the job already has. *)
AppendTakeTwice(j, p, k) ==
    Append(takes, [job |-> j, from |-> p, kind |-> k])

(* appendTake: a job that has a take keeps it; a new take supersedes the   *)
(* others, so the last one is the output's live take.                      *)
AppendTake(j, p, k) ==
    IF Taken(j) THEN takes
                ELSE Append(takes, [job |-> j, from |-> p, kind |-> k])

-----------------------------------------------------------------------------
(* The state of the watcher.                                               *)

(* "turn" is a run that goes on without an await; the others are awaits:   *)
(* the queue, the history, the ingest of an observation, the ingest of a   *)
(* landing.                                                                *)
WatchStates == {"off", "idle", "turn", "queue", "history", "ingest", "land"}
Passes  == {"none", "recover", "observe", "drain"}
Queues  == [known : BOOLEAN, pending : SUBSET Prompts, running : SUBSET Prompts]
NoQueue == [known |-> FALSE, pending |-> {}, running |-> {}]

Tries == 0 .. MaxLandings

(* todo are the jobs the pass has still to visit, job the visited one and  *)
(* list the copies of their records, read when the pass began.             *)
Watches == [at : WatchStates, pass : Passes, todo : SUBSET Jobs,
            list : Rows, job : Jobs \cup {NoJob},
            queue : Queues, tries : Tries]

Resting == [at |-> "idle", pass |-> "none", todo |-> {}, list |-> Blank,
            job |-> NoJob, queue |-> NoQueue, tries |-> 0]
PendingRecords == [due : BOOLEAN, rec : JobRecords, tries : Tries]
NotPending == [due |-> FALSE, rec |-> NoRecord, tries |-> 0]

Envelopes == [job : Jobs, outcome : {"completed", "failed"},
              error : BOOLEAN, rec : JobRecords]

(* A tab that is not connected gets nothing; a gap in the numbering of its *)
(* envelopes is all that is left of those that were lost.                  *)
Lines  == [open : BOOLEAN, gap : BOOLEAN, sent : Seq(Envelopes)]
NoLine == [open |-> FALSE, gap |-> FALSE, sent |-> <<>>]

ServerTypeOK ==
    /\ E!EngineTypeOK
    /\ row \in Rows
    /\ takes \in Seq(Takes)
    /\ chainAlive \in BOOLEAN /\ serverUp \in BOOLEAN
    /\ recovered \in BOOLEAN
    /\ crashes \in 0 .. MaxCrashes
    /\ watch \in Watches
    /\ pending \in [Jobs -> PendingRecords]
    /\ seen \in [Jobs -> {"never", "open", "over"}]
    /\ orphan \in [Prompts -> {"never", "young", "old"}]
    /\ late \subseteq MayAge
    /\ line \in [Tabs -> Lines]

ServerInit ==
    /\ E!EngineInit
    /\ row = Blank
    /\ takes = <<>>
    /\ chainAlive = TRUE
    /\ serverUp = TRUE /\ crashes = 0
    /\ watch = Resting /\ recovered = FALSE
    /\ pending = [j \in Jobs |-> NotPending]
    /\ seen = [j \in Jobs |-> "never"]
    /\ orphan = [p \in Prompts |-> "never"]
    /\ late = {}
    /\ line = [t \in Tabs |-> NoLine]

(* A handler of the server runs when the watcher awaits or rests. *)
ThreadFree == serverUp /\ watch.at # "turn"

-----------------------------------------------------------------------------
(* emit: the envelope goes to every open line. *)

Sent(l, e) ==
    IF ~l.open THEN l
    ELSE IF Len(l.sent) < MaxInbox THEN [l EXCEPT !.sent = Append(@, e)]
                                   ELSE [l EXCEPT !.gap = TRUE]

Emit(j, outcome, error, r) ==
    line' = [t \in Tabs |-> Sent(line[t], [job |-> j, outcome |-> outcome,
                                           error |-> error, rec |-> r])]

-----------------------------------------------------------------------------
(* The passes of a sweep.                                                  *)

Rec == watch.list[watch.job]
Copies(js, rs) == [j \in Jobs |-> IF j \in js THEN rs[j] ELSE NoRecord]
OnTurn(pass, js, rs) == [Resting EXCEPT !.at = "turn", !.pass = pass,
                                        !.todo = js, !.list = Copies(js, rs)]
Turn == [watch EXCEPT !.at = "turn", !.job = NoJob, !.tries = 0,
                      !.list[watch.job] = NoRecord]

PassOnly == UNCHANGED <<engineVars, takes, chainAlive, processVars,
                        clockVars, line>>

(* recoverUnlandedJobs: completed rows with a prompt and a canvas link. *)
Unlanded == {j \in Linked : row[j].status = "completed"
                            /\ row[j].prompt # NoPrompt}

(* Mutant: a boot forgets the landings of the process before it. *)
TickNoRecovery ==
    /\ ThreadFree
    /\ watch.at = "idle"
    /\ watch' = OnTurn("recover", {}, Blank)
    /\ recovered' = TRUE
    /\ UNCHANGED <<row, pending>> /\ PassOnly

(* tick: one sweep at a time; the first sweep of a process recovers. *)
Tick ==
    /\ ThreadFree
    /\ watch.at = "idle"
    /\ watch' = OnTurn("recover", IF recovered THEN {} ELSE Unlanded, row)
    /\ recovered' = TRUE
    /\ UNCHANGED <<row, pending>> /\ PassOnly

OnPass(pass) == serverUp /\ watch.at = "turn" /\ watch.pass = pass

Visits(j) == watch' = [watch EXCEPT !.at = "history", !.job = j,
                                    !.todo = @ \ {j}]
Skips(j)  == watch' = [watch EXCEPT !.todo = @ \ {j}, !.list[j] = NoRecord]

(* The row was read when the pass began; a job that has a take by now      *)
(* needs no recovery.                                                      *)
RecoverVisits(j) ==
    /\ OnPass("recover")
    /\ j \in watch.todo
    /\ IF Taken(j) THEN Skips(j) ELSE Visits(j)
    /\ UNCHANGED <<row, pending, recovered>> /\ PassOnly

(* The recovery is over: the active records are listed, and the queue is   *)
(* asked if one of them is queued.                                         *)
ActiveJobs == {j \in Jobs : Active(row[j])}

Lists ==
    /\ OnPass("recover")
    /\ watch.todo = {}
    /\ watch' = [OnTurn("observe", ActiveJobs, row) EXCEPT
                   !.at = IF \E j \in Jobs : row[j].status = "queued"
                             THEN "queue" ELSE @]
    /\ UNCHANGED <<row, pending, recovered>> /\ PassOnly

QueueRead == [known   |-> TRUE,
              pending |-> {p \in Prompts : prompt[p] = "pending"},
              running |-> {p \in Prompts : prompt[p] = "running"}]

(* Mutant: an engine that does not answer is waited for. *)
QueueAnswersWhenUp ==
    /\ serverUp
    /\ watch.at = "queue"
    /\ engineUp
    /\ watch' = [watch EXCEPT !.at = "turn", !.queue = QueueRead]
    /\ UNCHANGED <<row, pending, recovered>> /\ PassOnly

QueueAnswers ==
    /\ serverUp
    /\ watch.at = "queue"
    /\ watch' = [watch EXCEPT !.at = "turn",
                    !.queue = IF engineUp THEN QueueRead ELSE NoQueue]
    /\ UNCHANGED <<row, pending, recovered>> /\ PassOnly

(* A record without a prompt has only the deadline. *)
ObserveVisits(j) ==
    /\ OnPass("observe")
    /\ j \in watch.todo
    /\ IF watch.list[j].prompt # NoPrompt
          THEN Visits(j) /\ UNCHANGED row
          ELSE /\ Skips(j)
               /\ row' = IF j \in late
                            THEN [row EXCEPT ![j] = Upsert(@,
                                   Reduce(watch.list[j], "unasked", TRUE))]
                            ELSE row
    /\ UNCHANGED <<pending, recovered>> /\ PassOnly

(* drainPendingLandings: the entries there are when the sweep is over. *)
DrainBegins ==
    /\ OnPass("observe")
    /\ watch.todo = {}
    /\ watch' = OnTurn("drain", {j \in Jobs : pending[j].due},
                       [j \in Jobs |-> pending[j].rec])
    /\ UNCHANGED <<row, pending, recovered>> /\ PassOnly

DrainVisits(j) ==
    /\ OnPass("drain")
    /\ j \in watch.todo
    /\ watch' = [watch EXCEPT !.at = "history", !.job = j,
                              !.todo = @ \ {j}, !.tries = pending[j].tries]
    /\ pending' = [pending EXCEPT ![j] = NotPending]
    /\ UNCHANGED <<row, recovered>> /\ PassOnly

SweepEnds ==
    /\ OnPass("drain")
    /\ watch.todo = {}
    /\ watch' = Resting
    /\ UNCHANGED <<row, pending, recovered>> /\ PassOnly

-----------------------------------------------------------------------------
(* Landing: what landJob does with the visited job, its record r and what  *)
(* the history showed.  "fetch" goes on after the ingest of the output.    *)

LandingOf(j, r, saw) ==
    CASE j \notin Linked \/ ~chainAlive              -> "note"
      [] j \in Packets /\ seen[j] # "over"           -> "deferred"
      [] j \in Packets /\ Taken(j)                   -> "landed"
      [] j \notin Packets /\ r.local                 -> "append"
      [] saw = "done"                                -> "fetch"
      [] OTHER                                       -> "error"

Retained(j, r, n) ==
    pending' = [pending EXCEPT ![j] = [due |-> TRUE, rec |-> r, tries |-> n]]
Announces(j, r) == Emit(j, "completed", FALSE, r)

(* settleLanding, and the branches of the drain. *)
LandingSettles(j, r, ts) ==
    /\ takes' = ts
    /\ seen' = [seen EXCEPT ![j] = "never"]
    /\ Announces(j, r)
    /\ UNCHANGED pending

LandingNoted(j, r) ==
    /\ Announces(j, r)
    /\ UNCHANGED <<takes, pending, seen>>

LandingDeferred(j, r) ==
    /\ seen' = [seen EXCEPT ![j] = IF @ = "never" THEN "open" ELSE @]
    /\ Retained(j, r, watch.tries)
    /\ IF watch.pass = "drain" THEN UNCHANGED line ELSE Announces(j, r)
    /\ UNCHANGED takes

(* parkLandingFailure: an errored take, unless the chain is gone. *)
Parked(j, r) ==
    IF chainAlive THEN AppendTake(j, r.prompt, "errored") ELSE takes

(* A failure is retried by the drains of later sweeps, and parked at the   *)
(* limit.                                                                  *)
DrainFails(j, r) ==
    IF watch.tries + 1 >= MaxLandings
       THEN /\ takes' = Parked(j, r)
            /\ Announces(j, r)
            /\ UNCHANGED <<pending, seen>>
       ELSE /\ Retained(j, r, watch.tries + 1)
            /\ UNCHANGED <<takes, seen, line>>

FirstLandingFails(j, r) ==
    /\ Retained(j, r, 1)
    /\ Announces(j, r)
    /\ UNCHANGED <<takes, seen>>

LandingFails(j, r) ==
    IF watch.pass = "drain" THEN DrainFails(j, r) ELSE FirstLandingFails(j, r)

Lands(j, r, saw) ==
    LET how == LandingOf(j, r, saw) IN
    /\ watch' = IF how = "fetch"
                   THEN [watch EXCEPT !.at = "land", !.list[j] = r]
                   ELSE Turn
    /\ CASE how = "note"     -> LandingNoted(j, r)
         [] how = "deferred" -> LandingDeferred(j, r)
         [] how = "landed"   -> LandingSettles(j, r, takes)
         [] how = "append"   -> LandingSettles(j, r,
                                    AppendTake(j, r.prompt, "full"))
         [] how = "error"    -> LandingFails(j, r)
         [] how = "fetch"    -> UNCHANGED <<takes, pending, seen, line>>

LandingOnly == UNCHANGED <<engineVars, row, chainAlive, processVars,
                           recovered, orphan, late>>

(* The output is fetched, in part for a packet, or is not.  The chain is   *)
(* not looked at again.                                                    *)
OutputLands ==
    /\ serverUp
    /\ watch.at = "land"
    /\ \E k \in IF watch.job \in Packets THEN {"full", "partial"}
                                         ELSE {"full"} :
          LandingSettles(watch.job, Rec, AppendTake(watch.job, Rec.prompt, k))
    /\ watch' = Turn
    /\ LandingOnly

OutputUnfetched ==
    /\ serverUp
    /\ watch.at = "land"
    /\ LandingFails(watch.job, Rec)
    /\ watch' = Turn
    /\ LandingOnly

-----------------------------------------------------------------------------
(* Observation. *)

(* What a read of the history shows of a prompt. *)
SightOf(p) ==
    CASE ~engineUp                                    -> "unreachable"
      [] engineUp /\ prompt[p] = "done"               -> "done"
      [] engineUp /\ prompt[p] = "empty"              -> "empty"
      [] engineUp /\ prompt[p] \in {"error", "interrupted"} -> "error"
      [] OTHER                                        -> "silent"

QueueSays(p) ==
    CASE ~watch.queue.known          -> "unasked"
      [] p \in watch.queue.pending   -> "waiting"
      [] p \in watch.queue.running   -> "executing"
      [] OTHER                       -> "absent"

(* The record read when the sweep began is reduced, and the whole of it is *)
(* written if it changed.                                                  *)
Observed(o) ==
    LET j == watch.job
        r == Reduce(Rec, o, j \in late)
    IN /\ row' = IF r = Rec THEN row
                 ELSE [row EXCEPT ![j] = Upsert(@, r)]
       /\ CASE r.status = "completed" -> Lands(j, r, "done")
            [] r.status = "failed" ->
                 /\ Emit(j, "failed", o = "error", r)
                 /\ watch' = Turn
                 /\ UNCHANGED <<takes, pending, seen>>
            [] OTHER ->
                 /\ watch' = Turn
                 /\ UNCHANGED <<takes, pending, seen, line>>

(* Mutant: the verdict falls at the first absence. *)
ObservesAbsenceAtOnce(p) == Observed("lost") /\ UNCHANGED orphan

(* A prompt that neither the history nor the queue knows: its clock        *)
(* starts, and once it is over the verdict falls.                          *)
ObservesAbsence(p) ==
    IF orphan[p] = "old"
       THEN /\ orphan' = [orphan EXCEPT ![p] = "never"]
            /\ Observed("lost")
       ELSE /\ orphan' = [orphan EXCEPT ![p] = "young"]
            /\ Observed("absent")

ObservesSilence(p) ==
    IF QueueSays(p) = "absent" THEN ObservesAbsence(p)
    ELSE /\ orphan' = [orphan EXCEPT ![p] = "never"]
         /\ Observed(QueueSays(p))

(* An output that is not on this disk is ingested first. *)
ObservesHistory(p) ==
    \/ SightOf(p) = "silent" /\ ObservesSilence(p)
    \/ SightOf(p) \in {"unreachable", "empty", "error"}
       /\ Observed(SightOf(p)) /\ UNCHANGED orphan
    \/ SightOf(p) = "done" /\ Observed("here") /\ UNCHANGED orphan
    \/ SightOf(p) = "done"
       /\ watch' = [watch EXCEPT !.at = "ingest"]
       /\ UNCHANGED <<row, takes, pending, seen, orphan, line>>

HistoryAnswers ==
    /\ serverUp
    /\ watch.at = "history"
    /\ IF watch.pass = "observe"
          THEN ObservesHistory(Rec.prompt)
          ELSE /\ Lands(watch.job, Rec, SightOf(Rec.prompt))
               /\ UNCHANGED <<row, orphan>>
    /\ UNCHANGED <<engineVars, chainAlive, processVars, recovered, late>>

(* A failed ingest completes the job against the remote descriptor. *)
Ingests ==
    /\ serverUp
    /\ watch.at = "ingest"
    /\ \E o \in {"here", "remote"} : Observed(o)
    /\ UNCHANGED <<engineVars, chainAlive, processVars, recovered, orphan,
                   late>>

-----------------------------------------------------------------------------
(* Time.  The confirmation window of the orphan verdict is longer than the *)
(* gap between the queue slot emptying and the history record.             *)

TimeOnly == UNCHANGED <<engineVars, storeVars, processVars, watch,
                        recovered, pending, line>>

GraceEnds(j) ==
    /\ seen[j] = "open"
    /\ seen' = [seen EXCEPT ![j] = "over"]
    /\ UNCHANGED <<orphan, late>> /\ TimeOnly

OrphanAges(p) ==
    /\ orphan[p] = "young"
    /\ prompt[p] # "closing"
    /\ orphan' = [orphan EXCEPT ![p] = "old"]
    /\ UNCHANGED <<seen, late>> /\ TimeOnly

JobAges(j) ==
    /\ j \in MayAge \ late
    /\ row[j].status # "none"
    /\ late' = late \cup {j}
    /\ UNCHANGED <<seen, orphan>> /\ TimeOnly

(* The process dies with its maps and its lines; the tables stay. *)
Crash ==
    /\ serverUp
    /\ crashes < MaxCrashes
    /\ serverUp' = FALSE
    /\ crashes' = crashes + 1
    /\ watch' = [Resting EXCEPT !.at = "off"]
    /\ recovered' = FALSE
    /\ pending' = [j \in Jobs |-> NotPending]
    /\ seen' = [j \in Jobs |-> "never"]
    /\ orphan' = [p \in Prompts |-> "never"]
    /\ line' = [t \in Tabs |-> [line[t] EXCEPT !.gap = line[t].open]]
    /\ UNCHANGED <<engineVars, storeVars, late>>

Boot ==
    /\ ~serverUp
    /\ serverUp' = TRUE
    /\ watch' = Resting
    /\ UNCHANGED <<engineVars, storeVars, crashes, recovered, pending,
                   clockVars, line>>

EngineStep ==
    /\ E!EngineStep
    /\ UNCHANGED <<storeVars, processVars, watch, recovered, pending,
                   clockVars, line>>

-----------------------------------------------------------------------------
WatcherStep ==
    \/ Tick \/ Lists \/ QueueAnswers \/ DrainBegins \/ SweepEnds
    \/ \E j \in Jobs : RecoverVisits(j) \/ ObserveVisits(j) \/ DrainVisits(j)
    \/ HistoryAnswers \/ Ingests \/ OutputLands \/ OutputUnfetched

TimePasses ==
    \/ \E j \in Jobs : GraceEnds(j) \/ JobAges(j)
    \/ \E p \in Prompts : OrphanAges(p)

ServerStep == WatcherStep \/ TimePasses \/ Crash \/ Boot \/ EngineStep
=============================================================================

------------------------------ MODULE JobLane ------------------------------
(***************************************************************************)
(* The canvas lane: browser tabs submit jobs to the engine, keep a ledger  *)
(* of them and post it to the server's job table, which the job watcher    *)
(* settles (JobWatcher).  The tabs are src/hooks/useGenerationQueue.ts     *)
(* with src/hooks/useDebouncedPersist.ts and src/lib/h3Submit.ts; what     *)
(* they ask of the server is server/core.ts and src/images/landing.ts.     *)
(***************************************************************************)
EXTENDS JobWatcher

CONSTANT MaxMishaps   \* bound on the steps marked Mishap: what a user or the
                      \* network does beside the plain course

ASSUME MaxMishapsAssumption == MaxMishaps \in Nat

VARIABLES tab,        \* the tabs
          made,       \* the jobs whose id was handed out
          mishaps     \* how many mishaps so far

vars == <<serverVars, tab, made, mishaps>>

-----------------------------------------------------------------------------
(* A submission: uploads, the prompt under way, its answer under way; the  *)
(* retry frees the engine's memory first and then sends the prompt.        *)
NoSubmit == [at |-> "none", prompt |-> NoPrompt, unwanted |-> FALSE,
             rec |-> NoRecord]
Submits == [at : {"none", "uploads", "sent", "accepted", "freeing",
                  "reaccepted"},
            prompt : Prompts \cup {NoPrompt}, unwanted : BOOLEAN,
            rec : JobRecords]

(* A cancel asks the queue, acts on what it saw, and answers. *)
NoCancel == [at |-> "none", prompt |-> NoPrompt]
Cancels  == [at : {"none", "asked", "running", "pending", "absent",
                   "stopped"},
             prompt : Prompts \cup {NoPrompt}]

(* copy is the ledger, graph the jobs whose graph is in memory, unsaved a  *)
(* pending debounced write.                                                *)
TabRecords == [copy : Rows, unsaved : BOOLEAN, graph : SUBSET Jobs,
               fetched : Rows, fetching : BOOLEAN,
               post : Rows, posting : BOOLEAN,
               submit : [Jobs -> Submits], cancel : [Jobs -> Cancels]]

Closed == [copy |-> Blank, unsaved |-> FALSE, graph |-> {},
           fetched |-> Blank, fetching |-> FALSE,
           post |-> Blank, posting |-> FALSE,
           submit |-> [j \in Jobs |-> NoSubmit],
           cancel |-> [j \in Jobs |-> NoCancel]]

TypeOK ==
    /\ ServerTypeOK
    /\ tab \in [Tabs -> TabRecords]
    /\ made \subseteq Jobs
    /\ mishaps \in 0 .. MaxMishaps

Init ==
    /\ ServerInit
    /\ tab = [t \in Tabs |-> Closed]
    /\ made = {}
    /\ mishaps = 0

Loaded(t)    == line[t].open
Copy(t, j)   == tab[t].copy[j]
Submit(t, j) == tab[t].submit[j]
Cancel(t, j) == tab[t].cancel[j]

SetTab(t, w) == tab' = [tab EXCEPT ![t] = w]

(* A change of the ledger schedules a write. *)
Writes(w, j, r) == [w EXCEPT !.copy[j] = r, !.unsaved = TRUE]

Plain  == UNCHANGED <<made, mishaps>>
Mishap == /\ mishaps < MaxMishaps
          /\ mishaps' = mishaps + 1
          /\ UNCHANGED made
TabOnly == UNCHANGED serverVars
ButLine == UNCHANGED <<engineVars, storeVars, processVars, watch, recovered,
                       pending, clockVars>>

-----------------------------------------------------------------------------
(* The ledger: load, resync, post, close.                                  *)

(* fetchServerJobs at the boot of a tab, and when its envelopes have a gap. *)
TabFetches(t) ==
    /\ ThreadFree
    /\ ~tab[t].fetching
    /\ ~Loaded(t) \/ line[t].gap
    /\ SetTab(t, [tab[t] EXCEPT !.fetching = TRUE, !.fetched = row])
    /\ line' = [line EXCEPT ![t].open = TRUE, ![t].gap = FALSE]
    /\ Plain /\ ButLine

(* A boot takes the table; a resync what the tab does not hold settled. *)
Merged(own, theirs) ==
    [j \in Jobs |-> IF theirs[j].status # "none" /\ ~Settled(own[j])
                       THEN Overlay(own[j], theirs[j]) ELSE own[j]]

TabApplies(t) ==
    /\ tab[t].fetching
    /\ SetTab(t, [tab[t] EXCEPT !.fetching = FALSE, !.fetched = Blank,
                    !.copy = Merged(@, tab[t].fetched),
                    !.unsaved = @ \/ tab[t].fetched # Blank])
    /\ Plain /\ TabOnly

(* useDebouncedPersist posts the whole ledger after a change; one post of  *)
(* a tab is under way at a time, where the code may have several.          *)
TabPosts(t) ==
    /\ tab[t].unsaved /\ ~tab[t].posting
    /\ SetTab(t, [tab[t] EXCEPT !.post = tab[t].copy, !.posting = TRUE,
                                !.unsaved = FALSE])
    /\ Plain /\ TabOnly

(* Any progress event renews the list, and with it the write. *)
TabStirs(t) ==
    /\ Loaded(t) /\ ~tab[t].unsaved
    /\ \E j \in Jobs : Active(Copy(t, j))
    /\ SetTab(t, [tab[t] EXCEPT !.unsaved = TRUE])
    /\ Mishap /\ TabOnly

Posted(w) == [w EXCEPT !.post = Blank, !.posting = FALSE]

PostArrives(t) ==
    /\ ThreadFree
    /\ tab[t].posting
    /\ row' = [j \in Jobs |-> IF tab[t].post[j].status = "none" THEN row[j]
                              ELSE Upsert(row[j], tab[t].post[j])]
    /\ SetTab(t, Posted(tab[t]))
    /\ Plain
    /\ UNCHANGED <<engineVars, takes, chainAlive, processVars, watch,
                   recovered, pending, clockVars, line>>

PostLost(t) ==
    /\ tab[t].posting
    /\ SetTab(t, Posted(tab[t]))
    /\ Mishap /\ TabOnly

(* A tab that closes takes its graphs and calls with it, flushes the write *)
(* that is pending and leaves under way the one it sent before.            *)
TabCloses(t) ==
    /\ Loaded(t) /\ ~tab[t].fetching
    /\ SetTab(t, IF tab[t].unsaved
                    THEN [Closed EXCEPT !.post = tab[t].copy, !.posting = TRUE]
                    ELSE [Closed EXCEPT !.post = tab[t].post,
                                        !.posting = tab[t].posting])
    /\ line' = [line EXCEPT ![t] = NoLine]
    /\ Mishap /\ ButLine

(* Engine events name the prompt; the tab's own record runs. *)
TabSeesProgress(t, j) ==
    /\ Copy(t, j).status = "queued"
    /\ Copy(t, j).prompt # NoPrompt
    /\ prompt[Copy(t, j).prompt] = "running"
    /\ SetTab(t, Writes(tab[t], j, [Copy(t, j) EXCEPT !.status = "running"]))
    /\ Plain /\ TabOnly

-----------------------------------------------------------------------------
(* submitH3: the record is shown at once, the uploads and the prompt       *)
(* follow; a cancel before the answer leaves a request behind.  Left out:  *)
(* a submission while the boot load is under way, whose job the loaded     *)
(* list would replace (useGenerationQueue.ts:63).                          *)

TabSubmits(t, j) ==
    /\ Loaded(t) /\ ~tab[t].fetching
    /\ j \notin made
    /\ made' = made \cup {j}
    /\ SetTab(t, [Writes(tab[t], j, NewRecord)
                    EXCEPT !.submit[j].at = "uploads"])
    /\ UNCHANGED mishaps /\ TabOnly

SubmitEnds(t, j, r) ==
    SetTab(t, [Writes(tab[t], j, r) EXCEPT !.submit[j] = NoSubmit])

SubmitSends(t, j) ==
    /\ Submit(t, j).at = "uploads"
    /\ IF Submit(t, j).unwanted
          THEN SubmitEnds(t, j, Cancelled(Copy(t, j)))
          ELSE SetTab(t, [tab[t] EXCEPT !.submit[j].at = "sent"])
    /\ Plain /\ TabOnly

SubmitFails(t, j) ==
    /\ Submit(t, j).at \in {"uploads", "sent", "accepted"}
    /\ SubmitEnds(t, j, IF Submit(t, j).unwanted
                           THEN Cancelled(Copy(t, j))
                           ELSE Failed(Copy(t, j), "submit"))
    /\ Mishap /\ TabOnly

(* The engine takes the prompt of a submission or of a retry. *)
PromptAccepted(t, j, p) ==
    /\ Submit(t, j).at \in {"sent", "freeing"}
    /\ E!AcceptPrompt(j, p)
    /\ SetTab(t, [tab[t] EXCEPT
          !.submit[j].prompt = p,
          !.submit[j].at = IF @ = "sent" THEN "accepted" ELSE "reaccepted"])
    /\ Plain
    /\ UNCHANGED <<storeVars, processVars, watch, recovered, pending,
                   clockVars, line>>

SubmitAnswered(t, j) ==
    /\ Submit(t, j).at = "accepted"
    /\ ~Submit(t, j).unwanted
    /\ SetTab(t, [Writes(tab[t], j, Submitted(Copy(t, j), Submit(t, j).prompt))
                    EXCEPT !.submit[j] = NoSubmit, !.graph = @ \cup {j}])
    /\ Plain /\ TabOnly

(* The prompt nobody wants any more is withdrawn, if the engine answers. *)
EngineOnly == UNCHANGED <<promptOf, promptEnd, engineUp, outages, storeVars,
                          processVars, watch, recovered, pending, clockVars,
                          line>>

SubmitWithdrawn(t, j) ==
    LET p == Submit(t, j).prompt IN
    /\ Submit(t, j).at = "accepted"
    /\ Submit(t, j).unwanted
    /\ engineUp
    /\ E!Dequeued(p)
    /\ SubmitEnds(t, j, Cancelled([Copy(t, j) EXCEPT !.prompt = p]))
    /\ Plain /\ EngineOnly

-----------------------------------------------------------------------------
(* cancelJob.                                                              *)

CancelAsks(t, j) ==
    /\ Active(Copy(t, j))
    /\ Cancel(t, j).at = "none"
    /\ SetTab(t, IF Copy(t, j).prompt = NoPrompt
                    THEN [Writes(tab[t], j, Cancelled(Copy(t, j)))
                            EXCEPT !.submit[j].unwanted =
                                      Submit(t, j).at # "none"]
                    ELSE [tab[t] EXCEPT !.cancel[j] =
                             [at |-> "asked", prompt |-> Copy(t, j).prompt]])
    /\ Mishap /\ TabOnly

(* cancelPromptAt: the queue is read, then the prompt is interrupted or    *)
(* deleted, and the answer tells what the queue had shown.                 *)
CancelReads(t, j) ==
    LET p == Cancel(t, j).prompt IN
    /\ Cancel(t, j).at = "asked"
    /\ engineUp /\ ThreadFree
    /\ SetTab(t, [tab[t] EXCEPT !.cancel[j].at =
          IF prompt[p] \in {"running", "pending"} THEN prompt[p]
                                                  ELSE "absent"])
    /\ Plain /\ TabOnly

CancelActs(t, j) ==
    /\ Cancel(t, j).at \in {"running", "pending"}
    /\ engineUp /\ ThreadFree
    /\ IF Cancel(t, j).at = "pending"
          THEN E!Dequeued(Cancel(t, j).prompt) ELSE UNCHANGED prompt
    /\ SetTab(t, [tab[t] EXCEPT !.cancel[j].at = "stopped"])
    /\ Plain /\ EngineOnly

CancelAnswered(t, j) ==
    /\ Cancel(t, j).at \in {"stopped", "absent"}
    /\ SetTab(t, [IF Cancel(t, j).at = "stopped"
                     THEN Writes(tab[t], j, Cancelled(Copy(t, j)))
                     ELSE tab[t]
                  EXCEPT !.cancel[j] = NoCancel])
    /\ Plain /\ TabOnly

(* The engine does not answer, the server dies or the request is lost; the *)
(* engine may have acted before.                                           *)
CancelThrows(t, j) ==
    /\ Cancel(t, j).at # "none"
    /\ SetTab(t, [tab[t] EXCEPT !.cancel[j] = NoCancel])
    /\ Plain /\ TabOnly

-----------------------------------------------------------------------------
(* A landing envelope: the settled record replaces an active copy.  The    *)
(* tab that holds the graph of a job the engine failed sends it once more. *)

Applied(w, j, r) == 
    IF Active(w.copy[j]) THEN Writes(w, j, Overlay(w.copy[j], r)) ELSE w

(* Mutant: the retry does not ask whether there was one before. *)
RetryDueAgain(t, e) ==
    /\ e.outcome = "failed" /\ e.error
    /\ Active(Copy(t, e.job))
    /\ e.job \in tab[t].graph

(* Mutant: the retry answers every failure, not only the engine's. *)
RetryDueAlways(t, e) ==
    /\ e.outcome = "failed"
    /\ Active(Copy(t, e.job))
    /\ ~Copy(t, e.job).retried
    /\ e.job \in tab[t].graph

RetryDue(t, e) ==
    /\ e.outcome = "failed" /\ e.error
    /\ Active(Copy(t, e.job))
    /\ ~Copy(t, e.job).retried
    /\ e.job \in tab[t].graph

EnvelopeArrives(t) ==
    /\ line[t].sent # <<>>
    /\ LET e == Head(line[t].sent) IN
       SetTab(t, IF RetryDue(t, e)
          THEN [tab[t] EXCEPT !.submit[e.job].at = "freeing",
                              !.submit[e.job].rec = e.rec]
          ELSE Applied(tab[t], e.job, e.rec))
    /\ line' = [line EXCEPT ![t].sent = Tail(@)]
    /\ Plain /\ ButLine

EnvelopesLost(t) ==
    /\ line[t].sent # <<>>
    /\ line' = [line EXCEPT ![t].sent = <<>>, ![t].gap = TRUE]
    /\ UNCHANGED tab
    /\ Mishap /\ ButLine

RetryAnswered(t, j) ==
    /\ Submit(t, j).at = "reaccepted"
    /\ SubmitEnds(t, j, Resubmitted(Copy(t, j), Submit(t, j).prompt))
    /\ Plain /\ TabOnly

RetryFails(t, j) ==
    /\ Submit(t, j).at \in {"freeing", "reaccepted"}
    /\ SetTab(t, [Applied(tab[t], j, Submit(t, j).rec)
                    EXCEPT !.submit[j] = NoSubmit])
    /\ Mishap /\ TabOnly

-----------------------------------------------------------------------------
(* The canvas.                                                             *)

(* landWorkbenchTake: the tab lands the scored packet of a completed job. *)
SurfaceLands(t, j) ==
    /\ ThreadFree
    /\ j \in Packets \cap Linked
    /\ Copy(t, j).status = "completed"
    /\ \E k \in {"full", "partial"} :
          takes' = AppendTake(j, Copy(t, j).prompt, k)
    /\ Plain
    /\ UNCHANGED <<engineVars, row, chainAlive, processVars, watch,
                   recovered, pending, clockVars, line, tab>>

(* The user trashes or restores the chain. *)
UserTrashes ==
    /\ ThreadFree
    /\ chainAlive' = ~chainAlive
    /\ Mishap
    /\ UNCHANGED <<engineVars, row, takes, processVars, watch, recovered,
                   pending, clockVars, line, tab>>

-----------------------------------------------------------------------------
TabStep(t) ==
    \/ TabFetches(t) \/ TabApplies(t) \/ TabCloses(t)
    \/ TabPosts(t) \/ TabStirs(t) \/ PostArrives(t) \/ PostLost(t)
    \/ EnvelopeArrives(t) \/ EnvelopesLost(t)

JobOnTabStep(t, j) ==
    \/ TabSeesProgress(t, j)
    \/ TabSubmits(t, j) \/ SubmitSends(t, j) \/ SubmitFails(t, j)
    \/ SubmitAnswered(t, j) \/ SubmitWithdrawn(t, j)
    \/ \E p \in Prompts : PromptAccepted(t, j, p)
    \/ CancelAsks(t, j) \/ CancelReads(t, j) \/ CancelActs(t, j)
    \/ CancelAnswered(t, j) \/ CancelThrows(t, j)
    \/ RetryAnswered(t, j) \/ RetryFails(t, j)
    \/ SurfaceLands(t, j)

Next ==
    \/ ServerStep /\ UNCHANGED <<tab, made, mishaps>>
    \/ \E t \in Tabs : TabStep(t) \/ \E j \in Jobs : JobOnTabStep(t, j)
    \/ UserTrashes

Spec == Init /\ [][Next]_vars

-----------------------------------------------------------------------------
(* The event loop runs what is runnable and requests are answered or fail; *)
(* the engine works on its queue; windows end; the server is started       *)
(* again.  Nothing is assumed of users, tabs, outages and crashes.         *)
EngineWorks ==
    /\ \E p \in Prompts : E!JobStarts(p) \/ E!JobCloses(p)
                          \/ \E o \in Outcomes : E!JobRecorded(p, o)
    /\ UNCHANGED <<storeVars, processVars, watch, recovered, pending,
                   clockVars, line, tab, made, mishaps>>

FairSpec ==
    /\ Spec
    /\ WF_vars(WatcherStep /\ UNCHANGED <<tab, made, mishaps>>)
    /\ WF_vars(TimePasses /\ UNCHANGED <<tab, made, mishaps>>)
    /\ WF_vars(Boot /\ UNCHANGED <<tab, made, mishaps>>)
    /\ WF_vars(EngineWorks)

-----------------------------------------------------------------------------
(* Properties. *)

(* The tab's landing, the watcher's, its retries and the recovery after a  *)
(* boot may all land the output of one job; only one of them makes a take. *)
OneTakePerJob ==
    \A i, k \in DOMAIN takes : takes[i].job = takes[k].job => i = k

(* A take shows a render the engine finished: no take, not even an errored *)
(* one, is landed for a prompt that failed, was removed or found no end,   *)
(* however stale the record is that the landing works from.  The engine    *)
(* may have been restarted since and have forgotten the record: promptEnd  *)
(* is what it was.                                                         *)
LandedWasRendered ==
    \A i \in DOMAIN takes :
        /\ takes[i].from \in Prompts
        /\ promptEnd[takes[i].from] = "done"
        /\ promptOf[takes[i].from] = takes[i].job

(* A job that the table calls lost in a restart of the engine is lost: its *)
(* prompt is neither queued, running, about to be recorded nor on record,  *)
(* though the queue is read long before the history.                       *)
LostIsGone ==
    \A j \in Jobs : row[j].status = "failed" /\ row[j].why = "lost"
                    => prompt[row[j].prompt] = "gone"

(* Over all tabs, lost and repeated posts and crashes of the server, a job *)
(* is sent to the engine at most twice, not again once it has a take, and  *)
(* gets one take: the lane implements JobPromise.                          *)
Promise == INSTANCE JobPromise WITH
    MaxAsks <- 2,
    asked   <- [j \in Jobs |->
                   Cardinality({p \in Prompts : promptOf[p] = j})],
    landed  <- [j \in Jobs |->
                   Cardinality({i \in DOMAIN takes : takes[i].job = j})]
KeepsPromise == Promise!Spec

(* Of two prompts of one job, the engine itself ended one with an error or *)
(* an interruption: the retry never renders again what is done, cancelled  *)
(* or merely lost.                                                         *)
RetryFollowsError ==
    \A p, q \in Prompts :
        p # q /\ promptOf[p] = promptOf[q] /\ promptOf[p] # NoJob
        => \E r \in {p, q} : promptEnd[r] \in {"error", "interrupted"}

(* A completed job of the chain gets its take, unless the chain is in the  *)
(* trash, though the retries are in memory and the server may crash        *)
(* between settling the row and landing the output.                        *)
CompletedLands ==
    \A j \in Linked :
        row[j].status = "completed"
        ~> Taken(j) \/ row[j].status # "completed" \/ ~chainAlive

(* A job with a prompt does not stay active for ever: not when the engine  *)
(* lost it in a restart, stopped answering, or finished without an output. *)
ActiveSettles ==
    \A j \in Jobs :
        Active(row[j]) /\ row[j].prompt # NoPrompt
        ~> Settled(row[j]) \/ row[j].prompt = NoPrompt

(* The watcher comes back from every sweep: none of its passes waits for   *)
(* another, and what a drain puts back is left to the next sweep.          *)
SweepsEnd == []<>(watch.at = "idle")

(* "queued or running, the work is dead; the honest verdict lands in       *)
(* seconds" (src/lib/jobReducer.ts): a job whose prompt the engine lost    *)
(* does not wait for the running deadline.                                 *)
OrphanSettles ==
    \A j \in Jobs :
        Active(row[j]) /\ row[j].prompt # NoPrompt
        /\ prompt[row[j].prompt] = "gone"
        ~> ~(Active(row[j]) /\ row[j].prompt # NoPrompt
             /\ prompt[row[j].prompt] = "gone")
=============================================================================

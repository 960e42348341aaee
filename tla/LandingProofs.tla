--------------------------- MODULE LandingProofs ---------------------------
(***************************************************************************)
(* What is landed was rendered and what is called lost is lost.  Records   *)
(* of a job travel: the table is read into ledgers and sweeps, ledgers are *)
(* posted, envelopes carry records, retries keep them.  Within says that   *)
(* every one of them, wherever it is, lies in a given set; StepWithin that *)
(* a step adds only what the reducer and the tabs make of those there are. *)
(***************************************************************************)
EXTENDS JobLaneProofs

Rendered == {"done"}
Errored  == {"error", "interrupted"}
Over     == {"done", "empty", "error", "interrupted", "closing", "gone"}

(* G[j] are the records of job j, X the prompts an error is told of. *)
TabIn(G, X, w) ==
    \A j \in Jobs :
        /\ w.copy[j] \in G[j] /\ w.fetched[j] \in G[j] /\ w.post[j] \in G[j]
        /\ w.submit[j].rec \in G[j]
        /\ w.submit[j].at \in {"freeing", "reaccepted"} =>
              w.submit[j].rec.status = "failed" /\ w.submit[j].rec.prompt \in X

LetterIn(G, X, e) ==
    /\ e.rec \in G[e.job]
    /\ e.rec.status = e.outcome
    /\ e.error => e.outcome = "failed" /\ e.rec.prompt \in X
LineIn(G, X, l) == \A i \in 1 .. Len(l.sent) : LetterIn(G, X, l.sent[i])

RowsIn(G, f) == \A j \in Jobs : f[j] \in G[j]
PendingIn(G, f) == \A j \in Jobs : f[j].rec \in G[j]
TabsIn(G, X, f) == \A t \in Tabs : TabIn(G, X, f[t])
LinesIn(G, X, f) == \A t \in Tabs : LineIn(G, X, f[t])

AllIn(G, X, rows, list, pend, tabs, lines) ==
    /\ RowsIn(G, rows) /\ RowsIn(G, list) /\ PendingIn(G, pend)
    /\ TabsIn(G, X, tabs) /\ LinesIn(G, X, lines)

(* The records a job may have are closed under what tabs make of them. *)
RecordSets == [Jobs -> SUBSET JobRecords]
ClosedSets(G) ==
    \A j \in Jobs :
        /\ NoRecord \in G[j] /\ NewRecord \in G[j]
        /\ \A a \in G[j] :
              /\ Cancelled(a) \in G[j]
              /\ Failed(a, "submit") \in G[j]
              /\ a.status = "queued" => [a EXCEPT !.status = "running"] \in G[j]
              /\ \A b \in G[j] : b.status # "none" => Overlay(a, b) \in G[j]

(* What an observation says of the prompt it is made of. *)
Truthful(o) ==
    /\ o \in {"here", "remote"} => watch.at = "ingest"
                                   \/ prompt[Rec.prompt] = "done"
    /\ o = "error" => prompt[Rec.prompt] \in {"error", "interrupted"}
    /\ o = "lost" => /\ orphan[Rec.prompt] = "old"
                     /\ engineUp
                     /\ prompt[Rec.prompt] \notin {"done", "empty", "error",
                                                   "interrupted"}

ObservingNow == watch.pass = "observe" /\ watch.at \in {"history", "ingest"}

ObservationsIn(G, X) ==
    /\ ObservingNow =>
          \A o \in Observations, b \in BOOLEAN :
              Truthful(o) => /\ Reduce(Rec, o, b) \in G[watch.job]
                             /\ o = "error" => Rec.prompt \in X
    /\ OnPass("observe") =>
          \A j \in watch.todo : Reduce(watch.list[j], "unasked", TRUE) \in G[j]

AnswersIn(G) ==
    \A t \in Tabs, j \in Jobs :
        /\ SubmitAnswered(t, j) =>
              Submitted(Copy(t, j), Submit(t, j).prompt) \in G[j]
        /\ SubmitWithdrawn(t, j) =>
              Cancelled([Copy(t, j) EXCEPT !.prompt = Submit(t, j).prompt])
                 \in G[j]
        /\ RetryAnswered(t, j) =>
              Resubmitted(Copy(t, j), Submit(t, j).prompt) \in G[j]

(* The watcher's visits follow the passes; a landing is of a completed     *)
(* record.                                                                 *)
PassInv ==
    /\ watch.at \in {"history", "ingest", "land"} => watch.job \notin watch.todo
    /\ watch.at \in {"history", "ingest"} /\ watch.pass = "observe" =>
          Active(Rec) /\ Rec.prompt # NoPrompt
    /\ watch.at = "ingest" => watch.pass = "observe"
    /\ watch.at = "queue" => watch.pass = "observe"
    /\ watch.pass = "observe" => \A j \in watch.todo : Active(watch.list[j])
    /\ watch.at = "land" => Rec.status = "completed"
    /\ watch.pass \in {"recover", "drain"} =>
          /\ \A j \in watch.todo : watch.list[j].status = "completed"
          /\ watch.at = "history" => Rec.status = "completed"
    /\ watch.pass = "none" => watch.at \in {"off", "idle"}
    /\ \A j \in Jobs : pending[j].due => pending[j].rec.status = "completed"

Within(G, X) == AllIn(G, X, row, watch.list, pending, tab, line)

-----------------------------------------------------------------------------
LEMMA SetTabIn ==
    ASSUME NEW G, NEW X, NEW t \in Tabs, NEW w,
           tab \in [Tabs -> TabRecords],
           TabsIn(G, X, tab), TabIn(G, X, w), SetTab(t, w)
    PROVE  TabsIn(G, X, tab')
BY DEF TabsIn, SetTab

(* Writes to a tab that keep its records where they belong. *)
LEMMA TabWritesIn ==
    ASSUME NEW G, NEW X, NEW w \in TabRecords, NEW j \in Jobs, TabIn(G, X, w)
    PROVE  /\ \A r \in G[j] : TabIn(G, X, Writes(w, j, r))
           /\ \A s \in Submits :
                 /\ s.rec \in G[j]
                 /\ s.at \in {"freeing", "reaccepted"} =>
                       s.rec.status = "failed" /\ s.rec.prompt \in X
                 => TabIn(G, X, [w EXCEPT !.submit[j] = s])
           /\ \A c : TabIn(G, X, [w EXCEPT !.cancel[j] = c])
           /\ \A g : TabIn(G, X, [w EXCEPT !.graph = g])
           /\ \A b : TabIn(G, X, [w EXCEPT !.unsaved = b])
<1> USE TabFields DEF TabIn, TabRecords
<1>1. ASSUME NEW r \in G[j] PROVE TabIn(G, X, Writes(w, j, r))
  BY DEF Writes, Rows
<1>2. ASSUME NEW s \in Submits, s.rec \in G[j],
             s.at \in {"freeing", "reaccepted"} =>
                s.rec.status = "failed" /\ s.rec.prompt \in X
      PROVE  TabIn(G, X, [w EXCEPT !.submit[j] = s])
  BY <1>2
<1>3. ASSUME NEW c PROVE TabIn(G, X, [w EXCEPT !.cancel[j] = c])
  OBVIOUS
<1>4. ASSUME NEW g PROVE TabIn(G, X, [w EXCEPT !.graph = g])
  OBVIOUS
<1>5. ASSUME NEW b PROVE TabIn(G, X, [w EXCEPT !.unsaved = b])
  OBVIOUS
<1> HIDE DEF TabIn, TabRecords
<1> QED BY ONLY <1>1, <1>2, <1>3, <1>4, <1>5

LEMMA EmitIn ==
    ASSUME NEW G, NEW X, line \in [Tabs -> Lines], LinesIn(G, X, line),
           NEW j \in Jobs, NEW r \in G[j], NEW o \in {"completed", "failed"},
           NEW b \in BOOLEAN, r.status = o,
           b => o = "failed" /\ r.prompt \in X, Emit(j, o, b, r)
    PROVE  LinesIn(G, X, line')
<1> DEFINE e == [job |-> j, outcome |-> o, error |-> b, rec |-> r]
<1>1. LetterIn(G, X, e)
  BY DEF LetterIn
<1>2. ASSUME NEW l \in Lines, LineIn(G, X, l)
      PROVE  LineIn(G, X, Sent(l, e))
  <2> HIDE DEF e
  <2>1. l.sent \in Seq(Envelopes)
    BY DEF Lines
  <2>2. ASSUME NEW i \in 1 .. Len(Append(l.sent, e))
        PROVE  LetterIn(G, X, Append(l.sent, e)[i])
    BY <1>1, <1>2, <2>1 DEF LineIn
  <2>3. /\ [l EXCEPT !.sent = Append(@, e)].sent = Append(l.sent, e)
        /\ [l EXCEPT !.gap = TRUE].sent = l.sent
    BY DEF Lines
  <2>4. LineIn(G, X, [l EXCEPT !.sent = Append(@, e)])
    BY <2>2, <2>3 DEF LineIn
  <2>5. LineIn(G, X, [l EXCEPT !.gap = TRUE])
    BY <1>2, <2>3 DEF LineIn
  <2> QED BY <1>2, <2>4, <2>5 DEF Sent
<1> QED BY <1>2 DEF Emit, LinesIn

(* The watcher's part of Within, and what a landing does to it. *)
WatcherIn(G, X) ==
    /\ RowsIn(G, watch.list) /\ PendingIn(G, pending) /\ LinesIn(G, X, line)

LEMMA TurnIn ==
    ASSUME NEW G, watch \in Watches, watch.job \in Jobs,
           NoRecord \in G[watch.job], RowsIn(G, watch.list)
    PROVE  RowsIn(G, Turn.list)
BY DEF RowsIn, Turn, Watches, Rows

LEMMA RetainedIn ==
    ASSUME NEW G, pending \in [Jobs -> PendingRecords], PendingIn(G, pending),
           NEW j \in Jobs, NEW r \in G[j], NEW n, Retained(j, r, n)
    PROVE  PendingIn(G, pending')
BY DEF PendingIn, Retained

LEMMA LandingFailsIn ==
    ASSUME NEW G, NEW X, LandingTypes, WatcherIn(G, X), NEW j \in Jobs,
           NEW r \in G[j], r.status = "completed", LandingFails(j, r)
    PROVE  PendingIn(G, pending') /\ LinesIn(G, X, line')
<1> USE DEF LandingTypes, WatcherIn
<1>1. Announces(j, r) => LinesIn(G, X, line')
  BY EmitIn DEF Announces
<1>2. CASE watch.pass # "drain"
  BY <1>1, <1>2, RetainedIn DEF LandingFails, FirstLandingFails
<1>3. CASE watch.pass = "drain"
  BY <1>1, <1>3, RetainedIn DEF LandingFails, DrainFails
<1> QED BY <1>2, <1>3

LEMMA LandsIn ==
    ASSUME NEW G, NEW X, LandingTypes, WatcherIn(G, X), watch.job \in Jobs,
           NoRecord \in G[watch.job], NEW r \in G[watch.job],
           r.status = "completed", NEW saw, Lands(watch.job, r, saw)
    PROVE  RowsIn(G, watch'.list) /\ PendingIn(G, pending')
           /\ LinesIn(G, X, line')
<1> USE DEF LandingTypes, WatcherIn
<1> DEFINE j == watch.job
           how == LandingOf(j, r, saw)
<1>1. Announces(j, r) => LinesIn(G, X, line')
  BY EmitIn DEF Announces
<1>2. RowsIn(G, watch'.list)
  <2>1. CASE how = "fetch"
    BY <2>1 DEF Lands, RowsIn, Watches, Rows
  <2>2. CASE how # "fetch"
    BY <2>2, TurnIn DEF Lands
  <2> QED BY <2>1, <2>2
<1>3. CASE how = "note"
  BY <1>1, <1>2, <1>3 DEF Lands, LandingNoted
<1>4. CASE how = "deferred"
  BY <1>1, <1>2, <1>4, RetainedIn DEF Lands, LandingDeferred
<1>5. CASE how = "landed"
  BY <1>1, <1>2, <1>5 DEF Lands, LandingSettles
<1>6. CASE how = "append"
  BY <1>1, <1>2, <1>6 DEF Lands, LandingSettles
<1>7. CASE how = "error"
  BY <1>2, <1>7, LandingFailsIn DEF Lands
<1>8. CASE how = "fetch"
  BY <1>2, <1>8 DEF Lands
<1>9. how \in {"note", "deferred", "landed", "append", "error", "fetch"}
  BY DEF LandingOf
<1> QED BY <1>3, <1>4, <1>5, <1>6, <1>7, <1>8, <1>9

-----------------------------------------------------------------------------
(* PassInv is inductive.                                                   *)

LEMMA TurnPass ==
    ASSUME TypeInv, PassInv, watch.job \in Jobs, watch' = Turn,
           watch.at \in {"history", "ingest", "land"},
           \A j \in Jobs : pending'[j].due => pending'[j].rec.status = "completed"
    PROVE  PassInv'
<1>1. /\ watch'.at = "turn" /\ watch'.pass = watch.pass
      /\ watch'.todo = watch.todo /\ watch.todo \subseteq Jobs
      /\ \A j \in watch.todo : watch'.list[j] = watch.list[j]
  BY DEF TypeInv, TypeOK, ServerTypeOK, Turn, Watches, Rows, PassInv
<1> QED BY <1>1 DEF PassInv

LEMMA RetainedCompleted ==
    ASSUME pending \in [Jobs -> PendingRecords], PassInv, NEW j \in Jobs,
           NEW r, NEW n, r.status = "completed", Retained(j, r, n)
    PROVE  \A k \in Jobs : pending'[k].due => pending'[k].rec.status = "completed"
BY DEF Retained, PassInv

LEMMA LandingFailsPass ==
    ASSUME pending \in [Jobs -> PendingRecords], PassInv, NEW j \in Jobs,
           NEW r, r.status = "completed", LandingFails(j, r)
    PROVE  \A k \in Jobs : pending'[k].due => pending'[k].rec.status = "completed"
<1>1. \A k \in Jobs : pending[k].due => pending[k].rec.status = "completed"
  BY DEF PassInv
<1> QED BY <1>1, RetainedCompleted
        DEF LandingFails, FirstLandingFails, DrainFails

LEMMA LandsPass ==
    ASSUME TypeInv, PassInv, watch.job \in Jobs,
           watch.at \in {"history", "ingest"},
           NEW r, r.status = "completed", NEW saw, Lands(watch.job, r, saw)
    PROVE  PassInv'
<1> DEFINE j == watch.job
           how == LandingOf(j, r, saw)
<1>1. pending \in [Jobs -> PendingRecords] /\ watch \in Watches
  BY DEF TypeInv, TypeOK, ServerTypeOK
<1>2. \A k \in Jobs : pending'[k].due => pending'[k].rec.status = "completed"
  <2>1. \A k \in Jobs : pending[k].due => pending[k].rec.status = "completed"
    BY DEF PassInv
  <2>2. \/ pending' = pending \/ LandingFails(j, r)
        \/ Retained(j, r, watch.tries)
    <3>1. how \in {"note", "deferred", "landed", "append", "error", "fetch"}
      BY DEF LandingOf
    <3> QED BY <3>1 DEF Lands, LandingNoted, LandingDeferred, LandingSettles
  <2> QED BY <1>1, <2>1, <2>2, RetainedCompleted, LandingFailsPass
<1>3. CASE how # "fetch"
  BY <1>2, <1>3, TurnPass DEF Lands
<1>4. CASE how = "fetch"
  <2>1. watch' = [watch EXCEPT !.at = "land", !.list[j] = r]
    BY <1>4 DEF Lands
  <2>2. /\ watch'.at = "land" /\ watch'.pass = watch.pass
        /\ watch'.todo = watch.todo /\ watch'.job = j
        /\ watch'.list[j] = r
        /\ \A k \in watch.todo : k # j => watch'.list[k] = watch.list[k]
    BY <1>1, <2>1 DEF Watches, Rows
  <2> QED BY <1>2, <2>2 DEF PassInv, Rec
<1> QED BY <1>3, <1>4

LEMMA ObservedPass ==
    ASSUME TypeInv, PassInv, watch.at \in {"history", "ingest"},
           NEW o, Observed(o)
    PROVE  PassInv'
<1> DEFINE r == Reduce(Rec, o, watch.job \in late)
<1>1. watch.job \in Jobs
  BY DEF TypeInv, VisitInv
<1>2. r.status = "completed" => Lands(watch.job, r, "done")
  BY DEF Observed
<1>3. r.status # "completed" => watch' = Turn /\ pending' = pending
  BY DEF Observed
<1> HIDE DEF r
<1>4. CASE r.status = "completed"
  BY <1>1, <1>2, <1>4, LandsPass
<1>5. CASE r.status # "completed"
  BY <1>1, <1>3, <1>5, TurnPass DEF PassInv
<1> QED BY <1>4, <1>5

LEMMA VisitsPass ==
    ASSUME TypeInv, PassInv, NEW j \in Jobs,
           RecoverVisits(j) \/ ObserveVisits(j) \/ DrainVisits(j)
    PROVE  PassInv'
<1>1. /\ watch \in Watches /\ watch.list \in Rows /\ watch.at = "turn"
      /\ j \in watch.todo /\ pending \in [Jobs -> PendingRecords]
  BY DEF TypeInv, TypeOK, ServerTypeOK, Watches, RecoverVisits, ObserveVisits,
         DrainVisits, OnPass
<1>2. ASSUME NEW n, watch' = [watch EXCEPT !.at = "history", !.job = j,
                                 !.todo = @ \ {j}]
                    \/ watch' = [watch EXCEPT !.at = "history", !.job = j,
                                    !.todo = @ \ {j}, !.tries = n],
             watch.pass = "observe" => watch.list[j].prompt # NoPrompt,
             \A k \in Jobs : pending'[k].due
                                => pending'[k].rec.status = "completed"
      PROVE  PassInv'
  <2>1. /\ watch'.at = "history" /\ watch'.pass = watch.pass
        /\ watch'.todo = watch.todo \ {j} /\ watch'.job = j
        /\ watch'.list = watch.list
    BY <1>1, <1>2 DEF Watches
  <2>2. Rec' = watch.list[j]
    BY <2>1 DEF Rec
  <2>3. watch.pass = "observe" => Active(watch.list[j])
    BY <1>1 DEF PassInv
  <2>4. watch.pass \in {"recover", "drain"} =>
           watch.list[j].status = "completed"
    BY <1>1 DEF PassInv
  <2>5. \A k \in watch.todo :
           /\ watch.pass = "observe" => Active(watch.list[k])
           /\ watch.pass \in {"recover", "drain"} =>
                 watch.list[k].status = "completed"
    BY DEF PassInv
  <2>6. watch.pass # "none"
    BY <1>1 DEF PassInv
  <2>7. watch'.at = "history" /\ watch'.job \notin watch'.todo
    BY <2>1
  <2>8. watch'.pass = "observe" =>
           Active(Rec') /\ Rec'.prompt # NoPrompt
           /\ \A k \in watch'.todo : Active(watch'.list[k])
    BY <1>2, <2>1, <2>2, <2>3, <2>5
  <2>9. watch'.pass \in {"recover", "drain"} =>
           /\ \A k \in watch'.todo : watch'.list[k].status = "completed"
           /\ Rec'.status = "completed"
    BY <2>1, <2>2, <2>4, <2>5
  <2>10. watch'.pass # "none"
    BY <2>1, <2>6
  <2>11. \A k \in Jobs : pending'[k].due => pending'[k].rec.status = "completed"
    BY <1>2
  <2> QED BY <2>7, <2>8, <2>9, <2>10, <2>11 DEF PassInv, Active
<1>3. ASSUME Skips(j), pending' = pending PROVE PassInv'
  <2>1. /\ watch'.at = "turn" /\ watch'.pass = watch.pass
        /\ watch'.todo = watch.todo \ {j}
        /\ \A k \in watch'.todo : watch'.list[k] = watch.list[k]
    BY <1>1, <1>3 DEF Watches, Skips, Rows
  <2> QED BY <1>1, <1>3, <2>1 DEF PassInv, Active
<1>4. CASE RecoverVisits(j)
  <2>1. pending' = pending /\ watch.pass = "recover"
    BY <1>4 DEF RecoverVisits, OnPass
  <2> QED BY <1>2, <1>3, <1>4, <2>1 DEF RecoverVisits, Visits, PassInv
<1>5. CASE ObserveVisits(j)
  <2>1. pending' = pending
    BY <1>5 DEF ObserveVisits
  <2>2. CASE watch.list[j].prompt # NoPrompt
    BY <1>2, <1>5, <2>1, <2>2 DEF ObserveVisits, Visits, PassInv
  <2>3. CASE watch.list[j].prompt = NoPrompt
    BY <1>3, <1>5, <2>1, <2>3 DEF ObserveVisits
  <2> QED BY <2>2, <2>3
<1>6. CASE DrainVisits(j)
  <2>1. /\ watch.pass = "drain"
        /\ watch' = [watch EXCEPT !.at = "history", !.job = j,
                        !.todo = @ \ {j}, !.tries = pending[j].tries]
    BY <1>6 DEF DrainVisits, OnPass
  <2>2. \A k \in Jobs : pending'[k].due => pending'[k].rec.status = "completed"
    BY <1>1, <1>6 DEF DrainVisits, NotPending, PassInv
  <2> QED BY <1>2, <2>1, <2>2
<1> QED BY <1>4, <1>5, <1>6

LEMMA PassesPass ==
    ASSUME TypeInv, PassInv,
           Tick \/ Lists \/ QueueAnswers \/ DrainBegins \/ SweepEnds
    PROVE  PassInv'
<1>1. watch \in Watches /\ watch.list \in Rows /\ row \in Rows
  BY DEF TypeInv, TypeOK, ServerTypeOK, Watches
<1>2. pending' = pending
  BY DEF Tick, Lists, QueueAnswers, DrainBegins, SweepEnds
<1>3. \A k \in Jobs : pending'[k].due => pending'[k].rec.status = "completed"
  BY <1>2 DEF PassInv
<1>4. ASSUME NEW pass \in Passes \ {"none"}, NEW js \in SUBSET Jobs, NEW rs,
             watch' = OnTurn(pass, js, rs),
             pass = "observe" => \A j \in js : Active(rs[j]),
             pass # "observe" => \A j \in js : rs[j].status = "completed"
      PROVE  PassInv'
  <2>1. /\ watch'.at = "turn" /\ watch'.pass = pass /\ watch'.todo = js
        /\ \A j \in js : watch'.list[j] = rs[j]
    BY <1>4 DEF OnTurn, Resting, Copies
  <2> QED BY <1>3, <1>4, <2>1 DEF PassInv, Active, Passes
<1>5. CASE Tick
  <2>1. (IF recovered THEN {} ELSE Unlanded) \in SUBSET Jobs
    BY SubsetsAssumption DEF Unlanded
  <2>2. \A j \in (IF recovered THEN {} ELSE Unlanded) :
           row[j].status = "completed"
    BY DEF Unlanded
  <2> QED BY <1>4, <1>5, <2>1, <2>2 DEF Tick, Passes
<1>6. CASE Lists
  <2>1. watch' = [OnTurn("observe", ActiveJobs, row) EXCEPT
                    !.at = IF \E j \in Jobs : row[j].status = "queued"
                              THEN "queue" ELSE @]
    BY <1>6 DEF Lists
  <2>2. /\ watch'.at \in {"queue", "turn"} /\ watch'.pass = "observe"
        /\ watch'.todo = ActiveJobs
        /\ \A j \in ActiveJobs : watch'.list[j] = row[j]
    BY <2>1 DEF OnTurn, Resting, Copies, ActiveJobs
  <2> QED BY <1>3, <2>2 DEF PassInv, Active, ActiveJobs
<1>7. CASE QueueAnswers
  <2>1. /\ watch'.at = "turn" /\ watch'.pass = watch.pass
        /\ watch'.todo = watch.todo /\ watch'.list = watch.list
        /\ watch.at = "queue"
    BY <1>1, <1>7 DEF QueueAnswers, Watches
  <2> QED BY <1>3, <2>1 DEF PassInv, Active
<1>8. CASE DrainBegins
  <2> DEFINE js == {j \in Jobs : pending[j].due}
             rs == [j \in Jobs |-> pending[j].rec]
  <2>1. watch' = OnTurn("drain", js, rs)
    BY <1>8 DEF DrainBegins
  <2>2. \A j \in js : rs[j].status = "completed"
    BY DEF PassInv
  <2>3. js \in SUBSET Jobs
    OBVIOUS
  <2> HIDE DEF js, rs
  <2> QED BY <1>4, <2>1, <2>2, <2>3 DEF Passes
<1>9. CASE SweepEnds
  <2>1. watch'.at = "idle" /\ watch'.pass = "none"
    BY <1>9 DEF SweepEnds, Resting
  <2> QED BY <1>3, <2>1 DEF PassInv
<1> QED BY <1>5, <1>6, <1>7, <1>8, <1>9

LEMMA PassStep ==
    ASSUME TypeInv, PassInv, [Next]_vars
    PROVE  PassInv'
<1>1. watch \in Watches /\ pending \in [Jobs -> PendingRecords]
  BY DEF TypeInv, TypeOK, ServerTypeOK
<1>2. ASSUME UNCHANGED <<watch, pending>> PROVE PassInv'
  BY <1>2 DEF PassInv, Rec, Active
<1>3. watch.at \in {"history", "ingest", "land"} => watch.job \in Jobs
  BY DEF TypeInv, VisitInv
<1>4. CASE HistoryAnswers
  <2>1. CASE watch.pass = "observe"
    <3>1. ObservesHistory(Rec.prompt) /\ watch.at = "history"
      BY <1>4, <2>1 DEF HistoryAnswers
    <3>2. ASSUME NEW o, Observed(o) PROVE PassInv'
      BY <3>1, <3>2, ObservedPass
    <3>3. ASSUME watch' = [watch EXCEPT !.at = "ingest"], pending' = pending
          PROVE  PassInv'
      <4>1. /\ watch'.at = "ingest" /\ watch'.pass = watch.pass
            /\ watch'.todo = watch.todo /\ watch'.job = watch.job
            /\ watch'.list = watch.list /\ watch.at = "history"
        BY <1>1, <3>1, <3>3 DEF Watches
      <4> QED BY <2>1, <3>3, <4>1 DEF PassInv, Rec, Active
    <3> QED BY <3>1, <3>2, <3>3
            DEF ObservesHistory, ObservesSilence, ObservesAbsence
  <2>2. CASE watch.pass # "observe"
    <3>1. Lands(watch.job, Rec, SightOf(Rec.prompt)) /\ watch.at = "history"
      BY <1>4, <2>2 DEF HistoryAnswers
    <3>2. Rec.status = "completed"
      BY <1>1, <2>2, <3>1 DEF PassInv, Watches, Passes
    <3> QED BY <1>3, <3>1, <3>2, LandsPass
  <2> QED BY <2>1, <2>2
<1>5. CASE Ingests
  BY <1>5, ObservedPass DEF Ingests
<1>6. CASE OutputLands
  BY <1>3, <1>6, TurnPass DEF OutputLands, LandingSettles, PassInv
<1>7. CASE OutputUnfetched
  <2>1. watch' = Turn /\ LandingFails(watch.job, Rec) /\ watch.at = "land"
    BY <1>7 DEF OutputUnfetched
  <2>2. Rec.status = "completed"
    BY <2>1 DEF PassInv
  <2> QED BY <1>1, <1>3, <2>1, <2>2, LandingFailsPass, TurnPass
<1>8. CASE WatcherStep
  BY <1>4, <1>5, <1>6, <1>7, <1>8, VisitsPass, PassesPass DEF WatcherStep
<1>9. CASE TimePasses
  BY <1>2, <1>9 DEF TimePasses, GraceEnds, JobAges, OrphanAges, TimeOnly
<1>10. CASE Crash
  <2>1. watch'.at = "off" /\ watch'.pass = "none"
        /\ \A j \in Jobs : pending'[j] = NotPending
    BY <1>10 DEF Crash, Resting
  <2> QED BY <2>1 DEF PassInv, NotPending
<1>11. CASE Boot
  <2>1. watch'.at = "idle" /\ watch'.pass = "none" /\ pending' = pending
    BY <1>11 DEF Boot, Resting
  <2> QED BY <2>1 DEF PassInv
<1>12. CASE EngineStep
  BY <1>2, <1>12 DEF EngineStep
<1>13. ASSUME NEW t \in Tabs, TabStep(t) PROVE UNCHANGED <<watch, pending>>
  BY <1>13 DEF TabStep, TabFetches, TabApplies, TabCloses, TabPosts, TabStirs,
     PostArrives, PostLost, EnvelopeArrives, EnvelopesLost, ButLine, TabOnly,
     serverVars
<1>14. ASSUME NEW t \in Tabs, NEW j \in Jobs, JobOnTabStep(t, j)
       PROVE  UNCHANGED <<watch, pending>>
  BY <1>14 DEF JobOnTabStep, TabSeesProgress, TabSubmits, SubmitSends,
     SubmitFails, SubmitAnswered, SubmitWithdrawn, PromptAccepted, CancelAsks,
     CancelReads, CancelActs, CancelAnswered, CancelThrows, RetryAnswered,
     RetryFails, SurfaceLands, TabOnly, serverVars, EngineOnly
<1>15. CASE UserTrashes \/ UNCHANGED vars
  BY <1>2, <1>15 DEF UserTrashes, vars, serverVars
<1> QED BY <1>2, <1>8, <1>9, <1>10, <1>11, <1>12, <1>13, <1>14, <1>15
        DEF Next, ServerStep

-----------------------------------------------------------------------------
(* What a step of the watcher adds.                                        *)

(* The reducer leaves the prompt and the retry flag alone; it completes a  *)
(* record on sight of an output and fails it for a reason.                 *)
LEMMA FoundEmptyFields ==
    ASSUME NEW r \in JobRecords
    PROVE  LET f == FoundEmpty(r) IN
           \/ f = Failed(r, "missing")
           \/ f.prompt = r.prompt /\ f.retried = r.retried
              /\ f.status = "running"
<1> DEFINE e == r.empties + 1
<1>1. FoundEmpty(r) = Failed(r, "missing")
      \/ FoundEmpty(r) = [r EXCEPT !.status = "running", !.empties = e,
                                   !.streak = 0]
  BY DEF FoundEmpty
<1> HIDE DEF e
<1>2. CASE FoundEmpty(r) = [r EXCEPT !.status = "running", !.empties = e,
                                     !.streak = 0]
  <2>1. FoundEmpty(r).prompt = r.prompt /\ FoundEmpty(r).status = "running"
    BY <1>2 DEF JobRecords
  <2>2. FoundEmpty(r).retried = r.retried
    BY <1>2 DEF JobRecords
  <2> QED BY <2>1, <2>2, Zenon
<1> QED BY <1>1, <1>2

LEMMA UnreachableFields ==
    ASSUME NEW r \in JobRecords
    PROVE  LET u == Unreachable(r) IN
           \/ u = Failed(r, "unreachable")
           \/ u.prompt = r.prompt /\ u.retried = r.retried
              /\ u.status = r.status
<1> DEFINE e == r.streak + 1
<1>1. Unreachable(r) = Failed(r, "unreachable")
      \/ Unreachable(r) = [r EXCEPT !.streak = e]
  BY DEF Unreachable
<1> HIDE DEF e
<1>2. CASE Unreachable(r) = [r EXCEPT !.streak = e]
  <2>1. Unreachable(r).prompt = r.prompt /\ Unreachable(r).status = r.status
    BY <1>2 DEF JobRecords
  <2>2. Unreachable(r).retried = r.retried
    BY <1>2 DEF JobRecords
  <2> QED BY <2>1, <2>2, Zenon
<1> QED BY <1>1, <1>2

LEMMA ReduceFields ==
    ASSUME NEW r \in JobRecords, NEW o \in Observations, NEW b \in BOOLEAN
    PROVE  LET n == Reduce(r, o, b) IN
           /\ n.prompt = r.prompt
           /\ n.retried = r.retried
           /\ Settled(r) => n = r
           /\ n.status = "completed" =>
                 r.status = "completed" \/ o \in {"here", "remote"}
           /\ n.status = "failed" /\ ~Settled(r) =>
                 n.why # "none" /\ (n.why = "lost" => o = "lost")
<1> DEFINE n == Reduce(r, o, b)
<1>1. CASE Settled(r)
  BY <1>1 DEF Reduce, Settled, SettledStatuses
<1>2. CASE ~Settled(r) /\ b
  BY <1>2 DEF Reduce, JobRecords
<1>3. CASE ~Settled(r) /\ ~b
  <2>1. \/ o = "error" /\ n = Failed(r, "error")
        \/ o \in {"here", "remote"} /\ n = Completed(r, o = "here")
        \/ o = "empty" /\ n = FoundEmpty(r)
        \/ o = "unreachable" /\ n = Unreachable(r)
        \/ o = "lost" /\ n = Failed(r, "lost")
        \/ o \in {"waiting", "executing", "absent", "unasked"}
           /\ n = Incomplete(r, o)
    BY <1>3 DEF Reduce, Observations
  <2>2. \A w \in Reasons : LET f == Failed(r, w) IN
           f.prompt = r.prompt /\ f.retried = r.retried
           /\ f.status = "failed" /\ f.why = w
    BY DEF Failed, JobRecords
  <2>3. \A h \in BOOLEAN : LET c == Completed(r, h) IN
           c.prompt = r.prompt /\ c.retried = r.retried
           /\ c.status = "completed"
    BY DEF Completed, JobRecords
  <2>4. LET i == Incomplete(r, o) IN
           i.prompt = r.prompt /\ i.retried = r.retried
           /\ i.status \in {r.status, "running"}
    BY DEF Incomplete, JobRecords
  <2>5. LET f == FoundEmpty(r) IN
           \/ f = Failed(r, "missing")
           \/ f.prompt = r.prompt /\ f.retried = r.retried
              /\ f.status = "running"
    BY FoundEmptyFields
  <2>6. LET u == Unreachable(r) IN
           \/ u = Failed(r, "unreachable")
           \/ u.prompt = r.prompt /\ u.retried = r.retried
              /\ u.status = r.status
    BY UnreachableFields
  <2>7. /\ "error" \in Reasons /\ "lost" \in Reasons /\ "missing" \in Reasons
        /\ "unreachable" \in Reasons
    BY DEF Reasons
  <2>8. r.status \notin SettledStatuses
    BY <1>3 DEF Settled
  <2>9. (o = "here") \in BOOLEAN
    OBVIOUS
  <2> HIDE DEF n
  <2>10. n.prompt = r.prompt /\ n.retried = r.retried
    <3>1. CASE n = Completed(r, o = "here")
      BY <2>3, <2>9, <3>1, Zenon
    <3>2. CASE n # Completed(r, o = "here")
      BY <2>1, <2>2, <2>4, <2>5, <2>6, <2>7, <3>2
    <3> QED BY <3>1, <3>2
  <2>11. n.status = "completed" =>
            r.status = "completed" \/ o \in {"here", "remote"}
    <3>1. \A w \in Reasons : n = Failed(r, w) => n.status # "completed"
      BY <2>2
    <3>2. CASE o = "empty"
      BY <2>1, <2>5, <2>7, <3>1, <3>2
    <3>3. CASE o = "unreachable"
      BY <2>1, <2>6, <2>7, <3>1, <3>3
    <3>4. CASE o \in {"error", "lost"}
      BY <2>1, <2>7, <3>1, <3>4
    <3>5. CASE o \in {"waiting", "executing", "absent", "unasked"}
      BY <2>1, <2>4, <3>5
    <3> QED BY <2>1, <3>2, <3>3, <3>4, <3>5
  <2>12. n.status = "failed" => n.why # "none" /\ (n.why = "lost" => o = "lost")
    <3>1. /\ \A w \in Reasons : n = Failed(r, w) => n.why = w
          /\ r.status # "failed"
      BY <2>2, <2>8 DEF SettledStatuses
    <3>2. CASE o = "empty"
      BY <2>1, <2>5, <2>7, <3>1, <3>2
    <3>3. CASE o = "unreachable"
      BY <2>1, <2>6, <2>7, <3>1, <3>3
    <3>4. CASE o \in {"error", "lost"}
      BY <2>1, <2>7, <3>1, <3>4
    <3>5. CASE o \in {"waiting", "executing", "absent", "unasked"}
      BY <2>1, <2>4, <3>1, <3>5
    <3>6. CASE o \in {"here", "remote"}
      BY <2>1, <2>3, <2>9, <3>6
    <3> QED BY <2>1, <3>2, <3>3, <3>4, <3>5, <3>6
  <2> QED BY <1>3, <2>10, <2>11, <2>12 DEF n
<1> QED BY <1>1, <1>2, <1>3

(* The answers of the history and of the ingest. *)
LEMMA HistoryIsTruthful ==
    ASSUME TypeInv, HistoryAnswers, watch.pass = "observe"
    PROVE  \/ /\ watch' = [watch EXCEPT !.at = "ingest"]
              /\ prompt[Rec.prompt] = "done"
              /\ UNCHANGED <<row, takes, pending, seen, orphan, line>>
           \/ \E o \in Observations : Truthful(o) /\ Observed(o)
<1> DEFINE p == Rec.prompt
<1>1. ObservesHistory(p) /\ watch.at = "history"
  BY DEF HistoryAnswers
<1>2. /\ SightOf(p) = "done" => prompt[p] = "done"
      /\ SightOf(p) = "error" => prompt[p] \in {"error", "interrupted"}
      /\ SightOf(p) = "silent" =>
            engineUp /\ prompt[p] \notin {"done", "empty", "error",
                                          "interrupted"}
  BY DEF SightOf
<1>3. CASE SightOf(p) = "silent" /\ ObservesSilence(p)
  <2>1. CASE QueueSays(p) = "absent"
    <3>1. CASE orphan[p] = "old"
      <4>1. Observed("lost") /\ Truthful("lost")
        BY <1>2, <1>3, <2>1, <3>1
           DEF ObservesSilence, ObservesAbsence, Truthful
      <4> QED BY <4>1 DEF Observations
    <3>2. CASE orphan[p] # "old"
      <4>1. Observed("absent") /\ Truthful("absent")
        BY <1>3, <2>1, <3>2 DEF ObservesSilence, ObservesAbsence, Truthful
      <4> QED BY <4>1 DEF Observations
    <3> QED BY <3>1, <3>2
  <2>2. CASE QueueSays(p) # "absent"
    <3>1. QueueSays(p) \in {"unasked", "waiting", "executing"}
      BY <2>2 DEF QueueSays
    <3>2. Observed(QueueSays(p)) /\ Truthful(QueueSays(p))
      BY <1>3, <2>2, <3>1 DEF ObservesSilence, Truthful
    <3> QED BY <3>1, <3>2 DEF Observations
  <2> QED BY <2>1, <2>2
<1>4. CASE SightOf(p) \in {"unreachable", "empty", "error"}
           /\ Observed(SightOf(p))
  <2>1. Truthful(SightOf(p))
    BY <1>2, <1>4 DEF Truthful
  <2> QED BY <1>4, <2>1 DEF Observations
<1>5. CASE SightOf(p) = "done" /\ Observed("here")
  <2>1. Truthful("here")
    BY <1>2, <1>5 DEF Truthful
  <2> QED BY <1>5, <2>1 DEF Observations
<1> QED BY <1>1, <1>2, <1>3, <1>4, <1>5 DEF ObservesHistory

LEMMA IngestIsTruthful ==
    ASSUME Ingests
    PROVE  \E o \in Observations : Truthful(o) /\ Observed(o)
<1>1. PICK o \in {"here", "remote"} : Observed(o)
  BY DEF Ingests
<1>2. Truthful(o)
  BY DEF Ingests, Truthful
<1> QED BY <1>1, <1>2 DEF Observations

ServerIn(G, X) ==
    /\ RowsIn(G, row) /\ RowsIn(G, watch.list) /\ PendingIn(G, pending)
    /\ LinesIn(G, X, line)

LEMMA ObservedIn ==
    ASSUME TypeInv, PassInv, NEW G \in RecordSets, NEW X,
           ServerIn(G, X), ClosedSets(G), ObservationsIn(G, X), ObservingNow,
           NEW o \in Observations, Truthful(o), Observed(o)
    PROVE  /\ RowsIn(G, row') /\ RowsIn(G, watch'.list)
           /\ PendingIn(G, pending') /\ LinesIn(G, X, line')
<1> DEFINE j == watch.job
           r == Reduce(Rec, o, j \in late)
<1>1. /\ j \in Jobs /\ LandingTypes /\ Rec \in JobRecords
      /\ NoRecord \in G[j]
  BY DEF TypeInv, TypeOK, ServerTypeOK, VisitInv, LandingTypes, ObservingNow,
         Watches, Rows, Rec, ClosedSets
<1>2. (j \in late) \in BOOLEAN
  OBVIOUS
<1>3. r \in G[j] /\ (o = "error" => Rec.prompt \in X)
  BY <1>2, Zenon DEF ObservationsIn
<1>4. r.prompt = Rec.prompt
  BY <1>1, <1>2, ReduceFields, Zenon
<1>5. /\ row' = IF r = Rec THEN row ELSE [row EXCEPT ![j] = Upsert(@, r)]
      /\ r.status = "completed" => Lands(j, r, "done")
      /\ r.status = "failed" => Emit(j, "failed", o = "error", r)
                                /\ watch' = Turn /\ UNCHANGED pending
      /\ r.status \notin {"completed", "failed"} =>
            watch' = Turn /\ UNCHANGED <<pending, line>>
  BY DEF Observed
<1> HIDE DEF r
<1>6. RowsIn(G, row')
  BY <1>1, <1>3, <1>5 DEF RowsIn, ServerIn, Upsert, TypeInv, TypeOK,
     ServerTypeOK, Rows
<1>7. RowsIn(G, Turn.list)
  BY <1>1, TurnIn DEF LandingTypes, ServerIn
<1>8. CASE r.status = "completed"
  BY <1>1, <1>3, <1>5, <1>6, <1>8, LandsIn DEF ServerIn, WatcherIn
<1>9. CASE r.status = "failed"
  <2>1. (o = "error") \in BOOLEAN
    OBVIOUS
  <2>2. LinesIn(G, X, line')
    BY <1>1, <1>3, <1>4, <1>5, <1>9, <2>1, EmitIn
       DEF LandingTypes, ServerIn
  <2> QED BY <1>5, <1>6, <1>7, <1>9, <2>2 DEF ServerIn, PendingIn
<1>10. CASE r.status \notin {"completed", "failed"}
  BY <1>5, <1>6, <1>7, <1>10 DEF ServerIn, PendingIn, LinesIn
<1> QED BY <1>8, <1>9, <1>10

(* What the steps of the watcher do to the records. *)
LEMMA CopiesIn ==
    ASSUME NEW G, NEW js \in SUBSET Jobs, NEW rs, RowsIn(G, rs),
           \A j \in Jobs : NoRecord \in G[j]
    PROVE  /\ RowsIn(G, Copies(js, rs))
           /\ RowsIn(G, Blank)
           /\ RowsIn(G, Resting.list)
           /\ \A pass : RowsIn(G, OnTurn(pass, js, rs).list)
BY DEF RowsIn, Copies, Blank, Resting, OnTurn

LEMMA AnswersAreIn ==
    ASSUME TypeInv, PassInv, NEW G \in RecordSets, NEW X,
           ServerIn(G, X), ClosedSets(G), ObservationsIn(G, X),
           HistoryAnswers \/ Ingests \/ OutputLands \/ OutputUnfetched
    PROVE  /\ RowsIn(G, row') /\ RowsIn(G, watch'.list)
           /\ PendingIn(G, pending') /\ LinesIn(G, X, line')
<1>1. /\ LandingTypes /\ watch \in Watches /\ WatcherIn(G, X)
      /\ RowsIn(G, row)
      /\ watch.at \in {"history", "ingest", "land"} =>
            /\ watch.job \in Jobs
            /\ Rec \in G[watch.job] /\ NoRecord \in G[watch.job]
  BY DEF TypeInv, TypeOK, ServerTypeOK, VisitInv, LandingTypes, ServerIn,
         WatcherIn, RowsIn, Rec, ClosedSets
<1>2. ASSUME NEW o \in Observations, Truthful(o), Observed(o), ObservingNow
      PROVE  /\ RowsIn(G, row') /\ RowsIn(G, watch'.list)
             /\ PendingIn(G, pending') /\ LinesIn(G, X, line')
  BY <1>2, ObservedIn
<1>3. CASE HistoryAnswers /\ watch.pass = "observe"
  <2>1. ObservingNow
    BY <1>3 DEF ObservingNow, HistoryAnswers
  <2>2. CASE watch' = [watch EXCEPT !.at = "ingest"]
             /\ UNCHANGED <<row, pending, line>>
    <3>1. watch'.list = watch.list
      BY <1>1, <2>2 DEF Watches
    <3> QED BY <2>2, <3>1 DEF ServerIn, PendingIn, LinesIn, RowsIn
  <2> QED BY <1>2, <1>3, <2>1, <2>2, HistoryIsTruthful
<1>4. CASE HistoryAnswers /\ watch.pass # "observe"
  <2>1. /\ Lands(watch.job, Rec, SightOf(Rec.prompt)) /\ row' = row
        /\ watch.at = "history"
    BY <1>4 DEF HistoryAnswers
  <2>2. Rec.status = "completed"
    BY <1>1, <1>4, <2>1 DEF PassInv, Watches, Passes
  <2> QED BY <1>1, <2>1, <2>2, LandsIn
<1>5. CASE Ingests
  <2>1. ObservingNow
    BY <1>5 DEF ObservingNow, Ingests, PassInv
  <2> QED BY <1>2, <1>5, <2>1, IngestIsTruthful
<1>6. CASE OutputLands \/ OutputUnfetched
  <2>1. /\ watch' = Turn /\ row' = row /\ watch.at = "land"
        /\ Rec.status = "completed"
    BY <1>6 DEF OutputLands, OutputUnfetched, LandingOnly, PassInv
  <2>2. RowsIn(G, watch'.list)
    BY <1>1, <2>1, TurnIn DEF WatcherIn
  <2>3. CASE OutputLands
    <3>1. Announces(watch.job, Rec) /\ pending' = pending
      BY <2>3 DEF OutputLands, LandingSettles
    <3>2. LinesIn(G, X, line')
      BY <1>1, <2>1, <3>1, EmitIn DEF Announces, LandingTypes, WatcherIn
    <3> QED BY <1>1, <2>1, <2>2, <3>1, <3>2 DEF WatcherIn
  <2>4. CASE OutputUnfetched
    <3>1. LandingFails(watch.job, Rec)
      BY <2>4 DEF OutputUnfetched
    <3> QED BY <1>1, <2>1, <2>2, <3>1, LandingFailsIn
  <2> QED BY <1>6, <2>3, <2>4
<1> QED BY <1>3, <1>4, <1>5, <1>6

LEMMA VisitsAreIn ==
    ASSUME TypeInv, PassInv, NEW G \in RecordSets, NEW X,
           ServerIn(G, X), ClosedSets(G), ObservationsIn(G, X),
           NEW j \in Jobs, RecoverVisits(j) \/ ObserveVisits(j) \/ DrainVisits(j)
    PROVE  /\ RowsIn(G, row') /\ RowsIn(G, watch'.list)
           /\ PendingIn(G, pending') /\ line' = line
<1>1. /\ watch \in Watches /\ watch.list \in Rows /\ row \in Rows
      /\ pending \in [Jobs -> PendingRecords]
      /\ RowsIn(G, row) /\ RowsIn(G, watch.list) /\ PendingIn(G, pending)
      /\ \A k \in Jobs : NoRecord \in G[k]
  BY DEF TypeInv, TypeOK, ServerTypeOK, Watches, ServerIn, ClosedSets
<1>2. line' = line
  BY DEF RecoverVisits, ObserveVisits, DrainVisits, PassOnly
<1>3. RowsIn(G, watch'.list)
  <2>1. ASSUME NEW n, watch' = [watch EXCEPT !.at = "history", !.job = j,
                                   !.todo = @ \ {j}, !.tries = n]
        PROVE  RowsIn(G, watch'.list)
    BY <1>1, <2>1 DEF Watches
  <2>2. Visits(j) => RowsIn(G, watch'.list)
    BY <1>1 DEF Watches, Visits
  <2>3. Skips(j) => RowsIn(G, watch'.list)
    BY <1>1 DEF Watches, Skips, Rows, RowsIn
  <2> QED BY <2>1, <2>2, <2>3 DEF RecoverVisits, ObserveVisits, DrainVisits
<1>4. CASE RecoverVisits(j)
  BY <1>1, <1>2, <1>3, <1>4 DEF RecoverVisits
<1>5. CASE ObserveVisits(j)
  <2>1. Reduce(watch.list[j], "unasked", TRUE) \in G[j]
    BY <1>5 DEF ObserveVisits, ObservationsIn
  <2>2. pending' = pending
    BY <1>5 DEF ObserveVisits
  <2>3. row' = row \/ row' = [row EXCEPT ![j] = Upsert(row[j],
                                 Reduce(watch.list[j], "unasked", TRUE))]
    BY <1>5 DEF ObserveVisits
  <2>4. RowsIn(G, row')
    BY <1>1, <2>1, <2>3 DEF RowsIn, Upsert, Rows
  <2> QED BY <1>1, <1>2, <1>3, <2>2, <2>4
<1>6. CASE DrainVisits(j)
  <2>1. row' = row /\ pending' = [pending EXCEPT ![j] = NotPending]
    BY <1>6 DEF DrainVisits
  <2>2. PendingIn(G, pending')
    BY <1>1, <2>1 DEF PendingIn, NotPending
  <2> QED BY <1>1, <1>2, <1>3, <2>1, <2>2
<1> QED BY <1>4, <1>5, <1>6

LEMMA PassesAreIn ==
    ASSUME TypeInv, NEW G, NEW X, ServerIn(G, X),
           \A k \in Jobs : NoRecord \in G[k],
           Tick \/ Lists \/ QueueAnswers \/ DrainBegins \/ SweepEnds
    PROVE  /\ row' = row /\ RowsIn(G, watch'.list)
           /\ pending' = pending /\ line' = line
<1>1. /\ watch \in Watches /\ RowsIn(G, row) /\ RowsIn(G, watch.list)
      /\ PendingIn(G, pending)
  BY DEF TypeInv, TypeOK, ServerTypeOK, ServerIn
<1>2. row' = row /\ pending' = pending /\ line' = line
  BY DEF Tick, Lists, QueueAnswers, DrainBegins, SweepEnds, PassOnly
<1>3. CASE Tick
  <2>1. (IF recovered THEN {} ELSE Unlanded) \in SUBSET Jobs
    BY SubsetsAssumption DEF Unlanded
  <2> QED BY <1>1, <1>2, <1>3, <2>1, CopiesIn DEF Tick
<1>4. CASE Lists
  <2>1. watch'.list = Copies(ActiveJobs, row)
    BY <1>4 DEF Lists, OnTurn, Resting
  <2>2. ActiveJobs \in SUBSET Jobs
    BY DEF ActiveJobs
  <2> QED BY <1>1, <1>2, <2>1, <2>2, CopiesIn
<1>5. CASE QueueAnswers
  <2>1. watch'.list = watch.list
    BY <1>1, <1>5 DEF QueueAnswers, Watches
  <2> QED BY <1>1, <1>2, <2>1
<1>6. CASE DrainBegins
  <2> DEFINE js == {j \in Jobs : pending[j].due}
             rs == [j \in Jobs |-> pending[j].rec]
  <2>1. watch' = OnTurn("drain", js, rs)
    BY <1>6 DEF DrainBegins
  <2>2. RowsIn(G, rs) /\ js \in SUBSET Jobs
    BY <1>1 DEF RowsIn, PendingIn
  <2> HIDE DEF js, rs
  <2> QED BY <1>2, <2>1, <2>2, CopiesIn
<1>7. CASE SweepEnds
  <2>1. RowsIn(G, Resting.list)
    BY <1>1, CopiesIn
  <2> QED BY <1>2, <1>7, <2>1 DEF SweepEnds
<1> QED BY <1>3, <1>4, <1>5, <1>6, <1>7

LEMMA ServerStepIn ==
    ASSUME TypeInv, PassInv, NEW G \in RecordSets, NEW X,
           ServerIn(G, X), ClosedSets(G), ObservationsIn(G, X), ServerStep
    PROVE  /\ RowsIn(G, row') /\ RowsIn(G, watch'.list)
           /\ PendingIn(G, pending') /\ LinesIn(G, X, line')
<1>1. /\ RowsIn(G, row) /\ RowsIn(G, watch.list) /\ PendingIn(G, pending)
      /\ LinesIn(G, X, line) /\ \A k \in Jobs : NoRecord \in G[k]
  BY DEF ServerIn, ClosedSets
<1>2. CASE HistoryAnswers \/ Ingests \/ OutputLands \/ OutputUnfetched
  BY <1>2, AnswersAreIn
<1>3. ASSUME NEW j \in Jobs,
             RecoverVisits(j) \/ ObserveVisits(j) \/ DrainVisits(j)
      PROVE  /\ RowsIn(G, row') /\ RowsIn(G, watch'.list)
             /\ PendingIn(G, pending') /\ LinesIn(G, X, line')
  BY <1>1, <1>3, VisitsAreIn
<1>4. CASE Tick \/ Lists \/ QueueAnswers \/ DrainBegins \/ SweepEnds
  BY <1>1, <1>4, PassesAreIn
<1>5. CASE TimePasses \/ EngineStep
  <2>1. UNCHANGED <<row, watch, pending, line>>
    BY <1>5 DEF TimePasses, GraceEnds, JobAges, OrphanAges, TimeOnly,
       EngineStep, storeVars
  <2> QED BY <1>1, <2>1
<1>6. CASE Boot
  BY <1>1, <1>6, CopiesIn DEF Boot, storeVars
<1>7. CASE Crash
  <2>1. /\ row' = row /\ watch'.list = Resting.list
        /\ pending' = [j \in Jobs |-> NotPending]
        /\ line' = [t \in Tabs |-> [line[t] EXCEPT !.gap = line[t].open]]
    BY <1>7 DEF Crash, storeVars, Resting
  <2>2. RowsIn(G, watch'.list)
    BY <1>1, <2>1, CopiesIn
  <2>3. PendingIn(G, pending')
    BY <1>1, <2>1 DEF PendingIn, NotPending
  <2>4. LinesIn(G, X, line')
    BY <1>1, <2>1 DEF LinesIn, LineIn, TypeInv, TypeOK, ServerTypeOK, Lines
  <2> QED BY <1>1, <2>1, <2>2, <2>3, <2>4
<1> QED BY <1>2, <1>3, <1>4, <1>5, <1>6, <1>7 DEF ServerStep, WatcherStep

-----------------------------------------------------------------------------
(* What a step of a tab does to the fields of the tab.                     *)

(* The step leaves the other tabs and the other jobs of this one alone,    *)
(* and job j of tab t with the given copy, submission and graphs.          *)
OnlyTab(t) == \A u \in Tabs \ {t} : tab'[u] = tab[u]
Moves(t, j, c, s, g) ==
    /\ tab'[t].copy = [tab[t].copy EXCEPT ![j] = c]
    /\ tab'[t].submit = [tab[t].submit EXCEPT ![j] = s]
    /\ tab'[t].graph = g
    /\ tab'[t].fetched = tab[t].fetched /\ tab'[t].post = tab[t].post
    /\ OnlyTab(t)

LEMMA WritesFields ==
    ASSUME NEW w \in TabRecords, NEW j \in Jobs, NEW r
    PROVE  LET v == Writes(w, j, r) IN
           /\ v.copy = [w.copy EXCEPT ![j] = r]
           /\ v.submit = w.submit /\ v.graph = w.graph
           /\ v.fetched = w.fetched /\ v.post = w.post
           /\ v.cancel = w.cancel
BY DEF Writes, TabRecords

LEMMA MovesBySetTab ==
    ASSUME tab \in [Tabs -> TabRecords], NEW t \in Tabs, NEW j \in Jobs,
           NEW c, NEW s, NEW g, NEW w, SetTab(t, w),
           w.copy = [tab[t].copy EXCEPT ![j] = c],
           w.submit = [tab[t].submit EXCEPT ![j] = s],
           w.graph = g, w.fetched = tab[t].fetched, w.post = tab[t].post
    PROVE  Moves(t, j, c, s, g)
BY DEF Moves, OnlyTab, SetTab

LEMMA JobMoves ==
    ASSUME TypeInv, NEW t \in Tabs, NEW j \in Jobs
    PROVE  LET c == Copy(t, j)
               s == Submit(t, j)
               g == tab[t].graph
           IN
           /\ TabSeesProgress(t, j) =>
                 Moves(t, j, [c EXCEPT !.status = "running"], s, g)
           /\ TabSubmits(t, j) =>
                 Moves(t, j, NewRecord, [s EXCEPT !.at = "uploads"], g)
           /\ SubmitSends(t, j) =>
                 \/ s.unwanted /\ Moves(t, j, Cancelled(c), NoSubmit, g)
                 \/ ~s.unwanted /\ Moves(t, j, c, [s EXCEPT !.at = "sent"], g)
           /\ SubmitFails(t, j) =>
                 \/ Moves(t, j, Cancelled(c), NoSubmit, g)
                 \/ Moves(t, j, Failed(c, "submit"), NoSubmit, g)
           /\ SubmitAnswered(t, j) =>
                 Moves(t, j, Submitted(c, s.prompt), NoSubmit, g \cup {j})
           /\ SubmitWithdrawn(t, j) =>
                 Moves(t, j, Cancelled([c EXCEPT !.prompt = s.prompt]),
                       NoSubmit, g)
           /\ \A p \in Prompts : PromptAccepted(t, j, p) =>
                 Moves(t, j, c, [s EXCEPT !.prompt = p,
                          !.at = IF s.at = "sent" THEN "accepted"
                                                  ELSE "reaccepted"], g)
           /\ CancelAsks(t, j) =>
                 \/ Moves(t, j, c, s, g)
                 \/ \E b \in BOOLEAN :
                       Moves(t, j, Cancelled(c), [s EXCEPT !.unwanted = b], g)
           /\ CancelReads(t, j) \/ CancelActs(t, j) \/ CancelThrows(t, j) =>
                 Moves(t, j, c, s, g)
           /\ CancelAnswered(t, j) =>
                 Moves(t, j, c, s, g) \/ Moves(t, j, Cancelled(c), s, g)
           /\ RetryAnswered(t, j) =>
                 Moves(t, j, Resubmitted(c, s.prompt), NoSubmit, g)
           /\ RetryFails(t, j) =>
                 \/ Active(c) /\ Moves(t, j, Overlay(c, s.rec), NoSubmit, g)
                 \/ ~Active(c) /\ Moves(t, j, c, NoSubmit, g)
           /\ SurfaceLands(t, j) => Moves(t, j, c, s, g)
<1> DEFINE w == tab[t]
           c == tab[t].copy[j]
           s == tab[t].submit[j]
           g == tab[t].graph
<1>1. /\ tab \in [Tabs -> TabRecords] /\ w \in TabRecords
      /\ w.copy \in Rows /\ w.submit \in [Jobs -> Submits]
      /\ s \in Submits /\ c \in JobRecords
      /\ w.copy = [w.copy EXCEPT ![j] = c]
      /\ w.submit = [w.submit EXCEPT ![j] = s]
  BY TabFields DEF TypeInv, TypeOK, Rows
<1> HIDE DEF s, c, g
<1>2. ASSUME NEW r, NEW v, SetTab(t, [Writes(w, j, r) EXCEPT !.submit[j] = v])
      PROVE  Moves(t, j, r, v, g)
  <2> DEFINE x == [Writes(w, j, r) EXCEPT !.submit[j] = v]
  <2>1. /\ x.copy = [w.copy EXCEPT ![j] = r]
        /\ x.submit = [w.submit EXCEPT ![j] = v]
        /\ x.graph = g /\ x.fetched = w.fetched /\ x.post = w.post
    BY <1>1 DEF Writes, TabRecords, g
  <2> HIDE DEF x
  <2>2. SetTab(t, x)
    BY <1>2 DEF x
  <2> QED BY <1>1, <2>1, <2>2, MovesBySetTab
<1>3. ASSUME NEW r, SubmitEnds(t, j, r) PROVE Moves(t, j, r, NoSubmit, g)
  BY <1>2, <1>3 DEF SubmitEnds
<1>4. ASSUME NEW r, SetTab(t, Writes(w, j, r)) PROVE Moves(t, j, r, s, g)
  <2> DEFINE x == Writes(w, j, r)
  <2>1. /\ x.copy = [w.copy EXCEPT ![j] = r]
        /\ x.submit = [w.submit EXCEPT ![j] = s]
        /\ x.graph = g /\ x.fetched = w.fetched /\ x.post = w.post
    BY <1>1, WritesFields DEF g
  <2> HIDE DEF x
  <2>2. SetTab(t, x)
    BY <1>4 DEF x
  <2> QED BY <1>1, <2>1, <2>2, MovesBySetTab
<1>5. ASSUME NEW v, SetTab(t, [w EXCEPT !.submit[j] = v])
      PROVE  Moves(t, j, c, v, g)
  <2> DEFINE x == [w EXCEPT !.submit[j] = v]
  <2>1. /\ x.copy = w.copy
        /\ x.submit = [w.submit EXCEPT ![j] = v]
        /\ x.graph = g /\ x.fetched = w.fetched /\ x.post = w.post
    BY <1>1 DEF TabRecords, g
  <2> HIDE DEF x
  <2>2. SetTab(t, x)
    BY <1>5 DEF x
  <2> QED BY <1>1, <2>1, <2>2, MovesBySetTab
<1>6. ASSUME NEW v, SetTab(t, [w EXCEPT !.cancel[j] = v])
      PROVE  Moves(t, j, c, s, g)
  <2> DEFINE x == [w EXCEPT !.cancel[j] = v]
  <2>1. /\ x.copy = w.copy /\ x.submit = w.submit
        /\ x.graph = g /\ x.fetched = w.fetched /\ x.post = w.post
    BY <1>1 DEF TabRecords, g
  <2> HIDE DEF x
  <2>2. SetTab(t, x)
    BY <1>6 DEF x
  <2> QED BY <1>1, <2>1, <2>2, MovesBySetTab
<1>7. TabSeesProgress(t, j) => Moves(t, j, [c EXCEPT !.status = "running"], s, g)
  BY <1>4 DEF TabSeesProgress, Copy, c
<1>8. TabSubmits(t, j) => Moves(t, j, NewRecord, [s EXCEPT !.at = "uploads"], g)
  <2>1. [Writes(w, j, NewRecord) EXCEPT !.submit[j].at = "uploads"]
        = [Writes(w, j, NewRecord) EXCEPT
              !.submit[j] = [s EXCEPT !.at = "uploads"]]
    <3> DEFINE v == Writes(w, j, NewRecord)
    <3>1. v.submit[j] = s
      <4>1. v.submit = w.submit
        BY <1>1 DEF Writes, TabRecords
      <4> QED BY <4>1 DEF s
    <3> HIDE DEF v
    <3>2. [v EXCEPT !.submit[j].at = "uploads"]
          = [v EXCEPT !.submit[j] = [s EXCEPT !.at = "uploads"]]
      BY <3>1
    <3> QED BY <3>2 DEF v
  <2> QED BY <1>2, <2>1 DEF TabSubmits
<1>9. SubmitSends(t, j) =>
         \/ s.unwanted /\ Moves(t, j, Cancelled(c), NoSubmit, g)
         \/ ~s.unwanted /\ Moves(t, j, c, [s EXCEPT !.at = "sent"], g)
  <2>1. [w EXCEPT !.submit[j].at = "sent"]
        = [w EXCEPT !.submit[j] = [s EXCEPT !.at = "sent"]]
    BY DEF s
  <2> QED BY <1>3, <1>5, <2>1 DEF SubmitSends, Submit, Copy, s, c
<1>10. SubmitFails(t, j) =>
          \/ Moves(t, j, Cancelled(c), NoSubmit, g)
          \/ Moves(t, j, Failed(c, "submit"), NoSubmit, g)
  BY <1>3 DEF SubmitFails, Copy, c
<1>11. SubmitAnswered(t, j) =>
          Moves(t, j, Submitted(c, s.prompt), NoSubmit, g \cup {j})
  <2> DEFINE r == Submitted(c, s.prompt)
             x == [Writes(w, j, r) EXCEPT !.submit[j] = NoSubmit,
                                          !.graph = @ \cup {j}]
  <2>1. SubmitAnswered(t, j) => SetTab(t, x)
    BY DEF SubmitAnswered, Copy, Submit, c, s
  <2> HIDE DEF r
  <2>2. /\ x.copy = [w.copy EXCEPT ![j] = r]
        /\ x.submit = [w.submit EXCEPT ![j] = NoSubmit]
        /\ x.graph = g \cup {j} /\ x.fetched = w.fetched /\ x.post = w.post
    BY <1>1 DEF Writes, TabRecords, g
  <2> HIDE DEF x
  <2>3. SubmitAnswered(t, j) => Moves(t, j, r, NoSubmit, g \cup {j})
    BY <1>1, <2>1, <2>2, MovesBySetTab
  <2> QED BY <2>3 DEF r
<1>12. SubmitWithdrawn(t, j) =>
          Moves(t, j, Cancelled([c EXCEPT !.prompt = s.prompt]), NoSubmit, g)
  BY <1>3 DEF SubmitWithdrawn, Copy, Submit, c, s
<1>13. ASSUME NEW p \in Prompts, PromptAccepted(t, j, p)
       PROVE  Moves(t, j, c, [s EXCEPT !.prompt = p,
                    !.at = IF s.at = "sent" THEN "accepted"
                                            ELSE "reaccepted"], g)
  <2> DEFINE a == IF s.at = "sent" THEN "accepted" ELSE "reaccepted"
  <2>1. SetTab(t, [w EXCEPT !.submit[j].prompt = p, !.submit[j].at = a])
    BY <1>1, <1>13, TabFields DEF PromptAccepted, SetTab, TabRecords, Submits, s
  <2> HIDE DEF a
  <2> DEFINE x == [w EXCEPT !.submit[j].prompt = p, !.submit[j].at = a]
  <2>2. /\ x.copy = w.copy
        /\ x.submit = [w.submit EXCEPT ![j] = [s EXCEPT !.prompt = p, !.at = a]]
        /\ x.graph = g /\ x.fetched = w.fetched /\ x.post = w.post
    BY <1>1 DEF s, TabRecords, g
  <2> HIDE DEF x
  <2>3. Moves(t, j, c, [s EXCEPT !.prompt = p, !.at = a], g)
    BY <1>1, <2>1, <2>2, MovesBySetTab DEF x
  <2> QED BY <2>3 DEF a
<1>14. CancelAsks(t, j) =>
          \/ Moves(t, j, c, s, g)
          \/ \E b \in BOOLEAN :
                Moves(t, j, Cancelled(c), [s EXCEPT !.unwanted = b], g)
  <2> DEFINE b == s.at # "none"
             x == [Writes(w, j, Cancelled(c)) EXCEPT !.submit[j].unwanted = b]
  <2>1. CancelAsks(t, j) =>
           \/ SetTab(t, x)
           \/ \E v : SetTab(t, [w EXCEPT !.cancel[j] = v])
    BY DEF CancelAsks, Copy, Submit, c, s
  <2>2. b \in BOOLEAN
    OBVIOUS
  <2> HIDE DEF b
  <2>3. x = [Writes(w, j, Cancelled(c)) EXCEPT
                !.submit[j] = [s EXCEPT !.unwanted = b]]
    <3> DEFINE v == Writes(w, j, Cancelled(c))
    <3>1. v.submit[j] = s
      <4>1. v.submit = w.submit
        BY <1>1 DEF Writes, TabRecords
      <4> QED BY <4>1 DEF s
    <3> HIDE DEF v
    <3>2. [v EXCEPT !.submit[j].unwanted = b]
          = [v EXCEPT !.submit[j] = [s EXCEPT !.unwanted = b]]
      BY <3>1
    <3> QED BY <3>2 DEF v
  <2>4. SetTab(t, x) =>
           Moves(t, j, Cancelled(c), [s EXCEPT !.unwanted = b], g)
    BY <1>2, <2>3
  <2> HIDE DEF x
  <2> QED BY <1>6, <2>1, <2>2, <2>4, Zenon
<1>15. CancelReads(t, j) \/ CancelActs(t, j) \/ CancelThrows(t, j) =>
          Moves(t, j, c, s, g)
  <2>1. \A a : [w EXCEPT !.cancel[j].at = a]
               = [w EXCEPT !.cancel[j] = [w.cancel[j] EXCEPT !.at = a]]
    OBVIOUS
  <2> QED BY <1>6, <2>1 DEF CancelReads, CancelActs, CancelThrows
<1>16. CancelAnswered(t, j) =>
          Moves(t, j, c, s, g) \/ Moves(t, j, Cancelled(c), s, g)
  <2>1. SetTab(t, [Writes(w, j, Cancelled(c)) EXCEPT !.cancel[j] = NoCancel])
           => Moves(t, j, Cancelled(c), s, g)
    <3> DEFINE x == [Writes(w, j, Cancelled(c)) EXCEPT !.cancel[j] = NoCancel]
    <3>1. /\ x.copy = [w.copy EXCEPT ![j] = Cancelled(c)]
          /\ x.submit = w.submit
          /\ x.graph = g /\ x.fetched = w.fetched /\ x.post = w.post
      BY <1>1 DEF Writes, TabRecords, g
    <3> HIDE DEF x
    <3>2. SetTab(t, x) => Moves(t, j, Cancelled(c), s, g)
      BY <1>1, <3>1, MovesBySetTab
    <3> QED BY <3>2 DEF x
  <2> QED BY <1>6, <2>1 DEF CancelAnswered, Copy, c
<1>17. RetryAnswered(t, j) => Moves(t, j, Resubmitted(c, s.prompt), NoSubmit, g)
  BY <1>3 DEF RetryAnswered, Copy, Submit, c, s
<1>18. RetryFails(t, j) =>
          \/ Active(c) /\ Moves(t, j, Overlay(c, s.rec), NoSubmit, g)
          \/ ~Active(c) /\ Moves(t, j, c, NoSubmit, g)
  BY <1>2, <1>5 DEF RetryFails, Applied, Submit, c, s
<1>19. SurfaceLands(t, j) => Moves(t, j, c, s, g)
  BY <1>1 DEF SurfaceLands, Moves, OnlyTab, g
<1> QED BY <1>7, <1>8, <1>9, <1>10, <1>11, <1>12, <1>13, <1>14, <1>15, <1>16,
           <1>17, <1>18, <1>19 DEF Copy, Submit, c, s, g

(* The step leaves the submissions and the graphs of tab t alone. *)
Ledger(t, c, f, q) ==
    /\ tab'[t].copy = c /\ tab'[t].fetched = f /\ tab'[t].post = q
    /\ tab'[t].submit = tab[t].submit /\ tab'[t].graph = tab[t].graph
    /\ OnlyTab(t)

LEMMA LedgerMoves ==
    ASSUME TypeInv, NEW t \in Tabs
    PROVE  LET w == tab[t] IN
           /\ TabFetches(t) => Ledger(t, w.copy, row, w.post)
           /\ TabApplies(t) =>
                 Ledger(t, Merged(w.copy, w.fetched), Blank, w.post)
           /\ TabPosts(t) => Ledger(t, w.copy, w.fetched, w.copy)
           /\ TabStirs(t) \/ EnvelopesLost(t) =>
                 Ledger(t, w.copy, w.fetched, w.post)
           /\ PostArrives(t) \/ PostLost(t) =>
                 Ledger(t, w.copy, w.fetched, Blank)
           /\ TabCloses(t) =>
                 /\ tab'[t].copy = Blank /\ tab'[t].fetched = Blank
                 /\ tab'[t].post \in {w.copy, w.post}
                 /\ tab'[t].submit = [j \in Jobs |-> NoSubmit]
                 /\ tab'[t].graph = {} /\ OnlyTab(t)
           /\ EnvelopeArrives(t) =>
                 LET e == Head(line[t].sent)
                     c == Copy(t, e.job)
                     s == Submit(t, e.job)
                 IN  /\ e \in Envelopes
                     /\ \/ RetryDue(t, e)
                           /\ Moves(t, e.job, c, [s EXCEPT !.at = "freeing",
                                                           !.rec = e.rec],
                                    w.graph)
                        \/ ~RetryDue(t, e) /\ Active(c)
                           /\ Moves(t, e.job, Overlay(c, e.rec), s, w.graph)
                        \/ ~RetryDue(t, e) /\ ~Active(c)
                           /\ Moves(t, e.job, c, s, w.graph)
<1> DEFINE w == tab[t]
<1>1. /\ tab \in [Tabs -> TabRecords] /\ w \in TabRecords
      /\ w.copy \in Rows /\ w.submit \in [Jobs -> Submits]
  BY TabFields DEF TypeInv, TypeOK
<1>2. ASSUME NEW v, SetTab(t, v), v.submit = w.submit, v.graph = w.graph
      PROVE  Ledger(t, v.copy, v.fetched, v.post)
  BY <1>1, <1>2 DEF Ledger, OnlyTab, SetTab
<1>3. TabFetches(t) => Ledger(t, w.copy, row, w.post)
  <2> DEFINE v == [w EXCEPT !.fetching = TRUE, !.fetched = row]
  <2>1. /\ v.copy = w.copy /\ v.fetched = row /\ v.post = w.post
        /\ v.submit = w.submit /\ v.graph = w.graph
    BY <1>1 DEF TabRecords
  <2> QED BY <1>2, <2>1 DEF TabFetches
<1>4. TabApplies(t) => Ledger(t, Merged(w.copy, w.fetched), Blank, w.post)
  <2> DEFINE b == w.unsaved \/ w.fetched # Blank
             m == Merged(w.copy, w.fetched)
             v == [w EXCEPT !.fetching = FALSE, !.fetched = Blank,
                            !.copy = m, !.unsaved = b]
  <2>1. TabApplies(t) => SetTab(t, v)
    BY Zenon DEF TabApplies
  <2> HIDE DEF b, m
  <2>2. /\ v.copy = m /\ v.fetched = Blank /\ v.post = w.post
        /\ v.submit = w.submit /\ v.graph = w.graph
    BY <1>1 DEF TabRecords
  <2> HIDE DEF v
  <2>3. TabApplies(t) => Ledger(t, m, Blank, w.post)
    BY <1>2, <2>1, <2>2
  <2> QED BY <2>3 DEF m
<1>5. TabPosts(t) => Ledger(t, w.copy, w.fetched, w.copy)
  <2> DEFINE v == [w EXCEPT !.post = w.copy, !.posting = TRUE,
                            !.unsaved = FALSE]
  <2>1. /\ v.copy = w.copy /\ v.fetched = w.fetched /\ v.post = w.copy
        /\ v.submit = w.submit /\ v.graph = w.graph
    BY <1>1 DEF TabRecords
  <2> QED BY <1>2, <2>1 DEF TabPosts
<1>6. TabStirs(t) => Ledger(t, w.copy, w.fetched, w.post)
  <2> DEFINE v == [w EXCEPT !.unsaved = TRUE]
  <2>1. /\ v.copy = w.copy /\ v.fetched = w.fetched /\ v.post = w.post
        /\ v.submit = w.submit /\ v.graph = w.graph
    BY <1>1 DEF TabRecords
  <2> QED BY <1>2, <2>1 DEF TabStirs
<1>7. EnvelopesLost(t) => Ledger(t, w.copy, w.fetched, w.post)
  BY DEF EnvelopesLost, Ledger, OnlyTab
<1>8. PostArrives(t) \/ PostLost(t) => Ledger(t, w.copy, w.fetched, Blank)
  <2> DEFINE v == Posted(w)
  <2>1. /\ v.copy = w.copy /\ v.fetched = w.fetched /\ v.post = Blank
        /\ v.submit = w.submit /\ v.graph = w.graph
    BY <1>1 DEF TabRecords, Posted
  <2> QED BY <1>2, <2>1 DEF PostArrives, PostLost
<1>9. TabCloses(t) =>
         /\ tab'[t].copy = Blank /\ tab'[t].fetched = Blank
         /\ tab'[t].post \in {w.copy, w.post}
         /\ tab'[t].submit = [j \in Jobs |-> NoSubmit]
         /\ tab'[t].graph = {} /\ OnlyTab(t)
  BY <1>1 DEF TabCloses, SetTab, Closed, OnlyTab
<1>10. ASSUME EnvelopeArrives(t)
       PROVE  LET e == Head(line[t].sent)
                  c == Copy(t, e.job)
                  s == Submit(t, e.job)
              IN  /\ e \in Envelopes
                  /\ \/ RetryDue(t, e)
                        /\ Moves(t, e.job, c, [s EXCEPT !.at = "freeing",
                                                        !.rec = e.rec],
                                 w.graph)
                     \/ ~RetryDue(t, e) /\ Active(c)
                        /\ Moves(t, e.job, Overlay(c, e.rec), s, w.graph)
                     \/ ~RetryDue(t, e) /\ ~Active(c)
                        /\ Moves(t, e.job, c, s, w.graph)
  <2> DEFINE e == Head(line[t].sent)
             c == w.copy[e.job]
             s == w.submit[e.job]
  <2>1. e \in Envelopes /\ e.job \in Jobs
    <3>1. line[t].sent \in Seq(Envelopes) /\ line[t].sent # <<>>
      BY <1>10 DEF EnvelopeArrives, TypeInv, TypeOK, ServerTypeOK, Lines
    <3>2. e \in Envelopes
      BY <3>1
    <3> QED BY <3>2 DEF Envelopes
  <2>2. SetTab(t, IF RetryDue(t, e)
           THEN [w EXCEPT !.submit[e.job].at = "freeing",
                          !.submit[e.job].rec = e.rec]
           ELSE Applied(w, e.job, e.rec))
    BY <1>10 DEF EnvelopeArrives
  <2> HIDE DEF e
  <2>3. /\ w.copy = [w.copy EXCEPT ![e.job] = c]
        /\ w.submit = [w.submit EXCEPT ![e.job] = s]
    BY <1>1, <2>1 DEF Rows
  <2>4. CASE RetryDue(t, e)
    <3> DEFINE v == [w EXCEPT !.submit[e.job].at = "freeing",
                              !.submit[e.job].rec = e.rec]
    <3>1. /\ v.copy = w.copy
          /\ v.submit = [w.submit EXCEPT ![e.job] =
                            [s EXCEPT !.at = "freeing", !.rec = e.rec]]
          /\ v.graph = w.graph /\ v.fetched = w.fetched /\ v.post = w.post
      BY <1>1, <2>1 DEF TabRecords
    <3>2. SetTab(t, v)
      BY <2>2, <2>4
    <3> HIDE DEF v, c, s
    <3>3. Moves(t, e.job, c, [s EXCEPT !.at = "freeing", !.rec = e.rec], w.graph)
      BY <1>1, <2>1, <2>3, <3>1, <3>2, MovesBySetTab
    <3> QED BY <2>1, <2>4, <3>3 DEF e, c, s, Copy, Submit
  <2>5. CASE ~RetryDue(t, e)
    <3> HIDE DEF c, s
    <3>1. CASE Active(c)
      <4> DEFINE r == Overlay(c, e.rec)
      <4>1. SetTab(t, Writes(w, e.job, r))
        BY <2>2, <2>5, <3>1 DEF Applied, c
      <4> HIDE DEF r
      <4> DEFINE v == Writes(w, e.job, r)
      <4>2. /\ v.copy = [w.copy EXCEPT ![e.job] = r]
            /\ v.submit = w.submit /\ v.graph = w.graph
            /\ v.fetched = w.fetched /\ v.post = w.post
        BY <1>1, <2>1, WritesFields
      <4> HIDE DEF v
      <4>3. SetTab(t, v)
        BY <4>1 DEF v
      <4>4. Moves(t, e.job, r, s, w.graph)
        BY <1>1, <2>1, <2>3, <4>2, <4>3, MovesBySetTab
      <4> QED BY <2>1, <2>5, <3>1, <4>4 DEF r, e, c, s, Copy, Submit
    <3>2. CASE ~Active(c)
      <4>1. SetTab(t, w)
        BY <2>2, <2>5, <3>2 DEF Applied, c
      <4>2. Moves(t, e.job, c, s, w.graph)
        BY <1>1, <2>1, <2>3, <4>1, MovesBySetTab
      <4> QED BY <2>1, <2>5, <3>2, <4>2 DEF e, c, s, Copy, Submit
    <3> QED BY <3>1, <3>2
  <2> QED BY <2>4, <2>5
<1> QED BY <1>3, <1>4, <1>5, <1>6, <1>7, <1>8, <1>9, <1>10

(* The lines of the tabs. *)
LEMMA LineMoves ==
    ASSUME TypeInv, NEW t \in Tabs
    PROVE  /\ TabFetches(t) => \A u \in Tabs : line'[u].sent = line[u].sent
           /\ TabCloses(t) =>
                 /\ line'[t].sent = <<>>
                 /\ \A u \in Tabs \ {t} : line'[u] = line[u]
           /\ EnvelopeArrives(t) =>
                 /\ line[t].sent \in Seq(Envelopes) /\ line[t].sent # <<>>
                 /\ line'[t].sent = Tail(line[t].sent)
                 /\ \A u \in Tabs \ {t} : line'[u] = line[u]
           /\ EnvelopesLost(t) =>
                 /\ line'[t].sent = <<>>
                 /\ \A u \in Tabs \ {t} : line'[u] = line[u]
           /\ TabApplies(t) \/ TabPosts(t) \/ TabStirs(t) \/ PostArrives(t)
              \/ PostLost(t) => line' = line
<1>1. line \in [Tabs -> Lines] /\ line[t] \in Lines
  BY DEF TypeInv, TypeOK, ServerTypeOK
<1>2. TabFetches(t) => \A u \in Tabs : line'[u].sent = line[u].sent
  BY <1>1 DEF TabFetches, Lines
<1>3. TabCloses(t) => /\ line'[t].sent = <<>>
                      /\ \A u \in Tabs \ {t} : line'[u] = line[u]
  BY <1>1 DEF TabCloses, NoLine
<1>4. EnvelopeArrives(t) =>
         /\ line[t].sent \in Seq(Envelopes) /\ line[t].sent # <<>>
         /\ line'[t].sent = Tail(line[t].sent)
         /\ \A u \in Tabs \ {t} : line'[u] = line[u]
  BY <1>1 DEF EnvelopeArrives, Lines
<1>5. EnvelopesLost(t) => /\ line'[t].sent = <<>>
                          /\ \A u \in Tabs \ {t} : line'[u] = line[u]
  BY <1>1 DEF EnvelopesLost, Lines
<1>6. TabApplies(t) \/ TabPosts(t) \/ TabStirs(t) \/ PostArrives(t)
      \/ PostLost(t) => line' = line
  BY DEF TabApplies, TabPosts, TabStirs, PostArrives, PostLost, TabOnly,
         serverVars
<1> QED BY <1>2, <1>3, <1>4, <1>5, <1>6

LEMMA MovesIn ==
    ASSUME TypeInv, NEW G, NEW X, TabsIn(G, X, tab), NEW t \in Tabs,
           NEW j \in Jobs, NEW c \in G[j], NEW s, NEW g, s.rec \in G[j],
           s.at \in {"freeing", "reaccepted"} =>
              s.rec.status = "failed" /\ s.rec.prompt \in X,
           Moves(t, j, c, s, g)
    PROVE  TabsIn(G, X, tab')
<1>1. tab[t].copy \in Rows /\ tab[t].submit \in [Jobs -> Submits]
  BY TabFields DEF TypeInv, TypeOK
<1>2. TabIn(G, X, tab[t]) /\ \A u \in Tabs : TabIn(G, X, tab[u])
  BY DEF TabsIn
<1>3. TabIn(G, X, tab'[t])
  BY <1>1, <1>2 DEF TabIn, Moves, Rows
<1>4. \A u \in Tabs \ {t} : tab'[u] = tab[u]
  BY DEF Moves, OnlyTab
<1> QED BY <1>2, <1>3, <1>4 DEF TabsIn

LEMMA LedgerIn ==
    ASSUME NEW G, NEW X, TabsIn(G, X, tab), NEW t \in Tabs,
           NEW c, NEW f, NEW q, RowsIn(G, c), RowsIn(G, f), RowsIn(G, q),
           Ledger(t, c, f, q)
    PROVE  TabsIn(G, X, tab')
BY DEF TabsIn, TabIn, Ledger, OnlyTab, RowsIn

LEMMA TabStepIn ==
    ASSUME TypeInv, NEW G \in RecordSets, NEW X, Within(G, X), ClosedSets(G),
           NEW t \in Tabs, TabStep(t)
    PROVE  /\ RowsIn(G, row') /\ TabsIn(G, X, tab') /\ LinesIn(G, X, line')
           /\ watch' = watch /\ pending' = pending
<1> DEFINE w == tab[t]
<1>1. /\ RowsIn(G, row) /\ TabsIn(G, X, tab) /\ LinesIn(G, X, line)
      /\ RowsIn(G, w.copy) /\ RowsIn(G, w.fetched) /\ RowsIn(G, w.post)
      /\ RowsIn(G, Blank) /\ TabIn(G, X, w) /\ LineIn(G, X, line[t])
  BY DEF Within, AllIn, TabsIn, TabIn, LinesIn, RowsIn, Blank, ClosedSets
<1>2. watch' = watch /\ pending' = pending
  BY DEF TabStep, TabFetches, TabApplies, TabCloses, TabPosts, TabStirs,
     PostArrives, PostLost, EnvelopeArrives, EnvelopesLost, ButLine, TabOnly,
     serverVars
<1>3. \A own, r, j : j \in Jobs /\ own \in G[j] /\ r \in G[j]
                        /\ r.status # "none" => Overlay(own, r) \in G[j]
  BY DEF ClosedSets
<1>4. ASSUME \A u \in Tabs : line'[u].sent = line[u].sent
      PROVE  LinesIn(G, X, line')
  BY <1>1, <1>4 DEF LinesIn, LineIn
<1>5. ASSUME line'[t].sent = <<>>, \A u \in Tabs \ {t} : line'[u] = line[u]
      PROVE  LinesIn(G, X, line')
  BY <1>1, <1>5 DEF LinesIn, LineIn

<1>7. CASE TabFetches(t)
  <2>1. row' = row
    BY <1>7 DEF TabFetches, ButLine, storeVars
  <2> QED BY <1>1, <1>2, <1>4, <1>7, <2>1, LineMoves, LedgerMoves, LedgerIn
<1>8. CASE TabApplies(t)
  <2> DEFINE m == Merged(w.copy, w.fetched)
  <2>1. RowsIn(G, m)
    BY <1>1, <1>3 DEF RowsIn, Merged
  <2>2. row' = row /\ line' = line
    BY <1>8 DEF TabApplies, TabOnly, serverVars, storeVars
  <2>3. Ledger(t, m, Blank, w.post)
    BY <1>8, LedgerMoves
  <2> HIDE DEF m
  <2> QED BY <1>1, <1>2, <2>1, <2>2, <2>3, LedgerIn
<1>9. CASE TabPosts(t)
  <2>1. row' = row /\ line' = line
    BY <1>9 DEF TabPosts, TabOnly, serverVars, storeVars
  <2>2. Ledger(t, w.copy, w.fetched, w.copy)
    BY <1>9, LedgerMoves
  <2> HIDE DEF w
  <2>3. TabsIn(G, X, tab')
    BY <1>1, <2>2, LedgerIn
  <2> QED BY <1>1, <1>2, <2>1, <2>3
<1>10. CASE TabStirs(t)
  <2>1. row' = row
    BY <1>10 DEF TabStirs, TabOnly, serverVars, storeVars
  <2>2. Ledger(t, w.copy, w.fetched, w.post) /\ line' = line
    BY <1>10, LedgerMoves, LineMoves
  <2> HIDE DEF w
  <2>3. TabsIn(G, X, tab')
    BY <1>1, <2>2, LedgerIn
  <2> QED BY <1>1, <1>2, <2>1, <2>2, <2>3
<1>11. CASE PostArrives(t)
  <2>1. row' = [j \in Jobs |-> IF w.post[j].status = "none" THEN row[j]
                               ELSE Upsert(row[j], w.post[j])]
    BY <1>11 DEF PostArrives
  <2>2. RowsIn(G, row')
    BY <1>1, <2>1 DEF RowsIn, Upsert
  <2> QED BY <1>1, <1>2, <1>11, <2>2, LineMoves, LedgerMoves, LedgerIn
<1>12. CASE PostLost(t)
  <2>1. row' = row
    BY <1>12 DEF PostLost, TabOnly, serverVars, storeVars
  <2> QED BY <1>1, <1>2, <1>12, <2>1, LineMoves, LedgerMoves, LedgerIn
<1>13. CASE TabCloses(t)
  <2>1. row' = row
    BY <1>13 DEF TabCloses, ButLine, storeVars
  <2>2. /\ tab'[t].copy = Blank /\ tab'[t].fetched = Blank
        /\ tab'[t].post \in {w.copy, w.post}
        /\ tab'[t].submit = [j \in Jobs |-> NoSubmit]
        /\ OnlyTab(t)
    BY <1>13, LedgerMoves
  <2>3. TabIn(G, X, tab'[t])
    BY <1>1, <2>2 DEF TabIn, RowsIn, Blank, NoSubmit
  <2>4. TabsIn(G, X, tab')
    BY <1>1, <2>2, <2>3 DEF TabsIn, OnlyTab
  <2> QED BY <1>1, <1>2, <1>5, <1>13, <2>1, <2>4, LineMoves
<1>14. CASE EnvelopeArrives(t)
  <2> DEFINE e == Head(line[t].sent)
             c == Copy(t, e.job)
             s == Submit(t, e.job)
  <2>1. row' = row
    BY <1>14 DEF EnvelopeArrives, ButLine, storeVars
  <2>2. /\ line[t].sent \in Seq(Envelopes) /\ line[t].sent # <<>>
        /\ line'[t].sent = Tail(line[t].sent)
        /\ \A u \in Tabs \ {t} : line'[u] = line[u]
    BY <1>14, LineMoves
  <2>3. e = line[t].sent[1] /\ 1 \in 1 .. Len(line[t].sent)
    BY <2>2
  <2>4. LineIn(G, X, line'[t])
    <3>1. \A i \in 1 .. Len(line'[t].sent) :
             /\ line'[t].sent[i] = line[t].sent[i + 1]
             /\ i + 1 \in 1 .. Len(line[t].sent)
      BY <2>2
    <3> QED BY <1>1, <3>1 DEF LineIn
  <2>5. LinesIn(G, X, line')
    BY <1>1, <2>2, <2>4 DEF LinesIn
  <2>6. LetterIn(G, X, e) /\ e \in Envelopes
    BY <1>1, <1>14, <2>3, LedgerMoves DEF LineIn
  <2>7. \/ RetryDue(t, e)
           /\ Moves(t, e.job, c, [s EXCEPT !.at = "freeing", !.rec = e.rec],
                    w.graph)
        \/ ~RetryDue(t, e) /\ Active(c)
           /\ Moves(t, e.job, Overlay(c, e.rec), s, w.graph)
        \/ ~RetryDue(t, e) /\ ~Active(c)
           /\ Moves(t, e.job, c, s, w.graph)
    BY <1>14, LedgerMoves
  <2>8. /\ e.job \in Jobs /\ c \in G[e.job] /\ s.rec \in G[e.job]
        /\ s \in Submits /\ e.rec \in G[e.job]
        /\ e.rec.status # "none"
        /\ s.at \in {"freeing", "reaccepted"} =>
              s.rec.status = "failed" /\ s.rec.prompt \in X
        /\ RetryDue(t, e) => e.rec.status = "failed" /\ e.rec.prompt \in X
    <3>1. e.job \in Jobs /\ e.outcome \in {"completed", "failed"}
      BY <2>6 DEF Envelopes
    <3> QED BY <1>1, <2>6, <3>1, TabFields
            DEF LetterIn, TabIn, RetryDue, Copy, Submit, TypeInv, TypeOK
  <2>9. Overlay(c, e.rec) \in G[e.job]
    BY <1>3, <2>8
  <2> HIDE DEF e, c, s
  <2>10. CASE RetryDue(t, e)
    <3> DEFINE v == [s EXCEPT !.at = "freeing", !.rec = e.rec]
    <3>1. v.rec = e.rec
      BY <2>8 DEF Submits
    <3> HIDE DEF v
    <3>2. Moves(t, e.job, c, v, w.graph)
      BY <2>7, <2>10 DEF v
    <3>3. TabsIn(G, X, tab')
      BY <1>1, <2>8, <2>10, <3>1, <3>2, MovesIn
    <3> QED BY <1>1, <1>2, <2>1, <2>5, <3>3
  <2>11. CASE ~RetryDue(t, e)
    <3>1. TabsIn(G, X, tab')
      BY <1>1, <2>7, <2>8, <2>9, <2>11, MovesIn
    <3> QED BY <1>1, <1>2, <2>1, <2>5, <3>1
  <2> QED BY <2>10, <2>11
<1>15. CASE EnvelopesLost(t)
  <2>1. row' = row
    BY <1>15 DEF EnvelopesLost, ButLine, storeVars
  <2> QED BY <1>1, <1>2, <1>5, <1>15, <2>1, LineMoves, LedgerMoves, LedgerIn
<1> QED BY <1>7, <1>8, <1>9, <1>10, <1>11, <1>12, <1>13, <1>14, <1>15
        DEF TabStep

(* A step of one job leaves the table, the sweep and the envelopes alone.  *)
LEMMA JobStepQuiet ==
    ASSUME NEW t \in Tabs, NEW j \in Jobs, JobOnTabStep(t, j)
    PROVE  UNCHANGED <<row, watch, pending, line>>
BY DEF JobOnTabStep, TabSeesProgress, TabSubmits, SubmitSends, SubmitFails,
   SubmitAnswered, SubmitWithdrawn, PromptAccepted, CancelAsks, CancelReads,
   CancelActs, CancelAnswered, CancelThrows, RetryAnswered, RetryFails,
   SurfaceLands, TabOnly, serverVars, storeVars, EngineOnly

LEMMA JobStepIn ==
    ASSUME TypeInv, NEW G \in RecordSets, NEW X, Within(G, X), ClosedSets(G),
           AnswersIn(G), NEW t \in Tabs, NEW j \in Jobs, JobOnTabStep(t, j)
    PROVE  TabsIn(G, X, tab')
<1> DEFINE c == Copy(t, j)
           s == Submit(t, j)
           g == tab[t].graph
<1>1. /\ TabsIn(G, X, tab) /\ c \in G[j] /\ s.rec \in G[j] /\ s \in Submits
      /\ s.at \in {"freeing", "reaccepted"} =>
            s.rec.status = "failed" /\ s.rec.prompt \in X
  BY TabFields DEF Within, AllIn, TabsIn, TabIn, Copy, Submit, TypeInv, TypeOK
<1>2. /\ NoSubmit.rec \in G[j]
      /\ NoSubmit.at \notin {"freeing", "reaccepted"}
      /\ NewRecord \in G[j] /\ Cancelled(c) \in G[j]
      /\ Failed(c, "submit") \in G[j]
      /\ c.status = "queued" => [c EXCEPT !.status = "running"] \in G[j]
      /\ s.rec.status = "failed" => Overlay(c, s.rec) \in G[j]
  BY <1>1 DEF ClosedSets, NoSubmit
<1>3. ASSUME NEW r \in G[j], NEW h, Moves(t, j, r, NoSubmit, h)
      PROVE  TabsIn(G, X, tab')
  BY <1>1, <1>2, <1>3, MovesIn
<1>4. ASSUME NEW r \in G[j], Moves(t, j, r, s, g)
      PROVE  TabsIn(G, X, tab')
  BY <1>1, <1>4, MovesIn
<1>5. ASSUME NEW a, a \notin {"freeing", "reaccepted"}, NEW r \in G[j],
             Moves(t, j, r, [s EXCEPT !.at = a], g)
      PROVE  TabsIn(G, X, tab')
  <2>1. [s EXCEPT !.at = a].rec = s.rec /\ [s EXCEPT !.at = a].at = a
    BY <1>1 DEF Submits
  <2> QED BY <1>1, <1>5, <2>1, MovesIn
<1>6. CASE TabSeesProgress(t, j)
  <2>1. c.status = "queued"
    BY <1>6 DEF TabSeesProgress
  <2> QED BY <1>2, <1>4, <1>6, <2>1, JobMoves
<1>7. CASE TabSubmits(t, j)
  BY <1>2, <1>5, <1>7, JobMoves
<1>8. CASE SubmitSends(t, j)
  BY <1>1, <1>2, <1>3, <1>5, <1>8, JobMoves
<1>9. CASE SubmitFails(t, j)
  BY <1>2, <1>3, <1>9, JobMoves
<1>10. CASE SubmitAnswered(t, j)
  <2>1. Submitted(c, s.prompt) \in G[j]
    BY <1>10 DEF AnswersIn
  <2> QED BY <1>3, <1>10, <2>1, JobMoves
<1>11. CASE SubmitWithdrawn(t, j)
  <2>1. Cancelled([c EXCEPT !.prompt = s.prompt]) \in G[j]
    BY <1>11 DEF AnswersIn
  <2> QED BY <1>3, <1>11, <2>1, JobMoves
<1>12. ASSUME NEW p \in Prompts, PromptAccepted(t, j, p)
       PROVE  TabsIn(G, X, tab')
  <2> DEFINE a == IF s.at = "sent" THEN "accepted" ELSE "reaccepted"
             v == [s EXCEPT !.prompt = p, !.at = a]
  <2>1. s.at \in {"sent", "freeing"}
    BY <1>12 DEF PromptAccepted
  <2>2. v.rec = s.rec /\ v.at = a
    BY <1>1 DEF Submits
  <2>3. Moves(t, j, c, v, g)
    BY <1>12, JobMoves
  <2> HIDE DEF v
  <2> QED BY <1>1, <2>1, <2>2, <2>3, MovesIn
<1>13. CASE CancelAsks(t, j)
  <2>1. ASSUME NEW b \in BOOLEAN,
               Moves(t, j, Cancelled(c), [s EXCEPT !.unwanted = b], g)
        PROVE  TabsIn(G, X, tab')
    <3> DEFINE v == [s EXCEPT !.unwanted = b]
    <3>1. v.rec = s.rec /\ v.at = s.at
      BY <1>1 DEF Submits
    <3>2. Moves(t, j, Cancelled(c), v, g)
      BY <2>1
    <3> HIDE DEF v
    <3> QED BY <1>1, <1>2, <3>1, <3>2, MovesIn
  <2> QED BY <1>1, <1>4, <1>13, <2>1, JobMoves
<1>14. CASE CancelReads(t, j) \/ CancelActs(t, j) \/ CancelThrows(t, j)
            \/ SurfaceLands(t, j)
  BY <1>1, <1>4, <1>14, JobMoves
<1>15. CASE CancelAnswered(t, j)
  BY <1>1, <1>2, <1>4, <1>15, JobMoves
<1>16. CASE RetryAnswered(t, j)
  <2>1. Resubmitted(c, s.prompt) \in G[j]
    BY <1>16 DEF AnswersIn
  <2> QED BY <1>3, <1>16, <2>1, JobMoves
<1>17. CASE RetryFails(t, j)
  <2>1. s.rec.status = "failed"
    BY <1>1, <1>17 DEF RetryFails
  <2> QED BY <1>1, <1>2, <1>3, <1>17, <2>1, JobMoves
<1> QED BY <1>6, <1>7, <1>8, <1>9, <1>10, <1>11, <1>12, <1>13, <1>14, <1>15,
           <1>16, <1>17 DEF JobOnTabStep

(* A step keeps every record where it belongs if the observations and the  *)
(* answers of the engine do.                                               *)
LEMMA StepWithin ==
    ASSUME TypeInv, PassInv, NEW G \in RecordSets, NEW X, Within(G, X),
           ClosedSets(G), ObservationsIn(G, X), AnswersIn(G), [Next]_vars
    PROVE  AllIn(G, X, row', watch'.list, pending', tab', line')
<1>1. /\ ServerIn(G, X) /\ TabsIn(G, X, tab)
      /\ RowsIn(G, row) /\ RowsIn(G, watch.list)
      /\ PendingIn(G, pending) /\ LinesIn(G, X, line)
  BY DEF Within, AllIn, ServerIn
<1>2. CASE ServerStep /\ UNCHANGED tab
  BY <1>1, <1>2, ServerStepIn DEF AllIn
<1>3. ASSUME NEW t \in Tabs, TabStep(t)
      PROVE  AllIn(G, X, row', watch'.list, pending', tab', line')
  BY <1>1, <1>3, TabStepIn DEF AllIn
<1>4. ASSUME NEW t \in Tabs, NEW j \in Jobs, JobOnTabStep(t, j)
      PROVE  AllIn(G, X, row', watch'.list, pending', tab', line')
  BY <1>1, <1>4, JobStepIn, JobStepQuiet DEF AllIn
<1>5. CASE UserTrashes \/ UNCHANGED vars
  BY <1>1, <1>5 DEF AllIn, UserTrashes, vars, serverVars, storeVars
<1> QED BY <1>2, <1>3, <1>4, <1>5 DEF Next

LEMMA WithinGrows ==
    ASSUME NEW G, NEW X, NEW H, NEW Y, line \in [Tabs -> Lines],
           \A j \in Jobs : G[j] \subseteq H[j], X \subseteq Y, Within(G, X)
    PROVE  Within(H, Y)
<1>1. \A w : TabIn(G, X, w) => TabIn(H, Y, w)
  BY DEF TabIn
<1>2. ASSUME LinesIn(G, X, line)
      PROVE  LinesIn(H, Y, line)
  <2>1. ASSUME NEW e \in Envelopes, LetterIn(G, X, e) PROVE LetterIn(H, Y, e)
    BY <2>1 DEF LetterIn, Envelopes
  <2> QED BY <1>2, <2>1 DEF LinesIn, LineIn, Lines
<1> QED BY <1>1, <1>2 DEF Within, AllIn, RowsIn, PendingIn, TabsIn

-----------------------------------------------------------------------------
(* The engine: a prompt goes one way, and is stamped once.                 *)

PromptMoves(p) ==
    /\ prompt'[p] # prompt[p] =>
          \/ prompt[p] = "free" /\ prompt'[p] = "pending"
          \/ prompt[p] = "pending" /\ prompt'[p] = "running"
          \/ prompt[p] = "running" /\ prompt'[p] = "closing"
          \/ prompt[p] = "closing"
             /\ prompt'[p] \in {"done", "empty", "error", "interrupted"}
          \/ prompt[p] # "free" /\ prompt'[p] = "gone"
    /\ promptOf'[p] # promptOf[p] =>
          prompt[p] = "free" /\ prompt'[p] = "pending"
    /\ IF prompt[p] = "closing" /\ prompt'[p] \notin {"closing", "gone"}
          THEN promptEnd'[p] = prompt'[p]
          ELSE promptEnd'[p] = promptEnd[p]

LEMMA DequeuedMoves ==
    ASSUME E!EngineTypeOK, NEW q, E!Dequeued(q),
           UNCHANGED <<promptOf, promptEnd>>,
           NEW p \in Prompts
    PROVE  PromptMoves(p)
BY DEF E!Dequeued, PromptMoves, E!EngineTypeOK

LEMMA EngineStepMoves ==
    ASSUME E!EngineTypeOK, E!EngineStep
    PROVE  (\A p \in Prompts : PromptMoves(p)) /\ promptOf' = promptOf
<1>1. /\ prompt \in [Prompts -> E!JobStates]
      /\ promptEnd \in [Prompts -> E!Records \cup {"none"}]
  BY DEF E!EngineTypeOK
<1>2. promptOf' = promptOf
  BY DEF E!EngineStep, E!ForeignPrompt, E!JobStarts, E!JobCloses,
     E!JobRecorded, E!EngineUnreachable, E!EngineReachable, E!EngineRestarts
<1>3. ASSUME NEW q \in Prompts, E!ForeignPrompt(q) PROVE FALSE
  BY <1>3 DEF E!ForeignPrompt
<1>4. ASSUME NEW q \in Prompts, E!JobStarts(q) \/ E!JobCloses(q)
      PROVE  \A p \in Prompts : PromptMoves(p)
  BY <1>1, <1>2, <1>4 DEF E!JobStarts, E!JobCloses, PromptMoves
<1>5. ASSUME NEW q \in Prompts, NEW o \in Outcomes, E!JobRecorded(q, o)
      PROVE  \A p \in Prompts : PromptMoves(p)
  <2>1. o \in {"done", "empty", "error", "interrupted"}
    BY <1>5, EngineAssumption DEF E!JobRecorded, E!Records
  <2> QED BY <1>1, <1>2, <1>5, <2>1 DEF E!JobRecorded, PromptMoves
<1>6. CASE E!EngineUnreachable \/ E!EngineReachable
  BY <1>2, <1>6 DEF E!EngineUnreachable, E!EngineReachable, PromptMoves
<1>7. CASE E!EngineRestarts
  BY <1>1, <1>2, <1>7 DEF E!EngineRestarts, PromptMoves
<1> QED BY <1>2, <1>3, <1>4, <1>5, <1>6, <1>7 DEF E!EngineStep

LEMMA EngineMoves ==
    ASSUME TypeInv, [Next]_vars
    PROVE  /\ \A p \in Prompts : PromptMoves(p)
           /\ \/ promptOf' = promptOf
              \/ \E t \in Tabs, j \in Jobs, p \in Prompts :
                    PromptAccepted(t, j, p)
<1>1. E!EngineTypeOK
  BY DEF TypeInv, TypeOK, ServerTypeOK
<1>2. ASSUME UNCHANGED <<prompt, promptOf, promptEnd>>
      PROVE  \A p \in Prompts : PromptMoves(p)
  BY <1>2 DEF PromptMoves
<1>3. ASSUME ServerStep
      PROVE  (\A p \in Prompts : PromptMoves(p)) /\ promptOf' = promptOf
  <2>1. CASE EngineStep
    BY <1>1, <2>1, EngineStepMoves DEF EngineStep
  <2>2. CASE ~EngineStep
    <3>1. UNCHANGED <<prompt, promptOf, promptEnd>>
      BY <1>3, <2>2 DEF ServerStep, WatcherStep, TimePasses, Tick, Lists,
         QueueAnswers, DrainBegins, SweepEnds, RecoverVisits, ObserveVisits,
         DrainVisits, PassOnly, HistoryAnswers, Ingests, OutputLands,
         OutputUnfetched, LandingOnly, GraceEnds, JobAges, OrphanAges,
         TimeOnly, Crash, Boot, engineVars
    <3> QED BY <1>2, <3>1
  <2> QED BY <2>1, <2>2
<1>4. ASSUME NEW t \in Tabs, TabStep(t) PROVE UNCHANGED <<prompt, promptOf, promptEnd>>
  BY <1>4 DEF TabStep, TabFetches, TabApplies, TabCloses, TabPosts, TabStirs,
     PostArrives, PostLost, EnvelopeArrives, EnvelopesLost, ButLine, TabOnly,
     serverVars, engineVars
<1>5. ASSUME NEW t \in Tabs, NEW j \in Jobs, JobOnTabStep(t, j)
      PROVE  /\ \A p \in Prompts : PromptMoves(p)
             /\ promptOf' = promptOf
                \/ \E p \in Prompts : PromptAccepted(t, j, p)
  <2>1. CASE SubmitWithdrawn(t, j)
    BY <1>1, <2>1, DequeuedMoves DEF SubmitWithdrawn, EngineOnly
  <2>2. CASE CancelActs(t, j)
    BY <1>1, <1>2, <2>2, DequeuedMoves DEF CancelActs, EngineOnly
  <2>3. ASSUME NEW p \in Prompts, PromptAccepted(t, j, p)
        PROVE  \A q \in Prompts : PromptMoves(q)
    <3>1. E!AcceptPrompt(j, p)
      BY <2>3 DEF PromptAccepted
    <3> QED BY <1>1, <3>1 DEF E!AcceptPrompt, E!EngineTypeOK, PromptMoves
  <2>4. CASE ~SubmitWithdrawn(t, j) /\ ~CancelActs(t, j)
             /\ ~(\E p \in Prompts : PromptAccepted(t, j, p))
    <3>1. UNCHANGED <<prompt, promptOf, promptEnd>>
      BY <1>5, <2>4 DEF JobOnTabStep, TabSeesProgress, TabSubmits, SubmitSends,
         SubmitFails, SubmitAnswered, CancelAsks, CancelReads,
         CancelAnswered, CancelThrows, RetryAnswered, RetryFails,
         SurfaceLands, TabOnly, serverVars, engineVars
    <3> QED BY <1>2, <3>1
  <2>5. SubmitWithdrawn(t, j) \/ CancelActs(t, j) => promptOf' = promptOf
    BY DEF SubmitWithdrawn, CancelActs, EngineOnly
  <2> QED BY <2>1, <2>2, <2>3, <2>4, <2>5
<1>6. CASE UserTrashes \/ UNCHANGED vars
  BY <1>2, <1>6 DEF UserTrashes, vars, serverVars, engineVars
<1>7. UserTrashes \/ UNCHANGED vars => promptOf' = promptOf
  BY DEF UserTrashes, vars, serverVars, engineVars
<1> QED BY <1>2, <1>3, <1>4, <1>5, <1>6, <1>7 DEF Next

-----------------------------------------------------------------------------
(* The records tell the truth of the engine: what a record of job j names  *)
(* as its prompt was submitted for j, what it calls completed was          *)
(* rendered, and what it calls lost is gone.                               *)

Honest(pr, en, po, j, r) ==
    /\ r.prompt # NoPrompt => po[r.prompt] = j
    /\ r.status = "completed" => r.prompt # NoPrompt
                                 /\ en[r.prompt] \in Rendered
    /\ r.status = "failed" => r.why # "none"
    /\ r.status = "failed" /\ r.why = "lost" =>
          r.prompt # NoPrompt /\ pr[r.prompt] = "gone"

HonestRecords(pr, en, po) ==
    [j \in Jobs |-> {r \in JobRecords : Honest(pr, en, po, j, r)}]
Told(en) == {p \in Prompts : en[p] \in Errored}
HonestInv == Within(HonestRecords(prompt, promptEnd, promptOf), Told(promptEnd))

(* The clocks of the orphan verdict run on prompts the engine has done     *)
(* with.                                                                   *)
EngineInv ==
    \A p \in Prompts :
        /\ prompt[p] = "free" => promptOf[p] = NoJob
        /\ prompt[p] \notin {"carryError", "carryErrorOut"}
        /\ prompt[p] \in {"free", "pending", "running", "closing"} =>
              promptEnd[p] = "none"
        /\ prompt[p] \in {"done", "empty", "error", "interrupted"} =>
              promptEnd[p] = prompt[p]
        /\ orphan[p] = "young" => prompt[p] \in Over
        /\ orphan[p] = "old" => prompt[p] \in Over \ {"closing"}

(* The answer of the queue is older than the answers of the history.       *)
NotQueued(pr, q, p) ==
    p # NoPrompt /\ p \notin q.pending /\ p \notin q.running => pr[p] \in Over
QueueInv ==
    /\ watch.at = "ingest" => promptEnd[Rec.prompt] \in Rendered
    /\ watch.pass = "observe" /\ watch.queue.known =>
          /\ \A j \in watch.todo :
                NotQueued(prompt, watch.queue, watch.list[j].prompt)
          /\ watch.at = "history" => NotQueued(prompt, watch.queue, Rec.prompt)

(* An answer that is under way names the prompt that was accepted.         *)
AnsweredInv ==
    \A t \in Tabs, j \in Jobs :
        Submit(t, j).at \in {"accepted", "reaccepted"} =>
           /\ Submit(t, j).prompt \in Prompts
           /\ promptOf[Submit(t, j).prompt] = j

LandingInv ==
    PassInv /\ HonestInv /\ EngineInv /\ QueueInv /\ AnsweredInv

LEMMA HonestFields ==
    ASSUME NEW pr, NEW en, NEW po, NEW j \in Jobs
    PROVE  /\ HonestRecords(pr, en, po)[j] \subseteq JobRecords
           /\ \A r \in JobRecords :
                 r \in HonestRecords(pr, en, po)[j] <=> Honest(pr, en, po, j, r)
BY DEF HonestRecords

LEMMA HonestSets ==
    ASSUME NEW pr, NEW en, NEW po
    PROVE  /\ HonestRecords(pr, en, po) \in RecordSets
           /\ ClosedSets(HonestRecords(pr, en, po))
<1> DEFINE G == HonestRecords(pr, en, po)
<1>1. G \in RecordSets
  BY DEF RecordSets, HonestRecords
<1>2. ASSUME NEW j \in Jobs
      PROVE  NoRecord \in G[j] /\ NewRecord \in G[j]
  <2>1. Honest(pr, en, po, j, NoRecord) /\ Honest(pr, en, po, j, NewRecord)
    BY DEF Honest, NoRecord, NewRecord
  <2> QED BY <2>1, PlainRecords, HonestFields
<1>3. ASSUME NEW j \in Jobs, NEW a \in G[j]
      PROVE  /\ Cancelled(a) \in G[j]
             /\ Failed(a, "submit") \in G[j]
             /\ [a EXCEPT !.status = "running"] \in G[j]
  <2>1. a \in JobRecords /\ Honest(pr, en, po, j, a)
    BY <1>3, HonestFields
  <2>2. /\ Cancelled(a).prompt = a.prompt
        /\ Cancelled(a).status = "cancelled"
        /\ Failed(a, "submit").prompt = a.prompt
        /\ Failed(a, "submit").status = "failed"
        /\ Failed(a, "submit").why = "submit"
        /\ [a EXCEPT !.status = "running"].prompt = a.prompt
        /\ [a EXCEPT !.status = "running"].status = "running"
    BY <2>1 DEF Cancelled, Failed, JobRecords
  <2>3. /\ Honest(pr, en, po, j, Cancelled(a))
        /\ Honest(pr, en, po, j, Failed(a, "submit"))
        /\ Honest(pr, en, po, j, [a EXCEPT !.status = "running"])
    BY <2>1, <2>2 DEF Honest
  <2>4. /\ Cancelled(a) \in JobRecords /\ Failed(a, "submit") \in JobRecords
        /\ [a EXCEPT !.status = "running"] \in JobRecords
    BY <2>1, WritesKeepRecords DEF Reasons
  <2> QED BY <2>3, <2>4, HonestFields
<1>4. ASSUME NEW j \in Jobs, NEW a \in G[j], NEW b \in G[j],
             b.status # "none"
      PROVE  Overlay(a, b) \in G[j]
  <2>1. /\ a \in JobRecords /\ b \in JobRecords
        /\ Honest(pr, en, po, j, a) /\ Honest(pr, en, po, j, b)
    BY <1>4, HonestFields
  <2> DEFINE o == Overlay(a, b)
  <2>2. /\ o.status = b.status
        /\ o.prompt = IF b.prompt = NoPrompt THEN a.prompt ELSE b.prompt
        /\ o.why = IF b.why = "none" THEN a.why ELSE b.why
    BY DEF Overlay
  <2>3. o \in JobRecords
    BY <2>1, OverlayKeepsRecords
  <2> HIDE DEF o
  <2>4. Honest(pr, en, po, j, o)
    BY <2>1, <2>2 DEF Honest
  <2> QED BY <2>3, <2>4, HonestFields DEF o
<1> QED BY <1>1, <1>2, <1>3, <1>4 DEF ClosedSets

(* The engine only goes on, so what was true of it stays true. *)
LEMMA HonestGrows ==
    ASSUME TypeInv, EngineInv, \A p \in Prompts : PromptMoves(p)
    PROVE  /\ \A j \in Jobs : HonestRecords(prompt, promptEnd, promptOf)[j]
                                \subseteq HonestRecords(prompt', promptEnd', promptOf')[j]
           /\ Told(promptEnd) \subseteq Told(promptEnd')
<1>1. ASSUME NEW p \in Prompts
      PROVE  /\ promptEnd[p] \in Rendered => promptEnd'[p] \in Rendered
             /\ promptEnd[p] \in Errored => promptEnd'[p] \in Errored
             /\ prompt[p] = "gone" => prompt'[p] = "gone"
             /\ \A j \in Jobs : promptOf[p] = j => promptOf'[p] = j
  <2>1. PromptMoves(p) /\ (prompt[p] = "free" => promptOf[p] = NoJob)
        /\ (prompt[p] = "closing" => promptEnd[p] = "none")
    BY DEF EngineInv
  <2> QED BY <2>1, NoJobAssumption DEF PromptMoves, Rendered, Errored
<1>2. ASSUME NEW j \in Jobs, NEW r \in JobRecords,
             Honest(prompt, promptEnd, promptOf, j, r)
      PROVE  Honest(prompt', promptEnd', promptOf', j, r)
  <2>1. r.prompt \in Prompts \cup {NoPrompt}
    BY DEF JobRecords
  <2> QED BY <1>1, <1>2, <2>1 DEF Honest
<1>3. Told(promptEnd) \subseteq Told(promptEnd')
  BY <1>1 DEF Told
<1>4. \A j \in Jobs : HonestRecords(prompt, promptEnd, promptOf)[j]
                         \subseteq HonestRecords(prompt', promptEnd', promptOf')[j]
  BY <1>2 DEF HonestRecords
<1> QED BY <1>3, <1>4

LEMMA HonestObservations ==
    ASSUME TypeInv, LandingInv
    PROVE  ObservationsIn(HonestRecords(prompt, promptEnd, promptOf), Told(promptEnd))
<1> DEFINE G == HonestRecords(prompt, promptEnd, promptOf)
<1>1. /\ watch \in Watches /\ watch.todo \subseteq Jobs
      /\ RowsIn(G, watch.list)
  BY DEF TypeInv, TypeOK, ServerTypeOK, Watches, LandingInv, HonestInv,
         Within, AllIn
<1>2. ASSUME ObservingNow, NEW o \in Observations, NEW b \in BOOLEAN,
             Truthful(o)
      PROVE  /\ Reduce(Rec, o, b) \in G[watch.job]
             /\ o = "error" => Rec.prompt \in Told(promptEnd)
  <2> DEFINE n == Reduce(Rec, o, b)
  <2>1. watch.job \in Jobs
    BY <1>2 DEF TypeInv, VisitInv, ObservingNow
  <2>2. /\ Rec \in JobRecords /\ Honest(prompt, promptEnd, promptOf, watch.job, Rec)
        /\ Active(Rec) /\ Rec.prompt # NoPrompt
    BY <1>1, <1>2, <2>1, HonestFields
       DEF RowsIn, Rec, LandingInv, PassInv, ObservingNow
  <2>3. Rec.prompt \in Prompts
    BY <2>2 DEF JobRecords
  <2>4. /\ n.prompt = Rec.prompt
        /\ n.status = "completed" =>
              Rec.status = "completed" \/ o \in {"here", "remote"}
        /\ n.status = "failed" /\ ~Settled(Rec) =>
              n.why # "none" /\ (n.why = "lost" => o = "lost")
        /\ n \in JobRecords
    BY <2>2, ReduceFields, ReduceKeepsRecords
  <2> HIDE DEF n
  <2>5. ~Settled(Rec) /\ Rec.status # "completed"
    BY <2>2 DEF Active, Settled, ActiveStatuses, SettledStatuses
  <2>6. o \in {"here", "remote"} => promptEnd[Rec.prompt] \in Rendered
    BY <1>2, <2>3 DEF Truthful, Rendered, LandingInv, QueueInv, EngineInv
  <2>7. o = "lost" => prompt[Rec.prompt] = "gone"
    BY <1>2, <2>3 DEF Truthful, LandingInv, EngineInv, Over
  <2>8. Honest(prompt, promptEnd, promptOf, watch.job, n)
    BY <2>2, <2>4, <2>5, <2>6, <2>7 DEF Honest
  <2>9. o = "error" => Rec.prompt \in Told(promptEnd)
    BY <1>2, <2>3 DEF Truthful, Told, Errored, LandingInv, EngineInv
  <2> QED BY <2>1, <2>4, <2>8, <2>9, HonestFields DEF n
<1>3. ASSUME OnPass("observe"), NEW j \in watch.todo
      PROVE  Reduce(watch.list[j], "unasked", TRUE) \in G[j]
  <2> DEFINE r == watch.list[j]
             n == Reduce(r, "unasked", TRUE)
  <2>1. /\ j \in Jobs /\ r \in JobRecords /\ Honest(prompt, promptEnd, promptOf, j, r)
        /\ Active(r)
    BY <1>1, <1>3, HonestFields DEF RowsIn, LandingInv, PassInv, OnPass
  <2> HIDE DEF r
  <2>2. /\ n.prompt = r.prompt
        /\ n.status = "completed" => r.status = "completed"
        /\ n.status = "failed" /\ ~Settled(r) =>
              n.why # "none" /\ n.why # "lost"
        /\ n \in JobRecords
    BY <2>1, ReduceFields, ReduceKeepsRecords DEF Observations
  <2> HIDE DEF n
  <2>3. ~Settled(r) /\ r.status # "completed"
    BY <2>1 DEF Active, Settled, ActiveStatuses, SettledStatuses
  <2>4. Honest(prompt, promptEnd, promptOf, j, n)
    BY <2>1, <2>2, <2>3 DEF Honest
  <2> QED BY <2>1, <2>2, <2>4, HonestFields DEF n, r
<1> QED BY <1>2, <1>3 DEF ObservationsIn

LEMMA HonestAnswers ==
    ASSUME TypeInv, LandingInv
    PROVE  AnswersIn(HonestRecords(prompt, promptEnd, promptOf))
<1> DEFINE G == HonestRecords(prompt, promptEnd, promptOf)
<1> SUFFICES ASSUME NEW t \in Tabs, NEW j \in Jobs
             PROVE  /\ SubmitAnswered(t, j) =>
                          Submitted(Copy(t, j), Submit(t, j).prompt) \in G[j]
                    /\ SubmitWithdrawn(t, j) =>
                          Cancelled([Copy(t, j) EXCEPT
                                        !.prompt = Submit(t, j).prompt])
                             \in G[j]
                    /\ RetryAnswered(t, j) =>
                          Resubmitted(Copy(t, j), Submit(t, j).prompt) \in G[j]
  BY DEF AnswersIn
<1> DEFINE c == Copy(t, j)
           p == Submit(t, j).prompt
<1>1. c \in JobRecords
  BY TabFields DEF TypeInv, TypeOK, Rows, Copy
<1> HIDE DEF c
<1>2. ASSUME p \in Prompts, promptOf[p] = j
      PROVE  /\ Submitted(c, p) \in G[j] /\ Resubmitted(c, p) \in G[j]
             /\ Cancelled([c EXCEPT !.prompt = p]) \in G[j]
  <2>1. /\ Submitted(c, p) \in JobRecords /\ Resubmitted(c, p) \in JobRecords
        /\ Cancelled([c EXCEPT !.prompt = p]) \in JobRecords
    BY <1>1, <1>2, WritesKeepRecords
  <2>2. /\ Submitted(c, p).status = "queued" /\ Submitted(c, p).prompt = p
        /\ Resubmitted(c, p).status = "queued" /\ Resubmitted(c, p).prompt = p
        /\ Cancelled([c EXCEPT !.prompt = p]).status = "cancelled"
        /\ Cancelled([c EXCEPT !.prompt = p]).prompt = p
    BY <1>1 DEF Submitted, Resubmitted, Cancelled, JobRecords
  <2>3. /\ Honest(prompt, promptEnd, promptOf, j, Submitted(c, p))
        /\ Honest(prompt, promptEnd, promptOf, j, Resubmitted(c, p))
        /\ Honest(prompt, promptEnd, promptOf, j, Cancelled([c EXCEPT !.prompt = p]))
    BY <1>2, <2>2 DEF Honest
  <2> QED BY <2>1, <2>3, HonestFields
<1>3. SubmitAnswered(t, j) \/ SubmitWithdrawn(t, j) \/ RetryAnswered(t, j)
         => p \in Prompts /\ promptOf[p] = j
  BY DEF SubmitAnswered, SubmitWithdrawn, RetryAnswered, LandingInv,
         AnsweredInv
<1> QED BY <1>2, <1>3 DEF c

LEMMA HonestStep ==
    ASSUME TypeInv, LandingInv, [Next]_vars
    PROVE  HonestInv'
<1> DEFINE G == HonestRecords(prompt, promptEnd, promptOf)
           X == Told(promptEnd)
           H == HonestRecords(prompt', promptEnd', promptOf')
           Y == Told(promptEnd')
<1>1. (\A j \in Jobs : G[j] \subseteq H[j]) /\ X \subseteq Y
  BY EngineMoves, HonestGrows DEF LandingInv
<1>2. H \in RecordSets /\ ClosedSets(H)
  BY HonestSets
<1>3. ObservationsIn(G, X) /\ AnswersIn(G) /\ Within(G, X)
  BY HonestObservations, HonestAnswers DEF LandingInv, HonestInv
<1>4. watch.todo \subseteq Jobs /\ (ObservingNow => watch.job \in Jobs)
      /\ line \in [Tabs -> Lines]
  BY DEF TypeInv, TypeOK, ServerTypeOK, Watches, VisitInv, ObservingNow
<1>5. AllIn(H, Y, row', watch'.list, pending', tab', line')
  <2> HIDE DEF G, X, H, Y
  <2>1. Within(H, Y)
    BY <1>1, <1>3, <1>4, WithinGrows
  <2>2. ObservationsIn(H, Y)
    BY <1>1, <1>3, <1>4 DEF ObservationsIn
  <2>3. AnswersIn(H)
    BY <1>1, <1>3 DEF AnswersIn
  <2> QED BY <1>2, <2>1, <2>2, <2>3, StepWithin DEF LandingInv
<1> QED BY <1>5 DEF HonestInv, Within

(* The moves of the watcher. *)
Turns ==
    /\ watch.at \in {"history", "ingest", "land"} /\ watch' = Turn
Fetches ==
    /\ watch.at \in {"history", "ingest"}
    /\ \E r : watch' = [watch EXCEPT !.at = "land", !.list[watch.job] = r]
AwaitsIngest ==
    /\ watch.at = "history" /\ watch.pass = "observe"
    /\ prompt[Rec.prompt] = "done"
    /\ watch' = [watch EXCEPT !.at = "ingest"]
VisitsOne(j) ==
    /\ watch.at = "turn" /\ j \in watch.todo
    /\ \/ Visits(j)
       \/ \E n : watch' = [watch EXCEPT !.at = "history", !.job = j,
                              !.todo = @ \ {j}, !.tries = n]
SkipsOne(j) == watch.at = "turn" /\ j \in watch.todo /\ Skips(j)
Restarts ==
    /\ watch'.queue = NoQueue
    /\ watch'.at \in {"off", "idle", "turn", "queue"}
    /\ watch'.pass = "observe" =>
          watch'.todo = ActiveJobs /\ watch'.job = NoJob

WatchMove ==
    \/ watch' = watch \/ Turns \/ Fetches \/ AwaitsIngest
    \/ \E j \in Jobs : VisitsOne(j) \/ SkipsOne(j)
    \/ QueueAnswers \/ Restarts

LEMMA LandsMove ==
    ASSUME watch.at \in {"history", "ingest"}, NEW r, NEW saw,
           Lands(watch.job, r, saw)
    PROVE  Turns \/ Fetches
BY DEF Lands, Turns, Fetches

LEMMA ObservedMove ==
    ASSUME watch.at \in {"history", "ingest"}, NEW o, Observed(o)
    PROVE  Turns \/ Fetches
<1> DEFINE r == Reduce(Rec, o, watch.job \in late)
<1>1. /\ r.status = "completed" => Lands(watch.job, r, "done")
      /\ r.status # "completed" => watch' = Turn
  BY DEF Observed
<1> HIDE DEF r
<1> QED BY <1>1, LandsMove DEF Turns

LEMMA WatchMoveStep ==
    ASSUME TypeInv, [Next]_vars
    PROVE  WatchMove
<1>1. CASE HistoryAnswers /\ watch.pass = "observe"
  <2>1. watch.at = "history"
    BY <1>1 DEF HistoryAnswers
  <2> QED BY <1>1, <2>1, HistoryIsTruthful, ObservedMove
          DEF WatchMove, AwaitsIngest
<1>2. CASE HistoryAnswers /\ watch.pass # "observe"
  BY <1>2, LandsMove DEF HistoryAnswers, WatchMove
<1>3. CASE Ingests
  BY <1>3, ObservedMove DEF Ingests, WatchMove
<1>4. CASE OutputLands \/ OutputUnfetched
  BY <1>4 DEF OutputLands, OutputUnfetched, WatchMove, Turns
<1>5. ASSUME NEW j \in Jobs, RecoverVisits(j) PROVE WatchMove
  BY <1>5 DEF RecoverVisits, OnPass, WatchMove, VisitsOne, SkipsOne
<1>6. ASSUME NEW j \in Jobs, ObserveVisits(j) PROVE WatchMove
  BY <1>6 DEF ObserveVisits, OnPass, WatchMove, VisitsOne, SkipsOne
<1>7. ASSUME NEW j \in Jobs, DrainVisits(j) PROVE WatchMove
  BY <1>7 DEF DrainVisits, OnPass, WatchMove, VisitsOne
<1>8. CASE Tick \/ Lists \/ DrainBegins \/ SweepEnds \/ Crash \/ Boot
  <2>1. Lists => Restarts
    BY DEF Lists, OnTurn, Resting, Restarts
  <2>2. Tick \/ DrainBegins => Restarts
    BY DEF Tick, DrainBegins, OnTurn, Resting, Restarts
  <2>3. SweepEnds \/ Crash \/ Boot => Restarts
    BY DEF SweepEnds, Crash, Boot, Resting, Restarts
  <2> QED BY <1>8, <2>1, <2>2, <2>3 DEF WatchMove
<1>9. CASE WatcherStep
  BY <1>1, <1>2, <1>3, <1>4, <1>5, <1>6, <1>7, <1>8, <1>9
     DEF WatcherStep, WatchMove
<1>10. CASE TimePasses \/ EngineStep
  BY <1>10 DEF TimePasses, GraceEnds, JobAges, OrphanAges, TimeOnly,
     EngineStep, WatchMove
<1>11. ASSUME NEW t \in Tabs, TabStep(t) PROVE watch' = watch
  BY <1>11 DEF TabStep, TabFetches, TabApplies, TabCloses, TabPosts, TabStirs,
     PostArrives, PostLost, EnvelopeArrives, EnvelopesLost, ButLine, TabOnly,
     serverVars
<1>12. ASSUME NEW t \in Tabs, NEW j \in Jobs, JobOnTabStep(t, j)
       PROVE  watch' = watch
  BY <1>12, JobStepQuiet
<1>13. UserTrashes \/ UNCHANGED vars => watch' = watch
  BY DEF UserTrashes, vars, serverVars
<1> QED BY <1>8, <1>9, <1>10, <1>11, <1>12, <1>13
        DEF Next, ServerStep, WatchMove

LEMMA QueueStep ==
    ASSUME TypeInv, LandingInv, [Next]_vars
    PROVE  QueueInv'
<1>1. /\ watch \in Watches /\ watch.list \in Rows /\ watch.todo \subseteq Jobs
      /\ PassInv /\ QueueInv /\ EngineInv
      /\ \A p \in Prompts : PromptMoves(p)
      /\ prompt \in [Prompts -> E!JobStates]
      /\ Rec.prompt \in Prompts \/ watch.at # "ingest"
  BY EngineMoves DEF TypeInv, TypeOK, ServerTypeOK, Watches, LandingInv,
     E!EngineTypeOK, VisitInv, PassInv, Rec, Rows, JobRecords
<1>2. ASSUME NEW p \in Prompts
      PROVE  /\ prompt[p] \in Over => prompt'[p] \in Over
             /\ promptEnd[p] \in Rendered => promptEnd'[p] \in Rendered
  <2>1. PromptMoves(p) /\ (prompt[p] = "closing" => promptEnd[p] = "none")
    BY <1>1 DEF EngineInv
  <2> QED BY <2>1 DEF PromptMoves, Over, Rendered
<1>3. ASSUME watch'.queue = watch.queue, NEW r \in JobRecords,
             NotQueued(prompt, watch.queue, r.prompt)
      PROVE  NotQueued(prompt', watch'.queue, r.prompt)
  BY <1>2, <1>3 DEF NotQueued, JobRecords
<1>4. ASSUME watch'.queue = watch.queue, watch'.pass = watch.pass,
             watch'.todo \subseteq watch.todo,
             \A j \in watch'.todo : watch'.list[j] = watch.list[j],
             watch'.at \notin {"ingest", "history"}
      PROVE  QueueInv'
  <2>1. watch'.pass = "observe" /\ watch'.queue.known =>
           \A j \in watch'.todo :
              NotQueued(prompt', watch'.queue, watch'.list[j].prompt)
    BY <1>1, <1>3, <1>4 DEF QueueInv, Rows
  <2> QED BY <1>4, <2>1 DEF QueueInv
<1>5. CASE watch' = watch
  <2>1. Rec' = Rec
    BY <1>5 DEF Rec
  <2>2. watch'.pass = "observe" /\ watch'.queue.known =>
           \A j \in watch'.todo :
              NotQueued(prompt', watch'.queue, watch'.list[j].prompt)
    BY <1>1, <1>3, <1>5 DEF QueueInv, Rows
  <2>3. watch.at = "history" => Rec \in JobRecords
    BY <1>1 DEF TypeInv, VisitInv, Rec, Rows
  <2>4. watch'.pass = "observe" /\ watch'.queue.known /\ watch'.at = "history"
           => NotQueued(prompt', watch'.queue, Rec'.prompt)
    BY <1>1, <1>3, <1>5, <2>1, <2>3 DEF QueueInv
  <2>5. watch'.at = "ingest" => promptEnd'[Rec'.prompt] \in Rendered
    BY <1>1, <1>2, <1>5, <2>1 DEF QueueInv
  <2> QED BY <2>2, <2>4, <2>5 DEF QueueInv
<1>6. CASE Turns
  <2>1. /\ watch'.queue = watch.queue /\ watch'.pass = watch.pass
        /\ watch'.todo = watch.todo /\ watch'.at = "turn"
        /\ \A j \in watch.todo : watch'.list[j] = watch.list[j]
    BY <1>1, <1>6 DEF Turns, Turn, Watches, Rows, PassInv
  <2> QED BY <1>4, <2>1
<1>7. CASE Fetches
  <2>1. /\ watch'.queue = watch.queue /\ watch'.pass = watch.pass
        /\ watch'.todo = watch.todo /\ watch'.at = "land"
        /\ \A j \in watch.todo : watch'.list[j] = watch.list[j]
    BY <1>1, <1>7 DEF Fetches, Watches, Rows, PassInv
  <2> QED BY <1>4, <2>1
<1>8. CASE AwaitsIngest
  <2>1. /\ watch'.queue = watch.queue /\ watch'.pass = watch.pass
        /\ watch'.todo = watch.todo /\ watch'.at = "ingest"
        /\ watch'.list = watch.list /\ watch'.job = watch.job
    BY <1>1, <1>8 DEF AwaitsIngest, Watches
  <2>2. Rec' = Rec
    BY <2>1 DEF Rec
  <2>3. Rec.prompt \in Prompts
    BY <1>1, <1>8 DEF AwaitsIngest, PassInv, TypeInv, VisitInv, Rec, Rows,
       JobRecords
  <2>4. promptEnd'[Rec'.prompt] \in Rendered
    BY <1>1, <1>2, <1>8, <2>2, <2>3 DEF AwaitsIngest, Rendered, EngineInv
  <2>5. watch'.pass = "observe" /\ watch'.queue.known =>
           \A j \in watch'.todo :
              NotQueued(prompt', watch'.queue, watch'.list[j].prompt)
    BY <1>1, <1>3, <2>1 DEF QueueInv, Rows
  <2> QED BY <2>1, <2>4, <2>5 DEF QueueInv
<1>9. ASSUME NEW j \in Jobs, VisitsOne(j) PROVE QueueInv'
  <2>1. /\ watch'.queue = watch.queue /\ watch'.pass = watch.pass
        /\ watch'.todo = watch.todo \ {j} /\ watch'.at = "history"
        /\ watch'.list = watch.list /\ watch'.job = j /\ j \in watch.todo
    BY <1>1, <1>9 DEF VisitsOne, Visits, Watches
  <2>2. Rec' = watch.list[j]
    BY <2>1 DEF Rec
  <2>3. watch'.pass = "observe" /\ watch'.queue.known =>
           \A k \in watch.todo :
              NotQueued(prompt', watch'.queue, watch.list[k].prompt)
    BY <1>1, <1>3, <2>1 DEF QueueInv, Rows
  <2>4. watch'.pass = "observe" /\ watch'.queue.known =>
           /\ \A k \in watch'.todo :
                 NotQueued(prompt', watch'.queue, watch'.list[k].prompt)
           /\ NotQueued(prompt', watch'.queue, Rec'.prompt)
    BY <2>1, <2>2, <2>3
  <2> QED BY <2>1, <2>4 DEF QueueInv, NotQueued
<1>10. ASSUME NEW j \in Jobs, SkipsOne(j) PROVE QueueInv'
  <2>1. /\ watch'.queue = watch.queue /\ watch'.pass = watch.pass
        /\ watch'.todo = watch.todo \ {j} /\ watch'.at = "turn"
        /\ \A k \in watch'.todo : watch'.list[k] = watch.list[k]
    BY <1>1, <1>10 DEF SkipsOne, Skips, Watches, Rows
  <2> QED BY <1>4, <2>1
<1>11. CASE QueueAnswers
  <2>1. /\ watch'.at = "turn" /\ watch'.todo = watch.todo
        /\ watch'.list = watch.list
        /\ watch'.queue = QueueRead \/ watch'.queue = NoQueue
        /\ prompt' = prompt
    BY <1>1, <1>11 DEF QueueAnswers, Watches, PassOnly, engineVars
  <2>2. CASE watch'.queue = NoQueue
    BY <2>1, <2>2 DEF QueueInv, NoQueue
  <2>3. CASE watch'.queue = QueueRead
    <3>1. ASSUME NEW j \in watch.todo
          PROVE  NotQueued(prompt', watch'.queue, watch'.list[j].prompt)
      <4> DEFINE p == watch.list[j].prompt
      <4>1. p \in Prompts => promptOf[p] = j /\ j \in Jobs
        BY <1>1, NoPromptAssumption, HonestFields
           DEF LandingInv, HonestInv, Within, AllIn, RowsIn, Honest, Rows
      <4>2. p \in Prompts => prompt[p] # "free"
        BY <1>1, <4>1, NoJobAssumption DEF EngineInv
      <4>3. p \in Prompts =>
               prompt[p] \in {"pending", "running"} \/ prompt[p] \in Over
        BY <1>1, <4>2 DEF EngineInv, E!JobStates, E!Records, Over
      <4>4. p \in Prompts \cup {NoPrompt}
        BY <1>1 DEF Rows, JobRecords
      <4>5. /\ watch'.queue.pending = {q \in Prompts : prompt[q] = "pending"}
            /\ watch'.queue.running = {q \in Prompts : prompt[q] = "running"}
        BY <2>3 DEF QueueRead
      <4>6. watch'.list[j].prompt = p
        BY <2>1
      <4> HIDE DEF p
      <4> QED BY <2>1, <4>3, <4>4, <4>5, <4>6 DEF NotQueued
    <3> QED BY <2>1, <3>1 DEF QueueInv
  <2> QED BY <2>1, <2>2, <2>3
<1>12. CASE Restarts
  BY <1>12 DEF Restarts, QueueInv, NoQueue
<1> QED BY <1>5, <1>6, <1>7, <1>8, <1>9, <1>10, <1>11, <1>12, WatchMoveStep
        DEF WatchMove

(* Who touches what tab t holds of job j. *)
Untouched(t, j) ==
    /\ tab'[t].copy[j] = tab[t].copy[j]
    /\ tab'[t].submit[j] = tab[t].submit[j]
    /\ j \in tab'[t].graph <=> j \in tab[t].graph

LEMMA TabCases ==
    ASSUME TypeInv, [Next]_vars, NEW t \in Tabs, NEW j \in Jobs
    PROVE  \/ JobOnTabStep(t, j)
           \/ TabApplies(t) \/ TabCloses(t)
           \/ EnvelopeArrives(t) /\ Head(line[t].sent).job = j
           \/ Untouched(t, j)
<1>1. tab[t].copy \in Rows /\ tab[t].submit \in [Jobs -> Submits]
  BY TabFields DEF TypeInv, TypeOK
<1>2. tab' = tab => Untouched(t, j)
  BY DEF Untouched
<1>3. ASSUME NEW u \in Tabs, u # t, OnlyTab(u) PROVE Untouched(t, j)
  BY <1>3 DEF OnlyTab, Untouched
<1>4. ASSUME NEW k \in Jobs, k # j, NEW c, NEW s, NEW g, Moves(t, k, c, s, g),
             g = tab[t].graph \/ g = tab[t].graph \cup {k}
      PROVE  Untouched(t, j)
  BY <1>1, <1>4 DEF Moves, Untouched, Rows
<1>5. ASSUME NEW u \in Tabs, NEW k \in Jobs, JobOnTabStep(u, k),
             u # t \/ k # j
      PROVE  Untouched(t, j)
  <2>1. \E c, s, g : /\ Moves(u, k, c, s, g)
                     /\ g = tab[u].graph \/ g = tab[u].graph \cup {k}
    <3>1. CASE \E p \in Prompts : PromptAccepted(u, k, p)
      BY <3>1, JobMoves
    <3>2. CASE SubmitAnswered(u, k)
      BY <3>2, JobMoves
    <3>3. CASE CancelAsks(u, k)
      BY <3>3, JobMoves
    <3>4. CASE TabSeesProgress(u, k) \/ TabSubmits(u, k) \/ SubmitSends(u, k)
               \/ SubmitFails(u, k) \/ SubmitWithdrawn(u, k)
      BY <3>4, JobMoves
    <3>5. CASE CancelReads(u, k) \/ CancelActs(u, k) \/ CancelThrows(u, k)
               \/ CancelAnswered(u, k) \/ RetryAnswered(u, k)
               \/ RetryFails(u, k) \/ SurfaceLands(u, k)
      BY <3>5, JobMoves
    <3> QED BY <1>5, <3>1, <3>2, <3>3, <3>4, <3>5 DEF JobOnTabStep
  <2> QED BY <1>3, <1>4, <1>5, <2>1 DEF Moves
<1>6. ASSUME TabStep(t), ~TabApplies(t), ~TabCloses(t), ~EnvelopeArrives(t)
      PROVE  Untouched(t, j)
  <2>1. \E f, q : Ledger(t, tab[t].copy, f, q)
    BY <1>6, LedgerMoves DEF TabStep
  <2> QED BY <2>1 DEF Ledger, Untouched
<1>7. ASSUME EnvelopeArrives(t), Head(line[t].sent).job # j
      PROVE  Untouched(t, j)
  <2> DEFINE e == Head(line[t].sent)
  <2>1. e \in Envelopes /\ \E c, s : Moves(t, e.job, c, s, tab[t].graph)
    BY <1>7, LedgerMoves
  <2> HIDE DEF e
  <2>2. e.job \in Jobs
    BY <2>1 DEF Envelopes
  <2> QED BY <1>4, <1>7, <2>1, <2>2 DEF e
<1>8. ASSUME NEW u \in Tabs, u # t, TabStep(u) PROVE Untouched(t, j)
  <2>1. OnlyTab(u)
    <3>1. CASE EnvelopeArrives(u)
      BY <3>1, LedgerMoves DEF Moves
    <3>2. CASE ~EnvelopeArrives(u)
      BY <1>8, <3>2, LedgerMoves DEF TabStep, Ledger
    <3> QED BY <3>1, <3>2
  <2> QED BY <1>3, <1>8, <2>1
<1>9. CASE (ServerStep /\ UNCHANGED tab) \/ UserTrashes \/ UNCHANGED vars
  BY <1>2, <1>9 DEF UserTrashes, vars
<1> QED BY <1>5, <1>6, <1>7, <1>8, <1>9 DEF Next

LEMMA AnsweredStep ==
    ASSUME TypeInv, LandingInv, [Next]_vars
    PROVE  AnsweredInv'
<1> SUFFICES ASSUME NEW t \in Tabs, NEW j \in Jobs,
                    tab'[t].submit[j].at \in {"accepted", "reaccepted"}
             PROVE  /\ tab'[t].submit[j].prompt \in Prompts
                    /\ promptOf'[tab'[t].submit[j].prompt] = j
  BY DEF AnsweredInv, Submit
<1> DEFINE s == tab[t].submit[j]
           v == tab'[t].submit[j]
<1>1. /\ s \in Submits /\ tab[t].submit \in [Jobs -> Submits]
      /\ tab[t].graph \subseteq Jobs
      /\ s.at \in {"accepted", "reaccepted"} =>
            s.prompt \in Prompts /\ promptOf[s.prompt] = j
  BY TabFields DEF TypeInv, TypeOK, LandingInv, AnsweredInv, Submit
<1>2. \A p \in Prompts : promptOf[p] = j => promptOf'[p] = j
  <2>1. \A p \in Prompts : PromptMoves(p)
                           /\ (prompt[p] = "free" => promptOf[p] = NoJob)
    BY EngineMoves DEF LandingInv, EngineInv
  <2> QED BY <2>1, NoJobAssumption DEF PromptMoves
<1>3. ASSUME v.at = s.at, v.prompt = s.prompt
      PROVE  v.prompt \in Prompts /\ promptOf'[v.prompt] = j
  BY <1>1, <1>2, <1>3
<1>4. ASSUME NEW c, NEW x, NEW g, Moves(t, j, c, x, g) PROVE v = x
  BY <1>1, <1>4 DEF Moves
<1>5. NoSubmit.at = "none"
  BY DEF NoSubmit
<1>6. /\ \A a : [s EXCEPT !.at = a].at = a
      /\ \A b : [s EXCEPT !.unwanted = b].at = s.at
      /\ \A b : [s EXCEPT !.unwanted = b].prompt = s.prompt
      /\ \A r : [s EXCEPT !.at = "freeing", !.rec = r].at = "freeing"
      /\ \A p, a : /\ [s EXCEPT !.prompt = p, !.at = a].at = a
                   /\ [s EXCEPT !.prompt = p, !.at = a].prompt = p
  BY <1>1 DEF Submits
<1>7. CASE \E p \in Prompts : PromptAccepted(t, j, p)
  <2>1. PICK p \in Prompts : PromptAccepted(t, j, p)
    BY <1>7
  <2>2. promptOf'[p] = j
    BY <2>1 DEF PromptAccepted, E!AcceptPrompt, TypeInv, TypeOK, ServerTypeOK,
       E!EngineTypeOK
  <2> DEFINE a == IF s.at = "sent" THEN "accepted" ELSE "reaccepted"
  <2>3. Moves(t, j, Copy(t, j), [s EXCEPT !.prompt = p, !.at = a],
              tab[t].graph)
    BY <2>1, JobMoves DEF Submit
  <2>4. v = [s EXCEPT !.prompt = p, !.at = a]
    BY <1>4, <2>3
  <2> HIDE DEF a, s, v
  <2>5. v.prompt = p
    BY <1>1, <2>4 DEF Submits
  <2> QED BY <2>2, <2>5 DEF v
<1>8. CASE CancelAsks(t, j)
  <2>1. \/ Moves(t, j, Copy(t, j), s, tab[t].graph)
        \/ \E b \in BOOLEAN : Moves(t, j, Cancelled(Copy(t, j)),
                                    [s EXCEPT !.unwanted = b], tab[t].graph)
    BY <1>8, JobMoves DEF Submit
  <2>2. v = s \/ \E b \in BOOLEAN : v = [s EXCEPT !.unwanted = b]
    BY <1>4, <2>1
  <2> HIDE DEF s, v
  <2>3. v.at = s.at /\ v.prompt = s.prompt
    BY <1>1, <2>2 DEF Submits
  <2> QED BY <1>3, <2>3 DEF v, s
<1>9. CASE TabSubmits(t, j) \/ SubmitSends(t, j)
  <2>1. \/ Moves(t, j, NewRecord, [s EXCEPT !.at = "uploads"], tab[t].graph)
        \/ Moves(t, j, Cancelled(Copy(t, j)), NoSubmit, tab[t].graph)
        \/ Moves(t, j, Copy(t, j), [s EXCEPT !.at = "sent"], tab[t].graph)
    BY <1>9, JobMoves DEF Submit
  <2>2. \/ v = [s EXCEPT !.at = "uploads"] \/ v = NoSubmit
        \/ v = [s EXCEPT !.at = "sent"]
    BY <1>4, <2>1
  <2> HIDE DEF s, v
  <2>3. v.at \in {"none", "uploads", "sent"}
    BY <1>1, <1>5, <2>2 DEF Submits
  <2> QED BY <2>3 DEF v
<1>10. CASE SubmitFails(t, j) \/ SubmitAnswered(t, j) \/ SubmitWithdrawn(t, j)
            \/ RetryAnswered(t, j) \/ RetryFails(t, j)
  BY <1>4, <1>5, <1>10, JobMoves
<1>11. CASE TabSeesProgress(t, j) \/ CancelReads(t, j) \/ CancelActs(t, j)
            \/ CancelThrows(t, j) \/ CancelAnswered(t, j) \/ SurfaceLands(t, j)
  BY <1>3, <1>4, <1>11, JobMoves DEF Submit
<1>12. CASE JobOnTabStep(t, j)
  BY <1>7, <1>8, <1>9, <1>10, <1>11, <1>12 DEF JobOnTabStep
<1>13. CASE TabApplies(t)
  BY <1>3, <1>13, LedgerMoves DEF Ledger
<1>14. CASE TabCloses(t)
  BY <1>5, <1>14, LedgerMoves
<1>15. CASE EnvelopeArrives(t) /\ Head(line[t].sent).job = j
  <2>1. v = s \/ \E r : v = [s EXCEPT !.at = "freeing", !.rec = r]
    BY <1>4, <1>15, LedgerMoves DEF Submit
  <2> QED BY <1>3, <1>6, <2>1
<1>16. CASE Untouched(t, j)
  BY <1>3, <1>16 DEF Untouched
<1> QED BY <1>12, <1>13, <1>14, <1>15, <1>16, TabCases

LEMMA EngineInvStep ==
    ASSUME TypeInv, LandingInv, [Next]_vars
    PROVE  EngineInv'
<1>1. /\ EngineInv /\ QueueInv /\ \A p \in Prompts : PromptMoves(p)
      /\ orphan \in [Prompts -> {"never", "young", "old"}]
  BY EngineMoves DEF LandingInv, TypeInv, TypeOK, ServerTypeOK
<1>2. ASSUME NEW p \in Prompts
      PROVE  /\ prompt'[p] = "free" => promptOf'[p] = NoJob
             /\ prompt'[p] \notin {"carryError", "carryErrorOut"}
             /\ prompt'[p] \in {"free", "pending", "running", "closing"} =>
                   promptEnd'[p] = "none"
             /\ prompt'[p] \in {"done", "empty", "error", "interrupted"} =>
                   promptEnd'[p] = prompt'[p]
             /\ prompt[p] \in Over => prompt'[p] \in Over
             /\ prompt[p] \in Over \ {"closing"} =>
                   prompt'[p] \in Over \ {"closing"}
  <2>1. PromptMoves(p)
    BY <1>1
  <2> QED BY <1>1, <2>1 DEF PromptMoves, EngineInv, Over
<1>3. ASSUME NEW p \in Prompts, orphan'[p] \in {orphan[p], "never"}
      PROVE  /\ orphan'[p] = "young" => prompt'[p] \in Over
             /\ orphan'[p] = "old" => prompt'[p] \in Over \ {"closing"}
  BY <1>1, <1>2, <1>3 DEF EngineInv
<1>4. \/ \A p \in Prompts : orphan'[p] \in {orphan[p], "never"}
      \/ HistoryAnswers /\ watch.pass = "observe"
      \/ \E p \in Prompts : OrphanAges(p)
  <2>1. CASE ServerStep
    BY <2>1 DEF ServerStep, WatcherStep, TimePasses, Tick, Lists,
       QueueAnswers, DrainBegins, SweepEnds, RecoverVisits, ObserveVisits,
       DrainVisits, PassOnly, HistoryAnswers, Ingests, OutputLands,
       OutputUnfetched, LandingOnly, GraceEnds, JobAges,
       Crash, Boot, clockVars, EngineStep
  <2>2. ASSUME NEW t \in Tabs, TabStep(t) PROVE orphan' = orphan
    BY <2>2 DEF TabStep, TabFetches, TabApplies, TabCloses, TabPosts,
       TabStirs, PostArrives, PostLost, EnvelopeArrives, EnvelopesLost,
       ButLine, TabOnly, serverVars, clockVars
  <2>3. ASSUME NEW t \in Tabs, NEW j \in Jobs, JobOnTabStep(t, j)
        PROVE  orphan' = orphan
    BY <2>3 DEF JobOnTabStep, TabSeesProgress, TabSubmits, SubmitSends,
       SubmitFails, SubmitAnswered, SubmitWithdrawn, PromptAccepted,
       CancelAsks, CancelReads, CancelActs, CancelAnswered, CancelThrows,
       RetryAnswered, RetryFails, SurfaceLands, TabOnly, serverVars,
       EngineOnly, clockVars
  <2>4. UserTrashes \/ UNCHANGED vars => orphan' = orphan
    BY DEF UserTrashes, vars, serverVars, clockVars
  <2> QED BY <2>1, <2>2, <2>3, <2>4 DEF Next
<1>5. CASE HistoryAnswers /\ watch.pass = "observe"
  <2> DEFINE p == Rec.prompt
  <2>1. /\ ObservesHistory(p) /\ watch.at = "history" /\ prompt' = prompt
    BY <1>5 DEF HistoryAnswers, engineVars
  <2>2. \/ \A q \in Prompts : orphan'[q] \in {orphan[q], "never"}
        \/ QueueSays(p) = "absent"
           /\ orphan' = [orphan EXCEPT ![p] = "young"]
    BY <1>1, <2>1 DEF ObservesHistory, ObservesSilence, ObservesAbsence
  <2>3. QueueSays(p) = "absent" /\ p \in Prompts => prompt[p] \in Over
    BY <1>1, <1>5, <2>1, NoPromptAssumption DEF QueueSays, QueueInv, NotQueued
  <2>4. CASE QueueSays(p) = "absent"
             /\ orphan' = [orphan EXCEPT ![p] = "young"]
    BY <1>1, <1>2, <1>3, <2>1, <2>3, <2>4 DEF EngineInv
  <2> QED BY <1>2, <1>3, <2>2, <2>4 DEF EngineInv
<1>6. ASSUME NEW q \in Prompts, OrphanAges(q) PROVE EngineInv'
  <2>1. /\ orphan[q] = "young" /\ prompt[q] # "closing" /\ prompt' = prompt
        /\ orphan' = [orphan EXCEPT ![q] = "old"]
    BY <1>6 DEF OrphanAges, TimeOnly, engineVars
  <2>2. prompt'[q] \in Over \ {"closing"}
    BY <1>1, <2>1 DEF EngineInv
  <2> QED BY <1>1, <1>2, <1>3, <2>1, <2>2 DEF EngineInv
<1> QED BY <1>2, <1>3, <1>4, <1>5, <1>6 DEF EngineInv

LEMMA WithinInit ==
    ASSUME Init, NEW G, NEW X, ClosedSets(G)
    PROVE  Within(G, X)
<1> USE DEF Init, ServerInit
<1>1. \A j \in Jobs : NoRecord \in G[j]
  BY DEF ClosedSets
<1>2. RowsIn(G, Blank)
  BY <1>1 DEF RowsIn, Blank
<1>3. row = Blank /\ watch.list = Blank
  BY DEF Resting
<1>4. PendingIn(G, pending)
  BY <1>1 DEF PendingIn, NotPending
<1>5. LinesIn(G, X, line)
  BY DEF LinesIn, LineIn, NoLine
<1>6. TabIn(G, X, Closed)
  BY <1>1 DEF TabIn, Closed, Blank, NoSubmit
<1>7. TabsIn(G, X, tab)
  BY <1>6 DEF TabsIn
<1> QED BY <1>2, <1>3, <1>4, <1>5, <1>7 DEF Within, AllIn

LEMMA LandingInvInit ==
    ASSUME Init
    PROVE  LandingInv
<1> USE DEF Init, ServerInit
<1>1. PassInv
  BY DEF PassInv, Resting, NotPending
<1>2. HonestInv
  BY HonestSets, WithinInit DEF HonestInv
<1>3. EngineInv
  BY DEF EngineInv, E!EngineInit
<1>4. QueueInv
  BY DEF QueueInv, Resting
<1>5. AnsweredInv
  BY DEF AnsweredInv, Submit, Closed, NoSubmit
<1> QED BY <1>1, <1>2, <1>3, <1>4, <1>5 DEF LandingInv

LEMMA LandingInvStep ==
    ASSUME TypeInv, LandingInv, [Next]_vars
    PROVE  LandingInv'
BY PassStep, HonestStep, EngineInvStep, QueueStep, AnsweredStep DEF LandingInv

-----------------------------------------------------------------------------
(* The takes.                                                              *)

LandsOne(j, r) ==
    \/ takes' = takes
    \/ \E k \in TakeKinds : takes' = AppendTake(j, r.prompt, k)

LEMMA LandsTakes ==
    ASSUME NEW j \in Jobs, NEW r,
           LandingFails(j, r) \/ \E saw : Lands(j, r, saw)
    PROVE  LandsOne(j, r)
<1>1. LandingFails(j, r) => LandsOne(j, r)
  BY DEF LandingFails, DrainFails, FirstLandingFails, Parked, LandsOne,
         TakeKinds
<1>2. ASSUME NEW saw, Lands(j, r, saw) PROVE LandsOne(j, r)
  <2>1. LandingOf(j, r, saw)
           \in {"note", "deferred", "landed", "append", "error", "fetch"}
    BY DEF LandingOf
  <2> QED BY <1>1, <1>2, <2>1 DEF Lands, LandingNoted, LandingDeferred,
             LandingSettles, LandsOne, TakeKinds
<1> QED BY <1>1, <1>2

(* A take is only ever made of a completed record. *)
LEMMA TakesMove ==
    ASSUME TypeInv, PassInv, NEW G, NEW X, Within(G, X),
           ObservationsIn(G, X), [Next]_vars
    PROVE  \/ takes' = takes
           \/ \E j \in Jobs, k \in TakeKinds : \E r \in G[j] :
                 r.status = "completed" /\ takes' = AppendTake(j, r.prompt, k)
<1> DEFINE Takes1 ==
              \E j \in Jobs, k \in TakeKinds : \E r \in G[j] :
                 r.status = "completed" /\ takes' = AppendTake(j, r.prompt, k)
<1>1. ASSUME NEW j \in Jobs, NEW r \in G[j], r.status = "completed",
             LandsOne(j, r)
      PROVE  takes' = takes \/ Takes1
  BY <1>1 DEF LandsOne
<1>2. /\ PassInv /\ RowsIn(G, watch.list)
      /\ \A t \in Tabs, j \in Jobs : Copy(t, j) \in G[j]
      /\ watch.at \in {"history", "ingest", "land"} =>
            watch.job \in Jobs /\ Rec \in G[watch.job]
  BY DEF Within, AllIn, RowsIn, TabsIn, TabIn, Copy, Rec, TypeInv, VisitInv
<1>3. ASSUME ObservingNow, NEW o \in Observations, Truthful(o), Observed(o)
      PROVE  takes' = takes \/ Takes1
  <2> DEFINE b == watch.job \in late
             r == Reduce(Rec, o, b)
  <2>1. b \in BOOLEAN
    OBVIOUS
  <2>2. r \in G[watch.job]
    BY <1>3, <2>1, Zenon DEF ObservationsIn
  <2>3. /\ r.status = "completed" => Lands(watch.job, r, "done")
        /\ r.status # "completed" => takes' = takes
    BY <1>3 DEF Observed
  <2>4. watch.job \in Jobs
    BY <1>2, <1>3 DEF ObservingNow
  <2> HIDE DEF r
  <2>5. CASE r.status = "completed"
    <3>1. LandsOne(watch.job, r)
      BY <2>3, <2>4, <2>5, LandsTakes
    <3> QED BY <1>1, <2>2, <2>4, <2>5, <3>1
  <2> QED BY <2>3, <2>5
<1>4. CASE HistoryAnswers
  <2>1. watch.at = "history"
    BY <1>4 DEF HistoryAnswers
  <2>2. CASE watch.pass = "observe"
    BY <1>3, <1>4, <2>1, <2>2, HistoryIsTruthful DEF ObservingNow
  <2>3. CASE watch.pass # "observe"
    <3>1. Rec.status = "completed"
      BY <1>2, <2>1, <2>3 DEF PassInv, TypeInv, TypeOK, ServerTypeOK, Watches,
         Passes
    <3>2. LandsOne(watch.job, Rec)
      BY <1>2, <1>4, <2>1, <2>3, LandsTakes DEF HistoryAnswers
    <3> QED BY <1>1, <1>2, <2>1, <3>1, <3>2
  <2> QED BY <2>2, <2>3
<1>5. CASE Ingests
  BY <1>2, <1>3, <1>5, IngestIsTruthful DEF ObservingNow, Ingests, PassInv
<1>6. CASE OutputLands \/ OutputUnfetched
  <2>1. watch.at = "land" /\ Rec.status = "completed"
    BY <1>2, <1>6 DEF OutputLands, OutputUnfetched, PassInv
  <2>2. CASE OutputLands
    BY <1>1, <1>2, <2>1, <2>2 DEF OutputLands, LandingSettles, LandsOne,
       TakeKinds
  <2>3. CASE OutputUnfetched
    BY <1>1, <1>2, <2>1, <2>3, LandsTakes DEF OutputUnfetched
  <2> QED BY <1>6, <2>2, <2>3
<1>7. ASSUME NEW t \in Tabs, NEW j \in Jobs, SurfaceLands(t, j)
      PROVE  takes' = takes \/ Takes1
  <2>1. Copy(t, j).status = "completed"
    BY <1>7 DEF SurfaceLands
  <2>2. LandsOne(j, Copy(t, j))
    BY <1>7 DEF SurfaceLands, LandsOne, TakeKinds
  <2> QED BY <1>1, <1>2, <2>1, <2>2
<1>8. CASE ServerStep
  <2>1. \/ HistoryAnswers \/ Ingests \/ OutputLands \/ OutputUnfetched
        \/ takes' = takes
    BY <1>8 DEF ServerStep, WatcherStep, TimePasses, Tick, Lists,
       QueueAnswers, DrainBegins, SweepEnds, RecoverVisits, ObserveVisits,
       DrainVisits, PassOnly, GraceEnds, JobAges, OrphanAges, TimeOnly,
       Crash, Boot, storeVars, EngineStep
  <2> QED BY <1>4, <1>5, <1>6, <2>1
<1>9. ASSUME NEW t \in Tabs, TabStep(t) PROVE takes' = takes
  BY <1>9 DEF TabStep, TabFetches, TabApplies, TabCloses, TabPosts,
     TabStirs, PostArrives, PostLost, EnvelopeArrives, EnvelopesLost,
     ButLine, TabOnly, serverVars, storeVars
<1>10. ASSUME NEW t \in Tabs, NEW j \in Jobs, JobOnTabStep(t, j)
       PROVE  SurfaceLands(t, j) \/ takes' = takes
  BY <1>10 DEF JobOnTabStep, TabSeesProgress, TabSubmits, SubmitSends,
     SubmitFails, SubmitAnswered, SubmitWithdrawn, PromptAccepted,
     CancelAsks, CancelReads, CancelActs, CancelAnswered, CancelThrows,
     RetryAnswered, RetryFails, TabOnly, serverVars, storeVars, EngineOnly
<1>11. UserTrashes \/ UNCHANGED vars => takes' = takes
  BY DEF UserTrashes, vars, serverVars, storeVars
<1> QED BY <1>7, <1>8, <1>9, <1>10, <1>11 DEF Next

TakesInv == OneTakePerJob /\ LandedWasRendered

LEMMA TakesInvStep ==
    ASSUME TypeInv, LandingInv, TakesInv, [Next]_vars
    PROVE  TakesInv'
<1> DEFINE n == Len(takes)
<1>1. /\ takes \in Seq(Takes) /\ n \in Nat /\ DOMAIN takes = 1 .. n
      /\ \A p \in Prompts : PromptMoves(p)
  BY EngineMoves DEF TypeInv, TypeOK, ServerTypeOK
<1>2. ASSUME NEW p \in Prompts
      PROVE  /\ promptEnd[p] \in Rendered => promptEnd'[p] \in Rendered
             /\ \A j \in Jobs : promptOf[p] = j => promptOf'[p] = j
  <2>1. PromptMoves(p) /\ (prompt[p] = "free" => promptOf[p] = NoJob)
        /\ (prompt[p] = "closing" => promptEnd[p] = "none")
    BY <1>1 DEF LandingInv, EngineInv
  <2> QED BY <2>1, NoJobAssumption DEF PromptMoves, Rendered
<1>3. \A i \in 1 .. n :
         /\ takes[i].job \in Jobs /\ takes[i].from \in Prompts
         /\ promptEnd[takes[i].from] \in Rendered
         /\ promptOf[takes[i].from] = takes[i].job
  <2>1. \A i \in 1 .. n : takes[i] \in Takes
    BY <1>1
  <2>2. \A i \in 1 .. n :
           /\ takes[i].from \in Prompts
           /\ promptEnd[takes[i].from] \in Rendered
           /\ promptOf[takes[i].from] = takes[i].job
    BY <1>1 DEF TakesInv, LandedWasRendered, Rendered
  <2> QED BY <2>1, <2>2 DEF Takes
<1>4. \A i \in 1 .. n :
         /\ takes[i].job \in Jobs /\ takes[i].from \in Prompts
         /\ promptEnd'[takes[i].from] \in Rendered
         /\ promptOf'[takes[i].from] = takes[i].job
  BY <1>2, <1>3
<1>5. CASE takes' = takes
  <2>1. OneTakePerJob'
    BY <1>5 DEF TakesInv, OneTakePerJob
  <2>2. LandedWasRendered'
    BY <1>1, <1>4, <1>5 DEF LandedWasRendered, Rendered
  <2> QED BY <2>1, <2>2 DEF TakesInv
<1>6. CASE takes' # takes
  <2>1. PICK j \in Jobs, p \in Prompts, k \in TakeKinds :
           /\ takes' = AppendTake(j, p, k)
           /\ promptOf[p] = j /\ promptEnd[p] \in Rendered
    <3> DEFINE G == HonestRecords(prompt, promptEnd, promptOf)
    <3>1. /\ Within(G, Told(promptEnd)) /\ ObservationsIn(G, Told(promptEnd))
          /\ PassInv
      BY HonestObservations DEF LandingInv, HonestInv
    <3>2. \A j \in Jobs : \A r \in G[j] : r.status = "completed" =>
             /\ r.prompt \in Prompts /\ promptOf[r.prompt] = j
             /\ promptEnd[r.prompt] \in Rendered
      BY HonestFields DEF Honest, JobRecords
    <3> HIDE DEF G
    <3> QED BY <1>6, <3>1, <3>2, TakesMove
  <2> DEFINE e == [job |-> j, from |-> p, kind |-> k]
  <2>2. takes' = Append(takes, e) /\ ~Taken(j) /\ e \in Takes
    BY <1>6, <2>1 DEF AppendTake, Takes
  <2>3. e.job = j /\ e.from = p
    OBVIOUS
  <2> HIDE DEF e
  <2>4. /\ DOMAIN takes' = 1 .. n + 1 /\ takes'[n + 1] = e
        /\ \A i \in 1 .. n : takes'[i] = takes[i]
    BY <1>1, <2>2
  <2>5. \A i \in 1 .. n : takes[i].job # j
    BY <1>1, <2>2 DEF Taken
  <2>6. OneTakePerJob'
    <3>1. \A i, m \in 1 .. n : takes[i].job = takes[m].job => i = m
      BY <1>1 DEF TakesInv, OneTakePerJob
    <3>2. \A i \in 1 .. n + 1 : i \in 1 .. n \/ i = n + 1
      BY <1>1
    <3> QED BY <2>3, <2>4, <2>5, <3>1, <3>2 DEF OneTakePerJob
  <2>7. LandedWasRendered'
    <3>1. \A i \in 1 .. n + 1 : i \in 1 .. n \/ i = n + 1
      BY <1>1
    <3>2. promptEnd'[p] \in Rendered /\ promptOf'[p] = j
      BY <1>2, <2>1
    <3> QED BY <1>4, <2>3, <2>4, <3>1, <3>2 DEF LandedWasRendered, Rendered
  <2> QED BY <2>6, <2>7 DEF TakesInv
<1> QED BY <1>5, <1>6

-----------------------------------------------------------------------------
(* The invariant the theorems of the lane rest on. *)
LaneInv == TypeInv /\ LandingInv /\ TakesInv

LEMMA LaneInvHolds == Spec => []LaneInv
<1>1. LaneInv /\ [Next]_vars => LaneInv'
  BY TypesStep, LandingInvStep, TakesInvStep DEF LaneInv
<1>2. Init => LaneInv
  <2>1. Init => TakesInv
    BY DEF Init, ServerInit, TakesInv, OneTakePerJob, LandedWasRendered
  <2> QED BY <2>1, TypesInit, LandingInvInit DEF LaneInv
<1> QED BY <1>1, <1>2, PTL DEF Spec

(* A job has one take, whoever of the tab, the watcher, its retries and    *)
(* the recovery after a boot lands its output (appendTake).                *)
THEOREM OneTakeForEver == Spec => []OneTakePerJob
<1>1. LaneInv => OneTakePerJob
  BY DEF LaneInv, TakesInv
<1> QED BY <1>1, LaneInvHolds, PTL

(* A take shows a render the engine finished and that was submitted for    *)
(* its job, however stale the record that landJob works from.              *)
THEOREM TakesAreRendered == Spec => []LandedWasRendered
<1>1. LaneInv => LandedWasRendered
  BY DEF LaneInv, TakesInv
<1> QED BY <1>1, LaneInvHolds, PTL

(* The orphan verdict of the watcher is right: a row that failed as lost   *)
(* has a prompt the engine no longer knows.                                *)
THEOREM LostForGood == Spec => []LostIsGone
<1>1. LaneInv => LostIsGone
  <2> SUFFICES ASSUME LaneInv, NEW j \in Jobs,
                      row[j].status = "failed", row[j].why = "lost"
               PROVE  prompt[row[j].prompt] = "gone"
    BY DEF LostIsGone
  <2>1. Honest(prompt, promptEnd, promptOf, j, row[j])
    BY HonestFields DEF LaneInv, LandingInv, HonestInv, Within, AllIn, RowsIn
  <2> QED BY <2>1 DEF Honest
<1> QED BY <1>1, LaneInvHolds, PTL
=============================================================================

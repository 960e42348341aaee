--------------------------- MODULE JobLaneProofs ---------------------------
(***************************************************************************)
(* The types of the canvas lane, for any number of tabs, jobs and prompts. *)
(***************************************************************************)
EXTENDS JobLane, SequenceTheorems, TLAPS

-----------------------------------------------------------------------------
(* The writes of JobRows keep a record a record.                           *)

LEMMA Counters ==
    /\ 0 \in Streaks /\ 0 \in Empties
    /\ \A n \in Streaks : n + 1 >= StreakLimit \/ n + 1 \in Streaks
    /\ \A n \in Empties : n + 1 >= NoOutputCap \/ n + 1 \in Empties
BY CapsAssumption DEF Streaks, Empties

LEMMA PlainRecords == NoRecord \in JobRecords /\ NewRecord \in JobRecords
BY Counters DEF NoRecord, NewRecord, JobRecords, SettledStatuses,
   ActiveStatuses, Reasons

LEMMA WritesKeepRecords ==
    ASSUME NEW r \in JobRecords
    PROVE  /\ Cancelled(r) \in JobRecords
           /\ \A w \in Reasons : Failed(r, w) \in JobRecords
           /\ \A p \in Prompts \cup {NoPrompt} :
                 /\ Submitted(r, p) \in JobRecords
                 /\ Resubmitted(r, p) \in JobRecords
                 /\ [r EXCEPT !.prompt = p] \in JobRecords
           /\ \A h \in BOOLEAN : Completed(r, h) \in JobRecords
           /\ [r EXCEPT !.status = "running"] \in JobRecords
<1> USE Counters DEF JobRecords, SettledStatuses, ActiveStatuses, Reasons
<1>1. Cancelled(r) \in JobRecords
  BY DEF Cancelled
<1>2. ASSUME NEW w \in Reasons
      PROVE  Failed(r, w) \in JobRecords
  BY DEF Failed
<1>3. ASSUME NEW p \in Prompts \cup {NoPrompt}
      PROVE  Submitted(r, p) \in JobRecords
  BY DEF Submitted
<1>4. ASSUME NEW p \in Prompts \cup {NoPrompt}
      PROVE  Resubmitted(r, p) \in JobRecords
  BY DEF Submitted, Resubmitted
<1>5. ASSUME NEW p \in Prompts \cup {NoPrompt}
      PROVE  [r EXCEPT !.prompt = p] \in JobRecords
  OBVIOUS
<1>6. ASSUME NEW h \in BOOLEAN
      PROVE  Completed(r, h) \in JobRecords
  BY DEF Completed
<1>7. [r EXCEPT !.status = "running"] \in JobRecords
  OBVIOUS
<1> QED BY <1>1, <1>2, <1>3, <1>4, <1>5, <1>6, <1>7

LEMMA OverlayKeepsRecords ==
    ASSUME NEW own \in JobRecords, NEW r \in JobRecords
    PROVE  Overlay(own, r) \in JobRecords
<1>1. /\ (own.retried \/ r.retried) \in BOOLEAN
      /\ (own.local \/ r.local) \in BOOLEAN
  OBVIOUS
<1>2. /\ (IF r.prompt = NoPrompt THEN own.prompt ELSE r.prompt)
            \in Prompts \cup {NoPrompt}
      /\ (IF r.streak = 0 THEN own.streak ELSE r.streak) \in Streaks
      /\ (IF r.empties = 0 THEN own.empties ELSE r.empties) \in Empties
      /\ (IF r.why = "none" THEN own.why ELSE r.why) \in Reasons
      /\ r.status \in SettledStatuses \cup ActiveStatuses \cup {"none"}
  BY DEF JobRecords
<1> QED BY <1>1, <1>2, Zenon DEF Overlay, JobRecords

LEMMA OverlayFields ==
    ASSUME NEW own, NEW r, r.retried \in BOOLEAN, own.retried \in BOOLEAN
    PROVE  LET o == Overlay(own, r) IN
           /\ o.status = r.status
           /\ o.prompt = IF r.prompt = NoPrompt THEN own.prompt ELSE r.prompt
           /\ o.why = IF r.why = "none" THEN own.why ELSE r.why
           /\ o.retried <=> own.retried \/ r.retried
BY DEF Overlay

LEMMA ReduceKeepsRecords ==
    ASSUME NEW r \in JobRecords, NEW o \in Observations, NEW b \in BOOLEAN
    PROVE  Reduce(r, o, b) \in JobRecords
<1> USE Counters
<1>1. [r EXCEPT !.status = "failed", !.why = "timeout"] \in JobRecords
  BY DEF JobRecords, SettledStatuses, Reasons
<1>2. /\ Failed(r, "error") \in JobRecords /\ Failed(r, "lost") \in JobRecords
      /\ Failed(r, "missing") \in JobRecords
      /\ Failed(r, "unreachable") \in JobRecords
      /\ Completed(r, o = "here") \in JobRecords
  BY WritesKeepRecords DEF Reasons
<1>3. FoundEmpty(r) \in JobRecords
  <2>1. CASE r.empties + 1 >= NoOutputCap
    BY <1>2, <2>1 DEF FoundEmpty
  <2>2. CASE ~(r.empties + 1 >= NoOutputCap)
    <3>1. r.empties + 1 \in Empties
      BY <2>2 DEF JobRecords
    <3> QED BY <2>2, <3>1 DEF FoundEmpty, JobRecords, ActiveStatuses
  <2> QED BY <2>1, <2>2
<1>4. Unreachable(r) \in JobRecords
  <2>1. CASE r.streak + 1 >= StreakLimit
    BY <1>2, <2>1 DEF Unreachable
  <2>2. CASE ~(r.streak + 1 >= StreakLimit)
    <3>1. r.streak + 1 \in Streaks
      BY <2>2 DEF JobRecords
    <3> QED BY <2>2, <3>1 DEF Unreachable, JobRecords
  <2> QED BY <2>1, <2>2
<1>5. Incomplete(r, o) \in JobRecords
  BY DEF Incomplete, JobRecords, SettledStatuses, ActiveStatuses
<1> QED BY <1>1, <1>2, <1>3, <1>4, <1>5 DEF Reduce

LEMMA UpsertKeepsRecords ==
    ASSUME NEW old \in JobRecords, NEW new \in JobRecords
    PROVE  Upsert(old, new) \in JobRecords
BY DEF Upsert

-----------------------------------------------------------------------------
(* What a step does to the watcher, the takes and the envelopes.           *)

LEMMA CountsOfTries ==
    /\ 0 \in Tries /\ 1 \in Tries
    /\ \A n \in Tries : n + 1 >= MaxLandings \/ n + 1 \in Tries
BY LimitsAssumption DEF Tries

LEMMA WritesKeepRows ==
    ASSUME NEW f \in Rows
    PROVE  /\ \A j : f[j] \in JobRecords \/ j \notin Jobs
           /\ \A j, r : r \in JobRecords => [f EXCEPT ![j] = r] \in Rows
BY DEF Rows

LEMMA BlankIsRows == Blank \in Rows
BY PlainRecords DEF Blank, Rows

LEMMA FreshWatches ==
    /\ Resting \in Watches
    /\ [Resting EXCEPT !.at = "off"] \in Watches
    /\ NoQueue \in Queues
    /\ \A pass \in Passes, js \in SUBSET Jobs, rs \in Rows :
          OnTurn(pass, js, rs) \in Watches
<1> USE CountsOfTries, BlankIsRows
        DEF Watches, WatchStates, Passes, Resting, NoQueue, Queues
<1>1. Resting \in Watches
  OBVIOUS
<1>2. [Resting EXCEPT !.at = "off"] \in Watches
  OBVIOUS
<1>3. ASSUME NEW pass \in Passes, NEW js \in SUBSET Jobs, NEW rs \in Rows
      PROVE  OnTurn(pass, js, rs) \in Watches
  <2>1. Copies(js, rs) \in Rows
    BY PlainRecords DEF Copies, Rows
  <2> QED BY <2>1 DEF OnTurn
<1> QED BY <1>1, <1>2, <1>3

LEMMA WatchFields ==
    ASSUME NEW w \in Watches
    PROVE  /\ w.at \in WatchStates /\ w.pass \in Passes
           /\ w.todo \in SUBSET Jobs /\ w.list \in Rows
           /\ w.job \in Jobs \cup {NoJob} /\ w.queue \in Queues
           /\ w.tries \in Tries
           /\ \A a \in WatchStates : [w EXCEPT !.at = a] \in Watches
           /\ \A s \in SUBSET Jobs : [w EXCEPT !.todo = s] \in Watches
           /\ \A s \in Rows : [w EXCEPT !.list = s] \in Watches
           /\ \A s \in Jobs \cup {NoJob} : [w EXCEPT !.job = s] \in Watches
           /\ \A s \in Queues : [w EXCEPT !.queue = s] \in Watches
           /\ \A s \in Tries : [w EXCEPT !.tries = s] \in Watches
BY DEF Watches

LEMMA WatchMoves ==
    ASSUME watch \in Watches
    PROVE  /\ Turn \in Watches
           /\ \A q \in Queues :
                 [watch EXCEPT !.at = "turn", !.queue = q] \in Watches
           /\ \A j \in Jobs :
                 /\ [watch EXCEPT !.at = "history", !.job = j,
                        !.todo = @ \ {j}] \in Watches
                 /\ [watch EXCEPT !.todo = @ \ {j},
                        !.list[j] = NoRecord] \in Watches
                 /\ \A n \in Tries :
                       [watch EXCEPT !.at = "history", !.job = j,
                           !.todo = @ \ {j}, !.tries = n] \in Watches
           /\ \A r \in JobRecords :
                 [watch EXCEPT !.at = "land", !.list[watch.job] = r] \in Watches
<1>7. /\ \A j, r : r \in JobRecords => [watch.list EXCEPT ![j] = r] \in Rows
      /\ NoRecord \in JobRecords /\ 0 \in Tries
  BY CountsOfTries, PlainRecords, WritesKeepRows, WatchFields
<1> USE <1>7 DEF Watches, WatchStates
<1>1. Turn \in Watches
  BY DEF Turn
<1>2. ASSUME NEW q \in Queues
      PROVE  [watch EXCEPT !.at = "turn", !.queue = q] \in Watches
  OBVIOUS
<1>3. ASSUME NEW j \in Jobs
      PROVE  [watch EXCEPT !.at = "history", !.job = j, !.todo = @ \ {j}]
                \in Watches
  OBVIOUS
<1>4. ASSUME NEW j \in Jobs
      PROVE  [watch EXCEPT !.todo = @ \ {j}, !.list[j] = NoRecord] \in Watches
  OBVIOUS
<1>5. ASSUME NEW j \in Jobs, NEW n \in Tries
      PROVE  [watch EXCEPT !.at = "history", !.job = j, !.todo = @ \ {j},
                           !.tries = n] \in Watches
  OBVIOUS
<1>6. ASSUME NEW r \in JobRecords
      PROVE  [watch EXCEPT !.at = "land", !.list[watch.job] = r] \in Watches
  OBVIOUS
<1> HIDE DEF Watches, WatchStates
<1> QED BY ONLY <1>1, <1>2, <1>3, <1>4, <1>5, <1>6

LEMMA AppendKeepsTakes ==
    ASSUME takes \in Seq(Takes), NEW j \in Jobs,
           NEW p \in Prompts \cup {NoPrompt}, NEW k \in TakeKinds
    PROVE  AppendTake(j, p, k) \in Seq(Takes)
<1>1. [job |-> j, from |-> p, kind |-> k] \in Takes
  BY DEF Takes
<1> QED BY <1>1 DEF AppendTake

LEMMA EmitKeepsLines ==
    ASSUME line \in [Tabs -> Lines], NEW j \in Jobs, NEW r \in JobRecords,
           NEW o \in {"completed", "failed"}, NEW e \in BOOLEAN,
           Emit(j, o, e, r)
    PROVE  line' \in [Tabs -> Lines]
<1> DEFINE env == [job |-> j, outcome |-> o, error |-> e, rec |-> r]
<1>1. env \in Envelopes
  BY DEF Envelopes
<1>2. ASSUME NEW l \in Lines PROVE Sent(l, env) \in Lines
  <2> HIDE DEF env
  <2>1. l.sent \in Seq(Envelopes) /\ Append(l.sent, env) \in Seq(Envelopes)
    BY <1>1 DEF Lines
  <2>2. [l EXCEPT !.sent = Append(@, env)] \in Lines
    BY <2>1 DEF Lines
  <2>3. [l EXCEPT !.gap = TRUE] \in Lines
    BY DEF Lines
  <2> QED BY <2>2, <2>3 DEF Sent
<1> QED BY <1>2 DEF Emit

-----------------------------------------------------------------------------
(* The watcher's steps.  A visit has a job: it is what every answer of the *)
(* engine is applied to.                                                   *)

VisitInv == watch.at \in {"history", "ingest", "land"} => watch.job \in Jobs

ServerInv == ServerTypeOK /\ VisitInv

LandingTypes ==
    /\ takes \in Seq(Takes)
    /\ watch \in Watches
    /\ VisitInv
    /\ pending \in [Jobs -> PendingRecords]
    /\ seen \in [Jobs -> {"never", "open", "over"}]
    /\ line \in [Tabs -> Lines]

LEMMA RetainedKeepsPending ==
    ASSUME pending \in [Jobs -> PendingRecords], NEW j \in Jobs,
           NEW r \in JobRecords, NEW n \in Tries, Retained(j, r, n)
    PROVE  pending' \in [Jobs -> PendingRecords]
<1>1. [due |-> TRUE, rec |-> r, tries |-> n] \in PendingRecords
  BY DEF PendingRecords
<1> QED BY <1>1 DEF Retained

LEMMA LandingSettlesTypes ==
    ASSUME LandingTypes, NEW j \in Jobs, NEW r \in JobRecords,
           NEW ts \in Seq(Takes), LandingSettles(j, r, ts)
    PROVE  /\ takes' \in Seq(Takes)
           /\ pending' \in [Jobs -> PendingRecords]
           /\ seen' \in [Jobs -> {"never", "open", "over"}]
           /\ line' \in [Tabs -> Lines]
<1> USE DEF LandingTypes, LandingSettles, Announces
<1>1. line' \in [Tabs -> Lines]
  BY EmitKeepsLines
<1> QED BY <1>1

LEMMA LandingFailsTypes ==
    ASSUME LandingTypes, NEW j \in Jobs, NEW r \in JobRecords,
           LandingFails(j, r)
    PROVE  /\ takes' \in Seq(Takes)
           /\ pending' \in [Jobs -> PendingRecords]
           /\ seen' \in [Jobs -> {"never", "open", "over"}]
           /\ line' \in [Tabs -> Lines]
<1>1. watch.tries \in Tries /\ r.prompt \in Prompts \cup {NoPrompt}
  BY DEF LandingTypes, Watches, JobRecords
<1>2. Announces(j, r) => line' \in [Tabs -> Lines]
  BY EmitKeepsLines DEF LandingTypes, Announces
<1>3. Parked(j, r) \in Seq(Takes)
  BY <1>1, AppendKeepsTakes DEF LandingTypes, Parked, TakeKinds
<1>4. CASE watch.pass # "drain"
  BY <1>2, <1>4, CountsOfTries, RetainedKeepsPending
     DEF LandingTypes, LandingFails, FirstLandingFails
<1>5. CASE watch.pass = "drain" /\ watch.tries + 1 >= MaxLandings
  BY <1>2, <1>3, <1>5 DEF LandingTypes, LandingFails, DrainFails
<1>6. CASE watch.pass = "drain" /\ ~(watch.tries + 1 >= MaxLandings)
  <2>1. watch.tries + 1 \in Tries
    BY <1>1, <1>6, CountsOfTries
  <2> QED BY <1>6, <2>1, RetainedKeepsPending
             DEF LandingTypes, LandingFails, DrainFails
<1> QED BY <1>4, <1>5, <1>6

LEMMA LandsTypes ==
    ASSUME LandingTypes, watch.job \in Jobs,
           NEW r \in JobRecords, NEW saw, Lands(watch.job, r, saw)
    PROVE  LandingTypes'
<1> DEFINE j == watch.job
           how == LandingOf(j, r, saw)
<1>1. watch.tries \in Tries /\ r.prompt \in Prompts \cup {NoPrompt}
  BY DEF LandingTypes, Watches, JobRecords
<1>2. watch' \in Watches /\ VisitInv'
  <2>1. watch \in Watches /\ watch.job \in Jobs
    BY DEF LandingTypes
  <2>2. \/ watch' = Turn
        \/ watch' = [watch EXCEPT !.at = "land", !.list[watch.job] = r]
    BY DEF Lands
  <2>3. watch' \in Watches
    BY <2>1, <2>2, WatchMoves
  <2>4. watch'.at = "turn" \/ watch'.job = watch.job
    BY <2>1, <2>2 DEF Turn, Watches
  <2> QED BY <2>1, <2>3, <2>4 DEF VisitInv
<1>3. Announces(j, r) => line' \in [Tabs -> Lines]
  BY EmitKeepsLines DEF LandingTypes, Announces
<1>4. CASE how = "note"
  BY <1>2, <1>3, <1>4 DEF Lands, LandingNoted, LandingTypes
<1>5. CASE how = "deferred"
  <2>1. LandingDeferred(j, r)
    BY <1>5 DEF Lands
  <2>2. seen' \in [Jobs -> {"never", "open", "over"}]
    BY <2>1 DEF LandingDeferred, LandingTypes
  <2>3. pending' \in [Jobs -> PendingRecords]
    BY <1>1, <2>1, RetainedKeepsPending DEF LandingDeferred, LandingTypes
  <2> QED BY <1>2, <1>3, <2>1, <2>2, <2>3 DEF LandingDeferred, LandingTypes
<1>6. CASE how = "landed"
  BY <1>2, <1>6, LandingSettlesTypes DEF Lands, LandingTypes
<1>7. CASE how = "append"
  <2>1. AppendTake(j, r.prompt, "full") \in Seq(Takes)
    BY <1>1, AppendKeepsTakes DEF LandingTypes, TakeKinds
  <2> QED BY <1>2, <1>7, <2>1, LandingSettlesTypes DEF Lands, LandingTypes
<1>8. CASE how = "error"
  BY <1>2, <1>8, LandingFailsTypes DEF Lands, LandingTypes
<1>9. CASE how = "fetch"
  BY <1>2, <1>9 DEF Lands, LandingTypes
<1>10. how \in {"note", "deferred", "landed", "append", "error", "fetch"}
  BY DEF LandingOf
<1> QED BY <1>4, <1>5, <1>6, <1>7, <1>8, <1>9, <1>10

LEMMA ObservedTypes ==
    ASSUME ServerInv, watch.at \in {"history", "ingest"},
           NEW o \in Observations, Observed(o)
    PROVE  row' \in Rows /\ LandingTypes'
<1> DEFINE j == watch.job
           r == Reduce(Rec, o, j \in late)
<1>1. j \in Jobs /\ LandingTypes
  BY DEF ServerInv, ServerTypeOK, VisitInv, LandingTypes
<1>2. Rec \in JobRecords
  BY <1>1 DEF LandingTypes, Watches, Rows, Rec
<1>3. r \in JobRecords
  <2>1. (j \in late) \in BOOLEAN
    OBVIOUS
  <2> QED BY <1>2, <2>1, ReduceKeepsRecords, Zenon
<1> HIDE DEF r
<1>4. row' \in Rows
  <2>1. row \in Rows /\ row[j] \in JobRecords
    BY <1>1 DEF ServerInv, ServerTypeOK, Rows
  <2>2. Upsert(row[j], r) \in JobRecords
    BY <1>3, <2>1, UpsertKeepsRecords
  <2> QED BY <2>1, <2>2, WritesKeepRows DEF Observed, r
<1>5. CASE r.status = "completed"
  BY <1>1, <1>3, <1>4, <1>5, LandsTypes DEF Observed, r
<1>6. CASE r.status = "failed"
  <2>1. line' \in [Tabs -> Lines]
    <3>1. (o = "error") \in BOOLEAN
      OBVIOUS
    <3>2. Emit(j, "failed", o = "error", r)
      BY <1>6 DEF Observed, r
    <3> QED BY <1>1, <1>3, <3>1, <3>2, EmitKeepsLines DEF LandingTypes
  <2>2. watch' = Turn /\ UNCHANGED <<takes, pending, seen>>
    BY <1>6 DEF Observed, r
  <2> QED BY <1>1, <1>4, <2>1, <2>2, WatchMoves
          DEF LandingTypes, VisitInv, Turn, Watches
<1>7. CASE r.status \notin {"completed", "failed"}
  <2>1. watch' = Turn /\ UNCHANGED <<takes, pending, seen, line>>
    BY <1>7 DEF Observed, r
  <2> QED BY <1>1, <1>4, <2>1, WatchMoves
          DEF LandingTypes, VisitInv, Turn, Watches
<1> QED BY <1>5, <1>6, <1>7

LEMMA HistoryAnswersTypes ==
    ASSUME ServerInv, HistoryAnswers
    PROVE  ServerInv'
<1> DEFINE p == Rec.prompt
<1>1. watch.job \in Jobs /\ watch \in Watches /\ row \in Rows /\ LandingTypes
  BY DEF ServerInv, ServerTypeOK, VisitInv, LandingTypes, HistoryAnswers
<1>2. Rec \in JobRecords
  BY <1>1 DEF Watches, Rows, Rec
<1>3. CASE watch.pass = "observe" /\ SightOf(p) = "done"
           /\ watch' = [watch EXCEPT !.at = "ingest"]
           /\ UNCHANGED <<row, takes, pending, seen, orphan, line>>
  <2>1. watch' \in Watches
    BY <1>1, <1>3, WatchFields DEF WatchStates
  <2> QED BY <1>1, <1>3, <2>1
             DEF HistoryAnswers, ServerInv, ServerTypeOK, VisitInv, Watches,
                 E!EngineTypeOK, engineVars, processVars
<1>4. CASE watch.pass # "observe"
  <2>1. LandingTypes' /\ row' \in Rows /\ orphan' = orphan
    BY <1>1, <1>2, <1>4, LandsTypes DEF HistoryAnswers
  <2> QED BY <2>1 DEF HistoryAnswers, ServerInv, ServerTypeOK, LandingTypes,
                      E!EngineTypeOK, engineVars, processVars
<1>5. ASSUME NEW o \in Observations, Observed(o),
             orphan' \in [Prompts -> {"never", "young", "old"}]
      PROVE  ServerInv'
  <2>1. LandingTypes' /\ row' \in Rows
    BY <1>5, ObservedTypes DEF HistoryAnswers
  <2> QED BY <1>5, <2>1 DEF HistoryAnswers, ServerInv, ServerTypeOK,
                      LandingTypes, E!EngineTypeOK, engineVars, processVars
<1>6. orphan \in [Prompts -> {"never", "young", "old"}]
  BY DEF ServerInv, ServerTypeOK
<1>7. CASE watch.pass = "observe" /\ SightOf(p) = "silent"
           /\ ObservesSilence(p)
  <2>1. QueueSays(p) \in {"unasked", "waiting", "executing", "absent"}
    BY DEF QueueSays
  <2>2. /\ orphan' \in [Prompts -> {"never", "young", "old"}]
        /\ \/ Observed("lost") \/ Observed("absent") \/ Observed("unasked")
           \/ Observed("waiting") \/ Observed("executing")
    BY <1>6, <1>7, <2>1 DEF ObservesSilence, ObservesAbsence
  <2> QED BY <1>5, <2>2 DEF Observations
<1>8. CASE watch.pass = "observe"
           /\ SightOf(p) \in {"unreachable", "empty", "error"}
           /\ Observed(SightOf(p)) /\ UNCHANGED orphan
  BY <1>5, <1>6, <1>8 DEF Observations
<1>9. CASE watch.pass = "observe" /\ Observed("here") /\ UNCHANGED orphan
  BY <1>5, <1>6, <1>9 DEF Observations
<1> QED BY <1>3, <1>4, <1>7, <1>8, <1>9 DEF HistoryAnswers, ObservesHistory

LEMMA VisitsTypes ==
    ASSUME ServerInv, NEW j \in Jobs,
           RecoverVisits(j) \/ ObserveVisits(j) \/ DrainVisits(j)
    PROVE  ServerInv'
<1> USE DEF ServerInv, ServerTypeOK, PassOnly, E!EngineTypeOK, engineVars,
            processVars, clockVars
<1>1. watch \in Watches /\ row \in Rows /\ j \in watch.todo
      /\ watch.at = "turn"
  BY DEF RecoverVisits, ObserveVisits, DrainVisits, OnPass
<1>2. Visits(j) => watch' \in Watches /\ VisitInv'
  BY <1>1, WatchMoves, NoJobAssumption DEF Visits, VisitInv, Watches
<1>3. Skips(j) => watch' \in Watches /\ VisitInv'
  BY <1>1, WatchMoves DEF Skips, VisitInv, Watches
<1>4. CASE RecoverVisits(j)
  BY <1>2, <1>3, <1>4 DEF RecoverVisits
<1>5. CASE ObserveVisits(j)
  <2> DEFINE r == Reduce(watch.list[j], "unasked", TRUE)
  <2>1. watch.list[j] \in JobRecords /\ row[j] \in JobRecords
    BY <1>1 DEF Watches, Rows
  <2>2. "unasked" \in Observations
    BY DEF Observations
  <2>3. r \in JobRecords
    BY <2>1, <2>2, ReduceKeepsRecords, Zenon
  <2>4. row' = row \/ row' = [row EXCEPT ![j] = Upsert(row[j], r)]
    BY <1>5, Zenon DEF ObserveVisits
  <2> HIDE DEF r
  <2>5. Upsert(row[j], r) \in JobRecords
    BY <2>1, <2>3, UpsertKeepsRecords
  <2>6. row' \in Rows
    BY <1>1, <2>4, <2>5 DEF Rows
  <2> QED BY <1>2, <1>3, <1>5, <2>6 DEF ObserveVisits
<1>6. CASE DrainVisits(j)
  <2>1. pending[j].tries \in Tries
    BY DEF PendingRecords
  <2>2. watch' \in Watches /\ VisitInv'
    BY <1>1, <1>6, <2>1, WatchMoves DEF DrainVisits, VisitInv, Watches
  <2>3. NotPending \in PendingRecords
    BY CountsOfTries, PlainRecords DEF NotPending, PendingRecords
  <2>4. pending' \in [Jobs -> PendingRecords]
    BY <1>6, <2>3 DEF DrainVisits
  <2> QED BY <1>6, <2>2, <2>4 DEF DrainVisits
<1> QED BY <1>4, <1>5, <1>6

LEMMA PassTypes ==
    ASSUME ServerInv, Tick \/ Lists \/ QueueAnswers \/ DrainBegins \/ SweepEnds
    PROVE  ServerInv'
<1> USE DEF ServerInv, ServerTypeOK, PassOnly, E!EngineTypeOK, engineVars,
            processVars, clockVars
<1>1. watch \in Watches /\ row \in Rows
      /\ pending \in [Jobs -> PendingRecords] /\ recovered \in BOOLEAN
  OBVIOUS
<1>2. SUFFICES watch' \in Watches /\ VisitInv'
  BY DEF Tick, Lists, QueueAnswers, DrainBegins, SweepEnds
<1>3. \A pass \in Passes, js \in SUBSET Jobs, rs \in Rows :
         OnTurn(pass, js, rs) \in Watches /\ OnTurn(pass, js, rs).at = "turn"
  BY FreshWatches DEF OnTurn, Resting
<1>4. CASE Tick
  <2>1. watch' = OnTurn("recover", IF recovered THEN {} ELSE Unlanded, row)
    BY <1>4 DEF Tick
  <2>2. (IF recovered THEN {} ELSE Unlanded) \in SUBSET Jobs
    BY SubsetsAssumption DEF Unlanded
  <2> QED BY <1>1, <1>3, <2>1, <2>2 DEF VisitInv, Passes
<1>5. CASE Lists
  <2>1. watch' = [OnTurn("observe", ActiveJobs, row) EXCEPT
                    !.at = IF \E j \in Jobs : row[j].status = "queued"
                              THEN "queue" ELSE @]
    BY <1>5 DEF Lists
  <2>2. OnTurn("observe", ActiveJobs, row) \in Watches
    BY <1>1, <1>3 DEF ActiveJobs, Passes
  <2>3. watch' \in Watches
    BY <2>1, <2>2, WatchFields DEF WatchStates
  <2>4. OnTurn("observe", ActiveJobs, row).at = "turn"
    BY DEF OnTurn, Resting
  <2>5. watch'.at \in {"queue", "turn"}
    BY <2>1, <2>2, <2>4 DEF Watches
  <2> QED BY <2>3, <2>5 DEF VisitInv
<1>6. CASE QueueAnswers
  <2>1. QueueRead \in Queues /\ NoQueue \in Queues
    BY FreshWatches DEF QueueRead, Queues
  <2>2. watch' = [watch EXCEPT !.at = "turn",
                     !.queue = IF engineUp THEN QueueRead ELSE NoQueue]
    BY <1>6 DEF QueueAnswers
  <2> QED BY <1>1, <2>1, <2>2, WatchMoves DEF VisitInv, Watches
<1>7. CASE DrainBegins
  <2>1. watch' = OnTurn("drain", {j \in Jobs : pending[j].due},
                        [j \in Jobs |-> pending[j].rec])
    BY <1>7 DEF DrainBegins
  <2>2. [j \in Jobs |-> pending[j].rec] \in Rows
    BY <1>1 DEF Rows, PendingRecords
  <2> QED BY <1>1, <1>3, <2>1, <2>2 DEF VisitInv, Passes
<1>8. CASE SweepEnds
  BY <1>8, FreshWatches DEF SweepEnds, Resting, VisitInv
<1> QED BY <1>4, <1>5, <1>6, <1>7, <1>8

LEMMA AnswersTypes ==
    ASSUME ServerInv, Ingests \/ OutputLands \/ OutputUnfetched
    PROVE  ServerInv'
<1> USE DEF ServerInv, ServerTypeOK, E!EngineTypeOK, engineVars, processVars
<1>1. watch \in Watches /\ row \in Rows /\ LandingTypes /\ watch.job \in Jobs
  BY DEF LandingTypes, VisitInv, Ingests, OutputLands, OutputUnfetched
<1>2. Rec \in JobRecords /\ Rec.prompt \in Prompts \cup {NoPrompt}
  BY <1>1 DEF Watches, Rows, Rec, JobRecords
<1>3. Turn \in Watches /\ Turn.at = "turn"
  BY <1>1, WatchMoves DEF Turn, Watches
<1>4. CASE Ingests
  <2>1. LandingTypes' /\ row' \in Rows
    BY <1>4, ObservedTypes DEF Ingests, Observations
  <2> QED BY <1>4, <2>1 DEF Ingests, LandingTypes
<1>5. CASE OutputLands
  <2>1. PICK k \in TakeKinds :
           LandingSettles(watch.job, Rec, AppendTake(watch.job, Rec.prompt, k))
    BY <1>5 DEF OutputLands, TakeKinds
  <2>2. AppendTake(watch.job, Rec.prompt, k) \in Seq(Takes)
    BY <1>1, <1>2, AppendKeepsTakes
  <2>3. watch' = Turn /\ LandingOnly
    BY <1>5 DEF OutputLands
  <2> QED BY <1>1, <1>2, <1>3, <2>1, <2>2, <2>3, LandingSettlesTypes
             DEF LandingOnly, VisitInv
<1>6. CASE OutputUnfetched
  <2>1. watch' = Turn /\ LandingOnly /\ LandingFails(watch.job, Rec)
    BY <1>6 DEF OutputUnfetched
  <2> QED BY <1>1, <1>2, <1>3, <2>1, LandingFailsTypes
             DEF LandingOnly, VisitInv
<1> QED BY <1>4, <1>5, <1>6

LEMMA TimeTypes ==
    ASSUME ServerInv, TimePasses
    PROVE  ServerInv'
<1> USE DEF ServerInv, ServerTypeOK, E!EngineTypeOK, engineVars, storeVars,
            processVars, TimeOnly
<1>1. ASSUME NEW j \in Jobs, GraceEnds(j) PROVE ServerInv'
  BY <1>1 DEF GraceEnds, VisitInv
<1>2. ASSUME NEW j \in Jobs, JobAges(j) PROVE ServerInv'
  BY <1>2 DEF JobAges, VisitInv
<1>3. ASSUME NEW p \in Prompts, OrphanAges(p) PROVE ServerInv'
  BY <1>3 DEF OrphanAges, VisitInv
<1> QED BY <1>1, <1>2, <1>3 DEF TimePasses

LEMMA CrashTypes ==
    ASSUME ServerInv, Crash \/ Boot
    PROVE  ServerInv'
<1> USE DEF ServerInv, ServerTypeOK, E!EngineTypeOK, engineVars, storeVars,
            clockVars
<1>1. CASE Crash
  <2>1. watch' \in Watches /\ VisitInv'
    BY <1>1, FreshWatches DEF Crash, VisitInv, Resting
  <2>2. crashes' \in 0 .. MaxCrashes
    BY <1>1, LimitsAssumption DEF Crash
  <2>3. NotPending \in PendingRecords
    BY CountsOfTries, PlainRecords DEF NotPending, PendingRecords
  <2>4. pending' \in [Jobs -> PendingRecords]
    BY <1>1, <2>3 DEF Crash
  <2>5. ASSUME NEW l \in Lines PROVE [l EXCEPT !.gap = l.open] \in Lines
    BY DEF Lines
  <2>6. line' \in [Tabs -> Lines]
    BY <1>1, <2>5 DEF Crash
  <2> QED BY <1>1, <2>1, <2>2, <2>4, <2>6 DEF Crash
<1>2. CASE Boot
  BY <1>2, FreshWatches DEF Boot, VisitInv, Resting
<1> QED BY <1>1, <1>2

(* What the engine does of its own and on request keeps its types. *)
LEMMA EngineStepTypes ==
    ASSUME E!EngineTypeOK
    PROVE  /\ E!EngineStep => E!EngineTypeOK'
           /\ \A j \in Jobs, p \in Prompts :
                 E!AcceptPrompt(j, p) => E!EngineTypeOK'
           /\ \A p : E!Dequeued(p) => prompt' \in [Prompts -> E!JobStates]
<1> USE DEF E!EngineTypeOK
<1>1. ASSUME E!EngineStep PROVE E!EngineTypeOK'
  <2> USE DEF E!JobStates, E!Records
  <2>1. ASSUME NEW p \in Prompts,
               E!ForeignPrompt(p) \/ E!JobStarts(p) \/ E!JobCloses(p)
        PROVE  E!EngineTypeOK'
    BY <2>1 DEF E!ForeignPrompt, E!JobStarts, E!JobCloses
  <2>2. ASSUME NEW p \in Prompts, NEW o \in Outcomes, E!JobRecorded(p, o)
        PROVE  E!EngineTypeOK'
    BY <2>2, EngineAssumption DEF E!JobRecorded
  <2>3. CASE E!EngineUnreachable
    <3>1. outages' \in 0 .. MaxOutages
      BY <2>3, EngineAssumption DEF E!EngineUnreachable
    <3> QED BY <2>3, <3>1 DEF E!EngineUnreachable
  <2>4. CASE E!EngineReachable
    BY <2>4 DEF E!EngineReachable
  <2>5. CASE E!EngineRestarts
    BY <2>5 DEF E!EngineRestarts
  <2> QED BY <1>1, <2>1, <2>2, <2>3, <2>4, <2>5 DEF E!EngineStep
<1>2. ASSUME NEW j \in Jobs, NEW p \in Prompts, E!AcceptPrompt(j, p)
      PROVE  E!EngineTypeOK'
  BY <1>2 DEF E!AcceptPrompt, E!JobStates
<1>3. ASSUME NEW p, E!Dequeued(p)
      PROVE  prompt' \in [Prompts -> E!JobStates]
  BY <1>3 DEF E!Dequeued, E!JobStates
<1> QED BY <1>1, <1>2, <1>3

LEMMA ServerStepTypes ==
    ASSUME ServerInv, ServerStep
    PROVE  ServerInv'
<1>1. CASE WatcherStep
  BY <1>1, HistoryAnswersTypes, VisitsTypes, PassTypes, AnswersTypes
     DEF WatcherStep
<1>2. CASE EngineStep
  BY <1>2, EngineStepTypes
     DEF EngineStep, ServerInv, ServerTypeOK, VisitInv, storeVars,
         processVars, clockVars
<1> QED BY <1>1, <1>2, TimeTypes, CrashTypes DEF ServerStep

-----------------------------------------------------------------------------
(* The tabs' steps.                                                        *)

LEMMA TabFields ==
    ASSUME NEW w \in TabRecords
    PROVE  /\ w.copy \in Rows /\ w.fetched \in Rows /\ w.post \in Rows
           /\ w.unsaved \in BOOLEAN /\ w.fetching \in BOOLEAN
           /\ w.posting \in BOOLEAN /\ w.graph \in SUBSET Jobs
           /\ w.submit \in [Jobs -> Submits] /\ w.cancel \in [Jobs -> Cancels]
BY DEF TabRecords

LEMMA ClosedIsATab ==
    /\ Closed \in TabRecords
    /\ NoSubmit \in Submits
    /\ NoCancel \in Cancels
<1>1. NoSubmit \in Submits /\ NoCancel \in Cancels
  BY PlainRecords DEF NoSubmit, NoCancel, Submits, Cancels
<1> QED BY <1>1, BlankIsRows DEF Closed, TabRecords

(* What the actions write to a tab. *)
LEMMA WritesKeepTabs ==
    ASSUME NEW w \in TabRecords, NEW j \in Jobs
    PROVE  /\ \A r \in JobRecords : Writes(w, j, r) \in TabRecords
           /\ \A s \in Submits : [w EXCEPT !.submit[j] = s] \in TabRecords
           /\ \A c \in Cancels : [w EXCEPT !.cancel[j] = c] \in TabRecords
           /\ [w EXCEPT !.graph = @ \cup {j}] \in TabRecords
<1>1. ASSUME NEW r \in JobRecords PROVE Writes(w, j, r) \in TabRecords
  BY TabFields DEF TabRecords, Writes, Rows
<1>2. ASSUME NEW s \in Submits PROVE [w EXCEPT !.submit[j] = s] \in TabRecords
  BY TabFields DEF TabRecords
<1>3. ASSUME NEW c \in Cancels PROVE [w EXCEPT !.cancel[j] = c] \in TabRecords
  BY TabFields DEF TabRecords
<1>4. [w EXCEPT !.graph = @ \cup {j}] \in TabRecords
  BY TabFields DEF TabRecords
<1> QED BY <1>1, <1>2, <1>3, <1>4

LEMMA SubmitWrites ==
    ASSUME NEW s \in Submits,
           NEW a \in {"none", "uploads", "sent", "accepted", "freeing",
                      "reaccepted"}
    PROVE  /\ s.prompt \in Prompts \cup {NoPrompt} /\ s.rec \in JobRecords
           /\ [s EXCEPT !.at = a] \in Submits
           /\ \A b \in BOOLEAN : [s EXCEPT !.unwanted = b] \in Submits
           /\ \A p \in Prompts : [s EXCEPT !.prompt = p, !.at = a] \in Submits
           /\ \A r \in JobRecords : [s EXCEPT !.at = a, !.rec = r] \in Submits
BY DEF Submits

LEMMA CancelWrites ==
    ASSUME NEW c \in Cancels,
           NEW a \in {"none", "asked", "running", "pending", "absent",
                      "stopped"}
    PROVE  [c EXCEPT !.at = a] \in Cancels
BY DEF Cancels

LEMMA SetTabKeepsTabs ==
    ASSUME tab \in [Tabs -> TabRecords], NEW t \in Tabs, NEW w \in TabRecords,
           SetTab(t, w)
    PROVE  tab' \in [Tabs -> TabRecords]
BY DEF SetTab

TypeInv == TypeOK /\ VisitInv

LEMMA QuietTypes ==
    ASSUME TypeInv
    PROVE  /\ Plain => made' = made /\ mishaps' \in 0 .. MaxMishaps
           /\ Mishap => made' = made /\ mishaps' \in 0 .. MaxMishaps
           /\ TabOnly => ServerInv'
           /\ ButLine /\ line' \in [Tabs -> Lines] => ServerInv'
<1> USE DEF TypeInv, TypeOK
<1>1. Plain => made' = made /\ mishaps' \in 0 .. MaxMishaps
  BY DEF Plain
<1>2. Mishap => made' = made /\ mishaps' \in 0 .. MaxMishaps
  BY MaxMishapsAssumption DEF Mishap
<1> USE DEF ServerInv, ServerTypeOK, VisitInv, E!EngineTypeOK, engineVars,
            storeVars, processVars, clockVars
<1>3. TabOnly => ServerInv'
  BY DEF TabOnly, serverVars
<1>4. ButLine /\ line' \in [Tabs -> Lines] => ServerInv'
  BY DEF ButLine
<1> QED BY <1>1, <1>2, <1>3, <1>4

LEMMA LedgerTypes ==
    ASSUME TypeInv, NEW t \in Tabs, TabStep(t)
    PROVE  TypeInv'
<1>1. /\ tab \in [Tabs -> TabRecords] /\ tab[t] \in TabRecords
      /\ line \in [Tabs -> Lines] /\ line[t] \in Lines /\ row \in Rows
      /\ made \subseteq Jobs
  BY DEF TypeInv, TypeOK, ServerTypeOK
<1>2. /\ tab[t].copy \in Rows /\ tab[t].post \in Rows
      /\ tab[t].fetched \in Rows
  BY <1>1, TabFields
<1>3. ASSUME ServerInv', tab' \in [Tabs -> TabRecords],
             Plain \/ Mishap
      PROVE  TypeInv'
  BY <1>1, <1>3, QuietTypes DEF TypeInv, TypeOK, ServerInv
<1>4. ASSUME NEW w \in TabRecords, SetTab(t, w), TabOnly, Plain \/ Mishap
      PROVE  TypeInv'
  BY <1>1, <1>3, <1>4, QuietTypes, SetTabKeepsTabs
<1>5. ASSUME NEW w \in TabRecords, SetTab(t, w), ButLine,
             line' \in [Tabs -> Lines], Plain \/ Mishap
      PROVE  TypeInv'
  BY <1>1, <1>3, <1>5, QuietTypes, SetTabKeepsTabs
<1>6. CASE TabFetches(t)
  <2>1. [tab[t] EXCEPT !.fetching = TRUE, !.fetched = row] \in TabRecords
    BY <1>1, TabFields DEF TabRecords
  <2>2. line' \in [Tabs -> Lines]
    <3>1. [line[t] EXCEPT !.open = TRUE] \in Lines
      BY <1>1 DEF Lines
    <3> QED BY <1>1, <1>6, <3>1 DEF TabFetches, Lines
  <2> QED BY <1>5, <1>6, <2>1, <2>2 DEF TabFetches
<1>7. CASE TabApplies(t)
  <2> DEFINE m == Merged(tab[t].copy, tab[t].fetched)
             b == tab[t].unsaved \/ tab[t].fetched # Blank
  <2>1. m \in Rows
    BY <1>2, OverlayKeepsRecords DEF Merged, Rows
  <2>2. b \in BOOLEAN
    OBVIOUS
  <2>3. SetTab(t, [tab[t] EXCEPT !.fetching = FALSE, !.fetched = Blank,
                                 !.copy = m, !.unsaved = b])
    BY <1>7, Zenon DEF TabApplies
  <2> HIDE DEF m, b
  <2>4. [tab[t] EXCEPT !.fetching = FALSE, !.fetched = Blank, !.copy = m,
                       !.unsaved = b] \in TabRecords
    BY <1>1, <2>1, <2>2, TabFields, BlankIsRows DEF TabRecords
  <2> QED BY <1>4, <1>7, <2>3, <2>4 DEF TabApplies
<1>8. CASE TabPosts(t)
  <2>1. [tab[t] EXCEPT !.post = tab[t].copy, !.posting = TRUE,
                       !.unsaved = FALSE] \in TabRecords
    BY <1>1, TabFields DEF TabRecords
  <2> QED BY <1>4, <1>8, <2>1 DEF TabPosts
<1>9. CASE TabStirs(t)
  <2>1. [tab[t] EXCEPT !.unsaved = TRUE] \in TabRecords
    BY <1>1, TabFields DEF TabRecords
  <2> QED BY <1>4, <1>9, <2>1 DEF TabStirs
<1>10. Posted(tab[t]) \in TabRecords
  BY <1>1, TabFields, BlankIsRows DEF Posted, TabRecords
<1>11. CASE PostArrives(t)
  <2>1. row' \in Rows
    BY <1>1, <1>2, <1>11, UpsertKeepsRecords DEF PostArrives, Rows
  <2>2. ServerInv'
    BY <1>11, <2>1 DEF PostArrives, TypeInv, TypeOK, ServerInv, ServerTypeOK,
       VisitInv, E!EngineTypeOK, engineVars, processVars, clockVars
  <2>3. tab' \in [Tabs -> TabRecords] /\ Plain
    BY <1>1, <1>10, <1>11, SetTabKeepsTabs DEF PostArrives
  <2> QED BY <1>3, <2>2, <2>3
<1>12. CASE PostLost(t)
  BY <1>4, <1>10, <1>12 DEF PostLost
<1>13. CASE TabCloses(t)
  <2>1. /\ [Closed EXCEPT !.post = tab[t].copy, !.posting = TRUE]
              \in TabRecords
        /\ [Closed EXCEPT !.post = tab[t].post, !.posting = tab[t].posting]
              \in TabRecords
    BY <1>1, ClosedIsATab, TabFields DEF TabRecords
  <2>2. NoLine \in Lines
    BY DEF NoLine, Lines
  <2>3. line' \in [Tabs -> Lines]
    BY <1>1, <1>13, <2>2 DEF TabCloses
  <2> QED BY <1>5, <1>13, <2>1, <2>3 DEF TabCloses
<1>14. CASE EnvelopeArrives(t)
  <2> DEFINE e == Head(line[t].sent)
  <2>1. e \in Envelopes /\ Tail(line[t].sent) \in Seq(Envelopes)
    BY <1>1, <1>14 DEF EnvelopeArrives, Lines
  <2>2. e.job \in Jobs /\ e.rec \in JobRecords
    BY <2>1 DEF Envelopes
  <2>3. line' \in [Tabs -> Lines]
    BY <1>1, <1>14, <2>1 DEF EnvelopeArrives, Lines
  <2> HIDE DEF e
  <2>4. [tab[t] EXCEPT !.submit[e.job].at = "freeing",
                       !.submit[e.job].rec = e.rec] \in TabRecords
    <3>1. tab[t].submit[e.job] \in Submits
      BY <1>1, <2>2, TabFields
    <3>2. [tab[t].submit[e.job] EXCEPT !.at = "freeing", !.rec = e.rec]
             \in Submits
      BY <2>2, <3>1, SubmitWrites
    <3> QED BY <1>1, <2>2, <3>2, TabFields DEF TabRecords
  <2>5. Applied(tab[t], e.job, e.rec) \in TabRecords
    <3>1. Overlay(tab[t].copy[e.job], e.rec) \in JobRecords
      BY <1>2, <2>2, OverlayKeepsRecords DEF Rows
    <3> QED BY <1>1, <2>2, <3>1, WritesKeepTabs DEF Applied
  <2> QED BY <1>5, <1>14, <2>3, <2>4, <2>5 DEF EnvelopeArrives, e
<1>15. CASE EnvelopesLost(t)
  <2>1. line' \in [Tabs -> Lines]
    BY <1>1, <1>15, EmptySeq DEF EnvelopesLost, Lines
  <2> QED BY <1>1, <1>3, <1>15, <2>1, QuietTypes DEF EnvelopesLost
<1> QED BY <1>6, <1>7, <1>8, <1>9, <1>11, <1>12, <1>13, <1>14, <1>15
        DEF TabStep

LEMMA JobOnTabTypes ==
    ASSUME TypeInv, NEW t \in Tabs, NEW j \in Jobs, JobOnTabStep(t, j)
    PROVE  TypeInv'
<1> DEFINE w == tab[t]
           s == tab[t].submit[j]
           c == tab[t].cancel[j]
           r == tab[t].copy[j]
<1>1. /\ tab \in [Tabs -> TabRecords] /\ w \in TabRecords
      /\ s \in Submits /\ c \in Cancels /\ r \in JobRecords
      /\ made \subseteq Jobs /\ E!EngineTypeOK /\ prompt \in [Prompts -> E!JobStates]
  BY TabFields DEF TypeInv, TypeOK, ServerTypeOK, Rows, E!EngineTypeOK
<1>2. /\ r.prompt \in Prompts \cup {NoPrompt}
      /\ s.prompt \in Prompts \cup {NoPrompt} /\ s.rec \in JobRecords
  BY <1>1 DEF JobRecords, Submits
<1>3. ASSUME NEW v \in TabRecords, SetTab(t, v), TabOnly, Plain \/ Mishap
      PROVE  TypeInv'
  BY <1>1, <1>3, QuietTypes, SetTabKeepsTabs
     DEF TypeInv, TypeOK, ServerInv
<1>4. ASSUME NEW v \in TabRecords, SetTab(t, v), EngineOnly, Plain,
             prompt' \in [Prompts -> E!JobStates]
      PROVE  TypeInv'
  <2>1. ServerInv'
    BY <1>4 DEF EngineOnly, TypeInv, TypeOK, ServerInv, ServerTypeOK,
       VisitInv, E!EngineTypeOK, storeVars, processVars, clockVars
  <2> QED BY <1>1, <1>4, <2>1, QuietTypes, SetTabKeepsTabs
             DEF TypeInv, TypeOK, ServerInv
<1>5. \A q \in JobRecords : Writes(w, j, q) \in TabRecords
  BY <1>1, WritesKeepTabs
<1>6. \A q \in JobRecords, v \in Submits :
         [Writes(w, j, q) EXCEPT !.submit[j] = v] \in TabRecords
  BY <1>5, WritesKeepTabs
<1>7. \A v \in Submits : [w EXCEPT !.submit[j] = v] \in TabRecords
  BY <1>1, WritesKeepTabs
<1>8. \A v \in Cancels : [w EXCEPT !.cancel[j] = v] \in TabRecords
  BY <1>1, WritesKeepTabs
<1>9. /\ Cancelled(r) \in JobRecords /\ Failed(r, "submit") \in JobRecords
      /\ NewRecord \in JobRecords
      /\ [r EXCEPT !.status = "running"] \in JobRecords
  BY <1>1, WritesKeepRecords, PlainRecords DEF Reasons
<1>10. NoSubmit \in Submits /\ NoCancel \in Cancels
  BY ClosedIsATab
<1>11. \A q \in JobRecords :
          SubmitEnds(t, j, q) => \E v \in TabRecords : SetTab(t, v)
  BY <1>6, <1>10 DEF SubmitEnds
<1>12. CASE TabSeesProgress(t, j)
  BY <1>3, <1>5, <1>9, <1>12 DEF TabSeesProgress, Copy
<1>13. CASE TabSubmits(t, j)
  <2>1. [Writes(w, j, NewRecord) EXCEPT !.submit[j].at = "uploads"]
           \in TabRecords
    <3>1. Writes(w, j, NewRecord) \in TabRecords
      BY <1>5, <1>9
    <3>2. [Writes(w, j, NewRecord).submit[j] EXCEPT !.at = "uploads"]
             \in Submits
      BY <3>1, TabFields, SubmitWrites
    <3> QED BY <3>1, <3>2, TabFields DEF TabRecords
  <2>2. tab' \in [Tabs -> TabRecords]
    BY <1>1, <1>13, <2>1, SetTabKeepsTabs DEF TabSubmits
  <2>3. ServerInv'
    BY <1>13, QuietTypes DEF TabSubmits
  <2> QED BY <1>1, <1>13, <2>2, <2>3
             DEF TabSubmits, TypeInv, TypeOK, ServerInv
<1>14. CASE SubmitSends(t, j)
  <2>1. [w EXCEPT !.submit[j].at = "sent"] \in TabRecords
    BY <1>1, <1>7, SubmitWrites, TabFields DEF TabRecords
  <2> QED BY <1>3, <1>9, <1>11, <1>14, <2>1 DEF SubmitSends, Copy
<1>15. CASE SubmitFails(t, j)
  BY <1>3, <1>9, <1>11, <1>15 DEF SubmitFails, Copy
<1>16. CASE SubmitAnswered(t, j)
  <2>1. Submitted(r, s.prompt) \in JobRecords
    BY <1>1, <1>2, WritesKeepRecords
  <2>2. [Writes(w, j, Submitted(r, s.prompt))
            EXCEPT !.submit[j] = NoSubmit, !.graph = @ \cup {j}] \in TabRecords
    BY <1>5, <1>10, <2>1, TabFields DEF TabRecords
  <2> QED BY <1>3, <1>16, <2>2 DEF SubmitAnswered, Copy, Submit
<1>17. CASE SubmitWithdrawn(t, j)
  <2>1. Cancelled([r EXCEPT !.prompt = s.prompt]) \in JobRecords
    BY <1>1, <1>2, WritesKeepRecords
  <2>2. prompt' \in [Prompts -> E!JobStates]
    BY <1>1, <1>17, EngineStepTypes DEF SubmitWithdrawn
  <2> QED BY <1>4, <1>11, <1>17, <2>1, <2>2 DEF SubmitWithdrawn, Copy, Submit
<1>18. ASSUME NEW p \in Prompts, PromptAccepted(t, j, p) PROVE TypeInv'
  <2> DEFINE a == IF s.at = "sent" THEN "accepted" ELSE "reaccepted"
  <2>1. [s EXCEPT !.prompt = p, !.at = a] \in Submits
    BY <1>1, SubmitWrites
  <2>2. [w EXCEPT !.submit[j].prompt = p, !.submit[j].at = a] \in TabRecords
    BY <1>1, <2>1, TabFields DEF TabRecords
  <2>3. SetTab(t, [w EXCEPT !.submit[j].prompt = p, !.submit[j].at = a])
    BY <1>1, <1>18, TabFields DEF PromptAccepted, SetTab, TabRecords, Submits
  <2>4. tab' \in [Tabs -> TabRecords]
    BY <1>1, <2>2, <2>3, SetTabKeepsTabs
  <2>5. E!EngineTypeOK'
    BY <1>1, <1>18, EngineStepTypes DEF PromptAccepted
  <2> QED BY <1>1, <1>18, <2>4, <2>5, QuietTypes
             DEF PromptAccepted, TypeInv, TypeOK, ServerTypeOK, VisitInv,
                 storeVars, processVars, clockVars
<1>19. CASE CancelAsks(t, j)
  <2>1. (s.at # "none") \in BOOLEAN
    OBVIOUS
  <2>2. [Writes(w, j, Cancelled(r)) EXCEPT !.submit[j].unwanted =
            s.at # "none"] \in TabRecords
    <3> DEFINE b == s.at # "none"
    <3>1. Writes(w, j, Cancelled(r)) \in TabRecords
      BY <1>5, <1>9
    <3> HIDE DEF b
    <3>2. b \in BOOLEAN
      BY <2>1 DEF b
    <3>3. [Writes(w, j, Cancelled(r)) EXCEPT !.submit[j].unwanted = b]
             \in TabRecords
      <4>1. Writes(w, j, Cancelled(r)).submit[j] \in Submits
        BY <3>1, TabFields
      <4>2. [Writes(w, j, Cancelled(r)).submit[j] EXCEPT !.unwanted = b]
               \in Submits
        BY <3>2, <4>1, SubmitWrites
      <4> QED BY <3>1, <4>2, TabFields DEF TabRecords
    <3> QED BY <3>3, Zenon DEF b
  <2>3. r.prompt # NoPrompt =>
           [w EXCEPT !.cancel[j] = [at |-> "asked", prompt |-> r.prompt]]
              \in TabRecords
    BY <1>1, <1>2, <1>8 DEF Cancels
  <2> QED BY <1>3, <1>19, <2>2, <2>3 DEF CancelAsks, Copy, Submit
<1>20. \A a \in {"none", "asked", "running", "pending", "absent", "stopped"} :
          [w EXCEPT !.cancel[j].at = a] \in TabRecords
  BY <1>1, CancelWrites, TabFields DEF TabRecords
<1>21. CASE CancelReads(t, j)
  <2> DEFINE a == IF prompt[c.prompt] \in {"running", "pending"}
                     THEN prompt[c.prompt] ELSE "absent"
  <2>1. a \in {"none", "asked", "running", "pending", "absent", "stopped"}
    OBVIOUS
  <2>2. SetTab(t, [w EXCEPT !.cancel[j].at = a]) /\ TabOnly /\ Plain
    BY <1>21 DEF CancelReads, Cancel
  <2> QED BY <1>3, <1>20, <2>1, <2>2
<1>22. CASE CancelActs(t, j)
  <2>1. prompt' \in [Prompts -> E!JobStates]
    BY <1>1, <1>22, EngineStepTypes DEF CancelActs
  <2> QED BY <1>4, <1>20, <1>22, <2>1 DEF CancelActs
<1>23. CASE CancelAnswered(t, j)
  <2>1. \A v \in TabRecords : [v EXCEPT !.cancel[j] = NoCancel] \in TabRecords
    BY <1>10, WritesKeepTabs
  <2>2. Writes(w, j, Cancelled(r)) \in TabRecords
    BY <1>5, <1>9
  <2> QED BY <1>1, <1>3, <1>23, <2>1, <2>2 DEF CancelAnswered, Copy
<1>24. CASE CancelThrows(t, j)
  BY <1>3, <1>8, <1>10, <1>24 DEF CancelThrows
<1>25. CASE RetryAnswered(t, j)
  <2>1. Resubmitted(r, s.prompt) \in JobRecords
    BY <1>1, <1>2, WritesKeepRecords
  <2> QED BY <1>3, <1>11, <1>25, <2>1 DEF RetryAnswered, Copy, Submit
<1>26. CASE RetryFails(t, j)
  <2>1. Applied(w, j, s.rec) \in TabRecords
    <3>1. Overlay(r, s.rec) \in JobRecords
      BY <1>1, <1>2, OverlayKeepsRecords
    <3> QED BY <1>1, <1>5, <3>1 DEF Applied
  <2>2. [Applied(w, j, s.rec) EXCEPT !.submit[j] = NoSubmit] \in TabRecords
    BY <1>10, <2>1, WritesKeepTabs
  <2> QED BY <1>3, <1>26, <2>2 DEF RetryFails, Submit
<1>27. CASE SurfaceLands(t, j)
  <2>1. PICK k \in TakeKinds : takes' = AppendTake(j, r.prompt, k)
    BY <1>27 DEF SurfaceLands, Copy, TakeKinds
  <2>2. takes' \in Seq(Takes)
    BY <1>2, <2>1, AppendKeepsTakes DEF TypeInv, TypeOK, ServerTypeOK
  <2> QED BY <1>27, <2>2, QuietTypes
             DEF SurfaceLands, TypeInv, TypeOK, ServerTypeOK, VisitInv,
                 E!EngineTypeOK, engineVars, processVars, clockVars
<1> QED BY <1>12, <1>13, <1>14, <1>15, <1>16, <1>17, <1>18, <1>19, <1>21,
           <1>22, <1>23, <1>24, <1>25, <1>26, <1>27 DEF JobOnTabStep

LEMMA TypesStep ==
    ASSUME TypeInv, [Next]_vars
    PROVE  TypeInv'
<1>1. CASE ServerStep /\ UNCHANGED <<tab, made, mishaps>>
  BY <1>1, ServerStepTypes DEF TypeInv, TypeOK, ServerInv
<1>2. CASE UserTrashes
  BY <1>2, QuietTypes
     DEF UserTrashes, TypeInv, TypeOK, ServerTypeOK, VisitInv,
         E!EngineTypeOK, engineVars, processVars, clockVars
<1>3. CASE UNCHANGED vars
  BY <1>3, QuietTypes DEF TypeInv, TypeOK, ServerTypeOK, VisitInv, vars,
     serverVars, E!EngineTypeOK, engineVars, storeVars, processVars, clockVars
<1> QED BY <1>1, <1>2, <1>3, LedgerTypes, JobOnTabTypes DEF Next

LEMMA TypesInit ==
    ASSUME Init
    PROVE  TypeInv
<1> USE DEF Init, ServerInit
<1>1. E!EngineTypeOK
  BY EngineAssumption
     DEF E!EngineInit, E!EngineTypeOK, E!JobStates, E!CarryFiles
<1>2. row \in Rows /\ takes \in Seq(Takes)
  BY BlankIsRows
<1>3. watch \in Watches /\ VisitInv
  BY FreshWatches DEF Resting, VisitInv
<1>4. pending \in [Jobs -> PendingRecords]
  BY CountsOfTries, PlainRecords DEF NotPending, PendingRecords
<1>5. line \in [Tabs -> Lines]
  BY DEF NoLine, Lines
<1>6. tab \in [Tabs -> TabRecords]
  BY ClosedIsATab
<1>7. mishaps \in 0 .. MaxMishaps /\ crashes \in 0 .. MaxCrashes
  BY MaxMishapsAssumption, LimitsAssumption
<1> QED BY <1>1, <1>2, <1>3, <1>4, <1>5, <1>6, <1>7
        DEF TypeInv, TypeOK, ServerTypeOK

(* Every record a tab, the table, the watcher or an envelope holds is a    *)
(* record of the reducer's, with its counters below their limits, and the  *)
(* answer of an await of the watcher has a job to be applied to.           *)
THEOREM LaneTypeCorrect == Spec => []TypeOK
<1>1. TypeInv /\ [Next]_vars => TypeInv'
  BY TypesStep
<1>2. Init => TypeInv
  BY TypesInit
<1>3. TypeInv => TypeOK
  BY DEF TypeInv
<1> QED BY <1>1, <1>2, <1>3, PTL DEF Spec
=============================================================================

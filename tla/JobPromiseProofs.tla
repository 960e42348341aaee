-------------------------- MODULE JobPromiseProofs --------------------------
(***************************************************************************)
(* The lane keeps the promise of JobPromise: a job is sent to the engine   *)
(* at most twice, the second time only when the engine failed it, and not  *)
(* again once it has a take.                                               *)
(***************************************************************************)
EXTENDS LandingProofs, FiniteSetTheorems

PromptsOf(j) == {p \in Prompts : promptOf[p] = j}
At(t, j)  == tab[t].submit[j].at
Has(t, j) == j \in tab[t].graph

(* The tab that submits a job, or holds its graph, is its only owner.      *)
Owns(t, j) == At(t, j) # "none" \/ Has(t, j)
Retrying(t, j) == At(t, j) \in {"freeing", "reaccepted"}

OwnerInv ==
    /\ \A t \in Tabs, j \in Jobs :
          /\ Owns(t, j) => j \in made /\ Copy(t, j).status # "none"
          /\ Retrying(t, j) <=> Has(t, j) /\ At(t, j) # "none"
    /\ \A t, u \in Tabs, j \in Jobs : Owns(t, j) /\ Owns(u, j) => t = u

(* What was asked of the engine, at every point of a submission.           *)
Once(j) == \E p \in Prompts : PromptsOf(j) = {p}
MayRetry(t, j) ==
    /\ Has(t, j) /\ At(t, j) = "none"
    /\ Active(Copy(t, j)) /\ ~Copy(t, j).retried

RequestInv ==
    /\ \A j \in Jobs \ made : PromptsOf(j) = {}
    /\ \A t \in Tabs, j \in Jobs :
          /\ At(t, j) \in {"uploads", "sent"} => PromptsOf(j) = {}
          /\ At(t, j) \in {"accepted", "freeing"} => Once(j)
          /\ MayRetry(t, j) => Once(j)
    /\ \A j \in Jobs : \E p, q \in Prompts \cup {NoPrompt} :
          PromptsOf(j) \subseteq {p, q}

(* While a job may still be sent no record of it is marked as retried, so  *)
(* the table does not take it up again once it is settled, and the engine  *)
(* fails it in one envelope only.                                          *)
Live(j) ==
    \/ j \notin made
    \/ \E t \in Tabs : \/ At(t, j) # "none"
                       \/ Has(t, j) /\ ~Copy(t, j).retried

FreshRecords(j) == [k \in Jobs |-> {r \in JobRecords : k = j => ~r.retried}]
Fresh(j) == Within(FreshRecords(j), Prompts)
Observing(j) == watch.pass = "observe" /\ (j \in watch.todo \/ watch.job = j)
Concluded(j) == Settled(row[j]) /\ ~Observing(j)
Reports(e, j) == e.error /\ e.job = j

OneReport(t, j) ==
    \A i \in 1 .. Len(line[t].sent) : Reports(line[t].sent[i], j) =>
        /\ Concluded(j) /\ ~Retrying(t, j)
        /\ \A k \in 1 .. Len(line[t].sent) :
              Reports(line[t].sent[k], j) => k = i

FreshInv ==
    \A j \in Jobs : Live(j) =>
        /\ Fresh(j)
        /\ \A t \in Tabs : /\ Retrying(t, j) => Concluded(j)
                           /\ OneReport(t, j)

(* A prompt that a tab was told of as failed renders nothing any more. *)
Unfinished(p) ==
    [j \in Jobs |-> {r \in JobRecords : r.status = "completed"
                                        => r.prompt \in Prompts \ {p}}]
Unrendered(p) ==
    /\ Within(Unfinished(p), Prompts)
    /\ \A i \in 1 .. Len(takes) : takes[i].from # p
    /\ ~(watch.at = "ingest" /\ Rec.prompt = p)
Barren == {p \in Told(promptEnd) : Unrendered(p)}
ErrorInv == Within(HonestRecords(prompt, promptEnd, promptOf), Barren)

PromiseInv ==
    OwnerInv /\ RequestInv /\ FreshInv /\ ErrorInv /\ RetryFollowsError

-----------------------------------------------------------------------------
(* What a step does to the copy, the submission and the graph that tab t   *)
(* has of job j.  Keeps covers every step that only brings news of the job.*)

Keeps(t, j) ==
    LET c == tab[t].copy[j]
        d == tab'[t].copy[j]
    IN  /\ tab'[t].submit[j].at = At(t, j)
        /\ j \in tab'[t].graph <=> Has(t, j)
        /\ c.status # "none" => d.status # "none"
        /\ c.retried => d.retried
        /\ c.status # "none" /\ Active(d) => Active(c)

Sends(t, j) ==
    /\ At(t, j) = "uploads" /\ tab'[t].submit[j].at = "sent"
    /\ tab'[t].copy[j] = tab[t].copy[j]
    /\ j \in tab'[t].graph <=> Has(t, j)
Accepts(t, j) ==
    /\ \E p \in Prompts : PromptAccepted(t, j, p)
    /\ \/ At(t, j) = "sent" /\ tab'[t].submit[j].at = "accepted"
       \/ At(t, j) = "freeing" /\ tab'[t].submit[j].at = "reaccepted"
    /\ tab'[t].copy[j] = tab[t].copy[j]
    /\ j \in tab'[t].graph <=> Has(t, j)
Begins(t, j) ==
    /\ At(t, j) = "accepted" /\ tab'[t].submit[j].at = "none"
    /\ tab'[t].copy[j].status = "queued"
    /\ tab'[t].copy[j].retried = tab[t].copy[j].retried
    /\ j \in tab'[t].graph
Ends(t, j) ==
    LET c == tab[t].copy[j]
        d == tab'[t].copy[j]
    IN  /\ At(t, j) # "none" /\ tab'[t].submit[j].at = "none"
        /\ j \in tab'[t].graph <=> Has(t, j)
        /\ c.status # "none" => d.status # "none"
        /\ c.retried => d.retried
        /\ ~Active(d)
Retries(t, j) ==
    LET e == Head(line[t].sent) IN
    /\ EnvelopeArrives(t) /\ RetryDue(t, e) /\ e.job = j
    /\ tab'[t].submit[j].at = "freeing"
    /\ tab'[t].copy[j] = tab[t].copy[j]
    /\ j \in tab'[t].graph <=> Has(t, j)
Repeats(t, j) ==
    /\ RetryAnswered(t, j)
    /\ At(t, j) = "reaccepted" /\ tab'[t].submit[j].at = "none"
    /\ tab'[t].copy[j].status = "queued" /\ tab'[t].copy[j].retried
    /\ j \in tab'[t].graph <=> Has(t, j)
Submitting(t, j) ==
    /\ TabSubmits(t, j)
    /\ tab'[t].submit[j].at = "uploads"
    /\ tab'[t].copy[j] = NewRecord
    /\ j \in tab'[t].graph <=> Has(t, j)
Forgets(t, j) ==
    tab'[t].submit[j].at = "none" /\ j \notin tab'[t].graph

Effect(t, j) ==
    \/ Keeps(t, j) \/ Submitting(t, j) \/ Sends(t, j) \/ Accepts(t, j)
    \/ Begins(t, j) \/ Ends(t, j) \/ Retries(t, j) \/ Repeats(t, j)
    \/ Forgets(t, j)

LEMMA WritesShow ==
    ASSUME NEW r \in JobRecords
    PROVE  /\ Cancelled(r).status = "cancelled"
           /\ Cancelled(r).retried = r.retried
           /\ \A w : /\ Failed(r, w).status = "failed"
                     /\ Failed(r, w).retried = r.retried
           /\ [r EXCEPT !.status = "running"].status = "running"
           /\ [r EXCEPT !.status = "running"].retried = r.retried
           /\ \A p : /\ Submitted(r, p).status = "queued"
                     /\ Submitted(r, p).retried = r.retried
                     /\ Resubmitted(r, p).status = "queued"
                     /\ Resubmitted(r, p).retried
           /\ \A p : LET d == Cancelled([r EXCEPT !.prompt = p]) IN
                     d.status = "cancelled" /\ d.retried = r.retried
BY DEF Cancelled, Failed, Submitted, Resubmitted, JobRecords

LEMMA MovesShow ==
    ASSUME TypeInv, NEW t \in Tabs, NEW j \in Jobs, NEW c, NEW s, NEW g,
           Moves(t, j, c, s, g)
    PROVE  /\ tab'[t].copy[j] = c /\ tab'[t].submit[j] = s
           /\ tab'[t].graph = g
<1>1. tab[t].copy \in Rows /\ tab[t].submit \in [Jobs -> Submits]
  BY TabFields DEF TypeInv, TypeOK
<1> QED BY <1>1 DEF Moves, Rows

LEMMA AcceptStep ==
    ASSUME TypeInv, NEW t \in Tabs, NEW j \in Jobs, NEW p \in Prompts,
           PromptAccepted(t, j, p)
    PROVE  Accepts(t, j)
<1> DEFINE c == tab[t].copy[j]
           s == tab[t].submit[j]
           x == [s EXCEPT !.prompt = p,
                    !.at = IF s.at = "sent" THEN "accepted"
                                            ELSE "reaccepted"]
<1>1. s \in Submits /\ At(t, j) = s.at /\ s.at \in {"sent", "freeing"}
  BY TabFields DEF TypeInv, TypeOK, At, PromptAccepted, Submit
<1>2. Moves(t, j, c, x, tab[t].graph)
  BY JobMoves DEF Copy, Submit
<1>3. x.at = IF s.at = "sent" THEN "accepted" ELSE "reaccepted"
  BY <1>1 DEF Submits
<1> HIDE DEF x
<1>4. tab'[t].copy[j] = c /\ tab'[t].submit[j] = x
      /\ tab'[t].graph = tab[t].graph
  BY <1>2, MovesShow
<1> QED BY <1>1, <1>3, <1>4 DEF Accepts, Has

LEMMA EffectStep ==
    ASSUME TypeInv, LandingInv, [Next]_vars, NEW t \in Tabs, NEW j \in Jobs
    PROVE  Effect(t, j)
<1> DEFINE c == tab[t].copy[j]
           s == tab[t].submit[j]
           g == tab[t].graph
           d == tab'[t].copy[j]
           v == tab'[t].submit[j]
<1>1. /\ c \in JobRecords /\ s \in Submits /\ s.rec \in JobRecords
      /\ Copy(t, j) = c /\ Submit(t, j) = s /\ At(t, j) = s.at
      /\ g \subseteq Jobs
  BY TabFields DEF TypeInv, TypeOK, Rows, Copy, Submit, At, Submits
<1>2. \A b, x, h : Moves(t, j, b, x, h) =>
         d = b /\ v = x /\ tab'[t].graph = h
  BY MovesShow
<1>3. c.retried \in BOOLEAN
  BY <1>1 DEF JobRecords
<1> HIDE DEF c, s
<1>4. ASSUME NEW b, NEW x, Moves(t, j, b, x, g), x.at = s.at,
             b = c \/ b = Cancelled(c)
             \/ (c.status = "queued" /\ b = [c EXCEPT !.status = "running"])
      PROVE  Keeps(t, j)
  <2>1. d = b /\ v = x /\ tab'[t].graph = g
    BY <1>2, <1>4
  <2>2. /\ b.retried = c.retried
        /\ \/ b.status = c.status \/ b.status = "cancelled"
           \/ c.status = "queued" /\ b.status = "running"
    <3>1. CASE b = c
      BY <3>1
    <3>2. CASE b = Cancelled(c)
      BY <1>1, <3>2, WritesShow
    <3>3. CASE c.status = "queued" /\ b = [c EXCEPT !.status = "running"]
      BY <1>1, <3>3, WritesShow
    <3> QED BY <1>4, <3>1, <3>2, <3>3
  <2> QED BY <1>1, <1>3, <1>4, <2>1, <2>2
          DEF Keeps, Has, Active, ActiveStatuses, c
<1>5. ASSUME NEW b, Moves(t, j, b, NoSubmit, g), s.at # "none",
             b.status # "none", ~Active(b), c.retried => b.retried
      PROVE  Ends(t, j)
  <2>1. d = b /\ v = NoSubmit /\ tab'[t].graph = g
    BY <1>2, <1>5
  <2> QED BY <1>1, <1>5, <2>1 DEF Ends, Has, NoSubmit, c
<1>6. CASE TabSeesProgress(t, j)
  <2>1. c.status = "queued"
    BY <1>1, <1>6 DEF TabSeesProgress
  <2> QED BY <1>1, <1>4, <1>6, <2>1, JobMoves DEF Effect
<1>7. CASE CancelReads(t, j) \/ CancelActs(t, j) \/ CancelThrows(t, j)
           \/ CancelAnswered(t, j) \/ SurfaceLands(t, j)
  BY <1>1, <1>4, <1>7, JobMoves DEF Effect
<1>8. CASE CancelAsks(t, j)
  <2>1. \A b : [s EXCEPT !.unwanted = b].at = s.at
    BY <1>1 DEF Submits
  <2> QED BY <1>1, <1>4, <1>8, <2>1, JobMoves DEF Effect
<1>9. CASE TabSubmits(t, j)
  <2> DEFINE x == [s EXCEPT !.at = "uploads"]
  <2>1. Moves(t, j, NewRecord, x, g)
    BY <1>1, <1>9, JobMoves
  <2>2. d = NewRecord /\ v.at = "uploads" /\ tab'[t].graph = g
    <3>1. x.at = "uploads"
      BY <1>1 DEF Submits
    <3> HIDE DEF x
    <3> QED BY <1>2, <2>1, <3>1
  <2> QED BY <1>9, <2>2 DEF Effect, Submitting, Has
<1>10. CASE SubmitSends(t, j)
  <2>1. s.at = "uploads"
    BY <1>1, <1>10 DEF SubmitSends
  <2>2. CASE Moves(t, j, Cancelled(c), NoSubmit, g)
    BY <1>1, <1>3, <1>5, <2>1, <2>2, WritesShow
       DEF Effect, Active, ActiveStatuses
  <2>3. CASE Moves(t, j, c, [s EXCEPT !.at = "sent"], g)
    <3> DEFINE x == [s EXCEPT !.at = "sent"]
    <3>1. x.at = "sent" /\ Moves(t, j, c, x, g)
      BY <1>1, <2>3 DEF Submits
    <3> HIDE DEF x
    <3>2. d = c /\ v.at = "sent" /\ tab'[t].graph = g
      BY <1>2, <3>1
    <3> QED BY <1>1, <2>1, <3>2 DEF Effect, Sends, Has, c
  <2> QED BY <1>1, <1>10, <2>2, <2>3, JobMoves
<1>11. CASE SubmitFails(t, j)
  <2>1. s.at # "none"
    BY <1>1, <1>11 DEF SubmitFails
  <2>2. ASSUME NEW b, Moves(t, j, b, NoSubmit, g),
               b = Cancelled(c) \/ b = Failed(c, "submit")
        PROVE  Ends(t, j)
    <3>1. /\ b.status \in {"cancelled", "failed"}
          /\ c.retried => b.retried
      BY <1>1, <2>2, WritesShow
    <3> QED BY <1>5, <2>1, <2>2, <3>1 DEF Active, ActiveStatuses
  <2>3. \/ Moves(t, j, Cancelled(c), NoSubmit, g)
        \/ Moves(t, j, Failed(c, "submit"), NoSubmit, g)
    BY <1>1, <1>11, JobMoves
  <2> QED BY <2>2, <2>3 DEF Effect
<1>12. CASE SubmitAnswered(t, j)
  <2>1. s.at = "accepted"
    BY <1>1, <1>12 DEF SubmitAnswered
  <2>2. Moves(t, j, Submitted(c, s.prompt), NoSubmit, g \cup {j})
    BY <1>1, <1>12, JobMoves
  <2>3. d = Submitted(c, s.prompt) /\ v = NoSubmit /\ j \in tab'[t].graph
    BY <1>2, <2>2
  <2>4. d.status = "queued" /\ d.retried = c.retried
    BY <1>1, <2>3, WritesShow
  <2> QED BY <1>1, <2>1, <2>3, <2>4 DEF Effect, Begins, NoSubmit, c
<1>13. CASE SubmitWithdrawn(t, j)
  <2>1. s.at = "accepted"
    BY <1>1, <1>13 DEF SubmitWithdrawn
  <2>2. Moves(t, j, Cancelled([c EXCEPT !.prompt = s.prompt]), NoSubmit, g)
    BY <1>1, <1>13, JobMoves
  <2> QED BY <1>1, <1>3, <1>5, <2>1, <2>2, WritesShow
          DEF Effect, Active, ActiveStatuses
<1>14. CASE RetryFails(t, j)
  <2>1. s.at \in {"freeing", "reaccepted"}
    BY <1>1, <1>14 DEF RetryFails
  <2>2. s.rec.status = "failed"
    BY <2>1 DEF LandingInv, HonestInv, Within, AllIn, TabsIn, TabIn, s
  <2>3. /\ Overlay(c, s.rec).status = "failed"
        /\ c.retried => Overlay(c, s.rec).retried
    BY <1>1, <1>3, <2>2, OverlayFields DEF JobRecords
  <2>4. CASE Moves(t, j, Overlay(c, s.rec), NoSubmit, g)
    BY <1>5, <2>1, <2>3, <2>4 DEF Effect, Active, ActiveStatuses
  <2>5. CASE ~Active(c) /\ Moves(t, j, c, NoSubmit, g)
    <3>1. d = c /\ v = NoSubmit /\ tab'[t].graph = g
      BY <1>2, <2>5
    <3> QED BY <1>1, <2>1, <2>5, <3>1
            DEF Effect, Ends, Has, NoSubmit, Active, c
  <2> QED BY <1>1, <1>14, <2>4, <2>5, JobMoves
<1>15. CASE RetryAnswered(t, j)
  <2>1. s.at = "reaccepted"
    BY <1>1, <1>15 DEF RetryAnswered
  <2>2. Moves(t, j, Resubmitted(c, s.prompt), NoSubmit, g)
    BY <1>1, <1>15, JobMoves
  <2>3. d = Resubmitted(c, s.prompt) /\ v = NoSubmit /\ tab'[t].graph = g
    BY <1>2, <2>2
  <2>4. d.status = "queued" /\ d.retried
    BY <1>1, <2>3, WritesShow
  <2> QED BY <1>1, <1>15, <2>1, <2>3, <2>4
          DEF Effect, Repeats, Has, NoSubmit
<1>16. ASSUME NEW p \in Prompts, PromptAccepted(t, j, p)
       PROVE  Effect(t, j)
  BY <1>16, AcceptStep DEF Effect
<1>17. CASE TabApplies(t)
  <2> DEFINE f == tab[t].fetched[j]
  <2>1. /\ d = IF f.status # "none" /\ ~Settled(c) THEN Overlay(c, f) ELSE c
        /\ v = s /\ tab'[t].graph = g
    BY <1>17, LedgerMoves DEF Ledger, Merged, c, s
  <2>2. f \in JobRecords
    BY TabFields DEF TypeInv, TypeOK, Rows
  <2> HIDE DEF f
  <2>3. /\ Overlay(c, f).status = f.status
        /\ c.retried => Overlay(c, f).retried
    BY <1>1, <1>3, <2>2, OverlayFields DEF JobRecords
  <2>4. ~Settled(c) /\ c.status # "none" => Active(c)
    BY <1>1 DEF JobRecords, Settled, Active
  <2>5. /\ c.status # "none" => d.status # "none"
        /\ c.retried => d.retried
        /\ c.status # "none" /\ Active(d) => Active(c)
    BY <2>1, <2>3, <2>4
  <2> QED BY <1>1, <2>1, <2>5 DEF Effect, Keeps, Has, c
<1>18. CASE TabCloses(t)
  <2>1. tab'[t].submit = [k \in Jobs |-> NoSubmit] /\ tab'[t].graph = {}
    BY <1>18, LedgerMoves
  <2>2. v = NoSubmit
    BY <2>1
  <2> QED BY <2>1, <2>2 DEF Effect, Forgets, NoSubmit
<1>19. CASE EnvelopeArrives(t) /\ Head(line[t].sent).job = j
  <2> DEFINE e == Head(line[t].sent)
  <2>1. /\ e \in Envelopes /\ e.job = j
        /\ \/ RetryDue(t, e) /\ Moves(t, j, c, [s EXCEPT !.at = "freeing",
                                                         !.rec = e.rec], g)
           \/ ~RetryDue(t, e) /\ Active(c)
              /\ Moves(t, j, Overlay(c, e.rec), s, g)
           \/ ~RetryDue(t, e) /\ ~Active(c) /\ Moves(t, j, c, s, g)
    BY <1>1, <1>19, LedgerMoves
  <2>2. e.rec.status \in {"completed", "failed"} /\ e.rec \in JobRecords
    <3>1. /\ line[t].sent \in Seq(Envelopes) /\ line[t].sent # <<>>
          /\ LineIn(HonestRecords(prompt, promptEnd, promptOf), Told(promptEnd), line[t])
      BY <1>19, LineMoves DEF LandingInv, HonestInv, Within, AllIn, LinesIn
    <3>2. LetterIn(HonestRecords(prompt, promptEnd, promptOf), Told(promptEnd), e)
      BY <3>1 DEF LineIn
    <3> QED BY <2>1, <3>2 DEF LetterIn, Envelopes
  <2> HIDE DEF e
  <2>3. CASE RetryDue(t, e)
    <3> DEFINE x == [s EXCEPT !.at = "freeing", !.rec = e.rec]
    <3>1. x.at = "freeing" /\ Moves(t, j, c, x, g)
      BY <1>1, <2>1, <2>3 DEF Submits
    <3> HIDE DEF x
    <3>2. d = c /\ v.at = "freeing" /\ tab'[t].graph = g
      BY <1>2, <3>1
    <3> QED BY <1>19, <2>1, <2>3, <3>2 DEF Effect, Retries, Has, c, e
  <2>4. CASE Active(c) /\ Moves(t, j, Overlay(c, e.rec), s, g)
    <3>1. d = Overlay(c, e.rec) /\ v = s /\ tab'[t].graph = g
      BY <1>2, <2>4
    <3>2. /\ d.status \in {"completed", "failed"}
          /\ c.retried => d.retried
      BY <1>1, <1>3, <2>2, <3>1, OverlayFields DEF JobRecords
    <3> QED BY <1>1, <2>4, <3>1, <3>2
            DEF Effect, Keeps, Has, Active, ActiveStatuses, c
  <2>5. CASE Moves(t, j, c, s, g)
    BY <1>4, <2>5 DEF Effect
  <2> QED BY <2>1, <2>3, <2>4, <2>5
<1>20. CASE Untouched(t, j)
  BY <1>1, <1>20 DEF Effect, Keeps, Untouched, Has, Active, c, s
<1> QED BY <1>6, <1>7, <1>8, <1>9, <1>10, <1>11, <1>12, <1>13, <1>14, <1>15,
           <1>16, <1>17, <1>18, <1>19, <1>20, TabCases DEF JobOnTabStep

LEMMA MadeMoves ==
    ASSUME [Next]_vars
    PROVE  \/ made' = made
           \/ \E t \in Tabs, j \in Jobs :
                 TabSubmits(t, j) /\ made' = made \cup {j}
<1>1. ASSUME NEW t \in Tabs, TabStep(t) PROVE made' = made
  BY <1>1 DEF TabStep, TabFetches, TabApplies, TabCloses, TabPosts, TabStirs,
     PostArrives, PostLost, EnvelopeArrives, EnvelopesLost, Plain, Mishap
<1>2. ASSUME NEW t \in Tabs, NEW j \in Jobs, JobOnTabStep(t, j)
      PROVE  TabSubmits(t, j) \/ made' = made
  BY <1>2 DEF JobOnTabStep, TabSeesProgress, SubmitSends, SubmitFails,
     SubmitAnswered, SubmitWithdrawn, PromptAccepted, CancelAsks, CancelReads,
     CancelActs, CancelAnswered, CancelThrows, RetryAnswered, RetryFails,
     SurfaceLands, Plain, Mishap
<1>3. ASSUME NEW t \in Tabs, NEW j \in Jobs, TabSubmits(t, j)
      PROVE  made' = made \cup {j}
  BY <1>3 DEF TabSubmits
<1> QED BY <1>1, <1>2, <1>3 DEF Next, UserTrashes, Mishap, vars

(* A job is submitted by one tab, which holds its graph alone. *)
LEMMA OwnerStep ==
    ASSUME TypeInv, LandingInv, OwnerInv, [Next]_vars
    PROVE  OwnerInv'
<1>1. made \subseteq made' /\ \A t \in Tabs, j \in Jobs : Effect(t, j)
  BY MadeMoves, EffectStep
<1>2. ASSUME NEW t \in Tabs, NEW j \in Jobs
      PROVE  /\ Owns(t, j) => j \in made /\ tab[t].copy[j].status # "none"
             /\ Retrying(t, j) <=> Has(t, j) /\ At(t, j) # "none"
  BY DEF OwnerInv, Copy
<1>3. ASSUME NEW t \in Tabs, NEW j \in Jobs
      PROVE  /\ Owns(t, j)' => Owns(t, j) \/ Submitting(t, j)
             /\ Owns(t, j)' => tab'[t].copy[j].status # "none"
             /\ Retrying(t, j)' <=> Has(t, j)' /\ At(t, j)' # "none"
  <2>1. /\ Owns(t, j) => tab[t].copy[j].status # "none"
        /\ Retrying(t, j) <=> Has(t, j) /\ At(t, j) # "none"
    BY <1>2
  <2>2. CASE Submitting(t, j)
    <3>1. j \notin made /\ ~Owns(t, j)
      BY <1>2, <2>2 DEF Submitting, TabSubmits
    <3>2. NewRecord.status = "queued"
      BY DEF NewRecord, NoRecord
    <3> QED BY <2>2, <3>1, <3>2 DEF Submitting, Owns, Retrying, At, Has
  <2>3. CASE Keeps(t, j)
    BY <2>1, <2>3 DEF Keeps, Owns, Retrying, At, Has
  <2>4. CASE Sends(t, j) \/ Accepts(t, j)
    BY <2>1, <2>4 DEF Sends, Accepts, Owns, Retrying, At, Has
  <2>5. CASE Begins(t, j) \/ Ends(t, j) \/ Repeats(t, j) \/ Forgets(t, j)
    BY <2>1, <2>5 DEF Begins, Ends, Repeats, Forgets, Owns, Retrying, At, Has
  <2>6. CASE Retries(t, j)
    BY <2>1, <2>6 DEF Retries, RetryDue, Owns, Retrying, At, Has
  <2> QED BY <1>1, <2>2, <2>3, <2>4, <2>5, <2>6 DEF Effect
<1>4. ASSUME NEW t \in Tabs, NEW j \in Jobs, Owns(t, j)'
      PROVE  j \in made'
  BY <1>1, <1>2, <1>3, <1>4 DEF Submitting, TabSubmits
<1>5. ASSUME NEW t \in Tabs, NEW u \in Tabs, NEW j \in Jobs,
             Owns(t, j)', Owns(u, j)'
      PROVE  t = u
  <2>1. CASE Submitting(t, j) \/ Submitting(u, j)
    <3>1. j \notin made
      BY <2>1 DEF Submitting, TabSubmits
    <3>2. Submitting(t, j) /\ Submitting(u, j)
      BY <1>2, <1>3, <1>5, <3>1
    <3>3. \A x \in Tabs : TabSubmits(x, j) => OnlyTab(x)
      BY JobMoves DEF Moves
    <3>4. t # u => tab'[u] = tab[u]
      BY <3>2, <3>3 DEF Submitting, OnlyTab
    <3>5. ~Owns(u, j)
      BY <1>2, <3>1
    <3> QED BY <1>5, <3>4, <3>5 DEF Owns, At, Has
  <2> QED BY <1>3, <1>5, <2>1 DEF OwnerInv
<1> QED BY <1>3, <1>4, <1>5 DEF OwnerInv, Copy

(* No step makes a job that may no longer be sent one that may. *)
LEMMA LiveBefore ==
    ASSUME TypeInv, LandingInv, OwnerInv, [Next]_vars,
           NEW j \in Jobs, Live(j)'
    PROVE  Live(j) /\ \A t \in Tabs : ~Repeats(t, j)
<1>1. /\ made \subseteq made' /\ OwnerInv'
      /\ \A t \in Tabs : Effect(t, j)
  BY MadeMoves, EffectStep, OwnerStep
<1>2. Live(j)
  <2>1. CASE j \notin made'
    BY <1>1, <2>1 DEF Live
  <2>2. CASE j \in made'
    <3>1. PICK t \in Tabs : \/ tab'[t].submit[j].at # "none"
                            \/ /\ j \in tab'[t].graph
                               /\ ~tab'[t].copy[j].retried
      BY <2>2 DEF Live, At, Has, Copy
    <3>2. CASE Keeps(t, j) \/ Sends(t, j) \/ Accepts(t, j)
      BY <3>1, <3>2 DEF Keeps, Sends, Accepts, Live, At, Has, Copy
    <3>3. CASE Begins(t, j) \/ Ends(t, j) \/ Repeats(t, j)
      BY <3>1, <3>3 DEF Begins, Ends, Repeats, Live
    <3>4. CASE Submitting(t, j)
      BY <3>4 DEF Submitting, TabSubmits, Live
    <3>5. CASE Retries(t, j)
      BY <3>5 DEF Retries, RetryDue, Live, Has
    <3>6. ~Forgets(t, j)
      BY <3>1 DEF Forgets
    <3> QED BY <1>1, <3>2, <3>3, <3>4, <3>5, <3>6 DEF Effect
  <2> QED BY <2>1, <2>2
<1>3. ASSUME NEW t \in Tabs, Repeats(t, j) PROVE FALSE
  <2>1. /\ Owns(t, j) /\ Has(t, j)
    BY <1>3 DEF Repeats, OwnerInv, Owns, Retrying
  <2>2. Owns(t, j)' /\ At(t, j)' = "none" /\ Copy(t, j)'.retried
    BY <1>3, <2>1 DEF Repeats, Owns, Has, At, Copy
  <2>3. j \in made'
    BY <1>1, <2>1 DEF OwnerInv
  <2>4. \A u \in Tabs \ {t} : ~Owns(u, j)'
    BY <1>1, <2>2 DEF OwnerInv
  <2> QED BY <2>2, <2>3, <2>4 DEF Live, Owns
<1> QED BY <1>2, <1>3

-----------------------------------------------------------------------------
(* The records of a job that may still be sent, its row and its reports.   *)

LEMMA FreshSets ==
    ASSUME NEW j \in Jobs
    PROVE  FreshRecords(j) \in RecordSets /\ ClosedSets(FreshRecords(j))
<1> DEFINE G == FreshRecords(j)
<1>1. G \in RecordSets
  BY DEF RecordSets, FreshRecords
<1>2. \A k \in Jobs : \A r :
         r \in G[k] <=> r \in JobRecords /\ (k = j => ~r.retried)
  BY DEF FreshRecords
<1> HIDE DEF G
<1>3. \A k \in Jobs : NoRecord \in G[k] /\ NewRecord \in G[k]
  <2>1. ~NoRecord.retried /\ ~NewRecord.retried
    BY DEF NoRecord, NewRecord
  <2> QED BY <1>2, <2>1, PlainRecords
<1>4. ASSUME NEW k \in Jobs, NEW a \in G[k]
      PROVE  /\ Cancelled(a) \in G[k] /\ Failed(a, "submit") \in G[k]
             /\ [a EXCEPT !.status = "running"] \in G[k]
  <2>1. a \in JobRecords /\ (k = j => ~a.retried)
    BY <1>2, <1>4
  <2>2. /\ Cancelled(a) \in JobRecords /\ Failed(a, "submit") \in JobRecords
        /\ [a EXCEPT !.status = "running"] \in JobRecords
    BY <2>1, WritesKeepRecords DEF Reasons
  <2>3. /\ Cancelled(a).retried = a.retried
        /\ Failed(a, "submit").retried = a.retried
        /\ [a EXCEPT !.status = "running"].retried = a.retried
    BY <2>1, WritesShow
  <2> DEFINE x == Cancelled(a)
             y == Failed(a, "submit")
             z == [a EXCEPT !.status = "running"]
  <2> HIDE DEF x, y, z
  <2>4. x \in G[k] /\ y \in G[k] /\ z \in G[k]
    BY <1>2, <2>1, <2>2, <2>3 DEF x, y, z
  <2> QED BY <2>4 DEF x, y, z
<1>5. ASSUME NEW k \in Jobs, NEW a \in G[k], NEW b \in G[k]
      PROVE  Overlay(a, b) \in G[k]
  <2>1. /\ a \in JobRecords /\ (k = j => ~a.retried)
        /\ b \in JobRecords /\ (k = j => ~b.retried)
    BY <1>2, <1>5
  <2>2. Overlay(a, b) \in JobRecords
    BY <2>1, OverlayKeepsRecords
  <2>3. a.retried \in BOOLEAN /\ b.retried \in BOOLEAN
    BY <2>1 DEF JobRecords
  <2> QED BY <1>2, <2>1, <2>2, <2>3, OverlayFields
<1> QED BY <1>1, <1>3, <1>4, <1>5 DEF ClosedSets, G

LEMMA FreshStep ==
    ASSUME TypeInv, LandingInv, [Next]_vars, NEW j \in Jobs, Fresh(j),
           \A t \in Tabs : ~RetryAnswered(t, j)
    PROVE  Fresh(j)'
<1> DEFINE G == FreshRecords(j)
<1>1. \A k \in Jobs : \A r :
         r \in G[k] <=> r \in JobRecords /\ (k = j => ~r.retried)
  BY DEF FreshRecords
<1>2. Within(G, Prompts)
  BY DEF Fresh
<1>3. G \in RecordSets /\ ClosedSets(G)
  BY FreshSets
<1> HIDE DEF G
<1>4. ObservationsIn(G, Prompts)
  <2>1. ASSUME ObservingNow, NEW o \in Observations, NEW b \in BOOLEAN
        PROVE  Reduce(Rec, o, b) \in G[watch.job] /\ Rec.prompt \in Prompts
    <3>1. watch.job \in Jobs
      BY <2>1 DEF TypeInv, VisitInv, ObservingNow
    <3>2. Rec \in G[watch.job] /\ Rec.prompt # NoPrompt
      BY <1>2, <2>1, <3>1
         DEF Within, AllIn, RowsIn, Rec, LandingInv, PassInv, ObservingNow
    <3>3. Rec \in JobRecords /\ (watch.job = j => ~Rec.retried)
      BY <1>1, <3>1, <3>2
    <3>4. /\ Reduce(Rec, o, b) \in JobRecords
          /\ Reduce(Rec, o, b).retried = Rec.retried
      BY <2>1, <3>3, ReduceFields, ReduceKeepsRecords
    <3>5. Rec.prompt \in Prompts
      BY <3>2, <3>3 DEF JobRecords
    <3> QED BY <1>1, <3>1, <3>3, <3>4, <3>5
  <2>2. ASSUME NEW k \in watch.todo
        PROVE  Reduce(watch.list[k], "unasked", TRUE) \in G[k]
    <3> DEFINE r == watch.list[k]
    <3>1. k \in Jobs /\ r \in G[k]
      BY <1>2, <2>2 DEF Within, AllIn, RowsIn, TypeInv, TypeOK, ServerTypeOK,
         Watches
    <3> HIDE DEF r
    <3>2. r \in JobRecords /\ (k = j => ~r.retried)
      BY <1>1, <3>1
    <3>3. /\ Reduce(r, "unasked", TRUE) \in JobRecords
          /\ Reduce(r, "unasked", TRUE).retried = r.retried
      BY <3>2, ReduceFields, ReduceKeepsRecords DEF Observations
    <3> QED BY <1>1, <3>1, <3>2, <3>3 DEF r
  <2> QED BY <2>1, <2>2 DEF ObservationsIn
<1>5. AnswersIn(G)
  <2> SUFFICES ASSUME NEW t \in Tabs, NEW k \in Jobs
               PROVE  /\ SubmitAnswered(t, k) =>
                            Submitted(Copy(t, k), Submit(t, k).prompt) \in G[k]
                      /\ SubmitWithdrawn(t, k) =>
                            Cancelled([Copy(t, k) EXCEPT
                                          !.prompt = Submit(t, k).prompt])
                               \in G[k]
                      /\ RetryAnswered(t, k) =>
                            Resubmitted(Copy(t, k), Submit(t, k).prompt)
                               \in G[k]
    BY DEF AnswersIn
  <2> DEFINE c == Copy(t, k)
             p == Submit(t, k).prompt
  <2>1. /\ c \in JobRecords /\ (k = j => ~c.retried)
        /\ p \in Prompts \cup {NoPrompt}
    <3>1. c \in G[k]
      BY <1>2 DEF Within, AllIn, TabsIn, TabIn, Copy
    <3>2. p \in Prompts \cup {NoPrompt}
      BY TabFields DEF TypeInv, TypeOK, Submit, Submits
    <3> QED BY <1>1, <3>1, <3>2
  <2> HIDE DEF c, p
  <2>2. /\ Submitted(c, p) \in JobRecords /\ Resubmitted(c, p) \in JobRecords
        /\ [c EXCEPT !.prompt = p] \in JobRecords
    BY <2>1, WritesKeepRecords
  <2>3. Cancelled([c EXCEPT !.prompt = p]) \in JobRecords
    BY <2>2, WritesKeepRecords
  <2>4. Submitted(c, p) \in G[k] /\ Cancelled([c EXCEPT !.prompt = p]) \in G[k]
    BY <1>1, <2>1, <2>2, <2>3, WritesShow
  <2>5. k # j => Resubmitted(c, p) \in G[k]
    BY <1>1, <2>2
  <2> QED BY <2>4, <2>5 DEF c, p
<1>6. AllIn(G, Prompts, row', watch'.list, pending', tab', line')
  BY <1>2, <1>3, <1>4, <1>5, StepWithin DEF LandingInv
<1> QED BY <1>6 DEF Fresh, Within, G

(* A row changes by the guarded upsert only. *)
LEMMA RowMoves ==
    ASSUME TypeInv, [Next]_vars, NEW j \in Jobs
    PROVE  row'[j] = row[j] \/ \E r : row'[j] = Upsert(row[j], r)
<1>1. row \in [Jobs -> JobRecords]
  BY DEF TypeInv, TypeOK, ServerTypeOK, Rows
<1>2. ASSUME NEW k, NEW r, row' = [row EXCEPT ![k] = Upsert(row[k], r)]
      PROVE  row'[j] = row[j] \/ \E x : row'[j] = Upsert(row[j], x)
  BY <1>1, <1>2
<1>3. ASSUME NEW o, Observed(o)
      PROVE  row'[j] = row[j] \/ \E x : row'[j] = Upsert(row[j], x)
  BY <1>2, <1>3 DEF Observed
<1>4. CASE HistoryAnswers \/ Ingests
  <2>1. row' = row \/ \E o : Observed(o)
    BY <1>4 DEF HistoryAnswers, Ingests, ObservesHistory, ObservesSilence,
       ObservesAbsence
  <2> QED BY <1>3, <2>1
<1>5. ASSUME NEW k \in Jobs, ObserveVisits(k)
      PROVE  row'[j] = row[j] \/ \E x : row'[j] = Upsert(row[j], x)
  BY <1>2, <1>5 DEF ObserveVisits
<1>6. ASSUME NEW t \in Tabs, PostArrives(t)
      PROVE  row'[j] = row[j] \/ \E x : row'[j] = Upsert(row[j], x)
  BY <1>6 DEF PostArrives
<1>7. CASE ServerStep
  <2>1. \/ HistoryAnswers \/ Ingests \/ row' = row
        \/ \E k \in Jobs : ObserveVisits(k)
    BY <1>7 DEF ServerStep, WatcherStep, TimePasses, Tick, Lists,
       QueueAnswers, DrainBegins, SweepEnds, RecoverVisits, DrainVisits,
       OutputLands, OutputUnfetched, LandingOnly, GraceEnds, JobAges,
       OrphanAges, TimeOnly, Crash, Boot, storeVars, EngineStep
  <2> QED BY <1>4, <1>5, <2>1
<1>8. ASSUME NEW t \in Tabs, TabStep(t) PROVE PostArrives(t) \/ row' = row
  BY <1>8 DEF TabStep, TabFetches, TabApplies, TabCloses, TabPosts,
     TabStirs, PostLost, EnvelopeArrives, EnvelopesLost, ButLine, TabOnly,
     serverVars, storeVars
<1>9. ASSUME NEW t \in Tabs, NEW k \in Jobs, JobOnTabStep(t, k)
      PROVE  row' = row
  BY <1>9, JobStepQuiet
<1>10. UserTrashes \/ UNCHANGED vars => row' = row
  BY DEF UserTrashes, vars, serverVars, storeVars
<1> QED BY <1>6, <1>7, <1>8, <1>9, <1>10 DEF Next

(* The watcher takes a job up again only when it lists it as active. *)
LEMMA ObservingBefore ==
    ASSUME TypeInv, [Next]_vars, NEW j \in Jobs, Observing(j)'
    PROVE  Observing(j) \/ Active(row[j])
<1>1. watch \in Watches /\ WatchMove
  BY WatchMoveStep DEF TypeInv, TypeOK, ServerTypeOK
<1>2. CASE watch' = watch \/ AwaitsIngest \/ Fetches \/ QueueAnswers
  <2>1. /\ watch'.pass = watch.pass /\ watch'.todo = watch.todo
        /\ watch'.job = watch.job
    BY <1>1, <1>2 DEF AwaitsIngest, Fetches, QueueAnswers, Watches
  <2> QED BY <2>1 DEF Observing
<1>3. CASE Turns
  <2>1. /\ watch'.pass = watch.pass /\ watch'.todo = watch.todo
        /\ watch'.job = NoJob
    BY <1>1, <1>3 DEF Turns, Turn, Watches
  <2> QED BY <2>1, NoJobAssumption DEF Observing
<1>4. ASSUME NEW k \in Jobs, VisitsOne(k) \/ SkipsOne(k) PROVE Observing(j)
  <2>1. /\ watch'.pass = watch.pass /\ k \in watch.todo
        /\ watch'.todo = watch.todo \ {k}
        /\ watch'.job \in {k, watch.job}
    BY <1>1, <1>4 DEF VisitsOne, SkipsOne, Visits, Skips, Watches
  <2> QED BY <2>1 DEF Observing
<1>5. CASE Restarts
  BY <1>5, NoJobAssumption DEF Restarts, Observing, ActiveJobs
<1> QED BY <1>1, <1>2, <1>3, <1>4, <1>5 DEF WatchMove

(* What is concluded stays so while no record of the job is retried. *)
LEMMA ConcludedStays ==
    ASSUME TypeInv, [Next]_vars, NEW j \in Jobs, Concluded(j), Fresh(j)'
    PROVE  Concluded(j)'
<1>1. Settled(row'[j])
  <2>1. ~row'[j].retried
    BY DEF Fresh, Within, AllIn, RowsIn, FreshRecords
  <2>2. row'[j] = row[j] \/ \E r : row'[j] = Upsert(row[j], r)
    BY RowMoves
  <2> QED BY <2>1, <2>2 DEF Upsert, Resubmission, Concluded, Settled
<1>2. ~Observing(j)'
  BY ObservingBefore DEF Concluded, Settled, Active, SettledStatuses,
     ActiveStatuses
<1> QED BY <1>1, <1>2 DEF Concluded, Settled

(* The envelopes under way to a tab: only an observation that settles the  *)
(* row reports an error.                                                   *)
ErrorSeen ==
    /\ ObservingNow /\ watch' = Turn /\ tab' = tab
    /\ Settled(row'[watch.job])

SentMove(t) ==
    \/ line'[t].sent \in {line[t].sent, <<>>}
    \/ EnvelopeArrives(t) /\ line'[t].sent = Tail(line[t].sent)
    \/ \E e \in Envelopes :
          /\ line'[t].sent = Append(line[t].sent, e)
          /\ e.error => ErrorSeen /\ e.job = watch.job

LEMMA EmitSent ==
    ASSUME TypeInv, NEW j \in Jobs, NEW r \in JobRecords,
           NEW o \in {"completed", "failed"}, NEW b \in BOOLEAN,
           Emit(j, o, b, r), b => ErrorSeen /\ j = watch.job, NEW t \in Tabs
    PROVE  SentMove(t)
<1> DEFINE e == [job |-> j, outcome |-> o, error |-> b, rec |-> r]
<1>1. line[t] \in Lines
  BY DEF TypeInv, TypeOK, ServerTypeOK
<1>2. e \in Envelopes /\ e.job = j
  BY DEF Envelopes
<1>3. e.error = b
  OBVIOUS
<1>4. line'[t] = Sent(line[t], e)
  BY DEF Emit
<1> HIDE DEF e
<1>5. line'[t].sent = line[t].sent \/ line'[t].sent = Append(line[t].sent, e)
  BY <1>1, <1>4 DEF Sent, Lines
<1> QED BY <1>2, <1>3, <1>5 DEF SentMove

LEMMA LandsSent ==
    ASSUME TypeInv, NEW j \in Jobs, NEW r \in JobRecords,
           LandingFails(j, r) \/ (\E saw : Lands(j, r, saw)), NEW t \in Tabs
    PROVE  SentMove(t)
<1>1. line' = line \/ Announces(j, r)
  <2>1. LandingFails(j, r) => line' = line \/ Announces(j, r)
    BY DEF LandingFails, DrainFails, FirstLandingFails
  <2>2. ASSUME NEW saw, Lands(j, r, saw)
        PROVE  line' = line \/ Announces(j, r)
    <3>1. LandingOf(j, r, saw)
             \in {"note", "deferred", "landed", "append", "error", "fetch"}
      BY DEF LandingOf
    <3> QED BY <2>1, <2>2, <3>1 DEF Lands, LandingNoted, LandingDeferred,
               LandingSettles
  <2> QED BY <2>1, <2>2
<1>2. CASE line' = line
  BY <1>2 DEF SentMove
<1>3. CASE Announces(j, r)
  BY <1>3, EmitSent DEF Announces
<1> QED BY <1>1, <1>2, <1>3

LEMMA ObservedSent ==
    ASSUME TypeInv, PassInv, ObservingNow, tab' = tab,
           NEW o \in Observations, Observed(o), NEW t \in Tabs
    PROVE  SentMove(t)
<1> DEFINE j == watch.job
           b == j \in late
           r == Reduce(Rec, o, b)
<1>1. /\ j \in Jobs /\ Rec \in JobRecords /\ Active(Rec)
      /\ b \in BOOLEAN /\ row \in [Jobs -> JobRecords]
  BY DEF TypeInv, VisitInv, TypeOK, ServerTypeOK, Watches, Rows, Rec, PassInv,
     ObservingNow
<1>2. r \in JobRecords
  BY <1>1, ReduceKeepsRecords
<1>3. /\ row' = IF r = Rec THEN row
                ELSE [row EXCEPT ![j] = Upsert(row[j], r)]
      /\ r.status = "completed" => Lands(j, r, "done")
      /\ r.status = "failed" =>
            Emit(j, "failed", o = "error", r) /\ watch' = Turn
      /\ r.status \notin {"completed", "failed"} => line' = line
  BY DEF Observed
<1> HIDE DEF r, b
<1>4. CASE r.status = "completed"
  BY <1>1, <1>2, <1>3, <1>4, LandsSent
<1>5. CASE r.status = "failed"
  <2>1. Settled(r) /\ r # Rec
    BY <1>1, <1>5 DEF Settled, SettledStatuses, Active, ActiveStatuses
  <2>2. row'[j] = r
    BY <1>1, <1>3, <2>1 DEF Upsert
  <2>3. ErrorSeen
    BY <1>3, <1>5, <2>1, <2>2 DEF ErrorSeen
  <2>4. (o = "error") \in BOOLEAN
    OBVIOUS
  <2> QED BY <1>1, <1>2, <1>3, <1>5, <2>3, <2>4, EmitSent
<1>6. CASE r.status \notin {"completed", "failed"}
  BY <1>3, <1>6 DEF SentMove
<1> QED BY <1>4, <1>5, <1>6

LEMMA SentStep ==
    ASSUME TypeInv, PassInv, [Next]_vars, NEW t \in Tabs
    PROVE  SentMove(t)
<1>1. line[t] \in Lines
  BY DEF TypeInv, TypeOK, ServerTypeOK
<1>2. line' = line => SentMove(t)
  BY DEF SentMove
<1>3. watch.at \in {"history", "ingest", "land"} =>
         watch.job \in Jobs /\ Rec \in JobRecords
  BY DEF TypeInv, VisitInv, TypeOK, ServerTypeOK, Watches, Rows, Rec
<1>4. CASE ServerStep /\ tab' = tab
  <2>1. CASE HistoryAnswers
    <3>1. watch.at = "history"
      BY <2>1 DEF HistoryAnswers
    <3>2. CASE watch.pass = "observe"
      BY <1>2, <1>4, <2>1, <3>1, <3>2, HistoryIsTruthful, ObservedSent
         DEF ObservingNow
    <3>3. CASE watch.pass # "observe"
      BY <1>3, <2>1, <3>1, <3>3, LandsSent DEF HistoryAnswers
    <3> QED BY <3>2, <3>3
  <2>2. CASE Ingests
    <3>1. ObservingNow
      BY <2>2 DEF Ingests, PassInv, ObservingNow
    <3> QED BY <1>4, <2>2, <3>1, ObservedSent DEF Ingests, Observations
  <2>3. CASE OutputLands
    BY <1>3, <2>3, EmitSent DEF OutputLands, LandingSettles, Announces
  <2>4. CASE OutputUnfetched
    BY <1>3, <2>4, LandsSent DEF OutputUnfetched
  <2>5. CASE Crash
    BY <1>1, <2>5 DEF Crash, SentMove, Lines
  <2>6. CASE ~(HistoryAnswers \/ Ingests \/ OutputLands \/ OutputUnfetched
               \/ Crash)
    <3>1. line' = line
      BY <1>4, <2>6 DEF ServerStep, WatcherStep, TimePasses, Tick, Lists,
         QueueAnswers, DrainBegins, SweepEnds, RecoverVisits, ObserveVisits,
         DrainVisits, PassOnly, GraceEnds, JobAges, OrphanAges, TimeOnly,
         Boot, EngineStep
    <3> QED BY <1>2, <3>1
  <2> QED BY <2>1, <2>2, <2>3, <2>4, <2>5, <2>6
<1>5. ASSUME NEW u \in Tabs, TabStep(u) PROVE SentMove(t)
  <2>1. CASE u = t
    BY <1>5, <2>1, LineMoves DEF TabStep, SentMove
  <2>2. CASE u # t
    <3>1. line'[t].sent = line[t].sent
      BY <1>5, <2>2, LineMoves DEF TabStep
    <3> QED BY <3>1 DEF SentMove
  <2> QED BY <2>1, <2>2
<1>6. ASSUME NEW u \in Tabs, NEW k \in Jobs, JobOnTabStep(u, k)
      PROVE  SentMove(t)
  BY <1>2, <1>6, JobStepQuiet
<1>7. UserTrashes \/ UNCHANGED vars => line' = line
  BY DEF UserTrashes, vars, serverVars
<1> QED BY <1>2, <1>4, <1>5, <1>6, <1>7 DEF Next

(* What the engine reports of a job it has not been asked for twice.  A    *)
(* report that is appended is the only one, for the watcher observed the   *)
(* job until now; one that arrives is used up.                             *)
LEMMA FreshInvStep ==
    ASSUME TypeInv, LandingInv, OwnerInv, FreshInv, [Next]_vars
    PROVE  FreshInv'
<1> SUFFICES ASSUME NEW j \in Jobs, Live(j)'
             PROVE  /\ Fresh(j)'
                    /\ \A t \in Tabs : /\ Retrying(t, j)' => Concluded(j)'
                                       /\ OneReport(t, j)'
  BY DEF FreshInv
<1>1. /\ Live(j) /\ Fresh(j)
      /\ \A t \in Tabs : ~Repeats(t, j) /\ Effect(t, j)
      /\ \A t \in Tabs : (Retrying(t, j) => Concluded(j)) /\ OneReport(t, j)
  BY LiveBefore, EffectStep DEF FreshInv
<1>2. Fresh(j)'
  <2>1. ASSUME NEW t \in Tabs, RetryAnswered(t, j) PROVE FALSE
    <3>1. At(t, j) = "reaccepted"
      BY <2>1 DEF RetryAnswered, Submit, At
    <3>2. Repeats(t, j)
      <4>1. Moves(t, j, Resubmitted(Copy(t, j), Submit(t, j).prompt), NoSubmit,
                  tab[t].graph)
        BY <2>1, JobMoves
      <4>2. Copy(t, j) \in JobRecords
        BY TabFields DEF TypeInv, TypeOK, Rows, Copy
      <4> QED BY <2>1, <3>1, <4>1, <4>2, MovesShow, WritesShow
              DEF Repeats, Has, NoSubmit
    <3> QED BY <1>1, <3>2
  <2> QED BY <1>1, <2>1, FreshStep
<1>3. Concluded(j) => Concluded(j)'
  BY <1>2, ConcludedStays
<1>4. ASSUME NEW t \in Tabs
      PROVE  /\ line[t].sent \in Seq(Envelopes)
             /\ Retrying(t, j)' => Retrying(t, j) \/ Retries(t, j)
  <2>1. line[t].sent \in Seq(Envelopes)
    BY DEF TypeInv, TypeOK, ServerTypeOK, Lines
  <2>2. CASE Keeps(t, j) \/ Submitting(t, j) \/ Sends(t, j) \/ Accepts(t, j)
    BY <2>1, <2>2 DEF Keeps, Submitting, Sends, Accepts, Retrying, At
  <2>3. CASE Begins(t, j) \/ Ends(t, j) \/ Forgets(t, j)
    BY <2>1, <2>3 DEF Begins, Ends, Forgets, Retrying, At
  <2> QED BY <1>1, <2>1, <2>2, <2>3 DEF Effect
<1>5. ASSUME NEW t \in Tabs, Retries(t, j)
      PROVE  /\ line[t].sent # <<>> /\ Reports(line[t].sent[1], j)
             /\ Concluded(j) /\ line'[t].sent = Tail(line[t].sent)
             /\ \A k \in 1 .. Len(line[t].sent) :
                   Reports(line[t].sent[k], j) => k = 1
  <2>1. /\ line[t].sent # <<>> /\ Reports(Head(line[t].sent), j)
        /\ line'[t].sent = Tail(line[t].sent)
    BY <1>5, LineMoves DEF Retries, RetryDue, Reports
  <2>2. 1 \in 1 .. Len(line[t].sent) /\ Head(line[t].sent) = line[t].sent[1]
    BY <1>4, <2>1
  <2> QED BY <1>1, <2>1, <2>2 DEF OneReport
<1>6. ASSUME NEW t \in Tabs
      PROVE  Retrying(t, j)' => Concluded(j)'
  BY <1>1, <1>3, <1>4, <1>5
<1>7. ASSUME NEW t \in Tabs
      PROVE  OneReport(t, j)'
  <2> DEFINE s == line[t].sent
             z == line'[t].sent
  <2>1. s \in Seq(Envelopes) /\ SentMove(t)
    BY <1>4, SentStep DEF LandingInv
  <2>2. \A i \in 1 .. Len(s) : Reports(s[i], j) =>
           /\ Concluded(j)' /\ ~Retrying(t, j)
           /\ \A k \in 1 .. Len(s) : Reports(s[k], j) => k = i
    BY <1>1, <1>3 DEF OneReport
  <2> SUFFICES ASSUME NEW i \in 1 .. Len(z), Reports(z[i], j)
               PROVE  /\ Concluded(j)' /\ ~Retrying(t, j)'
                      /\ \A k \in 1 .. Len(z) : Reports(z[k], j) => k = i
    BY DEF OneReport, Reports
  <2> HIDE DEF s, z
  <2>3. CASE z = s
    <3>1. ~Retries(t, j)
      <4>1. ASSUME Retries(t, j) PROVE FALSE
        <5>1. s # <<>>
          BY <1>5, <4>1 DEF s
        <5>2. Len(Tail(s)) = Len(s) - 1 /\ Len(s) \in Nat
          BY <2>1, <5>1
        <5>3. z = Tail(s)
          BY <1>5, <4>1 DEF s, z
        <5>4. Len(z) = Len(s) - 1
          BY <5>2, <5>3
        <5>5. Len(z) = Len(s)
          BY <2>3
        <5> QED BY <5>2, <5>4, <5>5
      <4> QED BY <4>1
    <3> QED BY <1>4, <2>2, <2>3, <3>1
  <2>4. CASE z = <<>>
    BY <2>4
  <2>5. CASE z = Tail(s) /\ EnvelopeArrives(t)
    <3>1. s # <<>>
      BY <2>5 DEF EnvelopeArrives, s
    <3>2. /\ Len(z) = Len(s) - 1 /\ Len(s) \in Nat
          /\ \A k \in 1 .. Len(z) : z[k] = s[k + 1] /\ k + 1 \in 1 .. Len(s)
      BY <2>1, <2>5, <3>1
    <3>3. ~Retries(t, j)
      BY <1>5, <3>2 DEF s
    <3> QED BY <1>4, <2>2, <3>2, <3>3
  <2>6. ASSUME NEW e \in Envelopes, z = Append(s, e),
               e.error => ErrorSeen /\ e.job = watch.job
        PROVE  /\ Concluded(j)' /\ ~Retrying(t, j)'
               /\ \A k \in 1 .. Len(z) : Reports(z[k], j) => k = i
    <3> DEFINE n == Len(s)
    <3>1. /\ n \in Nat /\ Len(z) = n + 1 /\ z[n + 1] = e
          /\ \A k \in 1 .. n : z[k] = s[k]
          /\ \A k \in 1 .. n + 1 : k \in 1 .. n \/ k = n + 1
      BY <2>1, <2>6
    <3> HIDE DEF n
    <3>2. CASE Reports(e, j)
      <4>1. ErrorSeen /\ watch.job = j
        BY <2>6, <3>2 DEF Reports
      <4>2. Observing(j)
        BY <4>1 DEF ErrorSeen, ObservingNow, Observing
      <4>3. \A k \in 1 .. n : ~Reports(s[k], j)
        BY <1>1, <4>2 DEF OneReport, Concluded, s, n
      <4>4. \A u \in Tabs : ~Retrying(u, j)
        BY <1>1, <4>2 DEF Concluded
      <4>5. ~Retrying(t, j)'
        BY <4>1, <4>4 DEF ErrorSeen, Retrying, At
      <4>6. Concluded(j)'
        <5>1. /\ watch'.todo = watch.todo /\ watch'.job = NoJob
              /\ Settled(row'[j])
          BY <4>1 DEF ErrorSeen, Turn, TypeInv, TypeOK, ServerTypeOK, Watches
        <5>2. j \notin watch.todo
          BY <4>1 DEF ErrorSeen, ObservingNow, LandingInv, PassInv
        <5> QED BY <5>1, <5>2, NoJobAssumption
                DEF Concluded, Observing, Settled
      <4>7. \A k \in 1 .. n + 1 : Reports(z[k], j) => k = n + 1
        BY <3>1, <4>3
      <4> QED BY <3>1, <4>5, <4>6, <4>7
    <3>3. CASE ~Reports(e, j)
      <4>1. ~Retries(t, j)
        <5>1. ASSUME Retries(t, j) PROVE FALSE
          <6>1. s # <<>> /\ z = Tail(s)
            BY <1>5, <5>1 DEF s, z
          <6>2. Len(Tail(s)) = n - 1
            BY <2>1, <6>1 DEF n
          <6> QED BY <3>1, <6>1, <6>2
        <5> QED BY <5>1
      <4>2. i \in 1 .. n
        BY <3>1, <3>3
      <4> QED BY <1>4, <2>2, <3>1, <3>3, <4>1, <4>2 DEF n
    <3> QED BY <3>2, <3>3
  <2> QED BY <2>1, <2>3, <2>4, <2>5, <2>6 DEF SentMove, s, z
<1> QED BY <1>2, <1>6, <1>7

-----------------------------------------------------------------------------
(* What was asked of the engine.                                           *)

LEMMA AskMoves ==
    ASSUME TypeInv, LandingInv, NEW t \in Tabs, NEW j \in Jobs,
           NEW p \in Prompts, PromptAccepted(t, j, p)
    PROVE  /\ At(t, j) \in {"sent", "freeing"}
           /\ promptOf' = [promptOf EXCEPT ![p] = j]
           /\ promptOf[p] = NoJob /\ promptOf'[p] = j
           /\ p \notin PromptsOf(j) /\ PromptsOf(j)' = PromptsOf(j) \cup {p}
           /\ \A k \in Jobs \ {j} : PromptsOf(k)' = PromptsOf(k)
           /\ takes' = takes
<1>1. /\ At(t, j) \in {"sent", "freeing"} /\ takes' = takes
      /\ promptOf' = [promptOf EXCEPT ![p] = j] /\ prompt[p] = "free"
  BY DEF PromptAccepted, E!AcceptPrompt, Submit, At, storeVars
<1>2. promptOf[p] = NoJob /\ promptOf \in [Prompts -> Jobs \cup {NoJob}]
  BY <1>1 DEF LandingInv, EngineInv, TypeInv, TypeOK, ServerTypeOK,
     E!EngineTypeOK
<1>3. /\ promptOf'[p] = j
      /\ \A q \in Prompts \ {p} : promptOf'[q] = promptOf[q]
  BY <1>1, <1>2
<1> QED BY <1>1, <1>2, <1>3, NoJobAssumption DEF PromptsOf

LEMMA RequestStep ==
    ASSUME TypeInv, LandingInv, OwnerInv, FreshInv, RequestInv, [Next]_vars
    PROVE  RequestInv'
<1>1. /\ made \subseteq made' /\ OwnerInv'
      /\ \A t \in Tabs, j \in Jobs : Effect(t, j)
  BY MadeMoves, EffectStep, OwnerStep
<1>2. ASSUME NEW t \in Tabs, NEW j \in Jobs, Retries(t, j)
      PROVE  Once(j)
  <2> DEFINE s == line[t].sent
             e == Head(s)
  <2>1. EnvelopeArrives(t) /\ RetryDue(t, e) /\ e.job = j
    BY <1>2 DEF Retries
  <2>2. s \in Seq(Envelopes) /\ s # <<>>
    BY <2>1, LineMoves
  <2> HIDE DEF s
  <2>3. 1 \in 1 .. Len(s) /\ e = s[1]
    BY <2>2
  <2>4. Live(j)
    BY <2>1 DEF RetryDue, Live, Has
  <2>5. ~Retrying(t, j)
    <3>1. Reports(s[1], j)
      BY <2>1, <2>3 DEF RetryDue, Reports
    <3> QED BY <2>3, <2>4, <3>1 DEF FreshInv, OneReport, s
  <2>6. MayRetry(t, j)
    BY <2>1, <2>5 DEF RetryDue, MayRetry, OwnerInv, Has, At
  <2> QED BY <2>6 DEF RequestInv
<1>3. ASSUME NEW t \in Tabs, NEW j \in Jobs, PromptsOf(j)' = PromptsOf(j)
      PROVE  /\ At(t, j)' \in {"uploads", "sent"} => PromptsOf(j)' = {}
             /\ At(t, j)' \in {"accepted", "freeing"} => Once(j)'
                                                        \/ Accepts(t, j)
             /\ MayRetry(t, j)' => Once(j)'
  <2>1. Once(j)' <=> Once(j)
    BY <1>3 DEF Once
  <2>2. /\ At(t, j) \in {"uploads", "sent"} => PromptsOf(j) = {}
        /\ At(t, j) \in {"accepted", "freeing"} => Once(j)
        /\ MayRetry(t, j) => Once(j)
        /\ Has(t, j) => tab[t].copy[j].status # "none"
        /\ j \notin made => PromptsOf(j) = {}
    BY DEF RequestInv, OwnerInv, Owns, Copy
  <2>3. CASE Keeps(t, j)
    <3>1. MayRetry(t, j)' => MayRetry(t, j)
      BY <2>2, <2>3 DEF Keeps, MayRetry, At, Has, Copy, Active
    <3> QED BY <1>3, <2>1, <2>2, <2>3, <3>1 DEF Keeps, At
  <2>4. CASE Submitting(t, j)
    BY <1>3, <2>2, <2>4 DEF Submitting, TabSubmits, At, MayRetry
  <2>5. CASE Sends(t, j)
    BY <1>3, <2>2, <2>5 DEF Sends, At, MayRetry
  <2>6. CASE Accepts(t, j)
    BY <2>6 DEF Accepts, At, MayRetry
  <2>7. CASE Begins(t, j)
    BY <2>1, <2>2, <2>7 DEF Begins, At
  <2>8. CASE Ends(t, j)
    BY <2>8 DEF Ends, At, MayRetry, Copy, Active
  <2>9. CASE Repeats(t, j)
    BY <2>9 DEF Repeats, At, MayRetry, Copy
  <2>10. CASE Forgets(t, j)
    BY <2>10 DEF Forgets, At, Has, MayRetry
  <2>11. CASE Retries(t, j)
    BY <1>2, <2>1, <2>11 DEF Retries, At, MayRetry
  <2> QED BY <1>1, <2>3, <2>4, <2>5, <2>6, <2>7, <2>8, <2>9, <2>10, <2>11
          DEF Effect
<1>4. CASE promptOf' = promptOf
  <2>1. \A j \in Jobs : PromptsOf(j)' = PromptsOf(j)
    BY <1>4 DEF PromptsOf
  <2>2. ASSUME NEW t \in Tabs, NEW j \in Jobs PROVE ~Accepts(t, j)
    <3>1. ASSUME NEW p \in Prompts, PromptAccepted(t, j, p) PROVE FALSE
      BY <1>4, <3>1, AskMoves, NoJobAssumption
    <3> QED BY <3>1 DEF Accepts
  <2> QED BY <1>1, <1>3, <2>1, <2>2 DEF RequestInv
<1>5. ASSUME NEW t \in Tabs, NEW j \in Jobs, NEW p \in Prompts,
             PromptAccepted(t, j, p)
      PROVE  RequestInv'
  <2>1. /\ At(t, j) \in {"sent", "freeing"}
        /\ PromptsOf(j)' = PromptsOf(j) \cup {p}
        /\ \A k \in Jobs \ {j} : PromptsOf(k)' = PromptsOf(k)
    BY <1>5, AskMoves
  <2>2. j \in made /\ Owns(t, j)
    BY <2>1 DEF Owns, OwnerInv
  <2>3. PromptsOf(j) = {} \/ Once(j)
    BY <2>1 DEF RequestInv
  <2>4. At(t, j) = "sent" => PromptsOf(j)' = {p}
    BY <2>1 DEF RequestInv
  <2>5. \A k \in Jobs \ made' : PromptsOf(k)' = {}
    BY <1>1, <2>1, <2>2 DEF RequestInv
  <2>6. \A k \in Jobs : \E q, r \in Prompts \cup {NoPrompt} :
           PromptsOf(k)' \subseteq {q, r}
    BY <2>1, <2>3 DEF RequestInv, Once
  <2>7. ASSUME NEW u \in Tabs, NEW k \in Jobs
        PROVE  /\ At(u, k)' \in {"uploads", "sent"} => PromptsOf(k)' = {}
               /\ At(u, k)' \in {"accepted", "freeing"} => Once(k)'
               /\ MayRetry(u, k)' => Once(k)'
    <3>1. \A x \in Tabs, y \in Jobs : Accepts(x, y) => y = j
      <4>1. ASSUME NEW x \in Tabs, NEW y \in Jobs, NEW q \in Prompts,
                   PromptAccepted(x, y, q)
            PROVE  y = j
        BY <1>5, <4>1, AskMoves, NoJobAssumption
      <4> QED BY <4>1 DEF Accepts
    <3>2. CASE k # j
      BY <1>3, <2>1, <3>1, <3>2
    <3>3. CASE k = j /\ u = t
      <4>1. \/ At(t, j) = "sent" /\ At(t, j)' = "accepted"
            \/ At(t, j) = "freeing" /\ At(t, j)' = "reaccepted"
        BY <1>5, AcceptStep DEF Accepts, At
      <4> QED BY <2>4, <3>3, <4>1 DEF Once, MayRetry
    <3>4. CASE k = j /\ u # t
      <4>1. Owns(t, j)'
        BY <1>5, AcceptStep DEF Accepts, Owns, At
      <4>2. ~Owns(u, j)'
        BY <1>1, <3>4, <4>1 DEF OwnerInv
      <4> QED BY <3>4, <4>2 DEF Owns, MayRetry
    <3> QED BY <3>2, <3>3, <3>4
  <2> QED BY <2>5, <2>6, <2>7 DEF RequestInv
<1> QED BY <1>4, <1>5, EngineMoves

-----------------------------------------------------------------------------
(* A failed prompt renders nothing any more.                               *)

LEMMA UnfinishedSets ==
    ASSUME NEW p \in Prompts
    PROVE  Unfinished(p) \in RecordSets /\ ClosedSets(Unfinished(p))
<1> DEFINE G == Unfinished(p)
<1>1. G \in RecordSets
  BY DEF RecordSets, Unfinished
<1>2. \A k \in Jobs : \A r :
         r \in G[k] <=> /\ r \in JobRecords
                        /\ r.status = "completed" => r.prompt \in Prompts \ {p}
  BY DEF Unfinished
<1> HIDE DEF G
<1>3. \A k \in Jobs : NoRecord \in G[k] /\ NewRecord \in G[k]
  <2>1. NoRecord.status = "none" /\ NewRecord.status = "queued"
    BY DEF NoRecord, NewRecord
  <2> QED BY <1>2, <2>1, PlainRecords
<1>4. ASSUME NEW k \in Jobs, NEW a \in G[k]
      PROVE  /\ Cancelled(a) \in G[k] /\ Failed(a, "submit") \in G[k]
             /\ [a EXCEPT !.status = "running"] \in G[k]
  <2>1. a \in JobRecords
    BY <1>2, <1>4
  <2>2. /\ Cancelled(a) \in JobRecords /\ Failed(a, "submit") \in JobRecords
        /\ [a EXCEPT !.status = "running"] \in JobRecords
    BY <2>1, WritesKeepRecords DEF Reasons
  <2>3. /\ Cancelled(a).status = "cancelled"
        /\ Failed(a, "submit").status = "failed"
        /\ [a EXCEPT !.status = "running"].status = "running"
    BY <2>1, WritesShow
  <2> DEFINE x == Cancelled(a)
             y == Failed(a, "submit")
             z == [a EXCEPT !.status = "running"]
  <2> HIDE DEF x, y, z
  <2>4. x \in G[k] /\ y \in G[k] /\ z \in G[k]
    BY <1>2, <2>2, <2>3 DEF x, y, z
  <2> QED BY <2>4 DEF x, y, z
<1>5. ASSUME NEW k \in Jobs, NEW a \in G[k], NEW b \in G[k]
      PROVE  Overlay(a, b) \in G[k]
  <2>1. /\ a \in JobRecords /\ b \in JobRecords
        /\ b.status = "completed" => b.prompt \in Prompts \ {p}
    BY <1>2, <1>5
  <2>2. Overlay(a, b) \in JobRecords
    BY <2>1, OverlayKeepsRecords
  <2>3. /\ Overlay(a, b).status = b.status
        /\ b.prompt # NoPrompt => Overlay(a, b).prompt = b.prompt
    BY DEF Overlay
  <2> QED BY <1>2, <2>1, <2>2, <2>3, NoPromptAssumption
<1> QED BY <1>1, <1>3, <1>4, <1>5 DEF ClosedSets, G

LEMMA UnfinishedObservations ==
    ASSUME TypeInv, LandingInv, NEW p \in Told(promptEnd), Unrendered(p)
    PROVE  ObservationsIn(Unfinished(p), Prompts)
<1> DEFINE G == Unfinished(p)
<1>1. /\ p \in Prompts /\ promptEnd[p] \in Errored
      /\ RowsIn(G, watch.list)
      /\ ~(watch.at = "ingest" /\ Rec.prompt = p)
  BY DEF Told, Unrendered, Within, AllIn
<1>2. \A k \in Jobs : \A r :
         r \in G[k] <=> /\ r \in JobRecords
                        /\ r.status = "completed" => r.prompt \in Prompts \ {p}
  BY DEF Unfinished
<1> HIDE DEF G
<1>3. ASSUME ObservingNow, NEW o \in Observations, NEW b \in BOOLEAN,
             Truthful(o)
      PROVE  Reduce(Rec, o, b) \in G[watch.job] /\ Rec.prompt \in Prompts
  <2>1. watch.job \in Jobs
    BY <1>3 DEF TypeInv, VisitInv, ObservingNow
  <2>2. /\ Rec \in JobRecords /\ Active(Rec) /\ Rec.prompt \in Prompts
    <3>1. Rec \in JobRecords
      BY <1>1, <1>2, <2>1 DEF RowsIn, Rec
    <3> QED BY <1>3, <3>1 DEF LandingInv, PassInv, ObservingNow, JobRecords
  <2> DEFINE n == Reduce(Rec, o, b)
  <2>3. /\ n \in JobRecords /\ n.prompt = Rec.prompt
        /\ n.status = "completed" =>
              Rec.status = "completed" \/ o \in {"here", "remote"}
    BY <2>2, ReduceFields, ReduceKeepsRecords
  <2> HIDE DEF n
  <2>4. Rec.status # "completed"
    BY <2>2 DEF Active, ActiveStatuses
  <2>5. o \in {"here", "remote"} => Rec.prompt # p
    BY <1>1, <1>3 DEF Truthful, Errored, LandingInv, EngineInv
  <2> QED BY <1>2, <2>1, <2>2, <2>3, <2>4, <2>5 DEF n
<1>4. ASSUME OnPass("observe"), NEW k \in watch.todo
      PROVE  Reduce(watch.list[k], "unasked", TRUE) \in G[k]
  <2> DEFINE r == watch.list[k]
             n == Reduce(r, "unasked", TRUE)
  <2>1. k \in Jobs /\ r \in JobRecords /\ Active(r)
    BY <1>1, <1>2, <1>4 DEF RowsIn, TypeInv, TypeOK, ServerTypeOK, Watches,
       OnPass, LandingInv, PassInv
  <2> HIDE DEF r
  <2>2. n \in JobRecords /\ (n.status = "completed" => r.status = "completed")
    BY <2>1, ReduceFields, ReduceKeepsRecords DEF Observations
  <2> HIDE DEF n
  <2>3. n.status # "completed"
    BY <2>1, <2>2 DEF Active, ActiveStatuses
  <2> QED BY <1>2, <2>1, <2>2, <2>3 DEF n, r
<1> QED BY <1>3, <1>4 DEF ObservationsIn, G

LEMMA BarrenStays ==
    ASSUME TypeInv, LandingInv, [Next]_vars
    PROVE  Barren \subseteq Barren'
<1> SUFFICES ASSUME NEW p \in Told(promptEnd), Unrendered(p)
             PROVE  p \in Told(promptEnd)' /\ Unrendered(p)'
  BY DEF Barren
<1> DEFINE G == Unfinished(p)
<1>1. p \in Prompts /\ promptEnd[p] \in Errored /\ promptEnd'[p] \in Errored
  <2>1. p \in Prompts /\ promptEnd[p] \in Errored
    BY DEF Told
  <2>2. PromptMoves(p) /\ (prompt[p] = "closing" => promptEnd[p] = "none")
    BY <2>1, EngineMoves DEF LandingInv, EngineInv
  <2> QED BY <2>1, <2>2 DEF PromptMoves, Errored
<1>2. Within(G, Prompts) /\ ObservationsIn(G, Prompts)
  BY UnfinishedObservations DEF Unrendered
<1>3. G \in RecordSets /\ ClosedSets(G)
  BY <1>1, UnfinishedSets
<1>4. \A k \in Jobs : \A r :
         r \in G[k] <=> /\ r \in JobRecords
                        /\ r.status = "completed" => r.prompt \in Prompts \ {p}
  BY DEF Unfinished
<1> HIDE DEF G
<1>5. AnswersIn(G)
  <2> SUFFICES ASSUME NEW t \in Tabs, NEW k \in Jobs
               PROVE  LET c == Copy(t, k)
                          q == Submit(t, k).prompt
                      IN  /\ Submitted(c, q) \in G[k]
                          /\ Cancelled([c EXCEPT !.prompt = q]) \in G[k]
                          /\ Resubmitted(c, q) \in G[k]
    BY DEF AnswersIn
  <2> DEFINE c == Copy(t, k)
             q == Submit(t, k).prompt
  <2>1. c \in JobRecords /\ q \in Prompts \cup {NoPrompt}
    BY TabFields DEF TypeInv, TypeOK, Rows, Copy, Submit, Submits
  <2> HIDE DEF c, q
  <2>2. /\ Submitted(c, q) \in JobRecords /\ Resubmitted(c, q) \in JobRecords
        /\ [c EXCEPT !.prompt = q] \in JobRecords
    BY <2>1, WritesKeepRecords
  <2>3. Cancelled([c EXCEPT !.prompt = q]) \in JobRecords
    BY <2>2, WritesKeepRecords
  <2>4. /\ Submitted(c, q) \in G[k] /\ Resubmitted(c, q) \in G[k]
        /\ Cancelled([c EXCEPT !.prompt = q]) \in G[k]
    BY <1>4, <2>1, <2>2, <2>3, WritesShow
  <2> QED BY <2>4 DEF c, q
<1>6. Within(G, Prompts)'
  BY <1>2, <1>3, <1>5, StepWithin DEF LandingInv, Within, G
<1>7. \A i \in 1 .. Len(takes') : takes'[i].from # p
  <2>1. /\ takes \in Seq(Takes)
        /\ \A i \in 1 .. Len(takes) : takes[i].from # p
    BY DEF Unrendered, TypeInv, TypeOK, ServerTypeOK
  <2>2. CASE takes' = takes
    BY <2>1, <2>2
  <2>3. CASE takes' # takes
    <3>0. PICK j \in Jobs, k \in TakeKinds : \E r \in G[j] :
             r.status = "completed" /\ takes' = AppendTake(j, r.prompt, k)
      BY <1>2, <2>3, TakesMove DEF LandingInv
    <3>1. PICK r \in G[j] :
             r.status = "completed" /\ takes' = AppendTake(j, r.prompt, k)
      BY <3>0
    <3> DEFINE e == [job |-> j, from |-> r.prompt, kind |-> k]
    <3>2. r.prompt \in Prompts \ {p}
      BY <1>4, <3>1
    <3>3. takes' = Append(takes, e) /\ e \in Takes
      BY <2>3, <3>1, <3>2 DEF AppendTake, Takes
    <3>4. e.from # p
      BY <3>2
    <3> HIDE DEF e
    <3> QED BY <2>1, <3>3, <3>4
  <2> QED BY <2>2, <2>3
<1>8. ~(watch'.at = "ingest" /\ watch'.list[watch'.job].prompt = p)
  <2>1. /\ watch \in Watches /\ WatchMove
        /\ ~(watch.at = "ingest" /\ Rec.prompt = p)
    BY WatchMoveStep DEF TypeInv, TypeOK, ServerTypeOK, Unrendered
  <2>2. CASE watch' = watch
    BY <2>1, <2>2 DEF Rec
  <2>3. CASE AwaitsIngest
    BY <1>1, <2>1, <2>3 DEF AwaitsIngest, Watches, Rec, Errored, LandingInv,
       EngineInv
  <2>4. CASE Turns \/ Fetches \/ QueueAnswers \/ Restarts
    BY <2>1, <2>4 DEF Turns, Turn, Fetches, QueueAnswers, Restarts, Watches
  <2>5. ASSUME NEW j \in Jobs, VisitsOne(j) \/ SkipsOne(j)
        PROVE  watch'.at # "ingest"
    BY <2>1, <2>5 DEF VisitsOne, SkipsOne, Visits, Skips, Watches
  <2> QED BY <2>1, <2>2, <2>3, <2>4, <2>5 DEF WatchMove
<1> QED BY <1>1, <1>6, <1>7, <1>8 DEF Told, Unrendered, Rec, G

LEMMA ErrorStep ==
    ASSUME TypeInv, LandingInv, TakesInv, ErrorInv, [Next]_vars
    PROVE  ErrorInv'
<1> DEFINE G == HonestRecords(prompt, promptEnd, promptOf)
           H == HonestRecords(prompt', promptEnd', promptOf')
           Y == Barren'
<1>1. (\A j \in Jobs : G[j] \subseteq H[j]) /\ Barren \subseteq Y
  BY EngineMoves, HonestGrows, BarrenStays DEF LandingInv
<1>2. H \in RecordSets /\ ClosedSets(H)
  BY HonestSets
<1>3. /\ ObservationsIn(G, Told(promptEnd)) /\ AnswersIn(G)
      /\ Within(G, Barren) /\ Within(G, Told(promptEnd))
  BY HonestObservations, HonestAnswers DEF LandingInv, HonestInv, ErrorInv
<1>4. /\ watch.todo \subseteq Jobs /\ (ObservingNow => watch.job \in Jobs)
      /\ line \in [Tabs -> Lines] /\ takes \in Seq(Takes)
      /\ DOMAIN takes = 1 .. Len(takes)
  BY DEF TypeInv, TypeOK, ServerTypeOK, Watches, VisitInv, ObservingNow
<1>5. ASSUME NEW p \in Prompts, promptEnd[p] \in {"error", "interrupted"}
      PROVE  p \in Barren
  <2>1. p \in Told(promptEnd)
    BY <1>5 DEF Told, Errored
  <2>2. \A j \in Jobs : G[j] \subseteq Unfinished(p)[j]
    <3>1. ASSUME NEW j \in Jobs, NEW r \in G[j]
          PROVE  r \in Unfinished(p)[j]
      <4>1. r \in JobRecords /\ Honest(prompt, promptEnd, promptOf, j, r)
        BY <3>1, HonestFields
      <4>2. r.status = "completed" => r.prompt \in Prompts \ {p}
        BY <1>5, <4>1 DEF Honest, JobRecords, Rendered
      <4> QED BY <4>1, <4>2 DEF Unfinished
    <3> QED BY <3>1
  <2>3. Within(Unfinished(p), Prompts)
    <3> HIDE DEF G
    <3> QED BY <1>3, <1>4, <2>2, WithinGrows DEF Told
  <2>4. \A i \in 1 .. Len(takes) : takes[i].from # p
    BY <1>4, <1>5 DEF TakesInv, LandedWasRendered
  <2>5. ~(watch.at = "ingest" /\ Rec.prompt = p)
    BY <1>5 DEF LandingInv, QueueInv, Rendered
  <2> QED BY <2>1, <2>3, <2>4, <2>5 DEF Barren, Unrendered
<1>6. ASSUME ObservingNow, Truthful("error") PROVE Rec.prompt \in Y
  <2>1. Rec.prompt \in Prompts
    BY <1>3, <1>6 DEF ObservationsIn, Told, Observations
  <2> QED BY <1>1, <1>5, <1>6, <2>1 DEF Truthful, LandingInv, EngineInv
<1>7. AllIn(H, Y, row', watch'.list, pending', tab', line')
  <2> HIDE DEF G, H, Y
  <2>1. Within(H, Y)
    BY <1>1, <1>3, <1>4, WithinGrows
  <2>2. ObservationsIn(H, Y)
    BY <1>1, <1>3, <1>4, <1>6 DEF ObservationsIn
  <2>3. AnswersIn(H)
    BY <1>1, <1>3 DEF AnswersIn
  <2> QED BY <1>2, <2>1, <2>2, <2>3, StepWithin DEF LandingInv
<1> QED BY <1>7 DEF ErrorInv, Within

(* A prompt is sent for a job the first time, or because its only prompt   *)
(* failed and renders nothing any more.                                    *)
LEMMA AskIsJustified ==
    ASSUME TypeInv, LandingInv, PromiseInv, NEW t \in Tabs, NEW j \in Jobs,
           NEW p \in Prompts, PromptAccepted(t, j, p)
    PROVE  \/ PromptsOf(j) = {}
           \/ \E b \in Barren : PromptsOf(j) = {b}
<1>1. CASE At(t, j) = "sent"
  BY <1>1 DEF PromiseInv, RequestInv
<1>2. CASE At(t, j) = "freeing"
  <2> DEFINE r == tab[t].submit[j].rec
  <2>1. PICK b \in Prompts : PromptsOf(j) = {b}
    BY <1>2 DEF PromiseInv, RequestInv, Once
  <2>2. r.prompt \in Barren /\ r \in HonestRecords(prompt, promptEnd, promptOf)[j]
    BY <1>2 DEF PromiseInv, ErrorInv, Within, AllIn, TabsIn, TabIn, At
  <2>3. Honest(prompt, promptEnd, promptOf, j, r)
    BY <2>2, HonestFields
  <2>4. r.prompt \in Prompts
    BY <2>2 DEF Barren, Told
  <2>5. promptOf[r.prompt] = j
    BY <2>3, <2>4, NoPromptAssumption DEF Honest
  <2>6. r.prompt \in PromptsOf(j)
    BY <2>4, <2>5 DEF PromptsOf
  <2>7. r.prompt = b
    BY <2>1, <2>6
  <2> QED BY <2>1, <2>2, <2>7
<1> QED BY <1>1, <1>2, AskMoves

LEMMA RetryStep ==
    ASSUME TypeInv, LandingInv, PromiseInv, [Next]_vars
    PROVE  RetryFollowsError'
<1>1. ASSUME NEW p \in Prompts, promptEnd[p] \in Errored
      PROVE  promptEnd'[p] \in Errored
  <2>1. PromptMoves(p) /\ (prompt[p] = "closing" => promptEnd[p] = "none")
    BY EngineMoves DEF LandingInv, EngineInv
  <2> QED BY <1>1, <2>1 DEF PromptMoves, Errored
<1>2. ASSUME NEW p \in Prompts, NEW q \in Prompts, p # q,
             promptOf[p] = promptOf[q], promptOf[p] # NoJob
      PROVE  \E r \in {p, q} : promptEnd'[r] \in Errored
  <2>1. \E r \in {p, q} : promptEnd[r] \in Errored
    BY <1>2 DEF PromiseInv, RetryFollowsError, Errored
  <2> QED BY <1>1, <2>1
<1>3. CASE promptOf' = promptOf
  BY <1>2, <1>3 DEF RetryFollowsError, Errored
<1>4. ASSUME NEW t \in Tabs, NEW j \in Jobs, NEW a \in Prompts,
             PromptAccepted(t, j, a)
      PROVE  RetryFollowsError'
  <2>1. /\ promptOf' = [promptOf EXCEPT ![a] = j] /\ promptOf'[a] = j
        /\ a \notin PromptsOf(j)
    BY <1>4, AskMoves
  <2>2. \A q \in Prompts \ {a} : promptOf'[q] = promptOf[q]
    BY <2>1 DEF TypeInv, TypeOK, ServerTypeOK, E!EngineTypeOK
  <2>3. \A b \in PromptsOf(j) : promptEnd'[b] \in Errored
    BY <1>1, <1>4, AskIsJustified DEF Barren, Told
  <2>4. ASSUME NEW q \in Prompts \ {a}, promptOf'[q] = j
        PROVE  promptEnd'[q] \in Errored
    BY <2>2, <2>3, <2>4 DEF PromptsOf
  <2> QED BY <1>2, <2>1, <2>2, <2>4 DEF RetryFollowsError, Errored
<1> QED BY <1>3, <1>4, EngineMoves

LEMMA PromiseInvInit ==
    ASSUME Init
    PROVE  PromiseInv
<1>1. /\ \A t \in Tabs, j \in Jobs : At(t, j) = "none" /\ ~Has(t, j)
      /\ \A t \in Tabs : line[t].sent = <<>>
      /\ made = {} /\ \A p \in Prompts : promptOf[p] = NoJob
  BY DEF Init, ServerInit, Closed, NoSubmit, At, Has, NoLine, E!EngineInit
<1>2. OwnerInv
  BY <1>1 DEF OwnerInv, Owns, Retrying
<1>3. RequestInv
  <2>1. \A j \in Jobs : PromptsOf(j) = {}
    BY <1>1, NoJobAssumption DEF PromptsOf
  <2> QED BY <1>1, <2>1 DEF RequestInv, MayRetry
<1>4. FreshInv
  <2>1. \A j \in Jobs : Fresh(j)
    BY FreshSets, WithinInit DEF Fresh
  <2>2. \A t \in Tabs, j \in Jobs : OneReport(t, j)
    BY <1>1 DEF OneReport
  <2> QED BY <1>1, <2>1, <2>2 DEF FreshInv, Retrying
<1>5. ErrorInv
  BY HonestSets, WithinInit DEF ErrorInv
<1>6. RetryFollowsError
  BY <1>1 DEF RetryFollowsError
<1> QED BY <1>2, <1>3, <1>4, <1>5, <1>6 DEF PromiseInv

LEMMA PromiseInvHolds == Spec => []PromiseInv
<1>1. LaneInv /\ PromiseInv /\ [Next]_vars => PromiseInv'
  BY OwnerStep, RequestStep, FreshInvStep, ErrorStep, RetryStep
     DEF LaneInv, PromiseInv
<1>2. Init => PromiseInv
  BY PromiseInvInit
<1> QED BY <1>1, <1>2, LaneInvHolds, PTL DEF Spec

(* A job is sent a second time only after the engine failed it: the retry  *)
(* of useGenerationQueue is never a second render of a job that is done.   *)
THEOREM RetryIsOfAFailure == Spec => []RetryFollowsError
<1>1. PromiseInv => RetryFollowsError
  BY DEF PromiseInv
<1> QED BY <1>1, PromiseInvHolds, PTL

-----------------------------------------------------------------------------
(* The refinement: what was asked and what has landed, counted.            *)

TakesOf(j) == {i \in DOMAIN takes : takes[i].job = j}

LEMMA Counted ==
    ASSUME TypeInv, TakesInv, RequestInv, NEW j \in Jobs
    PROVE  /\ IsFiniteSet(PromptsOf(j))
           /\ Cardinality(PromptsOf(j)) \in Nat
           /\ Cardinality(TakesOf(j)) = IF Taken(j) THEN 1 ELSE 0
<1>1. IsFiniteSet(PromptsOf(j))
  <2>1. PICK p, q \in Prompts \cup {NoPrompt} : PromptsOf(j) \subseteq {p, q}
    BY DEF RequestInv
  <2>2. IsFiniteSet({p, q})
    <3>1. IsFiniteSet({p})
      BY FS_Singleton
    <3>2. {p, q} = {p} \cup {q}
      OBVIOUS
    <3> QED BY <3>1, <3>2, FS_AddElement
  <2> QED BY <2>1, <2>2, FS_Subset
<1>2. Cardinality(PromptsOf(j)) \in Nat
  BY <1>1, FS_CardinalityType
<1>3. CASE Taken(j)
  <2>1. PICK i \in DOMAIN takes : takes[i].job = j
    BY <1>3 DEF Taken
  <2>2. TakesOf(j) = {i}
    BY <2>1 DEF TakesOf, TakesInv, OneTakePerJob
  <2>3. Cardinality(TakesOf(j)) = 1
    BY <2>2, FS_Singleton
  <2> QED BY <1>1, <1>2, <1>3, <2>3
<1>4. CASE ~Taken(j)
  <2>1. TakesOf(j) = {}
    BY <1>4 DEF TakesOf, Taken
  <2>2. Cardinality(TakesOf(j)) = 0
    BY <2>1, FS_EmptySet
  <2> QED BY <1>1, <1>2, <1>4, <2>2
<1> QED BY <1>3, <1>4

Asked  == [j \in Jobs |-> Cardinality(PromptsOf(j))]
Landed == [j \in Jobs |-> Cardinality(TakesOf(j))]

Asks(j) ==
    /\ Asked[j] < 2 /\ Landed[j] = 0
    /\ Asked' = [Asked EXCEPT ![j] = @ + 1] /\ Landed' = Landed
LandsFirst(j) ==
    /\ Asked[j] > 0 /\ Landed[j] = 0
    /\ Landed' = [Landed EXCEPT ![j] = 1] /\ Asked' = Asked

LEMMA AskCounts ==
    ASSUME TypeInv, LandingInv, TakesInv, PromiseInv, NEW t \in Tabs,
           NEW j \in Jobs, NEW p \in Prompts, PromptAccepted(t, j, p)
    PROVE  Asks(j)
<1>1. /\ takes' = takes /\ PromptsOf(j)' = PromptsOf(j) \cup {p}
      /\ p \notin PromptsOf(j)
      /\ \A k \in Jobs \ {j} : PromptsOf(k)' = PromptsOf(k)
  BY AskMoves
<1>2. RequestInv
  BY DEF PromiseInv
<1>3. Cardinality(PromptsOf(j)) < 2
  <2>1. CASE PromptsOf(j) = {}
    <3>1. Cardinality(PromptsOf(j)) = 0
      BY <2>1, FS_EmptySet
    <3> QED BY <3>1
  <2>2. ASSUME NEW b \in Barren, PromptsOf(j) = {b}
        PROVE  Cardinality(PromptsOf(j)) < 2
    <3>1. Cardinality(PromptsOf(j)) = 1
      BY <2>2, FS_Singleton
    <3> QED BY <3>1
  <2> QED BY <2>1, <2>2, AskIsJustified
<1>4. ~Taken(j)
  <2>1. ASSUME NEW i \in DOMAIN takes, takes[i].job = j PROVE FALSE
    <3>1. takes[i].from \in PromptsOf(j)
      BY <2>1 DEF TakesInv, LandedWasRendered, PromptsOf
    <3>2. PICK b \in Barren : PromptsOf(j) = {b}
      BY <3>1, AskIsJustified
    <3>3. takes[i].from # b
      <4>1. DOMAIN takes = 1 .. Len(takes)
        BY DEF TypeInv, TypeOK, ServerTypeOK
      <4> QED BY <4>1 DEF Barren, Unrendered
    <3> QED BY <3>1, <3>2, <3>3
  <2> QED BY <2>1 DEF Taken
<1>5. Asked[j] < 2 /\ Landed[j] = 0
  BY <1>2, <1>3, <1>4, Counted DEF Asked, Landed
<1>6. Cardinality(PromptsOf(j)') = Cardinality(PromptsOf(j)) + 1
  BY <1>1, <1>2, Counted, FS_AddElement
<1>7. Asked' = [Asked EXCEPT ![j] = @ + 1]
  <2>1. Asked' = [k \in Jobs |-> Cardinality(PromptsOf(k)')]
    BY DEF Asked
  <2>2. \A k \in Jobs : Cardinality(PromptsOf(k)') =
           IF k = j THEN Cardinality(PromptsOf(j)) + 1
                    ELSE Cardinality(PromptsOf(k))
    BY <1>1, <1>6
  <2> QED BY <2>1, <2>2 DEF Asked
<1>8. Landed' = Landed
  BY <1>1 DEF Landed, TakesOf
<1> QED BY <1>5, <1>7, <1>8 DEF Asks

LEMMA LandCounts ==
    ASSUME LaneInv, PromiseInv, [Next]_vars, takes' # takes
    PROVE  \E j \in Jobs : LandsFirst(j)
<1>1. /\ TypeInv /\ LandingInv /\ TakesInv /\ RequestInv
      /\ takes \in Seq(Takes)
  BY DEF LaneInv, PromiseInv, TypeInv, TypeOK, ServerTypeOK
<1>2. promptOf' = promptOf
  BY <1>1, AskMoves, EngineMoves
<1> DEFINE G == HonestRecords(prompt, promptEnd, promptOf)
<1>3. PICK j \in Jobs, k \in TakeKinds : \E r \in G[j] :
         r.status = "completed" /\ takes' = AppendTake(j, r.prompt, k)
  BY <1>1, TakesMove, HonestObservations DEF LandingInv, HonestInv
<1>4. PICK r \in G[j] :
         r.status = "completed" /\ takes' = AppendTake(j, r.prompt, k)
  BY <1>3
<1>5. r.prompt \in PromptsOf(j) /\ r.prompt \in Prompts
  BY <1>4, HonestFields DEF Honest, PromptsOf, JobRecords
<1> DEFINE e == [job |-> j, from |-> r.prompt, kind |-> k]
<1>6. ~Taken(j) /\ takes' = Append(takes, e) /\ e \in Takes /\ e.job = j
  BY <1>4, <1>5 DEF AppendTake, Takes
<1> HIDE DEF e, G
<1>7. /\ \E i : TakesOf(j)' = {i}
      /\ \A m \in Jobs \ {j} : TakesOf(m)' = TakesOf(m)
  <2> DEFINE n == Len(takes)
  <2>1. /\ n \in Nat /\ DOMAIN takes = 1 .. n /\ DOMAIN takes' = 1 .. n + 1
        /\ takes'[n + 1] = e /\ \A i \in 1 .. n : takes'[i] = takes[i]
    BY <1>1, <1>6
  <2> HIDE DEF n
  <2>2. \A i \in 1 .. n + 1 : i \in 1 .. n \/ i = n + 1
    BY <2>1
  <2>3. n + 1 \in 1 .. n + 1 /\ \A i \in 1 .. n : i \in 1 .. n + 1
    BY <2>1
  <2>4. TakesOf(j)' = {n + 1}
    BY <1>6, <2>1, <2>2, <2>3 DEF Taken, TakesOf
  <2>5. \A m \in Jobs \ {j} : TakesOf(m)' = TakesOf(m)
    BY <1>6, <2>1, <2>2, <2>3 DEF TakesOf
  <2> QED BY <2>4, <2>5
<1>8. Cardinality(PromptsOf(j)) > 0
  <2>1. Cardinality(PromptsOf(j)) # 0
    BY <1>1, <1>5, Counted, FS_EmptySet
  <2> QED BY <1>1, <2>1, Counted
<1>9. Asked' = Asked
  BY <1>2 DEF Asked, PromptsOf
<1>10. Cardinality(TakesOf(j)') = 1
  BY <1>7, FS_Singleton
<1>11. Landed' = [Landed EXCEPT ![j] = 1]
  <2>1. Landed' = [m \in Jobs |-> Cardinality(TakesOf(m)')]
    BY DEF Landed
  <2>2. \A m \in Jobs : Cardinality(TakesOf(m)') =
                           IF m = j THEN 1 ELSE Cardinality(TakesOf(m))
    BY <1>7, <1>10
  <2> QED BY <2>1, <2>2 DEF Landed
<1>12. Asked[j] > 0 /\ Landed[j] = 0
  BY <1>1, <1>6, <1>8, Counted DEF Asked, Landed
<1> QED BY <1>9, <1>11, <1>12 DEF LandsFirst

(* The lane implements JobPromise: over all tabs, lost and repeated posts, *)
(* crashes of the server and restarts of the engine, a job is sent at most *)
(* twice (submitH3 and one retry), not again once it has a take, and gets  *)
(* one take.                                                               *)
THEOREM LaneKeepsPromise == Spec => KeepsPromise
<1>1. Init => Promise!Init
  <2> SUFFICES ASSUME Init PROVE Promise!Init
    OBVIOUS
  <2>1. \A j \in Jobs : PromptsOf(j) = {} /\ TakesOf(j) = {}
    <3>1. TAKE j \in Jobs
    <3>2. promptOf = [p \in Prompts |-> NoJob] /\ takes = <<>>
      BY DEF Init, ServerInit, E!EngineInit
    <3>3. PromptsOf(j) = {}
      BY <3>2, NoJobAssumption DEF PromptsOf
    <3>4. DOMAIN takes = {}
      BY <3>2
    <3>5. TakesOf(j) = {}
      BY <3>4 DEF TakesOf
    <3> QED BY <3>3, <3>5
  <2>2. \A j \in Jobs : /\ Cardinality(PromptsOf(j)) = 0
                        /\ Cardinality(TakesOf(j)) = 0
    BY <2>1, FS_EmptySet
  <2> QED BY <2>2 DEF Promise!Init, PromptsOf, TakesOf
<1>2. LaneInv /\ PromiseInv /\ [Next]_vars => [Promise!Next]_(Promise!vars)
  <2> SUFFICES ASSUME LaneInv, PromiseInv, [Next]_vars
               PROVE  \/ Asked' = Asked /\ Landed' = Landed
                      \/ \E j \in Jobs : Asks(j) \/ LandsFirst(j)
    <3>1. CASE Asked' = Asked /\ Landed' = Landed
      BY <3>1 DEF Promise!vars, Asked, Landed, PromptsOf, TakesOf
    <3>2. ASSUME NEW j \in Jobs, Asks(j) PROVE Promise!Ask(j)
      BY <3>2 DEF Asks, Promise!Ask, Asked, Landed, PromptsOf, TakesOf
    <3>3. ASSUME NEW j \in Jobs, LandsFirst(j) PROVE Promise!Land(j)
      BY <3>3 DEF LandsFirst, Promise!Land, Asked, Landed, PromptsOf, TakesOf
    <3> QED BY <3>1, <3>2, <3>3 DEF Promise!Next
  <2>1. CASE takes' # takes
    BY <2>1, LandCounts
  <2>2. CASE takes' = takes /\ promptOf' = promptOf
    BY <2>2 DEF Asked, Landed, PromptsOf, TakesOf
  <2>3. CASE promptOf' # promptOf
    <3>1. PICK t \in Tabs, j \in Jobs, p \in Prompts : PromptAccepted(t, j, p)
      BY <2>3, EngineMoves DEF LaneInv
    <3> QED BY <3>1, AskCounts DEF LaneInv
  <2> QED BY <2>1, <2>2, <2>3
<1> QED BY <1>1, <1>2, LaneInvHolds, PromiseInvHolds, PTL
        DEF Spec, KeepsPromise, Promise!Spec
=============================================================================

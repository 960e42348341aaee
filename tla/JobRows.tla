------------------------------ MODULE JobRows ------------------------------
(***************************************************************************)
(* The row of a canvas job and what is written to it: the reducer that the *)
(* server's job watcher runs over one poll (src/lib/jobReducer.ts) and the *)
(* guarded upsert (server/repo.ts).  Rows are values here; JobLane holds   *)
(* them.  A post and an upsert always carry the whole record.              *)
(***************************************************************************)
EXTENDS Naturals

CONSTANTS Prompts,      \* the prompt ids the engine hands out
          NoPrompt,     \* a record without a promptId
          StreakLimit,  \* POLL_FAILURE_STREAK_LIMIT (15 in the code)
          NoOutputCap   \* NO_OUTPUT_POLL_CAP (30 in the code)

ASSUME NoPromptAssumption == NoPrompt \notin Prompts
ASSUME CapsAssumption == StreakLimit \in Nat \ {0} /\ NoOutputCap \in Nat \ {0}

SettledStatuses == {"completed", "failed", "cancelled"}
ActiveStatuses  == {"queued", "running"}

(* Why a row failed: the kinds of failure the reducer writes, and "submit" *)
(* for a submission the tab gave up.                                       *)
Reasons == {"none", "error", "missing", "unreachable", "lost", "timeout",
            "submit"}

(* The counters of failed and of empty polls stay below their limits. *)
Streaks == 0 .. StreakLimit - 1
Empties == 0 .. NoOutputCap - 1

(* "none" stands for a record that does not exist. *)
JobRecords == [status  : SettledStatuses \cup ActiveStatuses \cup {"none"},
               prompt  : Prompts \cup {NoPrompt},
               retried : BOOLEAN,
               local   : BOOLEAN,
               streak  : Streaks,
               empties : Empties,
               why     : Reasons]

NoRecord == [status |-> "none", prompt |-> NoPrompt, retried |-> FALSE,
             local |-> FALSE, streak |-> 0, empties |-> 0, why |-> "none"]
NewRecord == [NoRecord EXCEPT !.status = "queued"]

Settled(r) == r.status \in SettledStatuses
Active(r)  == r.status \in ActiveStatuses

Failed(r, w)  == [r EXCEPT !.status = "failed", !.why = w, !.streak = 0]
Cancelled(r)  == [r EXCEPT !.status = "cancelled", !.why = "none"]
Submitted(r, p) == [r EXCEPT !.status = "queued", !.prompt = p]

(* A record that travels as JSON leaves out the fields that are not set;   *)
(* spread over another it leaves that one's in place.                      *)
Overlay(own, r) ==
    [status  |-> r.status,
     prompt  |-> IF r.prompt = NoPrompt THEN own.prompt ELSE r.prompt,
     retried |-> own.retried \/ r.retried,
     local   |-> own.local \/ r.local,
     streak  |-> IF r.streak = 0 THEN own.streak ELSE r.streak,
     empties |-> IF r.empties = 0 THEN own.empties ELSE r.empties,
     why     |-> IF r.why = "none" THEN own.why ELSE r.why]

(* The auto-retry's resubmission. *)
Resubmitted(r, p) ==
    [Submitted(r, p) EXCEPT !.retried = TRUE, !.why = "none"]

-----------------------------------------------------------------------------
(* reduceJobPoll: one observation of the engine, applied to one record.    *)
(* "here" and "remote" are completions with and without a local file,      *)
(* "waiting", "executing" and "absent" a silent history beside the queue's *)
(* answer, "unasked" a silent history without one.                         *)
Observations == {"unreachable", "error", "here", "remote", "empty",
                 "waiting", "executing", "absent", "unasked", "lost"}

Completed(r, here) ==
    [r EXCEPT !.status = "completed", !.local = here \/ @, !.streak = 0]

(* Mutants: one poll too many, and a completion without an output. *)
FoundEmptyOnce(r) ==
    IF r.empties >= NoOutputCap
       THEN Failed(r, "missing")
       ELSE [r EXCEPT !.status = "running", !.empties = @ + 1, !.streak = 0]
FoundEmptyDone(r) == Completed(r, FALSE)

FoundEmpty(r) ==
    IF r.empties + 1 >= NoOutputCap
       THEN Failed(r, "missing")
       ELSE [r EXCEPT !.status = "running", !.empties = @ + 1, !.streak = 0]

Unreachable(r) ==
    IF r.streak + 1 >= StreakLimit
       THEN Failed(r, "unreachable")
       ELSE [r EXCEPT !.streak = @ + 1]

(* A queued record is held, streak and all, while the queue lists it or    *)
(* its absence is young.                                                   *)
Incomplete(r, o) ==
    IF r.status = "queued" /\ o \in {"waiting", "absent"}
       THEN r
       ELSE [r EXCEPT !.status = "running", !.streak = 0]

(* Mutant: no running deadline. *)
ReduceNoDeadline(r, o, late) ==
    CASE Settled(r)                            -> r
      [] ~Settled(r) /\ o = "error"            -> Failed(r, "error")
      [] ~Settled(r) /\ o \in {"here", "remote"} -> Completed(r, o = "here")
      [] ~Settled(r) /\ o = "empty"            -> FoundEmpty(r)
      [] ~Settled(r) /\ o = "unreachable"      -> Unreachable(r)
      [] ~Settled(r) /\ o = "lost"             -> Failed(r, "lost")
      [] OTHER                                 -> Incomplete(r, o)

Reduce(r, o, late) ==
    CASE Settled(r)              -> r
      [] ~Settled(r) /\ late     -> [r EXCEPT !.status = "failed",
                                              !.why = "timeout"]
      [] OTHER ->
           CASE o = "error"                -> Failed(r, "error")
             [] o \in {"here", "remote"}   -> Completed(r, o = "here")
             [] o = "empty"                -> FoundEmpty(r)
             [] o = "unreachable"          -> Unreachable(r)
             [] o = "lost"                 -> Failed(r, "lost")
             [] OTHER                      -> Incomplete(r, o)

-----------------------------------------------------------------------------
(* upsertJobs: a non-terminal write onto a terminal row is ignored, but    *)
(* for the resubmission of a failed job; every other write replaces the    *)
(* whole row.                                                              *)
Resubmission(old, new) ==
    /\ old.status = "failed"
    /\ new.status = "queued"
    /\ new.retried

Upsert(old, new) ==
    IF Settled(old) /\ ~Settled(new) /\ ~Resubmission(old, new)
       THEN old ELSE new
=============================================================================

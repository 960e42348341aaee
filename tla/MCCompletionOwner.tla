------------------------- MODULE MCCompletionOwner -------------------------
(***************************************************************************)
(* CompletionOwner for TLC.  A behaviour is one of a few scenarios, told   *)
(* apart by the attempts that are submitted: a constraint cuts it off      *)
(* where it would become two at once.  Cut off are only steps nothing      *)
(* fair asks for: submissions, calls, crashes, and one outcome where the   *)
(* engine may record another.                                              *)
(***************************************************************************)
EXTENDS OwnerClaims, TLC

CONSTANTS a1, a2, a3, a4, j1, j2, j3, c1, c2

Nothing     == {}
OneAttempt  == {a1}
AllAttempts == {a1, a2, a3, a4}
TwoJobs     == {j1, j2}
ThreeJobs   == {j1, j2, j3}
ThirdJob    == {j3}
OneCall     == {c1}
TwoCalls    == {c1, c2}

Only(A)  == \A a \in Attempts \ A : row[a] = NoRow /\ a \in targets
Busy(n)  == Cardinality({c \in Calls : ~At(c, "idle")}) <= n
Ended(S) == \A j \in Jobs : ended[j] \in S \cup {"none"}
Quiet    == \A j \in Foreign : job[j] = "free"

(* One attempt with a carry, whose target may go, and one call at a time.  *)
Alone == Only({a1}) /\ Quiet /\ crashes <= 1 /\ Busy(1)

(* Two attempts and a client of the engine that is not the server; all     *)
(* three with one crash at most.                                           *)
Pair  == /\ Only({a2, a3}) /\ Busy(0) /\ Ended({"done"})
         /\ Quiet \/ crashes <= 1 \/ \E a \in {a2, a3} : row[a] = NoRow

(* One attempt and two calls at once. *)
Duel  == Only({a4}) /\ Quiet /\ crashes <= 1 /\ Ended({"done", "interrupted"})

Scenarios == Alone \/ Pair \/ Duel
Syms == Permutations(TwoJobs) \cup Permutations({a2, a3})
            \cup Permutations(TwoCalls)

(* For liveness: two calls at once in the first life of the server only.   *)
(* Instead of symmetry the jobs are taken in order, and of the call slots  *)
(* one takes the users' calls, the other the announced completions.        *)
OneLife == crashes = 0 \/ Busy(1)
InOrder ==
    /\ jobOf'[j2] # NoAttempt => jobOf'[j1] # NoAttempt
    /\ task'[c1].by # "event"
    /\ task'[c2].by \in {"none", "event"}
=============================================================================

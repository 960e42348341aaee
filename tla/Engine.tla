------------------------------- MODULE Engine -------------------------------
(***************************************************************************)
(* The render engine (ComfyUI), as the port in server/animation/           *)
(* rendering.ts uses it: a queue of prompts, a history of finished ones,   *)
(* and an output folder.  The queue and the history live in the engine's   *)
(* memory, so a restart forgets both; the output folder is on disk.        *)
(***************************************************************************)
EXTENDS AttemptStore, Naturals

CONSTANTS Foreign,      \* the jobs that other clients of the engine submit
          Outcomes,     \* what the engine may record of a finished job
          NoAttempt,    \* the owner of a foreign job
          MaxOutages    \* bound on the times the engine becomes unreachable

(* What history can hold: "done" with outputs, "empty" (success, none),    *)
(* "error", an error the carry save raised without and with the clip on    *)
(* record, and an interruption.                                            *)
Records == {"done", "empty", "error", "carryError", "carryErrorOut",
            "interrupted"}

ASSUME OutcomesAssumption == Outcomes \subseteq Records
ASSUME ForeignAssumption  == Foreign \subseteq Jobs
ASSUME NoAttemptAssumption == NoAttempt \notin Attempts
ASSUME MaxOutagesAssumption == MaxOutages \in Nat

VARIABLES job,          \* job[j]: where the engine has job j
          jobOf,        \* jobOf[j]: the attempt stamped on job j
          ended,        \* ended[j]: the record job j got (history variable)
          carryFile,    \* carryFile[a]: the carry at a's receipt path
          engineUp,     \* does the engine answer?
          outages       \* how often it stopped answering so far

engineVars == <<job, jobOf, ended, carryFile, engineUp, outages>>

(* "closing" is the gap between the queue slot emptying and the history    *)
(* record becoming visible; "gone" is a job the engine no longer knows:    *)
(* taken out of the queue, or forgotten by a restart.  ended[j] outlives   *)
(* the record, so that the properties can tell the two apart.              *)
JobStates  == {"free", "pending", "running", "closing", "gone"} \cup Records
CarryFiles == {"absent", "good", "bad"}

EngineTypeOK ==
    /\ job \in [Jobs -> JobStates]
    /\ jobOf \in [Jobs -> Attempts \cup {NoAttempt}]
    /\ ended \in [Jobs -> Records \cup {"none"}]
    /\ carryFile \in [Attempts -> CarryFiles]
    /\ engineUp \in BOOLEAN
    /\ outages \in 0 .. MaxOutages

EngineInit ==
    /\ job = [j \in Jobs |-> "free"]
    /\ jobOf = [j \in Jobs |-> NoAttempt]
    /\ ended = [j \in Jobs |-> "none"]
    /\ carryFile = [a \in Attempts |-> "absent"]
    /\ engineUp = TRUE
    /\ outages = 0

Queued(j)   == job[j] \in {"pending", "running"}
QueuedJobs  == {j \in Jobs : Queued(j)}
Recorded(j) == job[j] \in Records

(* Mutant: no settle window, a job in the closing gap is answered for. *)
CanAnswerAtOnce(j) == engineUp

(* The port's history(): the record if there is one, "running" while the   *)
(* queue lists the job, "lost" when neither knows it.  The port waits out  *)
(* the closing gap (lostSettleMs) before it answers.                       *)
CanAnswer(j) == engineUp /\ job[j] # "closing"
HistoryOf(j) == IF Recorded(j) THEN job[j]
                ELSE IF Queued(j) THEN "running" ELSE "lost"
Answers == Records \cup {"running", "lost"}

(* Mutant: the search takes any record for the attempt's own. *)
FoundAny(a) == {j \in Jobs : Recorded(j)}

(* findJobByAttempt: history records carry the attempt id, the queue's do not. *)
FoundFor(a) == {j \in Jobs : Recorded(j) /\ jobOf[j] = a}

-----------------------------------------------------------------------------
(* The engine's own steps. *)

ForeignPrompt(j) ==
    /\ j \in Foreign
    /\ job[j] = "free"
    /\ job' = [job EXCEPT ![j] = "pending"]
    /\ UNCHANGED <<jobOf, ended, carryFile, engineUp, outages>>

JobStarts(j) ==
    /\ job[j] = "pending"
    /\ job' = [job EXCEPT ![j] = "running"]
    /\ UNCHANGED <<jobOf, ended, carryFile, engineUp, outages>>

JobCloses(j) ==
    /\ job[j] = "running"
    /\ job' = [job EXCEPT ![j] = "closing"]
    /\ UNCHANGED <<jobOf, ended, carryFile, engineUp, outages>>

(* A successful render of a carrying attempt may leave a sound carry file, *)
(* one that does not read as a carry, or none; only its graph has the save *)
(* node that can raise the carry errors.                                   *)
JobRecorded(j, o) ==
    /\ job[j] = "closing"
    /\ o \in {"carryError", "carryErrorOut"} => jobOf[j] \in Carry
    /\ job' = [job EXCEPT ![j] = o]
    /\ ended' = [ended EXCEPT ![j] = o]
    /\ IF o \in {"done", "empty"} /\ jobOf[j] \in Carry
          THEN \E f \in CarryFiles :
                  carryFile' = [carryFile EXCEPT ![jobOf[j]] = f]
          ELSE UNCHANGED carryFile
    /\ UNCHANGED <<jobOf, engineUp, outages>>

EngineUnreachable ==
    /\ engineUp
    /\ outages < MaxOutages
    /\ engineUp' = FALSE
    /\ outages' = outages + 1
    /\ UNCHANGED <<job, jobOf, ended, carryFile>>

EngineReachable ==
    /\ ~engineUp
    /\ engineUp' = TRUE
    /\ UNCHANGED <<job, jobOf, ended, carryFile, outages>>

EngineRestarts ==
    /\ ~engineUp
    /\ engineUp' = TRUE
    /\ job' = [j \in Jobs |-> IF job[j] = "free" THEN "free" ELSE "gone"]
    /\ UNCHANGED <<jobOf, ended, carryFile, outages>>

EngineStep ==
    \/ \E j \in Jobs : ForeignPrompt(j) \/ JobStarts(j) \/ JobCloses(j)
    \/ \E j \in Jobs, o \in Outcomes : JobRecorded(j, o)
    \/ EngineUnreachable
    \/ EngineReachable
    \/ EngineRestarts

-----------------------------------------------------------------------------
(* What a request does to the engine when it arrives. *)

(* POST /prompt: the engine gives the graph a fresh id and queues it. *)
AcceptPrompt(a, j) ==
    /\ engineUp
    /\ j \notin Foreign
    /\ job[j] = "free"
    /\ job' = [job EXCEPT ![j] = "pending"]
    /\ jobOf' = [jobOf EXCEPT ![j] = a]
    /\ UNCHANGED <<ended, carryFile, engineUp, outages>>

(* POST /queue {delete}: removes a pending entry and leaves no record.     *)
(* POST /interrupt only asks a running job to stop, and a running job may  *)
(* end as interrupted at any time here (other clients can ask it too), so  *)
(* the request itself changes nothing.                                     *)
Dequeued(j) ==
    job' = IF job[j] = "pending" THEN [job EXCEPT ![j] = "gone"] ELSE job
=============================================================================

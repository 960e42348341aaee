---------------------------- MODULE AttemptStore ----------------------------
(***************************************************************************)
(* The durable row of one generation attempt (server/animation/store.ts):  *)
(* its vocabulary and the writes the store offers.  A row is a value here; *)
(* CompletionOwner holds one per attempt and applies these writes to it.   *)
(*                                                                         *)
(* The asset a candidate names is abstracted to the engine job it came     *)
(* from, so a row's result is the job that produced the landed clip.       *)
(***************************************************************************)

CONSTANTS Attempts,    \* the attempt ids
          Jobs,        \* the prompt ids the engine hands out
          Carry,       \* the attempts whose frozen snapshot requests a carry
          NoJob        \* a column that holds no job (NULL)

ASSUME NoJobAssumption == NoJob \notin Jobs
ASSUME CarryAssumption == Carry \subseteq Attempts

(* The terminal and the in-flight execution states. *)
TerminalStates == {"ready", "failed", "cancelled", "interrupted"}
InFlightStates == {"queued", "rendering", "preparing", "reconciling"}

Verdicts      == {"none", "never-delivered", "uncertain"}
Preparations  == {"pending", "proposed", "failed"}
Continuations == {"absent", "registering", "ready", "not-produced"}

(* "none" stands for an attempt nobody has recorded yet. *)
Rows == [state        : TerminalStates \cup InFlightStates \cup {"none"},
         verdict      : Verdicts,
         job          : Jobs \cup {NoJob},
         result       : Jobs \cup {NoJob},
         preparation  : Preparations,
         continuation : Continuations]

NoRow == [state |-> "none", verdict |-> "none", job |-> NoJob,
          result |-> NoJob, preparation |-> "pending",
          continuation |-> "absent"]

(* Mutant: the engine's word for a queued prompt as a row's state. *)
RecordAsPending == [NoRow EXCEPT !.state = "pending"]

(* recordAttempt: the insert of a fresh row. *)
RecordAttempt == [NoRow EXCEPT !.state = "queued"]

(* Mutant: ready left out of the terminal states. *)
TerminalButReady(r) == r.state \in TerminalStates \ {"ready"}

Terminal(r) == r.state \in TerminalStates
InFlight(r) == r.state \in InFlightStates
Landed(r)   == r.result # NoJob

(* Mutants: the verdict retained as the progress is; the job column        *)
(* overwritten by an absent argument.                                      *)
SetExecutionKeepingVerdict(r, s) == [r EXCEPT !.state = s]
SetExecutionDroppingJob(r, s) ==
    [r EXCEPT !.state = s, !.verdict = "none", !.job = NoJob]

(* setAttemptExecution: the execution column is rebuilt from the arguments, *)
(* so a verdict that is not passed again is gone.  It asks nothing about    *)
(* the state it overwrites.                                                 *)
SetExecution(r, s) == [r EXCEPT !.state = s, !.verdict = "none"]

(* Mutant: every failed delivery recorded as never delivered. *)
SetVerdictNever(r, v) ==
    [r EXCEPT !.state = "reconciling", !.verdict = "never-delivered"]

(* The write of a failed delivery, which passes the verdict. *)
SetVerdict(r, v) == [r EXCEPT !.state = "reconciling", !.verdict = v]

(* The same write with an engineJobId; the column keeps its value when the *)
(* argument is absent, which is every other write.                         *)
SetJob(r, s, j) == [SetExecution(r, s) EXCEPT !.job = j]

SetPreparation(r, p)  == [r EXCEPT !.preparation = p]
SetContinuation(r, c) == [r EXCEPT !.continuation = c]

(* landCandidate: the first call lands, every later one is a no-op. *)
LandCandidate(r, j) == IF Landed(r) THEN r ELSE [r EXCEPT !.result = j]

(* continuationPending: a landed carry whose registration has not settled. *)
ContinuationPending(a, r) ==
    /\ Landed(r)
    /\ a \in Carry
    /\ r.continuation \in {"absent", "registering"}
=============================================================================

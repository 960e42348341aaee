--------------------------- MODULE ManagedEngine ---------------------------
(***************************************************************************)
(* The engine process that the studio owns: RuntimeManager                 *)
(* (server/runtime.ts) over EngineProcess (server/engineProcess.ts), and   *)
(* what server/core.ts asks of them: the start and stop routes, the save   *)
(* of settings that leaves managed mode, the reconcile after a boot.       *)
(*                                                                         *)
(* start and stop are single flights that wait for one another.  The       *)
(* reconcile waits for neither: it runs beside the requests of users, and  *)
(* all three write, between awaits, the one snapshot of the manager.  The  *)
(* server may die at any step; its engine runs on and the state file is    *)
(* what the next server knows of it.                                       *)
(***************************************************************************)
EXTENDS Naturals, FiniteSets

CONSTANTS MaxSpawns,    \* bound on the processes spawned
          MaxCalls,     \* bound on the requests of users
          MaxCrashes,   \* bound on the deaths of the server
          MaxHangs,     \* bound on the times an engine stops answering
          Stubborn,     \* the processes that survive every signal
          Unsure        \* the processes whose identity may not be verified:
                        \* no /proc, or a check of it that fails

ASSUME MaxSpawnsAssumption == MaxSpawns \in Nat
ASSUME BoundsAssumption ==
    MaxCalls \in Nat /\ MaxCrashes \in Nat /\ MaxHangs \in Nat
ASSUME StubbornAssumption == Stubborn \subseteq 1 .. MaxSpawns
ASSUME UnsureAssumption == Unsure \subseteq 1 .. MaxSpawns

Pids   == 1 .. MaxSpawns
Nobody == 0
Pid    == Pids \cup {Nobody}

VARIABLES
    proc,       \* proc[p]: process p as the operating system has it
    file,       \* the process that runtime-state.json names
    removals,   \* the processes whose end has ordered the removal of the
                \* file, and nobody awaits it
    settings,   \* the engine settings: managed mode, autoStart
    serverUp,
    registry,   \* liveProcesses: the children whose exit was not delivered
    mgr,        \* the manager: snapshot.state, engine, adoptedRecord,
                \* stopIntentional
    starting,   \* startInFlight: where its runStart is, and its process
    stopping,   \* stopInFlight: where its runStop is, and its process
    boot,       \* the reconcile: where it is, the record and the autoStart
                \* it read
    crossed,    \* what wrote over what (history variable): "boot" when the
                \* reconcile ended over a request that it did not see,
                \* "removal" when the file was written before a removal
                \* ordered earlier
    asked,      \* what users, or autoStart, asked for last
    calls, crashes, hangs

vars == <<proc, file, removals, settings, serverUp, registry, mgr, starting,
          stopping, boot, crossed, asked, calls, crashes, hangs>>
counters == <<calls, crashes, hangs>>

(* "hung" is a live engine that does not answer a probe in time.  A "gone" *)
(* process in the registry is one whose exit event is on its way.          *)
ProcStates    == {"free", "booting", "up", "hung", "gone"}
ManagerStates == {"stopped", "starting", "running", "stopping", "failed"}

Managers == [state : ManagerStates, engine : Pid, adopted : Pid,
             intentional : BOOLEAN]
Starts   == [at : {"idle", "queued", "preparing", "ready?", "recording",
                   "reaping"}, pid : Pid]
Stops    == [at : {"idle", "waiting", "reaping", "signalling", "clearing"},
             pid : Pid]
Boots    == [at : {"reading", "probing", "clearing", "done"}, record : Pid,
             autoStart : BOOLEAN]

TypeOK ==
    /\ proc \in [Pids -> ProcStates]
    /\ file \in Pid
    /\ removals \in SUBSET Pids
    /\ settings \in [managed : BOOLEAN, autoStart : BOOLEAN]
    /\ serverUp \in BOOLEAN
    /\ registry \in SUBSET Pids
    /\ mgr \in Managers
    /\ starting \in Starts
    /\ stopping \in Stops
    /\ boot \in Boots
    /\ crossed \in SUBSET {"boot", "removal"}
    /\ asked \in {"nothing", "start", "stop"}
    /\ calls \in 0 .. MaxCalls
    /\ crashes \in 0 .. MaxCrashes
    /\ hangs \in 0 .. MaxHangs

Alive(p)     == p # Nobody /\ proc[p] \in {"booting", "up", "hung"}
Idle         == [at |-> "idle", pid |-> Nobody]
FreshManager == [state |-> "stopped", engine |-> Nobody, adopted |-> Nobody,
                 intentional |-> FALSE]
FreshBoot    == [at |-> "reading", record |-> Nobody, autoStart |-> FALSE]

Init ==
    /\ proc = [p \in Pids |-> "free"]
    /\ file = Nobody
    /\ removals = {}
    /\ settings \in [managed : BOOLEAN, autoStart : BOOLEAN]
    /\ serverUp = TRUE
    /\ registry = {}
    /\ mgr = FreshManager
    /\ starting = Idle
    /\ stopping = Idle
    /\ boot = FreshBoot
    /\ crossed = {}
    /\ asked = "nothing"
    /\ calls = 0
    /\ crashes = 0
    /\ hangs = 0

-----------------------------------------------------------------------------
(* start(), up to its first await. *)

FreePids == {p \in Pids : proc[p] = "free"}

(* Mutant: a child without a process id. *)
NoPid == Nobody

NextPid == CHOOSE p \in FreePids : TRUE

(* Mutant: runStart without its test of the snapshot. *)
AdmitsAlways(m) == TRUE

(* A runStart that finds the engine running or starting spawns nothing. *)
Admits(m) == m.state \notin {"running", "starting"}

(* The start in flight is joined; a stop in flight goes first. *)
Started(m) ==
    IF starting.at # "idle" THEN starting
    ELSE IF stopping.at # "idle" THEN [Idle EXCEPT !.at = "queued"]
    ELSE IF Admits(m) THEN [Idle EXCEPT !.at = "preparing"]
    ELSE Idle

(* What follows a stop: the start that waited for it. *)
Resumed(m) ==
    IF starting.at # "queued" THEN starting
    ELSE IF Admits(m) THEN [Idle EXCEPT !.at = "preparing"]
    ELSE Idle

-----------------------------------------------------------------------------
(* runStart, from await to await. *)

(* Settings that do not validate are refused before anything is written;   *)
(* without a free port the snapshot says failed.                           *)
StartRefused ==
    /\ starting.at = "preparing"
    /\ starting' = Idle
    /\ \E s \in {mgr.state, "failed"} : mgr' = [mgr EXCEPT !.state = s]
    /\ UNCHANGED <<proc, file, removals, settings, serverUp, registry,
                   stopping, boot, crossed, asked, counters>>

(* Mutant: the flag of an earlier stop is not reset. *)
LaunchedFlagged(p) == [mgr EXCEPT !.state = "starting", !.engine = p,
                                  !.adopted = Nobody]

Launched(p) == [state |-> "starting", engine |-> p, adopted |-> Nobody,
                intentional |-> FALSE]

(* handleExit: an exit that was ordered ends in "stopped", any other in    *)
(* "failed".  It clears the engine whichever process left.                 *)
HandledExit(m) ==
    [m EXCEPT !.state = IF @ # "failed" /\ (m.intentional \/ @ = "stopping")
                           THEN "stopped" ELSE "failed",
              !.engine = Nobody,
              !.intentional = FALSE]

(* Preparation done (hooks, port, mirrored config, load check): the        *)
(* snapshot says starting and the process is spawned.                      *)
Launch ==
    /\ starting.at = "preparing"
    /\ FreePids # {}
    /\ \E s \in {"booting", "gone"} :
          proc' = [proc EXCEPT ![NextPid] = s]
    /\ registry' = registry \cup {NextPid}
    /\ mgr' = Launched(NextPid)
    /\ starting' = [at |-> "ready?", pid |-> NextPid]
    /\ UNCHANGED <<file, removals, settings, serverUp, stopping, boot, crossed,
                   asked, counters>>

(* removeStateFile, up to its await: a file that is there will be renamed. *)
OrdersRemoval(p) ==
    removals' = removals \cup (IF file = Nobody THEN {} ELSE {p})

(* A spawn that throws settles, and runs handleExit, before the manager    *)
(* holds the engine: it is left holding a settled one.                     *)
LaunchThrows ==
    /\ starting.at = "preparing"
    /\ FreePids # {}
    /\ proc' = [proc EXCEPT ![NextPid] = "gone"]
    /\ mgr' = [HandledExit(Launched(NextPid)) EXCEPT !.engine = NextPid]
    /\ OrdersRemoval(NextPid)
    /\ starting' = [at |-> "ready?", pid |-> NextPid]
    /\ UNCHANGED <<file, settings, serverUp, registry, stopping, boot, crossed,
                   asked, counters>>

(* The readiness probe answers.  A snapshot that is no longer starting     *)
(* makes the start throw and leaves the engine as it is.                   *)
BecomesReady ==
    /\ starting.at = "ready?"
    /\ starting.pid \in registry
    /\ proc[starting.pid] = "up"
    /\ IF mgr.state = "starting"
          THEN /\ mgr' = [mgr EXCEPT !.state = "running"]
               /\ starting' = [starting EXCEPT !.at = "recording"]
          ELSE /\ starting' = Idle
               /\ UNCHANGED mgr
    /\ UNCHANGED <<proc, file, removals, settings, serverUp, registry,
                   stopping, boot, crossed, asked, counters>>

(* Exit before ready, or no answer within the readiness budget. *)
NotReady ==
    /\ starting.at = "ready?"
    /\ \/ starting.pid \notin registry
       \/ proc[starting.pid] # "up"
    /\ mgr' = [mgr EXCEPT !.state = "failed", !.intentional = TRUE]
    /\ starting' = [starting EXCEPT !.at = "reaping"]
    /\ UNCHANGED <<proc, file, removals, settings, serverUp, registry,
                   stopping, boot, crossed, asked, counters>>

StartFails ==
    /\ starting.at = "reaping"
    /\ starting.pid \notin registry
    /\ starting' = Idle
    /\ UNCHANGED <<proc, file, removals, settings, serverUp, registry, mgr,
                   stopping, boot, crossed, asked, counters>>

(* The state file is written after the snapshot says running, also over    *)
(* the removal by an exit in between.                                      *)
WriteStateFile ==
    /\ starting.at = "recording"
    /\ file' = starting.pid
    /\ starting' = Idle
    /\ crossed' = IF removals = {} THEN crossed \ {"removal"}
                                  ELSE crossed \cup {"removal"}
    /\ UNCHANGED <<proc, removals, settings, serverUp, registry, mgr, stopping,
                   boot, asked, counters>>

-----------------------------------------------------------------------------
(* stop(), up to its first await, and runStop. *)

(* Mutant: an engine of this server is overlooked. *)
HoldsNoAdopted(m) == m.adopted = Nobody

HoldsNothing(m) == m.engine = Nobody /\ m.adopted = Nobody

(* The part of runStop behind its early returns. *)
Halts ==
    /\ mgr' = IF HoldsNothing(mgr) THEN [mgr EXCEPT !.state = "stopped"]
              ELSE IF mgr.engine # Nobody
              THEN [mgr EXCEPT !.state = "stopping", !.intentional = TRUE]
              ELSE [mgr EXCEPT !.state = "stopping", !.adopted = Nobody]
    /\ stopping' = IF HoldsNothing(mgr) THEN [Idle EXCEPT !.at = "clearing"]
                   ELSE IF mgr.engine # Nobody
                   THEN [at |-> "reaping", pid |-> mgr.engine]
                   ELSE [at |-> "signalling", pid |-> mgr.adopted]

(* A second stop joins the first.  Stopped and stopping are answered at    *)
(* once; a start in flight is waited for.                                  *)
StopAsked ==
    \/ /\ stopping.at # "idle" \/ mgr.state \in {"stopped", "stopping"}
       /\ UNCHANGED <<mgr, stopping>>
    \/ /\ stopping.at = "idle" /\ mgr.state \notin {"stopped", "stopping"}
       /\ starting.at # "idle"
       /\ stopping' = [Idle EXCEPT !.at = "waiting"]
       /\ UNCHANGED mgr
    \/ /\ stopping.at = "idle" /\ mgr.state \notin {"stopped", "stopping"}
       /\ starting.at = "idle"
       /\ Halts

StartSettled ==
    /\ stopping.at = "waiting"
    /\ starting.at \in {"idle", "queued"}
    /\ Halts
    /\ UNCHANGED <<proc, file, removals, settings, serverUp, registry,
                   starting, boot, crossed, asked, counters>>

(* gracefulStop resolves with the exit, and only with it. *)
EngineReaped ==
    /\ stopping.at = "reaping"
    /\ stopping.pid \notin registry
    /\ mgr' = [mgr EXCEPT !.engine = Nobody]
    /\ stopping' = [Idle EXCEPT !.at = "clearing"]
    /\ UNCHANGED <<proc, file, removals, settings, serverUp, registry,
                   starting, boot, crossed, asked, counters>>

(* stopAdopted: dead before or after the signals; or not the process of    *)
(* the record as far as one can tell, which is not signalled, or alive in  *)
(* spite of both signals, which gives the stop up.                         *)
AdoptedStopEnds ==
    /\ stopping.at = "signalling"
    /\ \/ /\ ~Alive(stopping.pid)
          /\ mgr' = [mgr EXCEPT !.state = "stopped"]
       \/ /\ Alive(stopping.pid) /\ stopping.pid \in Stubborn \cup Unsure
          /\ mgr' = [mgr EXCEPT !.state = "failed"]
    /\ stopping' = [Idle EXCEPT !.at = "clearing"]
    /\ UNCHANGED <<proc, file, removals, settings, serverUp, registry,
                   starting, boot, crossed, asked, counters>>

StopEnds ==
    /\ stopping.at = "clearing"
    /\ file' = Nobody
    /\ stopping' = Idle
    /\ starting' = Resumed(mgr)
    /\ UNCHANGED <<proc, removals, settings, serverUp, registry, mgr, boot,
                   crossed, asked, counters>>

-----------------------------------------------------------------------------
(* Processes. *)

(* The killing phase of gracefulStop, and the signals of stopAdopted. *)
UnderSignal(p) ==
    \/ stopping.at \in {"reaping", "signalling"} /\ stopping.pid = p
    \/ starting.at = "reaping" /\ starting.pid = p

(* Mutant: the quit line is all there is, and the engine ignores it. *)
NoEscalation(p) == FALSE

Reaches(p) == UnderSignal(p) /\ p \notin Stubborn

Killed(p) ==
    /\ Alive(p)
    /\ Reaches(p)
    /\ proc' = [proc EXCEPT ![p] = "gone"]
    /\ UNCHANGED <<file, removals, settings, serverUp, registry, mgr, starting,
                   stopping, boot, crossed, asked, counters>>

(* The exit event reaches EngineProcess.settle. *)
Exit(p) ==
    /\ p \in registry
    /\ proc[p] = "gone"
    /\ registry' = registry \ {p}
    /\ mgr' = HandledExit(mgr)
    /\ OrdersRemoval(p)
    /\ UNCHANGED <<proc, file, settings, serverUp, starting, stopping, boot,
                   crossed, asked, counters>>

(* The removal lands, whatever the file names by now. *)
RemovalLands(p) ==
    /\ p \in removals
    /\ removals' = removals \ {p}
    /\ file' = Nobody
    /\ UNCHANGED <<proc, settings, serverUp, registry, mgr, starting, stopping,
                   boot, crossed, asked, counters>>

Turns(p, from, to) ==
    /\ proc[p] \in from
    /\ proc' = [proc EXCEPT ![p] = to]
    /\ UNCHANGED <<file, removals, settings, serverUp, registry, mgr, starting,
                   stopping, boot, crossed, asked, calls, crashes>>

Listens(p) == Turns(p, {"booting", "hung"}, "up") /\ UNCHANGED hangs
Dies(p)    == Turns(p, {"booting", "up", "hung"}, "gone") /\ UNCHANGED hangs
Hangs(p)   == /\ hangs < MaxHangs
              /\ Turns(p, {"up"}, "hung")
              /\ hangs' = hangs + 1

-----------------------------------------------------------------------------
(* reconcileOnBoot. *)

AutoStarts(auto) ==
    /\ starting' = IF auto THEN Started(mgr) ELSE starting
    /\ asked' = IF auto THEN "start" ELSE asked

BootReads ==
    /\ serverUp
    /\ boot.at = "reading"
    /\ LET auto == settings.managed /\ settings.autoStart IN
       \/ /\ file = Nobody
          /\ boot' = [boot EXCEPT !.at = "done"]
          /\ AutoStarts(auto)
       \/ /\ file # Nobody
          /\ boot' = [at |-> "probing", record |-> file, autoStart |-> auto]
          /\ UNCHANGED <<starting, asked>>
    /\ UNCHANGED <<proc, file, removals, settings, serverUp, registry, mgr,
                   stopping, crossed, counters>>

(* Mutant: only a server in managed mode takes its engine back. *)
HealthyInMode(p) == proc[p] = "up" /\ settings.managed

(* Answers the probe on its port. *)
Healthy(p) == proc[p] = "up"

(* Mutant: the record is spent by the boot that reads it. *)
NoRecord(f) == Nobody

RecordKept(f) == f

(* What a request that came before the end of the reconcile has left. *)
Disturbed ==
    \/ mgr.engine # Nobody \/ starting.at # "idle" \/ stopping.at # "idle"
    \/ file # boot.record \/ removals # {}

(* The record read before the probe and the verification is taken back. *)
BootAdopts ==
    /\ boot.at = "probing"
    /\ Healthy(boot.record)
    /\ mgr' = [mgr EXCEPT !.state = "running", !.adopted = boot.record]
    /\ file' = RecordKept(file)
    /\ boot' = [boot EXCEPT !.at = "done"]
    /\ crossed' = IF Disturbed THEN {"boot"} ELSE {}
    /\ UNCHANGED <<proc, removals, settings, serverUp, registry, starting,
                   stopping, asked, counters>>

(* No answer, or one of a process that is not verified to be the engine of *)
(* the record, and is left alone.                                          *)
BootClears ==
    /\ boot.at = "probing"
    /\ ~Healthy(boot.record) \/ boot.record \in Unsure
    /\ mgr' = [mgr EXCEPT !.state = "stopped"]
    /\ boot' = [boot EXCEPT !.at = "clearing", !.record = file]
    /\ crossed' = IF Disturbed THEN {"boot"} ELSE crossed
    /\ UNCHANGED <<proc, file, removals, settings, serverUp, registry, starting,
                   stopping, asked, counters>>

(* The removal of the record that was there is awaited. *)
BootCleared ==
    /\ boot.at = "clearing"
    /\ file' = IF boot.record = Nobody THEN file ELSE Nobody
    /\ crossed' = IF boot.record = Nobody \/ file \in {boot.record, Nobody}
                     THEN crossed ELSE {"boot"}
    /\ AutoStarts(boot.autoStart)
    /\ boot' = [boot EXCEPT !.at = "done"]
    /\ UNCHANGED <<proc, removals, settings, serverUp, registry, mgr, stopping,
                   counters>>

(* status(): an adopted engine has no exit event in this server. *)
StatusFindsDead ==
    /\ mgr.state = "running"
    /\ mgr.adopted # Nobody
    /\ ~Alive(mgr.adopted)
    /\ mgr' = [mgr EXCEPT !.state = "failed", !.adopted = Nobody]
    /\ OrdersRemoval(mgr.adopted)
    /\ UNCHANGED <<proc, file, settings, serverUp, registry, starting, stopping,
                   boot, crossed, asked, counters>>

-----------------------------------------------------------------------------
(* Users and the server. *)

Call ==
    /\ serverUp
    /\ calls < MaxCalls
    /\ calls' = calls + 1
    /\ UNCHANGED <<proc, file, removals, serverUp, registry, boot, crossed,
                   crashes, hangs>>

(* Processes are kept back for the boots that may still start one. *)
BootsLeft == MaxCrashes - crashes + (IF boot.at = "done" THEN 0 ELSE 1)

StartRoute ==
    /\ Call
    /\ settings.managed
    /\ Cardinality(FreePids) > BootsLeft
    /\ starting' = Started(mgr)
    /\ asked' = "start"
    /\ UNCHANGED <<settings, mgr, stopping>>

StopRoute ==
    /\ Call
    /\ StopAsked
    /\ asked' = "stop"
    /\ UNCHANGED <<settings, starting>>

(* Leaving managed mode stops the engine. *)
SaveSettings(s) ==
    /\ Call
    /\ s # settings
    /\ settings' = s
    /\ \/ /\ settings.managed /\ ~s.managed
          /\ StopAsked
          /\ asked' = "stop"
       \/ /\ ~(settings.managed /\ ~s.managed)
          /\ UNCHANGED <<mgr, stopping, asked>>
    /\ UNCHANGED starting

(* A detached engine outlives its server; what the server held is lost. *)
ServerCrashes ==
    /\ serverUp
    /\ crashes < MaxCrashes
    /\ crashes' = crashes + 1
    /\ serverUp' = FALSE
    /\ registry' = {}
    /\ mgr' = FreshManager
    /\ starting' = Idle
    /\ stopping' = Idle
    /\ boot' = FreshBoot
    /\ removals' = {}
    /\ crossed' = {}
    /\ asked' = "nothing"
    /\ UNCHANGED <<proc, file, settings, calls, hangs>>

ServerBoots ==
    /\ ~serverUp
    /\ serverUp' = TRUE
    /\ UNCHANGED <<proc, file, removals, settings, registry, mgr, starting,
                   stopping, boot, crossed, asked, counters>>

-----------------------------------------------------------------------------
StartStep == \/ StartRefused \/ Launch \/ LaunchThrows \/ BecomesReady
             \/ NotReady \/ StartFails \/ WriteStateFile
StopStep  == StartSettled \/ EngineReaped \/ AdoptedStopEnds \/ StopEnds
BootStep  == BootReads \/ BootAdopts \/ BootClears \/ BootCleared

Next ==
    \/ StartStep
    \/ StopStep
    \/ BootStep
    \/ StatusFindsDead
    \/ \E p \in Pids : Killed(p) \/ Exit(p) \/ RemovalLands(p)
    \/ \E p \in Pids : Listens(p) \/ Dies(p) \/ Hangs(p)
    \/ StartRoute
    \/ StopRoute
    \/ \E s \in [managed : BOOLEAN, autoStart : BOOLEAN] : SaveSettings(s)
    \/ ServerCrashes
    \/ ServerBoots

Spec == Init /\ [][Next]_vars

(* Awaits return, signals arrive, exits are reported and the server is     *)
(* started again.  No engine is required to boot, or users to ask.         *)
Fairness ==
    /\ WF_vars(StartStep)
    /\ WF_vars(StopStep)
    /\ WF_vars(BootStep)
    /\ \A p \in Pids : WF_vars(Killed(p)) /\ WF_vars(Exit(p))
    /\ WF_vars(ServerBoots)

FairSpec == Spec /\ Fairness

-----------------------------------------------------------------------------
(* Properties. *)

Spawned(p) == proc[p] = "free" /\ proc'[p] # "free"
Alone      == registry = {} /\ ~Alive(mgr.adopted) /\ ~Alive(file)

(* Once the reconcile has ended, and has not ended over a request, a       *)
(* process is spawned only when this server supervises none, and neither   *)
(* an adopted engine nor one that the state file names is alive.           *)
SpawnsAlone ==
    [][\A p \in Pids :
          Spawned(p) /\ boot.at = "done" /\ "boot" \notin crossed => Alone]_vars

(* "adopt a healthy recorded instance instead of double-spawning"          *)
(* (server/core.ts), of a server that answers users before its reconcile   *)
(* has ended.                                                              *)
NoDoubleSpawn == [][\A p \in Pids : Spawned(p) => Alone]_vars

(* The manager that says stopped has nothing that runs: no child of this   *)
(* server is left, whichever of stop, exit and failed start said it last,  *)
(* and the reconcile if it did not end over a request.                     *)
StoppedMeansNone ==
    mgr.state = "stopped" /\ "boot" \notin crossed
        => registry = {} /\ mgr.adopted = Nobody

(* An engine that runs is on record, so that a crash of the server at any  *)
(* later step leaves it to be adopted: no late removal of an earlier       *)
(* engine's record takes it away, unless the record was written before     *)
(* the removal landed or the reconcile ended over a request.               *)
RunningIsRecorded ==
    mgr.state = "running" /\ starting.at # "recording" /\ crossed = {}
        => file \in {mgr.engine, mgr.adopted} \ {Nobody}

(* The flag that tells an ordered exit from a crash is never left over     *)
(* from an earlier engine: an exit is reported as stopped when a stop      *)
(* waits for that process, and as failed when none does, in a server whose *)
(* reconcile did not end over a request.                                   *)
ExitIsToldApart ==
    [][\A p \in registry :
          serverUp' /\ p \notin registry' /\ "boot" \notin crossed =>
              mgr'.state = IF stopping.at = "reaping" /\ stopping.pid = p
                              THEN "stopped" ELSE "failed"]_vars

(* Starts and stops wait for one another and never for ever; the one wait  *)
(* without an end is for the exit of a child that no signal reaches.       *)
WaitsForStubborn ==
    \E p \in Stubborn : /\ p \in registry /\ Alive(p)
                        /\ \/ starting.at = "reaping" /\ starting.pid = p
                           \/ stopping.at = "reaping" /\ stopping.pid = p

RequestsEnd ==
    /\ starting.at # "idle" ~> starting.at = "idle" \/ WaitsForStubborn
    /\ stopping.at # "idle" ~> stopping.at = "idle" \/ WaitsForStubborn

(* The engine that outlives its server, answers, and can be verified, is   *)
(* taken back by the next one in whichever mode the settings are, unless a *)
(* user starts another before the reconcile has ended.                     *)
CrashedEngineIsTakenBack ==
    \A p \in Pids \ Unsure :
        ~serverUp /\ file = p /\ proc[p] = "up"
        ~> \/ mgr.adopted = p \/ proc[p] # "up"
           \/ asked = "start" /\ boot.at # "done"

(* "let it settle first so we stop the real engine instead of racing a     *)
(* spawn we would then leak", and "a failed state WITH a reason if even    *)
(* the escalation could not reap the tree (never a hang ...)"              *)
(* (server/runtime.ts): when a stop is asked for last, after autoStart and *)
(* after the users, no engine of the studio is left running, or the        *)
(* manager says failed.                                                    *)
LastStopHolds ==
    <>[](asked = "stop")
        => <>[](\/ mgr.state = "failed"
                \/ \A p \in Pids : Alive(p) =>
                      p \notin registry /\ p # mgr.adopted)
=============================================================================

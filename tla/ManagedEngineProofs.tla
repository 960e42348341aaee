------------------------- MODULE ManagedEngineProofs -------------------------
(***************************************************************************)
(* What ManagedEngine guarantees for any number of processes, requests,    *)
(* hangs and deaths of the server, with users that call at any time.       *)
(***************************************************************************)
EXTENDS ManagedEngine, TLAPS

(* Whoever is named anywhere was spawned. *)
Named(p) ==
    \/ p \in registry \/ p = file
    \/ p = mgr.engine \/ p = mgr.adopted
    \/ p = starting.pid \/ p = stopping.pid
    \/ p = boot.record
NamedInv == \A p \in Pids : Named(p) => proc[p] # "free"

(* A server that is down holds nothing, and an engine is adopted, or a     *)
(* request written over, only by the end of the reconcile.                 *)
BootInv ==
    /\ ~serverUp =>
          /\ mgr = FreshManager
          /\ registry = {} /\ removals = {}
          /\ starting = Idle /\ stopping = Idle
          /\ boot = FreshBoot
    /\ boot.at # "done" => mgr.adopted = Nobody
    /\ boot.at \in {"reading", "probing"} => "boot" \notin crossed
    /\ boot.at = "probing" => boot.record # Nobody
    /\ boot.at = "clearing" /\ "boot" \notin crossed =>
          boot.record # Nobody /\ boot.record # mgr.engine

(* The manager holds the one child there can be, and nobody else who runs. *)
HoldInv ==
    /\ \A p \in registry : p = mgr.engine
    /\ mgr.engine \in Pids \ registry => ~Alive(mgr.engine)

(* The snapshot against the start and the stop in flight. *)
StateInv ==
    /\ mgr.state = "starting" =>
          starting.at = "ready?" /\ mgr.engine \in registry
    /\ mgr.state = "running" =>
          /\ mgr.adopted = Nobody => mgr.engine \in registry
          /\ starting.at \in {"idle", "queued", "recording"}
          /\ stopping.at \in {"idle", "waiting"}
          /\ starting.at = "queued" => stopping.at = "waiting"
    /\ mgr.state = "stopping" /\ registry # {} =>
          stopping.at = "reaping" /\ stopping.pid = mgr.engine
    /\ mgr.state = "failed" /\ registry # {} => starting.at = "reaping"
    /\ mgr.state = "stopped" => registry = {} /\ mgr.adopted = Nobody
    /\ mgr.state \in {"starting", "running"} /\ mgr.adopted = Nobody =>
          ~mgr.intentional
    /\ mgr.adopted # Nobody =>
          /\ mgr.state = "running"
          /\ mgr.engine = Nobody
          /\ registry = {}
          /\ starting.at = "idle"
          /\ stopping.at = "idle"

(* A start in flight against the snapshot and the stop in flight. *)
StartInv ==
    /\ starting.at = "preparing" =>
          mgr.state \notin {"starting", "running"} /\ registry = {}
    /\ starting.at = "queued" => stopping.at # "idle"
    /\ starting.at \in {"ready?", "recording", "reaping"} =>
          /\ starting.pid \in Pids
          /\ starting.pid \in registry \/ ~Alive(starting.pid)
          /\ registry \subseteq {starting.pid}
    /\ starting.at = "ready?" =>
          mgr.state = IF starting.pid \in registry THEN "starting" ELSE "failed"
    /\ starting.at = "recording" =>
          mgr.state = IF starting.pid \in registry THEN "running" ELSE "failed"
    /\ starting.at = "reaping" => mgr.state = "failed"
    /\ stopping.at \in {"reaping", "signalling", "clearing"} =>
          starting.at \in {"idle", "queued"}
    /\ stopping.at = "reaping" /\ stopping.pid \in registry =>
          mgr.state = "stopping"
    /\ stopping.at = "reaping" => registry \subseteq {stopping.pid}
    /\ stopping.at \in {"signalling", "clearing"} => registry = {}

(* A record that names a live engine names the one the server holds, but   *)
(* for the end of a stop, which removes it; and the record of an engine    *)
(* that runs is not about to be removed.                                   *)
FileInv ==
    /\ boot.at = "done" /\ Alive(file) =>
          file \in registry \/ file = mgr.adopted
          \/ stopping.at \in {"signalling", "clearing"}
    /\ mgr.state = "running" /\ starting.at # "recording" /\ crossed = {} =>
          /\ file \in {mgr.engine, mgr.adopted} \ {Nobody}
          /\ removals = {}

(* What holds of the requests, until a reconcile ends over one of them. *)
Rest == HoldInv /\ StateInv /\ StartInv /\ FileInv

IInv == TypeOK /\ NamedInv /\ BootInv /\ ("boot" \in crossed \/ Rest)

(* IInv where no reconcile has ended over a request. *)
Whole == TypeOK /\ NamedInv /\ BootInv /\ Rest

-----------------------------------------------------------------------------
(* Types. *)

LEMMA InitType == Init => TypeOK
BY BoundsAssumption
   DEF Init, TypeOK, ProcStates, ManagerStates, Managers, Starts, Stops,
       Boots, FreshManager, Idle, FreshBoot, Pid, Nobody

(* The process that a launch takes is one that was not spawned yet. *)
LEMMA NextPidIsFree ==
    FreePids # {} => NextPid \in Pids /\ proc[NextPid] = "free"
BY DEF FreePids, NextPid

(* The writes of the steps to the records of the manager. *)
LEMMA ManagerWrites ==
    ASSUME NEW m \in Managers, NEW p \in Pid
    PROVE  /\ \A s \in {m.state, "stopped", "running", "stopping", "failed"} :
                 [m EXCEPT !.state = s] \in Managers
           /\ [m EXCEPT !.state = "failed", !.intentional = TRUE] \in Managers
           /\ [m EXCEPT !.state = "running", !.adopted = p] \in Managers
           /\ [m EXCEPT !.state = "failed", !.adopted = Nobody] \in Managers
           /\ [m EXCEPT !.state = "stopping", !.adopted = Nobody] \in Managers
           /\ [m EXCEPT !.state = "stopping", !.intentional = TRUE] \in Managers
           /\ [m EXCEPT !.engine = p] \in Managers
           /\ Launched(p) \in Managers
           /\ [HandledExit(Launched(p)) EXCEPT !.engine = p] \in Managers
           /\ HandledExit(m) \in Managers
BY DEF Managers, ManagerStates, Pid, Launched, HandledExit

LEMMA FreshWrites ==
    /\ Nobody \in Pid
    /\ FreshManager \in Managers
    /\ Idle \in Starts
    /\ Idle \in Stops
    /\ FreshBoot \in Boots
BY DEF FreshManager, Managers, ManagerStates, Idle, Starts, Stops, FreshBoot,
       Boots, Pid

(* What a start makes of the one in flight. *)
LEMMA StartedType ==
    ASSUME starting \in Starts, NEW m
    PROVE  Started(m) \in Starts /\ Resumed(m) \in Starts
BY DEF Started, Resumed, Idle, Starts, Pid

LEMMA StartStepType == TypeOK /\ StartStep => TypeOK'
<1> SUFFICES ASSUME TypeOK, StartStep PROVE TypeOK'
    OBVIOUS
<1> USE FreshWrites DEF TypeOK, counters, OrdersRemoval
<1>1. CASE StartRefused
    BY <1>1, ManagerWrites DEF StartRefused
<1>2. CASE Launch
    <2>1. NextPid \in Pids /\ NextPid \in Pid
        BY <1>2, NextPidIsFree DEF Launch, Pid
    <2>2. mgr' \in Managers
        BY <1>2, <2>1, ManagerWrites DEF Launch
    <2> QED
        BY <1>2, <2>1, <2>2 DEF Launch, ProcStates, Starts
<1>3. CASE LaunchThrows
    <2>1. NextPid \in Pids /\ NextPid \in Pid
        BY <1>3, NextPidIsFree DEF LaunchThrows, Pid
    <2>2. mgr' \in Managers
        BY <1>3, <2>1, ManagerWrites DEF LaunchThrows
    <2> QED
        BY <1>3, <2>1, <2>2 DEF LaunchThrows, ProcStates, Starts
<1>4. CASE BecomesReady
    BY <1>4, ManagerWrites DEF BecomesReady, Starts
<1>5. CASE NotReady
    BY <1>5, ManagerWrites DEF NotReady, Starts
<1>6. CASE StartFails
    BY <1>6 DEF StartFails
<1>7. CASE WriteStateFile
    BY <1>7 DEF WriteStateFile, Starts
<1> QED
    BY <1>1, <1>2, <1>3, <1>4, <1>5, <1>6, <1>7 DEF StartStep

LEMMA HaltsType ==
    ASSUME TypeOK, Halts
    PROVE  mgr' \in Managers /\ stopping' \in Stops
<1>1. mgr \in Managers /\ mgr.engine \in Pid /\ mgr.adopted \in Pid
    BY DEF TypeOK, Managers
<1>2. mgr' \in Managers
    BY <1>1, ManagerWrites, FreshWrites DEF Halts
<1> QED
    BY <1>1, <1>2, FreshWrites DEF Halts, Stops, Idle

LEMMA StopAskedType ==
    ASSUME TypeOK, StopAsked
    PROVE  mgr' \in Managers /\ stopping' \in Stops
BY HaltsType DEF StopAsked, TypeOK, Idle, Stops, Pid

LEMMA StopStepType == TypeOK /\ StopStep => TypeOK'
<1> SUFFICES ASSUME TypeOK, StopStep PROVE TypeOK'
    OBVIOUS
<1> USE FreshWrites DEF TypeOK, counters
<1>1. CASE StartSettled
    BY <1>1, HaltsType DEF StartSettled
<1>2. CASE EngineReaped
    BY <1>2, ManagerWrites DEF EngineReaped, Idle, Stops
<1>3. CASE AdoptedStopEnds
    BY <1>3, ManagerWrites DEF AdoptedStopEnds, Idle, Stops
<1>4. CASE StopEnds
    BY <1>4, StartedType DEF StopEnds
<1> QED
    BY <1>1, <1>2, <1>3, <1>4 DEF StopStep

LEMMA BootStepType == TypeOK /\ (BootStep \/ StatusFindsDead) => TypeOK'
<1> SUFFICES ASSUME TypeOK, BootStep \/ StatusFindsDead PROVE TypeOK'
    OBVIOUS
<1> USE FreshWrites DEF TypeOK, counters, AutoStarts
<1>1. CASE BootReads
    BY <1>1, StartedType DEF BootReads, Boots
<1>2. CASE BootAdopts
    <2>1. boot.record \in Pid
        BY DEF Boots
    <2> QED
        BY <1>2, <2>1, ManagerWrites DEF BootAdopts, RecordKept, Boots
<1>3. CASE BootClears
    BY <1>3, ManagerWrites, StartedType DEF BootClears, Boots
<1>4. CASE BootCleared
    BY <1>4, StartedType DEF BootCleared, Boots
<1>5. CASE StatusFindsDead
    <2>1. mgr.adopted \in Pids
        BY <1>5 DEF StatusFindsDead, Managers, Pid
    <2> QED
        BY <1>5, <2>1, ManagerWrites DEF StatusFindsDead, OrdersRemoval
<1> QED
    BY <1>1, <1>2, <1>3, <1>4, <1>5 DEF BootStep

(* What happens to a process, and how its exit is heard of. *)
ProcessStep(p) ==
    \/ Killed(p) \/ Exit(p) \/ RemovalLands(p)
    \/ Listens(p) \/ Dies(p) \/ Hangs(p)

LEMMA ProcessStepType ==
    ASSUME TypeOK, NEW p \in Pids, ProcessStep(p)
    PROVE  TypeOK'
<1> USE FreshWrites DEF TypeOK, counters
<1>1. CASE Killed(p)
    BY <1>1 DEF Killed, ProcStates
<1>2. CASE Exit(p)
    BY <1>2, ManagerWrites DEF Exit, OrdersRemoval
<1>3. CASE Listens(p) \/ Dies(p)
    BY <1>3 DEF Listens, Dies, Turns, ProcStates
<1>4. CASE Hangs(p)
    BY <1>4, BoundsAssumption DEF Hangs, Turns, ProcStates
<1>5. CASE RemovalLands(p)
    BY <1>5 DEF RemovalLands
<1> QED
    BY <1>1, <1>2, <1>3, <1>4, <1>5 DEF ProcessStep

(* The requests of users. *)
UserStep ==
    \/ StartRoute
    \/ StopRoute
    \/ \E s \in [managed : BOOLEAN, autoStart : BOOLEAN] : SaveSettings(s)

LEMMA UserStepType == TypeOK /\ UserStep => TypeOK'
<1> SUFFICES ASSUME TypeOK, UserStep PROVE TypeOK'
    OBVIOUS
<1> USE BoundsAssumption DEF TypeOK, Call
<1>1. CASE StartRoute
    BY <1>1, StartedType DEF StartRoute
<1>2. CASE StopRoute
    BY <1>2, StopAskedType DEF StopRoute
<1>3. ASSUME NEW s \in [managed : BOOLEAN, autoStart : BOOLEAN],
             SaveSettings(s)
      PROVE  TypeOK'
    BY <1>3, StopAskedType DEF SaveSettings
<1> QED
    BY <1>1, <1>2, <1>3 DEF UserStep

LEMMA ServerStepType == TypeOK /\ (ServerCrashes \/ ServerBoots) => TypeOK'
<1> SUFFICES ASSUME TypeOK, ServerCrashes \/ ServerBoots PROVE TypeOK'
    OBVIOUS
<1> USE BoundsAssumption, FreshWrites DEF TypeOK
<1>1. CASE ServerCrashes
    <2>1. crashes' \in 0 .. MaxCrashes
        BY <1>1 DEF ServerCrashes
    <2> QED
        BY <1>1, <2>1 DEF ServerCrashes
<1>2. CASE ServerBoots
    BY <1>2 DEF ServerBoots, counters
<1> QED
    BY <1>1, <1>2

LEMMA NextCases ==
    ASSUME Next
    PROVE  \/ StartStep \/ StopStep \/ BootStep \/ StatusFindsDead
           \/ \E p \in Pids : ProcessStep(p)
           \/ UserStep \/ ServerCrashes \/ ServerBoots
BY DEF Next, ProcessStep, UserStep

LEMMA NextType == TypeOK /\ [Next]_vars => TypeOK'
<1> SUFFICES ASSUME TypeOK, [Next]_vars PROVE TypeOK'
    OBVIOUS
<1>1. CASE Next
    BY <1>1, NextCases, StartStepType, StopStepType, BootStepType,
       ProcessStepType, UserStepType, ServerStepType
<1>2. CASE UNCHANGED vars
    BY <1>2 DEF TypeOK, vars, counters
<1> QED
    BY <1>1, <1>2

(* Manager, requests, processes, record, its removals and settings are     *)
(* typed.                                                                  *)
THEOREM EngineTypeCorrect == Spec => []TypeOK
BY InitType, NextType, PTL DEF Spec
-----------------------------------------------------------------------------
(* The invariant. *)

LEMMA InitInv == Init => IInv
<1> SUFFICES ASSUME Init PROVE IInv
    OBVIOUS
<1>1. TypeOK
    BY InitType
<1>2. NamedInv /\ BootInv
    BY DEF Init, NamedInv, Named, BootInv, FreshBoot, FreshManager, Idle, Nobody, Pids
<1>3. HoldInv /\ StateInv /\ StartInv /\ FileInv
    BY DEF Init, HoldInv, StateInv, StartInv, FileInv, FreshManager, Idle,
           FreshBoot, Alive, Nobody, Pids
<1> QED
    BY <1>1, <1>2, <1>3 DEF IInv, Rest

(* A step of a start or a stop, or an exit, is one of a server that is up. *)
LEMMA OnlyWhenUp ==
    ASSUME BootInv, StartStep \/ StopStep \/ StatusFindsDead
                    \/ \E p \in Pids : Exit(p) \/ RemovalLands(p)
    PROVE  serverUp
<1>1. CASE StartStep
    BY <1>1 DEF BootInv, Idle, StartStep, StartRefused, Launch, LaunchThrows,
       BecomesReady, NotReady, StartFails, WriteStateFile
<1>2. CASE StopStep
    BY <1>2 DEF BootInv, Idle, StopStep, StartSettled, EngineReaped,
       AdoptedStopEnds, StopEnds
<1>3. CASE \E p \in Pids : Exit(p) \/ RemovalLands(p)
    BY <1>3 DEF BootInv, Exit, RemovalLands
<1>4. CASE StatusFindsDead
    BY <1>4 DEF BootInv, FreshManager, StatusFindsDead
<1> QED
    BY <1>1, <1>2, <1>3, <1>4

(* No step makes a process unspawned, and none names an unspawned one. *)
LEMMA NextNamed ==
    ASSUME TypeOK, NamedInv, Next
    PROVE  NamedInv'
<1> SUFFICES ASSUME NEW q \in Pids PROVE Named(q)' => proc'[q] # "free"
    BY DEF NamedInv
<1>0. q # Nobody /\ (Named(q) => proc[q] # "free")
    BY DEF NamedInv, Pids, Nobody
<1> USE <1>0 DEF TypeOK, Managers, Starts, Stops, Boots, Idle, Named
<1>1. CASE StartStep
    <2>1. CASE Launch
        BY <2>1, NextPidIsFree DEF Launch, Launched
    <2>2. CASE LaunchThrows
        BY <2>2, NextPidIsFree DEF LaunchThrows, Launched, HandledExit
    <2>3. CASE StartRefused
        BY <2>3 DEF StartRefused
    <2>4. CASE BecomesReady
        BY <2>4 DEF BecomesReady
    <2>5. CASE NotReady
        BY <2>5 DEF NotReady
    <2>6. CASE StartFails \/ WriteStateFile
        BY <2>6 DEF StartFails, WriteStateFile
    <2> QED
        BY <1>1, <2>1, <2>2, <2>3, <2>4, <2>5, <2>6 DEF StartStep
<1>2. CASE StopStep
    <2>1. CASE StartSettled
        BY <2>1 DEF StartSettled, Halts
    <2>2. CASE EngineReaped
        BY <2>2 DEF EngineReaped
    <2>3. CASE AdoptedStopEnds
        BY <2>3 DEF AdoptedStopEnds
    <2>4. CASE StopEnds
        BY <2>4 DEF StopEnds, Resumed
    <2> QED
        BY <1>2, <2>1, <2>2, <2>3, <2>4 DEF StopStep
<1>3. CASE BootStep
    <2>1. CASE BootReads
        BY <2>1 DEF BootReads, AutoStarts, Started
    <2>2. CASE BootAdopts
        BY <2>2 DEF BootAdopts, RecordKept
    <2>3. CASE BootClears
        BY <2>3 DEF BootClears
    <2>4. CASE BootCleared
        BY <2>4 DEF BootCleared, AutoStarts, Started
    <2> QED
        BY <1>3, <2>1, <2>2, <2>3, <2>4 DEF BootStep
<1>4. CASE StatusFindsDead
    BY <1>4 DEF StatusFindsDead
<1>5. ASSUME NEW p \in Pids, ProcessStep(p)
      PROVE  Named(q)' => proc'[q] # "free"
    <2>1. CASE Killed(p) \/ Listens(p) \/ Dies(p) \/ Hangs(p)
        BY <2>1 DEF Killed, Listens, Dies, Hangs, Turns
    <2>2. CASE Exit(p)
        BY <2>2 DEF Exit, HandledExit
    <2>3. CASE RemovalLands(p)
        BY <2>3 DEF RemovalLands
    <2> QED
        BY <1>5, <2>1, <2>2, <2>3 DEF ProcessStep
<1>6. CASE UserStep
    <2>1. UNCHANGED <<proc, file, registry, boot>>
        BY <1>6 DEF UserStep, StartRoute, StopRoute, SaveSettings, Call
    <2>2. starting' = starting \/ starting' = Started(mgr)
        BY <1>6 DEF UserStep, StartRoute, StopRoute, SaveSettings
    <2>3. UNCHANGED <<mgr, stopping>> \/ StopAsked
        BY <1>6 DEF UserStep, StartRoute, StopRoute, SaveSettings
    <2>4. q = starting'.pid => q = starting.pid
        BY <2>2 DEF Started
    <2>5. ASSUME Halts, q = mgr'.engine \/ q = mgr'.adopted \/ q = stopping'.pid
          PROVE  Named(q)
        BY <2>5 DEF Halts
    <2>6. \/ q = mgr'.engine \/ q = mgr'.adopted \/ q = stopping'.pid
          => Named(q)
        BY <2>3, <2>5 DEF StopAsked
    <2> QED
        BY <2>1, <2>4, <2>6
<1>7. CASE ServerCrashes \/ ServerBoots
    BY <1>7 DEF ServerCrashes, ServerBoots, FreshManager, FreshBoot
<1> QED
    BY <1>1, <1>2, <1>3, <1>4, <1>5, <1>6, <1>7, NextCases

LEMMA StartStepInv == Whole /\ StartStep => Rest'
<1> SUFFICES ASSUME Whole, StartStep PROVE Rest'
    OBVIOUS
<1> USE NextPidIsFree DEF Whole, Rest, TypeOK, NamedInv, Named, HoldInv, StateInv, StartInv,
        FileInv,
        Managers, Starts, Stops, Boots, Pid, Pids, Nobody, Alive, Idle
<1>1. CASE StartRefused
    <2>1. HoldInv'
        BY <1>1 DEF StartRefused, HoldInv
    <2>2. StateInv'
        BY <1>1 DEF StartRefused, StateInv
    <2>3. StartInv'
        BY <1>1 DEF StartRefused, StartInv
    <2>4. FileInv'
        BY <1>1 DEF StartRefused, FileInv
    <2> QED
        BY <2>1, <2>2, <2>3, <2>4 DEF Rest
<1>2. CASE Launch
    <2>1. HoldInv'
        BY <1>2 DEF Launch, HoldInv, Launched
    <2>2. StateInv'
        BY <1>2 DEF Launch, StateInv, Launched
    <2>3. StartInv'
        BY <1>2 DEF Launch, StartInv, Launched
    <2>4. FileInv'
        BY <1>2 DEF Launch, FileInv, Launched
    <2> QED
        BY <2>1, <2>2, <2>3, <2>4 DEF Rest
<1>3. CASE LaunchThrows
    <2>1. HoldInv'
        BY <1>3 DEF LaunchThrows, OrdersRemoval, HoldInv, Launched, HandledExit
    <2>2. StateInv'
        BY <1>3 DEF LaunchThrows, OrdersRemoval, StateInv, Launched, HandledExit
    <2>3. StartInv'
        BY <1>3 DEF LaunchThrows, OrdersRemoval, StartInv, Launched, HandledExit
    <2>4. FileInv'
        BY <1>3 DEF LaunchThrows, OrdersRemoval, FileInv, Launched, HandledExit
    <2> QED
        BY <2>1, <2>2, <2>3, <2>4 DEF Rest
<1>4. CASE BecomesReady
    <2>1. HoldInv'
        BY <1>4 DEF BecomesReady, HoldInv
    <2>2. StateInv'
        BY <1>4 DEF BecomesReady, StateInv
    <2>3. StartInv'
        BY <1>4 DEF BecomesReady, StartInv
    <2>4. FileInv'
        BY <1>4 DEF BecomesReady, FileInv
    <2> QED
        BY <2>1, <2>2, <2>3, <2>4 DEF Rest
<1>5. CASE NotReady
    <2>1. HoldInv'
        BY <1>5 DEF NotReady, HoldInv
    <2>2. StateInv'
        BY <1>5 DEF NotReady, StateInv
    <2>3. StartInv'
        BY <1>5 DEF NotReady, StartInv
    <2>4. FileInv'
        BY <1>5 DEF NotReady, FileInv
    <2> QED
        BY <2>1, <2>2, <2>3, <2>4 DEF Rest
<1>6. CASE StartFails
    <2> registry = {} /\ mgr.state = "failed"
        BY <1>6 DEF StartFails
    <2>1. HoldInv'
        BY <1>6 DEF StartFails, HoldInv
    <2>2. StateInv'
        BY <1>6 DEF StartFails, StateInv
    <2>3. StartInv'
        BY <1>6 DEF StartFails, StartInv
    <2>4. FileInv'
        BY <1>6 DEF StartFails, FileInv
    <2> QED
        BY <2>1, <2>2, <2>3, <2>4 DEF Rest
<1>7. CASE WriteStateFile
    <2>1. HoldInv'
        BY <1>7 DEF WriteStateFile, HoldInv
    <2>2. StateInv'
        BY <1>7 DEF WriteStateFile, StateInv
    <2>3. StartInv'
        BY <1>7 DEF WriteStateFile, StartInv
    <2>4. FileInv'
        BY <1>7 DEF WriteStateFile, FileInv
    <2> QED
        BY <2>1, <2>2, <2>3, <2>4 DEF Rest
<1> QED
    BY <1>1, <1>2, <1>3, <1>4, <1>5, <1>6, <1>7 DEF StartStep

(* The halting part of runStop, for the stop that waited and for the one   *)
(* that did not have to.                                                   *)
LEMMA HaltsInv ==
    ASSUME Whole, Halts,
           stopping.at \in {"idle", "waiting"},
           starting.at \in {"idle", "queued"},
           starting' = starting, registry' = registry, proc' = proc,
           UNCHANGED <<file, boot, removals, crossed>>
    PROVE  Rest'
<1> USE DEF Whole, Rest, TypeOK, NamedInv, Named, HoldInv, StateInv, StartInv,
        FileInv,
        Managers, Starts, Stops, Boots, Pid, Pids, Nobody, Alive, Idle
<1>1. mgr.state # "starting"
    OBVIOUS
<1>2. registry \subseteq {mgr.engine}
    OBVIOUS
<1>3. CASE HoldsNothing(mgr)
    <2> registry = {}
        BY <1>2, <1>3 DEF HoldsNothing
    <2>1. mgr' = [mgr EXCEPT !.state = "stopped"]
          /\ stopping' = [Idle EXCEPT !.at = "clearing"]
        BY <1>3 DEF Halts
    <2>2. HoldInv' /\ StateInv'
        BY <1>3, <2>1 DEF HoldsNothing
    <2>3. StartInv' /\ FileInv'
        BY <1>3, <2>1 DEF HoldsNothing
    <2> QED
        BY <2>2, <2>3 DEF Rest
<1>4. CASE mgr.engine # Nobody
    BY <1>1, <1>4 DEF Rest, Halts, HoldsNothing
<1>5. CASE mgr.engine = Nobody /\ mgr.adopted # Nobody
    BY <1>1, <1>5 DEF Rest, Halts, HoldsNothing
<1> QED
    BY <1>3, <1>4, <1>5 DEF HoldsNothing

LEMMA StopStepInv == Whole /\ StopStep => Rest'
<1> SUFFICES ASSUME Whole, StopStep PROVE Rest'
    OBVIOUS
<1> USE DEF Whole, Rest, TypeOK, NamedInv, Named, HoldInv, StateInv, StartInv,
        FileInv,
        Managers, Starts, Stops, Boots, Pid, Pids, Nobody, Alive, Idle
<1>1. CASE StartSettled
    BY <1>1, HaltsInv DEF StartSettled
<1>2. CASE EngineReaped
    <2>1. HoldInv'
        BY <1>2 DEF EngineReaped
    <2>2. StateInv'
        BY <1>2 DEF EngineReaped
    <2>3. StartInv'
        BY <1>2 DEF EngineReaped
    <2>4. FileInv'
        BY <1>2 DEF EngineReaped
    <2> QED
        BY <2>1, <2>2, <2>3, <2>4 DEF Rest
<1>3. CASE AdoptedStopEnds
    <2>1. HoldInv'
        BY <1>3 DEF AdoptedStopEnds
    <2>2. StateInv'
        BY <1>3 DEF AdoptedStopEnds
    <2>3. StartInv'
        BY <1>3 DEF AdoptedStopEnds
    <2>4. FileInv'
        BY <1>3 DEF AdoptedStopEnds
    <2> QED
        BY <2>1, <2>2, <2>3, <2>4 DEF Rest
<1>4. CASE StopEnds
    <2>1. HoldInv'
        BY <1>4 DEF StopEnds, Resumed, Admits
    <2>2. StateInv'
        BY <1>4 DEF StopEnds, Resumed, Admits
    <2>3. StartInv'
        BY <1>4 DEF StopEnds, Resumed, Admits
    <2>4. FileInv'
        BY <1>4 DEF StopEnds, Resumed, Admits
    <2> QED
        BY <2>1, <2>2, <2>3, <2>4 DEF Rest
<1> QED
    BY <1>1, <1>2, <1>3, <1>4 DEF StopStep

LEMMA ProcessStepInv ==
    ASSUME Whole, NEW p \in Pids, ProcessStep(p)
    PROVE  Rest'
<1> USE DEF Whole, Rest, TypeOK, NamedInv, Named, HoldInv, StateInv, StartInv,
        FileInv,
        Managers, Starts, Stops, Boots, Pid, Pids, Nobody, Alive, Idle
<1>1. CASE Killed(p)
    <2>1. HoldInv'
        BY <1>1 DEF Killed
    <2>2. StateInv'
        BY <1>1 DEF Killed
    <2>3. StartInv'
        BY <1>1 DEF Killed
    <2>4. FileInv'
        BY <1>1 DEF Killed
    <2> QED
        BY <2>1, <2>2, <2>3, <2>4 DEF Rest
<1>2. CASE Exit(p)
    <2>1. HoldInv'
        BY <1>2 DEF Exit, OrdersRemoval, HandledExit
    <2>2. StateInv'
        BY <1>2 DEF Exit, OrdersRemoval, HandledExit
    <2>3. StartInv'
        BY <1>2 DEF Exit, OrdersRemoval, HandledExit
    <2>4. FileInv'
        BY <1>2 DEF Exit, OrdersRemoval, HandledExit
    <2> QED
        BY <2>1, <2>2, <2>3, <2>4 DEF Rest
<1>3. CASE Listens(p)
    <2>1. HoldInv'
        BY <1>3 DEF Listens, Turns
    <2>2. StateInv'
        BY <1>3 DEF Listens, Turns
    <2>3. StartInv'
        BY <1>3 DEF Listens, Turns
    <2>4. FileInv'
        BY <1>3 DEF Listens, Turns
    <2> QED
        BY <2>1, <2>2, <2>3, <2>4 DEF Rest
<1>4. CASE Dies(p)
    <2>1. HoldInv'
        BY <1>4 DEF Dies, Turns
    <2>2. StateInv'
        BY <1>4 DEF Dies, Turns
    <2>3. StartInv'
        BY <1>4 DEF Dies, Turns
    <2>4. FileInv'
        BY <1>4 DEF Dies, Turns
    <2> QED
        BY <2>1, <2>2, <2>3, <2>4 DEF Rest
<1>5. CASE RemovalLands(p)
    <2>1. HoldInv'
        BY <1>5 DEF RemovalLands
    <2>2. StateInv'
        BY <1>5 DEF RemovalLands
    <2>3. StartInv'
        BY <1>5 DEF RemovalLands
    <2>4. FileInv'
        BY <1>5 DEF RemovalLands
    <2> QED
        BY <2>1, <2>2, <2>3, <2>4 DEF Rest
<1>6. CASE Hangs(p)
    <2>1. HoldInv'
        BY <1>6 DEF Hangs, Turns
    <2>2. StateInv'
        BY <1>6 DEF Hangs, Turns
    <2>3. StartInv'
        BY <1>6 DEF Hangs, Turns
    <2>4. FileInv'
        BY <1>6 DEF Hangs, Turns
    <2> QED
        BY <2>1, <2>2, <2>3, <2>4 DEF Rest
<1> QED
    BY <1>1, <1>2, <1>3, <1>4, <1>5, <1>6 DEF ProcessStep

(* A start that is asked for, by a user or by autoStart. *)
LEMMA StartedInv ==
    ASSUME Whole, starting' = starting \/ starting' = Started(mgr),
           UNCHANGED <<proc, registry, mgr, stopping>>
    PROVE  HoldInv' /\ StateInv' /\ StartInv'
<1>1. HoldInv'
    BY DEF Whole, Rest, HoldInv, Alive
<1>2. StateInv' /\ StartInv'
    BY DEF Started, Admits, Whole, Rest, TypeOK, HoldInv, StateInv, StartInv,
       Managers, ManagerStates, Starts, Stops, Idle, Alive
<1> QED
    BY <1>1, <1>2

(* The last step of the reconcile keeps what holds of the requests, or has *)
(* ended over one of them.                                                 *)
LEMMA BootStepInv ==
    ASSUME Whole, BootStep \/ StatusFindsDead
    PROVE  "boot" \in crossed' \/ Rest'
<1> USE DEF Whole, Rest, TypeOK, NamedInv, Named, BootInv, HoldInv,
        StateInv, StartInv, FileInv, Managers, Starts, Stops, Boots, Pid, Pids, Nobody, Alive, Idle
<1>1. CASE BootReads
    <2>1. /\ UNCHANGED <<proc, file, removals, registry, mgr, stopping, crossed>>
          /\ boot'.at = "done" => file = Nobody
          /\ starting' = starting \/ starting' = Started(mgr)
          /\ starting.at = "recording" => starting'.at = "recording"
        BY <1>1 DEF BootReads, AutoStarts, Started
    <2>2. HoldInv' /\ StateInv' /\ StartInv'
        BY <2>1, StartedInv
    <2>3. FileInv'
        BY <2>1
    <2> QED
        BY <2>2, <2>3 DEF Rest
<1>2. CASE BootAdopts
    <2> SUFFICES ASSUME ~Disturbed PROVE Rest'
        BY <1>2 DEF BootAdopts
    <2> registry = {} /\ mgr.engine = Nobody
        BY DEF Disturbed
    <2>1. HoldInv'
        BY <1>2 DEF BootAdopts, RecordKept, Disturbed
    <2>2. StateInv'
        BY <1>2 DEF BootAdopts, RecordKept, Disturbed
    <2>3. StartInv'
        BY <1>2 DEF BootAdopts, RecordKept, Disturbed
    <2>4. FileInv'
        BY <1>2 DEF BootAdopts, RecordKept, Disturbed
    <2> QED
        BY <2>1, <2>2, <2>3, <2>4 DEF Rest
<1>3. CASE BootClears
    <2> SUFFICES ASSUME ~Disturbed PROVE Rest'
        BY <1>3 DEF BootClears
    <2> registry = {} /\ mgr.engine = Nobody
        BY DEF Disturbed
    <2>1. HoldInv'
        BY <1>3 DEF BootClears, Disturbed
    <2>2. StateInv'
        BY <1>3 DEF BootClears, Disturbed
    <2>3. StartInv'
        BY <1>3 DEF BootClears, Disturbed
    <2>4. FileInv'
        BY <1>3 DEF BootClears, Disturbed
    <2> QED
        BY <2>1, <2>2, <2>3, <2>4 DEF Rest
<1>4. CASE BootCleared
    <2> SUFFICES ASSUME "boot" \notin crossed' PROVE Rest'
        OBVIOUS
    <2>1. /\ "boot" \notin crossed
          /\ file' = Nobody
          /\ file \in {boot.record, Nobody}
          /\ crossed' = crossed
        BY <1>4 DEF BootCleared
    <2>2. /\ UNCHANGED <<proc, removals, registry, mgr, stopping>>
          /\ starting' = starting \/ starting' = Started(mgr)
          /\ starting.at = "recording" => starting'.at = "recording"
        BY <1>4 DEF BootCleared, AutoStarts, Started
    <2>3. HoldInv' /\ StateInv' /\ StartInv'
        BY <2>2, StartedInv
    <2>4. ~(mgr.state = "running" /\ starting.at # "recording" /\ crossed = {})
        BY <1>4, <2>1 DEF BootCleared
    <2>5. FileInv'
        BY <2>1, <2>2, <2>4
    <2> QED
        BY <2>3, <2>5 DEF Rest
<1>5. CASE StatusFindsDead
    <2>1. HoldInv'
        BY <1>5 DEF StatusFindsDead
    <2>2. StateInv'
        BY <1>5 DEF StatusFindsDead
    <2>3. StartInv'
        BY <1>5 DEF StatusFindsDead
    <2>4. FileInv'
        BY <1>5 DEF StatusFindsDead
    <2> QED
        BY <2>1, <2>2, <2>3, <2>4 DEF Rest
<1> QED
    BY <1>1, <1>2, <1>3, <1>4, <1>5 DEF BootStep

LEMMA StopAskedInv ==
    ASSUME Whole, StopAsked,
           starting' = starting, registry' = registry, proc' = proc,
           UNCHANGED <<file, boot, removals, crossed>>
    PROVE  Rest'
<1> USE DEF Whole, Rest, TypeOK, NamedInv, Named, HoldInv, StateInv, StartInv,
        FileInv,
        Managers, Starts, Stops, Boots, Pid, Pids, Nobody, Alive, Idle
<1>1. CASE UNCHANGED <<mgr, stopping>>
    BY <1>1 DEF Rest
<1>2. CASE /\ stopping.at = "idle" /\ mgr.state \notin {"stopped", "stopping"}
           /\ starting.at # "idle"
           /\ stopping' = [Idle EXCEPT !.at = "waiting"]
           /\ UNCHANGED mgr
    BY <1>2 DEF Rest
<1>3. CASE stopping.at = "idle" /\ starting.at = "idle" /\ Halts
    BY <1>3, HaltsInv
<1> QED
    BY <1>1, <1>2, <1>3 DEF StopAsked

LEMMA UserStepInv == Whole /\ UserStep => Rest'
<1> SUFFICES ASSUME Whole, UserStep PROVE Rest'
    OBVIOUS
<1>1. CASE StartRoute
    <2>1. UNCHANGED <<mgr, stopping, registry, proc, file, boot, removals,
                    crossed>>
        BY <1>1 DEF StartRoute, Call
    <2>2. starting' = Started(mgr)
        BY <1>1 DEF StartRoute
    <2>3. HoldInv' /\ StateInv' /\ StartInv'
        BY <2>1, <2>2, StartedInv
    <2>5. starting.at = "recording" => starting'.at = "recording"
        BY <2>2 DEF Started
    <2>6. FileInv'
        BY <2>1, <2>5 DEF Whole, Rest, FileInv, Alive
    <2> QED
        BY <2>3, <2>6 DEF Rest
<1>2. CASE StopRoute
    BY <1>2, StopAskedInv DEF StopRoute, Call
<1>3. ASSUME NEW s \in [managed : BOOLEAN, autoStart : BOOLEAN],
             SaveSettings(s)
      PROVE  Rest'
    <2>1. CASE StopAsked
        BY <1>3, <2>1, StopAskedInv DEF SaveSettings, Call
    <2>2. CASE UNCHANGED <<mgr, stopping>>
        BY <1>3, <2>2 DEF SaveSettings, Call, Rest, Whole, HoldInv, StateInv,
           StartInv, FileInv, Alive
    <2> QED
        BY <1>3, <2>1, <2>2 DEF SaveSettings
<1> QED
    BY <1>1, <1>2, <1>3 DEF UserStep

(* A server that has just died, or has just come back, holds nothing. *)
LEMMA ServerStepInv ==
    ASSUME TypeOK, BootInv, ServerCrashes \/ ServerBoots
    PROVE  Rest' /\ BootInv'
<1>1. /\ mgr' = FreshManager
      /\ registry' = {} /\ removals' = {}
      /\ starting' = Idle /\ stopping' = Idle
      /\ boot' = FreshBoot
      /\ "boot" \notin crossed'
    <2>1. CASE ServerCrashes
        BY <2>1 DEF ServerCrashes
    <2>2. CASE ServerBoots
        BY <2>2 DEF BootInv, ServerBoots, FreshBoot
    <2> QED
        BY <2>1, <2>2
<1>2. BootInv'
    BY <1>1 DEF BootInv, FreshBoot, FreshManager
<1>3. HoldInv'
    BY <1>1 DEF HoldInv, FreshManager, Pids, Nobody
<1>4. StateInv' /\ StartInv' /\ FileInv'
    BY <1>1 DEF StateInv, StartInv, FileInv, FreshManager, FreshBoot, Idle
<1> QED
    BY <1>2, <1>3, <1>4 DEF Rest

LEMMA NextBootInv ==
    ASSUME TypeOK, NamedInv, BootInv, "boot" \in crossed \/ Rest, Next
    PROVE  BootInv'
<1> USE DEF BootInv
<1>1. CASE StartStep \/ StopStep \/ StatusFindsDead
    <2>1. serverUp /\ UNCHANGED <<serverUp, boot>>
        BY <1>1, OnlyWhenUp DEF StartStep, StopStep, StatusFindsDead,
           StartRefused, Launch, LaunchThrows, BecomesReady, NotReady,
           StartFails, WriteStateFile, StartSettled, EngineReaped,
           AdoptedStopEnds, StopEnds
    <2>2. mgr.adopted = Nobody => mgr'.adopted = Nobody
        <3> USE DEF TypeOK, Managers
        <3>0. CASE Launch \/ LaunchThrows
            <4>1. CASE Launch
                BY <4>1 DEF Launch, Launched
            <4>2. CASE LaunchThrows
                BY <4>2 DEF LaunchThrows, Launched, HandledExit
            <4> QED
                BY <3>0, <4>1, <4>2
        <3>1. CASE StartStep /\ ~(Launch \/ LaunchThrows)
            BY <3>1 DEF StartStep, StartRefused, BecomesReady, NotReady,
               StartFails, WriteStateFile
        <3>2. CASE StopStep \/ StatusFindsDead
            BY <3>2 DEF StopStep, StartSettled, Halts, EngineReaped,
               AdoptedStopEnds, StopEnds, StatusFindsDead
        <3> QED
            BY <1>1, <3>0, <3>1, <3>2
    <2>3. "boot" \in crossed' <=> "boot" \in crossed
        BY <1>1 DEF StartStep, StopStep, StatusFindsDead,
           StartRefused, Launch, LaunchThrows, BecomesReady, NotReady,
           StartFails, WriteStateFile, StartSettled, EngineReaped,
           AdoptedStopEnds, StopEnds
    <2>4. ASSUME boot.at = "clearing", "boot" \notin crossed
          PROVE  boot.record # mgr'.engine
        <3>1. /\ boot.record \in Pids /\ boot.record # Nobody
              /\ boot.record # mgr.engine /\ proc[boot.record] # "free"
            BY <2>4 DEF TypeOK, NamedInv, Named, Boots, Pid
        <3> USE DEF TypeOK, Managers
        <3>2. CASE Launch \/ LaunchThrows
            <4>1. CASE Launch
                BY <3>1, <4>1, NextPidIsFree DEF Launch, Launched
            <4>2. CASE LaunchThrows
                BY <3>1, <4>2, NextPidIsFree
                   DEF LaunchThrows, Launched, HandledExit
            <4> QED
                BY <3>2, <4>1, <4>2
        <3>3. CASE StartStep /\ ~(Launch \/ LaunchThrows)
            BY <3>1, <3>3 DEF StartStep, StartRefused, BecomesReady, NotReady,
               StartFails, WriteStateFile
        <3>4. CASE StopStep \/ StatusFindsDead
            BY <3>1, <3>4 DEF StopStep, StartSettled, Halts, EngineReaped,
               AdoptedStopEnds, StopEnds, StatusFindsDead
        <3> QED
            BY <1>1, <3>2, <3>3, <3>4
    <2> QED
        BY <2>1, <2>2, <2>3, <2>4
<1>2. CASE BootReads
    BY <1>2 DEF TypeOK, Boots, BootReads
<1>3. CASE BootAdopts
    BY <1>3 DEF TypeOK, Boots, BootAdopts, FreshBoot
<1>4. CASE BootClears
    <2>1. /\ boot'.at = "clearing" /\ boot'.record = file
          /\ mgr'.adopted = Nobody /\ mgr'.engine = mgr.engine
          /\ UNCHANGED serverUp /\ serverUp
        BY <1>4 DEF TypeOK, Boots, Managers, BootClears, FreshBoot
    <2>2. ASSUME "boot" \notin crossed'
          PROVE  file # Nobody /\ file # mgr.engine
        <3>1. ~Disturbed /\ "boot" \notin crossed
            BY <1>4, <2>2 DEF BootClears
        <3>2. file = boot.record /\ mgr.engine = Nobody
            BY <3>1 DEF Disturbed
        <3> QED
            BY <1>4, <3>2 DEF BootClears
    <2> QED
        BY <2>1, <2>2
<1>5. CASE BootCleared
    BY <1>5 DEF TypeOK, Boots, BootCleared, FreshBoot
<1>6. ASSUME NEW p \in Pids, ProcessStep(p)
      PROVE  BootInv'
    <2>1. CASE Exit(p) \/ RemovalLands(p)
        <3>1. serverUp
            BY <2>1, OnlyWhenUp
        <3> QED
            BY <2>1, <3>1 DEF TypeOK, Managers, Exit, RemovalLands, HandledExit
    <2>2. CASE Killed(p) \/ Listens(p) \/ Dies(p) \/ Hangs(p)
        BY <2>2 DEF Killed, Listens, Dies, Hangs, Turns
    <2> QED
        BY <1>6, <2>1, <2>2 DEF ProcessStep
<1>7. CASE UserStep
    <2>1. serverUp /\ UNCHANGED <<serverUp, boot, crossed>>
        BY <1>7 DEF UserStep, StartRoute, StopRoute, SaveSettings, Call
    <2>2. /\ mgr.adopted = Nobody => mgr'.adopted = Nobody
          /\ mgr'.engine = mgr.engine
        BY <1>7 DEF TypeOK, Managers, UserStep, StartRoute, StopRoute,
           SaveSettings, StopAsked, Halts
    <2> QED
        BY <2>1, <2>2
<1>8. CASE ServerCrashes \/ ServerBoots
    BY <1>8, ServerStepInv
<1> QED
    BY <1>1, <1>2, <1>3, <1>4, <1>5, <1>6, <1>7, <1>8, NextCases DEF BootStep

(* Only a death of the server makes it forget that a request was written   *)
(* over.                                                                   *)
LEMMA NextCrossed ==
    ASSUME BootInv, "boot" \in crossed, Next
    PROVE  "boot" \in crossed' \/ ServerCrashes
<1>1. CASE StartStep \/ StopStep \/ StatusFindsDead
    BY <1>1 DEF StartStep, StopStep, StatusFindsDead, StartRefused, Launch,
       LaunchThrows, BecomesReady, NotReady, StartFails, WriteStateFile,
       StartSettled, EngineReaped, AdoptedStopEnds, StopEnds
<1>2. CASE BootStep
    BY <1>2 DEF BootInv, BootStep, BootReads, BootAdopts, BootClears,
       BootCleared
<1>3. ASSUME NEW p \in Pids, ProcessStep(p)
      PROVE  "boot" \in crossed'
    BY <1>3 DEF ProcessStep, Killed, Exit, RemovalLands, Listens, Dies, Hangs,
       Turns
<1>4. CASE UserStep
    BY <1>4 DEF UserStep, StartRoute, StopRoute, SaveSettings, Call
<1>5. CASE ServerBoots
    BY <1>5 DEF ServerBoots
<1> QED
    BY <1>1, <1>2, <1>3, <1>4, <1>5, NextCases

LEMMA NextInv == IInv /\ [Next]_vars => IInv'
<1> SUFFICES ASSUME IInv, [Next]_vars PROVE IInv'
    OBVIOUS
<1>1. TypeOK'
    BY NextType DEF IInv
<1>2. CASE Next
    <2>1. NamedInv' /\ BootInv'
        BY <1>2, NextNamed, NextBootInv DEF IInv
    <2>2. ASSUME "boot" \in crossed
          PROVE  "boot" \in crossed' \/ Rest'
        BY <1>2, <2>2, NextCrossed, ServerStepInv DEF IInv
    <2>3. ASSUME Rest
          PROVE  "boot" \in crossed' \/ Rest'
        BY <1>2, <2>3, NextCases, StartStepInv, StopStepInv, ProcessStepInv,
           BootStepInv, UserStepInv, ServerStepInv DEF IInv, Whole
    <2>4. "boot" \in crossed' \/ Rest'
        BY <2>2, <2>3 DEF IInv
    <2> QED
        BY <1>1, <2>1, <2>4 DEF IInv
<1>3. CASE UNCHANGED vars
    <2>1. NamedInv' /\ BootInv' /\ (Rest => Rest') /\ crossed' = crossed
        BY <1>3 DEF vars, counters, IInv, NamedInv, Named, BootInv, Rest, HoldInv,
           StateInv, StartInv, FileInv, Alive
    <2> QED
        BY <1>1, <2>1 DEF IInv
<1> QED
    BY <1>2, <1>3

-----------------------------------------------------------------------------
(* The theorems. *)

LEMMA InvHolds == Spec => []IInv
<1>1. IInv /\ [Next]_vars => IInv'
    BY NextInv
<1> QED
    BY <1>1, InitInv, PTL DEF Spec

(* When the manager says stopped no child of this server is left and no    *)
(* adopted engine is held, whichever of stop, exit, failed start and       *)
(* reconcile said it last, with users that call at any time: only a        *)
(* reconcile that ended over one of their requests leaves it in doubt.     *)
THEOREM StoppedHoldsNone == Spec => []StoppedMeansNone
<1>1. IInv => StoppedMeansNone
    BY DEF IInv, Rest, StateInv, StoppedMeansNone
<1> QED
    BY <1>1, InvHolds, PTL

(* A running engine, spawned or adopted, is the one that the state file    *)
(* names, but for the start that is about to write it: a removal that an   *)
(* earlier engine's end ordered and nobody awaits takes it away only when  *)
(* the file was written before that removal landed.                        *)
THEOREM RunningStaysRecorded == Spec => []RunningIsRecorded
<1>1. IInv => RunningIsRecorded
    BY DEF IInv, Rest, FileInv, RunningIsRecorded
<1> QED
    BY <1>1, InvHolds, PTL

(* Once the reconcile has ended, and over no request, runStart spawns only *)
(* beside no engine of the studio that lives: neither a child, nor an      *)
(* adopted one, nor the one that the state file names.                     *)
THEOREM SpawnsAreSingle == Spec => SpawnsAlone
<1>1. ASSUME IInv, Next, NEW p \in Pids, Spawned(p), boot.at = "done",
             "boot" \notin crossed
      PROVE  Alone
    <2>1. Launch \/ LaunchThrows
        <3>1. ASSUME NEW q \in Pids, ProcessStep(q)
              PROVE  FALSE
            BY <1>1, <3>1 DEF IInv, TypeOK, ProcessStep, Killed, Exit,
               RemovalLands, Listens, Dies, Hangs, Turns, Alive, Spawned
        <3> QED
            BY <1>1, <3>1, NextCases DEF StartStep, StartRefused,
               BecomesReady, NotReady, StartFails, WriteStateFile, StopStep,
               StartSettled, EngineReaped, AdoptedStopEnds, StopEnds,
               BootStep, BootReads, BootAdopts, BootClears, BootCleared,
               StatusFindsDead, UserStep, StartRoute, StopRoute, SaveSettings,
               Call, ServerCrashes, ServerBoots, Spawned
    <2>2. starting.at = "preparing"
        BY <2>1 DEF Launch, LaunchThrows
    <2>3. registry = {} /\ mgr.adopted = Nobody
        BY <1>1, <2>2 DEF IInv, Rest, StartInv, StateInv
    <2>4. ~Alive(file)
        BY <1>1, <2>2, <2>3 DEF IInv, Rest, StartInv, FileInv, Alive
    <2> QED
        BY <2>3, <2>4 DEF Alone, Alive
<1>2. IInv /\ [Next]_vars =>
        [\A p \in Pids :
            Spawned(p) /\ boot.at = "done" /\ "boot" \notin crossed
                => Alone]_vars
    BY <1>1
<1> QED
    BY <1>2, InvHolds, PTL DEF Spec, SpawnsAlone

(* handleExit tells an ordered exit from a crash: stopped exactly when a   *)
(* stop waits for the process that left, in a server whose reconcile did   *)
(* not end over a request.                                                 *)
THEOREM ExitsAreToldApart == Spec => ExitIsToldApart
<1>1. ASSUME IInv, Next, NEW p \in registry, serverUp', p \notin registry',
             "boot" \notin crossed
      PROVE  mgr'.state = IF stopping.at = "reaping" /\ stopping.pid = p
                             THEN "stopped" ELSE "failed"
    <2>1. Exit(p)
        BY <1>1 DEF Next, StartStep, StartRefused, Launch, LaunchThrows,
           BecomesReady, NotReady, StartFails, WriteStateFile, StopStep,
           StartSettled, EngineReaped, AdoptedStopEnds, StopEnds, BootStep,
           BootReads, BootAdopts, BootClears, BootCleared, StatusFindsDead,
           Killed, Exit, RemovalLands, Listens, Dies, Hangs, Turns, StartRoute,
           StopRoute, SaveSettings, Call, ServerCrashes, ServerBoots
    <2>2. mgr' = HandledExit(mgr) /\ mgr \in Managers /\ p \in Pids
        BY <1>1, <2>1 DEF Exit, IInv, TypeOK
    <2>3. p = mgr.engine /\ mgr.adopted = Nobody
        BY <1>1, <2>2 DEF IInv, Rest, HoldInv, StateInv
    <2>4. CASE stopping.at = "reaping" /\ stopping.pid = p
        <3>1. mgr.state = "stopping"
            BY <1>1, <2>4 DEF IInv, Rest, StartInv
        <3> QED
            BY <2>2, <2>4, <3>1 DEF HandledExit, Managers
    <2>5. CASE ~(stopping.at = "reaping" /\ stopping.pid = p)
        <3>1. mgr.state = "failed" \/ (mgr.state \in {"starting", "running"}
                                      /\ ~mgr.intentional)
            BY <1>1, <2>2, <2>3, <2>5
               DEF IInv, Rest, StateInv, Managers, ManagerStates
        <3> QED
            BY <2>2, <2>5, <3>1 DEF HandledExit, Managers
    <2> QED
        BY <2>4, <2>5
<1>2. IInv /\ [Next]_vars =>
        [\A p \in registry :
            serverUp' /\ p \notin registry' /\ "boot" \notin crossed =>
                mgr'.state = IF stopping.at = "reaping" /\ stopping.pid = p
                                THEN "stopped" ELSE "failed"]_vars
    BY <1>1
<1> QED
    BY <1>2, InvHolds, PTL DEF Spec, ExitIsToldApart

=============================================================================

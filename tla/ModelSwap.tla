------------------------------ MODULE ModelSwap ------------------------------
(***************************************************************************)
(* Replacing, releasing, renaming and removing models on a gateway that is *)
(* serving (crates/lightweight-gateway/src/manager.rs, catalog.rs and      *)
(* control.rs; the engine record of crates/lightweight-backend-llamacpp    *)
(* src/backend.rs), together with the chat requests that run meanwhile.    *)
(*                                                                         *)
(* Admission is the slot gate that Scheduler implements.  Every await of   *)
(* an operation at which another task can run is a stage of that           *)
(* operation.  Engines are numbered by instance; a model is its catalog    *)
(* id, and an alias a name or None.                                        *)
(***************************************************************************)
EXTENDS Naturals, FiniteSets

CONSTANTS Requests,      \* chat request tasks
          Loads,         \* load, install and import jobs
          Unloads,       \* calls of POST /models/unload
          Removes,       \* calls of DELETE /models/{id}
          Renames,       \* calls of PATCH /models/{id}
          Models,        \* catalog ids
          Aliases,       \* names a user may give
          MaxCapacity,   \* largest slot count of an engine
          MaxInstance    \* bound on engines launched in a behaviour

VARIABLES running, paused, capacity,      \* the slot gate
          pc,         \* where each request is
          held,       \* the instance a request captured before it queued
          engine,     \* ProcessBackend.running: the resident engine or NoEngine
          crashed,    \* instances whose process died by itself
          slots,      \* ProcessBackend.slots
          lastInstance,
          resident,   \* Catalog.resident: what /v1/models advertises, or NoResident
          installed,  \* the catalog's records
          files,      \* the models whose weights are on disk
          alias,      \* the alias of each record
          operation,  \* ModelManager.operation: who holds it, or None
          load, unload, remove, rename

gate == <<running, paused, capacity>>
requests == <<pc, held>>
backend == <<engine, crashed, slots, lastInstance>>
catalog == <<resident, installed, files, alias>>
operations == <<operation, load, unload, remove, rename>>
vars == <<gate, requests, backend, catalog, operations>>

Gate == INSTANCE SlotGate WITH Size <- Cardinality

None == "none"
NoEngine == [instance |-> 0]
NoResident == [instance |-> 0]
Idle == [stage |-> "idle"]

Instances == 1..MaxInstance

ASSUME BoundsAssumption ==
    MaxCapacity \in Nat \ {0} /\ MaxInstance \in Nat \ {0}

\* An operation that holds the lock is told from no operation.
ASSUME LoadsAssumption == None \notin Loads

Resident == [model : Models, instance : Instances, alias : Aliases \cup {None}]
Engine == [model : Models, instance : Instances, slots : 1..MaxCapacity]

-----------------------------------------------------------------------------
(* Chat requests. *)

\* ProcessBackend::client_for finds this instance, and its process is alive.
Reaches(i) == engine.instance = i /\ i \notin crashed

\* serve_chat without a resident model: the request is refused at once.
Refused(r) ==
    /\ pc[r] = "idle"
    /\ resident = NoResident
    /\ UNCHANGED vars

\* serve_chat reads the resident model before it queues.
Capture(r) ==
    /\ pc[r] = "idle"
    /\ resident # NoResident
    /\ pc' = [pc EXCEPT ![r] = "captured"]
    /\ held' = [held EXCEPT ![r] = resident.instance]
    /\ UNCHANGED <<gate, backend, catalog, operations>>

\* The pre-flight: a prompt too long, or an engine that cannot count it,
\* ends the request before it queues.
Count(r) ==
    /\ pc[r] = "captured"
    /\ \/ pc' = [pc EXCEPT ![r] = "idle"]
       \/ Reaches(held[r]) /\ pc' = [pc EXCEPT ![r] = "waiting"]
    /\ UNCHANGED <<gate, held, backend, catalog, operations>>

\* A slot is granted.
Admit(r) ==
    /\ pc[r] = "waiting"
    /\ Gate!Open({r})
    /\ pc' = [pc EXCEPT ![r] = "admitted"]
    /\ UNCHANGED <<held, backend, catalog, operations>>

\* InferenceBackend::generate on the captured instance, or NoModelLoaded.
Generate(r) ==
    /\ pc[r] = "admitted"
    /\ IF Reaches(held[r])
       THEN /\ pc' = [pc EXCEPT ![r] = "generating"]
            /\ UNCHANGED gate
       ELSE /\ pc' = [pc EXCEPT ![r] = "refused"]
            /\ Gate!Release(r, {})
    /\ UNCHANGED <<held, backend, catalog, operations>>

\* The generation ends, however it ends, and its permit is dropped.
Finish(r) ==
    /\ pc[r] = "generating"
    /\ pc' = [pc EXCEPT ![r] = "idle"]
    /\ Gate!Release(r, {})
    /\ UNCHANGED <<held, backend, catalog, operations>>

\* A refused request was answered; a waiting one gives up.
Leave(r) ==
    /\ pc[r] \in {"refused", "waiting"}
    /\ pc' = [pc EXCEPT ![r] = "idle"]
    /\ UNCHANGED <<gate, held, backend, catalog, operations>>

-----------------------------------------------------------------------------
(* The engine process. *)

\* The engine dies: killed for memory, a crash.
EngineDies ==
    /\ engine # NoEngine
    /\ engine.instance \notin crashed
    /\ crashed' = crashed \cup {engine.instance}
    /\ UNCHANGED <<gate, requests, engine, slots, lastInstance, catalog,
                   operations>>

\* ProcessBackend::health notices a dead engine and forgets it.
Health ==
    /\ engine # NoEngine
    /\ engine.instance \in crashed
    /\ engine' = NoEngine
    /\ UNCHANGED <<gate, requests, crashed, slots, lastInstance, catalog,
                   operations>>

-----------------------------------------------------------------------------
(* load_model. *)

\* Every way out of load_model drops the pause guard, then the lock.
LoadEnds(l) ==
    /\ load' = [load EXCEPT ![l] = Idle]
    /\ operation' = None
    /\ Gate!Reopen({})

\* The lock, the record, its file, and the memory verdict that admits it.
LoadBegin(l, m) ==
    /\ load[l] = Idle
    /\ operation = None
    /\ m \in installed \cap files
    /\ operation' = l
    /\ load' = [load EXCEPT ![l] =
                   [stage |-> "judged", model |-> m, alias |-> alias[m]]]
    /\ UNCHANGED <<gate, requests, backend, catalog, unload, remove, rename>>

LoadPause(l) ==
    /\ load[l].stage = "judged"
    /\ Gate!Close
    /\ load' = [load EXCEPT ![l].stage = "draining"]
    /\ UNCHANGED <<requests, backend, catalog, operation, unload, remove,
                   rename>>

\* Mutant of LoadDrained: the swap does not wait for running requests.
LoadSkipsDrain(l) ==
    /\ load[l].stage = "draining"
    /\ load' = [load EXCEPT ![l].stage = "drained"]
    /\ UNCHANGED <<gate, requests, backend, catalog, operation, unload,
                   remove, rename>>

LoadDrained(l) ==
    /\ load[l].stage = "draining"
    /\ running = {}
    /\ load' = [load EXCEPT ![l].stage = "drained"]
    /\ UNCHANGED <<gate, requests, backend, catalog, operation, unload,
                   remove, rename>>

\* Mutant of LoadDrainTimeout: the lock is kept by a swap that gave up.
LoadTimeoutKeepsLock(l) ==
    /\ load[l].stage = "draining"
    /\ running # {}
    /\ load' = [load EXCEPT ![l] = Idle]
    /\ Gate!Reopen({})
    /\ UNCHANGED <<requests, backend, catalog, operation, unload, remove,
                   rename>>

LoadDrainTimeout(l) ==
    /\ load[l].stage = "draining"
    /\ running # {}
    /\ LoadEnds(l)
    /\ UNCHANGED <<requests, backend, catalog, unload, remove, rename>>

\* Mutant of BackendRefuses: the engine is stopped before the checks.
BackendStopsThenRefuses(l) ==
    /\ load[l].stage = "drained"
    /\ engine' = NoEngine
    /\ LoadEnds(l)
    /\ UNCHANGED <<requests, crashed, slots, lastInstance, catalog, unload,
                   remove, rename>>

\* backend.load refuses: admit, the runtime's installation, cancellation.
BackendRefuses(l) ==
    /\ load[l].stage = "drained"
    /\ LoadEnds(l)
    /\ UNCHANGED <<requests, backend, catalog, unload, remove, rename>>

\* backend.load stops the previous engine before it launches the next.
BackendStops(l) ==
    /\ load[l].stage = "drained"
    /\ load[l].model \in files
    /\ engine' = NoEngine
    /\ load' = [load EXCEPT ![l].stage = "stopped"]
    /\ UNCHANGED <<gate, requests, crashed, slots, lastInstance, catalog,
                   operation, unload, remove, rename>>

\* supervisor::start gives up: a crash, the timeout, a missing file.
BackendFails(l) ==
    /\ load[l].stage = "stopped"
    /\ LoadEnds(l)
    /\ UNCHANGED <<requests, backend, catalog, unload, remove, rename>>

\* The engine is up: supervisor::start, the properties it reports.
BackendStarts(l, n) ==
    /\ load[l].stage = "stopped"
    /\ load[l].model \in files
    /\ lastInstance < MaxInstance
    /\ lastInstance' = lastInstance + 1
    /\ slots' = n
    /\ engine' = [model |-> load[l].model, instance |-> lastInstance + 1,
                  slots |-> n]
    /\ load' = [load EXCEPT ![l] =
                   [stage |-> "started", model |-> load[l].model,
                    alias |-> load[l].alias, instance |-> lastInstance + 1,
                    slots |-> n]]
    /\ UNCHANGED <<gate, requests, crashed, catalog, operation, unload,
                   remove, rename>>

\* set_band_limits and set_capacity follow the engine that is running.
LoadResizes(l) ==
    /\ load[l].stage = "started"
    /\ Gate!SetCapacity(load[l].slots)
    /\ load' = [load EXCEPT ![l].stage = "sized"]
    /\ UNCHANGED <<requests, backend, catalog, operation, unload, remove,
                   rename>>

LoadPublishes(l) ==
    /\ load[l].stage = "sized"
    /\ resident' = [model |-> load[l].model, instance |-> load[l].instance,
                    alias |-> load[l].alias]
    /\ load' = [load EXCEPT ![l].stage = "published"]
    /\ UNCHANGED <<gate, requests, backend, installed, files, alias, operation,
                   unload, remove, rename>>

\* mark_loaded, the job's success, and the guards dropped.
LoadSucceeds(l) ==
    /\ load[l].stage = "published"
    /\ LoadEnds(l)
    /\ UNCHANGED <<requests, backend, catalog, unload, remove, rename>>

-----------------------------------------------------------------------------
(* install and import hold the operation lock and add a record. *)

InstallBegin(l, m) ==
    /\ load[l] = Idle
    /\ operation = None
    /\ m \notin installed
    /\ operation' = l
    /\ load' = [load EXCEPT ![l] = [stage |-> "installing", model |-> m]]
    /\ UNCHANGED <<gate, requests, backend, catalog, unload, remove, rename>>

InstallEnds(l) ==
    /\ load[l].stage = "installing"
    /\ \/ /\ installed' = installed \cup {load[l].model}
          /\ files' = files \cup {load[l].model}
       \/ UNCHANGED <<installed, files>>
    /\ load' = [load EXCEPT ![l] = Idle]
    /\ operation' = None
    /\ UNCHANGED <<gate, requests, backend, resident, alias, unload, remove,
                   rename>>

-----------------------------------------------------------------------------
(* unload_model, which runs inside its HTTP handler and takes no lock. *)

UnloadBegin(u) ==
    /\ unload[u] = Idle
    /\ resident # NoResident
    /\ unload' = [unload EXCEPT ![u] =
                     [stage |-> "draining", instance |-> resident.instance]]
    /\ Gate!Close
    /\ UNCHANGED <<requests, backend, catalog, operation, load, remove,
                   rename>>

UnloadEnds(u) ==
    /\ unload' = [unload EXCEPT ![u] = Idle]
    /\ Gate!Reopen({})

UnloadDrained(u) ==
    /\ unload[u].stage = "draining"
    /\ running = {}
    /\ unload' = [unload EXCEPT ![u].stage = "drained"]
    /\ UNCHANGED <<gate, requests, backend, catalog, operation, load, remove,
                   rename>>

\* The drain's timeout, or the caller hanging up while it waits.
UnloadGivesUp(u) ==
    /\ unload[u].stage = "draining"
    /\ UnloadEnds(u)
    /\ UNCHANGED <<requests, backend, catalog, operation, load, remove,
                   rename>>

\* ProcessBackend::unload: only the instance that was read, if still there.
UnloadStops(u) ==
    /\ unload[u].stage = "drained"
    /\ IF engine.instance = unload[u].instance
       THEN engine' = NoEngine /\ slots' = 1
       ELSE UNCHANGED <<engine, slots>>
    /\ unload' = [unload EXCEPT ![u].stage = "stopped"]
    /\ UNCHANGED <<gate, requests, crashed, lastInstance, catalog, operation,
                   load, remove, rename>>

\* The caller hangs up while the engine is being shut down.
UnloadAborts(u) ==
    /\ unload[u].stage = "drained"
    /\ engine.instance = unload[u].instance
    /\ engine' = NoEngine
    /\ UnloadEnds(u)
    /\ UNCHANGED <<requests, crashed, slots, lastInstance, catalog, operation,
                   load, remove, rename>>

UnloadPublishes(u) ==
    /\ unload[u].stage = "stopped"
    /\ resident' = NoResident
    /\ UnloadEnds(u)
    /\ UNCHANGED <<requests, backend, installed, files, alias, operation, load,
                   remove, rename>>

-----------------------------------------------------------------------------
(* DELETE and PATCH: neither takes the operation lock. *)

RemoveBegin(x) ==
    /\ remove[x] = Idle
    /\ remove' = [remove EXCEPT ![x] =
                     [stage |-> "read",
                      loaded |-> IF resident = NoResident THEN None
                                 ELSE resident.model]]
    /\ UNCHANGED <<gate, requests, backend, catalog, operation, load, unload,
                   rename>>

\* Under the catalog lock: refuse the model that was loaded when we looked.
\* The file goes too when asked for, downloaded by us, and deletable.
RemoveCommits(x, m) ==
    /\ remove[x].stage = "read"
    /\ IF m \notin installed \/ m = remove[x].loaded
       THEN UNCHANGED <<installed, files, alias>>
       ELSE /\ installed' = installed \ {m}
            /\ files' \in {files, files \ {m}}
            /\ alias' = [alias EXCEPT ![m] = None]
    /\ remove' = [remove EXCEPT ![x] = Idle]
    /\ UNCHANGED <<gate, requests, backend, resident, operation, load,
                   unload, rename>>

RenameBegin(a, m, name) ==
    /\ rename[a] = Idle
    /\ m \in installed
    /\ \A k \in Models \ {m} : name = None \/ alias[k] # name
    /\ alias' = [alias EXCEPT ![m] = name]
    /\ rename' = [rename EXCEPT ![a] =
                     [stage |-> "set", model |-> m, alias |-> name]]
    /\ UNCHANGED <<gate, requests, backend, resident, installed, files,
                   operation, load, unload, remove>>

\* Mutant of RenameAdopts: the resident record is not told.
RenameOnlyCatalog(a) ==
    /\ rename[a].stage = "set"
    /\ rename' = [rename EXCEPT ![a] = Idle]
    /\ UNCHANGED <<gate, requests, backend, catalog, operation, load, unload,
                   remove>>

\* Catalog::adopt_alias: the resident model takes up its record's name.
RenameAdopts(a) ==
    /\ rename[a].stage = "set"
    /\ resident' = IF resident # NoResident /\ resident.model = rename[a].model
                   THEN [resident EXCEPT !.alias = rename[a].alias]
                   ELSE resident
    /\ rename' = [rename EXCEPT ![a] = Idle]
    /\ UNCHANGED <<gate, requests, backend, installed, files, alias, operation,
                   load, unload, remove>>

-----------------------------------------------------------------------------
(* The gateway starts with one model loaded, or with none. *)
Init ==
    /\ Gate!GateInit
    /\ pc = [r \in Requests |-> "idle"]
    /\ held = [r \in Requests |-> 0]
    /\ crashed = {}
    /\ lastInstance = 1
    /\ installed = Models
    /\ files = Models
    /\ alias = [m \in Models |-> None]
    /\ \/ \E m \in Models :
             /\ engine = [model |-> m, instance |-> 1, slots |-> capacity]
             /\ resident = [model |-> m, instance |-> 1, alias |-> None]
             /\ slots = capacity
       \/ engine = NoEngine /\ resident = NoResident /\ slots = 1
    /\ operation = None
    /\ load = [l \in Loads |-> Idle]
    /\ unload = [u \in Unloads |-> Idle]
    /\ remove = [x \in Removes |-> Idle]
    /\ rename = [a \in Renames |-> Idle]

RequestStep(r) ==
    \/ Refused(r) \/ Capture(r) \/ Count(r) \/ Admit(r)
    \/ Generate(r) \/ Finish(r) \/ Leave(r)

LoadStep(l) ==
    \/ \E m \in Models : LoadBegin(l, m)
    \/ LoadPause(l) \/ LoadDrained(l) \/ LoadDrainTimeout(l)
    \/ BackendRefuses(l) \/ BackendStops(l) \/ BackendFails(l)
    \/ \E n \in 1..MaxCapacity : BackendStarts(l, n)
    \/ LoadResizes(l) \/ LoadPublishes(l) \/ LoadSucceeds(l)
    \/ \E m \in Models : InstallBegin(l, m)
    \/ InstallEnds(l)

UnloadStep(u) ==
    \/ UnloadBegin(u) \/ UnloadDrained(u) \/ UnloadGivesUp(u)
    \/ UnloadStops(u) \/ UnloadAborts(u) \/ UnloadPublishes(u)

Next ==
    \/ \E r \in Requests : RequestStep(r)
    \/ EngineDies
    \/ Health
    \/ \E l \in Loads : LoadStep(l)
    \/ \E u \in Unloads : UnloadStep(u)
    \/ \E x \in Removes : RemoveBegin(x)
    \/ \E x \in Removes, m \in Models : RemoveCommits(x, m)
    \/ \E a \in Renames, m \in Models, name \in Aliases \cup {None} :
          RenameBegin(a, m, name)
    \/ \E a \in Renames : RenameAdopts(a)

Spec == Init /\ [][Next]_vars

(* A load or an unload runs to its end: each of its awaits has a bound (the
   drain's 600 s, the engine's start timeout, the shutdown's 2 s), and a
   generation ends or is cancelled by its own deadline. *)
LoadProgress(l) ==
    LoadStep(l) /\ load[l] # Idle

UnloadProgress(u) ==
    UnloadStep(u) /\ unload[u] # Idle

Fairness ==
    /\ \A r \in Requests : WF_vars(Generate(r) \/ Finish(r))
    /\ \A l \in Loads : WF_vars(LoadProgress(l))
    /\ \A u \in Unloads : WF_vars(UnloadProgress(u))

-----------------------------------------------------------------------------
(* Properties. *)

Stages == {"idle", "judged", "draining", "drained", "stopped", "started",
           "sized", "published", "installing"}

\* The state of the gateway, the backend and the catalog is well formed.
TypeOK ==
    /\ running \subseteq Requests
    /\ paused \in BOOLEAN
    /\ capacity \in 1..MaxCapacity
    /\ pc \in [Requests -> {"idle", "captured", "waiting", "admitted",
                           "generating", "refused"}]
    /\ held \in [Requests -> 0..MaxInstance]
    /\ engine \in Engine \cup {NoEngine}
    /\ crashed \subseteq Instances
    /\ slots \in 1..MaxCapacity
    /\ lastInstance \in Instances
    /\ resident \in Resident \cup {NoResident}
    /\ installed \subseteq Models
    /\ files \subseteq Models
    /\ alias \in [Models -> Aliases \cup {None}]
    /\ operation \in Loads \cup {None}
    /\ \A l \in Loads : load[l].stage \in Stages

\* No swap or release takes the engine away from a generation: as long as its
\* process lives, the engine a request generates on stays the loaded one
\* (load_model and unload_model stop an engine only after the drain).
NoGenerationCut ==
    \A r \in Requests :
        pc[r] = "generating" /\ held[r] \notin crashed
            => engine.instance = held[r]

\* Between operations the catalog advertises the engine that is loaded: none
\* holds memory that no record names (set_resident follows backend.load).
LoadedEngineIsPublished ==
    (operation = None /\ \A u \in Unloads : unload[u] = Idle)
        => (engine # NoEngine => resident.instance = engine.instance)

\* Once a load has published its engine the slot gate has that engine's slot
\* count, even before admission reopens ("the slot count follows the engine
\* that is actually running").
CapacityFollowsEngine ==
    engine # NoEngine /\ resident.instance = engine.instance
        => capacity = engine.slots

\* The weights of the loaded model keep their record (remove refuses "while
\* the model is the one loaded").
LoadedModelIsInCatalog ==
    engine # NoEngine => engine.model \in installed

\* Between operations the loaded model answers to its record's alias
\* (ResidentModel.alias is "kept current by Catalog::adopt_alias").
AliasIsCurrent ==
    /\ operation = None
    /\ \A a \in Renames : rename[a] = Idle
    /\ resident # NoResident
    /\ resident.model \in installed
    => resident.alias = alias[resident.model]

-----------------------------------------------------------------------------
(* Which operations have overlapped so far: two that pause admission at the
   same time, or a load with an edit of the catalog, or two renames. *)
VARIABLE overlaps

PausesOverlap ==
    \E u \in Unloads :
        /\ unload[u] # Idle
        /\ \/ \E v \in Unloads \ {u} : unload[v] # Idle
           \/ \E l \in Loads : load[l].stage \notin {"idle", "judged", "installing"}

EditsOverlap ==
    \/ /\ \E l \in Loads : load[l].stage \notin {"idle", "installing"}
       /\ \/ \E x \in Removes : remove[x] # Idle
          \/ \E a \in Renames : rename[a] # Idle
    \/ \E a \in Renames, b \in Renames :
          a # b /\ rename[a] # Idle /\ rename[b] # Idle

Overlapping == (IF PausesOverlap THEN {"pauses"} ELSE {})
                 \cup (IF EditsOverlap THEN {"edits"} ELSE {})

WatchedInit == Init /\ overlaps = {}
WatchedNext == Next /\ overlaps' = overlaps \cup Overlapping'
WatchedSpec == WatchedInit /\ [][WatchedNext]_<<vars, overlaps>>

\* As long as no two operations that pause admission have overlapped, no swap
\* or release takes the engine from a generation.
NoCutWithoutOverlap == "pauses" \notin overlaps => NoGenerationCut

\* What the catalog and the slot gate say of the loaded engine is true: the
\* slot count is the published engine's, whatever overlaps; the engine that is
\* loaded is advertised between operations that paused admission one at a
\* time; a removal leaves the loaded model its record, and a rename reaches
\* both the record and the loaded model, unless they overlapped a load or
\* each other.
RecordsFollowEngine ==
    /\ CapacityFollowsEngine
    /\ "pauses" \notin overlaps => LoadedEngineIsPublished
    /\ overlaps = {} => LoadedModelIsInCatalog
    /\ "edits" \notin overlaps => AliasIsCurrent

\* What a step may do when it ends the load l before its engine is stopped.
EndsFree(l) ==
    load[l].stage \in {"judged", "draining", "drained"} /\ load'[l].stage = "idle"
        => UNCHANGED <<engine, slots, resident, capacity>>

\* A swap that is refused, times out in the drain or is refused by the
\* backend costs nothing: the engine that served keeps serving, and the
\* catalog and slot count describe it as before.
RefusedSwapIsFree == [][\A l \in Loads : EndsFree(l)]_vars

\* Every swap and every release ends, one way or another: admission never
\* stays paused, and the operation lock is always released, so that the next
\* load is not refused with Busy for ever.
OperationsLetGo ==
    /\ []<>(~paused)
    /\ (operation # None) ~> (operation = None)

=============================================================================

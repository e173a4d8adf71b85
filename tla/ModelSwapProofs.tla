--------------------------- MODULE ModelSwapProofs ---------------------------
(***************************************************************************)
(* Proofs about swaps, releases, renames and removals, for any number of   *)
(* requests, operations, models and engines.  The invariant has a part     *)
(* that holds whatever overlaps (types, the lock, what the engine's number *)
(* tells, who holds a slot), one that holds until two operations that      *)
(* pause admission overlap, and one that holds until an edit of the        *)
(* catalog overlaps a load or another rename.                              *)
(***************************************************************************)
EXTENDS ModelSwap, TLAPS

\* The provers have half a minute for each leaf.
USE SMTT(30), ZenonT(30)

Names == Aliases \cup {None}

LoadState ==
    {Idle}
      \cup [stage : {"judged", "draining", "drained", "stopped"}, model : Models,
            alias : Names]
      \cup [stage : {"started", "sized", "published"}, model : Models,
            alias : Names, instance : Instances, slots : 1..MaxCapacity]
      \cup [stage : {"installing"}, model : Models]
UnloadState ==
    {Idle} \cup [stage : {"draining", "drained", "stopped"}, instance : Instances]
RemoveState == {Idle} \cup [stage : {"read"}, loaded : Models \cup {None}]
RenameState == {Idle} \cup [stage : {"set"}, model : Models, alias : Names]

Types ==
    /\ TypeOK
    /\ load \in [Loads -> LoadState]
    /\ unload \in [Unloads -> UnloadState]
    /\ remove \in [Removes -> RemoveState]
    /\ rename \in [Renames -> RenameState]
    /\ overlaps \subseteq {"pauses", "edits"}

\* The operation lock: one load at a time.
Lock == \A l \in Loads : load[l] # Idle => operation = l

\* A load whose engine is up and not yet advertised.
Fresh(l) == load[l].stage \in {"started", "sized"}

\* What the engine's number tells: which engine a load or a record is about.
Numbered ==
    /\ engine.instance <= lastInstance
    /\ resident.instance <= lastInstance
    /\ \A l \in Loads :
          /\ load[l].stage = "stopped" => engine = NoEngine
          /\ Fresh(l) => /\ load[l].instance = lastInstance
                         /\ resident.instance < lastInstance
                         /\ engine # NoEngine =>
                               /\ engine.instance = lastInstance
                               /\ engine.slots = load[l].slots
                               /\ engine.model = load[l].model
          /\ load[l].stage = "sized" => capacity = load[l].slots
    /\ engine # NoEngine /\ resident.instance = engine.instance =>
          capacity = engine.slots /\ resident.model = engine.model

\* Who holds a slot.
Holders == running = {r \in Requests : pc[r] \in {"admitted", "generating"}}

\* As long as no two of them overlap, an operation that pauses admission keeps
\* it paused and finds the engine idle once it has drained; a release knows
\* the advertised engine, and there is no other but one a load has started.
LoadPauses ==
    \A l \in Loads :
        /\ load[l].stage \notin {"idle", "judged", "installing"} => paused
        /\ load[l].stage \notin {"idle", "judged", "installing", "draining"}
              => running = {}

UnloadPauses ==
    \A u \in Unloads :
        /\ unload[u] # Idle => paused
        /\ unload[u].stage \in {"drained", "stopped"} => running = {}
        /\ unload[u].stage \in {"draining", "drained"}
              => resident.instance = unload[u].instance
        /\ unload[u].stage = "stopped" => engine = NoEngine

Advertised ==
    engine # NoEngine /\ (\A l \in Loads : ~Fresh(l))
        => resident.instance = engine.instance

Paused ==
    /\ ~PausesOverlap
    /\ LoadPauses /\ UnloadPauses /\ Advertised /\ NoGenerationCut

\* As long as no edit overlaps a load or another rename, records and names are
\* those of the loaded model.
LoadsKnow ==
    \A l \in Loads : load[l].stage \notin {"idle", "installing"} =>
        load[l].model \in installed /\ alias[load[l].model] = load[l].alias

RecordKept ==
    resident # NoResident =>
        /\ resident.model \in installed
        /\ \A x \in Removes : remove[x] # Idle => remove[x].loaded = resident.model

NameKept ==
    resident # NoResident =>
        /\ \A a \in Renames : rename[a] # Idle /\ rename[a].model = resident.model
              => alias[resident.model] = rename[a].alias
        /\ (\A a \in Renames : rename[a] = Idle \/ rename[a].model # resident.model)
              => resident.alias = alias[resident.model]

Edited == ~EditsOverlap /\ LoadsKnow /\ RecordKept /\ NameKept

IInv ==
    /\ Types /\ Lock /\ Numbered /\ Holders
    /\ "pauses" \notin overlaps => Paused
    /\ "edits" \notin overlaps => Edited

-----------------------------------------------------------------------------
(* Types. *)

\* What a load's stage tells of its fields.
LEMMA LoadFields ==
    ASSUME Types, NEW l \in Loads
    PROVE  /\ load[l].stage \in Stages
           /\ load[l] = Idle <=> load[l].stage = "idle"
           /\ load[l].stage # "idle" => load[l].model \in Models
           /\ load[l].stage \notin {"idle", "installing"} => load[l].alias \in Names
           /\ load[l].stage \in {"started", "sized", "published"} =>
                 load[l].instance \in Instances /\ load[l].slots \in 1..MaxCapacity
<1>1. load[l] \in LoadState
  BY DEF Types
<1>2. QED
  BY <1>1 DEF LoadState, Idle, Stages

\* What a release's stage tells of its fields.
LEMMA UnloadFields ==
    ASSUME Types, NEW u \in Unloads
    PROVE  /\ unload[u].stage \in {"idle", "draining", "drained", "stopped"}
           /\ unload[u] = Idle <=> unload[u].stage = "idle"
           /\ unload[u] # Idle => unload[u].instance \in Instances
<1>1. unload[u] \in UnloadState
  BY DEF Types
<1>2. QED
  BY <1>1 DEF UnloadState, Idle

\* What the stage of an edit tells of its fields.
LEMMA EditFields ==
    ASSUME Types
    PROVE  /\ \A x \in Removes :
                 /\ remove[x].stage \in {"idle", "read"}
                 /\ remove[x] = Idle <=> remove[x].stage = "idle"
                 /\ remove[x] # Idle => remove[x].loaded \in Models \cup {None}
           /\ \A a \in Renames :
                 /\ rename[a].stage \in {"idle", "set"}
                 /\ rename[a] = Idle <=> rename[a].stage = "idle"
                 /\ rename[a] # Idle => /\ rename[a].model \in Models
                                        /\ rename[a].alias \in Names
<1>1. \A x \in Removes : remove[x] \in RemoveState
  BY DEF Types
<1>2. \A a \in Renames : rename[a] \in RenameState
  BY DEF Types
<1>3. QED
  BY <1>1, <1>2 DEF RemoveState, RenameState, Idle

\* The engine and the advertised record, by their numbers.
LEMMA NumberFields ==
    ASSUME Types
    PROVE  /\ engine = NoEngine <=> engine.instance = 0
           /\ resident = NoResident <=> resident.instance = 0
           /\ engine.instance \in 0..MaxInstance
           /\ resident.instance \in 0..MaxInstance
           /\ engine # NoEngine => engine \in Engine
           /\ resident # NoResident => resident \in Resident
BY BoundsAssumption
   DEF Types, TypeOK, Engine, Resident, NoEngine, NoResident, Instances

\* The gateway starts within its types.
LEMMA TypesInit == WatchedInit => Types
<1> SUFFICES ASSUME WatchedInit PROVE Types
  OBVIOUS
<1>1. engine \in Engine \cup {NoEngine} /\ resident \in Resident \cup {NoResident}
  BY BoundsAssumption
     DEF WatchedInit, Init, Gate!GateInit, Engine, Resident, Instances, Names
<1>2. slots \in 1..MaxCapacity
  BY BoundsAssumption DEF WatchedInit, Init, Gate!GateInit
<1>3. /\ load \in [Loads -> LoadState] /\ unload \in [Unloads -> UnloadState]
      /\ remove \in [Removes -> RemoveState] /\ rename \in [Renames -> RenameState]
      /\ \A l \in Loads : load[l].stage \in Stages
  BY DEF WatchedInit, Init, LoadState, UnloadState, RemoveState, RenameState, Idle,
         Stages
<1>a. pc \in [Requests -> {"idle", "captured", "waiting", "admitted", "generating",
                           "refused"}]
  BY DEF WatchedInit, Init
<1>b. held \in [Requests -> 0..MaxInstance] /\ lastInstance \in Instances
  BY BoundsAssumption DEF WatchedInit, Init, Instances
<1>c. /\ running \subseteq Requests /\ paused \in BOOLEAN
      /\ capacity \in 1..MaxCapacity /\ crashed \subseteq Instances
      /\ installed \subseteq Models /\ files \subseteq Models
      /\ alias \in [Models -> Aliases \cup {None}] /\ operation \in Loads \cup {None}
  BY ZenonT(30) DEF WatchedInit, Init, Gate!GateInit
<1>4. TypeOK
  BY <1>1, <1>2, <1>3, <1>a, <1>b, <1>c DEF TypeOK
<1>5. QED
  BY <1>3, <1>4 DEF Types, WatchedInit

\* Loads keep to their stages.
LEMMA StagesOfLoads == \A s \in LoadState : s.stage \in Stages
BY DEF LoadState, Stages, Idle

\* Every step keeps the types.
LEMMA TypesStep == Types /\ [WatchedNext]_<<vars, overlaps>> => Types'
<1> SUFFICES ASSUME Types, WatchedNext PROVE Types'
  <2>1. ASSUME Types, UNCHANGED <<vars, overlaps>> PROVE Types'
    BY <2>1 DEF Types, TypeOK, vars, gate, requests, backend, catalog, operations
  <2>2. QED
    BY <2>1
<1>a. overlaps' \subseteq {"pauses", "edits"}
  BY DEF WatchedNext, Types, Overlapping
<1> USE <1>a, BoundsAssumption DEF gate, requests, backend, catalog, operations, vars
<1>1. ASSUME NEW r \in Requests, Refused(r)
      PROVE  Types'
  BY <1>1, NumberFields DEF Refused, Types, TypeOK
<1>2. ASSUME NEW r \in Requests, Capture(r)
      PROVE  Types'
  BY <1>2, NumberFields DEF Capture, Types, TypeOK
<1>3. ASSUME NEW r \in Requests, Count(r)
      PROVE  Types'
  BY <1>3, NumberFields DEF Count, Reaches, Types, TypeOK
<1>4. ASSUME NEW r \in Requests, Admit(r)
      PROVE  Types'
  BY <1>4, NumberFields, ZenonT(30) DEF Admit, Gate!Open, Gate!Start, Types, TypeOK
<1>5. ASSUME NEW r \in Requests, Generate(r)
      PROVE  Types'
  BY <1>5, NumberFields DEF Generate, Reaches, Gate!Release, Types, TypeOK
<1>6. ASSUME NEW r \in Requests, Finish(r)
      PROVE  Types'
  BY <1>6, NumberFields DEF Finish, Gate!Release, Types, TypeOK
<1>7. ASSUME NEW r \in Requests, Leave(r)
      PROVE  Types'
  BY <1>7, NumberFields DEF Leave, Types, TypeOK
<1>8. CASE EngineDies
  <2>1. engine.instance \in Instances
    BY <1>8, NumberFields DEF EngineDies, Engine
  <2>2. QED
    BY <1>8, <2>1 DEF EngineDies, Types, TypeOK
<1>9. CASE Health
  BY <1>9, NumberFields DEF Health, Types, TypeOK
<1>10. ASSUME NEW l \in Loads, NEW m \in Models, LoadBegin(l, m)
      PROVE  Types'
  <2>1. load' \in [Loads -> LoadState]
    BY <1>10, LoadFields
       DEF LoadBegin, Types, TypeOK, Stages, Idle, Names, LoadState
  <2>2. QED
    BY <1>10, <2>1, StagesOfLoads DEF LoadBegin, Types, TypeOK
<1>11. ASSUME NEW l \in Loads, LoadPause(l)
      PROVE  Types'
  <2>1. load' \in [Loads -> LoadState]
    BY <1>11, LoadFields
       DEF LoadPause, Gate!Close, Types, TypeOK, Stages, Idle, Names, LoadState
  <2>2. QED
    BY <1>11, <2>1, StagesOfLoads, ZenonT(30)
       DEF LoadPause, Gate!Close, Types, TypeOK
<1>12. ASSUME NEW l \in Loads, LoadDrained(l)
      PROVE  Types'
  <2>1. load' \in [Loads -> LoadState]
    BY <1>12, LoadFields
       DEF LoadDrained, Types, TypeOK, Stages, Idle, Names, LoadState
  <2>2. QED
    BY <1>12, <2>1, StagesOfLoads, ZenonT(30) DEF LoadDrained, Types, TypeOK
<1>13. ASSUME NEW l \in Loads, LoadDrainTimeout(l)
      PROVE  Types'
  <2>1. load' \in [Loads -> LoadState]
    BY <1>13, LoadFields
       DEF LoadDrainTimeout, LoadEnds, Gate!Reopen, Gate!Start, Types, TypeOK,
           Stages, Idle, Names, LoadState
  <2>2. QED
    BY <1>13, <2>1, StagesOfLoads, ZenonT(30)
       DEF LoadDrainTimeout, LoadEnds, Gate!Reopen, Gate!Start, Types, TypeOK
<1>14. ASSUME NEW l \in Loads, BackendRefuses(l)
      PROVE  Types'
  <2>1. load' \in [Loads -> LoadState]
    BY <1>14, LoadFields
       DEF BackendRefuses, LoadEnds, Gate!Reopen, Gate!Start, Types, TypeOK, Stages,
           Idle, Names, LoadState
  <2>2. QED
    BY <1>14, <2>1, StagesOfLoads, ZenonT(30)
       DEF BackendRefuses, LoadEnds, Gate!Reopen, Gate!Start, Types, TypeOK
<1>15. ASSUME NEW l \in Loads, BackendStops(l)
      PROVE  Types'
  <2>1. load' \in [Loads -> LoadState]
    BY <1>15, LoadFields
       DEF BackendStops, Types, TypeOK, Stages, Idle, Names, LoadState
  <2>2. QED
    BY <1>15, <2>1, StagesOfLoads, ZenonT(30) DEF BackendStops, Types, TypeOK
<1>16. ASSUME NEW l \in Loads, BackendFails(l)
      PROVE  Types'
  <2>1. load' \in [Loads -> LoadState]
    BY <1>16, LoadFields
       DEF BackendFails, LoadEnds, Gate!Reopen, Gate!Start, Types, TypeOK, Stages,
           Idle, Names, LoadState
  <2>2. QED
    BY <1>16, <2>1, StagesOfLoads, ZenonT(30)
       DEF BackendFails, LoadEnds, Gate!Reopen, Gate!Start, Types, TypeOK
<1>17. ASSUME NEW l \in Loads, NEW n \in 1..MaxCapacity, BackendStarts(l, n)
      PROVE  Types'
  <2>1. lastInstance + 1 \in Instances
    BY <1>17 DEF BackendStarts, Types, TypeOK, Instances
  <2>2. load[l].model \in Models /\ load[l].alias \in Names
    BY <1>17, LoadFields DEF BackendStarts
  <2>3. load' \in [Loads -> LoadState]
    BY <1>17, <2>1, <2>2 DEF BackendStarts, Types, LoadState
  <2>4. engine' \in Engine
    BY <1>17, <2>1, <2>2 DEF BackendStarts, Engine
  <2>5. QED
    BY <1>17, <2>1, <2>3, <2>4, StagesOfLoads DEF BackendStarts, Types, TypeOK
<1>18. ASSUME NEW l \in Loads, LoadResizes(l)
      PROVE  Types'
  <2>1. load' \in [Loads -> LoadState]
    BY <1>18, LoadFields
       DEF LoadResizes, Gate!SetCapacity, Types, TypeOK, Stages, Idle, Names,
           LoadState
  <2>2. QED
    BY <1>18, <2>1, StagesOfLoads, LoadFields, ZenonT(30)
       DEF LoadResizes, Gate!SetCapacity, Types, TypeOK
<1>19. ASSUME NEW l \in Loads, LoadPublishes(l)
      PROVE  Types'
  <2>1. load' \in [Loads -> LoadState]
    BY <1>19, LoadFields
       DEF LoadPublishes, Types, TypeOK, Stages, Idle, Names, LoadState
  <2>2. resident' \in Resident
    BY <1>19, LoadFields DEF LoadPublishes, Resident, Names
  <2>3. QED
    BY <1>19, <2>1, <2>2, StagesOfLoads, ZenonT(30) DEF LoadPublishes, Types, TypeOK
<1>20. ASSUME NEW l \in Loads, LoadSucceeds(l)
      PROVE  Types'
  <2>1. load' \in [Loads -> LoadState]
    BY <1>20, LoadFields
       DEF LoadSucceeds, LoadEnds, Gate!Reopen, Gate!Start, Types, TypeOK, Stages,
           Idle, Names, LoadState
  <2>2. QED
    BY <1>20, <2>1, StagesOfLoads, ZenonT(30)
       DEF LoadSucceeds, LoadEnds, Gate!Reopen, Gate!Start, Types, TypeOK
<1>21. ASSUME NEW l \in Loads, NEW m \in Models, InstallBegin(l, m)
      PROVE  Types'
  <2>1. load' \in [Loads -> LoadState]
    BY <1>21 DEF InstallBegin, Types, LoadState
  <2>2. QED
    BY <1>21, <2>1, StagesOfLoads DEF InstallBegin, Types, TypeOK
<1>22. ASSUME NEW l \in Loads, InstallEnds(l)
      PROVE  Types'
  <2>1. load' \in [Loads -> LoadState]
    BY <1>22, LoadFields
       DEF InstallEnds, Types, TypeOK, Stages, Idle, Names, LoadState
  <2>2. QED
    BY <1>22, <2>1, StagesOfLoads, LoadFields DEF InstallEnds, Types, TypeOK
<1>23. ASSUME NEW u \in Unloads, UnloadBegin(u)
      PROVE  Types'
  <2>1. resident.instance \in Instances
    BY <1>23, NumberFields DEF UnloadBegin, Gate!Close, Resident
  <2>2. unload' \in [Unloads -> UnloadState]
    BY <1>23, <2>1 DEF UnloadBegin, Gate!Close, Types, UnloadState
  <2>3. QED
    BY <1>23, <2>2 DEF UnloadBegin, Gate!Close, Types, TypeOK
<1>24. ASSUME NEW u \in Unloads, UnloadDrained(u)
      PROVE  Types'
  <2>1. unload' \in [Unloads -> UnloadState]
    BY <1>24, NumberFields, UnloadFields
       DEF UnloadDrained, Types, TypeOK, Idle, Names, UnloadState
  <2>2. QED
    BY <1>24, <2>1, NumberFields DEF UnloadDrained, Types, TypeOK
<1>25. ASSUME NEW u \in Unloads, UnloadGivesUp(u)
      PROVE  Types'
  <2>1. unload' \in [Unloads -> UnloadState]
    BY <1>25, NumberFields, UnloadFields
       DEF UnloadGivesUp, UnloadEnds, Gate!Reopen, Gate!Start, Types, TypeOK, Idle,
           Names, UnloadState
  <2>2. QED
    BY <1>25, <2>1, NumberFields, ZenonT(30)
       DEF UnloadGivesUp, UnloadEnds, Gate!Reopen, Gate!Start, Types, TypeOK
<1>26. ASSUME NEW u \in Unloads, UnloadStops(u)
      PROVE  Types'
  <2>1. unload' \in [Unloads -> UnloadState]
    BY <1>26, NumberFields, UnloadFields
       DEF UnloadStops, Types, TypeOK, Idle, Names, UnloadState
  <2>2. QED
    BY <1>26, <2>1, NumberFields DEF UnloadStops, Types, TypeOK
<1>27. ASSUME NEW u \in Unloads, UnloadAborts(u)
      PROVE  Types'
  <2>1. unload' \in [Unloads -> UnloadState]
    BY <1>27, NumberFields, UnloadFields
       DEF UnloadAborts, UnloadEnds, Gate!Reopen, Gate!Start, Types, TypeOK, Idle,
           Names, UnloadState
  <2>2. QED
    BY <1>27, <2>1, NumberFields, ZenonT(30)
       DEF UnloadAborts, UnloadEnds, Gate!Reopen, Gate!Start, Types, TypeOK
<1>28. ASSUME NEW u \in Unloads, UnloadPublishes(u)
      PROVE  Types'
  <2>1. unload' \in [Unloads -> UnloadState]
    BY <1>28, NumberFields, UnloadFields
       DEF UnloadPublishes, UnloadEnds, Gate!Reopen, Gate!Start, Types, TypeOK,
           Idle, Names, UnloadState
  <2>2. QED
    BY <1>28, <2>1, NumberFields, ZenonT(30)
       DEF UnloadPublishes, UnloadEnds, Gate!Reopen, Gate!Start, Types, TypeOK
<1>29. ASSUME NEW x \in Removes, RemoveBegin(x)
      PROVE  Types'
  <2>1. resident # NoResident => resident.model \in Models
    BY NumberFields DEF Resident
  <2>2. remove' \in [Removes -> RemoveState]
    BY <1>29, <2>1 DEF RemoveBegin, Types, RemoveState
  <2>3. QED
    BY <1>29, <2>2 DEF RemoveBegin, Types, TypeOK
<1>30. ASSUME NEW x \in Removes, NEW m \in Models, RemoveCommits(x, m)
      PROVE  Types'
  <2>1. remove' \in [Removes -> RemoveState]
    BY <1>30, NumberFields
       DEF RemoveCommits, Types, TypeOK, Idle, Names, RemoveState
  <2>2. QED
    BY <1>30, <2>1, NumberFields DEF RemoveCommits, Types, TypeOK
<1>31. ASSUME NEW a \in Renames, NEW m \in Models, NEW name \in Names,
             RenameBegin(a, m, name)
      PROVE  Types'
  <2>1. rename' \in [Renames -> RenameState]
    BY <1>31 DEF RenameBegin, Types, RenameState
  <2>2. QED
    BY <1>31, <2>1 DEF RenameBegin, Types, TypeOK, Names
<1>32. ASSUME NEW a \in Renames, RenameAdopts(a)
      PROVE  Types'
  <2>1. rename' \in [Renames -> RenameState]
    BY <1>32 DEF RenameAdopts, Types, RenameState
  <2>2. resident' \in Resident \cup {NoResident}
    BY <1>32, NumberFields, EditFields
       DEF RenameAdopts, Resident, Idle, Names, Types, TypeOK
  <2>3. QED
    BY <1>32, <2>1, <2>2 DEF RenameAdopts, Types, TypeOK
<1>33. QED
  BY <1>1, <1>2, <1>3, <1>4, <1>5, <1>6, <1>7, <1>8, <1>9, <1>10, <1>11, <1>12,
     <1>13, <1>14, <1>15, <1>16, <1>17, <1>18, <1>19, <1>20, <1>21, <1>22, <1>23,
     <1>24, <1>25, <1>26, <1>27, <1>28, <1>29, <1>30, <1>31, <1>32
     DEF WatchedNext, Next, RequestStep, LoadStep, UnloadStep, Names

-----------------------------------------------------------------------------
(* The lock, the engine's number and the slots. *)

\* One load at a time: the lock is taken before anything and dropped last.
LEMMA LockStep ==
    ASSUME Types, Lock, WatchedNext
    PROVE  Lock'
<1> USE DEF gate, requests, backend, catalog, operations, vars
<1>1. ASSUME NEW l \in Loads, NEW m \in Models, LoadBegin(l, m)
      PROVE  Lock'
  BY <1>1, LoadFields, LoadsAssumption DEF LoadBegin, Types, Lock, Idle
<1>2. ASSUME NEW l \in Loads, LoadPause(l)
      PROVE  Lock'
  BY <1>2, LoadFields, LoadsAssumption
     DEF LoadPause, Gate!Close, Types, Lock, Idle
<1>3. ASSUME NEW l \in Loads, LoadDrained(l)
      PROVE  Lock'
  BY <1>3, LoadFields, LoadsAssumption DEF LoadDrained, Types, Lock, Idle
<1>4. ASSUME NEW l \in Loads, LoadDrainTimeout(l)
      PROVE  Lock'
  BY <1>4, LoadFields, LoadsAssumption
     DEF LoadDrainTimeout, LoadEnds, Gate!Reopen, Gate!Start, Types, Lock, Idle
<1>5. ASSUME NEW l \in Loads, BackendRefuses(l)
      PROVE  Lock'
  BY <1>5, LoadFields, LoadsAssumption
     DEF BackendRefuses, LoadEnds, Gate!Reopen, Gate!Start, Types, Lock, Idle
<1>6. ASSUME NEW l \in Loads, BackendStops(l)
      PROVE  Lock'
  BY <1>6, LoadFields, LoadsAssumption DEF BackendStops, Types, Lock, Idle
<1>7. ASSUME NEW l \in Loads, BackendFails(l)
      PROVE  Lock'
  BY <1>7, LoadFields, LoadsAssumption
     DEF BackendFails, LoadEnds, Gate!Reopen, Gate!Start, Types, Lock, Idle
<1>8. ASSUME NEW l \in Loads, NEW n \in 1..MaxCapacity, BackendStarts(l, n)
      PROVE  Lock'
  BY <1>8, LoadFields, LoadsAssumption DEF BackendStarts, Types, Lock, Idle
<1>9. ASSUME NEW l \in Loads, LoadResizes(l)
      PROVE  Lock'
  BY <1>9, LoadFields, LoadsAssumption
     DEF LoadResizes, Gate!SetCapacity, Types, Lock, Idle
<1>10. ASSUME NEW l \in Loads, LoadPublishes(l)
      PROVE  Lock'
  BY <1>10, LoadFields, LoadsAssumption DEF LoadPublishes, Types, Lock, Idle
<1>11. ASSUME NEW l \in Loads, LoadSucceeds(l)
      PROVE  Lock'
  BY <1>11, LoadFields, LoadsAssumption
     DEF LoadSucceeds, LoadEnds, Gate!Reopen, Gate!Start, Types, Lock, Idle
<1>12. ASSUME NEW l \in Loads, NEW m \in Models, InstallBegin(l, m)
      PROVE  Lock'
  BY <1>12, LoadFields, LoadsAssumption DEF InstallBegin, Types, Lock, Idle
<1>13. ASSUME NEW l \in Loads, InstallEnds(l)
      PROVE  Lock'
  BY <1>13, LoadFields, LoadsAssumption DEF InstallEnds, Types, Lock, Idle
<1>14. ASSUME UNCHANGED <<load, operation>> PROVE Lock'
  BY <1>14 DEF Lock
<1>15. ASSUME NEW r \in Requests,
             Refused(r) \/ Capture(r) \/ Count(r) \/ Admit(r) \/ Generate(r) \/
             Finish(r) \/ Leave(r)
      PROVE  UNCHANGED <<load, operation>>
  BY <1>15
     DEF Refused, Capture, Count, Reaches, Admit, Gate!Open, Gate!Start, Generate,
         Gate!Release, Finish, Leave
<1>16. ASSUME EngineDies \/ Health
      PROVE  UNCHANGED <<load, operation>>
  BY <1>16 DEF EngineDies, Health
<1>17. ASSUME NEW u \in Unloads,
             UnloadBegin(u) \/ UnloadDrained(u) \/ UnloadGivesUp(u) \/
             UnloadStops(u) \/ UnloadAborts(u) \/ UnloadPublishes(u)
      PROVE  UNCHANGED <<load, operation>>
  BY <1>17
     DEF UnloadBegin, Gate!Close, UnloadDrained, UnloadGivesUp, UnloadEnds,
         Gate!Reopen, Gate!Start, UnloadStops, UnloadAborts, UnloadPublishes
<1>18. ASSUME NEW x \in Removes,
             RemoveBegin(x)
      PROVE  UNCHANGED <<load, operation>>
  BY <1>18 DEF RemoveBegin
<1>19. ASSUME NEW x \in Removes, NEW m \in Models,
             RemoveCommits(x, m)
      PROVE  UNCHANGED <<load, operation>>
  BY <1>19 DEF RemoveCommits
<1>20. ASSUME NEW a \in Renames, NEW m \in Models, NEW name \in Names,
             RenameBegin(a, m, name)
      PROVE  UNCHANGED <<load, operation>>
  BY <1>20 DEF RenameBegin
<1>21. ASSUME NEW a \in Renames,
             RenameAdopts(a)
      PROVE  UNCHANGED <<load, operation>>
  BY <1>21 DEF RenameAdopts
<1>22. QED
  BY <1>1, <1>2, <1>3, <1>4, <1>5, <1>6, <1>7, <1>8, <1>9, <1>10, <1>11, <1>12,
     <1>13, <1>14, <1>15, <1>16, <1>17, <1>18, <1>19, <1>20, <1>21
     DEF WatchedNext, Next, RequestStep, LoadStep, UnloadStep, Names

\* A slot is held from admission to the end of the generation.
LEMMA HoldersStep ==
    ASSUME Types, Holders, WatchedNext
    PROVE  Holders'
<1> USE DEF gate, requests, backend, catalog, operations, vars
<1>1. ASSUME NEW r \in Requests, Capture(r)
      PROVE  Holders'
  BY <1>1 DEF Capture, Types, TypeOK, Holders
<1>2. ASSUME NEW r \in Requests, Count(r)
      PROVE  Holders'
  BY <1>2 DEF Count, Reaches, Types, TypeOK, Holders
<1>3. ASSUME NEW r \in Requests, Admit(r)
      PROVE  Holders'
  BY <1>3 DEF Admit, Gate!Open, Gate!Start, Types, TypeOK, Holders
<1>4. ASSUME NEW r \in Requests, Generate(r)
      PROVE  Holders'
  BY <1>4 DEF Generate, Reaches, Gate!Release, Types, TypeOK, Holders
<1>5. ASSUME NEW r \in Requests, Finish(r)
      PROVE  Holders'
  BY <1>5 DEF Finish, Gate!Release, Types, TypeOK, Holders
<1>6. ASSUME NEW r \in Requests, Leave(r)
      PROVE  Holders'
  BY <1>6 DEF Leave, Types, TypeOK, Holders
<1>7. ASSUME NEW l \in Loads, LoadDrainTimeout(l)
      PROVE  Holders'
  BY <1>7 DEF LoadDrainTimeout, LoadEnds, Gate!Reopen, Gate!Start, Holders
<1>8. ASSUME NEW l \in Loads, BackendRefuses(l)
      PROVE  Holders'
  BY <1>8 DEF BackendRefuses, LoadEnds, Gate!Reopen, Gate!Start, Holders
<1>9. ASSUME NEW l \in Loads, BackendFails(l)
      PROVE  Holders'
  BY <1>9 DEF BackendFails, LoadEnds, Gate!Reopen, Gate!Start, Holders
<1>10. ASSUME NEW l \in Loads, LoadSucceeds(l)
      PROVE  Holders'
  BY <1>10 DEF LoadSucceeds, LoadEnds, Gate!Reopen, Gate!Start, Holders
<1>11. ASSUME NEW u \in Unloads, UnloadGivesUp(u)
      PROVE  Holders'
  BY <1>11 DEF UnloadGivesUp, UnloadEnds, Gate!Reopen, Gate!Start, Holders
<1>12. ASSUME NEW u \in Unloads, UnloadAborts(u)
      PROVE  Holders'
  BY <1>12 DEF UnloadAborts, UnloadEnds, Gate!Reopen, Gate!Start, Holders
<1>13. ASSUME NEW u \in Unloads, UnloadPublishes(u)
      PROVE  Holders'
  BY <1>13 DEF UnloadPublishes, UnloadEnds, Gate!Reopen, Gate!Start, Holders
<1>14. ASSUME UNCHANGED <<running, pc>> PROVE Holders'
  BY <1>14 DEF Holders
<1>15. ASSUME NEW r \in Requests,
             Refused(r)
      PROVE  UNCHANGED <<running, pc>>
  BY <1>15 DEF Refused
<1>16. ASSUME EngineDies \/ Health
      PROVE  UNCHANGED <<running, pc>>
  BY <1>16 DEF EngineDies, Health
<1>17. ASSUME NEW l \in Loads, NEW m \in Models,
             LoadBegin(l, m) \/ InstallBegin(l, m)
      PROVE  UNCHANGED <<running, pc>>
  BY <1>17 DEF LoadBegin, InstallBegin
<1>18. ASSUME NEW l \in Loads,
             LoadPause(l) \/ LoadDrained(l) \/ BackendStops(l) \/
             LoadResizes(l) \/ LoadPublishes(l) \/ InstallEnds(l)
      PROVE  UNCHANGED <<running, pc>>
  BY <1>18
     DEF LoadPause, Gate!Close, LoadDrained, BackendStops, LoadResizes,
         Gate!SetCapacity, LoadPublishes, InstallEnds
<1>19. ASSUME NEW l \in Loads, NEW n \in 1..MaxCapacity,
             BackendStarts(l, n)
      PROVE  UNCHANGED <<running, pc>>
  BY <1>19 DEF BackendStarts
<1>20. ASSUME NEW u \in Unloads,
             UnloadBegin(u) \/ UnloadDrained(u) \/ UnloadStops(u)
      PROVE  UNCHANGED <<running, pc>>
  BY <1>20 DEF UnloadBegin, Gate!Close, UnloadDrained, UnloadStops
<1>21. ASSUME NEW x \in Removes,
             RemoveBegin(x)
      PROVE  UNCHANGED <<running, pc>>
  BY <1>21 DEF RemoveBegin
<1>22. ASSUME NEW x \in Removes, NEW m \in Models,
             RemoveCommits(x, m)
      PROVE  UNCHANGED <<running, pc>>
  BY <1>22 DEF RemoveCommits
<1>23. ASSUME NEW a \in Renames, NEW m \in Models, NEW name \in Names,
             RenameBegin(a, m, name)
      PROVE  UNCHANGED <<running, pc>>
  BY <1>23 DEF RenameBegin
<1>24. ASSUME NEW a \in Renames,
             RenameAdopts(a)
      PROVE  UNCHANGED <<running, pc>>
  BY <1>24 DEF RenameAdopts
<1>25. QED
  BY <1>1, <1>2, <1>3, <1>4, <1>5, <1>6, <1>7, <1>8, <1>9, <1>10, <1>11, <1>12,
     <1>13, <1>14, <1>15, <1>16, <1>17, <1>18, <1>19, <1>20, <1>21, <1>22, <1>23,
     <1>24
     DEF WatchedNext, Next, RequestStep, LoadStep, UnloadStep, Names

\* The numbers stay true: an engine gets a new one, and what is said of an
\* engine is said of the engine with that number.
LEMMA NumberedStep ==
    ASSUME Types, Types', Lock, Numbered, WatchedNext
    PROVE  Numbered'
<1> USE DEF gate, requests, backend, catalog, operations, vars
<1>a. /\ lastInstance \in Nat /\ lastInstance > 0 /\ lastInstance' \in Nat
      /\ resident.instance \in Nat
      /\ load \in [Loads -> LoadState]
  BY NumberFields, BoundsAssumption DEF Types, TypeOK, Instances
<1>b. \A l, k \in Loads : load[l] # Idle /\ load[k] # Idle => l = k
  BY DEF Lock
<1>1. CASE Health
  <2>1. engine' = NoEngine /\ UNCHANGED <<resident, lastInstance, load, capacity>>
    BY <1>1 DEF Health
  <2>2. QED
    BY <1>a, <2>1 DEF Numbered, Fresh, NoEngine
<1>2. ASSUME NEW l \in Loads, NEW m \in Models, LoadBegin(l, m)
      PROVE  Numbered'
  BY <1>2, <1>a, <1>b, LoadFields DEF LoadBegin, Numbered, Fresh, Idle
<1>3. ASSUME NEW l \in Loads, LoadPause(l)
      PROVE  Numbered'
  BY <1>3, <1>a, <1>b, LoadFields DEF LoadPause, Gate!Close, Numbered, Fresh, Idle
<1>4. ASSUME NEW l \in Loads, LoadDrained(l)
      PROVE  Numbered'
  BY <1>4, <1>a, <1>b, LoadFields DEF LoadDrained, Numbered, Fresh, Idle
<1>5. ASSUME NEW l \in Loads, LoadDrainTimeout(l)
      PROVE  Numbered'
  BY <1>5, <1>a, <1>b, LoadFields
     DEF LoadDrainTimeout, LoadEnds, Gate!Reopen, Gate!Start, Numbered, Fresh, Idle
<1>6. ASSUME NEW l \in Loads, BackendRefuses(l)
      PROVE  Numbered'
  BY <1>6, <1>a, <1>b, LoadFields
     DEF BackendRefuses, LoadEnds, Gate!Reopen, Gate!Start, Numbered, Fresh, Idle
<1>7. ASSUME NEW l \in Loads, BackendStops(l)
      PROVE  Numbered'
  BY <1>7, <1>a, <1>b, LoadFields
     DEF BackendStops, Numbered, Fresh, Idle, NoEngine
<1>8. ASSUME NEW l \in Loads, BackendFails(l)
      PROVE  Numbered'
  BY <1>8, <1>a, <1>b, LoadFields
     DEF BackendFails, LoadEnds, Gate!Reopen, Gate!Start, Numbered, Fresh, Idle
<1>9. ASSUME NEW l \in Loads, NEW n \in 1..MaxCapacity, BackendStarts(l, n)
      PROVE  Numbered'
  <2>1. \A k \in Loads : k # l => load[k] = Idle /\ load'[k] = Idle
    BY <1>9, <1>a, <1>b, LoadFields DEF BackendStarts
  <2>2. /\ load'[l].stage = "started" /\ load'[l].instance = lastInstance + 1
        /\ load'[l].slots = n /\ load'[l].model = load[l].model
    BY <1>9, <1>a DEF BackendStarts
  <2>3. /\ engine'.instance = lastInstance + 1 /\ engine'.slots = n
        /\ engine'.model = load[l].model /\ lastInstance' = lastInstance + 1
        /\ resident' = resident
    BY <1>9 DEF BackendStarts
  <2>4. resident.instance < lastInstance + 1
    BY <1>a DEF Numbered
  <2>5. \A k \in Loads : /\ load'[k].stage \notin {"stopped", "sized"}
                         /\ load'[k].stage = "started" => k = l
    BY <2>1, <2>2 DEF Idle
  <2>6. QED
    BY <1>a, <2>2, <2>3, <2>4, <2>5 DEF Numbered, Fresh
<1>10. ASSUME NEW l \in Loads, LoadResizes(l)
      PROVE  Numbered'
  BY <1>10, <1>a, <1>b, LoadFields
     DEF LoadResizes, Gate!SetCapacity, Numbered, Fresh, Idle
<1>11. ASSUME NEW l \in Loads, LoadPublishes(l)
      PROVE  Numbered'
  BY <1>11, <1>a, <1>b, LoadFields DEF LoadPublishes, Numbered, Fresh, Idle
<1>12. ASSUME NEW l \in Loads, LoadSucceeds(l)
      PROVE  Numbered'
  BY <1>12, <1>a, <1>b, LoadFields
     DEF LoadSucceeds, LoadEnds, Gate!Reopen, Gate!Start, Numbered, Fresh, Idle
<1>13. ASSUME NEW l \in Loads, NEW m \in Models, InstallBegin(l, m)
      PROVE  Numbered'
  BY <1>13, <1>a, <1>b, LoadFields DEF InstallBegin, Numbered, Fresh, Idle
<1>14. ASSUME NEW l \in Loads, InstallEnds(l)
      PROVE  Numbered'
  BY <1>14, <1>a, <1>b, LoadFields DEF InstallEnds, Numbered, Fresh, Idle
<1>15. ASSUME NEW u \in Unloads, UnloadStops(u)
      PROVE  Numbered'
  BY <1>15, <1>a, <1>b, LoadFields
     DEF UnloadStops, Numbered, Fresh, NoEngine, NoResident
<1>16. ASSUME NEW u \in Unloads, UnloadAborts(u)
      PROVE  Numbered'
  <2>1. engine' = NoEngine /\ UNCHANGED <<resident, lastInstance, load, capacity>>
    BY <1>16 DEF UnloadAborts, UnloadEnds, Gate!Reopen, Gate!Start
  <2>2. QED
    BY <1>a, <2>1 DEF Numbered, Fresh, NoEngine
<1>17. ASSUME NEW u \in Unloads, UnloadPublishes(u)
      PROVE  Numbered'
  <2>1. resident' = NoResident /\ UNCHANGED <<engine, lastInstance, load, capacity>>
    BY <1>17 DEF UnloadPublishes, UnloadEnds, Gate!Reopen, Gate!Start
  <2>2. QED
    BY <1>a, <2>1, NumberFields DEF Numbered, Fresh, NoResident
<1>18. ASSUME NEW a \in Renames, RenameAdopts(a)
      PROVE  Numbered'
  BY <1>18, <1>a, <1>b, LoadFields
     DEF RenameAdopts, Numbered, Fresh, NoEngine, NoResident
<1>19. ASSUME UNCHANGED <<engine, resident, lastInstance, load, capacity>> PROVE Numbered'
  BY <1>19 DEF Numbered, Fresh
<1>20. ASSUME NEW r \in Requests,
             Refused(r) \/ Capture(r) \/ Count(r) \/ Admit(r) \/ Generate(r) \/
             Finish(r) \/ Leave(r)
      PROVE  UNCHANGED <<engine, resident, lastInstance, load, capacity>>
  BY <1>20
     DEF Refused, Capture, Count, Reaches, Admit, Gate!Open, Gate!Start, Generate,
         Gate!Release, Finish, Leave
<1>21. ASSUME EngineDies
      PROVE  UNCHANGED <<engine, resident, lastInstance, load, capacity>>
  BY <1>21 DEF EngineDies
<1>22. ASSUME NEW u \in Unloads,
             UnloadBegin(u) \/ UnloadDrained(u) \/ UnloadGivesUp(u)
      PROVE  UNCHANGED <<engine, resident, lastInstance, load, capacity>>
  BY <1>22
     DEF UnloadBegin, Gate!Close, UnloadDrained, UnloadGivesUp, UnloadEnds,
         Gate!Reopen, Gate!Start
<1>23. ASSUME NEW x \in Removes,
             RemoveBegin(x)
      PROVE  UNCHANGED <<engine, resident, lastInstance, load, capacity>>
  BY <1>23 DEF RemoveBegin
<1>24. ASSUME NEW x \in Removes, NEW m \in Models,
             RemoveCommits(x, m)
      PROVE  UNCHANGED <<engine, resident, lastInstance, load, capacity>>
  BY <1>24 DEF RemoveCommits
<1>25. ASSUME NEW a \in Renames, NEW m \in Models, NEW name \in Names,
             RenameBegin(a, m, name)
      PROVE  UNCHANGED <<engine, resident, lastInstance, load, capacity>>
  BY <1>25 DEF RenameBegin
<1>26. QED
  BY <1>1, <1>2, <1>3, <1>4, <1>5, <1>6, <1>7, <1>8, <1>9, <1>10, <1>11, <1>12,
     <1>13, <1>14, <1>15, <1>16, <1>17, <1>18, <1>19, <1>20, <1>21, <1>22, <1>23,
     <1>24, <1>25
     DEF WatchedNext, Next, RequestStep, LoadStep, UnloadStep, Names

-----------------------------------------------------------------------------
(* One operation that pauses admission at a time. *)

\* An operation that pauses admission has it to itself.
LEMMA PausesAlone ==
    ASSUME Types, Lock, ~PausesOverlap
    PROVE  /\ \A u, v \in Unloads : unload[u] # Idle /\ unload[v] # Idle => u = v
           /\ \A u \in Unloads, l \in Loads :
                 unload[u] # Idle => load[l].stage \in {"idle", "judged", "installing"}
           /\ \A l, k \in Loads : load[l] # Idle /\ load[k] # Idle => l = k
BY LoadFields DEF PausesOverlap, Lock

\* A load that has paused admission keeps it paused, and drained it stays idle.
LEMMA LoadPausesStep ==
    ASSUME Types, Types', Lock, Numbered, Holders, Paused, ~PausesOverlap', WatchedNext
    PROVE  LoadPauses'
<1> USE DEF gate, requests, backend, catalog, operations, vars
<1>a. /\ load \in [Loads -> LoadState] /\ unload \in [Unloads -> UnloadState]
      /\ running \subseteq Requests
  BY DEF Types, TypeOK
<1>b. LoadPauses /\ UnloadPauses /\ ~PausesOverlap
  BY DEF Paused
<1>1. ASSUME NEW r \in Requests, Admit(r)
      PROVE  LoadPauses'
  BY <1>1, <1>a, <1>b DEF Admit, Gate!Open, Gate!Start, LoadPauses, Holders
<1>2. ASSUME NEW r \in Requests, Generate(r)
      PROVE  LoadPauses'
  BY <1>2, <1>a, <1>b DEF Generate, Reaches, Gate!Release, LoadPauses, Holders
<1>3. ASSUME NEW r \in Requests, Finish(r)
      PROVE  LoadPauses'
  BY <1>3, <1>a, <1>b DEF Finish, Gate!Release, LoadPauses, Holders
<1>4. ASSUME NEW l \in Loads, NEW m \in Models, LoadBegin(l, m)
      PROVE  LoadPauses'
  BY <1>4, <1>a, <1>b, LoadFields, PausesAlone DEF LoadBegin, LoadPauses, Idle
<1>5. ASSUME NEW l \in Loads, LoadPause(l)
      PROVE  LoadPauses'
  BY <1>5, <1>a, <1>b, LoadFields, PausesAlone
     DEF LoadPause, Gate!Close, LoadPauses, Idle
<1>6. ASSUME NEW l \in Loads, LoadDrained(l)
      PROVE  LoadPauses'
  BY <1>6, <1>a, <1>b, LoadFields, PausesAlone DEF LoadDrained, LoadPauses, Idle
<1>7. ASSUME NEW l \in Loads, LoadDrainTimeout(l)
      PROVE  LoadPauses'
  BY <1>7, <1>a, <1>b, LoadFields, PausesAlone
     DEF LoadDrainTimeout, LoadEnds, Gate!Reopen, Gate!Start, LoadPauses, Idle
<1>8. ASSUME NEW l \in Loads, BackendRefuses(l)
      PROVE  LoadPauses'
  BY <1>8, <1>a, <1>b, LoadFields, PausesAlone
     DEF BackendRefuses, LoadEnds, Gate!Reopen, Gate!Start, LoadPauses, Idle
<1>9. ASSUME NEW l \in Loads, BackendStops(l)
      PROVE  LoadPauses'
  BY <1>9, <1>a, <1>b, LoadFields, PausesAlone DEF BackendStops, LoadPauses, Idle
<1>10. ASSUME NEW l \in Loads, BackendFails(l)
      PROVE  LoadPauses'
  BY <1>10, <1>a, <1>b, LoadFields, PausesAlone
     DEF BackendFails, LoadEnds, Gate!Reopen, Gate!Start, LoadPauses, Idle
<1>11. ASSUME NEW l \in Loads, NEW n \in 1..MaxCapacity, BackendStarts(l, n)
      PROVE  LoadPauses'
  BY <1>11, <1>a, <1>b, LoadFields, PausesAlone
     DEF BackendStarts, LoadPauses, Idle
<1>12. ASSUME NEW l \in Loads, LoadResizes(l)
      PROVE  LoadPauses'
  BY <1>12, <1>a, <1>b, LoadFields, PausesAlone
     DEF LoadResizes, Gate!SetCapacity, LoadPauses, Idle
<1>13. ASSUME NEW l \in Loads, LoadPublishes(l)
      PROVE  LoadPauses'
  BY <1>13, <1>a, <1>b, LoadFields, PausesAlone
     DEF LoadPublishes, LoadPauses, Idle
<1>14. ASSUME NEW l \in Loads, LoadSucceeds(l)
      PROVE  LoadPauses'
  BY <1>14, <1>a, <1>b, LoadFields, PausesAlone
     DEF LoadSucceeds, LoadEnds, Gate!Reopen, Gate!Start, LoadPauses, Idle
<1>15. ASSUME NEW l \in Loads, NEW m \in Models, InstallBegin(l, m)
      PROVE  LoadPauses'
  BY <1>15, <1>a, <1>b, LoadFields, PausesAlone DEF InstallBegin, LoadPauses, Idle
<1>16. ASSUME NEW l \in Loads, InstallEnds(l)
      PROVE  LoadPauses'
  BY <1>16, <1>a, <1>b, LoadFields, PausesAlone DEF InstallEnds, LoadPauses, Idle
<1>17. ASSUME NEW u \in Unloads, UnloadBegin(u)
      PROVE  LoadPauses'
  BY <1>17, <1>a, <1>b, LoadFields, UnloadFields, PausesAlone
     DEF UnloadBegin, Gate!Close, LoadPauses, Idle
<1>18. ASSUME NEW u \in Unloads, UnloadGivesUp(u)
      PROVE  LoadPauses'
  BY <1>18, <1>a, <1>b, LoadFields, UnloadFields, PausesAlone
     DEF UnloadGivesUp, UnloadEnds, Gate!Reopen, Gate!Start, LoadPauses, Idle
<1>19. ASSUME NEW u \in Unloads, UnloadAborts(u)
      PROVE  LoadPauses'
  BY <1>19, <1>a, <1>b, LoadFields, UnloadFields, PausesAlone
     DEF UnloadAborts, UnloadEnds, Gate!Reopen, Gate!Start, LoadPauses, Idle
<1>20. ASSUME NEW u \in Unloads, UnloadPublishes(u)
      PROVE  LoadPauses'
  BY <1>20, <1>a, <1>b, LoadFields, UnloadFields, PausesAlone
     DEF UnloadPublishes, UnloadEnds, Gate!Reopen, Gate!Start, LoadPauses, Idle
<1>21. ASSUME UNCHANGED <<load, paused, running>> PROVE LoadPauses'
  BY <1>21, <1>b DEF LoadPauses
<1>22. ASSUME NEW r \in Requests,
             Refused(r) \/ Capture(r) \/ Count(r) \/ Leave(r)
      PROVE  UNCHANGED <<load, paused, running>>
  BY <1>22, ZenonT(30) DEF Refused, Capture, Count, Reaches, Leave
<1>23. ASSUME EngineDies \/ Health
      PROVE  UNCHANGED <<load, paused, running>>
  BY <1>23 DEF EngineDies, Health
<1>24. ASSUME NEW u \in Unloads,
             UnloadDrained(u) \/ UnloadStops(u)
      PROVE  UNCHANGED <<load, paused, running>>
  BY <1>24 DEF UnloadDrained, UnloadStops
<1>25. ASSUME NEW x \in Removes,
             RemoveBegin(x)
      PROVE  UNCHANGED <<load, paused, running>>
  BY <1>25 DEF RemoveBegin
<1>26. ASSUME NEW x \in Removes, NEW m \in Models,
             RemoveCommits(x, m)
      PROVE  UNCHANGED <<load, paused, running>>
  BY <1>26 DEF RemoveCommits
<1>27. ASSUME NEW a \in Renames, NEW m \in Models, NEW name \in Names,
             RenameBegin(a, m, name)
      PROVE  UNCHANGED <<load, paused, running>>
  BY <1>27 DEF RenameBegin
<1>28. ASSUME NEW a \in Renames,
             RenameAdopts(a)
      PROVE  UNCHANGED <<load, paused, running>>
  BY <1>28 DEF RenameAdopts
<1>29. QED
  BY <1>1, <1>2, <1>3, <1>4, <1>5, <1>6, <1>7, <1>8, <1>9, <1>10, <1>11, <1>12,
     <1>13, <1>14, <1>15, <1>16, <1>17, <1>18, <1>19, <1>20, <1>21, <1>22, <1>23,
     <1>24, <1>25, <1>26, <1>27, <1>28
     DEF WatchedNext, Next, RequestStep, LoadStep, UnloadStep, Names

\* So does a release, which also keeps knowing the advertised engine.
LEMMA UnloadPausesStep ==
    ASSUME Types, Types', Lock, Numbered, Holders, Paused, ~PausesOverlap', WatchedNext
    PROVE  UnloadPauses'
<1> USE DEF gate, requests, backend, catalog, operations, vars
<1>a. /\ load \in [Loads -> LoadState] /\ unload \in [Unloads -> UnloadState]
      /\ running \subseteq Requests
  BY DEF Types, TypeOK
<1>b. LoadPauses /\ UnloadPauses /\ ~PausesOverlap
  BY DEF Paused
<1>1. ASSUME NEW r \in Requests, Admit(r)
      PROVE  UnloadPauses'
  BY <1>1, <1>a, <1>b, UnloadFields
     DEF Admit, Gate!Open, Gate!Start, UnloadPauses, Holders
<1>2. ASSUME NEW r \in Requests, Generate(r)
      PROVE  UnloadPauses'
  BY <1>2, <1>a, <1>b, UnloadFields
     DEF Generate, Reaches, Gate!Release, UnloadPauses, Holders
<1>3. ASSUME NEW r \in Requests, Finish(r)
      PROVE  UnloadPauses'
  BY <1>3, <1>a, <1>b, UnloadFields
     DEF Finish, Gate!Release, UnloadPauses, Holders
<1>4. CASE Health
  BY <1>4, <1>b, NumberFields DEF Health, UnloadPauses
<1>5. ASSUME NEW l \in Loads, NEW m \in Models, LoadBegin(l, m)
      PROVE  UnloadPauses'
  BY <1>5, <1>a, <1>b, LoadFields, UnloadFields, PausesAlone, ZenonT(30)
     DEF LoadBegin, UnloadPauses
<1>6. ASSUME NEW l \in Loads, LoadPause(l)
      PROVE  UnloadPauses'
  BY <1>6, <1>a, <1>b, LoadFields, UnloadFields, PausesAlone
     DEF LoadPause, Gate!Close, UnloadPauses
<1>7. ASSUME NEW l \in Loads, LoadDrained(l)
      PROVE  UnloadPauses'
  BY <1>7, <1>a, <1>b, LoadFields, UnloadFields, PausesAlone
     DEF LoadDrained, UnloadPauses
<1>8. ASSUME NEW l \in Loads, LoadDrainTimeout(l)
      PROVE  UnloadPauses'
  BY <1>8, <1>a, <1>b, LoadFields, UnloadFields, PausesAlone, ZenonT(30)
     DEF LoadDrainTimeout, LoadEnds, Gate!Reopen, Gate!Start, UnloadPauses
<1>9. ASSUME NEW l \in Loads, BackendRefuses(l)
      PROVE  UnloadPauses'
  BY <1>9, <1>a, <1>b, LoadFields, UnloadFields, PausesAlone
     DEF BackendRefuses, LoadEnds, Gate!Reopen, Gate!Start, UnloadPauses
<1>10. ASSUME NEW l \in Loads, BackendStops(l)
      PROVE  UnloadPauses'
  BY <1>10, <1>a, <1>b, LoadFields, UnloadFields, PausesAlone
     DEF BackendStops, UnloadPauses
<1>11. ASSUME NEW l \in Loads, BackendFails(l)
      PROVE  UnloadPauses'
  BY <1>11, <1>a, <1>b, LoadFields, UnloadFields, PausesAlone
     DEF BackendFails, LoadEnds, Gate!Reopen, Gate!Start, UnloadPauses
<1>12. ASSUME NEW l \in Loads, NEW n \in 1..MaxCapacity, BackendStarts(l, n)
      PROVE  UnloadPauses'
  BY <1>12, <1>a, <1>b, LoadFields, UnloadFields, PausesAlone
     DEF BackendStarts, UnloadPauses
<1>13. ASSUME NEW l \in Loads, LoadResizes(l)
      PROVE  UnloadPauses'
  BY <1>13, <1>a, <1>b, LoadFields, UnloadFields, PausesAlone
     DEF LoadResizes, Gate!SetCapacity, UnloadPauses
<1>14. ASSUME NEW l \in Loads, LoadPublishes(l)
      PROVE  UnloadPauses'
  BY <1>14, <1>a, <1>b, LoadFields, UnloadFields, PausesAlone
     DEF LoadPublishes, UnloadPauses
<1>15. ASSUME NEW l \in Loads, LoadSucceeds(l)
      PROVE  UnloadPauses'
  BY <1>15, <1>a, <1>b, LoadFields, UnloadFields, PausesAlone, ZenonT(30)
     DEF LoadSucceeds, LoadEnds, Gate!Reopen, Gate!Start, UnloadPauses
<1>16. ASSUME NEW l \in Loads, NEW m \in Models, InstallBegin(l, m)
      PROVE  UnloadPauses'
  BY <1>16, <1>a, <1>b, LoadFields, UnloadFields, PausesAlone, ZenonT(30)
     DEF InstallBegin, UnloadPauses
<1>17. ASSUME NEW l \in Loads, InstallEnds(l)
      PROVE  UnloadPauses'
  BY <1>17, <1>a, <1>b, LoadFields, UnloadFields, PausesAlone, ZenonT(30)
     DEF InstallEnds, UnloadPauses
<1>18. ASSUME NEW u \in Unloads, UnloadBegin(u)
      PROVE  UnloadPauses'
  BY <1>18, <1>a, <1>b, UnloadFields, PausesAlone, ZenonT(30)
     DEF UnloadBegin, Gate!Close, UnloadPauses, Idle
<1>19. ASSUME NEW u \in Unloads, UnloadDrained(u)
      PROVE  UnloadPauses'
  BY <1>19, <1>a, <1>b, UnloadFields, PausesAlone
     DEF UnloadDrained, UnloadPauses, Idle
<1>20. ASSUME NEW u \in Unloads, UnloadGivesUp(u)
      PROVE  UnloadPauses'
  BY <1>20, <1>a, <1>b, UnloadFields, PausesAlone
     DEF UnloadGivesUp, UnloadEnds, Gate!Reopen, Gate!Start, UnloadPauses, Idle
<1>21. ASSUME NEW u \in Unloads, UnloadStops(u)
      PROVE  UnloadPauses'
  <2>1. \A l \in Loads : ~Fresh(l)
    BY <1>21, <1>a, <1>b, LoadFields, UnloadFields, PausesAlone
       DEF UnloadStops, Fresh, Idle
  <2>2. engine' = NoEngine
    BY <1>21, <1>b, <2>1 DEF UnloadStops, UnloadPauses, Paused, Advertised
  <2>3. QED
    BY <1>21, <1>a, <1>b, <2>2, UnloadFields, PausesAlone
       DEF UnloadStops, UnloadPauses
<1>22. ASSUME NEW u \in Unloads, UnloadAborts(u)
      PROVE  UnloadPauses'
  BY <1>22, <1>a, <1>b, UnloadFields, PausesAlone
     DEF UnloadAborts, UnloadEnds, Gate!Reopen, Gate!Start, UnloadPauses, Idle
<1>23. ASSUME NEW u \in Unloads, UnloadPublishes(u)
      PROVE  UnloadPauses'
  BY <1>23, <1>a, <1>b, UnloadFields, PausesAlone
     DEF UnloadPublishes, UnloadEnds, Gate!Reopen, Gate!Start, UnloadPauses, Idle
<1>24. ASSUME NEW a \in Renames, RenameAdopts(a)
      PROVE  UnloadPauses'
  BY <1>24, <1>b, NumberFields DEF RenameAdopts, UnloadPauses
<1>25. ASSUME UNCHANGED <<unload, paused, running, resident, engine>> PROVE UnloadPauses'
  BY <1>25, <1>b DEF UnloadPauses
<1>26. ASSUME NEW r \in Requests,
             Refused(r) \/ Capture(r) \/ Count(r) \/ Leave(r)
      PROVE  UNCHANGED <<unload, paused, running, resident, engine>>
  BY <1>26 DEF Refused, Capture, Count, Reaches, Leave
<1>27. ASSUME EngineDies
      PROVE  UNCHANGED <<unload, paused, running, resident, engine>>
  BY <1>27 DEF EngineDies
<1>28. ASSUME NEW x \in Removes,
             RemoveBegin(x)
      PROVE  UNCHANGED <<unload, paused, running, resident, engine>>
  BY <1>28 DEF RemoveBegin
<1>29. ASSUME NEW x \in Removes, NEW m \in Models,
             RemoveCommits(x, m)
      PROVE  UNCHANGED <<unload, paused, running, resident, engine>>
  BY <1>29 DEF RemoveCommits
<1>30. ASSUME NEW a \in Renames, NEW m \in Models, NEW name \in Names,
             RenameBegin(a, m, name)
      PROVE  UNCHANGED <<unload, paused, running, resident, engine>>
  BY <1>30 DEF RenameBegin
<1>31. QED
  BY <1>1, <1>2, <1>3, <1>4, <1>5, <1>6, <1>7, <1>8, <1>9, <1>10, <1>11, <1>12,
     <1>13, <1>14, <1>15, <1>16, <1>17, <1>18, <1>19, <1>20, <1>21, <1>22, <1>23,
     <1>24, <1>25, <1>26, <1>27, <1>28, <1>29, <1>30
     DEF WatchedNext, Next, RequestStep, LoadStep, UnloadStep, Names

\* The catalog advertises the engine that is up, unless a load has just
\* started it.
LEMMA AdvertisedStep ==
    ASSUME Types, Types', Lock, Numbered, Holders, Paused, ~PausesOverlap', WatchedNext
    PROVE  Advertised'
<1> USE DEF gate, requests, backend, catalog, operations, vars
<1>a. /\ load \in [Loads -> LoadState] /\ unload \in [Unloads -> UnloadState]
      /\ running \subseteq Requests
  BY DEF Types, TypeOK
<1>b. LoadPauses /\ UnloadPauses /\ ~PausesOverlap
  BY DEF Paused
<1>1. CASE Health
  BY <1>1, ZenonT(30) DEF Health, Advertised, Paused, Fresh, NoEngine
<1>2. ASSUME NEW l \in Loads, NEW m \in Models, LoadBegin(l, m)
      PROVE  Advertised'
  BY <1>2, <1>a, LoadFields
     DEF LoadBegin, Advertised, Paused, Fresh, Numbered, Idle
<1>3. ASSUME NEW l \in Loads, LoadPause(l)
      PROVE  Advertised'
  BY <1>3, <1>a, LoadFields
     DEF LoadPause, Gate!Close, Advertised, Paused, Fresh, Numbered, Idle
<1>4. ASSUME NEW l \in Loads, LoadDrained(l)
      PROVE  Advertised'
  BY <1>4, <1>a, LoadFields
     DEF LoadDrained, Advertised, Paused, Fresh, Numbered, Idle
<1>5. ASSUME NEW l \in Loads, LoadDrainTimeout(l)
      PROVE  Advertised'
  BY <1>5, <1>a, LoadFields, ZenonT(30)
     DEF LoadDrainTimeout, LoadEnds, Gate!Reopen, Gate!Start, Advertised, Paused,
         Fresh, Numbered, Idle
<1>6. ASSUME NEW l \in Loads, BackendRefuses(l)
      PROVE  Advertised'
  BY <1>6, <1>a, LoadFields, ZenonT(30)
     DEF BackendRefuses, LoadEnds, Gate!Reopen, Gate!Start, Advertised, Paused,
         Fresh, Numbered, Idle
<1>7. ASSUME NEW l \in Loads, BackendStops(l)
      PROVE  Advertised'
  BY <1>7 DEF BackendStops, Advertised, Paused, Fresh, NoEngine
<1>8. ASSUME NEW l \in Loads, BackendFails(l)
      PROVE  Advertised'
  BY <1>8, <1>a, LoadFields, ZenonT(30)
     DEF BackendFails, LoadEnds, Gate!Reopen, Gate!Start, Advertised, Paused, Fresh,
         Numbered, Idle
<1>9. ASSUME NEW l \in Loads, NEW n \in 1..MaxCapacity, BackendStarts(l, n)
      PROVE  Advertised'
  BY <1>9, <1>a DEF BackendStarts, Advertised, Fresh
<1>10. ASSUME NEW l \in Loads, LoadResizes(l)
      PROVE  Advertised'
  BY <1>10, <1>a, LoadFields
     DEF LoadResizes, Gate!SetCapacity, Advertised, Paused, Fresh, Numbered, Idle
<1>11. ASSUME NEW l \in Loads, LoadPublishes(l)
      PROVE  Advertised'
  <2>1. ASSUME engine # NoEngine
        PROVE  engine.instance = load[l].instance
    BY <1>11, <2>1 DEF LoadPublishes, Numbered, Fresh
  <2>2. QED
    BY <1>11, <2>1 DEF LoadPublishes, Advertised
<1>12. ASSUME NEW l \in Loads, LoadSucceeds(l)
      PROVE  Advertised'
  BY <1>12, <1>a, LoadFields, ZenonT(30)
     DEF LoadSucceeds, LoadEnds, Gate!Reopen, Gate!Start, Advertised, Paused, Fresh,
         Numbered, Idle
<1>13. ASSUME NEW l \in Loads, NEW m \in Models, InstallBegin(l, m)
      PROVE  Advertised'
  BY <1>13, <1>a, LoadFields, ZenonT(30)
     DEF InstallBegin, Advertised, Paused, Fresh, Numbered, Idle
<1>14. ASSUME NEW l \in Loads, InstallEnds(l)
      PROVE  Advertised'
  BY <1>14, <1>a, LoadFields
     DEF InstallEnds, Advertised, Paused, Fresh, Numbered, Idle
<1>15. ASSUME NEW u \in Unloads, UnloadStops(u)
      PROVE  Advertised'
  BY <1>15 DEF UnloadStops, Advertised, Paused, Fresh, NoEngine
<1>16. ASSUME NEW u \in Unloads, UnloadAborts(u)
      PROVE  Advertised'
  BY <1>16
     DEF UnloadAborts, UnloadEnds, Gate!Reopen, Gate!Start, Advertised, Paused,
         Fresh, NoEngine
<1>17. ASSUME NEW u \in Unloads, UnloadPublishes(u)
      PROVE  Advertised'
  BY <1>17, <1>b, ZenonT(30)
     DEF UnloadPublishes, UnloadEnds, Gate!Reopen, Gate!Start, UnloadPauses,
         Advertised
<1>18. ASSUME NEW a \in Renames, RenameAdopts(a)
      PROVE  Advertised'
  BY <1>18, NumberFields DEF RenameAdopts, Advertised, Paused, Fresh
<1>19. ASSUME UNCHANGED <<engine, resident, load>> PROVE Advertised'
  BY <1>19 DEF Advertised, Paused, Fresh
<1>20. ASSUME NEW r \in Requests,
             Refused(r) \/ Capture(r) \/ Count(r) \/ Admit(r) \/ Generate(r) \/
             Finish(r) \/ Leave(r)
      PROVE  UNCHANGED <<engine, resident, load>>
  BY <1>20, ZenonT(30)
     DEF Refused, Capture, Count, Reaches, Admit, Gate!Open, Gate!Start, Generate,
         Gate!Release, Finish, Leave
<1>21. ASSUME EngineDies
      PROVE  UNCHANGED <<engine, resident, load>>
  BY <1>21 DEF EngineDies
<1>22. ASSUME NEW u \in Unloads,
             UnloadBegin(u) \/ UnloadDrained(u) \/ UnloadGivesUp(u)
      PROVE  UNCHANGED <<engine, resident, load>>
  BY <1>22
     DEF UnloadBegin, Gate!Close, UnloadDrained, UnloadGivesUp, UnloadEnds,
         Gate!Reopen, Gate!Start
<1>23. ASSUME NEW x \in Removes,
             RemoveBegin(x)
      PROVE  UNCHANGED <<engine, resident, load>>
  BY <1>23 DEF RemoveBegin
<1>24. ASSUME NEW x \in Removes, NEW m \in Models,
             RemoveCommits(x, m)
      PROVE  UNCHANGED <<engine, resident, load>>
  BY <1>24, ZenonT(30) DEF RemoveCommits
<1>25. ASSUME NEW a \in Renames, NEW m \in Models, NEW name \in Names,
             RenameBegin(a, m, name)
      PROVE  UNCHANGED <<engine, resident, load>>
  BY <1>25 DEF RenameBegin
<1>26. QED
  BY <1>1, <1>2, <1>3, <1>4, <1>5, <1>6, <1>7, <1>8, <1>9, <1>10, <1>11, <1>12,
     <1>13, <1>14, <1>15, <1>16, <1>17, <1>18, <1>19, <1>20, <1>21, <1>22, <1>23,
     <1>24, <1>25
     DEF WatchedNext, Next, RequestStep, LoadStep, UnloadStep, Names

\* A generation keeps its engine: none is stopped before the drain.
LEMMA NoCutStep ==
    ASSUME Types, Types', Lock, Numbered, Holders, Paused, ~PausesOverlap', WatchedNext
    PROVE  NoGenerationCut'
<1> USE DEF gate, requests, backend, catalog, operations, vars
<1>a. /\ load \in [Loads -> LoadState] /\ unload \in [Unloads -> UnloadState]
      /\ running \subseteq Requests
  BY DEF Types, TypeOK
<1>b. LoadPauses /\ UnloadPauses /\ ~PausesOverlap
  BY DEF Paused
<1>1. ASSUME NEW r \in Requests, Capture(r)
      PROVE  NoGenerationCut'
  BY <1>1 DEF Capture, NoGenerationCut, Paused, Types, TypeOK
<1>2. ASSUME NEW r \in Requests, Count(r)
      PROVE  NoGenerationCut'
  BY <1>2 DEF Count, Reaches, NoGenerationCut, Paused, Types, TypeOK
<1>3. ASSUME NEW r \in Requests, Admit(r)
      PROVE  NoGenerationCut'
  BY <1>3 DEF Admit, Gate!Open, Gate!Start, NoGenerationCut, Paused, Types, TypeOK
<1>4. ASSUME NEW r \in Requests, Generate(r)
      PROVE  NoGenerationCut'
  <2>1. UNCHANGED <<engine, held, crashed>>
    BY <1>4, ZenonT(30) DEF Generate, Reaches, Gate!Release
  <2>2. /\ \A q \in Requests : q # r => pc'[q] = pc[q]
        /\ pc'[r] = "generating" => engine.instance = held[r]
    BY <1>4, <2>1 DEF Generate, Reaches, Gate!Release, Types, TypeOK
  <2>3. QED
    BY <2>1, <2>2 DEF NoGenerationCut, Paused
<1>5. ASSUME NEW r \in Requests, Finish(r)
      PROVE  NoGenerationCut'
  BY <1>5 DEF Finish, Gate!Release, NoGenerationCut, Paused, Types, TypeOK
<1>6. ASSUME NEW r \in Requests, Leave(r)
      PROVE  NoGenerationCut'
  BY <1>6 DEF Leave, NoGenerationCut, Paused, Types, TypeOK
<1>7. CASE EngineDies
  BY <1>7, ZenonT(30) DEF EngineDies, NoGenerationCut, Paused
<1>8. CASE Health
  BY <1>8, ZenonT(30) DEF Health, NoGenerationCut, Paused
<1>9. ASSUME NEW l \in Loads, BackendStops(l)
      PROVE  NoGenerationCut'
  <2>1. running = {}
    BY <1>9, <1>b DEF BackendStops, LoadPauses, UnloadPauses
  <2>2. QED
    BY <1>9, <2>1 DEF BackendStops, NoGenerationCut, Holders
<1>10. ASSUME NEW l \in Loads, NEW n \in 1..MaxCapacity, BackendStarts(l, n)
      PROVE  NoGenerationCut'
  <2>1. running = {}
    BY <1>10, <1>b DEF BackendStarts, LoadPauses, UnloadPauses
  <2>2. QED
    BY <1>10, <2>1 DEF BackendStarts, NoGenerationCut, Holders
<1>11. ASSUME NEW u \in Unloads, UnloadStops(u)
      PROVE  NoGenerationCut'
  <2>1. running = {}
    BY <1>11, <1>b DEF UnloadStops, LoadPauses, UnloadPauses
  <2>2. QED
    BY <1>11, <2>1 DEF UnloadStops, NoGenerationCut, Holders
<1>12. ASSUME NEW u \in Unloads, UnloadAborts(u)
      PROVE  NoGenerationCut'
  <2>1. running = {}
    BY <1>12, <1>b
       DEF UnloadAborts, UnloadEnds, Gate!Reopen, Gate!Start, LoadPauses,
           UnloadPauses
  <2>2. QED
    BY <1>12, <2>1
       DEF UnloadAborts, UnloadEnds, Gate!Reopen, Gate!Start, NoGenerationCut,
           Holders
<1>13. ASSUME UNCHANGED <<engine, pc, held, crashed>> PROVE NoGenerationCut'
  BY <1>13 DEF NoGenerationCut, Paused
<1>14. ASSUME NEW r \in Requests,
             Refused(r)
      PROVE  UNCHANGED <<engine, pc, held, crashed>>
  BY <1>14 DEF Refused
<1>15. ASSUME NEW l \in Loads, NEW m \in Models,
             LoadBegin(l, m) \/ InstallBegin(l, m)
      PROVE  UNCHANGED <<engine, pc, held, crashed>>
  BY <1>15 DEF LoadBegin, InstallBegin
<1>16. ASSUME NEW l \in Loads,
             LoadPause(l) \/ LoadDrained(l) \/ LoadDrainTimeout(l) \/
             BackendRefuses(l) \/ BackendFails(l) \/ LoadResizes(l) \/
             LoadPublishes(l) \/ LoadSucceeds(l) \/ InstallEnds(l)
      PROVE  UNCHANGED <<engine, pc, held, crashed>>
  BY <1>16
     DEF LoadPause, Gate!Close, LoadDrained, LoadDrainTimeout, LoadEnds,
         Gate!Reopen, Gate!Start, BackendRefuses, BackendFails, LoadResizes,
         Gate!SetCapacity, LoadPublishes, LoadSucceeds, InstallEnds
<1>17. ASSUME NEW u \in Unloads,
             UnloadBegin(u) \/ UnloadDrained(u) \/ UnloadGivesUp(u) \/
             UnloadPublishes(u)
      PROVE  UNCHANGED <<engine, pc, held, crashed>>
  BY <1>17
     DEF UnloadBegin, Gate!Close, UnloadDrained, UnloadGivesUp, UnloadEnds,
         Gate!Reopen, Gate!Start, UnloadPublishes
<1>18. ASSUME NEW x \in Removes,
             RemoveBegin(x)
      PROVE  UNCHANGED <<engine, pc, held, crashed>>
  BY <1>18 DEF RemoveBegin
<1>19. ASSUME NEW x \in Removes, NEW m \in Models,
             RemoveCommits(x, m)
      PROVE  UNCHANGED <<engine, pc, held, crashed>>
  BY <1>19, ZenonT(30) DEF RemoveCommits
<1>20. ASSUME NEW a \in Renames, NEW m \in Models, NEW name \in Names,
             RenameBegin(a, m, name)
      PROVE  UNCHANGED <<engine, pc, held, crashed>>
  BY <1>20 DEF RenameBegin
<1>21. ASSUME NEW a \in Renames,
             RenameAdopts(a)
      PROVE  UNCHANGED <<engine, pc, held, crashed>>
  BY <1>21 DEF RenameAdopts
<1>22. QED
  BY <1>1, <1>2, <1>3, <1>4, <1>5, <1>6, <1>7, <1>8, <1>9, <1>10, <1>11, <1>12,
     <1>13, <1>14, <1>15, <1>16, <1>17, <1>18, <1>19, <1>20, <1>21
     DEF WatchedNext, Next, RequestStep, LoadStep, UnloadStep, Names

-----------------------------------------------------------------------------
(* Edits of the catalog apart from loads and from one another. *)

\* An edit of the catalog has it to itself.
LEMMA EditsAlone ==
    ASSUME Types, ~EditsOverlap
    PROVE  /\ \A l \in Loads : load[l].stage \notin {"idle", "installing"} =>
                 /\ \A x \in Removes : remove[x] = Idle
                 /\ \A a \in Renames : rename[a] = Idle
           /\ \A a, b \in Renames : rename[a] # Idle /\ rename[b] # Idle => a = b
BY DEF EditsOverlap

\* A load keeps knowing its model's record and name.
LEMMA LoadsKnowStep ==
    ASSUME Types, Types', Edited, ~EditsOverlap', WatchedNext
    PROVE  LoadsKnow'
<1> USE DEF gate, requests, backend, catalog, operations, vars
<1>a. /\ load \in [Loads -> LoadState] /\ alias \in [Models -> Names]
      /\ remove \in [Removes -> RemoveState] /\ rename \in [Renames -> RenameState]
      /\ resident # NoResident => resident.model \in Models
  BY DEF Types, TypeOK, Names, Resident
<1>b. LoadsKnow /\ RecordKept /\ NameKept /\ ~EditsOverlap
  BY DEF Edited
<1>1. ASSUME NEW l \in Loads, NEW m \in Models, LoadBegin(l, m)
      PROVE  LoadsKnow'
  BY <1>1, <1>a, <1>b, LoadFields, ZenonT(30) DEF LoadBegin, LoadsKnow, Idle
<1>2. ASSUME NEW l \in Loads, LoadPause(l)
      PROVE  LoadsKnow'
  BY <1>2, <1>a, <1>b, LoadFields DEF LoadPause, Gate!Close, LoadsKnow, Idle
<1>3. ASSUME NEW l \in Loads, LoadDrained(l)
      PROVE  LoadsKnow'
  BY <1>3, <1>a, <1>b, LoadFields DEF LoadDrained, LoadsKnow, Idle
<1>4. ASSUME NEW l \in Loads, LoadDrainTimeout(l)
      PROVE  LoadsKnow'
  BY <1>4, <1>a, <1>b, LoadFields, ZenonT(30)
     DEF LoadDrainTimeout, LoadEnds, Gate!Reopen, Gate!Start, LoadsKnow, Idle
<1>5. ASSUME NEW l \in Loads, BackendRefuses(l)
      PROVE  LoadsKnow'
  BY <1>5, <1>a, <1>b, LoadFields, ZenonT(30)
     DEF BackendRefuses, LoadEnds, Gate!Reopen, Gate!Start, LoadsKnow, Idle
<1>6. ASSUME NEW l \in Loads, BackendStops(l)
      PROVE  LoadsKnow'
  BY <1>6, <1>a, <1>b, LoadFields DEF BackendStops, LoadsKnow, Idle
<1>7. ASSUME NEW l \in Loads, BackendFails(l)
      PROVE  LoadsKnow'
  BY <1>7, <1>a, <1>b, LoadFields
     DEF BackendFails, LoadEnds, Gate!Reopen, Gate!Start, LoadsKnow, Idle
<1>8. ASSUME NEW l \in Loads, NEW n \in 1..MaxCapacity, BackendStarts(l, n)
      PROVE  LoadsKnow'
  BY <1>8, <1>a, <1>b, LoadFields DEF BackendStarts, LoadsKnow, Idle
<1>9. ASSUME NEW l \in Loads, LoadResizes(l)
      PROVE  LoadsKnow'
  BY <1>9, <1>a, <1>b, LoadFields
     DEF LoadResizes, Gate!SetCapacity, LoadsKnow, Idle
<1>10. ASSUME NEW l \in Loads, LoadPublishes(l)
      PROVE  LoadsKnow'
  BY <1>10, <1>a, <1>b, LoadFields DEF LoadPublishes, LoadsKnow, Idle
<1>11. ASSUME NEW l \in Loads, LoadSucceeds(l)
      PROVE  LoadsKnow'
  BY <1>11, <1>a, <1>b, LoadFields
     DEF LoadSucceeds, LoadEnds, Gate!Reopen, Gate!Start, LoadsKnow, Idle
<1>12. ASSUME NEW l \in Loads, NEW m \in Models, InstallBegin(l, m)
      PROVE  LoadsKnow'
  BY <1>12, <1>a, <1>b, LoadFields, ZenonT(30) DEF InstallBegin, LoadsKnow, Idle
<1>13. ASSUME NEW l \in Loads, InstallEnds(l)
      PROVE  LoadsKnow'
  BY <1>13, <1>a, <1>b, LoadFields, ZenonT(30) DEF InstallEnds, LoadsKnow, Idle
<1>14. ASSUME NEW x \in Removes, NEW m \in Models, RemoveCommits(x, m)
      PROVE  LoadsKnow'
  <2>1. \A l \in Loads : load'[l].stage \in {"idle", "installing"}
    BY <1>14, <1>a, <1>b, LoadFields, EditFields, EditsAlone, ZenonT(30)
       DEF RemoveCommits, Idle
  <2>2. QED
    BY <2>1 DEF LoadsKnow
<1>15. ASSUME NEW a \in Renames, NEW m \in Models, NEW name \in Names,
             RenameBegin(a, m, name)
      PROVE  LoadsKnow'
  <2>1. \A l \in Loads : load'[l].stage \in {"idle", "installing"}
    <3>1. rename'[a] # Idle /\ load' = load
      BY <1>15, <1>a, ZenonT(30) DEF RenameBegin, Idle
    <3>2. QED
      BY <3>1 DEF EditsOverlap
  <2>2. QED
    BY <2>1 DEF LoadsKnow
<1>16. ASSUME UNCHANGED <<load, installed, alias>> PROVE LoadsKnow'
  BY <1>16, <1>b DEF LoadsKnow
<1>17. ASSUME NEW r \in Requests,
             Refused(r) \/ Capture(r) \/ Count(r) \/ Admit(r) \/ Generate(r) \/
             Finish(r) \/ Leave(r)
      PROVE  UNCHANGED <<load, installed, alias>>
  BY <1>17, ZenonT(30)
     DEF Refused, Capture, Count, Reaches, Admit, Gate!Open, Gate!Start, Generate,
         Gate!Release, Finish, Leave
<1>18. ASSUME EngineDies \/ Health
      PROVE  UNCHANGED <<load, installed, alias>>
  BY <1>18 DEF EngineDies, Health
<1>19. ASSUME NEW u \in Unloads,
             UnloadBegin(u) \/ UnloadDrained(u) \/ UnloadGivesUp(u) \/
             UnloadStops(u) \/ UnloadAborts(u) \/ UnloadPublishes(u)
      PROVE  UNCHANGED <<load, installed, alias>>
  BY <1>19
     DEF UnloadBegin, Gate!Close, UnloadDrained, UnloadGivesUp, UnloadEnds,
         Gate!Reopen, Gate!Start, UnloadStops, UnloadAborts, UnloadPublishes
<1>20. ASSUME NEW x \in Removes,
             RemoveBegin(x)
      PROVE  UNCHANGED <<load, installed, alias>>
  BY <1>20 DEF RemoveBegin
<1>21. ASSUME NEW a \in Renames,
             RenameAdopts(a)
      PROVE  UNCHANGED <<load, installed, alias>>
  BY <1>21 DEF RenameAdopts
<1>22. QED
  BY <1>1, <1>2, <1>3, <1>4, <1>5, <1>6, <1>7, <1>8, <1>9, <1>10, <1>11, <1>12,
     <1>13, <1>14, <1>15, <1>16, <1>17, <1>18, <1>19, <1>20, <1>21
     DEF WatchedNext, Next, RequestStep, LoadStep, UnloadStep, Names

\* The loaded model keeps its record: a removal knows which it is.
LEMMA RecordKeptStep ==
    ASSUME Types, Types', Edited, ~EditsOverlap', WatchedNext
    PROVE  RecordKept'
<1> USE DEF gate, requests, backend, catalog, operations, vars
<1>a. /\ load \in [Loads -> LoadState] /\ alias \in [Models -> Names]
      /\ remove \in [Removes -> RemoveState] /\ rename \in [Renames -> RenameState]
      /\ resident # NoResident => resident.model \in Models
  BY DEF Types, TypeOK, Names, Resident
<1>b. LoadsKnow /\ RecordKept /\ NameKept /\ ~EditsOverlap
  BY DEF Edited
<1>1. ASSUME NEW l \in Loads, LoadPublishes(l)
      PROVE  RecordKept'
  BY <1>1, <1>a, <1>b, EditsAlone DEF LoadPublishes, LoadsKnow, RecordKept
<1>2. ASSUME NEW l \in Loads, InstallEnds(l)
      PROVE  RecordKept'
  BY <1>2, <1>b, ZenonT(30) DEF InstallEnds, RecordKept
<1>3. ASSUME NEW u \in Unloads, UnloadPublishes(u)
      PROVE  RecordKept'
  BY <1>3, ZenonT(30)
     DEF UnloadPublishes, UnloadEnds, Gate!Reopen, Gate!Start, RecordKept
<1>4. ASSUME NEW x \in Removes, RemoveBegin(x)
      PROVE  RecordKept'
  BY <1>4, <1>a, <1>b, EditFields, ZenonT(30) DEF RemoveBegin, RecordKept, Idle
<1>5. ASSUME NEW x \in Removes, NEW m \in Models, RemoveCommits(x, m)
      PROVE  RecordKept'
  BY <1>5, <1>a, <1>b, EditFields, ZenonT(30) DEF RemoveCommits, RecordKept, Idle
<1>6. ASSUME NEW a \in Renames, RenameAdopts(a)
      PROVE  RecordKept'
  BY <1>6, <1>b, NumberFields DEF RenameAdopts, RecordKept, Resident
<1>7. ASSUME UNCHANGED <<resident, installed, remove>> PROVE RecordKept'
  BY <1>7, <1>b DEF RecordKept
<1>8. ASSUME NEW r \in Requests,
             Refused(r) \/ Capture(r) \/ Count(r) \/ Admit(r) \/ Generate(r) \/
             Finish(r) \/ Leave(r)
      PROVE  UNCHANGED <<resident, installed, remove>>
  BY <1>8, ZenonT(30)
     DEF Refused, Capture, Count, Reaches, Admit, Gate!Open, Gate!Start, Generate,
         Gate!Release, Finish, Leave
<1>9. ASSUME EngineDies \/ Health
      PROVE  UNCHANGED <<resident, installed, remove>>
  BY <1>9 DEF EngineDies, Health
<1>10. ASSUME NEW l \in Loads, NEW m \in Models,
             LoadBegin(l, m) \/ InstallBegin(l, m)
      PROVE  UNCHANGED <<resident, installed, remove>>
  BY <1>10, ZenonT(30) DEF LoadBegin, InstallBegin
<1>11. ASSUME NEW l \in Loads,
             LoadPause(l) \/ LoadDrained(l) \/ LoadDrainTimeout(l) \/
             BackendRefuses(l) \/ BackendStops(l) \/ BackendFails(l) \/
             LoadResizes(l) \/ LoadSucceeds(l)
      PROVE  UNCHANGED <<resident, installed, remove>>
  BY <1>11
     DEF LoadPause, Gate!Close, LoadDrained, LoadDrainTimeout, LoadEnds,
         Gate!Reopen, Gate!Start, BackendRefuses, BackendStops, BackendFails,
         LoadResizes, Gate!SetCapacity, LoadSucceeds
<1>12. ASSUME NEW l \in Loads, NEW n \in 1..MaxCapacity,
             BackendStarts(l, n)
      PROVE  UNCHANGED <<resident, installed, remove>>
  BY <1>12 DEF BackendStarts
<1>13. ASSUME NEW u \in Unloads,
             UnloadBegin(u) \/ UnloadDrained(u) \/ UnloadGivesUp(u) \/
             UnloadStops(u) \/ UnloadAborts(u)
      PROVE  UNCHANGED <<resident, installed, remove>>
  BY <1>13
     DEF UnloadBegin, Gate!Close, UnloadDrained, UnloadGivesUp, UnloadEnds,
         Gate!Reopen, Gate!Start, UnloadStops, UnloadAborts
<1>14. ASSUME NEW a \in Renames, NEW m \in Models, NEW name \in Names,
             RenameBegin(a, m, name)
      PROVE  UNCHANGED <<resident, installed, remove>>
  BY <1>14 DEF RenameBegin
<1>15. QED
  BY <1>1, <1>2, <1>3, <1>4, <1>5, <1>6, <1>7, <1>8, <1>9, <1>10, <1>11, <1>12,
     <1>13, <1>14
     DEF WatchedNext, Next, RequestStep, LoadStep, UnloadStep, Names

\* The loaded model answers to its record's name, once the rename is through.
LEMMA NameKeptStep ==
    ASSUME Types, Types', Edited, ~EditsOverlap', WatchedNext
    PROVE  NameKept'
<1> USE DEF gate, requests, backend, catalog, operations, vars
<1>a. /\ load \in [Loads -> LoadState] /\ alias \in [Models -> Names]
      /\ remove \in [Removes -> RemoveState] /\ rename \in [Renames -> RenameState]
      /\ resident # NoResident => resident.model \in Models
  BY DEF Types, TypeOK, Names, Resident
<1>b. LoadsKnow /\ RecordKept /\ NameKept /\ ~EditsOverlap
  BY DEF Edited
<1>1. ASSUME NEW l \in Loads, LoadPublishes(l)
      PROVE  NameKept'
  BY <1>1, <1>a, <1>b, EditsAlone DEF LoadPublishes, LoadsKnow, NameKept
<1>2. ASSUME NEW u \in Unloads, UnloadPublishes(u)
      PROVE  NameKept'
  BY <1>2, ZenonT(30)
     DEF UnloadPublishes, UnloadEnds, Gate!Reopen, Gate!Start, NameKept
<1>3. ASSUME NEW x \in Removes, NEW m \in Models, RemoveCommits(x, m)
      PROVE  NameKept'
  <2>1. resident # NoResident => alias'[resident.model] = alias[resident.model]
    BY <1>3, <1>a, <1>b, EditFields DEF RemoveCommits, RecordKept
  <2>2. QED
    BY <1>3, <1>b, <2>1, ZenonT(30) DEF RemoveCommits, NameKept
<1>4. ASSUME NEW a \in Renames, NEW m \in Models, NEW name \in Names,
             RenameBegin(a, m, name)
      PROVE  NameKept'
  <2>1. \A b \in Renames \ {a} : rename'[b] = Idle
    BY <1>4, <1>a, ZenonT(30) DEF RenameBegin, Idle, EditsOverlap
  <2>2. QED
    BY <1>4, <1>a, <1>b, <2>1, EditFields, ZenonT(30)
       DEF RenameBegin, NameKept, Idle
<1>5. ASSUME NEW a \in Renames, RenameAdopts(a)
      PROVE  NameKept'
  <2>1. \A b \in Renames \ {a} : rename[b] = Idle
    BY <1>5, <1>a, <1>b, EditFields, EditsAlone DEF RenameAdopts
  <2>2. CASE resident # NoResident /\ resident.model = rename[a].model
    <3>1. resident'.model = resident.model /\ resident'.alias = rename[a].alias
      BY <1>5, <2>2, NumberFields DEF RenameAdopts, Resident
    <3>2. alias'[resident.model] = rename[a].alias
      BY <1>5, <1>b, <2>2, EditFields DEF RenameAdopts, NameKept
    <3>3. QED
      BY <1>5, <1>a, <2>1, <3>1, <3>2 DEF RenameAdopts, NameKept, Idle
  <2>3. CASE ~(resident # NoResident /\ resident.model = rename[a].model)
    BY <1>5, <1>a, <1>b, <2>1, <2>3 DEF RenameAdopts, NameKept, Idle
  <2>4. QED
    BY <2>2, <2>3
<1>6. ASSUME UNCHANGED <<resident, alias, rename>> PROVE NameKept'
  BY <1>6, <1>b, ZenonT(30) DEF NameKept
<1>7. ASSUME NEW r \in Requests,
             Refused(r) \/ Capture(r) \/ Count(r) \/ Admit(r) \/ Generate(r) \/
             Finish(r) \/ Leave(r)
      PROVE  UNCHANGED <<resident, alias, rename>>
  BY <1>7, ZenonT(30)
     DEF Refused, Capture, Count, Reaches, Admit, Gate!Open, Gate!Start, Generate,
         Gate!Release, Finish, Leave
<1>8. ASSUME EngineDies \/ Health
      PROVE  UNCHANGED <<resident, alias, rename>>
  BY <1>8 DEF EngineDies, Health
<1>9. ASSUME NEW l \in Loads, NEW m \in Models,
             LoadBegin(l, m) \/ InstallBegin(l, m)
      PROVE  UNCHANGED <<resident, alias, rename>>
  BY <1>9, ZenonT(30) DEF LoadBegin, InstallBegin
<1>10. ASSUME NEW l \in Loads,
             LoadPause(l) \/ LoadDrained(l) \/ LoadDrainTimeout(l) \/
             BackendRefuses(l) \/ BackendStops(l) \/ BackendFails(l) \/
             LoadResizes(l) \/ LoadSucceeds(l) \/ InstallEnds(l)
      PROVE  UNCHANGED <<resident, alias, rename>>
  BY <1>10
     DEF LoadPause, Gate!Close, LoadDrained, LoadDrainTimeout, LoadEnds,
         Gate!Reopen, Gate!Start, BackendRefuses, BackendStops, BackendFails,
         LoadResizes, Gate!SetCapacity, LoadSucceeds, InstallEnds
<1>11. ASSUME NEW l \in Loads, NEW n \in 1..MaxCapacity,
             BackendStarts(l, n)
      PROVE  UNCHANGED <<resident, alias, rename>>
  BY <1>11 DEF BackendStarts
<1>12. ASSUME NEW u \in Unloads,
             UnloadBegin(u) \/ UnloadDrained(u) \/ UnloadGivesUp(u) \/
             UnloadStops(u) \/ UnloadAborts(u)
      PROVE  UNCHANGED <<resident, alias, rename>>
  BY <1>12
     DEF UnloadBegin, Gate!Close, UnloadDrained, UnloadGivesUp, UnloadEnds,
         Gate!Reopen, Gate!Start, UnloadStops, UnloadAborts
<1>13. ASSUME NEW x \in Removes,
             RemoveBegin(x)
      PROVE  UNCHANGED <<resident, alias, rename>>
  BY <1>13 DEF RemoveBegin
<1>14. QED
  BY <1>1, <1>2, <1>3, <1>4, <1>5, <1>6, <1>7, <1>8, <1>9, <1>10, <1>11, <1>12,
     <1>13
     DEF WatchedNext, Next, RequestStep, LoadStep, UnloadStep, Names

-----------------------------------------------------------------------------
(* The invariant and the promises. *)

\* The gateway starts with no operation, so with nothing that overlaps.
LEMMA Initially == WatchedInit => IInv
<1> SUFFICES ASSUME WatchedInit PROVE IInv
  OBVIOUS
<1>1. Types
  BY TypesInit
<1>2. /\ lastInstance = 1 /\ engine.instance = resident.instance
      /\ resident.instance \in {0, 1}
      /\ engine # NoEngine => engine.slots = capacity /\ engine.model = resident.model
      /\ resident # NoResident => resident.model \in Models /\ resident.alias = None
  <2>1. /\ lastInstance = 1
        /\ \/ \E m \in Models :
                 /\ engine = [model |-> m, instance |-> 1, slots |-> capacity]
                 /\ resident = [model |-> m, instance |-> 1, alias |-> None]
           \/ engine = NoEngine /\ resident = NoResident
    BY DEF WatchedInit, Init
  <2>2. CASE engine = NoEngine /\ resident = NoResident
    BY <2>1, <2>2 DEF NoEngine, NoResident
  <2>3. ASSUME NEW m \in Models,
               engine = [model |-> m, instance |-> 1, slots |-> capacity],
               resident = [model |-> m, instance |-> 1, alias |-> None]
        PROVE  /\ engine.instance = 1 /\ resident.instance = 1
               /\ engine.slots = capacity /\ engine.model = resident.model
               /\ resident.model \in Models /\ resident.alias = None
    BY <2>3
  <2>4. QED
    BY <2>1, <2>2, <2>3
<1>3. /\ running = {} /\ pc = [r \in Requests |-> "idle"] /\ installed = Models
      /\ alias = [m \in Models |-> None]
      /\ \A l \in Loads : load[l] = Idle
      /\ \A u \in Unloads : unload[u] = Idle
      /\ \A x \in Removes : remove[x] = Idle
      /\ \A a \in Renames : rename[a] = Idle
  BY DEF WatchedInit, Init, Gate!GateInit
<1>4. Lock /\ Holders /\ LoadPauses /\ UnloadPauses /\ NoGenerationCut
  <2>1. Lock /\ Holders
    BY <1>3 DEF Lock, Holders, Idle
  <2>2. LoadPauses
    BY <1>3 DEF LoadPauses, Idle
  <2>3. UnloadPauses
    BY <1>3 DEF UnloadPauses, Idle
  <2>4. NoGenerationCut
    BY <1>3 DEF NoGenerationCut
  <2>5. QED
    BY <2>1, <2>2, <2>3, <2>4
<1>5. Numbered /\ Advertised
  BY <1>2, <1>3 DEF Numbered, Advertised, Fresh, Idle
<1>6. ~PausesOverlap /\ ~EditsOverlap
  BY <1>3 DEF PausesOverlap, EditsOverlap, Idle
<1>7. LoadsKnow /\ RecordKept /\ NameKept
  BY <1>2, <1>3 DEF LoadsKnow, RecordKept, NameKept, Idle
<1>8. QED
  BY <1>1, <1>4, <1>5, <1>6, <1>7 DEF IInv, Paused, Edited

\* A step that leaves everything alone keeps the invariant.
LEMMA Stuttering == IInv /\ UNCHANGED <<vars, overlaps>> => IInv'
<1> SUFFICES ASSUME IInv, UNCHANGED <<vars, overlaps>> PROVE IInv'
  OBVIOUS
<1> USE DEF vars, gate, requests, backend, catalog, operations
<1>1. Types'
  BY TypesStep DEF IInv
<1>2. Lock' /\ Numbered' /\ Holders'
  BY DEF IInv, Lock, Numbered, Fresh, Holders
<1>3. Paused => Paused'
  <2>1. PausesOverlap' <=> PausesOverlap
    BY DEF PausesOverlap
  <2>2. LoadPauses /\ UnloadPauses => LoadPauses' /\ UnloadPauses'
    BY DEF LoadPauses, UnloadPauses
  <2>3. Advertised /\ NoGenerationCut => Advertised' /\ NoGenerationCut'
    BY DEF Advertised, Fresh, NoGenerationCut
  <2>4. QED
    BY <2>1, <2>2, <2>3 DEF Paused
<1>4. Edited => Edited'
  <2>1. EditsOverlap' <=> EditsOverlap
    BY DEF EditsOverlap
  <2>2. LoadsKnow /\ RecordKept /\ NameKept => LoadsKnow' /\ RecordKept' /\ NameKept'
    BY DEF LoadsKnow, RecordKept, NameKept
  <2>3. QED
    BY <2>1, <2>2 DEF Edited
<1>5. QED
  BY <1>1, <1>2, <1>3, <1>4 DEF IInv

\* Every step keeps the invariant; what depends on nothing having overlapped is
\* kept by a step after which nothing has.
LEMMA Inductive == IInv /\ [WatchedNext]_<<vars, overlaps>> => IInv'
<1> SUFFICES ASSUME IInv, WatchedNext PROVE IInv'
  BY Stuttering
<1>1. Types /\ Lock /\ Numbered /\ Holders
  BY DEF IInv
<1>2. Types'
  BY <1>1, TypesStep
<1>3. Lock' /\ Numbered' /\ Holders'
  BY <1>1, <1>2, LockStep, NumberedStep, HoldersStep
<1>4. ASSUME "pauses" \notin overlaps' PROVE Paused'
  <2>1. Paused /\ ~PausesOverlap'
    BY <1>4 DEF IInv, WatchedNext, Overlapping
  <2>2. QED
    BY <1>1, <1>2, <2>1, LoadPausesStep, UnloadPausesStep, AdvertisedStep, NoCutStep
       DEF Paused
<1>5. ASSUME "edits" \notin overlaps' PROVE Edited'
  <2>1. Edited /\ ~EditsOverlap'
    BY <1>5 DEF IInv, WatchedNext, Overlapping
  <2>2. QED
    BY <1>1, <1>2, <2>1, LoadsKnowStep, RecordKeptStep, NameKeptStep DEF Edited
<1>6. QED
  BY <1>2, <1>3, <1>4, <1>5 DEF IInv

\* The invariant holds in every behaviour, overlapping or not.
THEOREM SwapInvariant == WatchedSpec => []IInv
<1>1. WatchedInit => IInv
  BY Initially
<1>2. IInv /\ [WatchedNext]_<<vars, overlaps>> => IInv'
  BY Inductive
<1>3. QED
  BY <1>1, <1>2, PTL DEF WatchedSpec

\* No load, release or request leaves its state space.
THEOREM TypeCorrect == WatchedSpec => []TypeOK
<1>1. IInv => TypeOK
  BY DEF IInv, Types
<1>2. QED
  BY <1>1, SwapInvariant, PTL

\* As long as no two operations that pause admission have overlapped, no swap
\* or release takes the engine from a generation: drain_admission returns only
\* when no slot is held, and nothing admits a request until resume.
THEOREM NoCutHolds == WatchedSpec => []NoCutWithoutOverlap
<1>1. IInv => NoCutWithoutOverlap
  BY DEF IInv, Paused, NoCutWithoutOverlap
<1>2. QED
  BY <1>1, SwapInvariant, PTL

\* The slot gate and the catalog tell the truth about the loaded engine: its
\* slot count always, its record and its name as long as no operations that
\* pause admission, or edits of the catalog, have overlapped.
THEOREM RecordsFollowEngineHolds == WatchedSpec => []RecordsFollowEngine
<1>1. IInv => RecordsFollowEngine
  <2> SUFFICES ASSUME IInv PROVE RecordsFollowEngine
    OBVIOUS
  <2>1. Types /\ Lock /\ Numbered
    BY DEF IInv
  <2>2. CapacityFollowsEngine
    BY <2>1 DEF Numbered, CapacityFollowsEngine
  <2>3. ASSUME "pauses" \notin overlaps PROVE LoadedEngineIsPublished
    <3>1. ASSUME operation = None PROVE \A l \in Loads : ~Fresh(l)
      BY <2>1, <3>1, LoadsAssumption DEF Lock, Fresh, Idle
    <3>2. QED
      BY <2>3, <3>1 DEF IInv, Paused, Advertised, LoadedEngineIsPublished
  <2>4. ASSUME overlaps = {} PROVE LoadedModelIsInCatalog
    <3>1. Advertised /\ LoadsKnow /\ RecordKept
      BY <2>4 DEF IInv, Paused, Edited
    <3>2. ASSUME engine # NoEngine, NEW l \in Loads, Fresh(l)
          PROVE  engine.model \in installed
      BY <2>1, <3>1, <3>2 DEF Numbered, LoadsKnow, Fresh
    <3>3. ASSUME engine # NoEngine, \A l \in Loads : ~Fresh(l)
          PROVE  engine.model \in installed
      BY <2>1, <3>1, <3>3, NumberFields DEF Numbered, Advertised, RecordKept
    <3>4. QED
      BY <3>2, <3>3 DEF LoadedModelIsInCatalog
  <2>5. ASSUME "edits" \notin overlaps PROVE AliasIsCurrent
    BY <2>5 DEF IInv, Edited, NameKept, AliasIsCurrent
  <2>6. QED
    BY <2>2, <2>3, <2>4, <2>5 DEF RecordsFollowEngine
<1>2. QED
  BY <1>1, SwapInvariant, PTL

\* A load that ends before its engine is stopped leaves everything as it was.
LEMMA FreeStep ==
    ASSUME Types, WatchedNext
    PROVE  \A k \in Loads : EndsFree(k)
<1> USE DEF gate, requests, backend, catalog, operations, vars
<1>1. ASSUME NEW l \in Loads, NEW m \in Models, LoadBegin(l, m)
      PROVE  \A k \in Loads : EndsFree(k)
  BY <1>1, LoadFields, ZenonT(30) DEF LoadBegin, Types, Idle, EndsFree
<1>2. ASSUME NEW l \in Loads, LoadPause(l)
      PROVE  \A k \in Loads : EndsFree(k)
  BY <1>2, LoadFields DEF LoadPause, Gate!Close, Types, Idle, EndsFree
<1>3. ASSUME NEW l \in Loads, LoadDrained(l)
      PROVE  \A k \in Loads : EndsFree(k)
  BY <1>3, LoadFields DEF LoadDrained, Types, Idle, EndsFree
<1>4. ASSUME NEW l \in Loads, LoadDrainTimeout(l)
      PROVE  \A k \in Loads : EndsFree(k)
  BY <1>4 DEF LoadDrainTimeout, LoadEnds, Gate!Reopen, Gate!Start, EndsFree
<1>5. ASSUME NEW l \in Loads, BackendRefuses(l)
      PROVE  \A k \in Loads : EndsFree(k)
  BY <1>5 DEF BackendRefuses, LoadEnds, Gate!Reopen, Gate!Start, EndsFree
<1>6. ASSUME NEW l \in Loads, BackendStops(l)
      PROVE  \A k \in Loads : EndsFree(k)
  BY <1>6, LoadFields DEF BackendStops, Types, Idle, EndsFree
<1>7. ASSUME NEW l \in Loads, BackendFails(l)
      PROVE  \A k \in Loads : EndsFree(k)
  BY <1>7, LoadFields, ZenonT(30)
     DEF BackendFails, LoadEnds, Gate!Reopen, Gate!Start, Types, Idle, EndsFree
<1>8. ASSUME NEW l \in Loads, NEW n \in 1..MaxCapacity, BackendStarts(l, n)
      PROVE  \A k \in Loads : EndsFree(k)
  BY <1>8, LoadFields DEF BackendStarts, Types, Idle, EndsFree
<1>9. ASSUME NEW l \in Loads, LoadResizes(l)
      PROVE  \A k \in Loads : EndsFree(k)
  BY <1>9, LoadFields DEF LoadResizes, Gate!SetCapacity, Types, Idle, EndsFree
<1>10. ASSUME NEW l \in Loads, LoadPublishes(l)
      PROVE  \A k \in Loads : EndsFree(k)
  BY <1>10, LoadFields DEF LoadPublishes, Types, Idle, EndsFree
<1>11. ASSUME NEW l \in Loads, LoadSucceeds(l)
      PROVE  \A k \in Loads : EndsFree(k)
  BY <1>11, LoadFields
     DEF LoadSucceeds, LoadEnds, Gate!Reopen, Gate!Start, Types, Idle, EndsFree
<1>12. ASSUME NEW l \in Loads, NEW m \in Models, InstallBegin(l, m)
      PROVE  \A k \in Loads : EndsFree(k)
  BY <1>12, LoadFields, ZenonT(30) DEF InstallBegin, Types, Idle, EndsFree
<1>13. ASSUME NEW l \in Loads, InstallEnds(l)
      PROVE  \A k \in Loads : EndsFree(k)
  BY <1>13, LoadFields, ZenonT(30) DEF InstallEnds, Types, Idle, EndsFree
<1>14. ASSUME UNCHANGED <<load>> PROVE \A k \in Loads : EndsFree(k)
  BY <1>14 DEF EndsFree
<1>15. ASSUME NEW r \in Requests,
             Refused(r) \/ Capture(r) \/ Count(r) \/ Admit(r) \/ Generate(r) \/
             Finish(r) \/ Leave(r)
      PROVE  UNCHANGED <<load>>
  BY <1>15, ZenonT(30)
     DEF Refused, Capture, Count, Reaches, Admit, Gate!Open, Gate!Start, Generate,
         Gate!Release, Finish, Leave
<1>16. ASSUME EngineDies \/ Health
      PROVE  UNCHANGED <<load>>
  BY <1>16 DEF EngineDies, Health
<1>17. ASSUME NEW u \in Unloads,
             UnloadBegin(u) \/ UnloadDrained(u) \/ UnloadGivesUp(u) \/
             UnloadStops(u) \/ UnloadAborts(u) \/ UnloadPublishes(u)
      PROVE  UNCHANGED <<load>>
  BY <1>17
     DEF UnloadBegin, Gate!Close, UnloadDrained, UnloadGivesUp, UnloadEnds,
         Gate!Reopen, Gate!Start, UnloadStops, UnloadAborts, UnloadPublishes
<1>18. ASSUME NEW x \in Removes,
             RemoveBegin(x)
      PROVE  UNCHANGED <<load>>
  BY <1>18 DEF RemoveBegin
<1>19. ASSUME NEW x \in Removes, NEW m \in Models,
             RemoveCommits(x, m)
      PROVE  UNCHANGED <<load>>
  BY <1>19, ZenonT(30) DEF RemoveCommits
<1>20. ASSUME NEW a \in Renames, NEW m \in Models, NEW name \in Names,
             RenameBegin(a, m, name)
      PROVE  UNCHANGED <<load>>
  BY <1>20 DEF RenameBegin
<1>21. ASSUME NEW a \in Renames,
             RenameAdopts(a)
      PROVE  UNCHANGED <<load>>
  BY <1>21 DEF RenameAdopts
<1>22. QED
  BY <1>1, <1>2, <1>3, <1>4, <1>5, <1>6, <1>7, <1>8, <1>9, <1>10, <1>11, <1>12,
     <1>13, <1>14, <1>15, <1>16, <1>17, <1>18, <1>19, <1>20, <1>21
     DEF WatchedNext, Next, RequestStep, LoadStep, UnloadStep, Names

\* A swap that ends before the engine is stopped costs nothing: the drain's
\* timeout and the backend's refusal come before anything is changed.
THEOREM RefusedSwapIsFreeHolds == WatchedSpec => RefusedSwapIsFree
<1>1. IInv /\ [WatchedNext]_<<vars, overlaps>> => [\A l \in Loads : EndsFree(l)]_vars
  <2> SUFFICES ASSUME IInv, WatchedNext PROVE \A l \in Loads : EndsFree(l)
    OBVIOUS
  <2>1. QED
    BY FreeStep DEF IInv
<1>2. RefusedSwapIsFree <=> [][\A l \in Loads : EndsFree(l)]_vars
  BY DEF RefusedSwapIsFree
<1>3. QED
  BY <1>1, <1>2, SwapInvariant, PTL DEF WatchedSpec

=============================================================================

------------------------------ MODULE BenchRun ------------------------------
(***************************************************************************)
(* The gateway's benchmark job (control.rs run_benchmark, benchmark.rs run *)
(* and the runner it drives) beside everything that moves while it runs: a *)
(* model swap or unload, an engine that dies, other requests; and `hermes  *)
(* bench --fit` adding its fits to the calibration file.                   *)
(*                                                                         *)
(* The job remembers the model that was resident when it was asked for.    *)
(* Generating and counting name that engine instance and fail without it;  *)
(* reading the engine's memory names none.                                 *)
(***************************************************************************)
EXTENDS Naturals, Sequences, FiniteSets, SequencesExt

CONSTANTS Benches, Sweeps, Capacities, Samples, MaxInstances, MaxOthers

VARIABLES
  benches,     \* the benchmark jobs
  engine,      \* the engine instance that runs: <<>> or <<i>>
  resident,    \* the catalog's resident model, by instance
  instances,   \* instances started so far
  slots,       \* the scheduler's capacity
  holders,     \* who holds a slot
  paused,      \* a swap or an unload holds the scheduler
  managing,    \* how far a load and an unload have come, and the unload's instance
  overlapped,  \* history: a load and an unload were under way together
  others,      \* other requests served so far
  saved,       \* the runs saved
  sweeps,      \* the `hermes bench --fit` processes
  calibration  \* the runs whose fits the calibration file holds

bvars == <<benches, engine, resident, instances, slots, holders, paused, managing, overlapped, others,
           saved, sweeps, calibration>>

Idle == [pc |-> "idle", instance |-> 0, samples |-> <<>>, before |-> <<>>]

BenchInit ==
  /\ benches = [j \in Benches |-> Idle]
  /\ engine = <<1>> /\ resident = <<1>> /\ instances = 1
  /\ slots \in Capacities
  /\ holders = {} /\ paused = FALSE /\ managing = [load |-> "free", unload |-> "free", asked |-> 0]
  /\ overlapped = FALSE /\ others = 0
  /\ saved = {} /\ calibration = {}
  /\ sweeps = [s \in Sweeps |-> [pc |-> "measuring", read |-> {}]]

-----------------------------------------------------------------------------
(* POST /api/v1/benchmarks. *)
RunBenchmark(j) ==
  /\ benches[j].pc = "idle" /\ resident # <<>>
  /\ benches' = [benches EXCEPT ![j].pc = "queued", ![j].instance = resident[1]]
  /\ UNCHANGED <<engine, resident, instances, slots, holders, paused, managing, overlapped, others, saved,
                 sweeps, calibration>>

AcquireSlot(j) ==
  /\ benches[j].pc = "queued"
  /\ ~paused /\ Cardinality(holders) < slots
  /\ benches' = [benches EXCEPT ![j].pc = "sizing"]
  /\ holders' = holders \cup {j}
  /\ UNCHANGED <<engine, resident, instances, slots, paused, managing, overlapped, others, saved, sweeps,
                 calibration>>

(* As: a queue that timed out is not noticed, and the run goes on slotless.  *)
RunWithoutSlot(j) ==
  /\ benches[j].pc = "queued"
  /\ benches' = [benches EXCEPT ![j].pc = "sizing"]
  /\ UNCHANGED <<engine, resident, instances, slots, holders, paused, managing, overlapped, others, saved,
                 sweeps, calibration>>
QueueTimesOut(j) ==
  /\ benches[j].pc = "queued"
  /\ benches' = [benches EXCEPT ![j].pc = "failed"]
  /\ UNCHANGED <<engine, resident, instances, slots, holders, paused, managing, overlapped, others, saved,
                 sweeps, calibration>>

(* A step of the runner; whatever ends the run drops the permit. *)
Proceeds(j, job) ==
  /\ benches' = [benches EXCEPT ![j] = job]
  /\ holders' = IF job.pc \in {"failed", "done"} THEN holders \ {j} ELSE holders
  /\ UNCHANGED <<engine, resident, instances, slots, paused, managing, overlapped, others, sweeps,
                 calibration>>

(* client_for: the instance the job was given, or an error. *)
ClientFor(j) == engine = <<benches[j].instance>>
Usage == engine

SizePrompt(j) ==
  /\ benches[j].pc = "sizing" /\ UNCHANGED saved
  /\ Proceeds(j, [benches[j] EXCEPT !.pc = IF ClientFor(j) THEN "before" ELSE "failed"])

ReadBefore(j) ==
  /\ benches[j].pc = "before" /\ UNCHANGED saved
  /\ Proceeds(j, [benches[j] EXCEPT !.pc = "generate", !.before = Usage])

Generate(j) ==
  /\ benches[j].pc = "generate" /\ UNCHANGED saved
  /\ Proceeds(j, [benches[j] EXCEPT !.pc = IF ClientFor(j) THEN "streaming" ELSE "failed"])

(* The stream ends, or breaks because its engine is gone. *)
StreamEnds(j) ==
  /\ benches[j].pc = "streaming" /\ UNCHANGED saved
  /\ Proceeds(j, [benches[j] EXCEPT !.pc = IF ClientFor(j) THEN "after" ELSE "failed"])

ReadAfter(j) ==
  LET samples == Append(benches[j].samples, <<benches[j].before, Usage>>)
  IN /\ benches[j].pc = "after" /\ UNCHANGED saved
     /\ Proceeds(j, [benches[j] EXCEPT !.samples = samples,
                                       !.pc = IF Len(samples) = Samples THEN "save"
                                              ELSE "before"])

(* store.save, which may fail. *)
SaveRun(j) ==
  /\ benches[j].pc = "save"
  /\ \E ok \in BOOLEAN :
       /\ saved' = IF ok THEN saved \cup {[by |-> j, instance |-> benches[j].instance,
                                           samples |-> benches[j].samples]}
                   ELSE saved
       /\ Proceeds(j, [benches[j] EXCEPT !.pc = IF ok THEN "done" ELSE "failed"])

-----------------------------------------------------------------------------
(* The rest of the gateway. *)
Managed(kind, pc) ==
  /\ managing' = [managing EXCEPT ![kind] = pc,
                                  !.asked = CASE kind = "load" -> @
                                              [] pc = "free" -> 0
                                              [] pc = "drained" -> @
                                              [] OTHER -> resident[1]]
  /\ overlapped' = (overlapped \/ \A k \in {"load", "unload"} : managing'[k] # "free")
  /\ UNCHANGED <<benches, holders, others, saved, sweeps, calibration>>

(* load_model holds the manager's operation lock; unload_model takes none.   *)
BeginOperation(kind) ==
  /\ managing[kind] = "free"
  /\ kind = "load" => instances < MaxInstances
  /\ kind = "unload" => resident # <<>>
  /\ Managed(kind, "draining") /\ paused' = TRUE
  /\ UNCHANGED <<engine, resident, instances, slots>>

Drained(kind) ==
  /\ managing[kind] = "draining" /\ holders = {}
  /\ Managed(kind, "drained")
  /\ UNCHANGED <<engine, resident, instances, slots, paused>>

(* Whoever ends first lifts the pause, for the other as well. *)
DrainTimesOut(kind) ==
  /\ managing[kind] = "draining" /\ holders # {}
  /\ Managed(kind, "free") /\ paused' = FALSE
  /\ UNCHANGED <<engine, resident, instances, slots>>

(* The old engine is stopped, and a new one started or not. *)
Replace ==
  /\ managing.load = "drained"
  /\ Managed("load", "free") /\ paused' = FALSE
  /\ \/ /\ instances' = instances + 1
        /\ engine' = <<instances + 1>> /\ resident' = <<instances + 1>>
        /\ slots' \in Capacities
     \/ engine' = <<>> /\ UNCHANGED <<instances, resident, slots>>

(* backend.unload ends the instance that was resident when it was asked for, *)
(* and no other; afterwards the catalog has no resident model.               *)
Unload ==
  /\ managing.unload = "drained"
  /\ Managed("unload", "free") /\ paused' = FALSE
  /\ engine' = IF engine = <<managing.asked>> THEN <<>> ELSE engine
  /\ resident' = <<>>
  /\ UNCHANGED <<instances, slots>>

EngineDies ==
  /\ engine # <<>> /\ engine' = <<>>
  /\ UNCHANGED <<benches, resident, instances, slots, holders, paused, managing, overlapped, others, saved,
                 sweeps, calibration>>

OtherStarts ==
  /\ others < MaxOthers /\ "other" \notin holders
  /\ ~paused /\ Cardinality(holders) < slots
  /\ holders' = holders \cup {"other"} /\ others' = others + 1
  /\ UNCHANGED <<benches, engine, resident, instances, slots, paused, managing, overlapped, saved, sweeps,
                 calibration>>

OtherEnds ==
  /\ "other" \in holders /\ holders' = holders \ {"other"}
  /\ UNCHANGED <<benches, engine, resident, instances, slots, paused, managing, overlapped, others, saved,
                 sweeps, calibration>>

-----------------------------------------------------------------------------
(* `hermes bench --fit`: the run is saved, then its fits are added to a      *)
(* calibration file that was read for the purpose.                           *)
Sweeping(s, pc, read) ==
  /\ sweeps' = [sweeps EXCEPT ![s] = [pc |-> pc, read |-> read]]
  /\ UNCHANGED <<benches, engine, resident, instances, slots, holders, paused, managing, overlapped, others>>

SweepSaves(s) ==
  /\ sweeps[s].pc = "measuring"
  /\ \/ /\ saved' = saved \cup {[by |-> s, instance |-> 0, samples |-> <<>>]}
        /\ Sweeping(s, "saved", {})
     \/ Sweeping(s, "failed", {}) /\ UNCHANGED saved
  /\ UNCHANGED calibration

ReadCalibration(s) ==
  /\ sweeps[s].pc = "saved"
  /\ Sweeping(s, "read", calibration) \/ Sweeping(s, "failed", {})
  /\ UNCHANGED <<saved, calibration>>

WriteCalibration(s) ==
  /\ sweeps[s].pc = "read"
  /\ \/ calibration' = sweeps[s].read \cup {s} /\ Sweeping(s, "done", {})
     \/ Sweeping(s, "failed", {}) /\ UNCHANGED calibration
  /\ UNCHANGED saved

-----------------------------------------------------------------------------
BenchNext ==
  \/ \E j \in Benches : \/ RunBenchmark(j) \/ AcquireSlot(j) \/ QueueTimesOut(j) \/ SizePrompt(j)
                        \/ ReadBefore(j) \/ Generate(j) \/ StreamEnds(j) \/ ReadAfter(j)
                        \/ SaveRun(j)
  \/ \E kind \in {"load", "unload"} : BeginOperation(kind) \/ Drained(kind) \/ DrainTimesOut(kind)
  \/ Replace \/ Unload \/ EngineDies \/ OtherStarts \/ OtherEnds
  \/ \E s \in Sweeps : SweepSaves(s) \/ ReadCalibration(s) \/ WriteCalibration(s)

BenchSpec == BenchInit /\ [][BenchNext]_bvars

-----------------------------------------------------------------------------
(* A saved run is about one engine: every reading in it is of the instance   *)
(* whose model the run names (or could not be taken), though nothing in a    *)
(* reading says whose it is: as long as no unload overlaps a load.  A fit    *)
(* in the calibration file has its run on disk.  (benchmark.rs run: the      *)
(* permit; runner.rs one_with; cli/bench.rs.)                                *)
SavedIsOneEngine ==
  /\ ~overlapped => \A run \in saved : \A i \in DOMAIN run.samples :
       run.samples[i][1] \in {<<>>, <<run.instance>>}
         /\ run.samples[i][2] \in {<<>>, <<run.instance>>}
  /\ \A s \in calibration : \E run \in saved : run.by = s

(* What benchmark.rs says of the slot it holds: a benchmark and a user's     *)
(* generation never interleave on one engine.                                *)
NeverInterleaved ==
  "other" \in holders => \A j \in Benches : benches[j].pc # "streaming"
=============================================================================

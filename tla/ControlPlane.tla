----------------------------- MODULE ControlPlane -----------------------------
(***************************************************************************)
(* The gateway's HTTP surface as one function of a request and of the      *)
(* state it meets (crates/lightweight-gateway: lib.rs, auth.rs, routes.rs, *)
(* control.rs, store_api.rs, system.rs, web.rs, request_id.rs and          *)
(* PeerKey of scheduler.rs): the middleware in its order, the router's     *)
(* table, and every handler up to the effect it starts.  What an effect    *)
(* does once started is modelled elsewhere (Jobs, ModelSwap, Catalog,      *)
(* Store, RequestStream).                                                  *)
(*                                                                         *)
(* A request q has the endpoint it matches, the address it came from       *)
(* (socket: "none" when the transport gives none), the cf-connecting-ip    *)
(* it carries, its origin compared with its host, its key, whether it      *)
(* carries the panel's internal header, and its body by what a parser      *)
(* finds in it.  The world w is what the gateway was started with and      *)
(* holds now.                                                              *)
(*                                                                         *)
(* The errors of the workspace come before it: the contract of             *)
(* crates/lightweight-core/src/error.rs (Actionable) and its fourteen      *)
(* implementations.  An error is [type, variant]; its message is left out, *)
(* its code, its class and the actions its remedies offer are kept.  The   *)
(* envelope is the one every HTTP answer is built from                     *)
(* (crates/lightweight-api/src/error.rs).                                  *)
(*                                                                         *)
(* The first part is what the gateway reads of its machine and of its own  *)
(* log, and how it reports it (crates/lightweight-system-info; system.rs,  *)
(* logs.rs and the gateway report of control.rs).  A file under /proc is   *)
(* the sequence of its lines, each abstracted to what the parser looks     *)
(* for.  An option is <<>> or <<x>>; a fallible reading is                 *)
(* [ok, reading, code].                                                    *)
(***************************************************************************)
EXTENDS Integers, Sequences, FiniteSets, SequencesExt

CONSTANT MaxU64   \* where u64 saturates

\* What a probe of this machine says when it fails.
MemoryError == [Read |-> "memory_probe_failed", MissingField |-> "memory_probe_incomplete",
                UnsupportedPlatform |-> "memory_probe_unsupported"]
DiskError == [Query |-> "disk_probe_failed", UnsupportedPlatform |-> "disk_probe_unsupported"]
NetworkError == [Read |-> "address_probe_failed", UnsupportedPlatform |-> "address_probe_unsupported"]
PathsError == [NoHomeDirectory |-> "no_home_directory", Create |-> "data_directory_not_writable"]
LoadError == [Read |-> "cpu_times_probe_failed", NoAggregateLine |-> "cpu_times_probe_incomplete",
              UnsupportedPlatform |-> "cpu_times_probe_unsupported"]

Saturated(n) == IF n > MaxU64 THEN MaxU64 ELSE n
Below(a, b) == IF a > b THEN a - b ELSE 0          \* saturating_sub
OrElse(option, default) == IF option = <<>> THEN default ELSE option[1]
Larger(a, b) == IF a >= b THEN a ELSE b

-----------------------------------------------------------------------------
(* cpu.rs *)
IsaFeature == {"sse4_2", "avx", "avx2", "fma", "f16c", "avx512f", "avx512bw", "avx512_vnni", "avx_vnni"}
ArmFeature == {"asimd", "asimddp", "sve"}
DetectFeatures(flags) == flags \cap IsaFeature
DetectArmFeatures(flags) == {"asimd"} \cup (flags \cap {"asimddp", "sve"})
\* /proc/cpuinfo: a core is a (physical id, core id) pair; a blank line ends a block.
CpuinfoLine(state, line) ==
    LET flushed == IF state.physical # <<>> /\ state.core # <<>>
                   THEN state.cores \cup {<<state.physical[1], state.core[1]>>} ELSE state.cores
    IN  CASE line.key = "blank" ->
               [state EXCEPT !.cores = flushed, !.physical = <<>>, !.core = <<>>]
          [] line.key = "model name" -> [state EXCEPT !.model = IF @ = <<>> THEN <<line.value>> ELSE @]
          [] line.key = "physical id" -> [state EXCEPT !.physical = <<line.value>>]
          [] line.key = "core id" -> [state EXCEPT !.core = <<line.value>>]
          [] OTHER -> state
NoTopology == [model |-> <<>>, physical |-> <<>>, performance |-> <<>>]
Topology(cpuinfo) ==
    LET start == [model |-> <<>>, cores |-> {}, physical |-> <<>>, core |-> <<>>]
        read  == CpuinfoLine(FoldLeft(CpuinfoLine, start, OrElse(cpuinfo, <<>>)), [key |-> "blank"])
        n     == Cardinality(read.cores)
    IN  IF cpuinfo = <<>> THEN NoTopology
        ELSE [model |-> read.model, physical |-> IF n = 0 THEN <<>> ELSE <<n>>, performance |-> <<>>]
\* The platforms whose topology comes from the system itself.
SysTopology(raw) == raw
CpuDetect(parallelism, topology, features) ==
    LET logical == OrElse(parallelism, 1)
    IN  [physical |-> Larger(OrElse(topology.physical, logical), 1), logical |-> Larger(logical, 1),
         performance |-> IF topology.performance = <<0>> THEN <<>> ELSE topology.performance,
         features |-> features]
DefaultThreads(cpu) ==
    Larger(OrElse(IF cpu.performance = <<0>> THEN <<>> ELSE cpu.performance, cpu.physical), 1)
ThreadChoices(cpu) ==
    {n \in {1, 2, 4, 6, 8, 12, 16, 24, 32} : n <= cpu.logical} \cup {DefaultThreads(cpu), cpu.logical}
HasAvxFamily(cpu) == cpu.features \cap {"avx", "avx2", "avx512f"} # {}
ExpectedGgmlVariant(arch, cpu) ==
    IF arch = "aarch64"
    THEN CASE "sve" \in cpu.features -> "armv8.2_3" [] "asimddp" \in cpu.features -> "armv8.2_1"
           [] OTHER -> "armv8.0_1"
    ELSE CASE "avx512f" \in cpu.features -> "skylakex"
           [] {"avx2", "fma"} \subseteq cpu.features -> "haswell"
           [] "avx" \in cpu.features -> "sandybridge"
           [] "sse4_2" \in cpu.features -> "sse42"
           [] OTHER -> "x64"
\* What each build of the engine needs of the processor.
VariantNeeds(variant) ==
    CASE variant = "skylakex" -> {"avx512f"} [] variant = "haswell" -> {"avx2", "fma"}
      [] variant = "sandybridge" -> {"avx"} [] variant = "sse42" -> {"sse4_2"}
      [] variant = "armv8.2_3" -> {"sve"} [] variant = "armv8.2_1" -> {"asimddp"}
      [] OTHER -> {}
CpuReport(arch, cpu) ==
    [default_threads |-> DefaultThreads(cpu), thread_choices |-> ThreadChoices(cpu),
     expected_ggml_variant |-> ExpectedGgmlVariant(arch, cpu), has_avx_family |-> HasAvxFamily(cpu)]

-----------------------------------------------------------------------------
(* network.rs: a v4 address is its first two octets, a v6 one its first    *)
(* segment and whether the rest is 0, 1 or more.                           *)
V4(a, b) == [v |-> 4, a |-> a, b |-> b]
V6(head, rest) == [v |-> 6, a |-> head, b |-> rest]
IsLoopback(ip) == IF ip.v = 4 THEN ip.a = 127 ELSE ip.a = 0 /\ ip.b = 1
IsUnspecified(ip) == ip.a = 0 /\ ip.b = 0
IsMulticast(ip) == IF ip.v = 4 THEN ip.a \in 224..239 ELSE ip.a \div 256 = 255
IsLinkLocal(ip) == IF ip.v = 4 THEN ip.a = 169 /\ ip.b = 254 ELSE ip.a \div 64 = 1018
IsPrivate(ip) == ip.a = 10 \/ (ip.a = 172 /\ ip.b \in 16..31) \/ (ip.a = 192 /\ ip.b = 168)
IsBroadcast(ip) == ip.a = 255 /\ ip.b = 255
AddressScope(ip) ==
    CASE IsLoopback(ip) -> "Loopback"
      [] ~IsLoopback(ip) /\ IsLinkLocal(ip) -> "LinkLocal"
      [] OTHER -> IF ip.v = 4
                  THEN CASE ip.a = 100 /\ ip.b \div 64 = 1 -> "SharedRange"
                         [] IsPrivate(ip) -> "Private" [] OTHER -> "GlobalUnicast"
                  ELSE IF ip.a \div 512 = 126 THEN "UniqueLocal" ELSE "GlobalUnicast"
IsReachableFromElsewhere(ip) ==
    /\ ~IsLoopback(ip) /\ ~IsUnspecified(ip) /\ ~IsMulticast(ip)
    /\ ~IsLinkLocal(ip) /\ (ip.v = 4 => ~IsBroadcast(ip))
\* A fib_trie line is a table header, an address, a "host LOCAL" mark or another.
FibLine(state, line) ==
    CASE line.is = "local table" -> [state EXCEPT !.inside = TRUE, !.previous = <<>>]
      [] line.is = "other table" -> [state EXCEPT !.inside = FALSE]
      [] ~state.inside /\ line.is \notin {"local table", "other table"} -> state
      [] state.inside /\ line.is = "host LOCAL" ->
           [state EXCEPT !.found = @ \o state.previous, !.previous = <<>>]
      [] state.inside /\ line.is = "address" -> [state EXCEPT !.previous = <<line.ip>>]
      [] OTHER -> [state EXCEPT !.previous = <<>>]
ParseFibTrie(lines) ==
    FoldLeft(FibLine, [inside |-> FALSE, previous |-> <<>>, found |-> <<>>], lines).found
ParseIfInet6(lines) ==
    FlattenSeq([k \in DOMAIN lines |-> IF lines[k].is = "address" THEN <<lines[k].ip>> ELSE <<>>])
Read(reading) == [ok |-> TRUE, reading |-> reading, code |-> ""]
Failed(code) == [ok |-> FALSE, reading |-> <<>>, code |-> code]
PlatformAddresses(v4, v6) ==
    IF v4 = <<>> /\ v6 = <<>> THEN Failed(NetworkError.Read)
    ELSE Read(ParseFibTrie(OrElse(v4, <<>>)) \o ParseIfInet6(OrElse(v6, <<>>)))
AddressBefore(x, y) ==
    \/ x.v < y.v
    \/ x.v = y.v /\ (x.a < y.a \/ (x.a = y.a /\ x.b < y.b))
ReachableAddresses(v4, v6) ==
    LET read == PlatformAddresses(v4, v6)
    IN  IF ~read.ok THEN read
        ELSE Read(SetToSortSeq({ip \in ToSet(read.reading) : IsReachableFromElsewhere(ip)},
                               AddressBefore))
ClassifiedAddresses(v4, v6) ==
    LET read == ReachableAddresses(v4, v6)
    IN  IF ~read.ok THEN read
        ELSE Read([k \in DOMAIN read.reading |->
                     [address |-> read.reading[k], scope |-> AddressScope(read.reading[k])]])
NetworkReport(v4, v6) ==
    LET read == ClassifiedAddresses(v4, v6)
    IN  [addresses |-> IF read.ok THEN read.reading ELSE <<>>, error |-> ~read.ok]

-----------------------------------------------------------------------------
(* disk.rs, load.rs, memory.rs *)
SpaceFor(stats) ==
    CASE stats = <<>> -> Failed(DiskError.Query)
      [] OTHER ->
           LET s == stats[1]
               unit == IF s.frsize = 0 THEN s.bsize ELSE s.frsize
           IN  IF s.frsize = 0 /\ s.bsize = 0 THEN Failed(DiskError.Query)
               ELSE Read([total |-> Saturated(s.blocks * unit), available |-> Saturated(s.bavail * unit),
                          free |-> Saturated(s.bfree * unit)])
DiskUsed(space) == Below(space.total, space.free)
Fits(space, wanted) == space.available >= wanted
ACCOUNTED_FIELDS == 8
SumOf(fields) == FoldLeft(LAMBDA acc, n : Saturated(acc + n), 0, fields)
\* The aggregate cpu line; a field that does not parse ends it (map_while).
ParseStat(fields) ==
    IF fields = <<>> \/ Len(fields[1]) < ACCOUNTED_FIELDS THEN Failed(LoadError.NoAggregateLine)
    ELSE LET counted == SubSeq(fields[1], 1, ACCOUNTED_FIELDS)
         IN  Read([total |-> SumOf(counted), idle |-> Saturated(counted[4] + counted[5])])
CpuTimes(stat) == IF ~stat.readable THEN Failed(LoadError.Read) ELSE ParseStat(stat.fields)
Busy(times) == Below(times.total, times.idle)
\* checked_sub twice, then a quotient clamped into [0, 1]: here <<busy, elapsed>>.
UtilizationSince(later, earlier) ==
    IF later.total < earlier.total \/ Busy(later) < Busy(earlier) \/ later.total = earlier.total
    THEN <<>>
    ELSE LET elapsed == later.total - earlier.total
             busy == Busy(later) - Busy(earlier)
         IN  <<IF busy > elapsed THEN <<1, 1>> ELSE <<busy, elapsed>> >>
\* A meminfo is a function from its field names to KiB.
MeminfoField(meminfo, name) == IF name \in DOMAIN meminfo THEN <<Saturated(meminfo[name] * 1024)>> ELSE <<>>
ParseMeminfo(meminfo) ==
    LET total == MeminfoField(meminfo, "MemTotal")
        free == MeminfoField(meminfo, "MemFree")
        available == IF MeminfoField(meminfo, "MemAvailable") # <<>>
                     THEN MeminfoField(meminfo, "MemAvailable") ELSE free
    IN  IF total = <<>> \/ available = <<>> \/ free = <<>> THEN Failed(MemoryError.MissingField)
        ELSE Read([total |-> total[1], available |-> available[1], free |-> free[1],
                   swap_total |-> OrElse(MeminfoField(meminfo, "SwapTotal"), 0),
                   swap_free |-> OrElse(MeminfoField(meminfo, "SwapFree"), 0)])
MemorySnapshot(meminfo) == IF meminfo = <<>> THEN Failed(MemoryError.Read) ELSE ParseMeminfo(meminfo[1])
MemoryUsed(snapshot) == Below(snapshot.total, snapshot.available)
SwapUsed(snapshot) == Below(snapshot.swap_total, snapshot.swap_free)

-----------------------------------------------------------------------------
(* paths.rs: a path is a sequence of components. *)
RootedAt(root) == [data |-> Append(root, "data"), config |-> Append(root, "config"),
                   cache |-> Append(root, "cache")]
Discover(home, user) ==
    CASE home # <<>> -> Read(RootedAt(home[1]))
      [] user # <<>> -> Read(user[1])
      [] OTHER -> Failed(PathsError.NoHomeDirectory)
ModelsDir(p) == Append(p.data, "models")
DownloadsDir(p) == Append(p.cache, "downloads")
RuntimeDir(p) == Append(p.cache, "runtime")
ConfigFiles(p) == {Append(p.config, f) : f \in {"settings.json", "api.json", "api-keys.json"}}
DataFiles(p) == {Append(p.data, f) : f \in {"catalog.json", "calibration.json"}}
AllDirs(p) ==
    <<p.data, p.config, p.cache, ModelsDir(p)>>
      \o [k \in 1..3 |-> Append(p.data, <<"conversations", "benchmarks", "logs">>[k])]
      \o <<RuntimeDir(p), DownloadsDir(p)>>
\* Every directory in order; the first that cannot be made ends it.
CreateAll(p, refused) ==
    LET bad == {k \in DOMAIN AllDirs(p) : AllDirs(p)[k] \in refused}
    IN  IF bad = {} THEN [ok |-> TRUE, made |-> ToSet(AllDirs(p))]
        ELSE LET k == CHOOSE k \in bad : \A j \in bad : k <= j
             IN  [ok |-> FALSE, made |-> {AllDirs(p)[j] : j \in 1..(k - 1)}]

-----------------------------------------------------------------------------
(* system.rs *)
Probed(result) == IF result.ok THEN [state |-> "read", code |-> ""]
                  ELSE [state |-> "unavailable", code |-> result.code]
FilesystemReport(stats) ==
    LET read == SpaceFor(stats)
    IN  [probe |-> Probed(read), used |-> IF read.ok THEN <<DiskUsed(read.reading)>> ELSE <<>>]
MemoryReport(snapshot) ==
    [probe |-> Probed(snapshot), used |-> IF snapshot.ok THEN <<MemoryUsed(snapshot.reading)>> ELSE <<>>,
     swap_used |-> IF snapshot.ok THEN <<SwapUsed(snapshot.reading)>> ELSE <<>>]
SameFilesystem(left, right) == IF left = <<>> \/ right = <<>> THEN <<>> ELSE <<left = right>>
DiskReport(paths, m) ==
    IF ~paths THEN [probe |-> [state |-> "unavailable", code |-> "no_data_directory"],
                    downloads |-> <<>>, models |-> <<>>, same |-> <<>>]
    ELSE [probe |-> [state |-> "read", code |-> ""], downloads |-> <<FilesystemReport(m.downloads)>>,
          models |-> <<FilesystemReport(m.models)>>, same |-> SameFilesystem(m.devices[1], m.devices[2])]
SystemReport(paths, m) ==
    [cpu_times |-> Probed(CpuTimes(m.stat)), memory |-> MemoryReport(MemorySnapshot(m.meminfo)),
     disk |-> DiskReport(paths, m), network |-> NetworkReport(m.v4, m.v6)]

(* control.rs: the calibration part of the gateway report. *)
CalibrationReport(paths, file, machine, engine) ==
    CASE ~paths \/ file.state = "missing" -> [state |-> "absent", fits |-> 0, here |-> 0]
      [] file.state = "unreadable" -> [state |-> "unreadable", fits |-> 0, here |-> 0]
      [] OTHER -> [state |-> "present", fits |-> Len(file.fits),
                   here |-> Cardinality({k \in DOMAIN file.fits :
                                           file.fits[k] = <<machine, engine>>})]

-----------------------------------------------------------------------------
(* logs.rs *)
Level == <<"trace", "debug", "info", "warn", "error">>
LevelParse(word) ==
    LET w == IF word = "warning" THEN "warn" ELSE word
    IN  IF w \in ToSet(Level) THEN <<CHOOSE k \in DOMAIN Level : Level[k] = w>> ELSE <<>>
LogLimit(asked) == LET n == OrElse(asked, 200) IN IF n < 1 THEN 1 ELSE IF n > 2000 THEN 2000 ELSE n
Filter(query) == [minimum |-> IF query.level = <<>> THEN <<>> ELSE LevelParse(query.level[1]),
                  target |-> query.target, search |-> query.search, limit |-> LogLimit(query.limit)]
Admits(filter, record) ==
    /\ filter.minimum # <<>> =>
          LevelParse(record.level) # <<>> /\ LevelParse(record.level)[1] >= filter.minimum[1]
    /\ filter.target # <<>> => filter.target[1] = record.target
    /\ filter.search # <<>> => filter.search[1] = record.message
\* A line without a timestamp and a level is not a record; the rest defaults to empty.
ParseRecord(line) == IF line.json /\ line.level # "" THEN <<line>> ELSE <<>>
FILES_READ == 2
RecentFiles(directory) ==
    LET named == SelectSeq(directory, LAMBDA f : f.stem)
        sorted == SetToSortSeq(ToSet(named), LAMBDA x, y : x.name < y.name)
    IN  SubSeq(sorted, Larger(1, Len(sorted) - FILES_READ + 1), Len(sorted))
RecordsOf(file) == IF file.readable THEN FlattenSeq([k \in DOMAIN file.lines |-> ParseRecord(file.lines[k])])
                   ELSE <<>>
Keep(filter, state, record) ==
    IF ~Admits(filter, record) THEN state
    ELSE LET full == Len(state.kept) = filter.limit
         IN  [kept |-> Append(IF full THEN Tail(state.kept) ELSE state.kept, record),
              truncated |-> state.truncated \/ full]
ReadLogs(directory, filter) ==
    LET files == RecentFiles(directory)
        read == FoldLeft(LAMBDA state, record : Keep(filter, state, record),
                         [kept |-> <<>>, truncated |-> FALSE],
                         FlattenSeq([k \in DOMAIN files |-> RecordsOf(files[k])]))
    IN  [data |-> Reverse(read.kept), truncated |-> read.truncated, files |-> Len(files)]

-----------------------------------------------------------------------------
(***************************************************************************)
(* The default thread count is one of the choices offered, every choice    *)
(* runs on this machine, and the engine build expected of a processor uses *)
(* no instruction the processor lacks; given that the process may run on   *)
(* as many processors as the machine has cores.                            *)
(***************************************************************************)
ThreadsAreOffered(arch, cpu) ==
    /\ DefaultThreads(cpu) \in ThreadChoices(cpu)
    /\ cpu.physical <= cpu.logical /\ (cpu.performance # <<>> => cpu.performance[1] <= cpu.physical)
          => \A n \in ThreadChoices(cpu) : n \in 1..cpu.logical
    /\ VariantNeeds(ExpectedGgmlVariant(arch, cpu)) \subseteq cpu.features

(***************************************************************************)
(* Every address offered to the operator can be reached from another       *)
(* machine, once, v4 before v6; an address table is missing only when both *)
(* sources are unreadable, and then the report says so.                    *)
(***************************************************************************)
AddressesAreReachable(v4, v6) ==
    \A report \in {NetworkReport(v4, v6)} :
        LET list == report.addresses IN
        /\ report.error <=> v4 = <<>> /\ v6 = <<>>
        /\ \A k \in DOMAIN list : list[k].scope \in {"Private", "SharedRange", "UniqueLocal", "GlobalUnicast"}
        /\ \A j, k \in DOMAIN list : j < k => AddressBefore(list[j].address, list[k].address)

(***************************************************************************)
(* A reading that could not be taken is reported as unavailable with its   *)
(* reason and never as a number; a reading that was taken is within what   *)
(* the machine has, whatever the counters hold or wherever they saturate;  *)
(* and what one part of the report lacks hides no other part.              *)
(***************************************************************************)
ReadingsAreHonest(paths, m) ==
    \A r \in {SystemReport(paths, m)} :
        /\ (r.memory.probe.state = "read") <=> (r.memory.used # <<>>)
        /\ r.memory.used # <<>> =>
              r.memory.used[1] <= MemorySnapshot(m.meminfo).reading.total
        /\ r.memory.probe.state = "unavailable" => r.memory.probe.code # ""
        /\ (r.disk.probe.state = "read") <=> paths
        /\ paths /\ r.disk.models[1].used # <<>> =>
              r.disk.models[1].used[1] <= SpaceFor(m.models).reading.total
        /\ r.cpu_times.state = "unavailable" => r.cpu_times.code # ""
        /\ LET c == CalibrationReport(paths, m.calibration, "here", "b1")
           IN  /\ c.here <= c.fits
               /\ c.state = "present" <=> paths /\ m.calibration.state = "file"
\* A load figure lies in [0, 1], and counters that went backwards give none.
LoadIsAShare(later, earlier) ==
    LET u == UtilizationSince(later, earlier)
    IN  u # <<>> => u[1][1] \in 0..u[1][2] /\ u[1][2] > 0 /\ later.total > earlier.total

(***************************************************************************)
(* The log view holds the newest matching records, newest first and no     *)
(* more than the limit, and says it was cut exactly when an older one      *)
(* matched too: a file that cannot be read or a line that is no record     *)
(* hides nothing else.                                                     *)
(***************************************************************************)
LogsAreTheNewest(directory, query) ==
    LET filter == Filter(query)
        answer == ReadLogs(directory, filter)
        files == RecentFiles(directory)
        all == FlattenSeq([k \in DOMAIN files |-> RecordsOf(files[k])])
        matching == SelectSeq(all, LAMBDA record : Admits(filter, record))
        n == Len(matching)
    IN  /\ answer.data = [k \in 1..(IF n < filter.limit THEN n ELSE filter.limit) |-> matching[n + 1 - k]]
        /\ answer.truncated <=> n > filter.limit
        /\ Len(answer.data) <= filter.limit
        /\ \A f \in ToSet(directory) : f.stem /\ f \notin ToSet(files) =>
              Len(files) = FILES_READ /\ \A g \in ToSet(files) : f.name < g.name

\* Nothing of a profile lies outside its root, and a partial download never lies among the models.
ProfileIsContained(root) ==
    LET p == RootedAt(root)
        everything == ToSet(AllDirs(p)) \cup ConfigFiles(p) \cup DataFiles(p)
    IN  /\ \A path \in everything : IsPrefix(root, path)
        /\ ~IsPrefix(ModelsDir(p), DownloadsDir(p))
        /\ \A refused \in SUBSET {p.config, RuntimeDir(p)} :
              CreateAll(p, refused).ok <=> refused = {}

-----------------------------------------------------------------------------
(* The errors of the workspace. *)

ErrorKinds == {"InvalidRequest", "NotFound", "Unauthorized", "RateLimited", "ResourceExhausted",
               "Unavailable", "Internal", "Cancelled"}
KindStatus(kind) ==
    CASE kind = "InvalidRequest" -> 400 [] kind = "Unauthorized" -> 401 [] kind = "NotFound" -> 404
      [] kind = "RateLimited" -> 429 [] kind = "ResourceExhausted" -> 507
      [] kind = "Unavailable" -> 503 [] kind = "Internal" -> 500 [] kind = "Cancelled" -> 499
OpenaiType(kind) ==
    CASE kind = "InvalidRequest" -> "invalid_request_error"
      [] kind = "Unauthorized" -> "authentication_error"
      [] kind = "NotFound" -> "not_found_error"
      [] kind = "RateLimited" -> "rate_limit_error"
      [] OTHER -> "server_error"
IsRetryable(kind) == kind \in {"RateLimited", "Unavailable"}
RemedyAction == {"ReduceContext", "QuantizeKvCache", "UseQuantization", "UseSmallerModel",
                 "FreeMemory", "FreeDisk", "SelectSupportedArchitecture", "RetryAfter",
                 "ForceLoad", "OpenSettings"}

-----------------------------------------------------------------------------
BackendError ==
    {"UnsupportedPlatform", "RuntimeDownloadFailed", "RuntimeCorrupt", "RuntimeMissing", "LowDisk",
     "ModelNotFound", "UnsupportedArchitecture", "InvalidContextLength", "ContextOverflow",
     "UnsupportedKvCacheType", "InsufficientMemory", "LockedMemoryTooSmall", "StartTimeout",
     "EngineCrashed", "EngineOom", "UnsupportedCpuInstruction", "EngineUnavailable",
     "GenerationFailed", "NoModelLoaded", "Cancelled", "Io"}
BackendCode(e) ==
    CASE e = "UnsupportedPlatform" -> "unsupported_platform"
      [] e = "RuntimeDownloadFailed" -> "runtime_download_failed"
      [] e = "RuntimeCorrupt" -> "runtime_corrupt" [] e = "RuntimeMissing" -> "runtime_missing"
      [] e = "LowDisk" -> "low_disk" [] e = "ModelNotFound" -> "model_not_found"
      [] e = "UnsupportedArchitecture" -> "unsupported_architecture"
      [] e = "InvalidContextLength" -> "invalid_context_length"
      [] e = "UnsupportedKvCacheType" -> "unsupported_kv_cache_type"
      [] e = "ContextOverflow" -> "context_length_exceeded"
      [] e = "InsufficientMemory" -> "insufficient_memory"
      [] e = "LockedMemoryTooSmall" -> "locked_memory_too_small"
      [] e = "StartTimeout" -> "engine_start_timeout" [] e = "EngineCrashed" -> "engine_crashed"
      [] e = "EngineOom" -> "engine_out_of_memory"
      [] e = "UnsupportedCpuInstruction" -> "unsupported_cpu_instruction"
      [] e = "EngineUnavailable" -> "engine_unavailable"
      [] e = "GenerationFailed" -> "generation_failed" [] e = "NoModelLoaded" -> "no_model_loaded"
      [] e = "Cancelled" -> "cancelled" [] e = "Io" -> "io_error"
BackendKind(e) ==
    CASE e = "ModelNotFound" -> "NotFound"
      [] e \in {"UnsupportedArchitecture", "InvalidContextLength", "ContextOverflow",
                "UnsupportedKvCacheType", "LockedMemoryTooSmall"} -> "InvalidRequest"
      [] e \in {"LowDisk", "InsufficientMemory", "EngineOom"} -> "ResourceExhausted"
      [] e \in {"EngineUnavailable", "NoModelLoaded", "StartTimeout", "EngineCrashed"} -> "Unavailable"
      [] e = "Cancelled" -> "Cancelled"
      [] OTHER -> "Internal"
BackendRemedies(e) ==
    CASE e \in {"LockedMemoryTooSmall", "UnsupportedKvCacheType", "UnsupportedCpuInstruction",
                "RuntimeCorrupt", "RuntimeDownloadFailed", "StartTimeout"} -> {"OpenSettings"}
      [] e = "UnsupportedArchitecture" -> {"SelectSupportedArchitecture"}
      [] e = "ContextOverflow" -> {"ReduceContext", "OpenSettings"}
      [] e = "InvalidContextLength" -> {"ReduceContext"}
      [] e = "LowDisk" -> {"FreeDisk"}
      [] e = "EngineOom" -> {"OpenSettings", "FreeMemory"}
      [] OTHER -> {}
\* Worth trying again without changing anything.
IsTransient(e) == e \in {"EngineCrashed", "StartTimeout", "EngineUnavailable"}

DownloadError == {"InsecureUrl", "Failed", "Corrupt", "LowDisk", "Io", "Cancelled"}
DownloadCode(e) == CASE e = "InsecureUrl" -> "insecure_url" [] e = "Failed" -> "download_failed"
                     [] e = "Corrupt" -> "download_corrupt" [] e = "LowDisk" -> "low_disk"
                     [] e = "Io" -> "io_error" [] e = "Cancelled" -> "cancelled"
DownloadKind(e) == CASE e = "InsecureUrl" -> "InvalidRequest" [] e = "Failed" -> "Unavailable"
                     [] e = "LowDisk" -> "ResourceExhausted" [] e = "Cancelled" -> "Cancelled"
                     [] OTHER -> "Internal"
DownloadRemedies(e) == CASE e = "InsecureUrl" -> {"OpenSettings"}
                         [] e \in {"Failed", "Corrupt"} -> {"RetryAfter"}
                         [] e = "LowDisk" -> {"FreeDisk"} [] OTHER -> {}

CatalogError == {"UnknownModel", "UnknownManifestModel", "DuplicateModel", "FileNotFound", "NotAGguf",
                 "InUse", "CatalogUnreadable", "NotADigest", "InvalidAlias", "AliasInUse",
                 "AliasIsModelId", "ModelIdIsAlias", "Io"}
CatalogCode(e) ==
    CASE e = "UnknownModel" -> "unknown_model" [] e = "UnknownManifestModel" -> "unknown_pinned_model"
      [] e = "DuplicateModel" -> "duplicate_model" [] e = "FileNotFound" -> "model_file_not_found"
      [] e = "NotAGguf" -> "not_a_gguf" [] e = "InUse" -> "model_in_use"
      [] e = "CatalogUnreadable" -> "catalog_unreadable" [] e = "NotADigest" -> "not_a_digest"
      [] e = "InvalidAlias" -> "invalid_alias" [] e = "AliasInUse" -> "alias_in_use"
      [] e = "AliasIsModelId" -> "alias_is_model_id" [] e = "ModelIdIsAlias" -> "model_id_is_alias"
      [] e = "Io" -> "io_error"
CatalogKind(e) ==
    CASE e \in {"UnknownModel", "UnknownManifestModel", "FileNotFound"} -> "NotFound"
      [] e \in {"CatalogUnreadable", "Io"} -> "Internal"
      [] OTHER -> "InvalidRequest"
CatalogRemedies(e) ==
    IF e \in {"InUse", "NotAGguf", "FileNotFound", "UnknownModel", "CatalogUnreadable", "AliasInUse",
              "ModelIdIsAlias"} THEN {"OpenSettings"} ELSE {}

StoreError == {"Io", "Unreadable", "NoSuchConversation", "MalformedId", "HistoryDisabled"}
StoreCode(e) == CASE e = "Io" -> "store_io_failed" [] e = "Unreadable" -> "store_unreadable"
                  [] e = "NoSuchConversation" -> "unknown_conversation"
                  [] e = "MalformedId" -> "malformed_conversation_id"
                  [] e = "HistoryDisabled" -> "history_disabled"
StoreKind(e) == CASE e \in {"Io", "Unreadable"} -> "Internal" [] e = "NoSuchConversation" -> "NotFound"
                  [] OTHER -> "InvalidRequest"
StoreRemedies(e) == IF e \in {"HistoryDisabled", "Io", "Unreadable"} THEN {"OpenSettings"} ELSE {}

BenchError == {"Engine", "PromptSize", "PromptTooLarge", "NothingMeasured", "Write", "Encode", "Read",
               "MalformedId", "NoSuchRun", "Busy"}
BenchCode(e) ==
    CASE e = "Engine" -> "benchmark_engine_failed" [] e = "PromptSize" -> "benchmark_prompt_size"
      [] e = "PromptTooLarge" -> "benchmark_prompt_too_large"
      [] e = "NothingMeasured" -> "benchmark_nothing_measured" [] e = "Write" -> "benchmark_not_saved"
      [] e = "Encode" -> "benchmark_not_encoded" [] e = "Read" -> "benchmark_not_read"
      [] e = "MalformedId" -> "malformed_benchmark_id" [] e = "NoSuchRun" -> "unknown_benchmark"
      [] e = "Busy" -> "server_busy"
BenchKind(e) == CASE e \in {"PromptSize", "PromptTooLarge", "MalformedId"} -> "InvalidRequest"
                  [] e = "NoSuchRun" -> "NotFound" [] e = "Busy" -> "Unavailable"
                  [] OTHER -> "Internal"
BenchRemedies(e) == IF e \in {"Engine", "Busy"} THEN {"RetryAfter"} ELSE {"OpenSettings"}

GgufError == {"Open", "Read", "BadMagic", "UnsupportedVersion", "Truncated", "UnknownValueType",
              "NestedArray", "InvalidUtf8", "MetadataTooLarge", "ImplausibleCount",
              "TooManyDimensions", "DimensionOverflow"}
GgufCode(e) ==
    CASE e = "Open" -> "gguf_unreadable" [] e = "Read" -> "gguf_read_failed"
      [] e = "BadMagic" -> "not_a_gguf_file" [] e = "UnsupportedVersion" -> "gguf_version_unsupported"
      [] e = "Truncated" -> "gguf_truncated" [] e = "UnknownValueType" -> "gguf_unknown_value_type"
      [] e = "NestedArray" -> "gguf_nested_array" [] e = "InvalidUtf8" -> "gguf_invalid_utf8"
      [] e = "MetadataTooLarge" -> "gguf_metadata_too_large"
      [] e = "ImplausibleCount" -> "gguf_implausible_count"
      [] e = "TooManyDimensions" -> "gguf_too_many_dimensions"
      [] e = "DimensionOverflow" -> "gguf_dimension_overflow"
GgufKind(e) == IF e \in {"Open", "Read"} THEN "Internal" ELSE "InvalidRequest"
GgufRemedies(e) == IF e \in {"BadMagic", "Truncated", "ImplausibleCount", "MetadataTooLarge",
                             "UnsupportedVersion"} THEN {"OpenSettings"} ELSE {}

\* The probes of this machine (their failures are named above).
MemoryRemedies(e) == {"ForceLoad"}
ObservabilityError == [LogDirectory |-> "log_directory_not_writable", Filter |-> "invalid_log_filter",
                       AlreadyInitialised |-> "logging_already_initialised"]
ObservabilityRemedies(e) == IF e = "AlreadyInitialised" THEN {} ELSE {"OpenSettings"}

\* ManagerError wraps the others and adds its own.
ManagerError == {"Busy", "NoCatalog", "DrainTimedOut", "FileMissing", "Insufficient"}
ManagerCode(e) == CASE e = "Busy" -> "model_operation_in_progress" [] e = "NoCatalog" -> "no_model_catalog"
                    [] e = "DrainTimedOut" -> "drain_timed_out"
                    [] e = "FileMissing" -> "model_file_not_found"
                    [] e = "Insufficient" -> "insufficient_memory"
ManagerKind(e) == CASE e = "Busy" -> "RateLimited" [] e = "NoCatalog" -> "Internal"
                    [] e = "DrainTimedOut" -> "Unavailable" [] e = "FileMissing" -> "NotFound"
                    [] e = "Insufficient" -> "ResourceExhausted"
\* Insufficient offers its estimate's own remedies (MemoryEstimate).
ManagerRemedies(e) == CASE e \in {"Busy", "DrainTimedOut"} -> {"RetryAfter"}
                        [] e = "FileMissing" -> {"OpenSettings"}
                        [] e = "Insufficient" -> {"FreeMemory"}
                        [] OTHER -> {}

-----------------------------------------------------------------------------
Of(type, variants) == {[type |-> type, variant |-> v] : v \in variants}
AllErrors ==
    Of("backend", BackendError) \cup Of("download", DownloadError) \cup Of("catalog", CatalogError)
      \cup Of("store", StoreError) \cup Of("bench", BenchError) \cup Of("gguf", GgufError)
      \cup Of("memory", DOMAIN MemoryError) \cup Of("disk", DOMAIN DiskError)
      \cup Of("network", DOMAIN NetworkError) \cup Of("paths", DOMAIN PathsError)
      \cup Of("load", DOMAIN LoadError) \cup Of("log", DOMAIN ObservabilityError)
      \cup Of("manager", ManagerError)
Code(err) ==
    LET e == err.variant
    IN  CASE err.type = "backend" -> BackendCode(e) [] err.type = "download" -> DownloadCode(e)
          [] err.type = "catalog" -> CatalogCode(e) [] err.type = "store" -> StoreCode(e)
          [] err.type = "bench" -> BenchCode(e) [] err.type = "gguf" -> GgufCode(e)
          [] err.type = "memory" -> MemoryError[e] [] err.type = "disk" -> DiskError[e]
          [] err.type = "network" -> NetworkError[e] [] err.type = "paths" -> PathsError[e]
          [] err.type = "load" -> LoadError[e] [] err.type = "log" -> ObservabilityError[e]
          [] OTHER -> ManagerCode(e)
Kind(err) ==
    LET e == err.variant
    IN  CASE err.type = "backend" -> BackendKind(e) [] err.type = "download" -> DownloadKind(e)
          [] err.type = "catalog" -> CatalogKind(e) [] err.type = "store" -> StoreKind(e)
          [] err.type = "bench" -> BenchKind(e) [] err.type = "gguf" -> GgufKind(e)
          [] err.type = "log" -> IF e = "Filter" THEN "InvalidRequest" ELSE "Internal"
          [] err.type = "manager" -> ManagerKind(e)
          [] OTHER -> "Internal"
Remedies(err) ==
    LET e == err.variant
    IN  CASE err.type = "backend" -> BackendRemedies(e) [] err.type = "download" -> DownloadRemedies(e)
          [] err.type = "catalog" -> CatalogRemedies(e) [] err.type = "store" -> StoreRemedies(e)
          [] err.type = "bench" -> BenchRemedies(e) [] err.type = "gguf" -> GgufRemedies(e)
          [] err.type = "memory" -> MemoryRemedies(e) [] err.type = "log" -> ObservabilityRemedies(e)
          [] err.type = "manager" -> ManagerRemedies(e)
          [] OTHER -> {"OpenSettings"}
HttpStatus(err) == KindStatus(Kind(err))
\* ErrorReport::capture and ErrorEnvelope::from_report.
Capture(err) == [code |-> Code(err), kind |-> Kind(err), remedies |-> Remedies(err)]
FromReport(report) == [code |-> report.code, type |-> OpenaiType(report.kind), param |-> <<>>,
                       remedies |-> report.remedies]
FromError(err) == FromReport(Capture(err))
WithParam(envelope, param) == [envelope EXCEPT !.param = <<param>>]
InvalidRequest(code) == [code |-> code, type |-> "invalid_request_error", param |-> <<>>, remedies |-> {}]

-----------------------------------------------------------------------------
(***************************************************************************)
(* What a client may rely on across every error type: a code has one       *)
(* status and one OpenAI type wherever it comes from; an offer to retry is *)
(* never made for what the caller sent or named; an engine failure worth   *)
(* retrying is of a retryable class; a machine that is short of something  *)
(* says what to free or change, once the estimate's own remedies are       *)
(* counted.                                                                *)
(***************************************************************************)
ErrorsAreConsistent(err) ==
    /\ \A other \in AllErrors :
          Code(other) = Code(err) => /\ HttpStatus(other) = HttpStatus(err)
                                     /\ FromError(other).type = FromError(err).type
    /\ Remedies(err) \subseteq RemedyAction
    /\ "RetryAfter" \in Remedies(err) => Kind(err) \notin {"InvalidRequest", "NotFound", "Cancelled"}
    /\ err.type = "backend" /\ IsTransient(err.variant) => IsRetryable(Kind(err))
    /\ Kind(err) = "ResourceExhausted" =>
          \E other \in AllErrors : Code(other) = Code(err) /\ Remedies(other) # {}

-----------------------------------------------------------------------------
(* What a handler answers. *)

Refuse(status, code) == [status |-> status, code |-> code, effect |-> "none", told |-> {}]
Reply(facts) == [status |-> 200, code |-> "ok", effect |-> "none", told |-> facts]
Did(status, effect) == [status |-> status, code |-> "ok", effect |-> effect, told |-> {}]

\* What the handlers answer when they refuse.
BadRequest(param) == Refuse(400, "invalid_request:" \o param)
ErrorJson(status, code) == Refuse(status, code)
NoManager == Refuse(501, "no_model_catalog")
NoDataDirectory == Refuse(501, "no_data_directory")
StoreErrorBadRequest(param) == Refuse(400, "invalid_request:" \o param)
ProbeUnavailable == Refuse(503, "probe_unavailable")
Accepted(kind) == Did(202, "job:" \o kind)
StoreFailure(err) == Refuse(HttpStatus(err), Code(err))
ErrorResponse(err) == Refuse(HttpStatus(err), Code(err))
Err(type, variant) == [type |-> type, variant |-> variant]
FromBackend(variant) == ErrorResponse(Err("backend", variant))
UnknownModel == ErrorResponse(Err("catalog", "UnknownModel"))

-----------------------------------------------------------------------------
(* auth.rs *)
Exposed(addresses) == \E a \in ToSet(addresses) : a # "lo"
\* AuthPolicy::build; <<>> is NeedsKey.
Build(addresses, static, named) ==
    LET key == IF static = <<"">> THEN <<>> ELSE static
    IN  CASE key # <<>> \/ named # {} -> <<[kind |-> "required", static |-> key, named |-> named]>>
          [] OTHER -> IF Exposed(addresses) THEN <<>> ELSE <<[kind |-> "disabled"]>>
ForBinds(addresses, static) == Build(addresses, static, {})
ForBind(address, static) == ForBinds(<<address>>, static)
WithStaticKey(key) == [kind |-> "required", static |-> <<key>>, named |-> {}]
IsEnabled(policy) == policy.kind = "required"
\* AuthPolicy::identify: <<>> when nobody is named, or why not.
AuthFailures == {"missing_api_key", "invalid_api_key"}
Identify(policy, key) ==
    CASE ~IsEnabled(policy) -> [ok |-> TRUE, caller |-> <<>>, why |-> ""]
      [] key = "none" -> [ok |-> FALSE, caller |-> <<>>, why |-> "missing_api_key"]
      [] <<key>> = policy.static -> [ok |-> TRUE, caller |-> <<>>, why |-> ""]
      [] key \in policy.named -> [ok |-> TRUE, caller |-> <<key>>, why |-> ""]
      [] OTHER -> [ok |-> FALSE, caller |-> <<>>, why |-> "invalid_api_key"]
Check(policy, key) == Identify(policy, key).ok
Unauthorized(why) == Refuse(401, why)

\* PeerKey: the caller's address, through the tunnel when that is trusted.
FromSocket(socket) == IF socket = "mapped" THEN "lo" ELSE socket
ResolvePeer(socket, forwarded, trust) ==
    IF trust /\ socket = "lo" /\ forwarded \in {"lo", "lan"} THEN forwarded ELSE FromSocket(socket)
FromRequestParts(q, w) == ResolvePeer(q.socket, q.forwarded, w.trustForwarded)
IsLocal(peer) == peer \in {"none", "lo"}

-----------------------------------------------------------------------------
(* routes.rs: who may ask. *)
IsAuthorized(q, w) == Check(w.policy, q.key)
Authorize(q, w) ==
    IF q.marked \/ Check(w.policy, q.key) THEN <<>>
    ELSE <<Unauthorized(Identify(w.policy, q.key).why)>>
TooManyRequests == Refuse(429, "rate_limited")
AdmitRequest(q, w) ==
    LET who == Identify(w.policy, q.key)
    IN  CASE q.marked -> <<>>
          [] ~who.ok -> <<Unauthorized(who.why)>>
          [] who.caller # <<>> /\ who.caller[1] \in w.limited /\ w.spent -> <<TooManyRequests>>
          [] OTHER -> <<>>
ForbidCrossOrigin(q) ==
    IF q.origin \in {"none", "same"} THEN <<>> ELSE <<Refuse(403, "cross_origin_refused")>>

\* A handler that refuses first, then does the rest.
Guarded(refusal, rest) == IF refusal # <<>> THEN refusal[1] ELSE rest
RequireLocal(q, w) ==
    IF IsLocal(FromRequestParts(q, w)) THEN <<>> ELSE <<Refuse(403, "local_only")>>
NeedsManager(q, w, rest) == Guarded(Authorize(q, w), IF w.manager THEN rest ELSE NoManager)
\* blocking and Failure: the store's own error, or its thread died.
Failure(w) == IF w.store = "fails" THEN StoreFailure(Err("store", "Io"))
              ELSE Refuse(503, "store_unavailable")
Blocking(w, done) == IF w.store = "ok" THEN done ELSE Failure(w)
NeedsStore(q, w, rest) ==
    Guarded(Authorize(q, w), IF w.paths THEN rest ELSE NoDataDirectory)

-----------------------------------------------------------------------------
(* routes.rs: the public endpoints. *)
Health(q, w) == Reply({"status"} \cup IF IsAuthorized(q, w) THEN {"engine", "model"} ELSE {})
Version(q, w) == Reply({"version"})
PropsBody == {"n_ctx", "slots", "model_path"}
Redacted(body) == body \ {"model_path"}
WithEngineProps(body) == body \cup {"engine"}
Props(q, w) ==
    IF w.resident = <<>> THEN FromBackend("NoModelLoaded")
    ELSE Reply(IF IsAuthorized(q, w) THEN WithEngineProps(PropsBody) ELSE Redacted(PropsBody))
ModelRows(w) == IF w.resident = <<>> THEN {"list"} ELSE {"list", "model"}
Models(q, w) == Guarded(Authorize(q, w), Reply(ModelRows(w)))
Capabilities(q, w) == Guarded(Authorize(q, w), Reply({"capabilities"} \cup ModelRows(w)))
MetricsText(q, w) == Guarded(Authorize(q, w), Reply({"metrics"}))
MetricsJson(q, w) == Guarded(Authorize(q, w), Reply({"metrics"}))

ParseBody(q) == CASE q.body = "malformed" -> <<Refuse(400, "invalid_json")>>
                  [] q.body = "mistyped" -> <<Refuse(400, "invalid_request_body")>>
                  [] OTHER -> <<>>
RequireMatchingModel(q, w) ==
    CASE w.resident = <<>> -> <<FromBackend("NoModelLoaded")>>
      [] q.body = "othermodel" -> <<Refuse(404, "model_not_found")>>
      [] OTHER -> <<>>
Serve(q, w) == Guarded(ParseBody(q), Guarded(RequireMatchingModel(q, w), Did(200, "generate")))
\* request_id.rs: the caller's id comes back on every answer, when usable.
Usable(id) == id # "" /\ id \notin {"too long", "not ascii"}
FromHeaders(q) == IF q.requestId # <<>> /\ Usable(q.requestId[1]) THEN q.requestId ELSE <<>>
Echo(a, id) == IF id = <<>> THEN a ELSE [a EXCEPT !.told = @ \cup {"request_id"}]
ChatCompletions(q, w) == Echo(Guarded(AdmitRequest(q, w), Serve(q, w)), FromHeaders(q))
Completions(q, w) == Echo(Guarded(AdmitRequest(q, w), Serve(q, w)), FromHeaders(q))

-----------------------------------------------------------------------------
(* control.rs *)
CatalogModels(q, w) == NeedsManager(q, w, Reply({"catalog"}))
Pinned(q, w) == Guarded(Authorize(q, w), Reply({"pinned"}))
CheckedAlias(q) == IF q.body = "badalias" THEN <<ErrorResponse(Err("catalog", "InvalidAlias"))>> ELSE <<>>
DownloadBody == {"malformed", "both", "neither", "badalias", "good"}
Download(q, w) ==
    NeedsManager(q, w,
        CASE q.body = "malformed" -> BadRequest("body")
          [] q.body \in {"both", "neither"} -> BadRequest("id")
          [] OTHER -> Guarded(CheckedAlias(q), Accepted("download")))
ImportBody == {"malformed", "badalias", "good"}
Import(q, w) ==
    NeedsManager(q, w,
        IF q.body = "malformed" THEN BadRequest("path")
        ELSE Guarded(CheckedAlias(q), Accepted("import")))
UpdateBody == {"malformed", "otherfield", "noalias", "wrongtype", "badalias", "good"}
Update(q, w) ==
    NeedsManager(q, w,
        CASE q.body = "malformed" -> BadRequest("body")
          [] q.body = "otherfield" -> BadRequest("other")
          [] q.body \in {"noalias", "wrongtype"} -> BadRequest("alias")
          [] OTHER -> IF q.id # "known" THEN UnknownModel
                      ELSE Guarded(CheckedAlias(q), Did(200, "alias")))
LoadBody == {"empty", "malformed", "badkv", "badmode", "zeroubatch", "good"}
Load(q, w) ==
    NeedsManager(q, w,
        CASE q.body = "malformed" -> BadRequest("body")
          [] q.body = "badkv" -> BadRequest("kv_type")
          [] q.body = "badmode" -> BadRequest("load_mode")
          [] q.body = "zeroubatch" -> BadRequest("ubatch")
          [] OTHER -> Accepted("load"))
Unload(q, w) ==
    NeedsManager(q, w, IF w.resident # <<>> /\ ~w.drains THEN ErrorResponse(Err("manager", "DrainTimedOut"))
                       ELSE Did(200, IF w.resident = <<>> THEN "none" ELSE "unload"))
RemoveQuery == {"empty", "badquery"}
RemoveModel(q, w) ==
    NeedsManager(q, w, CASE q.id # "known" -> UnknownModel
                         [] w.resident = <<"known">> -> ErrorResponse(Err("catalog", "InUse"))
                         [] OTHER -> Did(200, "remove"))
ModelDetail(q, w) ==
    NeedsManager(q, w, CASE q.body = "badkv" -> BadRequest("kv_type")
                         [] q.id # "known" -> UnknownModel
                         [] OTHER -> Reply({"detail"}))
RequestsRoster(q, w) == Guarded(Authorize(q, w), Reply({"roster"}))
Gateway(q, w) == Guarded(Authorize(q, w), Reply({"report"}))
Events(q, w) == Guarded(Authorize(q, w), Reply({"events"}))
JobList(q, w) == Guarded(Authorize(q, w), Reply({"jobs"}))
Job(q, w) == Guarded(Authorize(q, w), IF q.id = "known" THEN Reply({"job"})
                                      ELSE Refuse(404, "unknown_job"))
JobEvents(q, w) == Guarded(Authorize(q, w), IF q.id = "known" THEN Reply({"job"})
                                            ELSE Refuse(404, "unknown_job"))
BenchmarkBody == {"empty", "malformed", "good"}
RunBenchmark(q, w) ==
    Guarded(Authorize(q, w),
        CASE ~w.paths -> ErrorJson(503, "no_data_directory")
          [] q.body = "malformed" -> BadRequest("body")
          [] w.resident = <<>> -> ErrorJson(409, "no_model_loaded")
          [] OTHER -> Accepted("benchmark"))
Benchmarks(q, w) ==
    Guarded(Authorize(q, w), IF w.paths /\ w.store = "fails" THEN ErrorResponse(Err("bench", "Read"))
                             ELSE Reply({"runs"}))
Benchmark(q, w) ==
    Guarded(Authorize(q, w), CASE ~w.paths -> ErrorJson(404, "no_data_directory")
                               [] q.id = "malformed" -> ErrorResponse(Err("bench", "MalformedId"))
                               [] q.id # "known" -> ErrorResponse(Err("bench", "NoSuchRun"))
                               [] OTHER -> Reply({"run"}))
System(q, w) == Guarded(Authorize(q, w), IF w.probes THEN Reply({"system"}) ELSE ProbeUnavailable)
Logs(q, w) ==
    Guarded(Authorize(q, w), CASE ~w.paths -> Refuse(501, "no_data_directory")
                               [] q.body = "badlevel" -> BadRequest("level")
                               [] OTHER -> Reply({"log"}))

-----------------------------------------------------------------------------
(* store_api.rs *)
\* Settings that cannot be read keep the default, which is to keep history.
GatewaySettings(w) == [keepHistory |-> ~w.paths \/ w.store = "fails" \/ w.history]
RefuseIfHistoryIsOff(w) ==
    IF GatewaySettings(w).keepHistory THEN <<>> ELSE <<StoreFailure(Err("store", "HistoryDisabled"))>>
\* ConversationStore: an id becomes a file name only when it has the shape of one.
WithConversation(q, w, done) ==
    Blocking(w, IF q.id = "malformed" THEN StoreFailure(Err("store", "MalformedId")) ELSE done)
NoSuchConversation == StoreFailure(Err("store", "NoSuchConversation"))
List(q, w) == NeedsStore(q, w, Blocking(w, Reply({"conversations"})))
Create(q, w) == NeedsStore(q, w, Guarded(RefuseIfHistoryIsOff(w),
                                         Blocking(w, Did(201, "conversation"))))
Get(q, w) ==
    NeedsStore(q, w, WithConversation(q, w, IF q.id = "known" THEN Reply({"conversation"})
                                            ELSE NoSuchConversation))
SaveConversation == {"malformed", "good"}
Save(q, w) ==
    NeedsStore(q, w, Guarded(RefuseIfHistoryIsOff(w),
        IF q.body = "malformed" THEN StoreErrorBadRequest("body")
        ELSE WithConversation(q, w, Did(200, "conversation"))))
Delete(q, w) ==
    NeedsStore(q, w, WithConversation(q, w, IF q.id = "known" THEN Did(200, "delete")
                                            ELSE NoSuchConversation))
Settings(q, w) == NeedsStore(q, w, Blocking(w, Reply({"settings"})))
SaveSettings(q, w) ==
    NeedsStore(q, w, IF q.body = "malformed" THEN StoreErrorBadRequest("body")
                     ELSE Blocking(w, Did(200, "settings")))
ListKeys(q, w) == NeedsStore(q, w, Blocking(w, Reply({"keys"})))
LocalStore(q, w, rest) ==
    Guarded(Authorize(q, w), Guarded(RequireLocal(q, w), IF w.paths THEN rest ELSE NoDataDirectory))
CreateKey(q, w) ==
    LocalStore(q, w, IF q.body = "malformed" THEN StoreErrorBadRequest("body")
                     ELSE Blocking(w, Did(201, "key:create")))
RevokeKey(q, w) ==
    LocalStore(q, w, Blocking(w, IF q.id = "known" THEN Did(200, "key:revoke")
                                 ELSE Refuse(404, "not_found")))
SetKeyLimit(q, w) ==
    LocalStore(q, w, IF q.body = "malformed" THEN StoreErrorBadRequest("body")
                     ELSE Blocking(w, IF q.id = "known" THEN Did(200, "key:limit")
                                      ELSE Refuse(404, "not_found")))
\* to_socket_addrs: the addresses a host name stands for; <<>> when unknown.
Resolves(host) == CASE host = "localhost" -> <<{"lo"}>>
                    [] host = "lan" -> <<{"lan"}>>
                    [] host = "any" -> <<{"lo", "lan"}>>
                    [] OTHER -> <<>>
\* validate_and_save: <<>> when the configuration may be saved, or the refusal.
ValidateAndSave(hosts, hasCredential) ==
    LET resolved == UNION {Resolves(h)[1] : h \in {g \in ToSet(hosts) : Resolves(g) # <<>>}}
    IN  CASE hosts = <<>> -> <<>>
          [] \E h \in ToSet(hosts) : Resolves(h) = <<>> -> <<"unresolved">>
          [] "lo" \notin resolved -> <<"no loopback">>
          [] resolved # {"lo"} /\ ~hasCredential -> <<"no credential">>
          [] OTHER -> <<>>
HasCredential(w) == IsEnabled(w.policy) \/ (w.paths /\ w.store # "fails" /\ w.keysOnDisk # {})
SaveConfig(q, w) ==
    LocalStore(q, w,
        CASE q.body = "malformed" -> StoreErrorBadRequest("body")
          [] w.store = "dead" -> Failure(w)
          [] ValidateAndSave(q.hosts, HasCredential(w)) # <<>> -> StoreErrorBadRequest("hosts")
          [] OTHER -> IF w.store = "fails" THEN StoreErrorBadRequest("body") ELSE Did(200, "config"))
\* config_matches_running: "no opinion" agrees with anything.
ConfigMatchesRunning(hosts, running) ==
    CASE hosts = <<>> -> TRUE
      [] \E h \in ToSet(hosts) : Resolves(h) = <<>> -> FALSE
      [] OTHER -> UNION {Resolves(h)[1] : h \in ToSet(hosts)} = running
GetConfig(q, w) ==
    NeedsStore(q, w, Blocking(w, Reply({"config"} \cup
        IF ConfigMatchesRunning(w.savedHosts, w.listeners) THEN {"matches"} ELSE {"differs"})))

-----------------------------------------------------------------------------
(* web.rs: the panel's files.  A path is its components; an asset has an   *)
(* extension, a page of the panel has none.                                *)
Dotted == {"app.js", "gone.css", "index.html", ".."}
ResolvePath(path) ==
    CASE path = <<>> -> <<<<"index.html">>>>
      [] \E k \in DOMAIN path : path[k] \in {"..", "\\0"} -> <<>>
      [] OTHER -> <<path>>
LooksLikeARoute(path) == path = <<>> \/ path[Len(path)] \notin Dotted
ContentType(file) == IF file = <<"index.html">> THEN "html" ELSE "asset"
\* Only the page that names the hashed assets must be asked for again.
CacheControl(file) == IF file[Len(file)] = "index.html" THEN "no-cache" ELSE "immutable"
Send(file, files) ==
    IF file \in files THEN Reply({"file", ContentType(file), CacheControl(file)}) ELSE Refuse(404, "")
ServeRoot(path, files) ==
    LET found == ResolvePath(path)
    IN  CASE found # <<>> /\ found[1] \in files -> Send(found[1], files)
          [] LooksLikeARoute(path) -> Send(<<"index.html">>, files)
          [] OTHER -> Refuse(404, "")
ServeWeb(q, w) == IF w.webRoot THEN ServeRoot(q.path, w.files) ELSE Refuse(404, "")

-----------------------------------------------------------------------------
(* lib.rs: the router and its layers.                                      *)
Route(control, write, bodies) == [control |-> control, write |-> write, bodies |-> bodies]
NoBody == {"empty"}
Inference == {"malformed", "mistyped", "othermodel", "good"}
Routes ==
    [health |-> Route(FALSE, FALSE, NoBody), metrics |-> Route(FALSE, FALSE, NoBody),
     metricsJson |-> Route(TRUE, FALSE, NoBody), props |-> Route(FALSE, FALSE, NoBody),
     version |-> Route(FALSE, FALSE, NoBody), capabilities |-> Route(FALSE, FALSE, NoBody),
     models |-> Route(FALSE, FALSE, NoBody), chat |-> Route(FALSE, TRUE, Inference),
     completions |-> Route(FALSE, TRUE, Inference), panelChat |-> Route(TRUE, TRUE, Inference),
     catalog |-> Route(TRUE, FALSE, NoBody), import |-> Route(TRUE, TRUE, ImportBody),
     download |-> Route(TRUE, TRUE, DownloadBody), unload |-> Route(TRUE, TRUE, NoBody),
     load |-> Route(TRUE, TRUE, LoadBody), detail |-> Route(TRUE, FALSE, {"empty", "badquery", "badkv"}),
     update |-> Route(TRUE, TRUE, UpdateBody), remove |-> Route(TRUE, TRUE, RemoveQuery),
     pinned |-> Route(TRUE, FALSE, NoBody), benchmarks |-> Route(TRUE, FALSE, NoBody),
     runBenchmark |-> Route(TRUE, TRUE, BenchmarkBody), benchmark |-> Route(TRUE, FALSE, NoBody),
     jobs |-> Route(TRUE, FALSE, NoBody), job |-> Route(TRUE, FALSE, NoBody),
     jobEvents |-> Route(TRUE, FALSE, NoBody), system |-> Route(TRUE, FALSE, NoBody),
     gateway |-> Route(TRUE, FALSE, NoBody), events |-> Route(TRUE, FALSE, NoBody),
     requests |-> Route(TRUE, FALSE, NoBody), logs |-> Route(TRUE, FALSE, {"empty", "badquery", "badlevel"}),
     list |-> Route(TRUE, FALSE, NoBody), create |-> Route(TRUE, TRUE, NoBody),
     get |-> Route(TRUE, FALSE, NoBody), save |-> Route(TRUE, TRUE, SaveConversation),
     delete |-> Route(TRUE, TRUE, NoBody), settings |-> Route(TRUE, FALSE, NoBody),
     saveSettings |-> Route(TRUE, TRUE, SaveConversation), config |-> Route(TRUE, FALSE, NoBody),
     saveConfig |-> Route(TRUE, TRUE, SaveConversation), keys |-> Route(TRUE, FALSE, NoBody),
     createKey |-> Route(TRUE, TRUE, BenchmarkBody), revokeKey |-> Route(TRUE, TRUE, NoBody),
     keyLimit |-> Route(TRUE, TRUE, SaveConversation), web |-> Route(FALSE, FALSE, NoBody)]
\* What the extractors of a handler's path and query refuse before it runs.
Extracted(q) ==
    /\ q.to \in {"job", "jobEvents"} => q.id # "malformed"
    /\ q.body # "badquery"
App(q, w) ==
    CASE ~Extracted(q) -> Refuse(400, "unreadable_url")
      [] q.to = "health" -> Health(q, w) [] q.to = "metrics" -> MetricsText(q, w)
      [] q.to = "metricsJson" -> MetricsJson(q, w) [] q.to = "props" -> Props(q, w)
      [] q.to = "version" -> Version(q, w) [] q.to = "capabilities" -> Capabilities(q, w)
      [] q.to = "models" -> Models(q, w) [] q.to \in {"chat", "panelChat"} -> ChatCompletions(q, w)
      [] q.to = "completions" -> Completions(q, w) [] q.to = "catalog" -> CatalogModels(q, w)
      [] q.to = "import" -> Import(q, w) [] q.to = "download" -> Download(q, w)
      [] q.to = "unload" -> Unload(q, w) [] q.to = "load" -> Load(q, w)
      [] q.to = "detail" -> ModelDetail(q, w) [] q.to = "update" -> Update(q, w)
      [] q.to = "remove" -> RemoveModel(q, w) [] q.to = "pinned" -> Pinned(q, w)
      [] q.to = "benchmarks" -> Benchmarks(q, w) [] q.to = "runBenchmark" -> RunBenchmark(q, w)
      [] q.to = "benchmark" -> Benchmark(q, w) [] q.to = "jobs" -> JobList(q, w)
      [] q.to = "job" -> Job(q, w) [] q.to = "jobEvents" -> JobEvents(q, w)
      [] q.to = "system" -> System(q, w) [] q.to = "gateway" -> Gateway(q, w)
      [] q.to = "events" -> Events(q, w) [] q.to = "requests" -> RequestsRoster(q, w)
      [] q.to = "logs" -> Logs(q, w) [] q.to = "list" -> List(q, w)
      [] q.to = "create" -> Create(q, w) [] q.to = "get" -> Get(q, w)
      [] q.to = "save" -> Save(q, w) [] q.to = "delete" -> Delete(q, w)
      [] q.to = "settings" -> Settings(q, w) [] q.to = "saveSettings" -> SaveSettings(q, w)
      [] q.to = "config" -> GetConfig(q, w) [] q.to = "saveConfig" -> SaveConfig(q, w)
      [] q.to = "keys" -> ListKeys(q, w) [] q.to = "createKey" -> CreateKey(q, w)
      [] q.to = "revokeKey" -> RevokeKey(q, w) [] q.to = "keyLimit" -> SetKeyLimit(q, w)
      [] OTHER -> ServeWeb(q, w)
IsPanelManagementPath(q) == Routes[q.to].control
GuardControlWrites(q, w) ==
    IF Routes[q.to].write /\ Routes[q.to].control /\ ForbidCrossOrigin(q) # <<>>
    THEN ForbidCrossOrigin(q)[1] ELSE App(q, w)
\* The outermost layer: the internal header is the gateway's to set.
MarkLoopbackControl(q, w) ==
    GuardControlWrites(
        [q EXCEPT !.marked = IsPanelManagementPath(q) /\ q.socket \in {"none", "lo"}], w)
Respond(q, w) == MarkLoopbackControl(q, w)

-----------------------------------------------------------------------------
(***************************************************************************)
(* Whoever asks and whatever they send, something changes only for a       *)
(* caller the policy knows or the panel on this machine, never for a page  *)
(* of another origin, the keys and the listeners only from this machine,   *)
(* never with an answer that refuses, and a key over its limit generates   *)
(* nothing.                                                                *)
(***************************************************************************)
ChangesAreAllowed(q, w, a) ==
    /\ a.effect # "none" =>
          /\ a.status \in 200..299
          /\ ~IsEnabled(w.policy) \/ q.key \in {"static", "named"}
                \/ (Routes[q.to].control /\ q.socket \in {"none", "lo"})
          /\ Routes[q.to].control => q.origin # "other"
    /\ a.effect \in {"key:create", "key:revoke", "key:limit", "config"} => q.socket # "lan"
    /\ a.effect = "generate" /\ q.key = "named" /\ w.spent =>
          q.key \notin w.limited \/ (Routes[q.to].control /\ q.socket \in {"none", "lo"})

(***************************************************************************)
(* A caller the policy does not know learns nothing from which refusal it  *)
(* gets: whatever it sends and whatever the gateway holds the answer is    *)
(* the same 401, and the two endpoints that answer anybody leave out what  *)
(* is this machine's.  The panel on this machine is never asked for a key. *)
(***************************************************************************)
StrangersLearnNothing(q, w, a) ==
    LET panel == Routes[q.to].control /\ q.socket \in {"none", "lo"}
        known == ~IsEnabled(w.policy) \/ Check(w.policy, q.key)
    IN  /\ a.status = 401 <=>
              /\ ~panel /\ ~known /\ q.to \notin {"health", "version", "props", "web"}
              /\ ~(Routes[q.to].control /\ Routes[q.to].write /\ q.origin = "other")
              /\ Extracted(q)
        /\ ~known /\ q.to \in {"health", "version", "props", "web"} =>
              a.told \cap {"engine", "model", "model_path"} = {}

\* Nobody revoked a key behind the running gateway's back.
PolicyIsCurrent(w) == IsEnabled(w.policy) => w.policy.named \subseteq w.keysOnDisk
(***************************************************************************)
(* A configuration the panel was allowed to save is one the next start can *)
(* use with the credentials there are: it has a loopback listener, and     *)
(* AuthPolicy::build accepts its addresses, unless the keys the running    *)
(* gateway knows were revoked by another process since it read them.       *)
(***************************************************************************)
SavedConfigCanStart(q, w, a) ==
    a.effect = "config" /\ q.hosts # <<>> =>
        LET addresses == SetToSeq(UNION {Resolves(h)[1] : h \in ToSet(q.hosts)})
            static == IF IsEnabled(w.policy) THEN w.policy.static ELSE <<>>
        IN  /\ "lo" \in ToSet(addresses)
            /\ PolicyIsCurrent(w) => Build(addresses, static, w.keysOnDisk) # <<>>

(***************************************************************************)
(* What is served is a file of the panel, found without leaving its root;  *)
(* a page may be cached only when its name changes with its content; and   *)
(* the id of a request comes back with whatever a generation endpoint      *)
(* answers, refusals included.                                             *)
(***************************************************************************)
AnswersAreTrue(q, w, a) ==
    /\ q.to = "web" /\ a.status = 200 =>
          /\ w.webRoot /\ (q.path \in w.files \/ <<"index.html">> \in w.files)
          /\ "html" \in a.told => "no-cache" \in a.told
    /\ q.to \in {"chat", "completions"} =>
          ("request_id" \in a.told <=> q.requestId \notin {<<>>, <<"">>, <<"too long">>, <<"not ascii">>})
    /\ a.code = "history_disabled" => w.paths /\ ~w.history
=============================================================================

----------------------------- MODULE Installation ---------------------------
(***************************************************************************)
(* The two ways programs come to be in place, which share no state.        *)
(*                                                                         *)
(* Fetching and unpacking the inference engine                             *)
(* (crates/lightweight-backend-llamacpp/src/acquire.rs).  ensure takes the *)
(* engine for installed when its server binary is a file.  Otherwise it    *)
(* downloads the pinned archive, unpacks it entry by entry into the        *)
(* install directory, removes it, and makes the programs executable.  A    *)
(* gateway that loads and a command may call ensure at once.               *)
(*                                                                         *)
(* `hermes update` and `lightweight update`: either binary brings every    *)
(* installed one to the latest release (crates/release-update/src lib.rs,  *)
(* install.rs, release.rs).  An archive of the release is verified and     *)
(* each binary is extracted, run and renamed into place over its .old      *)
(* backup; without an archive for the platform Cargo builds the package,   *)
(* which holds both binaries.  A failure puts the backups back.  A binary  *)
(* is its version, and Absent when there is no such file.                  *)
(***************************************************************************)
EXTENDS Naturals, Sequences, SequencesExt, FiniteSets

CONSTANTS
    Callers,     \* the processes that may call ensure
    Archives,    \* what the pinned archive may hold: sequences of entry names
    MaxCalls     \* bound on the calls of ensure

VARIABLES
    entries,     \* the archive's entries
    engine,      \* the files written, by path: "part" or "whole"
    executable,  \* the programs have their mode bits
    archive,     \* the verified archive is there
    ensure,      \* where each caller is
    calls,
    broken       \* history: a caller died, or failed, while it unpacked

engineVars == <<entries, engine, executable, archive, ensure, calls, broken>>

\* A path is its components; "." and ".." are the special ones, "/" the root.
Special == {".", "..", "/"}
Server == <<"llama-server">>

\* common_prefix: the one directory every entry is under, if there is one.  A
\* file at the top level, or an odd first component, means there is none.
CommonPrefix(names) ==
    LET firsts == {Head(names[k]) : k \in DOMAIN names}
    IN  IF /\ names # <<>>
           /\ \A k \in DOMAIN names : Len(names[k]) > 1 /\ Head(names[k]) \notin Special
           /\ \A a, b \in firsts : a = b
        THEN <<Head(names[1])>> ELSE <<>>

StripPrefix(path, prefix) == IF prefix = <<>> THEN path ELSE Tail(path)

\* As SafeJoin, but every component is joined as it is.
JoinAll(path) == SelectSeq(path, LAMBDA c : c # ".")

\* safe_join: "." is passed over, and ".." or a root refuses the entry, as does
\* a path that names the directory itself.
SafeJoin(path) ==
    IF \E k \in DOMAIN path : path[k] \in {"..", "/"} THEN <<>>
    ELSE SelectSeq(path, LAMBDA c : c # ".")

\* Where an entry goes; the empty path for one that is refused.
Target(k) == SafeJoin(StripPrefix(entries[k], CommonPrefix(entries)))

Has(path) == path \in DOMAIN engine
IsInstalled == Has(Server)

EngineInit ==
    /\ entries \in Archives
    /\ engine = <<>>
    /\ executable = FALSE
    /\ archive = FALSE
    /\ ensure = [p \in Callers |-> [at |-> "idle"]]
    /\ calls = 0
    /\ broken = FALSE

At(p, at) == ensure[p].at = at
GoTo(p, at) == ensure' = [ensure EXCEPT ![p] = [at |-> at]]

\* A server binary that is a file is returned at once.
Ensure(p) ==
    /\ ensure[p].at \in {"idle", "returned", "failed"} /\ calls < MaxCalls
    /\ calls' = calls + 1
    /\ GoTo(p, IF IsInstalled THEN "returned" ELSE "download")
    /\ UNCHANGED <<entries, engine, executable, archive, broken>>

\* download: what is left at the destination has the pinned digest.
DownloadEngine(p) ==
    /\ At(p, "download")
    /\ \/ archive' = TRUE /\ ensure' = [ensure EXCEPT ![p] = [at |-> "extract", entry |-> 1, open |-> FALSE]]
       \/ GoTo(p, "failed") /\ UNCHANGED archive
    /\ UNCHANGED <<entries, engine, executable, calls, broken>>

\* extract: one file is created, then filled, then the next.  The archive may
\* have been removed by another caller before this one opens it; a disk that
\* fills up ends the call where it stands.
ExtractEntry(p) ==
    /\ At(p, "extract")
    /\ LET k == ensure[p].entry
           path == Target(k)
           Filled(how) == [f \in DOMAIN engine \cup {path} |-> IF f = path THEN how ELSE engine[f]]
       IN  \/ /\ k = 1 /\ ~ensure[p].open /\ ~archive
              /\ GoTo(p, "failed")
              /\ UNCHANGED <<engine, broken>>
           \/ /\ ~ensure[p].open /\ (k > 1 \/ archive) /\ path = <<>>
              /\ GoTo(p, "failed")
              /\ broken' = TRUE
              /\ UNCHANGED engine
           \/ /\ ~ensure[p].open /\ (k > 1 \/ archive) /\ path # <<>>
              /\ engine' = Filled("part")
              /\ ensure' = [ensure EXCEPT ![p].open = TRUE]
              /\ UNCHANGED broken
           \/ /\ ensure[p].open
              /\ engine' = Filled("whole")
              /\ ensure' = [ensure EXCEPT ![p] = IF k = Len(entries) THEN [at |-> "finish"]
                                                 ELSE [at |-> "extract", entry |-> k + 1, open |-> FALSE]]
              /\ UNCHANGED broken
           \/ /\ ensure[p].open
              /\ GoTo(p, "failed")
              /\ broken' = TRUE
              /\ UNCHANGED engine
    /\ UNCHANGED <<entries, executable, archive, calls>>

\* The archive goes, the server binary is looked for, make_executable runs.
FinishInstall(p) ==
    /\ At(p, "finish")
    /\ archive' = FALSE
    /\ executable' = (executable \/ IsInstalled)
    /\ GoTo(p, IF IsInstalled THEN "returned" ELSE "failed")
    /\ UNCHANGED <<entries, engine, calls, broken>>

\* The process is killed; what it was doing is left as it is.
KillCaller(p) ==
    /\ ensure[p].at \notin {"idle", "returned", "failed"}
    /\ GoTo(p, "idle")
    /\ broken' = (broken \/ ensure[p].at \in {"extract", "finish"})
    /\ UNCHANGED <<entries, engine, executable, archive, calls>>

EngineNext ==
    \E p \in Callers :
        \/ Ensure(p) \/ DownloadEngine(p) \/ ExtractEntry(p) \/ FinishInstall(p) \/ KillCaller(p)

EngineSpec == EngineInit /\ [][EngineNext]_engineVars

EngineTypeOK ==
    /\ \A f \in DOMAIN engine : engine[f] \in {"part", "whole"}
    /\ executable \in BOOLEAN /\ archive \in BOOLEAN /\ broken \in BOOLEAN
    /\ calls \in 0..MaxCalls
    /\ \A p \in Callers : ensure[p].at \in {"idle", "download", "extract", "finish", "returned", "failed"}

Unpacking == \E p \in Callers : ensure[p].at \in {"extract", "finish"}
Returned == \E p \in Callers : At(p, "returned")
WholeEngine == executable /\ \A k \in DOMAIN entries : Has(Target(k)) /\ engine[Target(k)] = "whole"

\* A path ensure returned is that of a whole, executable engine, whoever
\* unpacked it, as long as no call ended half way through unpacking and none is
\* unpacking now.  Nothing is ever written outside the install directory, and
\* an archive with the server anywhere under its one directory installs it.
ReturnedIsWhole ==
    /\ Returned => broken \/ Unpacking \/ WholeEngine
    /\ \A f \in DOMAIN engine : f # <<>> /\ ToSet(f) \cap Special = {}
    /\ \A p \in Callers : At(p, "finish") /\ (\E k \in DOMAIN entries : Last(entries[k]) = "llama-server")
           => \E f \in DOMAIN engine : Last(f) = "llama-server"

\* What is_installed says: the engine is already installed, so it can start.
InstalledIsWhole == Returned => WholeEngine

-----------------------------------------------------------------------------
(* The update. *)

CONSTANTS
    Updaters,    \* the update processes that may run
    Latest,      \* the version of the latest release
    MaxCrashes   \* bound on the updates killed half way

VARIABLES
    bin,         \* the version of each binary in the install directory
    old,         \* the same of its .old backup
    place,       \* where the binaries are: managed, in a bin directory
    release,     \* what the latest release publishes, and serves
    update,      \* where each update stands
    crashes,
    together     \* history: two updates overlapped, or one was killed

updateVars == <<bin, old, place, release, update, crashes, together>>

Clis == {"hermes", "lightweight"}
UpdateOrder == <<"hermes", "lightweight">>
Absent == 0
Other(cli) == CHOOSE c \in Clis : c # cli

NotStarted == [at |-> "none"]
Running(u) == update[u].at \notin {"none", "checked", "blocked", "done", "failed", "stuck", "killed"}

SelfUpdateInit ==
    /\ bin \in [Clis -> 0..Latest]
    /\ \E c \in Clis : bin[c] # Absent
    /\ old = [c \in Clis |-> Absent]
    /\ place \in [managed : BOOLEAN, inBin : BOOLEAN]
    /\ release \in [archive : BOOLEAN, checksums : BOOLEAN, intact : BOOLEAN]
    /\ update = [u \in Updaters |-> NotStarted]
    /\ crashes = 0
    /\ together = FALSE

\* installed_version: what the binary prints, or nothing when it does not run,
\* which any of them may fail to.
InstalledVersion(cli) == {bin[cli], Absent}

\* The targets: the invoker, whose version is its own, and the other binary if
\* it is installed; one whose version is unknown or older needs the update.
NeedsUpdate(version, force) == force \/ version = Absent \/ version < Latest

Targets(invoker) == {c \in Clis : c = invoker \/ bin[c] # Absent}

\* method: the archive of this platform when the release has one.
Method == IF release.archive THEN "fetch" ELSE "cargo"

\* managed_install: the desktop app's binaries and a build tree's are left
\* alone; cargo_root: Cargo only installs into a bin directory.
ManagedInstall == place.managed
CargoRoot == place.inBin

\* run, up to the first transfer.  A check only reports.
Start(u, invoker, force, check) ==
    /\ update[u] = NotStarted
    /\ bin[invoker] # Absent
    /\ \E seen \in InstalledVersion(Other(invoker)) :
        LET version == [c \in Clis |-> IF c = invoker THEN bin[c] ELSE seen]
            pending == {c \in Targets(invoker) : NeedsUpdate(version[c], force)}
        IN  update' = [update EXCEPT ![u] =
                [at |-> IF check THEN "checked" ELSE IF pending = {} THEN "done"
                        ELSE IF ManagedInstall THEN "blocked" ELSE Method,
                 todo |-> SelectSeq(UpdateOrder, LAMBDA c : c \in pending),
                 applied |-> <<>>, aside |-> FALSE, before |-> bin]]
    /\ together' = (together \/ \E v \in Updaters : Running(v))
    /\ UNCHANGED <<bin, old, place, release, crashes>>

\* checksum_for and download_verified: the release lists a digest for the
\* archive, and what arrives has it.
ChecksumFor == release.checksums
DownloadVerified == release.intact

\* Archives::fetch: nothing is touched before the archive is verified.
FetchArchive(u) ==
    /\ update[u].at = "fetch"
    /\ \/ ChecksumFor /\ DownloadVerified /\ update' = [update EXCEPT ![u].at = "stage"]
       \/ update' = [update EXCEPT ![u].at = "failed"]
    /\ UNCHANGED <<bin, old, place, release, crashes, together>>

Now(u) == Head(update[u].todo)
StepTo(u, at) == update' = [update EXCEPT ![u].at = at]

\* verify_staged: the binary runs here and reports the release's version, or not.
VerifyStaged(u, next) == StepTo(u, next) \/ StepTo(u, "rollback")

\* extract_binary, in a staging directory of the process's own, then the test.
StageBinary(u) ==
    /\ update[u].at = "stage"
    /\ VerifyStaged(u, "aside")
    /\ UNCHANGED <<bin, old, place, release, crashes, together>>

\* A plausible slip: an earlier backup is kept for the one to be made.
MoveAsideKeeping(u) ==
    /\ update[u].at = "aside"
    /\ IF bin[Now(u)] = Absent
       THEN StepTo(u, "in") /\ UNCHANGED <<bin, old>>
       ELSE /\ old' = IF old[Now(u)] = Absent THEN [old EXCEPT ![Now(u)] = bin[Now(u)]] ELSE old
            /\ bin' = [bin EXCEPT ![Now(u)] = Absent]
            /\ update' = [update EXCEPT ![u].at = "in", ![u].aside = TRUE]
    /\ UNCHANGED <<place, release, crashes, together>>

\* install_staged: an earlier backup is removed, the binary moved aside ...
MoveAside(u) ==
    /\ update[u].at = "aside"
    /\ IF bin[Now(u)] = Absent
       THEN StepTo(u, "in") /\ UNCHANGED <<bin, old>>
       ELSE \/ /\ old' = [old EXCEPT ![Now(u)] = bin[Now(u)]]
               /\ bin' = [bin EXCEPT ![Now(u)] = Absent]
               /\ update' = [update EXCEPT ![u].at = "in", ![u].aside = TRUE]
            \/ StepTo(u, "rollback") /\ UNCHANGED <<bin, old>>
    /\ UNCHANGED <<place, release, crashes, together>>

\* restore: the backup is renamed back, and without one the target is removed.
Restored(b, o, c, backup) ==
    IF backup THEN IF o[c] = Absent THEN b ELSE [b EXCEPT ![c] = o[c]]
    ELSE [b EXCEPT ![c] = Absent]
UsedUp(o, c, backup) == IF backup THEN [o EXCEPT ![c] = Absent] ELSE o

\* ... and the staged one moved in.  When that fails this one is restored here
\* and the ones before it by the rollback.
MoveIn(u) ==
    /\ update[u].at = "in"
    /\ LET backup == update[u].aside
           c == Now(u)
       IN  \/ /\ bin' = [bin EXCEPT ![c] = Latest]
              /\ update' = [update EXCEPT
                    ![u].applied = Append(@, [cli |-> c, backup |-> backup]),
                    ![u].todo = Tail(@),
                    ![u].at = IF Len(update[u].todo) = 1 THEN "commit" ELSE "stage",
                    ![u].aside = FALSE]
              /\ UNCHANGED old
           \/ /\ bin' = Restored(bin, old, c, backup)
              /\ old' = UsedUp(old, c, backup)
              /\ update' = [update EXCEPT ![u].at = IF backup /\ old[c] = Absent
                                                    THEN "unrestored" ELSE "rollback"]
    /\ UNCHANGED <<place, release, crashes, together>>

\* cargo_install: a copy of the binary is kept, ...
Preserve(u) ==
    /\ update[u].at = "cargo"
    /\ LET backup == bin[Now(u)] # Absent
       IN  IF ~CargoRoot THEN StepTo(u, "rollback") /\ UNCHANGED old ELSE
           /\ old' = IF backup THEN [old EXCEPT ![Now(u)] = bin[Now(u)]] ELSE old
           /\ update' = [update EXCEPT ![u].at = "building",
                    ![u].applied = Append(@, [cli |-> Now(u), backup |-> backup])]
    /\ UNCHANGED <<bin, place, release, crashes, together>>

\* ... and Cargo installs the package: both binaries, since both are in it.
\* The one asked for is then run, which may still take the update back.
Installs(cli) == Clis

CargoInstall(u) ==
    /\ update[u].at = "building"
    /\ \/ StepTo(u, "rollback") /\ UNCHANGED bin
       \/ /\ bin' = [c \in Clis |-> IF c \in Installs(Now(u)) THEN Latest ELSE bin[c]]
          /\ \/ StepTo(u, "rollback")
             \/ update' = [update EXCEPT ![u].todo = Tail(@),
                                         ![u].at = IF Len(update[u].todo) = 1 THEN "commit" ELSE "cargo"]
    /\ UNCHANGED <<old, place, release, crashes, together>>

\* roll_back: the applied ones in reverse, one rename each.
RollBack(u) ==
    /\ update[u].at \in {"rollback", "unrestored"}
    /\ LET applied == update[u].applied
           last == applied[Len(applied)]
           lost == last.backup /\ old[last.cli] = Absent
       IN  IF applied = <<>>
           THEN /\ StepTo(u, IF update[u].at = "rollback" THEN "failed" ELSE "stuck")
                /\ UNCHANGED <<bin, old>>
           ELSE /\ bin' = Restored(bin, old, last.cli, last.backup)
                /\ old' = UsedUp(old, last.cli, last.backup)
                /\ update' = [update EXCEPT
                        ![u].applied = SubSeq(applied, 1, Len(applied) - 1),
                        ![u].at = IF lost THEN "unrestored" ELSE @]
    /\ UNCHANGED <<place, release, crashes, together>>

\* commit: the backups are removed, or left when they are in use.
CommitUpdate(u) ==
    /\ update[u].at = "commit"
    /\ LET backups == {a.cli : a \in {update[u].applied[k] : k \in DOMAIN update[u].applied}}
       IN  \E kept \in SUBSET backups :
              old' = [c \in Clis |-> IF c \in backups \ kept THEN Absent ELSE old[c]]
    /\ StepTo(u, "done")
    /\ UNCHANGED <<bin, place, release, crashes, together>>

Kill(u) ==
    /\ Running(u) /\ crashes < MaxCrashes
    /\ crashes' = crashes + 1
    /\ StepTo(u, "killed")
    /\ together' = TRUE
    /\ UNCHANGED <<bin, old, place, release>>

SelfUpdateNext ==
    \E u \in Updaters :
        \/ \E invoker \in Clis, force, check \in BOOLEAN : Start(u, invoker, force, check)
        \/ FetchArchive(u) \/ StageBinary(u) \/ MoveAside(u) \/ MoveIn(u)
        \/ Preserve(u) \/ CargoInstall(u)
        \/ RollBack(u) \/ CommitUpdate(u) \/ Kill(u)

SelfUpdateSpec == SelfUpdateInit /\ [][SelfUpdateNext]_updateVars

UpdateTypeOK ==
    /\ bin \in [Clis -> 0..Latest]
    /\ old \in [Clis -> 0..Latest]
    /\ crashes \in 0..MaxCrashes

Ends(u, at) == update[u].at # at /\ update'[u].at = at

\* What run prints after a rollback in which every restore succeeded: every
\* installed binary is as it was.
RolledBackIsAsItWas ==
    [][\A u \in Updaters : Ends(u, "failed") /\ ~together =>
          \A c \in Clis : update[u].before[c] # Absent => bin'[c] = update[u].before[c]]_updateVars

\* An update on its own leaves every installed binary at the release's version
\* when it says so; taken back from archives it leaves them as they were, and
\* it never ends unable to restore one.
UpdateStepIsWhole ==
    \A u \in Updaters : ~together =>
        /\ Ends(u, "done") =>
              \A c \in Clis : update[u] # NotStarted /\ update[u].before[c] # Absent => bin'[c] = Latest
        /\ Ends(u, "failed") /\ release.archive => bin' = update[u].before
        /\ ~Ends(u, "stuck")
=============================================================================

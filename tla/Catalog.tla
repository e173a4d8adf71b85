------------------------------- MODULE Catalog ------------------------------
(***************************************************************************)
(* The models a profile has: the catalog file, the names models answer to, *)
(* and the way a model gets in (crates/lightweight-catalog/src store.rs,   *)
(* install.rs, record.rs, alias.rs; gateway manager.rs; cli models.rs).    *)
(*                                                                         *)
(* A gateway opens the catalog once, changes its copy and rewrites the     *)
(* whole file; a command does the same in a process of its own, and only   *)
(* the alias command asks first whether a gateway serves the profile.  A   *)
(* download leaves the catalog's lock, so names and files may change while *)
(* it runs.                                                                *)
(*                                                                         *)
(* A name is a stem, the -n suffix free_id adds (1 for none) and whether   *)
(* it is written in capitals.  A model file's content is a version number, *)
(* its own digest; version 0 is not a GGUF file and Torn is part of one.   *)
(***************************************************************************)
EXTENDS Integers, FiniteSets, TLC

CONSTANTS
    Gateway,      \* the process that serves
    Commands,     \* the processes that run one command each
    Stems,        \* what files are called; "default" is reserved as a name
    Pinned,       \* the stems the manifest pins, at version 1
    Versions,     \* what a link may serve
    Typed,        \* the names operators type as aliases
    MaxOps,       \* bound on the operations begun
    MaxFaults     \* bound on the crashes and the failed saves and copies

VARIABLES
    catalogFile,  \* the catalog on disk: the record of each id in it
    models,       \* models_dir: the content of each stem's file
    staged,       \* downloads_dir: the same
    store,        \* the catalog each running process holds
    alive,        \* the processes running
    op,           \* what each process is in the middle of
    opsLeft,
    faultsLeft,
    disturbed     \* history: a fault, or two processes at once, so far

catalogVars == <<catalogFile, models, staged, store, alive, op, opsLeft,
                 faultsLeft, disturbed>>

Procs == {Gateway} \cup Commands
NoContent == -1
Torn == -2
Idle == [at |-> "idle"]
NoAlias == [stem |-> "", n |-> 0, caps |-> FALSE]

IdOf(stem) == [stem |-> stem, n |-> 1, caps |-> FALSE]

\* lookup_key folds the case.
SameName(a, b) == a.stem = b.stem /\ a.n = b.n
IsReserved(name) == name.stem = "default" /\ name.n = 1

\* validate_alias: a malformed name is refused just as a reserved one is.
ValidAlias(name) == ~IsReserved(name)

ByAlias(c, name) == {i \in DOMAIN c : c[i].alias # NoAlias /\ SameName(c[i].alias, name)}

\* resolve: an alias before an id, and a reserved name never.
Resolve(c, name) ==
    IF IsReserved(name) THEN {}
    ELSE IF ByAlias(c, name) # {} THEN ByAlias(c, name)
    ELSE {i \in DOMAIN c : i = name}

CheckAlias(c, name, forId) ==
    /\ ValidAlias(name)
    /\ \A i \in DOMAIN c : ~SameName(i, name)
    /\ ByAlias(c, name) \subseteq forId

EnsureIdUnaliased(c, id) == ByAlias(c, id) \subseteq {id}

IsTaken(c, name) == ByAlias(c, name) # {} \/ \E i \in DOMAIN c : SameName(i, name)

\* free_id: the name itself, or the first free number after it.
FreeId(c, base) ==
    LET Numbered(k) == [base EXCEPT !.n = k]
        Free == {k \in 1..(Cardinality(DOMAIN c) * 2 + 2) : ~IsTaken(c, Numbered(k))}
    IN  Numbered(CHOOSE k \in Free : \A j \in Free : k <= j)

ByDigest(c, sha) == {i \in DOMAIN c : c[i].sha = sha}

Verified(r) == r.integrity \in {"manifest", "published", "supplied"}
IsOursToDelete(r) == r.integrity # "imported"
IsPresent(r) == r.integrity = "imported" \/ models[r.stem] # NoContent

WithRecord(c, id, r) == (id :> r) @@ c
Aliased(c, id, alias) == [c EXCEPT ![id].alias = alias]
Without(c, id) == [i \in DOMAIN c \ {id} |-> c[i]]

NewRecord(stem, sha, integrity) ==
    [stem |-> stem, sha |-> sha, integrity |-> integrity, alias |-> NoAlias, loaded |-> FALSE]

\* A new profile, or one with a model an earlier run imported, perhaps as the
\* second of its name, or installed.
CatalogInit ==
    /\ \E s \in Stems, v \in Versions :
        \/ /\ catalogFile = <<>>
           /\ models = [t \in Stems |-> NoContent]
        \/ /\ \E n \in {1, 2} : catalogFile = ([IdOf(s) EXCEPT !.n = n] :> NewRecord(s, v, "imported"))
           /\ models = [t \in Stems |-> NoContent]
        \/ /\ catalogFile = (IdOf(s) :> NewRecord(s, v, "published"))
           /\ models = [t \in Stems |-> IF t = s THEN v ELSE NoContent]
    /\ staged = [s \in Stems |-> NoContent]
    /\ store = [p \in Procs |-> <<>>]
    /\ alive = {}
    /\ op = [p \in Procs |-> Idle]
    /\ opsLeft = MaxOps /\ faultsLeft = MaxFaults
    /\ disturbed = FALSE

\* A process starts by reading the file whole.
Open(p) ==
    /\ p \notin alive
    /\ p \in Commands => opsLeft > 0
    /\ alive' = alive \cup {p}
    /\ store' = [store EXCEPT ![p] = catalogFile]
    /\ disturbed' = (disturbed \/ alive # {})
    /\ UNCHANGED <<catalogFile, models, staged, op, opsLeft, faultsLeft>>

\* A command runs once; a gateway goes on serving.
Stays(p) == IF p = Gateway THEN alive ELSE alive \ {p}

\* The end of an operation: the process keeps c as its catalog and saves it.
\* A save that fails reports it and leaves the file alone; what memory holds
\* then is the operation's to say.
SaveAs(p, c, onFailure) ==
    \/ /\ catalogFile' = c
       /\ store' = [store EXCEPT ![p] = c]
       /\ UNCHANGED <<faultsLeft, disturbed>>
    \/ /\ faultsLeft > 0 /\ faultsLeft' = faultsLeft - 1
       /\ store' = [store EXCEPT ![p] = onFailure]
       /\ disturbed' = TRUE
       /\ UNCHANGED catalogFile

\* What follows an added model: it is named, when a name came with the request.
Naming(id, alias) == [at |-> "naming", id |-> id, alias |-> alias]

Begin(p) == p \in alive /\ op[p] = Idle /\ opsLeft > 0 /\ opsLeft' = opsLeft - 1

Refuse(p) ==
    /\ op' = [op EXCEPT ![p] = Idle]
    /\ alive' = Stays(p)
    /\ UNCHANGED <<catalogFile, models, staged, store, faultsLeft, disturbed>>

\* What the user asks for: a pinned model, or a link with the digest they
\* supply and the one the host's API publishes for it, if any.
Requests ==
    [from : {"pinned"}, stem : Stems, supplied : {NoContent}, published : {NoContent}]
    \cup [from : {"link"}, stem : Stems, supplied : Versions, published : {NoContent}]
    \cup [from : {"link"}, stem : Stems, supplied : {NoContent}, published : Versions \cup {NoContent}]

\* published_digest is asked only of a link that comes without a digest.
PublishedDigest(request) ==
    IF request.supplied = NoContent THEN request.published ELSE NoContent

Plan(request) ==
    LET published == PublishedDigest(request)
    IN  [stem |-> request.stem,
         expected |-> IF request.from = "pinned" THEN 1
                      ELSE IF request.supplied # NoContent THEN request.supplied
                      ELSE published,
         integrity |-> IF request.from = "pinned" THEN "manifest"
                       ELSE IF request.supplied # NoContent THEN "supplied"
                       ELSE IF published # NoContent THEN "published"
                       ELSE "recorded"]

\* A digest that is known, the record's, and the file still there.
AlreadyInstalled(c, plan) ==
    LET id == IdOf(plan.stem)
    IN  /\ plan.expected # NoContent /\ id \in DOMAIN c
        /\ IsPresent(c[id]) /\ c[id].sha = plan.expected

\* check_new_alias, plan, and what install_phases asks under the lock before
\* the transfer.  An unpinned id is refused.
PlanInstall(p, request, alias) ==
    /\ Begin(p)
    /\ LET c == store[p]
           plan == Plan(request)
       IN  IF \/ alias # NoAlias /\ ~CheckAlias(c, alias, {})
              \/ request.from = "pinned" /\ request.stem \notin Pinned
              \/ ~EnsureIdUnaliased(c, IdOf(plan.stem))
           THEN Refuse(p)
           ELSE /\ op' = [op EXCEPT ![p] =
                        IF AlreadyInstalled(c, plan) THEN Naming(IdOf(plan.stem), alias)
                        ELSE [at |-> "fetching", stem |-> plan.stem, alias |-> alias,
                              integrity |-> plan.integrity, expected |-> plan.expected]]
                /\ UNCHANGED <<catalogFile, models, staged, store, alive, faultsLeft, disturbed>>

\* The transfer: Download.tla has its steps.  What arrives has the expected
\* digest or is not staged; a cancelled or failed transfer ends the operation.
Fetch(p) ==
    /\ op[p].at = "fetching"
    /\ \/ Refuse(p)
       \/ \E v \in Versions \cup {0} :
             /\ op[p].expected \in {NoContent, v}
             /\ staged' = [staged EXCEPT ![op[p].stem] = v]
             /\ op' = [op EXCEPT ![p] = [stem |-> @.stem, alias |-> @.alias, integrity |-> @.integrity,
                                              at |-> "fetched", sha |-> v]]
             /\ UNCHANGED <<catalogFile, models, store, alive, faultsLeft, disturbed>>
    /\ UNCHANGED opsLeft

\* read_header looks at whatever is staged by now, and move_into_place renames
\* it, or starts a copy when the directories are on two devices.
MoveIntoPlace(p) ==
    /\ op[p].at = "fetched"
    /\ LET stem == op[p].stem
           there == staged[stem]
       IN  \/ there = NoContent /\ Refuse(p)
           \/ /\ there = 0
              /\ staged' = [staged EXCEPT ![stem] = NoContent]
              /\ op' = [op EXCEPT ![p] = Idle]
              /\ alive' = Stays(p)
              /\ UNCHANGED <<catalogFile, models, store, faultsLeft, disturbed>>
           \/ /\ there > 0
              /\ models' = [models EXCEPT ![stem] = there]
              /\ staged' = [staged EXCEPT ![stem] = NoContent]
              /\ op' = [op EXCEPT ![p].at = "moved"]
              /\ UNCHANGED <<catalogFile, store, alive, faultsLeft, disturbed>>
           \/ /\ there > 0
              /\ models' = [models EXCEPT ![stem] = Torn]
              /\ op' = [op EXCEPT ![p] = [at |-> "copying", from |-> there, stem |-> stem,
                                          sha |-> @.sha, integrity |-> @.integrity, alias |-> @.alias]]
              /\ UNCHANGED <<catalogFile, staged, store, alive, faultsLeft, disturbed>>
    /\ UNCHANGED opsLeft

\* The copy of what it opened ends, or fails with part of the file in place.
FinishCopy(p) ==
    /\ op[p].at = "copying"
    /\ \/ /\ models' = [models EXCEPT ![op[p].stem] = op[p].from]
          /\ staged' = [staged EXCEPT ![op[p].stem] = NoContent]
          /\ op' = [op EXCEPT ![p].at = "moved"]
          /\ UNCHANGED <<alive, faultsLeft, disturbed>>
       \/ /\ faultsLeft > 0 /\ faultsLeft' = faultsLeft - 1
          /\ disturbed' = TRUE
          /\ op' = [op EXCEPT ![p] = Idle]
          /\ alive' = Stays(p)
          /\ UNCHANGED <<models, staged>>
    /\ UNCHANGED <<catalogFile, store, opsLeft>>

\* A plausible slip: the id was asked about before the transfer.
CommitTrusting(p) ==
    /\ op[p].at = "moved"
    /\ LET c == store[p]
           id == IdOf(op[p].stem)
           r == NewRecord(op[p].stem, op[p].sha, op[p].integrity)
       IN  SaveAs(p, WithRecord(c, id, r), WithRecord(c, id, r))
    /\ op' = [op EXCEPT ![p] = Idle]
    /\ alive' = Stays(p)
    /\ UNCHANGED <<models, staged, opsLeft>>

\* commit of a download: the id is asked about again, the alias survives the
\* new record, and a failed save leaves memory ahead of the file.
CommitInstall(p) ==
    /\ op[p].at = "moved"
    /\ LET c == store[p]
           id == IdOf(op[p].stem)
           kept == IF id \in DOMAIN c THEN c[id].alias ELSE NoAlias
           r == [NewRecord(op[p].stem, op[p].sha, op[p].integrity) EXCEPT !.alias = kept]
       IN  IF EnsureIdUnaliased(c, id)
           THEN /\ SaveAs(p, WithRecord(c, id, r), WithRecord(c, id, r))
                /\ op' = [op EXCEPT ![p] = IF faultsLeft' = faultsLeft THEN Naming(id, op[p].alias) ELSE Idle]
                /\ alive' = IF faultsLeft' = faultsLeft THEN alive ELSE Stays(p)
                /\ UNCHANGED <<models, staged>>
           ELSE Refuse(p)
    /\ UNCHANGED opsLeft

\* name_added: the alias is asked about again, since others may have taken it
\* while the model came in.  A command that fails to save just ends.
NameAdded(p) ==
    /\ op[p].at = "naming"
    /\ LET c == store[p]
           id == op[p].id
           alias == op[p].alias
       IN  IF alias # NoAlias /\ id \in DOMAIN c /\ CheckAlias(c, alias, {id})
           THEN SaveAs(p, Aliased(c, id, alias), c)
           ELSE UNCHANGED <<catalogFile, store, faultsLeft, disturbed>>
    /\ op' = [op EXCEPT ![p] = Idle]
    /\ alive' = Stays(p)
    /\ UNCHANGED <<models, staged, opsLeft>>

\* import: the file is scanned where it is, outside the lock.
ScanLocal(p, stem, sha) ==
    /\ Begin(p)
    /\ op' = [op EXCEPT ![p] = [at |-> "scanned", stem |-> stem, sha |-> sha]]
    /\ UNCHANGED <<catalogFile, models, staged, store, alive, faultsLeft, disturbed>>

\* commit of an import: a digest already there is that model, and the id is
\* the first free one.
CommitImport(p) ==
    /\ op[p].at = "scanned"
    /\ LET c == store[p]
           id == FreeId(c, IdOf(op[p].stem))
           r == NewRecord(op[p].stem, op[p].sha, "imported")
       IN  IF ByDigest(c, op[p].sha) = {}
           THEN /\ SaveAs(p, WithRecord(c, id, r), WithRecord(c, id, r))
                /\ op' = [op EXCEPT ![p] = Idle]
                /\ alive' = Stays(p)
                /\ UNCHANGED <<models, staged>>
           ELSE Refuse(p)
    /\ UNCHANGED opsLeft

\* set_alias of the manager takes the lock alone, so it may fall inside an
\* install; a save that fails puts the old alias back.
AliasIn(p, name, alias) ==
    LET c == store[p]
        found == Resolve(c, name)
        id == CHOOSE i \in found : TRUE
    IN  IF found # {} /\ (alias = NoAlias \/ CheckAlias(c, alias, {id}))
        THEN SaveAs(p, Aliased(c, id, alias), c)
        ELSE UNCHANGED <<catalogFile, store, faultsLeft, disturbed>>

SetAlias(name, alias) ==
    /\ Gateway \in alive /\ opsLeft > 0 /\ opsLeft' = opsLeft - 1
    /\ AliasIn(Gateway, name, alias)
    /\ UNCHANGED <<models, staged, alive, op>>

\* local_gateway: nobody answers on the port, or a gateway says it has this
\* profile, or it cannot be told and the command gives up.
LocalGateway(p, answer) ==
    /\ answer = "absent" => Gateway \notin alive
    /\ answer # "absent" => Gateway \in alive

AliasCommand(p, name, alias, answer) ==
    /\ p \in Commands /\ Begin(p)
    /\ LocalGateway(p, answer)
    /\ IF answer = "unsure" THEN Refuse(p)
       ELSE /\ op' = [op EXCEPT ![p] = [at |-> IF answer = "ours" THEN "through" ELSE "direct",
                                        name |-> name, alias |-> alias]]
            /\ UNCHANGED <<catalogFile, models, staged, store, alive, faultsLeft, disturbed>>

\* alias_through_gateway: the gateway makes the change, or has gone.
AliasThroughGateway(p) ==
    /\ op[p].at = "through"
    /\ IF Gateway \in alive THEN AliasIn(Gateway, op[p].name, op[p].alias)
       ELSE UNCHANGED <<catalogFile, store, faultsLeft, disturbed>>
    /\ op' = [op EXCEPT ![p] = Idle]
    /\ alive' = alive \ {p}
    /\ UNCHANGED <<models, staged, opsLeft>>

\* alias: with the catalog the command read when it started.
AliasDirectly(p) ==
    /\ op[p].at = "direct"
    /\ AliasIn(p, op[p].name, op[p].alias)
    /\ op' = [op EXCEPT ![p] = Idle]
    /\ alive' = alive \ {p}
    /\ UNCHANGED <<models, staged, opsLeft>>

\* remove: refused for the resident model, the record first and then the file,
\* if it is ours and was asked for.
Remove(p, name, deleteFile, resident) ==
    /\ p \in alive /\ opsLeft > 0 /\ opsLeft' = opsLeft - 1
    /\ p \in Commands => op[p] = Idle /\ ~resident
    /\ LET c == store[p]
           found == Resolve(c, name)
           id == CHOOSE i \in found : TRUE
       IN  IF found # {} /\ ~resident
           THEN /\ SaveAs(p, Without(c, id), Without(c, id))
                /\ models' = IF deleteFile /\ IsOursToDelete(c[id]) /\ catalogFile' = Without(c, id)
                             THEN [models EXCEPT ![c[id].stem] = NoContent] ELSE models
           ELSE UNCHANGED <<catalogFile, store, models, faultsLeft, disturbed>>
    /\ alive' = Stays(p)
    /\ UNCHANGED <<staged, op>>

\* mark_loaded: a load writes the whole catalog back, its failure ignored.
MarkLoaded(id) ==
    /\ Gateway \in alive /\ id \in DOMAIN store[Gateway]
    /\ ~store[Gateway][id].loaded
    /\ LET c == [store[Gateway] EXCEPT ![id].loaded = TRUE] IN SaveAs(Gateway, c, c)
    /\ UNCHANGED <<models, staged, alive, op, opsLeft>>

\* A process dies, or the gateway is stopped: a stop disturbs nothing unless
\* an installation is past the move.
Die(p) ==
    /\ p \in alive /\ faultsLeft > 0
    /\ faultsLeft' = faultsLeft - 1
    /\ alive' = alive \ {p}
    /\ op' = [op EXCEPT ![p] = Idle]
    /\ disturbed' = (disturbed \/ op[p].at \in {"copying", "moved"})
    /\ UNCHANGED <<catalogFile, models, staged, store, opsLeft>>

CatalogNext ==
    \/ \E p \in Procs :
        \/ Open(p)
        \/ Fetch(p)
        \/ MoveIntoPlace(p)
        \/ FinishCopy(p)
        \/ CommitInstall(p)
        \/ CommitImport(p)
        \/ Die(p)
        \/ NameAdded(p) \/ AliasThroughGateway(p) \/ AliasDirectly(p)
        \/ \E r \in Requests, alias \in Typed \cup {NoAlias} : PlanInstall(p, r, alias)
        \/ \E s \in Stems, v \in Versions : ScanLocal(p, s, v)
        \/ \E name \in DOMAIN store[p], alias \in Typed \cup {NoAlias}, answer \in {"absent", "ours", "unsure"} :
              AliasCommand(p, name, alias, answer)
        \/ \E name \in DOMAIN store[p], deleteFile, resident \in BOOLEAN : Remove(p, name, deleteFile, resident)
    \/ \E id \in DOMAIN store[Gateway] :
        MarkLoaded(id) \/ \E alias \in Typed \cup {NoAlias} : SetAlias(id, alias)

CatalogSpec == CatalogInit /\ [][CatalogNext]_catalogVars

CatalogTypeOK ==
    /\ models \in [Stems -> Versions \cup {NoContent, Torn}]
    /\ staged \in [Stems -> Versions \cup {0, NoContent}]
    /\ alive \subseteq Procs
    /\ \A p \in Procs : op[p].at \in {"idle", "fetching", "fetched", "copying", "moved", "scanned",
                                  "naming", "through", "direct"}

\* No name, however it is capitalised, belongs to two models in any catalog
\* held or saved, and every model answers to the name it is shown under,
\* whatever was renamed while its download ran (one called "default" cannot:
\* resolve takes the word for the resident model).
OneNameOneModel ==
    \A c \in {store[p] : p \in alive} \cup {catalogFile} : \A i \in DOMAIN c :
        LET shown == IF c[i].alias = NoAlias THEN i ELSE c[i].alias
        IN  IsReserved(shown) \/ Resolve(c, shown) = {i}

\* A record that says its digest was verified has that file beside it, or none,
\* once the operation on the file is over: unless a crash, a failed save or a
\* failed copy fell between the move and the commit, or two processes worked
\* on the profile at once.
VerifiedIsOnDisk ==
    disturbed \/ \A i \in DOMAIN catalogFile :
        LET r == catalogFile[i]
        IN  (Verified(r) /\ \A p \in alive : op[p].at \in {"copying", "moved"} => op[p].stem # r.stem)
            => models[r.stem] \in {r.sha, NoContent}

\* Undisturbed, the file says what the process holds: a restart forgets no
\* answer.
SavedIsHeld ==
    disturbed \/ \A p \in alive : store[p] = catalogFile
=============================================================================

------------------------------- MODULE Startup -------------------------------
(***************************************************************************)
(* How a gateway starts, and how a fleet of them is launched               *)
(* (crates/lightweight-cli/src/serve.rs and fleet.rs; AuthPolicy::build of *)
(* crates/lightweight-gateway/src/auth.rs).  A start is a function of the  *)
(* options o it was given and of the world w it meets: the profile's files *)
(* and keys, the names that resolve, the addresses this machine holds, the *)
(* sockets others have taken, the engine.  The result says where it        *)
(* stopped (err) and what it had done by then.                             *)
(*                                                                         *)
(* A host is a string: "" after trimming, an address, or a name.  A socket *)
(* address is [ip, port].  An option is <<>> or <<x>>; a port is <<>> for  *)
(* "auto".  What a model costs and how many slots it gets is Admission.    *)
(***************************************************************************)
EXTENDS Integers, Sequences, SequencesExt, FiniteSets

DEFAULT_PORT == 11434
MaxU16 == 65535
Literals == {"127.0.0.1", "::1", "0.0.0.0", "10.0.0.2"}
Local(ip) == ip \in {"127.0.0.1", "127.0.1.1", "::1"}
Exposed(addresses) == \E i \in DOMAIN addresses : ~Local(addresses[i].ip)

-----------------------------------------------------------------------------
(* The flags.  A typed value is [form, n]: "auto", a number, or neither.   *)
Parsed(ok, value) == [ok |-> ok, value |-> value]
ParsePort(typed) ==
    CASE typed.form = "auto" -> Parsed(TRUE, <<>>)
      [] typed.form = "number" /\ typed.n = 0 -> Parsed(TRUE, <<>>)
      [] typed.form = "number" /\ typed.n \in 1..MaxU16 -> Parsed(TRUE, <<typed.n>>)
      [] OTHER -> Parsed(FALSE, <<>>)
ParseConcurrency(typed) ==
    CASE typed.form = "auto" -> Parsed(TRUE, <<>>)
      [] typed.form = "number" /\ typed.n > 0 -> Parsed(TRUE, <<typed.n>>)
      [] OTHER -> Parsed(FALSE, <<>>)
ForBind(port) == IF port = <<>> THEN 0 ELSE port[1]

\* What is given when nothing is typed.
ServeOptions ==
    [model |-> <<>>, hosts |-> <<"127.0.0.1">>, hosts_explicit |-> FALSE,
     port |-> [form |-> "number", n |-> DEFAULT_PORT], port_explicit |-> FALSE,
     api_key |-> <<>>, behind_proxy |-> FALSE, concurrency |-> [form |-> "auto", n |-> 0],
     kv_type |-> "f16"]

\* A typed flag wins, then the profile's file speaks, then the default.
EffectiveHosts(o, config) ==
    IF o.hosts_explicit \/ config.hosts = <<>> THEN o.hosts ELSE config.hosts
EffectivePort(o, config) ==
    IF o.port_explicit \/ config.port = <<>> THEN ParsePort(o.port).value ELSE config.port

-----------------------------------------------------------------------------
(* The addresses. *)
ResolvedHost(host, port, w) ==
    LET ips == IF host \in Literals THEN <<host>> ELSE w.names[host]
    IN  [requested |-> host, was_literal |-> host \in Literals,
         addresses |-> [i \in DOMAIN ips |-> [ip |-> ips[i], port |-> port]]]
WasMeantToReachElsewhere(host) == ~host.was_literal /\ host.requested # "localhost"
IsLoopbackOnly(host) == ~Exposed(host.addresses)

\* A name that does not resolve has no addresses: both are refused.
ResolveEach(hosts, port, w) ==
    LET typed == IF hosts = <<>> THEN <<"127.0.0.1">> ELSE SelectSeq(hosts, LAMBDA h : h # "")
        found == [i \in DOMAIN typed |-> ResolvedHost(typed[i], port, w)]
    IN  Parsed(found # <<>> /\ \A i \in DOMAIN found : found[i].addresses # <<>>, found)

BindAddresses(resolved) ==
    FoldLeft(LAMBDA seen, a : IF a \in ToSet(seen) THEN seen ELSE Append(seen, a), <<>>,
             FlattenSeq([i \in DOMAIN resolved |-> resolved[i].addresses]))

UnreachableBindAdvice(resolved) ==
    /\ \A i \in DOMAIN resolved : IsLoopbackOnly(resolved[i])
    /\ \E i \in DOMAIN resolved : WasMeantToReachElsewhere(resolved[i])

\* The kernel's answer to a bind: an address this machine does not hold, or one
\* that is taken (by others, or by a listener this gateway has) is refused.
Overlap(a, b) == a.port = b.port /\ (a.ip = b.ip \/ "0.0.0.0" \in {a.ip, b.ip})
Bind(target, bound, w) ==
    CASE target.ip \notin w.held -> "not_available"
      [] target.port # 0 /\ \E a \in w.taken \cup ToSet(bound) : Overlap(a, target) -> "in_use"
      [] OTHER -> "none"

\* Port 0 is answered with a port that is free at that address.
KernelPort(target, w) ==
    CHOOSE p \in w.free : \A a \in w.taken : ~Overlap(a, [target EXCEPT !.port = p])

\* The first listener of an automatic port is answered by the kernel, and the
\* others are pinned to what it answered.
BindNext(s, address, port, w) ==
    LET target == IF s.chosen_port = <<>> THEN address ELSE [address EXCEPT !.port = s.chosen_port[1]]
        err    == Bind(target, s.bound, w)
        real   == IF target.port = 0 THEN KernelPort(target, w) ELSE target.port
    IN  IF s.err # "none" THEN s
        ELSE IF err # "none" THEN [s EXCEPT !.err = err]
        ELSE [err |-> "none", bound |-> Append(s.bound, [target EXCEPT !.port = real]),
              chosen_port |-> IF port = <<>> /\ s.chosen_port = <<>> THEN <<real>> ELSE s.chosen_port]
BindAll(addresses, port, w) ==
    FoldLeft(LAMBDA s, a : BindNext(s, a, port, w),
             [err |-> "none", bound |-> <<>>, chosen_port |-> <<>>], addresses)

-----------------------------------------------------------------------------
(* The keys.  A typed key hides the environment's even when it is empty.   *)
ReadKeyFromEnvironment(w) == IF w.env_key \in {"unset", "blank"} THEN <<>> ELSE <<w.env_key>>
StaticKey(o, w) == IF o.api_key # <<>> THEN o.api_key ELSE ReadKeyFromEnvironment(w)

AuthPolicy(kind, static, named) == [kind |-> kind, static_key |-> static, named |-> named]
Build(addresses, static, named) ==
    LET key == SelectSeq(static, LAMBDA k : k # "")
    IN  CASE key # <<>> \/ named # {} -> AuthPolicy("required", key, named)
          [] key = <<>> /\ named = {} /\ Exposed(addresses) -> AuthPolicy("needs_key", <<>>, {})
          [] OTHER -> AuthPolicy("disabled", <<>>, {})
FinalizeAuth(addresses, static, named, behind_proxy) ==
    LET auth == Build(addresses, static, named)
    IN  IF behind_proxy /\ auth.kind = "disabled" THEN AuthPolicy("needs_key", <<>>, {}) ELSE auth

-----------------------------------------------------------------------------
(***************************************************************************)
(* serve: the stages of a start in their order, each with whether it can   *)
(* succeed.  A start stops at the first that cannot.                       *)
(***************************************************************************)
Exposes(o, addresses) == Exposed(addresses) \/ o.behind_proxy
NamedKeys(o, addresses, w) == IF Exposes(o, addresses) THEN w.keys.records ELSE {}

\* What the engine confirmed where one was loaded, else what was resolved.
Permits(loaded, w) ==
    IF ~loaded THEN w.slots ELSE IF w.engine_slots[1] = 0 THEN 1 ELSE w.engine_slots[1]

\* What the hosts, the keys and the kernel come to for this port.
Network(o, w, port) ==
    LET resolved  == ResolveEach(EffectiveHosts(o, w.config), ForBind(port), w)
        addresses == BindAddresses(resolved.value)
    IN  [ok      |-> resolved.ok,
         hosts   |-> resolved.value,
         exposes |-> Exposes(o, addresses),
         auth    |-> FinalizeAuth(addresses, StaticKey(o, w), NamedKeys(o, addresses, w),
                                  o.behind_proxy),
         sockets |-> BindAll(addresses, port, w)]

Stages(o, w, network) ==
    << <<"usage", ParsePort(o.port).ok /\ ParseConcurrency(o.concurrency).ok>>,
       <<"profile", w.profile>>,
       <<"config", w.config.readable>>,
       <<"resolve", network.ok>>,
       <<"keys", network.exposes => w.keys.readable>>,
       <<"auth", network.auth.kind # "needs_key">>,
       <<"bind", network.sockets.err = "none">>,
       <<"backend", w.backend>>,
       <<"kv_type", o.kv_type # "unknown">>,
       <<"concurrency", w.slots > 0>>,
       <<"load", o.model # <<>> => w.engine_slots # <<>> >>,
       <<"catalog", w.catalog>> >>

\* What was done by a start whose stages in failed cannot succeed.
Started(o, w, network, stages, failed) ==
    LET past(n) == \A i \in failed : i > n
        loaded  == o.model # <<>> /\ past(11)
    IN  [err       |-> IF failed = {} THEN "none"
                       ELSE stages[CHOOSE i \in failed : \A j \in failed : i <= j][1],
         bound     |-> IF past(7) THEN network.sockets.bound ELSE <<>>,
         auth      |-> network.auth,
         read      |-> o.model # <<>> /\ past(9),
         loaded    |-> loaded,
         trust_forwarded |-> o.behind_proxy,
         manages_keys    |-> network.exposes,
         permits   |-> Permits(loaded, w),
         advice    |-> failed = {} /\ UnreachableBindAdvice(network.hosts)]

Serve(o, w) ==
    LET network == Network(o, w, EffectivePort(o, w.config))
        stages  == Stages(o, w, network)
    IN  Started(o, w, network, stages, {i \in DOMAIN stages : ~stages[i][2]})

-----------------------------------------------------------------------------
(***************************************************************************)
(* fleet: a manifest is the sequence of its entries [name, path, port,     *)
(* profile].  A profile that is not named is the directory of the entry's  *)
(* name.  The machine f has the model files that exist, the world each     *)
(* profile's gateway would meet, and how many processes it can start.      *)
(***************************************************************************)
MAX_MODELS == 4
Profile(entry) == IF entry.profile = <<>> THEN entry.name ELSE entry.profile[1]

EntryError(models, i) ==
    LET earlier(Same(_)) == \E j \in 1..(i - 1) : Same(models[j])
    IN  CASE earlier(LAMBDA e : e.name = models[i].name) -> "DuplicateName"
          [] models[i].port = 0 -> "AutoPort"
          [] earlier(LAMBDA e : e.port = models[i].port) -> "DuplicatePort"
          [] earlier(LAMBDA e : Profile(e) = Profile(models[i])) -> "DuplicateProfile"
          [] OTHER -> "none"
Resolve(models, files) ==
    LET wrong == {i \in DOMAIN models : EntryError(models, i) # "none"}
    IN  CASE models = <<>> -> "Empty"
          [] Len(models) > MAX_MODELS -> "TooMany"
          [] wrong # {} -> EntryError(models, CHOOSE i \in wrong : \A j \in wrong : i <= j)
          [] \E i \in DOMAIN models : models[i].path \notin files -> "MissingModel"
          [] OTHER -> "none"

HasKey(store) == store.readable /\ store.records # {}
CheckKeys(models, worlds) ==
    IF \A i \in DOMAIN models : HasKey(worlds[Profile(models[i])].keys) THEN "none" ELSE "NoKey"

FleetRun(manifest, f) ==
    LET err == CASE manifest.form # "ok" -> manifest.form
                 [] Resolve(manifest.models, f.files) # "none" -> Resolve(manifest.models, f.files)
                 [] OTHER -> CheckKeys(manifest.models, f.worlds)
    IN  CASE err # "none" -> [err |-> err, launched |-> <<>>]
          [] err = "none" /\ f.processes < Len(manifest.models) ->
               [err |-> "spawn", launched |-> SubSeq(manifest.models, 1, f.processes)]
          [] OTHER -> [err |-> "none", launched |-> manifest.models]

\* What a child is told; its key and its hosts come from its own profile.
ChildOptions(entry) ==
    [ServeOptions EXCEPT !.model = <<entry.path>>, !.port = [form |-> "number", n |-> entry.port],
                         !.port_explicit = TRUE, !.behind_proxy = TRUE]
\* Child i starts on the sockets the others of its fleet have left.
Child(launched, i, f) ==
    LET world(j)  == f.worlds[Profile(launched[j])]
        sockets(j) == Serve(ChildOptions(launched[j]), world(j)).bound
        others    == UNION {ToSet(sockets(j)) : j \in 1..(i - 1)}
    IN  Serve(ChildOptions(launched[i]), [world(i) EXCEPT !.taken = @ \cup others])

-----------------------------------------------------------------------------
(***************************************************************************)
(* A gateway that other machines can reach, by an address or through a     *)
(* proxy, asks for a key it has; one they cannot reach asks for none but   *)
(* the one it was given, whatever its profile's key store holds.           *)
(***************************************************************************)
ReachableIsGuarded(o, w, r) ==
    LET given == \E i \in DOMAIN StaticKey(o, w) : StaticKey(o, w)[i] # ""
    IN  r.err = "none" =>
            /\ r.manages_keys <=> Exposed(r.bound) \/ o.behind_proxy
            /\ r.manages_keys => r.auth.kind = "required" /\ (r.auth.static_key # <<>> \/ r.auth.named # {})
            /\ ~r.manages_keys => r.auth.named = {} /\ (r.auth.kind = "required" <=> given)

(***************************************************************************)
(* All listeners of a gateway are on one real port, the one asked for when *)
(* one was, each on an address of its own that nobody else listens on; and *)
(* whoever named a machine and got only loopback is told.                  *)
(***************************************************************************)
ListensWhereAsked(o, w, r) ==
    LET hosts == ToSet(EffectiveHosts(o, w.config)) \ {""}
        asked == EffectivePort(o, w.config)
    IN  r.err = "none" =>
            /\ r.bound # <<>>
            /\ \A i \in DOMAIN r.bound :
                  /\ r.bound[i].port # 0 /\ r.bound[i].port = r.bound[1].port
                  /\ asked # <<>> => r.bound[i].port = asked[1]
                  /\ \A a \in w.taken : ~Overlap(a, r.bound[i])
                  /\ \A j \in DOMAIN r.bound : i # j => ~Overlap(r.bound[i], r.bound[j])
            /\ \A h \in hosts : \E i \in DOMAIN r.bound :
                  IF h \in Literals THEN r.bound[i].ip = h ELSE r.bound[i].ip \in ToSet(w.names[h])
            /\ r.advice <=> ~Exposed(r.bound) /\ hosts \ (Literals \cup {"localhost"}) # {}

(***************************************************************************)
(* A start that fails for its flags, its network or its keys has not read  *)
(* the model, and one that serves grants as many requests at a time as the *)
(* engine has slots, and at least one.                                     *)
(***************************************************************************)
ModelComesLast(o, w, r) ==
    /\ r.read => r.bound # <<>> /\ r.auth.kind # "needs_key"
    /\ r.err = "none" =>
          /\ r.permits >= 1 /\ r.loaded = (o.model # <<>>)
          /\ r.loaded => r.permits <= (IF w.engine_slots[1] = 0 THEN 1 ELSE w.engine_slots[1])

(***************************************************************************)
(* A fleet launches at most four gateways, each with a name, a port and a  *)
(* profile of its own; none of them is refused for its keys or for another *)
(* one's port, and each asks for a key.  A manifest that is refused starts *)
(* nothing.                                                                *)
(***************************************************************************)
FleetIsIsolated(f, run) ==
    LET undisturbed(i, child, alone) ==
            /\ child.err \notin {"usage", "keys", "auth"} /\ child.err = alone.err
            /\ child.err = "none" => child.auth.kind = "required" /\ child.trust_forwarded
            /\ child.bound # <<>> => \A k \in DOMAIN child.bound :
                  child.bound[k].port = run.launched[i].port
    IN  /\ Len(run.launched) <= MAX_MODELS
        /\ run.err \notin {"none", "spawn"} => run.launched = <<>>
        /\ \A i \in DOMAIN run.launched :
              /\ undisturbed(i, Child(run.launched, i, f),
                             Serve(ChildOptions(run.launched[i]),
                                   f.worlds[Profile(run.launched[i])]))
              /\ \A j \in DOMAIN run.launched : i # j =>
                    /\ run.launched[i].name # run.launched[j].name
                    /\ Profile(run.launched[i]) # Profile(run.launched[j])
=============================================================================

---------------------------- MODULE RouterConfig ----------------------------
(***************************************************************************)
(* The router's configuration file and the validation between it and a     *)
(* running router: lightweight-router/src/config.rs, and the sections that *)
(* auto_route.rs, fallback.rs, classifier/ and scoring/ validate.          *)
(*                                                                         *)
(* A name is a record [word, upper]: two names are the same ignoring case  *)
(* exactly when their words are.  A parsed value that the code refuses for *)
(* its spelling is the word "" (empty) or "!" (a character that is not     *)
(* allowed).  Confidences and weights are integers in units of 1/Unit.     *)
(* Validation collects errors; an error is its kind.                       *)
(***************************************************************************)
EXTENDS Integers, Sequences, SequencesExt, FiniteSets

CONSTANTS Unit,      \* 1.0
          MaxU32     \* the largest u32

N(word) == [word |-> word, upper |-> FALSE]
Some(x) == <<x>>
None == <<>>
IsSome(option) == option # <<>>
Value(option) == option[1]
Errors(condition, kind) == IF condition THEN {kind} ELSE {}

\* What validation can report.
ConfigError ==
    {"NoNodes", "NoRoutes", "BadListen", "BadNodeId", "DuplicateNode", "BadUrl",
     "BadEnvName", "MissingEnv", "BadRouteName", "ReservedRouteName", "DuplicateRoute",
     "EmptyRoute", "UnknownNode", "EmptyModel", "BadModel", "DuplicateDeployment",
     "UnknownDefaultRoute", "BadHealth", "TimeoutExceedsInterval", "BadConnectTimeout",
     "BadPreCommitBudget", "BadSessionHeader", "BadSessionLimit", "BadTraceCapacity",
     "BadPlacementTiming", "BackoffMaxBelowInitial", "BadRoutePlacement",
     "AutoRouteNameTaken", "BadAutoRoute", "BadAutoRule", "BadAutoClassifier",
     "BadAdaptiveScoring", "BadCrossRouteFallback", "BadRouteDescription"}

(***************************************************************************)
(* The names of the domain (domain.rs) and catalog aliases.                *)
(***************************************************************************)
SameName(a, b) == a.word = b.word
IsReserved(name) == name.word = "default"
IsAuto(name) == name.word = "auto"

\* NodeId::parse: the id, or nothing.
ParseNodeId(name) == name.word \notin {"", "!"}

\* RouteName::parse, which is alias::validate_alias.
ParseRouteName(name) ==
    CASE IsReserved(name) -> "Reserved"
      [] name.word \in {"", "!"} -> "Bad"
      [] OTHER -> "Ok"

\* DeploymentId::of: a node id holds no "/", so the pair is the text.
DeploymentId(node, model) == <<node, model>>

\* RoutePlacement::target.
Target(placement) ==
    LET sum == placement.min_ready + placement.warm_standby
    IN  IF sum > MaxU32 THEN MaxU32 ELSE sum

(***************************************************************************)
(* The defaults and limits of the file.                                    *)
(***************************************************************************)
MAX_TTL_SECS == 86400
MAX_SESSION_ENTRIES == 1000000
MAX_TRACE_CAPACITY == 10000
MIN_BUDGET_MS == 1000
MAX_BUDGET_MS == 3600000
MAX_TIMEOUT_MS == 120000
MAX_INPUT_CHARS == 32000
MAX_CANDIDATES == 16
MAX_RULES == 64
MAX_FALLBACK_ROUTES == 3
MIN_HALF_LIFE_SECS == 60
MAX_HALF_LIFE_SECS == 604800
MAX_SAMPLES == 10000
RESERVED_SESSION_HEADERS == {"authorization", "cookie", "x-request-id"}

HealthFile == [interval_secs |-> 5, timeout_secs |-> 3, failure_threshold |-> 2]
RequestFile == [connect_timeout_secs |-> 5, pre_commit_budget_ms |-> None]
SessionAffinityFile ==
    [enabled |-> FALSE, header |-> "x-lightweight-session", idle_ttl_secs |-> 1800,
     max_entries |-> 10000]
TracesFile == [capacity |-> 200]
PlacementFile ==
    [interval_secs |-> 15, load_timeout_secs |-> 600, backoff_secs |-> 30,
     backoff_max_secs |-> 600]
NodeFile == [id |-> N("n"), url |-> "ok", enabled |-> TRUE, api_key_env |-> None]
DeploymentFile == [node |-> N("n"), model |-> N("m")]
RouteFile ==
    [name |-> N("a"), deployments |-> <<DeploymentFile>>, placement |-> None,
     description |-> None]
RoutePlacementFile == [min_ready |-> 1, warm_standby |-> 0, allowed_nodes |-> <<N("n")>>]
RouterFile ==
    [listen |-> <<>>, api_key_env |-> None, default_route |-> None, health |-> HealthFile,
     request |-> RequestFile, session_affinity |-> SessionAffinityFile,
     traces |-> TracesFile, placement |-> PlacementFile, auto_route |-> None,
     nodes |-> <<NodeFile>>, routes |-> <<RouteFile>>]

AutoRouteFile ==
    [enabled |-> TRUE, fallback_route |-> N("a"), rules |-> <<>>, classifier |-> None,
     adaptive_scoring |-> None, cross_route_fallback |-> None]
AutoCondition ==
    [endpoint |-> None, requires_tools |-> None, tool_choice |-> None,
     requires_reasoning |-> None, min_prompt_tokens |-> None, max_prompt_tokens |-> None]
AutoRuleFile ==
    [name |-> N("rule"), when |-> AutoCondition, route |-> None, classify |-> FALSE]
LightweightFile ==
    [route |-> N("c"), timeout_ms |-> Some(1), min_confidence |-> 0, max_input_chars |-> 2000]
JevFile ==
    [base_url |-> "https", api_key_env |-> "SET", model |-> Some("ok"),
     timeout_ms |-> Some(1), min_confidence |-> 0, max_input_chars |-> 2000]
ClassifierFile ==
    [provider |-> "lightweight", routes |-> <<N("a")>>, fallback_route |-> None,
     lightweight |-> Some(LightweightFile), jev |-> None, route |-> None,
     timeout_ms |-> None, min_confidence |-> None, max_input_chars |-> None]
WeightsFile == [classifier |-> Unit, prior |-> 0, history |-> 0]
HistoryFile == [half_life_secs |-> 3600, min_samples |-> 20, shrinkage_samples |-> None]
AdaptiveScoringFile ==
    [enabled |-> TRUE, weights |-> WeightsFile, priors |-> <<>>, history |-> HistoryFile]

(***************************************************************************)
(* Scalars, the environment and the credential store.                      *)
(***************************************************************************)
\* validate_health.
ValidateHealth(raw) ==
    Errors(raw.interval_secs = 0 \/ raw.timeout_secs = 0 \/ raw.failure_threshold = 0,
           "BadHealth")
    \cup Errors(raw.timeout_secs > raw.interval_secs, "TimeoutExceedsInterval")

\* validate_affinity, run whether or not affinity is enabled.
ValidateAffinity(raw) ==
    Errors(raw.header \in {"", "!"} \cup RESERVED_SESSION_HEADERS, "BadSessionHeader")
    \cup Errors(\/ raw.idle_ttl_secs \notin 1..MAX_TTL_SECS
                \/ raw.max_entries \notin 1..MAX_SESSION_ENTRIES, "BadSessionLimit")

\* validate_placement.
ValidatePlacement(raw) ==
    Errors(raw.interval_secs < 1 \/ raw.load_timeout_secs < 1 \/ raw.backoff_secs < 1,
           "BadPlacementTiming")
    \cup Errors(raw.backoff_max_secs < raw.backoff_secs, "BackoffMaxBelowInitial")

\* validate_listen: no address means the loopback default.
ValidateListen(raw) == Errors("bad" \in ToSet(raw), "BadListen")

\* The environment: the variable SET holds a key, BLANK holds spaces and
\* UNSET is not there; the credential store holds a key for KEPT only.
UsableEnvName(var) == var # "1-BAD"
Env(var) == var = "SET"
Stored(var) == var = "KEPT"

\* read_secret.
ReadSecret(var) ==
    Errors(~UsableEnvName(var), "BadEnvName")
    \cup Errors(UsableEnvName(var) /\ ~Env(var), "MissingEnv")

\* validate_url, its outcome by the kind of URL; a base URL of a node may use
\* plain http.
ValidateUrl(url) == url \in {"ok", "https", "http", "http-loopback"}

(***************************************************************************)
(* Nodes.                                                                  *)
(***************************************************************************)
\* validate_nodes: in file order, an entry is kept unless its id or its URL
\* is refused; an id that is taken, ignoring case, is refused even when the
\* entry that took it had a bad URL.
ValidateNodes(raw) ==
    LET visit(state, entry) ==
          IF ~ParseNodeId(entry.id)
          THEN [state EXCEPT !.errors = @ \cup {"BadNodeId"}]
          ELSE IF entry.id.word \in state.seen
          THEN [state EXCEPT !.errors = @ \cup {"DuplicateNode"}]
          ELSE [nodes |-> IF ValidateUrl(entry.url) THEN Append(state.nodes, entry.id)
                          ELSE state.nodes,
                seen |-> state.seen \cup {entry.id.word},
                badUrl |-> IF ValidateUrl(entry.url) THEN state.badUrl
                           ELSE state.badUrl \cup {entry.id},
                errors |-> state.errors \cup Errors(~ValidateUrl(entry.url), "BadUrl")
                           \cup (IF entry.enabled /\ IsSome(entry.api_key_env)
                                 THEN ReadSecret(Value(entry.api_key_env)) ELSE {})]
    IN  FoldLeft(visit, [nodes |-> <<>>, seen |-> {}, badUrl |-> {}, errors |-> {}], raw)

(***************************************************************************)
(* Routes and their deployments.                                           *)
(***************************************************************************)
\* The position of x in a sequence of distinct values.
Position(seq, x) == CHOOSE i \in 1..Len(seq) : seq[i] = x

\* validate_route_placement: the first problem ends it.  The deployments it
\* may load are kept in the route's order.
ValidateRoutePlacement(raw, members) ==
    LET on(node) == {id \in ToSet(members) : SameName(id[1], node)}
        allowed == UNION {on(node) : node \in ToSet(raw.allowed_nodes)}
        named == {node.word : node \in ToSet(raw.allowed_nodes)}
        placement == [min_ready |-> raw.min_ready, warm_standby |-> raw.warm_standby,
                      allowed |-> SelectSeq(members, LAMBDA id : id \in allowed)]
        refused == \/ raw.min_ready = 0
                   \/ raw.allowed_nodes = <<>>
                   \/ Cardinality(named) < Len(raw.allowed_nodes)
                   \/ \E node \in ToSet(raw.allowed_nodes) : on(node) = {}
                   \/ Target(placement) > Len(members)
    IN  [errors |-> Errors(refused, "BadRoutePlacement"),
         placement |-> IF refused THEN None ELSE Some(placement)]

\* validate_description.
ValidateDescription(raw) == Errors(raw # "ok", "BadRouteDescription")

\* The inner loop of validate_routes, over one route's deployments: a pair
\* of node and model that an earlier route named is shared, under the id the
\* first spelling gave it.
Members(entry, nodes, badUrl, known) ==
    LET visit(state, listed) ==
          IF listed.node \notin ToSet(nodes)
          THEN [state EXCEPT
                  !.errors = @ \cup Errors(/\ ParseNodeId(listed.node)
                                           /\ listed.node \notin badUrl, "UnknownNode")]
          ELSE IF listed.model.word = ""
          THEN [state EXCEPT !.errors = @ \cup {"EmptyModel"}]
          ELSE IF listed.model.word = "!"
          THEN [state EXCEPT !.errors = @ \cup {"BadModel"}]
          ELSE LET twins == {id \in ToSet(state.deployments) :
                                id[1] = listed.node /\ SameName(id[2], listed.model)}
                   id == IF twins = {} THEN DeploymentId(listed.node, listed.model)
                         ELSE CHOOSE twin \in twins : TRUE
               IN  [deployments |-> IF twins = {} THEN Append(state.deployments, id)
                                    ELSE state.deployments,
                    members |-> IF id \in ToSet(state.members) THEN state.members
                                ELSE Append(state.members, id),
                    errors |-> state.errors
                               \cup Errors(id \in ToSet(state.members),
                                           "DuplicateDeployment")]
    IN  FoldLeft(visit, [deployments |-> known, members |-> <<>>, errors |-> {}],
                 entry.deployments)

\* validate_routes.
ValidateRoutes(raw, nodes, badUrl) ==
    LET refuse(state, kind) == [state EXCEPT !.errors = @ \cup {kind}]
        kept(state, entry, found, placed) ==
          [routes |-> Append(state.routes,
                             [name |-> entry.name, deployments |-> found.members,
                              placement |-> placed.placement]),
           deployments |-> found.deployments,
           errors |-> state.errors \cup found.errors \cup placed.errors
                      \cup IF IsSome(entry.description)
                           THEN ValidateDescription(Value(entry.description)) ELSE {}]
        placementOf(entry, found) ==
          IF IsSome(entry.placement)
          THEN ValidateRoutePlacement(Value(entry.placement), found.members)
          ELSE [errors |-> {}, placement |-> None]
        added(state, entry, found) == kept(state, entry, found, placementOf(entry, found))
        visit(state, entry) ==
          CASE ParseRouteName(entry.name) = "Reserved" -> refuse(state, "ReservedRouteName")
            [] ParseRouteName(entry.name) = "Bad" -> refuse(state, "BadRouteName")
            [] \E route \in ToSet(state.routes) : SameName(route.name, entry.name) ->
                 refuse(state, "DuplicateRoute")
            [] entry.deployments = <<>> -> refuse(state, "EmptyRoute")
            [] OTHER -> added(state, entry, Members(entry, nodes, badUrl, state.deployments))
    IN  FoldLeft(visit, [routes |-> <<>>, deployments |-> <<>>, errors |-> {}], raw)

\* A name of a configured route as the configuration spells it: target in
\* auto_route.rs, which classifier/mod.rs repeats as configured.
Configured(name, routes) ==
    IF IsAuto(name) \/ IsReserved(name) THEN None
    ELSE LET same == {i \in 1..Len(routes) : SameName(routes[i].name, name)}
         IN  IF same = {} THEN None ELSE Some(routes[CHOOSE i \in same : TRUE].name)

(***************************************************************************)
(* The classifier section.                                                 *)
(***************************************************************************)
\* validate_limits.
ValidateLimits(timeout_ms, min_confidence, max_input_chars) ==
    /\ min_confidence \in 0..Unit
    /\ IsSome(timeout_ms) /\ Value(timeout_ms) \in 1..MAX_TIMEOUT_MS
    /\ max_input_chars \in 1..MAX_INPUT_CHARS

\* lightweight::validate.
ValidateLightweight(raw, routes) ==
    /\ IsSome(Configured(raw.route, routes))
    /\ ValidateLimits(raw.timeout_ms, raw.min_confidence, raw.max_input_chars)

\* jev::validate.  The key of the provider in use must be found; that of the
\* other may be missing.
IsLoopback(url) == url = "http-loopback"
KeySource(var) ==
    IF Env(var) THEN "environment"
    ELSE IF UsableEnvName(var) /\ Stored(var) THEN "credential_store" ELSE "missing"
ValidateJev(raw, active) ==
    LET settings == /\ ValidateUrl(raw.base_url)
                    /\ raw.base_url = "https" \/ IsLoopback(raw.base_url)
                    /\ IsSome(raw.model) /\ Value(raw.model) = "ok"
                    /\ ValidateLimits(raw.timeout_ms, raw.min_confidence,
                                      raw.max_input_chars)
    IN  Errors(~settings, "BadAutoClassifier")
        \cup (IF active /\ KeySource(raw.api_key_env) = "missing"
              THEN ReadSecret(raw.api_key_env) ELSE {})

\* The Lightweight settings, from the block or from the R9.1 shorthand; both
\* at once, or a shorthand without its route, is a problem of its own.
LightweightSettings(raw) ==
    LET shorthand == \/ IsSome(raw.route) \/ IsSome(raw.timeout_ms)
                     \/ IsSome(raw.min_confidence) \/ IsSome(raw.max_input_chars)
        default(option, value) == IF IsSome(option) THEN Value(option) ELSE value
    IN  CASE IsSome(raw.lightweight) /\ shorthand -> [file |-> None, failed |-> TRUE]
          [] IsSome(raw.lightweight) /\ ~shorthand ->
               [file |-> raw.lightweight, failed |-> FALSE]
          [] ~IsSome(raw.lightweight) /\ shorthand ->
               IF IsSome(raw.route)
               THEN [file |-> Some([route |-> Value(raw.route),
                                    timeout_ms |-> raw.timeout_ms,
                                    min_confidence |-> default(raw.min_confidence, 0),
                                    max_input_chars |-> default(raw.max_input_chars, 2000)]),
                     failed |-> FALSE]
               ELSE [file |-> None, failed |-> TRUE]
          [] OTHER -> [file |-> None, failed |-> FALSE]

\* classifier::validate.
ValidateClassifier(raw, routes, autoFallback) ==
    LET fallback == Configured(IF IsSome(raw.fallback_route) THEN Value(raw.fallback_route)
                               ELSE autoFallback, routes)
        found == [i \in 1..Len(raw.routes) |-> Configured(raw.routes[i], routes)]
        lightweight == LightweightSettings(raw)
        problems ==
          \/ ~IsSome(fallback)
          \/ Len(raw.routes) \notin 1..MAX_CANDIDATES
          \/ \E i \in 1..Len(found) : ~IsSome(found[i])
          \/ Cardinality(ToSet(found)) < Len(found)
          \/ lightweight.failed
          \/ IsSome(lightweight.file) /\ ~ValidateLightweight(Value(lightweight.file), routes)
          \/ raw.provider = "lightweight" /\ ~IsSome(lightweight.file)
          \/ raw.provider = "jev" /\ ~IsSome(raw.jev)
        errors == Errors(problems, "BadAutoClassifier")
                  \cup (IF IsSome(raw.jev)
                        THEN ValidateJev(Value(raw.jev), raw.provider = "jev") ELSE {})
        \* The providers with settings, the one in use first.
        kinds == IF raw.provider = "jev" THEN <<"jev", "lightweight">>
                 ELSE <<"lightweight", "jev">>
        has(kind) == IF kind = "jev" THEN IsSome(raw.jev) ELSE IsSome(lightweight.file)
        baseline(kind) == IF kind = "jev" THEN Value(raw.jev).min_confidence
                          ELSE Value(lightweight.file).min_confidence
        present == SelectSeq(kinds, has)
    IN  [errors |-> errors,
         classifier |->
           IF errors # {} THEN None
           ELSE Some([candidates |-> [i \in 1..Len(found) |-> Value(found[i])],
                      fallback |-> Value(fallback),
                      provider |-> raw.provider,
                      baselines |-> [i \in 1..Len(present) |-> baseline(present[i])],
                      routes |-> IF IsSome(lightweight.file)
                                 THEN {Value(Configured(Value(lightweight.file).route,
                                                        routes))}
                                 ELSE {}])]

(***************************************************************************)
(* Adaptive scoring.                                                       *)
(***************************************************************************)
\* Weights::influence_radius against half of the confidence a provider's
\* baseline leaves, multiplied out: prior / classifier >= (1 - baseline) / 2.
RadiusTooWide(weights, baseline) ==
    weights.prior > 0 /\ 2 * weights.prior * Unit >= weights.classifier * (Unit - baseline)

\* scoring::validate, given the classifier when it was accepted and whether
\* the file writes one.
ValidateScoring(raw, classifier, written) ==
    LET weightsOk == /\ raw.weights.classifier \in 1..Unit
                     /\ raw.weights.prior \in 0..Unit
                     /\ raw.weights.history = 0
        shrinkage == IF IsSome(raw.history.shrinkage_samples)
                     THEN Value(raw.history.shrinkage_samples) ELSE raw.history.min_samples
        contenders == ToSet(Value(classifier).candidates) \cup {Value(classifier).fallback}
        prior(i) == raw.priors[i]
        badPrior(i) ==
          \/ IsAuto(prior(i).name) \/ IsReserved(prior(i).name)
          \/ ~\E route \in contenders : SameName(route, prior(i).name)
          \/ prior(i).value \notin 0..Unit
          \/ \E j \in 1..(i - 1) : SameName(prior(j).name, prior(i).name)
        refused ==
          \/ ~weightsOk
          \/ raw.history.half_life_secs \notin MIN_HALF_LIFE_SECS..MAX_HALF_LIFE_SECS
          \/ raw.history.min_samples \notin 1..MAX_SAMPLES
          \/ shrinkage \notin 1..MAX_SAMPLES
          \/ ~IsSome(classifier) /\ ~written
          \/ /\ IsSome(classifier)
             /\ \/ \E i \in 1..Len(raw.priors) : badPrior(i)
                \/ /\ weightsOk
                   /\ \E i \in 1..Len(Value(classifier).baselines) :
                         RadiusTooWide(raw.weights, Value(classifier).baselines[i])
    IN  Errors(refused, "BadAdaptiveScoring")

(***************************************************************************)
(* Cross-route fallback.  A chain is [from, to] with to a sequence.        *)
(***************************************************************************)
Edges(chains, route) ==
    LET own == {i \in 1..Len(chains) : chains[i].from = route}
    IN  IF own = {} THEN <<>> ELSE chains[CHOOSE i \in own : TRUE].to

\* fallback::concrete.
Concrete(name, routes, classifierRoutes) ==
    LET route == Configured(name, routes)
    IN  IF name.word = "" \/ ~IsSome(route) THEN None
        ELSE IF Value(route) \in classifierRoutes THEN None ELSE route

\* find_cycle: a depth-first search with a mark per route; marks survive from
\* one starting route to the next.
RECURSIVE Visit(_, _, _)
Visit(chains, route, search) ==
    IF search.found \/ route \in search.done THEN search
    ELSE IF route \in search.open THEN [search EXCEPT !.found = TRUE]
    ELSE LET inside == [search EXCEPT !.open = @ \cup {route}]
             after == FoldLeft(LAMBDA s, next : Visit(chains, next, s), inside,
                               Edges(chains, route))
         IN  IF after.found THEN after
             ELSE [after EXCEPT !.open = @ \ {route}, !.done = @ \cup {route}]

FindCycle(chains) ==
    FoldLeft(LAMBDA s, chain : Visit(chains, chain.from, s),
             [open |-> {}, done |-> {}, found |-> FALSE], chains).found

\* fallback::validate over the lists in the file's order: a list with a
\* problem adds no chain, and the cycle is looked for when none has one.
ValidateFallback(raw, routes, reachable, classifierRoutes) ==
    LET badTarget(initial, to, i) ==
          LET route == Concrete(to[i], routes, classifierRoutes)
          IN  \/ ~IsSome(route)
              \/ Value(route) = initial
              \/ \E j \in 1..(i - 1) : SameName(to[j], to[i])
        add(state, list, initial) ==
          LET refused == \/ ~IsSome(initial)
                         \/ Value(initial) \notin reachable
                         \/ \E i \in 1..Len(state.chains) :
                               state.chains[i].from = Value(initial)
                         \/ list.to = <<>>
                         \/ Len(list.to) > MAX_FALLBACK_ROUTES
                         \/ \E i \in 1..Len(list.to) :
                               badTarget(Value(initial), list.to, i)
          IN  IF refused THEN [state EXCEPT !.failed = TRUE]
              ELSE [state EXCEPT !.chains =
                      Append(@, [from |-> Value(initial),
                                 to |-> [i \in 1..Len(list.to) |->
                                           Value(Concrete(list.to[i], routes,
                                                          classifierRoutes))]])]
        visit(state, list) == add(state, list, Concrete(list.from, routes, classifierRoutes))
        accepted(chains, refused) == [errors |-> Errors(refused, "BadCrossRouteFallback"),
                                      chains |-> IF refused THEN <<>> ELSE chains]
        ended(read) == accepted(read.chains, read.failed \/ FindCycle(read.chains))
    IN  ended(FoldLeft(visit, [chains |-> <<>>, failed |-> FALSE], raw))

(***************************************************************************)
(* Auto.                                                                   *)
(***************************************************************************)
\* AutoCondition::contradiction.
Contradiction(when) ==
    \/ /\ IsSome(when.min_prompt_tokens) /\ IsSome(when.max_prompt_tokens)
       /\ Value(when.min_prompt_tokens) > Value(when.max_prompt_tokens)
    \/ /\ when.endpoint = Some("completion")
       /\ \/ when.requires_tools = Some(TRUE)
          \/ when.requires_reasoning = Some(TRUE)
          \/ IsSome(when.tool_choice) /\ Value(when.tool_choice) # "unspecified"
    \/ /\ when.requires_tools = Some(FALSE)
       /\ when.tool_choice \in {Some("required"), Some("function")}

\* rule_name.
RuleName(name) == name.word \notin {"", "!"}

\* The loop of auto_route::validate over the rules.  A rule that classifies
\* has the classifier's fallback as its route; when the classifier was
\* refused that is reported with it and not again here.
ValidateRules(raw, routes, classifier) ==
    LET route(entry) ==
          IF entry.classify
          THEN IF IsSome(classifier) THEN Some(Value(classifier).fallback) ELSE None
          ELSE IF IsSome(entry.route) THEN Configured(Value(entry.route), routes) ELSE None
        ok(i) ==
          LET entry == raw.rules[i]
          IN  /\ RuleName(entry.name)
              /\ ~\E j \in 1..(i - 1) : /\ RuleName(raw.rules[j].name)
                                        /\ SameName(raw.rules[j].name, entry.name)
              /\ entry.when # AutoCondition \/ entry.classify
              /\ Some(0) \notin {entry.when.min_prompt_tokens, entry.when.max_prompt_tokens}
              /\ ~Contradiction(entry.when)
        routeFails(entry) ==
          IF entry.classify
          THEN IsSome(entry.route) \/ (~IsSome(classifier) /\ ~IsSome(raw.classifier))
          ELSE ~IsSome(route(entry))
        keep(i) == ok(i) /\ IsSome(route(raw.rules[i])) /\ ~routeFails(raw.rules[i])
        kept == SelectSeq([i \in 1..Len(raw.rules) |-> i], keep)
    IN  [errors |-> Errors(\E i \in 1..Len(raw.rules) : ~ok(i) \/ routeFails(raw.rules[i]),
                           "BadAutoRule"),
         rules |-> [k \in 1..Len(kept) |->
                      [name |-> raw.rules[kept[k]].name, when |-> raw.rules[kept[k]].when,
                       route |-> Value(route(raw.rules[kept[k]])),
                       classify |-> raw.rules[kept[k]].classify]]]

\* auto_route::validate, given what its classifier and its rules came to.
AutoSection(raw, routes, fallback, classified, ruled) ==
    LET classifier == classified.classifier
        before == Errors(\E i \in 1..Len(routes) : IsAuto(routes[i].name),
                         "AutoRouteNameTaken")
                  \cup Errors(~IsSome(fallback) \/ Len(raw.rules) > MAX_RULES, "BadAutoRoute")
                  \cup classified.errors
                  \cup (IF IsSome(raw.adaptive_scoring)
                        THEN ValidateScoring(Value(raw.adaptive_scoring), classifier,
                                             IsSome(raw.classifier))
                        ELSE {})
                  \cup ruled.errors
        reachable == {ruled.rules[i].route : i \in 1..Len(ruled.rules)} \cup {Value(fallback)}
                     \cup (IF IsSome(classifier)
                           THEN ToSet(Value(classifier).candidates)
                                \cup {Value(classifier).fallback}
                           ELSE {})
        crossed(none) ==
          IF IsSome(raw.cross_route_fallback) /\ none
          THEN ValidateFallback(Value(raw.cross_route_fallback), routes, reachable,
                                IF IsSome(classifier) THEN Value(classifier).routes ELSE {})
          ELSE [errors |-> {}, chains |-> <<>>]
        section(errors, chains) ==
          [errors |-> errors,
           auto |-> IF errors # {} THEN None
                    ELSE Some([enabled |-> raw.enabled, fallback |-> Value(fallback),
                               rules |-> ruled.rules, classifier |-> classifier,
                               scoring |-> raw.adaptive_scoring, chains |-> chains])]
        ended(found, lists) == section(found \cup lists.errors, lists.chains)
        checked(found) == ended(found, crossed(found = {}))
    IN  checked(before)

AutoWith(raw, routes, classified) ==
    AutoSection(raw, routes, Configured(raw.fallback_route, routes), classified,
                ValidateRules(raw, routes, classified.classifier))
ValidateAuto(raw, routes) ==
    AutoWith(raw, routes,
             IF IsSome(raw.classifier)
             THEN ValidateClassifier(Value(raw.classifier), routes, raw.fallback_route)
             ELSE [errors |-> {}, classifier |-> None])

(***************************************************************************)
(* The whole file.                                                         *)
(***************************************************************************)
\* validate_with_store: every section is validated, whatever another one
\* reported, and the configuration exists only when nothing was reported.
ValidatedWith(file, noded, routed, autos) ==
    LET budget == file.request.pre_commit_budget_ms
        default == IF IsSome(file.default_route) /\ ~IsReserved(Value(file.default_route))
                   THEN {i \in 1..Len(routed.routes) :
                           SameName(routed.routes[i].name, Value(file.default_route))}
                   ELSE {}
        errors ==
          ValidateListen(file.listen)
          \cup (IF IsSome(file.api_key_env) THEN ReadSecret(Value(file.api_key_env)) ELSE {})
          \cup ValidateHealth(file.health)
          \cup Errors(file.request.connect_timeout_secs = 0, "BadConnectTimeout")
          \cup Errors(/\ IsSome(budget)
                      /\ Value(budget) \notin MIN_BUDGET_MS..MAX_BUDGET_MS,
                      "BadPreCommitBudget")
          \cup ValidateAffinity(file.session_affinity)
          \cup ValidatePlacement(file.placement)
          \cup Errors(file.traces.capacity > MAX_TRACE_CAPACITY, "BadTraceCapacity")
          \cup Errors(file.nodes = <<>>, "NoNodes")
          \cup Errors(file.routes = <<>>, "NoRoutes")
          \cup noded.errors \cup routed.errors
          \cup Errors(IsSome(file.default_route) /\ default = {}, "UnknownDefaultRoute")
          \cup autos.errors
    IN  [errors |-> errors,
         config |-> [nodes |-> noded.nodes, deployments |-> routed.deployments,
                     routes |-> routed.routes,
                     default_route |-> IF default = {} THEN None
                                       ELSE Some(CHOOSE i \in default : TRUE),
                     auto |-> autos.auto]]

ValidatedRoutes(file, noded, routed) ==
    ValidatedWith(file, noded, routed,
                  IF IsSome(file.auto_route)
                  THEN ValidateAuto(Value(file.auto_route), routed.routes)
                  ELSE [errors |-> {}, auto |-> None])
ValidatedNodes(file, noded) ==
    ValidatedRoutes(file, noded, ValidateRoutes(file.routes, noded.nodes, noded.badUrl))
Validate(file) == ValidatedNodes(file, ValidateNodes(file.nodes))

\* Topology::resolve: the index of the route, or the failure.
Resolve(config, requested) ==
    LET named == {i \in 1..Len(config.routes) :
                    SameName(config.routes[i].name, Value(requested))}
    IN  IF ~IsSome(requested) \/ IsReserved(Value(requested))
        THEN IF IsSome(config.default_route) THEN <<"route", Value(config.default_route)>>
             ELSE <<"NoDefaultRoute">>
        ELSE IF named = {} THEN <<"UnknownRoute">>
        ELSE <<"route", CHOOSE i \in named : TRUE>>

(***************************************************************************)
(* What an accepted configuration is for the rest of the router.           *)
(***************************************************************************)
Accepted(file) == Validate(file).errors = {}

\* The invariants domain.rs states for a Topology: names and ids are unique,
\* a deployment's node exists, every route has at least one deployment and
\* none twice, and the default route is one of the routes.
TopologySound(config) ==
    /\ \A i, j \in 1..Len(config.nodes) :
          SameName(config.nodes[i], config.nodes[j]) => i = j
    /\ \A i, j \in 1..Len(config.routes) :
          SameName(config.routes[i].name, config.routes[j].name) => i = j
    /\ \A i, j \in 1..Len(config.deployments) :
          config.deployments[i] = config.deployments[j] => i = j
    /\ \A id \in ToSet(config.deployments) : id[1] \in ToSet(config.nodes)
    /\ \A i \in 1..Len(config.routes) :
          LET members == config.routes[i].deployments
          IN  /\ members # <<>>
              /\ ToSet(members) \subseteq ToSet(config.deployments)
              /\ Cardinality(ToSet(members)) = Len(members)
              /\ ~IsReserved(config.routes[i].name)

\* What placement relies on: a route can reach its target with its own
\* deployments, and loads only what it lists.
PlacementReachable(config) ==
    \A i \in 1..Len(config.routes) :
        IsSome(config.routes[i].placement) =>
            LET placement == Value(config.routes[i].placement)
            IN  /\ placement.min_ready + placement.warm_standby
                      <= Len(config.routes[i].deployments)
                /\ placement.allowed # <<>>
                /\ ToSet(placement.allowed) \subseteq ToSet(config.routes[i].deployments)

\* What Auto relies on: whatever it decides is a configured route that is not
\* Auto, a fallback chain names configured routes once each, never a route
\* the classifier runs on, and no chain leads back to where it began.
AutoSound(config) ==
    IsSome(config.auto) =>
        LET auto == Value(config.auto)
            names == {config.routes[i].name : i \in 1..Len(config.routes)}
            decided == {auto.fallback} \cup {auto.rules[i].route : i \in 1..Len(auto.rules)}
                       \cup (IF IsSome(auto.classifier)
                             THEN {Value(auto.classifier).fallback}
                                  \cup ToSet(Value(auto.classifier).candidates)
                             ELSE {})
            chained == UNION {ToSet(auto.chains[i].to) \cup {auto.chains[i].from} :
                                i \in 1..Len(auto.chains)}
        IN  /\ decided \cup chained \subseteq names
            /\ ~\E name \in names : IsAuto(name)
            /\ \A i \in 1..Len(auto.rules) :
                  auto.rules[i].classify => IsSome(auto.classifier)
            /\ \A i \in 1..Len(auto.chains) :
                  /\ auto.chains[i].from \notin ToSet(auto.chains[i].to)
                  /\ Cardinality(ToSet(auto.chains[i].to)) = Len(auto.chains[i].to)
            /\ IsSome(auto.classifier) =>
                  chained \cap Value(auto.classifier).routes = {}
            /\ ~\E S \in (SUBSET chained) \ {{}} :
                  \A route \in S : ToSet(Edges(auto.chains, route)) \cap S # {}

\* Every deployment the file lists names a node id that parses.
EveryNodeIdParses(file) ==
    \A i \in 1..Len(file.routes) :
        \A listed \in ToSet(file.routes[i].deployments) : ParseNodeId(listed.node)

=============================================================================

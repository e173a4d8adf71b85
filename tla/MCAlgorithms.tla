---------------------------- MODULE MCAlgorithms ----------------------------
(***************************************************************************)
(* The pure algorithms of the system, each on a small set of inputs.  An   *)
(* initial state holds one input of one algorithm (part); the one step     *)
(* computes the output the code would.                                     *)
(***************************************************************************)
EXTENDS Integers, Sequences, SequencesExt, FiniteSets, TLC

CONSTANTS Unit, Scale, MaxU32

VARIABLES part, input, output

vars == <<part, input, output>>

C == INSTANCE RouterConfig
A == INSTANCE AutoRouting WITH Features <- {"chat", "tools"}
G == INSTANCE ControlPlane WITH MaxU64 <- 3000

\* Sizes the code fixes, small enough for both sides of each to be met.
MaxMetadataBytes == 300
MaxStringBytes == 64
MIN_MARGIN == 20
MIN_USEFUL_CONTEXT == 4
CONTEXT_PRESETS == <<8, 16, 32, 64>>
DEFAULT_CTX == 8
DEFAULT_UBATCH == 1
ENGINE_BASELINE == 50
HOST_OVERHEAD == 10
MIN_QUANTIZED_KV == 30
LIST_LIMIT == 2

F == INSTANCE Admission WITH MaxU64 <- 4095       \* of files
B == INSTANCE Admission WITH MaxU64 <- 1000000    \* of memory
S == INSTANCE Startup

UpTo(T, n) == UNION {[1..k -> T] : k \in 0..n}
None == <<>>
Some(x) == <<x>>
N(word) == [word |-> word, upper |-> FALSE]

Names(words) == [word : words, upper : BOOLEAN]

\* Files that differ from the smallest accepted one in a group of sections.
TimingFiles ==
    {[C!RouterFile EXCEPT !.health = h] :
        h \in [interval_secs : 0..2, timeout_secs : 0..3, failure_threshold : 0..1]}
    \cup {[C!RouterFile EXCEPT !.placement = p] :
        p \in [interval_secs : 0..1, load_timeout_secs : 0..1, backoff_secs : 0..2,
               backoff_max_secs : 0..2]}
    \cup {[C!RouterFile EXCEPT !.session_affinity = a] :
        a \in [enabled : BOOLEAN, header : {"", "!", "cookie", "x-session"},
               idle_ttl_secs : {0, 1, C!MAX_TTL_SECS, C!MAX_TTL_SECS + 1},
               max_entries : {0, 1, C!MAX_SESSION_ENTRIES + 1}]}
    \cup {[C!RouterFile EXCEPT !.request = [connect_timeout_secs |-> c,
                                          pre_commit_budget_ms |-> b],
                             !.listen = l, !.api_key_env = k, !.traces.capacity = t] :
        c \in 0..1, b \in {None, Some(0), Some(C!MIN_BUDGET_MS), Some(C!MAX_BUDGET_MS + 1)},
        l \in {<<>>, <<"ok">>, <<"ok", "bad">>},
        k \in {None} \cup {Some(v) : v \in {"SET", "BLANK", "UNSET", "1-BAD", "KEPT"}},
        t \in {0, C!MAX_TRACE_CAPACITY, C!MAX_TRACE_CAPACITY + 1}}

NodeFiles ==
    {[C!RouterFile EXCEPT !.nodes = ns, !.default_route = d, !.routes[1].deployments = ds] :
        ns \in UpTo([id : Names({"n"}) \cup {N("!")}, url : {"ok", "bad"},
                     enabled : BOOLEAN, api_key_env : {None, Some("UNSET")}], 2),
        d \in {None, Some(N("a")), Some(N("default")), Some(N("b"))},
        ds \in {<<>>} \cup {<<[node |-> n, model |-> N("m")]>> :
                              n \in Names({"n"}) \cup {N("!"), N("o")}}}

RouteFiles ==
    {[C!RouterFile EXCEPT
        !.nodes = <<C!NodeFile, [C!NodeFile EXCEPT !.id = N("o")]>>,
        !.routes = <<[C!RouteFile EXCEPT !.name = nameA, !.deployments = ds,
                                       !.placement = p],
                     [C!RouteFile EXCEPT !.name = nameB, !.description = t]>>] :
        nameA \in {N("a"), N("!"), N("default")},
        nameB \in {N("b"), [word |-> "a", upper |-> TRUE]},
        t \in {None, Some("ok"), Some("long")},
        ds \in UpTo([node : {N("n"), N("o"), N("p"), N("!")},
                     model : Names({"m"}) \cup {N(""), N("!")}], 2),
        p \in {None, Some(C!RoutePlacementFile)}}

PlacementFiles ==
    {[C!RouterFile EXCEPT
        !.nodes = <<C!NodeFile, [C!NodeFile EXCEPT !.id = N("o")]>>,
        !.routes[1].deployments = ds, !.routes[1].placement = Some(p)] :
        ds \in UpTo([node : {N("n"), N("o"), N("!")}, model : {N("m"), N("k")}], 3),
        p \in [min_ready : 0..2, warm_standby : {0, 1, MaxU32},
               allowed_nodes : UpTo(Names({"n"}) \cup {N("o")}, 2)]}

AutoFiles(autos) ==
    {[C!RouterFile EXCEPT
        !.routes = [i \in 1..4 |-> [C!RouteFile EXCEPT !.name = N(<<"a", "b", "c", third>>[i])]],
        !.auto_route = Some(auto)] : auto \in autos, third \in {"d"}}

FallbackFiles ==
    AutoFiles({[C!AutoRouteFile EXCEPT
        !.classifier = Some([C!ClassifierFile EXCEPT !.routes = <<N("a"), N("b"), N("d")>>]),
        !.cross_route_fallback = Some(lists)] :
        lists \in {SubSeq(<<[from |-> N("a"), to |-> x], [from |-> N("b"), to |-> y],
                            [from |-> f, to |-> z]>>, 1, k) : k \in 1..3,
                     x \in UpTo({N("b"), N("d"), N("c")}, 2), y \in UpTo({N("a"), N("d")}, 2),
                     z \in UpTo({N("a"), N("b")}, 2), f \in {N("d"), N("A"), N("c")}}})

Conditions ==
    [endpoint : {None, Some("chat"), Some("completion")},
     requires_tools : {None, Some(TRUE), Some(FALSE)},
     tool_choice : {None, Some("unspecified"), Some("required")},
     requires_reasoning : {None, Some(TRUE)},
     min_prompt_tokens : {None, Some(0), Some(2)}, max_prompt_tokens : {None, Some(1)}]

RuleFiles ==
    AutoFiles({[C!AutoRouteFile EXCEPT !.rules = <<[C!AutoRuleFile EXCEPT !.when = w,
                                                     !.route = r, !.classify = c]>>,
                                     !.classifier = k] :
        w \in Conditions, r \in {None, Some(N("b")), Some(N("auto"))}, c \in BOOLEAN,
        k \in {None, Some(C!ClassifierFile)}})

ClassifierFiles ==
    AutoFiles({[C!AutoRouteFile EXCEPT
        !.classifier = Some([C!ClassifierFile EXCEPT
            !.provider = p, !.routes = rs, !.lightweight = l, !.jev = j, !.route = r]),
        !.adaptive_scoring = Some([C!AdaptiveScoringFile EXCEPT
            !.weights.prior = w, !.priors = ps])] :
        p \in {"lightweight", "jev"}, rs \in {<<>>, <<N("a")>>, <<N("a"), N("a")>>},
        l \in {None, Some(C!LightweightFile), Some([C!LightweightFile EXCEPT !.route = N("auto")]),
               Some([C!LightweightFile EXCEPT !.min_confidence = Unit])},
        j \in {None} \cup {Some([C!JevFile EXCEPT !.base_url = u, !.api_key_env = k,
                                                !.min_confidence = c]) :
                 u \in {"https", "http", "http-loopback"},
                 k \in {"SET", "BLANK", "KEPT", "1-BAD"}, c \in {0, Unit \div 2}},
        r \in {None, Some(N("c"))}, w \in {0, 1, Unit \div 2, Unit},
        ps \in {<<>>, <<[name |-> N("a"), value |-> 1]>>,
                <<[name |-> N("b"), value |-> 1]>>}})

(***************************************************************************)
(* Requests to Auto.                                                       *)
(***************************************************************************)
Messages == {<<>>, <<[role |-> "user", bytes |-> 7], [role |-> "system", bytes |-> 12]>>}
Needs ==
    {A!Value(A!Extract("chat", b)) :
        b \in [kind : {"request"}, tools : BOOLEAN, reasoning : BOOLEAN,
               tool_choice : {"unspecified", "required", "none"}, messages : Messages]}
    \cup {A!Value(A!Extract("completion", [kind |-> "request", messages |-> m])) :
            m \in Messages}
    \cup {A!Value(A!Extract("chat", [kind |-> "unparsed"]))}

Bodies == [length : {"within", "over"}, shape : {"ok", "not_json"},
           route : {N("a"), [word |-> "a", upper |-> TRUE], N("b"), N("z")},
           confidence : {None} \cup {Some(c) : c \in 0..(Unit + 1)}]
Sure == [length |-> "within", shape |-> "ok", route |-> N("a"), confidence |-> Some(Unit)]
Answers ==
    [transport : {"ok"}, status : {200}, exhausted : BOOLEAN, body : Bodies, at : {1}]
    \cup [transport : {"ok", "timeout", "refused"}, status : {200, 401, 429, 500},
          exhausted : {FALSE}, body : {Sure}, at : 0..4]
Prompt == [transport |-> "ok", status |-> 200, exhausted |-> FALSE, body |-> Sure, at |-> 0]

Classifiers == [provider : {"jev", "lightweight"}, key : BOOLEAN,
                candidates : {<<N("a"), N("b")>>}, fallback : {N("b"), N("c")},
                timeout : {1, 3}, min_confidence : 0..Unit]
Everything == C!AutoCondition
Whens == [endpoint : {None, Some("chat")}, requires_tools : {None, Some(TRUE), Some(FALSE)},
          tool_choice : {None, Some("none")}, requires_reasoning : {None},
          min_prompt_tokens : {None, Some(4)}, max_prompt_tokens : {None, Some(4)}]

\* The weights a configuration may hold with this classifier.
Scorings(c) ==
    {s \in [weights : [classifier : {1, Unit}, prior : 0..Unit, history : {0}],
            priors : {<<>>, <<[route |-> c.fallback, value |-> Unit]>>}] :
        ~C!RadiusTooWide(s.weights, c.min_confidence)}

AutoOf(c, scoring, when, next) ==
    [enabled |-> TRUE, fallback |-> N("d"), classifier |-> c, scoring |-> scoring,
     rules |-> <<[when |-> when, route |-> c.fallback, classify |-> TRUE],
                 [when |-> next, route |-> N("e"), classify |-> FALSE]>>]
RequestOf(auto, needs, budget, answer) ==
    [auto |-> auto, needs |-> needs, budget |-> budget, answer |-> answer]
SomeClassifier == [provider |-> "jev", key |-> TRUE, candidates |-> <<N("a"), N("b")>>,
                   fallback |-> N("b"), timeout |-> 1, min_confidence |-> 1]

AutoInputs(in) ==
    \/ \E c \in Classifiers, answer \in Answers, budget \in {None, Some(0), Some(1), Some(2)} :
          in = RequestOf(AutoOf(c, None, Everything, Everything), A!NoNeeds, budget, answer)
    \/ \E c \in Classifiers, confidence \in 0..Unit : \E scoring \in Scorings(c) :
          in = RequestOf(AutoOf(c, Some(scoring), Everything, Everything), A!NoNeeds, None,
                         [Prompt EXCEPT !.body.confidence = Some(confidence)])
    \/ \E when, next \in Whens, needs \in Needs :
          in = RequestOf(AutoOf(SomeClassifier, None, when, next), needs, None, Prompt)

Events == [kind : {"ok", "unavailable"}, route : {Some("r"), Some("s")}, at : 0..2]
          \cup [kind : {"reset"}, route : {None, Some("r"), Some("q")}, at : 0..2]
Histories == {es \in UpTo(Events, 3) : \A i \in 2..Len(es) : es[i].at >= es[i - 1].at}

Fits == [needs : Needs, up : {<<>>, <<1>>, <<2, 1>>},
         observed : [{1, 2} -> {None} \cup
                       {Some([features |-> f, context |-> c]) :
                          f \in {{}, {"completion"}, {"chat"}, {"chat", "tools"},
                                {"chat", "tools", "tool_choice"},
                                {"chat", "completion", "reasoning"}}, c \in {1, 4}}]]

\* Moments of a router with two nodes and three deployments.
Moments ==
    [routes : {<<[name |-> "r", policy |-> "priority", deployments |-> <<"d", "e">>,
                  target |-> Some([min_ready |-> 1, warm_standby |-> 1])],
                 [name |-> "s", policy |-> "priority", deployments |-> <<"f">>,
                  target |-> None]>>},
     default : 0..1, nodeOf : {[d |-> "n", e |-> "o", f |-> "n"]},
     enabled : {{"n"}, {"n", "o"}}, health : [{"n", "o"} -> A!NodeHealth],
     served : {s \in [{"n", "o"} -> {"none", "d", "e", "f"}] :
                  s.n # "e" /\ s.o \in {"none", "e"}},
     observed : {o \in [{"d", "e", "f"} -> A!Option([context : 1..2, slots : {1, 3},
                                  features : {{"chat"}, {"chat", "tools"}}])] :
                   /\ o.d # None => o.d[1].slots = o.d[1].context
                   /\ o.f # None => o.f[1].slots = 3 /\ o.f[1].context = 2
                   /\ o.e # None => o.e[1].slots = 3},
     loading : {{}, {"e"}}, auto : {None}]

\* The same with an Auto section, and what an operator asks of it.
OneMoment == [routes |-> <<[name |-> "r", policy |-> "priority", deployments |-> <<"d">>,
                            target |-> None]>>,
              default |-> 1, nodeOf |-> [d |-> "n"], enabled |-> {"n"},
              health |-> [n |-> "healthy"], served |-> [n |-> "d"],
              observed |-> [d |-> None], loading |-> {}, auto |-> None]
AskMoments ==
    {[OneMoment EXCEPT !.auto = a, !.health.n = h] :
        a \in A!Option([enabled : BOOLEAN, scoring : BOOLEAN, targets : {<<"r">>},
                        classifier : A!Option([provider : {"jev", "lightweight"}, key : BOOLEAN,
                                              model : {"m"}, route : {"r", "q"},
                                              standby : {<<>>, <<"jev">>}])]),
        h \in {"healthy", "unhealthy"}}
CheckAnswers == [sent : {"answered", "timeout", "connection_error"},
                 status : {200, 401, 429, 500}, read : {"whole", "timeout", "invalid_response"},
                 body : [form : {"models", "other"}, names : {{}, {"m"}}]]
Asks(answers, bodies, pushes) ==
    [moment : AskMoments, answer : answers, body : bodies, pushed : pushes,
     capacity : {0, 2}, limit : {None, Some(1)}]
AnAnswer == [sent |-> "answered", status |-> 200, read |-> "whole",
             body |-> [form |-> "models", names |-> {"m"}]]
ABody == [form |-> "ok", route |-> None]

(***************************************************************************)
(* Requests to the gateway, in worlds that lack one thing each.            *)
(***************************************************************************)
Policies == {[kind |-> "disabled", static |-> None, named |-> {}],
             [kind |-> "required", static |-> Some("static"), named |-> {"named"}],
             [kind |-> "required", static |-> None, named |-> {"named"}]}
World == [policy |-> [kind |-> "required", static |-> Some("static"), named |-> {"named"}],
          trustForwarded |-> TRUE, manager |-> TRUE, paths |-> TRUE, store |-> "ok",
          history |-> TRUE, resident |-> Some("known"), drains |-> TRUE, probes |-> TRUE,
          webRoot |-> TRUE, files |-> {<<"index.html">>, <<"app.js">>}, limited |-> {"named"},
          spent |-> FALSE, keysOnDisk |-> {"named"}, savedHosts |-> <<"localhost">>,
          listeners |-> {"lo"}]
Worlds ==
    {World, [World EXCEPT !.trustForwarded = FALSE], [World EXCEPT !.manager = FALSE],
     [World EXCEPT !.paths = FALSE], [World EXCEPT !.history = FALSE],
     [World EXCEPT !.resident = None], [World EXCEPT !.drains = FALSE],
     [World EXCEPT !.probes = FALSE, !.webRoot = FALSE], [World EXCEPT !.spent = TRUE],
     [World EXCEPT !.files = {<<"app.js">>}, !.keysOnDisk = {}]}
    \cup {[World EXCEPT !.store = s] : s \in {"fails", "dead"}}
    \cup {[World EXCEPT !.policy = p, !.keysOnDisk = k] : p \in Policies, k \in {{}, {"named"}}}
Sockets == {"none", "lo", "mapped", "lan"}
Keys == {"none", "static", "named", "other"}
Targets(to) == IF to \in {"update", "remove", "detail", "job", "jobEvents", "benchmark", "get", "save",
                         "delete", "revokeKey", "keyLimit"}
               THEN {"known", "unknown", "malformed"} ELSE {"known"}
Hosts(to) == IF to = "saveConfig" THEN UpTo({"localhost", "lan", "any", "nowhere"}, 2) ELSE {<<>>}
Pages(to) == IF to = "web" THEN {<<>>, <<"app.js">>, <<"gone.css">>, <<"chat">>, <<"..", "app.js">>,
                                 <<"chat", "..">>, <<"\\0">>} ELSE {<<>>}
Ids(to) == IF to \in {"chat", "completions"}
           THEN {None, Some(""), Some("r1"), Some("too long"), Some("not ascii")} ELSE {None}
GatewayInputs(in) ==
    \E to \in DOMAIN G!Routes : \E w \in Worlds, socket \in Sockets, forwarded \in {"none", "lan"},
        origin \in {"none", "same", "other"}, key \in Keys, marked \in BOOLEAN,
        body \in G!Routes[to].bodies, id \in Targets(to), hosts \in Hosts(to), path \in Pages(to),
        requestId \in Ids(to) :
           /\ forwarded = "lan" => socket = "lo"
           /\ marked => key = "none"
           /\ w # World => origin = "none" /\ (key = "other" => socket = "lan")
           /\ requestId # None => socket = "lan"
           /\ in = [q |-> [to |-> to, socket |-> socket, forwarded |-> forwarded, origin |-> origin,
                           key |-> key, marked |-> marked, body |-> body, id |-> id, hosts |-> hosts,
                           path |-> path, requestId |-> requestId], w |-> w]

(***************************************************************************)
(* Machines and logs.                                                      *)
(***************************************************************************)
Cpus == [physical : 1..5, logical : 1..5, performance : {None, Some(2)},
         features : SUBSET {"sse4_2", "avx", "avx2", "fma", "avx512f"} \cup SUBSET G!ArmFeature]
CpuinfoLines == {[key |-> "blank"], [key |-> "model name", value |-> 9],
                 [key |-> "physical id", value |-> 0], [key |-> "core id", value |-> 0],
                 [key |-> "core id", value |-> 1]}
Addresses4 == {G!V4(127, 0), G!V4(10, 0), G!V4(100, 64), G!V4(169, 254), G!V4(8, 8), G!V4(255, 255)}
Addresses6 == {G!V6(0, 1), G!V6(0, 0), G!V6(65152, 2), G!V6(64768, 2), G!V6(8193, 2), G!V6(65281, 1)}
FibLines == [is : {"address"}, ip : Addresses4]
            \cup [is : {"local table", "other table", "host LOCAL", "other"}]
Stats == {None} \cup {Some([frsize |-> f, bsize |-> b, blocks |-> n, bavail |-> 1, bfree |-> r]) :
                         f \in {0, 512}, b \in {0, 1024}, n \in {2, 6}, r \in {1, 3}}
Meminfos == {None} \cup UNION {{Some(m) : m \in [fields -> 0..2]} :
               fields \in SUBSET {"MemTotal", "MemFree", "MemAvailable", "SwapTotal"}}
Machine(stats, meminfos, disks, calibrations) ==
    [stat : stats, meminfo : meminfos, downloads : {None}, models : disks,
     devices : {<<Some(1), None>>}, v4 : {None, Some(<<>>)}, v6 : {None},
     calibration : calibrations]
NoFits == [state |-> "missing", fits |-> <<>>]
NoStat == [readable |-> TRUE, fields |-> None]
Machines ==
    Machine({[readable |-> FALSE, fields |-> None], NoStat,
             [readable |-> TRUE, fields |-> Some(<<1, 2, 3>>)],
             [readable |-> TRUE, fields |-> Some(<<1, 0, 2, 2000, 1500, 0, 0, 1, 9>>)]},
            Meminfos, {None}, {NoFits})
    \cup Machine({NoStat}, {None, Some([MemTotal |-> 2, MemAvailable |-> 1])}, Stats,
                 {NoFits, [state |-> "unreadable", fits |-> <<>>],
                  [state |-> "file", fits |-> <<<<"here", "b1">>, <<"there", "b1">>>>]})
CpuSamples == [total : 0..5, idle : 0..5]
LogLines == {[json |-> j, level |-> l, target |-> "t", message |-> m] :
               j \in BOOLEAN, l \in {"", "info", "warning", "odd"}, m \in {"x"}}
            \cup {[json |-> TRUE, level |-> "error", target |-> t, message |-> "y"] : t \in {"t", "u"}}
LogFile(name, readable, lines) == [name |-> name, stem |-> TRUE, readable |-> readable, lines |-> lines]
Directories ==
    {<<LogFile(2, TRUE, a), LogFile(1, TRUE, b)>> : a \in UpTo(LogLines, 2), b \in UpTo(LogLines, 1)}
    \cup {<<LogFile(2, TRUE, a), LogFile(1, FALSE, a)>> : a \in UpTo(LogLines, 1)}
    \cup {<<LogFile(2, TRUE, a), LogFile(3, TRUE, a), LogFile(1, TRUE, a),
             [LogFile(9, TRUE, a) EXCEPT !.stem = FALSE]>> : a \in UpTo(LogLines, 1)}
Queries == [level : {None, Some("warn"), Some("info")}, target : {None, Some("t")},
            search : {None, Some("x")}, limit : {None, Some(0), Some(2)}]

\* Model files: headers with every type of value, tensors of known and unknown
\* types, cut off at every byte.
Value(key, tag, value) ==
    [key |-> key, keyLen |-> 2, tag |-> tag, value |-> value, negative |-> FALSE, len |-> 0,
     utf8 |-> TRUE, elemTag |-> 4, items |-> <<>>]
Text(key, len, utf8) == [Value(key, 8, 0) EXCEPT !.len = len, !.utf8 = utf8]
Array(key, tag, len, items) ==
    [Value(key, 9, 0) EXCEPT !.elemTag = tag, !.len = len, !.items = items]
Tensor(dims, type, offset) ==
    [nameLen |-> 1, nDims |-> Len(dims), dims |-> dims, typeId |-> type, offset |-> offset]
Metas ==
    {<<>>, <<Value("alignment", 4, 8)>>, <<Value("alignment", 4, 12)>>,
     <<Value("alignment", 5, 8)>>,
     <<Text("chat_template", 3, TRUE), Value("block_count", 4, 2), Value("head_count", 4, 4),
       Value("head_count_kv", 4, 2), Value("key_length", 10, 8), Value("context_length", 4, 9)>>,
     <<Text("chat_template", 3, FALSE)>>, <<Text("chat_template", 90, TRUE)>>,
     <<Value("block_count", 13, 2)>>,
     <<Array("head_count_kv", 4, 3, <<0, 2, 1>>), Value("block_count", 0, 3),
       Value("head_count", 2, 4), Value("embedding_length", 4, 16),
       Value("feed_forward_length", 4, 16), Value("context_length", 4, 9)>>,
     <<Array("tokens", 8, 2, <<3, 1>>), Value("block_count", 5, 1),
       [Value("head_count", 5, 4) EXCEPT !.negative = TRUE]>>,
     <<Array("tokens", 8, 5, <<3, 1>>)>>, <<Array("tokens", 9, 1, <<>>)>>,
     <<Array("tokens", 0, 1500, <<>>)>>,
     <<Value("block_count", 4, 2), Value("block_count", 4, 3), Value("file_type", 4, 7)>>}
Tensors ==
    {<<>>, <<Tensor(<<4, 2>>, 0, 0)>>, <<Tensor(<<40>>, 2, 0), Tensor(<<3>>, 1, 64)>>,
     <<Tensor(<<4>>, 99, 0), Tensor(<<2>>, 0, 16)>>, <<Tensor(<<60, 60>>, 24, 0)>>,
     <<Tensor(<<64, 90>>, 0, 0)>>, <<Tensor(<<2, 2, 2, 2, 2>>, 0, 0)>>, <<Tensor(<<0>>, 0, 0)>>,
     <<Tensor(<<2>>, 0, 5000)>>,
     <<Tensor(<<4, 2>>, 0, 0), Tensor(<<2>>, 0, 32), Tensor(<<33>>, 8, 64)>>}
ModelFileOf(kvs, tensors, kvCount, tensorCount, size) ==
    [magic |-> TRUE, version |-> 3, kvCount |-> kvCount, tensorCount |-> tensorCount,
     kvs |-> kvs, tensors |-> tensors, size |-> size]
\* Lists of values are cut short inside the header only: a reader would take
\* the bytes that follow for their rest.
CutShort(kvs) == \E i \in DOMAIN kvs : kvs[i].tag = 9 /\ kvs[i].elemTag = 8
                                          /\ kvs[i].len > Len(kvs[i].items)
ModelFiles(in) ==
    \/ \E kvs \in Metas, tensors \in Tensors, size \in 0..420 :
          /\ tensors \in {<<>>, <<Tensor(<<4, 2>>, 0, 0)>>}
                \/ kvs \in {<<>>, <<Value("alignment", 4, 8)>>}
          /\ CutShort(kvs) => tensors = <<>> /\ size <= F!HeaderBytes([kvs |-> kvs, tensors |-> <<>>])
          /\ in = ModelFileOf(kvs, tensors, Len(kvs), Len(tensors), size)
    \/ \E kvs \in Metas, tensors \in Tensors, more \in {<<1, 0>>, <<0, 1>>}, size \in 0..60 :
          /\ more[1] = 1 => tensors = <<>>
          /\ size <= F!HeaderBytes([kvs |-> kvs, tensors |-> tensors])
          /\ in = ModelFileOf(kvs, tensors, Len(kvs) + more[1], Len(tensors) + more[2], size)
    \/ \E magic \in BOOLEAN, version \in {1, 2, 4}, size \in 0..30 :
          in = [ModelFileOf(<<>>, <<>>, 0, 0, size) EXCEPT !.magic = magic, !.version = version]

\* Models of one, several and unknown layers and heads, and what is asked of
\* a machine for them.
ModelOf(layers, heads, window, forward, vocab, width, weights) ==
    [err |-> "none", architecture |-> "a", context_length |-> window, block_count |-> layers,
     embedding_length |-> width, feed_forward_length |-> forward, head_count |-> <<2>>,
     head_count_kv |-> heads, key_length |-> <<>>, value_length |-> <<1>>, vocab_size |-> vocab,
     file_type |-> <<1>>, quantization |-> [byType |-> <<>>, dominant |-> <<>>],
     weight_bytes |-> weights]
HybridModel == ModelOf(<<2>>, <<<<0, 2>>>>, <<1000>>, <<6>>, <<1>>, <<2>>, <<40>>)
ModelsOf ==
    {ModelOf(<<2>>, <<<<1>>>>, <<24>>, <<>>, <<1>>, <<2>>, <<100>>), HybridModel,
     ModelOf(<<2>>, <<<<2>>>>, <<>>, <<6>>, <<>>, <<2>>, <<>>),
     ModelOf(<<>>, <<>>, <<40>>, <<>>, <<2>>, <<0>>, <<60>>),
     ModelOf(<<3>>, <<<<1, 2>>>>, <<40>>, <<>>, <<2>>, <<4>>, <<60>>)}
ParamsOf(window, slots) == [B!RuntimeParams EXCEPT !.n_ctx = window, !.n_parallel = slots]
Estimates(in) ==
    \E m \in ModelsOf, window \in {1, 8, 24, 100}, slots \in {1, 3}, kv \in {"f16", "q8_0"},
       available \in {0, 100, 150, 2000} \cup {60 * k : k \in 3..20}, reclaimed \in {0, 45},
       ubatch \in {1, 2} :
         in = [m |-> m,
               params |-> [B!WithUbatch(ParamsOf(window, slots), ubatch) EXCEPT !.kv = kv],
               budget |-> B!Reclaiming(B!BudgetOf(available), reclaimed)]

\* Readings of an engine at several batch sizes: on a line, scattered, falling.
Line(base, slope) == <<<<1, base + slope>>, <<2, base + 2 * slope>>, <<4, base + 4 * slope>>>>
Residuals ==
    {Line(10, 20), Line(30, 150), <<<<1, 100>>, <<2, 90>>, <<4, 150>>>>,
     <<<<1, 200>>, <<2, 100>>, <<4, 50>>>>, Line(5, 2), <<<<1, 60>>, <<2, 100>>>>,
     <<<<1, 60>>, <<2, 104>>, <<4, 170>>, <<1, 61>>>>, <<<<1, 30>>, <<2, 30>>, <<4, 30>>>>}
Reading(r, params, kind) ==
    [params |-> B!WithUbatch(params, r[1]), predicted |-> <<[weights |-> 40, kv_cache |-> 10]>>,
     peak_rss |-> <<r[2] + IF kind = "resident_set" THEN 50 ELSE 10>>, peak_kind |-> kind]
RunOf(readings, params, kind) ==
    [machine |-> [cpu |-> "m", memory |-> 9], engine |-> "e", architecture |-> "a",
     quantization |-> B!QuantizationLabel(HybridModel),
     samples |-> [i \in DOMAIN readings |-> Reading(readings[i], params, kind)]]
FitsOf(readings, window, slots) ==
    SetToSeq(B!FitRun(RunOf(readings, ParamsOf(window, slots), "resident_set")))
Calibration(fits) == [readable |-> fits # <<>>, fits |-> fits,
                      machine |-> [cpu |-> "m", memory |-> 9], engine |-> "e"]
Runs(in) ==
    \E readings, others \in Residuals, m \in {HybridModel, ModelOf(<<>>, <<>>, <<40>>, <<>>, <<2>>, <<0>>, <<60>>)},
       kind \in {"resident_set", "footprint"}, window \in {8, 16} :
         in = [run |-> RunOf(readings, ParamsOf(window, 1), kind), m |-> m,
               fits |-> FitsOf(others, 8, 1)]
LoadRequests(in) ==
    \E m \in ModelsOf, window \in {<<>>, <<64>>}, default \in {<<>>, <<16>>},
       ubatch \in {<<>>, <<2>>}, mode \in {<<>>, <<"mlock">>}, force \in BOOLEAN,
       available \in {<<>>, <<120>>, <<240>>, <<420>>, <<900>>},
       loaded \in {<<<<>>, <<>>>>, <<<<<<>>>>, <<>>>>, <<<<<<"mmap+mlock">>>>, <<[anon |-> <<50>>, rss |-> 120]>>>>},
       slots \in {<<>>, <<2>>},
       fits \in {<<>>, FitsOf(Line(30, 150), 32, 2), FitsOf(Line(10, 20), 8, 1)} :
         in = [o |-> [n_ctx |-> window, ubatch |-> ubatch, kv |-> <<>>, load_mode |-> mode,
                      force |-> force],
               w |-> [metadata |-> m, available |-> available, resident |-> loaded[1],
                      usage |-> loaded[2], defaults |-> [kv |-> "f16", concurrency |-> slots],
                      cores |-> 12, default_n_ctx |-> default,
                      calibration |-> Calibration(fits)]]

\* Benchmarks: plans, tokenizers that count anything, sweeps, runs on disk.
Plans(in) ==
    \E tokens \in {4, 8, 70}, n \in 0..3, at \in 1..3,
       scenarios \in {B!ALL_SCENARIOS, Append(B!ALL_SCENARIOS, "concurrent_decode"), <<>>},
       window \in {8, 100} :
         in = [plan |-> [B!DefaultPlan EXCEPT !.prompt_tokens = tokens, !.generate_tokens = 3,
                           !.repetitions = n, !.concurrent = at, !.scenarios = scenarios],
               params |-> ParamsOf(window, 1)]
Sweeps(in) ==
    \E parallel \in {<<1>>, <<1, 2>>, <<0, 3>>}, ubatch \in {<<1>>, <<2, 1>>, <<1, 9, 2>>},
       tokens \in {4, 20}, n \in 0..2, window \in {<<>>, <<16>>}, k \in 1..10 :
         in = [o |-> [parallel |-> parallel, ubatch |-> ubatch, prompt_tokens |-> tokens,
                      generate_tokens |-> 2, repetitions |-> n, n_ctx |-> window, kv |-> "f16"],
               available |-> 120 * k]
RunFiles(in) ==
    \E n \in 0..4 : \E named, parses \in [1..n -> BOOLEAN], at \in Permutations(1..n) :
         in = [i \in 1..n |-> [named |-> named[i], parses |-> parses[i], at |-> at[i]]]
Timed(n, ms) == [kind |-> "timings", predicted_n |-> n, cached_n |-> 0, prompt_n |-> n,
                 prompt_ms |-> ms, predicted_ms |-> ms]
Streams(in) ==
    \E events \in UpTo({[kind |-> "content"], [kind |-> "error"], Timed(0, 3), Timed(2, 0),
                        Timed(2, 3)}, 3),
       before, after \in {<<>>, <<[ticks |-> 3, peak |-> 9]>>, <<[ticks |-> 5, peak |-> 9]>>},
       machine \in {<<>>, <<0>>, <<4>>}, cores \in {0, 2} :
         in = [events |-> events, before |-> before, after |-> after, machine |-> machine,
               cores |-> cores]

(***************************************************************************)
\* A start: what varies is the network, then the keys, then the later stages.
StartWorld ==
    [profile |-> TRUE, config |-> [readable |-> TRUE, hosts |-> <<>>, port |-> None],
     names |-> ("localhost" :> <<"127.0.0.1", "::1">>) @@ ("box" :> <<"127.0.1.1">>)
               @@ ("mesh" :> <<"10.0.0.2">>) @@ ("gone" :> <<>>),
     held |-> {"127.0.0.1", "127.0.1.1", "::1", "0.0.0.0", "10.0.0.2"}, taken |-> {}, free |-> {7, 8},
     env_key |-> "unset", keys |-> [readable |-> TRUE, records |-> {"named"}],
     backend |-> TRUE, slots |-> 2, engine_slots |-> Some(1), catalog |-> TRUE]
Typed(form, n) == [form |-> form, n |-> n]
At(ip, port) == [ip |-> ip, port |-> port]
StoreOf(records) == [readable |-> records # {"unreadable"}, records |-> records]
Starts(in) ==
    \/ \E hosts \in UpTo({"", "127.0.0.1", "0.0.0.0", "localhost", "box", "mesh", "gone"}, 2),
          explicit \in BOOLEAN, file \in {<<>>, <<"mesh", "localhost">>}, filed \in {None, Some(1)},
          typed \in {Typed("number", S!DEFAULT_PORT), Typed("auto", 0), Typed("number", S!MaxU16 + 1)},
          taken \in {{}, {At("10.0.0.2", 7)}, {At("0.0.0.0", 1)}},
          gone \in {{}, {"10.0.0.2"}} :
          in = [o |-> [S!ServeOptions EXCEPT !.hosts = IF explicit THEN hosts ELSE @,
                                             !.hosts_explicit = explicit,
                                             !.port = typed, !.port_explicit = typed.form = "auto"],
                w |-> [StartWorld EXCEPT !.config = [@ EXCEPT !.hosts = file, !.port = filed],
                                         !.taken = taken, !.held = @ \ gone]]
    \/ \E hosts \in {<<"127.0.0.1">>, <<"mesh">>, <<"localhost", "mesh">>},
          key \in {None, Some(""), Some("static")}, env \in {"unset", "blank", "env"},
          proxy \in BOOLEAN, records \in {{}, {"named"}, {"unreadable"}} :
          in = [o |-> [S!ServeOptions EXCEPT !.hosts = hosts, !.hosts_explicit = TRUE,
                                             !.api_key = key, !.behind_proxy = proxy],
                w |-> [StartWorld EXCEPT !.env_key = env, !.keys = StoreOf(records)]]
    \/ \E model \in {None, Some("m")}, engine \in {None, Some(0), Some(1), Some(2)}, slots \in 0..2,
          typed \in {Typed("auto", 0), Typed("number", 0)}, kv \in {"f16", "unknown"},
          dirs, file, backend, catalog \in BOOLEAN :
          in = [o |-> [S!ServeOptions EXCEPT !.model = model, !.concurrency = typed, !.kv_type = kv],
                w |-> [StartWorld EXCEPT !.profile = dirs, !.config.readable = file,
                                         !.backend = backend, !.catalog = catalog,
                                         !.slots = slots, !.engine_slots = engine]]
Fleets(in) ==
    \E models \in UpTo([name : {"a", "b"}, path : {"m"}, port : 0..2,
                        profile : {None, Some("a"), Some("b")}], 2)
                 \cup {[i \in 1..n |-> [name |-> i, path |-> "m", port |-> i, profile |-> Some("a")]] :
                      n \in {S!MAX_MODELS + 1}},
       form \in {"ok", "unreadable"}, files \in {{}, {"m"}}, processes \in 1..2,
       records \in {{}, {"named"}, {"unreadable"}}, hosts \in {<<>>, <<"0.0.0.0">>, <<"gone">>} :
       in = [manifest |-> [form |-> form, models |-> models],
             f |-> [files |-> files, processes |-> processes,
                    worlds |-> ("a" :> [StartWorld EXCEPT !.keys = StoreOf(records)])
                               @@ ("b" :> [StartWorld EXCEPT !.config.hosts = hosts])]]

Init ==
    /\ output = None
    /\ \/ part = "file" /\ \/ input \in TimingFiles
                           \/ input \in NodeFiles
                           \/ input \in RouteFiles
                           \/ input \in PlacementFiles
                           \/ input \in FallbackFiles
                           \/ input \in RuleFiles
                           \/ input \in ClassifierFiles
       \/ part = "auto" /\ AutoInputs(input)
       \/ part = "history" /\ input \in Histories
       \/ part = "fit" /\ input \in Fits
       \/ part = "view" /\ input \in Moments
       \/ part = "ask" /\ input \in Asks(CheckAnswers, {ABody}, {0})
       \/ /\ part = "ask"
          /\ input \in Asks({AnAnswer}, [form : {"ok", "bad"}, route : {None, Some("r"), Some("q")}],
                           {1, 3})
       \/ part = "gateway" /\ GatewayInputs(input)
       \/ part = "error" /\ input \in G!AllErrors
       \/ part = "cpu" /\ \E cpu \in Cpus, arch \in {"x86_64", "aarch64"} :
                              input = [arch |-> arch, cpu |-> cpu]
       \/ part = "cpuinfo" /\ \E lines \in UpTo(CpuinfoLines, 4), n \in {None, Some(1), Some(4)} :
                                  input = [file |-> Some(lines), parallelism |-> n]
       \/ part = "addresses" /\ \/ \E lines \in UpTo(FibLines, 4) :
                                       input = [v4 |-> Some(lines), v6 |-> None]
                                \/ \E lines \in UpTo([is : {"address"}, ip : Addresses6] \cup
                                                      [is : {"short"}], 3), v4 \in {None, Some(<<>>)} :
                                       input = [v4 |-> v4, v6 |-> Some(lines)]
                                \/ input = [v4 |-> None, v6 |-> None]
       \/ part = "machine" /\ \E m \in Machines, paths \in BOOLEAN : input = [m |-> m, paths |-> paths]
       \/ part = "load" /\ \E later, earlier \in CpuSamples :
                               input = [later |-> later, earlier |-> earlier]
       \/ part = "logs" /\ \E d \in Directories, query \in Queries :
                               input = [directory |-> d, query |-> query]
       \/ part = "start" /\ Starts(input)
       \/ part = "fleet" /\ Fleets(input)
       \/ part = "model" /\ ModelFiles(input)
       \/ part = "estimate" /\ Estimates(input)
       \/ part = "calibrate" /\ Runs(input)
       \/ part = "admit" /\ LoadRequests(input)
       \/ part = "plan" /\ Plans(input)
       \/ part = "size" /\ \E target \in {1, 5, 9, 12}, counted \in [1..6 -> {0, 5, 6, 13}] :
                               input = [target |-> target, counted |-> counted]
       \/ part = "sweep" /\ Sweeps(input)
       \/ part = "list" /\ RunFiles(input)
       \/ part = "sample" /\ Streams(input)

Compute(value) == output = None /\ output' = Some(value) /\ UNCHANGED <<part, input>>

LoadFile == part = "file" /\ Compute(C!Validate(input))
RouteRequest ==
    part = "auto" /\ Compute(A!Routed(input.auto, input.needs, input.budget, input.answer))
PlayHistory == part = "history" /\ Compute(A!Play(input, TRUE, {"r", "s"}))
FilterRoute ==
    part = "fit" /\ Compute(A!FilterFit(input.up, {1, 2} \ ToSet(input.up), input.needs,
                                        input.observed))

Describe ==
    part = "view" /\ Compute([models |-> A!Models(input), health |-> A!Health(input),
                              capabilities |-> A!Capabilities(input)])
Ask == part = "ask" /\ Compute(A!ClassifierCheck(input.moment, input.answer))
Answer == part = "gateway" /\ Compute(G!Respond(input.q, input.w))
Report ==
    \/ part = "error" /\ Compute(G!FromError(input))
    \/ part = "cpu" /\ Compute(G!CpuReport(input.arch, input.cpu))
    \/ part = "cpuinfo" /\ Compute(G!CpuDetect(input.parallelism, G!Topology(input.file),
                                               G!DetectFeatures({"avx"})))
    \/ part = "addresses" /\ Compute(G!NetworkReport(input.v4, input.v6))
    \/ part = "machine" /\ Compute(G!SystemReport(input.paths, input.m))
    \/ part = "load" /\ Compute(G!UtilizationSince(input.later, input.earlier))
    \/ part = "logs" /\ Compute(G!ReadLogs(input.directory, G!Filter(input.query)))

Start ==
    \/ part = "start" /\ Compute(S!Serve(input.o, input.w))
    \/ part = "fleet" /\ Compute(S!FleetRun(input.manifest, input.f))

Measure ==
    \/ part = "model" /\ Compute(F!Open(input))
    \/ part = "estimate"
         /\ Compute(B!EstimateAgainst(input.m, input.params, input.budget, B!Headless))
    \/ part = "calibrate" /\ Compute(B!FitRun(input.run))
    \/ part = "admit" /\ Compute(B!LoadPlan(input.o, input.w))
    \/ part = "plan" /\ Compute(B!RunOf(input.plan, input.params))
    \/ part = "size" /\ Compute(B!SizedPrompt(input.target, input.counted))
    \/ part = "sweep" /\ Compute(B!Sweep(input.o, HybridModel, input.available))
    \/ part = "list" /\ Compute(B!ListRuns(input))
    \/ part = "sample"
         /\ Compute(B!OneWith(input.events, input.before, input.after, input.machine))

Next == Start \/ Measure \/ Answer \/ Report \/ LoadFile \/ RouteRequest \/ PlayHistory \/ FilterRoute \/ Describe \/ Ask

Spec == Init /\ [][Next]_vars

(***************************************************************************)
(* A configuration file that is accepted gives a topology with the         *)
(* invariants domain.rs promises, placement targets its routes can reach,  *)
(* and an Auto that always lands on a configured route along fallback      *)
(* lists without a cycle; given that every deployment names a node id that *)
(* parses.                                                                 *)
(***************************************************************************)
AcceptedIsSound ==
    part = "file" /\ output # None =>
        LET validated == output[1]
        IN  validated.errors = {} /\ C!EveryNodeIdParses(input) =>
                /\ C!TopologySound(validated.config)
                /\ C!PlacementReachable(validated.config)
                /\ C!AutoSound(validated.config)

(***************************************************************************)
(* The comment on Topology in domain.rs, without a condition on the file:  *)
(* every route has at least one deployment.                                *)
(***************************************************************************)
EveryRouteHasDeployments ==
    part = "file" /\ output # None /\ output[1].errors = {} =>
        \A i \in 1..Len(output[1].config.routes) :
            output[1].config.routes[i].deployments # <<>>

(***************************************************************************)
(* A request to Auto goes to one of the targets Auto shows its operator,   *)
(* to the classifier's fallback when nothing was chosen, and priors never  *)
(* overturn a confident verdict; a classification that is cut short names  *)
(* the limit that cut it.                                                  *)
(***************************************************************************)
AutoIsSound ==
    part = "auto" =>
        /\ A!RoutedSoundly(input.auto, input.needs, input.budget, input.answer)
        /\ A!BudgetIsNamed(input.auto.classifier, input.budget, input.answer)

(***************************************************************************)
(* The history's incremental decay is the sum of what was observed since   *)
(* the last reset, each success halved once per half-life.                 *)
(***************************************************************************)
HistoryIsTheSum ==
    part = "history" =>
        LET now == IF input = <<>> THEN 0 ELSE input[Len(input)].at + 1
        IN  A!DecayedIsTheSum(input, {"r", "s"}, now)

(***************************************************************************)
(* The capability filter keeps exactly the deployments that can serve the  *)
(* request and reports a mismatch exactly when none of the route can.      *)
(***************************************************************************)
FitIsReal ==
    part = "fit" => A!FitIsReal(input.up, {1, 2} \ ToSet(input.up), input.needs,
                                input.observed)

(***************************************************************************)
(* What the router tells is true of it at that moment: no route advertises *)
(* more than each deployment it may choose can serve, the endpoints agree  *)
(* with one another and with the routing, and the operator's own requests  *)
(* report what they did.                                                   *)
(***************************************************************************)
ViewsAreTruthful ==
    /\ part = "view" => /\ A!NeverAdvertisesMore(input)
                        /\ A!ViewsAgree(input)
                        /\ A!ReasonIsTrue(input)
    /\ part = "ask" => A!OperatorIsTold(input.moment, input.answer, input.body, input.pushed,
                                        input.capacity, input.limit)

(***************************************************************************)
(* Whoever asks the gateway for whatever, in whatever state it is: changes *)
(* are made only for callers and origins that may make them, strangers are *)
(* told the same whatever the gateway holds, a saved configuration is one  *)
(* the next start accepts, and what is served is what was asked for.       *)
(***************************************************************************)
GatewayAnswersRight ==
    part = "gateway" /\ output # None =>
        /\ G!ChangesAreAllowed(input.q, input.w, output[1])
        /\ G!StrangersLearnNothing(input.q, input.w, output[1])
        /\ G!SavedConfigCanStart(input.q, input.w, output[1])
        /\ G!AnswersAreTrue(input.q, input.w, output[1])

(***************************************************************************)
(* Every error tells a client the same of the same code, and its remedies  *)
(* fit its class; every reading of the machine, of its load and of the log *)
(* is what was there to read, or is reported as missing.                   *)
(***************************************************************************)
ReportsAreHonest ==
    /\ part = "error" => G!ErrorsAreConsistent(input)
    /\ part = "cpu" => G!ThreadsAreOffered(input.arch, input.cpu)
    /\ part = "cpuinfo" /\ output # None => output[1].physical >= 1 /\ output[1].logical >= 1
    /\ part = "addresses" => G!AddressesAreReachable(input.v4, input.v6)
    /\ part = "machine" => G!ReadingsAreHonest(input.paths, input.m)
    /\ part = "load" => G!LoadIsAShare(input.later, input.earlier) /\ G!ProfileIsContained(<<"p">>)
    /\ part = "logs" => G!LogsAreTheNewest(input.directory, input.query)

(***************************************************************************)
(* A gateway that others can reach is guarded, listens where it was asked  *)
(* to on one port, and touches the model only once all that is settled;    *)
(* the gateways of a fleet do not stand in one another's way.              *)
(***************************************************************************)
StartsAreSound ==
    output # None =>
        /\ part = "start" => /\ S!ReachableIsGuarded(input.o, input.w, output[1])
                             /\ S!ListensWhereAsked(input.o, input.w, output[1])
                             /\ S!ModelComesLast(input.o, input.w, output[1])
        /\ part = "fleet" => S!FleetIsIsolated(input.f, output[1])

(***************************************************************************)
(* A model is opened only when all of it is there, and described by what   *)
(* its file says.                                                          *)
(***************************************************************************)
ModelIsWhole ==
    part = "model" /\ output # None => F!OpenedIsWhole(input) /\ F!MetadataIsHonest(input)

(***************************************************************************)
(* What is admitted fits: an estimate's remedies would work and its slots  *)
(* are affordable, a load runs with a context that is safe for it and is   *)
(* the one its detail announces, a fit covers what was measured and is the *)
(* one that is used.                                                       *)
(***************************************************************************)
AdmittedFits ==
    output # None =>
        /\ part = "estimate" =>
              /\ B!RemediesWork(input.m, input.budget, output[1], B!Headless)
              /\ B!SlotsAreAffordable(input.m, 12, input.params, input.budget, B!Headless)
        /\ part = "admit" => /\ B!FittedIsSafe(input.o, input.w)
                             /\ B!AdmittedFits(input.o, input.w)
                             /\ B!StartupFits(input.o, input.w)
                             /\ B!DetailIsTheLoad(input.o, input.w)
        /\ part = "calibrate" =>
              /\ B!FitCoversSamples(input.run, input.m)
              /\ \A fit \in output[1], i \in DOMAIN input.fits :
                    B!LatestFitWins(input.fits, fit, input.fits[i])

(***************************************************************************)
(* A benchmark measures what it says: its prompts are distinct and of the  *)
(* length recorded, a sweep is whole, a sample has the engine's own        *)
(* timings, and the listing is the newest runs.                            *)
(***************************************************************************)
MeasuredIsMeant ==
    output # None =>
        /\ part = "plan" => B!PromptsAreDistinct(input.plan, input.params)
        /\ part = "size" => B!SizedIsCounted(input.target, input.counted)
        /\ part = "sweep" => B!SweepIsWhole(input.o, HybridModel, input.available)
        /\ part = "list" => B!ListingIsNewest(input)
        /\ part = "sample" => B!SampleIsMeasured(input.events, input.before, input.after,
                                                 input.machine, input.cores)

-----------------------------------------------------------------------------
\* What the router makes of its configuration, a request and its history.
RoutingIsSound == AcceptedIsSound /\ AutoIsSound /\ HistoryIsTheSum /\ FitIsReal

\* How a gateway starts, and what it and the router answer about themselves and
\* their machine.
AnswersAreTrue == ViewsAreTruthful /\ GatewayAnswersRight /\ ReportsAreHonest /\ StartsAreSound

\* What is said, admitted and measured of a model.
ModelsAreMeasuredRight == ModelIsWhole /\ AdmittedFits /\ MeasuredIsMeant
=============================================================================

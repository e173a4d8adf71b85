----------------------------- MODULE AutoRouting -----------------------------
(***************************************************************************)
(* What one request to Auto is decided from, as functions of their inputs: *)
(* its requirements (requirements.rs), the first rule it meets             *)
(* (auto_route.rs), the classification of a rule that asks for one         *)
(* (classifier/), the scoring of the verdict (scoring/mod.rs), the         *)
(* observational history (scoring/history.rs) and the capabilities the     *)
(* deployments of the route are filtered by (capability.rs).               *)
(*                                                                         *)
(* An optional value is a sequence of at most one element.  Confidences,   *)
(* weights and priors are integers in units of 1/Unit.  Time is in units   *)
(* of a tick; the history's half-life is one tick, and a success counts    *)
(* Scale, so that every decayed count is an integer.                       *)
(***************************************************************************)
EXTENDS Integers, Sequences, SequencesExt, FiniteSets, FiniteSetsExt, TLC

CONSTANTS Unit, Scale, MaxU32

None == <<>>
Some(x) == <<x>>
IsSome(option) == option # <<>>
Value(option) == option[1]
AtMost(a, b) == IF a <= b THEN a ELSE b

(***************************************************************************)
(* Requirements.  A body is unparsed (not the shape of its endpoint),      *)
(* invalid (parsed, then refused), or the traits of a request.             *)
(***************************************************************************)
BYTES_PER_TOKEN_CEILING == 6

\* RequestRequirements.
NoNeeds == [endpoint |-> None, tools |-> FALSE, tool_choice |-> "unspecified",
            reasoning |-> FALSE, prompt_tokens |-> None]

\* tokens_at_least: the bytes divided by the ceiling, rounded up.
TokensAtLeast(bytes) ==
    AtMost((bytes + BYTES_PER_TOKEN_CEILING - 1) \div BYTES_PER_TOKEN_CEILING, MaxU32)

\* chat_bytes: the content of every message.
ChatBytes(messages) == FoldLeft(LAMBDA sum, m : sum + m.bytes, 0, messages)

\* chat_requirements.
ChatRequirements(body) ==
    [endpoint |-> Some("chat"), tools |-> body.tools, tool_choice |-> body.tool_choice,
     reasoning |-> body.reasoning, prompt_tokens |-> Some(TokensAtLeast(ChatBytes(body.messages)))]

\* extract: the requirements, or nothing when the request is refused.  The
\* largest prompt of a text completion decides.
Extract(endpoint, body) ==
    CASE body.kind = "unparsed" -> Some([NoNeeds EXCEPT !.endpoint = Some(endpoint)])
      [] body.kind = "invalid" -> None
      [] body.kind = "request" /\ endpoint = "chat" -> Some(ChatRequirements(body))
      [] body.kind = "request" /\ endpoint = "completion" ->
           LET largest == FoldLeft(LAMBDA most, m : IF m.bytes > most THEN m.bytes ELSE most,
                                   0, body.messages)
           IN  Some([NoNeeds EXCEPT !.endpoint = Some(endpoint),
                                    !.prompt_tokens = Some(TokensAtLeast(largest))])

\* needs_tool_choice.
NeedsToolChoice(needs) ==
    \/ needs.tool_choice \in {"required", "function"}
    \/ needs.tool_choice = "none" /\ needs.tools

\* Mutant of RequiredContext: no room for the answer.
PromptAlone(needs) == AtMost(Value(needs.prompt_tokens), MaxU32)

\* required_context: room for the prompt and one token of answer.
RequiredContext(needs) == AtMost(Value(needs.prompt_tokens) + 1, MaxU32)

(***************************************************************************)
(* Capabilities.                                                           *)
(***************************************************************************)
\* gaps, given what the router has observed of a deployment, if anything.
Gaps(needs, seen) ==
    LET requiresAnything == \/ IsSome(needs.endpoint) \/ needs.tools \/ NeedsToolChoice(needs)
                            \/ needs.reasoning \/ IsSome(needs.prompt_tokens)
        gap(condition, name) == IF condition THEN {name} ELSE {}
    IN  IF ~IsSome(seen) THEN gap(requiresAnything, "unobserved")
        ELSE LET f == Value(seen)
             IN  gap(needs.endpoint = Some("chat") /\ "chat" \notin f.features, "chat")
                 \cup gap(/\ needs.endpoint = Some("completion")
                          /\ "completion" \notin f.features, "completion")
                 \cup gap(needs.tools /\ "tools" \notin f.features, "tools")
                 \cup gap(/\ NeedsToolChoice(needs)
                          /\ ~({"tools", "tool_choice"} \subseteq f.features), "tool_choice")
                 \cup gap(needs.reasoning /\ "reasoning" \notin f.features, "reasoning")
                 \cup gap(/\ IsSome(needs.prompt_tokens)
                          /\ RequiredContext(needs) > f.context, "context")

\* filter: the candidates without a gap, in order; when there is none, the
\* route is unavailable if a deployment that is down would have done, and
\* otherwise cannot serve the request.
FilterFit(candidates, skipped, needs, observed) ==
    LET fit == SelectSeq(candidates, LAMBDA d : Gaps(needs, observed[d]) = {})
        downWouldDo == \E d \in skipped : IsSome(observed[d]) /\ Gaps(needs, observed[d]) = {}
        unmet == UNION {Gaps(needs, observed[d]) : d \in ToSet(candidates)}
    IN  IF fit # <<>> THEN [outcome |-> "fit", plan |-> fit, unmet |-> {}]
        ELSE IF downWouldDo THEN [outcome |-> "unavailable", plan |-> <<>>, unmet |-> {}]
        ELSE [outcome |-> "mismatch", plan |-> <<>>, unmet |-> unmet]

(***************************************************************************)
(* Rules.                                                                  *)
(***************************************************************************)
\* AutoCondition::matches: every condition that is set holds; a bound on the
\* prompt fails when its size is not known.
Matches(when, needs) ==
    /\ IsSome(when.endpoint) => needs.endpoint = when.endpoint
    /\ IsSome(when.requires_tools) => needs.tools = Value(when.requires_tools)
    /\ IsSome(when.tool_choice) => needs.tool_choice = Value(when.tool_choice)
    /\ IsSome(when.requires_reasoning) => needs.reasoning = Value(when.requires_reasoning)
    /\ IsSome(when.min_prompt_tokens) =>
          /\ IsSome(needs.prompt_tokens)
          /\ Value(needs.prompt_tokens) >= Value(when.min_prompt_tokens)
    /\ IsSome(when.max_prompt_tokens) =>
          /\ IsSome(needs.prompt_tokens)
          /\ Value(needs.prompt_tokens) <= Value(when.max_prompt_tokens)

\* claims.
Claims(auto, requested) == auto.enabled /\ requested = Some("auto")

\* decide: the first rule that matches, else the fallback.
DecideRule(auto, needs) ==
    LET matching == {i \in 1..Len(auto.rules) : Matches(auto.rules[i].when, needs)}
    IN  IF matching = {} THEN [route |-> auto.fallback, rule |-> 0, classify |-> FALSE]
        ELSE LET first == CHOOSE i \in matching : \A j \in matching : i <= j
             IN  [route |-> auto.rules[first].route, rule |-> first,
                  classify |-> auto.rules[first].classify]

\* targets: in the order of the rules, the candidates where the first rule
\* that classifies stands, and the fallback last; each route once.
Targets(auto) ==
    LET visit(state, rule) ==
          LET before == IF rule.classify /\ ~state.classified
                        THEN auto.classifier.candidates ELSE <<>>
          IN  [classified |-> state.classified \/ rule.classify,
               ordered |-> state.ordered \o before \o <<rule.route>>]
        ordered == FoldLeft(visit, [classified |-> FALSE, ordered |-> <<>>], auto.rules).ordered
        once(seq, route) == IF route \in ToSet(seq) THEN seq ELSE Append(seq, route)
    IN  FoldLeft(once, <<>>, Append(ordered, auto.fallback))

(***************************************************************************)
(* Classification.  A name is [word, upper]; the answer of a provider is   *)
(* [transport, status, exhausted, body, at], with at the tick it is read.  *)
(***************************************************************************)
\* ClassificationInput::read: the last message of the user, else the last
\* message; of a text completion, the first prompt.
InputText(endpoint, messages) ==
    LET users == {i \in 1..Len(messages) : messages[i].role = "user"}
        last == IF users # {} THEN CHOOSE i \in users : \A j \in users : j <= i
                ELSE Len(messages)
    IN  IF messages = <<>> THEN 0
        ELSE IF endpoint = "completion" THEN messages[1].bytes ELSE messages[last].bytes

\* truncate.
Truncate(chars, max) == [chars |-> AtMost(chars, max), truncated |-> chars > max]

ClassificationInput(endpoint, body, needs, max) ==
    Truncate(IF body.kind = "request" THEN InputText(endpoint, body.messages) ELSE 0, max)
    @@ [needs |-> needs]

\* The confidence of an answer, when it is a number between 0 and 1.
Confidence(body) == IF IsSome(body.confidence) /\ Value(body.confidence) \in 0..Unit
                    THEN body.confidence ELSE None

\* lightweight::parse_answer: the candidate named, ignoring case.
ParseAnswer(body, candidates) ==
    LET named == {c \in ToSet(candidates) : c.word = body.route.word}
    IN  IF body.shape # "ok" \/ named = {} \/ ~IsSome(Confidence(body)) THEN None
        ELSE Some([route |-> CHOOSE c \in named : TRUE,
                   confidence |-> Value(Confidence(body))])

\* jev::parse_response: the candidate named, as it was written.
ParseResponse(body, candidates) ==
    IF \/ body.shape # "ok" \/ body.route \notin ToSet(candidates)
       \/ ~IsSome(Confidence(body))
    THEN None
    ELSE Some([route |-> body.route, confidence |-> Value(Confidence(body))])

\* failure_for.
FailureFor(status) ==
    CASE status \in {401, 403} -> "auth_error"
      [] status \in {429, 529} -> "rate_limited"
      [] OTHER -> "provider_error"

\* transport_failure.
TransportFailure(transport) == IF transport = "timeout" THEN "timeout" ELSE "connection_error"

Verdict(parsed) == IF IsSome(parsed) THEN [outcome |-> "verdict", verdict |-> parsed]
                   ELSE [outcome |-> "invalid", verdict |-> None]
Failed(outcome) == [outcome |-> outcome, verdict |-> None]

\* jev::read_limited: nothing when the stream fails or is too long.
ReadLimited(body) == body.length = "within"

\* jev::call.
JevCall(key, answer, candidates) ==
    CASE ~key -> Failed("auth_error")
      [] key /\ answer.transport # "ok" -> Failed(TransportFailure(answer.transport))
      [] key /\ answer.transport = "ok" /\ answer.status # 200 ->
           Failed(FailureFor(answer.status))
      [] OTHER -> IF ReadLimited(answer.body)
                  THEN Verdict(ParseResponse(answer.body, candidates)) ELSE Failed("invalid")

\* lightweight::call: the nested request goes through the router itself, so
\* its answer may be that the budget is spent.
LightweightCall(answer, candidates) ==
    CASE answer.exhausted -> Failed("request_budget_exhausted")
      [] ~answer.exhausted /\ (answer.transport # "ok" \/ answer.status # 200) ->
           Failed("unavailable")
      [] OTHER -> IF answer.body.length = "within"
                  THEN Verdict(ParseAnswer(answer.body, candidates))
                  ELSE Failed("unavailable")

\* classify, begun at tick 0: the call is cut at the earlier of the
\* provider's timeout and the budget's deadline, and the one that cut it
\* names the outcome.
Classify(classifier, budget, answer) ==
    LET budgetFirst == IsSome(budget) /\ Value(budget) <= classifier.timeout
        deadline == IF budgetFirst THEN Value(budget) ELSE classifier.timeout
        called == IF classifier.provider = "jev"
                  THEN JevCall(classifier.key, answer, classifier.candidates)
                  ELSE LightweightCall(answer, classifier.candidates)
    IN  IF IsSome(budget) /\ Value(budget) <= 0 THEN Failed("request_budget_exhausted")
        ELSE IF answer.at > deadline /\ ~(classifier.provider = "jev" /\ ~classifier.key)
        THEN Failed(IF budgetFirst THEN "request_budget_exhausted" ELSE "timeout")
        ELSE IF called.outcome # "verdict" THEN called
        ELSE [called EXCEPT !.outcome =
                IF Value(called.verdict).confidence < classifier.min_confidence
                THEN "low_confidence" ELSE "chosen"]

\* Classification::route.
ClassifiedRoute(classification, classifier) ==
    IF classification.outcome = "chosen" THEN Value(classification.verdict).route
    ELSE classifier.fallback

\* ClassifierStatus::record: what the operator is shown last.
ProviderAnswered(outcome) == outcome \in {"chosen", "low_confidence"}
RecordStatus(status, outcome, now) ==
    IF ProviderAnswered(outcome) THEN [status EXCEPT !.last_success = Some(now)]
    ELSE IF outcome \notin {"nested", "request_budget_exhausted"}
    THEN [status EXCEPT !.last_failure = Some([at |-> now, kind |-> outcome])]
    ELSE status

(***************************************************************************)
(* Adaptive scoring.                                                       *)
(***************************************************************************)
\* AdaptiveScoring::prior.
Prior(scoring, route) ==
    LET own == {i \in 1..Len(scoring.priors) : scoring.priors[i].route = route}
    IN  IF own = {} THEN 0 ELSE scoring.priors[CHOOSE i \in own : TRUE].value

\* The total score of a route, in units of 1/(Unit * Unit); the history's
\* signal is zero.
Score(scoring, route, confidence) ==
    scoring.weights.classifier * confidence + scoring.weights.prior * Prior(scoring, route)

\* scoring::decide: only a chosen verdict is contested, and only by the
\* fallback, which must score strictly more.
DecideScored(scoring, classification, classifier) ==
    LET classified == ClassifiedRoute(classification, classifier)
        verdict == Value(classification.verdict)
        verdictScore == Score(scoring, verdict.route, verdict.confidence)
        fallbackScore == Score(scoring, classifier.fallback, classifier.min_confidence)
    IN  CASE classification.outcome = "low_confidence" ->
               [route |-> classified, reason |-> "below_threshold"]
          [] classification.outcome = "chosen" /\ verdict.route = classifier.fallback ->
               [route |-> verdict.route, reason |-> "uncontested"]
          [] classification.outcome = "chosen" /\ verdict.route # classifier.fallback ->
               [route |-> IF fallbackScore > verdictScore THEN classifier.fallback
                          ELSE verdict.route,
                reason |-> "scored"]
          [] OTHER -> [route |-> classified, reason |-> "no_verdict"]

(***************************************************************************)
(* History: the decayed successes of a route and plain counters of the     *)
(* rest.  A book is recording when it has a policy.                        *)
(***************************************************************************)
\* Record::default.
EmptyRecord == [successes |-> 0, decayed_at |-> None, other |-> 0]

\* HistoryBook::new.
NewBook(routes) == [route \in routes |-> EmptyRecord]

\* Observation::of_outcome.
ObservationOf(outcome) ==
    CASE outcome = "ok" -> "success"
      [] outcome \in {"server_error", "interrupted", "unavailable"} -> outcome
      [] OTHER -> "neutral"

\* decay_factor, as the division it stands for: half after each tick.
Decay(count, elapsed) == count \div 2 ^ elapsed

\* Record::decayed; an elapsed time is never negative.
Decayed(record, now) ==
    IF ~IsSome(record.decayed_at) THEN record.successes
    ELSE Decay(record.successes,
               IF now > Value(record.decayed_at) THEN now - Value(record.decayed_at) ELSE 0)

\* HistoryBook::observe.
Observe(book, recording, route, observation, now) ==
    IF ~recording \/ route \notin DOMAIN book THEN book
    ELSE IF observation = "success"
    THEN [book EXCEPT ![route] = [book[route] EXCEPT !.successes = Decayed(book[route], now) + Scale,
                                                     !.decayed_at = Some(now)]]
    ELSE [book EXCEPT ![route].other = @ + 1]

\* HistoryBook::reset, of one route or of all.
Reset(book, route) ==
    IF IsSome(route)
    THEN IF Value(route) \in DOMAIN book THEN [book EXCEPT ![Value(route)] = EmptyRecord]
         ELSE book
    ELSE NewBook(DOMAIN book)

\* observations_of and HistoryBook::observations; view lists them for all.
ObservationsOf(successes, policy) ==
    [effective |-> successes, reached |-> successes >= policy.min_samples * Scale]
Observations(book, policy, route, now) ==
    IF IsSome(policy) /\ route \in DOMAIN book
    THEN ObservationsOf(Decayed(book[route], now), Value(policy))
    ELSE [effective |-> 0, reached |-> FALSE]

\* signal_of: the shrunk success rate, doubled and less one, as a fraction;
\* zero below min_samples.
SignalOf(successes, policy) ==
    LET k == policy.shrinkage_samples * Scale
    IN  IF successes < policy.min_samples * Scale THEN [num |-> 0, den |-> 1]
        ELSE [num |-> 2 * successes + k - (successes + k), den |-> successes + k]

\* An event of the book: an observation or a reset, at a tick.
Play(events, recording, routes) ==
    FoldLeft(LAMBDA book, e : IF e.kind = "reset" THEN Reset(book, e.route)
                              ELSE Observe(book, recording, Value(e.route),
                                           ObservationOf(e.kind), e.at),
             NewBook(routes), events)

(***************************************************************************)
(* One request to Auto, from its body to the route that will answer it.    *)
(***************************************************************************)
Routed(auto, needs, budget, answer) ==
    LET decision == DecideRule(auto, needs)
        classification == Classify(auto.classifier, budget, answer)
    IN  IF ~decision.classify THEN [route |-> decision.route, reason |-> "rule"]
        ELSE IF ~IsSome(auto.scoring)
        THEN [route |-> ClassifiedRoute(classification, auto.classifier),
              reason |-> classification.outcome]
        ELSE DecideScored(Value(auto.scoring), classification, auto.classifier)

(***************************************************************************)
(* What these functions promise.                                           *)
(***************************************************************************)
\* Wherever a request is sent is one of the targets Auto shows its operator,
\* it is the classifier's fallback when the classification chose nothing,
\* and priors within their accepted radius never overturn a verdict in the
\* upper half of the accepted confidence.
RoutedSoundly(auto, needs, budget, answer) ==
    LET routed == Routed(auto, needs, budget, answer)
        classification == Classify(auto.classifier, budget, answer)
        classifying == DecideRule(auto, needs).classify
    IN  /\ routed.route \in ToSet(Targets(auto))
        /\ classifying /\ classification.outcome # "chosen" =>
              routed.route = auto.classifier.fallback
        /\ classifying /\ classification.outcome = "chosen" =>
              LET verdict == Value(classification.verdict)
              IN  /\ verdict.route \in ToSet(auto.classifier.candidates)
                  /\ 2 * verdict.confidence >= Unit + auto.classifier.min_confidence =>
                        routed.route = verdict.route

\* A classification within a budget never outlives it, and the budget is
\* named only when it, and not the provider's own timeout, ran out.
BudgetIsNamed(classifier, budget, answer) ==
    LET outcome == Classify(classifier, budget, answer).outcome
        late(limit) == answer.at > limit
    IN  ~answer.exhausted /\ (classifier.provider = "jev" => classifier.key) =>
          /\ outcome = "request_budget_exhausted" <=>
                /\ IsSome(budget)
                /\ \/ Value(budget) <= 0
                   \/ late(Value(budget)) /\ Value(budget) <= classifier.timeout
          /\ IsSome(budget) /\ late(Value(budget)) => ~ProviderAnswered(outcome)

\* The decayed count kept incrementally is the sum the definition gives: each
\* success since the last reset of its route, halved once per tick since.
DecayedIsTheSum(events, routes, now) ==
    \A route \in routes :
        LET clears(i) == events[i].kind = "reset" /\ events[i].route \in {None, Some(route)}
            last == {i \in 1..Len(events) : clears(i)}
            counted == {i \in 1..Len(events) : /\ \A j \in last : j < i
                                               /\ events[i].kind = "ok"
                                               /\ events[i].route = Some(route)}
            sum == FoldLeft(LAMBDA total, i : IF i \in counted
                                              THEN total + Decay(Scale, now - events[i].at)
                                              ELSE total,
                            0, [i \in 1..Len(events) |-> i])
        IN  Decayed(Play(events, TRUE, routes)[route], now) = sum

\* A deployment in the plan can serve the request, the plan keeps the order
\* of the candidates, and an empty plan is called a mismatch only when no
\* deployment of the route, up or down, is known to fit.
FitIsReal(candidates, skipped, needs, observed) ==
    LET result == FilterFit(candidates, skipped, needs, observed)
        serves(d) ==
          /\ IsSome(observed[d])
          /\ LET f == Value(observed[d])
             IN  /\ IsSome(needs.endpoint) => Value(needs.endpoint) \in f.features
                 /\ needs.tools => "tools" \in f.features
                 /\ needs.reasoning => "reasoning" \in f.features
                 /\ NeedsToolChoice(needs) => {"tools", "tool_choice"} \subseteq f.features
                 /\ IsSome(needs.prompt_tokens) => Value(needs.prompt_tokens) < f.context
    IN  /\ result.plan = SelectSeq(candidates, serves)
        /\ result.outcome = "mismatch" <=>
              \A d \in ToSet(candidates) \cup skipped : ~serves(d)

-----------------------------------------------------------------------------
(***************************************************************************)
(* What the router tells its clients and its operator                      *)
(* (crates/lightweight-router/src/api.rs, error.rs, the reporting half of  *)
(* select.rs and domain.rs, classifier/jev.rs check, trace.rs).            *)
(*                                                                         *)
(* Pure functions of one moment of the router, a record i with             *)
(*   routes    sequence of [name, policy, deployments, target]             *)
(*   default   position of the default route, 0 without one                *)
(*   nodeOf    deployment -> node                                          *)
(*   enabled   the nodes switched on                                       *)
(*   health    node -> "unknown", "healthy" or "unhealthy"                 *)
(*   served    node -> deployment whose model it said it serves, or Nothing*)
(*   observed  deployment -> option of [context, features, slots]          *)
(*   loading   the deployments being loaded                                *)
(*   auto      option of the Auto section                                  *)
(***************************************************************************)
CONSTANT Features   \* the fields of FeatureSet

Nothing == "none"
Option(set) == {<<>>} \cup {<<x>> : x \in set}
MinOf(set) == IF set = {} THEN <<>> ELSE <<Min(set)>>

RoutePolicy == {"priority", "round_robin", "least_busy"}
NodeHealth == {"unknown", "healthy", "unhealthy"}
UnavailableReason == {"node_disabled", "node_unknown", "node_unhealthy", "model_not_served"}

\* CapabilitySet::intersect and none, over the fields of FeatureSet.
Intersect(sets) == {f \in Features : \A s \in sets : f \in s}
NoFeatures == {}

Deployments(i) == DOMAIN i.nodeOf
RoutesUsing(i, d) == {r \in ToSet(i.routes) : d \in ToSet(r.deployments)}
DefaultRoute(i) == IF i.default = 0 THEN <<>> ELSE <<i.routes[i.default]>>

-----------------------------------------------------------------------------
(* What can be reached. *)

\* health::availability: "available", or the reason against it.
Availability(i, d) ==
    LET n == i.nodeOf[d]
    IN  IF n \notin i.enabled THEN "node_disabled"
        ELSE IF i.health[n] = "unknown" THEN "node_unknown"
        ELSE IF i.health[n] = "unhealthy" THEN "node_unhealthy"
        ELSE IF i.served[n] # d THEN "model_not_served" ELSE "available"

\* eligible: the candidates in configured order, with their positions, and
\* those skipped.  No candidate is RouteUnavailable.
Eligible(i, route) ==
    LET positions == [p \in 1..Len(route.deployments) |-> p]
        up(p) == Availability(i, route.deployments[p]) = "available"
    IN  [candidates |-> SelectSeq(positions, up),
         skipped |-> SelectSeq(positions, LAMBDA p : ~up(p))]

\* Plan::decision: why this attempt goes where it goes.  tied: least-busy
\* broke a tie; hit: the session's own deployment.
Decision(route, candidates, attempt, tied, hit) ==
    IF attempt = 1 /\ hit THEN "session_affinity"
    ELSE CASE route.policy = "priority" ->
                IF Len(route.deployments) = 1 THEN "explicit_single_deployment"
                ELSE IF attempt > 1 THEN "primary_failed_fallback"
                ELSE IF candidates[1] = 1 THEN "primary_healthy"
                ELSE "primary_unavailable_fallback"
           [] route.policy = "round_robin" ->
                IF attempt > 1 THEN "round_robin_failover" ELSE "round_robin"
           [] route.policy = "least_busy" ->
                IF attempt > 1 THEN "least_busy_failover"
                ELSE IF tied THEN "least_busy_tiebreak" ELSE "least_busy"

NoSummary(available) ==
    [available |-> available, context |-> <<>>, features |-> NoFeatures, slots |-> <<>>]

\* Every one is not asked for: those observed speak for the others.
SummarizeObserved(i, route) ==
    LET ring == {route.deployments[p] : p \in ToSet(Eligible(i, route).candidates)}
        seen == {i.observed[d][1] : d \in {e \in ring : i.observed[e] # <<>>}}
    IN  IF ring = {} THEN NoSummary(FALSE)
        ELSE IF seen = {} THEN NoSummary(TRUE)
        ELSE [available |-> TRUE,
              context |-> MinOf({s.context : s \in seen}),
              features |-> Intersect({s.features : s \in seen}),
              slots |-> MinOf({s.slots : s \in seen})]

\* summarize: over exactly the eligible deployments, and nothing at all once
\* one of them was never observed.
Summarize(i, route) ==
    LET ring == {route.deployments[p] : p \in ToSet(Eligible(i, route).candidates)}
        seen == {i.observed[d][1] : d \in {e \in ring : i.observed[e] # <<>>}}
    IN  IF ring = {} THEN NoSummary(FALSE)
        ELSE IF \E d \in ring : i.observed[d] = <<>> THEN NoSummary(TRUE)
        ELSE [available |-> TRUE,
              context |-> MinOf({s.context : s \in seen}),
              features |-> Intersect({s.features : s \in seen}),
              slots |-> MinOf({s.slots : s \in seen})]

-----------------------------------------------------------------------------
(* The endpoints. *)

\* GET /v1/models: every route, available or not, then Auto when it is on.
Models(i) ==
    [r \in 1..Len(i.routes) |->
        [id |-> i.routes[r].name, context |-> Summarize(i, i.routes[r]).context]]
    \o (IF i.auto # <<>> /\ i.auto[1].enabled THEN <<[id |-> "Auto", context |-> <<>>]>>
        ELSE <<>>)

\* GET /v1/capabilities: what every available route supports.
Capabilities(i) ==
    LET view == [r \in 1..Len(i.routes) |-> Summarize(i, i.routes[r])]
        up == {r \in DOMAIN view : view[r].available}
        limits == {view[r].slots[1] : r \in {s \in up : view[s].slots # <<>>}}
    IN  [features |-> IF up = {} THEN NoFeatures
                      ELSE Intersect({view[r].features : r \in up}),
         slots |-> IF limits = {} THEN 0 ELSE Min(limits),
         loaded |-> up # {},
         \* The default route, only with a context it is known to have.
         model |-> IF i.default \in up /\ view[i.default].context # <<>>
                   THEN <<[id |-> i.routes[i.default].name,
                           context |-> view[i.default].context[1]]>> ELSE <<>>,
         routes |-> [r \in 1..Len(i.routes) |->
                       [id |-> i.routes[r].name, available |-> view[r].available,
                        context |-> view[r].context, features |-> view[r].features]],
         auto |-> IF i.auto # <<>> /\ i.auto[1].enabled THEN <<i.auto[1].targets>> ELSE <<>>]

\* GET /health.
Health(i) ==
    LET up == {r \in 1..Len(i.routes) : Summarize(i, i.routes[r]).available}
    IN  [status |-> IF up = {} THEN "unavailable"
                    ELSE IF Cardinality(up) = Len(i.routes) THEN "ok" ELSE "degraded",
         available |-> Cardinality(up), routes |-> Len(i.routes)]

\* deployment_availability, and GET /api/router/v1/routes.
RoutesView(i) ==
    [r \in 1..Len(i.routes) |->
        [name |-> i.routes[r].name,
         available |-> Summarize(i, i.routes[r]).available,
         deployments |-> [p \in 1..Len(i.routes[r].deployments) |->
             [id |-> i.routes[r].deployments[p], priority |-> p,
              reason |-> Availability(i, i.routes[r].deployments[p])]]]]

\* GET /api/router/v1/deployments.
DeploymentsView(i) ==
    [d \in Deployments(i) |->
        [routes |-> {r.name : r \in RoutesUsing(i, d)},
         available |-> Availability(i, d) = "available",
         observed |-> i.observed[d]]]

\* node_json, and GET /api/router/v1/nodes.
NodesView(i) ==
    [n \in DOMAIN i.health |->
        [enabled |-> n \in i.enabled, health |-> i.health[n], serving |-> i.served[n]]]

\* GET /api/router/v1/health.
HealthDetail(i) ==
    [nodes |-> NodesView(i),
     routes |-> [r \in 1..Len(i.routes) |->
                   [name |-> i.routes[r].name,
                    available |-> Summarize(i, i.routes[r]).available]]]

\* Assessment, one route with a target.
PlacementState(i, d) ==
    LET n == i.nodeOf[d]
    IN  IF Availability(i, d) = "available" THEN "ready"
        ELSE IF d \in i.loading THEN "loading"
        ELSE IF Availability(i, d) = "model_not_served"
             THEN IF i.served[n] = Nothing THEN "empty" ELSE "occupied"
        ELSE "unavailable"

\* GET /api/router/v1/placement: the routes with a target, in order.
PlacementView(i) ==
    LET wanted == SelectSeq(i.routes, LAMBDA r : r.target # <<>>)
        count(r, state) == Cardinality({d \in ToSet(r.deployments) :
                                            PlacementState(i, d) = state})
        row(r) ==
            LET min == r.target[1].min_ready
                target == min + r.target[1].warm_standby
                ready == count(r, "ready")
                short == count(r, "ready") + count(r, "loading")
            IN  [route |-> r.name, target |-> target, ready |-> ready,
                 standby |-> IF ready > min THEN ready - min ELSE 0,
                 pending |-> IF short >= target THEN 0 ELSE target - short,
                 status |-> IF ready >= target THEN "satisfied"
                            ELSE IF ready >= min THEN "below_target" ELSE "below_min"]
    IN  [enabled |-> wanted # <<>>, routes |-> [k \in 1..Len(wanted) |-> row(wanted[k])]]

\* POST placement/reconcile: only a wake of the controller.
Reconcile(i) ==
    IF \A r \in ToSet(i.routes) : r.target = <<>> THEN "placement_not_configured"
    ELSE "scheduled"

\* GET /api/router/v1/auto: every configured provider, the one in use marked.
AutoRules(i) ==
    IF i.auto = <<>> THEN [configured |-> FALSE, enabled |-> FALSE, providers |-> {}]
    ELSE LET a == i.auto[1]
             kinds == IF a.classifier = <<>> THEN {}
                      ELSE {a.classifier[1].provider} \cup ToSet(a.classifier[1].standby)
         IN  [configured |-> TRUE, enabled |-> a.enabled,
              providers |-> {[kind |-> k, active |-> k = a.classifier[1].provider] : k \in kinds}]

\* POST adaptive-scoring/reset.  body: option of the parsed request, itself
\* an option of a route name; "bad" for anything else.
AdaptiveScoringReset(i, body) ==
    LET recording == i.auto # <<>> /\ i.auto[1].scoring
        names == {r.name : r \in ToSet(i.routes)}
    IN  IF ~recording THEN [status |-> 409, reset |-> {}]
        ELSE IF body.form = "bad" THEN [status |-> 400, reset |-> {}]
        ELSE IF body.route = <<>> THEN [status |-> 200, reset |-> names]
        ELSE IF body.route[1] \in names THEN [status |-> 200, reset |-> {body.route[1]}]
        ELSE [status |-> 404, reset |-> {}]

\* listed_models, and jev::check: the answer of TypeSafe, as the panel's
\* Test Connection reports it.
ListedModels(body) == IF body.form = "models" THEN <<body.names>> ELSE <<>>
JevCheck(key, answer, model) ==
    IF ~key THEN "api_key_missing"
    ELSE IF answer.sent # "answered" THEN answer.sent
    ELSE IF answer.status # 200
         THEN IF answer.status \in {401, 403} THEN "auth_error"
              ELSE IF answer.status \in {429, 529} THEN "rate_limited" ELSE "provider_error"
    ELSE IF answer.read # "whole" THEN answer.read
    ELSE IF ListedModels(answer.body) = <<>> THEN "invalid_response"
    ELSE IF model \in ListedModels(answer.body)[1] THEN "ok" ELSE "model_not_listed"

\* POST classifier/check: the Lightweight provider is its route's availability.
ClassifierCheck(i, answer) ==
    IF i.auto = <<>> \/ i.auto[1].classifier = <<>> THEN "classifier_not_configured"
    ELSE LET c == i.auto[1].classifier[1]
         IN  IF c.provider = "jev" THEN JevCheck(c.key, answer, c.model)
             ELSE IF \E r \in ToSet(i.routes) :
                        r.name = c.route /\ Summarize(i, r).available
                  THEN "ok" ELSE "route_unavailable"

\* routing_failure: what a request that cannot be routed is told.
RoutingFailure(kind) ==
    CASE kind = "UnknownRoute" -> [status |-> 404, retry |-> FALSE]
      [] kind = "NoDefaultRoute" -> [status |-> 400, retry |-> FALSE]
      [] kind = "RouteUnavailable" -> [status |-> 503, retry |-> TRUE]
      [] kind = "CapabilityMismatch" -> [status |-> 400, retry |-> FALSE]

\* TraceBook::push and recent: a ring of the newest, read newest first.
Push(traces, trace, capacity) ==
    IF capacity = 0 THEN traces
    ELSE LET kept == IF Len(traces) >= capacity
                     THEN SubSeq(traces, Len(traces) - capacity + 2, Len(traces)) ELSE traces
         IN  Append(kept, trace)
Recent(traces, limit) ==
    LET newest == Reverse(traces)
    IN  SubSeq(newest, 1, IF Len(newest) < limit THEN Len(newest) ELSE limit)

\* GET /api/router/v1/traces: fifty unless asked, never more than are kept.
Traces(traces, limit, capacity) ==
    LET asked == IF limit = <<>> THEN 50 ELSE limit[1]
    IN  Recent(traces, IF asked < capacity THEN asked ELSE capacity)

-----------------------------------------------------------------------------
(* What must hold of them. *)

\* A route never advertises more context, or a feature, than a deployment it
\* might send the request to now can serve, and the router as a whole nothing
\* an available route does not.
NeverAdvertisesMore(i) ==
    \A r \in ToSet(i.routes) :
        LET said == Summarize(i, r)
        IN  /\ \A d \in {e \in ToSet(r.deployments) : Availability(i, e) = "available"} :
                  /\ said.features # {} =>
                        i.observed[d] # <<>> /\ said.features \subseteq i.observed[d][1].features
                  /\ said.context # <<>> =>
                        i.observed[d] # <<>> /\ said.context[1] <= i.observed[d][1].context
            /\ said.available => Capabilities(i).features \subseteq said.features

\* The endpoints agree: a route is available for /health, /v1/capabilities,
\* the routes and the health detail at once, exactly when one of its
\* deployments is; and placement counts the same deployments as ready.
ViewsAgree(i) ==
    \A k \in 1..Len(i.routes) :
        LET r == i.routes[k]
            up == \E d \in ToSet(r.deployments) : DeploymentsView(i)[d].available
        IN  /\ RoutesView(i)[k].available = up
            /\ HealthDetail(i).routes[k].available = up
            /\ Capabilities(i).routes[k].available = up
            /\ up => Health(i).status # "unavailable" /\ Capabilities(i).loaded
            /\ Models(i)[k].context # <<>> => up
            /\ \A row \in ToSet(PlacementView(i).routes) :
                  row.route = r.name /\ row.ready > 0 => up

\* The first attempt of a plan says truly why: primary_healthy exactly when
\* the first deployment of a longer list is available.
ReasonIsTrue(i) ==
    \A r \in ToSet(i.routes) :
        LET ring == Eligible(i, r).candidates
        IN  (r.policy = "priority" /\ ring # <<>> /\ Len(r.deployments) > 1) =>
              /\ (Decision(r, ring, 1, FALSE, FALSE) = "primary_healthy")
                    <=> (Availability(i, r.deployments[1]) = "available")
              /\ \A a \in 2..Len(ring) :
                    Decision(r, ring, a, FALSE, FALSE) = "primary_failed_fallback"

\* The operator's actions are truthful: one provider is marked as the one in
\* use; Test Connection says ok only of what would answer; a reset forgets
\* the named route or all of them, and only when it says so; the traces are
\* the newest of those pushed, newest first, and no more than are kept.
OperatorIsTold(i, answer, body, pushed, capacity, limit) ==
    LET kept[n \in 0..pushed] == IF n = 0 THEN <<>> ELSE Push(kept[n - 1], n, capacity)
        shown == Traces(kept[pushed], limit, capacity)
        reset == AdaptiveScoringReset(i, body)
    IN  /\ AutoRules(i).providers # {} =>
              Cardinality({p \in AutoRules(i).providers : p.active}) = 1
        /\ ClassifierCheck(i, answer) = "ok" =>
              LET c == i.auto[1].classifier[1]
              IN  IF c.provider = "jev" THEN c.key /\ answer.status = 200
                  ELSE \E d \in Deployments(i) :
                          /\ Availability(i, d) = "available"
                          /\ c.route \in {r.name : r \in RoutesUsing(i, d)}
        /\ reset.status = 200 <=> reset.reset # {}
        /\ reset.reset \subseteq {r.name : r \in ToSet(i.routes)}
        /\ Len(shown) <= capacity /\ (limit # <<>> => Len(shown) <= limit[1])
        /\ \A k \in 1..Len(shown) : shown[k] = pushed - k + 1
=============================================================================

---------------------------- MODULE RouterMetrics ----------------------------
(***************************************************************************)
(* The router's counters and histograms (metrics.rs): requests that finish *)
(* on any thread record what happened to them, and an operator's scrape    *)
(* reads the families one after the other while they do.                   *)
(*                                                                         *)
(* Every counter family is a map behind its own mutex, so one bump is one  *)
(* step; a method that touches two families takes two.  A histogram keeps  *)
(* its series behind the family's mutex, so an observation (bucket, count  *)
(* and sum) is one step, and so is the rendering of a whole family.  The   *)
(* text of the page is left out: a page is the values it prints.           *)
(***************************************************************************)
EXTENDS Integers, Sequences, FiniteSets, SequencesExt, FiniteSetsExt, TLC

CONSTANTS
    Recorders,      \* the request tasks and the placement controller
    Workloads,      \* sets of method calls [method, args] they may make together
    MaxCalls,       \* bound on the calls made
    MaxScrapes      \* bound on the pages read

VARIABLES
    workload,       \* the calls of this behaviour
    counters,       \* family -> labels -> count, the keys bumped so far
    series,         \* family -> labels -> [buckets, count, sum]
    active,         \* the active-request gauge
    doing,          \* recorder -> the steps its call still has to take
    observed,       \* history: every observation [family, labels, value]
    made,           \* history: every call made
    page,           \* the page being read: [counters, series, active]
    reading,        \* families still to be read; "idle" when no scrape runs
    scrapes

metricsVars == <<workload, counters, series, active, doing, observed, made, page, reading,
                 scrapes>>

-----------------------------------------------------------------------------
(* Ladders.  Bounds are integers in units of 1/per_unit.                   *)
SECONDS == <<5, 10, 25, 50, 100, 250, 500, 1000, 2500, 5000, 10000, 30000, 60000, 120000, 300000>>
PLANNING == <<10, 25, 50, 100, 250, 500, 1000, 2500, 10000, 50000>>
RATIO == <<250, 500, 750, 1000, 1250, 1500, 2000, 2500, 3000, 4000, 5000, 6000, 8000, 10000, 16000,
           32000>>
TOKENS == <<-4096, -1024, -256, -64, -16, 0, 16, 64, 256, 1024, 4096, 16384, 65536>>

\* The histograms of the page, each with its ladder.
Histograms ==
    [request |-> SECONDS, planning |-> PLANNING, ttft |-> SECONDS, upstream_ttft |-> SECONDS,
     upstream_response |-> SECONDS, upstream_duration |-> SECONDS, estimation_ratio |-> RATIO,
     estimation_error |-> TOKENS, reconcile |-> PLANNING, classifier |-> SECONDS,
     budget_remaining |-> SECONDS]

\* The counter families.
RouterCounters ==
    {"requests", "failovers", "decisions", "capability_filtered", "capability_mismatches",
     "context_overflow_failovers", "affinity_hits", "affinity_misses", "affinity_reassignments",
     "placement_actions", "placement_failures", "auto_decisions", "auto_fallbacks",
     "classifier_outcomes", "classifier_routes", "scoring_decisions", "scoring_fallbacks",
     "route_history_observations", "cross_route_fallbacks", "cross_route_exhausted",
     "budget_exhausted"}

Outcome == {"ok", "client_error", "server_error", "unavailable", "request_budget_exhausted"}
OfStatus(status) == CASE status \in 200..399 -> "ok"
                      [] status \in 400..499 -> "client_error"
                      [] OTHER -> "server_error"
Stages == {"classifier", "route_planning", "same_route_attempt", "cross_route_fallback"}

-----------------------------------------------------------------------------
(* One step of a method.  The labels of a key are a tuple of strings.      *)
Empty == <<>>
At(map, labels, zero) == IF labels \in DOMAIN map THEN map[labels] ELSE zero
Bump(family, labels) == [kind |-> "bump", family |-> family, labels |-> labels, value |-> 0]
ObserveIn(family, labels, value) ==
    [kind |-> "observe", family |-> family, labels |-> labels, value |-> value]

\* partition_point: the first bucket whose bound is not below the value.
BucketOf(ladder, value) == Cardinality({k \in DOMAIN ladder : ladder[k] < value}) + 1
NewSeries(ladder) == [buckets |-> [k \in 1..(Len(ladder) + 1) |-> 0], count |-> 0, sum |-> 0]
ObserveSeries(s, ladder, value) ==
    [s EXCEPT !.buckets[BucketOf(ladder, value)] = @ + 1, !.count = @ + 1, !.sum = @ + value]
ObserveFamily(family, labels, value) ==
    LET old == At(series[family], labels, NewSeries(Histograms[family]))
    IN  (labels :> ObserveSeries(old, Histograms[family], value)) @@ series[family]
BumpMap(map, labels) == (labels :> At(map, labels, 0) + 1) @@ map

-----------------------------------------------------------------------------
(* What each method does, as the steps it takes.  a is its arguments.      *)
RecordRequest(a) == <<Bump("requests", <<a.route, a.outcome>>)>>
RecordDecision(a) == <<Bump("decisions", <<a.route, a.policy, a.reason>>)>>
RecordCapabilityFiltered(a) == <<Bump("capability_filtered", <<a.route, a.gap>>)>>
RecordCapabilityMismatch(a) == <<Bump("capability_mismatches", <<a.route>>)>>
RecordContextOverflowFailover(a) == <<Bump("context_overflow_failovers", <<a.route>>)>>
RecordFailover(a) == <<Bump("failovers", <<a.route>>)>>
RecordAffinityHit(a) == <<Bump("affinity_hits", <<a.route>>)>>
RecordAffinityMiss(a) == <<Bump("affinity_misses", <<a.route>>)>>
RecordAffinityReassignment(a) == <<Bump("affinity_reassignments", <<a.route, a.reason>>)>>
RecordPlacementAction(a) == <<Bump("placement_actions", <<a.route, a.action, a.result>>)>>
RecordPlacementFailure(a) == <<Bump("placement_failures", <<a.route, a.reason>>)>>
RecordAutoDecision(a) ==
    <<Bump("auto_decisions", <<a.rule, a.route>>)>>
        \o (IF a.fallback THEN <<Bump("auto_fallbacks", <<a.route>>)>> ELSE <<>>)
RecordClassification(a) ==
    <<Bump("classifier_outcomes", <<a.provider, a.outcome>>)>>
        \o (IF a.chosen # Empty THEN <<Bump("classifier_routes", <<a.provider, a.chosen[1]>>)>>
            ELSE <<>>)
        \o <<ObserveIn("classifier", <<a.provider, a.outcome>>, a.elapsed)>>
Contested(reason) == reason \notin {"below_threshold", "no_verdict", "internal_error"}
RecordScoring(a) ==
    IF Contested(a.reason) THEN <<Bump("scoring_decisions", <<a.winner, a.overrode>>)>>
    ELSE <<Bump("scoring_fallbacks", <<a.reason>>)>>
RecordRouteHistory(a) == <<Bump("route_history_observations", <<a.route, a.observation>>)>>
RecordCrossRouteFallback(a) == <<Bump("cross_route_fallbacks", <<a.from, a.to, a.reason>>)>>
RecordCrossRouteExhausted(a) == <<Bump("cross_route_exhausted", <<a.route, a.reason>>)>>
RecordBudgetExhausted(a) == <<Bump("budget_exhausted", <<a.stage>>)>>
ObserveBudgetRemaining(a) == <<ObserveIn("budget_remaining", <<>>, a.elapsed)>>
ObserveReconcile(a) == <<ObserveIn("reconcile", <<>>, a.elapsed)>>
ObserveRequest(a) == <<ObserveIn("request", <<a.route, a.policy>>, a.elapsed)>>
ObservePlanning(a) == <<ObserveIn("planning", <<a.route, a.policy>>, a.elapsed)>>
ObserveTtft(a) == <<ObserveIn("ttft", <<a.route, a.policy>>, a.elapsed)>>
ObserveUpstreamTtft(a) == <<ObserveIn("upstream_ttft", <<a.route, a.deployment>>, a.elapsed)>>
ObserveUpstreamResponse(a) ==
    <<ObserveIn("upstream_response", <<a.route, a.deployment>>, a.elapsed)>>
ObserveUpstreamDuration(a) ==
    <<ObserveIn("upstream_duration", <<a.route, a.deployment>>, a.elapsed)>>
\* Two families; the ratio only when there was something to estimate.
ObserveEstimate(a) ==
    <<ObserveIn("estimation_error", <<a.route>>, a.actual - a.estimated)>>
        \o (IF a.estimated > 0
            THEN <<ObserveIn("estimation_ratio", <<a.route>>, (a.actual * 1000) \div a.estimated)>>
            ELSE <<>>)

\* ActiveGuard: held while the response, an open stream included, is served.
Enter(a) == <<[kind |-> "enter", family |-> "active", labels |-> <<>>, value |-> 0],
              [kind |-> "drop", family |-> "active", labels |-> <<>>, value |-> 0]>>

Steps(call) ==
    LET a == call.args IN
    CASE call.method = "record_request" -> RecordRequest(a)
      [] call.method = "record_decision" -> RecordDecision(a)
      [] call.method = "record_capability_filtered" -> RecordCapabilityFiltered(a)
      [] call.method = "record_capability_mismatch" -> RecordCapabilityMismatch(a)
      [] call.method = "record_context_overflow_failover" -> RecordContextOverflowFailover(a)
      [] call.method = "record_failover" -> RecordFailover(a)
      [] call.method = "record_affinity_hit" -> RecordAffinityHit(a)
      [] call.method = "record_affinity_miss" -> RecordAffinityMiss(a)
      [] call.method = "record_affinity_reassignment" -> RecordAffinityReassignment(a)
      [] call.method = "record_placement_action" -> RecordPlacementAction(a)
      [] call.method = "record_placement_failure" -> RecordPlacementFailure(a)
      [] call.method = "record_auto_decision" -> RecordAutoDecision(a)
      [] call.method = "record_classification" -> RecordClassification(a)
      [] call.method = "record_scoring" -> RecordScoring(a)
      [] call.method = "record_route_history" -> RecordRouteHistory(a)
      [] call.method = "record_cross_route_fallback" -> RecordCrossRouteFallback(a)
      [] call.method = "record_cross_route_exhausted" -> RecordCrossRouteExhausted(a)
      [] call.method = "record_budget_exhausted" -> RecordBudgetExhausted(a)
      [] call.method = "observe_budget_remaining" -> ObserveBudgetRemaining(a)
      [] call.method = "observe_reconcile" -> ObserveReconcile(a)
      [] call.method = "observe_request" -> ObserveRequest(a)
      [] call.method = "observe_planning" -> ObservePlanning(a)
      [] call.method = "observe_ttft" -> ObserveTtft(a)
      [] call.method = "observe_upstream_ttft" -> ObserveUpstreamTtft(a)
      [] call.method = "observe_upstream_response" -> ObserveUpstreamResponse(a)
      [] call.method = "observe_upstream_duration" -> ObserveUpstreamDuration(a)
      [] call.method = "enter" -> Enter(a)
      [] call.method = "observe_estimate" -> ObserveEstimate(a)

-----------------------------------------------------------------------------
(* Readers the operator endpoints use.                                     *)
Count(family, labels) == At(counters[family], labels, 0)
Total(family, Keep(_)) ==
    MapThenSumSet(LAMBDA l : counters[family][l], {l \in DOMAIN counters[family] : Keep(l)})
Decisions(route, reason) == Total("decisions", LAMBDA l : l[1] = route /\ l[3] = reason)
AutoDecisions(rule) == Total("auto_decisions", LAMBDA l : l[1] = rule)
AutoFallbacks == Total("auto_fallbacks", LAMBDA l : TRUE)
ClassifierOutcomes(provider) == Total("classifier_outcomes", LAMBDA l : l[1] = provider)
BudgetExhaustedTotal == MapThenSumSet(LAMBDA s : Count("budget_exhausted", <<s>>), Stages)
CrossRouteFallbackCounts ==
    [from \in {l[1] : l \in DOMAIN counters["cross_route_fallbacks"]} |->
        Total("cross_route_fallbacks", LAMBDA l : l[1] = from)]
CrossRouteExhaustedCounts ==
    [route \in {l[1] : l \in DOMAIN counters["cross_route_exhausted"]} |->
        Total("cross_route_exhausted", LAMBDA l : l[1] = route)]
HistogramCount(family, labels) == At(series[family], labels, NewSeries(Histograms[family])).count
HistogramSum(family, labels) == At(series[family], labels, NewSeries(Histograms[family])).sum

-----------------------------------------------------------------------------
(* The page, in the order it is read.                                      *)
RequestFamilies == <<"requests", "failovers", "active">>
DecisionFamilies == <<"decisions", "capability_filtered", "capability_mismatches",
                      "context_overflow_failovers">>
AffinityFamilies == <<"affinity_hits", "affinity_misses", "affinity_reassignments">>
PlacementFamilies == <<"placement_actions", "placement_failures">>
AutoFamilies == <<"auto_decisions", "auto_fallbacks", "classifier_outcomes", "classifier_routes">>
ScoringFamilies == <<"scoring_decisions", "scoring_fallbacks", "route_history_observations">>
CrossRouteFamilies == <<"cross_route_fallbacks", "cross_route_exhausted">>
HistogramFamilies == <<"request", "planning", "ttft", "upstream_ttft", "upstream_response",
                       "upstream_duration", "estimation_ratio", "estimation_error", "reconcile",
                       "classifier">>
BudgetFamilies == <<"budget_exhausted", "budget_remaining">>
ToPrometheus == RequestFamilies \o DecisionFamilies \o AffinityFamilies \o PlacementFamilies
                   \o AutoFamilies \o ScoringFamilies \o CrossRouteFamilies \o HistogramFamilies
MetricsPage == ToPrometheus \o BudgetFamilies

\* The cumulative counts a family renders, one per bound and +Inf.
Running(s) == [k \in 1..Len(s.buckets) |-> MapThenSumSet(LAMBDA j : s.buckets[j], 1..k)]
RenderSeries(s) == [le |-> Running(s), count |-> s.count, sum |-> s.sum]
RenderFamily(family) == [l \in DOMAIN series[family] |-> RenderSeries(series[family][l])]
\* A family no call of the workload touches stays empty, and reading it is no
\* step: it commutes with every other.
Touched == UNION {{s.family : s \in ToSet(Steps(call))} : call \in workload}
NoPage == [counters |-> <<>>, series |-> <<>>, active |-> 0]

-----------------------------------------------------------------------------
MetricsTypeOK ==
    /\ workload \in Workloads
    /\ DOMAIN counters = RouterCounters /\ DOMAIN series = DOMAIN Histograms
    /\ \A f \in RouterCounters : \A l \in DOMAIN counters[f] : counters[f][l] \in Nat \ {0}
    /\ active \in Nat
    /\ DOMAIN doing = Recorders
    /\ \A r \in Recorders : \A k \in DOMAIN doing[r] :
          doing[r][k].family \in RouterCounters \cup DOMAIN Histograms \cup {"active"}
    /\ scrapes \in 0..MaxScrapes

MetricsInit ==
    /\ workload \in Workloads
    /\ counters = [f \in RouterCounters |-> <<>>]
    /\ series = [f \in DOMAIN Histograms |-> <<>>]
    /\ active = 0 /\ observed = <<>> /\ made = <<>>
    /\ doing = [r \in Recorders |-> <<>>]
    /\ page = NoPage /\ reading = <<"idle">> /\ scrapes = 0

\* A task calls a method; it has none other under way.
Call(r, call) ==
    /\ doing[r] = <<>> /\ Len(made) < MaxCalls
    /\ doing' = [doing EXCEPT ![r] = Steps(call)]
    /\ made' = Append(made, call)
    /\ UNCHANGED <<workload, counters, series, active, observed, page, reading, scrapes>>

\* One step of the method it is in.
StepBump(r) ==
    /\ doing[r] # <<>> /\ Head(doing[r]).kind = "bump"
    /\ LET s == Head(doing[r])
       IN  counters' = [counters EXCEPT ![s.family] = BumpMap(@, s.labels)]
    /\ doing' = [doing EXCEPT ![r] = Tail(@)]
    /\ UNCHANGED <<workload, series, active, observed, made, page, reading, scrapes>>

StepObserve(r) ==
    /\ doing[r] # <<>> /\ Head(doing[r]).kind = "observe"
    /\ LET s == Head(doing[r])
       IN  /\ series' = [series EXCEPT ![s.family] = ObserveFamily(s.family, s.labels, s.value)]
           /\ observed' = Append(observed, [family |-> s.family, labels |-> s.labels,
                                            value |-> s.value])
    /\ doing' = [doing EXCEPT ![r] = Tail(@)]
    /\ UNCHANGED <<workload, counters, active, made, page, reading, scrapes>>

\* A request takes the gauge's guard, and drops it when its stream ends.
StepEnter(r) ==
    /\ doing[r] # <<>> /\ Head(doing[r]).kind = "enter"
    /\ active' = active + 1
    /\ doing' = [doing EXCEPT ![r] = Tail(@)]
    /\ UNCHANGED <<workload, counters, series, observed, made, page, reading, scrapes>>

StepDrop(r) ==
    /\ doing[r] # <<>> /\ Head(doing[r]).kind = "drop"
    /\ active' = active - 1
    /\ doing' = [doing EXCEPT ![r] = Tail(@)]
    /\ UNCHANGED <<workload, counters, series, observed, made, page, reading, scrapes>>

\* GET /metrics: the families are read one by one, each under its lock.
StartScrape ==
    /\ reading = <<"idle">> /\ scrapes < MaxScrapes
    /\ reading' = SelectSeq(MetricsPage, LAMBDA f : f \in Touched) /\ page' = NoPage /\ scrapes' = scrapes + 1
    /\ UNCHANGED <<workload, counters, series, active, doing, observed, made>>

ReadFamily ==
    /\ reading # <<"idle">> /\ reading # <<>>
    /\ LET f == Head(reading)
       IN  page' = IF f = "active" THEN [page EXCEPT !.active = active]
                   ELSE IF f \in RouterCounters
                   THEN [page EXCEPT !.counters = @ @@ (f :> counters[f])]
                   ELSE [page EXCEPT !.series = @ @@ (f :> RenderFamily(f))]
    /\ reading' = Tail(reading)
    /\ UNCHANGED <<workload, counters, series, active, doing, observed, made, scrapes>>

SendPage ==
    /\ reading = <<>>
    /\ reading' = <<"idle">>
    /\ UNCHANGED <<workload, counters, series, active, doing, observed, made, page, scrapes>>

MetricsNext ==
    \/ \E r \in Recorders, call \in workload : Call(r, call)
    \/ \E r \in Recorders : StepBump(r) \/ StepObserve(r) \/ StepEnter(r) \/ StepDrop(r)
    \/ StartScrape \/ ReadFamily \/ SendPage

MetricsSpec == MetricsInit /\ [][MetricsNext]_metricsVars

-----------------------------------------------------------------------------
SumOf(f) == MapThenSumSet(LAMBDA x : f[x], DOMAIN f)
Seen(family, labels, Keep(_)) ==
    Len(SelectSeq(observed, LAMBDA o : o.family = family /\ o.labels = labels /\ Keep(o.value)))

(***************************************************************************)
(* However the recording tasks and a scrape interleave, a histogram the    *)
(* page shows is one that existed: its +Inf bucket is its count, and each  *)
(* "le" bucket counts exactly the observations at or below its bound.      *)
(***************************************************************************)
HistogramsAreTrue ==
    /\ \A f \in DOMAIN page.series : \A l \in DOMAIN page.series[f] :
          Last(page.series[f][l].le) = page.series[f][l].count
    /\ \A f \in DOMAIN series : \A l \in DOMAIN series[f] :
          /\ \A k \in DOMAIN Histograms[f] :
                Running(series[f][l])[k] = Seen(f, l, LAMBDA v : v <= Histograms[f][k])
          /\ HistogramSum(f, l) = FoldLeft(LAMBDA sum, o :
                IF o.family = f /\ o.labels = l THEN sum + o.value ELSE sum, 0, observed)

(***************************************************************************)
(* Families one method touches never disagree in the direction it writes   *)
(* them: a fallback or a chosen route is never counted before the decision *)
(* it belongs to, and once every task is idle each call has been counted   *)
(* once, whatever the order they ran in.                                   *)
(***************************************************************************)
EveryCallCountsOnce ==
    LET calls(m) == Len(SelectSeq(made, LAMBDA c : c.method = m))
        all(f) == Total(f, LAMBDA l : TRUE)
        idle == \A r \in Recorders : doing[r] = <<>>
    IN  /\ AutoFallbacks <= AutoDecisions("_fallback")
        /\ all("classifier_routes") <= all("classifier_outcomes")
        /\ \A l \in DOMAIN series["classifier"] :
              HistogramCount("classifier", l) <= Count("classifier_outcomes", l)
        /\ active = Cardinality({r \in Recorders : doing[r] # <<>> /\ Head(doing[r]).kind = "drop"})
        /\ idle =>
              /\ all("requests") = calls("record_request")
              /\ all("auto_decisions") = calls("record_auto_decision")
              /\ AutoFallbacks = AutoDecisions("_fallback")
              /\ all("scoring_decisions") + all("scoring_fallbacks") = calls("record_scoring")
              /\ all("classifier_outcomes") = calls("record_classification")
              /\ \A l \in DOMAIN counters["classifier_outcomes"] :
                    HistogramCount("classifier", l) = Count("classifier_outcomes", l)
              /\ \A c \in ToSet(made) : c.method = "record_classification" =>
                    ClassifierOutcomes(c.args.provider) = Len(SelectSeq(made, LAMBDA d :
                       d.method = c.method /\ d.args.provider = c.args.provider))
              /\ \A c \in ToSet(made) : c.method = "record_decision" =>
                    Decisions(c.args.route, c.args.reason) = Len(SelectSeq(made, LAMBDA d : d = c))
              /\ SumOf(CrossRouteFallbackCounts) = calls("record_cross_route_fallback")
              /\ SumOf(CrossRouteExhaustedCounts) = calls("record_cross_route_exhausted")
              /\ BudgetExhaustedTotal = calls("record_budget_exhausted")
=============================================================================

----------------------------- MODULE Forwarding -----------------------------
(***************************************************************************)
(* One client request on its way through the router                        *)
(* (crates/lightweight-router/src/proxy.rs, with budget.rs and             *)
(* fallback.rs).                                                           *)
(*                                                                         *)
(* A route is chosen (by name, by an Auto rule or by the classifier), its  *)
(* plan is walked deployment by deployment until one answers, and an Auto  *)
(* request whose route cannot execute it moves along the list frozen for   *)
(* it.  Three things cut across that walk: the one pre-commit deadline,    *)
(* which may fall due between any two steps; the client, who may leave at  *)
(* any wait; and a context overflow, after which only larger deployments   *)
(* are worth trying.  Whatever happens, the request must be counted once,  *)
(* traced once, and every route it really tried observed once.             *)
(***************************************************************************)
EXTENDS Naturals, Sequences, FiniteSets, Functions

CONSTANTS Routes,         \* configured logical routes
          DeploymentsOf,  \* [Routes -> SUBSET deployments]
          Context,        \* the observed context of each deployment, 0: unknown
          MaxU32,         \* the largest a context can be
          Chain,          \* [Routes -> Seq(Routes)]: cross_route_fallback
          Kinds,          \* the requests there are: "auto", "named", "nested"
          Budgeted        \* request.pre_commit_budget_ms is set

Deployments == DOMAIN Context
None == "none"

\* What the validated configuration guarantees: a list names each route once
\* and not the route it is for (fallback.rs, validate).
ForwardingAssumption ==
    /\ None \notin Routes
    /\ DeploymentsOf \in [Routes -> SUBSET Deployments]
    /\ \A r \in Routes : Cardinality(DeploymentsOf[r]) \in Nat
    /\ MaxU32 \in Nat \ {0}
    /\ Context \in [Deployments -> 0..MaxU32]
    /\ Chain \in [Routes -> Seq(Routes)]
    /\ \A r \in Routes : IsInjective(<<r>> \o Chain[r])
    /\ Kinds \subseteq {"auto", "named", "nested"}
    /\ Budgeted \in BOOLEAN

VARIABLES pc,        \* where route_request stands
          due,       \* the deadline has been reached
          kind,      \* what the request is
          route,     \* the logical route being attempted
          left,      \* the rest of the frozen fallback plan
          plan,      \* plan.candidates, in the order of the route's policy
          at,        \* the candidate the walk has come to
          walk,      \* too_small, last_refusal and the overflow so far
          lease,     \* the deployments whose in-flight slot is held
          failure,   \* the RouteFailure handed back, not yet sent
          tracker,   \* the Tracker
          attempts,  \* every deployment the request was sent to, and what came of it
          log,       \* the metrics, the route history and the trace ring
          answer     \* the status committed or answered, 0 for none

routeVars == <<route, left, plan, at, walk>>
vars == <<pc, due, kind, routeVars, lease, failure, tracker, attempts, log, answer>>

AutoName == "Auto"
Unknown == "_unknown"

Hop(r, outcome, reason) == [route |-> r, outcome |-> outcome, reason |-> reason]
LastReason(hops) == hops[Len(hops)].reason
NoFailure == [status |-> 0, outcome |-> None, observation |-> None, reason |-> None]
NewWalk == [floor |-> 0, refusal |-> 0, overflow |-> FALSE]

\* trace.route, the observation decided for it, and the
\* cross_route_fallback block with its attempts.
NewTracker(label) ==
    [label |-> label, observation |-> None, unobserved |-> FALSE,
     hops |-> <<>>, exhausted |-> FALSE]

-----------------------------------------------------------------------------
(***************************************************************************)
(* What is recorded.                                                       *)
(***************************************************************************)
OfStatus(status) ==
    CASE status \in 200..399 -> "ok"
      [] status \in 400..499 -> "client_error"
      [] OTHER -> "server_error"

OfOutcome(outcome) ==
    CASE outcome = "ok" -> "success"
      [] outcome \in {"server_error", "interrupted", "unavailable"} -> outcome
      [] OTHER -> "neutral"

\* record_request.
Counted(l, label, outcome) ==
    [l EXCEPT !.counted = Append(@, [route |-> label, outcome |-> outcome])]

\* observe_route.
Observed(l, r, observation) ==
    IF kind = "nested" THEN l
    ELSE [l EXCEPT !.observed = Append(@, [route |-> r, saw |-> observation])]

\* Tracker::finish, which only the first caller of a request reaches.
Finished(l, t, status, outcome) ==
    LET seen == IF t.observation # None THEN t.observation ELSE OfOutcome(outcome)
        noted == IF t.unobserved THEN l ELSE Observed(l, t.label, seen)
    IN [noted EXCEPT !.traces = Append(@,
          [label |-> t.label, status |-> status, outcome |-> outcome,
           hops |-> t.hops, exhausted |-> t.exhausted])]

Ended(status) ==
    /\ pc' = "done"
    /\ answer' = status
    /\ lease' = {}
    /\ failure' = NoFailure

\* exhaust: the budget is the reason the request cannot go on.
Exhaust(t, stage) ==
    LET staged == IF kind = "nested" THEN log
                  ELSE [log EXCEPT !.stages = Append(@, stage)]
    IN /\ log' = Finished(Counted(staged, t.label, "request_budget_exhausted"),
                          t, 504, "request_budget_exhausted")
       /\ tracker' = t
       /\ Ended(504)

\* Tracker::unattempted.
Unattempted(t) ==
    [t EXCEPT !.label = IF kind = "auto" THEN AutoName ELSE route,
              !.unobserved = TRUE]

\* RouteEnd::BudgetExhausted, as route_request ends the request for it.
BudgetStop(beforeFirst) ==
    LET n == Len(tracker.hops)
        stopped == [tracker EXCEPT !.hops[n] = Hop(route, "failed", "request_budget_exhausted"),
                                   !.unobserved = beforeFirst]
    IN CASE n > 0 -> Exhaust(stopped, "cross_route_fallback")
         [] n = 0 /\ beforeFirst -> Exhaust(Unattempted(tracker), "route_planning")
         [] OTHER -> Exhaust(tracker, "same_route_attempt")

-----------------------------------------------------------------------------
(***************************************************************************)
(* Choosing the initial route.                                             *)
(***************************************************************************)
Refused(label) ==
    /\ log' = Counted(log, label, "client_error")
    /\ Ended(400)
    /\ UNCHANGED <<due, kind, routeVars, tracker, attempts>>

\* The body is no JSON object, the name is no route, or Auto's requirements
\* cannot be read: refused before any route, without a tracker.
Malformed ==
    /\ pc = "received"
    /\ \E label \in IF kind = "auto" THEN {Unknown, AutoName} ELSE {Unknown} : Refused(label)

\* A route is made the request's: the tracker starts, and the fallback plan
\* is read once.
Resolved(r) ==
    /\ pc' = "routed"
    /\ route' = r
    /\ left' = IF kind = "auto" THEN Chain[r] ELSE <<>>
    /\ tracker' = NewTracker(r)
    /\ UNCHANGED <<due, kind, plan, at, walk, lease, failure, attempts, log, answer>>

\* By name, or by an Auto rule that names a route.
Resolve ==
    /\ pc = "received"
    /\ \E r \in Routes : Resolved(r)

\* A rule that asks the classifier.
Classify ==
    /\ pc = "received"
    /\ kind = "auto"
    /\ pc' = "classifying"
    /\ UNCHANGED <<due, kind, routeVars, lease, failure, tracker, attempts, log, answer>>

\* The classifier named a route, or failed and its fallback is used.
Classified ==
    /\ pc = "classifying"
    /\ \E r \in Routes : Resolved(r)

\* The deadline ended the classification, or refused to start it.
ClassificationCut ==
    /\ pc = "classifying"
    /\ due
    /\ Exhaust([NewTracker(AutoName) EXCEPT !.unobserved = TRUE], "classifier")
    /\ UNCHANGED <<due, kind, routeVars, attempts>>

\* The requirements of a request that named its route cannot be read.
RequirementsRefused ==
    /\ pc = "routed"
    /\ kind # "auto"
    /\ log' = Finished(Counted(log, route, "client_error"), tracker, 400, "client_error")
    /\ Ended(400)
    /\ UNCHANGED <<due, kind, routeVars, tracker, attempts>>

\* The start check before the initial route's first attempt.
Begin ==
    /\ pc = "routed"
    /\ \/ /\ due
          /\ Exhaust(Unattempted(tracker), "route_planning")
          /\ UNCHANGED <<due, kind, routeVars, attempts>>
       \/ /\ ~due
          /\ pc' = "planning"
          /\ UNCHANGED <<due, kind, routeVars, lease, failure, tracker, attempts, log, answer>>

-----------------------------------------------------------------------------
(***************************************************************************)
(* One attempt at one logical route: attempt_route.                        *)
(***************************************************************************)
Plans(r) ==
    UNION {Injection(1..n, DeploymentsOf[r]) : n \in 1..Cardinality(DeploymentsOf[r])}

Failed(status, outcome, observation, reason) ==
    /\ pc' = "failed"
    /\ failure' = [status |-> status, outcome |-> outcome,
                   observation |-> observation, reason |-> reason]
    /\ lease' = {}

\* The selector finds no available deployment, or none that can serve this.
PlanFails ==
    /\ pc = "planning"
    /\ \/ Failed(400, "client_error", "mismatch", "route_capability_mismatch")
       \/ Failed(503, "unavailable", None, "route_unavailable")
    /\ plan' = <<>> /\ at' = 0 /\ walk' = NewWalk
    /\ UNCHANGED <<due, kind, route, left, tracker, attempts, log, answer>>

\* The selector hands over an order, and a slot on its first choice.
PlanMade ==
    /\ pc = "planning"
    /\ \E p \in Plans(route) :
         /\ plan' = p
         /\ lease' = {p[1]}
    /\ at' = 1
    /\ walk' = NewWalk
    /\ pc' = "candidate"
    /\ UNCHANGED <<due, kind, route, left, failure, tracker, attempts, log, answer>>

Larger(d, floor) == floor = 0 \/ Context[d] > floor

\* The candidates from the i-th on that are still worth trying.
Viable(i, floor) == {j \in i..Len(plan) : Larger(plan[j], floor)}

\* What has been sent on route r so far.
Sent(r) == {i \in DOMAIN attempts : attempts[i].route = r}

\* The deadline is spent before the next candidate is started.
CandidateRefused ==
    /\ pc = "candidate"
    /\ Viable(at, walk.floor) # {}
    /\ due
    /\ BudgetStop(Sent(route) = {})
    /\ UNCHANGED <<due, kind, routeVars, attempts>>

\* A plausible slip: no start check.
SendLate ==
    /\ pc = "candidate"
    /\ at' \in Viable(at, walk.floor)
    /\ \A j \in Viable(at, walk.floor) : at' <= j
    /\ lease' = lease \cup {plan[at']}
    /\ attempts' = Append(attempts, [route |-> route, deployment |-> plan[at'],
                                     outcome |-> "pending"])
    /\ pc' = "sent"
    /\ UNCHANGED <<due, kind, route, left, plan, walk, failure, tracker, log, answer>>

\* The next candidate worth trying is sent the request.
Send ==
    /\ pc = "candidate"
    /\ ~due
    /\ at' \in Viable(at, walk.floor)
    /\ \A j \in Viable(at, walk.floor) : at' <= j
    /\ lease' = lease \cup {plan[at']}
    /\ attempts' = Append(attempts, [route |-> route, deployment |-> plan[at'],
                                     outcome |-> "pending"])
    /\ pc' = "sent"
    /\ UNCHANGED <<due, kind, route, left, plan, walk, failure, tracker, log, answer>>

Record(outcome) == attempts' = [attempts EXCEPT ![Len(attempts)].outcome = outcome]

\* A plausible slip: the wait itself is not bounded.
CutNever == FALSE

\* The deadline cuts the wait: the attempt is dropped, its slot returned.
Cut ==
    /\ pc = "sent"
    /\ due
    /\ Record("request_budget_exhausted")
    /\ BudgetStop(FALSE)
    /\ UNCHANGED <<due, kind, routeVars>>

\* attempt_one ends in Attempt::Next: nothing worth returning (0), or a
\* refusal with 503 (standing for 502 and 504 as well).
NextCandidate ==
    /\ pc = "sent"
    /\ \E refusal \in {0, 503} :
         walk' = IF refusal = 0 THEN walk ELSE [walk EXCEPT !.refusal = refusal]
    /\ Record("failed")
    /\ lease' = {}
    /\ pc' = "next"
    /\ UNCHANGED <<due, kind, route, left, plan, at, failure, tracker, log, answer>>

\* Nothing is known to be larger than a deployment whose context is unknown.
Raised(floor, context) == 
    CASE context = 0 -> MaxU32
      [] context # 0 /\ context <= floor -> floor
      [] OTHER -> context

\* attempt_one ends in Attempt::ContextOverflow.
Overflow ==
    /\ pc = "sent"
    /\ walk' = [floor |-> Raised(walk.floor, Context[plan[at]]), refusal |-> 400,
                overflow |-> TRUE]
    /\ Record("context_overflow")
    /\ lease' = {}
    /\ pc' = "next"
    /\ UNCHANGED <<due, kind, route, left, plan, at, failure, tracker, log, answer>>

\* The start check of the next deployment, and then its failover is counted.
\* With none left to try, the walk is over.
Failover ==
    /\ pc = "next"
    /\ LET some == Viable(at + 1, walk.floor) # {}
       IN \/ /\ some /\ due
             /\ BudgetStop(FALSE)
             /\ at' = at
          \/ /\ ~(some /\ due)
             /\ log' = IF some THEN [log EXCEPT !.failovers = @ + 1] ELSE log
             /\ at' = at + 1
             /\ pc' = "candidate"
             /\ UNCHANGED <<lease, failure, tracker, answer>>
    /\ UNCHANGED <<due, kind, route, left, plan, walk, attempts>>

\* A plausible slip: any refusal moves the request on.
WalkFailsOnAny ==
    IF walk.refusal = 0 THEN Failed(503, "unavailable", None, "route_unavailable")
    ELSE Failed(walk.refusal, OfStatus(walk.refusal), None, "route_exhausted")

\* The plan is walked to its end.  A 502, 503 or 504 is the route having
\* nothing ready; after an overflow it is no reason to change the route.
WalkFails ==
    CASE walk.refusal = 0 -> Failed(503, "unavailable", None, "route_unavailable")
      [] walk.refusal = 503 ->
           Failed(503, OfStatus(503), "unavailable",
                  IF walk.overflow THEN None ELSE "route_exhausted")
      [] OTHER -> Failed(walk.refusal, OfStatus(walk.refusal), None, None)

WalkEnds ==
    /\ pc = "candidate"
    /\ Viable(at, walk.floor) = {}
    /\ WalkFails
    /\ UNCHANGED <<due, kind, routeVars, tracker, attempts, log, answer>>

\* attempt_one ends in Attempt::Committed: counted, and the budget let go.
Commit(status, body) ==
    /\ pc = "sent"
    /\ Record("committed")
    /\ log' = Counted(log, route, OfStatus(status))
    /\ pc' = body
    /\ answer' = status
    /\ UNCHANGED <<due, kind, routeVars, lease, failure, tracker>>

Answered == \E status \in {200, 400, 500} : Commit(status, "body")
Streaming == Commit(200, "stream")

\* commit reads a body that is no stream to its end before the client gets
\* anything.
BodyRead ==
    /\ pc = "body"
    /\ log' = Finished(log, tracker, answer, OfStatus(answer))
    /\ Ended(answer)
    /\ UNCHANGED <<due, kind, routeVars, tracker, attempts>>

BodyUnreadable ==
    /\ pc = "body"
    /\ log' = Finished(log, tracker, 502, "server_error")
    /\ Ended(502)
    /\ UNCHANGED <<due, kind, routeVars, tracker, attempts>>

StreamEnds ==
    /\ pc = "stream"
    /\ \E outcome \in {"ok", "interrupted"} : log' = Finished(log, tracker, answer, outcome)
    /\ Ended(answer)
    /\ UNCHANGED <<due, kind, routeVars, tracker, attempts>>

-----------------------------------------------------------------------------
(***************************************************************************)
(* The route failed and committed nothing: the loop of route_request.      *)
(***************************************************************************)
FailedObservation ==
    IF failure.observation # None THEN failure.observation ELSE OfOutcome(failure.outcome)

\* The hops so far: what the provisional block says, less its provisional
\* last entry.
Hops == IF tracker.hops = <<>> THEN <<>>
        ELSE SubSeq(tracker.hops, 1, Len(tracker.hops) - 1)

MayMove == failure.reason # None /\ left # <<>>

\* The start check before a fallback route refuses it.
MoveRefused ==
    /\ pc = "failed"
    /\ MayMove
    /\ due
    /\ left' = Tail(left)
    /\ Exhaust([tracker EXCEPT !.observation = FailedObservation,
                               !.hops = Append(Hops, Hop(route, "failed", failure.reason))],
               "cross_route_fallback")
    /\ UNCHANGED <<due, kind, route, plan, at, walk, attempts>>

\* A plausible slip: only the last route of a chain is observed.
MoveUnobserved ==
    /\ pc = "failed"
    /\ MayMove
    /\ ~due
    /\ log' = [log EXCEPT !.moves = Append(@, [from |-> route, to |-> Head(left),
                                               reason |-> failure.reason])]
    /\ tracker' = [NewTracker(Head(left)) EXCEPT
                     !.hops = Hops \o <<Hop(route, "failed", failure.reason),
                                        Hop(Head(left), "committed", None)>>]
    /\ route' = Head(left)
    /\ left' = Tail(left)
    /\ pc' = "planning"
    /\ failure' = NoFailure
    /\ UNCHANGED <<due, kind, plan, at, walk, lease, attempts, answer>>

\* The failed route is observed, the transition counted, and the tracker
\* pointed at the next route of the frozen plan, whose hop is provisional.
Move ==
    /\ pc = "failed"
    /\ MayMove
    /\ ~due
    /\ log' = [Observed(log, route, FailedObservation) EXCEPT
                 !.moves = Append(@, [from |-> route, to |-> Head(left),
                                      reason |-> failure.reason])]
    /\ tracker' = [NewTracker(Head(left)) EXCEPT
                     !.hops = Hops \o <<Hop(route, "failed", failure.reason),
                                        Hop(Head(left), "committed", None)>>]
    /\ route' = Head(left)
    /\ left' = Tail(left)
    /\ pc' = "planning"
    /\ failure' = NoFailure
    /\ UNCHANGED <<due, kind, plan, at, walk, lease, attempts, answer>>

\* conclude_chain: the last route's own error is the answer.
Conclude ==
    /\ pc = "failed"
    /\ ~MayMove
    /\ LET exhausted == tracker.hops # <<>> /\ failure.reason # None
           reason == IF failure.reason # None THEN failure.reason ELSE "context_length_exceeded"
           t == [tracker EXCEPT
                   !.observation = failure.observation,
                   !.exhausted = exhausted,
                   !.hops = IF @ = <<>> THEN @
                            ELSE Append(Hops, Hop(route, "failed", reason))]
       IN /\ tracker' = t
          /\ log' = Finished(Counted([log EXCEPT !.exhausted = @ + IF exhausted THEN 1 ELSE 0],
                                     route, failure.outcome),
                             t, failure.status, failure.outcome)
    /\ Ended(failure.status)
    /\ UNCHANGED <<due, kind, routeVars, attempts>>

-----------------------------------------------------------------------------
(***************************************************************************)
(* Around the request: its deadline, and the client.                       *)
(***************************************************************************)
Deadline ==
    /\ Budgeted
    /\ ~due
    /\ due' = TRUE
    /\ UNCHANGED <<pc, kind, routeVars, lease, failure, tracker, attempts, log, answer>>

\* The client goes away, which drops the handler at whichever wait it is in:
\* Tracker::drop before the commit, InFlight::drop after it.
Leave ==
    /\ pc \in {"classifying", "sent", "body", "stream"}
    /\ log' = IF pc = "classifying" THEN log ELSE Finished(log, tracker, answer, "cancelled")
    /\ Ended(answer)
    /\ UNCHANGED <<due, kind, routeVars, tracker, attempts>>

Init ==
    /\ pc = "received"
    /\ due = FALSE
    /\ kind \in Kinds
    /\ route = None /\ left = <<>> /\ plan = <<>> /\ at = 0 /\ walk = NewWalk
    /\ lease = {}
    /\ failure = NoFailure
    /\ tracker = NewTracker(None)
    /\ attempts = <<>>
    /\ log = [counted |-> <<>>, observed |-> <<>>, moves |-> <<>>, failovers |-> 0,
              exhausted |-> 0, stages |-> <<>>, traces |-> <<>>]
    /\ answer = 0

\* Steps the router takes by itself.
Router ==
    \/ Malformed \/ Resolve \/ Classify \/ ClassificationCut \/ RequirementsRefused \/ Begin
    \/ PlanFails \/ PlanMade \/ CandidateRefused \/ Send \/ Cut \/ Failover \/ WalkEnds
    \/ MoveRefused \/ Move \/ Conclude

\* What the nodes and the classifier send.
Upstream ==
    \/ Classified \/ NextCandidate \/ Overflow \/ Answered \/ Streaming
    \/ BodyRead \/ BodyUnreadable \/ StreamEnds

Next == Router \/ Upstream \/ Deadline \/ Leave \/ (pc = "done" /\ UNCHANGED vars)

Spec == Init /\ [][Next]_vars

\* The router takes its steps and the deadline comes; nodes, the classifier
\* and the client owe nothing.
Fairness == WF_vars(Router) /\ WF_vars(Deadline)

-----------------------------------------------------------------------------
(***************************************************************************)
(* Properties.                                                             *)
(***************************************************************************)
Outcomes == {"ok", "client_error", "server_error", "unavailable", "interrupted",
             "cancelled", "request_budget_exhausted"}
Reasons == {"route_unavailable", "route_exhausted", "route_capability_mismatch"}
Labels == Routes \cup {AutoName, Unknown, None}

\* Every variable has its type, and no more than one slot is held at a time
\* (proxy.rs: "One slot per attempt, held for exactly as long as the attempt").
TypeOK ==
    /\ pc \in {"received", "classifying", "routed", "planning", "candidate", "sent",
               "next", "failed", "body", "stream", "done"}
    /\ due \in BOOLEAN /\ (due => Budgeted)
    /\ kind \in Kinds
    /\ route \in Routes \cup {None}
    /\ left \in Seq(Routes)
    /\ plan \in Seq(Deployments) /\ at \in 0..Len(plan) + 1
    /\ walk \in [floor : 0..MaxU32, refusal : {0, 400, 503}, overflow : BOOLEAN]
    /\ lease = {} \/ \E d \in Deployments : lease = {d}
    /\ pc \in {"sent", "body", "stream"} => lease = {plan[at]}
    /\ failure.reason \in Reasons \cup {None}
    /\ tracker.label \in Labels
    /\ \A a \in Range(attempts) : a.route \in Routes /\ a.deployment \in DeploymentsOf[a.route]
    /\ \A t \in Range(log.traces) : t.label \in Labels /\ t.outcome \in Outcomes
    /\ answer \in {0, 200, 400, 500, 502, 503, 504}

Committed == \E a \in Range(attempts) : a.outcome = "committed"

\* A request is counted once in router_requests_total and traced at most
\* once, under the same label, however many deployments and routes it went
\* through; only a client who left before the commit is not counted.
CountedOnce ==
    /\ Len(log.counted) <= 1 /\ Len(log.traces) <= 1
    /\ pc = "done" =>
         /\ log.counted = <<>> => answer = 0 /\ ~Committed
         /\ \A c \in Range(log.counted), t \in Range(log.traces) : c.route = t.label

\* The label of the count: the last route entered once anything was sent or a
\* route failed, and Auto or the named route when the budget ended the request
\* before that.  No route is invented.
LabelIsTerminal ==
    \A c \in Range(log.counted) :
        LET untried == /\ c.outcome = "request_budget_exhausted"
                       /\ attempts = <<>>
                       /\ \A t \in Range(log.traces) : t.hops = <<>>
        IN c.route \in CASE route = None -> {Unknown, AutoName}
                         [] route # None /\ untried /\ kind = "auto" -> {AutoName}
                         [] OTHER -> {route}

\* The routes route history hears of, each of them once: every route the
\* request was moved from, and the last one unless the budget refused it
\* before anything was sent there; none for the router's own requests.
ObservedOnce ==
    pc = "done" =>
      LET seen == {o.route : o \in Range(log.observed)}
          refusedFirst == \A t \in Range(log.traces) :
                            /\ t.outcome = "request_budget_exhausted"
                            /\ Sent(route) = {}
                            /\ \/ t.hops = <<>>
                               \/ LastReason(t.hops) = "request_budget_exhausted"
      IN /\ \A i, j \in DOMAIN log.observed :
               log.observed[i].route = log.observed[j].route => i = j
         /\ seen = IF kind = "nested" THEN {}
                   ELSE {m.from : m \in Range(log.moves)} \cup (IF refusedFirst THEN {} ELSE {route})

\* The last attempt on route r ended in one of the outcomes.
EndedAs(r, outcomes) ==
    \E i \in Sent(r) : attempts[i].outcome \in outcomes /\ \A j \in Sent(r) : j <= i

\* What history hears of a route is about that route: a success only of a
\* route that committed, neutral for a wait the budget or the client cut.
ObservedTruly ==
    \A o \in Range(log.observed) :
        /\ o.saw = "success" => EndedAs(o.route, {"committed"})
        /\ EndedAs(o.route, {"request_budget_exhausted", "pending"}) => o.saw = "neutral"

\* One request is accounted for as one request, on every path through routes
\* and deployments: counted once, under the route it ended on, traced once,
\* and every route it tried observed once for what that route did.
AccountedOnce == CountedOnce /\ LabelIsTerminal /\ ObservedOnce /\ ObservedTruly

\* The chain is the initial route's own list, in its order, for a request
\* that asked for Auto and for no other.
ChainIsFrozen ==
    /\ kind # "auto" => log.moves = <<>>
    /\ log.moves # <<>> =>
         LET n == Len(log.moves)
             chain == Chain[log.moves[1].from]
         IN /\ n <= Len(chain)
            /\ \A i \in 1..n : log.moves[i].to = chain[i]
            /\ log.moves[n].to = route
            /\ \A i \in 2..n : log.moves[i].from = log.moves[i - 1].to

\* The deployments of the current route that were tried, and that overflowed.
Tried == {attempts[i].deployment : i \in Sent(route)}
Overflowed ==
    {attempts[i].deployment : i \in {j \in Sent(route) : attempts[j].outcome = "context_overflow"}}

\* A route is left for a reason it earned: exhausted only if every planned
\* deployment was tried, none overflowed and one refused; unavailable only if
\* none answered at all; and a failure that is no reason to move is a context
\* overflow that nothing left in the plan could serve.
ReasonsAreEarned ==
    pc = "failed" =>
      /\ failure.reason = "route_capability_mismatch" => Sent(route) = {}
      /\ failure.reason \in {"route_unavailable", "route_exhausted"} =>
           Tried = Range(plan) /\ Overflowed = {}
      /\ failure.reason = "route_exhausted" <=>
           walk.refusal = 503 /\ Overflowed = {} /\ plan # <<>>
      /\ failure.reason = None =>
           /\ Overflowed # {}
           /\ \A d \in Range(plan) \ Tried : \E e \in Overflowed :
                  Context[e] = 0 \/ Context[d] <= Context[e]

\* After a context overflow only deployments strictly larger than every one
\* that overflowed are sent the prompt.
OverflowGrows ==
    \A i, j \in 1..Len(attempts) :
        /\ i < j
        /\ attempts[i].route = attempts[j].route
        /\ attempts[i].outcome = "context_overflow"
        => /\ Context[attempts[i].deployment] # 0
           /\ Context[attempts[j].deployment] > Context[attempts[i].deployment]

\* 504 request_budget_exhausted means that the deadline had come and that it
\* cut a wait or refused work that was there to be done; a request whose own
\* end was complete keeps its own answer.
BudgetIsCausal ==
    \A t \in Range(log.traces) :
        t.outcome = "request_budget_exhausted" =>
          /\ due
          /\ \/ Sent(route) = {}
             \/ EndedAs(route, {"request_budget_exhausted"})
             \/ \E d \in Range(plan) \ Tried : Larger(d, walk.floor)
             \/ t.hops # <<>> /\ LastReason(t.hops) \in Reasons

\* A request only goes on for a reason: along the frozen chain, away from a
\* route that earned it, to deployments that can hold the prompt, and not
\* ended by a budget that ended nothing.
EndsAreEarned == ChainIsFrozen /\ ReasonsAreEarned /\ OverflowGrows /\ BudgetIsCausal

\* Nothing is sent and no route is entered once the deadline has come; and
\* once a deployment's answer is committed the request is sent nowhere else,
\* moves to no other route, is not counted again and is never ended by the
\* budget.
NothingStartsLate ==
    /\ due => Len(attempts') = Len(attempts) /\ log'.moves = log.moves
    /\ Committed => /\ UNCHANGED <<attempts, route, log.moves, log.counted, log.stages>>
                    /\ log'.failovers = log.failovers

Decided == Committed \/ pc = "done"

\* With a budget configured a request is committed or over in bounded time,
\* whatever the nodes, the classifier and the client do.
BudgetBoundsTheWait == Budgeted => <>Decided

\* (metrics.rs) "Client requests the router answered, each counted once, by
\* outcome": what is counted ok was answered so.
CountedAsAnswered ==
    pc = "done" => \A c \in Range(log.counted) : c.outcome = "ok" => answer \in 200..399
=============================================================================

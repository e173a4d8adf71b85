--------------------------- MODULE ForwardingEnds ----------------------------
(***************************************************************************)
(* The inductive invariant of the forwarding of a request (Forwarding),    *)
(* for any routes, deployments, context lengths and fallback lists, with   *)
(* and without a budget; and that it survives every end of a request and   *)
(* every step before the first attempt.  A request ends in a dozen places  *)
(* of the code; the lemmas EndOf... say what each leaves behind, and       *)
(* EndsWell joins them, so that the end of a request is reasoned about     *)
(* once.                                                                   *)
(***************************************************************************)
EXTENDS Forwarding, TLAPS

\* The provers have half a minute for each leaf.
USE SMTT(30), ZenonT(30)

-----------------------------------------------------------------------------
(* The inductive invariant. *)

\* The types of what the request carries and of what is recorded of it.
Statuses == {0, 200, 400, 500, 502, 503, 504}
Saws == {"success", "server_error", "interrupted", "unavailable", "mismatch", "neutral"}
Stages == {"classifier", "route_planning", "same_route_attempt", "cross_route_fallback"}
AttemptOutcomes == {"pending", "failed", "context_overflow", "request_budget_exhausted",
                    "committed"}
FailureType ==
    [status : {0, 400, 503}, outcome : {None, "client_error", "server_error", "unavailable"},
     observation : {None, "mismatch", "unavailable"}, reason : Reasons \cup {None}]
HopType ==
    [route : Routes, outcome : {"failed", "committed"},
     reason : Reasons \cup {None, "request_budget_exhausted", "context_length_exceeded"}]
TrackerType ==
    [label : Labels, observation : Saws \cup {None}, unobserved : BOOLEAN,
     hops : Seq(HopType), exhausted : BOOLEAN]
AttemptType ==
    [route : Routes, deployment : Deployments, outcome : AttemptOutcomes]
CountType == [route : Labels, outcome : Outcomes]
SawType == [route : Labels, saw : Saws]
MoveType == [from : Routes, to : Routes, reason : Reasons]
TraceType ==
    [label : Labels, status : Statuses, outcome : Outcomes, hops : Seq(HopType),
     exhausted : BOOLEAN]
LogType ==
    [counted : Seq(CountType), observed : Seq(SawType), moves : Seq(MoveType),
     failovers : Nat, exhausted : Nat, stages : Seq(Stages), traces : Seq(TraceType)]

\* Where a request is: it has no route yet, its plan is walked, it is on its
\* way, or its answer is.
Untried == {"received", "classifying"}
Walking == {"candidate", "sent", "next", "failed"}
Open == {"routed", "planning", "candidate", "sent", "next", "failed"}
Relayed == {"body", "stream"}

\* The types of the variables, without what TypeOK says of the slot.
Types ==
    /\ pc \in Untried \cup Open \cup Relayed \cup {"done"}
    /\ due \in BOOLEAN /\ (due => Budgeted)
    /\ kind \in Kinds
    /\ route \in Routes \cup {None}
    /\ left \in Seq(Routes)
    /\ plan \in Seq(Deployments) /\ at \in Nat
    /\ walk \in [floor : 0..MaxU32, refusal : {0, 400, 503}, overflow : BOOLEAN]
    /\ failure \in FailureType
    /\ tracker \in TrackerType
    /\ attempts \in Seq(AttemptType)
    /\ log \in LogType
    /\ answer \in Statuses

\* The routes of the request, in order: the one it resolved to and its list.
Course(r) == <<r>> \o Chain[r]

\* It has come down its course as far as the current route.
Come(r) ==
    /\ Len(log.moves) < Len(Course(r))
    /\ route = Course(r)[Len(log.moves) + 1]
    /\ \A i \in 1..Len(log.moves) :
          log.moves[i].from = Course(r)[i] /\ log.moves[i].to = Course(r)[i + 1]
\* and what is left is the rest.
Ahead(r) ==
    /\ Len(left) + Len(log.moves) < Len(Course(r))
    /\ \A i \in 1..Len(left) : left[i] = Course(r)[Len(log.moves) + 1 + i]

\* The request goes down its course and never leaves it.
OnCourse ==
    /\ route = None => log.moves = <<>> /\ attempts = <<>>
    /\ route # None => \E r \in Routes : Come(r) /\ (pc # "done" => Ahead(r))
    /\ kind # "auto" => log.moves = <<>> /\ left = <<>>
    /\ pc \in Untried => route = None
    /\ pc = "classifying" => kind = "auto"
    /\ pc = "routed" => log.moves = <<>>
    /\ pc \in Open \cup Relayed => route # None

\* The tracker is about the current route, and has hops once a route was left.
Tracking ==
    pc \in Open \cup Relayed =>
        /\ tracker.label = route
        /\ tracker.observation = None
        /\ tracker.unobserved = FALSE
        /\ tracker.hops = <<>> <=> log.moves = <<>>

\* Attempts were made on the routes that were left and on the current one, and
\* there last; the last one alone is not over.
Attempted ==
    /\ \A i \in DOMAIN attempts :
          attempts[i].route # route =>
             /\ \E k \in 1..Len(log.moves) : attempts[i].route = log.moves[k].from
             /\ attempts[i].outcome \in {"failed", "context_overflow"}
    /\ \A i, j \in DOMAIN attempts :
          i < j /\ attempts[i].route = route => attempts[j].route = route
    /\ \A i \in DOMAIN attempts :
          attempts[i].outcome \in {"failed", "context_overflow"} \/ i = Len(attempts)
    /\ pc \in Open \ {"sent"} =>
          \A i \in DOMAIN attempts : attempts[i].outcome \in {"failed", "context_overflow"}
    /\ pc \in {"routed", "planning"} => Sent(route) = {}
    /\ pc = "sent" =>
          /\ attempts # <<>>
          /\ attempts[Len(attempts)] =
               [route |-> route, deployment |-> plan[at], outcome |-> "pending"]
    /\ pc = "next" => Sent(route) # {}
    /\ pc \in Relayed => /\ attempts # <<>>
                         /\ attempts[Len(attempts)].route = route
                         /\ attempts[Len(attempts)].outcome = "committed"

\* The candidates that were come to.
Passed == IF pc \in {"sent", "next"} THEN at ELSE at - 1
Behind(n) == {k \in 1..Len(plan) : k <= n}

\* The walk of the plan: what is behind it was tried or is too small, and the
\* floor is the largest context that was too small.
Walked ==
    /\ pc = "failed" => failure.outcome # None
    /\ pc \in Walking =>
          /\ IsInjective(plan)
          /\ at <= Len(plan) + 1
          /\ pc \in {"candidate", "sent", "next"} => at > 0 /\ plan # <<>>
          /\ pc \in {"sent", "next"} => at <= Len(plan)
          /\ walk.overflow <=> walk.floor # 0
          /\ walk.refusal = 0 => ~walk.overflow
          /\ walk.refusal = 400 => walk.overflow
          /\ \A i \in Sent(route) : attempts[i].outcome = "context_overflow" =>
                /\ walk.overflow
                /\ Context[attempts[i].deployment] <= walk.floor
                /\ Context[attempts[i].deployment] = 0 => walk.floor = MaxU32
          /\ walk.overflow => \E d \in Overflowed : Context[d] \in {0, walk.floor}
    /\ pc \in {"candidate", "sent", "next"} =>
          /\ \A i \in Sent(route) : \E k \in Behind(Passed) : attempts[i].deployment = plan[k]
          /\ \A k \in Behind(Passed) : plan[k] \in Tried \/ ~Larger(plan[k], walk.floor)

\* History has heard of every route that was left, and not of a success.
Heard ==
    /\ pc # "done" => Len(log.observed) = IF kind = "nested" THEN 0 ELSE Len(log.moves)
    /\ kind # "nested" =>
         \A i \in 1..Len(log.moves) :
            /\ i \in DOMAIN log.observed
            /\ log.observed[i].route = log.moves[i].from
            /\ log.observed[i].saw # "success"

\* The request was over before anything was sent on the last route.
RefusedFirst ==
    \A t \in Range(log.traces) :
        /\ t.outcome = "request_budget_exhausted"
        /\ Sent(route) = {}
        /\ t.hops = <<>> \/ LastReason(t.hops) = "request_budget_exhausted"

\* What the end of the request adds to what was heard.
HeardLast ==
    pc = "done" =>
        IF kind = "nested" THEN log.observed = <<>>
        ELSE /\ Len(log.observed) = Len(log.moves) + IF RefusedFirst THEN 0 ELSE 1
             /\ ~RefusedFirst =>
                  LET last == log.observed[Len(log.observed)]
                  IN /\ route # None
                     /\ last.route = route
                     /\ last.saw = "success" => EndedAs(route, {"committed"})
                     /\ EndedAs(route, {"request_budget_exhausted", "pending"}) => last.saw = "neutral"

\* A request is counted when its answer is committed, and traced at the end.
Counting ==
    /\ pc \in Untried \cup Open => log.counted = <<>> /\ log.traces = <<>> /\ answer = 0
    /\ pc \in Relayed =>
         /\ \E o \in Outcomes \ {"request_budget_exhausted"} : log.counted = <<[route |-> route, outcome |-> o]>>
         /\ log.traces = <<>>

\* The inductive invariant: the course, the attempts and the walk carry the
\* conjuncts of AccountedOnce and EndsAreEarned that are inductive with them.
Inv ==
    /\ Types /\ OnCourse /\ Tracking /\ Attempted /\ Walked /\ Heard /\ HeardLast /\ Counting
    /\ CountedOnce /\ LabelIsTerminal /\ ReasonsAreEarned /\ OverflowGrows /\ BudgetIsCausal

-----------------------------------------------------------------------------
(* What is recorded. *)

\* A plan orders some of the route's deployments, at least one and none twice.
LEMMA PlanShape ==
    ASSUME ForwardingAssumption, NEW r \in Routes, NEW p \in Plans(r)
    PROVE  /\ p \in Seq(Deployments) /\ p # <<>> /\ Len(p) >= 1
           /\ IsInjective(p)
           /\ \A k \in 1..Len(p) : p[k] \in DeploymentsOf[r]
<1>1. PICK n \in 1..Cardinality(DeploymentsOf[r]) : p \in Injection(1..n, DeploymentsOf[r])
  BY DEF Plans
<1>2. DeploymentsOf[r] \subseteq Deployments /\ Cardinality(DeploymentsOf[r]) \in Nat
  BY DEF ForwardingAssumption
<1>3. n \in Nat /\ n >= 1 /\ p \in [1..n -> DeploymentsOf[r]] /\ IsInjective(p)
  BY <1>1, <1>2 DEF Injection
<1>4. p \in Seq(DeploymentsOf[r]) /\ Len(p) = n
  BY <1>3
<1> QED
  BY <1>2, <1>3, <1>4

\* Log m is log l with one more count, and with one more trace.
CountedIn(m, l, label, o) ==
    /\ m \in LogType
    /\ m.counted = Append(l.counted, [route |-> label, outcome |-> o])
    /\ m.observed = l.observed /\ m.moves = l.moves /\ m.failovers = l.failovers
    /\ m.stages = l.stages /\ m.traces = l.traces

\* What the tracker tells history, and what it leaves behind.
Saw(t, o) == IF t.observation # None THEN t.observation ELSE OfOutcome(o)

TraceOf(t, s, o) ==
    [label |-> t.label, status |-> s, outcome |-> o, hops |-> t.hops, exhausted |-> t.exhausted]

\* The observation a step adds to those of log l.
Adds(l, unseen, label, saw) ==
    IF kind = "nested" \/ unseen THEN l.observed
    ELSE Append(l.observed, [route |-> label, saw |-> saw])

\* Log m is log l once tracker t is finished.
FinishedIn(m, l, t, s, o) ==
    /\ m \in LogType
    /\ m.traces = Append(l.traces, TraceOf(t, s, o))
    /\ m.observed = Adds(l, t.unobserved, t.label, Saw(t, o))
    /\ m.counted = l.counted /\ m.moves = l.moves /\ m.failovers = l.failovers
    /\ m.stages = l.stages

\* record_request adds to the counts, and to nothing else.
LEMMA CountedLog ==
    ASSUME NEW l \in LogType, NEW label \in Labels, NEW o \in Outcomes
    PROVE  CountedIn(Counted(l, label, o), l, label, o)
<1>1. [route |-> label, outcome |-> o] \in CountType
  BY DEF CountType
<1>2. l.counted \in Seq(CountType)
  BY DEF LogType
<1>3. Append(l.counted, [route |-> label, outcome |-> o]) \in Seq(CountType)
  BY <1>1, <1>2
<1> DEFINE more == Append(l.counted, [route |-> label, outcome |-> o])
<1>4. Counted(l, label, o) = [l EXCEPT !.counted = more]
  BY DEF Counted, LogType
<1> HIDE DEF more
<1>5. more \in Seq(CountType)
  BY <1>3 DEF more
<1>6. [l EXCEPT !.counted = more] \in LogType
  BY <1>5, ZenonT(30) DEF LogType
<1>7. /\ [l EXCEPT !.counted = more].counted = more
      /\ [l EXCEPT !.counted = more].observed = l.observed
      /\ [l EXCEPT !.counted = more].moves = l.moves
      /\ [l EXCEPT !.counted = more].failovers = l.failovers
      /\ [l EXCEPT !.counted = more].stages = l.stages
      /\ [l EXCEPT !.counted = more].traces = l.traces
  BY DEF LogType
<1> QED
  BY <1>4, <1>6, <1>7 DEF more, CountedIn

\* observe_route adds to the observations, and to nothing else.
LEMMA ObservedLog ==
    ASSUME NEW l \in LogType, NEW r \in Labels, NEW saw \in Saws
    PROVE  /\ Observed(l, r, saw) \in LogType
           /\ Observed(l, r, saw).observed = Adds(l, FALSE, r, saw)
           /\ Observed(l, r, saw).counted = l.counted
           /\ Observed(l, r, saw).moves = l.moves
           /\ Observed(l, r, saw).failovers = l.failovers
           /\ Observed(l, r, saw).stages = l.stages
           /\ Observed(l, r, saw).traces = l.traces
<1>1. [route |-> r, saw |-> saw] \in SawType
  BY DEF SawType
<1>2. CASE kind = "nested"
  BY <1>2 DEF Observed, Adds
<1>3. CASE kind # "nested"
  <2> DEFINE more == Append(l.observed, [route |-> r, saw |-> saw])
  <2>1. Observed(l, r, saw) = [l EXCEPT !.observed = more] /\ Adds(l, FALSE, r, saw) = more
    BY <1>3 DEF Observed, LogType, Adds
  <2>2. l.observed \in Seq(SawType)
    BY DEF LogType
  <2>3. more \in Seq(SawType)
    BY <1>1, <2>2
  <2> HIDE DEF more
  <2>4. [l EXCEPT !.observed = more] \in LogType
    BY <2>3, ZenonT(30) DEF LogType
  <2>5. /\ [l EXCEPT !.observed = more].observed = more
        /\ [l EXCEPT !.observed = more].counted = l.counted
        /\ [l EXCEPT !.observed = more].moves = l.moves
        /\ [l EXCEPT !.observed = more].failovers = l.failovers
        /\ [l EXCEPT !.observed = more].stages = l.stages
        /\ [l EXCEPT !.observed = more].traces = l.traces
    BY DEF LogType
  <2> QED
    BY <2>1, <2>4, <2>5, ZenonT(30)
<1> QED
  BY <1>2, <1>3, ZenonT(30)

\* An outcome is one of the observations, and a success only when it is ok.
LEMMA OutcomeSaws ==
    ASSUME NEW o
    PROVE  OfOutcome(o) \in Saws /\ (OfOutcome(o) = "success" => o = "ok")
BY DEF OfOutcome, Saws

\* The outcomes a status stands for.
LEMMA StatusOutcomes ==
    ASSUME NEW s
    PROVE  OfStatus(s) \in {"ok", "client_error", "server_error"}
BY DEF OfStatus

\* Tracker::finish adds a trace and the last observation, and nothing else.
LEMMA FinishedLog ==
    ASSUME NEW l \in LogType, NEW t \in TrackerType, NEW s \in Statuses, NEW o \in Outcomes
    PROVE  FinishedIn(Finished(l, t, s, o), l, t, s, o)
<1>1. t.label \in Labels /\ Saw(t, o) \in Saws
  BY OutcomeSaws DEF TrackerType, Saw
<1>2. TraceOf(t, s, o) \in TraceType
  BY DEF TraceOf, TraceType, TrackerType
<1> DEFINE noted == IF t.unobserved THEN l ELSE Observed(l, t.label, Saw(t, o))
<1>3. /\ noted \in LogType
      /\ noted.observed = Adds(l, t.unobserved, t.label, Saw(t, o))
      /\ noted.counted = l.counted /\ noted.moves = l.moves
      /\ noted.failovers = l.failovers /\ noted.stages = l.stages /\ noted.traces = l.traces
  BY <1>1, ObservedLog DEF Adds
<1>4. Finished(l, t, s, o) = [noted EXCEPT !.traces = Append(@, TraceOf(t, s, o))]
  BY DEF Finished, Saw, TraceOf
<1> HIDE DEF noted
<1> DEFINE more == Append(l.traces, TraceOf(t, s, o))
<1>5. Finished(l, t, s, o) = [noted EXCEPT !.traces = more]
  BY <1>3, <1>4 DEF LogType
<1>6. l.traces \in Seq(TraceType)
  BY DEF LogType
<1>7. more \in Seq(TraceType)
  BY <1>2, <1>6
<1> HIDE DEF more
<1>8. [noted EXCEPT !.traces = more] \in LogType
  BY <1>3, <1>7, ZenonT(30) DEF LogType
<1>9. /\ [noted EXCEPT !.traces = more].traces = more
      /\ [noted EXCEPT !.traces = more].observed = noted.observed
      /\ [noted EXCEPT !.traces = more].counted = noted.counted
      /\ [noted EXCEPT !.traces = more].moves = noted.moves
      /\ [noted EXCEPT !.traces = more].failovers = noted.failovers
      /\ [noted EXCEPT !.traces = more].stages = noted.stages
  BY <1>3 DEF LogType
<1> QED
  BY <1>3, <1>5, <1>8, <1>9 DEF more, FinishedIn

-----------------------------------------------------------------------------
(* How a request ends. *)

\* The outcome of a request whose budget is spent.
Spent == "request_budget_exhausted"

\* How a step ends a request that has a tracker: it is t that is finished, with
\* status s and outcome o.
EndsAs(t, s, o, counts) ==
    /\ pc' = "done" /\ answer' = s /\ lease' = {} /\ failure' = NoFailure
    /\ tracker' = t
    /\ log' \in LogType
    /\ log'.counted = IF counts THEN Append(log.counted, [route |-> t.label, outcome |-> o])
                      ELSE log.counted
    /\ log'.traces = Append(log.traces, TraceOf(t, s, o))
    /\ log'.observed = Adds(log, t.unobserved, t.label, Saw(t, o))
    /\ log'.moves = log.moves

\* exhaust ends the request with a 504, counted under the tracker's label.
LEMMA Exhausts ==
    ASSUME log \in LogType, NEW t \in TrackerType, NEW stage \in Stages, Exhaust(t, stage)
    PROVE  EndsAs(t, 504, Spent, TRUE)
<1> DEFINE staged == IF kind = "nested" THEN log ELSE [log EXCEPT !.stages = Append(@, stage)]
<1>1. /\ staged \in LogType /\ staged.counted = log.counted /\ staged.observed = log.observed
      /\ staged.moves = log.moves /\ staged.traces = log.traces
  <2> DEFINE more == Append(log.stages, stage)
  <2>1. log.stages \in Seq(Stages)
    BY DEF LogType
  <2>2. more \in Seq(Stages) /\ staged = IF kind = "nested" THEN log ELSE [log EXCEPT !.stages = more]
    BY <2>1 DEF LogType
  <2> HIDE DEF more, staged
  <2> QED
    BY <2>2, ZenonT(30) DEF LogType
<1>2. t.label \in Labels /\ Spent \in Outcomes /\ 504 \in Statuses
  BY DEF TrackerType, Spent, Outcomes, Statuses
<1>3. log' = Finished(Counted(staged, t.label, Spent), t, 504, Spent) /\ tracker' = t /\ Ended(504)
  BY DEF Exhaust, Spent
<1> HIDE DEF staged
<1> DEFINE l == Counted(staged, t.label, Spent)
<1>a. log' = Finished(l, t, 504, Spent) /\ CountedIn(l, staged, t.label, Spent)
  BY <1>1, <1>2, <1>3, CountedLog
<1> HIDE DEF l
<1>4. /\ l \in LogType /\ l.counted = Append(log.counted, [route |-> t.label, outcome |-> Spent])
      /\ l.observed = log.observed /\ l.moves = log.moves /\ l.traces = log.traces
  BY <1>1, <1>a DEF CountedIn
<1>b. FinishedIn(log', l, t, 504, Spent)
  BY <1>2, <1>a, <1>4, FinishedLog
<1>5. /\ log' \in LogType /\ log'.traces = Append(l.traces, TraceOf(t, 504, Spent))
      /\ log'.observed = Adds(l, t.unobserved, t.label, Saw(t, Spent))
      /\ log'.counted = l.counted /\ log'.moves = l.moves
  BY <1>b DEF FinishedIn
<1>6. log'.observed = Adds(log, t.unobserved, t.label, Saw(t, Spent))
  BY <1>4, <1>5 DEF Adds
<1> QED
  BY <1>3, <1>4, <1>5, <1>6 DEF EndsAs, Ended

\* Tracker::finish without a count.
LEMMA Finishes ==
    ASSUME log \in LogType, NEW t \in TrackerType, NEW s \in Statuses, NEW o \in Outcomes,
           log' = Finished(log, t, s, o), Ended(s), tracker' = t
    PROVE  EndsAs(t, s, o, FALSE)
<1>1. FinishedIn(log', log, t, s, o)
  BY FinishedLog
<1> QED
  BY <1>1 DEF EndsAs, Ended, FinishedIn

\* and with one, under the same label.
LEMMA CountsAndFinishes ==
    ASSUME log \in LogType, NEW l \in LogType, NEW t \in TrackerType, NEW s \in Statuses,
           NEW o \in Outcomes,
           l.counted = log.counted, l.observed = log.observed, l.moves = log.moves,
           l.traces = log.traces,
           log' = Finished(Counted(l, t.label, o), t, s, o), Ended(s),
           tracker' = t
    PROVE  EndsAs(t, s, o, TRUE)
<1> DEFINE m == Counted(l, t.label, o)
<1>1. t.label \in Labels
  BY DEF TrackerType
<1>a. log' = Finished(m, t, s, o) /\ CountedIn(m, l, t.label, o)
  BY <1>1, CountedLog
<1> HIDE DEF m
<1>2. /\ m \in LogType /\ m.counted = Append(log.counted, [route |-> t.label, outcome |-> o])
      /\ m.observed = log.observed /\ m.moves = log.moves /\ m.traces = log.traces
  BY <1>a DEF CountedIn
<1>3. FinishedIn(log', m, t, s, o)
  BY <1>2, <1>a, FinishedLog
<1>4. /\ log' \in LogType /\ log'.traces = Append(m.traces, TraceOf(t, s, o))
      /\ log'.observed = Adds(m, t.unobserved, t.label, Saw(t, o))
      /\ log'.counted = m.counted /\ log'.moves = m.moves
  BY <1>3 DEF FinishedIn
<1>5. log'.observed = Adds(log, t.unobserved, t.label, Saw(t, o))
  BY <1>2, <1>4 DEF Adds
<1> QED
  BY <1>2, <1>4, <1>5 DEF EndsAs, Ended

\* Where the budget stops an attempt at a route: at a fallback route its hop
\* says so, and a first route nothing was sent on leaves no trace of itself.
LEMMA BudgetStops ==
    ASSUME ForwardingAssumption, Types, Tracking, pc \in Open, route \in Routes,
           NEW before \in BOOLEAN, BudgetStop(before)
    PROVE  \E t \in TrackerType, stage \in Stages :
             /\ Exhaust(t, stage)
             /\ t.unobserved = before /\ t.observation = None
             /\ \/ t.label = route /\ t.hops # <<>> /\ LastReason(t.hops) = Spent
                \/ /\ log.moves = <<>> /\ before /\ t.hops = <<>>
                   /\ t.label = IF kind = "auto" THEN AutoName ELSE route
                \/ log.moves = <<>> /\ ~before /\ t.hops = <<>> /\ t.label = route
<1> DEFINE n == Len(tracker.hops)
           hop == Hop(route, "failed", Spent)
           stopped == [tracker EXCEPT !.hops[n] = hop, !.unobserved = before]
<1>1. /\ tracker \in TrackerType /\ tracker.hops \in Seq(HopType) /\ n \in Nat
      /\ tracker.label = route /\ tracker.observation = None /\ tracker.unobserved = FALSE
      /\ tracker.hops = <<>> <=> log.moves = <<>>
  BY DEF Types, Tracking, TrackerType
<1>2. CASE n > 0
  <2>1. hop \in HopType /\ hop.reason = Spent
    BY DEF HopType, Hop, Spent
  <2> HIDE DEF hop
  <2> DEFINE h == [tracker.hops EXCEPT ![n] = hop]
  <2>2. h \in Seq(HopType) /\ Len(h) = n /\ h # <<>> /\ h[n] = hop
    BY <1>1, <1>2, <2>1
  <2>3. stopped = [tracker EXCEPT !.hops = h, !.unobserved = before]
    BY <1>1 DEF TrackerType
  <2> HIDE DEF h
  <2>4. /\ stopped \in TrackerType /\ stopped.unobserved = before /\ stopped.observation = None
        /\ stopped.label = route /\ stopped.hops = h
    BY <1>1, <2>2, <2>3, ZenonT(30) DEF TrackerType
  <2>5. LastReason(stopped.hops) = Spent
    BY <2>1, <2>2, <2>4 DEF LastReason
  <2>6. Exhaust(stopped, "cross_route_fallback")
    BY <1>2 DEF BudgetStop, hop, Spent
  <2>7. "cross_route_fallback" \in Stages
    BY DEF Stages
  <2> HIDE DEF stopped
  <2> QED
    BY <2>2, <2>4, <2>5, <2>6, <2>7
<1>3. CASE n = 0 /\ before
  <2> DEFINE t == Unattempted(tracker)
  <2>1. tracker.hops = <<>> /\ log.moves = <<>>
    BY <1>1, <1>3
  <2>2. Exhaust(t, "route_planning") /\ "route_planning" \in Stages
    BY <1>3 DEF BudgetStop, Stages
  <2>3. /\ t \in TrackerType /\ t.unobserved = TRUE /\ t.observation = None /\ t.hops = <<>>
        /\ t.label = IF kind = "auto" THEN AutoName ELSE route
    BY <1>1, <2>1, ZenonT(30) DEF Unattempted, TrackerType, Labels
  <2> HIDE DEF t
  <2> QED
    BY <1>3, <2>1, <2>2, <2>3, ZenonT(30)
<1>4. CASE n = 0 /\ ~before
  <2>1. tracker.hops = <<>> /\ log.moves = <<>>
    BY <1>1, <1>4
  <2>2. Exhaust(tracker, "same_route_attempt") /\ "same_route_attempt" \in Stages
    BY <1>4 DEF BudgetStop, Stages
  <2> QED
    BY <1>1, <1>4, <2>1, <2>2, ZenonT(30)
<1> QED
  BY <1>1, <1>2, <1>3, <1>4

\* The part of the invariant that the end of a request depends on.
Base == Types /\ OnCourse /\ Tracking /\ Attempted /\ Walked /\ Counting

\* What the budget may end a request for.
Caused(t) ==
    \/ (Sent(route) = {})'
    \/ EndedAs(route, {Spent})'
    \/ attempts' = attempts /\ \E d \in Range(plan) \ Tried : Larger(d, walk.floor)
    \/ t.hops # <<>> /\ LastReason(t.hops) \in Reasons

\* What is known of the tracker, the status and the outcome a request ends with.
Ends(t, s, o, counts) ==
    /\ EndsAs(t, s, o, counts)
    /\ UNCHANGED <<due, kind, route, plan, walk>>
    /\ t \in TrackerType /\ s \in Statuses /\ o \in Outcomes
    /\ counts <=> pc \notin Relayed /\ o # "cancelled"
    /\ o = "cancelled" => s = answer
    /\ pc \in Relayed => o # Spent
    /\ \/ /\ t.label = route /\ route # None
          /\ o = Spent => attempts' # <<>> \/ t.hops # <<>> \/ kind # "auto"
       \/ /\ t.label = AutoName /\ kind = "auto" /\ o = Spent
          /\ attempts = <<>> /\ t.hops = <<>>
    /\ t.unobserved <=> /\ o = Spent
                        /\ (Sent(route) = {})'
                        /\ t.hops = <<>> \/ LastReason(t.hops) = Spent
    /\ \/ attempts' = attempts
       \/ pc = "sent" /\ attempts' = [attempts EXCEPT ![Len(attempts)].outcome = Spent]
    /\ Saw(t, o) = "success" => pc \in Relayed
    /\ pc = "sent" => Saw(t, o) = "neutral"
    /\ o = Spent => due /\ Caused(t)

\* No route: nothing was sent anywhere.
LEMMA Nowhere ==
    ASSUME Types, Attempted, log.moves = <<>>, Sent(route) = {}
    PROVE  attempts = <<>>
<1>1. attempts \in Seq(AttemptType) /\ 1..Len(log.moves) = {}
  BY DEF Types
<1>2. \A i \in DOMAIN attempts : attempts[i].route = route
  BY <1>1 DEF Attempted
<1>3. DOMAIN attempts = {}
  BY <1>2 DEF Sent
<1> QED
  BY <1>1, <1>3

\* A spent budget, or a client who left, says nothing of a route.
LEMMA SpentIsNeutral ==
    ASSUME NEW t, t.observation = None
    PROVE  /\ Saw(t, Spent) = "neutral" /\ Saw(t, "cancelled") = "neutral"
           /\ Spent \in Outcomes /\ Spent # "cancelled" /\ Spent \notin Reasons
BY DEF Saw, OfOutcome, Spent, Outcomes, Reasons

\* Recording an outcome changes that of the last attempt, and nothing else.
LEMMA Recorded ==
    ASSUME NEW a \in Seq(AttemptType), a # <<>>, NEW o \in AttemptOutcomes, NEW b,
           b = [a EXCEPT ![Len(a)].outcome = o]
    PROVE  /\ b \in Seq(AttemptType) /\ Len(b) = Len(a) /\ DOMAIN b = DOMAIN a /\ b # <<>>
           /\ Len(a) \in DOMAIN a /\ DOMAIN a = 1..Len(a)
           /\ \A i \in DOMAIN a : /\ b[i].route = a[i].route
                                  /\ b[i].deployment = a[i].deployment
                                  /\ b[i].outcome = IF i = Len(a) THEN o ELSE a[i].outcome
<1> DEFINE n == Len(a)
<1>1. n \in Nat /\ n \in 1..n /\ DOMAIN a = 1..n /\ \A i \in 1..n : a[i] \in AttemptType
  OBVIOUS
<1> DEFINE c == [a[n] EXCEPT !.outcome = o]
<1>2. c \in AttemptType /\ c.route = a[n].route /\ c.deployment = a[n].deployment /\ c.outcome = o
  BY <1>1 DEF AttemptType
<1>3. b = [a EXCEPT ![n] = c]
  OBVIOUS
<1> HIDE DEF n, c
<1>4. b \in Seq(AttemptType) /\ Len(b) = n /\ DOMAIN b = 1..n
  BY <1>1, <1>2, <1>3 DEF n
<1>5. \A i \in 1..n : b[i] = IF i = n THEN c ELSE a[i]
  BY <1>1, <1>3
<1>6. b # <<>>
  BY <1>1, <1>4
<1> QED
  BY <1>1, <1>2, <1>4, <1>5, <1>6 DEF n

\* The wait for a deployment is cut.
LEMMA EndOfCut ==
    ASSUME ForwardingAssumption, Base, Cut
    PROVE  \E t \in TrackerType : Ends(t, 504, Spent, TRUE)
<1>1. /\ pc = "sent" /\ pc \in Open /\ pc \notin Relayed /\ due /\ BudgetStop(FALSE)
      /\ attempts' = [attempts EXCEPT ![Len(attempts)].outcome = Spent]
      /\ UNCHANGED <<due, kind, route, plan, walk>>
  BY ZenonT(30) DEF Cut, Open, Relayed, Record, Spent, routeVars
<1>2. route \in Routes /\ log \in LogType /\ attempts \in Seq(AttemptType)
  BY <1>1 DEF Base, Types, OnCourse
<1>3. PICK t \in TrackerType, stage \in Stages :
             /\ Exhaust(t, stage)
             /\ t.unobserved = FALSE /\ t.observation = None
             /\ \/ t.label = route /\ t.hops # <<>> /\ LastReason(t.hops) = Spent
                \/ log.moves = <<>> /\ t.hops = <<>> /\ t.label = route
  BY <1>1, <1>2, BudgetStops, ZenonT(30) DEF Base
<1>4. EndsAs(t, 504, Spent, TRUE)
  BY <1>2, <1>3, Exhausts, ZenonT(30)
<1> DEFINE n == Len(attempts)
<1>5. attempts # <<>> /\ n \in DOMAIN attempts /\ attempts[n].route = route
  BY <1>1, <1>2 DEF Base, Attempted
<1>6. /\ attempts' # <<>> /\ DOMAIN attempts' = 1..n /\ n \in 1..n
      /\ attempts'[n].route = route /\ attempts'[n].outcome = Spent
  <2>1. Spent \in AttemptOutcomes
    BY DEF Spent, AttemptOutcomes
  <2> QED
    BY <1>1, <1>2, <1>5, <2>1, Recorded
<1> HIDE DEF n
<1>7. (Sent(route) # {})' /\ EndedAs(route, {Spent})'
  <2>1. route' = route
    BY <1>1
  <2>2. n \in Sent(route)' /\ \A j \in Sent(route)' : j <= n
    BY <1>2, <1>6, <2>1 DEF Sent, n
  <2> QED
    BY <1>6, <2>1, <2>2 DEF EndedAs
<1>8. 504 \in Statuses /\ route # None /\ Caused(t)
  BY <1>2, <1>7 DEF Statuses, ForwardingAssumption, Caused
<1> QED
  BY <1>1, <1>3, <1>4, <1>6, <1>7, <1>8, SpentIsNeutral, ZenonT(30) DEF Ends

\* A candidate that is still worth trying has not been tried.
LEMMA ViableUntried ==
    ASSUME Types, Walked, pc \in {"candidate", "next"}, NEW n \in Nat,
           n = Passed + 1, Viable(n, walk.floor) # {}
    PROVE  \E d \in Range(plan) \ Tried : Larger(d, walk.floor)
<1>1. PICK j \in n..Len(plan) : Larger(plan[j], walk.floor)
  BY DEF Viable
<1>2. at \in Nat /\ at > 0 /\ plan \in Seq(Deployments) /\ IsInjective(plan)
  BY DEF Types, Walked, Walking
<1>3. Passed \in Nat /\ j \in 1..Len(plan) /\ j > Passed
  BY <1>1, <1>2 DEF Passed
<1>4. plan[j] \in Range(plan)
  BY <1>2, <1>3 DEF Range
<1>5. plan[j] \notin Tried
  <2> SUFFICES ASSUME plan[j] \in Tried PROVE FALSE
    OBVIOUS
  <2>1. PICK i \in Sent(route) : attempts[i].deployment = plan[j]
    BY DEF Tried
  <2>2. PICK k \in Behind(Passed) : attempts[i].deployment = plan[k]
    BY <2>1 DEF Walked
  <2>3. k \in 1..Len(plan) /\ k <= Passed /\ plan[k] = plan[j]
    BY <2>1, <2>2 DEF Behind
  <2>4. k = j
    BY <1>2, <1>3, <2>3 DEF IsInjective
  <2> QED
    BY <1>3, <2>3, <2>4
<1> QED
  BY <1>1, <1>4, <1>5

\* A candidate is refused.
LEMMA EndOfCandidate ==
    ASSUME ForwardingAssumption, Base, CandidateRefused
    PROVE  \E t \in TrackerType : Ends(t, 504, Spent, TRUE)
<1> DEFINE before == Sent(route) = {}
<1>1. /\ pc = "candidate" /\ pc \in Open /\ pc \notin Relayed /\ due /\ BudgetStop(before)
      /\ Viable(at, walk.floor) # {}
      /\ UNCHANGED <<due, kind, route, plan, walk, attempts>>
  BY DEF CandidateRefused, Open, Relayed, routeVars
<1>2. route \in Routes /\ log \in LogType /\ attempts \in Seq(AttemptType) /\ before \in BOOLEAN
  BY <1>1 DEF Base, Types, OnCourse
<1>a. (Sent(route) = {})' <=> before
  BY <1>1 DEF Sent
<1>b. ~before => attempts # <<>>
  BY <1>2 DEF Sent
<1>c. ~before => \E d \in Range(plan) \ Tried : Larger(d, walk.floor)
  <2>1. at \in Nat /\ Passed = at - 1 /\ Passed + 1 = at
    BY <1>1 DEF Base, Types, Passed
  <2> QED
    BY <1>1, <2>1, ViableUntried DEF Base
<1>d. log.moves = <<>> /\ before => attempts = <<>>
  BY Nowhere DEF Base
<1> HIDE DEF before
<1>3. PICK t \in TrackerType, stage \in Stages :
             /\ Exhaust(t, stage)
             /\ t.unobserved = before /\ t.observation = None
             /\ \/ t.label = route /\ t.hops # <<>> /\ LastReason(t.hops) = Spent
                \/ /\ log.moves = <<>> /\ before /\ t.hops = <<>>
                   /\ t.label = IF kind = "auto" THEN AutoName ELSE route
                \/ log.moves = <<>> /\ ~before /\ t.hops = <<>> /\ t.label = route
  BY <1>1, <1>2, BudgetStops DEF Base
<1>4. EndsAs(t, 504, Spent, TRUE)
  BY <1>2, <1>3, Exhausts, ZenonT(30)
<1>5. 504 \in Statuses /\ route # None
  BY <1>2 DEF Statuses, ForwardingAssumption
<1>6. Caused(t)
  BY <1>1, <1>a, <1>c DEF Caused
<1>7. /\ t.unobserved <=> /\ (Sent(route) = {})'
                          /\ t.hops = <<>> \/ LastReason(t.hops) = Spent
  BY <1>3, <1>a
<1>8. \/ /\ t.label = route /\ (attempts' # <<>> \/ t.hops # <<>> \/ kind # "auto")
      \/ t.label = AutoName /\ kind = "auto" /\ attempts = <<>> /\ t.hops = <<>>
  BY <1>1, <1>3, <1>b, <1>d
<1>9. /\ Saw(t, Spent) = "neutral" /\ Spent \in Outcomes /\ Spent # "cancelled"
  BY <1>3, SpentIsNeutral
<1> QED
  BY <1>1, <1>4, <1>5, <1>6, <1>7, <1>8, <1>9, ZenonT(30) DEF Ends

\* A failover is refused.
LEMMA EndOfFailover ==
    ASSUME ForwardingAssumption, Base, Failover, due, Viable(at + 1, walk.floor) # {}
    PROVE  \E t \in TrackerType : Ends(t, 504, Spent, TRUE)
<1>1. /\ pc = "next" /\ pc \in Open /\ pc \notin Relayed /\ due /\ BudgetStop(FALSE)
      /\ UNCHANGED <<due, kind, route, plan, walk, attempts>>
  BY ZenonT(30) DEF Failover, Open, Relayed
<1>2. route \in Routes /\ log \in LogType /\ attempts \in Seq(AttemptType)
  BY <1>1 DEF Base, Types, OnCourse
<1>a. ~(Sent(route) = {})'
  BY <1>1 DEF Sent, Base, Attempted
<1>b. attempts' # <<>>
  BY <1>1, <1>2 DEF Sent, Base, Attempted
<1>c. \E d \in Range(plan) \ Tried : Larger(d, walk.floor)
  <2>1. at \in Nat /\ Passed = at /\ at + 1 \in Nat
    BY <1>1 DEF Base, Types, Passed
  <2> QED
    BY <1>1, <2>1, ViableUntried DEF Base
<1>3. PICK t \in TrackerType, stage \in Stages :
             /\ Exhaust(t, stage)
             /\ t.unobserved = FALSE /\ t.observation = None
             /\ \/ t.label = route /\ t.hops # <<>> /\ LastReason(t.hops) = Spent
                \/ log.moves = <<>> /\ t.hops = <<>> /\ t.label = route
  BY <1>1, <1>2, BudgetStops, ZenonT(30) DEF Base
<1>4. EndsAs(t, 504, Spent, TRUE)
  BY <1>2, <1>3, Exhausts, ZenonT(30)
<1>5. 504 \in Statuses /\ route # None /\ Caused(t)
  BY <1>1, <1>2, <1>c DEF Statuses, ForwardingAssumption, Caused
<1>9. /\ Saw(t, Spent) = "neutral" /\ Spent \in Outcomes /\ Spent # "cancelled"
  BY <1>3, SpentIsNeutral
<1> QED
  BY <1>1, <1>3, <1>4, <1>5, <1>9, <1>a, <1>b, ZenonT(30) DEF Ends

\* The budget is spent before the first attempt at the route.
LEMMA EndOfBegin ==
    ASSUME ForwardingAssumption, Base, Begin, due
    PROVE  \E t \in TrackerType : Ends(t, 504, Spent, TRUE)
<1> DEFINE t == Unattempted(tracker)
<1>1. /\ pc = "routed" /\ pc \in Open /\ pc \notin Relayed
      /\ Exhaust(t, "route_planning") /\ "route_planning" \in Stages
      /\ UNCHANGED <<due, kind, route, plan, walk, attempts>>
  BY DEF Begin, Open, Relayed, routeVars, Stages
<1>2. /\ route \in Routes /\ log \in LogType /\ log.moves = <<>> /\ Sent(route) = {}
      /\ tracker \in TrackerType /\ tracker.hops = <<>> /\ tracker.observation = None
  BY <1>1, ZenonT(30) DEF Base, Types, OnCourse, Tracking, Attempted
<1>3. attempts = <<>> /\ (Sent(route) = {})'
  <2>1. attempts = <<>>
    BY <1>2, Nowhere DEF Base
  <2> QED
    BY <1>1, <1>2, <2>1 DEF Sent
<1>4. /\ t \in TrackerType /\ t.unobserved = TRUE /\ t.observation = None /\ t.hops = <<>>
      /\ t.label = IF kind = "auto" THEN AutoName ELSE route
  BY <1>2, ZenonT(30) DEF Unattempted, TrackerType, Labels
<1> HIDE DEF t
<1>5. EndsAs(t, 504, Spent, TRUE)
  BY <1>1, <1>2, <1>4, Exhausts, ZenonT(30)
<1>6. 504 \in Statuses /\ route # None /\ Caused(t)
  BY <1>2, <1>3 DEF Statuses, ForwardingAssumption, Caused
<1>9. /\ Saw(t, Spent) = "neutral" /\ Spent \in Outcomes /\ Spent # "cancelled"
  BY <1>4, SpentIsNeutral
<1> QED
  BY <1>1, <1>3, <1>4, <1>5, <1>6, <1>9, ZenonT(30) DEF Ends

\* A new tracker has observed nothing.
LEMMA NewTrackers ==
    ASSUME NEW label \in Labels
    PROVE  /\ NewTracker(label) \in TrackerType
           /\ NewTracker(label).label = label /\ NewTracker(label).observation = None
           /\ NewTracker(label).unobserved = FALSE /\ NewTracker(label).hops = <<>>
<1>1. <<>> \in Seq(HopType) /\ None \in Saws \cup {None} /\ FALSE \in BOOLEAN
  OBVIOUS
<1> QED
  BY <1>1 DEF NewTracker, TrackerType

\* The budget ends the classification.
LEMMA EndOfClassification ==
    ASSUME ForwardingAssumption, Base, ClassificationCut
    PROVE  \E t \in TrackerType : Ends(t, 504, Spent, TRUE)
<1> DEFINE t == [NewTracker(AutoName) EXCEPT !.unobserved = TRUE]
<1>1. /\ pc = "classifying" /\ pc \in Untried /\ pc \notin Relayed /\ due
      /\ Exhaust(t, "classifier") /\ "classifier" \in Stages
      /\ UNCHANGED <<due, kind, route, plan, walk, attempts>>
  BY DEF ClassificationCut, Untried, Relayed, routeVars, Stages
<1>2. route = None /\ log \in LogType /\ log.moves = <<>> /\ attempts = <<>> /\ kind = "auto"
  BY <1>1 DEF Base, Types, OnCourse
<1>3. (Sent(route) = {})'
  BY <1>1, <1>2 DEF Sent
<1>4. /\ t \in TrackerType /\ t.unobserved = TRUE /\ t.observation = None /\ t.hops = <<>>
      /\ t.label = AutoName
  <2> DEFINE u == NewTracker(AutoName)
  <2>1. u \in TrackerType /\ u.label = AutoName /\ u.observation = None /\ u.hops = <<>>
    BY NewTrackers, ZenonT(30) DEF Labels
  <2> HIDE DEF u
  <2>2. /\ [u EXCEPT !.unobserved = TRUE] \in TrackerType
        /\ [u EXCEPT !.unobserved = TRUE].unobserved = TRUE
        /\ [u EXCEPT !.unobserved = TRUE].label = u.label
        /\ [u EXCEPT !.unobserved = TRUE].observation = u.observation
        /\ [u EXCEPT !.unobserved = TRUE].hops = u.hops
    BY <2>1, ZenonT(30) DEF TrackerType
  <2> QED
    BY <2>1, <2>2 DEF u
<1> HIDE DEF t
<1>5. EndsAs(t, 504, Spent, TRUE)
  BY <1>1, <1>2, <1>4, Exhausts, ZenonT(30)
<1>6. 504 \in Statuses /\ Caused(t)
  BY <1>3 DEF Statuses, Caused
<1>9. /\ Saw(t, Spent) = "neutral" /\ Spent \in Outcomes /\ Spent # "cancelled"
  BY <1>4, SpentIsNeutral
<1> QED
  BY <1>1, <1>2, <1>3, <1>4, <1>5, <1>6, <1>9, ZenonT(30) DEF Ends

\* The requirements cannot be read.
LEMMA EndOfRequirements ==
    ASSUME ForwardingAssumption, Base, RequirementsRefused
    PROVE  \E t \in TrackerType : Ends(t, 400, "client_error", TRUE)
<1>1. /\ pc = "routed" /\ pc \in Open /\ pc \notin Relayed
      /\ log' = Finished(Counted(log, route, "client_error"), tracker, 400, "client_error")
      /\ Ended(400) /\ tracker' = tracker
      /\ UNCHANGED <<due, kind, route, plan, walk, attempts>>
  BY DEF RequirementsRefused, Open, Relayed, routeVars
<1>2. /\ route \in Routes /\ log \in LogType /\ tracker \in TrackerType /\ tracker.label = route
      /\ tracker.observation = None /\ tracker.unobserved = FALSE
  BY <1>1 DEF Base, Types, OnCourse, Tracking
<1>3. "client_error" \in Outcomes /\ 400 \in Statuses /\ route # None
  BY <1>2 DEF Outcomes, Statuses, ForwardingAssumption
<1>4. EndsAs(tracker, 400, "client_error", TRUE)
  BY <1>1, <1>2, <1>3, CountsAndFinishes, ZenonT(30)
<1>5. Saw(tracker, "client_error") = "neutral" /\ "client_error" # Spent
  BY <1>2 DEF Saw, OfOutcome, Spent
<1> QED
  BY <1>1, <1>2, <1>3, <1>4, <1>5, ZenonT(30) DEF Ends

\* What a failed route is observed as is never a success.
LEMMA FailedSaw ==
    ASSUME Types
    PROVE  FailedObservation \in Saws /\ FailedObservation # "success" /\ FailedObservation # None
BY DEF Types, FailureType, FailedObservation, OfOutcome, Saws, None

\* The hops, less the provisional one.
LEMMA HopsShape ==
    ASSUME Types
    PROVE  Hops \in Seq(HopType)
<1>1. tracker.hops \in Seq(HopType)
  BY DEF Types, TrackerType
<1>2. CASE tracker.hops = <<>>
  BY <1>2 DEF Hops
<1>3. CASE tracker.hops # <<>>
  <2>1. Len(tracker.hops) - 1 \in Nat /\ Len(tracker.hops) - 1 <= Len(tracker.hops)
    BY <1>1, <1>3
  <2> QED
    BY <1>1, <1>3, <2>1 DEF Hops
<1> QED
  BY <1>2, <1>3

\* A fallback is refused: the route it would have left is the last.
LEMMA EndOfMove ==
    ASSUME ForwardingAssumption, Base, MoveRefused
    PROVE  \E t \in TrackerType : Ends(t, 504, Spent, TRUE)
<1> DEFINE hop == Hop(route, "failed", failure.reason)
           h == Append(Hops, hop)
           t == [tracker EXCEPT !.observation = FailedObservation, !.hops = h]
<1>1. /\ pc = "failed" /\ pc \in Open /\ pc \notin Relayed /\ due /\ failure.reason # None
      /\ Exhaust(t, "cross_route_fallback") /\ "cross_route_fallback" \in Stages
      /\ UNCHANGED <<due, kind, route, plan, walk, attempts>>
  BY DEF MoveRefused, Open, Relayed, Stages, MayMove
<1>2. /\ route \in Routes /\ log \in LogType /\ tracker \in TrackerType /\ tracker.label = route
      /\ tracker.unobserved = FALSE /\ failure.reason \in Reasons
  BY <1>1 DEF Base, Types, OnCourse, Tracking, FailureType
<1>3. hop \in HopType /\ hop.reason = failure.reason /\ Hops \in Seq(HopType)
  BY <1>2, HopsShape DEF Hop, HopType, Base
<1> HIDE DEF hop
<1>4. h \in Seq(HopType) /\ h # <<>> /\ LastReason(h) \in Reasons
  BY <1>2, <1>3 DEF LastReason
<1> HIDE DEF h
<1>5. FailedObservation \in Saws /\ FailedObservation # "success" /\ FailedObservation # None
  BY FailedSaw DEF Base
<1>6. /\ t \in TrackerType /\ t.unobserved = FALSE /\ t.observation = FailedObservation
      /\ t.hops = h /\ t.label = route
  BY <1>2, <1>4, <1>5, ZenonT(30) DEF TrackerType
<1> HIDE DEF t
<1>7. EndsAs(t, 504, Spent, TRUE)
  BY <1>1, <1>2, <1>6, Exhausts, ZenonT(30)
<1>8. 504 \in Statuses /\ route # None /\ Caused(t)
  BY <1>2, <1>4, <1>6 DEF Statuses, ForwardingAssumption, Caused
<1>9. /\ Saw(t, Spent) # "success" /\ Spent \in Outcomes /\ Spent # "cancelled"
      /\ LastReason(t.hops) # Spent
  BY <1>4, <1>5, <1>6 DEF Saw, Outcomes, Spent, Reasons
<1> QED
  BY <1>1, <1>2, <1>4, <1>6, <1>7, <1>8, <1>9, ZenonT(30) DEF Ends

\* The last route's own error is the answer.
LEMMA EndOfConclude ==
    ASSUME ForwardingAssumption, Base, Conclude
    PROVE  \E t \in TrackerType, s \in Statuses, o \in Outcomes : Ends(t, s, o, TRUE)
<1> DEFINE exhausted == tracker.hops # <<>> /\ failure.reason # None
           reason == IF failure.reason # None THEN failure.reason ELSE "context_length_exceeded"
           hop == Hop(route, "failed", reason)
           h == IF tracker.hops = <<>> THEN <<>> ELSE Append(Hops, hop)
           t == [tracker EXCEPT !.observation = failure.observation, !.exhausted = exhausted,
                                !.hops = h]
           s == failure.status
           o == failure.outcome
           l == [log EXCEPT !.exhausted = @ + IF exhausted THEN 1 ELSE 0]
<1>1. /\ pc = "failed" /\ pc \in Open /\ pc \notin Relayed /\ pc # "sent"
      /\ Ended(s)
      /\ UNCHANGED <<due, kind, route, plan, walk, attempts>>
  BY DEF Conclude, Open, Relayed, routeVars
<1>2. /\ route \in Routes /\ log \in LogType /\ tracker \in TrackerType /\ tracker.label = route
      /\ tracker.unobserved = FALSE /\ tracker.hops \in Seq(HopType)
      /\ failure.reason \in Reasons \cup {None} /\ failure.observation \in {None, "mismatch", "unavailable"}
      /\ s \in {0, 400, 503} /\ o \in {"client_error", "server_error", "unavailable"}
  BY <1>1 DEF Base, Types, OnCourse, Tracking, TrackerType, FailureType, Walked
<1>3. /\ hop \in HopType /\ Hops \in Seq(HopType)
  BY <1>2, HopsShape DEF Hop, HopType, Base
<1>4. h \in Seq(HopType) /\ exhausted \in BOOLEAN
  BY <1>3
<1>5. log' = Finished(Counted(l, route, o), t, s, o) /\ tracker' = t
  BY <1>2, ZenonT(30) DEF Conclude, TrackerType
<1> HIDE DEF h, exhausted
<1>6. /\ t \in TrackerType /\ t.unobserved = FALSE /\ t.observation = failure.observation
      /\ t.label = route
  <2> DEFINE x == failure.observation
  <2>1. x \in Saws \cup {None}
    BY <1>2 DEF Saws
  <2> HIDE DEF x
  <2>2. t = [tracker EXCEPT !.observation = x, !.exhausted = exhausted, !.hops = h]
    BY DEF x
  <2> HIDE DEF t
  <2>a. PICK e \in BOOLEAN : e = exhausted
    BY <1>4
  <2>b. PICK g \in Seq(HopType) : g = h
    BY <1>4
  <2>c. t = [tracker EXCEPT !.observation = x, !.exhausted = e, !.hops = g]
    BY <2>2, <2>a, <2>b
  <2>3. /\ t \in TrackerType /\ t.unobserved = tracker.unobserved
        /\ t.observation = x /\ t.label = tracker.label
    <3>1. tracker \in TrackerType
      BY <1>2
    <3> QED
      BY <2>1, <2>c, <3>1, ZenonT(30) DEF TrackerType
  <2> QED
    BY <1>2, <2>3 DEF x
<1>7. /\ l \in LogType /\ l.counted = log.counted /\ l.observed = log.observed
      /\ l.moves = log.moves /\ l.traces = log.traces
  <2> DEFINE n == log.exhausted + IF exhausted THEN 1 ELSE 0
  <2>1. n \in Nat /\ l = [log EXCEPT !.exhausted = n]
    BY <1>2, <1>4 DEF LogType
  <2> HIDE DEF n, l
  <2> QED
    BY <1>2, <2>1, ZenonT(30) DEF LogType
<1>8. s \in Statuses /\ o \in Outcomes /\ route # None /\ o # Spent /\ o # "cancelled"
  BY <1>2 DEF Statuses, Outcomes, ForwardingAssumption, Spent
<1>9. Saw(t, o) # "success"
  BY <1>2, <1>6 DEF Saw, OfOutcome
<1> HIDE DEF t, s, o, l
<1>10. EndsAs(t, s, o, TRUE)
  BY <1>1, <1>2, <1>5, <1>6, <1>7, <1>8, CountsAndFinishes, ZenonT(30)
<1>11. Ends(t, s, o, TRUE)
  BY <1>1, <1>2, <1>6, <1>8, <1>9, <1>10, ZenonT(30) DEF Ends
<1> QED
  BY <1>6, <1>8, <1>11, ZenonT(30)

\* An answer that was committed ends, or the client leaves.
LEMMA EndOfRelay ==
    ASSUME ForwardingAssumption, Base, NEW s \in Statuses, NEW o \in Outcomes,
           \/ pc \in Relayed /\ o # Spent
           \/ pc = "sent" /\ o = "cancelled",
           o = "cancelled" => s = answer,
           log' = Finished(log, tracker, s, o), Ended(s),
           UNCHANGED <<due, kind, routeVars, tracker, attempts>>
    PROVE  \E t \in TrackerType : Ends(t, s, o, FALSE)
<1>1. /\ pc \in Open \cup Relayed /\ pc # "done"
      /\ UNCHANGED <<due, kind, route, plan, walk, attempts>>
  BY DEF Open, Relayed, routeVars
<1>2. /\ route \in Routes /\ log \in LogType /\ tracker \in TrackerType /\ tracker.label = route
      /\ tracker.unobserved = FALSE /\ tracker.observation = None
  BY <1>1 DEF Base, Types, OnCourse, Tracking
<1>3. EndsAs(tracker, s, o, FALSE)
  BY <1>2, Finishes, ZenonT(30)
<1>4. o # Spent /\ route # None /\ (pc \notin Relayed => o = "cancelled")
  BY <1>2 DEF Spent, ForwardingAssumption
<1>5. /\ Saw(tracker, o) = "success" => pc \in Relayed
      /\ pc = "sent" => Saw(tracker, o) = "neutral"
  BY <1>2 DEF Saw, OfOutcome, Relayed
<1> QED
  BY <1>1, <1>2, <1>3, <1>4, <1>5, ZenonT(30) DEF Ends

\* The steps that end a request with a tracker.
Ending ==
    \/ Cut \/ CandidateRefused \/ (Failover /\ due /\ Viable(at + 1, walk.floor) # {})
    \/ (Begin /\ due) \/ ClassificationCut \/ RequirementsRefused \/ MoveRefused \/ Conclude
    \/ BodyRead \/ BodyUnreadable \/ StreamEnds \/ (Leave /\ pc # "classifying")

\* Every step that ends a request with a tracker.
LEMMA EndsWell ==
    ASSUME ForwardingAssumption, Base, Ending
    PROVE  \E t \in TrackerType, s \in Statuses, o \in Outcomes, counts \in BOOLEAN :
              Ends(t, s, o, counts)
<1>0. 504 \in Statuses /\ 400 \in Statuses /\ 502 \in Statuses /\ answer \in Statuses
  BY DEF Statuses, Base, Types
<1>a. /\ Spent \in Outcomes /\ "client_error" \in Outcomes /\ "server_error" \in Outcomes
      /\ "ok" \in Outcomes /\ "interrupted" \in Outcomes /\ "cancelled" \in Outcomes
      /\ OfStatus(answer) \in Outcomes
      /\ OfStatus(answer) # Spent /\ OfStatus(answer) # "cancelled"
      /\ Spent \notin {"ok", "server_error", "interrupted", "cancelled"}
  BY StatusOutcomes DEF Outcomes, Spent
<1>1. CASE Cut
  BY <1>0, <1>a, <1>1, EndOfCut, ZenonT(30)
<1>2. CASE CandidateRefused
  BY <1>0, <1>a, <1>2, EndOfCandidate, ZenonT(30)
<1>3. CASE Failover /\ due /\ Viable(at + 1, walk.floor) # {}
  BY <1>0, <1>a, <1>3, EndOfFailover, ZenonT(30)
<1>4. CASE Begin /\ due
  BY <1>0, <1>a, <1>4, EndOfBegin, ZenonT(30)
<1>5. CASE ClassificationCut
  BY <1>0, <1>a, <1>5, EndOfClassification, ZenonT(30)
<1>6. CASE RequirementsRefused
  BY <1>0, <1>a, <1>6, EndOfRequirements, ZenonT(30)
<1>7. CASE MoveRefused
  BY <1>0, <1>a, <1>7, EndOfMove, ZenonT(30)
<1>8. CASE Conclude
  BY <1>8, EndOfConclude, ZenonT(30)
<1>9. CASE BodyRead
  <2>1. /\ pc \in Relayed /\ log' = Finished(log, tracker, answer, OfStatus(answer)) /\ Ended(answer)
        /\ UNCHANGED <<due, kind, routeVars, tracker, attempts>>
    BY <1>9 DEF BodyRead, Relayed
  <2>2. \E t \in TrackerType : Ends(t, answer, OfStatus(answer), FALSE)
    BY <1>0, <1>a, <2>1, EndOfRelay, ZenonT(30)
  <2> QED
    BY <1>0, <1>a, <2>2, ZenonT(30)
<1>10. CASE BodyUnreadable
  <2>1. /\ pc \in Relayed /\ log' = Finished(log, tracker, 502, "server_error") /\ Ended(502)
        /\ UNCHANGED <<due, kind, routeVars, tracker, attempts>>
    BY <1>10 DEF BodyUnreadable, Relayed
  <2>2. \E t \in TrackerType : Ends(t, 502, "server_error", FALSE)
    BY <1>0, <1>a, <2>1, EndOfRelay, ZenonT(30)
  <2> QED
    BY <1>0, <1>a, <2>2, ZenonT(30)
<1>11. CASE StreamEnds
  <2>1. PICK o \in {"ok", "interrupted"} : log' = Finished(log, tracker, answer, o)
    BY <1>11 DEF StreamEnds
  <2>2. /\ pc \in Relayed /\ Ended(answer)
        /\ UNCHANGED <<due, kind, routeVars, tracker, attempts>>
    BY <1>11 DEF StreamEnds, Relayed
  <2>3. o \in Outcomes /\ o # Spent /\ o # "cancelled"
    BY <1>a, <2>1
  <2>4. \E t \in TrackerType : Ends(t, answer, o, FALSE)
    BY <1>0, <2>1, <2>2, <2>3, EndOfRelay, ZenonT(30)
  <2> QED
    BY <1>0, <2>3, <2>4, ZenonT(30)
<1>12. CASE Leave /\ pc # "classifying"
  <2>1. /\ pc \in Relayed \/ pc = "sent"
        /\ log' = Finished(log, tracker, answer, "cancelled") /\ Ended(answer)
        /\ UNCHANGED <<due, kind, routeVars, tracker, attempts>>
    BY <1>12 DEF Leave, Relayed
  <2>2. \E t \in TrackerType : Ends(t, answer, "cancelled", FALSE)
    BY <1>0, <1>a, <2>1, EndOfRelay, ZenonT(30)
  <2> QED
    BY <1>0, <1>a, <2>2, ZenonT(30)
<1> QED
  BY <1>1, <1>2, <1>3, <1>4, <1>5, <1>6, <1>7, <1>8, <1>9, <1>10, <1>11, <1>12
     DEF Ending

-----------------------------------------------------------------------------
(* The end of a request keeps the invariant. *)

\* How the attempts of a request that ends differ from those it had.
LEMMA EndAttempts ==
    ASSUME ForwardingAssumption, Base, pc # "done",
           \/ attempts' = attempts
           \/ pc = "sent" /\ attempts' = [attempts EXCEPT ![Len(attempts)].outcome = Spent]
    PROVE  /\ attempts' \in Seq(AttemptType) /\ DOMAIN attempts' = DOMAIN attempts
           /\ Len(attempts') = Len(attempts)
           /\ \A i \in DOMAIN attempts :
                /\ attempts'[i].route = attempts[i].route
                /\ attempts'[i].deployment = attempts[i].deployment
                /\ \/ attempts'[i].outcome = attempts[i].outcome
                   \/ /\ i = Len(attempts) /\ attempts[i].route = route
                      /\ attempts'[i].outcome = Spent /\ pc = "sent"
<1>1. attempts \in Seq(AttemptType)
  BY DEF Base, Types
<1>2. CASE attempts' = attempts
  BY <1>1, <1>2
<1>3. CASE pc = "sent" /\ attempts' = [attempts EXCEPT ![Len(attempts)].outcome = Spent]
  <2>1. attempts # <<>> /\ attempts[Len(attempts)].route = route
    BY <1>3 DEF Base, Attempted
  <2>2. Spent \in AttemptOutcomes
    BY DEF Spent, AttemptOutcomes
  <2> QED
    BY <1>1, <1>3, <2>1, <2>2, Recorded
<1> QED
  BY <1>2, <1>3

\* The attempts on a route stay those of that route.
LEMMA EndSent ==
    ASSUME ForwardingAssumption, Base, pc # "done", NEW r,
           \/ attempts' = attempts
           \/ pc = "sent" /\ attempts' = [attempts EXCEPT ![Len(attempts)].outcome = Spent]
    PROVE  {i \in DOMAIN attempts' : attempts'[i].route = r} = Sent(r)
BY EndAttempts DEF Sent

\* The end of a request keeps what is known of its attempts.
LEMMA EndKeepsAttempted ==
    ASSUME ForwardingAssumption, Base, pc # "done",
           NEW t, NEW s, NEW o, NEW counts, Ends(t, s, o, counts)
    PROVE  Attempted'
<1>1. /\ DOMAIN attempts' = DOMAIN attempts /\ Len(attempts') = Len(attempts)
      /\ \A i \in DOMAIN attempts :
                /\ attempts'[i].route = attempts[i].route
                /\ \/ attempts'[i].outcome = attempts[i].outcome
                   \/ i = Len(attempts) /\ attempts[i].route = route
  BY EndAttempts DEF Ends
<1>2. pc' = "done" /\ route' = route /\ log'.moves = log.moves
  BY DEF Ends, EndsAs
<1>3. pc' \notin Open /\ pc' \notin Relayed /\ pc' \notin {"sent", "next", "routed", "planning"}
  BY <1>2 DEF Open, Relayed
<1>4. \A i \in DOMAIN attempts' :
          attempts'[i].route # route' =>
             /\ \E k \in 1..Len(log'.moves) : attempts'[i].route = log'.moves[k].from
             /\ attempts'[i].outcome \in {"failed", "context_overflow"}
  BY <1>1, <1>2 DEF Base, Attempted
<1>5. \A i, j \in DOMAIN attempts' :
          i < j /\ attempts'[i].route = route' => attempts'[j].route = route'
  BY <1>1, <1>2 DEF Base, Attempted
<1>6. \A i \in DOMAIN attempts' :
          attempts'[i].outcome \in {"failed", "context_overflow"} \/ i = Len(attempts')
  BY <1>1 DEF Base, Attempted
<1> QED
  BY <1>3, <1>4, <1>5, <1>6 DEF Attempted

\* and of its course.
LEMMA EndKeepsCourse ==
    ASSUME ForwardingAssumption, Base, pc # "done",
           NEW t, NEW s, NEW o, NEW counts, Ends(t, s, o, counts),
           left' \in Seq(Routes), kind # "auto" => left' = <<>>, at' = at
    PROVE  Types' /\ OnCourse'
<1>1. /\ pc' = "done" /\ route' = route /\ log'.moves = log.moves /\ kind' = kind /\ due' = due
      /\ plan' = plan /\ walk' = walk /\ answer' = s /\ failure' = NoFailure /\ tracker' = t
      /\ log' \in LogType /\ t \in TrackerType /\ s \in Statuses
  BY DEF Ends, EndsAs
<1>2. attempts' \in Seq(AttemptType) /\ DOMAIN attempts' = DOMAIN attempts
  BY EndAttempts DEF Ends
<1>3. Types'
  <2>1. NoFailure \in FailureType
    BY DEF NoFailure, FailureType
  <2> QED
    BY <1>1, <1>2, <2>1 DEF Base, Types
<1>4. OnCourse'
  <2>1. route' = None => log'.moves = <<>> /\ attempts' = <<>>
    <3> SUFFICES ASSUME route = None PROVE log.moves = <<>> /\ attempts' = <<>>
      BY <1>1, ZenonT(30)
    <3>1. log.moves = <<>> /\ attempts = <<>>
      BY DEF Base, OnCourse
    <3> QED
      BY <1>2, <3>1
  <2>2. route' # None => \E r \in Routes : Come(r)'
    <3> SUFFICES ASSUME route # None PROVE \E r \in Routes : Come(r)'
      BY <1>1, ZenonT(30)
    <3>1. PICK r \in Routes : Come(r)
      BY DEF Base, OnCourse
    <3>2. Come(r)'
      BY <1>1, <3>1 DEF Come, Course
    <3> QED
      BY <3>2
  <2>3. pc' \notin Untried /\ pc' \notin Open \cup Relayed /\ pc' \notin {"classifying", "routed"}
    BY <1>1 DEF Untried, Open, Relayed
  <2>4. kind' # "auto" => log'.moves = <<>> /\ left' = <<>>
    BY <1>1 DEF Base, OnCourse
  <2> QED
    BY <1>1, <2>1, <2>2, <2>3, <2>4 DEF OnCourse
<1> QED
  BY <1>3, <1>4

\* Nothing was committed while the request is on its way.
LEMMA Uncommitted ==
    ASSUME Base, pc \in Untried \cup Open
    PROVE  \A i \in DOMAIN attempts : attempts[i].outcome # "committed"
<1>1. CASE pc \in Untried
  BY <1>1 DEF Base, OnCourse
<1>2. CASE pc = "sent"
  <2>1. attempts[Len(attempts)].outcome = "pending"
    BY <1>2 DEF Base, Attempted
  <2> QED
    BY <2>1 DEF Base, Attempted
<1>3. CASE pc \in Open \ {"sent"}
  BY <1>3 DEF Base, Attempted
<1> QED
  BY <1>1, <1>2, <1>3

\* One sequence has one element.
LEMMA Single ==
    ASSUME NEW x
    PROVE  Append(<<>>, x) = <<x>> /\ Range(<<x>>) = {x} /\ Len(<<x>>) = 1 /\ <<x>> # <<>>
BY DEF Range

\* and the empty one none.
LEMMA NoElements == Range(<<>>) = {}
BY DEF Range

\* A request that ends has been counted at most once, and as it was traced;
LEMMA EndIsCounted ==
    ASSUME ForwardingAssumption, Base, pc # "done",
           NEW t, NEW s, NEW o, NEW counts, Ends(t, s, o, counts)
    PROVE  CountedOnce' /\ LabelIsTerminal'
<1> DEFINE tr == TraceOf(t, s, o)
           c == [route |-> t.label, outcome |-> o]
<1>1. /\ pc' = "done" /\ route' = route /\ kind' = kind /\ answer' = s
      /\ log'.traces = Append(log.traces, tr)
      /\ log'.counted = IF counts THEN Append(log.counted, c) ELSE log.counted
  BY DEF Ends, EndsAs
<1>2. pc \in Untried \cup Open \/ pc \in Relayed
  BY DEF Base, Types
<1>3. log.traces = <<>>
  BY <1>2 DEF Base, Counting
<1>4. log'.traces = <<tr>> /\ Range(log'.traces) = {tr} /\ Len(log'.traces) = 1
  BY <1>1, <1>3, Single
<1>5. tr.label = t.label /\ tr.hops = t.hops /\ c.route = t.label /\ c.outcome = o
  BY DEF TraceOf
<1>6. CASE pc \in Relayed
  <2>1. PICK x \in Outcomes \ {Spent} : log.counted = <<[route |-> route, outcome |-> x]>>
    BY <1>6, ZenonT(30) DEF Base, Counting, Spent
  <2> DEFINE d == [route |-> route, outcome |-> x]
  <2>2. log'.counted = <<d>> /\ Range(log'.counted) = {d} /\ Len(log'.counted) = 1
        /\ log'.counted # <<>>
    BY <1>1, <1>6, <2>1, Single DEF Ends
  <2>3. d.route = route /\ d.outcome # Spent
    BY <2>1
  <2>4. t.label = route /\ route # None
    BY <1>6 DEF Ends
  <2> HIDE DEF d, tr
  <2>5. CountedOnce'
    BY <1>4, <1>5, <2>2, <2>3, <2>4 DEF CountedOnce
  <2>6. LabelIsTerminal'
    BY <1>1, <2>2, <2>3, <2>4 DEF LabelIsTerminal, Spent
  <2> QED
    BY <2>5, <2>6
<1>7. CASE pc \notin Relayed /\ counts
  <2>1. log.counted = <<>>
    BY <1>2, <1>7 DEF Base, Counting
  <2>2. log'.counted = <<c>> /\ Range(log'.counted) = {c} /\ Len(log'.counted) = 1
        /\ log'.counted # <<>>
    BY <1>1, <1>7, <2>1, Single
  <2> HIDE DEF c, tr
  <2>a. c.route = tr.label
    BY <1>5
  <2>3. CountedOnce'
    <3>1. Len(log'.counted) <= 1 /\ Len(log'.traces) <= 1
      BY <1>4, <2>2
    <3>2. \A e \in Range(log'.counted), u \in Range(log'.traces) : e.route = u.label
      BY <1>4, <2>2, <2>a
    <3> QED
      BY <2>2, <3>1, <3>2 DEF CountedOnce
  <2>4. attempts = <<>> => attempts' = <<>>
    BY EndAttempts DEF Ends
  <2>5. CASE /\ t.label = route /\ route # None
             /\ o = Spent => attempts' # <<>> \/ t.hops # <<>> \/ kind # "auto"
    BY <1>1, <1>4, <1>5, <2>2, <2>3, <2>5 DEF LabelIsTerminal, Spent
  <2>6. CASE t.label = AutoName /\ kind = "auto" /\ o = Spent /\ attempts = <<>> /\ t.hops = <<>>
    BY <1>1, <1>4, <1>5, <2>2, <2>3, <2>4, <2>6 DEF LabelIsTerminal, Spent
  <2> QED
    BY <2>5, <2>6 DEF Ends
<1>8. CASE pc \notin Relayed /\ ~counts
  <2>1. o = "cancelled" /\ s = answer /\ answer = 0 /\ log.counted = <<>>
    BY <1>2, <1>8 DEF Ends, Base, Counting
  <2>2. log'.counted = <<>> /\ Range(log'.counted) = {} /\ Len(log'.counted) = 0
    BY <1>1, <1>8, <2>1, NoElements
  <2>3. ~Committed'
    <3>1. \A i \in DOMAIN attempts : attempts[i].outcome # "committed"
      BY <1>2, <1>8, Uncommitted
    <3>2. DOMAIN attempts' = DOMAIN attempts
          /\ \A i \in DOMAIN attempts : attempts'[i].outcome # "committed"
      BY <3>1, EndAttempts DEF Ends, Spent
    <3> QED
      BY <3>2 DEF Committed, Range
  <2> HIDE DEF tr
  <2> QED
    BY <1>1, <1>4, <2>1, <2>2, <2>3 DEF CountedOnce, LabelIsTerminal
<1> QED
  BY <1>6, <1>7, <1>8

\* After the end of a request its overflows are in order as before,
LEMMA EndGrows ==
    ASSUME ForwardingAssumption, Base, OverflowGrows, pc # "done",
           NEW t, NEW s, NEW o, NEW counts, Ends(t, s, o, counts)
    PROVE  OverflowGrows'
<1>1. /\ Len(attempts') = Len(attempts) /\ DOMAIN attempts = 1..Len(attempts)
      /\ \A i \in DOMAIN attempts :
                /\ attempts'[i].route = attempts[i].route
                /\ attempts'[i].deployment = attempts[i].deployment
                /\ attempts'[i].outcome = "context_overflow" =>
                      attempts[i].outcome = "context_overflow"
  BY EndAttempts DEF Ends, Spent, Base, Types
<1> QED
  BY <1>1 DEF OverflowGrows

\* and the budget ended it only where it cut or refused something.
LEMMA EndIsCausal ==
    ASSUME ForwardingAssumption, Base, pc # "done",
           NEW t, NEW s, NEW o, NEW counts, Ends(t, s, o, counts)
    PROVE  BudgetIsCausal'
<1> DEFINE tr == TraceOf(t, s, o)
<1>1. /\ route' = route /\ due' = due /\ plan' = plan /\ walk' = walk
      /\ log'.traces = Append(log.traces, tr)
  BY DEF Ends, EndsAs
<1>3. log.traces = <<>>
  BY DEF Base, Counting, Types
<1>4. Range(log'.traces) = {tr}
  BY <1>1, <1>3, Single
<1>5. tr.outcome = o /\ tr.hops = t.hops
  BY DEF TraceOf
<1> HIDE DEF tr
<1> SUFFICES ASSUME o = Spent
             PROVE  /\ due'
                    /\ \/ (Sent(route) = {})'
                       \/ EndedAs(route, {Spent})'
                       \/ \E d \in (Range(plan) \ Tried)' : Larger(d, walk.floor)'
                       \/ t.hops # <<>> /\ LastReason(t.hops) \in Reasons
  BY <1>4, <1>5 DEF BudgetIsCausal, Spent
<1>6. due /\ Caused(t)
  BY DEF Ends
<1>7. CASE attempts' = attempts /\ \E d \in Range(plan) \ Tried : Larger(d, walk.floor)
  <2>1. Tried' = Tried
    BY <1>1, <1>7 DEF Tried, Sent
  <2>2. Range(plan)' = Range(plan)
    BY <1>1
  <2>3. PICK d \in Range(plan) \ Tried : Larger(d, walk.floor)
    BY <1>7
  <2>4. Larger(d, walk.floor)'
    BY <1>1, <2>3 DEF Larger
  <2>5. d \in (Range(plan) \ Tried)'
    BY <2>1, <2>2, <2>3
  <2> QED
    BY <1>1, <1>6, <2>4, <2>5
<1> QED
  BY <1>1, <1>6, <1>7 DEF Caused

\* The last attempt on the route when the request ended.
LEMMA EndOfAttempts ==
    ASSUME ForwardingAssumption, Base, pc # "done",
           NEW t, NEW s, NEW o, NEW counts, Ends(t, s, o, counts)
    PROVE  /\ pc \in Relayed => EndedAs(route, {"committed"})'
           /\ EndedAs(route, {Spent, "pending"})' => pc = "sent"
<1>1. /\ route' = route /\ attempts \in Seq(AttemptType)
      /\ pc \in Untried \cup Open \cup Relayed
  BY DEF Ends, Base, Types
<1>2. CASE pc = "sent"
  BY <1>2 DEF Relayed
<1>3. CASE pc # "sent"
  <2>1. attempts' = attempts
    BY <1>3 DEF Ends
  <2>2. CASE pc \in Relayed
    <3> DEFINE n == Len(attempts)
    <3>1. n \in DOMAIN attempts /\ attempts[n].route = route /\ attempts[n].outcome = "committed"
          /\ \A j \in DOMAIN attempts : j <= n
      BY <1>1, <2>2 DEF Base, Attempted
    <3> HIDE DEF n
    <3>2. n \in Sent(route)' /\ \A j \in Sent(route)' : j <= n
      BY <1>1, <2>1, <3>1 DEF Sent
    <3>3. EndedAs(route, {"committed"})'
      BY <1>1, <2>1, <3>1, <3>2 DEF EndedAs
    <3>4. ~EndedAs(route, {Spent, "pending"})'
      <4> SUFFICES ASSUME EndedAs(route, {Spent, "pending"})' PROVE FALSE
        OBVIOUS
      <4>1. PICK i \in Sent(route)' : /\ attempts'[i].outcome \in {Spent, "pending"}
                                      /\ \A j \in Sent(route)' : j <= i
        BY DEF EndedAs
      <4>2. i \in DOMAIN attempts /\ n \in DOMAIN attempts
        BY <2>1, <3>1, <4>1 DEF Sent
      <4>3. i \in Nat /\ n \in Nat /\ i <= n /\ n <= i
        BY <1>1, <3>2, <4>1, <4>2
      <4>4. i = n
        BY <4>3
      <4> QED
        BY <2>1, <3>1, <4>1, <4>4 DEF Spent
    <3> QED
      BY <3>3, <3>4
  <2>3. CASE pc \notin Relayed
    <3>1. \A i \in DOMAIN attempts : attempts[i].outcome \in {"failed", "context_overflow"}
      <4>1. CASE pc \in Untried
        BY <4>1 DEF Base, OnCourse
      <4>2. CASE pc \in Open
        BY <1>3, <4>2 DEF Base, Attempted
      <4> QED
        BY <1>1, <2>3, <4>1, <4>2
    <3>2. ~EndedAs(route, {Spent, "pending"})'
      BY <2>1, <3>1 DEF EndedAs, Sent, Spent
    <3> QED
      BY <2>3, <3>2
  <2> QED
    BY <2>2, <2>3
<1> QED
  BY <1>2, <1>3

\* and history has heard of its last route what became of it.
LEMMA EndIsHeard ==
    ASSUME ForwardingAssumption, Base, Heard, pc # "done",
           NEW t, NEW s, NEW o, NEW counts, Ends(t, s, o, counts)
    PROVE  Heard' /\ HeardLast'
<1> DEFINE tr == TraceOf(t, s, o)
           saw == Saw(t, o)
           last == [route |-> t.label, saw |-> saw]
<1>1. /\ route' = route /\ kind' = kind /\ pc' = "done" /\ log'.moves = log.moves
      /\ log'.traces = Append(log.traces, tr)
      /\ log'.observed = Adds(log, t.unobserved, t.label, saw)
      /\ t \in TrackerType
  BY DEF Ends, EndsAs
<1>2. log.traces = <<>>
  BY DEF Base, Counting, Types
<1>3. Range(log'.traces) = {tr}
  BY <1>1, <1>2, Single
<1>4. tr.outcome = o /\ tr.hops = t.hops
  BY DEF TraceOf
<1>5. log.observed \in Seq(SawType) /\ log.moves \in Seq(MoveType)
  BY DEF Base, Types, LogType
<1>6. Len(log.observed) = IF kind = "nested" THEN 0 ELSE Len(log.moves)
  BY DEF Heard
<1>7. RefusedFirst' <=> t.unobserved
  <2> HIDE DEF tr
  <2>1. RefusedFirst' <=> /\ o = Spent
                          /\ (Sent(route) = {})'
                          /\ t.hops = <<>> \/ LastReason(t.hops) = Spent
    BY <1>3, <1>4 DEF RefusedFirst, Spent
  <2> QED
    BY <2>1 DEF Ends
<1> HIDE DEF tr, saw, last
<1>8. CASE kind = "nested"
  <2>1. log'.observed = log.observed /\ log.observed = <<>>
    BY <1>1, <1>5, <1>6, <1>8 DEF Adds
  <2> QED
    BY <1>1, <1>8, <2>1 DEF Heard, HeardLast
<1>9. CASE kind # "nested" /\ t.unobserved
  <2>1. log'.observed = log.observed
    BY <1>1, <1>9 DEF Adds
  <2>2. Len(log'.observed) = Len(log'.moves) + 0
    <3>1. Len(log.moves) \in Nat /\ Len(log.observed) = Len(log.moves)
      BY <1>5, <1>6, <1>9
    <3> QED
      BY <1>1, <2>1, <3>1
  <2>3. HeardLast'
    BY <1>1, <1>7, <1>9, <2>2, ZenonT(30) DEF HeardLast
  <2> QED
    BY <1>1, <1>9, <2>1, <2>3, ZenonT(30) DEF Heard
<1>10. CASE kind # "nested" /\ ~t.unobserved
  <2>1. log'.observed = Append(log.observed, last)
    BY <1>1, <1>10 DEF Adds, last
  <2> DEFINE n == Len(log.moves)
  <2>2. n \in Nat /\ Len(log.observed) = n
    BY <1>5, <1>6, <1>10
  <2>3. last.route = t.label /\ last.saw = saw
    BY DEF last
  <2>4. /\ Len(log'.observed) = n + 1 /\ log'.observed[n + 1] = last
        /\ DOMAIN log.observed = 1..n /\ DOMAIN log'.observed = 1..(n + 1)
        /\ \A i \in 1..n : log'.observed[i] = log.observed[i]
    BY <1>5, <2>1, <2>2
  <2>5. t.label = route /\ route # None
    <3> SUFFICES ASSUME t.label = AutoName /\ kind = "auto" /\ o = Spent /\ attempts = <<>>
                        /\ t.hops = <<>>
                 PROVE  FALSE
      BY DEF Ends
    <3>1. attempts' = <<>>
      BY EndAttempts DEF Ends
    <3>2. (Sent(route) = {})'
      BY <3>1 DEF Sent
    <3>3. t.unobserved
      BY <3>2 DEF Ends
    <3> QED
      BY <1>10, <3>3
  <2>6. saw = "success" => EndedAs(route, {"committed"})'
    BY EndOfAttempts DEF Ends, saw
  <2>7. EndedAs(route, {Spent, "pending"})' => saw = "neutral"
    BY EndOfAttempts DEF Ends, saw
  <2>8. Heard'
    BY <1>1, <1>10, <2>2, <2>4 DEF Heard
  <2>9. HeardLast'
    <3>1. Len(log'.observed) = Len(log'.moves) + 1
      BY <1>1, <2>4, ZenonT(30)
    <3>2. log'.observed[Len(log'.observed)] = last
      BY <2>2, <2>4
    <3>3. ~RefusedFirst' /\ kind' # "nested"
      BY <1>1, <1>7, <1>10
    <3>4. EndedAs(route, {"request_budget_exhausted", "pending"})' => last.saw = "neutral"
      BY <2>3, <2>7 DEF Spent
    <3> QED
      BY <1>1, <2>3, <2>5, <2>6, <3>1, <3>2, <3>3, <3>4, ZenonT(30) DEF HeardLast
  <2> QED
    BY <2>8, <2>9
<1> QED
  BY <1>8, <1>9, <1>10

\* A request that is over does not end again, and keeps its place in the plan.
LEMMA EndingLeft ==
    ASSUME Base, Ending
    PROVE  /\ pc # "done" /\ at' = at
           /\ left' \in Seq(Routes) /\ (kind # "auto" => left' = <<>>)
<1>1. left \in Seq(Routes) /\ (kind # "auto" => left = <<>>)
  BY DEF Base, Types, OnCourse
<1>2. CASE Cut \/ CandidateRefused \/ (Failover /\ due /\ Viable(at + 1, walk.floor) # {})
  BY <1>1, <1>2, ZenonT(30) DEF Cut, CandidateRefused, Failover, routeVars
<1>3. CASE (Begin /\ due) \/ ClassificationCut \/ RequirementsRefused
  BY <1>1, <1>3 DEF Begin, ClassificationCut, RequirementsRefused, routeVars
<1>4. CASE MoveRefused
  <2>1. pc = "failed" /\ left # <<>> /\ left' = Tail(left) /\ at' = at
    BY <1>4 DEF MoveRefused, MayMove
  <2>2. left' \in Seq(Routes) /\ kind = "auto"
    BY <1>1, <2>1
  <2> QED
    BY <2>1, <2>2
<1>5. CASE Conclude
  BY <1>1, <1>5 DEF Conclude, routeVars
<1>6. CASE BodyRead \/ BodyUnreadable \/ StreamEnds \/ (Leave /\ pc # "classifying")
  BY <1>1, <1>6 DEF BodyRead, BodyUnreadable, StreamEnds, Leave, routeVars
<1> QED
  BY <1>2, <1>3, <1>4, <1>5, <1>6 DEF Ending

\* Nothing is claimed of a walk, a count or a failure once the request is over.
LEMMA Over ==
    ASSUME pc' = "done"
    PROVE  Tracking' /\ Walked' /\ Counting' /\ ReasonsAreEarned'
<1>1. /\ pc' \notin Open \cup Relayed /\ pc' \notin Walking /\ pc' \notin Untried \cup Open
      /\ pc' \notin Relayed /\ pc' # "failed" /\ pc' \notin {"candidate", "sent", "next"}
  BY DEF Open, Relayed, Walking, Untried
<1> QED
  BY <1>1 DEF Tracking, Walked, Counting, ReasonsAreEarned

\* A request with a tracker ends.
LEMMA EndKeepsInv ==
    ASSUME ForwardingAssumption, Inv, Ending
    PROVE  Inv'
<1>1. Base /\ Heard /\ OverflowGrows
  BY DEF Inv, Base
<1>2. PICK t \in TrackerType, s \in Statuses, o \in Outcomes, counts \in BOOLEAN :
              Ends(t, s, o, counts)
  BY <1>1, EndsWell
<1>3. /\ pc # "done" /\ at' = at
      /\ left' \in Seq(Routes) /\ (kind # "auto" => left' = <<>>)
  BY <1>1, EndingLeft
<1>4. pc' = "done"
  BY <1>2 DEF Ends, EndsAs
<1>5. Tracking' /\ Walked' /\ Counting' /\ ReasonsAreEarned'
  BY <1>4, Over
<1>6. Types' /\ OnCourse'
  BY <1>1, <1>2, <1>3, EndKeepsCourse
<1>7. Attempted' /\ OverflowGrows' /\ BudgetIsCausal'
  BY <1>1, <1>2, <1>3, EndKeepsAttempted, EndGrows, EndIsCausal
<1>8. Heard' /\ HeardLast' /\ CountedOnce' /\ LabelIsTerminal'
  BY <1>1, <1>2, <1>3, EndIsHeard, EndIsCounted
<1> QED
  BY <1>5, <1>6, <1>7, <1>8 DEF Inv

\* A request refused before it had a route is counted and not traced.
LEMMA RefusedKeepsInv ==
    ASSUME ForwardingAssumption, Inv, Malformed
    PROVE  Inv'
<1>1. PICK label \in {Unknown, AutoName} : Refused(label)
  BY DEF Malformed
<1>2. pc = "received" /\ pc \in Untried
  BY DEF Malformed, Untried
<1>3. /\ route = None /\ log.moves = <<>> /\ attempts = <<>>
      /\ log.counted = <<>> /\ log.traces = <<>> /\ log \in LogType
  BY <1>2 DEF Inv, OnCourse, Counting, Types
<1>4. label \in Labels /\ "client_error" \in Outcomes
  BY DEF Labels, Outcomes
<1> DEFINE c == [route |-> label, outcome |-> "client_error"]
<1>5. CountedIn(log', log, label, "client_error")
  BY <1>1, <1>3, <1>4, CountedLog DEF Refused
<1>6. /\ log' \in LogType /\ log'.counted = Append(log.counted, c) /\ log'.moves = log.moves
      /\ log'.traces = log.traces /\ log'.observed = log.observed
  BY <1>5 DEF CountedIn
<1>7. log'.counted = <<c>> /\ Range(log'.counted) = {c} /\ Len(log'.counted) = 1
      /\ log'.counted # <<>> /\ Range(log'.traces) = {} /\ Len(log'.traces) = 0
      /\ log'.traces = <<>>
  BY <1>3, <1>6, Single, NoElements
<1>8. c.route = label
  OBVIOUS
<1> HIDE DEF c
<1>9. /\ pc' = "done" /\ answer' = 400 /\ failure' = NoFailure
      /\ UNCHANGED <<due, kind, route, left, plan, at, walk, tracker, attempts>>
  BY <1>1 DEF Refused, Ended, routeVars
<1>10. Tracking' /\ Walked' /\ Counting' /\ ReasonsAreEarned'
  BY <1>9, Over
<1>11. Types'
  <2>1. NoFailure \in FailureType /\ 400 \in Statuses
    BY DEF NoFailure, FailureType, Statuses
  <2> QED
    BY <1>6, <1>9, <2>1 DEF Inv, Types
<1>12. OnCourse'
  BY <1>3, <1>6, <1>9 DEF Inv, OnCourse, Untried, Open, Relayed
<1>13. Attempted' /\ OverflowGrows'
  <2>1. attempts' = <<>> /\ DOMAIN attempts' = {} /\ Len(attempts') = 0
    BY <1>3, <1>9
  <2>2. pc' \notin Open /\ pc' \notin Relayed /\ pc' \notin {"routed", "planning", "sent", "next"}
    BY <1>9 DEF Open, Relayed
  <2> QED
    BY <2>1, <2>2 DEF Attempted, OverflowGrows
<1>14. Heard' /\ HeardLast'
  <2>1. /\ Len(log.observed) = 0 /\ log.observed \in Seq(SawType)
        /\ Len(log.moves) = 0
    BY <1>2, <1>3 DEF Inv, Heard, LogType
  <2>2. RefusedFirst'
    BY <1>7 DEF RefusedFirst
  <2>3. log.observed = <<>> /\ 1..Len(log'.moves) = {} /\ Len(log'.observed) = 0
        /\ log'.observed = <<>> /\ Len(log'.moves) = 0
    BY <1>3, <1>6, <2>1
  <2> QED
    BY <1>9, <2>2, <2>3 DEF Heard, HeardLast
<1>15. CountedOnce' /\ LabelIsTerminal' /\ BudgetIsCausal'
  <2>1. CountedOnce'
    BY <1>7 DEF CountedOnce
  <2>2. LabelIsTerminal'
    BY <1>3, <1>7, <1>8, <1>9 DEF LabelIsTerminal
  <2>3. BudgetIsCausal'
    BY <1>7 DEF BudgetIsCausal
  <2> QED
    BY <2>1, <2>2, <2>3
<1> QED
  BY <1>10, <1>11, <1>12, <1>13, <1>14, <1>15 DEF Inv

\* A client who leaves during the classification leaves nothing behind.
LEMMA LeftKeepsInv ==
    ASSUME ForwardingAssumption, Inv, Leave, pc = "classifying"
    PROVE  Inv'
<1>2. pc \in Untried
  BY DEF Untried
<1>3. /\ route = None /\ log.moves = <<>> /\ attempts = <<>>
      /\ log.counted = <<>> /\ log.traces = <<>> /\ log \in LogType /\ answer = 0
  BY <1>2 DEF Inv, OnCourse, Counting, Types
<1>9. /\ pc' = "done" /\ answer' = answer /\ failure' = NoFailure /\ log' = log
      /\ UNCHANGED <<due, kind, route, left, plan, at, walk, tracker, attempts>>
  BY DEF Leave, Ended, routeVars
<1>10. Tracking' /\ Walked' /\ Counting' /\ ReasonsAreEarned'
  BY <1>9, Over
<1>11. Types'
  <2>1. NoFailure \in FailureType
    BY DEF NoFailure, FailureType
  <2> QED
    BY <1>9, <2>1 DEF Inv, Types
<1>12. OnCourse'
  BY <1>3, <1>9 DEF Inv, OnCourse, Untried, Open, Relayed
<1>a. attempts' = <<>> /\ DOMAIN attempts' = {} /\ Len(attempts') = 0 /\ Range(attempts') = {}
  BY <1>3, <1>9, NoElements
<1>13. Attempted' /\ OverflowGrows'
  <2>2. pc' \notin Open /\ pc' \notin Relayed /\ pc' \notin {"routed", "planning", "sent", "next"}
    BY <1>9 DEF Open, Relayed
  <2> QED
    BY <1>a, <2>2 DEF Attempted, OverflowGrows
<1>b. Range(log'.counted) = {} /\ Range(log'.traces) = {}
      /\ Len(log'.counted) = 0 /\ Len(log'.traces) = 0
  BY <1>3, <1>9, NoElements
<1>14. Heard' /\ HeardLast'
  <2>1. /\ Len(log.observed) = 0 /\ log.observed \in Seq(SawType)
        /\ Len(log.moves) = 0
    BY <1>2, <1>3 DEF Inv, Heard, LogType
  <2>2. RefusedFirst'
    BY <1>b DEF RefusedFirst
  <2>3. log.observed = <<>> /\ 1..Len(log'.moves) = {} /\ Len(log'.observed) = 0
        /\ log'.observed = <<>> /\ Len(log'.moves) = 0
    BY <1>3, <1>9, <2>1
  <2> QED
    BY <1>9, <2>2, <2>3 DEF Heard, HeardLast
<1>15. CountedOnce' /\ LabelIsTerminal' /\ BudgetIsCausal'
  <2>0. ~Committed'
    BY <1>a DEF Committed
  <2>1. CountedOnce'
    BY <1>3, <1>9, <1>b, <2>0 DEF CountedOnce
  <2>2. LabelIsTerminal' /\ BudgetIsCausal'
    BY <1>b DEF LabelIsTerminal, BudgetIsCausal
  <2> QED
    BY <2>1, <2>2
<1> QED
  BY <1>10, <1>11, <1>12, <1>13, <1>14, <1>15 DEF Inv

-----------------------------------------------------------------------------
(* The steps before the first attempt keep it. *)

\* Nothing has been recorded of a request that is on its way.
LEMMA Early ==
    ASSUME pc' \in Untried \cup Open, log'.counted = <<>>, log'.traces = <<>>, answer' = 0
    PROVE  HeardLast' /\ Counting' /\ CountedOnce' /\ LabelIsTerminal' /\ BudgetIsCausal'
<1>1. pc' # "done" /\ pc' \notin Relayed
  BY DEF Untried, Open, Relayed
<1>2. /\ Range(log'.counted) = {} /\ Range(log'.traces) = {}
      /\ Len(log'.counted) = 0 /\ Len(log'.traces) = 0
  BY NoElements
<1>3. HeardLast' /\ Counting'
  BY <1>1, ZenonT(30) DEF HeardLast, Counting
<1>4. CountedOnce'
  BY <1>1, <1>2 DEF CountedOnce
<1>5. LabelIsTerminal' /\ BudgetIsCausal'
  BY <1>2 DEF LabelIsTerminal, BudgetIsCausal
<1> QED
  BY <1>3, <1>4, <1>5

\* What does not change with the place of the request: what was heard,
LEMMA SameHeard ==
    ASSUME Heard, pc # "done", pc' # "done", kind' = kind, log'.observed = log.observed,
           log'.moves = log.moves
    PROVE  Heard'
BY DEF Heard

\* its course,
LEMMA SameCourse ==
    ASSUME OnCourse, route # None, pc # "done", pc' \in Open \cup Relayed, pc' # "routed",
           UNCHANGED <<route, left, kind>>, log'.moves = log.moves
    PROVE  OnCourse'
<1>1. PICK r \in Routes : Come(r) /\ Ahead(r)
  BY DEF OnCourse
<1>2. Come(r)'
  BY <1>1, ZenonT(30) DEF Come, Course
<1>3. Ahead(r)'
  BY <1>1 DEF Ahead, Course
<1>4. pc' \notin Untried /\ pc' # "classifying"
  BY DEF Untried, Open, Relayed
<1>5. kind' # "auto" => log'.moves = <<>> /\ left' = <<>>
  BY DEF OnCourse
<1> QED
  BY <1>2, <1>3, <1>4, <1>5 DEF OnCourse

\* its tracker
LEMMA SameTracking ==
    ASSUME Tracking, pc \in Open \cup Relayed, UNCHANGED <<route, tracker>>,
           log'.moves = log.moves
    PROVE  Tracking'
BY DEF Tracking

\* and the overflows before it.
LEMMA SameGrows ==
    ASSUME OverflowGrows, attempts' = attempts
    PROVE  OverflowGrows'
BY DEF OverflowGrows

\* A rule asks the classifier.
LEMMA ClassifyKeepsInv ==
    ASSUME ForwardingAssumption, Inv, Classify
    PROVE  Inv'
<1>1. /\ pc = "received" /\ pc \in Untried /\ kind = "auto" /\ pc' = "classifying"
      /\ UNCHANGED <<due, kind, route, left, plan, at, walk, lease, failure, tracker, attempts,
                     log, answer>>
  BY DEF Classify, Untried, routeVars
<1>2. /\ pc' \in Untried /\ pc' \notin Open /\ pc' \notin Relayed /\ pc' \notin Walking
      /\ pc' \notin {"candidate", "sent", "next", "failed", "routed", "planning", "done"}
  BY <1>1 DEF Untried, Open, Relayed, Walking
<1>3. Types'
  BY <1>1, <1>2 DEF Inv, Types
<1>4. route = None /\ attempts = <<>> /\ log.moves = <<>>
  BY <1>1 DEF Inv, OnCourse
<1>5. OnCourse'
  BY <1>1, <1>2, <1>4 DEF OnCourse
<1>6. Tracking' /\ Walked' /\ ReasonsAreEarned'
  BY <1>2, ZenonT(30) DEF Tracking, Walked, ReasonsAreEarned
<1>7. Attempted'
  <2>1. DOMAIN attempts' = {}
    BY <1>1, <1>4
  <2> QED
    BY <1>2, <2>1 DEF Attempted
<1>8. HeardLast' /\ Counting' /\ CountedOnce' /\ LabelIsTerminal' /\ BudgetIsCausal'
  BY <1>1, <1>2, Early DEF Inv, Counting
<1>9. Heard' /\ OverflowGrows'
  BY <1>1, SameHeard, SameGrows DEF Inv
<1> QED
  BY <1>3, <1>5, <1>6, <1>7, <1>8, <1>9 DEF Inv

\* The routes a request may take are a list without repetitions.
LEMMA CourseShape ==
    ASSUME ForwardingAssumption, NEW r \in Routes
    PROVE  /\ Course(r) \in Seq(Routes) /\ Chain[r] \in Seq(Routes)
           /\ Len(Course(r)) = Len(Chain[r]) + 1 /\ Len(Chain[r]) \in Nat
           /\ Course(r)[1] = r
           /\ \A i \in 1..Len(Chain[r]) : Course(r)[i + 1] = Chain[r][i]
           /\ \A i, j \in 1..Len(Course(r)) : Course(r)[i] = Course(r)[j] => i = j
<1>1. Chain[r] \in Seq(Routes) /\ IsInjective(<<r>> \o Chain[r])
  BY DEF ForwardingAssumption
<1> DEFINE c == Chain[r]
<1>2. c \in Seq(Routes) /\ <<r>> \in Seq(Routes) /\ Len(<<r>>) = 1 /\ <<r>>[1] = r
  BY <1>1
<1> HIDE DEF c
<1>3. /\ <<r>> \o c \in Seq(Routes) /\ Len(<<r>> \o c) = Len(c) + 1 /\ Len(c) \in Nat
      /\ (<<r>> \o c)[1] = r
      /\ \A i \in 1..Len(c) : (<<r>> \o c)[i + 1] = c[i]
  BY <1>2
<1>4. \A i, j \in 1..Len(<<r>> \o c) : (<<r>> \o c)[i] = (<<r>> \o c)[j] => i = j
  <2> DEFINE d == <<r>> \o c
  <2>1. IsInjective(d) /\ DOMAIN d = 1..Len(d)
    BY <1>1, <1>3 DEF c
  <2> HIDE DEF d
  <2>2. \A i, j \in 1..Len(d) : d[i] = d[j] => i = j
    BY <2>1 DEF IsInjective
  <2> QED
    BY <2>2 DEF d
<1> QED
  BY <1>2, <1>3, <1>4 DEF Course, c

\* A route is made the request's.
LEMMA ResolvedKeepsInv ==
    ASSUME ForwardingAssumption, Inv, pc \in Untried, NEW r \in Routes, Resolved(r)
    PROVE  Inv'
<1>1. /\ pc' = "routed" /\ route' = r /\ left' = IF kind = "auto" THEN Chain[r] ELSE <<>>
      /\ tracker' = NewTracker(r)
      /\ UNCHANGED <<due, kind, plan, at, walk, lease, failure, attempts, log, answer>>
  BY DEF Resolved
<1>2. /\ pc' \notin Untried /\ pc' \in Open /\ pc' \notin Relayed /\ pc' \notin Walking
      /\ pc' \notin {"candidate", "sent", "next", "failed", "planning", "done"} /\ pc # "done"
  BY <1>1 DEF Untried, Open, Relayed, Walking
<1>3. attempts = <<>> /\ log.moves = <<>> /\ route' # None /\ r \in Labels
  BY <1>1, ZenonT(30) DEF Inv, OnCourse, ForwardingAssumption, Labels
<1>4. left' \in Seq(Routes) /\ (kind # "auto" => left' = <<>>)
  BY <1>1, CourseShape
<1>5. Types'
  BY <1>1, <1>2, <1>3, <1>4, NewTrackers, ZenonT(30) DEF Inv, Types
<1>6. OnCourse'
  <2>1. Come(r)'
    <3>1. Len(log'.moves) = 0
      BY <1>1, <1>3
    <3>2. Course(r)[1] = r /\ Len(Course(r)) > 0
      BY CourseShape
    <3>3. route' = Course(r)[0 + 1] /\ 1..0 = {}
      BY <1>1, <3>2
    <3> QED
      BY <3>1, <3>2, <3>3 DEF Come
  <2>2. Ahead(r)'
    <3>1. Len(log'.moves) = 0
      BY <1>1, <1>3
    <3>2. CASE kind = "auto"
      <4>1. left' = Chain[r]
        BY <1>1, <3>2
      <4>2. Len(left') \in Nat /\ Len(Course(r)) = Len(left') + 1
        BY <4>1, CourseShape
      <4>a. \A i \in 1..Len(Chain[r]) : Course(r)[i + 1] = Chain[r][i]
        BY CourseShape
      <4>3. \A i \in 1..Len(left') : left'[i] = Course(r)[i + 1]
        BY <4>1, <4>a, ZenonT(30)
      <4>4. \A i \in 1..Len(left') : left'[i] = Course(r)[0 + 1 + i]
        BY <4>2, <4>3
      <4> QED
        BY <3>1, <4>2, <4>4 DEF Ahead
    <3>3. CASE kind # "auto"
      <4>1. Len(left') = 0
        BY <1>1, <3>3
      <4> QED
        BY <3>1, <4>1, CourseShape DEF Ahead
    <3> QED
      BY <3>2, <3>3
  <2> QED
    BY <1>1, <1>2, <1>3, <1>4, <2>1, <2>2, ZenonT(30) DEF OnCourse
<1>7. Tracking'
  <2>1. /\ tracker'.label = r /\ tracker'.observation = None /\ tracker'.unobserved = FALSE
        /\ tracker'.hops = <<>>
    BY <1>1, <1>3, NewTrackers, ZenonT(30)
  <2> QED
    BY <1>1, <1>3, <2>1, ZenonT(30) DEF Tracking
<1>8. Walked' /\ ReasonsAreEarned'
  BY <1>2, ZenonT(30) DEF Walked, ReasonsAreEarned
<1>9. Attempted'
  <2>1. DOMAIN attempts' = {}
    BY <1>1, <1>3
  <2>2. Sent(route)' = {}
    BY <2>1 DEF Sent
  <2> QED
    BY <1>2, <2>1, <2>2, ZenonT(30) DEF Attempted
<1>10. HeardLast' /\ Counting' /\ CountedOnce' /\ LabelIsTerminal' /\ BudgetIsCausal'
  BY <1>1, <1>2, Early, ZenonT(30) DEF Inv, Counting
<1>11. Heard' /\ OverflowGrows'
  BY <1>1, <1>2, SameHeard, SameGrows DEF Inv
<1> QED
  BY <1>5, <1>6, <1>7, <1>8, <1>9, <1>10, <1>11 DEF Inv

\* A step that leaves the request where it is.
LEMMA SameKeepsInv ==
    ASSUME Inv, due' \in BOOLEAN, due' => Budgeted, due => due',
           UNCHANGED <<pc, kind, route, left, plan, at, walk, failure, tracker, attempts, log,
                       answer>>
    PROVE  Inv'
<1>1. Types'
  BY DEF Inv, Types
<1>2. OnCourse'
  <2>1. route # None => \E r \in Routes : Come(r)' /\ (pc' # "done" => Ahead(r)')
    <3> SUFFICES ASSUME route # None
                 PROVE  \E r \in Routes : Come(r)' /\ (pc' # "done" => Ahead(r)')
      OBVIOUS
    <3>1. PICK r \in Routes : Come(r) /\ (pc # "done" => Ahead(r))
      BY DEF Inv, OnCourse
    <3>2. Come(r)'
      BY <3>1, ZenonT(30) DEF Come, Course
    <3>3. pc' # "done" => Ahead(r)'
      BY <3>1 DEF Ahead, Course
    <3> QED
      BY <3>2, <3>3
  <2> QED
    BY <2>1, ZenonT(30) DEF Inv, OnCourse
<1>3. Tracking' /\ Counting'
  BY ZenonT(30) DEF Inv, Tracking, Counting
<1>4. Sent(route)' = Sent(route) /\ Tried' = Tried /\ Overflowed' = Overflowed
  BY DEF Sent, Tried, Overflowed
<1>5. Attempted'
  BY <1>4, ZenonT(30) DEF Inv, Attempted
<1>6. Walked'
  <2>1. Passed' = Passed
    BY DEF Passed
  <2>2. Behind(Passed)' = Behind(Passed)
    BY <2>1 DEF Behind
  <2> QED
    BY <1>4, <2>2, ZenonT(30) DEF Inv, Walked, Larger
<1>7. Heard'
  BY ZenonT(30) DEF Inv, Heard
<1>8. HeardLast'
  <2>1. RefusedFirst' <=> RefusedFirst
    BY <1>4 DEF RefusedFirst
  <2>2. \A o : EndedAs(route, o)' <=> EndedAs(route, o)
    BY <1>4 DEF EndedAs
  <2> QED
    BY <2>1, <2>2, ZenonT(30) DEF Inv, HeardLast
<1>9. CountedOnce'
  BY DEF Inv, CountedOnce, Committed
<1>10. LabelIsTerminal'
  BY DEF Inv, LabelIsTerminal
<1>11. ReasonsAreEarned'
  BY <1>4 DEF Inv, ReasonsAreEarned
<1>12. OverflowGrows'
  BY SameGrows DEF Inv
<1>13. BudgetIsCausal'
  <2>1. EndedAs(route, {"request_budget_exhausted"})' <=> EndedAs(route, {"request_budget_exhausted"})
    BY <1>4 DEF EndedAs
  <2> QED
    BY <1>4, <2>1, ZenonT(30) DEF Inv, BudgetIsCausal, Larger
<1> QED
  BY <1>1, <1>2, <1>3, <1>5, <1>6, <1>7, <1>8, <1>9, <1>10, <1>11, <1>12, <1>13
     DEF Inv

\* What does not depend on the walk, for a step that stays on the route, sends
\* nothing and records nothing.
LEMMA StaysOnRoute ==
    ASSUME ForwardingAssumption, Inv, pc \in Open, pc' \in Open, pc' # "routed",
           UNCHANGED <<kind, route, left, tracker, answer>>,
           log'.counted = log.counted, log'.traces = log.traces, log'.moves = log.moves,
           log'.observed = log.observed
    PROVE  /\ OnCourse' /\ Tracking' /\ Heard' /\ HeardLast' /\ Counting' /\ CountedOnce'
           /\ LabelIsTerminal' /\ BudgetIsCausal'
<1>1. pc # "done" /\ pc' # "done"
  BY DEF Open
<1>2. log.counted = <<>> /\ log.traces = <<>> /\ answer = 0 /\ route # None
  BY DEF Inv, Counting, OnCourse
<1>3. OnCourse' /\ Tracking' /\ Heard'
  BY <1>1, <1>2, SameCourse, SameTracking, SameHeard, ZenonT(30) DEF Inv
<1>4. HeardLast' /\ Counting' /\ CountedOnce' /\ LabelIsTerminal' /\ BudgetIsCausal'
  BY <1>2, Early
<1> QED
  BY <1>3, <1>4

\* The start check lets the request begin.
LEMMA BeginKeepsInv ==
    ASSUME ForwardingAssumption, Inv, Begin, ~due
    PROVE  Inv'
<1>1. /\ pc = "routed" /\ pc' = "planning"
      /\ UNCHANGED <<due, kind, route, left, plan, at, walk, lease, failure, tracker, attempts,
                     log, answer>>
  BY DEF Begin, routeVars
<1>2. /\ pc \in Open /\ pc' \in Open /\ pc' \notin Relayed /\ pc' \notin Walking
      /\ pc' \notin {"candidate", "sent", "next", "failed", "routed"}
  BY <1>1 DEF Open, Relayed, Walking
<1>3. Types'
  BY <1>1, <1>2 DEF Inv, Types
<1>4. /\ OnCourse' /\ Tracking' /\ Heard' /\ HeardLast' /\ Counting' /\ CountedOnce'
      /\ LabelIsTerminal' /\ BudgetIsCausal'
  BY <1>1, <1>2, StaysOnRoute
<1>5. Walked' /\ ReasonsAreEarned'
  BY <1>2, ZenonT(30) DEF Walked, ReasonsAreEarned
<1>6. Attempted'
  BY <1>1, <1>2, ZenonT(30) DEF Inv, Attempted, Sent
<1>7. OverflowGrows'
  BY <1>1, SameGrows DEF Inv
<1> QED
  BY <1>3, <1>4, <1>5, <1>6, <1>7 DEF Inv

\* A walk begins without a floor and without a refusal.
LEMMA NewWalks ==
    /\ NewWalk \in [floor : 0..MaxU32, refusal : {0, 400, 503}, overflow : BOOLEAN]
    /\ NewWalk.floor = 0 /\ NewWalk.refusal = 0 /\ NewWalk.overflow = FALSE
    \/ MaxU32 \notin Nat
BY DEF NewWalk

\* Nothing was sent on the route.
LEMMA NothingSent ==
    ASSUME Sent(route) = {}, UNCHANGED <<route, attempts>>
    PROVE  Sent(route)' = {} /\ Tried' = {} /\ Overflowed' = {}
<1>1. Sent(route)' = {}
  BY DEF Sent
<1> QED
  BY <1>1 DEF Tried, Overflowed

\* The selector has nothing to offer.
LEMMA PlanFailsKeepsInv ==
    ASSUME ForwardingAssumption, Inv, PlanFails
    PROVE  Inv'
<1>1. /\ pc = "planning" /\ pc' = "failed" /\ plan' = <<>> /\ at' = 0 /\ walk' = NewWalk
      /\ UNCHANGED <<due, kind, route, left, tracker, attempts, log, answer>>
  BY DEF PlanFails, Failed
<1>2. \/ failure' = [status |-> 400, outcome |-> "client_error", observation |-> "mismatch",
                     reason |-> "route_capability_mismatch"]
      \/ failure' = [status |-> 503, outcome |-> "unavailable", observation |-> None,
                     reason |-> "route_unavailable"]
  BY DEF PlanFails, Failed
<1>3. /\ failure' \in FailureType /\ failure'.outcome # None
      /\ failure'.reason \in {"route_capability_mismatch", "route_unavailable"}
  BY <1>2 DEF FailureType, Reasons, None
<1>4. /\ pc \in Open /\ pc' \in Open /\ pc' \notin Relayed /\ pc' # "routed" /\ pc' # "planning"
      /\ pc' \notin {"candidate", "sent", "next"} /\ pc # "sent"
  BY <1>1 DEF Open, Relayed
<1>5. Types'
  BY <1>1, <1>3, <1>4, NewWalks DEF Inv, Types, ForwardingAssumption
<1>6. /\ OnCourse' /\ Tracking' /\ Heard' /\ HeardLast' /\ Counting' /\ CountedOnce'
      /\ LabelIsTerminal' /\ BudgetIsCausal'
  BY <1>1, <1>4, StaysOnRoute
<1>7. Attempted' /\ OverflowGrows'
  <2>1. Attempted'
    BY <1>1, <1>4, ZenonT(30) DEF Inv, Attempted
  <2> QED
    BY <1>1, <2>1, SameGrows DEF Inv
<1>8. Sent(route)' = {} /\ Tried' = {} /\ Overflowed' = {}
  <2>1. Sent(route) = {}
    BY <1>1 DEF Inv, Attempted
  <2> QED
    BY <1>1, <2>1, NothingSent
<1>9. /\ plan' = <<>> /\ Range(plan') = {} /\ IsInjective(plan') /\ Len(plan') = 0
      /\ walk'.floor = 0 /\ walk'.refusal = 0 /\ walk'.overflow = FALSE
  BY <1>1, NoElements DEF IsInjective, NewWalk
<1>10. Walked'
  BY <1>1, <1>3, <1>4, <1>8, <1>9 DEF Walked
<1>11. ReasonsAreEarned'
  BY <1>3, <1>8, <1>9 DEF ReasonsAreEarned, None
<1> QED
  BY <1>5, <1>6, <1>7, <1>10, <1>11 DEF Inv

\* The selector hands over an order.
LEMMA PlanMadeKeepsInv ==
    ASSUME ForwardingAssumption, Inv, PlanMade
    PROVE  Inv'
<1>1. /\ pc = "planning" /\ pc' = "candidate" /\ at' = 1 /\ walk' = NewWalk
      /\ UNCHANGED <<due, kind, route, left, failure, tracker, attempts, log, answer>>
  BY DEF PlanMade
<1>2. /\ pc \in Open /\ pc' \in Open /\ pc' \notin Relayed /\ pc' # "routed" /\ pc' # "planning"
      /\ pc' \notin {"sent", "next", "failed"} /\ pc # "sent" /\ pc' \in Walking
  BY <1>1 DEF Open, Relayed, Walking
<1>3. route \in Routes
  BY <1>2 DEF Inv, Types, OnCourse
<1>4. plan' \in Plans(route)
  BY DEF PlanMade
<1>5. plan' \in Seq(Deployments) /\ plan' # <<>> /\ Len(plan') >= 1 /\ IsInjective(plan')
  BY <1>3, <1>4, PlanShape
<1>6. Types'
  BY <1>1, <1>2, <1>5, NewWalks DEF Inv, Types, ForwardingAssumption
<1>7. /\ OnCourse' /\ Tracking' /\ Heard' /\ HeardLast' /\ Counting' /\ CountedOnce'
      /\ LabelIsTerminal' /\ BudgetIsCausal'
  BY <1>1, <1>2, StaysOnRoute
<1>8. Attempted' /\ OverflowGrows'
  <2>1. Attempted'
    BY <1>1, <1>2, ZenonT(30) DEF Inv, Attempted
  <2> QED
    BY <1>1, <2>1, SameGrows DEF Inv
<1>9. Sent(route)' = {} /\ Tried' = {} /\ Overflowed' = {}
  <2>1. Sent(route) = {}
    BY <1>1, ZenonT(30) DEF Inv, Attempted
  <2> QED
    BY <1>1, <2>1, NothingSent
<1>10. Walked'
  <2>1. walk'.floor = 0 /\ walk'.refusal = 0 /\ walk'.overflow = FALSE
    BY <1>1 DEF NewWalk
  <2>2. Passed' = 0
    BY <1>1 DEF Passed
  <2>3. Behind(Passed)' = {}
    BY <2>2 DEF Behind
  <2>4. 1 <= Len(plan') + 1 /\ 1 > 0 /\ 1 <= Len(plan')
    BY <1>5
  <2>5. ~walk'.overflow /\ ~(walk'.floor # 0) /\ walk'.refusal # 400
    BY <2>1
  <2>6. /\ pc' = "failed" => failure'.outcome # None
        /\ pc' \in {"sent", "next"} => at' <= Len(plan')
        /\ at' <= Len(plan') + 1 /\ at' > 0
    BY <1>1, <1>2, <2>4
  <2> QED
    BY <1>5, <1>9, <2>3, <2>5, <2>6, ZenonT(30) DEF Walked
<1>11. ReasonsAreEarned'
  BY <1>2 DEF ReasonsAreEarned
<1> QED
  BY <1>6, <1>7, <1>8, <1>10, <1>11 DEF Inv
=============================================================================

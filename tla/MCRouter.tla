------------------------------ MODULE MCRouter ------------------------------
(***************************************************************************)
(* The router's data path on small instances.  A behaviour is about one    *)
(* part, and the parts share no state: one request on its way from route   *)
(* to route; the relay of one stream; the selection of deployments, by     *)
(* round robin, by load, or by load and by priority over shared            *)
(* deployments; the book of sessions; the metrics requests record and an   *)
(* operator reads; or the health book on two nodes, where either one       *)
(* client's requests meet changes of any node and a lost message, or two   *)
(* clients' requests meet changes of the first node alone.                 *)
(***************************************************************************)
EXTENDS Forwarding, TLC

CONSTANTS k1, k2, k3, d1, d2, d3, h1, h2, n1, n2, m1, m2

VARIABLES sent, wire, conn, rewriter, got, outcome
VARIABLES available, load, cursor, lock, request, picks, plans, flaps
VARIABLES now, entries, evictions, inserted, handler, sweeping, arrivals
VARIABLES workload, counters, series, active, doing, observed, made, page,
          reading, scrapes
VARIABLES real, changes, lost, nodes, seen, monitor, serving, asked, rounds
VARIABLE part    \* what this behaviour is about

relayVars == <<sent, wire, conn, rewriter, got, outcome>>
selectionVars == <<available, load, cursor, lock, request, picks, plans, flaps>>
affinityVars == <<now, entries, evictions, inserted, handler, sweeping, arrivals>>
metricsVars == <<workload, counters, series, active, doing, observed, made, page,
                 reading, scrapes>>
healthVars == <<real, changes, lost, nodes, seen, monitor, serving, asked, rounds>>

-----------------------------------------------------------------------------
(* Coder has three deployments with two contexts, General two, one of them *)
(* never observed, Research one.  Coder may fall back to a list of two;    *)
(* General's own list must not be followed for it.                         *)

FleetOf == [Coder |-> {"c1", "c2", "c3"}, General |-> {"g1", "g2"}, Research |-> {"r1"}]
Contexts == [c1 |-> 8, c2 |-> 8, c3 |-> 32, g1 |-> 0, g2 |-> 8, r1 |-> 32]
Lists == [Coder |-> <<"General", "Research">>, General |-> <<"Research">>, Research |-> <<>>]
Fleet == DOMAIN FleetOf
AllKinds == {"auto", "named", "nested"}

(* Frames of one, two and four pieces, with a limit of two. *)

Relay == INSTANCE Relay WITH MaxFrames <- 2, FrameLimit <- 2, Sizes <- {1, 2, 4}

(* Capacities of two, one and unknown; a session may point to b. *)

RouteOf == [r1 |-> "Turns", r2 |-> "Turns", r3 |-> "Turns",
            l1 |-> "Loads", l2 |-> "Loads", l3 |-> "Loads", s1 |-> "Order"]
Order == [Turns |-> <<"a", "b", "c">>, Loads |-> <<"a", "b", "c">>,
          Order |-> <<"b", "a">>]
Policy == [Turns |-> "round_robin", Loads |-> "least_busy", Order |-> "priority"]
Limit == [a |-> 2, b |-> 1, c |-> 0]
Fit == [r \in DOMAIN RouteOf |-> IF r = "s1" THEN {"a"} ELSE {"a", "b", "c"}]

Selection == INSTANCE Selection WITH
    Requests <- DOMAIN RouteOf, Sticky <- {"b"}, MaxPlans <- 4, MaxFlaps <- 1

(* Three sessions in a book of two entries. *)

Affinity == INSTANCE Affinity WITH
    request <- handler, Keys <- {k1, k2, k3}, Deployments <- {d1, d2},
    Requests <- {h1, h2}, MaxEntries <- 2, Ttl <- 1, MaxTime <- 2,
    MaxArrivals <- 3

(* What two tasks may record together: every method of the metrics. *)

Call(method, args) == [method |-> method, args |-> args]
Routed(args) == [route |-> "r"] @@ args

MCWorkloads ==
    {{Call("record_request", Routed([outcome |-> "client_error"])),
      Call("enter", Routed(<<>>)), Call("record_failover", Routed(<<>>)),
      Call("observe_request", Routed([policy |-> "priority", elapsed |-> 10]))},
     {Call("record_auto_decision", Routed([rule |-> "_fallback", fallback |-> TRUE])),
      Call("record_classification",
           [provider |-> "jev", outcome |-> "chosen", chosen |-> <<"r">>, elapsed |-> 10]),
      Call("record_classification",
           [provider |-> "jev", outcome |-> "timeout", chosen |-> <<>>, elapsed |-> 300001])},
     {Call("observe_estimate", Routed([estimated |-> 2, actual |-> 5])),
      Call("observe_estimate", Routed([estimated |-> 0, actual |-> 16])),
      Call("record_scoring", [reason |-> "scored", winner |-> "r", overrode |-> "true"]),
      Call("record_scoring", [reason |-> "no_verdict", winner |-> "r", overrode |-> "false"])},
     {Call("record_decision", Routed([policy |-> "priority", reason |-> "first"])),
      Call("record_capability_filtered", Routed([gap |-> "context"])),
      Call("record_capability_mismatch", Routed(<<>>)),
      Call("record_context_overflow_failover", Routed(<<>>))},
     {Call("record_affinity_hit", Routed(<<>>)), Call("record_affinity_miss", Routed(<<>>)),
      Call("record_affinity_reassignment", Routed([reason |-> "unhealthy"]))},
     {Call("record_placement_action", Routed([action |-> "load", result |-> "ok"])),
      Call("record_placement_failure", Routed([reason |-> "timeout"])),
      Call("observe_reconcile", [elapsed |-> 9]),
      Call("record_route_history", Routed([observation |-> "completed"]))},
     {Call("record_cross_route_fallback",
           [from |-> "r", to |-> "s", reason |-> "route_exhausted"]),
      Call("record_cross_route_exhausted", Routed([reason |-> "route_exhausted"])),
      Call("record_budget_exhausted", [stage |-> "classifier"]),
      Call("observe_budget_remaining", [elapsed |-> 5])},
     {Call("observe_planning", Routed([policy |-> "priority", elapsed |-> 11])),
      Call("observe_ttft", Routed([policy |-> "priority", elapsed |-> 5])),
      Call("observe_upstream_ttft", Routed([deployment |-> "d", elapsed |-> 5])),
      Call("observe_upstream_response", Routed([deployment |-> "d", elapsed |-> 4])),
      Call("observe_upstream_duration", Routed([deployment |-> "d", elapsed |-> 300000]))}}

Metrics == INSTANCE RouterMetrics WITH
    Recorders <- {"a", "b"}, Workloads <- MCWorkloads, MaxCalls <- 2, MaxScrapes <- 2

(* The first node hosts two of the three deployments; the first failure    *)
(* of a node does not decide.                                              *)

AnyNode == [up : {TRUE}, model : {m1, m2, "no model"}]
             \cup {[up |-> FALSE, model |-> "no model"]}

Health == INSTANCE HealthRounds WITH
    request <- asked, NodeOrder <- <<n1, n2>>, Deployments <- {d1, d2, d3},
    NodeOf <- (d1 :> n1 @@ d2 :> n1 @@ d3 :> n2),
    RemoteModel <- (d1 :> m1 @@ d2 :> m2 @@ d3 :> m1), Models <- {m1, m2},
    Requests <- {h1, h2}, Threshold <- 2, InitialNodes <- AnyNode,
    MaxChanges <- 2, MaxLost <- 1

ASSUME Health!HealthAssumption
ASSUME ForwardingAssumption
ASSUME Relay!RelayAssumption
ASSUME Selection!SelectionAssumption
ASSUME Affinity!AffinityAssumption

-----------------------------------------------------------------------------
\* Who plans in each part; only shared deployments come and go.
Planners == [turns |-> {"r1", "r2", "r3"}, loads |-> {"l1", "l2", "l3"},
             shared |-> {"l1", "l2", "s1"}]

\* No step tells sessions or handlers apart, so the first request is h1's for
\* k1, and k3 comes after k2.
InTurn ==
    /\ arrivals <= 1 => handler[h2].key = "none" /\ handler[h1].key \in {"none", k1}
    /\ arrivals <= 2 => k3 \notin {handler[h1].key, handler[h2].key}

NoMetrics ==
    /\ workload = {} /\ counters = <<>> /\ series = <<>> /\ active = 0 /\ doing = <<>>
    /\ observed = <<>> /\ made = <<>> /\ page = <<>> /\ reading = <<>> /\ scrapes = 0

NoHealth ==
    /\ real = <<>> /\ changes = 0 /\ lost = 0 /\ nodes = <<>> /\ seen = {}
    /\ monitor = <<>> /\ serving = FALSE /\ asked = <<>> /\ rounds = <<>>

Book == part \in {"client", "crowd"}

MCInit ==
    /\ Init
    /\ Relay!Init
    /\ Selection!Init
    /\ Affinity!Init
    /\ part \in {"forwarding", "relay", "affinity", "metrics", "client", "crowd"}
                \cup DOMAIN Planners
    /\ kind = "auto" \/ part = "forwarding"
    /\ IF part = "metrics" THEN Metrics!MetricsInit ELSE NoMetrics
    /\ IF Book THEN Health!RoundsInit ELSE NoHealth
    /\ part = "crowd" => ~real[n2].up /\ real[n1].model # m2    \* m1, d1 and m2, d2 are alike

MCNext ==
    \/ /\ part = "forwarding"
       /\ Next
       /\ UNCHANGED <<relayVars, selectionVars, affinityVars, metricsVars, healthVars, part>>
    \/ /\ part = "relay"
       /\ Relay!Next
       /\ UNCHANGED <<vars, selectionVars, affinityVars, metricsVars, healthVars, part>>
    \/ /\ part \in DOMAIN Planners
       /\ \/ \E r \in Planners[part] : Selection!Step(r)
          \/ part = "shared" /\ \E d \in DOMAIN Limit : Selection!Flap(d)
       /\ part = "turns" \/ plans' < 4
       /\ UNCHANGED <<vars, relayVars, affinityVars, metricsVars, healthVars, part>>
    \/ /\ part = "affinity"
       /\ Affinity!Next
       /\ InTurn'
       /\ UNCHANGED <<vars, relayVars, selectionVars, metricsVars, healthVars, part>>
    \/ /\ part = "metrics"
       /\ Metrics!MetricsNext
       /\ UNCHANGED <<vars, relayVars, selectionVars, affinityVars, healthVars, part>>
    \/ /\ Book
       /\ Health!RoundsNext
       /\ IF part = "crowd"
          THEN real'[n2] = real[n2] /\ lost' = 0
          ELSE asked'[h2] = asked[h2] /\ changes' <= 1
       /\ UNCHANGED <<vars, relayVars, selectionVars, affinityVars,
                      metricsVars, part>>

allVars == <<vars, relayVars, selectionVars, affinityVars, metricsVars, healthVars, part>>

\* What the router owes, in whatever the behaviour is about: the request goes
\* on and its deadline passes, or the monitor and the clients' requests go on.
fairVars == <<vars, healthVars>>

Owed(h) ==
    \/ part = "forwarding" /\ UNCHANGED healthVars
         /\ (IF h = h1 THEN Router ELSE Deadline)
    \/ Book /\ Health!Request(h) /\ UNCHANGED <<vars, rounds>>

MCSpec ==
    /\ MCInit /\ [][MCNext]_allVars
    /\ WF_fairVars(Owed(h1))
    /\ WF_fairVars(Owed(h2))
    /\ WF_Health!vars(Book /\ Health!Monitor)

-----------------------------------------------------------------------------
\* Nothing that passes through the router is lost, doubled or torn.  The client
\* gets the node's frames, in order, without a gap or a delay, and a stream that
\* ended without the client leaving ended in one last frame; and what requests
\* record at once is all there, on any page an operator reads meanwhile.
NothingIsTorn ==
    /\ Relay!GotIsSent /\ Relay!OneLastFrame
    /\ part = "metrics" => Metrics!HistogramsAreTrue /\ Metrics!EveryCallCountsOnce

\* What least-busy saw idle is not taken by another request of its route, and
\* round robin spreads the requests it chooses for evenly over the ring.
SpreadIsFair == Selection!NoDoubleTake /\ Selection!RoundRobinIsEven

\* Nothing is started after the deadline or after a commit, and a live session
\* is moved or forgotten only for a reason.
NothingMovesLate ==
    [][NothingStartsLate /\ Affinity!SessionsStay]_allVars

\* With a budget a request is committed or over in bounded time.
RequestsAreDecided == <>[](part = "forwarding" => Decided)

\* What the health book tells a request is grounded in an observation, and it is
\* never more than a round behind a node.
BookIsFresh == Book => Health!BookIsFresh

\* Once the nodes and the network settle, the book comes to agree with every
\* node and stays so, whatever stale probes, failures and refusals were still
\* to be recorded.
BookConverges == <>[](Book => Health!Agrees(n1) /\ Health!Agrees(n2))
=============================================================================

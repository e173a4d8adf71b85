---------------------------- MODULE RouterProofs ----------------------------
(***************************************************************************)
(* What the router's health book (HealthRounds) and its placement          *)
(* controller (Placement) guarantee, for any fleet, any number of routes   *)
(* and any threshold.  The placement controller runs beside the monitor    *)
(* and the requests and changes the same book, so its proof takes over the *)
(* part of the health invariant that is about the book.                    *)
(***************************************************************************)
EXTENDS HealthRounds, Placement, WellFoundedInduction, TLAPS

\* The provers have half a minute for each leaf.
USE SMTT(30), ZenonT(30)

-----------------------------------------------------------------------------
(* The invariant behind it. *)

BookTypes ==
    /\ TypeOK
    /\ \A r \in Requests :
          request[r].pc \in {"sent", "answered"} => request[r].on \in Deployments

Types == BookTypes /\ rounds \in [Nodes -> [begun : BOOLEAN, done : 0..Threshold]]

\* Where the monitor is in its round.
Paced ==
    /\ monitor.pc = "asleep" => monitor.unprobed = Nodes
    /\ monitor.filed => monitor.pc = "recording" /\ monitor.queue # <<>>

\* A status is changed only after the observation behind it is filed.
Grounded ==
    /\ \A d \in Deployments : Available(d, nodes) => d \in seen
    /\ monitor.filed =>
          Filed(Head(monitor.queue), monitor.found[Head(monitor.queue)]) \subseteq seen

\* The result a round has of node n.
HasResult(n) ==
    \/ monitor.pc = "recording"
    \/ monitor.pc = "probing" /\ n \notin monitor.unprobed

\* What a round that began after the node's last change finds of it.
Current(n) ==
    rounds[n].begun /\ HasResult(n) => monitor.found[n] \in {Reply(n), Failure}

\* What the recorded rounds have told the book of node n.
Told(n) ==
    /\ rounds[n].done > 0 => rounds[n].begun
    /\ nodes[n].failures >= Threshold => nodes[n].health = "unhealthy"
    /\ ~real[n].up => nodes[n].failures >= rounds[n].done
    /\ rounds[n].done > 0 /\ real[n].up =>
          nodes[n].served \in {real[n].model, NoModel}

IInv == Types /\ Paced /\ Grounded /\ \A n \in Nodes : Current(n) /\ Told(n)

-----------------------------------------------------------------------------
(* Types. *)

\* What apply makes of a status, from either outcome.
LEMMA Applied ==
    ASSUME HealthAssumption, NEW s \in NodeStatus, NEW o \in Outcome
    PROVE  /\ Apply(s, o) \in NodeStatus
           /\ o.ok => /\ Apply(s, o).served = o.model
                      /\ Apply(s, o).failures = 0
           /\ ~o.ok => /\ Apply(s, o).served = s.served
                       /\ Apply(s, o).health \in {s.health, "unhealthy"}
                       /\ Apply(s, o).failures =
                             IF s.failures < Threshold THEN s.failures + 1 ELSE s.failures
                       /\ Apply(s, o).failures >= Threshold =>
                             Apply(s, o).health = "unhealthy"
<1> USE DEF HealthAssumption, Outcome, NodeStatus
<1>1. CASE o.ok
  BY <1>1 DEF Apply
<1>2. CASE ~o.ok
  <2> DEFINE c == IF s.failures < Threshold THEN s.failures + 1 ELSE s.failures
             h == IF c >= Threshold THEN "unhealthy" ELSE s.health
  <2>1. c \in 0..Threshold
    OBVIOUS
  <2>2. Apply(s, o) = [s EXCEPT !.failures = c, !.health = h]
    BY <1>2 DEF Apply
  <2>3. QED
    BY <1>2, <2>1, <2>2, ZenonT(30)
<1>3. QED
  BY <1>1, <1>2

\* The steps by what they change: a node, the monitor's round, the book on a
\* request's report, or a request alone.
LEMMA Steps ==
    ASSUME Next
    PROVE  \/ \E k \in Nodes, to \in [up : BOOLEAN, model : Served] : Change(k, to)
           \/ \E k \in Nodes : Probed(k, Reply(k)) \/ Probed(k, Failure)
           \/ StartRound \/ JoinAll \/ FileNext \/ StatusNext \/ EndRound
           \/ \E r \in Requests : Report(r)
           \/ UNCHANGED <<real, bookVars, monitor>>
<1>1. ASSUME Environment
      PROVE  \E k \in Nodes, to \in [up : BOOLEAN, model : Served] : Change(k, to)
  BY <1>1, ZenonT(30)
     DEF Environment, Crash, Restart, OperatorLoads, OperatorUnloads, Down, Served
<1>2. ASSUME NEW n \in Nodes, Probe(n) \/ ProbeLost(n)
      PROVE  Probed(n, Reply(n)) \/ Probed(n, Failure)
  BY <1>2 DEF Probe, ProbeLost
<1>3. ASSUME NEW r \in Requests,
             \/ ReadObservations(r) \/ RequestLost(r) \/ Refuse(r) \/ NodeAnswers(r)
             \/ \E d \in Deployments : Plan(r, d)
      PROVE  UNCHANGED <<real, bookVars, monitor>>
  BY <1>3, ZenonT(30)
     DEF ReadObservations, RequestLost, Refuse, NodeAnswers, Plan, Answer,
         SetRequest, nodeVars
<1>4. QED
  BY <1>1, <1>2, <1>3 DEF Next, Monitor, Request

\* The configured book starts within its types.
LEMMA TypesInit == HealthAssumption /\ Init => BookTypes
<1> SUFFICES ASSUME HealthAssumption, Init PROVE BookTypes
  OBVIOUS
<1>1. real \in [Nodes -> [up : BOOLEAN, model : Served]]
  BY DEF HealthAssumption, Init
<1>2. /\ nodes \in [Nodes -> NodeStatus] /\ changes \in 0..MaxChanges
      /\ lost \in 0..MaxLost
  BY DEF HealthAssumption, Init, NodeStatus, Served
<1>3. monitor \in [pc : {"asleep", "probing", "recording"}, unprobed : SUBSET Nodes,
                   filed : BOOLEAN, found : [Nodes -> Outcome], queue : Seq(Nodes)]
  BY DEF Init, Asleep, Outcome, Failure, Served
<1>4. seen \subseteq Deployments /\ serving \in BOOLEAN
  BY ZenonT(30) DEF Init
<1>5. /\ request \in [Requests ->
                      [pc : {"idle", "planning", "sent", "answered"},
                       observed : SUBSET Deployments,
                       on : Deployments \cup {NoDeployment},
                       answer : {"none", "served", "model_not_found", "unreachable"}]]
      /\ \A r \in Requests : request[r].pc = "idle"
  BY DEF Init, Idle
<1>6. QED
  BY <1>1, <1>2, <1>3, <1>4, <1>5 DEF BookTypes, TypeOK

\* What a node replies to a probe, and what a lost probe counts as.
LEMMA Outcomes ==
    ASSUME TypeOK, NEW n \in Nodes
    PROVE  Reply(n) \in Outcome /\ Failure \in Outcome
BY DEF TypeOK, Reply, Success, Failure, Outcome, Served

\* Every step keeps the types.
LEMMA BookTypesStep ==
    ASSUME HealthAssumption, BookTypes, Paced, Next
    PROVE  BookTypes'
<1> USE DEF bookVars, nodeVars
<1> DEFINE Monitors == [pc : {"asleep", "probing", "recording"}, unprobed : SUBSET Nodes,
                        filed : BOOLEAN, found : [Nodes -> Outcome], queue : Seq(Nodes)]
           Asks == [pc : {"idle", "planning", "sent", "answered"},
                    observed : SUBSET Deployments, on : Deployments \cup {NoDeployment},
                    answer : {"none", "served", "model_not_found", "unreachable"}]
<1>a. /\ real \in [Nodes -> [up : BOOLEAN, model : Served]] /\ monitor \in Monitors
      /\ nodes \in [Nodes -> NodeStatus] /\ seen \subseteq Deployments
      /\ request \in [Requests -> Asks] /\ serving \in BOOLEAN
      /\ changes \in 0..MaxChanges /\ lost \in 0..MaxLost
      /\ \A r \in Requests :
            request[r].pc \in {"sent", "answered"} => request[r].on \in Deployments
  BY DEF BookTypes, TypeOK
<1>b. NodeOf \in [Deployments -> Nodes] /\ Threshold \in Nat \ {0} /\ NodeOrder \in Seq(Nodes)
  BY DEF HealthAssumption
<1>1. ASSUME NEW k \in Nodes, NEW to \in [up : BOOLEAN, model : Served], Change(k, to)
      PROVE  BookTypes'
  <2>1. real' \in [Nodes -> [up : BOOLEAN, model : Served]]
    BY <1>1, <1>a DEF Change
  <2>2. changes' \in 0..MaxChanges
    BY <1>1, <1>a DEF Change, HealthAssumption
  <2>3. QED
    BY <1>1, <1>a, <2>1, <2>2 DEF Change, BookTypes, TypeOK
<1>2. ASSUME NEW k \in Nodes, NEW o \in Outcome, Probed(k, o), lost' \in 0..MaxLost
      PROVE  BookTypes'
  <2>1. monitor' \in Monitors
    BY <1>2, <1>a, ZenonT(30) DEF Probed
  <2>2. QED
    BY <1>2, <1>a, <2>1 DEF Probed, BookTypes, TypeOK
<1>3. CASE StartRound \/ JoinAll \/ EndRound
  <2>1. monitor' \in Monitors
    <3>1. CASE StartRound
      BY <1>a, <3>1, ZenonT(30) DEF StartRound
    <3>2. CASE JoinAll
      BY <1>a, <1>b, <3>2, ZenonT(30) DEF JoinAll
    <3>3. CASE EndRound
      BY <3>3 DEF EndRound, Asleep, Outcome, Failure, Served
    <3>4. QED
      BY <1>3, <3>1, <3>2, <3>3
  <2>2. QED
    BY <1>3, <1>a, <2>1, ZenonT(30)
       DEF StartRound, JoinAll, EndRound, BookTypes, TypeOK
<1>4. CASE FileNext
  <2>1. monitor' \in Monitors
    BY <1>4, <1>a, ZenonT(30) DEF FileNext
  <2>2. QED
    BY <1>4, <1>a, <2>1, ZenonT(30)
       DEF FileNext, RecordFiling, Filed, BookTypes, TypeOK
<1>5. CASE StatusNext
  <2>1. monitor.queue # <<>> /\ Head(monitor.queue) \in Nodes
        /\ Tail(monitor.queue) \in Seq(Nodes)
    BY <1>5, <1>a DEF StatusNext, Paced
  <2>2. monitor' \in Monitors
    BY <1>5, <1>a, <2>1, ZenonT(30) DEF StatusNext
  <2>3. nodes' \in [Nodes -> NodeStatus]
    <3>1. Apply(nodes[Head(monitor.queue)], monitor.found[Head(monitor.queue)]) \in NodeStatus
      BY <1>a, <2>1, Applied
    <3>2. QED
      BY <1>5, <1>a, <3>1, ZenonT(30) DEF StatusNext, RecordStatus
  <2>4. QED
    BY <1>5, <1>a, <2>2, <2>3 DEF StatusNext, RecordStatus, BookTypes, TypeOK
<1>6. ASSUME NEW r \in Requests, NEW q \in Asks, SetRequest(r, q),
             q.pc \in {"sent", "answered"} => q.on \in Deployments,
             UNCHANGED <<real, changes, seen>>, lost' \in 0..MaxLost,
             nodes' \in [Nodes -> NodeStatus]
      PROVE  BookTypes'
  <2>1. request' \in [Requests -> Asks]
    BY <1>6, <1>a DEF SetRequest
  <2>2. \A p \in Requests :
           request'[p].pc \in {"sent", "answered"} => request'[p].on \in Deployments
    BY <1>6, <1>a DEF SetRequest
  <2>3. QED
    BY <1>6, <1>a, <2>1, <2>2 DEF SetRequest, BookTypes, TypeOK
<1>7. ASSUME NEW r \in Requests, Report(r) PROVE BookTypes'
  <2>1. Idle \in Asks /\ Idle.pc = "idle"
    BY DEF Idle
  <2>2. nodes' \in [Nodes -> NodeStatus]
    <3> DEFINE n == NodeOf[request[r].on]
    <3>1. n \in Nodes
      BY <1>7, <1>a, <1>b DEF Report
    <3>2. Apply(nodes[n], Failure) \in NodeStatus
      BY <1>a, <3>1, Applied, Outcomes DEF BookTypes
    <3>3. \A s \in NodeStatus : [s EXCEPT !.served = NoModel] \in NodeStatus
      BY DEF NodeStatus, Served
    <3>4. nodes' \in {[nodes EXCEPT ![n] = Apply(@, Failure)], Forgotten(n), nodes}
      BY <1>7 DEF Report
    <3>5. [nodes EXCEPT ![n] = Apply(@, Failure)] \in [Nodes -> NodeStatus]
      BY <1>a, <3>2, ZenonT(30)
    <3>6. Forgotten(n) \in [Nodes -> NodeStatus]
      BY <1>a, <3>1, <3>3 DEF Forgotten
    <3>7. QED
      BY <1>a, <3>4, <3>5, <3>6, ZenonT(30)
  <2>3. QED
    BY <1>6, <1>7, <1>a, <2>1, <2>2, ZenonT(30) DEF Report
<1>8. ASSUME NEW r \in Requests, ReadObservations(r) \/ Refuse(r) PROVE BookTypes'
  <2>1. Idle \in Asks /\ Idle.pc = "idle"
    BY DEF Idle
  <2>2. [Idle EXCEPT !.pc = "planning", !.observed = seen] \in Asks
    BY <1>a, ZenonT(30) DEF Idle
  <2>3. QED
    BY <1>6, <1>8, <1>a, <2>1, <2>2, ZenonT(30) DEF ReadObservations, Refuse, Idle
<1>9. ASSUME NEW r \in Requests, NEW d \in Deployments, Plan(r, d) PROVE BookTypes'
  <2>1. \A q \in Asks : [q EXCEPT !.pc = "sent", !.on = d] \in Asks
    BY ZenonT(30)
  <2>2. QED
    BY <1>6, <1>9, <1>a, <2>1, ZenonT(30) DEF Plan
<1>10. ASSUME NEW r \in Requests, NEW a \in {"served", "model_not_found", "unreachable"},
              Answer(r, a), lost' \in 0..MaxLost
       PROVE  BookTypes'
  <2>1. \A q \in Asks : [q EXCEPT !.pc = "answered", !.answer = a] \in Asks
    BY ZenonT(30)
  <2>2. request[r].on \in Deployments
    BY <1>10, <1>a DEF Answer
  <2>3. QED
    BY <1>6, <1>10, <1>a, <2>1, <2>2, ZenonT(30) DEF Answer
<1>11. ASSUME NEW r \in Requests, NodeAnswers(r) \/ RequestLost(r) PROVE BookTypes'
  <2>1. ASSUME RequestLost(r) PROVE BookTypes'
    BY <1>10, <1>a, <2>1 DEF RequestLost, HealthAssumption
  <2>2. ASSUME NodeAnswers(r) PROVE BookTypes'
    BY <1>10, <1>a, <2>2 DEF NodeAnswers
  <2>3. QED
    BY <1>11, <2>1, <2>2
<1>12. ASSUME NEW n \in Nodes, Probe(n) \/ ProbeLost(n) PROVE BookTypes'
  BY <1>2, <1>12, <1>a, Outcomes DEF BookTypes, Probe, ProbeLost, HealthAssumption
<1>13. ASSUME Environment PROVE BookTypes'
  BY <1>1, <1>13, ZenonT(30)
     DEF Environment, Crash, Restart, OperatorLoads, OperatorUnloads, Down, Served
<1>14. QED
  BY <1>3, <1>4, <1>5, <1>7, <1>8, <1>9, <1>11, <1>12, <1>13
     DEF Next, Monitor, Request

\* The same with the history.
LEMMA TypesStep ==
    ASSUME HealthAssumption, Types, Paced, RoundsNext
    PROVE  Types'
<1>a. /\ rounds \in [Nodes -> [begun : BOOLEAN, done : 0..Threshold]]
      /\ Threshold \in Nat \ {0}
  BY DEF Types, HealthAssumption
<1>1. rounds' \in [Nodes -> [begun : BOOLEAN, done : 0..Threshold]]
  <2>1. \A n \in Nodes : Rounds(n) \in [begun : BOOLEAN, done : 0..Threshold]
    <3> SUFFICES ASSUME NEW n \in Nodes PROVE Rounds(n) \in [begun : BOOLEAN, done : 0..Threshold]
      OBVIOUS
    <3>1. NoRounds \in [begun : BOOLEAN, done : 0..Threshold]
      BY <1>a DEF NoRounds
    <3>2. rounds[n] \in [begun : BOOLEAN, done : 0..Threshold]
      BY <1>a
    <3>3. [rounds[n] EXCEPT !.begun = TRUE] \in [begun : BOOLEAN, done : 0..Threshold]
      BY <3>2, ZenonT(30)
    <3>4. rounds[n].done < Threshold =>
             [rounds[n] EXCEPT !.done = @ + 1] \in [begun : BOOLEAN, done : 0..Threshold]
      BY <1>a, <3>2
    <3>5. QED
      BY <3>1, <3>2, <3>3, <3>4 DEF Rounds
  <2>2. QED
    BY <2>1 DEF RoundsNext
<1>2. BookTypes'
  BY BookTypesStep DEF Types, RoundsNext
<1>3. QED
  BY <1>1, <1>2 DEF Types

-----------------------------------------------------------------------------
(* One lemma per part of the invariant. *)

\* The history of a node moves only with the node, a round's begin and a
\* recorded result.
LEMMA RoundsKept ==
    ASSUME Types, RoundsNext, NEW n \in Nodes, real'[n] = real[n],
           ~(monitor.pc = "asleep" /\ monitor'.pc = "probing"), ~Recorded(n)
    PROVE  rounds'[n] = rounds[n]
BY DEF RoundsNext, Rounds

\* A round starts with every node to probe and files before it records.
LEMMA PacedStep ==
    ASSUME HealthAssumption, BookTypes, Paced, Next
    PROVE  Paced'
<1> USE DEF bookVars, nodeVars
<1>a. monitor.pc \in {"asleep", "probing", "recording"} /\ monitor.queue \in Seq(Nodes)
  BY DEF BookTypes, TypeOK
<1>m. monitor = [pc |-> monitor.pc, unprobed |-> monitor.unprobed,
                 filed |-> monitor.filed, found |-> monitor.found,
                 queue |-> monitor.queue]
  BY DEF BookTypes, TypeOK
<1>1. ASSUME NEW k \in Nodes, Probed(k, Reply(k)) \/ Probed(k, Failure)
      PROVE  Paced'
  BY <1>1, <1>m, ZenonT(30) DEF Probed, Paced
<1>2. CASE StartRound \/ JoinAll
  BY <1>2, <1>m, ZenonT(30) DEF StartRound, JoinAll, Paced
<1>3. CASE FileNext
  BY <1>3, <1>m DEF FileNext, Paced
<1>4. CASE StatusNext
  BY <1>4, <1>m DEF StatusNext, Paced
<1>5. CASE EndRound
  BY <1>5 DEF EndRound, Asleep, Paced
<1>6. ASSUME UNCHANGED monitor PROVE Paced'
  BY <1>6 DEF Paced
<1>7. ASSUME NEW r \in Requests, Report(r) PROVE UNCHANGED monitor
  BY <1>7 DEF Report, SetRequest
<1>8. ASSUME NEW k \in Nodes, NEW to \in [up : BOOLEAN, model : Served], Change(k, to)
      PROVE  UNCHANGED monitor
  BY <1>8 DEF Change
<1>9. QED
  BY <1>1, <1>2, <1>3, <1>4, <1>5, <1>6, <1>7, <1>8, Steps

\* A deployment becomes available only when it has been observed.
LEMMA GroundedStep ==
    ASSUME HealthAssumption, BookTypes, Paced, Grounded, Next
    PROVE  Grounded'
<1> USE DEF bookVars, nodeVars
<1>a. /\ nodes \in [Nodes -> NodeStatus] /\ monitor.found \in [Nodes -> Outcome]
      /\ monitor.queue \in Seq(Nodes) /\ NodeOf \in [Deployments -> Nodes]
      /\ RemoteModel \in [Deployments -> Models] /\ NoModel \notin Models
  BY DEF BookTypes, TypeOK, HealthAssumption
<1>m. monitor = [pc |-> monitor.pc, unprobed |-> monitor.unprobed,
                 filed |-> monitor.filed, found |-> monitor.found,
                 queue |-> monitor.queue]
  BY DEF BookTypes, TypeOK
<1>1. ASSUME UNCHANGED <<nodes, seen>>, monitor'.filed = FALSE PROVE Grounded'
  BY <1>1 DEF Grounded, Available
<1>2. ASSUME UNCHANGED <<nodes, seen, monitor>> PROVE Grounded'
  BY <1>2 DEF Grounded, Available, Filed
<1>3. ASSUME NEW k \in Nodes, Probed(k, Reply(k)) \/ Probed(k, Failure)
      PROVE  UNCHANGED <<nodes, seen>> /\ monitor'.filed = FALSE
  BY <1>3, <1>m, ZenonT(30) DEF Probed, Paced, BookTypes, TypeOK
<1>4. CASE StartRound \/ JoinAll \/ EndRound
  <2>1. UNCHANGED <<nodes, seen>>
    BY <1>4 DEF StartRound, JoinAll, EndRound
  <2>2. monitor'.filed = FALSE
    <3>1. CASE StartRound \/ JoinAll
      BY <1>m, <3>1, ZenonT(30) DEF StartRound, JoinAll, Paced, BookTypes, TypeOK
    <3>2. CASE EndRound
      BY <3>2 DEF EndRound, Asleep
    <3>3. QED
      BY <1>4, <3>1, <3>2, ZenonT(30)
  <2>3. QED
    BY <1>1, <2>1, <2>2, ZenonT(30)
<1>5. CASE FileNext
  <2> DEFINE h == Head(monitor.queue)
  <2>1. /\ seen' = Filed(h, monitor.found[h]) /\ nodes' = nodes
        /\ monitor'.queue = monitor.queue /\ monitor'.found = monitor.found
    BY <1>5, <1>m DEF FileNext, RecordFiling
  <2>2. seen \subseteq seen'
    BY <2>1 DEF Filed
  <2>3. \A d \in Deployments : Available(d, nodes') => d \in seen'
    BY <2>1, <2>2 DEF Grounded
  <2>4. Filed(h, monitor.found[h])' \subseteq seen'
    BY <2>1 DEF Filed
  <2>5. QED
    BY <2>3, <2>4 DEF Grounded, Available
<1>6. CASE StatusNext
  <2> DEFINE h == Head(monitor.queue)
  <2>1. h \in Nodes /\ monitor.filed
    BY <1>6, <1>a DEF StatusNext, Paced
  <2>2. /\ nodes' = [nodes EXCEPT ![h] = Apply(@, monitor.found[h])]
        /\ seen' = seen /\ monitor'.filed = FALSE
    BY <1>6, <1>m DEF StatusNext, RecordStatus
  <2>3. ASSUME NEW d \in Deployments, Available(d, nodes'), NodeOf[d] = h PROVE d \in seen
    <3>1. /\ monitor.found[h].ok => nodes'[h].served = monitor.found[h].model
          /\ ~monitor.found[h].ok => /\ nodes'[h].served = nodes[h].served
                                     /\ nodes'[h].health \in {nodes[h].health, "unhealthy"}
      <4>1. nodes'[h] = Apply(nodes[h], monitor.found[h])
        BY <1>a, <2>1, <2>2
      <4>2. nodes[h] \in NodeStatus /\ monitor.found[h] \in Outcome
        BY <1>a, <2>1
      <4>3. QED
        BY <4>1, <4>2, Applied
    <3>2. CASE monitor.found[h].ok
      BY <2>1, <2>3, <3>1, <3>2 DEF Grounded, Filed, Available
    <3>3. CASE ~monitor.found[h].ok
      BY <2>3, <3>1, <3>3 DEF Grounded, Available
    <3>4. QED
      BY <3>2, <3>3
  <2>4. ASSUME NEW d \in Deployments, Available(d, nodes'), NodeOf[d] # h PROVE d \in seen
    BY <1>a, <2>2, <2>4 DEF Grounded, Available
  <2>5. QED
    BY <2>2, <2>3, <2>4, ZenonT(30) DEF Grounded, Available
<1>7. ASSUME NEW r \in Requests, Report(r) PROVE Grounded'
  <2> DEFINE n == NodeOf[request[r].on]
  <2>1. n \in Nodes
    BY <1>7, <1>a DEF Report, BookTypes
  <2>2. /\ nodes' \in {[nodes EXCEPT ![n] = Apply(@, Failure)], Forgotten(n), nodes}
        /\ UNCHANGED <<seen, monitor>>
    BY <1>7 DEF Report, SetRequest
  <2>3. \A k \in Nodes : /\ nodes'[k].served \in {nodes[k].served, NoModel}
                         /\ nodes'[k].health = "healthy" => nodes[k].health = "healthy"
    <3>1. CASE nodes' = [nodes EXCEPT ![n] = Apply(@, Failure)]
      <4>1. nodes[n] \in NodeStatus /\ Failure \in Outcome /\ ~Failure.ok
        BY <1>a, <2>1, Outcomes, ZenonT(30) DEF BookTypes, Failure
      <4>2. /\ Apply(nodes[n], Failure).served = nodes[n].served
            /\ Apply(nodes[n], Failure).health \in {nodes[n].health, "unhealthy"}
        BY <4>1, Applied
      <4>3. QED
        BY <1>a, <3>1, <4>2, ZenonT(30)
    <3>2. CASE nodes' = Forgotten(n)
      BY <1>a, <2>1, <3>2 DEF Forgotten, NodeStatus
    <3>3. QED
      BY <2>2, <3>1, <3>2
  <2>4. \A d \in Deployments : Available(d, nodes') => Available(d, nodes)
    BY <1>a, <2>3 DEF Available
  <2>5. QED
    BY <2>2, <2>4 DEF Grounded, Available, Filed
<1>8. ASSUME NEW k \in Nodes, NEW to \in [up : BOOLEAN, model : Served], Change(k, to)
      PROVE  UNCHANGED <<nodes, seen, monitor>>
  BY <1>8 DEF Change
<1>9. QED
  BY <1>1, <1>2, <1>3, <1>4, <1>5, <1>6, <1>7, <1>8, Steps, ZenonT(30)

\* What the rounds find of a node that has not changed since they began.
LEMMA CurrentStep ==
    ASSUME HealthAssumption, Types, Paced, RoundsNext, NEW n \in Nodes, Current(n)
    PROVE  Current(n)'
<1> USE DEF bookVars, nodeVars
<1>a. /\ monitor.pc \in {"asleep", "probing", "recording"}
      /\ monitor.found \in [Nodes -> Outcome] /\ real \in [Nodes -> [up : BOOLEAN, model : Served]]
      /\ rounds[n] \in [begun : BOOLEAN, done : 0..Threshold]
  BY DEF Types, BookTypes, TypeOK
<1>m. monitor = [pc |-> monitor.pc, unprobed |-> monitor.unprobed,
                 filed |-> monitor.filed, found |-> monitor.found,
                 queue |-> monitor.queue]
  BY DEF Types, BookTypes, TypeOK
<1>b. ASSUME real'[n] = real[n] PROVE Reply(n)' = Reply(n)
  BY <1>b DEF Reply
<1>c. ASSUME rounds'[n].begun => rounds[n].begun, real'[n] = real[n],
             HasResult(n)' => HasResult(n) /\ monitor'.found[n] = monitor.found[n]
      PROVE  Current(n)'
  BY <1>b, <1>c DEF Current
<1>d. ASSUME real'[n] = real[n], ~(monitor.pc = "asleep" /\ monitor'.pc = "probing")
      PROVE  rounds'[n].begun => rounds[n].begun
  BY <1>a, <1>d DEF RoundsNext, Rounds
<1>1. ASSUME NEW k \in Nodes, NEW to \in [up : BOOLEAN, model : Served], Change(k, to)
      PROVE  Current(n)'
  <2>1. CASE k = n
    <3>1. real'[n] # real[n]
      BY <1>1, <1>a, <2>1 DEF Change
    <3>2. rounds'[n] = NoRounds
      BY <1>1, <3>1 DEF RoundsNext, Rounds, Recorded, Change
    <3>3. QED
      BY <3>2 DEF Current, NoRounds
  <2>2. CASE k # n
    <3>1. real'[n] = real[n] /\ monitor' = monitor
      BY <1>1, <1>a, <2>2 DEF Change
    <3>2. QED
      BY <1>c, <1>d, <3>1 DEF HasResult
  <2>3. QED
    BY <2>1, <2>2
<1>2. CASE StartRound
  BY <1>2, <1>m DEF StartRound, Current, HasResult, Paced
<1>3. ASSUME NEW k \in Nodes, NEW o \in {Reply(k), Failure}, Probed(k, o)
      PROVE  Current(n)'
  <2>1. /\ monitor.pc = "probing" /\ monitor'.pc = "probing" /\ real' = real
        /\ monitor'.unprobed = monitor.unprobed \ {k}
        /\ monitor'.found = [monitor.found EXCEPT ![k] = o]
    BY <1>3, <1>m DEF Probed
  <2>2. CASE k = n
    BY <1>3, <1>a, <1>b, <2>1, <2>2 DEF Current
  <2>3. CASE k # n
    BY <1>a, <1>c, <1>d, <2>1, <2>3 DEF HasResult
  <2>4. QED
    BY <2>2, <2>3
<1>4. CASE JoinAll \/ FileNext \/ StatusNext
  <2>1. /\ monitor'.pc = "recording" /\ monitor'.found = monitor.found /\ real' = real
        /\ HasResult(n)
    BY <1>4, <1>m, ZenonT(30) DEF JoinAll, FileNext, StatusNext, HasResult
  <2>2. QED
    BY <1>c, <1>d, <2>1
<1>5. CASE EndRound
  BY <1>5 DEF EndRound, Asleep, Current, HasResult
<1>6. ASSUME UNCHANGED <<real, monitor>> PROVE Current(n)'
  BY <1>6, <1>c, <1>d DEF HasResult
<1>7. ASSUME NEW r \in Requests, Report(r) PROVE UNCHANGED <<real, monitor>>
  BY <1>7 DEF Report, SetRequest
<1>8. QED
  BY <1>1, <1>2, <1>3, <1>4, <1>5, <1>6, <1>7, Steps DEF RoundsNext

\* What the recorded rounds have told the book stays told.
LEMMA ToldStep ==
    ASSUME HealthAssumption, Types, Types', Paced, RoundsNext, NEW n \in Nodes,
           Current(n), Told(n)
    PROVE  Told(n)'
<1> USE DEF bookVars, nodeVars
<1>a. /\ nodes \in [Nodes -> NodeStatus] /\ monitor.found \in [Nodes -> Outcome]
      /\ monitor.queue \in Seq(Nodes) /\ NodeOf \in [Deployments -> Nodes]
      /\ real \in [Nodes -> [up : BOOLEAN, model : Served]]
      /\ rounds[n] \in [begun : BOOLEAN, done : 0..Threshold] /\ Threshold \in Nat \ {0}
  BY DEF Types, BookTypes, TypeOK, HealthAssumption
<1>m. monitor = [pc |-> monitor.pc, unprobed |-> monitor.unprobed,
                 filed |-> monitor.filed, found |-> monitor.found,
                 queue |-> monitor.queue]
  BY DEF Types, BookTypes, TypeOK
<1>n. nodes[n].failures \in 0..Threshold
  BY <1>a DEF NodeStatus
<1>c. ASSUME rounds'[n].done = rounds[n].done, rounds[n].begun => rounds'[n].begun,
             real'[n] = real[n], nodes'[n] = nodes[n]
      PROVE  Told(n)'
  BY <1>c DEF Told
<1>d. ASSUME real'[n] = real[n], ~Recorded(n)
      PROVE  rounds'[n].done = rounds[n].done /\ (rounds[n].begun => rounds'[n].begun)
  <2>1. rounds'[n] = rounds[n] \/ rounds'[n] = [rounds[n] EXCEPT !.begun = TRUE]
    BY <1>d DEF RoundsNext, Rounds
  <2>2. QED
    BY <1>a, <2>1
<1>1. ASSUME NEW k \in Nodes, NEW to \in [up : BOOLEAN, model : Served], Change(k, to)
      PROVE  Told(n)'
  <2>1. CASE k = n
    <3>1. real'[n] # real[n] /\ nodes' = nodes
      BY <1>1, <1>a, <2>1 DEF Change
    <3>2. rounds'[n] = NoRounds
      BY <1>1, <3>1 DEF RoundsNext, Rounds, Recorded, Change
    <3>3. QED
      BY <1>n, <3>1, <3>2 DEF Told, NoRounds
  <2>2. CASE k # n
    <3>1. real'[n] = real[n] /\ nodes' = nodes /\ ~Recorded(n)
      BY <1>1, <1>a, <2>2 DEF Change, Recorded
    <3>2. QED
      BY <1>c, <1>d, <3>1
  <2>3. QED
    BY <2>1, <2>2
<1>2. ASSUME UNCHANGED <<real, nodes>>, monitor.filed => monitor'.filed PROVE Told(n)'
  BY <1>2, <1>c, <1>d DEF Recorded
<1>3. ASSUME NEW k \in Nodes, Probed(k, Reply(k)) \/ Probed(k, Failure)
      PROVE  UNCHANGED <<real, nodes>> /\ (monitor.filed => monitor'.filed)
  BY <1>3, <1>m, ZenonT(30) DEF Probed
<1>4. CASE StartRound \/ JoinAll \/ FileNext
  BY <1>2, <1>4, <1>m, ZenonT(30) DEF StartRound, JoinAll, FileNext, RecordFiling
<1>5. CASE EndRound
  BY <1>2, <1>5 DEF EndRound, Paced
<1>6. CASE StatusNext
  <2> DEFINE h == Head(monitor.queue)
  <2>1. h \in Nodes /\ monitor.filed /\ monitor.pc = "recording"
    BY <1>6, <1>a DEF StatusNext, Paced
  <2>2. /\ nodes' = [nodes EXCEPT ![h] = Apply(@, monitor.found[h])]
        /\ real' = real /\ monitor'.filed = FALSE
    BY <1>6, <1>m DEF StatusNext, RecordStatus
  <2>3. CASE h # n
    BY <1>a, <1>c, <1>d, <2>2, <2>3 DEF Recorded
  <2>4. CASE h = n
    <3> DEFINE o == monitor.found[n]
    <3>1. /\ nodes[n] \in NodeStatus /\ o \in Outcome
          /\ nodes'[n] = Apply(nodes[n], o)
      BY <1>a, <2>2, <2>4
    <3>2. rounds[n].begun => o \in {Reply(n), Failure}
      BY <2>1 DEF Current, HasResult
    <3>3. /\ rounds'[n].begun = rounds[n].begun
          /\ rounds'[n].done =
                IF o.ok = real[n].up /\ rounds[n].begun /\ rounds[n].done < Threshold
                THEN rounds[n].done + 1 ELSE rounds[n].done
      <4>1. rounds'[n] =
               IF o.ok = real[n].up /\ rounds[n].begun /\ rounds[n].done < Threshold
               THEN [rounds[n] EXCEPT !.done = @ + 1] ELSE rounds[n]
        BY <2>1, <2>2, <2>4 DEF RoundsNext, Rounds, Recorded
      <4>2. QED
        BY <1>a, <4>1
    <3>4. CASE o.ok
      <4>1. nodes'[n].served = o.model /\ nodes'[n].failures = 0
        BY <3>1, <3>4, Applied
      <4>2. rounds'[n].done > 0 => rounds[n].begun
        BY <1>a, <3>3 DEF Told
      <4>3. rounds[n].begun => real[n].up /\ o.model = real[n].model
        BY <1>a, <3>2, <3>4 DEF Reply, Success, Failure
      <4>4. ~real[n].up => rounds'[n].done = 0
        BY <1>a, <3>3, <4>2, <4>3 DEF Told
      <4>5. /\ rounds'[n].done > 0 => rounds'[n].begun
            /\ nodes'[n].failures >= Threshold => nodes'[n].health = "unhealthy"
        BY <1>a, <3>3, <4>1, <4>2
      <4>6. ~real'[n].up => nodes'[n].failures >= rounds'[n].done
        BY <2>2, <4>1, <4>4
      <4>7. rounds'[n].done > 0 /\ real'[n].up => nodes'[n].served \in {real'[n].model, NoModel}
        BY <2>2, <4>1, <4>2, <4>3
      <4>8. QED
        BY <4>5, <4>6, <4>7 DEF Told
    <3>5. CASE ~o.ok
      <4>1. /\ nodes'[n].served = nodes[n].served
            /\ nodes'[n].failures =
                  IF nodes[n].failures < Threshold
                  THEN nodes[n].failures + 1 ELSE nodes[n].failures
            /\ nodes'[n].failures >= Threshold => nodes'[n].health = "unhealthy"
        BY <3>1, <3>5, Applied
      <4>2. real[n].up => rounds'[n].done = rounds[n].done
        BY <3>3, <3>5, ZenonT(30)
      <4>3. ~real[n].up => nodes'[n].failures >= rounds'[n].done
        BY <1>a, <1>n, <3>3, <4>1 DEF Told
      <4>4. QED
        BY <1>a, <2>2, <3>3, <4>1, <4>2, <4>3, ZenonT(30) DEF Told
    <3>6. QED
      BY <3>4, <3>5
  <2>5. QED
    BY <2>3, <2>4
<1>7. ASSUME NEW r \in Requests, Report(r) PROVE Told(n)'
  <2> DEFINE k == NodeOf[request[r].on]
  <2>1. /\ nodes' \in {[nodes EXCEPT ![k] = Apply(@, Failure)], Forgotten(k), nodes}
        /\ UNCHANGED <<real, monitor>>
    BY <1>7 DEF Report, SetRequest
  <2>2. rounds'[n].done = rounds[n].done /\ (rounds[n].begun => rounds'[n].begun)
    BY <1>d, <2>1 DEF Recorded
  <2>3. CASE k # n
    BY <1>a, <1>c, <2>1, <2>2, <2>3 DEF Forgotten
  <2>4. CASE k = n /\ nodes' = [nodes EXCEPT ![k] = Apply(@, Failure)]
    <3>1. nodes[n] \in NodeStatus /\ Failure \in Outcome /\ ~Failure.ok
      BY <1>a, Outcomes, ZenonT(30) DEF Types, BookTypes, Failure
    <3>2. nodes'[n] = Apply(nodes[n], Failure)
      BY <1>a, <2>4
    <3>3. /\ nodes'[n].served = nodes[n].served /\ nodes'[n].failures >= nodes[n].failures
          /\ nodes'[n].failures >= Threshold => nodes'[n].health = "unhealthy"
      BY <1>n, <1>a, <3>1, <3>2, Applied
    <3>4. nodes'[n].failures \in Nat
      BY DEF Types, BookTypes, TypeOK, NodeStatus
    <3>5. /\ rounds'[n].done > 0 => rounds'[n].begun
          /\ rounds'[n].done > 0 /\ real'[n].up =>
                nodes'[n].served \in {real'[n].model, NoModel}
      BY <1>a, <2>1, <2>2, <3>3, ZenonT(30) DEF Told
    <3>6. ~real'[n].up => nodes'[n].failures >= rounds'[n].done
      <4>1. nodes[n].failures \in Nat /\ rounds[n].done \in Nat
        BY <1>a, <3>1 DEF NodeStatus
      <4>2. ~real[n].up => nodes[n].failures >= rounds[n].done
        BY <1>a DEF Told
      <4>3. real' = real /\ rounds'[n].done = rounds[n].done
        BY <2>1, <2>2
      <4>4. real[n].up \/ nodes'[n].failures >= rounds[n].done
        BY <3>3, <3>4, <4>1, <4>2
      <4>5. QED
        BY <4>3, <4>4
    <3>7. QED
      BY <3>3, <3>5, <3>6 DEF Told
  <2>5. CASE k = n /\ nodes' = Forgotten(k)
    <3>1. /\ nodes'[n].served = NoModel /\ nodes'[n].failures = nodes[n].failures
          /\ nodes'[n].health = nodes[n].health
      BY <1>a, <2>5 DEF Forgotten, NodeStatus
    <3>2. QED
      BY <2>1, <2>2, <3>1 DEF Told
  <2>6. QED
    BY <1>c, <2>1, <2>2, <2>3, <2>4, <2>5
<1>8. QED
  BY <1>1, <1>2, <1>3, <1>4, <1>5, <1>6, <1>7, Steps DEF RoundsNext

-----------------------------------------------------------------------------
(* The theorem. *)

\* The invariant holds from the first round on.
THEOREM HealthInvariant == HealthAssumption /\ RoundsSpec => []IInv
<1> SUFFICES ASSUME HealthAssumption PROVE RoundsSpec => []IInv
  OBVIOUS
<1>1. RoundsInit => IInv
  <2> SUFFICES ASSUME RoundsInit PROVE IInv
    OBVIOUS
  <2>1. Types
    <3>1. rounds \in [Nodes -> [begun : BOOLEAN, done : 0..Threshold]]
      BY DEF RoundsInit, NoRounds, HealthAssumption
    <3>2. QED
      BY <3>1, TypesInit DEF RoundsInit, Types
  <2>2. Paced /\ Grounded
    BY DEF RoundsInit, Init, Asleep, Paced, Grounded, Available, HealthAssumption
  <2>3. \A n \in Nodes : Current(n) /\ Told(n)
    BY DEF RoundsInit, Init, Current, Told, NoRounds, HealthAssumption
  <2>4. QED
    BY <2>1, <2>2, <2>3 DEF IInv
<1>2. IInv /\ [RoundsNext]_<<vars, rounds>> => IInv'
  <2>1. ASSUME IInv, RoundsNext PROVE IInv'
    <3>1. Types' /\ Paced' /\ Grounded'
      BY <2>1, TypesStep, PacedStep, GroundedStep DEF IInv, Types, RoundsNext
    <3>2. QED
      BY <2>1, <3>1, CurrentStep, ToldStep DEF IInv
  <2>2. ASSUME IInv, UNCHANGED <<vars, rounds>> PROVE IInv'
    BY <2>2, ZenonT(30)
       DEF IInv, Types, BookTypes, TypeOK, Paced, Grounded, Available, Filed,
           Current, HasResult, Reply, Told, vars, nodeVars, bookVars
  <2>3. QED
    BY <2>1, <2>2
<1>3. QED
  BY <1>1, <1>2, PTL DEF RoundsSpec

\* Whatever the nodes, the network and the requests do, and in whatever order
\* late answers are reported, an available deployment has been observed, and a
\* round (failure_threshold rounds) after its last change no node is believed
\* to serve another model (a node that is down is not believed healthy).
THEOREM BookIsFreshHolds == HealthAssumption /\ RoundsSpec => []BookIsFresh
<1> SUFFICES ASSUME HealthAssumption PROVE RoundsSpec => []BookIsFresh
  OBVIOUS
<1>1. IInv => BookIsFresh
  <2> SUFFICES ASSUME IInv PROVE BookIsFresh
    OBVIOUS
  <2>1. \A d \in Deployments : Available(d, nodes) => d \in seen
    BY DEF IInv, Grounded
  <2>2. ASSUME NEW n \in Nodes
        PROVE  /\ rounds[n].done >= 1 /\ real[n].up =>
                     nodes[n].served \in {real[n].model, NoModel}
               /\ rounds[n].done >= Threshold /\ ~real[n].up =>
                     nodes[n].health = "unhealthy"
    <3>1. rounds[n].done \in Nat /\ nodes[n].failures \in Nat /\ Threshold \in Nat
      BY DEF IInv, Types, BookTypes, TypeOK, NodeStatus, HealthAssumption
    <3>2. QED
      BY <3>1 DEF IInv, Told
  <2>3. QED
    BY <2>1, <2>2 DEF BookIsFresh
<1>2. QED
  BY <1>1, HealthInvariant, PTL

-----------------------------------------------------------------------------
(* The planner chooses nodes that are apart. *)

\* A set of natural numbers that is not empty has a least element: what the
\* inductions over the planner's loops rest on.
LEMMA Least ==
    ASSUME NEW T, T \subseteq Nat, T # {}
    PROVE  \E x \in T : \A y \in T : x <= y
<1> DEFINE R == {p \in Nat \X Nat : p[1] < p[2]}
<1>1. IsWellFoundedOn(R, Nat)
  BY NatLessThanWellFounded DEF OpToRel
<1> HIDE DEF R
<1>2. PICK x \in T : \A y \in T : ~(<<y, x>> \in R)
  BY <1>1, WFMin, ZenonT(30)
<1>3. \A y \in T : x <= y
  <2> SUFFICES ASSUME NEW y \in T, ~(x <= y) PROVE FALSE
    OBVIOUS
  <2>1. y < x /\ y \in Nat /\ x \in Nat
    OBVIOUS
  <2> DEFINE p == <<y, x>>
  <2>2. p \in Nat \X Nat /\ p[1] = y /\ p[2] = x
    BY <2>1
  <2> HIDE DEF p
  <2>3. p \in R
    BY <2>1, <2>2 DEF R
  <2> QED
    BY <2>3, <1>2 DEF p
<1> QED
  BY <1>3

\* The step of PlanRoute's loop: a candidate is taken while some are wanted.
Choose(acc, d, health, loading) ==
    LET claimed == {NodeOf[e] : e \in loading \cup acc.chosen}
    IN  IF acc.wanted > 0 /\ MayLoad(d, health, loading, claimed)
        THEN [chosen |-> acc.chosen \cup {d}, wanted |-> acc.wanted - 1]
        ELSE acc

\* f holds the accumulator of PlanRoute's loop after each of n candidates.
IsFold(f, s, n, first, health, loading) ==
    f = [i \in 0..n |-> IF i = 0 THEN first ELSE Choose(f[i - 1], s[i], health, loading)]

\* There is such an f, however many candidates a route has.
LEMMA ChoiceExists ==
    ASSUME NEW s, NEW first, NEW health, NEW loading, NEW n \in Nat
    PROVE  \E f : IsFold(f, s, n, first, health, loading)
<1> USE DEF IsFold
<1> DEFINE Holds(m) == \E f : IsFold(f, s, m, first, health, loading)
           T == {m \in Nat : ~Holds(m)}
<1> SUFFICES ASSUME T # {} PROVE FALSE
  BY ZenonT(30)
<1>1. PICK x \in T : \A y \in T : x <= y
  BY Least, ZenonT(30)
<1>2. x # 0
  <2>1. [i \in 0..0 |-> first] = [i \in 0..0 |-> IF i = 0 THEN first
          ELSE Choose([j \in 0..0 |-> first][i - 1], s[i], health, loading)]
    OBVIOUS
  <2>2. Holds(0)
    BY <2>1, ZenonT(30)
  <2> QED
    BY <2>2, ZenonT(30)
<1>3. x - 1 \in Nat /\ Holds(x - 1)
  <2>1. x - 1 \in Nat /\ ~(x <= x - 1)
    BY <1>2
  <2> HIDE DEF Holds
  <2> QED
    BY <1>1, <2>1
<1>4. PICK g : g = [i \in 0..(x - 1) |-> IF i = 0 THEN first
                                   ELSE Choose(g[i - 1], s[i], health, loading)]
  BY <1>3
<1> DEFINE h == [i \in 0..x |-> IF i = x THEN Choose(g[x - 1], s[x], health, loading) ELSE g[i]]
<1>5. \A i \in 0..x : h[i] = IF i = 0 THEN first ELSE Choose(h[i - 1], s[i], health, loading)
  <2> SUFFICES ASSUME NEW i \in 0..x
               PROVE  h[i] = IF i = 0 THEN first ELSE Choose(h[i - 1], s[i], health, loading)
    OBVIOUS
  <2>1. CASE i = 0
    <3>1. 0 \in 0..(x - 1)
      BY <1>3
    <3>2. g[0] = first
      BY <1>4, <3>1
    <3> QED
      BY <1>2, <2>1, <3>2
  <2>2. CASE i # 0
    <3>1. i - 1 \in 0..(x - 1) /\ i - 1 \in 0..x /\ i - 1 # x
      BY <1>3, <2>2
    <3>2. h[i - 1] = g[i - 1]
      BY <3>1
    <3>3. CASE i = x
      BY <1>2, <3>2, <3>3
    <3>4. CASE i # x
      <4>1. i \in 0..(x - 1)
        BY <1>3, <3>4
      <4>2. g[i] = Choose(g[i - 1], s[i], health, loading)
        BY <1>4, <2>2, <4>1
      <4> QED
        BY <2>2, <3>2, <3>4, <4>2
    <3> QED
      BY <3>3, <3>4
  <2> QED
    BY <2>1, <2>2
<1>6. h = [i \in 0..x |-> IF i = 0 THEN first ELSE Choose(h[i - 1], s[i], health, loading)]
  BY <1>5
<1> HIDE DEF h
<1>7. Holds(x)
  BY <1>6
<1> QED
  BY <1>7

\* PlanRoute is what its loop has chosen after the last candidate.
LEMMA RouteFold ==
    ASSUME NEW chosen, NEW r, NEW health, NEW loading, Len(RouteDeps[r]) \in Nat
    PROVE  \E f : /\ IsFold(f, RouteDeps[r], Len(RouteDeps[r]),
                            [chosen |-> chosen, wanted |-> Shortfall(r, health, loading)],
                            health, loading)
                  /\ PlanRoute(chosen, r, health, loading) = f[Len(RouteDeps[r])].chosen
<1> DEFINE first == [chosen |-> chosen, wanted |-> Shortfall(r, health, loading)]
           Is(f) == IsFold(f, RouteDeps[r], Len(RouteDeps[r]), first, health, loading)
           a == CHOOSE f : Is(f)
<1>1. \E f : Is(f)
  <2> HIDE DEF first
  <2> QED
    BY ChoiceExists, ZenonT(30)
<1>2. Is(a)
  <2> HIDE DEF Is
  <2> QED BY <1>1
<1>3. PlanRoute(chosen, r, health, loading) = a[Len(RouteDeps[r])].chosen
  BY DEF PlanRoute, Choose, IsFold
<1> HIDE DEF a
<1> QED
  BY <1>2, <1>3

\* f holds the choices of PlanLoads' loop after each of n routes.
IsPass(f, n, health, loading) ==
    f = [i \in 0..n |-> IF i = 0 THEN {} ELSE PlanRoute(f[i - 1], RouteOrder[i], health, loading)]

\* There is such an f, however many routes there are.
LEMMA PassExists ==
    ASSUME NEW health, NEW loading, NEW n \in Nat
    PROVE  \E f : IsPass(f, n, health, loading)
<1> USE DEF IsPass
<1> DEFINE Holds(m) == \E f : IsPass(f, m, health, loading)
           T == {m \in Nat : ~Holds(m)}
<1> SUFFICES ASSUME T # {} PROVE FALSE
  BY ZenonT(30)
<1>1. PICK x \in T : \A y \in T : x <= y
  BY Least, ZenonT(30)
<1>2. x # 0
  <2>1. [i \in 0..0 |-> {}] = [i \in 0..0 |-> IF i = 0 THEN {}
          ELSE PlanRoute([j \in 0..0 |-> {}][i - 1], RouteOrder[i], health, loading)]
    OBVIOUS
  <2>2. Holds(0)
    BY <2>1, ZenonT(30)
  <2> QED
    BY <2>2, ZenonT(30)
<1>3. x - 1 \in Nat /\ Holds(x - 1)
  <2>1. x - 1 \in Nat /\ ~(x <= x - 1)
    BY <1>2
  <2> HIDE DEF Holds
  <2> QED
    BY <1>1, <2>1
<1>4. PICK g : g = [i \in 0..(x - 1) |-> IF i = 0 THEN {}
                                   ELSE PlanRoute(g[i - 1], RouteOrder[i], health, loading)]
  BY <1>3
<1> DEFINE h == [i \in 0..x |-> IF i = x THEN PlanRoute(g[x - 1], RouteOrder[x], health, loading) ELSE g[i]]
<1>5. \A i \in 0..x : h[i] = IF i = 0 THEN {} ELSE PlanRoute(h[i - 1], RouteOrder[i], health, loading)
  <2> SUFFICES ASSUME NEW i \in 0..x
               PROVE  h[i] = IF i = 0 THEN {} ELSE PlanRoute(h[i - 1], RouteOrder[i], health, loading)
    BY ZenonT(30)
  <2>1. CASE i = 0
    <3>1. 0 \in 0..(x - 1)
      BY <1>3
    <3>2. g[0] = {}
      BY <1>4, <3>1
    <3> QED
      BY <1>2, <2>1, <3>2
  <2>2. CASE i # 0
    <3>1. i - 1 \in 0..(x - 1) /\ i - 1 \in 0..x /\ i - 1 # x
      BY <1>3, <2>2
    <3>2. h[i - 1] = g[i - 1]
      BY <3>1
    <3>3. CASE i = x
      BY <1>2, <3>2, <3>3
    <3>4. CASE i # x
      <4>1. i \in 0..(x - 1)
        BY <1>3, <3>4
      <4>2. g[i] = PlanRoute(g[i - 1], RouteOrder[i], health, loading)
        BY <1>4, <2>2, <4>1, ZenonT(30)
      <4> QED
        BY <2>2, <3>2, <3>4, <4>2
    <3> QED
      BY <3>3, <3>4
  <2> QED
    BY <2>1, <2>2
<1>6. h = [i \in 0..x |-> IF i = 0 THEN {} ELSE PlanRoute(h[i - 1], RouteOrder[i], health, loading)]
  BY <1>5
<1> HIDE DEF h
<1>7. Holds(x)
  BY <1>6
<1> QED
  BY <1>7


\* PlanLoads is what its loop has chosen after the last route.
LEMMA PassFold ==
    ASSUME NEW health, NEW loading, Len(RouteOrder) \in Nat
    PROVE  \E f : /\ IsPass(f, Len(RouteOrder), health, loading)
                  /\ PlanLoads(health, loading) = f[Len(RouteOrder)]
<1> DEFINE Is(f) == IsPass(f, Len(RouteOrder), health, loading)
           a == CHOOSE f : Is(f)
<1>1. \E f : Is(f)
  BY PassExists
<1>2. Is(a)
  <2> HIDE DEF Is
  <2> QED
    BY <1>1
<1>3. PlanLoads(health, loading) = a[Len(RouteOrder)]
  BY DEF PlanLoads, IsPass
<1> HIDE DEF a
<1> QED
  BY <1>2, <1>3

\* No two deployments of S are on one node.
Apart(S) == \A d, e \in S : NodeOf[d] = NodeOf[e] => d = e

\* A step of the loop takes no candidate whose node is loading or claimed.
LEMMA ChosenApart ==
    ASSUME NEW acc, NEW d, NEW health, NEW loading, Allowed \subseteq Deployments,
           acc.chosen \subseteq Deployments, Apart(loading \cup acc.chosen)
    PROVE  /\ Choose(acc, d, health, loading).chosen \subseteq Deployments
           /\ Apart(loading \cup Choose(acc, d, health, loading).chosen)
<1> DEFINE claimed == {NodeOf[e] : e \in loading \cup acc.chosen}
<1>1. CASE acc.wanted > 0 /\ MayLoad(d, health, loading, claimed)
  <2>1. Choose(acc, d, health, loading).chosen = acc.chosen \cup {d}
    BY <1>1 DEF Choose
  <2>2. d \in Deployments /\ \A e \in loading \cup acc.chosen : NodeOf[e] # NodeOf[d]
    BY <1>1 DEF MayLoad
  <2> QED
    BY <2>1, <2>2 DEF Apart
<1>2. CASE ~(acc.wanted > 0 /\ MayLoad(d, health, loading, claimed))
  BY <1>2, ZenonT(30) DEF Choose
<1> QED
  BY <1>1, <1>2

\* Nor does planning a route, by induction over its candidates.
LEMMA RoutePlanned ==
    ASSUME PlacementAssumption, NEW chosen, NEW r \in Routes, NEW health, NEW loading,
           chosen \subseteq Deployments, Apart(loading \cup chosen)
    PROVE  /\ PlanRoute(chosen, r, health, loading) \subseteq Deployments
           /\ Apart(loading \cup PlanRoute(chosen, r, health, loading))
<1> DEFINE n == Len(RouteDeps[r])
           first == [chosen |-> chosen, wanted |-> Shortfall(r, health, loading)]
<1>1. n \in Nat /\ Allowed \subseteq Deployments
  BY DEF PlacementAssumption
<1>2. PICK f : /\ IsFold(f, RouteDeps[r], n, first, health, loading)
               /\ PlanRoute(chosen, r, health, loading) = f[n].chosen
  BY <1>1, RouteFold
<1> DEFINE Good(i) == f[i].chosen \subseteq Deployments /\ Apart(loading \cup f[i].chosen)
           T == {i \in 0..n : ~Good(i)}
<1>3. T = {}
  <2> SUFFICES ASSUME T # {} PROVE FALSE
    BY ZenonT(30)
  <2> HIDE DEF n, first
  <2>1. PICK x \in T : \A y \in T : x <= y
    <3>1. T \subseteq Nat
      BY <1>1
    <3> HIDE DEF T
    <3> QED
      BY <3>1, Least, ZenonT(30)
  <2>2. CASE x = 0
    <3>1. f[0] = first
      BY <1>1, <1>2 DEF IsFold
    <3>2. Good(0)
      BY <3>1 DEF first
    <3> QED
      BY <2>2, <3>2
  <2>3. CASE x # 0
    <3>1. x - 1 \in 0..n /\ ~(x <= x - 1)
      BY <1>1, <2>3
    <3>2. Good(x - 1)
      <4> HIDE DEF Good
      <4> QED
        BY <2>1, <3>1
    <3>3. f[x] = Choose(f[x - 1], RouteDeps[r][x], health, loading)
      BY <1>2, <2>3, ZenonT(30) DEF IsFold
    <3>4. Good(x)
      BY <1>1, <3>2, <3>3, ChosenApart
    <3> QED
      BY <3>4
  <2> QED
    BY <2>2, <2>3
<1>4. Good(n)
  <2> HIDE DEF n, Good
  <2> QED
    BY <1>1, <1>3
<1> QED
  BY <1>2, <1>4

\* Nor does a whole pass, by induction over the routes: no node is given two
\* loads, nor one while it is loading.
LEMMA Planned ==
    ASSUME PlacementAssumption, NEW health, NEW loading, Apart(loading)
    PROVE  /\ PlanLoads(health, loading) \subseteq Deployments
           /\ Apart(loading \cup PlanLoads(health, loading))
<1> DEFINE n == Len(RouteOrder)
<1>1. n \in Nat /\ \A i \in 1..n : RouteOrder[i] \in Routes
  BY DEF PlacementAssumption
<1>2. PICK f : IsPass(f, n, health, loading) /\ PlanLoads(health, loading) = f[n]
  BY <1>1, PassFold
<1> DEFINE Good(i) == f[i] \subseteq Deployments /\ Apart(loading \cup f[i])
           T == {i \in 0..n : ~Good(i)}
<1>3. T = {}
  <2> SUFFICES ASSUME T # {} PROVE FALSE
    BY ZenonT(30)
  <2> HIDE DEF n
  <2>1. PICK x \in T : \A y \in T : x <= y
    <3>1. T \subseteq Nat
      BY <1>1
    <3> HIDE DEF T
    <3> QED
      BY <3>1, Least, ZenonT(30)
  <2>2. CASE x = 0
    <3>1. f[0] = {}
      BY <1>1, <1>2 DEF IsPass
    <3>2. Good(0)
      BY <3>1
    <3> QED
      BY <2>2, <3>2
  <2>3. CASE x # 0
    <3>1. x - 1 \in 0..n /\ ~(x <= x - 1) /\ x \in 1..n
      BY <1>1, <2>3
    <3>2. Good(x - 1)
      <4> HIDE DEF Good
      <4> QED
        BY <2>1, <3>1
    <3>3. f[x] = PlanRoute(f[x - 1], RouteOrder[x], health, loading)
      BY <1>2, <2>3, ZenonT(30) DEF IsPass
    <3>4. Good(x)
      BY <1>1, <3>1, <3>2, <3>3, RoutePlanned
    <3> QED
      BY <3>4
  <2> QED
    BY <2>2, <2>3
<1>4. Good(n)
  <2> HIDE DEF n, Good
  <2> QED
    BY <1>1, <1>3
<1> QED
  BY <1>2, <1>4

-----------------------------------------------------------------------------
(* The invariant of placement: the book's, and what the loads in flight rest
   on. *)

TaskType == [pc : {"none", "catalog", "post", "job", "probe", "file", "status", "check"},
             found : Outcome, polls : 0..MaxPolls]
RecordType == [loading : BOOLEAN, waiting : BOOLEAN]
JobType == {"none", "accepted", "empty", "succeeded", "failed"}

\* The task of a load: it has time for another probe while it waits for one,
\* and changes the status only after the observation behind it is filed.
Confirms(d, t, filed) ==
    /\ t.pc \in {"catalog", "post", "job", "probe"} => t.polls < MaxPolls
    /\ t.pc = "status" =>
          \A e \in Deployments :
             t.found.ok /\ NodeOf[e] = NodeOf[d] /\ RemoteModel[e] = t.found.model => e \in filed

Confirming == \A d \in Deployments : Confirms(d, task[d], seen)

\* What is marked as loading, as the loop goes on, stops and has stopped.
Marked ==
    /\ pass # NoPass => ctl = "running"
    /\ Apart(Loading)
    /\ ctl = "running" => \A d \in Deployments : record[d].loading <=> Running(d)
    /\ ctl = "stopping" => \A d \in Deployments : Running(d) => record[d].loading
    /\ ctl = "stopped" => \A d \in Deployments : ~record[d].loading /\ ~Running(d)

ControlTypes ==
    /\ ctl \in {"running", "stopping", "stopped"}
    /\ pass \in [Nodes -> NodeStatus] \cup {NoPass}
    /\ record \in [Deployments -> RecordType]
    /\ task \in [Deployments -> TaskType]
    /\ job \in [Deployments -> JobType]
    /\ failures \in 0..MaxFailures
    /\ said \in [Nodes -> Served]

BookInv == BookTypes /\ Paced /\ Grounded

PlacementInv == BookInv /\ ControlTypes /\ Confirming /\ Marked

-----------------------------------------------------------------------------
\* What the steps of a load do to its task and to its record: they go on, end
\* the load, or are aborted.
LEMMA TaskEffect ==
    ASSUME HealthAssumption, PlacementAssumption, TypeOK, ControlTypes, Confirming,
           NEW d \in Deployments, TaskStep(d) \/ LoadTimeout(d)
    PROVE  \E t \in TaskType, q \in RecordType :
              /\ task' = [task EXCEPT ![d] = t] /\ record' = [record EXCEPT ![d] = q]
              /\ UNCHANGED <<ctl, pass>>
              /\ Running(d) /\ Confirms(d, t, seen')
              /\ \/ t.pc # "none" /\ q = record[d]
                 \/ t.pc = "none" /\ ~q.loading /\ (q.waiting \/ Available(d, nodes))
                 \/ t.pc = "none" /\ q = record[d] /\ ctl = "stopping"
<1>a. /\ task[d] \in TaskType /\ record[d] \in RecordType /\ NodeOf[d] \in Nodes
      /\ Confirms(d, task[d], seen) /\ MaxPolls \in Nat \ {0}
      /\ task \in [Deployments -> TaskType] /\ record \in [Deployments -> RecordType]
  BY ZenonT(30) DEF ControlTypes, Confirming, HealthAssumption, PlacementAssumption
<1>b. NoTask \in TaskType /\ NoTask.pc = "none" /\ NoRecord \in RecordType
  BY <1>a DEF NoTask, TaskType, Failure, Outcome, Served, NoRecord, RecordType
<1>c. [loading |-> FALSE, waiting |-> TRUE] \in RecordType
  BY DEF RecordType
<1>d. \A t \in TaskType, p \in {"post", "job", "probe", "status", "check"} :
         /\ [t EXCEPT !.pc = p] \in TaskType
         /\ [t EXCEPT !.pc = p].pc = p
         /\ [t EXCEPT !.pc = p].polls = t.polls
         /\ [t EXCEPT !.pc = p].found = t.found
  BY DEF TaskType
<1>e. \A S : Confirms(d, NoTask, S)
  BY <1>b DEF Confirms
<1>f. [record EXCEPT ![d] = record[d]] = record
  BY <1>a
<1>g. \A p : [task EXCEPT ![d].pc = p] = [task EXCEPT ![d] = [task[d] EXCEPT !.pc = p]]
  BY <1>a
<1>1. ASSUME Fail(d), Running(d), UNCHANGED <<ctl, pass>>
      PROVE  /\ task' = [task EXCEPT ![d] = NoTask]
             /\ record' = [record EXCEPT ![d] = [loading |-> FALSE, waiting |-> TRUE]]
             /\ UNCHANGED <<ctl, pass>> /\ Running(d)
  BY <1>1 DEF Fail
<1>2. ASSUME Fail(d), Running(d), UNCHANGED <<ctl, pass>>
      PROVE  \E t \in TaskType, q \in RecordType :
              /\ task' = [task EXCEPT ![d] = t] /\ record' = [record EXCEPT ![d] = q]
              /\ UNCHANGED <<ctl, pass>>
              /\ Running(d) /\ Confirms(d, t, seen')
              /\ t.pc = "none" /\ ~q.loading /\ q.waiting
  <2>1. /\ [loading |-> FALSE, waiting |-> TRUE].waiting
        /\ ~[loading |-> FALSE, waiting |-> TRUE].loading
    OBVIOUS
  <2> QED
    BY <1>1, <1>2, <1>b, <1>c, <1>e, <2>1, ZenonT(30)
<1>3. ASSUME NEW p \in {"post", "job", "probe"}, Goto(d, p), UNCHANGED <<ctl, pass>>,
             Running(d), task[d].polls < MaxPolls
      PROVE  \E t \in TaskType, q \in RecordType :
              /\ task' = [task EXCEPT ![d] = t] /\ record' = [record EXCEPT ![d] = q]
              /\ UNCHANGED <<ctl, pass>>
              /\ Running(d) /\ Confirms(d, t, seen')
              /\ t.pc # "none" /\ q = record[d]
  <2> DEFINE t == [task[d] EXCEPT !.pc = p]
  <2>1. t \in TaskType /\ t.pc = p /\ t.polls = task[d].polls
    <3>1. p \in {"post", "job", "probe", "status", "check"}
      OBVIOUS
    <3> QED
      BY <1>a, <1>d, <3>1, ZenonT(30)
  <2>2. task' = [task EXCEPT ![d] = t] /\ record' = [record EXCEPT ![d] = record[d]]
    BY <1>3, <1>f, <1>g DEF Goto
  <2> HIDE DEF t
  <2>3. Confirms(d, t, seen')
    BY <1>3, <2>1, ZenonT(30) DEF Confirms
  <2> QED
    BY <1>3, <1>a, <2>1, <2>2, <2>3, ZenonT(30)
<1>4. CASE ReadCatalog(d)
  <2>1. task[d].pc = "catalog" /\ UNCHANGED <<ctl, pass>>
        /\ (Fail(d) \/ \E p \in {"post", "job", "probe"} : Goto(d, p))
    BY <1>4, ZenonT(30) DEF ReadCatalog
  <2>2. Running(d) /\ task[d].polls < MaxPolls
    BY <1>a, <2>1, ZenonT(30) DEF Running, Confirms
  <2> QED
    BY <1>2, <1>3, <2>1, <2>2
<1>5. CASE PostLoad(d)
  <2>1. task[d].pc = "post" /\ UNCHANGED <<ctl, pass>>
        /\ (Fail(d) \/ \E p \in {"post", "job", "probe"} : Goto(d, p))
    BY <1>5, ZenonT(30) DEF PostLoad
  <2>2. Running(d) /\ task[d].polls < MaxPolls
    BY <1>a, <2>1, ZenonT(30) DEF Running, Confirms
  <2> QED
    BY <1>2, <1>3, <2>1, <2>2
<1>6. CASE PollJob(d)
  <2>1. task[d].pc = "job" /\ UNCHANGED <<ctl, pass>>
        /\ (Fail(d) \/ \E p \in {"post", "job", "probe"} : Goto(d, p))
    BY <1>6, ZenonT(30) DEF PollJob
  <2>2. Running(d) /\ task[d].polls < MaxPolls
    BY <1>a, <2>1, ZenonT(30) DEF Running, Confirms
  <2> QED
    BY <1>2, <1>3, <2>1, <2>2
<1>7. CASE LoadTimeout(d)
  <2>1. Running(d) /\ UNCHANGED <<ctl, pass>> /\ Fail(d)
    BY <1>7, ZenonT(30) DEF LoadTimeout, Running
  <2> QED
    BY <1>2, <2>1
<1>8. CASE ConfirmProbe(d)
  <2> DEFINE t == [pc |-> "file", found |-> Reply(NodeOf[d]), polls |-> task[d].polls + 1]
  <2>1. task[d].pc = "probe" /\ task' = [task EXCEPT ![d] = t] /\ UNCHANGED <<ctl, pass, record>>
    BY <1>8, <1>a DEF ConfirmProbe
  <2>2. task[d].polls + 1 \in 0..MaxPolls
    <3>1. task[d].polls < MaxPolls
      BY <1>a, <2>1 DEF Confirms
    <3>2. task[d].polls \in 0..MaxPolls
      BY <1>a DEF TaskType
    <3> QED
      BY <1>a, <3>1, <3>2
  <2>3. t \in TaskType /\ t.pc = "file"
    BY <1>a, <2>2, Outcomes DEF TaskType
  <2> HIDE DEF t
  <2>4. Confirms(d, t, seen') /\ Running(d)
    BY <2>1, <2>3 DEF Confirms, Running
  <2>5. record' = [record EXCEPT ![d] = record[d]]
    BY <1>f, <2>1
  <2> QED
    BY <1>a, <2>1, <2>3, <2>4, <2>5
<1>9. CASE ConfirmFile(d)
  <2> DEFINE t == [task[d] EXCEPT !.pc = "status"]
  <2>1. /\ task[d].pc = "file" /\ task' = [task EXCEPT ![d] = t] /\ UNCHANGED <<ctl, pass, record>>
        /\ seen' = Filed(NodeOf[d], task[d].found)
    BY <1>9, <1>g DEF ConfirmFile, RecordFiling
  <2>2. t \in TaskType /\ t.pc = "status" /\ t.found = task[d].found
    BY <1>a, <1>d, ZenonT(30)
  <2> HIDE DEF t
  <2>3. Confirms(d, t, seen') /\ Running(d)
    BY <2>1, <2>2, ZenonT(30) DEF Confirms, Running, Filed
  <2>4. record' = [record EXCEPT ![d] = record[d]]
    BY <1>f, <2>1
  <2> QED
    BY <1>a, <2>1, <2>2, <2>3, <2>4
<1>10. CASE ConfirmStatus(d)
  <2> DEFINE t == [task[d] EXCEPT !.pc = "check"]
  <2>1. task[d].pc = "status" /\ task' = [task EXCEPT ![d] = t] /\ UNCHANGED <<ctl, pass, record>>
    BY <1>10, <1>g DEF ConfirmStatus
  <2>2. t \in TaskType /\ t.pc = "check"
    BY <1>a, <1>d, ZenonT(30)
  <2> HIDE DEF t
  <2>3. Confirms(d, t, seen') /\ Running(d)
    BY <2>1, <2>2, ZenonT(30) DEF Confirms, Running
  <2>4. record' = [record EXCEPT ![d] = record[d]]
    BY <1>f, <2>1
  <2> QED
    BY <1>a, <2>1, <2>2, <2>3, <2>4
<1>11. CASE ConfirmCheck(d)
  <2>1. /\ task[d].pc = "check" /\ UNCHANGED <<ctl, pass>>
        /\ \/ Available(d, nodes) /\ Succeed(d)
           \/ Fail(d)
           \/ task[d].polls < MaxPolls /\ Goto(d, "probe")
    BY <1>11, <1>a DEF ConfirmCheck, TaskType
  <2>2. Running(d)
    BY <2>1, ZenonT(30) DEF Running
  <2>3. CASE Available(d, nodes) /\ Succeed(d)
    <3>1. task' = [task EXCEPT ![d] = NoTask] /\ record' = [record EXCEPT ![d] = NoRecord]
      BY <2>3 DEF Succeed
    <3>2. ~NoRecord.loading
      BY DEF NoRecord
    <3> QED
      BY <1>b, <1>e, <2>1, <2>2, <2>3, <3>1, <3>2, ZenonT(30)
  <2> QED
    BY <1>2, <1>3, <2>1, <2>2, <2>3
<1>12. CASE Abort(d)
  <2>1. /\ ctl = "stopping" /\ Running(d) /\ task' = [task EXCEPT ![d] = NoTask]
        /\ UNCHANGED <<ctl, pass, record>>
    BY <1>12 DEF Abort, Running
  <2>2. record' = [record EXCEPT ![d] = record[d]]
    BY <1>f, <2>1
  <2> QED
    BY <1>a, <1>b, <1>e, <2>1, <2>2
<1> QED
  BY <1>4, <1>5, <1>6, <1>7, <1>8, <1>9, <1>10, <1>11, <1>12, ZenonT(30)
     DEF TaskStep

\* The steps by what they do to the health book: one of its own, nothing, the
\* two halves of a load's own record, or a node's model.
LEMMA PlacementSteps ==
    ASSUME PlacementNext
    PROVE  \/ Next /\ UNCHANGED <<ctl, pass, record, task>>
           \/ UNCHANGED <<real, changes, lost, nodes, seen, monitor, serving, request>>
           \/ \E d \in Deployments : ConfirmFile(d) \/ ConfirmStatus(d)
           \/ \E d \in Deployments : \E m \in {NoModel, RemoteModel[d]} :
                 SetNode(NodeOf[d], m) /\ UNCHANGED <<ctl, pass, record, task>>
<1> USE DEF ctlVars
<1>1. ASSUME Operator PROVE Next /\ UNCHANGED <<ctl, pass, record, task>>
  BY <1>1 DEF Operator, Next, Environment
<1>2. ASSUME MonitorStep PROVE Next /\ UNCHANGED <<ctl, pass, record, task>>
  BY <1>2 DEF MonitorStep, Next
<1>3. ASSUME (\E n \in Nodes : ProbeLost(n)) /\ UNCHANGED <<ctlVars, said>>
      PROVE  Next /\ UNCHANGED <<ctl, pass, record, task>>
  BY <1>3 DEF Next
<1>4. ASSUME NEW r \in Requests,
             \/ ReadObservations(r) /\ UNCHANGED <<ctlVars, said>>
             \/ RequestStep(r)
      PROVE  Next /\ UNCHANGED <<ctl, pass, record, task>>
  BY <1>4 DEF RequestStep, Next
<1>5. ASSUME Loop \/ Stop
      PROVE  UNCHANGED <<real, changes, lost, nodes, seen, monitor, serving, request>>
  BY <1>5
     DEF Loop, Stop, ObserveHealth, StartLoads, Stopped, vars, nodeVars, bookVars
<1>6. ASSUME NEW d \in Deployments,
             BackoffPasses(d) \/ LoadTimeout(d) \/ JobFails(d)
      PROVE  UNCHANGED <<real, changes, lost, nodes, seen, monitor, serving, request>>
  BY <1>6 DEF BackoffPasses, LoadTimeout, JobFails, vars, nodeVars, bookVars
<1>7. ASSUME NEW d \in Deployments, TaskStep(d), ~ConfirmFile(d), ~ConfirmStatus(d)
      PROVE  UNCHANGED <<real, changes, lost, nodes, seen, monitor, serving, request>>
  BY <1>7, ZenonT(30)
     DEF TaskStep, ReadCatalog, PostLoad, PollJob, ConfirmProbe, ConfirmCheck,
         Abort, vars, nodeVars, bookVars
<1>8. ASSUME NEW d \in Deployments, JobStep(d)
      PROVE  \E m \in {NoModel, RemoteModel[d]} :
                SetNode(NodeOf[d], m) /\ UNCHANGED <<ctl, pass, record, task>>
  BY <1>8 DEF JobStep, JobLetsGo, JobSucceeds
<1> QED
  BY <1>1, <1>2, <1>3, <1>4, <1>5, <1>6, <1>7, <1>8, ZenonT(30) DEF PlacementNext

\* An observation is never dropped.
LEMMA SeenGrows ==
    ASSUME PlacementNext
    PROVE  seen \subseteq seen'
<1>1. ASSUME Next PROVE seen \subseteq seen'
  <2>1. ASSUME NEW k \in Nodes, NEW to \in [up : BOOLEAN, model : Served], Change(k, to)
        PROVE  seen' = seen
    BY <2>1 DEF Change, bookVars
  <2>2. ASSUME NEW k \in Nodes, Probed(k, Reply(k)) \/ Probed(k, Failure) PROVE seen' = seen
    BY <2>2 DEF Probed, bookVars
  <2>3. ASSUME StartRound \/ JoinAll \/ StatusNext \/ EndRound PROVE seen' = seen
    BY <2>3 DEF StartRound, JoinAll, StatusNext, EndRound, RecordStatus, bookVars
  <2>4. ASSUME FileNext PROVE seen \subseteq seen'
    BY <2>4 DEF FileNext, RecordFiling, Filed
  <2>5. ASSUME NEW r \in Requests, Report(r) PROVE seen' = seen
    BY <2>5 DEF Report
  <2>6. ASSUME UNCHANGED <<real, bookVars, monitor>> PROVE seen' = seen
    BY <2>6 DEF bookVars
  <2> QED
    BY <1>1, <2>1, <2>2, <2>3, <2>4, <2>5, <2>6, Steps
<1>2. ASSUME NEW d \in Deployments, ConfirmFile(d) \/ ConfirmStatus(d)
      PROVE  seen \subseteq seen'
  BY <1>2 DEF ConfirmFile, ConfirmStatus, RecordFiling, RecordStatus, Filed
<1>3. ASSUME NEW d \in Deployments, NEW m, SetNode(NodeOf[d], m) PROVE seen' = seen
  BY <1>3 DEF SetNode, bookVars
<1> QED
  BY <1>1, <1>2, <1>3, PlacementSteps, ZenonT(30)

\* The book stays typed and grounded with the controller's records in it.
LEMMA BookKept ==
    ASSUME HealthAssumption, BookInv, ControlTypes, Confirming, PlacementNext
    PROVE  BookInv'
<1> USE DEF bookVars, nodeVars
<1>1. CASE Next
  BY <1>1, BookTypesStep, PacedStep, GroundedStep DEF BookInv
<1>2. CASE UNCHANGED <<real, changes, lost, nodes, seen, monitor, serving, request>>
  BY <1>2, ZenonT(30)
     DEF BookInv, BookTypes, TypeOK, Paced, Grounded, Available, Filed
<1>3. ASSUME NEW d \in Deployments, NEW m \in {NoModel, RemoteModel[d]},
             SetNode(NodeOf[d], m)
      PROVE  BookInv'
  <2>1. real' \in [Nodes -> [up : BOOLEAN, model : Served]]
    <3>1. m \in Served /\ real \in [Nodes -> [up : BOOLEAN, model : Served]]
      BY DEF HealthAssumption, Served, BookInv, BookTypes, TypeOK
    <3> QED
      BY <1>3, <3>1, ZenonT(30) DEF SetNode
  <2>2. UNCHANGED <<changes, lost, nodes, seen, monitor, serving, request>>
    BY <1>3 DEF SetNode
  <2> QED
    BY <2>1, <2>2, ZenonT(30)
       DEF BookInv, BookTypes, TypeOK, Paced, Grounded, Available, Filed
<1>4. ASSUME NEW d \in Deployments, ConfirmFile(d) PROVE BookInv'
  <2>1. /\ seen' = Filed(NodeOf[d], task[d].found)
        /\ UNCHANGED <<real, changes, lost, nodes, monitor, serving, request>>
    BY <1>4 DEF ConfirmFile, RecordFiling, bookOnly
  <2>2. seen \subseteq seen' /\ seen' \subseteq Deployments
    BY <2>1 DEF Filed, BookInv, BookTypes, TypeOK
  <2>3. Grounded'
    BY <2>1, <2>2, ZenonT(30) DEF BookInv, Grounded, Available, Filed
  <2>4. BookTypes'
    BY <2>1, <2>2, ZenonT(30) DEF BookInv, BookTypes, TypeOK
  <2> QED
    BY <2>1, <2>3, <2>4 DEF BookInv, Paced
<1>5. ASSUME NEW d \in Deployments, ConfirmStatus(d) PROVE BookInv'
  <2> DEFINE n == NodeOf[d]
             o == task[d].found
  <2>1. /\ nodes' = [nodes EXCEPT ![n] = Apply(nodes[n], o)]
        /\ UNCHANGED <<real, changes, lost, seen, monitor, serving, request>>
        /\ task[d].pc = "status"
    BY <1>5 DEF ConfirmStatus, RecordStatus, bookOnly
  <2>2. n \in Nodes /\ o \in Outcome /\ nodes \in [Nodes -> NodeStatus] /\ nodes[n] \in NodeStatus
    BY DEF HealthAssumption, ControlTypes, TaskType, BookInv, BookTypes, TypeOK
  <2>3. \A e \in Deployments : o.ok /\ NodeOf[e] = n /\ RemoteModel[e] = o.model => e \in seen
    BY <2>1 DEF Confirming, Confirms
  <2> HIDE DEF n, o
  <2>4. /\ Apply(nodes[n], o) \in NodeStatus
        /\ o.ok => Apply(nodes[n], o).served = o.model
        /\ ~o.ok => /\ Apply(nodes[n], o).served = nodes[n].served
                    /\ Apply(nodes[n], o).health \in {nodes[n].health, "unhealthy"}
    BY <2>2, Applied, ZenonT(30)
  <2>5. nodes' \in [Nodes -> NodeStatus] /\ nodes'[n] = Apply(nodes[n], o)
        /\ \A k \in Nodes : k # n => nodes'[k] = nodes[k]
    <3> DEFINE a == Apply(nodes[n], o)
    <3> HIDE DEF a
    <3>1. a \in NodeStatus
      BY <2>4 DEF a
    <3>2. nodes' = [nodes EXCEPT ![n] = a]
      BY <2>1 DEF a
    <3> QED
      BY <2>2, <3>1, <3>2 DEF a
  <2>6. ASSUME NEW e \in Deployments, Available(e, nodes') PROVE e \in seen
    <3>1. CASE NodeOf[e] = n /\ o.ok
      BY <2>3, <2>4, <2>5, <2>6, <3>1 DEF Available
    <3>2. CASE NodeOf[e] = n /\ ~o.ok
      <4>1. Available(e, nodes)
        BY <2>4, <2>5, <2>6, <3>2 DEF Available
      <4> QED
        BY <4>1 DEF BookInv, Grounded
    <3>3. CASE NodeOf[e] # n
      <4>1. NodeOf[e] \in Nodes
        BY DEF HealthAssumption
      <4>2. Available(e, nodes)
        BY <2>5, <2>6, <3>3, <4>1 DEF Available
      <4> QED
        BY <4>2 DEF BookInv, Grounded
    <3> QED
      BY <3>1, <3>2, <3>3
  <2>7. Grounded'
    BY <2>1, <2>6, ZenonT(30) DEF BookInv, Grounded, Available, Filed
  <2>8. BookTypes'
    BY <2>1, <2>5, ZenonT(30) DEF BookInv, BookTypes, TypeOK
  <2> QED
    BY <2>1, <2>7, <2>8 DEF BookInv, Paced
<1> QED
  BY <1>1, <1>2, <1>3, <1>4, <1>5, PlacementSteps

\* The steps that touch neither the tasks nor the records of loads, and those
\* that do.
LEMMA ControlSteps ==
    ASSUME PlacementNext
    PROVE  \/ UNCHANGED <<ctl, pass, record, task>>
           \/ ObserveHealth \/ StartLoads \/ Stop \/ Stopped
           \/ \E d \in Deployments : TaskStep(d) \/ LoadTimeout(d) \/ BackoffPasses(d)
<1> USE DEF ctlVars
<1>1. ASSUME NEW d \in Deployments, JobStep(d) \/ JobFails(d)
      PROVE  UNCHANGED <<ctl, pass, record, task>>
  BY <1>1, ZenonT(30) DEF JobStep, JobLetsGo, JobSucceeds, JobFails
<1> QED
  BY <1>1 DEF PlacementNext, Operator, MonitorStep, RequestStep, Loop

\* Every step keeps the types of the controller.
LEMMA ControlTypesStep ==
    ASSUME HealthAssumption, PlacementAssumption, BookInv, ControlTypes, Confirming, Marked,
           PlacementNext
    PROVE  ControlTypes'
<1> USE DEF ctlVars
<1>a. /\ record \in [Deployments -> RecordType] /\ task \in [Deployments -> TaskType]
      /\ job \in [Deployments -> JobType] /\ said \in [Nodes -> Served]
      /\ failures \in 0..MaxFailures /\ MaxFailures \in Nat
      /\ pass \in [Nodes -> NodeStatus] \cup {NoPass} /\ nodes \in [Nodes -> NodeStatus]
      /\ ctl \in {"running", "stopping", "stopped"}
  BY ZenonT(30) DEF ControlTypes, PlacementAssumption, BookInv, BookTypes, TypeOK
<1>r. \A q \in RecordType, b \in BOOLEAN :
         [q EXCEPT !.loading = b] \in RecordType /\ [q EXCEPT !.waiting = b] \in RecordType
  BY DEF RecordType
<1>1. /\ ctl' \in {"running", "stopping", "stopped"}
      /\ pass' \in [Nodes -> NodeStatus] \cup {NoPass}
      /\ record' \in [Deployments -> RecordType]
      /\ task' \in [Deployments -> TaskType]
  <2>1. CASE UNCHANGED <<ctl, pass, record, task>>
    BY <1>a, <2>1
  <2>2. CASE ObserveHealth \/ Stop
    BY <1>a, <2>2 DEF ObserveHealth, Stop
  <2>3. CASE StartLoads
    <3>1. [NoTask EXCEPT !.pc = "catalog"] \in TaskType
      <4>1. 0 \in 0..MaxPolls
        BY DEF PlacementAssumption
      <4>2. Failure \in Outcome
        BY DEF Failure, Outcome, Served
      <4> QED
        BY <4>1, <4>2 DEF NoTask, TaskType
    <3>2. record' \in [Deployments -> RecordType]
      BY <1>a, <1>r, <2>3, ZenonT(30) DEF StartLoads
    <3>3. task' \in [Deployments -> TaskType]
      BY <1>a, <2>3, <3>1 DEF StartLoads
    <3> QED
      BY <1>a, <2>3, <3>2, <3>3 DEF StartLoads
  <2>4. CASE Stopped
    BY <1>a, <1>r, <2>4, ZenonT(30) DEF Stopped
  <2>5. ASSUME NEW d \in Deployments, BackoffPasses(d)
        PROVE  UNCHANGED <<ctl, pass, task>> /\ record' \in [Deployments -> RecordType]
    BY <1>a, <1>r, <2>5, ZenonT(30) DEF BackoffPasses
  <2>6. ASSUME NEW d \in Deployments, TaskStep(d) \/ LoadTimeout(d)
        PROVE  /\ UNCHANGED <<ctl, pass>> /\ record' \in [Deployments -> RecordType]
               /\ task' \in [Deployments -> TaskType]
    <3>1. PICK t \in TaskType, q \in RecordType :
              /\ task' = [task EXCEPT ![d] = t] /\ record' = [record EXCEPT ![d] = q]
              /\ UNCHANGED <<ctl, pass>>
      BY <2>6, TaskEffect DEF BookInv, BookTypes
    <3> QED
      BY <1>a, <3>1
  <2> QED
    BY <1>a, <2>1, <2>2, <2>3, <2>4, <2>5, <2>6, ControlSteps
<1>2. job' \in [Deployments -> JobType]
  <2>1. ASSUME Operator PROVE job' \in [Deployments -> JobType]
    BY <1>a, <2>1, ZenonT(30) DEF Operator, Surviving, JobType
  <2>2. ASSUME NEW d \in Deployments,
               PostLoad(d) \/ JobStep(d) \/ JobFails(d)
        PROVE  job' \in [Deployments -> JobType]
    BY <1>a, <2>2, ZenonT(30)
       DEF PostLoad, JobStep, JobLetsGo, JobSucceeds, JobFails, JobType
  <2>3. ASSUME ~Operator,
               ~\E d \in Deployments : PostLoad(d) \/ JobStep(d) \/ JobFails(d)
        PROVE  UNCHANGED job
    BY <2>3, ZenonT(30)
       DEF PlacementNext, MonitorStep, RequestStep, Loop, ObserveHealth, StartLoads,
           Stopped, Stop, BackoffPasses, TaskStep, ReadCatalog, PollJob,
           ConfirmProbe, ConfirmFile, ConfirmStatus, ConfirmCheck, Abort,
           LoadTimeout
  <2> QED
    BY <1>a, <2>1, <2>2, <2>3
<1>3. failures' \in 0..MaxFailures
  <2>1. ASSUME NEW d \in Deployments, LoadTimeout(d) \/ JobFails(d)
        PROVE  failures' \in 0..MaxFailures
    BY <1>a, <2>1 DEF LoadTimeout, JobFails
  <2>2. ASSUME ~\E d \in Deployments : LoadTimeout(d) \/ JobFails(d)
        PROVE  UNCHANGED failures
    BY <2>2, ZenonT(30)
       DEF PlacementNext, Operator, MonitorStep, RequestStep, Loop, ObserveHealth,
           StartLoads, Stopped, Stop, BackoffPasses, TaskStep, ReadCatalog,
           PostLoad, PollJob, ConfirmProbe, ConfirmFile, ConfirmStatus,
           ConfirmCheck, Abort, JobStep, JobLetsGo, JobSucceeds
  <2> QED
    BY <1>a, <2>1, <2>2
<1>4. said' \in [Nodes -> Served]
  <2>1. \A n, o : o \in Outcome => Heard(n, o) \in [Nodes -> Served]
    BY <1>a, ZenonT(30) DEF Heard, Outcome
  <2>2. ASSUME MonitorStep PROVE said' \in [Nodes -> Served]
    <3>1. CASE monitor.filed /\ ~monitor'.filed
      <4>1. monitor.queue # <<>> /\ monitor.queue \in Seq(Nodes)
            /\ monitor.found \in [Nodes -> Outcome]
        BY <3>1 DEF BookInv, Paced, BookTypes, TypeOK
      <4>2. monitor.found[Head(monitor.queue)] \in Outcome
        BY <4>1
      <4> QED
        BY <2>1, <2>2, <3>1, <4>2 DEF MonitorStep
    <3> QED
      BY <1>a, <2>2, <3>1 DEF MonitorStep
  <2>3. ASSUME NEW d \in Deployments, ConfirmStatus(d) PROVE said' \in [Nodes -> Served]
    <3>1. task[d].found \in Outcome
      BY <1>a DEF TaskType
    <3> QED
      BY <2>1, <2>3, <3>1 DEF ConfirmStatus
  <2>4. ASSUME ~MonitorStep, ~\E d \in Deployments : ConfirmStatus(d)
        PROVE  UNCHANGED said
    BY <2>4, ZenonT(30)
       DEF PlacementNext, Operator, RequestStep, Loop, ObserveHealth, StartLoads,
           Stopped, Stop, BackoffPasses, TaskStep, ReadCatalog, PostLoad, PollJob,
           ConfirmProbe, ConfirmFile, ConfirmCheck, Abort, LoadTimeout, JobStep,
           JobLetsGo, JobSucceeds, JobFails
  <2> QED
    BY <1>a, <2>2, <2>3, <2>4
<1> QED
  BY <1>1, <1>2, <1>3, <1>4 DEF ControlTypes

\* A load keeps its time and its order of recording.
LEMMA ConfirmingStep ==
    ASSUME HealthAssumption, PlacementAssumption, BookInv, ControlTypes, Confirming,
           PlacementNext
    PROVE  Confirming'
<1>a. task \in [Deployments -> TaskType] /\ seen \subseteq seen'
  BY SeenGrows DEF ControlTypes
<1>b. \A d \in Deployments : Confirms(d, task[d], seen')
  BY <1>a, ZenonT(30) DEF Confirming, Confirms
<1>1. ASSUME UNCHANGED task PROVE Confirming'
  BY <1>1, <1>b DEF Confirming
<1>2. CASE StartLoads
  <2>1. \A d \in Deployments : Confirms(d, [NoTask EXCEPT !.pc = "catalog"], seen')
    BY DEF Confirms, NoTask, PlacementAssumption
  <2> QED
    BY <1>2, <1>b, <2>1 DEF StartLoads, Confirming
<1>3. ASSUME NEW d \in Deployments, TaskStep(d) \/ LoadTimeout(d) PROVE Confirming'
  <2>1. PICK t \in TaskType, q \in RecordType :
            task' = [task EXCEPT ![d] = t] /\ Confirms(d, t, seen')
    BY <1>3, TaskEffect, ZenonT(30) DEF BookInv, BookTypes
  <2> QED
    BY <1>a, <1>b, <2>1 DEF Confirming
<1>4. ASSUME NEW d \in Deployments, BackoffPasses(d) PROVE UNCHANGED task
  BY <1>4 DEF BackoffPasses
<1>5. ASSUME ObserveHealth \/ Stop \/ Stopped PROVE UNCHANGED task
  BY <1>5 DEF ObserveHealth, Stop, Stopped
<1> QED
  BY <1>1, <1>2, <1>3, <1>4, <1>5, ControlSteps

\* A pass never gives a node a second load, and the marks follow the tasks.
LEMMA MarkedStep ==
    ASSUME HealthAssumption, PlacementAssumption, BookInv, ControlTypes, Confirming, Marked,
           PlacementNext
    PROVE  Marked'
<1>a. record \in [Deployments -> RecordType] /\ task \in [Deployments -> TaskType]
  BY DEF ControlTypes
<1>1. ASSUME UNCHANGED <<ctl, pass, record, task>> PROVE Marked'
  BY <1>1 DEF Marked, Loading, Running
<1>2. CASE ObserveHealth
  <2>1. ctl = "running" /\ UNCHANGED <<ctl, record, task>>
    BY <1>2 DEF ObserveHealth
  <2> QED
    BY <2>1 DEF Marked, Loading, Running
<1>3. CASE Stop
  <2>1. /\ ctl = "running" /\ ctl' = "stopping" /\ pass = NoPass
        /\ UNCHANGED <<pass, record, task>>
    BY <1>3 DEF Stop
  <2> QED
    BY <2>1 DEF Marked, Loading, Running
<1>4. CASE Stopped
  <2>1. /\ ctl = "stopping" /\ ctl' = "stopped" /\ UNCHANGED <<pass, task>>
        /\ \A d \in Deployments : ~record'[d].loading /\ ~Running(d)
    BY <1>4, <1>a DEF Stopped, RecordType
  <2> QED
    BY <2>1 DEF Marked, Loading, Running, Apart
<1>5. CASE StartLoads
  <2> DEFINE planned == PlanLoads(pass, Loading)
             chosen == planned \ Loading
  <2>1. ctl = "running" /\ ctl' = "running" /\ pass' = NoPass
    BY <1>5 DEF StartLoads, Marked
  <2>2. planned \subseteq Deployments /\ Apart(Loading \cup planned)
    BY Planned DEF Marked
  <2>3. /\ record' = [d \in Deployments |->
                        IF d \in chosen THEN [record[d] EXCEPT !.loading = TRUE] ELSE record[d]]
        /\ task' = [d \in Deployments |->
                      IF d \in chosen THEN [NoTask EXCEPT !.pc = "catalog"] ELSE task[d]]
    BY <1>5 DEF StartLoads
  <2> HIDE DEF planned
  <2>4. \A d \in Deployments : record'[d].loading = (d \in chosen \/ record[d].loading)
    BY <1>a, <2>3, ZenonT(30) DEF RecordType
  <2>5. \A d \in Deployments : task'[d].pc # "none" <=> (d \in chosen \/ task[d].pc # "none")
    BY <1>a, <2>3 DEF NoTask
  <2>6. Loading' \subseteq Loading \cup planned
    BY <2>4, ZenonT(30) DEF Loading
  <2>7. Apart(Loading')
    BY <2>2, <2>6 DEF Apart
  <2>8. \A d \in Deployments : record'[d].loading <=> Running(d)'
    BY <2>1, <2>4, <2>5, ZenonT(30) DEF Marked, Running
  <2> QED
    BY <2>1, <2>7, <2>8 DEF Marked, Apart
<1>6. ASSUME NEW d \in Deployments, BackoffPasses(d) PROVE Marked'
  <2>1. /\ UNCHANGED <<ctl, pass, task>>
        /\ \A e \in Deployments : record'[e].loading = record[e].loading
    BY <1>6, <1>a DEF BackoffPasses, RecordType
  <2>2. Loading' = Loading
    BY <2>1 DEF Loading
  <2> QED
    BY <2>1, <2>2, ZenonT(30) DEF Marked, Running, Apart
<1>7. ASSUME NEW d \in Deployments, TaskStep(d) \/ LoadTimeout(d) PROVE Marked'
  <2>1. PICK t \in TaskType, q \in RecordType :
              /\ task' = [task EXCEPT ![d] = t] /\ record' = [record EXCEPT ![d] = q]
              /\ UNCHANGED <<ctl, pass>> /\ Running(d)
              /\ \/ t.pc # "none" /\ q = record[d]
                 \/ t.pc = "none" /\ ~q.loading
                 \/ t.pc = "none" /\ q = record[d] /\ ctl = "stopping"
    BY <1>7, TaskEffect, ZenonT(30) DEF BookInv, BookTypes
  <2>2. /\ task'[d] = t /\ record'[d] = q
        /\ \A e \in Deployments : e # d => task'[e] = task[e] /\ record'[e] = record[e]
    BY <1>a, <2>1
  <2>3. Loading' \subseteq Loading
    BY <2>1, <2>2 DEF Loading
  <2>4. Apart(Loading')
    BY <2>3 DEF Marked, Apart
  <2>5. ctl # "stopped"
    BY <2>1 DEF Marked
  <2>6. ctl = "running" => \A e \in Deployments : record'[e].loading <=> task'[e].pc # "none"
    BY <2>1, <2>2 DEF Marked, Running
  <2>7. ctl = "stopping" => \A e \in Deployments : task'[e].pc # "none" => record'[e].loading
    BY <2>1, <2>2 DEF Marked, Running
  <2> QED
    BY <2>1, <2>4, <2>5, <2>6, <2>7 DEF Marked, Running, Apart
<1> QED
  BY <1>1, <1>2, <1>3, <1>4, <1>5, <1>6, <1>7, ControlSteps

\* The invariant holds from the first pass to the last.
THEOREM PlacementInvariant ==
    HealthAssumption /\ PlacementAssumption /\ PlacementSpec => []PlacementInv
<1> SUFFICES ASSUME HealthAssumption, PlacementAssumption
             PROVE  PlacementSpec => []PlacementInv
  OBVIOUS
<1>1. PlacementInit => PlacementInv
  <2> SUFFICES ASSUME PlacementInit PROVE PlacementInv
    OBVIOUS
  <2>1. BookInv
    <3>1. Init
      BY DEF PlacementInit
    <3>2. BookTypes
      BY <3>1, TypesInit
    <3>3. Paced /\ Grounded
      BY <3>1 DEF Init, Asleep, Paced, Grounded, Available, HealthAssumption
    <3> QED
      BY <3>2, <3>3 DEF BookInv
  <2>2. NoTask \in TaskType /\ NoTask.pc = "none" /\ NoRecord \in RecordType /\ ~NoRecord.loading
    <3>1. 0 \in 0..MaxPolls
      BY DEF PlacementAssumption
    <3>2. Failure \in Outcome
      BY DEF Failure, Outcome, Served
    <3> QED
      BY <3>1, <3>2 DEF NoTask, TaskType, NoRecord, RecordType
  <2>3. ControlTypes
    <3>1. /\ ctl = "running" /\ pass = NoPass /\ failures = 0
          /\ record = [d \in Deployments |-> NoRecord] /\ task = [d \in Deployments |-> NoTask]
          /\ job = [d \in Deployments |-> "none"] /\ said = [n \in Nodes |-> NoModel]
      BY DEF PlacementInit
    <3>2. record \in [Deployments -> RecordType] /\ task \in [Deployments -> TaskType]
      BY <2>2, <3>1, ZenonT(30)
    <3>3. "none" \in JobType /\ NoModel \in Served /\ 0 \in 0..MaxFailures
      BY DEF JobType, Served, PlacementAssumption
    <3>4. job \in [Deployments -> JobType] /\ said \in [Nodes -> Served]
      BY <3>1, <3>3
    <3> QED
      BY <3>1, <3>2, <3>3, <3>4 DEF ControlTypes
  <2>4. Confirming
    BY <2>2 DEF PlacementInit, Confirming, Confirms
  <2>5. Marked
    BY <2>2 DEF PlacementInit, Marked, Apart, Loading, Running
  <2> QED
    BY <2>1, <2>3, <2>4, <2>5 DEF PlacementInv
<1>2. PlacementInv /\ [PlacementNext]_allVars => PlacementInv'
  <2>1. ASSUME PlacementInv, PlacementNext PROVE PlacementInv'
    BY <2>1, BookKept, ControlTypesStep, ConfirmingStep, MarkedStep DEF PlacementInv
  <2>2. ASSUME PlacementInv, UNCHANGED allVars PROVE PlacementInv'
    <3>1. UNCHANGED <<real, changes, lost, nodes, seen, monitor, serving, request, ctl, pass,
                      record, task, job, failures, said>>
      BY <2>2 DEF allVars, vars, nodeVars, bookVars, ctlVars
    <3>2. BookInv'
      BY <2>2, <3>1, ZenonT(30)
         DEF PlacementInv, BookInv, BookTypes, TypeOK, Paced, Grounded, Available,
             Filed
    <3>3. ControlTypes' /\ Confirming' /\ Marked'
      BY <2>2, <3>1, ZenonT(30)
         DEF PlacementInv, ControlTypes, Confirming, Marked, Loading, Running
    <3> QED
      BY <3>2, <3>3 DEF PlacementInv
  <2> QED
    BY <2>1, <2>2
<1>3. QED
  BY <1>1, <1>2, PTL DEF PlacementSpec

\* Every variable of the controller and of the book it shares stays in its type.
THEOREM PlacementTypes ==
    HealthAssumption /\ PlacementAssumption /\ PlacementSpec => []PlacementTypeOK
<1> SUFFICES ASSUME HealthAssumption, PlacementAssumption
             PROVE  PlacementSpec => []PlacementTypeOK
  OBVIOUS
<1>1. PlacementInv => PlacementTypeOK
  BY ZenonT(30)
     DEF PlacementInv, BookInv, BookTypes, ControlTypes, PlacementTypeOK, TaskType,
         RecordType, JobType
<1>2. QED
  BY <1>1, PlacementInvariant, PTL

\* However many routes want a node and however old the health a pass was
\* planned from, a node never has two loads in progress, and the loads marked
\* are the loads that run (plan's claimed nodes, PlacementBook).
THEOREM OneLoadPerNodeHolds ==
    HealthAssumption /\ PlacementAssumption /\ PlacementSpec => []OneLoadPerNode
<1> SUFFICES ASSUME HealthAssumption, PlacementAssumption
             PROVE  PlacementSpec => []OneLoadPerNode
  OBVIOUS
<1>1. PlacementInv => OneLoadPerNode
  <2> SUFFICES ASSUME PlacementInv PROVE OneLoadPerNode
    OBVIOUS
  <2>1. \A d \in Deployments : Running(d) => d \in Loading
    BY DEF PlacementInv, ControlTypes, Marked, Loading
  <2> QED
    BY <2>1 DEF PlacementInv, Marked, Apart, OneLoadPerNode
<1>2. QED
  BY <1>1, PlacementInvariant, PTL

\* A load that ends as a success ends with its deployment available to
\* requests, whatever the node's job said (controller.rs, step 4).
THEOREM SuccessIsAvailableHolds ==
    HealthAssumption /\ PlacementAssumption /\ PlacementSpec => [][SuccessStep]_allVars
<1> SUFFICES ASSUME HealthAssumption, PlacementAssumption
             PROVE  PlacementSpec => [][SuccessStep]_allVars
  OBVIOUS
<1>1. ASSUME PlacementInv, PlacementNext PROVE SuccessStep
  <2> SUFFICES ASSUME NEW d \in Deployments, record[d].loading, ~record'[d].loading,
                      ~record'[d].waiting, ctl = "running"
               PROVE  Available(d, nodes)
    BY DEF SuccessStep
  <2>a. record \in [Deployments -> RecordType] /\ task \in [Deployments -> TaskType]
    BY <1>1 DEF PlacementInv, ControlTypes
  <2>1. ~UNCHANGED record
    OBVIOUS
  <2>2. ~ObserveHealth /\ ~Stop /\ ~Stopped
    BY <2>1 DEF ObserveHealth, Stop, Stopped
  <2>3. ~StartLoads
    BY <2>a DEF StartLoads, RecordType
  <2>4. \A e \in Deployments : ~BackoffPasses(e)
    BY <2>a DEF BackoffPasses, RecordType
  <2>5. PICK e \in Deployments : TaskStep(e) \/ LoadTimeout(e)
    BY <1>1, <2>1, <2>2, <2>3, <2>4, ControlSteps
  <2>6. PICK t \in TaskType, q \in RecordType :
              /\ record' = [record EXCEPT ![e] = q]
              /\ \/ q = record[e]
                 \/ q.waiting \/ Available(e, nodes)
    BY <1>1, <2>5, TaskEffect, ZenonT(30) DEF PlacementInv, BookInv, BookTypes
  <2>7. e = d /\ record'[d] = q
    BY <2>a, <2>6
  <2> QED
    BY <2>6, <2>7
<1>2. PlacementInv /\ [PlacementNext]_allVars => [SuccessStep]_allVars
  BY <1>1
<1>3. QED
  BY <1>2, PlacementInvariant, PTL DEF PlacementSpec

\* With the controller probing and recording beside the monitor, what requests
\* find available has still always been observed (record's order of locks).
THEOREM AvailableIsObserved ==
    HealthAssumption /\ PlacementAssumption /\ PlacementSpec
       => [](\A d \in Deployments : Available(d, nodes) => d \in seen)
<1> SUFFICES ASSUME HealthAssumption, PlacementAssumption
             PROVE  PlacementSpec => [](\A d \in Deployments : Available(d, nodes) => d \in seen)
  OBVIOUS
<1>1. PlacementInv => \A d \in Deployments : Available(d, nodes) => d \in seen
  BY DEF PlacementInv, BookInv, Grounded
<1>2. QED
  BY <1>1, PlacementInvariant, PTL
=============================================================================

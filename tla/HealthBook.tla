----------------------------- MODULE HealthBook -----------------------------
(***************************************************************************)
(* What the router believes about its nodes                                *)
(* (crates/lightweight-router/src/health.rs, and the parts of proxy.rs     *)
(* that read the book and report to it).                                   *)
(*                                                                         *)
(* The monitor probes every enabled node at once, waits for all of them,   *)
(* and only then records what it found.  Recording takes two locks, one    *)
(* after the other: the observation is filed under the deployments it is   *)
(* about, and then the node's status is changed.  A request reads the two  *)
(* halves in two steps as well, is sent to a deployment that looked        *)
(* available, and reports what the node answered some time later.  The     *)
(* nodes crash, restart and swap models whenever they like.                *)
(***************************************************************************)
EXTENDS Naturals, Sequences

CONSTANTS NodeOrder,     \* the nodes in configured order, all enabled
          Deployments,   \* configured deployments
          NodeOf,        \* [Deployments -> nodes]
          RemoteModel,   \* [Deployments -> Models]: the model each one names
          Models,        \* models a node may serve
          Requests,      \* client requests
          Threshold,     \* failure_threshold
          InitialNodes,  \* states the nodes may start in
          MaxChanges,    \* bound on what happens to the nodes
          MaxLost        \* bound on probes and requests lost by the network

Nodes == {NodeOrder[i] : i \in DOMAIN NodeOrder}


VARIABLES real,      \* the nodes themselves
          changes,   \* what has happened to them so far
          lost,      \* what the network has lost so far
          nodes,     \* HealthBook.nodes
          seen,      \* HealthBook.deployments: those ever observed
          monitor,   \* the health monitor
          serving,   \* the first round is over and requests are accepted
          request    \* the requests

bookVars == <<nodes, seen>>
nodeVars == <<real, changes, lost>>
vars == <<nodeVars, bookVars, monitor, serving, request>>

NoModel == "no model"
Served == Models \cup {NoModel}
Down == [up |-> FALSE, model |-> NoModel]

\* What a probe returns: Success(observation) or Failure(reason).
Success(model) == [ok |-> TRUE, model |-> model]
Failure == [ok |-> FALSE, model |-> NoModel]
Outcome == [ok : BOOLEAN, model : Served]

NodeStatus == [health : {"unknown", "healthy", "unhealthy"},
               failures : 0..Threshold, served : Served]

\* A configured list of nodes and deployments; a node that serves no model is
\* told from one that does.
HealthAssumption ==
    /\ Threshold \in Nat \ {0} /\ MaxChanges \in Nat /\ MaxLost \in Nat
    /\ NodeOrder \in Seq(Nodes)
    /\ NodeOf \in [Deployments -> Nodes]
    /\ RemoteModel \in [Deployments -> Models]
    /\ NoModel \notin Models
    /\ InitialNodes \subseteq [up : BOOLEAN, model : Served]

-----------------------------------------------------------------------------
(* The book. *)

\* Mutant of Apply: only a node that was not healthy has its model noted.
ApplyNotingOnce(status, outcome) ==
    IF outcome.ok
    THEN [health |-> "healthy", failures |-> 0,
          served |-> IF status.health = "healthy" /\ status.served # NoModel
                     THEN status.served ELSE outcome.model]
    ELSE LET count == IF status.failures < Threshold
                      THEN status.failures + 1 ELSE status.failures
         IN  [status EXCEPT !.failures = count,
                 !.health = IF count >= Threshold THEN "unhealthy" ELSE @]

\* apply.  The count saturates far above the threshold in the code; nothing
\* but the threshold reads it, and here it stops there.
Apply(status, outcome) ==
    IF outcome.ok
    THEN [health |-> "healthy", failures |-> 0, served |-> outcome.model]
    ELSE LET count == IF status.failures < Threshold
                      THEN status.failures + 1 ELSE status.failures
         IN  [status EXCEPT !.failures = count,
                 !.health = IF count >= Threshold THEN "unhealthy" ELSE @]

\* availability, of an enabled node (names compare ignoring case: one model
\* value is one name).
Available(d, book) ==
    /\ book[NodeOf[d]].health = "healthy"
    /\ book[NodeOf[d]].served = RemoteModel[d]

\* observe_deployments: under those whose model the node said it serves.
Filed(n, outcome) ==
    seen \cup {d \in Deployments :
                  /\ outcome.ok
                  /\ NodeOf[d] = n
                  /\ RemoteModel[d] = outcome.model}

\* HealthBook::record, its two critical sections.
RecordFiling(n, outcome) == seen' = Filed(n, outcome) /\ UNCHANGED nodes
RecordStatus(n, outcome) ==
    nodes' = [nodes EXCEPT ![n] = Apply(@, outcome)] /\ UNCHANGED seen

\* forget_model.
Forgotten(n) == [nodes EXCEPT ![n].served = NoModel]

-----------------------------------------------------------------------------
(* The nodes and the network. *)

\* A node that answers says what it serves, unless the network loses it.
Reply(n) == IF real[n].up THEN Success(real[n].model) ELSE Failure

Change(n, to) ==
    /\ changes < MaxChanges
    /\ real[n] # to
    /\ real' = [real EXCEPT ![n] = to]
    /\ changes' = changes + 1
    /\ UNCHANGED <<lost, bookVars, monitor, serving, request>>

Crash(n) == Change(n, Down)
Restart(n) == ~real[n].up /\ Change(n, [up |-> TRUE, model |-> NoModel])
OperatorLoads(n, m) == real[n].up /\ Change(n, [up |-> TRUE, model |-> m])
OperatorUnloads(n) == real[n].up /\ Change(n, [up |-> TRUE, model |-> NoModel])

-----------------------------------------------------------------------------
(* The monitor: probe_all over and over.  `queue` holds the results that    *)
(* are not recorded yet, in the order of the nodes.                        *)

\* The interval has passed.
StartRound ==
    /\ monitor.pc = "asleep"
    /\ monitor' = [monitor EXCEPT !.pc = "probing"]
    /\ UNCHANGED <<nodeVars, bookVars, serving, request>>

Probed(n, outcome) ==
    /\ monitor.pc = "probing"
    /\ n \in monitor.unprobed
    /\ monitor' = [monitor EXCEPT !.unprobed = @ \ {n},
                                  !.found[n] = outcome]
    /\ UNCHANGED <<real, changes, bookVars, serving, request>>

\* probe: the node answers or refuses the connection ...
Probe(n) == Probed(n, Reply(n)) /\ UNCHANGED lost

\* ... or nothing comes back before the timeout.
ProbeLost(n) == lost < MaxLost /\ Probed(n, Failure) /\ lost' = lost + 1

\* join_all has every result.
JoinAll ==
    /\ monitor.pc = "probing"
    /\ monitor.unprobed = {}
    /\ monitor' = [monitor EXCEPT !.pc = "recording", !.queue = NodeOrder]
    /\ UNCHANGED <<nodeVars, bookVars, serving, request>>

\* record, first half, of the next result.
FileNext ==
    /\ monitor.pc = "recording"
    /\ monitor.queue # <<>>
    /\ ~monitor.filed
    /\ RecordFiling(Head(monitor.queue), monitor.found[Head(monitor.queue)])
    /\ monitor' = [monitor EXCEPT !.filed = TRUE]
    /\ UNCHANGED <<nodeVars, serving, request>>

\* record, second half.
StatusNext ==
    /\ monitor.pc = "recording"
    /\ monitor.filed
    /\ RecordStatus(Head(monitor.queue), monitor.found[Head(monitor.queue)])
    /\ monitor' = [monitor EXCEPT !.filed = FALSE, !.queue = Tail(@)]
    /\ UNCHANGED <<nodeVars, serving, request>>

Asleep == [pc |-> "asleep", unprobed |-> Nodes, filed |-> FALSE,
           found |-> [n \in Nodes |-> Failure], queue |-> <<>>]

\* Mutant of EndRound: the first round is the only one.
EndRoundForGood ==
    /\ monitor.pc = "recording"
    /\ monitor.queue = <<>>
    /\ monitor' = [Asleep EXCEPT !.pc = "over"]
    /\ serving' = TRUE
    /\ UNCHANGED <<nodeVars, bookVars, request>>

\* The first round is probe_now, before any listener is served.
EndRound ==
    /\ monitor.pc = "recording"
    /\ monitor.queue = <<>>
    /\ monitor' = Asleep
    /\ serving' = TRUE
    /\ UNCHANGED <<nodeVars, bookVars, request>>

-----------------------------------------------------------------------------
(* Requests. *)

NoDeployment == "no deployment"
Idle == [pc |-> "idle", observed |-> {}, on |-> NoDeployment,
         answer |-> "none"]

SetRequest(r, to) ==
    request' = [request EXCEPT ![r] = to] /\ UNCHANGED <<monitor, serving>>

\* attempt_route reads deployment_snapshot ...
ReadObservations(r) ==
    /\ serving
    /\ request[r].pc = "idle"
    /\ SetRequest(r, [Idle EXCEPT !.pc = "planning", !.observed = seen])
    /\ UNCHANGED <<nodeVars, bookVars>>

\* ... and then health.snapshot, and plans with the two: any deployment that
\* is available and observed.
Plan(r, d) ==
    /\ request[r].pc = "planning"
    /\ Available(d, nodes)
    /\ d \in request[r].observed
    /\ SetRequest(r, [request[r] EXCEPT !.pc = "sent", !.on = d])
    /\ UNCHANGED <<nodeVars, bookVars>>

\* Nothing to send it to.
Refuse(r) ==
    /\ request[r].pc = "planning"
    /\ \A d \in Deployments : ~(Available(d, nodes) /\ d \in request[r].observed)
    /\ SetRequest(r, Idle)
    /\ UNCHANGED <<nodeVars, bookVars>>

Answer(r, answer) ==
    /\ request[r].pc = "sent"
    /\ SetRequest(r, [request[r] EXCEPT !.pc = "answered", !.answer = answer])
    /\ UNCHANGED <<real, changes, bookVars>>

\* The node answers, answers 404 model_not_found, or cannot be reached.
NodeAnswers(r) ==
    /\ LET node == real[NodeOf[request[r].on]]
       IN  Answer(r, CASE ~node.up -> "unreachable"
                       [] node.model = RemoteModel[request[r].on] -> "served"
                       [] OTHER -> "model_not_found")
    /\ UNCHANGED lost

RequestLost(r) ==
    lost < MaxLost /\ Answer(r, "unreachable") /\ lost' = lost + 1

\* attempt_one, what it tells the book.
Report(r) ==
    /\ request[r].pc = "answered"
    /\ LET n == NodeOf[request[r].on]
       IN  nodes' = CASE request[r].answer = "unreachable" ->
                            [nodes EXCEPT ![n] = Apply(@, Failure)]
                      [] request[r].answer = "model_not_found" -> Forgotten(n)
                      [] OTHER -> nodes
    /\ SetRequest(r, Idle)
    /\ UNCHANGED <<nodeVars, seen>>

-----------------------------------------------------------------------------

\* HealthBook::new, before the first round, over nodes in any state
\* of InitialNodes.
Init ==
    /\ real \in [Nodes -> InitialNodes]
    /\ changes = 0
    /\ lost = 0
    /\ nodes = [n \in Nodes |-> [health |-> "unknown", failures |-> 0,
                                 served |-> NoModel]]
    /\ seen = {}
    /\ monitor = Asleep
    /\ serving = FALSE
    /\ request = [r \in Requests |-> Idle]

Environment ==
    \E n \in Nodes : \/ Crash(n) \/ Restart(n) \/ OperatorUnloads(n)
                     \/ \E m \in Models : OperatorLoads(n, m)

Monitor ==
    \/ StartRound \/ JoinAll \/ FileNext \/ StatusNext \/ EndRound
    \/ \E n \in Nodes : Probe(n)

Request(r) ==
    \/ Refuse(r) \/ NodeAnswers(r) \/ Report(r)
    \/ \E d \in Deployments : Plan(r, d)

Next ==
    \/ Environment
    \/ Monitor
    \/ \E n \in Nodes : ProbeLost(n)
    \/ \E r \in Requests :
          ReadObservations(r) \/ RequestLost(r) \/ Request(r)

Spec == Init /\ [][Next]_vars

\* The monitor's loop never ends and a probe has a timeout; a request that
\* is being planned or sent goes on.  Nothing makes a client send one.
Fairness ==
    /\ WF_vars(Monitor)
    /\ \A r \in Requests : WF_vars(Request(r))

-----------------------------------------------------------------------------
(* Properties. *)

\* Every variable stays in its type.
TypeOK ==
    /\ real \in [Nodes -> [up : BOOLEAN, model : Served]]
    /\ changes \in 0..MaxChanges
    /\ lost \in 0..MaxLost
    /\ nodes \in [Nodes -> NodeStatus]
    /\ seen \subseteq Deployments
    /\ monitor \in [pc : {"asleep", "probing", "recording"},
                    unprobed : SUBSET Nodes, filed : BOOLEAN,
                    found : [Nodes -> Outcome], queue : Seq(Nodes)]
    /\ request \in [Requests ->
                       [pc : {"idle", "planning", "sent", "answered"},
                        observed : SUBSET Deployments,
                        on : Deployments \cup {NoDeployment},
                        answer : {"none", "served", "model_not_found",
                                  "unreachable"}]]
    /\ serving \in BOOLEAN

\* What a node in its last state should look like in the book.
Agrees(n) ==
    IF real[n].up
    THEN nodes[n].health = "healthy" /\ nodes[n].served = real[n].model
    ELSE nodes[n].health = "unhealthy"

\* Once the nodes and the network settle, the book comes to agree with every
\* node and stays so, whatever stale probes, failures and refusals were still
\* to be recorded.
BookConverges == \A n \in Nodes : <>[]Agrees(n)
=============================================================================

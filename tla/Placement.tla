------------------------------ MODULE Placement ------------------------------
(***************************************************************************)
(* The placement controller beside the router                              *)
(* (crates/lightweight-router/src/placement.rs and controller.rs), over    *)
(* the health book it shares with the monitor and the requests.            *)
(*                                                                         *)
(* A pass reads the health book, then the loads in progress, compares each *)
(* route with its target and starts a task per load.  A task asks the node *)
(* for its catalog, posts the load, polls the job, and then probes the     *)
(* node itself until the deployment is available.  The node and its jobs   *)
(* are external: a load it accepts first lets go of the model it serves.   *)
(***************************************************************************)
EXTENDS HealthBook, FiniteSets, Functions

CONSTANTS RouteOrder,    \* routes with a target, in configured order
          RouteDeps,     \* [routes -> sequence of deployments]
          Target,        \* [routes -> min_ready + warm_standby]
          Allowed,       \* deployments on an allowed node of their route
          Installed,     \* deployments whose model is in the node's catalog
          Stops,         \* whether the router may be stopped
          MaxPolls,      \* probes a load has time for
          MaxFailures    \* bound on loads that fail or time out by chance

Routes == Range(RouteOrder)

\* The configuration: routes with the deployments and the number they want
\* ready; a load has time for one probe at least.
PlacementAssumption ==
    /\ RouteOrder \in Seq(Routes)
    /\ \A r \in Routes : RouteDeps[r] \in Seq(Deployments) /\ Target[r] \in Nat
    /\ Allowed \subseteq Deployments
    /\ MaxPolls \in Nat \ {0} /\ MaxFailures \in Nat

VARIABLES ctl,       \* the controller's loop
          pass,      \* the health snapshot of the pass being planned
          record,    \* PlacementBook.records
          task,      \* the load tasks
          job,       \* the jobs of the nodes, per deployment
          failures,  \* loads that failed by chance so far
          said       \* for the properties: what each node last said it serves

ctlVars == <<ctl, pass, record, task, job, failures>>
bookOnly == <<nodeVars, monitor, serving, request>>
allVars == <<vars, ctlVars, said>>

NoPass == <<>>
NoRecord == [loading |-> FALSE, waiting |-> FALSE]
NoTask == [pc |-> "none", found |-> Failure, polls |-> 0]

Running(d) == task[d].pc # "none"
Loading == {d \in Deployments : record[d].loading}

-----------------------------------------------------------------------------
(* Planning. *)

\* assess, one deployment: ready before loading before empty.
State(d, health, loading) ==
    LET status == health[NodeOf[d]]
    IN  CASE Available(d, health) -> "ready"
          [] ~Available(d, health) /\ d \in loading -> "loading"
          [] ~Available(d, health) /\ d \notin loading
                /\ status.health = "healthy" ->
                   IF status.served = NoModel THEN "empty" ELSE "occupied"
          [] OTHER -> "unavailable"

Count(r, state, health, loading) ==
    Cardinality({d \in Range(RouteDeps[r]) : State(d, health, loading) = state})

\* Assessment::shortfall.
Shortfall(r, health, loading) ==
    LET have == Count(r, "ready", health, loading)
                  + Count(r, "loading", health, loading)
    IN  IF have >= Target[r] THEN 0 ELSE Target[r] - have

\* Mutant of MayLoad: a node that is loading takes another.
MayLoadUnclaimed(d, health, loading, claimed) ==
    /\ d \in Allowed
    /\ State(d, health, loading) = "empty"
    /\ ~record[d].waiting

\* Mutant of MayLoad: only a route's first deployment is ever loaded.
MayLoadFirst(d, health, loading, claimed) ==
    /\ d \in Allowed
    /\ State(d, health, loading) = "empty"
    /\ ~record[d].waiting
    /\ NodeOf[d] \notin claimed
    /\ \E r \in Routes : d = RouteDeps[r][1]

\* plan's test of one deployment.
MayLoad(d, health, loading, claimed) ==
    /\ d \in Allowed
    /\ State(d, health, loading) = "empty"
    /\ ~record[d].waiting
    /\ NodeOf[d] \notin claimed

\* plan, one route: its deployments in order, as many as it is short of.
PlanRoute(chosen, r, health, loading) ==
    LET Choose(acc, d) ==
            LET claimed == {NodeOf[e] : e \in loading \cup acc.chosen}
            IN  IF acc.wanted > 0 /\ MayLoad(d, health, loading, claimed)
                THEN [chosen |-> acc.chosen \cup {d}, wanted |-> acc.wanted - 1]
                ELSE acc
        after[i \in 0..Len(RouteDeps[r])] ==
            IF i = 0
            THEN [chosen |-> chosen, wanted |-> Shortfall(r, health, loading)]
            ELSE Choose(after[i - 1], RouteDeps[r][i])
    IN  after[Len(RouteDeps[r])].chosen

\* plan: every route with a target, in order.
PlanLoads(health, loading) ==
    LET after[i \in 0..Len(RouteOrder)] ==
            IF i = 0 THEN {}
            ELSE PlanRoute(after[i - 1], RouteOrder[i], health, loading)
    IN  after[Len(RouteOrder)]

-----------------------------------------------------------------------------
(* The loop. *)

\* A tick, a wake or a finished load, after the first round of probes;
\* reconcile takes health.snapshot ...
ObserveHealth ==
    /\ serving
    /\ ctl = "running"
    /\ pass = NoPass
    /\ pass' = nodes
    /\ UNCHANGED <<vars, ctl, record, task, job, failures, said>>

\* ... and then placement.loading, plans, and begins and spawns each load.
StartLoads ==
    /\ pass # NoPass
    /\ LET chosen == PlanLoads(pass, Loading) \ Loading
       IN  /\ record' = [d \in Deployments |->
                            IF d \in chosen THEN [record[d] EXCEPT !.loading = TRUE]
                                            ELSE record[d]]
           /\ task' = [d \in Deployments |->
                          IF d \in chosen THEN [NoTask EXCEPT !.pc = "catalog"]
                                          ELSE task[d]]
    /\ pass' = NoPass
    /\ UNCHANGED <<vars, ctl, job, failures, said>>

\* stop.cancelled: no more passes, and every task is aborted ...
Stop ==
    /\ Stops
    /\ ctl = "running"
    /\ pass = NoPass
    /\ ctl' = "stopping"
    /\ UNCHANGED <<vars, pass, record, task, job, failures, said>>

\* ... where it awaits, and leaves its record as it is.
Abort(d) ==
    /\ ctl = "stopping"
    /\ task[d].pc \in {"catalog", "post", "job", "probe"}
    /\ task' = [task EXCEPT ![d] = NoTask]
    /\ UNCHANGED <<vars, ctl, pass, record, job, failures, said>>

\* All joined: abandon what is still marked as loading.
Stopped ==
    /\ ctl = "stopping"
    /\ \A d \in Deployments : ~Running(d)
    /\ ctl' = "stopped"
    /\ record' = [d \in Deployments |-> [record[d] EXCEPT !.loading = FALSE]]
    /\ UNCHANGED <<vars, pass, task, job, failures, said>>

\* The backoff of a deployment has passed.
BackoffPasses(d) ==
    /\ record[d].waiting
    /\ record' = [record EXCEPT ![d].waiting = FALSE]
    /\ UNCHANGED <<vars, ctl, pass, task, job, failures, said>>

-----------------------------------------------------------------------------
(* One load. *)

\* PlacementBook::failed.
Fail(d) ==
    /\ task' = [task EXCEPT ![d] = NoTask]
    /\ record' = [record EXCEPT ![d] = [loading |-> FALSE, waiting |-> TRUE]]

\* PlacementBook::succeeded.
Succeed(d) ==
    /\ task' = [task EXCEPT ![d] = NoTask]
    /\ record' = [record EXCEPT ![d] = NoRecord]

Goto(d, pc) ==
    task' = [task EXCEPT ![d].pc = pc] /\ UNCHANGED record

Node(d) == real[NodeOf[d]]
Busy(n) == \E d \in Deployments :
               NodeOf[d] = n /\ job[d] \in {"accepted", "empty"}

\* attempt, step 1: the node's catalog.
ReadCatalog(d) ==
    /\ task[d].pc = "catalog"
    /\ IF ~Node(d).up \/ d \notin Installed
       THEN Fail(d)
       ELSE Goto(d, IF Node(d).model = RemoteModel[d] THEN "probe" ELSE "post")
    /\ UNCHANGED <<vars, ctl, pass, job, failures, said>>

\* start_load: the node accepts it, refuses because it is busy, or is gone.
PostLoad(d) ==
    /\ task[d].pc = "post"
    /\ IF ~Node(d).up \/ Busy(NodeOf[d])
       THEN Fail(d) /\ UNCHANGED job
       ELSE Goto(d, "job") /\ job' = [job EXCEPT ![d] = "accepted"]
    /\ UNCHANGED <<vars, ctl, pass, failures, said>>

\* wait_for_job: one poll.
PollJob(d) ==
    /\ task[d].pc = "job"
    /\ ~Node(d).up \/ job[d] \in {"none", "failed", "succeeded"}
    /\ IF Node(d).up /\ job[d] = "succeeded" THEN Goto(d, "probe") ELSE Fail(d)
    /\ UNCHANGED <<vars, ctl, pass, job, failures, said>>

\* attempt, step 4: the probe ...
ConfirmProbe(d) ==
    /\ task[d].pc = "probe"
    /\ task' = [task EXCEPT ![d] = [pc |-> "file", found |-> Reply(NodeOf[d]),
                                    polls |-> @.polls + 1]]
    /\ UNCHANGED <<vars, ctl, pass, record, job, failures, said>>

\* ... its two halves of record ...
ConfirmFile(d) ==
    /\ task[d].pc = "file"
    /\ RecordFiling(NodeOf[d], task[d].found)
    /\ task' = [task EXCEPT ![d].pc = "status"]
    /\ UNCHANGED <<bookOnly, ctl, pass, record, job, failures, said>>

Heard(n, outcome) == IF outcome.ok THEN [said EXCEPT ![n] = outcome.model] ELSE said

ConfirmStatus(d) ==
    /\ task[d].pc = "status"
    /\ RecordStatus(NodeOf[d], task[d].found)
    /\ said' = Heard(NodeOf[d], task[d].found)
    /\ task' = [task EXCEPT ![d].pc = "check"]
    /\ UNCHANGED <<bookOnly, ctl, pass, record, job, failures>>

\* Mutant of ConfirmCheck: the job's word is taken for it.
ConfirmCheckTrusting(d) ==
    /\ task[d].pc = "check"
    /\ Succeed(d)
    /\ UNCHANGED <<vars, ctl, pass, job, failures, said>>

\* ... and the request path's own rule, on the status read back: done, or
\* probed again after a pause, until the deadline is too near.
ConfirmCheck(d) ==
    /\ task[d].pc = "check"
    /\ CASE Available(d, nodes) -> Succeed(d)
         [] ~Available(d, nodes) /\ task[d].polls >= MaxPolls -> Fail(d)
         [] OTHER -> Goto(d, "probe")
    /\ UNCHANGED <<vars, ctl, pass, job, failures, said>>

\* load_timeout passed while the task waited.
LoadTimeout(d) ==
    /\ failures < MaxFailures
    /\ task[d].pc \in {"catalog", "post", "job", "probe"}
    /\ failures' = failures + 1
    /\ Fail(d)
    /\ UNCHANGED <<vars, ctl, pass, job, said>>

-----------------------------------------------------------------------------
(* The node's side of a load. *)

SetNode(n, model) ==
    /\ real' = [real EXCEPT ![n].model = model]
    /\ UNCHANGED <<changes, lost, bookVars, monitor, serving, request>>

JobLetsGo(d) ==
    /\ job[d] = "accepted"
    /\ Node(d).up
    /\ job' = [job EXCEPT ![d] = "empty"]
    /\ SetNode(NodeOf[d], NoModel)
    /\ UNCHANGED <<ctl, pass, record, task, failures, said>>

JobSucceeds(d) ==
    /\ job[d] = "empty"
    /\ Node(d).up
    /\ job' = [job EXCEPT ![d] = "succeeded"]
    /\ SetNode(NodeOf[d], RemoteModel[d])
    /\ UNCHANGED <<ctl, pass, record, task, failures, said>>

\* Refused by admission, or the engine did not start.
JobFails(d) ==
    /\ failures < MaxFailures
    /\ job[d] \in {"accepted", "empty"}
    /\ job' = [job EXCEPT ![d] = "failed"]
    /\ failures' = failures + 1
    /\ UNCHANGED <<vars, ctl, pass, record, task, said>>

\* A node that is gone, or that was told to serve something else, has
\* forgotten its jobs.
Surviving ==
    [d \in Deployments |-> IF real'[NodeOf[d]] = real[NodeOf[d]]
                           THEN job[d] ELSE "none"]

-----------------------------------------------------------------------------

PlacementInit ==
    /\ Init
    /\ ctl = "running"
    /\ pass = NoPass
    /\ record = [d \in Deployments |-> NoRecord]
    /\ task = [d \in Deployments |-> NoTask]
    /\ job = [d \in Deployments |-> "none"]
    /\ failures = 0
    /\ said = [n \in Nodes |-> NoModel]

\* The health book's own steps.  A node with a job takes no other operation.
Operator ==
    /\ \E n \in Nodes : \/ Crash(n) \/ Restart(n)
                        \/ ~Busy(n) /\ OperatorUnloads(n)
                        \/ ~Busy(n) /\ \E m \in Models : OperatorLoads(n, m)
    /\ job' = Surviving
    /\ UNCHANGED <<ctl, pass, record, task, failures, said>>

MonitorStep ==
    /\ Monitor
    /\ said' = IF monitor.filed /\ ~monitor'.filed
               THEN Heard(Head(monitor.queue), monitor.found[Head(monitor.queue)])
               ELSE said
    /\ UNCHANGED ctlVars

RequestStep(r) == Request(r) /\ UNCHANGED <<ctlVars, said>>

TaskStep(d) ==
    \/ ReadCatalog(d) \/ PostLoad(d) \/ PollJob(d)
    \/ ConfirmProbe(d) \/ ConfirmFile(d) \/ ConfirmStatus(d) \/ ConfirmCheck(d)
    \/ Abort(d)

JobStep(d) == JobLetsGo(d) \/ JobSucceeds(d)

Loop == ObserveHealth \/ StartLoads \/ Stopped

PlacementNext ==
    \/ Operator
    \/ MonitorStep
    \/ (\E n \in Nodes : ProbeLost(n)) /\ UNCHANGED <<ctlVars, said>>
    \/ \E r \in Requests :
          \/ ReadObservations(r) /\ UNCHANGED <<ctlVars, said>>
          \/ RequestStep(r)
    \/ Loop \/ Stop
    \/ \E d \in Deployments :
          BackoffPasses(d) \/ TaskStep(d) \/ LoadTimeout(d)
             \/ JobStep(d) \/ JobFails(d)

PlacementSpec == PlacementInit /\ [][PlacementNext]_allVars

\* A load, its job on the node and the wait after a failure.
LoadStep(d) == TaskStep(d) \/ JobStep(d) \/ BackoffPasses(d)

\* StartLoads told by what only it does, so that fairness need not plan again.
PassEnds == pass # NoPass /\ pass' = NoPass

\* The loop ticks, the tasks and the node's jobs go on, a backoff ends.
\* Nothing makes a load fail, a client send or anyone stop the router.
PlacementFairness ==
    /\ WF_allVars(MonitorStep)
    /\ WF_allVars(ObserveHealth \/ Stopped)
    /\ WF_pass(PassEnds)
    /\ \A d \in Deployments : WF_allVars(LoadStep(d))

-----------------------------------------------------------------------------
(* Properties. *)

\* Every variable stays in its type.
PlacementTypeOK ==
    /\ TypeOK
    /\ ctl \in {"running", "stopping", "stopped"}
    /\ pass \in [Nodes -> NodeStatus] \cup {NoPass}
    /\ record \in [Deployments -> [loading : BOOLEAN, waiting : BOOLEAN]]
    /\ task \in [Deployments ->
                    [pc : {"none", "catalog", "post", "job", "probe", "file",
                           "status", "check"}, found : Outcome,
                     polls : 0..MaxPolls]]
    /\ job \in [Deployments ->
                   {"none", "accepted", "empty", "succeeded", "failed"}]
    /\ failures \in 0..MaxFailures
    /\ said \in [Nodes -> Served]

\* A node never has two of the controller's loads in progress, across routes
\* and passes, however old the health a pass was planned from (plan's claimed
\* nodes, PlacementBook::begin); and the book marks as loading exactly the
\* loads that run, until the router stops, after which nothing is left marked
\* or running.
OneLoadPerNode ==
    /\ \A d, e \in Deployments :
          Running(d) /\ Running(e) /\ NodeOf[d] = NodeOf[e] => d = e
    /\ ctl = "running" => \A d \in Deployments : record[d].loading <=> Running(d)
    /\ ctl = "stopped" => \A d \in Deployments : ~record[d].loading /\ ~Running(d)

\* A load is counted a success only when the health book, as requests read
\* it, has the deployment available at that moment - never because the node's
\* job returned (controller.rs, step 4).
SuccessStep ==
    \A d \in Deployments :
        record[d].loading /\ ~record'[d].loading /\ ~record'[d].waiting
           /\ ctl = "running"
        => Available(d, nodes)

\* A deployment is chosen only if its node last said it serves nothing
\* (ROUTER.md: "only if its node is healthy and empty").
ChoiceStep ==
    \A d \in Deployments :
        ~Running(d) /\ task'[d].pc = "catalog" => said[NodeOf[d]] = NoModel

\* What the route has ready, as requests see it.
ReadyCount(r) ==
    Cardinality({d \in Range(RouteDeps[r]) : Available(d, nodes)})

AtTarget == \A r \in Routes : ReadyCount(r) >= Target[r]

\* While the router runs (Stops is FALSE), a route with a node left to load on
\* reaches its target and stays there, through lost probes, failed loads,
\* backoffs and one node being taken away.
TargetIsReached == <>[]AtTarget
=============================================================================

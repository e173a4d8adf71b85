---------------------------- MODULE MCPlacement -----------------------------
(***************************************************************************)
(* The placement controller on three small fleets: two routes that want    *)
(* the same node, with a client and an operator; one route on one node,    *)
(* with loads that fail and a router that stops; and one route that can be *)
(* placed on two nodes, one of which is taken away.                        *)
(***************************************************************************)
EXTENDS Naturals, Sequences, TLC

CONSTANTS n1, n2, m1, m2, d1, d2, coder, writer, r1

VARIABLES real, changes, lost, nodes, seen, monitor, serving, request,
          ctl, pass, record, task, job, failures, said

VARIABLE fleet    \* what this behaviour is about

all == <<real, changes, lost, nodes, seen, monitor, serving, request, ctl,
         pass, record, task, job, failures, said>>

Models == {m1, m2}
Deployments == {d1, d2}
Allowed == Deployments
Installed == Deployments
InitialNodes == {[up |-> TRUE, model |-> "no model"]}
Threshold == 1
MaxLost == 0

SharedNodeOf == d1 :> n1 @@ d2 :> n1
SharedModel == d1 :> m1 @@ d2 :> m2
SharedDeps == coder :> <<d1>> @@ writer :> <<d2>>
SharedTarget == coder :> 1 @@ writer :> 1

Shared == INSTANCE Placement WITH
    NodeOrder <- <<n1>>, NodeOf <- SharedNodeOf, RemoteModel <- SharedModel,
    RouteOrder <- <<coder, writer>>, RouteDeps <- SharedDeps,
    Target <- SharedTarget, Requests <- {r1}, MaxChanges <- 1,
    MaxFailures <- 0, MaxPolls <- 2, Stops <- FALSE

Stopping == INSTANCE Placement WITH
    NodeOrder <- <<n1>>, NodeOf <- SharedNodeOf, RemoteModel <- SharedModel,
    RouteOrder <- <<coder>>, RouteDeps <- SharedDeps, Target <- SharedTarget,
    Requests <- {}, MaxChanges <- 1, MaxFailures <- 1, MaxPolls <- 1,
    Stops <- TRUE

Spare == INSTANCE Placement WITH
    NodeOrder <- <<n1, n2>>, NodeOf <- (d1 :> n1 @@ d2 :> n2),
    RemoteModel <- (d1 :> m1 @@ d2 :> m1), RouteOrder <- <<coder>>,
    RouteDeps <- (coder :> <<d1, d2>>), Target <- (coder :> 1),
    Requests <- {}, MaxChanges <- 1, MaxFailures <- 0, MaxPolls <- 2,
    Stops <- FALSE

ASSUME Shared!HealthAssumption /\ Stopping!HealthAssumption /\ Spare!HealthAssumption
ASSUME /\ Shared!PlacementAssumption
       /\ Stopping!PlacementAssumption
       /\ Spare!PlacementAssumption

MCInit ==
    \/ fleet = "shared" /\ Shared!PlacementInit
    \/ fleet = "stopping" /\ Stopping!PlacementInit
    \/ fleet = "spare" /\ Spare!PlacementInit

MCNext ==
    /\ \/ fleet = "shared" /\ Shared!PlacementNext
       \/ fleet = "stopping" /\ Stopping!PlacementNext
       \/ fleet = "spare" /\ Spare!PlacementNext
    /\ UNCHANGED fleet

MonitorStep ==
    \/ fleet = "stopping" /\ Stopping!MonitorStep
    \/ fleet = "spare" /\ Spare!MonitorStep

Loop ==
    \/ fleet = "stopping" /\ (Stopping!ObserveHealth \/ Stopping!Stopped)
    \/ fleet = "spare" /\ Spare!ObserveHealth

LoadStep(d) ==
    \/ fleet = "stopping" /\ Stopping!LoadStep(d)
    \/ fleet = "spare" /\ Spare!LoadStep(d)

\* PlacementFairness, for the fleets whose liveness is checked.
MCSpec ==
    /\ MCInit /\ [][MCNext]_<<all, fleet>>
    /\ WF_all(MonitorStep)
    /\ WF_all(Loop)
    /\ WF_pass(Spare!PassEnds)
    /\ \A d \in Deployments : WF_all(LoadStep(d))

-----------------------------------------------------------------------------
\* Every variable stays in its type, in every fleet.
PlacementTypeOK ==
    CASE fleet = "shared" -> Shared!PlacementTypeOK
      [] fleet = "stopping" -> Stopping!PlacementTypeOK
      [] fleet = "spare" -> Spare!PlacementTypeOK

\* A node never has two of the controller's loads in progress, and the book
\* marks exactly the loads that run.
OneLoadPerNode ==
    CASE fleet = "shared" -> Shared!OneLoadPerNode
      [] fleet = "stopping" -> Stopping!OneLoadPerNode
      [] fleet = "spare" -> Spare!OneLoadPerNode

\* A load succeeds only when the health book has the deployment available.
SuccessIsAvailable ==
    [][CASE fleet = "shared" -> Shared!SuccessStep
         [] fleet = "stopping" -> Stopping!SuccessStep
         [] fleet = "spare" -> Spare!SuccessStep]_all

\* With a node to spare the route reaches its target and stays there.
TargetIsReached == <>[](fleet = "spare" => Spare!AtTarget)

\* A deployment is chosen only if its node last said it serves nothing.
ChosenOnEmptyNode == [][fleet = "shared" => Shared!ChoiceStep]_all
=============================================================================

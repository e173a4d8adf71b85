----------------------------- MODULE Selection ------------------------------
(***************************************************************************)
(* Which deployment a request goes to first                                *)
(* (crates/lightweight-router/src/select.rs and load.rs).                  *)
(*                                                                         *)
(* Several requests plan at once.  Round-robin draws from an atomic        *)
(* cursor; least-busy reads the in-flight counts one after the other and   *)
(* reserves its choice under a lock of the route; a session's deployment   *)
(* goes first without a turn of the policy.  The counts themselves change  *)
(* under every planner: attempts end, fail over to the next candidate, and *)
(* deployments may belong to several routes.                               *)
(***************************************************************************)
EXTENDS Naturals, Sequences, FiniteSets, SequencesExt

CONSTANTS Requests,   \* handlers that may be planning at the same time
          RouteOf,    \* [Requests -> routes]
          Order,      \* [routes -> Seq(deployments)], the configured order
          Policy,     \* [routes -> {"priority", "round_robin", "least_busy"}]
          Limit,      \* [deployments -> Nat]: max_concurrent_requests, 0: not known
          Fit,        \* [Requests -> SUBSET deployments]: what can serve each one
          Sticky,     \* deployments a session may point to, besides none
          MaxPlans,   \* bound on the plans made
          MaxFlaps    \* bound on changes of availability

RouteNames == DOMAIN Order
Deployments == DOMAIN Limit
None == "none"

SelectionAssumption ==
    /\ RouteOf \in [Requests -> RouteNames]
    /\ Order \in [RouteNames -> Seq(Deployments)]
    /\ Limit \in [Deployments -> Nat]
    /\ Fit \in [Requests -> SUBSET Deployments]
    /\ Sticky \subseteq Deployments
    /\ MaxPlans \in Nat /\ MaxFlaps \in Nat

VARIABLES available,  \* the deployments that can take traffic now
          load,       \* LoadBook
          cursor,     \* RouteState.cursor, per route
          lock,       \* RouteState.least_busy: who holds it
          request,    \* the requests
          picks,      \* first choices round-robin made of each deployment
          plans, flaps

vars == <<available, load, cursor, lock, request, picks, plans, flaps>>

\* read: what the loads were when least-busy read them, and of which
\* deployments the request's route had reserved how many slots then.
Idle == [pc |-> "idle", ring |-> <<>>, sticky |-> None, read |-> <<>>, plan |-> <<>>,
         at |-> 0, lease |-> None, first |-> FALSE]

Update(r, fields) == request' = [request EXCEPT ![r] = fields @@ @]

Acquired(d) == [load EXCEPT ![d] = @ + 1]
Released(d) == [load EXCEPT ![d] = @ - 1]

-----------------------------------------------------------------------------
(***************************************************************************)
(* The orders.                                                             *)
(***************************************************************************)
Rotate(ring, n) == SubSeq(ring, n + 1, Len(ring)) \o SubSeq(ring, 1, n)

\* order_round_robin.
RoundRobin(ring, n) == Rotate(ring, n % Len(ring))

\* compare_load: known capacity first, then the lower share of it, without a
\* division; between two unknown capacities the fewer in flight.
Busier(a, b) ==
    IF a.limit > 0 /\ b.limit > 0 THEN a.active * b.limit > b.active * a.limit
    ELSE IF a.limit = 0 /\ b.limit = 0 THEN a.active > b.active
    ELSE a.limit = 0

\* order_least_busy: ties keep the configured order.
LeastBusy(ring, read) ==
    LET before(i, j) == \/ Busier(read[j], read[i])
                        \/ ~Busier(read[i], read[j]) /\ i < j
        at(k) == CHOOSE i \in 1..Len(ring) :
                     Cardinality({j \in 1..Len(ring) \ {i} : before(j, i)}) = k - 1
    IN [k \in 1..Len(ring) |-> ring[at(k)]]

-----------------------------------------------------------------------------
(***************************************************************************)
(* Planning.                                                               *)
(***************************************************************************)
\* eligible and capability::filter, in configured order.
Eligible(r) ==
    SelectSeq(Order[RouteOf[r]], LAMBDA d : d \in available /\ d \in Fit[r])

Index(ring, d) == CHOOSE i \in 1..Len(ring) : ring[i] = d

\* sticky_standing: the session's deployment, if it survived both filters.
Standing(r, d) == IF d \in ToSet(Eligible(r)) THEN d ELSE None

Planned(r, plan) ==
    /\ Update(r, [pc |-> "sent", ring |-> <<>>, read |-> <<>>, plan |-> plan, at |-> 1,
                  lease |-> plan[1], first |-> TRUE])
    /\ load' = Acquired(plan[1])

MayPlan(r) == request[r].pc = "idle" /\ plans < MaxPlans /\ Eligible(r) # <<>>

\* Priority, and every plan that takes no turn of round-robin or least-busy.
PlanPriority(r, d) ==
    /\ MayPlan(r)
    /\ Policy[RouteOf[r]] = "priority"
    /\ LET ring == Eligible(r)
           hit == Standing(r, d)
       IN Planned(r, IF hit = None THEN ring
                     ELSE <<hit>> \o SelectSeq(ring, LAMBDA e : e # hit))
    /\ plans' = plans + 1
    /\ UNCHANGED <<available, cursor, lock, picks, flaps>>

\* Round-robin: one fetch_add per planned request, none for a session's.
PlanRoundRobin(r, d) ==
    /\ MayPlan(r)
    /\ Policy[RouteOf[r]] = "round_robin"
    /\ LET ring == Eligible(r)
           R == RouteOf[r]
           hit == Standing(r, d)
           plan == IF hit = None THEN RoundRobin(ring, cursor[R])
                   ELSE Rotate(ring, Index(ring, hit) - 1)
       IN /\ Planned(r, plan)
          /\ cursor' = IF hit = None THEN [cursor EXCEPT ![R] = @ + 1] ELSE cursor
          /\ picks' = IF hit = None THEN [picks EXCEPT ![plan[1]] = @ + 1] ELSE picks
    /\ plans' = plans + 1
    /\ UNCHANGED <<available, lock, flaps>>

\* Least-busy: the filters first, then the route's lock.  The loads of a
\* session's deployment are not compared.
Filter(r, d) ==
    /\ MayPlan(r)
    /\ Policy[RouteOf[r]] = "least_busy"
    /\ LET hit == Standing(r, d)
       IN Update(r, [pc |-> "waiting", sticky |-> hit,
                     ring |-> SelectSeq(Eligible(r), LAMBDA e : e # hit)])
    /\ plans' = plans + 1
    /\ UNCHANGED <<available, load, cursor, lock, picks, flaps>>

\* A plausible slip: no lock around the reading and the choice.
LockUnheld(r) ==
    /\ request[r].pc = "waiting"
    /\ Update(r, [pc |-> "reading"])
    /\ UNCHANGED <<available, load, cursor, lock, picks, plans, flaps>>

\* The guard of the route.
Lock(r) ==
    /\ request[r].pc = "waiting"
    /\ lock[RouteOf[r]] = None
    /\ lock' = [lock EXCEPT ![RouteOf[r]] = r]
    /\ Update(r, [pc |-> "reading"])
    /\ UNCHANGED <<available, load, cursor, picks, plans, flaps>>

\* Of a deployment, the slots requests of a route reserved when they chose it.
Reserved(R, d) ==
    Cardinality({r \in Requests : RouteOf[r] = R /\ request[r].lease = d /\ request[r].first})

\* loads: one counter after the other.
ReadLoad(r) ==
    /\ request[r].pc = "reading"
    /\ Len(request[r].read) < Len(request[r].ring)
    /\ LET d == request[r].ring[Len(request[r].read) + 1]
       IN Update(r, [read |-> Append(request[r].read,
                      [active |-> load[d], limit |-> Limit[d],
                       reserved |-> Reserved(RouteOf[r], d)])])
    /\ UNCHANGED <<available, load, cursor, lock, picks, plans, flaps>>

\* The choice, its slot, and only then the end of the lock.
Choose(r) ==
    /\ request[r].pc = "reading"
    /\ Len(request[r].read) = Len(request[r].ring)
    /\ LET order == LeastBusy(request[r].ring, request[r].read)
           hit == request[r].sticky
       IN Planned(r, IF hit = None THEN order ELSE <<hit>> \o order)
    /\ lock' = [lock EXCEPT ![RouteOf[r]] = None]
    /\ UNCHANGED <<available, cursor, picks, plans, flaps>>

-----------------------------------------------------------------------------
(***************************************************************************)
(* The walk over the plan, as far as the slots go.                         *)
(***************************************************************************)
\* A pre-commit failure drops the lease.
AttemptFails(r) ==
    /\ request[r].pc = "sent"
    /\ Update(r, [pc |-> "failed", lease |-> None, first |-> FALSE])
    /\ load' = Released(request[r].lease)
    /\ UNCHANGED <<available, cursor, lock, picks, plans, flaps>>

\* The next candidate's slot is taken outside any lock.
FailOver(r) ==
    /\ request[r].pc = "failed"
    /\ IF request[r].at < Len(request[r].plan)
       THEN LET d == request[r].plan[request[r].at + 1]
            IN /\ Update(r, [pc |-> "sent", at |-> request[r].at + 1, lease |-> d])
               /\ load' = Acquired(d)
       ELSE /\ request' = [request EXCEPT ![r] = Idle]
            /\ UNCHANGED load
    /\ UNCHANGED <<available, cursor, lock, picks, plans, flaps>>

\* The answer is over, or its client gone.
End(r) ==
    /\ request[r].pc = "sent"
    /\ request' = [request EXCEPT ![r] = Idle]
    /\ load' = Released(request[r].lease)
    /\ UNCHANGED <<available, cursor, lock, picks, plans, flaps>>

Flap(d) ==
    /\ flaps < MaxFlaps
    /\ flaps' = flaps + 1
    /\ available' = IF d \in available THEN available \ {d} ELSE available \cup {d}
    /\ UNCHANGED <<load, cursor, lock, request, picks, plans>>

Init ==
    /\ available = Deployments
    /\ load = [d \in Deployments |-> 0]
    /\ cursor = [R \in RouteNames |-> 0]
    /\ lock = [R \in RouteNames |-> None]
    /\ request = [r \in Requests |-> Idle]
    /\ picks = [d \in Deployments |-> 0]
    /\ plans = 0 /\ flaps = 0

Step(r) ==
    \/ \E d \in Sticky \cup {None} : PlanPriority(r, d) \/ PlanRoundRobin(r, d) \/ Filter(r, d)
    \/ Lock(r) \/ ReadLoad(r) \/ Choose(r)
    \/ AttemptFails(r) \/ FailOver(r) \/ End(r)

Next == (\E r \in Requests : Step(r)) \/ \E d \in Deployments : Flap(d)

Spec == Init /\ [][Next]_vars

-----------------------------------------------------------------------------
(***************************************************************************)
(* Properties.                                                             *)
(***************************************************************************)
\* Every variable has its type, and a plan never names a deployment that
\* cannot serve the request.
TypeOK ==
    /\ available \subseteq Deployments
    /\ load \in [Deployments -> 0..Cardinality(Requests)]
    /\ cursor \in [RouteNames -> 0..MaxPlans]
    /\ lock \in [RouteNames -> Requests \cup {None}]
    /\ \A r \in Requests :
         /\ request[r].pc \in {"idle", "waiting", "reading", "sent", "failed"}
         /\ ToSet(request[r].plan) \subseteq Fit[r] \cap ToSet(Order[RouteOf[r]])
         /\ request[r].lease \in Deployments \cup {None}

\* The in-flight counts are the slots really held, on every path out of an
\* attempt; and while least-busy reads and chooses, no other request of its
\* route reserves a slot: what it saw idle is not taken twice (select.rs,
\* RouteState).
NoDoubleTake ==
    /\ \A d \in Deployments :
          load[d] = Cardinality({r \in Requests : request[r].lease = d})
    /\ \A r \in Requests :
          request[r].pc = "reading" =>
            \A i \in 1..Len(request[r].read) :
                Reserved(RouteOf[r], request[r].ring[i]) <= request[r].read[i].reserved

\* The requests round-robin chose for are spread evenly over the ring, however
\* many of them plan at once and whatever sessions and failovers do beside
\* them (as long as the ring stays the same).
RoundRobinIsEven ==
    \A R \in RouteNames :
        Policy[R] = "round_robin" =>
          \A d, e \in ToSet(Order[R]) : picks[d] <= picks[e] + 1
=============================================================================

---------------------------- MODULE HealthRounds ----------------------------
(***************************************************************************)
(* The health book with a history variable: how many rounds of probes have *)
(* begun, reached a node and been recorded since the node last changed.    *)
(* With it what the book promises can be said (and is proved, in           *)
(* RouterProofs, for any nodes, deployments and requests).                 *)
(***************************************************************************)
EXTENDS HealthBook

VARIABLE rounds    \* per node: a round has begun, and the rounds recorded

NoRounds == [begun |-> FALSE, done |-> 0]

\* A result of node n is recorded in this step, and its probe was not lost.
Recorded(n) ==
    /\ monitor.filed /\ ~monitor'.filed
    /\ n = Head(monitor.queue)
    /\ monitor.found[n].ok = real[n].up

Rounds(n) ==
    CASE real'[n] # real[n] -> NoRounds
      [] monitor.pc = "asleep" /\ monitor'.pc = "probing" ->
            [rounds[n] EXCEPT !.begun = TRUE]
      [] Recorded(n) /\ rounds[n].begun /\ rounds[n].done < Threshold ->
            [rounds[n] EXCEPT !.done = @ + 1]
      [] OTHER -> rounds[n]

RoundsInit == Init /\ rounds = [n \in Nodes |-> NoRounds]

RoundsNext == Next /\ rounds' = [n \in Nodes |-> Rounds(n)]

RoundsSpec == RoundsInit /\ [][RoundsNext]_<<vars, rounds>>

\* What the book tells a request is grounded: an available deployment always
\* has an observation (record files it before it changes the status, and it is
\* never dropped).  And the book is never more than a round behind: once a
\* round that began after the node's last change is recorded, the node is not
\* believed to serve another model, and after failure_threshold of them a node
\* that is down is not believed healthy - whatever late answers requests still
\* report.
BookIsFresh ==
    /\ \A d \in Deployments : Available(d, nodes) => d \in seen
    /\ \A n \in Nodes :
          /\ rounds[n].done >= 1 /\ real[n].up =>
                nodes[n].served \in {real[n].model, NoModel}
          /\ rounds[n].done >= Threshold /\ ~real[n].up =>
                nodes[n].health = "unhealthy"

=============================================================================

------------------------------ MODULE SlotGate ------------------------------
(***************************************************************************)
(* What the scheduler promises the rest of the gateway, without its queue: *)
(* a set of requests holds the engine's slots; a slot is taken only while  *)
(* admission is not paused and only up to the slot count, or is passed     *)
(* straight from the request that releases it to one that waited.          *)
(* Scheduler implements this (its SlotGateRefinement); ModelSwap is built  *)
(* on it.                                                                  *)
(***************************************************************************)
EXTENDS Naturals

CONSTANTS Requests, MaxCapacity,
          Size(_)      \* the number of elements of a set of requests

VARIABLES running, paused, capacity

gateVars == <<running, paused, capacity>>

GateInit ==
    /\ running = {}
    /\ paused = FALSE
    /\ capacity \in 1..MaxCapacity

\* Requests start, if admission is open when they do, within the slot count.
Start(G) ==
    /\ paused' = FALSE
    /\ G \subseteq Requests \ running
    /\ running' = running \cup G
    /\ G # {} => Size(running') <= capacity
    /\ UNCHANGED capacity

Open(G) ==
    /\ ~paused
    /\ Start(G)

\* A slot is given back; while admission is open it may be passed on.
Release(r, G) ==
    /\ r \in running
    /\ G \subseteq Requests \ running
    /\ \A g, h \in G : g = h
    /\ G # {} => ~paused
    /\ running' = (running \ {r}) \cup G
    /\ UNCHANGED <<paused, capacity>>

Close ==
    /\ paused' = TRUE
    /\ UNCHANGED <<running, capacity>>

\* Admission opens again, and what is free is handed out in the same step.
Reopen(G) == Start(G)

SetCapacity(n) ==
    /\ capacity' = n
    /\ UNCHANGED <<running, paused>>

GateNext ==
    \/ \E G \in SUBSET Requests : Reopen(G)
    \/ \E r \in Requests, G \in SUBSET Requests : Release(r, G)
    \/ Close
    \/ \E n \in 1..MaxCapacity : SetCapacity(n)

GateSpec == GateInit /\ [][GateNext]_gateVars

=============================================================================

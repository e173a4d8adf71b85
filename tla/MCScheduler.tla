---------------------------- MODULE MCScheduler ----------------------------
(***************************************************************************)
(* The scheduler on small sets.  Safety is checked with everybody acting;  *)
(* liveness on two mixes of actors: every request without a swap, or all   *)
(* requests but the last with the swaps.                                   *)
(***************************************************************************)
EXTENDS Scheduler, TLC

CONSTANTS Last,   \* the request that stays away from the swaps
          Mixes   \* the mixes of actors

VARIABLE mix      \* who acts in this behaviour

Everybody == {Requests \cup Swaps}
InTwoMixes == {Requests, (Requests \ {Last}) \cup Swaps}

MCInit == Init /\ mix \in Mixes

MCNext ==
    /\ Next
    /\ \A r \in Requests \ mix : pc'[r] = pc[r]
    /\ \A s \in Swaps \ mix : swap'[s] = swap[s]
    /\ UNCHANGED mix

MCSpec == MCInit /\ [][MCNext]_<<vars, mix>>

MCFairSpec == MCSpec /\ Fairness

Symmetry == Permutations(Requests) \cup Permutations(Peers)
=============================================================================

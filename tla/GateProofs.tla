----------------------------- MODULE GateProofs ------------------------------
(***************************************************************************)
(* What the two gates in front of the engine guarantee: the scheduler      *)
(* (Scheduler) and the limiter of a key (RateLimiter).                     *)
(*                                                                         *)
(* The scheduler, for any number of requests, callers, swaps and slots.    *)
(* The invariants are proved in layers: types, then who owns a slot, then  *)
(* the order of arrival, then the two facts about counting and waking that *)
(* rest on them.                                                           *)
(***************************************************************************)
EXTENDS Scheduler, RateLimiter, SequenceTheorems, FiniteSetTheorems, TLAPS

\* The provers have half a minute for each leaf.
USE SMTT(30), ZenonT(30)

(***************************************************************************)
(* Removing entries from the queue leaves a queue: its domain, its fields  *)
(* and its order of arrival are those of the remaining entries.            *)
(***************************************************************************)
LEMMA WithoutQueue ==
    ASSUME TypeOK, NEW G
    PROVE  /\ DOMAIN Without(G) = InQueue \ G
           /\ Without(G) \in [InQueue \ G -> Waiter]
BY DEF TypeOK, Without, InQueue, Waiter

LEMMA WithoutFields ==
    ASSUME TypeOK, NEW G, NEW w \in InQueue \ G
    PROVE  /\ Without(G)[w].ahead = waiting[w].ahead \ G
           /\ Without(G)[w].aged = waiting[w].aged
BY DEF TypeOK, Without, InQueue, Waiter

(***************************************************************************)
(* What handing out n slots does: it takes a set G of entries off the      *)
(* queue and starts those whose receiver still exists, at most n of them,  *)
(* and n of them unless the queue ran out.                                 *)
(***************************************************************************)
LEMMA HandOutEffect ==
    ASSUME TypeOK, NEW holding, NEW n, HandOut(holding, n)
    PROVE  \E G \in SUBSET InQueue :
              /\ waiting' = Without(G)
              /\ InQueue' = InQueue \ G
              /\ running' = holding \cup (G \cap Receiving)
              /\ \A g \in G, w \in InQueue \ G : RankBefore(g, w)
              /\ Cardinality(G \cap Receiving) <= n
              /\ \/ G = InQueue
                 \/ Cardinality(G \cap Receiving) = n
<1>1. PICK G \in Popped(n) :
           /\ waiting' = Without(G)
           /\ running' = holding \cup (G \cap Receiving)
  BY DEF HandOut
<1>2. InQueue' = InQueue \ G
  BY <1>1, WithoutQueue, ZenonT(30) DEF InQueue
<1>3. QED
  BY <1>1, <1>2 DEF Popped

-----------------------------------------------------------------------------
(* Layer 1: types. *)

LEMMA HandOutTypes ==
    ASSUME TypeOK, NEW holding \in SUBSET Requests, NEW n, HandOut(holding, n)
    PROVE  /\ InQueue' \subseteq Requests
           /\ waiting' \in [InQueue' -> Waiter]
           /\ running' \subseteq Requests
<1>1. PICK G \in SUBSET InQueue :
           /\ waiting' = Without(G)
           /\ InQueue' = InQueue \ G
           /\ running' = holding \cup (G \cap Receiving)
  BY HandOutEffect, ZenonT(30)
<1>2. QED
  BY <1>1, WithoutQueue, ZenonT(30) DEF TypeOK, Receiving

LEMMA ReleaseTypes ==
    ASSUME TypeOK, NEW r \in Requests, ReleaseSlot(r)
    PROVE  TypeOK'
<1>1. /\ InQueue' \subseteq Requests
      /\ waiting' \in [InQueue' -> Waiter]
      /\ running' \subseteq Requests
  <2>1. CASE paused
    BY <2>1 DEF TypeOK, ReleaseSlot, InQueue
  <2>2. CASE ~paused
    <3>1. running \ {r} \in SUBSET Requests
      BY DEF TypeOK
    <3>2. HandOut(running \ {r}, 1)
      BY <2>2 DEF ReleaseSlot
    <3>3. QED
      BY <3>1, <3>2, HandOutTypes
  <2>3. QED
    BY <2>1, <2>2
<1>2. woken' \in [Swaps -> BOOLEAN]
  BY ZenonT(30) DEF TypeOK, ReleaseSlot, NotifyDrained
<1>3. pc' \in [Requests -> Stages]
  BY DEF TypeOK, ReleaseSlot, Stages
<1>4. QED
  BY <1>1, <1>2, <1>3 DEF TypeOK, ReleaseSlot

LEMMA InitTypes == Init => TypeOK
<1> SUFFICES ASSUME Init PROVE TypeOK
  OBVIOUS
<1>1. /\ pc \in [Requests -> Stages]
      /\ swap \in [Swaps -> SwapStages]
      /\ woken \in [Swaps -> BOOLEAN]
  BY DEF Init, Stages, SwapStages
<1>2. InQueue = {} /\ waiting \in [{} -> Waiter]
  <2>1. waiting = [r \in {} |-> {}]
    BY DEF Init
  <2>2. DOMAIN waiting = {}
    BY <2>1
  <2>3. QED
    BY <2>1, <2>2 DEF InQueue
<1>3. InQueue \subseteq Requests /\ waiting \in [InQueue -> Waiter]
  BY <1>2
<1>4. running \subseteq Requests /\ paused \in BOOLEAN
  BY ZenonT(30) DEF Init
<1>5. capacity \in 1..MaxCapacity /\ resizing \in {0, capacity}
  BY CapacityAssumption DEF Init
<1>6. QED
  BY <1>1, <1>3, <1>4, <1>5 DEF TypeOK

LEMMA NextTypes == TypeOK /\ [Next]_vars => TypeOK'
<1> SUFFICES ASSUME TypeOK, [Next]_vars PROVE TypeOK'
  OBVIOUS
<1>1. ASSUME NEW r \in Requests, NEW b \in Bands, NEW p \in Peers,
             AdmitOrEnqueue(r, b, p)
      PROVE  TypeOK'
  <2>1. RoundOf(p) \in Nat
    BY RequestsFinite, FS_Subset, FS_CardinalityType DEF RoundOf, TypeOK
  <2>2. CASE CanTakeFreeSlot
    BY <1>1, <2>2 DEF AdmitOrEnqueue, TypeOK, InQueue, Stages, swapVars
  <2>3. CASE ~CanTakeFreeSlot
    <3>1. /\ DOMAIN waiting' = InQueue \cup {r}
          /\ waiting' \in [InQueue \cup {r} -> Waiter]
      <4>1. [band |-> b, peer |-> p, round |-> RoundOf(p),
             aged |-> FALSE, ahead |-> InQueue] \in Waiter
        BY <2>1 DEF TypeOK, Waiter
      <4>2. QED
        BY <1>1, <2>3, <4>1, ZenonT(30) DEF AdmitOrEnqueue, PushWaiter, TypeOK
    <3>2. pc' \in [Requests -> Stages]
      BY <1>1, <2>3 DEF AdmitOrEnqueue, TypeOK, Stages
    <3>3. QED
      BY <1>1, <2>3, <3>1, <3>2
         DEF AdmitOrEnqueue, TypeOK, InQueue, swapVars
  <2>4. QED
    BY <2>2, <2>3
<1>2. ASSUME NEW r \in Requests, Granted(r) PROVE TypeOK'
  BY <1>2 DEF Granted, TypeOK, InQueue, Stages, swapVars
<1>3. ASSUME NEW r \in Requests, TimeOut(r) PROVE TypeOK'
  BY <1>3 DEF TimeOut, TypeOK, InQueue, Stages, swapVars
<1>4. ASSUME NEW r \in Requests, Disconnect(r) PROVE TypeOK'
  BY <1>4 DEF Disconnect, TypeOK, InQueue, Stages, swapVars
<1>5. ASSUME NEW r \in Requests, Withdraw(r) PROVE TypeOK'
  <2>1. CASE r \in InQueue
    <3>1. /\ InQueue' = InQueue \ {r}
          /\ waiting' \in [InQueue' -> Waiter]
      <4>1. waiting' = Without({r})
        BY <1>5, <2>1 DEF Withdraw
      <4>2. InQueue' = DOMAIN Without({r})
        BY <4>1 DEF InQueue
      <4>3. QED
        BY <4>1, <4>2, WithoutQueue
    <3>2. QED
      BY <1>5, <2>1, <3>1 DEF Withdraw, TypeOK, Stages, swapVars
  <2>2. CASE r \notin InQueue
    BY <1>5, <2>2 DEF Withdraw, TypeOK, InQueue, Stages, swapVars
  <2>3. QED
    BY <2>1, <2>2
<1>6. ASSUME NEW r \in Requests, Reclaim(r) PROVE TypeOK'
  BY <1>6, ReleaseTypes DEF Reclaim
<1>7. ASSUME NEW r \in Requests, DropPermit(r) PROVE TypeOK'
  BY <1>7, ReleaseTypes DEF DropPermit
<1>8. ASSUME NEW r \in Requests, AgeOut(r) PROVE TypeOK'
  <2>1. /\ InQueue' = InQueue
        /\ waiting' \in [InQueue -> Waiter]
    BY <1>8, ZenonT(30) DEF AgeOut, TypeOK, InQueue, Waiter
  <2>2. QED
    BY <1>8, <2>1 DEF AgeOut, TypeOK, swapVars
<1>9. ASSUME NEW n \in 1..MaxCapacity, StoreCapacity(n) PROVE TypeOK'
  BY <1>9, CapacityAssumption
     DEF StoreCapacity, TypeOK, InQueue, queueVars, swapVars
<1>10. ASSUME ApplyCapacity PROVE TypeOK'
  <2>1. /\ InQueue' \subseteq Requests
        /\ waiting' \in [InQueue' -> Waiter]
        /\ running' \subseteq Requests
    <3>1. CASE paused
      BY <1>10, <3>1 DEF ApplyCapacity, TypeOK, InQueue
    <3>2. CASE ~paused
      BY <1>10, <3>2, HandOutTypes DEF ApplyCapacity, TypeOK
    <3>3. QED
      BY <3>1, <3>2
  <2>2. QED
    BY <1>10, <2>1, CapacityAssumption DEF ApplyCapacity, TypeOK, swapVars
<1>11. ASSUME NEW s \in Swaps, Pause(s) PROVE TypeOK'
  BY <1>11 DEF Pause, TypeOK, InQueue, queueVars, SwapStages
<1>12. ASSUME NEW s \in Swaps,
              DrainLook(s) \/ DrainArm(s) \/ DrainRecheck(s) \/ DrainWake(s)
                 \/ DrainTimeout(s)
       PROVE  TypeOK'
  BY <1>12, ZenonT(30)
     DEF DrainLook, DrainArm, DrainRecheck, DrainWake, DrainTimeout, DrainStep,
         TypeOK, InQueue, queueVars, SwapStages
<1>13. ASSUME NEW s \in Swaps, Resume(s) PROVE TypeOK'
  <2>1. /\ InQueue' \subseteq Requests
        /\ waiting' \in [InQueue' -> Waiter]
        /\ running' \subseteq Requests
    BY <1>13, HandOutTypes DEF Resume, TypeOK
  <2>2. QED
    BY <1>13, <2>1, ZenonT(30) DEF Resume, TypeOK, SwapStages
<1>14. CASE UNCHANGED vars
  BY <1>14 DEF vars, TypeOK, InQueue
<1>15. QED
  BY <1>1, <1>2, <1>3, <1>4, <1>5, <1>6, <1>7, <1>8, <1>9, <1>10, <1>11, <1>12,
     <1>13, <1>14
     DEF Next, RequestStep, SwapStep

(***************************************************************************)
(* The variables keep their types in every behaviour of the scheduler.     *)
(***************************************************************************)
THEOREM TypeCorrect == Spec => []TypeOK
BY InitTypes, NextTypes, PTL DEF Spec

-----------------------------------------------------------------------------
(* Layer 2: who owns a slot. *)

(***************************************************************************)
(* While every queued ticket is alive, whatever is popped is started: the  *)
(* branch of hand_over for a vanished receiver is never taken.             *)
(***************************************************************************)
LEMMA PoppedStarts ==
    ASSUME TypeOK, SlotOwnership, NEW holding, NEW n, HandOut(holding, n)
    PROVE  \E G \in SUBSET InQueue :
              /\ waiting' = Without(G)
              /\ InQueue' = InQueue \ G
              /\ running' = holding \cup G
              /\ \A g \in G, w \in InQueue \ G : RankBefore(g, w)
              /\ Cardinality(G) <= n
              /\ G = InQueue \/ Cardinality(G) = n
<1>1. PICK G \in SUBSET InQueue :
           /\ waiting' = Without(G)
           /\ InQueue' = InQueue \ G
           /\ running' = holding \cup (G \cap Receiving)
           /\ \A g \in G, w \in InQueue \ G : RankBefore(g, w)
           /\ Cardinality(G \cap Receiving) <= n
           /\ \/ G = InQueue
              \/ Cardinality(G \cap Receiving) = n
  BY HandOutEffect
<1>2. G \cap Receiving = G
  BY DEF SlotOwnership, Receiving, TypeOK
<1>3. QED
  BY <1>1, <1>2

LEMMA HandOutOwnership ==
    ASSUME TypeOK, SlotOwnership, NEW n, HandOut(running, n), pc' = pc
    PROVE  SlotOwnership'
<1>1. PICK G \in SUBSET InQueue :
           /\ InQueue' = InQueue \ G
           /\ running' = running \cup G
  BY PoppedStarts
<1>2. QED
  BY <1>1 DEF SlotOwnership, TypeOK

LEMMA ReleaseOwnership ==
    ASSUME TypeOK, SlotOwnership, NEW r \in Requests,
           pc[r] \in {"running", "reclaiming"}, ReleaseSlot(r)
    PROVE  SlotOwnership'
<1>1. pc' = [pc EXCEPT ![r] = "idle"]
  BY DEF ReleaseSlot
<1>2. CASE paused
  <2>1. running' = running \ {r} /\ InQueue' = InQueue
    BY <1>2 DEF ReleaseSlot, InQueue
  <2>2. QED
    BY <1>1, <2>1 DEF SlotOwnership, TypeOK
<1>3. CASE ~paused
  <2>1. HandOut(running \ {r}, 1)
    BY <1>3 DEF ReleaseSlot
  <2>2. PICK G \in SUBSET InQueue :
             /\ InQueue' = InQueue \ G
             /\ running' = (running \ {r}) \cup G
    BY <2>1, PoppedStarts
  <2>3. QED
    BY <1>1, <2>2 DEF SlotOwnership, TypeOK
<1>4. QED
  BY <1>2, <1>3

LEMMA InitOwnership == Init => SlotOwnership
<1> SUFFICES ASSUME Init PROVE SlotOwnership
  OBVIOUS
<1>1. DOMAIN waiting = {}
  BY DEF Init
<1>2. QED
  BY <1>1 DEF Init, SlotOwnership, InQueue

LEMMA NextOwnership ==
    TypeOK /\ SlotOwnership /\ [Next]_vars => SlotOwnership'
<1> SUFFICES ASSUME TypeOK, SlotOwnership, [Next]_vars PROVE SlotOwnership'
  OBVIOUS
<1>1. ASSUME NEW r \in Requests, NEW b \in Bands, NEW p \in Peers,
             AdmitOrEnqueue(r, b, p)
      PROVE  SlotOwnership'
  <2>1. CASE CanTakeFreeSlot
    BY <1>1, <2>1 DEF AdmitOrEnqueue, SlotOwnership, TypeOK, InQueue
  <2>2. CASE ~CanTakeFreeSlot
    <3>1. InQueue' = InQueue \cup {r}
      BY <1>1, <2>2 DEF AdmitOrEnqueue, PushWaiter, InQueue
    <3>2. running' = running /\ pc' = [pc EXCEPT ![r] = "queued"]
      BY <1>1, <2>2 DEF AdmitOrEnqueue
    <3>3. QED
      BY <1>1, <3>1, <3>2 DEF AdmitOrEnqueue, SlotOwnership, TypeOK
  <2>3. QED
    BY <2>1, <2>2
<1>2. ASSUME NEW r \in Requests, Granted(r) \/ TimeOut(r) \/ Disconnect(r)
      PROVE  SlotOwnership'
  BY <1>2 DEF Granted, TimeOut, Disconnect, SlotOwnership, TypeOK, InQueue
<1>3. ASSUME NEW r \in Requests, Withdraw(r) PROVE SlotOwnership'
  <2>1. CASE r \in InQueue
    <3>1. InQueue' = InQueue \ {r}
      BY <1>3, <2>1, WithoutQueue DEF Withdraw, InQueue
    <3>2. QED
      BY <1>3, <2>1, <3>1 DEF Withdraw, SlotOwnership, TypeOK
  <2>2. CASE r \notin InQueue
    BY <1>3, <2>2 DEF Withdraw, SlotOwnership, TypeOK, InQueue
  <2>3. QED
    BY <2>1, <2>2
<1>4. ASSUME NEW r \in Requests, Reclaim(r) \/ DropPermit(r)
      PROVE  SlotOwnership'
  BY <1>4, ReleaseOwnership DEF Reclaim, DropPermit
<1>5. ASSUME NEW r \in Requests, AgeOut(r) PROVE SlotOwnership'
  <2>1. InQueue' = InQueue
    BY <1>5 DEF AgeOut, TypeOK, InQueue
  <2>2. QED
    BY <1>5, <2>1 DEF AgeOut, SlotOwnership
<1>6. ASSUME NEW n \in 1..MaxCapacity, StoreCapacity(n) PROVE SlotOwnership'
  BY <1>6 DEF StoreCapacity, SlotOwnership, InQueue, queueVars
<1>7. ASSUME ApplyCapacity PROVE SlotOwnership'
  <2>1. CASE paused
    BY <1>7, <2>1 DEF ApplyCapacity, SlotOwnership, InQueue
  <2>2. CASE ~paused
    BY <1>7, <2>2, HandOutOwnership DEF ApplyCapacity
  <2>3. QED
    BY <2>1, <2>2
<1>8. ASSUME NEW s \in Swaps, SwapStep(s), ~Resume(s) PROVE SlotOwnership'
  BY <1>8
     DEF SwapStep, Pause, DrainLook, DrainArm, DrainRecheck, DrainWake,
         DrainTimeout, DrainStep, SlotOwnership, InQueue, queueVars
<1>9. ASSUME NEW s \in Swaps, Resume(s) PROVE SlotOwnership'
  BY <1>9, HandOutOwnership DEF Resume
<1>10. CASE UNCHANGED vars
  BY <1>10 DEF vars, SlotOwnership, InQueue
<1>11. QED
  BY <1>1, <1>2, <1>3, <1>4, <1>5, <1>6, <1>7, <1>8, <1>9, <1>10
     DEF Next, RequestStep

(***************************************************************************)
(* No slot is ever lost or held twice: SlotOwnership holds in every        *)
(* behaviour, whatever mixture of grants, timeouts, disconnects, pauses    *)
(* and changes of the slot count it contains.                              *)
(***************************************************************************)
THEOREM SlotsAreOwned == Spec => []SlotOwnership
BY TypeCorrect, InitOwnership, NextOwnership, PTL DEF Spec

-----------------------------------------------------------------------------
(* Layer 3: the order of arrival, and who may start before whom. *)

LEMMA RemovalKeepsOrder ==
    ASSUME TypeOK, ArrivalOrder, NEW G, waiting' = Without(G)
    PROVE  ArrivalOrder'
<1>1. /\ InQueue' = InQueue \ G
      /\ \A w \in InQueue \ G :
            /\ waiting'[w].ahead = waiting[w].ahead \ G
            /\ waiting'[w].aged = waiting[w].aged
  <2>1. InQueue' = DOMAIN Without(G)
    BY DEF InQueue
  <2>2. QED
    BY <2>1, WithoutQueue, WithoutFields, ZenonT(30)
<1>2. SUFFICES ASSUME NEW w \in InQueue \ G
               PROVE  /\ waiting'[w].ahead \subseteq InQueue' \ {w}
                      /\ \A v \in InQueue' \ {w} :
                            v \in waiting'[w].ahead
                               <=> w \notin waiting'[v].ahead
                      /\ waiting'[w].aged =>
                            \A v \in waiting'[w].ahead : waiting'[v].aged
  BY <1>1, ZenonT(30) DEF ArrivalOrder
<1>3. /\ waiting'[w].ahead \subseteq InQueue' \ {w}
      /\ \A v \in InQueue' \ {w} :
            v \in waiting'[w].ahead <=> w \notin waiting'[v].ahead
  BY <1>1 DEF ArrivalOrder
<1>4. waiting'[w].aged => \A v \in waiting'[w].ahead : waiting'[v].aged
  BY <1>1, <1>3, ZenonT(30) DEF ArrivalOrder
<1>5. QED
  BY <1>3, <1>4

LEMMA HandOutKeepsOrder ==
    ASSUME TypeOK, ArrivalOrder, NEW holding, NEW n, HandOut(holding, n)
    PROVE  ArrivalOrder'
BY HandOutEffect, RemovalKeepsOrder, ZenonT(30)

LEMMA NextOrder == TypeOK /\ SlotOwnership /\ ArrivalOrder /\ [Next]_vars
                      => ArrivalOrder'
<1> SUFFICES ASSUME TypeOK, SlotOwnership, ArrivalOrder, [Next]_vars
             PROVE  ArrivalOrder'
  OBVIOUS
<1>1. ASSUME waiting' = waiting PROVE ArrivalOrder'
  BY <1>1 DEF ArrivalOrder, InQueue
<1>2. ASSUME NEW r \in Requests, NEW b \in Bands, NEW p \in Peers,
             AdmitOrEnqueue(r, b, p)
      PROVE  ArrivalOrder'
  <2>1. CASE CanTakeFreeSlot
    BY <1>1, <1>2, <2>1 DEF AdmitOrEnqueue
  <2>2. CASE ~CanTakeFreeSlot
    <3>1. r \notin InQueue
      BY <1>2 DEF AdmitOrEnqueue, SlotOwnership
    <3>2. /\ InQueue' = InQueue \cup {r}
          /\ waiting'[r].ahead = InQueue
          /\ waiting'[r].aged = FALSE
          /\ \A w \in InQueue : waiting'[w] = waiting[w]
      BY <1>2, <2>2, <3>1 DEF AdmitOrEnqueue, PushWaiter, InQueue
    <3>3. QED
      BY <3>1, <3>2 DEF ArrivalOrder
  <2>3. QED
    BY <2>1, <2>2
<1>3. ASSUME NEW r \in Requests, Granted(r) \/ TimeOut(r) \/ Disconnect(r)
      PROVE  ArrivalOrder'
  BY <1>1, <1>3 DEF Granted, TimeOut, Disconnect
<1>4. ASSUME NEW r \in Requests, Withdraw(r) PROVE ArrivalOrder'
  BY <1>1, <1>4, RemovalKeepsOrder DEF Withdraw
<1>5. ASSUME NEW r \in Requests, Reclaim(r) \/ DropPermit(r)
      PROVE  ArrivalOrder'
  BY <1>1, <1>5, HandOutKeepsOrder DEF Reclaim, DropPermit, ReleaseSlot
<1>6. ASSUME NEW r \in Requests, AgeOut(r) PROVE ArrivalOrder'
  <2>1. /\ InQueue' = InQueue
        /\ \A w \in InQueue : waiting'[w].ahead = waiting[w].ahead
        /\ \A w \in InQueue \ {r} : waiting'[w].aged = waiting[w].aged
        /\ waiting'[r].aged = TRUE
    BY <1>6 DEF AgeOut, TypeOK, InQueue, Waiter
  <2>2. \A w \in waiting[r].ahead : waiting[w].aged
    BY <1>6 DEF AgeOut
  <2>3. QED
    BY <2>1, <2>2, <1>6 DEF ArrivalOrder, AgeOut
<1>7. ASSUME NEW n \in 1..MaxCapacity, StoreCapacity(n) PROVE ArrivalOrder'
  BY <1>1, <1>7 DEF StoreCapacity, queueVars
<1>8. ASSUME ApplyCapacity PROVE ArrivalOrder'
  BY <1>1, <1>8, HandOutKeepsOrder DEF ApplyCapacity
<1>9. ASSUME NEW s \in Swaps, SwapStep(s) PROVE ArrivalOrder'
  <2>1. CASE Resume(s)
    BY <2>1, HandOutKeepsOrder DEF Resume
  <2>2. CASE ~Resume(s)
    BY <1>1, <1>9, <2>2
       DEF SwapStep, Pause, DrainLook, DrainArm, DrainRecheck, DrainWake,
           DrainTimeout, DrainStep, queueVars
  <2>3. QED
    BY <2>1, <2>2
<1>10. CASE UNCHANGED vars
  BY <1>1, <1>10 DEF vars
<1>11. QED
  BY <1>2, <1>3, <1>4, <1>5, <1>6, <1>7, <1>8, <1>9, <1>10
     DEF Next, RequestStep

\* The queue is ordered by arrival in every behaviour.
THEOREM QueueIsOrdered == Spec => []ArrivalOrder
<1>1. Init => ArrivalOrder
  <2>1. ASSUME Init PROVE DOMAIN waiting = {}
    BY <2>1 DEF Init
  <2>2. QED
    BY <2>1 DEF ArrivalOrder, InQueue
<1>2. QED
  BY <1>1, TypeCorrect, SlotsAreOwned, NextOrder, PTL DEF Spec

(***************************************************************************)
(* Whatever the step, a queued request that starts ranks before every      *)
(* request that is still queued afterwards: there is no way into a slot    *)
(* past the order of rank.                                                 *)
(***************************************************************************)
LEMMA StartsInRankOrder ==
    ASSUME TypeOK, SlotOwnership, [Next]_vars,
           NEW g \in InQueue \cap running', NEW w \in InQueue \cap InQueue'
    PROVE  RankBefore(g, w)
<1>1. g \notin running
  BY DEF SlotOwnership, TypeOK
<1>2. ASSUME NEW holding \in SUBSET running, NEW n, HandOut(holding, n)
      PROVE  RankBefore(g, w)
  <2>1. PICK G \in SUBSET InQueue :
             /\ InQueue' = InQueue \ G
             /\ running' = holding \cup G
             /\ \A x \in G, y \in InQueue \ G : RankBefore(x, y)
    BY <1>2, PoppedStarts
  <2>2. QED
    BY <1>1, <2>1
<1>3. ASSUME NEW r \in Requests, NEW b \in Bands, NEW p \in Peers,
             AdmitOrEnqueue(r, b, p)
      PROVE  FALSE
  <2>1. r \notin InQueue
    BY <1>3 DEF AdmitOrEnqueue, SlotOwnership
  <2>2. QED
    BY <1>1, <1>3, <2>1 DEF AdmitOrEnqueue
<1>4. ASSUME NEW r \in Requests, ReleaseSlot(r) PROVE RankBefore(g, w)
  BY <1>1, <1>2, <1>4 DEF ReleaseSlot
<1>5. CASE ApplyCapacity
  BY <1>1, <1>2, <1>5 DEF ApplyCapacity
<1>6. ASSUME NEW s \in Swaps, Resume(s) PROVE RankBefore(g, w)
  BY <1>2, <1>6 DEF Resume
<1>7. ASSUME running' = running PROVE FALSE
  BY <1>1, <1>7
<1>8. ASSUME NEW r \in Requests, RequestStep(r) PROVE RankBefore(g, w)
  BY <1>3, <1>4, <1>7, <1>8
     DEF RequestStep, Granted, TimeOut, Disconnect, Withdraw, Reclaim, DropPermit,
         AgeOut
<1>9. ASSUME NEW s \in Swaps, SwapStep(s) PROVE RankBefore(g, w)
  BY <1>6, <1>7, <1>9
     DEF SwapStep, Pause, DrainLook, DrainArm, DrainRecheck, DrainWake,
         DrainTimeout, DrainStep, queueVars
<1>10. ASSUME NEW n \in 1..MaxCapacity, StoreCapacity(n) PROVE FALSE
  BY <1>7, <1>10 DEF StoreCapacity, queueVars
<1>11. CASE UNCHANGED vars
  BY <1>7, <1>11 DEF vars
<1>12. QED
  BY <1>5, <1>8, <1>9, <1>10, <1>11 DEF Next

(***************************************************************************)
(* The starvation guarantee, for every number of requests and callers: no  *)
(* step starts a queued request past an earlier one that has waited past   *)
(* the ceiling.                                                            *)
(***************************************************************************)
THEOREM AgedAreNeverOvertaken == Spec => AgedNeverOvertaken
<1>1. ASSUME TypeOK, SlotOwnership, ArrivalOrder, [Next]_vars,
             NEW g \in InQueue \cap running', NEW w \in InQueue \cap InQueue',
             waiting[w].aged
      PROVE  w \notin waiting[g].ahead
  <2>1. RankBefore(g, w)
    BY <1>1, StartsInRankOrder
  <2>2. g # w /\ g \in waiting[w].ahead
    BY <1>1, <2>1 DEF RankBefore, Tier, Turn, ArrivalOrder
  <2>3. QED
    BY <1>1, <2>2 DEF ArrivalOrder
<1>2. TypeOK /\ SlotOwnership /\ ArrivalOrder /\ [Next]_vars
         => [\A g \in InQueue \cap running', w \in InQueue \cap InQueue' :
                waiting[w].aged => w \notin waiting[g].ahead]_vars
  BY <1>1
<1>3. QED
  BY <1>2, TypeCorrect, SlotsAreOwned, QueueIsOrdered, PTL
     DEF Spec, AgedNeverOvertaken

(***************************************************************************)
(* The rotation between callers: no step starts a request past an earlier  *)
(* interactive request that is its caller's first.                         *)
(***************************************************************************)
THEOREM FirstTurnsKeepTheirPlace == Spec => FirstTurnKeepsPlace
<1>1. ASSUME TypeOK, SlotOwnership, ArrivalOrder, [Next]_vars,
             NEW g \in InQueue \cap running', NEW w \in InQueue \cap InQueue',
             waiting[w].round = 0, waiting[w].band = "interactive"
      PROVE  w \notin waiting[g].ahead
  <2>1. RankBefore(g, w)
    BY <1>1, StartsInRankOrder
  <2>2. waiting[g] \in Waiter /\ waiting[w] \in Waiter
    BY <1>1 DEF TypeOK
  <2>3. CASE waiting[w].aged \/ ~waiting[g].aged
    <3>1. g \in waiting[w].ahead
      BY <1>1, <2>1, <2>2, <2>3 DEF RankBefore, Tier, Turn, Waiter, Bands
    <3>2. QED
      BY <1>1, <3>1 DEF ArrivalOrder
  <2>4. CASE ~waiting[w].aged /\ waiting[g].aged
    BY <1>1, <2>4 DEF ArrivalOrder
  <2>5. QED
    BY <2>3, <2>4
<1>2. TypeOK /\ SlotOwnership /\ ArrivalOrder /\ [Next]_vars
         => [\A g \in InQueue \cap running', w \in InQueue \cap InQueue' :
                waiting[w].round = 0 /\ waiting[w].band = "interactive"
                   => w \notin waiting[g].ahead]_vars
  BY <1>1
<1>3. QED
  BY <1>2, TypeCorrect, SlotsAreOwned, QueueIsOrdered, PTL
     DEF Spec, FirstTurnKeepsPlace

-----------------------------------------------------------------------------
(* Layer 4: counting slots. *)

(***************************************************************************)
(* How many slots are busy after handing out n on top of `holding': n      *)
(* more, unless the queue emptied first.                                   *)
(***************************************************************************)
LEMMA HandOutCount ==
    ASSUME TypeOK, SlotOwnership, NEW holding \in SUBSET running,
           NEW n \in Nat, HandOut(holding, n)
    PROVE  /\ Cardinality(holding) \in Nat
           /\ Cardinality(running') \in Nat
           /\ Cardinality(running') <= Cardinality(holding) + n
           /\ \/ InQueue' = {}
              \/ Cardinality(running') = Cardinality(holding) + n
<1>1. PICK G \in SUBSET InQueue :
           /\ InQueue' = InQueue \ G
           /\ running' = holding \cup G
           /\ Cardinality(G) <= n
           /\ G = InQueue \/ Cardinality(G) = n
  BY PoppedStarts
<1>2. IsFiniteSet(holding) /\ IsFiniteSet(G)
  BY RequestsFinite, FS_Subset DEF TypeOK
<1>3. holding \cap G = {}
  BY DEF SlotOwnership, TypeOK
<1>4. /\ Cardinality(holding) \in Nat
      /\ Cardinality(G) \in Nat
      /\ Cardinality(holding \cup G) = Cardinality(holding) + Cardinality(G)
  <2>1. Cardinality(holding \cup G) = Cardinality(holding) + Cardinality(G)
                                      - Cardinality(holding \cap G)
    BY <1>2, FS_Union
  <2>2. Cardinality(holding \cap G) = 0
    BY <1>3, FS_EmptySet
  <2>3. Cardinality(holding) \in Nat /\ Cardinality(G) \in Nat
    BY <1>2, FS_CardinalityType
  <2>4. QED
    BY <2>1, <2>2, <2>3
<1>5. QED
  BY <1>1, <1>4

LEMMA FreeSlotsCount ==
    ASSUME TypeOK, NEW limit \in 1..MaxCapacity
    PROVE  /\ FreeSlots(running, limit) \in Nat
           /\ Cardinality(running) \in Nat
           /\ Cardinality(running) + FreeSlots(running, limit) >= limit
           /\ Cardinality(running) + FreeSlots(running, limit) > limit
                 => FreeSlots(running, limit) = 0
<1>1. Cardinality(running) \in Nat
  BY RequestsFinite, FS_Subset, FS_CardinalityType DEF TypeOK
<1>2. QED
  BY <1>1, CapacityAssumption DEF FreeSlots

LEMMA ReleaseCount ==
    ASSUME TypeOK, SlotOwnership, NEW r \in Requests,
           pc[r] \in {"running", "reclaiming"}, ReleaseSlot(r)
    PROVE  /\ Cardinality(running) \in Nat
           /\ Cardinality(running') \in Nat
           /\ Cardinality(running') <= Cardinality(running)
           /\ ~paused => \/ InQueue' = {}
                         \/ Cardinality(running') = Cardinality(running)
<1>1. /\ Cardinality(running) \in Nat
      /\ Cardinality(running \ {r}) \in Nat
      /\ Cardinality(running \ {r}) = Cardinality(running) - 1
  <2>1. IsFiniteSet(running)
    BY RequestsFinite, FS_Subset DEF TypeOK
  <2>2. r \in running
    BY DEF SlotOwnership
  <2>3. QED
    BY <2>1, <2>2, FS_RemoveElement, FS_CardinalityType
<1>2. CASE paused
  BY <1>1, <1>2 DEF ReleaseSlot
<1>3. CASE ~paused
  <2>1. HandOut(running \ {r}, 1)
    BY <1>3 DEF ReleaseSlot
  <2>2. running \ {r} \in SUBSET running
    OBVIOUS
  <2>3. /\ Cardinality(running') \in Nat
        /\ Cardinality(running') <= Cardinality(running \ {r}) + 1
        /\ \/ InQueue' = {}
           \/ Cardinality(running') = Cardinality(running \ {r}) + 1
    BY <2>1, <2>2, HandOutCount, ZenonT(30)
  <2>4. QED
    BY <1>1, <2>3
<1>4. QED
  BY <1>2, <1>3

LEMMA NextNoIdleSlot ==
    TypeOK /\ SlotOwnership /\ NoIdleSlot /\ [Next]_vars => NoIdleSlot'
<1> SUFFICES ASSUME TypeOK, SlotOwnership, NoIdleSlot, [Next]_vars,
                    ~paused', resizing' = 0, InQueue' # {}
             PROVE  Cardinality(running') >= capacity'
  BY DEF NoIdleSlot
<1>0. Cardinality(running) \in Nat /\ capacity \in Nat
  BY RequestsFinite, CapacityAssumption, FS_Subset, FS_CardinalityType
     DEF TypeOK
<1>1. ASSUME NEW r \in Requests, NEW b \in Bands, NEW p \in Peers,
             AdmitOrEnqueue(r, b, p)
      PROVE  Cardinality(running') >= capacity'
  <2>1. ~paused /\ resizing = 0 /\ capacity' = capacity
    BY <1>1 DEF AdmitOrEnqueue
  <2>2. CASE CanTakeFreeSlot
    BY <1>1, <2>2 DEF AdmitOrEnqueue, CanTakeFreeSlot, InQueue
  <2>3. CASE ~CanTakeFreeSlot
    <3>1. Cardinality(running) >= capacity
      BY <1>0, <2>1, <2>3 DEF CanTakeFreeSlot, NoIdleSlot
    <3>2. QED
      BY <1>1, <2>1, <2>3, <3>1 DEF AdmitOrEnqueue
  <2>4. QED
    BY <2>2, <2>3
<1>2. ASSUME UNCHANGED <<running, paused, capacity, resizing>>, InQueue # {}
      PROVE  Cardinality(running') >= capacity'
  BY <1>2 DEF NoIdleSlot
<1>3. ASSUME NEW r \in Requests, Granted(r) \/ TimeOut(r) \/ Disconnect(r)
      PROVE  Cardinality(running') >= capacity'
  BY <1>2, <1>3 DEF Granted, TimeOut, Disconnect, InQueue
<1>4. ASSUME NEW r \in Requests, Withdraw(r)
      PROVE  Cardinality(running') >= capacity'
  BY <1>2, <1>4 DEF Withdraw, InQueue
<1>5. ASSUME NEW r \in Requests, Reclaim(r) \/ DropPermit(r)
      PROVE  Cardinality(running') >= capacity'
  <2>1. /\ pc[r] \in {"running", "reclaiming"}
        /\ ReleaseSlot(r)
    BY <1>5 DEF Reclaim, DropPermit
  <2>2. ~paused /\ resizing = 0 /\ capacity' = capacity
    BY <2>1 DEF ReleaseSlot
  <2>3. Cardinality(running') = Cardinality(running)
    BY <2>1, <2>2, ReleaseCount
  <2>4. InQueue # {}
    <3>1. HandOut(running \ {r}, 1)
      BY <2>1, <2>2 DEF ReleaseSlot
    <3>2. QED
      BY <3>1, HandOutEffect, ZenonT(30)
  <2>5. QED
    BY <2>2, <2>3, <2>4 DEF NoIdleSlot
<1>6. ASSUME NEW r \in Requests, AgeOut(r)
      PROVE  Cardinality(running') >= capacity'
  BY <1>2, <1>6 DEF AgeOut
<1>7. ASSUME NEW n \in 1..MaxCapacity, StoreCapacity(n) PROVE FALSE
  BY <1>7, CapacityAssumption DEF StoreCapacity
<1>8. ASSUME ApplyCapacity PROVE Cardinality(running') >= capacity'
  <2>1. ~paused /\ capacity' = capacity /\ resizing = capacity
    BY <1>8 DEF ApplyCapacity, TypeOK
  <2>2. HandOut(running, FreeSlots(running, capacity))
    BY <1>8, <2>1 DEF ApplyCapacity
  <2>3. capacity \in 1..MaxCapacity
    BY DEF TypeOK
  <2>4. /\ FreeSlots(running, capacity) \in Nat
        /\ Cardinality(running) + FreeSlots(running, capacity) >= capacity
    BY <2>3, FreeSlotsCount
  <2>5. Cardinality(running')
           = Cardinality(running) + FreeSlots(running, capacity)
    BY <2>2, <2>4, HandOutCount
  <2>6. QED
    BY <2>1, <2>4, <2>5
<1>9. ASSUME NEW s \in Swaps, Resume(s)
      PROVE  Cardinality(running') >= capacity'
  <2>1. capacity' = capacity /\ capacity \in 1..MaxCapacity
    BY <1>9 DEF Resume, TypeOK
  <2>2. HandOut(running, FreeSlots(running, capacity))
    BY <1>9 DEF Resume
  <2>3. /\ FreeSlots(running, capacity) \in Nat
        /\ Cardinality(running) + FreeSlots(running, capacity) >= capacity
    BY <2>1, FreeSlotsCount
  <2>4. Cardinality(running')
           = Cardinality(running) + FreeSlots(running, capacity)
    BY <2>2, <2>3, HandOutCount
  <2>5. QED
    BY <2>1, <2>3, <2>4
<1>10. ASSUME NEW s \in Swaps, SwapStep(s), ~Resume(s)
       PROVE  Cardinality(running') >= capacity'
  BY <1>2, <1>10
     DEF SwapStep, Pause, DrainLook, DrainArm, DrainRecheck, DrainWake,
         DrainTimeout, DrainStep, queueVars, InQueue
<1>11. CASE UNCHANGED vars
  BY <1>2, <1>11 DEF vars, InQueue
<1>12. QED
  BY <1>1, <1>3, <1>4, <1>5, <1>6, <1>7, <1>8, <1>9, <1>10, <1>11
     DEF Next, RequestStep

(***************************************************************************)
(* Nobody ever queues in front of an idle slot: whatever the number of     *)
(* requests and slots, outside a pause a queued request means that all     *)
(* slots are busy.                                                         *)
(***************************************************************************)
THEOREM NoSlotIdles == Spec => []NoIdleSlot
<1>1. Init => NoIdleSlot
  <2>1. ASSUME Init PROVE DOMAIN waiting = {}
    BY <2>1 DEF Init
  <2>2. QED
    BY <2>1 DEF NoIdleSlot, InQueue
<1>2. QED
  BY <1>1, TypeCorrect, SlotsAreOwned, NextNoIdleSlot, PTL DEF Spec

(***************************************************************************)
(* The number of busy slots never climbs above the slot count in force.    *)
(***************************************************************************)
THEOREM BusySlotsGrowWithinCapacity == Spec => GrowsWithinCapacity
<1>1. ASSUME TypeOK, SlotOwnership, [Next]_vars,
             Cardinality(running') > Cardinality(running)
      PROVE  Cardinality(running') <= capacity'
  <2>0. /\ IsFiniteSet(running)
        /\ Cardinality(running) \in Nat
        /\ capacity \in Nat
    BY <1>1, RequestsFinite, CapacityAssumption, FS_Subset, FS_CardinalityType
       DEF TypeOK
  <2>1. ASSUME running' = running PROVE FALSE
    BY <1>1, <2>0, <2>1
  <2>2. ASSUME NEW r \in Requests, NEW b \in Bands, NEW p \in Peers,
               AdmitOrEnqueue(r, b, p)
        PROVE  Cardinality(running') <= capacity'
    <3>1. CASE CanTakeFreeSlot
      <4>1. Cardinality(running \cup {r})
               \in {Cardinality(running), Cardinality(running) + 1}
        BY <2>0, FS_AddElement
      <4>2. running' = running \cup {r} /\ capacity' = capacity
        BY <2>2, <3>1 DEF AdmitOrEnqueue
      <4>3. QED
        BY <2>0, <2>2, <3>1, <4>1, <4>2 DEF AdmitOrEnqueue, CanTakeFreeSlot
    <3>2. CASE ~CanTakeFreeSlot
      BY <2>1, <2>2, <3>2 DEF AdmitOrEnqueue
    <3>3. QED
      BY <3>1, <3>2
  <2>3. ASSUME NEW r \in Requests, Reclaim(r) \/ DropPermit(r) PROVE FALSE
    <3>1. /\ pc[r] \in {"running", "reclaiming"}
          /\ ReleaseSlot(r)
      BY <2>3 DEF Reclaim, DropPermit
    <3>2. /\ Cardinality(running') \in Nat
          /\ Cardinality(running') <= Cardinality(running)
      BY <1>1, <3>1, ReleaseCount
    <3>3. QED
      BY <1>1, <2>0, <3>2
  <2>4. ASSUME HandOut(running, FreeSlots(running, capacity)),
               capacity' = capacity
        PROVE  Cardinality(running') <= capacity'
    <3>1. capacity \in 1..MaxCapacity
      BY <1>1 DEF TypeOK
    <3>2. /\ FreeSlots(running, capacity) \in Nat
          /\ Cardinality(running) + FreeSlots(running, capacity) > capacity
                => FreeSlots(running, capacity) = 0
      BY <1>1, <3>1, FreeSlotsCount
    <3>3. /\ Cardinality(running') \in Nat
          /\ Cardinality(running')
                <= Cardinality(running) + FreeSlots(running, capacity)
      BY <1>1, <2>4, <3>2, HandOutCount
    <3>4. QED
      BY <1>1, <2>0, <2>4, <3>2, <3>3
  <2>5. ASSUME ApplyCapacity PROVE Cardinality(running') <= capacity'
    <3>1. resizing = capacity /\ capacity' = capacity
      BY <1>1, <2>5 DEF ApplyCapacity, TypeOK
    <3>2. QED
      BY <2>1, <2>4, <2>5, <3>1 DEF ApplyCapacity
  <2>6. ASSUME NEW s \in Swaps, SwapStep(s)
        PROVE  Cardinality(running') <= capacity'
    BY <2>1, <2>4, <2>6
       DEF SwapStep, Resume, Pause, DrainLook, DrainArm, DrainRecheck, DrainWake,
           DrainTimeout, DrainStep, queueVars
  <2>7. ASSUME NEW r \in Requests, RequestStep(r)
        PROVE  Cardinality(running') <= capacity'
    BY <2>1, <2>2, <2>3, <2>7
       DEF RequestStep, Granted, TimeOut, Disconnect, Withdraw, AgeOut
  <2>8. QED
    BY <1>1, <2>1, <2>5, <2>6, <2>7 DEF Next, StoreCapacity, queueVars, vars
<1>2. TypeOK /\ SlotOwnership /\ [Next]_vars
         => [Cardinality(running') > Cardinality(running)
                => Cardinality(running') <= capacity']_vars
  BY <1>1
<1>3. QED
  BY <1>2, TypeCorrect, SlotsAreOwned, PTL DEF Spec, GrowsWithinCapacity

(***************************************************************************)
(* A drain is never left asleep once the engine is idle.                   *)
(***************************************************************************)
THEOREM NoWakeupIsLost == Spec => []NoLostWakeup
<1>1. Init => NoLostWakeup
  BY DEF Init, NoLostWakeup
<1>2. TypeOK /\ NoLostWakeup /\ [Next]_vars => NoLostWakeup'
  <2> SUFFICES ASSUME TypeOK, NoLostWakeup, [Next]_vars PROVE NoLostWakeup'
    OBVIOUS
  <2>1. ASSUME running # {} => running' # {}, UNCHANGED <<swap, woken>>
        PROVE  NoLostWakeup'
    BY <2>1 DEF NoLostWakeup
  <2>2. ASSUME NEW holding, NEW n, HandOut(holding, n)
        PROVE  holding \subseteq running'
    BY <2>2 DEF HandOut
  <2>3. ASSUME NEW r \in Requests, ReleaseSlot(r) PROVE NoLostWakeup'
    <3>1. running \ {r} \subseteq running'
      BY <2>2, <2>3 DEF ReleaseSlot
    <3>2. swap' = swap
      BY <2>3 DEF ReleaseSlot
    <3>3. CASE running \ {r} = {}
      <4>1. \A s \in Swaps : swap[s] = "asleep" => woken'[s]
        BY <2>3, <3>3, ZenonT(30) DEF ReleaseSlot, NotifyDrained
      <4>2. QED
        BY <3>2, <4>1 DEF NoLostWakeup
    <3>4. CASE running \ {r} # {}
      BY <2>1, <2>3, <3>1, <3>2, <3>4 DEF ReleaseSlot
    <3>5. QED
      BY <3>3, <3>4
  <2>4. ASSUME NEW r \in Requests, RequestStep(r), ~Reclaim(r), ~DropPermit(r)
        PROVE  NoLostWakeup'
    BY <2>1, <2>4
       DEF RequestStep, AdmitOrEnqueue, Granted, TimeOut, Disconnect, Withdraw,
           AgeOut, swapVars
  <2>5. ASSUME ApplyCapacity PROVE NoLostWakeup'
    BY <2>1, <2>2, <2>5 DEF ApplyCapacity, swapVars
  <2>6. ASSUME NEW n \in 1..MaxCapacity, StoreCapacity(n) PROVE NoLostWakeup'
    BY <2>1, <2>6 DEF StoreCapacity, queueVars, swapVars
  <2>7. ASSUME NEW s \in Swaps, Resume(s) PROVE NoLostWakeup'
    <3>1. running \subseteq running'
      BY <2>2, <2>7 DEF Resume
    <3>2. QED
      BY <2>7, <3>1 DEF Resume, NoLostWakeup, TypeOK
  <2>8. ASSUME NEW s \in Swaps, SwapStep(s), ~Resume(s) PROVE NoLostWakeup'
    BY <2>8
       DEF SwapStep, Pause, DrainLook, DrainArm, DrainRecheck, DrainWake,
           DrainTimeout, DrainStep, queueVars, NoLostWakeup, TypeOK
  <2>9. CASE UNCHANGED vars
    BY <2>1, <2>9 DEF vars
  <2>10. QED
    BY <2>3, <2>4, <2>5, <2>6, <2>7, <2>8, <2>9
       DEF Next, RequestStep, Reclaim, DropPermit
<1>3. QED
  BY <1>1, <1>2, TypeCorrect, PTL DEF Spec

(***************************************************************************)
(* While admission stays paused no request starts.                         *)
(***************************************************************************)
LEMMA PausedStepStartsNothing ==
    ASSUME TypeOK, [Next]_vars, paused, paused'
    PROVE  running' \subseteq running
<1>1. ASSUME NEW r \in Requests, RequestStep(r)
      PROVE  running' \subseteq running
  BY <1>1
     DEF RequestStep, AdmitOrEnqueue, CanTakeFreeSlot, Granted, TimeOut, Disconnect,
         Withdraw, Reclaim, DropPermit, ReleaseSlot, AgeOut
<1>2. ASSUME NEW s \in Swaps, SwapStep(s) PROVE running' \subseteq running
  BY <1>2
     DEF SwapStep, Pause, DrainLook, DrainArm, DrainRecheck, DrainWake,
         DrainTimeout, DrainStep, Resume, queueVars
<1>3. ASSUME ApplyCapacity PROVE running' \subseteq running
  BY <1>3 DEF ApplyCapacity
<1>4. QED
  BY <1>1, <1>2, <1>3 DEF Next, StoreCapacity, queueVars, vars

THEOREM PauseLetsNothingStart == Spec => PauseStartsNothing
<1>1. TypeOK /\ [Next]_vars
         => [paused /\ paused' => running' \subseteq running]_vars
  BY PausedStepStartsNothing
<1>2. QED
  BY <1>1, TypeCorrect, PTL DEF Spec, PauseStartsNothing

(***************************************************************************)
(* With at most one swap at a time a live guard keeps admission paused, so *)
(* an engine found drained stays idle until the guard is dropped.  The     *)
(* assumption is needed: GuardHoldsPause fails with two.                   *)
(***************************************************************************)
THEOREM SingleSwapKeepsEngineIdle ==
    ASSUME \A s, t \in Swaps : s = t
    PROVE  Spec => [](GuardHoldsPause /\ DrainedStaysIdle)
<1>1. Init => GuardHoldsPause /\ DrainedStaysIdle
  BY DEF Init, GuardHoldsPause, DrainedStaysIdle
<1>2. TypeOK /\ GuardHoldsPause /\ [Next]_vars => GuardHoldsPause'
  <2> SUFFICES ASSUME TypeOK, GuardHoldsPause, [Next]_vars,
                      NEW s \in Swaps, swap'[s] # "out"
               PROVE  paused'
    BY DEF GuardHoldsPause
  <2>1. ASSUME NEW t \in Swaps, SwapStep(t) PROVE paused'
    <3>1. s = t
      OBVIOUS
    <3>2. QED
      BY <2>1, <3>1
         DEF GuardHoldsPause, SwapStep, Pause, DrainLook, DrainArm, DrainRecheck,
             DrainWake, DrainTimeout, DrainStep, Resume, TypeOK
  <2>2. ASSUME UNCHANGED <<paused, swap>> PROVE paused'
    BY <2>2 DEF GuardHoldsPause
  <2>3. ASSUME NEW r \in Requests, RequestStep(r)
        PROVE  UNCHANGED <<paused, swap>>
    BY <2>3
       DEF RequestStep, AdmitOrEnqueue, Granted, TimeOut, Disconnect, Withdraw,
           Reclaim, DropPermit, ReleaseSlot, AgeOut, swapVars
  <2>4. QED
    BY <2>1, <2>2, <2>3
       DEF Next, StoreCapacity, ApplyCapacity, swapVars, vars
<1>3. TypeOK /\ GuardHoldsPause /\ GuardHoldsPause' /\ DrainedStaysIdle
        /\ [Next]_vars => DrainedStaysIdle'
  <2> SUFFICES ASSUME TypeOK, GuardHoldsPause, GuardHoldsPause',
                      DrainedStaysIdle, [Next]_vars,
                      NEW s \in Swaps, swap'[s] = "drained"
               PROVE  running' = {}
    BY DEF DrainedStaysIdle
  <2>1. CASE swap[s] = "drained"
    <3>1. running = {} /\ paused /\ paused'
      BY <2>1 DEF DrainedStaysIdle, GuardHoldsPause
    <3>2. running' \subseteq running
      BY <3>1, PausedStepStartsNothing
    <3>3. QED
      BY <3>1, <3>2
  <2>2. CASE swap[s] # "drained"
    <3>1. ASSUME NEW t \in Swaps, SwapStep(t) PROVE running' = {}
      <4>1. s = t
        OBVIOUS
      <4>2. QED
        BY <2>2, <3>1, <4>1
           DEF SwapStep, Pause, DrainLook, DrainArm, DrainRecheck, DrainWake,
               DrainTimeout, DrainStep, Resume, queueVars, TypeOK
    <3>2. ASSUME swap' = swap PROVE FALSE
      BY <2>2, <3>2
    <3>3. ASSUME NEW r \in Requests, RequestStep(r) PROVE swap' = swap
      BY <3>3
         DEF RequestStep, AdmitOrEnqueue, Granted, TimeOut, Disconnect, Withdraw,
             Reclaim, DropPermit, ReleaseSlot, AgeOut, swapVars
    <3>4. QED
      BY <3>1, <3>2, <3>3
         DEF Next, StoreCapacity, ApplyCapacity, swapVars, vars
  <2>3. QED
    BY <2>1, <2>2
<1>4. QED
  BY <1>1, <1>2, <1>3, TypeCorrect, PTL DEF Spec

(***************************************************************************)
(* The scheduler implements the slot gate.                                 *)
(***************************************************************************)
LEMMA GateStart ==
    ASSUME TypeOK, SlotOwnership, NEW n \in Nat, HandOut(running, n),
           n = FreeSlots(running, capacity), capacity' = capacity, ~paused'
    PROVE  Gate!GateNext
<1>1. PICK G \in SUBSET InQueue :
           /\ running' = running \cup G
           /\ Cardinality(G) <= n
  BY PoppedStarts
<1>2. G \subseteq Requests \ running
  BY DEF TypeOK, SlotOwnership, InQueue
<1>3. IsFiniteSet(G) /\ Cardinality(G) \in Nat
  BY <1>2, RequestsFinite, FS_Subset, FS_CardinalityType
<1>4. capacity \in 1..MaxCapacity
  BY DEF TypeOK
<1>5. /\ FreeSlots(running, capacity) \in Nat
      /\ Cardinality(running) \in Nat
      /\ Cardinality(running) + FreeSlots(running, capacity) > capacity
            => FreeSlots(running, capacity) = 0
  BY <1>4, FreeSlotsCount
<1>6. G # {} => Cardinality(G) # 0
  BY <1>3, FS_EmptySet
<1>7. /\ Cardinality(running') \in Nat
      /\ Cardinality(running') <= Cardinality(running) + n
  BY HandOutCount
<1>8. G # {} => Cardinality(running') <= capacity
  BY <1>1, <1>3, <1>4, <1>5, <1>6, <1>7, CapacityAssumption
<1>9. Gate!Reopen(G)
  BY <1>1, <1>2, <1>8 DEF Gate!Reopen, Gate!Start
<1>10. QED
  BY <1>2, <1>9 DEF Gate!GateNext

LEMMA GateRelease ==
    ASSUME TypeOK, SlotOwnership, NEW r \in Requests,
           pc[r] \in {"running", "reclaiming"}, ReleaseSlot(r)
    PROVE  Gate!GateNext
<1>1. r \in running
  BY DEF SlotOwnership
<1>2. UNCHANGED <<paused, capacity>>
  BY DEF ReleaseSlot
<1>3. CASE paused
  <2>1. Gate!Release(r, {})
    BY <1>1, <1>2, <1>3 DEF ReleaseSlot, Gate!Release
  <2>2. QED
    BY <2>1 DEF Gate!GateNext
<1>4. CASE ~paused
  <2>1. HandOut(running \ {r}, 1)
    BY <1>4 DEF ReleaseSlot
  <2>2. PICK G \in SUBSET InQueue :
             /\ running' = (running \ {r}) \cup G
             /\ Cardinality(G) <= 1
    BY <2>1, PoppedStarts
  <2>3. G \subseteq Requests \ running
    BY DEF TypeOK, SlotOwnership, InQueue
  <2>4. IsFiniteSet(G)
    BY <2>3, RequestsFinite, FS_Subset
  <2>5. ASSUME NEW g \in G, NEW h \in G, g # h PROVE FALSE
    <3>1. /\ IsFiniteSet({g, h})
          /\ Cardinality({g, h}) = 2
      <4>1. Cardinality({g}) = 1 /\ IsFiniteSet({g})
        BY FS_Singleton, ZenonT(30)
      <4>2. {g, h} = {g} \cup {h} /\ h \notin {g}
        BY <2>5
      <4>3. /\ IsFiniteSet({g} \cup {h})
            /\ Cardinality({g} \cup {h}) = Cardinality({g}) + 1
        BY <4>1, <4>2, FS_AddElement, ZenonT(30)
      <4>4. QED
        BY <4>1, <4>2, <4>3
    <3>2. {g, h} \subseteq G
      OBVIOUS
    <3>3. Cardinality({g, h}) <= Cardinality(G)
      BY <2>4, <3>2, FS_Subset
    <3>4. Cardinality(G) \in Nat
      BY <2>4, FS_CardinalityType
    <3>5. QED
      BY <2>2, <3>1, <3>3, <3>4
  <2>6. Gate!Release(r, G)
    BY <1>1, <1>2, <1>4, <2>2, <2>3, <2>5 DEF Gate!Release
  <2>7. QED
    BY <2>3, <2>6 DEF Gate!GateNext
<1>5. QED
  BY <1>3, <1>4

THEOREM SchedulerIsASlotGate == Spec => SlotGateRefinement
<1>1. Init => Gate!GateInit
  BY DEF Init, Gate!GateInit
<1>2. TypeOK /\ SlotOwnership /\ [Next]_vars => [Gate!GateNext]_(Gate!gateVars)
  <2> SUFFICES ASSUME TypeOK, SlotOwnership, [Next]_vars
               PROVE  Gate!GateNext \/ UNCHANGED Gate!gateVars
    OBVIOUS
  <2>1. ASSUME UNCHANGED <<running, paused, capacity>>
        PROVE  UNCHANGED Gate!gateVars
    BY <2>1 DEF Gate!gateVars
  <2>2. ASSUME NEW r \in Requests, NEW b \in Bands, NEW p \in Peers,
               AdmitOrEnqueue(r, b, p)
        PROVE  Gate!GateNext \/ UNCHANGED Gate!gateVars
    <3>1. CASE CanTakeFreeSlot
      <4>1. /\ running' = running \cup {r}
            /\ UNCHANGED <<paused, capacity>>
            /\ ~paused
        BY <2>2, <3>1 DEF AdmitOrEnqueue, CanTakeFreeSlot
      <4>2. r \notin running
        BY <2>2 DEF AdmitOrEnqueue, SlotOwnership
      <4>3. Cardinality(running') <= capacity
        <5>1. IsFiniteSet(running) /\ Cardinality(running) \in Nat
          BY RequestsFinite, FS_Subset, FS_CardinalityType DEF TypeOK
        <5>2. Cardinality(running \cup {r}) = Cardinality(running) + 1
          BY <4>2, <5>1, FS_AddElement, ZenonT(30)
        <5>3. Cardinality(running) < capacity /\ capacity \in Nat
          BY <3>1, CapacityAssumption DEF CanTakeFreeSlot, TypeOK
        <5>4. QED
          BY <4>1, <5>1, <5>2, <5>3
      <4>4. Gate!Reopen({r})
        BY <4>1, <4>2, <4>3 DEF Gate!Reopen, Gate!Start
      <4>5. QED
        BY <4>4 DEF Gate!GateNext
    <3>2. CASE ~CanTakeFreeSlot
      BY <2>1, <2>2, <3>2 DEF AdmitOrEnqueue
    <3>3. QED
      BY <3>1, <3>2
  <2>3. ASSUME NEW r \in Requests, Reclaim(r) \/ DropPermit(r)
        PROVE  Gate!GateNext
    BY <2>3, GateRelease DEF Reclaim, DropPermit
  <2>4. ASSUME NEW r \in Requests, RequestStep(r)
        PROVE  Gate!GateNext \/ UNCHANGED Gate!gateVars
    BY <2>1, <2>2, <2>3, <2>4
       DEF RequestStep, Granted, TimeOut, Disconnect, Withdraw, AgeOut
  <2>5. ASSUME NEW n \in 1..MaxCapacity, StoreCapacity(n) PROVE Gate!GateNext
    <3>1. Gate!SetCapacity(n)
      BY <2>5 DEF StoreCapacity, queueVars, Gate!SetCapacity
    <3>2. QED
      BY <3>1 DEF Gate!GateNext
  <2>6. FreeSlots(running, capacity) \in Nat
    <3>1. capacity \in 1..MaxCapacity
      BY DEF TypeOK
    <3>2. QED
      BY <3>1, FreeSlotsCount
  <2>7. ASSUME ApplyCapacity PROVE Gate!GateNext \/ UNCHANGED Gate!gateVars
    <3>1. resizing = capacity /\ UNCHANGED <<paused, capacity>>
      BY <2>7 DEF ApplyCapacity, TypeOK
    <3>2. CASE paused
      BY <2>1, <2>7, <3>1, <3>2 DEF ApplyCapacity
    <3>3. CASE ~paused
      <4>1. HandOut(running, FreeSlots(running, capacity))
        BY <2>7, <3>1, <3>3 DEF ApplyCapacity
      <4>2. QED
        BY <2>6, <3>1, <3>3, <4>1, GateStart
    <3>4. QED
      BY <3>2, <3>3
  <2>8. ASSUME NEW s \in Swaps, Resume(s) PROVE Gate!GateNext
    BY <2>6, <2>8, GateStart DEF Resume
  <2>9. ASSUME NEW s \in Swaps, Pause(s) PROVE Gate!GateNext
    <3>1. Gate!Close
      BY <2>9 DEF Pause, queueVars, Gate!Close
    <3>2. QED
      BY <3>1 DEF Gate!GateNext
  <2>10. ASSUME NEW s \in Swaps, SwapStep(s)
         PROVE  Gate!GateNext \/ UNCHANGED Gate!gateVars
    BY <2>1, <2>8, <2>9, <2>10
       DEF SwapStep, DrainLook, DrainArm, DrainRecheck, DrainWake, DrainTimeout,
           DrainStep, queueVars
  <2>11. CASE UNCHANGED vars
    BY <2>1, <2>11 DEF vars
  <2>12. QED
    BY <2>4, <2>5, <2>7, <2>10, <2>11 DEF Next
<1>3. QED
  BY <1>1, <1>2, TypeCorrect, SlotsAreOwned, PTL
     DEF Spec, SlotGateRefinement, Gate!GateSpec

-----------------------------------------------------------------------------
(***************************************************************************)
(* CeilingsHold for any ceilings, any window and any length of a day.  As  *)
(* long as no request is entered late, the admitted instants are in order, *)
(* the deque is the end of their list and lacks only what is a minute old, *)
(* and the counter is that of the day it was last reset for.               *)
(***************************************************************************)
LimiterTypes ==
    /\ time \in Nat
    /\ entry \in [Calls -> [pc : {"away", "reading"}, now : Nat, today : Nat]]
    /\ \A r \in Calls : entry[r].today = entry[r].now \div Day
    /\ window \in Seq(Nat) /\ stamps \in Seq(Nat)
    /\ day \in Nat /\ count \in Nat /\ total \in Nat /\ stale \in BOOLEAN

\* One sequence is the end of another, which has only old instants before it.
IsEnd(s, w, now) ==
    /\ Len(w) <= Len(s)
    /\ \A i \in 1..Len(w) : w[i] = s[Len(s) - Len(w) + i]
    /\ \A i \in 1..(Len(s) - Len(w)) : now - s[i] >= Minute

InOrder ==
    /\ \A i \in 1..Len(stamps) : stamps[i] <= time
    /\ IsEnd(stamps, window, time)

Counting ==
    /\ total = Len(stamps)
    /\ Midnight(day) <= time
    /\ \A i \in 1..Len(stamps) : stamps[i] < Midnight(day) + Day
    /\ count = Within(Midnight(day), Midnight(day) + Day - 1)

MinutesHold == PerMinute # 0 => \A t \in Nat : Within(t, t + Minute - 1) <= PerMinute
DaysHold == PerDay # 0 => \A d \in Nat : Within(Midnight(d), Midnight(d) + Day - 1) <= PerDay

LimiterInv ==
    /\ LimiterTypes
    /\ ~stale => InOrder /\ Counting /\ MinutesHold /\ DaysHold

\* A day begins after the one before it has ended, and an instant is in its day.
LEMMA DaysFollow ==
    ASSUME LimiterAssumption
    PROVE  /\ \A d \in Nat : Midnight(d) \in Nat
           /\ \A d, e \in Nat : d < e => Midnight(d) + Day <= Midnight(e)
           /\ \A t \in Nat : /\ t \div Day \in Nat
                             /\ Midnight(t \div Day) <= t
                             /\ t < Midnight(t \div Day) + Day
  <1>0. Day \in Nat /\ Day > 0
    BY DEF LimiterAssumption
  <1>1. ASSUME NEW d \in Nat PROVE Midnight(d) \in Nat
    BY <1>0 DEF Midnight
  <1>2. ASSUME NEW d \in Nat, NEW e \in Nat, d < e PROVE Midnight(d) + Day <= Midnight(e)
    <2>1. PICK k \in Nat : e = d + 1 + k
      <3>1. e - d - 1 \in Nat /\ e = d + 1 + (e - d - 1)
        BY <1>2
      <3> QED
        BY <3>1
    <2>2. k * Day \in Nat
      BY <1>0
    <2>3. e * Day = d * Day + Day + k * Day
      BY <1>0, <2>1
    <2> QED
      BY <1>0, <2>2, <2>3 DEF Midnight
  <1>3. ASSUME NEW t \in Nat
        PROVE  t \div Day \in Nat /\ Midnight(t \div Day) <= t /\ t < Midnight(t \div Day) + Day
    BY <1>0 DEF Midnight
  <1> QED
    BY <1>1, <1>2, <1>3

\* What counting instants in an interval gives.
LEMMA CountIsNatural ==
    ASSUME NEW s \in Seq(Nat), NEW a \in Int, NEW b \in Int
    PROVE  /\ IsFiniteSet({i \in 1..Len(s) : s[i] \in a..b})
           /\ CountIn(s, a, b) \in Nat
  <1>1. IsFiniteSet(1..Len(s))
    BY FS_Interval
  <1>2. {i \in 1..Len(s) : s[i] \in a..b} \in SUBSET (1..Len(s))
    OBVIOUS
  <1>3. IsFiniteSet({i \in 1..Len(s) : s[i] \in a..b})
    BY <1>1, <1>2, FS_Subset
  <1> QED
    BY <1>3, FS_CardinalityType DEF CountIn

LEMMA CountOfAppend ==
    ASSUME NEW s \in Seq(Nat), NEW x \in Nat, NEW a \in Int, NEW b \in Int
    PROVE  CountIn(Append(s, x), a, b) = CountIn(s, a, b) + (IF x \in a..b THEN 1 ELSE 0)
  <1> DEFINE S == {i \in 1..Len(s) : s[i] \in a..b}
             A == {i \in 1..Len(Append(s, x)) : Append(s, x)[i] \in a..b}
             n == Len(s) + 1
  <1>1. Len(Append(s, x)) = n /\ Append(s, x)[n] = x /\ Len(s) \in Nat
    OBVIOUS
  <1>2. \A i \in 1..Len(s) : Append(s, x)[i] = s[i]
    OBVIOUS
  <1>3. \A i : i \in 1..n <=> i \in 1..Len(s) \/ i = n
    BY <1>1
  <1>4. CASE x \in a..b
    <2>1. A = S \cup {n} /\ n \notin S
      BY <1>1, <1>2, <1>3, <1>4
    <2> QED
      <3>1. IsFiniteSet(S)
        BY CountIsNatural, ZenonT(30)
      <3>2. Cardinality(S \cup {n}) = Cardinality(S) + 1
        <4> HIDE DEF S, n
        <4> QED
          BY <2>1, <3>1, FS_AddElement, ZenonT(30)
      <3>3. CountIn(Append(s, x), a, b) = Cardinality(A) /\ CountIn(s, a, b) = Cardinality(S)
        BY DEF CountIn
      <3> QED
        BY <1>4, <2>1, <3>2, <3>3, ZenonT(30)
  <1>5. CASE x \notin a..b
    <2>1. A = S
      BY <1>1, <1>2, <1>3, <1>5
    <2> QED
      <3>1. CountIn(Append(s, x), a, b) = Cardinality(A) /\ CountIn(s, a, b) = Cardinality(S)
        BY DEF CountIn
      <3>2. CountIn(s, a, b) \in Nat
        BY CountIsNatural, ZenonT(30)
      <3>3. CountIn(Append(s, x), a, b) = CountIn(s, a, b)
        BY <2>1, <3>1, ZenonT(30)
      <3> HIDE DEF A, S, n
      <3> QED
        BY <1>5, <3>2, <3>3
  <1> QED
    BY <1>4, <1>5

\* Instants before the k-th that lie outside the interval do not count.
LEMMA CountAfter ==
    ASSUME NEW s \in Seq(Nat), NEW a \in Int, NEW b \in Int, NEW k \in 0..Len(s),
           \A i \in 1..k : s[i] \notin a..b
    PROVE  CountIn(s, a, b) <= Len(s) - k
  <1> DEFINE S == {i \in 1..Len(s) : s[i] \in a..b}
  <1>1. S \in SUBSET ((k + 1)..Len(s))
    OBVIOUS
  <1>2. /\ IsFiniteSet((k + 1)..Len(s))
        /\ Cardinality((k + 1)..Len(s)) = IF k + 1 > Len(s) THEN 0 ELSE Len(s) - (k + 1) + 1
    <2>1. k + 1 \in Int /\ Len(s) \in Int
      OBVIOUS
    <2> QED
      BY <2>1, FS_Interval, ZenonT(30)
  <1>3. Cardinality((k + 1)..Len(s)) = Len(s) - k
    BY <1>2
  <1>4. Cardinality(S) <= Cardinality((k + 1)..Len(s))
    BY <1>1, <1>2, FS_Subset
  <1> QED
    BY <1>3, <1>4 DEF CountIn

LEMMA CountNone ==
    ASSUME NEW s \in Seq(Nat), NEW a \in Int, NEW b \in Int,
           \A i \in 1..Len(s) : s[i] \notin a..b
    PROVE  CountIn(s, a, b) = 0
  <1>1. Len(s) \in 0..Len(s) /\ Len(s) \in Nat
    OBVIOUS
  <1>2. CountIn(s, a, b) <= Len(s) - Len(s)
    BY <1>1, CountAfter
  <1>3. CountIn(s, a, b) \in Nat
    BY CountIsNatural, ZenonT(30)
  <1> QED
    BY <1>1, <1>2, <1>3

LEMMA LeastOfSet ==
    ASSUME NEW T, T \subseteq Nat, T # {}
    PROVE  \E m \in T : \A n \in T : m <= n
  <1>1. PICK m \in T : \A n \in T : ~(<<n, m>> \in OpToRel(<, Nat))
    BY NatLessThanWellFounded, WFMin, ZenonT(30)
  <1>2. \A n \in T : ~(n < m)
    BY <1>1, ZenonT(30) DEF OpToRel
  <1> QED
    BY <1>2

\* Pruning takes away a front whose instants are a minute old, and no more.
LEMMA PrunedIsTheEnd ==
    ASSUME LimiterAssumption, NEW w \in Seq(Nat), NEW now \in Nat
    PROVE  Pruned(w, now) \in Seq(Nat) /\ IsEnd(w, Pruned(w, now), now)
  <1> DEFINE Y == Young(w, now)
             p == Pruned(w, now)
  <1>1. Y \subseteq 1..Len(w) /\ \A i \in 1..Len(w) : i \notin Y => now - w[i] >= Minute
    BY DEF Young, LimiterAssumption
  <1>2. CASE Y = {}
    BY <1>1, <1>2 DEF Pruned, IsEnd
  <1>3. CASE Y # {}
    <2> DEFINE first == CHOOSE i \in Y : \A j \in Y : i <= j
    <2>1. \E i \in Y : \A j \in Y : i <= j
      <3>1. Y \subseteq Nat
        BY <1>1
      <3> QED
        BY <1>3, <3>1, LeastOfSet
    <2>2. first \in Y /\ \A j \in Y : first <= j
      BY <2>1
    <2>3. p = SubSeq(w, first, Len(w))
      BY <1>3, ZenonT(30) DEF Pruned
    <2>4. first \in 1..Len(w)
      BY <1>1, <2>2
    <2> HIDE DEF first
    <2>5. /\ p \in Seq(Nat) /\ Len(p) = Len(w) - first + 1
          /\ \A i \in 1..Len(p) : p[i] = w[first + i - 1]
      <3>1. /\ first \in Int /\ Len(w) \in Int /\ first <= Len(w)
            /\ \A i \in first..Len(w) : w[i] \in Nat
        BY <2>4
      <3>2. /\ SubSeq(w, first, Len(w)) \in Seq(Nat)
            /\ Len(SubSeq(w, first, Len(w))) = Len(w) - first + 1
            /\ \A i \in 1..(Len(w) - first + 1) :
                  SubSeq(w, first, Len(w))[i] = w[first + i - 1]
        BY <3>1, SubSeqProperties
      <3> HIDE DEF p
      <3> QED
        BY <2>3, <3>2, ZenonT(30)
    <2>6. Len(w) - Len(p) = first - 1
      BY <2>4, <2>5
    <2>7. \A i \in 1..(first - 1) : i \notin Y /\ i \in 1..Len(w)
      BY <2>2, <2>4
    <2> HIDE DEF p, Y
    <2>8. IsEnd(w, p, now)
      BY <1>1, <2>4, <2>5, <2>6, <2>7 DEF IsEnd
    <2> QED
      BY <2>5, <2>8 DEF p
  <1> QED
    BY <1>2, <1>3

LEMMA EndOfEnd ==
    ASSUME LimiterAssumption, NEW s \in Seq(Nat), NEW v \in Seq(Nat), NEW w \in Seq(Nat),
           NEW now \in Nat, IsEnd(s, v, now), IsEnd(v, w, now)
    PROVE  IsEnd(s, w, now)
  <1> DEFINE k == Len(s) - Len(v)
             m == Len(v) - Len(w)
  <1>1. k \in Nat /\ m \in Nat /\ Len(s) = k + m + Len(w) /\ Len(v) = m + Len(w) /\ Len(w) \in Nat
    BY DEF IsEnd
  <1>2. \A i \in 1..Len(v) : v[i] = s[k + i]
    BY DEF IsEnd
  <1>3. \A i \in 1..Len(w) : w[i] = v[m + i]
    BY DEF IsEnd
  <1>4. /\ \A i \in 1..k : now - s[i] >= Minute
        /\ \A i \in 1..m : now - v[i] >= Minute
    BY DEF IsEnd
  <1> HIDE DEF k, m
  <1>5. ASSUME NEW i \in 1..Len(w) PROVE w[i] = s[k + m + i]
    <2>1. m + i \in 1..Len(v) /\ k + (m + i) = k + m + i
      BY <1>1
    <2>2. w[i] = v[m + i]
      BY <1>3
    <2>3. v[m + i] = s[k + (m + i)]
      BY <1>2, <2>1
    <2> QED
      BY <2>1, <2>2, <2>3
  <1>6. \A i \in 1..(k + m) : now - s[i] >= Minute
    <2> SUFFICES ASSUME NEW i \in 1..(k + m), ~(i \in 1..k) PROVE now - s[i] >= Minute
      BY <1>4
    <2>1. i - k \in 1..m /\ i - k \in 1..Len(v) /\ k + (i - k) = i
      BY <1>1
    <2> QED
      BY <1>2, <1>4, <2>1, ZenonT(30)
  <1>7. Len(s) - Len(w) = k + m
    BY <1>1
  <1> QED
    BY <1>1, <1>5, <1>6, <1>7 DEF IsEnd

LEMMA EndOfAppend ==
    ASSUME LimiterAssumption, NEW s \in Seq(Nat), NEW w \in Seq(Nat), NEW now \in Nat,
           NEW x \in Nat, IsEnd(s, w, now)
    PROVE  IsEnd(Append(s, x), Append(w, x), now)
  <1>1. /\ Len(Append(s, x)) = Len(s) + 1 /\ Len(Append(w, x)) = Len(w) + 1
        /\ Len(s) \in Nat /\ Len(w) \in Nat /\ Len(w) <= Len(s)
    BY DEF IsEnd
  <1>2. Len(Append(s, x)) - Len(Append(w, x)) = Len(s) - Len(w)
    BY <1>1
  <1>3. \A i \in 1..(Len(s) - Len(w)) : now - Append(s, x)[i] >= Minute
    BY <1>1 DEF IsEnd
  <1>4. \A i \in 1..(Len(w) + 1) : Append(w, x)[i] = Append(s, x)[Len(s) - Len(w) + i]
    <2> SUFFICES ASSUME NEW i \in 1..(Len(w) + 1)
                 PROVE  Append(w, x)[i] = Append(s, x)[Len(s) - Len(w) + i]
      BY ZenonT(30)
    <2>1. CASE i = Len(w) + 1
      <3>1. Len(s) - Len(w) + i = Len(s) + 1
        BY <1>1, <2>1
      <3> QED
        BY <2>1, <3>1
    <2>2. CASE i # Len(w) + 1
      <3>1. i \in 1..Len(w) /\ Len(s) - Len(w) + i \in 1..Len(s)
        BY <1>1, <2>2
      <3>2. w[i] = s[Len(s) - Len(w) + i]
        BY <3>1 DEF IsEnd
      <3> QED
        BY <3>1, <3>2
    <2> QED
      BY <2>1, <2>2, ZenonT(30)
  <1>5. Len(Append(w, x)) <= Len(Append(s, x))
    BY <1>1
  <1> HIDE DEF IsEnd
  <1> DEFINE p == Append(s, x)
             q == Append(w, x)
             k == Len(s) - Len(w)
             n == Len(w) + 1
  <1>6. /\ Len(q) <= Len(p) /\ Len(p) - Len(q) = k /\ Len(q) = n
        /\ \A i \in 1..k : now - p[i] >= Minute
        /\ \A i \in 1..n : q[i] = p[k + i]
    BY <1>1, <1>2, <1>3, <1>4, <1>5, ZenonT(30)
  <1> HIDE DEF p, q, k, n
  <1>7. IsEnd(p, q, now)
    BY <1>6 DEF IsEnd
  <1> QED
    BY <1>7 DEF p, q

\* Nothing admitted, nothing counted.
LEMMA Unused ==
    ASSUME LimiterAssumption
    PROVE  /\ Len(<<>>) = 0 /\ Midnight(0) = 0
           /\ \A d \in Nat : Midnight(d) \in Int /\ Midnight(d) + Day - 1 \in Int
           /\ \A t \in Nat : t + Minute - 1 \in Int
           /\ \A a, b \in Int : CountIn(<<>>, a, b) = 0
  <1>0. Day \in Nat /\ Minute \in Nat
    BY DEF LimiterAssumption
  <1>1. Len(<<>>) = 0 /\ <<>> \in Seq(Nat)
    OBVIOUS
  <1>2. Midnight(0) = 0 /\ \A d \in Nat : Midnight(d) \in Nat
    BY <1>0, DaysFollow DEF Midnight
  <1>3. ASSUME NEW a \in Int, NEW b \in Int PROVE CountIn(<<>>, a, b) = 0
    <2>1. \A i \in 1..Len(<<>>) : <<>>[i] \notin a..b
      BY <1>1
    <2> QED
      BY <1>1, <2>1, CountNone, ZenonT(30)
  <1> QED
    BY <1>0, <1>1, <1>2, <1>3

\* The counter a request finds is that of the day it comes on, whether or not
\* it has just been reset.
LEMMA CounterIsOfToday ==
    ASSUME LimiterAssumption, time \in Nat, stamps \in Seq(Nat), day \in Nat, Counting,
           NEW today \in Nat, Midnight(today) <= time, time < Midnight(today) + Day
    PROVE  /\ (IF day = today THEN count ELSE 0) = Within(Midnight(today), Midnight(today) + Day - 1)
           /\ \A i \in 1..Len(stamps) : stamps[i] < Midnight(today) + Day
  <1>0. Day \in Nat /\ Day > 0
    BY DEF LimiterAssumption
  <1>1. /\ Midnight(today) \in Nat /\ Midnight(day) \in Nat
        /\ day < today => Midnight(day) + Day <= Midnight(today)
        /\ today < day => Midnight(today) + Day <= Midnight(day)
    BY DaysFollow, ZenonT(30)
  <1>2. Midnight(day) <= time /\ \A i \in 1..Len(stamps) : stamps[i] < Midnight(day) + Day
    BY DEF Counting
  <1>3. day <= today
    BY <1>0, <1>1, <1>2
  <1>4. CASE day = today
    BY <1>2, <1>4 DEF Counting
  <1>5. CASE day # today
    <2>1. \A i \in 1..Len(stamps) : stamps[i] < Midnight(today) /\ stamps[i] \in Nat
      BY <1>0, <1>1, <1>2, <1>3, <1>5
    <2>2. \A i \in 1..Len(stamps) : stamps[i] \notin Midnight(today)..(Midnight(today) + Day - 1)
      BY <1>0, <1>1, <2>1
    <2>3. Within(Midnight(today), Midnight(today) + Day - 1) = 0
      <3>1. Midnight(today) \in Int /\ Midnight(today) + Day - 1 \in Int
        BY <1>0, <1>1
      <3>2. CountIn(stamps, Midnight(today), Midnight(today) + Day - 1) = 0
        BY <2>2, <3>1, CountNone
      <3> QED
        BY <3>2 DEF Within
    <2> QED
      BY <1>0, <1>1, <1>5, <2>1, <2>3
  <1> QED
    BY <1>4, <1>5

\* Refusing leaves the pruned deque, the counter and the ceilings in order ...
LEMMA RefusedInTime ==
    ASSUME LimiterAssumption, time \in Nat, stamps \in Seq(Nat),
           InOrder, MinutesHold, DaysHold, total = Len(stamps),
           NEW today \in Nat, Midnight(today) <= time,
           \A i \in 1..Len(stamps) : stamps[i] < Midnight(today) + Day,
           NEW c, c = Within(Midnight(today), Midnight(today) + Day - 1),
           NEW w \in Seq(Nat), IsEnd(stamps, w, time),
           UNCHANGED <<time, stamps, total>>, window' = w, day' = today, count' = c
    PROVE  InOrder' /\ Counting' /\ MinutesHold' /\ DaysHold'
  <1>1. InOrder'
    BY DEF InOrder, IsEnd
  <1>2. Counting'
    BY DEF Counting, Within, Midnight
  <1>3. MinutesHold' /\ DaysHold'
    BY DEF MinutesHold, DaysHold, Within, Midnight
  <1> QED
    BY <1>1, <1>2, <1>3

\* One more instant keeps a rolling minute below its ceiling when the deque is
\* shorter than that: what the deque lacks is not of the same minute ...
LEMMA MinuteAdmits ==
    ASSUME LimiterAssumption, NEW s \in Seq(Nat), NEW w \in Seq(Nat), NEW now \in Nat,
           IsEnd(s, w, now), NEW P \in Nat, Len(w) < P, NEW t \in Nat,
           CountIn(s, t, t + Minute - 1) <= P
    PROVE  CountIn(Append(s, now), t, t + Minute - 1) <= P
  <1> DEFINE b == t + Minute - 1
             k == Len(s) - Len(w)
  <1>1. Minute \in Nat
    BY DEF LimiterAssumption
  <1>2. b \in Int /\ t \in Int
    BY <1>1
  <1>3. /\ CountIn(s, t, b) \in Nat
        /\ CountIn(Append(s, now), t, b) = CountIn(s, t, b) + (IF now \in t..b THEN 1 ELSE 0)
    <2> HIDE DEF b
    <2>1. CountIn(s, t, b) \in Nat
      BY <1>2, CountIsNatural, ZenonT(30)
    <2>2. CountIn(Append(s, now), t, b) = CountIn(s, t, b) + (IF now \in t..b THEN 1 ELSE 0)
      BY <1>2, CountOfAppend
    <2> QED
      BY <2>1, <2>2
  <1>4. CASE now \notin t..b
    BY <1>3, <1>4
  <1>5. CASE now \in t..b
    <2>1. k \in 0..Len(s) /\ Len(s) - k = Len(w) /\ Len(w) \in Nat
      BY DEF IsEnd
    <2>2. ASSUME NEW i \in 1..k PROVE s[i] \notin t..b
      <3>1. now - s[i] >= Minute
        BY DEF IsEnd
      <3>2. s[i] \in Nat
        BY <2>1
      <3> QED
        BY <1>1, <1>5, <3>1, <3>2
    <2> HIDE DEF k, b
    <2>3. CountIn(s, t, b) <= Len(w)
      BY <1>2, <2>1, <2>2, CountAfter, ZenonT(30)
    <2> QED
      BY <1>3, <1>5, <2>1, <2>3 DEF b
  <1> QED
    BY <1>4, <1>5

\* ... and keeps every day below its own when the counter of its day is.
LEMMA DayAdmits ==
    ASSUME LimiterAssumption, NEW s \in Seq(Nat), NEW now \in Nat, NEW today \in Nat,
           Midnight(today) <= now, now < Midnight(today) + Day,
           NEW P \in Nat, CountIn(s, Midnight(today), Midnight(today) + Day - 1) < P,
           NEW d \in Nat, CountIn(s, Midnight(d), Midnight(d) + Day - 1) <= P
    PROVE  CountIn(Append(s, now), Midnight(d), Midnight(d) + Day - 1) <= P
  <1> DEFINE m == Midnight(d)
             b == m + Day - 1
  <1>1. /\ Day \in Nat /\ Day > 0 /\ m \in Nat /\ Midnight(today) \in Nat
        /\ d < today => m + Day <= Midnight(today)
        /\ today < d => Midnight(today) + Day <= m
    <2>1. Day \in Nat /\ Day > 0
      BY DEF LimiterAssumption
    <2>2. m \in Nat /\ Midnight(today) \in Nat
      BY DaysFollow
    <2> QED
      BY <2>1, <2>2, DaysFollow, ZenonT(30)
  <1>2. b \in Int /\ m \in Int
    BY <1>1
  <1> HIDE DEF m
  <1>3. /\ CountIn(s, m, b) \in Nat
        /\ CountIn(Append(s, now), m, b) = CountIn(s, m, b) + (IF now \in m..b THEN 1 ELSE 0)
    <2> HIDE DEF b
    <2>1. CountIn(s, m, b) \in Nat
      BY <1>2, CountIsNatural, ZenonT(30)
    <2>2. CountIn(Append(s, now), m, b) = CountIn(s, m, b) + (IF now \in m..b THEN 1 ELSE 0)
      BY <1>2, CountOfAppend
    <2> QED
      BY <2>1, <2>2
  <1>4. CASE d = today
    <2>1. CountIn(s, m, b) < P
      BY <1>4 DEF m
    <2> QED
      BY <1>3, <2>1 DEF m
  <1>5. CASE d # today
    <2>1. now \notin m..b
      BY <1>1, <1>5
    <2>2. CountIn(Append(s, now), m, b) = CountIn(s, m, b)
      BY <1>3, <2>1
    <2> QED
      BY <2>2 DEF m
  <1> QED
    BY <1>4, <1>5

\* Admitting, below both ceilings, leaves them in order as well.
LEMMA AdmittedInTime ==
    ASSUME LimiterAssumption, time \in Nat, stamps \in Seq(Nat),
           InOrder, MinutesHold, DaysHold, total = Len(stamps),
           NEW today \in Nat, Midnight(today) <= time, time < Midnight(today) + Day,
           \A i \in 1..Len(stamps) : stamps[i] < Midnight(today) + Day,
           NEW c, c = Within(Midnight(today), Midnight(today) + Day - 1),
           NEW w \in Seq(Nat), IsEnd(stamps, w, time),
           PerMinute # 0 => Len(w) < PerMinute,
           PerDay # 0 => c < PerDay,
           UNCHANGED time, stamps' = Append(stamps, time), window' = Append(w, time),
           day' = today, count' = c + 1, total' = total + 1
    PROVE  InOrder' /\ Counting' /\ MinutesHold' /\ DaysHold'
  <1>1. PerMinute \in Nat /\ PerDay \in Nat
    BY DEF LimiterAssumption
  <1>2. /\ Len(stamps') = Len(stamps) + 1 /\ stamps'[Len(stamps) + 1] = time
        /\ \A i \in 1..Len(stamps) : stamps'[i] = stamps[i]
    OBVIOUS
  <1>3. InOrder'
    <2>1. IsEnd(stamps', window', time)
      BY EndOfAppend
    <2>2. \A i \in 1..Len(stamps') : stamps'[i] <= time
      BY <1>2 DEF InOrder
    <2> QED
      BY <2>1, <2>2, ZenonT(30) DEF InOrder, IsEnd
  <1>4. Counting'
    <2> DEFINE m == Midnight(today)
               b == m + Day - 1
    <2>1. m \in Int /\ b \in Int /\ time \in m..b
      <3>1. Day \in Nat /\ m \in Nat
        BY DaysFollow DEF LimiterAssumption
      <3> HIDE DEF m
      <3>2. m <= time /\ time < m + Day
        BY DEF m
      <3> QED
        BY ONLY <3>1, <3>2, time \in Nat
    <2>2. CountIn(stamps', m, b) = c + 1
      <3>1. CountIn(stamps, m, b) = c
        BY ZenonT(30) DEF Within
      <3> HIDE DEF m, b
      <3>2. CountIn(Append(stamps, time), m, b)
              = CountIn(stamps, m, b) + (IF time \in m..b THEN 1 ELSE 0)
        BY <2>1, CountOfAppend
      <3> QED
        BY <2>1, <3>1, <3>2
    <2>3. \A i \in 1..Len(stamps') : stamps'[i] < m + Day
      BY <1>2
    <2>4. m <= time
      OBVIOUS
    <2>5. total' = Len(stamps')
      BY <1>2
    <2> QED
      BY <2>2, <2>3, <2>4, <2>5, ZenonT(30) DEF Counting, Within, CountIn, Midnight
  <1>5. MinutesHold'
    <2> SUFFICES ASSUME PerMinute # 0, NEW t \in Nat
                 PROVE  CountIn(Append(stamps, time), t, t + Minute - 1) <= PerMinute
      BY ZenonT(30) DEF MinutesHold, Within, CountIn
    <2>1. CountIn(stamps, t, t + Minute - 1) <= PerMinute
      BY DEF MinutesHold, Within
    <2> QED
      BY <1>1, <2>1, MinuteAdmits
  <1>6. DaysHold'
    <2> SUFFICES ASSUME PerDay # 0, NEW d \in Nat
                 PROVE  CountIn(Append(stamps, time), Midnight(d), Midnight(d) + Day - 1) <= PerDay
      BY ZenonT(30) DEF DaysHold, Within, CountIn, Midnight
    <2>1. CountIn(stamps, Midnight(d), Midnight(d) + Day - 1) <= PerDay
      BY DEF DaysHold, Within
    <2>2. CountIn(stamps, Midnight(today), Midnight(today) + Day - 1) < PerDay
      BY DEF Within
    <2> QED
      BY <1>1, <2>1, <2>2, DayAdmits
  <1> QED
    BY <1>3, <1>4, <1>5, <1>6

\* The end of a list counts as the list does, where the rest is too old.
LEMMA CountOfEnd ==
    ASSUME LimiterAssumption, NEW s \in Seq(Nat), NEW w \in Seq(Nat), NEW now \in Nat,
           IsEnd(s, w, now)
    PROVE  CountIn(w, now - Minute + 1, now) = CountIn(s, now - Minute + 1, now)
  <1> DEFINE a == now - Minute + 1
             k == Len(s) - Len(w)
             W == {i \in 1..Len(w) : w[i] \in a..now}
             S == {i \in 1..Len(s) : s[i] \in a..now}
             f == [i \in W |-> k + i]
  <1>1. Minute \in Nat /\ a \in Int
    BY DEF LimiterAssumption
  <1>2. k \in Nat /\ Len(s) = k + Len(w) /\ Len(w) \in Nat
    BY DEF IsEnd
  <1>3. \A i \in 1..Len(w) : w[i] = s[k + i]
    BY DEF IsEnd
  <1>4. ASSUME NEW i \in 1..k PROVE s[i] \notin a..now
    <2>1. now - s[i] >= Minute /\ s[i] \in Nat
      BY <1>2 DEF IsEnd
    <2> QED
      BY <1>1, <2>1
  <1> HIDE DEF a, k
  <1>5. f \in [W -> S]
    <2> SUFFICES ASSUME NEW i \in W PROVE k + i \in S
      OBVIOUS
    <2>1. i \in 1..Len(w) /\ k + i \in 1..Len(s)
      BY <1>2
    <2> QED
      BY <1>3, <2>1
  <1>6. ASSUME NEW i \in W, NEW j \in W, f[i] = f[j] PROVE i = j
    <2>1. i \in Nat /\ j \in Nat /\ k + i = k + j
      BY <1>6
    <2> QED
      BY <1>2, <2>1
  <1>7. ASSUME NEW n \in S PROVE \E i \in W : f[i] = n
    <2>1. n \notin 1..k /\ n \in 1..Len(s)
      BY <1>4
    <2>2. n - k \in 1..Len(w) /\ k + (n - k) = n
      BY <1>2, <2>1
    <2>3. n - k \in W
      BY <1>3, <2>2
    <2> QED
      BY <2>2, <2>3
  <1>8. ExistsBijection(W, S)
    <2> HIDE DEF f, W, S
    <2> QED
      BY <1>5, <1>6, <1>7
         DEF ExistsBijection, Bijection, Injection, Surjection, IsInjective
  <1>9. IsFiniteSet(W)
    <2>1. now \in Int
      OBVIOUS
    <2> QED
      BY <1>1, <2>1, CountIsNatural, ZenonT(30)
  <1>10. Cardinality(S) = Cardinality(W)
    <2> HIDE DEF W, S
    <2> QED
      BY <1>8, <1>9, FS_Bijection
  <1>11. CountIn(w, a, now) = Cardinality(W) /\ CountIn(s, a, now) = Cardinality(S)
    BY DEF CountIn
  <1> QED
    BY <1>10, <1>11 DEF a

\* The typing facts, and with them that a request's day is that of its instant.
LEMMA LimiterTypesKept ==
    ASSUME LimiterAssumption, LimiterTypes, [LimiterNext]_limitVars
    PROVE  LimiterTypes'
  <1>1. \A w \in Seq(Nat), now \in Nat : Pruned(w, now) \in Seq(Nat)
    BY PrunedIsTheEnd
  <1>2. time \div Day \in Nat
    BY DaysFollow, ZenonT(30) DEF LimiterTypes
  <1>3. ASSUME NEW r \in Calls, Arrive(r) PROVE LimiterTypes'
    BY <1>2, <1>3 DEF Arrive, LimiterTypes
  <1>4. ASSUME NEW r \in Calls, Enter(r) PROVE LimiterTypes'
    <2>1. /\ entry[r].now \in Nat /\ entry[r].today \in Nat
          /\ Pruned(window, entry[r].now) \in Seq(Nat)
      BY <1>1 DEF LimiterTypes
    <2>2. 0 = 0 \div Day
      BY DEF LimiterAssumption
    <2>3. /\ time' = time /\ entry' = [entry EXCEPT ![r] = Away] /\ day' = entry[r].today
          /\ stale' \in BOOLEAN
      BY <1>4 DEF Enter, LimiterTypes
    <2>4. /\ entry' \in [Calls -> [pc : {"away", "reading"}, now : Nat, today : Nat]]
          /\ \A q \in Calls : entry'[q].today = entry'[q].now \div Day
      BY <2>2, <2>3 DEF LimiterTypes, Away
    <2>5. window' \in Seq(Nat) /\ stamps' \in Seq(Nat) /\ count' \in Nat /\ total' \in Nat
      <3> DEFINE now == entry[r].now
                 w == Pruned(window, now)
                 c == IF day = entry[r].today THEN count ELSE 0
      <3>1. c \in Nat /\ stamps \in Seq(Nat) /\ total \in Nat
        BY DEF LimiterTypes
      <3>2. \/ window' = w /\ count' = c /\ UNCHANGED <<total, stamps>>
            \/ /\ window' = Append(w, now) /\ count' = c + 1 /\ total' = total + 1
               /\ stamps' = Append(stamps, now)
        BY <1>4, ZenonT(30) DEF Enter
      <3> HIDE DEF now, w, c
      <3>3. w \in Seq(Nat) /\ now \in Nat
        BY <2>1 DEF now, w
      <3>4. CASE window' = w /\ count' = c /\ UNCHANGED <<total, stamps>>
        BY <3>1, <3>3, <3>4
      <3>5. CASE /\ window' = Append(w, now) /\ count' = c + 1 /\ total' = total + 1
                 /\ stamps' = Append(stamps, now)
        <4>1. Append(w, now) \in Seq(Nat) /\ Append(stamps, now) \in Seq(Nat)
          BY <3>1, <3>3, AppendProperties
        <4>2. c + 1 \in Nat /\ total + 1 \in Nat
          BY <3>1
        <4> QED
          BY <3>5, <4>1, <4>2, ZenonT(30)
      <3> QED
        BY <3>2, <3>4, <3>5
    <2> QED
      BY <2>1, <2>3, <2>4, <2>5 DEF LimiterTypes
  <1>5. CASE Tick
    BY <1>5 DEF Tick, LimiterTypes
  <1>6. CASE Forget
    BY <1>6 DEF Forget, LimiterTypes
  <1>7. CASE UNCHANGED limitVars
    BY <1>7 DEF limitVars, LimiterTypes
  <1> QED
    BY <1>3, <1>4, <1>5, <1>6, <1>7 DEF LimiterNext

\* A request that enters the lock at the instant it read keeps all of it.
LEMMA EnteredInTime ==
    ASSUME LimiterAssumption, LimiterTypes, InOrder, Counting, MinutesHold, DaysHold,
           NEW r \in Calls, Enter(r), ~stale'
    PROVE  InOrder' /\ Counting' /\ MinutesHold' /\ DaysHold'
  <1> DEFINE today == entry[r].today
             w == Pruned(window, time)
             c == IF day = today THEN count ELSE 0
  <1>1. entry[r].now = time /\ time' = time
    BY ZenonT(30) DEF Enter
  <1>2. /\ time \in Nat /\ stamps \in Seq(Nat) /\ window \in Seq(Nat) /\ day \in Nat
        /\ count \in Nat /\ today \in Nat /\ today = time \div Day
    BY <1>1 DEF LimiterTypes
  <1>3. Midnight(today) <= time /\ time < Midnight(today) + Day
    BY <1>2, DaysFollow
  <1>4. w \in Seq(Nat) /\ IsEnd(window, w, time)
    BY <1>2, PrunedIsTheEnd
  <1>5. IsEnd(stamps, w, time)
    <2> HIDE DEF w
    <2> QED
      BY <1>2, <1>4, EndOfEnd DEF InOrder
  <1>6. total = Len(stamps)
    BY DEF Counting
  <1>7. \/ /\ Len(w) \in Nat /\ PerMinute \in Nat /\ PerDay \in Nat /\ c \in Nat
           /\ UNCHANGED <<time, stamps, total>> /\ window' = w /\ day' = today /\ count' = c
        \/ /\ PerMinute # 0 => Len(w) < PerMinute
           /\ PerDay # 0 => c < PerDay
           /\ UNCHANGED time /\ stamps' = Append(stamps, time) /\ window' = Append(w, time)
           /\ day' = today /\ count' = c + 1 /\ total' = total + 1
    <2>1. Len(w) \in Nat /\ PerMinute \in Nat /\ PerDay \in Nat /\ c \in Nat
      BY <1>2, <1>4 DEF LimiterAssumption
    <2>2. day' = today
      BY DEF Enter
    <2>3. CASE Refused(w, time, PerMinute) \/ (PerDay # 0 /\ c >= PerDay)
      <3>1. UNCHANGED <<stamps, total>> /\ window' = w /\ count' = c
        BY <1>1, <2>3 DEF Enter
      <3> QED
        BY <1>1, <2>1, <2>2, <3>1
    <2>4. CASE ~Refused(w, time, PerMinute) /\ ~(PerDay # 0 /\ c >= PerDay)
      <3>1. /\ stamps' = Append(stamps, time) /\ window' = Append(w, time)
            /\ count' = c + 1 /\ total' = total + 1
        BY <1>1, <2>4 DEF Enter
      <3> HIDE DEF w, c
      <3>2. (PerMinute # 0 => Len(w) < PerMinute) /\ (PerDay # 0 => c < PerDay)
        BY <2>1, <2>4 DEF Refused
      <3> QED
        BY <1>1, <2>2, <3>1, <3>2
    <2> QED
      BY <2>3, <2>4
  <1>8. /\ c = Within(Midnight(today), Midnight(today) + Day - 1)
        /\ \A i \in 1..Len(stamps) : stamps[i] < Midnight(today) + Day
    <2> HIDE DEF today
    <2> QED
      BY <1>2, <1>3, CounterIsOfToday
  <1> HIDE DEF today, w, c
  <1>9. CASE UNCHANGED <<time, stamps, total>> /\ window' = w /\ day' = today /\ count' = c
    BY <1>2, <1>3, <1>4, <1>5, <1>6, <1>8, <1>9, RefusedInTime
  <1>10. CASE /\ PerMinute # 0 => Len(w) < PerMinute
              /\ PerDay # 0 => c < PerDay
              /\ UNCHANGED time /\ stamps' = Append(stamps, time) /\ window' = Append(w, time)
              /\ day' = today /\ count' = c + 1 /\ total' = total + 1
    BY <1>2, <1>3, <1>4, <1>5, <1>6, <1>8, <1>10, AdmittedInTime, ZenonT(30)
  <1> QED
    BY <1>7, <1>9, <1>10

\* The inductive invariant: as long as no request was entered late, the deque is
\* the end of what was admitted, the counter that of its day, and no minute and
\* no day holds more than its ceiling.
THEOREM LimiterInvariant == LimiterAssumption /\ LimiterSpec => []LimiterInv
  <1> SUFFICES ASSUME LimiterAssumption PROVE LimiterSpec => []LimiterInv
    OBVIOUS
  <1>1. LimiterInit => LimiterInv
    <2> SUFFICES ASSUME LimiterInit PROVE LimiterInv
      OBVIOUS
    <2>1. 0 = 0 \div Day
      BY DEF LimiterAssumption
    <2>2. LimiterTypes
      <3>1. /\ entry \in [Calls -> [pc : {"away", "reading"}, now : Nat, today : Nat]]
            /\ \A r \in Calls : entry[r].today = 0 /\ entry[r].now = 0
        BY DEF LimiterInit, Away
      <3>2. \A r \in Calls : entry[r].today = entry[r].now \div Day
        BY <2>1, <3>1
      <3> QED
        <4>1. <<>> \in Seq(Nat) /\ 0 \in Nat /\ FALSE \in BOOLEAN
          OBVIOUS
        <4> QED
          BY <3>1, <3>2, <4>1, ZenonT(30) DEF LimiterInit, LimiterTypes
    <2>3. InOrder /\ Counting /\ MinutesHold /\ DaysHold
      <3>1. /\ window = <<>> /\ stamps = <<>> /\ day = 0 /\ count = 0 /\ total = 0
            /\ time = 0 /\ Day \in Nat /\ Day > 0 /\ PerMinute \in Nat /\ PerDay \in Nat
        BY DEF LimiterInit, LimiterAssumption
      <3>2. InOrder
        BY <3>1, Unused DEF InOrder, IsEnd
      <3>3. Counting
        <4>1. CountIn(<<>>, Midnight(0), Midnight(0) + Day - 1) = 0
          BY Unused
        <4> QED
          BY <3>1, <4>1, Unused DEF Counting, Within
      <3>4. MinutesHold /\ DaysHold
        <4>1. \A t \in Nat : CountIn(<<>>, t, t + Minute - 1) = 0
          BY Unused
        <4>2. \A d \in Nat : CountIn(<<>>, Midnight(d), Midnight(d) + Day - 1) = 0
          BY Unused
        <4>3. 0 <= PerMinute /\ 0 <= PerDay
          BY <3>1
        <4> QED
          BY <3>1, <4>1, <4>2, <4>3 DEF MinutesHold, DaysHold, Within
      <3> QED
        BY <3>2, <3>3, <3>4
    <2> QED
      BY <2>2, <2>3 DEF LimiterInv
  <1>2. LimiterInv /\ [LimiterNext]_limitVars => LimiterInv'
    <2> SUFFICES ASSUME LimiterInv, [LimiterNext]_limitVars PROVE LimiterInv'
      OBVIOUS
    <2>1. LimiterTypes /\ LimiterTypes'
      BY LimiterTypesKept DEF LimiterInv
    <2> SUFFICES ASSUME ~stale' PROVE InOrder' /\ Counting' /\ MinutesHold' /\ DaysHold'
      BY <2>1 DEF LimiterInv
    <2>2. ~stale
      BY ZenonT(30) DEF LimiterNext, Tick, Forget, Arrive, Enter, limitVars
    <2>3. InOrder /\ Counting /\ MinutesHold /\ DaysHold
      BY <2>2 DEF LimiterInv
    <2>4. ASSUME UNCHANGED <<time, window, day, count, total, stamps>>
          PROVE  InOrder' /\ Counting' /\ MinutesHold' /\ DaysHold'
      BY <2>3, <2>4
         DEF InOrder, IsEnd, Counting, MinutesHold, DaysHold, Within, CountIn,
             Midnight
    <2>5. ASSUME NEW r \in Calls, Arrive(r)
          PROVE  InOrder' /\ Counting' /\ MinutesHold' /\ DaysHold'
      BY <2>4, <2>5 DEF Arrive
    <2>6. ASSUME NEW r \in Calls, Enter(r)
          PROVE  InOrder' /\ Counting' /\ MinutesHold' /\ DaysHold'
      BY <2>1, <2>3, <2>6, EnteredInTime
    <2>7. CASE Tick
      <3>1. /\ time' = time + 1 /\ time \in Nat
            /\ UNCHANGED <<window, day, count, total, stamps>>
            /\ stamps \in Seq(Nat) /\ day \in Nat
        BY <2>1, <2>7 DEF Tick, LimiterTypes
      <3>2. InOrder'
        <4>1. \A i \in 1..Len(stamps') : stamps'[i] <= time'
          BY <2>3, <3>1 DEF InOrder
        <4>2. Minute \in Nat /\ Len(window) <= Len(stamps) /\ Len(window) \in Nat
          BY <2>1, <2>3 DEF InOrder, IsEnd, LimiterTypes, LimiterAssumption
        <4>3. \A i \in 1..(Len(stamps) - Len(window)) : time + 1 - stamps[i] >= Minute
          BY <2>3, <3>1, <4>2 DEF InOrder, IsEnd
        <4> QED
          BY <2>3, <3>1, <4>1, <4>3 DEF InOrder, IsEnd
      <3>3. Midnight(day) \in Nat
        BY <3>1, DaysFollow, ZenonT(30)
      <3>4. Counting'
        BY <2>3, <3>1, <3>3 DEF Counting, Within, CountIn, Midnight
      <3>5. MinutesHold' /\ DaysHold'
        BY <2>3, <3>1 DEF MinutesHold, DaysHold, Within, CountIn, Midnight
      <3> QED
        BY <3>2, <3>4, <3>5
    <2>8. CASE Forget
      <3>1. /\ window' = <<>> /\ stamps' = <<>> /\ day' = 0 /\ count' = 0 /\ total' = 0
            /\ time' \in Nat /\ Day \in Nat /\ Day > 0 /\ PerMinute \in Nat /\ PerDay \in Nat
        BY <2>1, <2>8 DEF Forget, LimiterTypes, LimiterAssumption
      <3>2. InOrder'
        BY <3>1, Unused DEF InOrder, IsEnd
      <3>3. Counting'
        <4>1. CountIn(<<>>, Midnight(0), Midnight(0) + Day - 1) = 0
          BY Unused
        <4>2. CountIn(stamps', Midnight(day'), Midnight(day') + Day - 1) = 0
          BY <3>1, <4>1
        <4> QED
          BY <3>1, <4>2, Unused DEF Counting, Within, CountIn, Midnight
      <3>4. MinutesHold'
        <4> SUFFICES ASSUME PerMinute # 0, NEW t \in Nat
                     PROVE  CountIn(stamps', t, t + Minute - 1) <= PerMinute
          BY DEF MinutesHold, Within, CountIn
        <4>1. CountIn(<<>>, t, t + Minute - 1) = 0
          BY Unused
        <4> QED
          BY <3>1, <4>1
      <3>5. DaysHold'
        <4> SUFFICES ASSUME PerDay # 0, NEW d \in Nat
                     PROVE  CountIn(stamps', Midnight(d), Midnight(d) + Day - 1) <= PerDay
          BY DEF DaysHold, Within, CountIn, Midnight
        <4>1. CountIn(<<>>, Midnight(d), Midnight(d) + Day - 1) = 0
          BY Unused
        <4> QED
          BY <3>1, <4>1
      <3> QED
        BY <3>2, <3>3, <3>4, <3>5
    <2>9. CASE UNCHANGED limitVars
      BY <2>4, <2>9 DEF limitVars
    <2> QED
      BY <2>5, <2>6, <2>7, <2>8, <2>9 DEF LimiterNext
  <1> QED
    BY <1>1, <1>2, PTL DEF LimiterSpec

\* CeilingsHold for every ceiling, window, day and number of requests.
THEOREM CeilingsHoldAlways == LimiterAssumption /\ LimiterSpec => []CeilingsHold
  <1> SUFFICES ASSUME LimiterAssumption PROVE LimiterSpec => []CeilingsHold
    OBVIOUS
  <1>1. LimiterInv => CeilingsHold
    <2> SUFFICES ASSUME LimiterTypes, InOrder, Counting, MinutesHold, DaysHold
                 PROVE  /\ PerMinute # 0 => \A t \in 0..time : Within(t, t + Minute - 1) <= PerMinute
                        /\ PerDay # 0 => \A d \in 0..(time \div Day) :
                              Within(Midnight(d), Midnight(d) + Day - 1) <= PerDay
                        /\ total = Len(stamps)
                        /\ InLastMinute(time) = Within(time - Minute + 1, time)
      BY DEF LimiterInv, CeilingsHold
    <2>1. /\ time \in Nat /\ window \in Seq(Nat) /\ stamps \in Seq(Nat)
          /\ Minute \in Nat /\ time \div Day \in Nat
      BY DaysFollow, ZenonT(30) DEF LimiterTypes, LimiterAssumption
    <2>2. PerMinute # 0 => \A t \in 0..time : Within(t, t + Minute - 1) <= PerMinute
      <3>1. \A t \in 0..time : t \in Nat
        BY <2>1
      <3> QED
        BY <3>1 DEF MinutesHold
    <2>3. PerDay # 0 => \A d \in 0..(time \div Day) :
                           Within(Midnight(d), Midnight(d) + Day - 1) <= PerDay
      <3>1. \A d \in 0..(time \div Day) : d \in Nat
        OBVIOUS
      <3> QED
        BY <3>1 DEF DaysHold
    <2>4. CountIn(window, time - Minute + 1, time) = CountIn(stamps, time - Minute + 1, time)
      BY <2>1, CountOfEnd DEF InOrder
    <2>5. ASSUME NEW i \in 1..Len(window)
          PROVE  Elapsed(time, window[i]) < Minute <=> window[i] \in (time - Minute + 1)..time
      <3> DEFINE k == Len(stamps) - Len(window)
      <3>1. k + i \in 1..Len(stamps)
        BY <2>1 DEF InOrder, IsEnd
      <3>2. window[i] = stamps[k + i]
        BY DEF InOrder, IsEnd
      <3> HIDE DEF k
      <3>a. stamps[k + i] <= time
        BY <3>1 DEF InOrder
      <3>b. stamps[k + i] \in Nat
        BY <2>1, <3>1
      <3>3. window[i] <= time /\ window[i] \in Nat
        BY <3>2, <3>a, <3>b, ZenonT(30)
      <3> DEFINE x == window[i]
      <3>4. Elapsed(time, x) = time - x
        BY <2>1, <3>3 DEF Elapsed
      <3> HIDE DEF x
      <3>5. x <= time /\ x \in Nat
        BY <3>3 DEF x
      <3>6. Elapsed(time, x) < Minute <=> x \in (time - Minute + 1)..time
        BY <2>1, <3>4, <3>5
      <3> QED
        BY <3>6 DEF x
    <2>6. InLastMinute(time) = CountIn(window, time - Minute + 1, time)
      <3>1. {i \in 1..Len(window) : Elapsed(time, window[i]) < Minute}
              = {i \in 1..Len(window) : window[i] \in (time - Minute + 1)..time}
        BY <2>5
      <3> QED
        BY <3>1, ZenonT(30) DEF InLastMinute, CountIn
    <2> QED
      BY <2>2, <2>3, <2>4, <2>6 DEF Counting, Within
  <1> QED
    BY <1>1, LimiterInvariant, PTL
=============================================================================

------------------------------ MODULE Scheduler ------------------------------
(***************************************************************************)
(* Admission control for the engine's slots                                *)
(* (crates/lightweight-gateway/src/scheduler.rs).                          *)
(*                                                                         *)
(* A request task is a process: it arrives, takes a slot or joins the      *)
(* queue, is granted a slot by somebody else's release, and gives it back  *)
(* by dropping its permit.  A task that is done may arrive again, so there *)
(* is no bound on how many requests a behaviour serves.                    *)
(*                                                                         *)
(* Abstractions.  The ids of queue entries and of running entries are the  *)
(* request tasks themselves.  `Inner.waiting' is a function from the       *)
(* queued tasks to their Waiter; its order of arrival is each entry's      *)
(* `ahead', the entries still queued that arrived earlier (the clock is    *)
(* read under the queue lock, so arrival order, index order and the order  *)
(* of `enqueued' are one order).  Time is the flag `aged': the entry has   *)
(* waited past the starvation ceiling.                                     *)
(***************************************************************************)
EXTENDS Naturals, FiniteSets

CONSTANTS Requests,     \* request tasks
          Peers,        \* the callers a request may come from (PeerKey)
          Swaps,        \* operations that pause admission (load, unload)
          MaxCapacity   \* largest slot count an engine is loaded with

ASSUME RequestsFinite == IsFiniteSet(Requests)
ASSUME CapacityAssumption == MaxCapacity \in Nat \ {0}

VARIABLES pc,        \* where each request task is
          waiting,   \* Inner.waiting: the queue
          running,   \* Inner.running: the tasks holding a slot
          paused,    \* Inner.paused
          capacity,  \* Scheduler.capacity
          resizing,  \* set_capacity between its store and its lock; 0 outside
          swap,      \* where each swap is in pause / drain / resume
          woken      \* the swap's Notified future has been notified

queueVars == <<pc, waiting, running>>
swapVars  == <<swap, woken>>
vars == <<pc, waiting, running, paused, capacity, resizing, swap, woken>>

Bands == {"interactive", "bulk"}

Waiter == [band  : Bands,
           peer  : Peers,
           round : Nat,
           aged  : BOOLEAN,
           ahead : SUBSET Requests]

(***************************************************************************)
(* A task is "queued" from push_waiter until its ticket sees a grant or is *)
(* dropped.  "leaving" is a ticket whose drop has been decided (its wait   *)
(* ran out, or its client went away) and has not yet reached the lock;     *)
(* "reclaiming" is a dropped ticket that was no longer in the queue.       *)
(***************************************************************************)
Stages == {"idle", "queued", "leaving", "reclaiming", "running"}

(***************************************************************************)
(* A swap holds its PauseGuard in every stage but "out".  looked, armed    *)
(* and asleep are the three points inside the loop of drain; drained and   *)
(* busy are drain having returned true and false.                          *)
(***************************************************************************)
SwapStages == {"out", "held", "looked", "armed", "asleep", "drained", "busy"}

InQueue == DOMAIN waiting

-----------------------------------------------------------------------------
(* The order of service. *)

\* Mutant of Tier: the starvation ceiling is never consulted.
TierWithoutAging(w) == IF w.band = "interactive" THEN 1 ELSE 2

Tier(w) == IF w.aged THEN 0 ELSE IF w.band = "interactive" THEN 1 ELSE 2

\* Mutant of Turn: an aged entry still waits for its caller's turn.
TurnAlwaysRound(w) == w.round

Turn(w) == IF w.aged THEN 0 ELSE w.round

\* rank(a) < rank(b): tier, then the caller's turn, then arrival.
RankBefore(a, b) ==
    LET wa == waiting[a]  wb == waiting[b]
    IN  \/ Tier(wa) < Tier(wb)
        \/ /\ Tier(wa) = Tier(wb)
           /\ \/ Turn(wa) < Turn(wb)
              \/ Turn(wa) = Turn(wb) /\ a \in wb.ahead

\* The entries whose oneshot receiver still exists: a send to them succeeds.
Receiving == {r \in Requests : pc[r] \in {"queued", "leaving"}}

(***************************************************************************)
(* What the loop "take_next, hand_over, until n slots were accepted" pops: *)
(* entries in rank order, each popped while fewer than n had accepted, and *)
(* the loop ends with n accepted or with the queue empty.  An entry whose  *)
(* receiver is gone is popped without using up a slot.                     *)
(***************************************************************************)
Popped(n) ==
    {G \in SUBSET InQueue :
        /\ \A g \in G, w \in InQueue \ G : RankBefore(g, w)
        /\ \A g \in G :
              Cardinality({h \in G \cap Receiving : RankBefore(h, g)}) < n
        /\ Cardinality(G \cap Receiving) <= n
        /\ \/ G = InQueue
           \/ Cardinality(G \cap Receiving) = n}

\* The queue with the entries of G removed.
Without(G) ==
    [w \in InQueue \ G |-> [waiting[w] EXCEPT !.ahead = @ \ G]]

\* Grant up to n slots, on top of the slots held by `holding'.
HandOut(holding, n) ==
    \E G \in Popped(n) :
        /\ waiting' = Without(G)
        /\ running' = holding \cup (G \cap Receiving)

FreeSlots(holding, limit) ==
    IF Cardinality(holding) < limit THEN limit - Cardinality(holding) ELSE 0

-----------------------------------------------------------------------------
(* Request tasks. *)

\* Mutant of CanTakeFreeSlot: off by one at the slot count.
CanTakeOneTooMany ==
    ~paused /\ Cardinality(running) <= capacity /\ InQueue = {}

CanTakeFreeSlot ==
    /\ ~paused
    /\ Cardinality(running) < capacity
    /\ InQueue = {}

\* The caller's turn: how many of its requests are queued now, in any band.
RoundOf(p) == Cardinality({w \in InQueue : waiting[w].peer = p})

PushWaiter(r, b, p) ==
    waiting' = [w \in InQueue \cup {r} |->
                   IF w = r
                   THEN [band |-> b, peer |-> p, round |-> RoundOf(p),
                         aged |-> FALSE, ahead |-> InQueue]
                   ELSE waiting[w]]

\* A slot or a place in the queue, decided under one lock.
AdmitOrEnqueue(r, b, p) ==
    /\ pc[r] = "idle"
    /\ IF CanTakeFreeSlot
       THEN /\ running' = running \cup {r}
            /\ pc' = [pc EXCEPT ![r] = "running"]
            /\ UNCHANGED waiting
       ELSE /\ PushWaiter(r, b, p)
            /\ pc' = [pc EXCEPT ![r] = "queued"]
            /\ UNCHANGED running
    /\ UNCHANGED <<paused, capacity, resizing, swapVars>>

\* Ticket::granted resolves: the grant was sent, the task takes its permit.
Granted(r) ==
    /\ pc[r] = "queued"
    /\ r \notin InQueue
    /\ pc' = [pc EXCEPT ![r] = "running"]
    /\ UNCHANGED <<waiting, running, paused, capacity, resizing, swapVars>>

\* The wait ran out: timeout polls the grant first, so it was not there yet.
TimeOut(r) ==
    /\ pc[r] = "queued"
    /\ r \in InQueue
    /\ pc' = [pc EXCEPT ![r] = "leaving"]
    /\ UNCHANGED <<waiting, running, paused, capacity, resizing, swapVars>>

\* The client disconnects: the future that owns the ticket is dropped.
Disconnect(r) ==
    /\ pc[r] = "queued"
    /\ pc' = [pc EXCEPT ![r] = "leaving"]
    /\ UNCHANGED <<waiting, running, paused, capacity, resizing, swapVars>>

\* Mutant of Withdraw: a grant that raced the drop is forgotten.
WithdrawForgetsGrant(r) ==
    /\ pc[r] = "leaving"
    /\ pc' = [pc EXCEPT ![r] = "idle"]
    /\ IF r \in InQueue THEN waiting' = Without({r}) ELSE UNCHANGED waiting
    /\ UNCHANGED <<running, paused, capacity, resizing, swapVars>>

\* Ticket::drop, under the lock: leave the queue if still in it.
Withdraw(r) ==
    /\ pc[r] = "leaving"
    /\ IF r \in InQueue
       THEN /\ waiting' = Without({r})
            /\ pc' = [pc EXCEPT ![r] = "idle"]
       ELSE /\ pc' = [pc EXCEPT ![r] = "reclaiming"]
            /\ UNCHANGED waiting
    /\ UNCHANGED <<running, paused, capacity, resizing, swapVars>>

\* Every Notified future that exists when notify_waiters is called is woken.
NotifyDrained ==
    woken' = [s \in Swaps |-> woken[s] \/ swap[s] \in {"armed", "asleep"}]

\* Scheduler::release: the slot goes back, or straight to the next waiter.
ReleaseSlot(r) ==
    LET rest == running \ {r}
    IN  /\ IF rest = {} THEN NotifyDrained ELSE UNCHANGED woken
        /\ IF paused
           THEN running' = rest /\ UNCHANGED waiting
           ELSE HandOut(rest, 1)
        /\ pc' = [pc EXCEPT ![r] = "idle"]
        /\ UNCHANGED <<paused, capacity, resizing, swap>>

\* Ticket::drop after withdraw said no: try_recv finds the unclaimed grant.
Reclaim(r) ==
    /\ pc[r] = "reclaiming"
    /\ ReleaseSlot(r)

\* SlotPermit::drop: the generation ended, or its client went away.
DropPermit(r) ==
    /\ pc[r] = "running"
    /\ ReleaseSlot(r)

\* An entry's wait passes the starvation ceiling, oldest entry first.
AgeOut(r) ==
    /\ r \in InQueue
    /\ ~waiting[r].aged
    /\ \A w \in waiting[r].ahead : waiting[w].aged
    /\ waiting' = [waiting EXCEPT ![r].aged = TRUE]
    /\ UNCHANGED <<pc, running, paused, capacity, resizing, swapVars>>

-----------------------------------------------------------------------------
(* The slot count. *)

\* set_capacity, first half: the atomic store, before the lock is taken.
StoreCapacity(n) ==
    /\ resizing = 0
    /\ capacity' = n
    /\ resizing' = n
    /\ UNCHANGED <<queueVars, paused, swapVars>>

\* set_capacity, second half: hand out what is now free, unless paused.
ApplyCapacity ==
    /\ resizing # 0
    /\ IF paused
       THEN UNCHANGED <<waiting, running>>
       ELSE HandOut(running, FreeSlots(running, resizing))
    /\ resizing' = 0
    /\ UNCHANGED <<pc, paused, capacity, swapVars>>

-----------------------------------------------------------------------------
(* Swaps: pause, drain, resume. *)

Pause(s) ==
    /\ swap[s] = "out"
    /\ paused' = TRUE
    /\ swap' = [swap EXCEPT ![s] = "held"]
    /\ UNCHANGED <<queueVars, capacity, resizing, woken>>

DrainStep(s, from, to) ==
    /\ swap[s] = from
    /\ swap' = [swap EXCEPT ![s] = to]
    /\ UNCHANGED <<queueVars, paused, capacity, resizing>>

\* Top of the loop: is anything running?
DrainLook(s) ==
    /\ DrainStep(s, "held", IF running = {} THEN "drained" ELSE "looked")
    /\ UNCHANGED woken

\* drained.notified(): from here on a notify_waiters is not missed.
DrainArm(s) ==
    /\ DrainStep(s, "looked", "armed")
    /\ woken' = [woken EXCEPT ![s] = FALSE]

\* Mutant of DrainRecheck: no second look once the future exists.
DrainNoRecheck(s) ==
    /\ DrainStep(s, "armed", "asleep")
    /\ UNCHANGED woken

\* The second check, after the future exists.
DrainRecheck(s) ==
    /\ DrainStep(s, "armed", IF running = {} THEN "drained" ELSE "asleep")
    /\ UNCHANGED woken

DrainWake(s) ==
    /\ woken[s]
    /\ DrainStep(s, "asleep", "held")
    /\ UNCHANGED woken

DrainTimeout(s) ==
    /\ DrainStep(s, "asleep", IF running = {} THEN "drained" ELSE "busy")
    /\ UNCHANGED woken

\* Mutant of Resume: the flag is cleared and nothing is handed out.
ResumeHandsNothing(s) ==
    /\ swap[s] \in {"asleep", "drained", "busy"}
    /\ swap' = [swap EXCEPT ![s] = "out"]
    /\ woken' = [woken EXCEPT ![s] = FALSE]
    /\ paused' = FALSE
    /\ UNCHANGED <<queueVars, capacity, resizing>>

(***************************************************************************)
(* PauseGuard::drop calls resume: after drain returned (the swap is over,  *)
(* or failed), or inside drain's await when the caller's future is         *)
(* dropped.                                                                *)
(***************************************************************************)
Resume(s) ==
    /\ swap[s] \in {"asleep", "drained", "busy"}
    /\ swap' = [swap EXCEPT ![s] = "out"]
    /\ woken' = [woken EXCEPT ![s] = FALSE]
    /\ paused' = FALSE
    /\ HandOut(running, FreeSlots(running, capacity))
    /\ UNCHANGED <<pc, capacity, resizing>>

-----------------------------------------------------------------------------
Init ==
    /\ pc = [r \in Requests |-> "idle"]
    /\ waiting = [r \in {} |-> {}]
    /\ running = {}
    /\ paused = FALSE
    /\ capacity \in 1..MaxCapacity
    /\ resizing = 0
    /\ swap = [s \in Swaps |-> "out"]
    /\ woken = [s \in Swaps |-> FALSE]

RequestStep(r) ==
    \/ \E b \in Bands, p \in Peers : AdmitOrEnqueue(r, b, p)
    \/ Granted(r)
    \/ TimeOut(r)
    \/ Disconnect(r)
    \/ Withdraw(r)
    \/ Reclaim(r)
    \/ DropPermit(r)
    \/ AgeOut(r)

SwapStep(s) ==
    \/ Pause(s)
    \/ DrainLook(s)
    \/ DrainArm(s)
    \/ DrainRecheck(s)
    \/ DrainWake(s)
    \/ DrainTimeout(s)
    \/ Resume(s)

Next ==
    \/ \E r \in Requests : RequestStep(r)
    \/ \E s \in Swaps : SwapStep(s)
    \/ \E n \in 1..MaxCapacity : StoreCapacity(n)
    \/ ApplyCapacity

Spec == Init /\ [][Next]_vars

(***************************************************************************)
(* Fairness.  Tasks that tokio has made ready are polled; a generation     *)
(* ends (the engine stops at its token budget, and the client's departure  *)
(* cancels it); time passes; a swap's drain has a timeout and the swap     *)
(* then drops its guard.  Clients owe nothing: arriving, timing out and    *)
(* disconnecting are not fair.                                             *)
(***************************************************************************)
Fairness ==
    /\ \A r \in Requests :
          /\ WF_vars(Granted(r))
          /\ WF_vars(Withdraw(r))
          /\ WF_vars(Reclaim(r))
          /\ WF_vars(DropPermit(r))
          /\ WF_vars(AgeOut(r))
    /\ \A s \in Swaps :
          /\ WF_vars(DrainLook(s) \/ DrainArm(s) \/ DrainRecheck(s))
          /\ WF_vars(DrainWake(s) \/ DrainTimeout(s) \/ Resume(s))
    /\ WF_vars(ApplyCapacity)

FairSpec == Spec /\ Fairness

-----------------------------------------------------------------------------
(* Properties. *)

\* Type invariant of the queue, the slots and the swaps.
TypeOK ==
    /\ pc \in [Requests -> Stages]
    /\ InQueue \subseteq Requests
    /\ waiting \in [InQueue -> Waiter]
    /\ running \subseteq Requests
    /\ paused \in BOOLEAN
    /\ capacity \in 1..MaxCapacity
    /\ resizing \in {0, capacity}
    /\ swap \in [Swaps -> SwapStages]
    /\ woken \in [Swaps -> BOOLEAN]

(***************************************************************************)
(* No slot is lost and none is held twice: a running entry belongs to      *)
(* exactly one live permit, or to one ticket that has been granted and has *)
(* not yet claimed or given back the grant; a ticket is either in the      *)
(* queue or granted, never both and never neither.  This is what the drop  *)
(* of Ticket and of SlotPermit must keep true on every path.               *)
(***************************************************************************)
SlotOwnership ==
    \A r \in Requests :
        /\ r \in running <=>
              \/ pc[r] \in {"running", "reclaiming"}
              \/ pc[r] \in {"queued", "leaving"} /\ r \notin InQueue
        /\ r \in InQueue => pc[r] \in {"queued", "leaving"}

(***************************************************************************)
(* `ahead' is the order of arrival: it relates any two queued entries one  *)
(* way, names only entries still queued, and an entry that has waited past *)
(* the ceiling has only such entries ahead of it.                          *)
(***************************************************************************)
ArrivalOrder ==
    \A w \in InQueue :
        /\ waiting[w].ahead \subseteq InQueue \ {w}
        /\ \A v \in InQueue \ {w} :
              v \in waiting[w].ahead <=> w \notin waiting[v].ahead
        /\ waiting[w].aged => \A v \in waiting[w].ahead : waiting[v].aged

(***************************************************************************)
(* Nobody queues in front of an idle slot: outside a pause, and outside    *)
(* the instant between set_capacity's store and its lock, a queued request *)
(* means that every slot is taken.                                         *)
(***************************************************************************)
NoIdleSlot ==
    ~paused /\ resizing = 0 /\ InQueue # {} => Cardinality(running) >= capacity

(***************************************************************************)
(* The number of busy slots only ever grows up to the current slot count;  *)
(* it may stay above a count that was lowered, never climb above one.      *)
(***************************************************************************)
GrowsWithinCapacity ==
    [][Cardinality(running') > Cardinality(running)
          => Cardinality(running') <= capacity']_vars

(***************************************************************************)
(* Seen from outside, the scheduler is the slot gate the rest of the       *)
(* gateway relies on: slots are taken only while admission is open and     *)
(* within the slot count, or passed on by the request that releases one.   *)
(***************************************************************************)
Gate == INSTANCE SlotGate WITH Size <- Cardinality

SlotGateRefinement == Gate!GateSpec

\* While admission stays paused no request starts, whoever releases a slot.
PauseStartsNothing ==
    [][paused /\ paused' => running' \subseteq running]_vars

(***************************************************************************)
(* drain cannot sleep through the moment the engine went idle: a drain     *)
(* that is asleep with no wake-up pending has a running request to wait    *)
(* for.                                                                    *)
(***************************************************************************)
NoLostWakeup ==
    \A s \in Swaps : swap[s] = "asleep" /\ ~woken[s] => running # {}

(***************************************************************************)
(* With one swap at a time, a drain that returned true stays true until    *)
(* the swap drops its guard: nothing runs on the engine being replaced.    *)
(***************************************************************************)
DrainedStaysIdle ==
    \A s \in Swaps : swap[s] = "drained" => running = {}

\* A live PauseGuard means that admission is paused, as its comment says.
GuardHoldsPause ==
    \A s \in Swaps : swap[s] # "out" => paused

(***************************************************************************)
(* The starvation guarantee as a step property: a request that starts      *)
(* never passes an earlier arrival that has waited past the ceiling.       *)
(***************************************************************************)
AgedNeverOvertaken ==
    [][\A g \in InQueue \cap running', w \in InQueue \cap InQueue' :
          waiting[w].aged => w \notin waiting[g].ahead]_vars

(***************************************************************************)
(* What the rotation owes a caller: its first queued request, if it is     *)
(* interactive, is never passed by a request that arrived after it,        *)
(* however many requests the other callers send.                           *)
(***************************************************************************)
FirstTurnKeepsPlace ==
    [][\A g \in InQueue \cap running', w \in InQueue \cap InQueue' :
          waiting[w].round = 0 /\ waiting[w].band = "interactive"
             => w \notin waiting[g].ahead]_vars

(***************************************************************************)
(* Nobody waits forever: under fairness, and however many requests keep    *)
(* arriving, a request in the queue leaves it (with a slot, or because its *)
(* client gave up).                                                        *)
(***************************************************************************)
NobodyWaitsForever ==
    \A r \in Requests : r \in InQueue ~> r \notin InQueue

=============================================================================

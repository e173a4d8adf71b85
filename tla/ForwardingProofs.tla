-------------------------- MODULE ForwardingProofs ---------------------------
(***************************************************************************)
(* What the forwarding of a request guarantees: the steps of the walk, of  *)
(* the commitment and of the fallback keep the invariant of                *)
(* ForwardingEnds, and it implies the properties of Forwarding.            *)
(***************************************************************************)
EXTENDS ForwardingEnds

\* The provers have half a minute for each leaf.
USE SMTT(30), ZenonT(30)

-----------------------------------------------------------------------------
(* The steps of the walk keep it. *)

\* The next candidate worth trying is sent the request.
LEMMA SendKeepsInv ==
    ASSUME ForwardingAssumption, Inv, Send
    PROVE  Inv'
<1> DEFINE j == at'
           n == Len(attempts)
           a == [route |-> route, deployment |-> plan[j], outcome |-> "pending"]
<1>1. /\ pc = "candidate" /\ pc' = "sent" /\ j \in Viable(at, walk.floor)
      /\ \A k \in Viable(at, walk.floor) : j <= k
      /\ attempts' = Append(attempts, a)
      /\ UNCHANGED <<due, kind, route, left, plan, walk, failure, tracker, log, answer>>
  BY DEF Send
<1>2. /\ pc \in Open /\ pc' \in Open /\ pc' \notin Relayed /\ pc' # "routed" /\ pc' # "planning"
      /\ pc' # "next" /\ pc' # "failed" /\ pc # "sent" /\ pc' \in Walking /\ pc \in Walking
  BY <1>1 DEF Open, Relayed, Walking
<1>3. /\ route \in Routes /\ plan \in Seq(Deployments) /\ at \in Nat /\ at > 0
      /\ attempts \in Seq(AttemptType) /\ n \in Nat
  BY <1>1, <1>2 DEF Inv, Types, OnCourse, Walked
<1>4. j \in Nat /\ j \in 1..Len(plan) /\ at <= j /\ Larger(plan[j], walk.floor)
  BY <1>1, <1>3 DEF Viable
<1>5. a \in AttemptType /\ a.route = route /\ a.deployment = plan[j] /\ a.outcome = "pending"
  BY <1>3, <1>4 DEF AttemptType, AttemptOutcomes
<1> HIDE DEF a, j, n
<1>6. /\ attempts' \in Seq(AttemptType) /\ Len(attempts') = n + 1 /\ attempts'[n + 1] = a
      /\ DOMAIN attempts' = 1..(n + 1) /\ DOMAIN attempts = 1..n
      /\ \A i \in 1..n : attempts'[i] = attempts[i]
  BY <1>1, <1>3, <1>5 DEF n
<1>7. Types'
  BY <1>1, <1>2, <1>4, <1>6, ZenonT(30) DEF Inv, Types, j
<1>8. /\ OnCourse' /\ Tracking' /\ Heard' /\ HeardLast' /\ Counting' /\ CountedOnce'
      /\ LabelIsTerminal' /\ BudgetIsCausal'
  BY <1>1, <1>2, StaysOnRoute
<1>9. ReasonsAreEarned'
  BY <1>2 DEF ReasonsAreEarned
<1>10. \A i \in 1..n : attempts[i].outcome \in {"failed", "context_overflow"}
  BY <1>2, <1>6 DEF Inv, Attempted
<1>11. Attempted'
  <2>1. \A i \in DOMAIN attempts' :
          attempts'[i].route # route' =>
             /\ \E k \in 1..Len(log'.moves) : attempts'[i].route = log'.moves[k].from
             /\ attempts'[i].outcome \in {"failed", "context_overflow"}
    BY <1>1, <1>3, <1>5, <1>6, <1>10 DEF Inv, Attempted
  <2>2. \A i, k \in DOMAIN attempts' :
          i < k /\ attempts'[i].route = route' => attempts'[k].route = route'
    BY <1>1, <1>3, <1>5, <1>6 DEF Inv, Attempted
  <2>3. \A i \in DOMAIN attempts' :
          attempts'[i].outcome \in {"failed", "context_overflow"} \/ i = Len(attempts')
    BY <1>3, <1>6, <1>10
  <2>4. attempts' # <<>> /\ attempts'[Len(attempts')] =
               [route |-> route', deployment |-> plan'[at'], outcome |-> "pending"]
    <3>1. attempts' # <<>>
      BY <1>3, <1>6
    <3>2. attempts'[Len(attempts')] = a
      BY <1>6
    <3> QED
      BY <1>1, <3>1, <3>2 DEF a, j
  <2> QED
    BY <1>1, <1>2, <2>1, <2>2, <2>3, <2>4, ZenonT(30) DEF Attempted
<1>12. /\ Sent(route)' = Sent(route) \cup {n + 1} /\ Sent(route) \subseteq 1..n
       /\ \A i \in Sent(route) : attempts'[i] = attempts[i]
  BY <1>1, <1>3, <1>5, <1>6 DEF Sent
<1>13. Tried' = Tried \cup {plan[j]}
  BY <1>5, <1>6, <1>12 DEF Tried
<1>14. Overflowed' = Overflowed
  <2> DEFINE S == {i \in Sent(route) : attempts[i].outcome = "context_overflow"}
             T == {i \in Sent(route)' : attempts'[i].outcome = "context_overflow"}
  <2>1. T = S
    BY <1>5, <1>6, <1>12
  <2>2. \A i \in S : attempts'[i].deployment = attempts[i].deployment
    BY <1>12
  <2>3. Overflowed = {attempts[i].deployment : i \in S}
        /\ Overflowed' = {attempts'[i].deployment : i \in T}
    BY DEF Overflowed
  <2> HIDE DEF S, T
  <2> QED
    BY <2>1, <2>2, <2>3
<1>15. \A i \in Sent(route) : attempts[i].outcome = "context_overflow" =>
                /\ walk.overflow
                /\ Context[attempts[i].deployment] <= walk.floor
                /\ Context[attempts[i].deployment] = 0 => walk.floor = MaxU32
  BY <1>2, ZenonT(30) DEF Inv, Walked
<1>16. OverflowGrows'
  <2> SUFFICES ASSUME NEW i \in 1..Len(attempts'), NEW k \in 1..Len(attempts'), i < k,
                      attempts'[i].route = attempts'[k].route,
                      attempts'[i].outcome = "context_overflow"
               PROVE  /\ Context[attempts'[i].deployment] # 0
                      /\ Context[attempts'[k].deployment] > Context[attempts'[i].deployment]
    BY DEF OverflowGrows
  <2>1. CASE k \in 1..n
    BY <1>3, <1>6, <2>1 DEF Inv, OverflowGrows, n
  <2>2. CASE k = n + 1
    <3>1. i \in Sent(route) /\ attempts'[i] = attempts[i] /\ attempts'[k].deployment = plan[j]
      BY <1>3, <1>5, <1>6, <2>2 DEF Sent
    <3> DEFINE x == Context[attempts[i].deployment]
               y == Context[plan[j]]
    <3>2. /\ walk.overflow /\ x <= walk.floor /\ (x = 0 => walk.floor = MaxU32)
      BY <1>15, <3>1
    <3>3. walk.floor # 0
      BY <1>2, <3>2, ZenonT(30) DEF Inv, Walked
    <3>4. y > walk.floor
      BY <1>4, <3>3 DEF Larger
    <3>5. /\ x \in 0..MaxU32 /\ y \in 0..MaxU32 /\ walk.floor \in 0..MaxU32 /\ MaxU32 \in Nat
      <4>1. attempts[i].deployment \in Deployments /\ plan[j] \in Deployments
        <5>1. i \in 1..Len(attempts)
          BY <1>6, <3>1 DEF Sent, n
        <5>2. attempts[i] \in AttemptType
          BY <1>3, <5>1
        <5> QED
          BY <1>3, <1>4, <5>2 DEF AttemptType
      <4> QED
        BY <4>1 DEF ForwardingAssumption, Inv, Types
    <3> HIDE DEF x, y
    <3>6. x # 0 /\ y > x
      BY <3>2, <3>4, <3>5
    <3> QED
      BY <3>1, <3>6 DEF x, y
  <2> QED
    BY <1>3, <1>6, <2>1, <2>2
<1>17. Walked'
  <2>1. Passed' = j /\ Passed = at - 1
    BY <1>1 DEF Passed, j
  <2>2. /\ IsInjective(plan') /\ at' > 0 /\ at' <= Len(plan') /\ at' <= Len(plan') + 1
        /\ plan' # <<>>
    BY <1>1, <1>2, <1>3, <1>4 DEF Inv, Walked, j
  <2>3. /\ walk'.overflow <=> walk'.floor # 0
        /\ walk'.refusal = 0 => ~walk'.overflow
        /\ walk'.refusal = 400 => walk'.overflow
        /\ walk'.overflow => \E d \in Overflowed' : Context[d] \in {0, walk'.floor}
    BY <1>1, <1>2, <1>14, ZenonT(30) DEF Inv, Walked
  <2>4. \A i \in Sent(route)' : attempts'[i].outcome = "context_overflow" =>
                /\ walk'.overflow
                /\ Context[attempts'[i].deployment] <= walk'.floor
                /\ Context[attempts'[i].deployment] = 0 => walk'.floor = MaxU32
    <3> SUFFICES ASSUME NEW i \in Sent(route)', attempts'[i].outcome = "context_overflow"
                 PROVE  /\ walk.overflow
                        /\ Context[attempts'[i].deployment] <= walk.floor
                        /\ Context[attempts'[i].deployment] = 0 => walk.floor = MaxU32
      BY <1>1, ZenonT(30)
    <3>1. i # n + 1
      BY <1>5, <1>6
    <3>2. i \in Sent(route) /\ attempts'[i] = attempts[i]
      BY <1>12, <3>1
    <3> QED
      BY <1>15, <3>2, ZenonT(30)
  <2>5. Behind(Passed) \subseteq Behind(Passed)' /\ j \in Behind(Passed)'
    BY <1>1, <1>3, <1>4, <2>1 DEF Behind
  <2>6. \A i \in Sent(route)' : \E k \in Behind(Passed)' : attempts'[i].deployment = plan'[k]
    <3> SUFFICES ASSUME NEW i \in Sent(route)'
                 PROVE  \E k \in Behind(Passed)' : attempts'[i].deployment = plan'[k]
      OBVIOUS
    <3>1. CASE i = n + 1
      BY <1>1, <1>5, <1>6, <2>5, <3>1
    <3>2. CASE i \in Sent(route)
      <4>1. PICK k \in Behind(Passed) : attempts[i].deployment = plan[k]
        BY <1>1, <3>2, ZenonT(30) DEF Inv, Walked
      <4> QED
        BY <1>1, <1>12, <2>5, <3>2, <4>1, ZenonT(30)
    <3> QED
      BY <1>12, <3>1, <3>2
  <2>7. \A k \in Behind(Passed)' : plan'[k] \in Tried' \/ ~Larger(plan'[k], walk'.floor)
    <3> SUFFICES ASSUME NEW k \in Behind(Passed)'
                 PROVE  plan[k] \in Tried' \/ ~Larger(plan[k], walk.floor)
      BY <1>1, ZenonT(30) DEF Larger
    <3>1. k \in 1..Len(plan) /\ k <= j
      BY <1>1, <2>1 DEF Behind
    <3>2. CASE k < at
      <4>1. k \in Behind(Passed)
        BY <1>3, <2>1, <3>1, <3>2 DEF Behind
      <4>2. plan[k] \in Tried \/ ~Larger(plan[k], walk.floor)
        BY <1>1, <4>1, ZenonT(30) DEF Inv, Walked
      <4> QED
        BY <1>13, <4>2
    <3>3. CASE at <= k /\ k < j
      <4>1. k \in at..Len(plan) /\ k \notin Viable(at, walk.floor)
        BY <1>1, <1>3, <1>4, <3>1, <3>3
      <4> QED
        BY <4>1 DEF Viable
    <3>4. CASE k = j
      BY <1>13, <3>4
    <3> QED
      BY <1>3, <1>4, <3>1, <3>2, <3>3, <3>4
  <2> QED
    BY <1>1, <1>2, <2>2, <2>3, <2>4, <2>6, <2>7, ZenonT(30) DEF Walked
<1> QED
  BY <1>7, <1>8, <1>9, <1>11, <1>16, <1>17 DEF Inv

\* The type of a walk.
WalkType == [floor : 0..MaxU32, refusal : {0, 400, 503}, overflow : BOOLEAN]

\* What the two ways to come back from a deployment without an answer share.
Returns(o) ==
    /\ pc = "sent" /\ pc' = "next" /\ Record(o) /\ o \in {"failed", "context_overflow"}
    /\ walk' \in WalkType
    /\ UNCHANGED <<due, kind, route, left, plan, at, failure, tracker, log, answer>>

\* Its attempt is over, and the others are as they were.
LEMMA ReturnedAttempts ==
    ASSUME ForwardingAssumption, Inv, NEW o, Returns(o)
    PROVE  /\ attempts' \in Seq(AttemptType) /\ Len(attempts') = Len(attempts)
           /\ DOMAIN attempts' = DOMAIN attempts /\ DOMAIN attempts = 1..Len(attempts)
           /\ Len(attempts) \in Sent(route) /\ attempts[Len(attempts)].deployment = plan[at]
           /\ attempts[Len(attempts)].outcome = "pending"
           /\ Sent(route)' = Sent(route) /\ Tried' = Tried
           /\ \A i \in DOMAIN attempts :
                /\ attempts'[i].route = attempts[i].route
                /\ attempts'[i].deployment = attempts[i].deployment
                /\ attempts'[i].outcome = IF i = Len(attempts) THEN o ELSE attempts[i].outcome
<1>1. /\ attempts # <<>> /\ attempts \in Seq(AttemptType)
      /\ attempts[Len(attempts)] =
               [route |-> route, deployment |-> plan[at], outcome |-> "pending"]
  BY ZenonT(30) DEF Inv, Types, Attempted, Returns
<1>2. attempts' = [attempts EXCEPT ![Len(attempts)].outcome = o] /\ o \in AttemptOutcomes
      /\ route' = route
  BY DEF Returns, Record, AttemptOutcomes
<1>3. /\ attempts' \in Seq(AttemptType) /\ Len(attempts') = Len(attempts)
      /\ DOMAIN attempts' = DOMAIN attempts /\ DOMAIN attempts = 1..Len(attempts)
      /\ Len(attempts) \in DOMAIN attempts
      /\ \A i \in DOMAIN attempts :
                /\ attempts'[i].route = attempts[i].route
                /\ attempts'[i].deployment = attempts[i].deployment
                /\ attempts'[i].outcome = IF i = Len(attempts) THEN o ELSE attempts[i].outcome
  BY <1>1, <1>2, Recorded
<1>4. Len(attempts) \in Sent(route) /\ attempts[Len(attempts)].deployment = plan[at]
      /\ attempts[Len(attempts)].outcome = "pending"
  BY <1>1, <1>3 DEF Sent
<1>5. Sent(route)' = Sent(route)
  BY <1>2, <1>3 DEF Sent
<1>6. Tried' = Tried
  <2>1. \A i \in Sent(route) : attempts'[i].deployment = attempts[i].deployment
    BY <1>3 DEF Sent
  <2> QED
    BY <1>5, <2>1, ZenonT(30) DEF Tried
<1> QED
  BY <1>3, <1>4, <1>5, <1>6, ZenonT(30)

\* All but the walk is kept by it.
LEMMA ReturnKeeps ==
    ASSUME ForwardingAssumption, Inv, NEW o, Returns(o)
    PROVE  /\ Types' /\ OnCourse' /\ Tracking' /\ Attempted' /\ Heard' /\ HeardLast' /\ Counting'
           /\ CountedOnce' /\ LabelIsTerminal' /\ ReasonsAreEarned' /\ OverflowGrows'
           /\ BudgetIsCausal'
<1>1. /\ pc = "sent" /\ pc' = "next" /\ o \in {"failed", "context_overflow"} /\ walk' \in WalkType
      /\ UNCHANGED <<due, kind, route, left, plan, at, failure, tracker, log, answer>>
  BY DEF Returns
<1>2. /\ pc \in Open /\ pc' \in Open /\ pc' \notin Relayed
      /\ pc' \notin {"routed", "planning", "sent", "failed"}
  BY <1>1 DEF Open, Relayed
<1>3. /\ attempts' \in Seq(AttemptType) /\ Len(attempts') = Len(attempts)
      /\ DOMAIN attempts' = DOMAIN attempts /\ DOMAIN attempts = 1..Len(attempts)
      /\ Sent(route)' = Sent(route) /\ Len(attempts) \in Sent(route)
      /\ \A i \in DOMAIN attempts :
                /\ attempts'[i].route = attempts[i].route
                /\ attempts'[i].deployment = attempts[i].deployment
                /\ attempts'[i].outcome = IF i = Len(attempts) THEN o ELSE attempts[i].outcome
  BY ReturnedAttempts
<1>4. Types'
  BY <1>1, <1>2, <1>3, ZenonT(30) DEF Inv, Types, WalkType
<1>5. /\ OnCourse' /\ Tracking' /\ Heard' /\ HeardLast' /\ Counting' /\ CountedOnce'
      /\ LabelIsTerminal' /\ BudgetIsCausal'
  BY <1>1, <1>2, StaysOnRoute
<1>6. ReasonsAreEarned'
  BY <1>2, ZenonT(30) DEF ReasonsAreEarned
<1>7. OverflowGrows'
  <2> SUFFICES ASSUME NEW i \in 1..Len(attempts'), NEW k \in 1..Len(attempts'), i < k,
                      attempts'[i].route = attempts'[k].route,
                      attempts'[i].outcome = "context_overflow"
               PROVE  /\ Context[attempts'[i].deployment] # 0
                      /\ Context[attempts'[k].deployment] > Context[attempts'[i].deployment]
    BY DEF OverflowGrows
  <2>0. Len(attempts) \in Nat /\ Len(attempts') = Len(attempts)
    BY <1>3 DEF Inv, Types
  <2>1. i # Len(attempts)
    BY <2>0
  <2>2. attempts[i].outcome = "context_overflow" /\ attempts[i].route = attempts[k].route
        /\ i \in 1..Len(attempts) /\ k \in 1..Len(attempts)
    BY <1>3, <2>1, ZenonT(30)
  <2>3. /\ Context[attempts[i].deployment] # 0
        /\ Context[attempts[k].deployment] > Context[attempts[i].deployment]
    BY <2>2 DEF Inv, OverflowGrows
  <2> QED
    BY <1>3, <2>2, <2>3
<1>8. Attempted'
  <2>0. attempts[Len(attempts)].route = route
    BY <1>3 DEF Sent
  <2>1. \A i \in DOMAIN attempts' :
          attempts'[i].route # route' =>
             /\ \E k \in 1..Len(log'.moves) : attempts'[i].route = log'.moves[k].from
             /\ attempts'[i].outcome \in {"failed", "context_overflow"}
    <3> SUFFICES ASSUME NEW i \in DOMAIN attempts, attempts[i].route # route
                 PROVE  /\ \E k \in 1..Len(log.moves) : attempts[i].route = log.moves[k].from
                        /\ attempts'[i].outcome \in {"failed", "context_overflow"}
      BY <1>1, <1>3
    <3>1. i # Len(attempts)
      BY <2>0
    <3> QED
      BY <1>3, <3>1, ZenonT(30) DEF Inv, Attempted
  <2>2. \A i, k \in DOMAIN attempts' :
          i < k /\ attempts'[i].route = route' => attempts'[k].route = route'
    BY <1>1, <1>3 DEF Inv, Attempted
  <2>3. \A i \in DOMAIN attempts' : attempts'[i].outcome \in {"failed", "context_overflow"}
    <3> SUFFICES ASSUME NEW i \in DOMAIN attempts
                 PROVE  attempts'[i].outcome \in {"failed", "context_overflow"}
      BY <1>3, ZenonT(30)
    <3>1. CASE i = Len(attempts)
      BY <1>1, <1>3, <3>1
    <3>2. CASE i # Len(attempts)
      BY <1>3, <3>2, ZenonT(30) DEF Inv, Attempted
    <3> QED
      BY <3>1, <3>2
  <2>4. (Sent(route) # {})'
    BY <1>3
  <2> QED
    BY <1>2, <2>1, <2>2, <2>3, <2>4 DEF Attempted
<1> QED
  BY <1>4, <1>5, <1>6, <1>7, <1>8

\* The next candidate is come to after a refusal or a lost connection.
LEMMA NextKeepsInv ==
    ASSUME ForwardingAssumption, Inv, NextCandidate
    PROVE  Inv'
<1>1. walk \in WalkType /\ pc = "sent" /\ pc' = "next" /\ pc \in Walking
  BY DEF Inv, Types, WalkType, NextCandidate, Walking
<1>2. /\ walk' \in WalkType /\ walk'.floor = walk.floor /\ walk'.overflow = walk.overflow
      /\ walk'.refusal \in {walk.refusal, 503}
  BY <1>1 DEF NextCandidate, WalkType
<1>3. Returns("failed")
  BY <1>2 DEF NextCandidate, Returns
<1>4. /\ Types' /\ OnCourse' /\ Tracking' /\ Attempted' /\ Heard' /\ HeardLast' /\ Counting'
      /\ CountedOnce' /\ LabelIsTerminal' /\ ReasonsAreEarned' /\ OverflowGrows'
      /\ BudgetIsCausal'
  BY <1>3, ReturnKeeps
<1>5. /\ Sent(route)' = Sent(route) /\ Tried' = Tried /\ DOMAIN attempts = 1..Len(attempts)
      /\ attempts[Len(attempts)].outcome = "pending"
      /\ \A i \in DOMAIN attempts :
            /\ attempts'[i].deployment = attempts[i].deployment
            /\ attempts'[i].outcome = IF i = Len(attempts) THEN "failed" ELSE attempts[i].outcome
  BY <1>3, ReturnedAttempts
<1>6. plan' = plan /\ at' = at /\ route' = route
  BY <1>3 DEF Returns
<1>7. \A i \in Sent(route) :
         /\ attempts'[i].deployment = attempts[i].deployment
         /\ attempts'[i].outcome = "context_overflow" <=> attempts[i].outcome = "context_overflow"
  BY <1>5 DEF Sent
<1>8. Overflowed' = Overflowed
  <2> DEFINE S == {i \in Sent(route) : attempts[i].outcome = "context_overflow"}
  <2>1. S = {i \in Sent(route)' : attempts'[i].outcome = "context_overflow"}
    BY <1>5, <1>7
  <2>2. \A i \in S : attempts'[i].deployment = attempts[i].deployment
    BY <1>7
  <2>3. Overflowed = {attempts[i].deployment : i \in S}
        /\ Overflowed' = {attempts'[i].deployment : i \in S}
    BY <2>1 DEF Overflowed
  <2> HIDE DEF S
  <2> QED
    BY <2>2, <2>3
<1>9. Behind(Passed)' = Behind(Passed)
  BY <1>1, <1>6 DEF Behind, Passed
<1>10. Walked'
  <2>1. /\ IsInjective(plan') /\ at' > 0 /\ at' <= Len(plan') /\ at' <= Len(plan') + 1
        /\ plan' # <<>>
    BY <1>1, <1>6, ZenonT(30) DEF Inv, Walked
  <2>2. /\ walk'.overflow <=> walk'.floor # 0
        /\ walk'.refusal = 0 => ~walk'.overflow
        /\ walk'.refusal = 400 => walk'.overflow
        /\ walk'.overflow => \E d \in Overflowed' : Context[d] \in {0, walk'.floor}
    BY <1>1, <1>2, <1>8 DEF Inv, Walked
  <2>3. \A i \in Sent(route)' : attempts'[i].outcome = "context_overflow" =>
                /\ walk'.overflow
                /\ Context[attempts'[i].deployment] <= walk'.floor
                /\ Context[attempts'[i].deployment] = 0 => walk'.floor = MaxU32
    BY <1>1, <1>2, <1>5, <1>7 DEF Inv, Walked
  <2>4. \A i \in Sent(route)' : \E k \in Behind(Passed)' : attempts'[i].deployment = plan'[k]
    BY <1>1, <1>5, <1>6, <1>7, <1>9 DEF Inv, Walked
  <2>5. \A k \in Behind(Passed)' : plan'[k] \in Tried' \/ ~Larger(plan'[k], walk'.floor)
    BY <1>1, <1>2, <1>5, <1>6, <1>9 DEF Inv, Walked, Larger
  <2> QED
    BY <1>1, <2>1, <2>2, <2>3, <2>4, <2>5, ZenonT(30) DEF Walked
<1> QED
  BY <1>4, <1>10 DEF Inv

\* A deployment refused the prompt as too long.
LEMMA OverflowKeepsInv ==
    ASSUME ForwardingAssumption, Inv, Overflow
    PROVE  Inv'
<1> DEFINE f == walk.floor
           c == Context[plan[at]]
           g == Raised(f, c)
<1>1. /\ pc = "sent" /\ pc' = "next" /\ pc \in Walking
      /\ walk' = [floor |-> g, refusal |-> 400, overflow |-> TRUE]
  BY ZenonT(30) DEF Overflow, Walking
<1>2. /\ f \in 0..MaxU32 /\ MaxU32 \in Nat /\ MaxU32 > 0 /\ plan \in Seq(Deployments)
      /\ at \in 1..Len(plan)
  BY <1>1 DEF Inv, Types, Walked, ForwardingAssumption
<1>3. c \in 0..MaxU32 /\ plan[at] \in Deployments
  BY <1>2 DEF ForwardingAssumption
<1> HIDE DEF f, c
<1>4. /\ g \in 0..MaxU32 /\ g # 0 /\ f <= g /\ c <= g /\ (c = 0 => g = MaxU32)
      /\ g = f \/ c \in {0, g}
  BY <1>2, <1>3 DEF Raised
<1> HIDE DEF g
<1>5. /\ walk' \in WalkType /\ walk'.floor = g /\ walk'.overflow = TRUE /\ walk'.refusal = 400
  BY <1>1, <1>4 DEF WalkType
<1>6. Returns("context_overflow")
  BY <1>5 DEF Overflow, Returns
<1>7. /\ Types' /\ OnCourse' /\ Tracking' /\ Attempted' /\ Heard' /\ HeardLast' /\ Counting'
      /\ CountedOnce' /\ LabelIsTerminal' /\ ReasonsAreEarned' /\ OverflowGrows'
      /\ BudgetIsCausal'
  BY <1>6, ReturnKeeps
<1> DEFINE n == Len(attempts)
<1>8. /\ Sent(route)' = Sent(route) /\ Tried' = Tried /\ DOMAIN attempts = 1..n
      /\ n \in Sent(route) /\ attempts[n].deployment = plan[at]
      /\ \A i \in DOMAIN attempts :
            /\ attempts'[i].deployment = attempts[i].deployment
            /\ attempts'[i].outcome = IF i = n THEN "context_overflow" ELSE attempts[i].outcome
  BY <1>6, ReturnedAttempts, ZenonT(30)
<1>9. plan' = plan /\ at' = at /\ route' = route
  BY <1>6 DEF Returns
<1> HIDE DEF n
<1>10. \A i \in Sent(route) : attempts'[i].deployment = attempts[i].deployment /\ i \in DOMAIN attempts
  BY <1>8, ZenonT(30) DEF Sent
<1>11. plan[at] \in Overflowed'
  BY <1>8, <1>9, <1>10 DEF Overflowed
<1>12. Overflowed \subseteq Overflowed'
  BY <1>8, <1>9, <1>10 DEF Overflowed
<1>13. Behind(Passed)' = Behind(Passed)
  BY <1>1, <1>9 DEF Behind, Passed
<1>14. Walked'
  <2>1. /\ IsInjective(plan') /\ at' > 0 /\ at' <= Len(plan') /\ at' <= Len(plan') + 1
        /\ plan' # <<>>
    BY <1>1, <1>9, ZenonT(30) DEF Inv, Walked
  <2>2. \E d \in Overflowed' : Context[d] \in {0, g}
    <3>1. CASE c \in {0, g}
      BY <1>11, <3>1 DEF c
    <3>2. CASE g = f
      <4>1. walk.overflow
        BY <1>1, <1>4, <3>2, ZenonT(30) DEF Inv, Walked, f
      <4>2. \E d \in Overflowed : Context[d] \in {0, f}
        BY <1>1, <4>1, ZenonT(30) DEF Inv, Walked, f
      <4> QED
        BY <1>12, <3>2, <4>2
    <3> QED
      BY <1>4, <3>1, <3>2
  <2>3. \A i \in Sent(route)' : attempts'[i].outcome = "context_overflow" =>
                /\ walk'.overflow
                /\ Context[attempts'[i].deployment] <= walk'.floor
                /\ Context[attempts'[i].deployment] = 0 => walk'.floor = MaxU32
    <3> SUFFICES ASSUME NEW i \in Sent(route), attempts'[i].outcome = "context_overflow"
                 PROVE  /\ Context[attempts[i].deployment] <= g
                        /\ Context[attempts[i].deployment] = 0 => g = MaxU32
      BY <1>5, <1>8, <1>10
    <3>1. CASE i = n
      BY <1>4, <1>8, <3>1 DEF c
    <3>2. CASE i # n
      <4> DEFINE x == Context[attempts[i].deployment]
      <4>1. attempts[i].outcome = "context_overflow"
        BY <1>8, <1>10, <3>2, ZenonT(30)
      <4>2. x <= f /\ (x = 0 => f = MaxU32)
        BY <1>1, <4>1, ZenonT(30) DEF Inv, Walked, f
      <4>3. x \in 0..MaxU32
        <5>1. attempts[i] \in AttemptType
          BY <1>10 DEF Inv, Types
        <5> QED
          BY <5>1 DEF AttemptType, ForwardingAssumption
      <4> HIDE DEF x
      <4>4. x <= g /\ (x = 0 => g = MaxU32)
        BY <1>2, <1>4, <4>2, <4>3
      <4> QED
        BY <4>4 DEF x
    <3> QED
      BY <3>1, <3>2
  <2>4. \A i \in Sent(route)' : \E k \in Behind(Passed)' : attempts'[i].deployment = plan'[k]
    BY <1>1, <1>8, <1>9, <1>10, <1>13 DEF Inv, Walked
  <2>5. \A k \in Behind(Passed)' : plan'[k] \in Tried' \/ ~Larger(plan'[k], walk'.floor)
    <3> SUFFICES ASSUME NEW k \in Behind(Passed), plan[k] \notin Tried
                 PROVE  ~Larger(plan[k], g)
      BY <1>5, <1>8, <1>9, <1>13
    <3>1. ~Larger(plan[k], f)
      BY <1>1, ZenonT(30) DEF Inv, Walked, f
    <3>2. Context[plan[k]] \in 0..MaxU32
      <4>1. plan[k] \in Deployments
        BY <1>2 DEF Behind
      <4> QED
        BY <4>1 DEF ForwardingAssumption
    <3> QED
      BY <1>2, <1>4, <3>1, <3>2 DEF Larger
  <2>6. /\ walk'.overflow <=> walk'.floor # 0
        /\ walk'.refusal = 0 => ~walk'.overflow
        /\ walk'.refusal = 400 => walk'.overflow
        /\ walk'.overflow => \E d \in Overflowed' : Context[d] \in {0, walk'.floor}
    BY <1>4, <1>5, <2>2
  <2> QED
    BY <1>1, <2>1, <2>3, <2>4, <2>5, <2>6, ZenonT(30) DEF Walked
<1> QED
  BY <1>7, <1>14 DEF Inv

\* The walk goes on to the next candidate, if there is one.
LEMMA FailoverKeepsInv ==
    ASSUME ForwardingAssumption, Inv, Failover,
           ~(Viable(at + 1, walk.floor) # {} /\ due)
    PROVE  Inv'
<1> DEFINE some == Viable(at + 1, walk.floor) # {}
<1>1. /\ pc = "next" /\ pc' = "candidate" /\ at' = at + 1
      /\ log' = IF some THEN [log EXCEPT !.failovers = @ + 1] ELSE log
      /\ UNCHANGED <<due, kind, route, left, plan, walk, attempts, lease, failure, tracker,
                     answer>>
  BY ZenonT(30) DEF Failover
<1> HIDE DEF some
<1>2. /\ pc \in Open /\ pc' \in Open /\ pc' \notin Relayed /\ pc \in Walking /\ pc' \in Walking
      /\ pc' \notin {"routed", "planning", "sent", "next", "failed"}
  BY <1>1 DEF Open, Relayed, Walking
<1>3. /\ log' \in LogType /\ log'.counted = log.counted /\ log'.traces = log.traces
      /\ log'.moves = log.moves /\ log'.observed = log.observed
  <2>1. log \in LogType /\ log.failovers + 1 \in Nat
    BY DEF Inv, Types, LogType
  <2> QED
    BY <1>1, <2>1, ZenonT(30) DEF LogType
<1>4. at \in Nat /\ at <= Len(plan) /\ plan \in Seq(Deployments) /\ at > 0 /\ plan # <<>>
  BY <1>1, <1>2 DEF Inv, Types, Walked
<1>5. Types'
  BY <1>1, <1>2, <1>3, <1>4 DEF Inv, Types
<1>6. /\ OnCourse' /\ Tracking' /\ Heard' /\ HeardLast' /\ Counting' /\ CountedOnce'
      /\ LabelIsTerminal' /\ BudgetIsCausal'
  BY <1>1, <1>2, <1>3, StaysOnRoute
<1>7. ReasonsAreEarned' /\ OverflowGrows'
  BY <1>1, <1>2, SameGrows DEF ReasonsAreEarned, Inv
<1>8. Attempted'
  BY <1>1, <1>2, <1>3 DEF Inv, Attempted
<1>9. Sent(route)' = Sent(route) /\ Tried' = Tried /\ Overflowed' = Overflowed
  BY <1>1 DEF Sent, Tried, Overflowed
<1>10. Behind(Passed)' = Behind(Passed)
  <2>1. Passed' = at /\ Passed = at
    BY <1>1, <1>4 DEF Passed
  <2> QED
    BY <1>1, <2>1 DEF Behind
<1>11. Walked'
  <2>1. /\ IsInjective(plan') /\ at' > 0 /\ at' <= Len(plan') + 1 /\ plan' # <<>>
    BY <1>1, <1>2, <1>4 DEF Inv, Walked
  <2>2. /\ walk'.overflow <=> walk'.floor # 0
        /\ walk'.refusal = 0 => ~walk'.overflow
        /\ walk'.refusal = 400 => walk'.overflow
        /\ walk'.overflow => \E d \in Overflowed' : Context[d] \in {0, walk'.floor}
    BY <1>1, <1>2, <1>9 DEF Inv, Walked
  <2>3. \A i \in Sent(route)' : attempts'[i].outcome = "context_overflow" =>
                /\ walk'.overflow
                /\ Context[attempts'[i].deployment] <= walk'.floor
                /\ Context[attempts'[i].deployment] = 0 => walk'.floor = MaxU32
    BY <1>1, <1>2, <1>9 DEF Inv, Walked
  <2>4. \A i \in Sent(route)' : \E k \in Behind(Passed)' : attempts'[i].deployment = plan'[k]
    BY <1>1, <1>9, <1>10 DEF Inv, Walked
  <2>5. \A k \in Behind(Passed)' : plan'[k] \in Tried' \/ ~Larger(plan'[k], walk'.floor)
    BY <1>1, <1>9, <1>10 DEF Inv, Walked, Larger
  <2> QED
    BY <1>1, <1>2, <2>1, <2>2, <2>3, <2>4, <2>5 DEF Walked
<1> QED
  BY <1>5, <1>6, <1>7, <1>8, <1>11 DEF Inv

\* A plan walked to its end: what was not tried is not larger than the floor.
LEMMA WalkedToTheEnd ==
    ASSUME Inv, pc = "candidate", Viable(at, walk.floor) = {}
    PROVE  /\ \A k \in 1..Len(plan) : plan[k] \in Tried \/ ~Larger(plan[k], walk.floor)
           /\ Tried \subseteq Range(plan)
           /\ walk.overflow <=> Overflowed # {}
<1>1. /\ at \in Nat /\ at > 0 /\ plan \in Seq(Deployments) /\ pc \in Walking /\ Passed = at - 1
  BY DEF Inv, Types, Walked, Walking, Passed
<1>2. \A k \in 1..Len(plan) : plan[k] \in Tried \/ ~Larger(plan[k], walk.floor)
  <2> SUFFICES ASSUME NEW k \in 1..Len(plan)
               PROVE  plan[k] \in Tried \/ ~Larger(plan[k], walk.floor)
    OBVIOUS
  <2>1. CASE k < at
    <3>1. k \in Behind(Passed)
      BY <1>1, <2>1 DEF Behind
    <3> QED
      BY <3>1 DEF Inv, Walked
  <2>2. CASE at <= k
    <3>1. k \in at..Len(plan) /\ k \notin Viable(at, walk.floor)
      BY <1>1, <2>2
    <3> QED
      BY <3>1 DEF Viable
  <2> QED
    BY <1>1, <2>1, <2>2
<1>3. Tried \subseteq Range(plan)
  <2>1. \A i \in Sent(route) : \E k \in Behind(Passed) : attempts[i].deployment = plan[k]
    BY DEF Inv, Walked
  <2>2. Behind(Passed) \subseteq DOMAIN plan
    BY <1>1 DEF Behind
  <2> QED
    BY <2>1, <2>2 DEF Tried, Range
<1>4. walk.overflow => Overflowed # {}
  BY <1>1 DEF Inv, Walked
<1>5. Overflowed # {} => walk.overflow
  BY <1>1 DEF Inv, Walked, Overflowed
<1> QED
  BY <1>2, <1>3, <1>4, <1>5

\* The walk ends without an answer.
LEMMA WalkEndsKeepsInv ==
    ASSUME ForwardingAssumption, Inv, WalkEnds
    PROVE  Inv'
<1>1. /\ pc = "candidate" /\ pc' = "failed" /\ Viable(at, walk.floor) = {}
      /\ UNCHANGED <<due, kind, route, left, plan, at, walk, tracker, attempts, log, answer>>
  BY DEF WalkEnds, WalkFails, Failed, routeVars
<1>2. /\ pc \in Open /\ pc' \in Open /\ pc' \notin Relayed /\ pc \in Walking /\ pc' \in Walking
      /\ pc' \notin {"routed", "planning", "sent", "next", "candidate"} /\ pc # "sent"
  BY <1>1 DEF Open, Relayed, Walking
<1>3. walk \in WalkType /\ plan \in Seq(Deployments) /\ plan # <<>>
  BY <1>1, <1>2, ZenonT(30) DEF Inv, Types, WalkType, Walked
<1>4. \/ /\ walk.refusal = 0
         /\ failure' = [status |-> 503, outcome |-> "unavailable", observation |-> None,
                        reason |-> "route_unavailable"]
      \/ /\ walk.refusal = 503
         /\ failure' = [status |-> 503, outcome |-> "server_error", observation |-> "unavailable",
                        reason |-> IF walk.overflow THEN None ELSE "route_exhausted"]
      \/ /\ walk.refusal = 400
         /\ failure' = [status |-> 400, outcome |-> "client_error", observation |-> None,
                        reason |-> None]
  BY <1>3 DEF WalkEnds, WalkFails, Failed, OfStatus, WalkType
<1>5. failure' \in FailureType /\ failure'.outcome # None
  BY <1>4 DEF FailureType, Reasons, None
<1>6. Types'
  BY <1>1, <1>2, <1>5 DEF Inv, Types
<1>7. /\ OnCourse' /\ Tracking' /\ Heard' /\ HeardLast' /\ Counting' /\ CountedOnce'
      /\ LabelIsTerminal' /\ BudgetIsCausal'
  BY <1>1, <1>2, StaysOnRoute
<1>8. OverflowGrows' /\ Attempted'
  <2>1. Attempted'
    BY <1>1, <1>2 DEF Inv, Attempted
  <2> QED
    BY <1>1, <2>1, SameGrows DEF Inv
<1>9. Sent(route)' = Sent(route) /\ Tried' = Tried /\ Overflowed' = Overflowed
  BY <1>1 DEF Sent, Tried, Overflowed
<1>10. Walked'
  <2>1. IsInjective(plan') /\ at' <= Len(plan') + 1
    BY <1>1, <1>2 DEF Inv, Walked
  <2>2. /\ walk'.overflow <=> walk'.floor # 0
        /\ walk'.refusal = 0 => ~walk'.overflow
        /\ walk'.refusal = 400 => walk'.overflow
        /\ walk'.overflow => \E d \in Overflowed' : Context[d] \in {0, walk'.floor}
    BY <1>1, <1>2, <1>9 DEF Inv, Walked
  <2>3. \A i \in Sent(route)' : attempts'[i].outcome = "context_overflow" =>
                /\ walk'.overflow
                /\ Context[attempts'[i].deployment] <= walk'.floor
                /\ Context[attempts'[i].deployment] = 0 => walk'.floor = MaxU32
    BY <1>1, <1>2, <1>9 DEF Inv, Walked
  <2> QED
    BY <1>1, <1>2, <1>5, <2>1, <2>2, <2>3 DEF Walked
<1>11. /\ \A k \in 1..Len(plan) : plan[k] \in Tried \/ ~Larger(plan[k], walk.floor)
       /\ Tried \subseteq Range(plan)
       /\ walk.overflow <=> Overflowed # {}
  BY <1>1, WalkedToTheEnd
<1>12. /\ walk.overflow <=> walk.floor # 0
       /\ walk.refusal = 0 => ~walk.overflow
       /\ walk.refusal = 400 => walk.overflow
       /\ walk.overflow => \E d \in Overflowed : Context[d] \in {0, walk.floor}
  BY <1>2 DEF Inv, Walked
<1>13. ~walk.overflow => Tried = Range(plan)
  <2> SUFFICES ASSUME ~walk.overflow PROVE Range(plan) \subseteq Tried
    BY <1>11, ZenonT(30)
  <2>1. walk.floor = 0
    BY <1>12
  <2>2. \A k \in 1..Len(plan) : plan[k] \in Tried
    BY <1>11, <2>1 DEF Larger
  <2> QED
    BY <1>3, <2>2 DEF Range
<1>14. walk.overflow => \A d \in Range(plan) \ Tried : \E e \in Overflowed :
                  Context[e] = 0 \/ Context[d] <= Context[e]
  <2> SUFFICES ASSUME walk.overflow, NEW d \in Range(plan) \ Tried
               PROVE  \E e \in Overflowed : Context[e] = 0 \/ Context[d] <= Context[e]
    OBVIOUS
  <2>1. PICK e \in Overflowed : Context[e] \in {0, walk.floor}
    BY <1>12
  <2>2. PICK k \in 1..Len(plan) : d = plan[k]
    BY <1>3 DEF Range
  <2>3. ~Larger(d, walk.floor)
    BY <1>11, <2>2
  <2>4. Context[d] \in 0..MaxU32 /\ walk.floor \in 0..MaxU32 /\ MaxU32 \in Nat
    BY <1>3, <2>2 DEF ForwardingAssumption, WalkType
  <2>5. Context[d] <= walk.floor
    BY <2>3, <2>4 DEF Larger
  <2> QED
    BY <2>1, <2>5
<1>15. ReasonsAreEarned'
  <2>1. /\ failure'.reason # "route_capability_mismatch"
        /\ failure'.reason \in {"route_unavailable", "route_exhausted"} => ~walk.overflow
        /\ failure'.reason = "route_exhausted" <=> walk.refusal = 503 /\ ~walk.overflow
        /\ failure'.reason = None => walk.overflow
    BY <1>4, <1>12 DEF None
  <2> QED
    BY <1>1, <1>3, <1>9, <1>11, <1>13, <1>14, <2>1 DEF ReasonsAreEarned
<1> QED
  BY <1>6, <1>7, <1>8, <1>10, <1>15 DEF Inv

-----------------------------------------------------------------------------
(* The commitment and the fallback keep it. *)

\* A deployment's answer is committed.
LEMMA CommitKeepsInv ==
    ASSUME ForwardingAssumption, Inv, NEW s \in {200, 400, 500}, NEW body \in Relayed,
           Commit(s, body)
    PROVE  Inv'
<1> DEFINE n == Len(attempts)
           o == OfStatus(s)
           c == [route |-> route, outcome |-> o]
<1>1. /\ pc = "sent" /\ pc' = body /\ answer' = s /\ log' = Counted(log, route, o)
      /\ attempts' = [attempts EXCEPT ![n].outcome = "committed"]
      /\ UNCHANGED <<due, kind, route, left, plan, at, walk, failure, tracker>>
  BY DEF Commit, Record, routeVars
<1>2. /\ pc \in Open /\ pc' \in Relayed /\ pc' \notin Open /\ pc' \notin Untried
      /\ pc' \notin Walking /\ pc # "done" /\ pc' # "done"
      /\ pc' \notin {"routed", "planning", "sent", "next", "failed", "candidate"}
  BY <1>1 DEF Open, Relayed, Untried, Walking
<1>3. /\ route \in Routes /\ route # None /\ log \in LogType /\ log.counted = <<>>
      /\ log.traces = <<>> /\ attempts \in Seq(AttemptType)
  BY <1>2 DEF Inv, Types, OnCourse, Counting
<1>4. o \in Outcomes \ {"request_budget_exhausted"} /\ route \in Labels /\ s \in Statuses
  BY <1>3, StatusOutcomes DEF Outcomes, Labels, Statuses
<1> HIDE DEF o
<1>5. CountedIn(log', log, route, o)
  BY <1>1, <1>3, <1>4, CountedLog
<1>6. /\ log' \in LogType /\ log'.counted = Append(log.counted, c) /\ log'.moves = log.moves
      /\ log'.traces = log.traces /\ log'.observed = log.observed
  BY <1>5 DEF CountedIn
<1>7. c.route = route /\ c.outcome = o
  OBVIOUS
<1>8. /\ log'.counted = <<c>> /\ Range(log'.counted) = {c} /\ Len(log'.counted) = 1
      /\ Range(log'.traces) = {} /\ Len(log'.traces) = 0 /\ log'.traces = <<>>
  BY <1>3, <1>6, Single, NoElements
<1>9. /\ attempts # <<>> /\ attempts[n].route = route /\ "committed" \in AttemptOutcomes
  BY <1>1 DEF Inv, Attempted, AttemptOutcomes
<1>10. /\ attempts' \in Seq(AttemptType) /\ Len(attempts') = n /\ n \in Nat
       /\ DOMAIN attempts' = 1..n /\ DOMAIN attempts = 1..n /\ attempts' # <<>> /\ n \in 1..n
       /\ \A i \in 1..n : /\ attempts'[i].route = attempts[i].route
                          /\ attempts'[i].deployment = attempts[i].deployment
                          /\ attempts'[i].outcome =
                               IF i = n THEN "committed" ELSE attempts[i].outcome
  <2> HIDE DEF c
  <2>1. /\ attempts' \in Seq(AttemptType) /\ Len(attempts') = Len(attempts)
        /\ DOMAIN attempts' = DOMAIN attempts /\ attempts' # <<>>
        /\ Len(attempts) \in DOMAIN attempts /\ DOMAIN attempts = 1..Len(attempts)
        /\ \A i \in DOMAIN attempts :
              /\ attempts'[i].route = attempts[i].route
              /\ attempts'[i].deployment = attempts[i].deployment
              /\ attempts'[i].outcome =
                   IF i = Len(attempts) THEN "committed" ELSE attempts[i].outcome
    BY <1>1, <1>3, <1>9, Recorded
  <2>2. Len(attempts) \in Nat
    BY <1>3
  <2> QED
    BY <2>1, <2>2, ZenonT(30) DEF n
<1>11. Counting'
  BY <1>1, <1>2, <1>4, <1>8 DEF Counting
<1> HIDE DEF c, n
<1>12. Types'
  BY <1>1, <1>2, <1>4, <1>6, <1>10 DEF Inv, Types
<1>13. OnCourse' /\ Tracking' /\ Heard'
  BY <1>1, <1>2, <1>3, <1>6, SameCourse, SameTracking, SameHeard DEF Inv
<1>14. HeardLast' /\ Walked' /\ ReasonsAreEarned'
  BY <1>2, ZenonT(30) DEF HeardLast, Walked, ReasonsAreEarned
<1>15. CountedOnce' /\ BudgetIsCausal'
  BY <1>2, <1>8 DEF CountedOnce, BudgetIsCausal
<1>16. LabelIsTerminal'
  BY <1>1, <1>3, <1>4, <1>7, <1>8 DEF LabelIsTerminal
<1>17. Attempted'
  <2>1. \A i \in DOMAIN attempts' :
          attempts'[i].route # route' =>
             /\ \E k \in 1..Len(log'.moves) : attempts'[i].route = log'.moves[k].from
             /\ attempts'[i].outcome \in {"failed", "context_overflow"}
    <3> SUFFICES ASSUME NEW i \in 1..n, attempts[i].route # route
                 PROVE  /\ \E k \in 1..Len(log.moves) : attempts[i].route = log.moves[k].from
                        /\ attempts'[i].outcome \in {"failed", "context_overflow"}
      BY <1>1, <1>6, <1>10
    <3>1. i # n
      BY <1>9
    <3>2. /\ \E k \in 1..Len(log.moves) : attempts[i].route = log.moves[k].from
          /\ attempts[i].outcome \in {"failed", "context_overflow"}
      BY <1>10 DEF Inv, Attempted
    <3>3. attempts'[i].outcome = attempts[i].outcome
      BY <1>10, <3>1
    <3> QED
      BY <3>2, <3>3
  <2>2. \A i, k \in DOMAIN attempts' :
          i < k /\ attempts'[i].route = route' => attempts'[k].route = route'
    BY <1>1, <1>10 DEF Inv, Attempted
  <2>3. \A i \in DOMAIN attempts' :
          attempts'[i].outcome \in {"failed", "context_overflow"} \/ i = Len(attempts')
    <3> SUFFICES ASSUME NEW i \in DOMAIN attempts'
                 PROVE  \/ attempts'[i].outcome \in {"failed", "context_overflow"}
                        \/ i = Len(attempts')
      OBVIOUS
    <3>1. i \in DOMAIN attempts /\ i \in 1..n /\ Len(attempts') = Len(attempts)
      BY <1>10, ZenonT(30) DEF n
    <3>2. attempts[i].outcome \in {"failed", "context_overflow"} \/ i = Len(attempts)
      BY <3>1 DEF Inv, Attempted
    <3>3. i # Len(attempts) => attempts'[i].outcome = attempts[i].outcome
      BY <1>10, <3>1, ZenonT(30) DEF n
    <3> QED
      BY <3>1, <3>2, <3>3
  <2>4. attempts'[Len(attempts')].route = route' /\ attempts'[Len(attempts')].outcome = "committed"
    BY <1>1, <1>9, <1>10
  <2> QED
    BY <1>2, <1>10, <2>1, <2>2, <2>3, <2>4 DEF Attempted
<1>18. OverflowGrows'
  <2> SUFFICES ASSUME NEW i \in 1..n, NEW k \in 1..n, i < k,
                      attempts'[i].route = attempts'[k].route,
                      attempts'[i].outcome = "context_overflow"
               PROVE  /\ Context[attempts'[i].deployment] # 0
                      /\ Context[attempts'[k].deployment] > Context[attempts'[i].deployment]
    BY <1>10 DEF OverflowGrows
  <2>1. attempts[i].outcome = "context_overflow" /\ attempts[i].route = attempts[k].route
    BY <1>10
  <2>2. /\ Context[attempts[i].deployment] # 0
        /\ Context[attempts[k].deployment] > Context[attempts[i].deployment]
    BY <2>1 DEF Inv, OverflowGrows, n
  <2> QED
    BY <1>10, <2>2
<1> QED
  BY <1>11, <1>12, <1>13, <1>14, <1>15, <1>16, <1>17, <1>18 DEF Inv

\* The request moves to the next route of its list.
LEMMA MoveKeepsInv ==
    ASSUME ForwardingAssumption, Inv, Move
    PROVE  Inv'
<1> DEFINE to == Head(left)
           n == Len(log.moves)
           m == [from |-> route, to |-> to, reason |-> failure.reason]
           saw == FailedObservation
           l == Observed(log, route, saw)
           more == Append(log.moves, m)
           hops == Hops \o <<Hop(route, "failed", failure.reason), Hop(to, "committed", None)>>
<1>1. /\ pc = "failed" /\ pc' = "planning" /\ failure.reason # None /\ left # <<>>
      /\ log' = [l EXCEPT !.moves = Append(@, m)]
      /\ tracker' = [NewTracker(to) EXCEPT !.hops = hops]
      /\ route' = to /\ left' = Tail(left) /\ failure' = NoFailure
      /\ UNCHANGED <<due, kind, plan, at, walk, attempts, answer>>
  BY DEF Move, MayMove
<1>2. /\ pc \in Open /\ pc' \in Open /\ pc' \notin Relayed /\ pc' \notin Untried
      /\ pc' \notin Walking /\ pc # "done" /\ pc' # "done" /\ pc # "sent"
      /\ pc' \notin {"routed", "sent", "next", "failed", "candidate", "classifying"}
  BY <1>1 DEF Open, Relayed, Untried, Walking
<1>3. /\ route \in Routes /\ log \in LogType /\ left \in Seq(Routes) /\ kind = "auto"
      /\ failure \in FailureType /\ log.counted = <<>> /\ log.traces = <<>> /\ answer = 0
      /\ log.moves \in Seq(MoveType) /\ n \in Nat
  BY <1>1, <1>2 DEF Inv, Types, OnCourse, Counting, LogType
<1>4. /\ to \in Routes /\ Tail(left) \in Seq(Routes) /\ Len(Tail(left)) = Len(left) - 1
      /\ Len(left) \in Nat /\ Len(left) >= 1 /\ to = left[1]
      /\ \A i \in 1..Len(Tail(left)) : Tail(left)[i] = left[i + 1]
  BY <1>1, <1>3
<1>5. m \in MoveType /\ m.from = route /\ m.to = to
  BY <1>1, <1>3, <1>4 DEF MoveType, FailureType
<1>6. saw \in Saws /\ saw # "success"
  BY FailedSaw DEF Inv
<1> HIDE DEF saw, to
<1>7. /\ l \in LogType /\ l.counted = log.counted /\ l.traces = log.traces /\ l.moves = log.moves
      /\ l.observed = Append(log.observed, [route |-> route, saw |-> saw])
  <2>1. route \in Labels
    BY <1>3 DEF Labels
  <2>2. /\ l \in LogType /\ l.observed = Adds(log, FALSE, route, saw)
        /\ l.counted = log.counted /\ l.moves = log.moves /\ l.traces = log.traces
    BY <1>3, <1>6, <2>1, ObservedLog, ZenonT(30)
  <2> HIDE DEF l
  <2> QED
    BY <1>3, <2>2 DEF Adds
<1> HIDE DEF l, m
<1>8. more \in Seq(MoveType) /\ Len(more) = n + 1 /\ more[n + 1] = m /\ more # <<>>
      /\ \A i \in 1..n : more[i] = log.moves[i]
  BY <1>3, <1>5
<1> HIDE DEF more, n
<1>9. /\ log' \in LogType /\ log'.counted = log.counted /\ log'.traces = log.traces
      /\ log'.moves = more
      /\ log'.observed = Append(log.observed, [route |-> route, saw |-> saw])
  <2>1. log' = [l EXCEPT !.moves = more]
    BY <1>1, <1>7 DEF LogType, more
  <2> QED
    BY <1>7, <1>8, <2>1, ZenonT(30) DEF LogType
<1>10. /\ tracker' \in TrackerType /\ tracker'.label = to /\ tracker'.observation = None
       /\ tracker'.unobserved = FALSE /\ tracker'.hops # <<>>
  <2>1. to \in Labels /\ failure.reason \in Reasons
    BY <1>1, <1>3, <1>4 DEF Labels, FailureType
  <2> DEFINE x == Hop(route, "failed", failure.reason)
             y == Hop(to, "committed", None)
  <2>2. x \in HopType /\ y \in HopType
    BY <1>3, <1>4, <2>1 DEF Hop, HopType
  <2> HIDE DEF x, y
  <2>3. Hops \in Seq(HopType)
    BY HopsShape DEF Inv
  <2>4. Hops \o <<x, y>> \in Seq(HopType) /\ Len(Hops \o <<x, y>>) = Len(Hops) + 2
        /\ Len(Hops) \in Nat
    BY <2>2, <2>3
  <2>5. hops \in Seq(HopType) /\ hops # <<>>
    BY <2>4 DEF x, y
  <2> HIDE DEF hops
  <2>6. /\ NewTracker(to) \in TrackerType
        /\ NewTracker(to).label = to /\ NewTracker(to).observation = None
        /\ NewTracker(to).unobserved = FALSE
    BY <2>1, NewTrackers, ZenonT(30)
  <2> QED
    BY <1>1, <2>5, <2>6 DEF TrackerType
<1>11. Types'
  <2>1. NoFailure \in FailureType
    BY DEF NoFailure, FailureType
  <2> QED
    BY <1>1, <1>2, <1>4, <1>9, <1>10, <2>1 DEF Inv, Types
<1>12. PICK r \in Routes : Come(r) /\ Ahead(r)
  BY <1>2, ZenonT(30) DEF Inv, OnCourse
<1>13. /\ Course(r) \in Seq(Routes)
       /\ \A i, k \in 1..Len(Course(r)) : Course(r)[i] = Course(r)[k] => i = k
  BY CourseShape
<1>14. /\ n < Len(Course(r)) /\ route = Course(r)[n + 1]
       /\ \A i \in 1..n : log.moves[i].from = Course(r)[i] /\ log.moves[i].to = Course(r)[i + 1]
       /\ Len(left) + n < Len(Course(r))
       /\ \A i \in 1..Len(left) : left[i] = Course(r)[n + 1 + i]
  BY <1>12 DEF Come, Ahead, n
<1>15. to = Course(r)[n + 2] /\ n + 2 \in 1..Len(Course(r)) /\ Len(Course(r)) \in Nat
  <2>1. 1 \in 1..Len(left) /\ n + 1 + 1 = n + 2 /\ n \in Nat
    BY <1>3, <1>4
  <2>2. to = Course(r)[n + 1 + 1]
    BY <1>4, <1>14, <2>1
  <2> QED
    BY <1>4, <1>13, <1>14, <2>1, <2>2
<1>16. OnCourse'
  <2>1. Come(r)'
    <3>1. Len(log'.moves) = n + 1 /\ n \in Nat
      BY <1>3, <1>8, <1>9
    <3>2. \A i \in 1..(n + 1) : more[i].from = Course(r)[i] /\ more[i].to = Course(r)[i + 1]
      <4> SUFFICES ASSUME NEW i \in 1..(n + 1)
                   PROVE  more[i].from = Course(r)[i] /\ more[i].to = Course(r)[i + 1]
        OBVIOUS
      <4>1. CASE i \in 1..n
        BY <1>8, <1>14, <4>1
      <4>2. CASE i = n + 1
        <5>1. i + 1 = n + 2
          BY <3>1, <4>2
        <5> QED
          BY <1>5, <1>8, <1>14, <1>15, <4>2, <5>1
      <4> QED
        BY <3>1, <4>1, <4>2
    <3>3. route' = Course(r)[(n + 1) + 1] /\ n + 1 < Len(Course(r))
      BY <1>1, <1>15, <3>1
    <3> QED
      BY <1>9, <3>1, <3>2, <3>3 DEF Come, Course
  <2>2. Ahead(r)'
    <3>1. Len(log'.moves) = n + 1 /\ n \in Nat /\ left' = Tail(left)
      BY <1>1, <1>3, <1>8, <1>9
    <3>2. Len(left') + (n + 1) < Len(Course(r))
      BY <1>4, <1>14, <1>15, <3>1
    <3>3. \A i \in 1..Len(left') : left'[i] = Course(r)[(n + 1) + 1 + i]
      <4> SUFFICES ASSUME NEW i \in 1..Len(Tail(left))
                   PROVE  Tail(left)[i] = Course(r)[(n + 1) + 1 + i]
        BY <3>1
      <4>1. i + 1 \in 1..Len(left) /\ (n + 1) + 1 + i = n + 1 + (i + 1)
        BY <1>4, <3>1
      <4> QED
        BY <1>4, <1>14, <4>1
    <3> QED
      BY <3>1, <3>2, <3>3, ZenonT(30) DEF Ahead, Course
  <2>3. route' # None
    BY <1>1, <1>4 DEF ForwardingAssumption
  <2> QED
    BY <1>1, <1>2, <1>3, <2>1, <2>2, <2>3 DEF OnCourse
<1>17. Tracking'
  BY <1>1, <1>8, <1>9, <1>10 DEF Tracking
<1>18. Walked' /\ ReasonsAreEarned'
  BY <1>2 DEF Walked, ReasonsAreEarned
<1>19. HeardLast' /\ Counting' /\ CountedOnce' /\ LabelIsTerminal' /\ BudgetIsCausal'
  BY <1>1, <1>2, <1>3, <1>9, Early
<1>20. OverflowGrows'
  BY <1>1, SameGrows DEF Inv
<1>21. \A i \in DOMAIN attempts : attempts[i].route # to
  <2> SUFFICES ASSUME NEW i \in DOMAIN attempts PROVE attempts[i].route # to
    OBVIOUS
  <2>1. \E k \in 1..(n + 1) : attempts[i].route = Course(r)[k]
    <3>1. CASE attempts[i].route = route
      <4>1. n + 1 \in 1..(n + 1)
        BY <1>3 DEF n
      <4> QED
        BY <1>14, <3>1, <4>1
    <3>2. CASE attempts[i].route # route
      <4>1. PICK k \in 1..n : attempts[i].route = log.moves[k].from
        BY <3>2 DEF Inv, Attempted, n
      <4>2. k \in 1..(n + 1)
        BY <1>3 DEF n
      <4> QED
        BY <1>14, <4>1, <4>2
    <3> QED
      BY <3>1, <3>2
  <2>2. PICK k \in 1..(n + 1) : attempts[i].route = Course(r)[k]
    BY <2>1
  <2>3. k \in 1..Len(Course(r)) /\ k # n + 2 /\ n \in Nat
    BY <1>3, <1>15 DEF n
  <2> QED
    BY <1>13, <1>15, <2>2, <2>3
<1>22. Attempted'
  <2>1. \A i \in DOMAIN attempts : attempts[i].outcome \in {"failed", "context_overflow"}
    BY <1>2 DEF Inv, Attempted
  <2>2. \A i \in DOMAIN attempts :
           \E k \in 1..Len(log'.moves) : attempts[i].route = log'.moves[k].from
    <3> SUFFICES ASSUME NEW i \in DOMAIN attempts
                 PROVE  \E k \in 1..(n + 1) : attempts[i].route = more[k].from
      BY <1>8, <1>9
    <3>1. CASE attempts[i].route = route
      <4>1. n + 1 \in 1..(n + 1)
        BY <1>3 DEF n
      <4> QED
        BY <1>5, <1>8, <3>1, <4>1
    <3>2. CASE attempts[i].route # route
      <4>1. PICK k \in 1..n : attempts[i].route = log.moves[k].from
        BY <3>2 DEF Inv, Attempted, n
      <4>2. k \in 1..(n + 1)
        BY <1>3 DEF n
      <4> QED
        BY <1>8, <4>1, <4>2
    <3> QED
      BY <3>1, <3>2
  <2>3. Sent(route)' = {}
    BY <1>1, <1>21 DEF Sent
  <2> QED
    BY <1>1, <1>2, <1>21, <2>1, <2>2, <2>3 DEF Attempted
<1>23. Heard'
  <2> DEFINE z == [route |-> route, saw |-> saw]
  <2>1. z.route = route /\ z.saw # "success"
    BY <1>6
  <2>2. log.observed \in Seq(SawType) /\ Len(log.observed) = n /\ n \in Nat
    BY <1>2, <1>3 DEF Inv, Heard, LogType, n
  <2> HIDE DEF z
  <2>3. /\ log'.observed = Append(log.observed, z)
        /\ Len(log'.observed) = n + 1 /\ log'.observed[n + 1] = z
        /\ DOMAIN log'.observed = 1..(n + 1)
        /\ \A i \in 1..n : log'.observed[i] = log.observed[i]
    BY <1>9, <2>2 DEF z
  <2>4. \A i \in 1..(n + 1) : log'.observed[i].route = more[i].from
                              /\ log'.observed[i].saw # "success"
    <3> SUFFICES ASSUME NEW i \in 1..(n + 1)
                 PROVE  log'.observed[i].route = more[i].from /\ log'.observed[i].saw # "success"
      OBVIOUS
    <3>1. CASE i \in 1..n
      <4>1. log.observed[i].route = log.moves[i].from /\ log.observed[i].saw # "success"
        BY <1>3, <3>1 DEF Inv, Heard, n
      <4> QED
        BY <1>8, <2>3, <3>1, <4>1
    <3>2. CASE i = n + 1
      BY <1>5, <1>8, <2>1, <2>3, <3>2
    <3> QED
      BY <2>2, <3>1, <3>2
  <2>5. kind' # "nested" /\ log'.moves = more /\ Len(more) = n + 1
    BY <1>1, <1>3, <1>8, <1>9
  <2> QED
    BY <2>3, <2>4, <2>5, ZenonT(30) DEF Heard
<1> QED
  BY <1>11, <1>16, <1>17, <1>18, <1>19, <1>20, <1>22, <1>23 DEF Inv

-----------------------------------------------------------------------------
(* The invariant. *)

\* The invariant holds of a request that was just received.
LEMMA InitInv ==
    ASSUME ForwardingAssumption, Init
    PROVE  Inv
<1>1. /\ pc = "received" /\ pc \in Untried /\ pc \notin Open /\ pc \notin Relayed
      /\ pc \notin Walking /\ pc # "done"
      /\ pc \notin {"routed", "sent", "next", "failed", "candidate", "classifying", "planning"}
  BY DEF Init, Untried, Open, Relayed, Walking
<1>2. /\ log \in LogType /\ log.counted = <<>> /\ log.observed = <<>> /\ log.moves = <<>>
      /\ log.traces = <<>>
  <2>1. 0 \in Nat /\ \A S : <<>> \in Seq(S)
    OBVIOUS
  <2> QED
    BY <2>1 DEF Init, LogType
<1>3. Types
  <2>1. None \in Labels /\ NoFailure \in FailureType /\ 0 \in Statuses
    BY DEF Labels, NoFailure, FailureType, Statuses
  <2>2. tracker \in TrackerType
    BY <2>1, NewTrackers, ZenonT(30) DEF Init
  <2>3. walk \in [floor : 0..MaxU32, refusal : {0, 400, 503}, overflow : BOOLEAN]
    BY NewWalks DEF Init, ForwardingAssumption
  <2>4. /\ due = FALSE /\ kind \in Kinds /\ route = None /\ left \in Seq(Routes)
        /\ plan \in Seq(Deployments) /\ at \in Nat /\ failure = NoFailure
        /\ attempts \in Seq(AttemptType) /\ answer = 0
    BY DEF Init
  <2> QED
    BY <1>1, <1>2, <2>1, <2>2, <2>3, <2>4, ZenonT(30) DEF Types
<1>4. OnCourse
  BY <1>1, <1>2 DEF Init, OnCourse
<1>5. Tracking /\ Walked /\ HeardLast /\ ReasonsAreEarned
  BY <1>1 DEF Tracking, Walked, HeardLast, ReasonsAreEarned
<1>6. attempts = <<>> /\ DOMAIN attempts = {} /\ Len(attempts) = 0
  BY DEF Init
<1>7. Attempted /\ OverflowGrows
  BY <1>1, <1>6 DEF Attempted, OverflowGrows
<1>8. Heard
  <2>1. Len(log.observed) = 0 /\ Len(log.moves) = 0 /\ 1..Len(log.moves) = {}
    BY <1>2
  <2> QED
    BY <2>1 DEF Heard
<1>9. Counting /\ CountedOnce /\ LabelIsTerminal /\ BudgetIsCausal
  <2>1. answer = 0
    BY DEF Init
  <2>2. Range(log.counted) = {} /\ Range(log.traces) = {} /\ Len(log.counted) = 0
        /\ Len(log.traces) = 0
    BY <1>2, NoElements
  <2> QED
    BY <1>1, <1>2, <2>1, <2>2
       DEF Counting, CountedOnce, LabelIsTerminal, BudgetIsCausal
<1> QED
  BY <1>3, <1>4, <1>5, <1>7, <1>8, <1>9 DEF Inv

\* Every step is one that ends the request, refuses it unread, or goes on.
LEMMA Steps ==
    ASSUME [Next]_vars
    PROVE  \/ Ending
           \/ Malformed
           \/ Leave /\ pc = "classifying"
           \/ Classify
           \/ pc \in Untried /\ \E r \in Routes : Resolved(r)
           \/ Begin /\ ~due
           \/ PlanFails \/ PlanMade \/ Send \/ NextCandidate \/ Overflow \/ WalkEnds \/ Move
           \/ Failover /\ ~(Viable(at + 1, walk.floor) # {} /\ due)
           \/ \E s \in {200, 400, 500}, body \in Relayed : Commit(s, body)
           \/ Deadline
           \/ UNCHANGED vars
<1>1. CASE Router
  <2>1. Resolve => pc \in Untried /\ \E r \in Routes : Resolved(r)
    BY DEF Resolve, Untried
  <2> QED
    BY <1>1, <2>1, ZenonT(30) DEF Router, Ending
<1>2. CASE Upstream
  <2>1. Classified => pc \in Untried /\ \E r \in Routes : Resolved(r)
    BY DEF Classified, Untried
  <2>2. Answered => \E s \in {200, 400, 500}, body \in Relayed : Commit(s, body)
    BY DEF Answered, Relayed
  <2>3. Streaming => \E s \in {200, 400, 500}, body \in Relayed : Commit(s, body)
    BY DEF Streaming, Relayed
  <2> QED
    BY <1>2, <2>1, <2>2, <2>3, ZenonT(30) DEF Upstream, Ending
<1>3. CASE Leave
  BY <1>3, ZenonT(30) DEF Ending
<1> QED
  BY <1>1, <1>2, <1>3, ZenonT(30) DEF Next

\* Every step keeps the invariant.
LEMMA StepInv ==
    ASSUME ForwardingAssumption, Inv, [Next]_vars
    PROVE  Inv'
<1>1. CASE Ending
  BY <1>1, EndKeepsInv
<1>2. CASE Malformed
  BY <1>2, RefusedKeepsInv
<1>3. CASE Leave /\ pc = "classifying"
  BY <1>3, LeftKeepsInv
<1>4. CASE Classify
  BY <1>4, ClassifyKeepsInv
<1>5. CASE pc \in Untried /\ \E r \in Routes : Resolved(r)
  BY <1>5, ResolvedKeepsInv
<1>6. CASE Begin /\ ~due
  BY <1>6, BeginKeepsInv
<1>7. CASE PlanFails
  BY <1>7, PlanFailsKeepsInv
<1>8. CASE PlanMade
  BY <1>8, PlanMadeKeepsInv
<1>9. CASE Send
  BY <1>9, SendKeepsInv
<1>10. CASE NextCandidate
  BY <1>10, NextKeepsInv
<1>11. CASE Overflow
  BY <1>11, OverflowKeepsInv
<1>12. CASE WalkEnds
  BY <1>12, WalkEndsKeepsInv
<1>13. CASE Move
  BY <1>13, MoveKeepsInv
<1>14. CASE Failover /\ ~(Viable(at + 1, walk.floor) # {} /\ due)
  BY <1>14, FailoverKeepsInv
<1>15. CASE \E s \in {200, 400, 500}, body \in Relayed : Commit(s, body)
  BY <1>15, CommitKeepsInv
<1>16. CASE Deadline
  <2>1. /\ due' = TRUE /\ Budgeted
        /\ UNCHANGED <<pc, kind, route, left, plan, at, walk, failure, tracker, attempts, log,
                       answer>>
    BY <1>16 DEF Deadline, routeVars
  <2> QED
    BY <2>1, SameKeepsInv
<1>17. CASE UNCHANGED vars
  <2>1. due' = due /\ UNCHANGED <<pc, kind, route, left, plan, at, walk, failure, tracker,
                                  attempts, log, answer>>
    BY <1>17 DEF vars, routeVars
  <2>2. due \in BOOLEAN /\ (due => Budgeted)
    BY DEF Inv, Types
  <2> QED
    BY <2>1, <2>2, SameKeepsInv
<1> QED
  BY <1>1, <1>2, <1>3, <1>4, <1>5, <1>6, <1>7, <1>8, <1>9, <1>10, <1>11, <1>12,
     <1>13, <1>14, <1>15, <1>16, <1>17, Steps

\* The invariant holds throughout a request, whatever the routes, their
\* deployments and chains, and wherever the deadline falls.
THEOREM ForwardingInvariant ==
    ASSUME ForwardingAssumption
    PROVE  Spec => []Inv
<1>1. Init => Inv
  BY InitInv
<1>2. Inv /\ [Next]_vars => Inv'
  BY StepInv
<1> QED
  BY <1>1, <1>2, PTL DEF Spec

-----------------------------------------------------------------------------
(* What it implies. *)

\* The routes that were left are other routes than the current one, and each
\* other.
LEMMA LeftRoutes ==
    ASSUME ForwardingAssumption, Inv
    PROVE  /\ \A i, j \in 1..Len(log.moves) : log.moves[i].from = log.moves[j].from => i = j
           /\ \A i \in 1..Len(log.moves) : log.moves[i].from # route
<1> DEFINE n == Len(log.moves)
<1>1. n \in Nat
  BY DEF Inv, Types, LogType
<1>2. CASE route = None
  <2>1. n = 0
    BY <1>2 DEF Inv, OnCourse
  <2> QED
    BY <2>1
<1>3. CASE route # None
  <2>1. PICK r \in Routes : Come(r)
    BY <1>3 DEF Inv, OnCourse
  <2>2. /\ n < Len(Course(r)) /\ route = Course(r)[n + 1]
        /\ \A i \in 1..n : log.moves[i].from = Course(r)[i]
    BY <2>1 DEF Come
  <2>3. /\ Course(r) \in Seq(Routes)
        /\ \A i, k \in 1..Len(Course(r)) : Course(r)[i] = Course(r)[k] => i = k
    BY CourseShape
  <2>4. 1..n \subseteq 1..Len(Course(r)) /\ n + 1 \in 1..Len(Course(r)) /\ n + 1 \notin 1..n
    BY <1>1, <2>2, <2>3
  <2> HIDE DEF n
  <2>5. \A i, j \in 1..n : log.moves[i].from = log.moves[j].from => i = j
    BY <2>2, <2>3, <2>4
  <2>6. \A i \in 1..n : log.moves[i].from # route
    BY <2>2, <2>3, <2>4
  <2> QED
    BY <2>5, <2>6 DEF n
<1> QED
  BY <1>2, <1>3

\* What history has heard: of the routes that were left, and at the end of the
\* last one.
LEMMA HeardOf ==
    ASSUME ForwardingAssumption, Inv, kind # "nested"
    PROVE  /\ log.observed \in Seq(SawType) /\ Len(log.moves) \in Nat
           /\ Len(log.observed) \in {Len(log.moves), Len(log.moves) + 1}
           /\ Len(log.observed) = Len(log.moves) + 1 => pc = "done" /\ ~RefusedFirst
           /\ pc = "done" /\ ~RefusedFirst => Len(log.observed) = Len(log.moves) + 1
<1>1. log.observed \in Seq(SawType) /\ Len(log.moves) \in Nat
  BY DEF Inv, Types, LogType
<1>2. CASE pc # "done"
  BY <1>1, <1>2 DEF Inv, Heard
<1>3. CASE pc = "done"
  <2>1. Len(log.observed) = Len(log.moves) + IF RefusedFirst THEN 0 ELSE 1
    BY <1>3, ZenonT(30) DEF Inv, HeardLast
  <2>2. CASE RefusedFirst
    BY <1>1, <1>3, <2>1, <2>2
  <2>3. CASE ~RefusedFirst
    BY <1>1, <1>3, <2>1, <2>3
  <2> QED
    BY <2>2, <2>3
<1> QED
  BY <1>1, <1>2, <1>3

\* History hears nothing of the router's own requests.
LEMMA NothingHeard ==
    ASSUME Inv, kind = "nested"
    PROVE  log.observed = <<>> /\ DOMAIN log.observed = {} /\ Range(log.observed) = {}
<1>1. log.observed \in Seq(SawType)
  BY DEF Inv, Types, LogType
<1>2. log.observed = <<>>
  <2>1. CASE pc # "done"
    BY <1>1, <2>1 DEF Inv, Heard
  <2>2. CASE pc = "done"
    BY <2>2 DEF Inv, HeardLast
  <2> QED
    BY <2>1, <2>2
<1> QED
  BY <1>2, NoElements

\* The invariant implies that history hears the truth of each route,
LEMMA InvTruly ==
    ASSUME ForwardingAssumption, Inv
    PROVE  ObservedTruly
<1> SUFFICES ASSUME NEW o \in Range(log.observed)
             PROVE  /\ o.saw = "success" => EndedAs(o.route, {"committed"})
                    /\ EndedAs(o.route, {"request_budget_exhausted", "pending"}) =>
                          o.saw = "neutral"
  BY DEF ObservedTruly
<1> DEFINE n == Len(log.moves)
<1>1. kind # "nested"
  BY NothingHeard
<1>2. /\ log.observed \in Seq(SawType) /\ n \in Nat
      /\ Len(log.observed) \in {n, n + 1}
      /\ Len(log.observed) = n + 1 => pc = "done" /\ ~RefusedFirst
  BY <1>1, HeardOf
<1>3. PICK i \in 1..Len(log.observed) : o = log.observed[i]
  BY <1>2 DEF Range
<1>4. CASE i \in 1..n
  <2>1. o.route = log.moves[i].from /\ o.saw # "success"
    BY <1>1, <1>3, <1>4 DEF Inv, Heard
  <2>2. o.route # route
    BY <1>4, <2>1, LeftRoutes
  <2>3. \A k \in Sent(o.route) : attempts[k].outcome \in {"failed", "context_overflow"}
    BY <2>2 DEF Inv, Attempted, Sent
  <2> QED
    BY <2>1, <2>3 DEF EndedAs
<1>5. CASE i = n + 1
  <2>1. Len(log.observed) = n + 1 /\ pc = "done" /\ ~RefusedFirst
    BY <1>2, <1>3, <1>5
  <2>2. o = log.observed[Len(log.observed)]
    BY <1>3, <1>5, <2>1
  <2>3. /\ o.route = route
        /\ o.saw = "success" => EndedAs(route, {"committed"})
        /\ EndedAs(route, {"request_budget_exhausted", "pending"}) => o.saw = "neutral"
    BY <1>1, <2>1, <2>2 DEF Inv, HeardLast
  <2> QED
    BY <2>3
<1> QED
  BY <1>2, <1>3, <1>4, <1>5

\* once of each,
LEMMA InvOnce ==
    ASSUME ForwardingAssumption, Inv
    PROVE  ObservedOnce
<1> SUFFICES ASSUME pc = "done"
             PROVE  /\ \A i, j \in DOMAIN log.observed :
                          log.observed[i].route = log.observed[j].route => i = j
                    /\ {o.route : o \in Range(log.observed)} =
                         IF kind = "nested" THEN {}
                         ELSE {m.from : m \in Range(log.moves)}
                                \cup (IF RefusedFirst THEN {} ELSE {route})
  BY DEF ObservedOnce, RefusedFirst
<1>1. CASE kind = "nested"
  BY <1>1, NothingHeard
<1>2. CASE kind # "nested"
  <2> DEFINE n == Len(log.moves)
             obs == log.observed
  <2>1. /\ obs \in Seq(SawType) /\ n \in Nat
        /\ Len(obs) \in {n, n + 1}
        /\ Len(obs) = n + 1 <=> ~RefusedFirst
    BY <1>2, HeardOf
  <2>2. /\ \A i, j \in 1..n : log.moves[i].from = log.moves[j].from => i = j
        /\ \A i \in 1..n : log.moves[i].from # route
    BY LeftRoutes
  <2>3. \A i \in 1..n : obs[i].route = log.moves[i].from
    BY <1>2 DEF Inv, Heard
  <2>4. ~RefusedFirst => obs[n + 1].route = route
    BY <1>2, <2>1 DEF Inv, HeardLast
  <2>5. DOMAIN obs = 1..Len(obs) /\ Range(obs) = {obs[i] : i \in 1..Len(obs)}
    BY <2>1 DEF Range
  <2>6. Range(log.moves) = {log.moves[i] : i \in 1..n}
    <3>1. log.moves \in Seq(MoveType)
      BY DEF Inv, Types, LogType
    <3> QED
      BY <3>1 DEF Range
  <2> HIDE DEF n, obs
  <2>7. CASE RefusedFirst
    <3>1. Len(obs) = n
      BY <2>1, <2>7
    <3>2. \A i, j \in DOMAIN obs : obs[i].route = obs[j].route => i = j
      BY <2>2, <2>3, <2>5, <3>1
    <3>3. {o.route : o \in Range(obs)} = {m.from : m \in Range(log.moves)}
      BY <2>3, <2>5, <2>6, <3>1
    <3> QED
      BY <1>2, <2>7, <3>2, <3>3, ZenonT(30) DEF obs
  <2>8. CASE ~RefusedFirst
    <3>1. Len(obs) = n + 1 /\ obs[n + 1].route = route /\ 1..(n + 1) = 1..n \cup {n + 1}
      BY <2>1, <2>4, <2>8
    <3>2. \A i, j \in DOMAIN obs : obs[i].route = obs[j].route => i = j
      BY <2>2, <2>3, <2>5, <3>1
    <3>3. {o.route : o \in Range(obs)} = {m.from : m \in Range(log.moves)} \cup {route}
      <4>1. {o.route : o \in Range(obs)} = {obs[i].route : i \in 1..n} \cup {route}
        BY <2>5, <3>1
      <4>2. {m.from : m \in Range(log.moves)} = {log.moves[i].from : i \in 1..n}
        BY <2>6
      <4>3. {obs[i].route : i \in 1..n} = {log.moves[i].from : i \in 1..n}
        BY <2>3
      <4> QED
        BY <4>1, <4>2, <4>3, ZenonT(30)
    <3> QED
      BY <1>2, <2>8, <3>2, <3>3 DEF obs
  <2> QED
    BY <2>7, <2>8
<1> QED
  BY <1>1, <1>2

\* and that the fallbacks follow the configured list.
LEMMA InvFrozen ==
    ASSUME ForwardingAssumption, Inv
    PROVE  ChainIsFrozen
<1>1. kind # "auto" => log.moves = <<>>
  BY DEF Inv, OnCourse
<1>2. ASSUME log.moves # <<>>
      PROVE  LET n == Len(log.moves)
                 chain == Chain[log.moves[1].from]
             IN /\ n <= Len(chain)
                /\ \A i \in 1..n : log.moves[i].to = chain[i]
                /\ log.moves[n].to = route
                /\ \A i \in 2..n : log.moves[i].from = log.moves[i - 1].to
  <2> DEFINE n == Len(log.moves)
  <2>1. n \in Nat /\ n >= 1 /\ route # None
    BY <1>2 DEF Inv, Types, LogType, OnCourse
  <2>2. PICK r \in Routes : Come(r)
    BY <2>1 DEF Inv, OnCourse
  <2>3. /\ n < Len(Course(r)) /\ route = Course(r)[n + 1]
        /\ \A i \in 1..n : log.moves[i].from = Course(r)[i] /\ log.moves[i].to = Course(r)[i + 1]
    BY <2>2 DEF Come
  <2>4. /\ Len(Course(r)) = Len(Chain[r]) + 1 /\ Len(Chain[r]) \in Nat /\ Course(r)[1] = r
        /\ \A i \in 1..Len(Chain[r]) : Course(r)[i + 1] = Chain[r][i]
    BY CourseShape
  <2> HIDE DEF n
  <2>5. log.moves[1].from = r /\ n <= Len(Chain[r]) /\ n \in 1..n
    BY <2>1, <2>3, <2>4
  <2>6. \A i \in 1..n : log.moves[i].to = Chain[r][i]
    BY <2>1, <2>3, <2>4, <2>5
  <2>7. log.moves[n].to = route
    BY <2>1, <2>3
  <2>8. \A i \in 2..n : log.moves[i].from = log.moves[i - 1].to
    <3> SUFFICES ASSUME NEW i \in 2..n PROVE log.moves[i].from = log.moves[i - 1].to
      OBVIOUS
    <3>1. i \in 1..n /\ i - 1 \in 1..n /\ (i - 1) + 1 = i
      BY <2>1
    <3> QED
      BY <2>3, <3>1
  <2> QED
    BY <2>5, <2>6, <2>7, <2>8 DEF n
<1> QED
  BY <1>1, <1>2 DEF ChainIsFrozen

\* A request is counted once, under the label of its trace, and history hears
\* of every route it was tried on, once and truly.
THEOREM AccountedOnceHolds ==
    ASSUME ForwardingAssumption
    PROVE  Spec => []AccountedOnce
<1>1. Inv => AccountedOnce
  BY InvOnce, InvTruly DEF Inv, AccountedOnce
<1>2. Spec => []Inv
  BY ForwardingInvariant
<1> QED
  BY <1>1, <1>2, PTL

\* A request ends for a reason that happened: the fallbacks follow the list, a
\* route is left for the reason it failed with, an overflow leads to larger
\* deployments only, and the budget stops what was still to be done.
THEOREM EndsAreEarnedHolds ==
    ASSUME ForwardingAssumption
    PROVE  Spec => []EndsAreEarned
<1>1. Inv => EndsAreEarned
  BY InvFrozen DEF Inv, EndsAreEarned
<1>2. Spec => []Inv
  BY ForwardingInvariant
<1> QED
  BY <1>1, <1>2, PTL

-----------------------------------------------------------------------------
(* What a step may not do. *)

\* Once an answer is committed the request is being relayed, or over.
LEMMA CommittedIsRelayed ==
    ASSUME Inv, Committed
    PROVE  pc \in Relayed \cup {"done"}
<1>1. pc \in Untried \cup Open \cup Relayed \cup {"done"} /\ Base
  BY DEF Inv, Base, Types
<1>2. pc \notin Untried \cup Open
  <2> SUFFICES ASSUME pc \in Untried \cup Open PROVE FALSE
    OBVIOUS
  <2>1. \A i \in DOMAIN attempts : attempts[i].outcome # "committed"
    BY <1>1, Uncommitted
  <2> QED
    BY <2>1 DEF Committed, Range
<1> QED
  BY <1>1, <1>2

\* What a relayed request may still do.
LEMMA RelayedSteps ==
    ASSUME [Next]_vars, pc \in Relayed \cup {"done"}
    PROVE  \/ BodyRead \/ BodyUnreadable \/ StreamEnds \/ (Leave /\ pc \in Relayed)
           \/ Deadline \/ UNCHANGED vars
<1>1. pc \in {"body", "stream", "done"}
  BY DEF Relayed
<1>2. ~Router
  BY <1>1, ZenonT(30)
     DEF Router, Malformed, Resolve, Classify, ClassificationCut,
         RequirementsRefused, Begin, PlanFails, PlanMade, CandidateRefused, Send,
         Cut, Failover, WalkEnds, MoveRefused, Move, Conclude
<1>3. Upstream => BodyRead \/ BodyUnreadable \/ StreamEnds
  BY <1>1
     DEF Upstream, Classified, NextCandidate, Overflow, Answered, Streaming, Commit
<1>4. Leave => pc \in Relayed
  BY <1>1 DEF Leave, Relayed
<1> QED
  BY <1>2, <1>3, <1>4 DEF Next

\* The end of a relay adds nothing to the counts, the moves and the failovers.
LEMMA FinishedRelay ==
    ASSUME Inv, NEW s \in Statuses, NEW o \in Outcomes, log' = Finished(log, tracker, s, o)
    PROVE  /\ log'.counted = log.counted /\ log'.moves = log.moves
           /\ log'.failovers = log.failovers /\ log'.stages = log.stages
<1>1. log \in LogType /\ tracker \in TrackerType
  BY DEF Inv, Types
<1>2. FinishedIn(log', log, tracker, s, o)
  BY <1>1, FinishedLog
<1> QED
  BY <1>2 DEF FinishedIn

\* Once an answer was committed nothing is sent, moved or counted any more.
LEMMA CommittedStays ==
    ASSUME ForwardingAssumption, Inv, [Next]_vars, Committed
    PROVE  /\ UNCHANGED <<attempts, route, log.moves, log.counted, log.stages>>
           /\ log'.failovers = log.failovers
<1>1. pc \in Relayed \cup {"done"}
  BY CommittedIsRelayed
<1>2. answer \in Statuses /\ 502 \in Statuses /\ OfStatus(answer) \in Outcomes
      /\ {"server_error", "ok", "interrupted", "cancelled"} \subseteq Outcomes
  BY StatusOutcomes DEF Inv, Types, Statuses, Outcomes
<1>3. CASE BodyRead
  <2>1. /\ log' = Finished(log, tracker, answer, OfStatus(answer))
        /\ UNCHANGED <<attempts, route>>
    BY <1>3 DEF BodyRead, routeVars
  <2> QED
    BY <1>2, <2>1, FinishedRelay, ZenonT(30)
<1>4. CASE BodyUnreadable
  <2>1. /\ log' = Finished(log, tracker, 502, "server_error")
        /\ UNCHANGED <<attempts, route>>
    BY <1>4 DEF BodyUnreadable, routeVars
  <2>2. 502 \in Statuses /\ "server_error" \in Outcomes
    BY <1>2
  <2>3. /\ log'.counted = log.counted /\ log'.moves = log.moves
        /\ log'.failovers = log.failovers /\ log'.stages = log.stages
    BY <2>1, <2>2, FinishedRelay
  <2> QED
    BY <2>1, <2>3
<1>5. CASE StreamEnds
  BY <1>2, <1>5, FinishedRelay DEF StreamEnds, routeVars
<1>6. CASE Leave /\ pc \in Relayed
  BY <1>2, <1>6, FinishedRelay DEF Leave, routeVars, Relayed
<1>7. CASE Deadline \/ UNCHANGED vars
  BY <1>7 DEF Deadline, vars, routeVars
<1> QED
  BY <1>1, <1>3, <1>4, <1>5, <1>6, <1>7, RelayedSteps

\* Nothing is sent and no route is entered in a step that starts late.
LEMMA LateStarts ==
    ASSUME ForwardingAssumption, Inv, [Next]_vars, due
    PROVE  Len(attempts') = Len(attempts) /\ log'.moves = log.moves
<1>0. Base /\ log \in LogType
  BY DEF Inv, Base, Types
<1>1. CASE Ending
  <2>1. PICK t \in TrackerType, s \in Statuses, o \in Outcomes, counts \in BOOLEAN :
              Ends(t, s, o, counts)
    BY <1>0, <1>1, EndsWell
  <2>2. pc # "done"
    BY <1>0, <1>1, EndingLeft
  <2>3. Len(attempts') = Len(attempts)
    BY <1>0, <2>1, <2>2, EndAttempts DEF Ends
  <2> QED
    BY <2>1, <2>3 DEF Ends, EndsAs
<1>2. CASE Malformed
  <2>1. PICK label \in {Unknown, AutoName} : Refused(label)
    BY <1>2 DEF Malformed
  <2>2. label \in Labels /\ "client_error" \in Outcomes
    BY DEF Labels, Outcomes
  <2>3. CountedIn(log', log, label, "client_error")
    BY <1>0, <2>1, <2>2, CountedLog DEF Refused
  <2> QED
    BY <2>1, <2>3 DEF CountedIn, Refused
<1>3. CASE (Leave /\ pc = "classifying") \/ Classify \/ (\E r \in Routes : Resolved(r))
  BY <1>3, ZenonT(30) DEF Leave, Classify, Resolved
<1>4. CASE PlanFails \/ PlanMade \/ WalkEnds
  BY <1>4, ZenonT(30) DEF PlanFails, PlanMade, WalkEnds
<1>5. CASE NextCandidate \/ Overflow
  <2>1. Record("failed") \/ Record("context_overflow")
    BY <1>5, ZenonT(30) DEF NextCandidate, Overflow
  <2>2. Len(attempts') = Len(attempts)
    BY <2>1 DEF Record, Inv, Types
  <2> QED
    BY <1>5, <2>2, ZenonT(30) DEF NextCandidate, Overflow
<1>6. CASE Failover /\ ~(Viable(at + 1, walk.floor) # {} /\ due)
  <2>1. log' = log /\ attempts' = attempts
    BY <1>6, ZenonT(30) DEF Failover
  <2> QED
    BY <2>1
<1>7. CASE \E s \in {200, 400, 500}, body \in Relayed : Commit(s, body)
  <2>1. PICK s \in {200, 400, 500}, body \in Relayed : Commit(s, body)
    BY <1>7
  <2>2. Record("committed") /\ log' = Counted(log, route, OfStatus(s)) /\ pc = "sent"
    BY <2>1 DEF Commit
  <2>3. Len(attempts') = Len(attempts)
    BY <2>2 DEF Record, Inv, Types
  <2>4. route \in Labels /\ OfStatus(s) \in Outcomes
    BY StatusOutcomes DEF Inv, Types, Labels, Outcomes
  <2>5. CountedIn(log', log, route, OfStatus(s))
    BY <1>0, <2>2, <2>4, CountedLog
  <2> QED
    BY <2>3, <2>5 DEF CountedIn
<1>8. CASE Deadline \/ UNCHANGED vars
  BY <1>8 DEF Deadline, vars
<1>9. ~Send /\ ~Move
  BY DEF Send, Move
<1> QED
  BY <1>1, <1>2, <1>3, <1>4, <1>5, <1>6, <1>7, <1>8, <1>9, Steps

\* Past the deadline no attempt starts and no route is entered, and nothing is
\* sent once an answer was committed.
THEOREM NothingStartsLateHolds ==
    ASSUME ForwardingAssumption
    PROVE  Spec => [][NothingStartsLate]_vars
<1>1. Inv /\ [Next]_vars => [NothingStartsLate]_vars
  BY CommittedStays, LateStarts DEF NothingStartsLate
<1>2. Spec => []Inv
  BY ForwardingInvariant
<1> QED
  BY <1>1, <1>2, PTL DEF Spec

-----------------------------------------------------------------------------
(* The slots. *)

\* The slot a request holds is that of the candidate it is about to try, and of
\* the deployment it waits for or relays from.
Slots ==
    /\ at \in 0..Len(plan) + 1
    /\ pc \in {"sent"} \cup Relayed => lease = {plan[at]} /\ at \in 1..Len(plan)
    /\ pc = "candidate" => \/ lease = {}
                           \/ at = 1 /\ walk.floor = 0 /\ lease = {plan[1]}
    /\ pc \notin {"candidate", "sent"} \cup Relayed => lease = {}
    /\ pc \in Walking => \A k \in 1..Len(plan) : plan[k] \in DeploymentsOf[route]
    /\ \A i \in DOMAIN attempts : attempts[i].deployment \in DeploymentsOf[attempts[i].route]

\* A step that leaves the plan, the attempts and the slots alone.
LEMMA SameSlots ==
    ASSUME Slots, UNCHANGED <<plan, at, lease, attempts>>,
           pc' \notin {"candidate", "sent"} \cup Relayed, lease = {},
           pc' \in Walking => pc \in Walking /\ route' = route
    PROVE  Slots'
BY DEF Slots

\* Every step keeps the slots: a candidate whose slot was taken with the plan is
\* the first one, and the first one is sent the request.
LEMMA StepSlots ==
    ASSUME ForwardingAssumption, Inv, Slots, [Next]_vars
    PROVE  Slots'
<1>0. /\ plan \in Seq(Deployments) /\ at \in Nat /\ attempts \in Seq(AttemptType)
      /\ Base /\ Len(plan) \in Nat
  BY DEF Inv, Base, Types
<1>1. CASE Ending
  <2>1. PICK t \in TrackerType, s \in Statuses, o \in Outcomes, counts \in BOOLEAN :
              Ends(t, s, o, counts)
    BY <1>0, <1>1, EndsWell
  <2>2. pc # "done" /\ at' = at
    BY <1>0, <1>1, EndingLeft
  <2>3. /\ DOMAIN attempts' = DOMAIN attempts
        /\ \A i \in DOMAIN attempts : /\ attempts'[i].route = attempts[i].route
                                      /\ attempts'[i].deployment = attempts[i].deployment
    BY <1>0, <2>1, <2>2, EndAttempts DEF Ends
  <2>4. pc' = "done" /\ lease' = {} /\ plan' = plan
    BY <2>1 DEF Ends, EndsAs
  <2>5. pc' \notin {"candidate", "sent"} \cup Relayed /\ pc' \notin Walking
    BY <2>4 DEF Relayed, Walking
  <2> QED
    BY <2>2, <2>3, <2>4, <2>5 DEF Slots
<1>2. CASE Malformed \/ (Leave /\ pc = "classifying")
  <2>1. /\ pc \in {"received", "classifying"} /\ pc' = "done" /\ lease' = {}
        /\ UNCHANGED <<plan, at, attempts>>
    BY <1>2 DEF Malformed, Refused, Leave, Ended, routeVars
  <2>2. lease = {} /\ pc' \notin {"candidate", "sent"} \cup Relayed /\ pc' \notin Walking
    BY <2>1, ZenonT(30) DEF Slots, Relayed, Walking
  <2> QED
    BY <2>1, <2>2, SameSlots
<1>3. CASE Classify \/ (pc \in Untried /\ \E r \in Routes : Resolved(r)) \/ (Begin /\ ~due)
  <2>1. /\ pc \in {"received", "classifying", "routed"} /\ pc' \in {"classifying", "routed", "planning"}
        /\ UNCHANGED <<plan, at, lease, attempts>>
    BY <1>3 DEF Classify, Resolved, Begin, Untried, routeVars
  <2>2. lease = {} /\ pc' \notin {"candidate", "sent"} \cup Relayed /\ pc' \notin Walking
    BY <2>1, ZenonT(30) DEF Slots, Relayed, Walking
  <2> QED
    BY <2>1, <2>2, SameSlots
<1>4. CASE PlanFails
  <2>1. pc' = "failed" /\ plan' = <<>> /\ at' = 0 /\ lease' = {} /\ attempts' = attempts
    BY <1>4 DEF PlanFails, Failed
  <2>2. Len(plan') = 0 /\ 1..Len(plan') = {} /\ at' \in 0..Len(plan') + 1
    BY <2>1
  <2>3. pc' \notin {"candidate", "sent"} \cup Relayed
    BY <2>1 DEF Relayed
  <2> QED
    BY <2>1, <2>2, <2>3 DEF Slots
<1>5. CASE PlanMade
  <2>1. PICK p \in Plans(route) : plan' = p /\ lease' = {p[1]}
    BY <1>5 DEF PlanMade
  <2>2. /\ pc = "planning" /\ pc' = "candidate" /\ at' = 1 /\ walk' = NewWalk
        /\ UNCHANGED <<route, attempts>>
    BY <1>5 DEF PlanMade
  <2>3. route \in Routes
    BY <2>2 DEF Inv, Types, OnCourse, Open
  <2>4. /\ p \in Seq(Deployments) /\ Len(p) >= 1
        /\ \A k \in 1..Len(p) : p[k] \in DeploymentsOf[route]
    BY <2>1, <2>3, PlanShape
  <2>5. at' \in 0..Len(plan') + 1 /\ walk'.floor = 0
    BY <2>1, <2>2, <2>4 DEF NewWalk
  <2>6. pc' \notin {"sent"} \cup Relayed
    BY <2>2 DEF Relayed
  <2> QED
    BY <2>1, <2>2, <2>4, <2>5, <2>6 DEF Slots
<1>6. CASE Send
  <2> DEFINE j == at'
             a == [route |-> route, deployment |-> plan[j], outcome |-> "pending"]
  <2>1. /\ pc = "candidate" /\ pc' = "sent" /\ j \in Viable(at, walk.floor)
        /\ \A k \in Viable(at, walk.floor) : j <= k
        /\ lease' = lease \cup {plan[j]} /\ attempts' = Append(attempts, a)
        /\ UNCHANGED <<route, plan, walk>>
    BY <1>6 DEF Send
  <2>2. /\ at > 0 /\ plan # <<>> /\ Len(plan) >= 1 /\ route \in Routes
        /\ \A k \in 1..Len(plan) : plan[k] \in DeploymentsOf[route]
    <3>1. pc \in Walking /\ pc \in {"candidate", "sent", "next"} /\ pc \in Open
      BY <2>1 DEF Walking, Open
    <3>2. at > 0 /\ plan # <<>>
      BY <3>1, ZenonT(30) DEF Inv, Walked
    <3>3. plan \in Seq(Deployments) /\ route \in Routes
      BY <3>1, ZenonT(30) DEF Inv, Types, OnCourse
    <3>4. Len(plan) >= 1
      BY <3>2, <3>3
    <3> QED
      BY <3>1, <3>2, <3>3, <3>4, <1>0, ZenonT(30) DEF Slots
  <2> HIDE DEF j
  <2>3. j \in 1..Len(plan) /\ at <= j
    <3>1. j \in at..Len(plan)
      BY <2>1, ZenonT(30) DEF Viable
    <3>2. at \in Nat /\ at > 0 /\ Len(plan) \in Nat
      BY <2>2 DEF Inv, Types
    <3> QED
      BY <3>1, <3>2
  <2>4. lease' = {plan[j]}
    <3>1. CASE lease = {}
      BY <2>1, <3>1
    <3>2. CASE at = 1 /\ walk.floor = 0 /\ lease = {plan[1]}
      <4>1. 1 \in Viable(at, walk.floor)
        BY <1>0, <2>2, <3>2 DEF Viable, Larger
      <4>2. j = 1
        BY <2>1, <2>3, <4>1
      <4> QED
        BY <2>1, <3>2, <4>2
    <3> QED
      BY <2>1, <3>1, <3>2, ZenonT(30) DEF Slots
  <2>5. a.route = route /\ a.deployment = plan[j] /\ plan[j] \in DeploymentsOf[route]
    BY <2>2, <2>3
  <2>6. a \in AttemptType
    BY <1>0, <2>2, <2>3 DEF AttemptType, AttemptOutcomes
  <2> HIDE DEF a
  <2>7. \A i \in DOMAIN attempts' : attempts'[i].deployment \in DeploymentsOf[attempts'[i].route]
    <3>1. /\ DOMAIN attempts' = 1..(Len(attempts) + 1) /\ attempts'[Len(attempts) + 1] = a
          /\ \A i \in 1..Len(attempts) : attempts'[i] = attempts[i]
          /\ DOMAIN attempts = 1..Len(attempts) /\ Len(attempts) \in Nat
      BY <1>0, <2>1, <2>6
    <3>2. \A i \in 1..Len(attempts) : attempts'[i].deployment \in DeploymentsOf[attempts'[i].route]
      BY <3>1 DEF Slots
    <3> QED
      BY <2>5, <3>1, <3>2
  <2>8. /\ at' \in 0..Len(plan') + 1 /\ lease' = {plan'[at']} /\ at' \in 1..Len(plan')
        /\ \A k \in 1..Len(plan') : plan'[k] \in DeploymentsOf[route']
    BY <1>0, <2>1, <2>2, <2>3, <2>4 DEF j
  <2> QED
    BY <2>1, <2>7, <2>8 DEF Slots
<1>7. CASE NextCandidate \/ Overflow
  <2>1. PICK o \in {"failed", "context_overflow"} : Record(o)
    BY <1>7 DEF NextCandidate, Overflow
  <2>2. /\ pc = "sent" /\ pc' = "next" /\ lease' = {} /\ UNCHANGED <<plan, at, route>>
    BY <1>7 DEF NextCandidate, Overflow
  <2>3. o \in AttemptOutcomes /\ attempts # <<>>
    BY <2>1, <2>2 DEF AttemptOutcomes, Inv, Attempted
  <2>4. /\ DOMAIN attempts' = DOMAIN attempts
        /\ \A i \in DOMAIN attempts : /\ attempts'[i].route = attempts[i].route
                                      /\ attempts'[i].deployment = attempts[i].deployment
    BY <1>0, <2>1, <2>3, Recorded DEF Record
  <2>5. pc' \notin {"candidate", "sent"} \cup Relayed /\ pc \in Walking
    BY <2>2 DEF Relayed, Walking
  <2> QED
    BY <2>2, <2>4, <2>5 DEF Slots
<1>8. CASE Failover /\ ~(Viable(at + 1, walk.floor) # {} /\ due)
  <2>1. /\ pc = "next" /\ pc' = "candidate" /\ at' = at + 1
        /\ UNCHANGED <<plan, route, attempts, lease>>
    BY <1>8, ZenonT(30) DEF Failover
  <2>2. at <= Len(plan) /\ lease = {} /\ pc \in Walking /\ pc' \notin {"sent"} \cup Relayed
    BY <2>1, ZenonT(30) DEF Inv, Walked, Walking, Slots, Relayed
  <2>3. at' \in 0..Len(plan') + 1
    BY <1>0, <2>1, <2>2
  <2> QED
    BY <2>1, <2>2, <2>3, ZenonT(30) DEF Slots
<1>9. CASE WalkEnds
  <2>1. /\ pc = "candidate" /\ pc' = "failed" /\ lease' = {}
        /\ UNCHANGED <<plan, at, route, attempts>>
    BY <1>9 DEF WalkEnds, WalkFails, Failed, routeVars
  <2>2. pc \in Walking /\ pc' \notin {"candidate", "sent"} \cup Relayed
    BY <2>1 DEF Walking, Relayed
  <2> QED
    BY <2>1, <2>2, ZenonT(30) DEF Slots
<1>10. CASE Move
  <2>1. pc = "failed" /\ pc' = "planning" /\ UNCHANGED <<plan, at, lease, attempts>>
    BY <1>10 DEF Move
  <2>2. lease = {} /\ pc' \notin {"candidate", "sent"} \cup Relayed /\ pc' \notin Walking
    BY <2>1 DEF Slots, Relayed, Walking
  <2> QED
    BY <2>1, <2>2, SameSlots
<1>11. CASE \E s \in {200, 400, 500}, body \in Relayed : Commit(s, body)
  <2>1. PICK s \in {200, 400, 500}, body \in Relayed : Commit(s, body)
    BY <1>11
  <2>2. /\ pc = "sent" /\ pc' \in Relayed /\ Record("committed")
        /\ UNCHANGED <<plan, at, lease>>
    BY <2>1 DEF Commit, routeVars
  <2>3. "committed" \in AttemptOutcomes /\ attempts # <<>>
    BY <2>2 DEF AttemptOutcomes, Inv, Attempted
  <2>4. /\ DOMAIN attempts' = DOMAIN attempts
        /\ \A i \in DOMAIN attempts : /\ attempts'[i].route = attempts[i].route
                                      /\ attempts'[i].deployment = attempts[i].deployment
    BY <1>0, <2>2, <2>3, Recorded DEF Record
  <2>5. pc' # "candidate" /\ pc' \notin Walking
    BY <2>2 DEF Relayed, Walking
  <2> QED
    BY <2>2, <2>4, <2>5 DEF Slots
<1>12. CASE Deadline \/ UNCHANGED vars
  <2>1. UNCHANGED <<pc, plan, at, lease, attempts, route, walk>>
    BY <1>12 DEF Deadline, vars, routeVars
  <2> QED
    BY <2>1 DEF Slots
<1> QED
  BY <1>1, <1>2, <1>3, <1>4, <1>5, <1>6, <1>7, <1>8, <1>9, <1>10, <1>11, <1>12,
     Steps

\* A request that was just received holds none.
LEMMA InitSlots ==
    ASSUME Init
    PROVE  Slots
<1>1. /\ pc = "received" /\ at = 0 /\ plan = <<>> /\ lease = {} /\ attempts = <<>>
  BY DEF Init
<1>2. Len(plan) = 0 /\ DOMAIN attempts = {} /\ pc \notin {"candidate", "sent"} \cup Relayed
      /\ pc \notin Walking
  BY <1>1 DEF Relayed, Walking
<1> QED
  BY <1>1, <1>2 DEF Slots

\* The types, with what TypeOK says of the slot.
LEMMA TypesOK ==
    ASSUME ForwardingAssumption, Inv, Slots
    PROVE  TypeOK
<1>1. /\ plan \in Seq(Deployments) /\ attempts \in Seq(AttemptType) /\ tracker \in TrackerType
      /\ failure \in FailureType /\ log.traces \in Seq(TraceType)
  BY DEF Inv, Types, LogType
<1>2. lease = {} \/ \E d \in Deployments : lease = {d}
  <2>1. CASE pc \in {"sent"} \cup Relayed
    BY <1>1, <2>1 DEF Slots
  <2>2. CASE pc = "candidate"
    <3>1. plan # <<>>
      BY <2>2, ZenonT(30) DEF Inv, Walked, Walking
    <3>2. plan[1] \in Deployments
      BY <1>1, <3>1
    <3> QED
      BY <2>2, <3>2 DEF Slots
  <2>3. CASE pc \notin {"candidate", "sent"} \cup Relayed
    BY <2>3 DEF Slots
  <2> QED
    BY <2>1, <2>2, <2>3
<1>3. \A a \in Range(attempts) : a.route \in Routes /\ a.deployment \in DeploymentsOf[a.route]
  <2>1. \A i \in DOMAIN attempts : /\ attempts[i] \in AttemptType
                                  /\ attempts[i].deployment \in DeploymentsOf[attempts[i].route]
    BY <1>1 DEF Slots
  <2>2. \A a \in AttemptType : a.route \in Routes
    BY DEF AttemptType
  <2> QED
    BY <2>1, <2>2 DEF Range
<1>4. \A t \in Range(log.traces) : t.label \in Labels /\ t.outcome \in Outcomes
  <2>1. \A i \in DOMAIN log.traces : log.traces[i] \in TraceType
    BY <1>1
  <2>2. \A t \in TraceType : t.label \in Labels /\ t.outcome \in Outcomes
    BY DEF TraceType
  <2> QED
    BY <2>1, <2>2 DEF Range
<1>5. tracker.label \in Labels /\ failure.reason \in Reasons \cup {None}
  BY <1>1 DEF TrackerType, FailureType
<1>6. pc \in {"sent", "body", "stream"} => lease = {plan[at]}
  BY DEF Slots, Relayed
<1>7. pc \in {"received", "classifying", "routed", "planning", "candidate", "sent",
               "next", "failed", "body", "stream", "done"}
  BY DEF Inv, Types, Untried, Open, Relayed
<1> QED
  BY <1>1, <1>2, <1>3, <1>4, <1>5, <1>6, <1>7, ZenonT(60)
     DEF TypeOK, Inv, Types, Slots, Statuses

\* A request holds at most one slot at a time, that of the deployment it waits
\* for or relays from, and every record is of its type.
THEOREM ForwardingTypes ==
    ASSUME ForwardingAssumption
    PROVE  Spec => []TypeOK
<1>1. Init => Slots
  BY InitSlots
<1>2. Inv /\ Slots /\ [Next]_vars => Slots'
  BY StepSlots
<1>3. Inv /\ Slots => TypeOK
  BY TypesOK
<1>4. Spec => []Inv
  BY ForwardingInvariant
<1> QED
  BY <1>1, <1>2, <1>3, <1>4, PTL DEF Spec
=============================================================================

---------------------------- MODULE GatewayProofs ----------------------------
(***************************************************************************)
(* What the start of an engine (EngineSupervisor) and the download of a    *)
(* file (Download) guarantee, for every value of their constants.          *)
(***************************************************************************)
EXTENDS EngineSupervisor, Download, SequenceTheorems, TLAPS

\* The provers have half a minute for each leaf.
USE SMTT(30), ZenonT(30)

-----------------------------------------------------------------------------
(* The engine, for any number of attempts, of lines the child writes and of  *)
(* lines the tail keeps.  The invariant says which lines the pump has read   *)
(* and the tail keeps, that nobody lives at the stages that must leave       *)
(* nobody, and what a report rests on.                                       *)

Errors == {"none", "missing", "cancelled", "timeout", "released", "unavailable",
           "crashed_code", "crashed_signal", "unsupported_cpu", "oom"}

ReportType == [error : Errors, tail : Seq(Nat)]

Types ==
    /\ stage \in {"begin", "top", "probing", "bottom", "draining", "stopping",
                  "ready", "failed", "dead"}
    /\ attempt \in 1..MaxAttempts
    /\ child \in Exits \cup {"none", "booting", "serving"}
    /\ port \in {"free", "child", "foreign"}
    /\ written \in Seq(Nat) /\ Len(written) <= MaxLines
    /\ pipe \in Seq(Nat)
    /\ tail \in Seq(Nat)
    /\ report \in ReportType

\* How many lines the pump has read, and how many of them the tail keeps.
ReadLines == Len(written) - Len(pipe)
Kept == IF ReadLines <= TailLines THEN ReadLines ELSE TailLines

\* The pipe holds the lines not yet read, and the tail the last ones read.
Pumping ==
    /\ \A i \in 1..Len(written) : written[i] = i
    /\ Len(pipe) <= Len(written)
    /\ \A i \in 1..Len(pipe) : pipe[i] = ReadLines + i
    /\ Len(tail) = Kept
    /\ \A i \in 1..Len(tail) : tail[i] = ReadLines - Kept + i

\* What is known of the child when its failure is being dealt with.
Blamed ==
    /\ stage \in {"top", "probing", "bottom"} => child # "none"
    /\ stage \in {"begin", "top", "probing", "bottom", "ready"} => report = NoReport
    /\ stage \in {"draining", "stopping", "failed"} /\ report.error \in CarriesTail
           => ~Alive
    /\ stage \in {"draining", "stopping"} /\ report.error = "crashed_code"
           => child = "failed"
    /\ stage \in {"stopping", "failed"} /\ report.error \in CarriesTail
           => report.tail = LastLines

IInv == Types /\ Pumping /\ NoOrphan /\ Blamed

\* With nothing left to read, the tail is the last lines written.
LEMMA TailIsLastLines ==
    ASSUME BoundsAssumption, Types, Pumping, pipe = <<>>
    PROVE  tail = LastLines
<1> DEFINE n == Len(written)
           from == IF n > TailLines THEN n - TailLines + 1 ELSE 1
<1>1. n \in Nat /\ ReadLines = n
  BY DEF Types, ReadLines
<1>2. LastLines = SubSeq(written, from, n)
  BY DEF LastLines
<1>3. Kept = IF n <= TailLines THEN n ELSE TailLines
  BY <1>1 DEF Kept
<1>4. \A i \in 1..n : written[i] = i
  BY DEF Pumping
<1> HIDE DEF n
<1>5. from \in 1..(n + 1) /\ Kept = n - from + 1 /\ Kept \in Nat /\ from \in Int
  BY <1>1, <1>3 DEF BoundsAssumption
<1> HIDE DEF from
<1>6. /\ LastLines \in Seq(Nat)
      /\ Len(LastLines) = IF from <= n THEN n - from + 1 ELSE 0
      /\ \A i \in 1..(n - from + 1) : LastLines[i] = written[from + i - 1]
  <2>1. \A i \in from..n : written[i] \in Nat
    BY <1>1, <1>4, <1>5
  <2>2. QED
    BY <1>1, <1>2, <1>5, <2>1, SubSeqProperties
<1>7. Len(LastLines) = Kept
  BY <1>1, <1>5, <1>6
<1>8. \A i \in 1..Kept : LastLines[i] = from + i - 1
  BY <1>1, <1>4, <1>5, <1>6
<1>9. Len(tail) = Kept /\ \A i \in 1..Kept : tail[i] = n - Kept + i
  BY <1>1 DEF Pumping
<1>10. \A i \in 1..Kept : tail[i] = LastLines[i]
  BY <1>1, <1>5, <1>8, <1>9
<1>11. tail \in Seq(Nat)
  BY DEF Types
<1>12. QED
  BY <1>6, <1>7, <1>9, <1>10, <1>11, SeqEqual, ZenonT(30)

\* What a way to end becomes: the error of a plain failure is its own, and
\* none is mistaken for a timeout.
LEMMA ErrorsOfExits ==
    ASSUME NEW exit \in Exits, NEW e \in IntoError(exit)
    PROVE  /\ e \in Errors \ {"timeout", "none"}
           /\ e = "crashed_code" => exit = "failed"
<1>1. CASE exit = "clean"
  BY <1>1 DEF IntoError, Errors
<1>2. CASE exit = "failed"
  BY <1>2 DEF IntoError, Errors
<1>3. CASE exit = "sigill"
  BY <1>3 DEF IntoError, Errors
<1>4. CASE exit = "sigkill"
  BY <1>4 DEF IntoError, Errors
<1>5. CASE exit = "sigsegv"
  BY <1>5 DEF IntoError, Errors
<1>6. QED
  BY <1>1, <1>2, <1>3, <1>4, <1>5 DEF Exits

\* A report made without a tail is a report.
LEMMA ReportsWithoutTail ==
    \A e \in Errors : [error |-> e, tail |-> <<>>] \in ReportType
BY DEF ReportType

\* A start begins with nothing written and nobody alive.
LEMMA StartInit == BoundsAssumption /\ Init => IInv
BY ReportsWithoutTail
   DEF BoundsAssumption, Init, IInv, Types, Errors, NoReport, Pumping, ReadLines,
       Kept, NoOrphan, Alive, Blamed, Exits

\* Every step keeps the types.
LEMMA TypesStep == BoundsAssumption /\ IInv /\ [Next]_vars => Types'
<1> SUFFICES ASSUME BoundsAssumption, IInv, [Next]_vars PROVE Types'
  OBVIOUS
<1> USE DEF BoundsAssumption, IInv, Types, Exits
<1>a. NoReport \in ReportType
  BY ReportsWithoutTail DEF NoReport, Errors
<1>1. CASE Write
  BY <1>1 DEF Write, Alive
<1>2. CASE Bind
  BY <1>2 DEF Bind
<1>3. CASE TakePort
  BY <1>3 DEF TakePort
<1>4. CASE LogPump
  BY <1>4 DEF LogPump, Pumped
<1>5. CASE Cancel
  BY <1>5 DEF Cancel
<1>6. CASE DeadlinePasses
  BY <1>6 DEF DeadlinePasses
<1>7. CASE RefuseMissing
  BY <1>7, ReportsWithoutTail DEF RefuseMissing, Errors
<1>8. CASE Spawn
  BY <1>8 DEF Spawn
<1>9. CASE Poll
  <2>1. CASE ~cancelled /\ ~Alive
    <3>1. child \in Exits
      BY <1>9, <2>1 DEF Poll, Alive, Blamed
    <3>2. QED
      BY <1>9, <2>1, <3>1, ErrorsOfExits, ReportsWithoutTail DEF Poll, Fail
  <2>2. QED
    BY <1>9, <2>1, ReportsWithoutTail DEF Poll, Fail, Alive, Errors
<1>10. CASE ProbeSucceeds
  BY <1>10 DEF ProbeSucceeds
<1>11. CASE ProbeFails
  BY <1>11 DEF ProbeFails
<1>12. CASE Recheck
  <2>1. CASE ~Alive
    <3>1. child \in Exits
      BY <1>12, <2>1 DEF Recheck, Alive, Blamed
    <3>2. QED
      BY <1>12, <2>1, <3>1, ErrorsOfExits, ReportsWithoutTail DEF Recheck, Fail
  <2>2. QED
    BY <1>12, <2>1, ReportsWithoutTail DEF Recheck, Fail, Alive, Errors
<1>13. CASE DrainTail
  BY <1>13, ZenonT(30) DEF DrainTail, ReportType
<1>14. CASE Stop
  <2>1. attempt' \in 1..MaxAttempts
    BY <1>14 DEF Stop
  <2>2. QED
    BY <1>14, <1>a, <2>1 DEF Stop
<1>15. CASE Terminate
  BY <1>15 DEF Terminate
<1>16. CASE Release
  BY <1>16, ReportsWithoutTail DEF Release, Errors
<1>17. CASE GatewayDies
  BY <1>17 DEF GatewayDies
<1>18. ASSUME NEW how \in Exits, Exit(how) PROVE Types'
  BY <1>18 DEF Exit
<1>19. CASE UNCHANGED vars
  BY <1>19 DEF vars
<1>20. QED
  BY <1>1, <1>2, <1>3, <1>4, <1>5, <1>6, <1>7, <1>8, <1>9, <1>10, <1>11, <1>12,
     <1>13, <1>14, <1>15, <1>16, <1>17, <1>18, <1>19, ZenonT(30)
     DEF Next, SupervisorStep

\* Every step keeps the account of the lines: only the child writes them, only
\* the pump reads them, and a spawn starts over.
LEMMA PumpingStep == BoundsAssumption /\ IInv /\ [Next]_vars => Pumping'
<1> SUFFICES ASSUME BoundsAssumption, IInv, [Next]_vars PROVE Pumping'
  OBVIOUS
<1>1. CASE Write
  <2> DEFINE w == Len(written)
             p == Len(pipe)
  <2>1. w \in Nat /\ p \in Nat /\ p <= w
    BY DEF IInv, Types, Pumping
  <2>2. /\ Len(written') = w + 1 /\ Len(pipe') = p + 1 /\ tail' = tail
        /\ \A i \in 1..(w + 1) : written'[i] = IF i = w + 1 THEN w + 1 ELSE written[i]
        /\ \A i \in 1..(p + 1) : pipe'[i] = IF i = p + 1 THEN w + 1 ELSE pipe[i]
    BY <1>1 DEF Write, IInv, Types
  <2>3. /\ \A i \in 1..w : written[i] = i
        /\ \A i \in 1..p : pipe[i] = w - p + i
    BY DEF IInv, Pumping, ReadLines
  <2> HIDE DEF w, p
  <2>4. /\ \A i \in 1..(w + 1) : written'[i] = i
        /\ \A i \in 1..(p + 1) : pipe'[i] = w - p + i
    BY <2>1, <2>2, <2>3
  <2>5. ReadLines' = w - p /\ ReadLines = w - p
    BY <2>1, <2>2 DEF ReadLines, w, p
  <2>6. Kept' = Kept
    BY <2>5 DEF Kept
  <2>7. QED
    BY <2>1, <2>2, <2>4, <2>5, <2>6 DEF IInv, Pumping
<1>2. CASE LogPump
  <2> DEFINE w == Len(written)
             p == Len(pipe)
             t == Len(tail)
             full == t = TailLines
  <2>1. /\ w \in Nat /\ p \in Nat /\ t \in Nat /\ p <= w /\ p > 0
        /\ t = IF w - p <= TailLines THEN w - p ELSE TailLines
    BY <1>2 DEF LogPump, IInv, Types, Pumping, ReadLines, Kept
  <2>2. /\ written' = written /\ Len(pipe') = p - 1
        /\ \A i \in 1..(p - 1) : pipe'[i] = pipe[i + 1]
        /\ Head(pipe) = pipe[1] /\ pipe[1] \in Nat
    BY <1>2 DEF LogPump, IInv, Types
  <2>3. ASSUME full
        PROVE  /\ Len(tail') = t
               /\ \A i \in 1..t : tail'[i] = IF i = t THEN pipe[1] ELSE tail[i + 1]
    BY <1>2, <2>2, <2>3 DEF LogPump, Pumped, IInv, Types, BoundsAssumption
  <2>4. ASSUME ~full
        PROVE  /\ Len(tail') = t + 1
               /\ \A i \in 1..(t + 1) : tail'[i] = IF i = t + 1 THEN pipe[1] ELSE tail[i]
    BY <1>2, <2>2, <2>4 DEF LogPump, Pumped, IInv, Types
  <2>5. /\ \A i \in 1..p : pipe[i] = w - p + i
        /\ \A i \in 1..t : tail[i] = w - p - t + i
    BY DEF IInv, Pumping, ReadLines
  <2>6. ReadLines' = Len(written) - Len(pipe')
    BY <2>2 DEF ReadLines
  <2> HIDE DEF w, p, t
  <2>7. ReadLines' = w - p + 1
    BY <2>1, <2>2, <2>6 DEF w
  <2>8. Kept' = Len(tail') /\ Kept' = IF full THEN t ELSE t + 1
    BY <2>1, <2>3, <2>4, <2>7 DEF Kept, BoundsAssumption
  <2>9. \A i \in 1..(p - 1) : pipe'[i] = ReadLines' + i
    BY <2>1, <2>2, <2>5, <2>7
  <2>10. \A i \in 1..Len(tail') : tail'[i] = ReadLines' - Kept' + i
    <3>1. CASE full
      BY <2>1, <2>3, <2>5, <2>7, <2>8, <3>1 DEF BoundsAssumption
    <3>2. CASE ~full
      BY <2>1, <2>4, <2>5, <2>7, <2>8, <3>2 DEF BoundsAssumption
    <3>3. QED
      BY <3>1, <3>2
  <2>11. Len(pipe') <= Len(written')
    BY <2>1, <2>2 DEF w
  <2>12. QED
    BY <2>2, <2>8, <2>9, <2>10, <2>11 DEF IInv, Pumping
<1>3. CASE Spawn
  BY <1>3 DEF Spawn, BoundsAssumption, Pumping, ReadLines, Kept
<1>4. CASE UNCHANGED <<written, pipe, tail>>
  BY <1>4 DEF IInv, Pumping, ReadLines, Kept
<1>5. QED
  BY <1>1, <1>2, <1>3, <1>4
     DEF Next, SupervisorStep, vars, Exit, Bind, TakePort, Cancel, DeadlinePasses,
         RefuseMissing, Poll, ProbeSucceeds, ProbeFails, Recheck, DrainTail, Stop,
         Terminate, Release, GatewayDies

\* Every step leaves nobody behind.
LEMMA NoOrphanStep == BoundsAssumption /\ IInv /\ [Next]_vars => NoOrphan'
BY DEF IInv, Types, NoOrphan, Alive, Exits, Next, SupervisorStep, vars, Exit, Write,
       LogPump, Spawn, Fail, Bind, TakePort, Cancel, DeadlinePasses, RefuseMissing,
       Poll, ProbeSucceeds, ProbeFails, Recheck, DrainTail, Stop, Terminate,
       Release, GatewayDies

\* Every step keeps a report resting on what happened to the child.
LEMMA BlamedStep == BoundsAssumption /\ IInv /\ [Next]_vars => Blamed'
<1> SUFFICES ASSUME BoundsAssumption, IInv, [Next]_vars PROVE Blamed'
  OBVIOUS
<1> USE DEF IInv, Types, Blamed, NoReport
<1>1. CASE Write
  BY <1>1 DEF Write, Alive, CarriesTail
<1>2. CASE LogPump
  BY <1>2 DEF LogPump, Alive, LastLines
<1>3. CASE Bind
  BY <1>3 DEF Bind, Alive, LastLines, Exits, CarriesTail
<1>4. CASE TakePort
  BY <1>4 DEF TakePort, Alive, LastLines, Exits, CarriesTail
<1>5. CASE Cancel
  BY <1>5 DEF Cancel, Alive, LastLines, Exits, CarriesTail
<1>6. CASE DeadlinePasses
  BY <1>6 DEF DeadlinePasses, Alive, LastLines, Exits, CarriesTail
<1>7. CASE ProbeSucceeds
  BY <1>7 DEF ProbeSucceeds, Alive, LastLines, Exits, CarriesTail
<1>8. CASE ProbeFails
  BY <1>8 DEF ProbeFails, Alive, LastLines, Exits, CarriesTail
<1>9. CASE Terminate
  BY <1>9 DEF Terminate, Alive, LastLines, Exits, CarriesTail
<1>10. CASE GatewayDies
  BY <1>10 DEF GatewayDies, Alive, LastLines, Exits, CarriesTail
<1>11. CASE RefuseMissing
  BY <1>11 DEF RefuseMissing, CarriesTail
<1>12. CASE Spawn
  BY <1>12 DEF Spawn
<1>13. CASE Poll
  <2>1. CASE ~cancelled /\ ~Alive
    <3>1. child \in Exits
      BY <1>13, <2>1 DEF Poll, Alive
    <3>2. PICK e \in IntoError(child) : Fail(e)
      BY <1>13, <2>1 DEF Poll
    <3>3. e = "crashed_code" => child = "failed"
      BY <3>1, <3>2, ErrorsOfExits
    <3>4. QED
      BY <1>13, <2>1, <3>2, <3>3 DEF Poll, Fail, Alive
  <2>2. QED
    BY <1>13, <2>1 DEF Poll, Fail, Alive, CarriesTail
<1>14. CASE Recheck
  <2>1. CASE ~Alive
    <3>1. child \in Exits
      BY <1>14, <2>1 DEF Recheck, Alive
    <3>2. PICK e \in IntoError(child) : Fail(e)
      BY <1>14, <2>1 DEF Recheck
    <3>3. e = "crashed_code" => child = "failed"
      BY <3>1, <3>2, ErrorsOfExits
    <3>4. QED
      BY <1>14, <2>1, <3>2, <3>3 DEF Recheck, Fail, Alive
  <2>2. QED
    BY <1>14, <2>1 DEF Recheck, Fail, Alive, CarriesTail
<1>15. CASE DrainTail
  <2>1. ASSUME report.error \in CarriesTail PROVE tail = LastLines
    BY <1>15, <2>1, TailIsLastLines DEF DrainTail
  <2>2. QED
    BY <1>15, <2>1 DEF DrainTail, Alive, LastLines, ReportType
<1>16. CASE Stop
  BY <1>16 DEF Stop, Alive, LastLines
<1>17. CASE Release
  BY <1>17 DEF Release, CarriesTail
<1>18. ASSUME NEW how \in Exits, Exit(how) PROVE Blamed'
  BY <1>18 DEF Exit, Alive, Exits, CarriesTail
<1>19. CASE UNCHANGED vars
  BY <1>19 DEF vars, Alive, LastLines
<1>20. QED
  BY <1>1, <1>2, <1>3, <1>4, <1>5, <1>6, <1>7, <1>8, <1>9, <1>10, <1>11, <1>12,
     <1>13, <1>14, <1>15, <1>16, <1>17, <1>18, <1>19
     DEF Next, SupervisorStep

\* IInv holds in every state of a start.
THEOREM StartInvariant == BoundsAssumption /\ Spec => []IInv
<1> SUFFICES ASSUME BoundsAssumption PROVE Spec => []IInv
  OBVIOUS
<1>1. Init => IInv
  BY StartInit
<1>2. IInv /\ [Next]_vars => IInv'
  BY TypesStep, PumpingStep, NoOrphanStep, BlamedStep DEF IInv
<1>3. QED
  BY <1>1, <1>2, PTL DEF Spec

\* No child is left running when start has failed or tries again, nor once the
\* gateway is dead, whatever the bounds (Engine::shutdown, configure_child).
THEOREM NoOrphanHolds == BoundsAssumption /\ Spec => []NoOrphan
BY StartInvariant, PTL DEF IInv

\* A timeout is only reported for a child that was alive when looked at.
LEMMA TimeoutStep == IInv /\ Next => TimeoutIsTrue
<1> SUFFICES ASSUME IInv, Next, report'.error = "timeout", report.error # "timeout"
             PROVE  Alive
  BY DEF TimeoutIsTrue
<1>1. CASE Poll
  <2>1. cancelled \/ Alive
    <3>1. SUFFICES ASSUME ~cancelled, ~Alive PROVE FALSE
      OBVIOUS
    <3>2. child \in Exits
      BY <1>1, <3>1 DEF Poll, Alive, IInv, Types, Blamed
    <3>3. QED
      BY <1>1, <3>1, <3>2, ErrorsOfExits DEF Poll, Fail
  <2>2. QED
    BY <1>1, <2>1 DEF Poll, Fail
<1>2. CASE Recheck
  <2>1. SUFFICES ASSUME ~Alive PROVE FALSE
    OBVIOUS
  <2>2. child \in Exits
    BY <1>2, <2>1 DEF Recheck, Alive, IInv, Types, Blamed
  <2>3. QED
    BY <1>2, <2>1, <2>2, ErrorsOfExits DEF Recheck, Fail
<1>3. CASE DrainTail
  BY <1>3 DEF DrainTail, IInv, Types, ReportType
<1>4. CASE RefuseMissing \/ Stop \/ Release
  BY <1>4 DEF RefuseMissing, Stop, Release, NoReport
<1>5. CASE UNCHANGED report
  BY <1>5
<1>6. QED
  BY <1>1, <1>2, <1>3, <1>4, <1>5
     DEF Next, SupervisorStep, Spawn, ProbeSucceeds, ProbeFails, Terminate,
         GatewayDies, Write, Bind, TakePort, LogPump, Cancel, DeadlinePasses, Exit

\* Only a plain failure is tried again, and not beyond the last attempt.
LEMMA RetryStep == BoundsAssumption /\ IInv /\ IInv' /\ Next => RetryIsTrue
<1> SUFFICES ASSUME BoundsAssumption, IInv, IInv', Next, attempt' # attempt
             PROVE  child = "failed" /\ attempt' <= MaxAttempts
  BY DEF RetryIsTrue
<1>1. Stop
  BY DEF Next, SupervisorStep, RefuseMissing, Spawn, Poll, ProbeSucceeds,
         ProbeFails, Recheck, DrainTail, Terminate, Release, GatewayDies, Write,
         Bind, TakePort, LogPump, Cancel, DeadlinePasses, Exit
<1>2. child = "failed"
  BY <1>1 DEF Stop, IsRetryable, IInv, Blamed
<1>3. attempt' <= MaxAttempts
  BY DEF IInv, Types, BoundsAssumption
<1>4. QED
  BY <1>2, <1>3

\* What start says of a failure, and tries again, is true for every number of
\* attempts, lines and kept lines: the tail of a dead engine's report is the
\* last lines it wrote, a timeout never hides a death, and only a plain
\* non-zero exit is retried (await_ready, drained_stderr_tail, start).
THEOREM FailureIsExplainedHolds == BoundsAssumption /\ Spec => FailureIsExplained
<1> SUFFICES ASSUME BoundsAssumption PROVE Spec => FailureIsExplained
  OBVIOUS
<1>1. IInv /\ IInv' /\ [Next]_vars => [TailIsTrue /\ TimeoutIsTrue /\ RetryIsTrue]_vars
  <2>1. IInv' => TailIsTrue
    BY DEF IInv, Blamed, TailIsTrue
  <2>2. QED
    BY <2>1, TimeoutStep, RetryStep
<1>2. FailureIsExplained <=> [][TailIsTrue /\ TimeoutIsTrue /\ RetryIsTrue]_vars
  BY DEF FailureIsExplained
<1>3. QED
  BY <1>1, <1>2, StartInvariant, PTL DEF Spec

-----------------------------------------------------------------------------
(***************************************************************************)
(* PlacedIsVerified for any number of attempts, chunks and versions.  As   *)
(* long as attempts do not overlap, the hasher of the one attempt under    *)
(* way has seen what the .part holds, whichever way the file was opened,   *)
(* and the .part is never the file that was put in place.                  *)
(***************************************************************************)
Alone == \A f, g \in Fetchers : Under(f) /\ Under(g) => f = g

OnDisk == IF part = 0 THEN <<>> ELSE inodes[part]

HashFollowsFile(f) ==
    /\ fetch[f].pc = "ask" =>
         fetch[f].hashed = OnDisk /\ fetch[f].resume = Len(OnDisk)
    /\ fetch[f].pc = "open" =>
         /\ fetch[f].append => part # 0
         /\ fetch[f].hashed = (IF fetch[f].append THEN OnDisk ELSE <<>>)
         /\ fetch[f].offset = Len(fetch[f].hashed)
    /\ fetch[f].pc = "stream" =>
         /\ part # 0 /\ fetch[f].inode = part
         /\ fetch[f].hashed = inodes[part]
         /\ fetch[f].offset = Len(fetch[f].hashed)

Serial ==
    ~together => /\ Alone
                 /\ part # 0 => part # dest
                 /\ \A f \in Fetchers : HashFollowsFile(f)
                 /\ PlacedIsVerified

FetchInv == FetchTypeOK /\ Serial

\* A chunk written anywhere leaves a sequence; at the end it is appended.
LEMMA WrittenIsSequence ==
    ASSUME FetchAssumption, NEW bytes \in Seq(Block), NEW at \in Nat, NEW c \in Block
    PROVE  /\ WrittenAt(bytes, at, c) \in Seq(Block)
           /\ at = Len(bytes) => WrittenAt(bytes, at, c) = Append(bytes, c)
  <1> DEFINE n == IF at + 1 > Len(bytes) THEN at + 1 ELSE Len(bytes)
             w == WrittenAt(bytes, at, c)
  <1>0. Hole \in Block
    BY DEF Hole, Block
  <1>1. n \in Nat /\ Len(bytes) \in Nat
    OBVIOUS
  <1>2. w = [i \in 1..n |-> IF i = at + 1 THEN c ELSE IF i <= Len(bytes) THEN bytes[i] ELSE Hole]
    BY DEF WrittenAt
  <1>3. \A i \in 1..n : (IF i = at + 1 THEN c ELSE IF i <= Len(bytes) THEN bytes[i] ELSE Hole) \in Block
    BY <1>0, <1>1
  <1>4. w \in [1..n -> Block]
    BY <1>2, <1>3
  <1>5. w \in Seq(Block)
    BY <1>1, <1>4
  <1>6. ASSUME at = Len(bytes)
        PROVE  w = Append(bytes, c)
    <2>1. n = Len(bytes) + 1
      BY <1>1, <1>6
    <2> DEFINE a == Append(bytes, c)
    <2>2. a \in Seq(Block) /\ Len(a) = Len(bytes) + 1
      OBVIOUS
    <2>3. w \in Seq(Block) /\ Len(w) = Len(a)
      BY <1>1, <1>4, <1>5, <2>1, <2>2
    <2>4. \A i \in 1..Len(a) : w[i] = a[i]
      BY <1>1, <1>2, <1>6, <2>1, <2>2
    <2> QED
      BY <2>2, <2>3, <2>4, SeqEqual
  <1> QED
    BY <1>5, <1>6

LEMMA TypesInitially ==
    FetchAssumption /\ FetchInit => FetchTypeOK
  <1> SUFFICES ASSUME FetchAssumption, FetchInit PROVE FetchTypeOK
    OBVIOUS
  <1>1. NoFetch \in Fetch
    BY DEF NoFetch, Fetch, FetchAssumption
  <1>2. inodes \in Seq(Seq(Block)) /\ Len(inodes) = 0 /\ checked \in Seq(Block)
    BY DEF FetchInit
  <1>3. /\ fetch \in [Fetchers -> Fetch]
        /\ \A f \in Fetchers : fetch[f].pc = "idle"
    BY <1>1 DEF FetchInit, NoFetch
  <1>4. /\ remote \in Versions /\ part \in 0..0 /\ dest \in 0..0
        /\ tries \in Nat /\ breaks \in Nat
    BY DEF FetchInit, FetchAssumption
  <1>5. together \in BOOLEAN
    BY ZenonT(30) DEF FetchInit
  <1> QED
    BY <1>2, <1>3, <1>4, <1>5 DEF FetchTypeOK

\* What replacing the bytes of one file does.
LEMMA FileReplaced ==
    ASSUME FetchTypeOK, NEW k \in 1..Len(inodes), NEW bytes \in Seq(Block)
    PROVE  LET after == [inodes EXCEPT ![k] = bytes]
           IN /\ after \in Seq(Seq(Block))
              /\ Len(after) = Len(inodes)
              /\ after[k] = bytes
              /\ \A j \in 1..Len(inodes) : j # k => after[j] = inodes[j]
  BY DEF FetchTypeOK

LEMMA TypesKept ==
    FetchAssumption /\ FetchTypeOK /\ [FetchNext]_fetchVars => FetchTypeOK'
  <1> SUFFICES ASSUME FetchAssumption, FetchTypeOK, [FetchNext]_fetchVars
               PROVE  FetchTypeOK'
    OBVIOUS
  <1>0. NoFetch \in Fetch
    BY DEF NoFetch, Fetch, FetchAssumption
  <1>e. ASSUME NEW f \in Fetchers, NEW how \in {"failed", "corrupt", "broken", "done"},
               Ended(f, how)
        PROVE  /\ fetch' \in [Fetchers -> Fetch]
               /\ fetch'[f].pc = "idle"
               /\ \A g \in Fetchers : g # f => fetch'[g] = fetch[g]
    <2>1. [NoFetch EXCEPT !.end = how] \in Fetch /\ [NoFetch EXCEPT !.end = how].pc = "idle"
      BY <1>0, ZenonT(30) DEF Fetch, NoFetch
    <2> QED
      BY <1>e, <2>1 DEF Ended, FetchTypeOK
  <1>1. ASSUME NEW f \in Fetchers, RehashPartial(f) PROVE FetchTypeOK'
    <2> DEFINE have == IF part = 0 THEN <<>> ELSE inodes[part]
    <2>1. have \in Seq(Block) /\ Len(have) \in Nat
      BY DEF FetchTypeOK
    <2>2. fetch' = [fetch EXCEPT ![f] = [@ EXCEPT !.pc = "ask", !.hashed = have,
                                                  !.resume = Len(have), !.end = "none"]]
      BY <1>1, ZenonT(30) DEF RehashPartial, FetchTypeOK, Fetch
    <2>3. \A q \in Fetch : [q EXCEPT !.pc = "ask", !.hashed = have, !.resume = Len(have),
                                     !.end = "none"] \in Fetch
      BY <2>1, ZenonT(30) DEF Fetch
    <2>4. fetch' \in [Fetchers -> Fetch]
      BY <2>2, <2>3, ZenonT(30) DEF FetchTypeOK
    <2>5. \A g \in Fetchers : fetch'[g].pc = "stream" => fetch'[g] = fetch[g]
      BY <2>2 DEF FetchTypeOK, Fetch
    <2>6. tries' \in Nat /\ together' \in BOOLEAN
      BY <1>1 DEF RehashPartial, FetchTypeOK
    <2> QED
      BY <1>1, <2>4, <2>5, <2>6 DEF RehashPartial, FetchTypeOK
  <1>2. ASSUME NEW f \in Fetchers, SendRequest(f) PROVE FetchTypeOK'
    <2>1. CASE Ended(f, "failed")
      BY <1>2, <1>e, <2>1, ZenonT(30) DEF SendRequest, FetchTypeOK
    <2>2. CASE ~Ended(f, "failed")
      <3> DEFINE restart == fetch[f].resume > 0 /\ Answer(fetch[f].resume) # 206
                 off == IF restart THEN 0 ELSE fetch[f].resume
                 seen == IF restart THEN <<>> ELSE fetch[f].hashed
                 adds == ~restart /\ fetch[f].resume > 0
                 next == [fetch[f] EXCEPT !.pc = "open", !.version = remote,
                                          !.hashed = seen, !.offset = off, !.append = adds]
      <3>1. fetch' = [fetch EXCEPT ![f] = next]
        <4>1. fetch' = [fetch EXCEPT ![f].pc = "open", ![f].version = remote, ![f].hashed = seen,
                                     ![f].offset = off, ![f].append = adds]
          BY <1>2, <2>2, ZenonT(30) DEF SendRequest
        <4> HIDE DEF off, seen, adds
        <4> QED
          BY <4>1, ZenonT(30) DEF FetchTypeOK, Fetch
      <3>2. off \in 0..Chunks
        <4>1. fetch[f].resume \in Nat /\ Answer(fetch[f].resume) # 416
          BY <1>2, <2>2 DEF FetchTypeOK, Fetch, SendRequest
        <4> QED
          BY <4>1 DEF Answer, FetchAssumption
      <3>3. seen \in Seq(Block) /\ adds \in BOOLEAN
        BY DEF FetchTypeOK, Fetch
      <3>4. next \in Fetch /\ next.pc = "open"
        <4> HIDE DEF off, seen, adds
        <4> QED
          BY <3>2, <3>3, ZenonT(30) DEF FetchTypeOK, Fetch
      <3>6. fetch' \in [Fetchers -> Fetch] /\ fetch'[f].pc = "open"
        <4> HIDE DEF next
        <4> QED
          BY <3>1, <3>4 DEF FetchTypeOK
      <3>5. \A g \in Fetchers : g # f => fetch'[g] = fetch[g]
        BY <3>1 DEF FetchTypeOK
      <3> QED
        BY <1>2, <3>5, <3>6, ZenonT(30) DEF SendRequest, FetchTypeOK
    <2> QED
      BY <2>1, <2>2
  <1>3. ASSUME NEW f \in Fetchers, OpenPartial(f) PROVE FetchTypeOK'
    <2> DEFINE inode == IF part = 0 THEN Len(inodes) + 1 ELSE part
               bytes == IF fetch[f].append /\ part # 0 THEN inodes[part] ELSE <<>>
               after(q) == [q EXCEPT !.pc = "stream", !.inode = inode]
    <2>1. bytes \in Seq(Block) /\ inode \in Nat
      BY DEF FetchTypeOK
    <2>2. inodes' \in Seq(Seq(Block)) /\ Len(inodes) <= Len(inodes') /\ inode \in 1..Len(inodes')
      <3>1. CASE part = 0
        BY <1>3, <3>1 DEF OpenPartial, FetchTypeOK
      <3>2. CASE part # 0
        <4>1. part \in 1..Len(inodes)
          BY <3>2 DEF FetchTypeOK
        <4>2. inodes' = [inodes EXCEPT ![part] = bytes]
          BY <1>3, <3>2 DEF OpenPartial
        <4> QED
          BY <2>1, <3>2, <4>1, <4>2, FileReplaced DEF FetchTypeOK
      <3> QED
        BY <3>1, <3>2
    <2>3. fetch' = [fetch EXCEPT ![f] = after(@)]
      BY <1>3, ZenonT(30) DEF OpenPartial, FetchTypeOK, Fetch
    <2>4. \A q \in Fetch : after(q) \in Fetch /\ after(q).inode = inode
      BY <2>1, ZenonT(30) DEF Fetch
    <2>5. /\ fetch' \in [Fetchers -> Fetch] /\ fetch'[f].inode = inode
          /\ \A g \in Fetchers : g # f => fetch'[g] = fetch[g]
      BY <2>3, <2>4, ZenonT(30) DEF FetchTypeOK
    <2>6. part' \in 0..Len(inodes') /\ dest' \in 0..Len(inodes')
      BY <1>3, <2>2 DEF OpenPartial, FetchTypeOK
    <2>7. \A g \in Fetchers : fetch'[g].pc = "stream" => fetch'[g].inode \in 1..Len(inodes')
      <3>1. \A g \in Fetchers : fetch[g].pc = "stream" => fetch[g].inode \in 1..Len(inodes')
        BY <2>2 DEF FetchTypeOK, Fetch
      <3> HIDE DEF inode, after
      <3> QED
        BY <2>2, <2>5, <3>1
    <2> QED
      BY <1>3, <2>2, <2>5, <2>6, <2>7 DEF OpenPartial, FetchTypeOK
  <1>4. ASSUME NEW f \in Fetchers, WriteChunk(f) PROVE FetchTypeOK'
    <2> DEFINE c == Chunk(fetch[f].version, fetch[f].offset + 1)
               bytes == inodes[fetch[f].inode]
               where == IF fetch[f].append THEN Len(bytes) ELSE fetch[f].offset
               next == [fetch[f] EXCEPT !.offset = fetch[f].offset + 1,
                                        !.hashed = Append(fetch[f].hashed, c)]
    <2>1. fetch[f].inode \in 1..Len(inodes) /\ fetch[f].offset \in 0..(Chunks - 1)
      BY <1>4, SMTT(30) DEF WriteChunk, FetchTypeOK, Fetch, FetchAssumption
    <2>2. c \in Block
      BY DEF Chunk, Block, FetchTypeOK, Fetch, FetchAssumption
    <2>3. bytes \in Seq(Block) /\ where \in Nat
      BY <2>1 DEF FetchTypeOK, FetchAssumption
    <2>4. WrittenAt(bytes, where, c) \in Seq(Block)
      BY <2>2, <2>3, WrittenIsSequence, ZenonT(30)
    <2>5. inodes' = [inodes EXCEPT ![fetch[f].inode] = WrittenAt(bytes, where, c)]
      BY <1>4 DEF WriteChunk
    <2>6. inodes' \in Seq(Seq(Block)) /\ Len(inodes') = Len(inodes)
      BY <2>1, <2>4, <2>5, FileReplaced
    <2>7. fetch' = [fetch EXCEPT ![f] = next]
      BY <1>4, ZenonT(30) DEF WriteChunk, FetchTypeOK, Fetch
    <2>8. next \in Fetch /\ next.pc = fetch[f].pc /\ next.inode = fetch[f].inode
      <3>1. Append(fetch[f].hashed, c) \in Seq(Block) /\ fetch[f].offset + 1 \in 0..Chunks
        BY <2>1, <2>2, SMTT(30) DEF FetchTypeOK, Fetch, FetchAssumption
      <3> QED
        BY <3>1, ZenonT(30) DEF FetchTypeOK, Fetch
    <2>9. /\ fetch' \in [Fetchers -> Fetch]
          /\ \A g \in Fetchers : fetch'[g].pc = fetch[g].pc /\ fetch'[g].inode = fetch[g].inode
      <3> HIDE DEF next
      <3> QED
        BY <2>7, <2>8 DEF FetchTypeOK
    <2> QED
      BY <1>4, <2>6, <2>9 DEF WriteChunk, FetchTypeOK
  <1>5. ASSUME NEW f \in Fetchers, Finalise(f) PROVE FetchTypeOK'
    <2>1. PICK how \in {"failed", "corrupt", "done"} : Ended(f, how)
      BY <1>5 DEF Finalise
    <2>2. checked' \in Seq(Block) /\ part' \in 0..Len(inodes) /\ dest' \in 0..Len(inodes)
      BY <1>5, SMTT(30) DEF Finalise, FetchTypeOK, Fetch
    <2> QED
      BY <1>5, <1>e, <2>1, <2>2, ZenonT(30) DEF Finalise, FetchTypeOK
  <1>6. ASSUME NEW f \in Fetchers, Break(f) PROVE FetchTypeOK'
    BY <1>6, <1>e, SMTT(30) DEF Break, FetchTypeOK
  <1>7. CASE Republish
    BY <1>7 DEF Republish, FetchTypeOK
  <1>8. CASE UNCHANGED fetchVars
    BY <1>8 DEF fetchVars, FetchTypeOK
  <1> QED
    BY <1>1, <1>2, <1>3, <1>4, <1>5, <1>6, <1>7, <1>8 DEF FetchNext, FetchStep

LEMMA SerialInitially ==
    FetchInit => Serial
  <1> SUFFICES ASSUME FetchInit PROVE Serial
    OBVIOUS
  <1>1. \A f \in Fetchers : fetch[f].pc = "idle"
    BY DEF FetchInit, NoFetch
  <1>2. part = 0 /\ dest = 0
    BY DEF FetchInit
  <1> QED
    BY <1>1, <1>2 DEF Serial, Alone, Under, HashFollowsFile, PlacedIsVerified

\* An attempt that ends leaves what its file and the others rest on.
LEMMA EndKeepsSerial ==
    ASSUME FetchTypeOK, Serial, ~together, NEW f \in Fetchers,
           NEW how \in {"failed", "corrupt", "broken", "done"}, Ended(f, how)
    PROVE  Alone' /\ \A g \in Fetchers : Under(g)' => fetch'[g] = fetch[g] /\ Under(g) /\ g # f
  <1>1. fetch'[f].pc = "idle"
    BY DEF Ended, NoFetch, FetchTypeOK
  <1>2. \A g \in Fetchers : g # f => fetch'[g] = fetch[g]
    BY DEF Ended, FetchTypeOK
  <1> QED
    BY <1>1, <1>2 DEF Alone, Under, Serial

\* What a chunk adds to the hasher, and what it leaves.
LEMMA ChunkHashed ==
    ASSUME FetchAssumption, FetchTypeOK, NEW f \in Fetchers, WriteChunk(f)
    PROVE  LET c == Chunk(fetch[f].version, fetch[f].offset + 1)
           IN /\ c \in Block
              /\ fetch'[f].pc = fetch[f].pc /\ fetch'[f].inode = fetch[f].inode
              /\ fetch'[f].hashed = Append(fetch[f].hashed, c)
              /\ fetch'[f].offset = fetch[f].offset + 1
              /\ \A g \in Fetchers : g # f => fetch'[g] = fetch[g]
  <1> DEFINE c == Chunk(fetch[f].version, fetch[f].offset + 1)
  <1>1. c \in Block
    BY DEF FetchTypeOK, Fetch, Chunk, Block, FetchAssumption
  <1>2. fetch' = [fetch EXCEPT ![f].offset = @ + 1, ![f].hashed = Append(@, c)]
    BY DEF WriteChunk
  <1>3. /\ fetch'[f].pc = fetch[f].pc /\ fetch'[f].inode = fetch[f].inode
        /\ fetch'[f].hashed = Append(fetch[f].hashed, c)
        /\ fetch'[f].offset = fetch[f].offset + 1
        /\ \A g \in Fetchers : g # f => fetch'[g] = fetch[g]
    <2> HIDE DEF c
    <2> QED
      BY <1>2 DEF FetchTypeOK, Fetch
  <1> QED
    BY <1>1, <1>3

LEMMA SerialKept ==
    FetchAssumption /\ FetchTypeOK /\ Serial /\ [FetchNext]_fetchVars => Serial'
  <1> SUFFICES ASSUME FetchAssumption, FetchTypeOK, Serial,
                      [FetchNext]_fetchVars, ~together'
               PROVE  Serial'
    BY DEF Serial
  <1>0. ~together
    BY ZenonT(30)
       DEF FetchNext, FetchStep, RehashPartial, SendRequest, OpenPartial,
           WriteChunk, Finalise, Break, Republish, fetchVars
  <1>a. /\ Alone /\ PlacedIsVerified /\ (part # 0 => part # dest)
        /\ \A g \in Fetchers : HashFollowsFile(g)
    BY <1>0 DEF Serial
  <1>1. ASSUME NEW f \in Fetchers, RehashPartial(f) PROVE Serial'
    <2>1. \A g \in Fetchers : g # f => fetch'[g] = fetch[g] /\ ~Under(g)
      BY <1>1, ZenonT(30) DEF RehashPartial, FetchTypeOK
    <2>2. /\ fetch'[f].pc = "ask" /\ fetch'[f].hashed = OnDisk
          /\ fetch'[f].resume = Len(OnDisk)
      BY <1>1 DEF RehashPartial, OnDisk, FetchTypeOK, Fetch
    <2>3. UNCHANGED <<inodes, part, dest, checked>>
      BY <1>1 DEF RehashPartial
    <2>4. OnDisk' = OnDisk
      BY <2>3 DEF OnDisk
    <2>5. Alone'
      BY <2>1 DEF Alone, Under
    <2>6. \A g \in Fetchers : HashFollowsFile(g)'
      BY <2>1, <2>2, <2>4 DEF HashFollowsFile, Under
    <2>7. PlacedIsVerified'
      BY <1>0, <1>a, <2>3 DEF PlacedIsVerified
    <2> QED
      BY <1>a, <2>3, <2>5, <2>6, <2>7 DEF Serial
  <1>2. ASSUME NEW f \in Fetchers, SendRequest(f) PROVE Serial'
    <2>3. UNCHANGED <<inodes, part, dest, checked>>
      BY <1>2 DEF SendRequest
    <2>4. OnDisk' = OnDisk
      BY <2>3 DEF OnDisk
    <2>7. PlacedIsVerified'
      BY <1>0, <1>a, <2>3 DEF PlacedIsVerified
    <2>8. CASE Ended(f, "failed")
      <3>1. Alone' /\ \A g \in Fetchers : Under(g)' => fetch'[g] = fetch[g]
        BY <1>0, <2>8, EndKeepsSerial
      <3>2. \A g \in Fetchers : HashFollowsFile(g)'
        BY <1>a, <2>3, <2>4, <3>1 DEF HashFollowsFile, Under
      <3> QED
        BY <1>a, <2>3, <2>7, <3>1, <3>2 DEF Serial
    <2>9. CASE ~Ended(f, "failed")
      <3> DEFINE restart == fetch[f].resume > 0 /\ Answer(fetch[f].resume) # 206
                 off == IF restart THEN 0 ELSE fetch[f].resume
                 seen == IF restart THEN <<>> ELSE fetch[f].hashed
                 adds == ~restart /\ fetch[f].resume > 0
      <3>1. fetch' = [fetch EXCEPT ![f].pc = "open", ![f].version = remote, ![f].hashed = seen,
                                   ![f].offset = off, ![f].append = adds]
        BY <1>2, <2>9, ZenonT(30) DEF SendRequest
      <3>2. /\ fetch'[f].pc = "open" /\ fetch'[f].hashed = seen /\ fetch'[f].offset = off
            /\ fetch'[f].append = adds
            /\ \A g \in Fetchers : g # f => fetch'[g] = fetch[g]
        <4> HIDE DEF off, seen, adds
        <4> QED
          BY <3>1 DEF FetchTypeOK, Fetch
      <3>3. /\ fetch[f].pc = "ask" /\ fetch[f].hashed = OnDisk
            /\ fetch[f].resume = Len(OnDisk)
        BY <1>2, <1>a DEF SendRequest, HashFollowsFile
      <3>4. OnDisk \in Seq(Block)
        BY DEF OnDisk, FetchTypeOK
      <3>5. /\ adds => part # 0 /\ seen = OnDisk
            /\ ~adds => seen = <<>>
            /\ off = Len(seen)
        BY <3>3, <3>4 DEF OnDisk
      <3>6. HashFollowsFile(f)'
        <4> HIDE DEF off, seen, adds
        <4> QED
          BY <2>3, <2>4, <3>2, <3>5 DEF HashFollowsFile
      <3>7. \A g \in Fetchers : Under(g)' <=> Under(g)
        BY <3>2, <3>3 DEF Under
      <3>8. Alone'
        BY <1>a, <3>7 DEF Alone
      <3>9. \A g \in Fetchers : HashFollowsFile(g)'
        BY <1>a, <2>3, <2>4, <3>2, <3>6 DEF HashFollowsFile
      <3> QED
        BY <1>a, <2>3, <2>7, <3>8, <3>9 DEF Serial
    <2> QED
      BY <2>8, <2>9
  <1>3. ASSUME NEW f \in Fetchers, OpenPartial(f) PROVE Serial'
    <2> DEFINE inode == IF part = 0 THEN Len(inodes) + 1 ELSE part
               bytes == IF fetch[f].append /\ part # 0 THEN inodes[part] ELSE <<>>
    <2>1. /\ fetch[f].pc = "open" /\ fetch[f].offset = Len(fetch[f].hashed)
          /\ fetch[f].append => part # 0
          /\ fetch[f].hashed = bytes
      BY <1>3, <1>a DEF OpenPartial, HashFollowsFile, OnDisk
    <2>2. /\ fetch'[f].pc = "stream" /\ fetch'[f].inode = inode
          /\ fetch'[f].hashed = fetch[f].hashed /\ fetch'[f].offset = fetch[f].offset
          /\ \A g \in Fetchers : g # f => fetch'[g] = fetch[g]
      BY <1>3 DEF OpenPartial, FetchTypeOK, Fetch
    <2>3. /\ part' = inode /\ inode # 0 /\ inode # dest /\ inodes'[inode] = bytes
          /\ dest # 0 => inodes'[dest] = inodes[dest]
      <3>1. CASE part = 0
        BY <1>3, <3>1 DEF OpenPartial, FetchTypeOK
      <3>2. CASE part # 0
        <4>1. part \in 1..Len(inodes) /\ bytes \in Seq(Block)
          BY <3>2 DEF FetchTypeOK
        <4>2. inodes' = [inodes EXCEPT ![part] = bytes]
          BY <1>3, <3>2 DEF OpenPartial
        <4>3. inodes'[part] = bytes /\ \A j \in 1..Len(inodes) : j # part => inodes'[j] = inodes[j]
          BY <4>1, <4>2, FileReplaced
        <4>4. part' = part
          BY <1>3, <3>2 DEF OpenPartial
        <4> QED
          BY <1>a, <3>2, <4>3, <4>4 DEF FetchTypeOK
      <3> QED
        BY <3>1, <3>2
    <2>4. UNCHANGED <<dest, checked>>
      BY <1>3 DEF OpenPartial
    <2>5. \A g \in Fetchers : g # f => ~Under(g)' /\ (Under(g)' <=> Under(g))
      BY <1>a, <2>1, <2>2, ZenonT(30) DEF Alone, Under
    <2>6. Alone'
      BY <2>5 DEF Alone
    <2>7. HashFollowsFile(f)'
      <3> HIDE DEF inode, bytes
      <3> QED
        BY <2>1, <2>2, <2>3, ZenonT(30) DEF HashFollowsFile
    <2>8. \A g \in Fetchers : HashFollowsFile(g)'
      BY <2>5, <2>7, ZenonT(30) DEF HashFollowsFile, Under
    <2>9. PlacedIsVerified'
      BY <1>0, <1>a, <2>3, <2>4 DEF PlacedIsVerified
    <2> QED
      BY <2>3, <2>4, <2>6, <2>8, <2>9 DEF Serial
  <1>4. ASSUME NEW f \in Fetchers, WriteChunk(f) PROVE Serial'
    <2> DEFINE c == Chunk(fetch[f].version, fetch[f].offset + 1)
               bytes == inodes[fetch[f].inode]
               where == IF fetch[f].append THEN Len(bytes) ELSE fetch[f].offset
    <2>1. /\ fetch[f].pc = "stream" /\ part # 0 /\ fetch[f].inode = part
          /\ fetch[f].hashed = bytes /\ fetch[f].offset = Len(bytes)
      BY <1>4, <1>a DEF WriteChunk, HashFollowsFile
    <2>2. part \in 1..Len(inodes) /\ bytes \in Seq(Block) /\ c \in Block
      <3>1. part \in 1..Len(inodes) /\ bytes \in Seq(Block)
        BY <2>1 DEF FetchTypeOK
      <3>2. c \in Block
        BY <1>4, ChunkHashed
      <3> QED
        BY <3>1, <3>2
    <2>3. where = Len(bytes) /\ where \in Nat
      BY <2>1, <2>2
    <2>4. WrittenAt(bytes, where, c) = Append(bytes, c)
      <3> HIDE DEF bytes, c, where
      <3> QED
        BY <2>2, <2>3, WrittenIsSequence, ZenonT(30)
    <2>5. inodes' = [inodes EXCEPT ![part] = Append(bytes, c)]
      BY <1>4, <2>1, <2>4, ZenonT(30) DEF WriteChunk
    <2>6. /\ inodes'[part] = Append(bytes, c)
          /\ \A j \in 1..Len(inodes) : j # part => inodes'[j] = inodes[j]
      BY <2>2, <2>5, FileReplaced
    <2>7. /\ fetch'[f].pc = "stream" /\ fetch'[f].inode = part
          /\ fetch'[f].hashed = Append(bytes, c) /\ fetch'[f].offset = Len(bytes) + 1
          /\ \A g \in Fetchers : g # f => fetch'[g] = fetch[g]
      BY <1>4, <2>1, ChunkHashed, ZenonT(30)
    <2>8. UNCHANGED <<part, dest, checked>>
      BY <1>4 DEF WriteChunk
    <2>9. \A g \in Fetchers : g # f => ~Under(g)' /\ (Under(g)' <=> Under(g))
      BY <1>a, <2>1, <2>7 DEF Alone, Under
    <2>10. Alone'
      BY <2>9 DEF Alone
    <2>11. HashFollowsFile(f)'
      BY <2>1, <2>2, <2>6, <2>7, <2>8 DEF HashFollowsFile
    <2>12. \A g \in Fetchers : HashFollowsFile(g)'
      BY <2>9, <2>11 DEF HashFollowsFile, Under
    <2>13. dest # 0 => inodes'[dest] = inodes[dest]
      <3>1. dest \in 0..Len(inodes)
        BY DEF FetchTypeOK
      <3>2. dest # 0 => dest \in 1..Len(inodes) /\ dest # part
        BY <1>a, <2>1, <3>1
      <3> QED
        BY <2>6, <3>2, ZenonT(30)
    <2>14. PlacedIsVerified'
      BY <1>0, <1>a, <2>8, <2>13 DEF PlacedIsVerified
    <2> QED
      BY <1>a, <2>8, <2>10, <2>12, <2>14 DEF Serial
  <1>5. ASSUME NEW f \in Fetchers, Finalise(f) PROVE Serial'
    <2>1. PICK how \in {"failed", "corrupt", "done"} : Ended(f, how)
      BY <1>5, ZenonT(30) DEF Finalise
    <2>2. Alone' /\ \A g \in Fetchers : Under(g)' => fetch'[g] = fetch[g] /\ Under(g) /\ g # f
      BY <1>0, <2>1, EndKeepsSerial
    <2>3. /\ fetch[f].pc = "stream" /\ part # 0 /\ fetch[f].hashed = inodes[part]
          /\ fetch[f].offset = Len(fetch[f].hashed) /\ fetch[f].offset = Chunks
      BY <1>5, <1>a DEF Finalise, HashFollowsFile
    <2>4. \A g \in Fetchers : ~Under(g)'
      BY <1>a, <2>2, <2>3 DEF Alone, Under
    <2>5. \A g \in Fetchers : HashFollowsFile(g)'
      BY <2>4 DEF HashFollowsFile, Under
    <2>6. PlacedIsVerified' /\ part' = 0
      <3>1. CASE Expected # 0 /\ fetch[f].hashed # Whole(Expected)
        BY <1>0, <1>5, <1>a, <3>1 DEF Finalise, PlacedIsVerified
      <3>2. CASE ~(Expected # 0 /\ fetch[f].hashed # Whole(Expected))
        BY <1>5, <2>3, <3>2, ZenonT(30) DEF Finalise, PlacedIsVerified
      <3> QED
        BY <3>1, <3>2
    <2> QED
      BY <2>2, <2>5, <2>6 DEF Serial
  <1>6. ASSUME NEW f \in Fetchers, Break(f) PROVE Serial'
    <2>1. Alone' /\ \A g \in Fetchers : Under(g)' => fetch'[g] = fetch[g]
      BY <1>0, <1>6, EndKeepsSerial DEF Break
    <2>2. UNCHANGED <<inodes, part, dest, checked>>
      BY <1>6 DEF Break
    <2>3. \A g \in Fetchers : HashFollowsFile(g)'
      BY <1>a, <2>1, <2>2 DEF HashFollowsFile, Under, OnDisk
    <2> QED
      BY <1>0, <1>a, <2>1, <2>2, <2>3 DEF Serial, PlacedIsVerified
  <1>7. CASE Republish
    BY <1>7
       DEF Republish, Serial, Alone, Under, HashFollowsFile, OnDisk,
           PlacedIsVerified
  <1>8. CASE UNCHANGED fetchVars
    BY <1>8
       DEF fetchVars, Serial, Alone, Under, HashFollowsFile, OnDisk,
           PlacedIsVerified
  <1> QED
    BY <1>1, <1>2, <1>3, <1>4, <1>5, <1>6, <1>7, <1>8 DEF FetchNext, FetchStep

\* The inductive invariant of fetch.
THEOREM FetchInvariant ==
    FetchAssumption /\ FetchSpec => []FetchInv
  <1> SUFFICES ASSUME FetchAssumption PROVE FetchSpec => []FetchInv
    OBVIOUS
  <1>1. FetchInit => FetchInv
    BY TypesInitially, SerialInitially DEF FetchInv
  <1>2. FetchInv /\ [FetchNext]_fetchVars => FetchInv'
    BY TypesKept, SerialKept DEF FetchInv
  <1> QED
    BY <1>1, <1>2, PTL DEF FetchSpec

\* While attempts do not overlap, the destination holds exactly the bytes the
\* digest was computed over (fetch: rehash_partial, the status of the answer,
\* the options the .part is opened with, and the rename).
THEOREM PlacedIsVerifiedHolds ==
    FetchAssumption /\ FetchSpec => []PlacedIsVerified
  <1> SUFFICES ASSUME FetchAssumption PROVE FetchSpec => []PlacedIsVerified
    OBVIOUS
  <1>1. FetchSpec => []FetchInv
    BY FetchInvariant
  <1>2. FetchInv => PlacedIsVerified
    BY DEF FetchInv, Serial, PlacedIsVerified
  <1> QED
    BY <1>1, <1>2, PTL
=============================================================================

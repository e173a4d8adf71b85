----------------------------- MODULE MCGateway ------------------------------
(***************************************************************************)
(* What runs in the background, on small instances.  A behaviour is about  *)
(* one part: a job that reports progress, several jobs that only start and *)
(* end, one start of the engine, or the desktop shell with the gateway and *)
(* the Router it starts.  The parts share no state.                        *)
(***************************************************************************)
EXTENDS Naturals, Sequences

CONSTANTS MaxJobs, Watchers, Stages, Transfers, Percents, KeepFinished,
          UpdateBacklog, PumpBacklog, MaxReports

CONSTANTS MaxAttempts, TailLines, MaxLines

CONSTANTS MaxProcesses, MaxTerminals, RouterPorts, MaxGatewayCalls, MaxRouterCalls

VARIABLES started, table, state, updates, unsent, worker, reports, channel,
          throttle, shutdown, watch

VARIABLES stage, attempt, child, port, written, pipe, tail, report,
          cancelled, late

VARIABLES procs, sup, calls, made, app, routerPort, asks, overlapped, lateExit

VARIABLE part   \* what this behaviour is about

jobVars == <<started, table, state, updates, unsent, worker, reports, channel,
             throttle, shutdown, watch>>
engineVars == <<stage, attempt, child, port, written, pipe, tail, report,
                cancelled, late>>
shellVars == <<procs, sup, calls, made, app, routerPort, asks, overlapped,
               lateExit>>
vars == <<jobVars, engineVars, shellVars, part>>

J == INSTANCE Jobs
E == INSTANCE EngineSupervisor
D == INSTANCE Desktop WITH
        MaxCalls <- [gateway |-> MaxGatewayCalls, router |-> MaxRouterCalls],
        late <- lateExit

ASSUME E!BoundsAssumption

NoShell ==
    /\ procs = <<>> /\ sup = <<>> /\ calls = <<>> /\ made = 0 /\ app = "none"
    /\ routerPort = "none" /\ asks = "none" /\ overlapped = FALSE
    /\ lateExit = FALSE

MCInit ==
    /\ J!Init
    /\ E!Init
    /\ \/ part \in {"progress", "table", "engine"} /\ NoShell
       \/ part = "desktop" /\ D!DesktopInit

MCNext ==
    \/ part = "progress" /\ J!Next
       /\ started' <= 1 /\ UNCHANGED <<engineVars, shellVars, part>>
    \/ part = "table" /\ J!Next
       /\ reports' = reports /\ UNCHANGED <<engineVars, shellVars, part>>
    \/ part = "engine" /\ E!Next /\ UNCHANGED <<jobVars, shellVars, part>>
    \/ part = "desktop" /\ D!DesktopNext /\ UNCHANGED <<jobVars, engineVars, part>>

\* The fairness of the part a behaviour is about.
MCFairness ==
    /\ \A j \in J!Ids :
          /\ WF_jobVars(part \in {"progress", "table"} /\ J!JobStep(j))
          /\ WF_jobVars(part \in {"progress", "table"}
                          /\ \E outcome \in J!Outcomes : J!Return(j, outcome))
    /\ \A w \in Watchers :
          WF_jobVars(part \in {"progress", "table"} /\ J!WatchStep(w))
    /\ WF_engineVars(part = "engine" /\ E!SupervisorStep)
    /\ WF_engineVars(part = "engine" /\ E!LogPump)
    /\ WF_engineVars(part = "engine" /\ E!DeadlinePasses)
    /\ WF_shellVars(part = "desktop" /\ D!Quits)
    /\ WF_shellVars(part = "desktop" /\ \E c \in DOMAIN calls : D!CallStops(c))

MCSpec == MCInit /\ [][MCNext]_vars /\ MCFairness

-----------------------------------------------------------------------------
\* A client of a job learns how it came out and is never shown an earlier
\* step: a stream that ended told its client the outcome, and no outcome is
\* replaced by another.
JobsAreReported == [][J!WatcherLearnsOutcome' /\ J!NothingGoesBack]_jobVars

\* No child outlives a failed start, a release or the gateway, and none that a
\* desktop shell started is forgotten while its calls do not overlap.
NoOrphan ==
    /\ E!NoOrphan
    /\ part = "desktop" => D!OwnedIsStopped

\* What start says of an engine that failed, and tries again, is true.
FailureIsExplained == E!FailureIsExplained

\* What somebody waits for in this behaviour, and what ends the wait: a stream
\* of job events, a start of the engine, a shell that quits.
Waiting(w) ==
    CASE part = "engine"  -> TRUE
      [] part = "desktop" -> app = "quit"
      [] OTHER            -> watch[w].phase \in {"initial", "live", "closing"}

WaitIsOver(w) ==
    CASE part = "engine"  -> stage \in {"ready", "failed", "dead"}
      [] part = "desktop" -> app = "gone"
      [] OTHER            -> watch[w].phase \in {"idle", "done"}

\* Every wait for the background work ends: an event stream ends or its client
\* leaves (Jobs!EveryWatchEnds), a start of the engine comes to an engine or an
\* error (EngineSupervisor!StartEnds), and a shell that quits is gone
\* (Desktop!QuitEnds).  A behaviour stays with its part, so that the three are
\* one formula.
EveryWaitEnds == \A w \in Watchers : Waiting(w) ~> WaitIsOver(w)

\* Refuted: "Quit leaves no child running." (docs/DESKTOP_ROUTER.md).
QuitLeavesNoChild == part = "desktop" => D!QuitLeavesNoChild
=============================================================================

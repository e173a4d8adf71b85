-------------------------------- MODULE Jobs --------------------------------
(***************************************************************************)
(* Long operations and the clients that watch them                         *)
(* (crates/lightweight-gateway/src/jobs.rs, the progress pumps and the     *)
(* throttle of manager.rs, the job endpoints of control.rs).               *)
(*                                                                         *)
(* A job's worker reports steps into a bounded channel; a pump task reads  *)
(* them, drops those that tell nothing new, and publishes the others: it   *)
(* stores the job's state under a lock and then, outside it, broadcasts    *)
(* it.  A watcher takes the state and a subscription together and turns    *)
(* them into a stream of events that ends when the job does.               *)
(*                                                                         *)
(* A step is a stage, alone or with a whole percent, numbered per job.     *)
(***************************************************************************)
EXTENDS Naturals, Sequences, FiniteSets, SequencesExt

CONSTANTS MaxJobs,        \* bound on the jobs started
          Watchers,       \* event streams
          Stages,         \* stages reported by name alone
          Transfers,      \* stages reported with a fraction
          Percents,       \* whole percents a fraction may show
          KeepFinished,   \* KEEP_FINISHED
          UpdateBacklog,  \* UPDATE_BACKLOG of the broadcast channel
          PumpBacklog,    \* capacity of the progress channel
          MaxReports      \* bound on the steps a worker reports

VARIABLES started,     \* ids handed out so far
          table,       \* Jobs.inner: the ids that are still listed
          state,       \* Job.state
          updates,     \* every state broadcast so far
          unsent,      \* stored by Job::set and not broadcast yet
          worker,      \* the operation itself
          reports,     \* steps the worker has reported
          channel,     \* the progress channel
          throttle,    \* Throttle: last_stage and last_percent
          shutdown,    \* the gateway's token, parent of every job's
          watch        \* the event streams

jobVars == <<started, table, state, updates, unsent>>
workVars == <<worker, reports, channel, throttle>>
vars == <<jobVars, workVars, shutdown, watch>>

Ids == 1..MaxJobs
None == 1000     \* Option::None for a percent
Percent == Percents \cup {None}

Step == [stage : Stages \cup Transfers, percent : Percent, n : 1..MaxReports]
NoStep == [stage |-> "queued", percent |-> None, n |-> 0]

Running(step) == [kind |-> "running", step |-> step]
Terminal(kind) == [kind |-> kind, step |-> NoStep]
Outcomes == {"succeeded", "failed", "cancelled"}

IsTerminal(s) == s.kind # "running"

Finished == {j \in table : IsTerminal(state[j])}

-----------------------------------------------------------------------------
(* The table. *)

\* prune: the oldest finished jobs go, down to KeepFinished; never a running
\* one.  `t` holds the new job, which is running.
Pruned(t) ==
    LET done == {j \in t : IsTerminal(state[j])}
    IN  t \ {j \in done :
                Cardinality({k \in done : k < j}) + KeepFinished
                    < Cardinality(done)}

\* Jobs::start.
StartJob ==
    /\ started < MaxJobs
    /\ started' = started + 1
    /\ table' = Pruned(table \cup {started + 1})
    /\ worker' = [worker EXCEPT ![started + 1] = "working"]
    /\ UNCHANGED <<state, updates, unsent, reports, channel, throttle,
                   shutdown, watch>>

\* Job::set, first half: the state is stored under the job's lock ...
Store(j, s) ==
    /\ state' = [state EXCEPT ![j] = s]
    /\ unsent' = [unsent EXCEPT ![j] = <<s>>]

\* ... and second half: broadcast outside it.
Send(j) ==
    /\ unsent[j] # <<>>
    /\ updates' = [updates EXCEPT ![j] = @ \o unsent[j]]
    /\ unsent' = [unsent EXCEPT ![j] = <<>>]
    /\ UNCHANGED <<started, table, state, workVars, shutdown, watch>>

-----------------------------------------------------------------------------
(* The worker and its pump. *)

\* try_send: a full channel drops the step, and the work is never held up.
Report(j, stage, percent) ==
    /\ worker[j] = "working"
    /\ stage \in Stages => percent = None
    /\ reports[j] < MaxReports
    /\ reports' = [reports EXCEPT ![j] = @ + 1]
    /\ channel' =
          IF Len(channel[j]) < PumpBacklog
          THEN [channel EXCEPT ![j] =
                   Append(@, [stage |-> stage, percent |-> percent,
                              n |-> reports[j] + 1])]
          ELSE channel
    /\ UNCHANGED <<jobVars, worker, throttle, shutdown, watch>>

\* Throttle::should_emit: a stage when it changes, a fraction when its stage or
\* whole percent does, and always when the size is unknown.
ShouldEmit(last, step) ==
    IF step.stage \in Transfers
    THEN \/ last.stage # step.stage
         \/ last.percent # step.percent
         \/ step.percent = None
    ELSE last.stage # step.stage

Pump(j) ==
    /\ channel[j] # <<>>
    /\ unsent[j] = <<>>
    /\ LET step == Head(channel[j])
       IN  /\ channel' = [channel EXCEPT ![j] = Tail(@)]
           /\ throttle' = [throttle EXCEPT ![j] =
                              [stage |-> step.stage, percent |-> step.percent]]
           /\ IF ShouldEmit(throttle[j], step)
              THEN Store(j, Running(step))
              ELSE UNCHANGED <<state, unsent>>
    /\ UNCHANGED <<started, table, updates, worker, reports, shutdown, watch>>

\* The operation returns; its end of the progress channel is dropped.  A
\* cancelled one was stopped by the gateway's shutdown.
Return(j, outcome) ==
    /\ worker[j] = "working"
    /\ outcome = "cancelled" => shutdown
    /\ worker' = [worker EXCEPT ![j] = outcome]
    /\ UNCHANGED <<jobVars, reports, channel, throttle, shutdown, watch>>

\* Mutant of Finish: the outcome is recorded without awaiting the pump.
FinishBeforePump(j) ==
    /\ worker[j] \in Outcomes
    /\ unsent[j] = <<>>
    /\ Store(j, Terminal(worker[j]))
    /\ worker' = [worker EXCEPT ![j] = "done"]
    /\ UNCHANGED <<started, table, updates, reports, channel, throttle,
                   shutdown, watch>>

\* The pump is awaited, then the outcome is set (finish, and the tasks
\* spawned by load and run_benchmark).
Finish(j) ==
    /\ worker[j] \in Outcomes
    /\ channel[j] = <<>>
    /\ unsent[j] = <<>>
    /\ Store(j, Terminal(worker[j]))
    /\ worker' = [worker EXCEPT ![j] = "done"]
    /\ UNCHANGED <<started, table, updates, reports, channel, throttle,
                   shutdown, watch>>

Shutdown ==
    /\ ~shutdown
    /\ shutdown' = TRUE
    /\ UNCHANGED <<jobVars, workVars, watch>>

-----------------------------------------------------------------------------
(* job_events. *)

NoWatch == [phase |-> "idle", job |-> 0, next |-> 0, frame |-> Running(NoStep),
            frames |-> 0]

NextPhase(s) == IF IsTerminal(s) THEN "closing" ELSE "live"

Show(w, s, phase, next) ==
    watch' = [watch EXCEPT ![w].phase = phase, ![w].frame = s,
                           ![w].next = next, ![w].frames = 1]

\* Job::watch: the state and the subscription, under one lock.
Watch(w, j) ==
    /\ watch[w].phase = "idle"
    /\ j \in table
    /\ watch' = [watch EXCEPT ![w] =
                    [phase |-> "initial", job |-> j,
                     next |-> Len(updates[j]) + 1, frame |-> state[j],
                     frames |-> 0]]
    /\ UNCHANGED <<jobVars, workVars, shutdown>>

\* Mutant of Initial: a job that was over already is followed all the same.
InitialAlwaysLive(w) ==
    /\ watch[w].phase = "initial"
    /\ Show(w, watch[w].frame, "live", watch[w].next)
    /\ UNCHANGED <<jobVars, workVars, shutdown>>

Initial(w) ==
    /\ watch[w].phase = "initial"
    /\ Show(w, watch[w].frame, NextPhase(watch[w].frame), watch[w].next)
    /\ UNCHANGED <<jobVars, workVars, shutdown>>

\* The broadcast channel retains the last UpdateBacklog states.
Oldest(j) == IF Len(updates[j]) > UpdateBacklog
             THEN Len(updates[j]) - UpdateBacklog + 1 ELSE 1

Receive(w) ==
    LET j == watch[w].job IN
    /\ watch[w].phase = "live"
    /\ watch[w].next \in Oldest(j)..Len(updates[j])
    /\ LET s == updates[j][watch[w].next]
       IN  Show(w, s, NextPhase(s), watch[w].next + 1)
    /\ UNCHANGED <<jobVars, workVars, shutdown>>

\* RecvError::Lagged: resume from the oldest state that is retained.
Lagged(w) ==
    /\ watch[w].phase = "live"
    /\ watch[w].next < Oldest(watch[w].job)
    /\ watch' = [watch EXCEPT ![w].next = Oldest(watch[w].job)]
    /\ UNCHANGED <<jobVars, workVars, shutdown>>

\* Closed: the job was pruned, its task is over, and nothing is left to read;
\* or the gateway is shutting down.
Closed(w) ==
    LET j == watch[w].job IN
    /\ watch[w].phase = "live"
    /\ \/ shutdown
       \/ /\ j \notin table
          /\ worker[j] = "done"
          /\ unsent[j] = <<>>
          /\ watch[w].next > Len(updates[j])
    /\ watch' = [watch EXCEPT ![w].phase = "closing"]
    /\ UNCHANGED <<jobVars, workVars, shutdown>>

Closing(w) ==
    /\ watch[w].phase = "closing"
    /\ watch' = [watch EXCEPT ![w].phase = "done"]
    /\ UNCHANGED <<jobVars, workVars, shutdown>>

\* The client goes away, or comes back for another job.
Disconnect(w) ==
    /\ watch[w].phase # "idle"
    /\ watch' = [watch EXCEPT ![w] = NoWatch]
    /\ UNCHANGED <<jobVars, workVars, shutdown>>

-----------------------------------------------------------------------------
Init ==
    /\ started = 0
    /\ table = {}
    /\ state = [j \in Ids |-> Running(NoStep)]
    /\ updates = [j \in Ids |-> <<>>]
    /\ unsent = [j \in Ids |-> <<>>]
    /\ worker = [j \in Ids |-> "none"]
    /\ reports = [j \in Ids |-> 0]
    /\ channel = [j \in Ids |-> <<>>]
    /\ throttle = [j \in Ids |-> [stage |-> "queued", percent |-> None]]
    /\ shutdown = FALSE
    /\ watch = [w \in Watchers |-> NoWatch]

WorkStep(j) ==
    \/ \E stage \in Stages \cup Transfers, percent \in Percent :
          Report(j, stage, percent)
    \/ \E outcome \in Outcomes : Return(j, outcome)

JobStep(j) == Send(j) \/ Pump(j) \/ Finish(j)

WatchStep(w) ==
    Initial(w) \/ Receive(w) \/ Lagged(w) \/ Closed(w) \/ Closing(w)

Next ==
    \/ StartJob
    \/ \E j \in Ids : WorkStep(j)
    \/ \E j \in Ids : JobStep(j)
    \/ Shutdown
    \/ \E w \in Watchers, j \in Ids : Watch(w, j)
    \/ \E w \in Watchers : WatchStep(w)
    \/ \E w \in Watchers : Disconnect(w)

Spec == Init /\ [][Next]_vars

\* The runtime keeps polling a pump, a job's task and a connected stream, and
\* an operation returns: its transfers and the engine's start have timeouts.
Fairness ==
    /\ \A j \in Ids :
          /\ WF_vars(JobStep(j))
          /\ WF_vars(\E outcome \in Outcomes : Return(j, outcome))
    /\ \A w \in Watchers : WF_vars(WatchStep(w))

-----------------------------------------------------------------------------
(* Properties. *)

\* Every job and every event stream is well formed.
TypeOK ==
    /\ started \in 0..MaxJobs
    /\ table \subseteq 1..started
    /\ \A j \in Ids :
          /\ state[j].kind \in Outcomes \cup {"running"}
          /\ state[j].step \in Step \cup {NoStep}
          /\ Len(unsent[j]) <= 1
          /\ Len(channel[j]) <= PumpBacklog
          /\ worker[j] \in Outcomes \cup {"none", "working", "done"}
          /\ throttle[j].percent \in Percent
    /\ \A w \in Watchers :
          /\ watch[w].phase \in {"idle", "initial", "live", "closing", "done"}
          /\ watch[w].job \in 0..MaxJobs
          /\ watch[w].next \in 0..(MaxReports + 2)

\* A stream that ended told its client the outcome, however far it had fallen
\* behind, unless the gateway was shutting down (UPDATE_BACKLOG: "a subscriber
\* that lags can never miss the outcome").
WatcherLearnsOutcome ==
    \A w \in Watchers :
        watch[w].phase = "done" /\ ~shutdown
            => /\ IsTerminal(watch[w].frame)
               /\ watch[w].frame = state[watch[w].job]

\* A job's outcome is final: no late progress update replaces it (the pump is
\* awaited before the outcome is set); and what a client is shown never goes
\* back to an earlier step of its job, though it joins at any moment and
\* states are stored and sent separately.
NothingGoesBack ==
    /\ \A j \in Ids : IsTerminal(state[j]) => state'[j] = state[j]
    /\ \A w \in Watchers :
          watch'[w].job = watch[w].job
              /\ watch[w].frames = 1 /\ watch'[w].frames = 1
          => \/ IsTerminal(watch'[w].frame)
             \/ /\ ~IsTerminal(watch[w].frame)
                /\ watch'[w].frame.step.n >= watch[w].frame.step.n

\* Every stream whose job is started ends, or its client leaves: a job cannot
\* finish in the gap between reading its state and subscribing to it.
EveryWatchEnds ==
    \A w \in Watchers :
        (watch[w].phase \in {"initial", "live", "closing"})
            ~> (watch[w].phase \in {"idle", "done"})

=============================================================================

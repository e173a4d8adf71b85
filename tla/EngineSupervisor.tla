-------------------------- MODULE EngineSupervisor --------------------------
(***************************************************************************)
(* Launching and stopping the engine process                               *)
(* (crates/lightweight-backend-llamacpp/src/supervisor.rs).                *)
(*                                                                         *)
(* One start: up to MaxAttempts launches, each of which reserves a port by *)
(* binding it and letting it go, spawns the child, and polls its health    *)
(* endpoint until it serves, dies, the deadline passes or the caller       *)
(* cancels.  The child is external: it writes lines, binds its port,       *)
(* serves, and may exit in any way at any moment; another program may take *)
(* the port in the gap.                                                    *)
(***************************************************************************)
EXTENDS Naturals, Sequences

CONSTANTS MaxAttempts,      \* MAX_START_ATTEMPTS
          TailLines,        \* STDERR_TAIL_LINES
          MaxLines          \* bound on the lines one child writes

\* What the proofs need of the bounds.
BoundsAssumption ==
    MaxAttempts \in Nat \ {0} /\ TailLines \in Nat \ {0} /\ MaxLines \in Nat

VARIABLES stage,      \* where start is
          attempt,
          child,      \* the process: how far it got, or how it ended
          port,       \* who listens on the reserved port
          written,    \* lines the child has written
          pipe,       \* written and not yet read by the log pump
          tail,       \* Engine.stderr_tail
          report,     \* the error start returns, with the tail it carries
          cancelled,
          late        \* the start deadline has passed

vars == <<stage, attempt, child, port, written, pipe, tail, report,
          cancelled, late>>

\* ExitClassification, for a child that ended.
Exits == {"clean", "failed", "sigill", "sigkill", "sigsegv"}
Alive == child \in {"booting", "serving"}

NoReport == [error |-> "none", tail |-> <<>>]

\* ExitClassification::into_error.  A SIGKILL is an out-of-memory kill when
\* little memory is left, which the model leaves open.
IntoError(exit) ==
    CASE exit = "clean"   -> {"unavailable"}
      [] exit = "failed"  -> {"crashed_code"}
      [] exit = "sigill"  -> {"unsupported_cpu"}
      [] exit = "sigkill" -> {"oom", "crashed_signal"}
      [] exit = "sigsegv" -> {"crashed_signal"}

CarriesTail == {"crashed_code", "crashed_signal", "oom"}

\* is_retryable_startup: a plain non-zero exit and nothing else.
IsRetryable(error) == error = "crashed_code"

-----------------------------------------------------------------------------
(* The child and the rest of the machine. *)

Write ==
    /\ Alive
    /\ Len(written) < MaxLines
    /\ written' = Append(written, Len(written) + 1)
    /\ pipe' = Append(pipe, Len(written) + 1)
    /\ UNCHANGED <<stage, attempt, child, port, tail, report, cancelled, late>>

\* The child binds its port, or exits because somebody has it.
Bind ==
    /\ child = "booting"
    /\ IF port = "free"
       THEN child' = "serving" /\ port' = "child"
       ELSE child' = "failed" /\ UNCHANGED port
    /\ UNCHANGED <<stage, attempt, written, pipe, tail, report, cancelled,
                   late>>

Exit(how) ==
    /\ Alive
    /\ child' = how
    /\ port' = IF port = "child" THEN "free" ELSE port
    /\ UNCHANGED <<stage, attempt, written, pipe, tail, report, cancelled,
                   late>>

\* Another program takes the port between the probe and the child's bind.
TakePort ==
    /\ port = "free"
    /\ child = "booting"
    /\ port' = "foreign"
    /\ UNCHANGED <<stage, attempt, child, written, pipe, tail, report,
                   cancelled, late>>

\* The log pump reads one line into the tail, a ring of TailLines.
Pumped(t, line) == Append(IF Len(t) = TailLines THEN Tail(t) ELSE t, line)

LogPump ==
    /\ pipe # <<>>
    /\ tail' = Pumped(tail, Head(pipe))
    /\ pipe' = Tail(pipe)
    /\ UNCHANGED <<stage, attempt, child, port, written, report, cancelled,
                   late>>

Cancel ==
    /\ ~cancelled
    /\ cancelled' = TRUE
    /\ UNCHANGED <<stage, attempt, child, port, written, pipe, tail, report,
                   late>>

DeadlinePasses ==
    /\ ~late
    /\ stage \in {"top", "probing", "bottom"}
    /\ late' = TRUE
    /\ UNCHANGED <<stage, attempt, child, port, written, pipe, tail, report,
                   cancelled>>

-----------------------------------------------------------------------------
(* start and start_attempt. *)

\* The executable or the model is missing: reported before anything is spawned.
RefuseMissing ==
    /\ stage = "begin"
    /\ stage' = "failed"
    /\ report' = [error |-> "missing", tail |-> <<>>]
    /\ UNCHANGED <<attempt, child, port, written, pipe, tail, cancelled, late>>

\* reserve_port, spawn, and the pumps of a fresh tail.
Spawn ==
    /\ stage = "begin"
    /\ stage' = "top"
    /\ child' = "booting"
    /\ port' = "free"
    /\ written' = <<>>
    /\ pipe' = <<>>
    /\ tail' = <<>>
    /\ late' = FALSE
    /\ UNCHANGED <<attempt, report, cancelled>>

\* A launch that failed keeps its error while it is cleaned up.
Fail(error) ==
    /\ stage' = "draining"
    /\ report' = [error |-> error, tail |-> <<>>]

\* The top of await_ready's loop: cancellation, then death, then the probe.
Poll ==
    /\ stage = "top"
    /\ IF cancelled THEN Fail("cancelled")
       ELSE IF ~Alive THEN \E e \in IntoError(child) : Fail(e)
       ELSE stage' = "probing" /\ UNCHANGED report
    /\ UNCHANGED <<attempt, child, port, written, pipe, tail, cancelled, late>>

\* GET /health answers with success: whoever listens answered, the child or
\* the program that took its port.
ProbeSucceeds ==
    /\ stage = "probing"
    /\ port # "free"
    /\ stage' = "ready"
    /\ UNCHANGED <<attempt, child, port, written, pipe, tail, report,
                   cancelled, late>>

\* Refused, timed out, or still loading.
ProbeFails ==
    /\ stage = "probing"
    /\ stage' = "bottom"
    /\ UNCHANGED <<attempt, child, port, written, pipe, tail, report,
                   cancelled, late>>

\* After the probe: death again, then the deadline, then the next round.
Recheck ==
    /\ stage = "bottom"
    /\ IF ~Alive THEN \E e \in IntoError(child) : Fail(e)
       ELSE IF late THEN Fail("timeout")
       ELSE stage' = "top" /\ UNCHANGED report
    /\ UNCHANGED <<attempt, child, port, written, pipe, tail, cancelled, late>>

\* Mutant of DrainTail: the tail is read without waiting for the pumps.
DrainTailAtOnce ==
    /\ stage = "draining"
    /\ stage' = "stopping"
    /\ report' = IF report.error \in CarriesTail
                 THEN [report EXCEPT !.tail = tail] ELSE report
    /\ UNCHANGED <<attempt, child, port, written, pipe, tail, cancelled, late>>

\* drained_stderr_tail: the pumps end at end of file, which a dead child has
\* reached; a live one is waited for half a second.
DrainTail ==
    /\ stage = "draining"
    /\ ~Alive => pipe = <<>>
    /\ stage' = "stopping"
    /\ report' = IF report.error \in CarriesTail
                 THEN [report EXCEPT !.tail = tail] ELSE report
    /\ UNCHANGED <<attempt, child, port, written, pipe, tail, cancelled, late>>

\* Engine::shutdown ends with the child gone (asked, then killed after two
\* seconds); start then tries again or returns the error.
Stop ==
    /\ stage = "stopping"
    /\ ~Alive
    /\ IF attempt < MaxAttempts /\ IsRetryable(report.error)
       THEN /\ attempt' = attempt + 1
            /\ stage' = "begin"
            /\ report' = NoReport
       ELSE /\ stage' = "failed"
            /\ UNCHANGED <<attempt, report>>
    /\ UNCHANGED <<child, port, written, pipe, tail, cancelled, late>>

\* SIGTERM to the group, and SIGKILL once two seconds are over.
Terminate ==
    /\ stage = "stopping"
    /\ Alive
    /\ child' \in {"clean", "sigkill"}
    /\ port' = IF port = "child" THEN "free" ELSE port
    /\ UNCHANGED <<stage, attempt, written, pipe, tail, report, cancelled,
                   late>>

\* The backend stops a ready engine (unload, the next load, its own shutdown).
Release ==
    /\ stage = "ready"
    /\ stage' = "stopping"
    /\ report' = [error |-> "released", tail |-> <<>>]
    /\ UNCHANGED <<attempt, child, port, written, pipe, tail, cancelled, late>>

\* The gateway dies: the kernel kills the child it was the parent of
\* (PR_SET_PDEATHSIG in configure_child).
GatewayDies ==
    /\ stage \notin {"dead", "failed"}
    /\ stage' = "dead"
    /\ child' = IF Alive THEN "sigkill" ELSE child
    /\ port' = IF port = "child" THEN "free" ELSE port
    /\ UNCHANGED <<attempt, written, pipe, tail, report, cancelled, late>>

-----------------------------------------------------------------------------
Init ==
    /\ stage = "begin"
    /\ attempt = 1
    /\ child = "none"
    /\ port = "free"
    /\ written = <<>>
    /\ pipe = <<>>
    /\ tail = <<>>
    /\ report = NoReport
    /\ cancelled = FALSE
    /\ late = FALSE

SupervisorStep ==
    \/ RefuseMissing \/ Spawn \/ Poll \/ ProbeSucceeds \/ ProbeFails
    \/ Recheck \/ DrainTail \/ Stop \/ Terminate

Next ==
    \/ SupervisorStep
    \/ Release
    \/ GatewayDies
    \/ Write \/ Bind \/ TakePort \/ LogPump \/ Cancel \/ DeadlinePasses
    \/ \E how \in Exits : Exit(how)

Spec == Init /\ [][Next]_vars

\* The start's own task and its pumps keep being polled, and time passes.
Fairness ==
    /\ WF_vars(SupervisorStep)
    /\ WF_vars(LogPump)
    /\ WF_vars(DeadlinePasses)

-----------------------------------------------------------------------------
(* Properties. *)

\* The supervisor's state is well formed.
TypeOK ==
    /\ stage \in {"begin", "top", "probing", "bottom", "draining", "stopping",
                  "ready", "failed", "dead"}
    /\ attempt \in 1..MaxAttempts
    /\ child \in Exits \cup {"none", "booting", "serving"}
    /\ port \in {"free", "child", "foreign"}
    /\ Len(tail) <= TailLines
    /\ Len(pipe) <= MaxLines

\* No orphans: whenever start has returned an error or tries again, and once
\* an engine was released or its gateway died, no child is left running.
NoOrphan ==
    stage \in {"begin", "failed", "dead"} => ~Alive

\* The last TailLines lines the child wrote.
LastLines ==
    SubSeq(written, IF Len(written) > TailLines
                    THEN Len(written) - TailLines + 1 ELSE 1, Len(written))

TailIsTrue ==
    stage' \in {"stopping", "failed"} /\ report'.error \in CarriesTail
        => report'.tail = LastLines'

TimeoutIsTrue ==
    report'.error = "timeout" /\ report.error # "timeout" => Alive

RetryIsTrue ==
    attempt' # attempt => child = "failed" /\ attempt' <= MaxAttempts

\* What start makes of a failure is true.  A report of a dead engine carries
\* the last lines the child wrote, however fast it died; a timeout is reported
\* only for an engine still running when the deadline was looked at, so that
\* death is never hidden behind it; and only a plain non-zero exit, which a
\* lost race for the port may be, is tried again.
FailureIsExplained == [][TailIsTrue /\ TimeoutIsTrue /\ RetryIsTrue]_vars

\* Every start comes to an end: an engine, an error, or the gateway's death.
StartEnds == <>(stage \in {"ready", "failed", "dead"})
=============================================================================

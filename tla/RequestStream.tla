---------------------------- MODULE RequestStream ----------------------------
(***************************************************************************)
(* One generation request, from admission to the release of its slot       *)
(* (serve_chat, serve_completions and aggregate of routes.rs, stream.rs,   *)
(* completions.rs and record_generation_as of metrics.rs, all in           *)
(* crates/lightweight-gateway/src).                                        *)
(*                                                                         *)
(* A streamed response is an encoder polled by the connection: it hands    *)
(* over the frames it has queued and, when it has none, awaits a slot or   *)
(* the engine.  A whole response awaits the same things inside the         *)
(* handler.  The client may leave at any await; whatever is being awaited  *)
(* is then dropped, and the drop of the request's guard logs the outcome,  *)
(* cancels the work, counts the generation and releases the slot, in that  *)
(* order and seen by every other task in between.                          *)
(*                                                                         *)
(* A frame is its kind and the choice it belongs to.  The scheduler is     *)
(* seen through this request's ticket only.                                *)
(***************************************************************************)
EXTENDS Naturals, Sequences, FiniteSets

CONSTANTS Requests,   \* the requests to consider: endpoint, stream, usage, echo, n
          MaxEvents,  \* bound on the engine's events before a final one
          MaxSignals  \* bound on keep-alives and queue notices

ASSUME BoundsAssumption == MaxEvents \in Nat /\ MaxSignals \in Nat

\* The handlers refuse a request for no completion at all.
ASSUME RequestsAssumption ==
    \A r \in Requests : r.stream \in BOOLEAN /\ r.usage \in BOOLEAN /\ r.n \in Nat \ {0}

VARIABLES req,       \* the request
          stage,     \* where its handler is
          ticket,    \* its place in the queue
          source,    \* Source / Encoder.current: what events come from
          engine,    \* the connection to the engine
          events,    \* events read from the current generation
          signals,   \* keep-alives and notices so far
          left,      \* completions still to run
          index,     \* the choice being produced
          pending,   \* Encoder.pending
          sent,      \* frames the connection has taken
          started,   \* Encoder.started
          finished,  \* Encoder.finished
          client,    \* "here" or "left"
          answer,    \* status of the response
          permit,    \* RequestGuard.permit
          token,     \* RequestGuard.cancel has been cancelled
          finish,    \* GenerationRecord.finish_reason
          ending,    \* RequestGuard.ending
          logged,    \* the closing log lines
          counted,   \* the counters incremented
          drops      \* what is left to drop

queueVars == <<ticket>>
engineVars == <<source, engine, events, left, index>>
frameVars == <<pending, sent, started, finished, signals>>
guardVars == <<permit, token, finish, ending>>
bookVars == <<logged, counted, drops>>
vars == <<req, stage, queueVars, engineVars, frameVars, client, answer,
          guardVars, bookVars>>

None == "none"
Reasons == {"stop", "length"}

Frame(kind) == [kind |-> kind, index |-> 0]
Choice(kind) == [kind |-> kind, index |-> index]

Chat == req.endpoint = "chat"

-----------------------------------------------------------------------------
(* The guard. *)

\* RequestGuard::completed
Completed == IF ending = "cancelled" THEN "completed" ELSE ending

\* Mutant of GuardDrop: the slot goes back before the generation is counted.
GuardDropPermitFirst == <<"log", "permit", "cancel", "record">>

\* Drop for RequestGuard.
GuardDrop == <<"log", "cancel", "record", "permit">>

\* What goes first when the handler is dropped or returns: a future being
\* awaited, then locals in reverse and fields in order of declaration.  The
\* chat Encoder has its source before its guard and collect_all its events
\* inside the Run that holds the guard; aggregate declares its guard after its
\* events, and the completions Encoder has its Run before its current
\* generation.
SourceFirst ==
    \/ source = "transit"
    \/ Chat /\ stage = "body"
    \/ ~Chat /\ stage = "collect"

\* The handler ends: its response is complete, it returns an error, or the
\* client is gone.
Teardown ==
    /\ stage' = "drop"
    /\ drops' = IF SourceFirst THEN <<"source">> \o GuardDrop
                               ELSE GuardDrop \o <<"source">>

DropSource ==
    /\ drops # <<>> /\ Head(drops) = "source"
    /\ drops' = Tail(drops)
    /\ source' = None /\ engine' = "closed" /\ ticket' = None
    /\ UNCHANGED <<req, stage, events, left, index, frameVars, client, answer,
                   guardVars, logged, counted>>

DropLog ==
    /\ drops # <<>> /\ Head(drops) = "log"
    /\ drops' = Tail(drops)
    /\ logged' = Append(logged, IF finish = "error" THEN "failed" ELSE ending)
    /\ UNCHANGED <<req, stage, queueVars, engineVars, frameVars, client,
                   answer, guardVars, counted>>

DropCancel ==
    /\ drops # <<>> /\ Head(drops) = "cancel"
    /\ drops' = Tail(drops)
    /\ token' = TRUE
    /\ UNCHANGED <<req, stage, queueVars, engineVars, frameVars, client,
                   answer, permit, finish, ending, logged, counted>>

\* record_generation_as: no finish reason counts as cancelled.
DropRecord ==
    /\ drops # <<>> /\ Head(drops) = "record"
    /\ drops' = Tail(drops)
    /\ counted' = Append(counted, IF finish = None THEN "cancelled" ELSE finish)
    /\ UNCHANGED <<req, stage, queueVars, engineVars, frameVars, client,
                   answer, guardVars, logged>>

DropPermit ==
    /\ drops # <<>> /\ Head(drops) = "permit"
    /\ drops' = Tail(drops)
    /\ permit' = FALSE
    /\ UNCHANGED <<req, stage, queueVars, engineVars, frameVars, client,
                   answer, token, finish, ending, logged, counted>>

Dropped ==
    /\ stage = "drop" /\ drops = <<>>
    /\ stage' = "gone"
    /\ UNCHANGED <<req, queueVars, engineVars, frameVars, client, answer,
                   guardVars, bookVars>>

-----------------------------------------------------------------------------
(* Admission.  A chat request takes a slot or a place in the queue at one   *)
(* instant; a streamed one in the queue is answered at once and waits       *)
(* inside its response.  A completions request always waits first.          *)

\* With a slot: a chat calls the engine before it answers, a streamed
\* completions request answers first, and a whole one starts its first.
Serve ==
    /\ permit' = TRUE
    /\ \/ /\ Chat
          /\ stage' = "generate" /\ source' = "transit"
          /\ UNCHANGED <<left, index>>
       \/ /\ ~Chat /\ req.stream
          /\ stage' = "body"
          /\ UNCHANGED <<source, left, index>>
       \/ /\ ~Chat /\ ~req.stream
          /\ stage' = "collect" /\ source' = "transit"
          /\ left' = left - 1 /\ index' = index + 1
    /\ UNCHANGED <<req, engine, events, frameVars, client, answer, token,
                   finish, ending, bookVars>>

AdmitNow ==
    /\ stage = "admit"
    /\ Serve
    /\ UNCHANGED ticket

Enqueue ==
    /\ stage = "admit"
    /\ ticket' = "waiting"
    /\ IF Chat /\ req.stream
       THEN /\ stage' = "body" /\ source' = "queued"
            /\ pending' = <<Frame("role")>>
       ELSE stage' = "wait" /\ UNCHANGED <<source, pending>>
    /\ UNCHANGED <<req, engine, events, left, index, sent, started, finished,
                   signals, client, answer, guardVars, bookVars>>

\* The scheduler's side of the ticket; it closes at shutdown only.
Grant ==
    /\ ticket = "waiting"
    /\ ticket' \in {"granted", "closed"}
    /\ UNCHANGED <<req, stage, engineVars, frameVars, client, answer,
                   guardVars, bookVars>>

\* wait_for_slot, granted: the guard is made around the permit.
TakeGrant ==
    /\ stage = "wait" /\ ticket = "granted"
    /\ ticket' = None
    /\ Serve

\* Mutant of WaitFails: only a closed queue ends the wait.
WaitFailsWhenClosed ==
    /\ stage = "wait" /\ ticket = "closed"
    /\ ticket' = None
    /\ answer' = "busy"
    /\ stage' = "gone"
    /\ UNCHANGED <<req, engineVars, frameVars, client, guardVars, bookVars>>

\* wait_for_slot, out of time (granted in that instant or not) or closed: the
\* ticket goes, and a slot with it.  There is no guard to drop.
WaitFails ==
    /\ stage = "wait"
    /\ ticket' = None
    /\ answer' = "busy"
    /\ stage' = "gone"
    /\ UNCHANGED <<req, engineVars, frameVars, client, guardVars, bookVars>>

\* generate before the response has begun: a failure is a status.
GenerateOk ==
    /\ stage = "generate"
    /\ source' = "running" /\ engine' = "open"
    /\ IF req.stream
       THEN stage' = "body" /\ pending' = <<Frame("role")>>
       ELSE stage' = "collect" /\ UNCHANGED pending
    /\ UNCHANGED <<req, queueVars, events, left, index, sent, started, finished,
                   signals, client, answer, guardVars, bookVars>>

GenerateFails ==
    /\ stage = "generate"
    /\ ending' = "failed"
    /\ answer' = "error"
    /\ Teardown
    /\ UNCHANGED <<req, queueVars, engineVars, frameVars, client, permit,
                   token, finish, logged, counted>>

-----------------------------------------------------------------------------
(* Ending a stream. *)

\* fail_with of stream.rs and fail of completions.rs: an error frame and the
\* end.  Only the chat encoder writes a finish reason.
Fail ==
    /\ ending' = "failed"
    /\ finish' = IF Chat THEN "error" ELSE finish
    /\ pending' = <<Frame("error"), Frame("done")>>
    /\ finished' = TRUE

Closing == (IF req.usage THEN <<Frame("usage")>> ELSE <<>>) \o <<Frame("done")>>

\* Mutant of Close: the usage frame goes out after the end.
CloseUsageLast(reason) ==
    /\ finish' = reason
    /\ pending' = <<Frame("finish"), Frame("done")>>
                     \o (IF req.usage THEN <<Frame("usage")>> ELSE <<>>)
    /\ finished' = TRUE
    /\ ending' = Completed
    /\ token' = TRUE

\* close of stream.rs, on a stream that is not finished.
Close(reason) ==
    /\ finish' = reason
    /\ pending' = <<Frame("finish")>> \o Closing
    /\ finished' = TRUE
    /\ ending' = Completed
    /\ token' = TRUE

-----------------------------------------------------------------------------
(* The streamed body. *)

\* The connection takes the next frame.
Deliver ==
    /\ stage = "body" /\ client = "here"
    /\ pending # <<>>
    /\ sent' = Append(sent, Head(pending))
    /\ pending' = Tail(pending)
    /\ UNCHANGED <<req, stage, queueVars, engineVars, started, finished,
                   signals, client, answer, guardVars, bookVars>>

\* The stream returns None and the connection drops the body.
EndOfBody ==
    /\ stage = "body" /\ client = "here"
    /\ pending = <<>> /\ finished
    /\ answer' = "ok"
    /\ Teardown
    /\ UNCHANGED <<req, queueVars, engineVars, frameVars, client, guardVars,
                   logged, counted>>

\* The encoder is polled and has nothing queued: it awaits its source.
Awaiting(s) ==
    /\ stage = "body" /\ client = "here"
    /\ pending = <<>> /\ ~finished
    /\ source = s

\* wait_for_a_slot, granted.
Admitted ==
    /\ Awaiting("queued") /\ ticket = "granted"
    /\ ticket' = None
    /\ permit' = TRUE
    /\ source' = "transit"
    /\ UNCHANGED <<req, stage, engine, events, left, index, frameVars, client,
                   answer, token, finish, ending, bookVars>>

\* wait_for_a_slot, past the deadline or with the scheduler gone.  A select
\* that finds both the grant and the deadline ready takes either.
GaveUp ==
    /\ Awaiting("queued")
    /\ ticket' = None
    /\ source' = "transit"
    /\ Fail
    /\ UNCHANGED <<req, stage, engine, events, left, index, sent, started,
                   signals, client, answer, permit, token, bookVars>>

\* wait_for_a_slot, notice interval.
Notice ==
    /\ Awaiting("queued")
    /\ signals < MaxSignals
    /\ signals' = signals + 1
    /\ pending' = <<Frame("notice")>>
    /\ UNCHANGED <<req, stage, queueVars, engineVars, sent, started, finished,
                   client, answer, guardVars, bookVars>>

\* encode of completions.rs: the next completion, or the end.
NextCompletion ==
    /\ ~Chat /\ Awaiting(None) /\ left > 0
    /\ left' = left - 1 /\ index' = index + 1
    /\ source' = "transit" /\ events' = 0
    /\ UNCHANGED <<req, stage, queueVars, engine, frameVars, client, answer,
                   guardVars, bookVars>>

\* Mutant of CloseCompletions: the outcome is left for the guard to guess.
CloseCompletionsUnsaid ==
    /\ ~Chat /\ Awaiting(None) /\ left = 0
    /\ pending' = Closing
    /\ finished' = TRUE
    /\ token' = TRUE
    /\ UNCHANGED <<req, stage, queueVars, engineVars, sent, started, signals,
                   client, answer, permit, finish, ending, bookVars>>

CloseCompletions ==
    /\ ~Chat /\ Awaiting(None) /\ left = 0
    /\ pending' = Closing
    /\ finished' = TRUE
    /\ ending' = Completed
    /\ token' = TRUE
    /\ UNCHANGED <<req, stage, queueVars, engineVars, sent, started, signals,
                   client, answer, permit, finish, bookVars>>

\* start() of a queued chat, or generate of a completion, inside the response.
StartOk ==
    /\ Awaiting("transit")
    /\ source' = "running" /\ engine' = "open"
    /\ started' = FALSE
    /\ pending' = IF ~Chat /\ req.echo THEN <<Choice("echo")>> ELSE <<>>
    /\ UNCHANGED <<req, stage, queueVars, events, left, index, sent, finished,
                   signals, client, answer, guardVars, bookVars>>

StartFails ==
    /\ Awaiting("transit")
    /\ source' = IF Chat THEN "transit" ELSE None
    /\ Fail
    /\ UNCHANGED <<req, stage, queueVars, engine, events, left, index, sent,
                   started, signals, client, answer, permit, token, bookVars>>

KeepAlive ==
    /\ Awaiting("running") /\ ~started
    /\ signals < MaxSignals
    /\ signals' = signals + 1
    /\ pending' = <<Choice("ping")>>
    /\ UNCHANGED <<req, stage, queueVars, engineVars, sent, started, finished,
                   client, answer, guardVars, bookVars>>

\* absorb, an event that ends nothing: a delta queues a frame; the start of
\* the generation and its timings queue none.
Absorb(queues) ==
    /\ Awaiting("running") /\ engine = "open"
    /\ events < MaxEvents
    /\ events' = events + 1
    /\ started' = TRUE
    /\ pending' = IF queues THEN <<Choice("delta")>> ELSE <<>>
    /\ UNCHANGED <<req, stage, queueVars, source, engine, left, index, sent,
                   finished, signals, client, answer, guardVars, bookVars>>

\* finish_choice: the choice is closed and its generation dropped.
FinishChoice ==
    /\ pending' = <<Choice("finish")>>
    /\ started' = FALSE
    /\ source' = None /\ engine' = "closed"

\* absorb, Finished: closes the chat stream, or the choice.
AbsorbFinished(reason) ==
    /\ Awaiting("running") /\ engine = "open"
    /\ IF Chat
       THEN /\ Close(reason)
            /\ started' = TRUE
            /\ engine' = "spent"
            /\ UNCHANGED source
       ELSE FinishChoice /\ UNCHANGED <<finish, finished, ending, token>>
    /\ UNCHANGED <<req, stage, queueVars, events, left, index, sent, signals,
                   client, answer, permit, bookVars>>

\* The engine's stream ends without a finish event.
EngineEnds ==
    /\ Awaiting("running")
    /\ IF Chat
       THEN Close("length") /\ UNCHANGED <<started, source, engine>>
       ELSE FinishChoice /\ UNCHANGED <<finish, finished, ending, token>>
    /\ UNCHANGED <<req, stage, queueVars, events, left, index, sent, signals,
                   client, answer, permit, bookVars>>

EngineFails ==
    /\ Awaiting("running") /\ engine = "open"
    /\ Fail
    /\ IF Chat THEN engine' = "spent" /\ UNCHANGED source
               ELSE engine' = "closed" /\ source' = None
    /\ UNCHANGED <<req, stage, queueVars, events, left, index, sent, started,
                   signals, client, answer, permit, token, bookVars>>

-----------------------------------------------------------------------------
(* The whole response: aggregate of routes.rs, collect_all and aggregate of *)
(* completions.rs.                                                          *)

Collecting(s) == stage = "collect" /\ source = s

CollectStartOk ==
    /\ Collecting("transit")
    /\ source' = "running" /\ engine' = "open" /\ events' = 0
    /\ UNCHANGED <<req, stage, queueVars, left, index, frameVars, client,
                   answer, guardVars, bookVars>>

\* generate or an event fails: nothing has been sent, so it is a status.
CollectFails ==
    /\ \/ Collecting("transit") /\ UNCHANGED engine
       \/ Collecting("running") /\ engine = "open" /\ engine' = "spent"
    /\ ending' = "failed"
    /\ finish' = IF Chat THEN "error" ELSE finish
    /\ answer' = "error"
    /\ Teardown
    /\ UNCHANGED <<req, queueVars, source, events, left, index, frameVars,
                   client, permit, token, logged, counted>>

Collect ==
    /\ Collecting("running") /\ engine = "open"
    /\ events < MaxEvents
    /\ events' = events + 1
    /\ UNCHANGED <<req, stage, queueVars, source, engine, left, index,
                   frameVars, client, answer, guardVars, bookVars>>

CollectFinished(reason) ==
    /\ Collecting("running") /\ engine = "open"
    /\ engine' = "spent"
    /\ finish' = IF Chat THEN reason ELSE finish
    /\ UNCHANGED <<req, stage, queueVars, source, events, left, index,
                   frameVars, client, answer, permit, token, ending, bookVars>>

\* The generation ends, with a finish event or without: the next completion
\* starts, or the response is complete.
CollectEnds ==
    /\ Collecting("running")
    /\ \/ /\ left > 0
          /\ left' = left - 1 /\ index' = index + 1
          /\ source' = "transit" /\ engine' = "closed"
          /\ UNCHANGED <<stage, answer, ending, drops>>
       \/ /\ left = 0
          /\ ending' = Completed
          /\ answer' = "ok"
          /\ engine' = "spent"
          /\ Teardown
          /\ UNCHANGED <<left, index, source>>
    /\ UNCHANGED <<req, queueVars, events, frameVars, client, permit, token,
                   finish, logged, counted>>

-----------------------------------------------------------------------------

\* The client goes away: hyper drops the handler or the body at the await it
\* is suspended in.
Disconnect ==
    /\ client = "here"
    /\ stage \in {"wait", "generate", "body", "collect"}
    /\ client' = "left"
    /\ \/ /\ stage = "wait"
          /\ ticket' = None
          /\ stage' = "gone"
          /\ UNCHANGED drops
       \/ /\ stage # "wait"
          /\ Teardown
          /\ UNCHANGED ticket
    /\ UNCHANGED <<req, engineVars, frameVars, answer, guardVars, logged,
                   counted>>

Init ==
    /\ req \in Requests
    /\ stage = "admit"
    /\ ticket = None
    /\ source = None /\ engine = "closed" /\ events = 0
    /\ left = IF Chat THEN 0 ELSE req.n
    /\ index = 0
    /\ pending = <<>> /\ sent = <<>>
    /\ started = FALSE /\ finished = FALSE /\ signals = 0
    /\ client = "here" /\ answer = None
    /\ permit = FALSE /\ token = FALSE
    /\ finish = None /\ ending = "cancelled"
    /\ logged = <<>> /\ counted = <<>> /\ drops = <<>>

Body ==
    \/ Deliver \/ EndOfBody
    \/ Admitted \/ GaveUp
    \/ NextCompletion \/ CloseCompletions
    \/ StartOk \/ StartFails
    \/ \E queues \in BOOLEAN : Absorb(queues)
    \/ \E reason \in Reasons : AbsorbFinished(reason)
    \/ EngineEnds \/ EngineFails

Whole ==
    \/ CollectStartOk \/ CollectFails \/ Collect \/ CollectEnds
    \/ \E reason \in Reasons : CollectFinished(reason)

Drop == DropSource \/ DropLog \/ DropCancel \/ DropRecord \/ DropPermit \/ Dropped

Entry == AdmitNow \/ Enqueue \/ TakeGrant \/ WaitFails \/ GenerateOk \/ GenerateFails

Next ==
    \/ Entry \/ Body \/ Whole \/ Drop
    \/ Grant \/ Notice \/ KeepAlive \/ Disconnect

Spec == Init /\ [][Next]_vars

\* The connection keeps reading, the engine answers, timers fire and a drop
\* runs to its end.  Nothing makes the scheduler grant a slot or the client
\* leave.
FairSpec == Spec /\ WF_vars(Entry) /\ WF_vars(Body) /\ WF_vars(Whole) /\ WF_vars(Drop)

-----------------------------------------------------------------------------
(* Properties. *)

Frames == sent \o pending

At(kind) == {i \in DOMAIN Frames : Frames[i].kind = kind}

HoldsSlot == permit \/ ticket = "granted"

\* The stages, counters and queues of a request stay within their types, and
\* no generation is started beyond those asked for.
TypeOK ==
    /\ req \in Requests
    /\ stage \in {"admit", "wait", "generate", "body", "collect", "drop", "gone"}
    /\ ticket \in {None, "waiting", "granted", "closed"}
    /\ source \in {None, "queued", "transit", "running"}
    /\ engine \in {"closed", "open", "spent"}
    /\ events \in 0..MaxEvents /\ signals \in 0..MaxSignals
    /\ left \in Nat /\ left + index = (IF Chat THEN 0 ELSE req.n)
    /\ started \in BOOLEAN /\ finished \in BOOLEAN
    /\ client \in {"here", "left"}
    /\ answer \in {None, "ok", "busy", "error"}
    /\ permit \in BOOLEAN /\ token \in BOOLEAN
    /\ finish \in Reasons \cup {None, "error"}
    /\ ending \in {"cancelled", "completed", "failed"}

\* The frames a client reads, at any instant of any stream: [DONE] is the last;
\* an error is directly followed by it and never follows a finished chat; the
\* usage comes after every finish; a chat opens with its one role frame; queue
\* notices come before everything the engine says; choices are finished in
\* order, each once, and nothing of a choice follows its finish (the frame
\* order encode promises); keep-alives are sent during the prefill of a
\* generation and never after its first token (the head of stream.rs).
StreamIsWellFormed ==
    /\ \A i \in At("done") : i = Len(Frames)
    /\ \A i \in At("error") : /\ i + 1 \in At("done")
                              /\ Chat => At("finish") = {}
    /\ \A i \in At("usage") : i + 1 \in At("done") /\ At("error") = {}
    /\ Chat /\ Frames # <<>> => At("role") = {1}
    /\ \A i \in At("notice"), j \in At("ping") \cup At("delta") \cup At("finish") :
          i < j
    /\ \A i \in At("finish"), j \in DOMAIN Frames :
          j > i => \/ Frames[j].kind \in {"usage", "done", "error"}
                   \/ Frames[j].index > Frames[i].index
    /\ finished /\ At("error") = {} =>
          Cardinality(At("finish")) = (IF Chat THEN 1 ELSE req.n)
    /\ \A i \in At("delta"), j \in At("ping") :
          i < j => Frames[i].index < Frames[j].index

\* Every request that held a guard is accounted for exactly once, and the
\* closing line tells what happened: completed when the whole response was
\* produced, failed when the client was given an error, cancelled when it left
\* before either (Drop for RequestGuard, on every path).  A streamed chat is
\* counted under the reason its last frames gave, and as cancelled only when
\* they gave none.
OutcomeIsTrue ==
    /\ stage = "gone" /\ logged # <<>> =>
          LET failed == At("error") # {} \/ answer = "error"
              whole == ~failed /\ (finished \/ answer = "ok")
          IN  /\ Len(logged) = 1 /\ Len(counted) = 1
              /\ logged[1] = IF failed THEN "failed"
                             ELSE IF whole THEN "completed" ELSE "cancelled"
              /\ logged[1] = "cancelled" => client = "left"
    /\ Chat /\ Frames # <<>> /\ counted # <<>> =>
          /\ counted[1] = "error" <=> At("error") # {}
          /\ counted[1] = "cancelled" <=> ~finished

\* A slot goes back only when its request is logged, cancelled and counted
\* (the comment at the end of Drop for RequestGuard), and a streamed chat or
\* whole completions have let the engine go by then ("The engine serves one
\* generation at a time", scheduler.rs).
AccountedBeforeRelease ==
    [][permit /\ ~permit' =>
          /\ token /\ Len(logged) = 1 /\ Len(counted) = 1
          /\ (Chat <=> req.stream) => engine' # "open"]_vars

\* Every request ends and gives back what it held, whether or not a slot was
\* ever granted and wherever its client left.
RequestEnds == <>(stage = "gone" /\ ~HoldsSlot /\ engine # "open")

\* What the comment of FinishReasonCounts::cancelled says: those are the
\* generations whose client disconnected before they finished.
CancelledMeansDisconnected ==
    \A i \in DOMAIN counted : counted[i] = "cancelled" => client = "left"
=============================================================================

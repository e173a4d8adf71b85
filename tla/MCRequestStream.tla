--------------------------- MODULE MCRequestStream ---------------------------
(***************************************************************************)
(* The path of a request through the gateway, on small instances.  A       *)
(* behaviour is about one part: the handler of one request and the frames  *)
(* it sends; what its upstream client makes of the bytes of the engine; or *)
(* the counters and the event feed requests leave behind, as a snapshot    *)
(* reads them or as a watcher of the feed is told.                         *)
(***************************************************************************)
EXTENDS RequestStream, SequencesExt

CONSTANTS FrameLimit, MaxU32, Served, Watchers, Backlog

VARIABLES call, written, replies, wire, state, delivered, phase, cancelled, halved

VARIABLES focus, endings, count, recording, served, records, snapshot, toRead,
          snapshots, published, watcher

VARIABLE part   \* what this behaviour is about

upstreamVars == <<call, written, replies, wire, state, delivered, phase, cancelled, halved>>
metricsVars == <<focus, endings, count, recording, served, records, snapshot, toRead,
                 snapshots, published, watcher>>
mcVars == <<vars, upstreamVars, metricsVars, part>>

-----------------------------------------------------------------------------
(* A chat request and a completions request for n completions. *)
MCChat(stream) ==
    {[endpoint |-> "chat", stream |-> stream, usage |-> u, echo |-> FALSE, n |-> 1] :
        u \in BOOLEAN}

MCCompletions(stream) ==
    {[endpoint |-> "completions", stream |-> stream, usage |-> u, echo |-> e, n |-> n] :
        u \in BOOLEAN, e \in BOOLEAN, n \in 1..3}

MCEveryRequest ==
    MCChat(TRUE) \cup MCChat(FALSE) \cup MCCompletions(TRUE) \cup MCCompletions(FALSE)

-----------------------------------------------------------------------------
(* Calls of the engine: what is asked, what is answered, what is streamed. *)
Told(data, ends) == [data |-> <<data>>, ends |-> ends]
Ping == [data |-> <<>>, ends |-> "lf"]

Lead == "lead"      \* Upstream's two bytes of one character
Trail == "trail"

Question == [role |-> "user", content |-> "m", name |-> <<>>, answers |-> <<>>, calls |-> <<>>]
ToolAnswer == [role |-> "tool", content |-> "r", name |-> <<"n">>, answers |-> <<"c">>,
               calls |-> <<"k">>]
ToolChat == [chat |-> TRUE, messages |-> <<Question, ToolAnswer>>, text |-> "t",
             tools |-> <<[name |-> "f", parameters |-> <<>>]>>,
             choice |-> [kind |-> "auto", name |-> ""], parallel |-> <<TRUE>>,
             max_tokens |-> <<5>>, reasoning |-> "default", template_options |-> <<>>,
             sampling |-> <<>>, stop |-> <<>>]
Asked == {ToolChat,
          [ToolChat EXCEPT !.tools = <<>>],
          [ToolChat EXCEPT !.chat = FALSE, !.reasoning = "disabled", !.stop = <<"s">>],
          [ToolChat EXCEPT !.choice = [kind |-> "function", name |-> "f"],
                           !.sampling = [temperature |-> 1]]}

Answered(payload) == [status |-> "ok", payload |-> payload]
TooLong(window) ==
    [status |-> "refused", payload |-> [type |-> "exceed_context_size_error",
                                        n_prompt_tokens |-> <<9>>, n_ctx |-> window]]
CountAnswer(input, tokens) == Answered([input_tokens |-> input, tokens |-> tokens])

Scripts ==
    {<<Told(<<"role">>, "lf"), Ping, Told(<<"content", "a", Lead, Trail>>, "lf"),
       Told(<<"stop">>, "lf"), Told(<<"usage">>, "lf"), Told(<<"[DONE]">>, "lf")>>,
     <<Told(<<"role">>, "crlf"), Told(<<"timed", "a">>, "crlf"), Told(<<"tool", "b">>, "lf"),
       Told(<<"tool_calls">>, "lf"), Told(<<"[DONE]">>, "crlf")>>,
     <<Told(<<"text", "a">>, "lf"), Told(<<"stray">>, "lf"), Told(<<"length">>, "lf"),
       Told(<<"[DONE]">>, "lf")>>,
     <<Told(<<"reasoning", Lead, Trail>>, "lf"), Told(<<"error">>, "lf")>>,
     <<Told(<<"role">>, "lf"), Told(<<"content", "a">>, "lf"),
       Told(<<"content", "a", "a", "a", "a", "a", "a", "a", "a">>, "never")>>}

PlainCall ==
    [request |-> ToolChat, counted |-> CountAnswer(<<3>>, <<>>), opened |-> Answered(<<>>),
     frames |-> <<>>, props |-> Answered([n_ctx |-> <<4>>, total_slots |-> <<1>>]),
     metrics |-> [status |-> "ok",
                  lines |-> <<[comment |-> FALSE, key |-> "n_decode_total", value |-> <<3>>]>>],
     usage |-> [prompt_tokens |-> <<30>>, completion_tokens |-> <<2>>, cached_tokens |-> <<>>],
     failure |-> TooLong(<<4>>).payload, timings |-> [prompt_n |-> <<1>>, predicted_n |-> <<>>]]

MCCalls ==
    {[PlainCall EXCEPT !.frames = s] : s \in Scripts}
        \cup {[PlainCall EXCEPT !.request = r, !.opened = o, !.counted = c] :
                r \in Asked,
                o \in {TooLong(<<4>>), TooLong(<<>>), [status |-> "connect"]},
                c \in {CountAnswer(<<>>, <<>>), CountAnswer(<<>>, <<<<1, 2>>>>),
                       TooLong(<<4>>), [status |-> "broken"]}}
        \cup {[PlainCall EXCEPT !.props = p, !.metrics = [status |-> "refused"]] :
                p \in {Answered([n_ctx |-> <<0>>, total_slots |-> <<1>>]), TooLong(<<>>)}}

U == INSTANCE Upstream WITH Calls <- MCCalls, sent <- written

-----------------------------------------------------------------------------
(* What generations end with: at a latency bound and past it, with a client  *)
(* that left, and with every tally a record can touch.                       *)
Ended(reason, band, ttft, decode) ==
    [prompt |-> 3, completion |-> 2, cached |-> 1, finish |-> reason, queueWait |-> 50,
     band |-> band, ttft |-> ttft, prefill |-> ttft, decode |-> decode]

Brief == {Ended(<<"stop">>, <<>>, <<>>, <<>>),
          [Ended(<<>>, <<>>, <<>>, <<>>) EXCEPT !.queueWait = 51]}

MCWorkloads == {Brief, {Ended(<<"tool_calls">>, <<"bulk">>, <<>>, <<>>)},
                {Ended(<<"length">>, <<>>, <<120001>>, <<>>)},
                {Ended(<<"error">>, <<>>, <<>>, <<5>>)}}

M == INSTANCE Observability WITH
        Requests <- Served, Workloads <- MCWorkloads, Shares <- {50, 95}, MaxSnapshots <- 1,
        ending <- endings, finished <- records, sent <- published

-----------------------------------------------------------------------------
NoRequest ==
    /\ Init
    /\ req = CHOOSE r \in Requests : TRUE

NoUpstream ==
    /\ call = <<>> /\ written = <<>> /\ replies = <<>> /\ wire = <<>> /\ state = <<>>
    /\ delivered = <<>> /\ phase = "none" /\ cancelled = FALSE /\ halved = FALSE

NoMetrics ==
    /\ focus = "none" /\ endings = {} /\ count = <<>> /\ recording = <<>> /\ served = <<>>
    /\ records = <<>> /\ snapshot = <<>> /\ toRead = <<>> /\ snapshots = 0
    /\ published = 0 /\ watcher = <<>>

MCInit ==
    \/ part = "request" /\ Init /\ NoUpstream /\ NoMetrics
    \/ part = "engine" /\ NoRequest /\ U!UpstreamInit /\ NoMetrics
    \/ part = "snapshot" /\ NoRequest /\ NoUpstream /\ M!ObsInit
    \/ part = "feed" /\ NoRequest /\ NoUpstream /\ M!ObsInit /\ endings = Brief
         /\ focus = "queue_wait"

Serving ==
    \E r \in Served : \/ M!EnterRequest(r) \/ M!Update(r) \/ M!BodyDone(r)
                      \/ \E record \in endings : M!Publish(r, record)

MCNext ==
    \/ part = "request" /\ Next /\ UNCHANGED <<upstreamVars, metricsVars, part>>
    \/ part = "engine" /\ U!UpstreamNext /\ UNCHANGED <<vars, metricsVars, part>>
    \/ part \in {"snapshot", "feed"} /\ Serving /\ UNCHANGED <<vars, upstreamVars, part>>
    \/ part = "snapshot" /\ (M!StartSnapshot \/ M!ReadCounter)
         /\ UNCHANGED <<vars, upstreamVars, part>>
    \/ part = "feed"
         /\ (\E w \in Watchers : M!Subscribe(w) \/ M!Receive(w) \/ M!StreamEnds(w))
         /\ UNCHANGED <<vars, upstreamVars, part>>

\* The fairness of RequestStream, for the behaviours about a request.
MCFairness ==
    /\ WF_vars(part = "request" /\ Entry)
    /\ WF_vars(part = "request" /\ Body)
    /\ WF_vars(part = "request" /\ Whole)
    /\ WF_vars(part = "request" /\ Drop)

MCSpec == MCInit /\ [][MCNext]_mcVars /\ MCFairness

-----------------------------------------------------------------------------
\* What the gateway hears of its engine is what the engine said: however its
\* bytes are cut into reads the same events come out, the last of them tells
\* how the generation ended, and what is counted for a prompt is what is
\* generated from.
EngineIsHeardWhole ==
    part = "engine" => U!ChunkingIsInvisible /\ U!EndingIsTold /\ U!CountedIsGenerated

\* What the gateway tells of its requests is true at any moment: a snapshot
\* taken in the middle of recordings is a histogram, the counters agree with
\* one another between them, and the feed accounts for every event.
TelemetryIsTrue ==
    /\ part = "snapshot" => M!SnapshotIsAHistogram
    /\ part \in {"snapshot", "feed"} => M!QuiescentCountsAgree
    /\ part = "feed" => M!FeedAccountsForEveryEvent

\* Every request ends and gives back what it held (RequestStream!RequestEnds).
EveryRequestEnds ==
    <>(part = "request" => stage = "gone" /\ ~HoldsSlot /\ engine # "open")

\* Refuted: "A split multi-byte character across chunks is handled by holding
\* the partial frame" (core/sse.rs).
SplitCharactersSurvive == part = "engine" => U!SplitCharactersSurvive
=============================================================================

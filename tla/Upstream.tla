------------------------------ MODULE Upstream ------------------------------
(***************************************************************************)
(* The client of one running engine (crates/lightweight-backend-llamacpp,  *)
(* upstream.rs) over the server-sent event codec it reads the engine's     *)
(* answer with (crates/lightweight-core, sse.rs).                          *)
(*                                                                         *)
(* A request is counted, then generated: both send the engine a body made  *)
(* from the same request.  The answer is a run of frames that the socket   *)
(* delivers in pieces of any size; the decoder holds what is not yet a     *)
(* whole frame, and the translation turns every whole frame into events    *)
(* for the gateway.  The gateway polls, and may cancel at any moment.      *)
(*                                                                         *)
(* A byte is a symbol: the name of a field with its colon, the colon of a  *)
(* comment, the two line ends, the two halves of a character that takes    *)
(* two bytes, and a word for every JSON form the engine writes.            *)
(***************************************************************************)
EXTENDS Integers, Sequences, SequencesExt, FiniteSets, TLC

CONSTANTS Calls,       \* what is asked of the client and what the engine says
          FrameLimit,  \* SseDecoder's limit on one frame, in symbols
          MaxU32       \* the largest u32

VARIABLES call,       \* the request, the engine's answers and its frames
          sent,       \* the bodies the engine was sent
          replies,    \* what the small calls returned
          wire,       \* the symbols of the answer not yet read
          state,      \* Translation, decoder included
          delivered,  \* the items the gateway has polled
          phase,      \* "idle", "streaming", "ended"
          cancelled,  \* the request's cancellation token
          halved      \* history: a read ended between the halves of a character

uvars == <<call, sent, replies, wire, state, delivered, phase, cancelled,
           halved>>

LF == "lf"
CR == "cr"
Lead == "lead"
Trail == "trail"
Replaced == "replacement"

Saturated(n) == IF n > MaxU32 THEN MaxU32 ELSE n

----------------------------------------------------------------------------
(* sse.rs: the decoder *)

\* Where `mark` first occurs in `buffer`, one past the end where it does not.
At(buffer, mark) ==
    LET places == {i \in 1..(Len(buffer) - Len(mark) + 1) :
                       SubSeq(buffer, i, i + Len(mark) - 1) = mark}
    IN IF places = {} THEN Len(buffer) + 1
       ELSE CHOOSE i \in places : \A j \in places : i <= j

Terminators == << <<CR, LF, CR, LF>>, <<LF, LF>>, <<CR, CR>>, <<LF, CR, LF>> >>

\* FrameEnd is where the content ends and how much is taken out.
FindFrameEnd(buffer) ==
    LET place == [k \in 1..4 |-> At(buffer, Terminators[k])]
        best == CHOOSE k \in 1..4 : \A j \in 1..4 :
                    place[k] < place[j] \/ (place[k] = place[j] /\ k <= j)
    IN IF place[best] > Len(buffer) THEN <<>>
       ELSE << [content |-> place[best] - 1,
                frame |-> place[best] - 1 + Len(Terminators[best])] >>

\* `text` cut at every symbol of `ends`.
CutAt(text, ends) ==
    FoldLeft(LAMBDA lines, c : IF c \in ends THEN Append(lines, <<>>)
                               ELSE [lines EXCEPT ![Len(lines)] = Append(@, c)],
             << <<>> >>, text)

\* A frame with no data field dispatches nothing.
ParseFrame(frame) ==
    LET data == SelectSeq(CutAt(frame, {LF, CR}),
                          LAMBDA line : line # <<>> /\ line[1] = "data:")
    IN IF data = <<>> THEN <<>>
       ELSE << FoldLeft(LAMBDA said, line : said \o <<LF>> \o Tail(line),
                        Tail(data[1]), Tail(data)) >>

\* A chunk as text: a half of a character without the other is replaced.
Lossy(chunk) ==
    [i \in 1..Len(chunk) |->
        IF \/ chunk[i] = Lead /\ (i = Len(chunk) \/ chunk[i + 1] # Trail)
           \/ chunk[i] = Trail /\ (i = 1 \/ chunk[i - 1] # Lead)
        THEN Replaced ELSE chunk[i]]

Decoder == [buffer |-> <<>>, ready |-> <<>>, poisoned |-> FALSE]

\* One frame out of the buffer, and an event if it carries data.
Pulled(decoder, end, rest) ==
    [decoder EXCEPT !.buffer = rest,
         !.ready = @ \o ParseFrame(SubSeq(decoder.buffer, 1, end.content))]

\* As Extract, but what follows the first frame in the buffer is dropped.
ExtractOnce(decoder) ==
    LET end == FindFrameEnd(decoder.buffer)
    IN IF end # <<>> THEN Pulled(decoder, end[1], <<>>)
       ELSE IF Len(decoder.buffer) > FrameLimit
       THEN [decoder EXCEPT !.buffer = <<>>, !.poisoned = TRUE]
       ELSE decoder

\* Every whole frame is taken out; what is left may not outgrow the limit.
RECURSIVE Extract(_)
Extract(decoder) ==
    LET end == FindFrameEnd(decoder.buffer)
    IN IF end # <<>>
       THEN Extract(Pulled(decoder, end[1], SubSeq(decoder.buffer, end[1].frame + 1,
                                                   Len(decoder.buffer))))
       ELSE IF Len(decoder.buffer) > FrameLimit
       THEN [decoder EXCEPT !.buffer = <<>>, !.poisoned = TRUE]
       ELSE decoder

Feed(decoder, chunk) ==
    IF decoder.poisoned THEN decoder
    ELSE Extract([decoder EXCEPT !.buffer = @ \o Lossy(chunk)])

WithoutReturns(line) ==
    SubSeq(line, 1, CHOOSE n \in 0..Len(line) :
                        /\ \A i \in (n + 1)..Len(line) : line[i] = CR
                        /\ n > 0 => line[n] # CR)

EncodeData(payload) ==
    FoldLeft(LAMBDA out, line : out \o <<"data:">> \o line \o <<LF>>, <<>>,
             [i \in 1..Len(CutAt(payload, {LF})) |->
                  WithoutReturns(CutAt(payload, {LF})[i])]) \o <<LF>>

----------------------------------------------------------------------------
(* upstream.rs: what is sent *)

Given(key, value) == IF value = <<>> THEN <<>> ELSE key :> value[1]

MessagesToJson(messages) ==
    [i \in DOMAIN messages |->
        [role |-> messages[i].role, content |-> messages[i].content]
        @@ Given("name", messages[i].name)
        @@ Given("tool_call_id", messages[i].answers)
        @@ (IF messages[i].calls = <<>> THEN <<>> ELSE "tool_calls" :> messages[i].calls)]

\* A tool with no schema takes no arguments.
ToolsToJson(tools) ==
    [i \in DOMAIN tools |->
        [name |-> tools[i].name,
         parameters |-> IF tools[i].parameters = <<>> THEN "no arguments"
                        ELSE tools[i].parameters[1]]]

ToolChoiceToJson(choice) ==
    CASE choice.kind = "unspecified" -> <<>>
      [] choice.kind = "function" -> << [function |-> choice.name] >>
      [] OTHER -> << [word |-> choice.kind] >>

GenerationPath(request) ==
    IF request.chat THEN "/v1/chat/completions" ELSE "/v1/completions"

\* Only what the request was given is sent; the tools and what governs them
\* go with a conversation that declares some.
BuildRequestBody(request) ==
    [stream |-> TRUE, include_usage |-> TRUE, timings_per_token |-> TRUE]
    @@ (IF request.chat THEN "messages" :> MessagesToJson(request.messages)
        ELSE "prompt" :> request.text)
    @@ (IF request.chat /\ request.tools # <<>>
        THEN ("tools" :> ToolsToJson(request.tools))
             @@ Given("tool_choice", ToolChoiceToJson(request.choice))
             @@ Given("parallel_tool_calls", request.parallel)
        ELSE <<>>)
    @@ Given("max_tokens", request.max_tokens)
    @@ (IF request.reasoning = "default" THEN <<>>
        ELSE "reasoning_effort" :> IF request.reasoning = "disabled" THEN "none"
                                   ELSE request.reasoning)
    @@ Given("chat_template_kwargs", request.template_options)
    @@ request.sampling
    @@ (IF request.stop = <<>> THEN <<>> ELSE "stop" :> request.stop)

\* The body that asks for the count of the prompt.
CountBody(request) ==
    IF ~request.chat THEN [content |-> request.text]
    ELSE ("messages" :> MessagesToJson(request.messages))
         @@ (IF request.tools = <<>> THEN <<>>
             ELSE "tools" :> ToolsToJson(request.tools))

----------------------------------------------------------------------------
(* upstream.rs: what is read *)

\* A number the engine gives, as a u32; zero where it gives none.
Count(value) == IF value = <<>> THEN 0 ELSE Saturated(value[1])

UpstreamError(payload) ==
    IF payload.type = "exceed_context_size_error" /\ Count(payload.n_ctx) > 0
    THEN [kind |-> "failed", error |-> "context_overflow",
          prompt |-> Count(payload.n_prompt_tokens), n_ctx |-> Count(payload.n_ctx)]
    ELSE [kind |-> "failed", error |-> "generation_failed"]

TransportError(failure) ==
    [kind |-> "failed", error |-> IF failure = "connect" THEN "engine_unavailable"
                                  ELSE "generation_failed"]

NoPayload == [type |-> "", n_prompt_tokens |-> <<>>, n_ctx |-> <<>>]

\* An answer to a small call: a failure of the transport, a refusal, or what
\* was read in the payload.
Answered(answer, read) ==
    CASE answer.status = "connect" \/ answer.status = "broken" ->
             TransportError(answer.status)
      [] answer.status = "refused" -> UpstreamError(answer.payload)
      [] OTHER -> read

CountedTokens(payload) ==
    IF payload.input_tokens # <<>> THEN [kind |-> "count", n |-> Count(payload.input_tokens)]
    ELSE IF payload.tokens # <<>>
    THEN [kind |-> "count", n |-> Saturated(Len(payload.tokens[1]))]
    ELSE [kind |-> "failed", error |-> "generation_failed"]

\* window_from_props: None where either number is missing, zero or too large.
WindowFromProps(payload) ==
    IF \E n \in {payload.n_ctx, payload.total_slots} :
           n = <<>> \/ n = <<0>> \/ Count(n) # n[1]
    THEN [kind |-> "window", window |-> <<>>]
    ELSE [kind |-> "window", window |-> << <<payload.n_ctx[1], payload.total_slots[1]>> >>]

\* The first sample of every series that is named, None where there is none.
ParseEngineCounters(lines) ==
    [kind |-> "counters",
     values |-> [name \in {"n_decode_total", "requests_processing"} |->
         LET samples == SelectSeq(lines, LAMBDA line : ~line.comment /\ line.key = name)
         IN IF samples = <<>> THEN <<>> ELSE samples[1].value]]

\* A failing scrape keeps no more than the status.
CountersAnswered(answer) ==
    CASE answer.status = "connect" \/ answer.status = "broken" ->
             TransportError(answer.status)
      [] answer.status = "refused" -> [kind |-> "failed", error |-> "generation_failed"]
      [] OTHER -> ParseEngineCounters(answer.lines)

ParseUsage(usage) ==
    [prompt |-> Count(usage.prompt_tokens), completion |-> Count(usage.completion_tokens),
     cached |-> Count(usage.cached_tokens)]

ParseTimings(timings) ==
    [prompt_n |-> Count(timings.prompt_n), predicted_n |-> Count(timings.predicted_n)]

NoUsage == [prompt |-> 0, completion |-> 0, cached |-> 0]

\* What the engine's JSON holds: the word names the form, the rest is text.
Nothing == [error |-> <<>>, usage |-> <<>>, timings |-> <<>>, choice |-> <<>>]

Choice == [content |-> <<>>, reasoning |-> <<>>, tools |-> <<>>, text |-> <<>>,
           finish_reason |-> ""]

Words == {"role", "content", "timed", "reasoning", "tool", "text", "stop", "length",
          "tool_calls", "usage", "error"}

JsonOf(data) ==
    IF data = <<>> \/ data[1] \notin Words THEN <<>>
    ELSE LET word == data[1]  said == Tail(data) IN
      CASE word = "usage" -> << [Nothing EXCEPT !.usage = <<call.usage>>] >>
        [] word = "error" -> << [Nothing EXCEPT !.error = <<call.failure>>] >>
        [] word = "content" -> << [Nothing EXCEPT !.choice = <<[Choice EXCEPT !.content = said]>>] >>
        [] word = "timed" -> << [Nothing EXCEPT !.choice = <<[Choice EXCEPT !.content = said]>>,
                                                !.timings = <<call.timings>>] >>
        [] word = "reasoning" -> << [Nothing EXCEPT !.choice = <<[Choice EXCEPT !.reasoning = said]>>] >>
        [] word = "tool" -> << [Nothing EXCEPT !.choice = <<[Choice EXCEPT !.tools = <<said>>]>>] >>
        [] word = "text" -> << [Nothing EXCEPT !.choice = <<[Choice EXCEPT !.text = said]>>] >>
        [] word = "role" -> << [Nothing EXCEPT !.choice = <<Choice>>] >>
        [] OTHER -> << [Nothing EXCEPT !.choice = <<[Choice EXCEPT !.finish_reason = word]>>] >>

----------------------------------------------------------------------------
(* upstream.rs: the translation of one answer *)

Translation == [decoder |-> Decoder, pending |-> <<>>, started |-> FALSE,
                finish_reason |-> "", usage |-> <<>>, finished |-> FALSE,
                reported_finish |-> FALSE]

Pushed(tr, items) == [tr EXCEPT !.pending = @ \o items]

\* The terminal event, from whatever the stream established.
FinishEvent(tr) ==
    Pushed([tr EXCEPT !.reported_finish = TRUE],
           << [kind |-> "finished", usage |-> IF tr.usage = <<>> THEN NoUsage ELSE tr.usage[1],
               reason |-> IF tr.finish_reason = "" THEN "length" ELSE tr.finish_reason] >>)

\* The end of the body, or of the answer: a finish unless one was reported.
Ended(tr) ==
    LET over == [tr EXCEPT !.finished = TRUE]
    IN IF tr.reported_finish THEN over ELSE FinishEvent(over)

\* An event for a text that is not empty.
Said(kind, text) == IF text = <<>> THEN <<>> ELSE << [kind |-> kind, text |-> text] >>

AbsorbDelta(tr, choice) ==
    Pushed(tr, Said("content", choice.content) \o Said("reasoning", choice.reasoning)
               \o [i \in DOMAIN choice.tools |-> [kind |-> "tool", text |-> choice.tools[i]]])

AbsorbChoice(tr, choice) ==
    [Pushed(AbsorbDelta(tr, choice), Said("content", choice.text)) EXCEPT
        !.finish_reason = IF choice.finish_reason = "" THEN @ ELSE choice.finish_reason]

\* One decoded event: the end, not JSON, an error, or a chunk.
Absorb(tr, data) ==
    IF data = <<"[DONE]">> THEN Ended(tr)
    ELSE IF JsonOf(data) = <<>> THEN tr
    ELSE LET chunk == JsonOf(data)[1] IN
      IF chunk.error # <<>>
      THEN Pushed([tr EXCEPT !.finished = TRUE, !.reported_finish = TRUE],
                  << UpstreamError(chunk.error[1]) >>)
      ELSE LET opened == IF tr.started THEN tr
                         ELSE Pushed([tr EXCEPT !.started = TRUE], << [kind |-> "started"] >>)
               counted == IF chunk.usage = <<>> THEN opened
                          ELSE [opened EXCEPT !.usage = << ParseUsage(chunk.usage[1]) >>]
               timed == IF chunk.timings = <<>> THEN counted
                        ELSE Pushed(counted, << [kind |-> "timings",
                                                 said |-> ParseTimings(chunk.timings[1])] >>)
           IN IF chunk.choice = <<>> THEN timed ELSE AbsorbChoice(timed, chunk.choice[1])

\* Some(Ok(bytes)): every frame that is whole now is absorbed.
Received(tr, chunk) ==
    LET decoder == Feed(tr.decoder, chunk)
    IN IF decoder.poisoned
       THEN Pushed([tr EXCEPT !.finished = TRUE, !.decoder = decoder],
                   << [kind |-> "failed", error |-> "generation_failed"] >>)
       ELSE FoldLeft(Absorb, [tr EXCEPT !.decoder = [decoder EXCEPT !.ready = <<>>]],
                     decoder.ready)

\* The symbols of a frame as the engine writes it: a comment, or its data.
Written(frame) ==
    (IF frame.data = <<>> THEN <<":">> ELSE <<"data:">> \o frame.data[1])
    \o (IF frame.ends = "crlf" THEN <<CR, LF, CR, LF>>
        ELSE IF frame.ends = "lf" THEN <<LF, LF>> ELSE <<>>)

----------------------------------------------------------------------------

UpstreamInit ==
    /\ call \in Calls
    /\ sent = <<>> /\ replies = <<>>
    /\ wire = <<>> /\ state = Translation /\ delivered = <<>>
    /\ phase = "idle" /\ cancelled = FALSE /\ halved = FALSE

\* One of the small calls, which keeps its answer.
Asks(method, path, body, reply) ==
    /\ phase = "idle" /\ method \notin DOMAIN replies
    /\ sent' = sent @@ (method :> [path |-> path, body |-> body])
    /\ replies' = replies @@ (method :> reply)
    /\ UNCHANGED <<call, wire, state, delivered, phase, cancelled, halved>>

CountPromptTokens ==
    Asks("count", IF call.request.chat THEN "/v1/chat/completions/input_tokens"
                  ELSE "/tokenize",
         CountBody(call.request), Answered(call.counted, CountedTokens(call.counted.payload)))

Props == Asks("props", "/props", <<>>,
              Answered(call.props, WindowFromProps(call.props.payload)))

EngineCounters == Asks("metrics", "/metrics", <<>>, CountersAnswered(call.metrics))

\* A refusal before the stream is an ordinary error.
Generate ==
    /\ phase = "idle"
    /\ sent' = sent @@ ("generate" :> [path |-> GenerationPath(call.request),
                                      body |-> BuildRequestBody(call.request)])
    /\ IF call.opened.status = "ok"
       THEN /\ phase' = "streaming"
            /\ wire' = FlattenSeq([i \in DOMAIN call.frames |-> Written(call.frames[i])])
            /\ UNCHANGED replies
       ELSE /\ phase' = "ended"
            /\ replies' = replies @@ ("generate" :> Answered(call.opened, <<>>))
            /\ UNCHANGED wire
    /\ UNCHANGED <<call, state, delivered, cancelled, halved>>

\* The gateway polls and an item is pending.
Pop ==
    /\ phase = "streaming" /\ state.pending # <<>>
    /\ delivered' = Append(delivered, Head(state.pending))
    /\ state' = [state EXCEPT !.pending = Tail(@)]
    /\ UNCHANGED <<call, sent, replies, wire, phase, cancelled, halved>>

\* The gateway polls and nothing is left, or nobody is.
Over ==
    /\ phase = "streaming" /\ state.pending = <<>>
    /\ state.finished \/ cancelled
    /\ phase' = "ended"
    /\ UNCHANGED <<call, sent, replies, wire, state, delivered, cancelled, halved>>

Reading == phase = "streaming" /\ state.pending = <<>> /\ ~state.finished /\ ~cancelled

ReadBytes(n) ==
    /\ Reading /\ n \in 1..Len(wire)
    /\ state' = Received(state, SubSeq(wire, 1, n))
    /\ wire' = SubSeq(wire, n + 1, Len(wire))
    /\ halved' = (halved \/ (n < Len(wire) /\ wire[n] = Lead))
    /\ UNCHANGED <<call, sent, replies, delivered, phase, cancelled>>

ReadError ==
    /\ Reading
    /\ state' = Pushed([state EXCEPT !.finished = TRUE], << TransportError("broken") >>)
    /\ UNCHANGED <<call, sent, replies, wire, delivered, phase, cancelled, halved>>

\* The body ends, at the end of what was written or before it.
ReadEnd ==
    /\ Reading
    /\ state' = Ended(state)
    /\ UNCHANGED <<call, sent, replies, wire, delivered, phase, cancelled, halved>>

Cancel ==
    /\ phase = "streaming" /\ ~cancelled
    /\ cancelled' = TRUE
    /\ UNCHANGED <<call, sent, replies, wire, state, delivered, phase, halved>>

UpstreamNext ==
    \/ CountPromptTokens \/ Props \/ EngineCounters \/ Generate
    \/ Pop \/ Over \/ ReadError \/ ReadEnd \/ Cancel
    \/ \E n \in 1..Len(wire) : ReadBytes(n)

UpstreamSpec == UpstreamInit /\ [][UpstreamNext]_uvars

----------------------------------------------------------------------------
(* What the client promises *)

Items == delivered \o state.pending

Terminal(item) == item.kind \in {"finished", "failed"}

\* The frames that have wholly arrived.
Arrived ==
    LET read == Len(FlattenSeq([i \in DOMAIN call.frames |-> Written(call.frames[i])])) - Len(wire)
        Upto(k) == Len(FlattenSeq([i \in 1..k |-> Written(call.frames[i])]))
    IN IF phase = "idle" THEN {}
       ELSE {k \in DOMAIN call.frames : Upto(k) <= read /\ call.frames[k].ends # "never"}

\* What the frames that have arrived say, with no socket in between.
Meant ==
    FoldLeft(Absorb, Translation,
             FlattenSeq([k \in 1..Cardinality(Arrived) |-> call.frames[k].data]))

\* However the socket cuts the engine's answer into pieces ("Chunk boundaries
\* are meaningless", sse.rs), the events are those of the frames that have
\* arrived whole, in order, with the ending of a body that stops or fails put
\* after them.  A frame over the limit may take those read with it along.  Not
\* claimed for a piece that ends inside a character.  And what was read can be
\* written again without losing a byte (sse.rs, encode_data).
ChunkingIsInvisible ==
    /\ \A k \in Arrived : LET data == call.frames[k].data IN
           data # <<>> => Feed(Decoder, EncodeData(data[1])).ready = data
    /\ ~halved =>
        IF state.finished /\ ~Meant.finished
        THEN /\ Terminal(Last(Items))
             /\ IsPrefix(Front(Items), Meant.pending)
             /\ ~state.decoder.poisoned => Front(Items) = Meant.pending
        ELSE Items = Meant.pending

\* The gateway is told of one beginning and one ending, in that order, and the
\* ending is true: a stream nobody cancelled never just stops, "stop" is what
\* the engine said and never inferred (finish_event), and the usage is the
\* engine's wherever it arrived before the end.
EndingIsTold ==
    /\ \A i \in DOMAIN Items : Terminal(Items[i]) => i = Len(Items)
    /\ \A i \in DOMAIN Items : Items[i].kind = "started" => i = 1
    /\ phase = "ended" /\ ~cancelled /\ call.opened.status = "ok" =>
           Items # <<>> /\ Terminal(Last(Items))
    /\ Items # <<>> /\ Last(Items).kind = "finished" =>
           LET last == Last(Items)
               Has(word) == \E k \in Arrived : call.frames[k].data = << <<word>> >>
           IN /\ last.reason \in {"stop", "tool_calls"} => Has(last.reason)
              /\ ~halved /\ Has("usage") => last.usage = ParseUsage(call.usage)

\* The prompt that was counted is the prompt that is generated from: the same
\* messages and the same tools ("Tool declarations are part of the count",
\* count_prompt_tokens), so a prompt that fits by the count fits the engine;
\* and an overlong one keeps its numbers in the error.
CountedIsGenerated ==
    /\ {"count", "generate"} \subseteq DOMAIN sent =>
           LET counted == sent["count"].body  generated == sent["generate"].body
           IN IF ~call.request.chat THEN counted.content = generated.prompt
              ELSE /\ counted.messages = generated.messages
                   /\ ("tools" \in DOMAIN counted) = ("tools" \in DOMAIN generated)
                   /\ "tools" \in DOMAIN counted => counted.tools = generated.tools
    /\ "generate" \in DOMAIN replies /\ call.opened.status = "refused" =>
           (replies["generate"].error = "context_overflow" <=>
               call.opened.payload.n_ctx # <<>> /\ call.opened.payload.n_ctx[1] > 0
               /\ call.opened.payload.type = "exceed_context_size_error")

\* Refuted: "A split multi-byte character across chunks is handled by holding
\* the partial frame" (sse.rs, feed).  No text the gateway is given holds a
\* replacement character the engine did not write.
SplitCharactersSurvive ==
    \A i \in DOMAIN Items :
        Items[i].kind \in {"content", "reasoning", "tool"} =>
            \A j \in DOMAIN Items[i].text : Items[i].text[j] # Replaced
=============================================================================

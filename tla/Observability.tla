---------------------------- MODULE Observability ----------------------------
(***************************************************************************)
(* What the gateway tells of itself while it works: the counters a         *)
(* finished generation adds to (metrics.rs), the snapshot GET /metrics     *)
(* takes of them, the feed of finished generations GET /api/v1/events      *)
(* streams (control.rs) and the in-flight gauge of the middleware (lib.rs).*)
(*                                                                         *)
(* The counters are relaxed atomics with no lock around them, so every     *)
(* fetch_add and every load is a step of its own and a snapshot is taken   *)
(* while generations are being recorded.  (The steps of one thread are     *)
(* interleaved in program order; the reordering a relaxed ordering would   *)
(* also allow on some processors is not modelled.)                         *)
(***************************************************************************)
EXTENDS Integers, Sequences, FiniteSets, SequencesExt, FiniteSetsExt, TLC

CONSTANTS
    Requests,       \* the requests being served
    Workloads,      \* sets of measurements generations may end with
    Watchers,       \* clients of the event feed
    Backlog,        \* EVENT_BACKLOG
    Shares,         \* quantiles asked for, in percent
    MaxSnapshots

VARIABLES
    focus,          \* the tally whose reading this behaviour follows
    ending,         \* the measurements of this behaviour's generations
    count,          \* counter -> value
    recording,      \* request -> atomic updates its record still has to make
    served,         \* request -> "idle" | "serving" | "done"
    finished,       \* history: the records made, in the order they began
    snapshot,       \* counters read so far by the snapshot being taken
    toRead,         \* counters it still has to read; <<<<"idle">>>> when none
    snapshots,
    sent,           \* events published
    watcher         \* watcher -> [next, told, open]; next = 0: not subscribed

obsVars == <<focus, ending, count, recording, served, finished, snapshot, toRead, snapshots, sent, watcher>>

-----------------------------------------------------------------------------
EndpointNames == {"chat_completions", "completions"}
OutcomeNames == {"ok", "client_error", "server_error", "busy"}
FinishReasons == <<"stop", "length", "tool_calls", "error", "cancelled">>
TokenKinds == <<"prompt", "completion", "cached", "prefilled", "decoded">>
BandNames == <<"interactive", "bulk">>
\* outcome_of: a 503 is the gateway being busy, not failing.
OutcomeOf(status) == CASE status = 503 -> "busy"
                       [] status \in 200..299 -> "ok"
                       [] status \in 400..499 -> "client_error"
                       [] OTHER -> "server_error"

LATENCY_BOUNDS_MS == <<50, 100, 250, 500, 1000, 2500, 5000, 10000, 30000, 60000, 120000>>
BUCKETS == Len(LATENCY_BOUNDS_MS) + 1
Bucket(k) == ToString(k)
BucketFor(ms) == Cardinality({k \in DOMAIN LATENCY_BOUNDS_MS : LATENCY_BOUNDS_MS[k] < ms}) + 1

Add(key, n) == [key |-> key, op |-> "add", n |-> n]
FetchMax(key, n) == [key |-> key, op |-> "max", n |-> n]
ObserveBucketFirst(name, ms) ==
    <<Add(<<name, Bucket(BucketFor(ms))>>, 1), Add(<<name, "count">>, 1),
      Add(<<name, "total">>, ms), FetchMax(<<name, "max">>, ms)>>
\* Tally::observe, in its order: the count before the bucket.
Observe(name, ms) ==
    <<Add(<<name, "count">>, 1), Add(<<name, "total">>, ms), FetchMax(<<name, "max">>, ms),
      Add(<<name, Bucket(BucketFor(ms))>>, 1)>>
\* Tally::read, in its order: the buckets before the count.
Read(name) == [k \in 1..BUCKETS |-> <<name, Bucket(k)>>]
                 \o <<<<name, "count">>, <<name, "total">>, <<name, "max">>>>

SatSub(a, b) == IF a > b THEN a - b ELSE 0
IfSome(opt, Then(_)) == IF opt = <<>> THEN <<>> ELSE Then(opt[1])

\* The updates of one finished generation, in order.
RecordGeneration(r) ==
    <<Add(<<"generations">>, 1),
      Add(<<"finish", IF r.finish = <<>> THEN "cancelled" ELSE r.finish[1]>>, 1),
      Add(<<"tokens", "prompt">>, r.prompt), Add(<<"tokens", "completion">>, r.completion),
      Add(<<"tokens", "cached">>, r.cached)>>
        \o Observe("queue_wait", r.queueWait)
        \o IfSome(r.band, LAMBDA b : <<Add(<<"band", b>>, 1)>> \o Observe("wait_" \o b, r.queueWait))
        \o IfSome(r.ttft, LAMBDA t : Observe("time_to_first_token", t))
        \o IfSome(r.prefill, LAMBDA p : Append(Observe("prefill", p),
              Add(<<"tokens", "prefilled">>, SatSub(r.prompt, r.cached))))
        \o IfSome(r.decode, LAMBDA d : Append(Observe("decode", d),
              Add(<<"tokens", "decoded">>, r.completion)))

\* Metrics::snapshot reads the counters in this order.
SnapshotReads ==
    <<<<"in_flight">>, <<"generations">>>>
        \o [k \in DOMAIN FinishReasons |-> <<"finish", FinishReasons[k]>>]
        \o [k \in DOMAIN TokenKinds |-> <<"tokens", TokenKinds[k]>>]
        \o FlattenSeq([k \in DOMAIN BandNames |->
              <<<<"band", BandNames[k]>>>> \o Read("wait_" \o BandNames[k])])
        \o Read("queue_wait") \o Read("time_to_first_token") \o Read("prefill") \o Read("decode")
Tallies == {"queue_wait", "wait_interactive", "wait_bulk", "time_to_first_token", "prefill",
            "decode"}

\* What is said of a tally depends on no other counter: a behaviour follows the
\* reading of one of them, and of those of its counters some record touches.
TouchedKeys == {<<"in_flight">>} \cup UNION {{u.key : u \in ToSet(RecordGeneration(r))} : r \in ending}
NewMetrics == [k \in ToSet(SnapshotReads) |-> 0]

\* What a snapshot s says of a tally.
At(s, key) == IF key \in DOMAIN s THEN s[key] ELSE 0
Cumulative(s, name, k) == MapThenSumSet(LAMBDA j : At(s, <<name, Bucket(j)>>), 1..k)
MeanMs(s, name) ==
    IF At(s, <<name, "count">>) = 0 THEN <<>>
    ELSE <<At(s, <<name, "total">>) \div At(s, <<name, "count">>)>>
QuantileTarget(s, name, share) == (At(s, <<name, "count">>) * share + 99) \div 100
QuantileMs(s, name, share) ==
    LET first == {k \in 1..BUCKETS : Cumulative(s, name, k) >= QuantileTarget(s, name, share)}
    IN  IF At(s, <<name, "count">>) = 0 \/ first = {} \/ Min(first) = BUCKETS THEN <<>>
        ELSE <<LATENCY_BOUNDS_MS[Min(first)]>>
Rate(tokens, ms) == IF ms > 0 /\ tokens > 0 THEN <<(tokens * 1000) \div ms>> ELSE <<>>
PrefillTokensPerSecond(s) == Rate(At(s, <<"tokens", "prefilled">>), At(s, <<"prefill", "total">>))
DecodeTokensPerSecond(s) == Rate(At(s, <<"tokens", "decoded">>), At(s, <<"decode", "total">>))

-----------------------------------------------------------------------------
(* The middleware: paths that only watch are not counted.                  *)
MonitoringPaths == {"/health", "/version", "/props", "/metrics", "/api/v1/metrics",
                    "/api/v1/system", "/api/v1/gateway", "/api/v1/requests", "/api/v1/logs",
                    "/api/v1/events"}
IsMonitoring(path) == path \in MonitoringPaths

-----------------------------------------------------------------------------
ObsTypeOK ==
    /\ DOMAIN count = ToSet(SnapshotReads) /\ \A k \in DOMAIN count : count[k] \in Nat
    /\ DOMAIN recording = Requests
    /\ served \in [Requests -> {"idle", "serving", "done"}]
    /\ DOMAIN snapshot \subseteq ToSet(SnapshotReads)
    /\ sent \in Nat /\ Len(finished) = sent
    /\ \A w \in Watchers : watcher[w].next \in 0..(sent + 1)

ObsInit ==
    /\ ending \in Workloads
    /\ focus \in {name \in Tallies : \E k \in TouchedKeys : k[1] = name}
    /\ count = NewMetrics
    /\ recording = [r \in Requests |-> <<>>] /\ served = [r \in Requests |-> "idle"]
    /\ finished = <<>> /\ snapshot = <<>> /\ toRead = <<<<"idle">>>> /\ snapshots = 0
    /\ sent = 0
    /\ watcher = [w \in Watchers |-> [next |-> 0, told |-> <<>>, open |-> FALSE, from |-> 0]]

\* A request that does not only watch enters the gauge; the guard moves into
\* the response's body.
EnterRequest(r) ==
    /\ served[r] = "idle" /\ ~IsMonitoring("/v1/chat/completions")
    /\ served' = [served EXCEPT ![r] = "serving"]
    /\ count' = [count EXCEPT ![<<"in_flight">>] = @ + 1]
    /\ UNCHANGED <<focus, ending, recording, finished, snapshot, toRead, snapshots, sent, watcher>>

\* The generation is over: its event is published, then it is counted.
Publish(r, record) ==
    /\ served[r] = "serving" /\ recording[r] = <<>>
    /\ ~\E k \in DOMAIN finished : finished[k].by = r
    /\ finished' = Append(finished, [by |-> r, record |-> record])
    /\ sent' = sent + 1
    /\ recording' = [recording EXCEPT ![r] = RecordGeneration(record)]
    /\ UNCHANGED <<focus, ending, count, served, snapshot, toRead, snapshots, watcher>>

\* One atomic update of a record.
Update(r) ==
    /\ recording[r] # <<>>
    /\ LET u == Head(recording[r])
       IN  count' = [count EXCEPT ![u.key] = IF u.op = "add" THEN @ + u.n
                                             ELSE IF @ < u.n THEN u.n ELSE @]
    /\ recording' = [recording EXCEPT ![r] = Tail(@)]
    /\ UNCHANGED <<focus, ending, served, finished, snapshot, toRead, snapshots, sent, watcher>>

\* The body ended, or the client left and it was dropped: InFlightGuard::drop.
BodyDone(r) ==
    /\ served[r] = "serving" /\ recording[r] = <<>>
    /\ served' = [served EXCEPT ![r] = "done"]
    /\ count' = [count EXCEPT ![<<"in_flight">>] = SatSub(@, 1)]
    /\ UNCHANGED <<focus, ending, recording, finished, snapshot, toRead, snapshots, sent, watcher>>

\* GET /metrics and GET /api/v1/metrics.
StartSnapshot ==
    /\ toRead = <<<<"idle">>>> /\ snapshots < MaxSnapshots
    /\ toRead' = SelectSeq(SnapshotReads, LAMBDA k : k \in TouchedKeys /\ k[1] = focus)
    /\ snapshot' = <<>> /\ snapshots' = snapshots + 1
    /\ UNCHANGED <<focus, ending, count, recording, served, finished, sent, watcher>>

ReadCounter ==
    /\ toRead # <<>> /\ toRead # <<<<"idle">>>>
    /\ snapshot' = snapshot @@ (Head(toRead) :> count[Head(toRead)])
    /\ toRead' = IF Len(toRead) = 1 THEN <<<<"idle">>>> ELSE Tail(toRead)
    /\ UNCHANGED <<focus, ending, count, recording, served, finished, snapshots, sent, watcher>>

\* GET /api/v1/events: a receiver sees what is sent after it subscribed.
Subscribe(w) ==
    /\ watcher[w].next = 0
    /\ watcher' = [watcher EXCEPT ![w] = [next |-> sent + 1, told |-> <<>>, open |-> TRUE,
                                          from |-> sent + 1]]
    /\ UNCHANGED <<focus, ending, count, recording, served, finished, snapshot, toRead, snapshots, sent>>

\* The oldest event the channel still holds.
Oldest == IF sent > Backlog THEN sent - Backlog + 1 ELSE 1

\* The next event, or how many were missed when the watcher fell behind.
Receive(w) ==
    /\ watcher[w].open /\ watcher[w].next <= sent
    /\ watcher' = IF watcher[w].next >= Oldest
                  THEN [watcher EXCEPT
                          ![w].told = Append(@, [what |-> "event", n |-> watcher[w].next]),
                          ![w].next = @ + 1]
                  ELSE [watcher EXCEPT
                          ![w].told = Append(@, [what |-> "missed",
                                                 n |-> Oldest - watcher[w].next]),
                          ![w].next = Oldest]
    /\ UNCHANGED <<focus, ending, count, recording, served, finished, snapshot, toRead, snapshots, sent>>

\* The client goes away, or the gateway is shutting down.
StreamEnds(w) ==
    /\ watcher[w].open
    /\ watcher' = [watcher EXCEPT ![w].open = FALSE]
    /\ UNCHANGED <<focus, ending, count, recording, served, finished, snapshot, toRead, snapshots, sent>>

ObsNext ==
    \/ \E r \in Requests : \/ EnterRequest(r) \/ Update(r) \/ BodyDone(r)
                           \/ \E record \in ending : Publish(r, record)
    \/ StartSnapshot \/ ReadCounter
    \/ \E w \in Watchers : Subscribe(w) \/ Receive(w) \/ StreamEnds(w)

ObsSpec == ObsInit /\ [][ObsNext]_obsVars

-----------------------------------------------------------------------------
Complete == snapshots > 0 /\ toRead = <<<<"idle">>>>

(***************************************************************************)
(* A snapshot taken in the middle of any number of recordings is still a   *)
(* histogram: its +Inf bucket never exceeds its count, and a quantile it   *)
(* answers holds - at least that share of the count it shows had finished  *)
(* within the bound.                                                       *)
(***************************************************************************)
SnapshotIsAHistogram ==
    Complete =>
        \A name \in Tallies :
           /\ Cumulative(snapshot, name, BUCKETS) <= At(snapshot, <<name, "count">>)
           /\ \A share \in Shares :
                 LET q == QuantileMs(snapshot, name, share)
                 IN  q # <<>> =>
                        MapThenSumSet(LAMBDA k : count[<<name, Bucket(k)>>],
                                      {k \in DOMAIN LATENCY_BOUNDS_MS : LATENCY_BOUNDS_MS[k] <= q[1]})
                           * 100 >= share * At(snapshot, <<name, "count">>)

(***************************************************************************)
(* When no recording is under way every finished generation - a client     *)
(* that walked away included - is counted once in each of its families,    *)
(* and the gauge counts the requests whose body is not yet delivered.      *)
(***************************************************************************)
QuiescentCountsAgree ==
    (\A r \in Requests : recording[r] = <<>>) =>
        LET sum(family, names) ==
                MapThenSumSet(LAMBDA k : count[<<family, names[k]>>], DOMAIN names)
        IN  /\ count[<<"generations">>] = Len(finished)
            /\ sum("finish", FinishReasons) = Len(finished)
            /\ count[<<"queue_wait", "count">>] = Len(finished)
            /\ sum("band", BandNames) = count[<<"wait_interactive", "count">>]
                                            + count[<<"wait_bulk", "count">>]
            /\ count[<<"tokens", "prefilled">>] <= count[<<"tokens", "prompt">>]
            /\ count[<<"tokens", "decoded">>] <= count[<<"tokens", "completion">>]
            /\ \A name \in Tallies : Cumulative(count, name, BUCKETS) = count[<<name, "count">>]
            /\ count[<<"in_flight">>] = Cardinality({r \in Requests : served[r] = "serving"})

(***************************************************************************)
(* The feed never skips silently: what a watcher was told - events and     *)
(* "missed" notices - accounts for every event sent since it subscribed,   *)
(* in order and each once, however far behind it fell.                     *)
(***************************************************************************)
FeedAccountsForEveryEvent ==
    \A w \in Watchers :
        LET told == watcher[w].told
            after(k) == watcher[w].from
                          + MapThenSumSet(LAMBDA j : IF told[j].what = "event" THEN 1 ELSE told[j].n,
                                          1..(k - 1))
        IN  /\ \A k \in DOMAIN told : told[k].what = "event" => told[k].n = after(k)
            /\ watcher[w].next # 0 => watcher[w].next = after(Len(told) + 1)
=============================================================================

------------------------------ MODULE Affinity ------------------------------
(***************************************************************************)
(* The router's session affinity book                                      *)
(* (crates/lightweight-router/src/affinity.rs, and lookup and              *)
(* settle_affinity of proxy.rs).                                           *)
(*                                                                         *)
(* Requests of several sessions look their deployment up when they are     *)
(* planned and settle it when they commit, with a whole attempt in         *)
(* between.  The book is one lock, but the time an operation works with is *)
(* read before the lock is taken.  Entries idle past the TTL go when they  *)
(* are looked up, in a sweep, or to make room; then the least recently     *)
(* used go.                                                                *)
(***************************************************************************)
EXTENDS Naturals, FiniteSets, TLC

CONSTANTS Keys,         \* affinity keys: a route and a session
          Deployments,
          Requests,     \* handlers that may run at the same time
          MaxEntries, Ttl,
          MaxTime,      \* bound on the clock
          MaxArrivals   \* bound on the requests made

AffinityAssumption ==
    /\ MaxEntries \in Nat \ {0} /\ Ttl \in Nat
    /\ MaxTime \in Nat /\ MaxArrivals \in Nat

None == "none"
NoEntry == [deployment |-> None, last_used |-> 0]

VARIABLES now,
          entries,     \* [Keys -> Entry]: NoEntry when the map has none
          evictions,   \* Evictions
          inserted,    \* entries the map was ever given
          request,     \* the requests
          sweeping,    \* the time the sweeper read, and whether it is about to sweep
          arrivals

vars == <<now, entries, evictions, inserted, request, sweeping, arrivals>>

Idle == [pc |-> "idle", key |-> None, t |-> 0, sticky |-> None, answered |-> None]

Update(r, fields) == request' = [request EXCEPT ![r] = fields @@ @]

Held(book) == {k \in Keys : book[k] # NoEntry}

\* AffinityBook::expired, with the saturating subtraction of Instants.
Expired(entry, t) == t > entry.last_used + Ttl

Live(book, t) == {k \in Held(book) : ~Expired(book[k], t)}

Only(book, keep) == [k \in Keys |-> IF k \in keep THEN book[k] ELSE NoEntry]

-----------------------------------------------------------------------------
(***************************************************************************)
(* insert.  An entry of the key is overwritten; otherwise room is made     *)
(* first, from the expired and then from the least recently used.          *)
(***************************************************************************)
\* The entries kept when n must go: those with the latest use.  Between equal
\* times the map's order decides, which is any.
KeptSets(book, held, n) ==
    {kept \in SUBSET held :
        /\ Cardinality(kept) = Cardinality(held) - n
        /\ \A k \in kept, g \in held \ kept : book[g].last_used <= book[k].last_used}

Insert(k, d, t) ==
    LET new == [deployment |-> d, last_used |-> t]
        held == Held(entries)
        left == IF Cardinality(held) >= MaxEntries THEN Live(entries, t) ELSE held
        over == IF Cardinality(left) >= MaxEntries
                THEN Cardinality(left) + 1 - MaxEntries ELSE 0
    IN IF entries[k] # NoEntry
       THEN /\ entries' = [entries EXCEPT ![k] = new]
            /\ UNCHANGED <<evictions, inserted>>
       ELSE \E kept \in KeptSets(entries, left, over) :
              /\ entries' = [Only(entries, kept) EXCEPT ![k] = new]
              /\ evictions' = [expired |-> evictions.expired + Cardinality(held) - Cardinality(left),
                               capacity |-> evictions.capacity + over]
              /\ inserted' = inserted + 1

\* establish_at: the first commit of a session stands.
Establish(k, d, t) ==
    IF entries[k] # NoEntry /\ ~Expired(entries[k], t)
    THEN /\ entries' = [entries EXCEPT ![k].last_used = t]
         /\ UNCHANGED <<evictions, inserted>>
    ELSE Insert(k, d, t)

-----------------------------------------------------------------------------
(***************************************************************************)
(* Requests.                                                               *)
(***************************************************************************)
Arrive(r, k) ==
    /\ request[r].pc = "idle"
    /\ arrivals < MaxArrivals
    /\ arrivals' = arrivals + 1
    /\ Update(r, [pc |-> "lookup", key |-> k, t |-> now])
    /\ UNCHANGED <<now, entries, evictions, inserted, sweeping>>

\* lookup_at: a live entry is used, an expired one removed.
Lookup(r) ==
    /\ request[r].pc = "lookup"
    /\ LET k == request[r].key
           t == request[r].t
           gone == entries[k] # NoEntry /\ Expired(entries[k], t)
       IN /\ entries' = [entries EXCEPT ![k] =
                            IF gone \/ @ = NoEntry THEN NoEntry ELSE [@ EXCEPT !.last_used = t]]
          /\ evictions' = IF gone THEN [evictions EXCEPT !.expired = @ + 1] ELSE evictions
          /\ Update(r, [pc |-> "planned", sticky |-> entries'[k].deployment])
    /\ UNCHANGED <<now, inserted, sweeping, arrivals>>

\* The walk ends with a 2xx from some deployment.  A request with a sticky
\* deployment that is answered elsewhere found it excluded or failing.
Answer(r, d) ==
    /\ request[r].pc = "planned"
    /\ Update(r, [pc |-> "settle", answered |-> d, t |-> now])
    /\ UNCHANGED <<now, entries, evictions, inserted, sweeping, arrivals>>

\* It ends with a refusal, a failure, or the client gone.
Refuse(r) ==
    /\ request[r].pc = "planned"
    /\ request' = [request EXCEPT ![r] = Idle]
    /\ UNCHANGED <<now, entries, evictions, inserted, sweeping, arrivals>>

Moves(r) == request[r].sticky # None /\ request[r].answered # request[r].sticky

\* settle_affinity: reassign or establish.
Settle(r) ==
    /\ request[r].pc = "settle"
    /\ IF Moves(r) THEN Insert(request[r].key, request[r].answered, request[r].t)
       ELSE Establish(request[r].key, request[r].answered, request[r].t)
    /\ request' = [request EXCEPT ![r] = Idle]
    /\ UNCHANGED <<now, sweeping, arrivals>>

-----------------------------------------------------------------------------
(***************************************************************************)
(* The sweeper, and the clock.                                             *)
(***************************************************************************)
SweepDue ==
    /\ ~sweeping.due
    /\ sweeping' = [due |-> TRUE, t |-> now]
    /\ UNCHANGED <<now, entries, evictions, inserted, request, arrivals>>

\* sweep_at.
Sweep ==
    /\ sweeping.due
    /\ LET left == Live(entries, sweeping.t)
       IN /\ entries' = Only(entries, left)
          /\ evictions' = [evictions EXCEPT
                !.expired = @ + Cardinality(Held(entries)) - Cardinality(left)]
    /\ sweeping' = [due |-> FALSE, t |-> 0]
    /\ UNCHANGED <<now, inserted, request, arrivals>>

Tick ==
    /\ now < MaxTime
    /\ now' = now + 1
    /\ UNCHANGED <<entries, evictions, inserted, request, sweeping, arrivals>>

Init ==
    /\ now = 0
    /\ entries = [k \in Keys |-> NoEntry]
    /\ evictions = [expired |-> 0, capacity |-> 0]
    /\ inserted = 0
    /\ request = [r \in Requests |-> Idle]
    /\ sweeping = [due |-> FALSE, t |-> 0]
    /\ arrivals = 0

Step(r) ==
    \/ \E k \in Keys : Arrive(r, k)
    \/ \E d \in Deployments : Answer(r, d)
    \/ Lookup(r) \/ Refuse(r) \/ Settle(r)

Next == (\E r \in Requests : Step(r)) \/ SweepDue \/ Sweep \/ Tick

Spec == Init /\ [][Next]_vars

-----------------------------------------------------------------------------
(***************************************************************************)
(* Properties.                                                             *)
(***************************************************************************)
\* Every variable has its type, the book never holds more than max_entries,
\* whatever is inserted by whom, and every entry it was given is in it or was
\* counted out of it, once.
TypeOK ==
    /\ now \in 0..MaxTime
    /\ entries \in [Keys -> [deployment : Deployments \cup {None}, last_used : 0..MaxTime]]
    /\ Cardinality(Held(entries)) <= MaxEntries
    /\ inserted = Cardinality(Held(entries)) + evictions.expired + evictions.capacity
    /\ \A r \in Requests : request[r].pc \in {"idle", "lookup", "planned", "settle"}

\* A session stays where it is.  Its live entry is moved only by a request
\* that found the session's deployment wanting, so that of requests that race
\* for a new session the first to commit wins; and it leaves the book only for
\* a new one, when the book is full of entries that are not expired either,
\* and only if no entry that stays was used longer ago.  The book never holds
\* more than max_entries, whatever is inserted by whom.
SessionsStay ==
    /\ Cardinality(Held(entries')) <= MaxEntries
    /\ \A k \in Live(entries, now) :
         /\ entries'[k].deployment \notin {entries[k].deployment, None} =>
              \E r \in Requests : request[r].pc = "settle" /\ request[r].key = k /\ Moves(r)
         /\ entries'[k] = NoEntry =>
              \E r \in Requests :
                /\ request[r].pc = "settle"
                /\ entries[request[r].key] = NoEntry
                /\ Cardinality(Live(entries, request[r].t)) = MaxEntries
                /\ \A g \in Held(entries) :
                     entries'[g] # NoEntry => entries[k].last_used <= entries[g].last_used
=============================================================================

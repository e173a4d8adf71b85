---------------------------- MODULE RateLimiter -----------------------------
(***************************************************************************)
(* The live request limits of the API keys                                 *)
(* (crates/lightweight-gateway/src/limits.rs, with admit_request of        *)
(* routes.rs and AuthPolicy::identify of auth.rs).                         *)
(*                                                                         *)
(* A request is identified against the policy, and a key with a limit is   *)
(* metered: a deque of instants for the rolling minute and a counter for   *)
(* the calendar day.  Both clocks are read before the lock, so a request   *)
(* may be entered after a later one.  Time is in ticks; several ticks make *)
(* a second, so that what is cut to whole seconds is seen to be cut.       *)
(***************************************************************************)
EXTENDS Integers, Sequences, FiniteSets

CONSTANTS Calls,       \* the requests that may be in the handler at once
          Second,      \* ticks in a second
          Minute,      \* the rolling window, in ticks
          Day,         \* a day, in ticks
          PerMinute,   \* RateLimit.per_minute, 0: none
          PerDay,      \* RateLimit.per_day, 0: none
          MaxTime      \* bound on the clock

LimiterAssumption ==
    /\ Second \in Nat \ {0} /\ Minute \in Nat \ {0} /\ Day \in Nat \ {0}
    /\ PerMinute \in Nat /\ PerDay \in Nat /\ MaxTime \in Nat

VARIABLES time,      \* both clocks
          entry,     \* the requests: identified, or waiting for the lock
          window,    \* Usage.recent
          day,       \* Usage.day
          count,     \* Usage.day_count
          total,     \* Usage.total
          stamps,    \* history: the clock readings of the admitted requests
          stale,     \* history: a request was entered after its clock reading
          promise    \* history: the last refusal said a retry at this time is admitted

limitVars == <<time, entry, window, day, count, total, stamps, stale, promise>>

None == -1

Away == [pc |-> "away", now |-> 0, today |-> 0]

\* AuthPolicy::identify: the header of a request against the static key, then
\* against the hashes of the named ones.
Identify(required, header, staticKey, named) ==
    IF ~required THEN "anonymous"
    ELSE IF header = "none" THEN "missing"
    ELSE IF header = staticKey THEN "anonymous"
    ELSE IF header \in named THEN "named"
    ELSE "invalid"

\* AuthPolicy::build: a credential makes the policy, and without one only a
\* loopback bind may go on.
BuildPolicy(exposed, hasStatic, named) ==
    IF hasStatic \/ named # {} THEN "required"
    ELSE IF exposed THEN "needs_key"
    ELSE "disabled"

\* admit reads both clocks first.
Arrive(r) ==
    /\ entry[r].pc = "away"
    /\ entry' = [entry EXCEPT ![r] = [pc |-> "reading", now |-> time, today |-> time \div Day]]
    /\ UNCHANGED <<time, window, day, count, total, stamps, stale, promise>>

\* The front of the deque is pruned while it is a minute old.
Young(w, now) == {i \in 1..Len(w) : now - w[i] < Minute}
Pruned(w, now) ==
    IF Young(w, now) = {} THEN <<>>
    ELSE SubSeq(w, CHOOSE i \in Young(w, now) : \A j \in Young(w, now) : i <= j, Len(w))

\* As Refused, but the ceiling is passed by one.
RefusedLate(w, now, perMinute) == perMinute # 0 /\ Len(w) > perMinute

\* The minute is full.
Refused(w, now, perMinute) == perMinute # 0 /\ Len(w) >= perMinute

AtLeastOne(n) == IF n > 1 THEN n ELSE 1
Elapsed(now, then) == IF now > then THEN now - then ELSE 0

\* Throttled.retry_after, in whole seconds.
RetryMinute(w, now) == AtLeastOne((Minute - Elapsed(now, Head(w))) \div Second)
RetryDay == AtLeastOne((Day \div Second) - ((time \div Second) % (Day \div Second)))

\* The rest of admit, under the lock.
Enter(r) ==
    /\ entry[r].pc = "reading"
    /\ LET now == entry[r].now
           today == entry[r].today
           w == Pruned(window, now)
           c == IF day = today THEN count ELSE 0
       IN /\ day' = today
          /\ IF Refused(w, now, PerMinute)
             THEN /\ window' = w /\ count' = c
                  /\ promise' = time + Second * RetryMinute(w, now)
                  /\ UNCHANGED <<total, stamps>>
             ELSE IF PerDay # 0 /\ c >= PerDay
             THEN /\ window' = w /\ count' = c
                  /\ promise' = time + Second * RetryDay
                  /\ UNCHANGED <<total, stamps>>
             ELSE /\ window' = Append(w, now)
                  /\ count' = c + 1
                  /\ total' = total + 1
                  /\ stamps' = Append(stamps, now)
                  /\ promise' = None
    /\ stale' = (stale \/ time # entry[r].now)
    /\ entry' = [entry EXCEPT ![r] = Away]
    /\ UNCHANGED time

Tick ==
    /\ time < MaxTime
    /\ time' = time + 1
    /\ UNCHANGED <<entry, window, day, count, total, stamps, stale, promise>>

\* forget, when the key is revoked: the next use of the id starts anew.
Forget ==
    /\ window # <<>>
    /\ window' = <<>> /\ day' = 0 /\ count' = 0 /\ total' = 0
    /\ stamps' = <<>> /\ promise' = None
    /\ UNCHANGED <<time, entry, stale>>

\* snapshot, for the panel.
InLastMinute(now) == Cardinality({i \in 1..Len(window) : Elapsed(now, window[i]) < Minute})

LimiterInit ==
    /\ time = 0
    /\ entry = [r \in Calls |-> Away]
    /\ window = <<>> /\ day = 0 /\ count = 0 /\ total = 0
    /\ stamps = <<>> /\ stale = FALSE /\ promise = None

LimiterNext ==
    \/ Tick \/ Forget
    \/ \E r \in Calls : Arrive(r) \/ Enter(r)

LimiterSpec == LimiterInit /\ [][LimiterNext]_limitVars

-----------------------------------------------------------------------------
LimiterTypeOK ==
    /\ time \in 0..MaxTime
    /\ entry \in [Calls -> [pc : {"away", "reading"}, now : Nat, today : Nat]]
    /\ window \in Seq(0..MaxTime) /\ stamps \in Seq(0..MaxTime)
    /\ day \in Nat /\ count \in Nat /\ total \in Nat /\ promise \in Nat \cup {None}

Midnight(d) == d * Day

CountIn(s, from, to) == Cardinality({i \in 1..Len(s) : s[i] \in from..to})
Within(from, to) == CountIn(stamps, from, to)

\* Requests that were entered at the time they read admit at most per_minute of
\* any rolling minute and per_day of any day, refused ones count for nothing,
\* and the panel is shown exactly what was admitted.
CeilingsHold ==
    ~stale =>
        /\ PerMinute # 0 => \A t \in 0..time : Within(t, t + Minute - 1) <= PerMinute
        /\ PerDay # 0 => \A d \in 0..(time \div Day) :
                            Within(Midnight(d), Midnight(d) + Day - 1) <= PerDay
        /\ total = Len(stamps)
        /\ InLastMinute(time) = Within(time - Minute + 1, time)

\* However late requests are entered, a day's ceiling is not passed.
DayCeilingHolds ==
    PerDay # 0 => \A d \in 0..(time \div Day) :
                     Within(Midnight(d), Midnight(d) + Day - 1) <= PerDay

\* A request that comes when the last refusal told it to is admitted.
RetryIsAdmitted ==
    [][\A r \in Calls :
          (Enter(r) /\ promise # None /\ entry[r].now >= promise) => promise' = None]_limitVars
=============================================================================

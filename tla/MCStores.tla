------------------------------ MODULE MCStores ------------------------------
(***************************************************************************)
(* What is kept on disk and in memory beside the running models, on small  *)
(* instances.  A behaviour is about one part, and the parts share no       *)
(* state: the variables v1 to v17 are those of the part it is about, in    *)
(* the order its module declares them.                                     *)
(***************************************************************************)
EXTENDS Naturals, Sequences

VARIABLES part, v1, v2, v3, v4, v5, v6, v7, v8, v9, v10, v11, v12, v13, v14, v15,
          v16, v17

vars == <<part, v1, v2, v3, v4, v5, v6, v7, v8, v9, v10, v11, v12, v13, v14, v15,
          v16, v17>>

K == INSTANCE Store WITH
    KeyHandlers <- {"h"}, Commands <- {"c"}, KeyIds <- {"k1", "k2"},
    MaxChanges <- 3, MaxCrashes <- 1, MaxFaults <- 1,
    keyFile <- v1, change <- v2, policy <- v3, usage <- v4, running <- v5,
    drawn <- v6, budget <- v7, truth <- v8, overlapped <- v9, outside <- v10,
    gone <- v11,
    Handlers <- {"h1", "h2"}, Chats <- {"c1"}, MaxAsks <- 3, MaxClock <- 1,
    MaxDeaths <- 1,
    Start <- LET W == INSTANCE AtomicWrite IN
             {W!NoFile, W!FileOf([keep |-> TRUE, newer |-> TRUE]),
              W!FileOf([keep |-> FALSE, newer |-> FALSE])},
    settingsFile <- v1, chatFile <- v2, ask <- v3, now <- v4, left <- v5, wish <- v6,
    settled <- v7, known <- v8, raced <- v9

L == INSTANCE RateLimiter WITH
    Calls <- {"r1", "r2"}, Second <- 1, Minute <- 3, Day <- 5, PerMinute <- 2,
    PerDay <- 3, MaxTime <- 7,
    time <- v1, entry <- v2, window <- v3, day <- v4, count <- v5, total <- v6,
    stamps <- v7, stale <- v8, promise <- v9

D == INSTANCE Download WITH
    Fetchers <- {"f1", "f2"}, Chunks <- 2, Versions <- 1..2, Expected <- 1,
    Ranges <- TRUE, MaxTries <- 3, MaxBreaks <- 2,
    remote <- v1, inodes <- v2, part <- v3, dest <- v4, fetch <- v5, tries <- v6,
    breaks <- v7, together <- v8, checked <- v9

\* The instances are among those the proofs of the two modules are about.
ASSUME L!LimiterAssumption
ASSUME D!FetchAssumption

\* The names operators type: an id that is taken, in capitals, and a free one.
Upper == [stem |-> "m", n |-> 1, caps |-> TRUE]
Second == [stem |-> "m", n |-> 2, caps |-> FALSE]

\* The gateway beside a command, and the gateway alone with a fault.
C == INSTANCE Catalog WITH
    Gateway <- "gateway", Commands <- {"command"}, Stems <- {"m"}, Pinned <- {"m"},
    Versions <- 1..2, Typed <- {Upper}, MaxOps <- 2, MaxFaults <- 0,
    catalogFile <- v1, models <- v2, staged <- v3, store <- v4, alive <- v5, op <- v6,
    opsLeft <- v7, faultsLeft <- v8, disturbed <- v9

G == INSTANCE Catalog WITH
    Gateway <- "gateway", Commands <- {}, Stems <- {"m"}, Pinned <- {"m"},
    Versions <- 1..2, Typed <- {Upper, Second}, MaxOps <- 2, MaxFaults <- 1,
    catalogFile <- v1, models <- v2, staged <- v3, store <- v4, alive <- v5, op <- v6,
    opsLeft <- v7, faultsLeft <- v8, disturbed <- v9

I == INSTANCE Installation WITH
    Callers <- {"p1", "p2"}, MaxCalls <- 3,
    Archives <- {<< <<"b1", "llama-cli">>, <<"b1", "llama-server">>, <<"b1", "lib">> >>,
                 << <<"llama-server">>, <<"bin", "llama-cli">> >>,
                 << <<".", "llama-server">>, <<".", "lib">> >>,
                 << <<"b1", "llama-server">>, <<"b1", "..", "x">> >>,
                 << <<"b1", "llama-server">>, <<"/", "x">> >>,
                 << <<"b1", "bin", "llama-server">> >>},
    entries <- v1, engine <- v2, executable <- v3, archive <- v4, ensure <- v5,
    calls <- v6, broken <- v7,
    Updaters <- {"u1", "u2"}, Latest <- 2, MaxCrashes <- 1,
    bin <- v1, old <- v2, place <- v3, release <- v4, update <- v5, crashes <- v6,
    together <- v7

B == INSTANCE BenchRun WITH
    Benches <- {"a"}, Sweeps <- {"s", "t"}, Capacities <- {1, 2}, Samples <- 2,
    MaxInstances <- 2, MaxOthers <- 1,
    benches <- v1, engine <- v2, resident <- v3, instances <- v4, slots <- v5,
    holders <- v6, paused <- v7, managing <- v8, overlapped <- v9, others <- v10,
    saved <- v11, sweeps <- v12, calibration <- v13

\* What a panel may send: a save, one with a key, one back to the built-in
\* classifier, a removal, and one that is refused at the door.
Save == [op |-> "save", host |-> [loopback |-> TRUE, port |-> 1], sameOrigin |-> TRUE,
         pasted |-> "file", json |-> TRUE, ifMatch |-> TRUE, size |-> "ok",
         key |-> "none", provider |-> "jev", jev |-> <<[model |-> "ok", timeout |-> <<>>]>>]

S == INSTANCE ClassifierSettings WITH
    Handlers <- {"h1", "h2"},
    Sends <- {Save, [Save EXCEPT !.key = "k1"],
              [Save EXCEPT !.key = "k2", !.provider = "lightweight", !.jev = <<>>],
              [Save EXCEPT !.op = "remove"], [Save EXCEPT !.pasted = "old"]},
    Hand <- {[section |-> <<[provider |-> "jev",
                             jev |-> <<[model |-> "ok", timeout |-> 0, env |-> "TYPESAFE"]>>]>>,
              rest |-> 1]},
    First <- [file |-> [section |-> <<[provider |-> "lightweight", jev |-> <<>>]>>, rest |-> 0],
              keys |-> [a \in {"TYPESAFE"} |-> "none"]],
    Environment <- {}, Bound <- {[loopback |-> TRUE, port |-> 1]},
    MaxSends <- 2, MaxEdits <- 1, MaxFaults <- 1, MaxStarts <- 2,
    file <- v1, backup <- v2, keys <- v3, store <- v4, up <- v5, active <- v6,
    running <- v7, keyChanged <- v8, token <- v9, tokenFile <- v10, lock <- v11,
    handler <- v12, seen <- v13, sends <- v14, edits <- v15, faults <- v16, starts <- v17

-----------------------------------------------------------------------------
\* The variables a part does not use.
Off14 == v14 = 0 /\ v15 = 0 /\ v16 = 0 /\ v17 = 0
Off12 == v12 = 0 /\ v13 = 0 /\ Off14
Off10 == v10 = 0 /\ v11 = 0 /\ Off12
Off8 == v8 = 0 /\ v9 = 0 /\ Off10

MCInit ==
    \/ part = "keys" /\ K!KeyInit /\ Off12
    \/ part = "limits" /\ L!LimiterInit /\ Off10
    \/ part = "history" /\ K!HistoryInit /\ Off10
    \/ part = "download" /\ D!FetchInit /\ Off10
    \/ part = "catalogs" /\ C!CatalogInit /\ Off10
    \/ part = "catalog" /\ G!CatalogInit /\ Off10
    \/ part = "engine" /\ I!EngineInit /\ Off8
    \/ part = "update" /\ I!SelfUpdateInit /\ Off8
    \/ part = "bench" /\ B!BenchInit /\ Off14
    \/ part = "settings" /\ S!SettingsInit

Idle14 == UNCHANGED <<part, v14, v15, v16, v17>>
Idle12 == UNCHANGED <<v12, v13>> /\ Idle14
Idle10 == UNCHANGED <<v10, v11>> /\ Idle12
Idle8 == UNCHANGED <<v8, v9>> /\ Idle10

MCNext ==
    \/ part = "keys" /\ K!KeyNext /\ Idle12
    \/ part = "limits" /\ L!LimiterNext /\ Idle10
    \/ part = "history" /\ K!HistoryNext /\ Idle10
    \/ part = "download" /\ D!FetchNext /\ Idle10
    \/ part = "catalogs" /\ C!CatalogNext /\ Idle10
    \/ part = "catalog" /\ G!CatalogNext /\ Idle10
    \/ part = "engine" /\ I!EngineNext /\ Idle8
    \/ part = "update" /\ I!SelfUpdateNext /\ Idle8
    \/ part = "bench" /\ B!BenchNext /\ Idle14
    \/ part = "settings" /\ S!SettingsNext /\ UNCHANGED part

MCSpec == MCInit /\ [][MCNext]_vars

-----------------------------------------------------------------------------
\* The ceilings of a key hold, and the panel shows what was admitted.
CeilingsHold == part = "limits" => L!CeilingsHold

\* What was answered is what the files hold, through crashes and failed writes,
\* and what the program goes by: the keys and the policy made from them; the
\* conversations, and whether they are kept; and the router's settings, which
\* it can start from, says when it must be restarted for, and whose token file
\* holds the token it checks.
AnsweredIsOnDisk ==
    /\ part = "keys" => K!FileIsTheHistory /\ K!PolicyFollowsFile
    /\ part = "history" => K!AnsweredIsKept /\ K!OffIsHonoured
    /\ part = "settings" => S!SavedCanStart /\ S!RestartIsAnnounced /\ S!TokenFileIsLive

\* What is in place is what was verified: a download is the bytes its digest
\* was computed over, and an engine that ensure returns is whole.
PlacedIsVerified ==
    /\ part = "download" => D!PlacedIsVerified
    /\ part = "engine" => I!ReturnedIsWhole

\* The catalog is true: a name means one model, in every catalog that is held
\* or saved; a record that says verified has that file; and what a gateway
\* holds is what it saved.
CatalogIsTrue ==
    /\ part = "catalogs" => C!OneNameOneModel /\ C!VerifiedIsOnDisk /\ C!SavedIsHeld
    /\ part = "catalog" => G!OneNameOneModel /\ G!VerifiedIsOnDisk /\ G!SavedIsHeld

\* A benchmark that is saved measured one engine, unless a release overlapped a
\* load, and a fit that is kept has its run.
SavedIsOneEngine == part = "bench" => B!SavedIsOneEngine

\* No operation is half done: an update leaves every binary new or every binary
\* as it was, a save replaces the settings it was shown, a refused one replaces
\* nothing, and a conversation or a settings file saved again loses nothing.
NothingIsHalfDone ==
    [][/\ part = "update" => I!UpdateStepIsWhole
       /\ part = "settings" => S!SaveReplacesWhatWasSeen /\ S!RefusedChangesNothing
       /\ part = "history" => K!NothingIsForgotten]_vars
=============================================================================

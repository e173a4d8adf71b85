------------------------------- MODULE Store --------------------------------
(***************************************************************************)
(* The documents of a profile (crates/lightweight-store), each a file that *)
(* is replaced as in AtomicWrite: first the API keys, then conversations   *)
(* and settings.  The two halves share no state.                           *)
(***************************************************************************)
EXTENDS Naturals, Sequences, FiniteSets, Functions, TLC, AtomicWrite

(***************************************************************************)
(* The API keys: the file, the copy the running gateway checks requests    *)
(* against, and the live counters of each key                              *)
(* (crates/lightweight-store/src/api_keys.rs; the key handlers of          *)
(* lightweight-gateway/src/store_api.rs; refresh_keys of state.rs;         *)
(* admit_request of routes.rs; `hermes key` of lightweight-cli/src/lib.rs).*)
(*                                                                         *)
(* Every change reads the whole file, changes it and replaces it, on a     *)
(* blocking thread and without a lock.  A handler of the gateway then      *)
(* reloads the policy from the file; the command line does not, and is     *)
(* another process.  Either process may die between any two steps.         *)
(***************************************************************************)
CONSTANTS KeyHandlers, \* requests of the gateway that change keys
          Commands,    \* `hermes key` processes
          KeyIds,      \* ids that new_id may draw
          MaxChanges,  \* bound on the changes begun
          MaxCrashes,  \* bound on crashes of the gateway or of a command
          MaxFaults    \* bound on writes and renames that fail

Limits == {"unlimited", "limited"}

\* ApiKeysFile: the records by id; name, prefix and creation time are left out,
\* and a key is presented by its id, as its hash stands for it.
KeyFiles == UNION {[S -> Limits] : S \in SUBSET KeyIds}
NoKeys == [k \in {} |-> "unlimited"]

Writers == KeyHandlers \cup Commands

VARIABLES keyFile,    \* api-keys.json and its sibling
          change,     \* the change each writer is making
          policy,     \* AuthPolicy::Required.named of the running gateway
          usage,      \* keys with an entry in the RateLimiter
          running,    \* the gateway is up
          drawn,      \* ids new_id has given out
          budget,     \* [changes, crashes, faults] still allowed
          truth,      \* history: what the completed changes make of the keys
          overlapped, \* history: two changes of the file were under way at once
          outside,    \* history: a command changed the file since it was last reloaded
          gone        \* history: keys whose revocation a handler has answered

keyVars == <<keyFile, change, policy, usage, running, drawn, budget, truth,
             overlapped, outside, gone>>

NoChange == [pc |-> "idle", what |-> "none", key |-> "none", limit |-> "unlimited",
             keys |-> NoKeys, inode |-> NoInode]

Whats == {"create", "revoke", "set_limit"}

Set(w, fields) == change' = [change EXCEPT ![w] = fields @@ @]
Finish(w) == change' = [change EXCEPT ![w] = NoChange]

\* ApiKeyStore::read: a missing file is no keys, an unreadable one an error.
Read(f) == IF Exists(f) THEN Document(f) ELSE NoKeys
Readable(f) == ~Exists(f) \/ Decodes(f)

\* What create, revoke and set_limit make of the records they read.
Changed(keys, what, k, limit) ==
    CASE what = "create"    -> keys @@ (k :> limit)
      [] what = "revoke"    -> Restrict(keys, DOMAIN keys \ {k})
      [] what = "set_limit" -> [j \in DOMAIN keys |-> IF j = k THEN limit ELSE keys[j]]

\* A change is under way from its read to its answer.
Busy(w) == change[w].pc \notin {"idle", "read", "answer"}

-----------------------------------------------------------------------------
(***************************************************************************)
(* A change, step by step.                                                 *)
(***************************************************************************)
\* The head of create_key, revoke_key and set_key_limit: a caller that is not
\* authorized or not local, or a body that does not parse, ends here and
\* changes nothing.
BeginChange(w, what, k, limit) ==
    /\ change[w].pc = "idle"
    /\ w \in KeyHandlers => running
    /\ budget.changes > 0
    /\ what = "create" => k \notin drawn
    /\ what # "create" => k \in drawn
    /\ Set(w, [pc |-> "read", what |-> what, key |-> k, limit |-> limit])
    /\ drawn' = drawn \cup {k}
    /\ budget' = [budget EXCEPT !.changes = @ - 1]
    /\ UNCHANGED <<keyFile, policy, usage, running, truth, overlapped, outside, gone>>

CreateKey(w, k, limit) == BeginChange(w, "create", k, limit)
RevokeKey(w, k) == BeginChange(w, "revoke", k, "unlimited")
SetKeyLimit(w, k, limit) == w \in KeyHandlers /\ BeginChange(w, "set_limit", k, limit)

\* The read of the read-modify-write.  revoke and set_limit stop when the
\* record is not there, and write nothing.
ReadKeys(w) ==
    /\ change[w].pc = "read"
    /\ LET c == change[w]
           keys == Read(keyFile)
       IN IF ~Readable(keyFile) THEN Finish(w)
          ELSE IF c.what # "create" /\ c.key \notin DOMAIN keys
               THEN Finish(w)
          ELSE Set(w, [pc |-> "open", keys |-> Changed(keys, c.what, c.key, c.limit)])
    /\ overlapped' = (overlapped \/ \E v \in Writers \ {w} : Busy(v))
    /\ UNCHANGED <<keyFile, policy, usage, running, drawn, budget, truth, outside, gone>>

\* write_private: open and truncate the sibling ...
OpenSibling(w) ==
    /\ change[w].pc = "open"
    /\ keyFile' = OpenedTemp(keyFile)
    /\ Set(w, [pc |-> "write", inode |-> keyFile'.temp])
    /\ UNCHANGED <<policy, usage, running, drawn, budget, truth, overlapped, outside, gone>>

\* ... write the document into it ...
WriteSibling(w) ==
    /\ change[w].pc = "write"
    /\ keyFile' \in WriteOutcomes(keyFile, change[w].inode, change[w].keys)
    /\ Set(w, [pc |-> "rename"])
    /\ UNCHANGED <<policy, usage, running, drawn, budget, truth, overlapped, outside, gone>>

\* ... and rename it into place.  Another saver may have taken it away.
RenameSibling(w) ==
    /\ change[w].pc = "rename"
    /\ IF CanRename(keyFile)
       THEN LET c == change[w]
            IN /\ keyFile' = Renamed(keyFile)
               /\ truth' = Changed(truth, c.what, c.key, c.limit)
               /\ IF w \in KeyHandlers
                  THEN /\ Set(w, [pc |-> IF c.what = "revoke" THEN "forget" ELSE "list"])
                       /\ UNCHANGED outside
                  ELSE Finish(w) /\ outside' = TRUE
       ELSE /\ keyFile' = RenameFailed(keyFile)
            /\ Finish(w)
            /\ UNCHANGED <<truth, outside>>
    /\ UNCHANGED <<policy, usage, running, drawn, budget, overlapped, gone>>

\* The disk is full, or the rename is refused.
WriteFails(w) ==
    /\ budget.faults > 0
    /\ \/ change[w].pc = "write" /\ keyFile' = HalfWritten(keyFile, change[w].inode)
       \/ change[w].pc = "rename" /\ keyFile' = RenameFailed(keyFile)
    /\ Finish(w)
    /\ budget' = [budget EXCEPT !.faults = @ - 1]
    /\ UNCHANGED <<policy, usage, running, drawn, truth, overlapped, outside, gone>>

-----------------------------------------------------------------------------
(***************************************************************************)
(* What a handler does after the file has changed.                         *)
(***************************************************************************)
\* revoke_key drops the counters before the key leaves the policy.
ForgetUsage(w) ==
    /\ change[w].pc = "forget"
    /\ usage' = usage \ {change[w].key}
    /\ Set(w, [pc |-> "list"])
    /\ UNCHANGED <<keyFile, policy, running, drawn, budget, truth, overlapped, outside, gone>>

\* refresh_keys reads the store; an unreadable one leaves the policy alone.
ListForRefresh(w) ==
    /\ change[w].pc = "list"
    /\ Set(w, IF Readable(keyFile) THEN [pc |-> "install", keys |-> Read(keyFile)]
              ELSE [pc |-> "answer"])
    /\ outside' = (outside /\ ~Readable(keyFile))
    /\ UNCHANGED <<keyFile, policy, usage, running, drawn, budget, truth, overlapped, gone>>

\* A plausible slip: the answer is given without the reload.
SkipInstall(w) ==
    /\ change[w].pc = "install"
    /\ Set(w, [pc |-> "answer"])
    /\ UNCHANGED <<keyFile, policy, usage, running, drawn, budget, truth, overlapped,
                   outside, gone>>

\* AuthPolicy::reloaded with the records read before, under the write lock.
InstallPolicy(w) ==
    /\ change[w].pc = "install"
    /\ policy' = change[w].keys
    /\ Set(w, [pc |-> "answer"])
    /\ UNCHANGED <<keyFile, usage, running, drawn, budget, truth, overlapped, outside, gone>>

Answer(w) ==
    /\ change[w].pc = "answer"
    /\ Finish(w)
    /\ gone' = IF change[w].what = "revoke" THEN gone \cup {change[w].key} ELSE gone
    /\ UNCHANGED <<keyFile, policy, usage, running, drawn, budget, truth, overlapped, outside>>

-----------------------------------------------------------------------------
(***************************************************************************)
(* The gateway around it.                                                  *)
(***************************************************************************)
\* admit_request with a named key: the record of the policy, not of the file,
\* decides, and a key without a limit is not metered at all.
AdmitRequest(k) ==
    /\ running
    /\ k \in DOMAIN policy
    /\ usage' = IF policy[k] = "unlimited" THEN usage ELSE usage \cup {k}
    /\ usage' # usage
    /\ UNCHANGED <<keyFile, change, policy, running, drawn, budget, truth, overlapped,
                   outside, gone>>

CrashGateway ==
    /\ running /\ budget.crashes > 0
    /\ running' = FALSE
    /\ usage' = {}
    /\ change' = [w \in Writers |-> IF w \in KeyHandlers THEN NoChange ELSE change[w]]
    /\ budget' = [budget EXCEPT !.crashes = @ - 1]
    /\ UNCHANGED <<keyFile, policy, drawn, truth, overlapped, outside, gone>>

CrashCommand(w) ==
    /\ w \in Commands /\ change[w].pc # "idle" /\ budget.crashes > 0
    /\ change' = [change EXCEPT ![w] = NoChange]
    /\ budget' = [budget EXCEPT !.crashes = @ - 1]
    /\ UNCHANGED <<keyFile, policy, usage, running, drawn, truth, overlapped, outside, gone>>

\* serve reads the keys of an exposed bind; it does not start on a file it
\* cannot read.
StartGateway ==
    /\ ~running
    /\ Readable(keyFile)
    /\ running' = TRUE
    /\ policy' = Read(keyFile)
    /\ outside' = FALSE
    /\ UNCHANGED <<keyFile, change, usage, drawn, budget, truth, overlapped, gone>>

-----------------------------------------------------------------------------
KeyInit ==
    /\ keyFile = NoFile
    /\ change = [w \in Writers |-> NoChange]
    /\ policy = NoKeys /\ usage = {} /\ running = TRUE
    /\ drawn = {}
    /\ budget = [changes |-> MaxChanges, crashes |-> MaxCrashes, faults |-> MaxFaults]
    /\ truth = NoKeys /\ overlapped = FALSE /\ outside = FALSE /\ gone = {}

KeyStep(w) ==
    \/ ReadKeys(w) \/ OpenSibling(w) \/ WriteSibling(w) \/ RenameSibling(w)
    \/ ForgetUsage(w) \/ ListForRefresh(w) \/ InstallPolicy(w) \/ Answer(w)

KeyNext ==
    \/ \E w \in Writers, k \in KeyIds :
        RevokeKey(w, k) \/ \E l \in Limits : CreateKey(w, k, l) \/ SetKeyLimit(w, k, l)
    \/ \E w \in Writers : KeyStep(w) \/ WriteFails(w) \/ CrashCommand(w)
    \/ \E k \in KeyIds : AdmitRequest(k)
    \/ CrashGateway \/ StartGateway

KeySpec == KeyInit /\ [][KeyNext]_keyVars

-----------------------------------------------------------------------------
KeyTypeOK ==
    /\ IsFile(keyFile, KeyFiles)
    /\ change \in [Writers -> [pc : {"idle", "read", "open", "write", "rename", "forget",
                                     "list", "install", "answer"},
                               what : Whats \cup {"none"}, key : KeyIds \cup {"none"},
                               limit : Limits, keys : KeyFiles, inode : Nat]]
    /\ policy \in KeyFiles /\ usage \subseteq KeyIds /\ drawn \subseteq KeyIds
    /\ truth \in KeyFiles /\ gone \subseteq KeyIds
    /\ {running, overlapped, outside} \subseteq BOOLEAN

\* While changes do not overlap, the file holds exactly the keys the completed
\* changes leave, whatever crashed or failed in between.
FileIsTheHistory == ~overlapped => Readable(keyFile) /\ Read(keyFile) = truth

\* While changes do not overlap, a gateway that has answered every change, with
\* no command since, checks requests against exactly the keys of the file.
PolicyFollowsFile ==
    (/\ ~overlapped /\ running /\ ~outside
     /\ \A w \in KeyHandlers : change[w].pc \notin {"forget", "list", "install"})
        => policy = Read(keyFile)

\* A key whose revocation was answered does not come back into the policy.
RevokedStaysRevoked == \A k \in gone : running => k \notin DOMAIN policy

\* The counters of a key whose revocation was answered are gone.
CountersAreDropped == usage \cap gone = {}

-----------------------------------------------------------------------------
(***************************************************************************)
(* Conversations and settings on disk                                      *)
(* (crates/lightweight-store/src/conversations.rs and settings.rs, and     *)
(* their handlers in lightweight-gateway/src/store_api.rs).                *)
(*                                                                         *)
(* Each document is a file of its own, replaced as in AtomicWrite.  A      *)
(* handler that writes a conversation first asks the settings whether      *)
(* history is kept, and then works on a blocking thread; settings saved    *)
(* meanwhile are not seen.  Saving settings carries over what this build   *)
(* does not know of, as far as it can read it.                             *)
(***************************************************************************)
CONSTANTS Handlers,    \* requests in progress
          Chats,       \* conversation ids
          MaxAsks,     \* bound on the requests
          MaxClock,    \* bound on the time
          MaxDeaths,   \* bound on crashes of the gateway
          Start        \* what the settings file may be at first

\* GatewaySettings.keep_history, and whether a key of a newer build is there.
SettingsDocs == [keep : BOOLEAN, newer : BOOLEAN]
DefaultSettings == [keep |-> TRUE, newer |-> FALSE]

\* Conversation: created_at, updated_at and what was said.
ChatDocs == [created : 0..MaxClock, updated : 0..MaxClock, said : 0..MaxAsks]

VARIABLES settingsFile, chatFile,
          ask,       \* the request each handler serves
          now,       \* unix_now
          left,      \* [asks, deaths] still allowed
          wish,      \* history: keep_history as last answered, when settled
          settled,   \* history: no settings save is or was in doubt
          known,     \* history: the conversations answered as saved, and how
          raced      \* history: conversations two requests worked on at once

historyVars == <<settingsFile, chatFile, ask, now, left, wish, settled, known, raced>>

NoAsk == [pc |-> "idle", what |-> "none", chat |-> "none", doc |-> <<>>, inode |-> NoInode,
          late |-> FALSE]

Put(h, fields) == ask' = [ask EXCEPT ![h] = fields @@ @]
Done(h) == ask' = [ask EXCEPT ![h] = NoAsk]

\* gateway_settings: defaults without a file, and with one that does not decode.
GatewaySettings == IF Decodes(settingsFile) THEN Document(settingsFile) ELSE DefaultSettings

\* SettingsStore::unknown_keys.
UnknownKeys == Decodes(settingsFile) /\ Document(settingsFile).newer

AtWork(c, h) == \E g \in Handlers \ {h} : ask[g].pc # "idle" /\ ask[g].chat = c

SavingSettings(h) == \E g \in Handlers \ {h} : ask[g].pc # "idle" /\ ask[g].what = "settings"

-----------------------------------------------------------------------------
(***************************************************************************)
(* The handlers up to the store.                                           *)
(***************************************************************************)
Ask(h) == ask[h].pc = "idle" /\ left.asks > 0 /\ left' = [left EXCEPT !.asks = @ - 1]

\* save_settings: the body says whether history is kept.
SaveSettings(h, keep) ==
    /\ Ask(h)
    /\ Put(h, [pc |-> "unknown", what |-> "settings", doc |-> [keep |-> keep, newer |-> FALSE]])
    /\ settled' = (settled /\ ~SavingSettings(h))
    /\ UNCHANGED <<settingsFile, chatFile, now, wish, known, raced>>

\* refuse_if_history_is_off, then create or save.  late: the user's last word
\* before this request was that nothing is kept.
CheckHistory(h, what, c) ==
    /\ Ask(h)
    /\ IF GatewaySettings.keep
       THEN /\ Put(h, [pc |-> "load", what |-> what, chat |-> c, doc |-> <<>>,
                       late |-> ~wish /\ settled /\ ~SavingSettings(h)])
            /\ raced' = IF AtWork(c, h) THEN raced \cup {c} ELSE raced
       ELSE UNCHANGED <<ask, raced>>
    /\ UNCHANGED <<settingsFile, chatFile, now, wish, settled, known>>

\* create draws an id nobody has; save takes one from the path.
CreateConversation(h, c) ==
    /\ c \notin DOMAIN known /\ ~Exists(chatFile[c]) /\ ~AtWork(c, h)
    /\ CheckHistory(h, "create", c)

SaveConversation(h, c) == CheckHistory(h, "save", c)

\* delete: only the document's own name goes, and a missing one is an error.
DeleteConversation(h, c) ==
    /\ Ask(h)
    /\ chatFile' = [chatFile EXCEPT ![c].target = NoInode]
    /\ known' = [d \in DOMAIN known \ {c} |-> known[d]]
    /\ raced' = IF AtWork(c, h) THEN raced \cup {c} ELSE raced
    /\ UNCHANGED <<settingsFile, ask, now, wish, settled>>

-----------------------------------------------------------------------------
(***************************************************************************)
(* The stores.                                                             *)
(***************************************************************************)
\* SettingsStore::save reads first, so that what it does not know survives.
ReadUnknown(h) ==
    /\ ask[h].pc = "unknown"
    /\ Put(h, [pc |-> "open", doc |-> [ask[h].doc EXCEPT !.newer = UnknownKeys]])
    /\ UNCHANGED <<settingsFile, chatFile, now, left, wish, settled, known, raced>>

\* The blocking half of create and save: the creation time is the caller's, or
\* the one on disk, or now.  The panel sends none for a conversation it has.
LoadExisting(h, given) ==
    /\ ask[h].pc = "load"
    /\ LET c == ask[h].chat
           created == IF given /\ c \in DOMAIN known THEN known[c].created
                      ELSE IF ask[h].what = "save" /\ Decodes(chatFile[c])
                      THEN Document(chatFile[c]).created
                      ELSE now
       IN Put(h, [pc |-> "open",
                  doc |-> [created |-> created, updated |-> now, said |-> left.asks]])
    /\ UNCHANGED <<settingsFile, chatFile, now, left, wish, settled, known, raced>>

FileFor(h) == IF ask[h].what = "settings" THEN settingsFile ELSE chatFile[ask[h].chat]

SetFile(h, f) ==
    IF ask[h].what = "settings" THEN settingsFile' = f /\ UNCHANGED chatFile
    ELSE chatFile' = [chatFile EXCEPT ![ask[h].chat] = f] /\ UNCHANGED settingsFile

OpenFor(h) ==
    /\ ask[h].pc = "open"
    /\ LET f == OpenedTemp(FileFor(h))
       IN SetFile(h, f) /\ Put(h, [pc |-> "write", inode |-> f.temp])
    /\ UNCHANGED <<now, left, wish, settled, known, raced>>

WriteFor(h) ==
    /\ ask[h].pc = "write"
    /\ \E f \in WriteOutcomes(FileFor(h), ask[h].inode, ask[h].doc) : SetFile(h, f)
    /\ Put(h, [pc |-> "rename"])
    /\ UNCHANGED <<now, left, wish, settled, known, raced>>

\* The rename, and the answer that reports it.
RenameFor(h) ==
    /\ ask[h].pc = "rename"
    /\ IF CanRename(FileFor(h))
       THEN /\ SetFile(h, Renamed(FileFor(h)))
            /\ IF ask[h].what = "settings"
               THEN wish' = ask[h].doc.keep /\ UNCHANGED known
               ELSE known' = (ask[h].chat :> ask[h].doc) @@ known /\ UNCHANGED wish
       ELSE SetFile(h, RenameFailed(FileFor(h))) /\ UNCHANGED <<wish, known>>
    /\ Done(h)
    /\ UNCHANGED <<now, left, settled, raced>>

\* The gateway dies; a sibling half written stays on disk.
Die ==
    /\ left.deaths > 0 /\ \E h \in Handlers : ask[h].pc # "idle"
    /\ ask' = [h \in Handlers |-> NoAsk]
    /\ left' = [left EXCEPT !.deaths = @ - 1]
    /\ UNCHANGED <<settingsFile, chatFile, now, wish, settled, known, raced>>

Later ==
    /\ now < MaxClock
    /\ now' = now + 1
    /\ UNCHANGED <<settingsFile, chatFile, ask, left, wish, settled, known, raced>>

\* ConversationStore::list: files that do not decode are skipped, the newest
\* first by the time they record.
Listed == {c \in Chats : Decodes(chatFile[c])}

-----------------------------------------------------------------------------
HistoryInit ==
    /\ settingsFile \in Start
    /\ chatFile = [c \in Chats |-> NoFile]
    /\ ask = [h \in Handlers |-> NoAsk]
    /\ now = 0 /\ left = [asks |-> MaxAsks, deaths |-> MaxDeaths]
    /\ wish = GatewaySettings.keep /\ settled = (Exists(settingsFile) => Decodes(settingsFile))
    /\ known = <<>> /\ raced = {}

HistoryNext ==
    \/ \E h \in Handlers :
         \/ \E keep \in BOOLEAN : SaveSettings(h, keep)
         \/ \E c \in Chats : CreateConversation(h, c) \/ SaveConversation(h, c)
                             \/ DeleteConversation(h, c)
         \/ \E given \in BOOLEAN : LoadExisting(h, given)
         \/ ReadUnknown(h) \/ OpenFor(h) \/ WriteFor(h) \/ RenameFor(h)
    \/ Die \/ Later

HistorySpec == HistoryInit /\ [][HistoryNext]_historyVars

-----------------------------------------------------------------------------
HistoryTypeOK ==
    /\ IsFile(settingsFile, SettingsDocs)
    /\ \A c \in Chats : IsFile(chatFile[c], ChatDocs)
    /\ \A h \in Handlers :
         /\ ask[h].pc \in {"idle", "unknown", "load", "open", "write", "rename"}
         /\ ask[h].what \in {"none", "settings", "create", "save"}
    /\ now \in 0..MaxClock /\ {wish, settled} \subseteq BOOLEAN /\ raced \subseteq Chats

\* A request that starts after the user was told that nothing is kept writes no
\* conversation.
OffIsHonoured == \A h \in Handlers : ~ask[h].late

\* A conversation whose save was answered is on disk as it was answered and in
\* the list until it is deleted, through crashes and other conversations'
\* saves, if no two requests worked on it at once.
AnsweredIsKept ==
    \A c \in DOMAIN known : c \notin raced => c \in Listed /\ Document(chatFile[c]) = known[c]

\* Saving a conversation again never changes when it was created, and the
\* settings of a newer build survive every save that found them readable.
NothingIsForgotten ==
    /\ \A c \in Chats \ raced' : (c \in DOMAIN known /\ c \in DOMAIN known')
                                    => known'[c].created = known[c].created
    /\ (settled' /\ UnknownKeys) => UnknownKeys'
=============================================================================

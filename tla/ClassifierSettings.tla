------------------------ MODULE ClassifierSettings -------------------------
(***************************************************************************)
(* The settings of the classifier, saved from the panel                    *)
(* (crates/lightweight-router/src/classifier_settings.rs, admin.rs,        *)
(* secret_store.rs, and the start and stop of crates/lightweight-cli/src/  *)
(* router.rs).                                                             *)
(*                                                                         *)
(* Two things are kept: the configuration file, whose                      *)
(* auto_route.classifier section names a provider, and the provider's key  *)
(* in the credential store of the operating system.  A save changes both,  *)
(* one after the other; a text editor writes the file at any time, either  *)
(* write may fail, the store may stop answering, and the router may die    *)
(* between any two steps.                                                  *)
(***************************************************************************)
EXTENDS Naturals, Sequences, FiniteSets, TLC

CONSTANTS Handlers,    \* requests that may be in the router at once
          Sends,       \* what a panel may send
          Hand,        \* documents a text editor may leave in the file
          First,       \* the file and the keys at the beginning
          Environment, \* the variables set where the router runs
          Bound,       \* the addresses the router listens on
          MaxSends, MaxEdits, MaxFaults, MaxStarts

None == "none"
DEFAULT_API_KEY_ENV == "TYPESAFE"

VARIABLES file,      \* the configuration file
          backup,    \* its copy
          keys,      \* the credential store: account -> key or None
          store,     \* how the store behaves: "ok", "forgetful", "failing" or "unavailable"
          up,        \* the router runs
          active,    \* ClassifierSettings.active: the section it started from
          running,   \* the key it started with
          keyChanged,\* ClassifierSettings.key_changed
          token,     \* the admin token of this start
          tokenFile, \* the file `hermes router admin-token` reads
          lock,      \* ClassifierSettings.write
          handler,   \* the requests
          seen,      \* the revision each panel read last
          sends, edits, faults, starts

settingsVars == <<file, backup, keys, store, up, active, running, keyChanged, token,
                  tokenFile, lock, handler, seen, sends, edits, faults, starts>>

\* One account for each environment variable name (jev_account).
Accounts == DOMAIN keys

-----------------------------------------------------------------------------
(***************************************************************************)
(* The file.  A document is its classifier section, if it has one, and the *)
(* rest.  A section names the provider and may hold a jev block.           *)
(***************************************************************************)
section_of(document) == document.section
Revision(document) == [sha256 |-> document]

\* summary: the variable the saved settings name.
ApiKeyEnv(section) ==
    IF section = <<>> \/ section[1].jev = <<>> THEN DEFAULT_API_KEY_ENV
    ELSE section[1].jev[1].env

\* What get returns, and whether it answers.
StoreGet(account) == IF store = "unavailable" THEN <<>> ELSE <<keys[account]>>

KeySource(account, held) ==
    IF account \in Environment THEN "environment"
    ELSE IF held # None THEN "credential_store" ELSE "missing"

\* validate_with_store, of the section: the settings of a jev block must be
\* good whichever provider is in use, its key be found only if it is jev.
Accepts(document, held) ==
    \A s \in {document.section[i] : i \in 1..Len(document.section)} :
        /\ s.jev # <<>> => s.jev[1].model = "ok"
        /\ s.provider = "jev" =>
              s.jev # <<>> /\ KeySource(ApiKeyEnv(<<s>>), held[ApiKeyEnv(<<s>>)]) # "missing"

\* The key a start with this file finds.
KeyOf(document) ==
    LET env == ApiKeyEnv(document.section)
    IN  IF env \in Environment THEN "of-" \o env ELSE keys[env]

-----------------------------------------------------------------------------
(***************************************************************************)
(* Who may write (admin.rs).                                               *)
(***************************************************************************)
LoopbackOnly(bound) == bound # {} /\ \A a \in bound : a.loopback

IsOwnLoopbackHost(host) == host.loopback /\ host.port \in {a.port : a \in Bound}

\* AdminAccess::check, and admitted: the code of the refusal, or "ok".
Check(send) ==
    IF ~LoopbackOnly(Bound) THEN "admin_unavailable"
    ELSE IF ~IsOwnLoopbackHost(send.host) THEN "admin_host_refused"
    ELSE IF ~send.sameOrigin THEN "cross_origin_refused"
    ELSE IF send.token = <<>> THEN "admin_token_required"
    ELSE IF send.token # token THEN "admin_token_invalid"
    ELSE IF send.op = "save" /\ ~send.json THEN "unsupported_media_type"
    ELSE "ok"

\* if_match.
IfMatch(send) == IF send.revision = <<>> THEN "revision_required" ELSE "ok"

\* save: what is refused before the file is read.
BodyProblem(send) ==
    IF send.op # "save" THEN "ok"
    ELSE IF send.size = "large" THEN "body_too_large"
    ELSE IF send.size = "malformed" THEN "invalid_settings"
    ELSE IF send.key \in {"too-long", "two-lines"} THEN "invalid_settings"
    ELSE IF send.provider = "jev" /\ send.jev = <<>> THEN "invalid_settings"
    ELSE "ok"

Refusal(send) ==
    IF Check(send) # "ok" THEN Check(send)
    ELSE IF IfMatch(send) # "ok" THEN IfMatch(send) ELSE BodyProblem(send)

-----------------------------------------------------------------------------
(***************************************************************************)
(* The life of a request.                                                  *)
(***************************************************************************)
Quiet == [pc |-> "idle", send |-> <<>>, text |-> <<>>, next |-> <<>>, account |-> None,
          previous |-> None, answer |-> None, before |-> <<>>]

Set(h, fields) == handler' = [handler EXCEPT ![h] = fields @@ @]

\* The request is answered; the guard of the write lock is dropped.
Answer(h, code) ==
    /\ Set(h, [pc |-> "done", answer |-> code])
    /\ lock' = None

\* key_status: where the key would come from, and whether the store answers.
KeyStatus(account) ==
    [source |-> KeySource(account, IF StoreGet(account) = <<>> THEN None
                                   ELSE StoreGet(account)[1]),
     available |-> store # "unavailable"]

\* snapshot: what is saved, what runs, and whether a restart is pending.
Snapshot ==
    [revision |-> Revision(file),
     configured |-> section_of(file) # <<>>,
     restart_required |-> section_of(file) # active \/ keyChanged,
     key |-> KeyStatus(ApiKeyEnv(file.section)),
     admin |-> LoopbackOnly(Bound)]

\* view: the panel keeps the revision.
View(h) ==
    /\ up /\ handler[h].pc = "idle"
    /\ seen[h] # <<Snapshot.revision>>
    /\ seen' = [seen EXCEPT ![h] = <<Snapshot.revision>>]
    /\ UNCHANGED <<file, backup, keys, store, up, active, running, keyChanged, token,
                   tokenFile, lock, handler, sends, edits, faults, starts>>

\* save and remove_key up to the lock.  The token is the one the operator
\* pasted: what the file held, now or before a restart.
Send(h, s) ==
    LET send == [revision |-> IF s.ifMatch THEN seen[h] ELSE <<>>,
                 token |-> CASE s.pasted = "file" -> tokenFile
                             [] s.pasted = "old" -> <<0>>
                             [] OTHER -> <<>>] @@ s
    IN  /\ up /\ handler[h].pc = "idle" /\ sends < MaxSends
        /\ sends' = sends + 1
        /\ IF Refusal(send) # "ok"
           THEN Set(h, [pc |-> "done", answer |-> Refusal(send)])
           ELSE Set(h, [pc |-> "waiting", send |-> <<send>>])
        /\ UNCHANGED <<file, backup, keys, store, up, active, running, keyChanged, token,
                       tokenFile, lock, seen, edits, faults, starts>>

Enter(h) ==
    /\ handler[h].pc = "waiting" /\ lock = None
    /\ lock' = h
    /\ Set(h, [pc |-> "read", before |-> <<file, keys>>])
    /\ UNCHANGED <<file, backup, keys, store, up, active, running, keyChanged, token,
                   tokenFile, seen, sends, edits, faults, starts>>

\* The new section: the provider, and over the jev block what was sent.
Patched(section, send) ==
    LET block == IF section.jev = <<>>
                 THEN [model |-> "absent", timeout |-> 0, env |-> DEFAULT_API_KEY_ENV]
                 ELSE section.jev[1]
        patch == send.jev[1]
    IN  [provider |-> send.provider,
         jev |-> IF send.jev = <<>> THEN section.jev
                 ELSE <<[block EXCEPT !.model = patch.model,
                                      !.timeout = IF patch.timeout = <<>> THEN @
                                                  ELSE patch.timeout[1]]>>]

\* save, up to the writes: the file is read, compared with the revision
\* sent, patched, and validated as a start would with the new key in place.
ReadForSave(h) ==
    LET send == handler[h].send[1]
        text == file
        next == [text EXCEPT !.section = <<Patched(text.section[1], send)>>]
        account == ApiKeyEnv(next.section)
        held == [a \in Accounts |->
                   IF a = account /\ send.key # None THEN send.key
                   ELSE IF StoreGet(a) = <<>> THEN None ELSE StoreGet(a)[1]]
        needsHeld == send.provider = "jev" /\ send.key = None /\ account \notin Environment
        problem == IF send.revision # <<Revision(text)>> THEN "revision_conflict"
                   ELSE IF text.section = <<>> THEN "classifier_not_configured"
                   ELSE IF needsHeld /\ StoreGet(account) = <<>> THEN "store_failure"
                   ELSE IF needsHeld /\ held[account] = None THEN "api_key_missing"
                   ELSE IF ~Accepts(next, held) THEN "invalid_settings" ELSE "ok"
    IN  /\ handler[h].pc = "read" /\ handler[h].send[1].op = "save"
        /\ IF problem # "ok" THEN Answer(h, problem)
           ELSE /\ Set(h, [pc |-> IF send.key = None THEN "backup" ELSE "put",
                           text |-> <<text>>, next |-> <<next>>, account |-> account])
                /\ UNCHANGED lock
        /\ UNCHANGED <<file, backup, keys, store, up, active, running, keyChanged, token,
                       tokenFile, seen, sends, edits, faults, starts>>

\* The previous key is read and the new one set.
PutKey(h) ==
    LET a == handler[h].account
        key == handler[h].send[1].key
    IN  /\ handler[h].pc = "put"
        /\ IF store \in {"ok", "forgetful"}
           THEN /\ keys' = IF store = "ok" THEN [keys EXCEPT ![a] = key] ELSE keys
                /\ Set(h, [pc |-> "readback", previous |-> keys[a]])
                /\ UNCHANGED lock
           ELSE Answer(h, "store_failure") /\ UNCHANGED keys
        /\ UNCHANGED <<file, backup, store, up, active, running, keyChanged, token,
                       tokenFile, seen, sends, edits, faults, starts>>

\* restore: the previous key is set again, or the new one deleted; a store
\* that fails here is only logged.
Restored(h) ==
    IF handler[h].send[1].key # None /\ store = "ok"
    THEN [keys EXCEPT ![handler[h].account] = handler[h].previous] ELSE keys

\* The key is read back.  A store that does not answer ends the request
\* here, as it is; one that did not keep the key gets the previous one.
ReadBack(h) ==
    LET found == StoreGet(handler[h].account)
    IN  /\ handler[h].pc = "readback"
        /\ IF found = <<>> THEN Answer(h, "store_failure") /\ UNCHANGED keys
           ELSE IF found[1] # handler[h].send[1].key
                THEN Answer(h, "store_failure") /\ keys' = Restored(h)
                ELSE Set(h, [pc |-> "backup"]) /\ UNCHANGED <<lock, keys>>
        /\ UNCHANGED <<file, backup, store, up, active, running, keyChanged, token,
                       tokenFile, seen, sends, edits, faults, starts>>

WriteBackup(h) ==
    /\ handler[h].pc = "backup"
    /\ backup' = handler[h].text[1]
    /\ Set(h, [pc |-> "write"])
    /\ UNCHANGED <<file, keys, store, up, active, running, keyChanged, token, tokenFile,
                   lock, seen, sends, edits, faults, starts>>

\* write_atomically: the rename replaces whatever the file is by then.
WriteFile(h) ==
    /\ handler[h].pc = "write"
    /\ file' = handler[h].next[1]
    /\ keyChanged' = (keyChanged \/ handler[h].send[1].key # None)
    /\ Answer(h, "saved")
    /\ UNCHANGED <<backup, keys, store, up, active, running, token, tokenFile, seen,
                   sends, edits, faults, starts>>

\* Either write fails.
FailWrite(h) ==
    /\ handler[h].pc \in {"backup", "write"} /\ faults < MaxFaults
    /\ faults' = faults + 1
    /\ keys' = Restored(h)
    /\ Answer(h, "save_failed")
    /\ UNCHANGED <<file, backup, store, up, active, running, keyChanged, token, tokenFile,
                   seen, sends, edits, starts>>

\* remove_key: not while the saved settings depend on the key.
RemoveKey(h) ==
    LET send == handler[h].send[1]
        account == ApiKeyEnv(file.section)
        inUse == /\ file.section # <<>> /\ file.section[1].provider = "jev"
                 /\ account \notin Environment
    IN  /\ handler[h].pc = "read" /\ send.op = "remove"
        /\ IF send.revision # <<Revision(file)>> THEN Answer(h, "revision_conflict")
           ELSE IF inUse THEN Answer(h, "key_in_use")
           ELSE Set(h, [pc |-> "delete", account |-> account]) /\ UNCHANGED lock
        /\ UNCHANGED <<file, backup, keys, store, up, active, running, keyChanged, token,
                       tokenFile, seen, sends, edits, faults, starts>>

DeleteKey(h) ==
    /\ handler[h].pc = "delete"
    /\ IF store = "ok"
       THEN /\ keys' = [keys EXCEPT ![handler[h].account] = None]
            /\ keyChanged' = TRUE
            /\ Answer(h, "saved")
       ELSE Answer(h, "store_failure") /\ UNCHANGED <<keys, keyChanged>>
    /\ UNCHANGED <<file, backup, store, up, active, running, token, tokenFile, seen,
                   sends, edits, faults, starts>>

\* respond_saved looks at the file again, after the lock.
Respond(h) ==
    /\ up /\ handler[h].pc = "done"
    /\ seen' = IF handler[h].answer = "saved"
               THEN [seen EXCEPT ![h] = <<Snapshot.revision>>] ELSE seen
    /\ handler' = [handler EXCEPT ![h] = Quiet]
    /\ UNCHANGED <<file, backup, keys, store, up, active, running, keyChanged, token,
                   tokenFile, lock, sends, edits, faults, starts>>

-----------------------------------------------------------------------------
(***************************************************************************)
(* The router's own life, and everyone else.                               *)
(***************************************************************************)
\* load_with_store, then the token is minted and written over any left by a
\* router that did not stop.  A router listening off loopback gets none.
Start ==
    /\ ~up /\ starts < MaxStarts
    /\ Accepts(file, [a \in Accounts |-> IF StoreGet(a) = <<>> THEN None ELSE StoreGet(a)[1]])
    /\ up' = TRUE /\ starts' = starts + 1
    /\ active' = file.section /\ running' = KeyOf(file) /\ keyChanged' = FALSE
    /\ IF LoopbackOnly(Bound) THEN token' = <<starts + 1>> /\ tokenFile' = <<starts + 1>>
       ELSE token' = <<>> /\ UNCHANGED tokenFile
    /\ UNCHANGED <<file, backup, keys, store, lock, handler, seen, sends, edits, faults>>

Gone == /\ up' = FALSE /\ lock' = None
        /\ handler' = [h \in Handlers |-> Quiet]
        /\ UNCHANGED <<file, backup, keys, store, active, running, keyChanged, token, seen,
                       sends, edits, faults, starts>>

\* remove_token, if it is still this router's.
Stop == /\ up /\ \A h \in Handlers : handler[h].pc = "idle"
        /\ tokenFile' = IF tokenFile = token THEN <<>> ELSE tokenFile
        /\ Gone

Crash == up /\ UNCHANGED tokenFile /\ Gone

EditByHand(document) ==
    /\ edits < MaxEdits /\ document # file
    /\ file' = document /\ edits' = edits + 1
    /\ UNCHANGED <<backup, keys, store, up, active, running, keyChanged, token, tokenFile,
                   lock, handler, seen, sends, faults, starts>>

StoreTurns(mode) ==
    /\ mode # store /\ faults < MaxFaults
    /\ store' = mode /\ faults' = faults + 1
    /\ UNCHANGED <<file, backup, keys, up, active, running, keyChanged, token, tokenFile,
                   lock, handler, seen, sends, edits, starts>>

SettingsInit ==
    /\ file = First.file /\ backup = First.file /\ keys = First.keys
    /\ store = "ok" /\ up = FALSE /\ active = <<>> /\ running = None /\ keyChanged = FALSE
    /\ token = <<>> /\ tokenFile = <<>> /\ lock = None
    /\ handler = [h \in Handlers |-> Quiet] /\ seen = [h \in Handlers |-> <<>>]
    /\ sends = 0 /\ edits = 0 /\ faults = 0 /\ starts = 0

SettingsNext ==
    \/ \E h \in Handlers :
          \/ View(h) \/ Enter(h) \/ ReadForSave(h) \/ PutKey(h) \/ ReadBack(h)
          \/ WriteBackup(h) \/ WriteFile(h) \/ FailWrite(h) \/ RemoveKey(h) \/ DeleteKey(h)
          \/ Respond(h)
          \/ \E s \in Sends : Send(h, s)
    \/ Start \/ Stop \/ Crash
    \/ \E d \in Hand : EditByHand(d)
    \/ \E mode \in {"ok", "forgetful", "failing", "unavailable"} : StoreTurns(mode)

SettingsSpec == SettingsInit /\ [][SettingsNext]_settingsVars

-----------------------------------------------------------------------------
(***************************************************************************)
(* What must hold.                                                         *)
(***************************************************************************)
SettingsTypeOK ==
    /\ up \in BOOLEAN /\ keyChanged \in BOOLEAN
    /\ store \in {"ok", "forgetful", "failing", "unavailable"}
    /\ lock \in Handlers \cup {None}
    /\ \A h \in Handlers : handler[h].pc \in {"idle", "waiting", "read", "put", "readback",
                                              "backup", "write", "delete", "done"}

\* Whatever the router was doing when it died, and whichever write failed,
\* the file it left can be started from: the key is there before the file
\* names its provider, and is not removed while the file does.  (A text
\* editor may of course leave a file that cannot.)
SavedCanStart == edits = 0 => Accepts(file, keys)

\* A save replaces only the text whose revision it was sent: no panel undoes
\* what another saved meanwhile.
SaveReplacesWhatWasSeen ==
    \A h \in Handlers :
        (edits = 0 /\ handler[h].pc = "write" /\ handler'[h].answer = "saved")
            => handler[h].send[1].revision = <<Revision(file)>>

Refused(h) ==
    /\ lock = h /\ handler[h].pc # "done" /\ handler'[h].pc = "done"
    /\ handler'[h].answer # "saved"

\* A request that is refused leaves the settings and the key as they were
\* when it took its turn, unless the store stopped working meanwhile: a file
\* that cannot be written takes the new key with it.
RefusedChangesNothing ==
    \A h \in Handlers :
        (edits = 0 /\ store = "ok" /\ Refused(h))
            => handler[h].before = <<file', keys'>>

\* Once no save is in progress, a router that would run other settings or
\* another key after a restart says that a restart is required, unless the
\* store stopped answering in the middle of a save.
RestartIsAnnounced ==
    (up /\ lock = None /\ faults = 0 /\ (file.section # active \/ KeyOf(file) # running))
        => Snapshot.restart_required

\* The token an operator reads is the one the running router checks.
TokenFileIsLive == (up /\ LoopbackOnly(Bound)) => tokenFile = token

\* "`If-Match` with the revision last read, so two panels - or a panel and a
\* text editor - cannot overwrite each other."
EditorsDoNotOverwrite ==
    [][\A h \in Handlers :
         (handler[h].pc = "write" /\ handler'[h].answer = "saved")
            => handler[h].send[1].revision = <<Revision(file)>>]_settingsVars

\* "Nothing was saved", says the answer to a save the store failed.
NothingWasSaved ==
    [][\A h \in Handlers :
         (edits = 0 /\ Refused(h) /\ handler'[h].answer = "store_failure")
            => handler[h].before = <<file', keys'>>]_settingsVars
============================================================================

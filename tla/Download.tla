------------------------------ MODULE Download ------------------------------
(***************************************************************************)
(* One resumable download (crates/lightweight-download/src/fetch.rs).      *)
(*                                                                         *)
(* The bytes go to a .part sibling that survives failures, cancellations   *)
(* and crashes; the next attempt hashes what is there, asks for the rest   *)
(* and renames the file once the digest agrees.  What is on the server may *)
(* change between attempts, and two attempts, of one process or of two,    *)
(* may run at once.  A file is kept as the inode its name has; an attempt  *)
(* keeps the inode it opened and either appends or writes at its offset.   *)
(***************************************************************************)
EXTENDS Naturals, Sequences

CONSTANTS Fetchers,    \* attempts that may run at once
          Chunks,      \* chunks in the file
          Versions,    \* what the server may offer, one after the other
          Expected,    \* the digest known in advance is that of this version, 0: none
          Ranges,      \* whether the server honours a range
          MaxTries,    \* bound on the attempts
          MaxBreaks    \* bound on broken transfers, refusals and crashes

Hole == [version |-> 0, index |-> 0]
Chunk(v, i) == [version |-> v, index |-> i]
Whole(v) == [i \in 1..Chunks |-> Chunk(v, i)]

FetchAssumption ==
    /\ Chunks \in Nat
    /\ Versions \subseteq Nat \ {0} /\ 1 \in Versions
    /\ Expected \in Versions \cup {0}
    /\ Ranges \in BOOLEAN
    /\ MaxTries \in Nat /\ MaxBreaks \in Nat

VARIABLES remote,    \* the version on the server
          inodes,    \* what each inode holds: a sequence of chunks and holes
          part,      \* the inode of the .part name, 0: none
          dest,      \* the inode of the destination, 0: none
          fetch,     \* the attempts
          tries, breaks,
          together,  \* history: two attempts were under way at once
          checked    \* history: what the digest last accepted was computed over

fetchVars == <<remote, inodes, part, dest, fetch, tries, breaks, together, checked>>

NoFetch == [pc |-> "idle", hashed |-> <<>>, resume |-> 0, version |-> 0, append |-> FALSE,
            inode |-> 0, offset |-> 0, end |-> "none"]

Ended(f, how) == fetch' = [fetch EXCEPT ![f] = [NoFetch EXCEPT !.end = how]]

Under(f) == fetch[f].pc # "idle"

-----------------------------------------------------------------------------
\* rehash_partial: the hasher starts with what is on disk.
RehashPartial(f) ==
    /\ fetch[f].pc = "idle" /\ tries > 0
    /\ LET have == IF part = 0 THEN <<>> ELSE inodes[part]
       IN fetch' = [fetch EXCEPT ![f].pc = "ask", ![f].hashed = have,
                               ![f].resume = Len(have), ![f].end = "none"]
    /\ tries' = tries - 1
    /\ together' = (together \/ \E g \in Fetchers \ {f} : Under(g))
    /\ UNCHANGED <<remote, inodes, part, dest, breaks, checked>>

\* The answer of the server to a request from an offset: all of it, the rest,
\* or, from the end of the file, nothing that can be satisfied.
Answer(resume) ==
    IF resume = 0 \/ ~Ranges THEN 200
    ELSE IF resume >= Chunks THEN 416
    ELSE 206

\* The status decides whether the bytes are appended or the file starts over.
SendRequest(f) ==
    /\ fetch[f].pc = "ask"
    /\ LET status == Answer(fetch[f].resume)
           restart == fetch[f].resume > 0 /\ status # 206
       IN IF status = 416 THEN Ended(f, "failed")
          ELSE fetch' = [fetch EXCEPT
                  ![f].pc = "open", ![f].version = remote,
                  ![f].hashed = IF restart THEN <<>> ELSE fetch[f].hashed,
                  ![f].offset = IF restart THEN 0 ELSE fetch[f].resume,
                  ![f].append = ~restart /\ fetch[f].resume > 0]
    /\ UNCHANGED <<remote, inodes, part, dest, tries, breaks, together, checked>>

\* OpenOptions: created if need be, appended to or truncated.
OpenPartial(f) ==
    /\ fetch[f].pc = "open"
    /\ LET inode == IF part = 0 THEN Len(inodes) + 1 ELSE part
           bytes == IF fetch[f].append /\ part # 0 THEN inodes[part] ELSE <<>>
       IN /\ inodes' = IF part = 0 THEN Append(inodes, <<>>)
                       ELSE [inodes EXCEPT ![part] = bytes]
          /\ part' = inode
          /\ fetch' = [fetch EXCEPT ![f].pc = "stream", ![f].inode = inode]
    /\ UNCHANGED <<remote, dest, tries, breaks, together, checked>>

WrittenAt(bytes, at, c) ==
    [i \in 1..(IF at + 1 > Len(bytes) THEN at + 1 ELSE Len(bytes)) |->
        IF i = at + 1 THEN c ELSE IF i <= Len(bytes) THEN bytes[i] ELSE Hole]

\* A chunk: to the file, at its end or at the attempt's offset, and to the hasher.
WriteChunk(f) ==
    /\ fetch[f].pc = "stream" /\ fetch[f].offset < Chunks
    /\ LET c == Chunk(fetch[f].version, fetch[f].offset + 1)
           bytes == inodes[fetch[f].inode]
       IN /\ inodes' = [inodes EXCEPT ![fetch[f].inode] =
                           WrittenAt(bytes, IF fetch[f].append THEN Len(bytes)
                                            ELSE fetch[f].offset, c)]
          /\ fetch' = [fetch EXCEPT ![f].offset = @ + 1, ![f].hashed = Append(@, c)]
    /\ UNCHANGED <<remote, part, dest, tries, breaks, together, checked>>

\* A plausible slip: the file is put in place before it is checked.
FinaliseFirst(f) ==
    /\ fetch[f].pc = "stream" /\ fetch[f].offset = Chunks /\ part # 0
    /\ dest' = part /\ part' = 0 /\ checked' = fetch[f].hashed
    /\ Ended(f, "done")
    /\ UNCHANGED <<remote, inodes, tries, breaks, together>>

\* The end of the stream: the digest decides between the rename and the removal.
Finalise(f) ==
    /\ fetch[f].pc = "stream" /\ fetch[f].offset = Chunks
    /\ IF Expected # 0 /\ fetch[f].hashed # Whole(Expected)
       THEN part' = 0 /\ Ended(f, "corrupt") /\ UNCHANGED <<dest, checked>>
       ELSE /\ checked' = fetch[f].hashed
            /\ IF part = 0 THEN Ended(f, "failed") /\ UNCHANGED <<part, dest>>
               ELSE dest' = part /\ part' = 0 /\ Ended(f, "done")
    /\ UNCHANGED <<remote, inodes, tries, breaks, together>>

\* The connection breaks, the server refuses, the user cancels, or the process
\* dies: nothing is cleaned up.
Break(f) ==
    /\ Under(f) /\ breaks > 0
    /\ breaks' = breaks - 1
    /\ Ended(f, "broken")
    /\ UNCHANGED <<remote, inodes, part, dest, tries, together, checked>>

\* Somebody publishes other bytes under the same address.
Republish ==
    /\ remote + 1 \in Versions
    /\ remote' = remote + 1
    /\ UNCHANGED <<inodes, part, dest, fetch, tries, breaks, together, checked>>

-----------------------------------------------------------------------------
FetchInit ==
    /\ remote = 1
    /\ inodes = <<>> /\ part = 0 /\ dest = 0
    /\ fetch = [f \in Fetchers |-> NoFetch]
    /\ tries = MaxTries /\ breaks = MaxBreaks
    /\ together = FALSE /\ checked = <<>>

FetchStep(f) ==
    \/ SendRequest(f) \/ OpenPartial(f) \/ WriteChunk(f) \/ Finalise(f)

FetchNext ==
    \/ \E f \in Fetchers : RehashPartial(f) \/ FetchStep(f) \/ Break(f)
    \/ Republish

FetchSpec == FetchInit /\ [][FetchNext]_fetchVars

-----------------------------------------------------------------------------
Block == [version : Versions \cup {0}, index : Nat]
Fetch == [pc : {"idle", "ask", "open", "stream"}, hashed : Seq(Block), resume : Nat,
          version : Versions \cup {0}, append : BOOLEAN, inode : Nat,
          offset : 0..Chunks, end : {"none", "failed", "corrupt", "broken", "done"}]

\* Every variable stays in its type, and an attempt that writes has a file open.
FetchTypeOK ==
    /\ remote \in Versions
    /\ inodes \in Seq(Seq(Block)) /\ checked \in Seq(Block)
    /\ part \in 0..Len(inodes) /\ dest \in 0..Len(inodes)
    /\ fetch \in [Fetchers -> Fetch]
    /\ \A f \in Fetchers : fetch[f].pc = "stream" => fetch[f].inode \in 1..Len(inodes)
    /\ tries \in Nat /\ breaks \in Nat /\ together \in BOOLEAN

\* While attempts do not overlap, the destination holds exactly the bytes the
\* digest was computed over, all of them, and those of the expected version
\* when its digest was known.
PlacedIsVerified ==
    (~together /\ dest # 0) =>
        /\ inodes[dest] = checked /\ Len(checked) = Chunks
        /\ Expected # 0 => checked = Whole(Expected)

\* The destination only ever holds a complete, checked file.
DestinationIsComplete ==
    dest # 0 => Len(inodes[dest]) = Chunks /\ \A i \in 1..Chunks : inodes[dest][i] # Hole

\* An attempt fails only when it was refused, broken off or cancelled.
RetrySucceeds == \A f \in Fetchers : ~together => fetch[f].end # "failed"
=============================================================================

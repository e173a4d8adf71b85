------------------------------- MODULE Relay --------------------------------
(***************************************************************************)
(* A committed stream on its way through the router                        *)
(* (crates/lightweight-router/src/sse.rs and relay, InFlight of proxy.rs). *)
(*                                                                         *)
(* A node writes frames; the network cuts them into chunks wherever it     *)
(* likes, and may fail at any byte; the rewriter puts frames together      *)
(* again, forwards each the moment it is complete, and makes sure that a   *)
(* stream that breaks off ends in an error the client can see.  A frame is *)
(* a run of pieces, of which the last completes it.                        *)
(***************************************************************************)
EXTENDS Naturals, Sequences, SequencesExt

CONSTANTS MaxFrames,   \* bound on what the node writes before its last frame
          FrameLimit,  \* FRAME_LIMIT, in pieces
          Sizes        \* the sizes a frame may have, in pieces

RelayAssumption ==
    /\ MaxFrames \in Nat
    /\ FrameLimit \in Nat \ {0}
    /\ Sizes \subseteq Nat \ {0}

VARIABLES sent,      \* the frames the node has written
          wire,      \* their pieces the router has not read yet
          conn,      \* the connection to the node: open, closed or broken
          rewriter,  \* FrameRewriter
          got,       \* the frames the client was sent
          outcome    \* how the request's tracker was finished

vars == <<sent, wire, conn, rewriter, got, outcome>>

\* What a node writes: comments and queue notices, chunks that open the
\* stream or carry output, and one last frame.
Body == {"comment", "opening", "output"}
Final == {"done", "error"}
Frame(kind) == [kind |-> kind,
                model |-> IF kind \in {"opening", "output"} THEN "local" ELSE "none"]
Pieces(frame, size) ==
    [i \in 1..size |-> [frame |-> frame, last |-> i = size]]

Open == outcome = "open"

-----------------------------------------------------------------------------
(***************************************************************************)
(* The node and its connection.                                            *)
(***************************************************************************)
Terminated == sent # <<>> /\ Last(sent).kind \in Final

Write(kind) ==
    /\ conn = "open"
    /\ ~Terminated
    /\ kind \in Final \/ Len(sent) < MaxFrames
    /\ sent' = Append(sent, Frame(kind))
    /\ \E size \in Sizes : wire' = wire \o Pieces(Frame(kind), size)
    /\ UNCHANGED <<conn, rewriter, got, outcome>>

\* The node ends the stream, or stops in the middle of it: what it has
\* written is still read, less the end of its last frame when it crashed.
Close ==
    /\ conn = "open"
    /\ conn' = "closed"
    /\ \E n \in 0..Len(wire) :
         /\ Terminated => n = Len(wire)
         /\ wire' = SubSeq(wire, 1, n)
    /\ UNCHANGED <<sent, rewriter, got, outcome>>

\* The connection fails, and what was on it is lost.
Break ==
    /\ conn = "open"
    /\ conn' = "broken"
    /\ \E n \in 0..Len(wire) : wire' = SubSeq(wire, 1, n)
    /\ UNCHANGED <<sent, rewriter, got, outcome>>

-----------------------------------------------------------------------------
(***************************************************************************)
(* FrameRewriter.                                                          *)
(***************************************************************************)
ErrorFrame == Frame("error")

\* emit: the model of an event becomes the route's; all else is passed on.
Rewritten(frame) == IF frame.model = "local" THEN [frame EXCEPT !.model = "route"] ELSE frame

\* Where the last complete frame of a buffer ends.
CompleteUpTo(buffer) == Max({i \in 1..Len(buffer) : buffer[i].last} \cup {0})

Frames(buffer) ==
    LET ends == SelectSeq(SubSeq(buffer, 1, CompleteUpTo(buffer)), LAMBDA p : p.last)
    IN [i \in 1..Len(ends) |-> Rewritten(ends[i].frame)]

Has(frames, kind) == \E f \in ToSet(frames) : f.kind = kind

\* The flags after some frames were emitted.
Noted(rw, frames) ==
    [rw EXCEPT !.done = @ \/ Has(frames, "done"),
               !.error = @ \/ Has(frames, "error"),
               !.generated = @ \/ Has(frames, "output")]

\* What push returns: the frames emitted and the rest kept, or an error for
\* a frame that has grown past the limit.
Kept(rw, out, rest) ==
    LET noted == Noted(rw, out)
    IN IF Len(rest) > FrameLimit
       THEN [rw |-> [noted EXCEPT !.buffer = <<>>, !.finished = TRUE, !.error = TRUE],
             out |-> Append(out, ErrorFrame)]
       ELSE [rw |-> [noted EXCEPT !.buffer = rest], out |-> out]

\* Plausible slips: only the first complete frame of a chunk is emitted;
\* frames wait until a chunk ends with one; a frame may grow without a limit.
PushOne(rw, chunk) ==
    LET buffer == rw.buffer \o chunk
    IN Kept(rw, SelectSeq(Frames(buffer), LAMBDA f : f = Frames(buffer)[1]),
            SubSeq(buffer, CompleteUpTo(buffer) + 1, Len(buffer)))

\* push: every frame the chunk completes.
Push(rw, chunk) ==
    LET buffer == rw.buffer \o chunk
    IN Kept(rw, Frames(buffer), SubSeq(buffer, CompleteUpTo(buffer) + 1, Len(buffer)))

\* finish and abort: nothing more after a last frame, an error otherwise.
Finish(rw) ==
    IF rw.done \/ rw.error
    THEN [rw |-> [rw EXCEPT !.finished = TRUE], out |-> <<>>]
    ELSE [rw |-> [rw EXCEPT !.finished = TRUE, !.error = TRUE], out |-> <<ErrorFrame>>]

-----------------------------------------------------------------------------
(***************************************************************************)
(* relay.                                                                  *)
(***************************************************************************)
Forward(step, result) ==
    /\ rewriter' = step.rw
    /\ got' = got \o step.out
    /\ outcome' = result

\* A chunk of any length arrives.
Chunk ==
    /\ Open
    /\ \E n \in 1..Len(wire) :
         LET step == Push(rewriter, SubSeq(wire, 1, n))
         IN /\ Forward(step, IF step.rw.finished THEN "interrupted" ELSE "open")
            /\ wire' = SubSeq(wire, n + 1, Len(wire))
    /\ UNCHANGED <<sent, conn>>

\* The node closed the stream.
UpstreamEnds ==
    /\ Open
    /\ conn = "closed" /\ wire = <<>>
    /\ Forward(Finish(rewriter), IF rewriter.done THEN "ok" ELSE "interrupted")
    /\ UNCHANGED <<sent, wire, conn>>

\* The connection failed.
UpstreamFails ==
    /\ Open
    /\ conn = "broken" /\ wire = <<>>
    /\ Forward(Finish(rewriter), "interrupted")
    /\ UNCHANGED <<sent, wire, conn>>

\* The client goes away: InFlight is dropped.
Leave ==
    /\ Open
    /\ outcome' = "cancelled"
    /\ UNCHANGED <<sent, wire, conn, rewriter, got>>

Init ==
    /\ sent = <<>> /\ wire = <<>> /\ conn = "open"
    /\ rewriter = [buffer |-> <<>>, done |-> FALSE, error |-> FALSE,
                   finished |-> FALSE, generated |-> FALSE]
    /\ got = <<>>
    /\ outcome = "open"

Relaying == Chunk \/ UpstreamEnds \/ UpstreamFails

Next ==
    \/ \E kind \in Body \cup Final : Write(kind)
    \/ Close \/ Break \/ Relaying \/ Leave
    \/ (~Open /\ UNCHANGED vars)

Spec == Init /\ [][Next]_vars

-----------------------------------------------------------------------------
(***************************************************************************)
(* Properties.                                                             *)
(***************************************************************************)
\* Every variable has its type; no more than FrameLimit pieces are ever held.
TypeOK ==
    /\ \A f \in ToSet(sent) \cup ToSet(got) : f.kind \in Body \cup Final
    /\ conn \in {"open", "closed", "broken"}
    /\ rewriter.buffer \in Seq([frame : {Frame(k) : k \in Body \cup Final}, last : BOOLEAN])
    /\ Len(rewriter.buffer) <= FrameLimit
    /\ outcome \in {"open", "ok", "interrupted", "cancelled"}

\* The client gets the node's frames, in order and without a gap, each with
\* the route's model, and after them at most an error frame of the router's;
\* between two chunks no complete frame is held back, and the first-token
\* clock has stopped if and only if output was forwarded.
GotIsSent ==
    LET all == [i \in 1..Len(sent) |-> Rewritten(sent[i])]
    IN /\ \/ IsPrefix(got, all)
          \/ /\ rewriter.finished
             /\ IsPrefix(Front(got), all)
             /\ Last(got) = ErrorFrame
       /\ CompleteUpTo(rewriter.buffer) = 0
       /\ rewriter.generated = Has(got, "output")

\* A stream that ended without the client leaving ended in exactly one last
\* frame, so that no client takes a broken answer for a short one, and it is
\* recorded ok only if that frame was [DONE].
OneLastFrame ==
    /\ \A i \in 1..Len(got) : got[i].kind \in Final => i = Len(got)
    /\ outcome \in {"ok", "interrupted"} => got # <<>> /\ Last(got).kind \in Final
    /\ outcome = "ok" => Has(got, "done")
=============================================================================

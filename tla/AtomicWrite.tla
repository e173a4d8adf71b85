---------------------------- MODULE AtomicWrite -----------------------------
(***************************************************************************)
(* How a document is replaced on disk                                      *)
(* (crates/lightweight-store/src/atomic.rs; the catalog, the secret store  *)
(* and the classifier settings replace their files in the same steps).     *)
(*                                                                         *)
(* The bytes go into one sibling whose name depends on the document alone, *)
(* and a rename puts it in place.  Nothing locks and nothing is synced, so *)
(* two savers of a document share the sibling: a file is therefore kept as *)
(* its two names and the inodes behind them, and a saver keeps the inode   *)
(* it opened.  Bytes are abstracted to the document they encode, to Empty, *)
(* or to Torn, which decodes to nothing.                                   *)
(***************************************************************************)
EXTENDS Naturals, Sequences

NoInode == 0

\* What an inode holds: a whole document, or nothing that decodes.
Whole(doc) == [is |-> "whole", doc |-> doc]
Empty == [is |-> "empty"]
Torn == [is |-> "torn"]

\* A file: the inode its name has, the inode its .tmp sibling has, and what
\* each inode holds.
NoFile == [target |-> NoInode, temp |-> NoInode, data |-> <<>>]

FileOf(doc) == [target |-> 1, temp |-> NoInode, data |-> <<Whole(doc)>>]

IsFile(f, Docs) ==
    /\ f.data \in Seq({Whole(d) : d \in Docs} \cup {Empty, Torn})
    /\ {f.target, f.temp} \subseteq 0..Len(f.data)

\* temp_sibling: every saver of the document opens, and truncates, the same one.
OpenedTemp(f) ==
    IF f.temp # NoInode THEN [f EXCEPT !.data[f.temp] = Empty]
    ELSE [f EXCEPT !.temp = Len(f.data) + 1, !.data = Append(@, Empty)]

\* write_with_mode, from offset zero of what the saver opened: over another
\* saver's longer bytes the tail of those stays.
WriteOutcomes(f, inode, doc) ==
    {[f EXCEPT !.data[inode] = d] :
        d \in IF f.data[inode].is = "empty" THEN {Whole(doc)} ELSE {Whole(doc), Torn}}

\* A write that stops half way; the sibling is left behind.
HalfWritten(f, inode) == [f EXCEPT !.data[inode] = Torn]

\* The rename moves whatever the sibling's name has now.
CanRename(f) == f.temp # NoInode
Renamed(f) == [f EXCEPT !.target = f.temp, !.temp = NoInode]

\* A rename that fails: the sibling is removed and the error reported.
RenameFailed(f) == [f EXCEPT !.temp = NoInode]

Exists(f) == f.target # NoInode
Decodes(f) == Exists(f) /\ f.data[f.target].is = "whole"
Document(f) == f.data[f.target].doc
=============================================================================

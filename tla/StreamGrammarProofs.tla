------------------------ MODULE StreamGrammarProofs ------------------------
(***************************************************************************)
(* Proofs about the frames of one streamed request, for any request, any   *)
(* number of completions, engine events, keep-alives and notices.  The     *)
(* grammar of a stream is stated of the frames alone; the lemmas say which *)
(* frames an open stream can go on with and how it can end, and the        *)
(* invariant what is known of the frames while the encoder goes on.        *)
(***************************************************************************)
EXTENDS RequestStreamProofs, FiniteSetTheorems

\* The provers have half a minute for each leaf.
USE SMTT(30), ZenonT(30)

(***************************************************************************)
(* The grammar of the frames F: chat and n are of the request, and over    *)
(* says that the encoder has finished.                                     *)
(***************************************************************************)
In(F, kind) == {i \in DOMAIN F : F[i].kind = kind}

WellFormed(F, chat, n, over) ==
    /\ \A i \in In(F, "done") : i = Len(F)
    /\ \A i \in In(F, "error") : i + 1 \in In(F, "done") /\ (chat => In(F, "finish") = {})
    /\ \A i \in In(F, "usage") : i + 1 \in In(F, "done") /\ In(F, "error") = {}
    /\ chat /\ F # <<>> => In(F, "role") = {1}
    /\ \A i \in In(F, "notice"), j \in In(F, "ping") \cup In(F, "delta") \cup In(F, "finish") :
          i < j
    /\ \A i \in In(F, "finish"), j \in DOMAIN F :
          j > i => F[j].kind \in {"usage", "done", "error"} \/ F[j].index > F[i].index
    /\ over /\ In(F, "error") = {} => Cardinality(In(F, "finish")) = (IF chat THEN 1 ELSE n)
    /\ \A i \in In(F, "delta"), j \in In(F, "ping") : i < j => F[i].index < F[j].index

\* Nothing in F ends a stream.
Endless(F) == \A i \in DOMAIN F : F[i].kind \notin {"done", "error", "usage"}

\* What is known of the frames of a stream that goes on: its source, whether
\* the generation has started, and the number of the choice are those given.
Open(F, chat, src, begun, idx) ==
    /\ Endless(F)
    /\ chat => F # <<>> /\ In(F, "finish") = {}
    /\ \A i \in DOMAIN F : F[i].index <= idx
    /\ src = "queued" =>
          /\ chat
          /\ \A i \in DOMAIN F : F[i].kind \notin {"ping", "delta", "finish"}
    /\ src \in {"transit", "running"} =>
          \A i \in In(F, "finish") : F[i].index < idx
    /\ src = "transit" \/ (src = "running" /\ ~begun) =>
          \A i \in In(F, "delta") : F[i].index < idx
    /\ ~chat => Cardinality(In(F, "finish"))
                   + (IF src \in {"transit", "running"} THEN 1 ELSE 0) = idx

\* The inductive invariant of the frames.
Grammar ==
    /\ WellFormed(Frames, Chat, req.n, finished)
    /\ stage \in {"admit", "wait", "generate", "collect"} => Frames = <<>>
    /\ stage \in {"admit", "wait"} => source = None
    /\ stage = "body" /\ ~finished => Open(Frames, Chat, source, started, index)

\* A frame more at the end.
LEMMA OneMore ==
    ASSUME NEW F \in Seq(FrameType), NEW f \in FrameType
    PROVE  /\ Append(F, f) \in Seq(FrameType) /\ Append(F, f) # <<>>
           /\ Len(Append(F, f)) = Len(F) + 1 /\ Len(F) \in Nat
           /\ DOMAIN F = 1..Len(F)
           /\ DOMAIN Append(F, f) = 1..(Len(F) + 1)
           /\ Append(F, f)[Len(F) + 1] = f
           /\ \A i \in 1..Len(F) : Append(F, f)[i] = F[i]
           /\ \A k : In(Append(F, f), k) = In(F, k) \cup (IF f.kind = k THEN {Len(F) + 1} ELSE {})
<1> DEFINE G == Append(F, f)
<1>1. /\ G \in Seq(FrameType) /\ G # <<>> /\ Len(G) = Len(F) + 1 /\ Len(F) \in Nat
      /\ DOMAIN F = 1..Len(F) /\ DOMAIN G = 1..(Len(F) + 1) /\ G[Len(F) + 1] = f
      /\ \A i \in 1..Len(F) : G[i] = F[i]
  OBVIOUS
<1>2. \A i : i \in 1..(Len(F) + 1) <=> i \in 1..Len(F) \/ i = Len(F) + 1
  BY <1>1
<1> HIDE DEF G
<1>3. ASSUME NEW k PROVE In(G, k) = In(F, k) \cup (IF f.kind = k THEN {Len(F) + 1} ELSE {})
  BY <1>1, <1>2 DEF In
<1>4. QED
  BY <1>1, <1>3 DEF G

\* Counting the frames of a kind.
LEMMA OneMoreCounted ==
    ASSUME NEW F \in Seq(FrameType), NEW f \in FrameType, NEW k
    PROVE  /\ Cardinality(In(F, k)) \in Nat
           /\ Cardinality(In(Append(F, f), k))
                = Cardinality(In(F, k)) + (IF f.kind = k THEN 1 ELSE 0)
<1> DEFINE S == In(F, k)
           n == Len(F) + 1
<1>1. Len(F) \in Nat /\ S \in SUBSET (1..Len(F))
  BY OneMore DEF In
<1>2. IsFiniteSet(1..Len(F))
  BY <1>1, FS_Interval
<1>3. IsFiniteSet(S) /\ Cardinality(S) \in Nat
  BY <1>1, <1>2, FS_Subset, FS_CardinalityType
<1>4. n \notin S
  BY <1>1
<1>5. In(Append(F, f), k) = S \cup (IF f.kind = k THEN {n} ELSE {})
  BY OneMore
<1> HIDE DEF S, n
<1>6. Cardinality(S \cup {n}) = Cardinality(S) + 1
  BY <1>3, <1>4, FS_AddElement, ZenonT(30)
<1>7. CASE f.kind = k
  BY <1>3, <1>5, <1>6, <1>7 DEF S
<1>8. CASE f.kind # k
  <2>1. In(Append(F, f), k) = S
    BY <1>5, <1>8
  <2>2. QED
    BY <1>3, <1>8, <2>1 DEF S
<1>9. QED
  BY <1>7, <1>8

\* An open stream goes on with a frame that ends nothing.
LEMMA FrameAdded ==
    ASSUME NEW F \in Seq(FrameType), NEW f \in FrameType, NEW chat \in BOOLEAN, NEW n,
           WellFormed(F, chat, n, FALSE), Endless(F),
           f.kind \notin {"done", "error", "usage"},
           chat => (F = <<>> <=> f.kind = "role"),
           f.kind = "notice" => \A i \in DOMAIN F : F[i].kind \notin {"ping", "delta", "finish"},
           \A i \in In(F, "finish") : F[i].index < f.index,
           f.kind = "ping" => \A i \in In(F, "delta") : F[i].index < f.index
    PROVE  WellFormed(Append(F, f), chat, n, FALSE) /\ Endless(Append(F, f))
<1> DEFINE G == Append(F, f)
           m == Len(F) + 1
<1>1. /\ m \in Nat /\ DOMAIN F = 1..Len(F) /\ DOMAIN G = 1..m /\ G[m] = f /\ G # <<>>
      /\ Len(F) \in Nat /\ G \in Seq(FrameType)
      /\ \A i \in 1..Len(F) : G[i] = F[i]
  BY OneMore
<1>2. \A k : In(G, k) = In(F, k) \cup (IF f.kind = k THEN {m} ELSE {})
  BY OneMore
<1>3. \A k : In(F, k) \subseteq 1..Len(F)
  BY <1>1 DEF In
<1>4. \A i \in 1..m : i \in 1..Len(F) \/ i = m
  BY <1>1
<1>5. \A i \in 1..Len(F) : i < m /\ i \in Nat
  BY <1>1
<1> HIDE DEF G, m
<1>6. Endless(G)
  BY <1>1, <1>4 DEF Endless
<1>7. In(G, "done") = {} /\ In(G, "error") = {} /\ In(G, "usage") = {}
  BY <1>6 DEF Endless, In
<1>8. chat => In(G, "role") = {1}
  <2>1. CASE F = <<>>
    <3>1. m = 1 /\ In(F, "role") = {}
      BY <2>1, <1>1, <1>3 DEF m
    <3>2. QED
      BY <1>2, <2>1, <3>1
  <2>2. CASE F # <<>>
    BY <1>2, <2>2 DEF WellFormed
  <2>3. QED
    BY <2>1, <2>2
<1>9. ASSUME NEW i \in In(G, "notice"),
             NEW j \in In(G, "ping") \cup In(G, "delta") \cup In(G, "finish")
      PROVE  i < j
  <2>1. CASE i \in In(F, "notice") /\ j \in In(F, "ping") \cup In(F, "delta") \cup In(F, "finish")
    BY <2>1 DEF WellFormed
  <2>2. CASE i \in In(F, "notice") /\ j = m
    BY <1>3, <1>5, <2>2
  <2>3. CASE i = m
    <3>1. f.kind = "notice"
      BY <1>1, <2>3 DEF In
    <3>2. j \in In(F, "ping") \/ j \in In(F, "delta") \/ j \in In(F, "finish")
      BY <1>2, <3>1
    <3>4. j \in DOMAIN F /\ F[j].kind \in {"ping", "delta", "finish"}
      BY <3>2 DEF In
    <3>3. QED
      BY <3>1, <3>4
  <2>4. QED
    BY <1>2, <2>1, <2>2, <2>3
<1>10. ASSUME NEW i \in In(G, "finish"), NEW j \in DOMAIN G, j > i
       PROVE  G[j].index > G[i].index
  <2>1. CASE i = m
    BY <1>1, <1>10, <2>1
  <2>2. CASE i \in In(F, "finish") /\ j = m
    <3>1. F[i].index < f.index /\ G[i] = F[i] /\ G[j] = f
      BY <1>1, <1>3, <2>2
    <3>2. F[i] \in FrameType
      BY <1>3, <2>2, <1>1
    <3>3. F[i].index \in Nat /\ f.index \in Nat
      BY <3>2 DEF FrameType
    <3>4. QED
      BY <3>1, <3>3
  <2>3. CASE i \in In(F, "finish") /\ j \in 1..Len(F)
    <3>1. F[j].kind \in {"usage", "done", "error"} \/ F[j].index > F[i].index
      BY <1>1, <1>10, <2>3 DEF WellFormed
    <3>2. QED
      BY <1>1, <1>3, <2>3, <3>1 DEF Endless
  <2>4. QED
    BY <1>1, <1>2, <1>4, <2>1, <2>2, <2>3
<1>11. ASSUME NEW i \in In(G, "delta"), NEW j \in In(G, "ping"), i < j
       PROVE  G[i].index < G[j].index
  <2>1. CASE i = m
    BY <1>1, <1>11, <2>1 DEF In
  <2>2. CASE i \in In(F, "delta") /\ j = m
    BY <1>1, <1>3, <2>2 DEF In
  <2>3. CASE i \in In(F, "delta") /\ j \in In(F, "ping")
    BY <1>1, <1>3, <1>11, <2>3 DEF WellFormed
  <2>4. QED
    BY <1>2, <2>1, <2>2, <2>3
<1>12. WellFormed(G, chat, n, FALSE)
  BY <1>7, <1>8, <1>9, <1>10, <1>11, ZenonT(30) DEF WellFormed
<1>13. QED
  BY <1>6, <1>12, ZenonT(30) DEF G



\* An open stream ends: with an error and the end, or, when every choice is
\* finished, with the usage if it was asked for and the end.
LEMMA EndAdded ==
    ASSUME NEW F \in Seq(FrameType), NEW H \in Seq(FrameType), NEW chat \in BOOLEAN, NEW n,
           WellFormed(F, chat, n, FALSE), Endless(F), chat => F # <<>>,
           Len(H) = Len(F) + 1 \/ Len(H) = Len(F) + 2,
           \A i \in 1..Len(F) : H[i] = F[i],
           H[Len(H)].kind = "done",
           Len(H) = Len(F) + 2 => H[Len(F) + 1].kind \in {"error", "usage"},
           H[Len(F) + 1].kind = "error" => (chat => In(F, "finish") = {}),
           H[Len(F) + 1].kind # "error" =>
               Cardinality(In(F, "finish")) = (IF chat THEN 1 ELSE n)
    PROVE  WellFormed(H, chat, n, TRUE)
<1> DEFINE m == Len(F)
           l == Len(H)
           Ends == {"done", "error", "usage"}
<1>1. m \in Nat /\ l \in Nat /\ DOMAIN F = 1..m /\ DOMAIN H = 1..l
  OBVIOUS
<1>2. l = m + 1 \/ l = m + 2
  OBVIOUS
<1>a. H[l].kind = "done" /\ (l = m + 2 => H[m + 1].kind \in {"error", "usage"})
  OBVIOUS
<1> HIDE DEF m, l
<1>3. \A i \in DOMAIN F : i \in DOMAIN H /\ i < m + 1 /\ i + 1 \in Nat /\ i # l
  BY <1>1, <1>2
<1>4. \A i \in DOMAIN H : i \in DOMAIN F \/ i = m + 1 \/ i = l
  BY <1>1, <1>2
<1>5. \A i \in DOMAIN F : H[i] = F[i] /\ F[i].kind \notin Ends
  BY <1>1 DEF Endless, m
<1>6. l \in DOMAIN H /\ H[l].kind = "done" /\ m + 1 \in DOMAIN H
  BY <1>1, <1>2, <1>a
<1>7. m + 1 # l => m + 1 + 1 = l /\ H[m + 1].kind \in {"error", "usage"}
  BY <1>1, <1>2, <1>a
<1>8. H[m + 1].kind \in Ends /\ H[l].kind \in Ends
  BY <1>6, <1>7
<1>9. \A k : k \notin Ends => In(H, k) = In(F, k)
  BY <1>3, <1>4, <1>5, <1>8 DEF In
<1>10. \A i \in DOMAIN H : H[i].kind \in Ends => i = m + 1 \/ i = l
  BY <1>4, <1>5
<1>11. In(H, "done") = {l}
  BY <1>6, <1>7, <1>10 DEF In
<1>12. \A i \in In(H, "error") \cup In(H, "usage") : i = m + 1 /\ m + 1 # l
  BY <1>6, <1>10 DEF In
<1>13. \A i \in In(H, "error") \cup In(H, "usage") : i + 1 \in In(H, "done")
  BY <1>7, <1>11, <1>12
<1>14. \A i \in In(H, "error") : chat => In(H, "finish") = {}
  <2> SUFFICES ASSUME NEW i \in In(H, "error"), chat PROVE In(H, "finish") = {}
    OBVIOUS
  <2>1. H[m + 1].kind = "error"
    BY <1>12 DEF In
  <2>2. QED
    BY <2>1, <1>9 DEF m
<1>15. \A i \in In(H, "usage") : In(H, "error") = {}
  <2> SUFFICES ASSUME NEW i \in In(H, "usage"), NEW j \in In(H, "error") PROVE FALSE
    OBVIOUS
  <2>1. i = j
    BY <1>12
  <2>2. QED
    BY <2>1 DEF In
<1>16. chat => In(H, "role") = {1}
  BY <1>9 DEF WellFormed
<1>17. \A i \in In(H, "notice"), j \in In(H, "ping") \cup In(H, "delta") \cup In(H, "finish") :
          i < j
  BY <1>9 DEF WellFormed
<1>18. \A i \in In(H, "finish"), j \in DOMAIN H :
          j > i => H[j].kind \in {"usage", "done", "error"} \/ H[j].index > H[i].index
  <2> SUFFICES ASSUME NEW i \in In(H, "finish"), NEW j \in DOMAIN H, j > i,
                      H[j].kind \notin {"usage", "done", "error"}
               PROVE  H[j].index > H[i].index
    OBVIOUS
  <2>1. j \in DOMAIN F /\ i \in In(F, "finish")
    BY <1>4, <1>8, <1>9
  <2>2. i \in DOMAIN F /\ H[i] = F[i] /\ H[j] = F[j]
    BY <1>5, <2>1 DEF In
  <2>3. QED
    BY <2>1, <2>2 DEF WellFormed
<1>19. In(H, "error") = {} => Cardinality(In(H, "finish")) = (IF chat THEN 1 ELSE n)
  <2> SUFFICES ASSUME In(H, "error") = {}
               PROVE  Cardinality(In(H, "finish")) = (IF chat THEN 1 ELSE n)
    OBVIOUS
  <2>1. H[m + 1].kind # "error"
    BY <1>6 DEF In
  <2>2. QED
    BY <1>9, <2>1 DEF m
<1>20. \A i \in In(H, "delta"), j \in In(H, "ping") : i < j => H[i].index < H[j].index
  <2> SUFFICES ASSUME NEW i \in In(H, "delta"), NEW j \in In(H, "ping"), i < j
               PROVE  H[i].index < H[j].index
    OBVIOUS
  <2>1. i \in In(F, "delta") /\ j \in In(F, "ping")
    BY <1>9
  <2>2. H[i] = F[i] /\ H[j] = F[j]
    BY <1>5, <2>1 DEF In
  <2>3. QED
    BY <2>1, <2>2 DEF WellFormed
<1>21. QED
  BY <1>11, <1>13, <1>14, <1>15, <1>16, <1>17, <1>18, <1>19, <1>20, ZenonT(30)
     DEF WellFormed, l


\* The frames an open stream goes on with.
Goes(f, src, begun, idx) ==
    \/ f.kind = "notice" /\ src = "queued" /\ f.index = 0
    \/ f.kind = "echo" /\ src = "running" /\ ~begun /\ f.index = idx
    \/ f.kind = "ping" /\ src = "running" /\ ~begun /\ f.index = idx
    \/ f.kind = "delta" /\ src = "running" /\ begun /\ f.index = idx

\* Which frames an open stream can go on with, and that it stays open.
LEMMA OpenGoesOn ==
    ASSUME NEW F \in Seq(FrameType), NEW f \in FrameType, NEW chat \in BOOLEAN, NEW n,
           NEW src, NEW begun \in BOOLEAN, NEW idx \in Nat,
           WellFormed(F, chat, n, FALSE), Open(F, chat, src, begun, idx),
           Goes(f, src, begun, idx)
    PROVE  /\ WellFormed(Append(F, f), chat, n, FALSE)
           /\ Open(Append(F, f), chat, src, begun, idx)
<1> DEFINE G == Append(F, f)
           m == Len(F) + 1
<1>1. /\ m \in Nat /\ DOMAIN F = 1..Len(F) /\ DOMAIN G = 1..m /\ G[m] = f /\ G # <<>>
      /\ Len(F) \in Nat /\ G \in Seq(FrameType)
      /\ \A i \in 1..Len(F) : G[i] = F[i]
  BY OneMore
<1>2. \A k : In(G, k) = In(F, k) \cup (IF f.kind = k THEN {m} ELSE {})
  BY OneMore
<1>3. \A k : In(F, k) \subseteq DOMAIN F
  BY DEF In
<1>4. \A i \in DOMAIN G : i \in DOMAIN F \/ i = m
  BY <1>1
<1>5. /\ f.kind \in {"notice", "echo", "ping", "delta"}
      /\ f.index \in Nat /\ f.index <= idx
  BY DEF Goes
<1>6. WellFormed(G, chat, n, FALSE) /\ Endless(G)
  <2>1. Endless(F)
    BY DEF Open
  <2>2. chat => (F = <<>> <=> f.kind = "role")
    BY <1>5 DEF Open
  <2>3. f.kind = "notice" => \A i \in DOMAIN F : F[i].kind \notin {"ping", "delta", "finish"}
    BY DEF Open, Goes
  <2>4. \A i \in In(F, "finish") : F[i].index < f.index
    <3>1. CASE src = "queued"
      BY <3>1, <1>3 DEF Open, In
    <3>2. CASE src = "running"
      BY <3>2 DEF Open, Goes
    <3>3. QED
      BY <3>1, <3>2 DEF Goes
  <2>5. f.kind = "ping" => \A i \in In(F, "delta") : F[i].index < f.index
    BY DEF Open, Goes
  <2>6. f.kind \notin {"done", "error", "usage"}
    BY <1>5
  <2>7. QED
    BY <2>1, <2>2, <2>3, <2>4, <2>5, <2>6, FrameAdded, ZenonT(30)
<1> HIDE DEF G, m
<1>7. In(G, "finish") = In(F, "finish")
  BY <1>2, <1>5, ZenonT(30)
<1>8. chat => G # <<>> /\ In(G, "finish") = {}
  BY <1>1, <1>7 DEF Open
<1>9. \A i \in DOMAIN G : G[i].index <= idx
  BY <1>1, <1>4, <1>5 DEF Open
<1>10. src = "queued" => chat /\ \A i \in DOMAIN G : G[i].kind \notin {"ping", "delta", "finish"}
  <2>1. ASSUME src = "queued", NEW i \in DOMAIN G PROVE G[i].kind \notin {"ping", "delta", "finish"}
    BY <2>1, <1>1, <1>4 DEF Open, Goes
  <2>2. QED
    BY <2>1 DEF Open
<1>11. src \in {"transit", "running"} => \A i \in In(G, "finish") : G[i].index < idx
  BY <1>1, <1>3, <1>7 DEF Open
<1>12. src = "transit" \/ (src = "running" /\ ~begun) =>
          \A i \in In(G, "delta") : G[i].index < idx
  <2> SUFFICES ASSUME src = "transit" \/ (src = "running" /\ ~begun), NEW i \in In(G, "delta")
               PROVE  G[i].index < idx
    OBVIOUS
  <2>1. f.kind # "delta"
    BY DEF Goes
  <2>2. i \in In(F, "delta")
    BY <1>2, <2>1
  <2>3. QED
    BY <1>1, <1>3, <2>2 DEF Open
<1>13. QED
  BY <1>6, <1>7, <1>8, <1>9, <1>10, <1>11, <1>12, ZenonT(30) DEF Open, G

\* A choice of a completions stream is finished, and the next may follow.
LEMMA OpenFinishes ==
    ASSUME NEW F \in Seq(FrameType), NEW f \in FrameType, NEW n, NEW begun, NEW idx \in Nat,
           WellFormed(F, FALSE, n, FALSE), Open(F, FALSE, "running", begun, idx),
           f.kind = "finish", f.index = idx
    PROVE  /\ WellFormed(Append(F, f), FALSE, n, FALSE)
           /\ Open(Append(F, f), FALSE, None, FALSE, idx)
<1> DEFINE G == Append(F, f)
           m == Len(F) + 1
<1>1. /\ DOMAIN F = 1..Len(F) /\ DOMAIN G = 1..m /\ G[m] = f /\ Len(F) \in Nat
      /\ \A i \in 1..Len(F) : G[i] = F[i]
  BY OneMore
<1>2. \A i \in DOMAIN G : i \in DOMAIN F \/ i = m
  BY <1>1
<1>3. WellFormed(G, FALSE, n, FALSE) /\ Endless(G)
  BY FrameAdded, ZenonT(30) DEF Open
<1>4. /\ Cardinality(In(F, "finish")) \in Nat
      /\ Cardinality(In(G, "finish")) = Cardinality(In(F, "finish")) + 1
  BY OneMoreCounted
<1> HIDE DEF G, m
<1>5. Cardinality(In(F, "finish")) + 1 = idx
  BY DEF Open
<1>6. \A i \in DOMAIN G : G[i].index <= idx
  BY <1>1, <1>2 DEF Open
<1>7. Cardinality(In(G, "finish")) = idx /\ idx + 0 = idx
  BY <1>4, <1>5
<1>8. Open(G, FALSE, None, FALSE, idx)
  BY <1>3, <1>6, <1>7 DEF Open, None
<1>9. QED
  BY <1>3, <1>8, ZenonT(30) DEF G

\* Where the source of an open stream can go on to while nothing is queued.
LEMMA OpenMovesOn ==
    ASSUME NEW F \in Seq(FrameType), NEW chat \in BOOLEAN, NEW begun \in BOOLEAN, NEW idx \in Nat
    PROVE  /\ Open(F, chat, "queued", begun, idx) => Open(F, chat, "transit", begun, idx)
           /\ Open(F, chat, "transit", begun, idx) => Open(F, chat, "running", FALSE, idx)
           /\ Open(F, chat, "running", begun, idx) => Open(F, chat, "running", TRUE, idx)
           /\ Open(F, FALSE, None, begun, idx) => Open(F, FALSE, "transit", begun, idx + 1)
<1>1. Open(F, chat, "queued", begun, idx) => Open(F, chat, "transit", begun, idx)
  BY DEF Open, In
<1>2. Open(F, chat, "transit", begun, idx) => Open(F, chat, "running", FALSE, idx)
  BY DEF Open
<1>3. Open(F, chat, "running", begun, idx) => Open(F, chat, "running", TRUE, idx)
  BY DEF Open
<1>4. ASSUME Open(F, FALSE, None, begun, idx) PROVE Open(F, FALSE, "transit", begun, idx + 1)
  <2>1. \A i \in DOMAIN F : F[i].index \in Nat /\ F[i].index <= idx /\ F[i].index < idx + 1
    <3>1. \A i \in DOMAIN F : F[i] \in FrameType
      OBVIOUS
    <3>2. \A i \in DOMAIN F : F[i].index \in Nat
      BY <3>1 DEF FrameType
    <3>3. QED
      BY <1>4, <3>2 DEF Open
  <2>2. Cardinality(In(F, "finish")) = idx
    <3>1. [kind |-> "role", index |-> 0] \in FrameType
      BY DEF FrameType, Kinds
    <3>2. Cardinality(In(F, "finish")) \in Nat
      BY <3>1, OneMoreCounted
    <3>3. Cardinality(In(F, "finish")) + 0 = idx
      BY <1>4 DEF Open, None
    <3>4. QED
      BY <3>2, <3>3
  <2>3. QED
    BY <1>4, <2>1, <2>2 DEF Open, In
<1>5. QED
  BY <1>1, <1>2, <1>3, <1>4, ZenonT(30)

\* A stream that opens.
LEMMA OpenBegins ==
    ASSUME NEW f \in FrameType, f.kind = "role", f.index = 0, NEW n, NEW begun,
           NEW src \in {"queued", "running"}
    PROVE  /\ WellFormed(<<>>, TRUE, n, FALSE) /\ WellFormed(<<>>, FALSE, n, FALSE)
           /\ Open(<<>>, FALSE, None, begun, 0)
           /\ WellFormed(<<f>>, TRUE, n, FALSE) /\ Open(<<f>>, TRUE, src, begun, 0)
<1>1. \A k : In(<<>>, k) = {}
  BY DEF In
<1>2. WellFormed(<<>>, TRUE, n, FALSE) /\ WellFormed(<<>>, FALSE, n, FALSE)
  BY <1>1 DEF WellFormed
<1>3. Cardinality({}) = 0
  BY FS_EmptySet
<1>4. Open(<<>>, FALSE, None, begun, 0)
  <2>1. DOMAIN <<>> = {} /\ None \notin {"queued", "transit", "running"}
    BY DEF None
  <2>2. Cardinality(In(<<>>, "finish"))
           + (IF None \in {"transit", "running"} THEN 1 ELSE 0) = 0
    BY <1>1, <1>3, <2>1
  <2>3. Endless(<<>>)
    BY <2>1 DEF Endless
  <2>4. QED
    BY <1>1, <2>1, <2>2, <2>3, SMTT(30) DEF Open
<1>5. DOMAIN <<f>> = {1} /\ <<f>>[1] = f /\ <<f>> # <<>>
  OBVIOUS
<1>6. \A k : In(<<f>>, k) = IF k = "role" THEN {1} ELSE {}
  BY <1>5 DEF In
<1>7. WellFormed(<<f>>, TRUE, n, FALSE)
  BY <1>5, <1>6 DEF WellFormed
<1>8. Open(<<f>>, TRUE, src, begun, 0)
  BY <1>5, <1>6 DEF Open, Endless
<1>9. QED
  BY <1>2, <1>4, <1>7, <1>8, ZenonT(30)


\* Frames queued behind those sent.
LEMMA QueuedBehind ==
    ASSUME NEW s \in Seq(FrameType), NEW f \in FrameType, NEW g \in FrameType
    PROVE  /\ s \o <<>> = s /\ <<>> \o <<f>> = <<f>>
           /\ s \o <<f>> = Append(s, f)
           /\ <<f>> \o <<g>> = <<f, g>>
           /\ s \o (<<f>> \o <<g>>) = Append(s, f) \o <<g>>
           /\ s \o <<f, g>> = Append(Append(s, f), g)
<1>1. s \o <<>> = s /\ <<>> \o <<f>> = <<f>>
  OBVIOUS
<1>2. \A r \in Seq(FrameType), h \in FrameType : r \o <<h>> = Append(r, h)
  OBVIOUS
<1>a. /\ <<f, g>> \in Seq(FrameType) /\ Len(<<f, g>>) = 2
      /\ <<f, g>>[1] = f /\ <<f, g>>[2] = g
  OBVIOUS
<1>b. /\ Append(<<f>>, g) \in Seq(FrameType) /\ Len(Append(<<f>>, g)) = 2
      /\ Append(<<f>>, g)[1] = f /\ Append(<<f>>, g)[2] = g
  OBVIOUS
<1>c. \A i \in 1..2 : i = 1 \/ i = 2
  OBVIOUS
<1>3. <<f>> \in Seq(FrameType) /\ <<g>> \in Seq(FrameType) /\ Append(<<f>>, g) = <<f, g>>
  <2>1. \A i \in 1..Len(<<f, g>>) : <<f, g>>[i] = Append(<<f>>, g)[i]
    BY <1>a, <1>b, <1>c
  <2>2. <<f, g>> = Append(<<f>>, g)
    BY <1>a, <1>b, <2>1, SeqEqual, ZenonT(30)
  <2>3. <<f>> \in Seq(FrameType) /\ <<g>> \in Seq(FrameType)
    OBVIOUS
  <2>4. QED
    BY <2>2, <2>3, ZenonT(30)
<1>4. <<f>> \o <<g>> = <<f, g>>
  BY <1>2, <1>3, ZenonT(30)
<1>5. s \o (<<f>> \o <<g>>) = (s \o <<f>>) \o <<g>>
  BY <1>3, ConcatAssociative
<1>6. Append(s, f) \in Seq(FrameType)
  OBVIOUS
<1>7. QED
  BY <1>1, <1>2, <1>4, <1>5, <1>6, ZenonT(30)

\* A frame that is delivered stays where it is among the frames.
LEMMA DeliveredInPlace ==
    ASSUME NEW s \in Seq(FrameType), NEW t \in Seq(FrameType), t # <<>>
    PROVE  Append(s, Head(t)) \o Tail(t) = s \o t
<1> DEFINE h == <<Head(t)>>
<1>1. Head(t) \in FrameType /\ Tail(t) \in Seq(FrameType)
  OBVIOUS
<1>2. h \in Seq(FrameType) /\ Append(s, Head(t)) = s \o h
  BY <1>1
<1>3. t = h \o Tail(t)
  BY <1>1
<1> HIDE DEF h
<1>4. (s \o h) \o Tail(t) = s \o (h \o Tail(t))
  BY <1>1, <1>2, ConcatAssociative
<1>5. QED
  BY <1>2, <1>3, <1>4

\* An open stream that fails, and one whose choices are finished.
LEMMA OpenEnds ==
    ASSUME NEW s \in Seq(FrameType), NEW chat \in BOOLEAN, NEW n,
           WellFormed(s, chat, n, FALSE), Endless(s), chat => s # <<>>,
           NEW e \in FrameType, e.kind = "error", NEW u \in FrameType, u.kind = "usage",
           NEW d \in FrameType, d.kind = "done"
    PROVE  /\ (chat => In(s, "finish") = {}) => WellFormed(s \o <<e, d>>, chat, n, TRUE)
           /\ Cardinality(In(s, "finish")) = (IF chat THEN 1 ELSE n) =>
                 WellFormed(s \o <<u, d>>, chat, n, TRUE) /\ WellFormed(s \o <<d>>, chat, n, TRUE)
<1>1. ASSUME NEW f \in FrameType
      PROVE  LET H == Append(Append(s, f), d)
             IN  /\ H \in Seq(FrameType) /\ Len(H) = Len(s) + 2 /\ H[Len(s) + 2] = d
                 /\ H[Len(s) + 1] = f /\ \A i \in 1..Len(s) : H[i] = s[i]
                 /\ s \o <<f, d>> = H
  <2>1. s \o <<f, d>> = Append(Append(s, f), d)
    BY QueuedBehind
  <2>2. QED
    BY <2>1
<1>2. ASSUME chat => In(s, "finish") = {} PROVE WellFormed(s \o <<e, d>>, chat, n, TRUE)
  <2> DEFINE H == Append(Append(s, e), d)
  <2>1. /\ H \in Seq(FrameType) /\ Len(H) = Len(s) + 2 /\ H[Len(s) + 2] = d
        /\ H[Len(s) + 1] = e /\ \A i \in 1..Len(s) : H[i] = s[i]
        /\ s \o <<e, d>> = H
    BY <1>1
  <2> HIDE DEF H
  <2>2. WellFormed(H, chat, n, TRUE)
    BY <1>2, <2>1, EndAdded, ZenonT(30)
  <2>3. QED
    BY <2>1, <2>2, ZenonT(30)
<1>3. ASSUME Cardinality(In(s, "finish")) = (IF chat THEN 1 ELSE n)
      PROVE  WellFormed(s \o <<u, d>>, chat, n, TRUE)
  <2> DEFINE H == Append(Append(s, u), d)
  <2>1. /\ H \in Seq(FrameType) /\ Len(H) = Len(s) + 2 /\ H[Len(s) + 2] = d
        /\ H[Len(s) + 1] = u /\ \A i \in 1..Len(s) : H[i] = s[i]
        /\ s \o <<u, d>> = H
    BY <1>1
  <2> HIDE DEF H
  <2>2. WellFormed(H, chat, n, TRUE)
    BY <1>3, <2>1, EndAdded, ZenonT(30)
  <2>3. QED
    BY <2>1, <2>2, ZenonT(30)
<1>4. ASSUME Cardinality(In(s, "finish")) = (IF chat THEN 1 ELSE n)
      PROVE  WellFormed(s \o <<d>>, chat, n, TRUE)
  <2> DEFINE H == Append(s, d)
  <2>1. /\ H \in Seq(FrameType) /\ Len(H) = Len(s) + 1 /\ H[Len(s) + 1] = d
        /\ \A i \in 1..Len(s) : H[i] = s[i]
        /\ s \o <<d>> = H
    OBVIOUS
  <2>2. Len(s) + 1 # Len(s) + 2
    OBVIOUS
  <2> HIDE DEF H
  <2>3. WellFormed(H, chat, n, TRUE)
    BY <1>4, <2>1, <2>2, EndAdded, ZenonT(30)
  <2>4. QED
    BY <2>1, <2>3, ZenonT(30)
<1>5. QED
  BY <1>2, <1>3, <1>4, ZenonT(30)


\* The frames of the encoders by their kinds.
LEMMA KindsOfFrames ==
    ASSUME index \in Nat, NEW k \in Kinds
    PROVE  /\ Frame(k) \in FrameType /\ Frame(k).kind = k /\ Frame(k).index = 0
           /\ Choice(k) \in FrameType /\ Choice(k).kind = k /\ Choice(k).index = index
BY DEF Frame, Choice, FrameType

\* An encoder that has nothing queued holds an open stream.
LEMMA OpenWhileAwaiting ==
    ASSUME Types, Grammar, NEW src, Awaiting(src)
    PROVE  /\ sent \in Seq(FrameType) /\ index \in Nat /\ started \in BOOLEAN
           /\ Chat \in BOOLEAN /\ Frames = sent
           /\ WellFormed(sent, Chat, req.n, FALSE)
           /\ Open(sent, Chat, src, started, index)
           /\ Endless(sent) /\ (Chat => sent # <<>> /\ In(sent, "finish") = {})
<1>1. sent \in Seq(FrameType) /\ index \in Nat /\ started \in BOOLEAN /\ pending = <<>>
  BY DEF Types, TypeOK, Awaiting
<1>2. Frames = sent
  BY <1>1 DEF Frames
<1>3. finished = FALSE /\ source = src /\ stage = "body" /\ Chat \in BOOLEAN
  BY DEF Awaiting, Chat, Types, TypeOK
<1>4. WellFormed(sent, Chat, req.n, FALSE) /\ Open(sent, Chat, src, started, index)
  BY <1>2, <1>3, ZenonT(30) DEF Grammar
<1>5. QED
  BY <1>1, <1>2, <1>3, <1>4, ZenonT(30) DEF Open

\* A stream that fails ends well formed.
LEMMA FailEnds ==
    ASSUME Types, Grammar, NEW src, Awaiting(src), Fail, sent' = sent, req' = req, stage' = "body"
    PROVE  Grammar'
<1> DEFINE e == Frame("error")
           d == Frame("done")
           u == Frame("usage")
<1>1. /\ e \in FrameType /\ d \in FrameType /\ u \in FrameType
      /\ e.kind = "error" /\ d.kind = "done" /\ u.kind = "usage"
  BY KindsOfFrames DEF Kinds, Types
<1>2. Frames' = sent \o <<e, d>> /\ finished' = TRUE /\ Chat' = Chat
  BY DEF Frames, Fail, Chat
<1> HIDE DEF e, d, u
<1>3. WellFormed(sent \o <<e, d>>, Chat, req.n, TRUE)
  BY <1>1, OpenWhileAwaiting, OpenEnds, ZenonT(30)
<1>4. QED
  BY <1>2, <1>3, ZenonT(30) DEF Grammar

\* The frames that close a stream end it well formed once every choice is
\* finished.
LEMMA ClosingEnds ==
    ASSUME Types, NEW s \in Seq(FrameType), NEW chat \in BOOLEAN, NEW n,
           WellFormed(s, chat, n, FALSE), Endless(s), chat => s # <<>>,
           Cardinality(In(s, "finish")) = (IF chat THEN 1 ELSE n)
    PROVE  WellFormed(s \o Closing, chat, n, TRUE)
<1> DEFINE e == Frame("error")
           d == Frame("done")
           u == Frame("usage")
<1>1. /\ e \in FrameType /\ d \in FrameType /\ u \in FrameType
      /\ e.kind = "error" /\ d.kind = "done" /\ u.kind = "usage"
  BY KindsOfFrames DEF Kinds, Types
<1>2. Closing = (IF req.usage THEN <<u>> ELSE <<>>) \o <<d>>
  BY DEF Closing
<1> HIDE DEF e, d, u
<1>3. <<u>> \o <<d>> = <<u, d>> /\ <<>> \o <<d>> = <<d>>
  BY <1>1, QueuedBehind, ZenonT(30)
<1>4. Closing = <<u, d>> \/ Closing = <<d>>
  BY <1>2, <1>3, ZenonT(30)
<1>5. WellFormed(s \o <<u, d>>, chat, n, TRUE) /\ WellFormed(s \o <<d>>, chat, n, TRUE)
  BY <1>1, OpenEnds, ZenonT(30)
<1>6. QED
  BY <1>4, <1>5, ZenonT(30)

\* A chat that is closed ends well formed.
LEMMA CloseEnds ==
    ASSUME Types, Grammar, NEW src, Awaiting(src), Chat, NEW reason, Close(reason),
           sent' = sent, req' = req, stage' = "body"
    PROVE  Grammar'
<1> DEFINE f == Frame("finish")
           G == Append(sent, f)
<1>1. f \in FrameType /\ f.kind = "finish"
  BY KindsOfFrames DEF Kinds, Types
<1>2. Frames' = sent \o (<<f>> \o Closing) /\ finished' = TRUE /\ Chat' = Chat
  BY DEF Frames, Close, Chat
<1> HIDE DEF f
<1>3. /\ sent \in Seq(FrameType) /\ WellFormed(sent, TRUE, req.n, FALSE) /\ Endless(sent)
      /\ sent # <<>> /\ In(sent, "finish") = {}
  <2>1. Chat = TRUE
    BY OpenWhileAwaiting
  <2>2. QED
    BY <2>1, OpenWhileAwaiting, ZenonT(30)
<1>4. G \in Seq(FrameType) /\ G # <<>>
  BY <1>1, <1>3, OneMore
<1>5. WellFormed(G, TRUE, req.n, FALSE) /\ Endless(G)
  BY <1>1, <1>3, FrameAdded, ZenonT(30)
<1>6. Cardinality(In(G, "finish")) = 1
  <2>1. Cardinality(In(G, "finish")) = Cardinality(In(sent, "finish")) + 1
    BY <1>1, <1>3, OneMoreCounted
  <2>2. Cardinality({}) = 0
    BY FS_EmptySet
  <2>3. Cardinality(In(sent, "finish")) = 0
    BY <1>3, <2>2, ZenonT(30)
  <2> HIDE DEF G
  <2>4. QED
    BY <2>1, <2>3
<1> HIDE DEF G
<1>7. WellFormed(G \o Closing, TRUE, req.n, TRUE)
  BY <1>4, <1>5, <1>6, ClosingEnds, ZenonT(30)
<1>8. sent \o (<<f>> \o Closing) = G \o Closing
  <2>1. Closing \in Seq(FrameType)
    BY RequestsAssumption, FramesAtTheEnd DEF Types, TypeOK
  <2>2. <<f>> \in Seq(FrameType) /\ G = sent \o <<f>>
    BY <1>1, <1>3 DEF G
  <2>3. QED
    BY <1>3, <2>1, <2>2, ConcatAssociative
<1>9. Chat = TRUE
  BY OpenWhileAwaiting
<1>10. QED
  BY <1>2, <1>7, <1>8, <1>9, ZenonT(30) DEF Grammar


\* A step that queues nothing, of a handler that goes on as it was or ends.
LEMMA NothingQueued ==
    ASSUME Grammar, Frames' = Frames, UNCHANGED <<req, finished>>,
           \/ stage' \in {"drop", "gone"}
           \/ UNCHANGED <<stage, source, started, index>>
    PROVE  Grammar'
<1>1. Chat' = Chat /\ req'.n = req.n
  BY DEF Chat
<1>2. QED
  BY <1>1 DEF Grammar

\* A step of an encoder that queues one frame of an open stream.
LEMMA OneQueued ==
    ASSUME Types, Grammar, NEW src, Awaiting(src), NEW f \in FrameType, pending' = <<f>>,
           UNCHANGED <<req, sent, stage, finished>>,
           /\ WellFormed(Append(sent, f), Chat, req.n, FALSE)
           /\ Open(Append(sent, f), Chat, source', started', index')
    PROVE  Grammar'
<1>1. Frames' = Append(sent, f)
  <2>1. sent \in Seq(FrameType)
    BY DEF Types
  <2>2. sent \o <<f>> = Append(sent, f)
    BY <2>1, QueuedBehind
  <2>3. QED
    BY <2>2 DEF Frames
<1>2. Chat' = Chat /\ req'.n = req.n /\ stage' = "body" /\ finished' = FALSE
  BY DEF Chat, Awaiting, Types, TypeOK
<1>3. QED
  BY <1>1, <1>2, ZenonT(30) DEF Grammar

\* A step of an encoder that queues nothing and moves its source on.
LEMMA NoneQueued ==
    ASSUME Types, Grammar, NEW src, Awaiting(src), pending' = <<>>,
           UNCHANGED <<req, sent, stage, finished>>,
           Open(sent, Chat, source', started', index')
    PROVE  Grammar'
<1>1. Frames' = sent /\ Frames = sent
  <2>1. sent \o <<>> = sent
    BY DEF Types
  <2>2. QED
    BY <2>1, OpenWhileAwaiting, ZenonT(30) DEF Frames
<1>2. Chat' = Chat /\ req'.n = req.n /\ stage' = "body" /\ finished' = FALSE
  BY DEF Chat, Awaiting, Types, TypeOK
<1>3. WellFormed(sent, Chat, req.n, FALSE)
  BY OpenWhileAwaiting, ZenonT(30)
<1>4. QED
  BY <1>1, <1>2, <1>3 DEF Grammar

\* A chat stream opens with its role frame, when it is queued or when its
\* generation has started.
LEMMA RoleOpens ==
    ASSUME Types, Grammar, stage \in {"admit", "generate"}, Chat, ~finished,
           pending' = <<Frame("role")>>, UNCHANGED <<req, sent, index, started, finished>>,
           source' \in {"queued", "running"}, stage' = "body"
    PROVE  Grammar'
<1> DEFINE f == Frame("role")
<1>1. f \in FrameType /\ f.kind = "role" /\ f.index = 0
  BY KindsOfFrames DEF Kinds, Types
<1>2. sent \o pending = <<>> /\ sent \in Seq(FrameType) /\ pending \in Seq(FrameType)
  BY DEF Grammar, Frames, Types
<1>3. sent = <<>>
  BY <1>2
<1>4. Frames' = <<>> \o <<f>>
  BY <1>3 DEF Frames
<1> HIDE DEF f
<1>5. <<>> \o <<f>> = <<f>>
  BY <1>1, QueuedBehind
<1>6. Chat' = TRUE /\ req'.n = req.n /\ finished' = FALSE /\ index' = 0 /\ Chat = TRUE
  BY DEF Chat, Types, TypeOK
<1>7. WellFormed(<<f>>, TRUE, req.n, FALSE) /\ Open(<<f>>, TRUE, source', started', 0)
  BY <1>1, OpenBegins, ZenonT(30)
<1>8. QED
  BY <1>4, <1>5, <1>6, <1>7, ZenonT(30) DEF Grammar

\* No frame has been sent to a request that has just arrived.
LEMMA GrammarInit == Init => Grammar
<1> SUFFICES ASSUME Init PROVE Grammar
  OBVIOUS
<1>1. Frames = <<>> /\ stage = "admit" /\ source = None /\ finished = FALSE
  BY DEF Init, Frames
<1>2. [kind |-> "role", index |-> 0] \in FrameType
  BY DEF FrameType, Kinds
<1>3. Chat \in BOOLEAN
  BY DEF Chat
<1>4. WellFormed(<<>>, TRUE, req.n, FALSE) /\ WellFormed(<<>>, FALSE, req.n, FALSE)
  BY <1>2, OpenBegins, ZenonT(30)
<1>5. QED
  BY <1>1, <1>3, <1>4, ZenonT(30) DEF Grammar


\* Every step keeps the frames in order.
LEMMA GrammarStep ==
    Types /\ Books /\ Outcome /\ Grammar /\ [Next]_vars => Grammar'
<1> SUFFICES ASSUME Types, Books, Outcome, Grammar, [Next]_vars PROVE Grammar'
  OBVIOUS
<1> USE DEF queueVars, engineVars, frameVars, guardVars, bookVars
<1>1. CASE AdmitNow \/ TakeGrant
  <2>1. /\ Serve /\ stage \in {"admit", "wait"} /\ UNCHANGED <<req, frameVars>>
        /\ Frames' = Frames /\ source = None /\ index = 0 /\ Frames = <<>>
    BY <1>1 DEF AdmitNow, TakeGrant, Serve, Frames, Grammar, Types
  <2>2. Chat' = Chat /\ req'.n = req.n
    BY <2>1 DEF Chat
  <2>3. CASE stage' \in {"generate", "collect"}
    BY <2>1, <2>2, <2>3 DEF Grammar
  <2>4. CASE stage' = "body"
    <3>1. Chat = FALSE /\ source' = None /\ index' = 0
      BY <2>1, <2>4 DEF Serve, Chat
    <3>2. [kind |-> "role", index |-> 0] \in FrameType
      BY DEF FrameType, Kinds
    <3>3. Open(<<>>, FALSE, None, started', 0)
      BY <3>2, OpenBegins, ZenonT(30)
    <3>4. QED
      BY <2>1, <2>2, <2>4, <3>1, <3>3, ZenonT(30) DEF Grammar
  <2>5. QED
    BY <2>1, <2>3, <2>4 DEF Serve
<1>2. CASE Enqueue
  <2>1. CASE Chat /\ req.stream
    BY <1>2, <2>1, RoleOpens DEF Enqueue, Outcome
  <2>2. CASE ~(Chat /\ req.stream)
    <3>1. /\ Frames' = Frames /\ UNCHANGED <<req, finished>> /\ stage = "admit"
          /\ stage' = "wait" /\ source' = source
      BY <1>2, <2>2 DEF Enqueue, Frames
    <3>2. Chat' = Chat /\ req'.n = req.n
      BY <3>1 DEF Chat
    <3>3. QED
      BY <3>1, <3>2 DEF Grammar
  <2>3. QED
    BY <2>1, <2>2
<1>3. CASE GenerateOk
  <2>1. CASE req.stream
    BY <1>3, <2>1, RoleOpens DEF GenerateOk, Outcome, Books
  <2>2. CASE ~req.stream
    <3>1. /\ Frames' = Frames /\ UNCHANGED <<req, finished>> /\ stage = "generate"
          /\ stage' = "collect"
      BY <1>3, <2>2 DEF GenerateOk, Frames
    <3>2. Chat' = Chat /\ req'.n = req.n
      BY <3>1 DEF Chat
    <3>3. QED
      BY <3>1, <3>2 DEF Grammar
  <2>3. QED
    BY <2>1, <2>2
<1>4. CASE WaitFails \/ GenerateFails \/ EndOfBody \/ Grant \/ Disconnect \/ Dropped
  <2>1. /\ Frames' = Frames /\ UNCHANGED <<req, finished>>
        /\ \/ stage' \in {"drop", "gone"}
           \/ UNCHANGED <<stage, source, started, index>>
    BY <1>4
       DEF WaitFails, GenerateFails, EndOfBody, Grant, Disconnect, Dropped,
           Teardown, Frames
  <2>2. QED
    BY <2>1, NothingQueued
<1>5. CASE DropSource \/ DropLog \/ DropCancel \/ DropRecord \/ DropPermit
  <2>1. /\ Frames' = Frames /\ UNCHANGED <<req, finished, stage>> /\ drops # <<>>
    BY <1>5 DEF DropSource, DropLog, DropCancel, DropRecord, DropPermit, Frames
  <2>2. stage' \in {"drop", "gone"}
    BY <2>1 DEF Books
  <2>3. QED
    BY <2>1, <2>2, NothingQueued
<1>6. CASE Deliver
  <2>1. Frames' = Frames
    BY <1>6, DeliveredInPlace DEF Deliver, Frames, Types
  <2>2. QED
    BY <1>6, <2>1, NothingQueued DEF Deliver
<1>7. CASE Whole
  <2>1. /\ Frames' = Frames /\ UNCHANGED <<req, finished>> /\ stage = "collect"
        /\ stage' \in {"drop", "collect"}
    BY <1>7
       DEF Whole, CollectStartOk, CollectFails, Collect, CollectEnds,
           CollectFinished, Collecting, Teardown, Frames
  <2>2. CASE stage' = "drop"
    BY <2>1, <2>2, NothingQueued
  <2>3. CASE stage' = "collect"
    <3>1. Chat' = Chat /\ req'.n = req.n
      BY <2>1 DEF Chat
    <3>2. QED
      BY <2>1, <2>3, <3>1 DEF Grammar
  <2>4. QED
    BY <2>1, <2>2, <2>3
<1>8. CASE Admitted
  <2>1. /\ Awaiting("queued") /\ pending' = <<>> /\ UNCHANGED <<req, sent, stage, finished>>
        /\ source' = "transit" /\ UNCHANGED <<started, index>>
    BY <1>8 DEF Admitted, Awaiting
  <2>2. Open(sent, Chat, "transit", started, index)
    BY <2>1, OpenWhileAwaiting, OpenMovesOn, ZenonT(30)
  <2>3. QED
    BY <2>1, <2>2, NoneQueued
<1>9. CASE GaveUp \/ StartFails \/ EngineFails
  <2>1. /\ Awaiting("queued") \/ Awaiting("transit") \/ Awaiting("running")
        /\ Fail /\ sent' = sent /\ req' = req /\ stage' = "body"
    BY <1>9 DEF GaveUp, StartFails, EngineFails, Awaiting
  <2>2. QED
    BY <2>1, FailEnds
<1>10. CASE NextCompletion
  <2>1. /\ Awaiting(None) /\ pending' = <<>> /\ UNCHANGED <<req, sent, stage, finished>>
        /\ source' = "transit" /\ started' = started /\ index' = index + 1
    BY <1>10 DEF NextCompletion, Awaiting
  <2>2. Chat = FALSE
    BY <1>10 DEF NextCompletion, Chat
  <2>3. Open(sent, FALSE, None, started, index)
    BY <2>1, <2>2, OpenWhileAwaiting, ZenonT(30)
  <2>4. Open(sent, FALSE, "transit", started, index + 1)
    BY <2>1, <2>3, OpenWhileAwaiting, OpenMovesOn, ZenonT(30)
  <2>5. QED
    BY <2>1, <2>2, <2>4, NoneQueued, ZenonT(30)
<1>11. CASE CloseCompletions
  <2>1. /\ Awaiting(None) /\ pending' = Closing /\ UNCHANGED <<req, sent, stage>>
        /\ finished' = TRUE /\ left = 0 /\ stage = "body"
    BY <1>11 DEF CloseCompletions, Awaiting
  <2>2. Chat = FALSE /\ Chat' = FALSE
    BY <1>11 DEF CloseCompletions, Chat
  <2>3. /\ sent \in Seq(FrameType) /\ WellFormed(sent, FALSE, req.n, FALSE) /\ Endless(sent)
        /\ Open(sent, FALSE, None, started, index)
    BY <2>1, <2>2, OpenWhileAwaiting, ZenonT(30)
  <2>4. index = req.n
    BY <2>1, <2>2 DEF Types, TypeOK
  <2>5. Cardinality(In(sent, "finish")) = req.n
    <3>1. [kind |-> "role", index |-> 0] \in FrameType
      BY DEF FrameType, Kinds
    <3>2. Cardinality(In(sent, "finish")) \in Nat
      BY <2>3, <3>1, OneMoreCounted
    <3>3. Cardinality(In(sent, "finish")) + 0 = index
      BY <2>3 DEF Open, None
    <3>4. QED
      BY <2>4, <3>2, <3>3
  <2>6. WellFormed(sent \o Closing, FALSE, req.n, TRUE)
    BY <2>3, <2>5, ClosingEnds, ZenonT(30)
  <2>7. Frames' = sent \o Closing /\ stage' = "body" /\ req'.n = req.n
    BY <2>1 DEF Frames
  <2>8. QED
    BY <2>1, <2>2, <2>6, <2>7, ZenonT(30) DEF Grammar
<1>12. CASE StartOk
  <2>1. /\ Awaiting("transit") /\ UNCHANGED <<req, sent, stage, finished>>
        /\ source' = "running" /\ started' = FALSE /\ index' = index
        /\ pending' = <<>> \/ pending' = <<Choice("echo")>>
    BY <1>12 DEF StartOk
  <2>2. Open(sent, Chat, "running", FALSE, index)
    BY <2>1, OpenWhileAwaiting, OpenMovesOn, ZenonT(30)
  <2>3. CASE pending' = <<>>
    BY <2>1, <2>2, <2>3, NoneQueued, ZenonT(30)
  <2>4. CASE pending' = <<Choice("echo")>>
    <3> DEFINE f == Choice("echo")
    <3>1. f \in FrameType /\ f.kind = "echo" /\ f.index = index
      BY KindsOfFrames DEF Kinds, Types
    <3> HIDE DEF f
    <3>2. Goes(f, "running", FALSE, index)
      BY <3>1 DEF Goes
    <3>3. /\ WellFormed(Append(sent, f), Chat, req.n, FALSE)
          /\ Open(Append(sent, f), Chat, "running", FALSE, index)
      BY <2>1, <2>2, <3>1, <3>2, OpenWhileAwaiting, OpenGoesOn, ZenonT(30)
    <3>4. pending' = <<f>>
      BY <2>4 DEF f
    <3>5. QED
      BY <2>1, <3>1, <3>3, <3>4, OneQueued, ZenonT(30)
  <2>5. QED
    BY <2>1, <2>3, <2>4
<1>13. CASE KeepAlive
  <2> DEFINE f == Choice("ping")
  <2>1. /\ Awaiting("running") /\ UNCHANGED <<req, sent, stage, finished>>
        /\ source' = "running" /\ started' = FALSE /\ started = FALSE /\ index' = index
        /\ pending' = <<f>>
    BY <1>13 DEF KeepAlive, Awaiting, Types, TypeOK
  <2>2. f \in FrameType /\ f.kind = "ping" /\ f.index = index
    BY KindsOfFrames DEF Kinds, Types
  <2> HIDE DEF f
  <2>3. Goes(f, "running", FALSE, index)
    BY <2>2 DEF Goes
  <2>4. /\ WellFormed(Append(sent, f), Chat, req.n, FALSE)
        /\ Open(Append(sent, f), Chat, "running", FALSE, index)
    BY <2>1, <2>2, <2>3, OpenWhileAwaiting, OpenGoesOn, ZenonT(30)
  <2>5. QED
    BY <2>1, <2>2, <2>4, OneQueued, ZenonT(30)
<1>14. CASE Notice
  <2> DEFINE f == Frame("notice")
  <2>1. /\ Awaiting("queued") /\ UNCHANGED <<req, sent, stage, finished>>
        /\ source' = "queued" /\ started' = started /\ index' = index
        /\ pending' = <<f>>
    BY <1>14 DEF Notice, Awaiting, Types, TypeOK
  <2>2. f \in FrameType /\ f.kind = "notice" /\ f.index = 0
    BY KindsOfFrames DEF Kinds, Types
  <2> HIDE DEF f
  <2>3. Goes(f, "queued", started, index)
    BY <2>2 DEF Goes
  <2>4. /\ WellFormed(Append(sent, f), Chat, req.n, FALSE)
        /\ Open(Append(sent, f), Chat, "queued", started, index)
    BY <2>1, <2>2, <2>3, OpenWhileAwaiting, OpenGoesOn, ZenonT(30)
  <2>5. QED
    BY <2>1, <2>2, <2>4, OneQueued, ZenonT(30)
<1>15. ASSUME NEW queues \in BOOLEAN, Absorb(queues) PROVE Grammar'
  <2>1. /\ Awaiting("running") /\ UNCHANGED <<req, sent, stage, finished>>
        /\ source' = "running" /\ started' = TRUE /\ index' = index
        /\ pending' = <<>> \/ pending' = <<Choice("delta")>>
    BY <1>15 DEF Absorb, Awaiting
  <2>2. Open(sent, Chat, "running", TRUE, index)
    BY <2>1, OpenWhileAwaiting, OpenMovesOn, ZenonT(30)
  <2>3. CASE pending' = <<>>
    BY <2>1, <2>2, <2>3, NoneQueued, ZenonT(30)
  <2>4. CASE pending' = <<Choice("delta")>>
    <3> DEFINE f == Choice("delta")
    <3>1. f \in FrameType /\ f.kind = "delta" /\ f.index = index
      BY KindsOfFrames DEF Kinds, Types
    <3> HIDE DEF f
    <3>2. Goes(f, "running", TRUE, index)
      BY <3>1 DEF Goes
    <3>3. /\ WellFormed(Append(sent, f), Chat, req.n, FALSE)
          /\ Open(Append(sent, f), Chat, "running", TRUE, index)
      BY <2>1, <2>2, <3>1, <3>2, OpenWhileAwaiting, OpenGoesOn, ZenonT(30)
    <3>4. pending' = <<f>>
      BY <2>4 DEF f
    <3>5. QED
      BY <2>1, <3>1, <3>3, <3>4, OneQueued, ZenonT(30)
  <2>5. QED
    BY <2>1, <2>3, <2>4
<1>16. CASE EngineEnds \/ \E reason \in Reasons : AbsorbFinished(reason)
  <2>1. /\ Awaiting("running") /\ UNCHANGED <<req, sent, stage, index>> /\ stage' = "body"
    BY <1>16 DEF EngineEnds, AbsorbFinished, Awaiting
  <2>2. CASE Chat
    <3>1. PICK reason : Close(reason)
      BY <1>16, <2>2 DEF EngineEnds, AbsorbFinished
    <3>2. QED
      BY <2>1, <2>2, <3>1, CloseEnds
  <2>3. CASE ~Chat
    <3> DEFINE f == Choice("finish")
    <3>1. /\ pending' = <<f>> /\ started' = FALSE /\ source' = None /\ finished' = finished
          /\ Chat = FALSE
      BY <1>16, <2>3 DEF EngineEnds, AbsorbFinished, FinishChoice, Chat
    <3>2. f \in FrameType /\ f.kind = "finish" /\ f.index = index
      BY KindsOfFrames DEF Kinds, Types
    <3> HIDE DEF f
    <3>3. /\ WellFormed(sent, FALSE, req.n, FALSE) /\ sent \in Seq(FrameType) /\ index \in Nat
          /\ Open(sent, FALSE, "running", started, index)
      BY <2>1, <3>1, OpenWhileAwaiting, ZenonT(30)
    <3>4. /\ WellFormed(Append(sent, f), FALSE, req.n, FALSE)
          /\ Open(Append(sent, f), FALSE, None, FALSE, index)
      BY <3>2, <3>3, OpenFinishes, ZenonT(30)
    <3>5. QED
      BY <2>1, <3>1, <3>2, <3>4, OneQueued, ZenonT(30)
  <2>4. QED
    BY <2>2, <2>3
<1>17. CASE UNCHANGED vars
  <2>1. /\ Frames' = Frames /\ UNCHANGED <<req, finished, stage, source, started, index>>
    BY <1>17 DEF vars, Frames
  <2>2. QED
    BY <2>1, NothingQueued
<1>18. QED
  BY <1>1, <1>2, <1>3, <1>4, <1>5, <1>6, <1>7, <1>8, <1>9, <1>10, <1>11, <1>12,
     <1>13, <1>14, <1>15, <1>16, <1>17
     DEF Next, Entry, Body, Drop

\* The frames a client reads are in order at every instant of every stream
\* (encode and close of stream.rs, encode and finish_choice of completions.rs):
\* for any request, any number of completions, engine events, keep-alives and
\* notices.
THEOREM StreamIsWellFormedHolds == Spec => []StreamIsWellFormed
<1>1. Init => Outcome /\ Grammar
  BY OutcomeInit, GrammarInit
<1>2. Types /\ Books /\ Outcome /\ Grammar /\ [Next]_vars => Outcome' /\ Grammar'
  BY OutcomeStep, GrammarStep
<1>3. Grammar => StreamIsWellFormed
  BY ZenonT(30) DEF Grammar, WellFormed, StreamIsWellFormed, In, At
<1>4. QED
  BY <1>1, <1>2, <1>3, BooksInvariant, PTL DEF Spec
=============================================================================

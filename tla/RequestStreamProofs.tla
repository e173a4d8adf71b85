------------------------- MODULE RequestStreamProofs -------------------------
(***************************************************************************)
(* Proofs about one generation request, for any request, any number of     *)
(* completions, engine events and keep-alives.  The invariants are proved  *)
(* in layers: types; the order in which a handler lets go of what it       *)
(* holds, which gives AccountedBeforeRelease; and what is known of the     *)
(* outcome at each stage, which gives OutcomeIsTrue.                       *)
(***************************************************************************)
EXTENDS RequestStream, SequenceTheorems, TLAPS

\* The provers have half a minute for each leaf.
USE SMTT(30), ZenonT(30)

Kinds == {"role", "notice", "echo", "ping", "delta", "finish", "usage", "done",
          "error"}
FrameType == [kind : Kinds, index : Nat]

(***************************************************************************)
(* Facts about frames: which of the queues the encoders build hold an      *)
(* error.                                                                  *)
(***************************************************************************)
ErrIn(s) == \E i \in DOMAIN s : s[i].kind = "error"

\* Of what the encoders queue at once, only a failure's frames hold an error.
LEMMA FramesOfTheEncoders ==
    ASSUME index \in Nat, RequestsAssumption, req \in Requests
    PROVE  /\ <<>> \in Seq(FrameType) /\ ~ErrIn(<<>>)
           /\ <<Frame("role")>> \in Seq(FrameType)
           /\ ~ErrIn(<<Frame("role")>>)
           /\ <<Frame("notice")>> \in Seq(FrameType)
           /\ ~ErrIn(<<Frame("notice")>>)
           /\ <<Choice("echo")>> \in Seq(FrameType)
           /\ ~ErrIn(<<Choice("echo")>>)
           /\ <<Choice("ping")>> \in Seq(FrameType)
           /\ ~ErrIn(<<Choice("ping")>>)
           /\ <<Choice("delta")>> \in Seq(FrameType)
           /\ ~ErrIn(<<Choice("delta")>>)
           /\ <<Choice("finish")>> \in Seq(FrameType)
           /\ ~ErrIn(<<Choice("finish")>>)
           /\ <<Frame("error"), Frame("done")>> \in Seq(FrameType)
           /\ ErrIn(<<Frame("error"), Frame("done")>>)
<1>1. \A k \in Kinds : Frame(k) \in FrameType /\ Frame(k).kind = k
  BY DEF Frame, FrameType
<1>2. \A k \in Kinds : Choice(k) \in FrameType /\ Choice(k).kind = k
  BY DEF Choice, FrameType
<1>3. \A f \in FrameType : /\ <<f>> \in Seq(FrameType)
                            /\ ErrIn(<<f>>) <=> f.kind = "error"
  BY DEF ErrIn
<1>4. <<>> \in Seq(FrameType) /\ ~ErrIn(<<>>)
  BY DEF ErrIn
<1>5. /\ <<Frame("error"), Frame("done")>> \in Seq(FrameType)
      /\ ErrIn(<<Frame("error"), Frame("done")>>)
  BY <1>1 DEF ErrIn, Kinds
<1>6. QED
  BY <1>1, <1>2, <1>3, <1>4, <1>5 DEF Kinds

\* Two queues one after the other hold an error if one of them does.
LEMMA ErrorsOfBoth ==
    ASSUME NEW s \in Seq(FrameType), NEW t \in Seq(FrameType)
    PROVE  s \o t \in Seq(FrameType) /\ (ErrIn(s \o t) <=> ErrIn(s) \/ ErrIn(t))
<1>1. s \o t \in Seq(FrameType)
  OBVIOUS
<1>2. ASSUME ErrIn(s) PROVE ErrIn(s \o t)
  <2>1. PICK i \in DOMAIN s : s[i].kind = "error"
    BY <1>2 DEF ErrIn
  <2>2. i \in DOMAIN (s \o t) /\ (s \o t)[i] = s[i]
    OBVIOUS
  <2>3. QED
    BY <2>1, <2>2 DEF ErrIn
<1>3. ASSUME ErrIn(t) PROVE ErrIn(s \o t)
  <2>1. PICK i \in DOMAIN t : t[i].kind = "error"
    BY <1>3 DEF ErrIn
  <2>2. Len(s) + i \in DOMAIN (s \o t) /\ (s \o t)[Len(s) + i] = t[i]
    OBVIOUS
  <2>3. QED
    BY <2>1, <2>2 DEF ErrIn
<1>4. ASSUME ErrIn(s \o t) PROVE ErrIn(s) \/ ErrIn(t)
  <2>1. PICK i \in DOMAIN (s \o t) : (s \o t)[i].kind = "error"
    BY <1>4 DEF ErrIn
  <2>2. CASE i <= Len(s)
    <3>1. i \in DOMAIN s /\ (s \o t)[i] = s[i]
      BY <2>2
    <3>2. QED
      BY <2>1, <3>1 DEF ErrIn
  <2>3. CASE ~(i <= Len(s))
    <3>1. i - Len(s) \in DOMAIN t /\ (s \o t)[i] = t[i - Len(s)]
      BY <2>3
    <3>2. QED
      BY <2>1, <3>1 DEF ErrIn
  <2>4. QED
    BY <2>2, <2>3
<1>5. QED
  BY <1>1, <1>2, <1>3, <1>4

\* The frames that close a stream hold no error.
LEMMA FramesAtTheEnd ==
    ASSUME RequestsAssumption, req \in Requests
    PROVE  /\ Closing \in Seq(FrameType) /\ ~ErrIn(Closing)
           /\ <<Frame("finish")>> \o Closing \in Seq(FrameType)
           /\ ~ErrIn(<<Frame("finish")>> \o Closing)
<1> DEFINE usage == IF req.usage THEN <<Frame("usage")>> ELSE <<>>
<1>1. \A k \in Kinds :
          <<Frame(k)>> \in Seq(FrameType) /\ (ErrIn(<<Frame(k)>>) <=> k = "error")
  BY DEF Frame, FrameType, ErrIn
<1>2. usage \in Seq(FrameType) /\ ~ErrIn(usage)
  BY <1>1 DEF ErrIn, Kinds
<1>3. Closing = usage \o <<Frame("done")>>
  BY DEF Closing
<1> HIDE DEF usage
<1>4. Closing \in Seq(FrameType) /\ ~ErrIn(Closing)
  <2>1. <<Frame("done")>> \in Seq(FrameType) /\ ~ErrIn(<<Frame("done")>>)
    BY <1>1 DEF Kinds
  <2>2. QED
    BY <1>2, <1>3, <2>1, ErrorsOfBoth, ZenonT(30)
<1>5. <<Frame("finish")>> \in Seq(FrameType) /\ ~ErrIn(<<Frame("finish")>>)
  BY <1>1 DEF Kinds
<1>6. QED
  BY <1>4, <1>5, ErrorsOfBoth, ZenonT(30)

\* Delivering a frame neither loses nor makes an error.
LEMMA DeliveredFrame ==
    ASSUME NEW s \in Seq(FrameType), NEW t \in Seq(FrameType), s # <<>>
    PROVE  /\ Append(t, Head(s)) \in Seq(FrameType) /\ Tail(s) \in Seq(FrameType)
           /\ ErrIn(Append(t, Head(s))) \/ ErrIn(Tail(s)) <=> ErrIn(t) \/ ErrIn(s)
<1> DEFINE h == <<Head(s)>>
<1>1. Head(s) \in FrameType /\ Tail(s) \in Seq(FrameType)
  OBVIOUS
<1>2. h \in Seq(FrameType)
  BY <1>1
<1>3. Append(t, Head(s)) = t \o h
  BY <1>1
<1>4. s = h \o Tail(s)
  BY <1>1
<1> HIDE DEF h
<1>5. ErrIn(t \o h) <=> ErrIn(t) \/ ErrIn(h)
  BY <1>2, ErrorsOfBoth, ZenonT(30)
<1>6. ErrIn(h \o Tail(s)) <=> ErrIn(h) \/ ErrIn(Tail(s))
  BY <1>1, <1>2, ErrorsOfBoth, ZenonT(30)
<1>7. ErrIn(s) <=> ErrIn(h) \/ ErrIn(Tail(s))
  BY <1>4, <1>6, ZenonT(30)
<1>8. Append(t, Head(s)) \in Seq(FrameType)
  BY <1>1
<1>9. QED
  BY <1>1, <1>3, <1>5, <1>7, <1>8, ZenonT(30)

-----------------------------------------------------------------------------
(* Types. *)

Types ==
    /\ TypeOK
    /\ index \in Nat
    /\ pending \in Seq(FrameType) /\ sent \in Seq(FrameType)
    /\ stage \in {"admit", "wait"} => index = 0

\* A request starts within its types.
LEMMA TypesInit == Init => Types
<1> SUFFICES ASSUME Init PROVE Types
  OBVIOUS
<1> USE RequestsAssumption, BoundsAssumption
<1>a. events \in 0..MaxEvents /\ signals \in 0..MaxSignals
  BY DEF Init
<1>b. left \in Nat /\ left + index = (IF Chat THEN 0 ELSE req.n)
  BY DEF Init
<1>1. TypeOK
  BY <1>a, <1>b, ZenonT(30) DEF Init, TypeOK, None, Reasons
<1>2. pending \in Seq(FrameType) /\ sent \in Seq(FrameType) /\ index = 0
  BY DEF Init
<1>3. QED
  BY <1>1, <1>2 DEF Types

\* Every step of a handler, its client or its engine keeps the types.
LEMMA TypesStep ==
    Types /\ [Next]_vars => Types'
<1> SUFFICES ASSUME Types, [Next]_vars PROVE Types'
  OBVIOUS
<1> USE RequestsAssumption, BoundsAssumption
        DEF None, Reasons, queueVars, engineVars, frameVars, guardVars, bookVars
<1>1. CASE AdmitNow
  BY <1>1 DEF AdmitNow, Serve, Types, TypeOK, Chat
<1>2. CASE Enqueue
  <2>1. pending' \in Seq(FrameType)
    BY <1>2, FramesOfTheEncoders, ZenonT(30) DEF Types, TypeOK, Enqueue
  <2>2. QED
    BY <1>2, <2>1 DEF Enqueue, Types, TypeOK, Chat
<1>3. CASE TakeGrant
  BY <1>3 DEF TakeGrant, Serve, Types, TypeOK, Chat
<1>4. CASE WaitFails
  BY <1>4 DEF WaitFails, Types, TypeOK, Chat
<1>5. CASE GenerateOk
  <2>1. pending' \in Seq(FrameType)
    BY <1>5, FramesOfTheEncoders, ZenonT(30) DEF Types, TypeOK, GenerateOk
  <2>2. QED
    BY <1>5, <2>1 DEF GenerateOk, Types, TypeOK, Chat
<1>6. CASE GenerateFails
  BY <1>6 DEF GenerateFails, Types, TypeOK, Chat, Teardown
<1>7. CASE Deliver
  <2>1. pending' \in Seq(FrameType) /\ sent' \in Seq(FrameType)
    BY <1>7, DeliveredFrame DEF Types, TypeOK, Deliver
  <2>2. QED
    BY <1>7, <2>1 DEF Deliver, Types, TypeOK, Chat
<1>8. CASE EndOfBody
  BY <1>8 DEF EndOfBody, Types, TypeOK, Chat, Teardown
<1>9. CASE Admitted
  BY <1>9 DEF Admitted, Awaiting, Types, TypeOK, Chat
<1>10. CASE GaveUp
  <2>1. pending' \in Seq(FrameType)
    BY <1>10, FramesOfTheEncoders DEF Types, TypeOK, GaveUp, Awaiting, Fail
  <2>2. QED
    BY <1>10, <2>1 DEF GaveUp, Awaiting, Fail, Types, TypeOK, Chat
<1>11. CASE NextCompletion
  BY <1>11 DEF NextCompletion, Awaiting, Types, TypeOK, Chat
<1>12. CASE CloseCompletions
  <2>1. pending' \in Seq(FrameType)
    BY <1>12, FramesAtTheEnd DEF Types, TypeOK, CloseCompletions, Awaiting
  <2>2. QED
    BY <1>12, <2>1 DEF CloseCompletions, Awaiting, Types, TypeOK, Chat, Completed
<1>13. CASE StartOk
  <2>1. pending' \in Seq(FrameType)
    BY <1>13, FramesOfTheEncoders DEF Types, TypeOK, StartOk, Awaiting
  <2>2. /\ source' = "running" /\ engine' = "open" /\ started' = FALSE
        /\ UNCHANGED <<req, stage, ticket, events, left, index, sent, finished, signals,
                       client, answer, permit, token, finish, ending>>
    BY <1>13 DEF StartOk
  <2>3. left' \in Nat /\ left' + index' = (IF Chat' THEN 0 ELSE req'.n)
    BY <2>2 DEF Types, TypeOK, Chat
  <2>4. /\ req' \in Requests
        /\ stage' \in {"admit", "wait", "generate", "body", "collect", "drop", "gone"}
        /\ ticket' \in {None, "waiting", "granted", "closed"}
        /\ source' \in {None, "queued", "transit", "running"}
        /\ engine' \in {"closed", "open", "spent"}
        /\ events' \in 0..MaxEvents /\ signals' \in 0..MaxSignals
    BY <2>2 DEF Types, TypeOK
  <2>5. /\ started' \in BOOLEAN /\ finished' \in BOOLEAN
        /\ client' \in {"here", "left"}
        /\ answer' \in {None, "ok", "busy", "error"}
        /\ permit' \in BOOLEAN /\ token' \in BOOLEAN
        /\ finish' \in Reasons \cup {None, "error"}
        /\ ending' \in {"cancelled", "completed", "failed"}
    BY <2>2, ZenonT(30) DEF Types, TypeOK
  <2>6. TypeOK'
    BY <2>3, <2>4, <2>5, ZenonT(30) DEF TypeOK
  <2>7. QED
    BY <2>1, <2>2, <2>6 DEF Types
<1>14. CASE StartFails
  <2>1. pending' \in Seq(FrameType)
    BY <1>14, FramesOfTheEncoders DEF Types, TypeOK, StartFails, Awaiting, Fail
  <2>2. QED
    BY <1>14, <2>1 DEF StartFails, Awaiting, Fail, Types, TypeOK, Chat
<1>15. ASSUME NEW queues \in BOOLEAN, Absorb(queues) PROVE Types'
  <2>1. pending' \in Seq(FrameType)
    BY <1>15, FramesOfTheEncoders DEF Types, TypeOK, Absorb, Awaiting
  <2>2. QED
    BY <1>15, <2>1 DEF Absorb, Awaiting, Types, TypeOK, Chat
<1>16. ASSUME NEW reason \in Reasons, AbsorbFinished(reason) PROVE Types'
  <2>1. pending' \in Seq(FrameType)
    BY <1>16, FramesOfTheEncoders, FramesAtTheEnd, ZenonT(30)
       DEF Types, TypeOK, AbsorbFinished, Awaiting, Close, FinishChoice
  <2>2. QED
    BY <1>16, <2>1, ZenonT(30)
       DEF AbsorbFinished, Awaiting, Close, FinishChoice, Types, TypeOK, Chat,
           Completed
<1>17. CASE EngineEnds
  <2>1. pending' \in Seq(FrameType)
    BY <1>17, FramesOfTheEncoders, FramesAtTheEnd, ZenonT(30)
       DEF Types, TypeOK, EngineEnds, Awaiting, Close, FinishChoice
  <2>2. QED
    BY <1>17, <2>1, ZenonT(30)
       DEF EngineEnds, Awaiting, Close, FinishChoice, Types, TypeOK, Chat, Completed
<1>18. CASE EngineFails
  <2>1. pending' \in Seq(FrameType)
    BY <1>18, FramesOfTheEncoders DEF Types, TypeOK, EngineFails, Awaiting, Fail
  <2>2. QED
    BY <1>18, <2>1 DEF EngineFails, Awaiting, Fail, Types, TypeOK, Chat
<1>19. CASE CollectStartOk
  BY <1>19 DEF CollectStartOk, Collecting, Types, TypeOK, Chat
<1>20. CASE CollectFails
  BY <1>20 DEF CollectFails, Collecting, Types, TypeOK, Chat, Teardown
<1>21. CASE Collect
  BY <1>21 DEF Collect, Collecting, Types, TypeOK, Chat
<1>22. CASE CollectEnds
  BY <1>22 DEF CollectEnds, Collecting, Types, TypeOK, Chat, Completed, Teardown
<1>23. ASSUME NEW reason \in Reasons, CollectFinished(reason) PROVE Types'
  BY <1>23 DEF CollectFinished, Collecting, Types, TypeOK, Chat
<1>24. CASE DropSource
  BY <1>24 DEF DropSource, Types, TypeOK, Chat
<1>25. CASE DropLog
  BY <1>25 DEF DropLog, Types, TypeOK, Chat
<1>26. CASE DropCancel
  BY <1>26 DEF DropCancel, Types, TypeOK, Chat
<1>27. CASE DropRecord
  BY <1>27 DEF DropRecord, Types, TypeOK, Chat
<1>28. CASE DropPermit
  <2>1. permit' \in BOOLEAN
    BY <1>28, ZenonT(30) DEF DropPermit
  <2>2. QED
    BY <1>28, <2>1 DEF DropPermit, Types, TypeOK, Chat
<1>29. CASE Dropped
  BY <1>29 DEF Dropped, Types, TypeOK, Chat
<1>30. CASE Grant
  BY <1>30 DEF Grant, Types, TypeOK, Chat
<1>31. CASE Notice
  <2>1. pending' \in Seq(FrameType)
    BY <1>31, FramesOfTheEncoders DEF Types, TypeOK, Notice, Awaiting
  <2>2. QED
    BY <1>31, <2>1 DEF Notice, Awaiting, Types, TypeOK, Chat
<1>32. CASE KeepAlive
  <2>1. pending' \in Seq(FrameType)
    BY <1>32, FramesOfTheEncoders DEF Types, TypeOK, KeepAlive, Awaiting
  <2>2. QED
    BY <1>32, <2>1 DEF KeepAlive, Awaiting, Types, TypeOK, Chat
<1>33. CASE Disconnect
  BY <1>33 DEF Disconnect, Types, TypeOK, Chat, Teardown
<1>34. CASE UNCHANGED vars
  BY <1>34 DEF vars, Types, TypeOK, Chat
<1>35. QED
  BY <1>1, <1>2, <1>3, <1>4, <1>5, <1>6, <1>7, <1>8, <1>9, <1>10, <1>11, <1>12,
     <1>13, <1>14, <1>15, <1>16, <1>17, <1>18, <1>19, <1>20, <1>21, <1>22, <1>23,
     <1>24, <1>25, <1>26, <1>27, <1>28, <1>29, <1>30, <1>31, <1>32, <1>33, <1>34
     DEF Next, Entry, Body, Whole, Drop

-----------------------------------------------------------------------------
(* What a handler lets go of, in order.  Its source goes before the guard or *)
(* after it; either way the guard's own steps come one after another.         *)

Guarded == <<"source", "log", "cancel", "record", "permit">>
ToLog == {Guarded, <<"log", "cancel", "record", "permit">>,
          <<"log", "cancel", "record", "permit", "source">>}
ToCancel == {<<"cancel", "record", "permit">>, <<"cancel", "record", "permit", "source">>}
ToRecord == {<<"record", "permit">>, <<"record", "permit", "source">>}
ToRelease == {<<"permit">>, <<"permit", "source">>}
Released == {<<"source">>, <<>>}

\* The engine has been let go of and the guard, or what is left of it, remains.
Sourceless == {<<"log", "cancel", "record", "permit">>, <<"cancel", "record", "permit">>,
               <<"record", "permit">>, <<"permit">>, <<>>}

\* Dropping the first thing of one group leaves the next group.
LEMMA DropOrder ==
    /\ \A d \in ToLog :
          \/ d = Guarded /\ Head(d) = "source" /\ Tail(d) \in ToLog \cap Sourceless
          \/ d # Guarded /\ Head(d) = "log" /\ Tail(d) \in ToCancel
    /\ \A d \in ToCancel : Head(d) = "cancel" /\ Tail(d) \in ToRecord
    /\ \A d \in ToRecord : Head(d) = "record" /\ Tail(d) \in ToRelease
    /\ \A d \in ToRelease : Head(d) = "permit" /\ Tail(d) \in Released
    /\ \A d \in Released : d = <<>> \/ (Head(d) = "source" /\ Tail(d) = <<>>)
    /\ \A d \in Sourceless : d = <<>> \/ (Head(d) # "source" /\ Tail(d) \in Sourceless)
BY DEF Guarded, ToLog, ToCancel, ToRecord, ToRelease, Released, Sourceless

\* Every way out of a handler starts with the whole guard still to drop.
LEMMA TeardownOrder ==
    ASSUME Teardown
    PROVE  drops' \in ToLog /\ (SourceFirst => drops' = Guarded)
<1> DEFINE last == <<"log", "cancel", "record", "permit", "source">>
           one == <<"source">>
           Names == {"source", "log", "cancel", "record", "permit"}
<1>a. one \in Seq(Names) /\ Len(one) = 1
  OBVIOUS
<1>b. GuardDrop \in Seq(Names) /\ Len(GuardDrop) = 4
  BY DEF GuardDrop
<1>c. Guarded \in Seq(Names) /\ Len(Guarded) = 5
  BY DEF Guarded
<1>d. last \in Seq(Names) /\ Len(last) = 5
  OBVIOUS
<1>e. \A i \in 1..5 : (one \o GuardDrop)[i] = Guarded[i]
  BY DEF GuardDrop, Guarded
<1>f. \A i \in 1..5 : (GuardDrop \o one)[i] = last[i]
  BY DEF GuardDrop
<1> HIDE DEF last, one, Names
<1>1. one \o GuardDrop = Guarded
  <2>0. one \o GuardDrop \in Seq(Names)
    BY <1>a, <1>b
  <2>1. Len(one \o GuardDrop) = Len(one) + Len(GuardDrop)
    BY <1>a, <1>b, ConcatProperties, ZenonT(30)
  <2>2. Len(one \o GuardDrop) = Len(Guarded) /\ 1..Len(one \o GuardDrop) = 1..5
    BY <1>a, <1>b, <1>c, <2>1
  <2>3. QED
    BY <1>c, <1>e, <2>0, <2>2, SeqEqual, ZenonT(30)
<1>2. GuardDrop \o one = last
  <2>0. GuardDrop \o one \in Seq(Names)
    BY <1>a, <1>b
  <2>1. Len(GuardDrop \o one) = Len(GuardDrop) + Len(one)
    BY <1>a, <1>b, ConcatProperties, ZenonT(30)
  <2>2. Len(GuardDrop \o one) = Len(last) /\ 1..Len(GuardDrop \o one) = 1..5
    BY <1>a, <1>b, <1>d, <2>1
  <2>3. QED
    BY <1>d, <1>f, <2>0, <2>2, SeqEqual, ZenonT(30)
<1>3. QED
  BY <1>1, <1>2 DEF Teardown, ToLog, last, one

Logged == logged = <<IF finish = "error" THEN "failed" ELSE ending>>
Counted == counted = <<IF finish = None THEN "cancelled" ELSE finish>>

\* What has been written once the guard is down to what it still has to drop.
Dropping ==
    \/ drops \in ToLog /\ logged = <<>> /\ counted = <<>>
    \/ drops \in ToCancel /\ Logged /\ counted = <<>>
    \/ drops \in ToRecord /\ Logged /\ token /\ counted = <<>>
    \/ drops \in ToRelease /\ Logged /\ token /\ Counted
    \/ drops \in Released /\ Logged /\ Counted

\* A streamed chat and whole completions let the engine go before the guard.
EngineFirst ==
    stage = "drop" /\ (Chat <=> req.stream) =>
        drops = Guarded \/ (drops \in Sourceless /\ engine = "closed")

\* The inductive invariant of the books, with what each stage is entered by.
Books ==
    /\ stage \notin {"drop", "gone"} => drops = <<>> /\ logged = <<>> /\ counted = <<>>
    /\ stage = "drop" => Dropping
    /\ stage = "gone" => /\ drops = <<>>
                         /\ (logged = <<>> /\ counted = <<>>) \/ (Logged /\ Counted)
    /\ stage = "generate" => Chat /\ source = "transit"
    /\ stage = "body" => req.stream
    /\ stage = "collect" => ~req.stream
    /\ EngineFirst

\* Nothing is written when a request arrives.
LEMMA BooksInit == Init => Books
BY DEF Init, Books, EngineFirst

\* Every step keeps the books in order.
LEMMA BooksStep ==
    Types /\ Types' /\ Books /\ [Next]_vars => Books'
<1> SUFFICES ASSUME Types /\ Types' /\ Books, [Next]_vars PROVE Books'
  OBVIOUS
<1> USE RequestsAssumption, BoundsAssumption
        DEF None, Reasons, queueVars, engineVars, frameVars, guardVars, bookVars
<1>1. CASE AdmitNow
  BY <1>1
     DEF AdmitNow, Serve, Types, TypeOK, Books, EngineFirst, Chat, Logged, Counted,
         Dropping
<1>2. CASE Enqueue
  BY <1>2
     DEF Enqueue, Types, TypeOK, Books, EngineFirst, Chat, Logged, Counted, Dropping
<1>3. CASE TakeGrant
  BY <1>3
     DEF TakeGrant, Serve, Types, TypeOK, Books, EngineFirst, Chat, Logged, Counted,
         Dropping
<1>4. CASE WaitFails
  BY <1>4
     DEF WaitFails, Types, TypeOK, Books, EngineFirst, Chat, Logged, Counted,
         Dropping
<1>5. CASE GenerateOk
  BY <1>5
     DEF GenerateOk, Types, TypeOK, Books, EngineFirst, Chat, Logged, Counted,
         Dropping
<1>6. CASE GenerateFails
  <2>1. drops' \in ToLog /\ ((Chat <=> req.stream) => drops' = Guarded)
    BY <1>6, TeardownOrder DEF GenerateFails, Types, TypeOK, Books, SourceFirst
  <2>2. stage' = "drop" /\ logged' = <<>> /\ counted' = <<>>
    BY <1>6 DEF GenerateFails, Teardown, Books
  <2>3. QED
    BY <1>6, <2>1, <2>2
       DEF GenerateFails, Types, TypeOK, Books, EngineFirst, Chat, Logged, Counted,
           Dropping
<1>7. CASE Deliver
  BY <1>7
     DEF Deliver, Types, TypeOK, Books, EngineFirst, Chat, Logged, Counted, Dropping
<1>8. CASE EndOfBody
  <2>1. drops' \in ToLog /\ ((Chat <=> req.stream) => drops' = Guarded)
    BY <1>8, TeardownOrder DEF EndOfBody, Types, TypeOK, Books, SourceFirst
  <2>2. stage' = "drop" /\ logged' = <<>> /\ counted' = <<>>
    BY <1>8 DEF EndOfBody, Teardown, Books
  <2>3. QED
    BY <1>8, <2>1, <2>2
       DEF EndOfBody, Types, TypeOK, Books, EngineFirst, Chat, Logged, Counted,
           Dropping
<1>9. CASE Admitted
  BY <1>9
     DEF Admitted, Awaiting, Types, TypeOK, Books, EngineFirst, Chat, Logged,
         Counted, Dropping
<1>10. CASE GaveUp
  BY <1>10
     DEF GaveUp, Awaiting, Fail, Types, TypeOK, Books, EngineFirst, Chat, Logged,
         Counted, Dropping
<1>11. CASE NextCompletion
  BY <1>11
     DEF NextCompletion, Awaiting, Types, TypeOK, Books, EngineFirst, Chat, Logged,
         Counted, Dropping
<1>12. CASE CloseCompletions
  BY <1>12
     DEF CloseCompletions, Awaiting, Types, TypeOK, Books, EngineFirst, Chat,
         Logged, Counted, Dropping
<1>13. CASE StartOk
  BY <1>13
     DEF StartOk, Awaiting, Types, TypeOK, Books, EngineFirst, Chat, Logged,
         Counted, Dropping
<1>14. CASE StartFails
  BY <1>14
     DEF StartFails, Awaiting, Fail, Types, TypeOK, Books, EngineFirst, Chat,
         Logged, Counted, Dropping
<1>15. ASSUME NEW queues \in BOOLEAN, Absorb(queues) PROVE Books'
  BY <1>15
     DEF Absorb, Awaiting, Types, TypeOK, Books, EngineFirst, Chat, Logged, Counted,
         Dropping
<1>16. ASSUME NEW reason \in Reasons, AbsorbFinished(reason) PROVE Books'
  BY <1>16
     DEF AbsorbFinished, Awaiting, Close, FinishChoice, Types, TypeOK, Books,
         EngineFirst, Chat, Logged, Counted, Dropping
<1>17. CASE EngineEnds
  BY <1>17
     DEF EngineEnds, Awaiting, Close, FinishChoice, Types, TypeOK, Books,
         EngineFirst, Chat, Logged, Counted, Dropping
<1>18. CASE EngineFails
  BY <1>18
     DEF EngineFails, Awaiting, Fail, Types, TypeOK, Books, EngineFirst, Chat,
         Logged, Counted, Dropping
<1>19. CASE CollectStartOk
  BY <1>19
     DEF CollectStartOk, Collecting, Types, TypeOK, Books, EngineFirst, Chat,
         Logged, Counted, Dropping
<1>20. CASE CollectFails
  <2>1. drops' \in ToLog /\ ((Chat <=> req.stream) => drops' = Guarded)
    BY <1>20, TeardownOrder
       DEF CollectFails, Collecting, Types, TypeOK, Books, SourceFirst
  <2>2. stage' = "drop" /\ logged' = <<>> /\ counted' = <<>>
    BY <1>20 DEF CollectFails, Collecting, Teardown, Books
  <2>3. QED
    BY <1>20, <2>1, <2>2
       DEF CollectFails, Collecting, Types, TypeOK, Books, EngineFirst, Chat,
           Logged, Counted, Dropping
<1>21. CASE Collect
  BY <1>21
     DEF Collect, Collecting, Types, TypeOK, Books, EngineFirst, Chat, Logged,
         Counted, Dropping
<1>22. CASE CollectEnds
  <2>1. CASE left > 0
    BY <1>22, <2>1
       DEF CollectEnds, Collecting, Teardown, Dropping, Types, TypeOK, Books,
           EngineFirst, Chat
  <2>2. ASSUME left = 0
        PROVE  drops' \in ToLog /\ ((Chat <=> req.stream) => drops' = Guarded)
    BY <1>22, <2>2, TeardownOrder
       DEF CollectEnds, Collecting, Types, TypeOK, Books, SourceFirst
  <2>3. ASSUME left = 0 PROVE stage' = "drop" /\ logged' = <<>> /\ counted' = <<>>
    BY <1>22, <2>3 DEF CollectEnds, Collecting, Teardown, Books
  <2>4. QED
    BY <1>22, <2>1, <2>2, <2>3
       DEF CollectEnds, Collecting, Types, TypeOK, Books, EngineFirst, Chat, Logged,
           Counted, Dropping
<1>23. ASSUME NEW reason \in Reasons, CollectFinished(reason) PROVE Books'
  BY <1>23
     DEF CollectFinished, Collecting, Types, TypeOK, Books, EngineFirst, Chat,
         Logged, Counted, Dropping
<1>24. CASE DropSource
  <2>1. stage = "drop" /\ Dropping
    BY <1>24 DEF DropSource, Types, TypeOK, Books
  <2>2. \/ drops = Guarded /\ logged = <<>> /\ counted = <<>>
        \/ drops \in Released /\ drops # <<>> /\ Logged /\ Counted
    BY <1>24, <2>1, DropOrder DEF DropSource, Dropping
  <2>3. Dropping'
    BY <1>24, <2>2, DropOrder, ZenonT(30)
       DEF DropSource, Dropping, Logged, Counted, ToLog, Released
  <2>4. EngineFirst'
    BY <1>24, <2>1, <2>2, DropOrder, ZenonT(30)
       DEF DropSource, Books, EngineFirst, Chat, Guarded, Released, Sourceless,
           ToLog
  <2>5. QED
    BY <1>24, <2>1, <2>2, <2>3, <2>4
       DEF DropSource, Types, TypeOK, Books, EngineFirst, Chat, Logged, Counted,
           Dropping
<1>25. CASE DropLog
  <2>1. stage = "drop" /\ Dropping
    BY <1>25 DEF DropLog, Types, TypeOK, Books
  <2>2. drops \in ToLog /\ drops # Guarded /\ logged = <<>> /\ counted = <<>>
    BY <1>25, <2>1, DropOrder DEF DropLog, Dropping
  <2>3. Dropping'
    BY <1>25, <2>2, DropOrder DEF DropLog, Dropping, Logged, Counted
  <2>4. EngineFirst'
    BY <1>25, <2>1, <2>2, DropOrder DEF DropLog, Books, EngineFirst, Chat, Guarded
  <2>5. QED
    BY <1>25, <2>1, <2>2, <2>3, <2>4
       DEF DropLog, Types, TypeOK, Books, EngineFirst, Chat, Logged, Counted,
           Dropping
<1>26. CASE DropCancel
  <2>1. stage = "drop" /\ Dropping
    BY <1>26 DEF DropCancel, Types, TypeOK, Books
  <2>2. drops \in ToCancel /\ Logged /\ counted = <<>>
    BY <1>26, <2>1, DropOrder DEF DropCancel, Dropping
  <2>3. Dropping'
    BY <1>26, <2>2, DropOrder DEF DropCancel, Dropping, Logged, Counted
  <2>4. EngineFirst'
    BY <1>26, <2>1, <2>2, DropOrder
       DEF DropCancel, Books, EngineFirst, Chat, Guarded
  <2>5. QED
    BY <1>26, <2>1, <2>2, <2>3, <2>4
       DEF DropCancel, Types, TypeOK, Books, EngineFirst, Chat, Logged, Counted,
           Dropping
<1>27. CASE DropRecord
  <2>1. stage = "drop" /\ Dropping
    BY <1>27 DEF DropRecord, Types, TypeOK, Books
  <2>2. drops \in ToRecord /\ Logged /\ token /\ counted = <<>>
    BY <1>27, <2>1, DropOrder DEF DropRecord, Dropping
  <2>3. Dropping'
    BY <1>27, <2>2, DropOrder DEF DropRecord, Dropping, Logged, Counted
  <2>4. EngineFirst'
    BY <1>27, <2>1, <2>2, DropOrder
       DEF DropRecord, Books, EngineFirst, Chat, Guarded
  <2>5. QED
    BY <1>27, <2>1, <2>2, <2>3, <2>4
       DEF DropRecord, Types, TypeOK, Books, EngineFirst, Chat, Logged, Counted,
           Dropping
<1>28. CASE DropPermit
  <2>1. stage = "drop" /\ Dropping
    BY <1>28 DEF DropPermit, Types, TypeOK, Books
  <2>2. drops \in ToRelease /\ Logged /\ token /\ Counted
    BY <1>28, <2>1, DropOrder DEF DropPermit, Dropping
  <2>3. Dropping'
    BY <1>28, <2>2, DropOrder DEF DropPermit, Dropping, Logged, Counted
  <2>4. EngineFirst'
    BY <1>28, <2>1, <2>2, DropOrder
       DEF DropPermit, Books, EngineFirst, Chat, Guarded
  <2>5. QED
    BY <1>28, <2>1, <2>2, <2>3, <2>4
       DEF DropPermit, Types, TypeOK, Books, EngineFirst, Chat, Logged, Counted,
           Dropping
<1>29. CASE Dropped
  <2>1. Logged /\ Counted
    BY <1>29
       DEF Dropped, Books, Dropping, ToLog, ToCancel, ToRecord, ToRelease, Guarded
  <2>2. QED
    BY <1>29, <2>1
       DEF Dropped, Types, TypeOK, Books, EngineFirst, Chat, Logged, Counted,
           Dropping
<1>30. CASE Grant
  BY <1>30
     DEF Grant, Types, TypeOK, Books, EngineFirst, Chat, Logged, Counted, Dropping
<1>31. CASE Notice
  BY <1>31
     DEF Notice, Awaiting, Types, TypeOK, Books, EngineFirst, Chat, Logged, Counted,
         Dropping
<1>32. CASE KeepAlive
  BY <1>32
     DEF KeepAlive, Awaiting, Types, TypeOK, Books, EngineFirst, Chat, Logged,
         Counted, Dropping
<1>33. CASE Disconnect
  <2>1. CASE stage = "wait"
    BY <1>33, <2>1 DEF Disconnect, Types, TypeOK, Books, EngineFirst, Chat
  <2>2. ASSUME stage # "wait"
        PROVE  drops' \in ToLog /\ ((Chat <=> req.stream) => drops' = Guarded)
    BY <1>33, <2>2, TeardownOrder DEF Disconnect, Types, TypeOK, Books, SourceFirst
  <2>3. ASSUME stage # "wait" PROVE stage' = "drop" /\ logged' = <<>> /\ counted' = <<>>
    BY <1>33, <2>3 DEF Disconnect, Teardown, Books
  <2>4. QED
    BY <1>33, <2>1, <2>2, <2>3
       DEF Disconnect, Types, TypeOK, Books, EngineFirst, Chat, Logged, Counted,
           Dropping
<1>34. CASE UNCHANGED vars
  BY <1>34
     DEF vars, Types, TypeOK, Books, EngineFirst, Chat, Logged, Counted, Dropping
<1>35. QED
  BY <1>1, <1>2, <1>3, <1>4, <1>5, <1>6, <1>7, <1>8, <1>9, <1>10, <1>11, <1>12,
     <1>13, <1>14, <1>15, <1>16, <1>17, <1>18, <1>19, <1>20, <1>21, <1>22, <1>23,
     <1>24, <1>25, <1>26, <1>27, <1>28, <1>29, <1>30, <1>31, <1>32, <1>33, <1>34
     DEF Next, Entry, Body, Whole, Drop

\* The step AccountedBeforeRelease speaks of: the slot goes back.
Release == permit /\ ~permit' =>
              /\ token /\ Len(logged) = 1 /\ Len(counted) = 1
              /\ (Chat <=> req.stream) => engine' # "open"

\* Only the drop of the permit gives the slot back.
LEMMA OnlyDropReleases ==
    ASSUME Next, permit, ~permit'
    PROVE  DropPermit
<1>1. ~Entry
  BY ZenonT(30)
     DEF Entry, AdmitNow, Enqueue, TakeGrant, Serve, WaitFails, GenerateOk,
         GenerateFails, guardVars
<1>2. ~Body
  BY ZenonT(30)
     DEF Body, Deliver, EndOfBody, Admitted, GaveUp, NextCompletion,
         CloseCompletions, StartOk, StartFails, Absorb, AbsorbFinished, EngineEnds,
         EngineFails, guardVars
<1>3. ~Whole
  BY ZenonT(30)
     DEF Whole, CollectStartOk, CollectFails, Collect, CollectEnds, CollectFinished,
         guardVars
<1>4. ~(Grant \/ Notice \/ KeepAlive \/ Disconnect)
  BY ZenonT(30) DEF Grant, Notice, KeepAlive, Disconnect, guardVars
<1>5. Drop
  BY <1>1, <1>2, <1>3, <1>4 DEF Next
<1>6. QED
  BY <1>5, ZenonT(30)
     DEF Drop, DropSource, DropLog, DropCancel, DropRecord, Dropped, guardVars

\* When the slot goes back the books are closed.
LEMMA ReleaseStep ==
    Types /\ Books /\ [Next]_vars => [Release]_vars
<1> SUFFICES ASSUME Types, Books, Next, permit, ~permit'
             PROVE  /\ token /\ Len(logged) = 1 /\ Len(counted) = 1
                    /\ (Chat <=> req.stream) => engine' # "open"
  BY DEF Release
<1>1. DropPermit
  BY OnlyDropReleases
<1>2. stage = "drop" /\ Dropping
  BY <1>1 DEF DropPermit, Types, TypeOK, Books
<1>3. drops \in ToRelease /\ Logged /\ token /\ Counted
  BY <1>1, <1>2, DropOrder DEF DropPermit, Dropping
<1>4. Len(logged) = 1 /\ Len(counted) = 1
  BY <1>3 DEF Logged, Counted
<1>5. drops # Guarded
  BY <1>1 DEF DropPermit, Guarded
<1>6. (Chat <=> req.stream) => engine' = "closed"
  BY <1>1, <1>2, <1>5 DEF DropPermit, Books, EngineFirst, engineVars
<1>7. QED
  BY <1>3, <1>4, <1>6

\* Types and Books are an invariant of every request.
THEOREM BooksInvariant == Spec => [](Types /\ Books)
<1>1. Init => Types /\ Books
  BY TypesInit, BooksInit
<1>2. Types /\ Books /\ [Next]_vars => (Types /\ Books)'
  BY TypesStep, BooksStep
<1>3. QED
  BY <1>1, <1>2, PTL DEF Spec

\* A slot goes back only once its request is logged, cancelled and counted, and
\* a streamed chat or whole completions have let the engine go by then (Drop
\* for RequestGuard), for any request and any number of events.
THEOREM AccountedBeforeReleaseHolds == Spec => AccountedBeforeRelease
<1>1. Types /\ Books /\ [Next]_vars => [Release]_vars
  BY ReleaseStep
<1>2. AccountedBeforeRelease <=> [][Release]_vars
  BY DEF AccountedBeforeRelease, Release
<1>3. QED
  BY <1>1, <1>2, BooksInvariant, PTL DEF Spec

\* Every request stays within its types, and no generation is started beyond
\* those asked for.
THEOREM TypeCorrect == Spec => []TypeOK
<1>1. Types => TypeOK
  BY DEF Types
<1>2. QED
  BY <1>1, BooksInvariant, PTL

-----------------------------------------------------------------------------
(* What happened, as the guard knows it at every stage. *)

HasError == ErrIn(sent) \/ ErrIn(pending)

Failed == HasError \/ answer = "error"
Produced == ~Failed /\ (finished \/ answer = "ok")

\* The inductive invariant of the outcome.
Outcome ==
    /\ HasError => finished
    /\ stage \in {"admit", "wait", "generate", "body", "collect"} => answer = None
    /\ stage \in {"admit", "wait", "generate", "collect"} => ~finished
    /\ ending = "failed" <=> Failed
    /\ ending = "completed" <=> Produced
    /\ finish = "error" => ending = "failed"
    /\ ~req.stream => sent = <<>> /\ pending = <<>>
    /\ Chat /\ req.stream => (finish = "error" <=> HasError)
    /\ Chat /\ req.stream => (finish = None <=> ~finished)
    /\ stage = "drop" /\ ending = "cancelled" => client = "left"
    /\ stage = "gone" /\ logged # <<>> /\ ending = "cancelled" => client = "left"

\* A request that has just arrived has no outcome.
LEMMA OutcomeInit == Init => Outcome
BY DEF Init, Outcome, HasError, Failed, Produced, ErrIn, None

\* Every step keeps what the guard knows true.
LEMMA OutcomeStep ==
    Types /\ Books /\ Outcome /\ [Next]_vars => Outcome'
<1> SUFFICES ASSUME Types /\ Books /\ Outcome, [Next]_vars PROVE Outcome'
  OBVIOUS
<1> USE RequestsAssumption, BoundsAssumption
        DEF None, Reasons, queueVars, engineVars, frameVars, guardVars, bookVars
<1>1. CASE AdmitNow
  BY <1>1
     DEF AdmitNow, Serve, Types, TypeOK, Books, Chat, Outcome, HasError, Failed,
         Produced
<1>2. CASE Enqueue
  <2>1. ErrIn(pending') => ErrIn(pending)
    BY <1>2, FramesOfTheEncoders DEF Types, TypeOK, Enqueue
  <2>2. QED
    BY <1>2, <2>1
       DEF Enqueue, Types, TypeOK, Books, Chat, Outcome, HasError, Failed, Produced
<1>3. CASE TakeGrant
  BY <1>3
     DEF TakeGrant, Serve, Types, TypeOK, Books, Chat, Outcome, HasError, Failed,
         Produced
<1>4. CASE WaitFails
  BY <1>4
     DEF WaitFails, Types, TypeOK, Books, Chat, Outcome, HasError, Failed, Produced
<1>5. CASE GenerateOk
  <2>1. ErrIn(pending') => ErrIn(pending)
    BY <1>5, FramesOfTheEncoders, ZenonT(30) DEF Types, TypeOK, GenerateOk
  <2>2. QED
    BY <1>5, <2>1
       DEF GenerateOk, Types, TypeOK, Books, Chat, Outcome, HasError, Failed,
           Produced
<1>6. CASE GenerateFails
  BY <1>6
     DEF GenerateFails, Types, TypeOK, Books, Chat, Outcome, HasError, Failed,
         Produced, Teardown
<1>7. CASE Deliver
  <2>1. HasError' <=> HasError
    BY <1>7, DeliveredFrame DEF Types, TypeOK, HasError, Deliver
  <2>2. QED
    BY <1>7, <2>1
       DEF Deliver, Types, TypeOK, Books, Chat, Outcome, HasError, Failed, Produced
<1>8. CASE EndOfBody
  BY <1>8
     DEF EndOfBody, Types, TypeOK, Books, Chat, Outcome, HasError, Failed, Produced,
         Teardown
<1>9. CASE Admitted
  BY <1>9
     DEF Admitted, Awaiting, Types, TypeOK, Books, Chat, Outcome, HasError, Failed,
         Produced
<1>10. CASE GaveUp
  <2>1. ErrIn(pending')
    BY <1>10, FramesOfTheEncoders DEF Types, TypeOK, GaveUp, Awaiting, Fail
  <2>2. QED
    BY <1>10, <2>1
       DEF GaveUp, Awaiting, Fail, Types, TypeOK, Books, Chat, Outcome, HasError,
           Failed, Produced
<1>11. CASE NextCompletion
  BY <1>11
     DEF NextCompletion, Awaiting, Types, TypeOK, Books, Chat, Outcome, HasError,
         Failed, Produced
<1>12. CASE CloseCompletions
  <2>1. ~ErrIn(pending')
    BY <1>12, FramesAtTheEnd DEF Types, TypeOK, CloseCompletions, Awaiting
  <2>2. QED
    BY <1>12, <2>1
       DEF CloseCompletions, Awaiting, Types, TypeOK, Books, Chat, Outcome,
           HasError, Failed, Produced, Completed
<1>13. CASE StartOk
  <2>1. ~ErrIn(pending')
    BY <1>13, FramesOfTheEncoders DEF Types, TypeOK, StartOk, Awaiting
  <2>2. QED
    BY <1>13, <2>1
       DEF StartOk, Awaiting, Types, TypeOK, Books, Chat, Outcome, HasError, Failed,
           Produced
<1>14. CASE StartFails
  <2>1. ErrIn(pending')
    BY <1>14, FramesOfTheEncoders DEF Types, TypeOK, StartFails, Awaiting, Fail
  <2>2. QED
    BY <1>14, <2>1
       DEF StartFails, Awaiting, Fail, Types, TypeOK, Books, Chat, Outcome,
           HasError, Failed, Produced
<1>15. ASSUME NEW queues \in BOOLEAN, Absorb(queues) PROVE Outcome'
  <2>1. ~ErrIn(pending')
    BY <1>15, FramesOfTheEncoders DEF Types, TypeOK, Absorb, Awaiting
  <2>2. QED
    BY <1>15, <2>1
       DEF Absorb, Awaiting, Types, TypeOK, Books, Chat, Outcome, HasError, Failed,
           Produced
<1>16. ASSUME NEW reason \in Reasons, AbsorbFinished(reason) PROVE Outcome'
  <2>1. ~ErrIn(pending')
    BY <1>16, FramesOfTheEncoders, FramesAtTheEnd, ZenonT(30)
       DEF Types, TypeOK, AbsorbFinished, Awaiting, Close, FinishChoice
  <2>2. QED
    BY <1>16, <2>1
       DEF AbsorbFinished, Awaiting, Close, FinishChoice, Types, TypeOK, Books,
           Chat, Outcome, HasError, Failed, Produced, Completed
<1>17. CASE EngineEnds
  <2>1. ~ErrIn(pending')
    BY <1>17, FramesOfTheEncoders, FramesAtTheEnd, ZenonT(30)
       DEF Types, TypeOK, EngineEnds, Awaiting, Close, FinishChoice
  <2>2. QED
    BY <1>17, <2>1
       DEF EngineEnds, Awaiting, Close, FinishChoice, Types, TypeOK, Books, Chat,
           Outcome, HasError, Failed, Produced, Completed
<1>18. CASE EngineFails
  <2>1. ErrIn(pending')
    BY <1>18, FramesOfTheEncoders DEF Types, TypeOK, EngineFails, Awaiting, Fail
  <2>2. QED
    BY <1>18, <2>1
       DEF EngineFails, Awaiting, Fail, Types, TypeOK, Books, Chat, Outcome,
           HasError, Failed, Produced
<1>19. CASE CollectStartOk
  BY <1>19
     DEF CollectStartOk, Collecting, Types, TypeOK, Books, Chat, Outcome, HasError,
         Failed, Produced
<1>20. CASE CollectFails
  BY <1>20
     DEF CollectFails, Collecting, Types, TypeOK, Books, Chat, Outcome, HasError,
         Failed, Produced, Teardown
<1>21. CASE Collect
  BY <1>21
     DEF Collect, Collecting, Types, TypeOK, Books, Chat, Outcome, HasError, Failed,
         Produced
<1>22. CASE CollectEnds
  <2>1. ~HasError
    BY <1>22, FramesOfTheEncoders
       DEF Types, TypeOK, Books, Outcome, HasError, CollectEnds, Collecting
  <2>2. QED
    BY <1>22, <2>1
       DEF CollectEnds, Collecting, Types, TypeOK, Books, Chat, Outcome, HasError,
           Failed, Produced, Completed, Teardown
<1>23. ASSUME NEW reason \in Reasons, CollectFinished(reason) PROVE Outcome'
  BY <1>23
     DEF CollectFinished, Collecting, Types, TypeOK, Books, Chat, Outcome, HasError,
         Failed, Produced
<1>24. CASE DropSource
  BY <1>24
     DEF DropSource, Types, TypeOK, Books, Chat, Outcome, HasError, Failed, Produced
<1>25. CASE DropLog
  BY <1>25
     DEF DropLog, Types, TypeOK, Books, Chat, Outcome, HasError, Failed, Produced
<1>26. CASE DropCancel
  BY <1>26
     DEF DropCancel, Types, TypeOK, Books, Chat, Outcome, HasError, Failed, Produced
<1>27. CASE DropRecord
  BY <1>27
     DEF DropRecord, Types, TypeOK, Books, Chat, Outcome, HasError, Failed, Produced
<1>28. CASE DropPermit
  BY <1>28
     DEF DropPermit, Types, TypeOK, Books, Chat, Outcome, HasError, Failed, Produced
<1>29. CASE Dropped
  BY <1>29
     DEF Dropped, Types, TypeOK, Books, Chat, Outcome, HasError, Failed, Produced
<1>30. CASE Grant
  BY <1>30 DEF Grant, Chat, Outcome, HasError, Failed, Produced
<1>31. CASE Notice
  <2>1. ~ErrIn(pending')
    BY <1>31, FramesOfTheEncoders DEF Types, TypeOK, Notice, Awaiting
  <2>2. QED
    BY <1>31, <2>1
       DEF Notice, Awaiting, Types, TypeOK, Books, Chat, Outcome, HasError, Failed,
           Produced
<1>32. CASE KeepAlive
  <2>1. ~ErrIn(pending')
    BY <1>32, FramesOfTheEncoders DEF Types, TypeOK, KeepAlive, Awaiting
  <2>2. QED
    BY <1>32, <2>1
       DEF KeepAlive, Awaiting, Types, TypeOK, Books, Chat, Outcome, HasError,
           Failed, Produced
<1>33. CASE Disconnect
  BY <1>33
     DEF Disconnect, Types, TypeOK, Books, Chat, Outcome, HasError, Failed,
         Produced, Teardown
<1>34. CASE UNCHANGED vars
  BY <1>34 DEF vars, Chat, Outcome, HasError, Failed, Produced
<1>35. QED
  BY <1>1, <1>2, <1>3, <1>4, <1>5, <1>6, <1>7, <1>8, <1>9, <1>10, <1>11, <1>12,
     <1>13, <1>14, <1>15, <1>16, <1>17, <1>18, <1>19, <1>20, <1>21, <1>22, <1>23,
     <1>24, <1>25, <1>26, <1>27, <1>28, <1>29, <1>30, <1>31, <1>32, <1>33, <1>34
     DEF Next, Entry, Body, Whole, Drop

\* What the guard knows is what OutcomeIsTrue asks of the books.
LEMMA OutcomeImplies == Types /\ Books /\ Outcome => OutcomeIsTrue
<1> SUFFICES ASSUME Types, Books, Outcome PROVE OutcomeIsTrue
  OBVIOUS
<1>1. At("error") # {} <=> HasError
  <2>1. ErrIn(sent \o pending) <=> HasError
    BY ErrorsOfBoth DEF Types, HasError
  <2>2. QED
    BY <2>1 DEF At, Frames, ErrIn
<1>2. ASSUME stage = "gone", logged # <<>>
      PROVE  /\ logged = <<ending>> /\ Len(logged) = 1 /\ Len(counted) = 1
             /\ ending = "cancelled" => client = "left"
  <2>1. Logged /\ Counted
    BY <1>2 DEF Books
  <2>2. logged = <<ending>>
    BY <2>1 DEF Logged, Outcome
  <2>3. Len(logged) = 1 /\ Len(counted) = 1
    BY <2>1, <2>2 DEF Counted
  <2>4. QED
    BY <1>2, <2>2, <2>3 DEF Outcome
<1>3. ending = IF Failed THEN "failed"
               ELSE IF Produced THEN "completed" ELSE "cancelled"
  BY DEF Types, TypeOK, Outcome
<1>4. ASSUME Chat, Frames # <<>>, counted # <<>>
      PROVE  /\ counted[1] = "error" <=> HasError
             /\ counted[1] = "cancelled" <=> ~finished
  <2>1. req.stream
    <3>1. ASSUME ~req.stream PROVE FALSE
      <4>1. sent = <<>> /\ pending = <<>>
        BY <3>1 DEF Outcome
      <4>2. Frames = <<>>
        BY <4>1 DEF Frames
      <4>3. QED
        BY <1>4, <4>2
    <3>2. QED
      BY <3>1
  <2>2. Counted
    BY <1>4 DEF Books, Dropping, Types, TypeOK
  <2>3. counted[1] = IF finish = None THEN "cancelled" ELSE finish
    BY <2>2 DEF Counted
  <2>4. /\ finish = "error" <=> HasError
        /\ finish = None <=> ~finished
    BY <1>4, <2>1 DEF Outcome
  <2>5. finish # "cancelled" /\ None # "error"
    BY DEF Types, TypeOK, Reasons, None
  <2>6. QED
    BY <2>3, <2>4, <2>5
<1>5. Failed <=> (At("error") # {} \/ answer = "error")
  BY <1>1 DEF Failed
<1>6. ASSUME stage = "gone", logged # <<>>
      PROVE  logged[1] = ending
  BY <1>2, <1>6
<1> HIDE DEF Failed
<1>7. QED
  BY <1>1, <1>2, <1>3, <1>4, <1>5, <1>6 DEF OutcomeIsTrue, Produced

\* The closing line of every request that held a guard is written once and
\* tells what happened, and a streamed chat is counted under the reason its
\* last frames gave (Drop for RequestGuard and record_generation_as), for any
\* request and any number of events.
THEOREM OutcomeIsTrueHolds == Spec => []OutcomeIsTrue
<1>1. Init => Outcome
  BY OutcomeInit
<1>2. Types /\ Books /\ Outcome /\ [Next]_vars => Outcome'
  BY OutcomeStep
<1>3. Types /\ Books /\ Outcome => OutcomeIsTrue
  BY OutcomeImplies
<1>4. QED
  BY <1>1, <1>2, <1>3, BooksInvariant, PTL DEF Spec
=============================================================================

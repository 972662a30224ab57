----------------------- MODULE StreamingSessionProofs -----------------------
(***************************************************************************)
(* Proofs about StreamingSession, for any number of sessions, any capacity *)
(* of _playStoppedHandle and any bounds: every variable stays in its       *)
(* domain, the streamer finds a codec wherever there is a file player, a   *)
(* synchronous play ends with its file, NOT_PLAYING is true, and the       *)
(* destructor is held up only behind unread ends.                          *)
(*                                                                         *)
(* The invariants come in layers, each proved from the ones before: who    *)
(* may name a stream (Handles), which plays have ended (Plays), whose      *)
(* request is answered (Requests), what a session may believe of its       *)
(* stream (Beliefs), and how many ends are under way (Stops).              *)
(***************************************************************************)
EXTENDS StreamingSession, SequenceTheorems, TLAPS

-----------------------------------------------------------------------------
(* Handles.  A session names a stream by its handle, by a request that is  *)
(* still in iocp, or by a play that the stream has begun for it.           *)

IsRequestOf(m, s) == m.kind \in Request /\ m.session = s

Names(s, h) ==
    \/ sessionHandle[s] = h
    \/ \E i \in 1..Len(iocp) : IsRequestOf(iocp[i], s) /\ iocp[i].handle = h
    \/ h \in DOMAIN streams /\ streams[h].session = s /\ streams[h].correlation # IW_UNDEFINED

\* What an open Allocate was answered with is a stream of its session.
AllocatedIsOwn ==
    \A s \in Session :
        op[s] = "Allocate" /\ response[s] # <<>> /\ Head(response[s]).ack =>
            LET h == Head(response[s]).value
            IN  /\ h \in 1..handleCounter
                /\ h \in DOMAIN streams => streams[h].session = s

\* A handle is handed out before it is named, and named by its session only.
NamedIsOwn ==
    \A s \in Session, h \in Handle : Names(s, h) =>
        h <= handleCounter /\ (h \in DOMAIN streams => streams[h].session = s)

\* A session without listener has named nothing, and one names one stream only.
NamesAfterAllocate ==
    \A s \in Session : listener[s] = "none" /\ op[s] # "deleted" => \A h \in Handle : ~Names(s, h)
NamesOne ==
    \A s \in Session, h, k \in Handle : Names(s, h) /\ Names(s, k) => h = k

HandedOut ==
    /\ \A h \in DOMAIN streams : h <= handleCounter
    /\ \A i \in 1..Len(iocp) : iocp[i].kind = "EOF" => iocp[i].handle <= handleCounter

AnswersAreAwaited ==
    \A s \in Session : /\ response[s] # <<>> => op[s] \in TxnOp
                       /\ op[s] = "Allocate" => listener[s] = "none"
                       /\ hangup[s] <= hangups[s]

Handles == /\ AllocatedIsOwn /\ NamedIsOwn /\ NamesAfterAllocate /\ NamesOne
           /\ HandedOut /\ AnswersAreAwaited

-----------------------------------------------------------------------------
(* Plays.                                                                  *)

PlaysAreCounted ==
    /\ \A h \in DOMAIN streams : /\ streams[h].correlation <= correlationCounter
                                 /\ streams[h].playing => streams[h].correlation # IW_UNDEFINED
    /\ \A c \in ended : c <= correlationCounter

PlaysDiffer ==
    \A h, k \in DOMAIN streams :
        streams[h].correlation = streams[k].correlation /\ streams[h].correlation # IW_UNDEFINED
            => h = k

PlayingHasNotEnded ==
    \A h \in DOMAIN streams :
        streams[h].playing /\ ~streams[h].loop => streams[h].correlation \notin ended

\* An end that is reported is the end of the play it names, or overtaken by it.
ReportedEnds ==
    /\ \A i \in 1..Len(iocp) : iocp[i].kind = "EOF" /\ iocp[i].handle \in DOMAIN streams =>
          streams[iocp[i].handle].correlation \in ended \cup overtaken
    /\ \A s \in Session :
          /\ \A i \in 1..Len(inbound[s]) : inbound[s][i] \in ended \cup overtaken
          /\ \A i \in 1..Len(playStopped[s]) : playStopped[s][i] \in ended \cup overtaken

Plays == PlaysAreCounted /\ PlaysDiffer /\ PlayingHasNotEnded /\ ReportedEnds

-----------------------------------------------------------------------------
(* Requests that are answered.                                             *)

IsAskedBy(m, s) ==
    m.kind \in {"ALLOCATE_SESSION_REQ", "MODIFY_REQ", "PLAY_REQUEST"} /\ m.session = s

KindOf(o) == CASE o = "Allocate" -> "ALLOCATE_SESSION_REQ"
               [] o = "Modify" -> "MODIFY_REQ"
               [] o = "Play" -> "PLAY_REQUEST"

\* They stand in iocp in the order of their transactions.
AskedInOrder ==
    \A s \in Session :
        /\ \A i \in 1..Len(iocp) : IsAskedBy(iocp[i], s) => iocp[i].txn <= txn[s]
        /\ \A i, j \in 1..Len(iocp) :
              i < j /\ IsAskedBy(iocp[i], s) /\ IsAskedBy(iocp[j], s) => iocp[i].txn < iocp[j].txn

\* The one of the open transaction is what the owner asked for.
AskedIsOpen ==
    \A s \in Session, i \in 1..Len(iocp) :
        IsAskedBy(iocp[i], s) /\ iocp[i].txn = txn[s] /\ op[s] \in TxnOp =>
            /\ iocp[i].kind = KindOf(op[s])
            /\ op[s] = "Play" => iocp[i].handle = sessionHandle[s] /\ (sync[s] => ~iocp[i].flag)

\* Nothing is asked any more once the answer is there.
NothingAsked(s) == \A i \in 1..Len(iocp) : ~IsAskedBy(iocp[i], s)
AnsweredIsLast ==
    \A s \in Session : response[s] # <<>> \/ op[s] = "WaitStopped" => NothingAsked(s)

Requests == AskedInOrder /\ AskedIsOpen /\ AnsweredIsLast

-----------------------------------------------------------------------------
(* Beliefs of a session.                                                   *)

PlaysAs(s, c) ==
    sessionHandle[s] \in DOMAIN streams => streams[sessionHandle[s]].correlation = c
PlaysOnce(s) ==
    sessionHandle[s] \in DOMAIN streams => ~streams[sessionHandle[s]].loop

AckedPlay ==
    \A s \in Session :
        op[s] = "Play" /\ response[s] # <<>> /\ Head(response[s]).ack =>
            PlaysAs(s, Head(response[s]).value) /\ (sync[s] => PlaysOnce(s))
AwaitedPlay ==
    \A s \in Session : op[s] = "WaitStopped" => PlaysAs(s, correlation[s]) /\ PlaysOnce(s)
BusyIsUnknown ==
    \A s \in Session : op[s] \in {"Play", "WaitStopped"} => state[s] = "UNKNOWN"
IdleStream ==
    \A s \in Session : state[s] = "NOT_PLAYING" =>
        /\ sessionHandle[s] \in DOMAIN streams /\ streams[sessionHandle[s]].playing =>
              streams[sessionHandle[s]].correlation \in overtaken
        /\ \A i \in 1..Len(iocp) : IsRequestOf(iocp[i], s) => iocp[i].kind # "PLAY_REQUEST"

Beliefs == AckedPlay /\ AwaitedPlay /\ BusyIsUnknown /\ IdleStream

-----------------------------------------------------------------------------
(* Ends that are under way, as long as no play overtook one.               *)

HasEof(h) == \E i \in 1..Len(iocp) : iocp[i].kind = "EOF" /\ iocp[i].handle = h
OwesEnd(h) ==
    /\ ~streams[h].loop /\ streams[h].correlation # IW_UNDEFINED
    /\ streams[h].playing \/ HasEof(h)
Unread(s) == Len(playStopped[s]) + Len(inbound[s])

OneEof(h) ==
    \A i, j \in 1..Len(iocp) :
        iocp[i].kind = "EOF" /\ iocp[i].handle = h /\ iocp[j].kind = "EOF" /\ iocp[j].handle = h
            => i = j
EndsOnce ==
    \A h \in DOMAIN streams : ~streams[h].loop => (HasEof(h) => ~streams[h].playing) /\ OneEof(h)
EndsAreAcked ==
    /\ \A s \in Session : Unread(s) <= acked[s]
    /\ \A h \in DOMAIN streams :
          OwesEnd(h) => Unread(streams[h].session) < acked[streams[h].session]
HeldUpByAcked ==
    \A s \in Session :
        listener[s] = "sending" \/ op[s] = "joining" => acked[s] > MAX_MESSAGES_IN_QUEUE

Stops == overtaken = {} => EndsOnce /\ EndsAreAcked /\ HeldUpByAcked

-----------------------------------------------------------------------------
(* Types.                                                                  *)

LEMMA TypeInit == Init => TypeOK
BY BoundsAssumption, EmptySeq DEF Init, TypeOK, Op, TxnOp, Stream, Play, IW_UNDEFINED

LEMMA ReqType ==
    ASSUME TypeOK, NEW s \in Session, NEW kind \in Request, NEW flag \in BOOLEAN
    PROVE  /\ Req(s, kind, flag) \in Message
           /\ Req(s, kind, flag).kind = kind /\ Req(s, kind, flag).session = s
           /\ Req(s, kind, flag).handle = sessionHandle[s]
BY BoundsAssumption DEF TypeOK, Req, Message

\* What an append to iocp and a removal from it leave of its messages.
LEMMA SendType ==
    ASSUME TypeOK, NEW m \in Message, ToStreamer(m)
    PROVE  iocp' \in Seq(Message)
BY DEF TypeOK, ToStreamer

LEMMA AskType ==
    ASSUME TypeOK, NEW s \in Session, NEW o \in TxnOp, NEW kind \in Request, NEW flag \in BOOLEAN,
           Ask(s, o, kind, flag)
    PROVE  /\ txn' \in [Session -> 0..MaxTxn]
           /\ op' \in [Session -> Op]
           /\ iocp' \in Seq(Message)
<1>1. txn' \in [Session -> 0..MaxTxn]  BY BoundsAssumption DEF TypeOK, Ask
<1>2. op' \in [Session -> Op]  BY DEF TypeOK, Ask, Op, TxnOp
<1>3. iocp' \in Seq(Message)  BY ReqType, SendType DEF Ask
<1> QED  BY <1>1, <1>2, <1>3

LEMMA ReceivedType ==
    ASSUME TypeOK, NEW s \in Session, NEW o, NEW ack, Received(s, o, ack)
    PROVE  /\ response' \in [Session -> Seq(Response)]
           /\ \A t \in Session : Len(response'[t]) <= 1
           /\ Head(response[s]) \in Response
           /\ Head(response[s]).value \in Nat
           /\ Head(response[s]).ack \in BOOLEAN
<1>1. Head(response[s]) \in Response  BY DEF TypeOK, Received
<1>2. Head(response[s]).value \in Nat
  BY <1>1, BoundsAssumption DEF Response, Handle, Play, IW_UNDEFINED
<1>3. Head(response[s]).ack \in BOOLEAN  BY <1>1 DEF Response
<1>4. /\ response' \in [Session -> Seq(Response)]
      /\ \A t \in Session : Len(response'[t]) <= 1
  BY DEF TypeOK, Received
<1> QED  BY <1>1, <1>2, <1>3, <1>4

LEMMA RespondType ==
    ASSUME TypeOK, NEW m, m.session \in Session, NEW ack \in BOOLEAN, NEW v \in Nat,
           Respond(m, ack, v)
    PROVE  /\ response' \in [Session -> Seq(Response)]
           /\ \A t \in Session : Len(response'[t]) <= 1
<1>1. [ack |-> ack, value |-> v] \in Response  BY DEF Response, Play, IW_UNDEFINED
<1> QED  BY <1>1 DEF TypeOK, Respond

LEMMA ServesType ==
    ASSUME TypeOK, NEW k, Serves(k)
    PROVE  /\ iocp' \in Seq(Message)
           /\ Msg \in Message /\ Msg.kind = k
           /\ k # "EOF" => IsRequestOf(Msg, Msg.session) /\ Msg.session \in Session /\ Msg.flag \in BOOLEAN
           /\ k = "EOF" => Msg.handle \in Handle
           /\ Len(iocp') = Len(iocp) - 1 /\ Len(iocp) > 0
           /\ iocp[1] = Msg
           /\ \A i \in 1..Len(iocp') : i + 1 \in 1..Len(iocp) /\ iocp'[i] = iocp[i + 1]
<1>1. iocp \in Seq(Message) /\ iocp # <<>>  BY DEF TypeOK, Serves
<1>2. Msg \in Message /\ Msg.kind = k /\ iocp[1] = Msg  BY <1>1 DEF Serves, Msg
<1>3. /\ iocp' \in Seq(Message)
      /\ Len(iocp') = Len(iocp) - 1 /\ Len(iocp) > 0
      /\ \A i \in 1..Len(iocp') : i + 1 \in 1..Len(iocp) /\ iocp'[i] = iocp[i + 1]
  BY <1>1 DEF Serves
<1> QED  BY <1>2, <1>3 DEF Message, Request, IsRequestOf

LEMMA StreamType ==
    ASSUME TypeOK, NEW h \in DOMAIN streams, NEW r \in Stream, streams' = [streams EXCEPT ![h] = r]
    PROVE  DOMAIN streams' = DOMAIN streams /\ streams' \in [DOMAIN streams' -> Stream]
BY DEF TypeOK

LEMMA TypeStep ==
    ASSUME TypeOK, Handles, Plays, Next PROVE TypeOK'
<1> USE DEF ownerVars, listenVars, hangupVars, streamerVars, historyVars
<1>1. ASSUME NEW s \in Session, Allocate(s) PROVE TypeOK'
  <2>1. PICK empty \in BOOLEAN : Ask(s, "Allocate", "ALLOCATE_SESSION_REQ", empty)
    BY <1>1 DEF Allocate
  <2>2. "Allocate" \in TxnOp /\ "ALLOCATE_SESSION_REQ" \in Request  BY DEF TxnOp, Request
  <2>3. /\ txn' \in [Session -> 0..MaxTxn] /\ op' \in [Session -> Op] /\ iocp' \in Seq(Message)
    BY <2>1, <2>2, AskType
  <2> QED  BY <1>1, <2>3 DEF TypeOK, Allocate
<1>2. ASSUME NEW s \in Session, AllocateAck(s) PROVE TypeOK'
  <2>1. Received(s, "Allocate", TRUE)  BY <1>2 DEF AllocateAck
  <2>2. Head(response[s]).value \in Handle
    BY <2>1, BoundsAssumption DEF Handles, AllocatedIsOwn, Received, TypeOK, Handle
  <2>3. /\ response' \in [Session -> Seq(Response)]
        /\ \A t \in Session : Len(response'[t]) <= 1
    BY <2>1, ReceivedType
  <2>4. sessionHandle' \in [Session -> Handle \cup {IW_UNDEFINED}]
    BY <1>2, <2>2 DEF AllocateAck, TypeOK
  <2>5. /\ op' \in [Session -> Op]
        /\ listener' \in [Session -> {"none", "waiting", "sending"}]
    BY <1>2 DEF AllocateAck, TypeOK, Op
  <2> QED  BY <1>2, <2>3, <2>4, <2>5 DEF TypeOK, AllocateAck
<1>3. ASSUME NEW s \in Session, ModifyConnection(s) PROVE TypeOK'
  <2>1. "Modify" \in TxnOp /\ "MODIFY_REQ" \in Request  BY DEF TxnOp, Request
  <2>2. /\ txn' \in [Session -> 0..MaxTxn] /\ op' \in [Session -> Op] /\ iocp' \in Seq(Message)
    BY <1>3, <2>1, AskType DEF ModifyConnection
  <2> QED  BY <1>3, <2>2 DEF TypeOK, ModifyConnection
<1>4. ASSUME NEW s \in Session, Answered(s) PROVE TypeOK'
  <2>1. /\ response' \in [Session -> Seq(Response)]
        /\ \A t \in Session : Len(response'[t]) <= 1
    <3>1. PICK o \in TxnOp, ack \in BOOLEAN : Received(s, o, ack)  BY <1>4 DEF Answered, TxnOp
    <3> QED  BY <3>1, ReceivedType
  <2>2. op' \in [Session -> Op]  BY <1>4 DEF Answered, TypeOK, Op
  <2>3. sync' \in [Session -> BOOLEAN]  BY <1>4 DEF Answered, TypeOK
  <2> QED  BY <1>4, <2>1, <2>2, <2>3 DEF TypeOK, Answered
<1>5. ASSUME NEW s \in Session, TimedOut(s) PROVE TypeOK'
  <2>1. op' \in [Session -> Op]  BY <1>5 DEF TimedOut, Expired, TypeOK, Op
  <2>2. sync' \in [Session -> BOOLEAN]  BY <1>5 DEF TimedOut, TypeOK
  <2> QED  BY <1>5, <2>1, <2>2 DEF TypeOK, TimedOut
<1>6. ASSUME NEW s \in Session, PlayFile(s) PROVE TypeOK'
  <2>1. PICK sy, loop \in BOOLEAN : /\ Ask(s, "Play", "PLAY_REQUEST", loop)
                                    /\ sync' = [sync EXCEPT ![s] = sy /\ streamerUp]
    BY <1>6 DEF PlayFile
  <2>2. "Play" \in TxnOp /\ "PLAY_REQUEST" \in Request  BY DEF TxnOp, Request
  <2>3. /\ txn' \in [Session -> 0..MaxTxn] /\ op' \in [Session -> Op] /\ iocp' \in Seq(Message)
    BY <2>1, <2>2, AskType
  <2>4. sync' \in [Session -> BOOLEAN]  BY <2>1 DEF TypeOK
  <2>5. state' \in [Session -> {"NOT_PLAYING", "UNKNOWN"}]  BY <1>6 DEF PlayFile, TypeOK
  <2> QED  BY <1>6, <2>3, <2>4, <2>5 DEF TypeOK, PlayFile
<1>7. ASSUME NEW s \in Session, PlayAck(s) PROVE TypeOK'
  <2>1. /\ Head(response[s]).value \in Nat
        /\ response' \in [Session -> Seq(Response)]
        /\ \A t \in Session : Len(response'[t]) <= 1
    BY <1>7, ReceivedType DEF PlayAck
  <2>2. op' \in [Session -> Op]  BY <1>7 DEF PlayAck, TypeOK, Op
  <2>3. sync' \in [Session -> BOOLEAN]  BY <1>7 DEF PlayAck, TypeOK
  <2>4. Head(response[s]).value \in Play \cup {IW_UNDEFINED}  BY <2>1 DEF Play, IW_UNDEFINED
  <2>5. correlation' \in [Session -> Play \cup {IW_UNDEFINED}]
    BY <1>7, <2>4 DEF PlayAck, TypeOK
  <2> QED  BY <1>7, <2>1, <2>2, <2>3, <2>5 DEF TypeOK, PlayAck
<1>8. ASSUME NEW s \in Session, PlayStopped(s) PROVE TypeOK'
  <2>1. /\ playStopped' \in [Session -> Seq(Play)]
        /\ \A t \in Session : Len(playStopped'[t]) <= MAX_MESSAGES_IN_QUEUE
    BY <1>8, BoundsAssumption DEF PlayStopped, TypeOK
  <2>2. op' \in [Session -> Op]  BY <1>8 DEF PlayStopped, TypeOK, Op
  <2>3. /\ state' \in [Session -> {"NOT_PLAYING", "UNKNOWN"}]
        /\ correlation' \in [Session -> Play \cup {IW_UNDEFINED}]
    BY <1>8 DEF PlayStopped, TypeOK
  <2> QED  BY <1>8, <2>1, <2>2, <2>3 DEF TypeOK, PlayStopped
<1>9. ASSUME NEW s \in Session, PlayGivesUp(s) PROVE TypeOK'
  <2>1. hangup' \in [Session -> 0..MaxHangups]
    <3>1. hangup \in [Session -> 0..MaxHangups] /\ MaxHangups \in Nat
      BY BoundsAssumption DEF TypeOK
    <3>2. \/ hangup[s] > 0 /\ hangup' = [hangup EXCEPT ![s] = hangup[s] - 1]
          \/ hangup' = hangup
      BY <1>9 DEF PlayGivesUp
    <3> QED  BY <3>1, <3>2
  <2>2. op' \in [Session -> Op]  BY <1>9 DEF PlayGivesUp, TypeOK, Op
  <2>3. correlation' \in [Session -> Play \cup {IW_UNDEFINED}]  BY <1>9 DEF PlayGivesUp, TypeOK
  <2> QED  BY <1>9, <2>1, <2>2, <2>3 DEF TypeOK, PlayGivesUp
<1>10. ASSUME NEW s \in Session, StopPlay(s) PROVE TypeOK'
  <2>1. "STOP_PLAY_REQ" \in Request  BY DEF Request
  <2>2. iocp' \in Seq(Message)  BY <1>10, <2>1, ReqType, SendType DEF StopPlay
  <2>3. txn' \in [Session -> 0..MaxTxn]  BY <1>10, BoundsAssumption DEF StopPlay, TypeOK
  <2> QED  BY <1>10, <2>2, <2>3 DEF TypeOK, StopPlay
<1>11. ASSUME NEW s \in Session, TearDownEffect(s)
       PROVE  /\ iocp' \in Seq(Message)
              /\ sessionHandle' \in [Session -> Handle \cup {IW_UNDEFINED}]
              /\ state' \in [Session -> {"NOT_PLAYING", "UNKNOWN"}]
  <2>1. "TEARDOWN_REQ" \in Request  BY DEF Request
  <2>2. iocp' \in Seq(Message)  BY <1>11, <2>1, ReqType, SendType DEF TearDownEffect, TypeOK
  <2> QED  BY <1>11, <2>2 DEF TearDownEffect, TypeOK
<1>12. ASSUME NEW s \in Session, TearDown(s) PROVE TypeOK'
  BY <1>11, <1>12 DEF TypeOK, TearDown
<1>13. ASSUME NEW s \in Session, Delete(s) PROVE TypeOK'
  <2>1. op' \in [Session -> Op]  BY <1>13 DEF Delete, TypeOK, Op
  <2>2. CASE op'[s] = "joining"
    <3>1. UNCHANGED <<sessionHandle, state, iocp, listenVars>>  BY <1>13, <2>2 DEF Delete, TypeOK
    <3> QED  BY <1>13, <2>1, <3>1 DEF Delete, TypeOK
  <2>3. CASE op'[s] # "joining"
    <3>1. /\ TearDownEffect(s)
          /\ listener' = [listener EXCEPT ![s] = "none"]
          /\ inbound' = [inbound EXCEPT ![s] = <<>>]
          /\ playStopped' = [playStopped EXCEPT ![s] = <<>>]
      BY <1>13, <2>3 DEF Delete, TypeOK
    <3>2. /\ listener' \in [Session -> {"none", "waiting", "sending"}]
          /\ inbound' \in [Session -> Seq(Play)]
          /\ playStopped' \in [Session -> Seq(Play)]
          /\ \A t \in Session : Len(playStopped'[t]) <= MAX_MESSAGES_IN_QUEUE
      BY <3>1, BoundsAssumption DEF TypeOK
    <3> QED  BY <1>11, <1>13, <2>1, <3>1, <3>2 DEF Delete, TypeOK
  <2> QED  BY <2>2, <2>3
<1>14. ASSUME NEW s \in Session, InterruptWithHangup(s) PROVE TypeOK'
  <2>1. /\ hangup' \in [Session -> 0..MaxHangups]
        /\ hangups' \in [Session -> 0..MaxHangups]
    <3>1. /\ hangup \in [Session -> 0..MaxHangups] /\ MaxHangups \in Nat
          /\ hangups \in [Session -> 0..MaxHangups]
      BY BoundsAssumption DEF TypeOK
    <3>2. /\ hangups[s] < MaxHangups /\ hangup[s] <= hangups[s]
          /\ hangups' = [hangups EXCEPT ![s] = hangups[s] + 1]
          /\ hangup' = [hangup EXCEPT ![s] = hangup[s] + 1]
      BY <1>14 DEF InterruptWithHangup, Handles, AnswersAreAwaited
    <3> QED  BY <3>1, <3>2
  <2> QED  BY <1>14, <2>1 DEF TypeOK, InterruptWithHangup
<1>15. ASSUME NEW s \in Session, UponActiveObjectEvent(s) PROVE TypeOK'
  <2>1. listener' \in [Session -> {"none", "waiting", "sending"}]
    BY <1>15 DEF UponActiveObjectEvent, TypeOK
  <2>2. CASE Full(s)
    BY <1>15, <2>1, <2>2 DEF UponActiveObjectEvent, TypeOK
  <2>3. CASE ~Full(s)
    <3>1. Head(inbound[s]) \in Play /\ Tail(inbound[s]) \in Seq(Play)
      BY <1>15 DEF UponActiveObjectEvent, TypeOK
    <3>2. /\ playStopped' \in [Session -> Seq(Play)]
          /\ \A t \in Session : Len(playStopped'[t]) <= MAX_MESSAGES_IN_QUEUE
      <4>1. /\ playStopped \in [Session -> Seq(Play)] /\ MAX_MESSAGES_IN_QUEUE \in Nat
            /\ \A t \in Session : Len(playStopped[t]) <= MAX_MESSAGES_IN_QUEUE
        BY BoundsAssumption DEF TypeOK
      <4>2. /\ Len(playStopped[s]) < MAX_MESSAGES_IN_QUEUE
            /\ playStopped' = [playStopped EXCEPT ![s] = Append(playStopped[s], Head(inbound[s]))]
        BY <1>15, <2>3, <4>1 DEF UponActiveObjectEvent, Full
      <4> QED  BY <3>1, <4>1, <4>2
    <3>3. inbound' \in [Session -> Seq(Play)]
      BY <1>15, <2>3, <3>1 DEF UponActiveObjectEvent, TypeOK
    <3> QED  BY <1>15, <2>1, <3>2, <3>3 DEF UponActiveObjectEvent, TypeOK
  <2> QED  BY <2>2, <2>3
<1>16. CASE AllocatePlaybackSession
  <2>1. /\ iocp' \in Seq(Message) /\ Msg.session \in Session /\ Msg.flag \in BOOLEAN
    BY <1>16, ServesType DEF AllocatePlaybackSession
  <2>2. handleCounter' \in 0..MaxHandles /\ handleCounter' \in Handle /\ handleCounter' \in Nat
    BY <1>16, BoundsAssumption DEF AllocatePlaybackSession, TypeOK, Handle
  <2>3. /\ response' \in [Session -> Seq(Response)]
        /\ \A t \in Session : Len(response'[t]) <= 1
    <3>1. PICK v \in Nat, ack \in BOOLEAN : Respond(Msg, ack, v)
      BY <1>16, <2>2 DEF AllocatePlaybackSession, IW_UNDEFINED
    <3> QED  BY <2>1, <3>1, RespondType
  <2>4. DOMAIN streams' \subseteq Handle /\ streams' \in [DOMAIN streams' -> Stream]
    <3>1. CASE UNCHANGED streams  BY <3>1 DEF TypeOK
    <3>2. CASE streams' # streams
      <4> DEFINE r == [session |-> Msg.session, pt |-> ~Msg.flag, soundread |-> ~Msg.flag,
                       state |-> "ALLOCATED", playing |-> FALSE, loop |-> FALSE,
                       correlation |-> IW_UNDEFINED]
      <4>1. r \in Stream  BY <2>1 DEF Stream
      <4>2. streams' = Plus(streams, handleCounter', r)
        BY <1>16, <3>2 DEF AllocatePlaybackSession
      <4> HIDE DEF r
      <4> QED  BY <2>2, <4>1, <4>2 DEF Plus, TypeOK
    <3> QED  BY <3>1, <3>2
  <2>5. leaked' \subseteq Handle
    BY <1>16, <2>2 DEF AllocatePlaybackSession, TypeOK
  <2> QED  BY <1>16, <2>1, <2>2, <2>3, <2>4, <2>5 DEF AllocatePlaybackSession, TypeOK
<1>17. CASE ModifySession
  <2>1. iocp' \in Seq(Message) /\ Msg.session \in Session
    BY <1>17, ServesType DEF ModifySession
  <2>2. /\ response' \in [Session -> Seq(Response)]
        /\ \A t \in Session : Len(response'[t]) <= 1
    <3>1. PICK ack \in BOOLEAN : Respond(Msg, ack, 0)
      BY <1>17 DEF ModifySession, IW_UNDEFINED
    <3> QED  BY <2>1, <3>1, RespondType
  <2>3. DOMAIN streams' \subseteq Handle /\ streams' \in [DOMAIN streams' -> Stream]
    <3>1. CASE UNCHANGED streams  BY <3>1 DEF TypeOK
    <3>2. CASE streams' # streams
      <4>1. PICK h \in DOMAIN streams, b \in BOOLEAN, st \in {"ALLOCATED", "TICKING", "STOPPED"} :
               streams' = [streams EXCEPT ![h] =
                              [@ EXCEPT !.pt = TRUE, !.soundread = b, !.state = st]]
        <5>1. Known  BY <1>17, <3>2 DEF ModifySession
        <5>2. streams[Msg.handle] \in Stream  BY <5>1 DEF TypeOK, Known
        <5>3. CASE ModifyFails(Msg.handle)
          <6>1. PICK b \in BOOLEAN : streams' = [streams EXCEPT ![Msg.handle] =
                                       [@ EXCEPT !.pt = TRUE, !.soundread = b]]
            BY <5>3 DEF ModifyFails
          <6>2. streams[Msg.handle].state \in {"ALLOCATED", "TICKING", "STOPPED"}
            BY <5>2 DEF Stream
          <6>3. [streams[Msg.handle] EXCEPT !.pt = TRUE, !.soundread = b]
                  = [streams[Msg.handle] EXCEPT !.pt = TRUE, !.soundread = b,
                                                !.state = streams[Msg.handle].state]
            BY <5>2 DEF Stream
          <6> QED  BY <5>1, <6>1, <6>2, <6>3 DEF Known
        <5> QED  BY <1>17, <3>2, <5>1, <5>3 DEF ModifySession, Known
      <4>2. streams[h] \in Stream  BY DEF TypeOK
      <4>3. [streams[h] EXCEPT !.pt = TRUE, !.soundread = b, !.state = st] \in Stream
        BY <4>2 DEF Stream
      <4>4. streams' = [streams EXCEPT ![h] =
                         [streams[h] EXCEPT !.pt = TRUE, !.soundread = b, !.state = st]]
        BY <4>1
      <4> QED  BY <4>3, <4>4, StreamType DEF TypeOK
    <3> QED  BY <3>1, <3>2
  <2> QED  BY <1>17, <2>1, <2>2, <2>3 DEF ModifySession, TypeOK
<1>18. CASE StartPlaybackRefused
  <2>1. iocp' \in Seq(Message) /\ Msg.session \in Session
    BY <1>18, ServesType DEF StartPlaybackRefused
  <2>2. /\ response' \in [Session -> Seq(Response)]
        /\ \A t \in Session : Len(response'[t]) <= 1
    BY <1>18, <2>1, RespondType DEF StartPlaybackRefused, IW_UNDEFINED
  <2>3. DOMAIN streams' \subseteq Handle /\ streams' \in [DOMAIN streams' -> Stream]
    <3>1. CASE ~Known  BY <1>18, <3>1 DEF TypeOK, StartPlaybackRefused
    <3>2. CASE Known
      <4>1. streams[Msg.handle] \in Stream  BY <3>2 DEF TypeOK, Known
      <4>2. StopTicking(streams[Msg.handle]) \in Stream  BY <4>1 DEF StopTicking, Stream
      <4>3. streams' = [streams EXCEPT ![Msg.handle] = StopTicking(streams[Msg.handle])]
        BY <1>18, <3>2 DEF StartPlaybackRefused
      <4> QED  BY <3>2, <4>2, <4>3, StreamType DEF TypeOK, Known
    <3> QED  BY <3>1, <3>2
  <2> QED  BY <1>18, <2>1, <2>2, <2>3 DEF StartPlaybackRefused, TypeOK
<1>19. CASE StartPlayback
  <2>1. iocp' \in Seq(Message) /\ Msg.session \in Session /\ Msg.flag \in BOOLEAN
    BY <1>19, ServesType DEF StartPlayback
  <2>2. /\ correlationCounter' \in Play /\ correlationCounter' \in Nat
    BY <1>19 DEF StartPlayback, TypeOK, Play
  <2>3. /\ response' \in [Session -> Seq(Response)]
        /\ \A t \in Session : Len(response'[t]) <= 1
    BY <1>19, <2>1, <2>2, RespondType DEF StartPlayback
  <2>4. DOMAIN streams' \subseteq Handle /\ streams' \in [DOMAIN streams' -> Stream]
    <3> DEFINE r == [streams[Msg.handle] EXCEPT !.state = "TICKING", !.playing = TRUE,
                                     !.loop = Msg.flag, !.correlation = correlationCounter']
    <3>1. streams[Msg.handle] \in Stream  BY <1>19 DEF TypeOK, Known, StartPlayback
    <3>2. r \in Stream  BY <3>1, <2>1, <2>2 DEF Stream
    <3>3. streams' = [streams EXCEPT ![Msg.handle] = r]  BY <1>19 DEF StartPlayback
    <3>4. Msg.handle \in DOMAIN streams  BY <1>19 DEF StartPlayback, Known
    <3> HIDE DEF r
    <3> QED  BY <3>2, <3>3, <3>4 DEF TypeOK
  <2>5. overtaken' \subseteq Play  BY <1>19, <2>2 DEF StartPlayback, TypeOK
  <2>6. acked' \in [Session -> Nat]  BY <1>19, <2>1 DEF StartPlayback, TypeOK
  <2> QED  BY <1>19, <2>1, <2>2, <2>3, <2>4, <2>5, <2>6 DEF StartPlayback, TypeOK
<1>20. CASE StopPlayback
  <2>1. iocp' \in Seq(Message)  BY <1>20, ServesType DEF StopPlayback
  <2>2. DOMAIN streams' \subseteq Handle /\ streams' \in [DOMAIN streams' -> Stream]
    <3>1. CASE ~Known  BY <1>20, <3>1 DEF TypeOK, StopPlayback
    <3>2. CASE Known
      <4>1. streams[Msg.handle] \in Stream  BY <3>2 DEF TypeOK, Known
      <4>2. [streams[Msg.handle] EXCEPT !.playing = FALSE] \in Stream  BY <4>1 DEF Stream
      <4>3. streams' = [streams EXCEPT ![Msg.handle] =
                           [streams[Msg.handle] EXCEPT !.playing = FALSE]]
        BY <1>20, <3>2 DEF StopPlayback
      <4> QED  BY <3>2, <4>2, <4>3, StreamType DEF TypeOK, Known
    <3> QED  BY <3>1, <3>2
  <2> QED  BY <1>20, <2>1, <2>2 DEF StopPlayback, TypeOK
<1>21. CASE UponTearDown
  <2>1. iocp' \in Seq(Message)  BY <1>21, ServesType DEF UponTearDown
  <2>2. DOMAIN streams' \subseteq Handle /\ streams' \in [DOMAIN streams' -> Stream]
    BY <1>21 DEF UponTearDown, Without, TypeOK
  <2> QED  BY <1>21, <2>1, <2>2 DEF UponTearDown, TypeOK
<1>22. CASE UponPlaybackStopped
  <2>1. iocp' \in Seq(Message) /\ Msg.handle \in Handle
    BY <1>22, ServesType DEF UponPlaybackStopped
  <2>2. inbound' \in [Session -> Seq(Play)]
    <3>1. CASE inbound' = inbound  BY <3>1 DEF TypeOK
    <3>2. CASE inbound' # inbound
      <4>1. Reported(Msg.handle)  BY <1>22, <3>2 DEF UponPlaybackStopped
      <4>2. streams[Msg.handle] \in Stream  BY <4>1 DEF Reported, TypeOK
      <4>3. streams[Msg.handle].correlation \in Play
        <5>1. /\ Msg = iocp[1] /\ 1 \in 1..Len(iocp) /\ iocp[1].kind = "EOF"
              /\ Msg.handle \in DOMAIN streams
          BY <1>22, <4>1, ServesType DEF UponPlaybackStopped, Reported, TypeOK
        <5> QED  BY <5>1 DEF Plays, ReportedEnds, TypeOK
      <4> QED  BY <1>22, <3>2, <4>2, <4>3 DEF UponPlaybackStopped, Stream, TypeOK
    <3> QED  BY <3>1, <3>2
  <2> QED  BY <1>22, <2>1, <2>2 DEF UponPlaybackStopped, TypeOK
<1>23. CASE Shutdown
  <2>1. iocp' \in Seq(Message) /\ streams' \in [DOMAIN streams' -> Stream] /\ DOMAIN streams' = {}
    BY <1>23 DEF Shutdown
  <2> QED  BY <1>23, <2>1 DEF Shutdown, TypeOK
<1>24. ASSUME NEW h \in Handle, OnFileFilterEvent(h) PROVE TypeOK'
  <2>1. iocp' \in Seq(Message)  BY <1>24 DEF OnFileFilterEvent, TypeOK, Message
  <2>2. streams[h] \in Stream  BY <1>24 DEF OnFileFilterEvent, TypeOK
  <2>3. DOMAIN streams' \subseteq Handle /\ streams' \in [DOMAIN streams' -> Stream]
    <3>1. [streams[h] EXCEPT !.playing = streams[h].loop] \in Stream  BY <2>2 DEF Stream
    <3>2. streams' = [streams EXCEPT ![h] = [streams[h] EXCEPT !.playing = streams[h].loop]]
      BY <1>24 DEF OnFileFilterEvent
    <3> QED  BY <1>24, <3>1, <3>2, StreamType DEF OnFileFilterEvent, TypeOK
  <2>4. ended' \subseteq Play
    BY <1>24, <2>2 DEF OnFileFilterEvent, Ticking, Plays, PlaysAreCounted, Stream, TypeOK
  <2> QED  BY <1>24, <2>1, <2>3, <2>4 DEF OnFileFilterEvent, TypeOK
<1> QED
  BY <1>1, <1>2, <1>3, <1>4, <1>5, <1>6, <1>7, <1>8, <1>9, <1>10, <1>12, <1>13, <1>14, <1>15,
     <1>16, <1>17, <1>18, <1>19, <1>20, <1>21, <1>22, <1>23, <1>24 DEF Next, Owner, Streamer

-----------------------------------------------------------------------------
(* Handles.  Only AllocateAck lets a session name what it did not name.    *)

NoNewName == \A s \in Session, h \in Handle : Names(s, h)' => Names(s, h)
StreamsKept ==
    /\ handleCounter' \in {handleCounter, handleCounter + 1}
    /\ \A h \in DOMAIN streams' :
          \/ h \in DOMAIN streams /\ streams'[h].session = streams[h].session
          \/ h = handleCounter + 1 /\ handleCounter' = h
    /\ \A i \in 1..Len(iocp') : iocp'[i].kind = "EOF" => iocp'[i].handle <= handleCounter
NoNewListener ==
    \A s \in Session : listener'[s] = "none" /\ op'[s] # "deleted" =>
        listener[s] = "none" /\ op[s] # "deleted"
NoNewAllocated ==
    \A s \in Session :
        op'[s] = "Allocate" /\ response'[s] # <<>> /\ Head(response'[s]).ack =>
            op[s] = "Allocate" /\ response'[s] = response[s]

LEMMA HandlesKept ==
    ASSUME TypeOK, TypeOK', Handles, NoNewName, StreamsKept, NoNewListener
    PROVE  NamedIsOwn' /\ NamesAfterAllocate' /\ NamesOne' /\ HandedOut'
<1>1. handleCounter \in Nat  BY BoundsAssumption DEF TypeOK
<1>2. NamedIsOwn'
  <2> SUFFICES ASSUME NEW s \in Session, NEW h \in Handle, Names(s, h)'
      PROVE  h <= handleCounter' /\ (h \in DOMAIN streams' => streams'[h].session = s)
    BY DEF NamedIsOwn
  <2>1. h <= handleCounter /\ (h \in DOMAIN streams => streams[h].session = s)
    BY DEF NoNewName, Handles, NamedIsOwn
  <2>2. h \in Nat  BY BoundsAssumption DEF Handle
  <2> QED  BY <1>1, <2>1, <2>2 DEF StreamsKept
<1>3. NamesAfterAllocate'
  <2> SUFFICES ASSUME NEW s \in Session, listener'[s] = "none", op'[s] # "deleted", NEW h \in Handle
      PROVE  ~Names(s, h)'
    BY DEF NamesAfterAllocate
  <2> QED  BY DEF NoNewListener, NoNewName, Handles, NamesAfterAllocate
<1>4. NamesOne'
  <2> SUFFICES ASSUME NEW s \in Session, NEW h \in Handle, NEW k \in Handle,
                      Names(s, h)', Names(s, k)'
      PROVE  h = k
    BY DEF NamesOne
  <2> QED  BY DEF NoNewName, Handles, NamesOne
<1>5. HandedOut'
  <2>1. \A h \in DOMAIN streams : h \in Nat /\ h <= handleCounter
    BY BoundsAssumption DEF TypeOK, Handle, Handles, HandedOut
  <2>2. \A h \in DOMAIN streams' : h <= handleCounter'
    BY <1>1, <2>1 DEF StreamsKept
  <2>3. \A i \in 1..Len(iocp') : iocp'[i].kind = "EOF" => iocp'[i].handle <= handleCounter'
    <3> SUFFICES ASSUME NEW i \in 1..Len(iocp'), iocp'[i].kind = "EOF"
        PROVE  iocp'[i].handle <= handleCounter'
      OBVIOUS
    <3>1. iocp'[i] \in Message  BY DEF TypeOK
    <3>2. iocp'[i].handle \in Nat
      BY <3>1, BoundsAssumption DEF Message, Request, Handle
    <3> QED  BY <1>1, <3>2 DEF StreamsKept
  <2> QED  BY <2>2, <2>3 DEF HandedOut
<1> QED  BY <1>2, <1>3, <1>4, <1>5

LEMMA AllocatedKept ==
    ASSUME TypeOK, Handles, StreamsKept, NoNewAllocated
    PROVE  AllocatedIsOwn'
<1> SUFFICES ASSUME NEW s \in Session,
                    op'[s] = "Allocate", response'[s] # <<>>, Head(response'[s]).ack
    PROVE  LET h == Head(response'[s]).value
           IN  /\ h \in 1..handleCounter'
               /\ h \in DOMAIN streams' => streams'[h].session = s
  BY DEF AllocatedIsOwn
<1>1. op[s] = "Allocate" /\ response'[s] = response[s]  BY DEF NoNewAllocated
<1> DEFINE h == Head(response[s]).value
<1>2. /\ h \in 1..handleCounter
      /\ h \in DOMAIN streams => streams[h].session = s
  BY <1>1 DEF Handles, AllocatedIsOwn
<1>3. handleCounter \in Nat  BY BoundsAssumption DEF TypeOK
<1> HIDE DEF h
<1>4. h \in 1..handleCounter' /\ (h \in DOMAIN streams' => streams'[h].session = s)
  BY <1>2, <1>3 DEF StreamsKept
<1> QED  BY <1>1, <1>4 DEF h

\* Steps that send nothing, send a request, or serve one.
LEMMA QuietStep ==
    ASSUME TypeOK, Handles, UNCHANGED <<sessionHandle, iocp, streams, handleCounter>>
    PROVE  NoNewName /\ StreamsKept
<1>1. NoNewName  BY DEF NoNewName, Names
<1>2. StreamsKept  BY DEF StreamsKept, Handles, HandedOut
<1> QED  BY <1>1, <1>2

LEMMA SendShape ==
    ASSUME TypeOK, NEW m \in Message, ToStreamer(m)
    PROVE  /\ Len(iocp') \in Nat /\ Len(iocp) \in Nat
           /\ Len(iocp') >= Len(iocp) /\ Len(iocp') <= Len(iocp) + 1
           /\ \A i \in 1..Len(iocp) : i \in 1..Len(iocp') /\ iocp'[i] = iocp[i]
           /\ \A i \in 1..Len(iocp') :
                 \/ i \in 1..Len(iocp) /\ iocp'[i] = iocp[i]
                 \/ i = Len(iocp) + 1 /\ iocp'[i] = m
BY DEF TypeOK, ToStreamer

LEMMA SendStep ==
    ASSUME TypeOK, Handles, NEW s \in Session, NEW kind \in Request, NEW flag \in BOOLEAN,
           ToStreamer(Req(s, kind, flag)),
           sessionHandle' \in {sessionHandle, [sessionHandle EXCEPT ![s] = IW_UNDEFINED]},
           UNCHANGED <<streams, handleCounter>>
    PROVE  NoNewName /\ StreamsKept
<1> DEFINE m == Req(s, kind, flag)
<1>1. m \in Message /\ m.kind = kind /\ m.session = s /\ m.handle = sessionHandle[s]
  BY ReqType
<1> HIDE DEF m
<1>2. \A i \in 1..Len(iocp') : (i \in 1..Len(iocp) /\ iocp'[i] = iocp[i]) \/ iocp'[i] = m
  BY <1>1, SendShape DEF m
<1>3. NoNewName
  <2> SUFFICES ASSUME NEW t \in Session, NEW h \in Handle, Names(t, h)' PROVE Names(t, h)
    BY DEF NoNewName
  <2>1. CASE sessionHandle'[t] = h
    <3>1. sessionHandle'[t] \in {sessionHandle[t], IW_UNDEFINED}  BY DEF TypeOK
    <3>2. h # IW_UNDEFINED  BY BoundsAssumption DEF Handle, IW_UNDEFINED
    <3> QED  BY <2>1, <3>1, <3>2 DEF Names
  <2>2. CASE \E i \in 1..Len(iocp') : IsRequestOf(iocp'[i], t) /\ iocp'[i].handle = h
    BY <1>1, <1>2, <2>2 DEF Names, IsRequestOf
  <2>3. CASE h \in DOMAIN streams' /\ streams'[h].session = t /\ streams'[h].correlation # IW_UNDEFINED
    BY <2>3 DEF Names
  <2> QED  BY <2>1, <2>2, <2>3 DEF Names
<1>4. kind # "EOF"  BY DEF Request
<1>5. StreamsKept  BY <1>1, <1>2, <1>4 DEF StreamsKept, Handles, HandedOut
<1> QED  BY <1>3, <1>5

LEMMA ServeStep ==
    ASSUME TypeOK, Handles, NEW k, Serves(k), UNCHANGED sessionHandle,
           handleCounter' \in {handleCounter, handleCounter + 1},
           \A h \in DOMAIN streams' :
              \/ h \in DOMAIN streams /\ streams'[h].session = streams[h].session
              \/ h = handleCounter + 1 /\ handleCounter' = h,
           \A t \in Session, h \in DOMAIN streams' :
              streams'[h].session = t /\ streams'[h].correlation # IW_UNDEFINED => Names(t, h)
    PROVE  NoNewName /\ StreamsKept
<1>1. \A i \in 1..Len(iocp') : i + 1 \in 1..Len(iocp) /\ iocp'[i] = iocp[i + 1]
  BY ServesType
<1>2. NoNewName
  <2> SUFFICES ASSUME NEW t \in Session, NEW h \in Handle, Names(t, h)' PROVE Names(t, h)
    BY DEF NoNewName
  <2>1. CASE sessionHandle'[t] = h  BY <2>1 DEF Names
  <2>2. CASE \E i \in 1..Len(iocp') : IsRequestOf(iocp'[i], t) /\ iocp'[i].handle = h
    BY <1>1, <2>2 DEF Names
  <2>3. CASE h \in DOMAIN streams' /\ streams'[h].session = t /\ streams'[h].correlation # IW_UNDEFINED
    BY <2>3
  <2> QED  BY <2>1, <2>2, <2>3 DEF Names
<1>3. StreamsKept
  <2>1. \A i \in 1..Len(iocp') : iocp'[i].kind = "EOF" => iocp'[i].handle <= handleCounter
    BY <1>1 DEF Handles, HandedOut
  <2> QED  BY <2>1 DEF StreamsKept
<1> QED  BY <1>2, <1>3

LEMMA RespondEffect ==
    ASSUME TypeOK, NEW m, m.session \in Session, NEW ack, NEW v, Respond(m, ack, v)
    PROVE  \A t \in Session :
              \/ response'[t] = response[t]
              \/ /\ t = m.session /\ Awaited(m)
                 /\ response'[t] # <<>>
                 /\ Head(response'[t]).ack = ack /\ Head(response'[t]).value = v
<1> SUFFICES ASSUME NEW t \in Session, response'[t] # response[t]
    PROVE  /\ t = m.session /\ Awaited(m)
           /\ response'[t] # <<>>
           /\ Head(response'[t]).ack = ack /\ Head(response'[t]).value = v
  OBVIOUS
<1> DEFINE r == [ack |-> ack, value |-> v]
<1>1. t = m.session /\ Awaited(m) /\ response'[t] = <<r>>  BY DEF TypeOK, Respond
<1>2. r.ack = ack /\ r.value = v  OBVIOUS
<1> HIDE DEF r
<1>3. <<r>> # <<>> /\ Head(<<r>>) = r  OBVIOUS
<1> QED  BY <1>1, <1>2, <1>3

\* What the handlers do to the streams, as far as plays are concerned.
StreamsAsBefore ==
    /\ DOMAIN streams' \subseteq DOMAIN streams
    /\ \A h \in DOMAIN streams' : /\ streams'[h].session = streams[h].session
                                  /\ streams'[h].loop = streams[h].loop
                                  /\ streams'[h].correlation = streams[h].correlation
                                  /\ streams'[h].playing => streams[h].playing

LEMMA EditedStreams ==
    ASSUME TypeOK, NEW h \in DOMAIN streams, NEW r \in Stream, streams' = [streams EXCEPT ![h] = r],
           r.session = streams[h].session, r.loop = streams[h].loop,
           r.correlation = streams[h].correlation, r.playing => streams[h].playing
    PROVE  StreamsAsBefore
BY DEF TypeOK, StreamsAsBefore

LEMMA HandlersKeepStreams ==
    ASSUME TypeOK, ModifySession \/ StartPlaybackRefused \/ StopPlayback \/ UponTearDown \/ Shutdown
    PROVE  StreamsAsBefore
<1>1. CASE UNCHANGED streams  BY <1>1 DEF StreamsAsBefore
<1>2. CASE ModifySession /\ streams' # streams
  <2>1. Known  BY <1>2 DEF ModifySession
  <2>2. streams[Msg.handle] \in Stream  BY <2>1 DEF TypeOK, Known
  <2>3. PICK r : /\ streams' = [streams EXCEPT ![Msg.handle] = r]
                 /\ \E b \in BOOLEAN :
                       \/ r = [streams[Msg.handle] EXCEPT !.pt = TRUE, !.soundread = b]
                       \/ r = [streams[Msg.handle] EXCEPT !.pt = TRUE, !.soundread = b,
                                                          !.state = "TICKING"]
    BY <1>2 DEF ModifySession, ModifyFails
  <2>4. /\ r \in Stream
        /\ r.session = streams[Msg.handle].session /\ r.loop = streams[Msg.handle].loop
        /\ r.correlation = streams[Msg.handle].correlation
        /\ r.playing = streams[Msg.handle].playing
    BY <2>2, <2>3 DEF Stream
  <2> QED  BY <2>1, <2>3, <2>4, EditedStreams DEF Known
<1>3. CASE StartPlaybackRefused /\ streams' # streams
  <2>1. Known  BY <1>3 DEF StartPlaybackRefused
  <2>2. streams[Msg.handle] \in Stream  BY <2>1 DEF TypeOK, Known
  <2> DEFINE r == StopTicking(streams[Msg.handle])
  <2>3. streams' = [streams EXCEPT ![Msg.handle] = r]
    BY <1>3, <2>1 DEF StartPlaybackRefused
  <2>4. /\ r \in Stream
        /\ r.session = streams[Msg.handle].session /\ r.loop = streams[Msg.handle].loop
        /\ r.correlation = streams[Msg.handle].correlation
        /\ r.playing = streams[Msg.handle].playing
    BY <2>2 DEF Stream, StopTicking
  <2> HIDE DEF r
  <2> QED  BY <2>1, <2>3, <2>4, EditedStreams DEF Known
<1>4. CASE StopPlayback /\ streams' # streams
  <2>1. Known  BY <1>4 DEF StopPlayback
  <2>2. streams[Msg.handle] \in Stream  BY <2>1 DEF TypeOK, Known
  <2> DEFINE r == [streams[Msg.handle] EXCEPT !.playing = FALSE]
  <2>3. streams' = [streams EXCEPT ![Msg.handle] = r]
    BY <1>4, <2>1 DEF StopPlayback
  <2>4. /\ r \in Stream
        /\ r.session = streams[Msg.handle].session /\ r.loop = streams[Msg.handle].loop
        /\ r.correlation = streams[Msg.handle].correlation
        /\ r.playing = FALSE
    BY <2>2 DEF Stream
  <2> HIDE DEF r
  <2> QED  BY <2>1, <2>3, <2>4, EditedStreams DEF Known
<1>5. CASE UponTearDown  BY <1>5 DEF UponTearDown, Without, StreamsAsBefore
<1>6. CASE Shutdown  BY <1>6 DEF Shutdown, StreamsAsBefore
<1> QED  BY <1>1, <1>2, <1>3, <1>4, <1>5, <1>6

LEMMA FilterEventStreams ==
    ASSUME TypeOK, NEW h \in Handle, OnFileFilterEvent(h)
    PROVE  /\ StreamsAsBefore /\ DOMAIN streams' = DOMAIN streams
           /\ h \in DOMAIN streams /\ streams[h].playing
           /\ streams'[h].playing => streams[h].loop
<1>1. h \in DOMAIN streams /\ streams[h].playing  BY DEF OnFileFilterEvent, Ticking
<1>2. streams[h] \in Stream  BY <1>1 DEF TypeOK
<1> DEFINE r == [streams[h] EXCEPT !.playing = streams[h].loop]
<1>3. streams' = [streams EXCEPT ![h] = r]  BY DEF OnFileFilterEvent
<1>4. /\ r \in Stream
      /\ r.session = streams[h].session /\ r.loop = streams[h].loop
      /\ r.correlation = streams[h].correlation
      /\ r.playing = streams[h].loop
  BY <1>2 DEF Stream
<1> HIDE DEF r
<1>5. StreamsAsBefore  BY <1>1, <1>3, <1>4, EditedStreams
<1> QED  BY <1>1, <1>3, <1>4, <1>5 DEF TypeOK

LEMMA StartedStream ==
    ASSUME TypeOK, StartPlayback
    PROVE  /\ DOMAIN streams' = DOMAIN streams /\ Msg.handle \in DOMAIN streams
           /\ \A h \in DOMAIN streams : h # Msg.handle => streams'[h] = streams[h]
           /\ streams'[Msg.handle].session = streams[Msg.handle].session
           /\ streams'[Msg.handle].loop = Msg.flag
           /\ streams'[Msg.handle].correlation = correlationCounter + 1
<1>1. Msg.handle \in DOMAIN streams  BY DEF StartPlayback, Known
<1>2. streams[Msg.handle] \in Stream  BY <1>1 DEF TypeOK
<1> DEFINE r == [streams[Msg.handle] EXCEPT !.state = "TICKING", !.playing = TRUE,
                                 !.loop = Msg.flag, !.correlation = correlationCounter']
<1>3. streams' = [streams EXCEPT ![Msg.handle] = r]  BY DEF StartPlayback
<1>4. /\ r.session = streams[Msg.handle].session /\ r.loop = Msg.flag
      /\ r.correlation = correlationCounter'
  BY <1>2 DEF Stream
<1>5. correlationCounter' = correlationCounter + 1  BY DEF StartPlayback
<1> HIDE DEF r
<1> QED  BY <1>1, <1>3, <1>4, <1>5 DEF TypeOK

LEMMA AllocatedStream ==
    ASSUME TypeOK, AllocatePlaybackSession
    PROVE  /\ handleCounter' = handleCounter + 1
           /\ \/ UNCHANGED streams
              \/ /\ DOMAIN streams' = DOMAIN streams \cup {handleCounter + 1}
                 /\ \A h \in DOMAIN streams : h # handleCounter + 1 => streams'[h] = streams[h]
                 /\ streams'[handleCounter + 1].session = Msg.session
                 /\ streams'[handleCounter + 1].correlation = IW_UNDEFINED
                 /\ ~streams'[handleCounter + 1].playing
                 /\ ~streams'[handleCounter + 1].loop
<1> DEFINE r == [session |-> Msg.session, pt |-> ~Msg.flag, soundread |-> ~Msg.flag,
                 state |-> "ALLOCATED", playing |-> FALSE, loop |-> FALSE,
                 correlation |-> IW_UNDEFINED]
<1>1. handleCounter' = handleCounter + 1  BY DEF AllocatePlaybackSession
<1>2. UNCHANGED streams \/ streams' = Plus(streams, handleCounter + 1, r)
  BY <1>1 DEF AllocatePlaybackSession
<1>3. /\ r.session = Msg.session /\ r.correlation = IW_UNDEFINED /\ ~r.playing /\ ~r.loop
  OBVIOUS
<1> HIDE DEF r
<1> QED  BY <1>1, <1>2, <1>3 DEF Plus

LEMMA HandlesInit == Init => Handles
<1> SUFFICES ASSUME Init PROVE Handles  OBVIOUS
<1>1. Len(iocp) = 0 /\ DOMAIN streams = {}  BY DEF Init
<1>2. \A s \in Session, h \in Handle : ~Names(s, h)
  BY <1>1, BoundsAssumption DEF Init, Names, Handle, IW_UNDEFINED
<1>3. AllocatedIsOwn /\ AnswersAreAwaited  BY DEF Init, AllocatedIsOwn, AnswersAreAwaited
<1>4. HandedOut  BY <1>1 DEF HandedOut
<1> QED  BY <1>2, <1>3, <1>4 DEF Handles, NamedIsOwn, NamesAfterAllocate, NamesOne

\* AllocateAck: what the session names from now on is its stream.
LEMMA AllocateAckHandles ==
    ASSUME TypeOK, TypeOK', Handles, NEW s \in Session, AllocateAck(s)
    PROVE  Handles'
<1> DEFINE v == Head(response[s]).value
<1>1. Received(s, "Allocate", TRUE)  BY DEF AllocateAck
<1>2. /\ op[s] = "Allocate" /\ response[s] # <<>> /\ Head(response[s]).ack
      /\ response' = [response EXCEPT ![s] = <<>>]
  BY <1>1 DEF Received
<1>3. /\ v \in 1..handleCounter
      /\ v \in DOMAIN streams => streams[v].session = s
  BY <1>2 DEF Handles, AllocatedIsOwn
<1>4. /\ sessionHandle' = [sessionHandle EXCEPT ![s] = v]
      /\ listener' = [listener EXCEPT ![s] = "waiting"]
      /\ op' = [op EXCEPT ![s] = "idle"]
      /\ UNCHANGED <<iocp, streams, handleCounter, hangup, hangups>>
  BY DEF AllocateAck, streamerVars, hangupVars
<1> HIDE DEF v
<1>5. \A h \in Handle : ~Names(s, h)
  BY <1>2 DEF Handles, AnswersAreAwaited, NamesAfterAllocate
<1>6. \A t \in Session, h \in Handle : Names(t, h)' <=> IF t = s THEN h = v ELSE Names(t, h)
  <2> SUFFICES ASSUME NEW t \in Session, NEW h \in Handle
      PROVE  Names(t, h)' <=> IF t = s THEN h = v ELSE Names(t, h)
    OBVIOUS
  <2>1. sessionHandle'[t] = IF t = s THEN v ELSE sessionHandle[t]  BY <1>4 DEF TypeOK
  <2>2. CASE t = s
    <3>1. ~Names(s, h)  BY <1>5
    <3> QED  BY <1>4, <2>1, <2>2, <3>1 DEF Names
  <2>3. CASE t # s  BY <1>4, <2>1, <2>3 DEF Names
  <2> QED  BY <2>2, <2>3
<1>7. NamedIsOwn'
  <2> SUFFICES ASSUME NEW t \in Session, NEW h \in Handle, Names(t, h)'
      PROVE  h <= handleCounter /\ (h \in DOMAIN streams => streams[h].session = t)
    BY <1>4 DEF NamedIsOwn
  <2>1. CASE t = s
    <3>1. h = v  BY <1>6, <2>1
    <3> QED  BY <1>3, <2>1, <3>1
  <2>2. CASE t # s
    <3>1. Names(t, h)  BY <1>6, <2>2
    <3> QED  BY <3>1 DEF Handles, NamedIsOwn
  <2> QED  BY <2>1, <2>2
<1>8. NamesAfterAllocate'
  <2> SUFFICES ASSUME NEW t \in Session, listener'[t] = "none", op'[t] # "deleted", NEW h \in Handle
      PROVE  ~Names(t, h)'
    BY DEF NamesAfterAllocate
  <2>1. t # s /\ listener[t] = "none" /\ op[t] # "deleted"  BY <1>4 DEF TypeOK
  <2> QED  BY <1>6, <2>1 DEF Handles, NamesAfterAllocate
<1>9. NamesOne'
  <2> SUFFICES ASSUME NEW t \in Session, NEW h \in Handle, NEW k \in Handle,
                      Names(t, h)', Names(t, k)'
      PROVE  h = k
    BY DEF NamesOne
  <2> QED  BY <1>6 DEF Handles, NamesOne
<1>10. HandedOut'  BY <1>4 DEF Handles, HandedOut
<1>11. AnswersAreAwaited'  BY <1>2, <1>4 DEF Handles, AnswersAreAwaited, TypeOK
<1>12. AllocatedIsOwn'
  <2> SUFFICES ASSUME NEW t \in Session,
                      op'[t] = "Allocate", response'[t] # <<>>, Head(response'[t]).ack
      PROVE  LET h == Head(response'[t]).value
             IN  /\ h \in 1..handleCounter'
                 /\ h \in DOMAIN streams' => streams'[h].session = t
    BY DEF AllocatedIsOwn
  <2>1. t # s /\ op[t] = "Allocate" /\ response'[t] = response[t]  BY <1>2, <1>4 DEF TypeOK
  <2> QED  BY <1>4, <2>1 DEF Handles, AllocatedIsOwn
<1> QED  BY <1>7, <1>8, <1>9, <1>10, <1>11, <1>12 DEF Handles

LEMMA HandlesStep ==
    ASSUME TypeOK, TypeOK', Handles, Next PROVE Handles'
<1> USE DEF ownerVars, listenVars, hangupVars, streamerVars, historyVars
<1>1. ASSUME NoNewName, StreamsKept, NoNewListener, NoNewAllocated, AnswersAreAwaited'
      PROVE  Handles'
  BY <1>1, HandlesKept, AllocatedKept DEF Handles
<1>2. ASSUME NEW s \in Session, Allocate(s) PROVE Handles'
  <2>1. PICK empty \in BOOLEAN : Ask(s, "Allocate", "ALLOCATE_SESSION_REQ", empty)
    BY <1>2 DEF Allocate
  <2>2. NoNewName /\ StreamsKept
    BY <1>2, <2>1, SendStep DEF Allocate, Ask, Request
  <2>3. NoNewListener /\ NoNewAllocated /\ AnswersAreAwaited'
    BY <1>2, <2>1 DEF Allocate, Ask, NoNewListener, NoNewAllocated, Handles, AnswersAreAwaited,
                      TypeOK, TxnOp
  <2> QED  BY <1>1, <2>2, <2>3
<1>3. ASSUME NEW s \in Session, AllocateAck(s) PROVE Handles'  BY <1>3, AllocateAckHandles
<1>4. ASSUME NEW s \in Session, ModifyConnection(s) PROVE Handles'
  <2>1. NoNewName /\ StreamsKept
    BY <1>4, SendStep DEF ModifyConnection, Ask, Request
  <2>2. NoNewListener /\ NoNewAllocated /\ AnswersAreAwaited'
    BY <1>4 DEF ModifyConnection, Ask, NoNewListener, NoNewAllocated, Handles, AnswersAreAwaited,
                TypeOK, TxnOp
  <2> QED  BY <1>1, <2>1, <2>2
<1>5. ASSUME NEW s \in Session,
             Answered(s) \/ TimedOut(s) \/ PlayAck(s) \/ PlayStopped(s) \/ PlayGivesUp(s)
             \/ InterruptWithHangup(s) \/ UponActiveObjectEvent(s)
      PROVE  Handles'
  <2>1. NoNewName /\ StreamsKept
    BY <1>5, QuietStep DEF Answered, TimedOut, PlayAck, PlayStopped, PlayGivesUp,
                           InterruptWithHangup, UponActiveObjectEvent
  <2>2. NoNewListener
    BY <1>5 DEF Answered, TimedOut, PlayAck, PlayStopped, PlayGivesUp, Received, Expired,
                InterruptWithHangup, UponActiveObjectEvent, NoNewListener, TypeOK, TxnOp
  <2>3. NoNewAllocated
    <3> SUFFICES ASSUME NEW t \in Session, op'[t] = "Allocate", response'[t] # <<>>
        PROVE  op[t] = "Allocate" /\ response'[t] = response[t]
      BY DEF NoNewAllocated
    <3>1. CASE Answered(s)
      <4>1. op' = [op EXCEPT ![s] = "idle"] /\ response' = [response EXCEPT ![s] = <<>>]
        BY <3>1 DEF Answered, Received
      <4> QED  BY <4>1 DEF TypeOK
    <3>2. CASE PlayAck(s)
      <4>1. /\ op'[s] # "Allocate" /\ response' = [response EXCEPT ![s] = <<>>]
            /\ op' = [op EXCEPT ![s] = op'[s]]
        BY <3>2 DEF PlayAck, Received, TypeOK
      <4> QED  BY <4>1 DEF TypeOK
    <3>3. CASE TimedOut(s)  BY <3>3 DEF TimedOut, Expired, TypeOK
    <3>4. CASE PlayStopped(s)  BY <3>4 DEF PlayStopped, TypeOK
    <3>5. CASE PlayGivesUp(s)  BY <3>5 DEF PlayGivesUp, TypeOK
    <3>6. CASE InterruptWithHangup(s) \/ UponActiveObjectEvent(s)
      BY <3>6 DEF InterruptWithHangup, UponActiveObjectEvent
    <3> QED  BY <1>5, <3>1, <3>2, <3>3, <3>4, <3>5, <3>6
  <2>4. AnswersAreAwaited'
    <3>1. CASE Answered(s) \/ TimedOut(s) \/ PlayAck(s)
      <4>1. /\ op'[s] \in {"idle", "WaitStopped"} /\ response'[s] = <<>>
            /\ \A t \in Session : t # s => op'[t] = op[t] /\ response'[t] = response[t]
            /\ UNCHANGED <<listener, hangup, hangups>>
        BY <3>1 DEF Answered, TimedOut, PlayAck, Received, Expired, TypeOK
      <4> QED  BY <4>1 DEF Handles, AnswersAreAwaited
    <3>2. CASE PlayStopped(s)
      BY <3>2 DEF PlayStopped, Handles, AnswersAreAwaited, TypeOK, TxnOp
    <3>3. CASE PlayGivesUp(s)
      BY <3>3 DEF PlayGivesUp, Handles, AnswersAreAwaited, TypeOK, TxnOp
    <3>4. CASE InterruptWithHangup(s)
      BY <3>4 DEF InterruptWithHangup, Handles, AnswersAreAwaited, TypeOK
    <3>5. CASE UponActiveObjectEvent(s)
      BY <3>5 DEF UponActiveObjectEvent, Handles, AnswersAreAwaited, TypeOK
    <3> QED  BY <1>5, <3>1, <3>2, <3>3, <3>4, <3>5
  <2> QED  BY <1>1, <2>1, <2>2, <2>3, <2>4
<1>6. ASSUME NEW s \in Session, PlayFile(s) PROVE Handles'
  <2>1. PICK loop \in BOOLEAN : Ask(s, "Play", "PLAY_REQUEST", loop)
    BY <1>6 DEF PlayFile
  <2>2. NoNewName /\ StreamsKept
    BY <1>6, <2>1, SendStep DEF PlayFile, Ask, Request
  <2>3. NoNewListener /\ NoNewAllocated /\ AnswersAreAwaited'
    BY <1>6, <2>1 DEF PlayFile, Ask, NoNewListener, NoNewAllocated, Handles, AnswersAreAwaited,
                      TypeOK, TxnOp
  <2> QED  BY <1>1, <2>2, <2>3
<1>7. ASSUME NEW s \in Session, StopPlay(s) PROVE Handles'
  <2>1. NoNewName /\ StreamsKept
    BY <1>7, SendStep DEF StopPlay, Request
  <2>2. NoNewListener /\ NoNewAllocated /\ AnswersAreAwaited'
    BY <1>7 DEF StopPlay, NoNewListener, NoNewAllocated, Handles, AnswersAreAwaited
  <2> QED  BY <1>1, <2>1, <2>2
<1>8. ASSUME NEW s \in Session, TearDownEffect(s), UNCHANGED <<streams, handleCounter>>
      PROVE  NoNewName /\ StreamsKept
  BY <1>8, SendStep, QuietStep DEF TearDownEffect, Request
<1>9. ASSUME NEW s \in Session, TearDown(s) PROVE Handles'
  <2>1. NoNewName /\ StreamsKept  BY <1>8, <1>9 DEF TearDown
  <2>2. NoNewListener /\ NoNewAllocated /\ AnswersAreAwaited'
    BY <1>9 DEF TearDown, NoNewListener, NoNewAllocated, Handles, AnswersAreAwaited
  <2> QED  BY <1>1, <2>1, <2>2
<1>10. ASSUME NEW s \in Session, Delete(s) PROVE Handles'
  <2>1. NoNewName /\ StreamsKept  BY <1>8, <1>10, QuietStep DEF Delete
  <2>2. NoNewListener /\ NoNewAllocated
    BY <1>10 DEF Delete, NoNewListener, NoNewAllocated, TypeOK
  <2>3. AnswersAreAwaited'
    BY <1>10 DEF Delete, Handles, AnswersAreAwaited, TypeOK, TxnOp
  <2> QED  BY <1>1, <2>1, <2>2, <2>3
<1>11. ASSUME NEW k, Serves(k), StreamsAsBefore, UNCHANGED <<sessionHandle, handleCounter>>
       PROVE  NoNewName /\ StreamsKept
  BY <1>11, ServeStep DEF StreamsAsBefore, Names
<1>12. ASSUME NEW m, NEW ack, NEW v, m.session \in Session, Respond(m, ack, v),
              UNCHANGED <<op, listener, hangup, hangups>>
       PROVE  NoNewListener /\ AnswersAreAwaited'
  <2>1. NoNewListener  BY <1>12 DEF NoNewListener
  <2>2. AnswersAreAwaited'
    BY <1>12, RespondEffect DEF Handles, AnswersAreAwaited, Awaited
  <2> QED  BY <2>1, <2>2
<1>13. ASSUME NEW k, Serves(k), Msg.handle \in DOMAIN streams, k # "EOF"
       PROVE  Names(Msg.session, Msg.handle) /\ streams[Msg.handle].session = Msg.session
  <2>1. Names(Msg.session, Msg.handle)
    <3>1. /\ iocp[1] = Msg /\ 1 \in 1..Len(iocp) /\ IsRequestOf(Msg, Msg.session)
      BY <1>13, ServesType DEF TypeOK
    <3> QED  BY <3>1 DEF Names
  <2>2. Msg.session \in Session /\ Msg.handle \in Handle  BY <1>13, ServesType DEF TypeOK
  <2> QED  BY <1>13, <2>1, <2>2 DEF Handles, NamedIsOwn
<1>14. CASE AllocatePlaybackSession
  <2>1. /\ Serves("ALLOCATE_SESSION_REQ") /\ Msg.session \in Session
    BY <1>14, ServesType DEF AllocatePlaybackSession
  <2>2. /\ handleCounter \in Nat
        /\ \A h \in DOMAIN streams : h \in Nat /\ h <= handleCounter
    BY BoundsAssumption DEF TypeOK, Handle, Handles, HandedOut
  <2>3. NoNewName /\ StreamsKept
    <3>1. /\ \A h \in DOMAIN streams' :
                \/ h \in DOMAIN streams /\ streams'[h] = streams[h]
                \/ /\ h = handleCounter + 1
                   /\ streams'[h].correlation = IW_UNDEFINED
          /\ handleCounter' = handleCounter + 1
      BY <1>14, <2>2, AllocatedStream
    <3>2. UNCHANGED sessionHandle  BY <1>14 DEF AllocatePlaybackSession
    <3>3. \A t \in Session, h \in DOMAIN streams' :
              streams'[h].session = t /\ streams'[h].correlation # IW_UNDEFINED => Names(t, h)
      BY <3>1 DEF Names
    <3>4. \A h \in DOMAIN streams' :
              \/ h \in DOMAIN streams /\ streams'[h].session = streams[h].session
              \/ h = handleCounter + 1 /\ handleCounter' = h
      BY <3>1
    <3> QED  BY <2>1, <3>1, <3>2, <3>3, <3>4, ServeStep
  <2>4. PICK ack, v : /\ ack \in BOOLEAN /\ Respond(Msg, ack, v)
                      /\ (ack => v = handleCounter + 1 /\ streams' # streams)
    <3>1. CASE Respond(Msg, FALSE, IW_UNDEFINED)  BY <3>1
    <3>2. CASE ~Respond(Msg, FALSE, IW_UNDEFINED)
      <4>1. Respond(Msg, TRUE, handleCounter')  BY <1>14, <3>2 DEF AllocatePlaybackSession
      <4>2. streams' = Plus(streams, handleCounter',
                             [session |-> Msg.session, pt |-> ~Msg.flag, soundread |-> ~Msg.flag,
                              state |-> "ALLOCATED", playing |-> FALSE, loop |-> FALSE,
                              correlation |-> IW_UNDEFINED])
        BY <1>14, <3>2 DEF AllocatePlaybackSession
      <4>3. handleCounter' \in DOMAIN streams'  BY <4>2 DEF Plus
      <4>4. handleCounter' = handleCounter + 1  BY <1>14 DEF AllocatePlaybackSession
      <4>5. handleCounter + 1 \notin DOMAIN streams  BY <2>2
      <4> QED  BY <4>1, <4>3, <4>4, <4>5
    <3> QED  BY <3>1, <3>2
  <2>5. NoNewListener /\ AnswersAreAwaited'
    BY <1>12, <1>14, <2>1, <2>4 DEF AllocatePlaybackSession
  <2>6. AllocatedIsOwn'
    <3> SUFFICES ASSUME NEW t \in Session,
                        op'[t] = "Allocate", response'[t] # <<>>, Head(response'[t]).ack
        PROVE  LET h == Head(response'[t]).value
               IN  /\ h \in 1..handleCounter'
                   /\ h \in DOMAIN streams' => streams'[h].session = t
      BY DEF AllocatedIsOwn
    <3>1. op[t] = "Allocate" /\ handleCounter' = handleCounter + 1
      BY <1>14 DEF AllocatePlaybackSession
    <3>2. CASE response'[t] = response[t]
      <4> DEFINE h == Head(response[t]).value
      <4>1. h \in 1..handleCounter /\ (h \in DOMAIN streams => streams[h].session = t)
        BY <3>1, <3>2 DEF Handles, AllocatedIsOwn
      <4> HIDE DEF h
      <4>2. h \in 1..handleCounter' /\ (h \in DOMAIN streams' => streams'[h].session = t)
        BY <2>2, <2>3, <3>1, <4>1 DEF StreamsKept
      <4> QED  BY <3>2, <4>2 DEF h
    <3>3. CASE response'[t] # response[t]
      <4>1. t = Msg.session /\ Head(response'[t]).value = handleCounter + 1 /\ streams' # streams
        BY <2>1, <2>4, <3>3, RespondEffect
      <4>2. streams'[handleCounter + 1].session = Msg.session  BY <1>14, <4>1, AllocatedStream
      <4>3. handleCounter + 1 \in 1..handleCounter'  BY <2>2, <3>1
      <4> QED  BY <4>1, <4>2, <4>3
    <3> QED  BY <3>2, <3>3
  <2> QED  BY <2>3, <2>5, <2>6, HandlesKept DEF Handles
<1>15. CASE ModifySession
  <2>1. Serves("MODIFY_REQ") /\ Msg.session \in Session  BY <1>15, ServesType DEF ModifySession
  <2>2. NoNewName /\ StreamsKept
    BY <1>11, <1>15, <2>1, HandlersKeepStreams DEF ModifySession
  <2>3. PICK ack \in BOOLEAN : Respond(Msg, ack, IW_UNDEFINED) /\ (ack => Known)
    BY <1>15 DEF ModifySession
  <2>4. NoNewListener /\ AnswersAreAwaited'  BY <1>12, <1>15, <2>1, <2>3 DEF ModifySession
  <2>5. NoNewAllocated
    <3> SUFFICES ASSUME NEW t \in Session, op'[t] = "Allocate", response'[t] # <<>>,
                        Head(response'[t]).ack, response'[t] # response[t]
        PROVE  FALSE
      BY <1>15 DEF NoNewAllocated, ModifySession
    <3>1. t = Msg.session /\ Known  BY <2>1, <2>3, RespondEffect
    <3>2. Names(t, Msg.handle) /\ Msg.handle \in Handle  BY <1>13, <2>1, <3>1 DEF Known, TypeOK
    <3>3. op[t] = "Allocate"  BY <1>15 DEF ModifySession
    <3> QED  BY <3>2, <3>3 DEF Handles, NamesAfterAllocate, AnswersAreAwaited
  <2> QED  BY <1>1, <2>2, <2>4, <2>5
<1>16. CASE StartPlaybackRefused
  <2>1. Serves("PLAY_REQUEST") /\ Msg.session \in Session
    BY <1>16, ServesType DEF StartPlaybackRefused
  <2>2. NoNewName /\ StreamsKept
    BY <1>11, <1>16, <2>1, HandlersKeepStreams DEF StartPlaybackRefused
  <2>3. Respond(Msg, FALSE, IW_UNDEFINED)  BY <1>16 DEF StartPlaybackRefused
  <2>4. NoNewListener /\ AnswersAreAwaited'  BY <1>12, <1>16, <2>1, <2>3 DEF StartPlaybackRefused
  <2>5. NoNewAllocated
    BY <1>16, <2>1, <2>3, RespondEffect DEF NoNewAllocated, StartPlaybackRefused
  <2> QED  BY <1>1, <2>2, <2>4, <2>5
<1>17. CASE StartPlayback
  <2>1. Serves("PLAY_REQUEST") /\ Msg.session \in Session /\ Msg.handle \in DOMAIN streams
    BY <1>17, ServesType DEF StartPlayback, Known
  <2>2. Names(Msg.session, Msg.handle) /\ streams[Msg.handle].session = Msg.session
    BY <1>13, <2>1
  <2>3. NoNewName /\ StreamsKept
    <3>1. UNCHANGED <<sessionHandle, handleCounter>>  BY <1>17 DEF StartPlayback
    <3>2. \A h \in DOMAIN streams' :
              h \in DOMAIN streams /\ streams'[h].session = streams[h].session
      BY <1>17, StartedStream
    <3>3. \A t \in Session, h \in DOMAIN streams' :
              streams'[h].session = t /\ streams'[h].correlation # IW_UNDEFINED => Names(t, h)
      <4> SUFFICES ASSUME NEW t \in Session, NEW h \in DOMAIN streams',
                          streams'[h].session = t, streams'[h].correlation # IW_UNDEFINED
          PROVE  Names(t, h)
        OBVIOUS
      <4>1. CASE h = Msg.handle  BY <2>2, <3>2, <4>1
      <4>2. CASE h # Msg.handle  BY <1>17, <4>2, StartedStream DEF Names
      <4> QED  BY <4>1, <4>2
    <3> QED  BY <2>1, <3>1, <3>2, <3>3, ServeStep
  <2>4. PICK v : Respond(Msg, TRUE, v)  BY <1>17 DEF StartPlayback
  <2>5. NoNewListener /\ AnswersAreAwaited'  BY <1>12, <1>17, <2>1, <2>4 DEF StartPlayback
  <2>6. NoNewAllocated
    <3> SUFFICES ASSUME NEW t \in Session, op'[t] = "Allocate", response'[t] # response[t]
        PROVE  FALSE
      BY <1>17 DEF NoNewAllocated, StartPlayback
    <3>1. t = Msg.session  BY <2>1, <2>4, RespondEffect
    <3>2. Msg.handle \in Handle  BY <2>1 DEF TypeOK
    <3>3. op[t] = "Allocate"  BY <1>17 DEF StartPlayback
    <3> QED  BY <2>2, <3>1, <3>2, <3>3 DEF Handles, NamesAfterAllocate, AnswersAreAwaited
  <2> QED  BY <1>1, <2>3, <2>5, <2>6
<1>18. CASE StopPlayback \/ UponTearDown
  <2>1. PICK k : Serves(k)  BY <1>18 DEF StopPlayback, UponTearDown
  <2>2. NoNewName /\ StreamsKept
    BY <1>11, <1>18, <2>1, HandlersKeepStreams DEF StopPlayback, UponTearDown
  <2>3. NoNewListener /\ NoNewAllocated /\ AnswersAreAwaited'
    BY <1>18 DEF StopPlayback, UponTearDown, NoNewListener, NoNewAllocated, Handles,
                 AnswersAreAwaited
  <2> QED  BY <1>1, <2>2, <2>3
<1>19. CASE UponPlaybackStopped
  <2>1. NoNewName /\ StreamsKept
    <3>1. StreamsAsBefore  BY <1>19 DEF UponPlaybackStopped, StreamsAsBefore
    <3> QED  BY <1>11, <1>19, <3>1 DEF UponPlaybackStopped
  <2>2. NoNewListener /\ NoNewAllocated /\ AnswersAreAwaited'
    BY <1>19 DEF UponPlaybackStopped, NoNewListener, NoNewAllocated, Handles, AnswersAreAwaited
  <2> QED  BY <1>1, <2>1, <2>2
<1>20. CASE Shutdown
  <2>1. DOMAIN streams' = {} /\ Len(iocp') = 0  BY <1>20 DEF Shutdown
  <2>2. NoNewName  BY <1>20, <2>1 DEF NoNewName, Names, Shutdown
  <2>3. StreamsKept  BY <1>20, <2>1 DEF StreamsKept, Shutdown
  <2>4. NoNewListener /\ NoNewAllocated /\ AnswersAreAwaited'
    BY <1>20 DEF Shutdown, NoNewListener, NoNewAllocated, Handles, AnswersAreAwaited
  <2> QED  BY <1>1, <2>2, <2>3, <2>4
<1>21. ASSUME NEW h \in Handle, OnFileFilterEvent(h) PROVE Handles'
  <2> DEFINE m == [kind |-> "EOF", handle |-> h]
  <2>1. m.kind = "EOF" /\ m.handle = h /\ m \in Message  BY DEF Message
  <2>2. ToStreamer(m)  BY <1>21 DEF OnFileFilterEvent, ToStreamer
  <2> HIDE DEF m
  <2>3. \A i \in 1..Len(iocp') : (i \in 1..Len(iocp) /\ iocp'[i] = iocp[i]) \/ iocp'[i] = m
    BY <2>1, <2>2, SendShape
  <2>4. NoNewName
    BY <1>21, <2>1, <2>3, FilterEventStreams
       DEF NoNewName, Names, IsRequestOf, Request, OnFileFilterEvent, StreamsAsBefore
  <2>5. StreamsKept
    BY <1>21, <2>1, <2>3, FilterEventStreams
       DEF StreamsKept, OnFileFilterEvent, StreamsAsBefore, Handles, HandedOut
  <2>6. NoNewListener /\ NoNewAllocated /\ AnswersAreAwaited'
    BY <1>21 DEF OnFileFilterEvent, NoNewListener, NoNewAllocated, Handles, AnswersAreAwaited
  <2> QED  BY <1>1, <2>4, <2>5, <2>6
<1> QED
  BY <1>2, <1>3, <1>4, <1>5, <1>6, <1>7, <1>9, <1>10, <1>14, <1>15, <1>16, <1>17, <1>18, <1>19,
     <1>20, <1>21 DEF Next, Owner, Streamer

-----------------------------------------------------------------------------
(* Plays.  They begin in StartPlayback and end in OnFileFilterEvent.       *)

NoNewEof ==
    \A i \in 1..Len(iocp') : iocp'[i].kind = "EOF" => \E j \in 1..Len(iocp) : iocp[j] = iocp'[i]
QueuesOfEnds(E) ==
    \A s \in Session : /\ \A i \in 1..Len(inbound[s]) : inbound[s][i] \in E
                       /\ \A i \in 1..Len(playStopped[s]) : playStopped[s][i] \in E

LEMMA PlaysInit == Init => Plays
<1> SUFFICES ASSUME Init PROVE Plays  OBVIOUS
<1>1. Len(iocp) = 0 /\ DOMAIN streams = {} /\ ended = {}  BY DEF Init
<1>2. \A s \in Session : Len(inbound[s]) = 0 /\ Len(playStopped[s]) = 0  BY DEF Init
<1> QED  BY <1>1, <1>2 DEF Plays, PlaysAreCounted, PlaysDiffer, PlayingHasNotEnded, ReportedEnds

LEMMA PlaysKept ==
    ASSUME TypeOK, Plays, StreamsAsBefore, NoNewEof, QueuesOfEnds(ended \cup overtaken)',
           UNCHANGED <<correlationCounter, ended, overtaken>>
    PROVE  Plays'
<1>1. PlaysAreCounted' /\ PlayingHasNotEnded'
  BY DEF Plays, PlaysAreCounted, PlayingHasNotEnded, StreamsAsBefore
<1>2. PlaysDiffer'  BY DEF Plays, PlaysDiffer, StreamsAsBefore
<1>3. ReportedEnds'
  <2>1. ASSUME NEW i \in 1..Len(iocp'), iocp'[i].kind = "EOF", iocp'[i].handle \in DOMAIN streams'
        PROVE  streams'[iocp'[i].handle].correlation \in ended' \cup overtaken'
    <3>1. PICK j \in 1..Len(iocp) : iocp[j] = iocp'[i]  BY <2>1 DEF NoNewEof
    <3> QED  BY <2>1, <3>1 DEF Plays, ReportedEnds, StreamsAsBefore
  <2> QED  BY <2>1 DEF ReportedEnds, QueuesOfEnds
<1> QED  BY <1>1, <1>2, <1>3 DEF Plays

LEMMA PlaysStep ==
    ASSUME TypeOK, TypeOK', Handles, Plays, Next PROVE Plays'
<1> USE DEF ownerVars, listenVars, hangupVars, streamerVars, historyVars
<1> DEFINE E == ended \cup overtaken
<1>1. QueuesOfEnds(E)  BY DEF Plays, ReportedEnds, QueuesOfEnds
<1>2. ASSUME UNCHANGED streams PROVE StreamsAsBefore  BY <1>2 DEF StreamsAsBefore
<1>3. ASSUME NEW m \in Message, m.kind # "EOF", ToStreamer(m) PROVE NoNewEof
  BY <1>3, SendShape DEF NoNewEof
<1>4. ASSUME NEW k, Serves(k) PROVE NoNewEof
  BY <1>4, ServesType DEF NoNewEof
<1>5. ASSUME UNCHANGED iocp PROVE NoNewEof  BY <1>5 DEF NoNewEof
<1>6. ASSUME UNCHANGED <<inbound, playStopped, ended, overtaken>>
      PROVE  QueuesOfEnds(ended \cup overtaken)'
  BY <1>1, <1>6 DEF QueuesOfEnds
<1>7. ASSUME NEW s \in Session, NEW kind \in Request, NEW flag \in BOOLEAN,
             ToStreamer(Req(s, kind, flag))
      PROVE  NoNewEof
  <2>1. kind # "EOF"  BY DEF Request
  <2> QED  BY <1>3, <1>7, <2>1, ReqType
<1>8. ASSUME NEW s \in Session, Allocate(s) \/ ModifyConnection(s) \/ PlayFile(s) PROVE Plays'
  <2>1. {"ALLOCATE_SESSION_REQ", "MODIFY_REQ", "PLAY_REQUEST"} \subseteq Request  BY DEF Request
  <2>2. NoNewEof
    BY <1>7, <1>8, <2>1 DEF Allocate, ModifyConnection, PlayFile, Ask
  <2> QED  BY <1>2, <1>6, <1>8, <2>2, PlaysKept DEF Allocate, ModifyConnection, PlayFile
<1>9. ASSUME NEW s \in Session,
             AllocateAck(s) \/ Answered(s) \/ TimedOut(s) \/ PlayAck(s) \/ PlayGivesUp(s)
             \/ InterruptWithHangup(s)
      PROVE  Plays'
  <2>1. UNCHANGED <<streams, iocp, inbound, playStopped, correlationCounter, ended, overtaken>>
    BY <1>9 DEF AllocateAck, Answered, TimedOut, PlayAck, PlayGivesUp, InterruptWithHangup
  <2> QED  BY <1>2, <1>5, <1>6, <2>1, PlaysKept
<1>10. ASSUME NEW s \in Session, PlayStopped(s) PROVE Plays'
  <2>1. QueuesOfEnds(ended \cup overtaken)'
    <3>1. /\ playStopped[s] \in Seq(Play) /\ playStopped[s] # <<>>
          /\ playStopped' = [playStopped EXCEPT ![s] = Tail(playStopped[s])]
          /\ UNCHANGED <<inbound, ended, overtaken>>
      BY <1>10 DEF PlayStopped, TypeOK
    <3>2. \A i \in 1..Len(Tail(playStopped[s])) :
             i + 1 \in 1..Len(playStopped[s]) /\ Tail(playStopped[s])[i] = playStopped[s][i + 1]
      BY <3>1
    <3>3. ASSUME NEW t \in Session, NEW i \in 1..Len(playStopped'[t]) PROVE playStopped'[t][i] \in E
      <4>1. CASE t = s
        <5>1. playStopped'[t] = Tail(playStopped[s])  BY <3>1, <4>1 DEF TypeOK
        <5> QED  BY <1>1, <3>2, <3>3, <5>1 DEF QueuesOfEnds
      <4>2. CASE t # s  BY <1>1, <3>1, <3>3, <4>2 DEF QueuesOfEnds, TypeOK
      <4> QED  BY <4>1, <4>2
    <3> QED  BY <1>1, <3>1, <3>3 DEF QueuesOfEnds
  <2> QED  BY <1>2, <1>5, <1>10, <2>1, PlaysKept DEF PlayStopped
<1>11. ASSUME NEW s \in Session, StopPlay(s) PROVE Plays'
  <2>1. NoNewEof  BY <1>7, <1>11 DEF StopPlay, Request
  <2> QED  BY <1>2, <1>6, <1>11, <2>1, PlaysKept DEF StopPlay
<1>12. ASSUME NEW s \in Session, TearDownEffect(s) PROVE NoNewEof
  BY <1>5, <1>7, <1>12 DEF TearDownEffect, Request
<1>13. ASSUME NEW s \in Session, TearDown(s) PROVE Plays'
  BY <1>2, <1>6, <1>12, <1>13, PlaysKept DEF TearDown
<1>14. ASSUME NEW s \in Session, Delete(s) PROVE Plays'
  <2>1. NoNewEof  BY <1>5, <1>12, <1>14 DEF Delete
  <2>2. QueuesOfEnds(ended \cup overtaken)'
    <3>1. \A t \in Session : /\ inbound'[t] = inbound[t] \/ Len(inbound'[t]) = 0
                             /\ playStopped'[t] = playStopped[t] \/ Len(playStopped'[t]) = 0
      <4>1. \/ UNCHANGED <<inbound, playStopped>>
            \/ /\ inbound' = [inbound EXCEPT ![s] = <<>>]
               /\ playStopped' = [playStopped EXCEPT ![s] = <<>>]
        BY <1>14 DEF Delete
      <4>2. CASE UNCHANGED <<inbound, playStopped>>  BY <4>2
      <4>3. CASE /\ inbound' = [inbound EXCEPT ![s] = <<>>]
                 /\ playStopped' = [playStopped EXCEPT ![s] = <<>>]
        <5>1. \A t \in Session : /\ inbound'[t] = IF t = s THEN <<>> ELSE inbound[t]
                                 /\ playStopped'[t] = IF t = s THEN <<>> ELSE playStopped[t]
          BY <4>3 DEF TypeOK
        <5>2. Len(<<>>) = 0  OBVIOUS
        <5> QED  BY <5>1, <5>2
      <4> QED  BY <4>1, <4>2, <4>3
    <3>2. UNCHANGED <<ended, overtaken>>  BY <1>14 DEF Delete
    <3> QED  BY <1>1, <3>1, <3>2 DEF QueuesOfEnds
  <2> QED  BY <1>2, <1>14, <2>1, <2>2, PlaysKept DEF Delete
<1>15. ASSUME NEW s \in Session, UponActiveObjectEvent(s) PROVE Plays'
  <2>1. QueuesOfEnds(ended \cup overtaken)'
    <3>1. CASE UNCHANGED <<inbound, playStopped>>
      BY <1>6, <1>15, <3>1 DEF UponActiveObjectEvent
    <3>2. CASE ~UNCHANGED <<inbound, playStopped>>
      <4>1. /\ inbound[s] \in Seq(Play) /\ inbound[s] # <<>> /\ playStopped[s] \in Seq(Play)
            /\ playStopped' = [playStopped EXCEPT ![s] = Append(playStopped[s], Head(inbound[s]))]
            /\ inbound' = [inbound EXCEPT ![s] = Tail(inbound[s])]
            /\ UNCHANGED <<ended, overtaken>>
        BY <1>15, <3>2 DEF UponActiveObjectEvent, TypeOK
      <4>2. \A i \in 1..Len(Tail(inbound[s])) :
               i + 1 \in 1..Len(inbound[s]) /\ Tail(inbound[s])[i] = inbound[s][i + 1]
        BY <4>1
      <4>3. Head(inbound[s]) \in E
        BY <1>1, <4>1 DEF QueuesOfEnds
      <4>4. \A i \in 1..Len(Append(playStopped[s], Head(inbound[s]))) :
               \/ i \in 1..Len(playStopped[s])
                  /\ Append(playStopped[s], Head(inbound[s]))[i] = playStopped[s][i]
               \/ Append(playStopped[s], Head(inbound[s]))[i] = Head(inbound[s])
        BY <4>1
      <4>5. ASSUME NEW t \in Session
            PROVE  /\ \A i \in 1..Len(inbound'[t]) : inbound'[t][i] \in E
                   /\ \A i \in 1..Len(playStopped'[t]) : playStopped'[t][i] \in E
        <5>1. CASE t = s
          <6>1. /\ playStopped'[t] = Append(playStopped[s], Head(inbound[s]))
                /\ inbound'[t] = Tail(inbound[s])
            BY <4>1, <5>1 DEF TypeOK
          <6>2. /\ \A i \in 1..Len(inbound[s]) : inbound[s][i] \in E
                /\ \A i \in 1..Len(playStopped[s]) : playStopped[s][i] \in E
            BY <1>1 DEF QueuesOfEnds
          <6> HIDE DEF E
          <6>3. \A i \in 1..Len(inbound'[t]) : inbound'[t][i] \in E
            BY <4>2, <6>1, <6>2
          <6>4. \A i \in 1..Len(playStopped'[t]) : playStopped'[t][i] \in E
            BY <4>3, <4>4, <6>1, <6>2
          <6> QED  BY <6>3, <6>4
        <5>2. CASE t # s
          <6>1. playStopped'[t] = playStopped[t] /\ inbound'[t] = inbound[t]
            BY <4>1, <5>2 DEF TypeOK
          <6> QED  BY <1>1, <6>1 DEF QueuesOfEnds
        <5> QED  BY <5>1, <5>2
      <4> QED  BY <4>1, <4>5 DEF QueuesOfEnds
    <3> QED  BY <3>1, <3>2
  <2> QED  BY <1>2, <1>5, <1>15, <2>1, PlaysKept DEF UponActiveObjectEvent
<1>16. CASE AllocatePlaybackSession
  <2>1. NoNewEof /\ QueuesOfEnds(ended \cup overtaken)'
    BY <1>4, <1>6, <1>16 DEF AllocatePlaybackSession
  <2>2. UNCHANGED <<correlationCounter, ended, overtaken>>  BY <1>16 DEF AllocatePlaybackSession
  <2>3. CASE UNCHANGED streams  BY <1>2, <2>1, <2>2, <2>3, PlaysKept
  <2>4. CASE streams' # streams
    <3> DEFINE n == handleCounter + 1
    <3>1. /\ DOMAIN streams' = DOMAIN streams \cup {n}
          /\ \A h \in DOMAIN streams : h # n => streams'[h] = streams[h]
          /\ streams'[n].correlation = IW_UNDEFINED /\ ~streams'[n].playing
      BY <1>16, <2>4, AllocatedStream
    <3>2. /\ n \in Nat /\ n \notin DOMAIN streams
          /\ \A i \in 1..Len(iocp) : iocp[i].kind = "EOF" => iocp[i].handle # n
      <4>1. /\ handleCounter \in Nat
            /\ \A h \in DOMAIN streams : h \in Nat /\ h <= handleCounter
        BY BoundsAssumption DEF TypeOK, Handle, Handles, HandedOut
      <4>2. ASSUME NEW i \in 1..Len(iocp), iocp[i].kind = "EOF" PROVE iocp[i].handle # n
        BY <4>1, <4>2 DEF Handles, HandedOut
      <4> QED  BY <4>1, <4>2
    <3> HIDE DEF n
    <3>3. PlaysAreCounted' /\ PlayingHasNotEnded'
      BY <2>2, <3>1, <3>2 DEF Plays, PlaysAreCounted, PlayingHasNotEnded, TypeOK, Play, IW_UNDEFINED
    <3>4. PlaysDiffer'  BY <3>1, <3>2 DEF Plays, PlaysDiffer
    <3>5. ReportedEnds'
      <4>1. ASSUME NEW i \in 1..Len(iocp'), iocp'[i].kind = "EOF", iocp'[i].handle \in DOMAIN streams'
            PROVE  streams'[iocp'[i].handle].correlation \in ended' \cup overtaken'
        <5>1. PICK j \in 1..Len(iocp) : iocp[j] = iocp'[i]  BY <2>1, <4>1 DEF NoNewEof
        <5>2. iocp[j].handle \in DOMAIN streams /\ iocp[j].handle # n
          BY <3>1, <3>2, <4>1, <5>1
        <5> QED  BY <2>2, <3>1, <4>1, <5>1, <5>2 DEF Plays, ReportedEnds
      <4> QED  BY <2>1, <4>1 DEF ReportedEnds, QueuesOfEnds
    <3> QED  BY <3>3, <3>4, <3>5 DEF Plays
  <2> QED  BY <2>3, <2>4
<1>17. CASE ModifySession \/ StartPlaybackRefused \/ StopPlayback \/ UponTearDown
  <2>1. StreamsAsBefore  BY <1>17, HandlersKeepStreams
  <2>2. NoNewEof
    BY <1>4, <1>17 DEF ModifySession, StartPlaybackRefused, StopPlayback, UponTearDown
  <2>3. UNCHANGED <<inbound, playStopped, correlationCounter, ended, overtaken>>
    BY <1>17 DEF ModifySession, StartPlaybackRefused, StopPlayback, UponTearDown
  <2> QED  BY <1>6, <2>1, <2>2, <2>3, PlaysKept
<1>18. CASE StartPlayback
  <2> DEFINE h == Msg.handle
  <2> DEFINE c == correlationCounter + 1
  <2>1. /\ DOMAIN streams' = DOMAIN streams /\ h \in DOMAIN streams
        /\ \A g \in DOMAIN streams : g # h => streams'[g] = streams[g]
        /\ streams'[h].correlation = c
    BY <1>18, StartedStream
  <2>2. /\ NoNewEof /\ Serves("PLAY_REQUEST")
        /\ UNCHANGED <<inbound, playStopped, ended>>
        /\ correlationCounter' = c
        /\ overtaken' = IF EofsOf(h) = {} THEN overtaken ELSE overtaken \cup {c}
    BY <1>4, <1>18 DEF StartPlayback
  <2>3. /\ correlationCounter \in Nat /\ c \in Nat /\ c # IW_UNDEFINED
        /\ \A g \in DOMAIN streams : /\ streams[g].correlation \in Nat
                                     /\ streams[g].correlation < c
        /\ \A e \in ended : e \in Nat /\ e < c
    <3>1. correlationCounter \in Nat  BY DEF TypeOK, Play
    <3>2. \A g \in DOMAIN streams : streams[g].correlation \in Nat
      BY DEF TypeOK, Stream, Play, IW_UNDEFINED
    <3>3. \A e \in ended : e \in Nat  BY DEF TypeOK, Play
    <3> QED  BY <3>1, <3>2, <3>3 DEF Plays, PlaysAreCounted, IW_UNDEFINED
  <2> HIDE DEF h, c
  <2>4. PlaysAreCounted'
    <3>1. \A g \in DOMAIN streams' : /\ streams'[g].correlation <= c
                                     /\ streams'[g].playing => streams'[g].correlation # IW_UNDEFINED
      BY <2>1, <2>3 DEF Plays, PlaysAreCounted
    <3> QED  BY <2>2, <2>3, <3>1 DEF PlaysAreCounted
  <2>5. PlayingHasNotEnded'
    BY <2>1, <2>2, <2>3 DEF Plays, PlayingHasNotEnded
  <2>6. PlaysDiffer'
    BY <2>1, <2>3 DEF Plays, PlaysDiffer
  <2>7. ReportedEnds'
    <3>1. ASSUME NEW i \in 1..Len(iocp'), iocp'[i].kind = "EOF", iocp'[i].handle \in DOMAIN streams'
          PROVE  streams'[iocp'[i].handle].correlation \in ended' \cup overtaken'
      <4>1. PICK j \in 1..Len(iocp) : iocp[j] = iocp'[i]  BY <2>2, <3>1 DEF NoNewEof
      <4>2. CASE iocp[j].handle = h
        <5>1. j \in EofsOf(h)  BY <3>1, <4>1, <4>2 DEF EofsOf
        <5> QED  BY <2>1, <2>2, <4>1, <4>2, <5>1
      <4>3. CASE iocp[j].handle # h
        BY <2>1, <2>2, <3>1, <4>1, <4>3 DEF Plays, ReportedEnds
      <4> QED  BY <4>2, <4>3
    <3>2. QueuesOfEnds(ended \cup overtaken)'
      <4>1. ended' \cup overtaken' = E \/ ended' \cup overtaken' = E \cup {c}  BY <2>2
      <4> HIDE DEF E
      <4> QED  BY <1>1, <2>2, <4>1 DEF QueuesOfEnds
    <3> QED  BY <3>1, <3>2 DEF ReportedEnds, QueuesOfEnds
  <2> QED  BY <2>4, <2>5, <2>6, <2>7 DEF Plays
<1>19. CASE UponPlaybackStopped
  <2>1. /\ NoNewEof /\ Serves("EOF")
        /\ UNCHANGED <<streams, playStopped, correlationCounter, ended, overtaken>>
    BY <1>4, <1>19 DEF UponPlaybackStopped
  <2>2. QueuesOfEnds(ended \cup overtaken)'
    <3>1. CASE inbound' = inbound  BY <1>6, <2>1, <3>1
    <3>2. CASE inbound' # inbound
      <4> DEFINE s == streams[Msg.handle].session
      <4> DEFINE c == streams[Msg.handle].correlation
      <4>1. /\ Msg.handle \in DOMAIN streams
            /\ inbound' = [inbound EXCEPT ![s] = Append(inbound[s], c)]
        BY <1>19, <3>2 DEF UponPlaybackStopped, Reported
      <4>2. /\ iocp[1] = Msg /\ 1 \in 1..Len(iocp) /\ iocp[1].kind = "EOF"
        BY <2>1, ServesType DEF TypeOK
      <4>3. c \in E  BY <4>1, <4>2 DEF Plays, ReportedEnds
      <4>4. s \in Session  BY <4>1 DEF TypeOK, Stream
      <4> HIDE DEF s, c, E
      <4>5. ASSUME NEW t \in Session, NEW i \in 1..Len(inbound'[t]) PROVE inbound'[t][i] \in E
        <5>1. CASE t = s
          <6>1. inbound'[t] = Append(inbound[s], c) /\ inbound[s] \in Seq(Play)
            BY <4>1, <4>4, <5>1 DEF TypeOK
          <6>2. \/ i \in 1..Len(inbound[s]) /\ inbound'[t][i] = inbound[s][i]
                \/ inbound'[t][i] = c
            BY <4>5, <6>1
          <6> QED  BY <1>1, <4>3, <4>4, <6>2 DEF QueuesOfEnds
        <5>2. CASE t # s
          <6>1. inbound'[t] = inbound[t]  BY <4>1, <5>2 DEF TypeOK
          <6> QED  BY <1>1, <4>5, <6>1 DEF QueuesOfEnds
        <5> QED  BY <5>1, <5>2
      <4> QED  BY <1>1, <2>1, <4>5 DEF QueuesOfEnds, E
    <3> QED  BY <3>1, <3>2
  <2> QED  BY <1>2, <2>1, <2>2, PlaysKept
<1>20. CASE Shutdown
  <2>1. StreamsAsBefore  BY <1>20, HandlersKeepStreams
  <2>2. NoNewEof  BY <1>20 DEF Shutdown, NoNewEof
  <2> QED  BY <1>6, <1>20, <2>1, <2>2, PlaysKept DEF Shutdown
<1>21. ASSUME NEW h \in Handle, OnFileFilterEvent(h) PROVE Plays'
  <2> DEFINE c == streams[h].correlation
  <2>1. /\ StreamsAsBefore /\ DOMAIN streams' = DOMAIN streams
        /\ h \in DOMAIN streams /\ streams[h].playing
        /\ streams'[h].playing => streams[h].loop
    BY <1>21, FilterEventStreams
  <2>2. /\ ended' = ended \cup {c}
        /\ UNCHANGED <<inbound, playStopped, correlationCounter, overtaken>>
    BY <1>21 DEF OnFileFilterEvent
  <2>3. \A g \in DOMAIN streams : streams[g].correlation = c => g = h
    BY <2>1 DEF Plays, PlaysDiffer, PlaysAreCounted
  <2>4. c <= correlationCounter  BY <2>1 DEF Plays, PlaysAreCounted
  <2>5. PlaysAreCounted'
    <3> HIDE DEF c
    <3> QED  BY <2>1, <2>2, <2>4 DEF Plays, PlaysAreCounted, StreamsAsBefore
  <2>6. PlaysDiffer'  BY <2>1 DEF Plays, PlaysDiffer, StreamsAsBefore
  <2>7. PlayingHasNotEnded'
    <3> SUFFICES ASSUME NEW g \in DOMAIN streams', streams'[g].playing, ~streams'[g].loop
        PROVE  streams'[g].correlation \notin ended'
      BY DEF PlayingHasNotEnded
    <3>1. g \in DOMAIN streams /\ streams[g].playing /\ ~streams[g].loop
          /\ streams'[g].correlation = streams[g].correlation
      BY <2>1 DEF StreamsAsBefore
    <3>2. g # h  BY <2>1, <3>1
    <3>3. streams[g].correlation # c  BY <2>3, <3>1, <3>2
    <3>4. streams[g].correlation \notin ended  BY <3>1 DEF Plays, PlayingHasNotEnded
    <3> QED  BY <2>2, <3>1, <3>3, <3>4
  <2>8. ReportedEnds'
    <3>1. ASSUME NEW i \in 1..Len(iocp'), iocp'[i].kind = "EOF", iocp'[i].handle \in DOMAIN streams'
          PROVE  streams'[iocp'[i].handle].correlation \in ended' \cup overtaken'
      <4> DEFINE m == [kind |-> "EOF", handle |-> h]
      <4>1. m.handle = h /\ m \in Message  BY DEF Message
      <4>2. ToStreamer(m)  BY <1>21 DEF OnFileFilterEvent, ToStreamer
      <4> HIDE DEF m
      <4>3. (i \in 1..Len(iocp) /\ iocp'[i] = iocp[i]) \/ iocp'[i] = m
        BY <3>1, <4>1, <4>2, SendShape
      <4>4. CASE iocp'[i] = m  BY <2>1, <2>2, <4>1, <4>4 DEF StreamsAsBefore
      <4>5. CASE i \in 1..Len(iocp) /\ iocp'[i] = iocp[i]
        <5>1. streams[iocp[i].handle].correlation \in ended \cup overtaken
          BY <2>1, <3>1, <4>5 DEF Plays, ReportedEnds
        <5> QED  BY <2>1, <2>2, <3>1, <4>5, <5>1 DEF StreamsAsBefore
      <4> QED  BY <4>3, <4>4, <4>5
    <3>2. QueuesOfEnds(ended \cup overtaken)'
      <4> HIDE DEF c
      <4> QED  BY <1>1, <2>2 DEF QueuesOfEnds
    <3> QED  BY <3>1, <3>2 DEF ReportedEnds, QueuesOfEnds
  <2> QED  BY <2>5, <2>6, <2>7, <2>8 DEF Plays
<1> QED
  BY <1>8, <1>9, <1>10, <1>11, <1>13, <1>14, <1>15, <1>16, <1>17, <1>18, <1>19, <1>20, <1>21
     DEF Next, Owner, Streamer

-----------------------------------------------------------------------------
(* Theorems of the first layers.                                           *)

Core == TypeOK /\ Handles /\ Plays

LEMMA CoreStep == Core /\ [Next]_vars => Core'
<1> SUFFICES ASSUME Core, [Next]_vars PROVE Core'  OBVIOUS
<1>1. CASE Next
  <2>1. TypeOK'  BY <1>1, TypeStep DEF Core
  <2>2. Handles'  BY <1>1, <2>1, HandlesStep DEF Core
  <2>3. Plays'  BY <1>1, <2>1, PlaysStep DEF Core
  <2> QED  BY <2>1, <2>2, <2>3 DEF Core
<1>2. CASE UNCHANGED vars
  <2> USE <1>2 DEF vars, ownerVars, listenVars, hangupVars, streamerVars, historyVars
  <2>1. TypeOK'  BY DEF Core, TypeOK
  <2>2. AllocatedIsOwn' /\ HandedOut' /\ AnswersAreAwaited'
    BY DEF Core, Handles, AllocatedIsOwn, HandedOut, AnswersAreAwaited
  <2>3. NamedIsOwn' /\ NamesAfterAllocate' /\ NamesOne'
    BY DEF Core, Handles, NamedIsOwn, NamesAfterAllocate, NamesOne, Names
  <2>4. Plays'
    BY DEF Core, Plays, PlaysAreCounted, PlaysDiffer, PlayingHasNotEnded, ReportedEnds
  <2> QED  BY <2>1, <2>2, <2>3, <2>4 DEF Core, Handles
<1> QED  BY <1>1, <1>2

LEMMA CoreInvariant == Spec => []Core
<1>1. Init => Core  BY TypeInit, HandlesInit, PlaysInit DEF Core
<1> QED  BY <1>1, CoreStep, PTL DEF Spec

\* Every variable stays in its domain; the handle that an ack of Allocate names
\* and the correlation ids that are reported are what the types say because of
\* Handles and Plays.
THEOREM TypeCorrect == Spec => []TypeOK
<1>1. Core => TypeOK  BY DEF Core
<1> QED  BY <1>1, CoreInvariant, PTL

-----------------------------------------------------------------------------
(* Requests.                                                               *)

IsAsked(m) == m.kind \in {"ALLOCATE_SESSION_REQ", "MODIFY_REQ", "PLAY_REQUEST"}

\* d messages were taken from iocp, and nothing was asked.
NoNewAsked(d) ==
    \A i \in 1..Len(iocp') : IsAsked(iocp'[i]) => i + d \in 1..Len(iocp) /\ iocp'[i] = iocp[i + d]
TransactionsKept ==
    \A s \in Session :
        /\ txn'[s] >= txn[s]
        /\ op'[s] \in TxnOp => /\ op'[s] = op[s] /\ txn'[s] = txn[s]
                               /\ sessionHandle'[s] = sessionHandle[s] /\ (sync'[s] => sync[s])
        /\ response'[s] # <<>> \/ op'[s] = "WaitStopped" =>
              response[s] # <<>> \/ op[s] = "WaitStopped" \/ NothingAsked(s)'

LEMMA RequestsInit == Init => Requests
<1> SUFFICES ASSUME Init PROVE Requests  OBVIOUS
<1>1. Len(iocp) = 0  BY DEF Init
<1> QED  BY <1>1 DEF Requests, AskedInOrder, AskedIsOpen, AnsweredIsLast, NothingAsked

LEMMA RequestsKept ==
    ASSUME TypeOK, TypeOK', Requests, NEW d \in Nat, NoNewAsked(d), TransactionsKept
    PROVE  Requests'
<1>1. ASSUME NEW s \in Session, NEW i \in 1..Len(iocp'), IsAskedBy(iocp'[i], s)
      PROVE  /\ i + d \in 1..Len(iocp) /\ iocp'[i] = iocp[i + d] /\ IsAskedBy(iocp[i + d], s)
  BY <1>1 DEF NoNewAsked, IsAsked, IsAskedBy
<1>2. \A s \in Session : txn[s] \in Nat /\ txn'[s] \in Nat  BY BoundsAssumption DEF TypeOK
<1>3. \A s \in Session, i \in 1..Len(iocp) : IsAskedBy(iocp[i], s) => iocp[i].txn \in Nat
  <2> SUFFICES ASSUME NEW i \in 1..Len(iocp), IsAsked(iocp[i]) PROVE iocp[i].txn \in Nat
    BY DEF IsAsked, IsAskedBy
  <2>1. iocp[i] \in Message  BY DEF TypeOK
  <2> QED  BY <2>1, BoundsAssumption DEF Message, IsAsked
<1>4. AskedInOrder'
  <2>1. ASSUME NEW s \in Session, NEW i \in 1..Len(iocp'), IsAskedBy(iocp'[i], s)
        PROVE  iocp'[i].txn <= txn'[s]
    <3>1. /\ i + d \in 1..Len(iocp) /\ iocp'[i] = iocp[i + d] /\ IsAskedBy(iocp[i + d], s)
      BY <1>1, <2>1
    <3>2. iocp[i + d].txn <= txn[s]  BY <3>1 DEF Requests, AskedInOrder
    <3>3. iocp[i + d].txn \in Nat  BY <1>3, <3>1
    <3>4. txn'[s] >= txn[s]  BY DEF TransactionsKept
    <3> QED  BY <1>2, <3>1, <3>2, <3>3, <3>4
  <2>2. ASSUME NEW s \in Session, NEW i \in 1..Len(iocp'), NEW j \in 1..Len(iocp'), i < j,
               IsAskedBy(iocp'[i], s), IsAskedBy(iocp'[j], s)
        PROVE  iocp'[i].txn < iocp'[j].txn
    <3>1. /\ i + d \in 1..Len(iocp) /\ iocp'[i] = iocp[i + d] /\ IsAskedBy(iocp[i + d], s)
          /\ j + d \in 1..Len(iocp) /\ iocp'[j] = iocp[j + d] /\ IsAskedBy(iocp[j + d], s)
      BY <1>1, <2>2
    <3>2. i + d < j + d  BY <2>2
    <3> QED  BY <3>1, <3>2 DEF Requests, AskedInOrder
  <2> QED  BY <2>1, <2>2 DEF AskedInOrder
<1>5. AskedIsOpen'
  <2> SUFFICES ASSUME NEW s \in Session, NEW i \in 1..Len(iocp'), IsAskedBy(iocp'[i], s),
                      iocp'[i].txn = txn'[s], op'[s] \in TxnOp
      PROVE  /\ iocp'[i].kind = KindOf(op'[s])
             /\ op'[s] = "Play" => /\ iocp'[i].handle = sessionHandle'[s]
                                   /\ sync'[s] => ~iocp'[i].flag
    BY DEF AskedIsOpen
  <2>1. /\ i + d \in 1..Len(iocp) /\ iocp'[i] = iocp[i + d] /\ IsAskedBy(iocp[i + d], s)
    BY <1>1
  <2>2. /\ op'[s] = op[s] /\ txn'[s] = txn[s] /\ sessionHandle'[s] = sessionHandle[s]
        /\ sync'[s] => sync[s]
    BY DEF TransactionsKept
  <2> QED  BY <2>1, <2>2 DEF Requests, AskedIsOpen
<1>6. AnsweredIsLast'
  <2> SUFFICES ASSUME NEW s \in Session, response'[s] # <<>> \/ op'[s] = "WaitStopped"
      PROVE  NothingAsked(s)'
    BY DEF AnsweredIsLast
  <2>1. CASE NothingAsked(s)'  BY <2>1
  <2>2. CASE response[s] # <<>> \/ op[s] = "WaitStopped"
    <3>1. NothingAsked(s)  BY <2>2 DEF Requests, AnsweredIsLast
    <3> QED  BY <1>1, <3>1 DEF NothingAsked
  <2> QED  BY <2>1, <2>2 DEF TransactionsKept
<1> QED  BY <1>4, <1>5, <1>6 DEF Requests

LEMMA RequestsAsk ==
    ASSUME TypeOK, TypeOK', Handles, Requests, NEW s \in Session, NEW o \in TxnOp, NEW flag \in BOOLEAN,
           op[s] = "idle", Ask(s, o, KindOf(o), flag), KindOf(o) \in Request,
           UNCHANGED <<sessionHandle, response>>,
           \A t \in Session : t # s => sync'[t] = sync[t],
           o = "Play" => ~(sync'[s] /\ flag)
    PROVE  Requests'
<1> DEFINE m == Req(s, KindOf(o), flag)
<1>1. /\ m \in Message /\ m.kind = KindOf(o) /\ m.session = s /\ m.handle = sessionHandle[s]
      /\ m.txn = txn[s] + 1 /\ m.flag = flag
  BY ReqType DEF Req
<1>2. ToStreamer(m)  BY DEF Ask
<1> HIDE DEF m
<1>3. /\ \A i \in 1..Len(iocp') :
            \/ i \in 1..Len(iocp) /\ iocp'[i] = iocp[i]
            \/ i = Len(iocp) + 1 /\ iocp'[i] = m
      /\ Len(iocp) \in Nat
  BY <1>1, <1>2, SendShape
<1>4. \A t \in Session : txn[t] \in Nat  BY BoundsAssumption DEF TypeOK
<1>5. \A t \in Session, i \in 1..Len(iocp) : IsAskedBy(iocp[i], t) => iocp[i].txn \in Nat
  <2> SUFFICES ASSUME NEW i \in 1..Len(iocp), IsAsked(iocp[i]) PROVE iocp[i].txn \in Nat
    BY DEF IsAsked, IsAskedBy
  <2>1. iocp[i] \in Message  BY DEF TypeOK
  <2> QED  BY <2>1, BoundsAssumption DEF Message, IsAsked
<1>6. \A t \in Session : txn'[t] = IF t = s THEN txn[s] + 1 ELSE txn[t]  BY DEF Ask, TypeOK
<1>7. /\ op'[s] \in {o, "idle"}
      /\ \A t \in Session : t # s => op'[t] = op[t]
  BY DEF Ask, TypeOK
<1>8. AskedInOrder'
  <2>1. ASSUME NEW t \in Session, NEW i \in 1..Len(iocp'), IsAskedBy(iocp'[i], t)
        PROVE  iocp'[i].txn <= txn'[t]
    <3>1. CASE iocp'[i] = m  BY <1>1, <1>4, <1>6, <2>1, <3>1 DEF IsAskedBy
    <3>2. CASE i \in 1..Len(iocp) /\ iocp'[i] = iocp[i]
      <4>1. iocp[i].txn <= txn[t] /\ iocp[i].txn \in Nat
        BY <1>5, <2>1, <3>2 DEF Requests, AskedInOrder
      <4> QED  BY <1>4, <1>6, <3>2, <4>1
    <3> QED  BY <1>3, <3>1, <3>2
  <2>2. ASSUME NEW t \in Session, NEW i \in 1..Len(iocp'), NEW j \in 1..Len(iocp'), i < j,
               IsAskedBy(iocp'[i], t), IsAskedBy(iocp'[j], t)
        PROVE  iocp'[i].txn < iocp'[j].txn
    <3>1. i \in 1..Len(iocp) /\ iocp'[i] = iocp[i]  BY <1>3, <2>2
    <3>2. CASE iocp'[j] = m
      <4>1. t = s  BY <1>1, <2>2, <3>2 DEF IsAskedBy
      <4>2. iocp[i].txn <= txn[s] /\ iocp[i].txn \in Nat
        BY <1>5, <2>2, <3>1, <4>1 DEF Requests, AskedInOrder
      <4> QED  BY <1>1, <1>4, <3>1, <3>2, <4>2
    <3>3. CASE j \in 1..Len(iocp) /\ iocp'[j] = iocp[j]
      BY <2>2, <3>1, <3>3 DEF Requests, AskedInOrder
    <3> QED  BY <1>3, <3>2, <3>3
  <2> QED  BY <2>1, <2>2 DEF AskedInOrder
<1>9. AskedIsOpen'
  <2> SUFFICES ASSUME NEW t \in Session, NEW i \in 1..Len(iocp'), IsAskedBy(iocp'[i], t),
                      iocp'[i].txn = txn'[t], op'[t] \in TxnOp
      PROVE  /\ iocp'[i].kind = KindOf(op'[t])
             /\ op'[t] = "Play" => /\ iocp'[i].handle = sessionHandle'[t]
                                   /\ sync'[t] => ~iocp'[i].flag
    BY DEF AskedIsOpen
  <2>1. CASE iocp'[i] = m
    <3>1. t = s  BY <1>1, <2>1 DEF IsAskedBy
    <3>2. op'[t] = o  BY <1>7, <3>1 DEF TxnOp
    <3> QED  BY <1>1, <2>1, <3>1, <3>2
  <2>2. CASE i \in 1..Len(iocp) /\ iocp'[i] = iocp[i]
    <3>1. iocp[i].txn <= txn[t] /\ iocp[i].txn \in Nat
      BY <1>5, <2>2 DEF Requests, AskedInOrder
    <3>2. t # s  BY <1>4, <1>6, <2>2, <3>1
    <3> QED  BY <1>6, <1>7, <2>2, <3>2 DEF Requests, AskedIsOpen
  <2> QED  BY <1>3, <2>1, <2>2
<1>10. AnsweredIsLast'
  <2> SUFFICES ASSUME NEW t \in Session, response'[t] # <<>> \/ op'[t] = "WaitStopped",
                      NEW i \in 1..Len(iocp'), IsAskedBy(iocp'[i], t)
      PROVE  FALSE
    BY DEF AnsweredIsLast, NothingAsked
  <2>1. response[s] = <<>>  BY DEF Handles, AnswersAreAwaited, TxnOp
  <2>2. t # s  BY <1>7, <2>1 DEF TxnOp
  <2>3. iocp'[i] # m  BY <1>1, <2>2 DEF IsAskedBy
  <2> QED  BY <1>3, <1>7, <2>2, <2>3 DEF Requests, AnsweredIsLast, NothingAsked
<1> QED  BY <1>8, <1>9, <1>10 DEF Requests

\* A handler that answers the open request leaves none behind it.
LEMMA RespondedLast ==
    ASSUME TypeOK, Requests, NEW k, Serves(k), IsAsked(Msg), Awaited(Msg),
           NEW s \in Session, s = Msg.session
    PROVE  NothingAsked(s)'
<1>1. /\ s \in Session /\ IsAskedBy(Msg, s) /\ Msg.txn = txn[s]
  BY ServesType DEF IsAsked, IsAskedBy, Awaited
<1>2. SUFFICES ASSUME NEW i \in 1..Len(iocp'), IsAskedBy(iocp'[i], s) PROVE FALSE
  BY DEF NothingAsked
<1>3. i + 1 \in 1..Len(iocp) /\ iocp'[i] = iocp[i + 1] /\ iocp[1] = Msg /\ i \in Nat /\ i > 0
      /\ 1 \in 1..Len(iocp)
  <2>1. /\ Len(iocp') = Len(iocp) - 1 /\ Len(iocp) > 0 /\ iocp[1] = Msg
        /\ \A j \in 1..Len(iocp') : j + 1 \in 1..Len(iocp) /\ iocp'[j] = iocp[j + 1]
    BY ServesType
  <2>2. Len(iocp) \in Nat  BY DEF TypeOK
  <2> QED  BY <1>2, <2>1, <2>2
<1>4. Msg.txn < iocp[i + 1].txn /\ iocp[i + 1].txn <= txn[s]
  BY <1>1, <1>2, <1>3 DEF Requests, AskedInOrder
<1>5. iocp[i + 1].txn \in Nat /\ txn[s] \in Nat
  <2>1. iocp[i + 1] \in Message  BY <1>3 DEF TypeOK
  <2>2. IsAsked(iocp[i + 1])  BY <1>2, <1>3 DEF IsAsked, IsAskedBy
  <2>3. iocp[i + 1].txn \in Nat  BY <2>1, <2>2, BoundsAssumption DEF Message, IsAsked
  <2> QED  BY <1>1, <2>3, BoundsAssumption DEF TypeOK
<1> QED  BY <1>1, <1>4, <1>5

LEMMA RequestsStep ==
    ASSUME TypeOK, TypeOK', Handles, Requests, Next PROVE Requests'
<1> USE DEF ownerVars, listenVars, hangupVars, streamerVars, historyVars
<1>1. \A t \in Session : txn[t] \in Nat /\ txn[t] >= txn[t]  BY BoundsAssumption DEF TypeOK
<1>2. ASSUME UNCHANGED iocp PROVE NoNewAsked(0)
  <2>1. \A i \in 1..Len(iocp) : i + 0 = i  BY DEF TypeOK
  <2> QED  BY <1>2, <2>1 DEF NoNewAsked
<1>3. ASSUME NEW m \in Message, ~IsAsked(m), ToStreamer(m) PROVE NoNewAsked(0)
  <2>1. \A i \in 1..Len(iocp') : (i \in 1..Len(iocp) /\ iocp'[i] = iocp[i]) \/ iocp'[i] = m
    BY <1>3, SendShape
  <2>2. \A i \in 1..Len(iocp) : i + 0 = i  BY DEF TypeOK
  <2> QED  BY <1>3, <2>1, <2>2 DEF NoNewAsked
<1>4. ASSUME NEW k, Serves(k) PROVE NoNewAsked(1)
  BY <1>4, ServesType DEF NoNewAsked
<1>5. ASSUME NEW s \in Session, Allocate(s) PROVE Requests'
  <2>1. PICK flag \in BOOLEAN : Ask(s, "Allocate", "ALLOCATE_SESSION_REQ", flag)
    BY <1>5 DEF Allocate
  <2>2. KindOf("Allocate") = "ALLOCATE_SESSION_REQ" /\ "ALLOCATE_SESSION_REQ" \in Request
        /\ "Allocate" \in TxnOp
    BY DEF KindOf, Request, TxnOp
  <2> QED  BY <1>5, <2>1, <2>2, RequestsAsk DEF Allocate
<1>6. ASSUME NEW s \in Session, ModifyConnection(s) PROVE Requests'
  <2>1. KindOf("Modify") = "MODIFY_REQ" /\ "MODIFY_REQ" \in Request /\ "Modify" \in TxnOp
    BY DEF KindOf, Request, TxnOp
  <2> QED  BY <1>6, <2>1, RequestsAsk DEF ModifyConnection
<1>7. ASSUME NEW s \in Session, PlayFile(s) PROVE Requests'
  <2>1. PICK sy, flag \in BOOLEAN : /\ ~(sy /\ flag)
                                    /\ Ask(s, "Play", "PLAY_REQUEST", flag)
                                    /\ sync' = [sync EXCEPT ![s] = sy /\ streamerUp]
    BY <1>7 DEF PlayFile
  <2>2. KindOf("Play") = "PLAY_REQUEST" /\ "PLAY_REQUEST" \in Request /\ "Play" \in TxnOp
    BY DEF KindOf, Request, TxnOp
  <2>3. /\ \A t \in Session : t # s => sync'[t] = sync[t]
        /\ ~(sync'[s] /\ flag)
    BY <2>1 DEF TypeOK
  <2> QED  BY <1>7, <2>1, <2>2, <2>3, RequestsAsk DEF PlayFile
<1>8. ASSUME NEW s \in Session,
             AllocateAck(s) \/ Answered(s) \/ TimedOut(s) \/ PlayGivesUp(s) \/ PlayStopped(s)
      PROVE  Requests'
  <2>1. NoNewAsked(0)
    BY <1>2, <1>8 DEF AllocateAck, Answered, TimedOut, PlayGivesUp, PlayStopped
  <2>2. UNCHANGED txn
    BY <1>8 DEF AllocateAck, Answered, TimedOut, PlayGivesUp, PlayStopped
  <2>3. CASE AllocateAck(s) \/ Answered(s) \/ TimedOut(s)
    <3>1. /\ op'[s] = "idle" /\ response'[s] = <<>>
          /\ \A t \in Session : t # s => /\ op'[t] = op[t] /\ response'[t] = response[t]
                                         /\ sessionHandle'[t] = sessionHandle[t]
                                         /\ sync'[t] = sync[t]
      BY <2>3 DEF AllocateAck, Answered, TimedOut, Received, Expired, TypeOK
    <3>2. TransactionsKept  BY <1>1, <2>2, <3>1 DEF TransactionsKept, TxnOp
    <3> QED  BY <2>1, <3>2, RequestsKept
  <2>4. CASE PlayGivesUp(s) \/ PlayStopped(s)
    <3>1. /\ op'[s] \in {"idle", op[s]} /\ op[s] = "WaitStopped"
          /\ \A t \in Session : t # s => op'[t] = op[t]
          /\ UNCHANGED <<response, sessionHandle, sync>>
      BY <2>4 DEF PlayGivesUp, PlayStopped, TypeOK
    <3>2. TransactionsKept  BY <1>1, <2>2, <3>1 DEF TransactionsKept, TxnOp
    <3> QED  BY <2>1, <3>2, RequestsKept
  <2> QED  BY <1>8, <2>3, <2>4
<1>9. ASSUME NEW s \in Session, PlayAck(s) PROVE Requests'
  <2>1. NoNewAsked(0)  BY <1>2, <1>9 DEF PlayAck
  <2>2. /\ op'[s] \in {"idle", "WaitStopped"} /\ response[s] # <<>> /\ response'[s] = <<>>
        /\ \A t \in Session : t # s => /\ op'[t] = op[t] /\ response'[t] = response[t]
                                       /\ sync'[t] = sync[t]
        /\ UNCHANGED <<sessionHandle, txn>>
    BY <1>9 DEF PlayAck, Received, TypeOK
  <2>3. TransactionsKept  BY <1>1, <2>2 DEF TransactionsKept, TxnOp
  <2> QED  BY <2>1, <2>3, RequestsKept
<1>10. ASSUME NEW s \in Session, InterruptWithHangup(s) \/ UponActiveObjectEvent(s) PROVE Requests'
  <2>1. UNCHANGED <<op, txn, sessionHandle, sync, response, iocp>>
    BY <1>10 DEF InterruptWithHangup, UponActiveObjectEvent
  <2>2. TransactionsKept  BY <1>1, <2>1 DEF TransactionsKept
  <2> QED  BY <1>2, <2>1, <2>2, RequestsKept
<1>11. ASSUME NEW s \in Session, NEW kind \in {"STOP_PLAY_REQ", "TEARDOWN_REQ"},
              ToStreamer(Req(s, kind, FALSE))
       PROVE  NoNewAsked(0)
  <2>1. kind \in Request  BY DEF Request
  <2>2. ~IsAsked(Req(s, kind, FALSE))  BY <2>1, ReqType DEF IsAsked
  <2> QED  BY <1>3, <1>11, <2>1, <2>2, ReqType
<1>12. ASSUME NEW s \in Session, StopPlay(s) PROVE Requests'
  <2>1. NoNewAsked(0)  BY <1>11, <1>12 DEF StopPlay
  <2>2. /\ op[s] = "idle" /\ UNCHANGED <<op, sessionHandle, sync, response>>
        /\ \A t \in Session : txn'[t] = IF t = s THEN txn[t] + 1 ELSE txn[t]
    BY <1>12 DEF StopPlay, TypeOK
  <2>3. TransactionsKept
    <3> SUFFICES ASSUME NEW t \in Session
        PROVE  txn'[t] >= txn[t] /\ (op'[t] \in TxnOp => txn'[t] = txn[t])
      BY <2>2 DEF TransactionsKept
    <3> QED  BY <1>1, <2>2 DEF TxnOp
  <2> QED  BY <2>1, <2>3, RequestsKept
<1>13. ASSUME NEW s \in Session, TearDownEffect(s) PROVE NoNewAsked(0)
  BY <1>2, <1>11, <1>13 DEF TearDownEffect
<1>14. ASSUME NEW s \in Session, TearDown(s) \/ Delete(s) PROVE Requests'
  <2>1. NoNewAsked(0)  BY <1>2, <1>13, <1>14 DEF TearDown, Delete
  <2>2. /\ op'[s] \in {"idle", "joining", "deleted"}
        /\ \A t \in Session : t # s => op'[t] = op[t] /\ sessionHandle'[t] = sessionHandle[t]
        /\ UNCHANGED <<txn, sync, response>>
    <3>1. \A t \in Session : t # s => sessionHandle'[t] = sessionHandle[t]
      <4>1. TearDownEffect(s) \/ UNCHANGED sessionHandle  BY <1>14 DEF TearDown, Delete
      <4> QED  BY <4>1 DEF TearDownEffect, TypeOK
    <3>2. UNCHANGED <<txn, sync, response>>  BY <1>14 DEF TearDown, Delete
    <3>3. /\ op'[s] \in {"idle", "joining", "deleted"}
          /\ \A t \in Session : t # s => op'[t] = op[t]
      BY <1>14 DEF TearDown, Delete, TypeOK
    <3> QED  BY <3>1, <3>2, <3>3
  <2>3. TransactionsKept  BY <1>1, <2>2 DEF TransactionsKept, TxnOp
  <2> QED  BY <2>1, <2>3, RequestsKept
<1>15. ASSUME NEW k, Serves(k), UNCHANGED <<op, txn, sessionHandle, sync>>,
              UNCHANGED response \/ (IsAsked(Msg) /\ \E ack, v : Respond(Msg, ack, v))
       PROVE  Requests'
  <2>1. \A t \in Session : response'[t] # <<>> => response[t] # <<>> \/ NothingAsked(t)'
    <3>1. CASE UNCHANGED response  BY <3>1
    <3>2. CASE IsAsked(Msg) /\ \E ack, v : Respond(Msg, ack, v)
      <4> SUFFICES ASSUME NEW t \in Session, response'[t] # response[t] PROVE NothingAsked(t)'
        OBVIOUS
      <4>1. PICK ack, v : Respond(Msg, ack, v)  BY <3>2
      <4>2. k # "EOF"  BY <1>15, <3>2, ServesType DEF IsAsked
      <4>3. Msg.session \in Session  BY <1>15, <4>2, ServesType
      <4>4. t = Msg.session /\ Awaited(Msg)  BY <4>1, <4>3, RespondEffect
      <4> QED  BY <1>15, <3>2, <4>4, RespondedLast
    <3> QED  BY <1>15, <3>1, <3>2
  <2>2. TransactionsKept  BY <1>1, <1>15, <2>1 DEF TransactionsKept
  <2> QED  BY <1>4, <1>15, <2>2, RequestsKept
<1>16. CASE AllocatePlaybackSession
  <2>1. Serves("ALLOCATE_SESSION_REQ") /\ IsAsked(Msg) /\ \E ack, v : Respond(Msg, ack, v)
    BY <1>16 DEF AllocatePlaybackSession, Serves, Msg, IsAsked
  <2> QED  BY <1>15, <1>16, <2>1 DEF AllocatePlaybackSession
<1>17. CASE ModifySession
  <2>1. Serves("MODIFY_REQ") /\ IsAsked(Msg) /\ \E ack, v : Respond(Msg, ack, v)
    BY <1>17 DEF ModifySession, Serves, Msg, IsAsked
  <2> QED  BY <1>15, <1>17, <2>1 DEF ModifySession
<1>18. CASE StartPlaybackRefused
  <2>1. Serves("PLAY_REQUEST") /\ IsAsked(Msg) /\ \E ack, v : Respond(Msg, ack, v)
    BY <1>18 DEF StartPlaybackRefused, Serves, Msg, IsAsked
  <2> QED  BY <1>15, <1>18, <2>1 DEF StartPlaybackRefused
<1>19. CASE StartPlayback
  <2>1. Serves("PLAY_REQUEST") /\ IsAsked(Msg) /\ \E ack, v : Respond(Msg, ack, v)
    BY <1>19 DEF StartPlayback, Serves, Msg, IsAsked
  <2> QED  BY <1>15, <1>19, <2>1 DEF StartPlayback
<1>20. CASE StopPlayback \/ UponTearDown \/ UponPlaybackStopped
  BY <1>15, <1>20 DEF StopPlayback, UponTearDown, UponPlaybackStopped
<1>21. CASE Shutdown
  <2>1. Len(iocp') = 0  BY <1>21 DEF Shutdown
  <2>2. NoNewAsked(0)  BY <2>1 DEF NoNewAsked
  <2>3. TransactionsKept  BY <1>1, <1>21 DEF TransactionsKept, Shutdown
  <2> QED  BY <2>2, <2>3, RequestsKept
<1>22. ASSUME NEW h \in Handle, OnFileFilterEvent(h) PROVE Requests'
  <2> DEFINE m == [kind |-> "EOF", handle |-> h]
  <2>1. ~IsAsked(m) /\ m \in Message  BY DEF Message, IsAsked
  <2>2. ToStreamer(m)  BY <1>22 DEF OnFileFilterEvent, ToStreamer
  <2>3. NoNewAsked(0)  BY <1>3, <2>1, <2>2
  <2>4. TransactionsKept  BY <1>1, <1>22 DEF TransactionsKept, OnFileFilterEvent
  <2> QED  BY <2>3, <2>4, RequestsKept
<1> QED
  BY <1>5, <1>6, <1>7, <1>8, <1>9, <1>10, <1>12, <1>14, <1>16, <1>17, <1>18, <1>19, <1>20, <1>21,
     <1>22 DEF Next, Owner, Streamer

-----------------------------------------------------------------------------
(* Beliefs.                                                                *)

KeepsBeliefs(s) ==
    /\ op'[s] = "Play" /\ response'[s] # <<>> /\ Head(response'[s]).ack =>
          /\ op[s] = "Play" /\ response'[s] = response[s]
          /\ sessionHandle'[s] = sessionHandle[s] /\ (sync'[s] => sync[s])
    /\ op'[s] = "WaitStopped" =>
          /\ op[s] = "WaitStopped" /\ correlation'[s] = correlation[s]
          /\ sessionHandle'[s] = sessionHandle[s]
    /\ op'[s] \in {"Play", "WaitStopped"} => state'[s] = "UNKNOWN"
    /\ state'[s] = "NOT_PLAYING" =>
          /\ state[s] = "NOT_PLAYING" /\ sessionHandle'[s] = sessionHandle[s]
          /\ \A i \in 1..Len(iocp') : IsRequestOf(iocp'[i], s) /\ iocp'[i].kind = "PLAY_REQUEST"
                => \E j \in 1..Len(iocp) : iocp[j] = iocp'[i]
BeliefsUnchanged == \A s \in Session : KeepsBeliefs(s)

LEMMA BeliefsInit == Init => Beliefs
<1> SUFFICES ASSUME Init PROVE Beliefs  OBVIOUS
<1>1. Len(iocp) = 0 /\ DOMAIN streams = {} /\ \A s \in Session : op[s] = "idle"  BY DEF Init
<1> QED  BY <1>1 DEF Beliefs, AckedPlay, AwaitedPlay, BusyIsUnknown, IdleStream

LEMMA BeliefsKept ==
    ASSUME TypeOK, Beliefs, BeliefsUnchanged, StreamsAsBefore, UNCHANGED overtaken
    PROVE  Beliefs'
<1>1. AckedPlay'
  <2> SUFFICES ASSUME NEW s \in Session,
                      op'[s] = "Play", response'[s] # <<>>, Head(response'[s]).ack
      PROVE  PlaysAs(s, Head(response[s]).value)' /\ (sync'[s] => PlaysOnce(s)')
    BY DEF AckedPlay
  <2>1. /\ op[s] = "Play" /\ response'[s] = response[s]
        /\ sessionHandle'[s] = sessionHandle[s] /\ (sync'[s] => sync[s])
    BY DEF BeliefsUnchanged, KeepsBeliefs
  <2>2. PlaysAs(s, Head(response[s]).value) /\ (sync[s] => PlaysOnce(s))
    BY <2>1 DEF Beliefs, AckedPlay
  <2> QED  BY <2>1, <2>2 DEF PlaysAs, PlaysOnce, StreamsAsBefore
<1>2. AwaitedPlay'
  <2> SUFFICES ASSUME NEW s \in Session, op'[s] = "WaitStopped"
      PROVE  PlaysAs(s, correlation[s])' /\ PlaysOnce(s)'
    BY DEF AwaitedPlay
  <2>1. /\ op[s] = "WaitStopped" /\ correlation'[s] = correlation[s]
        /\ sessionHandle'[s] = sessionHandle[s]
    BY DEF BeliefsUnchanged, KeepsBeliefs
  <2>2. PlaysAs(s, correlation[s]) /\ PlaysOnce(s)  BY <2>1 DEF Beliefs, AwaitedPlay
  <2> QED  BY <2>1, <2>2 DEF PlaysAs, PlaysOnce, StreamsAsBefore
<1>3. BusyIsUnknown'  BY DEF BeliefsUnchanged, KeepsBeliefs, BusyIsUnknown
<1>4. IdleStream'
  <2> SUFFICES ASSUME NEW s \in Session, state'[s] = "NOT_PLAYING"
      PROVE  /\ sessionHandle'[s] \in DOMAIN streams' /\ streams'[sessionHandle'[s]].playing =>
                   streams'[sessionHandle'[s]].correlation \in overtaken'
             /\ \A i \in 1..Len(iocp') : IsRequestOf(iocp'[i], s) => iocp'[i].kind # "PLAY_REQUEST"
    BY DEF IdleStream
  <2>1. /\ state[s] = "NOT_PLAYING" /\ sessionHandle'[s] = sessionHandle[s]
        /\ \A i \in 1..Len(iocp') : IsRequestOf(iocp'[i], s) /\ iocp'[i].kind = "PLAY_REQUEST"
              => \E j \in 1..Len(iocp) : iocp[j] = iocp'[i]
    BY DEF BeliefsUnchanged, KeepsBeliefs
  <2>2. /\ sessionHandle[s] \in DOMAIN streams /\ streams[sessionHandle[s]].playing =>
              streams[sessionHandle[s]].correlation \in overtaken
        /\ \A i \in 1..Len(iocp) : IsRequestOf(iocp[i], s) => iocp[i].kind # "PLAY_REQUEST"
    BY <2>1 DEF Beliefs, IdleStream
  <2> QED  BY <2>1, <2>2 DEF StreamsAsBefore
<1> QED  BY <1>1, <1>2, <1>3, <1>4 DEF Beliefs

\* A step of one session's owner leaves the others alone.
OthersKept(s) ==
    \A t \in Session : t # s =>
        /\ op'[t] = op[t] /\ response'[t] = response[t] /\ sessionHandle'[t] = sessionHandle[t]
        /\ sync'[t] = sync[t] /\ correlation'[t] = correlation[t] /\ state'[t] = state[t]
NoRequestButOf(s) ==
    \A i \in 1..Len(iocp') : \A t \in Session :
        t # s /\ IsRequestOf(iocp'[i], t) => \E j \in 1..Len(iocp) : iocp[j] = iocp'[i]

LEMMA OthersBelieve ==
    ASSUME TypeOK, Beliefs, NEW s, OthersKept(s), NoRequestButOf(s), NEW t \in Session, t # s
    PROVE  KeepsBeliefs(t)
BY DEF OthersKept, NoRequestButOf, KeepsBeliefs, Beliefs, BusyIsUnknown

LEMMA BeliefsOwner ==
    ASSUME TypeOK, TypeOK', Handles, Plays, Requests, Beliefs, NEW s \in Session, Owner(s)
    PROVE  Beliefs'
<1> USE DEF ownerVars, listenVars, hangupVars, streamerVars, historyVars
<1>1. UNCHANGED <<streams, overtaken>>
  BY DEF Owner, Allocate, AllocateAck, ModifyConnection, Answered, TimedOut, PlayFile, PlayAck,
         PlayStopped, PlayGivesUp, StopPlay, TearDown, Delete
<1>2. StreamsAsBefore  BY <1>1 DEF StreamsAsBefore
<1>3. response[s] # <<>> => op[s] \in TxnOp  BY DEF Handles, AnswersAreAwaited
<1>4. ASSUME UNCHANGED iocp PROVE NoRequestButOf(s)  BY <1>4 DEF NoRequestButOf
<1>5. ASSUME NEW kind \in Request, NEW flag \in BOOLEAN, ToStreamer(Req(s, kind, flag))
      PROVE  /\ NoRequestButOf(s)
             /\ kind # "PLAY_REQUEST" => \A i \in 1..Len(iocp') : iocp'[i].kind = "PLAY_REQUEST" =>
                                            \E j \in 1..Len(iocp) : iocp[j] = iocp'[i]
  <2>1. /\ Req(s, kind, flag) \in Message /\ Req(s, kind, flag).session = s
        /\ Req(s, kind, flag).kind = kind
    BY ReqType
  <2>2. \A i \in 1..Len(iocp') : \/ i \in 1..Len(iocp) /\ iocp'[i] = iocp[i]
                                 \/ iocp'[i] = Req(s, kind, flag)
    BY <1>5, <2>1, SendShape
  <2> QED  BY <2>1, <2>2 DEF NoRequestButOf, IsRequestOf
<1>6. ASSUME KeepsBeliefs(s), OthersKept(s), NoRequestButOf(s) PROVE Beliefs'
  BY <1>1, <1>2, <1>6, OthersBelieve, BeliefsKept DEF BeliefsUnchanged
<1>7. CASE Allocate(s) \/ ModifyConnection(s)
  <2>1. PICK o \in {"Allocate", "Modify"}, kind \in {"ALLOCATE_SESSION_REQ", "MODIFY_REQ"},
             flag \in BOOLEAN : Ask(s, o, kind, flag)
    BY <1>7 DEF Allocate, ModifyConnection
  <2>2. /\ UNCHANGED <<response, sessionHandle, sync, correlation, state>>
        /\ op' = [op EXCEPT ![s] = IF streamerUp THEN o ELSE "idle"]
    BY <1>7, <2>1 DEF Allocate, ModifyConnection, Ask
  <2>3. /\ NoRequestButOf(s)
        /\ \A i \in 1..Len(iocp') : iocp'[i].kind = "PLAY_REQUEST" =>
              \E j \in 1..Len(iocp) : iocp[j] = iocp'[i]
    BY <1>5, <2>1 DEF Ask, Request
  <2>4. OthersKept(s)  BY <2>2 DEF OthersKept, TypeOK
  <2>5. op'[s] \in {"Allocate", "Modify", "idle"}  BY <2>2 DEF TypeOK
  <2>6. KeepsBeliefs(s)  BY <2>2, <2>3, <2>5 DEF KeepsBeliefs
  <2> QED  BY <1>6, <2>3, <2>4, <2>6
<1>8. CASE AllocateAck(s)
  <2> DEFINE v == Head(response[s]).value
  <2>1. /\ op[s] = "Allocate" /\ response[s] # <<>> /\ Head(response[s]).ack
        /\ response' = [response EXCEPT ![s] = <<>>]
        /\ sessionHandle' = [sessionHandle EXCEPT ![s] = v]
        /\ op' = [op EXCEPT ![s] = "idle"]
        /\ UNCHANGED <<state, sync, correlation, iocp>>
    BY <1>8 DEF AllocateAck, Received
  <2>2. OthersKept(s) /\ NoRequestButOf(s)  BY <1>4, <2>1 DEF OthersKept, TypeOK
  <2>3. \A t \in Session : t # s => KeepsBeliefs(t)  BY <2>2, OthersBelieve
  <2>4. op'[s] = "idle" /\ sessionHandle'[s] = v  BY <2>1 DEF TypeOK
  <2>5. v \in DOMAIN streams => ~streams[v].playing
    <3> SUFFICES ASSUME v \in DOMAIN streams, streams[v].playing PROVE FALSE  OBVIOUS
    <3>1. v \in Handle /\ streams[v].session = s
      BY <2>1 DEF Handles, AllocatedIsOwn, TypeOK
    <3>2. streams[v].correlation # IW_UNDEFINED  BY DEF Plays, PlaysAreCounted
    <3>3. Names(s, v)  BY <3>1, <3>2 DEF Names
    <3> QED  BY <2>1, <3>1, <3>3 DEF Handles, NamesAfterAllocate, AnswersAreAwaited
  <2> HIDE DEF v
  <2>6. ASSUME NEW t \in Session, op'[t] = "Play", response'[t] # <<>>, Head(response'[t]).ack
        PROVE  PlaysAs(t, Head(response[t]).value)' /\ (sync'[t] => PlaysOnce(t)')
    <3>1. t # s  BY <2>4, <2>6
    <3>2. /\ op[t] = "Play" /\ response'[t] = response[t] /\ sessionHandle'[t] = sessionHandle[t]
          /\ sync'[t] = sync[t]
      BY <2>2, <2>6, <3>1 DEF OthersKept
    <3>3. PlaysAs(t, Head(response[t]).value) /\ (sync[t] => PlaysOnce(t))
      BY <2>6, <3>2 DEF Beliefs, AckedPlay
    <3> QED  BY <1>1, <3>2, <3>3 DEF PlaysAs, PlaysOnce
  <2>7. ASSUME NEW t \in Session, op'[t] = "WaitStopped"
        PROVE  PlaysAs(t, correlation[t])' /\ PlaysOnce(t)'
    <3>1. t # s  BY <2>4, <2>7
    <3>2. /\ op[t] = "WaitStopped" /\ sessionHandle'[t] = sessionHandle[t]
          /\ correlation'[t] = correlation[t]
      BY <2>2, <2>7, <3>1 DEF OthersKept
    <3>3. PlaysAs(t, correlation[t]) /\ PlaysOnce(t)  BY <3>2 DEF Beliefs, AwaitedPlay
    <3> QED  BY <1>1, <3>2, <3>3 DEF PlaysAs, PlaysOnce
  <2>8. BusyIsUnknown'  BY <2>1, <2>2, <2>4 DEF Beliefs, BusyIsUnknown, OthersKept
  <2>9. IdleStream'
    BY <1>1, <2>1, <2>2, <2>4, <2>5 DEF Beliefs, IdleStream, OthersKept
  <2> QED  BY <2>6, <2>7, <2>8, <2>9 DEF Beliefs, AckedPlay, AwaitedPlay
<1>9. CASE Answered(s) \/ TimedOut(s) \/ PlayGivesUp(s)
  <2>1. /\ op'[s] = "idle" /\ UNCHANGED <<sessionHandle, state, iocp>> /\ OthersKept(s)
    <3>1. CASE Answered(s)  BY <3>1 DEF Answered, Received, OthersKept, TypeOK
    <3>2. CASE TimedOut(s)  BY <3>2 DEF TimedOut, Expired, OthersKept, TypeOK
    <3>3. CASE PlayGivesUp(s)  BY <3>3 DEF PlayGivesUp, OthersKept, TypeOK
    <3> QED  BY <1>9, <3>1, <3>2, <3>3
  <2>2. KeepsBeliefs(s)  BY <2>1 DEF KeepsBeliefs
  <2> QED  BY <1>4, <1>6, <2>1, <2>2
<1>10. CASE PlayFile(s)
  <2>1. /\ op[s] = "idle" /\ UNCHANGED <<response, sessionHandle, correlation>>
        /\ state' = [state EXCEPT ![s] = "UNKNOWN"]
        /\ \E b \in BOOLEAN : sync' = [sync EXCEPT ![s] = b]
        /\ op' = [op EXCEPT ![s] = IF streamerUp THEN "Play" ELSE "idle"]
    BY <1>10 DEF PlayFile, Ask
  <2>2. NoRequestButOf(s)  BY <1>5, <1>10 DEF PlayFile, Ask, Request
  <2>3. OthersKept(s)  BY <2>1 DEF OthersKept, TypeOK
  <2>4. response[s] = <<>>  BY <1>3, <2>1 DEF TxnOp
  <2>5. op'[s] \in {"Play", "idle"} /\ state'[s] = "UNKNOWN"  BY <2>1 DEF TypeOK
  <2>6. KeepsBeliefs(s)  BY <2>1, <2>4, <2>5 DEF KeepsBeliefs
  <2> QED  BY <1>6, <2>2, <2>3, <2>6
<1>11. CASE PlayAck(s)
  <2>1. /\ op[s] = "Play" /\ response[s] # <<>> /\ Head(response[s]).ack
        /\ response' = [response EXCEPT ![s] = <<>>]
        /\ op' = [op EXCEPT ![s] = IF sync[s] THEN "WaitStopped" ELSE "idle"]
        /\ correlation' = [correlation EXCEPT ![s] =
                              IF sync[s] THEN Head(response[s]).value ELSE correlation[s]]
        /\ sync' = [sync EXCEPT ![s] = FALSE]
        /\ UNCHANGED <<sessionHandle, state, iocp>>
    BY <1>11 DEF PlayAck, Received
  <2>2. OthersKept(s) /\ NoRequestButOf(s)  BY <1>4, <2>1 DEF OthersKept, TypeOK
  <2>3. CASE ~sync[s]
    <3>1. op'[s] = "idle"  BY <2>1, <2>3 DEF TypeOK
    <3>2. KeepsBeliefs(s)  BY <2>1, <3>1 DEF KeepsBeliefs
    <3> QED  BY <1>6, <2>2, <3>2
  <2>4. CASE sync[s]
    <3>1. op'[s] = "WaitStopped" /\ correlation'[s] = Head(response[s]).value /\ response'[s] = <<>>
      BY <2>1, <2>4 DEF TypeOK
    <3>2. PlaysAs(s, Head(response[s]).value) /\ PlaysOnce(s)
      BY <2>1, <2>4 DEF Beliefs, AckedPlay
    <3>3. ASSUME NEW t \in Session, op'[t] = "Play", response'[t] # <<>>, Head(response'[t]).ack
          PROVE  PlaysAs(t, Head(response[t]).value)' /\ (sync'[t] => PlaysOnce(t)')
      <4>1. t # s  BY <3>1, <3>3
      <4>2. /\ op[t] = "Play" /\ response'[t] = response[t] /\ sync'[t] = sync[t]
        BY <2>2, <3>3, <4>1 DEF OthersKept
      <4>3. PlaysAs(t, Head(response[t]).value) /\ (sync[t] => PlaysOnce(t))
        BY <3>3, <4>2 DEF Beliefs, AckedPlay
      <4> QED  BY <1>1, <2>1, <4>2, <4>3 DEF PlaysAs, PlaysOnce
    <3>4. ASSUME NEW t \in Session, op'[t] = "WaitStopped"
          PROVE  PlaysAs(t, correlation[t])' /\ PlaysOnce(t)'
      <4>1. PlaysAs(t, correlation'[t]) /\ PlaysOnce(t)
        <5>1. CASE t = s  BY <3>1, <3>2, <5>1
        <5>2. CASE t # s
          <6>1. op[t] = "WaitStopped" /\ correlation'[t] = correlation[t]
            BY <2>2, <3>4, <5>2 DEF OthersKept
          <6> QED  BY <6>1 DEF Beliefs, AwaitedPlay
        <5> QED  BY <5>1, <5>2
      <4> QED  BY <1>1, <2>1, <4>1 DEF PlaysAs, PlaysOnce
    <3>5. BusyIsUnknown'  BY <2>1, <2>2 DEF Beliefs, BusyIsUnknown, OthersKept
    <3>6. IdleStream'  BY <1>1, <2>1 DEF Beliefs, IdleStream
    <3> QED  BY <3>3, <3>4, <3>5, <3>6 DEF Beliefs, AckedPlay, AwaitedPlay
  <2> QED  BY <2>3, <2>4
<1>12. CASE PlayStopped(s)
  <2>1. /\ op[s] = "WaitStopped" /\ playStopped[s] # <<>>
        /\ UNCHANGED <<response, sessionHandle, sync, iocp>>
    BY <1>12 DEF PlayStopped
  <2>2. NoRequestButOf(s)  BY <1>4, <2>1
  <2>3. CASE ~StoppedIsOwn(s)
    <3>1. UNCHANGED <<op, state, correlation>>  BY <1>12, <2>3 DEF PlayStopped
    <3>2. OthersKept(s)  BY <2>1, <3>1 DEF OthersKept
    <3>3. KeepsBeliefs(s)  BY <2>1, <3>1 DEF KeepsBeliefs, Beliefs, BusyIsUnknown
    <3> QED  BY <1>6, <2>2, <3>2, <3>3
  <2>4. CASE StoppedIsOwn(s)
    <3>1. /\ op' = [op EXCEPT ![s] = "idle"]
          /\ state' = [state EXCEPT ![s] = "NOT_PLAYING"]
          /\ correlation' = [correlation EXCEPT ![s] = IW_UNDEFINED]
      BY <1>12, <2>4 DEF PlayStopped
    <3>2. OthersKept(s)  BY <2>1, <3>1 DEF OthersKept, TypeOK
    <3>3. op'[s] = "idle"  BY <3>1 DEF TypeOK
    <3>4. correlation[s] \in ended \cup overtaken
      <4>1. playStopped[s] \in Seq(Play)  BY DEF TypeOK
      <4>2. playStopped[s][1] = correlation[s] /\ 1 \in 1..Len(playStopped[s])
        BY <2>1, <2>4, <4>1 DEF StoppedIsOwn
      <4> QED  BY <4>2 DEF Plays, ReportedEnds
    <3>5. /\ sessionHandle[s] \in DOMAIN streams /\ streams[sessionHandle[s]].playing =>
                streams[sessionHandle[s]].correlation \in overtaken
      <4> SUFFICES ASSUME sessionHandle[s] \in DOMAIN streams, streams[sessionHandle[s]].playing
          PROVE  streams[sessionHandle[s]].correlation \in overtaken
        OBVIOUS
      <4>1. streams[sessionHandle[s]].correlation = correlation[s] /\ ~streams[sessionHandle[s]].loop
        BY <2>1 DEF Beliefs, AwaitedPlay, PlaysAs, PlaysOnce
      <4> QED  BY <3>4, <4>1 DEF Plays, PlayingHasNotEnded
    <3>6. \A i \in 1..Len(iocp) : IsRequestOf(iocp[i], s) => iocp[i].kind # "PLAY_REQUEST"
      BY <2>1 DEF Requests, AnsweredIsLast, NothingAsked, IsAskedBy, IsRequestOf
    <3>7. IdleStream'
      BY <1>1, <2>1, <3>2, <3>5, <3>6 DEF Beliefs, IdleStream, OthersKept
    <3>8. ASSUME NEW t \in Session, op'[t] = "Play", response'[t] # <<>>, Head(response'[t]).ack
          PROVE  PlaysAs(t, Head(response[t]).value)' /\ (sync'[t] => PlaysOnce(t)')
      <4>1. t # s  BY <3>3, <3>8
      <4>2. op[t] = "Play" /\ response'[t] = response[t]  BY <3>2, <3>8, <4>1 DEF OthersKept
      <4>3. PlaysAs(t, Head(response[t]).value) /\ (sync[t] => PlaysOnce(t))
        BY <3>8, <4>2 DEF Beliefs, AckedPlay
      <4> QED  BY <1>1, <2>1, <4>2, <4>3 DEF PlaysAs, PlaysOnce
    <3>9. ASSUME NEW t \in Session, op'[t] = "WaitStopped"
          PROVE  PlaysAs(t, correlation[t])' /\ PlaysOnce(t)'
      <4>1. t # s  BY <3>3, <3>9
      <4>2. op[t] = "WaitStopped" /\ correlation'[t] = correlation[t]
        BY <3>2, <3>9, <4>1 DEF OthersKept
      <4>3. PlaysAs(t, correlation[t]) /\ PlaysOnce(t)  BY <4>2 DEF Beliefs, AwaitedPlay
      <4> QED  BY <1>1, <2>1, <4>2, <4>3 DEF PlaysAs, PlaysOnce
    <3>10. BusyIsUnknown'  BY <3>2, <3>3 DEF Beliefs, BusyIsUnknown, OthersKept
    <3> QED  BY <3>7, <3>8, <3>9, <3>10 DEF Beliefs, AckedPlay, AwaitedPlay
  <2> QED  BY <2>3, <2>4
<1>13. CASE StopPlay(s)
  <2>1. UNCHANGED <<op, response, sessionHandle, sync, correlation, state>> /\ op[s] = "idle"
    BY <1>13 DEF StopPlay
  <2>2. /\ NoRequestButOf(s)
        /\ \A i \in 1..Len(iocp') : iocp'[i].kind = "PLAY_REQUEST" =>
              \E j \in 1..Len(iocp) : iocp[j] = iocp'[i]
    BY <1>5, <1>13 DEF StopPlay, Request
  <2>3. OthersKept(s)  BY <2>1 DEF OthersKept
  <2>4. KeepsBeliefs(s)  BY <2>1, <2>2 DEF KeepsBeliefs
  <2> QED  BY <1>6, <2>2, <2>3, <2>4
<1>14. CASE TearDown(s) \/ Delete(s)
  <2>1. UNCHANGED <<response, sync, correlation>>  BY <1>14 DEF TearDown, Delete
  <2>2. /\ op'[s] \in {"idle", "joining", "deleted"}
        /\ \A t \in Session : t # s => op'[t] = op[t]
    BY <1>14 DEF TearDown, Delete, TypeOK
  <2>3. TearDownEffect(s) \/ UNCHANGED <<sessionHandle, state, iocp>>
    BY <1>14 DEF TearDown, Delete
  <2>4. CASE UNCHANGED <<sessionHandle, state, iocp>>
    <3>1. OthersKept(s)  BY <2>1, <2>2, <2>4 DEF OthersKept
    <3>2. KeepsBeliefs(s)  BY <2>1, <2>2, <2>4 DEF KeepsBeliefs
    <3> QED  BY <1>4, <1>6, <2>4, <3>1, <3>2
  <2>5. CASE TearDownEffect(s) /\ ~UNCHANGED <<sessionHandle, state, iocp>>
    <3>1. /\ ToStreamer(Req(s, "TEARDOWN_REQ", FALSE))
          /\ sessionHandle' = [sessionHandle EXCEPT ![s] = IW_UNDEFINED]
          /\ state' = [state EXCEPT ![s] = "UNKNOWN"]
      BY <2>5 DEF TearDownEffect
    <3>2. OthersKept(s)  BY <2>1, <2>2, <3>1 DEF OthersKept, TypeOK
    <3>3. NoRequestButOf(s)  BY <1>5, <3>1 DEF Request
    <3>4. state'[s] = "UNKNOWN"  BY <3>1 DEF TypeOK
    <3>5. KeepsBeliefs(s)  BY <2>2, <3>4 DEF KeepsBeliefs
    <3> QED  BY <1>6, <3>2, <3>3, <3>5
  <2> QED  BY <2>3, <2>4, <2>5
<1> QED
  BY <1>7, <1>8, <1>9, <1>10, <1>11, <1>12, <1>13, <1>14 DEF Owner

LEMMA BeliefsStep ==
    ASSUME TypeOK, TypeOK', Handles, Plays, Requests, Beliefs, Next PROVE Beliefs'
<1> USE DEF ownerVars, listenVars, hangupVars, streamerVars, historyVars
<1>1. ASSUME NEW s \in Session, Owner(s) PROVE Beliefs'  BY <1>1, BeliefsOwner
<1>2. ASSUME NEW k, Serves(k), UNCHANGED <<op, sessionHandle, sync, correlation, state>>,
             \A t \in Session : op[t] = "Play" /\ response'[t] # <<>> /\ Head(response'[t]).ack =>
                response'[t] = response[t]
      PROVE  BeliefsUnchanged
  <2>1. \A i \in 1..Len(iocp') : i + 1 \in 1..Len(iocp) /\ iocp'[i] = iocp[i + 1]
    BY <1>2, ServesType
  <2> QED  BY <1>2, <2>1 DEF BeliefsUnchanged, KeepsBeliefs, Beliefs, BusyIsUnknown
<1>3. ASSUME NEW s \in Session, InterruptWithHangup(s) \/ UponActiveObjectEvent(s) PROVE Beliefs'
  <2>1. UNCHANGED <<op, response, sessionHandle, sync, correlation, state, iocp, streams, overtaken>>
    BY <1>3 DEF InterruptWithHangup, UponActiveObjectEvent
  <2>2. BeliefsUnchanged  BY <2>1 DEF BeliefsUnchanged, KeepsBeliefs, Beliefs, BusyIsUnknown
  <2>3. StreamsAsBefore  BY <2>1 DEF StreamsAsBefore
  <2> QED  BY <2>1, <2>2, <2>3, BeliefsKept
\* The answer to an open request is of its kind.
<1>4. ASSUME NEW k, Serves(k), IsAsked(Msg), NEW ack, NEW v, Respond(Msg, ack, v),
             NEW t \in Session, response'[t] # response[t]
      PROVE  /\ t = Msg.session /\ k = KindOf(op[t]) /\ op[t] \in TxnOp
             /\ Head(response'[t]).ack = ack /\ Head(response'[t]).value = v
             /\ op[t] = "Play" => Msg.handle = sessionHandle[t] /\ (sync[t] => ~Msg.flag)
  <2>1. k # "EOF"  BY <1>4, ServesType DEF IsAsked
  <2>2. /\ Msg.session \in Session /\ iocp[1] = Msg /\ 1 \in 1..Len(iocp) /\ Msg.kind = k
    <3>1. Msg.session \in Session /\ iocp[1] = Msg /\ Len(iocp) > 0 /\ Msg.kind = k
      BY <1>4, <2>1, ServesType
    <3>2. Len(iocp) \in Nat  BY DEF TypeOK
    <3> QED  BY <3>1, <3>2
  <2>3. /\ t = Msg.session /\ Awaited(Msg)
        /\ Head(response'[t]).ack = ack /\ Head(response'[t]).value = v
    BY <1>4, <2>2, RespondEffect
  <2>4. IsAskedBy(iocp[1], t) /\ iocp[1].txn = txn[t] /\ op[t] \in TxnOp
    BY <1>4, <2>2, <2>3 DEF IsAsked, IsAskedBy, Awaited
  <2> QED  BY <2>2, <2>3, <2>4 DEF Requests, AskedIsOpen
<1>5. KindOf("Play") = "PLAY_REQUEST"  BY DEF KindOf
<1>6. CASE AllocatePlaybackSession
  <2>1. /\ Serves("ALLOCATE_SESSION_REQ") /\ IsAsked(Msg)
        /\ UNCHANGED <<op, sessionHandle, sync, correlation, state, overtaken>>
        /\ \E ack, v : Respond(Msg, ack, v)
    BY <1>6 DEF AllocatePlaybackSession, IsAsked, Serves, Msg
  <2>2. \A t \in Session : op[t] = "Play" => response'[t] = response[t]
    BY <1>4, <1>5, <2>1
  <2>3. BeliefsUnchanged  BY <1>2, <2>1, <2>2
  <2>4. CASE UNCHANGED streams
    <3>1. StreamsAsBefore  BY <2>4 DEF StreamsAsBefore
    <3> QED  BY <2>1, <2>3, <3>1, BeliefsKept
  <2>5. CASE streams' # streams
    <3> DEFINE n == handleCounter + 1
    <3>1. /\ DOMAIN streams' = DOMAIN streams \cup {n}
          /\ \A h \in DOMAIN streams : h # n => streams'[h] = streams[h]
      BY <1>6, <2>5, AllocatedStream
    <3>2. \A t \in Session : sessionHandle[t] # n
      <4> SUFFICES ASSUME NEW t \in Session, sessionHandle[t] = n PROVE FALSE  OBVIOUS
      <4>1. handleCounter \in Nat  BY BoundsAssumption DEF TypeOK
      <4>2. n \in Handle  BY <4>1 DEF TypeOK, IW_UNDEFINED
      <4>3. n <= handleCounter  BY <4>2 DEF Names, Handles, NamedIsOwn
      <4> QED  BY <4>1, <4>3
    <3> HIDE DEF n
    <3>3. \A t \in Session : sessionHandle'[t] \in DOMAIN streams' =>
             /\ sessionHandle[t] \in DOMAIN streams
             /\ streams'[sessionHandle'[t]] = streams[sessionHandle[t]]
      BY <2>1, <3>1, <3>2
    <3>4. ASSUME NEW t \in Session, op'[t] = "Play", response'[t] # <<>>, Head(response'[t]).ack
          PROVE  PlaysAs(t, Head(response[t]).value)' /\ (sync'[t] => PlaysOnce(t)')
      <4>1. response'[t] = response[t]  BY <2>1, <2>2, <3>4
      <4>2. PlaysAs(t, Head(response[t]).value) /\ (sync[t] => PlaysOnce(t))
        BY <2>1, <3>4, <4>1 DEF Beliefs, AckedPlay
      <4> QED  BY <2>1, <3>3, <4>1, <4>2 DEF PlaysAs, PlaysOnce
    <3>5. AwaitedPlay'
      BY <2>1, <3>3 DEF Beliefs, AwaitedPlay, PlaysAs, PlaysOnce
    <3>6. BusyIsUnknown'  BY <2>1 DEF Beliefs, BusyIsUnknown
    <3>7. IdleStream'
      <4>1. \A i \in 1..Len(iocp') : i + 1 \in 1..Len(iocp) /\ iocp'[i] = iocp[i + 1]
        BY <2>1, ServesType
      <4> QED  BY <2>1, <3>3, <4>1 DEF Beliefs, IdleStream
    <3> QED  BY <3>4, <3>5, <3>6, <3>7 DEF Beliefs, AckedPlay
  <2> QED  BY <2>4, <2>5
<1>7. CASE ModifySession
  <2>1. /\ Serves("MODIFY_REQ") /\ IsAsked(Msg)
        /\ UNCHANGED <<op, sessionHandle, sync, correlation, state, overtaken>>
        /\ \E ack, v : Respond(Msg, ack, v)
    BY <1>7 DEF ModifySession, IsAsked, Serves, Msg
  <2>2. \A t \in Session : op[t] = "Play" => response'[t] = response[t]
    BY <1>4, <1>5, <2>1
  <2> QED  BY <1>2, <1>7, <2>1, <2>2, HandlersKeepStreams, BeliefsKept
<1>8. CASE StartPlaybackRefused
  <2>1. /\ Serves("PLAY_REQUEST") /\ IsAsked(Msg)
        /\ UNCHANGED <<op, sessionHandle, sync, correlation, state, overtaken>>
        /\ Respond(Msg, FALSE, IW_UNDEFINED)
    BY <1>8 DEF StartPlaybackRefused, IsAsked, Serves, Msg
  <2>2. \A t \in Session : Head(response'[t]).ack => response'[t] = response[t]
    BY <1>4, <2>1
  <2> QED  BY <1>2, <1>8, <2>1, <2>2, HandlersKeepStreams, BeliefsKept
<1>9. CASE StartPlayback
  <2> DEFINE c == correlationCounter + 1
  <2>1. /\ Serves("PLAY_REQUEST") /\ IsAsked(Msg)
        /\ UNCHANGED <<op, sessionHandle, sync, correlation, state>>
        /\ overtaken \subseteq overtaken'
    BY <1>9 DEF StartPlayback, IsAsked, Serves, Msg
  <2>0. PICK v : v = c /\ Respond(Msg, TRUE, v)  BY <1>9 DEF StartPlayback
  <2>2. PICK s \in Session : s = Msg.session  BY <2>1, ServesType
  <2>3. PICK h \in DOMAIN streams : h = Msg.handle  BY <1>9, StartedStream
  <2>4. /\ DOMAIN streams' = DOMAIN streams
        /\ \A g \in DOMAIN streams : g # h => streams'[g] = streams[g]
        /\ streams'[h].loop = Msg.flag
        /\ streams'[h].correlation = c
    BY <1>9, <2>3, StartedStream
  <2>5. iocp[1] = Msg /\ 1 \in 1..Len(iocp) /\ IsRequestOf(Msg, s) /\ IsAskedBy(Msg, s)
        /\ Msg.kind = "PLAY_REQUEST"
    <3>1. /\ iocp[1] = Msg /\ Len(iocp) > 0 /\ IsRequestOf(Msg, s) /\ Msg.kind = "PLAY_REQUEST"
      BY <2>1, <2>2, ServesType
    <3>2. Len(iocp) \in Nat  BY DEF TypeOK
    <3> QED  BY <2>1, <2>2, <3>1, <3>2 DEF IsAsked, IsAskedBy
  <2>6. streams[h].session = s
    <3>1. Names(s, h)  BY <2>3, <2>5 DEF Names
    <3>2. h \in Handle  BY DEF TypeOK
    <3> QED  BY <3>1, <3>2 DEF Handles, NamedIsOwn
  <2>7. ASSUME NEW t \in Session, t # s PROVE sessionHandle[t] # h
    <3> SUFFICES ASSUME sessionHandle[t] = h PROVE FALSE  OBVIOUS
    <3>1. Names(t, h)  BY DEF Names
    <3>2. h \in Handle  BY DEF TypeOK
    <3> QED  BY <2>6, <2>7, <3>1, <3>2 DEF Handles, NamedIsOwn
  <2>8. ASSUME NEW t \in Session, t # s
        PROVE  sessionHandle'[t] \in DOMAIN streams' =>
                  /\ sessionHandle[t] \in DOMAIN streams
                  /\ streams'[sessionHandle'[t]] = streams[sessionHandle[t]]
    BY <2>1, <2>4, <2>7, <2>8
  <2>9. ~NothingAsked(s)  BY <2>5 DEF NothingAsked
  <2> HIDE DEF c
  <2>10. ASSUME NEW t \in Session, op'[t] = "Play", response'[t] # <<>>, Head(response'[t]).ack
         PROVE  PlaysAs(t, Head(response[t]).value)' /\ (sync'[t] => PlaysOnce(t)')
    <3>1. op[t] = "Play"  BY <2>1, <2>10
    <3>2. CASE response'[t] = response[t]
      <4>1. NothingAsked(t)  BY <2>10, <3>2 DEF Requests, AnsweredIsLast
      <4>2. t # s  BY <2>9, <4>1
      <4>3. PlaysAs(t, Head(response[t]).value) /\ (sync[t] => PlaysOnce(t))
        BY <2>10, <3>1, <3>2 DEF Beliefs, AckedPlay
      <4> QED  BY <2>1, <2>8, <3>2, <4>2, <4>3 DEF PlaysAs, PlaysOnce
    <3>3. CASE response'[t] # response[t]
      <4>1. /\ Head(response'[t]).value = c
            /\ Msg.handle = sessionHandle[t] /\ (sync[t] => ~Msg.flag)
        <5>1. Serves("PLAY_REQUEST") /\ IsAsked(Msg) /\ Respond(Msg, TRUE, v)  BY <2>0, <2>1
        <5>2. /\ Head(response'[t]).value = v
              /\ op[t] = "Play" => Msg.handle = sessionHandle[t] /\ (sync[t] => ~Msg.flag)
          BY <1>4, <3>3, <5>1
        <5> QED  BY <2>0, <3>1, <5>2
      <4> QED  BY <2>1, <2>3, <2>4, <4>1 DEF PlaysAs, PlaysOnce
    <3> QED  BY <3>2, <3>3
  <2>11. ASSUME NEW t \in Session, op'[t] = "WaitStopped"
         PROVE  PlaysAs(t, correlation[t])' /\ PlaysOnce(t)'
    <3>1. op[t] = "WaitStopped"  BY <2>1, <2>11
    <3>2. NothingAsked(t)  BY <3>1 DEF Requests, AnsweredIsLast
    <3>3. t # s  BY <2>9, <3>2
    <3>4. PlaysAs(t, correlation[t]) /\ PlaysOnce(t)  BY <3>1 DEF Beliefs, AwaitedPlay
    <3> QED  BY <2>1, <2>8, <3>3, <3>4 DEF PlaysAs, PlaysOnce
  <2>12. BusyIsUnknown'  BY <2>1 DEF Beliefs, BusyIsUnknown
  <2>13. IdleStream'
    <3> SUFFICES ASSUME NEW t \in Session, state'[t] = "NOT_PLAYING"
        PROVE  /\ sessionHandle'[t] \in DOMAIN streams' /\ streams'[sessionHandle'[t]].playing =>
                     streams'[sessionHandle'[t]].correlation \in overtaken'
               /\ \A i \in 1..Len(iocp') : IsRequestOf(iocp'[i], t) => iocp'[i].kind # "PLAY_REQUEST"
      BY DEF IdleStream
    <3>1. state[t] = "NOT_PLAYING"  BY <2>1
    <3>2. /\ sessionHandle[t] \in DOMAIN streams /\ streams[sessionHandle[t]].playing =>
                streams[sessionHandle[t]].correlation \in overtaken
          /\ \A i \in 1..Len(iocp) : IsRequestOf(iocp[i], t) => iocp[i].kind # "PLAY_REQUEST"
      BY <3>1 DEF Beliefs, IdleStream
    <3>3. t # s  BY <2>5, <3>2
    <3>4. \A i \in 1..Len(iocp') : i + 1 \in 1..Len(iocp) /\ iocp'[i] = iocp[i + 1]
      BY <2>1, ServesType
    <3> QED  BY <2>1, <2>8, <3>2, <3>3, <3>4
  <2> QED  BY <2>10, <2>11, <2>12, <2>13 DEF Beliefs, AckedPlay, AwaitedPlay
<1>10. CASE StopPlayback \/ UponTearDown \/ UponPlaybackStopped
  <2>1. /\ UNCHANGED <<op, response, sessionHandle, sync, correlation, state, overtaken>>
        /\ \E k : Serves(k)
    BY <1>10 DEF StopPlayback, UponTearDown, UponPlaybackStopped
  <2>2. BeliefsUnchanged  BY <1>2, <2>1
  <2>3. StreamsAsBefore
    BY <1>10, HandlersKeepStreams DEF UponPlaybackStopped, StreamsAsBefore
  <2> QED  BY <2>1, <2>2, <2>3, BeliefsKept
<1>11. CASE Shutdown
  <2>1. /\ UNCHANGED <<op, response, sessionHandle, sync, correlation, state, overtaken>>
        /\ Len(iocp') = 0
    BY <1>11 DEF Shutdown
  <2>2. BeliefsUnchanged  BY <2>1 DEF BeliefsUnchanged, KeepsBeliefs, Beliefs, BusyIsUnknown
  <2> QED  BY <1>11, <2>1, <2>2, HandlersKeepStreams, BeliefsKept
<1>12. ASSUME NEW h \in Handle, OnFileFilterEvent(h) PROVE Beliefs'
  <2> DEFINE m == [kind |-> "EOF", handle |-> h]
  <2>1. m.kind = "EOF" /\ m \in Message  BY DEF Message
  <2>2. ToStreamer(m)  BY <1>12 DEF OnFileFilterEvent, ToStreamer
  <2> HIDE DEF m
  <2>3. \A i \in 1..Len(iocp') : (i \in 1..Len(iocp) /\ iocp'[i] = iocp[i]) \/ iocp'[i] = m
    BY <2>1, <2>2, SendShape
  <2>4. UNCHANGED <<op, response, sessionHandle, sync, correlation, state, overtaken>>
    BY <1>12 DEF OnFileFilterEvent
  <2>5. BeliefsUnchanged
    BY <2>1, <2>3, <2>4 DEF BeliefsUnchanged, KeepsBeliefs, Beliefs, BusyIsUnknown
  <2> QED  BY <1>12, <2>4, <2>5, FilterEventStreams, BeliefsKept
<1> QED
  BY <1>1, <1>3, <1>6, <1>7, <1>8, <1>9, <1>10, <1>11, <1>12 DEF Next, Streamer

-----------------------------------------------------------------------------
(* Theorems about what a session may believe.                              *)

Sound == Core /\ Requests /\ Beliefs

LEMMA SoundInvariant == Spec => []Sound
<1>1. Init => Sound
  BY TypeInit, HandlesInit, PlaysInit, RequestsInit, BeliefsInit DEF Sound, Core
<1>2. Sound /\ [Next]_vars => Sound'
  <2> SUFFICES ASSUME Sound, [Next]_vars PROVE Sound'  OBVIOUS
  <2>1. Core'  BY CoreStep DEF Sound
  <2>2. CASE Next
    BY <2>1, <2>2, RequestsStep, BeliefsStep DEF Sound, Core
  <2>3. CASE UNCHANGED vars
    <3> USE <2>3 DEF vars, ownerVars, listenVars, hangupVars, streamerVars, historyVars
    <3>1. Requests'
      BY DEF Sound, Requests, AskedInOrder, AskedIsOpen, AnsweredIsLast, NothingAsked
    <3>2. Beliefs'
      BY DEF Sound, Beliefs, AckedPlay, AwaitedPlay, BusyIsUnknown, IdleStream, PlaysAs, PlaysOnce
    <3> QED  BY <2>1, <3>1, <3>2 DEF Sound
  <2> QED  BY <2>2, <2>3
<1> QED  BY <1>1, <1>2, PTL DEF Spec

\* A PlayFile that returns because it read its own correlation id does so after
\* the end of its file, or after one that its play overtook in iocp: the ends that
\* are reported are ends of the plays they name, in every interleaving of the
\* ticker, ProcM2Ims, the listener and the owner.
THEOREM SyncPlayEnds == Spec => SyncPlayEndsWithItsFile
<1>1. Sound /\ [Next]_vars =>
        [\A s \in Session :
            (op[s] = "WaitStopped" /\ op'[s] = "idle" /\ state'[s] = "NOT_PLAYING")
                => correlation[s] \in ended \cup overtaken]_vars
  <2> USE DEF ownerVars, listenVars, hangupVars, streamerVars, historyVars
  <2> SUFFICES ASSUME Sound, Next, NEW s \in Session,
                      op[s] = "WaitStopped", op'[s] = "idle", state'[s] = "NOT_PLAYING"
      PROVE  correlation[s] \in ended \cup overtaken
    BY DEF vars
  <2>1. TypeOK /\ state[s] = "UNKNOWN"  BY DEF Sound, Core, Beliefs, BusyIsUnknown
  <2>2. op'[s] # op[s] /\ state'[s] # state[s]  BY <2>1
  <2>3. \E t \in Session : Owner(t)
    BY <2>2 DEF Next, Streamer, InterruptWithHangup, UponActiveObjectEvent, AllocatePlaybackSession,
                ModifySession, StartPlaybackRefused, StartPlayback, StopPlayback, UponTearDown,
                UponPlaybackStopped, Shutdown, OnFileFilterEvent
  <2>4. PICK t \in Session : Owner(t)  BY <2>3
  <2>5. ASSUME NEW u \in Session, TearDownEffect(u) PROVE state'[s] # "NOT_PLAYING"
    BY <2>1, <2>5 DEF TearDownEffect, TypeOK
  <2>6. PlayStopped(t)
    BY <2>1, <2>2, <2>4, <2>5 DEF Owner, Allocate, AllocateAck, ModifyConnection, Answered, TimedOut,
            PlayFile, PlayAck, PlayGivesUp, StopPlay, TearDown, Delete, TypeOK
  <2>7. t = s /\ StoppedIsOwn(s) /\ playStopped[s] # <<>>
    BY <2>1, <2>2, <2>6 DEF PlayStopped, TypeOK
  <2>8. playStopped[s] \in Seq(Play)  BY <2>1 DEF TypeOK
  <2>9. playStopped[s][1] = correlation[s] /\ 1 \in 1..Len(playStopped[s])
    BY <2>7, <2>8 DEF StoppedIsOwn
  <2> QED  BY <2>9 DEF Sound, Core, Plays, ReportedEnds
<1> QED  BY <1>1, SoundInvariant, PTL DEF Spec, SyncPlayEndsWithItsFile

\* StopPlay may skip its request: NOT_PLAYING is set by PlayFile when it has read
\* the end of its own play, at which time no request of the session that could
\* start another one is in iocp (Requests), and the stream it names is the one that
\* this play was started on (Handles, Beliefs).
THEOREM NotPlaying == Spec => []NotPlayingIsTrue
<1>1. Sound => NotPlayingIsTrue
  <2> SUFFICES ASSUME Sound, NEW s \in Session, state[s] = "NOT_PLAYING",
                      NEW h \in DOMAIN streams, h = sessionHandle[s]
      PROVE  /\ Ticking(h) => streams[h].correlation \in overtaken
             /\ \A i \in 1..Len(iocp) : iocp[i].kind = "PLAY_REQUEST" => iocp[i].handle # h
    BY DEF NotPlayingIsTrue
  <2>1. Ticking(h) => streams[h].correlation \in overtaken
    BY DEF Sound, Beliefs, IdleStream, Ticking
  <2>2. ASSUME NEW i \in 1..Len(iocp), iocp[i].kind = "PLAY_REQUEST", iocp[i].handle = h
        PROVE  FALSE
    <3>1. h \in Handle /\ iocp[i] \in Message  BY DEF Sound, Core, TypeOK
    <3>2. IsRequestOf(iocp[i], iocp[i].session) /\ iocp[i].session \in Session
      BY <2>2, <3>1 DEF Message, Request, IsRequestOf
    <3>3. Names(iocp[i].session, h) /\ Names(s, h)  BY <2>2, <3>2 DEF Names
    <3>4. iocp[i].session = s
      BY <3>1, <3>2, <3>3 DEF Sound, Core, Handles, NamedIsOwn
    <3> QED  BY <2>2, <3>2, <3>4 DEF Sound, Beliefs, IdleStream
  <2> QED  BY <2>1, <2>2
<1> QED  BY <1>1, SoundInvariant, PTL

-----------------------------------------------------------------------------
(* The codec.                                                              *)

LEMMA CodecEdited ==
    ASSUME TypeOK, CodecOfEveryPlayer, NEW h, NEW r, streams' = [streams EXCEPT ![h] = r],
           r.soundread => r.pt
    PROVE  CodecOfEveryPlayer'
BY DEF TypeOK, CodecOfEveryPlayer

LEMMA CodecStep ==
    ASSUME TypeOK, CodecOfEveryPlayer, Next PROVE CodecOfEveryPlayer'
<1> USE DEF ownerVars, listenVars, hangupVars, streamerVars, historyVars
<1>1. CASE UNCHANGED streams  BY <1>1 DEF CodecOfEveryPlayer
<1>2. CASE AllocatePlaybackSession /\ streams' # streams
  <2> DEFINE r == [session |-> Msg.session, pt |-> ~Msg.flag, soundread |-> ~Msg.flag,
                   state |-> "ALLOCATED", playing |-> FALSE, loop |-> FALSE,
                   correlation |-> IW_UNDEFINED]
  <2>1. streams' = Plus(streams, handleCounter', r)  BY <1>2 DEF AllocatePlaybackSession
  <2>2. r.soundread => r.pt  OBVIOUS
  <2> HIDE DEF r
  <2> QED  BY <2>1, <2>2 DEF Plus, CodecOfEveryPlayer
<1>3. CASE ModifySession /\ streams' # streams
  <2>1. Known  BY <1>3 DEF ModifySession
  <2>2. streams[Msg.handle] \in Stream  BY <2>1 DEF TypeOK, Known
  <2>3. PICK r : /\ streams' = [streams EXCEPT ![Msg.handle] = r]
                 /\ \E b \in BOOLEAN :
                       \/ r = [streams[Msg.handle] EXCEPT !.pt = TRUE, !.soundread = b]
                       \/ r = [streams[Msg.handle] EXCEPT !.pt = TRUE, !.soundread = b,
                                                          !.state = "TICKING"]
    BY <1>3 DEF ModifySession, ModifyFails
  <2>4. r.pt  BY <2>2, <2>3 DEF Stream
  <2> QED  BY <2>3, <2>4, CodecEdited
<1>4. CASE (StartPlaybackRefused \/ StartPlayback \/ StopPlayback) /\ streams' # streams
  <2>1. Known  BY <1>4 DEF StartPlaybackRefused, StartPlayback, StopPlayback
  <2>2. streams[Msg.handle] \in Stream  BY <2>1 DEF TypeOK, Known
  <2>3. PICK r : /\ streams' = [streams EXCEPT ![Msg.handle] = r]
                 /\ \/ r = StopTicking(streams[Msg.handle])
                    \/ r = [streams[Msg.handle] EXCEPT !.playing = FALSE]
                    \/ r = [streams[Msg.handle] EXCEPT !.state = "TICKING", !.playing = TRUE,
                                     !.loop = Msg.flag, !.correlation = correlationCounter']
    BY <1>4 DEF StartPlaybackRefused, StartPlayback, StopPlayback
  <2>4. r.pt = streams[Msg.handle].pt /\ r.soundread = streams[Msg.handle].soundread
    BY <2>2, <2>3 DEF Stream, StopTicking
  <2>5. streams[Msg.handle].soundread => streams[Msg.handle].pt
    BY <2>1 DEF Known, CodecOfEveryPlayer
  <2> QED  BY <2>3, <2>4, <2>5, CodecEdited
<1>5. CASE UponTearDown  BY <1>5 DEF UponTearDown, Without, CodecOfEveryPlayer
<1>6. CASE Shutdown  BY <1>6 DEF Shutdown, CodecOfEveryPlayer
<1>7. ASSUME NEW h \in Handle, OnFileFilterEvent(h) PROVE CodecOfEveryPlayer'
  <2>1. streams[h] \in Stream /\ h \in DOMAIN streams  BY <1>7 DEF OnFileFilterEvent, TypeOK
  <2>2. PICK r : /\ streams' = [streams EXCEPT ![h] = r]
                 /\ r = [streams[h] EXCEPT !.playing = streams[h].loop]
    BY <1>7 DEF OnFileFilterEvent
  <2>3. r.pt = streams[h].pt /\ r.soundread = streams[h].soundread  BY <2>1, <2>2 DEF Stream
  <2>4. streams[h].soundread => streams[h].pt  BY <2>1 DEF CodecOfEveryPlayer
  <2> QED  BY <2>2, <2>3, <2>4, CodecEdited
<1>8. CASE UponPlaybackStopped  BY <1>1, <1>8 DEF UponPlaybackStopped
<1>9. ASSUME NEW s \in Session, Owner(s) \/ InterruptWithHangup(s) \/ UponActiveObjectEvent(s)
      PROVE  UNCHANGED streams
  BY <1>9 DEF Owner, Allocate, AllocateAck, ModifyConnection, Answered, TimedOut, PlayFile, PlayAck,
         PlayStopped, PlayGivesUp, StopPlay, TearDown, Delete, InterruptWithHangup,
         UponActiveObjectEvent
<1> QED  BY <1>1, <1>2, <1>3, <1>4, <1>5, <1>6, <1>7, <1>8, <1>9 DEF Next, Streamer

\* StartPlayback reads ctx->pt of a stream that has a file player: whichever step
\* of AllocatePlaybackSession or ModifySession failed, the codec is there.
THEOREM CodecPresent == Spec => []CodecOfEveryPlayer
<1>1. Init => CodecOfEveryPlayer  BY DEF Init, CodecOfEveryPlayer
<1>2. TypeOK /\ CodecOfEveryPlayer /\ [Next]_vars => CodecOfEveryPlayer'
  <2>1. CASE UNCHANGED vars  BY <2>1 DEF vars, streamerVars, CodecOfEveryPlayer
  <2> QED  BY <2>1, CodecStep
<1> QED  BY <1>1, <1>2, TypeCorrect, PTL DEF Spec

-----------------------------------------------------------------------------
(* Ends under way.                                                         *)

NoNewEofAt(d) ==
    \A i \in 1..Len(iocp') : iocp'[i].kind = "EOF" =>
        i + d \in 1..Len(iocp) /\ iocp'[i] = iocp[i + d]

\* A step owes no end of h that was not owed.
EndsKept(h) ==
    /\ h \in DOMAIN streams
    /\ streams'[h].session = streams[h].session
    /\ streams'[h].loop = streams[h].loop
    /\ streams'[h].correlation = streams[h].correlation
    /\ streams'[h].playing => streams[h].playing
    /\ HasEof(h)' => HasEof(h)
    /\ OneEof(h) => OneEof(h)'
NothingOwed(h) == ~streams[h].playing /\ ~HasEof(h) /\ OneEof(h)

LEMMA UnreadType ==
    ASSUME TypeOK, NEW s \in Session
    PROVE  Unread(s) \in Nat /\ acked[s] \in Nat /\ Len(inbound[s]) \in Nat /\ Len(playStopped[s]) \in Nat
<1>1. inbound[s] \in Seq(Play) /\ playStopped[s] \in Seq(Play) /\ acked[s] \in Nat  BY DEF TypeOK
<1>2. Len(inbound[s]) \in Nat /\ Len(playStopped[s]) \in Nat  BY <1>1, LenProperties
<1>3. \A m, n \in Nat : m + n \in Nat  OBVIOUS
<1>4. Unread(s) = Len(playStopped[s]) + Len(inbound[s])  BY DEF Unread
<1>5. Len(playStopped[s]) + Len(inbound[s]) \in Nat  BY <1>2, <1>3, Zenon
<1> QED  BY <1>1, <1>2, <1>4, <1>5, Zenon

LEMMA UnreadTypeNext ==
    ASSUME TypeOK', NEW s \in Session
    PROVE  Unread(s)' \in Nat
<1>1. inbound'[s] \in Seq(Play) /\ playStopped'[s] \in Seq(Play)  BY DEF TypeOK
<1>2. Len(inbound'[s]) \in Nat /\ Len(playStopped'[s]) \in Nat  BY <1>1, LenProperties
<1>3. \A m, n \in Nat : m + n \in Nat  OBVIOUS
<1>4. Unread(s)' = Len(playStopped'[s]) + Len(inbound'[s])  BY DEF Unread
<1> QED  BY <1>2, <1>3, <1>4, Zenon

LEMMA EofsKept ==
    ASSUME TypeOK, NEW d \in Nat, NoNewEofAt(d), NEW h
    PROVE  (HasEof(h)' => HasEof(h)) /\ (OneEof(h) => OneEof(h)')
<1>1. ASSUME NEW i \in 1..Len(iocp'), iocp'[i].kind = "EOF"
      PROVE  i + d \in 1..Len(iocp) /\ iocp'[i] = iocp[i + d]
  BY <1>1 DEF NoNewEofAt
<1>2. HasEof(h)' => HasEof(h)  BY <1>1 DEF HasEof
<1>3. ASSUME OneEof(h) PROVE OneEof(h)'
  <2> SUFFICES ASSUME NEW i \in 1..Len(iocp'), NEW j \in 1..Len(iocp'),
                      iocp'[i].kind = "EOF", iocp'[i].handle = h,
                      iocp'[j].kind = "EOF", iocp'[j].handle = h
      PROVE  i = j
    BY DEF OneEof
  <2>1. i + d = j + d  BY <1>1, <1>3 DEF OneEof
  <2> QED  BY <2>1
<1> QED  BY <1>2, <1>3

LEMMA EndsAsBefore ==
    ASSUME TypeOK, StreamsAsBefore, NEW d \in Nat, NoNewEofAt(d), NEW h \in DOMAIN streams'
    PROVE  EndsKept(h)
BY EofsKept DEF StreamsAsBefore, EndsKept

LEMMA StopsKept ==
    ASSUME TypeOK, TypeOK', Stops, UNCHANGED <<overtaken, acked>>,
           \A h \in DOMAIN streams' : EndsKept(h) \/ NothingOwed(h)',
           \A s \in Session : Unread(s)' <= Unread(s),
           HeldUpByAcked => HeldUpByAcked'
    PROVE  Stops'
<1> SUFFICES ASSUME overtaken = {} PROVE EndsOnce' /\ EndsAreAcked' /\ HeldUpByAcked'
  BY DEF Stops
<1>1. EndsOnce /\ EndsAreAcked /\ HeldUpByAcked  BY DEF Stops
<1>2. EndsOnce'
  <2> SUFFICES ASSUME NEW h \in DOMAIN streams', ~streams'[h].loop
      PROVE  (HasEof(h)' => ~streams'[h].playing) /\ OneEof(h)'
    BY DEF EndsOnce
  <2>1. CASE NothingOwed(h)'  BY <2>1 DEF NothingOwed
  <2>2. CASE EndsKept(h)  BY <1>1, <2>2 DEF EndsKept, EndsOnce
  <2> QED  BY <2>1, <2>2
<1>3. EndsAreAcked'
  <2>1. ASSUME NEW s \in Session PROVE Unread(s)' <= acked'[s]
    <3>1. Unread(s) <= acked[s]  BY <1>1 DEF EndsAreAcked
    <3>2. Unread(s)' \in Nat  BY UnreadTypeNext
    <3> QED  BY <3>1, <3>2, UnreadType
  <2>2. ASSUME NEW h \in DOMAIN streams', OwesEnd(h)',
               NEW s \in Session, s = streams'[h].session
        PROVE  Unread(s)' < acked'[s]
    <3>1. EndsKept(h)  BY <2>2 DEF NothingOwed, OwesEnd
    <3>2. h \in DOMAIN streams /\ streams[h].session = s /\ OwesEnd(h)
      BY <2>2, <3>1 DEF EndsKept, OwesEnd
    <3>3. Unread(s) < acked[s]  BY <1>1, <3>2 DEF EndsAreAcked
    <3>4. Unread(s)' \in Nat  BY UnreadTypeNext
    <3> QED  BY <3>3, <3>4, UnreadType
  <2>3. \A h \in DOMAIN streams' : streams'[h].session \in Session  BY DEF TypeOK, Stream
  <2> QED  BY <2>1, <2>2, <2>3 DEF EndsAreAcked
<1> QED  BY <1>1, <1>2, <1>3

LEMMA StopsInit == Init => Stops
<1> SUFFICES ASSUME Init PROVE EndsOnce /\ EndsAreAcked /\ HeldUpByAcked  BY DEF Stops
<1>1. DOMAIN streams = {}  BY DEF Init
<1>2. ASSUME NEW s \in Session PROVE Unread(s) <= acked[s]
  <2>1. playStopped[s] = <<>> /\ inbound[s] = <<>> /\ acked[s] = 0  BY DEF Init
  <2>2. Len(<<>>) = 0  OBVIOUS
  <2> QED  BY <2>1, <2>2 DEF Unread
<1>3. HeldUpByAcked  BY DEF Init, HeldUpByAcked
<1> QED  BY <1>1, <1>2, <1>3 DEF EndsOnce, EndsAreAcked

\* A file comes to its end: its own end is posted, and nobody else's.
LEMMA StopsAtEof ==
    ASSUME TypeOK, TypeOK', Handles, Plays, Stops, NEW h \in Handle, OnFileFilterEvent(h)
    PROVE  Stops'
<1> USE DEF ownerVars, listenVars
<1> SUFFICES ASSUME overtaken = {} PROVE EndsOnce' /\ EndsAreAcked' /\ HeldUpByAcked'
  BY DEF Stops, OnFileFilterEvent
<1>1. EndsOnce /\ EndsAreAcked /\ HeldUpByAcked  BY DEF Stops
<1>2. /\ StreamsAsBefore /\ DOMAIN streams' = DOMAIN streams
      /\ h \in DOMAIN streams /\ streams[h].playing
      /\ streams'[h].playing => streams[h].loop
  BY FilterEventStreams
<1>3. UNCHANGED <<op, listener, inbound, playStopped, acked>>  BY DEF OnFileFilterEvent
<1> DEFINE m == [kind |-> "EOF", handle |-> h]
<1>4. m.handle = h /\ m \in Message  BY DEF Message
<1>5. ToStreamer(m)  BY DEF OnFileFilterEvent, ToStreamer
<1> HIDE DEF m
<1>6. \A i \in 1..Len(iocp') : \/ i \in 1..Len(iocp) /\ iocp'[i] = iocp[i]
                               \/ i = Len(iocp) + 1 /\ iocp'[i] = m
  BY <1>4, <1>5, SendShape
<1>7. ASSUME NEW g \in DOMAIN streams', g # h PROVE EndsKept(g)
  <2>1. \A i \in 1..Len(iocp') : iocp'[i].handle = g =>
           i \in 1..Len(iocp) /\ iocp'[i] = iocp[i]
    BY <1>4, <1>6, <1>7
  <2>2. HasEof(g)' => HasEof(g)  BY <2>1 DEF HasEof
  <2>3. OneEof(g) => OneEof(g)'  BY <2>1 DEF OneEof
  <2> QED  BY <1>2, <2>2, <2>3 DEF EndsKept, StreamsAsBefore
<1>8. streams'[h].loop = streams[h].loop /\ streams'[h].session = streams[h].session
      /\ streams'[h].correlation = streams[h].correlation
  BY <1>2 DEF StreamsAsBefore
<1>9. EndsOnce'
  <2> SUFFICES ASSUME NEW g \in DOMAIN streams', ~streams'[g].loop
      PROVE  (HasEof(g)' => ~streams'[g].playing) /\ OneEof(g)'
    BY DEF EndsOnce
  <2>1. CASE g # h
    <3>1. EndsKept(g)  BY <1>7, <2>1
    <3> QED  BY <1>1, <3>1 DEF EndsKept, EndsOnce
  <2>2. CASE g = h
    <3>1. ~streams'[h].playing  BY <1>2, <1>8, <2>2
    <3>2. ~HasEof(h)  BY <1>1, <1>2, <1>8, <2>2 DEF EndsOnce
    <3>3. ASSUME NEW i \in 1..Len(iocp'), iocp'[i].kind = "EOF", iocp'[i].handle = h
          PROVE  i = Len(iocp) + 1
      BY <1>6, <3>2, <3>3 DEF HasEof
    <3>4. OneEof(h)'  BY <3>3 DEF OneEof
    <3> QED  BY <2>2, <3>1, <3>4
  <2> QED  BY <2>1, <2>2
<1>10. \A g \in DOMAIN streams' : OwesEnd(g)' => g \in DOMAIN streams /\ OwesEnd(g)
       /\ streams'[g].session = streams[g].session
  <2> SUFFICES ASSUME NEW g \in DOMAIN streams', OwesEnd(g)'
      PROVE  g \in DOMAIN streams /\ OwesEnd(g) /\ streams'[g].session = streams[g].session
    OBVIOUS
  <2>1. CASE g # h
    <3>1. EndsKept(g)  BY <1>7, <2>1
    <3> QED  BY <3>1 DEF EndsKept, OwesEnd
  <2>2. CASE g = h  BY <1>2, <1>8, <2>2 DEF OwesEnd
  <2> QED  BY <2>1, <2>2
<1>11. \A s \in Session : Unread(s)' = Unread(s)  BY <1>3 DEF Unread
<1>12. \A g \in DOMAIN streams : streams[g].session \in Session  BY DEF TypeOK, Stream
<1>13. EndsAreAcked'
  <2>1. \A s \in Session : Unread(s)' <= acked'[s]  BY <1>1, <1>3, <1>11 DEF EndsAreAcked
  <2>2. ASSUME NEW g \in DOMAIN streams', OwesEnd(g)', NEW s \in Session, s = streams'[g].session
        PROVE  Unread(s)' < acked'[s]
    BY <1>1, <1>3, <1>10, <1>11, <2>2 DEF EndsAreAcked
  <2> QED  BY <1>2, <1>10, <1>12, <2>1, <2>2 DEF EndsAreAcked
<1>14. HeldUpByAcked'  BY <1>1, <1>3 DEF HeldUpByAcked
<1> QED  BY <1>9, <1>13, <1>14

\* A play begins: it owes one end, and is acknowledged.
LEMMA StopsAtPlay ==
    ASSUME TypeOK, TypeOK', Handles, Plays, Stops, StartPlayback
    PROVE  Stops'
<1> USE DEF ownerVars, listenVars
<1> SUFFICES ASSUME overtaken' = {} PROVE EndsOnce' /\ EndsAreAcked' /\ HeldUpByAcked'
  BY DEF Stops
<1>1. PICK h : h = Msg.handle  OBVIOUS
<1>2. PICK s : s = Msg.session  OBVIOUS
<1>3. /\ DOMAIN streams' = DOMAIN streams /\ h \in DOMAIN streams
      /\ \A g \in DOMAIN streams : g # h => streams'[g] = streams[g]
      /\ streams'[h].session = streams[h].session
  BY <1>1, StartedStream
<1>4. /\ Serves("PLAY_REQUEST")
      /\ UNCHANGED <<op, listener, inbound, playStopped>>
      /\ acked' = [acked EXCEPT ![s] = @ + 1]
      /\ EofsOf(h) = {} /\ overtaken = {}
  BY <1>1, <1>2 DEF StartPlayback
<1>5. EndsOnce /\ EndsAreAcked /\ HeldUpByAcked  BY <1>4 DEF Stops
<1>6. NoNewEofAt(1)  BY <1>4, ServesType DEF NoNewEofAt
<1>7. s \in Session /\ h \in Handle /\ streams[h].session = s
  <2>1. Msg \in Message /\ Msg.kind = "PLAY_REQUEST" /\ iocp[1] = Msg /\ 1 \in 1..Len(iocp)
    BY <1>4, ServesType DEF TypeOK, Serves, Msg
  <2>2. s \in Session  BY <1>2, <2>1 DEF Message
  <2>3. h \in Handle  BY <1>3 DEF TypeOK
  <2>4. Names(s, h)  BY <1>1, <1>2, <2>1 DEF Names, IsRequestOf, Request
  <2> QED  BY <1>3, <2>2, <2>3, <2>4 DEF Handles, NamedIsOwn
<1>8. ~HasEof(h) /\ ~HasEof(h)'
  <2>1. ~HasEof(h)  BY <1>4 DEF HasEof, EofsOf
  <2> QED  BY <1>6, <2>1, EofsKept
<1>9. OneEof(h)'  BY <1>8 DEF OneEof, HasEof
<1>10. ASSUME NEW g \in DOMAIN streams', g # h PROVE EndsKept(g)
  BY <1>3, <1>6, <1>10, EofsKept DEF EndsKept
<1>11. EndsOnce'
  <2> SUFFICES ASSUME NEW g \in DOMAIN streams', ~streams'[g].loop
      PROVE  (HasEof(g)' => ~streams'[g].playing) /\ OneEof(g)'
    BY DEF EndsOnce
  <2>1. CASE g # h
    <3>1. EndsKept(g)  BY <1>10, <2>1
    <3> QED  BY <1>5, <3>1 DEF EndsKept, EndsOnce
  <2> QED  BY <1>8, <1>9, <2>1
<1>12. ASSUME NEW t \in Session
       PROVE  /\ Unread(t) \in Nat /\ acked[t] \in Nat /\ Unread(t)' = Unread(t)
              /\ acked'[t] = IF t = s THEN acked[t] + 1 ELSE acked[t]
  <2>1. Unread(t)' = Unread(t)  BY <1>4 DEF Unread
  <2>2. acked'[t] = IF t = s THEN acked[t] + 1 ELSE acked[t]  BY <1>4, <1>7 DEF TypeOK
  <2> QED  BY <2>1, <2>2, UnreadType
<1>13. EndsAreAcked'
  <2>1. ASSUME NEW t \in Session PROVE Unread(t)' <= acked'[t]
    <3>1. Unread(t) <= acked[t]  BY <1>5 DEF EndsAreAcked
    <3> QED  BY <1>12, <3>1
  <2>2. ASSUME NEW g \in DOMAIN streams', OwesEnd(g)', NEW t \in Session, t = streams'[g].session
        PROVE  Unread(t)' < acked'[t]
    <3>1. CASE g = h
      <4>1. t = s /\ Unread(t) <= acked[t]  BY <1>3, <1>5, <1>7, <2>2, <3>1 DEF EndsAreAcked
      <4> QED  BY <1>12, <4>1
    <3>2. CASE g # h
      <4>1. EndsKept(g)  BY <1>10, <3>2
      <4>2. g \in DOMAIN streams /\ streams[g].session = t /\ OwesEnd(g)
        BY <2>2, <4>1 DEF EndsKept, OwesEnd
      <4>3. Unread(t) < acked[t]  BY <1>5, <4>2 DEF EndsAreAcked
      <4> QED  BY <1>12, <4>3
    <3> QED  BY <3>1, <3>2
  <2>3. \A g \in DOMAIN streams' : streams'[g].session \in Session  BY DEF TypeOK, Stream
  <2> QED  BY <2>1, <2>2, <2>3 DEF EndsAreAcked
<1>14. HeldUpByAcked'
  <2> SUFFICES ASSUME NEW t \in Session, listener'[t] = "sending" \/ op'[t] = "joining"
      PROVE  acked'[t] > MAX_MESSAGES_IN_QUEUE
    BY DEF HeldUpByAcked
  <2>1. acked[t] > MAX_MESSAGES_IN_QUEUE  BY <1>4, <1>5 DEF HeldUpByAcked
  <2> QED  BY <1>12, <2>1, BoundsAssumption
<1> QED  BY <1>11, <1>13, <1>14

\* An end is reported: it was owed, and the session has no other stream that
\* owes one.
LEMMA StopsAtReport ==
    ASSUME TypeOK, TypeOK', Handles, Plays, Stops, UponPlaybackStopped, inbound' # inbound
    PROVE  Stops'
<1> USE DEF ownerVars, listenVars, streamerVars, historyVars
<1> SUFFICES ASSUME overtaken = {} PROVE EndsOnce' /\ EndsAreAcked' /\ HeldUpByAcked'
  BY DEF Stops, UponPlaybackStopped
<1>1. EndsOnce /\ EndsAreAcked /\ HeldUpByAcked  BY DEF Stops
<1>2. PICK h : h = Msg.handle  OBVIOUS
<1>3. PICK s : s = streams[h].session  OBVIOUS
<1>4. PICK c : c = streams[h].correlation  OBVIOUS
<1>5. /\ Serves("EOF") /\ UNCHANGED <<op, streams, listener, playStopped, acked>>
      /\ h \in DOMAIN streams /\ ~streams[h].loop
      /\ inbound' = [inbound EXCEPT ![s] = Append(inbound[s], c)]
  BY <1>2, <1>3, <1>4 DEF UponPlaybackStopped, Reported
<1>6. NoNewEofAt(1)  BY <1>5, ServesType DEF NoNewEofAt
<1>7. iocp[1].kind = "EOF" /\ iocp[1].handle = h /\ 1 \in 1..Len(iocp)
  <2>1. Msg.kind = "EOF" /\ iocp[1] = Msg /\ Len(iocp) > 0  BY <1>5, ServesType
  <2>2. Len(iocp) \in Nat  BY DEF TypeOK
  <2> QED  BY <1>2, <2>1, <2>2
<1>8. HasEof(h)  BY <1>7 DEF HasEof
<1>9. c \in Play /\ c # IW_UNDEFINED /\ s \in Session /\ h \in Handle
  <2>1. c \in ended \cup overtaken  BY <1>4, <1>5, <1>7 DEF Plays, ReportedEnds
  <2>2. c \in Play  BY <2>1 DEF TypeOK
  <2>3. s \in Session /\ h \in Handle  BY <1>3, <1>5 DEF TypeOK, Stream
  <2> QED  BY <2>2, <2>3 DEF Play, IW_UNDEFINED
<1>10. OwesEnd(h) /\ ~streams[h].playing /\ OneEof(h)
  BY <1>1, <1>4, <1>5, <1>8, <1>9 DEF OwesEnd, EndsOnce
<1>11. ~HasEof(h)'
  <2> SUFFICES ASSUME NEW i \in 1..Len(iocp'), iocp'[i].kind = "EOF", iocp'[i].handle = h
      PROVE  FALSE
    BY DEF HasEof
  <2>1. i + 1 \in 1..Len(iocp) /\ iocp[i + 1].kind = "EOF" /\ iocp[i + 1].handle = h
    BY <1>6 DEF NoNewEofAt
  <2>2. i + 1 = 1  BY <1>7, <1>10, <2>1 DEF OneEof
  <2> QED  BY <2>2
<1>12. \A g : (HasEof(g)' => HasEof(g)) /\ (OneEof(g) => OneEof(g)')  BY <1>6, EofsKept
<1>13. EndsOnce'
  <2> SUFFICES ASSUME NEW g \in DOMAIN streams', ~streams'[g].loop
      PROVE  (HasEof(g)' => ~streams'[g].playing) /\ OneEof(g)'
    BY DEF EndsOnce
  <2> QED  BY <1>1, <1>5, <1>12 DEF EndsOnce
<1>14. ASSUME NEW t \in Session
       PROVE  /\ Unread(t) \in Nat /\ acked[t] \in Nat
              /\ Unread(t)' = IF t = s THEN Unread(t) + 1 ELSE Unread(t)
  <2>1. Len(inbound[t]) \in Nat /\ Len(playStopped[t]) \in Nat /\ Unread(t) \in Nat /\ acked[t] \in Nat
    BY UnreadType
  <2>2. inbound[t] \in Seq(Play) /\ inbound'[t] = IF t = s THEN Append(inbound[t], c) ELSE inbound[t]
    BY <1>5, <1>9 DEF TypeOK
  <2>3. Len(inbound'[t]) = IF t = s THEN Len(inbound[t]) + 1 ELSE Len(inbound[t])
    BY <1>9, <2>2, AppendProperties
  <2>4. playStopped'[t] = playStopped[t]  BY <1>5
  <2>5. Unread(t)' = Len(playStopped[t]) + Len(inbound'[t])  BY <2>4 DEF Unread
  <2>6. Unread(t) = Len(playStopped[t]) + Len(inbound[t])  BY DEF Unread
  <2>7. \A m, n \in Nat : m + (n + 1) = (m + n) + 1  OBVIOUS
  <2>8. CASE t = s
    <3>1. Len(inbound'[t]) = Len(inbound[t]) + 1  BY <2>3, <2>8, Zenon
    <3>2. Len(playStopped[t]) + (Len(inbound[t]) + 1) = (Len(playStopped[t]) + Len(inbound[t])) + 1
      BY <2>1, <2>7, Zenon
    <3>3. Unread(t)' = Unread(t) + 1  BY <2>5, <2>6, <3>1, <3>2, Zenon
    <3> QED  BY <2>1, <2>8, <3>3
  <2>9. CASE t # s
    <3>1. Unread(t)' = Unread(t)  BY <2>3, <2>5, <2>6, <2>9, Zenon
    <3> QED  BY <2>1, <2>9, <3>1
  <2> QED  BY <2>8, <2>9
<1>15. EndsAreAcked'
  <2>1. ASSUME NEW t \in Session PROVE Unread(t)' <= acked'[t]
    <3>1. Unread(t) <= acked[t]  BY <1>1 DEF EndsAreAcked
    <3>2. t = s => Unread(t) < acked[t]  BY <1>1, <1>3, <1>5, <1>10 DEF EndsAreAcked
    <3> QED  BY <1>5, <1>14, <3>1, <3>2
  <2>2. ASSUME NEW g \in DOMAIN streams', OwesEnd(g)', NEW t \in Session, t = streams'[g].session
        PROVE  Unread(t)' < acked'[t]
    <3>1. g \in DOMAIN streams /\ streams[g].session = t /\ streams[g].correlation # IW_UNDEFINED
          /\ OwesEnd(g)
      BY <1>5, <1>12, <2>2 DEF OwesEnd
    <3>2. g # h  BY <1>5, <1>10, <1>11, <2>2 DEF OwesEnd
    <3>3. t # s
      <4> SUFFICES ASSUME t = s PROVE FALSE  OBVIOUS
      <4>1. g \in Handle /\ Names(s, g) /\ Names(s, h)
        BY <1>3, <1>4, <1>5, <1>9, <3>1 DEF Names, TypeOK
      <4> QED  BY <1>9, <3>2, <4>1 DEF Handles, NamesOne
    <3>4. Unread(t) < acked[t]  BY <1>1, <3>1 DEF EndsAreAcked
    <3> QED  BY <1>5, <1>14, <3>3, <3>4
  <2>3. \A g \in DOMAIN streams' : streams'[g].session \in Session  BY DEF TypeOK, Stream
  <2> QED  BY <2>1, <2>2, <2>3 DEF EndsAreAcked
<1>16. HeldUpByAcked'  BY <1>1, <1>5 DEF HeldUpByAcked
<1> QED  BY <1>13, <1>15, <1>16

LEMMA StopsStep ==
    ASSUME TypeOK, TypeOK', Handles, Plays, Stops, Next PROVE Stops'
<1> USE DEF ownerVars, listenVars, hangupVars, streamerVars, historyVars
<1>1. ASSUME UNCHANGED streams PROVE StreamsAsBefore  BY <1>1 DEF StreamsAsBefore
<1>2. ASSUME NEW s \in Session, NEW kind \in Request, NEW flag \in BOOLEAN,
             ToStreamer(Req(s, kind, flag))
      PROVE  NoNewEofAt(0)
  <2> DEFINE m == Req(s, kind, flag)
  <2>1. m \in Message /\ m.kind = kind /\ kind # "EOF"  BY ReqType DEF Request
  <2> HIDE DEF m
  <2>2. \A i \in 1..Len(iocp') : (i \in 1..Len(iocp) /\ iocp'[i] = iocp[i]) \/ iocp'[i] = m
    BY <1>2, <2>1, SendShape DEF m
  <2>3. \A i \in 1..Len(iocp) : i + 0 = i  OBVIOUS
  <2> QED  BY <2>1, <2>2, <2>3 DEF NoNewEofAt
<1>3. ASSUME NEW k, Serves(k) PROVE NoNewEofAt(1)  BY <1>3, ServesType DEF NoNewEofAt
<1>4. ASSUME UNCHANGED iocp PROVE NoNewEofAt(0)
  <2>1. \A i \in 1..Len(iocp) : i + 0 = i  OBVIOUS
  <2> QED  BY <1>4, <2>1 DEF NoNewEofAt
<1>5. ASSUME UNCHANGED <<inbound, playStopped>>
      PROVE  \A s \in Session : Unread(s)' <= Unread(s)
  <2>1. \A s \in Session : Unread(s)' = Unread(s)  BY <1>5 DEF Unread
  <2> QED  BY <2>1, UnreadType
<1>6. ASSUME UNCHANGED acked,
             \A s \in Session : listener'[s] = "sending" \/ op'[s] = "joining" =>
                                    listener[s] = "sending" \/ op[s] = "joining"
      PROVE  HeldUpByAcked => HeldUpByAcked'
  BY <1>6 DEF HeldUpByAcked
<1>7. ASSUME UNCHANGED streams, NoNewEofAt(0), UNCHANGED <<overtaken, acked>>,
             \A s \in Session : Unread(s)' <= Unread(s),
             \A s \in Session : listener'[s] = "sending" \/ op'[s] = "joining" =>
                                    listener[s] = "sending" \/ op[s] = "joining"
      PROVE  Stops'
  <2>1. \A h \in DOMAIN streams' : EndsKept(h)  BY <1>1, <1>7, EndsAsBefore
  <2> QED  BY <1>6, <1>7, <2>1, StopsKept
<1>8. ASSUME NEW s \in Session, Allocate(s) \/ ModifyConnection(s) \/ PlayFile(s) PROVE Stops'
  <2>1. {"ALLOCATE_SESSION_REQ", "MODIFY_REQ", "PLAY_REQUEST"} \subseteq Request  BY DEF Request
  <2>2. NoNewEofAt(0)  BY <1>2, <1>8, <2>1 DEF Allocate, ModifyConnection, PlayFile, Ask
  <2>3. /\ UNCHANGED <<streams, overtaken, acked, inbound, playStopped, listener>>
        /\ \E o \in TxnOp : op' = [op EXCEPT ![s] = IF streamerUp THEN o ELSE "idle"]
    BY <1>8 DEF Allocate, ModifyConnection, PlayFile, Ask, TxnOp
  <2>4. \A t \in Session : op'[t] = "joining" => op[t] = "joining"  BY <2>3 DEF TypeOK, TxnOp
  <2> QED  BY <1>5, <1>7, <2>2, <2>3, <2>4
<1>9. ASSUME NEW s \in Session,
             AllocateAck(s) \/ Answered(s) \/ TimedOut(s) \/ PlayAck(s) \/ PlayGivesUp(s)
             \/ InterruptWithHangup(s)
      PROVE  Stops'
  <2>1. UNCHANGED <<streams, iocp, inbound, playStopped, overtaken, acked>>
    BY <1>9 DEF AllocateAck, Answered, TimedOut, PlayAck, PlayGivesUp, InterruptWithHangup
  <2>2. /\ listener' \in {listener, [listener EXCEPT ![s] = "waiting"]}
        /\ op' \in {op, [op EXCEPT ![s] = "idle"], [op EXCEPT ![s] = "WaitStopped"]}
    BY <1>9 DEF AllocateAck, Answered, TimedOut, Expired, PlayAck, PlayGivesUp, InterruptWithHangup
  <2>3. \A t \in Session : /\ op'[t] = "joining" => op[t] = "joining"
                           /\ listener'[t] = "sending" => listener[t] = "sending"
    BY <2>2 DEF TypeOK
  <2> QED  BY <1>4, <1>5, <1>7, <2>1, <2>3
<1>10. ASSUME NEW s \in Session, PlayStopped(s) PROVE Stops'
  <2>1. /\ UNCHANGED <<streams, iocp, inbound, listener, overtaken, acked>>
        /\ playStopped' = [playStopped EXCEPT ![s] = Tail(playStopped[s])] /\ playStopped[s] # <<>>
        /\ op' \in {op, [op EXCEPT ![s] = "idle"]}
    BY <1>10 DEF PlayStopped
  <2>2. \A t \in Session : op'[t] = "joining" => op[t] = "joining"  BY <2>1 DEF TypeOK
  <2>3. ASSUME NEW t \in Session PROVE Unread(t)' <= Unread(t)
    <3>1. playStopped'[t] = IF t = s THEN Tail(playStopped[s]) ELSE playStopped[t]
      BY <2>1 DEF TypeOK
    <3>2. playStopped[s] \in Seq(Play)  BY DEF TypeOK
    <3>3. Len(Tail(playStopped[s])) \in Nat /\ Len(Tail(playStopped[s])) <= Len(playStopped[s])
      BY <2>1, <3>2
    <3>4. Len(playStopped'[t]) \in Nat /\ Len(playStopped'[t]) <= Len(playStopped[t])
      BY <3>1, <3>3, UnreadType
    <3>5. \A m, n, o \in Nat : m <= n => m + o <= n + o  OBVIOUS
    <3>6. Len(playStopped'[t]) + Len(inbound[t]) <= Len(playStopped[t]) + Len(inbound[t])
      BY <3>4, <3>5, UnreadType, Zenon
    <3> QED  BY <2>1, <3>6 DEF Unread
  <2> QED  BY <1>4, <1>7, <2>1, <2>2, <2>3
<1>11. ASSUME NEW s \in Session, StopPlay(s) PROVE Stops'
  <2>1. NoNewEofAt(0)  BY <1>2, <1>11 DEF StopPlay, Request
  <2> QED  BY <1>5, <1>7, <1>11, <2>1 DEF StopPlay
<1>12. ASSUME NEW s \in Session, TearDownEffect(s) PROVE NoNewEofAt(0)
  BY <1>2, <1>4, <1>12 DEF TearDownEffect, Request
<1>13. ASSUME NEW s \in Session, TearDown(s) PROVE Stops'
  <2>1. NoNewEofAt(0)  BY <1>12, <1>13 DEF TearDown
  <2> QED  BY <1>5, <1>7, <1>13, <2>1 DEF TearDown
<1>14. ASSUME NEW s \in Session, Delete(s) PROVE Stops'
  <2>1. NoNewEofAt(0) /\ UNCHANGED <<streams, overtaken, acked>>  BY <1>4, <1>12, <1>14 DEF Delete
  <2>2. CASE op' = [op EXCEPT ![s] = "joining"] /\ listener[s] = "sending" /\ UNCHANGED listenVars
    <3>1. \A t \in Session : listener'[t] = "sending" \/ op'[t] = "joining" =>
                                listener[t] = "sending" \/ op[t] = "joining"
      BY <2>2 DEF TypeOK
    <3> QED  BY <1>5, <1>7, <2>1, <2>2, <3>1
  <2>3. CASE /\ op' = [op EXCEPT ![s] = "deleted"]
             /\ listener' = [listener EXCEPT ![s] = "none"]
             /\ inbound' = [inbound EXCEPT ![s] = <<>>]
             /\ playStopped' = [playStopped EXCEPT ![s] = <<>>]
    <3>1. \A t \in Session : listener'[t] = "sending" \/ op'[t] = "joining" =>
                                listener[t] = "sending" \/ op[t] = "joining"
      BY <2>3 DEF TypeOK
    <3>2. ASSUME NEW t \in Session PROVE Unread(t)' <= Unread(t)
      <4>1. CASE t = s
        <5>1. playStopped'[t] = <<>> /\ inbound'[t] = <<>>  BY <2>3, <4>1 DEF TypeOK
        <5>2. Len(<<>>) = 0 /\ 0 + 0 = 0  OBVIOUS
        <5>3. Unread(t)' = 0  BY <5>1, <5>2 DEF Unread
        <5> QED  BY <5>3, UnreadType
      <4>2. CASE t # s
        <5>1. playStopped'[t] = playStopped[t] /\ inbound'[t] = inbound[t]
          BY <2>3, <4>2 DEF TypeOK
        <5>2. Unread(t)' = Unread(t)  BY <5>1 DEF Unread
        <5> QED  BY <5>2, UnreadType
      <4> QED  BY <4>1, <4>2
    <3> QED  BY <1>7, <2>1, <3>1, <3>2
  <2> QED  BY <1>14, <2>2, <2>3 DEF Delete
<1>15. ASSUME NEW s \in Session, UponActiveObjectEvent(s) PROVE Stops'
  <2>1. NoNewEofAt(0) /\ UNCHANGED <<streams, overtaken, acked, op>>
    BY <1>4, <1>15 DEF UponActiveObjectEvent
  <2>2. CASE /\ playStopped' = [playStopped EXCEPT ![s] = Append(playStopped[s], Head(inbound[s]))]
             /\ inbound' = [inbound EXCEPT ![s] = Tail(inbound[s])]
             /\ listener' = [listener EXCEPT ![s] = "waiting"]
    <3>1. \A t \in Session : listener'[t] = "sending" => listener[t] = "sending"
      BY <2>2 DEF TypeOK
    <3>2. ASSUME NEW t \in Session PROVE Unread(t)' <= Unread(t)
      <4>1. CASE t = s
        <5>1. /\ playStopped'[t] = Append(playStopped[t], Head(inbound[t]))
              /\ inbound'[t] = Tail(inbound[t])
              /\ inbound[t] \in Seq(Play) /\ inbound[t] # <<>> /\ playStopped[t] \in Seq(Play)
          BY <1>15, <2>2, <4>1 DEF UponActiveObjectEvent, TypeOK
        <5>2. Len(playStopped'[t]) = Len(playStopped[t]) + 1  BY <5>1
        <5>3. Len(inbound'[t]) = Len(inbound[t]) - 1  BY <5>1
        <5>4. \A m, n \in Nat : (m + 1) + (n - 1) = m + n  OBVIOUS
        <5>5. Len(playStopped'[t]) + Len(inbound'[t]) = Len(playStopped[t]) + Len(inbound[t])
          BY <5>2, <5>3, <5>4, UnreadType, Zenon
        <5>6. Unread(t)' = Unread(t)  BY <5>5 DEF Unread
        <5> QED  BY <5>6, UnreadType
      <4>2. CASE t # s
        <5>1. playStopped'[t] = playStopped[t] /\ inbound'[t] = inbound[t]
          BY <2>2, <4>2 DEF TypeOK
        <5>2. Unread(t)' = Unread(t)  BY <5>1 DEF Unread
        <5> QED  BY <5>2, UnreadType
      <4> QED  BY <4>1, <4>2
    <3> QED  BY <1>7, <2>1, <3>1, <3>2
  <2>3. CASE /\ Full(s) /\ UNCHANGED <<inbound, playStopped>>
             /\ listener' = [listener EXCEPT ![s] = "sending"]
    <3>1. \A h \in DOMAIN streams' : EndsKept(h)  BY <1>1, <2>1, EndsAsBefore
    <3>2. CASE overtaken # {}  BY <2>1, <3>2 DEF Stops
    <3>3. CASE overtaken = {}
      <4>1. Unread(s) <= acked[s] /\ HeldUpByAcked  BY <3>3 DEF Stops, EndsAreAcked
      <4>2. Len(inbound[s]) > 0
        <5>1. inbound[s] \in Seq(Play) /\ inbound[s] # <<>>
          BY <1>15 DEF UponActiveObjectEvent, TypeOK
        <5> QED  BY <5>1
      <4>3. Len(playStopped[s]) >= MAX_MESSAGES_IN_QUEUE  BY <2>3 DEF Full
      <4>4. \A m, n, o, x \in Nat : m >= x /\ n > 0 /\ m + n <= o => o > x  OBVIOUS
      <4>5. Len(playStopped[s]) + Len(inbound[s]) <= acked[s]  BY <4>1 DEF Unread
      <4>6. acked[s] > MAX_MESSAGES_IN_QUEUE
        BY <4>2, <4>3, <4>4, <4>5, UnreadType, BoundsAssumption, Zenon
      <4>7. HeldUpByAcked'
        <5>1. \A t \in Session : listener'[t] = "sending" => t = s \/ listener[t] = "sending"
          BY <2>3 DEF TypeOK
        <5> QED  BY <2>1, <4>1, <4>6, <5>1 DEF HeldUpByAcked
      <4> QED  BY <1>5, <2>1, <2>3, <3>1, <4>7, StopsKept
    <3> QED  BY <3>2, <3>3
  <2> QED  BY <1>15, <2>2, <2>3 DEF UponActiveObjectEvent
<1>16. CASE AllocatePlaybackSession
  <2>1. /\ NoNewEofAt(1) /\ UNCHANGED <<overtaken, acked, op, listener, inbound, playStopped>>
    BY <1>3, <1>16 DEF AllocatePlaybackSession
  <2>2. ASSUME NEW h \in DOMAIN streams' PROVE EndsKept(h) \/ NothingOwed(h)'
    <3> DEFINE n == handleCounter + 1
    <3>1. (HasEof(h)' => HasEof(h)) /\ (OneEof(h) => OneEof(h)')  BY <2>1, EofsKept
    <3>2. CASE h \in DOMAIN streams /\ streams'[h] = streams[h]  BY <3>1, <3>2 DEF EndsKept
    <3>3. CASE h = n /\ ~streams'[n].playing
      <4>1. handleCounter \in Nat  BY BoundsAssumption DEF TypeOK
      <4>2. \A i \in 1..Len(iocp) : iocp[i].kind = "EOF" => iocp[i].handle # n
        BY <4>1 DEF Handles, HandedOut
      <4>3. ~HasEof(h)'  BY <3>1, <3>3, <4>2 DEF HasEof
      <4>4. OneEof(h)'  BY <4>3 DEF OneEof, HasEof
      <4> QED  BY <3>3, <4>3, <4>4 DEF NothingOwed
    <3> QED  BY <1>16, <3>2, <3>3, AllocatedStream
  <2>3. HeldUpByAcked => HeldUpByAcked'  BY <1>6, <2>1
  <2> QED  BY <1>5, <2>1, <2>2, <2>3, StopsKept
<1>17. CASE ModifySession \/ StartPlaybackRefused \/ StopPlayback \/ UponTearDown
  <2>1. StreamsAsBefore  BY <1>17, HandlersKeepStreams
  <2>2. NoNewEofAt(1)
    BY <1>3, <1>17 DEF ModifySession, StartPlaybackRefused, StopPlayback, UponTearDown
  <2>3. UNCHANGED <<inbound, playStopped, op, listener, acked, overtaken>>
    BY <1>17 DEF ModifySession, StartPlaybackRefused, StopPlayback, UponTearDown
  <2>4. \A h \in DOMAIN streams' : EndsKept(h)  BY <2>1, <2>2, EndsAsBefore
  <2>5. HeldUpByAcked => HeldUpByAcked'  BY <1>6, <2>3
  <2> QED  BY <1>5, <2>3, <2>4, <2>5, StopsKept
<1>18. CASE UponPlaybackStopped /\ UNCHANGED inbound
  <2>1. NoNewEofAt(1) /\ UNCHANGED <<streams, inbound, playStopped, op, listener, acked, overtaken>>
    BY <1>3, <1>18 DEF UponPlaybackStopped
  <2>2. \A h \in DOMAIN streams' : EndsKept(h)  BY <1>1, <2>1, EndsAsBefore
  <2>3. HeldUpByAcked => HeldUpByAcked'  BY <1>6, <2>1
  <2> QED  BY <1>5, <2>1, <2>2, <2>3, StopsKept
<1>19. CASE Shutdown
  <2>1. DOMAIN streams' = {} /\ UNCHANGED <<inbound, playStopped, op, listener, acked, overtaken>>
    BY <1>19 DEF Shutdown
  <2>2. HeldUpByAcked => HeldUpByAcked'  BY <1>6, <2>1
  <2> QED  BY <1>5, <2>1, <2>2, StopsKept
<1> QED
  BY <1>8, <1>9, <1>10, <1>11, <1>13, <1>14, <1>15, <1>16, <1>17, <1>18, <1>19,
     StopsAtEof, StopsAtPlay, StopsAtReport
     DEF Next, Owner, Streamer

\* A destructor waits for its listener only behind more plays than
\* _playStoppedHandle has places, unless a play overtook an older EOF: every end
\* that is reported stands for a play of its own.
THEOREM JoinOnlyBehind == Spec => []JoinOnlyBehindUnreadStops
<1>1. Stops => JoinOnlyBehindUnreadStops
  BY DEF Stops, HeldUpByAcked, JoinOnlyBehindUnreadStops
<1>2. Core /\ Core' /\ Stops /\ [Next]_vars => Stops'
  <2> SUFFICES ASSUME Core, Core', Stops, [Next]_vars PROVE Stops'  OBVIOUS
  <2>1. CASE Next  BY <2>1, StopsStep DEF Core
  <2>2. CASE UNCHANGED vars
    <3>1. UNCHANGED <<op, listener, inbound, playStopped, iocp, streams, acked, overtaken>>
      BY <2>2 DEF vars, ownerVars, listenVars, streamerVars, historyVars
    <3>2. EndsOnce => EndsOnce'  BY <3>1 DEF EndsOnce, HasEof, OneEof
    <3>3. EndsAreAcked => EndsAreAcked'  BY <3>1 DEF EndsAreAcked, OwesEnd, HasEof, Unread
    <3>4. HeldUpByAcked => HeldUpByAcked'  BY <3>1 DEF HeldUpByAcked
    <3> QED  BY <3>1, <3>2, <3>3, <3>4 DEF Stops
  <2> QED  BY <2>1, <2>2
<1> QED  BY <1>1, <1>2, StopsInit, CoreInvariant, PTL DEF Spec
=============================================================================

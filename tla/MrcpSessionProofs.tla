------------------------- MODULE MrcpSessionProofs -------------------------
(***************************************************************************)
(* Proofs about MrcpSession, for any sessions, queue size and bounds: type *)
(* correctness, that a transaction is answered with a message of its own   *)
(* kind, and that a UniMRCP session is not used or destroyed after its     *)
(* destruction but in the two cases the handlers leave open.               *)
(***************************************************************************)
EXTENDS MrcpSession, SequenceTheorems, TLAPS

-----------------------------------------------------------------------------
(* Types, finer than TypeOK: what stands on the port, and in a response.   *)

TxnReq == [kind : TxnOp, session : Session, txn : 1..MaxTxn,
           handle : Handle \cup {IW_UNDEFINED}, rsc : Resource]
TearDownReq == [kind : {"TearDown"}, session : Session, txn : 1..(MaxTxn + 1),
                handle : Handle \cup {IW_UNDEFINED}, rsc : Resource]
AddEvt == [kind : {"CHANNEL_ADD_EVT"}, handle : Handle, status : Status]
EndEvt == [kind : {"TERMINATE_EVT", "TERMINATE_RSP"}, handle : Handle]
AnswerEvt == [kind : {"MESSAGE_RECEIVE_EVT"}, handle : Handle, id : RequestId,
              method : Method, ok : BOOLEAN, complete : {FALSE}]
CompleteEvt == [kind : {"MESSAGE_RECEIVE_EVT"}, handle : Handle, id : RequestId,
                method : Completion, ok : BOOLEAN, complete : {TRUE}]
Posted == TxnReq \cup TearDownReq \cup AddEvt \cup EndEvt \cup AnswerEvt \cup CompleteEvt

Context == [session : Session, state : {"CONNECTING", "ALLOCATED"},
            channels : SUBSET Resource, last_message : RequestId \cup {IW_UNDEFINED},
            last_user_request : [session : Session, txn : 1..MaxTxn]]
Response == {r \in [op : TxnOp, ack : BOOLEAN, value : Nat] :
                r.op = "Allocate" /\ r.ack => r.value \in Handle}
Pending == {p \in [handle : Handle, id : RequestId, method : Method, active : BOOLEAN] :
               p.active => p.method \in Completion}

OwnerTyped ==
    /\ op \in [Session -> Op]
    /\ mrcpHandle \in [Session -> Handle \cup {IW_UNDEFINED}]
    /\ sync \in [Session -> BOOLEAN]
    /\ correlation \in [Session -> Nat]
    /\ txn \in [Session -> 0..MaxTxn]
    /\ response \in [Session -> Seq(Response)]
    /\ \A s \in Session : Len(response[s]) <= 1
ListenTyped ==
    /\ listener \in [Session -> {"none", "waiting", "sending"}]
    /\ inbound \in [Session -> Seq([method : Completion, id : RequestId])]
    /\ stopped \in [Session -> [Completion -> Seq(RequestId)]]
    /\ \A s \in Session, c \in Completion : Len(stopped[s][c]) <= MAX_MESSAGES_IN_QUEUE
ServerTyped ==
    /\ iocp \in Seq(Posted)
    /\ DOMAIN ctxs \subseteq Handle
    /\ \A h \in DOMAIN ctxs : ctxs[h] \in Context
    /\ handleCounter \in 0..MaxHandles
    /\ up \in BOOLEAN
ClientTyped ==
    /\ adding \subseteq Handle \X Resource
    /\ pending \subseteq Pending
    /\ lastRequestId \in Nat
    /\ live \subseteq Handle /\ terminating \subseteq Handle
HistoryTyped ==
    /\ destroyed \subseteq Handle /\ misused \subseteq Handle
    /\ taken \subseteq Handle /\ overlapped \subseteq Handle /\ broken \subseteq Handle
Typed == OwnerTyped /\ ListenTyped /\ ServerTyped /\ ClientTyped /\ HistoryTyped

-----------------------------------------------------------------------------
(* Channels that are being added, and sessions that are being terminated,  *)
(* from the call of UniMRCP until its event is served; and what follows    *)
(* from that for the handle of a context.                                  *)

AddPosted(i, h) == iocp[i].kind = "CHANNEL_ADD_EVT" /\ iocp[i].handle = h
Adding(h) == \/ \E a \in adding : a[1] = h
             \/ \E i \in 1..Len(iocp) : AddPosted(i, h)
AddsOnce(h) ==
    /\ \A a, b \in adding : a[1] = h /\ b[1] = h => a = b
    /\ \A i, j \in 1..Len(iocp) : AddPosted(i, h) /\ AddPosted(j, h) => i = j
    /\ \A a \in adding, i \in 1..Len(iocp) : ~(a[1] = h /\ AddPosted(i, h))

EndPosted(i, h) == iocp[i].kind = "TERMINATE_RSP" /\ iocp[i].handle = h
Ending(h) == h \in terminating \/ \E i \in 1..Len(iocp) : EndPosted(i, h)
EndsOnce(h) ==
    /\ \A i, j \in 1..Len(iocp) : EndPosted(i, h) /\ EndPosted(j, h) => i = j
    /\ \A i \in 1..Len(iocp) : ~(h \in terminating /\ EndPosted(i, h))

\* The session has been told the handle, or is about to be.
Acked(s, h) == /\ response[s] # <<>> /\ response[s][1].op = "Allocate"
               /\ response[s][1].ack /\ response[s][1].value = h
Told(h) == h \in taken \/ \E s \in Session : Acked(s, h)

\* Nothing is known of a handle that GetNewMrcpHandle has not given out.
Fresh(h) == ~Adding(h) /\ ~Ending(h) /\ ~Told(h) /\ h \notin DOMAIN ctxs /\ h \notin destroyed
NewOf(h) == h > handleCounter => Fresh(h)

\* A session names what it was told.
IsRequest(m) == m.kind \in TxnOp \cup {"TearDown"}
Named ==
    /\ \A s \in Session : mrcpHandle[s] # IW_UNDEFINED => mrcpHandle[s] \in taken
    /\ \A i \in 1..Len(iocp) : IsRequest(iocp[i]) /\ iocp[i].handle # IW_UNDEFINED
                                  => iocp[i].handle \in taken

\* A context whose channel is being added is CONNECTING.  Once its first channel is
\* there only the second one can be.
ChannelsOf(h) ==
    h \in DOMAIN ctxs =>
        /\ ctxs[h].channels # {}
        /\ Adding(h) => ctxs[h].state = "CONNECTING"
        /\ Told(h) /\ Adding(h) => ctxs[h].channels = Resource

-----------------------------------------------------------------------------
(* Requests and their kinds.                                               *)

\* A transaction that still takes a response.
Open(r) == op[r.session] \in TxnOp /\ txn[r.session] = r.txn /\ response[r.session] = <<>>

AskedOfKind ==
    \A i \in 1..Len(iocp) : iocp[i].kind \in TxnOp =>
        /\ iocp[i].txn <= txn[iocp[i].session]
        /\ Open(iocp[i]) => op[iocp[i].session] = iocp[i].kind

\* Whom UniMRCP's events about a context are answered to.
UserOfKind(h) ==
    LET r == ctxs[h].last_user_request
    IN  /\ r.txn <= txn[r.session]
        /\ Open(r) =>
             /\ ctxs[h].state = "CONNECTING" => op[r.session] = "Allocate"
             /\ \A p \in pending : p.handle = h /\ p.id = ctxs[h].last_message
                    => op[r.session] = OpOf(p.method)
             /\ \A i \in 1..Len(iocp) :
                    /\ iocp[i].kind = "MESSAGE_RECEIVE_EVT"
                    /\ iocp[i].handle = h /\ iocp[i].id = ctxs[h].last_message
                    => op[r.session] = OpOf(iocp[i].method)
IdsInOrder ==
    /\ \A p \in pending : p.id <= lastRequestId
    /\ \A i \in 1..Len(iocp) : iocp[i].kind = "MESSAGE_RECEIVE_EVT" => iocp[i].id <= lastRequestId

OfKind == /\ ResponseOfItsKind /\ AskedOfKind /\ IdsInOrder
          /\ \A h \in DOMAIN ctxs : UserOfKind(h)

-----------------------------------------------------------------------------
(* Destruction.                                                            *)

Excused(h) == h \in overlapped \cup broken
EndOf(h) ==
    /\ h \in DOMAIN ctxs => ~Ending(h)
    /\ EndsOnce(h)
    /\ Ending(h) /\ Adding(h) => h \in overlapped
    /\ h \in destroyed /\ ~Excused(h) => h \notin DOMAIN ctxs /\ ~Ending(h) /\ ~Adding(h)

HandleOK(h) == NewOf(h) /\ ChannelsOf(h) /\ AddsOnce(h) /\ EndOf(h)
Contexts == Named /\ DestroyedOnce /\ \A h \in Handle : HandleOK(h)

Inv == Typed /\ OfKind /\ Contexts

-----------------------------------------------------------------------------
(* The port.                                                               *)

LEMMA PostedFields ==
    ASSUME NEW m \in Posted
    PROVE  /\ m.kind \in TxnOp => m \in TxnReq
           /\ m.kind = "TearDown" => m \in TearDownReq
           /\ m.kind = "CHANNEL_ADD_EVT" => m \in AddEvt
           /\ m.kind \in {"TERMINATE_EVT", "TERMINATE_RSP"} => m \in EndEvt
           /\ m.kind = "MESSAGE_RECEIVE_EVT" => m \in AnswerEvt \cup CompleteEvt
           /\ m.handle \in Handle \cup {IW_UNDEFINED}
           /\ ~IsRequest(m) => m.handle \in Handle
<1>1. CASE m \in TxnReq  BY <1>1 DEF TxnReq, TxnOp, IsRequest
<1>2. CASE m \in TearDownReq  BY <1>2 DEF TearDownReq, TxnOp, IsRequest
<1>3. CASE m \in AddEvt  BY <1>3 DEF AddEvt, TxnOp, IsRequest
<1>4. CASE m \in EndEvt  BY <1>4 DEF EndEvt, TxnOp, IsRequest
<1>5. CASE m \in AnswerEvt \cup CompleteEvt  BY <1>5 DEF AnswerEvt, CompleteEvt, TxnOp, IsRequest
<1> QED  BY <1>1, <1>2, <1>3, <1>4, <1>5 DEF Posted

\* A step takes k messages from the port's head, or puts m to its end.
PortFrom(k, m) ==
    /\ iocp' \in Seq(Posted)
    /\ \A i \in 1..Len(iocp') :
          \/ i + k \in 1..Len(iocp) /\ iocp'[i] = iocp[i + k]
          \/ k = 0 /\ i = Len(iocp) + 1 /\ iocp'[i] = m

LEMMA ServesPort ==
    ASSUME Typed, NEW kind, Serves(kind)
    PROVE  /\ Msg \in Posted /\ Msg = iocp[1] /\ Msg.kind = kind /\ 1 \in 1..Len(iocp)
           /\ \A m : PortFrom(1, m)
           /\ iocp' \in Seq(Posted)
           /\ \A i \in 1..Len(iocp') : i + 1 \in 2..Len(iocp) /\ iocp'[i] = iocp[i + 1]
           /\ up
<1>1. PICK q : q = iocp  OBVIOUS
<1>2. q \in Seq(Posted) /\ q # <<>> /\ iocp' = Tail(q) /\ Msg = Head(q) /\ Msg.kind = kind /\ up
  BY <1>1 DEF Typed, ServerTyped, Serves, Msg
<1>3. Len(q) \in Nat /\ Len(q) > 0  BY <1>2, EmptySeq, LenProperties
<1>4. Head(q) = q[1] /\ q[1] \in Posted /\ Tail(q) \in Seq(Posted) /\ Len(Tail(q)) = Len(q) - 1
  BY <1>2, <1>3, HeadTailProperties, ElementOfSeq
<1>5. \A i \in 1..Len(Tail(q)) : Tail(q)[i] = q[i + 1]  BY <1>2, HeadTailProperties
<1>6. \A i \in 1..Len(Tail(q)) : i + 1 \in 2..Len(q) /\ i + 1 \in 1..Len(q)  BY <1>3, <1>4
<1> QED  BY <1>1, <1>2, <1>3, <1>4, <1>5, <1>6 DEF PortFrom

LEMMA PostPort ==
    ASSUME Typed, NEW m \in Posted, Post(m)
    PROVE  PortFrom(0, m)
<1>1. PICK q : q = iocp  OBVIOUS
<1>2. q \in Seq(Posted) /\ iocp' = Append(q, m)  BY <1>1 DEF Typed, ServerTyped, Post
<1>3. Len(q) \in Nat  BY <1>2, LenProperties
<1>4. /\ Append(q, m) \in Seq(Posted) /\ Len(Append(q, m)) = Len(q) + 1
      /\ Append(q, m)[Len(q) + 1] = m /\ \A i \in 1..Len(q) : Append(q, m)[i] = q[i]
  BY <1>2, AppendProperties
<1>5. \A i \in 1..(Len(q) + 1) : i + 0 = i /\ (i \in 1..Len(q) \/ i = Len(q) + 1)  BY <1>3
<1> QED  BY <1>1, <1>2, <1>4, <1>5 DEF PortFrom

LEMMA SamePort ==
    ASSUME Typed, iocp' = iocp, NEW m
    PROVE  PortFrom(0, m)
<1>1. iocp \in Seq(Posted)  BY DEF Typed, ServerTyped
<1>2. \A i \in 1..Len(iocp) : i + 0 = i  BY <1>1, LenProperties
<1> QED  BY <1>1, <1>2 DEF PortFrom

LEMMA EmptyPort ==
    ASSUME iocp' = <<>>, NEW k, NEW m
    PROVE  PortFrom(k, m)
BY DEF PortFrom

LEMMA ToServerPort ==
    ASSUME Typed, NEW m \in Posted, ToServer(m)
    PROVE  PortFrom(0, m)
<1>1. CASE up  BY <1>1, PostPort DEF ToServer, Post
<1>2. CASE ~up  BY <1>2, SamePort DEF ToServer
<1> QED  BY <1>1, <1>2

LEMMA ReqPosted ==
    ASSUME Typed, NEW s \in Session, NEW rsc \in Resource
    PROVE  /\ \A o \in TxnOp : txn[s] < MaxTxn => Req(s, o, rsc) \in TxnReq
           /\ Req(s, "TearDown", rsc) \in TearDownReq
           /\ \A o : /\ Req(s, o, rsc).kind = o /\ Req(s, o, rsc).session = s
                     /\ Req(s, o, rsc).txn = txn[s] + 1 /\ Req(s, o, rsc).handle = mrcpHandle[s]
<1>1. txn[s] \in 0..MaxTxn /\ mrcpHandle[s] \in Handle \cup {IW_UNDEFINED}
  BY DEF Typed, OwnerTyped
<1>2. txn[s] + 1 \in 1..(MaxTxn + 1) /\ (txn[s] < MaxTxn => txn[s] + 1 \in 1..MaxTxn)
  BY <1>1, BoundsAssumption
<1>3. \A o \in TxnOp : txn[s] < MaxTxn => Req(s, o, rsc) \in TxnReq  BY <1>1, <1>2 DEF Req, TxnReq
<1>4. Req(s, "TearDown", rsc) \in TearDownReq  BY <1>1, <1>2 DEF Req, TearDownReq
<1>5. \A o : /\ Req(s, o, rsc).kind = o /\ Req(s, o, rsc).session = s
             /\ Req(s, o, rsc).txn = txn[s] + 1 /\ Req(s, o, rsc).handle = mrcpHandle[s]
  BY DEF Req
<1> QED  BY <1>3, <1>4, <1>5

-----------------------------------------------------------------------------
(* Responses.                                                              *)

Answer(o, ack, value) == <<[op |-> o, ack |-> ack, value |-> value]>>

LEMMA AnswerFields ==
    ASSUME NEW o \in TxnOp, NEW ack \in BOOLEAN, NEW value \in Nat,
           o = "Allocate" /\ ack => value \in Handle
    PROVE  /\ Answer(o, ack, value) \in Seq(Response) /\ Answer(o, ack, value) # <<>>
           /\ Len(Answer(o, ack, value)) = 1
           /\ Answer(o, ack, value)[1].op = o /\ Answer(o, ack, value)[1].ack = ack
           /\ Answer(o, ack, value)[1].value = value
<1>1. PICK r : r = [op |-> o, ack |-> ack, value |-> value]  OBVIOUS
<1>2. r.op = o /\ r.ack = ack /\ r.value = value /\ r \in [op : TxnOp, ack : BOOLEAN, value : Nat]
  BY <1>1
<1>3. r \in Response  BY <1>2 DEF Response
<1>4. Answer(o, ack, value) = <<r>>  BY <1>1 DEF Answer
<1>5. <<r>> \in Seq(Response) /\ <<r>> # <<>> /\ Len(<<r>>) = 1 /\ <<r>>[1] = r  BY <1>3
<1> QED  BY <1>2, <1>4, <1>5

LEMMA ResponseFields ==
    ASSUME Typed, NEW s \in Session, response[s] # <<>>
    PROVE  Head(response[s]) = response[s][1] /\ response[s][1] \in Response
<1>1. PICK q : q = response[s]  OBVIOUS
<1>2. q \in Seq(Response) /\ q # <<>>  BY <1>1 DEF Typed, OwnerTyped
<1>3. q[1] \in Response /\ Head(q) = q[1]
  BY <1>2, EmptySeq, LenProperties, ElementOfSeq, HeadTailProperties
<1> QED  BY <1>1, <1>3

LEMMA EmptyResponse == <<>> \in Seq(Response) /\ Len(<<>>) <= 1
OBVIOUS

\* What Respond leaves: the open transaction's answer, or everything as it was.
Responds(m, o, ack, value) ==
    /\ response' \in [Session -> Seq(Response)]
    /\ \A s \in Session : Len(response'[s]) <= 1
    /\ \A s \in Session :
          \/ response'[s] = response[s]
          \/ s = m.session /\ Open(m) /\ response'[s] = Answer(o, ack, value)
    /\ Open(m) => response'[m.session] # <<>>

LEMMA RespondResponds ==
    ASSUME Typed, NEW m, m.session \in Session, NEW o \in TxnOp, NEW ack \in BOOLEAN,
           NEW value \in Nat, o = "Allocate" /\ ack => value \in Handle,
           Respond(m, o, ack, value)
    PROVE  Responds(m, o, ack, value)
<1>1. PICK s : s = m.session  OBVIOUS
<1>2. PICK a : a = Answer(o, ack, value)  OBVIOUS
<1>3. a \in Seq(Response) /\ a # <<>> /\ Len(a) = 1  BY <1>2, AnswerFields
<1>4. /\ response \in [Session -> Seq(Response)] /\ \A u \in Session : Len(response[u]) <= 1
  BY DEF Typed, OwnerTyped
<1>5. response' = IF Open(m) THEN [response EXCEPT ![s] = a] ELSE response
  BY <1>1, <1>2 DEF Respond, Open, Answer
<1>6. CASE Open(m)
  <2>1. response' = [response EXCEPT ![s] = a] /\ s \in Session  BY <1>1, <1>5, <1>6
  <2>2. response' \in [Session -> Seq(Response)]  BY <1>3, <1>4, <2>1
  <2>3. \A u \in Session : response'[u] = IF u = s THEN a ELSE response[u]  BY <1>4, <2>1
  <2>4. ASSUME NEW u \in Session PROVE Len(response'[u]) <= 1
    <3>1. CASE u = s
      <4>1. response'[u] = a  BY <2>3, <3>1
      <4>2. Len(a) <= 1  BY <1>3
      <4> QED  BY <4>1, <4>2, Zenon
    <3>2. CASE u # s
      <4>1. response'[u] = response[u]  BY <2>3, <3>2
      <4> QED  BY <1>4, <4>1
    <3> QED  BY <3>1, <3>2
  <2> QED  BY <1>1, <1>2, <1>3, <1>6, <2>1, <2>2, <2>3, <2>4 DEF Responds
<1>7. CASE ~Open(m)
  <2>1. response' = response  BY <1>5, <1>7
  <2> QED  BY <1>4, <1>7, <2>1 DEF Responds
<1> QED  BY <1>6, <1>7

-----------------------------------------------------------------------------
(* What a step leaves of the requests' kinds.                              *)

\* No transaction that was asked before is opened again.
Closes ==
    \A u \in Session :
        /\ txn[u] <= txn'[u]
        /\ op'[u] \in TxnOp /\ txn'[u] = txn[u] /\ response'[u] = <<>>
              => op'[u] = op[u] /\ response[u] = <<>>

LEMMA OpenKept ==
    ASSUME Typed, Typed', Closes, NEW r, r.session \in Session, r.txn \in Nat,
           r.txn <= txn[r.session]
    PROVE  /\ r.txn <= txn'[r.session]
           /\ Open(r)' => Open(r) /\ op'[r.session] = op[r.session]
<1>1. PICK u : u = r.session  OBVIOUS
<1>2. txn[u] \in Nat /\ txn'[u] \in Nat  BY <1>1 DEF Typed, OwnerTyped
<1>3. /\ txn[u] <= txn'[u] /\ r.txn <= txn[u]
      /\ op'[u] \in TxnOp /\ txn'[u] = txn[u] /\ response'[u] = <<>>
              => op'[u] = op[u] /\ response[u] = <<>>
  BY <1>1 DEF Closes
<1>4. r.txn <= txn'[u]  BY <1>2, <1>3
<1>5. ASSUME txn'[u] = r.txn PROVE txn'[u] = txn[u]  BY <1>2, <1>3, <1>5
<1> QED  BY <1>1, <1>3, <1>4, <1>5 DEF Open

\* An event about a message is one of UniMRCP's that is pending.
PendingFrom(h) ==
    \A p \in pending' : p.handle = h =>
        \E q \in pending : q.handle = h /\ q.id = p.id /\ q.method = p.method
Lawful(m) ==
    /\ m.kind = "MESSAGE_RECEIVE_EVT" =>
          \E q \in pending : q.handle = m.handle /\ q.id = m.id /\ q.method = m.method
    /\ m.kind \in TxnOp =>
          /\ m.txn <= txn'[m.session]
          /\ op'[m.session] \in TxnOp /\ txn'[m.session] = m.txn => op'[m.session] = m.kind

LEMMA AskedKept ==
    ASSUME Inv, Typed', Closes, NEW k \in {0, 1}, NEW m, PortFrom(k, m), k = 0 => Lawful(m),
           lastRequestId' >= lastRequestId,
           \A p \in pending' : p.id <= lastRequestId'
    PROVE  AskedOfKind' /\ IdsInOrder'
<1>1. ASSUME NEW i \in 1..Len(iocp')
      PROVE  /\ iocp'[i].kind \in TxnOp =>
                  /\ iocp'[i].txn <= txn'[iocp'[i].session]
                  /\ Open(iocp[i])' => op'[iocp'[i].session] = iocp'[i].kind
             /\ iocp'[i].kind = "MESSAGE_RECEIVE_EVT" => iocp'[i].id <= lastRequestId'
  <2>1. PICK x : x = iocp'[i]  OBVIOUS
  <2>2. x \in Posted  BY <1>1, <2>1, ElementOfSeq DEF Typed, ServerTyped
  <2>3. x.kind \in TxnOp => x.session \in Session /\ x.txn \in Nat
    BY <2>2, PostedFields DEF TxnReq
  <2>4. x.kind = "MESSAGE_RECEIVE_EVT" => x.id \in Nat
    BY <2>2, PostedFields DEF AnswerEvt, CompleteEvt, RequestId
  <2>5. lastRequestId \in Nat /\ lastRequestId' \in Nat  BY DEF Inv, Typed, ClientTyped
  <2>6. CASE i + k \in 1..Len(iocp) /\ iocp'[i] = iocp[i + k]
    <3>1. x = iocp[i + k]  BY <2>1, <2>6
    <3>2. /\ x.kind \in TxnOp => /\ x.txn <= txn[x.session]
                                 /\ Open(x) => op[x.session] = x.kind
          /\ x.kind = "MESSAGE_RECEIVE_EVT" => x.id <= lastRequestId
      BY <2>6, <3>1 DEF Inv, OfKind, AskedOfKind, IdsInOrder, Open
    <3>3. x.kind \in TxnOp => /\ x.txn <= txn'[x.session]
                              /\ Open(x)' => op'[x.session] = x.kind
      BY <2>3, <3>2, OpenKept DEF Inv
    <3>4. x.kind = "MESSAGE_RECEIVE_EVT" => x.id <= lastRequestId'  BY <2>4, <2>5, <3>2
    <3> QED  BY <2>1, <3>3, <3>4 DEF Open
  <2>7. CASE k = 0 /\ x = m
    <3>1. x.kind \in TxnOp => /\ x.txn <= txn'[x.session]
                              /\ Open(x)' => op'[x.session] = x.kind
      BY <2>7 DEF Lawful, Open
    <3>2. x.kind = "MESSAGE_RECEIVE_EVT" => x.id <= lastRequestId'
      <4>1. x.kind = "MESSAGE_RECEIVE_EVT" => x.id <= lastRequestId
        BY <2>7 DEF Lawful, Inv, OfKind, IdsInOrder
      <4> QED  BY <2>4, <2>5, <4>1
    <3> QED  BY <2>1, <3>1, <3>2 DEF Open
  <2> QED  BY <2>1, <2>6, <2>7 DEF PortFrom
<1> QED  BY <1>1 DEF AskedOfKind, IdsInOrder

\* A context that keeps its last request and message.
LEMMA UserKept ==
    ASSUME Inv, Typed', Closes, NEW k \in {0, 1}, NEW m, PortFrom(k, m), k = 0 => Lawful(m),
           NEW h \in DOMAIN ctxs, h \in DOMAIN ctxs', PendingFrom(h),
           ctxs'[h].last_user_request = ctxs[h].last_user_request,
           ctxs'[h].last_message = ctxs[h].last_message,
           ctxs'[h].state \in {ctxs[h].state, "ALLOCATED"}
    PROVE  UserOfKind(h)'
<1>1. PICK r : r = ctxs[h].last_user_request  OBVIOUS
<1>2. PICK l : l = ctxs[h].last_message  OBVIOUS
<1>3. r.session \in Session /\ r.txn \in Nat
  <2>1. r \in [session : Session, txn : 1..MaxTxn]  BY <1>1 DEF Inv, Typed, ServerTyped, Context
  <2> QED  BY <2>1
<1>4. /\ r.txn <= txn[r.session]
      /\ Open(r) =>
           /\ ctxs[h].state = "CONNECTING" => op[r.session] = "Allocate"
           /\ \A p \in pending : p.handle = h /\ p.id = l => op[r.session] = OpOf(p.method)
           /\ \A i \in 1..Len(iocp) :
                  iocp[i].kind = "MESSAGE_RECEIVE_EVT" /\ iocp[i].handle = h /\ iocp[i].id = l
                     => op[r.session] = OpOf(iocp[i].method)
  BY <1>1, <1>2 DEF Inv, OfKind, UserOfKind
<1>5. r.txn <= txn'[r.session] /\ (Open(r)' => Open(r) /\ op'[r.session] = op[r.session])
  BY <1>3, <1>4, OpenKept DEF Inv
<1>6. ctxs'[h].last_user_request = r /\ ctxs'[h].last_message = l  BY <1>1, <1>2
<1>7. ASSUME Open(r)'
      PROVE  /\ ctxs'[h].state = "CONNECTING" => op'[r.session] = "Allocate"
             /\ \A p \in pending' : p.handle = h /\ p.id = l => op'[r.session] = OpOf(p.method)
             /\ \A i \in 1..Len(iocp') :
                   iocp'[i].kind = "MESSAGE_RECEIVE_EVT" /\ iocp'[i].handle = h /\ iocp'[i].id = l
                      => op'[r.session] = OpOf(iocp'[i].method)
  <2>1. Open(r) /\ op'[r.session] = op[r.session]  BY <1>5, <1>7
  <2>2. ctxs'[h].state = "CONNECTING" => op'[r.session] = "Allocate"  BY <1>4, <2>1
  <2>3. \A p \in pending' : p.handle = h /\ p.id = l => op'[r.session] = OpOf(p.method)
    BY <1>4, <2>1 DEF PendingFrom
  <2>4. ASSUME NEW i \in 1..Len(iocp'), iocp'[i].kind = "MESSAGE_RECEIVE_EVT",
               iocp'[i].handle = h, iocp'[i].id = l
        PROVE  op'[r.session] = OpOf(iocp'[i].method)
    <3>1. CASE i + k \in 1..Len(iocp) /\ iocp'[i] = iocp[i + k]  BY <1>4, <2>1, <2>4, <3>1
    <3>2. CASE k = 0 /\ iocp'[i] = m
      <4>1. PICK q \in pending : q.handle = h /\ q.id = l /\ q.method = m.method
        BY <2>4, <3>2 DEF Lawful
      <4> QED  BY <1>4, <2>1, <3>2, <4>1
    <3> QED  BY <3>1, <3>2 DEF PortFrom
  <2> QED  BY <2>2, <2>3, <2>4
<1> QED  BY <1>5, <1>6, <1>7 DEF UserOfKind, Open

\* A context whose last request has been answered.
LEMMA UserClosed ==
    ASSUME NEW h, NEW r, ctxs'[h].last_user_request = r, r.txn <= txn'[r.session], ~Open(r)'
    PROVE  UserOfKind(h)'
BY DEF UserOfKind, Open

-----------------------------------------------------------------------------
(* What a step leaves of the handles.                                      *)

LEMMA AddsKept ==
    ASSUME Inv, NEW k \in {0, 1}, NEW m, PortFrom(k, m), NEW h,
           k = 0 => ~(m.kind = "CHANNEL_ADD_EVT" /\ m.handle = h),
           \A a \in adding' : a[1] = h => a \in adding
    PROVE  /\ Adding(h)' => Adding(h)
           /\ AddsOnce(h) => AddsOnce(h)'
<1>1. \A i \in 1..Len(iocp') : AddPosted(i, h)' => i + k \in 1..Len(iocp) /\ AddPosted(i + k, h)
  BY DEF PortFrom, AddPosted
<1>2. Adding(h)' => Adding(h)  BY <1>1 DEF Adding
<1>3. ASSUME AddsOnce(h) PROVE AddsOnce(h)'
  <2>1. \A a, b \in adding' : a[1] = h /\ b[1] = h => a = b  BY <1>3 DEF AddsOnce
  <2>2. ASSUME NEW i \in 1..Len(iocp'), NEW j \in 1..Len(iocp'), AddPosted(i, h)', AddPosted(j, h)'
        PROVE  i = j
    <3>1. i + k = j + k  BY <1>1, <1>3, <2>2 DEF AddsOnce
    <3>2. i \in Int /\ j \in Int  OBVIOUS
    <3> QED  BY <3>1, <3>2
  <2>3. \A a \in adding', i \in 1..Len(iocp') : ~(a[1] = h /\ AddPosted(i, h)')
    BY <1>1, <1>3 DEF AddsOnce
  <2> QED  BY <2>1, <2>2, <2>3 DEF AddsOnce
<1> QED  BY <1>2, <1>3

LEMMA EndsKept ==
    ASSUME Inv, NEW k \in {0, 1}, NEW m, PortFrom(k, m), NEW h,
           k = 0 => ~(m.kind = "TERMINATE_RSP" /\ m.handle = h),
           h \in terminating' => h \in terminating
    PROVE  /\ Ending(h)' => Ending(h)
           /\ EndsOnce(h) => EndsOnce(h)'
<1>1. \A i \in 1..Len(iocp') : EndPosted(i, h)' => i + k \in 1..Len(iocp) /\ EndPosted(i + k, h)
  BY DEF PortFrom, EndPosted
<1>2. Ending(h)' => Ending(h)  BY <1>1 DEF Ending
<1>3. ASSUME EndsOnce(h) PROVE EndsOnce(h)'
  <2>2. ASSUME NEW i \in 1..Len(iocp'), NEW j \in 1..Len(iocp'), EndPosted(i, h)', EndPosted(j, h)'
        PROVE  i = j
    <3>1. i + k = j + k  BY <1>1, <1>3, <2>2 DEF EndsOnce
    <3>2. i \in Int /\ j \in Int  OBVIOUS
    <3> QED  BY <3>1, <3>2
  <2>3. \A i \in 1..Len(iocp') : ~(h \in terminating' /\ EndPosted(i, h)')
    BY <1>1, <1>3 DEF EndsOnce
  <2> QED  BY <2>2, <2>3 DEF EndsOnce
<1> QED  BY <1>2, <1>3

\* A context that changes may add a channel, and be connecting again.
ContextFrom(h) ==
    h \in DOMAIN ctxs' =>
        /\ h \in DOMAIN ctxs
        /\ ctxs[h].channels \subseteq ctxs'[h].channels
        /\ ctxs'[h].state \in {ctxs[h].state, "CONNECTING"}

LEMMA HandleKept ==
    ASSUME Inv, Typed', NEW h \in Handle,
           Adding(h)' => Adding(h), AddsOnce(h) => AddsOnce(h)',
           Ending(h)' => Ending(h), EndsOnce(h) => EndsOnce(h)', Told(h)' => Told(h),
           ContextFrom(h), handleCounter <= handleCounter',
           overlapped \subseteq overlapped', broken \subseteq broken',
           h \in destroyed' => h \in destroyed \/ (h \in DOMAIN ctxs /\ h \in broken')
    PROVE  HandleOK(h)'
<1>0. NewOf(h) /\ ChannelsOf(h) /\ AddsOnce(h) /\ EndOf(h)  BY DEF Inv, Contexts, HandleOK
<1>1. handleCounter \in Nat /\ handleCounter' \in Nat /\ h \in Nat
  BY DEF Inv, Typed, ServerTyped, Handle
<1>2. NewOf(h)'
  <2>1. h > handleCounter' => h > handleCounter  BY <1>1
  <2>2. h > handleCounter => Fresh(h)  BY <1>0 DEF NewOf
  <2> QED  BY <2>1, <2>2 DEF NewOf, Fresh, ContextFrom
<1>3. ChannelsOf(h)'
  <2>1. SUFFICES ASSUME h \in DOMAIN ctxs'
                 PROVE  /\ ctxs'[h].channels # {}
                        /\ Adding(h)' => ctxs'[h].state = "CONNECTING"
                        /\ Told(h)' /\ Adding(h)' => ctxs'[h].channels = Resource
    BY DEF ChannelsOf
  <2>2. /\ ctxs[h].channels \subseteq ctxs'[h].channels
        /\ ctxs'[h].state \in {ctxs[h].state, "CONNECTING"} /\ h \in DOMAIN ctxs
    BY <2>1 DEF ContextFrom
  <2>3. ctxs'[h].channels \subseteq Resource  BY <2>1 DEF Typed, ServerTyped, Context
  <2> QED  BY <1>0, <2>2, <2>3 DEF ChannelsOf
<1>4. EndOf(h)'
  <2>1. Excused(h) => Excused(h)'  BY DEF Excused
  <2>2. h \in DOMAIN ctxs' => h \in DOMAIN ctxs  BY DEF ContextFrom
  <2>3. h \in destroyed' /\ ~Excused(h)' => h \in destroyed  BY DEF Excused
  <2> QED  BY <1>0, <2>1, <2>2, <2>3 DEF EndOf
<1> QED  BY <1>0, <1>2, <1>3, <1>4 DEF HandleOK

\* The sessions name what they were told.
LEMMA NamedKept ==
    ASSUME Inv, NEW k \in {0, 1}, NEW m, PortFrom(k, m), taken \subseteq taken',
           k = 0 => (IsRequest(m) /\ m.handle # IW_UNDEFINED => m.handle \in taken'),
           \A u \in Session : mrcpHandle'[u] # IW_UNDEFINED => mrcpHandle'[u] \in taken'
    PROVE  Named'
<1>1. \A i \in 1..Len(iocp') : IsRequest(iocp[i])' /\ iocp'[i].handle # IW_UNDEFINED
                                  => iocp'[i].handle \in taken'
  BY DEF PortFrom, Inv, Contexts, Named, IsRequest
<1> QED  BY <1>1 DEF Named

\* What is used after its destruction is excused.
LEMMA UseKept ==
    ASSUME Inv, NEW h, UseSession(h) \/ DestroySession(h),
           overlapped \subseteq overlapped', broken \subseteq broken',
           h \in destroyed => Excused(h)'
    PROVE  DestroyedOnce'
BY DEF Inv, Contexts, DestroyedOnce, UseSession, DestroySession, Excused

-----------------------------------------------------------------------------
(* Steps that start nothing at UniMRCP, and change no context they leave.  *)

FewerContexts == \A h \in DOMAIN ctxs' : h \in DOMAIN ctxs /\ ctxs'[h] = ctxs[h]

LEMMA PendingIds ==
    ASSUME Inv, Typed', \A h \in Handle : PendingFrom(h), lastRequestId' = lastRequestId
    PROVE  \A p \in pending' : p.id <= lastRequestId'
<1>1. \A p \in pending' : p.handle \in Handle  BY DEF Typed, ClientTyped, Pending
<1> QED  BY <1>1 DEF PendingFrom, Inv, OfKind, IdsInOrder

LEMMA QuietKept ==
    ASSUME Inv, Typed', Closes, ResponseOfItsKind',
           NEW k \in {0, 1}, NEW m, PortFrom(k, m), k = 0 => Lawful(m) /\ m.kind # "CHANNEL_ADD_EVT"
               /\ m.kind # "TERMINATE_RSP" /\ (IsRequest(m) /\ m.handle # IW_UNDEFINED => m.handle \in taken'),
           UNCHANGED <<handleCounter, overlapped, broken, destroyed, misused>>,
           FewerContexts, adding' \subseteq adding, terminating' \subseteq terminating,
           taken \subseteq taken', \A h \in Handle : Told(h)' => Told(h),
           \A u \in Session : mrcpHandle'[u] # IW_UNDEFINED => mrcpHandle'[u] \in taken',
           \A h \in Handle : PendingFrom(h), lastRequestId' = lastRequestId
    PROVE  Inv'
<1>1. AskedOfKind' /\ IdsInOrder'
  <2>1. lastRequestId' >= lastRequestId  BY DEF Inv, Typed, ClientTyped
  <2>2. \A p \in pending' : p.id <= lastRequestId'  BY PendingIds
  <2> QED  BY <2>1, <2>2, AskedKept
<1>2. ASSUME NEW h \in DOMAIN ctxs' PROVE UserOfKind(h)'
  <2>1. h \in Handle /\ h \in DOMAIN ctxs /\ ctxs'[h] = ctxs[h]
    BY DEF FewerContexts, Typed, ServerTyped
  <2> QED  BY <2>1, UserKept
<1>3. ASSUME NEW h \in Handle PROVE HandleOK(h)'
  <2>1. ContextFrom(h)  BY DEF ContextFrom, FewerContexts
  <2>2. handleCounter <= handleCounter'  BY DEF Inv, Typed, ServerTyped
  <2>3. (Adding(h)' => Adding(h)) /\ (AddsOnce(h) => AddsOnce(h)')  BY AddsKept
  <2>4. (Ending(h)' => Ending(h)) /\ (EndsOnce(h) => EndsOnce(h)')  BY EndsKept
  <2> QED  BY <2>1, <2>2, <2>3, <2>4, HandleKept
<1>4. Named'  BY NamedKept
<1>5. DestroyedOnce'  BY DEF Inv, Contexts, DestroyedOnce
<1> QED  BY <1>1, <1>2, <1>3, <1>4, <1>5 DEF Inv, OfKind, Contexts

-----------------------------------------------------------------------------
(* The owner of a session.                                                 *)

LEMMA NotWaiting ==
    ASSUME Inv, NEW s \in Session, op[s] \notin TxnOp
    PROVE  response[s] = <<>>
<1>1. SUFFICES ASSUME response[s] # <<>> PROVE FALSE  OBVIOUS
<1>2. Head(response[s]) \in Response  BY <1>1, ResponseFields DEF Inv
<1>3. Head(response[s]).op \in TxnOp  BY <1>2 DEF Response
<1>4. Head(response[s]).op = op[s]  BY <1>1 DEF Inv, OfKind, ResponseOfItsKind
<1> QED  BY <1>3, <1>4

\* The transaction of s ends, if it has one, and nothing is in its txn_handle.
LEMMA OwnerLeaves ==
    ASSUME Inv, NEW s \in Session, NEW o \in Op \ TxnOp, op' = [op EXCEPT ![s] = o],
           txn' = txn, response' = [response EXCEPT ![s] = <<>>]
    PROVE  /\ op' \in [Session -> Op] /\ txn' \in [Session -> 0..MaxTxn]
           /\ response' \in [Session -> Seq(Response)]
           /\ \A u \in Session : Len(response'[u]) <= 1
           /\ Closes /\ ResponseOfItsKind'
           /\ \A u \in Session, h \in Handle : Acked(u, h)' => Acked(u, h)
<1>1. /\ op \in [Session -> Op] /\ txn \in [Session -> 0..MaxTxn]
      /\ response \in [Session -> Seq(Response)] /\ \A u \in Session : Len(response[u]) <= 1
  BY DEF Inv, Typed, OwnerTyped
<1>2. op' \in [Session -> Op] /\ txn' \in [Session -> 0..MaxTxn]  BY <1>1
<1>3. response' \in [Session -> Seq(Response)]  BY <1>1, EmptyResponse
<1>4. \A u \in Session : u # s => response'[u] = response[u] /\ op'[u] = op[u]  BY <1>1
<1>5. response'[s] = <<>> /\ op'[s] = o  BY <1>1
<1>6. ASSUME NEW u \in Session
      PROVE  /\ Len(response'[u]) <= 1
             /\ txn[u] <= txn'[u]
             /\ op'[u] \in TxnOp /\ txn'[u] = txn[u] /\ response'[u] = <<>>
                  => op'[u] = op[u] /\ response[u] = <<>>
             /\ response'[u] # <<>> => Head(response'[u]).op = op'[u]
             /\ \A h \in Handle : Acked(u, h)' => Acked(u, h)
  <2>0. txn[u] <= txn'[u]  BY <1>1
  <2>1. CASE u = s
    <3>1. response'[u] = <<>> /\ op'[u] \notin TxnOp  BY <1>5, <2>1
    <3> QED  BY <2>0, <3>1, EmptyResponse DEF Acked
  <2>2. CASE u # s
    <3>1. response'[u] = response[u] /\ op'[u] = op[u]  BY <1>4, <2>2
    <3>2. Len(response'[u]) <= 1  BY <1>1, <3>1
    <3>3. response'[u] # <<>> => Head(response'[u]).op = op'[u]
      BY <3>1 DEF Inv, OfKind, ResponseOfItsKind
    <3> QED  BY <2>0, <3>1, <3>2, <3>3 DEF Acked
  <2> QED  BY <2>1, <2>2
<1> QED  BY <1>2, <1>3, <1>6 DEF Closes, ResponseOfItsKind

LEMMA OwnerKept ==
    ASSUME Inv, OwnerTyped', ListenTyped', Closes, ResponseOfItsKind',
           NEW m, PortFrom(0, m), Lawful(m), m.kind # "CHANNEL_ADD_EVT", m.kind # "TERMINATE_RSP",
           IsRequest(m) /\ m.handle # IW_UNDEFINED => m.handle \in taken',
           UNCHANGED <<serverVars, clientVars, destroyVars, overlapped, broken>>,
           taken' \subseteq Handle, taken \subseteq taken', \A h \in Handle : Told(h)' => Told(h),
           \A u \in Session : mrcpHandle'[u] # IW_UNDEFINED => mrcpHandle'[u] \in taken'
    PROVE  Inv'
<1>1. UNCHANGED <<ctxs, handleCounter, up, live, adding, terminating, pending, lastRequestId,
                  overlapped, broken, destroyed, misused>>
  BY DEF serverVars, clientVars, destroyVars
<1>2. ServerTyped'  BY <1>1 DEF Inv, Typed, ServerTyped, PortFrom, Context
<1>3. ClientTyped' /\ HistoryTyped'  BY <1>1 DEF Inv, Typed, ClientTyped, HistoryTyped
<1>4. Typed'  BY <1>2, <1>3 DEF Typed
<1>5. FewerContexts /\ \A h \in Handle : PendingFrom(h)  BY <1>1 DEF PendingFrom, FewerContexts
<1> QED  BY <1>1, <1>4, <1>5, QuietKept

\* A step of the owner that sends nothing, learns nothing, and has no transaction
\* after it.
LEMMA OwnerAlone ==
    ASSUME Inv, NEW s \in Session, NEW o \in Op \ TxnOp, op' = [op EXCEPT ![s] = o],
           txn' = txn, response' = [response EXCEPT ![s] = <<>>],
           UNCHANGED <<iocp, mrcpHandle, serverVars, clientVars, destroyVars, historyVars>>,
           sync' \in [Session -> BOOLEAN], correlation' \in [Session -> Nat], ListenTyped'
    PROVE  Inv'
<1>1. PICK m : m = [kind |-> "none"]  OBVIOUS
<1>2. /\ op' \in [Session -> Op] /\ txn' \in [Session -> 0..MaxTxn]
      /\ response' \in [Session -> Seq(Response)]
      /\ \A u \in Session : Len(response'[u]) <= 1
      /\ Closes /\ ResponseOfItsKind'
      /\ \A u \in Session, h \in Handle : Acked(u, h)' => Acked(u, h)
  BY OwnerLeaves
<1>3. UNCHANGED <<taken, overlapped, broken>>  BY DEF historyVars
<1>4. OwnerTyped'  BY <1>2 DEF Inv, Typed, OwnerTyped
<1>5. \A h \in Handle : Told(h)' => Told(h)  BY <1>2, <1>3 DEF Told
<1>6. m.kind = "none"  BY <1>1
<1>7. Lawful(m) /\ m.kind # "CHANNEL_ADD_EVT" /\ m.kind # "TERMINATE_RSP" /\ ~IsRequest(m)
  BY <1>6 DEF Lawful, TxnOp, IsRequest
<1>8. PortFrom(0, m)  BY SamePort DEF Inv
<1>9. /\ taken' \subseteq Handle /\ taken \subseteq taken'
      /\ \A u \in Session : mrcpHandle'[u] # IW_UNDEFINED => mrcpHandle'[u] \in taken'
  BY <1>3 DEF Inv, Typed, HistoryTyped, Contexts, Named
<1> QED  BY <1>2, <1>3, <1>4, <1>5, <1>7, <1>8, <1>9, OwnerKept

LEMMA SameListen ==
    ASSUME Inv, UNCHANGED listenVars
    PROVE  ListenTyped'
BY DEF Inv, Typed, ListenTyped, listenVars

LEMMA AnsweredKept == ASSUME Inv, NEW s \in Session, Answered(s) PROVE Inv'
<1>1. /\ op' = [op EXCEPT ![s] = "idle"] /\ sync' = [sync EXCEPT ![s] = FALSE]
      /\ response' = [response EXCEPT ![s] = <<>>]
      /\ UNCHANGED <<mrcpHandle, correlation, txn, iocp, listenVars, serverVars, clientVars,
                     destroyVars, historyVars>>
  BY DEF Answered, Received
<1>2. sync' \in [Session -> BOOLEAN] /\ correlation' \in [Session -> Nat]
  BY <1>1 DEF Inv, Typed, OwnerTyped
<1>3. "idle" \in Op \ TxnOp  BY DEF Op, TxnOp
<1> QED  BY <1>1, <1>2, <1>3, OwnerAlone, SameListen

\* Nothing is in the txn_handle.
LEMMA NothingToTake ==
    ASSUME Inv, NEW s \in Session, response' = response, response[s] = <<>>
    PROVE  response' = [response EXCEPT ![s] = <<>>]
<1>1. response \in [Session -> Seq(Response)]  BY DEF Inv, Typed, OwnerTyped
<1> QED  BY <1>1

LEMMA TimedOutKept == ASSUME Inv, NEW s \in Session, TimedOut(s) PROVE Inv'
<1>1. /\ op' = [op EXCEPT ![s] = "idle"] /\ sync' = [sync EXCEPT ![s] = FALSE]
      /\ response' = response /\ response[s] = <<>>
      /\ UNCHANGED <<mrcpHandle, correlation, txn, iocp, listenVars, serverVars, clientVars,
                     destroyVars, historyVars>>
  BY DEF TimedOut
<1>2. sync' \in [Session -> BOOLEAN] /\ correlation' \in [Session -> Nat]
  BY <1>1 DEF Inv, Typed, OwnerTyped
<1>3. "idle" \in Op \ TxnOp  BY DEF Op, TxnOp
<1>4. response' = [response EXCEPT ![s] = <<>>]  BY <1>1, NothingToTake
<1> QED  BY <1>1, <1>2, <1>3, <1>4, OwnerAlone, SameListen

LEMMA SpeakAckKept == ASSUME Inv, NEW s \in Session, SpeakAck(s) PROVE Inv'
<1>1. /\ op' = [op EXCEPT ![s] = "WaitSpeak"] /\ sync' = [sync EXCEPT ![s] = FALSE]
      /\ response' = [response EXCEPT ![s] = <<>>] /\ response[s] # <<>>
      /\ correlation' = [correlation EXCEPT ![s] = Head(response[s]).value]
      /\ UNCHANGED <<mrcpHandle, txn, iocp, listenVars, serverVars, clientVars,
                     destroyVars, historyVars>>
  BY DEF SpeakAck, Received
<1>2. Head(response[s]).value \in Nat  BY <1>1, ResponseFields DEF Inv, Response
<1>3. sync' \in [Session -> BOOLEAN] /\ correlation' \in [Session -> Nat]
  BY <1>1, <1>2 DEF Inv, Typed, OwnerTyped
<1>4. "WaitSpeak" \in Op \ TxnOp  BY DEF Op, TxnOp
<1> QED  BY <1>1, <1>3, <1>4, OwnerAlone, SameListen

LEMMA RecognizeAckKept == ASSUME Inv, NEW s \in Session, RecognizeAck(s) PROVE Inv'
<1>1. /\ op' = [op EXCEPT ![s] = "WaitRecog"] /\ sync' = [sync EXCEPT ![s] = FALSE]
      /\ response' = [response EXCEPT ![s] = <<>>]
      /\ UNCHANGED <<mrcpHandle, correlation, txn, iocp, listenVars, serverVars, clientVars,
                     destroyVars, historyVars>>
  BY DEF RecognizeAck, Received
<1>2. sync' \in [Session -> BOOLEAN] /\ correlation' \in [Session -> Nat]
  BY <1>1 DEF Inv, Typed, OwnerTyped
<1>3. "WaitRecog" \in Op \ TxnOp  BY DEF Op, TxnOp
<1> QED  BY <1>1, <1>2, <1>3, OwnerAlone, SameListen

LEMMA TakeStopped ==
    ASSUME Inv, NEW s \in Session, NEW c \in Completion, stopped[s][c] # <<>>,
           stopped' = [stopped EXCEPT ![s][c] = Tail(@)], UNCHANGED <<listener, inbound>>
    PROVE  ListenTyped'
<1>1. PICK q : q = stopped[s][c]  OBVIOUS
<1>2. /\ stopped \in [Session -> [Completion -> Seq(RequestId)]]
      /\ \A u \in Session, d \in Completion : Len(stopped[u][d]) <= MAX_MESSAGES_IN_QUEUE
  BY DEF Inv, Typed, ListenTyped
<1>3. q \in Seq(RequestId) /\ q # <<>> /\ Len(q) <= MAX_MESSAGES_IN_QUEUE  BY <1>1, <1>2
<1>4. Tail(q) \in Seq(RequestId) /\ Len(Tail(q)) = Len(q) - 1 /\ Len(q) \in Nat
  BY <1>3, HeadTailProperties, LenProperties
<1>5. PICK t : t = Tail(q)  OBVIOUS
<1>6. t \in Seq(RequestId) /\ Len(t) <= MAX_MESSAGES_IN_QUEUE
  BY <1>3, <1>4, <1>5, BoundsAssumption
<1>7. stopped' = [stopped EXCEPT ![s] = [stopped[s] EXCEPT ![c] = t]]  BY <1>1, <1>5
<1>8. stopped' \in [Session -> [Completion -> Seq(RequestId)]]  BY <1>2, <1>6, <1>7
<1>9. ASSUME NEW u \in Session, NEW d \in Completion
      PROVE  Len(stopped'[u][d]) <= MAX_MESSAGES_IN_QUEUE
  <2>1. stopped'[u][d] = t \/ stopped'[u][d] = stopped[u][d]  BY <1>2, <1>7
  <2> QED  BY <1>2, <1>6, <2>1
<1> QED  BY <1>8, <1>9 DEF Inv, Typed, ListenTyped

LEMMA SpeakStoppedKept == ASSUME Inv, NEW s \in Session, SpeakStopped(s) PROVE Inv'
<1>1. /\ op[s] = "WaitSpeak" /\ stopped[s]["SPEAK"] # <<>> /\ response' = response /\ txn' = txn
      /\ stopped' = [stopped EXCEPT ![s]["SPEAK"] = Tail(@)] /\ UNCHANGED <<listener, inbound>>
      /\ UNCHANGED <<mrcpHandle, sync, iocp, serverVars, clientVars, destroyVars, historyVars>>
      /\ \/ /\ op' = [op EXCEPT ![s] = "idle"]
            /\ correlation' = [correlation EXCEPT ![s] = IW_UNDEFINED]
         \/ op' = op /\ correlation' = correlation
  BY DEF SpeakStopped
<1>2. "SPEAK" \in Completion  BY DEF Completion
<1>3. ListenTyped'  BY <1>1, <1>2, TakeStopped
<1>4. "WaitSpeak" \in Op \ TxnOp /\ "idle" \in Op \ TxnOp  BY DEF Op, TxnOp
<1>5. response' = [response EXCEPT ![s] = <<>>]  BY <1>1, <1>4, NotWaiting, NothingToTake
<1>6. op \in [Session -> Op] /\ sync \in [Session -> BOOLEAN] /\ correlation \in [Session -> Nat]
  BY DEF Inv, Typed, OwnerTyped
<1>7. \E o \in Op \ TxnOp : op' = [op EXCEPT ![s] = o]  BY <1>1, <1>4, <1>6
<1>8. sync' \in [Session -> BOOLEAN] /\ correlation' \in [Session -> Nat]
  BY <1>1, <1>6 DEF IW_UNDEFINED
<1> QED  BY <1>1, <1>3, <1>5, <1>7, <1>8, OwnerAlone

LEMMA RecogStoppedKept == ASSUME Inv, NEW s \in Session, RecogStopped(s) PROVE Inv'
<1>1. /\ op[s] = "WaitRecog" /\ stopped[s]["RECOGNIZE"] # <<>> /\ response' = response /\ txn' = txn
      /\ stopped' = [stopped EXCEPT ![s]["RECOGNIZE"] = Tail(@)] /\ UNCHANGED <<listener, inbound>>
      /\ UNCHANGED <<mrcpHandle, sync, correlation, iocp, serverVars, clientVars, destroyVars,
                     historyVars>>
      /\ op' = [op EXCEPT ![s] = "idle"]
  BY DEF RecogStopped
<1>2. "RECOGNIZE" \in Completion  BY DEF Completion
<1>3. ListenTyped'  BY <1>1, <1>2, TakeStopped
<1>4. "WaitRecog" \in Op \ TxnOp /\ "idle" \in Op \ TxnOp  BY DEF Op, TxnOp
<1>5. response' = [response EXCEPT ![s] = <<>>]  BY <1>1, <1>4, NotWaiting, NothingToTake
<1>6. sync' \in [Session -> BOOLEAN] /\ correlation' \in [Session -> Nat]
  BY <1>1 DEF Inv, Typed, OwnerTyped
<1> QED  BY <1>1, <1>3, <1>4, <1>5, <1>6, OwnerAlone

LEMMA WaitForRecogResultKept == ASSUME Inv, NEW s \in Session, WaitForRecogResult(s) PROVE Inv'
<1>1. /\ op[s] = "idle" /\ stopped[s]["RECOGNIZE"] # <<>> /\ response' = response /\ txn' = txn
      /\ stopped' = [stopped EXCEPT ![s]["RECOGNIZE"] = Tail(@)] /\ UNCHANGED <<listener, inbound>>
      /\ UNCHANGED <<op, mrcpHandle, sync, correlation, iocp, serverVars, clientVars, destroyVars,
                     historyVars>>
  BY DEF WaitForRecogResult, ownerVars
<1>2. "RECOGNIZE" \in Completion  BY DEF Completion
<1>3. ListenTyped'  BY <1>1, <1>2, TakeStopped
<1>4. "idle" \in Op \ TxnOp  BY DEF Op, TxnOp
<1>5. response' = [response EXCEPT ![s] = <<>>]  BY <1>1, <1>4, NotWaiting, NothingToTake
<1>6. /\ sync' \in [Session -> BOOLEAN] /\ correlation' \in [Session -> Nat]
      /\ op \in [Session -> Op]
  BY <1>1 DEF Inv, Typed, OwnerTyped
<1>7. op' = [op EXCEPT ![s] = "idle"]  BY <1>1, <1>6
<1> QED  BY <1>1, <1>3, <1>4, <1>5, <1>6, <1>7, OwnerAlone

LEMMA GivesUpKept == ASSUME Inv, NEW s \in Session, GivesUp(s) PROVE Inv'
<1>1. /\ op[s] \in {"WaitSpeak", "WaitRecog"} /\ response' = response /\ txn' = txn
      /\ op' = [op EXCEPT ![s] = "idle"]
      /\ correlation' = [correlation EXCEPT ![s] = IW_UNDEFINED]
      /\ UNCHANGED <<mrcpHandle, sync, iocp, listenVars, serverVars, clientVars, destroyVars,
                     historyVars>>
  BY DEF GivesUp
<1>2. "idle" \in Op \ TxnOp /\ op[s] \notin TxnOp  BY <1>1 DEF Op, TxnOp
<1>3. response' = [response EXCEPT ![s] = <<>>]  BY <1>1, <1>2, NotWaiting, NothingToTake
<1>4. sync' \in [Session -> BOOLEAN] /\ correlation' \in [Session -> Nat]
  BY <1>1 DEF Inv, Typed, OwnerTyped, IW_UNDEFINED
<1> QED  BY <1>1, <1>2, <1>3, <1>4, OwnerAlone, SameListen

LEMMA UponActiveObjectEventKept == ASSUME Inv, NEW s \in Session, UponActiveObjectEvent(s) PROVE Inv'
<1>1. PICK e : e = Head(inbound[s])  OBVIOUS
<1>2. /\ inbound[s] # <<>>
      /\ \/ /\ ~Full(s, e.method)
            /\ stopped' = [stopped EXCEPT ![s][e.method] = Append(@, e.id)]
            /\ inbound' = [inbound EXCEPT ![s] = Tail(@)]
            /\ listener' = [listener EXCEPT ![s] = "waiting"]
         \/ /\ listener' = [listener EXCEPT ![s] = "sending"]
            /\ UNCHANGED <<inbound, stopped>>
      /\ UNCHANGED <<op, mrcpHandle, sync, correlation, txn, response, iocp, serverVars,
                     clientVars, historyVars, destroyVars>>
  BY <1>1 DEF UponActiveObjectEvent, ownerVars
<1>3. /\ listener \in [Session -> {"none", "waiting", "sending"}]
      /\ inbound \in [Session -> Seq([method : Completion, id : RequestId])]
      /\ stopped \in [Session -> [Completion -> Seq(RequestId)]]
      /\ \A u \in Session, c \in Completion : Len(stopped[u][c]) <= MAX_MESSAGES_IN_QUEUE
  BY DEF Inv, Typed, ListenTyped
<1>4. PICK b : b = inbound[s]  OBVIOUS
<1>5. b \in Seq([method : Completion, id : RequestId]) /\ b # <<>>  BY <1>2, <1>3, <1>4
<1>6. /\ Head(b) \in [method : Completion, id : RequestId]
      /\ Tail(b) \in Seq([method : Completion, id : RequestId])
  BY <1>5, HeadTailProperties
<1>7. e.method \in Completion /\ e.id \in RequestId  BY <1>1, <1>4, <1>6
<1>8. ListenTyped'
  <2>1. CASE /\ ~Full(s, e.method)
             /\ stopped' = [stopped EXCEPT ![s][e.method] = Append(@, e.id)]
             /\ inbound' = [inbound EXCEPT ![s] = Tail(@)]
             /\ listener' = [listener EXCEPT ![s] = "waiting"]
    <3>1. PICK q : q = stopped[s][e.method]  OBVIOUS
    <3>2. q \in Seq(RequestId) /\ Len(q) \in Nat /\ ~(Len(q) >= MAX_MESSAGES_IN_QUEUE)
      BY <1>3, <1>7, <2>1, <3>1, LenProperties DEF Full
    <3>3. PICK t : t = Append(q, e.id)  OBVIOUS
    <3>4. t \in Seq(RequestId) /\ Len(t) = Len(q) + 1  BY <1>7, <3>2, <3>3, AppendProperties
    <3>5. Len(t) <= MAX_MESSAGES_IN_QUEUE  BY <3>2, <3>4, BoundsAssumption
    <3>6. stopped' = [stopped EXCEPT ![s] = [stopped[s] EXCEPT ![e.method] = t]]
      BY <2>1, <3>1, <3>3
    <3>7. stopped' \in [Session -> [Completion -> Seq(RequestId)]]  BY <1>3, <1>7, <3>4, <3>6
    <3>8. ASSUME NEW u \in Session, NEW d \in Completion
          PROVE  Len(stopped'[u][d]) <= MAX_MESSAGES_IN_QUEUE
      <4>1. stopped'[u][d] = t \/ stopped'[u][d] = stopped[u][d]  BY <1>3, <1>7, <3>6
      <4> QED  BY <1>3, <3>5, <4>1
    <3>9. inbound' \in [Session -> Seq([method : Completion, id : RequestId])]
      BY <1>3, <1>4, <1>6, <2>1
    <3>10. listener' \in [Session -> {"none", "waiting", "sending"}]  BY <1>3, <2>1
    <3> QED  BY <3>7, <3>8, <3>9, <3>10 DEF ListenTyped
  <2>2. CASE /\ listener' = [listener EXCEPT ![s] = "sending"]
             /\ UNCHANGED <<inbound, stopped>>
    BY <1>3, <2>2 DEF ListenTyped
  <2> QED  BY <1>2, <2>1, <2>2
<1>9. PICK m : m = [kind |-> "none"]  OBVIOUS
<1>10. m.kind = "none"  BY <1>9
<1>11. Lawful(m) /\ m.kind # "CHANNEL_ADD_EVT" /\ m.kind # "TERMINATE_RSP" /\ ~IsRequest(m)
  BY <1>10 DEF Lawful, TxnOp, IsRequest
<1>12. PortFrom(0, m)  BY <1>2, SamePort DEF Inv
<1>13. OwnerTyped' /\ ResponseOfItsKind' /\ UNCHANGED <<taken, overlapped, broken>>
  BY <1>2 DEF Inv, Typed, OwnerTyped, OfKind, ResponseOfItsKind, historyVars
<1>14. Closes  BY <1>2 DEF Closes, Inv, Typed, OwnerTyped
<1>15. \A h \in Handle : Told(h)' => Told(h)  BY <1>2, <1>13 DEF Told, Acked
<1>16. /\ taken' \subseteq Handle /\ taken \subseteq taken'
       /\ \A u \in Session : mrcpHandle'[u] # IW_UNDEFINED => mrcpHandle'[u] \in taken'
  BY <1>2, <1>13 DEF Inv, Typed, HistoryTyped, Contexts, Named
<1> QED  BY <1>2, <1>8, <1>11, <1>12, <1>13, <1>14, <1>15, <1>16, OwnerKept

\* What is sent to ProcUniMrcp by a TearDown, if anything is.
LEMMA TearDownSends ==
    ASSUME Inv, NEW s \in Session, TearDownEffect(s)
    PROVE  /\ \E m : /\ PortFrom(0, m) /\ m.kind \in {"none", "TearDown"}
                     /\ IsRequest(m) /\ m.handle # IW_UNDEFINED => m.handle \in taken
           /\ mrcpHandle' \in [Session -> Handle \cup {IW_UNDEFINED}]
           /\ \A u \in Session : mrcpHandle'[u] # IW_UNDEFINED => mrcpHandle'[u] \in taken
<1>1. /\ mrcpHandle \in [Session -> Handle \cup {IW_UNDEFINED}]
      /\ \A u \in Session : mrcpHandle[u] # IW_UNDEFINED => mrcpHandle[u] \in taken
  BY DEF Inv, Typed, OwnerTyped, Contexts, Named
<1>2. CASE mrcpHandle[s] = IW_UNDEFINED
  <2>1. iocp' = iocp /\ mrcpHandle' = mrcpHandle  BY <1>2 DEF TearDownEffect
  <2>2. PICK m : m = [kind |-> "none"]  OBVIOUS
  <2>3. m.kind = "none"  BY <2>2
  <2>4. ~IsRequest(m)  BY <2>3 DEF IsRequest, TxnOp
  <2>5. PortFrom(0, m)  BY <2>1, SamePort DEF Inv
  <2> QED  BY <1>1, <2>1, <2>3, <2>4, <2>5
<1>3. CASE mrcpHandle[s] # IW_UNDEFINED
  <2>1. PICK m : m = Req(s, "TearDown", "SYNTHESIZER")  OBVIOUS
  <2>2. ToServer(m) /\ mrcpHandle' = [mrcpHandle EXCEPT ![s] = IW_UNDEFINED]
    BY <1>3, <2>1 DEF TearDownEffect
  <2>3. m \in TearDownReq /\ m.kind = "TearDown" /\ m.handle = mrcpHandle[s]
    BY <2>1, ReqPosted DEF Inv, Resource
  <2>4. m \in Posted  BY <2>3 DEF Posted
  <2>5. PortFrom(0, m)  BY <2>2, <2>4, ToServerPort DEF Inv
  <2> QED  BY <1>1, <1>3, <2>2, <2>3, <2>5
<1> QED  BY <1>2, <1>3

\* A step that tears down, and has no transaction before it and after it.
LEMMA TearsDown ==
    ASSUME Inv, NEW s \in Session, NEW o \in Op \ TxnOp, op[s] \notin TxnOp,
           op' = [op EXCEPT ![s] = o], TearDownEffect(s), ListenTyped',
           UNCHANGED <<sync, correlation, txn, response, serverVars, clientVars, historyVars,
                       destroyVars>>
    PROVE  Inv'
<1>1. PICK m : /\ PortFrom(0, m) /\ m.kind \in {"none", "TearDown"}
               /\ IsRequest(m) /\ m.handle # IW_UNDEFINED => m.handle \in taken
  BY TearDownSends
<1>2. /\ mrcpHandle' \in [Session -> Handle \cup {IW_UNDEFINED}]
      /\ \A u \in Session : mrcpHandle'[u] # IW_UNDEFINED => mrcpHandle'[u] \in taken
  BY TearDownSends
<1>3. response' = [response EXCEPT ![s] = <<>>]  BY NotWaiting, NothingToTake
<1>4. /\ op' \in [Session -> Op] /\ txn' \in [Session -> 0..MaxTxn]
      /\ response' \in [Session -> Seq(Response)]
      /\ \A u \in Session : Len(response'[u]) <= 1
      /\ Closes /\ ResponseOfItsKind'
      /\ \A u \in Session, h \in Handle : Acked(u, h)' => Acked(u, h)
  BY <1>3, OwnerLeaves
<1>5. UNCHANGED <<taken, overlapped, broken>>  BY DEF historyVars
<1>6. OwnerTyped'  BY <1>2, <1>4 DEF Inv, Typed, OwnerTyped
<1>7. \A h \in Handle : Told(h)' => Told(h)  BY <1>4, <1>5 DEF Told
<1>8. Lawful(m) /\ m.kind # "CHANNEL_ADD_EVT" /\ m.kind # "TERMINATE_RSP"
  BY <1>1 DEF Lawful, TxnOp
<1>9. taken' \subseteq Handle /\ taken \subseteq taken'
  BY <1>5 DEF Inv, Typed, HistoryTyped
<1> QED  BY <1>1, <1>2, <1>4, <1>5, <1>6, <1>7, <1>8, <1>9, OwnerKept

LEMMA TearDownKept == ASSUME Inv, NEW s \in Session, TearDown(s) PROVE Inv'
<1>1. "idle" \in Op \ TxnOp  BY DEF Op, TxnOp
<1>2. op[s] = "idle" /\ op' = op /\ op \in [Session -> Op]
  BY DEF TearDown, Inv, Typed, OwnerTyped
<1>3. op' = [op EXCEPT ![s] = "idle"]  BY <1>2
<1>4. ListenTyped'  BY SameListen DEF TearDown
<1> QED  BY <1>1, <1>2, <1>3, <1>4, TearsDown DEF TearDown

LEMMA DeleteKept == ASSUME Inv, NEW s \in Session, Delete(s) PROVE Inv'
<1>1. /\ "joining" \in Op \ TxnOp /\ "deleted" \in Op \ TxnOp
      /\ \A o \in {"idle", "joining"} : o \notin TxnOp
  BY DEF Op, TxnOp
<1>2. UNCHANGED <<sync, correlation, txn, response, serverVars, clientVars, historyVars, destroyVars>>
  BY DEF Delete
<1>3. CASE /\ op[s] = "idle" /\ op' = [op EXCEPT ![s] = "joining"]
           /\ UNCHANGED <<mrcpHandle, iocp, listenVars>>
  <2>1. response' = [response EXCEPT ![s] = <<>>]
    BY <1>1, <1>2, <1>3, NotWaiting, NothingToTake
  <2>2. sync' \in [Session -> BOOLEAN] /\ correlation' \in [Session -> Nat]
    BY <1>2 DEF Inv, Typed, OwnerTyped
  <2> QED  BY <1>1, <1>2, <1>3, <2>1, <2>2, OwnerAlone, SameListen
<1>4. CASE /\ op[s] \in {"idle", "joining"}
           /\ op' = [op EXCEPT ![s] = "deleted"]
           /\ TearDownEffect(s)
           /\ listener' = [listener EXCEPT ![s] = "none"]
           /\ inbound' = [inbound EXCEPT ![s] = <<>>]
           /\ stopped' = [stopped EXCEPT ![s] = [c \in Completion |-> <<>>]]
  <2>1. /\ listener \in [Session -> {"none", "waiting", "sending"}]
        /\ inbound \in [Session -> Seq([method : Completion, id : RequestId])]
        /\ stopped \in [Session -> [Completion -> Seq(RequestId)]]
        /\ \A u \in Session, c \in Completion : Len(stopped[u][c]) <= MAX_MESSAGES_IN_QUEUE
    BY DEF Inv, Typed, ListenTyped
  <2>2. listener' \in [Session -> {"none", "waiting", "sending"}]  BY <1>4, <2>1
  <2>3. inbound' \in [Session -> Seq([method : Completion, id : RequestId])]
    <3>1. PICK E : E = [method : Completion, id : RequestId]  OBVIOUS
    <3>2. inbound \in [Session -> Seq(E)]  BY <2>1, <3>1
    <3>3. inbound' \in [Session -> Seq(E)]  BY <1>4, <3>2
    <3> QED  BY <3>1, <3>3
  <2>4. PICK z : z = [c \in Completion |-> <<>>]  OBVIOUS
  <2>5. z \in [Completion -> Seq(RequestId)] /\ \A c \in Completion : z[c] = <<>>  BY <2>4
  <2>6. stopped' \in [Session -> [Completion -> Seq(RequestId)]]  BY <1>4, <2>1, <2>4, <2>5
  <2>7. Len(<<>>) <= MAX_MESSAGES_IN_QUEUE  BY BoundsAssumption
  <2>8. ASSUME NEW u \in Session, NEW c \in Completion
        PROVE  Len(stopped'[u][c]) <= MAX_MESSAGES_IN_QUEUE
    <3>1. stopped'[u][c] = <<>> \/ stopped'[u][c] = stopped[u][c]  BY <1>4, <2>1, <2>4, <2>5
    <3> QED  BY <2>1, <2>7, <3>1
  <2>9. ListenTyped'  BY <2>2, <2>3, <2>6, <2>8 DEF ListenTyped
  <2> QED  BY <1>1, <1>2, <1>4, <2>9, TearsDown
<1> QED  BY <1>3, <1>4 DEF Delete

LEMMA AskKept ==
    ASSUME Inv, NEW s \in Session, NEW o \in TxnOp, NEW rsc \in Resource, Ask(s, o, rsc),
           sync' \in [Session -> BOOLEAN],
           UNCHANGED <<mrcpHandle, correlation, response, listenVars, serverVars, clientVars,
                       historyVars, destroyVars>>
    PROVE  Inv'
<1>1. PICK m : m = Req(s, o, rsc)  OBVIOUS
<1>2. /\ op[s] = "idle" /\ txn[s] < MaxTxn /\ txn' = [txn EXCEPT ![s] = @ + 1]
      /\ op' = [op EXCEPT ![s] = IF up THEN o ELSE "idle"] /\ ToServer(m)
  BY <1>1 DEF Ask
<1>3. /\ m \in TxnReq /\ m.kind = o /\ m.session = s /\ m.txn = txn[s] + 1
      /\ m.handle = mrcpHandle[s]
  BY <1>1, <1>2, ReqPosted DEF Inv
<1>4. PortFrom(0, m)  BY <1>2, <1>3, ToServerPort DEF Inv, Posted
<1>5. op \in [Session -> Op] /\ txn \in [Session -> 0..MaxTxn]  BY DEF Inv, Typed, OwnerTyped
<1>6. PICK x : x = IF up THEN o ELSE "idle"  OBVIOUS
<1>7. x \in Op /\ (x \in TxnOp => x = o)  BY <1>6 DEF Op, TxnOp
<1>8. op' = [op EXCEPT ![s] = x] /\ op' \in [Session -> Op]  BY <1>2, <1>5, <1>6, <1>7
<1>9. txn[s] + 1 \in 0..MaxTxn /\ txn[s] \in Nat  BY <1>2, <1>5, BoundsAssumption
<1>10. txn' \in [Session -> 0..MaxTxn] /\ txn'[s] = txn[s] + 1
       /\ \A u \in Session : u # s => txn'[u] = txn[u] /\ op'[u] = op[u]
  BY <1>2, <1>5, <1>8, <1>9
<1>11. op'[s] = x  BY <1>5, <1>8
<1>12. Closes
  <2>1. ASSUME NEW u \in Session
        PROVE  /\ txn[u] <= txn'[u]
               /\ op'[u] \in TxnOp /\ txn'[u] = txn[u] /\ response'[u] = <<>>
                     => op'[u] = op[u] /\ response[u] = <<>>
    <3>1. CASE u = s  BY <1>9, <1>10, <3>1
    <3>2. CASE u # s  BY <1>5, <1>10, <3>2
    <3> QED  BY <3>1, <3>2
  <2> QED  BY <2>1 DEF Closes
<1>13. ResponseOfItsKind'
  <2>1. response[s] = <<>>  BY <1>2, NotWaiting DEF TxnOp
  <2> QED  BY <1>10, <2>1 DEF Inv, OfKind, ResponseOfItsKind
<1>14. Lawful(m)
  <2>1. m.txn <= txn'[m.session]  BY <1>3, <1>9, <1>10
  <2>2. op'[m.session] \in TxnOp => op'[m.session] = m.kind  BY <1>3, <1>7, <1>11
  <2>3. m.kind # "MESSAGE_RECEIVE_EVT"  BY <1>3 DEF TxnOp
  <2> QED  BY <2>1, <2>2, <2>3 DEF Lawful
<1>15. m.kind # "CHANNEL_ADD_EVT" /\ m.kind # "TERMINATE_RSP"  BY <1>3 DEF TxnOp
<1>16. OwnerTyped'  BY <1>8, <1>10 DEF Inv, Typed, OwnerTyped
<1>17. UNCHANGED <<taken, overlapped, broken>>  BY DEF historyVars
<1>18. \A h \in Handle : Told(h)' => Told(h)  BY <1>17 DEF Told, Acked
<1>19. /\ taken' \subseteq Handle /\ taken \subseteq taken'
       /\ \A u \in Session : mrcpHandle'[u] # IW_UNDEFINED => mrcpHandle'[u] \in taken'
       /\ IsRequest(m) /\ m.handle # IW_UNDEFINED => m.handle \in taken'
  BY <1>3, <1>17 DEF Inv, Typed, HistoryTyped, Contexts, Named
<1> QED
  BY <1>4, <1>12, <1>13, <1>14, <1>15, <1>16, <1>17, <1>18, <1>19, SameListen, OwnerKept

LEMMA AllocateKept == ASSUME Inv, NEW s \in Session, Allocate(s) PROVE Inv'
<1>1. PICK rsc \in Resource : Ask(s, "Allocate", rsc)  BY DEF Allocate
<1>2. "Allocate" \in TxnOp  BY DEF TxnOp
<1>3. sync' \in [Session -> BOOLEAN]  BY DEF Allocate, Inv, Typed, OwnerTyped
<1> QED  BY <1>1, <1>2, <1>3, AskKept DEF Allocate

LEMMA RequestKept == ASSUME Inv, NEW s \in Session, Request(s) PROVE Inv'
<1>1. sync \in [Session -> BOOLEAN] /\ up \in BOOLEAN
  BY DEF Inv, Typed, OwnerTyped, ServerTyped
<1>2. PICK o \in TxnOp : Ask(s, o, "SYNTHESIZER")  BY DEF Request, TxnOp
<1>3. sync' \in [Session -> BOOLEAN]
  <2>1. CASE \E sy \in BOOLEAN : sync' = [sync EXCEPT ![s] = sy /\ up]
    <3>1. PICK sy \in BOOLEAN : sync' = [sync EXCEPT ![s] = sy /\ up]  BY <2>1
    <3>2. PICK b \in BOOLEAN : b = (sy /\ up)  OBVIOUS
    <3>3. sync' = [sync EXCEPT ![s] = b]  BY <3>1, <3>2, Zenon
    <3> QED  BY <1>1, <3>2, <3>3
  <2>2. CASE sync' = sync  BY <1>1, <2>2
  <2> QED  BY <2>1, <2>2 DEF Request
<1>4. "SYNTHESIZER" \in Resource  BY DEF Resource
<1> QED  BY <1>2, <1>3, <1>4, AskKept DEF Request

LEMMA AllocateAckKept == ASSUME Inv, NEW s \in Session, AllocateAck(s) PROVE Inv'
<1>1. PICK v : v = Head(response[s]).value  OBVIOUS
<1>2. /\ op[s] = "Allocate" /\ response[s] # <<>> /\ Head(response[s]).ack = TRUE
      /\ response' = [response EXCEPT ![s] = <<>>] /\ op' = [op EXCEPT ![s] = "idle"]
      /\ UNCHANGED <<sync, correlation, txn, inbound, stopped, iocp, serverVars, clientVars,
                     overlapped, broken, destroyVars>>
  BY DEF AllocateAck, Received
<1>3. \/ /\ mrcpHandle' = [mrcpHandle EXCEPT ![s] = v]
         /\ listener' = [listener EXCEPT ![s] = "waiting"]
         /\ taken' = taken \cup {v}
      \/ mrcpHandle' = mrcpHandle /\ listener' = listener /\ taken' = taken
  BY <1>1 DEF AllocateAck
<1>4. Head(response[s]) = response[s][1] /\ response[s][1] \in Response
  BY <1>2, ResponseFields DEF Inv
<1>5. response[s][1].op = "Allocate"
  BY <1>2, <1>4 DEF Inv, OfKind, ResponseOfItsKind
<1>6. v = response[s][1].value /\ response[s][1].ack  BY <1>1, <1>2, <1>4
<1>7. v \in Handle  BY <1>4, <1>5, <1>6 DEF Response
<1>8. Acked(s, v)  BY <1>2, <1>5, <1>6 DEF Acked
<1>9. "idle" \in Op \ TxnOp  BY DEF Op, TxnOp
<1>10. /\ op' \in [Session -> Op] /\ txn' \in [Session -> 0..MaxTxn]
       /\ response' \in [Session -> Seq(Response)]
       /\ \A u \in Session : Len(response'[u]) <= 1
       /\ Closes /\ ResponseOfItsKind'
       /\ \A u \in Session, h \in Handle : Acked(u, h)' => Acked(u, h)
  BY <1>2, <1>9, OwnerLeaves
<1>11. /\ mrcpHandle \in [Session -> Handle \cup {IW_UNDEFINED}] /\ taken \subseteq Handle
       /\ \A u \in Session : mrcpHandle[u] # IW_UNDEFINED => mrcpHandle[u] \in taken
  BY DEF Inv, Typed, OwnerTyped, HistoryTyped, Contexts, Named
<1>12. mrcpHandle' \in [Session -> Handle \cup {IW_UNDEFINED}]  BY <1>3, <1>7, <1>11
<1>13. \A u \in Session : mrcpHandle'[u] # IW_UNDEFINED => mrcpHandle'[u] \in taken'
  BY <1>3, <1>11
<1>14. taken' \subseteq Handle /\ taken \subseteq taken'  BY <1>3, <1>7, <1>11
<1>15. \A h \in Handle : Told(h)' => Told(h)  BY <1>3, <1>8, <1>10 DEF Told
<1>16. OwnerTyped'  BY <1>2, <1>10, <1>12 DEF Inv, Typed, OwnerTyped
<1>17. ListenTyped'
  <2>1. listener' \in [Session -> {"none", "waiting", "sending"}]
    BY <1>3 DEF Inv, Typed, ListenTyped
  <2> QED  BY <1>2, <2>1 DEF Inv, Typed, ListenTyped
<1>18. PICK m : m = [kind |-> "none"]  OBVIOUS
<1>19. m.kind = "none"  BY <1>18
<1>20. Lawful(m) /\ m.kind # "CHANNEL_ADD_EVT" /\ m.kind # "TERMINATE_RSP" /\ ~IsRequest(m)
  BY <1>19 DEF Lawful, TxnOp, IsRequest
<1>21. PortFrom(0, m)  BY <1>2, SamePort DEF Inv
<1> QED
  BY <1>2, <1>10, <1>13, <1>14, <1>15, <1>16, <1>17, <1>20, <1>21, OwnerKept

-----------------------------------------------------------------------------
(* ProcUniMrcp serves a request, and refuses or answers it.                *)

\* The owners, and what they have, are as they were but for one response.
ServerLeaves == UNCHANGED <<ownerVars, taken>>

\* The answered transaction is of the kind of the answer: so are all, after it.
LEMMA RespondedKept ==
    ASSUME Inv, ServerLeaves, NEW m, m.session \in Session, m.txn \in Nat,
           NEW o \in TxnOp, NEW ack \in BOOLEAN,
           NEW value \in Nat, Responds(m, o, ack, value), Open(m) => op[m.session] = o,
           o = "Allocate" /\ ack => value \in Handle
    PROVE  /\ OwnerTyped' /\ Closes /\ ResponseOfItsKind' /\ ~Open(m)'
           /\ \A h \in Handle : Told(h)' => Told(h) \/ (o = "Allocate" /\ ack /\ h = value)
<1>1. UNCHANGED <<op, mrcpHandle, sync, correlation, txn, taken>>
  BY DEF ServerLeaves, ownerVars
<1>2. OwnerTyped'  BY <1>1 DEF Inv, Typed, OwnerTyped, Responds
<1>3. PICK a : a = Answer(o, ack, value)  OBVIOUS
<1>4. /\ a \in Seq(Response) /\ a # <<>> /\ Len(a) = 1
      /\ a[1].op = o /\ a[1].ack = ack /\ a[1].value = value
  BY <1>3, AnswerFields
<1>5. Head(a) = a[1]  BY <1>4, HeadTailProperties
<1>6. ASSUME NEW u \in Session
      PROVE  /\ txn[u] <= txn'[u]
             /\ op'[u] \in TxnOp /\ txn'[u] = txn[u] /\ response'[u] = <<>>
                   => op'[u] = op[u] /\ response[u] = <<>>
             /\ response'[u] # <<>> => Head(response'[u]).op = op'[u]
             /\ \A h \in Handle : Acked(u, h)' => Acked(u, h) \/ (o = "Allocate" /\ ack /\ h = value)
  <2>1. txn[u] <= txn'[u]  BY <1>1 DEF Inv, Typed, OwnerTyped
  <2>2. CASE response'[u] = response[u]
    <3>1. response'[u] # <<>> => Head(response'[u]).op = op'[u]
      BY <1>1, <2>2 DEF Inv, OfKind, ResponseOfItsKind
    <3> QED  BY <1>1, <2>1, <2>2, <3>1 DEF Acked
  <2>3. CASE u = m.session /\ Open(m) /\ response'[u] = a
    <3>1. response'[u] # <<>> /\ Head(response'[u]).op = o /\ op'[u] = o
      BY <1>1, <1>4, <1>5, <2>3
    <3>2. \A h \in Handle : Acked(u, h)' => (o = "Allocate" /\ ack /\ h = value)
      BY <1>4, <2>3 DEF Acked
    <3> QED  BY <2>1, <3>1, <3>2
  <2> QED  BY <1>3, <2>2, <2>3 DEF Responds
<1>7. \A h \in Handle : Told(h)' => Told(h) \/ (o = "Allocate" /\ ack /\ h = value)
  BY <1>1, <1>6 DEF Told
<1>8. ~Open(m)'
  <2>1. Open(m)' => Open(m)
    <3>1. response'[m.session] = <<>> => response[m.session] = <<>>
      BY <1>3, <1>4 DEF Responds
    <3> QED  BY <1>1, <3>1 DEF Open
  <2> QED  BY <2>1 DEF Responds, Open
<1> QED  BY <1>2, <1>6, <1>7, <1>8 DEF Closes, ResponseOfItsKind

\* What serving a request with a refusal leaves.
LEMMA RefusalLeaves ==
    ASSUME Inv, NEW o \in TxnOp, Serves(o), ServerLeaves, Respond(Msg, o, FALSE, IW_UNDEFINED)
    PROVE  /\ Msg \in TxnReq /\ \A m : PortFrom(1, m)
           /\ OwnerTyped' /\ Closes /\ ResponseOfItsKind'
           /\ \A h \in Handle : Told(h)' => Told(h)
           /\ UserRequest \in [session : Session, txn : 1..MaxTxn]
           /\ \A r : r = UserRequest => r.txn <= txn'[r.session] /\ ~Open(r)'
           /\ Msg.handle # IW_UNDEFINED => Msg.handle \in taken /\ Msg.handle \in Handle
<1>1. PICK m : m = Msg  OBVIOUS
<1>2. m \in Posted /\ m = iocp[1] /\ m.kind = o /\ 1 \in 1..Len(iocp) /\ \A x : PortFrom(1, x)
  BY <1>1, ServesPort DEF Inv
<1>3. m \in TxnReq  BY <1>2, PostedFields
<1>4. m.session \in Session /\ m.txn \in 1..MaxTxn /\ m.handle \in Handle \cup {IW_UNDEFINED}
  BY <1>3 DEF TxnReq
<1>5. m.txn <= txn[m.session] /\ (Open(m) => op[m.session] = o)
  BY <1>2 DEF Inv, OfKind, AskedOfKind, Open
<1>6. PICK f \in BOOLEAN : f = FALSE  OBVIOUS
<1>7. Respond(m, o, f, 0)  BY <1>1, <1>6 DEF Respond, IW_UNDEFINED
<1>8. Responds(m, o, f, 0)  BY <1>4, <1>6, <1>7, RespondResponds DEF Inv
<1>9. /\ OwnerTyped' /\ Closes /\ ResponseOfItsKind' /\ ~Open(m)'
      /\ \A h \in Handle : Told(h)' => Told(h)
  <2>1. m.txn \in Nat  BY <1>4
  <2> QED  BY <1>4, <1>5, <1>6, <1>8, <2>1, RespondedKept
<1>10. UserRequest = [session |-> m.session, txn |-> m.txn]  BY <1>1 DEF UserRequest
<1>11. UserRequest \in [session : Session, txn : 1..MaxTxn]  BY <1>4, <1>10
<1>12. txn' = txn  BY DEF ServerLeaves, ownerVars
<1>13. ASSUME NEW r, r = UserRequest PROVE r.txn <= txn'[r.session] /\ ~Open(r)'
  <2>1. r.session = m.session /\ r.txn = m.txn  BY <1>10, <1>13
  <2> QED  BY <1>5, <1>9, <1>12, <2>1 DEF Open
<1>14. m.handle # IW_UNDEFINED => m.handle \in taken /\ m.handle \in Handle
  BY <1>2, <1>4 DEF Inv, Contexts, Named, IsRequest
<1> QED  BY <1>1, <1>2, <1>3, <1>9, <1>11, <1>13, <1>14

LEMMA ServerKept ==
    ASSUME Inv, Typed', Closes, ResponseOfItsKind', NEW m, PortFrom(1, m), ServerLeaves,
           lastRequestId' >= lastRequestId, \A p \in pending' : p.id <= lastRequestId',
           \A h \in DOMAIN ctxs' : UserOfKind(h)', \A h \in Handle : HandleOK(h)', DestroyedOnce'
    PROVE  Inv'
<1>1. AskedOfKind' /\ IdsInOrder'  BY AskedKept
<1>2. UNCHANGED <<mrcpHandle, taken>>  BY DEF ServerLeaves, ownerVars
<1>3. Named'
  <2>1. \A u \in Session : mrcpHandle'[u] # IW_UNDEFINED => mrcpHandle'[u] \in taken'
    BY <1>2 DEF Inv, Contexts, Named
  <2> QED  BY <1>2, <2>1, NamedKept
<1> QED  BY <1>1, <1>3 DEF Inv, OfKind, Contexts

\* A context is given another last_user_request, one that is answered.
LEMMA Readdressed ==
    ASSUME Inv, Typed', Closes, NEW m, PortFrom(1, m),
           NEW h \in DOMAIN ctxs, NEW c, ctxs' = [ctxs EXCEPT ![h] = c],
           c.last_user_request.txn <= txn'[c.last_user_request.session],
           \A r : r = c.last_user_request => ~Open(r)',
           ctxs[h].channels \subseteq c.channels, c.state \in {ctxs[h].state, "CONNECTING"},
           pending' = pending
    PROVE  /\ \A g \in DOMAIN ctxs' : UserOfKind(g)'
           /\ \A g \in Handle : ContextFrom(g)
<1>1. DOMAIN ctxs' = DOMAIN ctxs /\ ctxs'[h] = c /\ \A g \in DOMAIN ctxs : g # h => ctxs'[g] = ctxs[g]
  OBVIOUS
<1>2. ASSUME NEW g \in DOMAIN ctxs' PROVE UserOfKind(g)'
  <2>1. CASE g = h
    <3>1. PICK r : r = c.last_user_request  OBVIOUS
    <3>2. ctxs'[g].last_user_request = r  BY <1>1, <2>1, <3>1
    <3>3. r.txn <= txn'[r.session] /\ ~Open(r)'  BY <3>1
    <3> QED  BY <3>2, <3>3, UserClosed
  <2>2. CASE g # h
    <3>1. ctxs'[g] = ctxs[g] /\ g \in DOMAIN ctxs  BY <1>1, <2>2
    <3>2. PendingFrom(g)  BY DEF PendingFrom
    <3> QED  BY <3>1, <3>2, UserKept
  <2> QED  BY <2>1, <2>2
<1>3. \A g \in Handle : ContextFrom(g)  BY <1>1 DEF ContextFrom
<1> QED  BY <1>2, <1>3

\* The handles after a step that only serves a message.
LEMMA ServedHandle ==
    ASSUME Inv, Typed', NEW m, PortFrom(1, m), NEW h \in Handle, ContextFrom(h),
           \A a \in adding' : a[1] = h => a \in adding,
           h \in terminating' => h \in terminating, Told(h)' => Told(h),
           handleCounter <= handleCounter',
           overlapped \subseteq overlapped', broken \subseteq broken',
           h \in destroyed' => h \in destroyed \/ (h \in DOMAIN ctxs /\ h \in broken')
    PROVE  HandleOK(h)'
<1>1. (Adding(h)' => Adding(h)) /\ (AddsOnce(h) => AddsOnce(h)')  BY AddsKept
<1>2. (Ending(h)' => Ending(h)) /\ (EndsOnce(h) => EndsOnce(h)')  BY EndsKept
<1> QED  BY <1>1, <1>2, HandleKept

\* Counters that a step leaves alone.
LEMMA CounterKept ==
    ASSUME Inv, handleCounter' = handleCounter, lastRequestId' = lastRequestId
    PROVE  handleCounter <= handleCounter' /\ lastRequestId' >= lastRequestId
BY DEF Inv, Typed, ServerTyped, ClientTyped

LEMMA RefusedKept ==
    ASSUME Inv, NEW o \in {"Speak", "StopSpeak", "Recognize"}, Refused(o)
    PROVE  Inv'
<1>0. o \in TxnOp  BY DEF TxnOp
<1>1. /\ Serves(o) /\ Respond(Msg, o, FALSE, IW_UNDEFINED)
      /\ UNCHANGED <<ownerVars, listenVars, handleCounter, up, clientVars, historyVars, destroyVars>>
  BY DEF Refused
<1>2. ServerLeaves  BY <1>1 DEF ServerLeaves, historyVars
<1>3. /\ \A m : PortFrom(1, m)
      /\ OwnerTyped' /\ Closes /\ ResponseOfItsKind'
      /\ \A h \in Handle : Told(h)' => Told(h)
      /\ UserRequest \in [session : Session, txn : 1..MaxTxn]
      /\ \A r : r = UserRequest => r.txn <= txn'[r.session] /\ ~Open(r)'
  BY <1>0, <1>1, <1>2, RefusalLeaves
<1>4. UNCHANGED <<adding, terminating, live, pending, lastRequestId, taken, overlapped, broken,
                  destroyed, misused, handleCounter, up, mrcpHandle>>
  BY <1>1 DEF clientVars, historyVars, destroyVars, ownerVars
<1>5. ListenTyped' /\ ClientTyped' /\ HistoryTyped'
  BY <1>1, <1>4, SameListen DEF Inv, Typed, ClientTyped, HistoryTyped
<1>6. iocp' \in Seq(Posted) /\ handleCounter' \in 0..MaxHandles /\ up' \in BOOLEAN
  BY <1>3, <1>4 DEF PortFrom, Inv, Typed, ServerTyped
<1>7. DOMAIN ctxs \subseteq Handle /\ \A g \in DOMAIN ctxs : ctxs[g] \in Context
  BY DEF Inv, Typed, ServerTyped
<1>8. PICK m : m = Msg  OBVIOUS
<1>9. CASE ctxs' = ctxs
  <2>1. Typed'  BY <1>3, <1>5, <1>6, <1>7, <1>9 DEF Typed, ServerTyped
  <2>2. FewerContexts /\ \A g \in Handle : PendingFrom(g)
    BY <1>4, <1>9 DEF FewerContexts, PendingFrom
  <2>3. \A u \in Session : mrcpHandle'[u] # IW_UNDEFINED => mrcpHandle'[u] \in taken'
    BY <1>4 DEF Inv, Contexts, Named
  <2> QED  BY <1>3, <1>4, <2>1, <2>2, <2>3, QuietKept
<1>10. CASE ctxs' # ctxs
  <2>1. PICK r : r = UserRequest  OBVIOUS
  <2>2. PICK h : h = Msg.handle  OBVIOUS
  <2>3. /\ h \in DOMAIN ctxs
        /\ \/ ctxs' = [ctxs EXCEPT ![h].last_user_request = r]
           \/ ctxs' = [ctxs EXCEPT ![h] = [@ EXCEPT !.last_user_request = r,
                                                    !.last_message = IW_UNDEFINED]]
    BY <1>10, <2>1, <2>2 DEF Refused, Known
  <2>4. PICK c : /\ c \in {[ctxs[h] EXCEPT !.last_user_request = r],
                           [ctxs[h] EXCEPT !.last_user_request = r, !.last_message = IW_UNDEFINED]}
                 /\ ctxs' = [ctxs EXCEPT ![h] = c]
    BY <2>3
  <2>5. PICK d : d = ctxs[h]  OBVIOUS
  <2>6. d \in Context /\ r \in [session : Session, txn : 1..MaxTxn]  BY <1>3, <1>7, <2>1, <2>3, <2>5
  <2>7. c \in Context /\ c.last_user_request = r /\ c.channels = d.channels /\ c.state = d.state
    BY <2>4, <2>5, <2>6 DEF Context
  <2>8. ServerTyped'
    <3>1. DOMAIN ctxs' \subseteq Handle /\ \A g \in DOMAIN ctxs' : ctxs'[g] \in Context
      BY <1>7, <2>4, <2>7
    <3> QED  BY <1>6, <3>1 DEF ServerTyped
  <2>9. Typed'  BY <1>3, <1>5, <2>8 DEF Typed
  <2>10. r.txn <= txn'[r.session] /\ ~Open(r)'  BY <1>3, <2>1
  <2>11. (\A g \in DOMAIN ctxs' : UserOfKind(g)') /\ \A g \in Handle : ContextFrom(g)
    BY <1>3, <1>4, <2>3, <2>4, <2>5, <2>7, <2>9, <2>10, Readdressed
  <2>12. handleCounter <= handleCounter' /\ lastRequestId' >= lastRequestId
    BY <1>4, CounterKept
  <2>13. \A g \in Handle : HandleOK(g)'
    BY <1>3, <1>4, <2>9, <2>11, <2>12, ServedHandle
  <2>14. DestroyedOnce' /\ \A p \in pending' : p.id <= lastRequestId'
    BY <1>4 DEF Inv, Contexts, DestroyedOnce, OfKind, IdsInOrder
  <2> QED  BY <1>2, <1>3, <2>9, <2>11, <2>12, <2>13, <2>14, ServerKept
<1> QED  BY <1>9, <1>10

\* The handle of a context has been given out, and its session is not ended.
LEMMA KnownHandle ==
    ASSUME Inv, NEW h \in DOMAIN ctxs
    PROVE  /\ h \in Handle /\ h <= handleCounter /\ ~Ending(h) /\ EndsOnce(h) /\ AddsOnce(h)
           /\ h \in destroyed => Excused(h)
           /\ ctxs[h] \in Context /\ ctxs[h].channels # {}
           /\ Adding(h) => ctxs[h].state = "CONNECTING"
           /\ Told(h) /\ Adding(h) => ctxs[h].channels = Resource
<1>1. h \in Handle /\ ctxs[h] \in Context  BY DEF Inv, Typed, ServerTyped
<1>2. NewOf(h) /\ ChannelsOf(h) /\ AddsOnce(h) /\ EndOf(h)  BY <1>1 DEF Inv, Contexts, HandleOK
<1>3. ~(h > handleCounter)  BY <1>2 DEF NewOf, Fresh
<1>4. h <= handleCounter  BY <1>1, <1>3 DEF Inv, Typed, ServerTyped, Handle
<1> QED  BY <1>1, <1>2, <1>4 DEF ChannelsOf, EndOf

\* The first channel that is being added to a handle.
LEMMA AddsFirst ==
    ASSUME Inv, NEW m, PortFrom(1, m), NEW h, NEW rsc, ~Adding(h),
           adding' = adding \cup {<<h, rsc>>}
    PROVE  AddsOnce(h)'
<1>1. \A i \in 1..Len(iocp') : ~AddPosted(i, h)'  BY DEF PortFrom, AddPosted, Adding
<1>2. \A a \in adding' : a[1] = h => a = <<h, rsc>>  BY DEF Adding
<1> QED  BY <1>1, <1>2 DEF AddsOnce

\* A second channel of a context: its session has the first.
LEMMA AddsSecond ==
    ASSUME Inv, Typed', NEW m, PortFrom(1, m), NEW h \in DOMAIN ctxs, Told(h),
           NEW rsc \in Resource, rsc \notin ctxs[h].channels, adding' = adding \cup {<<h, rsc>>},
           h \in DOMAIN ctxs', ctxs'[h].channels = ctxs[h].channels \cup {rsc},
           ctxs'[h].state = "CONNECTING",
           UNCHANGED <<terminating, handleCounter, overlapped, broken, destroyed>>
    PROVE  HandleOK(h)'
<1>1. /\ h \in Handle /\ h <= handleCounter /\ ~Ending(h) /\ EndsOnce(h)
      /\ h \in destroyed => Excused(h)
      /\ ctxs[h] \in Context /\ ctxs[h].channels # {}
      /\ Told(h) /\ Adding(h) => ctxs[h].channels = Resource
  BY KnownHandle
<1>2. ~Adding(h)  BY <1>1
<1>3. AddsOnce(h)'  BY <1>2, AddsFirst
<1>4. NewOf(h)'
  <2>1. h \in Nat /\ handleCounter \in Nat /\ h <= handleCounter'
    BY <1>1 DEF Handle, Inv, Typed, ServerTyped
  <2>2. ~(h > handleCounter')  BY <2>1
  <2> QED  BY <2>2 DEF NewOf
<1>5. ChannelsOf(h)'
  <2>1. ctxs[h].channels \subseteq Resource  BY <1>1 DEF Context
  <2>2. ctxs[h].channels \cup {rsc} = Resource  BY <1>1, <2>1 DEF Resource
  <2> QED  BY <1>1, <2>2 DEF ChannelsOf
<1>6. (Ending(h)' => Ending(h)) /\ (EndsOnce(h) => EndsOnce(h)')  BY EndsKept
<1>7. EndOf(h)'  BY <1>1, <1>6 DEF EndOf, Excused
<1> QED  BY <1>3, <1>4, <1>5, <1>7 DEF HandleOK

LEMMA AllocateMoreKept == ASSUME Inv, AllocateMore PROVE Inv'
<1>0. "Allocate" \in TxnOp  BY DEF TxnOp
<1>1. /\ Serves("Allocate") /\ Respond(Msg, "Allocate", FALSE, IW_UNDEFINED) /\ Known
      /\ UNCHANGED <<ownerVars, listenVars, handleCounter, up, taken, overlapped>>
  BY DEF AllocateMore
<1>2. ServerLeaves  BY <1>1 DEF ServerLeaves
<1>3. /\ Msg \in TxnReq /\ \A m : PortFrom(1, m)
      /\ OwnerTyped' /\ Closes /\ ResponseOfItsKind'
      /\ \A g \in Handle : Told(g)' => Told(g)
      /\ UserRequest \in [session : Session, txn : 1..MaxTxn]
      /\ \A r : r = UserRequest => r.txn <= txn'[r.session] /\ ~Open(r)'
      /\ Msg.handle # IW_UNDEFINED => Msg.handle \in taken
  BY <1>0, <1>1, <1>2, RefusalLeaves
<1>4. PICK h, rsc, r : h = Msg.handle /\ rsc = Msg.rsc /\ r = UserRequest  OBVIOUS
<1>5. h \in DOMAIN ctxs /\ rsc \in Resource /\ r \in [session : Session, txn : 1..MaxTxn]
  BY <1>1, <1>3, <1>4 DEF Known, TxnReq
<1>6. h \in Handle /\ ctxs[h] \in Context /\ (h \in destroyed => Excused(h))
  BY <1>5, KnownHandle
<1>7. Told(h)
  <2>1. h # IW_UNDEFINED  BY <1>6 DEF Handle, IW_UNDEFINED
  <2> QED  BY <1>3, <1>4, <2>1 DEF Told
<1>8. r.txn <= txn'[r.session] /\ ~Open(r)'  BY <1>3, <1>4
<1>9. PICK d : d = ctxs[h]  OBVIOUS
<1>10. PICK c : c = [d EXCEPT !.state = "CONNECTING", !.last_user_request = r]  OBVIOUS
<1>11. PICK e : e = [c EXCEPT !.channels = @ \cup {rsc}]  OBVIOUS
<1>12. d \in Context  BY <1>6, <1>9
<1>13. /\ c \in Context /\ c.last_user_request = r /\ c.channels = d.channels
       /\ c.state = "CONNECTING"
  BY <1>5, <1>10, <1>12 DEF Context
<1>14. /\ e \in Context /\ e.last_user_request = r /\ e.channels = d.channels \cup {rsc}
       /\ e.state = "CONNECTING"
  BY <1>5, <1>11, <1>13 DEF Context
<1>15. \/ UNCHANGED <<ctxs, clientVars, broken, destroyVars>>
       \/ ctxs' = [ctxs EXCEPT ![h] = c] /\ UNCHANGED <<clientVars, broken, destroyVars>>
       \/ /\ ctxs' = [ctxs EXCEPT ![h] = c] \/ ctxs' = [ctxs EXCEPT ![h] = e]
          /\ DestroySession(h) /\ broken' = broken \cup {h} /\ UNCHANGED clientVars
       \/ /\ rsc \notin d.channels /\ ctxs' = [ctxs EXCEPT ![h] = e]
          /\ adding' = adding \cup {<<h, rsc>>} /\ UseSession(h)
          /\ UNCHANGED <<live, terminating, pending, lastRequestId, broken>>
  <2>1. [ctxs EXCEPT ![Msg.handle] = Connecting(@)] = [ctxs EXCEPT ![h] = c]
    BY <1>4, <1>9, <1>10 DEF Connecting
  <2>2. [ctxs EXCEPT ![Msg.handle] = WithChannel(Connecting(@))] = [ctxs EXCEPT ![h] = e]
    <3>1. Connecting(ctxs[Msg.handle]) = c  BY <1>4, <1>9, <1>10 DEF Connecting
    <3>2. WithChannel(c) = e  BY <1>4, <1>11 DEF WithChannel
    <3>3. WithChannel(Connecting(ctxs[Msg.handle])) = e  BY <3>1, <3>2
    <3> QED  BY <1>4, <3>3
  <2>3. /\ DestroySession(Msg.handle) => DestroySession(h)
        /\ UseSession(Msg.handle) => UseSession(h)
    BY <1>4 DEF DestroySession, UseSession
  <2> QED  BY <1>4, <1>9, <2>1, <2>2, <2>3 DEF AllocateMore
<1>16. UNCHANGED <<terminating, live, pending, lastRequestId, mrcpHandle>>
  BY <1>1, <1>15 DEF clientVars, ownerVars
<1>17. adding' = adding \/ adding' = adding \cup {<<h, rsc>>}  BY <1>15 DEF clientVars
<1>18. adding' \subseteq Handle \X Resource  BY <1>5, <1>6, <1>17 DEF Inv, Typed, ClientTyped
<1>19. ListenTyped' /\ ClientTyped'
  BY <1>1, <1>16, <1>18, SameListen DEF Inv, Typed, ClientTyped
<1>20. HistoryTyped'
  BY <1>1, <1>6, <1>15 DEF Inv, Typed, HistoryTyped, destroyVars, DestroySession, UseSession
<1>21. iocp' \in Seq(Posted) /\ handleCounter' \in 0..MaxHandles /\ up' \in BOOLEAN
  BY <1>1, <1>3 DEF PortFrom, Inv, Typed, ServerTyped
<1>22. DOMAIN ctxs \subseteq Handle /\ \A g \in DOMAIN ctxs : ctxs[g] \in Context
  BY DEF Inv, Typed, ServerTyped
<1>23. Typed'
  <2>1. DOMAIN ctxs' \subseteq Handle /\ \A g \in DOMAIN ctxs' : ctxs'[g] \in Context
    BY <1>13, <1>14, <1>15, <1>22
  <2> QED  BY <1>3, <1>19, <1>20, <1>21, <2>1 DEF Typed, ServerTyped
<1>24. handleCounter <= handleCounter' /\ lastRequestId' >= lastRequestId
  BY <1>1, <1>16, CounterKept
<1>25. \A p \in pending' : p.id <= lastRequestId'
  BY <1>16 DEF Inv, OfKind, IdsInOrder
<1>26. PICK m : m = Msg  OBVIOUS
<1>27. CASE UNCHANGED <<ctxs, clientVars, broken, destroyVars>>
  <2>1. FewerContexts /\ \A g \in Handle : PendingFrom(g)
    BY <1>16, <1>27 DEF FewerContexts, PendingFrom
  <2>2. UNCHANGED <<handleCounter, overlapped, broken, destroyed, misused, adding, taken>>
    BY <1>1, <1>27 DEF clientVars, destroyVars
  <2>3. \A u \in Session : mrcpHandle'[u] # IW_UNDEFINED => mrcpHandle'[u] \in taken'
    BY <1>16, <2>2 DEF Inv, Contexts, Named
  <2> QED  BY <1>3, <1>16, <1>23, <2>1, <2>2, <2>3, QuietKept
<1>28. ASSUME NEW x \in {c, e}, ctxs' = [ctxs EXCEPT ![h] = x]
       PROVE  (\A g \in DOMAIN ctxs' : UserOfKind(g)') /\ \A g \in Handle : ContextFrom(g)
  <2>1. x.last_user_request = r /\ d.channels \subseteq x.channels /\ x.state = "CONNECTING"
    BY <1>13, <1>14, <1>28
  <2> QED  BY <1>3, <1>5, <1>8, <1>9, <1>16, <1>23, <1>28, <2>1, Readdressed
<1>29. CASE ctxs' = [ctxs EXCEPT ![h] = c] /\ UNCHANGED <<clientVars, broken, destroyVars>>
  <2>1. UNCHANGED <<overlapped, broken, destroyed, misused, adding>>
    BY <1>1, <1>29 DEF clientVars, destroyVars
  <2>2. \A g \in Handle : HandleOK(g)'
    BY <1>3, <1>16, <1>23, <1>24, <1>28, <1>29, <2>1, ServedHandle
  <2>3. DestroyedOnce'  BY <2>1 DEF Inv, Contexts, DestroyedOnce
  <2> QED  BY <1>2, <1>3, <1>23, <1>24, <1>25, <1>28, <1>29, <2>2, <2>3, ServerKept
<1>30. CASE /\ ctxs' = [ctxs EXCEPT ![h] = c] \/ ctxs' = [ctxs EXCEPT ![h] = e]
            /\ DestroySession(h) /\ broken' = broken \cup {h} /\ UNCHANGED clientVars
  <2>1. adding' = adding /\ destroyed' = destroyed \cup {h} /\ overlapped' = overlapped
    BY <1>1, <1>30 DEF clientVars, DestroySession
  <2>2. (\A g \in DOMAIN ctxs' : UserOfKind(g)') /\ \A g \in Handle : ContextFrom(g)
    BY <1>28, <1>30
  <2>3. \A g \in Handle : HandleOK(g)'
    BY <1>3, <1>5, <1>16, <1>23, <1>24, <1>30, <2>1, <2>2, ServedHandle
  <2>4. DestroyedOnce'  BY <1>30, <2>1, UseKept DEF Excused
  <2> QED  BY <1>2, <1>3, <1>23, <1>24, <1>25, <2>2, <2>3, <2>4, ServerKept
<1>31. CASE /\ rsc \notin d.channels /\ ctxs' = [ctxs EXCEPT ![h] = e]
            /\ adding' = adding \cup {<<h, rsc>>} /\ UseSession(h)
            /\ UNCHANGED <<live, terminating, pending, lastRequestId, broken>>
  <2>1. destroyed' = destroyed /\ overlapped' = overlapped /\ broken' = broken
    BY <1>1, <1>31 DEF UseSession
  <2>2. (\A g \in DOMAIN ctxs' : UserOfKind(g)') /\ \A g \in Handle : ContextFrom(g)
    BY <1>28, <1>31
  <2>3. ASSUME NEW g \in Handle PROVE HandleOK(g)'
    <3>1. CASE g = h
      <4>1. h \in DOMAIN ctxs' /\ ctxs'[h] = e  BY <1>5, <1>31
      <4> QED  BY <1>1, <1>3, <1>5, <1>7, <1>9, <1>14, <1>16, <1>23, <1>31, <2>1, <3>1, <4>1, AddsSecond
    <3>2. CASE g # h
      <4>1. \A a \in adding' : a[1] = g => a \in adding  BY <1>31, <3>2
      <4> QED  BY <1>3, <1>16, <1>23, <1>24, <2>1, <2>2, <4>1, ServedHandle
    <3> QED  BY <3>1, <3>2
  <2>4. DestroyedOnce'  BY <1>6, <1>31, <2>1, UseKept DEF Excused
  <2> QED  BY <1>2, <1>3, <1>23, <1>24, <1>25, <2>2, <2>3, <2>4, ServerKept
<1> QED  BY <1>15, <1>27, <1>29, <1>30, <1>31

\* A handle that GetNewMrcpHandle gives out, and the channel of its new context.
LEMMA AddsToNew ==
    ASSUME Inv, Typed', NEW m, PortFrom(1, m), NEW h \in Handle, h = handleCounter + 1,
           handleCounter' = h, NEW rsc \in Resource, adding' = adding \cup {<<h, rsc>>},
           ctxs'[h].channels = {rsc}, ctxs'[h].state = "CONNECTING", Told(h)' => Told(h),
           UNCHANGED <<terminating, destroyed, overlapped, broken>>
    PROVE  HandleOK(h)'
<1>1. handleCounter \in Nat  BY DEF Inv, Typed, ServerTyped
<1>2. h > handleCounter /\ ~(h > handleCounter')  BY <1>1
<1>3. Fresh(h) /\ EndOf(h)  BY <1>2 DEF Inv, Contexts, HandleOK, NewOf
<1>4. ~Adding(h) /\ ~Ending(h) /\ ~Told(h)' /\ h \notin destroyed'  BY <1>3 DEF Fresh
<1>5. AddsOnce(h)'  BY <1>4, AddsFirst
<1>6. NewOf(h)'  BY <1>2 DEF NewOf
<1>7. ChannelsOf(h)'  BY <1>4 DEF ChannelsOf
<1>8. (Ending(h)' => Ending(h)) /\ (EndsOnce(h) => EndsOnce(h)')  BY EndsKept
<1>9. EndOf(h)'  BY <1>3, <1>4, <1>8 DEF EndOf
<1> QED  BY <1>5, <1>6, <1>7, <1>9 DEF HandleOK

\* A request that is served, and answered later.
LEMMA ServedRequest ==
    ASSUME Inv, NEW o \in TxnOp, Serves(o), ServerLeaves, response' = response
    PROVE  /\ Msg \in TxnReq /\ \A m : PortFrom(1, m)
           /\ OwnerTyped' /\ Closes /\ ResponseOfItsKind'
           /\ \A h \in Handle : Told(h)' => Told(h)
           /\ UserRequest \in [session : Session, txn : 1..MaxTxn]
           /\ \A r : r = UserRequest => /\ r.txn <= txn'[r.session]
                                        /\ Open(r)' => op'[r.session] = o
<1>1. PICK m : m = Msg  OBVIOUS
<1>2. m \in Posted /\ m = iocp[1] /\ m.kind = o /\ 1 \in 1..Len(iocp) /\ \A x : PortFrom(1, x)
  BY <1>1, ServesPort DEF Inv
<1>3. m \in TxnReq  BY <1>2, PostedFields
<1>4. m.session \in Session /\ m.txn \in 1..MaxTxn  BY <1>3 DEF TxnReq
<1>5. m.txn <= txn[m.session] /\ (Open(m) => op[m.session] = o)
  BY <1>2 DEF Inv, OfKind, AskedOfKind, Open
<1>6. UNCHANGED <<op, mrcpHandle, sync, correlation, txn, taken>>
  BY DEF ServerLeaves, ownerVars
<1>7. OwnerTyped' /\ ResponseOfItsKind'
  BY <1>6 DEF Inv, Typed, OwnerTyped, OfKind, ResponseOfItsKind
<1>8. Closes  BY <1>6 DEF Closes, Inv, Typed, OwnerTyped
<1>9. \A h \in Handle : Told(h)' => Told(h)  BY <1>6 DEF Told, Acked
<1>10. UserRequest = [session |-> m.session, txn |-> m.txn]  BY <1>1 DEF UserRequest
<1>11. UserRequest \in [session : Session, txn : 1..MaxTxn]  BY <1>4, <1>10
<1>12. ASSUME NEW r, r = UserRequest
       PROVE  r.txn <= txn'[r.session] /\ (Open(r)' => op'[r.session] = o)
  <2>1. r.session = m.session /\ r.txn = m.txn  BY <1>10, <1>12
  <2> QED  BY <1>5, <1>6, <2>1 DEF Open
<1> QED  BY <1>1, <1>2, <1>3, <1>7, <1>8, <1>9, <1>11, <1>12

LEMMA AllocateNewKept == ASSUME Inv, AllocateNew PROVE Inv'
<1>0. "Allocate" \in TxnOp  BY DEF TxnOp
<1>1. /\ Serves("Allocate")
      /\ UNCHANGED <<ownerVars, listenVars, up, historyVars, destroyVars>>
  BY DEF AllocateNew
<1>2. ServerLeaves /\ UNCHANGED <<mrcpHandle, taken, overlapped, broken, destroyed, misused>>
  BY <1>1 DEF ServerLeaves, historyVars, destroyVars, ownerVars
<1>3. ListenTyped' /\ HistoryTyped' /\ up' \in BOOLEAN
  BY <1>1, <1>2, SameListen DEF Inv, Typed, HistoryTyped, ServerTyped
<1>4. /\ DOMAIN ctxs \subseteq Handle /\ \A g \in DOMAIN ctxs : ctxs[g] \in Context
      /\ handleCounter \in 0..MaxHandles
  BY DEF Inv, Typed, ServerTyped
<1>5. PICK m : m = Msg  OBVIOUS
<1>6. CASE /\ Respond(Msg, "Allocate", FALSE, IW_UNDEFINED)
           /\ UNCHANGED <<ctxs, handleCounter, clientVars>>
  <2>1. /\ \A x : PortFrom(1, x)
        /\ OwnerTyped' /\ Closes /\ ResponseOfItsKind'
        /\ \A h \in Handle : Told(h)' => Told(h)
    BY <1>0, <1>1, <1>2, <1>6, RefusalLeaves
  <2>2. UNCHANGED <<adding, terminating, live, pending, lastRequestId>>  BY <1>6 DEF clientVars
  <2>3. iocp' \in Seq(Posted)  BY <2>1 DEF PortFrom
  <2>4. ServerTyped' /\ ClientTyped'
    BY <1>3, <1>4, <1>6, <2>2, <2>3 DEF ServerTyped, Inv, Typed, ClientTyped
  <2>5. Typed'  BY <1>3, <2>1, <2>4 DEF Typed
  <2>6. FewerContexts /\ \A g \in Handle : PendingFrom(g)
    BY <1>6, <2>2 DEF FewerContexts, PendingFrom
  <2>7. \A u \in Session : mrcpHandle'[u] # IW_UNDEFINED => mrcpHandle'[u] \in taken'
    BY <1>2 DEF Inv, Contexts, Named
  <2> QED  BY <1>2, <1>6, <2>1, <2>2, <2>5, <2>6, <2>7, QuietKept
<1>7. CASE /\ handleCounter < MaxHandles
           /\ handleCounter' = handleCounter + 1
           /\ ctxs' = Plus(ctxs, handleCounter',
                           [session |-> Msg.session, state |-> "CONNECTING",
                            channels |-> {Msg.rsc}, last_message |-> IW_UNDEFINED,
                            last_user_request |-> UserRequest])
           /\ live' = live \cup {handleCounter'}
           /\ adding' = adding \cup {<<handleCounter', Msg.rsc>>}
           /\ UNCHANGED <<response, terminating, pending, lastRequestId>>
  <2>1. /\ Msg \in TxnReq /\ \A x : PortFrom(1, x)
        /\ OwnerTyped' /\ Closes /\ ResponseOfItsKind'
        /\ \A h \in Handle : Told(h)' => Told(h)
        /\ UserRequest \in [session : Session, txn : 1..MaxTxn]
        /\ \A r : r = UserRequest => /\ r.txn <= txn'[r.session]
                                     /\ Open(r)' => op'[r.session] = "Allocate"
    BY <1>0, <1>1, <1>2, <1>7, ServedRequest
  <2>2. PICK h, rsc, r : h = handleCounter + 1 /\ rsc = Msg.rsc /\ r = UserRequest  OBVIOUS
  <2>3. PICK c : c = [session |-> m.session, state |-> "CONNECTING", channels |-> {rsc},
                      last_message |-> IW_UNDEFINED, last_user_request |-> r]
    OBVIOUS
  <2>4. /\ m.session \in Session /\ rsc \in Resource /\ r \in [session : Session, txn : 1..MaxTxn]
        /\ r.txn <= txn'[r.session] /\ (Open(r)' => op'[r.session] = "Allocate")
    BY <1>5, <2>1, <2>2 DEF TxnReq
  <2>5. /\ c \in Context /\ c.channels = {rsc} /\ c.state = "CONNECTING"
        /\ c.last_message = IW_UNDEFINED /\ c.last_user_request = r
    BY <2>3, <2>4 DEF Context
  <2>6. h \in Handle /\ handleCounter <= h /\ h \in 0..MaxHandles
    BY <1>4, <1>7, <2>2, BoundsAssumption DEF Handle
  <2>7. handleCounter' = h /\ adding' = adding \cup {<<h, rsc>>} /\ live' = live \cup {h}
    BY <1>7, <2>2
  <2>8. ctxs' = [x \in DOMAIN ctxs \cup {h} |-> IF x = h THEN c ELSE ctxs[x]]
    BY <1>5, <1>7, <2>2, <2>3 DEF Plus
  <2>9. /\ DOMAIN ctxs' = DOMAIN ctxs \cup {h} /\ ctxs'[h] = c
        /\ \A g \in DOMAIN ctxs : g # h => ctxs'[g] = ctxs[g]
    BY <2>8
  <2>10. Typed'
    <3>1. iocp' \in Seq(Posted)  BY <2>1 DEF PortFrom
    <3>2. ServerTyped'  BY <1>3, <1>4, <2>5, <2>6, <2>7, <2>9, <3>1 DEF ServerTyped
    <3>3. adding' \subseteq Handle \X Resource /\ live' \subseteq Handle
      BY <2>4, <2>6, <2>7 DEF Inv, Typed, ClientTyped
    <3>4. ClientTyped'  BY <1>7, <3>3 DEF Inv, Typed, ClientTyped
    <3> QED  BY <1>3, <2>1, <3>2, <3>4 DEF Typed
  <2>11. \A p \in pending' : p.id <= lastRequestId' /\ p.id # IW_UNDEFINED
    BY <1>7 DEF Inv, OfKind, IdsInOrder, Typed, ClientTyped, Pending, RequestId, IW_UNDEFINED
  <2>12. lastRequestId' >= lastRequestId  BY <1>7 DEF Inv, Typed, ClientTyped
  <2>13. ASSUME NEW g \in DOMAIN ctxs' PROVE UserOfKind(g)'
    <3>1. CASE g = h
      <4>1. ASSUME NEW i \in 1..Len(iocp'), iocp'[i].kind = "MESSAGE_RECEIVE_EVT"
            PROVE  iocp'[i].id # IW_UNDEFINED
        <5>1. PICK x : x = iocp'[i]  OBVIOUS
        <5>2. x \in Posted  BY <2>10, <4>1, <5>1, ElementOfSeq DEF Typed, ServerTyped
        <5>3. x.id \in RequestId  BY <4>1, <5>1, <5>2, PostedFields DEF AnswerEvt, CompleteEvt
        <5> QED  BY <5>1, <5>3 DEF RequestId, IW_UNDEFINED
      <4>2. ctxs'[g] = c  BY <2>9, <3>1
      <4> QED  BY <2>4, <2>5, <2>11, <4>1, <4>2 DEF UserOfKind, Open
    <3>2. CASE g # h
      <4>1. g \in DOMAIN ctxs /\ ctxs'[g] = ctxs[g]  BY <2>9, <3>2
      <4>2. PendingFrom(g)  BY <1>7 DEF PendingFrom
      <4> QED  BY <2>1, <2>10, <4>1, <4>2, UserKept
    <3> QED  BY <3>1, <3>2
  <2>14. ASSUME NEW g \in Handle PROVE HandleOK(g)'
    <3>1. CASE g = h
      BY <1>2, <1>7, <2>1, <2>2, <2>4, <2>5, <2>7, <2>9, <2>10, <3>1, AddsToNew
    <3>2. CASE g # h
      <4>1. \A a \in adding' : a[1] = g => a \in adding  BY <2>7, <3>2
      <4>2. ContextFrom(g)  BY <2>9, <3>2 DEF ContextFrom
      <4> QED  BY <1>2, <1>7, <2>1, <2>6, <2>7, <2>10, <4>1, <4>2, ServedHandle
    <3> QED  BY <3>1, <3>2
  <2>15. DestroyedOnce'  BY <1>2 DEF Inv, Contexts, DestroyedOnce
  <2> QED  BY <1>2, <2>1, <2>10, <2>11, <2>12, <2>13, <2>14, <2>15, ServerKept
<1> QED  BY <1>6, <1>7 DEF AllocateNew

LEMMA OpOfMethod ==
    /\ \A o \in {"Speak", "StopSpeak", "Recognize"} : MethodOf(o) \in Method /\ OpOf(MethodOf(o)) = o
    /\ \A m \in Method : OpOf(m) \in {"Speak", "StopSpeak", "Recognize"}
<1>1. MethodOf("Speak") = "SPEAK" /\ MethodOf("StopSpeak") = "STOP" /\ MethodOf("Recognize") = "RECOGNIZE"
  BY DEF MethodOf
<1>2. \A o, q \in {"Speak", "StopSpeak", "Recognize"} : MethodOf(o) = MethodOf(q) => o = q
  BY <1>1
<1>3. ASSUME NEW o \in {"Speak", "StopSpeak", "Recognize"} PROVE OpOf(MethodOf(o)) = o
  BY <1>2 DEF OpOf
<1>4. \A m \in Method : \E o \in {"Speak", "StopSpeak", "Recognize"} : MethodOf(o) = m
  BY <1>1 DEF Method, Completion
<1>5. \A o \in {"Speak", "StopSpeak", "Recognize"} : MethodOf(o) \in Method
  BY <1>1 DEF Method, Completion
<1> QED  BY <1>3, <1>4, <1>5

LEMMA SentKept ==
    ASSUME Inv, NEW o \in {"Speak", "StopSpeak", "Recognize"}, Sent(o)
    PROVE  Inv'
<1>0. o \in TxnOp  BY DEF TxnOp
<1>1. /\ Serves(o) /\ Msg.handle \in DOMAIN ctxs /\ ctxs[Msg.handle].state = "ALLOCATED"
      /\ UNCHANGED <<ownerVars, response, listenVars, handleCounter, up, historyVars>>
  BY DEF Sent, Known
<1>2. ServerLeaves /\ UNCHANGED <<taken, overlapped, broken>>
  BY <1>1 DEF ServerLeaves, historyVars
<1>3. /\ \A x : PortFrom(1, x)
      /\ OwnerTyped' /\ Closes /\ ResponseOfItsKind'
      /\ \A h \in Handle : Told(h)' => Told(h)
      /\ UserRequest \in [session : Session, txn : 1..MaxTxn]
      /\ \A r : r = UserRequest => /\ r.txn <= txn'[r.session]
                                   /\ Open(r)' => op'[r.session] = o
  BY <1>0, <1>1, <1>2, ServedRequest
<1>4. PICK h, id, r, mt : h = Msg.handle /\ id = lastRequestId + 1 /\ r = UserRequest /\ mt = MethodOf(o)
  OBVIOUS
<1>5. /\ UseSession(h) /\ lastRequestId' = id
      /\ pending' = pending \cup {[handle |-> h, id |-> id, method |-> mt, active |-> FALSE]}
      /\ UNCHANGED <<live, adding, terminating>>
      /\ ctxs' = [ctxs EXCEPT ![h] = [@ EXCEPT !.last_user_request = r, !.last_message = id]]
  BY <1>4 DEF Sent, SendMessageOk, UseSession
<1>6. /\ h \in DOMAIN ctxs /\ h \in Handle /\ ctxs[h] \in Context
      /\ h \in destroyed => Excused(h)
  BY <1>1, <1>4, KnownHandle
<1>7. PICK d : d = ctxs[h]  OBVIOUS
<1>8. PICK c : c = [d EXCEPT !.last_user_request = r, !.last_message = id]  OBVIOUS
<1>9. lastRequestId \in Nat /\ id \in RequestId /\ id \in Nat /\ id > lastRequestId
  BY <1>4 DEF Inv, Typed, ClientTyped, RequestId
<1>10. /\ r \in [session : Session, txn : 1..MaxTxn] /\ r.txn <= txn'[r.session]
       /\ Open(r)' => op'[r.session] = o
  BY <1>3, <1>4
<1>11. d \in Context /\ d.state = "ALLOCATED"  BY <1>1, <1>4, <1>6, <1>7
<1>12. /\ c \in Context /\ c.last_user_request = r /\ c.last_message = id /\ c.state = "ALLOCATED"
       /\ c.channels = d.channels
  BY <1>8, <1>9, <1>10, <1>11 DEF Context
<1>13. ctxs' = [ctxs EXCEPT ![h] = c]  BY <1>5, <1>7, <1>8
<1>14. /\ DOMAIN ctxs' = DOMAIN ctxs /\ ctxs'[h] = c
       /\ \A g \in DOMAIN ctxs : g # h => ctxs'[g] = ctxs[g]
  BY <1>6, <1>13
<1>15. PICK n : n = [handle |-> h, id |-> id, method |-> mt, active |-> FALSE]  OBVIOUS
<1>16. mt \in Method /\ OpOf(mt) = o  BY <1>4, OpOfMethod
<1>17. n \in Pending /\ n.handle = h /\ n.id = id /\ n.method = mt
  <2>1. n \in [handle : Handle, id : RequestId, method : Method, active : BOOLEAN] /\ ~n.active
    BY <1>6, <1>9, <1>15, <1>16
  <2> QED  BY <1>15, <2>1 DEF Pending
<1>18. pending' = pending \cup {n}  BY <1>5, <1>15
<1>19. Typed'
  <2>1. iocp' \in Seq(Posted)  BY <1>3 DEF PortFrom
  <2>2. ServerTyped'  BY <1>1, <1>12, <1>14, <2>1 DEF Inv, Typed, ServerTyped
  <2>3. ClientTyped'  BY <1>5, <1>9, <1>17, <1>18 DEF Inv, Typed, ClientTyped
  <2>4. HistoryTyped'  BY <1>2, <1>5, <1>6 DEF Inv, Typed, HistoryTyped, UseSession
  <2> QED  BY <1>1, <1>3, <2>2, <2>3, <2>4, SameListen DEF Typed
<1>20. \A p \in pending : p.id \in Nat /\ p.id <= lastRequestId
  BY DEF Inv, OfKind, IdsInOrder, Typed, ClientTyped, Pending, RequestId
<1>21. lastRequestId' >= lastRequestId /\ \A p \in pending' : p.id <= lastRequestId'
  BY <1>5, <1>9, <1>17, <1>18, <1>20
<1>22. ASSUME NEW g \in DOMAIN ctxs' PROVE UserOfKind(g)'
  <2>1. CASE g = h
    <3>1. ASSUME NEW p \in pending', p.id = id PROVE OpOf(p.method) = o
      <4>1. p \notin pending  BY <1>9, <1>20, <3>1
      <4> QED  BY <1>16, <1>17, <1>18, <4>1
    <3>2. ASSUME NEW i \in 1..Len(iocp'), iocp'[i].kind = "MESSAGE_RECEIVE_EVT"
          PROVE  iocp'[i].id # id
      <4>1. PICK x : x = iocp'[i]  OBVIOUS
      <4>2. x \in Posted  BY <1>19, <3>2, <4>1, ElementOfSeq DEF Typed, ServerTyped
      <4>3. x.id \in Nat
        BY <3>2, <4>1, <4>2, PostedFields DEF AnswerEvt, CompleteEvt, RequestId
      <4>4. \E j \in 1..Len(iocp) : x = iocp[j]
        <5>1. PortFrom(1, x)  BY <1>3
        <5> QED  BY <4>1, <5>1 DEF PortFrom
      <4>5. x.id <= lastRequestId  BY <3>2, <4>1, <4>4 DEF Inv, OfKind, IdsInOrder
      <4> QED  BY <1>9, <4>1, <4>3, <4>5
    <3>3. ctxs'[g] = c  BY <1>14, <2>1
    <3> QED  BY <1>10, <1>12, <3>1, <3>2, <3>3 DEF UserOfKind, Open
  <2>2. CASE g # h
    <3>1. g \in DOMAIN ctxs /\ ctxs'[g] = ctxs[g]  BY <1>14, <2>2
    <3>2. PendingFrom(g)  BY <1>17, <1>18, <2>2 DEF PendingFrom
    <3> QED  BY <1>3, <1>19, <3>1, <3>2, UserKept
  <2> QED  BY <2>1, <2>2
<1>23. destroyed' = destroyed  BY <1>5 DEF UseSession
<1>24. handleCounter <= handleCounter'  BY <1>1 DEF Inv, Typed, ServerTyped
<1>25. \A g \in Handle : ContextFrom(g)  BY <1>7, <1>11, <1>12, <1>14 DEF ContextFrom
<1>26. \A g \in Handle : HandleOK(g)'
  BY <1>2, <1>3, <1>5, <1>19, <1>23, <1>24, <1>25, ServedHandle
<1>27. DestroyedOnce'  BY <1>2, <1>5, <1>6, UseKept DEF Excused
<1> QED  BY <1>2, <1>3, <1>19, <1>21, <1>22, <1>26, <1>27, ServerKept

LEMMA WithoutContext ==
    ASSUME NEW h, ctxs' = Without(ctxs, h)
    PROVE  DOMAIN ctxs' = DOMAIN ctxs \ {h} /\ FewerContexts
BY DEF Without, FewerContexts

\* The steps that remove a context or leave all of them, and answer nobody.
LEMMA NobodyAnswered ==
    ASSUME Inv, ServerLeaves, response' = response
    PROVE  /\ OwnerTyped' /\ Closes /\ ResponseOfItsKind'
           /\ \A h \in Handle : Told(h)' => Told(h)
           /\ \A u \in Session : mrcpHandle'[u] # IW_UNDEFINED => mrcpHandle'[u] \in taken'
<1>1. UNCHANGED <<op, mrcpHandle, sync, correlation, txn, taken>>
  BY DEF ServerLeaves, ownerVars
<1>2. OwnerTyped' /\ ResponseOfItsKind'
  BY <1>1 DEF Inv, Typed, OwnerTyped, OfKind, ResponseOfItsKind
<1>3. Closes  BY <1>1 DEF Closes, Inv, Typed, OwnerTyped
<1>4. \A h \in Handle : Told(h)' => Told(h)  BY <1>1 DEF Told, Acked
<1>5. \A u \in Session : mrcpHandle'[u] # IW_UNDEFINED => mrcpHandle'[u] \in taken'
  BY <1>1 DEF Inv, Contexts, Named
<1> QED  BY <1>2, <1>3, <1>4, <1>5

LEMMA OnMrcpSessionTerminatedEvtKept == ASSUME Inv, OnMrcpSessionTerminatedEvt PROVE Inv'
<1>1. PICK h, m : h = Msg.handle /\ m = Msg  OBVIOUS
<1>2. /\ Serves("TERMINATE_EVT") /\ ctxs' = Without(ctxs, h)
      /\ UNCHANGED <<ownerVars, response, listenVars, handleCounter, up, clientVars, historyVars,
                     destroyVars>>
  BY <1>1 DEF OnMrcpSessionTerminatedEvt
<1>3. UNCHANGED <<adding, terminating, live, pending, lastRequestId, taken, overlapped, broken,
                  destroyed, misused, handleCounter, up>>
  BY <1>2 DEF clientVars, historyVars, destroyVars
<1>4. ServerLeaves  BY <1>2, <1>3 DEF ServerLeaves
<1>5. /\ OwnerTyped' /\ Closes /\ ResponseOfItsKind'
      /\ \A g \in Handle : Told(g)' => Told(g)
      /\ \A u \in Session : mrcpHandle'[u] # IW_UNDEFINED => mrcpHandle'[u] \in taken'
  BY <1>2, <1>4, NobodyAnswered
<1>6. DOMAIN ctxs' = DOMAIN ctxs \ {h} /\ FewerContexts  BY <1>2, WithoutContext
<1>7. PortFrom(1, m) /\ iocp' \in Seq(Posted)  BY <1>2, ServesPort DEF Inv
<1>8. ServerTyped'  BY <1>3, <1>6, <1>7 DEF Inv, Typed, ServerTyped, FewerContexts
<1>9. ClientTyped' /\ HistoryTyped'  BY <1>3 DEF Inv, Typed, ClientTyped, HistoryTyped
<1>10. Typed'  BY <1>2, <1>5, <1>8, <1>9, SameListen DEF Typed
<1>11. \A g \in Handle : PendingFrom(g)  BY <1>3 DEF PendingFrom
<1> QED  BY <1>3, <1>5, <1>6, <1>7, <1>10, <1>11, QuietKept

LEMMA ShutdownKept == ASSUME Inv, Shutdown PROVE Inv'
<1>1. PICK m : m = Msg  OBVIOUS
<1>2. /\ up' = FALSE /\ ctxs' = <<>> /\ iocp' = <<>>
      /\ live' = {} /\ adding' = {} /\ terminating' = {} /\ pending' = {}
      /\ UNCHANGED <<ownerVars, response, listenVars, handleCounter, lastRequestId, historyVars,
                     destroyVars>>
  BY DEF Shutdown
<1>3. UNCHANGED <<taken, overlapped, broken, destroyed, misused>>
  BY <1>2 DEF historyVars, destroyVars
<1>4. ServerLeaves  BY <1>2, <1>3 DEF ServerLeaves
<1>5. /\ OwnerTyped' /\ Closes /\ ResponseOfItsKind'
      /\ \A g \in Handle : Told(g)' => Told(g)
      /\ \A u \in Session : mrcpHandle'[u] # IW_UNDEFINED => mrcpHandle'[u] \in taken'
  BY <1>2, <1>4, NobodyAnswered
<1>6. DOMAIN ctxs' = {}  BY <1>2
<1>7. FewerContexts  BY <1>6 DEF FewerContexts
<1>8. PortFrom(1, m)  BY <1>2, EmptyPort
<1>9. ServerTyped'
  <2>1. iocp' \in Seq(Posted)  BY <1>8 DEF PortFrom
  <2>2. up' \in BOOLEAN  BY <1>2
  <2>3. DOMAIN ctxs' \subseteq Handle /\ \A h \in DOMAIN ctxs' : ctxs'[h] \in Context  BY <1>6
  <2>4. handleCounter' \in 0..MaxHandles  BY <1>2 DEF Inv, Typed, ServerTyped
  <2> QED  BY <2>1, <2>2, <2>3, <2>4 DEF ServerTyped
<1>10. ClientTyped' /\ HistoryTyped'  BY <1>2, <1>3 DEF Inv, Typed, ClientTyped, HistoryTyped
<1>11. Typed'  BY <1>2, <1>5, <1>9, <1>10, SameListen DEF Typed
<1>12. \A g \in Handle : PendingFrom(g)  BY <1>2 DEF PendingFrom
<1> QED  BY <1>2, <1>3, <1>5, <1>7, <1>8, <1>11, <1>12, QuietKept

LEMMA UponTearDownReqKept == ASSUME Inv, UponTearDownReq PROVE Inv'
<1>1. PICK h, m : h = Msg.handle /\ m = Msg  OBVIOUS
<1>2. /\ Serves("TearDown") /\ ctxs' = Without(ctxs, h)
      /\ UNCHANGED <<ownerVars, response, listenVars, handleCounter, up, live, adding,
                     lastRequestId, taken, broken>>
  BY <1>1 DEF UponTearDownReq
<1>3. ServerLeaves  BY <1>2 DEF ServerLeaves
<1>4. /\ OwnerTyped' /\ Closes /\ ResponseOfItsKind'
      /\ \A g \in Handle : Told(g)' => Told(g)
      /\ \A u \in Session : mrcpHandle'[u] # IW_UNDEFINED => mrcpHandle'[u] \in taken'
  BY <1>2, <1>3, NobodyAnswered
<1>5. DOMAIN ctxs' = DOMAIN ctxs \ {h} /\ FewerContexts  BY <1>2, WithoutContext
<1>6. PortFrom(1, m) /\ iocp' \in Seq(Posted)  BY <1>2, ServesPort DEF Inv
<1>7. ServerTyped'  BY <1>2, <1>5, <1>6 DEF Inv, Typed, ServerTyped, FewerContexts
<1>8. ListenTyped'  BY <1>2, SameListen
<1>9. CASE h \notin DOMAIN ctxs
  <2>1. UNCHANGED <<terminating, pending, destroyed, misused, overlapped>>
    BY <1>1, <1>9 DEF UponTearDownReq, Known, destroyVars
  <2>2. ClientTyped' /\ HistoryTyped'  BY <1>2, <2>1 DEF Inv, Typed, ClientTyped, HistoryTyped
  <2>3. Typed'  BY <1>4, <1>7, <1>8, <2>2 DEF Typed
  <2>4. \A g \in Handle : PendingFrom(g)  BY <2>1 DEF PendingFrom
  <2> QED  BY <1>2, <1>4, <1>5, <1>6, <2>1, <2>3, <2>4, QuietKept
<1>10. CASE h \in DOMAIN ctxs
  <2>1. /\ terminating' = terminating \cup {h} /\ pending' = {p \in pending : p.handle # h}
        /\ UseSession(h)
        /\ overlapped' = IF \/ \E a \in adding : a[1] = h
                            \/ \E i \in 2..Len(iocp) : /\ iocp[i].kind = "CHANNEL_ADD_EVT"
                                                       /\ iocp[i].handle = h
                         THEN overlapped \cup {h} ELSE overlapped
    BY <1>1, <1>10 DEF UponTearDownReq, Known, UseSession
  <2>2. /\ h \in Handle /\ h <= handleCounter /\ ~Ending(h)
        /\ h \in destroyed => Excused(h)
    BY <1>10, KnownHandle
  <2>3. overlapped \subseteq overlapped' /\ destroyed' = destroyed  BY <2>1 DEF UseSession
  <2>4. ClientTyped' /\ HistoryTyped'
    <3>1. overlapped' \subseteq Handle /\ misused' \subseteq Handle
      BY <2>1, <2>2 DEF Inv, Typed, HistoryTyped, UseSession
    <3> QED  BY <1>2, <2>1, <2>2, <2>3, <3>1 DEF Inv, Typed, ClientTyped, HistoryTyped
  <2>5. Typed'  BY <1>4, <1>7, <1>8, <2>4 DEF Typed
  <2>6. lastRequestId' >= lastRequestId /\ handleCounter <= handleCounter'
    BY <1>2 DEF Inv, Typed, ClientTyped, ServerTyped
  <2>7. \A p \in pending' : p.id <= lastRequestId'  BY <1>2, <2>1 DEF Inv, OfKind, IdsInOrder
  <2>8. ASSUME NEW g \in DOMAIN ctxs' PROVE UserOfKind(g)'
    <3>1. g \in DOMAIN ctxs /\ ctxs'[g] = ctxs[g]  BY <1>5 DEF FewerContexts
    <3>2. PendingFrom(g)  BY <2>1 DEF PendingFrom
    <3> QED  BY <1>4, <1>6, <2>5, <3>1, <3>2, UserKept
  <2>9. ASSUME NEW g \in Handle PROVE HandleOK(g)'
    <3>1. CASE g = h
      <4>1. (Adding(h)' => Adding(h)) /\ (AddsOnce(h) => AddsOnce(h)')
        BY <1>2, <1>6, AddsKept
      <4>2. AddsOnce(h)'  BY <2>2, <4>1 DEF Inv, Contexts, HandleOK
      <4>3. NewOf(h)'
        <5>1. h \in Nat /\ handleCounter \in Nat /\ h <= handleCounter'
          BY <1>2, <2>2 DEF Handle, Inv, Typed, ServerTyped
        <5>2. ~(h > handleCounter')  BY <1>2, <5>1
        <5> QED  BY <5>2 DEF NewOf
      <4>4. ChannelsOf(h)'  BY <1>5 DEF ChannelsOf
      <4>5. \A i \in 1..Len(iocp') : ~EndPosted(i, h)'
        BY <1>6, <2>2 DEF PortFrom, EndPosted, Ending
      <4>6. EndsOnce(h)'  BY <4>5 DEF EndsOnce
      <4>7. ASSUME Adding(h)' PROVE h \in overlapped'
        <5>1. CASE \E a \in adding : a[1] = h  BY <2>1, <5>1
        <5>2. CASE \E i \in 1..Len(iocp') : AddPosted(i, h)'
          <6>1. PICK i \in 1..Len(iocp') : AddPosted(i, h)'  BY <5>2
          <6>2. i + 1 \in 2..Len(iocp) /\ iocp'[i] = iocp[i + 1]
            BY <1>2, <6>1, ServesPort DEF Inv
          <6> QED  BY <2>1, <6>1, <6>2 DEF AddPosted
        <5> QED  BY <1>2, <4>7, <5>1, <5>2 DEF Adding
      <4>8. EndOf(h)'
        BY <1>2, <1>5, <2>2, <2>3, <4>6, <4>7 DEF EndOf, Excused
      <4> QED  BY <3>1, <4>2, <4>3, <4>4, <4>8 DEF HandleOK
    <3>2. CASE g # h
      <4>1. ContextFrom(g)  BY <1>5 DEF ContextFrom, FewerContexts
      <4> QED  BY <1>2, <1>4, <1>6, <2>1, <2>3, <2>5, <2>6, <3>2, <4>1, ServedHandle
    <3> QED  BY <3>1, <3>2
  <2>10. DestroyedOnce'  BY <1>2, <2>1, <2>2, <2>3, UseKept DEF Excused
  <2> QED  BY <1>3, <1>4, <1>6, <2>5, <2>6, <2>7, <2>8, <2>9, <2>10, ServerKept
<1> QED  BY <1>9, <1>10

\* A session is destroyed: nothing more is heard of it, or it is excused.
LEMMA DestroyedHandle ==
    ASSUME Inv, Typed', NEW m, PortFrom(1, m), NEW h \in Handle, h <= handleCounter,
           h \notin DOMAIN ctxs', Excused(h) \/ (~Ending(h)' /\ ~Adding(h)'),
           UNCHANGED <<adding, terminating, handleCounter, overlapped, broken>>
    PROVE  HandleOK(h)'
<1>1. (Adding(h)' => Adding(h)) /\ (AddsOnce(h) => AddsOnce(h)')  BY AddsKept
<1>2. (Ending(h)' => Ending(h)) /\ (EndsOnce(h) => EndsOnce(h)')  BY EndsKept
<1>3. AddsOnce(h) /\ EndOf(h)  BY DEF Inv, Contexts, HandleOK
<1>4. NewOf(h)'
  <2>1. h \in Nat /\ handleCounter \in Nat /\ h <= handleCounter'
    BY DEF Handle, Inv, Typed, ServerTyped
  <2>2. ~(h > handleCounter')  BY <2>1
  <2> QED  BY <2>2 DEF NewOf
<1>5. ChannelsOf(h)'  BY DEF ChannelsOf
<1>6. EndOf(h)'  BY <1>1, <1>2, <1>3 DEF EndOf, Excused
<1> QED  BY <1>1, <1>3, <1>4, <1>5, <1>6 DEF HandleOK

LEMMA OnMrcpSessionTerminatedRspKept == ASSUME Inv, OnMrcpSessionTerminatedRsp PROVE Inv'
<1>1. PICK h, m : h = Msg.handle /\ m = Msg  OBVIOUS
<1>2. /\ Serves("TERMINATE_RSP") /\ DestroySession(h)
      /\ UNCHANGED <<ownerVars, response, listenVars, serverVars, clientVars, historyVars>>
  BY <1>1 DEF OnMrcpSessionTerminatedRsp, DestroySession
<1>3. UNCHANGED <<adding, terminating, live, pending, lastRequestId, taken, overlapped, broken,
                  ctxs, handleCounter, up>>
  BY <1>2 DEF clientVars, historyVars, serverVars
<1>4. ServerLeaves  BY <1>2, <1>3 DEF ServerLeaves
<1>5. /\ OwnerTyped' /\ Closes /\ ResponseOfItsKind'
      /\ \A g \in Handle : Told(g)' => Told(g)
  BY <1>2, <1>4, NobodyAnswered
<1>6. FewerContexts  BY <1>3 DEF FewerContexts
<1>7. /\ PortFrom(1, m) /\ iocp' \in Seq(Posted) /\ m \in Posted /\ m = iocp[1]
      /\ m.kind = "TERMINATE_RSP" /\ 1 \in 1..Len(iocp)
      /\ \A i \in 1..Len(iocp') : i + 1 \in 2..Len(iocp) /\ iocp'[i] = iocp[i + 1]
  BY <1>1, <1>2, ServesPort DEF Inv
<1>8. h \in Handle  BY <1>1, <1>7, PostedFields DEF IsRequest, TxnOp
<1>9. EndPosted(1, h) /\ Ending(h)  BY <1>1, <1>7 DEF EndPosted, Ending
<1>10. NewOf(h) /\ EndOf(h)  BY <1>8 DEF Inv, Contexts, HandleOK
<1>11. h <= handleCounter
  <2>1. ~(h > handleCounter)  BY <1>9, <1>10 DEF NewOf, Fresh
  <2> QED  BY <1>8, <2>1 DEF Inv, Typed, ServerTyped, Handle
<1>12. /\ h \notin DOMAIN ctxs /\ EndsOnce(h) /\ (Adding(h) => h \in overlapped)
       /\ h \in destroyed => Excused(h)
  BY <1>9, <1>10 DEF EndOf
<1>13. ~Ending(h)'
  <2>1. \A i \in 1..Len(iocp') : ~EndPosted(i, h)'
    <3>1. SUFFICES ASSUME NEW i \in 1..Len(iocp'), EndPosted(i, h)' PROVE FALSE  OBVIOUS
    <3>2. i + 1 \in 2..Len(iocp) /\ EndPosted(i + 1, h)  BY <1>7, <3>1 DEF EndPosted
    <3>3. i + 1 \in 1..Len(iocp) /\ i + 1 # 1  BY <3>2
    <3> QED  BY <1>7, <1>9, <1>12, <3>2, <3>3 DEF EndsOnce
  <2>2. h \notin terminating  BY <1>7, <1>9, <1>12 DEF EndsOnce
  <2> QED  BY <1>3, <2>1, <2>2 DEF Ending
<1>14. Excused(h) \/ (~Ending(h)' /\ ~Adding(h)')
  <2>1. Adding(h)' => Adding(h)  BY <1>3, <1>7, AddsKept
  <2> QED  BY <1>12, <1>13, <2>1 DEF Excused
<1>15. Typed'
  <2>1. ServerTyped' /\ ClientTyped'
    BY <1>3, <1>7 DEF Inv, Typed, ServerTyped, ClientTyped
  <2>2. HistoryTyped'  BY <1>2, <1>3, <1>8 DEF Inv, Typed, HistoryTyped, DestroySession
  <2> QED  BY <1>2, <1>5, <2>1, <2>2, SameListen DEF Typed
<1>16. handleCounter <= handleCounter' /\ lastRequestId' >= lastRequestId  BY <1>3, CounterKept
<1>17. \A p \in pending' : p.id <= lastRequestId'  BY <1>3 DEF Inv, OfKind, IdsInOrder
<1>18. ASSUME NEW g \in DOMAIN ctxs' PROVE UserOfKind(g)'
  <2>1. PendingFrom(g)  BY <1>3 DEF PendingFrom
  <2> QED  BY <1>3, <1>5, <1>7, <1>15, <2>1, UserKept
<1>19. ASSUME NEW g \in Handle PROVE HandleOK(g)'
  <2>1. CASE g = h  BY <1>3, <1>7, <1>11, <1>12, <1>14, <1>15, <2>1, DestroyedHandle
  <2>2. CASE g # h
    <3>1. ContextFrom(g)  BY <1>3 DEF ContextFrom
    <3>2. g \in destroyed' => g \in destroyed  BY <1>2, <2>2 DEF DestroySession
    <3> QED  BY <1>3, <1>5, <1>7, <1>15, <1>16, <3>1, <3>2, ServedHandle
  <2> QED  BY <2>1, <2>2
<1>20. DestroyedOnce'  BY <1>2, <1>3, <1>12, UseKept DEF Excused
<1> QED  BY <1>4, <1>5, <1>7, <1>15, <1>16, <1>17, <1>18, <1>19, <1>20, ServerKept

LEMMA OnMrcpChannelAddEvtKept == ASSUME Inv, OnMrcpChannelAddEvt PROVE Inv'
<1>1. PICK h, m, q : h = Msg.handle /\ m = Msg /\ q = ctxs[Msg.handle].last_user_request  OBVIOUS
<1>2. /\ Serves("CHANNEL_ADD_EVT")
      /\ UNCHANGED <<ownerVars, listenVars, handleCounter, up, clientVars, historyVars>>
  BY DEF OnMrcpChannelAddEvt
<1>3. UNCHANGED <<adding, terminating, live, pending, lastRequestId, taken, overlapped, broken,
                  handleCounter, up>>
  BY <1>2 DEF clientVars, historyVars
<1>4. ServerLeaves  BY <1>2, <1>3 DEF ServerLeaves
<1>5. /\ PortFrom(1, m) /\ iocp' \in Seq(Posted) /\ m \in Posted /\ m = iocp[1]
      /\ m.kind = "CHANNEL_ADD_EVT" /\ 1 \in 1..Len(iocp)
      /\ \A i \in 1..Len(iocp') : i + 1 \in 2..Len(iocp) /\ iocp'[i] = iocp[i + 1]
  BY <1>1, <1>2, ServesPort DEF Inv
<1>6. h \in Handle /\ m.status \in Status  BY <1>1, <1>5, PostedFields DEF AddEvt
<1>7. AddPosted(1, h) /\ Adding(h)  BY <1>1, <1>5 DEF AddPosted, Adding
<1>8. NewOf(h) /\ EndOf(h) /\ AddsOnce(h) /\ ChannelsOf(h)  BY <1>6 DEF Inv, Contexts, HandleOK
<1>9. h <= handleCounter
  <2>1. ~(h > handleCounter)  BY <1>7, <1>8 DEF NewOf, Fresh
  <2> QED  BY <1>6, <2>1 DEF Inv, Typed, ServerTyped, Handle
<1>10. (Ending(h) => h \in overlapped) /\ (h \in destroyed => Excused(h))
  BY <1>7, <1>8 DEF EndOf
<1>11. ~Adding(h)'
  <2>1. \A i \in 1..Len(iocp') : ~AddPosted(i, h)'
    <3>1. SUFFICES ASSUME NEW i \in 1..Len(iocp'), AddPosted(i, h)' PROVE FALSE  OBVIOUS
    <3>2. i + 1 \in 2..Len(iocp) /\ AddPosted(i + 1, h)  BY <1>5, <3>1 DEF AddPosted
    <3>3. i + 1 \in 1..Len(iocp) /\ i + 1 # 1  BY <3>2
    <3> QED  BY <1>5, <1>7, <1>8, <3>2, <3>3 DEF AddsOnce
  <2>2. \A a \in adding : a[1] # h  BY <1>5, <1>7, <1>8 DEF AddsOnce
  <2> QED  BY <1>3, <2>1, <2>2 DEF Adding
<1>12. Excused(h) \/ (~Ending(h)' /\ ~Adding(h)')
  <2>1. Ending(h)' => Ending(h)  BY <1>3, <1>5, EndsKept
  <2> QED  BY <1>10, <1>11, <2>1 DEF Excused
<1>13. ListenTyped' /\ ClientTyped'  BY <1>2, <1>3, SameListen DEF Inv, Typed, ClientTyped
<1>14. handleCounter <= handleCounter' /\ lastRequestId' >= lastRequestId  BY <1>3, CounterKept
<1>15. /\ \A p \in pending' : p.id <= lastRequestId'
       /\ \A g \in Handle : PendingFrom(g)
  BY <1>3 DEF Inv, OfKind, IdsInOrder, PendingFrom
<1>16. CASE DestroySession(h) /\ FewerContexts /\ h \notin DOMAIN ctxs' /\ response' = response
  <2>1. /\ OwnerTyped' /\ Closes /\ ResponseOfItsKind'
        /\ \A g \in Handle : Told(g)' => Told(g)
    BY <1>4, <1>16, NobodyAnswered
  <2>2. Typed'
    <3>1. ServerTyped'  BY <1>3, <1>5, <1>16 DEF Inv, Typed, ServerTyped, FewerContexts
    <3>2. HistoryTyped'  BY <1>3, <1>6, <1>16 DEF Inv, Typed, HistoryTyped, DestroySession
    <3> QED  BY <1>13, <2>1, <3>1, <3>2 DEF Typed
  <2>3. ASSUME NEW g \in DOMAIN ctxs' PROVE UserOfKind(g)'
    <3>1. g \in DOMAIN ctxs /\ ctxs'[g] = ctxs[g] /\ g \in Handle
      BY <1>16, <2>2 DEF FewerContexts, Typed, ServerTyped
    <3> QED  BY <1>5, <1>15, <2>1, <2>2, <3>1, UserKept
  <2>4. ASSUME NEW g \in Handle PROVE HandleOK(g)'
    <3>1. CASE g = h  BY <1>3, <1>5, <1>9, <1>12, <1>16, <2>2, <3>1, DestroyedHandle
    <3>2. CASE g # h
      <4>1. ContextFrom(g)  BY <1>16 DEF ContextFrom, FewerContexts
      <4>2. g \in destroyed' => g \in destroyed  BY <1>16, <3>2 DEF DestroySession
      <4> QED  BY <1>3, <1>5, <1>14, <2>1, <2>2, <4>1, <4>2, ServedHandle
    <3> QED  BY <3>1, <3>2
  <2>5. DestroyedOnce'  BY <1>3, <1>10, <1>16, UseKept DEF Excused
  <2> QED  BY <1>4, <1>5, <1>14, <1>15, <2>1, <2>2, <2>3, <2>4, <2>5, ServerKept
<1>17. CASE /\ h \in DOMAIN ctxs /\ UNCHANGED <<destroyed, misused>>
            /\ ctxs' = [ctxs EXCEPT ![h].state = "ALLOCATED"] \/ ctxs' = ctxs
            /\ \E ack \in BOOLEAN, v \in Handle \cup {IW_UNDEFINED} :
                  Respond(q, "Allocate", ack, v) /\ (ack => v = h)
  <2>1. PICK ack \in BOOLEAN, v \in Handle \cup {IW_UNDEFINED} :
           Respond(q, "Allocate", ack, v) /\ (ack => v = h)
    BY <1>17
  <2>2. PICK d : d = ctxs[h]  OBVIOUS
  <2>3. d \in Context /\ d.state = "CONNECTING" /\ q = d.last_user_request
    BY <1>1, <1>7, <1>17, <2>2, KnownHandle
  <2>4. q.session \in Session /\ q.txn \in Nat
    <3>1. q \in [session : Session, txn : 1..MaxTxn]  BY <2>3 DEF Context
    <3> QED  BY <3>1
  <2>5. Open(q) => op[q.session] = "Allocate"
    BY <1>17, <2>2, <2>3 DEF Inv, OfKind, UserOfKind
  <2>6. v \in Nat /\ "Allocate" \in TxnOp  BY <1>6, <2>1 DEF Handle, TxnOp, IW_UNDEFINED
  <2>7. ack => v \in Handle  BY <1>6, <2>1
  <2>8. Responds(q, "Allocate", ack, v)
    BY <2>1, <2>4, <2>6, <2>7, RespondResponds DEF Inv
  <2>9. /\ OwnerTyped' /\ Closes /\ ResponseOfItsKind'
        /\ \A g \in Handle : Told(g)' => Told(g) \/ (ack /\ g = v)
    BY <1>4, <2>4, <2>5, <2>6, <2>7, <2>8, RespondedKept
  <2>10. PICK c : c = [d EXCEPT !.state = "ALLOCATED"]  OBVIOUS
  <2>11. /\ c \in Context /\ c.state = "ALLOCATED" /\ c.channels = d.channels
         /\ c.last_user_request = d.last_user_request /\ c.last_message = d.last_message
    BY <2>3, <2>10 DEF Context
  <2>12. ctxs' = [ctxs EXCEPT ![h] = c] \/ ctxs' = ctxs  BY <1>17, <2>2, <2>10
  <2>13. /\ DOMAIN ctxs' = DOMAIN ctxs /\ ctxs'[h] \in {c, d}
         /\ \A g \in DOMAIN ctxs : g # h => ctxs'[g] = ctxs[g]
    BY <1>17, <2>2, <2>12
  <2>14. Typed'
    <3>1. \A g \in DOMAIN ctxs' : ctxs'[g] \in Context
      BY <2>3, <2>11, <2>13 DEF Inv, Typed, ServerTyped
    <3>2. ServerTyped'  BY <1>3, <1>5, <2>13, <3>1 DEF Inv, Typed, ServerTyped
    <3>3. HistoryTyped'  BY <1>3, <1>17 DEF Inv, Typed, HistoryTyped
    <3> QED  BY <1>13, <2>9, <3>2, <3>3 DEF Typed
  <2>15. ASSUME NEW g \in DOMAIN ctxs' PROVE UserOfKind(g)'
    <3>1. /\ g \in DOMAIN ctxs /\ g \in Handle
          /\ ctxs'[g].last_user_request = ctxs[g].last_user_request
          /\ ctxs'[g].last_message = ctxs[g].last_message
          /\ ctxs'[g].state \in {ctxs[g].state, "ALLOCATED"}
      BY <2>2, <2>11, <2>13, <2>14 DEF Typed, ServerTyped
    <3> QED  BY <1>5, <1>15, <2>9, <2>14, <3>1, UserKept
  <2>16. ASSUME NEW g \in Handle PROVE HandleOK(g)'
    <3>1. CASE g = h
      <4>1. (AddsOnce(h) => AddsOnce(h)')  BY <1>3, <1>5, AddsKept
      <4>2. (Ending(h)' => Ending(h)) /\ (EndsOnce(h) => EndsOnce(h)')  BY <1>3, <1>5, EndsKept
      <4>3. NewOf(h)'
        <5>1. h \in Nat /\ handleCounter \in Nat  BY <1>6 DEF Handle, Inv, Typed, ServerTyped
        <5>2. ~(h > handleCounter')  BY <1>3, <1>9, <5>1
        <5> QED  BY <5>2 DEF NewOf
      <4>4. ChannelsOf(h)'
        <5>1. d.channels # {}  BY <1>17, <2>2, KnownHandle
        <5>2. ctxs'[h].channels # {}  BY <2>11, <2>13, <5>1
        <5> QED  BY <1>11, <5>2 DEF ChannelsOf
      <4>5. EndOf(h)'  BY <1>3, <1>8, <1>11, <1>17, <2>13, <4>2 DEF EndOf, Excused
      <4> QED  BY <1>8, <3>1, <4>1, <4>3, <4>4, <4>5 DEF HandleOK
    <3>2. CASE g # h
      <4>1. ContextFrom(g)  BY <2>13, <3>2 DEF ContextFrom
      <4>2. Told(g)' => Told(g)  BY <2>1, <2>9, <3>2
      <4> QED  BY <1>3, <1>5, <1>14, <1>17, <2>14, <4>1, <4>2, ServedHandle
    <3> QED  BY <3>1, <3>2
  <2>17. DestroyedOnce'  BY <1>3, <1>17 DEF Inv, Contexts, DestroyedOnce
  <2> QED  BY <1>4, <1>5, <1>14, <1>15, <2>9, <2>14, <2>15, <2>16, <2>17, ServerKept
<1>18. CASE ~Known /\ DestroySession(Msg.handle) /\ UNCHANGED <<ctxs, response>>
  <2>1. DestroySession(h) /\ h \notin DOMAIN ctxs  BY <1>1, <1>18 DEF Known, DestroySession
  <2>2. FewerContexts /\ h \notin DOMAIN ctxs'  BY <1>18, <2>1 DEF FewerContexts
  <2> QED  BY <1>16, <1>18, <2>1, <2>2
<1>19. CASE Known /\ ctxs' = Without(ctxs, Msg.handle) /\ DestroySession(Msg.handle)
            /\ response' = response
  <2>1. DestroySession(h) /\ ctxs' = Without(ctxs, h)  BY <1>1, <1>19 DEF DestroySession
  <2>2. DOMAIN ctxs' = DOMAIN ctxs \ {h} /\ FewerContexts  BY <2>1, WithoutContext
  <2> QED  BY <1>16, <1>19, <2>1, <2>2
<1>20. CASE /\ Known
            /\ ctxs' = [ctxs EXCEPT ![Msg.handle].state = "ALLOCATED"]
            /\ Respond(ctxs[Msg.handle].last_user_request, "Allocate", Msg.status = "SUCCESS", Msg.handle)
            /\ UNCHANGED destroyVars
  <2>1. PICK ack \in BOOLEAN : ack = (Msg.status = "SUCCESS")  OBVIOUS
  <2>2. Respond(q, "Allocate", ack, h)  BY <1>1, <1>20, <2>1 DEF Respond
  <2>3. ctxs' = [ctxs EXCEPT ![h].state = "ALLOCATED"] /\ h \in DOMAIN ctxs
        /\ UNCHANGED <<destroyed, misused>>
    BY <1>1, <1>20 DEF Known, destroyVars
  <2> QED  BY <1>6, <1>17, <2>2, <2>3
<1>21. CASE /\ Known
            /\ Respond(ctxs[Msg.handle].last_user_request, "Allocate", FALSE, IW_UNDEFINED)
            /\ UNCHANGED <<ctxs, destroyVars>>
  <2>1. PICK ack \in BOOLEAN : ack = FALSE  OBVIOUS
  <2>2. Respond(q, "Allocate", ack, IW_UNDEFINED)  BY <1>1, <1>21, <2>1 DEF Respond
  <2>3. ctxs' = ctxs /\ h \in DOMAIN ctxs /\ UNCHANGED <<destroyed, misused>>
    BY <1>1, <1>21 DEF Known, destroyVars
  <2> QED  BY <1>17, <2>1, <2>2, <2>3
<1> QED  BY <1>18, <1>19, <1>20, <1>21 DEF OnMrcpChannelAddEvt

LEMMA OnMrcpMessageReceivedKept == ASSUME Inv, OnMrcpMessageReceived PROVE Inv'
<1>1. PICK h, m, q, s : /\ h = Msg.handle /\ m = Msg /\ q = ctxs[Msg.handle].last_user_request
                        /\ s = ctxs[Msg.handle].session
  OBVIOUS
<1>2. /\ Serves("MESSAGE_RECEIVE_EVT")
      /\ UNCHANGED <<ownerVars, listener, stopped, serverVars, clientVars, historyVars, destroyVars>>
  BY DEF OnMrcpMessageReceived
<1>3. UNCHANGED <<adding, terminating, live, pending, lastRequestId, taken, overlapped, broken,
                  ctxs, handleCounter, up, destroyed, misused, mrcpHandle>>
  BY <1>2 DEF clientVars, historyVars, serverVars, destroyVars, ownerVars
<1>4. ServerLeaves  BY <1>2, <1>3 DEF ServerLeaves
<1>5. /\ PortFrom(1, m) /\ iocp' \in Seq(Posted) /\ m \in Posted /\ m = iocp[1]
      /\ m.kind = "MESSAGE_RECEIVE_EVT" /\ 1 \in 1..Len(iocp)
  BY <1>1, <1>2, ServesPort DEF Inv
<1>6. m \in AnswerEvt \cup CompleteEvt  BY <1>5, PostedFields
<1>7. /\ m.handle \in Handle /\ m.id \in RequestId /\ m.method \in Method /\ m.ok \in BOOLEAN
      /\ m.complete => m.method \in Completion
  <2>1. CASE m \in AnswerEvt  BY <2>1 DEF AnswerEvt
  <2>2. CASE m \in CompleteEvt  BY <2>2 DEF CompleteEvt, Method
  <2> QED  BY <1>6, <2>1, <2>2
<1>8. ServerTyped' /\ ClientTyped' /\ HistoryTyped'
  BY <1>3, <1>5 DEF Inv, Typed, ServerTyped, ClientTyped, HistoryTyped
<1>9. FewerContexts /\ \A g \in Handle : PendingFrom(g)  BY <1>3 DEF FewerContexts, PendingFrom
<1>10. \A u \in Session : mrcpHandle'[u] # IW_UNDEFINED => mrcpHandle'[u] \in taken'
  BY <1>3 DEF Inv, Contexts, Named
<1>11. ASSUME OwnerTyped', ListenTyped', Closes, ResponseOfItsKind',
              \A g \in Handle : Told(g)' => Told(g)
       PROVE  Inv'
  <2>1. Typed'  BY <1>8, <1>11 DEF Typed
  <2> QED  BY <1>3, <1>5, <1>9, <1>10, <1>11, <2>1, QuietKept
<1>12. CASE UNCHANGED <<response, inbound>>
  <2>1. /\ OwnerTyped' /\ Closes /\ ResponseOfItsKind' /\ \A g \in Handle : Told(g)' => Told(g)
    BY <1>4, <1>12, NobodyAnswered
  <2>2. ListenTyped'  BY <1>2, <1>12 DEF Inv, Typed, ListenTyped
  <2> QED  BY <1>11, <2>1, <2>2
<1>13. CASE /\ Known /\ Msg.complete /\ UNCHANGED response
            /\ inbound' = IF op[s] = "deleted" THEN inbound
                          ELSE [inbound EXCEPT ![s] = Append(@, [method |-> Msg.method, id |-> Msg.id])]
  <2>1. /\ OwnerTyped' /\ Closes /\ ResponseOfItsKind' /\ \A g \in Handle : Told(g)' => Told(g)
    BY <1>4, <1>13, NobodyAnswered
  <2>2. s \in Session
    <3>1. ctxs[Msg.handle] \in Context  BY <1>13 DEF Known, Inv, Typed, ServerTyped
    <3> QED  BY <1>1, <3>1 DEF Context
  <2>3. PICK e : e = [method |-> m.method, id |-> m.id]  OBVIOUS
  <2>4. PICK E : E = [method : Completion, id : RequestId]  OBVIOUS
  <2>5. e \in E  BY <1>1, <1>7, <1>13, <2>3, <2>4
  <2>6. inbound \in [Session -> Seq(E)]  BY <2>4 DEF Inv, Typed, ListenTyped
  <2>7. PICK b : b = Append(inbound[s], e)  OBVIOUS
  <2>8. b \in Seq(E)  BY <2>2, <2>5, <2>6, <2>7, AppendProperties
  <2>9. inbound' = inbound \/ inbound' = [inbound EXCEPT ![s] = b]  BY <1>1, <1>13, <2>3, <2>7
  <2>10. inbound' \in [Session -> Seq(E)]  BY <2>2, <2>6, <2>8, <2>9
  <2>11. ListenTyped'  BY <1>2, <2>4, <2>10 DEF Inv, Typed, ListenTyped
  <2> QED  BY <1>11, <2>1, <2>11
<1>14. CASE /\ Known /\ ~Outdated(Msg) /\ UNCHANGED inbound
            /\ Respond(ctxs[Msg.handle].last_user_request, OpOf(Msg.method),
                       Msg.ok \/ Msg.method # "RECOGNIZE", Msg.id)
  <2>1. PICK ack \in BOOLEAN : ack = (Msg.ok \/ Msg.method # "RECOGNIZE")  OBVIOUS
  <2>2. PICK o : o = OpOf(m.method)  OBVIOUS
  <2>3. o \in TxnOp /\ o # "Allocate"  BY <1>7, <2>2, OpOfMethod DEF TxnOp
  <2>4. Respond(q, o, ack, m.id)  BY <1>1, <1>14, <2>1, <2>2 DEF Respond
  <2>5. h \in DOMAIN ctxs /\ ctxs[h].last_message = m.id /\ q = ctxs[h].last_user_request
    BY <1>1, <1>14 DEF Known, Outdated
  <2>6. q.session \in Session /\ q.txn \in Nat
    <3>1. q \in [session : Session, txn : 1..MaxTxn]
      BY <2>5 DEF Inv, Typed, ServerTyped, Context
    <3> QED  BY <3>1
  <2>7. Open(q) => op[q.session] = o
    BY <1>1, <1>5, <2>2, <2>5 DEF Inv, OfKind, UserOfKind
  <2>8. m.id \in Nat  BY <1>7 DEF RequestId
  <2>9. Responds(q, o, ack, m.id)  BY <2>3, <2>4, <2>6, <2>8, RespondResponds DEF Inv
  <2>10. /\ OwnerTyped' /\ Closes /\ ResponseOfItsKind' /\ \A g \in Handle : Told(g)' => Told(g)
    BY <1>4, <2>3, <2>6, <2>7, <2>8, <2>9, RespondedKept
  <2>11. ListenTyped'  BY <1>2, <1>14 DEF Inv, Typed, ListenTyped
  <2> QED  BY <1>11, <2>10, <2>11
<1> QED  BY <1>1, <1>12, <1>13, <1>14 DEF OnMrcpMessageReceived

-----------------------------------------------------------------------------
(* The thread of the UniMRCP client.                                       *)

\* What it posts is about sessions, and nobody is answered.
LEMMA ClientAnswersNobody ==
    ASSUME Inv, UNCHANGED <<ownerVars, response, listenVars, serverVars, historyVars, destroyVars>>,
           NEW m \in Posted, Post(m), ClientTyped'
    PROVE  /\ Typed' /\ PortFrom(0, m) /\ Closes /\ ResponseOfItsKind'
           /\ \A g \in Handle : Told(g)' => Told(g)
           /\ \A u \in Session : mrcpHandle'[u] # IW_UNDEFINED => mrcpHandle'[u] \in taken'
           /\ FewerContexts
           /\ UNCHANGED <<ctxs, handleCounter, overlapped, broken, destroyed, misused, taken>>
<1>1. UNCHANGED <<ctxs, handleCounter, up, taken, overlapped, broken, destroyed, misused>>
  BY DEF serverVars, historyVars, destroyVars
<1>2. ServerLeaves  BY <1>1 DEF ServerLeaves
<1>3. /\ OwnerTyped' /\ Closes /\ ResponseOfItsKind'
      /\ \A g \in Handle : Told(g)' => Told(g)
      /\ \A u \in Session : mrcpHandle'[u] # IW_UNDEFINED => mrcpHandle'[u] \in taken'
  BY <1>2, NobodyAnswered
<1>4. PortFrom(0, m)  BY PostPort DEF Inv
<1>5. ServerTyped'  BY <1>1, <1>4 DEF PortFrom, Inv, Typed, ServerTyped
<1>6. HistoryTyped'  BY <1>1 DEF Inv, Typed, HistoryTyped
<1>7. Typed'  BY <1>3, <1>5, <1>6, SameListen DEF Typed
<1> QED  BY <1>1, <1>3, <1>4, <1>7 DEF FewerContexts

\* It posts neither the event of a channel nor the end of what it was asked to end.
LEMMA ClientQuiet ==
    ASSUME Inv, UNCHANGED <<ownerVars, response, listenVars, serverVars, historyVars, destroyVars>>,
           NEW m \in Posted, Post(m), ~IsRequest(m), m.kind # "CHANNEL_ADD_EVT",
           m.kind # "TERMINATE_RSP", Lawful(m), live' \subseteq live, pending' \subseteq Pending,
           \A g \in Handle : PendingFrom(g), UNCHANGED <<adding, terminating, lastRequestId>>
    PROVE  Inv'
<1>1. ClientTyped'  BY DEF Inv, Typed, ClientTyped
<1>2. /\ Typed' /\ PortFrom(0, m) /\ Closes /\ ResponseOfItsKind'
      /\ \A g \in Handle : Told(g)' => Told(g)
      /\ \A u \in Session : mrcpHandle'[u] # IW_UNDEFINED => mrcpHandle'[u] \in taken'
      /\ FewerContexts
      /\ UNCHANGED <<ctxs, handleCounter, overlapped, broken, destroyed, misused, taken>>
  BY <1>1, ClientAnswersNobody
<1> QED  BY <1>2, QuietKept

LEMMA ClientEndsKept ==
    ASSUME Inv, ClientEnds,
           UNCHANGED <<ownerVars, response, listenVars, serverVars, historyVars, destroyVars>>
    PROVE  Inv'
<1>1. PICK h \in live : /\ Post([kind |-> "TERMINATE_EVT", handle |-> h])
                        /\ live' = live \ {h} /\ pending' = {p \in pending : p.handle # h}
                        /\ UNCHANGED <<adding, terminating, lastRequestId>>
  BY DEF ClientEnds
<1>2. PICK m : m = [kind |-> "TERMINATE_EVT", handle |-> h]  OBVIOUS
<1>3. h \in Handle  BY DEF Inv, Typed, ClientTyped
<1>4. m \in EndEvt /\ m.kind = "TERMINATE_EVT"  BY <1>2, <1>3 DEF EndEvt
<1>5. m \in Posted /\ Lawful(m) /\ ~IsRequest(m) /\ Post(m)
  BY <1>1, <1>2, <1>4 DEF Posted, Lawful, IsRequest, TxnOp, Post
<1>6. pending' \subseteq Pending /\ \A g \in Handle : PendingFrom(g)
  BY <1>1 DEF Inv, Typed, ClientTyped, PendingFrom
<1> QED  BY <1>1, <1>4, <1>5, <1>6, ClientQuiet

LEMMA ClientCompletesKept ==
    ASSUME Inv, ClientCompletes,
           UNCHANGED <<ownerVars, response, listenVars, serverVars, historyVars, destroyVars>>
    PROVE  Inv'
<1>1. PICK p \in pending :
         /\ p.active /\ pending' = pending \ {p} /\ UNCHANGED <<live, adding, terminating, lastRequestId>>
         /\ Post([kind |-> "MESSAGE_RECEIVE_EVT", handle |-> p.handle, id |-> p.id,
                  method |-> p.method, ok |-> TRUE, complete |-> TRUE])
  BY DEF ClientCompletes
<1>2. PICK m : m = [kind |-> "MESSAGE_RECEIVE_EVT", handle |-> p.handle, id |-> p.id,
                    method |-> p.method, ok |-> TRUE, complete |-> TRUE]
  OBVIOUS
<1>3. p.handle \in Handle /\ p.id \in RequestId /\ p.method \in Completion
  BY <1>1 DEF Inv, Typed, ClientTyped, Pending
<1>4. /\ m \in CompleteEvt /\ m.kind = "MESSAGE_RECEIVE_EVT"
      /\ m.handle = p.handle /\ m.id = p.id /\ m.method = p.method
  BY <1>2, <1>3 DEF CompleteEvt
<1>5. m \in Posted /\ Lawful(m) /\ ~IsRequest(m) /\ Post(m)
  BY <1>1, <1>2, <1>4 DEF Posted, Lawful, IsRequest, TxnOp, Post
<1>6. pending' \subseteq Pending /\ \A g \in Handle : PendingFrom(g)
  BY <1>1 DEF Inv, Typed, ClientTyped, PendingFrom
<1> QED  BY <1>1, <1>4, <1>5, <1>6, ClientQuiet

LEMMA ClientAnswersKept ==
    ASSUME Inv, ClientAnswers,
           UNCHANGED <<ownerVars, response, listenVars, serverVars, historyVars, destroyVars>>
    PROVE  Inv'
<1>1. PICK p \in pending, ok \in BOOLEAN :
         /\ Post([kind |-> "MESSAGE_RECEIVE_EVT", handle |-> p.handle, id |-> p.id,
                  method |-> p.method, ok |-> ok, complete |-> FALSE])
         /\ pending' = {q \in pending \ {p} : ~(p.method = "STOP" /\ q.method = "SPEAK"
                                                /\ q.active /\ q.handle = p.handle)}
                       \cup (IF ok /\ p.method \in Completion THEN {[p EXCEPT !.active = TRUE]} ELSE {})
         /\ UNCHANGED <<live, adding, terminating, lastRequestId>>
  BY DEF ClientAnswers
<1>2. PICK m : m = [kind |-> "MESSAGE_RECEIVE_EVT", handle |-> p.handle, id |-> p.id,
                    method |-> p.method, ok |-> ok, complete |-> FALSE]
  OBVIOUS
<1>3. p.handle \in Handle /\ p.id \in RequestId /\ p.method \in Method /\ pending \subseteq Pending
  BY <1>1 DEF Inv, Typed, ClientTyped, Pending
<1>4. /\ m \in AnswerEvt /\ m.kind = "MESSAGE_RECEIVE_EVT"
      /\ m.handle = p.handle /\ m.id = p.id /\ m.method = p.method
  BY <1>2, <1>3 DEF AnswerEvt
<1>5. m \in Posted /\ Lawful(m) /\ ~IsRequest(m) /\ Post(m)
  BY <1>1, <1>2, <1>4 DEF Posted, Lawful, IsRequest, TxnOp, Post
<1>6. PICK n : n = [p EXCEPT !.active = TRUE]  OBVIOUS
<1>7. /\ n.handle = p.handle /\ n.id = p.id /\ n.method = p.method
      /\ p.method \in Completion => n \in Pending
  <2>1. p \in [handle : Handle, id : RequestId, method : Method, active : BOOLEAN]
    BY <1>3 DEF Pending
  <2>2. n \in [handle : Handle, id : RequestId, method : Method, active : BOOLEAN]
    BY <1>6, <2>1
  <2>3. n.handle = p.handle /\ n.id = p.id /\ n.method = p.method  BY <1>6, <2>1
  <2> QED  BY <2>2, <2>3 DEF Pending
<1>8. \A q \in pending' : q \in pending \/ (q = n /\ p.method \in Completion)  BY <1>1, <1>6
<1>9. pending' \subseteq Pending  BY <1>3, <1>7, <1>8
<1>10. \A g \in Handle : PendingFrom(g)  BY <1>7, <1>8 DEF PendingFrom
<1> QED  BY <1>1, <1>4, <1>5, <1>9, <1>10, ClientQuiet

\* An event for what UniMRCP was asked to do.
LEMMA ClientReports ==
    ASSUME Inv, UNCHANGED <<ownerVars, response, listenVars, serverVars, historyVars, destroyVars>>,
           NEW m \in Posted, Post(m), ~IsRequest(m), m.kind # "MESSAGE_RECEIVE_EVT",
           live' \subseteq live, adding' \subseteq adding, terminating' \subseteq terminating,
           UNCHANGED <<pending, lastRequestId>>,
           \A g \in Handle : /\ Adding(g)' => Adding(g)
                             /\ AddsOnce(g) => AddsOnce(g)'
                             /\ Ending(g)' => Ending(g)
                             /\ EndsOnce(g) => EndsOnce(g)'
    PROVE  Inv'
<1>1. ClientTyped'  BY DEF Inv, Typed, ClientTyped
<1>2. /\ Typed' /\ PortFrom(0, m) /\ Closes /\ ResponseOfItsKind'
      /\ \A g \in Handle : Told(g)' => Told(g)
      /\ \A u \in Session : mrcpHandle'[u] # IW_UNDEFINED => mrcpHandle'[u] \in taken'
      /\ FewerContexts
      /\ UNCHANGED <<ctxs, handleCounter, overlapped, broken, destroyed, misused, taken>>
  BY <1>1, ClientAnswersNobody
<1>3. Lawful(m)  BY DEF Lawful, IsRequest
<1>4. handleCounter <= handleCounter' /\ lastRequestId' >= lastRequestId  BY <1>2, CounterKept
<1>5. /\ \A p \in pending' : p.id <= lastRequestId'
      /\ \A g \in Handle : PendingFrom(g)
  BY DEF Inv, OfKind, IdsInOrder, PendingFrom
<1>6. AskedOfKind' /\ IdsInOrder'  BY <1>2, <1>3, <1>4, <1>5, AskedKept
<1>7. ASSUME NEW g \in DOMAIN ctxs' PROVE UserOfKind(g)'
  <2>1. g \in DOMAIN ctxs /\ ctxs'[g] = ctxs[g] /\ g \in Handle
    BY <1>2 DEF Typed, ServerTyped
  <2> QED  BY <1>2, <1>3, <1>5, <2>1, UserKept
<1>8. ASSUME NEW g \in Handle PROVE HandleOK(g)'
  <2>1. ContextFrom(g)  BY <1>2 DEF ContextFrom
  <2> QED  BY <1>2, <1>4, <2>1, HandleKept
<1>9. Named'  BY <1>2, NamedKept
<1>10. DestroyedOnce'  BY <1>2 DEF Inv, Contexts, DestroyedOnce
<1> QED  BY <1>2, <1>6, <1>7, <1>8, <1>9, <1>10 DEF Inv, OfKind, Contexts

LEMMA ClientAddsKept ==
    ASSUME Inv, ClientAdds,
           UNCHANGED <<ownerVars, response, listenVars, serverVars, historyVars, destroyVars>>
    PROVE  Inv'
<1>1. PICK a \in adding, st \in Status :
         /\ Post([kind |-> "CHANNEL_ADD_EVT", handle |-> a[1], status |-> st])
         /\ adding' = adding \ {a} /\ UNCHANGED <<live, terminating, pending, lastRequestId>>
  BY DEF ClientAdds
<1>2. PICK h : h = a[1]  OBVIOUS
<1>3. PICK m : m = [kind |-> "CHANNEL_ADD_EVT", handle |-> h, status |-> st]  OBVIOUS
<1>4. h \in Handle  BY <1>1, <1>2 DEF Inv, Typed, ClientTyped
<1>5. m \in AddEvt /\ m.kind = "CHANNEL_ADD_EVT" /\ m.handle = h  BY <1>3, <1>4 DEF AddEvt
<1>6. m \in Posted /\ ~IsRequest(m) /\ Post(m)
  BY <1>1, <1>2, <1>3, <1>5 DEF Posted, IsRequest, TxnOp, Post
<1>7. PortFrom(0, m)  BY <1>6, PostPort DEF Inv
<1>8. ASSUME NEW g \in Handle
      PROVE  /\ Adding(g)' => Adding(g)
             /\ AddsOnce(g) => AddsOnce(g)'
             /\ Ending(g)' => Ending(g)
             /\ EndsOnce(g) => EndsOnce(g)'
  <2>1. (Ending(g)' => Ending(g)) /\ (EndsOnce(g) => EndsOnce(g)')
    BY <1>1, <1>5, <1>7, EndsKept
  <2>2. CASE g # h
    <3>1. (Adding(g)' => Adding(g)) /\ (AddsOnce(g) => AddsOnce(g)')
      BY <1>1, <1>5, <1>7, <2>2, AddsKept
    <3> QED  BY <2>1, <3>1
  <2>3. CASE g = h
    <3>1. Adding(g)  BY <1>2, <2>3 DEF Adding
    <3>2. ASSUME AddsOnce(g) PROVE AddsOnce(g)'
      <4>1. /\ \A b \in adding : b[1] = g => b = a
            /\ \A i \in 1..Len(iocp) : ~AddPosted(i, g)
        BY <1>2, <2>3, <3>2 DEF AddsOnce
      <4>2. \A b \in adding' : b[1] # g  BY <1>1, <4>1
      <4>3. \A i \in 1..Len(iocp') : AddPosted(i, g)' => i = Len(iocp) + 1
        BY <1>7, <4>1 DEF PortFrom, AddPosted
      <4> QED  BY <4>2, <4>3 DEF AddsOnce
    <3> QED  BY <2>1, <3>1, <3>2
  <2> QED  BY <2>2, <2>3
<1> QED  BY <1>1, <1>5, <1>6, <1>8, ClientReports

LEMMA ClientTerminatesKept ==
    ASSUME Inv, ClientTerminates,
           UNCHANGED <<ownerVars, response, listenVars, serverVars, historyVars, destroyVars>>
    PROVE  Inv'
<1>1. PICK h \in terminating :
         /\ Post([kind |-> "TERMINATE_RSP", handle |-> h])
         /\ terminating' = terminating \ {h} /\ live' = live \ {h}
         /\ UNCHANGED <<adding, pending, lastRequestId>>
  BY DEF ClientTerminates
<1>2. PICK m : m = [kind |-> "TERMINATE_RSP", handle |-> h]  OBVIOUS
<1>3. h \in Handle  BY <1>1 DEF Inv, Typed, ClientTyped
<1>4. m \in EndEvt /\ m.kind = "TERMINATE_RSP" /\ m.handle = h  BY <1>2, <1>3 DEF EndEvt
<1>5. m \in Posted /\ ~IsRequest(m) /\ Post(m)
  BY <1>1, <1>2, <1>4 DEF Posted, IsRequest, TxnOp, Post
<1>6. PortFrom(0, m)  BY <1>5, PostPort DEF Inv
<1>7. ASSUME NEW g \in Handle
      PROVE  /\ Adding(g)' => Adding(g)
             /\ AddsOnce(g) => AddsOnce(g)'
             /\ Ending(g)' => Ending(g)
             /\ EndsOnce(g) => EndsOnce(g)'
  <2>1. (Adding(g)' => Adding(g)) /\ (AddsOnce(g) => AddsOnce(g)')
    BY <1>1, <1>4, <1>6, AddsKept
  <2>2. CASE g # h
    <3>1. (Ending(g)' => Ending(g)) /\ (EndsOnce(g) => EndsOnce(g)')
      BY <1>1, <1>4, <1>6, <2>2, EndsKept
    <3> QED  BY <2>1, <3>1
  <2>3. CASE g = h
    <3>1. Ending(g)  BY <2>3 DEF Ending
    <3>2. ASSUME EndsOnce(g) PROVE EndsOnce(g)'
      <4>1. \A i \in 1..Len(iocp) : ~EndPosted(i, g)  BY <2>3, <3>2 DEF EndsOnce
      <4>2. \A i \in 1..Len(iocp') : EndPosted(i, g)' => i = Len(iocp) + 1
        BY <1>6, <4>1 DEF PortFrom, EndPosted
      <4>3. g \notin terminating'  BY <1>1, <2>3
      <4> QED  BY <4>2, <4>3 DEF EndsOnce
    <3> QED  BY <2>1, <3>1, <3>2
  <2> QED  BY <2>2, <2>3
<1> QED  BY <1>1, <1>4, <1>5, <1>7, ClientReports

-----------------------------------------------------------------------------
(* The invariant, and what follows from it.                                *)

LEMMA InitInv == Init => Inv
<1>1. SUFFICES ASSUME Init PROVE Inv  OBVIOUS
<1>2. Typed
  <2>1. OwnerTyped
    <3>1. \A s \in Session : response[s] = <<>>  BY <1>1 DEF Init
    <3>2. response \in [Session -> Seq(Response)] /\ \A s \in Session : Len(response[s]) <= 1
      BY <1>1, <3>1, EmptyResponse DEF Init
    <3>3. 0 \in 0..MaxTxn /\ "idle" \in Op  BY BoundsAssumption DEF Op
    <3>4. /\ op \in [Session -> Op] /\ mrcpHandle \in [Session -> Handle \cup {IW_UNDEFINED}]
          /\ correlation \in [Session -> Nat] /\ txn \in [Session -> 0..MaxTxn]
      BY <1>1, <3>3 DEF Init, IW_UNDEFINED
    <3>5. sync \in [Session -> BOOLEAN]  BY <1>1 DEF Init
    <3> QED  BY <3>2, <3>4, <3>5 DEF OwnerTyped
  <2>2. ListenTyped
    <3>1. PICK E : E = [method : Completion, id : RequestId]  OBVIOUS
    <3>2. inbound \in [Session -> Seq(E)]  BY <1>1 DEF Init
    <3>3. PICK z : z = [c \in Completion |-> <<>>]  OBVIOUS
    <3>4. z \in [Completion -> Seq(RequestId)] /\ \A c \in Completion : z[c] = <<>>  BY <3>3
    <3>5. stopped = [s \in Session |-> z]  BY <1>1, <3>3 DEF Init
    <3>6. stopped \in [Session -> [Completion -> Seq(RequestId)]]  BY <3>4, <3>5
    <3>7. \A s \in Session, c \in Completion : stopped[s][c] = <<>>  BY <3>4, <3>5
    <3>8. Len(<<>>) <= MAX_MESSAGES_IN_QUEUE  BY BoundsAssumption
    <3>9. \A s \in Session, c \in Completion : Len(stopped[s][c]) <= MAX_MESSAGES_IN_QUEUE
      BY <3>7, <3>8
    <3>10. listener \in [Session -> {"none", "waiting", "sending"}]  BY <1>1 DEF Init
    <3> QED  BY <3>1, <3>2, <3>6, <3>9, <3>10 DEF ListenTyped
  <2>3. ServerTyped
    <3>1. iocp \in Seq(Posted)  BY <1>1 DEF Init
    <3>2. DOMAIN ctxs = {}  BY <1>1 DEF Init
    <3>3. handleCounter \in 0..MaxHandles  BY <1>1, BoundsAssumption DEF Init
    <3>4. up \in BOOLEAN  BY <1>1 DEF Init
    <3> QED  BY <3>1, <3>2, <3>3, <3>4 DEF ServerTyped
  <2>4. ClientTyped /\ HistoryTyped  BY <1>1 DEF Init, ClientTyped, HistoryTyped
  <2> QED  BY <2>1, <2>2, <2>3, <2>4 DEF Typed
<1>3. /\ \A s \in Session : response[s] = <<>> /\ mrcpHandle[s] = IW_UNDEFINED
      /\ Len(iocp) = 0 /\ DOMAIN ctxs = {} /\ adding = {} /\ terminating = {} /\ pending = {}
      /\ destroyed = {} /\ misused = {} /\ taken = {}
  BY <1>1 DEF Init
<1>4. 1..Len(iocp) = {}  BY <1>3
<1>5. OfKind
  BY <1>3, <1>4 DEF OfKind, ResponseOfItsKind, AskedOfKind, IdsInOrder
<1>6. ASSUME NEW h \in Handle PROVE HandleOK(h)
  <2>1. ~Adding(h) /\ ~Ending(h) /\ AddsOnce(h) /\ EndsOnce(h)
    BY <1>3, <1>4 DEF Adding, Ending, AddsOnce, EndsOnce
  <2>2. ~Told(h)  BY <1>3 DEF Told, Acked
  <2> QED  BY <1>3, <2>1, <2>2 DEF HandleOK, NewOf, Fresh, ChannelsOf, EndOf
<1>7. Named /\ DestroyedOnce  BY <1>3, <1>4 DEF Named, DestroyedOnce
<1> QED  BY <1>2, <1>5, <1>6, <1>7 DEF Inv, Contexts

LEMMA StutterInv == Inv /\ UNCHANGED vars => Inv'
<1>1. SUFFICES ASSUME Inv, UNCHANGED vars PROVE Inv'  OBVIOUS
<1>2. UNCHANGED <<ownerVars, response, listenVars, iocp, serverVars, clientVars, historyVars, destroyVars>>
  BY <1>1 DEF vars
<1>3. PICK m : m = [kind |-> "none"]  OBVIOUS
<1>4. m.kind = "none"  BY <1>3
<1>5. Lawful(m) /\ m.kind # "CHANNEL_ADD_EVT" /\ m.kind # "TERMINATE_RSP" /\ ~IsRequest(m)
  BY <1>4 DEF Lawful, TxnOp, IsRequest
<1>6. PortFrom(0, m)  BY <1>1, <1>2, SamePort DEF Inv
<1>7. UNCHANGED <<taken, overlapped, broken>>  BY <1>2 DEF historyVars
<1>8. ServerLeaves  BY <1>2, <1>7 DEF ServerLeaves
<1>9. /\ OwnerTyped' /\ Closes /\ ResponseOfItsKind'
      /\ \A g \in Handle : Told(g)' => Told(g)
      /\ \A u \in Session : mrcpHandle'[u] # IW_UNDEFINED => mrcpHandle'[u] \in taken'
  BY <1>1, <1>2, <1>8, NobodyAnswered
<1>10. taken' \subseteq Handle /\ taken \subseteq taken'
  BY <1>1, <1>7 DEF Inv, Typed, HistoryTyped
<1> QED  BY <1>1, <1>2, <1>5, <1>6, <1>7, <1>9, <1>10, SameListen, OwnerKept

LEMMA NextInv == Inv /\ [Next]_vars => Inv'
<1>1. SUFFICES ASSUME Inv, [Next]_vars PROVE Inv'  OBVIOUS
<1>2. ASSUME NEW s \in Session, Owner(s) PROVE Inv'
  <2>1. CASE Allocate(s)  BY <1>1, <2>1, AllocateKept
  <2>2. CASE Request(s)  BY <1>1, <2>2, RequestKept
  <2>3. CASE Receives(s)
    BY <1>1, <2>3, AllocateAckKept, AnsweredKept, SpeakAckKept, RecognizeAckKept, SpeakStoppedKept,
       RecogStoppedKept DEF Receives
  <2>4. CASE TimedOut(s)  BY <1>1, <2>4, TimedOutKept
  <2>5. CASE WaitForRecogResult(s)  BY <1>1, <2>5, WaitForRecogResultKept
  <2>6. CASE GivesUp(s)  BY <1>1, <2>6, GivesUpKept
  <2>7. CASE TearDown(s)  BY <1>1, <2>7, TearDownKept
  <2>8. CASE Delete(s)  BY <1>1, <2>8, DeleteKept
  <2> QED  BY <1>2, <2>1, <2>2, <2>3, <2>4, <2>5, <2>6, <2>7, <2>8 DEF Owner
<1>3. ASSUME NEW s \in Session, UponActiveObjectEvent(s) PROVE Inv'
  BY <1>1, <1>3, UponActiveObjectEventKept
<1>4. CASE Server
  <2>1. CASE AllocateNew  BY <1>1, <2>1, AllocateNewKept
  <2>2. CASE AllocateMore  BY <1>1, <2>2, AllocateMoreKept
  <2>3. CASE \E o \in {"Speak", "StopSpeak", "Recognize"} : Refused(o) \/ Sent(o)
    <3>1. PICK o \in {"Speak", "StopSpeak", "Recognize"} : Refused(o) \/ Sent(o)  BY <2>3
    <3> QED  BY <1>1, <3>1, RefusedKept, SentKept
  <2>4. CASE UponTearDownReq  BY <1>1, <2>4, UponTearDownReqKept
  <2>5. CASE OnMrcpMessageReceived  BY <1>1, <2>5, OnMrcpMessageReceivedKept
  <2>6. CASE OnMrcpSessionTerminatedEvt  BY <1>1, <2>6, OnMrcpSessionTerminatedEvtKept
  <2>7. CASE OnMrcpSessionTerminatedRsp  BY <1>1, <2>7, OnMrcpSessionTerminatedRspKept
  <2>8. CASE OnMrcpChannelAddEvt  BY <1>1, <2>8, OnMrcpChannelAddEvtKept
  <2> QED  BY <1>4, <2>1, <2>2, <2>3, <2>4, <2>5, <2>6, <2>7, <2>8 DEF Server
<1>5. CASE Shutdown  BY <1>1, <1>5, ShutdownKept
<1>6. CASE Client
  BY <1>1, <1>6, ClientAddsKept, ClientTerminatesKept, ClientEndsKept, ClientAnswersKept,
     ClientCompletesKept DEF Client
<1>7. CASE UNCHANGED vars  BY <1>1, <1>7, StutterInv
<1> QED  BY <1>1, <1>2, <1>3, <1>4, <1>5, <1>6, <1>7 DEF Next

\* Everything that is said of the port, the contexts and the handles holds in every
\* reachable state, however requests, timeouts, callbacks of UniMRCP, TearDown and
\* the destructor interleave.
THEOREM Invariance == Spec => []Inv
BY InitInv, NextInv, PTL DEF Spec

\* Every variable stays in its domain: no channel takes more than
\* MAX_MESSAGES_IN_QUEUE, a txn_handle at most one response, and a session that is
\* acknowledged gets a handle that ProcUniMrcp has given out.
THEOREM TypeCorrect == Spec => []TypeOK
<1>1. Inv => TypeOK
  <2>1. SUFFICES ASSUME Inv PROVE TypeOK  OBVIOUS
  <2>2. RequestId \cup {IW_UNDEFINED} = Nat /\ RequestId \cup {0} = Nat
    BY DEF RequestId, IW_UNDEFINED
  <2>3. pending \subseteq [handle : Handle, id : RequestId, method : Method, active : BOOLEAN]
    BY <2>1 DEF Inv, Typed, ClientTyped, Pending
  <2>4. UNION {live, terminating, destroyed, misused, taken, overlapped, broken} \subseteq Handle
    BY <2>1 DEF Inv, Typed, ClientTyped, HistoryTyped
  <2> QED
    BY <2>1, <2>2, <2>3, <2>4
    DEF Inv, Typed, OwnerTyped, ListenTyped, ServerTyped, ClientTyped, TypeOK, Context
<1> QED  BY <1>1, Invariance, PTL

\* MrcpSession is answered with a message of the kind it waits for, although
\* ProcUniMrcp answers UniMRCP's events to last_user_request, which every request
\* overwrites, and a request that timed out leaves behind.
THEOREM ResponseKind == Spec => []ResponseOfItsKind
<1>1. Inv => ResponseOfItsKind  BY DEF Inv, OfKind
<1> QED  BY <1>1, Invariance, PTL

\* ProcUniMrcp neither uses nor destroys a UniMRCP session that it has destroyed, but
\* in the two cases the handlers leave open: a TearDown while a channel is being
\* added, and a failed second Allocate.
THEOREM DestroyedAtMostOnce == Spec => []DestroyedOnce
<1>1. Inv => DestroyedOnce  BY DEF Inv, Contexts
<1> QED  BY <1>1, Invariance, PTL

=============================================================================

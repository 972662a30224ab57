---------------------------- MODULE CallSessionInv ----------------------------
(***************************************************************************)
(* The invariant of CallSession, for any number of sessions, calls and     *)
(* transactions, and its proof for the steps of the owners and listeners   *)
(* of sessions, with what any step of the stack leaves alone.  The steps   *)
(* of the stack, and the theorems, are in CallSessionProofs.               *)
(***************************************************************************)
EXTENDS CallSession, FiniteSetTheorems, TLAPS

Context == [session : Session \cup {NoSession}, handle : Handle, dialog : Dialog,
            makeCallReq : TxnId, reofferReq : TxnId, makeCallAck : TxnId]
Event == [kind : Response \cup {"HANGUP_EVT"}, call : 0..MaxContexts]
SessionRequest == [kind : Request, session : Session, txn : 1..(MaxUacTxn + MaxUasTxn + 1),
                   handle : Handle \cup {IW_UNDEFINED}, empty : BOOLEAN]
Subscribe == [kind : {"CALL_SUBSCRIBE_REQ"}, subscription : 1..MaxSubscribes]

\* TypeOK, part by part.
SessionTyped ==
    /\ op \in [Session -> Op]
    /\ callState \in [Session -> CallState]
    /\ iwCallHandle \in [Session -> Handle \cup {IW_UNDEFINED}]
    /\ emptyOffer \in [Session -> BOOLEAN]
    /\ txn \in [Session -> TxnId]
    /\ hangupChannel \in [Session -> Seq(1..MaxContexts)]
    /\ told \subseteq 1..MaxContexts
    /\ timedOut \subseteq Uac
ReadyTyped == ready \in [Session -> Seq(Event)]
InboundTyped == stackInbound \in Seq(SessionRequest \cup Subscribe)
StackTyped ==
    /\ ctx \in Seq(Context)
    /\ Len(ctx) <= MaxContexts
    /\ DOMAIN iwHandlesMap \subseteq Handle
    /\ \A h \in DOMAIN iwHandlesMap : iwHandlesMap[h] \in Contexts
    /\ callIndex \in CALL_INDEX..(CALL_INDEX + MaxContexts)
    /\ resipId \in 0..MaxContexts
    /\ eventsHandle \in 0..MaxSubscribes
    /\ stackUp \in BOOLEAN
AcceptTyped == acceptor \in {"idle", "subscribing", "waiting"} /\ subscription \in 0..MaxSubscribes

Asking == {"MAKE_CALL_REQ", "REOFFER_REQ", "CALL_OFFERED_ACK", "BLIND_XFER_REQ"}
Inbound == 1..Len(stackInbound)
Ready(s) == 1..Len(ready[s])
InUse(s) == op[s] \in TxnOp \cup {"idle"}

-----------------------------------------------------------------------------
(* Naming.  Handles are given out once, by two counters whose ranges do    *)
(* not meet, and the map leads from a handle to the context that has it.   *)

Started == {c \in Contexts : ctx[c].dialog # "inviting"}

Counters ==
    /\ callIndex <= CALL_INDEX + Len(ctx)
    /\ resipId <= Cardinality(Started)

HandleIssued ==
    \A c \in Contexts :
        IF ctx[c].session \in Uac THEN CALL_INDEX < ctx[c].handle /\ ctx[c].handle <= callIndex
                                  ELSE ctx[c].handle <= resipId

OneHandle == \A c, d \in Contexts : ctx[c].handle = ctx[d].handle => c = d

MapLeadsToLive ==
    \A h \in DOMAIN iwHandlesMap :
        /\ ctx[iwHandlesMap[h]].handle = h
        /\ ctx[iwHandlesMap[h]].dialog \in Live \ {"inviting"}

CallIsOurs ==
    \A c \in Contexts :
        /\ ctx[c].dialog = "inviting" => ctx[c].session \in Uac
        /\ ctx[c].dialog \in Live => ctx[c].session \in Session

Naming == Counters /\ HandleIssued /\ OneHandle /\ MapLeadsToLive /\ CallIsOurs

-----------------------------------------------------------------------------
(* Ownership.  A handle that a session holds or sends is the one of a call *)
(* of its own that has left the INVITE behind.                             *)

OwnHandle(s, h) ==
    h # IW_UNDEFINED =>
        \E c \in Contexts : ctx[c].handle = h /\ ctx[c].session = s /\ ctx[c].dialog # "inviting"

Ownership ==
    /\ \A s \in Session : OwnHandle(s, iwCallHandle[s])
    /\ \A i \in Inbound : stackInbound[i].kind \in Request =>
           OwnHandle(stackInbound[i].session, stackInbound[i].handle)

-----------------------------------------------------------------------------
(* States.  What the state of a session says of what its owner does.       *)

StateOf(s) ==
    /\ op[s] \in {"none", "offered", "lost"} => s \in Uas /\ iwCallHandle[s] = IW_UNDEFINED
    /\ op[s] = "none" => \A c \in Contexts : ctx[c].session # s
    /\ op[s] = "MakeCall" =>
          s \in Uac /\ iwCallHandle[s] = IW_UNDEFINED /\ callState[s] \in {"OFFERING", "TERMINATED"}
    /\ op[s] = "ReOffer" => callState[s] \in {"IN_DIALOG_OFFERED", "TERMINATED"}
    /\ op[s] = "Answer" => callState[s] \in {"INITIAL_OFFERED", "TERMINATED"}
    /\ InUse(s) /\ callState[s] = "UNKNOWN" =>
          op[s] = "idle" /\ s \in Uac /\ iwCallHandle[s] = IW_UNDEFINED

States == \A s \in Session : StateOf(s)

-----------------------------------------------------------------------------
(* Calls.  The INVITE that is asked for and the live call exclude each     *)
(* other, and a session that may make a call has neither.                  *)

IsInvite(i, s) == stackInbound[i].kind = "MAKE_CALL_REQ" /\ stackInbound[i].session = s
IsLive(c, s) == ctx[c].session = s /\ ctx[c].dialog \in Live
NoCall(s) ==
    /\ \A i \in Inbound : ~IsInvite(i, s)
    /\ \A c \in Contexts : ~IsLive(c, s)

CallsOf(s) ==
    /\ \A i, j \in Inbound : IsInvite(i, s) /\ IsInvite(j, s) => i = j
    /\ \A i \in Inbound, c \in Contexts : IsInvite(i, s) => ~IsLive(c, s)
    /\ \A i \in Inbound : IsInvite(i, s) => s \in Uac /\ stackInbound[i].handle = IW_UNDEFINED
    /\ op[s] = "idle" /\ callState[s] = "UNKNOWN" => NoCall(s)
    /\ \A i \in Ready(s) : ready[s][i].kind = "MAKE_CALL_NACK" => NoCall(s)

Calls == OneLiveCall /\ \A s \in Session : CallsOf(s)

-----------------------------------------------------------------------------
(* Tokens.  Of an open transaction there is one request in the channel of  *)
(* the stack, one context that is to answer it, or one response.           *)

AskedBy(k, o) ==
    \/ k = "MAKE_CALL_REQ" /\ o = "MakeCall"
    \/ k = "REOFFER_REQ" /\ o = "ReOffer"
    \/ k = "CALL_OFFERED_ACK" /\ o = "Answer"
    \/ k = "BLIND_XFER_REQ" /\ o = "BlindXfer"
AnswerTo(k, o) ==
    \/ k \in {"MAKE_CALL_OK", "MAKE_CALL_NACK"} /\ o = "MakeCall"
    \/ k \in {"REOFFER_ACK", "REOFFER_NACK"} /\ o = "ReOffer"
    \/ k = "CALL_CONNECTED" /\ o = "Answer"
    \/ k \in {"BLIND_XFER_ACK", "BLIND_XFER_NACK"} /\ o = "BlindXfer"

IsAsked(i, s) == stackInbound[i].kind \in Asking /\ stackInbound[i].session = s
OpenRequest(i, s) == IsAsked(i, s) /\ stackInbound[i].txn = txn[s]
WillAnswer(c, s, o) ==
    /\ ctx[c].session = s
    /\ \/ o = "MakeCall" /\ ctx[c].dialog \in {"inviting", "early"} /\ ctx[c].makeCallReq = txn[s]
       \/ o = "ReOffer" /\ ctx[c].dialog = "reoffered" /\ ctx[c].reofferReq = txn[s]
       \/ o = "Answer" /\ ctx[c].dialog = "accepted" /\ ctx[c].makeCallAck = txn[s]
Answered(s) == \E i \in Ready(s) : ready[s][i].kind \in Response

Past(s) ==
    op[s] # "deleted" =>
        /\ \A i \in Inbound : IsAsked(i, s) => stackInbound[i].txn <= txn[s]
        /\ \A c \in Contexts : ctx[c].session = s =>
              /\ ctx[c].makeCallReq <= txn[s] /\ ctx[c].reofferReq <= txn[s]
              /\ ctx[c].makeCallAck <= txn[s]

OneToken(s) ==
    /\ \A i \in Inbound : OpenRequest(i, s) =>
          /\ AskedBy(stackInbound[i].kind, op[s])
          /\ stackInbound[i].kind = "REOFFER_REQ" => stackInbound[i].handle = iwCallHandle[s]
    /\ \A i, j \in Inbound : OpenRequest(i, s) /\ OpenRequest(j, s) => i = j
    /\ \A c \in Contexts, o \in TxnOp : WillAnswer(c, s, o) =>
          /\ o = op[s]
          /\ \A i \in Inbound : ~OpenRequest(i, s)
          /\ o = "ReOffer" => ctx[c].handle = iwCallHandle[s]
    /\ Answered(s) => /\ \A i \in Inbound : ~OpenRequest(i, s)
                      /\ \A c \in Contexts, o \in TxnOp : ~WillAnswer(c, s, o)

TokensOf(s) ==
    /\ op[s] \in TxnOp => OneToken(s)
    /\ op[s] \notin TxnOp => ~Answered(s)
    /\ \A i, j \in Ready(s) :
          ready[s][i].kind \in Response /\ ready[s][j].kind \in Response => i = j
    /\ \A i \in Ready(s) :
          /\ ready[s][i].kind \in Response => AnswerTo(ready[s][i].kind, op[s])
          /\ ready[s][i].kind \in {"MAKE_CALL_OK", "CALL_CONNECTED", "HANGUP_EVT"} =>
                /\ ready[s][i].call \in Contexts
                /\ ctx[ready[s][i].call].session = s
                /\ ready[s][i].kind # "HANGUP_EVT" => ctx[ready[s][i].call].dialog # "inviting"

Numbered == \A i \in Inbound : stackInbound[i].kind \in Asking => stackInbound[i].txn \in TxnId

Tokens == Numbered /\ \A s \in Session : Past(s) /\ TokensOf(s)

-----------------------------------------------------------------------------
(* Ends.  A call a session has, or is about to get, is known to the stack, *)
(* is being ended, or its end was reported.                                *)

Reported(c, s) ==
    \/ Named(ctx[c].handle) /\ iwHandlesMap[ctx[c].handle] = c
    \/ ctx[c].dialog = "ending"
    \/ \E i \in Ready(s) : ready[s][i] = [kind |-> "HANGUP_EVT", call |-> c]
    \/ c \in told

Concerns(c, s) ==
    \/ ctx[c].dialog \notin {"inviting", "over"}
    \/ ctx[c].handle = iwCallHandle[s]
    \/ op[s] = "offered"
    \/ \E i \in Ready(s) : ready[s][i].kind \in {"MAKE_CALL_OK", "CALL_CONNECTED"} /\ ready[s][i].call = c

EndsOf(s) ==
    \A c \in Contexts :
        op[s] # "deleted" /\ ctx[c].session = s /\ Concerns(c, s) => Reported(c, s)

Ends == \A s \in Session : EndsOf(s)

-----------------------------------------------------------------------------
(* Offers.  A re-offer on its way finds a connected dialog and is alone.   *)

IsReoffer(i, h) == stackInbound[i].kind = "REOFFER_REQ" /\ stackInbound[i].handle = h
\* A call on which an offer can be made.
CanOffer(h) ==
    Named(h) => /\ ctx[iwHandlesMap[h]].dialog = "connected"
                /\ \A i \in Inbound : ~IsReoffer(i, h)

OffersOf(s) ==
    /\ InUse(s) /\ op[s] # "ReOffer" /\ callState[s] \in {"CONNECTED", "REMOTE_OFFERED"} =>
          CanOffer(iwCallHandle[s])
    /\ \A i \in Ready(s) :
          /\ ready[s][i].kind \in {"MAKE_CALL_OK", "CALL_CONNECTED"} =>
                CanOffer(ctx[ready[s][i].call].handle)
          /\ ready[s][i].kind = "REOFFER_ACK" => CanOffer(iwCallHandle[s])
          /\ ready[s][i].kind = "REOFFER_NACK" => ~Named(iwCallHandle[s])

OfferIsAlone ==
    \A i \in Inbound : stackInbound[i].kind = "REOFFER_REQ" /\ Named(stackInbound[i].handle) =>
        /\ ctx[iwHandlesMap[stackInbound[i].handle]].dialog = "connected"
        /\ \A j \in Inbound : IsReoffer(j, stackInbound[i].handle) => i = j

Offers == OfferIsAlone /\ \A s \in Session : OffersOf(s)

Inv == TypeOK /\ Naming /\ Ownership /\ States /\ Calls /\ Tokens /\ Ends /\ Offers

-----------------------------------------------------------------------------
(* Types.                                                                  *)

LEMMA TypeParts ==
    TypeOK <=> SessionTyped /\ ReadyTyped /\ InboundTyped /\ StackTyped /\ AcceptTyped
BY DEF TypeOK, SessionTyped, ReadyTyped, InboundTyped, StackTyped, AcceptTyped, Context, Event,
       SessionRequest, Subscribe

LEMMA TypePartsNext ==
    TypeOK' <=> SessionTyped' /\ ReadyTyped' /\ InboundTyped' /\ StackTyped' /\ AcceptTyped'
BY DEF TypeOK, SessionTyped, ReadyTyped, InboundTyped, StackTyped, AcceptTyped, Context, Event,
       SessionRequest, Subscribe, Contexts

\* The head of a channel is one of its members, and the rest moves up.
LEMMA HeadAndTail ==
    ASSUME NEW E, NEW q \in Seq(E), q # <<>>
    PROVE  /\ 1 \in 1..Len(q) /\ Head(q) = q[1] /\ Head(q) \in E
           /\ Tail(q) \in Seq(E) /\ Len(Tail(q)) = Len(q) - 1
           /\ \A i \in 1..Len(Tail(q)) : i + 1 \in 1..Len(q) /\ Tail(q)[i] = q[i + 1]
OBVIOUS

\* What is sent to the stack, if it is there.
LEMMA ToStackTyped ==
    ASSUME TypeOK, NEW s \in Session, NEW k \in Request, NEW e \in BOOLEAN
    PROVE  /\ Req(k, s, e) \in SessionRequest
           /\ ToStack(stackInbound, Req(k, s, e)) \in Seq(SessionRequest \cup Subscribe)
<1>1. SessionTyped /\ InboundTyped  BY TypeParts
<1>2. txn[s] + 1 \in 1..(MaxUacTxn + MaxUasTxn + 1)
  BY <1>1, BoundsAssumption DEF SessionTyped, TxnId
<1>3. iwCallHandle[s] \in Handle \cup {IW_UNDEFINED}  BY <1>1 DEF SessionTyped
<1>4. Req(k, s, e) \in SessionRequest  BY <1>2, <1>3 DEF Req, SessionRequest
<1>5. PICK E : E = SessionRequest \cup Subscribe  OBVIOUS
<1> QED  BY <1>1, <1>4, <1>5 DEF ToStack, InboundTyped

LEMMA HangupCallTyped ==
    ASSUME TypeOK, NEW s \in Session, NEW st, HangupCallEffect(s, st)
    PROVE  /\ stackInbound' \in Seq(SessionRequest \cup Subscribe)
           /\ iwCallHandle' \in [Session -> Handle \cup {IW_UNDEFINED}]
<1>1. SessionTyped /\ InboundTyped  BY TypeParts
<1>2. ToStack(stackInbound, Req("HANGUP_CALL_REQ", s, FALSE)) \in Seq(SessionRequest \cup Subscribe)
  BY ToStackTyped DEF Request
<1> QED  BY <1>1, <1>2 DEF HangupCallEffect, SessionTyped, InboundTyped

-----------------------------------------------------------------------------
(* The steps of a session: only it changes, and it sends one request at    *)
(* most.                                                                   *)

OwnerFrame(s) ==
    /\ UNCHANGED <<ctx, iwHandlesMap, callIndex, resipId>>
    /\ told \subseteq told'
    /\ \A x \in Session : x # s =>
          /\ op'[x] = op[x] /\ callState'[x] = callState[x] /\ txn'[x] = txn[x]
          /\ iwCallHandle'[x] = iwCallHandle[x] /\ ready'[x] = ready[x]

Sends(s, k) ==
    \/ UNCHANGED stackInbound
    \/ /\ Len(stackInbound') = Len(stackInbound) + 1
       /\ \A i \in Inbound : stackInbound'[i] = stackInbound[i]
       /\ LET m == stackInbound'[Len(stackInbound) + 1]
          IN  m.kind = k /\ m.session = s /\ m.txn = txn[s] + 1 /\ m.handle = iwCallHandle[s]

\* What the invariant says of one session.
Own(s) ==
    /\ OwnHandle(s, iwCallHandle[s])
    /\ StateOf(s) /\ CallsOf(s) /\ Past(s) /\ TokensOf(s) /\ EndsOf(s) /\ OffersOf(s)

LEMMA ToStackSends ==
    ASSUME TypeOK, NEW s \in Session, NEW k \in Request, NEW e \in BOOLEAN,
           stackInbound' = ToStack(stackInbound, Req(k, s, e))
    PROVE  Sends(s, k)
<1>1. PICK m : m = Req(k, s, e)  OBVIOUS
<1>2. m.kind = k /\ m.session = s /\ m.txn = txn[s] + 1 /\ m.handle = iwCallHandle[s]
  BY <1>1 DEF Req
<1>3. PICK E : E = SessionRequest \cup Subscribe  OBVIOUS
<1>4. stackInbound \in Seq(E) /\ m \in E  BY <1>1, <1>3, ToStackTyped, TypeParts DEF InboundTyped
<1>5. CASE stackUp
  <2>1. stackInbound' = Append(stackInbound, m)  BY <1>1, <1>5 DEF ToStack
  <2>2. /\ Len(stackInbound') = Len(stackInbound) + 1
        /\ \A i \in Inbound : stackInbound'[i] = stackInbound[i]
        /\ stackInbound'[Len(stackInbound) + 1] = m
    BY <1>4, <2>1 DEF Inbound
  <2> QED  BY <1>2, <2>2 DEF Sends
<1>6. CASE ~stackUp  BY <1>6 DEF ToStack, Sends
<1> QED  BY <1>5, <1>6

LEMMA SendsShape ==
    ASSUME TypeOK, NEW s, NEW k, Sends(s, k)
    PROVE  /\ Len(stackInbound) \in Nat /\ Len(stackInbound') \in Nat
           /\ \A i \in Inbound : i \in Inbound' /\ stackInbound'[i] = stackInbound[i]
           /\ \A i \in Inbound' :
                 \/ i \in Inbound /\ stackInbound'[i] = stackInbound[i]
                 \/ /\ i = Len(stackInbound) + 1
                    /\ stackInbound'[i].kind = k /\ stackInbound'[i].session = s
                    /\ stackInbound'[i].txn = txn[s] + 1
                    /\ stackInbound'[i].handle = iwCallHandle[s]
<1>1. stackInbound \in Seq(SessionRequest \cup Subscribe)  BY TypeParts DEF InboundTyped
<1>2. PICK E : E = SessionRequest \cup Subscribe  OBVIOUS
<1>3. Len(stackInbound) \in Nat  BY <1>1, <1>2
<1> QED  BY <1>3 DEF Sends, Inbound

LEMMA SessionsKept ==
    ASSUME Inv, NEW s \in Session, NEW k, OwnerFrame(s), Sends(s, k)
    PROVE  \A x \in Session : x # s => Own(x)'
<1> SUFFICES ASSUME NEW x \in Session, x # s PROVE Own(x)'
  OBVIOUS
<1>1. /\ TypeOK /\ OwnHandle(x, iwCallHandle[x]) /\ StateOf(x) /\ CallsOf(x) /\ Past(x) /\ TokensOf(x)
      /\ EndsOf(x) /\ OffersOf(x)
  BY DEF Inv, Ownership, States, Calls, Tokens, Ends, Offers
<1>2. \A i \in Inbound' :
          \/ i \in Inbound /\ stackInbound'[i] = stackInbound[i]
          \/ stackInbound'[i].session = s /\ stackInbound'[i].handle = iwCallHandle[s]
  BY <1>1, SendsShape
<1>3. /\ op'[x] = op[x] /\ callState'[x] = callState[x] /\ txn'[x] = txn[x]
      /\ iwCallHandle'[x] = iwCallHandle[x] /\ ready'[x] = ready[x]
      /\ ctx' = ctx /\ iwHandlesMap' = iwHandlesMap /\ told \subseteq told'
  BY DEF OwnerFrame
<1>4. OwnHandle(x, iwCallHandle[x])'  BY <1>1, <1>3 DEF OwnHandle, Contexts
<1>5. StateOf(x)'  BY <1>1, <1>3 DEF StateOf, Contexts, InUse
<1>6. CallsOf(x)'
  <2>1. \A i \in Inbound' : IsInvite(i, x)' => i \in Inbound /\ IsInvite(i, x) /\ stackInbound'[i] = stackInbound[i]
    BY <1>2 DEF IsInvite
  <2>2. \A c \in Contexts' : c \in Contexts /\ (IsLive(c, x)' <=> IsLive(c, x))
    BY <1>3 DEF IsLive, Contexts
  <2>3. NoCall(x) => NoCall(x)'  BY <2>1, <2>2 DEF NoCall
  <2> QED  BY <1>1, <1>3, <2>1, <2>2, <2>3 DEF CallsOf, Ready
<1>7. \A i \in Inbound' : IsAsked(i, x)' => i \in Inbound /\ IsAsked(i, x) /\ stackInbound'[i] = stackInbound[i]
  BY <1>2 DEF IsAsked
<1>8. Past(x)'  BY <1>1, <1>3, <1>7 DEF Past, Contexts
<1>9. TokensOf(x)'
  <2>1. \A i \in Inbound' : OpenRequest(i, x)' => i \in Inbound /\ OpenRequest(i, x) /\ stackInbound'[i] = stackInbound[i]
    BY <1>3, <1>7 DEF OpenRequest
  <2>2. \A c \in Contexts', o \in TxnOp : c \in Contexts /\ (WillAnswer(c, x, o)' <=> WillAnswer(c, x, o))
    BY <1>3 DEF WillAnswer, Contexts
  <2>3. Answered(x)' <=> Answered(x)  BY <1>3 DEF Answered, Ready
  <2>4. OneToken(x) => OneToken(x)'
    <3> HAVE OneToken(x)
    <3>1. \A i \in Inbound' : OpenRequest(i, x)' =>
              /\ AskedBy(stackInbound[i].kind, op[x])'
              /\ stackInbound'[i].kind = "REOFFER_REQ" => stackInbound'[i].handle = iwCallHandle'[x]
      BY <1>3, <2>1 DEF OneToken, AskedBy
    <3>2. \A i, j \in Inbound' : OpenRequest(i, x)' /\ OpenRequest(j, x)' => i = j
      BY <2>1 DEF OneToken
    <3>3. \A c \in Contexts', o \in TxnOp : WillAnswer(c, x, o)' =>
              /\ o = op'[x]
              /\ \A i \in Inbound' : ~OpenRequest(i, x)'
              /\ o = "ReOffer" => ctx'[c].handle = iwCallHandle'[x]
      BY <1>3, <2>1, <2>2 DEF OneToken
    <3>4. Answered(x)' => /\ \A i \in Inbound' : ~OpenRequest(i, x)'
                          /\ \A c \in Contexts', o \in TxnOp : ~WillAnswer(c, x, o)'
      BY <2>1, <2>2, <2>3 DEF OneToken
    <3> QED  BY <3>1, <3>2, <3>3, <3>4 DEF OneToken
  <2> QED  BY <1>1, <1>3, <2>3, <2>4 DEF TokensOf, Ready, Contexts, AnswerTo
<1>10. EndsOf(x)'
  BY <1>1, <1>3 DEF EndsOf, Concerns, Reported, Contexts, Ready, Named
<1>11. OffersOf(x)'
  <2>1. \A h : OwnHandle(x, h) /\ Named(h) => h # iwCallHandle[s]
    <3> SUFFICES ASSUME NEW h, OwnHandle(x, h), Named(h), h = iwCallHandle[s] PROVE FALSE
      OBVIOUS
    <3>1. h # IW_UNDEFINED  BY <1>1 DEF TypeOK, Named, Handle, IW_UNDEFINED
    <3>2. OwnHandle(s, h)  BY DEF Inv, Ownership
    <3> QED  BY <3>1, <3>2 DEF OwnHandle, Inv, Naming, OneHandle
  <2>2. \A h : OwnHandle(x, h) /\ CanOffer(h) => CanOffer(h)'
    BY <1>2, <1>3, <2>1 DEF CanOffer, Named, IsReoffer
  <2>3. \A i \in Ready(x) : ready[x][i].kind \in {"MAKE_CALL_OK", "CALL_CONNECTED"} =>
            OwnHandle(x, ctx[ready[x][i].call].handle)
    BY <1>1 DEF TokensOf, OwnHandle
  <2> QED  BY <1>1, <1>3, <2>2, <2>3 DEF OffersOf, Ready, InUse, Named
<1> QED  BY <1>4, <1>5, <1>6, <1>8, <1>9, <1>10, <1>11 DEF Own

LEMMA OwnerKept ==
    ASSUME Inv, TypeOK', NEW s \in Session, NEW k \in Request, OwnerFrame(s), Sends(s, k), Own(s)',
           k \in Asking => txn[s] + 1 \in TxnId,
           k = "REOFFER_REQ" => CanOffer(iwCallHandle[s])
    PROVE  Inv'
<1>1. TypeOK /\ Naming /\ Ownership /\ OneLiveCall /\ Numbered /\ OfferIsAlone
  BY DEF Inv, Calls, Tokens, Offers
<1>2. \A x \in Session : Own(x)'  BY SessionsKept
<1>3. /\ ctx' = ctx /\ iwHandlesMap' = iwHandlesMap /\ callIndex' = callIndex /\ resipId' = resipId
  BY DEF OwnerFrame
<1>4. Len(stackInbound) \in Nat /\ Len(stackInbound') \in Nat  BY <1>1, SendsShape
<1>5. \A i \in Inbound' :
          \/ i \in Inbound /\ stackInbound'[i] = stackInbound[i]
          \/ /\ i = Len(stackInbound) + 1
             /\ stackInbound'[i].kind = k /\ stackInbound'[i].session = s
             /\ stackInbound'[i].txn = txn[s] + 1
             /\ stackInbound'[i].handle = iwCallHandle[s]
  BY <1>1, SendsShape
<1>6. Naming'
  BY <1>1, <1>3 DEF Naming, Counters, HandleIssued, OneHandle, MapLeadsToLive, CallIsOurs, Started,
                      Contexts
<1>7. Ownership'
  <2>1. \A x, h : OwnHandle(x, h) => OwnHandle(x, h)'  BY <1>3 DEF OwnHandle, Contexts
  <2>2. \A i \in Inbound' : stackInbound'[i].kind \in Request =>
            OwnHandle(stackInbound'[i].session, stackInbound'[i].handle)
    BY <1>1, <1>5 DEF Ownership
  <2>3. \A i \in Inbound' : stackInbound'[i].kind \in Request =>
            OwnHandle(stackInbound[i].session, stackInbound[i].handle)'
    <3> TAKE i \in Inbound'
    <3> HAVE stackInbound'[i].kind \in Request
    <3>1. PICK x, h : x = stackInbound'[i].session /\ h = stackInbound'[i].handle  OBVIOUS
    <3> QED  BY <2>1, <2>2, <3>1 DEF OwnHandle
  <2>4. \A x \in Session : OwnHandle(x, iwCallHandle[x])'  BY <1>2 DEF Own
  <2> QED  BY <2>3, <2>4 DEF Ownership
<1>8. OneLiveCall'  BY <1>1, <1>3 DEF OneLiveCall, Contexts
<1>9. Numbered'  BY <1>1, <1>5 DEF Numbered
<1>10. OfferIsAlone'
  <2> SUFFICES ASSUME NEW i \in Inbound', stackInbound'[i].kind = "REOFFER_REQ",
                      Named(stackInbound'[i].handle)
      PROVE  /\ ctx[iwHandlesMap[stackInbound'[i].handle]].dialog = "connected"
             /\ \A j \in Inbound' : stackInbound'[j].kind = "REOFFER_REQ"
                                     /\ stackInbound'[j].handle = stackInbound'[i].handle => i = j
    BY <1>3 DEF OfferIsAlone, Named, IsReoffer
  <2>1. PICK h : h = stackInbound'[i].handle  OBVIOUS
  <2>2. CASE i \in Inbound /\ stackInbound'[i] = stackInbound[i]
    <3>1. /\ ctx[iwHandlesMap[h]].dialog = "connected"
          /\ \A j \in Inbound : IsReoffer(j, h) => i = j
      BY <1>1, <2>1, <2>2 DEF OfferIsAlone
    <3> SUFFICES ASSUME NEW j \in Inbound', stackInbound'[j].kind = "REOFFER_REQ", stackInbound'[j].handle = h,
                        i # j
        PROVE  FALSE
      BY <2>1, <3>1
    <3>2. k = "REOFFER_REQ" /\ h = iwCallHandle[s]  BY <1>5, <3>1 DEF IsReoffer
    <3> QED  BY <2>1, <2>2, <3>2 DEF CanOffer, IsReoffer
  <2>3. CASE /\ i = Len(stackInbound) + 1
             /\ stackInbound'[i].kind = k /\ stackInbound'[i].handle = iwCallHandle[s]
    <3>1. /\ ctx[iwHandlesMap[h]].dialog = "connected"
          /\ \A j \in Inbound : ~IsReoffer(j, h)
      BY <2>1, <2>3 DEF CanOffer
    <3> QED  BY <1>5, <2>1, <2>3, <3>1 DEF IsReoffer
  <2> QED  BY <1>5, <2>2, <2>3
<1> QED  BY <1>2, <1>6, <1>7, <1>8, <1>9, <1>10 DEF Inv, Own, States, Calls, Tokens, Ends, Offers

\* The events of the session move up n places, and none is added.
Shifts(s, n) ==
    \A i \in Ready(s)' : i + n \in Ready(s) /\ ready'[s][i] = ready[s][i + n]

\* The calls whose end is handled are remembered.
Remembers(s) ==
    \A i \in Ready(s) : ready[s][i].kind = "HANGUP_EVT" =>
        \/ ready[s][i].call \in told'
        \/ \E j \in Ready(s)' : ready'[s][j] = ready[s][i]

\* A step of a session that opens no transaction.
LEMMA OwnerQuiet ==
    ASSUME Inv, TypeOK', NEW s \in Session, NEW k \in Request \ Asking, NEW n \in Nat,
           OwnerFrame(s), Sends(s, k), Shifts(s, n),
           \/ op'[s] \notin TxnOp /\ ~Answered(s)'
           \/ op'[s] = op[s] /\ txn'[s] = txn[s] /\ iwCallHandle'[s] = iwCallHandle[s],
           op'[s] # "deleted" => op[s] # "deleted" /\ txn'[s] >= txn[s] /\ Remembers(s),
           op'[s] = "offered" => op[s] = "offered",
           StateOf(s)',
           op'[s] = "idle" /\ callState'[s] = "UNKNOWN" => NoCall(s),
           \/ iwCallHandle'[s] \in {iwCallHandle[s], IW_UNDEFINED}
           \/ \E c \in Contexts : /\ ctx[c].handle = iwCallHandle'[s] /\ ctx[c].session = s
                                  /\ ctx[c].dialog # "inviting" /\ Concerns(c, s),
           InUse(s)' /\ op'[s] # "ReOffer" /\ callState'[s] \in {"CONNECTED", "REMOTE_OFFERED"} =>
               CanOffer(iwCallHandle'[s])
    PROVE  Inv'
<1>1. /\ TypeOK /\ OwnHandle(s, iwCallHandle[s]) /\ StateOf(s) /\ CallsOf(s) /\ Past(s) /\ TokensOf(s)
      /\ EndsOf(s) /\ OffersOf(s) /\ OneHandle
  BY DEF Inv, Ownership, States, Calls, Tokens, Ends, Offers, Naming
<1>2. \A i \in Inbound' :
          \/ i \in Inbound /\ stackInbound'[i] = stackInbound[i]
          \/ stackInbound'[i].kind = k
  BY <1>1, SendsShape
<1>3. ctx' = ctx /\ iwHandlesMap' = iwHandlesMap /\ told \subseteq told'  BY DEF OwnerFrame
<1>4. OwnHandle(s, iwCallHandle[s])'
  <2>1. OwnHandle(s, iwCallHandle'[s])  BY <1>1 DEF OwnHandle
  <2>2. PICK h : h = iwCallHandle'[s]  OBVIOUS
  <2> QED  BY <1>3, <2>1, <2>2 DEF OwnHandle, Contexts
<1>5. CallsOf(s)'
  <2>1. \A i \in Inbound' : IsInvite(i, s)' => i \in Inbound /\ IsInvite(i, s) /\ stackInbound'[i] = stackInbound[i]
    BY <1>2 DEF IsInvite, Asking
  <2>2. \A c \in Contexts' : c \in Contexts /\ (IsLive(c, s)' <=> IsLive(c, s))
    BY <1>3 DEF IsLive, Contexts
  <2>3. NoCall(s) => NoCall(s)'  BY <2>1, <2>2 DEF NoCall
  <2>4. \A i \in Ready(s)' : ready'[s][i].kind = "MAKE_CALL_NACK" => NoCall(s)'
    BY <1>1, <2>3 DEF CallsOf, Shifts
  <2> QED  BY <1>1, <2>1, <2>2, <2>3, <2>4 DEF CallsOf
<1>6. \A i \in Inbound' : IsAsked(i, s)' => i \in Inbound /\ IsAsked(i, s) /\ stackInbound'[i] = stackInbound[i]
  BY <1>2 DEF IsAsked
<1>7. Past(s)'
  <2> SUFFICES ASSUME op'[s] # "deleted" PROVE Past(s)'
    BY DEF Past
  <2>1. txn[s] \in Int /\ txn'[s] \in Int /\ txn'[s] >= txn[s]
    BY <1>1, BoundsAssumption DEF TypeOK, TxnId
  <2>2. \A i \in Inbound : IsAsked(i, s) => stackInbound[i].txn \in Int
    BY <1>1, TypeParts DEF InboundTyped, SessionRequest, Subscribe, IsAsked, Asking, Inbound
  <2>3. \A c \in Contexts : ctx[c].makeCallReq \in Int /\ ctx[c].reofferReq \in Int /\ ctx[c].makeCallAck \in Int
    <3>1. PICK E : E = Context  OBVIOUS
    <3>2. \A c \in Contexts : ctx[c] \in E  BY <1>1, <3>1, TypeParts DEF StackTyped, Contexts
    <3> QED  BY <3>1, <3>2 DEF Context, TxnId
  <2> QED  BY <1>1, <1>3, <1>6, <2>1, <2>2, <2>3 DEF Past, Contexts
<1>8. TokensOf(s)'
  <2>1. Answered(s)' => Answered(s)  BY DEF Answered, Shifts
  <2>2. \A i, j \in Ready(s)' :
            ready'[s][i].kind \in Response /\ ready'[s][j].kind \in Response => i = j
    <3> SUFFICES ASSUME NEW i \in Ready(s)', NEW j \in Ready(s)',
                        ready'[s][i].kind \in Response, ready'[s][j].kind \in Response
        PROVE  i = j
      OBVIOUS
    <3>1. i + n = j + n  BY <1>1 DEF TokensOf, Shifts
    <3> QED  BY <3>1 DEF Ready
  <2>3. \A i \in Ready(s)' :
            /\ ready'[s][i].kind \in Response => AnswerTo(ready[s][i].kind, op[s])'
            /\ ready'[s][i].kind \in {"MAKE_CALL_OK", "CALL_CONNECTED", "HANGUP_EVT"} =>
                  /\ ready'[s][i].call \in Contexts'
                  /\ ctx'[ready'[s][i].call].session = s
                  /\ ready'[s][i].kind # "HANGUP_EVT" => ctx'[ready'[s][i].call].dialog # "inviting"
    <3> TAKE i \in Ready(s)'
    <3>1. i + n \in Ready(s) /\ ready'[s][i] = ready[s][i + n]  BY DEF Shifts
    <3>2. ready'[s][i].kind \in Response => op'[s] = op[s]  BY DEF Answered
    <3> QED  BY <1>1, <1>3, <3>1, <3>2 DEF TokensOf, Contexts, AnswerTo
  <2>4. op'[s] \in TxnOp => OneToken(s)'
    <3> HAVE op'[s] \in TxnOp
    <3>0. op'[s] = op[s] /\ txn'[s] = txn[s] /\ iwCallHandle'[s] = iwCallHandle[s] /\ OneToken(s)
      BY <1>1 DEF TokensOf
    <3>1. \A i \in Inbound' : OpenRequest(i, s)' => i \in Inbound /\ OpenRequest(i, s) /\ stackInbound'[i] = stackInbound[i]
      BY <1>6, <3>0 DEF OpenRequest
    <3>2. \A c \in Contexts', o \in TxnOp : c \in Contexts /\ (WillAnswer(c, s, o)' <=> WillAnswer(c, s, o))
      BY <1>3, <3>0 DEF WillAnswer, Contexts
    <3>3. \A i \in Inbound' : OpenRequest(i, s)' =>
              /\ AskedBy(stackInbound[i].kind, op[s])'
              /\ stackInbound'[i].kind = "REOFFER_REQ" => stackInbound'[i].handle = iwCallHandle'[s]
      BY <3>0, <3>1 DEF OneToken, AskedBy
    <3>4. \A i, j \in Inbound' : OpenRequest(i, s)' /\ OpenRequest(j, s)' => i = j
      BY <3>0, <3>1 DEF OneToken
    <3>5. \A c \in Contexts', o \in TxnOp : WillAnswer(c, s, o)' =>
              /\ o = op'[s]
              /\ \A i \in Inbound' : ~OpenRequest(i, s)'
              /\ o = "ReOffer" => ctx'[c].handle = iwCallHandle'[s]
      BY <1>3, <3>0, <3>1, <3>2 DEF OneToken
    <3>6. Answered(s)' => /\ \A i \in Inbound' : ~OpenRequest(i, s)'
                          /\ \A c \in Contexts', o \in TxnOp : ~WillAnswer(c, s, o)'
      BY <2>1, <3>0, <3>1, <3>2 DEF OneToken
    <3> QED  BY <3>3, <3>4, <3>5, <3>6 DEF OneToken
  <2>5. op'[s] \notin TxnOp => ~Answered(s)'
    BY <1>1, <2>1 DEF TokensOf
  <2> QED  BY <2>2, <2>3, <2>4, <2>5 DEF TokensOf
<1>9. EndsOf(s)'
  <2> SUFFICES ASSUME NEW c \in Contexts, op'[s] # "deleted", ctx[c].session = s, Concerns(c, s)'
      PROVE  Reported(c, s)'
    BY <1>3 DEF EndsOf, Contexts
  <2>1. Concerns(c, s)
    <3>1. CASE ctx'[c].handle = iwCallHandle'[s]
      <4>1. iwCallHandle'[s] # IW_UNDEFINED
        <5>1. PICK E : E = Context  OBVIOUS
        <5>2. ctx[c] \in E  BY <1>1, <5>1, TypeParts DEF StackTyped, Contexts
        <5>3. ctx[c].handle \in Handle  BY <5>1, <5>2 DEF Context
        <5> QED  BY <1>3, <3>1, <5>3, BoundsAssumption DEF Handle, IW_UNDEFINED
      <4> QED  BY <1>1, <1>3, <3>1, <4>1 DEF OneHandle, Concerns
    <3>2. CASE \E i \in Ready(s)' : /\ ready'[s][i].kind \in {"MAKE_CALL_OK", "CALL_CONNECTED"}
                                    /\ ready'[s][i].call = c
      BY <3>2 DEF Concerns, Shifts
    <3> QED  BY <1>3, <3>1, <3>2 DEF Concerns
  <2>2. Reported(c, s)  BY <1>1, <2>1 DEF EndsOf
  <2>3. CASE \E i \in Ready(s) : ready[s][i] = [kind |-> "HANGUP_EVT", call |-> c]
    <3>1. PICK i \in Ready(s) : ready[s][i] = [kind |-> "HANGUP_EVT", call |-> c]  BY <2>3
    <3>2. ready[s][i].kind = "HANGUP_EVT" /\ ready[s][i].call = c  BY <3>1
    <3> QED  BY <3>1, <3>2 DEF Remembers, Reported
  <2> QED  BY <1>3, <2>2, <2>3 DEF Reported, Named
<1>10. OffersOf(s)'
  <2>1. \A h : CanOffer(h) => CanOffer(h)'
    BY <1>2, <1>3 DEF CanOffer, Named, IsReoffer, Asking
  <2>2. InUse(s)' /\ op'[s] # "ReOffer" /\ callState'[s] \in {"CONNECTED", "REMOTE_OFFERED"} =>
            CanOffer(iwCallHandle[s])'
    <3>1. PICK h : h = iwCallHandle'[s]  OBVIOUS
    <3> QED  BY <2>1, <3>1 DEF CanOffer, Named, IsReoffer
  <2>3. ASSUME NEW i \in Ready(s)'
        PROVE  /\ ready'[s][i].kind \in {"MAKE_CALL_OK", "CALL_CONNECTED"} =>
                      CanOffer(ctx[ready[s][i].call].handle)'
               /\ ready'[s][i].kind = "REOFFER_ACK" => CanOffer(iwCallHandle[s])'
               /\ ready'[s][i].kind = "REOFFER_NACK" => ~Named(iwCallHandle[s])'
    <3>1. i + n \in Ready(s) /\ ready'[s][i] = ready[s][i + n]  BY <2>3 DEF Shifts
    <3>2. PICK d, h : d = ctx'[ready'[s][i].call].handle /\ h = iwCallHandle'[s]  OBVIOUS
    <3>3. ready'[s][i].kind \in {"MAKE_CALL_OK", "CALL_CONNECTED"} => CanOffer(d)
      BY <1>1, <1>3, <3>1, <3>2 DEF OffersOf
    <3>4. ready'[s][i].kind \in Response => h = iwCallHandle[s]  BY <2>3, <3>2 DEF Answered
    <3>5. /\ ready'[s][i].kind = "REOFFER_ACK" => CanOffer(h)
          /\ ready'[s][i].kind = "REOFFER_NACK" => ~Named(h)
      BY <1>1, <3>1, <3>4 DEF OffersOf, Response
    <3> QED  BY <1>3, <2>1, <3>2, <3>3, <3>5 DEF CanOffer, Named, IsReoffer
  <2> QED  BY <2>2, <2>3 DEF OffersOf
<1>11. Own(s)'  BY <1>4, <1>5, <1>7, <1>8, <1>9, <1>10 DEF Own
<1> QED  BY <1>11, OwnerKept DEF Asking

\* A step of a session that opens a transaction, or fails to as the stack is gone.
LEMMA OwnerAsks ==
    ASSUME Inv, TypeOK', NEW s \in Session, NEW k \in Asking, NEW o \in TxnOp, AskedBy(k, o),
           OwnerFrame(s), Sends(s, k), op[s] = "idle",
           \/ op'[s] = o /\ iwCallHandle'[s] = iwCallHandle[s]
           \/ /\ op'[s] = "idle" /\ UNCHANGED stackInbound
              /\ iwCallHandle'[s] \in {iwCallHandle[s], IW_UNDEFINED},
           txn'[s] = txn[s] + 1, ready'[s] = ready[s], StateOf(s)',
           k = "MAKE_CALL_REQ" =>
               s \in Uac /\ NoCall(s) /\ iwCallHandle[s] = IW_UNDEFINED,
           k = "REOFFER_REQ" => CanOffer(iwCallHandle[s]),
           op'[s] = "idle" /\ callState'[s] = "UNKNOWN" => NoCall(s),
           op'[s] # "ReOffer" /\ callState'[s] \in {"CONNECTED", "REMOTE_OFFERED"} =>
               k # "REOFFER_REQ" /\ CanOffer(iwCallHandle[s]) /\ iwCallHandle'[s] = iwCallHandle[s]
    PROVE  Inv'
<1>1. /\ TypeOK /\ OwnHandle(s, iwCallHandle[s]) /\ StateOf(s) /\ CallsOf(s) /\ Past(s) /\ TokensOf(s)
      /\ EndsOf(s) /\ OffersOf(s) /\ ~Answered(s)
  BY DEF Inv, Ownership, States, Calls, Tokens, Ends, Offers, Naming, TokensOf, TxnOp
<1>2. \A i \in Inbound' :
          \/ i \in Inbound /\ stackInbound'[i] = stackInbound[i]
          \/ /\ i = Len(stackInbound) + 1
             /\ stackInbound'[i].kind = k /\ stackInbound'[i].session = s
             /\ stackInbound'[i].txn = txn[s] + 1
             /\ stackInbound'[i].handle = iwCallHandle[s]
             /\ op'[s] = o
  <2>1. CASE UNCHANGED stackInbound  BY <2>1 DEF Inbound
  <2>2. CASE ~UNCHANGED stackInbound  BY <1>1, <2>2, SendsShape
  <2> QED  BY <2>1, <2>2
<1>3. ctx' = ctx /\ iwHandlesMap' = iwHandlesMap /\ told \subseteq told'  BY DEF OwnerFrame
<1>4. OwnHandle(s, iwCallHandle[s])'
  <2>1. OwnHandle(s, iwCallHandle'[s])  BY <1>1 DEF OwnHandle
  <2>2. PICK h : h = iwCallHandle'[s]  OBVIOUS
  <2> QED  BY <1>3, <2>1, <2>2 DEF OwnHandle, Contexts
<1>5. CallsOf(s)'
  <2>1. \A i \in Inbound' : IsInvite(i, s)' =>
            \/ i \in Inbound /\ IsInvite(i, s) /\ stackInbound'[i] = stackInbound[i]
            \/ /\ k = "MAKE_CALL_REQ" /\ i = Len(stackInbound) + 1 /\ op'[s] = o
               /\ stackInbound'[i].handle = iwCallHandle[s]
    BY <1>2 DEF IsInvite
  <2>2. \A c \in Contexts' : c \in Contexts /\ (IsLive(c, s)' <=> IsLive(c, s))
    BY <1>3 DEF IsLive, Contexts
  <2>3. NoCall(s) /\ op'[s] = "idle" => NoCall(s)'
    BY <2>1, <2>2 DEF NoCall, TxnOp
  <2>4. \A i \in Ready(s)' : ready'[s][i].kind # "MAKE_CALL_NACK"
    BY <1>1 DEF Ready, Answered, Response
  <2>5. \A i, j \in Inbound' : IsInvite(i, s)' /\ IsInvite(j, s)' => i = j
    BY <1>1, <2>1 DEF CallsOf, NoCall
  <2>6. \A i \in Inbound', c \in Contexts' : IsInvite(i, s)' => ~IsLive(c, s)'
    BY <1>1, <2>1, <2>2 DEF CallsOf, NoCall
  <2>7. \A i \in Inbound' : IsInvite(i, s)' => s \in Uac /\ stackInbound'[i].handle = IW_UNDEFINED
    BY <1>1, <2>1 DEF CallsOf
  <2> QED  BY <2>3, <2>4, <2>5, <2>6, <2>7 DEF CallsOf
<1>6. /\ txn[s] \in Int
      /\ \A i \in Inbound : IsAsked(i, s) => stackInbound[i].txn \in Int /\ stackInbound[i].txn <= txn[s]
      /\ \A c \in Contexts : ctx[c].session = s =>
            /\ ctx[c].makeCallReq \in Int /\ ctx[c].makeCallReq <= txn[s]
            /\ ctx[c].reofferReq \in Int /\ ctx[c].reofferReq <= txn[s]
            /\ ctx[c].makeCallAck \in Int /\ ctx[c].makeCallAck <= txn[s]
  <2>1. txn[s] \in Int  BY <1>1, BoundsAssumption DEF TypeOK, TxnId
  <2>2. \A i \in Inbound : IsAsked(i, s) => stackInbound[i].txn \in Int
    BY <1>1, TypeParts DEF InboundTyped, SessionRequest, Subscribe, IsAsked, Asking, Inbound
  <2>3. \A c \in Contexts : ctx[c].makeCallReq \in Int /\ ctx[c].reofferReq \in Int /\ ctx[c].makeCallAck \in Int
    <3>1. PICK E : E = Context  OBVIOUS
    <3>2. \A c \in Contexts : ctx[c] \in E  BY <1>1, <3>1, TypeParts DEF StackTyped, Contexts
    <3> QED  BY <3>1, <3>2 DEF Context, TxnId
  <2> QED  BY <1>1, <2>1, <2>2, <2>3 DEF Past
<1>7. \A i \in Inbound' : IsAsked(i, s)' =>
          \/ i \in Inbound /\ IsAsked(i, s) /\ stackInbound'[i] = stackInbound[i]
          \/ /\ i = Len(stackInbound) + 1 /\ stackInbound'[i].kind = k /\ op'[s] = o
             /\ stackInbound'[i].txn = txn[s] + 1 /\ stackInbound'[i].handle = iwCallHandle[s]
  BY <1>2 DEF IsAsked
<1>8. Past(s)'  BY <1>3, <1>6, <1>7 DEF Past, Contexts
<1>9. TokensOf(s)'
  <2>1. ~Answered(s)'  BY <1>1 DEF Answered, Ready
  <2>2. \A i \in Ready(s)' : ready'[s][i].kind \notin Response  BY <2>1 DEF Answered
  <2>3. \A i \in Ready(s)' : ready'[s][i].kind \in {"MAKE_CALL_OK", "CALL_CONNECTED", "HANGUP_EVT"} =>
                  /\ ready'[s][i].call \in Contexts'
                  /\ ctx'[ready'[s][i].call].session = s
                  /\ ready'[s][i].kind # "HANGUP_EVT" => ctx'[ready'[s][i].call].dialog # "inviting"
    BY <1>1, <1>3 DEF TokensOf, Contexts, Ready
  <2>4. op'[s] \in TxnOp => OneToken(s)'
    <3> HAVE op'[s] \in TxnOp
    <3>0. op'[s] = o /\ iwCallHandle'[s] = iwCallHandle[s]  BY DEF TxnOp
    <3>1. \A i \in Inbound' : OpenRequest(i, s)' =>
              i = Len(stackInbound) + 1 /\ stackInbound'[i].kind = k /\ stackInbound'[i].handle = iwCallHandle[s]
      BY <1>6, <1>7 DEF OpenRequest
    <3>2. \A c \in Contexts', x \in TxnOp : ~WillAnswer(c, s, x)'
      BY <1>3, <1>6 DEF WillAnswer, Contexts
    <3>3. \A i \in Inbound' : OpenRequest(i, s)' => AskedBy(stackInbound[i].kind, op[s])'
      BY <3>0, <3>1 DEF AskedBy
    <3> QED  BY <2>1, <3>0, <3>1, <3>2, <3>3 DEF OneToken
  <2> QED  BY <2>1, <2>2, <2>3, <2>4 DEF TokensOf
<1>10. EndsOf(s)'
  <2> SUFFICES ASSUME NEW c \in Contexts, ctx[c].session = s, Concerns(c, s)'
      PROVE  Reported(c, s)'
    BY <1>3 DEF EndsOf, Contexts
  <2>1. Concerns(c, s)
    <3>1. CASE ctx'[c].handle = iwCallHandle'[s]
      <4>1. PICK E : E = Context  OBVIOUS
      <4>2. ctx[c] \in E  BY <1>1, <4>1, TypeParts DEF StackTyped, Contexts
      <4>3. ctx[c].handle \in Handle  BY <4>1, <4>2 DEF Context
      <4> QED  BY <1>3, <3>1, <4>3, BoundsAssumption DEF Handle, IW_UNDEFINED, Concerns
    <3> QED  BY <1>3, <3>1 DEF Concerns, TxnOp, Ready
  <2>2. Reported(c, s)  BY <1>1, <2>1 DEF EndsOf
  <2> QED  BY <1>3, <2>2 DEF Reported, Named, Ready
<1>11. OffersOf(s)'
  <2>1. \A i \in Ready(s)' : ready'[s][i].kind \notin Response
    BY <1>1 DEF Ready, Answered
  <2>2. k # "REOFFER_REQ" => \A h : CanOffer(h) => CanOffer(h)'
    BY <1>2, <1>3 DEF CanOffer, Named, IsReoffer
  <2>3. op'[s] # "ReOffer" /\ callState'[s] \in {"CONNECTED", "REMOTE_OFFERED"} => CanOffer(iwCallHandle[s])'
    <3>1. PICK h : h = iwCallHandle'[s]  OBVIOUS
    <3> QED  BY <2>2, <3>1 DEF CanOffer, Named, IsReoffer
  <2> QED  BY <2>1, <2>3 DEF OffersOf, Response
<1>12. Own(s)'  BY <1>4, <1>5, <1>8, <1>9, <1>10, <1>11 DEF Own
<1>13. CASE UNCHANGED stackInbound
  <2>1. Sends(s, "HANGUP_CALL_REQ")  BY <1>13 DEF Sends
  <2> QED  BY <1>12, <2>1, OwnerKept DEF Asking, Request
<1>14. CASE ~UNCHANGED stackInbound
  <2>1. txn[s] + 1 \in TxnId  BY DEF TypeOK
  <2> QED  BY <1>12, <2>1, OwnerKept DEF Asking, Request
<1> QED  BY <1>13, <1>14

-----------------------------------------------------------------------------
(* The actions of a session.                                               *)

LEMMA OwnerTypes ==
    ASSUME TypeOK, UNCHANGED <<stackVars, acceptVars>>, SessionTyped', ReadyTyped', InboundTyped'
    PROVE  TypeOK'
<1>1. StackTyped /\ AcceptTyped  BY TypeParts
<1>2. StackTyped' /\ AcceptTyped'  BY <1>1 DEF StackTyped, AcceptTyped, stackVars, acceptVars, Contexts
<1> QED  BY <1>2, TypePartsNext

\* The queue of a session without its head.
LEMMA DropHead ==
    ASSUME TypeOK, NEW s \in Session, ready[s] # <<>>, ready' = [ready EXCEPT ![s] = Tail(@)]
    PROVE  /\ ReadyTyped' /\ Shifts(s, 1)
           /\ 1 \in Ready(s) /\ Head(ready[s]) = ready[s][1] /\ ready[s][1] \in Event
           /\ Len(ready[s]) \in Nat /\ Ready(s)' = 1..(Len(ready[s]) - 1)
           /\ \A i \in Ready(s)' : ready'[s][i] = ready[s][i + 1]
           /\ \A x \in Session : x # s => ready'[x] = ready[x]
<1>1. ready \in [Session -> Seq(Event)]  BY TypeParts DEF ReadyTyped
<1>2. PICK E : E = Event  OBVIOUS
<1>3. ready[s] \in Seq(E) /\ ready'[s] = Tail(ready[s])  BY <1>1, <1>2
<1>4. PICK q : q = ready[s]  OBVIOUS
<1>5. /\ 1 \in 1..Len(q) /\ Head(q) = q[1] /\ Head(q) \in E
      /\ Tail(q) \in Seq(E) /\ Len(Tail(q)) = Len(q) - 1 /\ Len(q) \in Nat
      /\ \A i \in 1..Len(Tail(q)) : i + 1 \in 1..Len(q) /\ Tail(q)[i] = q[i + 1]
  BY <1>3, <1>4, HeadAndTail
<1>6. ReadyTyped'  BY <1>1, <1>2, <1>4, <1>5 DEF ReadyTyped
<1>7. \A x \in Session : x # s => ready'[x] = ready[x]  BY <1>1
<1> QED  BY <1>2, <1>3, <1>4, <1>5, <1>6, <1>7 DEF Shifts, Ready

LEMMA ReceivedFacts ==
    ASSUME Inv, NEW s \in Session, NEW o \in TxnOp, Received(s, o)
    PROVE  /\ ReadyTyped' /\ Shifts(s, 1) /\ Remembers(s) /\ ~Answered(s)'
           /\ 1 \in Ready(s) /\ Head(ready[s]) = ready[s][1]
           /\ ready[s][1].kind \in Response /\ AnswerTo(ready[s][1].kind, o)
           /\ op[s] = o /\ op'[s] = "idle" /\ op' \in [Session -> Op]
           /\ \A x \in Session : x # s => op'[x] = op[x] /\ ready'[x] = ready[x]
<1>1. TypeOK /\ TokensOf(s)  BY DEF Inv, Tokens
<1>2. /\ ReadyTyped' /\ Shifts(s, 1)
      /\ 1 \in Ready(s) /\ Head(ready[s]) = ready[s][1]
      /\ Len(ready[s]) \in Nat /\ Ready(s)' = 1..(Len(ready[s]) - 1)
      /\ \A i \in Ready(s)' : ready'[s][i] = ready[s][i + 1]
      /\ \A x \in Session : x # s => ready'[x] = ready[x]
  BY <1>1, DropHead DEF Received
<1>3. ready[s][1].kind \in Response /\ op[s] = o  BY <1>2 DEF Received
<1>4. AnswerTo(ready[s][1].kind, o)  BY <1>1, <1>2, <1>3 DEF TokensOf
<1>5. ~Answered(s)'
  <2> SUFFICES ASSUME NEW i \in Ready(s)', ready'[s][i].kind \in Response PROVE FALSE
    BY DEF Answered
  <2>1. i + 1 \in Ready(s) /\ ready[s][i + 1].kind \in Response /\ i + 1 # 1
    BY <1>2 DEF Shifts
  <2> QED  BY <1>1, <1>2, <1>3, <2>1 DEF TokensOf
<1>6. Remembers(s)
  <2> SUFFICES ASSUME NEW i \in Ready(s), ready[s][i].kind = "HANGUP_EVT"
      PROVE  \E j \in Ready(s)' : ready'[s][j] = ready[s][i]
    BY DEF Remembers
  <2>1. i # 1  BY <1>3 DEF Response
  <2>2. i - 1 \in Ready(s)'  BY <1>2, <2>1 DEF Ready
  <2>3. (i - 1) + 1 = i  BY DEF Ready
  <2> QED  BY <1>2, <2>2, <2>3
<1>7. /\ op'[s] = "idle" /\ op' \in [Session -> Op]
      /\ \A x \in Session : x # s => op'[x] = op[x]
  BY <1>1 DEF Received, TypeOK, Op
<1> QED  BY <1>2, <1>3, <1>4, <1>5, <1>6, <1>7

LEMMA SameReady ==
    ASSUME TypeOK, UNCHANGED ready, NEW s \in Session
    PROVE  ReadyTyped' /\ Shifts(s, 0) /\ Remembers(s) /\ (Answered(s)' <=> Answered(s))
<1>1. ready \in [Session -> Seq(Event)]  BY TypeParts DEF ReadyTyped
<1>2. ReadyTyped'  BY <1>1 DEF ReadyTyped
<1>3. Shifts(s, 0)  BY DEF Shifts, Ready
<1>4. Remembers(s)  BY DEF Remembers, Ready
<1> QED  BY <1>2, <1>3, <1>4 DEF Answered, Ready

LEMMA ExpiredFacts ==
    ASSUME Inv, NEW s \in Session, NEW o \in TxnOp, Expired(s, o), UNCHANGED ready
    PROVE  /\ ReadyTyped' /\ Shifts(s, 0) /\ Remembers(s) /\ ~Answered(s)'
           /\ op[s] = o /\ op'[s] = "idle" /\ op' \in [Session -> Op]
           /\ \A x \in Session : x # s => op'[x] = op[x]
<1>1. TypeOK  BY DEF Inv
<1>2. ReadyTyped' /\ Shifts(s, 0) /\ Remembers(s) /\ (Answered(s)' <=> Answered(s))
  BY <1>1, SameReady
<1>3. ~Answered(s)  BY DEF Answered, Expired, Ready
<1>4. /\ op[s] = o /\ op'[s] = "idle" /\ op' \in [Session -> Op]
      /\ \A x \in Session : x # s => op'[x] = op[x]
  BY <1>1 DEF Expired, TypeOK, Op
<1> QED  BY <1>2, <1>3, <1>4

LEMMA HangupCallFacts ==
    ASSUME TypeOK, NEW s \in Session, NEW st, HangupCallEffect(s, st)
    PROVE  /\ Sends(s, "HANGUP_CALL_REQ") /\ InboundTyped'
           /\ iwCallHandle' \in [Session -> Handle \cup {IW_UNDEFINED}]
           /\ iwCallHandle'[s] \in {iwCallHandle[s], IW_UNDEFINED}
           /\ \A x \in Session : x # s => iwCallHandle'[x] = iwCallHandle[x]
<1>1. InboundTyped' /\ iwCallHandle' \in [Session -> Handle \cup {IW_UNDEFINED}]
  BY HangupCallTyped DEF InboundTyped
<1>2. iwCallHandle \in [Session -> Handle \cup {IW_UNDEFINED}]  BY DEF TypeOK
<1>3. CASE UNCHANGED <<stackInbound, iwCallHandle>>  BY <1>1, <1>3 DEF Sends
<1>4. CASE /\ stackInbound' = ToStack(stackInbound, Req("HANGUP_CALL_REQ", s, FALSE))
           /\ iwCallHandle' = [iwCallHandle EXCEPT ![s] = IW_UNDEFINED]
  <2>1. Sends(s, "HANGUP_CALL_REQ")  BY <1>4, ToStackSends DEF Request
  <2> QED  BY <1>1, <1>2, <1>4, <2>1
<1> QED  BY <1>3, <1>4 DEF HangupCallEffect

\* Ask and Tell.
LEMMA AskFacts ==
    ASSUME TypeOK, NEW s \in Session, NEW o \in TxnOp, NEW k \in Request, NEW e \in BOOLEAN, Ask(s, o, k, e)
    PROVE  /\ Sends(s, k) /\ InboundTyped' /\ txn'[s] = txn[s] + 1
           /\ op'[s] = IF stackUp THEN o ELSE "idle"
           /\ ~stackUp => UNCHANGED stackInbound
           /\ op' \in [Session -> Op] /\ txn' \in [Session -> TxnId]
           /\ \A x \in Session : x # s => op'[x] = op[x] /\ txn'[x] = txn[x]
<1>1. Sends(s, k) /\ InboundTyped'  BY ToStackSends, ToStackTyped DEF Ask, InboundTyped
<1>2. txn \in [Session -> TxnId] /\ op \in [Session -> Op]  BY DEF TypeOK
<1>3. txn[s] + 1 \in TxnId
  <2>1. txn[s] < MaxTxn(s)  BY DEF Ask
  <2>2. txn[s] \in Nat  BY <1>2, BoundsAssumption DEF TxnId
  <2> QED  BY <2>1, <2>2, BoundsAssumption DEF MaxTxn, TxnId
<1>4. txn' = [txn EXCEPT ![s] = txn[s] + 1]  BY DEF Ask
<1>5. op' = [op EXCEPT ![s] = IF stackUp THEN o ELSE "idle"]  BY DEF Ask
<1>6. ~stackUp => UNCHANGED stackInbound  BY DEF Ask, ToStack
<1> QED  BY <1>1, <1>2, <1>3, <1>4, <1>5, <1>6 DEF Op

LEMMA TellFacts ==
    ASSUME TypeOK, NEW s \in Session, NEW k \in Request, Tell(s, k)
    PROVE  /\ Sends(s, k) /\ InboundTyped' /\ txn'[s] = txn[s] + 1 /\ txn'[s] >= txn[s]
           /\ txn' \in [Session -> TxnId]
           /\ \A x \in Session : x # s => txn'[x] = txn[x]
<1>1. Sends(s, k) /\ InboundTyped'  BY ToStackSends, ToStackTyped DEF Tell, InboundTyped
<1>2. txn \in [Session -> TxnId]  BY DEF TypeOK
<1>3. txn[s] \in Nat /\ txn[s] + 1 \in TxnId
  <2>1. txn[s] < MaxTxn(s)  BY DEF Tell
  <2>2. txn[s] \in Nat  BY <1>2, BoundsAssumption DEF TxnId
  <2> QED  BY <2>1, <2>2, BoundsAssumption DEF MaxTxn, TxnId
<1>4. txn' = [txn EXCEPT ![s] = txn[s] + 1]  BY DEF Tell
<1> QED  BY <1>1, <1>2, <1>3, <1>4

LEMMA MakeCallKept ==
    ASSUME Inv, NEW s \in Session, MakeCall(s)
    PROVE  Inv'
<1>1. TypeOK /\ StateOf(s) /\ CallsOf(s)  BY DEF Inv, States, Calls
<1>2. SessionTyped  BY <1>1, TypeParts
<1>3. PICK e \in BOOLEAN : /\ Ask(s, "MakeCall", "MAKE_CALL_REQ", FALSE)
                           /\ emptyOffer' = [emptyOffer EXCEPT ![s] = e /\ stackUp]
  BY DEF MakeCall
<1>4. /\ Sends(s, "MAKE_CALL_REQ") /\ InboundTyped' /\ txn'[s] = txn[s] + 1
      /\ op'[s] = IF stackUp THEN "MakeCall" ELSE "idle"
      /\ ~stackUp => UNCHANGED stackInbound
      /\ op' \in [Session -> Op] /\ txn' \in [Session -> TxnId]
      /\ \A x \in Session : x # s => op'[x] = op[x] /\ txn'[x] = txn[x]
  BY <1>1, <1>3, AskFacts DEF TxnOp, Request
<1>5. callState' = [callState EXCEPT ![s] = IF stackUp THEN "OFFERING" ELSE "UNKNOWN"]
  BY DEF MakeCall, ResetState
<1>6. emptyOffer' \in [Session -> BOOLEAN]
  <2>1. PICK b \in BOOLEAN : b = (e /\ stackUp)  OBVIOUS
  <2> QED  BY <1>2, <1>3, <2>1 DEF SessionTyped
<1>7. SessionTyped'
  BY <1>2, <1>4, <1>5, <1>6 DEF SessionTyped, MakeCall, CallState
<1>8. TypeOK'
  BY <1>1, <1>4, <1>7, OwnerTypes, SameReady DEF MakeCall
<1>9. OwnerFrame(s)
  BY <1>2, <1>4, <1>5 DEF OwnerFrame, MakeCall, stackVars, SessionTyped
<1>10. op[s] = "idle" /\ callState[s] = "UNKNOWN" /\ NoCall(s) /\ s \in Uac /\ iwCallHandle[s] = IW_UNDEFINED
  BY <1>1 DEF MakeCall, StateOf, CallsOf, InUse
<1>11. callState'[s] = IF stackUp THEN "OFFERING" ELSE "UNKNOWN"  BY <1>2, <1>5 DEF SessionTyped
<1>12. iwCallHandle'[s] = iwCallHandle[s] /\ ready'[s] = ready[s]  BY DEF MakeCall
<1>13. StateOf(s)'  BY <1>4, <1>10, <1>11, <1>12 DEF StateOf, InUse, TxnOp
<1> QED
  BY <1>4, <1>8, <1>9, <1>10, <1>11, <1>12, <1>13, OwnerAsks DEF Asking, TxnOp, AskedBy

LEMMA ReOfferKept ==
    ASSUME Inv, NEW s \in Session, ReOffer(s)
    PROVE  Inv'
<1>1. TypeOK /\ StateOf(s) /\ CallsOf(s) /\ OffersOf(s)  BY DEF Inv, States, Calls, Offers
<1>2. SessionTyped  BY <1>1, TypeParts
<1>3. /\ Sends(s, "REOFFER_REQ") /\ InboundTyped' /\ txn'[s] = txn[s] + 1
      /\ op'[s] = IF stackUp THEN "ReOffer" ELSE "idle"
      /\ ~stackUp => UNCHANGED stackInbound
      /\ op' \in [Session -> Op] /\ txn' \in [Session -> TxnId]
      /\ \A x \in Session : x # s => op'[x] = op[x] /\ txn'[x] = txn[x]
  BY <1>1, AskFacts DEF TxnOp, Request, ReOffer
<1>4. /\ callState' = [callState EXCEPT ![s] = "IN_DIALOG_OFFERED"]
      /\ iwCallHandle' = [iwCallHandle EXCEPT ![s] = IF stackUp THEN @ ELSE IW_UNDEFINED]
      /\ op[s] = "idle" /\ callState[s] = "CONNECTED"
  BY DEF ReOffer, ResetState
<1>5. SessionTyped'  BY <1>2, <1>3, <1>4 DEF SessionTyped, ReOffer, CallState
<1>6. TypeOK'  BY <1>1, <1>3, <1>5, OwnerTypes, SameReady DEF ReOffer
<1>7. OwnerFrame(s)  BY <1>2, <1>3, <1>4 DEF OwnerFrame, ReOffer, stackVars, SessionTyped
<1>8. /\ callState'[s] = "IN_DIALOG_OFFERED" /\ ready'[s] = ready[s]
      /\ iwCallHandle'[s] = IF stackUp THEN iwCallHandle[s] ELSE IW_UNDEFINED
  BY <1>2, <1>4 DEF ReOffer, SessionTyped
<1>9. StateOf(s)'  BY <1>3, <1>8 DEF StateOf, InUse
<1>10. CanOffer(iwCallHandle[s])  BY <1>1, <1>4 DEF OffersOf, InUse
<1> QED
  BY <1>3, <1>4, <1>6, <1>7, <1>8, <1>9, <1>10, OwnerAsks DEF Asking, TxnOp, AskedBy

LEMMA AnswerUasKept ==
    ASSUME Inv, NEW s \in Session, AnswerUas(s)
    PROVE  Inv'
<1>1. TypeOK /\ StateOf(s)  BY DEF Inv, States
<1>2. SessionTyped  BY <1>1, TypeParts
<1>3. PICK e \in BOOLEAN : Ask(s, "Answer", "CALL_OFFERED_ACK", e)  BY DEF AnswerUas
<1>4. /\ Sends(s, "CALL_OFFERED_ACK") /\ InboundTyped' /\ txn'[s] = txn[s] + 1
      /\ op'[s] = IF stackUp THEN "Answer" ELSE "idle"
      /\ ~stackUp => UNCHANGED stackInbound
      /\ op' \in [Session -> Op] /\ txn' \in [Session -> TxnId]
      /\ \A x \in Session : x # s => op'[x] = op[x] /\ txn'[x] = txn[x]
  BY <1>1, <1>3, AskFacts DEF TxnOp, Request
<1>5. SessionTyped'  BY <1>2, <1>4 DEF SessionTyped, AnswerUas
<1>6. TypeOK'  BY <1>1, <1>4, <1>5, OwnerTypes, SameReady DEF AnswerUas
<1>7. OwnerFrame(s)  BY <1>4 DEF OwnerFrame, AnswerUas, stackVars
<1>8. /\ op[s] = "idle" /\ callState'[s] = "INITIAL_OFFERED"
      /\ ready'[s] = ready[s] /\ iwCallHandle'[s] = iwCallHandle[s]
  BY DEF AnswerUas
<1>9. StateOf(s)'  BY <1>4, <1>8 DEF StateOf, InUse
<1> QED
  BY <1>4, <1>6, <1>7, <1>8, <1>9, OwnerAsks DEF Asking, TxnOp, AskedBy

LEMMA BlindXferKept ==
    ASSUME Inv, NEW s \in Session, BlindXfer(s)
    PROVE  Inv'
<1>1. TypeOK /\ StateOf(s) /\ OffersOf(s)  BY DEF Inv, States, Offers
<1>2. SessionTyped  BY <1>1, TypeParts
<1>3. /\ Sends(s, "BLIND_XFER_REQ") /\ InboundTyped' /\ txn'[s] = txn[s] + 1
      /\ op'[s] = IF stackUp THEN "BlindXfer" ELSE "idle"
      /\ ~stackUp => UNCHANGED stackInbound
      /\ op' \in [Session -> Op] /\ txn' \in [Session -> TxnId]
      /\ \A x \in Session : x # s => op'[x] = op[x] /\ txn'[x] = txn[x]
  BY <1>1, AskFacts DEF TxnOp, Request, BlindXfer
<1>4. SessionTyped'  BY <1>2, <1>3 DEF SessionTyped, BlindXfer
<1>5. TypeOK'  BY <1>1, <1>3, <1>4, OwnerTypes, SameReady DEF BlindXfer
<1>6. OwnerFrame(s)  BY <1>3 DEF OwnerFrame, BlindXfer, stackVars
<1>7. /\ op[s] = "idle" /\ callState'[s] = callState[s] /\ iwCallHandle[s] # IW_UNDEFINED
      /\ ready'[s] = ready[s] /\ iwCallHandle'[s] = iwCallHandle[s]
  BY DEF BlindXfer
<1>8. callState[s] # "UNKNOWN"  BY <1>1, <1>7 DEF StateOf, InUse
<1>9. StateOf(s)'  BY <1>3, <1>7, <1>8 DEF StateOf, InUse
<1>10. callState[s] \in {"CONNECTED", "REMOTE_OFFERED"} => CanOffer(iwCallHandle[s])
  BY <1>1, <1>7 DEF OffersOf, InUse
<1> QED
  BY <1>3, <1>5, <1>6, <1>7, <1>8, <1>9, <1>10, OwnerAsks DEF Asking, TxnOp, AskedBy

\* A response that names a call: it is a call of the session and has its handle.
LEMMA AnsweredCall ==
    ASSUME Inv, NEW s \in Session, NEW i \in Ready(s),
           ready[s][i].kind \in {"MAKE_CALL_OK", "CALL_CONNECTED"}
    PROVE  LET c == ready[s][i].call
           IN  /\ c \in Contexts /\ ctx[c].handle \in Handle /\ ctx[c].session = s
               /\ ctx[c].dialog # "inviting" /\ Concerns(c, s) /\ CanOffer(ctx[c].handle)
<1>1. TypeOK /\ TokensOf(s) /\ OffersOf(s)  BY DEF Inv, Tokens, Offers
<1>2. PICK c : c = ready[s][i].call  OBVIOUS
<1>3. c \in Contexts /\ ctx[c].session = s /\ ctx[c].dialog # "inviting"
  BY <1>1, <1>2 DEF TokensOf
<1>4. PICK E : E = Context  OBVIOUS
<1>5. ctx[c] \in E  BY <1>1, <1>3, <1>4, TypeParts DEF StackTyped, Contexts
<1>6. ctx[c].handle \in Handle  BY <1>4, <1>5 DEF Context
<1>7. CanOffer(ctx[c].handle)  BY <1>1, <1>2 DEF OffersOf
<1>8. Concerns(c, s)  BY <1>2 DEF Concerns
<1> QED  BY <1>2, <1>3, <1>6, <1>7, <1>8

LEMMA MakeCallOkKept ==
    ASSUME Inv, NEW s \in Session, MakeCallOk(s)
    PROVE  Inv'
<1>1. TypeOK  BY DEF Inv
<1>2. SessionTyped /\ InboundTyped  BY <1>1, TypeParts
<1>3. /\ ReadyTyped' /\ Shifts(s, 1) /\ Remembers(s) /\ ~Answered(s)'
      /\ 1 \in Ready(s) /\ Head(ready[s]) = ready[s][1]
      /\ op[s] = "MakeCall" /\ op'[s] = "idle" /\ op' \in [Session -> Op]
      /\ \A x \in Session : x # s => op'[x] = op[x] /\ ready'[x] = ready[x]
  BY ReceivedFacts DEF MakeCallOk, TxnOp
<1>4. PICK c : c = ready[s][1].call  OBVIOUS
<1>5. /\ c \in Contexts /\ ctx[c].handle \in Handle /\ ctx[c].session = s
      /\ ctx[c].dialog # "inviting" /\ Concerns(c, s) /\ CanOffer(ctx[c].handle)
  BY <1>3, <1>4, AnsweredCall DEF MakeCallOk
<1>6. iwCallHandle' = [iwCallHandle EXCEPT ![s] = ctx[c].handle]  BY <1>3, <1>4 DEF MakeCallOk
<1>7. callState' = [callState EXCEPT ![s] = IF emptyOffer[s] THEN "REMOTE_OFFERED" ELSE "CONNECTED"]
  BY DEF MakeCallOk, ResetState
<1>8. SessionTyped'
  BY <1>2, <1>3, <1>5, <1>6, <1>7 DEF SessionTyped, MakeCallOk, CallState
<1>9. TypeOK'  BY <1>1, <1>2, <1>3, <1>8, OwnerTypes DEF MakeCallOk, InboundTyped
<1>10. OwnerFrame(s)  BY <1>2, <1>3, <1>6, <1>7 DEF OwnerFrame, MakeCallOk, stackVars, SessionTyped
<1>11. callState'[s] \in {"REMOTE_OFFERED", "CONNECTED"} /\ iwCallHandle'[s] = ctx[c].handle
  BY <1>2, <1>6, <1>7 DEF SessionTyped
<1>12. StateOf(s)'  BY <1>3, <1>11 DEF StateOf
<1>13. Sends(s, "HANGUP_CALL_REQ") /\ txn' = txn  BY DEF MakeCallOk, Sends
<1>14. txn'[s] >= txn[s]  BY <1>2, <1>13, BoundsAssumption DEF SessionTyped, TxnId
<1>15. CanOffer(iwCallHandle'[s])  BY <1>5, <1>11
<1> QED
  BY <1>3, <1>5, <1>9, <1>10, <1>11, <1>12, <1>13, <1>14, <1>15, OwnerQuiet
  DEF Request, Asking, TxnOp

LEMMA MakeCallNackKept ==
    ASSUME Inv, NEW s \in Session, MakeCallNack(s)
    PROVE  Inv'
<1>1. TypeOK /\ StateOf(s) /\ CallsOf(s)  BY DEF Inv, States, Calls
<1>2. SessionTyped /\ InboundTyped  BY <1>1, TypeParts
<1>3. /\ ReadyTyped' /\ Shifts(s, 1) /\ Remembers(s) /\ ~Answered(s)'
      /\ 1 \in Ready(s) /\ Head(ready[s]) = ready[s][1]
      /\ op[s] = "MakeCall" /\ op'[s] = "idle" /\ op' \in [Session -> Op]
      /\ \A x \in Session : x # s => op'[x] = op[x] /\ ready'[x] = ready[x]
  BY ReceivedFacts DEF MakeCallNack, TxnOp
<1>4. callState' = [callState EXCEPT ![s] = "UNKNOWN"]  BY DEF MakeCallNack, ResetState
<1>5. SessionTyped'  BY <1>2, <1>3, <1>4 DEF SessionTyped, MakeCallNack, CallState
<1>6. TypeOK'  BY <1>1, <1>2, <1>3, <1>5, OwnerTypes DEF MakeCallNack, InboundTyped
<1>7. OwnerFrame(s)  BY <1>2, <1>3, <1>4 DEF OwnerFrame, MakeCallNack, stackVars, SessionTyped
<1>8. callState'[s] = "UNKNOWN" /\ iwCallHandle'[s] = iwCallHandle[s] /\ txn'[s] = txn[s]
  BY <1>2, <1>4 DEF SessionTyped, MakeCallNack
<1>9. NoCall(s)  BY <1>1, <1>3 DEF CallsOf, MakeCallNack
<1>10. s \in Uac /\ iwCallHandle[s] = IW_UNDEFINED  BY <1>1, <1>3 DEF StateOf
<1>11. StateOf(s)'  BY <1>3, <1>8, <1>10 DEF StateOf
<1>12. Sends(s, "HANGUP_CALL_REQ")  BY DEF MakeCallNack, Sends
<1>13. txn'[s] >= txn[s]  BY <1>2, <1>8, BoundsAssumption DEF SessionTyped, TxnId
<1> QED
  BY <1>3, <1>6, <1>7, <1>8, <1>9, <1>11, <1>12, <1>13, OwnerQuiet DEF Request, Asking, TxnOp

LEMMA MakeCallTimeoutKept ==
    ASSUME Inv, NEW s \in Session, MakeCallTimeout(s)
    PROVE  Inv'
<1>1. TypeOK /\ StateOf(s)  BY DEF Inv, States
<1>2. SessionTyped  BY <1>1, TypeParts
<1>3. /\ ReadyTyped' /\ Shifts(s, 0) /\ Remembers(s) /\ ~Answered(s)'
      /\ op[s] = "MakeCall" /\ op'[s] = "idle" /\ op' \in [Session -> Op]
      /\ \A x \in Session : x # s => op'[x] = op[x]
  BY ExpiredFacts DEF MakeCallTimeout, TxnOp
<1>5. /\ Sends(s, "HANGUP_CALL_REQ") /\ InboundTyped'
      /\ iwCallHandle' \in [Session -> Handle \cup {IW_UNDEFINED}]
      /\ iwCallHandle'[s] \in {iwCallHandle[s], IW_UNDEFINED}
      /\ \A x \in Session : x # s => iwCallHandle'[x] = iwCallHandle[x]
  BY <1>1, HangupCallFacts DEF MakeCallTimeout
<1>6. s \in Uac /\ callState[s] \in {"OFFERING", "TERMINATED"}  BY <1>1, <1>3 DEF StateOf
<1>7. SessionTyped'  BY <1>2, <1>3, <1>5, <1>6 DEF SessionTyped, MakeCallTimeout
<1>8. TypeOK'  BY <1>1, <1>3, <1>5, <1>7, OwnerTypes DEF MakeCallTimeout
<1>9. OwnerFrame(s)  BY <1>3, <1>5 DEF OwnerFrame, MakeCallTimeout, stackVars
<1>10. callState'[s] = callState[s] /\ txn'[s] = txn[s] /\ txn'[s] >= txn[s]
  BY <1>2, BoundsAssumption DEF MakeCallTimeout, SessionTyped, TxnId
<1>11. StateOf(s)'  BY <1>3, <1>6, <1>10 DEF StateOf
<1> QED
  BY <1>3, <1>5, <1>6, <1>8, <1>9, <1>10, <1>11, OwnerQuiet DEF Request, Asking, TxnOp

LEMMA ReOfferDoneKept ==
    ASSUME Inv, NEW s \in Session, ReOfferDone(s)
    PROVE  Inv'
<1>1. TypeOK /\ OffersOf(s)  BY DEF Inv, Offers
<1>2. SessionTyped /\ InboundTyped  BY <1>1, TypeParts
<1>3. /\ ReadyTyped' /\ Shifts(s, 1) /\ Remembers(s) /\ ~Answered(s)'
      /\ 1 \in Ready(s) /\ Head(ready[s]) = ready[s][1] /\ AnswerTo(ready[s][1].kind, "ReOffer")
      /\ op[s] = "ReOffer" /\ op'[s] = "idle" /\ op' \in [Session -> Op]
      /\ \A x \in Session : x # s => op'[x] = op[x] /\ ready'[x] = ready[x]
  BY ReceivedFacts DEF ReOfferDone, TxnOp
<1>4. callState' = [callState EXCEPT ![s] = "CONNECTED"]  BY DEF ReOfferDone, ResetState
<1>5. SessionTyped'  BY <1>2, <1>3, <1>4 DEF SessionTyped, ReOfferDone, CallState
<1>6. TypeOK'  BY <1>1, <1>2, <1>3, <1>5, OwnerTypes DEF ReOfferDone, InboundTyped
<1>7. OwnerFrame(s)  BY <1>2, <1>3, <1>4 DEF OwnerFrame, ReOfferDone, stackVars, SessionTyped
<1>8. callState'[s] = "CONNECTED" /\ iwCallHandle'[s] = iwCallHandle[s] /\ txn'[s] = txn[s]
  BY <1>2, <1>4 DEF SessionTyped, ReOfferDone
<1>9. CanOffer(iwCallHandle[s])
  <2>1. ready[s][1].kind \in {"REOFFER_ACK", "REOFFER_NACK"}  BY <1>3 DEF AnswerTo
  <2> QED  BY <1>1, <1>3, <2>1 DEF OffersOf, CanOffer
<1>10. StateOf(s)'  BY <1>3, <1>8 DEF StateOf
<1>11. Sends(s, "HANGUP_CALL_REQ")  BY DEF ReOfferDone, Sends
<1>12. txn'[s] >= txn[s]  BY <1>2, <1>8, BoundsAssumption DEF SessionTyped, TxnId
<1> QED
  BY <1>3, <1>6, <1>7, <1>8, <1>9, <1>10, <1>11, <1>12, OwnerQuiet DEF Request, Asking, TxnOp

LEMMA ReOfferTimeoutKept ==
    ASSUME Inv, NEW s \in Session, ReOfferTimeout(s)
    PROVE  Inv'
<1>1. TypeOK /\ StateOf(s)  BY DEF Inv, States
<1>2. SessionTyped  BY <1>1, TypeParts
<1>3. /\ ReadyTyped' /\ Shifts(s, 0) /\ Remembers(s) /\ ~Answered(s)'
      /\ op[s] = "ReOffer" /\ op'[s] = "idle" /\ op' \in [Session -> Op]
      /\ \A x \in Session : x # s => op'[x] = op[x]
  BY ExpiredFacts DEF ReOfferTimeout, TxnOp
<1>4. /\ Sends(s, "HANGUP_CALL_REQ") /\ InboundTyped'
      /\ iwCallHandle' \in [Session -> Handle \cup {IW_UNDEFINED}]
      /\ iwCallHandle'[s] \in {iwCallHandle[s], IW_UNDEFINED}
      /\ \A x \in Session : x # s => iwCallHandle'[x] = iwCallHandle[x]
  BY <1>1, HangupCallFacts DEF ReOfferTimeout
<1>5. callState[s] \in {"IN_DIALOG_OFFERED", "TERMINATED"}  BY <1>1, <1>3 DEF StateOf
<1>6. SessionTyped'  BY <1>2, <1>3, <1>4 DEF SessionTyped, ReOfferTimeout
<1>7. TypeOK'  BY <1>1, <1>3, <1>4, <1>6, OwnerTypes DEF ReOfferTimeout
<1>8. OwnerFrame(s)  BY <1>3, <1>4 DEF OwnerFrame, ReOfferTimeout, stackVars
<1>9. callState'[s] = callState[s] /\ txn'[s] = txn[s] /\ txn'[s] >= txn[s]
  BY <1>2, BoundsAssumption DEF ReOfferTimeout, SessionTyped, TxnId
<1>10. StateOf(s)'  BY <1>3, <1>5, <1>9 DEF StateOf
<1> QED
  BY <1>3, <1>4, <1>5, <1>7, <1>8, <1>9, <1>10, OwnerQuiet DEF Request, Asking, TxnOp

LEMMA AnswerUacKept ==
    ASSUME Inv, NEW s \in Session, AnswerUac(s)
    PROVE  Inv'
<1>1. TypeOK /\ OffersOf(s) /\ TokensOf(s)  BY DEF Inv, Offers, Tokens
<1>2. SessionTyped  BY <1>1, TypeParts
<1>3. /\ Sends(s, "CALL_CONNECTED") /\ InboundTyped' /\ txn'[s] >= txn[s]
      /\ txn' \in [Session -> TxnId]
      /\ \A x \in Session : x # s => txn'[x] = txn[x]
  BY <1>1, TellFacts DEF AnswerUac, Request
<1>4. /\ callState' = [callState EXCEPT ![s] = "CONNECTED"] /\ op' = op
      /\ op[s] = "idle" /\ callState[s] = "REMOTE_OFFERED" /\ iwCallHandle' = iwCallHandle
  BY DEF AnswerUac, ResetState, Tell
<1>5. ReadyTyped' /\ Shifts(s, 0) /\ Remembers(s) /\ (Answered(s)' <=> Answered(s))
  BY <1>1, SameReady DEF AnswerUac
<1>6. SessionTyped'  BY <1>2, <1>3, <1>4 DEF SessionTyped, AnswerUac, CallState
<1>7. TypeOK'  BY <1>1, <1>3, <1>5, <1>6, OwnerTypes DEF AnswerUac
<1>8. OwnerFrame(s)  BY <1>2, <1>3, <1>4 DEF OwnerFrame, AnswerUac, stackVars, SessionTyped
<1>9. callState'[s] = "CONNECTED" /\ op'[s] = "idle" /\ iwCallHandle'[s] = iwCallHandle[s]
  BY <1>2, <1>4 DEF SessionTyped
<1>10. StateOf(s)'  BY <1>9 DEF StateOf
<1>11. CanOffer(iwCallHandle[s])  BY <1>1, <1>4 DEF OffersOf, InUse
<1>12. ~Answered(s)  BY <1>1, <1>4 DEF TokensOf, TxnOp
<1> QED
  BY <1>3, <1>4, <1>5, <1>7, <1>8, <1>9, <1>10, <1>11, <1>12, OwnerQuiet DEF Request, Asking, TxnOp

LEMMA AnswerDoneKept ==
    ASSUME Inv, NEW s \in Session, AnswerDone(s)
    PROVE  Inv'
<1>1. TypeOK  BY DEF Inv
<1>2. SessionTyped /\ InboundTyped  BY <1>1, TypeParts
<1>3. /\ ReadyTyped' /\ Shifts(s, 1) /\ Remembers(s) /\ ~Answered(s)'
      /\ 1 \in Ready(s) /\ Head(ready[s]) = ready[s][1] /\ AnswerTo(ready[s][1].kind, "Answer")
      /\ op[s] = "Answer" /\ op'[s] = "idle" /\ op' \in [Session -> Op]
      /\ \A x \in Session : x # s => op'[x] = op[x] /\ ready'[x] = ready[x]
  BY ReceivedFacts DEF AnswerDone, TxnOp
<1>4. PICK c : c = ready[s][1].call  OBVIOUS
<1>5. ready[s][1].kind = "CALL_CONNECTED"  BY <1>3 DEF AnswerTo
<1>6. /\ c \in Contexts /\ ctx[c].handle \in Handle /\ ctx[c].session = s
      /\ ctx[c].dialog # "inviting" /\ Concerns(c, s) /\ CanOffer(ctx[c].handle)
  BY <1>3, <1>4, <1>5, AnsweredCall
<1>7. iwCallHandle' = [iwCallHandle EXCEPT ![s] = ctx[c].handle]  BY <1>3, <1>4 DEF AnswerDone
<1>8. callState' = [callState EXCEPT ![s] = "CONNECTED"]  BY DEF AnswerDone, ResetState
<1>9. SessionTyped'
  BY <1>2, <1>3, <1>6, <1>7, <1>8 DEF SessionTyped, AnswerDone, CallState
<1>10. TypeOK'  BY <1>1, <1>2, <1>3, <1>9, OwnerTypes DEF AnswerDone, InboundTyped
<1>11. OwnerFrame(s)  BY <1>2, <1>3, <1>7, <1>8 DEF OwnerFrame, AnswerDone, stackVars, SessionTyped
<1>12. callState'[s] = "CONNECTED" /\ iwCallHandle'[s] = ctx[c].handle /\ txn'[s] = txn[s]
  BY <1>2, <1>7, <1>8 DEF SessionTyped, AnswerDone
<1>13. StateOf(s)'  BY <1>3, <1>12 DEF StateOf
<1>14. Sends(s, "HANGUP_CALL_REQ")  BY DEF AnswerDone, Sends
<1>15. txn'[s] >= txn[s]  BY <1>2, <1>12, BoundsAssumption DEF SessionTyped, TxnId
<1>16. CanOffer(iwCallHandle'[s])  BY <1>6, <1>12
<1> QED
  BY <1>3, <1>6, <1>10, <1>11, <1>12, <1>13, <1>14, <1>15, <1>16, OwnerQuiet
  DEF Request, Asking, TxnOp

\* The timeouts that only give up.
LEMMA GiveUpKept ==
    ASSUME Inv, NEW s \in Session, AnswerTimeout(s) \/ BlindXferTimeout(s)
    PROVE  Inv'
<1>1. TypeOK /\ StateOf(s) /\ OffersOf(s)  BY DEF Inv, States, Offers
<1>2. SessionTyped /\ InboundTyped  BY <1>1, TypeParts
<1>3. PICK o \in {"Answer", "BlindXfer"} : Expired(s, o)  BY DEF AnswerTimeout, BlindXferTimeout
<1>4. /\ UNCHANGED <<callState, iwCallHandle, emptyOffer, txn, hangupChannel, told, timedOut, ready,
                     stackInbound>>
      /\ UNCHANGED <<stackVars, acceptVars>>
  BY DEF AnswerTimeout, BlindXferTimeout
<1>5. /\ ReadyTyped' /\ Shifts(s, 0) /\ Remembers(s) /\ ~Answered(s)'
      /\ op[s] = o /\ op'[s] = "idle" /\ op' \in [Session -> Op]
      /\ \A x \in Session : x # s => op'[x] = op[x]
  BY <1>3, <1>4, ExpiredFacts DEF TxnOp
<1>6. SessionTyped'  BY <1>2, <1>4, <1>5 DEF SessionTyped
<1>7. TypeOK'  BY <1>1, <1>2, <1>4, <1>5, <1>6, OwnerTypes DEF InboundTyped
<1>8. OwnerFrame(s)  BY <1>4, <1>5 DEF OwnerFrame, stackVars
<1>9. callState[s] # "UNKNOWN"  BY <1>1, <1>5 DEF StateOf, InUse, TxnOp
<1>10. StateOf(s)'  BY <1>4, <1>5, <1>9 DEF StateOf
<1>11. txn'[s] >= txn[s]  BY <1>2, <1>4, BoundsAssumption DEF SessionTyped, TxnId
<1>12. callState[s] \in {"CONNECTED", "REMOTE_OFFERED"} => CanOffer(iwCallHandle[s])
  BY <1>1, <1>5 DEF OffersOf, InUse, TxnOp
<1>13. Sends(s, "HANGUP_CALL_REQ")  BY <1>4 DEF Sends
<1> QED
  BY <1>4, <1>5, <1>7, <1>8, <1>9, <1>10, <1>11, <1>12, <1>13, OwnerQuiet DEF Request, Asking, TxnOp

LEMMA BlindXferDoneKept ==
    ASSUME Inv, NEW s \in Session, BlindXferDone(s)
    PROVE  Inv'
<1>1. TypeOK /\ StateOf(s) /\ OffersOf(s)  BY DEF Inv, States, Offers
<1>2. SessionTyped /\ InboundTyped  BY <1>1, TypeParts
<1>3. /\ ReadyTyped' /\ Shifts(s, 1) /\ Remembers(s) /\ ~Answered(s)'
      /\ op[s] = "BlindXfer" /\ op'[s] = "idle" /\ op' \in [Session -> Op]
      /\ \A x \in Session : x # s => op'[x] = op[x] /\ ready'[x] = ready[x]
  BY ReceivedFacts DEF BlindXferDone, TxnOp
<1>4. PICK st \in {"TERMINATED", callState[s]} : callState' = [callState EXCEPT ![s] = st]
  BY DEF BlindXferDone, ResetState
<1>5. SessionTyped'  BY <1>2, <1>3, <1>4 DEF SessionTyped, BlindXferDone, CallState
<1>6. TypeOK'  BY <1>1, <1>2, <1>3, <1>5, OwnerTypes DEF BlindXferDone, InboundTyped
<1>7. OwnerFrame(s)  BY <1>2, <1>3, <1>4 DEF OwnerFrame, BlindXferDone, stackVars, SessionTyped
<1>8. callState'[s] = st /\ iwCallHandle'[s] = iwCallHandle[s] /\ txn'[s] = txn[s]
  BY <1>2, <1>4 DEF SessionTyped, BlindXferDone
<1>9. callState[s] # "UNKNOWN"  BY <1>1, <1>3 DEF StateOf, InUse, TxnOp
<1>10. StateOf(s)'  BY <1>3, <1>8, <1>9 DEF StateOf
<1>11. Sends(s, "HANGUP_CALL_REQ")  BY DEF BlindXferDone, Sends
<1>12. txn'[s] >= txn[s]  BY <1>2, <1>8, BoundsAssumption DEF SessionTyped, TxnId
<1>13. st \in {"CONNECTED", "REMOTE_OFFERED"} => CanOffer(iwCallHandle[s])
  BY <1>1, <1>3 DEF OffersOf, InUse, TxnOp
<1> QED
  BY <1>3, <1>6, <1>7, <1>8, <1>9, <1>10, <1>11, <1>12, <1>13, OwnerQuiet DEF Request, Asking, TxnOp

\* RejectCall, HangupCall and WaitTillHangup: the session stays idle in its state.
LEMMA IdleKept ==
    ASSUME Inv, NEW s \in Session, RejectCall(s) \/ HangupCall(s) \/ WaitTillHangup(s)
    PROVE  Inv'
<1>1. TypeOK /\ StateOf(s) /\ CallsOf(s) /\ TokensOf(s) /\ OffersOf(s)
  BY DEF Inv, States, Calls, Tokens, Offers
<1>2. SessionTyped /\ InboundTyped  BY <1>1, TypeParts
<1>3. /\ op[s] = "idle" /\ op' = op /\ callState' = callState /\ emptyOffer' = emptyOffer
      /\ told' = told /\ timedOut' = timedOut /\ ready' = ready /\ UNCHANGED <<stackVars, acceptVars>>
  BY DEF RejectCall, HangupCall, WaitTillHangup, Tell
<1>4. PICK k \in {"CALL_OFFERED_NACK", "HANGUP_CALL_REQ"} :
          /\ Sends(s, k) /\ InboundTyped'
          /\ txn' \in [Session -> TxnId] /\ txn'[s] >= txn[s]
          /\ \A x \in Session : x # s => txn'[x] = txn[x] /\ iwCallHandle'[x] = iwCallHandle[x]
          /\ iwCallHandle' \in [Session -> Handle \cup {IW_UNDEFINED}]
          /\ iwCallHandle'[s] \in {iwCallHandle[s], IW_UNDEFINED}
          /\ hangupChannel' \in [Session -> Seq(1..MaxContexts)]
  <2>1. txn[s] >= txn[s]  BY <1>2, BoundsAssumption DEF SessionTyped, TxnId
  <2>2. CASE RejectCall(s)
    <3>1. /\ Sends(s, "CALL_OFFERED_NACK") /\ InboundTyped' /\ txn'[s] >= txn[s]
          /\ txn' \in [Session -> TxnId]
          /\ \A x \in Session : x # s => txn'[x] = txn[x]
      BY <1>1, <2>2, TellFacts DEF RejectCall, Request
    <3> QED  BY <1>2, <2>2, <3>1 DEF SessionTyped, RejectCall
  <2>3. CASE HangupCall(s)
    <3>1. /\ Sends(s, "HANGUP_CALL_REQ") /\ InboundTyped'
          /\ iwCallHandle' \in [Session -> Handle \cup {IW_UNDEFINED}]
          /\ iwCallHandle'[s] \in {iwCallHandle[s], IW_UNDEFINED}
          /\ \A x \in Session : x # s => iwCallHandle'[x] = iwCallHandle[x]
      BY <1>1, <2>3, HangupCallFacts DEF HangupCall
    <3> QED  BY <1>2, <2>1, <2>3, <3>1 DEF SessionTyped, HangupCall
  <2>4. CASE WaitTillHangup(s)
    <3>1. PICK E : E = 1..MaxContexts  OBVIOUS
    <3>2. hangupChannel \in [Session -> Seq(E)]  BY <1>2, <3>1 DEF SessionTyped
    <3>3. hangupChannel' \in [Session -> Seq(E)]  BY <2>4, <3>2 DEF WaitTillHangup
    <3>4. Sends(s, "HANGUP_CALL_REQ")  BY <2>4 DEF Sends, WaitTillHangup
    <3> QED  BY <1>2, <2>1, <2>4, <3>1, <3>3, <3>4 DEF SessionTyped, InboundTyped, WaitTillHangup
  <2> QED  BY <2>2, <2>3, <2>4
<1>5. ReadyTyped' /\ Shifts(s, 0) /\ Remembers(s) /\ (Answered(s)' <=> Answered(s))
  BY <1>1, <1>3, SameReady
<1>6. SessionTyped'  BY <1>2, <1>3, <1>4 DEF SessionTyped
<1>7. TypeOK'  BY <1>1, <1>3, <1>4, <1>5, <1>6, OwnerTypes
<1>8. OwnerFrame(s)  BY <1>3, <1>4 DEF OwnerFrame, stackVars
<1>9. StateOf(s)'  BY <1>1, <1>3, <1>4 DEF StateOf, InUse
<1>10. callState[s] = "UNKNOWN" => NoCall(s)  BY <1>1, <1>3 DEF CallsOf
<1>11. ~Answered(s)  BY <1>1, <1>3 DEF TokensOf, TxnOp
<1>12. callState[s] \in {"CONNECTED", "REMOTE_OFFERED"} => CanOffer(iwCallHandle'[s])
  <2>1. CanOffer(IW_UNDEFINED)
    BY <1>1, BoundsAssumption DEF CanOffer, Named, TypeOK, Handle, IW_UNDEFINED
  <2> QED  BY <1>1, <1>3, <1>4, <2>1 DEF OffersOf, InUse
<1> QED
  BY <1>3, <1>4, <1>5, <1>7, <1>8, <1>9, <1>10, <1>11, <1>12, OwnerQuiet DEF Request, Asking, TxnOp

LEMMA DeleteKept ==
    ASSUME Inv, NEW s \in Session, Delete(s)
    PROVE  Inv'
<1>1. TypeOK /\ TokensOf(s)  BY DEF Inv, Tokens
<1>2. SessionTyped  BY <1>1, TypeParts
<1>3. PICK st : HangupCallEffect(s, st)  BY DEF Delete
<1>4. /\ Sends(s, "HANGUP_CALL_REQ") /\ InboundTyped'
      /\ iwCallHandle' \in [Session -> Handle \cup {IW_UNDEFINED}]
      /\ iwCallHandle'[s] \in {iwCallHandle[s], IW_UNDEFINED}
      /\ \A x \in Session : x # s => iwCallHandle'[x] = iwCallHandle[x]
  BY <1>1, <1>3, HangupCallFacts
<1>5. /\ op' = [op EXCEPT ![s] = "deleted"] /\ callState' = [callState EXCEPT ![s] = "UNKNOWN"]
      /\ txn' = [txn EXCEPT ![s] = 0] /\ hangupChannel' = [hangupChannel EXCEPT ![s] = <<>>]
      /\ ready' = [ready EXCEPT ![s] = <<>>] /\ op[s] = "idle"
      /\ told' = told \cup {ready[s][i].call : i \in 1..Len(ready[s])}
  BY DEF Delete, ResetState
<1>6. told' \subseteq 1..MaxContexts
  <2>1. ASSUME NEW i \in Ready(s) PROVE ready[s][i].call \in 1..MaxContexts
    <3>1. ready[s][i].kind \notin Response  BY <1>1, <1>5, <2>1 DEF TokensOf, Answered, TxnOp
    <3>2. PICK E : E = Event  OBVIOUS
    <3>3. ready[s][i] \in E  BY <1>1, <2>1, <3>2, TypeParts DEF ReadyTyped, Ready
    <3>4. ready[s][i].kind = "HANGUP_EVT"  BY <3>1, <3>2, <3>3 DEF Event
    <3>5. ready[s][i].call \in Contexts  BY <1>1, <2>1, <3>4 DEF TokensOf
    <3>6. Len(ctx) \in Nat /\ Len(ctx) <= MaxContexts
      <4>1. PICK F : F = Context  OBVIOUS
      <4> QED  BY <1>1, <4>1, TypeParts DEF StackTyped
    <3> QED  BY <3>5, <3>6, BoundsAssumption DEF Contexts
  <2> QED  BY <1>2, <1>5, <2>1 DEF SessionTyped, Ready
<1>7. /\ hangupChannel' \in [Session -> Seq(1..MaxContexts)] /\ ReadyTyped'
      /\ ready'[s] = <<>> /\ \A x \in Session : x # s => ready'[x] = ready[x]
  <2>1. PICK E, F : E = 1..MaxContexts /\ F = Event  OBVIOUS
  <2>2. hangupChannel \in [Session -> Seq(E)] /\ ready \in [Session -> Seq(F)]
    BY <1>1, <1>2, <2>1, TypeParts DEF SessionTyped, ReadyTyped
  <2>3. hangupChannel' \in [Session -> Seq(E)] /\ ready' \in [Session -> Seq(F)]
    BY <1>5, <2>2
  <2> QED  BY <1>5, <2>1, <2>2, <2>3 DEF ReadyTyped
<1>8. SessionTyped'
  BY <1>2, <1>4, <1>5, <1>6, <1>7, BoundsAssumption DEF SessionTyped, Delete, Op, CallState, TxnId
<1>9. TypeOK'  BY <1>1, <1>4, <1>7, <1>8, OwnerTypes DEF Delete
<1>10. OwnerFrame(s)  BY <1>2, <1>4, <1>5, <1>7 DEF OwnerFrame, Delete, stackVars, SessionTyped
<1>11. op'[s] = "deleted"  BY <1>2, <1>5 DEF SessionTyped
<1>12. StateOf(s)'  BY <1>11 DEF StateOf, InUse, TxnOp
<1>13. Shifts(s, 0) /\ ~Answered(s)'
  <2>1. Len(ready'[s]) = 0  BY <1>7
  <2> QED  BY <2>1 DEF Shifts, Answered, Ready
<1>14. ~InUse(s)'  BY <1>11 DEF InUse, TxnOp
<1> QED
  BY <1>4, <1>9, <1>10, <1>11, <1>12, <1>13, <1>14, OwnerQuiet DEF Request, Asking, TxnOp

LEMMA UponCallTerminatedKept ==
    ASSUME Inv, NEW s \in Session, UponCallTerminated(s)
    PROVE  Inv'
<1>1. TypeOK /\ TokensOf(s) /\ StateOf(s)  BY DEF Inv, Tokens, States
<1>2. SessionTyped /\ InboundTyped  BY <1>1, TypeParts
<1>3. /\ ReadyTyped' /\ Shifts(s, 1)
      /\ 1 \in Ready(s) /\ Head(ready[s]) = ready[s][1]
      /\ Len(ready[s]) \in Nat /\ Ready(s)' = 1..(Len(ready[s]) - 1)
      /\ \A i \in Ready(s)' : ready'[s][i] = ready[s][i + 1]
      /\ \A x \in Session : x # s => ready'[x] = ready[x]
  BY <1>1, DropHead DEF UponCallTerminated
<1>4. PICK c : c = ready[s][1].call  OBVIOUS
<1>5. /\ hangupChannel' = [hangupChannel EXCEPT ![s] = Append(@, c)]
      /\ told' = told \cup {c} /\ callState' = [callState EXCEPT ![s] = "TERMINATED"]
      /\ ready[s][1].kind = "HANGUP_EVT" /\ InUse(s)
  BY <1>3, <1>4 DEF UponCallTerminated, ResetState, InUse
<1>6. c \in 1..MaxContexts
  <2>1. c \in Contexts  BY <1>1, <1>3, <1>4, <1>5 DEF TokensOf
  <2>2. PICK F : F = Context  OBVIOUS
  <2>3. Len(ctx) \in Nat /\ Len(ctx) <= MaxContexts  BY <1>1, <2>2, TypeParts DEF StackTyped
  <2> QED  BY <2>1, <2>3, BoundsAssumption DEF Contexts
<1>7. hangupChannel' \in [Session -> Seq(1..MaxContexts)]
  <2>1. PICK E : E = 1..MaxContexts  OBVIOUS
  <2>2. hangupChannel \in [Session -> Seq(E)] /\ c \in E  BY <1>2, <1>6, <2>1 DEF SessionTyped
  <2>3. hangupChannel' \in [Session -> Seq(E)]  BY <1>5, <2>2
  <2> QED  BY <2>1, <2>3
<1>8. SessionTyped'
  BY <1>2, <1>5, <1>6, <1>7 DEF SessionTyped, UponCallTerminated, CallState
<1>9. TypeOK'  BY <1>1, <1>2, <1>3, <1>8, OwnerTypes DEF UponCallTerminated, InboundTyped
<1>10. OwnerFrame(s)  BY <1>2, <1>3, <1>5 DEF OwnerFrame, UponCallTerminated, stackVars, SessionTyped
<1>11. /\ op'[s] = op[s] /\ txn'[s] = txn[s] /\ iwCallHandle'[s] = iwCallHandle[s]
       /\ callState'[s] = "TERMINATED" /\ op[s] # "deleted"
  BY <1>2, <1>5 DEF UponCallTerminated, SessionTyped, InUse, TxnOp
<1>12. txn'[s] >= txn[s]  BY <1>2, <1>11, BoundsAssumption DEF SessionTyped, TxnId
<1>13. StateOf(s)'
  BY <1>1, <1>5, <1>11 DEF StateOf, InUse, TxnOp
<1>14. Remembers(s)
  <2> SUFFICES ASSUME NEW i \in Ready(s), ready[s][i].call \notin told'
      PROVE  \E j \in Ready(s)' : ready'[s][j] = ready[s][i]
    BY DEF Remembers
  <2>1. i # 1  BY <1>4, <1>5
  <2>2. i - 1 \in Ready(s)' /\ (i - 1) + 1 = i  BY <1>3, <2>1 DEF Ready
  <2> QED  BY <1>3, <2>2
<1>15. Sends(s, "HANGUP_CALL_REQ")  BY DEF UponCallTerminated, Sends
<1> QED
  BY <1>3, <1>9, <1>10, <1>11, <1>12, <1>13, <1>14, <1>15, OwnerQuiet DEF Request, Asking, TxnOp

-----------------------------------------------------------------------------
(* The steps of the stack.  What they do to the sessions is to deliver     *)
(* events, and to offer a call to one that is not built yet.               *)

StackFrame ==
    /\ UNCHANGED <<callState, iwCallHandle, txn, told>>
    /\ \A x \in Session : op'[x] = op[x] \/ (op[x] = "none" /\ op'[x] \in {"offered", "lost"})

\* The first n requests are gone; what is new is no request of a session.
InboundShifts(n) ==
    \A i \in Inbound' :
        \/ i + n \in Inbound /\ stackInbound'[i] = stackInbound[i + n]
        \/ stackInbound'[i].kind = "CALL_SUBSCRIBE_REQ"

ContextsGrow ==
    \A c \in Contexts :
        /\ c \in Contexts'
        /\ ctx'[c].session = ctx[c].session /\ ctx'[c].handle = ctx[c].handle
        /\ ctx[c].dialog # "inviting" => ctx'[c].dialog # "inviting"
        /\ ctx[c].dialog \notin Live => ctx'[c].dialog \notin Live

\* A call that is known to its session leaves the map or stays where it is, and
\* connected unless the request that is handled is an offer on it.
MapKept(n) ==
    \A c \in Contexts, h \in Handle : ctx[c].dialog # "inviting" /\ ctx[c].handle = h /\ Named(h)' =>
        /\ Named(h) /\ iwHandlesMap[h] = c /\ iwHandlesMap'[h] = c
        /\ ctx[c].dialog = "connected" =>
              \/ ctx'[c].dialog = "connected"
              \/ n = 1 /\ 1 \in Inbound /\ IsReoffer(1, h)

\* A call becomes live by a request to make one, or is offered to a new session.
CallsMove(n) ==
    \A c \in Contexts' : ctx'[c].dialog \in Live =>
        \/ c \in Contexts /\ ctx[c].dialog \in Live
        \/ /\ c = Len(ctx) + 1 /\ ctx'[c].session \in Session
           /\ \/ n = 1 /\ 1 \in Inbound /\ IsInvite(1, ctx'[c].session)
              \/ op[ctx'[c].session] = "none"

\* An answer is owed by who owed it, or for the request that is handled.
TokensMove(n) ==
    \A x \in Session, c \in Contexts', o \in TxnOp : op[x] \in TxnOp /\ WillAnswer(c, x, o)' =>
        \/ c \in Contexts /\ WillAnswer(c, x, o)
        \/ /\ n = 1 /\ 1 \in Inbound /\ OpenRequest(1, x) /\ AskedBy(stackInbound[1].kind, o)
           /\ o = "ReOffer" => stackInbound[1].kind = "REOFFER_REQ" /\ ctx'[c].handle = stackInbound[1].handle

FieldsPast ==
    \A x \in Session, c \in Contexts' : op[x] # "deleted" /\ ctx'[c].session = x =>
        ctx'[c].makeCallReq <= txn[x] /\ ctx'[c].reofferReq <= txn[x] /\ ctx'[c].makeCallAck <= txn[x]

BuiltHasContext == \A c \in Contexts' : ctx'[c].session \in Session =>
                       c \in Contexts \/ op'[ctx'[c].session] # "none"

EndsReported ==
    /\ \A x \in Session, c \in Contexts :
          op[x] # "deleted" /\ ctx[c].session = x /\ Reported(c, x) => Reported(c, x)'
    /\ \A x \in Session, c \in Contexts' :
          /\ op[x] # "deleted" /\ ctx'[c].session = x
          /\ \/ c \notin Contexts /\ op'[x] = "offered"
             \/ /\ ctx'[c].dialog \notin {"inviting", "over"}
                /\ c \notin Contexts \/ ctx[c].dialog \in {"inviting", "over"}
          => Reported(c, x)'

\* A response answers the open transaction, to which nothing else will answer.
Fits(e, x) ==
    /\ op[x] \in TxnOp /\ AnswerTo(e.kind, op[x]) /\ ~Answered(x)
    /\ \A i \in Inbound' : ~OpenRequest(i, x)'
    /\ \A c \in Contexts', o \in TxnOp : ~WillAnswer(c, x, o)'
    /\ e.kind \in {"MAKE_CALL_OK", "CALL_CONNECTED"} =>
          /\ e.call \in Contexts /\ ctx[e.call].session = x /\ ctx[e.call].dialog \notin {"inviting", "over"}
          /\ CanOffer(ctx[e.call].handle)'
    /\ e.kind = "MAKE_CALL_NACK" => NoCall(x)'
    /\ e.kind = "REOFFER_ACK" => CanOffer(iwCallHandle[x])'
    /\ e.kind = "REOFFER_NACK" => ~Named(iwCallHandle[x])'

Delivers ==
    \A x \in Session :
        /\ \A i \in Ready(x) : i \in Ready(x)' /\ ready'[x][i] = ready[x][i]
        /\ \A i \in Ready(x)' \ Ready(x) :
              \/ /\ ready'[x][i].kind = "HANGUP_EVT" /\ ready'[x][i].call \in Contexts
                 /\ ctx[ready'[x][i].call].session = x
              \/ \E e : e = ready'[x][i] /\ e.kind \in Response /\ Fits(e, x)
        /\ \A i, j \in Ready(x)' \ Ready(x) :
              ready'[x][i].kind \in Response /\ ready'[x][j].kind \in Response => i = j

LEMMA ContextNext ==
    ASSUME TypeOK'
    PROVE  /\ Len(ctx') \in Nat /\ Contexts' = 1..Len(ctx')
           /\ \A c \in Contexts' : ctx'[c] \in Context /\ ctx'[c].handle \in Handle
<1>1. PICK E : E = Context  OBVIOUS
<1>2. ctx' \in Seq(E)  BY <1>1 DEF TypeOK, Context
<1>3. Len(ctx') \in Nat /\ Contexts' = 1..Len(ctx')  BY <1>2 DEF Contexts
<1>4. \A c \in Contexts' : ctx'[c] \in E  BY <1>2 DEF Contexts
<1> QED  BY <1>1, <1>3, <1>4 DEF Context

LEMMA ShiftedInbound ==
    ASSUME NEW n \in {0, 1}, InboundShifts(n)
    PROVE  /\ \A i \in Inbound' : i \in Nat /\ i > 0
           /\ \A i \in Inbound' : stackInbound'[i].kind \in Request =>
                 i + n \in Inbound /\ stackInbound'[i] = stackInbound[i + n]
<1>1. \A i \in Inbound' : i \in Nat /\ i > 0
  BY DEF Inbound
<1> QED  BY <1>1 DEF InboundShifts, Request

LEMMA StackKeepsCalls ==
    ASSUME Inv, TypeOK', NEW n \in {0, 1}, StackFrame, InboundShifts(n), ContextsGrow, CallsMove(n), Delivers
    PROVE  Calls'
<1>1. TypeOK /\ OneLiveCall /\ \A x \in Session : CallsOf(x)  BY DEF Inv, Calls
<1>2. \A i \in Inbound' : /\ i \in Nat /\ i > 0
                          /\ stackInbound'[i].kind \in Request =>
                                i + n \in Inbound /\ stackInbound'[i] = stackInbound[i + n]
  BY <1>1, ShiftedInbound
<1>3. \A i \in Inbound', x \in Session : IsInvite(i, x)' =>
          i + n \in Inbound /\ IsInvite(i + n, x) /\ stackInbound'[i] = stackInbound[i + n]
  BY <1>2 DEF IsInvite, Request
<1>4. Len(ctx) \in Nat /\ Contexts = 1..Len(ctx)
  <2>1. PICK E : E = Context  OBVIOUS
  <2> QED  BY <1>1, <2>1, TypeParts DEF StackTyped, Contexts
<1>5. ASSUME NEW x \in Session, NEW c \in Contexts', IsLive(c, x)'
      PROVE  \/ c \in Contexts /\ IsLive(c, x)
             \/ /\ c = Len(ctx) + 1
                /\ \/ n = 1 /\ 1 \in Inbound /\ IsInvite(1, x)
                   \/ op[x] = "none"
  BY <1>5 DEF IsLive, CallsMove, ContextsGrow
<1>6. \A x \in Session : op[x] = "none" =>
          /\ \A i \in Inbound : ~IsInvite(i, x)
          /\ \A c \in Contexts : ~IsLive(c, x)
  <2> TAKE x \in Session
  <2> HAVE op[x] = "none"
  <2>1. StateOf(x) /\ CallsOf(x)  BY <1>1 DEF Inv, States
  <2>2. x \notin Uac /\ \A c \in Contexts : ctx[c].session # x
    BY <2>1, SessionsAssumption DEF StateOf
  <2> QED  BY <2>1, <2>2 DEF CallsOf, IsLive
<1>7. \A x \in Session : NoCall(x) /\ op[x] # "none" => NoCall(x)'
  BY <1>3, <1>5 DEF NoCall
<1>8. ASSUME NEW x \in Session PROVE CallsOf(x)'
  <2>1. CallsOf(x)  BY <1>1
  <2>2. \A i, j \in Inbound' : IsInvite(i, x)' /\ IsInvite(j, x)' => i = j
    <3> SUFFICES ASSUME NEW i \in Inbound', NEW j \in Inbound', IsInvite(i, x)', IsInvite(j, x)' PROVE i = j
      OBVIOUS
    <3>1. i + n = j + n  BY <1>3, <2>1 DEF CallsOf
    <3> QED  BY <1>2, <3>1
  <2>3. \A i \in Inbound', c \in Contexts' : IsInvite(i, x)' => ~IsLive(c, x)'
    <3> SUFFICES ASSUME NEW i \in Inbound', NEW c \in Contexts', IsInvite(i, x)', IsLive(c, x)' PROVE FALSE
      OBVIOUS
    <3>1. i + n \in Inbound /\ IsInvite(i + n, x) /\ i + n > n  BY <1>2, <1>3
    <3>2. CASE c \in Contexts /\ IsLive(c, x)  BY <2>1, <3>1, <3>2 DEF CallsOf
    <3>3. CASE n = 1 /\ 1 \in Inbound /\ IsInvite(1, x)  BY <2>1, <3>1, <3>3 DEF CallsOf
    <3>4. CASE op[x] = "none"  BY <1>6, <3>1, <3>4
    <3> QED  BY <1>5, <3>2, <3>3, <3>4
  <2>4. \A i \in Inbound' : IsInvite(i, x)' => x \in Uac /\ stackInbound'[i].handle = IW_UNDEFINED
    BY <1>3, <2>1 DEF CallsOf
  <2>5. op'[x] = "idle" /\ callState'[x] = "UNKNOWN" => NoCall(x)'
    BY <1>7, <2>1 DEF CallsOf, StackFrame
  <2>6. \A i \in Ready(x)' : ready'[x][i].kind = "MAKE_CALL_NACK" => NoCall(x)'
    <3> TAKE i \in Ready(x)'
    <3> HAVE ready'[x][i].kind = "MAKE_CALL_NACK"
    <3>1. CASE i \in Ready(x)
      <4>1. ready[x][i].kind = "MAKE_CALL_NACK"  BY <3>1 DEF Delivers
      <4>2. op[x] # "none"  BY <3>1, <4>1 DEF Inv, Tokens, TokensOf, Answered, TxnOp, Response
      <4> QED  BY <1>7, <2>1, <3>1, <4>1, <4>2 DEF CallsOf
    <3>2. CASE i \notin Ready(x)  BY <3>2 DEF Delivers, Fits
    <3> QED  BY <3>1, <3>2
  <2> QED  BY <2>2, <2>3, <2>4, <2>5, <2>6 DEF CallsOf
<1>9. OneLiveCall'
  <2> SUFFICES ASSUME NEW c \in Contexts', NEW d \in Contexts', ctx'[c].session = ctx'[d].session,
                      ctx'[c].dialog \in Live, ctx'[d].dialog \in Live
      PROVE  c = d
    BY DEF OneLiveCall
  <2>1. CASE c \in Contexts /\ d \in Contexts
    <3>1. /\ ctx[c].session = ctx[d].session /\ ctx[c].dialog \in Live /\ ctx[d].dialog \in Live
      BY <2>1 DEF ContextsGrow
    <3> QED  BY <1>1, <2>1, <3>1 DEF OneLiveCall
  <2>2. ASSUME NEW x \in Session, NEW e \in Contexts, NEW f \in Contexts', f \notin Contexts,
               IsLive(e, x)', IsLive(f, x)'
        PROVE  FALSE
    <3>1. IsLive(e, x)  BY <2>2 DEF IsLive, ContextsGrow
    <3>2. (1 \in Inbound /\ IsInvite(1, x)) \/ op[x] = "none"  BY <1>5, <2>2
    <3> QED  BY <1>1, <1>6, <3>1, <3>2 DEF CallsOf
  <2>3. CASE c \in Contexts /\ d \notin Contexts
    <3>1. ctx'[d].session \in Session  BY <2>3 DEF CallsMove
    <3> QED  BY <2>2, <2>3, <3>1 DEF IsLive
  <2>4. CASE c \notin Contexts /\ d \in Contexts
    <3>1. ctx'[c].session \in Session  BY <2>4 DEF CallsMove
    <3> QED  BY <2>2, <2>4, <3>1 DEF IsLive
  <2>5. CASE c \notin Contexts /\ d \notin Contexts  BY <2>5 DEF CallsMove
  <2> QED  BY <2>1, <2>3, <2>4, <2>5
<1> QED  BY <1>8, <1>9 DEF Calls

LEMMA StackKeepsTokens ==
    ASSUME Inv, TypeOK', NEW n \in {0, 1}, StackFrame, InboundShifts(n), ContextsGrow, TokensMove(n),
           FieldsPast, Delivers
    PROVE  Tokens'
<1>1. TypeOK /\ Numbered /\ \A x \in Session : Past(x) /\ TokensOf(x)  BY DEF Inv, Tokens
<1>2. \A i \in Inbound' : /\ i \in Nat /\ i > 0
                          /\ stackInbound'[i].kind \in Request =>
                                i + n \in Inbound /\ stackInbound'[i] = stackInbound[i + n]
  BY <1>1, ShiftedInbound
<1>3. Numbered'  BY <1>1, <1>2 DEF Numbered, Asking, Request
<1>4. \A i \in Inbound', x \in Session : IsAsked(i, x)' =>
          i + n \in Inbound /\ IsAsked(i + n, x) /\ stackInbound'[i] = stackInbound[i + n]
  BY <1>2 DEF IsAsked, Asking, Request
<1>5. ASSUME NEW x \in Session PROVE Past(x)'
  BY <1>1, <1>4 DEF Past, StackFrame, FieldsPast
<1>6. ASSUME NEW x \in Session PROVE TokensOf(x)'
  <2>1. TokensOf(x) /\ txn'[x] = txn[x] /\ iwCallHandle'[x] = iwCallHandle[x]
    BY <1>1 DEF StackFrame
  <2>2. op[x] \in TxnOp \/ op'[x] \in TxnOp => op'[x] = op[x]
    BY DEF StackFrame, TxnOp
  <2>3. \A i \in Ready(x)' : ready'[x][i].kind \in Response =>
            \/ i \in Ready(x) /\ ready'[x][i] = ready[x][i]
            \/ /\ i \notin Ready(x) /\ op[x] \in TxnOp /\ ~Answered(x)
               /\ AnswerTo(ready'[x][i].kind, op[x])
    BY DEF Delivers, Fits, Response
  <2>4. \A i, j \in Ready(x)' :
            ready'[x][i].kind \in Response /\ ready'[x][j].kind \in Response => i = j
    BY <2>1, <2>3 DEF TokensOf, Answered, Delivers
  <2>5. op'[x] \notin TxnOp => ~Answered(x)'
    BY <2>1, <2>2, <2>3 DEF TokensOf, Answered
  <2>6. ASSUME NEW i \in Ready(x)'
        PROVE  /\ ready'[x][i].kind \in Response => AnswerTo(ready[x][i].kind, op[x])'
               /\ ready'[x][i].kind \in {"MAKE_CALL_OK", "CALL_CONNECTED", "HANGUP_EVT"} =>
                     /\ ready'[x][i].call \in Contexts'
                     /\ ctx'[ready'[x][i].call].session = x
                     /\ ready'[x][i].kind # "HANGUP_EVT" => ctx'[ready'[x][i].call].dialog # "inviting"
    <3>1. CASE i \in Ready(x)
      <4>1. ready'[x][i] = ready[x][i]  BY <3>1 DEF Delivers
      <4>2. ready[x][i].kind \in Response => op'[x] = op[x]
        BY <2>1, <2>2, <3>1 DEF TokensOf, Answered
      <4> QED  BY <2>1, <3>1, <4>1, <4>2 DEF TokensOf, ContextsGrow, AnswerTo
    <3>2. CASE i \notin Ready(x)
      <4>1. ready'[x][i].kind \in Response => AnswerTo(ready'[x][i].kind, op[x]) /\ op'[x] = op[x]
        BY <2>2, <2>3, <3>2
      <4>2. ready'[x][i].kind \in {"MAKE_CALL_OK", "CALL_CONNECTED", "HANGUP_EVT"} =>
               /\ ready'[x][i].call \in Contexts
               /\ ctx[ready'[x][i].call].session = x
               /\ ready'[x][i].kind # "HANGUP_EVT" => ctx[ready'[x][i].call].dialog # "inviting"
        BY <3>2 DEF Delivers, Fits, Response
      <4> QED  BY <4>1, <4>2 DEF ContextsGrow, AnswerTo
    <3> QED  BY <3>1, <3>2
  <2>7. op'[x] \in TxnOp => OneToken(x)'
    <3> HAVE op'[x] \in TxnOp
    <3>0. op'[x] = op[x] /\ op[x] \in TxnOp /\ OneToken(x)  BY <2>1, <2>2 DEF TokensOf
    <3>1. \A i \in Inbound' : OpenRequest(i, x)' =>
              i + n \in Inbound /\ OpenRequest(i + n, x) /\ stackInbound'[i] = stackInbound[i + n]
      BY <1>4, <2>1 DEF OpenRequest
    <3>2. \A i \in Inbound' : OpenRequest(i, x)' =>
              /\ AskedBy(stackInbound[i].kind, op[x])'
              /\ stackInbound'[i].kind = "REOFFER_REQ" => stackInbound'[i].handle = iwCallHandle'[x]
      BY <2>1, <3>0, <3>1 DEF OneToken, AskedBy
    <3>3. \A i, j \in Inbound' : OpenRequest(i, x)' /\ OpenRequest(j, x)' => i = j
      <4> SUFFICES ASSUME NEW i \in Inbound', NEW j \in Inbound', OpenRequest(i, x)', OpenRequest(j, x)'
          PROVE  i = j
        OBVIOUS
      <4>1. i + n = j + n  BY <3>0, <3>1 DEF OneToken
      <4> QED  BY <1>2, <4>1
    <3>4. ASSUME NEW c \in Contexts', NEW o \in TxnOp, WillAnswer(c, x, o)'
          PROVE  /\ o = op'[x]
                 /\ \A i \in Inbound' : ~OpenRequest(i, x)'
                 /\ o = "ReOffer" => ctx'[c].handle = iwCallHandle'[x]
      <4>1. CASE c \in Contexts /\ WillAnswer(c, x, o)
        BY <2>1, <3>0, <3>1, <4>1 DEF OneToken, ContextsGrow
      <4>2. CASE /\ n = 1 /\ 1 \in Inbound /\ OpenRequest(1, x) /\ AskedBy(stackInbound[1].kind, o)
                 /\ o = "ReOffer" => stackInbound[1].kind = "REOFFER_REQ" /\ ctx'[c].handle = stackInbound[1].handle
        <5>1. o = op'[x]  BY <3>0, <4>2 DEF OneToken, AskedBy
        <5>2. \A i \in Inbound' : ~OpenRequest(i, x)'
          <6> SUFFICES ASSUME NEW i \in Inbound', OpenRequest(i, x)' PROVE FALSE
            OBVIOUS
          <6>1. i + 1 = 1  BY <3>0, <3>1, <4>2 DEF OneToken
          <6> QED  BY <1>2, <6>1
        <5>3. o = "ReOffer" => ctx'[c].handle = iwCallHandle'[x]  BY <2>1, <3>0, <4>2 DEF OneToken
        <5> QED  BY <5>1, <5>2, <5>3
      <4> QED  BY <3>0, <3>4, <4>1, <4>2 DEF TokensMove
    <3>5. Answered(x)' => /\ \A i \in Inbound' : ~OpenRequest(i, x)'
                          /\ \A c \in Contexts', o \in TxnOp : ~WillAnswer(c, x, o)'
      <4>1. CASE Answered(x)
        <5>1. \A i \in Inbound' : ~OpenRequest(i, x)'  BY <3>0, <3>1, <4>1 DEF OneToken
        <5>2. \A c \in Contexts', o \in TxnOp : ~WillAnswer(c, x, o)'
          BY <3>0, <4>1 DEF OneToken, TokensMove
        <5> QED  BY <5>1, <5>2
      <4>2. CASE Answered(x)' /\ ~Answered(x)
        <5>1. PICK i \in Ready(x)' : ready'[x][i].kind \in Response  BY <4>2 DEF Answered
        <5>2. i \notin Ready(x)  BY <4>2, <5>1 DEF Answered, Delivers
        <5> QED  BY <5>1, <5>2 DEF Delivers, Fits, Response
      <4> QED  BY <4>1, <4>2
    <3> QED  BY <3>2, <3>3, <3>4, <3>5 DEF OneToken
  <2> QED  BY <2>4, <2>5, <2>6, <2>7 DEF TokensOf
<1> QED  BY <1>3, <1>5, <1>6 DEF Tokens

LEMMA StackKeepsEnds ==
    ASSUME Inv, TypeOK', StackFrame, ContextsGrow, EndsReported, Delivers, OneHandle'
    PROVE  Ends'
<1> SUFFICES ASSUME NEW x \in Session, NEW c \in Contexts', op'[x] # "deleted", ctx'[c].session = x,
                    Concerns(c, x)'
    PROVE  Reported(c, x)'
  BY DEF Ends, EndsOf
<1>1. EndsOf(x) /\ StateOf(x) /\ TokensOf(x) /\ OwnHandle(x, iwCallHandle[x]) /\ op[x] # "deleted" /\ TypeOK
  BY DEF Inv, Ends, States, Tokens, Ownership, StackFrame
<1>2. c \in Contexts => ctx[c].session = x  BY DEF ContextsGrow
<1>3. \A d \in Contexts : ctx[d].session = x /\ Concerns(d, x) => Reported(d, x)'
  BY <1>1 DEF EndsOf, EndsReported
<1>4. CASE ctx'[c].dialog \notin {"inviting", "over"}
  <2>1. CASE c \in Contexts /\ ctx[c].dialog \notin {"inviting", "over"}
    BY <1>2, <1>3, <2>1 DEF Concerns
  <2> QED  BY <1>1, <1>4, <2>1 DEF EndsReported
<1>5. CASE ctx'[c].handle = iwCallHandle'[x]
  <2>1. iwCallHandle'[x] = iwCallHandle[x]  BY DEF StackFrame
  <2>2. iwCallHandle[x] # IW_UNDEFINED
    <3>1. ctx'[c].handle \in Handle  BY ContextNext
    <3> QED  BY <1>5, <2>1, <3>1, BoundsAssumption DEF Handle, IW_UNDEFINED
  <2>3. PICK d \in Contexts : ctx[d].handle = iwCallHandle[x] /\ ctx[d].session = x
    BY <1>1, <2>2 DEF OwnHandle
  <2>4. d \in Contexts' /\ ctx'[d].handle = ctx'[c].handle  BY <1>5, <2>1, <2>3 DEF ContextsGrow
  <2>5. d = c  BY <2>4 DEF OneHandle
  <2> QED  BY <1>3, <2>3, <2>5 DEF Concerns
<1>6. CASE op'[x] = "offered"
  <2>1. CASE op[x] = "offered" /\ c \in Contexts  BY <1>2, <1>3, <2>1 DEF Concerns
  <2>2. CASE c \notin Contexts  BY <1>1, <1>6, <2>2 DEF EndsReported
  <2>3. CASE op[x] = "none" /\ c \in Contexts  BY <1>1, <1>2, <2>3 DEF StateOf
  <2> QED  BY <1>6, <2>1, <2>2, <2>3 DEF StackFrame
<1>7. CASE \E i \in Ready(x)' : /\ ready'[x][i].kind \in {"MAKE_CALL_OK", "CALL_CONNECTED"}
                                /\ ready'[x][i].call = c
  <2>1. PICK i \in Ready(x)' : /\ ready'[x][i].kind \in {"MAKE_CALL_OK", "CALL_CONNECTED"}
                               /\ ready'[x][i].call = c
    BY <1>7
  <2>2. CASE i \in Ready(x)
    <3>1. ready[x][i] = ready'[x][i]  BY <2>2 DEF Delivers
    <3>2. c \in Contexts /\ ctx[c].session = x  BY <1>1, <2>1, <2>2, <3>1 DEF TokensOf
    <3> QED  BY <1>3, <2>1, <2>2, <3>1, <3>2 DEF Concerns
  <2>3. CASE i \notin Ready(x)
    <3>1. c \in Contexts /\ ctx[c].session = x /\ ctx[c].dialog \notin {"inviting", "over"}
      BY <2>1, <2>3 DEF Delivers, Fits
    <3> QED  BY <1>3, <3>1 DEF Concerns
  <2> QED  BY <2>2, <2>3
<1> QED  BY <1>4, <1>5, <1>6, <1>7 DEF Concerns

LEMMA StackKeepsOffers ==
    ASSUME Inv, TypeOK', NEW n \in {0, 1}, StackFrame, InboundShifts(n), ContextsGrow, MapKept(n), Delivers
    PROVE  Offers'
<1>1. TypeOK /\ OfferIsAlone /\ Ownership /\ OneHandle /\ \A x \in Session : OffersOf(x) /\ TokensOf(x)
  BY DEF Inv, Offers, Naming, Tokens
<1>2. \A i \in Inbound' : /\ i \in Nat /\ i > 0
                          /\ stackInbound'[i].kind \in Request =>
                                i + n \in Inbound /\ stackInbound'[i] = stackInbound[i + n]
  BY <1>1, ShiftedInbound
<1>3. \A h, x : OwnHandle(x, h) /\ Named(h)' =>
          /\ Named(h) /\ iwHandlesMap'[h] = iwHandlesMap[h]
          /\ ctx[iwHandlesMap[h]].dialog = "connected" =>
                \/ ctx'[iwHandlesMap'[h]].dialog = "connected"
                \/ n = 1 /\ 1 \in Inbound /\ IsReoffer(1, h)
  <2> TAKE h, x
  <2> HAVE OwnHandle(x, h) /\ Named(h)'
  <2>1. h # IW_UNDEFINED  BY BoundsAssumption DEF TypeOK, Named, Handle, IW_UNDEFINED
  <2>2. PICK c \in Contexts : ctx[c].handle = h /\ ctx[c].dialog # "inviting"
    BY <2>1 DEF OwnHandle
  <2>3. Named(h)' => /\ Named(h) /\ iwHandlesMap[h] = c /\ iwHandlesMap'[h] = c
                     /\ ctx[c].dialog = "connected" =>
                           \/ ctx'[c].dialog = "connected"
                           \/ n = 1 /\ 1 \in Inbound /\ IsReoffer(1, h)
    BY <2>2 DEF MapKept, Named, TypeOK
  <2> QED  BY <2>3
<1>4. \A h : \A i \in Inbound' : IsReoffer(i, h)' =>
          i + n \in Inbound /\ IsReoffer(i + n, h) /\ stackInbound'[i] = stackInbound[i + n]
  BY <1>2 DEF IsReoffer, Request
<1>5. OfferIsAlone'
  <2> SUFFICES ASSUME NEW i \in Inbound', stackInbound'[i].kind = "REOFFER_REQ", NEW h,
                      h = stackInbound'[i].handle, Named(h)'
      PROVE  /\ ctx'[iwHandlesMap'[h]].dialog = "connected"
             /\ \A j \in Inbound' : IsReoffer(j, h)' => i = j
    BY DEF OfferIsAlone, Named, IsReoffer
  <2>1. IsReoffer(i, h)'  BY DEF IsReoffer
  <2>2. i + n \in Inbound /\ IsReoffer(i + n, h)  BY <1>4, <2>1
  <2>3. \E x : OwnHandle(x, h)  BY <1>1, <2>2 DEF Ownership, IsReoffer, Request
  <2>4. Named(h) /\ iwHandlesMap'[h] = iwHandlesMap[h]  BY <1>3, <2>3
  <2>5. /\ ctx[iwHandlesMap[h]].dialog = "connected"
        /\ \A j \in Inbound : IsReoffer(j, h) => i + n = j
    BY <1>1, <2>2, <2>4 DEF OfferIsAlone, IsReoffer
  <2>6. ~(n = 1 /\ 1 \in Inbound /\ IsReoffer(1, h))
    <3> SUFFICES ASSUME n = 1, 1 \in Inbound, IsReoffer(1, h) PROVE FALSE
      OBVIOUS
    <3>1. i + 1 = 1  BY <2>5
    <3> QED  BY <1>2, <3>1
  <2>7. ctx'[iwHandlesMap'[h]].dialog = "connected"  BY <1>3, <2>3, <2>5, <2>6
  <2>8. ASSUME NEW j \in Inbound', IsReoffer(j, h)' PROVE i = j
    <3>1. j + n \in Inbound /\ IsReoffer(j + n, h)  BY <1>4, <2>8
    <3>2. i + n = j + n  BY <2>5, <3>1
    <3> QED  BY <1>2, <3>2
  <2> QED  BY <2>7, <2>8
<1>6. \A h, x : OwnHandle(x, h) /\ CanOffer(h) => CanOffer(h)'
  <2> SUFFICES ASSUME NEW h, NEW x, OwnHandle(x, h), CanOffer(h), Named(h)'
      PROVE  /\ ctx'[iwHandlesMap'[h]].dialog = "connected"
             /\ \A i \in Inbound' : ~IsReoffer(i, h)'
    BY DEF CanOffer
  <2>1. Named(h)  BY <1>3
  <2>2. ctx[iwHandlesMap[h]].dialog = "connected" /\ \A i \in Inbound : ~IsReoffer(i, h)
    BY <2>1 DEF CanOffer
  <2> QED  BY <1>3, <1>4, <2>2
<1>7. ASSUME NEW x \in Session PROVE OffersOf(x)'
  <2>1. OffersOf(x) /\ TokensOf(x) /\ OwnHandle(x, iwCallHandle[x])  BY <1>1 DEF Ownership
  <2>2. PICK h : h = iwCallHandle[x]  OBVIOUS
  <2>3. iwCallHandle'[x] = h /\ callState'[x] = callState[x]  BY <2>2 DEF StackFrame
  <2>4. CanOffer(h) => CanOffer(iwCallHandle[x])'
    BY <1>6, <2>1, <2>2, <2>3 DEF CanOffer, Named, IsReoffer
  <2>5. InUse(x)' => InUse(x) /\ op'[x] = op[x]  BY DEF InUse, TxnOp, StackFrame
  <2>6. ASSUME NEW i \in Ready(x)'
        PROVE  /\ ready'[x][i].kind \in {"MAKE_CALL_OK", "CALL_CONNECTED"} =>
                      CanOffer(ctx[ready[x][i].call].handle)'
               /\ ready'[x][i].kind = "REOFFER_ACK" => CanOffer(iwCallHandle[x])'
               /\ ready'[x][i].kind = "REOFFER_NACK" => ~Named(iwCallHandle[x])'
    <3>1. CASE i \in Ready(x)
      <4>1. ready'[x][i] = ready[x][i]  BY <3>1 DEF Delivers
      <4>2. ASSUME ready[x][i].kind \in {"MAKE_CALL_OK", "CALL_CONNECTED"}
            PROVE  CanOffer(ctx[ready[x][i].call].handle)'
        <5>1. PICK c : c = ready[x][i].call  OBVIOUS
        <5>2. c \in Contexts /\ ctx[c].session = x /\ ctx[c].dialog # "inviting"
          BY <2>1, <3>1, <4>2, <5>1 DEF TokensOf
        <5>3. PICK d : d = ctx[c].handle  OBVIOUS
        <5>4. OwnHandle(x, d) /\ CanOffer(d)
          BY <2>1, <3>1, <4>2, <5>1, <5>2, <5>3 DEF OwnHandle, OffersOf
        <5>5. CanOffer(d)' /\ ctx'[c].handle = d  BY <1>6, <5>2, <5>3, <5>4 DEF ContextsGrow
        <5> QED  BY <4>1, <5>1, <5>5 DEF CanOffer, Named, IsReoffer
      <4>3. ready[x][i].kind = "REOFFER_ACK" => CanOffer(iwCallHandle[x])'
        BY <2>1, <2>2, <2>4, <3>1 DEF OffersOf
      <4>4. ready[x][i].kind = "REOFFER_NACK" => ~Named(iwCallHandle[x])'
        BY <1>3, <2>1, <2>2, <2>3, <3>1 DEF OffersOf, Named
      <4> QED  BY <4>1, <4>2, <4>3, <4>4
    <3>2. CASE i \notin Ready(x)
      <4>1. CASE ready'[x][i].kind = "HANGUP_EVT"  BY <4>1
      <4>2. CASE \E e : e = ready'[x][i] /\ e.kind \in Response /\ Fits(e, x)
        <5>1. PICK e : e = ready'[x][i] /\ e.kind \in Response /\ Fits(e, x)  BY <4>2
        <5>2. e.kind \in {"MAKE_CALL_OK", "CALL_CONNECTED"} => CanOffer(ctx[ready[x][i].call].handle)'
          BY <5>1 DEF Fits, CanOffer, Named, IsReoffer
        <5> QED  BY <5>1, <5>2 DEF Fits
      <4> QED  BY <2>6, <3>2, <4>1, <4>2 DEF Delivers
    <3> QED  BY <3>1, <3>2
  <2> QED  BY <2>1, <2>2, <2>3, <2>4, <2>5, <2>6 DEF OffersOf
<1> QED  BY <1>5, <1>7 DEF Offers

\* A step of the stack keeps the invariant, if it keeps the names right.
LEMMA StackKept ==
    ASSUME Inv, TypeOK', Naming', NEW n \in {0, 1}, StackFrame, InboundShifts(n), ContextsGrow, MapKept(n),
           CallsMove(n), TokensMove(n), FieldsPast, BuiltHasContext, EndsReported, Delivers
    PROVE  Inv'
<1>1. TypeOK /\ Ownership /\ States  BY DEF Inv
<1>2. \A x, h : OwnHandle(x, h) => OwnHandle(x, h)'  BY DEF OwnHandle, ContextsGrow
<1>3. Ownership'
  <2>1. ASSUME NEW x \in Session PROVE OwnHandle(x, iwCallHandle[x])'
    <3>1. PICK h : h = iwCallHandle[x]  OBVIOUS
    <3>2. OwnHandle(x, h)'  BY <1>1, <1>2, <3>1 DEF Ownership
    <3>3. iwCallHandle'[x] = h  BY <3>1 DEF StackFrame
    <3> QED  BY <3>2, <3>3 DEF OwnHandle
  <2>2. ASSUME NEW i \in Inbound', stackInbound'[i].kind \in Request
        PROVE  OwnHandle(stackInbound[i].session, stackInbound[i].handle)'
    <3>1. i + n \in Inbound /\ stackInbound'[i] = stackInbound[i + n]
      BY <1>1, <2>2, ShiftedInbound
    <3>2. PICK x, h : x = stackInbound[i + n].session /\ h = stackInbound[i + n].handle  OBVIOUS
    <3>3. OwnHandle(x, h)'  BY <1>1, <1>2, <2>2, <3>1, <3>2 DEF Ownership
    <3> QED  BY <3>1, <3>2, <3>3 DEF OwnHandle
  <2> QED  BY <2>1, <2>2 DEF Ownership
<1>4. States'
  <2> SUFFICES ASSUME NEW x \in Session PROVE StateOf(x)'
    BY DEF States
  <2>1. StateOf(x) /\ callState'[x] = callState[x] /\ iwCallHandle'[x] = iwCallHandle[x]
    BY <1>1 DEF States, StackFrame
  <2>2. op'[x] = "none" => \A c \in Contexts' : ctx'[c].session # x
    <3> SUFFICES ASSUME op'[x] = "none", NEW c \in Contexts', ctx'[c].session = x PROVE FALSE
      OBVIOUS
    <3>1. c \in Contexts  BY DEF BuiltHasContext
    <3>2. op[x] = "none" /\ ctx[c].session = x  BY <3>1 DEF StackFrame, ContextsGrow
    <3> QED  BY <2>1, <3>1, <3>2 DEF StateOf
  <2>3. op'[x] = op[x] \/ (op[x] = "none" /\ op'[x] \in {"offered", "lost"})  BY DEF StackFrame
  <2> QED  BY <2>1, <2>2, <2>3 DEF StateOf, InUse, TxnOp
<1>5. Calls'  BY StackKeepsCalls
<1>6. Tokens'  BY StackKeepsTokens
<1>7. Ends'  BY StackKeepsEnds DEF Naming
<1>8. Offers'  BY StackKeepsOffers
<1> QED  BY <1>3, <1>4, <1>5, <1>6, <1>7, <1>8 DEF Inv

-----------------------------------------------------------------------------
(* What is delivered.                                                      *)

\* New are the response [k, d] to the transaction t of the sessions in S, there is
\* one at most, and the end of calls in C.
Adds(S, t, k, d, C) ==
    \A x \in Session :
        /\ \A i \in Ready(x) : i \in Ready(x)' /\ ready'[x][i] = ready[x][i]
        /\ \A i \in Ready(x)' \ Ready(x) :
              \/ /\ \E c \in C : ready'[x][i] = [kind |-> "HANGUP_EVT", call |-> c] /\ ctx[c].session = x
                 /\ op[x] # "deleted"
              \/ /\ x \in S /\ op[x] \in TxnOp /\ txn[x] = t /\ i = Len(ready[x]) + 1
                 /\ ready'[x][i] = [kind |-> k, call |-> d]

\* The session of c hears of its end.
Hears(c) ==
    \A x \in Session : ctx[c].session = x /\ op[x] # "deleted" =>
        \E i \in Ready(x)' : ready'[x][i] = [kind |-> "HANGUP_EVT", call |-> c]

LEMMA AddsDelivers ==
    ASSUME NEW S, NEW t, NEW k \in Response, NEW d, NEW C \in SUBSET Contexts, Adds(S, t, k, d, C),
           \A x \in Session : x \in S /\ op[x] \in TxnOp /\ txn[x] = t => Fits([kind |-> k, call |-> d], x)
    PROVE  Delivers
<1> SUFFICES ASSUME NEW x \in Session
    PROVE  /\ \A i \in Ready(x) : i \in Ready(x)' /\ ready'[x][i] = ready[x][i]
           /\ \A i \in Ready(x)' \ Ready(x) :
                 \/ /\ ready'[x][i].kind = "HANGUP_EVT" /\ ready'[x][i].call \in Contexts
                    /\ ctx[ready'[x][i].call].session = x
                 \/ \E e : e = ready'[x][i] /\ e.kind \in Response /\ Fits(e, x)
           /\ \A i, j \in Ready(x)' \ Ready(x) :
                 ready'[x][i].kind \in Response /\ ready'[x][j].kind \in Response => i = j
  BY DEF Delivers
<1>1. \A i \in Ready(x) : i \in Ready(x)' /\ ready'[x][i] = ready[x][i]  BY DEF Adds
<1>2. ASSUME NEW i \in Ready(x)' \ Ready(x)
      PROVE  \/ /\ ready'[x][i].kind = "HANGUP_EVT" /\ ready'[x][i].call \in Contexts
                /\ ctx[ready'[x][i].call].session = x
             \/ /\ \E e : e = ready'[x][i] /\ e.kind \in Response /\ Fits(e, x)
                /\ i = Len(ready[x]) + 1
  <2>1. CASE \E c \in C : ready'[x][i] = [kind |-> "HANGUP_EVT", call |-> c] /\ ctx[c].session = x
    BY <2>1
  <2>2. CASE /\ x \in S /\ op[x] \in TxnOp /\ txn[x] = t /\ i = Len(ready[x]) + 1
             /\ ready'[x][i] = [kind |-> k, call |-> d]
    <3>1. PICK e : e = [kind |-> k, call |-> d]  OBVIOUS
    <3>2. e.kind = k /\ Fits(e, x)  BY <2>2, <3>1
    <3> QED  BY <2>2, <3>1, <3>2
  <2> QED  BY <1>2, <2>1, <2>2 DEF Adds
<1>3. \A i \in Ready(x)' \ Ready(x) : ready'[x][i].kind \in Response => i = Len(ready[x]) + 1
  BY <1>2 DEF Response
<1> QED  BY <1>1, <1>2, <1>3

LEMMA RespondFacts ==
    ASSUME TypeOK, NEW s \in Session, NEW t, NEW k \in Response, NEW d \in 0..MaxContexts
    PROVE  \A q : q = Respond(ready, s, t, k, d) =>
               /\ q \in [Session -> Seq(Event)]
               /\ \A x \in Session : x # s => q[x] = ready[x]
               /\ q[s] = IF op[s] \in TxnOp /\ txn[s] = t
                         THEN Append(ready[s], [kind |-> k, call |-> d]) ELSE ready[s]
<1>1. ready \in [Session -> Seq(Event)]  BY TypeParts DEF ReadyTyped
<1>2. PICK e : e = [kind |-> k, call |-> d]  OBVIOUS
<1>3. e \in Event  BY <1>2 DEF Event
<1>4. PICK E : E = Event  OBVIOUS
<1> SUFFICES ASSUME NEW q, q = Respond(ready, s, t, k, d)
    PROVE  /\ q \in [Session -> Seq(E)]
           /\ \A x \in Session : x # s => q[x] = ready[x]
           /\ q[s] = IF op[s] \in TxnOp /\ txn[s] = t THEN Append(ready[s], e) ELSE ready[s]
  BY <1>2, <1>4
<1>5. q = IF op[s] \in TxnOp /\ txn[s] = t THEN [ready EXCEPT ![s] = Append(@, e)] ELSE ready
  BY <1>2 DEF Respond
<1> QED  BY <1>1, <1>3, <1>4, <1>5

LEMMA NotifyFacts ==
    ASSUME TypeOK, NEW c \in Contexts, NEW q \in [Session -> Seq(Event)]
    PROVE  \A r : r = NotifyHangup(q, c) =>
               /\ r \in [Session -> Seq(Event)]
               /\ \A x \in Session :
                     r[x] = IF ctx[c].session = x /\ op[x] # "deleted"
                            THEN Append(q[x], [kind |-> "HANGUP_EVT", call |-> c]) ELSE q[x]
<1>1. PICK e : e = [kind |-> "HANGUP_EVT", call |-> c]  OBVIOUS
<1>2. e \in Event
  <2>1. PICK F : F = Context  OBVIOUS
  <2>2. Len(ctx) \in Nat /\ Len(ctx) <= MaxContexts  BY <2>1, TypeParts DEF StackTyped
  <2> QED  BY <1>1, <2>2, BoundsAssumption DEF Event, Contexts
<1>3. PICK E : E = Event  OBVIOUS
<1> SUFFICES ASSUME NEW r, r = NotifyHangup(q, c)
    PROVE  /\ r \in [Session -> Seq(E)]
           /\ \A x \in Session : r[x] = IF ctx[c].session = x /\ op[x] # "deleted" THEN Append(q[x], e) ELSE q[x]
  BY <1>1, <1>3
<1>4. PICK s : s = ctx[c].session  OBVIOUS
<1>5. r = IF s \in Session /\ op[s] # "deleted" THEN [q EXCEPT ![s] = Append(@, e)] ELSE q
  BY <1>1, <1>4 DEF NotifyHangup
<1> QED  BY <1>2, <1>3, <1>4, <1>5

\* The four ways in which a step of the stack delivers.
LEMMA AddsNothing ==
    ASSUME TypeOK, UNCHANGED ready
    PROVE  ReadyTyped' /\ Adds({}, 0, "MAKE_CALL_OK", 0, {})
<1>1. ready \in [Session -> Seq(Event)]  BY TypeParts DEF ReadyTyped
<1> QED  BY <1>1 DEF ReadyTyped, Adds, Ready

LEMMA AddsResponse ==
    ASSUME TypeOK, NEW s \in Session, NEW t, NEW k \in Response, NEW d \in 0..MaxContexts,
           ready' = Respond(ready, s, t, k, d)
    PROVE  ReadyTyped' /\ Adds({s}, t, k, d, {})
<1>1. PICK q : q = ready'  OBVIOUS
<1>2. /\ q \in [Session -> Seq(Event)]
      /\ \A x \in Session : x # s => q[x] = ready[x]
      /\ q[s] = IF op[s] \in TxnOp /\ txn[s] = t
                THEN Append(ready[s], [kind |-> k, call |-> d]) ELSE ready[s]
  <2>1. \A p : p = Respond(ready, s, t, k, d) =>
            /\ p \in [Session -> Seq(Event)]
            /\ \A x \in Session : x # s => p[x] = ready[x]
            /\ p[s] = IF op[s] \in TxnOp /\ txn[s] = t
                      THEN Append(ready[s], [kind |-> k, call |-> d]) ELSE ready[s]
    BY RespondFacts
  <2> QED  BY <1>1, <2>1
<1>3. ready \in [Session -> Seq(Event)]  BY TypeParts DEF ReadyTyped
<1>4. PICK E, e : E = Event /\ e = [kind |-> k, call |-> d]  OBVIOUS
<1>5. /\ Len(ready[s]) \in Nat
      /\ \A i \in 1..Len(ready[s]) : i \in 1..Len(q[s]) /\ q[s][i] = ready[s][i]
      /\ \A i \in 1..Len(q[s]) : i \notin 1..Len(ready[s]) =>
            op[s] \in TxnOp /\ txn[s] = t /\ i = Len(ready[s]) + 1 /\ q[s][i] = e
  <2>1. ready[s] \in Seq(E)  BY <1>3, <1>4
  <2>2. CASE op[s] \in TxnOp /\ txn[s] = t
    <3>1. q[s] = Append(ready[s], e)  BY <1>2, <1>4, <2>2
    <3> QED  BY <2>1, <2>2, <3>1
  <2>3. CASE ~(op[s] \in TxnOp /\ txn[s] = t)  BY <1>2, <2>1, <2>3
  <2> QED  BY <2>2, <2>3
<1>6. ReadyTyped'  BY <1>1, <1>2 DEF ReadyTyped
<1>7. Adds({s}, t, k, d, {})
  <2> SUFFICES ASSUME NEW x \in Session
      PROVE  /\ \A i \in 1..Len(ready[x]) : i \in 1..Len(q[x]) /\ q[x][i] = ready[x][i]
             /\ \A i \in 1..Len(q[x]) : i \notin 1..Len(ready[x]) =>
                   x = s /\ op[x] \in TxnOp /\ txn[x] = t /\ i = Len(ready[x]) + 1 /\ q[x][i] = e
    BY <1>1, <1>4 DEF Adds, Ready
  <2> QED  BY <1>2, <1>5
<1> QED  BY <1>6, <1>7

LEMMA AddsHangup ==
    ASSUME TypeOK, NEW c \in Contexts, ready' = NotifyHangup(ready, c)
    PROVE  ReadyTyped' /\ Adds({}, 0, "MAKE_CALL_OK", 0, {c}) /\ Hears(c)
<1>1. PICK r : r = ready'  OBVIOUS
<1>2. ready \in [Session -> Seq(Event)]  BY TypeParts DEF ReadyTyped
<1>3. /\ r \in [Session -> Seq(Event)]
      /\ \A x \in Session :
            r[x] = IF ctx[c].session = x /\ op[x] # "deleted"
                   THEN Append(ready[x], [kind |-> "HANGUP_EVT", call |-> c]) ELSE ready[x]
  BY <1>1, <1>2, NotifyFacts
<1>4. PICK E, e : E = Event /\ e = [kind |-> "HANGUP_EVT", call |-> c]  OBVIOUS
<1>5. ASSUME NEW x \in Session
      PROVE  /\ \A i \in 1..Len(ready[x]) : i \in 1..Len(r[x]) /\ r[x][i] = ready[x][i]
             /\ \A i \in 1..Len(r[x]) : i \notin 1..Len(ready[x]) =>
                   r[x][i] = e /\ ctx[c].session = x /\ op[x] # "deleted"
             /\ ctx[c].session = x /\ op[x] # "deleted" =>
                   Len(ready[x]) + 1 \in 1..Len(r[x]) /\ r[x][Len(ready[x]) + 1] = e
  <2>1. ready[x] \in Seq(E)  BY <1>2, <1>4
  <2>2. CASE ctx[c].session = x /\ op[x] # "deleted"
    <3>1. r[x] = Append(ready[x], e)  BY <1>3, <1>4, <2>2
    <3> QED  BY <2>1, <2>2, <3>1
  <2>3. CASE ~(ctx[c].session = x /\ op[x] # "deleted")  BY <1>3, <2>1, <2>3
  <2> QED  BY <2>2, <2>3
<1>6. ReadyTyped'  BY <1>1, <1>3 DEF ReadyTyped
<1>7. Adds({}, 0, "MAKE_CALL_OK", 0, {c})  BY <1>1, <1>4, <1>5 DEF Adds, Ready
<1>8. Hears(c)  BY <1>1, <1>4, <1>5 DEF Hears, Ready
<1> QED  BY <1>6, <1>7, <1>8

LEMMA AddsBoth ==
    ASSUME TypeOK, NEW s \in Session, NEW t, NEW k \in Response, NEW d \in 0..MaxContexts, NEW c \in Contexts,
           \E q : q = Respond(ready, s, t, k, d) /\ ready' = NotifyHangup(q, c)
    PROVE  ReadyTyped' /\ Adds({s}, t, k, d, {c}) /\ Hears(c)
<1>1. PICK r, q : r = ready' /\ q = Respond(ready, s, t, k, d) /\ ready' = NotifyHangup(q, c)  OBVIOUS
<1>2. ready \in [Session -> Seq(Event)]  BY TypeParts DEF ReadyTyped
<1>3. /\ q \in [Session -> Seq(Event)]
      /\ \A x \in Session : x # s => q[x] = ready[x]
      /\ q[s] = IF op[s] \in TxnOp /\ txn[s] = t
                THEN Append(ready[s], [kind |-> k, call |-> d]) ELSE ready[s]
  <2>1. PICK E, f : E = Event /\ f = [kind |-> k, call |-> d]  OBVIOUS
  <2>2. f \in E  BY <2>1 DEF Event
  <2>3. q = IF op[s] \in TxnOp /\ txn[s] = t THEN [ready EXCEPT ![s] = Append(@, f)] ELSE ready
    BY <1>1, <2>1 DEF Respond
  <2> QED  BY <1>2, <2>1, <2>2, <2>3
<1>4. r = NotifyHangup(q, c)  BY <1>1
<1>5. /\ r \in [Session -> Seq(Event)]
      /\ \A x \in Session :
            r[x] = IF ctx[c].session = x /\ op[x] # "deleted"
                   THEN Append(q[x], [kind |-> "HANGUP_EVT", call |-> c]) ELSE q[x]
  BY <1>3, <1>4, NotifyFacts
<1>6. PICK E, e, f : E = Event /\ e = [kind |-> "HANGUP_EVT", call |-> c] /\ f = [kind |-> k, call |-> d]
  OBVIOUS
<1>7. ASSUME NEW x \in Session
      PROVE  /\ \A i \in 1..Len(ready[x]) : i \in 1..Len(r[x]) /\ r[x][i] = ready[x][i]
             /\ \A i \in 1..Len(r[x]) : i \notin 1..Len(ready[x]) =>
                   \/ r[x][i] = e /\ ctx[c].session = x /\ op[x] # "deleted"
                   \/ x = s /\ op[x] \in TxnOp /\ txn[x] = t /\ i = Len(ready[x]) + 1 /\ r[x][i] = f
             /\ ctx[c].session = x /\ op[x] # "deleted" =>
                   Len(q[x]) + 1 \in 1..Len(r[x]) /\ r[x][Len(q[x]) + 1] = e
  <2>1. ready[x] \in Seq(E) /\ q[x] \in Seq(E)  BY <1>2, <1>3, <1>6
  <2>2. /\ \A i \in 1..Len(ready[x]) : i \in 1..Len(q[x]) /\ q[x][i] = ready[x][i]
        /\ \A i \in 1..Len(q[x]) : i \notin 1..Len(ready[x]) =>
              x = s /\ op[x] \in TxnOp /\ txn[x] = t /\ i = Len(ready[x]) + 1 /\ q[x][i] = f
    <3>1. CASE x = s /\ op[x] \in TxnOp /\ txn[x] = t
      <4>1. q[x] = Append(ready[x], f)  BY <1>3, <1>6, <3>1
      <4> QED  BY <2>1, <3>1, <4>1
    <3>2. CASE ~(x = s /\ op[x] \in TxnOp /\ txn[x] = t)
      <4>1. q[x] = ready[x]  BY <1>3, <3>2
      <4> QED  BY <2>1, <4>1
    <3> QED  BY <3>1, <3>2
  <2>3. CASE ctx[c].session = x /\ op[x] # "deleted"
    <3>1. r[x] = Append(q[x], e)  BY <1>5, <1>6, <2>3
    <3>2. /\ \A i \in 1..Len(q[x]) : i \in 1..Len(r[x]) /\ r[x][i] = q[x][i]
          /\ \A i \in 1..Len(r[x]) : i \notin 1..Len(q[x]) => r[x][i] = e
          /\ Len(q[x]) + 1 \in 1..Len(r[x]) /\ r[x][Len(q[x]) + 1] = e
      BY <2>1, <3>1
    <3> QED  BY <2>2, <2>3, <3>2
  <2>4. CASE ~(ctx[c].session = x /\ op[x] # "deleted")
    <3>1. r[x] = q[x]  BY <1>5, <2>4
    <3> QED  BY <2>2, <2>4, <3>1
  <2> QED  BY <2>3, <2>4
<1>8. ReadyTyped'  BY <1>1, <1>5 DEF ReadyTyped
<1>9. Adds({s}, t, k, d, {c})  BY <1>1, <1>6, <1>7 DEF Adds, Ready
<1>10. Hears(c)  BY <1>1, <1>6, <1>7 DEF Hears, Ready
<1> QED  BY <1>8, <1>9, <1>10

=============================================================================

----------------------------- MODULE CallSession -----------------------------
(***************************************************************************)
(* GenericOfferAnswerSession of iw_telephony against ProcResipStack of     *)
(* iw_resip: outgoing and incoming calls, re-offers, transfers, hangups    *)
(* and the end of the stack.                                               *)
(*                                                                         *)
(* A session's owner and its listener are fibers of one thread; the stack  *)
(* has a thread of its own.  The thread of a session runs its fibers in    *)
(* the order in which what they wait for arrives, so the responses for the *)
(* owner and the events for the listener form one queue, ready[s].  The    *)
(* owner never yields between two waits.  Transactions behave as           *)
(* LpMessaging shows: a response reaches its own request or nobody.        *)
(* The dialogs and their callbacks belong to the resip library and are     *)
(* modelled from the handlers ProcResipStack implements.                   *)
(***************************************************************************)
EXTENDS Integers, Sequences, FiniteSets

INSTANCE SequencesExt

CONSTANTS
    Uac,            \* sessions built to make a call
    Uas,            \* sessions built from a MsgCallOfferedReq
    NoSession,      \* of a call that was refused
    CALL_INDEX,     \* where GenerateCallHandle starts counting (10000)
    MaxContexts,    \* bound: dialogs the stack creates
    MaxUacTxn,      \* bound: transactions of a session that makes calls
    MaxUasTxn,      \* bound: transactions of a session that was offered one
    MaxSubscribes,  \* bound: SubscribeToIncomingCalls
    Mixed           \* bound: whether calls are made and accepted in one behaviour

ASSUME SessionsAssumption == Uac \cap Uas = {} /\ NoSession \notin Uac \cup Uas
ASSUME BoundsAssumption ==
    /\ CALL_INDEX \in Nat /\ MaxContexts \in Nat
    /\ MaxUacTxn \in Nat /\ MaxUasTxn \in Nat /\ MaxSubscribes \in Nat /\ Mixed \in BOOLEAN

\* GenerateCallHandle and the ids of resip sessions share one map: the code
\* keeps them apart by starting the first at 10000, nothing else.
ASSUME HandlesApart == CALL_INDEX >= MaxContexts

VARIABLES
    op,             \* what the owner of the session does
    callState,      \* _callState
    iwCallHandle,   \* _iwCallHandle
    emptyOffer,     \* _localOffer.body.empty(), while MakeCall waits
    txn,            \* counts the session's transactions
    ready,          \* responses and events on their way into the session's thread
    hangupChannel,  \* _hangupChannel
    stackInbound,   \* inbound handle of ProcResipStack
    ctx,            \* the SipDialogContexts, in the order of their creation
    iwHandlesMap,   \* _iwHandlesMap: which context a stack_call_handle names
    callIndex,      \* the index of GenerateCallHandle
    resipId,        \* ids that resip has given to invite sessions
    eventsHandle,   \* _eventsHandle: the subscription it belongs to, 0 if null
    acceptor,       \* sipcall::accept of a script
    subscription,   \* the subscription accept works with
    stackUp,        \* ProcResipStack::real_run is in its loop
    told,           \* history: calls whose end the session's listener has handled
    timedOut        \* history: sessions whose MakeCall returned API_TIMEOUT

sessionVars == <<op, callState, iwCallHandle, emptyOffer, txn, hangupChannel, told,
                 timedOut>>
stackVars == <<ctx, iwHandlesMap, callIndex, resipId, eventsHandle, stackUp>>
acceptVars == <<acceptor, subscription>>
vars == <<sessionVars, ready, stackInbound, stackVars, acceptVars>>

Session == Uac \cup Uas
MaxTxn(s) == IF s \in Uac THEN MaxUacTxn ELSE MaxUasTxn
TxnId == 0..(MaxUacTxn + MaxUasTxn)
IW_UNDEFINED == -1
Handle == 1..(CALL_INDEX + MaxContexts)
CallState == {"UNKNOWN", "INITIAL_OFFERED", "OFFERING", "REMOTE_OFFERED",
              "IN_DIALOG_OFFERED", "CONNECTED", "TERMINATED"}
TxnOp == {"MakeCall", "ReOffer", "Answer", "BlindXfer"}
\* none: not built; offered: its MsgCallOfferedReq waits to be read; lost: that
\* message went to a handle nobody reads.
Op == TxnOp \cup {"none", "offered", "lost", "idle", "deleted"}
Live == {"inviting", "early", "accepted", "connected", "reoffered"}
Dialog == Live \cup {"ending", "over"}
Response == {"MAKE_CALL_OK", "MAKE_CALL_NACK", "REOFFER_ACK", "REOFFER_NACK",
             "CALL_CONNECTED", "BLIND_XFER_ACK", "BLIND_XFER_NACK"}
Request == {"MAKE_CALL_REQ", "REOFFER_REQ", "CALL_OFFERED_ACK", "CALL_OFFERED_NACK",
            "BLIND_XFER_REQ", "HANGUP_CALL_REQ", "CALL_CONNECTED"}

Contexts == 1..Len(ctx)
Named(h) == h \in DOMAIN iwHandlesMap
Without(f, h) == [x \in DOMAIN f \ {h} |-> f[x]]
Plus(f, h, c) == [x \in DOMAIN f \cup {h} |-> IF x = h THEN c ELSE f[x]]

Init ==
    /\ op = [s \in Session |-> IF s \in Uac THEN "idle" ELSE "none"]
    /\ callState = [s \in Session |-> "UNKNOWN"]
    /\ iwCallHandle = [s \in Session |-> IW_UNDEFINED]
    /\ emptyOffer = [s \in Session |-> FALSE]
    /\ txn = [s \in Session |-> 0]
    /\ ready = [s \in Session |-> <<>>]
    /\ hangupChannel = [s \in Session |-> <<>>]
    /\ stackInbound = <<>>
    /\ ctx = <<>>
    /\ iwHandlesMap = <<>>
    /\ callIndex = CALL_INDEX
    /\ resipId = 0
    /\ eventsHandle = 0
    /\ acceptor = "idle"
    /\ subscription = 0
    /\ stackUp = TRUE
    /\ told = {}
    /\ timedOut = {}

-----------------------------------------------------------------------------
(* Sending.  A stack that has left its loop is no longer registered.       *)

ToStack(queue, m) == IF stackUp THEN Append(queue, m) ELSE queue

Req(kind, s, empty) ==
    [kind |-> kind, session |-> s, txn |-> txn[s] + 1, handle |-> iwCallHandle[s],
     empty |-> empty]

\* SendResponse of the stack: dropped unless the transaction is still open.
Respond(queues, s, t, kind, c) ==
    IF op[s] \in TxnOp /\ txn[s] = t
    THEN [queues EXCEPT ![s] = Append(@, [kind |-> kind, call |-> c])]
    ELSE queues

\* HANGUP_EVT to call_handler_inbound; a deleted session's handle is poisoned.
NotifyHangup(queues, c) ==
    LET s == ctx[c].session
    IN  IF s \in Session /\ op[s] # "deleted"
        THEN [queues EXCEPT ![s] = Append(@, [kind |-> "HANGUP_EVT", call |-> c])]
        ELSE queues

\* A request of s that opens a transaction, or only its counter if nobody is there.
Ask(s, o, kind, empty) ==
    /\ txn[s] < MaxTxn(s)
    /\ txn' = [txn EXCEPT ![s] = @ + 1]
    /\ op' = [op EXCEPT ![s] = IF stackUp THEN o ELSE "idle"]
    /\ stackInbound' = ToStack(stackInbound, Req(kind, s, empty))

\* A request of s that expects no response.
Tell(s, kind) ==
    /\ txn[s] < MaxTxn(s)
    /\ txn' = [txn EXCEPT ![s] = @ + 1]
    /\ stackInbound' = ToStack(stackInbound, Req(kind, s, FALSE))
    /\ UNCHANGED op

-----------------------------------------------------------------------------
(* Mutants: plausible bugs, used only to show that the properties notice.  *)

\* HangupCall resets the handle to 0 instead of IW_UNDEFINED.
HangupCallZero(s, st) ==
    IF iwCallHandle[s] = IW_UNDEFINED \/ st \in {"UNKNOWN", "TERMINATED"}
    THEN UNCHANGED <<stackInbound, iwCallHandle>>
    ELSE /\ stackInbound' = ToStack(stackInbound, Req("HANGUP_CALL_REQ", s, FALSE))
         /\ iwCallHandle' = [iwCallHandle EXCEPT ![s] = 0]

\* HangupCall forgets to send its request.
HangupCallSilent(s, st) ==
    /\ iwCallHandle' = [iwCallHandle EXCEPT ![s] = IW_UNDEFINED]
    /\ UNCHANGED stackInbound

\* MakeCall resets its state after a timeout as after a refusal.
MakeCallTimeoutReset(s) ==
    /\ op[s] = "MakeCall"
    /\ \A i \in 1..Len(ready[s]) : ready[s][i].kind \notin Response
    /\ op' = [op EXCEPT ![s] = "idle"]
    /\ callState' = [callState EXCEPT ![s] = "UNKNOWN"]
    /\ timedOut' = timedOut \cup {s}
    /\ UNCHANGED <<stackInbound, iwCallHandle, emptyOffer, txn, hangupChannel, told, ready, stackVars,
                   acceptVars>>

\* ReOffer returns to CONNECTED after a timeout instead of hanging up.
ReOfferTimeoutReset(s) ==
    /\ op[s] = "ReOffer"
    /\ \A i \in 1..Len(ready[s]) : ready[s][i].kind \notin Response
    /\ op' = [op EXCEPT ![s] = "idle"]
    /\ callState' = [callState EXCEPT ![s] = "CONNECTED"]
    /\ UNCHANGED <<stackInbound, iwCallHandle, emptyOffer, txn, hangupChannel, told, timedOut, ready,
                   stackVars, acceptVars>>

\* GenerateCallHandle counts from 0, as resip does.
GenerateCallHandleFromZero == callIndex - CALL_INDEX + 1

\* FinalizeContext does not tell the session.
FinalizeContextSilent(c) ==
    /\ iwHandlesMap' = Without(iwHandlesMap, ctx[c].handle)
    /\ UNCHANGED ready

\* FinalizeContext takes a context that has left the map for finalised.
FinalizeContextIfNamed(c) ==
    /\ ready' = IF Named(ctx[c].handle) THEN NotifyHangup(ready, c) ELSE ready
    /\ iwHandlesMap' = Without(iwHandlesMap, ctx[c].handle)

-----------------------------------------------------------------------------
(* HangupCall, for a session whose state is st: nothing for a call that    *)
(* has no handle or is over; the state is left as it is.                   *)
HangupCallEffect(s, st) ==
    IF iwCallHandle[s] = IW_UNDEFINED \/ st \in {"UNKNOWN", "TERMINATED"}
    THEN UNCHANGED <<stackInbound, iwCallHandle>>
    ELSE /\ stackInbound' = ToStack(stackInbound, Req("HANGUP_CALL_REQ", s, FALSE))
         /\ iwCallHandle' = [iwCallHandle EXCEPT ![s] = IW_UNDEFINED]

ResetState(s, st) == callState' = [callState EXCEPT ![s] = st]

\* The response at the head of the thread's queue is for the owner.
Received(s, o) ==
    /\ op[s] = o
    /\ ready[s] # <<>>
    /\ Head(ready[s]).kind \in Response
    /\ ready' = [ready EXCEPT ![s] = Tail(@)]
    /\ op' = [op EXCEPT ![s] = "idle"]

\* SelectFromChannels gives up: no response has arrived.
Expired(s, o) ==
    /\ op[s] = o
    /\ \A i \in 1..Len(ready[s]) : ready[s][i].kind \notin Response
    /\ op' = [op EXCEPT ![s] = "idle"]

-----------------------------------------------------------------------------
(* The session: MakeCall, ReOffer, Answer, BlindXfer, RejectCall,          *)
(* HangupCall, WaitTillHangup and the destructor.                          *)

MakeCall(s) ==
    /\ op[s] = "idle"
    /\ callState[s] = "UNKNOWN"
    /\ \E e \in BOOLEAN :
          /\ Ask(s, "MakeCall", "MAKE_CALL_REQ", FALSE)
          /\ emptyOffer' = [emptyOffer EXCEPT ![s] = e /\ stackUp]
    /\ ResetState(s, IF stackUp THEN "OFFERING" ELSE "UNKNOWN")
    /\ UNCHANGED <<iwCallHandle, ready, hangupChannel, told, timedOut, stackVars, acceptVars>>

MakeCallOk(s) ==
    /\ Received(s, "MakeCall")
    /\ Head(ready[s]).kind = "MAKE_CALL_OK"
    /\ iwCallHandle' = [iwCallHandle EXCEPT ![s] = ctx[Head(ready[s]).call].handle]
    /\ ResetState(s, IF emptyOffer[s] THEN "REMOTE_OFFERED" ELSE "CONNECTED")
    /\ emptyOffer' = [emptyOffer EXCEPT ![s] = FALSE]
    /\ UNCHANGED <<txn, hangupChannel, told, timedOut, stackInbound, stackVars, acceptVars>>

MakeCallNack(s) ==
    /\ Received(s, "MakeCall")
    /\ Head(ready[s]).kind = "MAKE_CALL_NACK"
    /\ ResetState(s, "UNKNOWN")
    /\ emptyOffer' = [emptyOffer EXCEPT ![s] = FALSE]
    /\ UNCHANGED <<iwCallHandle, txn, hangupChannel, told, timedOut, stackInbound, stackVars,
                   acceptVars>>

MakeCallTimeout(s) ==
    /\ Expired(s, "MakeCall")
    /\ HangupCallEffect(s, callState[s])
    /\ timedOut' = timedOut \cup {s}
    /\ emptyOffer' = [emptyOffer EXCEPT ![s] = FALSE]
    /\ UNCHANGED <<callState, txn, hangupChannel, told, ready, stackVars, acceptVars>>

ReOffer(s) ==
    /\ op[s] = "idle"
    /\ callState[s] = "CONNECTED"
    /\ Ask(s, "ReOffer", "REOFFER_REQ", FALSE)
    /\ ResetState(s, "IN_DIALOG_OFFERED")
    /\ iwCallHandle' = [iwCallHandle EXCEPT ![s] = IF stackUp THEN @ ELSE IW_UNDEFINED]
    /\ UNCHANGED <<emptyOffer, ready, hangupChannel, told, timedOut, stackVars, acceptVars>>

ReOfferDone(s) ==
    /\ Received(s, "ReOffer")
    /\ ResetState(s, "CONNECTED")
    /\ UNCHANGED <<iwCallHandle, emptyOffer, txn, hangupChannel, told, timedOut, stackInbound, stackVars,
                   acceptVars>>

ReOfferTimeout(s) ==
    /\ Expired(s, "ReOffer")
    /\ HangupCallEffect(s, callState[s])
    /\ UNCHANGED <<callState, emptyOffer, txn, hangupChannel, told, timedOut, ready, stackVars, acceptVars>>

\* Answer of the session that made the call: the answer to an offer in the 200.
AnswerUac(s) ==
    /\ s \in Uac
    /\ op[s] = "idle"
    /\ callState[s] = "REMOTE_OFFERED"
    /\ Tell(s, "CALL_CONNECTED")
    /\ ResetState(s, "CONNECTED")
    /\ UNCHANGED <<iwCallHandle, emptyOffer, ready, hangupChannel, told, timedOut, stackVars, acceptVars>>

AnswerUas(s) ==
    /\ s \in Uas
    /\ op[s] = "idle"
    /\ callState[s] = "INITIAL_OFFERED"
    /\ \E e \in BOOLEAN : Ask(s, "Answer", "CALL_OFFERED_ACK", e)
    /\ UNCHANGED <<callState, iwCallHandle, emptyOffer, ready, hangupChannel, told, timedOut, stackVars,
                   acceptVars>>

AnswerDone(s) ==
    /\ Received(s, "Answer")
    /\ iwCallHandle' = [iwCallHandle EXCEPT ![s] = ctx[Head(ready[s]).call].handle]
    /\ ResetState(s, "CONNECTED")
    /\ UNCHANGED <<emptyOffer, txn, hangupChannel, told, timedOut, stackInbound, stackVars, acceptVars>>

AnswerTimeout(s) ==
    /\ Expired(s, "Answer")
    /\ UNCHANGED <<callState, iwCallHandle, emptyOffer, txn, hangupChannel, told, timedOut, ready,
                   stackInbound, stackVars, acceptVars>>

BlindXfer(s) ==
    /\ op[s] = "idle"
    /\ iwCallHandle[s] # IW_UNDEFINED
    /\ Ask(s, "BlindXfer", "BLIND_XFER_REQ", FALSE)
    /\ UNCHANGED <<callState, iwCallHandle, emptyOffer, ready, hangupChannel, told, timedOut, stackVars,
                   acceptVars>>

BlindXferDone(s) ==
    /\ Received(s, "BlindXfer")
    /\ ResetState(s, IF Head(ready[s]).kind = "BLIND_XFER_ACK" THEN "TERMINATED" ELSE callState[s])
    /\ UNCHANGED <<iwCallHandle, emptyOffer, txn, hangupChannel, told, timedOut, stackInbound, stackVars,
                   acceptVars>>

BlindXferTimeout(s) ==
    /\ Expired(s, "BlindXfer")
    /\ UNCHANGED <<callState, iwCallHandle, emptyOffer, txn, hangupChannel, told, timedOut, ready,
                   stackInbound, stackVars, acceptVars>>

RejectCall(s) ==
    /\ s \in Uas
    /\ op[s] = "idle"
    /\ Tell(s, "CALL_OFFERED_NACK")
    /\ UNCHANGED <<callState, iwCallHandle, emptyOffer, ready, hangupChannel, told, timedOut, stackVars,
                   acceptVars>>

HangupCall(s) ==
    /\ op[s] = "idle"
    /\ HangupCallEffect(s, callState[s])
    /\ UNCHANGED <<op, callState, emptyOffer, txn, hangupChannel, told, timedOut, ready, stackVars,
                   acceptVars>>

WaitTillHangup(s) ==
    /\ op[s] = "idle"
    /\ hangupChannel[s] # <<>>
    /\ hangupChannel' = [hangupChannel EXCEPT ![s] = Tail(@)]
    /\ UNCHANGED <<op, callState, iwCallHandle, emptyOffer, txn, told, timedOut, ready, stackInbound,
                   stackVars, acceptVars>>

(* The destructor: StopActiveObjectLwProc returns when the listener has    *)
(* handled what was in its channel before the shutdown request; then       *)
(* HangupCall.                                                             *)
Delete(s) ==
    /\ op[s] = "idle"
    /\ HangupCallEffect(s, IF ready[s] = <<>> THEN callState[s] ELSE "TERMINATED")
    /\ op' = [op EXCEPT ![s] = "deleted"]
    /\ ResetState(s, "UNKNOWN")
    /\ txn' = [txn EXCEPT ![s] = 0]
    /\ hangupChannel' = [hangupChannel EXCEPT ![s] = <<>>]
    /\ told' = told \cup {ready[s][i].call : i \in 1..Len(ready[s])}
    /\ ready' = [ready EXCEPT ![s] = <<>>]
    /\ UNCHANGED <<emptyOffer, timedOut, stackVars, acceptVars>>

\* The listener: UponCallTerminated.
UponCallTerminated(s) ==
    /\ op[s] \in TxnOp \cup {"idle"}
    /\ ready[s] # <<>>
    /\ Head(ready[s]).kind = "HANGUP_EVT"
    /\ hangupChannel' = [hangupChannel EXCEPT ![s] = Append(@, Head(ready[s]).call)]
    /\ told' = told \cup {Head(ready[s]).call}
    /\ ResetState(s, "TERMINATED")
    /\ ready' = [ready EXCEPT ![s] = Tail(@)]
    /\ UNCHANGED <<op, iwCallHandle, emptyOffer, txn, timedOut, stackInbound, stackVars, acceptVars>>

-----------------------------------------------------------------------------
(* sipcall::accept of a script, the subscriber of incoming calls.          *)

\* SubscribeToIncomingCalls with a fresh listener_handle.
Accept ==
    /\ acceptor = "idle"
    /\ stackUp
    /\ subscription < MaxSubscribes
    /\ Mixed \/ \A s \in Uac : op[s] = "idle" /\ txn[s] = 0
    /\ subscription' = subscription + 1
    /\ acceptor' = "subscribing"
    /\ stackInbound' = Append(stackInbound, [kind |-> "CALL_SUBSCRIBE_REQ",
                                             subscription |-> subscription + 1])
    /\ UNCHANGED <<sessionVars, ready, stackVars>>

\* The call offered on listener_handle becomes a session.
AcceptOffered(s) ==
    /\ acceptor = "waiting"
    /\ op[s] = "offered"
    /\ acceptor' = "idle"
    /\ op' = [op EXCEPT ![s] = "idle"]
    /\ ResetState(s, "INITIAL_OFFERED")
    /\ \E c \in Contexts :
          /\ ctx[c].session = s
          /\ iwCallHandle' = [iwCallHandle EXCEPT ![s] = ctx[c].handle]
    /\ UNCHANGED <<emptyOffer, txn, hangupChannel, told, timedOut, ready, stackInbound, stackVars,
                   subscription>>

\* accept gives up and forgets listener_handle; the stack does not.
AcceptTimeout ==
    /\ acceptor # "idle"
    /\ \A s \in Uas : op[s] # "offered"
    /\ acceptor' = "idle"
    /\ UNCHANGED <<sessionVars, ready, stackInbound, stackVars, subscription>>

-----------------------------------------------------------------------------
(* ProcResipStack: the application messages, one handler each.             *)

Handles(kind) ==
    /\ stackUp
    /\ stackInbound # <<>>
    /\ Head(stackInbound).kind = kind
    /\ stackInbound' = Tail(stackInbound)

Msg == Head(stackInbound)

\* UponSubscribeToIncomingReq replaces the previous subscriber.
UponSubscribeToIncomingReq ==
    /\ Handles("CALL_SUBSCRIBE_REQ")
    /\ eventsHandle' = Msg.subscription
    /\ acceptor' = IF acceptor = "subscribing" /\ subscription = Msg.subscription
                   THEN "waiting" ELSE acceptor
    /\ UNCHANGED <<sessionVars, ready, ctx, iwHandlesMap, callIndex, resipId, stackUp, subscription>>

GenerateCallHandle == callIndex + 1

\* UponMakeCallReq: an INVITE goes out, and the context gets its handle.
UponMakeCallReq ==
    /\ Handles("MAKE_CALL_REQ")
    /\ Len(ctx) < MaxContexts
    /\ ctx' = Append(ctx, [session |-> Msg.session, dialog |-> "inviting",
                           handle |-> IF Msg.handle = IW_UNDEFINED THEN GenerateCallHandle
                                      ELSE Msg.handle,
                           makeCallReq |-> Msg.txn, reofferReq |-> 0, makeCallAck |-> 0])
    /\ callIndex' = IF Msg.handle = IW_UNDEFINED THEN GenerateCallHandle ELSE callIndex
    /\ UNCHANGED <<sessionVars, ready, iwHandlesMap, resipId, eventsHandle, stackUp, acceptVars>>

\* UponMakeCallReq of a destination or a registration resip refuses.
UponMakeCallReqFails ==
    /\ Handles("MAKE_CALL_REQ")
    /\ ready' = Respond(ready, Msg.session, Msg.txn, "MAKE_CALL_NACK", 0)
    /\ UNCHANGED <<sessionVars, stackVars, acceptVars>>

\* UponReofferReq.
UponReofferReq ==
    /\ Handles("REOFFER_REQ")
    /\ IF Named(Msg.handle)
       THEN /\ ctx' = [ctx EXCEPT ![iwHandlesMap[Msg.handle]] =
                          [@ EXCEPT !.reofferReq = Msg.txn, !.dialog = "reoffered"]]
            /\ UNCHANGED ready
       ELSE /\ ready' = Respond(ready, Msg.session, Msg.txn, "REOFFER_NACK", 0)
            /\ UNCHANGED ctx
    /\ UNCHANGED <<sessionVars, iwHandlesMap, callIndex, resipId, eventsHandle, stackUp, acceptVars>>

\* end() of a dialog set.  resip calls onTerminated at once, or later if it has to
\* wait for an ACK or for the answer to a re-INVITE first.
End(c) ==
    LET now == ctx[c].dialog \in {"early", "connected"}
    IN  /\ ctx' = [ctx EXCEPT ![c].dialog = IF now THEN "over" ELSE "ending"]
        /\ ready' = IF now THEN NotifyHangup(ready, c) ELSE ready

\* UponHangupReq: the context leaves the map and its dialog is ended.
UponHangupReq ==
    /\ Handles("HANGUP_CALL_REQ")
    /\ IF Named(Msg.handle)
       THEN /\ End(iwHandlesMap[Msg.handle])
            /\ iwHandlesMap' = Without(iwHandlesMap, Msg.handle)
       ELSE UNCHANGED <<ctx, ready, iwHandlesMap>>
    /\ UNCHANGED <<sessionVars, callIndex, resipId, eventsHandle, stackUp, acceptVars>>

\* UponCallOfferedNack.
UponCallOfferedNack ==
    /\ Handles("CALL_OFFERED_NACK")
    /\ IF Named(Msg.handle)
       THEN /\ End(iwHandlesMap[Msg.handle])
            /\ iwHandlesMap' = Without(iwHandlesMap, Msg.handle)
       ELSE UNCHANGED <<ctx, ready, iwHandlesMap>>
    /\ UNCHANGED <<sessionVars, callIndex, resipId, eventsHandle, stackUp, acceptVars>>

\* UponCallOfferedAck: a call that is gone gets no answer.  An empty offer ends
\* the call.  resip accepts a call that was not answered yet; a second answer
\* replaces make_call_ack, and what resip throws at it ends the stack (Shutdown).
UponCallOfferedAck ==
    /\ Handles("CALL_OFFERED_ACK")
    /\ \/ /\ Named(Msg.handle) /\ ~Msg.empty
          /\ LET c == iwHandlesMap[Msg.handle]
             IN  ctx' = [ctx EXCEPT ![c].makeCallAck = Msg.txn,
                                    ![c].dialog = IF @ = "early" THEN "accepted" ELSE @]
          /\ UNCHANGED <<ready, iwHandlesMap>>
       \/ /\ Named(Msg.handle) /\ Msg.empty
          /\ End(iwHandlesMap[Msg.handle])
          /\ iwHandlesMap' = Without(iwHandlesMap, Msg.handle)
       \/ /\ ~Named(Msg.handle)
          /\ UNCHANGED <<ctx, ready, iwHandlesMap>>
    /\ UNCHANGED <<sessionVars, callIndex, resipId, eventsHandle, stackUp, acceptVars>>

\* UponCallConnected gives resip the answer; no state of ours depends on it.
UponCallConnected ==
    /\ Handles("CALL_CONNECTED")
    /\ UNCHANGED <<sessionVars, ready, stackVars, acceptVars>>

\* UponBlindXferReq: REFER and BYE on a connected dialog, whose onTerminated
\* follows within end().
UponBlindXferReq ==
    /\ Handles("BLIND_XFER_REQ")
    /\ IF Named(Msg.handle) /\ ctx[iwHandlesMap[Msg.handle]].dialog \in {"connected", "reoffered"}
       THEN LET c == iwHandlesMap[Msg.handle]
            IN  /\ ready' = NotifyHangup(Respond(ready, Msg.session, Msg.txn, "BLIND_XFER_ACK", 0), c)
                /\ ctx' = [ctx EXCEPT ![c].dialog = "over"]
                /\ iwHandlesMap' = Without(iwHandlesMap, Msg.handle)
       ELSE /\ ready' = Respond(ready, Msg.session, Msg.txn, "BLIND_XFER_NACK", 0)
            /\ UNCHANGED <<ctx, iwHandlesMap>>
    /\ UNCHANGED <<sessionVars, callIndex, resipId, eventsHandle, stackUp, acceptVars>>

-----------------------------------------------------------------------------
(* ProcResipStack: the callbacks of resip.                                 *)

\* FinalizeContext: tell the session and forget the context.
FinalizeContext(c) ==
    /\ ready' = NotifyHangup(ready, c)
    /\ iwHandlesMap' = Without(iwHandlesMap, ctx[c].handle)

\* onNewSession of an outgoing call: its first provisional response.
OnNewSession(c) ==
    /\ stackUp
    /\ ctx[c].dialog = "inviting"
    /\ ctx' = [ctx EXCEPT ![c].dialog = "early"]
    /\ iwHandlesMap' = Plus(iwHandlesMap, ctx[c].handle, c)
    /\ resipId' = resipId + 1
    /\ UNCHANGED <<sessionVars, ready, stackInbound, callIndex, eventsHandle, stackUp, acceptVars>>

\* onConnected: the remote party has answered the call we made.
OnConnected(c) ==
    /\ stackUp
    /\ ctx[c].session \in Uac
    /\ ctx[c].dialog = "early"
    /\ ctx' = [ctx EXCEPT ![c].dialog = "connected"]
    /\ ready' = Respond(ready, ctx[c].session, ctx[c].makeCallReq, "MAKE_CALL_OK", c)
    /\ UNCHANGED <<sessionVars, stackInbound, iwHandlesMap, callIndex, resipId, eventsHandle, stackUp,
                   acceptVars>>

\* onFailure and, in the same callback of resip, onTerminated.
OnFailure(c) ==
    /\ stackUp
    /\ ctx[c].session \in Uac
    /\ ctx[c].dialog \in {"inviting", "early"}
    /\ ctx' = [ctx EXCEPT ![c].dialog = "over"]
    /\ ready' = NotifyHangup(Respond(ready, ctx[c].session, ctx[c].makeCallReq, "MAKE_CALL_NACK", 0), c)
    /\ iwHandlesMap' = Without(iwHandlesMap, ctx[c].handle)
    /\ UNCHANGED <<sessionVars, stackInbound, callIndex, resipId, eventsHandle, stackUp, acceptVars>>

\* onAnswer: the answer to our re-offer, for the request kept in the context.
OnAnswer(c) ==
    /\ stackUp
    /\ ctx[c].dialog = "reoffered"
    /\ ctx' = [ctx EXCEPT ![c] = [@ EXCEPT !.dialog = "connected", !.reofferReq = 0]]
    /\ ready' = Respond(ready, ctx[c].session, ctx[c].reofferReq, "REOFFER_ACK", c)
    /\ UNCHANGED <<sessionVars, stackInbound, iwHandlesMap, callIndex, resipId, eventsHandle, stackUp,
                   acceptVars>>

\* onOfferRejected is not overridden: nobody answers the re-offer.
OnOfferRejected(c) ==
    /\ stackUp
    /\ ctx[c].dialog = "reoffered"
    /\ ctx' = [ctx EXCEPT ![c].dialog = "connected"]
    /\ UNCHANGED <<sessionVars, ready, stackInbound, iwHandlesMap, callIndex, resipId, eventsHandle,
                   stackUp, acceptVars>>

\* onTerminated: the remote party, or the end we asked for.
OnTerminated(c) ==
    /\ stackUp
    /\ \/ ctx[c].dialog \in {"accepted", "connected", "reoffered", "ending"}
       \/ ctx[c].session \in Uas /\ ctx[c].dialog = "early"
    /\ ctx' = [ctx EXCEPT ![c].dialog = "over"]
    /\ FinalizeContext(c)
    /\ UNCHANGED <<sessionVars, stackInbound, callIndex, resipId, eventsHandle, stackUp, acceptVars>>

\* onSessionExpired: the session is told, resip keeps the dialog.
OnSessionExpired(c) ==
    /\ stackUp
    /\ ctx[c].dialog = "connected"
    /\ Named(ctx[c].handle)
    /\ FinalizeContext(c)
    /\ UNCHANGED <<sessionVars, stackInbound, ctx, callIndex, resipId, eventsHandle, stackUp, acceptVars>>

\* onNewSession and onOffer of an incoming call, for the one subscriber.
OnOffer(s) ==
    /\ stackUp
    /\ op[s] = "none"
    /\ Len(ctx) < MaxContexts
    /\ eventsHandle # 0
    /\ resipId' = resipId + 1
    /\ ctx' = Append(ctx, [session |-> s, handle |-> resipId + 1, dialog |-> "early",
                           makeCallReq |-> 0, reofferReq |-> 0, makeCallAck |-> 0])
    /\ iwHandlesMap' = Plus(iwHandlesMap, resipId + 1, Len(ctx) + 1)
    /\ op' = [op EXCEPT ![s] = IF acceptor = "waiting" /\ subscription = eventsHandle
                               THEN "offered" ELSE "lost"]
    /\ eventsHandle' = 0
    /\ UNCHANGED <<callState, iwCallHandle, emptyOffer, txn, hangupChannel, told, timedOut, ready,
                   stackInbound, callIndex, stackUp, acceptVars>>

\* The same without a subscriber: the call is rejected, and its context is gone
\* with the onTerminated that follows.
OnOfferRefused ==
    /\ stackUp
    /\ Len(ctx) < MaxContexts
    /\ eventsHandle = 0
    /\ resipId' = resipId + 1
    /\ ctx' = Append(ctx, [session |-> NoSession, handle |-> resipId + 1, dialog |-> "over",
                           makeCallReq |-> 0, reofferReq |-> 0, makeCallAck |-> 0])
    /\ iwHandlesMap' = Without(iwHandlesMap, resipId + 1)
    /\ UNCHANGED <<sessionVars, ready, stackInbound, callIndex, eventsHandle, stackUp, acceptVars>>

\* onConnectedConfirmed: the ACK of the call we answered.
OnConnectedConfirmed(c) ==
    /\ stackUp
    /\ ctx[c].dialog = "accepted"
    /\ ctx' = [ctx EXCEPT ![c].dialog = "connected"]
    /\ ready' = Respond(ready, ctx[c].session, ctx[c].makeCallAck, "CALL_CONNECTED", c)
    /\ UNCHANGED <<sessionVars, stackInbound, iwHandlesMap, callIndex, resipId, eventsHandle, stackUp,
                   acceptVars>>

(* The end of real_run, after a shutdown request or an exception: every    *)
(* context of the map is finalised, then the stack is gone.  A dialog that *)
(* is still ending is not in the map and never reports its end.            *)
Shutdown ==
    /\ stackUp
    /\ stackUp' = FALSE
    /\ ready' = [s \in Session |->
                    LET mine == {iwHandlesMap[h] : h \in {h \in DOMAIN iwHandlesMap :
                                                            ctx[iwHandlesMap[h]].session = s}}
                    IN  IF op[s] = "deleted" THEN ready[s]
                        ELSE ready[s] \o SetToSeq({[kind |-> "HANGUP_EVT", call |-> c] : c \in mine})]
    /\ iwHandlesMap' = <<>>
    /\ ctx' = [c \in Contexts |-> [ctx[c] EXCEPT !.dialog = IF @ = "ending" THEN @ ELSE "over"]]
    /\ stackInbound' = <<>>
    /\ UNCHANGED <<sessionVars, callIndex, resipId, eventsHandle, acceptVars>>

-----------------------------------------------------------------------------
SessionNext(s) ==
    \/ MakeCall(s) \/ MakeCallOk(s) \/ MakeCallNack(s) \/ MakeCallTimeout(s)
    \/ ReOffer(s) \/ ReOfferDone(s) \/ ReOfferTimeout(s)
    \/ AnswerUac(s) \/ AnswerUas(s) \/ AnswerDone(s) \/ AnswerTimeout(s)
    \/ BlindXfer(s) \/ BlindXferDone(s) \/ BlindXferTimeout(s)
    \/ RejectCall(s) \/ HangupCall(s) \/ WaitTillHangup(s) \/ Delete(s)
    \/ UponCallTerminated(s)

\* ProcessApplicationMessages.
ProcessApplicationMessages ==
    \/ UponSubscribeToIncomingReq \/ UponMakeCallReq \/ UponMakeCallReqFails
    \/ UponReofferReq \/ UponHangupReq \/ UponCallOfferedNack \/ UponCallOfferedAck
    \/ UponCallConnected \/ UponBlindXferReq

Callback(c) ==
    \/ OnNewSession(c) \/ OnConnected(c) \/ OnFailure(c) \/ OnAnswer(c)
    \/ OnOfferRejected(c) \/ OnTerminated(c) \/ OnSessionExpired(c)
    \/ OnConnectedConfirmed(c)

InPlay(s) == Mixed \/ s \in Uas \/ subscription = 0

Next ==
    \/ \E s \in Session : InPlay(s) /\ SessionNext(s)
    \/ \E s \in Uas : AcceptOffered(s) \/ OnOffer(s)
    \/ \E c \in Contexts : Callback(c)
    \/ Accept \/ AcceptTimeout \/ OnOfferRefused
    \/ ProcessApplicationMessages
    \/ Shutdown

Spec == Init /\ [][Next]_vars

\* A session's thread runs what is ready and its timers expire; the stack
\* serves its inbound handle and resip completes what it was asked to end.
\* Nothing is assumed of scripts, of remote parties or of the network.
SessionProgress(s) ==
    \/ MakeCallOk(s) \/ MakeCallNack(s) \/ MakeCallTimeout(s)
    \/ ReOfferDone(s) \/ ReOfferTimeout(s) \/ AnswerDone(s) \/ AnswerTimeout(s)
    \/ BlindXferDone(s) \/ BlindXferTimeout(s) \/ UponCallTerminated(s)
Ending(c) == ctx[c].dialog = "ending" /\ OnTerminated(c)
Fairness ==
    /\ \A s \in Session : WF_vars(SessionProgress(s))
    /\ WF_vars(ProcessApplicationMessages)
    /\ \A c \in 1..MaxContexts : WF_vars(c \in Contexts /\ Ending(c))
FairSpec == Spec /\ Fairness

-----------------------------------------------------------------------------
\* Every variable stays in its domain.
TypeOK ==
    /\ op \in [Session -> Op]
    /\ callState \in [Session -> CallState]
    /\ iwCallHandle \in [Session -> Handle \cup {IW_UNDEFINED}]
    /\ emptyOffer \in [Session -> BOOLEAN]
    /\ txn \in [Session -> TxnId]
    /\ ready \in [Session -> Seq([kind : Response \cup {"HANGUP_EVT"}, call : 0..MaxContexts])]
    /\ hangupChannel \in [Session -> Seq(1..MaxContexts)]
    /\ stackInbound \in Seq([kind : Request, session : Session, txn : 1..(MaxUacTxn + MaxUasTxn + 1),
                             handle : Handle \cup {IW_UNDEFINED}, empty : BOOLEAN]
                            \cup [kind : {"CALL_SUBSCRIBE_REQ"}, subscription : 1..MaxSubscribes])
    /\ ctx \in Seq([session : Session \cup {NoSession}, handle : Handle, dialog : Dialog,
                    makeCallReq : TxnId, reofferReq : TxnId, makeCallAck : TxnId])
    /\ Len(ctx) <= MaxContexts
    /\ DOMAIN iwHandlesMap \subseteq Handle
    /\ \A h \in DOMAIN iwHandlesMap : iwHandlesMap[h] \in Contexts
    /\ callIndex \in CALL_INDEX..(CALL_INDEX + MaxContexts)
    /\ resipId \in 0..MaxContexts
    /\ eventsHandle \in 0..MaxSubscribes
    /\ acceptor \in {"idle", "subscribing", "waiting"}
    /\ subscription \in 0..MaxSubscribes
    /\ stackUp \in BOOLEAN
    /\ told \subseteq 1..MaxContexts
    /\ timedOut \subseteq Uac

\* A request of a session never acts on the call of another one: whatever the
\* map has become when the stack gets to the request, the handle it carries
\* names a context of that session or none.
RequestsHitOwnCall ==
    \A i \in 1..Len(stackInbound) :
        LET m == stackInbound[i]
        IN  m.kind \in Request /\ Named(m.handle)
            => ctx[iwHandlesMap[m.handle]].session = m.session

\* No call ends behind the session's back: while a session that has a call
\* keeps the handle, the stack knows the call, is ending it, or the session has
\* been told or is about to be.
GoneIsTold ==
    \A s \in Session : op[s] \in TxnOp \cup {"idle"} =>
        \A c \in Contexts :
            (ctx[c].session = s /\ ctx[c].handle = iwCallHandle[s]) =>
                \/ Named(ctx[c].handle) /\ iwHandlesMap[ctx[c].handle] = c
                \/ ctx[c].dialog = "ending"
                \/ \E i \in 1..Len(ready[s]) : ready[s][i] = [kind |-> "HANGUP_EVT", call |-> c]
                \/ c \in told

\* A session never has two calls that are being set up or are up, although its
\* MakeCall may be repeated after a refusal and its answers may come late.
OneLiveCall ==
    \A c, d \in Contexts :
        (ctx[c].session = ctx[d].session /\ ctx[c].dialog \in Live /\ ctx[d].dialog \in Live)
            => c = d

\* provideOffer, which makes resip throw on any other dialog and so ends the
\* whole stack, is called on a connected dialog only.
OffersWhenConnected ==
    (stackInbound # <<>> /\ Msg.kind = "REOFFER_REQ" /\ Named(Msg.handle))
        => ctx[iwHandlesMap[Msg.handle]].dialog = "connected"

KnownCalls(s) == {h \in DOMAIN iwHandlesMap : ctx[iwHandlesMap[h]].session = s}

\* The destructor does not leave a call behind: the stack lets go of the calls
\* of a deleted session, unless a MakeCall of it had timed out.
NoOrphanCall ==
    \A s \in Session : (op[s] = "deleted" /\ s \notin timedOut) ~> (KnownCalls(s) = {})

Known(c) == c \in Contexts /\ Named(ctx[c].handle) /\ iwHandlesMap[ctx[c].handle] = c

\* Whoever ends a call, the script learns of it: a call that leaves the stack's
\* map is reported on the _hangupChannel of its session, if there is a session
\* to report to and the stack does not end first.
HangupIsLearnt ==
    \A c \in 1..MaxContexts :
        []((Known(c) /\ <>(~Known(c)))
            => <>(c \in told \/ ~stackUp
                  \/ \E s \in Session : /\ c \in Contexts /\ ctx[c].session = s
                                       /\ op[s] \in {"offered", "lost", "deleted"}))

-----------------------------------------------------------------------------
(* What the sessions rely on: CallService.                                 *)

OwnerOf(c) == IF c \in Contexts THEN ctx[c].session ELSE NoSession
Stage(dialog) ==
    CASE dialog \in {"inviting", "early", "accepted"} -> "setup"
      [] dialog \in {"connected", "reoffered"} -> "up"
      [] OTHER -> dialog
PhaseOf(c) == IF c \in Contexts THEN Stage(ctx[c].dialog) ELSE "none"

\* The session has handled the end of the call, or is going to.
IsReported(c) ==
    \/ c \in told
    \/ \E s \in Session : \E i \in 1..Len(ready[s]) : ready[s][i] = [kind |-> "HANGUP_EVT", call |-> c]

CallId == 1..MaxContexts
Calling == INSTANCE CallService WITH
    Call <- CallId,
    owner <- [c \in CallId |-> OwnerOf(c)],
    phase <- [c \in CallId |-> PhaseOf(c)],
    known <- {c \in CallId : Known(c)},
    reported <- {c \in CallId : IsReported(c)},
    gone <- {s \in Session : op[s] = "deleted"},
    serving <- stackUp

\* The session and ProcResipStack between them implement CallService: a call is
\* never doubled, forgotten without its owner being told, or brought back,
\* whichever requests, callbacks and timeouts meet.
ImplementsCallService == Calling!Spec

\* What the comment in MakeCall says of its call to HangupCall: a call whose
\* MakeCall timed out eventually gets hung up.
TimedOutCallHungUp ==
    \A s \in Uac :
        (s \in timedOut) ~> (\A c \in Contexts : ctx[c].session = s => ctx[c].dialog \notin Live)

=============================================================================

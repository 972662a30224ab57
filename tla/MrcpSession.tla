----------------------------- MODULE MrcpSession -----------------------------
(***************************************************************************)
(* MrcpSession of iw_telephony against ProcUniMrcp of iw_unimrcp: a script *)
(* allocates a synthesizer and a recognizer, speaks, recognizes, waits for *)
(* the ends of both or not, and tears the session down.                    *)
(*                                                                         *)
(* ProcUniMrcp serves the completion port iocp.  Requests of the sessions  *)
(* and callbacks of the UniMRCP client, which run on a thread of that      *)
(* library, stand there in the order of their arrival.  The library is     *)
(* modelled from how ProcUniMrcp uses it: it handles what is asked of one  *)
(* session in order, adds a channel with any status, answers a message or  *)
(* not, completes an accepted SPEAK or RECOGNIZE later, and may end a      *)
(* session by itself.  Left out: MsgMrcpTearDownEvt, which MrcpSession     *)
(* ignores, and DefineGrammar and ModifySession, which ProcUniMrcp does    *)
(* not serve, so that they time out and change nothing.                    *)
(***************************************************************************)
EXTENDS Integers, Sequences, FiniteSets

CONSTANTS
    Session,                \* the MRCP sessions of the scripts
    MAX_MESSAGES_IN_QUEUE,  \* capacity of _playStoppedHandle and _recognitionStoppedHandle
    MaxHandles,             \* bound: contexts that are made
    MaxTxn,                 \* bound: requests of one session
    MaxPort                 \* bound: length of iocp up to which more is sent or posted

ASSUME BoundsAssumption ==
    /\ MAX_MESSAGES_IN_QUEUE \in Nat \ {0}
    /\ MaxHandles \in Nat /\ MaxTxn \in Nat /\ MaxPort \in Nat

VARIABLES
    op,             \* what the owner of the session does
    mrcpHandle,     \* _mrcpSessionHandle
    sync,           \* the sync argument of the Speak or Recognize under way
    correlation,    \* ack->correlation_id of the Speak that waits for the end
    txn,            \* counts the session's requests
    response,       \* what is in the txn_handle of its transaction
    listener,       \* the ProcEventListener of the session
    inbound,        \* the events on the listener's inbound handle
    stopped,        \* _playStoppedHandle and _recognitionStoppedHandle
    iocp,           \* the completion port of ProcUniMrcp
    ctxs,           \* _mrcpCtxMap
    handleCounter,  \* the counter of GetNewMrcpHandle
    up,             \* ProcUniMrcp::real_run is in its loop
    live,           \* UniMRCP: sessions that are neither terminated nor ended
    adding,         \* UniMRCP: channels that are being added
    terminating,    \* UniMRCP: sessions that are being terminated
    pending,        \* UniMRCP: messages that are not answered or not complete
    lastRequestId,  \* UniMRCP: the request_id of the last message sent
    destroyed,      \* UniMRCP: sessions given to mrcp_application_session_destroy
    taken,          \* history: handles that a session got to know
    overlapped,     \* history: contexts torn down with a channel being added
    broken,         \* history: contexts that outlive their session's destruction
    misused         \* history: sessions used or destroyed after their destruction

ownerVars == <<op, mrcpHandle, sync, correlation, txn>>
listenVars == <<listener, inbound, stopped>>
serverVars == <<ctxs, handleCounter, up>>
clientVars == <<live, adding, terminating, pending, lastRequestId>>
historyVars == <<taken, overlapped, broken>>
destroyVars == <<destroyed, misused>>
vars == <<ownerVars, response, listenVars, iocp, serverVars, clientVars,
          historyVars, destroyVars>>

IW_UNDEFINED == 0
Handle == 1..MaxHandles
RequestId == Nat \ {0}   \* MaxTxn bounds how many there are
Resource == {"SYNTHESIZER", "RECOGNIZER"}
TxnOp == {"Allocate", "Speak", "StopSpeak", "Recognize"}
Op == TxnOp \cup {"idle", "WaitSpeak", "WaitRecog", "joining", "deleted"}
Completion == {"SPEAK", "RECOGNIZE"}
Method == Completion \cup {"STOP"}
Status == {"SUCCESS", "NO_CODEC", "FAILURE", "TERMINATE"}

Plus(f, h, r) == [x \in DOMAIN f \cup {h} |-> IF x = h THEN r ELSE f[x]]
Without(f, h) == [x \in DOMAIN f \ {h} |-> f[x]]

Init ==
    /\ op = [s \in Session |-> "idle"]
    /\ mrcpHandle = [s \in Session |-> IW_UNDEFINED]
    /\ sync = [s \in Session |-> FALSE]
    /\ correlation = [s \in Session |-> IW_UNDEFINED]
    /\ txn = [s \in Session |-> 0]
    /\ response = [s \in Session |-> <<>>]
    /\ listener = [s \in Session |-> "none"]
    /\ inbound = [s \in Session |-> <<>>]
    /\ stopped = [s \in Session |-> [c \in Completion |-> <<>>]]
    /\ iocp = <<>>
    /\ ctxs = <<>>
    /\ handleCounter = 0
    /\ up = TRUE
    /\ live = {} /\ adding = {} /\ terminating = {} /\ pending = {} /\ lastRequestId = 0
    /\ destroyed = {} /\ misused = {}
    /\ taken = {} /\ overlapped = {} /\ broken = {}

-----------------------------------------------------------------------------
(* Messages.  rsc is the resource of an Allocate.                          *)

Req(s, o, rsc) ==
    [kind |-> o, session |-> s, txn |-> txn[s] + 1, handle |-> mrcpHandle[s], rsc |-> rsc]

\* A process that has left its loop is no longer registered.
ToServer(m) == iocp' = IF up THEN Append(iocp, m) ELSE iocp

\* DoRequestResponseTransaction up to its wait, or to the failure to send.
Ask(s, o, rsc) ==
    /\ op[s] = "idle"
    /\ txn[s] < MaxTxn /\ Len(iocp) < MaxPort
    /\ txn' = [txn EXCEPT ![s] = @ + 1]
    /\ op' = [op EXCEPT ![s] = IF up THEN o ELSE "idle"]
    /\ ToServer(Req(s, o, rsc))

Received(s, o, ack) ==
    /\ op[s] = o
    /\ response[s] # <<>> /\ Head(response[s]).ack = ack
    /\ response' = [response EXCEPT ![s] = <<>>]

\* SendResponse: a transaction takes the first response while it is open.
Respond(m, o, ack, value) ==
    LET s == m.session
    IN  response' = IF op[s] \in TxnOp /\ txn[s] = m.txn /\ response[s] = <<>>
                    THEN [response EXCEPT ![s] = <<[op |-> o, ack |-> ack, value |-> value]>>]
                    ELSE response

-----------------------------------------------------------------------------
(* The UniMRCP client's side of the calls ProcUniMrcp makes.               *)

UseSession(h) ==
    /\ misused' = IF h \in destroyed THEN misused \cup {h} ELSE misused
    /\ UNCHANGED destroyed
DestroySession(h) ==
    /\ misused' = IF h \in destroyed THEN misused \cup {h} ELSE misused
    /\ destroyed' = destroyed \cup {h}
Post(m) == iocp' = Append(iocp, m)

SendMessageOk(h, method, id) ==
    /\ lastRequestId' = id
    /\ pending' = pending \cup {[handle |-> h, id |-> id, method |-> method, active |-> FALSE]}
    /\ UNCHANGED <<live, adding, terminating>>

-----------------------------------------------------------------------------
(* Mutants: plausible bugs, used only to show that the properties notice.  *)

\* The handle is undefined again before it is put into the request.
TearDownOfNothing(s) ==
    /\ ToServer([Req(s, "TearDown", "SYNTHESIZER") EXCEPT !.handle = IW_UNDEFINED])
    /\ mrcpHandle' = [mrcpHandle EXCEPT ![s] = IW_UNDEFINED]

\* Responses are not compared with the last message.
NeverOutdated(m) == FALSE

\* A channel that is full takes one more.
FullOffByOne(s, method) == Len(stopped[s][method]) > MAX_MESSAGES_IN_QUEUE

\* The context's session is destroyed when its end is reported, although a
\* TearDown that was served before has it terminated.
TerminatedEvtDestroys ==
    /\ up
    /\ iocp # <<>> /\ Head(iocp).kind = "TERMINATE_EVT"
    /\ iocp' = Tail(iocp)
    /\ ctxs' = Without(ctxs, Head(iocp).handle)
    /\ DestroySession(Head(iocp).handle)
    /\ UNCHANGED <<ownerVars, response, listenVars, handleCounter, up, clientVars,
                   historyVars>>

\* The listener drops what does not fit instead of waiting.
DropWhenFull(s) ==
    /\ listener[s] = "waiting"
    /\ inbound[s] # <<>>
    /\ inbound' = [inbound EXCEPT ![s] = Tail(@)]
    /\ LET e == Head(inbound[s])
       IN  stopped' = IF Len(stopped[s][e.method]) >= MAX_MESSAGES_IN_QUEUE THEN stopped
                      ELSE [stopped EXCEPT ![s][e.method] = Append(@, e.id)]
    /\ UNCHANGED <<ownerVars, response, listener, iocp, serverVars, clientVars,
                   historyVars, destroyVars>>

-----------------------------------------------------------------------------
(* The owner: Allocate, Speak, StopSpeak, Recognize, WaitForRecogResult,   *)
(* TearDown and the destructor.                                            *)

\* A session that was torn down and is allocated again starts its listener a
\* second time, which ends the program.
Allocate(s) ==
    /\ mrcpHandle[s] = IW_UNDEFINED => listener[s] = "none"
    /\ \E rsc \in Resource : Ask(s, "Allocate", rsc)
    /\ UNCHANGED <<mrcpHandle, sync, correlation, response, listenVars, serverVars,
                   clientVars, historyVars, destroyVars>>

\* A session that has a handle keeps it, whichever context the ack names.
AllocateAck(s) ==
    /\ Received(s, "Allocate", TRUE)
    /\ op' = [op EXCEPT ![s] = "idle"]
    /\ \/ /\ mrcpHandle[s] = IW_UNDEFINED
          /\ mrcpHandle' = [mrcpHandle EXCEPT ![s] = Head(response[s]).value]
          /\ listener' = [listener EXCEPT ![s] = "waiting"]
          /\ taken' = taken \cup {Head(response[s]).value}
       \/ /\ mrcpHandle[s] # IW_UNDEFINED
          /\ UNCHANGED <<mrcpHandle, listener, taken>>
    /\ UNCHANGED <<sync, correlation, txn, inbound, stopped, iocp, serverVars,
                   clientVars, overlapped, broken, destroyVars>>

\* The requests of an allocated session.
Request(s) ==
    /\ mrcpHandle[s] # IW_UNDEFINED
    /\ \/ /\ \E o \in {"Speak", "Recognize"} : Ask(s, o, "SYNTHESIZER")
          /\ \E sy \in BOOLEAN : sync' = [sync EXCEPT ![s] = sy /\ up]
       \/ /\ Ask(s, "StopSpeak", "SYNTHESIZER")
          /\ UNCHANGED sync
    /\ UNCHANGED <<mrcpHandle, correlation, response, listenVars, serverVars,
                   clientVars, historyVars, destroyVars>>

\* The transaction ends and nothing but the result depends on the response.  An
\* asynchronous Recognize does not look at it; a refused Speak returns success.
Answered(s) ==
    /\ \/ Received(s, "Allocate", FALSE)
       \/ Received(s, "Speak", FALSE)
       \/ \E ack \in BOOLEAN : Received(s, "StopSpeak", ack)
       \/ Received(s, "Recognize", FALSE)
       \/ ~sync[s] /\ (Received(s, "Speak", TRUE) \/ Received(s, "Recognize", TRUE))
    /\ op' = [op EXCEPT ![s] = "idle"]
    /\ sync' = [sync EXCEPT ![s] = FALSE]
    /\ UNCHANGED <<mrcpHandle, correlation, txn, listenVars, iocp, serverVars,
                   clientVars, historyVars, destroyVars>>

\* No response in time.
TimedOut(s) ==
    /\ op[s] \in TxnOp /\ response[s] = <<>>
    /\ op' = [op EXCEPT ![s] = "idle"]
    /\ sync' = [sync EXCEPT ![s] = FALSE]
    /\ UNCHANGED <<mrcpHandle, correlation, txn, response, listenVars, iocp,
                   serverVars, clientVars, historyVars, destroyVars>>

SpeakAck(s) ==
    /\ sync[s] /\ Received(s, "Speak", TRUE)
    /\ op' = [op EXCEPT ![s] = "WaitSpeak"]
    /\ correlation' = [correlation EXCEPT ![s] = Head(response[s]).value]
    /\ sync' = [sync EXCEPT ![s] = FALSE]
    /\ UNCHANGED <<mrcpHandle, txn, listenVars, iocp, serverVars, clientVars,
                   historyVars, destroyVars>>

RecognizeAck(s) ==
    /\ sync[s] /\ Received(s, "Recognize", TRUE)
    /\ op' = [op EXCEPT ![s] = "WaitRecog"]
    /\ sync' = [sync EXCEPT ![s] = FALSE]
    /\ UNCHANGED <<mrcpHandle, correlation, txn, listenVars, iocp, serverVars,
                   clientVars, historyVars, destroyVars>>

\* WaitForRecogResult by itself, after an asynchronous Recognize: its wait is left
\* out, and one that ends without a result changes nothing.
WaitForRecogResult(s) ==
    /\ op[s] = "idle"
    /\ stopped[s]["RECOGNIZE"] # <<>>
    /\ stopped' = [stopped EXCEPT ![s]["RECOGNIZE"] = Tail(@)]
    /\ UNCHANGED <<ownerVars, response, listener, inbound, iocp, serverVars, clientVars,
                   historyVars, destroyVars>>

\* Speak waits for the end of its own utterance and forgets those of others.
SpeakStopped(s) ==
    /\ op[s] = "WaitSpeak"
    /\ stopped[s]["SPEAK"] # <<>>
    /\ stopped' = [stopped EXCEPT ![s]["SPEAK"] = Tail(@)]
    /\ \/ /\ Head(stopped[s]["SPEAK"]) = correlation[s]
          /\ op' = [op EXCEPT ![s] = "idle"]
          /\ correlation' = [correlation EXCEPT ![s] = IW_UNDEFINED]
       \/ /\ Head(stopped[s]["SPEAK"]) # correlation[s]
          /\ UNCHANGED <<op, correlation>>
    /\ UNCHANGED <<mrcpHandle, sync, txn, response, listener, inbound, iocp,
                   serverVars, clientVars, historyVars, destroyVars>>

\* Recognize takes the first result, of whichever recognition it is.
RecogStopped(s) ==
    /\ op[s] = "WaitRecog"
    /\ stopped[s]["RECOGNIZE"] # <<>>
    /\ stopped' = [stopped EXCEPT ![s]["RECOGNIZE"] = Tail(@)]
    /\ op' = [op EXCEPT ![s] = "idle"]
    /\ UNCHANGED <<mrcpHandle, sync, correlation, txn, response, listener, inbound,
                   iocp, serverVars, clientVars, historyVars, destroyVars>>

\* The wait ends with API_HANGUP, or when its time is over.  InterruptWithHangup
\* may have been called at any time before, for this wait or an earlier one.
GivesUp(s) ==
    /\ op[s] \in {"WaitSpeak", "WaitRecog"}
    /\ op' = [op EXCEPT ![s] = "idle"]
    /\ correlation' = [correlation EXCEPT ![s] = IW_UNDEFINED]
    /\ UNCHANGED <<mrcpHandle, sync, txn, response, listenVars, iocp, serverVars, clientVars,
                   historyVars, destroyVars>>

TearDownEffect(s) ==
    IF mrcpHandle[s] = IW_UNDEFINED
    THEN UNCHANGED <<iocp, mrcpHandle>>
    ELSE /\ ToServer(Req(s, "TearDown", "SYNTHESIZER"))
         /\ mrcpHandle' = [mrcpHandle EXCEPT ![s] = IW_UNDEFINED]

TearDown(s) ==
    /\ op[s] = "idle"
    /\ mrcpHandle[s] # IW_UNDEFINED
    /\ TearDownEffect(s)
    /\ UNCHANGED <<op, sync, correlation, txn, response, listenVars, serverVars,
                   clientVars, historyVars, destroyVars>>

(* The destructor: StopActiveObjectLwProc waits for the listener, which    *)
(* leaves at its next wait, but not out of a Send; then TearDown.          *)
Delete(s) ==
    /\ \/ /\ op[s] = "idle" /\ listener[s] = "sending"
          /\ op' = [op EXCEPT ![s] = "joining"]
          /\ UNCHANGED <<mrcpHandle, iocp, listenVars>>
       \/ /\ op[s] \in {"idle", "joining"} /\ listener[s] # "sending"
          /\ op' = [op EXCEPT ![s] = "deleted"]
          /\ TearDownEffect(s)
          /\ listener' = [listener EXCEPT ![s] = "none"]
          /\ inbound' = [inbound EXCEPT ![s] = <<>>]
          /\ stopped' = [stopped EXCEPT ![s] = [c \in Completion |-> <<>>]]
    /\ UNCHANGED <<sync, correlation, txn, response, serverVars, clientVars,
                   historyVars, destroyVars>>

-----------------------------------------------------------------------------
(* The listener sends a completion on to the handle of its kind, and waits *)
(* there if the channel is full.                                           *)

Full(s, method) == Len(stopped[s][method]) >= MAX_MESSAGES_IN_QUEUE

HeldUp(s) == /\ inbound[s] # <<>>
             /\ Head(inbound[s]).method = "RECOGNIZE" /\ Full(s, "RECOGNIZE")

UponActiveObjectEvent(s) ==
    /\ listener[s] = "sending" \/ (listener[s] = "waiting" /\ op[s] # "joining")
    /\ inbound[s] # <<>>
    /\ LET e == Head(inbound[s])
       IN  \/ /\ ~Full(s, e.method)
              /\ stopped' = [stopped EXCEPT ![s][e.method] = Append(@, e.id)]
              /\ inbound' = [inbound EXCEPT ![s] = Tail(@)]
              /\ listener' = [listener EXCEPT ![s] = "waiting"]
           \/ /\ Full(s, e.method) /\ listener[s] = "waiting"
              /\ listener' = [listener EXCEPT ![s] = "sending"]
              /\ UNCHANGED <<inbound, stopped>>
    /\ UNCHANGED <<ownerVars, response, iocp, serverVars, clientVars, historyVars,
                   destroyVars>>

-----------------------------------------------------------------------------
(* ProcUniMrcp: the requests.                                              *)

Serves(kind) ==
    /\ up
    /\ iocp # <<>>
    /\ Head(iocp).kind = kind
    /\ iocp' = Tail(iocp)

Msg == Head(iocp)
Known == Msg.handle \in DOMAIN ctxs
UserRequest == [session |-> Msg.session, txn |-> Msg.txn]
Connecting(r) == [r EXCEPT !.state = "CONNECTING", !.last_user_request = UserRequest]
WithChannel(r) == [r EXCEPT !.channels = @ \cup {Msg.rsc}]

\* A new context gets into the map when its channel is being added; the session
\* of one that does not is destroyed or left to the client, and its handle unknown.
AllocateNew ==
    /\ Serves("Allocate") /\ ~Known
    /\ \/ /\ Respond(Msg, "Allocate", FALSE, IW_UNDEFINED)
          /\ UNCHANGED <<ctxs, handleCounter, clientVars>>
       \/ /\ handleCounter < MaxHandles
          /\ handleCounter' = handleCounter + 1
          /\ ctxs' = Plus(ctxs, handleCounter',
                          [session |-> Msg.session, state |-> "CONNECTING",
                           channels |-> {Msg.rsc}, last_message |-> IW_UNDEFINED,
                           last_user_request |-> UserRequest])
          /\ live' = live \cup {handleCounter'}
          /\ adding' = adding \cup {<<handleCounter', Msg.rsc>>}
          /\ UNCHANGED <<response, terminating, pending, lastRequestId>>
    /\ UNCHANGED <<ownerVars, listenVars, up, historyVars, destroyVars>>

\* A second resource of a known context.  The request is refused whatever comes
\* of it: with an offer because there is a session already, after which the
\* channel is added all the same; without one because there is no media.  On the
\* latter path channel is read before it is set, so the session is destroyed or
\* not; it is also destroyed when the channel exists and cannot be added.
AllocateMore ==
    /\ Serves("Allocate") /\ Known
    /\ Respond(Msg, "Allocate", FALSE, IW_UNDEFINED)
    /\ LET h == Msg.handle
       IN  \/ /\ Msg.rsc \in ctxs[h].channels
              /\ UNCHANGED <<ctxs, clientVars, broken, destroyVars>>
           \/ /\ Msg.rsc \notin ctxs[h].channels
              /\ ctxs' = [ctxs EXCEPT ![h] = Connecting(@)]
              /\ UNCHANGED <<clientVars, broken, destroyVars>>
           \/ /\ Msg.rsc \notin ctxs[h].channels
              /\ \/ ctxs' = [ctxs EXCEPT ![h] = Connecting(@)]
                 \/ ctxs' = [ctxs EXCEPT ![h] = WithChannel(Connecting(@))]
              /\ DestroySession(h)
              /\ broken' = broken \cup {h}
              /\ UNCHANGED clientVars
           \/ /\ Msg.rsc \notin ctxs[h].channels
              /\ ctxs' = [ctxs EXCEPT ![h] = WithChannel(Connecting(@))]
              /\ adding' = adding \cup {<<h, Msg.rsc>>}
              /\ UseSession(h)
              /\ UNCHANGED <<live, terminating, pending, lastRequestId, broken>>
    /\ UNCHANGED <<ownerVars, listenVars, handleCounter, up, taken, overlapped>>

ResourceOf(o) == IF o = "Recognize" THEN "RECOGNIZER" ELSE "SYNTHESIZER"
MethodOf(o) == CASE o = "Speak" -> "SPEAK" [] o = "StopSpeak" -> "STOP" [] o = "Recognize" -> "RECOGNIZE"
OpOf(method) == CHOOSE o \in {"Speak", "StopSpeak", "Recognize"} : MethodOf(o) = method

\* UponSpeakReq, UponStopSpeakReq and UponRecognizeReq.  last_user_request is the
\* request even if it is refused: for the state of the context, for a channel that
\* is not there, or for a message that cannot be made or sent.
Refused(o) ==
    /\ Serves(o)
    /\ Respond(Msg, o, FALSE, IW_UNDEFINED)
    /\ \/ ~Known /\ UNCHANGED ctxs
       \/ /\ Known
          /\ \/ ctxs' = [ctxs EXCEPT ![Msg.handle].last_user_request = UserRequest]
             \/ /\ ctxs[Msg.handle].state = "ALLOCATED"
                /\ ResourceOf(o) \in ctxs[Msg.handle].channels
                /\ ctxs' = [ctxs EXCEPT ![Msg.handle] =
                               [@ EXCEPT !.last_user_request = UserRequest,
                                         !.last_message = IW_UNDEFINED]]
    /\ UNCHANGED <<ownerVars, listenVars, handleCounter, up, clientVars,
                   historyVars, destroyVars>>

Sent(o) ==
    /\ Serves(o) /\ Known
    /\ ctxs[Msg.handle].state = "ALLOCATED"
    /\ ResourceOf(o) \in ctxs[Msg.handle].channels
    /\ UseSession(Msg.handle)
    /\ SendMessageOk(Msg.handle, MethodOf(o), lastRequestId + 1)
    /\ ctxs' = [ctxs EXCEPT ![Msg.handle] =
                   [@ EXCEPT !.last_user_request = UserRequest, !.last_message = lastRequestId + 1]]
    /\ UNCHANGED <<ownerVars, response, listenVars, handleCounter, up, historyVars>>

\* The context goes at once; its session is destroyed when UniMRCP, which answers
\* none of its messages any more, has terminated it.  A TearDown of an unknown context is answered with a
\* MsgMrcpSpeakReqNack to the script's own inbound handle.
UponTearDownReq ==
    /\ Serves("TearDown")
    /\ ctxs' = Without(ctxs, Msg.handle)
    /\ IF Known
       THEN /\ terminating' = terminating \cup {Msg.handle}
            /\ pending' = {p \in pending : p.handle # Msg.handle}
            /\ UseSession(Msg.handle)
            /\ overlapped' = IF \/ \E a \in adding : a[1] = Msg.handle
                                \/ \E i \in 2..Len(iocp) : /\ iocp[i].kind = "CHANNEL_ADD_EVT"
                                                           /\ iocp[i].handle = Msg.handle
                             THEN overlapped \cup {Msg.handle} ELSE overlapped
       ELSE UNCHANGED <<terminating, pending, destroyVars, overlapped>>
    /\ UNCHANGED <<ownerVars, response, listenVars, handleCounter, up, live, adding, lastRequestId,
                   taken, broken>>

-----------------------------------------------------------------------------
(* ProcUniMrcp: what the callbacks have posted.                            *)

\* The response is for the message sent last, or it is dropped.
Outdated(m) == ctxs[m.handle].last_message # m.id

OnMrcpMessageReceived ==
    /\ Serves("MESSAGE_RECEIVE_EVT")
    /\ LET r == ctxs[Msg.handle].last_user_request
           s == ctxs[Msg.handle].session
       IN  IF ~Known \/ Outdated(Msg)
           THEN UNCHANGED <<response, inbound>>
           ELSE IF Msg.complete
           THEN /\ inbound' = IF op[s] = "deleted" THEN inbound
                              ELSE [inbound EXCEPT ![s] = Append(@, [method |-> Msg.method,
                                                                     id |-> Msg.id])]
                /\ UNCHANGED response
           ELSE /\ Respond(r, OpOf(Msg.method), Msg.ok \/ Msg.method # "RECOGNIZE", Msg.id)
                /\ UNCHANGED inbound
    /\ UNCHANGED <<ownerVars, listener, stopped, serverVars, clientVars,
                   historyVars, destroyVars>>

\* UniMRCP reports the end of a session: nobody destroys it.
OnMrcpSessionTerminatedEvt ==
    /\ Serves("TERMINATE_EVT")
    /\ ctxs' = Without(ctxs, Msg.handle)
    /\ UNCHANGED <<ownerVars, response, listenVars, handleCounter, up, clientVars,
                   historyVars, destroyVars>>

OnMrcpSessionTerminatedRsp ==
    /\ Serves("TERMINATE_RSP")
    /\ DestroySession(Msg.handle)
    /\ UNCHANGED <<ownerVars, response, listenVars, serverVars, clientVars,
                   historyVars>>

\* A channel that could not be added leaves its context CONNECTING.
OnMrcpChannelAddEvt ==
    /\ Serves("CHANNEL_ADD_EVT")
    /\ LET h == Msg.handle
           r == ctxs[h].last_user_request
       IN  \/ /\ ~Known
              /\ DestroySession(h)
              /\ UNCHANGED <<ctxs, response>>
           \/ /\ Known /\ Msg.status \in {"SUCCESS", "NO_CODEC"}
              /\ ctxs' = [ctxs EXCEPT ![h].state = "ALLOCATED"]
              /\ Respond(r, "Allocate", Msg.status = "SUCCESS", h)
              /\ UNCHANGED destroyVars
           \/ /\ Known /\ Msg.status = "FAILURE"
              /\ Respond(r, "Allocate", FALSE, IW_UNDEFINED)
              /\ UNCHANGED <<ctxs, destroyVars>>
           \/ /\ Known /\ Msg.status = "TERMINATE"
              /\ ctxs' = Without(ctxs, h)
              /\ DestroySession(h)
              /\ UNCHANGED response
    /\ UNCHANGED <<ownerVars, listenVars, handleCounter, up, clientVars, historyVars>>

\* A shutdown request, or an exception in a handler: no session is told.
Shutdown ==
    /\ up
    /\ up' = FALSE
    /\ ctxs' = <<>> /\ iocp' = <<>>
    /\ live' = {} /\ adding' = {} /\ terminating' = {} /\ pending' = {}
    /\ UNCHANGED <<ownerVars, response, listenVars, handleCounter, lastRequestId,
                   historyVars, destroyVars>>

-----------------------------------------------------------------------------
(* The thread of the UniMRCP client.                                       *)

ClientAdds ==
    \E a \in adding, st \in Status :
        /\ Post([kind |-> "CHANNEL_ADD_EVT", handle |-> a[1], status |-> st])
        /\ adding' = adding \ {a}
        /\ UNCHANGED <<live, terminating, pending, lastRequestId>>

\* What is asked of a session is done in order: a channel is added before.
ClientTerminates ==
    \E h \in terminating :
        /\ \A a \in adding : a[1] # h
        /\ Post([kind |-> "TERMINATE_RSP", handle |-> h])
        /\ terminating' = terminating \ {h}
        /\ live' = live \ {h}
        /\ UNCHANGED <<adding, pending, lastRequestId>>

ClientEnds ==
    \E h \in live \ (terminating \cup destroyed) :
        /\ Post([kind |-> "TERMINATE_EVT", handle |-> h])
        /\ live' = live \ {h}
        /\ pending' = {p \in pending : p.handle # h}
        /\ UNCHANGED <<adding, terminating, lastRequestId>>

\* A response; an answered STOP ends the SPEAK that is active.
ClientAnswers ==
    \E p \in pending, ok \in BOOLEAN :
        /\ ~p.active /\ (p.method = "STOP" => ok)
        /\ Post([kind |-> "MESSAGE_RECEIVE_EVT", handle |-> p.handle, id |-> p.id,
                 method |-> p.method, ok |-> ok, complete |-> FALSE])
        /\ pending' = {q \in pending \ {p} : ~(p.method = "STOP" /\ q.method = "SPEAK"
                                               /\ q.active /\ q.handle = p.handle)}
                      \cup (IF ok /\ p.method \in Completion THEN {[p EXCEPT !.active = TRUE]} ELSE {})
        /\ UNCHANGED <<live, adding, terminating, lastRequestId>>

\* SPEAK-COMPLETE or RECOGNITION-COMPLETE.
ClientCompletes ==
    \E p \in pending :
        /\ p.active
        /\ Post([kind |-> "MESSAGE_RECEIVE_EVT", handle |-> p.handle, id |-> p.id,
                 method |-> p.method, ok |-> TRUE, complete |-> TRUE])
        /\ pending' = pending \ {p}
        /\ UNCHANGED <<live, adding, terminating, lastRequestId>>

Client ==
    /\ up /\ Len(iocp) < MaxPort
    /\ ClientAdds \/ ClientTerminates \/ ClientEnds \/ ClientAnswers \/ ClientCompletes
    /\ UNCHANGED <<ownerVars, response, listenVars, serverVars, historyVars,
                   destroyVars>>

-----------------------------------------------------------------------------
Server ==
    \/ AllocateNew \/ AllocateMore
    \/ \E o \in {"Speak", "StopSpeak", "Recognize"} : Refused(o) \/ Sent(o)
    \/ UponTearDownReq \/ OnMrcpMessageReceived \/ OnMrcpSessionTerminatedEvt
    \/ OnMrcpSessionTerminatedRsp \/ OnMrcpChannelAddEvt

Receives(s) ==
    \/ AllocateAck(s) \/ Answered(s) \/ SpeakAck(s) \/ RecognizeAck(s)
    \/ SpeakStopped(s) \/ RecogStopped(s)

Owner(s) ==
    \/ Allocate(s) \/ Request(s) \/ Receives(s) \/ TimedOut(s) \/ WaitForRecogResult(s)
    \/ GivesUp(s) \/ TearDown(s) \/ Delete(s)

Next ==
    \/ \E s \in Session : Owner(s) \/ UponActiveObjectEvent(s)
    \/ Server \/ Shutdown \/ Client

Spec == Init /\ [][Next]_vars

\* ProcUniMrcp serves its port, listeners run, an owner takes what it waits for.
\* Nothing is assumed of scripts, of the UniMRCP client and of timers.
Fairness ==
    /\ WF_vars(Server)
    /\ \A s \in Session : WF_vars(Receives(s)) /\ WF_vars(UponActiveObjectEvent(s))
FairSpec == Spec /\ Fairness

-----------------------------------------------------------------------------
\* Every variable stays in its domain.
TypeOK ==
    /\ op \in [Session -> Op]
    /\ mrcpHandle \in [Session -> Handle \cup {IW_UNDEFINED}]
    /\ sync \in [Session -> BOOLEAN]
    /\ correlation \in [Session -> RequestId \cup {IW_UNDEFINED}]
    /\ txn \in [Session -> 0..MaxTxn]
    /\ \A s \in Session : Len(response[s]) <= 1
    /\ listener \in [Session -> {"none", "waiting", "sending"}]
    /\ inbound \in [Session -> Seq([method : Completion, id : RequestId])]
    /\ stopped \in [Session -> [Completion -> Seq(RequestId)]]
    /\ \A s \in Session, c \in Completion : Len(stopped[s][c]) <= MAX_MESSAGES_IN_QUEUE
    /\ DOMAIN ctxs \subseteq Handle
    /\ \A h \in DOMAIN ctxs :
          ctxs[h] \in [session : Session, state : {"CONNECTING", "ALLOCATED"},
                       channels : SUBSET Resource, last_message : RequestId \cup {IW_UNDEFINED},
                       last_user_request : [session : Session, txn : 1..MaxTxn]]
    /\ handleCounter \in 0..MaxHandles
    /\ up \in BOOLEAN
    /\ adding \subseteq Handle \X Resource
    /\ pending \subseteq [handle : Handle, id : RequestId, method : Method, active : BOOLEAN]
    /\ lastRequestId \in RequestId \cup {0}
    /\ UNION {live, terminating, destroyed, misused, taken, overlapped, broken} \subseteq Handle

\* A transaction is answered with a message of its own kind, although responses of
\* UniMRCP go to last_user_request, which a refused request overwrites and a
\* request that timed out leaves: Allocate meets a bare throw otherwise, and
\* a refusal would be taken for another request's.
ResponseOfItsKind ==
    \A s \in Session : response[s] # <<>> => Head(response[s]).op = op[s]

\* A UniMRCP session is not used or destroyed after its destruction, but in the
\* two cases the handlers leave open: a TearDown while a channel is being added,
\* whose event then meets no context, and a failed second Allocate, which destroys
\* the session and keeps the context.
DestroyedOnce == misused \subseteq overlapped \cup broken

\* A Speak that waits hears of the end of its utterance, unless its context or the
\* process ends first or results nobody reads hold the listener up.
SpeakEndIsHeard ==
    \A s \in Session :
        (/\ op[s] = "WaitSpeak"
         /\ \E i \in 1..Len(iocp) : /\ iocp[i].kind = "MESSAGE_RECEIVE_EVT"
                                    /\ iocp[i].complete /\ iocp[i].id = correlation[s])
            ~> (\/ op[s] # "WaitSpeak" \/ ~up
                \/ mrcpHandle[s] \notin DOMAIN ctxs \/ HeldUp(s))

\* No context a session got to know outlives the session.
NoOrphanContext ==
    \A s \in Session :
        (op[s] = "deleted") ~> (\A h \in DOMAIN ctxs : ctxs[h].session = s => h \notin taken)

=============================================================================

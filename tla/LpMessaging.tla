----------------------------- MODULE LpMessaging -----------------------------
(***************************************************************************)
(* The messaging core of iw_core: LpHandle channels, the handle map of     *)
(* LocalProcessRegistrar and the request/response transactions of          *)
(* RunningContext.                                                         *)
(*                                                                         *)
(* A lightweight process p owns the inbound handle with id p.  Every       *)
(* transaction creates one more handle, registers it, puts its id into the *)
(* request as "source" and waits for whatever arrives on it; no code       *)
(* compares the transaction id of what arrives with the one that was sent. *)
(* Processes run on different threads, so any two of their steps           *)
(* interleave; one step here is one access to a channel or to the handle   *)
(* map, each of which is protected by its own mutex.                       *)
(***************************************************************************)
EXTENDS Integers, Sequences, FiniteSets

CONSTANTS
    NumProcs,               \* processes, their inbound handles are 1..NumProcs
    MaxUid,                 \* bound: handle ids handed out by GenerateNewUID
    MaxTxnId,               \* bound: ids handed out by GenerateNewTxnId
    MAX_MESSAGES_IN_QUEUE   \* capacity of a channel (1000 in LpHandle.h)

ASSUME SizesAssumption ==
    /\ NumProcs \in Nat \ {0}
    /\ MaxUid \in Nat
    /\ MaxUid >= NumProcs
    /\ MaxTxnId \in Nat
    /\ MAX_MESSAGES_IN_QUEUE \in Nat \ {0}

VARIABLES
    registered,     \* keys of _locProcessesMap
    queue,          \* handle id -> messages in its channel
    poisoned,       \* handles whose channel is poisoned
    nextUid,        \* UIDOwner counter
    nextTxnId,      \* IwMessage transaction counter
    pc,             \* where each process is
    txnHandle,      \* the handle of the running transaction
    txnId,          \* the transaction id it put into its request
    call,           \* destination, kind and addressing of the request to be sent
    held,           \* requests a process has read and not (finally) answered
    outcome,        \* history: how each transaction id ended, and with which response
    replied,        \* history: the transaction ids somebody sent a response for
    shutAll         \* whether UnReliableShutdownAll has run

vars == <<registered, queue, poisoned, nextUid, nextTxnId, pc, txnHandle,
          txnId, call, held, outcome, replied, shutAll>>

-----------------------------------------------------------------------------
Proc  == 1..NumProcs
Uid   == 1..MaxUid
TxnId == 1..MaxTxnId
IW_UNDEFINED == 0

RequestIds  == {"REQ", "PING", "SHUTDOWN_REQ"}
ResponseIds == {"ACK", "PONG", "SHUTDOWN_ACK"}
IwMessage   == [message_id : RequestIds \cup ResponseIds \cup {"EVT"},
                source : Uid \cup {IW_UNDEFINED},
                transaction_id : TxnId \cup {IW_UNDEFINED}]

ApiErrorCode == {"API_SUCCESS", "API_TIMEOUT", "API_UNKNOWN_RESPONSE",
                 "API_UNKNOWN_DESTINATION"}
Outcome == [code : ApiErrorCode \cup {"none", "open"},
            response : TxnId \cup {IW_UNDEFINED}]

\* The transaction is by handle (the caller holds the LpHandlePtr) or by process id.
Call == [dest : Proc, message_id : RequestIds, by : {"handle", "id"}]
NoCall(p) == [dest |-> p, message_id |-> "PING", by |-> "id"]

States == {"created", "idle", "sending", "waiting", "stopping", "poisoned", "dead"}
InTxn(p) == pc[p] \in {"sending", "waiting"}

-----------------------------------------------------------------------------
(* LpHandle: a writer blocks while the buffer is full, unless poisoned.    *)
CanSend(h) == h \in poisoned \/ Len(queue[h]) < MAX_MESSAGES_IN_QUEUE

\* Mutants, see below.
\* A channel that was poisoned still takes messages.
AfterSendPoisoned(qs, h, m) == [qs EXCEPT ![h] = Append(@, m)]

\* A response carries a fresh transaction id instead of the request's.
ResponseFreshTxn(m, id, p) ==
    [message_id |-> id, source |-> p, transaction_id |-> nextTxnId]

\* The queues after Send(m) on handle h: a poisoned channel throws and keeps nothing.
AfterSend(qs, h, m) ==
    IF h \in poisoned THEN qs ELSE [qs EXCEPT ![h] = Append(@, m)]

\* SendMessage resolves the destination in the handle map; an unknown one
\* drops the message.
Routable(h) == h \in registered => CanSend(h)
AfterSendMessage(qs, h, m) ==
    IF h \in registered THEN AfterSend(qs, h, m) ELSE qs

\* copy_data_on_response: the response takes the request's transaction id
\* and goes to the request's source.
Response(m, id, p) ==
    [message_id |-> id, source |-> p, transaction_id |-> m.transaction_id]
AfterResponse(qs, m, id, p) == AfterSendMessage(qs, m.source, Response(m, id, p))

RepliedTo(m) == (replied \cup {m.transaction_id}) \ {IW_UNDEFINED}

ResponseTo(m) == CASE m.message_id = "PING" -> "PONG"
                   [] m.message_id = "SHUTDOWN_REQ" -> "SHUTDOWN_ACK"
                   [] OTHER -> "ACK"

Init ==
    /\ registered = {}
    /\ queue = [h \in Uid |-> <<>>]
    /\ poisoned = {}
    /\ nextUid = NumProcs + 1
    /\ nextTxnId = 1
    /\ pc = [p \in Proc |-> "created"]
    /\ txnHandle = [p \in Proc |-> IW_UNDEFINED]
    /\ txnId = [p \in Proc |-> IW_UNDEFINED]
    /\ call = [p \in Proc |-> NoCall(p)]
    /\ held = [p \in Proc |-> {}]
    /\ outcome = [t \in TxnId |-> [code |-> "none", response |-> IW_UNDEFINED]]
    /\ replied = {}
    /\ shutAll = FALSE

-----------------------------------------------------------------------------
(* Mutants: plausible bugs, used only to show that the properties notice.  *)

\* Every transaction of a process gets a new channel under the id of its first one.
BeginTxnReusingHandle(p, c) ==
    /\ pc[p] = "idle"
    /\ nextUid <= MaxUid
    /\ nextTxnId <= MaxTxnId
    /\ txnHandle' = [txnHandle EXCEPT ![p] = IF @ = IW_UNDEFINED THEN nextUid ELSE @]
    /\ nextUid' = IF txnHandle[p] = IW_UNDEFINED THEN nextUid + 1 ELSE nextUid
    /\ registered' = registered \cup {txnHandle'[p]}
    /\ txnId' = [txnId EXCEPT ![p] = nextTxnId]
    /\ nextTxnId' = nextTxnId + 1
    /\ call' = [call EXCEPT ![p] = c]
    /\ outcome' = [outcome EXCEPT ![nextTxnId].code = "open"]
    /\ pc' = [pc EXCEPT ![p] = "sending"]
    /\ poisoned' = poisoned \ {txnHandle'[p]}
    /\ UNCHANGED <<queue, held, replied, shutAll>>

\* The registration guard is dismissed on the timeout path.
EndTxnKeepingTimedOut(p, code, response, qs) ==
    /\ registered' = IF code = "API_TIMEOUT" THEN registered
                                             ELSE registered \ {txnHandle[p]}
    /\ queue' = [qs EXCEPT ![txnHandle[p]] = <<>>]
    /\ poisoned' = poisoned \cup {txnHandle[p]}
    /\ outcome' = [outcome EXCEPT ![txnId[p]] = [code |-> code, response |-> response]]
    /\ pc' = [pc EXCEPT ![p] = "idle"]

\* The wait ignores its time limit.
TimeoutNever(p) == FALSE /\ UNCHANGED vars

\* The handle is registered before it was given its id.
BeginTxnRegisteringUndefined(p, c) ==
    /\ pc[p] = "idle"
    /\ nextUid <= MaxUid
    /\ nextTxnId <= MaxTxnId
    /\ txnHandle' = [txnHandle EXCEPT ![p] = nextUid]
    /\ nextUid' = nextUid + 1
    /\ registered' = registered \cup {IW_UNDEFINED}
    /\ txnId' = [txnId EXCEPT ![p] = nextTxnId]
    /\ nextTxnId' = nextTxnId + 1
    /\ call' = [call EXCEPT ![p] = c]
    /\ outcome' = [outcome EXCEPT ![nextTxnId].code = "open"]
    /\ pc' = [pc EXCEPT ![p] = "sending"]
    /\ UNCHANGED <<queue, poisoned, held, replied, shutAll>>

-----------------------------------------------------------------------------
(* RegisterContext *)
RegisterContext(p) ==
    /\ pc[p] = "created"
    /\ registered' = registered \cup {p}
    /\ pc' = [pc EXCEPT ![p] = "idle"]
    /\ UNCHANGED <<queue, poisoned, nextUid, nextTxnId, txnHandle, txnId, call,
                   held, outcome, replied, shutAll>>

(* DoRequestResponseTransaction, up to the send: a new handle, registered  *)
(* by its guard, and a new transaction id.  Both come from interlocked     *)
(* counters that others advance too, so nothing relates the two numbers.   *)
BeginTxn(p, c) ==
    /\ pc[p] = "idle"
    /\ nextUid <= MaxUid
    /\ nextTxnId <= MaxTxnId
    /\ txnHandle' = [txnHandle EXCEPT ![p] = nextUid]
    /\ nextUid' = nextUid + 1
    /\ registered' = registered \cup {nextUid}
    /\ txnId' = [txnId EXCEPT ![p] = nextTxnId]
    /\ nextTxnId' = nextTxnId + 1
    /\ call' = [call EXCEPT ![p] = c]
    /\ outcome' = [outcome EXCEPT ![nextTxnId].code = "open"]
    /\ pc' = [pc EXCEPT ![p] = "sending"]
    /\ UNCHANGED <<queue, poisoned, held, replied, shutAll>>

\* The transaction of p returns: its guard unregisters the handle, its
\* destructor poisons the channel and drops what is still in it.
EndTxn(p, code, response, qs) ==
    /\ registered' = registered \ {txnHandle[p]}
    /\ queue' = [qs EXCEPT ![txnHandle[p]] = <<>>]
    /\ poisoned' = poisoned \cup {txnHandle[p]}
    /\ outcome' = [outcome EXCEPT ![txnId[p]] = [code |-> code, response |-> response]]
    /\ pc' = [pc EXCEPT ![p] = "idle"]

(* The request leaves.  By handle, a poisoned channel is reported at once; *)
(* by id, only a destination missing from the map is: the result of Send   *)
(* is ignored there and the caller waits for its full timeout.             *)
SendRequest(p) ==
    LET c == call[p]
        m == [message_id |-> c.message_id, source |-> txnHandle[p],
              transaction_id |-> txnId[p]]
        unknown == IF c.by = "handle" THEN c.dest \in poisoned
                                      ELSE c.dest \notin registered
    IN
    /\ pc[p] = "sending"
    /\ \/ /\ unknown
          /\ EndTxn(p, "API_UNKNOWN_DESTINATION", IW_UNDEFINED, queue)
          /\ UNCHANGED call
       \/ /\ ~unknown
          /\ CanSend(c.dest)
          /\ queue' = AfterSend(queue, c.dest, m)
          /\ pc' = [pc EXCEPT ![p] = "waiting"]
          /\ call' = [call EXCEPT ![p] = NoCall(p)]
          /\ UNCHANGED <<registered, poisoned, outcome>>
    /\ UNCHANGED <<nextUid, nextTxnId, txnHandle, txnId, held, replied, shutAll>>

(* WaitForTxnResponse, index 0: the own inbound handle comes first in the  *)
(* list.  A ping is answered and the wait goes on; anything else is        *)
(* consumed and ends the transaction.                                      *)
ReceiveOOB(p) ==
    LET m == Head(queue[p])
        rest == [queue EXCEPT ![p] = Tail(@)]
    IN
    /\ pc[p] = "waiting"
    /\ queue[p] # <<>>
    /\ \/ /\ m.message_id = "PING"
          /\ Routable(m.source)
          /\ queue' = AfterResponse(rest, m, "PONG", p)
          /\ replied' = RepliedTo(m)
          /\ UNCHANGED <<registered, poisoned, outcome, pc>>
       \/ /\ m.message_id # "PING"
          /\ EndTxn(p, "API_UNKNOWN_RESPONSE", IW_UNDEFINED, rest)
          /\ UNCHANGED replied
    /\ UNCHANGED <<nextUid, nextTxnId, txnHandle, txnId, call, held, shutAll>>

(* WaitForTxnResponse, index 1: whatever is on the transaction handle is   *)
(* the response.                                                           *)
ReceiveResponse(p) ==
    /\ pc[p] = "waiting"
    /\ queue[p] = <<>>
    /\ queue[txnHandle[p]] # <<>>
    /\ EndTxn(p, "API_SUCCESS",
              Head(queue[txnHandle[p]]).transaction_id, queue)
    /\ UNCHANGED <<nextUid, nextTxnId, txnHandle, txnId, call, held, replied, shutAll>>

(* WaitForTxnResponse: priSelect prefers a ready channel over the timer.   *)
Timeout(p) ==
    /\ pc[p] = "waiting"
    /\ queue[p] = <<>>
    /\ queue[txnHandle[p]] = <<>>
    /\ EndTxn(p, "API_TIMEOUT", IW_UNDEFINED, queue)
    /\ UNCHANGED <<nextUid, nextTxnId, txnHandle, txnId, call, held, replied, shutAll>>

-----------------------------------------------------------------------------
(* The message loop of a server process: a ping is answered by             *)
(* HandleOOBMessage, a shutdown request is acknowledged and ends the loop, *)
(* a request is kept until the answer is known, an event is consumed.      *)
GetInboundMessage(p) ==
    LET m == Head(queue[p])
        rest == [queue EXCEPT ![p] = Tail(@)]
    IN
    /\ pc[p] = "idle"
    /\ queue[p] # <<>>
    /\ \/ /\ m.message_id \in {"PING", "SHUTDOWN_REQ"}
          /\ Routable(m.source)
          /\ queue' = AfterResponse(rest, m, ResponseTo(m), p)
          /\ replied' = RepliedTo(m)
          /\ pc' = [pc EXCEPT ![p] = IF m.message_id = "PING" THEN @ ELSE "stopping"]
          /\ UNCHANGED held
       \/ /\ m.message_id = "REQ"
          /\ queue' = rest
          /\ held' = [held EXCEPT ![p] = @ \cup {m}]
          /\ UNCHANGED <<pc, replied>>
       \/ /\ m.message_id \notin RequestIds
          /\ queue' = rest
          /\ UNCHANGED <<pc, held, replied>>
    /\ UNCHANGED <<registered, poisoned, nextUid, nextTxnId, txnHandle, txnId,
                   call, outcome, shutAll>>

(* SendResponse to a held request: at any later time, in any order; a      *)
(* handler that keeps the request may answer it again.                     *)
SendResponse(p, m, keep) ==
    /\ pc[p] = "idle"
    /\ m \in held[p]
    /\ Routable(m.source)
    /\ queue' = AfterResponse(queue, m, ResponseTo(m), p)
    /\ replied' = RepliedTo(m)
    /\ held' = [held EXCEPT ![p] = IF keep THEN @ ELSE @ \ {m}]
    /\ UNCHANGED <<registered, poisoned, nextUid, nextTxnId, pc, txnHandle,
                   txnId, call, outcome, shutAll>>

(* SendMessage of a one-way event: source is the sender's inbound handle.  *)
SendEvent(p, d) ==
    /\ pc[p] = "idle"
    /\ nextTxnId <= MaxTxnId
    /\ Routable(d)
    /\ queue' = AfterSendMessage(queue, d,
                   [message_id |-> "EVT", source |-> p, transaction_id |-> nextTxnId])
    /\ nextTxnId' = nextTxnId + 1
    /\ UNCHANGED <<registered, poisoned, nextUid, pc, txnHandle, txnId, call,
                   held, outcome, replied, shutAll>>

(* real_run returns or throws. *)
Return(p) ==
    /\ pc[p] = "idle"
    /\ pc' = [pc EXCEPT ![p] = "stopping"]
    /\ UNCHANGED <<registered, queue, poisoned, nextUid, nextTxnId, txnHandle,
                   txnId, call, held, outcome, replied, shutAll>>

(* UnregisterContext, first half: the inbound channel is poisoned and its  *)
(* messages are dropped, then the process yields.                          *)
Poison(p) ==
    /\ pc[p] = "stopping"
    /\ poisoned' = poisoned \cup {p}
    /\ queue' = [queue EXCEPT ![p] = <<>>]
    /\ held' = [held EXCEPT ![p] = {}]
    /\ pc' = [pc EXCEPT ![p] = "poisoned"]
    /\ UNCHANGED <<registered, nextUid, nextTxnId, txnHandle, txnId, call,
                   outcome, replied, shutAll>>

(* UnregisterContext, second half. *)
UnregisterContext(p) ==
    /\ pc[p] = "poisoned"
    /\ registered' = registered \ {p}
    /\ pc' = [pc EXCEPT ![p] = "dead"]
    /\ UNCHANGED <<queue, poisoned, nextUid, nextTxnId, txnHandle, txnId, call,
                   held, outcome, replied, shutAll>>

(* UnReliableShutdownAll: a shutdown request to every registered handle,   *)
(* the handles of running transactions included, by a process of its own   *)
(* that holds the lock of the handle map and reads no answer; its source   *)
(* and its transaction id are nobody's.  The callers run it once, at the   *)
(* very end.                                                               *)
ShutdownAllReq == [message_id |-> "SHUTDOWN_REQ", source |-> IW_UNDEFINED,
                   transaction_id |-> IW_UNDEFINED]
UnReliableShutdownAll ==
    /\ ~shutAll
    /\ \A h \in registered : CanSend(h)
    /\ queue' = [h \in Uid |-> IF h \in registered
                               THEN AfterSend(queue, h, ShutdownAllReq)[h]
                               ELSE queue[h]]
    /\ shutAll' = TRUE
    /\ UNCHANGED <<registered, poisoned, nextUid, nextTxnId, pc, txnHandle,
                   txnId, call, held, outcome, replied>>

-----------------------------------------------------------------------------
WaitStep(p) == ReceiveOOB(p) \/ ReceiveResponse(p) \/ Timeout(p)

Next ==
    \/ UnReliableShutdownAll
    \/ \E p \in Proc :
        \/ RegisterContext(p)
        \/ \E c \in Call : BeginTxn(p, c)
        \/ SendRequest(p)
        \/ ReceiveOOB(p)
        \/ ReceiveResponse(p)
        \/ Timeout(p)
        \/ GetInboundMessage(p)
        \/ \E m \in held[p], keep \in BOOLEAN : SendResponse(p, m, keep)
        \/ \E d \in Proc : SendEvent(p, d)
        \/ Return(p)
        \/ Poison(p)
        \/ UnregisterContext(p)

\* The fiber scheduler eventually runs a fiber that can run, and a timer
\* that was armed expires; a process need not ever issue a request.
Fairness == \A p \in Proc : WF_vars(SendRequest(p)) /\ WF_vars(WaitStep(p))

Spec == Init /\ [][Next]_vars
FairSpec == Spec /\ Fairness

-----------------------------------------------------------------------------
\* Every variable stays in its domain.
TypeOK ==
    /\ registered \subseteq Uid
    /\ queue \in [Uid -> Seq(IwMessage)]
    /\ poisoned \subseteq Uid
    /\ nextUid \in 1..(MaxUid + 1)
    /\ nextTxnId \in 1..(MaxTxnId + 1)
    /\ pc \in [Proc -> States]
    /\ txnHandle \in [Proc -> Uid \cup {IW_UNDEFINED}]
    /\ txnId \in [Proc -> TxnId \cup {IW_UNDEFINED}]
    /\ call \in [Proc -> Call]
    /\ held \in [Proc -> SUBSET IwMessage]
    /\ outcome \in [TxnId -> Outcome]
    /\ replied \subseteq TxnId
    /\ shutAll \in BOOLEAN

\* WaitForTxnResponse hands its caller the first message on the transaction
\* handle without looking at its transaction id.  It is nevertheless always
\* the answer to the caller's own request: a late or repeated response to an
\* earlier transaction never ends a later one.  The one exception is the
\* system's end, when the request of UnReliableShutdownAll is taken for it.
ResponseMatchesRequest ==
    \A t \in TxnId : outcome[t].code = "API_SUCCESS" =>
        \/ outcome[t].response = t /\ t \in replied
        \/ outcome[t].response = IW_UNDEFINED /\ shutAll

\* RegistrationGuard: the handle map holds exactly the inbound handles of the
\* processes that run and the handles of the transactions that run, whatever
\* way a transaction ended.
RegistrationsMatch ==
    registered = {p \in Proc : pc[p] \notin {"created", "dead"}}
                 \cup {txnHandle[p] : p \in {q \in Proc : InTxn(q)}}

\* UnregisterContext poisons before it unregisters, and a transaction's
\* handle goes away with it: no message is ever stored where nobody will
\* read it, neither on the channel of a stopped process nor on the handle
\* of a transaction that has returned.
NothingForTheDead ==
    \A h \in Uid : queue[h] # <<>> =>
        \/ h \in Proc /\ pc[h] \notin {"poisoned", "dead"}
        \/ \E p \in Proc : InTxn(p) /\ txnHandle[p] = h

\* The messaging core implements the abstract transaction service: a
\* transaction opens and closes once, and succeeds only on a reply to itself
\* or when everything is torn down.
Service == INSTANCE TxnService WITH
               status <- [t \in TxnId |-> outcome[t].code],
               down <- shutAll
ImplementsTxnService == Service!SafeSpec

\* The same with the service's liveness: no transaction stays open forever.
ImplementsFairTxnService == Service!Spec

-----------------------------------------------------------------------------
(* The inductive invariant behind ResponseMatchesRequest, in named parts.  *)

Elems(s) == {s[i] : i \in 1..Len(s)}

\* Numbers not handed out yet are not in use.
Freshness ==
    /\ NumProcs < nextUid
    /\ registered \cup poisoned \subseteq 1..(nextUid - 1)
    /\ \A p \in Proc : txnHandle[p] < nextUid /\ txnId[p] < nextTxnId
    /\ \A t \in TxnId : t >= nextTxnId => outcome[t].code = "none"

\* A running transaction has a handle and a transaction id of its own, both open.
OwnTxn(p) ==
    InTxn(p) =>
        /\ txnHandle[p] > NumProcs
        /\ txnHandle[p] \notin poisoned
        /\ txnId[p] \in TxnId
        /\ outcome[txnId[p]].code = "open"
        /\ \A q \in Proc : InTxn(q) /\ q # p =>
               txnHandle[q] # txnHandle[p] /\ txnId[q] # txnId[p]

\* A message that names a running transaction as its source was sent by it.
Genuine(m) ==
    /\ m.source < nextUid
    /\ \A p \in Proc : InTxn(p) /\ txnHandle[p] = m.source =>
           pc[p] = "waiting" /\ m.transaction_id = txnId[p]

InFlight == \A p \in Proc : \A m \in held[p] \cup Elems(queue[p]) : Genuine(m)

\* What waits on a transaction's handle is a reply to that transaction or
\* the shutdown request sent to everybody.
Answers ==
    \A p \in Proc : InTxn(p) => \A m \in Elems(queue[txnHandle[p]]) :
        \/ m.transaction_id = txnId[p] /\ txnId[p] \in replied
        \/ m.transaction_id = IW_UNDEFINED /\ shutAll

\* A stopped process is poisoned, a live one is not.
PoisonedProcs ==
    \A p \in Proc : p \in poisoned <=> pc[p] \in {"poisoned", "dead"}

IndInv ==
    /\ TypeOK
    /\ Freshness
    /\ \A p \in Proc : OwnTxn(p)
    /\ InFlight
    /\ Answers
    /\ PoisonedProcs
    /\ RegistrationsMatch
    /\ NothingForTheDead
    /\ ResponseMatchesRequest
=============================================================================

------------------------------ MODULE RtpProxy ------------------------------
(***************************************************************************)
(* RtpProxySession of iw_telephony against ProcLive555RtpProxy: a pool of  *)
(* RTP connections that sessions allocate, bridge to one another and give  *)
(* back.                                                                   *)
(*                                                                         *)
(* The proxy is one thread that handles one message at a time, so a        *)
(* handler is one step.  The sessions of a script share its thread: one of *)
(* them at a time waits for a response.  Transactions behave as            *)
(* LpMessaging shows: a response reaches its own request or nobody.        *)
(*                                                                         *)
(* SDP and codecs are abstracted to the decisions they lead to; RTCP       *)
(* instances and DTMF handlers, on which no decision depends, are left     *)
(* out.  Sources and sinks are live555 objects: a sink keeps a pointer to  *)
(* the source it plays from, and a source has at most one reader at a time.*)
(***************************************************************************)
EXTENDS Integers, Sequences, FiniteSets

CONSTANTS
    NumConns,   \* rtp_proxy_num_of_connections
    Script,     \* the scripts
    Slot,       \* each script has a session per slot
    MaxTxn,     \* bound: requests a script makes
    MaxFaults   \* bound: timeouts and offers without codecs

ASSUME SizesAssumption == NumConns \in Nat /\ MaxTxn \in Nat /\ MaxFaults \in Nat

VARIABLES
    conn,       \* _connectionsMap, in the order of the ports
    handle,     \* _handle of every session
    op,         \* the transaction a script waits for
    txn,        \* counts the requests of a script
    reply,      \* the response on the transaction's handle
    stray,      \* refusals of one-way requests on a script's inbound handle
    inbound,    \* inbound handle of the proxy
    up,         \* the event loop runs
    faults,     \* counts timeouts and offers without codecs
    leaked,     \* history: connections allocated for nobody
    bridged     \* history: connections that were ever bridged

vars == <<conn, handle, op, txn, reply, stray, inbound, up, faults, leaked, bridged>>

Conn == 1..NumConns
Session == Script \X Slot
IW_UNDEFINED == 0
NULL == 0           \* no connection
DUMMY == -1         \* the RtpConnection made up to hold a MockRtpSink

(* CONNECTION_STATE as the set of its bits. *)
AVAILABLE == {}
ALLOCATED == {"allocated"}
INPUT == {"allocated", "input"}
OUTPUT == {"allocated", "output"}
FULLDUPLEX == INPUT \cup OUTPUT

Init ==
    /\ conn = [c \in Conn |->
                 [state |-> AVAILABLE, source |-> FALSE, sink |-> FALSE,
                  destination_conn |-> NULL,
                  fSource |-> NULL,     \* the connection whose source the sink plays from
                  reads |-> FALSE,      \* the sink is reading or about to read it
                  mocks |-> 0]]         \* MockRtpSinks that read the source
    /\ handle = [s \in Session |-> IW_UNDEFINED]
    /\ op = [p \in Script |-> "none"]
    /\ txn = [p \in Script |-> 0]
    /\ reply = [p \in Script |-> <<>>]
    /\ stray = [p \in Script |-> 0]
    /\ inbound = <<>>
    /\ up = TRUE
    /\ faults = 0
    /\ leaked = {}
    /\ bridged = {}

-----------------------------------------------------------------------------
(* live555.  stopGettingFrames ends what its readers wait for; a sink that *)
(* sleeps between two frames is not stopped by it (asleep).                *)
StopGettingFrames(cs, a, asleep) ==
    [c \in Conn |-> [cs[c] EXCEPT
        !.reads = @ /\ (cs[c].fSource # a \/ asleep),
        !.mocks = IF c = a THEN 0 ELSE @]]

StopPlaying(cs, b, asleep) ==
    LET stopped == IF cs[b].fSource = NULL THEN cs
                   ELSE StopGettingFrames(cs, cs[b].fSource, asleep)
    IN  [stopped EXCEPT ![b].fSource = NULL, ![b].reads = FALSE]

\* Medium::close of a sink stops it first; sinks hear nothing of a closed source.
CloseSink(cs, b, asleep) == [StopPlaying(cs, b, asleep) EXCEPT ![b].sink = FALSE]
CloseSource(cs, a) == [cs EXCEPT ![a].source = FALSE, ![a].mocks = 0]

Readers(cs, a) ==
    cs[a].mocks + Cardinality({c \in Conn : cs[c].fSource = a /\ cs[c].reads})

-----------------------------------------------------------------------------
(* Mutants: plausible bugs, used only to show that the properties notice.  *)

\* The masks of DoUnbridge with ~ for !: they clear the allocated bit too.
DoUnbridgeMasked(cs, src, dst, asleep) ==
    LET first == IF src \in Conn /\ cs[src].source
                 THEN [StopGettingFrames(cs, src, asleep) EXCEPT
                         ![src].state = @ \ INPUT, ![src].destination_conn = NULL]
                 ELSE cs
    IN  IF dst \in Conn /\ first[dst].sink
        THEN [StopPlaying(first, dst, asleep) EXCEPT ![dst].state = @ \ OUTPUT]
        ELSE first

\* The handle is forgotten and nobody is told.
TearDownSilent(s) ==
    /\ op[s[1]] = "none"
    /\ handle[s] # IW_UNDEFINED
    /\ handle' = [handle EXCEPT ![s] = IW_UNDEFINED]
    /\ UNCHANGED <<conn, op, txn, reply, stray, inbound, up, faults, leaked, bridged>>

\* A connection without a peer counts as available.
CandidateWithoutPeer(c) ==
    /\ conn[c].destination_conn \notin Conn
    /\ \A d \in 1..(c - 1) : conn[d].destination_conn \in Conn

-----------------------------------------------------------------------------
(* DoUnbridge.  In "state & (!CONNECTION_STATE_INPUT)" the ! is logical:   *)
(* it is 0, and so the whole state is.                                     *)
DoUnbridge(cs, src, dst, asleep) ==
    LET first == IF src \in Conn /\ cs[src].source
                 THEN [StopGettingFrames(cs, src, asleep) EXCEPT
                         ![src].state = AVAILABLE, ![src].destination_conn = NULL]
                 ELSE cs
    IN  IF dst \in Conn /\ first[dst].sink
        THEN [StopPlaying(first, dst, asleep) EXCEPT ![dst].state = AVAILABLE]
        ELSE first

Unbridge(cs, c, asleep) ==
    LET dest == cs[c].destination_conn
        forward == DoUnbridge(cs, c, dest, asleep)
    IN  CASE cs[c].state = INPUT -> forward
          [] cs[c].state = OUTPUT -> DoUnbridge(cs, dest, c, asleep)
          [] cs[c].state = FULLDUPLEX ->
                DoUnbridge(forward, forward[c].destination_conn, c, asleep)
          [] OTHER -> cs

(* DoBridge: source and sink are created where they are missing.  A sink   *)
(* that still plays makes startPlaying fail, and both ends are closed.     *)
Playing(cs, b) == b \in Conn /\ cs[b].fSource # NULL

InputTo(cs, a, b) ==
    [cs EXCEPT ![a].source = TRUE, ![a].state = @ \cup INPUT, ![a].destination_conn = b]
Output(cs, b) == [cs EXCEPT ![b].sink = TRUE, ![b].state = @ \cup OUTPUT]

DoBridge(cs, a, b, asleep) ==
    LET marked == InputTo(cs, a, b)
        joined == Output(marked, b)
    IN  IF b = DUMMY THEN [marked EXCEPT ![a].mocks = @ + 1]
        ELSE IF Playing(cs, b)
             THEN [CloseSink(CloseSource(joined, a), b, asleep) EXCEPT
                     ![a].destination_conn = NULL]
             ELSE [joined EXCEPT ![b].fSource = a, ![b].reads = TRUE]

\* A mutant of Bridge: its result is not looked at.
BridgeUnchecked(cs, a, b, duplex, asleep) ==
    LET u1 == Unbridge(cs, a, asleep)
        u2 == IF b \in Conn THEN Unbridge(u1, b, asleep) ELSE u1
        d1 == DoBridge(u2, a, b, asleep)
    IN  [conns |-> IF duplex /\ b \in Conn THEN DoBridge(d1, b, a, asleep) ELSE d1,
         ok |-> TRUE]

\* Bridge: its result and whether it succeeded.
Bridge(cs, a, b, duplex, asleep) ==
    LET u1 == Unbridge(cs, a, asleep)
        u2 == IF b \in Conn THEN Unbridge(u1, b, asleep) ELSE u1
        d1 == DoBridge(u2, a, b, asleep)
        d2 == DoBridge(d1, b, a, asleep)
    IN  IF Playing(u2, b) THEN [conns |-> d1, ok |-> FALSE]
        ELSE IF ~(duplex /\ b \in Conn) THEN [conns |-> d1, ok |-> TRUE]
        ELSE IF Playing(d1, a) THEN [conns |-> Unbridge(d2, a, asleep), ok |-> FALSE]
        ELSE [conns |-> d2, ok |-> TRUE]

-----------------------------------------------------------------------------
(* The session side. *)

Msg == Head(inbound)
ToProxy(m) == inbound' = IF up THEN Append(inbound, m) ELSE inbound

Ask(p, o, m) ==
    /\ op[p] = "none"
    /\ txn[p] < MaxTxn
    /\ txn' = [txn EXCEPT ![p] = @ + 1]
    /\ op' = [op EXCEPT ![p] = o]
    /\ ToProxy(m)
    /\ UNCHANGED <<conn, handle, reply, stray, up, faults, leaked, bridged>>

Request(kind, s, c, dest, duplex) ==
    [kind |-> kind, session |-> s, txn |-> txn[s[1]] + 1, handle |-> c,
     output_conn |-> dest, full_duplex |-> duplex]

Allocate(s) ==
    /\ handle[s] = IW_UNDEFINED
    /\ Ask(s[1], "Allocate", Request("ALLOCATE_REQ", s, IW_UNDEFINED, IW_UNDEFINED, FALSE))

Modify(s) ==
    /\ handle[s] # IW_UNDEFINED
    /\ Ask(s[1], "Modify", Request("MODIFY_REQ", s, handle[s], IW_UNDEFINED, FALSE))

\* The other session may have no connection: its handle is sent all the same.
BridgeSessions(s, d, duplex) ==
    /\ handle[s] # IW_UNDEFINED
    /\ Ask(s[1], "Bridge", Request("BRIDGE_REQ", s, handle[s], handle[d], duplex))

\* The transaction ends with the proxy's answer; an Allocate keeps the handle.
Answered(p) ==
    /\ op[p] # "none"
    /\ stray[p] = 0
    /\ reply[p] # <<>>
    /\ handle' = IF op[p] = "Allocate" /\ reply[p][1].ack
                 THEN [handle EXCEPT ![reply[p][1].session] = reply[p][1].handle] ELSE handle
    /\ op' = [op EXCEPT ![p] = "none"]
    /\ reply' = [reply EXCEPT ![p] = <<>>]
    /\ UNCHANGED <<conn, txn, stray, inbound, up, faults, leaked, bridged>>

\* The timer expires; a proxy that has ended is not even found.
TimedOut(p) ==
    /\ op[p] # "none"
    /\ reply[p] = <<>>
    /\ stray[p] = 0
    /\ up => faults < MaxFaults
    /\ faults' = IF up THEN faults + 1 ELSE faults
    /\ op' = [op EXCEPT ![p] = "none"]
    /\ UNCHANGED <<conn, handle, txn, reply, stray, inbound, up, leaked, bridged>>

\* The own inbound handle comes first: what is on it ends the transaction
\* (API_UNKNOWN_RESPONSE), and a response that has arrived goes unread.
Disturbed(p) ==
    /\ op[p] # "none"
    /\ stray[p] > 0
    /\ stray' = [stray EXCEPT ![p] = @ - 1]
    /\ leaked' = IF op[p] = "Allocate" /\ reply[p] # <<>> /\ reply[p][1].ack
                 THEN leaked \cup {reply[p][1].handle} ELSE leaked
    /\ op' = [op EXCEPT ![p] = "none"]
    /\ reply' = [reply EXCEPT ![p] = <<>>]
    /\ UNCHANGED <<conn, handle, txn, inbound, up, faults, bridged>>

\* TearDown, also from the destructor: the request is not a transaction.
TearDown(s) ==
    /\ op[s[1]] = "none"
    /\ handle[s] # IW_UNDEFINED
    /\ handle' = [handle EXCEPT ![s] = IW_UNDEFINED]
    /\ ToProxy(Request("DEALLOCATE_REQ", s, handle[s], IW_UNDEFINED, FALSE))
    /\ UNCHANGED <<conn, op, txn, reply, stray, up, faults, leaked, bridged>>

-----------------------------------------------------------------------------
(* ProcLive555RtpProxy: one message at a time. *)

\* SendResponse: nobody listens any more once the transaction has timed out.
Awaited(m) == op[m.session[1]] # "none" /\ txn[m.session[1]] = m.txn
SendResponse(m, ack, c) ==
    /\ reply' = IF Awaited(m)
                THEN [reply EXCEPT ![m.session[1]] =
                        <<[ack |-> ack, session |-> m.session, handle |-> c]>>]
                ELSE reply
    /\ UNCHANGED stray

Received(kind) ==
    /\ up
    /\ inbound # <<>>
    /\ Msg.kind = kind
    /\ inbound' = Tail(inbound)
    /\ UNCHANGED <<handle, op, txn, up>>

\* The first connection of the map that is available.
Candidate(c) ==
    /\ conn[c].state = AVAILABLE
    /\ \A d \in 1..(c - 1) : conn[d].state # AVAILABLE

AllocateRefused ==
    /\ SendResponse(Msg, FALSE, IW_UNDEFINED)
    /\ UNCHANGED <<conn, faults, leaked, bridged>>

\* An offer without codecs is refused after the connection was taken.
AllocateWithoutCodecs(c) ==
    /\ faults < MaxFaults
    /\ faults' = faults + 1
    /\ conn' = [conn EXCEPT ![c].state = ALLOCATED]
    /\ leaked' = leaked \cup {c}
    /\ SendResponse(Msg, FALSE, IW_UNDEFINED)
    /\ UNCHANGED bridged

AllocateTaken(c, asleep) ==
    /\ conn' = Bridge([conn EXCEPT ![c].state = ALLOCATED], c, DUMMY, FALSE, asleep).conns
    /\ leaked' = IF Awaited(Msg) THEN leaked ELSE leaked \cup {c}
    /\ SendResponse(Msg, TRUE, c)
    /\ UNCHANGED <<faults, bridged>>

UponAllocateReq ==
    /\ Received("ALLOCATE_REQ")
    /\ \/ AllocateRefused
       \/ \E c \in Conn :
            /\ Candidate(c)
            /\ \/ AllocateWithoutCodecs(c)
               \/ \E asleep \in BOOLEAN : AllocateTaken(c, asleep)

\* A connection that is available is refused, and nothing of it is closed; the
\* refusal goes to the inbound handle of the script.
UponDeallocateReq ==
    LET c == Msg.handle
    IN
    /\ Received("DEALLOCATE_REQ")
    /\ IF conn[c].state = AVAILABLE
       THEN /\ stray' = [stray EXCEPT ![Msg.session[1]] = @ + 1]
            /\ UNCHANGED <<conn, leaked>>
       ELSE \E asleep \in BOOLEAN :
              LET free == Unbridge(conn, c, asleep)
                  quiet == IF free[c].sink THEN CloseSink(free, c, asleep) ELSE free
              IN  /\ conn' = [CloseSource(quiet, c) EXCEPT ![c].state = AVAILABLE]
                  /\ leaked' = leaked \ {c}
                  /\ UNCHANGED stray
    /\ UNCHANGED <<reply, faults, bridged>>

\* Only the remote address and the codec change.
UponModifyReq ==
    /\ Received("MODIFY_REQ")
    /\ SendResponse(Msg, TRUE, IW_UNDEFINED)
    /\ UNCHANGED <<conn, faults, leaked, bridged>>

\* Refused if the other connection is not found or codecs differ.
UponBridgeReq ==
    LET a == Msg.handle
        b == Msg.output_conn
    IN
    /\ Received("BRIDGE_REQ")
    /\ \/ /\ SendResponse(Msg, FALSE, IW_UNDEFINED)
          /\ UNCHANGED <<conn, bridged>>
       \/ /\ b # IW_UNDEFINED
          /\ \E asleep \in BOOLEAN :
               LET res == Bridge(conn, a, b, Msg.full_duplex, asleep)
               IN  /\ conn' = res.conns
                   /\ SendResponse(Msg, res.ok, IW_UNDEFINED)
          /\ bridged' = bridged \cup {a, b}
    /\ UNCHANGED <<faults, leaked>>

(* The end of real_run: every connection is unbridged and what is left on  *)
(* the inbound handle is never read.                                       *)
UnbridgeAll(asleep) ==
    LET after[n \in 0..NumConns] ==
            IF n = 0 THEN conn ELSE Unbridge(after[n - 1], n, asleep)
    IN  after[NumConns]

Shutdown ==
    /\ up
    /\ up' = FALSE
    /\ inbound' = <<>>
    /\ \E asleep \in BOOLEAN : conn' = UnbridgeAll(asleep)
    /\ UNCHANGED <<handle, op, txn, reply, stray, faults, leaked, bridged>>

Next ==
    \/ \E s \in Session :
        \/ Allocate(s) \/ Modify(s) \/ TearDown(s)
        \/ \E d \in Session, duplex \in BOOLEAN : d[1] = s[1] /\ BridgeSessions(s, d, duplex)
    \/ \E p \in Script : Answered(p) \/ TimedOut(p) \/ Disturbed(p)
    \/ UponAllocateReq \/ UponDeallocateReq \/ UponModifyReq \/ UponBridgeReq
    \/ Shutdown

Spec == Init /\ [][Next]_vars

-----------------------------------------------------------------------------
\* Every variable stays in its domain.
TypeOK ==
    /\ conn \in [Conn -> [state : {AVAILABLE, ALLOCATED, INPUT, OUTPUT, FULLDUPLEX},
                          source : BOOLEAN, sink : BOOLEAN,
                          destination_conn : Conn \cup {NULL, DUMMY},
                          fSource : Conn \cup {NULL}, reads : BOOLEAN, mocks : Nat]]
    /\ handle \in [Session -> Conn \cup {IW_UNDEFINED}]
    /\ op \in [Script -> {"none", "Allocate", "Modify", "Bridge"}]
    /\ txn \in [Script -> 0..MaxTxn]
    /\ reply \in [Script -> Seq([ack : BOOLEAN, session : Session,
                                 handle : Conn \cup {IW_UNDEFINED}])]
    /\ stray \in [Script -> Nat]
    /\ inbound \in Seq([kind : {"ALLOCATE_REQ", "MODIFY_REQ", "BRIDGE_REQ", "DEALLOCATE_REQ"},
                        session : Session, txn : 1..(MaxTxn + 1),
                        handle : Conn \cup {IW_UNDEFINED},
                        output_conn : Conn \cup {IW_UNDEFINED}, full_duplex : BOOLEAN])
    /\ up \in BOOLEAN
    /\ faults \in 0..MaxFaults
    /\ leaked \subseteq Conn
    /\ bridged \subseteq Conn

\* What live555 insists on ("Make sure we're not already being read"): no
\* source is read by two sinks at a time, whatever was bridged before.
OneReader == \A a \in Conn : Readers(conn, a) <= 1

Holders(c) == {s \in Session : handle[s] = c}
OnTheWay(c) ==
    \/ \E i \in 1..Len(inbound) : inbound[i].kind = "DEALLOCATE_REQ" /\ inbound[i].handle = c
    \/ \E p \in Script : reply[p] # <<>> /\ reply[p][1].handle = c

\* No connection is lost to the pool: one that is not available belongs to a
\* session, is on its way to one or back, or was taken by an Allocate that timed
\* out or offered no codec.  Stale peers, doubled owners and requests that are
\* handled after their transaction has timed out do not change that.
NoLeak ==
    \A c \in Conn : up /\ conn[c].state # AVAILABLE =>
        Holders(c) # {} \/ OnTheWay(c) \/ c \in leaked

\* A connection that was never part of a bridge has at most one owner.  (The
\* wrong state that DoUnbridge leaves can make others the property of two.)
ExclusiveUntilBridged ==
    \A c \in Conn \ bridged : Cardinality(Holders(c)) <= 1

\* A Bridge that is acknowledged carries media: the destination's sink reads the
\* source, and the other way round for a full duplex.
AcknowledgedBridgePlays ==
    [][\A p \in Script :
        (inbound # <<>> /\ reply'[p] # reply[p] /\ reply'[p] # <<>>
         /\ Msg.kind = "BRIDGE_REQ" /\ reply'[p][1].ack)
        => LET a == Msg.handle
               b == Msg.output_conn
           IN  /\ conn'[b].fSource = a /\ conn'[b].reads /\ conn'[a].source
               /\ Msg.full_duplex => conn'[a].fSource = b /\ conn'[a].reads /\ conn'[b].source]_vars
=============================================================================

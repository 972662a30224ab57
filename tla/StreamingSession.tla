-------------------------- MODULE StreamingSession --------------------------
(***************************************************************************)
(* StreamingSession of iw_telephony against ProcM2Ims of iw_m2ims: a       *)
(* script allocates a stream, gives it a remote end, plays files on it,    *)
(* waits for their end or not, and tears it down.                          *)
(*                                                                         *)
(* Three threads take part.  A session's owner and its listener are fibers *)
(* of one; ProcM2Ims serves the completion port iocp, in which requests of *)
(* the sessions and ends of files stand in the order of their arrival; the *)
(* ticker of mediastreamer plays the files and posts their ends.           *)
(* Transactions behave as LpMessaging shows: a response reaches its own    *)
(* request or nobody.  mediastreamer is modelled from how ProcM2Ims uses   *)
(* it: a file player that is attached to the ticker reports EOF once, or   *)
(* again and again if it loops.                                            *)
(***************************************************************************)
EXTENDS Integers, Sequences, FiniteSets

CONSTANTS
    Session,                \* the streaming sessions of the scripts
    MAX_MESSAGES_IN_QUEUE,  \* capacity of _playStoppedHandle (1000)
    MaxHandles,             \* bound: Allocate requests that are served
    MaxTxn,                 \* bound: requests of one session
    MaxEof,                 \* bound: EOFs of one stream that are under way
    MaxHangups              \* bound: InterruptWithHangup of one session

ASSUME BoundsAssumption ==
    /\ MAX_MESSAGES_IN_QUEUE \in Nat \ {0}
    /\ MaxHandles \in Nat /\ MaxTxn \in Nat
    /\ MaxEof \in Nat \ {0} /\ MaxHangups \in Nat

VARIABLES
    op,             \* what the owner of the session does
    sessionHandle,  \* _streamingSessionHandle
    state,          \* _state
    sync,           \* the sync argument of the PlayFile under way
    correlation,    \* ack->correlation_id of the PlayFile that waits for the end
    txn,            \* counts the session's requests
    response,       \* what is in the txn_handle of its transaction
    listener,       \* the ProcEventListener of the session
    inbound,        \* the events on the listener's inbound handle
    playStopped,    \* _playStoppedHandle
    hangup,         \* messages in _hangupHandle
    hangups,        \* counts InterruptWithHangup
    iocp,           \* the completion port of ProcM2Ims
    streams,        \* _streamingObjectSet
    handleCounter,  \* handle_counter of GetNewImsHandle
    correlationCounter, \* _correlationCounter
    streamerUp,     \* ProcM2Ims::real_run is in its loop
    leaked,         \* history: streams whose Allocate nobody waited for any more
    ended,          \* history: plays whose file came to its end
    overtaken,      \* history: plays that began with an older EOF still in iocp
    acked           \* history: how many plays of the session were acknowledged

ownerVars == <<op, sessionHandle, state, sync, correlation, txn>>
listenVars == <<listener, inbound, playStopped>>
hangupVars == <<hangup, hangups>>
streamerVars == <<streams, handleCounter, correlationCounter, streamerUp>>
historyVars == <<leaked, ended, overtaken, acked>>
vars == <<ownerVars, response, listenVars, hangupVars, iocp, streamerVars, historyVars>>

IW_UNDEFINED == 0
Handle == 1..MaxHandles
Play == Nat \ {0}        \* the correlation ids; MaxTxn bounds how many there are
TxnOp == {"Allocate", "Modify", "Play"}
Op == TxnOp \cup {"idle", "WaitStopped", "joining", "deleted"}
Stream == [session : Session, pt : BOOLEAN, soundread : BOOLEAN,
           state : {"ALLOCATED", "TICKING", "STOPPED"}, playing : BOOLEAN,
           loop : BOOLEAN, correlation : Play \cup {IW_UNDEFINED}]
Request == {"ALLOCATE_SESSION_REQ", "MODIFY_REQ", "PLAY_REQUEST", "STOP_PLAY_REQ",
            "TEARDOWN_REQ"}
Message == [kind : Request, session : Session, txn : 1..(MaxTxn + 1),
            handle : Handle \cup {IW_UNDEFINED}, flag : BOOLEAN]
           \cup [kind : {"EOF"}, handle : Handle]
Response == [ack : BOOLEAN, value : Handle \cup Play \cup {IW_UNDEFINED}]

Plus(f, h, r) == [x \in DOMAIN f \cup {h} |-> IF x = h THEN r ELSE f[x]]
Without(f, h) == [x \in DOMAIN f \ {h} |-> f[x]]

Init ==
    /\ op = [s \in Session |-> "idle"]
    /\ sessionHandle = [s \in Session |-> IW_UNDEFINED]
    /\ state = [s \in Session |-> "NOT_PLAYING"]
    /\ sync = [s \in Session |-> FALSE]
    /\ correlation = [s \in Session |-> IW_UNDEFINED]
    /\ txn = [s \in Session |-> 0]
    /\ response = [s \in Session |-> <<>>]
    /\ listener = [s \in Session |-> "none"]
    /\ inbound = [s \in Session |-> <<>>]
    /\ playStopped = [s \in Session |-> <<>>]
    /\ hangup = [s \in Session |-> 0]
    /\ hangups = [s \in Session |-> 0]
    /\ iocp = <<>>
    /\ streams = <<>>
    /\ handleCounter = 0
    /\ correlationCounter = 0
    /\ streamerUp = TRUE
    /\ leaked = {} /\ ended = {} /\ overtaken = {}
    /\ acked = [s \in Session |-> 0]

-----------------------------------------------------------------------------
(* Messages.  flag is the empty offer of an Allocate, the loop of a Play.  *)

Req(s, kind, flag) ==
    [kind |-> kind, session |-> s, txn |-> txn[s] + 1, handle |-> sessionHandle[s], flag |-> flag]

\* A streamer that has left its loop is no longer registered.
ToStreamer(m) == iocp' = IF streamerUp THEN Append(iocp, m) ELSE iocp

\* DoRequestResponseTransaction up to its wait, or to the failure to send.
Ask(s, o, kind, flag) ==
    /\ txn[s] < MaxTxn
    /\ txn' = [txn EXCEPT ![s] = @ + 1]
    /\ op' = [op EXCEPT ![s] = IF streamerUp THEN o ELSE "idle"]
    /\ ToStreamer(Req(s, kind, flag))

\* The transaction of s is over, with its response or without.
Received(s, o, ack) ==
    /\ op[s] = o
    /\ response[s] # <<>> /\ Head(response[s]).ack = ack
    /\ response' = [response EXCEPT ![s] = <<>>]

Expired(s, o) ==
    /\ op[s] = o
    /\ response[s] = <<>>
    /\ op' = [op EXCEPT ![s] = "idle"]

\* SendResponse: dropped unless the transaction is still open.
Awaited(m) == op[m.session] \in TxnOp /\ txn[m.session] = m.txn
Respond(m, ack, value) ==
    response' = IF Awaited(m)
                THEN [response EXCEPT ![m.session] = <<[ack |-> ack, value |-> value]>>]
                ELSE response

EofsOf(h) == {i \in 1..Len(iocp) : iocp[i].kind = "EOF" /\ iocp[i].handle = h}

-----------------------------------------------------------------------------
(* Mutants: plausible bugs, used only to show that the properties notice.  *)

\* PlayFile uses the third value of its state.
PlayAckPlaying(s) ==
    /\ Received(s, "Play", TRUE)
    /\ op' = [op EXCEPT ![s] = IF sync[s] THEN "WaitStopped" ELSE "idle"]
    /\ correlation' = [correlation EXCEPT ![s] = IF sync[s] THEN Head(response[s]).value ELSE @]
    /\ state' = [state EXCEPT ![s] = "PLAYING"]
    /\ sync' = [sync EXCEPT ![s] = FALSE]
    /\ UNCHANGED <<sessionHandle, txn, listenVars, hangupVars, iocp, streamerVars, historyVars>>

\* PlayFile leaves _state alone until the end of the file.
PlayFileKeepsState(s) ==
    /\ op[s] = "idle"
    /\ sessionHandle[s] # IW_UNDEFINED
    /\ \E sy, loop \in BOOLEAN :
          /\ ~(sy /\ loop)
          /\ Ask(s, "Play", "PLAY_REQUEST", loop)
          /\ sync' = [sync EXCEPT ![s] = sy /\ streamerUp]
    /\ UNCHANGED <<sessionHandle, state, correlation, response, listenVars, hangupVars,
                   streamerVars, historyVars>>

\* PlayFile takes any end for its own.
AnyStopped(s) == TRUE

\* TearDown forgets the handle before it has put it into the request.
TearDownOfNothing(s) ==
    /\ ToStreamer([Req(s, "TEARDOWN_REQ", FALSE) EXCEPT !.handle = IW_UNDEFINED])
    /\ sessionHandle' = [sessionHandle EXCEPT ![s] = IW_UNDEFINED]
    /\ state' = [state EXCEPT ![s] = "UNKNOWN"]

\* The listener drops what does not fit instead of waiting.
DropWhenFull(s) ==
    /\ listener[s] = "waiting"
    /\ inbound[s] # <<>>
    /\ inbound' = [inbound EXCEPT ![s] = Tail(@)]
    /\ playStopped' = IF Len(playStopped[s]) >= MAX_MESSAGES_IN_QUEUE THEN playStopped
                      ELSE [playStopped EXCEPT ![s] = Append(@, Head(inbound[s]))]
    /\ UNCHANGED <<ownerVars, response, listener, hangupVars, iocp, streamerVars, historyVars>>

\* ModifySession keeps the codec only when everything has succeeded.
ModifyFailsWithoutCodec(h) ==
    \E built \in BOOLEAN : streams' = [streams EXCEPT ![h].soundread = built]

\* EOFs of looped files are reported too.
ReportedLooped(h) == h \in DOMAIN streams

-----------------------------------------------------------------------------
(* The owner: Allocate, ModifyConnection, PlayFile, StopPlay, TearDown and *)
(* the destructor.                                                         *)

\* A session that was torn down and is allocated again starts its listener a
\* second time, which ends the program.
Allocate(s) ==
    /\ op[s] = "idle"
    /\ sessionHandle[s] = IW_UNDEFINED
    /\ listener[s] = "none"
    /\ \E empty \in BOOLEAN : Ask(s, "Allocate", "ALLOCATE_SESSION_REQ", empty)
    /\ UNCHANGED <<sessionHandle, state, sync, correlation, response, listenVars, hangupVars,
                   streamerVars, historyVars>>

AllocateAck(s) ==
    /\ Received(s, "Allocate", TRUE)
    /\ sessionHandle' = [sessionHandle EXCEPT ![s] = Head(response[s]).value]
    /\ listener' = [listener EXCEPT ![s] = "waiting"]
    /\ op' = [op EXCEPT ![s] = "idle"]
    /\ UNCHANGED <<state, sync, correlation, txn, inbound, playStopped, hangupVars, iocp,
                   streamerVars, historyVars>>

ModifyConnection(s) ==
    /\ op[s] = "idle"
    /\ sessionHandle[s] # IW_UNDEFINED
    /\ Ask(s, "Modify", "MODIFY_REQ", FALSE)
    /\ UNCHANGED <<sessionHandle, state, sync, correlation, response, listenVars, hangupVars,
                   streamerVars, historyVars>>

\* A refusal, or the response to Modify: nothing but the result depends on it.
\* PlayFile returns the success of the transaction when it is refused.
Answered(s) ==
    /\ \/ Received(s, "Allocate", FALSE)
       \/ Received(s, "Modify", TRUE)
       \/ Received(s, "Modify", FALSE)
       \/ Received(s, "Play", FALSE)
    /\ op' = [op EXCEPT ![s] = "idle"]
    /\ sync' = [sync EXCEPT ![s] = FALSE]
    /\ UNCHANGED <<sessionHandle, state, correlation, txn, listenVars, hangupVars, iocp,
                   streamerVars, historyVars>>

TimedOut(s) ==
    /\ \E o \in TxnOp : Expired(s, o)
    /\ sync' = [sync EXCEPT ![s] = FALSE]
    /\ UNCHANGED <<sessionHandle, state, correlation, txn, response, listenVars, hangupVars, iocp,
                   streamerVars, historyVars>>

\* A file is not played sync and in a loop.
PlayFile(s) ==
    /\ op[s] = "idle"
    /\ sessionHandle[s] # IW_UNDEFINED
    /\ state' = [state EXCEPT ![s] = "UNKNOWN"]
    /\ \E sy, loop \in BOOLEAN :
          /\ ~(sy /\ loop)
          /\ Ask(s, "Play", "PLAY_REQUEST", loop)
          /\ sync' = [sync EXCEPT ![s] = sy /\ streamerUp]
    /\ UNCHANGED <<sessionHandle, correlation, response, listenVars, hangupVars, streamerVars,
                   historyVars>>

PlayAck(s) ==
    /\ Received(s, "Play", TRUE)
    /\ op' = [op EXCEPT ![s] = IF sync[s] THEN "WaitStopped" ELSE "idle"]
    /\ correlation' = [correlation EXCEPT ![s] = IF sync[s] THEN Head(response[s]).value ELSE @]
    /\ sync' = [sync EXCEPT ![s] = FALSE]
    /\ UNCHANGED <<sessionHandle, state, txn, listenVars, hangupVars, iocp, streamerVars,
                   historyVars>>

\* PlayFile has read a MsgStreamPlayStopped: its own ends the wait, another one
\* is forgotten.
StoppedIsOwn(s) == Head(playStopped[s]) = correlation[s]
PlayStopped(s) ==
    /\ op[s] = "WaitStopped"
    /\ playStopped[s] # <<>>
    /\ playStopped' = [playStopped EXCEPT ![s] = Tail(@)]
    /\ \/ /\ StoppedIsOwn(s)
          /\ op' = [op EXCEPT ![s] = "idle"]
          /\ state' = [state EXCEPT ![s] = "NOT_PLAYING"]
          /\ correlation' = [correlation EXCEPT ![s] = IW_UNDEFINED]
       \/ /\ ~StoppedIsOwn(s)
          /\ UNCHANGED <<op, state, correlation>>
    /\ UNCHANGED <<sessionHandle, sync, txn, response, listener, inbound, hangupVars, iocp,
                   streamerVars, historyVars>>

\* The wait ends with API_HANGUP, or when its hour is over.
PlayGivesUp(s) ==
    /\ op[s] = "WaitStopped"
    /\ op' = [op EXCEPT ![s] = "idle"]
    /\ correlation' = [correlation EXCEPT ![s] = IW_UNDEFINED]
    /\ \/ hangup[s] > 0 /\ hangup' = [hangup EXCEPT ![s] = @ - 1]
       \/ playStopped[s] = <<>> /\ hangup[s] = 0 /\ UNCHANGED hangup
    /\ UNCHANGED <<sessionHandle, state, sync, txn, response, listenVars, hangups, iocp,
                   streamerVars, historyVars>>

\* Called by another fiber of the script's thread.
InterruptWithHangup(s) ==
    /\ op[s] \notin {"joining", "deleted"}
    /\ hangups[s] < MaxHangups
    /\ hangups' = [hangups EXCEPT ![s] = @ + 1]
    /\ hangup' = [hangup EXCEPT ![s] = @ + 1]
    /\ UNCHANGED <<ownerVars, response, listenVars, iocp, streamerVars, historyVars>>

\* Nothing is sent while _state says that nothing is played.
StopPlay(s) ==
    /\ op[s] = "idle"
    /\ sessionHandle[s] # IW_UNDEFINED
    /\ state[s] # "NOT_PLAYING"
    /\ txn[s] < MaxTxn
    /\ txn' = [txn EXCEPT ![s] = @ + 1]
    /\ ToStreamer(Req(s, "STOP_PLAY_REQ", FALSE))
    /\ UNCHANGED <<op, sessionHandle, state, sync, correlation, response, listenVars, hangupVars,
                   streamerVars, historyVars>>

TearDownEffect(s) ==
    IF sessionHandle[s] = IW_UNDEFINED
    THEN UNCHANGED <<iocp, sessionHandle, state>>
    ELSE /\ ToStreamer(Req(s, "TEARDOWN_REQ", FALSE))
         /\ sessionHandle' = [sessionHandle EXCEPT ![s] = IW_UNDEFINED]
         /\ state' = [state EXCEPT ![s] = "UNKNOWN"]

TearDown(s) ==
    /\ op[s] = "idle"
    /\ sessionHandle[s] # IW_UNDEFINED
    /\ TearDownEffect(s)
    /\ UNCHANGED <<op, sync, correlation, txn, response, listenVars, hangupVars, streamerVars,
                   historyVars>>

(* The destructor: StopActiveObjectLwProc waits for the listener, which    *)
(* leaves at its next wait whatever is on its inbound handle, but not out  *)
(* of a Send; then TearDown.                                               *)
Delete(s) ==
    /\ \/ /\ op[s] = "idle" /\ listener[s] = "sending"
          /\ op' = [op EXCEPT ![s] = "joining"]
          /\ UNCHANGED <<sessionHandle, state, iocp, listenVars>>
       \/ /\ op[s] \in {"idle", "joining"} /\ listener[s] # "sending"
          /\ op' = [op EXCEPT ![s] = "deleted"]
          /\ TearDownEffect(s)
          /\ listener' = [listener EXCEPT ![s] = "none"]
          /\ inbound' = [inbound EXCEPT ![s] = <<>>]
          /\ playStopped' = [playStopped EXCEPT ![s] = <<>>]
    /\ UNCHANGED <<sync, correlation, txn, response, hangupVars, streamerVars, historyVars>>

-----------------------------------------------------------------------------
(* The listener: UponActiveObjectEvent sends the event on to               *)
(* _playStoppedHandle, and waits there if the channel is full.             *)

Full(s) == Len(playStopped[s]) >= MAX_MESSAGES_IN_QUEUE

UponActiveObjectEvent(s) ==
    /\ listener[s] = "sending" \/ (listener[s] = "waiting" /\ op[s] # "joining")
    /\ inbound[s] # <<>>
    /\ \/ /\ ~Full(s)
          /\ playStopped' = [playStopped EXCEPT ![s] = Append(@, Head(inbound[s]))]
          /\ inbound' = [inbound EXCEPT ![s] = Tail(@)]
          /\ listener' = [listener EXCEPT ![s] = "waiting"]
       \/ /\ Full(s) /\ listener[s] = "waiting"
          /\ listener' = [listener EXCEPT ![s] = "sending"]
          /\ UNCHANGED <<inbound, playStopped>>
    /\ UNCHANGED <<ownerVars, response, hangupVars, iocp, streamerVars, historyVars>>

-----------------------------------------------------------------------------
(* ProcM2Ims: one handler for each message.                                *)

Serves(kind) ==
    /\ streamerUp
    /\ iocp # <<>>
    /\ Head(iocp).kind = kind
    /\ iocp' = Tail(iocp)

Msg == Head(iocp)
Known == Msg.handle \in DOMAIN streams

\* The ticker: files are played while the filters are attached.
Ticking(h) == streams[h].state = "TICKING" /\ streams[h].playing
StopTicking(r) == [r EXCEPT !.state = IF @ = "TICKING" THEN "STOPPED" ELSE @]

\* AllocatePlaybackSession: with an offer the codec is negotiated and the filters
\* are built; any step of that may fail, and the context is dropped.
AllocatePlaybackSession ==
    /\ Serves("ALLOCATE_SESSION_REQ")
    /\ handleCounter < MaxHandles
    /\ handleCounter' = handleCounter + 1
    /\ \/ /\ Respond(Msg, FALSE, IW_UNDEFINED)
          /\ UNCHANGED <<streams, leaked>>
       \/ /\ Respond(Msg, TRUE, handleCounter')
          /\ streams' = Plus(streams, handleCounter',
                             [session |-> Msg.session, pt |-> ~Msg.flag, soundread |-> ~Msg.flag,
                              state |-> "ALLOCATED", playing |-> FALSE, loop |-> FALSE,
                              correlation |-> IW_UNDEFINED])
          /\ leaked' = IF Awaited(Msg) THEN leaked ELSE leaked \cup {handleCounter'}
    /\ UNCHANGED <<ownerVars, listenVars, hangupVars, correlationCounter, streamerUp,
                   ended, overtaken, acked>>

\* ModifySession of a stream that has no codec yet.  The codec is kept as soon as
\* it is negotiated; RecommutateSession may fail before or after the file player
\* is made.
ModifyFails(h) ==
    \E built \in BOOLEAN :
        streams' = [streams EXCEPT ![h] = [@ EXCEPT !.pt = TRUE, !.soundread = built]]
ModifySession ==
    /\ Serves("MODIFY_REQ")
    /\ \/ Respond(Msg, FALSE, IW_UNDEFINED) /\ UNCHANGED streams
       \/ /\ Known /\ ~streams[Msg.handle].pt
          /\ \/ Respond(Msg, FALSE, IW_UNDEFINED) /\ ModifyFails(Msg.handle)
             \/ /\ Respond(Msg, TRUE, IW_UNDEFINED)
                /\ streams' = [streams EXCEPT ![Msg.handle] =
                                  [@ EXCEPT !.pt = TRUE, !.soundread = TRUE, !.state = "TICKING"]]
    /\ UNCHANGED <<ownerVars, listenVars, hangupVars, handleCounter, correlationCounter,
                   streamerUp, historyVars>>

\* StartPlayback is refused for an unknown stream, before the filters are built,
\* and when a step on the file fails; the ticker is stopped by then.
StartPlaybackRefused ==
    /\ Serves("PLAY_REQUEST")
    /\ Respond(Msg, FALSE, IW_UNDEFINED)
    /\ streams' = IF Known THEN [streams EXCEPT ![Msg.handle] = StopTicking(@)] ELSE streams
    /\ UNCHANGED <<ownerVars, listenVars, hangupVars, handleCounter, correlationCounter,
                   streamerUp, historyVars>>

\* An EOF of the file played before may still be in iocp.
StartPlayback ==
    /\ Serves("PLAY_REQUEST")
    /\ Known /\ streams[Msg.handle].soundread
    /\ correlationCounter' = correlationCounter + 1
    /\ Respond(Msg, TRUE, correlationCounter')
    /\ streams' = [streams EXCEPT ![Msg.handle] =
                      [@ EXCEPT !.state = "TICKING", !.playing = TRUE, !.loop = Msg.flag,
                                !.correlation = correlationCounter']]
    /\ overtaken' = IF EofsOf(Msg.handle) = {} THEN overtaken
                    ELSE overtaken \cup {correlationCounter'}
    /\ acked' = [acked EXCEPT ![Msg.session] = @ + 1]
    /\ UNCHANGED <<ownerVars, listenVars, hangupVars, handleCounter, streamerUp, leaked, ended>>

\* StopPlayback stops the file player; nobody is told.
StopPlayback ==
    /\ Serves("STOP_PLAY_REQ")
    /\ streams' = IF Known THEN [streams EXCEPT ![Msg.handle].playing = FALSE] ELSE streams
    /\ UNCHANGED <<ownerVars, response, listenVars, hangupVars, handleCounter,
                   correlationCounter, streamerUp, historyVars>>

UponTearDown ==
    /\ Serves("TEARDOWN_REQ")
    /\ streams' = Without(streams, Msg.handle)
    /\ UNCHANGED <<ownerVars, response, listenVars, hangupVars, handleCounter,
                   correlationCounter, streamerUp, historyVars>>

\* on_file_filter_event, on the thread of the ticker.
OnFileFilterEvent(h) ==
    /\ streamerUp
    /\ h \in DOMAIN streams /\ Ticking(h)
    /\ Cardinality(EofsOf(h)) < MaxEof
    /\ iocp' = Append(iocp, [kind |-> "EOF", handle |-> h])
    /\ streams' = [streams EXCEPT ![h].playing = streams[h].loop]
    /\ ended' = ended \cup {streams[h].correlation}
    /\ UNCHANGED <<ownerVars, response, listenVars, hangupVars, handleCounter,
                   correlationCounter, streamerUp, leaked, overtaken, acked>>

\* UponPlaybackStopped names the play of this moment; a looped one is not reported.
Reported(h) == h \in DOMAIN streams /\ ~streams[h].loop
UponPlaybackStopped ==
    /\ Serves("EOF")
    /\ LET s == streams[Msg.handle].session
       IN  inbound' = IF Reported(Msg.handle) /\ op[s] # "deleted"
                      THEN [inbound EXCEPT ![s] = Append(@, streams[Msg.handle].correlation)]
                      ELSE inbound
    /\ UNCHANGED <<ownerVars, response, listener, playStopped, hangupVars, streamerVars,
                   historyVars>>

\* A shutdown request: TearDownAllSessions, and no session is told.
Shutdown ==
    /\ streamerUp
    /\ streamerUp' = FALSE
    /\ streams' = <<>>
    /\ iocp' = <<>>
    /\ UNCHANGED <<ownerVars, response, listenVars, hangupVars, handleCounter,
                   correlationCounter, historyVars>>

-----------------------------------------------------------------------------
Streamer ==
    \/ AllocatePlaybackSession \/ ModifySession \/ StartPlaybackRefused \/ StartPlayback
    \/ StopPlayback \/ UponTearDown \/ UponPlaybackStopped

Owner(s) ==
    \/ Allocate(s) \/ AllocateAck(s) \/ ModifyConnection(s) \/ Answered(s) \/ TimedOut(s)
    \/ PlayFile(s) \/ PlayAck(s) \/ PlayStopped(s) \/ PlayGivesUp(s) \/ StopPlay(s)
    \/ TearDown(s) \/ Delete(s)

Next ==
    \/ \E s \in Session : Owner(s) \/ InterruptWithHangup(s) \/ UponActiveObjectEvent(s)
    \/ Streamer \/ Shutdown
    \/ \E h \in Handle : OnFileFilterEvent(h)

Spec == Init /\ [][Next]_vars

\* The streamer serves its port, listeners run, an owner takes what it waits for.
\* Nothing is assumed of scripts, of the length of files and of timers.
Fairness ==
    /\ WF_vars(Streamer)
    /\ \A s \in Session :
          /\ WF_vars(AllocateAck(s) \/ Answered(s) \/ PlayAck(s) \/ PlayStopped(s))
          /\ WF_vars(UponActiveObjectEvent(s))
FairSpec == Spec /\ Fairness

-----------------------------------------------------------------------------
\* Every variable stays in its domain.
TypeOK ==
    /\ op \in [Session -> Op]
    /\ sessionHandle \in [Session -> Handle \cup {IW_UNDEFINED}]
    /\ state \in [Session -> {"NOT_PLAYING", "UNKNOWN"}]
    /\ sync \in [Session -> BOOLEAN]
    /\ correlation \in [Session -> Play \cup {IW_UNDEFINED}]
    /\ txn \in [Session -> 0..MaxTxn]
    /\ response \in [Session -> Seq(Response)]
    /\ \A s \in Session : Len(response[s]) <= 1
    /\ listener \in [Session -> {"none", "waiting", "sending"}]
    /\ inbound \in [Session -> Seq(Play)]
    /\ playStopped \in [Session -> Seq(Play)]
    /\ \A s \in Session : Len(playStopped[s]) <= MAX_MESSAGES_IN_QUEUE
    /\ hangup \in [Session -> 0..MaxHangups]
    /\ hangups \in [Session -> 0..MaxHangups]
    /\ iocp \in Seq(Message)
    /\ DOMAIN streams \subseteq Handle
    /\ streams \in [DOMAIN streams -> Stream]
    /\ handleCounter \in 0..MaxHandles
    /\ correlationCounter \in Play \cup {0}
    /\ streamerUp \in BOOLEAN
    /\ leaked \subseteq Handle /\ ended \subseteq Play /\ overtaken \subseteq Play
    /\ acked \in [Session -> Nat]

\* StartPlayback reads the codec of every stream whose file player exists
\* (ctx->pt->clock_rate): whatever step of ModifySession failed, there is one.
CodecOfEveryPlayer ==
    \A h \in DOMAIN streams : streams[h].soundread => streams[h].pt

\* A synchronous PlayFile succeeds when its own file has come to its end, and
\* not before; only an EOF of the file before it, posted but not yet served when
\* the play began, is taken for its own.
SyncPlayEndsWithItsFile ==
    [][\A s \in Session :
          (op[s] = "WaitStopped" /\ op'[s] = "idle" /\ state'[s] = "NOT_PLAYING")
              => correlation[s] \in ended \cup overtaken]_vars

\* StopPlay may skip its request: while _state is NOT_PLAYING the streamer plays
\* nothing for the session and is not about to, with the same exception.
NotPlayingIsTrue ==
    \A s \in Session : state[s] = "NOT_PLAYING" /\ sessionHandle[s] \in DOMAIN streams =>
        LET h == sessionHandle[s]
        IN  /\ Ticking(h) => streams[h].correlation \in overtaken
            /\ \A i \in 1..Len(iocp) : iocp[i].kind = "PLAY_REQUEST" => iocp[i].handle # h

\* A destructor that StopActiveObjectLwProc holds up takes more plays than
\* _playStoppedHandle has places, each with an end nobody read: looped files
\* do not count, and an end is reported once.
JoinOnlyBehindUnreadStops ==
    \A s \in Session : op[s] = "joining" /\ overtaken = {} => acked[s] > MAX_MESSAGES_IN_QUEUE

\* The end of a file reaches the PlayFile that waits for it, behind whatever ends
\* of earlier plays nobody read, unless the streamer ends.
FileEndIsHeard ==
    \A s \in Session :
        (op[s] = "WaitStopped" /\ correlation[s] \in ended)
            ~> (op[s] # "WaitStopped" \/ ~streamerUp)

\* No stream outlives its session, but one whose Allocate had timed out.
NoOrphanStream ==
    \A s \in Session :
        (op[s] = "deleted") ~> (\A h \in DOMAIN streams : streams[h].session = s => h \in leaked)

=============================================================================

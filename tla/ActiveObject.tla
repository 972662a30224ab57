---------------------------- MODULE ActiveObject ----------------------------
(***************************************************************************)
(* ActiveObject of iw_core and its ProcEventListener: the base of every    *)
(* telephony session.  The owner starts a listener process, that process   *)
(* calls UponActiveObjectEvent of the object for each message on its       *)
(* inbound handle, and the owner's destructor must not return before the   *)
(* listener has let go of the object.                                      *)
(*                                                                         *)
(* Owner and listener are fibers of one thread: they interleave only where *)
(* one of them waits, so a step here runs from one such place to the next. *)
(* Stack threads send to the listener's handle at any time.  The overrides *)
(* of UponActiveObjectEvent throw nothing; they may wait in a Send.        *)
(***************************************************************************)
EXTENDS Integers, Sequences

CONSTANTS
    MaxListeners,           \* bound: how often an object is started
    MaxSends,               \* bound: messages that other threads send
    MAX_MESSAGES_IN_QUEUE   \* capacity of the inbound channel (1000)

ASSUME BoundsAssumption ==
    /\ MaxListeners \in Nat \ {0}
    /\ MaxSends \in Nat
    /\ MAX_MESSAGES_IN_QUEUE \in Nat \ {0}

VARIABLES
    started,        \* _started
    shutdownFlag,   \* _shutdownFlag
    current,        \* which listener _handlePair and _listenerBucket belong to
    lp,             \* where each listener is
    inbound,        \* the messages on its inbound handle
    poisoned,       \* listeners whose inbound handle is poisoned
    bucket,         \* listeners in whose _bucket the owner waits
    owner,          \* what the owner does
    waitedToSend,   \* history: the owner had to wait in Stop's Send
    sends           \* counts what other threads have sent

vars == <<started, shutdownFlag, current, lp, inbound, poisoned, bucket, owner,
          waitedToSend, sends>>

Listener == 1..MaxListeners
Message == {"EVENT", "SHUTDOWN_REQ"}
ListenerStates == {"none", "forked", "waiting", "dispatching", "flushed", "ended"}
OwnerStates == {"running", "sending", "joining", "deleted"}

\* In these states the listener goes on to use the object.
UsesObject(i) == lp[i] \in {"forked", "waiting", "dispatching"}
Full(i) == Len(inbound[i]) >= MAX_MESSAGES_IN_QUEUE

\* LpHandle::Send: nothing is stored in a poisoned channel.
Sent(i, m) ==
    IF i \in poisoned THEN inbound ELSE [inbound EXCEPT ![i] = Append(@, m)]

Init ==
    /\ started = FALSE
    /\ shutdownFlag = FALSE
    /\ current = 0
    /\ lp = [i \in Listener |-> "none"]
    /\ inbound = [i \in Listener |-> <<>>]
    /\ poisoned = {}
    /\ bucket = {}
    /\ owner = "running"
    /\ waitedToSend = FALSE
    /\ sends = 0

-----------------------------------------------------------------------------
(* Mutants: plausible bugs, used only to show that the properties notice.  *)

\* The destructor does not wait for the listener.
JoinNot(i) ==
    /\ owner' = "running"
    /\ UNCHANGED bucket

\* UnregisterContext does not flush the bucket.
LeaveWithoutFlush(i) ==
    /\ started' = FALSE
    /\ lp' = [lp EXCEPT ![i] = "flushed"]
    /\ poisoned' = poisoned \cup {i}
    /\ inbound' = [inbound EXCEPT ![i] = <<>>]
    /\ UNCHANGED <<bucket, owner>>

\* Starting twice is not refused.
StartTwice ==
    /\ owner = "running"
    /\ current < MaxListeners
    /\ started' = TRUE
    /\ current' = current + 1
    /\ lp' = [lp EXCEPT ![current + 1] = "forked"]
    /\ UNCHANGED <<shutdownFlag, inbound, poisoned, bucket, owner, waitedToSend, sends>>

\* The object is started once more than there are handle pairs.
StartUncounted ==
    /\ owner = "running"
    /\ ~started
    /\ current <= MaxListeners
    /\ started' = TRUE
    /\ current' = current + 1
    /\ lp' = [lp EXCEPT ![current + 1] = "forked"]
    /\ UNCHANGED <<shutdownFlag, inbound, poisoned, bucket, owner, waitedToSend, sends>>

-----------------------------------------------------------------------------
(* StartActiveObjectLwProc: a fresh handle pair and a forked listener.  A  *)
(* second start ends the program (throw without an exception).             *)
Start ==
    /\ owner = "running"
    /\ ~started
    /\ current < MaxListeners
    /\ started' = TRUE
    /\ current' = current + 1
    /\ lp' = [lp EXCEPT ![current + 1] = "forked"]
    /\ UNCHANGED <<shutdownFlag, inbound, poisoned, bucket, owner, waitedToSend, sends>>

\* LightweightProcess::Join: the owner falls into the bucket and sleeps until
\* somebody flushes it afterwards.
Join(i) ==
    /\ owner' = "joining"
    /\ bucket' = bucket \cup {i}

(* StopActiveObjectLwProc of a started object: the flags, the shutdown     *)
(* request and, unless the inbound channel is full, the join.              *)
Stop ==
    /\ owner = "running"
    /\ started
    /\ started' = FALSE
    /\ shutdownFlag' = TRUE
    /\ \/ /\ Full(current) /\ current \notin poisoned
          /\ owner' = "sending"
          /\ waitedToSend' = TRUE
          /\ UNCHANGED <<inbound, bucket>>
       \/ /\ ~Full(current) \/ current \in poisoned
          /\ inbound' = Sent(current, "SHUTDOWN_REQ")
          /\ Join(current)
          /\ UNCHANGED waitedToSend
    /\ UNCHANGED <<current, lp, poisoned, sends>>

(* The rest of Stop once the listener has read or poisoned the channel.    *)
StopSent ==
    /\ owner = "sending"
    /\ ~Full(current) \/ current \in poisoned
    /\ inbound' = Sent(current, "SHUTDOWN_REQ")
    /\ Join(current)
    /\ UNCHANGED <<started, shutdownFlag, current, lp, poisoned, waitedToSend, sends>>

(* The destructor: its StopActiveObjectLwProc has returned, or finds that  *)
(* the listener is not started, and the object is gone.                    *)
Delete ==
    /\ owner = "running"
    /\ ~started
    /\ owner' = "deleted"
    /\ UNCHANGED <<started, shutdownFlag, current, lp, inbound, poisoned, bucket,
                   waitedToSend, sends>>

-----------------------------------------------------------------------------
\* real_run ends and UnregisterContext runs up to its yield: _started is
\* cleared, the channel poisoned and its messages dropped, the bucket flushed.
Leave(i) ==
    /\ started' = FALSE
    /\ lp' = [lp EXCEPT ![i] = "flushed"]
    /\ poisoned' = poisoned \cup {i}
    /\ inbound' = [inbound EXCEPT ![i] = <<>>]
    /\ bucket' = bucket \ {i}
    /\ owner' = IF i \in bucket THEN "running" ELSE owner

(* The listener runs for the first time: RegisterContext and the test at   *)
(* the top of the loop.                                                    *)
ListenerRun(i) ==
    /\ lp[i] = "forked"
    /\ \/ shutdownFlag /\ Leave(i)
       \/ /\ ~shutdownFlag
          /\ lp' = [lp EXCEPT ![i] = "waiting"]
          /\ UNCHANGED <<started, inbound, poisoned, bucket, owner>>
    /\ UNCHANGED <<shutdownFlag, current, waitedToSend, sends>>

(* Wait returns a message.  The flag is looked at first; a shutdown        *)
(* request of somebody else sets it; anything else goes to                 *)
(* UponActiveObjectEvent, which may wait.  A timeout only repeats the wait. *)
ListenerReceive(i) ==
    /\ lp[i] = "waiting"
    /\ inbound[i] # <<>>
    /\ \/ /\ shutdownFlag \/ Head(inbound[i]) = "SHUTDOWN_REQ"
          /\ shutdownFlag' = TRUE
          /\ Leave(i)
       \/ /\ ~shutdownFlag /\ Head(inbound[i]) # "SHUTDOWN_REQ"
          /\ lp' = [lp EXCEPT ![i] = "dispatching"]
          /\ inbound' = [inbound EXCEPT ![i] = Tail(@)]
          /\ UNCHANGED <<started, shutdownFlag, poisoned, bucket, owner>>
    /\ UNCHANGED <<current, waitedToSend, sends>>

(* UponActiveObjectEvent returns: the test at the top of the loop.         *)
ListenerDispatched(i) ==
    /\ lp[i] = "dispatching"
    /\ \/ shutdownFlag /\ Leave(i)
       \/ /\ ~shutdownFlag
          /\ lp' = [lp EXCEPT ![i] = "waiting"]
          /\ UNCHANGED <<started, inbound, poisoned, bucket, owner>>
    /\ UNCHANGED <<shutdownFlag, current, waitedToSend, sends>>

(* UnregisterContext after its yield: the listener leaves the handle map.  *)
ListenerEnd(i) ==
    /\ lp[i] = "flushed"
    /\ lp' = [lp EXCEPT ![i] = "ended"]
    /\ UNCHANGED <<started, shutdownFlag, current, inbound, poisoned, bucket, owner,
                   waitedToSend, sends>>

(* Another thread sends: an event of the stack, which holds the handle     *)
(* from its creation on, or the shutdown request of UnReliableShutdownAll, *)
(* which finds the handle while the listener is registered.                *)
Send(i, m) ==
    /\ sends < MaxSends
    /\ lp[i] # "none"
    /\ m = "SHUTDOWN_REQ" => lp[i] \in {"waiting", "dispatching", "flushed"}
    /\ i \in poisoned \/ ~Full(i)
    /\ inbound' = Sent(i, m)
    /\ sends' = sends + 1
    /\ UNCHANGED <<started, shutdownFlag, current, lp, poisoned, bucket, owner,
                   waitedToSend>>

-----------------------------------------------------------------------------
ListenerStep(i) ==
    ListenerRun(i) \/ ListenerReceive(i) \/ ListenerDispatched(i) \/ ListenerEnd(i)

Next ==
    \/ Start
    \/ Stop
    \/ StopSent
    \/ Delete
    \/ \E i \in Listener :
        \/ ListenerRun(i)
        \/ ListenerReceive(i)
        \/ ListenerDispatched(i)
        \/ ListenerEnd(i)
        \/ \E m \in Message : Send(i, m)

\* The scheduler runs every fiber that can run; handlers return.
Fairness == WF_vars(StopSent) /\ \A i \in Listener : WF_vars(ListenerStep(i))

Spec == Init /\ [][Next]_vars
FairSpec == Spec /\ Fairness

-----------------------------------------------------------------------------
\* Every variable stays in its domain.
TypeOK ==
    /\ started \in BOOLEAN
    /\ shutdownFlag \in BOOLEAN
    /\ current \in 0..MaxListeners
    /\ lp \in [Listener -> ListenerStates]
    /\ inbound \in [Listener -> Seq(Message)]
    /\ poisoned \subseteq Listener
    /\ bucket \subseteq Listener
    /\ owner \in OwnerStates
    /\ waitedToSend \in BOOLEAN
    /\ sends \in 0..MaxSends

\* StopActiveObjectLwProc: "We must ensure that the process stops otherwise
\* it may use deleted objects."  Whichever side ended the listener, none
\* uses the object once the destructor has run.
NoUseAfterDelete == owner = "deleted" => \A i \in Listener : ~UsesObject(i)

\* Two listeners never serve one object, not even when it is started again
\* while the last listener is still unregistering.
OneListener ==
    \A i, j \in Listener : UsesObject(i) /\ UsesObject(j) => i = j

\* Bucket::flush frees only those already in the bucket, so the owner must
\* fall into it before the listener's flush.  It does, unless Stop had to
\* wait for room in the listener's full channel.
JoinBeforeFlush ==
    \A i \in bucket : UsesObject(i) \/ waitedToSend

\* A StopActiveObjectLwProc that found room in the channel returns.
StopReturns == owner = "joining" ~> owner # "joining" \/ waitedToSend

-----------------------------------------------------------------------------
(* The inductive invariant. *)

\* Only the current listener can be at work, and the object is marked as
\* started or its owner is inside Stop as long as it is.
ListenerKnown ==
    \A i \in Listener : UsesObject(i) =>
        /\ i = current
        /\ started \/ owner \in {"sending", "joining"}

\* Handle pairs that do not exist yet are untouched.
Fresh == \A i \in Listener : i > current => lp[i] = "none" /\ i \notin poisoned

\* A listener whose channel is poisoned is done with the object.
PoisonedDone == \A i \in poisoned : ~UsesObject(i)

\* _started stands for a listener at work, with nobody in Stop.
StartedListens ==
    started => /\ current \in Listener /\ UsesObject(current)
               /\ owner = "running"

InBucket == \A i \in bucket : i = current /\ owner = "joining"
Sending == owner = "sending" => waitedToSend /\ current \in Listener

IndInv ==
    /\ TypeOK
    /\ ListenerKnown
    /\ Fresh
    /\ PoisonedDone
    /\ StartedListens
    /\ InBucket
    /\ Sending
    /\ JoinBeforeFlush
=============================================================================

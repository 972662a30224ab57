------------------------- MODULE ActiveObjectProofs -------------------------
(***************************************************************************)
(* Proofs about ActiveObject, for any number of starts, of messages and    *)
(* any channel capacity.                                                   *)
(***************************************************************************)
EXTENDS ActiveObject, SequenceTheorems, TLAPS

\* LpHandle::Send leaves the inbound channels well formed.
LEMMA SentType ==
    ASSUME TypeOK, NEW i \in Listener, NEW m \in Message
    PROVE  Sent(i, m) \in [Listener -> Seq(Message)]
<1>1. Append(inbound[i], m) \in Seq(Message)
    BY AppendProperties DEF TypeOK
<1>2. QED
    BY <1>1 DEF Sent, TypeOK

\* The listener's last step before its yield keeps the invariant.
LEMMA LeaveIndInv ==
    ASSUME IndInv, NEW i \in Listener, UsesObject(i), Leave(i),
           shutdownFlag' \in BOOLEAN, UNCHANGED <<current, waitedToSend, sends>>
    PROVE  IndInv'
<1> USE DEF IndInv
<1>1. i = current /\ i \notin poisoned
    BY DEF ListenerKnown, PoisonedDone
<1>2. \A j \in Listener : UsesObject(j)' <=> UsesObject(j) /\ j # i
    BY DEF Leave, UsesObject, TypeOK
<1>3. \A j \in Listener : ~UsesObject(j)'
    BY <1>1, <1>2 DEF ListenerKnown
<1>4. TypeOK'
    <2>1. inbound' \in [Listener -> Seq(Message)]
        BY EmptySeq DEF Leave, TypeOK
    <2>2. QED
        BY <2>1 DEF Leave, TypeOK, ListenerStates, OwnerStates
<1>5. bucket' = {}
    BY <1>1 DEF Leave, InBucket
<1>6. ListenerKnown' /\ PoisonedDone' /\ InBucket' /\ JoinBeforeFlush'
    BY <1>3, <1>4, <1>5 DEF ListenerKnown, PoisonedDone, InBucket, JoinBeforeFlush, TypeOK
<1>7. StartedListens' /\ Sending' /\ Fresh'
    BY <1>1 DEF Leave, StartedListens, Sending, Fresh, TypeOK, Listener
<1>8. QED
    BY <1>4, <1>6, <1>7

\* The owner's steps: Start, both halves of Stop, the destructor.
LEMMA OwnerIndInv ==
    ASSUME IndInv, Start \/ Stop \/ StopSent \/ Delete
    PROVE  IndInv'
<1> USE DEF IndInv
<1>1. CASE Start
    <2>1. current + 1 \in Listener /\ current' = current + 1
        BY <1>1, BoundsAssumption DEF Start, TypeOK, Listener
    <2>2. \A j \in Listener : ~UsesObject(j)
        BY <1>1 DEF Start, ListenerKnown
    <2>3. \A j \in Listener : UsesObject(j)' <=> j = current'
        BY <1>1, <2>1, <2>2 DEF Start, UsesObject, TypeOK
    <2>4. bucket = {} /\ bucket' = {}
        BY <1>1 DEF Start, InBucket
    <2>5. current' \notin poisoned
        BY <1>1, <2>1 DEF Fresh, TypeOK, Listener
    <2>6. TypeOK'
        BY <1>1, <2>1, BoundsAssumption DEF Start, TypeOK, Listener, ListenerStates
    <2>7. Fresh'
        BY <1>1, <2>1 DEF Start, Fresh, TypeOK, Listener
    <2>8. ListenerKnown' /\ PoisonedDone' /\ StartedListens'
        BY <1>1, <2>1, <2>3, <2>5 DEF Start, ListenerKnown, PoisonedDone, StartedListens, TypeOK
    <2>9. InBucket' /\ JoinBeforeFlush' /\ Sending'
        BY <1>1, <2>4 DEF Start, InBucket, JoinBeforeFlush, Sending
    <2>10. QED
        BY <2>6, <2>7, <2>8, <2>9
<1>2. CASE Stop
    <2>1. /\ current \in Listener /\ UsesObject(current) /\ started /\ owner = "running"
          /\ current \notin poisoned
        BY <1>2 DEF Stop, StartedListens, PoisonedDone
    <2>2. UNCHANGED <<current, lp, poisoned, sends>> /\ started' = FALSE
        BY <1>2 DEF Stop
    <2>3. bucket = {}
        BY <2>1 DEF InBucket
    <2>4. /\ \/ owner' = "sending" /\ waitedToSend' = TRUE /\ bucket' = {}
             \/ owner' = "joining" /\ bucket' = {current} /\ waitedToSend' = waitedToSend
          /\ inbound' = inbound \/ inbound' = Sent(current, "SHUTDOWN_REQ")
        BY <1>2, <2>3 DEF Stop, Join
    <2>5. TypeOK'
        <3>1. inbound' \in [Listener -> Seq(Message)]
            BY <2>1, <2>4, SentType DEF TypeOK, Message
        <3>2. QED
            BY <1>2, <2>1, <2>2, <2>4, <3>1 DEF Stop, TypeOK, OwnerStates
    <2>6. ListenerKnown' /\ PoisonedDone' /\ Fresh' /\ StartedListens'
        BY <2>2, <2>4 DEF ListenerKnown, PoisonedDone, Fresh, StartedListens, UsesObject
    <2>7. InBucket' /\ JoinBeforeFlush' /\ Sending'
        BY <2>1, <2>2, <2>4 DEF InBucket, JoinBeforeFlush, Sending, UsesObject
    <2>8. QED
        BY <2>5, <2>6, <2>7
<1>3. CASE StopSent
    <2>1. owner = "sending" /\ waitedToSend /\ current \in Listener /\ bucket = {} /\ ~started
        BY <1>3 DEF StopSent, Sending, InBucket, StartedListens
    <2>2. /\ UNCHANGED <<started, shutdownFlag, current, lp, poisoned, waitedToSend, sends>>
          /\ owner' = "joining" /\ bucket' = {current}
          /\ inbound' = Sent(current, "SHUTDOWN_REQ")
        BY <1>3, <2>1 DEF StopSent, Join
    <2>3. TypeOK'
        BY <2>1, <2>2, SentType DEF TypeOK, OwnerStates, Message
    <2>4. ListenerKnown' /\ PoisonedDone' /\ Fresh' /\ StartedListens'
        BY <2>1, <2>2 DEF ListenerKnown, PoisonedDone, Fresh, StartedListens, UsesObject
    <2>5. InBucket' /\ JoinBeforeFlush' /\ Sending'
        BY <2>1, <2>2 DEF InBucket, JoinBeforeFlush, Sending, UsesObject
    <2>6. QED
        BY <2>3, <2>4, <2>5
<1>4. CASE Delete
    <2>1. \A j \in Listener : ~UsesObject(j)
        BY <1>4 DEF Delete, ListenerKnown
    <2>2. bucket = {}
        BY <1>4 DEF Delete, InBucket
    <2>3. TypeOK'
        BY <1>4 DEF Delete, TypeOK, OwnerStates
    <2>4. QED
        BY <1>4, <2>1, <2>2, <2>3 DEF Delete, ListenerKnown, PoisonedDone, Fresh,
           StartedListens, InBucket, Sending, JoinBeforeFlush, UsesObject, TypeOK
<1>5. QED
    BY <1>1, <1>2, <1>3, <1>4

\* The steps in which a listener goes on: it starts to wait, takes an event
\* to its handler, comes back from it, or leaves the handle map.
LEMMA ListenerGoesOn ==
    ASSUME IndInv, NEW i \in Listener, NEW s \in ListenerStates,
           lp[i] # "none", lp' = [lp EXCEPT ![i] = s],
           UsesObject(i) <=> s \in {"forked", "waiting", "dispatching"},
           inbound' \in [Listener -> Seq(Message)],
           UNCHANGED <<started, shutdownFlag, current, poisoned, bucket, owner,
                       waitedToSend, sends>>
    PROVE  IndInv'
<1> USE DEF IndInv
<1>1. \A j \in Listener : UsesObject(j)' <=> UsesObject(j)
    BY DEF UsesObject, TypeOK
<1>2. TypeOK'
    BY DEF TypeOK
<1>3. Fresh'
    BY DEF Fresh, TypeOK
<1>4. ListenerKnown' /\ PoisonedDone' /\ StartedListens' /\ JoinBeforeFlush'
    BY <1>1 DEF ListenerKnown, PoisonedDone, StartedListens, JoinBeforeFlush, TypeOK
<1>5. QED
    BY <1>2, <1>3, <1>4 DEF InBucket, Sending

\* Every step of a listener keeps the invariant.
LEMMA ListenerIndInv ==
    ASSUME IndInv, NEW i \in Listener, ListenerStep(i)
    PROVE  IndInv'
<1>1. TypeOK
    BY DEF IndInv
<1>2. CASE Leave(i) /\ ~ListenerEnd(i)
    <2>1. UsesObject(i) /\ UNCHANGED <<current, waitedToSend, sends>>
        BY <1>2 DEF ListenerStep, ListenerRun, ListenerReceive, ListenerDispatched, UsesObject
    <2>2. shutdownFlag' \in BOOLEAN
        BY <1>1, <1>2 DEF ListenerStep, ListenerRun, ListenerReceive, ListenerDispatched, TypeOK
    <2>3. QED
        BY <1>2, <2>1, <2>2, LeaveIndInv
<1>3. CASE ListenerRun(i) /\ ~Leave(i)
    <2>1. /\ lp[i] = "forked" /\ lp' = [lp EXCEPT ![i] = "waiting"]
          /\ UNCHANGED <<started, shutdownFlag, current, poisoned, bucket, owner,
                         waitedToSend, sends, inbound>>
        BY <1>3 DEF ListenerRun
    <2>2. QED
        BY <1>1, <2>1, ListenerGoesOn DEF UsesObject, ListenerStates, TypeOK
<1>4. CASE ListenerReceive(i) /\ ~Leave(i)
    <2>1. /\ lp[i] = "waiting" /\ lp' = [lp EXCEPT ![i] = "dispatching"]
          /\ inbound[i] # <<>> /\ inbound' = [inbound EXCEPT ![i] = Tail(@)]
          /\ UNCHANGED <<started, shutdownFlag, current, poisoned, bucket, owner,
                         waitedToSend, sends>>
        BY <1>4 DEF ListenerReceive
    <2>2. Tail(inbound[i]) \in Seq(Message)
        BY <1>1, <2>1, HeadTailProperties DEF TypeOK
    <2>3. inbound' \in [Listener -> Seq(Message)]
        BY <1>1, <2>1, <2>2 DEF TypeOK
    <2>4. QED
        BY <2>1, <2>3, ListenerGoesOn DEF UsesObject, ListenerStates
<1>5. CASE ListenerDispatched(i) /\ ~Leave(i)
    <2>1. /\ lp[i] = "dispatching" /\ lp' = [lp EXCEPT ![i] = "waiting"]
          /\ UNCHANGED <<started, shutdownFlag, current, poisoned, bucket, owner,
                         waitedToSend, sends, inbound>>
        BY <1>5 DEF ListenerDispatched
    <2>2. QED
        BY <1>1, <2>1, ListenerGoesOn DEF UsesObject, ListenerStates, TypeOK
<1>6. CASE ListenerEnd(i)
    <2>1. /\ lp[i] = "flushed" /\ lp' = [lp EXCEPT ![i] = "ended"]
          /\ UNCHANGED <<started, shutdownFlag, current, poisoned, bucket, owner,
                         waitedToSend, sends, inbound>>
        BY <1>6 DEF ListenerEnd
    <2>2. QED
        BY <1>1, <2>1, ListenerGoesOn DEF UsesObject, ListenerStates, TypeOK
<1>7. QED
    BY <1>2, <1>3, <1>4, <1>5, <1>6 DEF ListenerStep

\* A message from another thread changes nothing but the channel.
LEMMA SendIndInv ==
    ASSUME IndInv, NEW i \in Listener, NEW m \in Message, Send(i, m)
    PROVE  IndInv'
<1> USE DEF IndInv
<1>1. /\ inbound' = Sent(i, m) /\ sends' = sends + 1 /\ sends < MaxSends
      /\ UNCHANGED <<started, shutdownFlag, current, lp, poisoned, bucket, owner,
                     waitedToSend>>
    BY DEF Send
<1>2. TypeOK'
    <2>1. Sent(i, m) \in [Listener -> Seq(Message)]
        BY SentType
    <2>2. sends' \in 0..MaxSends
        BY <1>1, BoundsAssumption DEF TypeOK
    <2>3. QED
        BY <1>1, <2>1, <2>2 DEF TypeOK
<1>3. QED
    BY <1>1, <1>2 DEF ListenerKnown, Fresh, PoisonedDone, StartedListens, InBucket,
       Sending, JoinBeforeFlush, UsesObject

\* Every step of Next keeps the inductive invariant.
LEMMA NextIndInv == IndInv /\ [Next]_vars => IndInv'
<1> SUFFICES ASSUME IndInv, [Next]_vars PROVE IndInv'
    OBVIOUS
<1>1. CASE Start \/ Stop \/ StopSent \/ Delete
    BY <1>1, OwnerIndInv
<1>2. CASE \E i \in Listener : ListenerStep(i)
    BY <1>2, ListenerIndInv
<1>3. CASE \E i \in Listener, m \in Message : Send(i, m)
    BY <1>3, SendIndInv
<1>4. CASE UNCHANGED vars
    <2>1. UNCHANGED <<started, shutdownFlag, current, lp, inbound, poisoned, bucket,
                      owner, waitedToSend, sends>>
        BY <1>4 DEF vars
    <2>2. TypeOK'
        BY <2>1 DEF IndInv, TypeOK
    <2>3. QED
        BY <2>1, <2>2 DEF IndInv, ListenerKnown, Fresh, PoisonedDone,
           StartedListens, InBucket, Sending, JoinBeforeFlush, UsesObject
<1>5. QED
    BY <1>1, <1>2, <1>3, <1>4 DEF Next, ListenerStep

\* Before the first start nobody listens and nobody waits.
LEMMA InitIndInv == Init => IndInv
<1> SUFFICES ASSUME Init PROVE IndInv
    OBVIOUS
<1>1. \A i \in Listener : lp[i] = "none" /\ ~UsesObject(i)
    BY DEF Init, UsesObject
<1>2. inbound \in [Listener -> Seq(Message)]
    BY EmptySeq DEF Init
<1>3. TypeOK
    <2>1. /\ started \in BOOLEAN /\ shutdownFlag \in BOOLEAN
          /\ waitedToSend \in BOOLEAN
        BY DEF Init
    <2>2. current \in 0..MaxListeners /\ sends \in 0..MaxSends
        BY BoundsAssumption DEF Init
    <2>3. QED
        BY <1>2, <2>1, <2>2 DEF Init, TypeOK, ListenerStates, OwnerStates
<1>4. QED
    BY <1>1, <1>3 DEF Init, IndInv, ListenerKnown, Fresh, PoisonedDone, StartedListens,
       InBucket, Sending, JoinBeforeFlush

-----------------------------------------------------------------------------
\* The inductive invariant holds in every reachable state.
THEOREM Invariance == Spec => []IndInv
BY InitIndInv, NextIndInv, PTL DEF Spec

\* Every variable of an ActiveObject and its listeners stays in its domain.
THEOREM TypeCorrect == Spec => []TypeOK
<1>1. IndInv => TypeOK
    BY DEF IndInv
<1>2. QED
    BY <1>1, Invariance, PTL

\* After ~ActiveObject no ProcEventListener uses the object, whoever told it
\* to stop and wherever it was.
THEOREM DeletedIsUnused == Spec => []NoUseAfterDelete
<1>1. IndInv => NoUseAfterDelete
    BY DEF IndInv, NoUseAfterDelete, ListenerKnown, StartedListens
<1>2. QED
    BY <1>1, Invariance, PTL

\* A restarted object is never served by two ProcEventListeners.
THEOREM SingleListener == Spec => []OneListener
<1>1. IndInv => OneListener
    BY DEF IndInv, OneListener, ListenerKnown
<1>2. QED
    BY <1>1, Invariance, PTL

\* StopActiveObjectLwProc falls into the bucket before the listener flushes
\* it, unless it had to wait for room in the channel.
THEOREM JoinNotLost == Spec => []JoinBeforeFlush
<1>1. IndInv => JoinBeforeFlush
    BY DEF IndInv
<1>2. QED
    BY <1>1, Invariance, PTL
=============================================================================

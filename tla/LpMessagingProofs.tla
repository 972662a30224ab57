-------------------------- MODULE LpMessagingProofs --------------------------
(***************************************************************************)
(* Proofs about LpMessaging, for any number of processes, handle ids,      *)
(* transaction ids and any channel capacity.                               *)
(***************************************************************************)
EXTENDS LpMessaging, SequenceTheorems, TLAPS

-----------------------------------------------------------------------------
(* What Append, Tail and Head do to the contents of a channel.             *)

\* Reading from a channel with LpHandle::Read removes a message and adds none.
LEMMA TailElems ==
    ASSUME NEW S, NEW s \in Seq(S), s # <<>>
    PROVE  /\ Tail(s) \in Seq(S)
           /\ Elems(Tail(s)) \subseteq Elems(s)
           /\ Head(s) \in S
           /\ Head(s) \in Elems(s)
<1>1. Len(s) \in Nat /\ Len(s) >= 1
    BY EmptySeq, LenProperties
<1>2. /\ Tail(s) \in Seq(S)
      /\ Len(Tail(s)) = Len(s) - 1
      /\ \A i \in 1..Len(Tail(s)) : Tail(s)[i] = s[i + 1]
    BY HeadTailProperties
<1>3. Head(s) = s[1] /\ Head(s) \in S
    BY HeadTailProperties
<1>4. Elems(Tail(s)) \subseteq Elems(s)
    BY <1>1, <1>2 DEF Elems
<1>5. QED
    BY <1>1, <1>2, <1>3, <1>4 DEF Elems

\* Writing to a channel with LpHandle::Send adds exactly one message.
LEMMA AppendElems ==
    ASSUME NEW S, NEW s \in Seq(S), NEW m \in S
    PROVE  /\ Append(s, m) \in Seq(S)
           /\ Elems(Append(s, m)) = Elems(s) \cup {m}
           /\ Append(s, m) # <<>>
<1>1. /\ Append(s, m) \in Seq(S)
      /\ Len(Append(s, m)) = Len(s) + 1
      /\ Append(s, m)[Len(s) + 1] = m
      /\ \A i \in 1..Len(s) : Append(s, m)[i] = s[i]
    BY AppendProperties
<1>2. Len(s) \in Nat
    BY LenProperties
<1>3. 1..(Len(s) + 1) = 1..Len(s) \cup {Len(s) + 1}
    BY <1>2
<1>4. Elems(Append(s, m)) = Elems(s) \cup {m}
    BY <1>1, <1>2, <1>3 DEF Elems
<1>5. QED
    BY <1>1, <1>2, <1>4

\* A channel is empty when nothing is in it.
LEMMA EmptyElems ==
    /\ Elems(<<>>) = {}
    /\ \A S : \A s \in Seq(S) : Elems(s) \subseteq S /\ (s = <<>> \/ Elems(s) # {})
<1>1. Elems(<<>>) = {}
    BY DEF Elems
<1>2. ASSUME NEW S, NEW s \in Seq(S)
      PROVE  Elems(s) \subseteq S /\ (s = <<>> \/ Elems(s) # {})
    <2>1. Elems(s) \subseteq S
        BY LenProperties, ElementOfSeq DEF Elems
    <2>2. ASSUME s # <<>> PROVE Elems(s) # {}
        BY <2>2, TailElems
    <2>3. QED
        BY <2>1, <2>2
<1>3. QED
    BY <1>1, <1>2

\* LpHandle::Send adds the message to its own channel only, unless poisoned.
LEMMA AfterSendQueues ==
    ASSUME NEW qs \in [Uid -> Seq(IwMessage)], NEW h \in Uid, NEW m \in IwMessage
    PROVE  /\ AfterSend(qs, h, m) \in [Uid -> Seq(IwMessage)]
           /\ \A k \in Uid : k # h \/ h \in poisoned => AfterSend(qs, h, m)[k] = qs[k]
           /\ Elems(AfterSend(qs, h, m)[h]) \subseteq Elems(qs[h]) \cup {m}
<1>1. CASE h \in poisoned
    BY <1>1 DEF AfterSend
<1>2. CASE h \notin poisoned
    <2>1. Append(qs[h], m) \in Seq(IwMessage)
          /\ Elems(Append(qs[h], m)) = Elems(qs[h]) \cup {m}
        BY AppendElems
    <2>2. AfterSend(qs, h, m) = [qs EXCEPT ![h] = Append(qs[h], m)]
        BY <1>2 DEF AfterSend
    <2>3. QED
        BY <1>2, <2>1, <2>2
<1>3. QED
    BY <1>1, <1>2

\* SendMessage does the same for a registered destination, and nothing otherwise.
LEMMA AfterSendMessageQueues ==
    ASSUME NEW qs \in [Uid -> Seq(IwMessage)], NEW h \in Uid, NEW m \in IwMessage
    PROVE  /\ AfterSendMessage(qs, h, m) \in [Uid -> Seq(IwMessage)]
           /\ \A k \in Uid : k # h \/ h \in poisoned \/ h \notin registered
                                => AfterSendMessage(qs, h, m)[k] = qs[k]
           /\ Elems(AfterSendMessage(qs, h, m)[h]) \subseteq Elems(qs[h]) \cup {m}
<1>1. /\ AfterSend(qs, h, m) \in [Uid -> Seq(IwMessage)]
      /\ \A k \in Uid : k # h \/ h \in poisoned => AfterSend(qs, h, m)[k] = qs[k]
      /\ Elems(AfterSend(qs, h, m)[h]) \subseteq Elems(qs[h]) \cup {m}
    BY AfterSendQueues
<1>2. QED
    BY <1>1 DEF AfterSendMessage

-----------------------------------------------------------------------------
(* Type correctness. *)

\* A response built by copy_data_on_response is a message, for any request.
LEMMA ResponseType ==
    ASSUME NEW m \in IwMessage, NEW id \in ResponseIds, NEW p \in Proc
    PROVE  Response(m, id, p) \in IwMessage
BY SizesAssumption DEF Response, IwMessage, Proc, Uid

\* SendResponse adds at most the response, on the channel of the request's
\* source; a request from nobody's handle is answered to nobody.
LEMMA AfterResponseQueues ==
    ASSUME NEW qs \in [Uid -> Seq(IwMessage)], NEW m \in IwMessage,
           NEW id \in ResponseIds, NEW p \in Proc, registered \subseteq Uid
    PROVE  /\ AfterResponse(qs, m, id, p) \in [Uid -> Seq(IwMessage)]
           /\ \A k \in Uid : (k # m.source \/ m.source \in poisoned \/ m.source \notin registered)
                               => AfterResponse(qs, m, id, p)[k] = qs[k]
           /\ \A k \in Uid : k = m.source =>
                 Elems(AfterResponse(qs, m, id, p)[k]) \subseteq Elems(qs[k]) \cup {Response(m, id, p)}
<1> DEFINE h == m.source
           x == Response(m, id, p)
<1>1. x \in IwMessage
    BY ResponseType
<1>2. AfterResponse(qs, m, id, p) = AfterSendMessage(qs, h, x)
    BY DEF AfterResponse
<1>3. CASE h \in Uid
    <2>1. /\ AfterSendMessage(qs, h, x) \in [Uid -> Seq(IwMessage)]
          /\ \A k \in Uid : (k # h \/ h \in poisoned \/ h \notin registered)
                              => AfterSendMessage(qs, h, x)[k] = qs[k]
          /\ Elems(AfterSendMessage(qs, h, x)[h]) \subseteq Elems(qs[h]) \cup {x}
        <3> HIDE DEF h, x
        <3> QED
            BY <1>1, <1>3, AfterSendMessageQueues
    <2>2. QED
        BY <1>2, <2>1
<1>4. CASE h \notin Uid
    <2>1. AfterSendMessage(qs, h, x) = qs
        BY <1>4 DEF AfterSendMessage
    <2>2. QED
        BY <1>2, <1>4, <2>1
<1>5. QED
    BY <1>3, <1>4

\* The end of a transaction leaves every variable in its domain.
LEMMA EndTxnType ==
    ASSUME TypeOK, NEW p \in Proc, txnHandle[p] \in Uid, txnId[p] \in TxnId,
           NEW code \in ApiErrorCode, NEW r \in TxnId \cup {IW_UNDEFINED},
           NEW qs \in [Uid -> Seq(IwMessage)], EndTxn(p, code, r, qs)
    PROVE  /\ registered' \subseteq Uid
           /\ queue' \in [Uid -> Seq(IwMessage)]
           /\ poisoned' \subseteq Uid
           /\ outcome' \in [TxnId -> Outcome]
           /\ pc' \in [Proc -> States]
<1>1. <<>> \in Seq(IwMessage)
    BY EmptySeq
<1>2. [code |-> code, response |-> r] \in Outcome
    BY DEF Outcome
<1>3. QED
    BY <1>1, <1>2 DEF EndTxn, TypeOK, States

-----------------------------------------------------------------------------
(* The inductive invariant. *)

\* The queues qs hold no message that the channels do not hold.
NoMoreThanQueue(qs) ==
    \A h \in Uid : /\ Elems(qs[h]) \subseteq Elems(queue[h])
                   /\ qs[h] # <<>> => queue[h] # <<>>

\* In the initial state no transaction runs and every channel is empty.
LEMMA InitIndInv == Init => IndInv
<1> SUFFICES ASSUME Init PROVE IndInv
    OBVIOUS
<1>1. \A h \in Uid : queue[h] = <<>>
    BY DEF Init
<1>2. Proc \subseteq Uid
    BY SizesAssumption DEF Proc, Uid
<1>3. TypeOK
    <2>1. queue \in [Uid -> Seq(IwMessage)]
        BY EmptySeq DEF Init
    <2>2. shutAll \in BOOLEAN
        BY DEF Init
    <2>3. nextUid \in 1..(MaxUid + 1) /\ nextTxnId \in 1..(MaxTxnId + 1)
        BY SizesAssumption DEF Init
    <2>4. QED
        BY <1>2, <2>1, <2>2, <2>3 DEF Init, TypeOK, States, Call, Outcome,
            NoCall, RequestIds, Proc, IW_UNDEFINED
<1>4. \A p \in Proc : ~InTxn(p)
    BY DEF Init, InTxn
<1>5. Freshness /\ PoisonedProcs
    BY SizesAssumption DEF Init, Freshness, PoisonedProcs, IW_UNDEFINED
<1>6. InFlight /\ Answers
    BY <1>1, <1>2, <1>4, EmptyElems DEF Init, InFlight, Answers
<1>7. RegistrationsMatch
    BY <1>4 DEF Init, RegistrationsMatch
<1>8. NothingForTheDead /\ ResponseMatchesRequest
    BY <1>1 DEF Init, NothingForTheDead, ResponseMatchesRequest
<1>9. QED
    BY <1>3, <1>4, <1>5, <1>6, <1>7, <1>8 DEF IndInv, OwnTxn

\* Reading the first message of a channel leaves no more than there was, and
\* the message is one that was there.
LEMMA ReadQueues ==
    ASSUME TypeOK, NEW h \in Uid, queue[h] # <<>>
    PROVE  LET qs == [queue EXCEPT ![h] = Tail(@)] IN
           /\ qs \in [Uid -> Seq(IwMessage)]
           /\ NoMoreThanQueue(qs)
           /\ Head(queue[h]) \in IwMessage
           /\ Head(queue[h]) \in Elems(queue[h])
<1>1. queue \in [Uid -> Seq(IwMessage)] /\ queue[h] \in Seq(IwMessage)
    BY DEF TypeOK
<1>2. /\ Tail(queue[h]) \in Seq(IwMessage)
      /\ Elems(Tail(queue[h])) \subseteq Elems(queue[h])
      /\ Head(queue[h]) \in IwMessage
      /\ Head(queue[h]) \in Elems(queue[h])
    BY <1>1, TailElems
<1>3. QED
    BY <1>1, <1>2 DEF NoMoreThanQueue

\* The channels themselves hold no more than they hold.
LEMMA SameQueues == NoMoreThanQueue(queue)
BY DEF NoMoreThanQueue

\* The end of a transaction, whatever its code, keeps the invariant, provided
\* that success is reported only for an answer to this transaction.
LEMMA EndTxnIndInv ==
    ASSUME IndInv, NEW p \in Proc, InTxn(p),
           NEW code \in ApiErrorCode, NEW r \in TxnId \cup {IW_UNDEFINED},
           NEW qs \in [Uid -> Seq(IwMessage)], NoMoreThanQueue(qs),
           code = "API_SUCCESS" => \/ r = txnId[p] /\ txnId[p] \in replied
                                   \/ r = IW_UNDEFINED /\ shutAll,
           EndTxn(p, code, r, qs),
           UNCHANGED <<nextUid, nextTxnId, txnHandle, txnId, call, held, replied, shutAll>>
    PROVE  IndInv'
<1> USE DEF IndInv
<1>0. Proc \subseteq Uid
    BY SizesAssumption DEF Proc, Uid
<1>1. /\ txnHandle[p] \in Uid \ Proc
      /\ txnId[p] \in TxnId
      /\ txnHandle[p] < nextUid
    BY SizesAssumption DEF OwnTxn, TypeOK, Freshness, Uid, Proc, IW_UNDEFINED
<1>2. TypeOK'
    BY <1>1, EndTxnType DEF TypeOK
<1>3. /\ pc' = [pc EXCEPT ![p] = "idle"]
      /\ \A q \in Proc : InTxn(q)' <=> InTxn(q) /\ q # p
      /\ \A q \in Proc \ {p} : pc'[q] = pc[q]
    BY DEF EndTxn, InTxn, TypeOK
<1>4. \A h \in Uid : /\ Elems(queue'[h]) \subseteq Elems(queue[h])
                     /\ queue'[h] # <<>> => queue[h] # <<>> /\ h # txnHandle[p]
    BY EmptyElems DEF EndTxn, NoMoreThanQueue
<1>5. \A t \in TxnId : outcome'[t] = IF t = txnId[p] THEN [code |-> code, response |-> r]
                                                    ELSE outcome[t]
    BY <1>1 DEF EndTxn, TypeOK
<1>6. Freshness'
    <2>1. nextUid \in Int /\ nextTxnId \in Int /\ txnId[p] < nextTxnId
        BY DEF TypeOK, Freshness
    <2>2. (registered \cup poisoned)' \subseteq 1..(nextUid' - 1)
        BY <1>1, <2>1 DEF EndTxn, Freshness, Uid
    <2>3. \A t \in TxnId : t >= nextTxnId => outcome'[t].code = "none"
        BY <1>1, <1>5, <2>1 DEF Freshness, TxnId
    <2>4. QED
        BY <2>2, <2>3 DEF Freshness
<1>7. \A q \in Proc : OwnTxn(q)'
    BY <1>3, <1>5 DEF EndTxn, OwnTxn
<1>8. InFlight'
    <2>1. \A m : Genuine(m) => Genuine(m)'
        BY <1>3 DEF Genuine
    <2>2. \A q \in Proc : held'[q] \cup Elems(queue'[q]) \subseteq held[q] \cup Elems(queue[q])
        BY <1>0, <1>4
    <2>3. QED
        BY <2>1, <2>2 DEF InFlight
<1>9. Answers'
    <2>1. \A q \in Proc : InTxn(q) => txnHandle[q] \in Uid
        BY SizesAssumption DEF OwnTxn, TypeOK, Uid, Proc, IW_UNDEFINED
    <2>2. QED
        BY <2>1, <1>3, <1>4 DEF Answers
<1>10. PoisonedProcs'
    BY <1>1, <1>3 DEF PoisonedProcs, EndTxn, InTxn
<1>11. RegistrationsMatch'
    <2>1. \A q \in Proc : InTxn(q) /\ q # p => txnHandle[q] # txnHandle[p]
        BY DEF OwnTxn
    <2>2. registered' = registered \ {txnHandle[p]}
        BY DEF EndTxn
    <2>3. QED
        BY <1>1, <1>3, <2>1, <2>2 DEF RegistrationsMatch, InTxn
<1>12. NothingForTheDead'
    BY <1>1, <1>3, <1>4 DEF NothingForTheDead, InTxn
<1>13. ResponseMatchesRequest'
    BY <1>5 DEF ResponseMatchesRequest
<1>14. QED
    BY <1>2, <1>6, <1>7, <1>8, <1>9, <1>10, <1>11, <1>12, <1>13

\* Handles of running transactions are handle ids that no process owns.
LEMMA TxnHandles ==
    ASSUME IndInv
    PROVE  /\ Proc \subseteq Uid
           /\ \A q \in Proc : InTxn(q) => txnHandle[q] \in Uid \ Proc /\ txnId[q] \in TxnId
BY SizesAssumption DEF IndInv, OwnTxn, TypeOK, Uid, Proc, IW_UNDEFINED

\* Answering a genuine request (HandleOOBMessage, SendResponse) keeps the
\* invariant: the response lands on the handle of the transaction that asked,
\* or on none.
LEMMA ReplyIndInv ==
    ASSUME IndInv, NEW p \in Proc, NEW m \in IwMessage, Genuine(m),
           NEW id \in ResponseIds,
           NEW qs \in [Uid -> Seq(IwMessage)], NoMoreThanQueue(qs),
           queue' = AfterResponse(qs, m, id, p),
           replied' = RepliedTo(m),
           held' \in [Proc -> SUBSET IwMessage],
           \A q \in Proc : held'[q] \subseteq held[q],
           \/ pc' = pc
           \/ pc[p] = "idle" /\ pc' = [pc EXCEPT ![p] = "stopping"],
           UNCHANGED <<registered, poisoned, nextUid, nextTxnId, txnHandle,
                       txnId, call, outcome, shutAll>>
    PROVE  IndInv'
<1> USE DEF IndInv
<1> DEFINE rsp == Response(m, id, p)
<1>1. /\ Proc \subseteq Uid
      /\ \A q \in Proc : InTxn(q) => txnHandle[q] \in Uid \ Proc
    BY TxnHandles
<1>2. /\ m.transaction_id \in TxnId \cup {IW_UNDEFINED}
      /\ replied' = (replied \cup {m.transaction_id}) \ {IW_UNDEFINED}
      /\ IW_UNDEFINED \notin TxnId /\ replied \subseteq TxnId
      /\ registered \subseteq Uid
    BY DEF IwMessage, RepliedTo, TypeOK, TxnId, IW_UNDEFINED
<1>3. /\ queue' \in [Uid -> Seq(IwMessage)]
      /\ \A k \in Uid : (k # m.source \/ m.source \in poisoned \/ m.source \notin registered)
                          => queue'[k] = qs[k]
      /\ \A k \in Uid : k = m.source => Elems(queue'[k]) \subseteq Elems(qs[k]) \cup {rsp}
    <2> DEFINE ar == AfterResponse(qs, m, id, p)
    <2>1. /\ ar \in [Uid -> Seq(IwMessage)]
          /\ \A k \in Uid : (k # m.source \/ m.source \in poisoned
                                 \/ m.source \notin registered) => ar[k] = qs[k]
          /\ \A k \in Uid : k = m.source => Elems(ar[k]) \subseteq Elems(qs[k]) \cup {rsp}
        BY <1>2, AfterResponseQueues
    <2>2. queue' = ar
        OBVIOUS
    <2> QED
        BY <2>1, <2>2
<1>4. /\ \A q \in Proc : InTxn(q)' <=> InTxn(q)
      /\ \A q \in Proc : InTxn(q) => pc'[q] = pc[q]
      /\ \A q \in Proc, x \in {"created", "poisoned", "dead"} : pc'[q] = x <=> pc[q] = x
      /\ pc' \in [Proc -> States]
    BY DEF InTxn, TypeOK, States
<1>5. TypeOK'
    BY <1>2, <1>3, <1>4 DEF TypeOK
<1>6. Freshness' /\ PoisonedProcs' /\ \A q \in Proc : OwnTxn(q)'
    BY <1>4 DEF Freshness, PoisonedProcs, OwnTxn
<1>7. RegistrationsMatch'
    BY <1>4 DEF RegistrationsMatch
<1>8. ResponseMatchesRequest'
    BY <1>2 DEF ResponseMatchesRequest
<1>9. \A x : Genuine(x) => Genuine(x)'
    BY <1>4 DEF Genuine
<1>10. rsp.source = p /\ rsp.transaction_id = m.transaction_id /\ Genuine(rsp)
    <2>1. rsp.source = p /\ rsp.transaction_id = m.transaction_id
        BY DEF Response
    <2>2. p < nextUid
        BY SizesAssumption DEF Freshness, TypeOK, Proc
    <2>3. QED
        BY <1>1, <2>1, <2>2 DEF Genuine
<1>11. \A k \in Uid : Elems(queue'[k]) \subseteq Elems(queue[k]) \cup
                        (IF k = m.source THEN {rsp} ELSE {})
    BY <1>2, <1>3 DEF NoMoreThanQueue
<1>12. InFlight'
    <2>1. \A q \in Proc : held'[q] \cup Elems(queue'[q])
                              \subseteq held[q] \cup Elems(queue[q]) \cup {rsp}
        BY <1>1, <1>11
    <2>2. QED
        BY <1>9, <1>10, <2>1 DEF InFlight
<1>13. Answers'
    <2> SUFFICES ASSUME NEW q \in Proc, InTxn(q), NEW x \in Elems(queue'[txnHandle[q]])
                 PROVE  \/ x.transaction_id = txnId[q] /\ txnId[q] \in replied'
                        \/ x.transaction_id = IW_UNDEFINED /\ shutAll'
        BY <1>4 DEF Answers
    <2>1. CASE x \in Elems(queue[txnHandle[q]])
        BY <2>1, <1>2 DEF Answers
    <2>2. CASE x = rsp /\ txnHandle[q] = m.source
        <3>1. txnId[q] = m.transaction_id /\ txnId[q] \in TxnId
            BY <2>2, TxnHandles DEF Genuine
        <3>2. QED
            BY <2>2, <3>1, <1>2, <1>10
    <2>3. QED
        BY <2>1, <2>2, <1>1, <1>11
<1>14. NothingForTheDead'
    <2> SUFFICES ASSUME NEW h \in Uid, queue'[h] # <<>>
                 PROVE  \/ h \in Proc /\ pc'[h] \notin {"poisoned", "dead"}
                        \/ \E q \in Proc : InTxn(q)' /\ txnHandle[q] = h
        BY DEF NothingForTheDead
    <2>1. CASE queue[h] # <<>>
        BY <2>1, <1>4 DEF NothingForTheDead, InTxn
    <2>2. CASE queue[h] = <<>>
        <3>1. h = m.source /\ h \notin poisoned /\ h \in registered
            BY <2>2, <1>3 DEF NoMoreThanQueue
        <3>2. CASE h \in Proc
            BY <3>1, <3>2, <1>4 DEF PoisonedProcs
        <3>3. CASE h \notin Proc
            <4>1. PICK q \in Proc : InTxn(q) /\ txnHandle[q] = h
                BY <3>1, <3>3 DEF RegistrationsMatch
            <4>2. QED
                BY <4>1, <1>4
        <3>4. QED
            BY <3>2, <3>3
    <2>3. QED
        BY <2>1, <2>2
<1>15. QED
    BY <1>5, <1>6, <1>7, <1>8, <1>12, <1>13, <1>14

\* A step that starts no transaction, ends none and sends nothing keeps the
\* invariant: starting and stopping a process, or dropping messages.
LEMMA QuietIndInv ==
    ASSUME IndInv, NEW p \in Proc, ~InTxn(p),
           pc' \in [Proc -> States], ~InTxn(p)', \A q \in Proc \ {p} : pc'[q] = pc[q],
           queue' \in [Uid -> Seq(IwMessage)], NoMoreThanQueue(queue'),
           held' \in [Proc -> SUBSET IwMessage],
           \A q \in Proc : held'[q] \subseteq held[q] \cup Elems(queue[q]),
           registered' \subseteq Uid, poisoned' \subseteq Uid,
           registered' \ {p} = registered \ {p}, poisoned' \ {p} = poisoned \ {p},
           p \in registered' <=> pc'[p] \notin {"created", "dead"},
           p \in poisoned' <=> pc'[p] \in {"poisoned", "dead"},
           p \in poisoned' => queue'[p] = <<>>,
           UNCHANGED <<nextUid, nextTxnId, txnHandle, txnId, call, outcome, replied, shutAll>>
    PROVE  IndInv'
<1> USE DEF IndInv
<1>1. /\ Proc \subseteq Uid
      /\ \A q \in Proc : InTxn(q) => txnHandle[q] \in Uid \ Proc
    BY TxnHandles
<1>2. /\ \A q \in Proc : InTxn(q)' <=> InTxn(q)
      /\ \A q \in Proc : InTxn(q) => q # p /\ pc'[q] = pc[q]
    BY DEF InTxn
<1>3. TypeOK'
    BY DEF TypeOK
<1>4. Freshness'
    <2>1. p \in 1..(nextUid - 1)
        BY SizesAssumption DEF Freshness, TypeOK, Proc
    <2>2. QED
        BY <2>1 DEF Freshness
<1>5. PoisonedProcs'
    BY DEF PoisonedProcs
<1>6. \A q \in Proc : OwnTxn(q)'
    BY <1>1, <1>2 DEF OwnTxn
<1>7. RegistrationsMatch'
    <2> DEFINE T == {txnHandle[q] : q \in {x \in Proc : InTxn(x)}}
               A == {q \in Proc : pc[q] \notin {"created", "dead"}}
               B == {q \in Proc : pc'[q] \notin {"created", "dead"}}
    <2>1. registered = A \cup T
        BY DEF RegistrationsMatch
    <2>2. A \ {p} = B \ {p} /\ p \notin T /\ (p \in registered' <=> p \in B)
        BY <1>1
    <2>3. RegistrationsMatch' <=> registered' = B \cup T
        BY <1>2 DEF RegistrationsMatch
    <2>4. registered' = B \cup T
        <3> HIDE DEF A, B, T
        <3> QED
            BY <2>1, <2>2
    <2>5. QED
        BY <2>3, <2>4
<1>8. ResponseMatchesRequest'
    BY DEF ResponseMatchesRequest
<1>9. InFlight'
    <2>1. \A x : Genuine(x) => Genuine(x)'
        BY <1>2 DEF Genuine
    <2>2. \A q \in Proc : held'[q] \cup Elems(queue'[q]) \subseteq held[q] \cup Elems(queue[q])
        BY <1>1 DEF NoMoreThanQueue
    <2>3. QED
        BY <2>1, <2>2 DEF InFlight
<1>10. Answers'
    BY <1>1, <1>2 DEF Answers, NoMoreThanQueue
<1>11. NothingForTheDead'
    <2> SUFFICES ASSUME NEW h \in Uid, queue'[h] # <<>>
                 PROVE  \/ h \in Proc /\ pc'[h] \notin {"poisoned", "dead"}
                        \/ \E q \in Proc : InTxn(q)' /\ txnHandle'[q] = h
        BY DEF NothingForTheDead
    <2>1. queue[h] # <<>>
        BY DEF NoMoreThanQueue
    <2>2. CASE h = p
        BY <2>2
    <2>3. CASE h # p
        BY <2>1, <2>3, <1>2 DEF NothingForTheDead, InTxn
    <2>4. QED
        BY <2>2, <2>3
<1>12. QED
    BY <1>3, <1>4, <1>5, <1>6, <1>7, <1>8, <1>9, <1>10, <1>11

\* RegisterContext, the end of real_run and both halves of UnregisterContext.
LEMMA LifecycleIndInv ==
    ASSUME IndInv, NEW p \in Proc,
           RegisterContext(p) \/ Return(p) \/ Poison(p) \/ UnregisterContext(p)
    PROVE  IndInv'
<1>1. Proc \subseteq Uid
    BY TxnHandles
<1>2. /\ pc \in [Proc -> States] /\ held \in [Proc -> SUBSET IwMessage]
      /\ queue \in [Uid -> Seq(IwMessage)]
      /\ registered \subseteq Uid /\ poisoned \subseteq Uid
    BY DEF IndInv, TypeOK
<1>3. p \in registered <=> pc[p] \notin {"created", "dead"}
    BY TxnHandles DEF IndInv, RegistrationsMatch
<1>4. p \in poisoned <=> pc[p] \in {"poisoned", "dead"}
    BY DEF IndInv, PoisonedProcs
<1>5. p \in poisoned => queue[p] = <<>>
    BY <1>1, <1>4, TxnHandles DEF IndInv, NothingForTheDead, InTxn
<1>6. CASE RegisterContext(p)
    BY <1>1, <1>2, <1>3, <1>4, <1>5, <1>6, SameQueues, QuietIndInv
       DEF RegisterContext, InTxn, States, NoMoreThanQueue
<1>7. CASE Return(p)
    BY <1>1, <1>2, <1>3, <1>4, <1>5, <1>7, SameQueues, QuietIndInv
       DEF Return, InTxn, States, NoMoreThanQueue
<1>8. CASE Poison(p)
    <2>1. /\ queue' \in [Uid -> Seq(IwMessage)]
          /\ queue'[p] = <<>>
          /\ NoMoreThanQueue(queue')
        BY <1>1, <1>2, <1>8, EmptySeq, EmptyElems DEF Poison, NoMoreThanQueue
    <2>2. QED
        BY <1>1, <1>2, <1>3, <1>4, <1>8, <2>1, QuietIndInv
           DEF Poison, InTxn, States
<1>9. CASE UnregisterContext(p)
    BY <1>1, <1>2, <1>3, <1>4, <1>5, <1>9, SameQueues, QuietIndInv
       DEF UnregisterContext, InTxn, States, NoMoreThanQueue
<1>10. QED
    BY <1>6, <1>7, <1>8, <1>9

\* Delivering a genuine message to a process that can still be reached keeps
\* the invariant; the sender may go from sending to waiting with it.
LEMMA DeliverIndInv ==
    ASSUME IndInv, NEW p \in Proc, NEW d \in Proc, NEW m \in IwMessage, Genuine(m)',
           queue' \in [Uid -> Seq(IwMessage)],
           \A k \in Uid : k # d \/ d \in poisoned => queue'[k] = queue[k],
           Elems(queue'[d]) \subseteq Elems(queue[d]) \cup {m},
           pc' = pc \/ (pc[p] = "sending" /\ pc' = [pc EXCEPT ![p] = "waiting"]),
           nextTxnId' \in 1..(MaxTxnId + 1), nextTxnId' >= nextTxnId,
           call' \in [Proc -> Call],
           UNCHANGED <<registered, poisoned, nextUid, txnHandle, txnId,
                       held, outcome, replied, shutAll>>
    PROVE  IndInv'
<1> USE DEF IndInv
<1>1. /\ Proc \subseteq Uid
      /\ \A q \in Proc : InTxn(q) => txnHandle[q] \in Uid \ Proc
    BY TxnHandles
<1>2. /\ \A q \in Proc : InTxn(q)' <=> InTxn(q)
      /\ \A q \in Proc : pc'[q] = pc[q] \/ (pc[q] = "sending" /\ pc'[q] = "waiting")
      /\ pc' \in [Proc -> States]
    BY DEF InTxn, TypeOK, States
<1>3. TypeOK'
    BY <1>2 DEF TypeOK
<1>4. Freshness'
    <2>1. nextTxnId \in Int /\ nextTxnId' \in Int
          /\ \A q \in Proc : txnId[q] \in Int
        BY DEF TypeOK, TxnId, IW_UNDEFINED
    <2>2. QED
        BY <2>1 DEF Freshness, TxnId
<1>5. PoisonedProcs' /\ \A q \in Proc : OwnTxn(q)'
    BY <1>2 DEF PoisonedProcs, OwnTxn
<1>6. RegistrationsMatch'
    BY <1>2 DEF RegistrationsMatch
<1>7. ResponseMatchesRequest'
    BY DEF ResponseMatchesRequest
<1>8. InFlight'
    <2>1. \A x : Genuine(x) => Genuine(x)'
        BY <1>2 DEF Genuine
    <2>2. \A q \in Proc : held'[q] \cup Elems(queue'[q])
                              \subseteq held[q] \cup Elems(queue[q]) \cup {m}
        BY <1>1
    <2>3. QED
        BY <2>1, <2>2 DEF InFlight
<1>9. Answers'
    BY <1>1, <1>2 DEF Answers
<1>10. NothingForTheDead'
    <2> SUFFICES ASSUME NEW h \in Uid, queue'[h] # <<>>
                 PROVE  \/ h \in Proc /\ pc'[h] \notin {"poisoned", "dead"}
                        \/ \E q \in Proc : InTxn(q)' /\ txnHandle'[q] = h
        BY DEF NothingForTheDead
    <2>1. CASE queue[h] # <<>>
        BY <2>1, <1>2 DEF NothingForTheDead
    <2>2. CASE queue[h] = <<>>
        BY <2>2, <1>2 DEF PoisonedProcs
    <2>3. QED
        BY <2>1, <2>2
<1>11. QED
    BY <1>3, <1>4, <1>5, <1>6, <1>7, <1>8, <1>9, <1>10

\* DoRequestResponseTransaction takes a handle and an id nobody uses yet.
LEMMA BeginTxnIndInv ==
    ASSUME IndInv, NEW p \in Proc, NEW c \in Call, BeginTxn(p, c)
    PROVE  IndInv'
<1> USE DEF IndInv
<1>1. /\ Proc \subseteq Uid
      /\ \A q \in Proc : InTxn(q) => txnHandle[q] \in Uid \ Proc
    BY TxnHandles
<1>2. /\ nextUid \in Uid /\ nextUid > NumProcs /\ nextTxnId \in TxnId
      /\ nextUid \notin Proc
    BY SizesAssumption DEF BeginTxn, TypeOK, Freshness, Uid, TxnId, Proc
<1>3. /\ ~InTxn(p) /\ InTxn(p)' /\ pc'[p] = "sending" /\ pc[p] = "idle"
      /\ \A q \in Proc \ {p} : pc'[q] = pc[q] /\ (InTxn(q)' <=> InTxn(q))
      /\ \A q \in Proc \ {p} : txnHandle'[q] = txnHandle[q] /\ txnId'[q] = txnId[q]
      /\ txnHandle'[p] = nextUid /\ txnId'[p] = nextTxnId
    BY DEF BeginTxn, InTxn, TypeOK
<1>4. \A t \in TxnId : /\ t # nextTxnId => outcome'[t] = outcome[t]
                       /\ t = nextTxnId => outcome'[t].code = "open"
    BY DEF BeginTxn, TypeOK
<1>5. TypeOK'
    <2>1. outcome' \in [TxnId -> Outcome]
        BY <1>2 DEF BeginTxn, TypeOK, Outcome
    <2>2. nextUid' \in 1..(MaxUid + 1) /\ nextTxnId' \in 1..(MaxTxnId + 1)
        BY SizesAssumption DEF BeginTxn, TypeOK
    <2>3. pc' \in [Proc -> States] /\ registered' \subseteq Uid
          /\ txnHandle' \in [Proc -> Uid \cup {IW_UNDEFINED}]
          /\ txnId' \in [Proc -> TxnId \cup {IW_UNDEFINED}]
          /\ call' \in [Proc -> Call]
        BY <1>2 DEF BeginTxn, TypeOK, States
    <2>4. QED
        BY <2>1, <2>2, <2>3 DEF BeginTxn, TypeOK
<1>6. nextUid' = nextUid + 1 /\ nextTxnId' = nextTxnId + 1
      /\ nextUid \in Int /\ nextTxnId \in Int
    BY DEF BeginTxn, TypeOK
<1>7. \A q \in Proc : txnHandle[q] \in Int /\ txnId[q] \in Int
                       /\ txnHandle[q] < nextUid /\ txnId[q] < nextTxnId
    BY DEF TypeOK, Freshness, Uid, TxnId, IW_UNDEFINED
<1>8. Freshness'
    <2>1. (registered \cup poisoned)' \subseteq 1..(nextUid' - 1)
        BY <1>2, <1>6 DEF BeginTxn, Freshness, Uid
    <2>2. \A q \in Proc : txnHandle'[q] < nextUid' /\ txnId'[q] < nextTxnId'
        BY <1>3, <1>6, <1>7
    <2>3. \A t \in TxnId : t >= nextTxnId' => outcome'[t].code = "none"
        <3> SUFFICES ASSUME NEW t \in TxnId, t >= nextTxnId'
                     PROVE  outcome'[t].code = "none"
            OBVIOUS
        <3>1. t # nextTxnId /\ t >= nextTxnId
            BY <1>6 DEF TxnId
        <3>2. outcome[t].code = "none"
            BY <3>1 DEF Freshness
        <3>3. QED
            BY <1>4, <3>1, <3>2
    <2>4. NumProcs < nextUid'
        BY <1>2, <1>6, SizesAssumption
    <2>5. QED
        BY <2>1, <2>2, <2>3, <2>4 DEF Freshness
<1>9. \A q \in Proc : OwnTxn(q)'
    <2>1. nextUid \notin poisoned
        BY <1>6 DEF Freshness
    <2>2. \A q \in Proc : txnHandle[q] # nextUid /\ txnId[q] # nextTxnId
        BY <1>6, <1>7
    <2>3. UNCHANGED poisoned
        BY DEF BeginTxn
    <2>4. OwnTxn(p)'
        BY <1>2, <1>3, <1>4, <2>1, <2>2, <2>3 DEF OwnTxn
    <2>5. ASSUME NEW q \in Proc, q # p PROVE OwnTxn(q)'
        <3>1. InTxn(q) => outcome'[txnId[q]] = outcome[txnId[q]]
            BY <1>4, <2>2 DEF OwnTxn
        <3>2. QED
            BY <1>3, <2>2, <2>3, <2>5, <3>1 DEF OwnTxn
    <2>6. QED
        BY <2>4, <2>5
<1>10. \A h \in Uid : queue'[h] = queue[h] /\ (queue[h] # <<>> => h # nextUid)
    BY <1>2, <1>6, <1>7 DEF BeginTxn, NothingForTheDead
<1>11. InFlight'
    <2>1. \A x \in IwMessage : Genuine(x) => Genuine(x)'
        BY <1>3, <1>6 DEF Genuine, IwMessage, Uid, IW_UNDEFINED
    <2>2. \A q \in Proc : held[q] \cup Elems(queue[q]) \subseteq IwMessage
        BY <1>1, EmptyElems DEF TypeOK
    <2>3. \A q \in Proc : held'[q] \cup Elems(queue'[q]) = held[q] \cup Elems(queue[q])
        BY DEF BeginTxn
    <2>4. QED
        BY <2>1, <2>2, <2>3 DEF InFlight
<1>12. Answers'
    <2>1. queue'[nextUid] = <<>>
        BY <1>2, <1>10
    <2>2. UNCHANGED <<replied, shutAll>>
        BY DEF BeginTxn
    <2>3. QED
        BY <1>1, <1>3, <1>10, <2>1, <2>2, EmptyElems DEF Answers
<1>13. PoisonedProcs'
    BY <1>3 DEF PoisonedProcs, BeginTxn
<1>14. RegistrationsMatch'
    <2> DEFINE T == {txnHandle[q] : q \in {x \in Proc : InTxn(x)}}
               T1 == {txnHandle'[q] : q \in {x \in Proc : InTxn(x)'}}
               A == {q \in Proc : pc[q] \notin {"created", "dead"}}
    <2>1. T1 = T \cup {nextUid}
        BY <1>3
    <2>2. registered' = registered \cup {nextUid} /\ registered = A \cup T
        BY DEF BeginTxn, RegistrationsMatch
    <2>3. A = {q \in Proc : pc'[q] \notin {"created", "dead"}}
        BY <1>3
    <2>4. registered' = A \cup T1
        <3> HIDE DEF A, T, T1
        <3> QED
            BY <2>1, <2>2
    <2>5. QED
        BY <2>3, <2>4 DEF RegistrationsMatch
<1>15. NothingForTheDead'
    BY <1>3, <1>10 DEF NothingForTheDead
<1>16. ResponseMatchesRequest'
    BY <1>4 DEF ResponseMatchesRequest, BeginTxn
<1>17. QED
    BY <1>5, <1>8, <1>9, <1>11, <1>12, <1>13, <1>14, <1>15, <1>16

\* The send of a request: refused at once, or delivered with the id of the
\* transaction that now waits for its answer.
LEMMA SendRequestIndInv ==
    ASSUME IndInv, NEW p \in Proc, SendRequest(p)
    PROVE  IndInv'
<1> DEFINE c == call[p]
           m == [message_id |-> c.message_id, source |-> txnHandle[p],
                 transaction_id |-> txnId[p]]
<1>1. InTxn(p) /\ pc[p] = "sending"
    BY DEF SendRequest, InTxn
<1>2. /\ Proc \subseteq Uid
      /\ txnHandle[p] \in Uid \ Proc /\ txnId[p] \in TxnId
    BY <1>1, TxnHandles
<1>3. c \in Call /\ queue \in [Uid -> Seq(IwMessage)] /\ pc \in [Proc -> States]
      /\ nextTxnId \in 1..(MaxTxnId + 1)
    BY DEF IndInv, TypeOK
<1>4. c.dest \in Proc /\ c.dest \in Uid /\ m \in IwMessage
    BY <1>2, <1>3 DEF Call, IwMessage
<1>5. CASE EndTxn(p, "API_UNKNOWN_DESTINATION", IW_UNDEFINED, queue) /\ UNCHANGED call
    BY <1>1, <1>3, <1>5, SameQueues, EndTxnIndInv DEF SendRequest, ApiErrorCode
<1>6. CASE /\ queue' = AfterSend(queue, c.dest, m)
           /\ pc' = [pc EXCEPT ![p] = "waiting"]
           /\ call' = [call EXCEPT ![p] = NoCall(p)]
           /\ UNCHANGED <<registered, poisoned, outcome>>
    <2>0. PICK x \in IwMessage, d \in Proc : x = m /\ d = c.dest
        BY <1>4
    <2>1. Genuine(x)'
        <3>1. txnHandle[p] < nextUid
              /\ \A q \in Proc : q # p /\ InTxn(q) => txnHandle[q] # txnHandle[p]
            BY <1>1 DEF IndInv, Freshness, OwnTxn
        <3>2. \A q \in Proc : q # p => pc'[q] = pc[q]
            BY <1>3, <1>6
        <3>3. UNCHANGED <<nextUid, txnHandle, txnId>> /\ pc'[p] = "waiting"
            BY <1>3, <1>6 DEF SendRequest
        <3>4. QED
            BY <2>0, <3>1, <3>2, <3>3 DEF Genuine, InTxn
    <2>2. /\ queue' \in [Uid -> Seq(IwMessage)]
          /\ \A k \in Uid : k # c.dest \/ c.dest \in poisoned => queue'[k] = queue[k]
          /\ Elems(queue'[c.dest]) \subseteq Elems(queue[c.dest]) \cup {m}
        <3> DEFINE as == AfterSend(queue, c.dest, m)
        <3>1. /\ as \in [Uid -> Seq(IwMessage)]
              /\ \A k \in Uid : k # c.dest \/ c.dest \in poisoned => as[k] = queue[k]
              /\ Elems(as[c.dest]) \subseteq Elems(queue[c.dest]) \cup {m}
            <4> HIDE DEF m, c
            <4> QED
                BY <1>3, <1>4, AfterSendQueues
        <3>2. queue' = as
            BY <1>6
        <3>3. QED
            BY <3>1, <3>2
    <2>3. UNCHANGED <<registered, poisoned, nextUid, nextTxnId, txnHandle, txnId,
                      held, outcome, replied, shutAll>>
        BY <1>6 DEF SendRequest
    <2>4. call' \in [Proc -> Call]
        BY <1>6 DEF IndInv, TypeOK, NoCall, Call, RequestIds
    <2>5. nextTxnId' \in 1..(MaxTxnId + 1) /\ nextTxnId' >= nextTxnId
        BY <1>3, <2>3
    <2>6. QED
        <3> HIDE DEF m, c
        <3> QED
            BY <1>1, <1>6, <2>0, <2>1, <2>2, <2>3, <2>4, <2>5, DeliverIndInv
<1>7. QED
    BY <1>5, <1>6 DEF SendRequest

\* SendMessage of an event: its source is a process, not a transaction.
LEMMA SendEventIndInv ==
    ASSUME IndInv, NEW p \in Proc, NEW d \in Proc, SendEvent(p, d)
    PROVE  IndInv'
<1> DEFINE m == [message_id |-> "EVT", source |-> p, transaction_id |-> nextTxnId]
<1>1. /\ Proc \subseteq Uid
      /\ \A q \in Proc : InTxn(q) => txnHandle[q] \in Uid \ Proc
    BY TxnHandles
<1>2. queue \in [Uid -> Seq(IwMessage)] /\ nextTxnId \in 1..(MaxTxnId + 1)
      /\ nextTxnId \in TxnId /\ nextUid \in Int /\ p < nextUid
    BY SizesAssumption DEF IndInv, TypeOK, SendEvent, TxnId, Freshness, Proc
<1>3. m \in IwMessage
    BY <1>1, <1>2 DEF IwMessage
<1>4. queue' = AfterSendMessage(queue, d, m)
      /\ UNCHANGED <<registered, poisoned, nextUid, pc, txnHandle, txnId, call,
                     held, outcome, replied, shutAll>>
    BY DEF SendEvent
<1>0. PICK x \in IwMessage : x = m
    BY <1>3
<1>5. Genuine(x)'
    BY <1>0, <1>1, <1>2, <1>4 DEF Genuine, InTxn
<1>6. nextTxnId' \in 1..(MaxTxnId + 1) /\ nextTxnId' >= nextTxnId
    BY <1>2, SizesAssumption DEF SendEvent, TxnId
<1>7. /\ queue' \in [Uid -> Seq(IwMessage)]
      /\ \A k \in Uid : k # d \/ d \in poisoned => queue'[k] = queue[k]
      /\ Elems(queue'[d]) \subseteq Elems(queue[d]) \cup {m}
    <2> DEFINE as == AfterSendMessage(queue, d, m)
    <2>1. /\ as \in [Uid -> Seq(IwMessage)]
          /\ \A k \in Uid : k # d \/ d \in poisoned \/ d \notin registered
                              => as[k] = queue[k]
          /\ Elems(as[d]) \subseteq Elems(queue[d]) \cup {m}
        <3>1. d \in Uid
            BY <1>1
        <3> HIDE DEF m
        <3>2. QED
            BY <1>2, <1>3, <3>1, AfterSendMessageQueues
    <2>2. queue' = as
        BY <1>4
    <2>3. QED
        BY <2>1, <2>2
<1>8. call' \in [Proc -> Call]
    BY <1>4 DEF IndInv, TypeOK
<1>9. QED
    <2> HIDE DEF m
    <2> QED
        BY <1>0, <1>4, <1>5, <1>6, <1>7, <1>8, DeliverIndInv

\* WaitForTxnResponse: an out-of-band message, a response, or the timeout.
LEMMA WaitStepIndInv ==
    ASSUME IndInv, NEW p \in Proc, WaitStep(p)
    PROVE  IndInv'
<1>1. InTxn(p) /\ pc[p] = "waiting"
    BY DEF WaitStep, ReceiveOOB, ReceiveResponse, Timeout, InTxn
<1>2. /\ Proc \subseteq Uid /\ p \in Uid
      /\ txnHandle[p] \in Uid \ Proc /\ txnId[p] \in TxnId
    BY <1>1, TxnHandles
<1>3. TypeOK /\ queue \in [Uid -> Seq(IwMessage)] /\ held \in [Proc -> SUBSET IwMessage]
    BY DEF IndInv, TypeOK
<1>4. CASE ReceiveOOB(p)
    <2> DEFINE rest == [queue EXCEPT ![p] = Tail(@)]
    <2>1. queue[p] # <<>>
        BY <1>4 DEF ReceiveOOB
    <2>2. /\ rest \in [Uid -> Seq(IwMessage)] /\ NoMoreThanQueue(rest)
          /\ Head(queue[p]) \in IwMessage /\ Head(queue[p]) \in Elems(queue[p])
        BY <1>2, <1>3, <2>1, ReadQueues
    <2>3. PICK m \in IwMessage : m = Head(queue[p])
        BY <2>2
    <2>4. Genuine(m)
        BY <2>2, <2>3 DEF IndInv, InFlight
    <2>5. CASE m.message_id = "PING"
        <3>1. /\ queue' = AfterResponse(rest, m, "PONG", p)
              /\ replied' = RepliedTo(m)
              /\ pc' = pc /\ held' = held
              /\ UNCHANGED <<registered, poisoned, nextUid, nextTxnId, txnHandle,
                             txnId, call, outcome, shutAll>>
            BY <1>4, <2>3, <2>5 DEF ReceiveOOB
        <3>2. "PONG" \in ResponseIds
            BY DEF ResponseIds
        <3> HIDE DEF rest
        <3>3. QED
            BY <1>3, <2>2, <2>4, <3>1, <3>2, ReplyIndInv
    <2>6. CASE m.message_id # "PING"
        <3>1. EndTxn(p, "API_UNKNOWN_RESPONSE", IW_UNDEFINED, rest)
              /\ UNCHANGED <<nextUid, nextTxnId, txnHandle, txnId, call, held, replied, shutAll>>
            BY <1>4, <2>3, <2>6 DEF ReceiveOOB
        <3> HIDE DEF rest
        <3>2. QED
            BY <1>1, <2>2, <3>1, EndTxnIndInv DEF ApiErrorCode
    <2>7. QED
        BY <2>5, <2>6
<1>5. CASE ReceiveResponse(p)
    <2> DEFINE h == txnHandle[p]
    <2>1. queue[h] # <<>> /\ queue[h] \in Seq(IwMessage)
        BY <1>2, <1>3, <1>5 DEF ReceiveResponse
    <2>2. Head(queue[h]) \in Elems(queue[h])
        BY <2>1, TailElems
    <2>3. PICK r : /\ r = Head(queue[h]).transaction_id
                   /\ \/ r = txnId[p] /\ txnId[p] \in replied
                      \/ r = IW_UNDEFINED /\ shutAll
        BY <1>1, <2>2 DEF IndInv, Answers
    <2>4. EndTxn(p, "API_SUCCESS", r, queue)
          /\ UNCHANGED <<nextUid, nextTxnId, txnHandle, txnId, call, held, replied, shutAll>>
        BY <1>5, <2>3 DEF ReceiveResponse
    <2>5. QED
        BY <1>1, <1>2, <1>3, <2>3, <2>4, SameQueues, EndTxnIndInv DEF ApiErrorCode
<1>6. CASE Timeout(p)
    BY <1>1, <1>3, <1>6, SameQueues, EndTxnIndInv DEF Timeout, ApiErrorCode
<1>7. QED
    BY <1>4, <1>5, <1>6 DEF WaitStep

\* The message loop of a server: what it reads from its own inbound handle.
LEMMA GetInboundIndInv ==
    ASSUME IndInv, NEW p \in Proc, GetInboundMessage(p)
    PROVE  IndInv'
<1> DEFINE rest == [queue EXCEPT ![p] = Tail(@)]
<1>1. pc[p] = "idle" /\ queue[p] # <<>> /\ ~InTxn(p)
    BY DEF GetInboundMessage, InTxn
<1>2. Proc \subseteq Uid /\ p \in Uid
    BY TxnHandles
<1>3. /\ TypeOK /\ queue \in [Uid -> Seq(IwMessage)] /\ pc \in [Proc -> States]
      /\ held \in [Proc -> SUBSET IwMessage]
      /\ registered \subseteq Uid /\ poisoned \subseteq Uid
    BY DEF IndInv, TypeOK
<1>4. /\ rest \in [Uid -> Seq(IwMessage)] /\ NoMoreThanQueue(rest)
      /\ Head(queue[p]) \in IwMessage /\ Head(queue[p]) \in Elems(queue[p])
    BY <1>1, <1>2, <1>3, ReadQueues
<1>5. PICK m \in IwMessage : m = Head(queue[p])
    BY <1>4
<1>6. Genuine(m)
    BY <1>4, <1>5 DEF IndInv, InFlight
<1>7. UNCHANGED <<registered, poisoned, nextUid, nextTxnId, txnHandle, txnId,
                  call, outcome, shutAll>>
    BY DEF GetInboundMessage
<1>8. CASE m.message_id \in {"PING", "SHUTDOWN_REQ"}
    <2>1. PICK id \in ResponseIds : id = ResponseTo(m)
        BY DEF ResponseTo, ResponseIds
    <2>2. /\ queue' = AfterResponse(rest, m, id, p)
          /\ replied' = RepliedTo(m)
          /\ held' = held
          /\ pc' = [pc EXCEPT ![p] = IF m.message_id = "PING" THEN @ ELSE "stopping"]
        BY <1>5, <1>8, <2>1 DEF GetInboundMessage, RequestIds
    <2>3. pc' = pc \/ pc' = [pc EXCEPT ![p] = "stopping"]
        BY <1>3, <2>2
    <2> HIDE DEF rest
    <2>4. QED
        BY <1>1, <1>3, <1>4, <1>6, <1>7, <2>2, <2>3, ReplyIndInv
<1>9. CASE m.message_id \notin {"PING", "SHUTDOWN_REQ"}
    <2>1. /\ queue' = rest /\ pc' = pc /\ replied' = replied
          /\ held' = held \/ held' = [held EXCEPT ![p] = @ \cup {m}]
        BY <1>5, <1>9 DEF GetInboundMessage, RequestIds
    <2>0. /\ held' \in [Proc -> SUBSET IwMessage]
          /\ \A q \in Proc : held'[q] \subseteq held[q] \cup Elems(queue[q])
        <3>1. m \in Elems(queue[p])
            BY <1>4, <1>5
        <3>2. CASE held' = held
            BY <1>3, <3>2
        <3>3. CASE held' = [held EXCEPT ![p] = @ \cup {m}]
            BY <1>3, <3>1, <3>3
        <3>4. QED
            BY <2>1, <3>2, <3>3
    <2>2. p \in registered /\ p \notin poisoned
        BY <1>1 DEF IndInv, RegistrationsMatch, PoisonedProcs
    <2>3. ~InTxn(p)'
        BY <1>1, <2>1 DEF InTxn
    <2> HIDE DEF rest
    <2>4. QED
        BY <1>1, <1>2, <1>3, <1>4, <1>7, <2>0, <2>1, <2>2, <2>3, QuietIndInv
<1>10. QED
    BY <1>8, <1>9

\* SendResponse to a held request, the last one or one of several.
LEMMA SendResponseIndInv ==
    ASSUME IndInv, NEW p \in Proc, NEW m \in held[p], NEW keep \in BOOLEAN,
           SendResponse(p, m, keep)
    PROVE  IndInv'
<1>1. queue \in [Uid -> Seq(IwMessage)] /\ held \in [Proc -> SUBSET IwMessage]
    BY DEF IndInv, TypeOK
<1>2. m \in IwMessage /\ Genuine(m)
    BY <1>1 DEF IndInv, InFlight
<1>3. PICK id \in ResponseIds : id = ResponseTo(m)
    BY DEF ResponseTo, ResponseIds
<1>4. held' \in [Proc -> SUBSET IwMessage] /\ \A q \in Proc : held'[q] \subseteq held[q]
    BY <1>1 DEF SendResponse
<1>5. QED
    BY <1>1, <1>2, <1>3, <1>4, SameQueues, ReplyIndInv DEF SendResponse

\* UnReliableShutdownAll adds its request to the channels of processes that
\* run and of running transactions.
LEMMA ShutdownAllIndInv ==
    ASSUME IndInv, UnReliableShutdownAll
    PROVE  IndInv'
<1> USE DEF IndInv
<1>1. /\ Proc \subseteq Uid
      /\ \A q \in Proc : InTxn(q) => txnHandle[q] \in Uid \ Proc
    BY TxnHandles
<1>2. PICK m : m = ShutdownAllReq
    OBVIOUS
<1>3. /\ m \in IwMessage /\ m.source = IW_UNDEFINED
      /\ m.transaction_id = IW_UNDEFINED
    BY <1>2 DEF ShutdownAllReq, IwMessage, RequestIds
<1>4. queue \in [Uid -> Seq(IwMessage)] /\ registered \subseteq Uid
    BY DEF TypeOK
<1>5. \A h \in Uid : queue'[h] = IF h \in registered THEN AfterSend(queue, h, m)[h]
                                                      ELSE queue[h]
    BY <1>2 DEF UnReliableShutdownAll
<1>6. \A h \in Uid : /\ AfterSend(queue, h, m) \in [Uid -> Seq(IwMessage)]
                     /\ h \in poisoned => AfterSend(queue, h, m)[h] = queue[h]
                     /\ Elems(AfterSend(queue, h, m)[h]) \subseteq Elems(queue[h]) \cup {m}
    <2> SUFFICES ASSUME NEW h \in Uid
                 PROVE  /\ AfterSend(queue, h, m) \in [Uid -> Seq(IwMessage)]
                        /\ h \in poisoned => AfterSend(queue, h, m)[h] = queue[h]
                        /\ Elems(AfterSend(queue, h, m)[h]) \subseteq Elems(queue[h]) \cup {m}
        OBVIOUS
    <2>1. /\ AfterSend(queue, h, m) \in [Uid -> Seq(IwMessage)]
          /\ \A k \in Uid : k # h \/ h \in poisoned => AfterSend(queue, h, m)[k] = queue[k]
          /\ Elems(AfterSend(queue, h, m)[h]) \subseteq Elems(queue[h]) \cup {m}
        BY <1>3, <1>4, AfterSendQueues
    <2>2. QED
        BY <2>1
<1>7. /\ queue' \in [Uid -> Seq(IwMessage)]
      /\ \A h \in Uid : h \notin registered \/ h \in poisoned => queue'[h] = queue[h]
      /\ \A h \in Uid : Elems(queue'[h]) \subseteq Elems(queue[h]) \cup {m}
    <2>1. \A h \in Uid : queue'[h] \in Seq(IwMessage)
        BY <1>4, <1>5, <1>6
    <2>2. queue' = [h \in Uid |-> queue'[h]]
        BY DEF UnReliableShutdownAll
    <2>3. QED
        BY <1>5, <1>6, <2>1, <2>2
<1>8. /\ UNCHANGED <<registered, poisoned, nextUid, nextTxnId, pc, txnHandle,
                     txnId, call, held, outcome, replied>>
      /\ shutAll' = TRUE
    BY DEF UnReliableShutdownAll
<1>9. TypeOK'
    BY <1>7, <1>8 DEF TypeOK
<1>10. /\ Freshness' /\ PoisonedProcs' /\ RegistrationsMatch'
       /\ \A q \in Proc : OwnTxn(q)'
    BY <1>8 DEF Freshness, PoisonedProcs, RegistrationsMatch, OwnTxn, InTxn
<1>11. ResponseMatchesRequest'
    BY <1>8 DEF ResponseMatchesRequest
<1>12. InFlight'
    <2>1. \A x : Genuine(x) => Genuine(x)'
        BY <1>8 DEF Genuine, InTxn
    <2>2. Genuine(m)
        BY <1>1, <1>3, SizesAssumption DEF Genuine, Freshness, TypeOK, Uid, IW_UNDEFINED
    <2>3. QED
        BY <1>1, <1>7, <1>8, <2>1, <2>2 DEF InFlight
<1>13. Answers'
    BY <1>1, <1>3, <1>7, <1>8 DEF Answers, InTxn
<1>14. NothingForTheDead'
    <2> SUFFICES ASSUME NEW h \in Uid, queue'[h] # <<>>
                 PROVE  \/ h \in Proc /\ pc[h] \notin {"poisoned", "dead"}
                        \/ \E q \in Proc : InTxn(q) /\ txnHandle[q] = h
        BY <1>8 DEF NothingForTheDead, InTxn
    <2>1. CASE queue[h] # <<>>
        BY <2>1 DEF NothingForTheDead
    <2>2. CASE queue[h] = <<>>
        <3>1. h \in registered /\ h \notin poisoned
            BY <1>7, <2>2
        <3>2. QED
            BY <3>1 DEF RegistrationsMatch, PoisonedProcs
    <2>3. QED
        BY <2>1, <2>2
<1>15. QED
    BY <1>9, <1>10, <1>11, <1>12, <1>13, <1>14

\* A step that changes nothing keeps the invariant.
LEMMA StutterIndInv ==
    ASSUME IndInv, UNCHANGED vars
    PROVE  IndInv'
BY DEF vars, IndInv, TypeOK, Freshness, OwnTxn, InFlight, Genuine, Answers,
       PoisonedProcs, RegistrationsMatch, NothingForTheDead,
       ResponseMatchesRequest, InTxn

\* Every step of Next keeps the inductive invariant.
LEMMA NextIndInv == IndInv /\ [Next]_vars => IndInv'
<1> SUFFICES ASSUME IndInv, [Next]_vars PROVE IndInv'
    OBVIOUS
<1>1. CASE UNCHANGED vars
    BY <1>1, StutterIndInv
<1>2. CASE UnReliableShutdownAll
    BY <1>2, ShutdownAllIndInv
<1>3. CASE Next /\ ~UnReliableShutdownAll
    <2> PICK p \in Proc :
            \/ RegisterContext(p)
            \/ \E c \in Call : BeginTxn(p, c)
            \/ SendRequest(p)
            \/ WaitStep(p)
            \/ GetInboundMessage(p)
            \/ \E m \in held[p], keep \in BOOLEAN : SendResponse(p, m, keep)
            \/ \E d \in Proc : SendEvent(p, d)
            \/ Return(p)
            \/ Poison(p)
            \/ UnregisterContext(p)
        BY <1>3 DEF Next, WaitStep
    <2>1. CASE RegisterContext(p) \/ Return(p) \/ Poison(p) \/ UnregisterContext(p)
        BY <2>1, LifecycleIndInv
    <2>2. CASE \E c \in Call : BeginTxn(p, c)
        BY <2>2, BeginTxnIndInv
    <2>3. CASE SendRequest(p)
        BY <2>3, SendRequestIndInv
    <2>4. CASE WaitStep(p)
        BY <2>4, WaitStepIndInv
    <2>5. CASE GetInboundMessage(p)
        BY <2>5, GetInboundIndInv
    <2>6. CASE \E m \in held[p], keep \in BOOLEAN : SendResponse(p, m, keep)
        BY <2>6, SendResponseIndInv
    <2>7. CASE \E d \in Proc : SendEvent(p, d)
        BY <2>7, SendEventIndInv
    <2>8. QED
        BY <2>1, <2>2, <2>3, <2>4, <2>5, <2>6, <2>7
<1>4. QED
    BY <1>1, <1>2, <1>3

-----------------------------------------------------------------------------
(* The results. *)

\* The inductive invariant holds in every reachable state.
THEOREM Invariance == Spec => []IndInv
BY InitIndInv, NextIndInv, PTL DEF Spec

\* Every variable of the messaging core stays in its domain.
THEOREM TypeCorrect == Spec => []TypeOK
<1>1. IndInv => TypeOK
    BY DEF IndInv
<1>2. QED
    BY <1>1, Invariance, PTL

\* What RunningContext::WaitForTxnResponse returns as the response is always
\* a reply to the caller's own request, although no transaction id is
\* compared, or the request of UnReliableShutdownAll.
THEOREM ResponseSafety == Spec => []ResponseMatchesRequest
<1>1. IndInv => ResponseMatchesRequest
    BY DEF IndInv
<1>2. QED
    BY <1>1, Invariance, PTL

\* LocalProcessRegistrar holds exactly the handles of live processes and
\* running transactions: RegistrationGuard leaks none.
THEOREM NoRegistrationLeak == Spec => []RegistrationsMatch
<1>1. IndInv => RegistrationsMatch
    BY DEF IndInv
<1>2. QED
    BY <1>1, Invariance, PTL

\* No message is stored on a channel that nobody will read.
THEOREM NoStrandedMessages == Spec => []NothingForTheDead
<1>1. IndInv => NothingForTheDead
    BY DEF IndInv
<1>2. QED
    BY <1>1, Invariance, PTL

-----------------------------------------------------------------------------
(* The messaging core implements TxnService.                               *)

\* A request on its way carries the id of a transaction that was opened, so
\* that what is replied to it is a reply of the abstract service.
OpenedMsg(m) ==
    m.message_id \in RequestIds /\ m.transaction_id # IW_UNDEFINED
        => outcome[m.transaction_id].code # "none"
Opened ==
    \A p \in Proc : /\ \A m \in held[p] \cup Elems(queue[p]) : OpenedMsg(m)
                    /\ \A m \in held[p] : m.message_id \in RequestIds

\* What is on its way to a process is a message.
LEMMA InboundType ==
    ASSUME IndInv
    PROVE  \A q \in Proc : \A m \in held[q] \cup Elems(queue[q]) :
               m \in IwMessage /\ m.transaction_id \in TxnId \cup {IW_UNDEFINED}
<1>1. Proc \subseteq Uid
    BY TxnHandles
<1>2. \A q \in Proc : held[q] \subseteq IwMessage /\ Elems(queue[q]) \subseteq IwMessage
    BY <1>1, EmptyElems DEF IndInv, TypeOK
<1> QED
    BY <1>2 DEF IwMessage

\* Opened is kept by a step that adds only opened requests, and messages that are
\* not requests, to the inbound channels and takes back no transaction.
LEMMA OpenedKept ==
    ASSUME IndInv, Opened,
           \A t \in TxnId : outcome[t].code # "none" => outcome'[t].code # "none",
           \A q \in Proc :
               /\ \A m \in held'[q] \cup Elems(queue'[q]) :
                      m \in held[q] \cup Elems(queue[q]) \/ OpenedMsg(m)'
               /\ \A m \in held'[q] : m \in held[q] \/ m.message_id \in RequestIds
    PROVE  Opened'
BY InboundType DEF Opened, OpenedMsg

\* The end of a transaction is a Succeed or a Fail of the service, and opens or
\* forgets none.
LEMMA EndTxnStep ==
    ASSUME IndInv, Opened, NEW p \in Proc, InTxn(p),
           NEW code \in ApiErrorCode, NEW r,
           NEW qs \in [Uid -> Seq(IwMessage)], NoMoreThanQueue(qs),
           code = "API_SUCCESS" => txnId[p] \in replied \/ shutAll,
           EndTxn(p, code, r, qs),
           UNCHANGED <<held, replied, shutAll>>
    PROVE  Service!Next /\ Opened'
<1>1. /\ Proc \subseteq Uid
      /\ txnHandle[p] \in Uid \ Proc /\ txnId[p] \in TxnId
    BY TxnHandles
<1>2. outcome[txnId[p]].code = "open"
    BY DEF IndInv, OwnTxn
<1>3. outcome' = [outcome EXCEPT ![txnId[p]] = [code |-> code, response |-> r]]
      /\ outcome \in [TxnId -> Outcome]
    BY DEF EndTxn, IndInv, TypeOK
<1>4. [t \in TxnId |-> outcome'[t].code]
        = [[t \in TxnId |-> outcome[t].code] EXCEPT ![txnId[p]] = code]
    BY <1>1, <1>3
<1>5. Service!Next
    <2>0. PICK t \in TxnId : t = txnId[p]
        BY <1>1
    <2>1. CASE code = "API_SUCCESS"
        <3>1. Service!Succeed(t)
            BY <2>0, <1>2, <1>4, <2>1 DEF Service!Succeed
        <3> QED
            BY <3>1 DEF Service!Next
    <2>2. CASE code # "API_SUCCESS"
        <3>1. code \in Service!Failures
            BY <2>2 DEF ApiErrorCode, Service!Failures
        <3>2. Service!Fail(t)
            BY <2>0, <1>2, <1>4, <3>1 DEF Service!Fail
        <3> QED
            BY <3>2 DEF Service!Next
    <2> QED
        BY <2>1, <2>2
<1>6. Opened'
    <2>1. \A q \in Proc : Elems(queue'[q]) \subseteq Elems(queue[q])
        BY <1>1 DEF EndTxn, NoMoreThanQueue
    <2>3. \A t \in TxnId : outcome[t].code # "none" => outcome'[t].code # "none"
        BY <1>1, <1>3 DEF ApiErrorCode
    <2> QED
        BY <2>1, <2>3, OpenedKept
<1> QED
    BY <1>5, <1>6


\* A reply to a request is a Reply of the service, or changes nothing of it if the
\* request is that of UnReliableShutdownAll.
LEMMA ReplyStep ==
    ASSUME IndInv, Opened, NEW p \in Proc, NEW m \in IwMessage,
           m.message_id \in RequestIds, OpenedMsg(m),
           NEW id \in ResponseIds,
           NEW qs \in [Uid -> Seq(IwMessage)], NoMoreThanQueue(qs),
           queue' = AfterResponse(qs, m, id, p),
           replied' = RepliedTo(m),
           \A q \in Proc : held'[q] \subseteq held[q],
           UNCHANGED <<outcome, shutAll>>
    PROVE  [Service!Next]_(Service!svars) /\ Opened'
<1>1. Proc \subseteq Uid
    BY TxnHandles
<1>2. m.transaction_id \in TxnId \cup {IW_UNDEFINED} /\ IW_UNDEFINED \notin TxnId
      /\ replied \subseteq TxnId /\ registered \subseteq Uid
    BY DEF IwMessage, TxnId, IW_UNDEFINED, IndInv, TypeOK
<1>3. [Service!Next]_(Service!svars)
    <2>1. CASE m.transaction_id = IW_UNDEFINED
        BY <1>2, <2>1 DEF RepliedTo, Service!svars
    <2>2. CASE m.transaction_id # IW_UNDEFINED
        <3>1. PICK t \in TxnId : t = m.transaction_id
            BY <1>2, <2>2
        <3>2. replied' = replied \cup {t} /\ outcome[t].code # "none"
            BY <1>2, <2>2, <3>1 DEF RepliedTo, OpenedMsg
        <3>3. Service!Reply(t)
            BY <3>2 DEF Service!Reply
        <3> QED
            BY <3>3 DEF Service!Next
    <2> QED
        BY <2>1, <2>2
<1>4. Opened'
    <2>1. PICK x : x = Response(m, id, p)
        OBVIOUS
    <2>2. \A q \in Proc : Elems(queue'[q]) \subseteq Elems(queue[q]) \cup {x}
        <3>1. \A k \in Uid : \/ queue'[k] = qs[k]
                             \/ Elems(queue'[k]) \subseteq Elems(qs[k]) \cup {x}
            BY <1>2, <2>1, AfterResponseQueues
        <3> QED
            BY <1>1, <3>1 DEF NoMoreThanQueue
    <2>3. x.message_id \notin RequestIds
        BY <2>1 DEF Response, ResponseIds, RequestIds
    <2>4. OpenedMsg(x)'
        BY <2>3 DEF OpenedMsg
    <2> QED
        BY <2>2, <2>4, OpenedKept
<1> QED
    BY <1>3, <1>4

\* Steps that leave outcome, replied and shutAll alone and add no request but an
\* opened one.
LEMMA SilentStep ==
    ASSUME IndInv, Opened, NEW x, OpenedMsg(x),
           UNCHANGED <<outcome, replied, shutAll>>,
           \A q \in Proc :
               /\ held'[q] \subseteq held[q]
                    \cup {m \in Elems(queue[q]) : m.message_id \in RequestIds}
               /\ Elems(queue'[q]) \subseteq Elems(queue[q]) \cup {x}
    PROVE  [Service!Next]_(Service!svars) /\ Opened'
<1>1. OpenedMsg(x)'
    BY DEF OpenedMsg
<1>2. Opened'
    BY <1>1, OpenedKept
<1> QED
    BY <1>2 DEF Service!svars

\* DoRequestResponseTransaction opens the next transaction.
LEMMA BeginTxnStep ==
    ASSUME IndInv, Opened, NEW p \in Proc, NEW c \in Call, BeginTxn(p, c)
    PROVE  [Service!Next]_(Service!svars) /\ Opened'
<1>1. PICK t \in TxnId : t = nextTxnId
    BY DEF BeginTxn, IndInv, TypeOK, TxnId
<1>2. outcome[t].code = "none"
    BY <1>1 DEF IndInv, Freshness, TypeOK
<1>3. outcome' = [outcome EXCEPT ![t].code = "open"] /\ outcome \in [TxnId -> Outcome]
    BY <1>1 DEF BeginTxn, IndInv, TypeOK
<1>4. \A u \in TxnId : outcome'[u].code = IF u = t THEN "open" ELSE outcome[u].code
    BY <1>3 DEF Outcome
<1>5. [u \in TxnId |-> outcome'[u].code]
        = [[u \in TxnId |-> outcome[u].code] EXCEPT ![t] = "open"]
    BY <1>4
<1>6. Service!Open(t)
    BY <1>2, <1>5 DEF Service!Open, BeginTxn
<1>7. Opened'
    BY <1>4, OpenedKept DEF BeginTxn
<1> QED
    BY <1>6, <1>7 DEF Service!Next

\* SendRequest puts a request of its own, opened transaction on its way, or ends it.
LEMMA SendRequestStep ==
    ASSUME IndInv, Opened, NEW p \in Proc, SendRequest(p)
    PROVE  [Service!Next]_(Service!svars) /\ Opened'
<1> DEFINE c == call[p]
           m == [message_id |-> c.message_id, source |-> txnHandle[p],
                 transaction_id |-> txnId[p]]
<1>1. InTxn(p)
    BY DEF SendRequest, InTxn
<1>2. /\ Proc \subseteq Uid
      /\ txnHandle[p] \in Uid \ Proc /\ txnId[p] \in TxnId
      /\ outcome[txnId[p]].code = "open"
    BY <1>1, TxnHandles DEF IndInv, OwnTxn
<1>3. c \in Call /\ queue \in [Uid -> Seq(IwMessage)]
    BY DEF IndInv, TypeOK
<1>4. c.dest \in Uid /\ m \in IwMessage
    BY <1>2, <1>3 DEF Call, IwMessage
<1>5. CASE EndTxn(p, "API_UNKNOWN_DESTINATION", IW_UNDEFINED, queue)
    BY <1>1, <1>3, <1>5, SameQueues, EndTxnStep DEF SendRequest, ApiErrorCode
<1>6. CASE queue' = AfterSend(queue, c.dest, m) /\ UNCHANGED outcome
    <2>1. PICK x \in IwMessage, d \in Uid : x = m /\ d = c.dest
        BY <1>4
    <2>2. OpenedMsg(x)
        BY <1>2, <2>1 DEF OpenedMsg
    <2>3. \A q \in Proc : Elems(queue'[q]) \subseteq Elems(queue[q]) \cup {x}
        <3>1. queue' = AfterSend(queue, d, x)
            BY <1>6, <2>1
        <3>2. /\ \A k \in Uid : k # d \/ d \in poisoned => AfterSend(queue, d, x)[k] = queue[k]
              /\ Elems(AfterSend(queue, d, x)[d]) \subseteq Elems(queue[d]) \cup {x}
            BY <1>3, AfterSendQueues
        <3> QED
            BY <1>2, <3>1, <3>2
    <2>4. UNCHANGED <<held, outcome, replied, shutAll>>
        BY <1>6 DEF SendRequest
    <2> QED
        BY <2>2, <2>3, <2>4, SilentStep
<1> QED
    BY <1>5, <1>6 DEF SendRequest

\* WaitForTxnResponse ends its transaction or answers a ping.
LEMMA WaitStepStep ==
    ASSUME IndInv, Opened, NEW p \in Proc, WaitStep(p)
    PROVE  [Service!Next]_(Service!svars) /\ Opened'
<1>1. InTxn(p)
    BY DEF WaitStep, ReceiveOOB, ReceiveResponse, Timeout, InTxn
<1>2. /\ Proc \subseteq Uid /\ p \in Uid
      /\ txnHandle[p] \in Uid \ Proc /\ txnId[p] \in TxnId
    BY <1>1, TxnHandles
<1>3. TypeOK /\ queue \in [Uid -> Seq(IwMessage)]
    BY DEF IndInv, TypeOK
<1>4. CASE ReceiveOOB(p)
    <2> DEFINE rest == [queue EXCEPT ![p] = Tail(@)]
    <2>1. queue[p] # <<>>
        BY <1>4 DEF ReceiveOOB
    <2>2. /\ rest \in [Uid -> Seq(IwMessage)] /\ NoMoreThanQueue(rest)
          /\ Head(queue[p]) \in IwMessage /\ Head(queue[p]) \in Elems(queue[p])
        BY <1>2, <1>3, <2>1, ReadQueues
    <2>3. PICK m \in IwMessage : m = Head(queue[p])
        BY <2>2
    <2>4. OpenedMsg(m)
        BY <2>2, <2>3 DEF Opened
    <2>5. CASE m.message_id = "PING"
        <3>1. /\ queue' = AfterResponse(rest, m, "PONG", p)
              /\ replied' = RepliedTo(m)
              /\ held' = held /\ UNCHANGED <<outcome, shutAll>>
            BY <1>4, <2>3, <2>5 DEF ReceiveOOB
        <3>2. "PONG" \in ResponseIds /\ m.message_id \in RequestIds
            BY <2>5 DEF ResponseIds, RequestIds
        <3> HIDE DEF rest
        <3> QED
            BY <2>2, <2>4, <3>1, <3>2, ReplyStep
    <2>6. CASE m.message_id # "PING"
        <3>1. EndTxn(p, "API_UNKNOWN_RESPONSE", IW_UNDEFINED, rest)
              /\ UNCHANGED <<held, replied, shutAll>>
            BY <1>4, <2>3, <2>6 DEF ReceiveOOB
        <3> HIDE DEF rest
        <3> QED
            BY <1>1, <2>2, <3>1, EndTxnStep DEF ApiErrorCode
    <2> QED
        BY <2>5, <2>6
<1>5. CASE ReceiveResponse(p)
    <2> DEFINE h == txnHandle[p]
    <2>1. queue[h] # <<>> /\ queue[h] \in Seq(IwMessage)
        BY <1>2, <1>3, <1>5 DEF ReceiveResponse
    <2>2. Head(queue[h]) \in Elems(queue[h])
        BY <2>1, TailElems
    <2>3. txnId[p] \in replied \/ shutAll
        BY <1>1, <2>2 DEF IndInv, Answers
    <2>4. EndTxn(p, "API_SUCCESS", Head(queue[h]).transaction_id, queue)
          /\ UNCHANGED <<held, replied, shutAll>>
        BY <1>5 DEF ReceiveResponse
    <2> QED
        BY <1>1, <1>3, <2>3, <2>4, SameQueues, EndTxnStep DEF ApiErrorCode
<1>6. CASE Timeout(p)
    BY <1>1, <1>3, <1>6, SameQueues, EndTxnStep DEF Timeout, ApiErrorCode
<1> QED
    BY <1>4, <1>5, <1>6 DEF WaitStep

\* The message loop of a server replies, keeps a request, or drops an event.
LEMMA GetInboundStep ==
    ASSUME IndInv, Opened, NEW p \in Proc, GetInboundMessage(p)
    PROVE  [Service!Next]_(Service!svars) /\ Opened'
<1> DEFINE rest == [queue EXCEPT ![p] = Tail(@)]
<1>1. Proc \subseteq Uid /\ TypeOK /\ queue[p] # <<>>
      /\ held \in [Proc -> SUBSET IwMessage]
    BY TxnHandles DEF IndInv, TypeOK, GetInboundMessage
<1>2. /\ rest \in [Uid -> Seq(IwMessage)] /\ NoMoreThanQueue(rest)
      /\ Head(queue[p]) \in IwMessage /\ Head(queue[p]) \in Elems(queue[p])
    BY <1>1, ReadQueues
<1>3. PICK m \in IwMessage : m = Head(queue[p])
    BY <1>2
<1>4. OpenedMsg(m) /\ m \in Elems(queue[p])
    BY <1>2, <1>3 DEF Opened
<1>5. CASE m.message_id \in {"PING", "SHUTDOWN_REQ"}
    <2>1. PICK id \in ResponseIds : id = ResponseTo(m)
        BY DEF ResponseTo, ResponseIds
    <2>2. /\ queue' = AfterResponse(rest, m, id, p)
          /\ replied' = RepliedTo(m)
          /\ held' = held /\ UNCHANGED <<outcome, shutAll>>
        BY <1>3, <1>5, <2>1 DEF GetInboundMessage, RequestIds
    <2>3. m.message_id \in RequestIds
        BY <1>5 DEF RequestIds
    <2> HIDE DEF rest
    <2> QED
        BY <1>2, <1>4, <2>2, <2>3, ReplyStep
<1>6. CASE m.message_id \notin {"PING", "SHUTDOWN_REQ"}
    <2>1. /\ queue' = rest /\ UNCHANGED <<outcome, replied, shutAll>>
          /\ \/ held' = held
             \/ m.message_id = "REQ" /\ held' = [held EXCEPT ![p] = @ \cup {m}]
        BY <1>3, <1>6 DEF GetInboundMessage, RequestIds
    <2>2. \A q \in Proc : held'[q] \subseteq held[q]
              \cup {x \in Elems(queue[q]) : x.message_id \in RequestIds}
        <3>1. CASE held' = held
            BY <3>1
        <3>2. CASE m.message_id = "REQ" /\ held' = [held EXCEPT ![p] = @ \cup {m}]
            BY <1>1, <1>4, <3>2 DEF RequestIds
        <3> QED
            BY <2>1, <3>1, <3>2
    <2>3. \A q \in Proc : Elems(queue'[q]) \subseteq Elems(queue[q]) \cup {m}
        BY <1>1, <1>2, <2>1 DEF NoMoreThanQueue
    <2> QED
        BY <1>4, <2>1, <2>2, <2>3, SilentStep
<1> QED
    BY <1>5, <1>6

\* SendResponse to a held request.
LEMMA SendResponseStep ==
    ASSUME IndInv, Opened, NEW p \in Proc, NEW m \in held[p], NEW keep \in BOOLEAN,
           SendResponse(p, m, keep)
    PROVE  [Service!Next]_(Service!svars) /\ Opened'
<1>1. queue \in [Uid -> Seq(IwMessage)] /\ held \in [Proc -> SUBSET IwMessage]
    BY DEF IndInv, TypeOK
<1>2. m \in IwMessage /\ OpenedMsg(m) /\ m.message_id \in RequestIds
    BY <1>1 DEF Opened
<1>3. PICK id \in ResponseIds : id = ResponseTo(m)
    BY DEF ResponseTo, ResponseIds
<1>4. \A q \in Proc : held'[q] \subseteq held[q]
    BY <1>1 DEF SendResponse
<1> QED
    BY <1>1, <1>2, <1>3, <1>4, SameQueues, ReplyStep DEF SendResponse

\* Events, the start and the end of a process change nothing of the service.
LEMMA OtherStep ==
    ASSUME IndInv, Opened, NEW p \in Proc,
           \/ \E d \in Proc : SendEvent(p, d)
           \/ RegisterContext(p) \/ Return(p) \/ Poison(p) \/ UnregisterContext(p)
    PROVE  [Service!Next]_(Service!svars) /\ Opened'
<1> DEFINE m == [message_id |-> "EVT", source |-> p, transaction_id |-> nextTxnId]
<1>1. /\ Proc \subseteq Uid
      /\ queue \in [Uid -> Seq(IwMessage)] /\ held \in [Proc -> SUBSET IwMessage]
      /\ nextTxnId \in 1..(MaxTxnId + 1)
    BY TxnHandles DEF IndInv, TypeOK
<1>2. OpenedMsg(m)
    BY DEF OpenedMsg, RequestIds
<1>3. ASSUME NEW d \in Proc, SendEvent(p, d)
      PROVE  [Service!Next]_(Service!svars) /\ Opened'
    <2>1. nextTxnId \in TxnId
        BY <1>1, <1>3, SizesAssumption DEF SendEvent, TxnId
    <2>2. PICK x \in IwMessage : x = m
        BY <1>1, <2>1 DEF IwMessage
    <2>3. queue' = AfterSendMessage(queue, d, x)
          /\ UNCHANGED <<held, outcome, replied, shutAll>>
        BY <1>3, <2>2 DEF SendEvent
    <2>4. /\ AfterSendMessage(queue, d, x) \in [Uid -> Seq(IwMessage)]
          /\ \A k \in Uid : k # d \/ d \in poisoned \/ d \notin registered
                              => AfterSendMessage(queue, d, x)[k] = queue[k]
          /\ Elems(AfterSendMessage(queue, d, x)[d]) \subseteq Elems(queue[d]) \cup {x}
        <3>1. d \in Uid /\ queue \in [Uid -> Seq(IwMessage)]
            BY <1>1
        <3> HIDE DEF m
        <3> QED
            BY <3>1, AfterSendMessageQueues
    <2>5. \A q \in Proc : Elems(queue'[q]) \subseteq Elems(queue[q]) \cup {x}
        BY <1>1, <2>3, <2>4
    <2>6. OpenedMsg(x)
        BY <1>2, <2>2
    <2> QED
        BY <2>3, <2>5, <2>6, SilentStep
<1>4. CASE RegisterContext(p) \/ Return(p) \/ Poison(p) \/ UnregisterContext(p)
    <2>1. /\ UNCHANGED <<outcome, replied, shutAll>>
          /\ \A q \in Proc : held'[q] \subseteq held[q]
          /\ \A q \in Proc : queue'[q] = queue[q] \/ queue'[q] = <<>>
        BY <1>1, <1>4 DEF RegisterContext, Return, Poison, UnregisterContext
    <2>2. \A q \in Proc : Elems(queue'[q]) \subseteq Elems(queue[q]) \cup {m}
        BY <2>1, EmptyElems
    <2> HIDE DEF m
    <2> QED
        BY <1>2, <2>1, <2>2, SilentStep
<1> QED
    BY <1>3, <1>4

\* UnReliableShutdownAll is the TearDown of the service.
LEMMA ShutdownAllStep ==
    ASSUME IndInv, Opened, UnReliableShutdownAll
    PROVE  [Service!Next]_(Service!svars) /\ Opened'
<1>1. Proc \subseteq Uid /\ queue \in [Uid -> Seq(IwMessage)]
    BY TxnHandles DEF IndInv, TypeOK
<1>2. PICK m \in IwMessage : m = ShutdownAllReq
    BY DEF ShutdownAllReq, IwMessage, RequestIds
<1>3. OpenedMsg(m)'
    BY <1>2 DEF OpenedMsg, ShutdownAllReq
<1>4. \A h \in Uid : Elems(queue'[h]) \subseteq Elems(queue[h]) \cup {m}
    <2> SUFFICES ASSUME NEW h \in Uid PROVE Elems(queue'[h]) \subseteq Elems(queue[h]) \cup {m}
        OBVIOUS
    <2>1. Elems(AfterSend(queue, h, m)[h]) \subseteq Elems(queue[h]) \cup {m}
        BY <1>1, AfterSendQueues
    <2> QED
        BY <1>2, <2>1 DEF UnReliableShutdownAll
<1>5. Opened'
    BY <1>1, <1>3, <1>4, OpenedKept DEF UnReliableShutdownAll
<1>6. Service!TearDown
    BY DEF UnReliableShutdownAll, Service!TearDown
<1> QED
    BY <1>5, <1>6 DEF Service!Next

\* Every step of the messaging core is a step of TxnService or leaves it alone.
LEMMA NextStep ==
    ASSUME IndInv, Opened, [Next]_vars
    PROVE  [Service!Next]_(Service!svars) /\ Opened'
<1>1. CASE UNCHANGED vars
    <2>1. Opened'
        BY <1>1 DEF Opened, OpenedMsg, vars
    <2> QED
        BY <1>1, <2>1 DEF vars, Service!svars
<1>2. CASE UnReliableShutdownAll
    BY <1>2, ShutdownAllStep
<1>3. ASSUME NEW p \in Proc,
             \/ \E c \in Call : BeginTxn(p, c)
             \/ SendRequest(p)
             \/ WaitStep(p)
             \/ GetInboundMessage(p)
             \/ \E m \in held[p], keep \in BOOLEAN : SendResponse(p, m, keep)
      PROVE  [Service!Next]_(Service!svars) /\ Opened'
    BY <1>3, BeginTxnStep, SendRequestStep, WaitStepStep, GetInboundStep, SendResponseStep
<1>4. ASSUME NEW p \in Proc,
             \/ \E d \in Proc : SendEvent(p, d)
             \/ RegisterContext(p) \/ Return(p) \/ Poison(p) \/ UnregisterContext(p)
      PROVE  [Service!Next]_(Service!svars) /\ Opened'
    BY <1>4, OtherStep
<1> QED
    BY <1>1, <1>2, <1>3, <1>4 DEF Next, WaitStep

\* RunningContext's transactions implement TxnService: each is opened once and
\* closed once, and succeeds only if somebody has replied to it or the system is
\* torn down, whatever is late, repeated, refused or poisoned.
THEOREM Refinement == Spec => ImplementsTxnService
<1>1. Init => Service!Init /\ Opened
    <2> SUFFICES ASSUME Init PROVE Service!Init /\ Opened
        OBVIOUS
    <2>1. Service!Init
        BY DEF Init, Service!Init
    <2>2. \A q \in Proc : held[q] = {} /\ Elems(queue[q]) = {}
        BY EmptyElems, TxnHandles, InitIndInv DEF Init
    <2> QED
        BY <2>1, <2>2 DEF Opened
<1>2. IndInv /\ Opened /\ [Next]_vars => [Service!Next]_(Service!svars) /\ Opened'
    BY NextStep
<1> QED
    BY <1>1, <1>2, Invariance, PTL DEF Spec, ImplementsTxnService, Service!SafeSpec
=============================================================================

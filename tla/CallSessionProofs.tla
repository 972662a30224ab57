-------------------------- MODULE CallSessionProofs --------------------------
(***************************************************************************)
(* The steps of the stack keep the invariant of CallSessionInv, and what   *)
(* follows: the variables stay in their domains, a request hits a call of  *)
(* its own session, a call that is gone was reported, a session has one    *)
(* live call, and an offer is made on a connected dialog only.  With one   *)
(* invariant more, Served, every step is shown to be a step of CallService *)
(* or none.                                                                *)
(***************************************************************************)
EXTENDS CallSessionInv

-----------------------------------------------------------------------------
(* The end of the stack: what Shutdown sends.                              *)

\* A set of one element at most, as a sequence.
LEMMA SetToSeqOfFew ==
    ASSUME NEW S, \A x, y \in S : x = y
    PROVE  \A q : q = SetToSeq(S) =>
               /\ q \in Seq(S)
               /\ \A x \in S : Len(q) = 1 /\ q[1] = x
               /\ S = {} => Len(q) = 0
<1> SUFFICES ASSUME NEW q, q = SetToSeq(S)
    PROVE  /\ q \in Seq(S)
           /\ \A x \in S : Len(q) = 1 /\ q[1] = x
           /\ S = {} => Len(q) = 0
  OBVIOUS
<1>1. CASE S = {}
  <2>1. Cardinality(S) = 0  BY <1>1, FS_EmptySet
  <2>2. q = CHOOSE f \in [1..0 -> S] : IsInjective(f)  BY <2>1 DEF SetToSeq
  <2>3. PICK g : g = [i \in 1..0 |-> i]  OBVIOUS
  <2>4. g \in [1..0 -> S] /\ IsInjective(g)  BY <2>3 DEF IsInjective
  <2>5. q \in [1..0 -> S]  BY <2>2, <2>4
  <2> QED  BY <1>1, <2>5
<1>2. CASE S # {}
  <2>1. PICK x : S = {x}  BY <1>2
  <2>2. Cardinality(S) = 1  BY <2>1, FS_Singleton
  <2>3. q = CHOOSE f \in [1..1 -> S] : IsInjective(f)  BY <2>2 DEF SetToSeq
  <2>4. PICK g : g = [i \in 1..1 |-> x]  OBVIOUS
  <2>5. g \in [1..1 -> S] /\ IsInjective(g)  BY <2>1, <2>4 DEF IsInjective
  <2>6. q \in [1..1 -> S]  BY <2>3, <2>5
  <2>7. q[1] = x  BY <2>1, <2>6
  <2>8. Len(q) = 1  BY <2>6
  <2>9. q \in Seq(S)
    <3>1. PICK n \in Nat : n = 1  OBVIOUS
    <3>2. q \in [1..n -> S]  BY <2>6, <3>1
    <3> QED  BY <3>2
  <2> QED  BY <2>1, <2>7, <2>8, <2>9
<1> QED  BY <1>1, <1>2

-----------------------------------------------------------------------------
(* The request that is handled.                                            *)

LEMMA HandlesFacts ==
    ASSUME TypeOK, NEW k, Handles(k)
    PROVE  /\ stackUp /\ 1 \in Inbound /\ Msg = stackInbound[1] /\ stackInbound[1].kind = k
           /\ InboundTyped' /\ InboundShifts(1)
           /\ k \in Request => stackInbound[1] \in SessionRequest
<1>1. PICK E : E = SessionRequest \cup Subscribe  OBVIOUS
<1>2. stackInbound \in Seq(E) /\ stackInbound # <<>> /\ stackInbound' = Tail(stackInbound)
  BY <1>1, TypeParts DEF InboundTyped, Handles
<1>3. /\ 1 \in 1..Len(stackInbound) /\ Head(stackInbound) = stackInbound[1] /\ Head(stackInbound) \in E
      /\ stackInbound' \in Seq(E)
      /\ \A i \in 1..Len(stackInbound') : i + 1 \in 1..Len(stackInbound) /\ stackInbound'[i] = stackInbound[i + 1]
  BY <1>2, HeadAndTail
<1>4. /\ stackUp /\ stackInbound[1].kind = k  BY <1>3 DEF Handles
<1>5. InboundTyped' /\ InboundShifts(1)  BY <1>1, <1>3 DEF InboundTyped, InboundShifts, Inbound
<1>6. k \in Request => stackInbound[1] \in SessionRequest
  BY <1>1, <1>3, <1>4 DEF Subscribe, Request
<1> QED  BY <1>3, <1>4, <1>5, <1>6 DEF Inbound, Msg

\* The call that a handle of the map names.
LEMMA NamedCall ==
    ASSUME Inv, NEW h, Named(h)
    PROVE  \A c : c = iwHandlesMap[h] =>
               c \in Contexts /\ ctx[c].handle = h /\ ctx[c].dialog \in Live \ {"inviting"}
BY DEF Inv, TypeOK, Naming, MapLeadsToLive, Named

LEMMA NameOf ==
    ASSUME Inv, NEW c \in Contexts, Named(ctx[c].handle)
    PROVE  iwHandlesMap[ctx[c].handle] = c
<1>1. PICK h, d : h = ctx[c].handle /\ d = iwHandlesMap[h]  OBVIOUS
<1>2. d \in Contexts /\ ctx[d].handle = h  BY <1>1, NamedCall
<1> QED  BY <1>1, <1>2 DEF Inv, Naming, OneHandle

\* A request names a call of its session.
LEMMA HandledCall ==
    ASSUME Inv, NEW k \in Request, Handles(k), Named(Msg.handle)
    PROVE  \A c : c = iwHandlesMap[Msg.handle] =>
               /\ c \in Contexts /\ ctx[c].handle = stackInbound[1].handle
               /\ ctx[c].session = stackInbound[1].session
               /\ ctx[c].dialog \in Live \ {"inviting"}
<1>1. /\ 1 \in Inbound /\ Msg = stackInbound[1] /\ stackInbound[1].kind \in Request
  BY HandlesFacts DEF Inv
<1>2. PICK h, x, c : h = stackInbound[1].handle /\ x = stackInbound[1].session /\ c = iwHandlesMap[h]
  OBVIOUS
<1>3. Named(h)  BY <1>1, <1>2
<1>4. c \in Contexts /\ ctx[c].handle = h /\ ctx[c].dialog \in Live \ {"inviting"}
  BY <1>2, <1>3, NamedCall
<1>5. h # IW_UNDEFINED  BY <1>3 DEF Inv, TypeOK, Named, Handle, IW_UNDEFINED
<1>6. OwnHandle(x, h)  BY <1>1, <1>2 DEF Inv, Ownership
<1>7. ctx[c].session = x  BY <1>4, <1>5, <1>6 DEF OwnHandle, Inv, Naming, OneHandle
<1> QED  BY <1>1, <1>2, <1>4, <1>7

-----------------------------------------------------------------------------
(* A step that touches no context.                                         *)

LEMMA FramedSessions ==
    ASSUME TypeOK, UNCHANGED sessionVars
    PROVE  StackFrame /\ SessionTyped'
BY TypeParts DEF sessionVars, StackFrame, SessionTyped

LEMMA PastFields ==
    ASSUME Inv, NEW x \in Session, NEW c \in Contexts, op[x] # "deleted", ctx[c].session = x
    PROVE  ctx[c].makeCallReq <= txn[x] /\ ctx[c].reofferReq <= txn[x] /\ ctx[c].makeCallAck <= txn[x]
BY DEF Inv, Tokens, Past

LEMMA StillKept ==
    ASSUME Inv, NEW n \in {0, 1}, UNCHANGED sessionVars, UNCHANGED <<ctx, iwHandlesMap, callIndex, resipId>>,
           eventsHandle' \in 0..MaxSubscribes, UNCHANGED stackUp,
           AcceptTyped', InboundTyped', InboundShifts(n), ReadyTyped', Delivers
    PROVE  Inv'
<1>1. TypeOK /\ Naming  BY DEF Inv
<1>2. StackFrame /\ SessionTyped'  BY <1>1, FramedSessions
<1>3. StackTyped'  BY <1>1, TypeParts DEF StackTyped, Contexts
<1>4. TypeOK'  BY <1>2, <1>3, TypePartsNext
<1>5. Naming'
  BY <1>1 DEF Naming, Counters, HandleIssued, OneHandle, MapLeadsToLive, CallIsOurs, Started, Contexts
<1>6. ContextsGrow  BY DEF ContextsGrow, Contexts
<1>7. MapKept(n)
  <2>1. \A c \in Contexts, h \in Handle : ctx[c].handle = h /\ Named(h) => iwHandlesMap[h] = c
    BY NameOf
  <2> QED  BY <2>1 DEF MapKept, Named
<1>8. CallsMove(n)  BY DEF CallsMove, Contexts
<1>9. TokensMove(n)
  <2>1. txn' = txn  BY DEF sessionVars
  <2> QED  BY <2>1 DEF TokensMove, Contexts, WillAnswer
<1>10. FieldsPast  BY PastFields DEF FieldsPast, Contexts
<1>11. BuiltHasContext  BY DEF BuiltHasContext, Contexts
<1>12. EndsReported
  <2>1. told' = told  BY DEF sessionVars
  <2>2. ASSUME NEW x \in Session, NEW c \in Contexts, Reported(c, x) PROVE Reported(c, x)'
    BY <2>1, <2>2 DEF Reported, Named, Delivers
  <2>3. \A c \in Contexts' : c \in Contexts /\ ctx'[c] = ctx[c]  BY DEF Contexts
  <2> QED  BY <2>2, <2>3 DEF EndsReported
<1> QED
  BY <1>2, <1>4, <1>5, <1>6, <1>7, <1>8, <1>9, <1>10, <1>11, <1>12, StackKept

-----------------------------------------------------------------------------
(* A step that touches one context.                                        *)

\* Context c becomes r: its session and its handle stay, it does not come back
\* to life, and its transactions have been asked for.
Touch(c, r) ==
    /\ ctx' = [ctx EXCEPT ![c] = r]
    /\ r.session = ctx[c].session /\ r.handle = ctx[c].handle
    /\ r.dialog # "inviting"
    /\ ctx[c].dialog \notin Live => r.dialog \notin Live
    /\ \A x \in Session : op[x] # "deleted" /\ r.session = x =>
          r.makeCallReq <= txn[x] /\ r.reofferReq <= txn[x] /\ r.makeCallAck <= txn[x]

\* What it owes it owed before, or it is asked for by the request handled.
Owes(n, c, r) ==
    \A x \in Session, o \in TxnOp : op[x] \in TxnOp /\ WillAnswer(c, x, o)' =>
        \/ WillAnswer(c, x, o)
        \/ /\ n = 1 /\ 1 \in Inbound /\ OpenRequest(1, x) /\ AskedBy(stackInbound[1].kind, o)
           /\ o = "ReOffer" => stackInbound[1].kind = "REOFFER_REQ" /\ r.handle = stackInbound[1].handle

\* Its name stays, is removed with a report of the end, or is new.
NameStays(n, c, r) ==
    /\ UNCHANGED <<iwHandlesMap, resipId>>
    /\ ctx[c].dialog # "inviting" /\ r.dialog \in Live
    /\ ctx[c].dialog = "connected" =>
          r.dialog = "connected" \/ (n = 1 /\ 1 \in Inbound /\ IsReoffer(1, ctx[c].handle))
NameGoes(c, r) ==
    /\ iwHandlesMap' = Without(iwHandlesMap, ctx[c].handle) /\ UNCHANGED resipId
    /\ ctx[c].dialog = "inviting" => r.dialog = "over"
    /\ ctx[c].dialog = "over" => r.dialog = "over"
    /\ Hears(c) \/ r.dialog = "ending"
NameComes(c, r) ==
    /\ iwHandlesMap' = Plus(iwHandlesMap, ctx[c].handle, c) /\ resipId' = resipId + 1
    /\ ctx[c].dialog = "inviting" /\ r.dialog = "early"

LEMMA ContextFacts ==
    ASSUME TypeOK
    PROVE  /\ Len(ctx) \in Nat /\ Len(ctx) <= MaxContexts /\ Contexts = 1..Len(ctx)
           /\ ctx \in Seq(Context)
           /\ \A c \in Contexts : ctx[c] \in Context /\ c \in 1..MaxContexts
<1>1. PICK E : E = Context  OBVIOUS
<1>2. ctx \in Seq(E) /\ Len(ctx) <= MaxContexts  BY <1>1, TypeParts DEF StackTyped
<1>3. Len(ctx) \in Nat /\ Contexts = 1..Len(ctx)  BY <1>2 DEF Contexts
<1>4. \A c \in Contexts : ctx[c] \in E  BY <1>2 DEF Contexts
<1> QED  BY <1>1, <1>2, <1>3, <1>4, BoundsAssumption

LEMMA TouchContexts ==
    ASSUME TypeOK, NEW c \in Contexts, NEW r \in Context, ctx' = [ctx EXCEPT ![c] = r]
    PROVE  /\ ctx' \in Seq(Context) /\ Len(ctx') = Len(ctx) /\ Contexts' = Contexts
           /\ ctx'[c] = r /\ \A e \in Contexts : e # c => ctx'[e] = ctx[e]
<1>1. PICK E : E = Context  OBVIOUS
<1>2. ctx \in Seq(E) /\ r \in E /\ c \in 1..Len(ctx)  BY <1>1, ContextFacts
<1>3. /\ ctx' \in Seq(E) /\ Len(ctx') = Len(ctx)
      /\ ctx'[c] = r /\ \A e \in 1..Len(ctx) : e # c => ctx'[e] = ctx[e]
  BY <1>2
<1> QED  BY <1>1, <1>3 DEF Contexts

\* The dialogs that have an id of resip are finitely many.
LEMMA ContextCount ==
    ASSUME TypeOK
    PROVE  IsFiniteSet(Contexts) /\ Cardinality(Contexts) = Len(ctx)
<1>1. Len(ctx) \in Nat /\ Contexts = 1..Len(ctx)  BY ContextFacts
<1> QED  BY <1>1, FS_Interval

LEMMA StartedFinite ==
    ASSUME TypeOK
    PROVE  /\ IsFiniteSet(Started) /\ Cardinality(Started) \in Nat
           /\ Cardinality(Started) <= Len(ctx)
           /\ Started # Contexts => Cardinality(Started) < Len(ctx)
<1>1. Len(ctx) \in Nat /\ Contexts = 1..Len(ctx)  BY ContextFacts
<1>2. IsFiniteSet(Contexts) /\ Cardinality(Contexts) = Len(ctx)  BY ContextCount
<1>3. Started \in SUBSET Contexts  BY DEF Started
<1>4. /\ IsFiniteSet(Started) /\ Cardinality(Started) <= Cardinality(Contexts)
      /\ Cardinality(Contexts) = Cardinality(Started) => Contexts = Started
  BY <1>2, <1>3, FS_Subset
<1>5. Cardinality(Started) \in Nat  BY <1>4, FS_CardinalityType
<1> QED  BY <1>1, <1>2, <1>4, <1>5

LEMMA TouchStarted ==
    ASSUME TypeOK, NEW c \in Contexts, NEW r \in Context, ctx' = [ctx EXCEPT ![c] = r],
           r.dialog # "inviting"
    PROVE  Cardinality(Started)' = IF ctx[c].dialog = "inviting" THEN Cardinality(Started) + 1
                                                                ELSE Cardinality(Started)
<1>1. /\ Contexts' = Contexts /\ ctx'[c] = r /\ \A e \in Contexts : e # c => ctx'[e] = ctx[e]
  BY TouchContexts
<1>2. Started' = Started \cup {c}  BY <1>1 DEF Started
<1>3. c \in Started <=> ctx[c].dialog # "inviting"  BY DEF Started
<1>4. PICK S : S = Started  OBVIOUS
<1>5. IsFiniteSet(S)  BY <1>4, StartedFinite
<1>6. Cardinality(S \cup {c}) = IF c \in S THEN Cardinality(S) ELSE Cardinality(S) + 1
  BY <1>5, FS_AddElement
<1>7. Cardinality(Started)' = Cardinality(S \cup {c})  BY <1>2, <1>4
<1> QED  BY <1>3, <1>4, <1>6, <1>7

LEMMA TouchNaming ==
    ASSUME Inv, NEW n \in {0, 1}, NEW c \in Contexts, NEW r \in Context, Touch(c, r),
           UNCHANGED <<callIndex, eventsHandle, stackUp>>,
           NameStays(n, c, r) \/ NameGoes(c, r) \/ NameComes(c, r)
    PROVE  Naming' /\ StackTyped'
<1>1. TypeOK /\ Naming /\ StackTyped  BY TypeParts DEF Inv
<1>2. /\ ctx' \in Seq(Context) /\ Len(ctx') = Len(ctx) /\ Contexts' = Contexts
      /\ ctx'[c] = r /\ \A e \in Contexts : e # c => ctx'[e] = ctx[e]
  BY <1>1, TouchContexts DEF Touch
<1>3. /\ r.session = ctx[c].session /\ r.handle = ctx[c].handle /\ r.dialog # "inviting"
  BY DEF Touch
<1>4. \A e \in Contexts : ctx'[e].session = ctx[e].session /\ ctx'[e].handle = ctx[e].handle
  BY <1>2, <1>3
<1>5. resipId \in Nat /\ resipId' \in Nat /\ resipId <= resipId'
  BY <1>1 DEF StackTyped, NameStays, NameGoes, NameComes
<1>6. OneHandle'  BY <1>1, <1>2, <1>4 DEF Naming, OneHandle
<1>7. HandleIssued'
  <2>1. \A e \in Contexts : ctx[e] \in Context  BY <1>1, ContextFacts
  <2>2. \A e \in Contexts : ctx[e].handle \in Int  BY <2>1 DEF Context, Handle
  <2> QED  BY <1>1, <1>2, <1>4, <1>5, <2>2 DEF Naming, HandleIssued
<1>8. CallIsOurs'  BY <1>1, <1>2, <1>3 DEF Naming, CallIsOurs, Touch
<1>9. ctx[c].handle \in Handle  BY <1>1, ContextFacts DEF Context
<1>10. \A h \in DOMAIN iwHandlesMap' :
          /\ h \in Handle /\ iwHandlesMap'[h] \in Contexts
          /\ \/ h \in DOMAIN iwHandlesMap /\ iwHandlesMap'[h] = iwHandlesMap[h] /\ h # ctx[c].handle
             \/ h = ctx[c].handle /\ iwHandlesMap'[h] = c /\ r.dialog \in Live
  <2>1. CASE NameStays(n, c, r)
    <3> SUFFICES ASSUME NEW h \in DOMAIN iwHandlesMap
        PROVE  /\ h \in Handle /\ iwHandlesMap[h] \in Contexts
               /\ h = ctx[c].handle => iwHandlesMap[h] = c
      BY <2>1 DEF NameStays
    <3> QED  BY <1>1, NameOf DEF StackTyped, Named
  <2>2. CASE NameGoes(c, r)  BY <1>1, <2>2 DEF StackTyped, NameGoes, Without
  <2>3. CASE NameComes(c, r)  BY <1>1, <1>9, <2>3 DEF StackTyped, NameComes, Plus, Live
  <2> QED  BY <2>1, <2>2, <2>3
<1>11. MapLeadsToLive'
  <2>1. \A h \in DOMAIN iwHandlesMap : iwHandlesMap[h] \in Contexts
    BY <1>1 DEF StackTyped
  <2> QED  BY <1>1, <1>2, <1>3, <1>10, <2>1 DEF Naming, MapLeadsToLive
<1>12. Counters'
  <2>1. Cardinality(Started)' = IF ctx[c].dialog = "inviting" THEN Cardinality(Started) + 1
                                                              ELSE Cardinality(Started)
    BY <1>1, <1>3, TouchStarted DEF Touch
  <2>2. Cardinality(Started) \in Nat  BY <1>1, StartedFinite
  <2>3. resipId' = resipId \/ (resipId' = resipId + 1 /\ ctx[c].dialog = "inviting")
    BY DEF NameStays, NameGoes, NameComes
  <2>4. resipId' <= Cardinality(Started)'  BY <1>1, <1>5, <2>1, <2>2, <2>3 DEF Naming, Counters
  <2>5. callIndex' <= CALL_INDEX + Len(ctx')  BY <1>1, <1>2 DEF Naming, Counters
  <2> QED  BY <2>4, <2>5 DEF Counters
<1>13. resipId' \in 0..MaxContexts
  <2>1. CASE resipId' = resipId  BY <1>1, <2>1 DEF StackTyped
  <2>2. CASE resipId' = resipId + 1 /\ ctx[c].dialog = "inviting"
    <3>1. Started # Contexts  BY <2>2 DEF Started
    <3>2. resipId < Len(ctx) /\ Len(ctx) <= MaxContexts /\ Len(ctx) \in Nat
      BY <1>1, <1>5, <3>1, StartedFinite, ContextFacts DEF Naming, Counters
    <3> QED  BY <1>5, <2>2, <3>2, BoundsAssumption
  <2> QED  BY <2>1, <2>2 DEF NameStays, NameGoes, NameComes
<1>14. StackTyped'  BY <1>1, <1>2, <1>10, <1>13 DEF StackTyped
<1>15. Naming'  BY <1>6, <1>7, <1>8, <1>11, <1>12 DEF Naming
<1> QED  BY <1>14, <1>15

LEMMA TouchKept ==
    ASSUME Inv, NEW n \in {0, 1}, NEW c \in Contexts, NEW r \in Context, Touch(c, r), Owes(n, c, r),
           UNCHANGED sessionVars, UNCHANGED <<callIndex, eventsHandle, stackUp>>,
           NameStays(n, c, r) \/ NameGoes(c, r) \/ NameComes(c, r),
           AcceptTyped', InboundTyped', InboundShifts(n), ReadyTyped', Delivers
    PROVE  Inv'
<1>1. TypeOK /\ Naming  BY DEF Inv
<1>2. StackFrame /\ SessionTyped'  BY <1>1, FramedSessions
<1>3. Naming' /\ StackTyped'  BY TouchNaming
<1>4. TypeOK'  BY <1>2, <1>3, TypePartsNext
<1>5. /\ Len(ctx') = Len(ctx) /\ Contexts' = Contexts
      /\ ctx'[c] = r /\ \A e \in Contexts : e # c => ctx'[e] = ctx[e]
  BY <1>1, TouchContexts DEF Touch
<1>6. ContextsGrow  BY <1>5 DEF ContextsGrow, Touch
<1>7. \A e \in Contexts : e # c => ctx[e].handle # ctx[c].handle  BY <1>1 DEF Naming, OneHandle
<1>8. MapKept(n)
  <2> SUFFICES ASSUME NEW e \in Contexts, NEW h \in Handle, ctx[e].dialog # "inviting", ctx[e].handle = h,
                      Named(h)'
      PROVE  /\ Named(h) /\ iwHandlesMap[h] = e /\ iwHandlesMap'[h] = e
             /\ ctx[e].dialog = "connected" =>
                   \/ ctx'[e].dialog = "connected"
                   \/ n = 1 /\ 1 \in Inbound /\ IsReoffer(1, h)
    BY DEF MapKept
  <2>1. CASE NameStays(n, c, r)
    <3>1. Named(h) /\ iwHandlesMap' = iwHandlesMap  BY <2>1 DEF NameStays, Named
    <3>2. iwHandlesMap[h] = e  BY <3>1, NameOf
    <3>3. ctx[e].dialog = "connected" =>
              ctx'[e].dialog = "connected" \/ (n = 1 /\ 1 \in Inbound /\ IsReoffer(1, h))
      BY <1>5, <2>1 DEF NameStays
    <3> QED  BY <3>1, <3>2, <3>3
  <2>2. CASE NameGoes(c, r)
    <3>1. Named(h) /\ iwHandlesMap'[h] = iwHandlesMap[h] /\ h # ctx[c].handle
      BY <2>2 DEF NameGoes, Named, Without
    <3>2. iwHandlesMap[h] = e  BY <3>1, NameOf
    <3> QED  BY <1>5, <3>1, <3>2
  <2>3. CASE NameComes(c, r)
    <3>1. e # c  BY <2>3 DEF NameComes
    <3>2. h # ctx[c].handle  BY <1>7, <3>1
    <3>3. Named(h) /\ iwHandlesMap'[h] = iwHandlesMap[h]  BY <2>3, <3>2 DEF NameComes, Named, Plus
    <3>4. iwHandlesMap[h] = e  BY <3>3, NameOf
    <3> QED  BY <1>5, <3>1, <3>3, <3>4
  <2> QED  BY <2>1, <2>2, <2>3
<1>9. CallsMove(n)  BY <1>5 DEF CallsMove, Touch
<1>10. TokensMove(n)
  <2> SUFFICES ASSUME NEW x \in Session, NEW e \in Contexts, NEW o \in TxnOp, op[x] \in TxnOp,
                      WillAnswer(e, x, o)'
      PROVE  \/ e \in Contexts /\ WillAnswer(e, x, o)
             \/ /\ n = 1 /\ 1 \in Inbound /\ OpenRequest(1, x) /\ AskedBy(stackInbound[1].kind, o)
                /\ o = "ReOffer" => stackInbound[1].kind = "REOFFER_REQ" /\ ctx'[e].handle = stackInbound[1].handle
    BY <1>5 DEF TokensMove
  <2>1. CASE e = c  BY <1>5, <2>1 DEF Owes
  <2>2. CASE e # c
    <3>1. ctx'[e] = ctx[e] /\ txn' = txn  BY <1>5, <2>2 DEF sessionVars
    <3> QED  BY <3>1 DEF WillAnswer
  <2> QED  BY <2>1, <2>2
<1>11. FieldsPast
  <2> SUFFICES ASSUME NEW x \in Session, NEW e \in Contexts, op[x] # "deleted", ctx'[e].session = x
      PROVE  ctx'[e].makeCallReq <= txn[x] /\ ctx'[e].reofferReq <= txn[x] /\ ctx'[e].makeCallAck <= txn[x]
    BY <1>5 DEF FieldsPast
  <2>1. CASE e = c  BY <1>5, <2>1 DEF Touch
  <2>2. CASE e # c  BY <1>5, <2>2, PastFields
  <2> QED  BY <2>1, <2>2
<1>12. BuiltHasContext  BY <1>5 DEF BuiltHasContext
<1>13. EndsReported
  <2>1. told' = told  BY DEF sessionVars
  <2>2. \A x \in Session, e \in Contexts :
            (\E i \in Ready(x) : ready[x][i] = [kind |-> "HANGUP_EVT", call |-> e])
            => (\E i \in Ready(x)' : ready'[x][i] = [kind |-> "HANGUP_EVT", call |-> e])
    BY DEF Delivers
  <2>3. ASSUME NEW x \in Session, NEW e \in Contexts, op[x] # "deleted", ctx[e].session = x, Reported(e, x)
        PROVE  Reported(e, x)'
    <3>1. PICK h : h = ctx[e].handle  OBVIOUS
    <3>2. ctx'[e].handle = h  BY <1>5, <3>1 DEF Touch
    <3>3. CASE \E i \in Ready(x) : ready[x][i] = [kind |-> "HANGUP_EVT", call |-> e]
      BY <2>2, <3>3 DEF Reported
    <3>4. CASE e \in told  BY <2>1, <3>4 DEF Reported
    <3>5. CASE e # c /\ ctx[e].dialog = "ending"
      BY <1>5, <3>5 DEF Reported
    <3>6. CASE e # c /\ Named(h) /\ iwHandlesMap[h] = e
      <4>1. h # ctx[c].handle  BY <1>7, <3>1, <3>6
      <4>2. Named(h)' /\ iwHandlesMap'[h] = e
        BY <3>6, <4>1 DEF NameStays, NameGoes, NameComes, Without, Plus, Named
      <4> QED  BY <3>2, <4>2 DEF Reported, Named
    <3>7. CASE e = c /\ NameStays(n, c, r)
      <4>1. ctx[c].dialog # "ending"  BY <3>7 DEF NameStays, Touch, Live
      <4>2. (Named(h) /\ iwHandlesMap[h] = c) \/ c \in told
            \/ \E i \in Ready(x) : ready[x][i] = [kind |-> "HANGUP_EVT", call |-> c]
        BY <2>3, <3>1, <3>7, <4>1 DEF Reported
      <4>3. CASE Named(h) /\ iwHandlesMap[h] = c
        BY <3>2, <3>7, <4>3 DEF Reported, NameStays, Named
      <4> QED  BY <3>3, <3>4, <3>7, <4>2, <4>3
    <3>8. CASE e = c /\ NameGoes(c, r)
      <4>1. CASE Hears(c)
        <5>1. \E i \in Ready(x)' : ready'[x][i] = [kind |-> "HANGUP_EVT", call |-> c]
          BY <2>3, <3>8, <4>1 DEF Hears
        <5> QED  BY <3>8, <5>1 DEF Reported
      <4>2. CASE r.dialog = "ending"  BY <1>5, <3>8, <4>2 DEF Reported
      <4> QED  BY <3>8, <4>1, <4>2 DEF NameGoes
    <3>9. CASE e = c /\ NameComes(c, r)
      <4>1. Named(h)' /\ iwHandlesMap'[h] = c  BY <3>1, <3>9 DEF NameComes, Plus, Named
      <4> QED  BY <3>2, <3>9, <4>1 DEF Reported, Named
    <3> QED  BY <2>3, <3>1, <3>3, <3>4, <3>5, <3>6, <3>7, <3>8, <3>9 DEF Reported
  <2>4. ASSUME NEW x \in Session, NEW e \in Contexts, ctx'[e].dialog \notin {"inviting", "over"},
               ctx[e].dialog \in {"inviting", "over"}
        PROVE  Reported(e, x)'
    <3>1. e = c  BY <1>5, <2>4
    <3>2. r.dialog \notin {"inviting", "over"}  BY <1>5, <2>4, <3>1
    <3>3. ~NameGoes(c, r)  BY <2>4, <3>1, <3>2 DEF NameGoes
    <3>4. ~NameStays(n, c, r)
      <4>1. SUFFICES ASSUME NameStays(n, c, r) PROVE FALSE  OBVIOUS
      <4>2. r.dialog \in Live /\ ctx[c].dialog = "over"  BY <2>4, <3>1, <4>1 DEF NameStays
      <4> QED  BY <4>2 DEF Touch, Live
    <3>5. NameComes(c, r)  BY <3>3, <3>4
    <3>6. PICK h : h = ctx[c].handle  OBVIOUS
    <3>7. Named(h)' /\ iwHandlesMap'[h] = c  BY <3>5, <3>6 DEF NameComes, Plus, Named
    <3>8. ctx'[c].handle = h  BY <1>5, <3>6 DEF Touch
    <3> QED  BY <3>1, <3>7, <3>8 DEF Reported, Named
  <2> QED  BY <1>5, <2>3, <2>4 DEF EndsReported
<1> QED
  BY <1>2, <1>3, <1>4, <1>6, <1>8, <1>9, <1>10, <1>11, <1>12, <1>13, StackKept

-----------------------------------------------------------------------------
(* The one who answers a transaction is the only one to do so.             *)

\* The request that is handled was what its transaction waited for.
LEMMA SpentRequest ==
    ASSUME Inv, StackFrame, InboundShifts(1), 1 \in Inbound, NEW x \in Session, op[x] \in TxnOp,
           OpenRequest(1, x),
           \A c \in Contexts', o \in TxnOp : WillAnswer(c, x, o)' => c \in Contexts /\ WillAnswer(c, x, o)
    PROVE  /\ AskedBy(stackInbound[1].kind, op[x]) /\ ~Answered(x)
           /\ stackInbound[1].kind = "REOFFER_REQ" => stackInbound[1].handle = iwCallHandle[x]
           /\ \A i \in Inbound' : ~OpenRequest(i, x)'
           /\ \A c \in Contexts', o \in TxnOp : ~WillAnswer(c, x, o)'
<1>1. TypeOK /\ OneToken(x)  BY DEF Inv, Tokens, TokensOf
<1>2. /\ AskedBy(stackInbound[1].kind, op[x]) /\ ~Answered(x)
      /\ stackInbound[1].kind = "REOFFER_REQ" => stackInbound[1].handle = iwCallHandle[x]
      /\ \A c \in Contexts, o \in TxnOp : ~WillAnswer(c, x, o)
      /\ \A i \in Inbound : OpenRequest(i, x) => i = 1
  BY <1>1 DEF OneToken
<1>3. ASSUME NEW i \in Inbound', OpenRequest(i, x)' PROVE FALSE
  <2>1. stackInbound'[i].kind \in Request  BY <1>3 DEF OpenRequest, IsAsked, Asking, Request
  <2>2. i \in Nat /\ i > 0 /\ i + 1 \in Inbound /\ stackInbound'[i] = stackInbound[i + 1]
    BY <1>1, <2>1, ShiftedInbound
  <2>3. OpenRequest(i + 1, x)  BY <1>3, <2>2 DEF OpenRequest, IsAsked, StackFrame
  <2> QED  BY <1>2, <2>2, <2>3
<1> QED  BY <1>2, <1>3

\* The context that has got what it waited for was to answer.
LEMMA SpentAnswer ==
    ASSUME Inv, StackFrame, UNCHANGED stackInbound, NEW c \in Contexts, NEW r \in Context,
           ctx' = [ctx EXCEPT ![c] = r], r.dialog \in {"connected", "over"},
           NEW x \in Session, op[x] \in TxnOp, NEW o \in TxnOp, WillAnswer(c, x, o)
    PROVE  /\ op[x] = o /\ ~Answered(x)
           /\ \A i \in Inbound' : ~OpenRequest(i, x)'
           /\ \A e \in Contexts', p \in TxnOp : ~WillAnswer(e, x, p)'
<1>1. TypeOK /\ OneLiveCall /\ OneToken(x)  BY DEF Inv, Calls, Tokens, TokensOf
<1>2. /\ op[x] = o /\ ~Answered(x)
      /\ \A i \in Inbound : ~OpenRequest(i, x)
  BY <1>1 DEF OneToken
<1>3. txn'[x] = txn[x]  BY DEF StackFrame
<1>4. \A i \in Inbound' : ~OpenRequest(i, x)'  BY <1>2, <1>3 DEF Inbound, OpenRequest, IsAsked
<1>5. /\ Contexts' = Contexts /\ ctx'[c] = r /\ \A e \in Contexts : e # c => ctx'[e] = ctx[e]
  BY <1>1, TouchContexts
<1>6. ASSUME NEW e \in Contexts, NEW p \in TxnOp, WillAnswer(e, x, p)' PROVE FALSE
  <2>1. e # c  BY <1>5, <1>6 DEF WillAnswer
  <2>2. WillAnswer(e, x, p)  BY <1>3, <1>5, <1>6, <2>1 DEF WillAnswer
  <2>3. /\ ctx[e].dialog \in Live /\ ctx[c].dialog \in Live /\ ctx[e].session = ctx[c].session
    BY <2>2 DEF WillAnswer, Live
  <2> QED  BY <1>1, <2>1, <2>3 DEF OneLiveCall
<1> QED  BY <1>2, <1>4, <1>5, <1>6

\* A dialog that was not connected before has no offer on its way.
LEMMA FreshOffer ==
    ASSUME Inv, UNCHANGED <<stackInbound, iwHandlesMap>>, NEW c \in Contexts, NEW r \in Context,
           ctx' = [ctx EXCEPT ![c] = r], r.dialog = "connected", ctx[c].dialog # "connected"
    PROVE  \A h : h = ctx[c].handle => CanOffer(h)'
<1> SUFFICES ASSUME NEW h, h = ctx[c].handle, Named(h)
    PROVE  ctx'[iwHandlesMap[h]].dialog = "connected" /\ \A i \in Inbound : ~IsReoffer(i, h)
  BY DEF CanOffer, Named, Inbound, IsReoffer
<1>1. iwHandlesMap[h] = c  BY NameOf
<1>2. ctx'[c] = r  BY TouchContexts DEF Inv
<1>3. \A i \in Inbound : ~IsReoffer(i, h)  BY <1>1 DEF Inv, Offers, OfferIsAlone, IsReoffer
<1> QED  BY <1>1, <1>2, <1>3

-----------------------------------------------------------------------------
(* The handlers of ProcResipStack that leave the contexts alone.           *)

LEMMA QuietDelivers ==
    ASSUME TypeOK, UNCHANGED ready
    PROVE  ReadyTyped' /\ Delivers
<1>1. ReadyTyped' /\ Adds({}, 0, "MAKE_CALL_OK", 0, {})  BY AddsNothing
<1>2. PICK S, t, k, C : S = {} /\ t = 0 /\ k = "MAKE_CALL_OK" /\ C = {}  OBVIOUS
<1>3. k \in Response /\ C \in SUBSET Contexts  BY <1>2 DEF Response
<1>4. Adds(S, t, k, t, C)  BY <1>1, <1>2
<1>5. ASSUME NEW x \in Session, x \in S, op[x] \in TxnOp, txn[x] = t PROVE Fits([kind |-> k, call |-> t], x)
  BY <1>2, <1>5
<1>6. Delivers  BY <1>3, <1>4, <1>5, AddsDelivers
<1> QED  BY <1>1, <1>6

LEMMA HangupDelivers ==
    ASSUME TypeOK, NEW c \in Contexts, ready' = NotifyHangup(ready, c)
    PROVE  ReadyTyped' /\ Delivers /\ Hears(c)
<1>1. ReadyTyped' /\ Adds({}, 0, "MAKE_CALL_OK", 0, {c}) /\ Hears(c)  BY AddsHangup
<1>2. PICK S, t, k, C : S = {} /\ t = 0 /\ k = "MAKE_CALL_OK" /\ C = {c}  OBVIOUS
<1>3. k \in Response /\ C \in SUBSET Contexts  BY <1>2 DEF Response
<1>4. Adds(S, t, k, t, C)  BY <1>1, <1>2
<1>5. ASSUME NEW x \in Session, x \in S, op[x] \in TxnOp, txn[x] = t PROVE Fits([kind |-> k, call |-> t], x)
  BY <1>2, <1>5
<1>6. Delivers  BY <1>3, <1>4, <1>5, AddsDelivers
<1> QED  BY <1>1, <1>6

LEMMA NothingHandled ==
    ASSUME TypeOK, UNCHANGED stackInbound
    PROVE  InboundTyped' /\ InboundShifts(0)
<1>1. InboundTyped'  BY TypeParts DEF InboundTyped
<1>2. \A i \in Inbound : i + 0 = i  BY DEF Inbound
<1> QED  BY <1>1, <1>2 DEF InboundShifts, Inbound

LEMMA SameAccept ==
    ASSUME TypeOK, UNCHANGED acceptVars
    PROVE  AcceptTyped'
BY TypeParts DEF acceptVars, AcceptTyped

LEMMA SameStack ==
    ASSUME TypeOK, UNCHANGED stackVars
    PROVE  /\ UNCHANGED <<ctx, iwHandlesMap, callIndex, resipId>> /\ UNCHANGED stackUp
           /\ eventsHandle' \in 0..MaxSubscribes /\ StackTyped'
BY TypeParts DEF stackVars, StackTyped, Contexts

LEMMA UponSubscribeToIncomingReqKept ==
    ASSUME Inv, UponSubscribeToIncomingReq
    PROVE  Inv'
<1>1. TypeOK  BY DEF Inv
<1>2. /\ InboundTyped' /\ InboundShifts(1) /\ 1 \in Inbound /\ Msg = stackInbound[1]
      /\ stackInbound[1].kind = "CALL_SUBSCRIBE_REQ"
  BY <1>1, HandlesFacts DEF UponSubscribeToIncomingReq
<1>3. PICK E : E = SessionRequest \cup Subscribe  OBVIOUS
<1>4. stackInbound[1] \in E  BY <1>1, <1>2, <1>3, TypeParts DEF InboundTyped, Inbound
<1>5. Msg.subscription \in 0..MaxSubscribes
  BY <1>2, <1>3, <1>4, BoundsAssumption DEF SessionRequest, Subscribe, Request
<1>6. AcceptTyped'
  BY <1>1, TypeParts DEF UponSubscribeToIncomingReq, AcceptTyped
<1>7. ReadyTyped' /\ Delivers  BY <1>1, QuietDelivers DEF UponSubscribeToIncomingReq
<1>8. UNCHANGED sessionVars /\ UNCHANGED <<ctx, iwHandlesMap, callIndex, resipId>> /\ UNCHANGED stackUp
      /\ eventsHandle' \in 0..MaxSubscribes
  BY <1>5 DEF UponSubscribeToIncomingReq
<1> QED  BY <1>2, <1>6, <1>7, <1>8, StillKept

LEMMA UponCallConnectedKept ==
    ASSUME Inv, UponCallConnected
    PROVE  Inv'
<1>1. TypeOK  BY DEF Inv
<1>2. InboundTyped' /\ InboundShifts(1)  BY <1>1, HandlesFacts DEF UponCallConnected
<1>3. ReadyTyped' /\ Delivers  BY <1>1, QuietDelivers DEF UponCallConnected
<1>4. AcceptTyped'  BY <1>1, SameAccept DEF UponCallConnected
<1>5. UNCHANGED sessionVars /\ UNCHANGED <<ctx, iwHandlesMap, callIndex, resipId>> /\ UNCHANGED stackUp
      /\ eventsHandle' \in 0..MaxSubscribes
  BY <1>1, SameStack DEF UponCallConnected
<1> QED  BY <1>2, <1>3, <1>4, <1>5, StillKept

LEMMA AcceptKept ==
    ASSUME Inv, Accept
    PROVE  Inv'
<1>1. TypeOK  BY DEF Inv
<1>2. PICK E, m : E = SessionRequest \cup Subscribe
                  /\ m = [kind |-> "CALL_SUBSCRIBE_REQ", subscription |-> subscription + 1]
  OBVIOUS
<1>3. subscription + 1 \in 1..MaxSubscribes
  BY <1>1, TypeParts, BoundsAssumption DEF AcceptTyped, Accept
<1>4. m \in E /\ m.kind = "CALL_SUBSCRIBE_REQ"  BY <1>2, <1>3 DEF Subscribe
<1>5. stackInbound \in Seq(E) /\ stackInbound' = Append(stackInbound, m)
  BY <1>1, <1>2, TypeParts DEF InboundTyped, Accept
<1>6. /\ stackInbound' \in Seq(E)
      /\ \A i \in 1..Len(stackInbound') :
            \/ i + 0 \in 1..Len(stackInbound) /\ stackInbound'[i] = stackInbound[i + 0]
            \/ stackInbound'[i] = m
  BY <1>4, <1>5
<1>7. InboundTyped' /\ InboundShifts(0)
  BY <1>2, <1>4, <1>6 DEF InboundTyped, InboundShifts, Inbound
<1>8. AcceptTyped'  BY <1>3, BoundsAssumption DEF Accept, AcceptTyped
<1>9. ReadyTyped' /\ Delivers  BY <1>1, QuietDelivers DEF Accept
<1>10. UNCHANGED sessionVars /\ UNCHANGED <<ctx, iwHandlesMap, callIndex, resipId>> /\ UNCHANGED stackUp
      /\ eventsHandle' \in 0..MaxSubscribes
  BY <1>1, SameStack DEF Accept
<1> QED  BY <1>7, <1>8, <1>9, <1>10, StillKept

LEMMA AcceptTimeoutKept ==
    ASSUME Inv, AcceptTimeout
    PROVE  Inv'
<1>1. TypeOK  BY DEF Inv
<1>2. InboundTyped' /\ InboundShifts(0)  BY <1>1, NothingHandled DEF AcceptTimeout
<1>3. ReadyTyped' /\ Delivers  BY <1>1, QuietDelivers DEF AcceptTimeout
<1>4. AcceptTyped'  BY <1>1, TypeParts DEF AcceptTimeout, AcceptTyped
<1>5. UNCHANGED sessionVars /\ UNCHANGED <<ctx, iwHandlesMap, callIndex, resipId>> /\ UNCHANGED stackUp
      /\ eventsHandle' \in 0..MaxSubscribes
  BY <1>1, SameStack DEF AcceptTimeout
<1> QED  BY <1>2, <1>3, <1>4, <1>5, StillKept

\* A request for a call that is gone, and that expects no answer.
LEMMA IgnoredKept ==
    ASSUME Inv, NEW k \in Request, Handles(k), UNCHANGED sessionVars, UNCHANGED ready, UNCHANGED stackVars,
           UNCHANGED acceptVars
    PROVE  Inv'
<1>1. TypeOK  BY DEF Inv
<1>2. InboundTyped' /\ InboundShifts(1)  BY <1>1, HandlesFacts
<1>3. ReadyTyped' /\ Delivers  BY <1>1, QuietDelivers
<1>4. AcceptTyped'  BY <1>1, SameAccept
<1>5. UNCHANGED <<ctx, iwHandlesMap, callIndex, resipId>> /\ UNCHANGED stackUp
      /\ eventsHandle' \in 0..MaxSubscribes
  BY <1>1, SameStack
<1> QED  BY <1>2, <1>3, <1>4, <1>5, StillKept

\* A request that is refused.
Refusal(k, a) ==
    \/ k = "MAKE_CALL_REQ" /\ a = "MAKE_CALL_NACK"
    \/ k = "REOFFER_REQ" /\ a = "REOFFER_NACK"
    \/ k = "BLIND_XFER_REQ" /\ a = "BLIND_XFER_NACK"

LEMMA RefusedKept ==
    ASSUME Inv, NEW k \in Request, NEW a \in Response, Refusal(k, a), Handles(k),
           ready' = Respond(ready, Msg.session, Msg.txn, a, 0),
           k = "REOFFER_REQ" => ~Named(Msg.handle),
           UNCHANGED sessionVars, UNCHANGED stackVars, UNCHANGED acceptVars
    PROVE  Inv'
<1>1. TypeOK  BY DEF Inv
<1>2. /\ InboundTyped' /\ InboundShifts(1) /\ 1 \in Inbound /\ Msg = stackInbound[1]
      /\ stackInbound[1].kind = k /\ stackInbound[1] \in SessionRequest
  BY <1>1, HandlesFacts
<1>3. PICK s, t : s = stackInbound[1].session /\ t = stackInbound[1].txn  OBVIOUS
<1>4. s \in Session  BY <1>2, <1>3 DEF SessionRequest
<1>5. ready' = Respond(ready, s, t, a, 0)  BY <1>2, <1>3
<1>6. 0 \in 0..MaxContexts  BY BoundsAssumption
<1>7. ReadyTyped' /\ Adds({s}, t, a, 0, {})  BY <1>1, <1>4, <1>5, <1>6, AddsResponse
<1>8. AcceptTyped'  BY <1>1, SameAccept
<1>9. UNCHANGED <<ctx, iwHandlesMap, callIndex, resipId>> /\ UNCHANGED stackUp
      /\ eventsHandle' \in 0..MaxSubscribes /\ StackTyped'
  BY <1>1, SameStack
<1>10. StackFrame /\ SessionTyped'  BY <1>1, FramedSessions
<1>11. TypeOK'  BY <1>2, <1>7, <1>8, <1>9, <1>10, TypePartsNext
<1>12. ASSUME NEW x \in Session, x \in {s}, op[x] \in TxnOp, txn[x] = t
       PROVE  Fits([kind |-> a, call |-> 0], x)
  <2>1. PICK e : e = [kind |-> a, call |-> 0]  OBVIOUS
  <2>2. e.kind = a  BY <2>1
  <2>3. OpenRequest(1, x)
    BY <1>2, <1>3, <1>12 DEF OpenRequest, IsAsked, Asking, Refusal
  <2>4. \A c \in Contexts', o \in TxnOp : WillAnswer(c, x, o)' => c \in Contexts /\ WillAnswer(c, x, o)
    BY <1>9, <1>10 DEF Contexts, WillAnswer, StackFrame
  <2>5. /\ AskedBy(stackInbound[1].kind, op[x]) /\ ~Answered(x)
        /\ stackInbound[1].kind = "REOFFER_REQ" => stackInbound[1].handle = iwCallHandle[x]
        /\ \A i \in Inbound' : ~OpenRequest(i, x)'
        /\ \A c \in Contexts', o \in TxnOp : ~WillAnswer(c, x, o)'
    BY <1>2, <1>10, <1>11, <1>12, <2>3, <2>4, SpentRequest
  <2>6. AnswerTo(a, op[x])  BY <1>2, <2>5 DEF Refusal, AskedBy, AnswerTo
  <2>7. a = "MAKE_CALL_NACK" => NoCall(x)'
    <3> SUFFICES ASSUME a = "MAKE_CALL_NACK" PROVE NoCall(x)'
      OBVIOUS
    <3>1. IsInvite(1, x) /\ CallsOf(x)
      BY <1>2, <1>3, <1>12 DEF IsInvite, Refusal, Inv, Calls
    <3>2. \A c \in Contexts' : ~IsLive(c, x)'  BY <1>2, <1>9, <3>1 DEF CallsOf, IsLive, Contexts
    <3>3. ASSUME NEW i \in Inbound', IsInvite(i, x)' PROVE FALSE
      <4>1. stackInbound'[i].kind \in Request  BY <3>3 DEF IsInvite, Request
      <4>2. 1 \in {0, 1}  OBVIOUS
      <4>3. i \in Nat /\ i > 0 /\ i + 1 \in Inbound /\ stackInbound'[i] = stackInbound[i + 1]
        BY <1>1, <1>2, <1>11, <4>1, <4>2, ShiftedInbound
      <4>4. i + 1 = 1  BY <1>2, <3>1, <3>3, <4>3 DEF CallsOf, IsInvite
      <4> QED  BY <4>3, <4>4
    <3> QED  BY <3>2, <3>3 DEF NoCall
  <2>8. a = "REOFFER_NACK" => ~Named(iwCallHandle[x])'
    <3> SUFFICES ASSUME a = "REOFFER_NACK" PROVE ~Named(iwCallHandle[x])'
      OBVIOUS
    <3>1. k = "REOFFER_REQ"  BY DEF Refusal
    <3>2. ~Named(iwCallHandle[x])  BY <1>2, <2>5, <3>1
    <3> QED  BY <1>9, <1>10, <3>2 DEF Named, StackFrame
  <2>9. a \notin {"MAKE_CALL_OK", "CALL_CONNECTED", "REOFFER_ACK"}  BY DEF Refusal
  <2>10. Fits(e, x)  BY <1>12, <2>2, <2>5, <2>6, <2>7, <2>8, <2>9 DEF Fits
  <2> QED  BY <2>1, <2>10
<1>13. {} \in SUBSET Contexts  OBVIOUS
<1>14. Delivers  BY <1>7, <1>12, <1>13, AddsDelivers
<1> QED  BY <1>2, <1>7, <1>8, <1>9, <1>14, StillKept

-----------------------------------------------------------------------------
(* The handlers of ProcResipStack that work on a call.                     *)

\* A request that ends its call.
LEMMA EndedKept ==
    ASSUME Inv, NEW k \in Request, Handles(k), Named(Msg.handle),
           \E c : c = iwHandlesMap[Msg.handle] /\ End(c),
           iwHandlesMap' = Without(iwHandlesMap, Msg.handle),
           UNCHANGED sessionVars, UNCHANGED <<callIndex, resipId, eventsHandle, stackUp>>, UNCHANGED acceptVars
    PROVE  Inv'
<1>1. TypeOK  BY DEF Inv
<1>2. InboundTyped' /\ InboundShifts(1) /\ Msg = stackInbound[1]  BY <1>1, HandlesFacts
<1>3. PICK c : c = iwHandlesMap[Msg.handle] /\ End(c)  OBVIOUS
<1>4. /\ c \in Contexts /\ ctx[c].handle = stackInbound[1].handle /\ ctx[c].dialog \in Live \ {"inviting"}
  BY <1>3, HandledCall
<1>5. PICK d : d = IF ctx[c].dialog \in {"early", "connected"} THEN "over" ELSE "ending"  OBVIOUS
<1>6. PICK r : r = [ctx[c] EXCEPT !.dialog = d]  OBVIOUS
<1>7. d \in {"over", "ending"}  BY <1>5
<1>8. /\ r \in Context /\ r.session = ctx[c].session /\ r.handle = ctx[c].handle /\ r.dialog = d
      /\ r.makeCallReq = ctx[c].makeCallReq /\ r.reofferReq = ctx[c].reofferReq
      /\ r.makeCallAck = ctx[c].makeCallAck
  BY <1>1, <1>4, <1>6, <1>7, ContextFacts DEF Context, Dialog
<1>9. ctx' = [ctx EXCEPT ![c] = r]  BY <1>3, <1>5, <1>6 DEF End
<1>10. Touch(c, r)  BY <1>4, <1>7, <1>8, <1>9, PastFields DEF Touch, Live
<1>11. ctx'[c] = r  BY <1>1, <1>4, <1>8, <1>9, TouchContexts
<1>12. Owes(1, c, r)  BY <1>7, <1>8, <1>11 DEF Owes, WillAnswer
<1>13. ReadyTyped' /\ Delivers /\ (Hears(c) \/ d = "ending")
  <2>1. CASE ctx[c].dialog \in {"early", "connected"}
    <3>1. ready' = NotifyHangup(ready, c)  BY <1>3, <2>1 DEF End
    <3> QED  BY <1>1, <1>4, <3>1, HangupDelivers
  <2>2. CASE ctx[c].dialog \notin {"early", "connected"}
    <3>1. UNCHANGED ready  BY <1>3, <2>2 DEF End
    <3> QED  BY <1>1, <1>5, <2>2, <3>1, QuietDelivers
  <2> QED  BY <2>1, <2>2
<1>14. NameGoes(c, r)  BY <1>2, <1>4, <1>8, <1>13 DEF NameGoes, Live
<1>15. AcceptTyped'  BY <1>1, SameAccept
<1> QED  BY <1>2, <1>4, <1>8, <1>10, <1>12, <1>13, <1>14, <1>15, TouchKept

LEMMA UponHangupReqKept ==
    ASSUME Inv, UponHangupReq
    PROVE  Inv'
<1>1. /\ Handles("HANGUP_CALL_REQ") /\ "HANGUP_CALL_REQ" \in Request
      /\ UNCHANGED sessionVars /\ UNCHANGED <<callIndex, resipId, eventsHandle, stackUp>>
      /\ UNCHANGED acceptVars
  BY DEF UponHangupReq, Request
<1>2. CASE Named(Msg.handle)
  <2>1. PICK c : c = iwHandlesMap[Msg.handle]  OBVIOUS
  <2>2. End(c) /\ iwHandlesMap' = Without(iwHandlesMap, Msg.handle)
    BY <1>2, <2>1 DEF UponHangupReq, End
  <2> QED  BY <1>1, <1>2, <2>1, <2>2, EndedKept
<1>3. CASE ~Named(Msg.handle)
  <2>1. UNCHANGED ready /\ UNCHANGED stackVars  BY <1>1, <1>3 DEF UponHangupReq, stackVars
  <2> QED  BY <1>1, <2>1, IgnoredKept
<1> QED  BY <1>2, <1>3

LEMMA UponCallOfferedNackKept ==
    ASSUME Inv, UponCallOfferedNack
    PROVE  Inv'
<1>1. /\ Handles("CALL_OFFERED_NACK") /\ "CALL_OFFERED_NACK" \in Request
      /\ UNCHANGED sessionVars /\ UNCHANGED <<callIndex, resipId, eventsHandle, stackUp>>
      /\ UNCHANGED acceptVars
  BY DEF UponCallOfferedNack, Request
<1>2. CASE Named(Msg.handle)
  <2>1. PICK c : c = iwHandlesMap[Msg.handle]  OBVIOUS
  <2>2. End(c) /\ iwHandlesMap' = Without(iwHandlesMap, Msg.handle)
    BY <1>2, <2>1 DEF UponCallOfferedNack, End
  <2> QED  BY <1>1, <1>2, <2>1, <2>2, EndedKept
<1>3. CASE ~Named(Msg.handle)
  <2>1. UNCHANGED ready /\ UNCHANGED stackVars  BY <1>1, <1>3 DEF UponCallOfferedNack, stackVars
  <2> QED  BY <1>1, <2>1, IgnoredKept
<1> QED  BY <1>2, <1>3

\* The number of a request is one of its session's transactions.
LEMMA HandledTxn ==
    ASSUME Inv, NEW k \in Asking, Handles(k)
    PROVE  /\ stackInbound[1].txn \in TxnId
           /\ \A x \in Session : stackInbound[1].session = x /\ op[x] # "deleted" => stackInbound[1].txn <= txn[x]
<1>1. 1 \in Inbound /\ stackInbound[1].kind \in Asking  BY HandlesFacts DEF Inv
<1> QED  BY <1>1 DEF Inv, Tokens, Numbered, Past, IsAsked

LEMMA UponReofferReqKept ==
    ASSUME Inv, UponReofferReq
    PROVE  Inv'
<1>1. TypeOK  BY DEF Inv
<1>2. /\ Handles("REOFFER_REQ") /\ "REOFFER_REQ" \in Request /\ "REOFFER_REQ" \in Asking
      /\ UNCHANGED sessionVars /\ UNCHANGED <<callIndex, resipId, eventsHandle, stackUp>>
      /\ UNCHANGED iwHandlesMap /\ UNCHANGED acceptVars
  BY DEF UponReofferReq, Request, Asking
<1>3. CASE Named(Msg.handle)
  <2>1. /\ InboundTyped' /\ InboundShifts(1) /\ Msg = stackInbound[1] /\ 1 \in Inbound
        /\ stackInbound[1].kind = "REOFFER_REQ"
    BY <1>1, <1>2, HandlesFacts
  <2>2. PICK c : c = iwHandlesMap[Msg.handle]  OBVIOUS
  <2>3. /\ c \in Contexts /\ ctx[c].handle = stackInbound[1].handle
        /\ ctx[c].session = stackInbound[1].session /\ ctx[c].dialog \in Live \ {"inviting"}
    BY <1>2, <1>3, <2>2, HandledCall
  <2>4. PICK t : t = stackInbound[1].txn  OBVIOUS
  <2>5. /\ t \in TxnId /\ \A x \in Session : ctx[c].session = x /\ op[x] # "deleted" => t <= txn[x]
    BY <1>2, <2>3, <2>4, HandledTxn
  <2>6. PICK r : r = [ctx[c] EXCEPT !.reofferReq = t, !.dialog = "reoffered"]  OBVIOUS
  <2>7. /\ r \in Context /\ r.session = ctx[c].session /\ r.handle = ctx[c].handle /\ r.dialog = "reoffered"
        /\ r.makeCallReq = ctx[c].makeCallReq /\ r.reofferReq = t /\ r.makeCallAck = ctx[c].makeCallAck
    BY <1>1, <2>3, <2>5, <2>6, ContextFacts DEF Context, Dialog, Live
  <2>8. ctx' = [ctx EXCEPT ![c] = r]  BY <1>3, <2>1, <2>2, <2>4, <2>6 DEF UponReofferReq
  <2>9. Touch(c, r)  BY <2>3, <2>5, <2>7, <2>8, PastFields DEF Touch
  <2>10. ctx'[c] = r  BY <1>1, <2>3, <2>7, <2>8, TouchContexts
  <2>11. Owes(1, c, r)
    <3> SUFFICES ASSUME NEW x \in Session, NEW o \in TxnOp, op[x] \in TxnOp, WillAnswer(c, x, o)'
        PROVE  /\ OpenRequest(1, x) /\ o = "ReOffer"
      BY <2>1, <2>3, <2>7 DEF Owes, AskedBy
    <3>1. o = "ReOffer" /\ r.session = x /\ r.reofferReq = txn[x]
      BY <1>2, <2>7, <2>10 DEF WillAnswer, sessionVars
    <3> QED  BY <2>1, <2>3, <2>4, <2>7, <3>1 DEF OpenRequest, IsAsked, Asking
  <2>12. ReadyTyped' /\ Delivers  BY <1>1, <1>3, QuietDelivers DEF UponReofferReq
  <2>13. NameStays(1, c, r)  BY <1>2, <2>1, <2>3, <2>7 DEF NameStays, Live, IsReoffer
  <2>14. AcceptTyped'  BY <1>1, <1>2, SameAccept
  <2> QED  BY <1>2, <2>1, <2>3, <2>7, <2>9, <2>11, <2>12, <2>13, <2>14, TouchKept
<1>4. CASE ~Named(Msg.handle)
  <2>1. ready' = Respond(ready, Msg.session, Msg.txn, "REOFFER_NACK", 0) /\ UNCHANGED stackVars
    BY <1>2, <1>4 DEF UponReofferReq, stackVars
  <2>2. "REOFFER_NACK" \in Response /\ Refusal("REOFFER_REQ", "REOFFER_NACK")  BY DEF Response, Refusal
  <2> QED  BY <1>2, <1>4, <2>1, <2>2, RefusedKept
<1> QED  BY <1>3, <1>4

LEMMA UponMakeCallReqFailsKept ==
    ASSUME Inv, UponMakeCallReqFails
    PROVE  Inv'
<1>1. /\ Handles("MAKE_CALL_REQ") /\ "MAKE_CALL_REQ" \in Request
      /\ ready' = Respond(ready, Msg.session, Msg.txn, "MAKE_CALL_NACK", 0)
      /\ UNCHANGED sessionVars /\ UNCHANGED stackVars /\ UNCHANGED acceptVars
  BY DEF UponMakeCallReqFails, Request
<1>2. /\ "MAKE_CALL_NACK" \in Response /\ Refusal("MAKE_CALL_REQ", "MAKE_CALL_NACK")
      /\ "MAKE_CALL_REQ" # "REOFFER_REQ"
  BY DEF Response, Refusal
<1> QED  BY <1>1, <1>2, RefusedKept

LEMMA UponCallOfferedAckKept ==
    ASSUME Inv, UponCallOfferedAck
    PROVE  Inv'
<1>1. TypeOK  BY DEF Inv
<1>2. /\ Handles("CALL_OFFERED_ACK") /\ "CALL_OFFERED_ACK" \in Request /\ "CALL_OFFERED_ACK" \in Asking
      /\ UNCHANGED sessionVars /\ UNCHANGED <<callIndex, resipId, eventsHandle, stackUp>>
      /\ UNCHANGED acceptVars
  BY DEF UponCallOfferedAck, Request, Asking
<1>3. CASE /\ Named(Msg.handle) /\ ~Msg.empty
           /\ LET c == iwHandlesMap[Msg.handle]
              IN  ctx' = [ctx EXCEPT ![c].makeCallAck = Msg.txn,
                                     ![c].dialog = IF @ = "early" THEN "accepted" ELSE @]
           /\ UNCHANGED <<ready, iwHandlesMap>>
  <2>1. /\ InboundTyped' /\ InboundShifts(1) /\ Msg = stackInbound[1] /\ 1 \in Inbound
        /\ stackInbound[1].kind = "CALL_OFFERED_ACK"
    BY <1>1, <1>2, HandlesFacts
  <2>2. PICK c : c = iwHandlesMap[Msg.handle]  OBVIOUS
  <2>3. /\ c \in Contexts /\ ctx[c].session = stackInbound[1].session /\ ctx[c].dialog \in Live \ {"inviting"}
    BY <1>2, <1>3, <2>2, HandledCall
  <2>4. PICK t, d : t = stackInbound[1].txn
                    /\ d = IF ctx[c].dialog = "early" THEN "accepted" ELSE ctx[c].dialog
    OBVIOUS
  <2>5. /\ t \in TxnId /\ \A x \in Session : ctx[c].session = x /\ op[x] # "deleted" => t <= txn[x]
    BY <1>2, <2>3, <2>4, HandledTxn
  <2>6. d \in Live \ {"inviting", "early"}  BY <2>3, <2>4 DEF Live
  <2>7. PICK r : r = [ctx[c] EXCEPT !.makeCallAck = t, !.dialog = d]  OBVIOUS
  <2>8. /\ r \in Context /\ r.session = ctx[c].session /\ r.handle = ctx[c].handle /\ r.dialog = d
        /\ r.makeCallReq = ctx[c].makeCallReq /\ r.reofferReq = ctx[c].reofferReq /\ r.makeCallAck = t
    BY <1>1, <2>3, <2>5, <2>6, <2>7, ContextFacts DEF Context, Dialog
  <2>9. ctx' = [ctx EXCEPT ![c] = r]
    <3>1. /\ c \in DOMAIN ctx /\ DOMAIN ctx[c] = {"session", "handle", "dialog", "makeCallReq", "reofferReq",
                                                  "makeCallAck"}
      BY <1>1, <2>3, ContextFacts DEF Context
    <3>2. ctx' = [ctx EXCEPT ![c].makeCallAck = t,
                             ![c].dialog = IF @ = "early" THEN "accepted" ELSE @]
      BY <1>3, <2>1, <2>2, <2>4
    <3> QED  BY <2>4, <2>7, <3>1, <3>2
  <2>10. Touch(c, r)  BY <2>3, <2>5, <2>6, <2>8, <2>9, PastFields DEF Touch
  <2>11. ctx'[c] = r  BY <1>1, <2>3, <2>8, <2>9, TouchContexts
  <2>12. Owes(1, c, r)
    <3> SUFFICES ASSUME NEW x \in Session, NEW o \in TxnOp, op[x] \in TxnOp, WillAnswer(c, x, o)'
        PROVE  WillAnswer(c, x, o) \/ (OpenRequest(1, x) /\ o = "Answer")
      BY <2>1 DEF Owes, AskedBy
    <3>1. txn'[x] = txn[x] /\ r.session = x  BY <1>2, <2>11 DEF sessionVars, WillAnswer
    <3>2. CASE o = "Answer"
      <4>1. t = txn[x]  BY <2>8, <2>11, <3>1, <3>2 DEF WillAnswer
      <4> QED  BY <2>1, <2>3, <2>4, <2>8, <3>1, <3>2, <4>1 DEF OpenRequest, IsAsked, Asking
    <3>3. CASE o # "Answer"
      <4>1. o = "ReOffer" /\ d = "reoffered" /\ ctx[c].reofferReq = txn[x]
        BY <2>6, <2>8, <2>11, <3>1, <3>3 DEF WillAnswer
      <4>2. ctx[c].dialog = "reoffered"  BY <2>4, <4>1
      <4> QED  BY <2>8, <3>1, <4>1, <4>2 DEF WillAnswer
    <3> QED  BY <3>2, <3>3
  <2>13. ReadyTyped' /\ Delivers  BY <1>1, <1>3, QuietDelivers
  <2>14. NameStays(1, c, r)  BY <1>2, <1>3, <2>3, <2>4, <2>6, <2>8 DEF NameStays
  <2>15. AcceptTyped'  BY <1>1, <1>2, SameAccept
  <2> QED  BY <1>2, <2>1, <2>3, <2>8, <2>10, <2>12, <2>13, <2>14, <2>15, TouchKept
<1>4. CASE /\ Named(Msg.handle) /\ Msg.empty
           /\ End(iwHandlesMap[Msg.handle])
           /\ iwHandlesMap' = Without(iwHandlesMap, Msg.handle)
  <2>1. PICK c : c = iwHandlesMap[Msg.handle]  OBVIOUS
  <2>2. End(c)  BY <1>4, <2>1 DEF End
  <2> QED  BY <1>2, <1>4, <2>1, <2>2, EndedKept
<1>5. CASE ~Named(Msg.handle) /\ UNCHANGED <<ctx, ready, iwHandlesMap>>
  <2>1. UNCHANGED ready /\ UNCHANGED stackVars  BY <1>2, <1>5 DEF stackVars
  <2> QED  BY <1>2, <2>1, IgnoredKept
<1> QED  BY <1>3, <1>4, <1>5 DEF UponCallOfferedAck

LEMMA UponBlindXferReqKept ==
    ASSUME Inv, UponBlindXferReq
    PROVE  Inv'
<1>1. TypeOK  BY DEF Inv
<1>2. /\ Handles("BLIND_XFER_REQ") /\ "BLIND_XFER_REQ" \in Request
      /\ UNCHANGED sessionVars /\ UNCHANGED <<callIndex, resipId, eventsHandle, stackUp>>
      /\ UNCHANGED acceptVars
  BY DEF UponBlindXferReq, Request
<1>3. CASE Named(Msg.handle) /\ ctx[iwHandlesMap[Msg.handle]].dialog \in {"connected", "reoffered"}
  <2>1. /\ InboundTyped' /\ InboundShifts(1) /\ Msg = stackInbound[1] /\ 1 \in Inbound
        /\ stackInbound[1].kind = "BLIND_XFER_REQ" /\ stackInbound[1] \in SessionRequest
    BY <1>1, <1>2, HandlesFacts
  <2>2. PICK c : c = iwHandlesMap[Msg.handle]  OBVIOUS
  <2>3. /\ c \in Contexts /\ ctx[c].handle = stackInbound[1].handle
        /\ ctx[c].session = stackInbound[1].session /\ ctx[c].dialog \in Live \ {"inviting"}
    BY <1>2, <1>3, <2>2, HandledCall
  <2>4. PICK s, t : s = stackInbound[1].session /\ t = stackInbound[1].txn  OBVIOUS
  <2>5. s \in Session  BY <2>1, <2>4 DEF SessionRequest
  <2>6. PICK r : r = [ctx[c] EXCEPT !.dialog = "over"]  OBVIOUS
  <2>7. /\ r \in Context /\ r.session = ctx[c].session /\ r.handle = ctx[c].handle /\ r.dialog = "over"
        /\ r.makeCallReq = ctx[c].makeCallReq /\ r.reofferReq = ctx[c].reofferReq
        /\ r.makeCallAck = ctx[c].makeCallAck
    BY <1>1, <2>3, <2>6, ContextFacts DEF Context, Dialog
  <2>8. /\ ctx' = [ctx EXCEPT ![c] = r] /\ iwHandlesMap' = Without(iwHandlesMap, ctx[c].handle)
        /\ ready' = NotifyHangup(Respond(ready, s, t, "BLIND_XFER_ACK", 0), c)
    BY <1>3, <2>1, <2>2, <2>3, <2>4, <2>6 DEF UponBlindXferReq
  <2>9. Touch(c, r)  BY <2>3, <2>7, <2>8, PastFields DEF Touch, Live
  <2>10. /\ Contexts' = Contexts /\ ctx'[c] = r /\ \A e \in Contexts : e # c => ctx'[e] = ctx[e]
    BY <1>1, <2>3, <2>7, <2>8, TouchContexts
  <2>11. Owes(1, c, r)  BY <2>7, <2>10 DEF Owes, WillAnswer
  <2>12. PICK a, z, C, S : a = "BLIND_XFER_ACK" /\ z = 0 /\ C = {c} /\ S = {s}  OBVIOUS
  <2>13. a \in Response /\ z \in 0..MaxContexts /\ C \in SUBSET Contexts
    BY <2>3, <2>12, BoundsAssumption DEF Response
  <2>14. \E q : q = Respond(ready, s, t, a, z) /\ ready' = NotifyHangup(q, c)  BY <2>8, <2>12
  <2>15. ReadyTyped' /\ Adds(S, t, a, z, C) /\ Hears(c)
    <3>1. ReadyTyped' /\ Adds({s}, t, a, z, {c}) /\ Hears(c)  BY <1>1, <2>3, <2>5, <2>13, <2>14, AddsBoth
    <3> QED  BY <2>12, <3>1
  <2>16. ASSUME NEW x \in Session, x \in S, op[x] \in TxnOp, txn[x] = t PROVE Fits([kind |-> a, call |-> z], x)
    <3>1. PICK e : e = [kind |-> a, call |-> z]  OBVIOUS
    <3>2. e.kind = "BLIND_XFER_ACK"  BY <2>12, <3>1
    <3>3. OpenRequest(1, x)  BY <2>1, <2>4, <2>12, <2>16 DEF OpenRequest, IsAsked, Asking
    <3>4. StackFrame  BY <1>1, <1>2, FramedSessions
    <3>5. \A d \in Contexts', o \in TxnOp : WillAnswer(d, x, o)' => d \in Contexts /\ WillAnswer(d, x, o)
      BY <2>7, <2>10, <3>4 DEF WillAnswer, StackFrame
    <3>6. /\ AskedBy(stackInbound[1].kind, op[x]) /\ ~Answered(x)
          /\ \A i \in Inbound' : ~OpenRequest(i, x)'
          /\ \A d \in Contexts', o \in TxnOp : ~WillAnswer(d, x, o)'
      BY <2>1, <2>16, <3>3, <3>4, <3>5, SpentRequest
    <3>7. AnswerTo(e.kind, op[x])  BY <2>1, <3>2, <3>6 DEF AskedBy, AnswerTo
    <3>8. Fits(e, x)  BY <2>16, <3>2, <3>6, <3>7 DEF Fits
    <3> QED  BY <3>1, <3>8
  <2>17. Delivers  BY <2>13, <2>15, <2>16, AddsDelivers
  <2>18. NameGoes(c, r)  BY <1>2, <2>3, <2>7, <2>8, <2>15 DEF NameGoes, Live
  <2>19. AcceptTyped'  BY <1>1, <1>2, SameAccept
  <2> QED  BY <1>2, <2>1, <2>3, <2>7, <2>9, <2>11, <2>15, <2>17, <2>18, <2>19, TouchKept
<1>4. CASE ~(Named(Msg.handle) /\ ctx[iwHandlesMap[Msg.handle]].dialog \in {"connected", "reoffered"})
  <2>1. ready' = Respond(ready, Msg.session, Msg.txn, "BLIND_XFER_NACK", 0) /\ UNCHANGED stackVars
    BY <1>2, <1>4 DEF UponBlindXferReq, stackVars
  <2>2. /\ "BLIND_XFER_NACK" \in Response /\ Refusal("BLIND_XFER_REQ", "BLIND_XFER_NACK")
        /\ "BLIND_XFER_REQ" # "REOFFER_REQ"
    BY DEF Response, Refusal
  <2> QED  BY <1>2, <2>1, <2>2, RefusedKept
<1> QED  BY <1>3, <1>4

-----------------------------------------------------------------------------
(* The callbacks of resip.                                                 *)

\* A dialog becomes what it was, but for its state.
LEMMA MovedContext ==
    ASSUME Inv, NEW c \in Contexts, NEW d \in Dialog
    PROVE  \A r : r = [ctx[c] EXCEPT !.dialog = d] =>
               /\ r \in Context /\ r.session = ctx[c].session /\ r.handle = ctx[c].handle /\ r.dialog = d
               /\ r.makeCallReq = ctx[c].makeCallReq /\ r.reofferReq = ctx[c].reofferReq
               /\ r.makeCallAck = ctx[c].makeCallAck
               /\ \A x \in Session : op[x] # "deleted" /\ r.session = x =>
                     r.makeCallReq <= txn[x] /\ r.reofferReq <= txn[x] /\ r.makeCallAck <= txn[x]
<1> SUFFICES ASSUME NEW r, r = [ctx[c] EXCEPT !.dialog = d]
    PROVE  /\ r \in Context /\ r.session = ctx[c].session /\ r.handle = ctx[c].handle /\ r.dialog = d
           /\ r.makeCallReq = ctx[c].makeCallReq /\ r.reofferReq = ctx[c].reofferReq
           /\ r.makeCallAck = ctx[c].makeCallAck
           /\ \A x \in Session : op[x] # "deleted" /\ r.session = x =>
                 r.makeCallReq <= txn[x] /\ r.reofferReq <= txn[x] /\ r.makeCallAck <= txn[x]
  OBVIOUS
<1>1. ctx[c] \in Context  BY ContextFacts DEF Inv
<1>2. /\ r \in Context /\ r.session = ctx[c].session /\ r.handle = ctx[c].handle /\ r.dialog = d
      /\ r.makeCallReq = ctx[c].makeCallReq /\ r.reofferReq = ctx[c].reofferReq
      /\ r.makeCallAck = ctx[c].makeCallAck
  BY <1>1 DEF Context
<1> QED  BY <1>2, PastFields

\* A callback leaves the requests and the sessions alone.
CallbackFrame ==
    /\ UNCHANGED sessionVars /\ UNCHANGED stackInbound /\ UNCHANGED acceptVars
    /\ UNCHANGED <<callIndex, eventsHandle, stackUp>>

LEMMA CallbackTyped ==
    ASSUME Inv, CallbackFrame
    PROVE  TypeOK /\ StackFrame /\ AcceptTyped' /\ InboundTyped' /\ InboundShifts(0) /\ 0 \in {0, 1}
<1>1. TypeOK  BY DEF Inv
<1> QED  BY <1>1, FramedSessions, SameAccept, NothingHandled DEF CallbackFrame

\* The dialog is over: its session is told.
LEMMA TerminatedKept ==
    ASSUME Inv, NEW c \in Contexts, CallbackFrame, UNCHANGED resipId,
           ctx' = [ctx EXCEPT ![c] = [ctx[c] EXCEPT !.dialog = "over"]],
           iwHandlesMap' = Without(iwHandlesMap, ctx[c].handle),
           ReadyTyped', Delivers, Hears(c)
    PROVE  Inv'
<1>1. TypeOK /\ AcceptTyped' /\ InboundTyped' /\ InboundShifts(0) /\ 0 \in {0, 1}  BY CallbackTyped
<1>2. PICK r : r = [ctx[c] EXCEPT !.dialog = "over"]  OBVIOUS
<1>3. "over" \in Dialog  BY DEF Dialog
<1>4. /\ r \in Context /\ r.session = ctx[c].session /\ r.handle = ctx[c].handle /\ r.dialog = "over"
      /\ \A x \in Session : op[x] # "deleted" /\ r.session = x =>
            r.makeCallReq <= txn[x] /\ r.reofferReq <= txn[x] /\ r.makeCallAck <= txn[x]
  BY <1>2, <1>3, MovedContext
<1>5. ctx' = [ctx EXCEPT ![c] = r]  BY <1>2
<1>6. Touch(c, r)  BY <1>4, <1>5 DEF Touch, Live
<1>7. ctx'[c] = r  BY <1>1, <1>4, <1>5, TouchContexts
<1>8. Owes(0, c, r)  BY <1>4, <1>7 DEF Owes, WillAnswer
<1>9. NameGoes(c, r)  BY <1>4 DEF NameGoes
<1>10. UNCHANGED sessionVars /\ UNCHANGED <<callIndex, eventsHandle, stackUp>>  BY DEF CallbackFrame
<1> QED  BY <1>1, <1>4, <1>6, <1>8, <1>9, <1>10, TouchKept

LEMMA OnTerminatedKept ==
    ASSUME Inv, NEW c \in Contexts, OnTerminated(c)
    PROVE  Inv'
<1>1. CallbackFrame /\ UNCHANGED resipId  BY DEF OnTerminated, CallbackFrame
<1>2. /\ ctx' = [ctx EXCEPT ![c] = [ctx[c] EXCEPT !.dialog = "over"]]
      /\ iwHandlesMap' = Without(iwHandlesMap, ctx[c].handle)
      /\ ready' = NotifyHangup(ready, c)
  BY DEF OnTerminated, FinalizeContext
<1>3. ReadyTyped' /\ Delivers /\ Hears(c)  BY <1>2, HangupDelivers DEF Inv
<1> QED  BY <1>1, <1>2, <1>3, TerminatedKept

LEMMA OnFailureKept ==
    ASSUME Inv, NEW c \in Contexts, OnFailure(c)
    PROVE  Inv'
<1>1. CallbackFrame /\ UNCHANGED resipId  BY DEF OnFailure, CallbackFrame
<1>2. TypeOK /\ StackFrame  BY <1>1, CallbackTyped
<1>3. PICK s, t, a, z, C, S : /\ s = ctx[c].session /\ t = ctx[c].makeCallReq /\ a = "MAKE_CALL_NACK"
                              /\ z = 0 /\ C = {c} /\ S = {s}
  OBVIOUS
<1>4. /\ ctx' = [ctx EXCEPT ![c] = [ctx[c] EXCEPT !.dialog = "over"]]
      /\ iwHandlesMap' = Without(iwHandlesMap, ctx[c].handle)
      /\ ready' = NotifyHangup(Respond(ready, s, t, a, z), c)
      /\ s \in Session /\ ctx[c].dialog \in {"inviting", "early"}
  BY <1>3 DEF OnFailure, Session
<1>5. a \in Response /\ z \in 0..MaxContexts /\ C \in SUBSET Contexts
  BY <1>3, BoundsAssumption DEF Response
<1>6. \E q : q = Respond(ready, s, t, a, z) /\ ready' = NotifyHangup(q, c)  BY <1>4
<1>7. ReadyTyped' /\ Adds(S, t, a, z, C) /\ Hears(c)
  <2>1. ReadyTyped' /\ Adds({s}, t, a, z, {c}) /\ Hears(c)  BY <1>2, <1>4, <1>5, <1>6, AddsBoth
  <2> QED  BY <1>3, <2>1
<1>8. ASSUME NEW x \in Session, x \in S, op[x] \in TxnOp, txn[x] = t PROVE Fits([kind |-> a, call |-> z], x)
  <2>1. PICK e, r : e = [kind |-> a, call |-> z] /\ r = [ctx[c] EXCEPT !.dialog = "over"]  OBVIOUS
  <2>2. e.kind = "MAKE_CALL_NACK"  BY <1>3, <2>1
  <2>3. "over" \in Dialog /\ "MakeCall" \in TxnOp  BY DEF Dialog, TxnOp
  <2>4. r \in Context /\ r.dialog = "over"  BY <2>1, <2>3, MovedContext
  <2>5. ctx' = [ctx EXCEPT ![c] = r] /\ UNCHANGED stackInbound  BY <1>1, <1>4, <2>1 DEF CallbackFrame
  <2>6. WillAnswer(c, x, "MakeCall")  BY <1>3, <1>4, <1>8 DEF WillAnswer
  <2>7. /\ op[x] = "MakeCall" /\ ~Answered(x)
        /\ \A i \in Inbound' : ~OpenRequest(i, x)'
        /\ \A d \in Contexts', o \in TxnOp : ~WillAnswer(d, x, o)'
    BY <1>2, <1>8, <2>3, <2>4, <2>5, <2>6, SpentAnswer
  <2>8. AnswerTo(e.kind, op[x])  BY <2>2, <2>7 DEF AnswerTo
  <2>9. NoCall(x)'
    <3>1. IsLive(c, x) /\ CallsOf(x) /\ OneLiveCall
      BY <1>3, <1>4, <1>8 DEF IsLive, Live, Inv, Calls
    <3>2. \A i \in Inbound' : ~IsInvite(i, x)'  BY <2>5, <3>1 DEF CallsOf, Inbound, IsInvite
    <3>3. /\ Contexts' = Contexts /\ ctx'[c] = r /\ \A d \in Contexts : d # c => ctx'[d] = ctx[d]
      BY <1>2, <2>4, <2>5, TouchContexts
    <3>4. ASSUME NEW d \in Contexts, IsLive(d, x)' PROVE FALSE
      <4>1. d # c  BY <2>4, <3>3, <3>4 DEF IsLive, Live
      <4>2. IsLive(d, x)  BY <3>3, <3>4, <4>1 DEF IsLive
      <4> QED  BY <3>1, <4>1, <4>2 DEF OneLiveCall, IsLive
    <3> QED  BY <3>2, <3>3, <3>4 DEF NoCall
  <2>10. Fits(e, x)  BY <1>8, <2>2, <2>7, <2>8, <2>9 DEF Fits
  <2> QED  BY <2>1, <2>10
<1>9. Delivers  BY <1>5, <1>7, <1>8, AddsDelivers
<1> QED  BY <1>1, <1>4, <1>7, <1>9, TerminatedKept

\* The dialog is connected, and what it was asked for is answered.
LEMMA AnsweredKept ==
    ASSUME Inv, NEW c \in Contexts, CallbackFrame, UNCHANGED <<iwHandlesMap, resipId>>,
           NEW r \in Context, Touch(c, r), r.dialog = "connected",
           ctx[c].dialog \in Live \ {"inviting", "connected"},
           NEW o \in TxnOp, NEW a \in {"MAKE_CALL_OK", "CALL_CONNECTED", "REOFFER_ACK"}, AnswerTo(a, o),
           NEW t, \A x \in Session : ctx[c].session = x /\ txn[x] = t => WillAnswer(c, x, o),
           \E s : s = ctx[c].session /\ ready' = Respond(ready, s, t, a, c)
    PROVE  Inv'
<1>1. TypeOK /\ StackFrame /\ AcceptTyped' /\ InboundTyped' /\ InboundShifts(0) /\ 0 \in {0, 1}
  BY CallbackTyped
<1>2. PICK s : s = ctx[c].session /\ ready' = Respond(ready, s, t, a, c)  OBVIOUS
<1>3. s \in Session  BY <1>2 DEF Inv, Naming, CallIsOurs
<1>4. a \in Response /\ c \in 0..MaxContexts  BY <1>1, ContextFacts DEF Response
<1>5. PICK S, C : S = {s} /\ C = {}  OBVIOUS
<1>6. ReadyTyped' /\ Adds(S, t, a, c, C)
  <2>1. ReadyTyped' /\ Adds({s}, t, a, c, {})  BY <1>1, <1>2, <1>3, <1>4, AddsResponse
  <2> QED  BY <1>5, <2>1
<1>7. ctx' = [ctx EXCEPT ![c] = r] /\ UNCHANGED stackInbound  BY DEF Touch, CallbackFrame
<1>8. ASSUME NEW x \in Session, x \in S, op[x] \in TxnOp, txn[x] = t PROVE Fits([kind |-> a, call |-> c], x)
  <2>1. PICK e, h : e = [kind |-> a, call |-> c] /\ h = ctx[c].handle  OBVIOUS
  <2>2. e.kind = a /\ e.call = c  BY <2>1
  <2>3. ctx[c].session = x /\ WillAnswer(c, x, o)  BY <1>2, <1>5, <1>8
  <2>4. /\ op[x] = o /\ ~Answered(x)
        /\ op[x] = "ReOffer" => ctx[c].handle = iwCallHandle[x]
        /\ \A i \in Inbound' : ~OpenRequest(i, x)'
        /\ \A d \in Contexts', p \in TxnOp : ~WillAnswer(d, x, p)'
    <3>1. r.dialog \in {"connected", "over"}  OBVIOUS
    <3>2. Inv /\ StackFrame /\ stackInbound' = stackInbound /\ op[x] \in TxnOp  BY <1>1, <1>7, <1>8
    <3>3. WillAnswer(c, x, o)  BY <2>3
    <3>4. op[x] = o /\ ~Answered(x)
      BY ONLY <3>1, <3>2, <3>3, <1>7, c \in Contexts, r \in Context, x \in Session, o \in TxnOp, SpentAnswer
    <3>5. \A i \in Inbound' : ~OpenRequest(i, x)'
      BY ONLY <3>1, <3>2, <3>3, <1>7, c \in Contexts, r \in Context, x \in Session, o \in TxnOp, SpentAnswer
    <3>6. \A d \in Contexts', p \in TxnOp : ~WillAnswer(d, x, p)'
      BY ONLY <3>1, <3>2, <3>3, <1>7, c \in Contexts, r \in Context, x \in Session, o \in TxnOp, SpentAnswer
    <3>7. OneToken(x)  BY <1>8 DEF Inv, Tokens, TokensOf
    <3>8. op[x] = "ReOffer" => ctx[c].handle = iwCallHandle[x]  BY <2>3, <3>4, <3>7 DEF OneToken
    <3> QED  BY <3>4, <3>5, <3>6, <3>8
  <2>5. CanOffer(h)'  BY <1>7, <2>1, FreshOffer
  <2>6. CanOffer(ctx[e.call].handle)'
    <3>1. ctx'[c] = r /\ r.handle = h  BY <1>1, <1>7, <2>1, TouchContexts DEF Touch
    <3> QED  BY <2>2, <2>5, <3>1 DEF CanOffer, Named, IsReoffer
  <2>7. a = "REOFFER_ACK" => CanOffer(iwCallHandle[x])'
    <3> SUFFICES ASSUME a = "REOFFER_ACK" PROVE CanOffer(iwCallHandle[x])'
      OBVIOUS
    <3>1. o = "ReOffer"  BY DEF AnswerTo
    <3>2. iwCallHandle'[x] = h  BY <1>1, <2>1, <2>4, <3>1 DEF StackFrame
    <3> QED  BY <2>5, <3>2 DEF CanOffer, Named, IsReoffer
  <2>8. ctx[c].dialog \notin {"inviting", "over"}  BY DEF Live
  <2>9. Fits(e, x)  BY <1>8, <2>2, <2>3, <2>4, <2>6, <2>7, <2>8 DEF Fits
  <2> QED  BY <2>1, <2>9
<1>9. C \in SUBSET Contexts  BY <1>5
<1>10. Delivers  BY <1>4, <1>6, <1>8, <1>9, AddsDelivers
<1>11. ctx'[c] = r  BY <1>1, <1>7, TouchContexts
<1>12. Owes(0, c, r)  BY <1>11 DEF Owes, WillAnswer
<1>13. NameStays(0, c, r)  BY DEF NameStays, Live
<1>14. UNCHANGED sessionVars /\ UNCHANGED <<callIndex, eventsHandle, stackUp>>  BY DEF CallbackFrame
<1> QED  BY <1>1, <1>6, <1>10, <1>12, <1>13, <1>14, TouchKept

LEMMA OnConnectedKept ==
    ASSUME Inv, NEW c \in Contexts, OnConnected(c)
    PROVE  Inv'
<1>1. CallbackFrame /\ UNCHANGED <<iwHandlesMap, resipId>>  BY DEF OnConnected, CallbackFrame
<1>2. PICK s, t, r : /\ s = ctx[c].session /\ t = ctx[c].makeCallReq
                     /\ r = [ctx[c] EXCEPT !.dialog = "connected"]
  OBVIOUS
<1>3. /\ ctx' = [ctx EXCEPT ![c] = r] /\ ready' = Respond(ready, s, t, "MAKE_CALL_OK", c)
      /\ ctx[c].dialog = "early"
  BY <1>2 DEF OnConnected
<1>4. "connected" \in Dialog /\ "MakeCall" \in TxnOp /\ "MAKE_CALL_OK" \in {"MAKE_CALL_OK", "CALL_CONNECTED", "REOFFER_ACK"}
      /\ AnswerTo("MAKE_CALL_OK", "MakeCall") /\ ctx[c].dialog \in Live \ {"inviting", "connected"}
  BY <1>3 DEF Dialog, Live, TxnOp, AnswerTo
<1>5. /\ r \in Context /\ r.session = ctx[c].session /\ r.handle = ctx[c].handle /\ r.dialog = "connected"
      /\ \A x \in Session : op[x] # "deleted" /\ r.session = x =>
            r.makeCallReq <= txn[x] /\ r.reofferReq <= txn[x] /\ r.makeCallAck <= txn[x]
  BY <1>2, <1>4, MovedContext
<1>6. Touch(c, r)  BY <1>3, <1>4, <1>5 DEF Touch
<1>7. \A x \in Session : ctx[c].session = x /\ txn[x] = t => WillAnswer(c, x, "MakeCall")
  BY <1>2, <1>3 DEF WillAnswer
<1> QED  BY <1>1, <1>2, <1>3, <1>4, <1>5, <1>6, <1>7, AnsweredKept

LEMMA OnConnectedConfirmedKept ==
    ASSUME Inv, NEW c \in Contexts, OnConnectedConfirmed(c)
    PROVE  Inv'
<1>1. CallbackFrame /\ UNCHANGED <<iwHandlesMap, resipId>>  BY DEF OnConnectedConfirmed, CallbackFrame
<1>2. PICK s, t, r : /\ s = ctx[c].session /\ t = ctx[c].makeCallAck
                     /\ r = [ctx[c] EXCEPT !.dialog = "connected"]
  OBVIOUS
<1>3. /\ ctx' = [ctx EXCEPT ![c] = r] /\ ready' = Respond(ready, s, t, "CALL_CONNECTED", c)
      /\ ctx[c].dialog = "accepted"
  BY <1>2 DEF OnConnectedConfirmed
<1>4. "connected" \in Dialog /\ "Answer" \in TxnOp /\ "CALL_CONNECTED" \in {"MAKE_CALL_OK", "CALL_CONNECTED", "REOFFER_ACK"}
      /\ AnswerTo("CALL_CONNECTED", "Answer") /\ ctx[c].dialog \in Live \ {"inviting", "connected"}
  BY <1>3 DEF Dialog, Live, TxnOp, AnswerTo
<1>5. /\ r \in Context /\ r.session = ctx[c].session /\ r.handle = ctx[c].handle /\ r.dialog = "connected"
      /\ \A x \in Session : op[x] # "deleted" /\ r.session = x =>
            r.makeCallReq <= txn[x] /\ r.reofferReq <= txn[x] /\ r.makeCallAck <= txn[x]
  BY <1>2, <1>4, MovedContext
<1>6. Touch(c, r)  BY <1>3, <1>4, <1>5 DEF Touch
<1>7. \A x \in Session : ctx[c].session = x /\ txn[x] = t => WillAnswer(c, x, "Answer")
  BY <1>2, <1>3 DEF WillAnswer
<1> QED  BY <1>1, <1>2, <1>3, <1>4, <1>5, <1>6, <1>7, AnsweredKept

LEMMA OnAnswerKept ==
    ASSUME Inv, NEW c \in Contexts, OnAnswer(c)
    PROVE  Inv'
<1>1. CallbackFrame /\ UNCHANGED <<iwHandlesMap, resipId>>  BY DEF OnAnswer, CallbackFrame
<1>2. PICK s, t, r : /\ s = ctx[c].session /\ t = ctx[c].reofferReq
                     /\ r = [ctx[c] EXCEPT !.dialog = "connected", !.reofferReq = 0]
  OBVIOUS
<1>3. /\ ctx' = [ctx EXCEPT ![c] = r] /\ ready' = Respond(ready, s, t, "REOFFER_ACK", c)
      /\ ctx[c].dialog = "reoffered"
  BY <1>2 DEF OnAnswer
<1>4. "connected" \in Dialog /\ "ReOffer" \in TxnOp /\ "REOFFER_ACK" \in {"MAKE_CALL_OK", "CALL_CONNECTED", "REOFFER_ACK"}
      /\ AnswerTo("REOFFER_ACK", "ReOffer") /\ ctx[c].dialog \in Live \ {"inviting", "connected"}
  BY <1>3 DEF Dialog, Live, TxnOp, AnswerTo
<1>5. ctx[c] \in Context /\ 0 \in TxnId  BY ContextFacts, BoundsAssumption DEF Inv, TxnId
<1>6. /\ r \in Context /\ r.session = ctx[c].session /\ r.handle = ctx[c].handle /\ r.dialog = "connected"
      /\ r.makeCallReq = ctx[c].makeCallReq /\ r.reofferReq = 0 /\ r.makeCallAck = ctx[c].makeCallAck
  BY <1>2, <1>4, <1>5 DEF Context
<1>7. \A x \in Session : 0 <= txn[x]  BY DEF Inv, TypeOK, TxnId
<1>8. Touch(c, r)  BY <1>3, <1>4, <1>6, <1>7, PastFields DEF Touch
<1>9. \A x \in Session : ctx[c].session = x /\ txn[x] = t => WillAnswer(c, x, "ReOffer")
  BY <1>2, <1>3 DEF WillAnswer
<1> QED  BY <1>1, <1>2, <1>3, <1>4, <1>6, <1>8, <1>9, AnsweredKept

LEMMA OnOfferRejectedKept ==
    ASSUME Inv, NEW c \in Contexts, OnOfferRejected(c)
    PROVE  Inv'
<1>1. CallbackFrame /\ UNCHANGED <<iwHandlesMap, resipId>>  BY DEF OnOfferRejected, CallbackFrame
<1>2. TypeOK /\ AcceptTyped' /\ InboundTyped' /\ InboundShifts(0) /\ 0 \in {0, 1}  BY <1>1, CallbackTyped
<1>3. PICK r : r = [ctx[c] EXCEPT !.dialog = "connected"]  OBVIOUS
<1>4. "connected" \in Dialog  BY DEF Dialog, Live
<1>5. /\ r \in Context /\ r.session = ctx[c].session /\ r.handle = ctx[c].handle /\ r.dialog = "connected"
      /\ \A x \in Session : op[x] # "deleted" /\ r.session = x =>
            r.makeCallReq <= txn[x] /\ r.reofferReq <= txn[x] /\ r.makeCallAck <= txn[x]
  BY <1>3, <1>4, MovedContext
<1>6. ctx' = [ctx EXCEPT ![c] = r] /\ ctx[c].dialog = "reoffered"  BY <1>3 DEF OnOfferRejected
<1>7. Touch(c, r)  BY <1>5, <1>6 DEF Touch, Live
<1>8. ctx'[c] = r  BY <1>2, <1>5, <1>6, TouchContexts
<1>9. Owes(0, c, r)  BY <1>5, <1>8 DEF Owes, WillAnswer
<1>10. NameStays(0, c, r)  BY <1>1, <1>5, <1>6 DEF NameStays, Live
<1>11. ReadyTyped' /\ Delivers  BY <1>2, QuietDelivers DEF OnOfferRejected
<1>12. UNCHANGED sessionVars /\ UNCHANGED <<callIndex, eventsHandle, stackUp>>  BY <1>1 DEF CallbackFrame
<1> QED  BY <1>2, <1>5, <1>7, <1>9, <1>10, <1>11, <1>12, TouchKept

LEMMA OnSessionExpiredKept ==
    ASSUME Inv, NEW c \in Contexts, OnSessionExpired(c)
    PROVE  Inv'
<1>1. CallbackFrame /\ UNCHANGED <<ctx, resipId>>  BY DEF OnSessionExpired, CallbackFrame
<1>2. TypeOK /\ AcceptTyped' /\ InboundTyped' /\ InboundShifts(0) /\ 0 \in {0, 1}  BY <1>1, CallbackTyped
<1>3. PICK r : r = ctx[c]  OBVIOUS
<1>4. r \in Context /\ r.dialog = "connected"  BY <1>2, <1>3, ContextFacts DEF OnSessionExpired
<1>5. ctx' = [ctx EXCEPT ![c] = r]
  <2>1. PICK E : E = Context  OBVIOUS
  <2>2. ctx \in Seq(E) /\ c \in 1..Len(ctx)  BY <1>2, <2>1, ContextFacts
  <2> QED  BY <1>1, <1>3, <2>2
<1>6. Touch(c, r)  BY <1>3, <1>4, <1>5, PastFields DEF Touch
<1>7. Owes(0, c, r)
  <2>1. ctx'[c] = ctx[c] /\ txn' = txn  BY <1>1 DEF CallbackFrame, sessionVars
  <2> QED  BY <2>1 DEF Owes, WillAnswer
<1>8. iwHandlesMap' = Without(iwHandlesMap, ctx[c].handle) /\ ready' = NotifyHangup(ready, c)
  BY DEF OnSessionExpired, FinalizeContext
<1>9. ReadyTyped' /\ Delivers /\ Hears(c)  BY <1>2, <1>8, HangupDelivers
<1>10. NameGoes(c, r)  BY <1>1, <1>3, <1>4, <1>8, <1>9 DEF NameGoes
<1>11. UNCHANGED sessionVars /\ UNCHANGED <<callIndex, eventsHandle, stackUp>>  BY <1>1 DEF CallbackFrame
<1> QED  BY <1>2, <1>4, <1>6, <1>7, <1>9, <1>10, <1>11, TouchKept

LEMMA OnNewSessionKept ==
    ASSUME Inv, NEW c \in Contexts, OnNewSession(c)
    PROVE  Inv'
<1>1. CallbackFrame  BY DEF OnNewSession, CallbackFrame
<1>2. TypeOK /\ AcceptTyped' /\ InboundTyped' /\ InboundShifts(0) /\ 0 \in {0, 1}  BY <1>1, CallbackTyped
<1>3. PICK r : r = [ctx[c] EXCEPT !.dialog = "early"]  OBVIOUS
<1>4. "early" \in Dialog  BY DEF Dialog, Live
<1>5. /\ r \in Context /\ r.session = ctx[c].session /\ r.handle = ctx[c].handle /\ r.dialog = "early"
      /\ r.makeCallReq = ctx[c].makeCallReq
      /\ \A x \in Session : op[x] # "deleted" /\ r.session = x =>
            r.makeCallReq <= txn[x] /\ r.reofferReq <= txn[x] /\ r.makeCallAck <= txn[x]
  BY <1>3, <1>4, MovedContext
<1>6. ctx' = [ctx EXCEPT ![c] = r] /\ ctx[c].dialog = "inviting"  BY <1>3 DEF OnNewSession
<1>7. Touch(c, r)  BY <1>5, <1>6 DEF Touch, Live
<1>8. ctx'[c] = r  BY <1>2, <1>5, <1>6, TouchContexts
<1>9. Owes(0, c, r)
  <2>1. txn' = txn  BY <1>1 DEF CallbackFrame, sessionVars
  <2> QED  BY <1>5, <1>6, <1>8, <2>1 DEF Owes, WillAnswer
<1>10. NameComes(c, r)  BY <1>5, <1>6 DEF NameComes, OnNewSession
<1>11. ReadyTyped' /\ Delivers  BY <1>2, QuietDelivers DEF OnNewSession
<1>12. UNCHANGED sessionVars /\ UNCHANGED <<callIndex, eventsHandle, stackUp>>  BY <1>1 DEF CallbackFrame
<1> QED  BY <1>2, <1>5, <1>7, <1>9, <1>10, <1>11, <1>12, TouchKept

-----------------------------------------------------------------------------
(* A new context.                                                          *)

LEMMA AppendContexts ==
    ASSUME TypeOK, NEW r \in Context, ctx' = Append(ctx, r)
    PROVE  /\ ctx' \in Seq(Context) /\ Len(ctx) \in Nat /\ Len(ctx') = Len(ctx) + 1
           /\ Contexts' = Contexts \cup {Len(ctx) + 1} /\ Len(ctx) + 1 \notin Contexts
           /\ ctx'[Len(ctx) + 1] = r /\ \A e \in Contexts : ctx'[e] = ctx[e]
<1>1. PICK E : E = Context  OBVIOUS
<1>2. ctx \in Seq(E) /\ r \in E /\ Contexts = 1..Len(ctx) /\ Len(ctx) \in Nat  BY <1>1, ContextFacts
<1>3. /\ ctx' \in Seq(E) /\ Len(ctx') = Len(ctx) + 1
      /\ ctx'[Len(ctx) + 1] = r /\ \A e \in 1..Len(ctx) : ctx'[e] = ctx[e]
  BY <1>2
<1>4. 1..(Len(ctx) + 1) = (1..Len(ctx)) \cup {Len(ctx) + 1}  BY <1>2
<1>5. Contexts' = 1..Len(ctx')  BY DEF Contexts
<1> QED  BY <1>1, <1>2, <1>3, <1>4, <1>5

\* Neither counter has given out its next value.
LEMMA FreshHandles ==
    ASSUME Inv, Len(ctx) < MaxContexts
    PROVE  /\ callIndex \in Nat /\ CALL_INDEX <= callIndex /\ callIndex <= CALL_INDEX + Len(ctx)
           /\ callIndex + 1 \in Handle
           /\ resipId \in Nat /\ resipId < MaxContexts /\ resipId + 1 \in Handle
           /\ \A c \in Contexts : ctx[c].handle # callIndex + 1 /\ ctx[c].handle # resipId + 1
<1>1. TypeOK /\ Counters /\ HandleIssued  BY DEF Inv, Naming
<1>2. Len(ctx) \in Nat /\ \A c \in Contexts : ctx[c] \in Context  BY <1>1, ContextFacts
<1>3. callIndex \in Nat /\ CALL_INDEX <= callIndex /\ resipId \in Nat
  BY <1>1, TypeParts, BoundsAssumption DEF StackTyped
<1>4. callIndex <= CALL_INDEX + Len(ctx) /\ resipId <= Len(ctx)
  BY <1>1, <1>2, <1>3, StartedFinite DEF Counters
<1>5. callIndex + 1 \in Handle /\ resipId + 1 \in Handle /\ resipId < MaxContexts
  BY <1>2, <1>3, <1>4, BoundsAssumption DEF Handle
<1>6. ASSUME NEW c \in Contexts PROVE ctx[c].handle # callIndex + 1 /\ ctx[c].handle # resipId + 1
  <2>1. ctx[c].handle \in Nat  BY <1>2 DEF Context, Handle
  <2>2. CASE ctx[c].session \in Uac
    BY <1>1, <1>2, <1>3, <1>4, <2>1, <2>2, HandlesApart, BoundsAssumption DEF HandleIssued
  <2>3. CASE ctx[c].session \notin Uac
    BY <1>1, <1>2, <1>3, <1>4, <2>1, <2>3, HandlesApart, BoundsAssumption DEF HandleIssued
  <2> QED  BY <2>2, <2>3
<1> QED  BY <1>3, <1>4, <1>5, <1>6

\* The map keeps its names; new is at most that of r.
Enters(r) ==
    /\ ctx' = Append(ctx, r) /\ Len(ctx) < MaxContexts
    /\ \A c \in Contexts : ctx[c].handle # r.handle
    /\ \A h \in DOMAIN iwHandlesMap : h \in DOMAIN iwHandlesMap' /\ iwHandlesMap'[h] = iwHandlesMap[h]
    /\ \A h \in DOMAIN iwHandlesMap' : h \notin DOMAIN iwHandlesMap =>
          h = r.handle /\ iwHandlesMap'[h] = Len(ctx) + 1 /\ r.dialog \in Live \ {"inviting"}
    /\ callIndex' \in CALL_INDEX..(CALL_INDEX + MaxContexts) /\ callIndex <= callIndex'
    /\ callIndex' <= CALL_INDEX + Len(ctx) + 1
    /\ resipId' = IF r.dialog = "inviting" THEN resipId ELSE resipId + 1
    /\ IF r.session \in Uac THEN CALL_INDEX < r.handle /\ r.handle <= callIndex' ELSE r.handle <= resipId'
    /\ eventsHandle' \in 0..MaxSubscribes /\ UNCHANGED stackUp
    /\ r.dialog = "inviting" => r.session \in Uac
    /\ r.dialog \in Live => r.session \in Session

LEMMA AppendNaming ==
    ASSUME Inv, NEW r \in Context, Enters(r)
    PROVE  Naming' /\ StackTyped'
<1>1. TypeOK /\ Naming /\ StackTyped  BY TypeParts DEF Inv
<1>2. PICK d : d = Len(ctx) + 1  OBVIOUS
<1>3. /\ ctx' \in Seq(Context) /\ Len(ctx) \in Nat /\ Len(ctx') = d
      /\ Contexts' = Contexts \cup {d} /\ d \notin Contexts
      /\ ctx'[d] = r /\ \A e \in Contexts : ctx'[e] = ctx[e]
  BY <1>1, <1>2, AppendContexts DEF Enters
<1>4. /\ callIndex \in Nat /\ callIndex' \in Nat /\ callIndex <= callIndex'
      /\ resipId \in Nat /\ resipId' \in Nat /\ resipId <= resipId' /\ resipId' <= MaxContexts
  BY <1>1, FreshHandles, BoundsAssumption DEF Enters
<1>5. OneHandle'
  <2>1. \A e \in Contexts : ctx'[e].handle # r.handle  BY <1>3 DEF Enters
  <2>2. \A e, f \in Contexts : ctx'[e].handle = ctx'[f].handle => e = f
    BY <1>1, <1>3 DEF Naming, OneHandle
  <2>3. \A e, f \in Contexts \cup {d} : ctx'[e].handle = ctx'[f].handle => e = f
    BY <1>3, <2>1, <2>2
  <2> QED  BY <1>3, <2>3 DEF OneHandle
<1>6. HandleIssued'
  <2>1. \A e \in Contexts : ctx[e] \in Context  BY <1>1, ContextFacts
  <2>2. \A e \in Contexts : ctx[e].handle \in Int  BY <2>1 DEF Context, Handle
  <2>3. \A e \in Contexts : IF ctx[e].session \in Uac
                            THEN CALL_INDEX < ctx[e].handle /\ ctx[e].handle <= callIndex'
                            ELSE ctx[e].handle <= resipId'
    BY <1>1, <1>4, <2>2 DEF Naming, HandleIssued
  <2> QED  BY <1>3, <2>3 DEF HandleIssued, Enters
<1>7. CallIsOurs'  BY <1>1, <1>3 DEF Naming, CallIsOurs, Enters
<1>8. MapLeadsToLive'
  <2> SUFFICES ASSUME NEW h \in DOMAIN iwHandlesMap'
      PROVE  ctx'[iwHandlesMap'[h]].handle = h /\ ctx'[iwHandlesMap'[h]].dialog \in Live \ {"inviting"}
    BY DEF MapLeadsToLive
  <2>1. CASE h \in DOMAIN iwHandlesMap
    <3>1. PICK e : e = iwHandlesMap[h]  OBVIOUS
    <3>2. e \in Contexts /\ ctx[e].handle = h /\ ctx[e].dialog \in Live \ {"inviting"}
      BY <2>1, <3>1, NamedCall DEF Named
    <3>3. iwHandlesMap'[h] = e /\ ctx'[e] = ctx[e]  BY <1>3, <2>1, <3>1, <3>2 DEF Enters
    <3> QED  BY <3>2, <3>3
  <2>2. CASE h \notin DOMAIN iwHandlesMap  BY <1>2, <1>3, <2>2 DEF Enters
  <2> QED  BY <2>1, <2>2
<1>9. \A h \in DOMAIN iwHandlesMap' : h \in Handle /\ iwHandlesMap'[h] \in Contexts'
  <2>1. r.handle \in Handle  BY DEF Context
  <2> QED  BY <1>1, <1>2, <1>3, <2>1 DEF StackTyped, Enters
<1>10. Counters'
  <2>1. PICK S : S = Started  OBVIOUS
  <2>2. IsFiniteSet(S) /\ Cardinality(S) \in Nat /\ resipId <= Cardinality(S)
    BY <1>1, <2>1, StartedFinite DEF Naming, Counters
  <2>3. d \notin S  BY <1>3, <2>1 DEF Started
  <2>4. Cardinality(S \cup {d}) = Cardinality(S) + 1  BY <2>2, <2>3, FS_AddElement
  <2>5. Started' = IF r.dialog = "inviting" THEN S ELSE S \cup {d}  BY <1>3, <2>1 DEF Started
  <2>6. resipId' <= Cardinality(Started)'
    <3>1. CASE r.dialog = "inviting"  BY <2>2, <2>5, <3>1 DEF Enters
    <3>2. CASE r.dialog # "inviting"
      <4>1. Cardinality(Started)' = Cardinality(S) + 1 /\ resipId' = resipId + 1
        BY <2>4, <2>5, <3>2 DEF Enters
      <4> QED  BY <1>4, <2>2, <4>1
    <3> QED  BY <3>1, <3>2
  <2>7. callIndex' <= CALL_INDEX + Len(ctx')  BY <1>2, <1>3, <1>4, BoundsAssumption DEF Enters
  <2> QED  BY <2>6, <2>7 DEF Counters
<1>11. StackTyped'
  <2>1. Len(ctx') <= MaxContexts  BY <1>2, <1>3, BoundsAssumption DEF Enters
  <2>2. resipId' \in 0..MaxContexts  BY <1>4, BoundsAssumption
  <2>3. stackUp' \in BOOLEAN  BY <1>1 DEF StackTyped, Enters
  <2> QED  BY <1>3, <1>9, <2>1, <2>2, <2>3 DEF StackTyped, Enters
<1> QED  BY <1>5, <1>6, <1>7, <1>8, <1>10, <1>11 DEF Naming

LEMMA AppendKept ==
    ASSUME Inv, NEW n \in {0, 1}, NEW r \in Context, Enters(r), StackFrame, SessionTyped', UNCHANGED ready,
           AcceptTyped', InboundTyped', InboundShifts(n),
           r.dialog \in Live => \/ n = 1 /\ 1 \in Inbound /\ IsInvite(1, r.session)
                                \/ op[r.session] = "none",
           \A x \in Session : op[x] # "deleted" /\ r.session = x =>
              r.makeCallReq <= txn[x] /\ r.reofferReq <= txn[x] /\ r.makeCallAck <= txn[x],
           r.dialog \in {"inviting", "early"} /\ r.session \in Session =>
              op[r.session] = "none" \/ (n = 1 /\ 1 \in Inbound /\ IsInvite(1, r.session)
                                         /\ stackInbound[1].txn = r.makeCallReq),
           r.dialog \in {"inviting", "early", "over"},
           r.session \in Session => op'[r.session] # "none",
           \A x \in Session : r.session = x /\ (op'[x] = "offered" \/ r.dialog \notin {"inviting", "over"}) =>
              r.handle \in DOMAIN iwHandlesMap' /\ iwHandlesMap'[r.handle] = Len(ctx) + 1
    PROVE  Inv'
<1>1. TypeOK /\ Naming  BY DEF Inv
<1>2. Naming' /\ StackTyped'  BY AppendNaming
<1>3. ReadyTyped' /\ Delivers  BY <1>1, QuietDelivers
<1>4. TypeOK'  BY <1>2, <1>3, TypePartsNext
<1>5. PICK d : d = Len(ctx) + 1  OBVIOUS
<1>6. /\ Contexts' = Contexts \cup {d} /\ d \notin Contexts
      /\ ctx'[d] = r /\ \A e \in Contexts : ctx'[e] = ctx[e]
  BY <1>1, <1>5, AppendContexts DEF Enters
<1>7. ContextsGrow  BY <1>6 DEF ContextsGrow
<1>8. MapKept(n)
  <2> SUFFICES ASSUME NEW e \in Contexts, NEW h \in Handle, ctx[e].dialog # "inviting", ctx[e].handle = h,
                      Named(h)'
      PROVE  Named(h) /\ iwHandlesMap[h] = e /\ iwHandlesMap'[h] = e
    BY <1>6 DEF MapKept
  <2>1. Named(h) /\ iwHandlesMap'[h] = iwHandlesMap[h]  BY DEF Named, Enters
  <2>2. iwHandlesMap[h] = e  BY <2>1, NameOf
  <2> QED  BY <2>1, <2>2
<1>9. CallsMove(n)
  <2> SUFFICES ASSUME NEW c \in Contexts', ctx'[c].dialog \in Live
      PROVE  \/ c \in Contexts /\ ctx[c].dialog \in Live
             \/ /\ c = Len(ctx) + 1 /\ ctx'[c].session \in Session
                /\ \/ n = 1 /\ 1 \in Inbound /\ IsInvite(1, ctx'[c].session)
                   \/ op[ctx'[c].session] = "none"
    BY DEF CallsMove
  <2>1. CASE c \in Contexts  BY <1>6, <2>1
  <2>2. CASE c = d
    <3>1. ctx'[c] = r /\ r.session \in Session  BY <1>6, <2>2 DEF Enters
    <3> QED  BY <1>5, <2>2, <3>1
  <2> QED  BY <1>6, <2>1, <2>2
<1>10. TokensMove(n)
  <2> SUFFICES ASSUME NEW x \in Session, NEW c \in Contexts', NEW o \in TxnOp, op[x] \in TxnOp,
                      WillAnswer(c, x, o)'
      PROVE  \/ c \in Contexts /\ WillAnswer(c, x, o)
             \/ /\ n = 1 /\ 1 \in Inbound /\ OpenRequest(1, x) /\ AskedBy(stackInbound[1].kind, o)
                /\ o # "ReOffer"
    BY DEF TokensMove
  <2>0. txn'[x] = txn[x]  BY DEF StackFrame
  <2>1. CASE c \in Contexts  BY <1>6, <2>0, <2>1 DEF WillAnswer
  <2>2. CASE c = d
    <3>1. ctx'[c] = r  BY <1>6, <2>2
    <3>2. r.session = x /\ o = "MakeCall" /\ r.dialog \in {"inviting", "early"} /\ r.makeCallReq = txn[x]
      BY <2>0, <3>1 DEF WillAnswer
    <3>3. op[x] # "none"  BY DEF TxnOp
    <3>4. n = 1 /\ 1 \in Inbound /\ IsInvite(1, x) /\ stackInbound[1].txn = txn[x]
      BY <3>2, <3>3
    <3> QED  BY <3>2, <3>4 DEF IsInvite, OpenRequest, IsAsked, Asking, AskedBy
  <2> QED  BY <1>6, <2>1, <2>2
<1>11. FieldsPast
  <2> SUFFICES ASSUME NEW x \in Session, NEW e \in Contexts', op[x] # "deleted", ctx'[e].session = x
      PROVE  ctx'[e].makeCallReq <= txn[x] /\ ctx'[e].reofferReq <= txn[x] /\ ctx'[e].makeCallAck <= txn[x]
    BY DEF FieldsPast
  <2>1. CASE e = d  BY <1>6, <2>1
  <2>2. CASE e \in Contexts  BY <1>6, <2>2, PastFields
  <2> QED  BY <1>6, <2>1, <2>2
<1>12. BuiltHasContext
  <2> SUFFICES ASSUME NEW c \in Contexts', ctx'[c].session \in Session, c \notin Contexts
      PROVE  op'[ctx'[c].session] # "none"
    BY DEF BuiltHasContext
  <2> QED  BY <1>6
<1>13. EndsReported
  <2>1. told' = told /\ ready' = ready  BY DEF StackFrame
  <2>2. ASSUME NEW x \in Session, NEW e \in Contexts, Reported(e, x) PROVE Reported(e, x)'
    <3>1. ctx'[e] = ctx[e]  BY <1>6
    <3>2. \A h : Named(h) => Named(h)' /\ iwHandlesMap'[h] = iwHandlesMap[h]  BY DEF Named, Enters
    <3> QED  BY <2>1, <2>2, <3>1, <3>2 DEF Reported, Ready, Named
  <2>3. ASSUME NEW x \in Session, ctx'[d].session = x,
               op'[x] = "offered" \/ ctx'[d].dialog \notin {"inviting", "over"}
        PROVE  Reported(d, x)'
    BY <1>5, <1>6, <2>3 DEF Reported, Named
  <2>4. \A e \in Contexts' : e \in Contexts => ctx'[e].dialog = ctx[e].dialog  BY <1>6
  <2>5. \A e \in Contexts' : e \notin Contexts => e = d  BY <1>6
  <2> QED  BY <1>6, <2>2, <2>3, <2>4, <2>5 DEF EndsReported
<1> QED
  BY <1>2, <1>3, <1>4, <1>7, <1>8, <1>9, <1>10, <1>11, <1>12, <1>13, StackKept

LEMMA UponMakeCallReqKept ==
    ASSUME Inv, UponMakeCallReq
    PROVE  Inv'
<1>1. TypeOK  BY DEF Inv
<1>2. /\ Handles("MAKE_CALL_REQ") /\ "MAKE_CALL_REQ" \in Request /\ "MAKE_CALL_REQ" \in Asking
      /\ UNCHANGED sessionVars /\ UNCHANGED ready /\ UNCHANGED <<iwHandlesMap, resipId, eventsHandle, stackUp>>
      /\ UNCHANGED acceptVars /\ Len(ctx) < MaxContexts
  BY DEF UponMakeCallReq, Request, Asking
<1>3. /\ InboundTyped' /\ InboundShifts(1) /\ Msg = stackInbound[1] /\ 1 \in Inbound /\ 1 \in {0, 1}
      /\ stackInbound[1].kind = "MAKE_CALL_REQ" /\ stackInbound[1] \in SessionRequest
  BY <1>1, <1>2, HandlesFacts
<1>4. PICK s, t, h : s = stackInbound[1].session /\ t = stackInbound[1].txn /\ h = callIndex + 1  OBVIOUS
<1>5. s \in Session  BY <1>3, <1>4 DEF SessionRequest
<1>6. IsInvite(1, s) /\ CallsOf(s)  BY <1>3, <1>4, <1>5 DEF IsInvite, Inv, Calls
<1>7. s \in Uac /\ stackInbound[1].handle = IW_UNDEFINED  BY <1>3, <1>6 DEF CallsOf
<1>8. t \in TxnId /\ (op[s] # "deleted" => t <= txn[s])  BY <1>2, <1>4, <1>5, HandledTxn
<1>9. PICK r : r = [session |-> s, dialog |-> "inviting", handle |-> h,
                    makeCallReq |-> t, reofferReq |-> 0, makeCallAck |-> 0]
  OBVIOUS
<1>10. /\ callIndex \in Nat /\ CALL_INDEX <= callIndex /\ callIndex <= CALL_INDEX + Len(ctx) /\ h \in Handle
       /\ \A c \in Contexts : ctx[c].handle # h
  BY <1>2, <1>4, FreshHandles
<1>11. /\ r.session = s /\ r.dialog = "inviting" /\ r.handle = h /\ r.makeCallReq = t /\ r.reofferReq = 0
       /\ r.makeCallAck = 0
  BY <1>9
<1>12. r \in Context
  <2>1. 0 \in TxnId  BY BoundsAssumption DEF TxnId
  <2> QED  BY <1>5, <1>8, <1>9, <1>10, <2>1 DEF Context, Dialog, Live
<1>13. ctx' = Append(ctx, r) /\ callIndex' = h
  BY <1>3, <1>4, <1>7, <1>9 DEF UponMakeCallReq, GenerateCallHandle
<1>14. Enters(r)
  <2>1. Len(ctx) \in Nat  BY <1>1, ContextFacts
  <2>2. /\ callIndex' \in CALL_INDEX..(CALL_INDEX + MaxContexts) /\ callIndex <= callIndex'
        /\ callIndex' <= CALL_INDEX + Len(ctx) + 1 /\ CALL_INDEX < h
    BY <1>2, <1>4, <1>10, <1>13, <2>1, BoundsAssumption
  <2>3. h <= h  BY <1>4, <1>10
  <2>4. eventsHandle' \in 0..MaxSubscribes  BY <1>1, <1>2, TypeParts DEF StackTyped
  <2> QED  BY <1>2, <1>5, <1>7, <1>10, <1>11, <1>13, <2>2, <2>3, <2>4 DEF Enters
<1>15. StackFrame /\ SessionTyped'  BY <1>1, <1>2, FramedSessions
<1>16. AcceptTyped'  BY <1>1, <1>2, SameAccept
<1>17. \A x \in Session : op[x] # "deleted" /\ r.session = x =>
           r.makeCallReq <= txn[x] /\ r.reofferReq <= txn[x] /\ r.makeCallAck <= txn[x]
  <2>1. \A x \in Session : 0 <= txn[x]  BY <1>1 DEF TypeOK, TxnId
  <2> QED  BY <1>8, <1>11, <2>1
<1>18. op[s] # "none"  BY <1>5, <1>7, SessionsAssumption DEF Inv, States, StateOf
<1>19. op'[r.session] # "none"  BY <1>2, <1>11, <1>18 DEF sessionVars
<1>20. ~(op'[s] = "offered")
  BY <1>2, <1>5, <1>7, SessionsAssumption DEF sessionVars, Inv, States, StateOf
<1> QED
  BY <1>2, <1>3, <1>4, <1>6, <1>11, <1>12, <1>14, <1>15, <1>16, <1>17, <1>19, <1>20, AppendKept

LEMMA OnOfferKept ==
    ASSUME Inv, NEW s \in Uas, OnOffer(s)
    PROVE  Inv'
<1>1. TypeOK  BY DEF Inv
<1>2. /\ op[s] = "none" /\ Len(ctx) < MaxContexts /\ resipId' = resipId + 1 /\ eventsHandle' = 0
      /\ UNCHANGED <<callState, iwCallHandle, emptyOffer, txn, hangupChannel, told, timedOut>>
      /\ UNCHANGED ready /\ UNCHANGED stackInbound /\ UNCHANGED <<callIndex, stackUp>> /\ UNCHANGED acceptVars
  BY DEF OnOffer
<1>3. PICK o \in {"offered", "lost"} : op' = [op EXCEPT ![s] = o]  BY DEF OnOffer
<1>4. s \in Session /\ s \notin Uac  BY SessionsAssumption DEF Session
<1>5. PICK h, d : h = resipId + 1 /\ d = Len(ctx) + 1  OBVIOUS
<1>6. PICK r : r = [session |-> s, handle |-> h, dialog |-> "early",
                    makeCallReq |-> 0, reofferReq |-> 0, makeCallAck |-> 0]
  OBVIOUS
<1>7. /\ callIndex \in Nat /\ CALL_INDEX <= callIndex /\ callIndex <= CALL_INDEX + Len(ctx)
      /\ resipId \in Nat /\ h \in Handle /\ \A c \in Contexts : ctx[c].handle # h
  BY <1>2, <1>5, FreshHandles
<1>8. /\ r.session = s /\ r.dialog = "early" /\ r.handle = h /\ r.makeCallReq = 0 /\ r.reofferReq = 0
      /\ r.makeCallAck = 0
  BY <1>6
<1>9. r \in Context
  <2>1. 0 \in TxnId  BY BoundsAssumption DEF TxnId
  <2> QED  BY <1>4, <1>6, <1>7, <2>1 DEF Context, Dialog, Live
<1>10. ctx' = Append(ctx, r) /\ iwHandlesMap' = Plus(iwHandlesMap, h, d)
  BY <1>5, <1>6 DEF OnOffer
<1>11. ~Named(h)
  <2> SUFFICES ASSUME Named(h) PROVE FALSE
    OBVIOUS
  <2>1. PICK c : c = iwHandlesMap[h]  OBVIOUS
  <2>2. c \in Contexts /\ ctx[c].handle = h  BY <2>1, NamedCall
  <2> QED  BY <1>7, <2>2
<1>12. Enters(r)
  <2>1. Len(ctx) \in Nat  BY <1>1, ContextFacts
  <2>2. /\ callIndex' \in CALL_INDEX..(CALL_INDEX + MaxContexts) /\ callIndex <= callIndex'
        /\ callIndex' <= CALL_INDEX + Len(ctx) + 1
    BY <1>2, <1>7, <2>1, BoundsAssumption
  <2>3. h <= resipId'  BY <1>2, <1>5, <1>7
  <2>4. eventsHandle' \in 0..MaxSubscribes  BY <1>2, BoundsAssumption
  <2>5. \A x \in DOMAIN iwHandlesMap : x \in DOMAIN iwHandlesMap' /\ iwHandlesMap'[x] = iwHandlesMap[x]
    BY <1>10, <1>11 DEF Plus, Named
  <2>6. \A x \in DOMAIN iwHandlesMap' : x \notin DOMAIN iwHandlesMap => x = h /\ iwHandlesMap'[x] = Len(ctx) + 1
    BY <1>5, <1>10 DEF Plus
  <2> QED  BY <1>2, <1>4, <1>7, <1>8, <1>10, <2>2, <2>3, <2>4, <2>5, <2>6 DEF Enters, Live
<1>13. StackFrame
  <2>1. op \in [Session -> Op]  BY <1>1 DEF TypeOK
  <2> QED  BY <1>2, <1>3, <1>4, <2>1 DEF StackFrame
<1>14. SessionTyped'
  <2>1. SessionTyped  BY <1>1, TypeParts
  <2> QED  BY <1>2, <1>3, <1>4, <2>1 DEF SessionTyped, Op
<1>15. AcceptTyped'  BY <1>1, <1>2, SameAccept
<1>16. InboundTyped' /\ InboundShifts(0) /\ 0 \in {0, 1}  BY <1>1, <1>2, NothingHandled
<1>17. \A x \in Session : op[x] # "deleted" /\ r.session = x =>
           r.makeCallReq <= txn[x] /\ r.reofferReq <= txn[x] /\ r.makeCallAck <= txn[x]
  <2>1. \A x \in Session : 0 <= txn[x]  BY <1>1 DEF TypeOK, TxnId
  <2> QED  BY <1>8, <2>1
<1>18. op'[r.session] # "none"
  <2>1. op \in [Session -> Op]  BY <1>1 DEF TypeOK
  <2> QED  BY <1>3, <1>4, <1>8, <2>1
<1>19. r.handle \in DOMAIN iwHandlesMap' /\ iwHandlesMap'[r.handle] = Len(ctx) + 1
  BY <1>5, <1>8, <1>10 DEF Plus
<1> QED
  BY <1>2, <1>4, <1>8, <1>9, <1>12, <1>13, <1>14, <1>15, <1>16, <1>17, <1>18, <1>19, AppendKept

LEMMA OnOfferRefusedKept ==
    ASSUME Inv, OnOfferRefused
    PROVE  Inv'
<1>1. TypeOK  BY DEF Inv
<1>2. /\ Len(ctx) < MaxContexts /\ resipId' = resipId + 1
      /\ UNCHANGED sessionVars /\ UNCHANGED ready /\ UNCHANGED stackInbound
      /\ UNCHANGED <<callIndex, eventsHandle, stackUp>> /\ UNCHANGED acceptVars
  BY DEF OnOfferRefused
<1>3. NoSession \notin Session /\ NoSession \notin Uac  BY SessionsAssumption DEF Session
<1>4. PICK h : h = resipId + 1  OBVIOUS
<1>5. PICK r : r = [session |-> NoSession, handle |-> h, dialog |-> "over",
                    makeCallReq |-> 0, reofferReq |-> 0, makeCallAck |-> 0]
  OBVIOUS
<1>6. /\ callIndex \in Nat /\ CALL_INDEX <= callIndex /\ callIndex <= CALL_INDEX + Len(ctx)
      /\ resipId \in Nat /\ h \in Handle /\ \A c \in Contexts : ctx[c].handle # h
  BY <1>2, <1>4, FreshHandles
<1>7. r.session = NoSession /\ r.dialog = "over" /\ r.handle = h  BY <1>5
<1>8. r \in Context
  <2>1. 0 \in TxnId  BY BoundsAssumption DEF TxnId
  <2> QED  BY <1>5, <1>6, <2>1 DEF Context, Dialog
<1>9. ctx' = Append(ctx, r) /\ iwHandlesMap' = Without(iwHandlesMap, h)
  BY <1>4, <1>5 DEF OnOfferRefused
<1>10. ~Named(h)
  <2> SUFFICES ASSUME Named(h) PROVE FALSE
    OBVIOUS
  <2>1. PICK c : c = iwHandlesMap[h]  OBVIOUS
  <2>2. c \in Contexts /\ ctx[c].handle = h  BY <2>1, NamedCall
  <2> QED  BY <1>6, <2>2
<1>11. Enters(r)
  <2>1. Len(ctx) \in Nat  BY <1>1, ContextFacts
  <2>2. /\ callIndex' \in CALL_INDEX..(CALL_INDEX + MaxContexts) /\ callIndex <= callIndex'
        /\ callIndex' <= CALL_INDEX + Len(ctx) + 1
    BY <1>2, <1>6, <2>1, BoundsAssumption
  <2>3. h <= resipId'  BY <1>2, <1>4, <1>6
  <2>4. eventsHandle' \in 0..MaxSubscribes  BY <1>1, <1>2, TypeParts DEF StackTyped
  <2>5. \A x \in DOMAIN iwHandlesMap : x \in DOMAIN iwHandlesMap' /\ iwHandlesMap'[x] = iwHandlesMap[x]
    BY <1>9, <1>10 DEF Without, Named
  <2>6. \A x \in DOMAIN iwHandlesMap' : x \in DOMAIN iwHandlesMap  BY <1>9 DEF Without
  <2> QED  BY <1>2, <1>3, <1>6, <1>7, <1>9, <2>2, <2>3, <2>4, <2>5, <2>6 DEF Enters, Live
<1>12. StackFrame /\ SessionTyped'  BY <1>1, <1>2, FramedSessions
<1>13. AcceptTyped'  BY <1>1, <1>2, SameAccept
<1>14. InboundTyped' /\ InboundShifts(0) /\ 0 \in {0, 1}  BY <1>1, <1>2, NothingHandled
<1>15. r.dialog \notin Live  BY <1>7 DEF Live
<1> QED  BY <1>2, <1>3, <1>7, <1>8, <1>11, <1>12, <1>13, <1>14, <1>15, AppendKept

-----------------------------------------------------------------------------
(* The session of an incoming call.                                        *)

LEMMA AcceptOfferedKept ==
    ASSUME Inv, NEW s \in Uas, AcceptOffered(s)
    PROVE  Inv'
<1>1. s \in Session /\ s \notin Uac  BY SessionsAssumption DEF Session
<1>2. TypeOK /\ StateOf(s) /\ TokensOf(s) /\ CallIsOurs
  BY <1>1 DEF Inv, States, Tokens, Naming
<1>3. SessionTyped /\ InboundTyped /\ StackTyped  BY <1>2, TypeParts
<1>4. /\ op[s] = "offered" /\ op' = [op EXCEPT ![s] = "idle"]
      /\ callState' = [callState EXCEPT ![s] = "INITIAL_OFFERED"] /\ acceptor' = "idle"
      /\ UNCHANGED <<emptyOffer, txn, hangupChannel, told, timedOut>> /\ UNCHANGED ready
      /\ UNCHANGED stackInbound /\ UNCHANGED stackVars /\ UNCHANGED subscription
  BY DEF AcceptOffered, ResetState
<1>5. PICK c \in Contexts : ctx[c].session = s /\ iwCallHandle' = [iwCallHandle EXCEPT ![s] = ctx[c].handle]
  BY DEF AcceptOffered
<1>6. ctx[c].handle \in Handle  BY <1>2, ContextFacts DEF Context
<1>7. SessionTyped'  BY <1>1, <1>3, <1>4, <1>5, <1>6 DEF SessionTyped, Op, CallState
<1>8. ReadyTyped' /\ Shifts(s, 0) /\ Remembers(s) /\ (Answered(s)' <=> Answered(s))
  BY <1>1, <1>2, <1>4, SameReady
<1>9. AcceptTyped'  BY <1>2, <1>4, TypeParts DEF AcceptTyped
<1>10. InboundTyped' /\ StackTyped'
  BY <1>3, <1>4 DEF InboundTyped, StackTyped, stackVars, Contexts
<1>11. TypeOK'  BY <1>7, <1>8, <1>9, <1>10, TypePartsNext
<1>12. /\ op'[s] = "idle" /\ callState'[s] = "INITIAL_OFFERED" /\ iwCallHandle'[s] = ctx[c].handle
       /\ txn' = txn /\ told' = told /\ ready' = ready
       /\ \A x \in Session : x # s => op'[x] = op[x] /\ callState'[x] = callState[x]
                                      /\ iwCallHandle'[x] = iwCallHandle[x]
  BY <1>1, <1>3, <1>4, <1>5 DEF SessionTyped
<1>13. OwnerFrame(s)  BY <1>4, <1>12 DEF OwnerFrame, stackVars
<1>14. Sends(s, "HANGUP_CALL_REQ")  BY <1>4 DEF Sends
<1>15. ~Answered(s)'  BY <1>2, <1>4, <1>8 DEF TokensOf, TxnOp
<1>16. StateOf(s)'  BY <1>12 DEF StateOf, InUse
<1>17. /\ ctx[c].handle = iwCallHandle'[s] /\ ctx[c].session = s
       /\ ctx[c].dialog # "inviting" /\ Concerns(c, s)
  BY <1>1, <1>2, <1>4, <1>5, <1>12 DEF CallIsOurs, Concerns
<1>18. txn'[s] >= txn[s]  BY <1>1, <1>3, <1>12 DEF SessionTyped, TxnId
<1>19. "HANGUP_CALL_REQ" \in Request \ Asking /\ 0 \in Nat /\ "idle" \notin TxnOp
  BY DEF Request, Asking, TxnOp
<1> QED
  BY <1>1, <1>4, <1>8, <1>11, <1>12, <1>13, <1>14, <1>15, <1>16, <1>17, <1>18, <1>19, OwnerQuiet

-----------------------------------------------------------------------------
(* The end of the stack: every call it knows is reported.                  *)

LEMMA ShutdownReady ==
    ASSUME Inv, Shutdown, NEW x \in Session
    PROVE  /\ ready'[x] \in Seq(Event)
           /\ \A i \in Ready(x) : i \in Ready(x)' /\ ready'[x][i] = ready[x][i]
           /\ \A i \in Ready(x)' \ Ready(x) :
                 \E c \in Contexts : /\ ready'[x][i] = [kind |-> "HANGUP_EVT", call |-> c]
                                     /\ ctx[c].session = x /\ Known(c) /\ op[x] # "deleted"
           /\ \A h : Named(h) /\ ctx[iwHandlesMap[h]].session = x /\ op[x] # "deleted" =>
                 \E i \in Ready(x)' : ready'[x][i] = [kind |-> "HANGUP_EVT", call |-> iwHandlesMap[h]]
<1>1. TypeOK /\ OneLiveCall  BY DEF Inv, Calls
<1>2. PICK M : M = {iwHandlesMap[h] : h \in {h \in DOMAIN iwHandlesMap : ctx[iwHandlesMap[h]].session = x}}
  OBVIOUS
<1>3. PICK Q : Q = {[kind |-> "HANGUP_EVT", call |-> c] : c \in M}  OBVIOUS
<1>4. \A c \in M : c \in Contexts /\ ctx[c].session = x /\ ctx[c].dialog \in Live /\ Known(c)
  BY <1>2, NamedCall DEF Named, Known
<1>5. \A c, d \in M : c = d  BY <1>1, <1>4 DEF OneLiveCall
<1>6. \A e, f \in Q : e = f  BY <1>3, <1>5
<1>7. PICK q : q = SetToSeq(Q)  OBVIOUS
<1>8. q \in Seq(Q) /\ (\A e \in Q : Len(q) = 1 /\ q[1] = e) /\ (Q = {} => Len(q) = 0)
  BY <1>6, <1>7, SetToSeqOfFew
<1>9. PICK E : E = Event  OBVIOUS
<1>10. Q \subseteq E
  <2>1. \A c \in M : c \in 0..MaxContexts  BY <1>1, <1>4, ContextFacts
  <2> QED  BY <1>3, <1>9, <2>1 DEF Event
<1>11. ready[x] \in Seq(E)  BY <1>1, <1>9, TypeParts DEF ReadyTyped
<1>12. ready'[x] = IF op[x] = "deleted" THEN ready[x] ELSE ready[x] \o q
  BY <1>2, <1>3, <1>7 DEF Shutdown
<1>13. CASE op[x] = "deleted"  BY <1>9, <1>11, <1>12, <1>13 DEF Ready
<1>14. CASE op[x] # "deleted"
  <2>1. ready'[x] = ready[x] \o q  BY <1>12, <1>14
  <2>2. q \in Seq(E) /\ Len(q) \in Nat /\ \A i \in 1..Len(q) : q[i] \in Q  BY <1>8, <1>10
  <2>3. /\ ready'[x] \in Seq(E) /\ Len(ready[x]) \in Nat /\ Len(ready'[x]) = Len(ready[x]) + Len(q)
        /\ \A i \in 1..Len(ready[x]) : ready'[x][i] = ready[x][i]
        /\ \A i \in 1..Len(q) : ready'[x][Len(ready[x]) + i] = q[i]
    BY <1>11, <2>1, <2>2
  <2>4. \A i \in Ready(x) : i \in Ready(x)' /\ ready'[x][i] = ready[x][i]  BY <2>2, <2>3 DEF Ready
  <2>5. \A i \in Ready(x)' \ Ready(x) : ready'[x][i] \in Q
    <3> SUFFICES ASSUME NEW i \in 1..Len(ready'[x]), i \notin 1..Len(ready[x]) PROVE ready'[x][i] \in Q
      BY DEF Ready
    <3>1. PICK j : j = i - Len(ready[x])  OBVIOUS
    <3>2. j \in 1..Len(q) /\ i = Len(ready[x]) + j  BY <2>2, <2>3, <3>1
    <3> QED  BY <2>2, <2>3, <3>2
  <2>6. ASSUME NEW h, Named(h), ctx[iwHandlesMap[h]].session = x
        PROVE  \E i \in Ready(x)' : ready'[x][i] = [kind |-> "HANGUP_EVT", call |-> iwHandlesMap[h]]
    <3>1. PICK e : e = [kind |-> "HANGUP_EVT", call |-> iwHandlesMap[h]]  OBVIOUS
    <3>2. e \in Q  BY <1>2, <1>3, <2>6, <3>1 DEF Named
    <3>3. Len(q) = 1 /\ q[1] = e  BY <1>8, <3>2
    <3>4. Len(ready[x]) + 1 \in 1..Len(ready'[x]) /\ ready'[x][Len(ready[x]) + 1] = e
      BY <2>3, <3>3
    <3> QED  BY <3>1, <3>4 DEF Ready
  <2> QED  BY <1>3, <1>4, <1>9, <1>14, <2>3, <2>4, <2>5, <2>6
<1> QED  BY <1>13, <1>14

\* Every dialog is over, unless it was ending already.
LEMMA ShutdownContexts ==
    ASSUME Inv, Shutdown
    PROVE  /\ Contexts' = Contexts /\ ctx' \in Seq(Context) /\ Len(ctx') = Len(ctx)
           /\ \A c \in Contexts :
                 /\ ctx'[c] \in Context
                 /\ ctx'[c].session = ctx[c].session /\ ctx'[c].handle = ctx[c].handle
                 /\ ctx'[c].dialog = IF ctx[c].dialog = "ending" THEN "ending" ELSE "over"
                 /\ ctx'[c].makeCallReq = ctx[c].makeCallReq /\ ctx'[c].reofferReq = ctx[c].reofferReq
                 /\ ctx'[c].makeCallAck = ctx[c].makeCallAck
<1>1. ctx' = [c \in Contexts |-> [ctx[c] EXCEPT !.dialog = IF @ = "ending" THEN @ ELSE "over"]]
  BY DEF Shutdown
<1>2. Len(ctx) \in Nat /\ Contexts = 1..Len(ctx) /\ \A c \in Contexts : ctx[c] \in Context
  BY ContextFacts DEF Inv
<1>3. ASSUME NEW c \in Contexts
      PROVE  /\ ctx'[c] \in Context
             /\ ctx'[c].session = ctx[c].session /\ ctx'[c].handle = ctx[c].handle
             /\ ctx'[c].dialog = IF ctx[c].dialog = "ending" THEN "ending" ELSE "over"
             /\ ctx'[c].makeCallReq = ctx[c].makeCallReq /\ ctx'[c].reofferReq = ctx[c].reofferReq
             /\ ctx'[c].makeCallAck = ctx[c].makeCallAck
  <2>1. PICK d : d = IF ctx[c].dialog = "ending" THEN "ending" ELSE "over"  OBVIOUS
  <2>2. d \in Dialog  BY <2>1 DEF Dialog
  <2>3. ctx'[c] = [ctx[c] EXCEPT !.dialog = d]  BY <1>1, <2>1
  <2>4. PICK r : r = ctx[c]  OBVIOUS
  <2>5. r \in Context /\ ctx'[c] = [r EXCEPT !.dialog = d]  BY <1>2, <2>3, <2>4
  <2> QED  BY <2>1, <2>2, <2>4, <2>5 DEF Context
<1>4. ctx' \in Seq(Context) /\ Len(ctx') = Len(ctx) /\ Contexts' = Contexts
  <2>1. PICK E : E = Context  OBVIOUS
  <2>2. ctx' \in [1..Len(ctx) -> E]  BY <1>1, <1>2, <1>3, <2>1
  <2>3. ctx' \in Seq(E) /\ Len(ctx') = Len(ctx)  BY <1>2, <2>2
  <2> QED  BY <2>1, <2>3 DEF Contexts
<1> QED  BY <1>3, <1>4

LEMMA ShutdownKept ==
    ASSUME Inv, Shutdown
    PROVE  Inv'
<1>1. TypeOK /\ Naming /\ StackTyped  BY TypeParts DEF Inv
<1>2. /\ iwHandlesMap' = <<>> /\ stackInbound' = <<>> /\ stackUp' = FALSE
      /\ UNCHANGED sessionVars /\ UNCHANGED <<callIndex, resipId, eventsHandle>> /\ UNCHANGED acceptVars
      /\ ctx' = [c \in Contexts |-> [ctx[c] EXCEPT !.dialog = IF @ = "ending" THEN @ ELSE "over"]]
  BY DEF Shutdown
<1>3. Len(ctx) \in Nat /\ Contexts = 1..Len(ctx) /\ \A c \in Contexts : ctx[c] \in Context
  BY <1>1, ContextFacts
<1>4. /\ Contexts' = Contexts /\ ctx' \in Seq(Context) /\ Len(ctx') = Len(ctx)
      /\ \A c \in Contexts :
            /\ ctx'[c] \in Context
            /\ ctx'[c].session = ctx[c].session /\ ctx'[c].handle = ctx[c].handle
            /\ ctx'[c].dialog = IF ctx[c].dialog = "ending" THEN "ending" ELSE "over"
            /\ ctx'[c].makeCallReq = ctx[c].makeCallReq /\ ctx'[c].reofferReq = ctx[c].reofferReq
            /\ ctx'[c].makeCallAck = ctx[c].makeCallAck
  BY ShutdownContexts
<1>5. ctx' \in Seq(Context) /\ Len(ctx') = Len(ctx) /\ Contexts' = Contexts  BY <1>4
<1>6. DOMAIN iwHandlesMap' = {}  BY <1>2
<1>7. \A h : ~Named(h)'  BY <1>6 DEF Named
<1>8. StackTyped'  BY <1>1, <1>2, <1>5, <1>6 DEF StackTyped
<1>9. StackFrame /\ SessionTyped'  BY <1>1, <1>2, FramedSessions
<1>10. AcceptTyped'  BY <1>1, <1>2, SameAccept
<1>11. Inbound' = {} /\ InboundTyped'  BY <1>2 DEF Inbound, InboundTyped
<1>12. ReadyTyped'
  <2>1. ready' \in [Session -> Seq(Event)]
    <3>1. \A x \in Session : ready'[x] \in Seq(Event)  BY ShutdownReady
    <3>2. PICK f : f = ready'  OBVIOUS
    <3>3. f = [x \in Session |-> f[x]]  BY <3>2 DEF Shutdown
    <3> QED  BY <3>1, <3>2, <3>3
  <2> QED  BY <2>1 DEF ReadyTyped
<1>13. TypeOK'  BY <1>8, <1>9, <1>10, <1>11, <1>12, TypePartsNext
<1>14. Naming'
  <2>1. Started' = Contexts  BY <1>4, <1>5 DEF Started
  <2>2. Cardinality(Contexts) = Len(ctx)  BY <1>1, ContextCount
  <2>3. Counters'
    <3>1. resipId <= Len(ctx)
      <4>1. resipId \in Nat  BY <1>1 DEF StackTyped
      <4> QED  BY <1>1, <1>3, <4>1, StartedFinite DEF Naming, Counters
    <3>2. Cardinality(Started)' = Len(ctx)  BY <2>1, <2>2
    <3> QED  BY <1>1, <1>2, <1>5, <3>1, <3>2 DEF Counters, Naming
  <2>4. HandleIssued'  BY <1>1, <1>2, <1>4, <1>5 DEF Naming, HandleIssued
  <2>5. OneHandle'  BY <1>1, <1>4, <1>5 DEF Naming, OneHandle
  <2>6. MapLeadsToLive'  BY <1>6 DEF MapLeadsToLive
  <2>7. CallIsOurs'  BY <1>4, <1>5 DEF CallIsOurs, Live
  <2> QED  BY <2>3, <2>4, <2>5, <2>6, <2>7 DEF Naming
<1>15. InboundShifts(0) /\ 0 \in {0, 1}  BY <1>11 DEF InboundShifts
<1>16. ContextsGrow  BY <1>4, <1>5 DEF ContextsGrow, Live
<1>17. MapKept(0)  BY <1>7 DEF MapKept
<1>18. CallsMove(0)  BY <1>4, <1>5 DEF CallsMove, Live
<1>19. TokensMove(0)  BY <1>4, <1>5 DEF TokensMove, WillAnswer
<1>20. FieldsPast  BY <1>4, <1>5, PastFields DEF FieldsPast
<1>21. BuiltHasContext  BY <1>5 DEF BuiltHasContext
<1>22. EndsReported
  <2>1. told' = told  BY <1>2 DEF sessionVars
  <2>2. ASSUME NEW x \in Session, NEW c \in Contexts, op[x] # "deleted", ctx[c].session = x, Reported(c, x)
        PROVE  Reported(c, x)'
    <3>1. CASE Named(ctx[c].handle) /\ iwHandlesMap[ctx[c].handle] = c
      <4>1. \E i \in Ready(x)' : ready'[x][i] = [kind |-> "HANGUP_EVT", call |-> c]
        BY <2>2, <3>1, ShutdownReady
      <4> QED  BY <4>1 DEF Reported
    <3>2. CASE ctx[c].dialog = "ending"  BY <1>4, <3>2 DEF Reported
    <3>3. CASE \E i \in Ready(x) : ready[x][i] = [kind |-> "HANGUP_EVT", call |-> c]
      <4>1. \E i \in Ready(x)' : ready'[x][i] = [kind |-> "HANGUP_EVT", call |-> c]
        BY <3>3, ShutdownReady
      <4> QED  BY <4>1 DEF Reported
    <3>4. CASE c \in told  BY <2>1, <3>4 DEF Reported
    <3> QED  BY <2>2, <3>1, <3>2, <3>3, <3>4 DEF Reported
  <2>3. ASSUME NEW c \in Contexts', ctx'[c].dialog \notin {"inviting", "over"}
        PROVE  c \in Contexts /\ ctx[c].dialog \notin {"inviting", "over"}
    BY <1>4, <1>5, <2>3
  <2> QED  BY <1>5, <2>2, <2>3 DEF EndsReported
<1>23. Delivers
  <2> SUFFICES ASSUME NEW x \in Session
      PROVE  /\ \A i \in Ready(x) : i \in Ready(x)' /\ ready'[x][i] = ready[x][i]
             /\ \A i \in Ready(x)' \ Ready(x) :
                   /\ ready'[x][i].kind = "HANGUP_EVT" /\ ready'[x][i].call \in Contexts
                   /\ ctx[ready'[x][i].call].session = x
    BY DEF Delivers, Response
  <2>0. \A i \in Ready(x)' \ Ready(x) :
           \E c \in Contexts : ready'[x][i] = [kind |-> "HANGUP_EVT", call |-> c] /\ ctx[c].session = x
    <3>1. \A i \in Ready(x)' \ Ready(x) :
             \E c \in Contexts : /\ ready'[x][i] = [kind |-> "HANGUP_EVT", call |-> c]
                                 /\ ctx[c].session = x /\ Known(c) /\ op[x] # "deleted"
      BY ShutdownReady
    <3> QED  BY ONLY <3>1
  <2>1. ASSUME NEW i \in Ready(x)' \ Ready(x)
        PROVE  /\ ready'[x][i].kind = "HANGUP_EVT" /\ ready'[x][i].call \in Contexts
               /\ ctx[ready'[x][i].call].session = x
    <3>1. PICK c \in Contexts : ready'[x][i] = [kind |-> "HANGUP_EVT", call |-> c] /\ ctx[c].session = x
      BY <2>0
    <3>2. ready'[x][i].kind = "HANGUP_EVT" /\ ready'[x][i].call = c  BY <3>1
    <3> QED  BY <3>1, <3>2
  <2>2. \A i \in Ready(x) : i \in Ready(x)' /\ ready'[x][i] = ready[x][i]  BY ShutdownReady
  <2> QED  BY <2>1, <2>2
<1> QED
  BY <1>9, <1>13, <1>14, <1>15, <1>16, <1>17, <1>18, <1>19, <1>20, <1>21, <1>22, <1>23, StackKept

-----------------------------------------------------------------------------
(* All steps together.                                                     *)

LEMMA InitInv == Init => Inv
<1> SUFFICES ASSUME Init PROVE Inv
  OBVIOUS
<1>1. Contexts = {} /\ Inbound = {} /\ DOMAIN iwHandlesMap = {}  BY DEF Init, Contexts, Inbound
<1>2. \A s \in Session : Ready(s) = {}  BY DEF Init, Ready
<1>3. TypeOK
  <2>1. SessionTyped
    BY BoundsAssumption DEF Init, SessionTyped, Op, TxnOp, CallState, TxnId, IW_UNDEFINED
  <2>2. ReadyTyped /\ InboundTyped /\ AcceptTyped
    BY BoundsAssumption DEF Init, ReadyTyped, InboundTyped, AcceptTyped
  <2>3. StackTyped
    <3>1. ctx \in Seq(Context) /\ Len(ctx) = 0  BY DEF Init
    <3>2. /\ callIndex \in CALL_INDEX..(CALL_INDEX + MaxContexts) /\ resipId \in 0..MaxContexts
          /\ eventsHandle \in 0..MaxSubscribes /\ stackUp \in BOOLEAN /\ 0 <= MaxContexts
      BY BoundsAssumption DEF Init
    <3> QED  BY <1>1, <3>1, <3>2 DEF StackTyped
  <2> QED  BY <2>1, <2>2, <2>3, TypeParts
<1>4. Naming
  <2>1. Started = {}  BY <1>1 DEF Started
  <2>2. Cardinality(Started) = 0  BY <2>1, FS_EmptySet
  <2>3. Counters  BY <2>2, BoundsAssumption DEF Counters, Init
  <2> QED  BY <1>1, <2>3 DEF Naming, HandleIssued, OneHandle, MapLeadsToLive, CallIsOurs
<1>5. Ownership  BY <1>1 DEF Ownership, OwnHandle, Init
<1>6. States
  <2> SUFFICES ASSUME NEW s \in Session PROVE StateOf(s)
    BY DEF States
  <2>1. /\ op[s] = IF s \in Uac THEN "idle" ELSE "none"
        /\ callState[s] = "UNKNOWN" /\ iwCallHandle[s] = IW_UNDEFINED
    BY DEF Init
  <2> QED  BY <1>1, <2>1 DEF StateOf, InUse, TxnOp, Session
<1>7. Calls  BY <1>1, <1>2 DEF Calls, OneLiveCall, CallsOf, NoCall
<1>8. Tokens
  <2>1. \A s \in Session : op[s] \notin TxnOp  BY DEF Init, TxnOp
  <2>2. Numbered /\ \A s \in Session : Past(s)  BY <1>1 DEF Numbered, Past
  <2>3. \A s \in Session : TokensOf(s)  BY <1>2, <2>1 DEF TokensOf, Answered
  <2> QED  BY <2>2, <2>3 DEF Tokens
<1>9. Ends  BY <1>1 DEF Ends, EndsOf
<1>10. Offers  BY <1>1, <1>2 DEF Offers, OfferIsAlone, OffersOf, CanOffer, Named, Init
<1> QED  BY <1>3, <1>4, <1>5, <1>6, <1>7, <1>8, <1>9, <1>10 DEF Inv

LEMMA SessionNextKept ==
    ASSUME Inv, NEW s \in Session, SessionNext(s)
    PROVE  Inv'
BY MakeCallKept, MakeCallOkKept, MakeCallNackKept, MakeCallTimeoutKept, ReOfferKept, ReOfferDoneKept,
   ReOfferTimeoutKept, AnswerUacKept, AnswerUasKept, AnswerDoneKept, GiveUpKept, BlindXferKept,
   BlindXferDoneKept, IdleKept, DeleteKept, UponCallTerminatedKept
   DEF SessionNext

LEMMA StackNextKept ==
    ASSUME Inv, ProcessApplicationMessages \/ \E c \in Contexts : Callback(c)
    PROVE  Inv'
<1>1. CASE ProcessApplicationMessages
  BY <1>1, UponSubscribeToIncomingReqKept, UponMakeCallReqKept, UponMakeCallReqFailsKept,
     UponReofferReqKept, UponHangupReqKept, UponCallOfferedNackKept, UponCallOfferedAckKept,
     UponCallConnectedKept, UponBlindXferReqKept DEF ProcessApplicationMessages
<1>2. CASE \E c \in Contexts : Callback(c)
  BY <1>2, OnNewSessionKept, OnConnectedKept, OnFailureKept, OnAnswerKept, OnOfferRejectedKept,
     OnTerminatedKept, OnSessionExpiredKept, OnConnectedConfirmedKept DEF Callback
<1> QED  BY <1>1, <1>2

\* Nothing happens: the state has all it had.
LEMMA StutterKept ==
    ASSUME Inv, UNCHANGED vars
    PROVE  Inv'
<1>1. TypeOK  BY DEF Inv
<1>2. /\ UNCHANGED sessionVars /\ UNCHANGED stackVars /\ UNCHANGED acceptVars
      /\ ready' = ready /\ stackInbound' = stackInbound
  BY DEF vars
<1>3. UNCHANGED <<ctx, iwHandlesMap, callIndex, resipId>> /\ eventsHandle' = eventsHandle /\ UNCHANGED stackUp
  BY <1>2 DEF stackVars
<1>4. eventsHandle' \in 0..MaxSubscribes  BY <1>1, <1>3, TypeParts DEF StackTyped
<1>5. ReadyTyped' /\ Delivers  BY <1>1, <1>2, QuietDelivers
<1>6. AcceptTyped'  BY <1>1, <1>2, SameAccept
<1>7. InboundTyped'  BY <1>1, <1>2, TypeParts DEF InboundTyped
<1>8. InboundShifts(0) /\ 0 \in {0, 1}  BY <1>2 DEF InboundShifts, Inbound
<1> QED  BY <1>2, <1>3, <1>4, <1>5, <1>6, <1>7, <1>8, StillKept

LEMMA NextKept == Inv /\ [Next]_vars => Inv'
<1> SUFFICES ASSUME Inv, [Next]_vars PROVE Inv'
  OBVIOUS
<1>1. CASE \E s \in Session : InPlay(s) /\ SessionNext(s)  BY <1>1, SessionNextKept
<1>2. CASE \E s \in Uas : AcceptOffered(s) \/ OnOffer(s)  BY <1>2, AcceptOfferedKept, OnOfferKept
<1>3. CASE \E c \in Contexts : Callback(c)  BY <1>3, StackNextKept
<1>4. CASE Accept \/ AcceptTimeout \/ OnOfferRefused
  BY <1>4, AcceptKept, AcceptTimeoutKept, OnOfferRefusedKept
<1>5. CASE ProcessApplicationMessages  BY <1>5, StackNextKept
<1>6. CASE Shutdown  BY <1>6, ShutdownKept
<1>7. CASE UNCHANGED vars  BY <1>7, StutterKept
<1> QED  BY <1>1, <1>2, <1>3, <1>4, <1>5, <1>6, <1>7 DEF Next

-----------------------------------------------------------------------------
\* Everything that is said of handles, calls, transactions, ends and offers holds in
\* every reachable state, however the threads of the sessions, their timeouts, the
\* process of ProcResipStack, resip's callbacks and the end of the stack interleave.
THEOREM Invariance == Spec => []Inv
BY InitInv, NextKept, PTL DEF Spec

\* Every variable stays in its domain: the map leads to contexts that exist, the two
\* counters give out handles in range, and the events of a session are of its kinds.
THEOREM TypeCorrect == Spec => []TypeOK
<1>1. Inv => TypeOK  BY DEF Inv
<1> QED  BY <1>1, Invariance, PTL

\* ProcResipStack looks the call of a request up in _iwHandlesMap, and the handle a
\* session sends leads to a call of that session or to none, although the map may
\* have changed since the request was sent and handles come from two counters,
\* GenerateCallHandle and resip's own.
THEOREM OwnCallOnly == Spec => []RequestsHitOwnCall
<1>1. ASSUME Inv PROVE RequestsHitOwnCall
  <2> SUFFICES ASSUME NEW i \in Inbound, stackInbound[i].kind \in Request, Named(stackInbound[i].handle)
      PROVE  ctx[iwHandlesMap[stackInbound[i].handle]].session = stackInbound[i].session
    BY DEF RequestsHitOwnCall, Inbound
  <2>1. TypeOK /\ OneHandle /\ Ownership  BY <1>1 DEF Inv, Naming
  <2>2. PICK h, d : h = stackInbound[i].handle /\ d = iwHandlesMap[h]  OBVIOUS
  <2>3. d \in Contexts /\ ctx[d].handle = h  BY <1>1, <2>2, NamedCall
  <2>4. h \in Handle  BY <2>1, <2>2 DEF TypeOK, Named
  <2>5. h # IW_UNDEFINED  BY <2>4, BoundsAssumption DEF Handle, IW_UNDEFINED
  <2>6. PICK c \in Contexts : ctx[c].handle = h /\ ctx[c].session = stackInbound[i].session
    BY <2>1, <2>2, <2>5 DEF Ownership, OwnHandle
  <2> QED  BY <2>1, <2>2, <2>3, <2>6 DEF OneHandle
<1> QED  BY <1>1, Invariance, PTL

\* No call ends behind the back of its session: the handle in _iwCallHandle is that of
\* a call the stack knows or is ending, or MsgCallHangupEvt was sent to the session.
THEOREM EndIsTold == Spec => []GoneIsTold
<1>1. ASSUME Inv PROVE GoneIsTold
  <2> SUFFICES ASSUME NEW s \in Session, op[s] \in TxnOp \cup {"idle"}, NEW c \in Contexts,
                      ctx[c].session = s, ctx[c].handle = iwCallHandle[s]
      PROVE  Reported(c, s)
    BY DEF GoneIsTold, Reported, Ready
  <2>1. EndsOf(s)  BY <1>1 DEF Inv, Ends
  <2>2. op[s] # "deleted"  BY DEF TxnOp
  <2>3. Concerns(c, s)  BY DEF Concerns
  <2> QED  BY <2>1, <2>2, <2>3 DEF EndsOf
<1> QED  BY <1>1, Invariance, PTL

\* A session never has two calls that are being set up or are up: a MakeCall that is
\* repeated after a refusal, and one whose INVITE is still on its way, are no second
\* call.
THEOREM OneCall == Spec => []OneLiveCall
<1>1. Inv => OneLiveCall  BY DEF Inv, Calls
<1> QED  BY <1>1, Invariance, PTL

\* UponReofferReq calls provideOffer on a connected dialog only; on any other resip
\* throws, and the exception ends the stack with all its calls.
THEOREM OfferOnConnected == Spec => []OffersWhenConnected
<1>1. ASSUME Inv PROVE OffersWhenConnected
  <2> SUFFICES ASSUME stackInbound # <<>>, Msg.kind = "REOFFER_REQ", Named(Msg.handle)
      PROVE  ctx[iwHandlesMap[Msg.handle]].dialog = "connected"
    BY DEF OffersWhenConnected
  <2>1. TypeOK /\ OfferIsAlone  BY <1>1 DEF Inv, Offers
  <2>2. PICK E : E = SessionRequest \cup Subscribe  OBVIOUS
  <2>3. stackInbound \in Seq(E)  BY <2>1, <2>2, TypeParts DEF InboundTyped
  <2>4. 1 \in Inbound /\ Msg = stackInbound[1]  BY <2>3 DEF Inbound, Msg
  <2> QED  BY <2>1, <2>4 DEF OfferIsAlone
<1> QED  BY <1>1, Invariance, PTL

-----------------------------------------------------------------------------
(* The session and the stack implement CallService.                        *)

\* Who is there to be told of the end of c.
CanHear(c) == OwnerOf(c) \in Session /\ op[OwnerOf(c)] # "deleted"

\* What the service sees of c stays as it is.
SameCall(c) ==
    /\ OwnerOf(c)' = OwnerOf(c) /\ PhaseOf(c)' = PhaseOf(c)
    /\ Known(c)' <=> Known(c)
    /\ IsReported(c)' <=> IsReported(c)
SameGone == \A x \in Session : (op'[x] = "deleted") <=> (op[x] = "deleted")

\* A step that the service does not see.
LEMMA Unseen ==
    ASSUME UNCHANGED stackUp, SameGone, \A c \in CallId : SameCall(c)
    PROVE  UNCHANGED Calling!cvars
<1>1. [c \in CallId |-> OwnerOf(c)]' = [c \in CallId |-> OwnerOf(c)]  BY DEF SameCall
<1>2. [c \in CallId |-> PhaseOf(c)]' = [c \in CallId |-> PhaseOf(c)]  BY DEF SameCall
<1>3. {c \in CallId : Known(c)}' = {c \in CallId : Known(c)}  BY DEF SameCall
<1>4. {c \in CallId : IsReported(c)}' = {c \in CallId : IsReported(c)}  BY DEF SameCall
<1>5. {s \in Session : op[s] = "deleted"}' = {s \in Session : op[s] = "deleted"}  BY DEF SameGone
<1> QED  BY <1>1, <1>2, <1>3, <1>4, <1>5 DEF Calling!cvars

\* A step that the service sees of one call only.
OneCallMoves(c) ==
    /\ stackUp /\ stackUp' = stackUp
    /\ SameGone
    /\ \A e \in CallId : e # c => SameCall(e)

LEMMA OneSeen ==
    ASSUME NEW c \in CallId, OneCallMoves(c)
    PROVE  /\ [e \in CallId |-> OwnerOf(e)]' = [[e \in CallId |-> OwnerOf(e)] EXCEPT ![c] = OwnerOf(c)']
           /\ [e \in CallId |-> PhaseOf(e)]' = [[e \in CallId |-> PhaseOf(e)] EXCEPT ![c] = PhaseOf(c)']
           /\ {e \in CallId : Known(e)}' = IF Known(c)' THEN {e \in CallId : Known(e)} \cup {c}
                                                       ELSE {e \in CallId : Known(e)} \ {c}
           /\ {e \in CallId : IsReported(e)}' = IF IsReported(c)' THEN {e \in CallId : IsReported(e)} \cup {c}
                                                                 ELSE {e \in CallId : IsReported(e)} \ {c}
           /\ {s \in Session : op[s] = "deleted"}' = {s \in Session : op[s] = "deleted"}
           /\ OwnerOf(c)' = OwnerOf(c) =>
                 [e \in CallId |-> OwnerOf(e)]' = [e \in CallId |-> OwnerOf(e)]
           /\ PhaseOf(c)' = PhaseOf(c) =>
                 [e \in CallId |-> PhaseOf(e)]' = [e \in CallId |-> PhaseOf(e)]
           /\ (Known(c)' <=> Known(c)) => {e \in CallId : Known(e)}' = {e \in CallId : Known(e)}
           /\ (IsReported(c)' <=> IsReported(c)) =>
                 {e \in CallId : IsReported(e)}' = {e \in CallId : IsReported(e)}
<1>1. \A e \in CallId : e # c =>
          /\ OwnerOf(e)' = OwnerOf(e) /\ PhaseOf(e)' = PhaseOf(e)
          /\ Known(e)' <=> Known(e)
          /\ IsReported(e)' <=> IsReported(e)
  BY DEF OneCallMoves, SameCall
<1>2. [e \in CallId |-> OwnerOf(e)]' = [[e \in CallId |-> OwnerOf(e)] EXCEPT ![c] = OwnerOf(c)']  BY <1>1
<1>3. [e \in CallId |-> PhaseOf(e)]' = [[e \in CallId |-> PhaseOf(e)] EXCEPT ![c] = PhaseOf(c)']  BY <1>1
<1>4. {e \in CallId : Known(e)}' = IF Known(c)' THEN {e \in CallId : Known(e)} \cup {c}
                                               ELSE {e \in CallId : Known(e)} \ {c}
  BY <1>1
<1>5. {e \in CallId : IsReported(e)}' = IF IsReported(c)' THEN {e \in CallId : IsReported(e)} \cup {c}
                                                         ELSE {e \in CallId : IsReported(e)} \ {c}
  BY <1>1
<1>6. {s \in Session : op[s] = "deleted"}' = {s \in Session : op[s] = "deleted"}
  BY DEF OneCallMoves, SameGone
<1> QED  BY <1>1, <1>2, <1>3, <1>4, <1>5, <1>6

LEMMA MeetStep ==
    ASSUME NEW c \in CallId, OneCallMoves(c), OwnerOf(c)' = OwnerOf(c), IsReported(c)' <=> IsReported(c),
           PhaseOf(c) = "setup", PhaseOf(c)' = PhaseOf(c), ~Known(c), Known(c)'
    PROVE  Calling!Next
<1>1. Calling!Meet(c)  BY OneSeen DEF Calling!Meet, OneCallMoves
<1> QED  BY <1>1 DEF Calling!Next

LEMMA ConnectStep ==
    ASSUME NEW c \in CallId, OneCallMoves(c), OwnerOf(c)' = OwnerOf(c), IsReported(c)' <=> IsReported(c),
           PhaseOf(c) = "setup", PhaseOf(c)' = "up", Known(c), Known(c)'
    PROVE  Calling!Next
<1>1. Calling!Connect(c)  BY OneSeen DEF Calling!Connect, OneCallMoves
<1> QED  BY <1>1 DEF Calling!Next

LEMMA ReleaseStep ==
    ASSUME NEW c \in CallId, OneCallMoves(c), OwnerOf(c)' = OwnerOf(c), IsReported(c)' <=> IsReported(c),
           PhaseOf(c) \in {"setup", "up"}, PhaseOf(c)' = "ending", Known(c), ~Known(c)'
    PROVE  Calling!Next
<1>1. Calling!Release(c)  BY OneSeen DEF Calling!Release, Calling!Busy, OneCallMoves
<1> QED  BY <1>1 DEF Calling!Next

\* The end of a call, and that of its session timer.
LEMMA HeardOne ==
    ASSUME NEW c \in CallId
    PROVE  Calling!Heard({c}) = IF CanHear(c) THEN {c} ELSE {}
BY DEF Calling!Heard, CanHear

LEMMA FinishStep ==
    ASSUME NEW c \in CallId, OneCallMoves(c), OwnerOf(c)' = OwnerOf(c),
           IsReported(c)' <=> IsReported(c) \/ CanHear(c),
           PhaseOf(c) \in {"setup", "up", "ending"}, PhaseOf(c)' = "over", ~Known(c)'
    PROVE  Calling!Next
<1>1. {e \in CallId : IsReported(e)}' = {e \in CallId : IsReported(e)} \cup Calling!Heard({c})
  BY OneSeen, HeardOne
<1>2. Calling!Finish(c)  BY <1>1, OneSeen DEF Calling!Finish, Calling!Busy, OneCallMoves
<1> QED  BY <1>2 DEF Calling!Next

LEMMA ExpireStep ==
    ASSUME NEW c \in CallId, OneCallMoves(c), OwnerOf(c)' = OwnerOf(c),
           IsReported(c)' <=> IsReported(c) \/ CanHear(c),
           PhaseOf(c) = "up", PhaseOf(c)' = PhaseOf(c), Known(c), ~Known(c)'
    PROVE  Calling!Next
<1>1. {e \in CallId : IsReported(e)}' = {e \in CallId : IsReported(e)} \cup Calling!Heard({c})
  BY OneSeen, HeardOne
<1>2. Calling!Expire(c)  BY <1>1, OneSeen DEF Calling!Expire, OneCallMoves
<1> QED  BY <1>2 DEF Calling!Next

LEMMA BeginStep ==
    ASSUME NEW c \in CallId, NEW s \in Session, OneCallMoves(c), OwnerOf(c)' = s,
           IsReported(c)' <=> IsReported(c),
           PhaseOf(c) = "none", PhaseOf(c)' = "setup", ~Known(c),
           \A d \in CallId : OwnerOf(d) = s => PhaseOf(d) \notin {"setup", "up"}
    PROVE  Calling!Next
<1>1. {e \in CallId : Known(e)}' \in {{e \in CallId : Known(e)}, {e \in CallId : Known(e)} \cup {c}}
  BY OneSeen
<1>2. Calling!Begin(c, s)  BY <1>1, OneSeen DEF Calling!Begin, Calling!Busy, OneCallMoves
<1> QED  BY <1>2 DEF Calling!Next

LEMMA RefuseStep ==
    ASSUME NEW c \in CallId, OneCallMoves(c), OwnerOf(c)' = OwnerOf(c), IsReported(c)' <=> IsReported(c),
           PhaseOf(c) = "none", PhaseOf(c)' = "over", Known(c)' <=> Known(c)
    PROVE  Calling!Next
<1>1. Calling!Refuse(c)  BY OneSeen DEF Calling!Refuse, OneCallMoves
<1> QED  BY <1>1 DEF Calling!Next

LEMMA LeaveStep ==
    ASSUME NEW s \in Session, UNCHANGED stackUp, op[s] # "deleted", op'[s] = "deleted",
           \A x \in Session : x # s => op'[x] = op[x],
           \A c \in CallId : SameCall(c)
    PROVE  Calling!Next
<1>1. [c \in CallId |-> OwnerOf(c)]' = [c \in CallId |-> OwnerOf(c)]  BY DEF SameCall
<1>2. [c \in CallId |-> PhaseOf(c)]' = [c \in CallId |-> PhaseOf(c)]  BY DEF SameCall
<1>3. {c \in CallId : Known(c)}' = {c \in CallId : Known(c)}  BY DEF SameCall
<1>4. {c \in CallId : IsReported(c)}' = {c \in CallId : IsReported(c)}  BY DEF SameCall
<1>5. {x \in Session : op[x] = "deleted"}' = {x \in Session : op[x] = "deleted"} \cup {s}  OBVIOUS
<1>6. Calling!Leave(s)  BY <1>1, <1>2, <1>3, <1>4, <1>5 DEF Calling!Leave
<1> QED  BY <1>6 DEF Calling!Next

LEMMA QuitStep ==
    ASSUME stackUp, ~stackUp', stackUp' \in BOOLEAN, SameGone,
           \A c \in CallId : /\ OwnerOf(c)' = OwnerOf(c) /\ ~Known(c)'
                             /\ PhaseOf(c)' = IF PhaseOf(c) \in {"setup", "up"} THEN "over" ELSE PhaseOf(c)
                             /\ IsReported(c)' <=> IsReported(c) \/ (Known(c) /\ CanHear(c))
    PROVE  Calling!Next
<1>1. [c \in CallId |-> OwnerOf(c)]' = [c \in CallId |-> OwnerOf(c)]  OBVIOUS
<1>2. [c \in CallId |-> PhaseOf(c)]'
         = [c \in CallId |-> IF PhaseOf(c) \in {"setup", "up"} THEN "over" ELSE PhaseOf(c)]
  OBVIOUS
<1>3. {c \in CallId : Known(c)}' = {}  OBVIOUS
<1>4. Calling!Heard({c \in CallId : Known(c)}) = {c \in CallId : Known(c) /\ CanHear(c)}
  BY DEF Calling!Heard, CanHear
<1>5. {c \in CallId : IsReported(c)}'
         = {c \in CallId : IsReported(c)} \cup Calling!Heard({c \in CallId : Known(c)})
  BY <1>4
<1>6. {x \in Session : op[x] = "deleted"}' = {x \in Session : op[x] = "deleted"}  BY DEF SameGone
<1>7. Calling!Quit  BY <1>1, <1>2, <1>3, <1>5, <1>6 DEF Calling!Quit, Calling!Busy
<1> QED  BY <1>7 DEF Calling!Next

-----------------------------------------------------------------------------
(* The steps of the sessions: the service sees that one is deleted.        *)

\* What is known of a call is all in the contexts and the map.
LEMMA SameContexts ==
    ASSUME UNCHANGED <<ctx, iwHandlesMap>>, NEW c
    PROVE  OwnerOf(c)' = OwnerOf(c) /\ PhaseOf(c)' = PhaseOf(c) /\ (Known(c)' <=> Known(c))
<1>1. Contexts' = Contexts  BY DEF Contexts
<1>2. OwnerOf(c)' = OwnerOf(c)  BY <1>1 DEF OwnerOf
<1>3. PhaseOf(c)' = PhaseOf(c)  BY <1>1 DEF PhaseOf
<1>4. Known(c)' <=> Known(c)  BY <1>1 DEF Known, Named
<1> QED  BY <1>2, <1>3, <1>4

\* An end that a session has handled was on its way to it.
Learns(s) ==
    /\ told \subseteq told'
    /\ \A c \in told' : \/ c \in told
                        \/ \E i \in Ready(s) : ready[s][i] = [kind |-> "HANGUP_EVT", call |-> c]
    /\ \A x \in Session : x # s => ready'[x] = ready[x]

LEMMA ReportsMove ==
    ASSUME Inv, NEW s \in Session, NEW n \in Nat, Shifts(s, n), Remembers(s), Learns(s), NEW c
    PROVE  IsReported(c)' <=> IsReported(c)
<1>1. PICK e : e = [kind |-> "HANGUP_EVT", call |-> c]  OBVIOUS
<1>2. e.kind = "HANGUP_EVT" /\ e.call = c  BY <1>1
<1>3. ASSUME IsReported(c) PROVE IsReported(c)'
  <2>1. CASE c \in told  BY <2>1 DEF Learns, IsReported
  <2>2. ASSUME NEW x \in Session, NEW i \in Ready(x), ready[x][i] = e PROVE IsReported(c)'
    <3>1. CASE x = s
      <4>1. c \in told' \/ \E j \in Ready(s)' : ready'[s][j] = e  BY <1>2, <2>2, <3>1 DEF Remembers
      <4> QED  BY <1>1, <4>1 DEF IsReported, Ready
    <3>2. CASE x # s
      <4>1. i \in Ready(x)' /\ ready'[x][i] = e  BY <2>2, <3>2 DEF Learns, Ready
      <4> QED  BY <1>1, <4>1 DEF IsReported, Ready
    <3> QED  BY <3>1, <3>2
  <2> QED  BY <1>1, <1>3, <2>1, <2>2 DEF IsReported, Ready
<1>4. ASSUME IsReported(c)' PROVE IsReported(c)
  <2>1. CASE c \in told'  BY <2>1 DEF Learns, IsReported, Ready
  <2>2. ASSUME NEW x \in Session, NEW i \in Ready(x)', ready'[x][i] = e PROVE IsReported(c)
    <3>1. CASE x = s
      <4>1. i + n \in Ready(s) /\ ready[s][i + n] = e  BY <2>2, <3>1 DEF Shifts
      <4> QED  BY <1>1, <4>1 DEF IsReported, Ready
    <3>2. CASE x # s
      <4>1. i \in Ready(x) /\ ready[x][i] = e  BY <2>2, <3>2 DEF Learns, Ready
      <4> QED  BY <1>1, <4>1 DEF IsReported, Ready
    <3> QED  BY <3>1, <3>2
  <2> QED  BY <1>1, <1>4, <2>1, <2>2 DEF IsReported, Ready
<1> QED  BY <1>3, <1>4

\* A step of a session that stays.
LEMMA StaysUnseen ==
    ASSUME Inv, NEW s \in Session, NEW n \in Nat, Shifts(s, n), Remembers(s), Learns(s),
           UNCHANGED stackVars, \A x \in Session : (op'[x] = "deleted") <=> (op[x] = "deleted")
    PROVE  [Calling!Next]_(Calling!cvars)
<1>1. UNCHANGED <<ctx, iwHandlesMap>> /\ UNCHANGED stackUp  BY DEF stackVars
<1>2. \A c \in CallId : SameCall(c)  BY <1>1, SameContexts, ReportsMove DEF SameCall
<1>3. SameGone  BY DEF SameGone
<1>4. UNCHANGED Calling!cvars  BY <1>1, <1>2, <1>3, Unseen
<1> QED  BY <1>4

\* Nothing arrives, and nothing is handled.
LEMMA QuietUnseen ==
    ASSUME Inv, NEW s \in Session, UNCHANGED <<ready, told>>, UNCHANGED stackVars,
           \A x \in Session : (op'[x] = "deleted") <=> (op[x] = "deleted")
    PROVE  [Calling!Next]_(Calling!cvars)
<1>1. Shifts(s, 0) /\ Remembers(s)  BY SameReady DEF Inv
<1>2. Learns(s)  BY DEF Learns
<1>3. 0 \in Nat  OBVIOUS
<1> QED  BY <1>1, <1>2, <1>3, StaysUnseen

LEMMA ReceivedUnseen ==
    ASSUME Inv, NEW s \in Session, NEW o \in TxnOp, Received(s, o), UNCHANGED told, UNCHANGED stackVars
    PROVE  [Calling!Next]_(Calling!cvars)
<1>1. /\ Shifts(s, 1) /\ Remembers(s) /\ op[s] = o /\ op'[s] = "idle"
      /\ \A x \in Session : x # s => op'[x] = op[x] /\ ready'[x] = ready[x]
  BY ReceivedFacts
<1>2. Learns(s)  BY <1>1 DEF Learns
<1>3. \A x \in Session : (op'[x] = "deleted") <=> (op[x] = "deleted")  BY <1>1 DEF TxnOp
<1>4. 1 \in Nat  OBVIOUS
<1> QED  BY <1>1, <1>2, <1>3, <1>4, StaysUnseen

LEMMA SessionUnseen ==
    ASSUME Inv, NEW s \in Session,
           \/ MakeCall(s) \/ MakeCallTimeout(s) \/ ReOffer(s) \/ ReOfferTimeout(s)
           \/ AnswerUac(s) \/ AnswerUas(s) \/ AnswerTimeout(s) \/ BlindXfer(s) \/ BlindXferTimeout(s)
           \/ RejectCall(s) \/ HangupCall(s) \/ WaitTillHangup(s)
    PROVE  [Calling!Next]_(Calling!cvars)
<1>1. UNCHANGED <<ready, told>> /\ UNCHANGED stackVars
  BY DEF MakeCall, MakeCallTimeout, ReOffer, ReOfferTimeout, AnswerUac, AnswerUas, AnswerTimeout,
         BlindXfer, BlindXferTimeout, RejectCall, HangupCall, WaitTillHangup
<1>2. op \in [Session -> Op]  BY DEF Inv, TypeOK
<1>3. \/ op' = op
      \/ \E o \in TxnOp \cup {"idle"} : op[s] \in TxnOp \cup {"idle"} /\ op' = [op EXCEPT ![s] = o]
  <2>1. CASE MakeCall(s) \/ ReOffer(s) \/ AnswerUas(s) \/ BlindXfer(s)
    BY <2>1 DEF MakeCall, ReOffer, AnswerUas, BlindXfer, Ask, TxnOp
  <2>2. CASE MakeCallTimeout(s) \/ ReOfferTimeout(s) \/ AnswerTimeout(s) \/ BlindXferTimeout(s)
    BY <2>2 DEF MakeCallTimeout, ReOfferTimeout, AnswerTimeout, BlindXferTimeout, Expired, TxnOp
  <2>3. CASE AnswerUac(s) \/ RejectCall(s) \/ HangupCall(s) \/ WaitTillHangup(s)
    BY <2>3 DEF AnswerUac, RejectCall, HangupCall, WaitTillHangup, Tell
  <2> QED  BY <2>1, <2>2, <2>3
<1>4. \A x \in Session : (op'[x] = "deleted") <=> (op[x] = "deleted")  BY <1>2, <1>3 DEF TxnOp
<1> QED  BY <1>1, <1>4, QuietUnseen

LEMMA ResponseUnseen ==
    ASSUME Inv, NEW s \in Session,
           MakeCallOk(s) \/ MakeCallNack(s) \/ ReOfferDone(s) \/ AnswerDone(s) \/ BlindXferDone(s)
    PROVE  [Calling!Next]_(Calling!cvars)
<1>1. PICK o \in TxnOp : Received(s, o)
  BY DEF MakeCallOk, MakeCallNack, ReOfferDone, AnswerDone, BlindXferDone, TxnOp
<1>2. UNCHANGED told /\ UNCHANGED stackVars
  BY DEF MakeCallOk, MakeCallNack, ReOfferDone, AnswerDone, BlindXferDone
<1> QED  BY <1>1, <1>2, ReceivedUnseen

\* UponCallTerminated takes the report from the queue of the session into its memory.
LEMMA TerminatedUnseen ==
    ASSUME Inv, NEW s \in Session, UponCallTerminated(s)
    PROVE  [Calling!Next]_(Calling!cvars)
<1>1. TypeOK  BY DEF Inv
<1>2. /\ Shifts(s, 1) /\ 1 \in Ready(s) /\ Head(ready[s]) = ready[s][1] /\ ready[s][1] \in Event
      /\ Len(ready[s]) \in Nat /\ Ready(s)' = 1..(Len(ready[s]) - 1)
      /\ \A i \in Ready(s)' : ready'[s][i] = ready[s][i + 1]
      /\ \A x \in Session : x # s => ready'[x] = ready[x]
  BY <1>1, DropHead DEF UponCallTerminated
<1>3. PICK c : c = ready[s][1].call  OBVIOUS
<1>4. /\ told' = told \cup {c} /\ ready[s][1].kind = "HANGUP_EVT" /\ op' = op /\ UNCHANGED stackVars
  BY <1>2, <1>3 DEF UponCallTerminated
<1>5. ready[s][1] = [kind |-> "HANGUP_EVT", call |-> c]  BY <1>2, <1>3, <1>4 DEF Event
<1>6. Learns(s)  BY <1>2, <1>4, <1>5 DEF Learns
<1>7. Remembers(s)
  <2> SUFFICES ASSUME NEW i \in Ready(s), ready[s][i].call \notin told'
      PROVE  \E j \in Ready(s)' : ready'[s][j] = ready[s][i]
    BY DEF Remembers
  <2>1. i # 1  BY <1>3, <1>4
  <2>2. i - 1 \in Ready(s)' /\ (i - 1) + 1 = i  BY <1>2, <2>1 DEF Ready
  <2> QED  BY <1>2, <2>2
<1>8. 1 \in Nat /\ \A x \in Session : (op'[x] = "deleted") <=> (op[x] = "deleted")  BY <1>4
<1> QED  BY <1>2, <1>4, <1>6, <1>7, <1>8, StaysUnseen

\* The destructor, when the listener has handled what was in its channel.
LEMMA DeleteLeaves ==
    ASSUME Inv, NEW s \in Session, Delete(s)
    PROVE  [Calling!Next]_(Calling!cvars)
<1>1. TypeOK /\ TokensOf(s)  BY DEF Inv, Tokens
<1>2. /\ op' = [op EXCEPT ![s] = "deleted"] /\ ready' = [ready EXCEPT ![s] = <<>>] /\ op[s] = "idle"
      /\ told' = told \cup {ready[s][i].call : i \in 1..Len(ready[s])} /\ UNCHANGED stackVars
  BY DEF Delete
<1>3. PICK E : E = Event  OBVIOUS
<1>4. ready \in [Session -> Seq(E)] /\ op \in [Session -> Op]
  BY <1>1, <1>3, TypeParts DEF ReadyTyped, SessionTyped
<1>5. /\ ready'[s] = <<>> /\ \A x \in Session : x # s => ready'[x] = ready[x] /\ op'[x] = op[x]
      /\ op'[s] = "deleted"
  BY <1>2, <1>4
<1>6. \A i \in Ready(s) : ready[s][i] = [kind |-> "HANGUP_EVT", call |-> ready[s][i].call]
  <2> SUFFICES ASSUME NEW i \in Ready(s)
      PROVE  ready[s][i] = [kind |-> "HANGUP_EVT", call |-> ready[s][i].call]
    OBVIOUS
  <2>1. ready[s][i] \in E  BY <1>4 DEF Ready
  <2>2. ready[s][i].kind \notin Response  BY <1>1, <1>2 DEF TokensOf, Answered, TxnOp
  <2> QED  BY <1>3, <2>1, <2>2 DEF Event
<1>7. Learns(s)  BY <1>2, <1>5, <1>6 DEF Learns, Ready
<1>8. Remembers(s)  BY <1>2 DEF Remembers, Ready
<1>9. Shifts(s, 0) /\ 0 \in Nat
  <2>1. Ready(s)' = {}  BY <1>5 DEF Ready
  <2> QED  BY <2>1 DEF Shifts
<1>10. UNCHANGED <<ctx, iwHandlesMap>> /\ UNCHANGED stackUp  BY <1>2 DEF stackVars
<1>11. \A c \in CallId : SameCall(c)  BY <1>7, <1>8, <1>9, <1>10, SameContexts, ReportsMove DEF SameCall
<1> QED  BY <1>2, <1>5, <1>10, <1>11, LeaveStep

-----------------------------------------------------------------------------
(* The steps of the stack: the service sees one call move.                 *)

\* A call that rings or was answered can be reached.
Served == \A c \in Contexts : ctx[c].dialog \in {"early", "accepted"} => Known(c)

\* What is delivered, as the service sees it.
LEMMA AddsReports ==
    ASSUME NEW S, NEW t, NEW k \in Response, NEW d, NEW C, Adds(S, t, k, d, C), UNCHANGED told, NEW c
    PROVE  /\ c \notin C => (IsReported(c)' <=> IsReported(c))
           /\ c \in C /\ c \in Contexts /\ Hears(c) => (IsReported(c)' <=> IsReported(c) \/ CanHear(c))
<1>1. PICK e : e = [kind |-> "HANGUP_EVT", call |-> c]  OBVIOUS
<1>2. e.kind = "HANGUP_EVT" /\ e.call = c /\ k # "HANGUP_EVT"  BY <1>1 DEF Response
<1>3. ASSUME IsReported(c) PROVE IsReported(c)'
  <2>1. CASE c \in told  BY <2>1 DEF IsReported
  <2>2. ASSUME NEW x \in Session, NEW i \in Ready(x), ready[x][i] = e PROVE IsReported(c)'
    <3>1. i \in Ready(x)' /\ ready'[x][i] = e  BY <2>2 DEF Adds
    <3> QED  BY <1>1, <3>1 DEF IsReported, Ready
  <2> QED  BY <1>1, <1>3, <2>1, <2>2 DEF IsReported, Ready
<1>4. ASSUME IsReported(c)' PROVE IsReported(c) \/ \E x \in Session : c \in C /\ ctx[c].session = x /\ op[x] # "deleted"
  <2>1. CASE c \in told'  BY <2>1 DEF IsReported
  <2>2. ASSUME NEW x \in Session, NEW i \in Ready(x)', ready'[x][i] = e
        PROVE  IsReported(c) \/ (c \in C /\ ctx[c].session = x /\ op[x] # "deleted")
    <3>1. CASE i \in Ready(x)
      <4>1. ready[x][i] = e  BY <2>2, <3>1 DEF Adds
      <4> QED  BY <1>1, <3>1, <4>1 DEF IsReported, Ready
    <3>2. CASE i \notin Ready(x)
      <4>1. CASE /\ \E b \in C : ready'[x][i] = [kind |-> "HANGUP_EVT", call |-> b] /\ ctx[b].session = x
                 /\ op[x] # "deleted"
        <5>1. PICK b \in C : e = [kind |-> "HANGUP_EVT", call |-> b] /\ ctx[b].session = x  BY <2>2, <4>1
        <5>2. b = c  BY <1>2, <5>1
        <5> QED  BY <4>1, <5>1, <5>2
      <4>2. CASE ready'[x][i] = [kind |-> k, call |-> d]
        <5>1. e.kind = k  BY <2>2, <4>2
        <5> QED  BY <1>2, <5>1
      <4> QED  BY <3>2, <4>1, <4>2 DEF Adds
    <3> QED  BY <3>1, <3>2
  <2> QED  BY <1>1, <1>4, <2>1, <2>2 DEF IsReported, Ready
<1>5. ASSUME c \in Contexts, Hears(c), CanHear(c) PROVE IsReported(c)'
  <2>1. PICK x \in Session : x = ctx[c].session /\ op[x] # "deleted"  BY <1>5 DEF CanHear, OwnerOf
  <2>2. PICK i \in Ready(x)' : ready'[x][i] = [kind |-> "HANGUP_EVT", call |-> c]  BY <1>5, <2>1 DEF Hears
  <2> QED  BY <2>2 DEF IsReported, Ready
<1>6. ASSUME c \in Contexts, NEW x \in Session, ctx[c].session = x, op[x] # "deleted" PROVE CanHear(c)
  BY <1>6 DEF CanHear, OwnerOf
<1> QED  BY <1>3, <1>4, <1>5, <1>6

\* Context c becomes r; its name stays, goes or comes.
Becomes(c, r) ==
    /\ ctx' = [ctx EXCEPT ![c] = r]
    /\ r.session = ctx[c].session /\ r.handle = ctx[c].handle
    /\ UNCHANGED sessionVars /\ UNCHANGED stackUp /\ stackUp

LEMMA BecomesSeen ==
    ASSUME Inv, NEW c \in Contexts, NEW r \in Context, Becomes(c, r),
           \/ UNCHANGED iwHandlesMap
           \/ iwHandlesMap' = Without(iwHandlesMap, ctx[c].handle)
           \/ iwHandlesMap' = Plus(iwHandlesMap, ctx[c].handle, c)
    PROVE  /\ c \in CallId /\ Contexts' = Contexts
           /\ PhaseOf(c) = Stage(ctx[c].dialog) /\ PhaseOf(c)' = Stage(r.dialog)
           /\ OwnerOf(c)' = OwnerOf(c)
           /\ UNCHANGED iwHandlesMap => (Known(c)' <=> Known(c))
           /\ iwHandlesMap' = Without(iwHandlesMap, ctx[c].handle) => ~Known(c)'
           /\ iwHandlesMap' = Plus(iwHandlesMap, ctx[c].handle, c) => Known(c)'
           /\ \A e : e # c => /\ OwnerOf(e)' = OwnerOf(e) /\ PhaseOf(e)' = PhaseOf(e)
                              /\ Known(e)' <=> Known(e)
           /\ ctx'[c] = r /\ \A e \in Contexts : e # c => ctx'[e] = ctx[e]
           /\ SameGone
<1>1. TypeOK /\ OneHandle  BY DEF Inv, Naming
<1>2. /\ Contexts' = Contexts /\ ctx'[c] = r /\ \A e \in Contexts : e # c => ctx'[e] = ctx[e]
  BY <1>1, TouchContexts DEF Becomes
<1>3. c \in CallId  BY <1>1, ContextFacts DEF CallId
<1>4. r.session = ctx[c].session /\ r.handle = ctx[c].handle  BY DEF Becomes
<1>5. PhaseOf(c) = Stage(ctx[c].dialog) /\ PhaseOf(c)' = Stage(r.dialog)
  BY <1>2 DEF PhaseOf, Stage
<1>6. OwnerOf(c)' = OwnerOf(c)  BY <1>2, <1>4 DEF OwnerOf
<1>7. UNCHANGED iwHandlesMap => (Known(c)' <=> Known(c))  BY <1>2, <1>4 DEF Known, Named
<1>8. iwHandlesMap' = Without(iwHandlesMap, ctx[c].handle) => ~Known(c)'
  BY <1>2, <1>4 DEF Known, Named, Without
<1>9. iwHandlesMap' = Plus(iwHandlesMap, ctx[c].handle, c) => Known(c)'
  BY <1>2, <1>4 DEF Known, Named, Plus
<1>10. ASSUME NEW e, e # c
       PROVE  /\ OwnerOf(e)' = OwnerOf(e) /\ PhaseOf(e)' = PhaseOf(e)
              /\ Known(e)' <=> Known(e)
  <2>1. OwnerOf(e)' = OwnerOf(e)  BY <1>2, <1>10 DEF OwnerOf
  <2>2. PhaseOf(e)' = PhaseOf(e)  BY <1>2, <1>10 DEF PhaseOf, Stage
  <2>3. Known(e)' <=> Known(e)
    <3>1. CASE e \in Contexts
      <4>1. ctx'[e].handle = ctx[e].handle /\ ctx[e].handle # ctx[c].handle
        BY <1>1, <1>2, <1>10, <3>1 DEF OneHandle
      <4> QED  BY <1>2, <3>1, <4>1 DEF Known, Named, Without, Plus
    <3>2. CASE e \notin Contexts  BY <1>2, <3>2 DEF Known
    <3> QED  BY <3>1, <3>2
  <2> QED  BY <2>1, <2>2, <2>3
<1>11. SameGone  BY DEF SameGone, Becomes, sessionVars
<1> QED  BY <1>2, <1>3, <1>5, <1>6, <1>7, <1>8, <1>9, <1>10, <1>11

\* The dialog moves on and its owner is not told of an end.
Advances(a, b) ==
    \/ Stage(a) = Stage(b) /\ (b \in {"early", "accepted"} => a \in {"early", "accepted"})
    \/ a \in {"early", "accepted"} /\ b = "connected"

LEMMA StaysSeen ==
    ASSUME Inv, Served, NEW c \in Contexts, NEW r \in Context, Becomes(c, r), UNCHANGED iwHandlesMap,
           NEW S, NEW t, NEW k \in Response, NEW d, Adds(S, t, k, d, {}),
           Advances(ctx[c].dialog, r.dialog)
    PROVE  [Calling!Next]_(Calling!cvars) /\ Served'
<1>1. /\ c \in CallId /\ Contexts' = Contexts
      /\ PhaseOf(c) = Stage(ctx[c].dialog) /\ PhaseOf(c)' = Stage(r.dialog)
      /\ OwnerOf(c)' = OwnerOf(c) /\ (Known(c)' <=> Known(c))
      /\ \A e : e # c => /\ OwnerOf(e)' = OwnerOf(e) /\ PhaseOf(e)' = PhaseOf(e)
                         /\ Known(e)' <=> Known(e)
      /\ ctx'[c] = r /\ \A e \in Contexts : e # c => ctx'[e] = ctx[e]
      /\ SameGone
  BY BecomesSeen
<1>2. \A e : IsReported(e)' <=> IsReported(e)
  <2>1. told' = told  BY DEF Becomes, sessionVars
  <2>2. \A e : e \notin {}  OBVIOUS
  <2> QED  BY <2>1, <2>2, AddsReports
<1>3. Served'
  <2>1. r.dialog \in {"early", "accepted"} => ctx[c].dialog \in {"early", "accepted"}
    BY DEF Advances
  <2> QED  BY <1>1, <2>1 DEF Served
<1>4. stackUp /\ stackUp' = stackUp  BY DEF Becomes
<1>5. CASE Stage(ctx[c].dialog) = Stage(r.dialog)
  <2>1. \A e \in CallId : SameCall(e)  BY <1>1, <1>2, <1>5 DEF SameCall
  <2> QED  BY <1>1, <1>3, <1>4, <2>1, Unseen
<1>6. CASE ctx[c].dialog \in {"early", "accepted"} /\ r.dialog = "connected"
  <2>1. Known(c) /\ PhaseOf(c) = "setup" /\ PhaseOf(c)' = "up"  BY <1>1, <1>6 DEF Served, Stage
  <2>2. OneCallMoves(c)  BY <1>1, <1>2, <1>4 DEF OneCallMoves, SameCall
  <2> QED  BY <1>1, <1>2, <1>3, <2>1, <2>2, ConnectStep
<1> QED  BY <1>5, <1>6 DEF Advances

\* The call ends, or its session timer does: the owner hears of it.
LEMMA EndSeen ==
    ASSUME Inv, Served, NEW c \in Contexts, NEW r \in Context, Becomes(c, r),
           iwHandlesMap' = Without(iwHandlesMap, ctx[c].handle),
           NEW S, NEW t, NEW k \in Response, NEW d, Adds(S, t, k, d, {c}), Hears(c),
           \/ ctx[c].dialog \in Live \cup {"ending"} /\ r.dialog = "over"
           \/ ctx[c].dialog = "connected" /\ r.dialog = "connected" /\ Known(c)
    PROVE  [Calling!Next]_(Calling!cvars) /\ Served'
<1>1. /\ c \in CallId /\ Contexts' = Contexts
      /\ PhaseOf(c) = Stage(ctx[c].dialog) /\ PhaseOf(c)' = Stage(r.dialog)
      /\ OwnerOf(c)' = OwnerOf(c) /\ ~Known(c)'
      /\ \A e : e # c => /\ OwnerOf(e)' = OwnerOf(e) /\ PhaseOf(e)' = PhaseOf(e)
                         /\ Known(e)' <=> Known(e)
      /\ ctx'[c] = r /\ \A e \in Contexts : e # c => ctx'[e] = ctx[e]
      /\ SameGone
  BY BecomesSeen
<1>2. told' = told  BY DEF Becomes, sessionVars
<1>3. \A e : e # c => (IsReported(e)' <=> IsReported(e))
  <2>1. \A e : e # c => e \notin {c}  OBVIOUS
  <2> QED  BY <1>2, <2>1, AddsReports
<1>4. IsReported(c)' <=> IsReported(c) \/ CanHear(c)
  <2>1. c \in {c}  OBVIOUS
  <2> QED  BY <1>2, <2>1, AddsReports
<1>5. Served'  BY <1>1 DEF Served
<1>6. stackUp /\ stackUp' = stackUp  BY DEF Becomes
<1>7. OneCallMoves(c)  BY <1>1, <1>3, <1>6 DEF OneCallMoves, SameCall
<1>8. CASE ctx[c].dialog \in Live \cup {"ending"} /\ r.dialog = "over"
  <2>1. PhaseOf(c) \in {"setup", "up", "ending"} /\ PhaseOf(c)' = "over"  BY <1>1, <1>8 DEF Stage, Live
  <2> QED  BY <1>1, <1>4, <1>5, <1>7, <2>1, FinishStep
<1>9. CASE ctx[c].dialog = "connected" /\ r.dialog = "connected" /\ Known(c)
  <2>1. PhaseOf(c) = "up" /\ PhaseOf(c)' = PhaseOf(c)  BY <1>1, <1>9 DEF Stage
  <2> QED  BY <1>1, <1>4, <1>5, <1>7, <1>9, <2>1, ExpireStep
<1> QED  BY <1>8, <1>9

\* The end of a call is asked for, and has to wait.
LEMMA EndingSeen ==
    ASSUME Inv, Served, NEW c \in Contexts, NEW r \in Context, Becomes(c, r),
           iwHandlesMap' = Without(iwHandlesMap, ctx[c].handle), UNCHANGED ready,
           Known(c), ctx[c].dialog \in Live, r.dialog = "ending"
    PROVE  [Calling!Next]_(Calling!cvars) /\ Served'
<1>1. /\ c \in CallId /\ Contexts' = Contexts
      /\ PhaseOf(c) = Stage(ctx[c].dialog) /\ PhaseOf(c)' = Stage(r.dialog)
      /\ OwnerOf(c)' = OwnerOf(c) /\ ~Known(c)'
      /\ \A e : e # c => /\ OwnerOf(e)' = OwnerOf(e) /\ PhaseOf(e)' = PhaseOf(e)
                         /\ Known(e)' <=> Known(e)
      /\ ctx'[c] = r /\ \A e \in Contexts : e # c => ctx'[e] = ctx[e]
      /\ SameGone
  BY BecomesSeen
<1>2. \A e : IsReported(e)' <=> IsReported(e)  BY DEF IsReported, Becomes, sessionVars
<1>3. Served'  BY <1>1 DEF Served
<1>4. OneCallMoves(c)  BY <1>1, <1>2 DEF OneCallMoves, SameCall, Becomes
<1>5. PhaseOf(c) \in {"setup", "up"} /\ PhaseOf(c)' = "ending"  BY <1>1 DEF Stage, Live
<1> QED  BY <1>1, <1>2, <1>3, <1>4, <1>5, ReleaseStep

\* A step of the stack that leaves the contexts alone and reports no end.
LEMMA StackUnseen ==
    ASSUME Served, UNCHANGED <<ctx, iwHandlesMap>>, UNCHANGED stackUp, UNCHANGED sessionVars,
           NEW S, NEW t, NEW k \in Response, NEW d, Adds(S, t, k, d, {})
    PROVE  [Calling!Next]_(Calling!cvars) /\ Served'
<1>1. \A e : IsReported(e)' <=> IsReported(e)
  <2>1. told' = told  BY DEF sessionVars
  <2>2. \A e : e \notin {}  OBVIOUS
  <2> QED  BY <2>1, <2>2, AddsReports
<1>2. \A e : OwnerOf(e)' = OwnerOf(e) /\ PhaseOf(e)' = PhaseOf(e) /\ (Known(e)' <=> Known(e))
  BY SameContexts
<1>3. \A e \in CallId : SameCall(e)  BY <1>1, <1>2 DEF SameCall
<1>4. SameGone  BY DEF SameGone, sessionVars
<1>5. Served'  BY <1>2 DEF Served, Contexts
<1> QED  BY <1>3, <1>4, <1>5, Unseen

\* The remote party answers the INVITE: the call can be reached.
LEMMA MeetSeen ==
    ASSUME Inv, Served, NEW c \in Contexts, NEW r \in Context, Becomes(c, r), UNCHANGED ready,
           iwHandlesMap' = Plus(iwHandlesMap, ctx[c].handle, c),
           ctx[c].dialog = "inviting", r.dialog = "early"
    PROVE  [Calling!Next]_(Calling!cvars) /\ Served'
<1>1. /\ c \in CallId /\ Contexts' = Contexts
      /\ PhaseOf(c) = Stage(ctx[c].dialog) /\ PhaseOf(c)' = Stage(r.dialog)
      /\ OwnerOf(c)' = OwnerOf(c) /\ Known(c)'
      /\ \A e : e # c => /\ OwnerOf(e)' = OwnerOf(e) /\ PhaseOf(e)' = PhaseOf(e)
                         /\ Known(e)' <=> Known(e)
      /\ ctx'[c] = r /\ \A e \in Contexts : e # c => ctx'[e] = ctx[e]
      /\ SameGone
  BY BecomesSeen
<1>2. \A e : IsReported(e)' <=> IsReported(e)  BY DEF IsReported, Becomes, sessionVars
<1>3. Served'  BY <1>1 DEF Served
<1>4. OneCallMoves(c)  BY <1>1, <1>2 DEF OneCallMoves, SameCall, Becomes
<1>5. PhaseOf(c) = "setup" /\ PhaseOf(c)' = PhaseOf(c)  BY <1>1 DEF Stage
<1>6. ~Known(c)
  <2> SUFFICES ASSUME Known(c) PROVE FALSE
    OBVIOUS
  <2>1. PICK h : h = ctx[c].handle  OBVIOUS
  <2>2. Named(h) /\ c = iwHandlesMap[h]  BY <2>1 DEF Known
  <2>3. ctx[c].dialog \in Live \ {"inviting"}  BY <2>2, NamedCall
  <2> QED  BY <2>3
<1> QED  BY <1>1, <1>2, <1>3, <1>4, <1>5, <1>6, MeetStep

-----------------------------------------------------------------------------
(* The callbacks of resip.                                                 *)

LEMMA OnNewSessionSeen ==
    ASSUME Inv, Served, NEW c \in Contexts, OnNewSession(c)
    PROVE  [Calling!Next]_(Calling!cvars) /\ Served'
<1>1. PICK r : r = [ctx[c] EXCEPT !.dialog = "early"]  OBVIOUS
<1>2. "early" \in Dialog  BY DEF Dialog, Live
<1>3. r \in Context /\ r.session = ctx[c].session /\ r.handle = ctx[c].handle /\ r.dialog = "early"
  BY <1>1, <1>2, MovedContext
<1>4. Becomes(c, r)  BY <1>1, <1>3 DEF OnNewSession, Becomes
<1>5. /\ UNCHANGED ready /\ ctx[c].dialog = "inviting"
      /\ iwHandlesMap' = Plus(iwHandlesMap, ctx[c].handle, c)
  BY DEF OnNewSession
<1> QED  BY <1>3, <1>4, <1>5, MeetSeen

\* The session is answered, and the dialog is connected.
LEMMA AnsweredSeen ==
    ASSUME Inv, Served, NEW c \in Contexts, NEW r \in Context, Becomes(c, r), UNCHANGED iwHandlesMap,
           NEW k \in Response, NEW t, \E s : s = ctx[c].session /\ ready' = Respond(ready, s, t, k, c),
           ctx[c].dialog \in Live \ {"inviting"}, r.dialog = "connected"
    PROVE  [Calling!Next]_(Calling!cvars) /\ Served'
<1>1. TypeOK /\ CallIsOurs  BY DEF Inv, Naming
<1>2. PICK s : s = ctx[c].session /\ ready' = Respond(ready, s, t, k, c)  OBVIOUS
<1>3. s \in Session  BY <1>1, <1>2 DEF CallIsOurs
<1>4. c \in 0..MaxContexts  BY <1>1, ContextFacts
<1>5. Adds({s}, t, k, c, {})  BY <1>1, <1>2, <1>3, <1>4, AddsResponse
<1>6. Advances(ctx[c].dialog, r.dialog)  BY DEF Advances, Stage, Live
<1> QED  BY <1>5, <1>6, StaysSeen

LEMMA OnConnectedSeen ==
    ASSUME Inv, Served, NEW c \in Contexts, OnConnected(c) \/ OnConnectedConfirmed(c)
    PROVE  [Calling!Next]_(Calling!cvars) /\ Served'
<1>1. PICK r : r = [ctx[c] EXCEPT !.dialog = "connected"]  OBVIOUS
<1>2. "connected" \in Dialog  BY DEF Dialog, Live
<1>3. r \in Context /\ r.session = ctx[c].session /\ r.handle = ctx[c].handle /\ r.dialog = "connected"
  BY <1>1, <1>2, MovedContext
<1>4. Becomes(c, r) /\ UNCHANGED iwHandlesMap /\ ctx[c].dialog \in Live \ {"inviting"}
  BY <1>1, <1>3 DEF OnConnected, OnConnectedConfirmed, Becomes, Live
<1>5. PICK k \in Response : \E t : ready' = Respond(ready, ctx[c].session, t, k, c)
  BY DEF OnConnected, OnConnectedConfirmed, Response
<1>6. PICK t : \E s : s = ctx[c].session /\ ready' = Respond(ready, s, t, k, c)  BY <1>5
<1> QED  BY <1>3, <1>4, <1>6, AnsweredSeen

LEMMA OnAnswerSeen ==
    ASSUME Inv, Served, NEW c \in Contexts, OnAnswer(c)
    PROVE  [Calling!Next]_(Calling!cvars) /\ Served'
<1>1. PICK r : r = [ctx[c] EXCEPT !.dialog = "connected", !.reofferReq = 0]  OBVIOUS
<1>2. ctx[c] \in Context /\ 0 \in TxnId  BY ContextFacts, BoundsAssumption DEF Inv, TxnId
<1>3. r \in Context /\ r.session = ctx[c].session /\ r.handle = ctx[c].handle /\ r.dialog = "connected"
  BY <1>1, <1>2 DEF Context, Dialog, Live
<1>4. Becomes(c, r) /\ UNCHANGED iwHandlesMap /\ ctx[c].dialog \in Live \ {"inviting"}
  BY <1>1, <1>3 DEF OnAnswer, Becomes, Live
<1>5. PICK k \in Response : \E t : ready' = Respond(ready, ctx[c].session, t, k, c)
  BY DEF OnAnswer, Response
<1>6. PICK t : \E s : s = ctx[c].session /\ ready' = Respond(ready, s, t, k, c)  BY <1>5
<1> QED  BY <1>3, <1>4, <1>6, AnsweredSeen

LEMMA OnOfferRejectedSeen ==
    ASSUME Inv, Served, NEW c \in Contexts, OnOfferRejected(c)
    PROVE  [Calling!Next]_(Calling!cvars) /\ Served'
<1>1. PICK r : r = [ctx[c] EXCEPT !.dialog = "connected"]  OBVIOUS
<1>2. "connected" \in Dialog  BY DEF Dialog, Live
<1>3. r \in Context /\ r.session = ctx[c].session /\ r.handle = ctx[c].handle /\ r.dialog = "connected"
  BY <1>1, <1>2, MovedContext
<1>4. Becomes(c, r) /\ UNCHANGED iwHandlesMap /\ UNCHANGED ready /\ ctx[c].dialog = "reoffered"
  BY <1>1, <1>3 DEF OnOfferRejected, Becomes
<1>5. Adds({}, 0, "MAKE_CALL_OK", 0, {})  BY <1>4, AddsNothing DEF Inv
<1>6. Advances(ctx[c].dialog, r.dialog)  BY <1>3, <1>4 DEF Advances, Stage
<1>7. "MAKE_CALL_OK" \in Response  BY DEF Response
<1> QED  BY <1>3, <1>4, <1>5, <1>6, <1>7, StaysSeen

LEMMA OnTerminatedSeen ==
    ASSUME Inv, Served, NEW c \in Contexts, OnTerminated(c)
    PROVE  [Calling!Next]_(Calling!cvars) /\ Served'
<1>1. PICK r : r = [ctx[c] EXCEPT !.dialog = "over"]  OBVIOUS
<1>2. "over" \in Dialog /\ "MAKE_CALL_OK" \in Response  BY DEF Dialog, Response
<1>3. r \in Context /\ r.session = ctx[c].session /\ r.handle = ctx[c].handle /\ r.dialog = "over"
  BY <1>1, <1>2, MovedContext
<1>4. Becomes(c, r) /\ ctx[c].dialog \in Live \cup {"ending"}
  BY <1>1, <1>3 DEF OnTerminated, Becomes, Live
<1>5. iwHandlesMap' = Without(iwHandlesMap, ctx[c].handle) /\ ready' = NotifyHangup(ready, c)
  BY DEF OnTerminated, FinalizeContext
<1>6. Adds({}, 0, "MAKE_CALL_OK", 0, {c}) /\ Hears(c)  BY <1>5, AddsHangup DEF Inv
<1> QED  BY <1>2, <1>3, <1>4, <1>5, <1>6, EndSeen

LEMMA OnFailureSeen ==
    ASSUME Inv, Served, NEW c \in Contexts, OnFailure(c)
    PROVE  [Calling!Next]_(Calling!cvars) /\ Served'
<1>1. PICK r, s, t, a, z : /\ r = [ctx[c] EXCEPT !.dialog = "over"] /\ s = ctx[c].session
                           /\ t = ctx[c].makeCallReq /\ a = "MAKE_CALL_NACK" /\ z = 0
  OBVIOUS
<1>2. "over" \in Dialog  BY DEF Dialog
<1>3. r \in Context /\ r.session = ctx[c].session /\ r.handle = ctx[c].handle /\ r.dialog = "over"
  BY <1>1, <1>2, MovedContext
<1>4. Becomes(c, r) /\ ctx[c].dialog \in Live \cup {"ending"} /\ s \in Session
  BY <1>1, <1>3 DEF OnFailure, Becomes, Live, Session
<1>5. /\ iwHandlesMap' = Without(iwHandlesMap, ctx[c].handle)
      /\ ready' = NotifyHangup(Respond(ready, s, t, a, z), c)
  BY <1>1 DEF OnFailure
<1>6. a \in Response /\ z \in 0..MaxContexts  BY <1>1, BoundsAssumption DEF Response
<1>7. \E q : q = Respond(ready, s, t, a, z) /\ ready' = NotifyHangup(q, c)  BY <1>5
<1>8. Adds({s}, t, a, z, {c}) /\ Hears(c)  BY <1>4, <1>6, <1>7, AddsBoth DEF Inv
<1> QED  BY <1>3, <1>4, <1>5, <1>6, <1>8, EndSeen

LEMMA OnSessionExpiredSeen ==
    ASSUME Inv, Served, NEW c \in Contexts, OnSessionExpired(c)
    PROVE  [Calling!Next]_(Calling!cvars) /\ Served'
<1>1. TypeOK  BY DEF Inv
<1>2. PICK r, E : r = ctx[c] /\ E = Context  OBVIOUS
<1>3. r \in Context /\ r.dialog = "connected"  BY <1>1, <1>2, ContextFacts DEF OnSessionExpired
<1>4. ctx' = [ctx EXCEPT ![c] = r]
  <2>1. ctx \in Seq(E) /\ c \in 1..Len(ctx)  BY <1>1, <1>2, ContextFacts
  <2> QED  BY <1>2, <2>1 DEF OnSessionExpired
<1>5. Becomes(c, r)  BY <1>2, <1>4 DEF OnSessionExpired, Becomes
<1>6. iwHandlesMap' = Without(iwHandlesMap, ctx[c].handle) /\ ready' = NotifyHangup(ready, c)
  BY DEF OnSessionExpired, FinalizeContext
<1>7. Adds({}, 0, "MAKE_CALL_OK", 0, {c}) /\ Hears(c) /\ "MAKE_CALL_OK" \in Response
  BY <1>1, <1>6, AddsHangup DEF Response
<1>8. Known(c)  BY NameOf DEF OnSessionExpired, Known
<1>9. ctx[c].dialog = "connected"  BY <1>2, <1>3
<1> QED  BY <1>3, <1>5, <1>6, <1>7, <1>8, <1>9, EndSeen

LEMMA CallbackSeen ==
    ASSUME Inv, Served, NEW c \in Contexts, Callback(c)
    PROVE  [Calling!Next]_(Calling!cvars) /\ Served'
BY OnNewSessionSeen, OnConnectedSeen, OnAnswerSeen, OnOfferRejectedSeen, OnTerminatedSeen,
   OnFailureSeen, OnSessionExpiredSeen DEF Callback

-----------------------------------------------------------------------------
(* The requests of the sessions.                                           *)

\* A request that is refused or needs nothing done.
LEMMA RefusedSeen ==
    ASSUME Inv, Served, NEW k \in Request, Handles(k), NEW a \in Response,
           UNCHANGED ready \/ ready' = Respond(ready, Msg.session, Msg.txn, a, 0),
           UNCHANGED sessionVars, UNCHANGED <<ctx, iwHandlesMap>>, UNCHANGED stackUp
    PROVE  [Calling!Next]_(Calling!cvars) /\ Served'
<1>1. TypeOK  BY DEF Inv
<1>2. Msg = stackInbound[1] /\ stackInbound[1] \in SessionRequest  BY <1>1, HandlesFacts
<1>3. PICK s, t, z : s = stackInbound[1].session /\ t = stackInbound[1].txn /\ z = 0  OBVIOUS
<1>4. s \in Session /\ z \in 0..MaxContexts  BY <1>2, <1>3, BoundsAssumption DEF SessionRequest
<1>5. CASE UNCHANGED ready
  <2>1. Adds({}, 0, "MAKE_CALL_OK", 0, {}) /\ "MAKE_CALL_OK" \in Response
    BY <1>1, <1>5, AddsNothing DEF Response
  <2> QED  BY <2>1, StackUnseen
<1>6. CASE ready' = Respond(ready, s, t, a, z)
  <2>1. Adds({s}, t, a, z, {})  BY <1>1, <1>4, <1>6, AddsResponse
  <2> QED  BY <2>1, StackUnseen
<1> QED  BY <1>2, <1>3, <1>5, <1>6

\* end() of the call of a request: it is over at once, or it has to wait.
LEMMA EndedSeen ==
    ASSUME Inv, Served, NEW k \in Request, Handles(k), Named(Msg.handle),
           \E c : c = iwHandlesMap[Msg.handle] /\ End(c),
           iwHandlesMap' = Without(iwHandlesMap, Msg.handle), UNCHANGED sessionVars, UNCHANGED stackUp
    PROVE  [Calling!Next]_(Calling!cvars) /\ Served'
<1>1. TypeOK /\ stackUp /\ Msg = stackInbound[1]  BY HandlesFacts DEF Inv
<1>2. PICK c : c = iwHandlesMap[Msg.handle] /\ End(c)  OBVIOUS
<1>3. /\ c \in Contexts /\ ctx[c].handle = stackInbound[1].handle /\ ctx[c].dialog \in Live \ {"inviting"}
  BY <1>2, HandledCall
<1>4. PICK d : d = IF ctx[c].dialog \in {"early", "connected"} THEN "over" ELSE "ending"  OBVIOUS
<1>5. PICK r : r = [ctx[c] EXCEPT !.dialog = d]  OBVIOUS
<1>6. d \in Dialog  BY <1>4 DEF Dialog
<1>7. r \in Context /\ r.session = ctx[c].session /\ r.handle = ctx[c].handle /\ r.dialog = d
  BY <1>3, <1>5, <1>6, MovedContext
<1>8. ctx' = [ctx EXCEPT ![c] = r]  BY <1>2, <1>4, <1>5 DEF End
<1>9. Becomes(c, r) /\ iwHandlesMap' = Without(iwHandlesMap, ctx[c].handle)
  BY <1>1, <1>3, <1>7, <1>8 DEF Becomes
<1>10. CASE ctx[c].dialog \in {"early", "connected"}
  <2>1. ready' = NotifyHangup(ready, c)  BY <1>2, <1>10 DEF End
  <2>2. Adds({}, 0, "MAKE_CALL_OK", 0, {c}) /\ Hears(c) /\ "MAKE_CALL_OK" \in Response
    BY <1>1, <1>3, <2>1, AddsHangup DEF Response
  <2>3. ctx[c].dialog \in Live \cup {"ending"} /\ r.dialog = "over"  BY <1>3, <1>4, <1>7, <1>10
  <2> QED  BY <1>3, <1>7, <1>9, <2>2, <2>3, EndSeen
<1>11. CASE ctx[c].dialog \notin {"early", "connected"}
  <2>1. UNCHANGED ready /\ r.dialog = "ending"  BY <1>2, <1>4, <1>7, <1>11 DEF End
  <2>2. Known(c)  BY <1>1, <1>2, <1>3 DEF Known
  <2>3. ctx[c].dialog \in Live  BY <1>3
  <2> QED  BY <1>3, <1>7, <1>9, <2>1, <2>2, <2>3, EndingSeen
<1> QED  BY <1>10, <1>11

LEMMA UponHangupReqSeen ==
    ASSUME Inv, Served, UponHangupReq \/ UponCallOfferedNack
    PROVE  [Calling!Next]_(Calling!cvars) /\ Served'
<1>1. PICK k \in {"HANGUP_CALL_REQ", "CALL_OFFERED_NACK"} : Handles(k)
  BY DEF UponHangupReq, UponCallOfferedNack
<1>2. UNCHANGED sessionVars /\ UNCHANGED stackUp  BY DEF UponHangupReq, UponCallOfferedNack
<1>3. k \in Request /\ "MAKE_CALL_OK" \in Response  BY <1>1 DEF Request, Response
<1>4. CASE Named(Msg.handle)
  <2>1. \E c : c = iwHandlesMap[Msg.handle] /\ End(c)  BY <1>4 DEF UponHangupReq, UponCallOfferedNack, End
  <2>2. iwHandlesMap' = Without(iwHandlesMap, Msg.handle)  BY <1>4 DEF UponHangupReq, UponCallOfferedNack
  <2> QED  BY <1>1, <1>2, <1>3, <1>4, <2>1, <2>2, EndedSeen
<1>5. CASE ~Named(Msg.handle)
  <2>1. UNCHANGED ready /\ UNCHANGED <<ctx, iwHandlesMap>>  BY <1>5 DEF UponHangupReq, UponCallOfferedNack
  <2> QED  BY <1>1, <1>2, <1>3, <2>1, RefusedSeen
<1> QED  BY <1>4, <1>5

LEMMA UponReofferReqSeen ==
    ASSUME Inv, Served, UponReofferReq
    PROVE  [Calling!Next]_(Calling!cvars) /\ Served'
<1>1. TypeOK  BY DEF Inv
<1>2. /\ Handles("REOFFER_REQ") /\ "REOFFER_REQ" \in Request /\ "REOFFER_REQ" \in Asking
      /\ UNCHANGED sessionVars /\ UNCHANGED stackUp /\ UNCHANGED iwHandlesMap
      /\ "REOFFER_NACK" \in Response /\ "MAKE_CALL_OK" \in Response
  BY DEF UponReofferReq, Request, Response, Asking
<1>3. CASE Named(Msg.handle)
  <2>1. Msg = stackInbound[1] /\ 1 \in Inbound /\ stackInbound[1].kind = "REOFFER_REQ" /\ stackUp
    BY <1>1, <1>2, HandlesFacts
  <2>2. PICK c : c = iwHandlesMap[Msg.handle]  OBVIOUS
  <2>3. c \in Contexts  BY <1>2, <1>3, <2>2, HandledCall
  <2>4. PICK t : t = stackInbound[1].txn  OBVIOUS
  <2>5. t \in TxnId  BY <1>2, <2>4, HandledTxn
  <2>6. PICK r : r = [ctx[c] EXCEPT !.reofferReq = t, !.dialog = "reoffered"]  OBVIOUS
  <2>7. r \in Context /\ r.session = ctx[c].session /\ r.handle = ctx[c].handle /\ r.dialog = "reoffered"
    BY <1>1, <2>3, <2>5, <2>6, ContextFacts DEF Context, Dialog, Live
  <2>8. ctx' = [ctx EXCEPT ![c] = r]  BY <1>3, <2>1, <2>2, <2>4, <2>6 DEF UponReofferReq
  <2>9. Becomes(c, r)  BY <1>2, <2>1, <2>7, <2>8 DEF Becomes
  <2>10. ctx[c].dialog = "connected"  BY <1>3, <2>1, <2>2 DEF Inv, Offers, OfferIsAlone
  <2>11. Advances(ctx[c].dialog, r.dialog)  BY <2>7, <2>10 DEF Advances, Stage
  <2>12. Adds({}, 0, "MAKE_CALL_OK", 0, {})  BY <1>1, <1>3, AddsNothing DEF UponReofferReq
  <2> QED  BY <1>2, <2>3, <2>7, <2>9, <2>11, <2>12, StaysSeen
<1>4. CASE ~Named(Msg.handle)
  <2>1. /\ ready' = Respond(ready, Msg.session, Msg.txn, "REOFFER_NACK", 0)
        /\ UNCHANGED <<ctx, iwHandlesMap>>
    BY <1>2, <1>4 DEF UponReofferReq
  <2> QED  BY <1>2, <2>1, RefusedSeen
<1> QED  BY <1>3, <1>4

LEMMA UponCallOfferedAckSeen ==
    ASSUME Inv, Served, UponCallOfferedAck
    PROVE  [Calling!Next]_(Calling!cvars) /\ Served'
<1>1. TypeOK  BY DEF Inv
<1>2. /\ Handles("CALL_OFFERED_ACK") /\ "CALL_OFFERED_ACK" \in Request /\ "CALL_OFFERED_ACK" \in Asking
      /\ UNCHANGED sessionVars /\ UNCHANGED stackUp /\ "MAKE_CALL_OK" \in Response
  BY DEF UponCallOfferedAck, Request, Response, Asking
<1>3. CASE /\ Named(Msg.handle) /\ ~Msg.empty
           /\ LET c == iwHandlesMap[Msg.handle]
              IN  ctx' = [ctx EXCEPT ![c].makeCallAck = Msg.txn,
                                     ![c].dialog = IF @ = "early" THEN "accepted" ELSE @]
           /\ UNCHANGED <<ready, iwHandlesMap>>
  <2>1. Msg = stackInbound[1] /\ stackUp  BY <1>1, <1>2, HandlesFacts
  <2>2. PICK c : c = iwHandlesMap[Msg.handle]  OBVIOUS
  <2>3. c \in Contexts /\ ctx[c].dialog \in Live \ {"inviting"}  BY <1>2, <1>3, <2>2, HandledCall
  <2>4. PICK t, d : t = stackInbound[1].txn
                    /\ d = IF ctx[c].dialog = "early" THEN "accepted" ELSE ctx[c].dialog
    OBVIOUS
  <2>5. t \in TxnId  BY <1>2, <2>4, HandledTxn
  <2>6. d \in Live \ {"inviting", "early"}  BY <2>3, <2>4 DEF Live
  <2>7. PICK r : r = [ctx[c] EXCEPT !.makeCallAck = t, !.dialog = d]  OBVIOUS
  <2>8. r \in Context /\ r.session = ctx[c].session /\ r.handle = ctx[c].handle /\ r.dialog = d
    BY <1>1, <2>3, <2>5, <2>6, <2>7, ContextFacts DEF Context, Dialog
  <2>9. ctx' = [ctx EXCEPT ![c] = r]
    <3>1. /\ c \in DOMAIN ctx /\ DOMAIN ctx[c] = {"session", "handle", "dialog", "makeCallReq", "reofferReq",
                                                  "makeCallAck"}
      BY <1>1, <2>3, ContextFacts DEF Context
    <3>2. ctx' = [ctx EXCEPT ![c].makeCallAck = t,
                             ![c].dialog = IF @ = "early" THEN "accepted" ELSE @]
      BY <1>3, <2>1, <2>2, <2>4
    <3> QED  BY <2>4, <2>7, <3>1, <3>2
  <2>10. Becomes(c, r)  BY <1>2, <2>1, <2>8, <2>9 DEF Becomes
  <2>11. Advances(ctx[c].dialog, r.dialog)  BY <2>4, <2>6, <2>8 DEF Advances, Stage
  <2>12. Adds({}, 0, "MAKE_CALL_OK", 0, {})  BY <1>1, <1>3, AddsNothing
  <2> QED  BY <1>2, <1>3, <2>3, <2>8, <2>10, <2>11, <2>12, StaysSeen
<1>4. CASE /\ Named(Msg.handle) /\ Msg.empty
           /\ End(iwHandlesMap[Msg.handle])
           /\ iwHandlesMap' = Without(iwHandlesMap, Msg.handle)
  <2>1. PICK c : c = iwHandlesMap[Msg.handle]  OBVIOUS
  <2>2. End(c)  BY <1>4, <2>1 DEF End
  <2> QED  BY <1>2, <1>4, <2>1, <2>2, EndedSeen
<1>5. CASE ~Named(Msg.handle) /\ UNCHANGED <<ctx, ready, iwHandlesMap>>
  BY <1>2, <1>5, RefusedSeen
<1> QED  BY <1>3, <1>4, <1>5 DEF UponCallOfferedAck

LEMMA UponBlindXferReqSeen ==
    ASSUME Inv, Served, UponBlindXferReq
    PROVE  [Calling!Next]_(Calling!cvars) /\ Served'
<1>1. TypeOK  BY DEF Inv
<1>2. /\ Handles("BLIND_XFER_REQ") /\ "BLIND_XFER_REQ" \in Request
      /\ UNCHANGED sessionVars /\ UNCHANGED stackUp /\ "BLIND_XFER_NACK" \in Response
  BY DEF UponBlindXferReq, Request, Response
<1>3. CASE Named(Msg.handle) /\ ctx[iwHandlesMap[Msg.handle]].dialog \in {"connected", "reoffered"}
  <2>1. Msg = stackInbound[1] /\ stackInbound[1] \in SessionRequest /\ stackUp
    BY <1>1, <1>2, HandlesFacts
  <2>2. PICK c : c = iwHandlesMap[Msg.handle]  OBVIOUS
  <2>3. /\ c \in Contexts /\ ctx[c].handle = stackInbound[1].handle /\ ctx[c].dialog \in Live \ {"inviting"}
    BY <1>2, <1>3, <2>2, HandledCall
  <2>4. PICK r, s, t, a, z : /\ r = [ctx[c] EXCEPT !.dialog = "over"] /\ s = stackInbound[1].session
                             /\ t = stackInbound[1].txn /\ a = "BLIND_XFER_ACK" /\ z = 0
    OBVIOUS
  <2>5. s \in Session /\ a \in Response /\ z \in 0..MaxContexts /\ "over" \in Dialog
    BY <2>1, <2>4, BoundsAssumption DEF SessionRequest, Response, Dialog
  <2>6. r \in Context /\ r.session = ctx[c].session /\ r.handle = ctx[c].handle /\ r.dialog = "over"
    BY <2>3, <2>4, <2>5, MovedContext
  <2>7. /\ ctx' = [ctx EXCEPT ![c] = r] /\ iwHandlesMap' = Without(iwHandlesMap, ctx[c].handle)
        /\ ready' = NotifyHangup(Respond(ready, s, t, a, z), c)
    BY <1>3, <2>1, <2>2, <2>3, <2>4 DEF UponBlindXferReq
  <2>8. \E q : q = Respond(ready, s, t, a, z) /\ ready' = NotifyHangup(q, c)  BY <2>7
  <2>9. Adds({s}, t, a, z, {c}) /\ Hears(c)  BY <1>1, <2>3, <2>5, <2>8, AddsBoth
  <2>10. Becomes(c, r)  BY <1>2, <2>1, <2>6, <2>7 DEF Becomes
  <2>11. ctx[c].dialog \in Live \cup {"ending"} /\ r.dialog = "over"  BY <2>3, <2>6
  <2> QED  BY <2>3, <2>5, <2>6, <2>7, <2>9, <2>10, <2>11, EndSeen
<1>4. CASE ~(Named(Msg.handle) /\ ctx[iwHandlesMap[Msg.handle]].dialog \in {"connected", "reoffered"})
  <2>1. /\ ready' = Respond(ready, Msg.session, Msg.txn, "BLIND_XFER_NACK", 0)
        /\ UNCHANGED <<ctx, iwHandlesMap>>
    BY <1>4 DEF UponBlindXferReq
  <2> QED  BY <1>2, <2>1, RefusedSeen
<1> QED  BY <1>3, <1>4

LEMMA NothingDoneSeen ==
    ASSUME Inv, Served, UponMakeCallReqFails \/ UponCallConnected
    PROVE  [Calling!Next]_(Calling!cvars) /\ Served'
<1>1. UNCHANGED sessionVars /\ UNCHANGED <<ctx, iwHandlesMap>> /\ UNCHANGED stackUp
  BY DEF UponMakeCallReqFails, UponCallConnected, stackVars
<1>2. PICK k \in Request : Handles(k)  BY DEF UponMakeCallReqFails, UponCallConnected, Request
<1>3. /\ UNCHANGED ready \/ ready' = Respond(ready, Msg.session, Msg.txn, "MAKE_CALL_NACK", 0)
      /\ "MAKE_CALL_NACK" \in Response
  BY DEF UponMakeCallReqFails, UponCallConnected, Response
<1> QED  BY <1>1, <1>2, <1>3, RefusedSeen

\* The subscriptions of scripts are not calls yet.
LEMMA SubscriptionSeen ==
    ASSUME Inv, Served, UponSubscribeToIncomingReq \/ Accept \/ AcceptTimeout
    PROVE  [Calling!Next]_(Calling!cvars) /\ Served'
<1>1. /\ UNCHANGED sessionVars /\ UNCHANGED <<ctx, iwHandlesMap>> /\ UNCHANGED stackUp
      /\ UNCHANGED ready
  BY DEF UponSubscribeToIncomingReq, Accept, AcceptTimeout, stackVars
<1>2. Adds({}, 0, "MAKE_CALL_OK", 0, {}) /\ "MAKE_CALL_OK" \in Response
  BY <1>1, AddsNothing DEF Inv, Response
<1> QED  BY <1>1, <1>2, StackUnseen

LEMMA AcceptOfferedUnseen ==
    ASSUME Inv, NEW s \in Uas, AcceptOffered(s)
    PROVE  [Calling!Next]_(Calling!cvars)
<1>1. s \in Session  BY DEF Session
<1>2. op \in [Session -> Op]  BY DEF Inv, TypeOK
<1>3. UNCHANGED <<ready, told>> /\ UNCHANGED stackVars  BY DEF AcceptOffered
<1>4. \A x \in Session : (op'[x] = "deleted") <=> (op[x] = "deleted")
  BY <1>1, <1>2 DEF AcceptOffered
<1> QED  BY <1>1, <1>3, <1>4, QuietUnseen

-----------------------------------------------------------------------------
(* The steps that create a call, and the end of the stack.                 *)

\* A context is added, and all that were there stay as they are.
LEMMA AppendSeen ==
    ASSUME Inv, NEW r \in Context, ctx' = Append(ctx, r), Len(ctx) < MaxContexts,
           \A e \in Contexts : ctx[e].handle # r.handle,
           UNCHANGED <<ready, told>>
    PROVE  \A c : c = Len(ctx) + 1 /\ (\/ UNCHANGED iwHandlesMap
                                       \/ iwHandlesMap' = Without(iwHandlesMap, r.handle)
                                       \/ iwHandlesMap' = Plus(iwHandlesMap, r.handle, c)) =>
               /\ c \in CallId /\ Contexts' = Contexts \cup {c} /\ c \notin Contexts
               /\ ctx'[c] = r /\ \A e \in Contexts : ctx'[e] = ctx[e]
               /\ OwnerOf(c) = NoSession /\ OwnerOf(c)' = r.session
               /\ PhaseOf(c) = "none" /\ PhaseOf(c)' = Stage(r.dialog)
               /\ ~Known(c) /\ (Known(c)' <=> iwHandlesMap' = Plus(iwHandlesMap, r.handle, c))
               /\ \A e : IsReported(e)' <=> IsReported(e)
               /\ \A e : e # c => SameCall(e)
<1> SUFFICES ASSUME NEW c, c = Len(ctx) + 1,
                    \/ UNCHANGED iwHandlesMap
                    \/ iwHandlesMap' = Without(iwHandlesMap, r.handle)
                    \/ iwHandlesMap' = Plus(iwHandlesMap, r.handle, c)
    PROVE  /\ c \in CallId /\ Contexts' = Contexts \cup {c} /\ c \notin Contexts
           /\ ctx'[c] = r /\ \A e \in Contexts : ctx'[e] = ctx[e]
           /\ OwnerOf(c) = NoSession /\ OwnerOf(c)' = r.session
           /\ PhaseOf(c) = "none" /\ PhaseOf(c)' = Stage(r.dialog)
           /\ ~Known(c) /\ (Known(c)' <=> iwHandlesMap' = Plus(iwHandlesMap, r.handle, c))
           /\ \A e : IsReported(e)' <=> IsReported(e)
           /\ \A e : e # c => SameCall(e)
  OBVIOUS
<1>1. TypeOK  BY DEF Inv
<1>2. /\ Len(ctx) \in Nat /\ Contexts' = Contexts \cup {c} /\ c \notin Contexts
      /\ ctx'[c] = r /\ \A e \in Contexts : ctx'[e] = ctx[e]
  BY <1>1, AppendContexts
<1>3. c \in CallId  BY <1>2, BoundsAssumption DEF CallId
<1>4. OwnerOf(c) = NoSession /\ OwnerOf(c)' = r.session  BY <1>2 DEF OwnerOf
<1>5. PhaseOf(c) = "none" /\ PhaseOf(c)' = Stage(r.dialog)  BY <1>2 DEF PhaseOf, Stage
<1>6. ~Known(c)  BY <1>2 DEF Known
<1>7. \A h \in DOMAIN iwHandlesMap : iwHandlesMap[h] # c  BY <1>1, <1>2 DEF TypeOK
<1>8. Known(c)' <=> iwHandlesMap' = Plus(iwHandlesMap, r.handle, c)
  <2>1. CASE iwHandlesMap' = Plus(iwHandlesMap, r.handle, c)  BY <1>2, <2>1 DEF Known, Named, Plus
  <2>2. CASE iwHandlesMap' # Plus(iwHandlesMap, r.handle, c)
    <3>1. \A h \in DOMAIN iwHandlesMap' : iwHandlesMap'[h] # c  BY <1>7, <2>2 DEF Without
    <3> QED  BY <2>2, <3>1 DEF Known, Named
  <2> QED  BY <2>1, <2>2
<1>9. \A e : IsReported(e)' <=> IsReported(e)  BY DEF IsReported
<1>10. ASSUME NEW e, e # c PROVE SameCall(e)
  <2>1. OwnerOf(e)' = OwnerOf(e)  BY <1>2, <1>10 DEF OwnerOf
  <2>2. PhaseOf(e)' = PhaseOf(e)  BY <1>2, <1>10 DEF PhaseOf, Stage
  <2>3. Known(e)' <=> Known(e)
    <3>1. CASE e \in Contexts
      <4>1. ctx'[e].handle = ctx[e].handle /\ ctx[e].handle # r.handle  BY <1>2, <3>1
      <4>2. PICK h : h = ctx[e].handle  OBVIOUS
      <4>3. Named(h)' <=> Named(h)  BY <4>1, <4>2 DEF Named, Without, Plus
      <4>4. Named(h) => iwHandlesMap'[h] = iwHandlesMap[h]  BY <4>1, <4>2 DEF Named, Without, Plus
      <4> QED  BY <1>2, <3>1, <4>1, <4>2, <4>3, <4>4 DEF Known
    <3>2. CASE e \notin Contexts  BY <1>2, <1>10, <3>2 DEF Known
    <3> QED  BY <3>1, <3>2
  <2> QED  BY <1>9, <2>1, <2>2, <2>3 DEF SameCall
<1> QED  BY <1>2, <1>3, <1>4, <1>5, <1>6, <1>8, <1>9, <1>10

\* A call of session s begins, and s has no other that is alive.
LEMMA BegunSeen ==
    ASSUME Inv, Inv', Served, NEW r \in Context, ctx' = Append(ctx, r), Len(ctx) < MaxContexts,
           \A e \in Contexts : ctx[e].handle # r.handle,
           UNCHANGED <<ready, told>>, UNCHANGED stackUp, stackUp, SameGone, r.session \in Session,
           \/ r.dialog = "inviting" /\ UNCHANGED iwHandlesMap
           \/ r.dialog = "early" /\ \E c : c = Len(ctx) + 1 /\ iwHandlesMap' = Plus(iwHandlesMap, r.handle, c)
    PROVE  [Calling!Next]_(Calling!cvars) /\ Served'
<1>1. PICK c : /\ c = Len(ctx) + 1
               /\ \/ r.dialog = "inviting" /\ UNCHANGED iwHandlesMap
                  \/ r.dialog = "early" /\ iwHandlesMap' = Plus(iwHandlesMap, r.handle, c)
  OBVIOUS
<1>2. /\ c \in CallId /\ Contexts' = Contexts \cup {c} /\ c \notin Contexts
      /\ ctx'[c] = r /\ \A e \in Contexts : ctx'[e] = ctx[e]
      /\ OwnerOf(c)' = r.session /\ PhaseOf(c) = "none" /\ PhaseOf(c)' = Stage(r.dialog)
      /\ ~Known(c) /\ (Known(c)' <=> iwHandlesMap' = Plus(iwHandlesMap, r.handle, c))
      /\ \A e : IsReported(e)' <=> IsReported(e)
      /\ \A e : e # c => SameCall(e)
  BY <1>1, AppendSeen
<1>3. PICK s \in Session : s = r.session  OBVIOUS
<1>4. PhaseOf(c)' = "setup" /\ r.dialog \in Live  BY <1>1, <1>2 DEF Stage, Live
<1>5. ASSUME NEW d \in CallId, OwnerOf(d) = s PROVE PhaseOf(d) \notin {"setup", "up"}
  <2> SUFFICES ASSUME PhaseOf(d) \in {"setup", "up"} PROVE FALSE
    OBVIOUS
  <2>1. d \in Contexts  BY DEF PhaseOf
  <2>2. ctx[d].dialog \in Dialog  BY <2>1, ContextFacts DEF Inv, Context
  <2>3. ctx[d].dialog \in Live /\ ctx[d].session = s
    BY <1>5, <2>1, <2>2 DEF PhaseOf, Stage, Live, Dialog, OwnerOf
  <2>4. OneLiveCall'  BY DEF Inv, Calls
  <2>5. /\ d \in Contexts' /\ c \in Contexts' /\ ctx'[d].session = ctx'[c].session
        /\ ctx'[d].dialog \in Live /\ ctx'[c].dialog \in Live
    BY <1>2, <1>3, <1>4, <2>1, <2>3
  <2>6. d = c  BY <2>4, <2>5 DEF OneLiveCall
  <2> QED  BY <1>2, <2>1, <2>6
<1>6. Served'
  <2> SUFFICES ASSUME NEW e \in Contexts', ctx'[e].dialog \in {"early", "accepted"} PROVE Known(e)'
    BY DEF Served
  <2>1. CASE e = c  BY <1>1, <1>2, <2>1
  <2>2. CASE e # c
    <3>1. Known(e)  BY <1>2, <2>2 DEF Served
    <3> QED  BY <1>2, <2>2, <3>1 DEF SameCall
  <2> QED  BY <2>1, <2>2
<1>7. OneCallMoves(c)  BY <1>2 DEF OneCallMoves
<1>8. OwnerOf(c)' = s /\ (IsReported(c)' <=> IsReported(c))  BY <1>2, <1>3
<1>9. Calling!Next  BY <1>2, <1>4, <1>5, <1>7, <1>8, BeginStep
<1> QED  BY <1>6, <1>9

LEMMA UponMakeCallReqSeen ==
    ASSUME Inv, Inv', Served, UponMakeCallReq
    PROVE  [Calling!Next]_(Calling!cvars) /\ Served'
<1>1. TypeOK  BY DEF Inv
<1>2. /\ Handles("MAKE_CALL_REQ") /\ "MAKE_CALL_REQ" \in Request /\ "MAKE_CALL_REQ" \in Asking
      /\ UNCHANGED sessionVars /\ UNCHANGED ready /\ UNCHANGED iwHandlesMap /\ UNCHANGED stackUp
      /\ Len(ctx) < MaxContexts
  BY DEF UponMakeCallReq, Request, Asking
<1>3. /\ Msg = stackInbound[1] /\ 1 \in Inbound /\ stackUp
      /\ stackInbound[1].kind = "MAKE_CALL_REQ" /\ stackInbound[1] \in SessionRequest
  BY <1>1, <1>2, HandlesFacts
<1>4. PICK s, t, h : s = stackInbound[1].session /\ t = stackInbound[1].txn /\ h = callIndex + 1  OBVIOUS
<1>5. s \in Session  BY <1>3, <1>4 DEF SessionRequest
<1>6. stackInbound[1].handle = IW_UNDEFINED
  BY <1>3, <1>4, <1>5 DEF IsInvite, Inv, Calls, CallsOf
<1>7. t \in TxnId  BY <1>2, <1>4, HandledTxn
<1>8. PICK r : r = [session |-> s, dialog |-> "inviting", handle |-> h,
                    makeCallReq |-> t, reofferReq |-> 0, makeCallAck |-> 0]
  OBVIOUS
<1>9. h \in Handle /\ \A c \in Contexts : ctx[c].handle # h  BY <1>2, <1>4, FreshHandles
<1>10. r.session = s /\ r.dialog = "inviting" /\ r.handle = h  BY <1>8
<1>11. r \in Context
  <2>1. 0 \in TxnId  BY BoundsAssumption DEF TxnId
  <2> QED  BY <1>5, <1>7, <1>8, <1>9, <2>1 DEF Context, Dialog, Live
<1>12. ctx' = Append(ctx, r)
  BY <1>3, <1>4, <1>6, <1>8 DEF UponMakeCallReq, GenerateCallHandle
<1>13. UNCHANGED <<ready, told>> /\ SameGone  BY <1>2 DEF sessionVars, SameGone
<1> QED  BY <1>2, <1>3, <1>5, <1>9, <1>10, <1>11, <1>12, <1>13, BegunSeen

LEMMA OnOfferSeen ==
    ASSUME Inv, Inv', Served, NEW s \in Uas, OnOffer(s)
    PROVE  [Calling!Next]_(Calling!cvars) /\ Served'
<1>1. TypeOK  BY DEF Inv
<1>2. /\ stackUp /\ op[s] = "none" /\ Len(ctx) < MaxContexts /\ UNCHANGED <<ready, told>> /\ UNCHANGED stackUp
  BY DEF OnOffer
<1>3. PICK o \in {"offered", "lost"} : op' = [op EXCEPT ![s] = o]  BY DEF OnOffer
<1>4. s \in Session  BY DEF Session
<1>5. PICK h, d : h = resipId + 1 /\ d = Len(ctx) + 1  OBVIOUS
<1>6. PICK r : r = [session |-> s, handle |-> h, dialog |-> "early",
                    makeCallReq |-> 0, reofferReq |-> 0, makeCallAck |-> 0]
  OBVIOUS
<1>7. h \in Handle /\ \A c \in Contexts : ctx[c].handle # h  BY <1>2, <1>5, FreshHandles
<1>8. r.session = s /\ r.dialog = "early" /\ r.handle = h  BY <1>6
<1>9. r \in Context
  <2>1. 0 \in TxnId  BY BoundsAssumption DEF TxnId
  <2> QED  BY <1>4, <1>6, <1>7, <2>1 DEF Context, Dialog, Live
<1>10. ctx' = Append(ctx, r) /\ iwHandlesMap' = Plus(iwHandlesMap, h, d)
  BY <1>5, <1>6 DEF OnOffer
<1>11. SameGone
  <2>1. op \in [Session -> Op]  BY <1>1 DEF TypeOK
  <2> QED  BY <1>2, <1>3, <1>4, <2>1 DEF SameGone
<1>12. \E c : c = Len(ctx) + 1 /\ iwHandlesMap' = Plus(iwHandlesMap, r.handle, c)  BY <1>5, <1>8, <1>10
<1> QED  BY <1>2, <1>4, <1>7, <1>8, <1>9, <1>10, <1>11, <1>12, BegunSeen

LEMMA OnOfferRefusedSeen ==
    ASSUME Inv, Served, OnOfferRefused
    PROVE  [Calling!Next]_(Calling!cvars) /\ Served'
<1>1. /\ stackUp /\ Len(ctx) < MaxContexts /\ UNCHANGED <<ready, told>> /\ UNCHANGED stackUp
      /\ UNCHANGED sessionVars
  BY DEF OnOfferRefused, sessionVars
<1>2. PICK h, c : h = resipId + 1 /\ c = Len(ctx) + 1  OBVIOUS
<1>3. PICK r : r = [session |-> NoSession, handle |-> h, dialog |-> "over",
                    makeCallReq |-> 0, reofferReq |-> 0, makeCallAck |-> 0]
  OBVIOUS
<1>4. h \in Handle /\ \A e \in Contexts : ctx[e].handle # h  BY <1>1, <1>2, FreshHandles
<1>5. r.session = NoSession /\ r.dialog = "over" /\ r.handle = h  BY <1>3
<1>6. r \in Context
  <2>1. 0 \in TxnId  BY BoundsAssumption DEF TxnId
  <2> QED  BY <1>3, <1>4, <2>1 DEF Context, Dialog
<1>7. ctx' = Append(ctx, r) /\ iwHandlesMap' = Without(iwHandlesMap, r.handle)
  BY <1>2, <1>3, <1>5 DEF OnOfferRefused
<1>8. /\ c \in CallId /\ Contexts' = Contexts \cup {c} /\ c \notin Contexts
      /\ ctx'[c] = r /\ \A e \in Contexts : ctx'[e] = ctx[e]
      /\ OwnerOf(c) = NoSession /\ OwnerOf(c)' = r.session
      /\ PhaseOf(c) = "none" /\ PhaseOf(c)' = Stage(r.dialog)
      /\ ~Known(c) /\ (Known(c)' <=> iwHandlesMap' = Plus(iwHandlesMap, r.handle, c))
      /\ \A e : IsReported(e)' <=> IsReported(e)
      /\ \A e : e # c => SameCall(e)
  <2>1. \A e \in Contexts : ctx[e].handle # r.handle  BY <1>4, <1>5
  <2>2. Len(ctx) < MaxContexts /\ UNCHANGED <<ready, told>>  BY <1>1
  <2> QED  BY ONLY Inv, <1>2, <1>6, <1>7, <2>1, <2>2, AppendSeen
<1>9. ~Known(c)'
  <2>1. h \notin DOMAIN iwHandlesMap'  BY <1>5, <1>7 DEF Without
  <2> QED  BY <1>5, <1>8, <2>1 DEF Known, Named
<1>10. PhaseOf(c)' = "over" /\ OwnerOf(c)' = OwnerOf(c)  BY <1>5, <1>8 DEF Stage
<1>11. OneCallMoves(c)  BY <1>1, <1>8 DEF OneCallMoves, SameGone, sessionVars
<1>12. Served'
  <2> SUFFICES ASSUME NEW e \in Contexts', ctx'[e].dialog \in {"early", "accepted"} PROVE Known(e)'
    BY DEF Served
  <2>1. e # c  BY <1>5, <1>8
  <2>2. Known(e)  BY <1>8, <2>1 DEF Served
  <2> QED  BY <1>8, <2>1, <2>2 DEF SameCall
<1> QED  BY <1>8, <1>9, <1>10, <1>11, <1>12, RefuseStep

LEMMA ShutdownSeen ==
    ASSUME Inv, Shutdown
    PROVE  Calling!Next /\ Served'
<1>1. TypeOK  BY DEF Inv
<1>2. /\ stackUp /\ stackUp' = FALSE /\ UNCHANGED sessionVars /\ iwHandlesMap' = <<>>
      /\ \A x \in Session : op[x] = "deleted" => ready'[x] = ready[x]
  BY DEF Shutdown
<1>3. /\ Contexts' = Contexts
      /\ \A c \in Contexts :
            /\ ctx'[c].session = ctx[c].session /\ ctx[c].dialog \in Dialog
            /\ ctx'[c].dialog = IF ctx[c].dialog = "ending" THEN "ending" ELSE "over"
  BY <1>1, ShutdownContexts, ContextFacts DEF Context
<1>4. \A c : ~Known(c)'
  <2>1. DOMAIN iwHandlesMap' = {}  BY <1>2
  <2> QED  BY <2>1 DEF Known, Named
<1>5. Served'  BY <1>3 DEF Served
<1>6. ASSUME NEW c
      PROVE  /\ OwnerOf(c)' = OwnerOf(c)
             /\ PhaseOf(c)' = IF PhaseOf(c) \in {"setup", "up"} THEN "over" ELSE PhaseOf(c)
             /\ IsReported(c)' <=> IsReported(c) \/ (Known(c) /\ CanHear(c))
  <2>1. OwnerOf(c)' = OwnerOf(c)  BY <1>3 DEF OwnerOf
  <2>2. PhaseOf(c)' = IF PhaseOf(c) \in {"setup", "up"} THEN "over" ELSE PhaseOf(c)
    <3>1. CASE c \in Contexts
      <4>1. PhaseOf(c) = Stage(ctx[c].dialog) /\ PhaseOf(c)' = Stage(ctx'[c].dialog)
        BY <1>3, <3>1 DEF PhaseOf, Stage
      <4> QED  BY <1>3, <3>1, <4>1 DEF Stage, Dialog, Live
    <3>2. CASE c \notin Contexts  BY <1>3, <3>2 DEF PhaseOf
    <3> QED  BY <3>1, <3>2
  <2>3. PICK e : e = [kind |-> "HANGUP_EVT", call |-> c]  OBVIOUS
  <2>4. e.call = c /\ told' = told  BY <1>2, <2>3 DEF sessionVars
  <2>5. ASSUME IsReported(c) PROVE IsReported(c)'
    <3>1. CASE c \in told  BY <2>4, <3>1 DEF IsReported
    <3>2. ASSUME NEW x \in Session, NEW i \in Ready(x), ready[x][i] = e PROVE IsReported(c)'
      <4>1. i \in Ready(x)' /\ ready'[x][i] = e  BY <3>2, ShutdownReady
      <4> QED  BY <2>3, <4>1 DEF IsReported, Ready
    <3> QED  BY <2>3, <2>5, <3>1, <3>2 DEF IsReported, Ready
  <2>6. ASSUME Known(c), CanHear(c) PROVE IsReported(c)'
    <3>1. PICK x \in Session : c \in Contexts /\ x = ctx[c].session /\ op[x] # "deleted"
      BY <2>6 DEF CanHear, OwnerOf, Known
    <3>2. PICK h : h = ctx[c].handle  OBVIOUS
    <3>3. Named(h) /\ iwHandlesMap[h] = c  BY <2>6, <3>2 DEF Known
    <3>4. \E i \in Ready(x)' : ready'[x][i] = [kind |-> "HANGUP_EVT", call |-> iwHandlesMap[h]]
      BY <3>1, <3>3, ShutdownReady
    <3> QED  BY <3>3, <3>4 DEF IsReported, Ready
  <2>7. ASSUME IsReported(c)' PROVE IsReported(c) \/ (Known(c) /\ CanHear(c))
    <3>1. CASE c \in told'  BY <2>4, <3>1 DEF IsReported
    <3>2. ASSUME NEW x \in Session, NEW i \in Ready(x)', ready'[x][i] = e
          PROVE  IsReported(c) \/ (Known(c) /\ CanHear(c))
      <4>1. CASE i \in Ready(x)
        <5>1. ready[x][i] = e  BY <3>2, <4>1, ShutdownReady
        <5> QED  BY <2>3, <4>1, <5>1 DEF IsReported, Ready
      <4>2. CASE i \notin Ready(x)
        <5>1. PICK b \in Contexts : /\ e = [kind |-> "HANGUP_EVT", call |-> b]
                                    /\ ctx[b].session = x /\ Known(b) /\ op[x] # "deleted"
          BY <3>2, <4>2, ShutdownReady
        <5>2. b = c  BY <2>4, <5>1
        <5> QED  BY <5>1, <5>2 DEF CanHear, OwnerOf
      <4> QED  BY <4>1, <4>2
    <3> QED  BY <2>3, <2>7, <3>1, <3>2 DEF IsReported, Ready
  <2> QED  BY <2>1, <2>2, <2>5, <2>6, <2>7
<1>7. SameGone  BY <1>2 DEF SameGone, sessionVars
<1>8. Calling!Next
  <2>1. ~stackUp' /\ stackUp' \in BOOLEAN  BY <1>2
  <2> QED  BY <1>2, <1>4, <1>6, <1>7, <2>1, QuitStep
<1> QED  BY <1>5, <1>8

-----------------------------------------------------------------------------
(* All steps together.                                                     *)

LEMMA SessionNextSeen ==
    ASSUME Inv, NEW s \in Session, SessionNext(s)
    PROVE  [Calling!Next]_(Calling!cvars)
BY SessionUnseen, ResponseUnseen, TerminatedUnseen, DeleteLeaves DEF SessionNext

LEMMA RequestSeen ==
    ASSUME Inv, Inv', Served, ProcessApplicationMessages
    PROVE  [Calling!Next]_(Calling!cvars) /\ Served'
BY SubscriptionSeen, UponMakeCallReqSeen, NothingDoneSeen, UponReofferReqSeen, UponHangupReqSeen,
   UponCallOfferedAckSeen, UponBlindXferReqSeen DEF ProcessApplicationMessages

LEMMA StillServed ==
    ASSUME Served, UNCHANGED stackVars
    PROVE  Served'
<1>1. UNCHANGED <<ctx, iwHandlesMap>>  BY DEF stackVars
<1>2. \A e : Known(e)' <=> Known(e)  BY <1>1, SameContexts
<1> QED  BY <1>1, <1>2 DEF Served, Contexts

LEMMA SessionKeepsStack ==
    ASSUME NEW s \in Session, SessionNext(s)
    PROVE  UNCHANGED stackVars
BY DEF SessionNext, MakeCall, MakeCallOk, MakeCallNack, MakeCallTimeout, ReOffer, ReOfferDone, ReOfferTimeout,
       AnswerUac, AnswerUas, AnswerDone, AnswerTimeout, BlindXfer, BlindXferDone, BlindXferTimeout,
       RejectCall, HangupCall, WaitTillHangup, Delete, UponCallTerminated

LEMMA NextSeen == Inv /\ Inv' /\ Served /\ [Next]_vars => [Calling!Next]_(Calling!cvars) /\ Served'
<1> SUFFICES ASSUME Inv, Inv', Served, [Next]_vars
    PROVE  [Calling!Next]_(Calling!cvars) /\ Served'
  OBVIOUS
<1>1. CASE \E s \in Session : InPlay(s) /\ SessionNext(s)
  BY <1>1, SessionNextSeen, SessionKeepsStack, StillServed
<1>2. CASE \E s \in Uas : AcceptOffered(s)
  <2>1. UNCHANGED stackVars  BY <1>2 DEF AcceptOffered
  <2> QED  BY <1>2, <2>1, AcceptOfferedUnseen, StillServed
<1>3. CASE \E s \in Uas : OnOffer(s)  BY <1>3, OnOfferSeen
<1>4. CASE \E c \in Contexts : Callback(c)  BY <1>4, CallbackSeen
<1>5. CASE Accept \/ AcceptTimeout  BY <1>5, SubscriptionSeen
<1>6. CASE OnOfferRefused  BY <1>6, OnOfferRefusedSeen
<1>7. CASE ProcessApplicationMessages  BY <1>7, RequestSeen
<1>8. CASE Shutdown  BY <1>8, ShutdownSeen
<1>9. CASE UNCHANGED vars
  <2>1. /\ UNCHANGED <<ctx, iwHandlesMap>> /\ UNCHANGED <<ready, told>> /\ UNCHANGED stackUp /\ UNCHANGED op
        /\ UNCHANGED stackVars
    BY <1>9 DEF vars, stackVars, sessionVars
  <2>2. \A c : IsReported(c)' <=> IsReported(c)  BY <2>1 DEF IsReported
  <2>3. \A c \in CallId : SameCall(c)  BY <2>1, <2>2, SameContexts DEF SameCall
  <2>4. SameGone  BY <2>1 DEF SameGone
  <2> QED  BY <2>1, <2>3, <2>4, Unseen, StillServed
<1> QED  BY <1>1, <1>2, <1>3, <1>4, <1>5, <1>6, <1>7, <1>8, <1>9 DEF Next

LEMMA InitSeen == Init => Calling!Init /\ Served
<1> SUFFICES ASSUME Init PROVE Calling!Init /\ Served
  OBVIOUS
<1>1. Contexts = {}  BY DEF Init, Contexts
<1>2. \A c : OwnerOf(c) = NoSession /\ PhaseOf(c) = "none" /\ ~Known(c)
  BY <1>1 DEF OwnerOf, PhaseOf, Known
<1>3. \A c : ~IsReported(c)
  <2>1. told = {} /\ \A s \in Session : 1..Len(ready[s]) = {}  BY DEF Init
  <2> QED  BY <2>1 DEF IsReported
<1>4. {s \in Session : op[s] = "deleted"} = {}  BY DEF Init
<1>5. stackUp = TRUE  BY DEF Init
<1>6. Served  BY <1>1 DEF Served
<1>7. Calling!Init  BY <1>2, <1>3, <1>4, <1>5 DEF Calling!Init
<1> QED  BY <1>6, <1>7

-----------------------------------------------------------------------------
\* The session and ProcResipStack between them implement CallService: whatever requests,
\* timeouts, callbacks and the end of the stack do, a session has one call at a time,
\* the stack forgets none without the report to its owner or the request of it, and
\* nothing that is over comes back.
THEOREM Refinement == Spec => ImplementsCallService
<1>1. Inv /\ Inv' /\ Served /\ [Next]_vars => Served'  BY NextSeen
<1>2. Spec => []Inv  BY Invariance
<1>3. Init => Served  BY InitSeen
<1>4. Spec => []Served  BY <1>1, <1>2, <1>3, PTL DEF Spec
<1>5. Inv /\ Inv' /\ Served /\ [Next]_vars => [Calling!Next]_(Calling!cvars)  BY NextSeen
<1>6. Init => Calling!Init  BY InitSeen
<1>7. Spec => Calling!Init /\ [][Calling!Next]_(Calling!cvars)
  BY <1>2, <1>4, <1>5, <1>6, PTL DEF Spec
<1> QED  BY <1>7 DEF ImplementsCallService, Calling!Spec
=============================================================================

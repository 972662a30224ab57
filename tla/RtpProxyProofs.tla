--------------------------- MODULE RtpProxyProofs ---------------------------
(***************************************************************************)
(* Proofs about RtpProxy, for any number of connections, scripts, sessions *)
(* and faults: no connection is lost to the pool, one that was never       *)
(* bridged has one owner, and an acknowledged Bridge carries media.        *)
(***************************************************************************)
EXTENDS RtpProxy, SequenceTheorems, FiniteSetTheorems, WellFoundedInduction, TLAPS

Connection == [state : {AVAILABLE, ALLOCATED, INPUT, OUTPUT, FULLDUPLEX},
               source : BOOLEAN, sink : BOOLEAN,
               destination_conn : Conn \cup {NULL, DUMMY},
               fSource : Conn \cup {NULL}, reads : BOOLEAN, mocks : Nat]
Kinds == {"ALLOCATE_REQ", "MODIFY_REQ", "BRIDGE_REQ", "DEALLOCATE_REQ"}
Message == [kind : Kinds, session : Session, txn : 1..(MaxTxn + 1),
            handle : Conn \cup {IW_UNDEFINED},
            output_conn : Conn \cup {IW_UNDEFINED}, full_duplex : BOOLEAN]
Reply == [ack : BOOLEAN, session : Session, handle : Conn \cup {IW_UNDEFINED}]

Typed ==
    /\ conn \in [Conn -> Connection]
    /\ handle \in [Session -> Conn \cup {IW_UNDEFINED}]
    /\ op \in [Script -> {"none", "Allocate", "Modify", "Bridge"}]
    /\ txn \in [Script -> 0..MaxTxn]
    /\ reply \in [Script -> Seq(Reply)]
    /\ stray \in [Script -> Nat]
    /\ inbound \in Seq(Message)
    /\ up \in BOOLEAN
    /\ ~up => inbound = <<>>
    /\ faults \in 0..MaxFaults
    /\ leaked \subseteq Conn
    /\ bridged \subseteq Conn

-----------------------------------------------------------------------------
(* Transactions.  What is asked and not yet answered.                      *)

IsAskedBy(m, p) == m.kind # "DEALLOCATE_REQ" /\ m.session[1] = p
KindOf(o) == CASE o = "Allocate" -> "ALLOCATE_REQ"
               [] o = "Modify" -> "MODIFY_REQ"
               [] o = "Bridge" -> "BRIDGE_REQ"

AskedInOrder ==
    \A p \in Script :
        /\ \A i \in 1..Len(inbound) : IsAskedBy(inbound[i], p) => inbound[i].txn <= txn[p]
        /\ \A i, j \in 1..Len(inbound) :
              i < j /\ IsAskedBy(inbound[i], p) /\ IsAskedBy(inbound[j], p)
                  => inbound[i].txn < inbound[j].txn

\* The open transaction's request is of its kind, and an Allocate's session has
\* nothing yet.
AskedIsOpen ==
    \A p \in Script, i \in 1..Len(inbound) :
        IsAskedBy(inbound[i], p) /\ op[p] # "none" /\ inbound[i].txn = txn[p] =>
            /\ inbound[i].kind = KindOf(op[p])
            /\ op[p] = "Allocate" => handle[inbound[i].session] = IW_UNDEFINED

\* An answer is the answer of the open transaction, and there is no other one.
AnswerIsOpen ==
    \A p \in Script : reply[p] # <<>> =>
        /\ op[p] # "none"
        /\ \A i \in 1..Len(inbound) : IsAskedBy(inbound[i], p) => inbound[i].txn # txn[p]
        /\ reply[p][1].session[1] = p
        /\ op[p] = "Allocate" => handle[reply[p][1].session] = IW_UNDEFINED
        /\ reply[p][1].handle # IW_UNDEFINED => op[p] = "Allocate" /\ reply[p][1].ack
        /\ op[p] = "Allocate" /\ reply[p][1].ack => reply[p][1].handle # IW_UNDEFINED

Transactions == AskedInOrder /\ AskedIsOpen /\ AnswerIsOpen

-----------------------------------------------------------------------------
(* Owners.                                                                 *)

GivesBack(i, c) == inbound[i].kind = "DEALLOCATE_REQ" /\ inbound[i].handle = c
Answers(p, c) == reply[p] # <<>> /\ reply[p][1].handle = c

\* Who gives a connection back has one, and who bridges one has it still or gives
\* it back later.
NamedIsHeld ==
    \A i \in 1..Len(inbound) :
        /\ inbound[i].kind \in {"DEALLOCATE_REQ", "BRIDGE_REQ"} => inbound[i].handle \in Conn
        /\ inbound[i].kind = "BRIDGE_REQ" =>
              \A c \in Conn : c \in {inbound[i].handle, inbound[i].output_conn} =>
                  \/ Holders(c) # {}
                  \/ \E j \in 1..Len(inbound) : j > i /\ GivesBack(j, c)

PeersBridged(cs, B) ==
    \A c \in Conn : cs[c].destination_conn \in Conn => cs[c].destination_conn \in B

\* One that was never bridged is held once, or answered once, or given back once.
HeldOnce(c) ==
    /\ \A s, t \in Session : handle[s] = c /\ handle[t] = c => s = t
    /\ \A p, q \in Script : Answers(p, c) /\ Answers(q, c) => p = q
    /\ \A i, j \in 1..Len(inbound) : GivesBack(i, c) /\ GivesBack(j, c) => i = j
    /\ \A s \in Session, p \in Script : ~(handle[s] = c /\ Answers(p, c))
    /\ \A s \in Session, i \in 1..Len(inbound) : ~(handle[s] = c /\ GivesBack(i, c))
    /\ \A p \in Script, i \in 1..Len(inbound) : ~(Answers(p, c) /\ GivesBack(i, c))
Owned(c) == Holders(c) # {} \/ OnTheWay(c)

Exclusive ==
    \A c \in Conn \ bridged : HeldOnce(c) /\ (up /\ Owned(c) => conn[c].state # AVAILABLE)
Owners == NamedIsHeld /\ PeersBridged(conn, bridged) /\ Exclusive

-----------------------------------------------------------------------------
(* The connections: what unbridging and bridging do to them.               *)

\* States are left alone or cleared, and cleared only within B.
Loosens(cs, ds, B) ==
    \A c \in Conn : \/ ds[c].state = cs[c].state
                    \/ c \in B /\ ds[c].state = AVAILABLE
Conns == [Conn -> Connection]

LEMMA ConnFields ==
    /\ NULL \notin Conn /\ DUMMY \notin Conn /\ IW_UNDEFINED \notin Conn
    /\ AVAILABLE \notin {ALLOCATED, INPUT, OUTPUT, FULLDUPLEX}
    /\ {ALLOCATED \cup INPUT, INPUT \cup INPUT} = {INPUT}
    /\ \A x \in {AVAILABLE, ALLOCATED, INPUT, OUTPUT, FULLDUPLEX} :
          /\ x \cup INPUT \in {INPUT, FULLDUPLEX}
          /\ x \cup OUTPUT \in {OUTPUT, FULLDUPLEX}
<1>1. NULL \notin Conn /\ DUMMY \notin Conn /\ IW_UNDEFINED \notin Conn
  BY SizesAssumption DEF NULL, DUMMY, IW_UNDEFINED, Conn
<1>2. AVAILABLE \notin {ALLOCATED, INPUT, OUTPUT, FULLDUPLEX}
  BY DEF AVAILABLE, ALLOCATED, INPUT, OUTPUT, FULLDUPLEX
<1>3. {ALLOCATED \cup INPUT, INPUT \cup INPUT} = {INPUT}
  BY DEF ALLOCATED, INPUT
<1>4. ASSUME NEW x \in {AVAILABLE, ALLOCATED, INPUT, OUTPUT, FULLDUPLEX}
      PROVE  x \cup INPUT \in {INPUT, FULLDUPLEX} /\ x \cup OUTPUT \in {OUTPUT, FULLDUPLEX}
  BY <1>4 DEF AVAILABLE, ALLOCATED, INPUT, OUTPUT, FULLDUPLEX
<1> QED  BY <1>1, <1>2, <1>3, <1>4

\* What live555 does leaves states and peers alone.
SameOwners(cs, ds) ==
    \A c \in Conn : /\ ds[c].state = cs[c].state
                    /\ ds[c].destination_conn = cs[c].destination_conn

LEMMA StopGettingFramesEffect ==
    ASSUME NEW cs \in Conns, NEW a, NEW asleep \in BOOLEAN
    PROVE  /\ StopGettingFrames(cs, a, asleep) \in Conns
           /\ SameOwners(cs, StopGettingFrames(cs, a, asleep))
           /\ \A c \in Conn : /\ StopGettingFrames(cs, a, asleep)[c].sink = cs[c].sink
                              /\ StopGettingFrames(cs, a, asleep)[c].source = cs[c].source
                              /\ StopGettingFrames(cs, a, asleep)[c].fSource = cs[c].fSource
<1> DEFINE ds == StopGettingFrames(cs, a, asleep)
<1>1. ASSUME NEW c \in Conn
      PROVE  /\ ds[c] \in Connection
             /\ ds[c].state = cs[c].state /\ ds[c].destination_conn = cs[c].destination_conn
             /\ ds[c].sink = cs[c].sink /\ ds[c].source = cs[c].source
             /\ ds[c].fSource = cs[c].fSource
  <2>1. cs[c] \in Connection  BY DEF Conns
  <2>2. PICK x : x = (cs[c].reads /\ (cs[c].fSource # a \/ asleep))  OBVIOUS
  <2>3. x \in BOOLEAN  BY <2>2
  <2>4. PICK y \in Nat : y = IF c = a THEN 0 ELSE cs[c].mocks  BY <2>1 DEF Connection
  <2>5. ds[c] = [cs[c] EXCEPT !.reads = x, !.mocks = y]  BY <2>2, <2>4 DEF StopGettingFrames
  <2> QED  BY <2>1, <2>3, <2>5 DEF Connection
<1>2. ds = [c \in Conn |-> ds[c]]  BY DEF StopGettingFrames
<1> HIDE DEF ds
<1>3. ds \in Conns  BY <1>1, <1>2 DEF Conns
<1> QED  BY <1>1, <1>3 DEF ds, SameOwners

LEMMA StopPlayingEffect ==
    ASSUME NEW cs \in Conns, NEW b \in Conn, NEW asleep \in BOOLEAN
    PROVE  /\ StopPlaying(cs, b, asleep) \in Conns
           /\ SameOwners(cs, StopPlaying(cs, b, asleep))
           /\ \A c \in Conn : StopPlaying(cs, b, asleep)[c].sink = cs[c].sink
<1>1. PICK st : st = IF cs[b].fSource = NULL THEN cs
                     ELSE StopGettingFrames(cs, cs[b].fSource, asleep)
  OBVIOUS
<1>2. st \in Conns /\ SameOwners(cs, st) /\ \A c \in Conn : st[c].sink = cs[c].sink
  BY <1>1, StopGettingFramesEffect DEF SameOwners
<1>3. PICK ds : ds = [st EXCEPT ![b] = [st[b] EXCEPT !.fSource = NULL, !.reads = FALSE]]  OBVIOUS
<1>4. StopPlaying(cs, b, asleep) = ds
  BY <1>1, <1>2, <1>3 DEF StopPlaying, Conns
<1>5. ds \in Conns /\ \A c \in Conn : /\ ds[c].state = st[c].state
                                      /\ ds[c].destination_conn = st[c].destination_conn
                                      /\ ds[c].sink = st[c].sink
  <2>1. PICK r : r = [st[b] EXCEPT !.fSource = NULL, !.reads = FALSE]  OBVIOUS
  <2>2. st[b] \in Connection  BY <1>2 DEF Conns
  <2>3. /\ r \in Connection /\ r.state = st[b].state /\ r.sink = st[b].sink
        /\ r.destination_conn = st[b].destination_conn
    BY <2>1, <2>2 DEF Connection
  <2> QED  BY <1>2, <1>3, <2>1, <2>3 DEF Conns
<1> QED  BY <1>2, <1>4, <1>5 DEF SameOwners

LEMMA CloseEffect ==
    ASSUME NEW cs \in Conns, NEW b \in Conn, NEW asleep \in BOOLEAN
    PROVE  /\ CloseSink(cs, b, asleep) \in Conns /\ SameOwners(cs, CloseSink(cs, b, asleep))
           /\ CloseSource(cs, b) \in Conns /\ SameOwners(cs, CloseSource(cs, b))
<1>1. PICK st : st = StopPlaying(cs, b, asleep)  OBVIOUS
<1>2. st \in Conns /\ SameOwners(cs, st)  BY <1>1, StopPlayingEffect
<1>3. st[b] \in Connection /\ cs[b] \in Connection  BY <1>2 DEF Conns
<1>4. PICK r : r = [st[b] EXCEPT !.sink = FALSE]  OBVIOUS
<1>5. PICK q : q = [cs[b] EXCEPT !.source = FALSE, !.mocks = 0]  OBVIOUS
<1>6. /\ r \in Connection /\ r.state = st[b].state /\ r.destination_conn = st[b].destination_conn
      /\ q \in Connection /\ q.state = cs[b].state /\ q.destination_conn = cs[b].destination_conn
  BY <1>3, <1>4, <1>5 DEF Connection
<1>7. CloseSink(cs, b, asleep) = [st EXCEPT ![b] = r]  BY <1>1, <1>4 DEF CloseSink
<1>8. CloseSource(cs, b) = [cs EXCEPT ![b] = q]  BY <1>5 DEF CloseSource, Conns
<1>9. [st EXCEPT ![b] = r] \in Conns /\ SameOwners(cs, [st EXCEPT ![b] = r])
  BY <1>2, <1>6 DEF Conns, SameOwners
<1>10. [cs EXCEPT ![b] = q] \in Conns /\ SameOwners(cs, [cs EXCEPT ![b] = q])
  BY <1>6 DEF Conns, SameOwners
<1> QED  BY <1>7, <1>8, <1>9, <1>10

LEMMA DoUnbridgeEffect ==
    ASSUME NEW cs \in Conns, NEW B, PeersBridged(cs, B),
           NEW N, NEW src, src \in Conn => src \in N, NEW dst, dst \in Conn => dst \in N,
           NEW asleep \in BOOLEAN
    PROVE  /\ DoUnbridge(cs, src, dst, asleep) \in Conns
           /\ PeersBridged(DoUnbridge(cs, src, dst, asleep), B)
           /\ Loosens(cs, DoUnbridge(cs, src, dst, asleep), N)
<1>1. PICK st : st = StopGettingFrames(cs, src, asleep)  OBVIOUS
<1>2. st \in Conns /\ SameOwners(cs, st)  BY <1>1, StopGettingFramesEffect
<1>3. PICK first : first = IF src \in Conn /\ cs[src].source
                           THEN [st EXCEPT ![src] = [st[src] EXCEPT !.state = AVAILABLE,
                                                                    !.destination_conn = NULL]]
                           ELSE cs
  OBVIOUS
<1>4. first \in Conns /\ PeersBridged(first, B) /\ Loosens(cs, first, N)
  <2>1. CASE ~(src \in Conn /\ cs[src].source)  BY <1>3, <2>1 DEF Loosens
  <2>2. CASE src \in Conn /\ cs[src].source
    <3>1. PICK r : r = [st[src] EXCEPT !.state = AVAILABLE, !.destination_conn = NULL]  OBVIOUS
    <3>2. st[src] \in Connection  BY <1>2, <2>2 DEF Conns
    <3>3. r \in Connection /\ r.state = AVAILABLE /\ r.destination_conn = NULL
      BY <3>1, <3>2 DEF Connection
    <3>4. first = [st EXCEPT ![src] = r]  BY <1>3, <2>2, <3>1
    <3>5. first \in Conns  BY <1>2, <3>3, <3>4 DEF Conns
    <3>6. \A c \in Conn : first[c] = IF c = src THEN r ELSE st[c]  BY <1>2, <3>4 DEF Conns
    <3>7. PeersBridged(first, B)
      BY <1>2, <3>3, <3>6, ConnFields DEF PeersBridged, SameOwners
    <3>8. Loosens(cs, first, N)  BY <1>2, <2>2, <3>3, <3>6 DEF Loosens, SameOwners
    <3> QED  BY <3>5, <3>7, <3>8
  <2> QED  BY <2>1, <2>2
<1>5. PICK ds : ds = IF dst \in Conn /\ first[dst].sink
                     THEN [StopPlaying(first, dst, asleep) EXCEPT ![dst].state = AVAILABLE]
                     ELSE first
  OBVIOUS
<1>6. DoUnbridge(cs, src, dst, asleep) = ds
  <2> DEFINE fst == IF src \in Conn /\ cs[src].source
                    THEN [StopGettingFrames(cs, src, asleep) EXCEPT
                             ![src].state = AVAILABLE, ![src].destination_conn = NULL]
                    ELSE cs
  <2>1. DoUnbridge(cs, src, dst, asleep) =
           IF dst \in Conn /\ fst[dst].sink
           THEN [StopPlaying(fst, dst, asleep) EXCEPT ![dst].state = AVAILABLE] ELSE fst
    BY DEF DoUnbridge
  <2>2. [st EXCEPT ![src].state = AVAILABLE, ![src].destination_conn = NULL]
           = [st EXCEPT ![src] = [st[src] EXCEPT !.state = AVAILABLE, !.destination_conn = NULL]]
    BY <1>2 DEF Conns, Connection
  <2>3. first = fst  BY <1>1, <1>3, <2>2, Zenon
  <2> HIDE DEF fst
  <2> QED  BY <1>5, <2>1, <2>3, Zenon
<1>7. ds \in Conns /\ PeersBridged(ds, B) /\ Loosens(first, ds, N)
  <2>1. CASE ~(dst \in Conn /\ first[dst].sink)  BY <1>4, <1>5, <2>1 DEF Loosens
  <2>2. CASE dst \in Conn /\ first[dst].sink
    <3>1. PICK sp : sp = StopPlaying(first, dst, asleep)  OBVIOUS
    <3>2. sp \in Conns /\ SameOwners(first, sp)  BY <1>4, <2>2, <3>1, StopPlayingEffect
    <3>3. PICK r : r = [sp[dst] EXCEPT !.state = AVAILABLE]  OBVIOUS
    <3>4. sp[dst] \in Connection  BY <2>2, <3>2 DEF Conns
    <3>5. r \in Connection /\ r.state = AVAILABLE /\ r.destination_conn = sp[dst].destination_conn
      BY <3>3, <3>4 DEF Connection
    <3>6. ds = [sp EXCEPT ![dst] = r]  BY <1>5, <2>2, <3>1, <3>3
    <3>7. ds \in Conns  BY <3>2, <3>5, <3>6 DEF Conns
    <3>8. \A c \in Conn : ds[c] = IF c = dst THEN r ELSE sp[c]  BY <3>2, <3>6 DEF Conns
    <3>9. PeersBridged(ds, B)  BY <1>4, <3>2, <3>5, <3>8 DEF PeersBridged, SameOwners
    <3>10. Loosens(first, ds, N)  BY <2>2, <3>2, <3>5, <3>8 DEF Loosens, SameOwners
    <3> QED  BY <3>7, <3>9, <3>10
  <2> QED  BY <2>1, <2>2
<1>8. Loosens(cs, ds, N)  BY <1>4, <1>7 DEF Loosens
<1> QED  BY <1>6, <1>7, <1>8

LEMMA UnbridgeEffect ==
    ASSUME NEW cs \in Conns, NEW B, PeersBridged(cs, B), NEW c \in Conn, NEW N, B \cup {c} \subseteq N,
           NEW asleep \in BOOLEAN
    PROVE  /\ Unbridge(cs, c, asleep) \in Conns
           /\ PeersBridged(Unbridge(cs, c, asleep), B)
           /\ Loosens(cs, Unbridge(cs, c, asleep), N)
<1>1. PICK dest : dest = cs[c].destination_conn  OBVIOUS
<1>2. c \in N /\ (dest \in Conn => dest \in N)  BY <1>1 DEF PeersBridged
<1>3. PICK fw : fw = DoUnbridge(cs, c, dest, asleep)  OBVIOUS
<1>4. fw \in Conns /\ PeersBridged(fw, B) /\ Loosens(cs, fw, N)
  BY <1>2, <1>3, DoUnbridgeEffect
<1>5. CASE cs[c].state = INPUT
  <2>1. Unbridge(cs, c, asleep) = fw
    BY <1>1, <1>3, <1>5 DEF Unbridge, INPUT, OUTPUT, FULLDUPLEX
  <2> QED  BY <1>4, <2>1
<1>6. CASE cs[c].state = OUTPUT
  <2>1. Unbridge(cs, c, asleep) = DoUnbridge(cs, dest, c, asleep)
    BY <1>1, <1>6 DEF Unbridge, INPUT, OUTPUT, FULLDUPLEX
  <2> QED  BY <1>2, <2>1, DoUnbridgeEffect
<1>7. CASE cs[c].state = FULLDUPLEX
  <2>1. PICK d : d = fw[c].destination_conn  OBVIOUS
  <2>2. Unbridge(cs, c, asleep) = DoUnbridge(fw, d, c, asleep)
    BY <1>1, <1>3, <1>7, <2>1 DEF Unbridge, INPUT, OUTPUT, FULLDUPLEX
  <2>3. d \in Conn => d \in N  BY <1>4, <2>1 DEF PeersBridged
  <2>4. /\ DoUnbridge(fw, d, c, asleep) \in Conns
        /\ PeersBridged(DoUnbridge(fw, d, c, asleep), B)
        /\ Loosens(fw, DoUnbridge(fw, d, c, asleep), N)
    BY <1>2, <1>4, <2>3, DoUnbridgeEffect
  <2> QED  BY <1>4, <2>2, <2>4 DEF Loosens
<1>8. CASE cs[c].state \notin {INPUT, OUTPUT, FULLDUPLEX}
  <2>1. Unbridge(cs, c, asleep) = cs  BY <1>8 DEF Unbridge
  <2> QED  BY <2>1 DEF Loosens
<1> QED  BY <1>5, <1>6, <1>7, <1>8

\* The end of the event loop unbridges the connections one after the other, each
\* in what the ones before it have left: what one step keeps, all of them keep.
LEMMA LeastOf ==
    ASSUME NEW T, T \subseteq Nat, T # {}
    PROVE  \E i \in T : \A j \in T : i <= j
<1>1. PICK R : R = OpToRel(<, Nat)  OBVIOUS
<1>2. IsWellFoundedOn(R, Nat)  BY <1>1, NatLessThanWellFounded
<1>3. PICK i \in T : \A j \in T : <<j, i>> \notin R  BY <1>2, WFMin
<1>4. \A j \in T : ~(j < i)  BY <1>1, <1>3 DEF OpToRel
<1> QED  BY <1>3, <1>4

LEMMA CountsUp ==
    ASSUME NEW n \in Nat, NEW S, 0 \in S, \A i \in 0..n : i # n /\ i \in S => i + 1 \in S
    PROVE  0..n \subseteq S
<1> SUFFICES ASSUME NEW k \in 0..n, k \notin S PROVE FALSE  OBVIOUS
<1>1. PICK T : T = {i \in 0..n : i \notin S}  OBVIOUS
<1>2. T \subseteq Nat /\ T # {}  BY <1>1
<1>3. PICK i \in T : \A j \in T : i <= j  BY <1>2, LeastOf
<1>4. i # 0 /\ i - 1 \in 0..n  BY <1>1, <1>3
<1>5. i - 1 \in S  BY <1>1, <1>3, <1>4
<1>6. i - 1 # n /\ (i - 1) + 1 = i  BY <1>1, <1>3
<1> QED  BY <1>1, <1>3, <1>4, <1>5, <1>6

LEMMA UnbridgeAllEffect ==
    ASSUME conn \in Conns, NEW B, PeersBridged(conn, B), NEW asleep \in BOOLEAN
    PROVE  UnbridgeAll(asleep) \in Conns /\ PeersBridged(UnbridgeAll(asleep), B)
<1>1. PICK K : K = {cs \in Conns : PeersBridged(cs, B)}  OBVIOUS
<1>2. conn \in K  BY <1>1
<1>3. \A cs \in K, c \in Conn : Unbridge(cs, c, asleep) \in K
  <2> SUFFICES ASSUME NEW cs \in K, NEW c \in Conn PROVE Unbridge(cs, c, asleep) \in K
    OBVIOUS
  <2>1. PICK N : B \cup {c} \subseteq N  OBVIOUS
  <2> QED  BY <1>1, <2>1, UnbridgeEffect
<1> DEFINE Follows(g, n) == g[n] = IF n = 0 THEN conn ELSE Unbridge(g[n - 1], n, asleep)
           Step(g) == [n \in 0..NumConns |-> IF n = 0 THEN conn ELSE Unbridge(g[n - 1], n, asleep)]
<1>4. UnbridgeAll(asleep) = (CHOOSE g : g = Step(g))[NumConns]
  BY DEF UnbridgeAll
<1>5. NumConns \in Nat /\ \A n \in 0..NumConns : n # 0 => n \in Conn
  BY SizesAssumption DEF Conn
<1>6. \E g : g = Step(g)
  <2>1. PICK S : S = {n \in 0..NumConns : \E h \in [0..n -> K] : \A i \in 0..n : Follows(h, i)}
    OBVIOUS
  <2>2. 0 \in S
    <3>1. PICK h : h = [i \in 0..0 |-> conn]  OBVIOUS
    <3>2. h \in [0..0 -> K] /\ \A i \in 0..0 : Follows(h, i)  BY <1>2, <3>1
    <3> QED  BY <1>5, <2>1, <3>2
  <2>3. ASSUME NEW n \in 0..NumConns, n # NumConns, n \in S PROVE n + 1 \in S
    <3>1. PICK h \in [0..n -> K] : \A i \in 0..n : Follows(h, i)  BY <2>1, <2>3
    <3>2. PICK u : u = Unbridge(h[n], n + 1, asleep)  OBVIOUS
    <3>3. h[n] \in K /\ n + 1 \in Conn  BY <1>5, <2>3, <3>1
    <3>4. u \in K  BY <1>3, <3>2, <3>3
    <3>5. PICK k : k = [i \in 0..(n + 1) |-> IF i = n + 1 THEN u ELSE h[i]]  OBVIOUS
    <3>6. k \in [0..(n + 1) -> K]  BY <3>1, <3>4, <3>5
    <3>7. \A i \in 0..(n + 1) : Follows(k, i)  BY <3>1, <3>2, <3>5
    <3> QED  BY <1>5, <2>1, <2>3, <3>6, <3>7
  <2>4. NumConns \in S  BY <1>5, <2>2, <2>3, CountsUp
  <2>5. PICK h \in [0..NumConns -> K] : \A i \in 0..NumConns : Follows(h, i)  BY <2>1, <2>4
  <2>6. h = Step(h)  BY <2>5
  <2> QED  BY <2>6
<1>7. PICK g : g = (CHOOSE f : f = Step(f))  OBVIOUS
<1>8. g = Step(g)  BY <1>6, <1>7
<1>9. \A n \in 0..NumConns : Follows(g, n)  BY <1>8
<1>10. PICK S : S = {n \in 0..NumConns : g[n] \in K}  OBVIOUS
<1>11. 0 \in S  BY <1>2, <1>5, <1>9, <1>10
<1>12. ASSUME NEW n \in 0..NumConns, n # NumConns, n \in S PROVE n + 1 \in S
  <2>1. n + 1 \in 0..NumConns /\ n + 1 # 0 /\ (n + 1) - 1 = n  BY <1>5, <1>12
  <2>2. g[n + 1] = Unbridge(g[n], n + 1, asleep)  BY <1>9, <2>1
  <2> QED  BY <1>3, <1>5, <1>10, <1>12, <2>1, <2>2
<1>13. g[NumConns] \in K  BY <1>5, <1>10, <1>11, <1>12, CountsUp
<1> QED  BY <1>1, <1>4, <1>7, <1>13

LEMMA DoBridgeMarks ==
    ASSUME NEW cs \in Conns, NEW B, PeersBridged(cs, B), NEW a \in Conn,
           NEW b \in Conn \cup {DUMMY}, b \in Conn => b \in B, NEW ms,
           ms = InputTo(cs, a, b)
    PROVE  /\ ms \in Conns /\ PeersBridged(ms, B)
           /\ \A c \in Conn : /\ c # a => ms[c] = cs[c]
                              /\ ms[c].sink = cs[c].sink /\ ms[c].fSource = cs[c].fSource
                              /\ ms[c].reads = cs[c].reads
           /\ ms[a].state \in {INPUT, FULLDUPLEX} /\ ms[a].source
<1>1. PICK x : x = cs[a].state \cup INPUT  OBVIOUS
<1>2. cs[a] \in Connection  BY DEF Conns
<1>3. x \in {INPUT, FULLDUPLEX}
  <2>1. cs[a].state \in {AVAILABLE, ALLOCATED, INPUT, OUTPUT, FULLDUPLEX}  BY <1>2 DEF Connection
  <2> QED  BY <1>1, <2>1, ConnFields
<1>4. PICK r : r = [cs[a] EXCEPT !.source = TRUE, !.state = x, !.destination_conn = b]  OBVIOUS
<1>5. /\ r \in Connection /\ r.state = x /\ r.source = TRUE /\ r.destination_conn = b
      /\ r.sink = cs[a].sink /\ r.fSource = cs[a].fSource /\ r.reads = cs[a].reads
  BY <1>2, <1>3, <1>4 DEF Connection
<1>6. ms = [cs EXCEPT ![a] = r]  BY <1>1, <1>2, <1>4 DEF Conns, Connection, InputTo
<1>7. ms \in Conns /\ \A c \in Conn : ms[c] = IF c = a THEN r ELSE cs[c]
  BY <1>5, <1>6 DEF Conns
<1>8. PeersBridged(ms, B)  BY <1>5, <1>7 DEF PeersBridged
<1> QED  BY <1>3, <1>5, <1>7, <1>8

LEMMA DoBridgeJoins ==
    ASSUME NEW ms \in Conns, NEW B, PeersBridged(ms, B), NEW b \in Conn, NEW js,
           js = Output(ms, b)
    PROVE  /\ js \in Conns /\ PeersBridged(js, B)
           /\ \A c \in Conn : /\ c # b => js[c] = ms[c]
                              /\ js[c].source = ms[c].source /\ js[c].fSource = ms[c].fSource
                              /\ js[c].reads = ms[c].reads
<1>1. PICK x : x = ms[b].state \cup OUTPUT  OBVIOUS
<1>2. ms[b] \in Connection  BY DEF Conns
<1>3. x \in {OUTPUT, FULLDUPLEX}
  <2>1. ms[b].state \in {AVAILABLE, ALLOCATED, INPUT, OUTPUT, FULLDUPLEX}  BY <1>2 DEF Connection
  <2> QED  BY <1>1, <2>1, ConnFields
<1>4. PICK r : r = [ms[b] EXCEPT !.sink = TRUE, !.state = x]  OBVIOUS
<1>5. /\ r \in Connection /\ r.source = ms[b].source /\ r.destination_conn = ms[b].destination_conn
      /\ r.fSource = ms[b].fSource /\ r.reads = ms[b].reads
  BY <1>2, <1>3, <1>4 DEF Connection
<1>6. js = [ms EXCEPT ![b] = r]  BY <1>1, <1>2, <1>4 DEF Conns, Connection, Output
<1>7. js \in Conns /\ \A c \in Conn : js[c] = IF c = b THEN r ELSE ms[c]
  BY <1>5, <1>6 DEF Conns
<1>8. PeersBridged(js, B)  BY <1>5, <1>7 DEF PeersBridged
<1> QED  BY <1>5, <1>7, <1>8

\* Bridging changes the states of the two ends only; a sink that plays nothing
\* begins to read the source, and the other sinks go on with theirs.
LEMMA DoBridgeEffect ==
    ASSUME NEW cs \in Conns, NEW B, PeersBridged(cs, B), NEW a \in Conn, a \in B,
           NEW b \in Conn \cup {DUMMY}, b \in Conn => b \in B, NEW asleep \in BOOLEAN, NEW ds,
           ds = DoBridge(cs, a, b, asleep)
    PROVE  /\ ds \in Conns /\ PeersBridged(ds, B)
           /\ \A c \in Conn \ {a, b} : ds[c].state = cs[c].state
           /\ b = DUMMY => ds[a].state # AVAILABLE
           /\ b # DUMMY /\ ~Playing(cs, b) =>
                 /\ ds[b].fSource = a /\ ds[b].reads /\ ds[a].source
                 /\ \A c \in Conn : /\ c # b => ds[c].fSource = cs[c].fSource /\ ds[c].reads = cs[c].reads
                                    /\ cs[c].source => ds[c].source
<1>1. PICK ms : ms = InputTo(cs, a, b)  OBVIOUS
<1>2. PICK js : js = Output(ms, b)  OBVIOUS
<1>3. /\ ms \in Conns /\ PeersBridged(ms, B)
      /\ \A c \in Conn : /\ c # a => ms[c] = cs[c]
                         /\ ms[c].sink = cs[c].sink /\ ms[c].fSource = cs[c].fSource
                         /\ ms[c].reads = cs[c].reads
      /\ ms[a].state \in {INPUT, FULLDUPLEX} /\ ms[a].source
  BY <1>1, DoBridgeMarks
<1>4. ASSUME b \in Conn
      PROVE  /\ js \in Conns /\ PeersBridged(js, B)
             /\ \A c \in Conn : /\ c # b => js[c] = ms[c]
                                /\ js[c].source = ms[c].source /\ js[c].fSource = ms[c].fSource
                                /\ js[c].reads = ms[c].reads
  BY <1>2, <1>3, <1>4, DoBridgeJoins
<1>5. ds = IF b = DUMMY THEN [ms EXCEPT ![a].mocks = @ + 1]
           ELSE IF Playing(cs, b)
                THEN [CloseSink(CloseSource(js, a), b, asleep) EXCEPT ![a].destination_conn = NULL]
                ELSE [js EXCEPT ![b].fSource = a, ![b].reads = TRUE]
  BY <1>1, <1>2 DEF DoBridge
<1>6. CASE b = DUMMY
  <2>1. PICK y : y = ms[a].mocks + 1  OBVIOUS
  <2>2. PICK r : r = [ms[a] EXCEPT !.mocks = y]  OBVIOUS
  <2>3. ms[a] \in Connection  BY <1>3 DEF Conns
  <2>4. y \in Nat  BY <2>1, <2>3 DEF Connection
  <2>5. /\ r \in Connection /\ r.state = ms[a].state /\ r.destination_conn = ms[a].destination_conn
    BY <2>2, <2>3, <2>4 DEF Connection
  <2>6. ds = [ms EXCEPT ![a] = r]  BY <1>3, <1>5, <1>6, <2>1, <2>2 DEF Conns
  <2>7. ds \in Conns /\ \A c \in Conn : ds[c] = IF c = a THEN r ELSE ms[c]
    BY <1>3, <2>5, <2>6 DEF Conns
  <2>8. PeersBridged(ds, B)  BY <1>3, <2>5, <2>7 DEF PeersBridged
  <2>9. \A c \in Conn \ {a, b} : ds[c].state = cs[c].state  BY <1>3, <2>7
  <2>10. ds[a].state # AVAILABLE  BY <1>3, <2>5, <2>7, ConnFields
  <2> QED  BY <1>6, <2>7, <2>8, <2>9, <2>10
<1>7. CASE b # DUMMY /\ Playing(cs, b)
  <2>1. PICK st : st = CloseSink(CloseSource(js, a), b, asleep)  OBVIOUS
  <2>2. st \in Conns /\ SameOwners(js, st)
    <3>1. CloseSource(js, a) \in Conns /\ SameOwners(js, CloseSource(js, a))
      BY <1>4, <1>7, CloseEffect
    <3>2. PICK q : q = CloseSource(js, a)  OBVIOUS
    <3>3. CloseSink(q, b, asleep) \in Conns /\ SameOwners(q, CloseSink(q, b, asleep))
      BY <1>7, <3>1, <3>2, CloseEffect
    <3> QED  BY <2>1, <3>1, <3>2, <3>3 DEF SameOwners
  <2>3. PICK r : r = [st[a] EXCEPT !.destination_conn = NULL]  OBVIOUS
  <2>4. st[a] \in Connection  BY <2>2 DEF Conns
  <2>5. r \in Connection /\ r.state = st[a].state /\ r.destination_conn = NULL
    BY <2>3, <2>4 DEF Connection
  <2>6. ds = [st EXCEPT ![a] = r]  BY <1>5, <1>7, <2>1, <2>3
  <2>7. ds \in Conns /\ \A c \in Conn : ds[c] = IF c = a THEN r ELSE st[c]
    BY <2>2, <2>5, <2>6 DEF Conns
  <2>8. PeersBridged(ds, B)
    BY <1>4, <1>7, <2>2, <2>5, <2>7, ConnFields DEF PeersBridged, SameOwners
  <2>9. \A c \in Conn \ {a, b} : ds[c].state = cs[c].state
    BY <1>3, <1>4, <1>7, <2>2, <2>7 DEF SameOwners
  <2> QED  BY <1>7, <2>7, <2>8, <2>9
<1>8. CASE b # DUMMY /\ ~Playing(cs, b)
  <2>1. PICK r : r = [js[b] EXCEPT !.fSource = a, !.reads = TRUE]  OBVIOUS
  <2>2. b \in Conn /\ js[b] \in Connection  BY <1>4, <1>8 DEF Conns
  <2>3. /\ r \in Connection /\ r.state = js[b].state /\ r.destination_conn = js[b].destination_conn
        /\ r.source = js[b].source /\ r.fSource = a /\ r.reads = TRUE
    BY <2>1, <2>2 DEF Connection
  <2>4. ds = [js EXCEPT ![b] = r]  BY <1>5, <1>4, <1>8, <2>1, <2>2 DEF Conns
  <2>5. ds \in Conns /\ \A c \in Conn : ds[c] = IF c = b THEN r ELSE js[c]
    BY <1>4, <2>2, <2>3, <2>4 DEF Conns
  <2>6. PeersBridged(ds, B)  BY <1>4, <2>2, <2>3, <2>5 DEF PeersBridged
  <2>7. \A c \in Conn \ {a, b} : ds[c].state = cs[c].state  BY <1>3, <1>4, <2>2, <2>5
  <2>8. ds[b].fSource = a /\ ds[b].reads /\ ds[a].source  BY <1>3, <1>4, <2>2, <2>3, <2>5
  <2>9. ASSUME NEW c \in Conn
        PROVE  /\ c # b => ds[c].fSource = cs[c].fSource /\ ds[c].reads = cs[c].reads
               /\ cs[c].source => ds[c].source
    <3>1. ds[c].source = js[c].source /\ js[c].source = ms[c].source
      BY <1>4, <2>2, <2>3, <2>5
    <3>2. c # b => ds[c] = js[c]  BY <2>5
    <3> QED  BY <1>3, <1>4, <2>2, <3>1, <3>2
  <2> QED  BY <1>8, <2>5, <2>6, <2>7, <2>8, <2>9
<1> QED  BY <1>6, <1>7, <1>8

\* Bridge leaves every other connection in its state or makes it available, and
\* a Bridge that succeeds carries media.
BridgeLeaves(cs, res, B, a, b, duplex) ==
    /\ res.conns \in Conns /\ PeersBridged(res.conns, B) /\ res.ok \in BOOLEAN
    /\ \A c \in Conn \ {a, b} : \/ res.conns[c].state = cs[c].state
                                \/ c \in B /\ res.conns[c].state = AVAILABLE
    /\ res.ok => /\ res.conns[b].fSource = a /\ res.conns[b].reads /\ res.conns[a].source
                 /\ duplex => /\ res.conns[a].fSource = b /\ res.conns[a].reads
                              /\ res.conns[b].source

LEMMA BridgeEffect ==
    ASSUME NEW cs \in Conns, NEW B, PeersBridged(cs, B), NEW a \in Conn, a \in B,
           NEW b \in Conn, b \in B, NEW duplex \in BOOLEAN, NEW asleep \in BOOLEAN
    PROVE  BridgeLeaves(cs, Bridge(cs, a, b, duplex, asleep), B, a, b, duplex)
<1>18. PICK res : res = Bridge(cs, a, b, duplex, asleep)  OBVIOUS
<1>1. PICK u1 : u1 = Unbridge(cs, a, asleep)  OBVIOUS
<1>2. PICK u2 : u2 = Unbridge(u1, b, asleep)  OBVIOUS
<1>3. PICK d1 : d1 = DoBridge(u2, a, b, asleep)  OBVIOUS
<1>4. PICK d2 : d2 = DoBridge(d1, b, a, asleep)  OBVIOUS
<1>5. PICK u3 : u3 = Unbridge(d2, a, asleep)  OBVIOUS
<1>6. res = IF Playing(u2, b) THEN [conns |-> d1, ok |-> FALSE]
            ELSE IF ~duplex THEN [conns |-> d1, ok |-> TRUE]
            ELSE IF Playing(d1, a) THEN [conns |-> u3, ok |-> FALSE]
            ELSE [conns |-> d2, ok |-> TRUE]
  BY <1>1, <1>2, <1>3, <1>4, <1>5, <1>18 DEF Bridge
<1>0. B \cup {a} \subseteq B /\ B \cup {b} \subseteq B  OBVIOUS
<1>7. u1 \in Conns /\ PeersBridged(u1, B) /\ Loosens(cs, u1, B)  BY <1>0, <1>1, UnbridgeEffect
<1>8. u2 \in Conns /\ PeersBridged(u2, B) /\ Loosens(u1, u2, B)  BY <1>0, <1>2, <1>7, UnbridgeEffect
<1>9. a # DUMMY /\ b # DUMMY  BY ConnFields
<1>10. /\ d1 \in Conns /\ PeersBridged(d1, B)
       /\ \A c \in Conn \ {a, b} : d1[c].state = u2[c].state
       /\ ~Playing(u2, b) => d1[b].fSource = a /\ d1[b].reads /\ d1[a].source
  BY <1>3, <1>8, <1>9, DoBridgeEffect
<1>11. /\ d2 \in Conns /\ PeersBridged(d2, B)
       /\ \A c \in Conn \ {a, b} : d2[c].state = d1[c].state
       /\ ~Playing(d1, a) =>
             /\ d2[a].fSource = b /\ d2[a].reads /\ d2[b].source
             /\ \A c \in Conn : /\ c # a => d2[c].fSource = d1[c].fSource /\ d2[c].reads = d1[c].reads
                                /\ d1[c].source => d2[c].source
  <2>1. PICK x, y : x = b /\ y = a  OBVIOUS
  <2>2. /\ d2 \in Conns /\ PeersBridged(d2, B)
        /\ \A c \in Conn \ {x, y} : d2[c].state = d1[c].state
        /\ ~Playing(d1, y) =>
             /\ d2[y].fSource = x /\ d2[y].reads /\ d2[x].source
             /\ \A c \in Conn : /\ c # y => d2[c].fSource = d1[c].fSource /\ d2[c].reads = d1[c].reads
                                /\ d1[c].source => d2[c].source
    BY <1>4, <1>9, <1>10, <2>1, DoBridgeEffect
  <2> QED  BY <2>1, <2>2
<1>12. u3 \in Conns /\ PeersBridged(u3, B) /\ Loosens(d2, u3, B)  BY <1>0, <1>5, <1>11, UnbridgeEffect
<1>13. ASSUME NEW c \in Conn \ {a, b}
       PROVE  /\ d1[c].state = cs[c].state \/ (c \in B /\ d1[c].state = AVAILABLE)
              /\ d2[c].state = cs[c].state \/ (c \in B /\ d2[c].state = AVAILABLE)
              /\ u3[c].state = cs[c].state \/ (c \in B /\ u3[c].state = AVAILABLE)
  <2>1. u1[c].state = cs[c].state \/ (c \in B /\ u1[c].state = AVAILABLE)  BY <1>7 DEF Loosens
  <2>2. u2[c].state = u1[c].state \/ (c \in B /\ u2[c].state = AVAILABLE)  BY <1>8 DEF Loosens
  <2>3. d1[c].state = u2[c].state  BY <1>10
  <2>4. d2[c].state = d1[c].state  BY <1>11
  <2>5. u3[c].state = d2[c].state \/ (c \in B /\ u3[c].state = AVAILABLE)  BY <1>12 DEF Loosens
  <2> QED  BY <2>1, <2>2, <2>3, <2>4, <2>5
<1> SUFFICES BridgeLeaves(cs, res, B, a, b, duplex)  BY <1>18
<1>14. CASE Playing(u2, b)
  <2>1. res.conns = d1 /\ res.ok = FALSE  BY <1>6, <1>14
  <2> QED  BY <1>10, <1>13, <2>1 DEF BridgeLeaves
<1>15. CASE ~Playing(u2, b) /\ ~duplex
  <2>1. res.conns = d1 /\ res.ok = TRUE  BY <1>6, <1>15
  <2> QED  BY <1>10, <1>13, <1>15, <2>1 DEF BridgeLeaves
<1>16. CASE ~Playing(u2, b) /\ duplex /\ Playing(d1, a)
  <2>1. res.conns = u3 /\ res.ok = FALSE  BY <1>6, <1>16
  <2> QED  BY <1>12, <1>13, <2>1 DEF BridgeLeaves
<1>17. CASE ~Playing(u2, b) /\ duplex /\ ~Playing(d1, a)
  <2>1. res.conns = d2 /\ res.ok = TRUE  BY <1>6, <1>17
  <2>2. a # b
    <3> SUFFICES ASSUME a = b PROVE FALSE  OBVIOUS
    <3>1. d1[a].fSource = a  BY <1>10, <1>17
    <3> QED  BY <1>17, <3>1, ConnFields DEF Playing
  <2>3. d2[b].fSource = a /\ d2[b].reads /\ d2[a].source  BY <1>10, <1>11, <1>17, <2>2
  <2>4. d2[a].fSource = b /\ d2[a].reads /\ d2[b].source  BY <1>11, <1>17
  <2> QED  BY <1>11, <1>13, <2>1, <2>3, <2>4 DEF BridgeLeaves
<1> QED  BY <1>14, <1>15, <1>16, <1>17

\* Allocate's Bridge to a mock sink touches nothing but the new connection.
LEMMA MockEffect ==
    ASSUME NEW ts \in Conns, NEW B, PeersBridged(ts, B), NEW c \in Conn, NEW asleep \in BOOLEAN,
           NEW ds, ds = DoBridge(ts, c, DUMMY, asleep)
    PROVE  /\ ds \in Conns /\ PeersBridged(ds, B)
           /\ \A d \in Conn \ {c} : ds[d].state = ts[d].state
           /\ ds[c].state # AVAILABLE
<1>1. PICK ms : ms = InputTo(ts, c, DUMMY)  OBVIOUS
<1>2. DUMMY \in Conn \cup {DUMMY} /\ (DUMMY \in Conn => DUMMY \in B)  BY ConnFields
<1>3. /\ ms \in Conns
      /\ \A d \in Conn : d # c => ms[d] = ts[d]
      /\ ms[c].state \in {INPUT, FULLDUPLEX}
  BY <1>1, <1>2, DoBridgeMarks
<1>4. ms[c].destination_conn = DUMMY  BY <1>1 DEF InputTo, Conns, Connection
<1>5. ds = [ms EXCEPT ![c].mocks = @ + 1]  BY <1>1 DEF DoBridge
<1>6. PICK y : y = ms[c].mocks + 1  OBVIOUS
<1>7. PICK q : q = [ms[c] EXCEPT !.mocks = y]  OBVIOUS
<1>8. ms[c] \in Connection  BY <1>3 DEF Conns
<1>9. y \in Nat  BY <1>6, <1>8 DEF Connection
<1>10. q \in Connection /\ q.destination_conn = DUMMY /\ q.state = ms[c].state
  BY <1>4, <1>7, <1>8, <1>9 DEF Connection
<1>11. ds = [ms EXCEPT ![c] = q]  BY <1>3, <1>5, <1>6, <1>7 DEF Conns
<1>12. ds \in Conns /\ \A d \in Conn : ds[d] = IF d = c THEN q ELSE ms[d]
  BY <1>3, <1>10, <1>11 DEF Conns
<1>13. PeersBridged(ds, B)  BY <1>3, <1>10, <1>12, ConnFields DEF PeersBridged
<1>14. ds[c].state # AVAILABLE  BY <1>3, <1>10, <1>12, ConnFields
<1> QED  BY <1>3, <1>12, <1>13, <1>14

TakenFrom(cs, c, asleep) ==
    Bridge([cs EXCEPT ![c].state = ALLOCATED], c, DUMMY, FALSE, asleep).conns

LEMMA TakenFromEffect ==
    ASSUME NEW cs \in Conns, NEW B, PeersBridged(cs, B), NEW c \in Conn, NEW asleep \in BOOLEAN
    PROVE  /\ TakenFrom(cs, c, asleep) \in Conns /\ PeersBridged(TakenFrom(cs, c, asleep), B)
           /\ \A d \in Conn \ {c} : TakenFrom(cs, c, asleep)[d].state = cs[d].state
           /\ TakenFrom(cs, c, asleep)[c].state # AVAILABLE
<1>14. PICK ts : ts = [cs EXCEPT ![c].state = ALLOCATED]  OBVIOUS
<1>15. PICK ds : ds = TakenFrom(cs, c, asleep)  OBVIOUS
<1>1. PICK r : r = [cs[c] EXCEPT !.state = ALLOCATED]  OBVIOUS
<1>2. cs[c] \in Connection  BY DEF Conns
<1>3. r \in Connection /\ r.state = ALLOCATED /\ r.destination_conn = cs[c].destination_conn
  BY <1>1, <1>2 DEF Connection
<1>4. ts = [cs EXCEPT ![c] = r]  BY <1>1, <1>14
<1>5. ts \in Conns /\ \A d \in Conn : ts[d] = IF d = c THEN r ELSE cs[d]  BY <1>3, <1>4 DEF Conns
<1>6. PeersBridged(ts, B) /\ ts \in Conns  BY <1>3, <1>5 DEF PeersBridged
<1>7. Unbridge(ts, c, asleep) = ts
  <2>1. ALLOCATED # INPUT /\ ALLOCATED # OUTPUT /\ ALLOCATED # FULLDUPLEX
    BY DEF ALLOCATED, INPUT, OUTPUT, FULLDUPLEX
  <2>2. ts[c].state = ALLOCATED  BY <1>3, <1>5
  <2> QED  BY <2>1, <2>2 DEF Unbridge
<1>8. ds = DoBridge(ts, c, DUMMY, asleep)
  <2>1. DUMMY \notin Conn /\ ~Playing(ts, DUMMY)  BY ConnFields DEF Playing
  <2> QED  BY <1>7, <1>14, <1>15, <2>1 DEF Bridge, TakenFrom
<1>9. PICK xs, ys : xs = ts /\ ys = ds  OBVIOUS
<1>10. xs \in Conns /\ PeersBridged(xs, B) /\ ys = DoBridge(xs, c, DUMMY, asleep)
  BY <1>6, <1>8, <1>9
<1>11. /\ ys \in Conns /\ PeersBridged(ys, B)
       /\ \A d \in Conn \ {c} : ys[d].state = xs[d].state
       /\ ys[c].state # AVAILABLE
  BY <1>10, MockEffect
<1>12. \A d \in Conn \ {c} : xs[d].state = cs[d].state  BY <1>5, <1>9
<1>13. \A d \in Conn \ {c} : ys[d].state = cs[d].state  BY <1>11, <1>12
<1> QED  BY <1>9, <1>11, <1>13, <1>15, Zenon

\* Giving back: the connection is available, and with it perhaps its peers.
GivenBackTo(cs, c, asleep) ==
    LET free == Unbridge(cs, c, asleep)
        quiet == IF free[c].sink THEN CloseSink(free, c, asleep) ELSE free
    IN  [CloseSource(quiet, c) EXCEPT ![c].state = AVAILABLE]

LEMMA GivenBackToEffect ==
    ASSUME NEW cs \in Conns, NEW B, PeersBridged(cs, B), NEW c \in Conn, NEW asleep \in BOOLEAN
    PROVE  /\ GivenBackTo(cs, c, asleep) \in Conns /\ PeersBridged(GivenBackTo(cs, c, asleep), B)
           /\ Loosens(cs, GivenBackTo(cs, c, asleep), B \cup {c})
           /\ GivenBackTo(cs, c, asleep)[c].state = AVAILABLE
<1>14. PICK fs : fs = Unbridge(cs, c, asleep)  OBVIOUS
<1>15. PICK qs : qs = IF fs[c].sink THEN CloseSink(fs, c, asleep) ELSE fs  OBVIOUS
<1>16. PICK ds : ds = GivenBackTo(cs, c, asleep)  OBVIOUS
<1>1. PICK N : N = B \cup {c}  OBVIOUS
<1>2. fs \in Conns /\ PeersBridged(fs, B) /\ Loosens(cs, fs, N)  BY <1>1, <1>14, UnbridgeEffect
<1>3. qs \in Conns /\ SameOwners(fs, qs)
  <2>1. CASE fs[c].sink  BY <1>2, <1>15, <2>1, CloseEffect
  <2>2. CASE ~fs[c].sink  BY <1>2, <1>15, <2>2 DEF SameOwners
  <2> QED  BY <2>1, <2>2
<1>4. PICK rs : rs = CloseSource(qs, c)  OBVIOUS
<1>5. rs \in Conns /\ SameOwners(qs, rs)  BY <1>3, <1>4, CloseEffect
<1>6. PICK r : r = [rs[c] EXCEPT !.state = AVAILABLE]  OBVIOUS
<1>7. rs[c] \in Connection  BY <1>5 DEF Conns
<1>8. r \in Connection /\ r.state = AVAILABLE /\ r.destination_conn = rs[c].destination_conn
  BY <1>6, <1>7 DEF Connection
<1>9. ds = [rs EXCEPT ![c] = r]  BY <1>4, <1>6, <1>14, <1>15, <1>16 DEF GivenBackTo
<1>10. ds \in Conns /\ \A d \in Conn : ds[d] = IF d = c THEN r ELSE rs[d]
  BY <1>5, <1>8, <1>9 DEF Conns
<1>11. \A d \in Conn : rs[d].state = fs[d].state /\ rs[d].destination_conn = fs[d].destination_conn
  BY <1>3, <1>5 DEF SameOwners
<1>12. PeersBridged(ds, B)
  <2>1. ASSUME NEW d \in Conn PROVE ds[d].destination_conn = fs[d].destination_conn
    <3>1. ds[d].destination_conn = rs[d].destination_conn  BY <1>8, <1>10
    <3> QED  BY <1>11, <3>1
  <2>2. \A d \in Conn : fs[d].destination_conn \in Conn => fs[d].destination_conn \in B
    BY <1>2 DEF PeersBridged
  <2>3. \A d \in Conn : ds[d].destination_conn \in Conn => ds[d].destination_conn \in B
    BY <2>1, <2>2
  <2> QED  BY <2>3, Zenon DEF PeersBridged
<1>13. Loosens(cs, ds, N)  BY <1>1, <1>2, <1>8, <1>10, <1>11 DEF Loosens
<1> QED  BY <1>1, <1>8, <1>10, <1>12, <1>13, <1>16

-----------------------------------------------------------------------------
(* The inbound handle and the answers.                                     *)

LEMMA HeadFacts ==
    ASSUME Typed, inbound # <<>>
    PROVE  /\ Msg \in Message /\ Msg = inbound[1] /\ 1 \in 1..Len(inbound)
           /\ Tail(inbound) \in Seq(Message)
           /\ \A i \in 1..Len(Tail(inbound)) :
                 i + 1 \in 1..Len(inbound) /\ i + 1 > 1 /\ Tail(inbound)[i] = inbound[i + 1]
           /\ \A i \in 1..Len(inbound) : i > 1 =>
                 i - 1 \in 1..Len(Tail(inbound)) /\ Tail(inbound)[i - 1] = inbound[i]
<1>1. inbound \in Seq(Message)  BY DEF Typed
<1>2. PICK q : q = inbound  OBVIOUS
<1>3. q \in Seq(Message) /\ q # <<>>  BY <1>1, <1>2
<1>4. Len(q) \in Nat /\ Len(q) > 0  BY <1>3, EmptySeq, LenProperties
<1>5. Head(q) = q[1] /\ q[1] \in Message /\ Tail(q) \in Seq(Message)
      /\ Len(Tail(q)) = Len(q) - 1
  BY <1>3, <1>4, HeadTailProperties, ElementOfSeq
<1>6. \A i \in 1..Len(Tail(q)) : Tail(q)[i] = q[i + 1]
  BY <1>3, HeadTailProperties
<1> QED  BY <1>2, <1>4, <1>5, <1>6 DEF Msg

LEMMA AppendFacts ==
    ASSUME NEW q \in Seq(Message), NEW m \in Message
    PROVE  /\ Append(q, m) \in Seq(Message) /\ Append(q, m)[Len(q) + 1] = m
           /\ Len(q) \in Nat /\ Len(Append(q, m)) = Len(q) + 1
           /\ Len(q) + 1 \in 1..Len(Append(q, m))
           /\ \A i \in 1..Len(q) :
                 Append(q, m)[i] = q[i] /\ i \in 1..Len(Append(q, m)) /\ Len(q) + 1 > i
           /\ \A i \in 1..Len(Append(q, m)) : i # Len(q) + 1 => i \in 1..Len(q)
<1>1. Len(q) \in Nat  BY LenProperties
<1>2. Append(q, m) \in Seq(Message) /\ Len(Append(q, m)) = Len(q) + 1
      /\ Append(q, m)[Len(q) + 1] = m /\ \A i \in 1..Len(q) : Append(q, m)[i] = q[i]
  BY AppendProperties
<1> QED  BY <1>1, <1>2

\* A response is for the open transaction, which has none yet, or for nobody.
Response(m, ack, h) == <<[ack |-> ack, session |-> m.session, handle |-> h]>>
Responds(m, ack, h) ==
    /\ reply' \in [Script -> Seq(Reply)]
    /\ \A p \in Script :
          \/ reply'[p] = reply[p]
          \/ /\ p = m.session[1] /\ op[p] # "none" /\ txn[p] = m.txn
             /\ reply[p] = <<>> /\ reply'[p] = Response(m, ack, h)
    /\ Awaited(m) => reply'[m.session[1]] = Response(m, ack, h)

LEMMA ResponseFacts ==
    ASSUME NEW m \in Message, NEW ack \in BOOLEAN, NEW h \in Conn \cup {IW_UNDEFINED}
    PROVE  /\ Response(m, ack, h) \in Seq(Reply) /\ Response(m, ack, h) # <<>>
           /\ Response(m, ack, h)[1].session = m.session
           /\ Response(m, ack, h)[1].ack = ack /\ Response(m, ack, h)[1].handle = h
<1>1. m.session \in Session  BY DEF Message
<1>2. [ack |-> ack, session |-> m.session, handle |-> h] \in Reply  BY <1>1 DEF Reply
<1> QED  BY <1>2 DEF Response

LEMMA SendResponseResponds ==
    ASSUME Typed, Transactions, inbound # <<>>, NEW m, m = Msg, m.kind # "DEALLOCATE_REQ",
           NEW ack \in BOOLEAN, NEW h \in Conn \cup {IW_UNDEFINED}, SendResponse(m, ack, h)
    PROVE  Responds(m, ack, h) /\ stray' = stray
<1>1. /\ m \in Message /\ m = inbound[1] /\ 1 \in 1..Len(inbound)  BY HeadFacts
<1>2. m.session[1] \in Script  BY <1>1 DEF Message, Session
<1>3. PICK p : p = m.session[1]  OBVIOUS
<1>4. reply \in [Script -> Seq(Reply)]  BY DEF Typed
<1>5. Response(m, ack, h) \in Seq(Reply)  BY <1>1, ResponseFacts
<1>6. reply' = IF Awaited(m) THEN [reply EXCEPT ![p] = Response(m, ack, h)] ELSE reply
  BY <1>3 DEF SendResponse, Response
<1>7. Awaited(m) => op[p] # "none" /\ txn[p] = m.txn  BY <1>3 DEF Awaited
<1>8. Awaited(m) => reply[p] = <<>>
  <2>1. IsAskedBy(inbound[1], p)  BY <1>1, <1>3 DEF IsAskedBy
  <2> QED  BY <1>1, <1>2, <1>3, <1>7, <2>1 DEF Transactions, AnswerIsOpen
<1>9. reply' \in [Script -> Seq(Reply)]  BY <1>2, <1>3, <1>4, <1>5, <1>6
<1>10. \A q \in Script : reply'[q] = reply[q] \/ (Awaited(m) /\ q = p /\ reply'[q] = Response(m, ack, h))
  BY <1>4, <1>6
<1>11. Awaited(m) => reply'[p] = Response(m, ack, h)  BY <1>2, <1>3, <1>4, <1>6
<1>12. stray' = stray  BY DEF SendResponse
<1> QED  BY <1>3, <1>7, <1>8, <1>9, <1>10, <1>11, <1>12 DEF Responds

-----------------------------------------------------------------------------
(* What each message does to the connections, with the connections of      *)
(* Owners: peers are among the bridged ones.                               *)

Inv == Typed /\ Transactions /\ Owners

LEMMA ReceivedFacts ==
    ASSUME Inv, NEW kind, Received(kind)
    PROVE  /\ up /\ conn \in Conns /\ PeersBridged(conn, bridged)
           /\ inbound # <<>> /\ Msg.kind = kind /\ inbound' = Tail(inbound)
           /\ up' /\ handle' = handle /\ op' = op /\ txn' = txn
<1>1. up /\ inbound # <<>> /\ Msg.kind = kind /\ inbound' = Tail(inbound)  BY DEF Received
<1>2. handle' = handle /\ op' = op /\ txn' = txn /\ up'  BY DEF Received
<1>3. conn \in Conns /\ PeersBridged(conn, bridged)
  BY <1>1 DEF Inv, Typed, Owners, Conns
<1> QED  BY <1>1, <1>2, <1>3

LEMMA WithoutCodecsConn ==
    ASSUME Inv, Received("ALLOCATE_REQ"), NEW c \in Conn, AllocateWithoutCodecs(c)
    PROVE  /\ conn' \in Conns /\ PeersBridged(conn', bridged)
           /\ \A d \in Conn \ {c} : conn'[d].state = conn[d].state
           /\ conn'[c].state # AVAILABLE
<1>1. conn \in Conns /\ PeersBridged(conn, bridged)  BY ReceivedFacts
<1>2. PICK r : r = [conn[c] EXCEPT !.state = ALLOCATED]  OBVIOUS
<1>3. conn[c] \in Connection  BY <1>1 DEF Conns
<1>4. r \in Connection /\ r.state = ALLOCATED /\ r.destination_conn = conn[c].destination_conn
  BY <1>2, <1>3 DEF Connection
<1>5. conn' = [conn EXCEPT ![c] = r]  BY <1>2 DEF AllocateWithoutCodecs
<1>6. conn' \in Conns /\ \A d \in Conn : conn'[d] = IF d = c THEN r ELSE conn[d]
  BY <1>1, <1>4, <1>5 DEF Conns
<1>7. PeersBridged(conn', bridged)  BY <1>1, <1>4, <1>6 DEF PeersBridged
<1> QED  BY <1>4, <1>6, <1>7, ConnFields

LEMMA TakenConn ==
    ASSUME Inv, Received("ALLOCATE_REQ"), NEW c \in Conn, NEW asleep \in BOOLEAN,
           AllocateTaken(c, asleep)
    PROVE  /\ conn' \in Conns /\ PeersBridged(conn', bridged)
           /\ \A d \in Conn \ {c} : conn'[d].state = conn[d].state
           /\ conn'[c].state # AVAILABLE
<1>1. conn \in Conns /\ PeersBridged(conn, bridged)  BY ReceivedFacts
<1>2. PICK cs, B, ds : cs = conn /\ B = bridged /\ ds = conn'  OBVIOUS
<1>3. ds = TakenFrom(cs, c, asleep)  BY <1>2 DEF AllocateTaken, TakenFrom
<1>4. cs \in Conns /\ PeersBridged(cs, B)  BY <1>1, <1>2
<1>6. /\ ds \in Conns /\ PeersBridged(ds, B)
      /\ \A d \in Conn \ {c} : ds[d].state = cs[d].state
      /\ ds[c].state # AVAILABLE
  BY <1>3, <1>4, TakenFromEffect
<1> QED  BY <1>2, <1>6

LEMMA GivenBackConn ==
    ASSUME Inv, UponDeallocateReq, NEW c, c = Msg.handle
    PROVE  /\ c \in Conn /\ GivesBack(1, c)
           /\ reply' = reply /\ faults' = faults /\ bridged' = bridged /\ stray' \in [Script -> Nat]
           /\ conn' \in Conns /\ PeersBridged(conn', bridged)
           /\ Loosens(conn, conn', bridged \cup {c})
           /\ conn'[c].state = AVAILABLE
           /\ leaked' \in {leaked, leaked \ {c}}
<1>1. Received("DEALLOCATE_REQ")  BY DEF UponDeallocateReq
<1>2. /\ conn \in Conns /\ PeersBridged(conn, bridged)
      /\ inbound # <<>> /\ Msg.kind = "DEALLOCATE_REQ"
  BY <1>1, ReceivedFacts
<1>3. Msg \in Message /\ Msg = inbound[1] /\ 1 \in 1..Len(inbound)  BY <1>2, HeadFacts DEF Inv
<1>4. c \in Conn /\ GivesBack(1, c)
  <2>1. inbound[1].kind = "DEALLOCATE_REQ" /\ inbound[1].handle = c  BY <1>2, <1>3
  <2> QED  BY <1>3, <2>1 DEF Inv, Owners, NamedIsHeld, GivesBack
<1>5. reply' = reply /\ faults' = faults /\ bridged' = bridged  BY DEF UponDeallocateReq
<1>6. CASE conn[c].state = AVAILABLE
  <2>1. conn' = conn /\ leaked' = leaked /\ stray' = [stray EXCEPT ![Msg.session[1]] = @ + 1]
    BY <1>6 DEF UponDeallocateReq
  <2>2. Msg.session[1] \in Script  BY <1>3 DEF Message, Session
  <2>3. stray' \in [Script -> Nat]
    <3>1. stray \in [Script -> Nat]  BY DEF Inv, Typed
    <3> QED  BY <2>1, <2>2, <3>1
  <2>4. Loosens(conn, conn', bridged \cup {c})  BY <2>1 DEF Loosens
  <2> QED  BY <1>2, <1>4, <1>5, <1>6, <2>1, <2>3, <2>4
<1>7. CASE conn[c].state # AVAILABLE
  <2>1. PICK asleep \in BOOLEAN :
           LET free == Unbridge(conn, c, asleep)
               quiet == IF free[c].sink THEN CloseSink(free, c, asleep) ELSE free
           IN  /\ conn' = [CloseSource(quiet, c) EXCEPT ![c].state = AVAILABLE]
               /\ leaked' = leaked \ {c}
               /\ UNCHANGED stray
    BY <1>7 DEF UponDeallocateReq
  <2>2. PICK cs, B, ds : cs = conn /\ B = bridged /\ ds = conn'  OBVIOUS
  <2>3. ds = GivenBackTo(cs, c, asleep)  BY <2>1, <2>2 DEF GivenBackTo
  <2>4. cs \in Conns /\ PeersBridged(cs, B)  BY <1>2, <2>2
  <2>5. /\ ds \in Conns /\ PeersBridged(ds, B)
        /\ Loosens(cs, ds, B \cup {c}) /\ ds[c].state = AVAILABLE
    BY <1>4, <2>3, <2>4, GivenBackToEffect
  <2>6. stray' = stray /\ leaked' = leaked \ {c}  BY <2>1
  <2>7. stray' \in [Script -> Nat]  BY <2>6 DEF Inv, Typed
  <2> QED  BY <1>4, <1>5, <2>2, <2>5, <2>6, <2>7
<1> QED  BY <1>6, <1>7

LEMMA BridgedConn ==
    ASSUME Inv, Received("BRIDGE_REQ"), NEW a, a = Msg.handle, NEW b, b = Msg.output_conn,
           b # IW_UNDEFINED, NEW duplex, duplex = Msg.full_duplex, NEW asleep \in BOOLEAN,
           NEW res, res = Bridge(conn, a, b, duplex, asleep),
           conn' = res.conns, bridged' = bridged \cup {a, b}
    PROVE  /\ a \in Conn /\ b \in Conn /\ res.ok \in BOOLEAN
           /\ conn' \in Conns /\ PeersBridged(conn', bridged')
           /\ \A c \in Conn \ {a, b} : \/ conn'[c].state = conn[c].state
                                       \/ c \in bridged' /\ conn'[c].state = AVAILABLE
           /\ res.ok => /\ conn'[b].fSource = a /\ conn'[b].reads /\ conn'[a].source
                        /\ duplex => conn'[a].fSource = b /\ conn'[a].reads /\ conn'[b].source
<1>1. /\ conn \in Conns /\ PeersBridged(conn, bridged)
      /\ inbound # <<>> /\ Msg.kind = "BRIDGE_REQ"
  BY ReceivedFacts
<1>2. Msg \in Message /\ Msg = inbound[1] /\ 1 \in 1..Len(inbound)  BY <1>1, HeadFacts DEF Inv
<1>3. duplex \in BOOLEAN /\ b \in Conn  BY <1>2 DEF Message
<1>4. a \in Conn  BY <1>1, <1>2 DEF Inv, Owners, NamedIsHeld
<1>5. PICK cs, B : cs = conn /\ B = bridged'  OBVIOUS
<1>6. res = Bridge(cs, a, b, duplex, asleep)  BY <1>5
<1>7. cs \in Conns /\ PeersBridged(cs, B) /\ a \in B /\ b \in B  BY <1>1, <1>5 DEF PeersBridged
<1>8. PICK rs : rs = res  OBVIOUS
<1>9. rs = Bridge(cs, a, b, duplex, asleep)  BY <1>6, <1>8
<1>10. BridgeLeaves(cs, rs, B, a, b, duplex)
  BY <1>3, <1>4, <1>7, <1>9, BridgeEffect
<1>11. conn' = rs.conns /\ res.ok = rs.ok  BY <1>8
<1> QED  BY <1>3, <1>4, <1>5, <1>10, <1>11 DEF BridgeLeaves

-----------------------------------------------------------------------------
(* Typed. *)

LEMMA ShutdownConn ==
    ASSUME Inv, Shutdown
    PROVE  conn' \in Conns /\ PeersBridged(conn', bridged)
<1>1. conn \in Conns /\ PeersBridged(conn, bridged)  BY DEF Inv, Typed, Owners, Conns
<1>2. PICK asleep \in BOOLEAN : conn' = UnbridgeAll(asleep)  BY DEF Shutdown
<1> QED  BY <1>1, <1>2, UnbridgeAllEffect

LEMMA RequestTyped ==
    ASSUME Typed, NEW kind \in Kinds, NEW s \in Session, NEW c \in Conn \cup {IW_UNDEFINED},
           NEW d \in Conn \cup {IW_UNDEFINED}, NEW duplex \in BOOLEAN
    PROVE  /\ s[1] \in Script
           /\ Request(kind, s, c, d, duplex) \in Message
           /\ Request(kind, s, c, d, duplex).kind = kind
           /\ Request(kind, s, c, d, duplex).session = s
           /\ Request(kind, s, c, d, duplex).txn = txn[s[1]] + 1
           /\ Request(kind, s, c, d, duplex).handle = c
           /\ Request(kind, s, c, d, duplex).output_conn = d
<1>1. s[1] \in Script  BY DEF Session
<1>2. txn[s[1]] \in 0..MaxTxn  BY <1>1 DEF Typed
<1>3. txn[s[1]] + 1 \in 1..(MaxTxn + 1)  BY <1>2, SizesAssumption
<1> QED  BY <1>1, <1>3 DEF Request, Message

\* What a step leaves alone, or sends to the proxy, it leaves typed.
LEMMA ToProxyTyped ==
    ASSUME Typed, NEW m \in Message, ToProxy(m), up' = up
    PROVE  inbound' \in Seq(Message) /\ (~up' => inbound' = <<>>)
<1>1. inbound \in Seq(Message) /\ (~up => inbound = <<>>)  BY DEF Typed
<1> QED  BY <1>1, AppendFacts DEF ToProxy

LEMMA AskTyped ==
    ASSUME Typed, NEW p \in Script, NEW o \in {"Allocate", "Modify", "Bridge"},
           NEW m \in Message, Ask(p, o, m)
    PROVE  Typed'
<1>1. inbound' \in Seq(Message) /\ (~up' => inbound' = <<>>)  BY ToProxyTyped DEF Ask
<1>2. op' \in [Script -> {"none", "Allocate", "Modify", "Bridge"}]  BY DEF Ask, Typed
<1>3. txn' \in [Script -> 0..MaxTxn]
  <2>1. txn \in [Script -> 0..MaxTxn] /\ txn' = [txn EXCEPT ![p] = @ + 1] /\ txn[p] < MaxTxn
    BY DEF Ask, Typed
  <2>2. txn[p] + 1 \in 0..MaxTxn  BY <2>1, SizesAssumption
  <2> QED  BY <2>1, <2>2
<1>4. UNCHANGED <<conn, handle, reply, stray, up, faults, leaked, bridged>>  BY DEF Ask
<1> QED  BY <1>1, <1>2, <1>3, <1>4 DEF Typed

LEMMA EmptyReply == <<>> \in Seq(Reply)
OBVIOUS

LEMMA ReplyFields ==
    ASSUME Typed, NEW p \in Script, reply[p] # <<>>
    PROVE  /\ reply[p][1].session \in Session /\ reply[p][1].ack \in BOOLEAN
           /\ reply[p][1].handle \in Conn \cup {IW_UNDEFINED}
<1>1. PICK q : q = reply[p]  OBVIOUS
<1>2. q \in Seq(Reply) /\ q # <<>>  BY <1>1 DEF Typed
<1>3. q[1] \in Reply  BY <1>2, EmptySeq, LenProperties, ElementOfSeq
<1> QED  BY <1>1, <1>3 DEF Reply

\* The same for a message that is received.
LEMMA ReceivedTyped ==
    ASSUME Inv, NEW kind, Received(kind), conn' \in Conns,
           reply' \in [Script -> Seq(Reply)], stray' \in [Script -> Nat],
           faults' \in 0..MaxFaults, leaked' \subseteq Conn, bridged' \subseteq Conn
    PROVE  Typed'
<1>1. /\ inbound # <<>> /\ inbound' = Tail(inbound) /\ up'
      /\ handle' = handle /\ op' = op /\ txn' = txn
  BY ReceivedFacts
<1>2. inbound' \in Seq(Message)  BY <1>1, HeadFacts DEF Inv
<1>3. up' \in BOOLEAN  BY DEF Received, Inv, Typed
<1> QED  BY <1>1, <1>2, <1>3 DEF Inv, Typed, Conns

LEMMA TypedInit == Init => Typed
<1> SUFFICES ASSUME Init PROVE Typed  OBVIOUS
<1>1. conn \in [Conn -> Connection]
  <2>1. [state |-> AVAILABLE, source |-> FALSE, sink |-> FALSE, destination_conn |-> NULL,
         fSource |-> NULL, reads |-> FALSE, mocks |-> 0] \in Connection
    BY DEF Connection
  <2> QED  BY <2>1 DEF Init
<1>2. /\ handle \in [Session -> Conn \cup {IW_UNDEFINED}]
      /\ op \in [Script -> {"none", "Allocate", "Modify", "Bridge"}]
      /\ stray \in [Script -> Nat] /\ faults \in 0..MaxFaults /\ leaked \subseteq Conn /\ bridged \subseteq Conn
  BY SizesAssumption DEF Init
<1>3. txn \in [Script -> 0..MaxTxn]  BY SizesAssumption DEF Init
<1>4. reply \in [Script -> Seq(Reply)]  BY EmptyReply DEF Init
<1>5. inbound \in Seq(Message)  BY DEF Init
<1>6. up \in BOOLEAN /\ (~up => inbound = <<>>)  BY DEF Init
<1> QED  BY <1>1, <1>2, <1>3, <1>4, <1>5, <1>6 DEF Typed

LEMMA TypedStep ==
    ASSUME Inv, [Next]_vars
    PROVE  Typed'
<1> USE DEF Inv
<1>0. handle \in [Session -> Conn \cup {IW_UNDEFINED}]  BY DEF Typed
<1>1. ASSUME NEW s \in Session, Allocate(s) PROVE Typed'
  <2>1. PICK m : m = Request("ALLOCATE_REQ", s, IW_UNDEFINED, IW_UNDEFINED, FALSE)  OBVIOUS
  <2>2. m \in Message /\ s[1] \in Script  BY <2>1, RequestTyped DEF Kinds
  <2>3. Ask(s[1], "Allocate", m)  BY <1>1, <2>1 DEF Allocate
  <2> QED  BY <2>2, <2>3, AskTyped
<1>2. ASSUME NEW s \in Session, Modify(s) PROVE Typed'
  <2>1. PICK m : m = Request("MODIFY_REQ", s, handle[s], IW_UNDEFINED, FALSE)  OBVIOUS
  <2>2. m \in Message /\ s[1] \in Script  BY <1>0, <2>1, RequestTyped DEF Kinds
  <2>3. Ask(s[1], "Modify", m)  BY <1>2, <2>1 DEF Modify
  <2> QED  BY <2>2, <2>3, AskTyped
<1>3. ASSUME NEW s \in Session, NEW d \in Session, NEW duplex \in BOOLEAN,
             BridgeSessions(s, d, duplex)
      PROVE  Typed'
  <2>1. PICK m : m = Request("BRIDGE_REQ", s, handle[s], handle[d], duplex)  OBVIOUS
  <2>2. m \in Message /\ s[1] \in Script  BY <1>0, <2>1, RequestTyped DEF Kinds
  <2>3. Ask(s[1], "Bridge", m)  BY <1>3, <2>1 DEF BridgeSessions
  <2> QED  BY <2>2, <2>3, AskTyped
<1>4. ASSUME NEW s \in Session, TearDown(s) PROVE Typed'
  <2>1. PICK m : m = Request("DEALLOCATE_REQ", s, handle[s], IW_UNDEFINED, FALSE)  OBVIOUS
  <2>2. m \in Message  BY <1>0, <2>1, RequestTyped DEF Kinds
  <2>3. ToProxy(m) /\ up' = up  BY <1>4, <2>1 DEF TearDown
  <2>4. inbound' \in Seq(Message) /\ (~up' => inbound' = <<>>)  BY <2>2, <2>3, ToProxyTyped
  <2>5. handle' \in [Session -> Conn \cup {IW_UNDEFINED}]  BY <1>0, <1>4 DEF TearDown
  <2>6. UNCHANGED <<conn, op, txn, reply, stray, up, faults, leaked, bridged>>
    BY <1>4 DEF TearDown
  <2> QED  BY <2>4, <2>5, <2>6 DEF Typed
<1>5. ASSUME NEW p \in Script, Answered(p) PROVE Typed'
  <2>1. reply[p] # <<>>  BY <1>5 DEF Answered
  <2>2. handle' \in [Session -> Conn \cup {IW_UNDEFINED}]
    BY <1>0, <1>5, <2>1, ReplyFields DEF Answered
  <2>3. op' \in [Script -> {"none", "Allocate", "Modify", "Bridge"}]  BY <1>5 DEF Answered, Typed
  <2>4. reply' \in [Script -> Seq(Reply)]  BY <1>5, EmptyReply DEF Answered, Typed
  <2>5. UNCHANGED <<conn, txn, stray, inbound, up, faults, leaked, bridged>>
    BY <1>5 DEF Answered
  <2> QED  BY <2>2, <2>3, <2>4, <2>5 DEF Typed
<1>6. ASSUME NEW p \in Script, TimedOut(p) PROVE Typed'
  <2>1. op' \in [Script -> {"none", "Allocate", "Modify", "Bridge"}]  BY <1>6 DEF TimedOut, Typed
  <2>2. faults' \in 0..MaxFaults  BY <1>6, SizesAssumption DEF TimedOut, Typed
  <2>3. UNCHANGED <<conn, handle, txn, reply, stray, inbound, up, leaked, bridged>>
    BY <1>6 DEF TimedOut
  <2> QED  BY <2>1, <2>2, <2>3 DEF Typed
<1>7. ASSUME NEW p \in Script, Disturbed(p) PROVE Typed'
  <2>1. stray' \in [Script -> Nat]
    <3>1. stray \in [Script -> Nat] /\ stray[p] > 0 /\ stray' = [stray EXCEPT ![p] = @ - 1]
      BY <1>7 DEF Disturbed, Typed
    <3>2. stray[p] - 1 \in Nat  BY <3>1
    <3> QED  BY <3>1, <3>2
  <2>2. leaked' \subseteq Conn
    <3>1. CASE op[p] = "Allocate" /\ reply[p] # <<>> /\ reply[p][1].ack
      <4>1. reply[p][1].handle # IW_UNDEFINED  BY <3>1 DEF Transactions, AnswerIsOpen
      <4>2. reply[p][1].handle \in Conn  BY <3>1, <4>1, ReplyFields
      <4> QED  BY <1>7, <3>1, <4>2 DEF Disturbed, Typed
    <3>2. CASE ~(op[p] = "Allocate" /\ reply[p] # <<>> /\ reply[p][1].ack)
      BY <1>7, <3>2 DEF Disturbed, Typed
    <3> QED  BY <3>1, <3>2
  <2>3. op' \in [Script -> {"none", "Allocate", "Modify", "Bridge"}]  BY <1>7 DEF Disturbed, Typed
  <2>4. reply' \in [Script -> Seq(Reply)]  BY <1>7, EmptyReply DEF Disturbed, Typed
  <2>5. UNCHANGED <<conn, handle, txn, inbound, up, faults, bridged>>  BY <1>7 DEF Disturbed
  <2> QED  BY <2>1, <2>2, <2>3, <2>4, <2>5 DEF Typed
<1>8. ASSUME UponAllocateReq PROVE Typed'
  <2>1. Received("ALLOCATE_REQ")  BY <1>8 DEF UponAllocateReq
  <2>2. inbound # <<>> /\ Msg.kind # "DEALLOCATE_REQ" /\ conn \in Conns  BY <2>1, ReceivedFacts
  <2>3. PICK m : m = Msg  OBVIOUS
  <2>4. ASSUME NEW ack \in BOOLEAN, NEW h \in Conn \cup {IW_UNDEFINED}, SendResponse(m, ack, h)
        PROVE  reply' \in [Script -> Seq(Reply)] /\ stray' \in [Script -> Nat]
    BY <2>2, <2>3, <2>4, SendResponseResponds DEF Responds, Typed
  <2>5. CASE AllocateRefused
    <3>1. SendResponse(m, FALSE, IW_UNDEFINED)  BY <2>3, <2>5 DEF AllocateRefused
    <3>2. UNCHANGED <<conn, faults, leaked, bridged>>  BY <2>5 DEF AllocateRefused
    <3>3. reply' \in [Script -> Seq(Reply)] /\ stray' \in [Script -> Nat]  BY <2>4, <3>1
    <3>4. conn' \in Conns /\ faults' \in 0..MaxFaults /\ leaked' \subseteq Conn /\ bridged' \subseteq Conn
      BY <2>2, <3>2 DEF Typed
    <3> QED  BY <2>1, <3>3, <3>4, ReceivedTyped
  <2>6. ASSUME NEW c \in Conn, AllocateWithoutCodecs(c) PROVE Typed'
    <3>1. SendResponse(m, FALSE, IW_UNDEFINED)  BY <2>3, <2>6 DEF AllocateWithoutCodecs
    <3>2. reply' \in [Script -> Seq(Reply)] /\ stray' \in [Script -> Nat]  BY <2>4, <3>1
    <3>3. conn' \in Conns  BY <2>1, <2>6, WithoutCodecsConn
    <3>4. faults' \in 0..MaxFaults /\ leaked' \subseteq Conn /\ bridged' \subseteq Conn
      BY <2>6, SizesAssumption DEF AllocateWithoutCodecs, Typed
    <3> QED  BY <2>1, <3>2, <3>3, <3>4, ReceivedTyped
  <2>7. ASSUME NEW c \in Conn, NEW asleep \in BOOLEAN, AllocateTaken(c, asleep) PROVE Typed'
    <3>1. SendResponse(m, TRUE, c)  BY <2>3, <2>7 DEF AllocateTaken
    <3>2. reply' \in [Script -> Seq(Reply)] /\ stray' \in [Script -> Nat]  BY <2>4, <3>1
    <3>3. conn' \in Conns  BY <2>1, <2>7, TakenConn
    <3>4. faults' \in 0..MaxFaults /\ leaked' \subseteq Conn /\ bridged' \subseteq Conn
      BY <2>7 DEF AllocateTaken, Typed
    <3> QED  BY <2>1, <3>2, <3>3, <3>4, ReceivedTyped
  <2> QED  BY <1>8, <2>5, <2>6, <2>7 DEF UponAllocateReq
<1>9. ASSUME UponDeallocateReq PROVE Typed'
  <2>1. Received("DEALLOCATE_REQ")  BY <1>9 DEF UponDeallocateReq
  <2>2. PICK c : c = Msg.handle  OBVIOUS
  <2>3. /\ reply' = reply /\ faults' = faults /\ bridged' = bridged /\ stray' \in [Script -> Nat]
        /\ conn' \in Conns /\ leaked' \in {leaked, leaked \ {c}}
    BY <1>9, <2>2, GivenBackConn
  <2>4. /\ reply' \in [Script -> Seq(Reply)] /\ faults' \in 0..MaxFaults
        /\ leaked' \subseteq Conn /\ bridged' \subseteq Conn
    BY <2>3 DEF Typed
  <2> QED  BY <2>1, <2>3, <2>4, ReceivedTyped
<1>10. ASSUME UponModifyReq PROVE Typed'
  <2>1. Received("MODIFY_REQ")  BY <1>10 DEF UponModifyReq
  <2>2. inbound # <<>> /\ Msg.kind # "DEALLOCATE_REQ" /\ conn \in Conns  BY <2>1, ReceivedFacts
  <2>3. PICK m : m = Msg  OBVIOUS
  <2>4. SendResponse(m, TRUE, IW_UNDEFINED)  BY <1>10, <2>3 DEF UponModifyReq
  <2>5. reply' \in [Script -> Seq(Reply)] /\ stray' \in [Script -> Nat]
    BY <2>2, <2>3, <2>4, SendResponseResponds DEF Responds, Typed
  <2>6. conn' \in Conns /\ faults' \in 0..MaxFaults /\ leaked' \subseteq Conn /\ bridged' \subseteq Conn
    BY <1>10, <2>2 DEF UponModifyReq, Typed
  <2> QED  BY <2>1, <2>5, <2>6, ReceivedTyped
<1>11. ASSUME UponBridgeReq PROVE Typed'
  <2>1. Received("BRIDGE_REQ") /\ faults' = faults /\ leaked' = leaked  BY <1>11 DEF UponBridgeReq
  <2>2. inbound # <<>> /\ Msg.kind # "DEALLOCATE_REQ" /\ conn \in Conns  BY <2>1, ReceivedFacts
  <2>3. PICK m, a, b, duplex : m = Msg /\ a = Msg.handle /\ b = Msg.output_conn
                               /\ duplex = Msg.full_duplex
    OBVIOUS
  <2>4. ASSUME NEW ack \in BOOLEAN, SendResponse(m, ack, IW_UNDEFINED)
        PROVE  reply' \in [Script -> Seq(Reply)] /\ stray' \in [Script -> Nat]
    BY <2>2, <2>3, <2>4, SendResponseResponds DEF Responds, Typed
  <2>5. faults' \in 0..MaxFaults /\ leaked' \subseteq Conn  BY <2>1 DEF Typed
  <2>6. CASE SendResponse(Msg, FALSE, IW_UNDEFINED) /\ UNCHANGED <<conn, bridged>>
    <3>1. SendResponse(m, FALSE, IW_UNDEFINED)  BY <2>3, <2>6
    <3>2. reply' \in [Script -> Seq(Reply)] /\ stray' \in [Script -> Nat]  BY <2>4, <3>1
    <3>3. conn' \in Conns /\ bridged' \subseteq Conn  BY <2>2, <2>6 DEF Typed
    <3> QED  BY <2>1, <2>5, <3>2, <3>3, ReceivedTyped
  <2>7. ASSUME NEW asleep \in BOOLEAN, b # IW_UNDEFINED, bridged' = bridged \cup {a, b},
               NEW res, res = Bridge(conn, a, b, duplex, asleep),
               conn' = res.conns, SendResponse(m, res.ok, IW_UNDEFINED)
        PROVE  Typed'
    <3>1. a \in Conn /\ b \in Conn /\ res.ok \in BOOLEAN /\ conn' \in Conns
      BY <2>1, <2>3, <2>7, BridgedConn
    <3>2. reply' \in [Script -> Seq(Reply)] /\ stray' \in [Script -> Nat]  BY <2>4, <2>7, <3>1
    <3>3. bridged' \subseteq Conn  BY <2>7, <3>1 DEF Typed
    <3> QED  BY <2>1, <2>5, <3>1, <3>2, <3>3, ReceivedTyped
  <2> QED  BY <1>11, <2>3, <2>6, <2>7 DEF UponBridgeReq
<1>12. ASSUME Shutdown PROVE Typed'
  <2>1. /\ up' = FALSE /\ inbound' = <<>>
        /\ UNCHANGED <<handle, op, txn, reply, stray, faults, leaked, bridged>>
    BY <1>12 DEF Shutdown
  <2>2. inbound' \in Seq(Message)  BY <2>1
  <2>3. conn' \in Conns  BY <1>12, ShutdownConn
  <2> QED  BY <2>1, <2>2, <2>3 DEF Typed, Conns
<1>13. ASSUME UNCHANGED vars PROVE Typed'  BY <1>13 DEF vars, Typed
<1> QED  BY <1>1, <1>2, <1>3, <1>4, <1>5, <1>6, <1>7, <1>8, <1>9, <1>10, <1>11, <1>12, <1>13 DEF Next

-----------------------------------------------------------------------------
(* Transactions. *)

LEMMA SentFacts ==
    ASSUME Typed, NEW m \in Message, ToProxy(m)
    PROVE  /\ \A i \in 1..Len(inbound') :
                 \/ i \in 1..Len(inbound) /\ inbound'[i] = inbound[i]
                 \/ i = Len(inbound) + 1 /\ inbound'[i] = m /\ up
           /\ \A i \in 1..Len(inbound) :
                 i \in 1..Len(inbound') /\ inbound'[i] = inbound[i] /\ i < Len(inbound) + 1
           /\ Len(inbound) \in Nat
           /\ up => Len(inbound) + 1 \in 1..Len(inbound') /\ inbound'[Len(inbound) + 1] = m
<1>1. PICK q, r : q = inbound /\ r = inbound'  OBVIOUS
<1>2. q \in Seq(Message) /\ r = IF up THEN Append(q, m) ELSE q  BY <1>1 DEF Typed, ToProxy
<1>3. Len(q) \in Nat  BY <1>2, LenProperties
<1>4. CASE up  BY <1>1, <1>2, <1>4, AppendFacts
<1>5. CASE ~up  BY <1>1, <1>2, <1>3, <1>5
<1> QED  BY <1>4, <1>5

\* A message handled, with the answer given, if it asked for one.
Handled(m, ack, h) ==
    /\ inbound # <<>> /\ m = Msg /\ inbound' = Tail(inbound)
    /\ handle' = handle /\ op' = op /\ txn' = txn
    /\ \/ m.kind = "DEALLOCATE_REQ" /\ reply' = reply
       \/ /\ m.kind # "DEALLOCATE_REQ" /\ Responds(m, ack, h)
          /\ h # IW_UNDEFINED => m.kind = "ALLOCATE_REQ" /\ ack
          /\ m.kind = "ALLOCATE_REQ" /\ ack => h # IW_UNDEFINED

LEMMA AskTransactions ==
    ASSUME Inv, NEW s \in Session, NEW o \in {"Allocate", "Modify", "Bridge"},
           NEW m \in Message, m.kind = KindOf(o), m.session = s, m.txn = txn[s[1]] + 1,
           o = "Allocate" => handle[s] = IW_UNDEFINED, Ask(s[1], o, m)
    PROVE  Transactions'
<1> USE DEF Inv
<1>1. PICK p : p = s[1]  OBVIOUS
<1>2. p \in Script  BY <1>1 DEF Session
<1>3. /\ op[p] = "none" /\ ToProxy(m)
      /\ txn' = [txn EXCEPT ![p] = @ + 1] /\ op' = [op EXCEPT ![p] = o]
      /\ handle' = handle /\ reply' = reply
  BY <1>1 DEF Ask
<1>4. txn \in [Script -> 0..MaxTxn] /\ op \in [Script -> {"none", "Allocate", "Modify", "Bridge"}]
  BY DEF Typed
<1>5. /\ txn'[p] = txn[p] + 1 /\ op'[p] = o
      /\ \A q \in Script : q # p => txn'[q] = txn[q] /\ op'[q] = op[q]
      /\ txn[p] \in Nat
  BY <1>2, <1>3, <1>4, SizesAssumption
<1>6. m.txn = txn'[p]  BY <1>1, <1>5
<1>7. /\ \A i \in 1..Len(inbound') :
            \/ i \in 1..Len(inbound) /\ inbound'[i] = inbound[i]
            \/ i = Len(inbound) + 1 /\ inbound'[i] = m
      /\ \A i \in 1..Len(inbound) : i < Len(inbound) + 1
      /\ Len(inbound) \in Nat
  BY <1>3, SentFacts
<1>8. \A q \in Script : IsAskedBy(m, q) => q = p  BY <1>1 DEF IsAskedBy
<1>9. \A q \in Script, i \in 1..Len(inbound) : IsAskedBy(inbound[i], q) =>
         inbound[i].txn <= txn[q] /\ inbound[i].txn \in Nat
  <2>1. inbound \in Seq(Message)  BY DEF Typed
  <2>2. ASSUME NEW i \in 1..Len(inbound) PROVE inbound[i].txn \in Nat
    <3>1. inbound[i] \in Message  BY <2>1, ElementOfSeq
    <3> QED  BY <3>1 DEF Message
  <2> QED  BY <2>2 DEF Transactions, AskedInOrder
<1>10. AskedInOrder'
  <2>1. ASSUME NEW q \in Script, NEW i \in 1..Len(inbound'), IsAskedBy(inbound'[i], q)
        PROVE  inbound'[i].txn <= txn'[q]
    <3>1. CASE i \in 1..Len(inbound) /\ inbound'[i] = inbound[i]
      <4>1. inbound[i].txn <= txn[q] /\ inbound[i].txn \in Nat  BY <1>9, <2>1, <3>1
      <4>2. txn[q] \in Nat /\ (txn'[q] = txn[q] \/ txn'[q] = txn[q] + 1)
        BY <1>4, <1>5, SizesAssumption
      <4> QED  BY <3>1, <4>1, <4>2
    <3>2. CASE inbound'[i] = m
      <4>1. q = p  BY <1>8, <2>1, <3>2
      <4> QED  BY <1>5, <1>6, <3>2, <4>1
    <3> QED  BY <1>7, <3>1, <3>2
  <2>2. ASSUME NEW q \in Script, NEW i \in 1..Len(inbound'), NEW j \in 1..Len(inbound'),
               i < j, IsAskedBy(inbound'[i], q), IsAskedBy(inbound'[j], q)
        PROVE  inbound'[i].txn < inbound'[j].txn
    <3>1. i \in 1..Len(inbound) /\ inbound'[i] = inbound[i]
      <4> SUFFICES ASSUME i = Len(inbound) + 1 PROVE FALSE  BY <1>7
      <4>1. j \in 1..Len(inbound) \/ j = Len(inbound) + 1  BY <1>7
      <4> QED  BY <1>7, <2>2, <4>1
    <3>2. CASE j \in 1..Len(inbound) /\ inbound'[j] = inbound[j]
      BY <2>2, <3>1, <3>2 DEF Transactions, AskedInOrder
    <3>3. CASE inbound'[j] = m
      <4>1. q = p  BY <1>8, <2>2, <3>3
      <4>2. inbound[i].txn <= txn[p] /\ inbound[i].txn \in Nat  BY <1>9, <2>2, <3>1, <4>1
      <4>3. m.txn = txn[p] + 1 /\ txn[p] \in Nat  BY <1>5, <1>6
      <4>4. inbound[i].txn < m.txn  BY <4>2, <4>3
      <4> QED  BY <3>1, <3>3, <4>4
    <3> QED  BY <1>7, <3>2, <3>3
  <2> QED  BY <2>1, <2>2 DEF AskedInOrder
<1>11. AskedIsOpen'
  <2>1. ASSUME NEW q \in Script, NEW i \in 1..Len(inbound'), IsAskedBy(inbound'[i], q),
               op'[q] # "none", inbound'[i].txn = txn'[q]
        PROVE  /\ inbound'[i].kind = KindOf(op'[q])
               /\ op'[q] = "Allocate" => handle'[inbound'[i].session] = IW_UNDEFINED
    <3>1. CASE i \in 1..Len(inbound) /\ inbound'[i] = inbound[i]
      <4>1. inbound[i].txn <= txn[q] /\ inbound[i].txn \in Nat  BY <1>9, <2>1, <3>1
      <4>2. q # p  BY <1>5, <2>1, <3>1, <4>1
      <4>3. op'[q] = op[q] /\ txn'[q] = txn[q]  BY <1>5, <4>2
      <4> QED  BY <1>3, <2>1, <3>1, <4>3 DEF Transactions, AskedIsOpen
    <3>2. CASE inbound'[i] = m
      <4>1. q = p  BY <1>8, <2>1, <3>2
      <4> QED  BY <1>3, <1>5, <3>2, <4>1
    <3> QED  BY <1>7, <3>1, <3>2
  <2> QED  BY <2>1 DEF AskedIsOpen
<1>12. AnswerIsOpen'
  <2>1. ASSUME NEW q \in Script, reply'[q] # <<>>
        PROVE  q # p /\ reply[q] # <<>> /\ op'[q] = op[q] /\ txn'[q] = txn[q]
    <3>1. reply[q] # <<>>  BY <1>3, <2>1
    <3>2. op[q] # "none"  BY <3>1 DEF Transactions, AnswerIsOpen
    <3> QED  BY <1>3, <1>5, <3>1, <3>2
  <2>2. ASSUME NEW q \in Script, reply'[q] # <<>>, NEW i \in 1..Len(inbound'),
               IsAskedBy(inbound'[i], q)
        PROVE  inbound'[i].txn # txn'[q]
    <3>1. q # p /\ reply[q] # <<>> /\ txn'[q] = txn[q]  BY <2>1, <2>2
    <3>2. inbound'[i] # m  BY <1>8, <2>2, <3>1
    <3>3. i \in 1..Len(inbound) /\ inbound'[i] = inbound[i]  BY <1>7, <3>2
    <3> QED  BY <2>2, <3>1, <3>3 DEF Transactions, AnswerIsOpen
  <2>3. ASSUME NEW q \in Script, reply'[q] # <<>>
        PROVE  /\ op'[q] # "none"
               /\ reply'[q][1].session[1] = q
               /\ op'[q] = "Allocate" => handle'[reply'[q][1].session] = IW_UNDEFINED
               /\ reply'[q][1].handle # IW_UNDEFINED => op'[q] = "Allocate" /\ reply'[q][1].ack
               /\ op'[q] = "Allocate" /\ reply'[q][1].ack => reply'[q][1].handle # IW_UNDEFINED
    <3>1. reply[q] # <<>> /\ op'[q] = op[q]  BY <2>1, <2>3
    <3> QED  BY <1>3, <3>1 DEF Transactions, AnswerIsOpen
  <2> QED  BY <2>2, <2>3 DEF AnswerIsOpen
<1> QED  BY <1>10, <1>11, <1>12 DEF Transactions

\* A transaction that ends takes its answer with it.
LEMMA EndTransactions ==
    ASSUME Inv, NEW p \in Script, op' = [op EXCEPT ![p] = "none"], reply'[p] = <<>>,
           \A q \in Script \ {p} : reply'[q] = reply[q],
           txn' = txn, inbound' = inbound,
           \A s \in Session : s[1] # p => handle'[s] = handle[s]
    PROVE  Transactions'
<1> USE DEF Inv
<1>1. op'[p] = "none" /\ \A q \in Script : q # p => op'[q] = op[q]  BY DEF Typed
<1>2. AskedInOrder'  BY DEF Transactions, AskedInOrder
<1>3. AskedIsOpen'
  <2>1. ASSUME NEW q \in Script, NEW i \in 1..Len(inbound), IsAskedBy(inbound[i], q),
               op'[q] # "none", inbound[i].txn = txn[q]
        PROVE  /\ inbound[i].kind = KindOf(op'[q])
               /\ op'[q] = "Allocate" => handle'[inbound[i].session] = IW_UNDEFINED
    <3>1. q # p /\ op'[q] = op[q]  BY <1>1, <2>1
    <3>2. inbound[i].session[1] # p  BY <2>1, <3>1 DEF IsAskedBy
    <3>3. inbound[i].session \in Session
      <4>1. inbound[i] \in Message  BY ElementOfSeq DEF Typed
      <4> QED  BY <4>1 DEF Message
    <3>4. handle'[inbound[i].session] = handle[inbound[i].session]  BY <3>2, <3>3
    <3> QED  BY <2>1, <3>1, <3>4 DEF Transactions, AskedIsOpen
  <2> QED  BY <2>1 DEF AskedIsOpen
<1>4. AnswerIsOpen'
  <2>1. ASSUME NEW q \in Script, reply'[q] # <<>>
        PROVE  /\ op'[q] # "none"
               /\ \A i \in 1..Len(inbound) : IsAskedBy(inbound[i], q) => inbound[i].txn # txn[q]
               /\ reply'[q][1].session[1] = q
               /\ op'[q] = "Allocate" => handle'[reply'[q][1].session] = IW_UNDEFINED
               /\ reply'[q][1].handle # IW_UNDEFINED => op'[q] = "Allocate" /\ reply'[q][1].ack
               /\ op'[q] = "Allocate" /\ reply'[q][1].ack => reply'[q][1].handle # IW_UNDEFINED
    <3>1. q # p /\ op'[q] = op[q] /\ reply'[q] = reply[q] /\ reply[q] # <<>>  BY <1>1, <2>1
    <3>2. reply[q][1].session[1] # p  BY <3>1 DEF Transactions, AnswerIsOpen
    <3>3. handle'[reply[q][1].session] = handle[reply[q][1].session]  BY <3>1, <3>2, ReplyFields
    <3> QED  BY <3>1, <3>3 DEF Transactions, AnswerIsOpen
  <2> QED  BY <2>1 DEF AnswerIsOpen
<1> QED  BY <1>2, <1>3, <1>4 DEF Transactions

LEMMA HandledTransactions ==
    ASSUME Inv, NEW m, NEW ack \in BOOLEAN, NEW h \in Conn \cup {IW_UNDEFINED}, Handled(m, ack, h)
    PROVE  Transactions'
<1> USE DEF Inv
<1>1. /\ inbound # <<>> /\ m = Msg /\ inbound' = Tail(inbound)
      /\ handle' = handle /\ op' = op /\ txn' = txn
  BY DEF Handled
<1>2. /\ m \in Message /\ m = inbound[1] /\ 1 \in 1..Len(inbound)
      /\ \A i \in 1..Len(inbound') :
            i + 1 \in 1..Len(inbound) /\ i + 1 > 1 /\ inbound'[i] = inbound[i + 1]
  BY <1>1, HeadFacts
<1>3. AskedInOrder'
  <2>1. ASSUME NEW q \in Script, NEW i \in 1..Len(inbound'), IsAskedBy(inbound'[i], q)
        PROVE  inbound'[i].txn <= txn'[q]
    BY <1>1, <1>2, <2>1 DEF Transactions, AskedInOrder
  <2>2. ASSUME NEW q \in Script, NEW i \in 1..Len(inbound'), NEW j \in 1..Len(inbound'),
               i < j, IsAskedBy(inbound'[i], q), IsAskedBy(inbound'[j], q)
        PROVE  inbound'[i].txn < inbound'[j].txn
    <3>1. i + 1 < j + 1  BY <2>2
    <3> QED  BY <1>2, <2>2, <3>1 DEF Transactions, AskedInOrder
  <2> QED  BY <2>1, <2>2 DEF AskedInOrder
<1>4. AskedIsOpen'  BY <1>1, <1>2 DEF Transactions, AskedIsOpen
<1>5. ASSUME NEW q \in Script, reply'[q] # <<>>, reply'[q] = reply[q]
      PROVE  /\ op[q] # "none"
             /\ \A i \in 1..Len(inbound') : IsAskedBy(inbound'[i], q) => inbound'[i].txn # txn[q]
             /\ reply'[q][1].session[1] = q
             /\ op[q] = "Allocate" => handle[reply'[q][1].session] = IW_UNDEFINED
             /\ reply'[q][1].handle # IW_UNDEFINED => op[q] = "Allocate" /\ reply'[q][1].ack
             /\ op[q] = "Allocate" /\ reply'[q][1].ack => reply'[q][1].handle # IW_UNDEFINED
  BY <1>2, <1>5 DEF Transactions, AnswerIsOpen
<1>6. ASSUME NEW q \in Script, reply'[q] # reply[q]
      PROVE  /\ op[q] # "none"
             /\ \A i \in 1..Len(inbound') : IsAskedBy(inbound'[i], q) => inbound'[i].txn # txn[q]
             /\ reply'[q][1].session[1] = q
             /\ op[q] = "Allocate" => handle[reply'[q][1].session] = IW_UNDEFINED
             /\ reply'[q][1].handle # IW_UNDEFINED => op[q] = "Allocate" /\ reply'[q][1].ack
             /\ op[q] = "Allocate" /\ reply'[q][1].ack => reply'[q][1].handle # IW_UNDEFINED
  <2>1. /\ m.kind # "DEALLOCATE_REQ" /\ Responds(m, ack, h)
        /\ h # IW_UNDEFINED => m.kind = "ALLOCATE_REQ" /\ ack
        /\ m.kind = "ALLOCATE_REQ" /\ ack => h # IW_UNDEFINED
    BY <1>6 DEF Handled
  <2>2. /\ q = m.session[1] /\ op[q] # "none" /\ txn[q] = m.txn
        /\ reply'[q] = Response(m, ack, h)
    BY <1>6, <2>1 DEF Responds
  <2>3. /\ reply'[q][1].session = m.session /\ reply'[q][1].ack = ack /\ reply'[q][1].handle = h
    BY <1>2, <2>2, ResponseFacts
  <2>4. IsAskedBy(inbound[1], q)  BY <1>2, <2>1, <2>2 DEF IsAskedBy
  <2>5. m.kind = KindOf(op[q]) /\ (op[q] = "Allocate" => handle[m.session] = IW_UNDEFINED)
    BY <1>2, <2>2, <2>4 DEF Transactions, AskedIsOpen
  <2>6. m.kind = "ALLOCATE_REQ" <=> op[q] = "Allocate"
    <3>1. op[q] \in {"Allocate", "Modify", "Bridge"}  BY <2>2 DEF Typed
    <3> QED  BY <2>5, <3>1 DEF KindOf
  <2>7. ASSUME NEW i \in 1..Len(inbound'), IsAskedBy(inbound'[i], q)
        PROVE  inbound'[i].txn # txn[q]
    <3>1. i + 1 \in 1..Len(inbound) /\ 1 < i + 1 /\ inbound'[i] = inbound[i + 1]  BY <1>2
    <3>2. inbound[1].txn < inbound[i + 1].txn
      BY <1>2, <2>4, <2>7, <3>1 DEF Transactions, AskedInOrder
    <3>3. inbound[1].txn \in Nat  BY <1>2 DEF Message
    <3> QED  BY <1>2, <2>2, <3>1, <3>2, <3>3
  <2> QED  BY <2>1, <2>2, <2>3, <2>5, <2>6, <2>7
<1>7. AnswerIsOpen'  BY <1>1, <1>5, <1>6 DEF AnswerIsOpen
<1> QED  BY <1>3, <1>4, <1>7 DEF Transactions

LEMMA RespondsHandled ==
    ASSUME Inv, NEW kind, Received(kind), kind # "DEALLOCATE_REQ", NEW m, m = Msg,
           NEW ack \in BOOLEAN, NEW h \in Conn \cup {IW_UNDEFINED}, SendResponse(m, ack, h),
           h # IW_UNDEFINED => kind = "ALLOCATE_REQ" /\ ack,
           kind = "ALLOCATE_REQ" /\ ack => h # IW_UNDEFINED
    PROVE  Handled(m, ack, h)
<1>1. /\ inbound # <<>> /\ Msg.kind = kind /\ inbound' = Tail(inbound)
      /\ handle' = handle /\ op' = op /\ txn' = txn
  BY ReceivedFacts
<1>2. Responds(m, ack, h)  BY <1>1, SendResponseResponds DEF Inv
<1> QED  BY <1>1, <1>2 DEF Handled

LEMMA GivenBackHandled ==
    ASSUME Inv, UponDeallocateReq, NEW m, m = Msg
    PROVE  Handled(m, FALSE, IW_UNDEFINED)
<1>1. Received("DEALLOCATE_REQ") /\ reply' = reply  BY DEF UponDeallocateReq
<1>2. /\ inbound # <<>> /\ Msg.kind = "DEALLOCATE_REQ" /\ inbound' = Tail(inbound)
      /\ handle' = handle /\ op' = op /\ txn' = txn
  BY <1>1, ReceivedFacts
<1> QED  BY <1>1, <1>2 DEF Handled

-----------------------------------------------------------------------------
(* Owners, and the connections nobody owns.                                *)

LEMMA OwnedIs ==
    ASSUME NEW c
    PROVE  Owned(c) <=> \/ \E s \in Session : handle[s] = c
                        \/ \E i \in 1..Len(inbound) : GivesBack(i, c)
                        \/ \E p \in Script : Answers(p, c)
BY DEF Owned, Holders, OnTheWay, GivesBack, Answers

LEMMA OwnedIsNext ==
    ASSUME NEW c
    PROVE  Owned(c)' <=> \/ \E s \in Session : handle'[s] = c
                         \/ \E i \in 1..Len(inbound') : GivesBack(i, c)'
                         \/ \E p \in Script : Answers(p, c)'
BY DEF Owned, Holders, OnTheWay, GivesBack, Answers

\* A step that adds no owner of a connection leaves it held once.
LEMMA FewerOwners ==
    ASSUME NEW c, HeldOnce(c), NEW k \in Nat,
           \A s \in Session : handle'[s] = c => handle[s] = c,
           \A p \in Script : Answers(p, c)' => Answers(p, c),
           \A i \in 1..Len(inbound') :
              GivesBack(i, c)' => i + k \in 1..Len(inbound) /\ GivesBack(i + k, c)
    PROVE  HeldOnce(c)'
<1>1. \A s, u \in Session : handle'[s] = c /\ handle'[u] = c => s = u  BY DEF HeldOnce
<1>2. \A p, q \in Script : Answers(p, c)' /\ Answers(q, c)' => p = q  BY DEF HeldOnce
<1>3. ASSUME NEW i \in 1..Len(inbound'), NEW j \in 1..Len(inbound'),
             GivesBack(i, c)', GivesBack(j, c)'
      PROVE  i = j
  <2>1. /\ i + k \in 1..Len(inbound) /\ GivesBack(i + k, c)
        /\ j + k \in 1..Len(inbound) /\ GivesBack(j + k, c)
    BY <1>3
  <2>2. i + k = j + k  BY <2>1 DEF HeldOnce
  <2> QED  BY <2>2
<1>4. \A s \in Session, p \in Script : ~(handle'[s] = c /\ Answers(p, c)')  BY DEF HeldOnce
<1>5. \A s \in Session, i \in 1..Len(inbound') : ~(handle'[s] = c /\ GivesBack(i, c)')
  BY DEF HeldOnce
<1>6. \A p \in Script, i \in 1..Len(inbound') : ~(Answers(p, c)' /\ GivesBack(i, c)')
  BY DEF HeldOnce
<1> QED  BY <1>1, <1>2, <1>3, <1>4, <1>5, <1>6 DEF HeldOnce

\* What handling a message does to the owners of a connection, other than the
\* one an Allocate answers with.
LEMMA HandledOwners ==
    ASSUME Inv, NEW m, NEW ack \in BOOLEAN, NEW h \in Conn \cup {IW_UNDEFINED}, Handled(m, ack, h),
           NEW c \in Conn
    PROVE  /\ \A i \in 1..Len(inbound') :
                 GivesBack(i, c)' => i + 1 \in 1..Len(inbound) /\ i + 1 > 1 /\ GivesBack(i + 1, c)
           /\ \A p \in Script : Answers(p, c)' => \/ Answers(p, c)
                                                  \/ c = h /\ p = m.session[1]
           /\ \A p \in Script : Answers(p, c) => Answers(p, c)'
           /\ Owned(c) /\ ~(m.kind = "DEALLOCATE_REQ" /\ m.handle = c) => Owned(c)'
<1> USE DEF Inv
<1>1. /\ inbound # <<>> /\ m = Msg /\ inbound' = Tail(inbound) /\ handle' = handle
  BY DEF Handled
<1>2. /\ m \in Message /\ m = inbound[1] /\ 1 \in 1..Len(inbound)
      /\ \A i \in 1..Len(inbound') :
            i + 1 \in 1..Len(inbound) /\ i + 1 > 1 /\ inbound'[i] = inbound[i + 1]
      /\ \A i \in 1..Len(inbound) : i > 1 =>
            i - 1 \in 1..Len(inbound') /\ inbound'[i - 1] = inbound[i]
  BY <1>1, HeadFacts
<1>3. \A i \in 1..Len(inbound') :
         GivesBack(i, c)' => i + 1 \in 1..Len(inbound) /\ i + 1 > 1 /\ GivesBack(i + 1, c)
  BY <1>2 DEF GivesBack
<1>4. \A p \in Script :
         \/ reply'[p] = reply[p]
         \/ reply[p] = <<>> /\ p = m.session[1] /\ reply'[p] = Response(m, ack, h)
  BY DEF Handled, Responds
<1>5. \A p \in Script : Answers(p, c)' => Answers(p, c) \/ (c = h /\ p = m.session[1])
  BY <1>2, <1>4, ResponseFacts DEF Answers
<1>6. \A p \in Script : Answers(p, c) => Answers(p, c)'  BY <1>4 DEF Answers
<1>7. ASSUME Owned(c), ~(m.kind = "DEALLOCATE_REQ" /\ m.handle = c) PROVE Owned(c)'
  <2>1. CASE \E s \in Session : handle[s] = c  BY <1>1, <2>1, OwnedIsNext
  <2>2. CASE \E p \in Script : Answers(p, c)  BY <1>6, <2>2, OwnedIsNext
  <2>3. ASSUME NEW i \in 1..Len(inbound), GivesBack(i, c) PROVE Owned(c)'
    <3>1. i # 1  BY <1>2, <1>7, <2>3 DEF GivesBack
    <3>2. i > 1  BY <3>1
    <3>3. PICK j : j = i - 1  OBVIOUS
    <3>4. j \in 1..Len(inbound') /\ inbound'[j] = inbound[i]  BY <1>2, <3>2, <3>3
    <3>5. GivesBack(j, c)'  BY <2>3, <3>4 DEF GivesBack
    <3> QED  BY <3>4, <3>5, OwnedIsNext
  <2> QED  BY <1>7, <2>1, <2>2, <2>3, OwnedIs
<1> QED  BY <1>3, <1>5, <1>6, <1>7

LEMMA HandledFewer ==
    ASSUME Inv, NEW m, NEW ack \in BOOLEAN, NEW h \in Conn \cup {IW_UNDEFINED}, Handled(m, ack, h),
           NEW c \in Conn
    PROVE  c # h /\ HeldOnce(c) => HeldOnce(c)' /\ (Owned(c)' => Owned(c))
<1>1. \A i \in 1..Len(inbound') :
         GivesBack(i, c)' => i + 1 \in 1..Len(inbound) /\ i + 1 > 1 /\ GivesBack(i + 1, c)
  BY HandledOwners
<1>2. \A p \in Script : Answers(p, c)' => \/ Answers(p, c)
                                          \/ c = h /\ p = m.session[1]
  BY HandledOwners
<1>3. \A s \in Session : handle'[s] = c => handle[s] = c  BY DEF Handled
<1>4. ASSUME c # h, HeldOnce(c) PROVE HeldOnce(c)' /\ (Owned(c)' => Owned(c))
  <2>1. \A p \in Script : Answers(p, c)' => Answers(p, c)  BY <1>2, <1>4
  <2>2. HeldOnce(c)'  BY <1>1, <1>3, <1>4, <2>1, FewerOwners
  <2>3. Owned(c)' => Owned(c)  BY <1>1, <1>3, <2>1, OwnedIs, OwnedIsNext
  <2> QED  BY <2>2, <2>3
<1> QED  BY <1>4

LEMMA HandledNamed ==
    ASSUME Inv, NEW m, NEW ack \in BOOLEAN, NEW h \in Conn \cup {IW_UNDEFINED}, Handled(m, ack, h)
    PROVE  NamedIsHeld'
<1> USE DEF Inv
<1>1. inbound # <<>> /\ inbound' = Tail(inbound) /\ handle' = handle  BY DEF Handled
<1>2. /\ \A i \in 1..Len(inbound') :
            i + 1 \in 1..Len(inbound) /\ i + 1 > 1 /\ inbound'[i] = inbound[i + 1]
      /\ \A i \in 1..Len(inbound) : i > 1 =>
            i - 1 \in 1..Len(inbound') /\ inbound'[i - 1] = inbound[i]
  BY <1>1, HeadFacts
<1>3. ASSUME NEW i \in 1..Len(inbound')
      PROVE  inbound'[i].kind \in {"DEALLOCATE_REQ", "BRIDGE_REQ"} => inbound'[i].handle \in Conn
  BY <1>2 DEF Owners, NamedIsHeld
<1>4. ASSUME NEW i \in 1..Len(inbound'), inbound'[i].kind = "BRIDGE_REQ", NEW c \in Conn,
             c \in {inbound'[i].handle, inbound'[i].output_conn}
      PROVE  \/ Holders(c)' # {}
             \/ \E j \in 1..Len(inbound') : j > i /\ GivesBack(j, c)'
  <2>1. i + 1 \in 1..Len(inbound) /\ inbound'[i] = inbound[i + 1]  BY <1>2
  <2>2. \/ Holders(c) # {}
        \/ \E j \in 1..Len(inbound) : j > i + 1 /\ GivesBack(j, c)
    BY <1>4, <2>1 DEF Owners, NamedIsHeld
  <2>3. CASE Holders(c) # {}  BY <1>1, <2>3 DEF Holders
  <2>4. ASSUME NEW j \in 1..Len(inbound), j > i + 1, GivesBack(j, c)
        PROVE  \E k \in 1..Len(inbound') : k > i /\ GivesBack(k, c)'
    <3>1. j > 1 /\ j - 1 > i  BY <2>4
    <3>2. PICK k : k = j - 1  OBVIOUS
    <3>3. k \in 1..Len(inbound') /\ inbound'[k] = inbound[j] /\ k > i  BY <1>2, <3>1, <3>2
    <3>4. GivesBack(k, c)'  BY <2>4, <3>3 DEF GivesBack
    <3> QED  BY <3>3, <3>4
  <2> QED  BY <2>2, <2>3, <2>4
<1> QED  BY <1>3, <1>4 DEF NamedIsHeld

\* Handling a message that takes no connection and gives none back, and whose
\* effect on the connections is a Bridge's or none.
LEMMA BridgeKept ==
    ASSUME Inv, NoLeak, NEW m, NEW ack \in BOOLEAN, Handled(m, ack, IW_UNDEFINED),
           m.kind # "DEALLOCATE_REQ", up, leaked' = leaked, bridged \subseteq bridged',
           PeersBridged(conn', bridged'),
           NEW N, N \subseteq bridged',
           \A c \in N \cap Conn : m.kind = "BRIDGE_REQ" /\ c \in {m.handle, m.output_conn},
           \A c \in Conn \ N : \/ conn'[c].state = conn[c].state
                               \/ c \in bridged' /\ conn'[c].state = AVAILABLE
    PROVE  Owners' /\ NoLeak'
<1> USE DEF Inv
<1>1. PICK h \in Conn \cup {IW_UNDEFINED} :
         Handled(m, ack, h) /\ \A c \in Conn : c # h
  BY ConnFields
<1>2. NamedIsHeld'  BY <1>1, HandledNamed
<1>3. ASSUME NEW c \in Conn \ bridged'
      PROVE  HeldOnce(c)' /\ (Owned(c)' => conn'[c].state # AVAILABLE)
  <2>1. c \in Conn \ bridged /\ c \notin N  BY <1>3
  <2>2. HeldOnce(c) /\ (Owned(c) => conn[c].state # AVAILABLE)
    BY <2>1 DEF Owners, Exclusive
  <2>3. HeldOnce(c)' /\ (Owned(c)' => Owned(c))  BY <1>1, <2>1, <2>2, HandledFewer
  <2>4. conn'[c].state = conn[c].state  BY <1>3, <2>1
  <2> QED  BY <2>2, <2>3, <2>4
<1>4. Exclusive'  BY <1>3 DEF Exclusive
<1>5. ASSUME NEW c \in Conn, conn'[c].state # AVAILABLE
      PROVE  Owned(c)' \/ c \in leaked
  <2>1. Owned(c) => Owned(c)'  BY <1>1, HandledOwners
  <2>2. CASE c \in N
    <3>1. m = Msg /\ inbound # <<>>  BY DEF Handled
    <3>2. m = inbound[1] /\ 1 \in 1..Len(inbound)  BY <3>1, HeadFacts
    <3>3. Holders(c) # {} \/ \E j \in 1..Len(inbound) : GivesBack(j, c)
      BY <2>2, <3>2 DEF Owners, NamedIsHeld
    <3>4. Owned(c)  BY <3>3, OwnedIs DEF Holders
    <3> QED  BY <2>1, <3>4
  <2>3. CASE c \notin N
    <3>1. conn[c].state # AVAILABLE  BY <1>5, <2>3
    <3> QED  BY <2>1, <3>1 DEF NoLeak, Owned
  <2> QED  BY <2>2, <2>3
<1>6. NoLeak'  BY <1>5 DEF NoLeak, Owned
<1> QED  BY <1>2, <1>4, <1>6 DEF Owners

\* Taking a connection: it was nobody's, and is answered with or leaked.
LEMMA TakeKept ==
    ASSUME Inv, NoLeak, NEW m, NEW ack \in BOOLEAN, NEW h \in Conn \cup {IW_UNDEFINED},
           Handled(m, ack, h), m.kind = "ALLOCATE_REQ", up, NEW c \in Conn, conn[c].state = AVAILABLE,
           h \in {c, IW_UNDEFINED}, bridged' = bridged,
           leaked' \in {leaked, leaked \cup {c}},
           c \in leaked' \/ (h = c /\ \E p \in Script : Answers(p, c)'),
           PeersBridged(conn', bridged'),
           \A d \in Conn \ {c} : conn'[d].state = conn[d].state, conn'[c].state # AVAILABLE
    PROVE  Owners' /\ NoLeak'
<1> USE DEF Inv
<1>1. NamedIsHeld'  BY HandledNamed
<1>2. ASSUME NEW d \in Conn \ bridged'
      PROVE  HeldOnce(d)' /\ (Owned(d)' => conn'[d].state # AVAILABLE)
  <2>1. HeldOnce(d) /\ (Owned(d) => conn[d].state # AVAILABLE)
    BY <1>2 DEF Owners, Exclusive
  <2>2. CASE d # h
    <3>1. HeldOnce(d)' /\ (Owned(d)' => Owned(d))  BY <2>1, <2>2, HandledFewer, Zenon
    <3> QED  BY <2>1, <3>1
  <2>3. CASE d = h
    <3>1. d = c  BY <2>3, ConnFields
    <3>2. ~Owned(d)  BY <2>1, <3>1
    <3>3. /\ \A s \in Session : handle[s] # d
          /\ \A i \in 1..Len(inbound) : ~GivesBack(i, d)
          /\ \A p \in Script : ~Answers(p, d)
      BY <3>2, OwnedIs
    <3>4. \A s \in Session : handle'[s] # d  BY <3>3 DEF Handled
    <3>5. \A i \in 1..Len(inbound') : ~GivesBack(i, d)'  BY <3>3, HandledOwners
    <3>8. \A p \in Script : Answers(p, d)' => Answers(p, d) \/ (d = h /\ p = m.session[1])
      BY HandledOwners
    <3>6. \A p \in Script : Answers(p, d)' => p = m.session[1]  BY <3>3, <3>8
    <3>7. HeldOnce(d)'  BY <3>4, <3>5, <3>6 DEF HeldOnce
    <3> QED  BY <3>1, <3>7
  <2> QED  BY <2>2, <2>3
<1>3. Exclusive'  BY <1>2 DEF Exclusive
<1>4. ASSUME NEW d \in Conn, conn'[d].state # AVAILABLE
      PROVE  Owned(d)' \/ d \in leaked'
  <2>1. CASE d = c  BY <2>1, OwnedIsNext
  <2>2. CASE d # c
    <3>1. conn[d].state # AVAILABLE  BY <1>4, <2>2
    <3>2. Owned(d) \/ d \in leaked  BY <3>1 DEF NoLeak, Owned
    <3>3. Owned(d) => Owned(d)'  BY HandledOwners
    <3> QED  BY <3>2, <3>3
  <2> QED  BY <2>1, <2>2
<1>5. NoLeak'  BY <1>4 DEF NoLeak, Owned
<1> QED  BY <1>1, <1>3, <1>5 DEF Owners

LEMMA AllocateReqKept ==
    ASSUME Inv, NoLeak, UponAllocateReq
    PROVE  Transactions' /\ Owners' /\ NoLeak'
<1> USE DEF Inv
<1>1. Received("ALLOCATE_REQ")  BY DEF UponAllocateReq
<1>2. /\ up /\ conn \in Conns /\ PeersBridged(conn, bridged) /\ inbound # <<>>
      /\ Msg.kind = "ALLOCATE_REQ"
  BY <1>1, ReceivedFacts
<1>3. PICK m : m = Msg  OBVIOUS
<1>4. m \in Message /\ m.kind = "ALLOCATE_REQ" /\ m.session[1] \in Script
  <2>1. m \in Message  BY <1>2, <1>3, HeadFacts
  <2> QED  BY <1>2, <1>3, <2>1 DEF Message, Session
<1>5. CASE AllocateRefused
  <2>1. SendResponse(m, FALSE, IW_UNDEFINED)  BY <1>3, <1>5 DEF AllocateRefused
  <2>2. Handled(m, FALSE, IW_UNDEFINED)  BY <1>1, <1>3, <2>1, RespondsHandled
  <2>3. conn' = conn /\ leaked' = leaked /\ bridged' = bridged  BY <1>5 DEF AllocateRefused
  <2>4. Transactions'  BY <2>2, HandledTransactions
  <2>5. PICK N : N = {}  OBVIOUS
  <2>6. /\ N \subseteq bridged' /\ bridged \subseteq bridged' /\ PeersBridged(conn', bridged')
        /\ \A c \in N \cap Conn : m.kind = "BRIDGE_REQ" /\ c \in {m.handle, m.output_conn}
        /\ \A c \in Conn \ N : \/ conn'[c].state = conn[c].state
                               \/ c \in bridged' /\ conn'[c].state = AVAILABLE
    BY <1>2, <2>3, <2>5
  <2>7. Owners' /\ NoLeak'  BY <1>2, <1>4, <2>2, <2>3, <2>6, BridgeKept
  <2> QED  BY <2>4, <2>7
<1>6. ASSUME NEW c \in Conn, Candidate(c), AllocateWithoutCodecs(c)
      PROVE  Transactions' /\ Owners' /\ NoLeak'
  <2>1. SendResponse(m, FALSE, IW_UNDEFINED)  BY <1>3, <1>6 DEF AllocateWithoutCodecs
  <2>2. Handled(m, FALSE, IW_UNDEFINED)  BY <1>1, <1>3, <2>1, RespondsHandled
  <2>3. leaked' = leaked \cup {c} /\ bridged' = bridged  BY <1>6 DEF AllocateWithoutCodecs
  <2>4. Transactions'  BY <2>2, HandledTransactions
  <2>5. /\ PeersBridged(conn', bridged)
        /\ \A d \in Conn \ {c} : conn'[d].state = conn[d].state
        /\ conn'[c].state # AVAILABLE
    BY <1>1, <1>6, WithoutCodecsConn
  <2>6. conn[c].state = AVAILABLE  BY <1>6 DEF Candidate
  <2>7. PeersBridged(conn', bridged')  BY <2>3, <2>5
  <2>8. c \in leaked' /\ leaked' \in {leaked, leaked \cup {c}}  BY <2>3
  <2>9. Owners' /\ NoLeak'
    BY <1>2, <1>4, <2>2, <2>3, <2>5, <2>6, <2>7, <2>8, TakeKept
  <2> QED  BY <2>4, <2>9
<1>7. ASSUME NEW c \in Conn, Candidate(c), NEW asleep \in BOOLEAN, AllocateTaken(c, asleep)
      PROVE  Transactions' /\ Owners' /\ NoLeak'
  <2>1. SendResponse(m, TRUE, c)  BY <1>3, <1>7 DEF AllocateTaken
  <2>2. Handled(m, TRUE, c)  BY <1>1, <1>3, <2>1, ConnFields, RespondsHandled
  <2>3. /\ leaked' = IF Awaited(m) THEN leaked ELSE leaked \cup {c}
        /\ bridged' = bridged
    BY <1>3, <1>7 DEF AllocateTaken
  <2>4. Transactions'  BY <2>2, HandledTransactions
  <2>5. /\ PeersBridged(conn', bridged)
        /\ \A d \in Conn \ {c} : conn'[d].state = conn[d].state
        /\ conn'[c].state # AVAILABLE
    BY <1>1, <1>7, TakenConn
  <2>6. conn[c].state = AVAILABLE  BY <1>7 DEF Candidate
  <2>7. PeersBridged(conn', bridged')  BY <2>3, <2>5
  <2>8. Awaited(m) => Answers(m.session[1], c)'
    <3>1. Awaited(m) => reply'[m.session[1]] = Response(m, TRUE, c)
      BY <1>4, <2>2 DEF Handled, Responds
    <3>2. Response(m, TRUE, c) # <<>> /\ Response(m, TRUE, c)[1].handle = c
      BY <1>4 DEF Response
    <3> QED  BY <3>1, <3>2 DEF Answers
  <2>9. c \in leaked' \/ \E p \in Script : Answers(p, c)'  BY <1>4, <2>3, <2>8
  <2>10. leaked' \in {leaked, leaked \cup {c}}  BY <2>3
  <2>11. Owners' /\ NoLeak'
    BY <1>2, <1>4, <2>2, <2>3, <2>5, <2>6, <2>7, <2>9, <2>10, TakeKept
  <2> QED  BY <2>4, <2>11
<1> QED  BY <1>5, <1>6, <1>7 DEF UponAllocateReq

LEMMA DeallocateReqKept ==
    ASSUME Inv, NoLeak, UponDeallocateReq
    PROVE  Transactions' /\ Owners' /\ NoLeak'
<1> USE DEF Inv
<1>1. Received("DEALLOCATE_REQ")  BY DEF UponDeallocateReq
<1>2. up /\ inbound # <<>> /\ Msg.kind = "DEALLOCATE_REQ"  BY <1>1, ReceivedFacts
<1>3. PICK m, c : m = Msg /\ c = Msg.handle  OBVIOUS
<1>4. Handled(m, FALSE, IW_UNDEFINED)  BY <1>3, GivenBackHandled
<1>5. /\ c \in Conn /\ GivesBack(1, c) /\ bridged' = bridged
      /\ PeersBridged(conn', bridged) /\ Loosens(conn, conn', bridged \cup {c})
      /\ conn'[c].state = AVAILABLE /\ leaked' \in {leaked, leaked \ {c}}
  BY <1>3, GivenBackConn
<1>6. Transactions' /\ NamedIsHeld'  BY <1>4, HandledTransactions, HandledNamed
<1>7. ASSUME NEW d \in Conn \ bridged'
      PROVE  HeldOnce(d)' /\ (Owned(d)' => conn'[d].state # AVAILABLE)
  <2>1. HeldOnce(d) /\ (Owned(d) => conn[d].state # AVAILABLE)
    BY <1>2, <1>5, <1>7 DEF Owners, Exclusive
  <2>2. d # IW_UNDEFINED  BY ConnFields
  <2>3. HeldOnce(d)' /\ (Owned(d)' => Owned(d))  BY <1>4, <2>1, <2>2, HandledFewer
  <2>4. CASE d # c
    <3>1. conn'[d].state = conn[d].state  BY <1>5, <1>7, <2>4 DEF Loosens
    <3> QED  BY <2>1, <2>3, <3>1
  <2>5. CASE d = c
    <3>1. 1 \in 1..Len(inbound)  BY <1>2, HeadFacts
    <3>2. /\ \A s \in Session : handle[s] # d
          /\ \A i \in 1..Len(inbound) : GivesBack(i, d) => i = 1
          /\ \A p \in Script : ~Answers(p, d)
      BY <1>5, <2>1, <2>5, <3>1 DEF HeldOnce
    <3>3. \A s \in Session : handle'[s] # d  BY <1>4, <3>2 DEF Handled
    <3>4. \A i \in 1..Len(inbound') :
             GivesBack(i, d)' => i + 1 \in 1..Len(inbound) /\ i + 1 > 1 /\ GivesBack(i + 1, d)
      BY <1>4, HandledOwners
    <3>5. \A i \in 1..Len(inbound') : ~GivesBack(i, d)'  BY <3>2, <3>4
    <3>6. \A p \in Script : ~Answers(p, d)'  BY <1>4, <2>2, <3>2, HandledOwners
    <3>7. ~Owned(d)'  BY <3>3, <3>5, <3>6, OwnedIsNext
    <3> QED  BY <2>3, <3>7
  <2> QED  BY <2>4, <2>5
<1>8. Exclusive'  BY <1>7 DEF Exclusive
<1>9. ASSUME NEW d \in Conn, conn'[d].state # AVAILABLE
      PROVE  Owned(d)' \/ d \in leaked'
  <2>1. d # c  BY <1>5, <1>9
  <2>2. conn[d].state # AVAILABLE  BY <1>5, <1>9 DEF Loosens
  <2>3. Owned(d) \/ d \in leaked  BY <1>2, <2>2 DEF NoLeak, Owned
  <2>4. Owned(d) => Owned(d)'  BY <1>3, <1>4, <2>1, HandledOwners
  <2> QED  BY <1>5, <2>1, <2>3, <2>4
<1>10. NoLeak'  BY <1>9 DEF NoLeak, Owned
<1>11. PeersBridged(conn', bridged')  BY <1>5
<1> QED  BY <1>6, <1>8, <1>10, <1>11 DEF Owners

LEMMA ModifyReqKept ==
    ASSUME Inv, NoLeak, UponModifyReq
    PROVE  Transactions' /\ Owners' /\ NoLeak'
<1> USE DEF Inv
<1>1. Received("MODIFY_REQ")  BY DEF UponModifyReq
<1>2. /\ up /\ PeersBridged(conn, bridged) /\ Msg.kind = "MODIFY_REQ"
  BY <1>1, ReceivedFacts
<1>3. PICK m : m = Msg  OBVIOUS
<1>4. SendResponse(m, TRUE, IW_UNDEFINED)  BY <1>3 DEF UponModifyReq
<1>5. Handled(m, TRUE, IW_UNDEFINED)
  <2>1. "MODIFY_REQ" # "DEALLOCATE_REQ" /\ "MODIFY_REQ" # "ALLOCATE_REQ"  OBVIOUS
  <2> QED  BY <1>1, <1>3, <1>4, <2>1, RespondsHandled
<1>6. conn' = conn /\ leaked' = leaked /\ bridged' = bridged  BY DEF UponModifyReq
<1>7. Transactions'  BY <1>5, HandledTransactions
<1>8. PICK N : N = {}  OBVIOUS
<1>9. /\ N \subseteq bridged' /\ bridged \subseteq bridged' /\ PeersBridged(conn', bridged')
      /\ \A c \in N \cap Conn : m.kind = "BRIDGE_REQ" /\ c \in {m.handle, m.output_conn}
      /\ \A c \in Conn \ N : \/ conn'[c].state = conn[c].state
                             \/ c \in bridged' /\ conn'[c].state = AVAILABLE
  BY <1>2, <1>6, <1>8
<1>10. m.kind # "DEALLOCATE_REQ"  BY <1>2, <1>3
<1>11. Owners' /\ NoLeak'  BY <1>2, <1>5, <1>6, <1>9, <1>10, BridgeKept
<1> QED  BY <1>7, <1>11

LEMMA BridgeReqKept ==
    ASSUME Inv, NoLeak, UponBridgeReq
    PROVE  Transactions' /\ Owners' /\ NoLeak'
<1> USE DEF Inv
<1>1. Received("BRIDGE_REQ") /\ leaked' = leaked  BY DEF UponBridgeReq
<1>2. /\ up /\ PeersBridged(conn, bridged) /\ Msg.kind = "BRIDGE_REQ"
  BY <1>1, ReceivedFacts
<1>3. PICK m, a, b, duplex : /\ m = Msg /\ a = Msg.handle /\ b = Msg.output_conn
                             /\ duplex = Msg.full_duplex
  OBVIOUS
<1>4. m.kind = "BRIDGE_REQ" /\ m.kind # "DEALLOCATE_REQ" /\ m.handle = a /\ m.output_conn = b
  BY <1>2, <1>3
<1>5. CASE SendResponse(Msg, FALSE, IW_UNDEFINED) /\ UNCHANGED <<conn, bridged>>
  <2>1. SendResponse(m, FALSE, IW_UNDEFINED) /\ conn' = conn /\ bridged' = bridged  BY <1>3, <1>5
  <2>2. Handled(m, FALSE, IW_UNDEFINED)  BY <1>1, <1>3, <2>1, RespondsHandled
  <2>3. Transactions'  BY <2>2, HandledTransactions
  <2>4. PICK N : N = {}  OBVIOUS
  <2>5. /\ N \subseteq bridged' /\ bridged \subseteq bridged' /\ PeersBridged(conn', bridged')
        /\ \A c \in N \cap Conn : m.kind = "BRIDGE_REQ" /\ c \in {m.handle, m.output_conn}
        /\ \A c \in Conn \ N : \/ conn'[c].state = conn[c].state
                               \/ c \in bridged' /\ conn'[c].state = AVAILABLE
    BY <1>2, <2>1, <2>4
  <2>6. Owners' /\ NoLeak'  BY <1>1, <1>2, <1>4, <2>2, <2>5, BridgeKept
  <2> QED  BY <2>3, <2>6
<1>6. ASSUME NEW asleep \in BOOLEAN, b # IW_UNDEFINED, bridged' = bridged \cup {a, b},
             NEW res, res = Bridge(conn, a, b, duplex, asleep),
             conn' = res.conns, SendResponse(m, res.ok, IW_UNDEFINED)
      PROVE  Transactions' /\ Owners' /\ NoLeak'
  <2>1. /\ res.ok \in BOOLEAN /\ PeersBridged(conn', bridged')
        /\ \A c \in Conn \ {a, b} : \/ conn'[c].state = conn[c].state
                                    \/ c \in bridged' /\ conn'[c].state = AVAILABLE
    BY <1>1, <1>3, <1>6, BridgedConn
  <2>2. PICK ack \in BOOLEAN : ack = res.ok  BY <2>1
  <2>3. SendResponse(m, ack, IW_UNDEFINED)  BY <1>6, <2>2
  <2>4. Handled(m, ack, IW_UNDEFINED)  BY <1>1, <1>3, <2>3, RespondsHandled
  <2>5. Transactions'  BY <2>4, HandledTransactions
  <2>6. PICK N : N = {a, b}  OBVIOUS
  <2>7. /\ N \subseteq bridged' /\ bridged \subseteq bridged'
        /\ \A c \in N \cap Conn : m.kind = "BRIDGE_REQ" /\ c \in {m.handle, m.output_conn}
        /\ \A c \in Conn \ N : \/ conn'[c].state = conn[c].state
                               \/ c \in bridged' /\ conn'[c].state = AVAILABLE
    BY <1>4, <1>6, <2>1, <2>6
  <2>8. Owners' /\ NoLeak'  BY <1>1, <1>2, <1>4, <2>1, <2>4, <2>7, BridgeKept
  <2> QED  BY <2>5, <2>8
<1> QED  BY <1>3, <1>5, <1>6 DEF UponBridgeReq

\* A step of a script touches no connection: it passes ownership on.
LEMMA ScriptKept ==
    ASSUME Inv, NoLeak, NamedIsHeld', conn' = conn, up' = up, bridged' = bridged,
           \A c \in Conn : /\ HeldOnce(c) => HeldOnce(c)' /\ (Owned(c)' => Owned(c))
                           /\ up /\ (Owned(c) \/ c \in leaked) => Owned(c)' \/ c \in leaked'
    PROVE  Owners' /\ NoLeak'
<1> USE DEF Inv
<1>1. Exclusive'
  <2>1. ASSUME NEW c \in Conn \ bridged
        PROVE  HeldOnce(c)' /\ (up /\ Owned(c)' => conn[c].state # AVAILABLE)
    <3>1. HeldOnce(c) /\ (up /\ Owned(c) => conn[c].state # AVAILABLE)  BY DEF Owners, Exclusive
    <3> QED  BY <3>1
  <2> QED  BY <2>1 DEF Exclusive
<1>2. (up => PeersBridged(conn, bridged))'  BY DEF Owners
<1>3. NoLeak'
  <2>1. ASSUME NEW c \in Conn, up, conn[c].state # AVAILABLE PROVE Owned(c)' \/ c \in leaked'
    <3>1. Owned(c) \/ c \in leaked  BY <2>1 DEF NoLeak, Owned
    <3> QED  BY <2>1, <3>1
  <2> QED  BY <2>1 DEF NoLeak, Owned
<1> QED  BY <1>1, <1>2, <1>3 DEF Owners

LEMMA AskKept ==
    ASSUME Inv, NoLeak, NEW p, NEW o, NEW m \in Message, Ask(p, o, m), m.kind # "DEALLOCATE_REQ",
           m.kind = "BRIDGE_REQ" =>
              /\ m.handle \in Conn
              /\ \A c \in Conn : c \in {m.handle, m.output_conn} => Holders(c) # {}
    PROVE  Owners' /\ NoLeak'
<1> USE DEF Inv
<1>1. /\ ToProxy(m) /\ handle' = handle /\ reply' = reply /\ conn' = conn /\ up' = up
      /\ leaked' = leaked /\ bridged' = bridged
  BY DEF Ask
<1>2. /\ \A i \in 1..Len(inbound') :
            \/ i \in 1..Len(inbound) /\ inbound'[i] = inbound[i]
            \/ i = Len(inbound) + 1 /\ inbound'[i] = m /\ up
      /\ \A i \in 1..Len(inbound) :
            i \in 1..Len(inbound') /\ inbound'[i] = inbound[i] /\ i < Len(inbound) + 1
  BY <1>1, SentFacts
<1>3. NamedIsHeld'
  <2>1. ASSUME NEW i \in 1..Len(inbound')
        PROVE  inbound'[i].kind \in {"DEALLOCATE_REQ", "BRIDGE_REQ"} => inbound'[i].handle \in Conn
    BY <1>2 DEF Owners, NamedIsHeld
  <2>2. ASSUME NEW i \in 1..Len(inbound'), inbound'[i].kind = "BRIDGE_REQ", NEW c \in Conn,
               c \in {inbound'[i].handle, inbound'[i].output_conn}
        PROVE  \/ Holders(c)' # {}
               \/ \E j \in 1..Len(inbound') : j > i /\ GivesBack(j, c)'
    <3>1. Holders(c)' = Holders(c)  BY <1>1 DEF Holders
    <3>2. CASE i \in 1..Len(inbound) /\ inbound'[i] = inbound[i]
      <4>1. Holders(c) # {} \/ \E j \in 1..Len(inbound) : j > i /\ GivesBack(j, c)
        BY <2>2, <3>2 DEF Owners, NamedIsHeld
      <4> QED  BY <1>2, <3>1, <4>1 DEF GivesBack
    <3>3. CASE inbound'[i] = m  BY <2>2, <3>1, <3>3
    <3> QED  BY <1>2, <3>2, <3>3
  <2> QED  BY <2>1, <2>2 DEF NamedIsHeld
<1>4. ASSUME NEW c \in Conn
      PROVE  /\ HeldOnce(c) => HeldOnce(c)' /\ (Owned(c)' => Owned(c))
             /\ up /\ (Owned(c) \/ c \in leaked) => Owned(c)' \/ c \in leaked'
  <2>1. \A q \in Script : Answers(q, c)' <=> Answers(q, c)  BY <1>1 DEF Answers
  <2>2. \A i \in 1..Len(inbound') : GivesBack(i, c)' => i \in 1..Len(inbound) /\ GivesBack(i, c)
    BY <1>2 DEF GivesBack
  <2>3. \A i \in 1..Len(inbound) : GivesBack(i, c) => i \in 1..Len(inbound') /\ GivesBack(i, c)'
    BY <1>2 DEF GivesBack
  <2>4. \A i \in 1..Len(inbound') :
           GivesBack(i, c)' => i + 0 \in 1..Len(inbound) /\ GivesBack(i + 0, c)
    <3>1. \A i \in 1..Len(inbound') : i + 0 = i  OBVIOUS
    <3> QED  BY <2>2, <3>1
  <2>5. HeldOnce(c) => HeldOnce(c)'  BY <1>1, <2>1, <2>4, FewerOwners
  <2>6. Owned(c)' <=> Owned(c)  BY <1>1, <2>1, <2>2, <2>3, OwnedIs, OwnedIsNext
  <2> QED  BY <1>1, <2>5, <2>6
<1> QED  BY <1>1, <1>3, <1>4, ScriptKept

LEMMA TearDownKept ==
    ASSUME Inv, NoLeak, NEW s \in Session, TearDown(s)
    PROVE  Transactions' /\ Owners' /\ NoLeak'
<1> USE DEF Inv
<1>1. PICK m, d : /\ m = Request("DEALLOCATE_REQ", s, handle[s], IW_UNDEFINED, FALSE)
                  /\ d = handle[s]
  OBVIOUS
<1>2. handle \in [Session -> Conn \cup {IW_UNDEFINED}]  BY DEF Typed
<1>3. /\ ToProxy(m) /\ op[s[1]] = "none" /\ d # IW_UNDEFINED
      /\ handle' = [handle EXCEPT ![s] = IW_UNDEFINED]
      /\ UNCHANGED <<conn, op, txn, reply, up, leaked, bridged>>
  BY <1>1 DEF TearDown
<1>4. d \in Conn  BY <1>1, <1>2, <1>3
<1>5. m \in Message /\ m.kind = "DEALLOCATE_REQ" /\ m.handle = d
  <2>1. m = Request("DEALLOCATE_REQ", s, d, IW_UNDEFINED, FALSE)  BY <1>1
  <2>2. m.kind = "DEALLOCATE_REQ" /\ m.handle = d  BY <2>1 DEF Request
  <2>3. m \in Message  BY <1>4, <2>1, RequestTyped DEF Kinds
  <2> QED  BY <2>2, <2>3
<1>6. /\ \A i \in 1..Len(inbound') :
            \/ i \in 1..Len(inbound) /\ inbound'[i] = inbound[i]
            \/ i = Len(inbound) + 1 /\ inbound'[i] = m /\ up
      /\ \A i \in 1..Len(inbound) :
            i \in 1..Len(inbound') /\ inbound'[i] = inbound[i] /\ i < Len(inbound) + 1
      /\ Len(inbound) \in Nat
      /\ up => Len(inbound) + 1 \in 1..Len(inbound') /\ inbound'[Len(inbound) + 1] = m
  BY <1>3, <1>5, SentFacts
<1>7. \A q : ~IsAskedBy(m, q)  BY <1>5 DEF IsAskedBy
<1>8. \A u \in Session : handle'[u] = IF u = s THEN IW_UNDEFINED ELSE handle[u]  BY <1>2, <1>3
<1>9. \A u \in Session : handle[u] = IW_UNDEFINED => handle'[u] = IW_UNDEFINED  BY <1>8
<1>10. Transactions'
  <2>1. ASSUME NEW q \in Script, NEW i \in 1..Len(inbound'), IsAskedBy(inbound'[i], q)
        PROVE  i \in 1..Len(inbound) /\ inbound'[i] = inbound[i]
    BY <1>6, <1>7, <2>1
  <2>2. AskedInOrder'
    BY <1>3, <2>1 DEF Transactions, AskedInOrder
  <2>3. AskedIsOpen'
    <3>1. ASSUME NEW q \in Script, NEW i \in 1..Len(inbound'), IsAskedBy(inbound'[i], q),
                 op[q] # "none", inbound'[i].txn = txn[q]
          PROVE  /\ inbound'[i].kind = KindOf(op[q])
                 /\ op[q] = "Allocate" => handle'[inbound'[i].session] = IW_UNDEFINED
      <4>1. i \in 1..Len(inbound) /\ inbound'[i] = inbound[i]  BY <2>1, <3>1
      <4>2. /\ inbound[i].kind = KindOf(op[q])
            /\ op[q] = "Allocate" => handle[inbound[i].session] = IW_UNDEFINED
        BY <3>1, <4>1 DEF Transactions, AskedIsOpen
      <4>3. inbound[i].session \in Session
        <5>1. inbound[i] \in Message  BY <4>1, ElementOfSeq DEF Typed
        <5> QED  BY <5>1 DEF Message
      <4> QED  BY <1>9, <4>1, <4>2, <4>3
    <3> QED  BY <1>3, <3>1 DEF AskedIsOpen
  <2>4. AnswerIsOpen'
    <3>1. ASSUME NEW q \in Script, reply[q] # <<>>
          PROVE  /\ op[q] # "none"
                 /\ \A i \in 1..Len(inbound') : IsAskedBy(inbound'[i], q) => inbound'[i].txn # txn[q]
                 /\ reply[q][1].session[1] = q
                 /\ op[q] = "Allocate" => handle'[reply[q][1].session] = IW_UNDEFINED
                 /\ reply[q][1].handle # IW_UNDEFINED => op[q] = "Allocate" /\ reply[q][1].ack
                 /\ op[q] = "Allocate" /\ reply[q][1].ack => reply[q][1].handle # IW_UNDEFINED
      <4>1. reply[q][1].session \in Session  BY <3>1, ReplyFields
      <4>2. op[q] = "Allocate" => handle[reply[q][1].session] = IW_UNDEFINED
        BY <3>1 DEF Transactions, AnswerIsOpen
      <4>3. op[q] = "Allocate" => handle'[reply[q][1].session] = IW_UNDEFINED  BY <1>9, <4>1, <4>2
      <4>4. \A i \in 1..Len(inbound') : IsAskedBy(inbound'[i], q) => inbound'[i].txn # txn[q]
        BY <2>1, <3>1 DEF Transactions, AnswerIsOpen
      <4> QED  BY <3>1, <4>3, <4>4 DEF Transactions, AnswerIsOpen
    <3> QED  BY <1>3, <3>1 DEF AnswerIsOpen
  <2> QED  BY <2>2, <2>3, <2>4 DEF Transactions
<1>11. NamedIsHeld'
  <2>1. ASSUME NEW i \in 1..Len(inbound')
        PROVE  inbound'[i].kind \in {"DEALLOCATE_REQ", "BRIDGE_REQ"} => inbound'[i].handle \in Conn
    BY <1>4, <1>5, <1>6 DEF Owners, NamedIsHeld
  <2>2. ASSUME NEW i \in 1..Len(inbound'), inbound'[i].kind = "BRIDGE_REQ", NEW c \in Conn,
               c \in {inbound'[i].handle, inbound'[i].output_conn}
        PROVE  \/ Holders(c)' # {}
               \/ \E j \in 1..Len(inbound') : j > i /\ GivesBack(j, c)'
    <3>1. inbound'[i] # m  BY <1>5, <2>2
    <3>2. i \in 1..Len(inbound) /\ inbound'[i] = inbound[i]  BY <1>6, <3>1
    <3>3. Holders(c) # {} \/ \E j \in 1..Len(inbound) : j > i /\ GivesBack(j, c)
      BY <2>2, <3>2 DEF Owners, NamedIsHeld
    <3>4. CASE \E j \in 1..Len(inbound) : j > i /\ GivesBack(j, c)  BY <1>6, <3>4 DEF GivesBack
    <3>5. ASSUME NEW u \in Session, handle[u] = c, u # s PROVE Holders(c)' # {}
      BY <1>8, <3>5 DEF Holders
    <3>6. CASE handle[s] = c
      <4>1. CASE up
        <5>1. PICK j : j = Len(inbound) + 1  OBVIOUS
        <5>2. j \in 1..Len(inbound') /\ inbound'[j] = m /\ j > i  BY <1>6, <3>2, <4>1, <5>1
        <5>3. GivesBack(j, c)'  BY <1>1, <1>5, <3>6, <5>2 DEF GivesBack
        <5> QED  BY <5>2, <5>3
      <4>2. CASE ~up
        <5>1. inbound = <<>>  BY <4>2 DEF Typed
        <5> QED  BY <3>2, <5>1
      <4> QED  BY <4>1, <4>2
    <3> QED  BY <3>3, <3>4, <3>5, <3>6 DEF Holders
  <2> QED  BY <2>1, <2>2 DEF NamedIsHeld
<1>12. ASSUME NEW c \in Conn
       PROVE  /\ HeldOnce(c) => HeldOnce(c)' /\ (Owned(c)' => Owned(c))
              /\ up /\ (Owned(c) \/ c \in leaked) => Owned(c)' \/ c \in leaked'
  <2>1. \A q \in Script : Answers(q, c)' <=> Answers(q, c)  BY <1>3 DEF Answers
  <2>2. \A i \in 1..Len(inbound') : GivesBack(i, c)' =>
           \/ i \in 1..Len(inbound) /\ GivesBack(i, c)
           \/ i = Len(inbound) + 1 /\ c = d
    BY <1>5, <1>6 DEF GivesBack
  <2>3. \A i \in 1..Len(inbound) : GivesBack(i, c) => i \in 1..Len(inbound') /\ GivesBack(i, c)'
    BY <1>6 DEF GivesBack
  <2>4. c # IW_UNDEFINED  BY ConnFields
  <2>5. \A u \in Session : handle'[u] = c => handle[u] = c /\ u # s  BY <1>8, <2>4
  <2>6. CASE c # d
    <3>1. \A i \in 1..Len(inbound') :
             GivesBack(i, c)' => i + 0 \in 1..Len(inbound) /\ GivesBack(i + 0, c)
      <4>1. \A i \in 1..Len(inbound') : i + 0 = i  OBVIOUS
      <4> QED  BY <2>2, <2>6, <4>1
    <3>2. HeldOnce(c) => HeldOnce(c)'  BY <2>1, <2>5, <3>1, FewerOwners
    <3>3. Owned(c)' => Owned(c)  BY <2>1, <2>2, <2>5, <2>6, OwnedIs, OwnedIsNext
    <3>4. \A u \in Session : handle[u] = c => handle'[u] = c  BY <1>1, <1>8, <2>6
    <3>5. Owned(c) => Owned(c)'  BY <2>1, <2>3, <3>4, OwnedIs, OwnedIsNext
    <3> QED  BY <1>3, <3>2, <3>3, <3>5
  <2>7. CASE c = d
    <3>1. handle[s] = c  BY <1>1, <2>7
    <3>2. Owned(c)  BY <3>1, OwnedIs
    <3>3. up => Owned(c)'
      <4>1. PICK j : j = Len(inbound) + 1  OBVIOUS
      <4>2. up => j \in 1..Len(inbound') /\ inbound'[j] = m  BY <1>6, <4>1
      <4>3. up => j \in 1..Len(inbound') /\ GivesBack(j, c)'  BY <1>5, <2>7, <4>2 DEF GivesBack
      <4> QED  BY <4>3, OwnedIsNext
    <3>4. ASSUME HeldOnce(c) PROVE HeldOnce(c)'
      <4>1. /\ \A u \in Session : handle[u] = c => u = s
            /\ \A q \in Script : ~Answers(q, c)
            /\ \A i \in 1..Len(inbound) : ~GivesBack(i, c)
        BY <3>1, <3>4 DEF HeldOnce
      <4>2. \A u \in Session : handle'[u] # c  BY <2>5, <4>1
      <4>3. \A q \in Script : ~Answers(q, c)'  BY <2>1, <4>1
      <4>4. \A i, j \in 1..Len(inbound') : GivesBack(i, c)' /\ GivesBack(j, c)' => i = j
        BY <2>2, <4>1
      <4> QED  BY <4>2, <4>3, <4>4 DEF HeldOnce
    <3> QED  BY <3>2, <3>3, <3>4
  <2> QED  BY <2>6, <2>7
<1>13. Owners' /\ NoLeak'  BY <1>3, <1>11, <1>12, ScriptKept
<1> QED  BY <1>10, <1>13

LEMMA AnsweredKept ==
    ASSUME Inv, NoLeak, NEW p \in Script, Answered(p)
    PROVE  Transactions' /\ Owners' /\ NoLeak'
<1> USE DEF Inv
<1>1. /\ reply[p] # <<>> /\ op' = [op EXCEPT ![p] = "none"] /\ reply' = [reply EXCEPT ![p] = <<>>]
      /\ UNCHANGED <<conn, txn, inbound, up, leaked, bridged>>
  BY DEF Answered
<1>2. PICK u, d : u = reply[p][1].session /\ d = reply[p][1].handle  OBVIOUS
<1>3. handle' = IF op[p] = "Allocate" /\ reply[p][1].ack THEN [handle EXCEPT ![u] = d] ELSE handle
  BY <1>2 DEF Answered
<1>4. handle \in [Session -> Conn \cup {IW_UNDEFINED}] /\ reply \in [Script -> Seq(Reply)]
  BY DEF Typed
<1>5. u \in Session /\ d \in Conn \cup {IW_UNDEFINED}  BY <1>1, <1>2, ReplyFields
<1>6. /\ u[1] = p /\ (op[p] = "Allocate" => handle[u] = IW_UNDEFINED)
      /\ d # IW_UNDEFINED <=> op[p] = "Allocate" /\ reply[p][1].ack
  BY <1>1, <1>2 DEF Transactions, AnswerIsOpen
<1>7. /\ reply'[p] = <<>> /\ \A q \in Script \ {p} : reply'[q] = reply[q]
      /\ \A q \in Script : Answers(q, d) => q = p \/ Answers(q, d)'
  BY <1>1, <1>4 DEF Answers
<1>8. \A s \in Session : s # u => handle'[s] = handle[s]  BY <1>3, <1>4
<1>9. d # IW_UNDEFINED => handle'[u] = d /\ handle[u] = IW_UNDEFINED
  BY <1>3, <1>4, <1>5, <1>6
<1>10. d = IW_UNDEFINED => handle' = handle  BY <1>3, <1>6
<1>11. Transactions'
  <2>1. \A s \in Session : s[1] # p => handle'[s] = handle[s]  BY <1>6, <1>8
  <2> QED  BY <1>1, <1>7, <2>1, EndTransactions
<1>12. \A c \in Conn, s \in Session : handle[s] = c => handle'[s] = c
  <2>1. \A c \in Conn : c # IW_UNDEFINED  BY ConnFields
  <2> QED  BY <1>8, <1>9, <1>10, <2>1
<1>13. NamedIsHeld'
  <2>1. \A c \in Conn : Holders(c) # {} => Holders(c)' # {}  BY <1>12 DEF Holders
  <2>2. inbound' = inbound  BY <1>1
  <2>3. \A i, c : GivesBack(i, c)' <=> GivesBack(i, c)  BY <2>2 DEF GivesBack
  <2>4. ASSUME NEW i \in 1..Len(inbound)
        PROVE  /\ inbound[i].kind \in {"DEALLOCATE_REQ", "BRIDGE_REQ"} => inbound[i].handle \in Conn
               /\ inbound[i].kind = "BRIDGE_REQ" =>
                    \A c \in Conn : c \in {inbound[i].handle, inbound[i].output_conn} =>
                       \/ Holders(c)' # {}
                       \/ \E j \in 1..Len(inbound) : j > i /\ GivesBack(j, c)'
    BY <2>1, <2>3 DEF Owners, NamedIsHeld
  <2> QED  BY <2>2, <2>4 DEF NamedIsHeld
<1>14. ASSUME NEW c \in Conn
       PROVE  /\ HeldOnce(c) => HeldOnce(c)' /\ (Owned(c)' => Owned(c))
              /\ up /\ (Owned(c) \/ c \in leaked) => Owned(c)' \/ c \in leaked'
  <2>1. \A j : GivesBack(j, c)' <=> GivesBack(j, c)  BY <1>1 DEF GivesBack
  <2>2. \A j \in 1..Len(inbound') : j + 0 = j /\ j \in 1..Len(inbound)  BY <1>1
  <2>3. \A q \in Script : Answers(q, c)' <=> Answers(q, c) /\ q # p
    BY <1>1, <1>4, <1>7 DEF Answers
  <2>4. Answers(p, c) <=> c = d  BY <1>1, <1>2 DEF Answers
  <2>5. c # IW_UNDEFINED  BY ConnFields
  <2>6. CASE c # d
    <3>1. \A s \in Session : handle'[s] = c => handle[s] = c  BY <1>8, <1>9, <1>10, <2>6
    <3>2. \A q \in Script : Answers(q, c)' <=> Answers(q, c)  BY <2>3, <2>4, <2>6
    <3>3. HeldOnce(c) => HeldOnce(c)'
      <4>1. \A j \in 1..Len(inbound') :
               GivesBack(j, c)' => j + 0 \in 1..Len(inbound) /\ GivesBack(j + 0, c)
        BY <2>1, <2>2
      <4> QED  BY <3>1, <3>2, <4>1, FewerOwners
    <3>4. Owned(c)' <=> Owned(c)
      BY <1>1, <1>12, <2>1, <3>1, <3>2, OwnedIs, OwnedIsNext
    <3> QED  BY <1>1, <3>3, <3>4
  <2>7. CASE c = d
    <3>1. handle'[u] = c /\ handle[u] = IW_UNDEFINED  BY <1>9, <2>5, <2>7
    <3>2. Owned(c)  BY <2>4, <2>7, OwnedIs
    <3>3. Owned(c)'  BY <1>5, <3>1, OwnedIsNext
    <3>4. ASSUME HeldOnce(c) PROVE HeldOnce(c)'
      <4>1. /\ \A s \in Session : handle[s] # c
            /\ \A q \in Script : Answers(q, c) => q = p
            /\ \A j \in 1..Len(inbound) : ~GivesBack(j, c)
        BY <2>4, <2>7, <3>4 DEF HeldOnce
      <4>2. \A s \in Session : handle'[s] = c => s = u  BY <1>8, <4>1
      <4>3. \A q \in Script : ~Answers(q, c)'  BY <2>3, <4>1
      <4>4. \A j \in 1..Len(inbound') : ~GivesBack(j, c)'  BY <1>1, <2>1, <4>1
      <4> QED  BY <4>2, <4>3, <4>4 DEF HeldOnce
    <3> QED  BY <3>2, <3>3, <3>4
  <2> QED  BY <2>6, <2>7
<1>15. Owners' /\ NoLeak'  BY <1>1, <1>13, <1>14, ScriptKept
<1> QED  BY <1>11, <1>15

\* A transaction that is given up passes what it was answered with to nobody.
LEMMA GivenUpKept ==
    ASSUME Inv, NoLeak, NEW p \in Script, op' = [op EXCEPT ![p] = "none"],
           reply' = [reply EXCEPT ![p] = <<>>],
           \A c \in Conn : Answers(p, c) => c \in leaked', leaked \subseteq leaked',
           handle' = handle, conn' = conn, txn' = txn, inbound' = inbound, up' = up, bridged' = bridged
    PROVE  Transactions' /\ Owners' /\ NoLeak'
<1> USE DEF Inv
<1>1. reply \in [Script -> Seq(Reply)]  BY DEF Typed
<1>2. reply'[p] = <<>> /\ \A q \in Script \ {p} : reply'[q] = reply[q]  BY <1>1
<1>3. Transactions'  BY <1>2, EndTransactions
<1>4. NamedIsHeld'  BY DEF Owners, NamedIsHeld, Holders, GivesBack
<1>5. ASSUME NEW c \in Conn
      PROVE  /\ HeldOnce(c) => HeldOnce(c)' /\ (Owned(c)' => Owned(c))
             /\ up /\ (Owned(c) \/ c \in leaked) => Owned(c)' \/ c \in leaked'
  <2>1. \A j : GivesBack(j, c)' <=> GivesBack(j, c)  BY DEF GivesBack
  <2>2. \A j \in 1..Len(inbound') : j + 0 = j /\ j \in 1..Len(inbound)  OBVIOUS
  <2>3. \A q \in Script : Answers(q, c)' <=> Answers(q, c) /\ q # p  BY <1>2 DEF Answers
  <2>4. HeldOnce(c) => HeldOnce(c)'
    <3>1. \A j \in 1..Len(inbound') :
             GivesBack(j, c)' => j + 0 \in 1..Len(inbound) /\ GivesBack(j + 0, c)
      BY <2>1, <2>2
    <3>2. \A s \in Session : handle'[s] = c => handle[s] = c  OBVIOUS
    <3> QED  BY <2>3, <3>1, <3>2, FewerOwners
  <2>5. Owned(c)' => Owned(c)  BY <2>1, <2>3, OwnedIs, OwnedIsNext
  <2>6. Owned(c) => Owned(c)' \/ c \in leaked'  BY <2>1, <2>3, OwnedIs, OwnedIsNext
  <2> QED  BY <2>4, <2>5, <2>6
<1>6. Owners' /\ NoLeak'  BY <1>4, <1>5, ScriptKept
<1> QED  BY <1>3, <1>6

LEMMA TimedOutKept ==
    ASSUME Inv, NoLeak, NEW p \in Script, TimedOut(p)
    PROVE  Transactions' /\ Owners' /\ NoLeak'
<1>1. /\ reply[p] = <<>> /\ op' = [op EXCEPT ![p] = "none"]
      /\ UNCHANGED <<conn, handle, txn, reply, inbound, up, leaked, bridged>>
  BY DEF TimedOut
<1>2. reply' = [reply EXCEPT ![p] = <<>>]  BY <1>1 DEF Inv, Typed
<1>3. \A c \in Conn : Answers(p, c) => c \in leaked'  BY <1>1 DEF Answers
<1>4. leaked \subseteq leaked'  BY <1>1
<1> QED  BY <1>1, <1>2, <1>3, <1>4, GivenUpKept

LEMMA DisturbedKept ==
    ASSUME Inv, NoLeak, NEW p \in Script, Disturbed(p)
    PROVE  Transactions' /\ Owners' /\ NoLeak'
<1>1. /\ op' = [op EXCEPT ![p] = "none"] /\ reply' = [reply EXCEPT ![p] = <<>>]
      /\ UNCHANGED <<conn, handle, txn, inbound, up, bridged>>
  BY DEF Disturbed
<1>2. leaked' = IF op[p] = "Allocate" /\ reply[p] # <<>> /\ reply[p][1].ack
                THEN leaked \cup {reply[p][1].handle} ELSE leaked
  BY DEF Disturbed
<1>3. ASSUME NEW c \in Conn, Answers(p, c) PROVE c \in leaked'
  <2>1. reply[p] # <<>> /\ reply[p][1].handle = c  BY <1>3 DEF Answers
  <2>2. op[p] = "Allocate" /\ reply[p][1].ack
    BY <2>1, ConnFields DEF Inv, Transactions, AnswerIsOpen
  <2> QED  BY <1>2, <2>1, <2>2
<1>4. leaked \subseteq leaked'  BY <1>2
<1> QED  BY <1>1, <1>3, <1>4, GivenUpKept

LEMMA ShutdownKept ==
    ASSUME Inv, NoLeak, Shutdown
    PROVE  Transactions' /\ Owners' /\ NoLeak'
<1> USE DEF Inv
<1>1. /\ up' = FALSE /\ inbound' = <<>>
      /\ UNCHANGED <<handle, op, txn, reply, leaked, bridged>>
  BY DEF Shutdown
<1>2. 1..Len(inbound') = {}  BY <1>1
<1>3. Transactions'
  BY <1>1, <1>2 DEF Transactions, AskedInOrder, AskedIsOpen, AnswerIsOpen
<1>4. NamedIsHeld'  BY <1>2 DEF NamedIsHeld
<1>5. Exclusive'
  <2>1. ASSUME NEW c \in Conn \ bridged PROVE HeldOnce(c)'
    <3>1. HeldOnce(c)  BY DEF Owners, Exclusive
    <3>2. \A q \in Script : Answers(q, c)' => Answers(q, c)  BY <1>1 DEF Answers
    <3>3. \A s \in Session : handle'[s] = c => handle[s] = c  BY <1>1
    <3>4. \A j \in 1..Len(inbound') :
             GivesBack(j, c)' => j + 0 \in 1..Len(inbound) /\ GivesBack(j + 0, c)
      BY <1>2
    <3> QED  BY <3>1, <3>2, <3>3, <3>4, FewerOwners
  <2> QED  BY <1>1, <2>1 DEF Exclusive
<1>6. PeersBridged(conn, bridged)'  BY <1>1, ShutdownConn
<1>7. Owners' /\ NoLeak'  BY <1>1, <1>4, <1>5, <1>6 DEF Owners, NoLeak
<1> QED  BY <1>3, <1>7

LEMMA AsksKept ==
    ASSUME Inv, NoLeak, NEW s \in Session,
           \/ Allocate(s) \/ Modify(s)
           \/ \E d \in Session, duplex \in BOOLEAN : BridgeSessions(s, d, duplex)
    PROVE  Transactions' /\ Owners' /\ NoLeak'
<1> USE DEF Inv
<1>1. handle \in [Session -> Conn \cup {IW_UNDEFINED}]  BY DEF Typed
<1>2. CASE Allocate(s)
  <2>1. PICK m : m = Request("ALLOCATE_REQ", s, IW_UNDEFINED, IW_UNDEFINED, FALSE)  OBVIOUS
  <2>2. m \in Message  BY <2>1, RequestTyped DEF Kinds
  <2>3. m.kind = "ALLOCATE_REQ" /\ m.session = s /\ m.txn = txn[s[1]] + 1  BY <2>1 DEF Request
  <2>4. Ask(s[1], "Allocate", m) /\ handle[s] = IW_UNDEFINED  BY <1>2, <2>1 DEF Allocate
  <2>5. m.kind = KindOf("Allocate")  BY <2>3 DEF KindOf
  <2>6. Transactions'  BY <2>2, <2>3, <2>4, <2>5, AskTransactions
  <2>7. m.kind # "DEALLOCATE_REQ" /\ m.kind # "BRIDGE_REQ"  BY <2>3
  <2>8. Owners' /\ NoLeak'  BY <2>2, <2>4, <2>7, AskKept
  <2> QED  BY <2>6, <2>8
<1>3. CASE Modify(s)
  <2>1. PICK m : m = Request("MODIFY_REQ", s, handle[s], IW_UNDEFINED, FALSE)  OBVIOUS
  <2>2. m \in Message  BY <1>1, <2>1, RequestTyped DEF Kinds
  <2>3. m.kind = "MODIFY_REQ" /\ m.session = s /\ m.txn = txn[s[1]] + 1  BY <2>1 DEF Request
  <2>4. Ask(s[1], "Modify", m)  BY <1>3, <2>1 DEF Modify
  <2>5. m.kind = KindOf("Modify") /\ "Modify" # "Allocate"  BY <2>3 DEF KindOf
  <2>6. Transactions'  BY <2>2, <2>3, <2>4, <2>5, AskTransactions
  <2>7. m.kind # "DEALLOCATE_REQ" /\ m.kind # "BRIDGE_REQ"  BY <2>3
  <2>8. Owners' /\ NoLeak'  BY <2>2, <2>4, <2>7, AskKept
  <2> QED  BY <2>6, <2>8
<1>4. ASSUME NEW d \in Session, NEW duplex \in BOOLEAN, BridgeSessions(s, d, duplex)
      PROVE  Transactions' /\ Owners' /\ NoLeak'
  <2>1. PICK m : m = Request("BRIDGE_REQ", s, handle[s], handle[d], duplex)  OBVIOUS
  <2>2. m \in Message  BY <1>1, <2>1, RequestTyped DEF Kinds
  <2>3. /\ m.kind = "BRIDGE_REQ" /\ m.session = s /\ m.txn = txn[s[1]] + 1
        /\ m.handle = handle[s] /\ m.output_conn = handle[d]
    BY <2>1 DEF Request
  <2>4. Ask(s[1], "Bridge", m) /\ handle[s] # IW_UNDEFINED  BY <1>4, <2>1 DEF BridgeSessions
  <2>5. m.kind = KindOf("Bridge") /\ "Bridge" # "Allocate"  BY <2>3 DEF KindOf
  <2>6. Transactions'  BY <2>2, <2>3, <2>4, <2>5, AskTransactions
  <2>7. m.kind # "DEALLOCATE_REQ" /\ m.handle \in Conn  BY <1>1, <2>3, <2>4
  <2>8. \A c \in Conn : c \in {m.handle, m.output_conn} => Holders(c) # {}
    BY <2>3 DEF Holders
  <2>9. Owners' /\ NoLeak'  BY <2>2, <2>4, <2>7, <2>8, AskKept
  <2> QED  BY <2>6, <2>9
<1> QED  BY <1>2, <1>3, <1>4

LEMMA InvInit == Init => Inv /\ NoLeak
<1> SUFFICES ASSUME Init PROVE Inv /\ NoLeak  OBVIOUS
<1>1. /\ inbound = <<>> /\ up = TRUE /\ bridged = {}
      /\ handle = [s \in Session |-> IW_UNDEFINED] /\ reply = [p \in Script |-> <<>>]
  BY DEF Init
<1>2. 1..Len(inbound) = {}  BY <1>1
<1>3. \A c \in Conn : /\ conn[c].state = AVAILABLE /\ conn[c].destination_conn = NULL
  BY DEF Init
<1>4. \A p \in Script : reply[p] = <<>>  BY <1>1
<1>5. \A s \in Session, c \in Conn : handle[s] # c  BY <1>1, ConnFields
<1>6. Transactions  BY <1>2, <1>4 DEF Transactions, AskedInOrder, AskedIsOpen, AnswerIsOpen
<1>7. NamedIsHeld  BY <1>2 DEF NamedIsHeld
<1>8. PeersBridged(conn, bridged)  BY <1>3, ConnFields DEF PeersBridged
<1>9. ASSUME NEW c \in Conn PROVE HeldOnce(c) /\ ~Owned(c)
  <2>1. \A p \in Script : ~Answers(p, c)  BY <1>4 DEF Answers
  <2>2. HeldOnce(c)  BY <1>2, <1>5, <2>1 DEF HeldOnce
  <2>3. ~Owned(c)  BY <1>2, <1>5, <2>1, OwnedIs
  <2> QED  BY <2>2, <2>3
<1>10. Exclusive  BY <1>9 DEF Exclusive
<1>11. NoLeak  BY <1>3 DEF NoLeak
<1>12. Owners  BY <1>7, <1>8, <1>10 DEF Owners
<1> QED  BY <1>6, <1>11, <1>12, TypedInit DEF Inv

LEMMA InvStep ==
    ASSUME Inv, NoLeak, [Next]_vars
    PROVE  Inv' /\ NoLeak'
<1>1. Typed'  BY TypedStep
<1>2. Transactions' /\ Owners' /\ NoLeak'
  <2>1. ASSUME NEW s \in Session, TearDown(s) PROVE Transactions' /\ Owners' /\ NoLeak'
    BY <2>1, TearDownKept
  <2>2. ASSUME NEW p \in Script, Answered(p) \/ TimedOut(p) \/ Disturbed(p)
        PROVE  Transactions' /\ Owners' /\ NoLeak'
    BY <2>2, AnsweredKept, TimedOutKept, DisturbedKept
  <2>3. CASE UponAllocateReq \/ UponDeallocateReq \/ UponModifyReq \/ UponBridgeReq \/ Shutdown
    BY <2>3, AllocateReqKept, DeallocateReqKept, ModifyReqKept, BridgeReqKept, ShutdownKept
  <2>4. CASE UNCHANGED vars
    <3>1. UNCHANGED <<conn, handle, op, txn, reply, inbound, up, leaked, bridged>>
      BY <2>4 DEF vars
    <3>2. Transactions'
      BY <3>1 DEF Inv, Transactions, AskedInOrder, AskedIsOpen, AnswerIsOpen
    <3>3. Owners'
      BY <3>1 DEF Inv, Owners, NamedIsHeld, Exclusive, HeldOnce, Owned, Holders, OnTheWay,
                  GivesBack, Answers
    <3>4. NoLeak'  BY <3>1 DEF NoLeak, Holders, OnTheWay
    <3> QED  BY <3>2, <3>3, <3>4
  <2>5. ASSUME NEW s \in Session,
               \/ Allocate(s) \/ Modify(s)
               \/ \E d \in Session, duplex \in BOOLEAN : BridgeSessions(s, d, duplex)
        PROVE  Transactions' /\ Owners' /\ NoLeak'
    BY <2>5, AsksKept
  <2> QED  BY <2>1, <2>2, <2>3, <2>4, <2>5 DEF Next
<1> QED  BY <1>1, <1>2 DEF Inv

-----------------------------------------------------------------------------
\* Every variable stays in its domain, also when the event loop ends and unbridges all
\* connections in turn: a state is one of the five, peers and sources are connections.
\* MockRtpSinks may pile up on a connection that is handed out with its old source.
THEOREM TypeCorrect == Spec => []TypeOK
<1>1. Inv => TypeOK
  BY DEF Inv, Typed, TypeOK, Connection, Message, Kinds, Reply
<1>2. Inv /\ NoLeak /\ [Next]_vars => (Inv /\ NoLeak)'  BY InvStep
<1> QED  BY <1>1, <1>2, InvInit, PTL DEF Spec

\* No connection is lost to the pool, for any number of connections, scripts and
\* sessions: what is not available belongs to a session, is on its way to one or
\* back, or was allocated for nobody.
THEOREM PoolIsNotLost == Spec => []NoLeak
<1>1. Inv /\ NoLeak /\ [Next]_vars => (Inv /\ NoLeak)'  BY InvStep
<1> QED  BY <1>1, InvInit, PTL DEF Spec

\* A connection that was never bridged has at most one owner: DoUnbridge's wrong
\* state reaches bridged connections and their peers, and no other.
THEOREM OneOwner == Spec => []ExclusiveUntilBridged
<1>1. Inv => ExclusiveUntilBridged
  <2> SUFFICES ASSUME Inv, NEW c \in Conn \ bridged PROVE Cardinality(Holders(c)) <= 1
    BY DEF ExclusiveUntilBridged
  <2>1. \A s, u \in Session : handle[s] = c /\ handle[u] = c => s = u
    BY DEF Inv, Owners, Exclusive, HeldOnce
  <2>2. CASE Holders(c) = {}
    <3>1. Cardinality(Holders(c)) = 0  BY <2>2, FS_EmptySet
    <3> QED  BY <3>1
  <2>3. ASSUME NEW s \in Holders(c) PROVE Cardinality(Holders(c)) <= 1
    <3>1. Holders(c) = {s}  BY <2>1, <2>3 DEF Holders
    <3>2. Cardinality({s}) = 1  BY FS_Singleton
    <3> QED  BY <3>1, <3>2
  <2> QED  BY <2>2, <2>3
<1>2. Inv /\ NoLeak /\ [Next]_vars => (Inv /\ NoLeak)'  BY InvStep
<1> QED  BY <1>1, <1>2, InvInit, PTL DEF Spec

\* A Bridge that is acknowledged carries media, whatever the two connections were
\* bridged to before.
THEOREM AcknowledgedBridge == Spec => AcknowledgedBridgePlays
<1> DEFINE Plays(p) ==
       (inbound # <<>> /\ reply'[p] # reply[p] /\ reply'[p] # <<>>
        /\ Msg.kind = "BRIDGE_REQ" /\ reply'[p][1].ack)
       => LET a == Msg.handle
              b == Msg.output_conn
          IN  /\ conn'[b].fSource = a /\ conn'[b].reads /\ conn'[a].source
              /\ Msg.full_duplex => conn'[a].fSource = b /\ conn'[a].reads /\ conn'[b].source
<1>1. ASSUME Inv, [Next]_vars, NEW p \in Script PROVE Plays(p)
  <2> SUFFICES ASSUME inbound # <<>>, reply'[p] # reply[p], reply'[p] # <<>>,
                      Msg.kind = "BRIDGE_REQ", reply'[p][1].ack
               PROVE  LET a == Msg.handle
                          b == Msg.output_conn
                      IN  /\ conn'[b].fSource = a /\ conn'[b].reads /\ conn'[a].source
                          /\ Msg.full_duplex =>
                               conn'[a].fSource = b /\ conn'[a].reads /\ conn'[b].source
    OBVIOUS
  <2> HIDE DEF Plays
  <2>1. reply \in [Script -> Seq(Reply)]  BY <1>1 DEF Inv, Typed
  <2>2. UponBridgeReq
    <3>1. \A s \in Session : ~Allocate(s) /\ ~Modify(s) /\ ~TearDown(s)
      BY DEF Allocate, Modify, TearDown, Ask
    <3>2. \A s, d \in Session, duplex \in BOOLEAN : ~BridgeSessions(s, d, duplex)
      BY DEF BridgeSessions, Ask
    <3>3. \A q \in Script : ~Answered(q) /\ ~TimedOut(q) /\ ~Disturbed(q)
      BY <2>1 DEF Answered, TimedOut, Disturbed
    <3>4. ~UponAllocateReq /\ ~UponDeallocateReq /\ ~UponModifyReq
      BY DEF UponAllocateReq, UponDeallocateReq, UponModifyReq, Received
    <3>5. ~Shutdown /\ ~UNCHANGED vars  BY DEF Shutdown, vars
    <3> QED  BY <1>1, <3>1, <3>2, <3>3, <3>4, <3>5 DEF Next
  <2>3. Received("BRIDGE_REQ")  BY <2>2 DEF UponBridgeReq
  <2>4. PICK m, a, b, duplex : /\ m = Msg /\ a = Msg.handle /\ b = Msg.output_conn
                               /\ duplex = Msg.full_duplex
    OBVIOUS
  <2>5. m \in Message /\ m.kind # "DEALLOCATE_REQ"  BY <1>1, <2>4, HeadFacts DEF Inv
  <2>6. ASSUME NEW ack \in BOOLEAN, SendResponse(m, ack, IW_UNDEFINED) PROVE ack
    <3>1. Responds(m, ack, IW_UNDEFINED)  BY <1>1, <2>4, <2>5, <2>6, SendResponseResponds DEF Inv
    <3>2. reply'[p] = Response(m, ack, IW_UNDEFINED)  BY <3>1 DEF Responds
    <3>3. PICK h \in Conn \cup {IW_UNDEFINED} : h = IW_UNDEFINED  OBVIOUS
    <3>4. Response(m, ack, h)[1].ack = ack  BY <2>5, ResponseFacts
    <3> QED  BY <3>2, <3>3, <3>4, Zenon
  <2>7. ~SendResponse(Msg, FALSE, IW_UNDEFINED)
    <3>1. PICK ack \in BOOLEAN : ack = FALSE  OBVIOUS
    <3>2. ~SendResponse(m, ack, IW_UNDEFINED)  BY <2>6, <3>1
    <3> QED  BY <2>4, <3>1, <3>2
  <2>8. ASSUME NEW asleep \in BOOLEAN, b # IW_UNDEFINED, bridged' = bridged \cup {a, b},
               NEW res, res = Bridge(conn, a, b, duplex, asleep),
               conn' = res.conns, SendResponse(m, res.ok, IW_UNDEFINED)
        PROVE  /\ conn'[b].fSource = a /\ conn'[b].reads /\ conn'[a].source
               /\ duplex => conn'[a].fSource = b /\ conn'[a].reads /\ conn'[b].source
    <3>1. /\ res.ok \in BOOLEAN
          /\ res.ok => /\ conn'[b].fSource = a /\ conn'[b].reads /\ conn'[a].source
                       /\ duplex => conn'[a].fSource = b /\ conn'[a].reads /\ conn'[b].source
      BY <1>1, <2>3, <2>4, <2>8, BridgedConn
    <3>2. PICK ack \in BOOLEAN : ack = res.ok  BY <3>1
    <3>3. SendResponse(m, ack, IW_UNDEFINED)  BY <2>8, <3>2
    <3>4. res.ok  BY <2>6, <3>2, <3>3
    <3> QED  BY <3>1, <3>4
  <2> QED  BY <2>2, <2>4, <2>7, <2>8 DEF UponBridgeReq
<1>2. Inv /\ [Next]_vars => [\A p \in Script : Plays(p)]_vars  BY <1>1
<1>3. Inv /\ NoLeak /\ [Next]_vars => (Inv /\ NoLeak)'  BY InvStep
<1> QED  BY <1>2, <1>3, InvInit, PTL DEF Spec, AcknowledgedBridgePlays

=============================================================================

--------------------------- MODULE ModuleBootProofs ---------------------------
(***************************************************************************)
(* For any number of modules: services are ready before their users start, *)
(* shutdown listeners are told once, and modules stop in reverse order.    *)
(***************************************************************************)
EXTENDS ModuleBoot, SequenceTheorems, TLAPS

-----------------------------------------------------------------------------
(* The inductive invariant, a conjunction of named parts.                  *)

Types ==
    /\ pc \in BootStates
    /\ k \in Int
    /\ booted \in 0..NumModules
    /\ st \in [Module -> ModStates]
    /\ registered \subseteq Module
    /\ listeners \in [Module -> Nat]
    /\ told \in [Module -> Nat]
    /\ ready \subseteq Module
    /\ expired \subseteq Module

\* What the boot process is doing determines which module it is at.
Position ==
    /\ pc = "load" => k = 1 /\ booted = 0
    /\ pc \in {"create", "fork", "wait_ready"} => k = booted + 1 /\ k \in Module
    /\ pc = "fork" => st[k] = "created"
    /\ pc = "shutdown" => k \in 0..booted
    /\ pc = "wait_ack" => k \in 1..booted

\* Modules that were not reached do not exist and have no listener.
Unreached ==
    /\ \A i \in Module : i > booted + 1 => st[i] = "none" /\ listeners[i] = 0
    /\ pc \in {"load", "create"} =>
           \A i \in Module : i > booted => st[i] = "none" /\ listeners[i] = 0

\* A module that exists has one listener until it has left the handle map.
Listening ==
    \A i \in Module :
        /\ st[i] \notin {"none", "dead"} => listeners[i] = 1
        /\ st[i] \in {"starting", "serving", "leaving", "poisoned", "reported"} => i \in registered
        /\ told[i] = (IF st[i] = "dead" THEN 1 ELSE 0)

\* READY in an outbound channel was sent by its module.
Outbox ==
    /\ outbound \in [Module -> Seq({"MSG_PROC_READY", "MSG_PROC_SHUTDOWN_EVT"})]
    /\ \A i \in Module : \A n \in 1..Len(outbound[i]) :
           outbound[i][n] = "MSG_PROC_READY" => i \in ready

\* The booted modules have announced themselves, and a ready one is past starting.
Announced ==
    /\ \A i \in 1..booted : i \in ready
    /\ \A i \in ready : st[i] \notin {"none", "created", "forked", "starting"}

\* Shutdown transactions end with the module leaving, or in a timeout.
Stopping ==
    /\ pc \in {"shutdown", "wait_ack"} =>
           \A j \in (k + 1)..booted : st[j] \notin {"starting", "serving"} \/ j \in expired
    /\ (pc = "wait_ack" /\ acked) => st[k] \notin {"starting", "serving"}

IInv == Types /\ Position /\ Unreached /\ Listening /\ Outbox /\ Announced /\ Stopping

-----------------------------------------------------------------------------
\* Init of ModuleBoot establishes the inductive invariant.
LEMMA InitIInv == Init => IInv
<1> SUFFICES ASSUME Init PROVE IInv
    OBVIOUS
<1>1. Types
    BY ModulesAssumption DEF Init, Types, BootStates, ModStates, Module
<1>2. Outbox
    BY DEF Init, Outbox
<1>3. Position /\ Unreached /\ Listening /\ Announced /\ Stopping
    BY ModulesAssumption
       DEF Init, Position, Unreached, Listening, Announced, Stopping, Module
<1> QED
    BY <1>1, <1>2, <1>3 DEF IInv

\* Loading the modules preserves the invariant.
LEMMA LoadIInv ==
    ASSUME IInv, NEW ok \in BOOLEAN, LoadConfiguredModules(ok)
    PROVE  IInv'
<1> USE ModulesAssumption
<1>1. Types'
    BY DEF IInv, Types, Position, BootStates, ModStates, Module,
           LoadConfiguredModules, modVars
<1>2. Position'
    BY DEF IInv, Types, Position, Module,
           LoadConfiguredModules, modVars
<1>3. Unreached'
    BY DEF IInv, Types, Position, Unreached, Module,
           LoadConfiguredModules, modVars
<1>4. Listening'
    BY DEF IInv, Types, Position, Unreached, Listening, Module,
           LoadConfiguredModules, modVars
<1>5. Outbox'
    BY DEF IInv, Outbox,
           LoadConfiguredModules, modVars
<1>6. Announced'
    BY DEF IInv, Types, Position, Announced, Module,
           LoadConfiguredModules, modVars
<1>7. Stopping'
    BY DEF IInv, Types, Position, Announced, Stopping, Module,
           LoadConfiguredModules, modVars
<1> QED
    BY <1>1, <1>2, <1>3, <1>4, <1>5, <1>6, <1>7 DEF IInv

\* Creating a module, or failing to, preserves it.
LEMMA CreateIInv ==
    ASSUME IInv, NEW ok \in BOOLEAN, Create(ok)
    PROVE  IInv'
<1> USE ModulesAssumption
<1>1. Types'
    BY DEF IInv, Types, Position, BootStates, ModStates, Module,
           Create, FirstOf
<1>2. Position'
    BY DEF IInv, Types, Position, Module,
           Create, FirstOf
<1>3. Unreached'
    BY DEF IInv, Types, Position, Unreached, Module,
           Create, FirstOf
<1>4. Listening'
    BY DEF IInv, Types, Position, Unreached, Listening, Module,
           Create, FirstOf
<1>5. Outbox'
    BY DEF IInv, Outbox,
           Create, FirstOf
<1>6. Announced'
    <2>1. k \in Module /\ st[k] = "none"
        BY DEF IInv, Types, Position, Unreached, Module, Create
    <2>2. k \notin ready
        BY <2>1 DEF IInv, Announced
    <2> QED
        BY <2>1, <2>2 DEF IInv, Types, Announced, Create
<1>7. Stopping'
    BY DEF IInv, Types, Position, Announced, Stopping, Module,
           Create, FirstOf
<1> QED
    BY <1>1, <1>2, <1>3, <1>4, <1>5, <1>6, <1>7 DEF IInv

\* Forking the created module preserves it.
LEMMA ForkIInv ==
    ASSUME IInv, Fork
    PROVE  IInv'
<1> USE ModulesAssumption
<1>1. Types'
    BY DEF IInv, Types, Position, BootStates, ModStates, Module,
           Fork
<1>2. Position'
    BY DEF IInv, Types, Position, Module,
           Fork
<1>3. Unreached'
    BY DEF IInv, Types, Position, Unreached, Module,
           Fork
<1>4. Listening'
    BY DEF IInv, Types, Position, Unreached, Listening, Module,
           Fork
<1>5. Outbox'
    BY DEF IInv, Outbox,
           Fork
<1>6. Announced'
    BY DEF IInv, Types, Position, Announced, Module,
           Fork
<1>7. Stopping'
    BY DEF IInv, Types, Position, Announced, Stopping, Module,
           Fork
<1> QED
    BY <1>1, <1>2, <1>3, <1>4, <1>5, <1>6, <1>7 DEF IInv

\* Reading the module's first message preserves it.
LEMMA WaitTillReadyIInv ==
    ASSUME IInv, WaitTillReady
    PROVE  IInv'
<1> USE ModulesAssumption
<1>1. Types'
    BY DEF IInv, Types, Position, BootStates, ModStates, Module,
           WaitTillReady, FirstOf
<1>2. Position'
    BY DEF IInv, Types, Position, Module,
           WaitTillReady, FirstOf
<1>3. Unreached'
    BY DEF IInv, Types, Position, Unreached, Module,
           WaitTillReady, FirstOf
<1>4. Listening'
    BY DEF IInv, Types, Position, Unreached, Listening, Module,
           WaitTillReady, FirstOf
<1>5. Outbox'
    <2>1. k \in Module
        BY DEF IInv, Position, WaitTillReady
    <2>2. outbound'[k] = Tail(outbound[k]) /\ outbound[k] # <<>>
        BY <2>1 DEF IInv, Outbox, WaitTillReady
    <2>3. /\ outbound'[k] \in Seq({"MSG_PROC_READY", "MSG_PROC_SHUTDOWN_EVT"})
          /\ Len(outbound'[k]) = Len(outbound[k]) - 1
          /\ \A n \in 1..Len(outbound'[k]) : outbound'[k][n] = outbound[k][n + 1]
        BY <2>1, <2>2 DEF IInv, Outbox
    <2>4. ASSUME NEW n \in 1..Len(outbound'[k]), outbound'[k][n] = "MSG_PROC_READY"
          PROVE  k \in ready
        BY <2>1, <2>2, <2>3, <2>4 DEF IInv, Outbox
    <2>5. \A i \in Module : i # k => outbound'[i] = outbound[i]
        BY DEF IInv, Outbox, WaitTillReady
    <2>6. outbound' \in [Module -> Seq({"MSG_PROC_READY", "MSG_PROC_SHUTDOWN_EVT"})]
        BY <2>1, <2>2, <2>3 DEF IInv, Outbox, WaitTillReady
    <2>7. ready' = ready
        BY DEF WaitTillReady
    <2> QED
        BY <2>4, <2>5, <2>6, <2>7 DEF IInv, Outbox
<1>6. Announced'
    <2>1. k \in Module /\ k = booted + 1 /\ booted \in Int
        BY DEF IInv, Types, Position, WaitTillReady
    <2>2. Head(outbound[k]) = "MSG_PROC_READY" => k \in ready
        BY <2>1 DEF IInv, Outbox, WaitTillReady
    <2>3. booted' = booted \/ (booted' = k /\ k \in ready)
        BY <2>1, <2>2 DEF WaitTillReady
    <2> QED
        BY <2>1, <2>3 DEF IInv, Announced, WaitTillReady
<1>7. Stopping'
    BY DEF IInv, Types, Position, Announced, Stopping, Module,
           WaitTillReady, FirstOf
<1> QED
    BY <1>1, <1>2, <1>3, <1>4, <1>5, <1>6, <1>7 DEF IInv

\* Giving up on a late module preserves it.
LEMMA WaitTillReadyTimeoutIInv ==
    ASSUME IInv, WaitTillReadyTimeout
    PROVE  IInv'
<1> USE ModulesAssumption
<1>1. Types'
    BY DEF IInv, Types, Position, BootStates, ModStates, Module,
           WaitTillReadyTimeout, modVars, FirstOf
<1>2. Position'
    BY DEF IInv, Types, Position, Module,
           WaitTillReadyTimeout, modVars, FirstOf
<1>3. Unreached'
    BY DEF IInv, Types, Position, Unreached, Module,
           WaitTillReadyTimeout, modVars, FirstOf
<1>4. Listening'
    BY DEF IInv, Types, Position, Unreached, Listening, Module,
           WaitTillReadyTimeout, modVars, FirstOf
<1>5. Outbox'
    BY DEF IInv, Outbox,
           WaitTillReadyTimeout, modVars, FirstOf
<1>6. Announced'
    BY DEF IInv, Types, Position, Announced, Module,
           WaitTillReadyTimeout, modVars, FirstOf
<1>7. Stopping'
    BY DEF IInv, Types, Position, Announced, Stopping, Module,
           WaitTillReadyTimeout, modVars, FirstOf
<1> QED
    BY <1>1, <1>2, <1>3, <1>4, <1>5, <1>6, <1>7 DEF IInv

\* Sending a shutdown request preserves it.
LEMMA ShutdownIInv ==
    ASSUME IInv, Shutdown
    PROVE  IInv'
<1> USE ModulesAssumption
<1>1. Types'
    BY DEF IInv, Types, Position, BootStates, ModStates, Module,
           Shutdown, Poisoned, NextOf, modVars
<1>2. Position'
    BY DEF IInv, Types, Position, Module,
           Shutdown, Poisoned, NextOf, modVars
<1>3. Unreached'
    BY DEF IInv, Types, Position, Unreached, Module,
           Shutdown, Poisoned, NextOf, modVars
<1>4. Listening'
    BY DEF IInv, Types, Position, Unreached, Listening, Module,
           Shutdown, Poisoned, NextOf, modVars
<1>5. Outbox'
    BY DEF IInv, Outbox,
           Shutdown, Poisoned, NextOf, modVars
<1>6. Announced'
    BY DEF IInv, Types, Position, Announced, Module,
           Shutdown, Poisoned, NextOf, modVars
<1>7. Stopping'
    BY DEF IInv, Types, Position, Announced, Stopping, Module,
           Shutdown, Poisoned, NextOf, modVars
<1> QED
    BY <1>1, <1>2, <1>3, <1>4, <1>5, <1>6, <1>7 DEF IInv

\* The end of an acknowledged Shutdown preserves it.
LEMMA ShutdownAcknowledgedIInv ==
    ASSUME IInv, ShutdownAcknowledged
    PROVE  IInv'
<1> USE ModulesAssumption
<1>1. Types'
    BY DEF IInv, Types, Position, BootStates, ModStates, Module,
           ShutdownAcknowledged, NextOf, modVars
<1>2. Position'
    BY DEF IInv, Types, Position, Module,
           ShutdownAcknowledged, NextOf, modVars
<1>3. Unreached'
    BY DEF IInv, Types, Position, Unreached, Module,
           ShutdownAcknowledged, NextOf, modVars
<1>4. Listening'
    BY DEF IInv, Types, Position, Unreached, Listening, Module,
           ShutdownAcknowledged, NextOf, modVars
<1>5. Outbox'
    BY DEF IInv, Outbox,
           ShutdownAcknowledged, NextOf, modVars
<1>6. Announced'
    BY DEF IInv, Types, Position, Announced, Module,
           ShutdownAcknowledged, NextOf, modVars
<1>7. Stopping'
    BY DEF IInv, Types, Position, Announced, Stopping, Module,
           ShutdownAcknowledged, NextOf, modVars
<1> QED
    BY <1>1, <1>2, <1>3, <1>4, <1>5, <1>6, <1>7 DEF IInv

\* The end of an unanswered Shutdown preserves it.
LEMMA ShutdownTimeoutIInv ==
    ASSUME IInv, ShutdownTimeout
    PROVE  IInv'
<1> USE ModulesAssumption
<1>1. Types'
    BY DEF IInv, Types, Position, BootStates, ModStates, Module,
           ShutdownTimeout, NextOf, modVars
<1>2. Position'
    BY DEF IInv, Types, Position, Module,
           ShutdownTimeout, NextOf, modVars
<1>3. Unreached'
    BY DEF IInv, Types, Position, Unreached, Module,
           ShutdownTimeout, NextOf, modVars
<1>4. Listening'
    BY DEF IInv, Types, Position, Unreached, Listening, Module,
           ShutdownTimeout, NextOf, modVars
<1>5. Outbox'
    BY DEF IInv, Outbox,
           ShutdownTimeout, NextOf, modVars
<1>6. Announced'
    BY DEF IInv, Types, Position, Announced, Module,
           ShutdownTimeout, NextOf, modVars
<1>7. Stopping'
    BY DEF IInv, Types, Position, Announced, Stopping, Module,
           ShutdownTimeout, NextOf, modVars
<1> QED
    BY <1>1, <1>2, <1>3, <1>4, <1>5, <1>6, <1>7 DEF IInv

\* The remaining steps of init and close preserve it.
LEMMA OtherBootIInv ==
    ASSUME IInv, ShutdownModulesReturns \/ Close \/ UnReliableShutdownAll \/ JoinForked
    PROVE  IInv'
<1> USE ModulesAssumption
<1>1. Types'
    BY DEF IInv, Types, Position, BootStates, ModStates, Module,
           ShutdownModulesReturns, Close, UnReliableShutdownAll, JoinForked, FirstOf, modVars
<1>2. Position'
    BY DEF IInv, Types, Position, Module,
           ShutdownModulesReturns, Close, UnReliableShutdownAll, JoinForked, FirstOf, modVars
<1>3. Unreached'
    BY DEF IInv, Types, Position, Unreached, Module,
           ShutdownModulesReturns, Close, UnReliableShutdownAll, JoinForked, FirstOf, modVars
<1>4. Listening'
    BY DEF IInv, Types, Position, Unreached, Listening, Module,
           ShutdownModulesReturns, Close, UnReliableShutdownAll, JoinForked, FirstOf, modVars
<1>5. Outbox'
    BY DEF IInv, Outbox,
           ShutdownModulesReturns, Close, UnReliableShutdownAll, JoinForked, FirstOf, modVars
<1>6. Announced'
    BY DEF IInv, Types, Position, Announced, Module,
           ShutdownModulesReturns, Close, UnReliableShutdownAll, JoinForked, FirstOf, modVars
<1>7. Stopping'
    BY DEF IInv, Types, Position, Announced, Stopping, Module,
           ShutdownModulesReturns, Close, UnReliableShutdownAll, JoinForked, FirstOf, modVars
<1> QED
    BY <1>1, <1>2, <1>3, <1>4, <1>5, <1>6, <1>7 DEF IInv

\* Registration and the ready message preserve it.
LEMMA StartIInv ==
    ASSUME IInv, NEW m \in Module, RegisterContext(m) \/ SendReadyMessage(m)
    PROVE  IInv'
<1> USE ModulesAssumption
<1>1. Types'
    BY DEF IInv, Types, Position, BootStates, ModStates, Module,
           RegisterContext, SendReadyMessage, bootVars
<1>2. Position'
    BY DEF IInv, Types, Position, Module,
           RegisterContext, SendReadyMessage, bootVars
<1>3. Unreached'
    BY DEF IInv, Types, Position, Unreached, Module,
           RegisterContext, SendReadyMessage, bootVars
<1>4. Listening'
    BY DEF IInv, Types, Position, Unreached, Listening, Module,
           RegisterContext, SendReadyMessage, bootVars
<1>5. Outbox'
    <2>1. CASE RegisterContext(m)
        BY <2>1 DEF IInv, Outbox, RegisterContext
    <2>2. CASE SendReadyMessage(m)
        <3>1. outbound'[m] = Append(outbound[m], "MSG_PROC_READY")
            BY <2>2 DEF IInv, Outbox, SendReadyMessage
        <3>2. /\ outbound'[m] \in Seq({"MSG_PROC_READY", "MSG_PROC_SHUTDOWN_EVT"})
              /\ Len(outbound'[m]) = Len(outbound[m]) + 1
              /\ \A n \in 1..Len(outbound[m]) : outbound'[m][n] = outbound[m][n]
              /\ outbound'[m][Len(outbound[m]) + 1] = "MSG_PROC_READY"
            BY <3>1 DEF IInv, Outbox
        <3>3. \A i \in Module : i # m => outbound'[i] = outbound[i]
            BY <2>2 DEF IInv, Outbox, SendReadyMessage
        <3>4. outbound' \in [Module -> Seq({"MSG_PROC_READY", "MSG_PROC_SHUTDOWN_EVT"})]
            BY <2>2, <3>1, <3>2 DEF IInv, Outbox, SendReadyMessage
        <3>5. ready \subseteq ready' /\ ("MSG_PROC_READY" = "MSG_PROC_READY" => m \in ready')
            BY <2>2 DEF SendReadyMessage
        <3>6. Len(outbound[m]) \in Nat
            BY DEF IInv, Outbox
        <3>7. ASSUME NEW n \in 1..Len(outbound'[m]), outbound'[m][n] = "MSG_PROC_READY"
              PROVE  m \in ready'
            <4>1. CASE n \in 1..Len(outbound[m])
                BY <3>2, <3>5, <3>7, <4>1 DEF IInv, Outbox
            <4>2. CASE n = Len(outbound[m]) + 1
                BY <3>2, <3>5, <3>7, <4>2
            <4> QED
                BY <3>2, <3>6, <4>1, <4>2
        <3> QED
            BY <3>3, <3>4, <3>5, <3>7 DEF IInv, Outbox
    <2> QED
        BY <2>1, <2>2
<1>6. Announced'
    BY DEF IInv, Types, Position, Announced, Module,
           RegisterContext, SendReadyMessage, bootVars
<1>7. Stopping'
    <2>1. /\ pc' = pc /\ k' = k /\ booted' = booted /\ expired' = expired
          /\ \A j \in Module : j # m => st'[j] = st[j]
        BY DEF IInv, Types, bootVars, RegisterContext, SendReadyMessage
    <2>2. \A j \in 1..booted : j \in Module /\ st[j] \notin {"forked", "starting"}
        BY DEF IInv, Types, Announced, Module
    <2>3. \A j \in 1..booted :
              st[j] \notin {"starting", "serving"} => st'[j] \notin {"starting", "serving"}
        BY <2>1, <2>2 DEF IInv, Types, RegisterContext, SendReadyMessage
    <2>4. pc \in {"shutdown", "wait_ack"} => k \in 0..booted
        BY DEF IInv, Types, Position
    <2>5. pc = "wait_ack" => k \in 1..booted
        BY DEF IInv, Position
    <2>6. (pc' = "wait_ack" /\ acked') => st'[k] \notin {"starting", "serving"}
        BY <2>1, <2>3, <2>5 DEF IInv, Types, Stopping, RegisterContext, SendReadyMessage
    <2>7. pc \in {"shutdown", "wait_ack"} =>
              \A j \in (k + 1)..booted : j \in 1..booted
        BY <2>4 DEF IInv, Types
    <2> QED
        BY <2>1, <2>3, <2>6, <2>7 DEF IInv, Stopping
<1> QED
    BY <1>1, <1>2, <1>3, <1>4, <1>5, <1>6, <1>7 DEF IInv

\* A module that leaves its loop preserves it.
LEMMA LeaveIInv ==
    ASSUME IInv, NEW m \in Module, UponShutdownReq(m) \/ Fail(m)
    PROVE  IInv'
<1> USE ModulesAssumption
<1>1. Types'
    BY DEF IInv, Types, Position, BootStates, ModStates, Module,
           UponShutdownReq, Fail, bootVars
<1>2. Position'
    BY DEF IInv, Types, Position, Module,
           UponShutdownReq, Fail, bootVars
<1>3. Unreached'
    BY DEF IInv, Types, Position, Unreached, Module,
           UponShutdownReq, Fail, bootVars
<1>4. Listening'
    BY DEF IInv, Types, Position, Unreached, Listening, Module,
           UponShutdownReq, Fail, bootVars
<1>5. Outbox'
    BY DEF IInv, Outbox,
           UponShutdownReq, Fail, bootVars
<1>6. Announced'
    BY DEF IInv, Types, Position, Announced, Module,
           UponShutdownReq, Fail, bootVars
<1>7. Stopping'
    <2>1. /\ pc' = pc /\ k' = k /\ booted' = booted /\ expired' = expired
          /\ \A j \in Module : j # m => st'[j] = st[j]
        BY DEF IInv, Types, bootVars, UponShutdownReq, Fail
    <2>2. \A j \in 1..booted : j \in Module /\ st[j] \notin {"forked", "starting"}
        BY DEF IInv, Types, Announced, Module
    <2>3. \A j \in 1..booted :
              st[j] \notin {"starting", "serving"} => st'[j] \notin {"starting", "serving"}
        BY <2>1, <2>2 DEF IInv, Types, UponShutdownReq, Fail
    <2>4. pc \in {"shutdown", "wait_ack"} => k \in 0..booted
        BY DEF IInv, Types, Position
    <2>5. pc = "wait_ack" => k \in 1..booted
        BY DEF IInv, Position
    <2>6. (pc' = "wait_ack" /\ acked') => st'[k] \notin {"starting", "serving"}
        BY <2>1, <2>3, <2>5 DEF IInv, Types, Stopping, UponShutdownReq, Fail
    <2>7. pc \in {"shutdown", "wait_ack"} =>
              \A j \in (k + 1)..booted : j \in 1..booted
        BY <2>4 DEF IInv, Types
    <2> QED
        BY <2>1, <2>3, <2>6, <2>7 DEF IInv, Stopping
<1> QED
    BY <1>1, <1>2, <1>3, <1>4, <1>5, <1>6, <1>7 DEF IInv

\* The steps of UnregisterContext preserve it.
LEMMA EndIInv ==
    ASSUME IInv, NEW m \in Module, Poison(m) \/ ReportShutdown(m) \/ UnregisterContext(m)
    PROVE  IInv'
<1> USE ModulesAssumption
<1>1. Types'
    <2>1. CASE Poison(m) \/ ReportShutdown(m)
        BY <2>1 DEF IInv, Types, ModStates, Poison, ReportShutdown, bootVars
    <2>2. CASE UnregisterContext(m)
        <3>1. listeners[m] \in Nat /\ told[m] \in Nat
            BY DEF IInv, Types
        <3>2. told' \in [Module -> Nat] /\ listeners' \in [Module -> Nat]
            BY <2>2, <3>1 DEF IInv, Types, UnregisterContext, UnregisterChannel
        <3> QED
            BY <2>2, <3>2 DEF IInv, Types, ModStates, UnregisterContext,
                              UnregisterChannel, bootVars
    <2> QED
        BY <2>1, <2>2
<1>2. Position'
    BY DEF IInv, Types, Position, Module,
           Poison, ReportShutdown, UnregisterContext, UnregisterChannel, bootVars
<1>3. Unreached'
    BY DEF IInv, Types, Position, Unreached, Module,
           Poison, ReportShutdown, UnregisterContext, UnregisterChannel, bootVars
<1>4. Listening'
    <2>1. CASE Poison(m) \/ ReportShutdown(m)
        BY <2>1 DEF IInv, Types, Listening, Poison, ReportShutdown
    <2>2. CASE UnregisterContext(m)
        <3>1. m \in registered /\ listeners[m] = 1 /\ told[m] = 0
            BY <2>2 DEF IInv, Listening, UnregisterContext
        <3>2. told' = [told EXCEPT ![m] = 1]
            BY <2>2, <3>1 DEF IInv, Types, UnregisterContext, UnregisterChannel
        <3> QED
            BY <2>2, <3>2 DEF IInv, Types, Listening, UnregisterContext, UnregisterChannel
    <2> QED
        BY <2>1, <2>2
<1>5. Outbox'
    <2>1. CASE Poison(m) \/ UnregisterContext(m)
        BY <2>1 DEF IInv, Outbox, Poison, UnregisterContext
    <2>2. CASE ReportShutdown(m)
        <3>1. outbound'[m] = Append(outbound[m], "MSG_PROC_SHUTDOWN_EVT")
            BY <2>2 DEF IInv, Outbox, ReportShutdown
        <3>2. /\ outbound'[m] \in Seq({"MSG_PROC_READY", "MSG_PROC_SHUTDOWN_EVT"})
              /\ Len(outbound'[m]) = Len(outbound[m]) + 1
              /\ \A n \in 1..Len(outbound[m]) : outbound'[m][n] = outbound[m][n]
              /\ outbound'[m][Len(outbound[m]) + 1] = "MSG_PROC_SHUTDOWN_EVT"
            BY <3>1 DEF IInv, Outbox
        <3>3. \A i \in Module : i # m => outbound'[i] = outbound[i]
            BY <2>2 DEF IInv, Outbox, ReportShutdown
        <3>4. outbound' \in [Module -> Seq({"MSG_PROC_READY", "MSG_PROC_SHUTDOWN_EVT"})]
            BY <2>2, <3>1, <3>2 DEF IInv, Outbox, ReportShutdown
        <3>5. ready \subseteq ready' /\ ("MSG_PROC_SHUTDOWN_EVT" = "MSG_PROC_READY" => m \in ready')
            BY <2>2 DEF ReportShutdown
        <3>6. Len(outbound[m]) \in Nat
            BY DEF IInv, Outbox
        <3>7. ASSUME NEW n \in 1..Len(outbound'[m]), outbound'[m][n] = "MSG_PROC_READY"
              PROVE  m \in ready'
            <4>1. CASE n \in 1..Len(outbound[m])
                BY <3>2, <3>5, <3>7, <4>1 DEF IInv, Outbox
            <4>2. CASE n = Len(outbound[m]) + 1
                BY <3>2, <3>5, <3>7, <4>2
            <4> QED
                BY <3>2, <3>6, <4>1, <4>2
        <3> QED
            BY <3>3, <3>4, <3>5, <3>7 DEF IInv, Outbox
    <2> QED
        BY <2>1, <2>2
<1>6. Announced'
    BY DEF IInv, Types, Position, Announced, Module,
           Poison, ReportShutdown, UnregisterContext, UnregisterChannel, bootVars
<1>7. Stopping'
    <2>1. /\ pc' = pc /\ k' = k /\ booted' = booted /\ expired' = expired
          /\ \A j \in Module : j # m => st'[j] = st[j]
        BY DEF IInv, Types, bootVars, Poison, ReportShutdown, UnregisterContext
    <2>2. \A j \in 1..booted : j \in Module /\ st[j] \notin {"forked", "starting"}
        BY DEF IInv, Types, Announced, Module
    <2>3. \A j \in 1..booted :
              st[j] \notin {"starting", "serving"} => st'[j] \notin {"starting", "serving"}
        BY <2>1, <2>2 DEF IInv, Types, Poison, ReportShutdown, UnregisterContext
    <2>4. pc \in {"shutdown", "wait_ack"} => k \in 0..booted
        BY DEF IInv, Types, Position
    <2>5. pc = "wait_ack" => k \in 1..booted
        BY DEF IInv, Position
    <2>6. (pc' = "wait_ack" /\ acked') => st'[k] \notin {"starting", "serving"}
        BY <2>1, <2>3, <2>5 DEF IInv, Types, Stopping, Poison, ReportShutdown, UnregisterContext
    <2>7. pc \in {"shutdown", "wait_ack"} =>
              \A j \in (k + 1)..booted : j \in 1..booted
        BY <2>4 DEF IInv, Types
    <2> QED
        BY <2>1, <2>3, <2>6, <2>7 DEF IInv, Stopping
<1> QED
    BY <1>1, <1>2, <1>3, <1>4, <1>5, <1>6, <1>7 DEF IInv

\* Every step of ModuleBoot preserves the inductive invariant.
LEMMA NextIInv == IInv /\ [Next]_vars => IInv'
<1> SUFFICES ASSUME IInv, [Next]_vars PROVE IInv'
    OBVIOUS
<1>1. CASE UNCHANGED vars
    BY <1>1 DEF IInv, Types, Position, Unreached, Listening, Outbox, Announced,
                Stopping, vars, bootVars, modVars
<1>2. CASE BootStep
    BY <1>2, LoadIInv, CreateIInv, ForkIInv, WaitTillReadyIInv, WaitTillReadyTimeoutIInv,
       ShutdownIInv, ShutdownAcknowledgedIInv, ShutdownTimeoutIInv, OtherBootIInv
       DEF BootStep
<1>3. CASE Close
    BY <1>3, OtherBootIInv
<1>4. ASSUME NEW i \in Module, ModuleStep(i) \/ Fail(i) PROVE IInv'
    BY <1>4, StartIInv, LeaveIInv, EndIInv DEF ModuleStep
<1> QED
    BY <1>1, <1>2, <1>3, <1>4 DEF Next

\* The inductive invariant holds throughout every behaviour.
THEOREM Invariance == Spec => []IInv
<1> QED
    BY InitIInv, NextIInv, PTL DEF Spec

\* What TypeOK says beyond the inductive invariant, which does not need it.
Domains ==
    /\ k \in 0..(NumModules + 1)
    /\ closing \in BOOLEAN
    /\ acked \in BOOLEAN
    /\ inbound \in [Module -> Seq(Source)]

\* A shutdown request added to a channel is one of the two kinds.
LEMMA SendShutdownReqType ==
    ASSUME Domains, NEW i \in Module, NEW source \in Source, SendShutdownReq(i, source)
    PROVE  inbound' \in [Module -> Seq(Source)]
<1>1. Append(inbound[i], source) \in Seq(Source)
    BY AppendProperties DEF Domains
<1> QED
    BY <1>1 DEF SendShutdownReq, Domains

\* The loops of BootModulesSimple and ShutdownModules stay within proc_handlepairs.
LEMMA BootDomains ==
    ASSUME IInv, Domains, BootStep \/ Close
    PROVE  Domains'
<1>1. /\ pc \in {"create", "fork", "wait_ready"} => k \in Module /\ k = booted + 1
      /\ booted \in 0..NumModules /\ k \in Int
      /\ pc \in {"shutdown", "wait_ack"} => k \in 0..booted
      /\ pc = "wait_ack" => k \in 1..booted
    BY ModulesAssumption DEF IInv, Types, Position
<1>0. acked' \in BOOLEAN /\ closing' \in BOOLEAN
    BY DEF BootStep, LoadConfiguredModules, Create, Fork, WaitTillReady, WaitTillReadyTimeout,
       Shutdown, ShutdownAcknowledged, ShutdownTimeout, ShutdownModulesReturns, Close,
       UnReliableShutdownAll, JoinForked, Domains
<1>2. CASE \E ok \in BOOLEAN : LoadConfiguredModules(ok) \/ Create(ok)
    BY <1>0, <1>1, <1>2, ModulesAssumption DEF LoadConfiguredModules, Create, FirstOf, Domains, Module
<1>3. CASE Fork \/ WaitTillReady
    BY <1>0, <1>1, <1>3, ModulesAssumption DEF Fork, WaitTillReady, FirstOf, Domains, Module
<1>4. CASE WaitTillReadyTimeout
    <2>1. inbound' \in [Module -> Seq(Source)]
        BY <1>1, <1>4, SendShutdownReqType DEF WaitTillReadyTimeout, Source
    <2> QED
        BY <1>0, <1>1, <1>4, <2>1, ModulesAssumption DEF WaitTillReadyTimeout, FirstOf, Domains
<1>5. CASE Shutdown
    <2>1. k \in Module
        BY <1>1, <1>5, ModulesAssumption DEF Shutdown, Module
    <2>2. inbound' \in [Module -> Seq(Source)]
        BY <1>5, <2>1, SendShutdownReqType DEF Shutdown, Source
    <2> QED
        BY <1>0, <1>1, <1>5, <2>1, <2>2, ModulesAssumption DEF Shutdown, NextOf, Domains, Module
<1>6. CASE ShutdownAcknowledged \/ ShutdownTimeout
    BY <1>0, <1>1, <1>6, ModulesAssumption DEF ShutdownAcknowledged, ShutdownTimeout, NextOf, Domains
<1>7. CASE ShutdownModulesReturns \/ JoinForked \/ Close
    BY <1>0, <1>1, <1>7, ModulesAssumption DEF ShutdownModulesReturns, JoinForked, Close, FirstOf, Domains
<1>8. CASE UnReliableShutdownAll
    <2>1. \A i \in Module : Append(inbound[i], "none") \in Seq(Source)
        BY AppendProperties DEF Domains, Source
    <2> QED
        BY <1>0, <1>8, <2>1 DEF UnReliableShutdownAll, Domains
<1> QED
    BY <1>2, <1>3, <1>4, <1>5, <1>6, <1>7, <1>8 DEF BootStep

\* A module takes requests from its own channel only.
LEMMA ModuleDomains ==
    ASSUME IInv, Domains, NEW i \in Module, ModuleStep(i) \/ Fail(i)
    PROVE  Domains'
<1>1. CASE UponShutdownReq(i)
    <2>1. Tail(inbound[i]) \in Seq(Source)
        BY <1>1, HeadTailProperties DEF UponShutdownReq, Domains
    <2>2. acked' \in BOOLEAN
        BY <1>1 DEF UponShutdownReq, Domains
    <2> QED
        BY <1>1, <2>1, <2>2 DEF UponShutdownReq, Domains, bootVars
<1>2. CASE Poison(i)
    BY <1>2, EmptySeq DEF Poison, Domains, bootVars
<1>3. CASE \/ RegisterContext(i) \/ SendReadyMessage(i) \/ ReportShutdown(i)
           \/ UnregisterContext(i) \/ Fail(i)
    BY <1>3 DEF RegisterContext, SendReadyMessage, ReportShutdown, UnregisterContext, Fail,
       Domains, bootVars
<1> QED
    BY <1>1, <1>2, <1>3 DEF ModuleStep

\* Every variable of the boot process and of the modules stays in its domain; the
\* loop variable never leaves proc_handlepairs by more than its end.
THEOREM TypeCorrect == Spec => []TypeOK
<1>1. Init => Domains
    <2>1. Init => closing \in BOOLEAN /\ acked \in BOOLEAN
        BY DEF Init
    <2>2. Init => k \in 0..(NumModules + 1) /\ inbound \in [Module -> Seq(Source)]
        BY EmptySeq, ModulesAssumption DEF Init
    <2> QED
        BY <2>1, <2>2 DEF Domains
<1>2. IInv /\ Domains /\ [Next]_vars => Domains'
    <2>1. IInv /\ Domains /\ UNCHANGED vars => Domains'
        BY DEF vars, bootVars, Domains
    <2> QED
        BY <2>1, BootDomains, ModuleDomains DEF Next
<1>3. IInv /\ Domains => TypeOK
    BY DEF IInv, Types, Outbox, Domains, TypeOK
<1> QED
    BY <1>1, <1>2, <1>3, Invariance, PTL DEF Spec

\* For any number of modules, a module exists only when every module
\* configured before it has announced itself ready (BootModulesSimple).
THEOREM ServicesFirst == Spec => []DependenciesReady
<1>1. IInv => DependenciesReady
    <2> SUFFICES ASSUME IInv, NEW i \in Module, st[i] # "none", NEW j \in 1..(i - 1)
                 PROVE  j \in ready
        BY DEF DependenciesReady
    <2>1. i <= booted + 1
        BY ModulesAssumption DEF IInv, Types, Unreached, Module
    <2> QED
        BY <2>1, ModulesAssumption DEF IInv, Types, Announced, Module
<1> QED
    BY <1>1, Invariance, PTL

\* For any number of modules, a shutdown listener is told exactly once, when
\* the module has left the handle map (UnregisterChannel).
THEOREM ToldOnce == Spec => []ListenerToldOnce
<1>1. IInv => ListenerToldOnce
    BY DEF IInv, Listening, ListenerToldOnce
<1> QED
    BY <1>1, Invariance, PTL

\* For any number of modules, ShutdownModules reaches a module only when the
\* ones booted after it are leaving, gone, or did not answer in time.
THEOREM ReverseOrder == Spec => []ReverseShutdown
<1>1. IInv => ReverseShutdown
    BY DEF IInv, Stopping, ReverseShutdown
<1> QED
    BY <1>1, Invariance, PTL
=============================================================================

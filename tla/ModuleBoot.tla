------------------------------ MODULE ModuleBoot ------------------------------
(***************************************************************************)
(* Booting and stopping the configured modules: init and close of          *)
(* iw_lualib on top of BootModulesSimple, WaitTillReady, Shutdown and      *)
(* ShutdownModules of iw_core, together with the life of every module      *)
(* process (LightweightProcess::run, RegisterContext, UnregisterContext)   *)
(* and the shutdown listeners of LocalProcessRegistrar.                    *)
(*                                                                         *)
(* Module i is the i-th of the configuration's "modules" array.  The boot  *)
(* process and every module run on threads of their own; a timer may       *)
(* expire whenever the message waited for has not arrived.                 *)
(***************************************************************************)
EXTENDS Integers, Sequences, FiniteSets

CONSTANT NumModules     \* length of "modules" in conf.json

ASSUME ModulesAssumption == NumModules \in Nat

VARIABLES
    pc,         \* where init/close is
    k,          \* the module being booted or shut down
    booted,     \* proc_handlepairs is the pairs of modules 1..booted
    closing,    \* ShutdownModules was called by close
    acked,      \* the response of the running Shutdown transaction has arrived
    st,         \* where every module process is
    inbound,    \* requests in a module's inbound channel, by their source
    outbound,   \* messages in a module's outbound channel
    registered, \* modules in _locProcessesMap
    listeners,  \* shutdown listeners in _listenersMap
    told,       \* MsgShutdownEvts in the listener's channel
    ready,      \* history: modules that sent MSG_PROC_READY
    expired     \* history: modules whose Shutdown transaction timed out

bootVars == <<pc, k, booted, closing>>
modVars  == <<st, outbound, registered, listeners, told, ready>>
vars     == <<bootVars, acked, inbound, modVars, expired>>

-----------------------------------------------------------------------------
Module == 1..NumModules

BootStates == {"load", "create", "fork", "wait_ready", "shutdown", "wait_ack",
               "up", "failed", "shut_all", "join", "closed"}
ModStates  == {"none", "created", "forked", "starting", "serving", "leaving",
               "poisoned", "reported", "dead"}

\* A thread runs the process, or will.
Alive(i) == st[i] \notin {"none", "created", "dead"}
Poisoned(i) == st[i] \in {"poisoned", "reported", "dead"}

\* A request carries the handle of the Shutdown transaction, or none.
Source == {"txn", "none"}

Init ==
    /\ pc = "load"
    /\ k = 1
    /\ booted = 0
    /\ closing = FALSE
    /\ acked = FALSE
    /\ st = [i \in Module |-> "none"]
    /\ inbound = [i \in Module |-> <<>>]
    /\ outbound = [i \in Module |-> <<>>]
    /\ registered = {}
    /\ listeners = [i \in Module |-> 0]
    /\ told = [i \in Module |-> 0]
    /\ ready = {}
    /\ expired = {}

-----------------------------------------------------------------------------
(* Mutants: plausible bugs, used only to show that the properties notice.  *)

\* Whatever the module says first counts as "ready".
ReadyAnyway ==
    /\ pc = "wait_ready"
    /\ outbound[k] # <<>>
    /\ outbound' = [outbound EXCEPT ![k] = Tail(@)]
    /\ booted' = booted + 1
    /\ k' = k + 1
    /\ pc' = IF k = NumModules THEN "up" ELSE "create"
    /\ UNCHANGED <<closing, acked, st, inbound, registered, listeners, told, ready, expired>>

\* A module that is late is given up without a shutdown request.
GiveUpSilently ==
    /\ pc = "wait_ready"
    /\ outbound[k] = <<>>
    /\ pc' = "shutdown"
    /\ k' = booted
    /\ UNCHANGED <<booted, closing, acked, inbound, modVars, expired>>

\* The roll-back skips the pair that was pushed last.
FirstButLast == IF booted = 0 THEN 0 ELSE booted - 1

\* The iterator is advanced by the loop and by its body.
NextButOne(i) == i - 2

\* UnregisterChannel forgets the listeners without telling them.
TellNobody(i) ==
    /\ registered' = registered \ {i}
    /\ listeners' = [listeners EXCEPT ![i] = 0]
    /\ UNCHANGED told

\* The shutdown request is acknowledged, the loop goes on.
AcknowledgeAndStay(i) ==
    /\ st[i] = "serving"
    /\ inbound[i] # <<>>
    /\ inbound' = [inbound EXCEPT ![i] = Tail(@)]
    /\ acked' = (acked \/ (pc = "wait_ack" /\ k = i /\ Head(inbound[i]) = "txn"))
    /\ UNCHANGED <<bootVars, modVars, expired>>

-----------------------------------------------------------------------------
(* Sending MsgShutdownReq to a module; its poisoned channel keeps nothing. *)
SendShutdownReq(i, source) ==
    inbound' = [inbound EXCEPT ![i] = IF Poisoned(i) THEN @ ELSE Append(@, source)]

\* ShutdownModules walks proc_handlepairs from its end; 0 is rend().
FirstOf == booted
NextOf(i) == i - 1

(* init: LoadConfiguredModules.                                            *)
LoadConfiguredModules(ok) ==
    /\ pc = "load"
    /\ pc' = IF ~ok THEN "failed" ELSE IF NumModules = 0 THEN "up" ELSE "create"
    /\ UNCHANGED <<k, booted, closing, acked, inbound, modVars, expired>>

(* BootModulesSimple: AddShutdownListener, then Create, which may throw.   *)
Create(ok) ==
    /\ pc = "create"
    /\ listeners' = [listeners EXCEPT ![k] = @ + 1]
    /\ st' = [st EXCEPT ![k] = IF ok THEN "created" ELSE @]
    /\ pc' = IF ok THEN "fork" ELSE "shutdown"
    /\ k' = IF ok THEN k ELSE FirstOf
    /\ UNCHANGED <<booted, closing, acked, inbound, outbound, registered, told, ready, expired>>

Fork ==
    /\ pc = "fork"
    /\ st' = [st EXCEPT ![k] = "forked"]
    /\ pc' = "wait_ready"
    /\ UNCHANGED <<k, booted, closing, acked, inbound, outbound, registered,
                   listeners, told, ready, expired>>

\* WaitTillReady: the first message on the outbound handle decides; READY
\* lets the next module boot, anything else begins the roll-back.
WaitTillReady ==
    /\ pc = "wait_ready"
    /\ outbound[k] # <<>>
    /\ outbound' = [outbound EXCEPT ![k] = Tail(@)]
    /\ IF Head(outbound[k]) = "MSG_PROC_READY"
       THEN /\ booted' = booted + 1
            /\ k' = k + 1
            /\ pc' = IF k = NumModules THEN "up" ELSE "create"
       ELSE /\ pc' = "shutdown"
            /\ k' = FirstOf
            /\ UNCHANGED booted
    /\ UNCHANGED <<closing, acked, st, inbound, registered, listeners, told, ready, expired>>

\* WaitTillReady: a late module is sent a shutdown request nobody waits for.
WaitTillReadyTimeout ==
    /\ pc = "wait_ready"
    /\ outbound[k] = <<>>
    /\ SendShutdownReq(k, "none")
    /\ pc' = "shutdown"
    /\ k' = FirstOf
    /\ UNCHANGED <<booted, closing, acked, modVars, expired>>

-----------------------------------------------------------------------------
(* ShutdownModules: Shutdown, a transaction, for one pair after the other. *)
Shutdown ==
    /\ pc = "shutdown"
    /\ k # 0
    /\ SendShutdownReq(k, "txn")
    /\ acked' = FALSE
    /\ IF Poisoned(k)                       \* Send fails
       THEN k' = NextOf(k) /\ UNCHANGED pc
       ELSE pc' = "wait_ack" /\ UNCHANGED k
    /\ UNCHANGED <<booted, closing, modVars, expired>>

ShutdownAcknowledged ==
    /\ pc = "wait_ack"
    /\ acked
    /\ pc' = "shutdown"
    /\ k' = NextOf(k)
    /\ acked' = FALSE
    /\ UNCHANGED <<booted, closing, inbound, modVars, expired>>

ShutdownTimeout ==
    /\ pc = "wait_ack"
    /\ ~acked
    /\ pc' = "shutdown"
    /\ k' = NextOf(k)
    /\ expired' = expired \cup {k}
    /\ UNCHANGED <<booted, closing, acked, inbound, modVars>>

\* ShutdownModules returns to close, or to init, whose error path calls
\* End_CPPCSP.
ShutdownModulesReturns ==
    /\ pc = "shutdown"
    /\ k = 0
    /\ pc' = IF closing THEN "shut_all" ELSE "failed"
    /\ UNCHANGED <<k, booted, closing, acked, inbound, modVars, expired>>

(* close                                                                   *)
Close ==
    /\ pc = "up"
    /\ closing' = TRUE
    /\ k' = FirstOf
    /\ pc' = "shutdown"
    /\ UNCHANGED <<booted, acked, inbound, modVars, expired>>

UnReliableShutdownAll ==
    /\ pc = "shut_all"
    /\ inbound' = [i \in Module |-> IF i \in registered /\ ~Poisoned(i)
                                    THEN Append(inbound[i], "none")
                                    ELSE inbound[i]]
    /\ pc' = "join"
    /\ UNCHANGED <<k, booted, closing, acked, modVars, expired>>

\* delete g_forking waits for every forked process.
JoinForked ==
    /\ pc = "join"
    /\ \A i \in Module : ~Alive(i)
    /\ pc' = "closed"
    /\ UNCHANGED <<k, booted, closing, acked, inbound, modVars, expired>>

-----------------------------------------------------------------------------
(* LightweightProcess::run                                                 *)
RegisterContext(i) ==
    /\ st[i] = "forked"
    /\ registered' = registered \cup {i}
    /\ st' = [st EXCEPT ![i] = "starting"]
    /\ UNCHANGED <<bootVars, acked, inbound, outbound, listeners, told, ready, expired>>

SendReadyMessage(i) ==
    /\ st[i] = "starting"
    /\ st' = [st EXCEPT ![i] = "serving"]
    /\ outbound' = [outbound EXCEPT ![i] = Append(@, "MSG_PROC_READY")]
    /\ ready' = ready \cup {i}
    /\ UNCHANGED <<bootVars, acked, inbound, registered, listeners, told, expired>>

\* The message loop of a module: the request is acknowledged, to the
\* transaction that sent it while it lasts, and the loop ends.
UponShutdownReq(i) ==
    /\ st[i] = "serving"
    /\ inbound[i] # <<>>
    /\ inbound' = [inbound EXCEPT ![i] = Tail(@)]
    /\ acked' = (acked \/ (pc = "wait_ack" /\ k = i /\ Head(inbound[i]) = "txn"))
    /\ st' = [st EXCEPT ![i] = "leaving"]
    /\ UNCHANGED <<bootVars, outbound, registered, listeners, told, ready, expired>>

\* real_run returns early or throws, before or after it was ready.
Fail(i) ==
    /\ st[i] \in {"starting", "serving"}
    /\ st' = [st EXCEPT ![i] = "leaving"]
    /\ UNCHANGED <<bootVars, acked, inbound, outbound, registered, listeners, told, ready, expired>>

\* UnregisterContext, in three steps: poison the inbound channel,
Poison(i) ==
    /\ st[i] = "leaving"
    /\ st' = [st EXCEPT ![i] = "poisoned"]
    /\ inbound' = [inbound EXCEPT ![i] = <<>>]
    /\ UNCHANGED <<bootVars, acked, outbound, registered, listeners, told, ready, expired>>

\* tell whoever reads the outbound handle,
ReportShutdown(i) ==
    /\ st[i] = "poisoned"
    /\ st' = [st EXCEPT ![i] = "reported"]
    /\ outbound' = [outbound EXCEPT ![i] = Append(@, "MSG_PROC_SHUTDOWN_EVT")]
    /\ UNCHANGED <<bootVars, acked, inbound, registered, listeners, told, ready, expired>>

\* and unregister, which tells every shutdown listener and drops them.
UnregisterChannel(i) ==
    /\ registered' = registered \ {i}
    /\ listeners' = [listeners EXCEPT ![i] = 0]
    /\ told' = [told EXCEPT ![i] = @ + (IF i \in registered THEN listeners[i] ELSE 0)]

UnregisterContext(i) ==
    /\ st[i] = "reported"
    /\ UnregisterChannel(i)
    /\ st' = [st EXCEPT ![i] = "dead"]
    /\ UNCHANGED <<bootVars, acked, inbound, outbound, ready, expired>>

-----------------------------------------------------------------------------
BootStep ==
    \/ \E ok \in BOOLEAN : LoadConfiguredModules(ok) \/ Create(ok)
    \/ Fork
    \/ WaitTillReady
    \/ WaitTillReadyTimeout
    \/ Shutdown
    \/ ShutdownAcknowledged
    \/ ShutdownTimeout
    \/ ShutdownModulesReturns
    \/ UnReliableShutdownAll
    \/ JoinForked

ModuleStep(i) ==
    \/ RegisterContext(i)
    \/ SendReadyMessage(i)
    \/ UponShutdownReq(i)
    \/ Poison(i)
    \/ ReportShutdown(i)
    \/ UnregisterContext(i)

Next ==
    \/ BootStep
    \/ Close
    \/ \E i \in Module : ModuleStep(i) \/ Fail(i)

\* Threads that can run do run and timers expire.  Nobody has to call
\* close, and a module need not fail.
Fairness == WF_vars(BootStep) /\ \A i \in Module : WF_vars(ModuleStep(i))

Spec == Init /\ [][Next]_vars
FairSpec == Spec /\ Fairness

-----------------------------------------------------------------------------
(* Properties                                                              *)

\* Every variable stays in its domain.
TypeOK ==
    /\ pc \in BootStates
    /\ k \in 0..(NumModules + 1)
    /\ booted \in 0..NumModules
    /\ closing \in BOOLEAN
    /\ acked \in BOOLEAN
    /\ st \in [Module -> ModStates]
    /\ inbound \in [Module -> Seq(Source)]
    /\ outbound \in [Module -> Seq({"MSG_PROC_READY", "MSG_PROC_SHUTDOWN_EVT"})]
    /\ registered \subseteq Module
    /\ listeners \in [Module -> Nat]
    /\ told \in [Module -> Nat]
    /\ ready \subseteq Module
    /\ expired \subseteq Module

\* A module runs only after every module configured before it has announced
\* itself ready: BootModulesSimple lets a module rely on the services of the
\* earlier ones (ProcIvr looks up and subscribes to the SIP stack), however
\* the earlier ones fail, time out or end.
DependenciesReady ==
    \A i \in Module : st[i] # "none" => \A j \in 1..(i - 1) : j \in ready

\* Whoever listens to a module's shutdown is told exactly once: not before
\* the module has poisoned its channel and left the handle map, and never
\* again after it (UnregisterChannel of LocalProcessRegistrar).
ListenerToldOnce ==
    \A i \in Module : told[i] = (IF st[i] = "dead" THEN 1 ELSE 0)

\* ShutdownModules stops the modules in reverse order: while it asks one to
\* stop, every module booted after it is leaving or gone, unless it did not
\* answer in time ("shutdown in reverse order (pop) first one").
ReverseShutdown ==
    pc \in {"shutdown", "wait_ack"} =>
        \A j \in (k + 1)..booted : st[j] \notin {"starting", "serving"} \/ j \in expired

\* A boot that failed leaves no module running for ever: the booted ones,
\* and the one that was late and not in proc_handlepairs, all end.
FailedBootEndsAll ==
    pc = "failed" ~> \A i \in Module : ~Alive(i)

\* close returns, whatever the modules were doing, and nothing runs after it.
CloseReturns ==
    closing ~> (pc = "closed" /\ \A i \in Module : ~Alive(i))

\* "all C++CSP2 function calls take place ... before End_CPPCSP() is called":
\* init's error path ends the runtime only when no process uses it any more.
CspCallsBeforeEnd ==
    pc = "failed" => \A i \in Module : ~Alive(i)
=============================================================================

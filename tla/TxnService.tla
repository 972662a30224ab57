----------------------------- MODULE TxnService -----------------------------
(***************************************************************************)
(* What a request/response transaction promises its caller, without        *)
(* channels, handles or a registrar: a transaction is opened once, it is   *)
(* closed once, it is closed as successful only if some process has        *)
(* replied to this very transaction or everything is being torn down, and  *)
(* it is not left open forever.                                            *)
(***************************************************************************)
CONSTANT TxnId

VARIABLES
    status,     \* transaction id -> "none", "open" or the code it returned with
    replied,    \* the transactions somebody has replied to
    down        \* the system is being torn down

svars == <<status, replied, down>>

Failures == {"API_TIMEOUT", "API_UNKNOWN_RESPONSE", "API_UNKNOWN_DESTINATION"}

Init ==
    /\ status = [t \in TxnId |-> "none"]
    /\ replied = {}
    /\ down = FALSE

Open(t) ==
    /\ status[t] = "none"
    /\ status' = [status EXCEPT ![t] = "open"]
    /\ UNCHANGED <<replied, down>>

\* A reply may come late, or a second time: it does not change the status.
Reply(t) ==
    /\ status[t] # "none"
    /\ replied' = replied \cup {t}
    /\ UNCHANGED <<status, down>>

Succeed(t) ==
    /\ status[t] = "open"
    /\ t \in replied \/ down
    /\ status' = [status EXCEPT ![t] = "API_SUCCESS"]
    /\ UNCHANGED <<replied, down>>

Fail(t) ==
    /\ status[t] = "open"
    /\ \E code \in Failures : status' = [status EXCEPT ![t] = code]
    /\ UNCHANGED <<replied, down>>

TearDown ==
    /\ ~down
    /\ down' = TRUE
    /\ UNCHANGED <<status, replied>>

Next == TearDown \/ \E t \in TxnId : Open(t) \/ Reply(t) \/ Succeed(t) \/ Fail(t)

SafeSpec == Init /\ [][Next]_svars
Spec == SafeSpec /\ \A t \in TxnId : WF_svars(Succeed(t) \/ Fail(t))
=============================================================================

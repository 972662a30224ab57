\* A session that makes calls, retries, re-offers, transfers and hangs up, or one
\* that is offered a call, of a script that subscribes up to twice.
SPECIFICATION FairSpec
CONSTANTS
    Uac = {u1}
    Uas = {i1}
    NoSession = NoSession
    CALL_INDEX = 10
    MaxContexts = 2
    MaxUacTxn = 5
    MaxUasTxn = 3
    MaxSubscribes = 2
    Mixed = FALSE
INVARIANTS TypeOK GoneIsTold 
PROPERTIES ImplementsCallService NoOrphanCall HangupIsLearnt
CHECK_DEADLOCK FALSE

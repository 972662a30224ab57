\* One call whose MakeCall may time out.
SPECIFICATION FairSpec
CONSTANTS
    Uac = {u1}
    Uas = {}
    NoSession = NoSession
    CALL_INDEX = 10
    MaxContexts = 1
    MaxUacTxn = 1
    MaxUasTxn = 0
    MaxSubscribes = 0
    Mixed = FALSE
PROPERTIES TimedOutCallHungUp
CHECK_DEADLOCK FALSE

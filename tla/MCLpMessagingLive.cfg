SPECIFICATION FairSpec
CONSTANTS
    NumProcs = 2
    MaxUid = 4
    MaxTxnId = 2
    MAX_MESSAGES_IN_QUEUE = 3
PROPERTIES
    ImplementsFairTxnService
CHECK_DEADLOCK FALSE

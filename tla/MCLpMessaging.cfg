SPECIFICATION Spec
CONSTANTS
    NumProcs = 2
    MaxUid = 4
    MaxTxnId = 3
    MAX_MESSAGES_IN_QUEUE = 2
INVARIANTS
    TypeOK
    ResponseMatchesRequest
    RegistrationsMatch
    
PROPERTIES
    ImplementsTxnService
CHECK_DEADLOCK FALSE

\* One object, started up to three times, with a channel that fills up.
SPECIFICATION FairSpec
CONSTANTS
    MaxListeners = 3
    MaxSends = 4
    MAX_MESSAGES_IN_QUEUE = 2
INVARIANTS
    TypeOK
    NoUseAfterDelete
    OneListener
    JoinBeforeFlush

    
\* The owner may keep the object, and after the deletion nothing happens.
CHECK_DEADLOCK FALSE

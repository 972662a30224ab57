\* One session: three requests after the first Allocate, two contexts.
SPECIFICATION FairSpec
CONSTANTS
    Session = {s1}
    MAX_MESSAGES_IN_QUEUE = 1
    MaxHandles = 2
    MaxTxn = 4
    MaxPort = 2
INVARIANTS TypeOK ResponseOfItsKind DestroyedOnce
PROPERTIES SpeakEndIsHeard NoOrphanContext
CHECK_DEADLOCK FALSE

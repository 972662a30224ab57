\* One session: a channel with one place, four requests after the first Allocate.
SPECIFICATION FairSpec
CONSTANTS
    Session = {s1}
    MAX_MESSAGES_IN_QUEUE = 1
    MaxHandles = 2
    MaxTxn = 5
    MaxEof = 2
    MaxHangups = 1
INVARIANTS TypeOK CodecOfEveryPlayer NotPlayingIsTrue JoinOnlyBehindUnreadStops
PROPERTIES SyncPlayEndsWithItsFile  
CHECK_DEADLOCK FALSE

\* Three sessions of one script, three connections: enough for a peer's stale peer.
SPECIFICATION Spec
CONSTANTS
    NumConns = 3
    Script = {p}
    Slot = {a, b, c}
    MaxTxn = 6
    MaxFaults = 1
INVARIANTS
    TypeOK
    NoLeak
    ExclusiveUntilBridged
PROPERTIES
    AcknowledgedBridgePlays
SYMMETRY SlotSymmetry
CHECK_DEADLOCK FALSE

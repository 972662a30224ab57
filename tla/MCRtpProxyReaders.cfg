\* Three sessions of one script, no timeouts.
SPECIFICATION Spec
CONSTANTS
    NumConns = 3
    Script = {p}
    Slot = {a, b, c}
    MaxTxn = 6
    MaxFaults = 0
INVARIANT OneReader
SYMMETRY SlotSymmetry
CHECK_DEADLOCK FALSE

SPECIFICATION FairSpec
CONSTANTS
    Kinds <- MCKinds
    Widths = {1, 2, 3}
    MaxMessages = 3
    MaxRawBytes = 4
    Buffer = 1
    MaxEvents = 4
    MaxSwitches = 1
INVARIANTS TypeOK NoGaps LinesOfMode Aligned OnePump
PROPERTY Drains

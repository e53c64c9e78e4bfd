SPECIFICATION FairFingerSpec
CONSTANTS
    Messages <- MCMessages
    FingerIds = {u1}
    InvalidId = idFFFF
    RetryCount = 2
    MaxPressed = 1
    MaxRx = 1
    MaxStops = 0
PROPERTIES SessionEnds LoopGoesOn HoldingKeyLocks

SPECIFICATION FingerSpec
CONSTANTS
    Messages <- MCMessages
    FingerIds = {u1}
    InvalidId = idFFFF
    RetryCount = 3
    MaxPressed = 1
    MaxRx = 1
    MaxStops = 1
INVARIANT StopIsSafe

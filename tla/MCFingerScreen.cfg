SPECIFICATION FingerSpec
CONSTANTS
    Messages <- MCMessages
    FingerIds = {u1}
    InvalidId = idFFFF
    RetryCount = 3
    MaxPressed = 2
    MaxRx = 1
    MaxStops = 0
INVARIANT LockShowsWelcome

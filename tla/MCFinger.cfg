SPECIFICATION FingerSpec
CONSTANTS
    Messages <- MCMessages
    FingerIds = {u1}
    InvalidId = idFFFF
    RetryCount = 3
    MaxPressed = 1
    MaxRx = 2
    MaxStops = 1
INVARIANTS FingerTypeOK MatchIsFresh FlagFollowsBolt VerifyingOnlyInSession FingerIsPrompted
PROPERTY BoltImplementsDoorAccess

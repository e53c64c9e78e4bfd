SPECIFICATION CabinetSpec
CONSTANTS
    Messages <- MCMessages
    FingerIds = {u1, u2}
    ZeroId = id0000
    InvalidId = idFFFF
    RetryCount = 1
    MaxPressed = 1
    MaxRx = 1
    MaxStops = 0
    Results <- MCResults
    Item1 <- MCItem1
    TickMod = 2
    Window = 1
    CountdownTicks = 1
    MaxOutbox = 1
    NoEntry = NoEntry
    ItemResults <- MCItemResults
SYMMETRY UsersAlike
CONSTRAINT EssentialCases
INVARIANTS CabinetTypeOK MatchWaitsForScan
PROPERTIES ReportsNameTheHolder OneReportPerMatch

SPECIFICATION MsgSpec
CONSTANTS
    FingerIds = {u1}
    ZeroId = id0000
    InvalidId = idFFFF
    Results <- MCResults
    Item1 <- MCItem1
    TickMod = 6
    Window = 2
    MaxOutbox = 2
    NoEntry = NoEntry
INVARIANT WindowIsRecent

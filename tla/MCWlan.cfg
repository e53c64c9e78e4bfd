SPECIFICATION FairWlanSpec
CONSTANTS
    MaxDrops = 2
    MaxLosses = 1
INVARIANTS WlanTypeOK AssertionOnlyAfterTimeout
PROPERTIES MainGoesOn Reconnects
\* connected, with no drop left, nothing more happens
CHECK_DEADLOCK FALSE

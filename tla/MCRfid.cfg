SPECIFICATION FairRfidSpec
CONSTANTS
    Payloads <- MCPayloads
    RX_BUF_SIZE = 22
    FIFO_SIZE = 16
    Pauses = {8}
    MaxReplies = 2
    MaxConsole = 1
INVARIANTS RfidTypeOK ReportWasSaid SilenceReportsNothing
PROPERTIES WholeReplyIsUnderstood ScanEnds

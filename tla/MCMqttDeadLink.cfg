SPECIFICATION FairMqttSpec
CONSTANTS
    Callers = {finger}
    MsgCells = 2
    PipeCells = 3
    MaxUploads = 1
    MaxCommands = 1
PROPERTY DeadLinkIsNoticed

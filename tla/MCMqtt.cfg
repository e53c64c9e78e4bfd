SPECIFICATION FairMqttSpec
CONSTANTS
    Callers = {finger, shell}
    MsgCells = 2
    PipeCells = 3
    MaxUploads = 3
    MaxCommands = 1
INVARIANTS MqttTypeOK FrontIsWhole SentInSession
PROPERTIES ImplementsUplink ComesBackOnline UploadReturns

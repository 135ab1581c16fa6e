CONSTANTS
    RxSize = 11
    TxSize = 12
    WaitRetries = 1
    Ids <- MCIds
    Programs <- MCPrograms
    Garbage <- MCGarbage
    MaxLine = 3
    MaxReplies = 2
    ConnectRetries = 2
    MaxPackets = 3
SPECIFICATION SessionSpec
\* the host stops after MaxPackets packets
CHECK_DEADLOCK FALSE
PROPERTY ConnectTrue

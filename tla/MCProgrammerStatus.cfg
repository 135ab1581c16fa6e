CONSTANTS
    RxSize = 12
    TxSize = 11
    WaitRetries = 2
    Ids = {0}
    MaxCmds = 3
    Programs <- MCPrograms
    Garbage <- MCGarbage
    MaxLine = 1
    MaxReplies = 1
SPECIFICATION Spec
INVARIANT OneStatusPerPacket

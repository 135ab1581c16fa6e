CONSTANTS
    Images <- MCImages
    ChunkWords = 2
    MAX_RETRIES = 2
    PowerRetries = 2
    ConnectRetries = 2
    MaxTrouble = 2
SPECIFICATION Spec
INVARIANTS TypeOK VerifiedImage ErasedBeforeProgram
PROPERTIES ErasesOnlySuitable Ends
\* the program ends
CHECK_DEADLOCK FALSE

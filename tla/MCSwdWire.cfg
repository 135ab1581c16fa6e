\* the sizes of the source
CONSTANTS
    WordBits = 32
    Words <- MCWords
    IdleBits = 8
    ResetBits = 64
    ResetOnes = 50
    Noise = 1
    Ops <- MCOps
SPECIFICATION Spec
INVARIANTS NoContention InFrame OkMeansDone WaitMeansNotDone Recovers

CONSTANTS
    Code <- MCCode
    Meanings <- MCMeanings
    InitialStack = 40
    Overhead = 6
    MaxNativeCalls = 10
SPECIFICATION FairSpec
INVARIANTS
    Computes
    TrapsBalanced
    OutersSound
    Reported
    TopInPlace
PROPERTY Halts

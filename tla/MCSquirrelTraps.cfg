CONSTANTS
    Code <- TrapCode
    Meanings <- TrapMeanings
    InitialStack = 40
    Overhead = 6
    MaxNativeCalls = 10
SPECIFICATION Spec
INVARIANT TrapsGone

CONSTANTS
    Obj = {1, 2, 3}
    Slot = {s1, s2}
    MaxLost = 1
SPECIFICATION SpecNative
INVARIANT ChainEmpty
CHECK_DEADLOCK FALSE

CONSTANTS
    k1 = k1
    k2 = k2
    k3 = k3
    k4 = k4
    null = null
    s1 = s1
    s2 = s2
    Key <- MCKey
    Value = {val1}
    Hash <- MCHash
    Address = {1, 2, 3}
    InitialSlots = 2
    MaxStackRefs = 1
    MaxHostRefs = 2
SPECIFICATION DataSpec
INVARIANTS TableSound Interned HeldByHost HeapSound CollectorExact ClosesEmpty RegexSound
PROPERTY TableIsMap
CHECK_DEADLOCK FALSE

CONSTANTS
    mem_ap = mem_ap
    mdm_ap = mdm_ap
    no_ap = no_ap
    none = none
    Banks <- MCBanks
    MemBank <- mem_ap
    NoBank <- none
    Ones = 1
    OnesBank <- no_ap
    NumWords = 2
    MaxRetries = 2
    CswConfig = 0
    BusyWords = {1}
    HostCalls <- MCHostCallsSelect
SPECIFICATION Spec
INVARIANT CacheCoherent

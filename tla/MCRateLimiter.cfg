\* Concurrent requests, eviction, and reloads of rate and burst.
CONSTANTS
    Addresses <- TwoHosts
    Workers = {w1, w2}
    Configs <- TwoConfigs
    Unit = 3
    MaxAge = 3
    MaxTime = 8
SPECIFICATION Spec
SYMMETRY WorkerSymmetry
INVARIANTS WithinCredit
PROPERTIES NoFalseReject EvictionThorough

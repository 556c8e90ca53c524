\* Two listeners that compete for one permit.
CONSTANTS
    NumListeners = 2
    Conns = {c1, c2, c3, c4}
    MaxConnections = 1
    ShutdownTimeout = 2
    NoConn = NoConn
SPECIFICATION EndingSpec
INVARIANTS
    CountedExactly
    AcceptedStreamsHeld
    ShutdownBounded
PROPERTIES
    
    ShutdownCompletes
    WaitersServed
    FirstComeFirstServed

\* Connections of both protocols: up to three requests at a time on HTTP/2.
CONSTANTS
    Requests = {r1, r2, r3}
    Timeout = 4
    MaxInFlight = 5
SPECIFICATION Spec
SYMMETRY RequestSymmetry
INVARIANTS CountCovers ClosedInTime
PROPERTIES ActiveNotCut NoEarlyClose

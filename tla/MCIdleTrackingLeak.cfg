\* A stream that is reset before its response.
CONSTANTS
    Requests = {r1, r2}
    Timeout = 2
    MaxInFlight = 3
SPECIFICATION Spec
INVARIANT IdleClosedInTime

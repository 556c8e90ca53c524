\* Two threads, four lines, three signals, four files; a behaviour ends when the
\* lines and the signals are used up.
CONSTANTS
    t1 = t1
    t2 = t2
    Threads <- MCThreads
    MaxLines = 4
    MaxFiles = 4
    MaxSignals = 3
SPECIFICATION Spec
SYMMETRY MCSymmetry
INVARIANTS NoLineLost NotSparse FollowsPath
CHECK_DEADLOCK FALSE

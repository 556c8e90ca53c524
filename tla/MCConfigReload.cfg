\* The file is replaced or written in place, reads fail, requests are dropped.
CONSTANTS
    Sighup = sighup
    Admins = {a1}
    MaxVersion = 3
    Content <- FlagDropped
    CliFlag = TRUE
    AtomicWrites = FALSE
    IoErrors = TRUE
    MaxClock = 1
SPECIFICATION FairSpec
INVARIANTS StoredTogether
PROPERTIES WarnsExactly RejectsOnlyUnstartable ReloadEnds

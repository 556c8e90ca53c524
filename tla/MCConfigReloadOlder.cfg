\* An older version is applied over a newer one.
CONSTANTS
    Sighup = sighup
    Admins = {a1}
    MaxVersion = 3
    Content <- FlagOnCli
    CliFlag = TRUE
    AtomicWrites = TRUE
    IoErrors = FALSE
    MaxClock = 2
SPECIFICATION DistinctTimesSpec
PROPERTY NeverOlder

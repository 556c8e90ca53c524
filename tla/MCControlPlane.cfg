\* Every signal, files that change, and reads and reopens that fail.
CONSTANTS
    Sighup = sighup
    Admins = {}
    MaxVersion = 2
    Content <- Good
    CliFlag = FALSE
    AtomicWrites = TRUE
    IoErrors = TRUE
    MaxClock = 1
    QueueCap = 1
SPECIFICATION SSpec
PROPERTIES SighupTakesEffect TermObeyed RotationFollowed

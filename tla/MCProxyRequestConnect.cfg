CONSTANTS
    a = a
    b = b
    Hosts = {a, b}
    NoHost = NoHost
    EmptyHost = EmptyHost
    NoSite = NoSite
    Configs <- TwoConfigs
    Shapes <- MCShapes
    Replies <- MCReplies
    DefaultLimit = 2
    MaxAge = 4
SPECIFICATION Spec
INVARIANT ConnectTimeoutIsForConnecting

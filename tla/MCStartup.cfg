\* Starts with all kinds of configurations and environments.
CONSTANTS
    Scenarios <- MCScenarios
    RequestHosts <- MCHosts
    MaxListeners = 2
SPECIFICATION FairSpec
INVARIANTS TypeOK ReadyIsComplete ExitCodes AcceptedStarts  RedirectReachesSite
PROPERTIES TermObeyed CertificatesArrive

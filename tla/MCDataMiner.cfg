SPECIFICATION Spec
CONSTANTS
    r1 = r1
    r2 = r2
    WarmUp = WarmUp
    Nobody = Nobody
    Calls <- MCRequests
    Requests <- MCRequests
    KeyTtl = 2
    MaxScrape = 1
    Deployments <- MCDeployments
    Defaults <- MCDefaults
    Remotes <- MCRemotes
CHECK_DEADLOCK FALSE
INVARIANTS
    NothingLeftRunning
    
PROPERTIES
    OneScrapeForAll
    EverythingEnds

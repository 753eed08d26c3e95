SPECIFICATION FairSpec
CONSTANTS
    r1 = r1
    r2 = r2
    r3 = r3
    Releases = {r1, r2}
    None = None
    Unknown = Unknown
    MaxFaults = 2
INVARIANTS
    TypeOK
    VerdictsAreTrue
    BaselineIsRunning
    ReportedOrOwed
PROPERTIES
    
    DeploymentsEnd
CHECK_DEADLOCK FALSE

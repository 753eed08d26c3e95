SPECIFICATION FairSpec
CONSTANTS
    r1 = r1
    r2 = r2
    r3 = r3
    s1 = s1
    s2 = s2
    Runs = {r1, r2}
    Sessions = {s1}
    SessionOf <- OneSession
    None = None
    MaxConcurrentRuns = 2
    MaxRetries = 0
    Workers = 1
    MaxCrashes = 1
    MaxStops = 0
PROPERTIES
    EveryRunEnds
    EligibilityIsRevoked
CHECK_DEADLOCK FALSE

SPECIFICATION FairSpec
CONSTANTS
    r1 = r1
    r2 = r2
    r3 = r3
    Releases = {r1, r2}
    None = None
    Unknown = Unknown
    MaxFaults = 1
INVARIANTS
    FailureIsRolledBack
CHECK_DEADLOCK FALSE

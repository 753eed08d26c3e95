SPECIFICATION Spec
CONSTANTS
    r1 = r1
    r2 = r2
    r3 = r3
    s1 = s1
    s2 = s2
    Runs = {r1, r2}
    Sessions = {s1}
    SessionOf <- OneSession
    None = None
    MaxConcurrentRuns = 1
    MaxRetries = 1
    Workers = 2
    MaxCrashes = 1
    MaxStops = 1
INVARIANTS
    QuotaBoundsJobs
    BindingIsLive
    
PROPERTIES
    PatchHasItsEdits
    VerdictStands
SYMMETRY Symmetry
CHECK_DEADLOCK FALSE

SPECIFICATION Spec
CONSTANTS
    r1 = r1
    r2 = r2
    a1 = a1
    a2 = a2
    Runs = {r1, r2}
    Tasks = {t1}
    Gaps = {g1}
    Actions = {a1, a2}
    None = None
    MaxIters <- Budgets
    MaxSteps = 1
    ProbesPerGap = 1
    RejectLimit = 2
    TextOnlyLimit = 2
    CachedLimit = 1
    ConfirmAt = 2
    FailLimit <- FailLimits
    MaxFaults = 1
INVARIANTS
    TypeOK
    RunningMeansARun
    CancelledHasCause
    CheckpointMatchesOutcome
    
PROPERTIES
    RepairFreezesPlan
SYMMETRY Symmetry
CHECK_DEADLOCK FALSE

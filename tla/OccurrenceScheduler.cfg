SPECIFICATION Spec
CONSTANTS
    t1 = t1
    t2 = t2
    s1 = s1
    p1 = p1
    p2 = p2
    Tasks = {t1, t2}
    Sessions = {s1}
    SessionOf <- SameSession
    Schedulers = {p1}
    Plans <- Mixed
    Editable = {t2}
    ScanLimit = 4
    MaxPerSession = 2
    Never = Never
    Horizon = 6
    Stride = 2
    Limit <- OneOfEach
INVARIANTS
    TypeOK
    OneVerdictPerWindow
    
    LatestIsCompensated
    NoGapWithoutRestart
CHECK_DEADLOCK FALSE

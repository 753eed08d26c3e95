SPECIFICATION FairSpec
CONSTANTS
    t1 = t1
    t2 = t2
    s1 = s1
    p1 = p1
    p2 = p2
    Tasks = {t1, t2}
    Sessions = {s1}
    SessionOf <- SameSession
    Schedulers = {p1, p2}
    Plans <- CronOnly
    Editable = {}
    ScanLimit = 4
    MaxPerSession = 2
    Never = Never
    Horizon = 4
    Stride = 2
    Limit <- Crashes
PROPERTIES
    EndedStaysEnded
    DueIsHandled
CHECK_DEADLOCK FALSE

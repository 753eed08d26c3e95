SPECIFICATION Spec
CONSTANTS
    Runs = {1, 2}
    t1 = t1
    t2 = t2
    s1 = s1
    s2 = s2
    w1 = w1
    w2 = w2
    Tasks = {t1, t2}
    Sessions = {s1}
    Workers = {w1, w2}
    TaskOf <- SameTask
    SessionOf <- SameSession
    Notifying = {t1}
    NoRun = NoRun
    NoWorker = NoWorker
    Lease = 3
    StaleAfter = 1
    ExecTimeout = 2
    MaxQueueAge = 1
    MaxAttempts = 2
    RetryBase = 1
INVARIANTS
    SessionExclusive
    NotifiedRunsSucceeded
PROPERTIES
    VerdictIsFinal
    ImplementsSerialQueue
SYMMETRY Executors

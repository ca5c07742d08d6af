\* One row, overdue while its worker is still alive, and two sweeping workers.
SPECIFICATION Spec
CONSTANTS
    w1 = w1
    w2 = w2
    w3 = w3
    j1 = j1
    j2 = j2
    Jobs = {j1}
    Workers = {w1, w2, w3}
    HostOf <- OneHost
    Callers = {c1}
    MaxRows = 1
    MaxAttempts = 3
    BaseDelay = 1
    StaleTimeout = 1
    Nobody = Nobody
    NoJob = NoJob
PROPERTY ReapTouchesOnce

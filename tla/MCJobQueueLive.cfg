\* Liveness: one enqueued row, three processes of which two may die.
\* No symmetry here: it is unsound for liveness.
SPECIFICATION FairSpec
CONSTANTS
    w1 = w1
    w2 = w2
    w3 = w3
    j1 = j1
    j2 = j2
    Jobs = {j1}
    Workers = {w1, w2, w3}
    HostOf <- TwoHosts
    Callers = {c1}
    MaxRows = 1
    MaxAttempts = 2
    BaseDelay = 1
    StaleTimeout = 1
    Nobody = Nobody
    NoJob = NoJob
PROPERTY EveryRowSettles

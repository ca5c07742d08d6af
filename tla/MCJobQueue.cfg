\* Two racing callers, three worker processes on two hosts, a crash or two:
\* safety under every interleaving of claims, sweeps, recovery and late results.
SPECIFICATION Spec
CONSTANTS
    w1 = w1
    w2 = w2
    w3 = w3
    j1 = j1
    j2 = j2
    Jobs = {j1}
    Workers = {w1, w2, w3}
    HostOf <- TwoHosts
    Callers = {c1, c2}
    MaxRows = 2
    MaxAttempts = 2
    BaseDelay = 1
    StaleTimeout = 1
    Nobody = Nobody
    NoJob = NoJob
SYMMETRY Symmetry
INVARIANTS
    TypeOK
    OneExecutor
PROPERTIES
    SettledStays

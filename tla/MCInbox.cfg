\* Two audio files and a sidecar of the first, three files sent, one fault, a web upload;
\* no symmetry, it is unsound for liveness.
SPECIFICATION FairSpec
CONSTANTS
    a1 = a1
    a2 = a2
    s1 = s1
    n1 = n1
    c1 = c1
    bad = bad
    k1 = k1
    big = big
    Audio = {a1, a2}
    Sidecars = {s1}
    Matches <- Fits
    Names = {n1}
    Recordings = {c1, bad, big}
    Companions = {k1}
    Sent <- SentTo
    Corrupt = {bad}
    Size <- Bulk
    Rank <- RankOf
    Budget = 2
    Disk = 3
    PerRun = 2
    Reuse = FALSE
    MaxDrops = 3
    MaxFaults = 1
    None = None
INVARIANTS
    TypeOK
    Kept
    Accounted
    SidecarFollows
    WithinBudget
PROPERTIES
    InboxDrains

\* One worker process, as deployed: the jobs on timers, a crash or a refused
\* commit, a loss of the NAS mount and requests at every point.  Both
\* recordings render to the same path.
SPECIFICATION FairSpec
CONSTANTS
    r1 = r1
    r2 = r2
    s1 = s1
    Recordings = {r1, r2}
    Sidecars = {s1}
    Parent <- ParentOf
    Name <- SameName
    Folders = {"unsorted"}
    Unsorted = "unsorted"
    Workers = {w1}
    Wants = {"filed", "archived"}
    Scheduled = {"file-resources", "retry-failed"}
    MaxCrashes = 1
    MaxDrops = 1
    NoFile = NoFile
    NoPath = NoPath
    NoRequest = NoRequest
INVARIANTS
    TypeOK
    Tracked
PROPERTIES
    KeepsCustody
    FilingEnds

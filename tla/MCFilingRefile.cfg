\* One worker process; refile-all is run by hand beside filing, and may be
\* interrupted; the mount holds.
SPECIFICATION Spec
CONSTANTS
    r1 = r1
    r2 = r2
    s1 = s1
    Recordings = {r1, r2}
    Sidecars = {s1}
    Parent <- ParentOf
    Name <- SameName
    Folders = {"unsorted", "gig"}
    Unsorted = "unsorted"
    Workers = {w1}
    Wants = {"filed"}
    Scheduled = {"file-resources", "refile-all"}
    MaxCrashes = 1
    MaxDrops = 0
    NoFile = NoFile
    NoPath = NoPath
    NoRequest = NoRequest
INVARIANTS
    RefileKeepsTrack
PROPERTIES
    KeepsCustody
    SidecarsBesideAudio

\* One worker; the NAS mount goes while refile-all is at work.
SPECIFICATION Spec
CONSTANTS
    r1 = r1
    r2 = r2
    s1 = s1
    Recordings = {r1, r2}
    Sidecars = {}
    Parent <- NoParent
    Name <- SameName
    Folders = {"unsorted", "gig"}
    Unsorted = "unsorted"
    Workers = {w1}
    Wants = {"filed"}
    Scheduled = {"file-resources", "refile-all"}
    MaxCrashes = 0
    MaxDrops = 1
    NoFile = NoFile
    NoPath = NoPath
    NoRequest = NoRequest
PROPERTY RefileTracks

\* Two uploads of one recording, as from two phones, each phone's requests
\* one after another; the sweep, the filing and a kill at any point.
SPECIFICATION FairSpec
CONSTANTS
    Uploads = {u1, u2}
    Recordings = {take}
    Of <- Same
    Size = 2
    Threads = {t1, t2}
    take = take
    Serial = TRUE
    LateReturns = FALSE
    MaxCrashes = 2
    NoUpload = NoUpload
    NoFile = NoFile
    Filed = Filed
INVARIANTS
    TypeOK
    Kept
    Resumable
    CompletedIsIngested
PROPERTIES
    SettlesOnce
    UploadEnds

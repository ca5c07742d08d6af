\* One upload whose "complete" is sent again before the first is answered;
\* nothing fails.
SPECIFICATION Spec
CONSTANTS
    Uploads = {u1}
    Recordings = {take}
    Of <- Same
    Size = 2
    Threads = {t1, t2}
    take = take
    Serial = FALSE
    LateReturns = FALSE
    MaxCrashes = 0
    NoUpload = NoUpload
    NoFile = NoFile
    Filed = Filed
PROPERTY OnlyRedundantDiscarded

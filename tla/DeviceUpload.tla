---------------------------- MODULE DeviceUpload ----------------------------
(***************************************************************************)
(* Chunked uploads from the app: app/device_api.py, in the threads of the  *)
(* web server, and jobs/device_uploads.py, whose sweep runs in a worker.   *)
(*                                                                         *)
(* A step is a commit or a call that changes the file system.  A handler   *)
(* reads its UploadSession row once, so what it decided at the start it    *)
(* acts on later, whatever the row says by then.  A body sent at offset n  *)
(* is the (n+1)st unit of the recording, as an honest app sends it; a file *)
(* is the sequence of the units in it.  A Resource is reduced to where its *)
(* bytes are: in an upload's staging file, or filed (Filing has the rest). *)
(***************************************************************************)
EXTENDS Integers, Sequences

CONSTANTS
    Uploads,        \* upload ids, each used once
    Recordings,     \* recordings, by checksum
    Of,             \* the recording each upload declares
    Size,           \* declared_size, in units
    Threads,        \* threads of the web server
    Serial,         \* the app sends an upload's requests one after another
    LateReturns,    \* the app comes back to uploads it has left for days
    MaxCrashes,     \* bound: killed requests and sweeps
    NoUpload, NoFile, Filed

Begun(n) == [i \in 1 .. n |-> i]
Whole == Begun(Size)

ASSUME UploadAssumption ==
    /\ Of \in [Uploads -> Recordings]
    /\ Size \in Nat \ {0}
    /\ Serial \in BOOLEAN
    /\ LateReturns \in BOOLEAN
    /\ MaxCrashes \in Nat
    /\ NoUpload \notin Uploads
    /\ Filed \notin Uploads \cup {NoUpload}
    /\ NoFile \notin Seq(1 .. Size)

VARIABLES
    session,    \* the upload_sessions table
    resource,   \* each recording's Resource: whose file it is staged as
    file,       \* the staging file of each upload
    req,        \* the request each thread is handling
    sweep,      \* cleanup_stale_uploads
    crashes,    \* killed requests and sweeps so far
    cut         \* history: uploads a killed request or sweep was changing

vars == <<session, resource, file, req, sweep, crashes, cut>>

-----------------------------------------------------------------------------
Status == {"absent", "uploading", "completed", "failed", "dropped"}

Session == [status : Status, received : 0 .. Size, quiet : BOOLEAN,
            resourceOf : Recordings \cup {NoUpload}]

ReqPc == {"idle", "create", "append", "count", "hash", "ingest", "insert",
          "finish", "fail"}

Request == [pc : ReqPc, of : Uploads \cup {NoUpload}, read : 0 .. Size]

Sweep == [pc : {"idle", "remove", "drop"}, todo : SUBSET Uploads, found : SUBSET Uploads]

TypeOK ==
    /\ session \in [Uploads -> Session]
    /\ resource \in [Recordings -> Uploads \cup {NoUpload, Filed}]
    /\ file \in [Uploads -> Seq(1 .. Size) \cup {NoFile}]
    /\ req \in [Threads -> Request]
    /\ sweep \in Sweep
    /\ crashes \in 0 .. MaxCrashes
    /\ cut \subseteq Uploads

Settled(u) == session[u].status \in {"completed", "failed"}

Done == [pc |-> "idle", of |-> NoUpload, read |-> 0]
Resting == [pc |-> "idle", todo |-> {}, found |-> {}]

Ends(t) == req' = [req EXCEPT ![t] = Done]
Goes(t, pc) == req' = [req EXCEPT ![t].pc = pc]

At(u) == {t \in Threads : req[t].of = u}

(* A request for u arrives; the status read with it is `status`.           *)
Arrives(t, u, pc, status) ==
    /\ req[t].pc = "idle"
    /\ Serial => At(u) = {}
    /\ session[u].quiet => LateReturns
    /\ session[u].status = status
    /\ req' = [req EXCEPT ![t] = [pc |-> pc, of |-> u, read |-> session[u].received]]
    /\ UNCHANGED <<session, resource, file, sweep, crashes, cut>>

(* A write to a row stamps updated_at.                                     *)
Written(u, status) ==
    [session EXCEPT ![u].status = status, ![u].quiet = FALSE]

-----------------------------------------------------------------------------
(* initiate_upload                                                         *)

(* Neither this upload nor its recording is known, and there is room.      *)
InitiateCheck(t, u) ==
    /\ resource[Of[u]] = NoUpload
    /\ Arrives(t, u, "create", "absent")

(* The INSERT, with an empty file; or the primary key is taken by now.     *)
InitiateCreate(t) ==
    LET u == req[t].of
    IN  /\ req[t].pc = "create"
        /\ \/ /\ session[u].status = "absent"
              /\ session' = Written(u, "uploading")
              /\ file' = [file EXCEPT ![u] = << >>]
           \/ session[u].status # "absent" /\ UNCHANGED <<session, file>>
        /\ Ends(t)
        /\ UNCHANGED <<resource, sweep, crashes, cut>>

-----------------------------------------------------------------------------
(* upload_chunk                                                            *)

ChunkCheckAnyOffset(t, u) ==
    \E n \in 0 .. Size - 1 :
        /\ req[t].pc = "idle"
        /\ Serial => At(u) = {}
        /\ session[u].quiet => LateReturns
        /\ session[u].status = "uploading" /\ session[u].received < Size
        /\ req' = [req EXCEPT ![t] = [pc |-> "append", of |-> u, read |-> n]]
        /\ UNCHANGED <<session, resource, file, sweep, crashes, cut>>

ChunkCheckUnbounded(t, u) == Arrives(t, u, "append", "uploading")

(* The offset is what has been received, and the body fits.                *)
ChunkCheck(t, u) ==
    /\ session[u].received < Size
    /\ Arrives(t, u, "append", "uploading")

(* The file is opened to append; with its directory gone, that fails.      *)
ChunkAppend(t) ==
    LET u == req[t].of
    IN  /\ req[t].pc = "append"
        /\ \/ /\ file[u] # NoFile
              /\ file' = [file EXCEPT ![u] = Append(@, req[t].read + 1)]
              /\ Goes(t, "count")
           \/ file[u] = NoFile /\ Ends(t) /\ UNCHANGED file
        /\ UNCHANGED <<session, resource, sweep, crashes, cut>>

(* The commit: what was read at the start, plus this body.                 *)
ChunkCount(t) ==
    LET u == req[t].of
    IN  /\ req[t].pc = "count"
        /\ session' = [session EXCEPT ![u].received = req[t].read + 1, ![u].quiet = FALSE]
        /\ Ends(t)
        /\ UNCHANGED <<resource, file, sweep, crashes, cut>>

-----------------------------------------------------------------------------
(* complete_upload and ingest_device_upload                                *)

CompleteCheckAnyTime(t, u) ==
    /\ session[u].received = Size
    /\ \/ Arrives(t, u, "hash", "uploading")
       \/ Arrives(t, u, "hash", "failed")

CompleteCheck(t, u) ==
    /\ session[u].received = Size
    /\ Arrives(t, u, "hash", "uploading")

(* _sha256, which nothing guards against the file's being gone.  On a      *)
(* mismatch the file is removed and the failure is still to be recorded.   *)
Hash(t) ==
    LET u == req[t].of
    IN  /\ req[t].pc = "hash"
        /\ \/ file[u] = NoFile /\ Ends(t) /\ UNCHANGED file
           \/ file[u] = Whole /\ Goes(t, "ingest") /\ UNCHANGED file
           \/ /\ file[u] \notin {NoFile, Whole}
              /\ file' = [file EXCEPT ![u] = NoFile]
              /\ Goes(t, "fail")
        /\ UNCHANGED <<session, resource, sweep, crashes, cut>>

(* A Resource of this recording exists: this file is taken for redundant.  *)
Ingest(t) ==
    LET u == req[t].of
    IN  /\ req[t].pc = "ingest"
        /\ \/ /\ resource[Of[u]] # NoUpload
              /\ file' = [file EXCEPT ![u] = NoFile]
              /\ Goes(t, "finish")
           \/ resource[Of[u]] = NoUpload /\ Goes(t, "insert") /\ UNCHANGED file
        /\ UNCHANGED <<session, resource, sweep, crashes, cut>>

(* Probe, INSERT of the Resource and commit.  Any exception, of which the  *)
(* unique checksum makes one, is caught.                                   *)
Insert(t) ==
    LET u == req[t].of
    IN  /\ req[t].pc = "insert"
        /\ \/ /\ resource[Of[u]] = NoUpload /\ file[u] # NoFile
              /\ resource' = [resource EXCEPT ![Of[u]] = u]
              /\ Goes(t, "finish")
           \/ Goes(t, "fail") /\ UNCHANGED resource
        /\ UNCHANGED <<session, file, sweep, crashes, cut>>

FailUnnamed(t) ==
    /\ req[t].pc = "fail"
    /\ session' = Written(req[t].of, "completed")
    /\ Ends(t)
    /\ UNCHANGED <<resource, file, sweep, crashes, cut>>

(* The commit of `failed`, whatever the row's status is by now.            *)
Fail(t) ==
    /\ req[t].pc = "fail"
    /\ session' = Written(req[t].of, "failed")
    /\ Ends(t)
    /\ UNCHANGED <<resource, file, sweep, crashes, cut>>

(* The commit of `completed`, whatever the row's status is by now.         *)
Finish(t) ==
    LET u == req[t].of
    IN  /\ req[t].pc = "finish"
        /\ session' = [Written(u, "completed") EXCEPT ![u].resourceOf = Of[u]]
        /\ Ends(t)
        /\ UNCHANGED <<resource, file, sweep, crashes, cut>>

-----------------------------------------------------------------------------
(* cleanup_stale_uploads                                                   *)

(* DEVICE_UPLOAD_ABANDONED_HOURS, or the retention time, with no write to  *)
(* the row.  No single request lasts that long.                            *)
GoesQuiet(u) ==
    /\ session[u].status \in {"uploading", "completed", "failed"}
    /\ ~session[u].quiet /\ At(u) = {}
    /\ session' = [session EXCEPT ![u].quiet = TRUE]
    /\ UNCHANGED <<resource, file, req, sweep, crashes, cut>>

Abandoned == {u \in Uploads : session[u].status = "uploading" /\ session[u].quiet}

SweepSelectUnfinished ==
    LET us == {u \in Abandoned : session[u].received < Size}
    IN  /\ sweep.pc = "idle"
        /\ sweep' = [pc |-> "remove", todo |-> us, found |-> us]
        /\ UNCHANGED <<session, resource, file, req, crashes, cut>>

SweepSelectAnyStatus ==
    LET us == {u \in Uploads : session[u].quiet}
    IN  /\ sweep.pc = "idle"
        /\ sweep' = [pc |-> "remove", todo |-> us, found |-> us]
        /\ UNCHANGED <<session, resource, file, req, crashes, cut>>

SweepSelect ==
    /\ sweep.pc = "idle"
    /\ sweep' = [pc |-> "remove", todo |-> Abandoned, found |-> Abandoned]
    /\ UNCHANGED <<session, resource, file, req, crashes, cut>>

SweepRemove ==
    \E u \in sweep.todo :
        /\ file' = [file EXCEPT ![u] = NoFile]
        /\ sweep' = [sweep EXCEPT !.todo = @ \ {u}]
        /\ UNCHANGED <<session, resource, req, crashes, cut>>

(* One commit for all of them, by primary key.                             *)
SweepCommit ==
    /\ sweep.pc = "remove" /\ sweep.todo = {}
    /\ session' = [u \in Uploads |->
           IF u \in sweep.found
           THEN [session[u] EXCEPT !.status = "failed", !.quiet = FALSE] ELSE session[u]]
    /\ sweep' = [Resting EXCEPT !.pc = "drop"]
    /\ UNCHANGED <<resource, file, req, crashes, cut>>

(* The DELETE of old settled rows: rows only.                              *)
SweepDrop ==
    /\ sweep.pc = "drop"
    /\ \E old \in SUBSET {u \in Uploads : Settled(u) /\ session[u].quiet} :
           session' = [u \in Uploads |-> IF u \in old
                           THEN [session[u] EXCEPT !.status = "dropped"] ELSE session[u]]
    /\ sweep' = Resting
    /\ UNCHANGED <<resource, file, req, crashes, cut>>

-----------------------------------------------------------------------------
(* The Resource is filed, if its staging file still has its checksum.      *)
File(r) ==
    /\ resource[r] \in Uploads
    /\ file[resource[r]] = Whole
    /\ file' = [file EXCEPT ![resource[r]] = NoFile]
    /\ resource' = [resource EXCEPT ![r] = Filed]
    /\ UNCHANGED <<session, req, sweep, crashes, cut>>

Crashing == crashes < MaxCrashes /\ crashes' = crashes + 1

(* The web server's process is killed, or its request times out there.     *)
KillRequest(t) ==
    /\ req[t].pc # "idle"
    /\ Crashing
    /\ cut' = IF req[t].pc \in {"count", "finish", "fail"} THEN cut \cup {req[t].of} ELSE cut
    /\ Ends(t)
    /\ UNCHANGED <<session, resource, file, sweep>>

KillSweep ==
    /\ sweep.pc # "idle"
    /\ Crashing
    /\ cut' = cut \cup (sweep.found \ sweep.todo)
    /\ sweep' = Resting
    /\ UNCHANGED <<session, resource, file, req>>

-----------------------------------------------------------------------------
Init ==
    /\ session = [u \in Uploads |-> [status |-> "absent", received |-> 0,
                                     quiet |-> FALSE, resourceOf |-> NoUpload]]
    /\ resource = [r \in Recordings |-> NoUpload]
    /\ file = [u \in Uploads |-> NoFile]
    /\ req = [t \in Threads |-> Done]
    /\ sweep = Resting
    /\ crashes = 0
    /\ cut = {}

RequestStep(t) ==
    \/ InitiateCreate(t)
    \/ ChunkAppend(t) \/ ChunkCount(t)
    \/ Hash(t) \/ Ingest(t) \/ Insert(t) \/ Fail(t) \/ Finish(t)

SweepStep == SweepSelect \/ SweepRemove \/ SweepCommit \/ SweepDrop

Next ==
    \/ \E t \in Threads :
           \/ \E u \in Uploads :
                  InitiateCheck(t, u) \/ ChunkCheck(t, u) \/ CompleteCheck(t, u)
           \/ RequestStep(t) \/ KillRequest(t)
    \/ \E u \in Uploads : GoesQuiet(u)
    \/ SweepStep \/ KillSweep
    \/ \E r \in Recordings : File(r)

(* Requests end, the sweep is on a timer, and time passes for a row that   *)
(* nothing writes, whatever requests come and fail meanwhile.              *)
Fairness ==
    /\ \A t \in Threads : WF_vars(RequestStep(t))
    /\ WF_vars(SweepStep)
    /\ \A u \in Uploads : SF_vars(GoesQuiet(u))

Spec == Init /\ [][Next]_vars

FairSpec == Spec /\ Fairness

-----------------------------------------------------------------------------
(* Properties                                                              *)

(* A recording the server has taken charge of is there: its Resource is    *)
(* filed, or its staging file is whole, however two uploads of it, the     *)
(* sweep and the filing interleave, unless a request of that upload was    *)
(* killed before its last commit (ingest_device_upload).                   *)
Kept ==
    \A r \in Recordings :
        resource[r] \in Uploads \ cut => file[resource[r]] = Whole

(* "bytes_received is the resumability contract" (models.py:389): between  *)
(* two requests the staging file of an upload is exactly the part of the   *)
(* recording its row reports, so the app can go on from there.  Two things *)
(* break that.  A request killed after it wrote a body and before it       *)
(* committed (device_api.py:324-327) leaves the file ahead of the row, by  *)
(* one body for each kill: the row never reports what is not there.  And   *)
(* the file can be gone: removed by the sweep, whose commit is to come, or *)
(* by a request or a sweep that was killed before its commit.              *)
Resumable ==
    \A u \in Uploads : session[u].status = "uploading" /\ At(u) = {} =>
        \/ file[u] = Begun(session[u].received)
        \/ /\ u \in cut /\ file[u] # NoFile
           /\ Len(file[u]) - session[u].received \in 0 .. crashes
        \/ u \in cut \cup (sweep.found \ sweep.todo) /\ file[u] = NoFile

(* "uploading -> completed | failed" (models.py:406-408), and no way back: *)
(* late commits of a request or of the sweep do not reverse an outcome.    *)
SettlesOnce ==
    [][\A u \in Uploads :
          Settled(u) => session'[u].status \in {session[u].status, "dropped"}]_vars

(* An upload answered as completed has a Resource of its recording to be   *)
(* shown (complete_upload answers a repeated request from resource_id).    *)
CompletedIsIngested ==
    \A u \in Uploads : session[u].status = "completed" =>
        session[u].resourceOf = Of[u] /\ resource[Of[u]] # NoUpload

(* No upload stays `uploading`: it completes or fails or is swept, however *)
(* the app leaves it (cleanup_stale_uploads).                              *)
UploadEnds ==
    \A u \in Uploads : session[u].status = "uploading" ~> session[u].status # "uploading"

(* "returns the existing one instead and discards the redundant file"      *)
(* (jobs/device_uploads.py:77-79): what complete_upload discards on that   *)
(* ground is never the staging file of a Resource.                         *)
OnlyRedundantDiscarded ==
    [][\A t \in Threads :
          req[t].pc = "ingest" /\ req'[t].pc = "finish" =>
              \A r \in Recordings : resource[r] # req[t].of]_vars

=============================================================================

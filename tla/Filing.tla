------------------------------- MODULE Filing -------------------------------
(***************************************************************************)
(* Filing: how recordings and their sidecars get from staging into the     *)
(* NAS library, and what else moves or re-labels them meanwhile.           *)
(*                                                                         *)
(*   file-resources   jobs/filing.py over jobs/nas.py                      *)
(*   refile-all, retry-failed                          jobs/maintenance.py *)
(*   PATCH /resources/<id>, in any request thread           app/api.py     *)
(*                                                                         *)
(* A job runs in a worker, one instance of each job at a time (that is     *)
(* JobQueue's OneExecutor).  A step is a database transaction or a call    *)
(* that changes the file system; crashes come between any two, and the NAS *)
(* mount comes and goes.  With the mount gone its path is an empty local   *)
(* directory, where no file exists.  A file is identified by the resource  *)
(* whose bytes it holds; the hidden ".part" file of a copy in progress is  *)
(* known only to the worker that writes it (a crash leaves it behind, and  *)
(* the next copy to that destination truncates it).                        *)
(***************************************************************************)
EXTENDS Integers, FiniteSets

CONSTANTS
    Recordings,     \* resources that are reviewed and filed
    Sidecars,       \* resources with role "sidecar"
    Parent,         \* derived_from_id of each sidecar
    Name,           \* the filename of each resource
    Folders,        \* what render_path can put before the filename
    Unsorted,       \* the folder a resource renders to when it is new
    Workers,        \* worker processes
    Wants,          \* the statuses a PATCH asks for (of the three allowed)
    Scheduled,      \* the jobs that are run, by a timer or by hand
    MaxCrashes,     \* bound: crashes and refused commits
    MaxDrops,       \* bound: losses of the NAS mount
    NoFile, NoPath, NoRequest

Resources == Recordings \cup Sidecars
Paths == Folders \X {Name[r] : r \in Resources}

ASSUME FilingAssumption ==
    /\ Recordings \cap Sidecars = {}
    /\ Parent \in [Sidecars -> Recordings]
    /\ Unsorted \in Folders
    /\ Wants \subseteq {"pending-review", "filed", "archived"}
    /\ Scheduled \subseteq {"file-resources", "refile-all", "retry-failed"}
    /\ MaxCrashes \in Nat
    /\ MaxDrops \in Nat
    /\ NoFile \notin Resources
    /\ NoPath \notin Paths

VARIABLES
    row,        \* the resources table
    staging,    \* resources whose staging file exists
    library,    \* the NAS: which resource's bytes are at each path
    mounted,    \* is the NAS mount there
    run,        \* each worker's job: Run
    patch,      \* a PATCH between its checks and its commit
    crashes,    \* crashes and refused commits so far
    drops,      \* losses of the mount so far
    misfiled    \* history: some PATCH has itself made a row `filed`

vars == <<row, staging, library, mounted, run, patch, crashes, drops, misfiled>>
outside == <<mounted, patch, crashes, drops, misfiled>>
files == <<staging, library>>

-----------------------------------------------------------------------------
Status == {"pending-review", "filing", "filed", "failed", "archived", "attached"}

Row == [status : Status, staged : BOOLEAN, nasPath : Paths \cup {NoPath},
        folder : Folders]

MoveEntry == [of : Resources, from : Paths \cup {NoPath}, to : Paths]

(* todo, done: file_resources' `ids` and its filed, failed and skipped     *)
(* lists; kids: the sidecars a file_attached has still to copy; plan and   *)
(* moved: what refile_all has still to look at, and its uncommitted rows.  *)
Run == [pc : {"idle", "drain", "tail", "copy", "verified", "placed", "commit",
              "refile", "rename"},
        phase : {"drain", "tail"}, cur : Resources \cup {NoFile},
        dest : Paths \cup {NoPath}, todo : SUBSET Recordings,
        done : SUBSET Recordings, kids : SUBSET Sidecars,
        plan : SUBSET MoveEntry, moved : SUBSET MoveEntry]

Request == [of : Recordings, read : Status, set : Status]

TypeOK ==
    /\ row \in [Resources -> Row]
    /\ staging \subseteq Resources
    /\ library \in [Paths -> Resources \cup {NoFile}]
    /\ mounted \in BOOLEAN
    /\ run \in [Workers -> Run]
    /\ patch \in Request \cup {NoRequest}
    /\ crashes \in 0 .. MaxCrashes
    /\ drops \in 0 .. MaxDrops
    /\ misfiled \in BOOLEAN

Idle == [pc |-> "idle", phase |-> "drain", cur |-> NoFile, dest |-> NoPath,
         todo |-> {}, done |-> {}, kids |-> {}, plan |-> {}, moved |-> {}]

Render(r) == <<row[r].folder, Name[r]>>

Exists(p) == mounted /\ library[p] # NoFile

FilingRows == {r \in Recordings : row[r].status = "filing"}

(* The sidecars file_attached finds for the audio in rs.                   *)
Attached(rs) ==
    {s \in Sidecars : row[s].status = "attached" /\ Parent[s] \in rs}

NoOtherRun(pcs) == \A x \in Workers : run[x].pc \notin pcs

FileJob == {"drain", "tail", "copy", "verified", "placed", "commit"}
RefileJob == {"refile", "rename"}

Stop(w) == run' = [run EXCEPT ![w] = Idle]

Crashing == crashes < MaxCrashes /\ crashes' = crashes + 1

-----------------------------------------------------------------------------
(* file_resources: the loop                                                *)

FileBegin(w) ==
    /\ run[w].pc = "idle" /\ "file-resources" \in Scheduled
    /\ NoOtherRun(FileJob)
    /\ mounted
    /\ run' = [run EXCEPT ![w].pc = "drain", ![w].todo = FilingRows]
    /\ UNCHANGED <<row, files, outside>>

(* All handled: ask again, and when nothing new is `filing`, turn to the   *)
(* sidecars that were left behind.                                         *)
Requery(w) ==
    LET ids == FilingRows \ run[w].done
        filed == {r \in Recordings : row[r].status = "filed"}
    IN  /\ run[w].pc = "drain" /\ run[w].todo = {} /\ run[w].kids = {}
        /\ run' = IF ids # {}
                  THEN [run EXCEPT ![w].todo = ids]
                  ELSE [run EXCEPT ![w].pc = "tail", ![w].phase = "tail",
                                   ![w].kids = Attached(filed)]
        /\ UNCHANGED <<row, files, outside>>

(* The job's end.                                                          *)
FileEnd(w) ==
    /\ run[w].pc = "tail" /\ run[w].kids = {}
    /\ Stop(w)
    /\ UNCHANGED <<row, files, outside>>

(* Done with r, one way or another.                                        *)
DoneWith(w, r) ==
    run' = [run EXCEPT ![w].pc = run[w].phase, ![w].cur = NoFile, ![w].dest = NoPath,
                       ![w].todo = @ \ {r}, ![w].kids = @ \ {r},
                       ![w].done = IF r \in Recordings THEN @ \cup {r} ELSE @]

FailsUnrecorded(w, r) == UNCHANGED row /\ DoneWith(w, r)

(* An exception other than NasUnavailable: the recording fails at stage    *)
(* "move"; a sidecar only notes the detail and stays attached.             *)
Fails(w, r) ==
    /\ row' = IF r \in Recordings THEN [row EXCEPT ![r].status = "failed"] ELSE row
    /\ DoneWith(w, r)

StartCopyBlindly(w, r, p) ==
    \/ ~mounted /\ Stop(w) /\ UNCHANGED row
    \/ /\ mounted /\ r \in staging
       /\ run' = [run EXCEPT ![w].pc = "copy", ![w].cur = r, ![w].dest = p]
       /\ UNCHANGED row

(* Up to the opening of the .part file: require_nas, which stops the whole *)
(* run, then the test that nothing is at the destination.                  *)
StartCopy(w, r, p) ==
    \/ ~mounted /\ Stop(w) /\ UNCHANGED row
    \/ Exists(p) /\ Fails(w, r)
    \/ mounted /\ ~Exists(p) /\ r \notin staging /\ Fails(w, r)
    \/ /\ mounted /\ ~Exists(p) /\ r \in staging
       /\ run' = [run EXCEPT ![w].pc = "copy", ![w].cur = r, ![w].dest = p]
       /\ UNCHANGED row

(* The next recording, read again from the database.                       *)
Pick(w) ==
    \E r \in run[w].todo :
        /\ run[w].pc = "drain" /\ run[w].kids = {}
        /\ \/ row[r].status # "filing" /\ DoneWith(w, r) /\ UNCHANGED row
           \/ /\ row[r].status = "filing"
              /\ ~row[r].staged \/ r \notin staging
              /\ Fails(w, r)
           \/ /\ row[r].status = "filing" /\ row[r].staged /\ r \in staging
              /\ StartCopy(w, r, Render(r))
        /\ UNCHANGED <<files, outside>>

PickKidAsRendered(w) ==
    \E s \in run[w].kids :
        /\ run[w].pc \in {"drain", "tail"}
        /\ StartCopy(w, s, <<row[Parent[s]].folder, Name[s]>>)
        /\ UNCHANGED <<files, outside>>

(* file_attached: the next sidecar goes beside its audio.  If the audio is *)
(* "filed" with no nas_path, dirname(None) raises and the job ends.        *)
PickKid(w) ==
    \E s \in run[w].kids :
        LET beside == row[Parent[s]].nasPath
        IN  /\ run[w].pc \in {"drain", "tail"}
            /\ \/ beside = NoPath /\ Stop(w) /\ UNCHANGED row
               \/ beside # NoPath /\ StartCopy(w, s, <<beside[1], Name[s]>>)
            /\ UNCHANGED <<files, outside>>

-----------------------------------------------------------------------------
(* file_to_nas, from the opened .part file to the staging file's removal   *)

MoveAndVerify(w) ==
    /\ run[w].pc = "copy" /\ mounted
    /\ run' = [run EXCEPT ![w].pc = "verified"]
    /\ staging' = staging \ {run[w].cur}
    /\ UNCHANGED <<row, library, outside>>

(* Copy, fsync, checksum, size, read-back, require_nas.  If the mount is   *)
(* gone, what notices it first may be an I/O error or require_nas.         *)
CopyAndVerify(w) ==
    /\ run[w].pc = "copy"
    /\ \/ mounted /\ run' = [run EXCEPT ![w].pc = "verified"] /\ UNCHANGED row
       \/ Fails(w, run[w].cur)
       \/ ~mounted /\ Stop(w) /\ UNCHANGED row
    /\ UNCHANGED <<files, outside>>

(* os.replace: whatever is at the destination by now is overwritten.       *)
Replace(w) ==
    /\ run[w].pc = "verified"
    /\ \/ /\ mounted
          /\ library' = [library EXCEPT ![run[w].dest] = run[w].cur]
          /\ run' = [run EXCEPT ![w].pc = "placed"]
          /\ UNCHANGED row
       \/ Fails(w, run[w].cur) /\ UNCHANGED library
    /\ UNCHANGED <<staging, outside>>

(* os.unlink(src), whose failure is only logged.                           *)
Unlink(w) ==
    /\ run[w].pc = "placed"
    /\ \/ staging' = staging \ {run[w].cur}
       \/ UNCHANGED staging
    /\ run' = [run EXCEPT ![w].pc = "commit"]
    /\ UNCHANGED <<row, library, outside>>

Filed(r, p) == [row EXCEPT ![r].status = "filed", ![r].staged = FALSE, ![r].nasPath = p]

(* A recording's commit is followed by file_attached.                      *)
CommitFiled(w) ==
    LET r == run[w].cur
    IN  /\ run[w].pc = "commit"
        /\ row' = Filed(r, run[w].dest)
        /\ run' = [run EXCEPT ![w].pc = run[w].phase, ![w].cur = NoFile,
                              ![w].dest = NoPath, ![w].todo = @ \ {r},
                              ![w].done = @ \cup ({r} \cap Recordings),
                              ![w].kids = IF r \in Recordings THEN Attached({r})
                                                              ELSE @ \ {r}]
        /\ UNCHANGED <<files, outside>>

(* The database refuses that commit.  While draining, the handler in       *)
(* file_resources fails the recording, even if it was a sidecar's commit;  *)
(* in the last pass nothing handles it, and the job ends.                  *)
CommitRefused(w) ==
    LET r == IF run[w].cur \in Sidecars THEN Parent[run[w].cur] ELSE run[w].cur
    IN  /\ run[w].pc = "commit"
        /\ Crashing
        /\ \/ /\ run[w].phase = "drain"
              /\ row' = [row EXCEPT ![r].status = "failed"]
              /\ run' = [run EXCEPT ![w] = [Idle EXCEPT !.pc = "drain",
                             !.todo = run[w].todo \ {r}, !.done = run[w].done \cup {r}]]
           \/ run[w].phase = "tail" /\ Stop(w) /\ UNCHANGED row
        /\ UNCHANGED <<files, mounted, patch, drops, misfiled>>

-----------------------------------------------------------------------------
(* refile_all                                                              *)

(* One SELECT of the filed rows; those whose path no longer matches.       *)
RefileBegin(w) ==
    /\ run[w].pc = "idle" /\ "refile-all" \in Scheduled
    /\ NoOtherRun(RefileJob)
    /\ mounted
    /\ run' = [run EXCEPT ![w].pc = "refile", ![w].plan =
           {[of |-> r, from |-> row[r].nasPath, to |-> Render(r)] :
                r \in {r \in Resources : /\ row[r].status = "filed"
                                         /\ row[r].nasPath # Render(r)}}]
    /\ UNCHANGED <<row, files, outside>>

RefileCheckBlindly(w) ==
    \E m \in run[w].plan :
        /\ run[w].pc = "refile"
        /\ run' = [run EXCEPT ![w].pc = "rename", ![w].cur = m.of]
        /\ UNCHANGED <<row, files, outside>>

(* The test that nothing is at the new path.                               *)
RefileCheck(w) ==
    \E m \in run[w].plan :
        /\ run[w].pc = "refile"
        /\ run' = IF Exists(m.to)
                  THEN [run EXCEPT ![w].plan = @ \ {m}]
                  ELSE [run EXCEPT ![w].pc = "rename", ![w].cur = m.of]
        /\ UNCHANGED <<row, files, outside>>

(* os.rename, which overwrites, if the old path exists; the row is changed *)
(* in the session either way.                                              *)
RefileRename(w) ==
    \E m \in run[w].plan :
        /\ run[w].pc = "rename" /\ run[w].cur = m.of
        /\ library' = IF m.from # NoPath /\ Exists(m.from)
                      THEN [library EXCEPT ![m.to] = library[m.from], ![m.from] = NoFile]
                      ELSE library
        /\ run' = [run EXCEPT ![w].pc = "refile", ![w].cur = NoFile,
                              ![w].plan = @ \ {m}, ![w].moved = @ \cup {m}]
        /\ UNCHANGED <<row, staging, outside>>

RelabelledAfresh(ms) ==
    [r \in Resources |-> IF \E m \in ms : m.of = r
                         THEN [row[r] EXCEPT !.nasPath = Render(r)] ELSE row[r]]

Relabelled(ms) ==
    [r \in Resources |-> IF \E m \in ms : m.of = r
                         THEN [row[r] EXCEPT !.nasPath = (CHOOSE m \in ms : m.of = r).to]
                         ELSE row[r]]

(* The only commit, after the last row.                                    *)
RefileCommit(w) ==
    /\ run[w].pc = "refile" /\ run[w].plan = {}
    /\ row' = Relabelled(run[w].moved)
    /\ Stop(w)
    /\ UNCHANGED <<files, outside>>

-----------------------------------------------------------------------------
(* retry_failed, and the request threads                                   *)

RetryFailedBlindly(w) ==
    /\ run[w].pc = "idle" /\ "retry-failed" \in Scheduled
    /\ row' = [r \in Resources |-> IF row[r].status = "failed"
                                   THEN [row[r] EXCEPT !.status = "queued"] ELSE row[r]]
    /\ UNCHANGED <<files, run, outside>>

(* Every failure here is at stage "move".                                  *)
RetryFailed(w) ==
    /\ run[w].pc = "idle" /\ "retry-failed" \in Scheduled
    /\ \E r \in Recordings : row[r].status = "failed"
    /\ row' = [r \in Resources |-> IF row[r].status = "failed"
                                   THEN [row[r] EXCEPT !.status = "filing"] ELSE row[r]]
    /\ UNCHANGED <<files, run, outside>>

(* _update_resource up to its last check: `filed` asks for the recording   *)
(* to be filed, unless it already is or is about to be.                    *)
PatchCheck(r, want) ==
    LET filingNow == want = "filed" /\ row[r].status \notin {"filed", "filing"}
    IN  /\ patch = NoRequest
        /\ filingNow => mounted /\ row[r].staged /\ r \in staging
        /\ patch' = [of |-> r, read |-> row[r].status,
                     set |-> IF filingNow THEN "filing" ELSE want]
        /\ UNCHANGED <<row, files, mounted, run, crashes, drops, misfiled>>

(* The commit: the status is written if it differs from the one read.      *)
PatchCommit ==
    /\ patch # NoRequest
    /\ row' = IF patch.set # patch.read
              THEN [row EXCEPT ![patch.of].status = patch.set] ELSE row
    /\ patch' = NoRequest
    /\ misfiled' = (misfiled \/ (patch.set = "filed" /\ patch.read # "filed"))
    /\ UNCHANGED <<files, mounted, run, crashes, drops>>

(* An edit of the category, project, session or date, or a rename of one   *)
(* of those: the recording renders to another folder from now on.          *)
Edit(r, f) ==
    /\ row[r].folder # f
    /\ row' = [row EXCEPT ![r].folder = f]
    /\ UNCHANGED <<files, run, outside>>

-----------------------------------------------------------------------------
(* Faults                                                                  *)

(* The worker is killed, or refile_all raises: the session is rolled back. *)
Crash(w) ==
    /\ run[w].pc # "idle"
    /\ Crashing
    /\ Stop(w)
    /\ UNCHANGED <<row, files, mounted, patch, drops, misfiled>>

NasDrops ==
    /\ mounted
    /\ drops < MaxDrops
    /\ drops' = drops + 1
    /\ mounted' = FALSE
    /\ UNCHANGED <<row, files, run, patch, crashes, misfiled>>

NasReturns ==
    /\ ~mounted
    /\ mounted' = TRUE
    /\ UNCHANGED <<row, files, run, patch, crashes, drops, misfiled>>

-----------------------------------------------------------------------------
Init ==
    /\ row = [r \in Resources |->
                 [status |-> IF r \in Sidecars THEN "attached" ELSE "pending-review",
                  staged |-> TRUE, nasPath |-> NoPath, folder |-> Unsorted]]
    /\ staging = Resources
    /\ library = [p \in Paths |-> NoFile]
    /\ mounted = TRUE
    /\ run = [w \in Workers |-> Idle]
    /\ patch = NoRequest
    /\ crashes = 0
    /\ drops = 0
    /\ misfiled = FALSE

FileStep(w) ==
    \/ Requery(w) \/ Pick(w) \/ PickKid(w)
    \/ CopyAndVerify(w) \/ Replace(w) \/ Unlink(w) \/ CommitFiled(w)
    \/ FileEnd(w)

RefileStep(w) == RefileCheck(w) \/ RefileRename(w) \/ RefileCommit(w)

Next ==
    \/ \E w \in Workers :
           \/ FileBegin(w) \/ FileStep(w) \/ CommitRefused(w)
           \/ RefileBegin(w) \/ RefileStep(w)
           \/ RetryFailed(w) \/ Crash(w)
    \/ \E r \in Recordings :
           \/ \E want \in Wants : PatchCheck(r, want)
           \/ \E f \in Folders : Edit(r, f)
    \/ PatchCommit
    \/ NasDrops \/ NasReturns

(* A job that runs goes on; the queue is first-come first-served and       *)
(* file-resources is on a timer, so it gets its turn again and again       *)
(* however often the others do; a lost mount is mounted again.             *)
Fairness ==
    /\ \A w \in Workers : /\ WF_vars(FileStep(w)) /\ WF_vars(RefileStep(w))
                          /\ SF_vars(FileBegin(w))
    /\ WF_vars(NasReturns)

Spec == Init /\ [][Next]_vars

FairSpec == Spec /\ Fairness

-----------------------------------------------------------------------------
(* Properties                                                              *)

Vault == INSTANCE Custody WITH Items <- Resources, Places <- Paths, Nothing <- NoFile,
                               waiting <- staging, shelf <- library

(* While filing and refile_all do not run at once (one worker, or one of   *)
(* the two jobs), every step is a step of custody: through crashes,        *)
(* refused commits, edits, retries and lost mounts no bytes are lost and   *)
(* no file of the library is overwritten (jobs/nas.py:15-20).              *)
KeepsCustody == Vault!Spec

(* A row that has given up its staging file tells where in the library it  *)
(* is (filing.py file_resource, file_attached), while refile_all has not   *)
(* moved it on and yet to commit.  A row that has not still has its file   *)
(* in staging, or is about to be committed, or was when the job died or    *)
(* the database refused: between unlink (nas.py:131-136) and commit        *)
(* (filing.py:65-73) one interruption strands one row, and no more.        *)
Moving == {m.of : m \in UNION {run[w].moved : w \in Workers}}

Stranded ==
    {r \in Resources : /\ row[r].staged /\ r \notin staging
                       /\ ~\E w \in Workers : run[w].pc = "commit" /\ run[w].cur = r}

Located ==
    \A r \in Resources : ~row[r].staged /\ r \notin Moving =>
        row[r].nasPath # NoPath /\ library[row[r].nasPath] = r

Tracked == Located /\ Cardinality(Stranded) <= crashes

(* refile_all keeps it so as long as it is not interrupted and no PATCH    *)
(* has called a recording `filed` that is not (maintenance.py refile_all). *)
RefileKeepsTrack == crashes = 0 /\ ~misfiled => Tracked

(* Filing puts a sidecar in the folder its audio was filed to, whatever    *)
(* has been edited since the audio was (filing.py:13-14).                  *)
SidecarsBesideAudio ==
    [][\A s \in Sidecars :
          row[s].status = "attached" /\ row'[s].status = "filed" =>
             /\ row[Parent[s]].nasPath # NoPath
             /\ row'[s].nasPath[1] = row[Parent[s]].nasPath[1]]_vars

(* No recording is left `filing`: it is filed, or fails with a reason that *)
(* retry-failed can pick up (filing.py:9-11), once the NAS stays mounted.  *)
FilingEnds ==
    \A r \in Recordings : row[r].status = "filing" ~> row[r].status # "filing"

(* "An existing destination is never overwritten" (jobs/nas.py:19-20).     *)
NeverOverwritten ==
    [][\A p \in Paths :
          library[p] # NoFile /\ library'[p] # library[p] =>
             \E q \in Paths : library'[q] = library[p]]_vars

(* "A dropped NAS mount must stop these jobs, not make them report every   *)
(* file missing" (jobs/maintenance.py:22-23): when refile_all commits a    *)
(* new path for a resource the library holds, that is where its bytes are. *)
RefileTracks ==
    [][\A r \in Resources, w \in Workers :
          /\ run[w].pc = "refile" /\ row'[r].nasPath # row[r].nasPath
          /\ \E p \in Paths : library[p] = r
          => library[row'[r].nasPath] = r]_vars

=============================================================================

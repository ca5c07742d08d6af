# Verification of audioman

TLA+ specifications of audioman, a manager for field recordings: files come in
from a Google Drive Inbox, from a web form and from an Android app, wait in
*staging* for review, are *filed* into a library on a NAS, and are enriched,
grouped, previewed and exported by background jobs. The web server (`app/`)
and the worker processes (`jobs/`) share a PostgreSQL database, a staging
directory and the NAS mount, and nothing else: every interaction below goes
through one of these three.

Paths in this document are relative to `src/`.

## Inventory

| Component | State | Operations | Hard behaviour | What makes it correct |
|---|---|---|---|---|
| **Job queue, worker** `jobs/queue.py`, `jobs/worker.py` | table `job_queue` (status, attempts, next_attempt_at, started_at, locked_by), the worker processes | `enqueue`, `claim_next`, `mark_success`, `mark_failure`, `requeue_dead_local_jobs`, `reap_stale_jobs`, the loop | racing enqueues, sweeps and recoveries that read and write apart, slow workers taken for dead, lost bookkeeping | one executor per job; finished stays finished; every row settles |
| **Filing** `jobs/filing.py`, `jobs/nas.py`, `jobs/maintenance.py`, PATCH in `app/api.py` | `resources` (status, staging_path, nas_path, what the path is rendered from), staging files, library files, the mount | `file_resources`, `file_resource`, `file_attached`, `file_to_nas`, `refile_all`, `retry_failed`, `_update_resource` | minutes between a check and the rename it protects, crashes between the file system and the database, the mount coming and going, edits meanwhile | no bytes lost, none overwritten, rows name their file, filing ends |
| **Device uploads** `app/device_api.py`, `jobs/device_uploads.py` | `upload_sessions`, one staging file each, the Resources made of them | `initiate_upload`, `upload_chunk`, `complete_upload` and `ingest_device_upload`, `cleanup_stale_uploads` | repeated and concurrent requests, kills between two commits, two phones with one recording, the sweep | accepted recordings stay whole, transfers resume, outcomes are final |
| **Inbox pull, ingest** `jobs/rclone_jobs.py`, `jobs/inbox_rules.py`, `jobs/disk_budget.py`, `jobs/ingest.py` | Drive folder, `pending_uploads`, staging, quarantine, `resources` | poll, admit, copy, ingest, quarantine, move to `_processed` | failed moves and re-polls, kills between commits, admission and order of arrival | each file ingested once and never lost, staging within budget, nothing starves |
| **Grouping, joins** `jobs/grouping.py`, `app/api.py` | group columns of `resources`, joined files | suggest, confirm, dismiss, join | decisions changed while a join encodes, a kill after the rename | a dismissed group is not joined, a group is joined once |
| **Enrichment** `jobs/enrich.py`, `jobs/geocode.py`, `jobs/retry.py` | checked-at stamps, pins, photos, place names | location, photo and place lookups, circuit breaker | a row read before a slow call and written after it | data of an old date or position is never stored for a new one |
| **Previews** `jobs/previews.py` | done/error stamps, cache files by checksum | generate, regenerate, delete | the same | a regenerate request is honoured |
| **Exports** `jobs/export.py` | `exports`, output files | request, process, download | a run killed or stopped by the NAS, equal output names | every export ends, an output is its own |
| **Structure** `app/api.py` | projects, sessions, categories, tags, clips and the resources in them | create, update, delete, move | checks and commits of concurrent requests | a file's project is its session's; no loops of edits |
| **Filename and time parsing** `jobs/filename_patterns.py`, `app/timeutil.py` | none | pure | | |
| **Views, settings, schema, tokens; Drive mirror and wizard; units** | | | | |

How they interact: timers and requests call `enqueue`; a worker claims a row
and runs the job of that name, so the queue decides how many instances of a
job run at once (one, as long as nobody is taken for dead while alive). The
PATCH of a recording moves it to `filing` and enqueues `file-resources`. The
Inbox pull enqueues previews and grouping suggestions. All jobs and requests
write the same `resources` rows, each its own columns, from attributes read
earlier: the object mapper writes back what changed, by primary key, without
looking at the row again. The web server handles requests in threads
(`app.run` in `run.py`), on PostgreSQL at its default isolation, READ
COMMITTED. The hazards of this system are nearly all of that kind, and
`PROJECT.json` lists them line by line.

## Modules

| Module | Models | |
|---|---|---|
| `JobQueue` | `jobs/queue.py`, `jobs/worker.py` | component |
| `JobQueueProofs` | theorems about it | proofs |
| `Custody` | what filing promises of the files in its care | abstract specification |
| `Filing` | `jobs/filing.py`, `jobs/nas.py`, refile and retry of `jobs/maintenance.py`, the PATCH | component, refines `Custody` |
| `FilingProofs` | what `Custody` implies, that `Filing` implements it, and theorems about it | proofs |
| `DeviceUpload` | `app/device_api.py`, `jobs/device_uploads.py` | component |
| `DeviceUploadProofs` | theorems about it | proofs |
| `Inbox` | `jobs/rclone_jobs.py`, `jobs/inbox_rules.py`, `jobs/disk_budget.py`, `jobs/ingest.py`, `upload_audio` | component |
| `InboxProofs` | theorems about it | proofs |
| `Enrichment` | `jobs/enrich.py`, `jobs/geocode.py`, `jobs/retry.py`, the edits and refreshes of `app/api.py` | component |
| `EnrichmentProofs` | theorems about it | proofs |
| `Previews` | `jobs/previews.py` and its routes | component |
| `Exports` | `jobs/export.py` and its routes | component |
| `RenditionsProofs` | theorems about `Exports` and `Previews` | proofs |
| `Grouping` | `jobs/grouping.py`, confirm and dismiss | component |
| `GroupingProofs` | theorems about it | proofs |
| `Structure` | files, sessions, projects and categories in `app/api.py` | component |
| `StructureProofs` | theorems about it | proofs |
| `MCJobQueue`, `MCFiling`, `MCDeviceUpload`, `MCInbox` | the instances for TLC | |
| `MCUpkeep` | extends `Enrichment`; instances of `Previews` and `Exports` | |
| `MCArrangement` | extends `Grouping`; instance of `Structure` | |

Definitions whose names say how they are wrong (`StartCopyBlindly`,
`FailedUncounted`, `SweepSelectAnyStatus`, ...) are variants of the definition
that follows them, with one plausible bug each. No specification uses them:
putting one in the place of its original must break the property it is listed
with in `PROJECT.json`, which shows that the property can fail.

### JobQueue

`queue` is the table, a row per member of `Rows` in order of `enqueued_at`.
A step is a database transaction. The functions that read rows, do something,
and then write are split at the read: `RecoverSelect`/`RecoverCommit` for
`requeue_dead_local_jobs`, `ReapSelect`/`ReapMark` (one commit per row) for
`reap_stale_jobs`, `EnqueueCheck`/`EnqueueInsert`/`EnqueueRequery` for
`enqueue`; `claim_next` is one step because of `FOR UPDATE SKIP LOCKED`
(PostgreSQL; the SQLite branch is for development). Writes do not look at the
row's present status. Every writer meets the partial unique index, including
the ones that put rows back to `queued`, and what an `IntegrityError` does
there is modelled (a sweep ends, a starting worker dies, a result is lost).
A member of `Workers` is a process; time is relative (ticks left of a delay,
age of a running row). `usurped` is a history variable: rows written by
someone else while a live worker was executing them.

* `OneExecutor`: two live workers execute the same job at once only if a row
  of that job was usurped. With `OneActiveRow` this is what the other
  components rely on when they assume one instance of a job.
* `SettledStays`: a finished row becomes active again only through someone who
  had read it while it was running.
* `EveryRowSettles`: every enqueued row ends in success or permanent failure.
* `ReapTouchesOnce` (violated): see the findings.

### Custody and Filing

`Custody` says in three actions what `jobs/nas.py:15-20` promises: an item
enters the library at a free place (`Store`), leaves staging only when the
library holds it (`Release`), and moves within the library only to free places
(`Move`). `FilingProofs` shows that under it nothing is lost or overwritten.
`Filing` implements it (`KeepsCustody`, with `staging` for `waiting` and
`library` for `shelf`): TLC checks that on the two runs, `FilingProofs` proves it.

In `Filing` a step is a transaction or one call that changes the file system.
`run[w]` is the job a worker runs, with the local variables of its function
(the ids still to do, the three lists, the sidecars to copy, what `refile_all`
has moved and not committed). `StartCopy` .. `Unlink` are `file_to_nas`:
check of the mount and of the destination; copy, checksum, size, read-back and
second check of the mount; `os.replace`; `os.unlink` of the source, whose
failure is only logged. `CommitFiled` is the transaction after it,
`CommitRefused` what the exception handlers do if the database refuses it
(when a *sidecar's* commit is refused, they fail its recording, which is filed
already; the model has it). `refile_all` checks, renames, and commits once at
the end. A PATCH is a check and a commit, in a request thread. A file is
identified by the resource whose bytes it holds. With the mount gone no path
exists; an operation in progress fails or notices.

* `Tracked`: a row that has given up its staging file names the path its file is
  at (`Located`); a row that has not still has its staging file, or is about to
  be committed. Between the unlink (`jobs/nas.py:131-136`) and the commit
  (`jobs/filing.py:65-73`) a crash or a refused commit breaks the second half:
  the file is in the library and the row says `filing`, or `failed`, with no
  `nas_path`. `Stranded` are those rows; there is at most one per crash or
  refused commit (`crashes` counts both), and nothing else makes one.
* `FilingEnds`: nothing stays `filing`.
* `SidecarsBesideAudio`: a sidecar is filed into the folder its audio was filed
  to, whatever was edited since.
* `RefileKeepsTrack`: `Tracked` holds with `refile_all` too (and nothing is
  `Stranded`), unless something was interrupted (`crashes`) or a PATCH had called
  a recording `filed` that was not (`misfiled`; `app/api.py:149,261` sets `filed`
  directly when the row is `filing`). Both exclusions are needed: TLC finds a trace for each when it is
  dropped. After an interruption rows keep their old paths for ever, because
  the next run skips a row whose destination exists.

### DeviceUpload

A step is a commit or a file operation, in a thread of the web server or in
the sweep. `req[t]` remembers the upload and the `bytes_received` the handler
read at its start, which is all it ever reads. A file is the sequence of units
written to it; an honest app sends unit n+1 at offset n. Filing appears as one
step that takes the file away (`File`).

`Serial` says that the app sends an upload's requests one after another
(`PLAN.md:1628`), `LateReturns` that an app may come back to an upload after
`DEVICE_UPLOAD_ABANDONED_HOURS`. `cut` is a history variable: the uploads a
killed request or sweep was in the middle of changing.

* `Kept`: a recording that has a Resource is filed, or its staging file is
  whole.
* `Resumable`: between two requests the file is exactly what `bytes_received`
  says. What breaks this contract (`app/models.py:389`) is part of the formula:
  a request killed between the append and the commit
  (`app/device_api.py:324-327`) leaves the file ahead of the row, by one body
  for each kill and never behind it, so that the upload can only fail its
  checksum; and the file can be gone, by a sweep whose commit is to come or by a
  request or sweep that was killed before its commit. Only uploads that were so
  cut (`cut`), or are in the sweep's hands, deviate.
* `SettlesOnce`, `CompletedIsIngested`, `UploadEnds`.

All of them are stated for serial apps. With concurrent requests for one
upload `Resumable`, `SettlesOnce` and `Kept` fail; the run `device_repeat`
shows the worst of these.

### Inbox

A step is an rclone call, a file operation or a commit of `drive_inbox_pull`,
or a step of `ingest_staged_file` / `ingest_sidecar`, which run inside it and
inside the request of a direct upload. `pull` holds the local variables of the
job: the listing (`list`), the running total of staged bytes, `held`, and
`merges`, the rows added to the session that the next commit takes along (a
kill loses them, an ingest's own commit makes them permanent). `Look` is the
turn of the entry that comes first in the order of the work (`Foremost`): `Notice` (unseen, or its size changed), `Defer` (too young,
a sidecar without its audio, over the cap, held or too big) or `Admit`.
`Verdict` is `disk_budget.admit`, and `StagedBytes` what it counts; `InboxBytes`
is the part of it that came through the Inbox. A staging place is a directory per Inbox path
(`StageDir`), or a name at the top level for uploads.

* `Kept`: a staging file that a row names is there and is that row's.
* `Accounted`: what was moved to `_processed` has a row, or a failed row names
  its staging place.
* `SidecarFollows`: a sidecar hangs on audio its name points at, and is in the
  library only after it (`jobs/inbox_rules.py:45-74`).
* `WithinBudget`: the Inbox's files, with duplicates and leftovers, keep to
  `STAGING_BUDGET_GB` over all runs.
* `InboxDrains`: each audio file leaves the Inbox in the end.

### Enrichment

A lookup is two steps: `Ask` reads what is asked, `Answer` (or `Unavailable`)
stores and commits. `job[k]` is the sweep of kind `k` with its candidates and
the count of its circuit breaker; `request` is one refresh by a person. A track
or photo is known by the date it was asked for, a name by the position: data
*fits* if that is the present one. `place_moved` is `Near`, a relation between
positions that need not be transitive: each move within `PLACE_MOVED_METRES`
keeps the name, and many of them can carry a pin away from it. `Drifts(p, q)`
says that q can be reached from p by such moves. The ids of
locations are random UUIDs, so the batch of a geocoding run is any
`PLACE_BATCH` of the candidates.

* `DerivedFitsDate`: track, photos, automatic pin and checked-at stamps belong
  to the date the recording has now, and are gone if it is not exact.
* `NameFitsPlace`: a looked-up name is that of the pin's place, or of one the pin
  has drifted from. (That it is of a place *nearby* is false: three places in a
  row, each near the next, refute it.)
* `ByHandStays`: no job moves a manual location or replaces a typed name.
* `CatchesUp`: every queued lookup is made, whatever outages and kills.

### Previews and Exports

In `Previews` a run reads a row after each of its own commits and only then:
`needs`, the source and the state of the mount are what it read. `Make` is one
generation, which takes minutes, `Mark` its commit. `RegenDelete`/`RegenCommit`
and `Get`/`GetCommit` are the two requests that unmark. Cache files are named
by checksum, hence by recording. `jobs/previews.py` handles resources that
vanish meanwhile; no code deletes one, so those branches are left out.

* `MarkedHasFile`, `NotRetried` (a failure waits for a person,
  `jobs/previews.py:279-280`), `AllMade`.

In `Exports` the job commits `running` (`Start`), reads clip and recording
(`Open`), lets ffmpeg write the output at its final path (`Encoded`,
`RenderFails`) and commits (`Save`). The path (`PathOf`) is made of base name,
window and extension, and the extension of an `original` is its source's
(`jobs/export.py:75-89`): `original` and `wav` of one clip of a .wav are one
file, and so are two recordings of one name. In `MCUpkeep` the first two exports
meet in the former way.

* `DownloadFits`: what a finished export serves is the recording and format
  asked for, and all of it or, for a clip, a window the clip had between the
  request and the rendering (`had`; the job reads the clip only when it runs);
  unless the clip was deleted while the export waited (`orphaned`) or a later
  export has begun to write the same file (`spoilt`).
* `ExportsEnd`: every export ends as a success or an error.

### Grouping

A group is named by its members, since no file is grouped twice. The detectors
are operators over what is known of the files. The code walks through sorted
lists; the model says which files a walk puts together: `Successive` are the
pairs of neighbours in such a list (`Before`; rows alike in what they are sorted
by come in any fixed `Order`), `Linked` the sets of two files at least that a
relation between neighbours holds together. `Chains` takes the neighbours that
`Continues`: the first is a full part and the gap to the second is right
(`jobs/grouping.py:102-122`; the loop begins a chain at each full part that no
earlier chain took in, so a chain begins where the file before does not lead to
it). `Clusters` takes those that are close enough (lines 183-192, 215-224). That
this is what the loops compute was checked with TLC against the loops written as
recursive operators, on 10,000 readings of four files. `suggest` holds the groups a run still has to stamp, one commit each.
A confirm or dismiss is a query (`AskFor`) and a commit. A join is `Probe`
(the members are read, ffprobe begins on each), then `Refuse`, `Wait` or `Encode`
(ffmpeg into `.part`), `Encoded` (`os.replace`) and `Save` (the new Resource; the
commit), with `Exists` the unique checksum: the same parts joined again are the
same bytes. Requests, filing and the mount come in between any two of these, and
the outcome is written to all members without reading their status again.

* `JoinedOnce`: one joined recording per group, with its file; `joined` means
  there is one.
* `SuggestionsFit`: what is suggested satisfies a definition of split chains
  and takes that is stated on the files, not on the algorithm; groups are whole.
* `DismissedStays`: a dismissed group stays so until a request confirms it,
  unless it was dismissed after a join had read its members and before that
  join's commit (`overtaken`).
* `GroupsSettle`: no suggestion is missed and no confirmed group stays `joining`.

### Structure

A request reads and checks (`PatchFile`, `CreateSession`, ...) and then writes
the columns in which its objects differ from what it read (`Write...`); any
other request may commit in between. A refused request is not a step. The
constraints of the database (foreign keys, unique name within a project) are in
the guards of the writes. `raced` is a history variable: what was written after
another request had committed since the read, until it is written again. A
category that was archived already when `merge_category` read it is not archived
again by it (`remerge`; `app/api.py:1775` changes nothing then).

* `Agreement`: a file's project is its session's (`app/models.py:91`), and no
  file names a deleted session. The second half holds however requests overlap.
* `Organised`: no loop of originals, no two sessions in one folder, no file in a
  category merged away. `Chain` is what can be reached over originals: the least
  set that holds a file and the original of each of its members.

## Runs

| Run | Instance | Shows |
|---|---|---|
| `jobqueue_safety` | 3 workers on 2 hosts, 2 callers, 1 job, 2 rows, 2 attempts, timeout 1 tick | `TypeOK`, `OneExecutor`, `SettledStays` |
| `jobqueue_live` | the same, 1 caller, 1 row, no symmetry | `EveryRowSettles` |
| `jobqueue_reap` | 3 workers on one host, 1 row, 3 attempts | `ReapTouchesOnce` violated |
| `filing` | 1 worker, 2 recordings and a sidecar, one folder, both recordings with the same name; 1 crash, 1 loss of the mount | `TypeOK`, `Tracked`, `KeepsCustody`, `FilingEnds` |
| `filing_refile` | the same with two folders, edits and `refile-all`; 1 crash | `RefileKeepsTrack`, `KeepsCustody`, `SidecarsBesideAudio` |
| `filing_overwrite` | 2 workers, no fault | `NeverOverwritten` violated |
| `filing_drop` | 1 worker, 1 loss of the mount | `RefileTracks` violated |
| `device` | 2 uploads of one recording of 2 units, 2 threads, 2 kills, serial | `TypeOK`, `Kept`, `Resumable`, `CompletedIsIngested`, `SettlesOnce`, `UploadEnds` |
| `device_repeat` | 1 upload, 2 threads, not serial, no fault | `OnlyRedundantDiscarded` violated |
| `inbox` | 2 audio paths and a sidecar of the first, 1 name for web uploads; 4 contents, of which one is unreadable and fills the budget and one is bigger than it; 3 files sent, 1 fault, budget 2, disk 3, 2 files per run | `TypeOK`, `Kept`, `Accounted`, `SidecarFollows`, `WithinBudget`, `InboxDrains` |
| `upkeep` | *Enrichment*: 1 recording, 2 dates, 3 places in a row of neighbours and a fourth, 2 edits, 1 outage or kill. *Previews*: 2 recordings, the older on the NAS, 2 requests, 1 fault. *Exports*: 3 exports of 2 recordings of one name, 1 clip, 2 edits, 1 fault | ten properties |
| `arrangement` | *Grouping*, joins: 3 parts, the last late, 2 requests, 1 fault, room for 5; detection: 3 out of 10 recordings. *Structure*: 2 files, 2 session names of one folder, 1 project, 2 categories, 2 threads, 3 requests | seven properties |

Why these bounds are enough. Queue: the unique index ties a job to one active
row, so two rows are one that finishes and its successor; two claimants and
one bystander on another host are all the parties a row ever meets; a row that
fails twice has seen every branch of `mark_failure`. Ages stop at "older than
the timeout". Filing: two recordings that want one path are the smallest
collision, and with one more nothing new can happen to a path; the folders
matter only as "the same or another". `refile-all` is left out of the run with
a lost mount, where custody really can be broken (a file placed while the
mount hides it, `filing_drop` is the mild form). Uploads: two uploads of one
recording are the smallest case of a duplicate; a file of two units has an
empty, a partial and a whole state.

Inbox: an audio file, its sidecar and an unrelated file behind them are the
smallest queue with an order, a hold and something held; the budget of two is
filled by one file and its duplicate or by the unreadable one, a third never
fits, and the disk admits one more than the budget. With one fault every step can be the one that is cut short, and the
later polls meet what it left. Enrichment: a date and another, a place, one near it,
one near that one only, and one far; recordings meet only in the circuit breaker, which opens at the
first failure here. Exports: `original` and `wav` of one clip of a .wav, and one export of another
recording of that name, are the ways two outputs can be the same path. Grouping: three
parts give a chain of two, of three, and one that grows late; the ten
recordings of the detection are chosen to lie on both sides of the comparisons
in the code. Structure: two overlapping requests and one before or after them;
a loop of originals needs two files, a clash of folders two sessions.

`upkeep` and `arrangement` check components that share no variable side by
side: `part` says which one a behaviour is of, the initial state chooses it,
and the variables of the others stand still. The properties of `Enrichment` and
`Grouping` are checked as they are; those of `Previews`, `Exports` and
`Structure`, which are instances, are restated under `part`. A behaviour has one
component only, so none waits for another or hides behind its fairness.

The jobs' stop conditions never deadlock these models, so deadlock is checked
in all of them but `arrangement`: there is no job in `Structure`, which stops
when its bounded requests are used up.

### Fairness

* Queue: `WF` of each live worker's next step and of the clock. A worker loops,
  and a job ends because every external call has a timeout. Nobody has to
  enqueue and nothing has to fail.
* Filing: `WF` of a running job, `SF` of starting `file-resources` (it is on a
  timer and the queue is first come, first served, so other jobs delay it but
  do not keep it out), `WF` of the mount's return. `FilingEnds` is conditional
  on that last one: with the NAS gone for good, rows stay `filing`, as
  `jobs/filing.py:9-11` says they should.
* Uploads: `WF` of a request in progress and of the sweep (hourly timer), `SF`
  of an upload's going quiet: requests that change nothing, like a `complete`
  that answers 500, do not move `updated_at`. The app owes nothing.
* Inbox: `WF` of the pull (a timer; rclone calls have a timeout) and of an
  upload in progress, `SF` of a file's getting old enough (time passes while a
  pull runs), `WF` of filing a recording that can be filed: someone reviews
  what is staged. Senders owe nothing.
* Upkeep: `WF` of each job and of the commit of a request in progress; for
  previews, `WF` of the mount's return. Exports do not need the NAS back: one
  that waits for it ends as an error, or is `cut`.
* Arrangement: `WF` of the two grouping jobs and of the mount's return. People
  need not confirm anything. `Structure` has safety properties only.

## Proofs

`tlapm` checks every proof, from no assumption but the named ones on the
constants (`QueueAssumption`, `UploadAssumption`, `FilingAssumption`,
`InboxAssumption`, `EnrichmentAssumption`, `PreviewsAssumption`,
`ExportsAssumption`, `GroupingAssumption`, `StructureAssumption`, which TLC
evaluates on the instances) and the hypotheses in
the statements: `Polite`, `Apart`, `Steady`. Each component's invariant is
`IInv`, a conjunction of named parts; TLC checked it on the instance of the
component's run before it was proved. The proofs are laid out alike: what the
operators return, what each action comes to (`Starting`, `Storing`, `Born`,
...), one lemma per part of the invariant with a step per action, the theorems.

**Queue** (`JobQueueProofs`): `QueueTypeCorrect`, `OneActiveRow`,
`QueueOneExecutor` and `FinishedRowsStay`, for any jobs, rows, workers, hosts,
callers, retry limits and timeouts. `OneExecutor` is not inductive: it says
nothing of who is in `locked_by`. The invariant is `IInv == TypeOK /\
UniqueIndex(queue) /\ Ownership`, where `Ownership` says that a worker executing
a row nobody usurped is the `locked_by` of that row, and the row is running. Two
executors of one job then need two running rows of it (excluded by the index) or
one row with two owners. `Ownership` survives because every commit that takes a
row from a live worker adds it to `usurped`: that of `reap_stale_jobs`, for rows
of any host that have run too long; that of `requeue_dead_local_jobs`, when the
row it read under a dead process has been reaped and claimed anew by the time it
writes; and the result of a worker whose own row was taken in the meantime.

**Custody** (`FilingProofs`): `CustodyLosesNothing` and
`CustodyOverwritesNothing`, of the promise alone, with any files and places.
Filing gets them through the refinement.

**Filing** (`FilingProofs`): `FilingTypeCorrect` needs no hypothesis. The rest
is proved under

* `Apart`: `file-resources` and `refile-all` do not run at the same time. The
  queue runs one instance of each job, which is `QueueOneExecutor` as long as no
  row is usurped, but not one job in all. So `Apart` is what the deployment
  provides, not the queue: with the one worker of `DEPLOYMENT.md:17` it holds;
  with the two of `PLAN.md:421-423` it holds while nobody starts `refile-all`,
  which is manual, and `filing_overwrite` shows the loss if someone does.
* `Steady`: the mount does not go (`MaxDrops = 0`), or `refile-all` is not run:
  it is manual (`DEPLOYMENT.md:151-156`) and whoever starts it can see that the
  NAS is there. Otherwise `filing_drop`.

`FilingImplementsCustody` proves that each step is a step of `Custody` or leaves
`staging` and `library` alone: a rename of `refile_all` is `Move`, the
replacement of `.part` by the final name is `Store`, and the unlink in staging
after it is `Release`. `FilingLosesNothing` is `CustodyLosesNothing` carried
over it. The argument is `Carried` (from the choice of a name until the
replacement the staged file is there and the name is free; after it, the file is
at that name) and `Planned` (`refile_all` moves each file once, from elsewhere,
to a name it has found free); both need that one run alone moves files
(`Single`, from `Apart` and the queue's one instance of a job), since nothing
else keeps a name free between `exists()` and `replace`. `RefilingKeepsTrack`
follows the rows (`Labelled`): what is still planned lies where its row says,
what was moved lies where its row is about to say. `FilingKeepsTrack` is
`Tracked` for any number of workers, if `refile-all` is not run (which makes it
`Apart` and `Steady`); `FewStranded` counts: a resource joins `Stranded` only by
the step that also counts a crash, and one at a time, because one run alone is
ever at a commit. `FilingNeverOverwrites` is what two workers violate in
`filing_overwrite`, likewise read off `Custody`'s steps. `SidecarsGoWithAudio` needs
`Beside`: a sidecar under way goes to the folder its audio's row names, and
nothing renames the audio meanwhile.

**Uploads** (`DeviceUploadProofs`): `UploadTypeCorrect`, with no further
assumption, and for a polite app (`Polite`: requests of one upload one after
another, no return to an upload left for days) `AcceptedRecordingsKept`,
`CompletedUploadsIngested`, `OutcomesFinal` and `UploadsResumable`, for any
uploads, recordings, sizes, threads and kills. Without `Polite` the first three
are false (`device_repeat`); with it and without kills, so is what that run
violates: `RedundantDiscardedOnly`. The inductive invariant `IInv` adds to the
properties

* `Alone`, `Current`, `Untouched`: one request per upload; while it is in
  progress the row is as it was read and its file is nobody else's; the sweep is
  only at uploads that are open, quiet and not being served. The sweep's late
  commit and a request's late commit therefore never meet: `OutcomesFinal`.
* `Established`: past the checksum the file is whole; at the INSERT it is whole
  and no Resource has it yet; after it, a Resource exists.
* `Charged`: an upload whose file a Resource has is completed, or at its last
  commit, or was cut there. This is what `Kept` lacks: it excludes that an
  append, a mismatch, a redundant `complete` or the sweep touches that file.
* `Staged`, for `UploadsResumable`: outside a request the file of an upload that
  was not cut holds what `bytes_received` says (`Even`); within one, what the
  request has got to. `Ahead`, for the others: the file leads the row by the body
  that is written and not counted, and by one for each kill.

**Inbox** (`InboxProofs`): `InboxTypeCorrect`, `StagedFilesKept`,
`ArrivalsAccounted`, `SidecarsFollow` and `InboxWithinBudget`, for any paths,
contents, budget, cap, faults and sizes. The invariant adds to the properties

* `InStep`, `OfKind`: the ingest inside the pull is of the pull's file; under a
  name that is a sidecar's there is a sidecar.
* `Named`, `Fresh`, for `Kept`: the first file to come to a place is nobody
  else's, and is still there at the INSERT. Any row that names a place was
  ingested from there, so a second copy of the path is a second arrival, which
  `came` counts; this is the exclusion `Kept` is stated with.
* `Arrived`, for `Accounted`: unless a path is used again, what is ingested is
  what lies in the Inbox, and from the end of the ingest to the move it is known.
* `Hangs`, for `SidecarFollows`: the parent was found by its name, and a sidecar
  that goes beside a filed one was seen with it filed.
* `Counted`, for `WithinBudget`: while a run goes on, the Inbox's files in
  staging and quarantine are at most what the run has counted (`pull.staged`);
  the one that is copied and not counted yet fits too; the list still says what
  lies in the Inbox. Rows that fill staging by other ways are not in the sum
  (`InboxBytes`), and a file moved to quarantine leaves it as it was.

The sums over paths and the maximum over what was folded (`SumFunctionOnSet`,
`MapThenFoldSet`) would ask for an induction over finite sets. They are proved
on a smallest counterexample instead: `Smallest` takes, from a family of finite
sets, one none of whose proper subsets is in it, by the order of cardinals.

**Enrichment** (`EnrichmentProofs`): `EnrichmentTypeCorrect`, `LookupsFitDate`,
`NamesFitPlaces` and `EnteredByHandStays`, for any recordings, dates, positions,
nearness, outages and edits. What a property does not say is what a call that
has been made and not answered still knows: `DateCurrent` (it asks for the date
the recording has, which is exact, unless the row is in `overtaken`),
`PlaceCurrent` (a name is asked for a place the pin has at most drifted from),
`TypedIsChecked` (a typed name counts as looked up, so no sweep takes it up),
`Numbered` (the id of a deleted location is not given again).

**Previews** (`RenditionsProofs`, as `Cache`): `PreviewsTypeCorrect`, `MarkedFilesThere` and
`FailuresNotRetried`. `Working`: a run's list has nothing that failed, and what
it made and did not commit is in the cache; `MadeSince`: what was marked since a
regenerate deleted the files was made since. `crossed` takes out the recordings a
regenerate was asked for while a run was making their files.

**Exports** (`RenditionsProofs`): `ExportsTypeCorrect` and `FinishedExportsFit`.
`Marked`: an export not read yet has the clip it was asked for, with a window in
`had`, or is in `orphaned`; `Rendering`: what is encoded fits the order, the file
at the path is the job's from the encoder's end to the commit, and every
finished export with that path is in `spoilt`; `Finished`: a finished export has
a path.

**Grouping** (`GroupingProofs`): `GroupingTypeCorrect`,
`SuggestionsWholeAndFit`, `GroupsJoinedOnce` and `DismissedGroupsStay`, for any
number of files, whatever is known of them, any settings, requests and faults.

* `LinkedFact` carries the detectors: what links hold together are the smallest
  sets that no link leaves, so two of them never overlap, and whatever holds for
  the members of a link's closure holds for the set. From it, `ChainsFact` (of
  one recorder; a member that is not full or has no successor comes after all
  the others, since what comes up to it is closed too), `ClustersFact` and
  `TakeFact`, and `DetectedFact`: the groups found are sound and disjoint, across
  the three detectors, because each leaves out what the surer one has taken.
* `Grouped`: a file's group is sound, contains it, and all its members say the
  same; `Planned`: what a run still has to stamp is sound, disjoint, and without
  a group yet. No other step gives a file a group, so `Planned` outlasts
  requests, joins and filing.
* `Working`: from the reading of its members to the commit (`probe`, `encode`,
  `save`) the group being joined is not dismissed, unless `overtaken` says that
  it was dismissed since; what is encoded and not committed has its file, or was
  joined before (filing may take that recording, and its file, in between). That
  is what `JoinedOnce` and `DismissedStays` need of a join: that a joined group
  is refused by the checksum and leaves the staged file alone, and that
  `join-failed` or `joined` meets a dismissed group only if the dismissal came
  after the members were read.

**Structure** (`StructureProofs`): `StructureTypeCorrect`,
`FilesAgreeWithSessions` and `LibraryOrganised`, for any files, sessions,
projects, categories and names, and any number of threads and requests.

* `Shape`: a request writes columns of the kind it is of. `Current`: a request
  nobody has overtaken still sees what it read, so that its checks would pass
  again. Every commit marks all requests under way as `late`, hence a step that
  is not late writes what its checks allow *now*; and what a late one writes is
  in `raced` or breaks only what excludes it.
* With that, `Agreement` and the absence of deleted sessions, `FoldersDistinct`,
  and `MergedStaysEmpty`, which needs `MergedAreArchived`: a category merged away
  is archived and no check lets a file into it.
* `NoLoops`, of loops of any length: `Chain` is a least closed set, so a new
  original whose chain does not lead back closes no loop (`NoNewLoop`), what is
  on no loop stays so when another row changes to something that does not reach
  it (`OnLoop`, `UpSame`). No induction is needed.

The theorems about `Previews`, `Exports` and `Structure` are about the components'
own formulas; `upkeep` and `arrangement` check the same formulas, of an instance
and under `part` (`MarkedHasFile`, `NotRetried`, `DownloadFits`, `Agreement`,
`Organised`).

### What the attempts showed

* `NameFitsPlace` was stated as "near", which TLC had confirmed for two places.
  It is inductive only if `Near` is transitive, and distances are not: with
  three places in a row TLC refutes it. `place_moved` compares with the last
  position only, so the name may be left behind by any number of small moves;
  `Drifts` is the property the code has.
* `KeepsByHand` read a field of a location that a DELETE had just removed.
* `TypeOK` needed that `None` is no recording, path, clip or place: the
  assumptions now say so.
* The pull took its next entry by `CHOOSE` over an order that was not known to
  be one: `Foremost` says which entry comes first, and `InboxAssumption` that
  the order is one.
* The chain of originals was a recursive operator, and so were the detectors,
  over sequences; neither can be proved about. As least closed sets both are
  shorter and say more. The sorting had no meaning for two files of the same
  time: `Order` settles that, and `SuggestionsFit` now takes as a chain's last
  part the one sorted last, because the latest start need not be unique.
* A request of `Structure` could, as far as its type said, write any columns:
  `Shape` had to be found first.
* `Tracked` first spoke only of rows that have given up their staging file, and
  so passed over a file that is gone while its row still names it. That is what a
  crash between unlink and commit leaves; `Stranded` counts it.
* `Resumable` left out every upload that a kill had cut. What such a kill can do
  is bounded, and is now part of it.
* The path of an export was keyed by its format. The code keys it by extension,
  and more exports share a file than the name suggests.
* A join that is refused was one step. With the probes apart from the refusal, a
  dismissal is lost even where ffmpeg never ran.
* `RefileKeepsTrack`, in its first half, is inductive only with what `refile_all` has in its hands: the
  places its plan moves files to, before their rows say so. A `refile_all`
  killed in between, or one that was led by a PATCH that misfiled, breaks it,
  which the property's exclusions (`crashes`, `misfiled`) had already said.

### Only model-checked

* Liveness (`EveryRowSettles`, `FilingEnds`, `UploadEnds`, `InboxDrains`,
  `CatchesUp`, `AllMade`, `ExportsEnd`, `GroupsSettle`): with fairness and
  `ENABLED` it is out of this prover's reach.
* The four findings: each is a counterexample.


## Findings

1. `reap_stale_jobs` may touch a row twice (`jobqueue_reap`), against
   `jobs/queue.py:186-187`.
2. With two workers `refile_all` can overwrite a file of the library
   (`filing_overwrite`), against `jobs/nas.py:19-20`.
3. A mount lost during `refile_all` leaves rows at paths that hold nothing
   (`filing_drop`), against `jobs/maintenance.py:22-23`.
4. A repeated `complete` deletes the recording it completed
   (`device_repeat`), against `jobs/device_uploads.py:77-79`.

### What the exclusions stand for

Where a property is false of the code, it is stated with an exclusion as narrow
as TLC allows: dropping it gives a counterexample. These are observations about
the code as much as the findings above.

* *Inbox*, `Kept`: a file pulled twice (`came`). After a failed move to
  `_processed`, or a kill before it, the next poll copies the same Inbox file
  over the staged one, finds the checksum there, and moves the file to
  quarantine: the pending row has lost its bytes, although
  `jobs/rclone_jobs.py:202-206` says the file is safe. `Reuse = FALSE`: senders
  who reuse a path, or replace a file between copy and move, lose one likewise,
  and the reclaim view (`app/api.py:637-648`) then offers the later file for
  deletion because the earlier one is on the NAS.
* *Inbox*, `InboxDrains`: `Blocked`. A file that fits the budget, but not beside
  bytes that never leave staging (duplicates, failed rows, files without a
  row), waits for ever and holds everything behind it
  (`jobs/disk_budget.py:8-9,19`).
* *Direct uploads* are saved to a flat name (`app/api.py:1384`) and can
  overwrite the staging file of a row; `Kept` excludes such names (`came`).
* *Enrichment*, `overtaken` and `displaced`: a date changed during its lookup
  gets the old date's track and is marked checked, against
  `app/api.py:222-225`; a place moved while its name is asked gets the name of
  the old position, because the check after the call looks only for a name. A date removed, or a location deleted, in the same window makes
  the run fail (`AskNothing`, `AnswerGone`); the next run goes on.
* *Filing*, `Stranded`: one crash or refused commit between unlink and commit
  leaves one row that names a staging file it has no more; `retry-failed` queues
  it again and it fails again. `crashes` and `misfiled` in `RefileKeepsTrack`: an
  interrupted `refile_all` leaves rows at empty paths, and a `filed` set by PATCH
  leaves a row with no path, for which `refile_all` invents one.
* *Uploads*, `cut`: killed between the Resource's commit and its own, an upload
  can lose the file the Resource names (`Kept`); killed between append and
  commit, its file is ahead of the row for good and never matches its checksum
  (`Resumable`, which bounds by how much).
* *Queue*, `usurped`: a worker that is slow, not dead, loses its row to the stale
  sweep, and its job runs twice at once. `SettledStays` allows the result of such
  a worker to reopen or settle the row late.
* *Previews*, `crossed`: a regenerate during a generation leaves a marked kind
  without a file until someone opens it. Reading the mount once per run also
  means that a mount lost during it is recorded as `missing` files, against the
  docstring at `jobs/previews.py:281`; so is a file that filing has moved
  and not committed.
* *Exports*, `cut`: a kill, or a NAS that is away, leaves an export `running`
  for ever. `orphaned`: an `original` export whose clip was deleted while it
  was queued exports the whole recording. `spoilt`: exports of one base name,
  window and extension are one file, which the later one overwrites: those of two
  recordings of one name, or `original` and `wav` of one clip of a .wav.
* *Grouping*, `overtaken`: a dismiss after the members are read, during the
  probes or the encoding, is overwritten by `joined` or `join-failed`. `Crowded`: what a killed join left in staging
  counts against the room its next attempt needs. A group confirmed again after
  it was joined is encoded again and, refused by the unique checksum, says
  `join-failed` though it is joined.
* *Structure*, `raced`: two overlapping requests can part a file's project from
  its session's, close a loop of originals, give two sessions one folder, or
  put a file into a category just merged away.

## What is not modelled

Filename and time parsing (text), templates and views, settings, the schema
helper, token authentication, the Drive mirror and the rclone wizard, systemd.
Within the modelled components: `rebuild-index` and `verify`, which only
report; `.part` files a crash leaves (the next copy truncates them); rclone's
`.partial` files; staging directories as such; PATCHes of sidecars' status; the
order in which a filing run takes its recordings (any order here); disk
admission and metadata of device uploads; empty files left by an `initiate`
that is killed before its commit; project files and junk in the Inbox, and the
capture date an ingest works out; which track point or photo a provider
returns; tags, creating and changing projects, creating categories.

## Plan

What is left is **composition**: the queue's `OneExecutor` made the explicit
assumption of the jobs' modules (a `Filing` driven by `JobQueue` rows), which is
where one run of each job comes from; and the deployment's other timers against the
queue, such as `refile-all` started by hand while `file-resources` runs.

------------------------------- MODULE Inbox --------------------------------
(***************************************************************************)
(* The Drive Inbox: how files dropped there, or posted to the web form,    *)
(* become Resources with a staging file.                                   *)
(*                                                                         *)
(*   drive-inbox-pull        jobs/rclone_jobs.py, inbox_rules, disk_budget *)
(*   ingest of a staged file                               jobs/ingest.py  *)
(*   POST /ingest/upload                                      app/api.py   *)
(*                                                                         *)
(* A step is an rclone call, a file operation or a commit; the process may *)
(* be killed between any two.  One pull runs at a time (JobQueue's         *)
(* OneExecutor).  A file is its content; its size and modtime change with  *)
(* it.  Files that classify() leaves alone are never listed.  Review and   *)
(* filing, which empty the staging directory, are the one step FileAway.   *)
(***************************************************************************)
EXTENDS Integers, FiniteSetsExt

CONSTANTS
    Audio,          \* Inbox paths that classify() calls audio
    Sidecars,       \* Inbox paths that it calls sidecars
    Matches,        \* the audio paths each sidecar's name points at
    Names,          \* file names a direct upload may have
    Recordings,     \* contents of audio files
    Companions,     \* contents of sidecars
    Sent,           \* which contents are sent to each of these places
    Corrupt,        \* recordings ffprobe cannot read
    Size,           \* bytes of each content
    Rank,           \* a number per path: its place in the order of names
    Budget,         \* STAGING_BUDGET_GB
    Disk,           \* bytes of the disk beyond DISK_RESERVE_GB
    PerRun,         \* INBOX_MAX_FILES_PER_RUN
    Reuse,          \* may senders use the path of an earlier file again
    MaxDrops,       \* bound: files sent
    MaxFaults,      \* bound: kills, failed rclone calls, a NAS out of reach
    None

Paths == Audio \cup Sidecars
Slots == Paths \cup Names      \* staging places: a directory per Inbox path,
                               \* and the top level for direct uploads
Contents == Recordings \cup Companions
Threads == {"pull", "upload"}

VARIABLES
    inbox,          \* Drive: the content at each path
    processed,      \* Drive: the same under _processed
    pending,        \* pending_uploads
    stage,          \* the file in each staging place
    quarantine,     \* STAGING_DIR/duplicates: content and where it came from
    resource,       \* resources, by checksum
    unresolved,     \* staging places named by failed rows with no checksum
    pull,           \* the drive_inbox_pull in progress
    ingest,         \* the ingest each thread is in
    sent,           \* files sent so far
    faults,         \* faults so far
    came            \* history: how often a file from here was ingested, up to 2

vars == <<inbox, processed, pending, stage, quarantine, resource, unresolved,
          pull, ingest, sent, faults, came>>
drive == <<inbox, processed>>
table == <<resource, unresolved>>
disk == <<stage, quarantine>>
bounds == <<sent, faults>>
history == <<came>>

-----------------------------------------------------------------------------
File == Contents \cup {None}

PendingUpload == [content : Contents, seen : Nat, old : BOOLEAN]

Resource == [status : {"pending-review", "failed", "attached", "filed"},
             at : Slots \cup {None}, inboxPath : Paths \cup {None},
             parent : Recordings \cup {None}]

(* list: what of the listing is still to be looked at; merges: rows added  *)
(* to the session and not committed yet.                                   *)
Pull == [pc : {"idle", "scan", "copy", "copied", "ingest"},
         list : [Paths -> File], cur : Paths \cup {None},
         parent : Recordings \cup {None}, now : Nat, n : 0 .. PerRun,
         staged : Nat, held : BOOLEAN,
         merges : [Paths -> PendingUpload \cup {None}]]

Ingest == [pc : {"none", "check", "insert", "attach", "done"},
           slot : Slots \cup {None}, sum : File, parent : Recordings \cup {None}]

ASSUME InboxAssumption ==
    /\ Audio \cap Sidecars = {} /\ Paths \cap Names = {} /\ IsFiniteSet(Slots)
    /\ Matches \in [Sidecars -> SUBSET Audio]
    /\ Recordings \cap Companions = {}
    /\ Sent \in [Slots -> SUBSET Contents]
    /\ \A s \in Slots : Sent[s] \subseteq IF s \in Sidecars THEN Companions ELSE Recordings
    /\ Corrupt \subseteq Recordings
    /\ Size \in [Contents -> Nat]
    /\ Rank \in [Paths -> Nat] /\ \A p, q \in Paths : Rank[p] = Rank[q] => p = q
    /\ {Budget, Disk, MaxDrops, MaxFaults} \subseteq Nat
    /\ PerRun \in Nat \ {0}
    /\ Reuse \in BOOLEAN
    /\ None \notin Slots \cup Contents \cup Resource

TypeOK ==
    /\ inbox \in [Paths -> File] /\ processed \in [Paths -> File]
    /\ pending \in [Paths -> PendingUpload \cup {None}]
    /\ stage \in [Slots -> File]
    /\ quarantine \subseteq Contents \X Slots
    /\ resource \in [Contents -> Resource \cup {None}]
    /\ unresolved \subseteq Slots
    /\ pull \in Pull
    /\ ingest \in [Threads -> Ingest]
    /\ sent \in 0 .. MaxDrops /\ faults \in 0 .. MaxFaults
    /\ came \in [Slots -> 0 .. 2]

Empty == [p \in Paths |-> None]

Rows == {c \in Contents : resource[c] # None}

(* Bytes in a staging place, of a file in quarantine, under STAGING_DIR as *)
(* a whole, and of the files there that came through the Inbox.            *)
Load == [s \in Slots |-> IF stage[s] = None THEN 0 ELSE Size[stage[s]]]

Weight == [d \in Contents \X Slots |-> Size[d[1]]]

StagedBytes == SumFunctionOnSet(Load, Slots) + SumFunctionOnSet(Weight, quarantine)

InboxBytes ==
    SumFunctionOnSet(Load, Paths)
    + SumFunctionOnSet(Weight, quarantine \cap (Contents \X Paths))

Fault == faults < MaxFaults /\ faults' = faults + 1

Listed == {p \in Paths : pull.list[p] # None}

FirstSeen(p) == IF pending[p] = None THEN pull.now ELSE pending[p].seen

(* The sort of the work list: audio first, then oldest seen, then by name. *)
Before(p, q) ==
    \/ p \in Audio /\ q \in Sidecars
    \/ /\ p \in Audio <=> q \in Audio
       /\ \/ FirstSeen(p) < FirstSeen(q)
          \/ FirstSeen(p) = FirstSeen(q) /\ Rank[p] < Rank[q]

Foremost(p) == \A q \in Listed \ {p} : Before(p, q)

Unchanged(p) == pending[p] # None /\ pending[p].content = pull.list[p]

Eligible(p) == Unchanged(p) /\ pending[p].old

(* Mutant: the sidecar's name is not looked at.                          *)
FindParentAnywhere(p) == {c \in Rows \cap Recordings : resource[c].inboxPath # None}

(* Recordings that came from the Inbox and that the sidecar's name fits.   *)
FindParent(p) ==
    {c \in Rows \cap Recordings : resource[c].inboxPath \in Matches[p]}

(* Mutant: a file that can never fit is waited for.                      *)
VerdictWaiting(size) ==
    IF Disk - StagedBytes < size \/ pull.staged + size > Budget THEN "wait" ELSE "ok"

Verdict(size) ==
    CASE size > Budget -> "never"
      [] Disk - StagedBytes < size \/ pull.staged + size > Budget -> "wait"
      [] OTHER -> "ok"

Committed == [p \in Paths |-> IF pull.merges[p] = None THEN pending[p] ELSE pull.merges[p]]

NoIngest == [pc |-> "none", slot |-> None, sum |-> None, parent |-> None]

NoPull == [pc |-> "idle", list |-> Empty, cur |-> None, parent |-> None, now |-> 0,
           n |-> 0, staged |-> 0, held |-> FALSE, merges |-> Empty]

(* The pull is done with p for this run.                                   *)
Pass(p, held) == pull' = [pull EXCEPT !.list[p] = None, !.held = held]

-----------------------------------------------------------------------------
(* Senders, and the clock.                                                 *)

Used == {p \in Paths : inbox[p] # None \/ processed[p] # None \/ pull.cur = p}

Drop(p, c) ==
    /\ sent < MaxDrops /\ sent' = sent + 1
    /\ Reuse \/ p \notin Used
    /\ inbox' = [inbox EXCEPT ![p] = c]
    /\ UNCHANGED <<processed, pending, disk, table, pull, ingest, faults, history>>

(* MIN_AGE_MINUTES pass; a pull in progress has read the clock already.    *)
Age(p) ==
    /\ pull.pc = "idle" /\ pending[p] # None /\ ~pending[p].old
    /\ pending' = [pending EXCEPT ![p].old = TRUE]
    /\ UNCHANGED <<drive, disk, table, pull, ingest, bounds, history>>

-----------------------------------------------------------------------------
(* drive_inbox_pull                                                        *)

PollBegin ==
    /\ pull.pc = "idle"
    /\ LET ranks == {pending[p].seen : p \in {x \in Paths : pending[x] # None}}
       IN  pull' = [NoPull EXCEPT !.pc = "scan", !.list = inbox, !.staged = StagedBytes,
                                  !.now = 1 + Max(ranks \cup {0})]
    /\ UNCHANGED <<drive, pending, disk, table, ingest, bounds, history>>

(* New, changed or too young: the row is added or refreshed.               *)
Notice(p) ==
    /\ ~Eligible(p)
    /\ pull' = [pull EXCEPT
          !.list[p] = None,
          !.merges[p] = [content |-> pull.list[p],
                         seen |-> IF Unchanged(p) THEN pending[p].seen ELSE pull.now,
                         old |-> Unchanged(p) /\ pending[p].old]]

(* A sidecar without its audio, a file too big for the budget, and with    *)
(* the first file that has to wait everything behind it: left in the Inbox.*)
Defer(p, parents) ==
    LET held == pull.held \/ pull.n = PerRun
        orphan == p \in Sidecars /\ parents = {}
        verdict == Verdict(Size[pull.list[p]])
    IN  /\ Eligible(p)
        /\ \/ orphan /\ Pass(p, pull.held)
           \/ ~orphan /\ held /\ Pass(p, TRUE)
           \/ ~orphan /\ ~held /\ verdict = "wait" /\ Pass(p, TRUE)
           \/ ~orphan /\ ~held /\ verdict = "never" /\ Pass(p, FALSE)

(* Mutant: one file more than the cap.                                   *)
AdmitOneMore(p, parents) ==
    /\ Eligible(p)
    /\ ~pull.held /\ pull.n <= PerRun /\ Verdict(Size[pull.list[p]]) = "ok"
    /\ \E c \in IF p \in Sidecars THEN parents ELSE {None} :
          pull' = [pull EXCEPT !.pc = "copy", !.cur = p, !.parent = c]

Admit(p, parents) ==
    /\ Eligible(p)
    /\ ~pull.held /\ pull.n < PerRun /\ Verdict(Size[pull.list[p]]) = "ok"
    /\ \E c \in IF p \in Sidecars THEN parents ELSE {None} :
          pull' = [pull EXCEPT !.pc = "copy", !.cur = p, !.parent = c]

Look ==
    /\ pull.pc = "scan"
    /\ \E p \in Listed :
          LET parents == IF p \in Sidecars THEN FindParent(p) ELSE {}
          IN  Foremost(p) /\ (Notice(p) \/ Defer(p, parents) \/ Admit(p, parents))
    /\ UNCHANGED <<drive, pending, disk, table, ingest, bounds, history>>

(* A commit by the pull writes its pending merges too.                     *)
Resume(p) == [pull EXCEPT !.pc = "scan", !.list[p] = None, !.cur = None,
                          !.parent = None, !.merges = Empty]

Comes(s) == came' = [came EXCEPT ![s] = IF @ = 2 THEN 2 ELSE @ + 1]

(* Mutant: one staging directory for all files.                          *)
StageDirFlat(p) == CHOOSE s \in IF p \in Audio THEN Audio ELSE Sidecars : TRUE

StageDir(p) == p

(* rclone copies what is at the path now, over what the directory holds.   *)
Copy ==
    /\ pull.pc = "copy" /\ inbox[pull.cur] # None
    /\ stage' = [stage EXCEPT ![StageDir(pull.cur)] = inbox[pull.cur]]
    /\ pull' = [pull EXCEPT !.pc = "copied"]
    /\ came' = IF came[pull.cur] = 0 THEN came ELSE [came EXCEPT ![pull.cur] = 2]
    /\ UNCHANGED <<drive, pending, quarantine, table, ingest, bounds>>

CopyFails ==
    /\ pull.pc = "copy" /\ Fault
    /\ pending' = Committed /\ pull' = Resume(pull.cur)
    /\ UNCHANGED <<drive, disk, table, ingest, sent, history>>

(* Mutant: what this run stages is not counted.                          *)
TakeUncounted ==
    LET p == pull.cur
    IN  /\ pull.pc = "copied"
        /\ pending' = [Committed EXCEPT ![p] = None]
        /\ pull' = [pull EXCEPT !.pc = "ingest", !.merges = Empty, !.n = @ + 1]
        /\ ingest' = [ingest EXCEPT !["pull"] = [pc |-> "check", slot |-> StageDir(p),
                                                 sum |-> None, parent |-> pull.parent]]
        /\ came' = [came EXCEPT ![p] = IF @ = 0 THEN 1 ELSE @]
        /\ UNCHANGED <<drive, disk, table, bounds>>

(* The pending row is deleted, and the ingest called.                      *)
Take ==
    LET p == pull.cur
    IN  /\ pull.pc = "copied"
        /\ pending' = [Committed EXCEPT ![p] = None]
        /\ pull' = [pull EXCEPT !.pc = "ingest", !.merges = Empty, !.n = @ + 1,
                                !.staged = @ + Size[pull.list[p]]]
        /\ ingest' = [ingest EXCEPT !["pull"] = [pc |-> "check", slot |-> StageDir(p), sum |-> None,
                                                 parent |-> pull.parent]]
        /\ came' = [came EXCEPT ![p] = IF @ = 0 THEN 1 ELSE @]
        /\ UNCHANGED <<drive, disk, table, bounds>>

(* Into _processed, over what may be there.                                *)
MoveTo ==
    LET p == pull.cur
    IN  /\ pull.pc = "ingest" /\ ingest["pull"].pc = "done" /\ inbox[p] # None
        /\ processed' = [processed EXCEPT ![p] = inbox[p]]
        /\ inbox' = [inbox EXCEPT ![p] = None]
        /\ pull' = Resume(p) /\ ingest' = [ingest EXCEPT !["pull"] = NoIngest]
        /\ UNCHANGED <<pending, disk, table, bounds, history>>

MoveToFails ==
    /\ pull.pc = "ingest" /\ ingest["pull"].pc = "done" /\ Fault
    /\ pull' = Resume(pull.cur) /\ ingest' = [ingest EXCEPT !["pull"] = NoIngest]
    /\ UNCHANGED <<drive, pending, disk, table, sent, history>>

PollEnd ==
    /\ pull.pc = "scan" /\ Listed = {}
    /\ pending' = Committed /\ pull' = NoPull
    /\ UNCHANGED <<drive, disk, table, ingest, bounds, history>>

-----------------------------------------------------------------------------
(* POST /ingest/upload: the file is saved under its own name.              *)
UploadSave(n, c) ==
    /\ ingest["upload"].pc = "none"
    /\ sent < MaxDrops /\ sent' = sent + 1
    /\ Reuse \/ stage[n] = None
    /\ stage' = [stage EXCEPT ![n] = c] /\ Comes(n)
    /\ ingest' = [ingest EXCEPT !["upload"] = [NoIngest EXCEPT !.pc = "check", !.slot = n]]
    /\ UNCHANGED <<drive, pending, quarantine, table, pull, faults>>

(* ingest_staged_file, ingest_sidecar                                      *)

Goes(t, pc) == ingest' = [ingest EXCEPT ![t].pc = pc]

(* The end of an ingest: the pull goes on, a request is answered.          *)
Ends(t) == IF t = "pull" THEN Goes(t, "done") ELSE ingest' = [ingest EXCEPT ![t] = NoIngest]

(* An exception: the pull's catch-all records a failed row without a       *)
(* checksum; the web form answers 500.                                     *)
Unexpected(t) ==
    /\ unresolved' = IF t = "pull" THEN unresolved \cup {ingest[t].slot} ELSE unresolved
    /\ Ends(t)

(* The file is gone: no checksum.  _fail for a recording, an exception for *)
(* a sidecar; the same row comes of it.                                    *)
ChecksumFails(t) ==
    /\ ingest[t].pc = "check" /\ stage[ingest[t].slot] = None
    /\ unresolved' = unresolved \cup {ingest[t].slot} /\ Ends(t)
    /\ UNCHANGED <<drive, pending, disk, resource, pull, bounds, history>>

Duplicate(t) ==
    LET s == ingest[t].slot
    IN  /\ ingest[t].pc = "check" /\ stage[s] \in Rows
        /\ quarantine' = quarantine \cup {<<stage[s], s>>}
        /\ stage' = [stage EXCEPT ![s] = None]
        /\ Ends(t)
        /\ UNCHANGED <<drive, pending, table, pull, bounds, history>>

Checksum(t) ==
    LET c == stage[ingest[t].slot]
    IN  /\ ingest[t].pc = "check" /\ c \in Contents \ Rows
        /\ ingest' = [ingest EXCEPT ![t].pc = "insert", ![t].sum = c]
        /\ UNCHANGED <<drive, pending, disk, table, pull, bounds, history>>

Made(t) ==
    LET s == ingest[t].slot
    IN  [at |-> s, parent |-> ingest[t].parent,
         status |-> IF ingest[t].sum \in Corrupt THEN "failed"
                    ELSE IF s \in Sidecars THEN "attached" ELSE "pending-review",
         inboxPath |-> IF s \in Paths /\ ingest[t].sum \notin Corrupt THEN s ELSE None]

(* Mutant: a file that cannot be read leaves no row.                     *)
InsertIfReadable(t) ==
    LET c == ingest[t].sum
        parent == ingest[t].parent
        beside == parent # None /\ resource[parent].status = "filed"
    IN  /\ ingest[t].pc = "insert" /\ c \notin Rows
        /\ resource' = IF c \in Corrupt THEN resource ELSE [resource EXCEPT ![c] = Made(t)]
        /\ IF beside THEN Goes(t, "attach") ELSE Ends(t)
        /\ UNCHANGED <<drive, pending, disk, unresolved, pull, bounds, history>>

Insert(t) ==
    LET c == ingest[t].sum
        parent == ingest[t].parent
        beside == parent # None /\ resource[parent].status = "filed"
    IN  /\ ingest[t].pc = "insert" /\ c \notin Rows
        /\ resource' = [resource EXCEPT ![c] = Made(t)]
        /\ IF beside THEN Goes(t, "attach") ELSE Ends(t)
        /\ UNCHANGED <<drive, pending, disk, unresolved, pull, bounds, history>>

(* Another channel has inserted the checksum since.                        *)
InsertRefused(t) ==
    /\ ingest[t].pc = "insert" /\ ingest[t].sum \in Rows
    /\ Unexpected(t)
    /\ UNCHANGED <<drive, pending, disk, resource, pull, bounds, history>>

(* file_attached of a recording that is filed already: each sidecar is     *)
(* copied beside it or noted as refused; without the NAS the exception     *)
(* ends up with the pull.                                                  *)
Beside(parent) == {c \in Rows : resource[c].status = "attached" /\ resource[c].parent = parent}

FiledAt(S, c) == IF c \in S THEN [resource[c] EXCEPT !.status = "filed", !.at = None]
                 ELSE resource[c]

Emptied(S) == [s \in Slots |-> IF \E c \in S : resource[c].at = s THEN None ELSE stage[s]]

Attach(t) ==
    /\ ingest[t].pc = "attach"
    /\ LET kids == {c \in Beside(ingest[t].parent) : stage[resource[c].at] = c}
       IN  /\ resource' = [c \in Contents |-> FiledAt(kids, c)]
           /\ stage' = Emptied(kids)
    /\ Ends(t)
    /\ UNCHANGED <<drive, pending, quarantine, unresolved, pull, bounds, history>>

AttachFails(t) ==
    /\ ingest[t].pc = "attach" /\ Fault
    /\ Unexpected(t)
    /\ UNCHANGED <<drive, pending, disk, resource, pull, sent, history>>

-----------------------------------------------------------------------------
(* Review and filing of a recording with its sidecars.  The copy is        *)
(* checked against the checksum of the row.                                *)
FileAway(c) ==
    LET kids == {k \in Beside(c) : stage[resource[k].at] = k}
        gone == {c} \cup kids
    IN  /\ c \in Rows /\ resource[c].status = "pending-review"
        /\ IF stage[resource[c].at] = c
           THEN /\ resource' = [d \in Contents |-> FiledAt(gone, d)]
                /\ stage' = Emptied(gone)
           ELSE /\ resource' = [resource EXCEPT ![c].status = "failed"]
                /\ UNCHANGED stage
        /\ UNCHANGED <<drive, pending, quarantine, unresolved, pull, ingest, bounds, history>>

(* The worker process, or the thread of a request, is killed.              *)
KillPull ==
    /\ pull.pc # "idle" /\ Fault
    /\ pull' = NoPull /\ ingest' = [ingest EXCEPT !["pull"] = NoIngest]
    /\ UNCHANGED <<drive, pending, disk, table, sent, history>>

KillUpload ==
    /\ ingest["upload"].pc # "none" /\ Fault
    /\ ingest' = [ingest EXCEPT !["upload"] = NoIngest]
    /\ UNCHANGED <<drive, pending, disk, table, pull, sent, history>>

-----------------------------------------------------------------------------
Init ==
    /\ inbox = Empty /\ processed = Empty
    /\ pending = [p \in Paths |-> None]
    /\ stage = [s \in Slots |-> None]
    /\ quarantine = {}
    /\ resource = [c \in Contents |-> None]
    /\ unresolved = {}
    /\ pull = NoPull
    /\ ingest = [t \in Threads |-> NoIngest]
    /\ sent = 0 /\ faults = 0
    /\ came = [s \in Slots |-> 0]

IngestStep(t) ==
    \/ ChecksumFails(t) \/ Duplicate(t) \/ Checksum(t) \/ Insert(t) \/ InsertRefused(t)
    \/ Attach(t) \/ AttachFails(t)

PullStep ==
    \/ PollBegin \/ Look \/ Copy \/ CopyFails \/ Take \/ IngestStep("pull")
    \/ MoveTo \/ MoveToFails \/ PollEnd

UploadStep == IngestStep("upload") \/ \E n \in Names : \E c \in Sent[n] : UploadSave(n, c)

Next ==
    \/ \E p \in Paths : \E c \in Sent[p] : Drop(p, c)
    \/ \E p \in Paths : Age(p)
    \/ PullStep \/ UploadStep
    \/ \E c \in Recordings : FileAway(c)
    \/ KillPull \/ KillUpload

Spec == Init /\ [][Next]_vars

(* The pull is on a timer and every rclone call has a timeout; people      *)
(* review what is staged.                                                  *)
FairSpec ==
    /\ Spec
    /\ WF_vars(PullStep) /\ WF_vars(IngestStep("upload"))
    /\ \A p \in Paths : SF_vars(Age(p))      \* time passes during a pull too
    /\ \A c \in Recordings : WF_vars(FileAway(c))

-----------------------------------------------------------------------------
(* A file that a row still names in staging is there, byte for byte,       *)
(* unless the same Inbox file was pulled twice (after a failed move or a   *)
(* kill) or its name was used again.                                       *)
Kept ==
    \A c \in Rows :
        resource[c].status # "filed" /\ came[resource[c].at] < 2
            => stage[resource[c].at] = c

(* Whatever was moved to _processed is known: its content has a row, or    *)
(* its place is named by a failed one.  No kill, no refused insert and no  *)
(* failed probe loses track of a file.                                     *)
Accounted ==
    ~Reuse => \A p \in Paths :
        processed[p] # None => processed[p] \in Rows \/ p \in unresolved

(* The files of the Inbox never take more of the disk than the budget, not *)
(* by several runs, nor with what kills and failed moves leave behind.     *)
WithinBudget == ~Reuse => InboxBytes <= Budget

(* A sidecar's row hangs on a recording that came from a path it matches,  *)
(* and is not filed before it.                                             *)
SidecarFollows ==
    \A c \in Rows \cap Companions :
        LET parent == resource[c].parent
        IN  /\ resource[parent].inboxPath \in Matches[resource[c].inboxPath]
            /\ resource[c].status = "filed" => resource[parent].status = "filed"

(* Every recording in the Inbox is pulled in the end, unless one waits     *)
(* there that fits the budget but not beside what will never leave staging *)
(* (duplicates, failed rows, files without a row): that one waits for ever *)
(* and holds the rest.  Nothing else starves a file: not a bigger one that *)
(* never fits, not the cap, no lost merge, failed copy or kill.            *)
ToReview == {c \in Rows : resource[c].status = "pending-review" /\ stage[resource[c].at] = c}

Lasting == StagedBytes - SumFunctionOnSet(Size, ToReview)

Blocked ==
    \E p \in Paths : /\ inbox[p] # None /\ Size[inbox[p]] <= Budget
                     /\ Size[inbox[p]] + Lasting > Budget

InboxDrains ==
    <>[]Blocked \/ \A p \in Audio : []<>(inbox[p] = None \/ Size[inbox[p]] > Budget)

=============================================================================

------------------------------ MODULE Previews ------------------------------
(***************************************************************************)
(* Waveforms and listening copies: made in the background, kept on local   *)
(* disk under the checksum of their recording.                             *)
(*                                                                         *)
(*   generate-previews                                  jobs/previews.py   *)
(*   GET .../waveform, .../preview, POST .../regenerate       app/api.py   *)
(*                                                                         *)
(* A step is a commit, a file operation or one generation, which takes     *)
(* minutes.  A run reads a row again after each of its own commits, and    *)
(* only then.  No code deletes a resource, so the branches for one that    *)
(* has vanished are never taken.                                           *)
(***************************************************************************)
EXTENDS Integers

CONSTANTS
    Resources,
    Age,            \* the order they were created in
    Filed,          \* those on the NAS at the start
    MaxRequests,    \* bound: regenerate requests, and files opened
    MaxFaults,      \* bound: kills, failed generations, losses of the mount
    None

Kinds == {"waveform", "preview"}

PreviewsAssumption ==
    /\ Age \in [Resources -> Nat] /\ \A r, s \in Resources : Age[r] = Age[s] => r = s
    /\ Filed \subseteq Resources
    /\ {MaxRequests, MaxFaults} \subseteq Nat
    /\ None \notin Resources /\ None \notin Kinds
    /\ None \notin [of : Resources, marked : SUBSET Kinds, error : SUBSET Kinds]
    /\ None \notin Resources \X Kinds

VARIABLES
    marked,         \* waveform_at, preview_at: the kinds that are set
    error,          \* waveform_error, preview_error: the same
    cache,          \* the files there are, by checksum and kind
    row,            \* does the row say staging or nas
    disk,           \* where the audio file is
    mounted,        \* is the NAS there
    job,            \* the run in progress
    regen,          \* a regenerate request between its deletes and its commit
    heal,           \* a GET that found a marked file missing, before its commit
    requests, faults,   \* so far
    crossed         \* history: regenerated while a run was making them

vars == <<marked, error, cache, row, disk, mounted, job, regen, heal, requests, faults, crossed>>
audio == <<row, disk, mounted>>
table == <<marked, error>>
bounds == <<requests, faults>>

-----------------------------------------------------------------------------
(* needs: the kinds of cur still to make; kind: one made and not committed *)
(* yet; late: may this run have spent its time.                            *)
Job == [pc : {"idle", "pick", "make", "made"}, todo : SUBSET Resources,
        cur : Resources \cup {None}, needs : SUBSET Kinds, kind : Kinds \cup {None},
        src : {"staging", "nas"}, nasOk : BOOLEAN, late : BOOLEAN]

TypeOK ==
    /\ marked \in [Resources -> SUBSET Kinds] /\ error \in [Resources -> SUBSET Kinds]
    /\ cache \in [Resources -> SUBSET Kinds]
    /\ row \in [Resources -> {"staging", "nas"}] /\ disk \in [Resources -> {"staging", "nas"}]
    /\ mounted \in BOOLEAN
    /\ job \in Job
    /\ regen \in [of : Resources, marked : SUBSET Kinds, error : SUBSET Kinds] \cup {None}
    /\ heal \in (Resources \X Kinds) \cup {None}
    /\ requests \in 0 .. MaxRequests /\ faults \in 0 .. MaxFaults
    /\ crossed \subseteq Resources

Idle == [pc |-> "idle", todo |-> {}, cur |-> None, needs |-> {}, kind |-> None,
         src |-> "staging", nasOk |-> TRUE, late |-> FALSE]

Fault == faults < MaxFaults /\ faults' = faults + 1

Request == requests < MaxRequests /\ requests' = requests + 1

-----------------------------------------------------------------------------
(* generate-previews                                                       *)

(* Mutant: what failed is tried again by the next run.                     *)
NeedsFailed(r) == Kinds \ marked[r]

Needs(r) == Kinds \ (marked[r] \cup error[r])

(* os.path.exists of the place the row, or the run, knows.                 *)
ThereAt(r, place) == disk[r] = place /\ (place = "nas" => mounted)

(* Mutant: only recordings that have nothing yet are looked for.           *)
BeginWhole ==
    /\ job.pc = "idle"
    /\ job' = [Idle EXCEPT !.pc = "pick", !.nasOk = mounted,
                           !.todo = {r \in Resources : Needs(r) = Kinds}]
    /\ UNCHANGED <<table, cache, audio, regen, heal, bounds, crossed>>

Begin ==
    /\ job.pc = "idle"
    /\ job' = [Idle EXCEPT !.pc = "pick", !.nasOk = mounted,
                           !.todo = {r \in Resources : Needs(r) # {}}]
    /\ UNCHANGED <<table, cache, audio, regen, heal, bounds, crossed>>

Newest(r) == r \in job.todo /\ \A s \in job.todo : Age[s] <= Age[r]

(* The time budget is looked at between recordings.                        *)
Stop ==
    /\ job.pc = "pick" /\ (job.todo = {} \/ job.late)
    /\ job' = Idle
    /\ UNCHANGED <<table, cache, audio, regen, heal, bounds, crossed>>

(* On a NAS that was not there when the run began.                         *)
Skip(r) ==
    /\ job.pc = "pick" /\ Newest(r) /\ row[r] = "nas" /\ ~job.nasOk
    /\ job' = [job EXCEPT !.todo = @ \ {r}]
    /\ UNCHANGED <<table, cache, audio, regen, heal, bounds, crossed>>

Missing(r) ==
    /\ job.pc = "pick" /\ Newest(r) /\ (row[r] = "nas" => job.nasOk) /\ ~ThereAt(r, row[r])
    /\ error' = [error EXCEPT ![r] = Kinds]
    /\ job' = [job EXCEPT !.todo = @ \ {r}]
    /\ UNCHANGED <<marked, cache, audio, regen, heal, bounds, crossed>>

Pick(r) ==
    /\ job.pc = "pick" /\ Newest(r) /\ (row[r] = "nas" => job.nasOk) /\ ThereAt(r, row[r])
    /\ job' = [job EXCEPT !.todo = @ \ {r}, !.pc = "make", !.cur = r,
                          !.needs = Needs(r), !.src = row[r]]
    /\ UNCHANGED <<table, cache, audio, regen, heal, bounds, crossed>>

(* The waveform comes first.                                               *)
Turn(k) ==
    /\ job.pc = "make" /\ k \in job.needs
    /\ k = "preview" => "waveform" \notin job.needs

(* Written beside its place and moved there when it is complete.           *)
Make(k) ==
    /\ Turn(k) /\ ThereAt(job.cur, job.src)
    /\ cache' = [cache EXCEPT ![job.cur] = @ \cup {k}]
    /\ job' = [job EXCEPT !.pc = "made", !.kind = k, !.late = TRUE]
    /\ UNCHANGED <<table, audio, regen, heal, bounds, crossed>>

(* Mutant: a failure clears the whole cache of the recording.              *)
MakeFailsClean(k) ==
    /\ Turn(k) /\ IF ThereAt(job.cur, job.src) THEN Fault ELSE UNCHANGED faults
    /\ error' = [error EXCEPT ![job.cur] = @ \cup {k}]
    /\ cache' = [cache EXCEPT ![job.cur] = {}]
    /\ job' = [job EXCEPT !.needs = @ \ {k}, !.late = TRUE]
    /\ UNCHANGED <<marked, audio, regen, heal, requests, crossed>>

(* ffmpeg or audiowaveform failed, or the audio moved away under them.     *)
MakeFails(k) ==
    /\ Turn(k) /\ IF ThereAt(job.cur, job.src) THEN Fault ELSE UNCHANGED faults
    /\ error' = [error EXCEPT ![job.cur] = @ \cup {k}]
    /\ job' = [job EXCEPT !.needs = @ \ {k}, !.late = TRUE]
    /\ UNCHANGED <<marked, cache, audio, regen, heal, requests, crossed>>

Mark ==
    /\ job.pc = "made"
    /\ marked' = [marked EXCEPT ![job.cur] = @ \cup {job.kind}]
    /\ job' = [job EXCEPT !.pc = "make", !.needs = @ \ {job.kind}, !.kind = None]
    /\ UNCHANGED <<error, cache, audio, regen, heal, bounds, crossed>>

Done ==
    /\ job.pc = "make" /\ job.needs = {}
    /\ job' = [job EXCEPT !.pc = "pick", !.cur = None]
    /\ UNCHANGED <<table, cache, audio, regen, heal, bounds, crossed>>

Kill ==
    /\ job.pc # "idle" /\ Fault /\ job' = Idle
    /\ UNCHANGED <<table, cache, audio, regen, heal, requests, crossed>>

-----------------------------------------------------------------------------
(* Requests                                                                *)

Crossed(r) == IF job.cur = r THEN crossed \cup {r} ELSE crossed

RegenDelete(r) ==
    /\ regen = None /\ Request
    /\ cache' = [cache EXCEPT ![r] = {}]
    /\ regen' = [of |-> r, marked |-> marked[r], error |-> error[r]]
    /\ crossed' = Crossed(r)
    /\ UNCHANGED <<table, audio, job, heal, faults>>

(* Only what was set when the row was read is written.                     *)
RegenCommit ==
    /\ regen # None /\ regen' = None
    /\ marked' = [marked EXCEPT ![regen.of] = @ \ regen.marked]
    /\ error' = [error EXCEPT ![regen.of] = @ \ regen.error]
    /\ crossed' = Crossed(regen.of)
    /\ UNCHANGED <<cache, audio, job, heal, bounds>>

(* _derived_response: a file that is marked and gone is made again.        *)
Get(r, k) ==
    /\ heal = None /\ Request
    /\ k \in marked[r] /\ k \notin cache[r]
    /\ heal' = <<r, k>>
    /\ UNCHANGED <<table, cache, audio, job, regen, faults, crossed>>

GetCommit ==
    /\ heal # None /\ heal' = None
    /\ marked' = [marked EXCEPT ![heal[1]] = @ \ {heal[2]}]
    /\ UNCHANGED <<error, cache, audio, job, regen, bounds, crossed>>

-----------------------------------------------------------------------------
(* Filing moves the audio, and says so when it is done.                    *)

FileMoves(r) ==
    /\ disk[r] = "staging" /\ mounted /\ disk' = [disk EXCEPT ![r] = "nas"]
    /\ UNCHANGED <<table, cache, row, mounted, job, regen, heal, bounds, crossed>>

FileCommits(r) ==
    /\ disk[r] = "nas" /\ row[r] = "staging" /\ row' = [row EXCEPT ![r] = "nas"]
    /\ UNCHANGED <<table, cache, disk, mounted, job, regen, heal, bounds, crossed>>

Unmount ==
    /\ mounted /\ Fault /\ mounted' = FALSE
    /\ UNCHANGED <<table, cache, row, disk, job, regen, heal, requests, crossed>>

Mount ==
    /\ ~mounted /\ mounted' = TRUE
    /\ UNCHANGED <<table, cache, row, disk, job, regen, heal, bounds, crossed>>

-----------------------------------------------------------------------------
Init ==
    /\ marked = [r \in Resources |-> {}] /\ error = [r \in Resources |-> {}]
    /\ cache = [r \in Resources |-> {}]
    /\ row = [r \in Resources |-> IF r \in Filed THEN "nas" ELSE "staging"] /\ disk = row
    /\ mounted = TRUE /\ job = Idle /\ regen = None /\ heal = None
    /\ requests = 0 /\ faults = 0 /\ crossed = {}

JobStep ==
    \/ Begin \/ Stop \/ Mark \/ Done
    \/ \E r \in job.todo : Skip(r) \/ Missing(r) \/ Pick(r)
    \/ \E k \in Kinds : Make(k) \/ MakeFails(k)

Next ==
    \/ JobStep \/ Kill
    \/ \E r \in Resources : \/ RegenDelete(r) \/ FileMoves(r) \/ FileCommits(r)
                            \/ \E k \in Kinds : Get(r, k)
    \/ RegenCommit \/ GetCommit
    \/ Unmount \/ Mount

Spec == Init /\ [][Next]_vars

(* The job is on a timer and each generation has a timeout; a request is   *)
(* not left half done; the NAS comes back.                                 *)
FairSpec ==
    /\ Spec /\ WF_vars(JobStep) /\ WF_vars(Mount)
    /\ WF_vars(RegenCommit) /\ WF_vars(GetCommit)

-----------------------------------------------------------------------------
(* What is marked as made is there, unless it was thrown away while a run  *)
(* was making it, or is just being thrown away.                            *)
MarkedHasFile ==
    \A r \in Resources \ crossed :
        marked[r] \subseteq cache[r] \/ (regen # None /\ regen.of = r)

(* A failure is not tried again until someone asks, and asking throws away *)
(* what there was: a run never touches a kind with an error.               *)
LeavesErrors ==
    \A r \in Resources : regen = regen' =>
        error[r] \subseteq error'[r] /\ error[r] \cap cache'[r] \subseteq cache[r]

NotRetried == [][LeavesErrors]_vars

(* Every recording gets both files, or an error that says why, though the  *)
(* runs are cut short and the newest always come first.                    *)
Complete == \A r \in Resources \ crossed : cache[r] \cup error[r] = Kinds

AllMade == []<>Complete

=============================================================================

------------------------------- MODULE Exports ------------------------------
(***************************************************************************)
(* Exports: clips and format conversions, queued by a request and rendered *)
(* by the worker.                                                          *)
(*                                                                         *)
(*   process-exports                                      jobs/export.py   *)
(*   POST .../export, /clips/<id>/export, the clip requests   app/api.py   *)
(*                                                                         *)
(* A step is a commit or an ffmpeg call; ffmpeg writes the output where it *)
(* is to stay.  The job reads clip and recording once its export is        *)
(* `running`.  One process-exports runs at a time (JobQueue).              *)
(***************************************************************************)
EXTENDS Integers, FiniteSets

CONSTANTS
    Resources,
    Base, Ext,      \* of each resource: its filename, and the extension
    Clips,
    ClipOf,         \* the resource of each clip
    Windows,        \* start and end of a clip, as they are in a filename
    Jobs,           \* exports, by the order in which they are asked for
    Asked,          \* of each export: resource, clip or None, format
    MaxEdits,       \* bound: changes of clips
    MaxFaults,      \* bound: kills, failed ffmpeg calls, losses of the mount
    None, Whole, Partial

Formats == {"original", "wav", "flac", "mp3"}

Requests == [of : Resources, clip : Clips \cup {None}, format : Formats]

(* create_export: a clip is of its resource; `original` requires a clip.   *)
Acceptable(q) ==
    /\ q.clip # None => ClipOf[q.clip] = q.of
    /\ q.format = "original" => q.clip # None

VARIABLES
    window,         \* of each clip; None once it is deleted
    clip,           \* clip_id of each export
    status,         \* of each export; "none" before it is asked for
    path,           \* output_path
    files,          \* the exports directory: what is at each path
    nas,            \* resources whose audio is on the NAS
    mounted,
    job,            \* process_exports
    edits, faults,  \* so far
    cut,            \* history: exports left `running`
    orphaned,       \* history: exports whose clip was deleted before they ran
    had,            \* history: the windows its clip had from then until it ran
    spoilt          \* history: exports whose output a later one began to overwrite

vars == <<window, clip, status, path, files, nas, mounted, job, edits, faults,
          cut, orphaned, had, spoilt>>
marker == <<window, clip, orphaned, had>>
output == <<path, files, spoilt>>

-----------------------------------------------------------------------------
Content == [of : Resources, window : Windows \cup {Whole}, format : Formats]

ExportsAssumption ==
    /\ ClipOf \in [Clips -> Resources]
    /\ Asked \in [Jobs -> Requests] /\ \A e \in Jobs : Acceptable(Asked[e])
    /\ {MaxEdits, MaxFaults} \subseteq Nat
    /\ Whole \notin Windows /\ None \notin Windows
    /\ None \notin Clips /\ None \notin Jobs /\ None \notin Content /\ None # Partial

(* The extension is the format, or that of the source for `original`.      *)
Extension(q) == IF q.format = "original" THEN Ext[q.of] ELSE q.format

PathOf(q, w) == <<Base[q.of], w, Extension(q)>>

Paths == {PathOf(q, w) : q \in Requests, w \in Windows \cup {Whole}}

Job == [pc : {"idle", "next", "open", "encode", "save"}, todo : SUBSET Jobs, cur : Jobs \cup {None},
        what : Content \cup {None}, to : Paths \cup {None}]

TypeOK ==
    /\ window \in [Clips -> Windows \cup {None}]
    /\ clip \in [Jobs -> Clips \cup {None}]
    /\ status \in [Jobs -> {"none", "queued", "running", "success", "error"}]
    /\ path \in [Jobs -> Paths \cup {None}]
    /\ files \in [Paths -> Content \cup {Partial, None}]
    /\ nas \subseteq Resources /\ mounted \in BOOLEAN
    /\ job \in Job
    /\ edits \in 0 .. MaxEdits /\ faults \in 0 .. MaxFaults
    /\ cut \subseteq Jobs /\ orphaned \subseteq Jobs /\ spoilt \subseteq Jobs
    /\ had \in [Jobs -> SUBSET Windows]

Idle == [pc |-> "idle", todo |-> {}, cur |-> None, what |-> None, to |-> None]

Fault == faults < MaxFaults /\ faults' = faults + 1

Edit == edits < MaxEdits /\ edits' = edits + 1

-----------------------------------------------------------------------------
(* Requests                                                                *)

(* create_export, export_clip_route                                        *)
Ask(e) ==
    /\ status[e] = "none"
    /\ \A f \in Jobs : f < e => status[f] # "none"
    /\ Asked[e].clip # None => window[Asked[e].clip] # None
    /\ status' = [status EXCEPT ![e] = "queued"]
    /\ clip' = [clip EXCEPT ![e] = Asked[e].clip]
    /\ had' = IF Asked[e].clip = None THEN had ELSE [had EXCEPT ![e] = {window[Asked[e].clip]}]
    /\ UNCHANGED <<window, output, nas, mounted, job, edits, faults, cut, orphaned>>

(* The exports that will read the clip yet.                                *)
Waiting(c) == {e \in Jobs : clip[e] = c /\ (status[e] = "queued" \/ (job.pc = "open" /\ job.cur = e))}

(* update_clip                                                             *)
MoveClip(c, w) ==
    /\ window[c] \notin {None, w} /\ Edit
    /\ window' = [window EXCEPT ![c] = w]
    /\ had' = [e \in Jobs |-> IF e \in Waiting(c) THEN had[e] \cup {w} ELSE had[e]]
    /\ UNCHANGED <<clip, status, output, nas, mounted, job, faults, cut, orphaned>>

(* The exports of the clip are kept, without it.                           *)
DeleteClip(c) ==
    /\ window[c] # None /\ Edit
    /\ window' = [window EXCEPT ![c] = None]
    /\ clip' = [e \in Jobs |-> IF clip[e] = c THEN None ELSE clip[e]]
    /\ orphaned' = orphaned \cup Waiting(c)
    /\ UNCHANGED <<status, output, nas, mounted, job, faults, cut, had>>

-----------------------------------------------------------------------------
(* process-exports                                                         *)

Begin ==
    /\ job.pc = "idle"
    /\ job' = [Idle EXCEPT !.pc = "next", !.todo = {e \in Jobs : status[e] = "queued"}]
    /\ UNCHANGED <<marker, status, output, nas, mounted, edits, faults, cut>>

Start(e) ==
    /\ job.pc = "next" /\ e \in job.todo
    /\ status' = [status EXCEPT ![e] = "running"]
    /\ job' = [job EXCEPT !.pc = "open", !.todo = @ \ {e}, !.cur = e]
    /\ UNCHANGED <<marker, output, nas, mounted, edits, faults, cut>>

Window(e) == IF clip[e] = None THEN Whole ELSE window[clip[e]]

(* ffmpeg -y begins to write; what was there is gone.                      *)
Open ==
    LET e == job.cur
        q == Asked[e]
        w == [of |-> q.of, window |-> Window(e), format |-> q.format]
        p == PathOf(q, w.window)
    IN  /\ job.pc = "open" /\ (q.of \in nas => mounted)
        /\ job' = [job EXCEPT !.pc = "encode", !.what = w, !.to = p]
        /\ files' = [files EXCEPT ![p] = Partial]
        /\ spoilt' = spoilt \cup {f \in Jobs : status[f] = "success" /\ path[f] = p}
        /\ UNCHANGED <<marker, status, path, nas, mounted, edits, faults, cut>>

(* NasUnavailable is not among the errors that are caught: the job fails.  *)
OpenOffNas ==
    /\ job.pc = "open" /\ Asked[job.cur].of \in nas /\ ~mounted
    /\ job' = Idle /\ cut' = cut \cup {job.cur}
    /\ UNCHANGED <<marker, status, output, nas, mounted, edits, faults>>

Encoded ==
    /\ job.pc = "encode"
    /\ files' = [files EXCEPT ![job.to] = job.what]
    /\ job' = [job EXCEPT !.pc = "save"]
    /\ UNCHANGED <<marker, status, path, spoilt, nas, mounted, edits, faults, cut>>

(* Mutant: a failed call leaves the export as it is.                       *)
RenderFailsQuietly ==
    /\ job.pc \in {"open", "encode"} /\ Fault
    /\ job' = [Idle EXCEPT !.pc = "next", !.todo = job.todo]
    /\ UNCHANGED <<marker, status, output, nas, mounted, edits, cut>>

(* The audio is just being filed, or ffmpeg fails or runs out of time;     *)
(* what it wrote stays.                                                    *)
RenderFails ==
    /\ job.pc \in {"open", "encode"} /\ Fault
    /\ status' = [status EXCEPT ![job.cur] = "error"]
    /\ job' = [Idle EXCEPT !.pc = "next", !.todo = job.todo]
    /\ UNCHANGED <<marker, output, nas, mounted, edits, cut>>

(* Mutant: the export is a success whether ffmpeg has ended well or not.   *)
SaveUnchecked ==
    /\ job.pc \in {"encode", "save"}
    /\ status' = [status EXCEPT ![job.cur] = "success"]
    /\ path' = [path EXCEPT ![job.cur] = job.to]
    /\ job' = [Idle EXCEPT !.pc = "next", !.todo = job.todo]
    /\ UNCHANGED <<marker, files, spoilt, nas, mounted, edits, faults, cut>>

Save ==
    /\ job.pc = "save"
    /\ status' = [status EXCEPT ![job.cur] = "success"]
    /\ path' = [path EXCEPT ![job.cur] = job.to]
    /\ job' = [Idle EXCEPT !.pc = "next", !.todo = job.todo]
    /\ UNCHANGED <<marker, files, spoilt, nas, mounted, edits, faults, cut>>

End ==
    /\ job.pc = "next" /\ job.todo = {} /\ job' = Idle
    /\ UNCHANGED <<marker, status, output, nas, mounted, edits, faults, cut>>

Kill ==
    /\ job.pc # "idle" /\ Fault
    /\ job' = Idle
    /\ cut' = cut \cup ({job.cur} \ {None})
    /\ UNCHANGED <<marker, status, output, nas, mounted, edits>>

-----------------------------------------------------------------------------
FileAudio(r) ==
    /\ r \notin nas /\ mounted /\ nas' = nas \cup {r}
    /\ UNCHANGED <<marker, status, output, mounted, job, edits, faults, cut>>

Unmount ==
    /\ mounted /\ Fault /\ mounted' = FALSE
    /\ UNCHANGED <<marker, status, output, nas, job, edits, cut>>

Mount ==
    /\ ~mounted /\ mounted' = TRUE
    /\ UNCHANGED <<marker, status, output, nas, job, edits, faults, cut>>

-----------------------------------------------------------------------------
Init ==
    /\ window \in [Clips -> Windows]
    /\ clip = [e \in Jobs |-> None] /\ status = [e \in Jobs |-> "none"]
    /\ path = [e \in Jobs |-> None] /\ files = [p \in Paths |-> None]
    /\ nas = {} /\ mounted = TRUE /\ job = Idle
    /\ edits = 0 /\ faults = 0 /\ cut = {} /\ orphaned = {} /\ spoilt = {}
    /\ had = [e \in Jobs |-> {}]

JobStep ==
    \/ Begin \/ End \/ Open \/ OpenOffNas \/ Encoded \/ RenderFails \/ Save
    \/ \E e \in job.todo : Start(e)

Next ==
    \/ \E e \in Jobs : Ask(e)
    \/ \E c \in Clips : DeleteClip(c) \/ \E w \in Windows : MoveClip(c, w)
    \/ JobStep \/ Kill
    \/ \E r \in Resources : FileAudio(r)
    \/ Unmount \/ Mount

Spec == Init /\ [][Next]_vars

(* The job is on a timer, ffmpeg has a timeout.                            *)
FairSpec == Spec /\ WF_vars(JobStep)

-----------------------------------------------------------------------------
(* What can be downloaded is what was asked for: the recording, the format *)
(* and all of it, or for a clip a window the clip had between the request  *)
(* and the rendering, whatever became of it since; unless its clip was     *)
(* deleted before that, or a later export has written over it.             *)
DownloadFits ==
    \A e \in Jobs \ (orphaned \cup spoilt) : status[e] = "success" =>
        /\ files[path[e]] \in Content
        /\ files[path[e]].of = Asked[e].of /\ files[path[e]].format = Asked[e].format
        /\ files[path[e]].window \in (IF Asked[e].clip = None THEN {Whole} ELSE had[e])

(* Every export ends, unless a kill or the NAS cut it off while it ran.    *)
Ended == \A e \in Jobs \ cut : status[e] \notin {"queued", "running"}

ExportsEnd == []<>Ended

=============================================================================

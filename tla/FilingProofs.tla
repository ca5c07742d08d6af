----------------------------- MODULE FilingProofs -----------------------------
(***************************************************************************)
(* Safety of Filing, for any recordings, sidecars, folders, names, jobs,   *)
(* requests, crashes and refused commits.  The types hold of any number of *)
(* workers.  The rest is proved where file-resources and refile-all cannot *)
(* run at the same time (one worker, or any number of which none runs the  *)
(* one or the other) and the NAS mount holds wherever refile-all is run.   *)
(* The queue alone does not see to the former: it admits one run of each   *)
(* job, and two workers may run the two.  TLC shows what happens then, and *)
(* with a mount that goes.                                                 *)
(***************************************************************************)
EXTENDS Filing, FiniteSetTheorems, TLAPS

OneWorker == \A x, y \in Workers : x = y

Apart ==
    OneWorker \/ "refile-all" \notin Scheduled \/ "file-resources" \notin Scheduled

Steady == MaxDrops = 0 \/ "refile-all" \notin Scheduled

(* While a file is on its way to the library.                              *)
Working == {"copy", "verified", "placed", "commit"}

(* What each point of a job knows of its own variables.                    *)
RunShape ==
    \A w \in Workers :
        /\ run[w].pc = "idle" => run[w] = Idle
        /\ run[w].pc \in Working => run[w].cur \in Resources /\ run[w].dest \in Paths
        /\ run[w].pc = "rename" => run[w].cur \in Resources
        /\ run[w].pc \in FileJob => run[w].plan = {} /\ run[w].moved = {}

(* The file on its way is in staging until its copy is in place, and the   *)
(* place stays free until then.                                            *)
Carried ==
    \A w \in Workers :
        /\ run[w].pc \in {"copy", "verified"} =>
               run[w].cur \in staging /\ library[run[w].dest] = NoFile
        /\ run[w].pc \in {"placed", "commit"} =>
               library[run[w].dest] = run[w].cur

(* A job that is under way was scheduled, and refile_all has its mount.    *)
Anchored ==
    /\ \A w \in Workers : run[w].pc \in RefileJob => "refile-all" \in Scheduled
    /\ "refile-all" \in Scheduled => mounted

(* No two jobs that move files are under way.                              *)
Single ==
    /\ \A w \in Workers : run[w].pc \in FileJob => "file-resources" \in Scheduled
    /\ \A x, y \in Workers : run[x].pc # "idle" /\ run[y].pc # "idle" => x = y

(* refile_all moves each file once, to a place it has found free.          *)
Planned ==
    \A w \in Workers :
        /\ \A m \in run[w].plan : m.from # m.to
        /\ \A m, n \in run[w].plan \cup run[w].moved : m.of = n.of => m = n
        /\ run[w].plan \cap run[w].moved = {}
        /\ run[w].pc = "rename" =>
               \E m \in run[w].plan : m.of = run[w].cur /\ library[m.to] = NoFile

(* What is `filed` has left staging, unless a PATCH made it so.            *)
FiledTaken ==
    misfiled \/ \A r \in Resources : row[r].status = "filed" => ~row[r].staged

(* Rows and library agree, and so do they with what refile_all has read    *)
(* and has moved: if refile_all has not been interrupted nor misled.       *)
Sound == (crashes = 0 /\ ~misfiled) \/ "refile-all" \notin Scheduled

Labelled ==
    Sound =>
        /\ Located
        /\ \A w \in Workers :
               /\ \A m \in run[w].plan :
                      ~row[m.of].staged /\ row[m.of].nasPath = m.from
               /\ \A m \in run[w].moved : library[m.to] = m.of

(* A sidecar on its way goes where its audio is.                           *)
Beside ==
    \A w \in Workers :
        run[w].pc \in Working /\ run[w].cur \in Sidecars =>
            /\ row[Parent[run[w].cur]].nasPath # NoPath
            /\ run[w].dest[1] = row[Parent[run[w].cur]].nasPath[1]

(* Each interruption has stranded one row at most.                         *)
FewStranded == IsFiniteSet(Stranded) /\ Cardinality(Stranded) <= crashes

IInv == TypeOK /\ RunShape /\ Single /\ Carried /\ Anchored /\ Planned
            /\ FiledTaken /\ Labelled /\ Beside /\ FewStranded

-----------------------------------------------------------------------------
(* Paths, rows and jobs.                                                   *)
LEMMA PathFact ==
    /\ \A f \in Folders, r \in Resources :
           <<f, Name[r]>> \in Paths /\ <<f, Name[r]>>[1] = f
    /\ \A p \in Paths : p[1] \in Folders
BY DEF Paths

LEMMA ConstantsFact ==
    /\ \A r \in Recordings : r \in Resources /\ r \notin Sidecars
    /\ \A s \in Sidecars : s \in Resources /\ Parent[s] \in Recordings
    /\ Unsorted \in Folders /\ NoFile \notin Resources /\ NoPath \notin Paths
    /\ 0 \in 0 .. MaxCrashes /\ 0 \in 0 .. MaxDrops
BY FilingAssumption DEF Resources

LEMMA RowFact ==
    ASSUME TypeOK, NEW r \in Resources
    PROVE  /\ row[r] \in Row
           /\ row[r].status \in Status /\ row[r].staged \in BOOLEAN
           /\ row[r].nasPath \in Paths \cup {NoPath} /\ row[r].folder \in Folders
           /\ Render(r) \in Paths
BY PathFact DEF TypeOK, Row, Render

LEMMA StatusFact ==
    ASSUME TypeOK, NEW r \in Resources, NEW s \in Status
    PROVE  LET new == [row EXCEPT ![r].status = s]
           IN  /\ new \in [Resources -> Row]
               /\ new[r].status = s
               /\ \A q \in Resources \ {r} : new[q] = row[q]
               /\ \A q \in Resources : /\ new[q].nasPath = row[q].nasPath
                                       /\ new[q].staged = row[q].staged
<1> DEFINE it == [row[r] EXCEPT !.status = s]
<1>1. /\ it \in Row /\ it.status = s
      /\ it.nasPath = row[r].nasPath /\ it.staged = row[r].staged
    BY DEF TypeOK, Row
<1>2. [row EXCEPT ![r].status = s] = [row EXCEPT ![r] = it]
    OBVIOUS
<1> HIDE DEF it
<1> QED BY <1>1, <1>2 DEF TypeOK

LEMMA FiledFact ==
    ASSUME TypeOK, NEW r \in Resources, NEW p \in Paths
    PROVE  /\ Filed(r, p) \in [Resources -> Row]
           /\ Filed(r, p)[r].status = "filed"
           /\ Filed(r, p)[r].staged = FALSE /\ Filed(r, p)[r].nasPath = p
           /\ \A q \in Resources \ {r} : Filed(r, p)[q] = row[q]
<1> DEFINE it == [row[r] EXCEPT !.status = "filed", !.staged = FALSE, !.nasPath = p]
<1>1. it \in Row /\ it.status = "filed" /\ it.staged = FALSE /\ it.nasPath = p
    BY DEF TypeOK, Row, Status
<1>2. Filed(r, p) = [row EXCEPT ![r] = it]
    BY DEF Filed
<1> HIDE DEF it
<1> QED BY <1>1, <1>2 DEF TypeOK

LEMMA EditFact ==
    ASSUME TypeOK, NEW r \in Resources, NEW f \in Folders
    PROVE  LET new == [row EXCEPT ![r].folder = f]
           IN  /\ new \in [Resources -> Row]
               /\ \A q \in Resources : /\ new[q].status = row[q].status
                                       /\ new[q].nasPath = row[q].nasPath
                                       /\ new[q].staged = row[q].staged
<1> DEFINE it == [row[r] EXCEPT !.folder = f]
<1>1. /\ it \in Row /\ it.status = row[r].status
      /\ it.nasPath = row[r].nasPath /\ it.staged = row[r].staged
    BY DEF TypeOK, Row
<1>2. [row EXCEPT ![r].folder = f] = [row EXCEPT ![r] = it]
    OBVIOUS
<1> HIDE DEF it
<1> QED BY <1>1, <1>2 DEF TypeOK

LEMMA RelabelledFact ==
    ASSUME TypeOK, NEW ms \in SUBSET MoveEntry, NEW r \in Resources
    PROVE  /\ Relabelled(ms) \in [Resources -> Row]
           /\ Relabelled(ms)[r].status = row[r].status
           /\ Relabelled(ms)[r].staged = row[r].staged
           /\ (~\E m \in ms : m.of = r) => Relabelled(ms)[r] = row[r]
           /\ (\E m \in ms : m.of = r) =>
                  \E m \in ms : m.of = r /\ Relabelled(ms)[r].nasPath = m.to
<1> DEFINE to(q) == (CHOOSE m \in ms : m.of = q).to
           new(q) == IF \E m \in ms : m.of = q
                     THEN [row[q] EXCEPT !.nasPath = to(q)] ELSE row[q]
<1>1. Relabelled(ms) = [q \in Resources |-> new(q)]
    BY DEF Relabelled
<1>2. ASSUME NEW q \in Resources
      PROVE  /\ new(q) \in Row
             /\ new(q).status = row[q].status /\ new(q).staged = row[q].staged
             /\ (~\E m \in ms : m.of = q) => new(q) = row[q]
             /\ (\E m \in ms : m.of = q) =>
                    \E m \in ms : m.of = q /\ new(q).nasPath = m.to
    <2>1. CASE ~\E m \in ms : m.of = q
        BY <2>1, RowFact
    <2>2. CASE \E m \in ms : m.of = q
        <3> DEFINE c == CHOOSE m \in ms : m.of = q
        <3>1. c \in ms /\ c.of = q /\ c.to \in Paths
            BY <2>2 DEF MoveEntry
        <3>2. new(q) = [row[q] EXCEPT !.nasPath = c.to]
            BY <2>2
        <3> HIDE DEF c, new, to
        <3>3. /\ new(q) \in Row /\ new(q).nasPath = c.to
              /\ new(q).status = row[q].status /\ new(q).staged = row[q].staged
            BY <3>1, <3>2 DEF TypeOK, Row
        <3> QED BY <2>2, <3>1, <3>3
    <2> QED BY <2>1, <2>2
<1> HIDE DEF new
<1> QED BY <1>1, <1>2

-----------------------------------------------------------------------------
(* The ways a job's variables are rewritten: what the job is at then, and  *)
(* that the other workers are where they were.                             *)
LEMMA RunFact ==
    ASSUME TypeOK, NEW w \in Workers
    PROVE  /\ run[w] \in Run
           /\ run[w].pc \in {"idle", "refile", "rename"} \cup FileJob
           /\ run[w].phase \in {"drain", "tail"}
           /\ run[w].cur \in Resources \cup {NoFile}
           /\ run[w].dest \in Paths \cup {NoPath}
           /\ run[w].todo \in SUBSET Recordings /\ run[w].done \in SUBSET Recordings
           /\ run[w].kids \in SUBSET Sidecars
           /\ run[w].plan \in SUBSET MoveEntry /\ run[w].moved \in SUBSET MoveEntry
BY DEF TypeOK, Run, FileJob

LEMMA TurnFact ==
    ASSUME TypeOK, NEW w \in Workers, NEW next \in Run,
           run' = [run EXCEPT ![w] = next]
    PROVE  /\ run' \in [Workers -> Run] /\ run'[w] = next
           /\ \A x \in Workers \ {w} : run'[x] = run[x]
BY DEF TypeOK

LEMMA IdleFact == Idle \in Run
BY DEF Idle, Run

LEMMA StopFact ==
    ASSUME TypeOK, NEW w \in Workers, Stop(w)
    PROVE  /\ run' \in [Workers -> Run] /\ run'[w] = Idle
           /\ \A x \in Workers \ {w} : run'[x] = run[x]
BY IdleFact, TurnFact DEF Stop

LEMMA PcFact ==
    ASSUME TypeOK, NEW w \in Workers,
           NEW pc \in {"verified", "placed", "commit"},
           run' = [run EXCEPT ![w].pc = pc]
    PROVE  /\ run' \in [Workers -> Run]
           /\ run'[w].pc = pc /\ run'[w].cur = run[w].cur /\ run'[w].dest = run[w].dest
           /\ run'[w].plan = run[w].plan /\ run'[w].moved = run[w].moved
           /\ \A x \in Workers \ {w} : run'[x] = run[x]
<1> DEFINE next == [run[w] EXCEPT !.pc = pc]
<1>1. run' = [run EXCEPT ![w] = next]
    OBVIOUS
<1>2. /\ next \in Run
      /\ next.pc = pc /\ next.cur = run[w].cur /\ next.dest = run[w].dest
      /\ next.plan = run[w].plan /\ next.moved = run[w].moved
    BY RunFact DEF Run
<1> HIDE DEF next
<1> QED BY <1>1, <1>2, TurnFact

LEMMA DoneFact ==
    ASSUME TypeOK, NEW w \in Workers, NEW r \in Resources, DoneWith(w, r)
    PROVE  /\ run' \in [Workers -> Run]
           /\ run'[w].pc = run[w].phase
           /\ run'[w].plan = run[w].plan /\ run'[w].moved = run[w].moved
           /\ \A x \in Workers \ {w} : run'[x] = run[x]
<1> DEFINE next == [run[w] EXCEPT !.pc = run[w].phase, !.cur = NoFile, !.dest = NoPath,
                       !.todo = @ \ {r}, !.kids = @ \ {r},
                       !.done = IF r \in Recordings THEN @ \cup {r} ELSE @]
<1>1. run' = [run EXCEPT ![w] = next]
    BY DEF DoneWith, TypeOK
<1>2. /\ next \in Run /\ next.pc = run[w].phase
      /\ next.plan = run[w].plan /\ next.moved = run[w].moved
    BY RunFact DEF Run
<1> HIDE DEF next
<1> QED BY <1>1, <1>2, TurnFact

LEMMA CopyFact ==
    ASSUME TypeOK, NEW w \in Workers, NEW r \in Resources, NEW p \in Paths,
           run' = [run EXCEPT ![w].pc = "copy", ![w].cur = r, ![w].dest = p]
    PROVE  /\ run' \in [Workers -> Run]
           /\ run'[w].pc = "copy" /\ run'[w].cur = r /\ run'[w].dest = p
           /\ run'[w].plan = run[w].plan /\ run'[w].moved = run[w].moved
           /\ \A x \in Workers \ {w} : run'[x] = run[x]
<1> DEFINE next == [run[w] EXCEPT !.pc = "copy", !.cur = r, !.dest = p]
<1>1. run' = [run EXCEPT ![w] = next]
    BY DEF TypeOK
<1>2. /\ next \in Run /\ next.pc = "copy" /\ next.cur = r /\ next.dest = p
      /\ next.plan = run[w].plan /\ next.moved = run[w].moved
    BY RunFact DEF Run
<1> HIDE DEF next
<1> QED BY <1>1, <1>2, TurnFact

-----------------------------------------------------------------------------
(* The kinds of steps there are, as far as the invariants can tell.        *)
SameLabels ==
    \A r \in Resources :
        row'[r].nasPath = row[r].nasPath /\ row'[r].staged = row[r].staged

NoneFiled ==
    \A r \in Resources : row'[r].status = "filed" =>
        row[r].status = "filed" \/ (r \in Recordings /\ misfiled')

NoPlan(w) ==
    /\ run[w].plan = {} /\ run[w].moved = {}
    /\ run'[w].plan = {} /\ run'[w].moved = {}

SameFile(w) == run'[w].cur = run[w].cur /\ run'[w].dest = run[w].dest

(* The job is between two files, or over.                                  *)
Resting(w) ==
    /\ run'[w].pc \in {"idle", "drain", "tail"}
    /\ run'[w].plan = {} /\ run'[w].moved = {}
    /\ \/ crashes' = crashes + 1
       \/ crashes' = crashes /\ run[w].moved = {} /\ run[w].pc # "commit"
    /\ SameLabels /\ NoneFiled
    /\ UNCHANGED <<files, mounted, misfiled>>

(* file_resources with a file in its hands.                                *)
Starting(w) ==
    /\ run[w].pc # "commit" /\ run'[w].pc = "copy" /\ NoPlan(w)
    /\ run'[w].cur \in staging /\ library[run'[w].dest] = NoFile
    /\ run'[w].cur \in Sidecars =>
           LET beside == row[Parent[run'[w].cur]].nasPath
           IN  beside # NoPath /\ run'[w].dest[1] = beside[1]
    /\ UNCHANGED <<row, files, mounted, crashes, misfiled>>

Verifying(w) ==
    /\ run[w].pc = "copy" /\ run'[w].pc = "verified" /\ SameFile(w) /\ NoPlan(w)
    /\ UNCHANGED <<row, files, mounted, crashes, misfiled>>

Replacing(w) ==
    /\ run[w].pc = "verified" /\ run'[w].pc = "placed" /\ SameFile(w) /\ NoPlan(w)
    /\ library' = [library EXCEPT ![run[w].dest] = run[w].cur]
    /\ UNCHANGED <<row, staging, mounted, crashes, misfiled>>

Releasing(w) ==
    /\ run[w].pc = "placed" /\ run'[w].pc = "commit" /\ SameFile(w) /\ NoPlan(w)
    /\ staging' \in {staging, staging \ {run[w].cur}}
    /\ UNCHANGED <<row, library, mounted, crashes, misfiled>>

Committing(w) ==
    /\ run[w].pc = "commit" /\ run'[w].pc \in {"drain", "tail"} /\ NoPlan(w)
    /\ row' = Filed(run[w].cur, run[w].dest)
    /\ UNCHANGED <<files, mounted, crashes, misfiled>>

(* refile_all.                                                             *)
Planning(w) ==
    /\ run[w].pc = "idle" /\ run'[w].pc = "refile" /\ "refile-all" \in Scheduled
    /\ run[w].moved = {} /\ run'[w].moved = {}
    /\ \A m \in run'[w].plan :
           /\ m.of \in Resources /\ row[m.of].status = "filed"
           /\ m.from = row[m.of].nasPath /\ m.to # m.from
    /\ \A m, n \in run'[w].plan : m.of = n.of => m = n
    /\ UNCHANGED <<row, files, mounted, crashes, misfiled>>

Checking(w) ==
    /\ run[w].pc = "refile" /\ run'[w].pc \in {"refile", "rename"}
    /\ run'[w].moved = run[w].moved /\ run'[w].plan \subseteq run[w].plan
    /\ run'[w].pc = "rename" =>
           \E m \in run'[w].plan : m.of = run'[w].cur /\ ~Exists(m.to)
    /\ UNCHANGED <<row, files, mounted, crashes, misfiled>>

Renaming(w) ==
    /\ run[w].pc = "rename" /\ run'[w].pc = "refile"
    /\ \E m \in run[w].plan :
           /\ m.of = run[w].cur
           /\ run'[w].plan = run[w].plan \ {m} /\ run'[w].moved = run[w].moved \cup {m}
           /\ library' = IF m.from # NoPath /\ Exists(m.from)
                         THEN [library EXCEPT ![m.to] = library[m.from],
                                              ![m.from] = NoFile]
                         ELSE library
    /\ UNCHANGED <<row, staging, mounted, crashes, misfiled>>

Relabelling(w) ==
    /\ run[w].pc = "refile" /\ run[w].plan = {}
    /\ row' = Relabelled(run[w].moved) /\ run'[w] = Idle
    /\ UNCHANGED <<files, mounted, crashes, misfiled>>

(* Requests, retry-failed and the mount.                                   *)
Outer ==
    /\ SameLabels /\ NoneFiled
    /\ misfiled => misfiled'
    /\ mounted' \/ ~mounted \/ MaxDrops # 0
    /\ UNCHANGED <<run, files, crashes>>

Kinds(w) ==
    \/ Resting(w)
    \/ Starting(w) \/ Verifying(w) \/ Replacing(w) \/ Releasing(w) \/ Committing(w)
    \/ Planning(w) \/ Checking(w) \/ Renaming(w) \/ Relabelling(w)

-----------------------------------------------------------------------------
(* Each action is of one of these kinds, and keeps the types.              *)
Typed == TypeOK' /\ RunShape'

LEMMA TypedFact ==
    ASSUME TypeOK, RunShape, NEW w \in Workers,
           run' \in [Workers -> Run],
           \A x \in Workers \ {w} : run'[x] = run[x],
           run'[w].pc = "idle" => run'[w] = Idle,
           run'[w].pc \in Working => run'[w].cur \in Resources /\ run'[w].dest \in Paths,
           run'[w].pc = "rename" => run'[w].cur \in Resources,
           run'[w].pc \in FileJob => run'[w].plan = {} /\ run'[w].moved = {},
           row' \in [Resources -> Row], staging' \subseteq Resources,
           library' \in [Paths -> Resources \cup {NoFile}],
           crashes' \in 0 .. MaxCrashes,
           UNCHANGED <<mounted, patch, drops, misfiled>>
    PROVE  Typed
BY DEF TypeOK, RunShape, Typed

LEMMA FileBeginKind ==
    ASSUME TypeOK, RunShape, NEW w \in Workers, FileBegin(w)
    PROVE  Typed /\ Resting(w)
<1> DEFINE next == [run[w] EXCEPT !.pc = "drain", !.todo = FilingRows]
<1>1. /\ run[w] = Idle /\ run' = [run EXCEPT ![w] = next]
      /\ UNCHANGED <<row, files, outside>>
    BY DEF FileBegin, RunShape, TypeOK
<1>2. /\ next \in Run /\ next.pc = "drain"
      /\ next.plan = {} /\ next.moved = {} /\ run[w].moved = {}
    <2>1. run[w] \in Run /\ run[w].plan = {} /\ run[w].moved = {}
        BY <1>1, RunFact DEF Idle
    <2>2. FilingRows \in SUBSET Recordings
        BY DEF FilingRows
    <2> QED BY <2>1, <2>2 DEF Run
<1> HIDE DEF next
<1>3. /\ run' \in [Workers -> Run] /\ run'[w] = next
      /\ \A x \in Workers \ {w} : run'[x] = run[x]
    BY <1>1, <1>2, TurnFact
<1>4. Typed
    BY <1>1, <1>2, <1>3, TypedFact DEF files, outside, TypeOK, Working, FileJob
<1>5. Resting(w)
    BY <1>1, <1>2, <1>3 DEF Resting, SameLabels, NoneFiled, files, outside, FileBegin
<1> QED BY <1>4, <1>5

LEMMA RequeryKind ==
    ASSUME TypeOK, RunShape, NEW w \in Workers, Requery(w)
    PROVE  Typed /\ Resting(w)
<1> DEFINE ids == FilingRows \ run[w].done
           filed == {r \in Recordings : row[r].status = "filed"}
           again == [run[w] EXCEPT !.todo = ids]
           tail == [run[w] EXCEPT !.pc = "tail", !.phase = "tail",
                                  !.kids = Attached(filed)]
<1>1. /\ run[w].pc = "drain" /\ run[w].plan = {} /\ run[w].moved = {}
      /\ run' = [run EXCEPT ![w] = again] \/ run' = [run EXCEPT ![w] = tail]
      /\ UNCHANGED <<row, files, outside>>
    BY DEF Requery, RunShape, TypeOK, FileJob
<1>2. again \in Run /\ again.pc = "drain" /\ again.plan = {} /\ again.moved = {}
    BY <1>1, RunFact DEF Run, FilingRows
<1>3. tail \in Run /\ tail.pc = "tail" /\ tail.plan = {} /\ tail.moved = {}
    BY <1>1, RunFact DEF Run, Attached
<1> HIDE DEF again, tail
<1>4. /\ run' \in [Workers -> Run] /\ run'[w] \in {again, tail}
      /\ \A x \in Workers \ {w} : run'[x] = run[x]
    BY <1>1, <1>2, <1>3, TurnFact
<1>5. Typed
    BY <1>1, <1>2, <1>3, <1>4, TypedFact DEF files, outside, TypeOK, Working
<1>6. Resting(w)
    BY <1>1, <1>2, <1>3, <1>4 DEF Resting, SameLabels, NoneFiled, files, outside
<1> QED BY <1>5, <1>6

(* The job stops or gives up on a file; row' says how.                     *)
LEMMA StopKind ==
    ASSUME TypeOK, RunShape, NEW w \in Workers, Stop(w),
           \/ crashes' = crashes + 1
           \/ crashes' = crashes /\ run[w].moved = {} /\ run[w].pc # "commit",
           crashes' \in 0 .. MaxCrashes,
           UNCHANGED <<row, files, mounted, patch, drops, misfiled>>
    PROVE  Typed /\ Resting(w)
<1>1. /\ run' \in [Workers -> Run] /\ run'[w] = Idle
      /\ \A x \in Workers \ {w} : run'[x] = run[x]
    BY StopFact
<1>2. Idle.pc = "idle" /\ Idle.plan = {} /\ Idle.moved = {}
    BY DEF Idle
<1>3. Typed
    BY <1>1, <1>2, TypedFact DEF files, TypeOK, Working, FileJob
<1>4. Resting(w)
    BY <1>1, <1>2 DEF Resting, SameLabels, NoneFiled, files
<1> QED BY <1>3, <1>4

LEMMA DoneKind ==
    ASSUME TypeOK, RunShape, NEW w \in Workers, NEW r \in Resources,
           run[w].pc \in FileJob \ {"commit"},
           Fails(w, r) \/ (DoneWith(w, r) /\ UNCHANGED row),
           UNCHANGED <<files, outside>>
    PROVE  Typed /\ Resting(w)
<1>1. run[w].plan = {} /\ run[w].moved = {} /\ run[w].pc # "commit"
    BY DEF RunShape
<1>2. DoneWith(w, r)
    BY DEF Fails
<1>3. /\ run' \in [Workers -> Run]
      /\ run'[w].pc \in {"drain", "tail"}
      /\ run'[w].plan = {} /\ run'[w].moved = {}
      /\ \A x \in Workers \ {w} : run'[x] = run[x]
    BY <1>1, <1>2, DoneFact, RunFact
<1>4. row' \in [Resources -> Row] /\ SameLabels /\ NoneFiled
    <2>1. CASE UNCHANGED row
        BY <2>1 DEF TypeOK, SameLabels, NoneFiled
    <2>2. CASE row' = [row EXCEPT ![r].status = "failed"]
        <3> DEFINE new == [row EXCEPT ![r].status = "failed"]
        <3>1. /\ new \in [Resources -> Row]
              /\ new[r].status = "failed"
              /\ \A q \in Resources \ {r} : new[q] = row[q]
              /\ \A q \in Resources : /\ new[q].nasPath = row[q].nasPath
                                      /\ new[q].staged = row[q].staged
            <4>1. "failed" \in Status
                BY DEF Status
            <4> QED BY <4>1, StatusFact
        <3>2. row' = new
            BY <2>2
        <3> HIDE DEF new
        <3> QED BY <3>1, <3>2 DEF SameLabels, NoneFiled
    <2> QED BY <2>1, <2>2 DEF Fails
<1>5. Typed
    BY <1>3, <1>4, TypedFact DEF files, outside, TypeOK, Working
<1>6. Resting(w)
    BY <1>1, <1>3, <1>4 DEF Resting, files, outside
<1> QED BY <1>5, <1>6

LEMMA StartKind ==
    ASSUME TypeOK, RunShape, NEW w \in Workers, NEW r \in Resources, NEW p \in Paths,
           run[w].pc \in FileJob \ {"commit"}, StartCopy(w, r, p),
           r \in Sidecars => LET beside == row[Parent[r]].nasPath
                             IN  beside # NoPath /\ p[1] = beside[1],
           UNCHANGED <<files, outside>>
    PROVE  Typed /\ (Resting(w) \/ Starting(w))
<1>1. run[w].plan = {} /\ run[w].moved = {} /\ run[w].pc # "commit"
    BY DEF RunShape
<1>2. CASE Stop(w) /\ UNCHANGED row
    BY <1>1, <1>2, StopKind DEF files, outside, TypeOK
<1>3. CASE Fails(w, r)
    BY <1>3, DoneKind
<1>4. CASE /\ mounted /\ ~Exists(p) /\ r \in staging
           /\ run' = [run EXCEPT ![w].pc = "copy", ![w].cur = r, ![w].dest = p]
           /\ UNCHANGED row
    <2>1. /\ run' \in [Workers -> Run]
          /\ run'[w].pc = "copy" /\ run'[w].cur = r /\ run'[w].dest = p
          /\ run'[w].plan = {} /\ run'[w].moved = {}
          /\ \A x \in Workers \ {w} : run'[x] = run[x]
        <3>1. run' = [run EXCEPT ![w].pc = "copy", ![w].cur = r, ![w].dest = p]
            BY <1>4
        <3>2. /\ run' \in [Workers -> Run]
              /\ run'[w].pc = "copy" /\ run'[w].cur = r /\ run'[w].dest = p
              /\ run'[w].plan = run[w].plan /\ run'[w].moved = run[w].moved
              /\ \A x \in Workers \ {w} : run'[x] = run[x]
            BY <3>1, CopyFact
        <3> QED BY <1>1, <3>2
    <2>2. Typed
        BY <1>4, <2>1, TypedFact DEF files, outside, TypeOK
    <2>3. Starting(w)
        BY <1>1, <1>4, <2>1 DEF Starting, NoPlan, Exists, files, outside
    <2> QED BY <2>2, <2>3
<1> QED BY <1>2, <1>3, <1>4 DEF StartCopy

LEMMA PickKind ==
    ASSUME TypeOK, RunShape, NEW w \in Workers, Pick(w)
    PROVE  Typed /\ (Resting(w) \/ Starting(w))
<1>1. PICK r \in run[w].todo :
          /\ run[w].pc = "drain"
          /\ \/ DoneWith(w, r) /\ UNCHANGED row
             \/ Fails(w, r)
             \/ StartCopy(w, r, Render(r))
          /\ UNCHANGED <<files, outside>>
    BY DEF Pick
<1>2. r \in Resources /\ r \notin Sidecars /\ Render(r) \in Paths
    BY RunFact, ConstantsFact, RowFact
<1>3. run[w].pc \in FileJob \ {"commit"}
    BY <1>1 DEF FileJob
<1>4. CASE StartCopy(w, r, Render(r))
    BY <1>1, <1>2, <1>3, <1>4, StartKind
<1>5. CASE Fails(w, r) \/ (DoneWith(w, r) /\ UNCHANGED row)
    BY <1>1, <1>2, <1>3, <1>5, DoneKind
<1> QED BY <1>1, <1>4, <1>5

LEMMA PickKidKind ==
    ASSUME TypeOK, RunShape, NEW w \in Workers, PickKid(w)
    PROVE  Typed /\ (Resting(w) \/ Starting(w))
<1>1. PICK s \in run[w].kids :
          /\ run[w].pc \in {"drain", "tail"}
          /\ \/ Stop(w) /\ UNCHANGED row
             \/ /\ row[Parent[s]].nasPath # NoPath
                /\ StartCopy(w, s, <<row[Parent[s]].nasPath[1], Name[s]>>)
          /\ UNCHANGED <<files, outside>>
    BY DEF PickKid
<1> DEFINE beside == row[Parent[s]].nasPath
           p == <<beside[1], Name[s]>>
<1>2. /\ s \in Resources /\ Parent[s] \in Resources
      /\ run[w].pc \in FileJob \ {"commit"}
    BY <1>1, RunFact, ConstantsFact DEF FileJob
<1>3. CASE Stop(w) /\ UNCHANGED row
    <2>1. run[w].moved = {}
        BY <1>2 DEF RunShape
    <2> QED BY <1>1, <1>3, <2>1, StopKind DEF files, outside, TypeOK
<1>4. CASE beside # NoPath /\ StartCopy(w, s, p)
    <2>1. beside \in Paths
        BY <1>2, <1>4, RowFact
    <2>2. p \in Paths /\ p[1] = beside[1]
        BY <1>2, <2>1, PathFact
    <2> HIDE DEF p
    <2>3. LET b == row[Parent[s]].nasPath IN b # NoPath /\ p[1] = b[1]
        BY <1>4, <2>2
    <2> QED BY <1>1, <1>2, <1>4, <2>2, <2>3, StartKind
<1> QED BY <1>1, <1>3, <1>4

LEMMA CopyAndVerifyKind ==
    ASSUME TypeOK, RunShape, NEW w \in Workers, CopyAndVerify(w)
    PROVE  Typed /\ (Resting(w) \/ Verifying(w))
<1>1. /\ run[w].pc = "copy" /\ UNCHANGED <<files, outside>>
      /\ run[w].cur \in Resources /\ run[w].dest \in Paths
      /\ run[w].plan = {} /\ run[w].moved = {}
      /\ run[w].pc \in FileJob \ {"commit"}
    BY DEF CopyAndVerify, RunShape, Working, FileJob
<1>2. CASE Fails(w, run[w].cur)
    BY <1>1, <1>2, DoneKind
<1>3. CASE Stop(w) /\ UNCHANGED row
    BY <1>1, <1>3, StopKind DEF files, outside, TypeOK
<1>4. CASE run' = [run EXCEPT ![w].pc = "verified"] /\ UNCHANGED row
    <2>1. /\ run' \in [Workers -> Run]
          /\ run'[w].pc = "verified" /\ run'[w].cur = run[w].cur
          /\ run'[w].dest = run[w].dest
          /\ run'[w].plan = run[w].plan /\ run'[w].moved = run[w].moved
          /\ \A x \in Workers \ {w} : run'[x] = run[x]
        BY <1>4, PcFact
    <2>2. Typed
        BY <1>1, <1>4, <2>1, TypedFact DEF files, outside, TypeOK
    <2>3. Verifying(w)
        BY <1>1, <1>4, <2>1 DEF Verifying, NoPlan, SameFile, files, outside
    <2> QED BY <2>2, <2>3
<1> QED BY <1>2, <1>3, <1>4 DEF CopyAndVerify

LEMMA ReplaceKind ==
    ASSUME TypeOK, RunShape, NEW w \in Workers, Replace(w)
    PROVE  Typed /\ (Resting(w) \/ Replacing(w))
<1>1. /\ run[w].pc = "verified" /\ UNCHANGED <<staging, outside>>
      /\ run[w].cur \in Resources /\ run[w].dest \in Paths
      /\ run[w].plan = {} /\ run[w].moved = {}
      /\ run[w].pc \in FileJob \ {"commit"}
    BY DEF Replace, RunShape, Working, FileJob
<1>2. CASE Fails(w, run[w].cur) /\ UNCHANGED library
    BY <1>1, <1>2, DoneKind DEF files
<1>3. CASE /\ library' = [library EXCEPT ![run[w].dest] = run[w].cur]
           /\ run' = [run EXCEPT ![w].pc = "placed"]
           /\ UNCHANGED row
    <2>1. /\ run' \in [Workers -> Run]
          /\ run'[w].pc = "placed" /\ run'[w].cur = run[w].cur
          /\ run'[w].dest = run[w].dest
          /\ run'[w].plan = run[w].plan /\ run'[w].moved = run[w].moved
          /\ \A x \in Workers \ {w} : run'[x] = run[x]
        BY <1>3, PcFact
    <2>2. library' \in [Paths -> Resources \cup {NoFile}]
        BY <1>1, <1>3 DEF TypeOK
    <2>3. Typed
        BY <1>1, <1>3, <2>1, <2>2, TypedFact DEF outside, TypeOK
    <2>4. Replacing(w)
        BY <1>1, <1>3, <2>1 DEF Replacing, NoPlan, SameFile, outside
    <2> QED BY <2>3, <2>4
<1> QED BY <1>2, <1>3 DEF Replace

LEMMA UnlinkKind ==
    ASSUME TypeOK, RunShape, NEW w \in Workers, Unlink(w)
    PROVE  Typed /\ Releasing(w)
<1>1. /\ run[w].pc = "placed" /\ UNCHANGED <<row, library, outside>>
      /\ run[w].cur \in Resources /\ run[w].dest \in Paths
      /\ run[w].plan = {} /\ run[w].moved = {}
      /\ staging' \in {staging, staging \ {run[w].cur}}
      /\ run' = [run EXCEPT ![w].pc = "commit"]
    BY DEF Unlink, RunShape, Working, FileJob
<1>2. /\ run' \in [Workers -> Run]
      /\ run'[w].pc = "commit" /\ run'[w].cur = run[w].cur
      /\ run'[w].dest = run[w].dest
      /\ run'[w].plan = run[w].plan /\ run'[w].moved = run[w].moved
      /\ \A x \in Workers \ {w} : run'[x] = run[x]
    BY <1>1, PcFact
<1>3. Typed
    BY <1>1, <1>2, TypedFact DEF outside, TypeOK
<1>4. Releasing(w)
    BY <1>1, <1>2 DEF Releasing, NoPlan, SameFile, outside
<1> QED BY <1>3, <1>4

LEMMA CommitFiledKind ==
    ASSUME TypeOK, RunShape, NEW w \in Workers, CommitFiled(w)
    PROVE  Typed /\ Committing(w)
<1> DEFINE r == run[w].cur
           next == [run[w] EXCEPT !.pc = run[w].phase, !.cur = NoFile, !.dest = NoPath,
                       !.todo = @ \ {r}, !.done = @ \cup ({r} \cap Recordings),
                       !.kids = IF r \in Recordings THEN Attached({r}) ELSE @ \ {r}]
<1>1. /\ run[w].pc = "commit" /\ UNCHANGED <<files, outside>>
      /\ r \in Resources /\ run[w].dest \in Paths
      /\ run[w].plan = {} /\ run[w].moved = {}
      /\ row' = Filed(r, run[w].dest)
    BY DEF CommitFiled, RunShape, Working, FileJob
<1>2. run' = [run EXCEPT ![w] = next]
    BY DEF CommitFiled, TypeOK
<1>3. /\ next \in Run /\ next.pc \in {"drain", "tail"}
      /\ next.plan = {} /\ next.moved = {}
    <2>1. Attached({r}) \in SUBSET Sidecars
        BY DEF Attached
    <2> QED BY <1>1, <2>1, RunFact DEF Run
<1>4. row' \in [Resources -> Row]
    BY <1>1, FiledFact
<1> HIDE DEF next, r
<1>5. /\ run' \in [Workers -> Run] /\ run'[w] = next
      /\ \A x \in Workers \ {w} : run'[x] = run[x]
    BY <1>2, <1>3, TurnFact
<1>6. Typed
    BY <1>1, <1>3, <1>4, <1>5, TypedFact DEF files, outside, TypeOK, Working
<1>7. Committing(w)
    BY <1>1, <1>3, <1>5 DEF Committing, NoPlan, files, outside, r
<1> QED BY <1>6, <1>7

LEMMA CrashFact ==
    ASSUME TypeOK, Crashing
    PROVE  crashes' \in 0 .. MaxCrashes /\ crashes' = crashes + 1
<1>1. MaxCrashes \in Nat
    BY FilingAssumption
<1> QED BY <1>1 DEF TypeOK, Crashing

LEMMA CommitRefusedKind ==
    ASSUME TypeOK, RunShape, NEW w \in Workers, CommitRefused(w)
    PROVE  Typed /\ Resting(w)
<1> DEFINE r == IF run[w].cur \in Sidecars THEN Parent[run[w].cur] ELSE run[w].cur
           next == [Idle EXCEPT !.pc = "drain", !.todo = run[w].todo \ {r},
                                !.done = run[w].done \cup {r}]
<1>1. /\ run[w].pc = "commit" /\ UNCHANGED <<files, mounted, patch, drops, misfiled>>
      /\ run[w].cur \in Resources
      /\ run[w].plan = {} /\ run[w].moved = {}
      /\ crashes' \in 0 .. MaxCrashes /\ crashes' = crashes + 1
    BY CrashFact DEF CommitRefused, RunShape, Working, FileJob
<1>2. r \in Recordings /\ r \in Resources
    BY <1>1, ConstantsFact DEF Resources
<1>3. CASE Stop(w) /\ UNCHANGED row
    BY <1>1, <1>3, StopKind
<1>4. CASE row' = [row EXCEPT ![r].status = "failed"] /\ run' = [run EXCEPT ![w] = next]
    <2>1. next \in Run /\ next.pc = "drain" /\ next.plan = {} /\ next.moved = {}
        BY <1>2, RunFact DEF Run, Idle
    <2> HIDE DEF next, r
    <2>2. /\ row' \in [Resources -> Row]
          /\ row'[r].status = "failed"
          /\ \A q \in Resources \ {r} : row'[q] = row[q]
          /\ \A q \in Resources : /\ row'[q].nasPath = row[q].nasPath
                                  /\ row'[q].staged = row[q].staged
        BY <1>2, <1>4, StatusFact DEF Status
    <2>3. /\ run' \in [Workers -> Run] /\ run'[w] = next
          /\ \A x \in Workers \ {w} : run'[x] = run[x]
        BY <1>4, <2>1, TurnFact
    <2>4. Typed
        BY <1>1, <2>1, <2>2, <2>3, TypedFact DEF files, TypeOK, Working
    <2>5. Resting(w)
        BY <1>1, <2>1, <2>2, <2>3 DEF Resting, SameLabels, NoneFiled, files
    <2> QED BY <2>4, <2>5
<1> QED BY <1>3, <1>4 DEF CommitRefused

LEMMA EndKind ==
    ASSUME TypeOK, RunShape, NEW w \in Workers, FileEnd(w) \/ Crash(w)
    PROVE  Typed /\ Resting(w)
<1>1. CASE FileEnd(w)
    <2>1. /\ run[w].moved = {} /\ run[w].pc = "tail" /\ Stop(w)
          /\ UNCHANGED <<row, files, outside>>
        BY <1>1 DEF FileEnd, RunShape, FileJob
    <2> QED BY <2>1, StopKind DEF files, outside, TypeOK
<1>2. CASE Crash(w)
    <2>1. crashes' \in 0 .. MaxCrashes /\ crashes' = crashes + 1
        BY <1>2, CrashFact DEF Crash
    <2> QED BY <1>2, <2>1, StopKind DEF Crash
<1> QED BY <1>1, <1>2

LEMMA RefileBeginKind ==
    ASSUME TypeOK, RunShape, NEW w \in Workers, RefileBegin(w)
    PROVE  Typed /\ Planning(w)
<1> DEFINE late == {r \in Resources : row[r].status = "filed"
                                      /\ row[r].nasPath # Render(r)}
           entry(r) == [of |-> r, from |-> row[r].nasPath, to |-> Render(r)]
           plan == {entry(r) : r \in late}
           next == [run[w] EXCEPT !.pc = "refile", !.plan = plan]
<1>1. /\ run[w] = Idle /\ run[w].pc = "idle"
      /\ run' = [run EXCEPT ![w] = next]
      /\ "refile-all" \in Scheduled /\ UNCHANGED <<row, files, outside>>
    BY DEF RefileBegin, RunShape, TypeOK
<1>2. ASSUME NEW r \in late
      PROVE  /\ entry(r) \in MoveEntry /\ entry(r).of = r
             /\ entry(r).from = row[r].nasPath /\ entry(r).to = Render(r)
             /\ entry(r).from # entry(r).to
    BY RowFact DEF MoveEntry
<1> HIDE DEF entry
<1>3. /\ plan \in SUBSET MoveEntry
      /\ \A m \in plan : /\ m.of \in Resources /\ row[m.of].status = "filed"
                         /\ m.from = row[m.of].nasPath /\ m.to # m.from
      /\ \A m, n \in plan : m.of = n.of => m = n
    BY <1>2
<1> HIDE DEF plan
<1>4. /\ next \in Run /\ next.pc = "refile" /\ next.plan = plan
      /\ next.moved = {} /\ run[w].moved = {}
    <2>1. run[w] \in Run /\ run[w].moved = {}
        BY <1>1, RunFact DEF Idle
    <2> QED BY <1>3, <2>1 DEF Run
<1> HIDE DEF next
<1>5. /\ run' \in [Workers -> Run] /\ run'[w] = next
      /\ \A x \in Workers \ {w} : run'[x] = run[x]
    BY <1>1, <1>4, TurnFact
<1>6. Typed
    BY <1>1, <1>4, <1>5, TypedFact DEF files, outside, TypeOK, Working, FileJob
<1>7. Planning(w)
    BY <1>1, <1>3, <1>4, <1>5 DEF Planning, files, outside
<1> QED BY <1>6, <1>7

LEMMA RefileCheckKind ==
    ASSUME TypeOK, RunShape, NEW w \in Workers, RefileCheck(w)
    PROVE  Typed /\ Checking(w)
<1>1. PICK m \in run[w].plan :
          /\ run[w].pc = "refile"
          /\ run' = IF Exists(m.to)
                    THEN [run EXCEPT ![w].plan = @ \ {m}]
                    ELSE [run EXCEPT ![w].pc = "rename", ![w].cur = m.of]
          /\ UNCHANGED <<row, files, outside>>
    BY DEF RefileCheck
<1> DEFINE skip == [run[w] EXCEPT !.plan = @ \ {m}]
           go == [run[w] EXCEPT !.pc = "rename", !.cur = m.of]
<1>2. m.of \in Resources /\ m \in MoveEntry
    BY RunFact DEF MoveEntry
<1>3. run' = IF Exists(m.to) THEN [run EXCEPT ![w] = skip] ELSE [run EXCEPT ![w] = go]
    BY <1>1 DEF TypeOK
<1>4. /\ skip \in Run /\ skip.pc = "refile"
      /\ skip.plan \subseteq run[w].plan /\ skip.moved = run[w].moved
    BY <1>1, RunFact DEF Run
<1>5. /\ go \in Run /\ go.pc = "rename" /\ go.cur = m.of
      /\ go.plan = run[w].plan /\ go.moved = run[w].moved
    BY <1>2, RunFact DEF Run
<1> HIDE DEF skip, go
<1>6. /\ run' \in [Workers -> Run]
      /\ run'[w] = IF Exists(m.to) THEN skip ELSE go
      /\ \A x \in Workers \ {w} : run'[x] = run[x]
    BY <1>3, <1>4, <1>5, TurnFact
<1>7. Typed
    BY <1>1, <1>2, <1>4, <1>5, <1>6, TypedFact
       DEF files, outside, TypeOK, Working, FileJob
<1>8. Checking(w)
    BY <1>1, <1>4, <1>5, <1>6 DEF Checking, files, outside
<1> QED BY <1>7, <1>8

LEMMA RefileRenameKind ==
    ASSUME TypeOK, RunShape, NEW w \in Workers, RefileRename(w)
    PROVE  Typed /\ Renaming(w)
<1>1. PICK m \in run[w].plan :
          /\ run[w].pc = "rename" /\ run[w].cur = m.of
          /\ library' = IF m.from # NoPath /\ Exists(m.from)
                        THEN [library EXCEPT ![m.to] = library[m.from],
                                             ![m.from] = NoFile]
                        ELSE library
          /\ run' = [run EXCEPT ![w].pc = "refile", ![w].cur = NoFile,
                                ![w].plan = @ \ {m}, ![w].moved = @ \cup {m}]
          /\ UNCHANGED <<row, staging, outside>>
    BY DEF RefileRename
<1> DEFINE next == [run[w] EXCEPT !.pc = "refile", !.cur = NoFile,
                                  !.plan = @ \ {m}, !.moved = @ \cup {m}]
<1>2. /\ m \in MoveEntry /\ m.to \in Paths /\ m.from \in Paths \cup {NoPath}
    BY RunFact DEF MoveEntry
<1>3. run' = [run EXCEPT ![w] = next]
    BY <1>1 DEF TypeOK
<1>4. /\ next \in Run /\ next.pc = "refile"
      /\ next.plan = run[w].plan \ {m} /\ next.moved = run[w].moved \cup {m}
    BY <1>2, RunFact DEF Run
<1> HIDE DEF next
<1>5. /\ run' \in [Workers -> Run] /\ run'[w] = next
      /\ \A x \in Workers \ {w} : run'[x] = run[x]
    BY <1>3, <1>4, TurnFact
<1>6. library' \in [Paths -> Resources \cup {NoFile}]
    BY <1>1, <1>2 DEF TypeOK
<1>7. Typed
    BY <1>1, <1>4, <1>5, <1>6, TypedFact DEF outside, TypeOK, Working, FileJob
<1>8. Renaming(w)
    BY <1>1, <1>4, <1>5 DEF Renaming, outside
<1> QED BY <1>7, <1>8

LEMMA RefileCommitKind ==
    ASSUME TypeOK, RunShape, NEW w \in Workers, RefileCommit(w)
    PROVE  Typed /\ Relabelling(w)
<1>1. /\ run[w].pc = "refile" /\ run[w].plan = {}
      /\ row' = Relabelled(run[w].moved) /\ Stop(w)
      /\ UNCHANGED <<files, outside>>
    BY DEF RefileCommit
<1>2. /\ run' \in [Workers -> Run] /\ run'[w] = Idle
      /\ \A x \in Workers \ {w} : run'[x] = run[x]
    BY <1>1, StopFact
<1>3. Idle.pc = "idle" /\ Idle.plan = {} /\ Idle.moved = {}
    BY DEF Idle
<1>4. row' \in [Resources -> Row]
    <2>1. run[w].moved \in SUBSET MoveEntry
        BY RunFact
    <2>2. ASSUME NEW r \in Resources PROVE row' \in [Resources -> Row]
        BY <1>1, <2>1, RelabelledFact
    <2>3. CASE Resources = {}
        BY <1>1, <2>3 DEF Relabelled
    <2> QED BY <2>2, <2>3
<1>5. Typed
    BY <1>1, <1>2, <1>3, <1>4, TypedFact DEF files, outside, TypeOK, Working, FileJob
<1>6. Relabelling(w)
    BY <1>1, <1>2 DEF Relabelling, files, outside
<1> QED BY <1>5, <1>6

(* The steps that are not a job's.                                         *)
LEMMA OuterFact ==
    ASSUME TypeOK, RunShape,
           row' \in [Resources -> Row], SameLabels, NoneFiled,
           mounted' \in BOOLEAN, patch' \in Request \cup {NoRequest},
           drops' \in 0 .. MaxDrops, misfiled' \in BOOLEAN,
           misfiled => misfiled', mounted' \/ ~mounted \/ MaxDrops # 0,
           UNCHANGED <<run, files, crashes>>
    PROVE  Typed /\ Outer
<1>1. TypeOK'
    BY DEF TypeOK, files
<1>2. RunShape'
    BY DEF RunShape
<1> QED BY <1>1, <1>2 DEF Typed, Outer

LEMMA RetryFailedOuter ==
    ASSUME TypeOK, RunShape, NEW w \in Workers, RetryFailed(w)
    PROVE  Typed /\ Outer
<1> DEFINE new(r) == IF row[r].status = "failed"
                     THEN [row[r] EXCEPT !.status = "filing"] ELSE row[r]
<1>1. /\ row' = [r \in Resources |-> new(r)]
      /\ UNCHANGED <<files, run, outside>>
    BY DEF RetryFailed
<1>2. ASSUME NEW r \in Resources
      PROVE  /\ new(r) \in Row
             /\ new(r).nasPath = row[r].nasPath /\ new(r).staged = row[r].staged
             /\ new(r).status = "filed" => row[r].status = "filed"
    BY DEF TypeOK, Row, Status
<1> HIDE DEF new
<1>3. row' \in [Resources -> Row] /\ SameLabels /\ NoneFiled
    BY <1>1, <1>2 DEF SameLabels, NoneFiled
<1> QED BY <1>1, <1>3, OuterFact DEF outside, TypeOK

LEMMA PatchOuter ==
    ASSUME TypeOK, RunShape,
           (\E r \in Recordings, want \in Wants : PatchCheck(r, want)) \/ PatchCommit
    PROVE  Typed /\ Outer
<1>1. ASSUME NEW r \in Recordings, NEW want \in Wants, PatchCheck(r, want)
      PROVE  Typed /\ Outer
    <2> DEFINE set == IF want = "filed" /\ row[r].status \notin {"filed", "filing"}
                      THEN "filing" ELSE want
    <2>1. /\ UNCHANGED <<row, files, mounted, run, crashes, drops, misfiled>>
          /\ patch' = [of |-> r, read |-> row[r].status, set |-> set]
        BY <1>1 DEF PatchCheck
    <2>2. row[r].status \in Status /\ set \in Status
        BY RowFact, ConstantsFact, FilingAssumption DEF Status
    <2> HIDE DEF set
    <2>3. patch' \in Request
        BY <2>1, <2>2 DEF Request
    <2>4. SameLabels /\ NoneFiled
        BY <2>1 DEF SameLabels, NoneFiled
    <2> QED BY <2>1, <2>3, <2>4, OuterFact DEF TypeOK
<1>2. CASE PatchCommit
    <2>1. /\ patch \in Request /\ patch.of \in Recordings /\ patch.of \in Resources
          /\ patch.set \in Status
        BY <1>2, ConstantsFact DEF PatchCommit, TypeOK, Request
    <2>2. /\ row' = IF patch.set # patch.read
                    THEN [row EXCEPT ![patch.of].status = patch.set] ELSE row
          /\ patch' = NoRequest
          /\ misfiled' = (misfiled \/ (patch.set = "filed" /\ patch.read # "filed"))
          /\ UNCHANGED <<files, mounted, run, crashes, drops>>
        BY <1>2 DEF PatchCommit
    <2>3. row' \in [Resources -> Row] /\ SameLabels /\ NoneFiled
        <3>1. CASE patch.set = patch.read
            BY <2>2, <3>1 DEF TypeOK, SameLabels, NoneFiled
        <3>2. CASE patch.set # patch.read
            <4> DEFINE new == [row EXCEPT ![patch.of].status = patch.set]
            <4>1. /\ new \in [Resources -> Row]
                  /\ new[patch.of].status = patch.set
                  /\ \A q \in Resources \ {patch.of} : new[q] = row[q]
                  /\ \A q \in Resources : /\ new[q].nasPath = row[q].nasPath
                                          /\ new[q].staged = row[q].staged
                BY <2>1, StatusFact
            <4>2. row' = new
                BY <2>2, <3>2
            <4> HIDE DEF new
            <4>3. patch.set = "filed" => misfiled'
                BY <2>2, <3>2
            <4> QED BY <2>1, <4>1, <4>2, <4>3 DEF SameLabels, NoneFiled
        <3> QED BY <3>1, <3>2
    <2>4. misfiled' \in BOOLEAN
        BY <2>2 DEF TypeOK
    <2>5. misfiled => misfiled'
        BY <2>2
    <2> QED BY <2>2, <2>3, <2>4, <2>5, OuterFact DEF TypeOK
<1> QED BY <1>1, <1>2

LEMMA EditOuter ==
    ASSUME TypeOK, RunShape, NEW r \in Recordings, NEW f \in Folders, Edit(r, f)
    PROVE  Typed /\ Outer
<1> DEFINE new == [row EXCEPT ![r].folder = f]
<1>1. row' = new /\ UNCHANGED <<files, run, outside>>
    BY DEF Edit
<1>2. /\ new \in [Resources -> Row]
      /\ \A q \in Resources : /\ new[q].status = row[q].status
                              /\ new[q].nasPath = row[q].nasPath
                              /\ new[q].staged = row[q].staged
    BY ConstantsFact, EditFact
<1> HIDE DEF new
<1>3. row' \in [Resources -> Row] /\ SameLabels /\ NoneFiled
    BY <1>1, <1>2 DEF SameLabels, NoneFiled
<1> QED BY <1>1, <1>3, OuterFact DEF outside, TypeOK

LEMMA MountOuter ==
    ASSUME TypeOK, RunShape, NasDrops \/ NasReturns
    PROVE  Typed /\ Outer
<1>1. UNCHANGED <<row, files, run, patch, crashes, misfiled>>
    BY DEF NasDrops, NasReturns
<1>2. drops' \in 0 .. MaxDrops /\ (NasDrops => MaxDrops # 0)
    <2>1. MaxDrops \in Nat
        BY FilingAssumption
    <2> QED BY <2>1 DEF TypeOK, NasDrops, NasReturns
<1>3. mounted' \in BOOLEAN /\ (mounted' \/ ~mounted \/ MaxDrops # 0)
    BY <1>2 DEF NasDrops, NasReturns
<1>4. SameLabels /\ NoneFiled
    BY <1>1 DEF SameLabels, NoneFiled
<1> QED BY <1>1, <1>2, <1>3, <1>4, OuterFact DEF TypeOK

JobStep(w) ==
    \/ FileBegin(w) \/ FileStep(w) \/ CommitRefused(w)
    \/ RefileBegin(w) \/ RefileStep(w) \/ Crash(w)

(* Every step is of one of these kinds, or changes nothing.                *)
LEMMA StepKinds ==
    ASSUME TypeOK, RunShape, [Next]_vars
    PROVE  Typed /\ ((\E w \in Workers : JobStep(w) /\ Kinds(w)) \/ Outer)
<1>1. ASSUME NEW w \in Workers, JobStep(w)
      PROVE  Typed /\ Kinds(w)
    BY <1>1, FileBeginKind, RequeryKind, PickKind, PickKidKind, CopyAndVerifyKind,
       ReplaceKind, UnlinkKind, CommitFiledKind, CommitRefusedKind, EndKind,
       RefileBeginKind, RefileCheckKind, RefileRenameKind, RefileCommitKind
       DEF JobStep, FileStep, RefileStep, Kinds
<1>2. ASSUME NEW w \in Workers, RetryFailed(w) PROVE Typed /\ Outer
    BY <1>2, RetryFailedOuter
<1>3. ASSUME NEW r \in Recordings,
             \/ \E want \in Wants : PatchCheck(r, want)
             \/ \E f \in Folders : Edit(r, f)
      PROVE  Typed /\ Outer
    BY <1>3, PatchOuter, EditOuter
<1>4. ASSUME PatchCommit \/ NasDrops \/ NasReturns PROVE Typed /\ Outer
    BY <1>4, PatchOuter, MountOuter
<1>5. CASE UNCHANGED vars
    BY <1>5, OuterFact DEF vars, files, TypeOK, SameLabels, NoneFiled
<1> QED BY <1>1, <1>2, <1>3, <1>4, <1>5 DEF Next, JobStep

-----------------------------------------------------------------------------
(* The other workers have nothing under way, before the step or after it.  *)
Rests(j) == j.pc = "idle" /\ j.plan = {} /\ j.moved = {}

Others(w) == \A x \in Workers \ {w} : Rests(run[x]) /\ Rests(run'[x])

(* A job's step is its own worker's.                                       *)
LEMMA TurnsFact ==
    ASSUME TypeOK, NEW w \in Workers, JobStep(w)
    PROVE  \A x \in Workers \ {w} : run'[x] = run[x]
<1>1. \A j : run' = [run EXCEPT ![w] = j] => \A x \in Workers \ {w} : run'[x] = run[x]
    BY DEF TypeOK
<1>2. Stop(w) => \A x \in Workers \ {w} : run'[x] = run[x]
    BY <1>1 DEF Stop
<1>3. ASSUME NEW r, DoneWith(w, r) PROVE \A x \in Workers \ {w} : run'[x] = run[x]
    BY <1>3 DEF DoneWith, TypeOK
<1>4. ASSUME NEW r, NEW p, StartCopy(w, r, p)
      PROVE  \A x \in Workers \ {w} : run'[x] = run[x]
    BY <1>2, <1>3, <1>4 DEF StartCopy, Fails, TypeOK
<1>5. FileBegin(w) \/ Requery(w) => \A x \in Workers \ {w} : run'[x] = run[x]
    BY DEF FileBegin, Requery, TypeOK
<1>6. Pick(w) \/ PickKid(w) => \A x \in Workers \ {w} : run'[x] = run[x]
    BY <1>2, <1>3, <1>4 DEF Pick, PickKid, Fails
<1>7. CopyAndVerify(w) \/ Replace(w) \/ Unlink(w) =>
          \A x \in Workers \ {w} : run'[x] = run[x]
    BY <1>2, <1>3 DEF CopyAndVerify, Replace, Unlink, Fails, TypeOK
<1>8. CommitFiled(w) \/ CommitRefused(w) \/ FileEnd(w) \/ Crash(w) =>
          \A x \in Workers \ {w} : run'[x] = run[x]
    BY <1>2 DEF CommitFiled, CommitRefused, FileEnd, Crash, TypeOK
<1>9. RefileBegin(w) \/ RefileCheck(w) \/ RefileRename(w) \/ RefileCommit(w) =>
          \A x \in Workers \ {w} : run'[x] = run[x]
    BY <1>2 DEF RefileBegin, RefileCheck, RefileRename, RefileCommit, TypeOK
<1> QED BY <1>5, <1>6, <1>7, <1>8, <1>9 DEF JobStep, FileStep, RefileStep

(* While it makes it the others are idle: NoOtherRun keeps out a second    *)
(* run of a job, and the assumption a run of the other.                    *)
LEMMA AloneFact ==
    ASSUME Apart, TypeOK, RunShape, Anchored, Single, NEW w \in Workers, JobStep(w)
    PROVE  Others(w) /\ Single'
<1>1. \A x \in Workers \ {w} : run[x].pc = "idle"
    <2>1. CASE run[w].pc # "idle"
        BY <2>1 DEF Single
    <2>2. CASE FileBegin(w)
        <3> SUFFICES ASSUME NEW x \in Workers \ {w}, run[x].pc # "idle" PROVE FALSE
            OBVIOUS
        <3>1. run[x].pc \in RefileJob /\ "file-resources" \in Scheduled
            BY <2>2, RunFact DEF FileBegin, NoOtherRun, RefileJob
        <3> QED BY <3>1 DEF Anchored, Apart, OneWorker
    <2>3. CASE RefileBegin(w)
        <3> SUFFICES ASSUME NEW x \in Workers \ {w}, run[x].pc # "idle" PROVE FALSE
            OBVIOUS
        <3>1. run[x].pc \in FileJob /\ "refile-all" \in Scheduled
            BY <2>3, RunFact DEF RefileBegin, NoOtherRun, RefileJob
        <3> QED BY <3>1 DEF Single, Apart, OneWorker
    <2>4. FileStep(w) \/ CommitRefused(w) \/ RefileStep(w) \/ Crash(w) =>
              run[w].pc # "idle"
        BY DEF FileStep, Requery, Pick, PickKid, CopyAndVerify, Replace, Unlink,
               CommitFiled, FileEnd, CommitRefused, RefileStep, RefileCheck,
               RefileRename, RefileCommit, Crash
    <2> QED BY <2>1, <2>2, <2>3, <2>4 DEF JobStep
<1>2. \A x \in Workers \ {w} : run'[x] = run[x]
    BY TurnsFact
<1>3. \A x \in Workers : run[x].pc = "idle" => Rests(run[x])
    BY DEF RunShape, Idle, Rests
<1>4. Others(w)
    BY <1>1, <1>2, <1>3 DEF Others
<1>5. run'[w].pc \in FileJob => "file-resources" \in Scheduled
    <2>1. FileBegin(w) => "file-resources" \in Scheduled
        BY DEF FileBegin
    <2>2. FileStep(w) \/ CommitRefused(w) => run[w].pc \in FileJob
        BY DEF FileStep, Requery, Pick, PickKid, CopyAndVerify, Replace, Unlink,
               CommitFiled, FileEnd, CommitRefused, FileJob
    <2>3. RefileBegin(w) \/ RefileStep(w) => run'[w].pc \notin FileJob
        BY RefileBeginKind, RefileCheckKind, RefileRenameKind, RefileCommitKind
           DEF RefileStep, Planning, Checking, Renaming, Relabelling, Idle, FileJob
    <2>4. Crash(w) => run'[w].pc \notin FileJob
        BY StopFact DEF Crash, Idle, FileJob
    <2>5. run[w].pc \in FileJob => "file-resources" \in Scheduled
        BY DEF Single
    <2> QED BY <2>1, <2>2, <2>3, <2>4, <2>5 DEF JobStep
<1> QED BY <1>1, <1>2, <1>4, <1>5 DEF Single

-----------------------------------------------------------------------------
(* What each kind of step leaves true, while the others rest.              *)
Rest == Carried /\ Anchored /\ Planned /\ FiledTaken /\ Labelled /\ Beside

(* What the job has moved, now and after the step.                         *)
LEMMA MovingFact ==
    ASSUME NEW w \in Workers, Others(w)
    PROVE  /\ \A r \in Resources : r \in Moving <=> \E m \in run[w].moved : m.of = r
           /\ \A r \in Resources : r \in Moving' <=> \E m \in run'[w].moved : m.of = r
<1>1. \A x \in Workers : x = w \/ (run[x].moved = {} /\ run'[x].moved = {})
    BY DEF Others, Rests
<1> QED BY <1>1 DEF Moving

(* Labelled, as the job has it.                                            *)
LEMMA LabelsFact ==
    ASSUME Labelled, Sound, NEW w \in Workers, Others(w)
    PROVE  /\ \A r \in Resources :
                  ~row[r].staged /\ ~(\E m \in run[w].moved : m.of = r) =>
                      row[r].nasPath # NoPath /\ library[row[r].nasPath] = r
           /\ \A m \in run[w].plan : ~row[m.of].staged /\ row[m.of].nasPath = m.from
           /\ \A m \in run[w].moved : library[m.to] = m.of
BY MovingFact DEF Labelled, Located

LEMMA LabelsGoal ==
    ASSUME NEW w \in Workers, Others(w),
           Sound' =>
           /\ \A r \in Resources :
                  ~row'[r].staged /\ ~(\E m \in run'[w].moved : m.of = r) =>
                      row'[r].nasPath # NoPath /\ library'[row'[r].nasPath] = r
           /\ \A m \in run'[w].plan : ~row'[m.of].staged /\ row'[m.of].nasPath = m.from
           /\ \A m \in run'[w].moved : library'[m.to] = m.of
    PROVE  Labelled'
<1>1. \A x \in Workers : x = w \/ (run'[x].plan = {} /\ run'[x].moved = {})
    BY DEF Others, Rests
<1> QED BY <1>1, MovingFact DEF Labelled, Located

(* refile_all alone has plans.                                             *)
LEMMA PlansFact ==
    ASSUME TypeOK, RunShape, Anchored, NEW w \in Workers,
           "refile-all" \notin Scheduled
    PROVE  run[w].plan = {} /\ run[w].moved = {}
<1>1. run[w].pc \in {"idle"} \cup FileJob
    BY RunFact DEF Anchored, RefileJob
<1> QED BY <1>1 DEF RunShape, Idle

LEMMA RestingKeeps ==
    ASSUME IInv, NEW w \in Workers, Others(w), Resting(w)
    PROVE  Rest'
<1> USE DEF IInv
<1>0. \A x \in Workers :
          x = w \/ (run'[x].pc = "idle" /\ run'[x].plan = {} /\ run'[x].moved = {})
    BY DEF Others, Rests
<1>1. Carried' /\ Beside' /\ Planned'
    BY <1>0 DEF Resting, Carried, Beside, Working, Planned
<1>2. Anchored'
    BY <1>0 DEF Resting, Anchored, RefileJob
<1>3. FiledTaken'
    BY DEF Resting, FiledTaken, SameLabels, NoneFiled
<1>4. ASSUME Sound' PROVE Sound /\ run[w].moved = {}
    <2>1. CASE "refile-all" \notin Scheduled
        BY <2>1, PlansFact DEF Sound
    <2>2. CASE crashes' = 0 /\ ~misfiled'
        BY <2>2 DEF Resting, Sound, TypeOK
    <2> QED BY <1>4, <2>1, <2>2 DEF Sound
<1>5. Labelled'
    <2>1. ASSUME Sound', NEW r \in Resources, ~row'[r].staged
          PROVE  row'[r].nasPath # NoPath /\ library'[row'[r].nasPath] = r
        <3>1. Sound /\ run[w].moved = {}
            BY <1>4, <2>1
        <3>2. ~row[r].staged => row[r].nasPath # NoPath /\ library[row[r].nasPath] = r
            BY <3>1, LabelsFact
        <3> QED BY <2>1, <3>2 DEF Resting, SameLabels, files
    <2> QED BY <2>1, LabelsGoal DEF Resting
<1> QED BY <1>1, <1>2, <1>3, <1>5 DEF Rest

LEMMA HandlingKeeps ==
    ASSUME IInv, NEW w \in Workers, Others(w), Starting(w) \/ Verifying(w)
    PROVE  Rest'
<1> USE DEF IInv
<1>0. \A x \in Workers :
          x = w \/ (run'[x].pc = "idle" /\ run'[x].plan = {} /\ run'[x].moved = {})
    BY DEF Others, Rests
<1>1. /\ NoPlan(w) /\ UNCHANGED <<row, files, mounted, crashes, misfiled>>
      /\ run'[w].pc \in {"copy", "verified"}
    BY DEF Starting, Verifying
<1>2. Carried'
    BY <1>0, <1>1 DEF Starting, Verifying, SameFile, Carried, files
<1>3. Anchored' /\ Planned' /\ FiledTaken'
    BY <1>0, <1>1 DEF Anchored, RefileJob, Planned, NoPlan, FiledTaken
<1>4. Beside'
    BY <1>0, <1>1 DEF Starting, Verifying, SameFile, Beside, Working
<1>5. Labelled'
    <2>1. Sound' => Sound
        BY <1>1 DEF Sound
    <2> QED BY <1>1, <2>1, LabelsFact, LabelsGoal DEF NoPlan, files
<1> QED BY <1>2, <1>3, <1>4, <1>5 DEF Rest

LEMMA ReplacingKeeps ==
    ASSUME IInv, NEW w \in Workers, Others(w), Replacing(w)
    PROVE  Rest'
<1> USE DEF IInv
<1> DEFINE r == run[w].cur
           p == run[w].dest
<1>0. \A x \in Workers :
          x = w \/ (run'[x].pc = "idle" /\ run'[x].plan = {} /\ run'[x].moved = {})
    BY DEF Others, Rests
<1>1. /\ run[w].pc = "verified" /\ run'[w].pc = "placed" /\ SameFile(w) /\ NoPlan(w)
      /\ library' = [library EXCEPT ![p] = r]
      /\ UNCHANGED <<row, staging, mounted, crashes, misfiled>>
    BY DEF Replacing
<1>2. /\ r \in Resources /\ p \in Paths /\ library[p] = NoFile
      /\ library'[p] = r /\ \A q \in Paths \ {p} : library'[q] = library[q]
    BY <1>1 DEF Carried, RunShape, Working, TypeOK
<1>3. Carried'
    BY <1>0, <1>1, <1>2 DEF Carried, SameFile
<1>4. Anchored' /\ Planned' /\ FiledTaken'
    BY <1>0, <1>1 DEF Anchored, RefileJob, Planned, NoPlan, FiledTaken
<1>5. Beside'
    BY <1>0, <1>1 DEF SameFile, Beside, Working
<1>6. Labelled'
    <2>1. ASSUME Sound', NEW x \in Resources, ~row'[x].staged
          PROVE  row'[x].nasPath # NoPath /\ library'[row'[x].nasPath] = x
        <3>1. Sound /\ run[w].moved = {} /\ ~row[x].staged
            BY <1>1, <2>1 DEF Sound, NoPlan
        <3>2. row[x].nasPath # NoPath /\ library[row[x].nasPath] = x
            BY <3>1, LabelsFact
        <3>3. row[x].nasPath \in Paths /\ row[x].nasPath # p
            BY <1>2, <3>2, RowFact, ConstantsFact
        <3> QED BY <1>1, <1>2, <3>2, <3>3
    <2> QED BY <1>1, <2>1, LabelsGoal DEF NoPlan
<1> QED BY <1>3, <1>4, <1>5, <1>6 DEF Rest

LEMMA ReleasingKeeps ==
    ASSUME IInv, NEW w \in Workers, Others(w), Releasing(w)
    PROVE  Rest'
<1> USE DEF IInv
<1>0. \A x \in Workers :
          x = w \/ (run'[x].pc = "idle" /\ run'[x].plan = {} /\ run'[x].moved = {})
    BY DEF Others, Rests
<1>1. /\ run[w].pc = "placed" /\ run'[w].pc = "commit" /\ SameFile(w) /\ NoPlan(w)
      /\ UNCHANGED <<row, library, mounted, crashes, misfiled>>
    BY DEF Releasing
<1>2. Carried'
    BY <1>0, <1>1 DEF Carried, SameFile
<1>3. Anchored' /\ Planned' /\ FiledTaken'
    BY <1>0, <1>1 DEF Anchored, RefileJob, Planned, NoPlan, FiledTaken
<1>4. Beside'
    BY <1>0, <1>1 DEF SameFile, Beside, Working
<1>5. Labelled'
    <2>1. Sound' => Sound
        BY <1>1 DEF Sound
    <2> QED BY <1>1, <2>1, LabelsFact, LabelsGoal DEF NoPlan
<1> QED BY <1>2, <1>3, <1>4, <1>5 DEF Rest

LEMMA CommittingKeeps ==
    ASSUME IInv, NEW w \in Workers, Others(w), Committing(w)
    PROVE  Rest'
<1> USE DEF IInv
<1> DEFINE r == run[w].cur
           p == run[w].dest
<1>0. \A x \in Workers :
          x = w \/ (run'[x].pc = "idle" /\ run'[x].plan = {} /\ run'[x].moved = {})
    BY DEF Others, Rests
<1>1. /\ run[w].pc = "commit" /\ run'[w].pc \in {"drain", "tail"} /\ NoPlan(w)
      /\ UNCHANGED <<files, mounted, crashes, misfiled>>
    BY DEF Committing
<1>2. r \in Resources /\ p \in Paths /\ library[p] = r
    BY <1>1 DEF Carried, RunShape, Working
<1>3. /\ row'[r].staged = FALSE /\ row'[r].nasPath = p
      /\ \A q \in Resources \ {r} : row'[q] = row[q]
    BY <1>2, FiledFact DEF Committing
<1> HIDE DEF r, p
<1>4. Carried' /\ Beside'
    BY <1>0, <1>1 DEF Carried, Beside, Working
<1>5. Anchored' /\ Planned'
    BY <1>0, <1>1 DEF Anchored, RefileJob, Planned, NoPlan
<1>6. FiledTaken'
    BY <1>1, <1>3 DEF FiledTaken
<1>7. Labelled'
    <2>1. ASSUME Sound', NEW x \in Resources, ~row'[x].staged
          PROVE  row'[x].nasPath # NoPath /\ library'[row'[x].nasPath] = x
        <3>1. CASE x = r
            BY <1>1, <1>2, <1>3, <3>1, ConstantsFact DEF files
        <3>2. CASE x # r
            <4>1. row'[x] = row[x] /\ Sound /\ run[w].moved = {}
                BY <1>1, <1>3, <2>1, <3>2 DEF Sound, NoPlan
            <4>2. row[x].nasPath # NoPath /\ library[row[x].nasPath] = x
                BY <2>1, <4>1, LabelsFact
            <4> QED BY <1>1, <4>1, <4>2 DEF files
        <3> QED BY <3>1, <3>2
    <2> QED BY <1>1, <2>1, LabelsGoal DEF NoPlan
<1> QED BY <1>4, <1>5, <1>6, <1>7 DEF Rest

LEMMA PlanningKeeps ==
    ASSUME IInv, NEW w \in Workers, Others(w), Planning(w)
    PROVE  Rest'
<1> USE DEF IInv
<1>0. \A x \in Workers :
          x = w \/ (run'[x].pc = "idle" /\ run'[x].plan = {} /\ run'[x].moved = {})
    BY DEF Others, Rests
<1>1. /\ run'[w].pc = "refile" /\ "refile-all" \in Scheduled
      /\ run[w].moved = {} /\ run'[w].moved = {}
      /\ UNCHANGED <<row, files, mounted, crashes, misfiled>>
    BY DEF Planning
<1>2. Carried' /\ Beside' /\ FiledTaken'
    BY <1>0, <1>1 DEF Carried, Beside, Working, FiledTaken
<1>3. Anchored' /\ Planned'
    BY <1>0, <1>1 DEF Anchored, Planned, Planning
<1>4. Labelled'
    <2>1. ASSUME Sound' PROVE Sound /\ ~misfiled
        BY <1>1, <2>1 DEF Sound
    <2>2. ASSUME Sound', NEW m \in run'[w].plan
          PROVE  ~row'[m.of].staged /\ row'[m.of].nasPath = m.from
        BY <1>1, <2>1, <2>2 DEF Planning, FiledTaken
    <2> QED BY <1>1, <2>1, <2>2, LabelsFact, LabelsGoal DEF files
<1> QED BY <1>2, <1>3, <1>4 DEF Rest

LEMMA CheckingKeeps ==
    ASSUME IInv, NEW w \in Workers, Others(w), Checking(w)
    PROVE  Rest'
<1> USE DEF IInv
<1>0. \A x \in Workers :
          x = w \/ (run'[x].pc = "idle" /\ run'[x].plan = {} /\ run'[x].moved = {})
    BY DEF Others, Rests
<1>1. /\ run[w].pc = "refile" /\ run'[w].pc \in {"refile", "rename"}
      /\ run'[w].moved = run[w].moved /\ run'[w].plan \subseteq run[w].plan
      /\ UNCHANGED <<row, files, mounted, crashes, misfiled>>
    BY DEF Checking
<1>2. "refile-all" \in Scheduled /\ mounted
    BY <1>1 DEF Anchored, RefileJob
<1>3. Carried' /\ Beside' /\ FiledTaken' /\ Anchored'
    BY <1>0, <1>1, <1>2 DEF Carried, Beside, Working, FiledTaken, Anchored
<1>4. Planned'
    <2>1. run'[w].pc = "rename" =>
              \E m \in run'[w].plan : m.of = run'[w].cur /\ library'[m.to] = NoFile
        BY <1>1, <1>2 DEF Checking, Exists, files
    <2> QED BY <1>0, <1>1, <2>1 DEF Planned
<1>5. Labelled'
    <2>1. Sound' => Sound
        BY <1>1 DEF Sound
    <2> QED BY <1>1, <2>1, LabelsFact, LabelsGoal DEF files
<1> QED BY <1>3, <1>4, <1>5 DEF Rest

(* A rename goes to a free place, from where the resource is.              *)
LEMMA RenamingFact ==
    ASSUME IInv, NEW w \in Workers, Renaming(w)
    PROVE  \E m \in run[w].plan :
               /\ m \in MoveEntry /\ m.from # m.to /\ library[m.to] = NoFile
               /\ run'[w].plan = run[w].plan \ {m}
               /\ run'[w].moved = run[w].moved \cup {m}
               /\ library' = IF m.from # NoPath /\ library[m.from] # NoFile
                             THEN [library EXCEPT ![m.to] = library[m.from],
                                                  ![m.from] = NoFile]
                             ELSE library
<1> USE DEF IInv
<1>1. PICK m \in run[w].plan :
          /\ m.of = run[w].cur
          /\ run'[w].plan = run[w].plan \ {m} /\ run'[w].moved = run[w].moved \cup {m}
          /\ library' = IF m.from # NoPath /\ Exists(m.from)
                        THEN [library EXCEPT ![m.to] = library[m.from],
                                             ![m.from] = NoFile]
                        ELSE library
    BY DEF Renaming
<1>2. run[w].pc = "rename" /\ mounted
    BY DEF Renaming, Anchored, RefileJob
<1>3. library[m.to] = NoFile
    <2>1. PICK n \in run[w].plan : n.of = run[w].cur /\ library[n.to] = NoFile
        BY <1>2 DEF Planned
    <2>2. m = n
        BY <1>1, <2>1 DEF Planned
    <2> QED BY <2>1, <2>2
<1>4. m \in MoveEntry /\ m.from # m.to
    BY RunFact DEF Planned
<1> QED BY <1>1, <1>2, <1>3, <1>4 DEF Exists

LEMMA RenamingKeeps ==
    ASSUME IInv, NEW w \in Workers, Others(w), Renaming(w)
    PROVE  Rest'
<1> USE DEF IInv
<1>0. \A x \in Workers :
          x = w \/ (run'[x].pc = "idle" /\ run'[x].plan = {} /\ run'[x].moved = {})
    BY DEF Others, Rests
<1>1. /\ run[w].pc = "rename" /\ run'[w].pc = "refile"
      /\ UNCHANGED <<row, staging, mounted, crashes, misfiled>>
    BY DEF Renaming
<1>2. PICK m \in run[w].plan :
          /\ m \in MoveEntry /\ m.from # m.to /\ library[m.to] = NoFile
          /\ run'[w].plan = run[w].plan \ {m}
          /\ run'[w].moved = run[w].moved \cup {m}
          /\ library' = IF m.from # NoPath /\ library[m.from] # NoFile
                        THEN [library EXCEPT ![m.to] = library[m.from],
                                             ![m.from] = NoFile]
                        ELSE library
    BY RenamingFact
<1>3. Carried' /\ Beside' /\ FiledTaken' /\ Anchored'
    BY <1>0, <1>1 DEF Carried, Beside, Working, FiledTaken, Anchored, RefileJob
<1>4. \A n \in run[w].moved : n.of # m.of
    BY DEF Planned
<1>5. Planned'
    BY <1>0, <1>1, <1>2 DEF Planned
<1>6. Labelled'
    <2>0. m.of \in Resources /\ m.to \in Paths
        BY <1>2 DEF MoveEntry
    <2>1. Sound' => Sound
        BY <1>1 DEF Sound
    <2>2. ASSUME Sound
          PROVE  /\ m.from \in Paths /\ library[m.from] = m.of
                 /\ library'[m.to] = m.of
                 /\ \A q \in Paths \ {m.from, m.to} : library'[q] = library[q]
        <3>1. ~row[m.of].staged /\ row[m.of].nasPath = m.from
            BY <2>2, LabelsFact
        <3>2. m.from # NoPath /\ library[m.from] = m.of
            BY <1>4, <2>0, <2>2, <3>1, LabelsFact
        <3>3. m.from \in Paths
            BY <1>2, <3>2 DEF MoveEntry
        <3>4. library' = [library EXCEPT ![m.to] = library[m.from], ![m.from] = NoFile]
            BY <1>2, <2>0, <3>2, ConstantsFact
        <3> QED BY <1>2, <2>0, <3>2, <3>3, <3>4 DEF TypeOK
    <2>3. ASSUME Sound', NEW r \in Resources, ~row'[r].staged,
                 ~(\E n \in run'[w].moved : n.of = r)
          PROVE  row'[r].nasPath # NoPath /\ library'[row'[r].nasPath] = r
        <3>1. r # m.of /\ ~(\E n \in run[w].moved : n.of = r) /\ ~row[r].staged
            BY <1>1, <1>2, <2>3
        <3>2. row[r].nasPath # NoPath /\ library[row[r].nasPath] = r
            BY <2>1, <2>3, <3>1, LabelsFact
        <3>3. /\ row[r].nasPath \in Paths
              /\ row[r].nasPath # m.to /\ row[r].nasPath # m.from
            BY <1>2, <2>1, <2>2, <2>3, <3>1, <3>2, RowFact, ConstantsFact
        <3> QED BY <1>1, <2>1, <2>2, <2>3, <3>2, <3>3
    <2>4. ASSUME Sound', NEW n \in run'[w].moved
          PROVE  library'[n.to] = n.of
        <3>1. CASE n = m
            BY <2>1, <2>2, <2>4, <3>1
        <3>2. CASE n \in run[w].moved
            <4>1. library[n.to] = n.of /\ n.of # m.of /\ n.of \in Resources /\ n.to \in Paths
                BY <1>4, <2>1, <2>4, <3>2, LabelsFact, RunFact DEF MoveEntry
            <4>2. n.to # m.to /\ n.to # m.from
                BY <1>2, <2>1, <2>2, <2>4, <4>1, ConstantsFact
            <4> QED BY <2>1, <2>2, <2>4, <4>1, <4>2
        <3> QED BY <1>2, <2>4, <3>1, <3>2
    <2>5. ASSUME Sound', NEW n \in run'[w].plan
          PROVE  ~row'[n.of].staged /\ row'[n.of].nasPath = n.from
        BY <1>1, <1>2, <2>1, <2>5, LabelsFact
    <2> QED BY <2>3, <2>4, <2>5, LabelsGoal
<1> QED BY <1>3, <1>5, <1>6 DEF Rest

LEMMA RelabellingKeeps ==
    ASSUME IInv, NEW w \in Workers, Others(w), Relabelling(w)
    PROVE  Rest'
<1> USE DEF IInv
<1>0. \A x \in Workers :
          x = w \/ (run'[x].pc = "idle" /\ run'[x].plan = {} /\ run'[x].moved = {})
    BY DEF Others, Rests
<1>1. /\ run'[w] = Idle /\ UNCHANGED <<files, mounted, crashes, misfiled>>
      /\ Idle.pc = "idle" /\ Idle.plan = {} /\ Idle.moved = {}
    BY DEF Relabelling, Idle
<1>2. run[w].moved \in SUBSET MoveEntry
    BY RunFact
<1>3. \A r \in Resources :
          /\ row'[r].status = row[r].status /\ row'[r].staged = row[r].staged
          /\ (~\E m \in run[w].moved : m.of = r) => row'[r] = row[r]
          /\ (\E m \in run[w].moved : m.of = r) =>
                 \E m \in run[w].moved : m.of = r /\ row'[r].nasPath = m.to
    BY <1>2, RelabelledFact DEF Relabelling
<1>4. Carried' /\ Beside' /\ Planned' /\ Anchored'
    BY <1>0, <1>1 DEF Carried, Beside, Working, Planned, Anchored, RefileJob
<1>5. FiledTaken'
    BY <1>1, <1>3 DEF FiledTaken
<1>6. Labelled'
    <2>1. ASSUME Sound', NEW r \in Resources, ~row'[r].staged
          PROVE  row'[r].nasPath # NoPath /\ library'[row'[r].nasPath] = r
        <3>1. Sound /\ ~row[r].staged
            BY <1>1, <1>3, <2>1 DEF Sound
        <3>2. CASE ~\E m \in run[w].moved : m.of = r
            BY <1>1, <1>3, <3>1, <3>2, LabelsFact DEF files
        <3>3. CASE \E m \in run[w].moved : m.of = r
            <4>1. PICK m \in run[w].moved : m.of = r /\ row'[r].nasPath = m.to
                BY <1>3, <3>3
            <4>2. library[m.to] = m.of /\ m.to \in Paths
                BY <1>2, <3>1, LabelsFact DEF MoveEntry
            <4> QED BY <1>1, <4>1, <4>2, ConstantsFact DEF files
        <3> QED BY <3>2, <3>3
    <2> QED BY <1>1, <2>1, LabelsGoal
<1> QED BY <1>4, <1>5, <1>6 DEF Rest

LEMMA OuterKeeps ==
    ASSUME IInv, Steady, Outer
    PROVE  Rest' /\ Single'
<1> USE DEF IInv
<1>1. UNCHANGED <<run, staging, library, crashes>>
    BY DEF Outer, files
<1>2. Carried' /\ Planned'
    BY <1>1 DEF Carried, Planned
<1>3. Anchored'
    BY <1>1 DEF Outer, Anchored, Steady
<1>4. FiledTaken'
    BY DEF Outer, FiledTaken, SameLabels, NoneFiled
<1>5. Beside'
    BY <1>1, ConstantsFact DEF Outer, SameLabels, Beside
<1>6. Labelled'
    <2>1. Sound' => Sound
        BY <1>1 DEF Outer, Sound
    <2>2. Moving' = Moving
        BY <1>1 DEF Moving
    <2>3. Sound' => Located'
        BY <1>1, <2>1, <2>2 DEF Outer, SameLabels, Labelled, Located
    <2>4. \A w \in Workers : \A m \in run[w].plan : m.of \in Resources
        BY RunFact DEF MoveEntry
    <2> QED BY <1>1, <2>1, <2>3, <2>4 DEF Outer, SameLabels, Labelled
<1>7. Single'
    BY <1>1 DEF Single
<1> QED BY <1>2, <1>3, <1>4, <1>5, <1>6, <1>7 DEF Rest

(* Only a job that is cut off at its commit strands what it was filing.    *)
LEMMA StrandedStep ==
    ASSUME IInv, NEW w \in Workers, Others(w), Kinds(w)
    PROVE  \/ Stranded' \subseteq Stranded /\ crashes' >= crashes
           \/ crashes' = crashes + 1 /\ Stranded' \subseteq Stranded \cup {run[w].cur}
<1> USE DEF IInv
<1>0. \A x \in Workers : x = w \/ (run[x].pc # "commit" /\ run'[x].pc # "commit")
    BY DEF Others, Rests
<1>1. CASE Resting(w)
    <2>1. SameLabels /\ UNCHANGED staging
        BY <1>1 DEF Resting, files
    <2>2. CASE crashes' = crashes + 1
        BY <1>0, <2>1, <2>2 DEF SameLabels, Stranded
    <2>3. CASE crashes' = crashes /\ run[w].pc # "commit"
        BY <1>0, <2>1, <2>3 DEF SameLabels, Stranded, TypeOK
    <2> QED BY <1>1, <2>2, <2>3 DEF Resting
<1>2. CASE Starting(w) \/ Verifying(w) \/ Replacing(w) \/ Planning(w)
           \/ Checking(w) \/ Renaming(w)
    <2>1. UNCHANGED <<row, staging, crashes>> /\ run[w].pc # "commit"
        BY <1>2 DEF Starting, Verifying, Replacing, Planning, Checking, Renaming, files
    <2> QED BY <1>0, <2>1 DEF Stranded, TypeOK
<1>3. CASE Relabelling(w)
    <2>1. /\ \A r \in Resources : row'[r].staged = row[r].staged
          /\ UNCHANGED <<staging, crashes>> /\ run[w].pc # "commit"
        BY <1>3, RunFact, RelabelledFact DEF Relabelling, files
    <2> QED BY <1>0, <2>1 DEF Stranded, TypeOK
<1>4. CASE Releasing(w)
    <2>1. /\ run[w].pc = "placed" /\ run'[w].pc = "commit" /\ run'[w].cur = run[w].cur
          /\ staging \ {run[w].cur} \subseteq staging'
          /\ UNCHANGED <<row, crashes>>
        BY <1>4 DEF Releasing, SameFile
    <2> QED BY <1>0, <2>1 DEF Stranded, TypeOK
<1>5. CASE Committing(w)
    <2>1. /\ run[w].pc = "commit" /\ run[w].cur \in Resources /\ run[w].dest \in Paths
          /\ row' = Filed(run[w].cur, run[w].dest) /\ UNCHANGED <<staging, crashes>>
        BY <1>5 DEF Committing, RunShape, Working, files
    <2>2. /\ ~row'[run[w].cur].staged
          /\ \A q \in Resources \ {run[w].cur} : row'[q] = row[q]
        BY <2>1, FiledFact
    <2> QED BY <1>0, <2>1, <2>2 DEF Stranded, TypeOK
<1> QED BY <1>1, <1>2, <1>3, <1>4, <1>5 DEF Kinds

LEMMA FewStrandedKeeps ==
    ASSUME IInv, TypeOK',
           \/ \E w \in Workers : Others(w) /\ Kinds(w)
           \/ Outer
    PROVE  FewStranded'
<1> USE DEF IInv
<1>1. PICK c : \/ Stranded' \subseteq Stranded /\ crashes' >= crashes
               \/ crashes' = crashes + 1 /\ Stranded' \subseteq Stranded \cup {c}
    <2>1. CASE Outer
        <3>1. SameLabels /\ UNCHANGED <<run, staging, crashes>>
            BY <2>1 DEF Outer, files
        <3> QED BY <3>1 DEF Stranded, SameLabels, TypeOK
    <2> QED BY <2>1, StrandedStep
<1>2. IsFiniteSet(Stranded) /\ Cardinality(Stranded) \in Nat
      /\ Cardinality(Stranded) <= crashes /\ crashes \in Int /\ crashes' \in Int
    BY FS_CardinalityType DEF FewStranded, TypeOK
<1>3. CASE Stranded' \subseteq Stranded /\ crashes' >= crashes
    <2>1. IsFiniteSet(Stranded') /\ Cardinality(Stranded') <= Cardinality(Stranded)
        BY <1>2, <1>3, FS_Subset
    <2>2. Cardinality(Stranded') \in Nat
        BY <2>1, FS_CardinalityType
    <2> QED BY <1>2, <1>3, <2>1, <2>2 DEF FewStranded
<1>4. CASE crashes' = crashes + 1 /\ Stranded' \subseteq Stranded \cup {c}
    <2> DEFINE more == Stranded \cup {c}
    <2>1. IsFiniteSet(more) /\ Cardinality(more) <= Cardinality(Stranded) + 1
        BY <1>2, FS_AddElement
    <2>2. Cardinality(more) \in Nat
        BY <2>1, FS_CardinalityType
    <2>3. IsFiniteSet(Stranded') /\ Cardinality(Stranded') <= Cardinality(more)
        BY <1>4, <2>1, FS_Subset
    <2>4. Cardinality(Stranded') \in Nat
        BY <2>3, FS_CardinalityType
    <2> HIDE DEF more
    <2> QED BY <1>2, <1>4, <2>1, <2>2, <2>3, <2>4 DEF FewStranded
<1> QED BY <1>1, <1>3, <1>4

LEMMA Inductive ==
    ASSUME IInv, Apart, Steady, [Next]_vars
    PROVE  IInv'
<1>1. Typed /\ ((\E w \in Workers : JobStep(w) /\ Kinds(w)) \/ Outer)
    BY StepKinds DEF IInv
<1>2. ASSUME NEW w \in Workers, JobStep(w), Kinds(w)
      PROVE  Rest' /\ Single' /\ Others(w)
    <2>1. Others(w) /\ Single'
        BY <1>2, AloneFact DEF IInv
    <2>2. Rest'
        BY <1>2, <2>1, RestingKeeps, HandlingKeeps, ReplacingKeeps, ReleasingKeeps,
           CommittingKeeps, PlanningKeeps, CheckingKeeps, RenamingKeeps,
           RelabellingKeeps DEF Kinds
    <2> QED BY <2>1, <2>2
<1>3. Rest' /\ Single'
    BY <1>1, <1>2, OuterKeeps
<1>4. FewStranded'
    BY <1>1, <1>2, FewStrandedKeeps DEF Typed
<1> QED BY <1>1, <1>3, <1>4 DEF IInv, Rest, Typed

LEMMA Start == Init => IInv
<1> SUFFICES ASSUME Init PROVE IInv
    OBVIOUS
<1>1. /\ row \in [Resources -> Row]
      /\ \A r \in Resources : row[r].staged /\ row[r].status # "filed"
    BY ConstantsFact DEF Init, Row, Status
<1>2. TypeOK
    BY <1>1, ConstantsFact, IdleFact DEF Init, TypeOK
<1>3. \A w \in Workers : run[w] = Idle /\ run[w].pc = "idle"
                         /\ run[w].plan = {} /\ run[w].moved = {}
    BY DEF Init, Idle
<1>4. RunShape /\ Carried /\ Planned /\ Beside
    BY <1>3 DEF RunShape, Carried, Planned, Beside, Working, FileJob
<1>5. Anchored /\ FiledTaken
    BY <1>1, <1>3 DEF Init, Anchored, FiledTaken, RefileJob
<1>6. Labelled
    BY <1>1, <1>3 DEF Labelled, Located
<1>7. Single
    BY <1>3 DEF Single, FileJob
<1>8. FewStranded
    <2>1. Stranded = {} /\ crashes = 0
        BY DEF Init, Stranded
    <2> QED BY <2>1, FS_EmptySet DEF FewStranded
<1> QED BY <1>2, <1>4, <1>5, <1>6, <1>7, <1>8 DEF IInv

-----------------------------------------------------------------------------
(* Each step is a step of custody.                                         *)
LEMMA CustodyStep ==
    ASSUME IInv, [Next]_vars
    PROVE  [Vault!Next]_(Vault!custodyVars)
<1> USE DEF IInv
<1>1. (\E w \in Workers : Kinds(w)) \/ Outer
    BY StepKinds
<1>2. CASE UNCHANGED files
    BY <1>2 DEF files, Vault!custodyVars
<1>3. ASSUME NEW w \in Workers, Replacing(w) PROVE Vault!Next
    <2>1. /\ run[w].cur \in Resources /\ run[w].dest \in Paths
          /\ run[w].cur \in staging /\ library[run[w].dest] = NoFile
        BY <1>3 DEF Replacing, RunShape, Working, Carried
    <2>2. Vault!Store(run[w].cur, run[w].dest)
        BY <1>3, <2>1 DEF Replacing, Vault!Store, Vault!Free
    <2> QED BY <2>1, <2>2 DEF Vault!Next
<1>4. ASSUME NEW w \in Workers, Releasing(w)
      PROVE  Vault!Next \/ UNCHANGED files
    <2>1. /\ run[w].cur \in Resources /\ run[w].dest \in Paths
          /\ library[run[w].dest] = run[w].cur
        BY <1>4 DEF Releasing, RunShape, Working, Carried
    <2>2. CASE staging' = staging
        BY <1>4, <2>2 DEF Releasing, files
    <2>3. CASE staging' = staging \ {run[w].cur}
        <3>1. Vault!Release(run[w].cur)
            BY <1>4, <2>1, <2>3 DEF Releasing, Vault!Release
        <3> QED BY <2>1, <3>1 DEF Vault!Next
    <2> QED BY <1>4, <2>2, <2>3 DEF Releasing
<1>5. ASSUME NEW w \in Workers, Renaming(w)
      PROVE  Vault!Next \/ UNCHANGED files
    <2>1. PICK m \in run[w].plan :
              /\ m \in MoveEntry /\ library[m.to] = NoFile
              /\ library' = IF m.from # NoPath /\ library[m.from] # NoFile
                            THEN [library EXCEPT ![m.to] = library[m.from],
                                                 ![m.from] = NoFile]
                            ELSE library
        BY <1>5, RenamingFact
    <2>2. m.to \in Paths /\ m.from \in Paths \cup {NoPath} /\ staging' = staging
        BY <1>5, <2>1 DEF MoveEntry, Renaming
    <2>3. CASE m.from # NoPath /\ library[m.from] # NoFile
        <3>1. Vault!Move(m.from, m.to)
            BY <2>1, <2>2, <2>3 DEF Vault!Move, Vault!Free
        <3> QED BY <2>2, <2>3, <3>1 DEF Vault!Next
    <2>4. CASE ~(m.from # NoPath /\ library[m.from] # NoFile)
        BY <2>1, <2>2, <2>4 DEF files
    <2> QED BY <2>3, <2>4
<1>6. ASSUME NEW w \in Workers, Kinds(w)
      PROVE  Vault!Next \/ UNCHANGED files
    BY <1>3, <1>4, <1>5, <1>6 DEF Kinds, Resting, Starting, Verifying, Committing,
                                  Planning, Checking, Relabelling
<1>7. Outer => UNCHANGED files
    BY DEF Outer
<1> QED BY <1>1, <1>2, <1>6, <1>7

-----------------------------------------------------------------------------
(* Custody itself: what its steps do to the files in its care.             *)
LEMMA CustodyTypes ==
    ASSUME Vault!TypeOK, [Vault!Next]_(Vault!custodyVars)
    PROVE  Vault!TypeOK'
<1> USE DEF Vault!TypeOK
<1>1. ASSUME NEW i \in Resources, Vault!Release(i)
      PROVE  Vault!TypeOK'
    BY <1>1 DEF Vault!Release
<1>2. ASSUME NEW i \in Resources, NEW p \in Paths, Vault!Store(i, p)
      PROVE  Vault!TypeOK'
    BY <1>2 DEF Vault!Store
<1>3. ASSUME NEW p \in Paths, NEW q \in Paths, Vault!Move(p, q)
      PROVE  Vault!TypeOK'
    BY <1>3 DEF Vault!Move
<1>4. CASE UNCHANGED Vault!custodyVars
    BY <1>4 DEF Vault!custodyVars
<1> QED BY <1>1, <1>2, <1>3, <1>4 DEF Vault!Next

(* What a step does to the library: each item in it stays in it.           *)
LEMMA LibraryStep ==
    ASSUME Vault!TypeOK, [Vault!Next]_(Vault!custodyVars), NEW p \in Paths, ~Vault!Free(p)
    PROVE  \E q \in Paths : library'[q] = library[p]
<1>1. CASE UNCHANGED library
    BY <1>1
<1>2. ASSUME NEW i \in Resources, NEW r \in Paths, Vault!Store(i, r)
      PROVE  \E q \in Paths : library'[q] = library[p]
    <2>1. p # r
        BY <1>2 DEF Vault!Store
    <2>2. library'[p] = library[p]
        BY <1>2, <2>1 DEF Vault!Store, Vault!TypeOK
    <2> QED BY <2>2
<1>3. ASSUME NEW r \in Paths, NEW q \in Paths, Vault!Move(r, q)
      PROVE  \E t \in Paths : library'[t] = library[p]
    <2>1. p # q
        BY <1>3 DEF Vault!Move
    <2>2. CASE p = r
        BY <1>3, <2>1, <2>2 DEF Vault!Move, Vault!TypeOK
    <2>3. CASE p # r
        BY <1>3, <2>1, <2>3 DEF Vault!Move, Vault!TypeOK
    <2> QED BY <2>2, <2>3
<1> QED BY <1>1, <1>2, <1>3 DEF Vault!Next, Vault!Release, Vault!custodyVars

LEMMA NothingLostStep ==
    ASSUME Vault!TypeOK, Vault!NothingLost, [Vault!Next]_(Vault!custodyVars)
    PROVE  Vault!NothingLost'
<1> SUFFICES ASSUME NEW i \in Resources
             PROVE  i \in staging' \/ \E p \in Paths : library'[p] = i
    BY DEF Vault!NothingLost
<1> NoFile \notin Resources
    BY ConstantsFact
<1>1. CASE \E p \in Paths : library[p] = i
    <2>1. PICK p \in Paths : library[p] = i
        BY <1>1
    <2>2. ~Vault!Free(p)
        BY <2>1 DEF Vault!Free
    <2> QED BY <2>1, <2>2, LibraryStep
<1>2. CASE i \in staging /\ ~\E p \in Paths : library[p] = i
    BY <1>2 DEF Vault!Next, Vault!Store, Vault!Release, Vault!Move, Vault!custodyVars
<1> QED BY <1>1, <1>2 DEF Vault!NothingLost

LEMMA CustodyTyped == Vault!Spec => []Vault!TypeOK
<1>1. Vault!Init => Vault!TypeOK
    BY DEF Vault!Init, Vault!TypeOK
<1>2. Vault!TypeOK /\ [Vault!Next]_(Vault!custodyVars) => Vault!TypeOK'
    BY CustodyTypes
<1> QED BY <1>1, <1>2, PTL DEF Vault!Spec

(* What implements Custody keeps the bytes of every item in staging or in  *)
(* the library.                                                            *)
THEOREM CustodyLosesNothing == Vault!Spec => []Vault!NothingLost
<1>1. Vault!Init => Vault!NothingLost
    BY DEF Vault!Init, Vault!NothingLost
<1>2. Vault!TypeOK /\ Vault!NothingLost /\ [Vault!Next]_(Vault!custodyVars) => Vault!NothingLost'
    BY NothingLostStep
<1> QED BY <1>1, <1>2, CustodyTyped, PTL DEF Vault!Spec

(* And a file of the library stays in it, where it is or elsewhere.        *)
THEOREM CustodyOverwritesNothing == Vault!Spec => Vault!NothingOverwritten
<1> DEFINE Kept == \A p \in Paths : ~Vault!Free(p) /\ library'[p] # library[p] =>
                       \E q \in Paths : library'[q] = library[p]
<1>1. Vault!TypeOK /\ [Vault!Next]_(Vault!custodyVars) => [Kept]_(Vault!custodyVars)
    BY LibraryStep
<1> QED BY CustodyTyped, <1>1, PTL DEF Vault!Spec, Vault!NothingOverwritten

-----------------------------------------------------------------------------
(* Every variable stays within its type, with any number of workers.       *)
THEOREM FilingTypeCorrect == Spec => []TypeOK
<1>1. Init => TypeOK /\ RunShape
    BY Start DEF IInv
<1>2. TypeOK /\ RunShape /\ [Next]_vars => TypeOK' /\ RunShape'
    BY StepKinds DEF Typed
<1> QED BY <1>1, <1>2, PTL DEF Spec

LEMMA Invariance ==
    ASSUME Apart, Steady
    PROVE  Spec => []IInv
<1>1. IInv /\ [Next]_vars => IInv'
    BY Inductive
<1> QED BY Start, <1>1, PTL DEF Spec

(* While file-resources and refile-all do not run at once, filing          *)
(* implements Custody: an item enters the library whole and at a free      *)
(* place, its staging file goes only when the library holds it, and files  *)
(* move only to free places.                                               *)
THEOREM FilingImplementsCustody ==
    ASSUME Apart, Steady
    PROVE  Spec => KeepsCustody
<1>1. Init => Vault!Init
    BY DEF Init, Vault!Init
<1>2. IInv /\ [Next]_vars => [Vault!Next]_(Vault!custodyVars)
    BY CustodyStep
<1> QED BY Invariance, <1>1, <1>2, PTL DEF Spec, KeepsCustody, Vault!Spec

(* So the bytes of every recording and sidecar are in staging or in the    *)
(* library, whatever crashes, refused commits, edits and requests come.    *)
THEOREM FilingLosesNothing ==
    ASSUME Apart, Steady
    PROVE  Spec => []Vault!NothingLost
<1> QED BY FilingImplementsCustody, CustodyLosesNothing, PTL DEF KeepsCustody

(* And no file of the library is overwritten (jobs/nas.py:19-20).          *)
THEOREM FilingNeverOverwrites ==
    ASSUME Apart, Steady
    PROVE  Spec => NeverOverwritten
<1> DEFINE Stays == \A p \in Paths :
                        library[p] # NoFile /\ library'[p] # library[p] =>
                            \E q \in Paths : library'[q] = library[p]
<1>1. ASSUME IInv, [Next]_vars PROVE Stays
    <2>1. [Vault!Next]_(Vault!custodyVars)
        BY <1>1, CustodyStep
    <2>2. library \in [Paths -> Resources \cup {NoFile}]
        BY <1>1 DEF IInv, TypeOK
    <2>3. CASE library' = library
        BY <2>3
    <2>4. ASSUME NEW i \in Resources, NEW p \in Paths, Vault!Store(i, p) PROVE Stays
        BY <2>2, <2>4 DEF Vault!Store, Vault!Free
    <2>5. ASSUME NEW p \in Paths, NEW q \in Paths, Vault!Move(p, q) PROVE Stays
        BY <2>2, <2>5 DEF Vault!Move, Vault!Free
    <2> QED BY <2>1, <2>3, <2>4, <2>5 DEF Vault!Next, Vault!Release, Vault!custodyVars
<1>2. IInv /\ [Next]_vars => [Stays]_vars
    BY <1>1
<1> QED BY Invariance, <1>2, PTL DEF Spec, NeverOverwritten

(* A row that has given up its staging file tells where in the library it  *)
(* is, and no row that has not has lost it, if refile_all has not been     *)
(* interrupted and no PATCH has called a recording filed that is not.      *)
THEOREM RefilingKeepsTrack ==
    ASSUME Apart, Steady
    PROVE  Spec => []RefileKeepsTrack
<1>1. IInv => RefileKeepsTrack
    BY DEF IInv, Labelled, Sound, FewStranded, RefileKeepsTrack, Tracked
<1> QED BY Invariance, <1>1, PTL

(* Where refile_all is not run, rows and library agree whatever is         *)
(* interrupted and with any number of workers, but for one row at most per *)
(* crash or refused commit: the one whose staging file was gone by then.   *)
THEOREM FilingKeepsTrack ==
    ASSUME "refile-all" \notin Scheduled
    PROVE  Spec => []Tracked
<1>1. IInv => Tracked
    BY DEF IInv, Labelled, Sound, FewStranded, Tracked
<1>2. Steady /\ Apart
    BY DEF Steady, Apart
<1> QED BY Invariance, <1>1, <1>2, PTL

(* A sidecar is filed in the folder its audio was filed to, whatever has   *)
(* been edited since.                                                      *)
THEOREM SidecarsGoWithAudio ==
    ASSUME Apart, Steady
    PROVE  Spec => SidecarsBesideAudio
<1> DEFINE Goes == \A s \in Sidecars :
               row[s].status = "attached" /\ row'[s].status = "filed" =>
                   /\ row[Parent[s]].nasPath # NoPath
                   /\ row'[s].nasPath[1] = row[Parent[s]].nasPath[1]
<1>1. ASSUME IInv, [Next]_vars PROVE Goes
    <2> SUFFICES ASSUME NEW s \in Sidecars,
                        row[s].status = "attached", row'[s].status = "filed"
                 PROVE  /\ row[Parent[s]].nasPath # NoPath
                        /\ row'[s].nasPath[1] = row[Parent[s]].nasPath[1]
        OBVIOUS
    <2>0. TypeOK
        BY <1>1 DEF IInv
    <2>1. s \in Resources /\ s \notin Recordings
        BY ConstantsFact
    <2>2. (\E w \in Workers : Kinds(w)) \/ Outer
        BY <1>1, StepKinds DEF IInv
    <2>3. ~UNCHANGED row /\ ~NoneFiled
        BY <2>1 DEF NoneFiled
    <2>4. \A w \in Workers : ~Relabelling(w)
        <3> SUFFICES ASSUME NEW w \in Workers, Relabelling(w) PROVE FALSE
            OBVIOUS
        <3>1. row'[s].status = row[s].status
            BY <1>1, <2>1, RunFact, RelabelledFact DEF Relabelling, IInv
        <3> QED BY <3>1
    <2>5. PICK w \in Workers : Committing(w)
        BY <2>2, <2>3, <2>4 DEF Outer, Kinds, Resting, Starting, Verifying, Replacing,
                                Releasing, Planning, Checking, Renaming
    <2>6. run[w].cur \in Resources /\ run[w].dest \in Paths /\ run[w].pc = "commit"
        BY <1>1, <2>5 DEF Committing, IInv, RunShape, Working
    <2>7. s = run[w].cur /\ row'[s].nasPath = run[w].dest
        <3> DEFINE new == Filed(run[w].cur, run[w].dest)
        <3>1. /\ new[run[w].cur].nasPath = run[w].dest
              /\ \A q \in Resources \ {run[w].cur} : new[q] = row[q]
            BY <2>0, <2>6, FiledFact
        <3>2. row' = new
            BY <2>5 DEF Committing
        <3> HIDE DEF new
        <3>3. s = run[w].cur
            BY <2>1, <3>1, <3>2
        <3> QED BY <3>1, <3>2, <3>3
    <2> QED BY <1>1, <2>6, <2>7 DEF IInv, Beside, Working
<1>2. IInv /\ [Next]_vars => [Goes]_vars
    BY <1>1
<1> QED BY Invariance, <1>2, PTL DEF Spec, SidecarsBesideAudio

=============================================================================

--------------------------- MODULE RenditionsProofs ---------------------------
(***************************************************************************)
(* Safety of what is made of recordings, exports and previews, for any     *)
(* recordings, clips, windows, exports and ages, any edits and requests    *)
(* and any faults.                                                         *)
(*                                                                         *)
(* Of Exports: the types, and that a finished export is what was asked     *)
(* for.  Of Previews, under the name Cache: the types, that a marked file  *)
(* is there, and that a run leaves alone what has failed.                  *)
(***************************************************************************)
EXTENDS Exports, TLAPS

CONSTANTS Age, Filed, MaxRequests

VARIABLES marked, error, cache, row, disk, run, regen, heal, requests, crossed

Cache == INSTANCE Previews WITH job <- run

-----------------------------------------------------------------------------
(* Exports                                                                 *)

(* What the job is at: the exports it still has to do are queued, the one  *)
(* it does is running.                                                     *)
JobShape ==
    /\ job.pc \in {"idle", "next"} <=> job.cur = None
    /\ \A e \in job.todo : status[e] = "queued"
    /\ job.cur # None => status[job.cur] = "running"
    /\ job.pc \in {"encode", "save"} => job.what \in Content /\ job.to \in Paths

(* An export that has not been read yet still has the clip it was asked    *)
(* for, or is known to have lost it; a clip it has is there, and has one   *)
(* of the windows on record.                                               *)
Marked ==
    /\ \A e \in Jobs : clip[e] # None => window[clip[e]] # None
    /\ \A e \in Jobs \ orphaned :
           status[e] = "queued" \/ (job.pc = "open" /\ job.cur = e) =>
               clip[e] = Asked[e].clip /\ (clip[e] # None => window[clip[e]] \in had[e])

(* Content w is what export e asked for.                                   *)
Fits(w, e) ==
    /\ w.of = Asked[e].of /\ w.format = Asked[e].format
    /\ w.window \in (IF Asked[e].clip = None THEN {Whole} ELSE had[e])

(* What is being rendered is what was asked for; once it is done it is the *)
(* file at its path, and every finished export that had that file is known *)
(* to have lost it.                                                        *)
Rendering ==
    job.pc \in {"encode", "save"} =>
        /\ job.cur \notin orphaned => Fits(job.what, job.cur)
        /\ job.pc = "save" => files[job.to] = job.what
        /\ \A e \in Jobs : status[e] = "success" /\ path[e] = job.to => e \in spoilt

(* A finished export has a path.                                           *)
Finished == \A e \in Jobs : status[e] = "success" => path[e] \in Paths

IInv == TypeOK /\ JobShape /\ Marked /\ Rendering /\ Finished /\ DownloadFits

-----------------------------------------------------------------------------
(* The values the job is given.                                            *)
LEMMA IdleFact == Idle \in Job /\ Idle.pc = "idle" /\ Idle.cur = None /\ Idle.todo = {}
  BY DEF Idle, Job

LEMMA FreshFact ==
    ASSUME NEW todo \in SUBSET Jobs
    PROVE  LET fresh == [Idle EXCEPT !.pc = "next", !.todo = todo]
           IN  /\ fresh \in Job
               /\ fresh.pc = "next" /\ fresh.cur = None /\ fresh.todo = todo
<1> DEFINE next == [Idle EXCEPT !.pc = "next"]
           fresh == [next EXCEPT !.todo = todo]
<1>1. next \in Job /\ next.pc = "next" /\ next.cur = None
  BY IdleFact DEF Job
<1> HIDE DEF next
<1>2. fresh \in Job /\ fresh.pc = "next" /\ fresh.cur = None /\ fresh.todo = todo
  BY <1>1 DEF Job
<1> QED
  BY <1>2 DEF next

LEMMA WhatFact ==
    ASSUME ExportsAssumption, TypeOK, Marked, NEW e \in Jobs
    PROVE  LET q == Asked[e]
               w == [of |-> q.of, window |-> Window(e), format |-> q.format]
           IN  /\ w \in Content
               /\ PathOf(q, w.window) \in Paths
               /\ e \notin orphaned /\ job.pc = "open" /\ job.cur = e => Fits(w, e)
<1>1. Asked[e] \in Requests
  BY DEF ExportsAssumption
<1>2. Window(e) \in Windows \cup {Whole}
  BY DEF Marked, Window, TypeOK
<1>3. e \notin orphaned /\ job.pc = "open" /\ job.cur = e =>
          Window(e) \in (IF Asked[e].clip = None THEN {Whole} ELSE had[e])
  BY DEF Marked, Window
<1> QED
  BY <1>1, <1>2, <1>3 DEF Content, Requests, Paths, Fits

LEMMA BoundFact ==
    ASSUME ExportsAssumption, TypeOK
    PROVE  /\ Fault => faults' \in 0 .. MaxFaults
           /\ Edit => edits' \in 0 .. MaxEdits
<1>1. MaxFaults \in Nat /\ MaxEdits \in Nat
  BY DEF ExportsAssumption
<1> QED
  BY <1>1 DEF TypeOK, Fault, Edit

LEMMA TypeStep ==
    ASSUME ExportsAssumption, TypeOK, JobShape, Marked, [Next]_vars
    PROVE  TypeOK'
<1> USE DEF TypeOK
<1>1. ASSUME NEW e \in Jobs, Ask(e)
      PROVE  TypeOK'
  <2>1. Asked[e].clip \in Clips \cup {None}
    BY DEF ExportsAssumption, Requests
  <2>2. Asked[e].clip # None => window[Asked[e].clip] \in Windows
    BY <1>1, <2>1 DEF Ask
  <2>3. had' \in [Jobs -> SUBSET Windows]
    BY <1>1, <2>2 DEF Ask
  <2>4. QED
    BY <1>1, <2>1, <2>3 DEF Ask, output
<1>2. ASSUME NEW c \in Clips, DeleteClip(c)
      PROVE  TypeOK'
  BY <1>2, BoundFact DEF DeleteClip, Waiting, output
<1>3. ASSUME NEW c \in Clips, NEW w \in Windows, MoveClip(c, w)
      PROVE  TypeOK'
  BY <1>3, BoundFact DEF MoveClip, output
<1>4. CASE Begin
  BY <1>4, FreshFact DEF Begin, marker, output
<1>5. CASE End
  BY <1>5, IdleFact DEF End, marker, output
<1>6. CASE Open
  <2>1. job.cur \in Jobs
    BY <1>6 DEF Open, JobShape, Job
  <2>2. PICK w \in Content, p \in Paths :
            /\ job' = [job EXCEPT !.pc = "encode", !.what = w, !.to = p]
            /\ files' = [files EXCEPT ![p] = Partial]
    BY <1>6, <2>1, WhatFact DEF Open
  <2>3. job' \in Job
    BY <2>2 DEF Job
  <2>4. spoilt' \subseteq Jobs
    BY <1>6 DEF Open
  <2>5. QED
    BY <1>6, <2>2, <2>3, <2>4 DEF Open, marker
<1>7. CASE OpenOffNas
  BY <1>7, IdleFact DEF OpenOffNas, marker, output, JobShape, Job
<1>8. CASE Encoded
  <2>1. job.what \in Content /\ job.to \in Paths
    BY <1>8 DEF Encoded, JobShape
  <2>2. job' \in Job
    BY <1>8 DEF Encoded, Job
  <2>3. QED
    BY <1>8, <2>1, <2>2 DEF Encoded, marker
<1>9. CASE RenderFails
  <2>1. job.todo \in SUBSET Jobs
    BY DEF Job
  <2>2. QED
    BY <1>9, <2>1, FreshFact, BoundFact DEF RenderFails, marker, output
<1>10. CASE Save
  <2>1. job.todo \in SUBSET Jobs /\ job.to \in Paths
    BY <1>10 DEF Save, Job, JobShape
  <2>2. QED
    BY <1>10, <2>1, FreshFact DEF Save, marker
<1>11. ASSUME NEW e \in job.todo, Start(e)
       PROVE  TypeOK'
  <2>1. e \in Jobs
    BY DEF Job
  <2>2. job' \in Job
    BY <1>11, <2>1 DEF Start, Job
  <2>3. QED
    BY <1>11, <2>1, <2>2 DEF Start, marker, output
<1>12. CASE Kill
  <2>1. job.cur \in Jobs \cup {None}
    BY DEF Job
  <2>2. QED
    BY <1>12, <2>1, IdleFact, BoundFact DEF Kill, marker, output
<1>13. ASSUME NEW r \in Resources, FileAudio(r)
       PROVE  TypeOK'
  BY <1>13 DEF FileAudio, marker, output
<1>14. CASE Unmount
  BY <1>14, BoundFact DEF Unmount, marker, output
<1>15. CASE Mount
  BY <1>15 DEF Mount, marker, output
<1>16. CASE UNCHANGED vars
  BY <1>16 DEF vars
<1>17. QED
  BY <1>1, <1>2, <1>3, <1>4, <1>5, <1>6, <1>7, <1>8, <1>9, <1>10, <1>11, <1>12, <1>13,
     <1>14, <1>15, <1>16 DEF Next, JobStep

LEMMA JobShapeStep ==
    ASSUME ExportsAssumption, TypeOK, JobShape, Marked, [Next]_vars
    PROVE  JobShape'
<1> USE DEF JobShape
<1>0. job \in Job /\ None \notin Jobs
  BY DEF TypeOK, ExportsAssumption
<1>1. ASSUME NEW e \in Jobs, Ask(e)
      PROVE  JobShape'
  BY <1>0, <1>1 DEF Ask, TypeOK, Job
<1>2. CASE Begin
  <2>1. {e \in Jobs : status[e] = "queued"} \in SUBSET Jobs
    OBVIOUS
  <2>2. job'.pc = "next" /\ job'.cur = None /\ job'.todo = {e \in Jobs : status[e] = "queued"}
    BY <1>2, <2>1, FreshFact DEF Begin
  <2>3. QED
    BY <1>2, <2>2 DEF Begin
<1>3. CASE End \/ OpenOffNas \/ Kill
  BY <1>3, IdleFact DEF End, OpenOffNas, Kill
<1>4. CASE Open
  <2>1. job.cur \in Jobs
    BY <1>0, <1>4 DEF Open, Job
  <2>2. PICK w \in Content, p \in Paths :
            job' = [job EXCEPT !.pc = "encode", !.what = w, !.to = p]
    BY <1>4, <2>1, WhatFact DEF Open
  <2>3. QED
    BY <1>0, <1>4, <2>1, <2>2 DEF Open, Job
<1>5. CASE Encoded
  BY <1>0, <1>5 DEF Encoded, Job
<1>6. CASE RenderFails \/ Save
  <2>1. job.todo \in SUBSET Jobs /\ job.cur \in Jobs
    BY <1>0, <1>6 DEF RenderFails, Save, Job
  <2>2. \A e \in job.todo : status'[e] = "queued"
    BY <1>6, <2>1 DEF RenderFails, Save, TypeOK
  <2>3. job' = [Idle EXCEPT !.pc = "next", !.todo = job.todo]
    BY <1>6 DEF RenderFails, Save
  <2>4. job'.pc = "next" /\ job'.cur = None /\ job'.todo = job.todo
    BY <2>1, <2>3, FreshFact
  <2>5. QED
    BY <2>2, <2>4
<1>7. ASSUME NEW e \in job.todo, Start(e)
      PROVE  JobShape'
  BY <1>0, <1>7 DEF Start, Job, TypeOK
<1>8. CASE UNCHANGED <<job, status>>
  BY <1>8
<1>9. QED
  BY <1>1, <1>2, <1>3, <1>4, <1>5, <1>6, <1>7, <1>8
     DEF Next, JobStep, DeleteClip, MoveClip, FileAudio, Unmount, Mount, vars

LEMMA MarkedStep ==
    ASSUME ExportsAssumption, TypeOK, JobShape, Marked, [Next]_vars
    PROVE  Marked'
<1> USE DEF Marked
<1>0. job \in Job /\ None \notin Jobs /\ None \notin Windows
  BY DEF TypeOK, ExportsAssumption
<1>1. ASSUME NEW e \in Jobs, Ask(e)
      PROVE  Marked'
  <2>1. \A f \in Jobs \ {e} : status'[f] = status[f] /\ clip'[f] = clip[f] /\ had'[f] = had[f]
    BY <1>1 DEF Ask, TypeOK
  <2>2. clip'[e] = Asked[e].clip /\ (clip'[e] # None => window[clip'[e]] # None /\ window[clip'[e]] \in had'[e])
    BY <1>1 DEF Ask, TypeOK
  <2>3. QED
    BY <1>1, <2>1, <2>2 DEF Ask
<1>2. ASSUME NEW c \in Clips, DeleteClip(c)
      PROVE  Marked'
  BY <1>2 DEF DeleteClip, Waiting, TypeOK
<1>3. ASSUME NEW c \in Clips, NEW w \in Windows, MoveClip(c, w)
      PROVE  Marked'
  <2>1. /\ \A d \in Clips : window'[d] = IF d = c THEN w ELSE window[d]
        /\ \A e \in Jobs : had'[e] = IF e \in Waiting(c) THEN had[e] \cup {w} ELSE had[e]
        /\ UNCHANGED <<clip, status, job, orphaned>>
    BY <1>3 DEF MoveClip, TypeOK
  <2>2. \A e \in Jobs : clip[e] \in Clips \cup {None}
    BY DEF TypeOK
  <2>3. \A e \in Jobs : clip[e] # None => window'[clip[e]] # None
    BY <1>0, <2>1, <2>2
  <2>4. ASSUME NEW e \in Jobs \ orphaned,
               status[e] = "queued" \/ (job.pc = "open" /\ job.cur = e)
        PROVE  clip[e] = Asked[e].clip /\ (clip[e] # None => window'[clip[e]] \in had'[e])
    <3>1. clip[e] = Asked[e].clip /\ (clip[e] # None => window[clip[e]] \in had[e])
      BY <2>4
    <3>2. clip[e] = c => e \in Waiting(c)
      BY <2>4 DEF Waiting
    <3>3. QED
      BY <2>1, <2>2, <3>1, <3>2
  <2>5. QED
    BY <2>1, <2>3, <2>4
<1>4. ASSUME NEW e \in job.todo, Start(e)
      PROVE  Marked'
  <2>1. e \in Jobs /\ status[e] = "queued"
    BY <1>0 DEF Job, JobShape
  <2>2. job'.pc = "open" /\ job'.cur = e /\ status' = [status EXCEPT ![e] = "running"]
    BY <1>0, <1>4 DEF Start, Job
  <2>3. QED
    BY <1>4, <2>1, <2>2 DEF Start, marker, TypeOK
<1>5. CASE Begin
  <2>1. {e \in Jobs : status[e] = "queued"} \in SUBSET Jobs
    OBVIOUS
  <2>2. job' = [Idle EXCEPT !.pc = "next", !.todo = {e \in Jobs : status[e] = "queued"}]
    BY <1>5 DEF Begin
  <2>3. job'.pc = "next"
    BY <2>1, <2>2, FreshFact
  <2>4. QED
    BY <1>5, <2>3 DEF Begin, marker
<1>6. CASE End \/ OpenOffNas \/ Kill
  BY <1>6, IdleFact DEF End, OpenOffNas, Kill, marker
<1>7. CASE Open \/ Encoded
  <2>1. job'.pc \in {"encode", "save"}
    BY <1>0, <1>7 DEF Open, Encoded, Job
  <2>2. QED
    BY <1>7, <2>1 DEF Open, Encoded, marker
<1>8. CASE RenderFails \/ Save
  <2>1. job.todo \in SUBSET Jobs /\ job.cur \in Jobs
    BY <1>0, <1>8 DEF RenderFails, Save, Job, JobShape
  <2>2. job' = [Idle EXCEPT !.pc = "next", !.todo = job.todo]
    BY <1>8 DEF RenderFails, Save
  <2>3. job'.pc = "next"
    BY <2>1, <2>2, FreshFact
  <2>4. \A e \in Jobs : status'[e] = "queued" => status[e] = "queued"
    BY <1>8, <2>1 DEF RenderFails, Save, TypeOK
  <2>5. QED
    BY <1>8, <2>3, <2>4 DEF RenderFails, Save, marker
<1>9. CASE UNCHANGED <<job, status, marker>>
  BY <1>9 DEF marker
<1>10. QED
  BY <1>1, <1>2, <1>3, <1>4, <1>5, <1>6, <1>7, <1>8, <1>9
     DEF Next, JobStep, FileAudio, Unmount, Mount, vars, marker

LEMMA RenderingStep ==
    ASSUME ExportsAssumption, TypeOK, JobShape, Marked, Rendering, Finished, [Next]_vars
    PROVE  Rendering'
<1> USE DEF Rendering
<1>0. job \in Job /\ None \notin Jobs
  BY DEF TypeOK, ExportsAssumption
<1>1. ASSUME NEW e \in Jobs, Ask(e)
      PROVE  Rendering'
  <2>1. \A f \in Jobs : status'[f] = "success" => status[f] = "success"
    BY <1>1 DEF Ask, TypeOK
  <2>2. job.cur \in Jobs => had'[job.cur] = had[job.cur]
    <3>1. job.cur \in Jobs => job.cur # e
      BY <1>0, <1>1 DEF Ask, JobShape
    <3>2. QED
      BY <1>1, <3>1 DEF Ask, TypeOK
  <2>3. job.cur # None => job.cur \in Jobs
    BY <1>0 DEF Job
  <2>4. job.pc \in {"encode", "save"} => job.cur \in Jobs
    BY <2>3 DEF JobShape
  <2>5. QED
    BY <1>1, <2>1, <2>2, <2>4 DEF Ask, output, Fits
<1>2. ASSUME NEW e \in job.todo, Start(e)
      PROVE  Rendering'
  BY <1>0, <1>2 DEF Start, Job
<1>3. CASE Open
  <2> DEFINE q == Asked[job.cur]
             w == [of |-> q.of, window |-> Window(job.cur), format |-> q.format]
             p == PathOf(q, w.window)
  <2>1. job.cur \in Jobs
    BY <1>0, <1>3 DEF Open, JobShape, Job
  <2>2. /\ job' = [job EXCEPT !.pc = "encode", !.what = w, !.to = p]
        /\ files' = [files EXCEPT ![p] = Partial]
        /\ spoilt' = spoilt \cup {f \in Jobs : status[f] = "success" /\ path[f] = p}
        /\ UNCHANGED <<status, path, orphaned, had>>
    BY <1>3 DEF Open, marker
  <2>3. p \in Paths /\ (job.cur \notin orphaned => Fits(w, job.cur))
    BY <1>3, <2>1, WhatFact DEF Open
  <2> HIDE DEF q, w, p
  <2>4. job'.pc = "encode" /\ job'.what = w /\ job'.to = p /\ job'.cur = job.cur
    BY <1>0, <2>2 DEF Job
  <2>5. QED
    BY <2>2, <2>3, <2>4 DEF Fits
<1>4. CASE Encoded
  <2>1. job.what \in Content /\ job.to \in Paths
    BY <1>4 DEF Encoded, JobShape
  <2>2. job'.pc = "save" /\ job'.cur = job.cur /\ job'.what = job.what /\ job'.to = job.to
    BY <1>0, <1>4 DEF Encoded, Job
  <2>3. files'[job.to] = job.what
    BY <1>4, <2>1 DEF Encoded, TypeOK
  <2>4. QED
    BY <1>4, <2>2, <2>3 DEF Encoded, marker, Fits
<1>5. CASE Begin
  <2>1. {e \in Jobs : status[e] = "queued"} \in SUBSET Jobs
    OBVIOUS
  <2>2. job' = [Idle EXCEPT !.pc = "next", !.todo = {e \in Jobs : status[e] = "queued"}]
    BY <1>5 DEF Begin
  <2>3. QED
    BY <2>1, <2>2, FreshFact
<1>6. CASE End \/ OpenOffNas \/ Kill
  BY <1>6, IdleFact DEF End, OpenOffNas, Kill
<1>7. CASE RenderFails \/ Save
  <2>1. job.todo \in SUBSET Jobs
    BY <1>0 DEF Job
  <2>2. job' = [Idle EXCEPT !.pc = "next", !.todo = job.todo]
    BY <1>7 DEF RenderFails, Save
  <2>3. QED
    BY <2>1, <2>2, FreshFact
<1>8. ASSUME UNCHANGED <<job, status, output>>, orphaned \subseteq orphaned',
             \A e \in Jobs : had[e] \subseteq had'[e]
      PROVE  Rendering'
  <2>1. job.pc \in {"encode", "save"} => job.cur \in Jobs
    BY <1>0 DEF Job, JobShape
  <2>2. QED
    BY <1>8, <2>1 DEF output, Fits
<1>9. ASSUME NEW c \in Clips, NEW w \in Windows, MoveClip(c, w)
      PROVE  Rendering'
  BY <1>8, <1>9 DEF MoveClip, TypeOK
<1>10. CASE \E c \in Clips : DeleteClip(c)
  BY <1>8, <1>10 DEF DeleteClip
<1>11. QED
  BY <1>1, <1>2, <1>3, <1>4, <1>5, <1>6, <1>7, <1>8, <1>9, <1>10
     DEF Next, JobStep, FileAudio, Unmount, Mount, vars, marker, output

LEMMA FinishedStep ==
    ASSUME ExportsAssumption, TypeOK, JobShape, Finished, [Next]_vars
    PROVE  Finished'
<1> USE DEF Finished
<1>1. ASSUME NEW e \in Jobs, Ask(e)
      PROVE  Finished'
  BY <1>1 DEF Ask, output, TypeOK
<1>2. ASSUME NEW e \in job.todo, Start(e)
      PROVE  Finished'
  BY <1>2 DEF Start, output, TypeOK
<1>3. CASE RenderFails
  BY <1>3 DEF RenderFails, output, TypeOK
<1>4. CASE Save
  BY <1>4 DEF Save, JobShape, TypeOK
<1>5. CASE UNCHANGED <<status, path>>
  BY <1>5
<1>6. QED
  BY <1>1, <1>2, <1>3, <1>4, <1>5
     DEF Next, JobStep, Begin, End, Open, OpenOffNas, Encoded, Kill, MoveClip, DeleteClip,
         FileAudio, Unmount, Mount, vars, output

LEMMA DownloadFitsStep ==
    ASSUME ExportsAssumption, IInv, [Next]_vars
    PROVE  DownloadFits'
<1> USE DEF DownloadFits
<1>0. /\ job \in Job /\ None \notin Jobs
      /\ TypeOK /\ JobShape /\ Marked /\ Rendering /\ Finished
  BY DEF IInv, TypeOK, ExportsAssumption
<1>00. DownloadFits
  BY DEF IInv
<1>1. ASSUME NEW e \in Jobs, Ask(e)
      PROVE  DownloadFits'
  <2>1. \A f \in Jobs : status'[f] = "success" => status[f] = "success" /\ had'[f] = had[f]
    BY <1>0, <1>1 DEF Ask, TypeOK
  <2>2. QED
    BY <1>00, <1>1, <2>1 DEF Ask, output
<1>2. ASSUME NEW e \in job.todo, Start(e)
      PROVE  DownloadFits'
  BY <1>0, <1>00, <1>2 DEF Start, marker, output, TypeOK
<1>3. CASE Open
  <2>1. job.cur \in Jobs
    BY <1>0, <1>3 DEF Open, JobShape, Job
  <2>2. PICK p \in Paths :
            /\ files' = [files EXCEPT ![p] = Partial]
            /\ spoilt' = spoilt \cup {f \in Jobs : status[f] = "success" /\ path[f] = p}
    BY <1>0, <1>3, <2>1, WhatFact DEF Open
  <2>3. \A e \in Jobs \ spoilt' : status[e] = "success" =>
                             path[e] # p /\ path[e] \in Paths /\ e \notin spoilt
    BY <1>0, <2>2 DEF Finished
  <2>4. \A o \in Paths : o # p => files'[o] = files[o]
    BY <1>0, <2>2 DEF TypeOK
  <2>5. QED
    BY <1>00, <1>3, <2>3, <2>4 DEF Open, marker
<1>4. CASE Encoded
  <2>1. \A e \in Jobs \ spoilt : status[e] = "success" =>
                             path[e] # job.to /\ path[e] \in Paths
    BY <1>0, <1>4 DEF Encoded, Finished, Rendering
  <2>2. \A o \in Paths : o # job.to => files'[o] = files[o]
    BY <1>0, <1>4 DEF Encoded, TypeOK
  <2>3. QED
    BY <1>00, <1>4, <2>1, <2>2 DEF Encoded, marker
<1>5. CASE RenderFails
  BY <1>0, <1>00, <1>5 DEF RenderFails, marker, output, TypeOK
<1>6. CASE Save
  <2>1. /\ job.cur \in Jobs /\ files[job.to] = job.what /\ job.what \in Content
        /\ job.cur \notin orphaned => Fits(job.what, job.cur)
    BY <1>0, <1>6 DEF Save, JobShape, Rendering, Job
  <2>2. QED
    BY <1>0, <1>00, <1>6, <2>1 DEF Save, TypeOK, marker, Fits
<1>7. ASSUME UNCHANGED <<status, output>>, orphaned \subseteq orphaned',
             \A e \in Jobs : had[e] \subseteq had'[e]
      PROVE  DownloadFits'
  BY <1>00, <1>7 DEF output
<1>8. ASSUME NEW c \in Clips, NEW w \in Windows, MoveClip(c, w)
      PROVE  DownloadFits'
  BY <1>0, <1>7, <1>8 DEF MoveClip, TypeOK
<1>9. CASE \E c \in Clips : DeleteClip(c)
  BY <1>7, <1>9 DEF DeleteClip
<1>10. QED
  BY <1>1, <1>2, <1>3, <1>4, <1>5, <1>6, <1>7, <1>8, <1>9
     DEF Next, JobStep, Begin, End, OpenOffNas, Kill, FileAudio, Unmount, Mount, vars, marker,
         output

LEMMA InitInvariant ==
    ASSUME ExportsAssumption, Init
    PROVE  IInv
<1>1. MaxEdits \in Nat /\ MaxFaults \in Nat
  BY DEF ExportsAssumption
<1>2. TypeOK
  BY <1>1, IdleFact DEF Init, TypeOK
<1>3. JobShape /\ Marked /\ Rendering /\ Finished /\ DownloadFits
  BY IdleFact DEF Init, JobShape, Marked, Rendering, Finished, DownloadFits, ExportsAssumption
<1>4. QED
  BY <1>2, <1>3 DEF IInv

LEMMA StepInvariant ==
    ASSUME ExportsAssumption, IInv, [Next]_vars
    PROVE  IInv'
<1>1. TypeOK /\ JobShape /\ Marked /\ Rendering /\ Finished
  BY DEF IInv
<1>2. TypeOK' /\ JobShape' /\ Marked'
  BY <1>1, TypeStep, JobShapeStep, MarkedStep
<1>3. Rendering' /\ Finished' /\ DownloadFits'
  BY <1>1, RenderingStep, FinishedStep, DownloadFitsStep
<1>4. QED
  BY <1>2, <1>3 DEF IInv

-----------------------------------------------------------------------------
(* Whatever is asked for, edited, killed or unmounted, rows, files and job *)
(* keep their types: the job only ever has paths of the exports directory  *)
(* and contents of recordings that exist.                                  *)
THEOREM ExportsTypeCorrect ==
    ASSUME ExportsAssumption
    PROVE  Spec => []TypeOK
<1>1. Init => IInv
  BY InitInvariant
<1>2. IInv /\ [Next]_vars => IInv'
  BY StepInvariant
<1>3. IInv => TypeOK
  BY DEF IInv
<1>4. QED
  BY <1>1, <1>2, <1>3, PTL DEF Spec

(* An export that says success has what it was asked for at its path: the  *)
(* recording, the format, and the whole or a window its clip had before it *)
(* was rendered; unless the clip was deleted before that, or a later       *)
(* export has written over it (process_exports, _run_one_export).          *)
THEOREM FinishedExportsFit ==
    ASSUME ExportsAssumption
    PROVE  Spec => []DownloadFits
<1>1. Init => IInv
  BY InitInvariant
<1>2. IInv /\ [Next]_vars => IInv'
  BY StepInvariant
<1>3. IInv => DownloadFits
  BY DEF IInv
<1>4. QED
  BY <1>1, <1>2, <1>3, PTL DEF Spec

-----------------------------------------------------------------------------
(* Previews                                                                *)

(* A run at work has a recording, and nothing on its list has failed; what *)
(* it has made and not marked yet is in the cache, unless it was thrown    *)
(* away since.                                                             *)
Working ==
    /\ run.pc \in {"make", "made"} =>
           run.cur \in Resources /\ run.needs \cap error[run.cur] = {}
    /\ run.pc = "made" => /\ run.kind \in run.needs
                          /\ run.cur \notin crossed => run.kind \in cache[run.cur]

(* What was marked since a regenerate request has deleted the files was    *)
(* made since.                                                             *)
MadeSince ==
    regen # None /\ regen.of \notin crossed =>
        marked[regen.of] \ regen.marked \subseteq cache[regen.of]

CacheInv == Cache!TypeOK /\ Working /\ MadeSince /\ Cache!MarkedHasFile

-----------------------------------------------------------------------------
(* The values the run is given at its ends and at its start.               *)
LEMMA CacheIdle == Cache!Idle \in Cache!Job /\ Cache!Idle.pc = "idle"
  BY DEF Cache!Idle, Cache!Job

LEMMA CacheStart ==
    ASSUME Cache!TypeOK, Cache!Begin
    PROVE  run' \in Cache!Job /\ run'.pc = "pick"
<1> DEFINE pick == [Cache!Idle EXCEPT !.pc = "pick"]
           ok == [pick EXCEPT !.nasOk = mounted]
           todo == {r \in Resources : Cache!Needs(r) # {}}
<1>1. pick \in Cache!Job /\ pick.pc = "pick"
  BY CacheIdle DEF Cache!Job
<1> HIDE DEF pick
<1>2. ok \in Cache!Job /\ ok.pc = "pick"
  BY <1>1 DEF Cache!Job, Cache!TypeOK
<1> HIDE DEF ok
<1>3. todo \in SUBSET Resources
  OBVIOUS
<1> HIDE DEF todo
<1>4. [ok EXCEPT !.todo = todo] \in Cache!Job /\ [ok EXCEPT !.todo = todo].pc = "pick"
  BY <1>2, <1>3 DEF Cache!Job
<1>5. run' = [ok EXCEPT !.todo = todo]
  BY DEF Cache!Begin, ok, pick, todo
<1>6. QED
  BY <1>4, <1>5

LEMMA CacheBound ==
    ASSUME Cache!PreviewsAssumption, Cache!TypeOK
    PROVE  /\ Cache!Fault => faults' \in 0 .. MaxFaults
           /\ Cache!Request => requests' \in 0 .. MaxRequests
<1>1. MaxFaults \in Nat /\ MaxRequests \in Nat
  BY DEF Cache!PreviewsAssumption
<1> QED
  BY <1>1 DEF Cache!TypeOK, Cache!Fault, Cache!Request

(* What the two requests that are under way hold.                          *)
LEMMA RequestFact ==
    ASSUME Cache!TypeOK
    PROVE  /\ regen # None => regen.of \in Resources
           /\ heal # None => heal[1] \in Resources
  BY DEF Cache!TypeOK

LEMMA CacheTypeStep ==
    ASSUME Cache!PreviewsAssumption, Cache!TypeOK, Working, [Cache!Next]_Cache!vars
    PROVE  Cache!TypeOK'
<1> USE DEF Cache!TypeOK
<1>0. run \in Cache!Job
  OBVIOUS
<1>1. CASE Cache!Begin
  BY <1>1, CacheStart DEF Cache!Begin, Cache!table, Cache!audio, Cache!bounds
<1>2. CASE Cache!Stop
  BY <1>2, CacheIdle DEF Cache!Stop, Cache!table, Cache!audio, Cache!bounds
<1>3. ASSUME NEW r \in run.todo, Cache!Skip(r)
      PROVE  Cache!TypeOK'
  <2>1. run' \in Cache!Job
    BY <1>0, <1>3 DEF Cache!Skip, Cache!Job
  <2>2. QED
    BY <1>3, <2>1 DEF Cache!Skip, Cache!table, Cache!audio, Cache!bounds
<1>4. ASSUME NEW r \in run.todo, Cache!Missing(r)
      PROVE  Cache!TypeOK'
  <2>1. run' \in Cache!Job
    BY <1>0, <1>4 DEF Cache!Missing, Cache!Job
  <2>2. error' \in [Resources -> SUBSET Cache!Kinds]
    BY <1>4 DEF Cache!Missing
  <2>3. QED
    BY <1>4, <2>1, <2>2 DEF Cache!Missing, Cache!audio, Cache!bounds
<1>5. ASSUME NEW r \in run.todo, Cache!Pick(r)
      PROVE  Cache!TypeOK'
  <2>1. r \in Resources /\ Cache!Needs(r) \subseteq Cache!Kinds /\ row[r] \in {"staging", "nas"}
    BY <1>0 DEF Cache!Job, Cache!Needs
  <2>2. run' \in Cache!Job
    BY <1>0, <1>5, <2>1 DEF Cache!Pick, Cache!Job
  <2>3. QED
    BY <1>5, <2>2 DEF Cache!Pick, Cache!table, Cache!audio, Cache!bounds
<1>6. ASSUME NEW k \in Cache!Kinds, Cache!Make(k)
      PROVE  Cache!TypeOK'
  <2>1. run' \in Cache!Job
    BY <1>0, <1>6 DEF Cache!Make, Cache!Job
  <2>2. cache' \in [Resources -> SUBSET Cache!Kinds]
    BY <1>6 DEF Cache!Make
  <2>3. QED
    BY <1>6, <2>1, <2>2 DEF Cache!Make, Cache!table, Cache!audio, Cache!bounds
<1>7. ASSUME NEW k \in Cache!Kinds, Cache!MakeFails(k)
      PROVE  Cache!TypeOK'
  <2>1. run' \in Cache!Job
    BY <1>0, <1>7 DEF Cache!MakeFails, Cache!Job
  <2>2. error' \in [Resources -> SUBSET Cache!Kinds]
    BY <1>7 DEF Cache!MakeFails
  <2>3. faults' \in 0 .. MaxFaults
    BY <1>7, CacheBound DEF Cache!MakeFails
  <2>4. QED
    BY <1>7, <2>1, <2>2, <2>3 DEF Cache!MakeFails, Cache!audio
<1>8. CASE Cache!Mark
  <2>1. run.kind \in Cache!Kinds
    BY <1>0, <1>8 DEF Cache!Mark, Working, Cache!Job
  <2>2. run' \in Cache!Job
    BY <1>0, <1>8, <2>1 DEF Cache!Mark, Cache!Job
  <2>3. marked' \in [Resources -> SUBSET Cache!Kinds]
    BY <1>8, <2>1 DEF Cache!Mark
  <2>4. QED
    BY <1>8, <2>2, <2>3 DEF Cache!Mark, Cache!audio, Cache!bounds
<1>9. CASE Cache!Done
  <2>1. run' \in Cache!Job
    BY <1>0, <1>9 DEF Cache!Done, Cache!Job
  <2>2. QED
    BY <1>9, <2>1 DEF Cache!Done, Cache!table, Cache!audio, Cache!bounds
<1>10. CASE Cache!Kill
  BY <1>10, CacheIdle, CacheBound DEF Cache!Kill, Cache!table, Cache!audio
<1>11. ASSUME NEW r \in Resources, Cache!RegenDelete(r)
       PROVE  Cache!TypeOK'
  <2>1. regen' \in [of : Resources, marked : SUBSET Cache!Kinds, error : SUBSET Cache!Kinds]
    BY <1>11 DEF Cache!RegenDelete
  <2>2. cache' \in [Resources -> SUBSET Cache!Kinds] /\ crossed' \subseteq Resources
    BY <1>11 DEF Cache!RegenDelete, Cache!Crossed
  <2>3. QED
    BY <1>11, <2>1, <2>2, CacheBound DEF Cache!RegenDelete, Cache!table, Cache!audio
<1>12. CASE Cache!RegenCommit
  <2>1. regen.of \in Resources
    BY <1>12, RequestFact DEF Cache!RegenCommit
  <2>2. /\ marked' \in [Resources -> SUBSET Cache!Kinds]
        /\ error' \in [Resources -> SUBSET Cache!Kinds]
        /\ crossed' \subseteq Resources
    BY <1>12, <2>1 DEF Cache!RegenCommit, Cache!Crossed
  <2>3. QED
    BY <1>12, <2>2 DEF Cache!RegenCommit, Cache!audio, Cache!bounds
<1>13. ASSUME NEW r \in Resources, NEW k \in Cache!Kinds, Cache!Get(r, k)
       PROVE  Cache!TypeOK'
  BY <1>13, CacheBound DEF Cache!Get, Cache!table, Cache!audio
<1>14. CASE Cache!GetCommit
  BY <1>14 DEF Cache!GetCommit, Cache!audio, Cache!bounds
<1>15. ASSUME NEW r \in Resources, Cache!FileMoves(r) \/ Cache!FileCommits(r)
       PROVE  Cache!TypeOK'
  BY <1>15 DEF Cache!FileMoves, Cache!FileCommits, Cache!table, Cache!bounds
<1>16. CASE Cache!Unmount \/ Cache!Mount
  BY <1>16, CacheBound DEF Cache!Unmount, Cache!Mount, Cache!table, Cache!bounds
<1>17. CASE UNCHANGED Cache!vars
  BY <1>17 DEF Cache!vars
<1>18. QED
  BY <1>1, <1>2, <1>3, <1>4, <1>5, <1>6, <1>7, <1>8, <1>9, <1>10, <1>11, <1>12, <1>13,
     <1>14, <1>15, <1>16, <1>17 DEF Cache!Next, Cache!JobStep

LEMMA WorkingStep ==
    ASSUME Cache!PreviewsAssumption, Cache!TypeOK, Working, [Cache!Next]_Cache!vars
    PROVE  Working'
<1> USE DEF Working
<1>0. run \in Cache!Job
  BY DEF Cache!TypeOK
<1>1. CASE Cache!Begin
  BY <1>1, CacheStart
<1>2. CASE Cache!Stop \/ Cache!Kill
  BY <1>2, CacheIdle DEF Cache!Stop, Cache!Kill
<1>3. ASSUME NEW r \in run.todo, Cache!Skip(r) \/ Cache!Missing(r)
      PROVE  Working'
  <2>1. run'.pc = "pick"
    BY <1>0, <1>3 DEF Cache!Skip, Cache!Missing, Cache!Job
  <2>2. QED
    BY <2>1
<1>4. ASSUME NEW r \in run.todo, Cache!Pick(r)
      PROVE  Working'
  <2>1. run'.pc = "make" /\ run'.cur = r /\ run'.needs = Cache!Needs(r) /\ r \in Resources
    BY <1>0, <1>4 DEF Cache!Pick, Cache!Job
  <2>2. QED
    BY <1>4, <2>1 DEF Cache!Pick, Cache!Needs, Cache!table
<1>5. ASSUME NEW k \in Cache!Kinds, Cache!Make(k)
      PROVE  Working'
  <2>1. /\ run'.pc = "made" /\ run'.cur = run.cur /\ run'.kind = k /\ run'.needs = run.needs
    BY <1>0, <1>5 DEF Cache!Make, Cache!Job
  <2>2. run.cur \in Resources /\ k \in run.needs /\ k \in cache'[run.cur]
    BY <1>5 DEF Cache!Make, Cache!Turn, Cache!TypeOK
  <2>3. QED
    BY <1>5, <2>1, <2>2 DEF Cache!Make, Cache!Turn, Cache!table
<1>6. ASSUME NEW k \in Cache!Kinds, Cache!MakeFails(k)
      PROVE  Working'
  <2>1. /\ run'.pc = "make" /\ run'.cur = run.cur /\ run'.needs = run.needs \ {k}
    BY <1>0, <1>6 DEF Cache!MakeFails, Cache!Turn, Cache!Job
  <2>2. error'[run.cur] = error[run.cur] \cup {k}
    BY <1>6 DEF Cache!MakeFails, Cache!Turn, Cache!TypeOK
  <2>3. QED
    BY <1>6, <2>1, <2>2 DEF Cache!MakeFails, Cache!Turn
<1>7. CASE Cache!Mark
  <2>1. run'.pc = "make" /\ run'.cur = run.cur /\ run'.needs \subseteq run.needs
    BY <1>0, <1>7 DEF Cache!Mark, Cache!Job
  <2>2. QED
    BY <1>7, <2>1 DEF Cache!Mark
<1>8. CASE Cache!Done
  <2>1. run'.pc = "pick"
    BY <1>0, <1>8 DEF Cache!Done, Cache!Job
  <2>2. QED
    BY <2>1
<1>9. ASSUME NEW r \in Resources, Cache!RegenDelete(r)
      PROVE  Working'
  BY <1>9 DEF Cache!RegenDelete, Cache!Crossed, Cache!TypeOK, Cache!table
<1>10. CASE Cache!RegenCommit
  <2>1. regen.of \in Resources
    BY <1>10, RequestFact DEF Cache!RegenCommit
  <2>2. \A r \in Resources : error'[r] \subseteq error[r]
    BY <1>10, <2>1 DEF Cache!RegenCommit, Cache!TypeOK
  <2>3. QED
    BY <1>10, <2>2 DEF Cache!RegenCommit, Cache!Crossed
<1>11. CASE UNCHANGED <<run, error, cache, crossed>>
  BY <1>11
<1>12. QED
  BY <1>1, <1>2, <1>3, <1>4, <1>5, <1>6, <1>7, <1>8, <1>9, <1>10, <1>11
     DEF Cache!Next, Cache!JobStep, Cache!Get, Cache!GetCommit, Cache!FileMoves,
         Cache!FileCommits, Cache!Unmount, Cache!Mount, Cache!vars, Cache!table

LEMMA MadeSinceStep ==
    ASSUME Cache!PreviewsAssumption, Cache!TypeOK, Working, MadeSince, [Cache!Next]_Cache!vars
    PROVE  MadeSince'
<1> USE DEF MadeSince
<1>0. regen # None => regen.of \in Resources
  BY RequestFact
<1>1. ASSUME NEW k \in Cache!Kinds, Cache!Make(k)
      PROVE  MadeSince'
  <2>1. \A r \in Resources : cache[r] \subseteq cache'[r]
    BY <1>1 DEF Cache!Make, Cache!TypeOK
  <2>2. QED
    BY <1>0, <1>1, <2>1 DEF Cache!Make, Cache!table
<1>2. CASE Cache!Mark
  <2>1. /\ run.cur \in Resources
        /\ run.cur \notin crossed => run.kind \in cache[run.cur]
    BY <1>2 DEF Cache!Mark, Working
  <2>2. QED
    BY <1>0, <1>2, <2>1 DEF Cache!Mark, Cache!TypeOK
<1>3. ASSUME NEW r \in Resources, Cache!RegenDelete(r)
      PROVE  MadeSince'
  <2>1. regen'.of = r /\ regen'.marked = marked[r] /\ marked' = marked
    BY <1>3 DEF Cache!RegenDelete, Cache!table
  <2>2. QED
    BY <2>1
<1>4. CASE Cache!RegenCommit
  BY <1>4 DEF Cache!RegenCommit
<1>5. CASE Cache!GetCommit
  <2>1. \A r \in Resources : marked'[r] \subseteq marked[r]
    BY <1>5, RequestFact DEF Cache!GetCommit, Cache!TypeOK
  <2>2. QED
    BY <1>0, <1>5, <2>1 DEF Cache!GetCommit
<1>6. CASE UNCHANGED <<marked, cache, regen, crossed>>
  BY <1>6
<1>7. QED
  BY <1>1, <1>2, <1>3, <1>4, <1>5, <1>6
     DEF Cache!Next, Cache!JobStep, Cache!Begin, Cache!Stop, Cache!Skip, Cache!Missing,
         Cache!Pick, Cache!MakeFails, Cache!Done, Cache!Kill, Cache!Get,
         Cache!FileMoves, Cache!FileCommits, Cache!Unmount, Cache!Mount, Cache!vars, Cache!table

LEMMA MarkedHasFileStep ==
    ASSUME Cache!PreviewsAssumption, Cache!TypeOK, Working, MadeSince, Cache!MarkedHasFile,
           [Cache!Next]_Cache!vars
    PROVE  Cache!MarkedHasFile'
<1> USE DEF Cache!MarkedHasFile
<1>0. regen # None => regen.of \in Resources
  BY RequestFact
<1>1. ASSUME NEW k \in Cache!Kinds, Cache!Make(k)
      PROVE  Cache!MarkedHasFile'
  <2>1. \A r \in Resources : cache[r] \subseteq cache'[r]
    BY <1>1 DEF Cache!Make, Cache!TypeOK
  <2>2. QED
    BY <1>1, <2>1 DEF Cache!Make, Cache!table
<1>2. CASE Cache!Mark
  <2>1. /\ run.cur \in Resources
        /\ run.cur \notin crossed => run.kind \in cache[run.cur]
    BY <1>2 DEF Cache!Mark, Working
  <2>2. QED
    BY <1>2, <2>1 DEF Cache!Mark, Cache!TypeOK
<1>3. ASSUME NEW r \in Resources, Cache!RegenDelete(r)
      PROVE  Cache!MarkedHasFile'
  <2>1. regen = None /\ regen' # None /\ regen'.of = r /\ marked' = marked
    BY <1>3 DEF Cache!RegenDelete, Cache!table, Cache!PreviewsAssumption, Cache!TypeOK
  <2>2. \A s \in Resources \ {r} : cache'[s] = cache[s]
    BY <1>3 DEF Cache!RegenDelete, Cache!TypeOK
  <2>3. QED
    BY <1>3, <2>1, <2>2 DEF Cache!RegenDelete, Cache!Crossed
<1>4. CASE Cache!RegenCommit
  <2>1. \A r \in Resources :
           marked'[r] = IF r = regen.of THEN marked[r] \ regen.marked ELSE marked[r]
    BY <1>0, <1>4 DEF Cache!RegenCommit, Cache!TypeOK
  <2>2. regen # None /\ crossed \subseteq crossed' /\ cache' = cache
    BY <1>4 DEF Cache!RegenCommit, Cache!Crossed
  <2>3. QED
    BY <2>1, <2>2 DEF MadeSince
<1>5. CASE Cache!GetCommit
  <2>1. \A r \in Resources : marked'[r] \subseteq marked[r]
    BY <1>5, RequestFact DEF Cache!GetCommit, Cache!TypeOK
  <2>2. QED
    BY <1>5, <2>1 DEF Cache!GetCommit
<1>6. CASE UNCHANGED <<marked, cache, regen, crossed>>
  BY <1>6
<1>7. QED
  BY <1>1, <1>2, <1>3, <1>4, <1>5, <1>6
     DEF Cache!Next, Cache!JobStep, Cache!Begin, Cache!Stop, Cache!Skip, Cache!Missing,
         Cache!Pick, Cache!MakeFails, Cache!Done, Cache!Kill, Cache!Get,
         Cache!FileMoves, Cache!FileCommits, Cache!Unmount, Cache!Mount, Cache!vars, Cache!table

LEMMA CacheInit ==
    ASSUME Cache!PreviewsAssumption, Cache!Init
    PROVE  CacheInv
<1>1. MaxRequests \in Nat /\ MaxFaults \in Nat /\ Filed \subseteq Resources
  BY DEF Cache!PreviewsAssumption
<1>2. row \in [Resources -> {"staging", "nas"}]
  BY DEF Cache!Init
<1>3. Cache!TypeOK
  BY <1>1, <1>2, CacheIdle DEF Cache!Init, Cache!TypeOK
<1>4. Working /\ MadeSince /\ Cache!MarkedHasFile
  BY CacheIdle DEF Cache!Init, Working, MadeSince, Cache!MarkedHasFile
<1>5. QED
  BY <1>3, <1>4 DEF CacheInv

LEMMA CacheStep ==
    ASSUME Cache!PreviewsAssumption, CacheInv, [Cache!Next]_Cache!vars
    PROVE  CacheInv'
  BY CacheTypeStep, WorkingStep, MadeSinceStep, MarkedHasFileStep DEF CacheInv

(* A step that is not a request's leaves what has failed as it is.         *)
LEMMA FailuresStand ==
    ASSUME Cache!PreviewsAssumption, Cache!TypeOK, Working, [Cache!Next]_Cache!vars
    PROVE  Cache!LeavesErrors
<1> USE DEF Cache!LeavesErrors
<1>1. ASSUME NEW r \in run.todo, Cache!Missing(r)
      PROVE  Cache!LeavesErrors
  BY <1>1 DEF Cache!Missing, Cache!TypeOK
<1>2. ASSUME NEW k \in Cache!Kinds, Cache!Make(k)
      PROVE  Cache!LeavesErrors
  <2>1. run.cur \in Resources /\ k \notin error[run.cur]
    BY <1>2 DEF Cache!Make, Cache!Turn, Working
  <2>2. QED
    BY <1>2, <2>1 DEF Cache!Make, Cache!table, Cache!TypeOK
<1>3. ASSUME NEW k \in Cache!Kinds, Cache!MakeFails(k)
      PROVE  Cache!LeavesErrors
  BY <1>3 DEF Cache!MakeFails, Cache!TypeOK
<1>4. ASSUME NEW r \in Resources, Cache!RegenDelete(r)
      PROVE  Cache!LeavesErrors
  <2>1. regen = None /\ regen' # None
    BY <1>4 DEF Cache!RegenDelete, Cache!PreviewsAssumption, Cache!TypeOK
  <2>2. QED
    BY <2>1
<1>5. CASE Cache!RegenCommit
  BY <1>5 DEF Cache!RegenCommit
<1>6. CASE UNCHANGED <<error, cache>>
  BY <1>6
<1>7. QED
  BY <1>1, <1>2, <1>3, <1>4, <1>5, <1>6
     DEF Cache!Next, Cache!JobStep, Cache!Begin, Cache!Stop, Cache!Skip, Cache!Pick,
         Cache!Mark, Cache!Done, Cache!Kill, Cache!Get, Cache!GetCommit,
         Cache!FileMoves, Cache!FileCommits, Cache!Unmount, Cache!Mount, Cache!vars, Cache!table

-----------------------------------------------------------------------------
(* Rows, cache, run and requests keep their types whatever happens.        *)
THEOREM PreviewsTypeCorrect ==
    ASSUME Cache!PreviewsAssumption
    PROVE  Cache!Spec => []Cache!TypeOK
<1>1. Cache!Init => CacheInv
  BY CacheInit
<1>2. CacheInv /\ [Cache!Next]_Cache!vars => CacheInv'
  BY CacheStep
<1>3. CacheInv => Cache!TypeOK
  BY DEF CacheInv
<1>4. QED
  BY <1>1, <1>2, <1>3, PTL DEF Cache!Spec

(* waveform_at and preview_at never say that a file is there which is not, *)
(* but for a regenerate request that is under way, or that met the run     *)
(* making that very file; whichever way the commits of run, GET and        *)
(* regenerate fall.                                                        *)
THEOREM MarkedFilesThere ==
    ASSUME Cache!PreviewsAssumption
    PROVE  Cache!Spec => []Cache!MarkedHasFile
<1>1. Cache!Init => CacheInv
  BY CacheInit
<1>2. CacheInv /\ [Cache!Next]_Cache!vars => CacheInv'
  BY CacheStep
<1>3. CacheInv => Cache!MarkedHasFile
  BY DEF CacheInv
<1>4. QED
  BY <1>1, <1>2, <1>3, PTL DEF Cache!Spec

(* No run takes back an error or makes what has one: only a regenerate     *)
(* request does.                                                           *)
THEOREM FailuresNotRetried ==
    ASSUME Cache!PreviewsAssumption
    PROVE  Cache!Spec => Cache!NotRetried
<1>1. Cache!Init => CacheInv
  BY CacheInit
<1>2. CacheInv /\ [Cache!Next]_Cache!vars => CacheInv'
  BY CacheStep
<1>3. CacheInv /\ [Cache!Next]_Cache!vars => [Cache!LeavesErrors]_Cache!vars
  BY FailuresStand DEF CacheInv
<1>4. QED
  BY <1>1, <1>2, <1>3, PTL DEF Cache!Spec, Cache!NotRetried

=============================================================================

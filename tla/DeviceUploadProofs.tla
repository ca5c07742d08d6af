------------------------- MODULE DeviceUploadProofs -------------------------
(***************************************************************************)
(* Safety of DeviceUpload for apps that send an upload's requests one      *)
(* after another and do not come back to one that the sweep has begun to   *)
(* remove: for any uploads, recordings, sizes, threads and kills.          *)
(***************************************************************************)
EXTENDS DeviceUpload, SequenceTheorems, TLAPS

(* What a request in progress is at.                                       *)
ReqShape ==
    \A t \in Threads :
        /\ req[t].pc = "idle" <=> req[t].of = NoUpload
        /\ req[t].pc \in {"append", "count"} => req[t].read < Size

(* One request at a time for each upload.                                  *)
Alone ==
    \A t, x \in Threads :
        req[t].of # NoUpload /\ req[t].of = req[x].of => t = x

(* While a request is in progress the row is as the request read it.       *)
Current ==
    \A t \in Threads : req[t].of # NoUpload =>
        /\ ~session[req[t].of].quiet
        /\ req[t].pc = "create" => session[req[t].of].status = "absent"
        /\ req[t].pc # "create" => session[req[t].of].status = "uploading"

(* The sweep is at uploads that are still open and that nobody is serving. *)
Untouched ==
    /\ sweep.todo \subseteq sweep.found
    /\ \A u \in sweep.found :
           /\ session[u].status = "uploading" /\ session[u].quiet
           /\ \A t \in Threads : req[t].of # u

(* What the requests at work on an upload have established.                *)
Established ==
    \A t \in Threads :
        LET u == req[t].of
        IN  /\ req[t].pc = "ingest" /\ resource[Of[u]] = NoUpload => file[u] = Whole
            /\ req[t].pc = "insert" => file[u] = Whole /\ resource[Of[u]] # u
            /\ req[t].pc = "finish" => resource[Of[u]] # NoUpload

(* Once a Resource has an upload's file, that upload is settled, or is     *)
(* about to be, or was cut.                                                *)
Charged ==
    \A r \in Recordings : resource[r] \in Uploads =>
        /\ Of[resource[r]] = r
        /\ \/ resource[r] \in cut
           \/ session[resource[r]].status \in {"completed", "dropped"}
           \/ \E t \in Threads : req[t].of = resource[r] /\ req[t].pc = "finish"

Polite == Serial /\ ~LateReturns

Order == ReqShape /\ Alone /\ Current /\ Untouched

IInv == TypeOK /\ Order /\ Established /\ Charged /\ Kept /\ CompletedIsIngested

(* The row and the file of an upload that nothing has cut short say the    *)
(* same, but for the body that is written and not counted yet.             *)
Even(u) ==
    /\ session[u].status = "absent" => session[u].received = 0
    /\ u \notin cut \cup (sweep.found \ sweep.todo) =>
          /\ session[u].status = "uploading" /\ At(u) = {} =>
                 file[u] = Begun(session[u].received)
          /\ \A t \in At(u) :
                 /\ req[t].pc \in {"append", "hash", "ingest", "insert"} =>
                        file[u] = Begun(session[u].received)
                 /\ req[t].pc \in {"append", "count"} =>
                        req[t].read = session[u].received
                 /\ req[t].pc = "count" =>
                        file[u] = Begun(session[u].received + 1)

(* The sweep has found nothing unless it is removing.                      *)
Staged ==
    /\ sweep.pc # "remove" => sweep.found = {}
    /\ \A u \in Uploads : Even(u)

-----------------------------------------------------------------------------
(* The three ways a row or a request is rewritten.                         *)
LEMMA GoesFact ==
    ASSUME TypeOK, NEW t \in Threads, NEW pc \in ReqPc, Goes(t, pc)
    PROVE  /\ req' \in [Threads -> Request]
           /\ req'[t].pc = pc /\ req'[t].of = req[t].of /\ req'[t].read = req[t].read
           /\ \A x \in Threads \ {t} : req'[x] = req[x]
<1>1. req[t] \in Request /\ [req[t] EXCEPT !.pc = pc] \in Request
    BY DEF TypeOK, Request
<1>2. req' = [req EXCEPT ![t] = [req[t] EXCEPT !.pc = pc]]
    BY DEF Goes
<1> QED BY <1>1, <1>2 DEF TypeOK, Request

LEMMA EndsFact ==
    ASSUME TypeOK, NEW t \in Threads, Ends(t)
    PROVE  /\ req' \in [Threads -> Request]
           /\ req'[t].pc = "idle" /\ req'[t].of = NoUpload
           /\ \A x \in Threads \ {t} : req'[x] = req[x]
<1>1. Done \in Request
    BY UploadAssumption DEF Done, Request, ReqPc
<1> QED BY <1>1 DEF Ends, TypeOK, Done

LEMMA WrittenFact ==
    ASSUME TypeOK, NEW u \in Uploads, NEW status \in Status
    PROVE  /\ Written(u, status) \in [Uploads -> Session]
           /\ Written(u, status)[u].status = status
           /\ Written(u, status)[u].quiet = FALSE
           /\ Written(u, status)[u].resourceOf = session[u].resourceOf
           /\ Written(u, status)[u].received = session[u].received
           /\ \A v \in Uploads \ {u} : Written(u, status)[v] = session[v]
<1> DEFINE row == [session[u] EXCEPT !.status = status, !.quiet = FALSE]
<1>1. session[u] \in Session /\ row \in Session
    BY DEF TypeOK, Session
<1>2. Written(u, status) = [session EXCEPT ![u] = row]
    BY DEF Written
<1>3. /\ row.status = status /\ row.quiet = FALSE
      /\ row.resourceOf = session[u].resourceOf /\ row.received = session[u].received
    BY <1>1 DEF Session
<1> HIDE DEF row
<1> QED BY <1>1, <1>2, <1>3 DEF TypeOK

LEMMA WrittenElsewhere ==
    ASSUME TypeOK, NEW status \in Status,
           NEW u \in Uploads, NEW v \in Uploads, u # v
    PROVE  Written(u, status)[v] = session[v]
<1> DEFINE row == [session[u] EXCEPT !.status = status, !.quiet = FALSE]
<1>1. Written(u, status) = [session EXCEPT ![u] = row]
    BY DEF Written
<1>2. session \in [Uploads -> Session]
    BY DEF TypeOK
<1> HIDE DEF row
<1> QED BY <1>1, <1>2

LEMMA FinishFact ==
    ASSUME TypeOK, NEW u \in Uploads
    PROVE  LET s == [Written(u, "completed") EXCEPT ![u].resourceOf = Of[u]]
           IN  /\ s \in [Uploads -> Session]
               /\ s[u].status = "completed" /\ s[u].quiet = FALSE
               /\ s[u].resourceOf = Of[u]
               /\ \A v \in Uploads \ {u} : s[v] = session[v]
<1> DEFINE w == Written(u, "completed")
           row == [w[u] EXCEPT !.resourceOf = Of[u]]
<1>1. w \in [Uploads -> Session] /\ w[u] \in Session
    BY WrittenFact DEF Status
<1>2. w[u].status = "completed" /\ w[u].quiet = FALSE
    BY WrittenFact DEF Status
<1>3. \A v \in Uploads \ {u} : w[v] = session[v]
    BY WrittenFact DEF Status
<1> HIDE DEF w
<1>4. [w EXCEPT ![u].resourceOf = Of[u]] = [w EXCEPT ![u] = row]
    OBVIOUS
<1>5. /\ row \in Session /\ row.status = "completed" /\ row.quiet = FALSE
      /\ row.resourceOf = Of[u]
    BY <1>1, <1>2, UploadAssumption DEF Session
<1> HIDE DEF row
<1>6. [w EXCEPT ![u] = row] \in [Uploads -> Session]
    BY <1>1, <1>5
<1> QED BY <1>1, <1>3, <1>4, <1>5, <1>6 DEF w

LEMMA CountFact ==
    ASSUME TypeOK, ReqShape, NEW t \in Threads, ChunkCount(t)
    PROVE  /\ session' \in [Uploads -> Session]
           /\ session'[req[t].of].status = session[req[t].of].status
           /\ session'[req[t].of].received = req[t].read + 1
           /\ \A v \in Uploads \ {req[t].of} : session'[v] = session[v]
<1> DEFINE u == req[t].of
           row == [session[u] EXCEPT !.received = req[t].read + 1, !.quiet = FALSE]
<1>1. u \in Uploads /\ req[t].read + 1 \in 0 .. Size
    BY UploadAssumption DEF ChunkCount, TypeOK, ReqShape, Request
<1>2. session' = [session EXCEPT ![u] = row]
    BY DEF ChunkCount
<1>3. /\ row \in Session /\ row.status = session[u].status
      /\ row.received = req[t].read + 1
    BY <1>1 DEF TypeOK, Session
<1> HIDE DEF row, u
<1>4. session \in [Uploads -> Session]
    BY DEF TypeOK
<1>5. session' \in [Uploads -> Session] /\ session'[u] = row
    BY <1>1, <1>2, <1>3, <1>4
<1>6. \A v \in Uploads \ {u} : session'[v] = session[v]
    BY <1>1, <1>2, <1>4
<1> QED BY <1>3, <1>5, <1>6 DEF u

LEMMA QuietFact ==
    ASSUME TypeOK, NEW u \in Uploads
    PROVE  LET s == [session EXCEPT ![u].quiet = TRUE]
           IN  /\ s \in [Uploads -> Session]
               /\ s[u].status = session[u].status
               /\ s[u].resourceOf = session[u].resourceOf
               /\ s[u].received = session[u].received
               /\ \A v \in Uploads \ {u} : s[v] = session[v]
<1> DEFINE row == [session[u] EXCEPT !.quiet = TRUE]
<1>1. [session EXCEPT ![u].quiet = TRUE] = [session EXCEPT ![u] = row]
    OBVIOUS
<1>2. /\ row \in Session /\ row.status = session[u].status
      /\ row.resourceOf = session[u].resourceOf /\ row.received = session[u].received
    BY DEF TypeOK, Session
<1> HIDE DEF row
<1> QED BY <1>1, <1>2 DEF TypeOK

(* What the two statements of the sweep make of a row.                     *)
LEMMA SweptFact ==
    ASSUME TypeOK, NEW u \in Uploads
    PROVE  /\ session[u] \in Session
           /\ [session[u] EXCEPT !.status = "failed", !.quiet = FALSE] \in Session
           /\ [session[u] EXCEPT !.status = "dropped"] \in Session
           /\ [session[u] EXCEPT !.status = "failed", !.quiet = FALSE].status = "failed"
           /\ [session[u] EXCEPT !.status = "dropped"].status = "dropped"
BY DEF TypeOK, Session, Status

(* The arrival of a request, as the three checks have it.                  *)
LEMMA ArrivalCases ==
    ASSUME NEW t \in Threads, NEW u \in Uploads,
           InitiateCheck(t, u) \/ ChunkCheck(t, u) \/ CompleteCheck(t, u)
    PROVE  \E pc \in {"create", "append", "hash"}, status \in {"absent", "uploading"} :
               /\ Arrives(t, u, pc, status)
               /\ pc = "create" <=> status = "absent"
               /\ pc = "append" => session[u].received < Size
BY DEF InitiateCheck, ChunkCheck, CompleteCheck

LEMMA SweepFact ==
    ASSUME NEW todo \in SUBSET Uploads, NEW found \in SUBSET Uploads,
           NEW pc \in {"idle", "remove", "drop"}
    PROVE  [pc |-> pc, todo |-> todo, found |-> found] \in Sweep
BY DEF Sweep

(* Every step preserves the types and the shape of requests.               *)
LEMMA TypeStep ==
    ASSUME TypeOK, ReqShape, [Next]_vars
    PROVE  TypeOK' /\ ReqShape'
<1> USE UploadAssumption DEF TypeOK, ReqShape
<1>0. \A t \in Threads :
          /\ req[t] \in Request /\ req[t].pc \in ReqPc
          /\ req[t].of \in Uploads \cup {NoUpload} /\ req[t].read \in 0 .. Size
    BY DEF Request
<1>1. CASE UNCHANGED vars
    BY <1>1 DEF vars
<1>2. ASSUME NEW t \in Threads, NEW u \in Uploads,
             InitiateCheck(t, u) \/ ChunkCheck(t, u) \/ CompleteCheck(t, u)
      PROVE  TypeOK' /\ ReqShape'
    <2>1. PICK pc \in {"create", "append", "hash"}, status \in {"absent", "uploading"} :
              /\ Arrives(t, u, pc, status)
              /\ pc = "append" => session[u].received < Size
        BY <1>2, ArrivalCases
    <2>2. session[u].received \in 0 .. Size
        BY DEF Session
    <2>3. [pc |-> pc, of |-> u, read |-> session[u].received] \in Request
        BY <2>2 DEF Request, ReqPc
    <2> QED BY <2>1, <2>2, <2>3 DEF Arrives
<1>3. ASSUME NEW t \in Threads, InitiateCreate(t) PROVE TypeOK' /\ ReqShape'
    <2>1. req[t].of \in Uploads /\ << >> \in Seq(1 .. Size)
        BY <1>3, <1>0 DEF InitiateCreate
    <2>2. Written(req[t].of, "uploading") \in [Uploads -> Session]
        BY <2>1, WrittenFact DEF Status
    <2>4. session' \in [Uploads -> Session]
        BY <1>3, <2>2 DEF InitiateCreate
    <2>5. file' \in [Uploads -> Seq(1 .. Size) \cup {NoFile}]
        BY <1>3, <2>1 DEF InitiateCreate
    <2>6. UNCHANGED <<resource, sweep, crashes, cut>>
        BY <1>3 DEF InitiateCreate
    <2>3. Ends(t)
        BY <1>3 DEF InitiateCreate
    <2> QED BY <2>3, <2>4, <2>5, <2>6, EndsFact
<1>4. ASSUME NEW t \in Threads, ChunkAppend(t) PROVE TypeOK' /\ ReqShape'
    <2> DEFINE u == req[t].of
    <2>1. u \in Uploads /\ req[t].read \in 0 .. Size /\ req[t].read < Size
        BY <1>4, <1>0 DEF ChunkAppend
    <2>2. req[t].read + 1 \in 1 .. Size
        BY <2>1
    <2>3. file[u] # NoFile => Append(file[u], req[t].read + 1) \in Seq(1 .. Size)
        BY <2>1, <2>2
    <2>4. file' \in [Uploads -> Seq(1 .. Size) \cup {NoFile}]
        BY <1>4, <2>1, <2>3 DEF ChunkAppend
    <2>5. CASE Goes(t, "count")
        <3>1. /\ req' \in [Threads -> Request]
              /\ req'[t].pc = "count" /\ req'[t].of = u /\ req'[t].read = req[t].read
              /\ \A x \in Threads \ {t} : req'[x] = req[x]
            BY <2>5, GoesFact DEF ReqPc
        <3> QED BY <1>4, <2>1, <2>4, <3>1 DEF ChunkAppend
    <2>6. CASE Ends(t)
        BY <1>4, <2>1, <2>4, <2>6, EndsFact DEF ChunkAppend
    <2> QED BY <1>4, <2>5, <2>6 DEF ChunkAppend
<1>5. ASSUME NEW t \in Threads, ChunkCount(t) PROVE TypeOK' /\ ReqShape'
    <2>1. session' \in [Uploads -> Session]
        BY <1>5, CountFact
    <2>2. UNCHANGED <<resource, file, sweep, crashes, cut>> /\ Ends(t)
        BY <1>5 DEF ChunkCount
    <2> QED BY <2>1, <2>2, EndsFact
<1>6. ASSUME NEW t \in Threads, Hash(t) \/ Ingest(t) \/ Insert(t)
      PROVE  TypeOK' /\ ReqShape'
    <2>1. req[t].of \in Uploads /\ Of[req[t].of] \in Recordings
        BY <1>6, <1>0 DEF Hash, Ingest, Insert
    <2>2. file' \in [Uploads -> Seq(1 .. Size) \cup {NoFile}]
        BY <1>6, <2>1 DEF Hash, Ingest, Insert
    <2>3. resource' \in [Recordings -> Uploads \cup {NoUpload, Filed}]
        BY <1>6, <2>1 DEF Hash, Ingest, Insert
    <2>4. UNCHANGED <<session, sweep, crashes, cut>>
        BY <1>6 DEF Hash, Ingest, Insert
    <2>5. ASSUME NEW pc \in {"ingest", "insert", "finish", "fail"}, Goes(t, pc)
          PROVE  TypeOK' /\ ReqShape'
        <3>1. /\ req' \in [Threads -> Request]
              /\ req'[t].pc = pc /\ req'[t].of = req[t].of /\ req'[t].read = req[t].read
              /\ \A x \in Threads \ {t} : req'[x] = req[x]
            BY <2>5, GoesFact DEF ReqPc
        <3> QED BY <2>1, <2>2, <2>3, <2>4, <3>1
    <2>6. CASE Ends(t)
        BY <2>2, <2>3, <2>4, <2>6, EndsFact
    <2> QED BY <1>6, <2>5, <2>6 DEF Hash, Ingest, Insert
<1>7. ASSUME NEW t \in Threads, Fail(t) \/ Finish(t) PROVE TypeOK' /\ ReqShape'
    <2>1. req[t].of \in Uploads /\ Of[req[t].of] \in Recordings
        BY <1>7, <1>0 DEF Fail, Finish
    <2>2. Written(req[t].of, "failed") \in [Uploads -> Session]
        BY <2>1, WrittenFact DEF Status
    <2>4. [Written(req[t].of, "completed") EXCEPT ![req[t].of].resourceOf = Of[req[t].of]]
              \in [Uploads -> Session]
        BY <2>1, FinishFact
    <2>5. session' \in [Uploads -> Session]
        BY <1>7, <2>2, <2>4 DEF Fail, Finish
    <2>3. Ends(t)
        BY <1>7 DEF Fail, Finish
    <2> QED BY <1>7, <2>5, <2>3, EndsFact DEF Fail, Finish
<1>8. ASSUME NEW t \in Threads, KillRequest(t) PROVE TypeOK' /\ ReqShape'
    <2>1. req[t].of \in Uploads /\ Ends(t)
        BY <1>8, <1>0 DEF KillRequest
    <2>2. crashes' \in 0 .. MaxCrashes
        BY <1>8 DEF KillRequest, Crashing
    <2> QED BY <1>8, <2>1, <2>2, EndsFact DEF KillRequest
<1>9. ASSUME NEW u \in Uploads, GoesQuiet(u) PROVE TypeOK' /\ ReqShape'
    BY <1>9, QuietFact DEF GoesQuiet
<1>10. CASE SweepSelect
    BY <1>10, SweepFact DEF SweepSelect, Abandoned
<1>11. CASE SweepRemove
    <2>1. sweep' \in Sweep
        BY <1>11 DEF SweepRemove, Sweep
    <2>2. file' \in [Uploads -> Seq(1 .. Size) \cup {NoFile}]
        BY <1>11 DEF SweepRemove, Sweep
    <2> QED BY <1>11, <2>1, <2>2 DEF SweepRemove
<1>12. CASE SweepCommit
    <2>1. sweep' \in Sweep
        BY <1>12 DEF SweepCommit, Sweep, Resting
    <2>2. session' \in [Uploads -> Session]
        <3>1. \A u \in Uploads :
                  (IF u \in sweep.found
                   THEN [session[u] EXCEPT !.status = "failed", !.quiet = FALSE]
                   ELSE session[u]) \in Session
            BY SweptFact
        <3> QED BY <1>12, <3>1 DEF SweepCommit
    <2> QED BY <1>12, <2>1, <2>2 DEF SweepCommit
<1>13. CASE SweepDrop
    <2>1. sweep' \in Sweep
        BY <1>13 DEF SweepDrop, Sweep, Resting
    <2>2. session' \in [Uploads -> Session]
        <3>1. PICK old \in SUBSET Uploads :
                  session' = [u \in Uploads |-> IF u \in old
                                  THEN [session[u] EXCEPT !.status = "dropped"]
                                  ELSE session[u]]
            BY <1>13 DEF SweepDrop
        <3>2. \A u \in Uploads :
                  (IF u \in old THEN [session[u] EXCEPT !.status = "dropped"]
                   ELSE session[u]) \in Session
            BY SweptFact
        <3> QED BY <3>1, <3>2
    <2> QED BY <1>13, <2>1, <2>2 DEF SweepDrop
<1>14. CASE KillSweep
    <2>1. sweep' \in Sweep
        BY <1>14 DEF KillSweep, Sweep, Resting
    <2>2. crashes' \in 0 .. MaxCrashes /\ cut' \subseteq Uploads
        BY <1>14 DEF KillSweep, Crashing, Sweep
    <2> QED BY <1>14, <2>1, <2>2 DEF KillSweep
<1>15. ASSUME NEW r \in Recordings, File(r) PROVE TypeOK' /\ ReqShape'
    BY <1>15 DEF File
<1> QED BY <1>1, <1>2, <1>3, <1>4, <1>5, <1>6, <1>7, <1>8, <1>9, <1>10, <1>11, <1>12,
           <1>13, <1>14, <1>15 DEF Next, RequestStep, SweepStep

-----------------------------------------------------------------------------
(* A request that is not about to finish, or the sweep, has an upload for  *)
(* itself: no Resource that counts has its file.                           *)
LEMMA NotCharged ==
    ASSUME Order, Charged, NEW u \in Uploads, NEW r \in Recordings, resource[r] = u,
           \/ \E t \in Threads : req[t].of = u /\ req[t].pc # "finish"
           \/ u \in sweep.found
    PROVE  u \in cut
<1> USE UploadAssumption
<1>1. session[u].status \notin {"completed", "dropped"}
    BY DEF Order, Current, Untouched
<1>2. ~ \E t \in Threads : req[t].of = u /\ req[t].pc = "finish"
    BY DEF Order, Alone, Untouched
<1> QED BY <1>1, <1>2 DEF Charged

(* What a step of one request, at its own upload, leaves in order.         *)
LEMMA OrderOfRequest ==
    ASSUME Order, NEW t \in Threads, NEW u \in Uploads, req[t].of = u,
           \A x \in Threads \ {t} : req'[x] = req[x],
           \A v \in Uploads \ {u} : session'[v] = session[v],
           sweep' = sweep,
           \A x \in Threads : req[x].of \in Uploads \cup {NoUpload},
           sweep.found \subseteq Uploads,
           \/ req'[t].of = NoUpload
           \/ /\ req'[t].of = u /\ session' = session
              /\ req'[t].pc # "create" /\ req[t].pc # "create"
    PROVE  Alone' /\ Current' /\ Untouched'
<1> USE UploadAssumption DEF Order
<1>1. \A x \in Threads \ {t} : req[x].of # u
    BY DEF Alone
<1>2. u \notin sweep.found
    BY DEF Untouched
<1>3. Alone'
    BY <1>1 DEF Alone
<1>4. Current'
    BY <1>1 DEF Current
<1>5. Untouched'
    BY <1>2 DEF Untouched
<1> QED BY <1>3, <1>4, <1>5

(* What such a step leaves true of files and Resources, if it makes none.  *)
LEMMA RestOfRequest ==
    ASSUME Order, Established, Charged, Kept, CompletedIsIngested,
           NEW t \in Threads, NEW u \in Uploads, req[t].of = u,
           \A x \in Threads \ {t} : req'[x] = req[x],
           \A v \in Uploads \ {u} : session'[v] = session[v] /\ file'[v] = file[v],
           \A x \in Threads : req[x].of \in Uploads \cup {NoUpload},
           \A x \in Threads : req[x].pc # "idle" => req[x].of \in Uploads,
           resource' = resource, cut \subseteq cut',
           req'[t].pc = "ingest" /\ resource[Of[u]] = NoUpload => file'[u] = Whole,
           req'[t].pc = "insert" => file'[u] = Whole /\ resource[Of[u]] # u,
           req'[t].pc = "finish" => resource[Of[u]] # NoUpload,
           req'[t].of \in {u, NoUpload},
           req'[t].of = NoUpload => req'[t].pc = "idle",
           \A r \in Recordings : resource[r] = u =>
               \/ u \in cut' \/ session'[u].status \in {"completed", "dropped"}
               \/ req'[t].of = u /\ req'[t].pc = "finish",
           file'[u] = file[u] \/ \A r \in Recordings : resource[r] = u => u \in cut,
           session'[u].status = "completed" =>
               session'[u].resourceOf = Of[u] /\ resource[Of[u]] # NoUpload
    PROVE  Established' /\ Charged' /\ Kept' /\ CompletedIsIngested'
<1> USE UploadAssumption
<1>1. \A x \in Threads \ {t} : req[x].of # u
    BY DEF Order, Alone
<1>2. Established'
    BY <1>1 DEF Established
<1>3. Charged'
    BY <1>1 DEF Charged
<1>4. Kept'
    BY DEF Kept
<1>5. CompletedIsIngested'
    BY DEF CompletedIsIngested
<1> QED BY <1>2, <1>3, <1>4, <1>5

-----------------------------------------------------------------------------
(* What the steps below have in common.                                    *)
Rest == Alone /\ Current /\ Untouched
            /\ Established /\ Charged /\ Kept /\ CompletedIsIngested

LEMMA RequestFacts ==
    ASSUME TypeOK, ReqShape
    PROVE  /\ \A t \in Threads :
                  /\ req[t].of \in Uploads \cup {NoUpload}
                  /\ req[t].pc # "idle" => req[t].of \in Uploads
           /\ sweep.found \subseteq Uploads
           /\ \A u \in Uploads : Of[u] \in Recordings
BY UploadAssumption DEF TypeOK, ReqShape, Request, Sweep

LEMMA ArrivesStep ==
    ASSUME IInv, Polite, NEW t \in Threads, NEW u \in Uploads,
           InitiateCheck(t, u) \/ ChunkCheck(t, u) \/ CompleteCheck(t, u)
    PROVE  Rest'
<1> USE UploadAssumption, RequestFacts DEF IInv, Order
<1>1. PICK pc \in {"create", "append", "hash"}, status \in {"absent", "uploading"} :
          Arrives(t, u, pc, status) /\ (pc = "create" <=> status = "absent")
    BY ArrivalCases
<1>2. /\ req[t].pc = "idle" /\ req[t].of = NoUpload
      /\ \A x \in Threads : req[x].of # u
      /\ session[u].status = status /\ ~session[u].quiet
      /\ UNCHANGED <<session, resource, file, sweep, cut>>
    BY <1>1 DEF Arrives, Polite, At, ReqShape
<1>3. /\ req'[t].pc = pc /\ req'[t].of = u
      /\ \A x \in Threads \ {t} : req'[x] = req[x]
    BY <1>1 DEF Arrives, TypeOK
<1>4. u \notin sweep.found
    BY <1>2 DEF Untouched
<1>5. Alone'
    BY <1>2, <1>3 DEF Alone
<1>6. Current'
    BY <1>1, <1>2, <1>3 DEF Current
<1>7. Untouched'
    BY <1>2, <1>3, <1>4 DEF Untouched
<1>8. Established'
    BY <1>2, <1>3 DEF Established
<1>9. Charged'
    BY <1>2, <1>3 DEF Charged
<1>10. Kept' /\ CompletedIsIngested'
    BY <1>2 DEF Kept, CompletedIsIngested
<1> QED BY <1>5, <1>6, <1>7, <1>8, <1>9, <1>10 DEF Rest

LEMMA InitiateCreateStep ==
    ASSUME IInv, NEW t \in Threads, InitiateCreate(t) PROVE Rest'
<1> USE UploadAssumption, RequestFacts DEF IInv, Order
<1> DEFINE u == req[t].of
<1>1. u \in Uploads /\ req[t].pc = "create" /\ session[u].status = "absent"
    BY DEF InitiateCreate, Current
<1>2. /\ session' = Written(u, "uploading") /\ file' = [file EXCEPT ![u] = << >>]
      /\ UNCHANGED <<resource, sweep, cut>> /\ Ends(t)
    BY <1>1 DEF InitiateCreate
<1>3. /\ req'[t].pc = "idle" /\ req'[t].of = NoUpload
      /\ \A x \in Threads \ {t} : req'[x] = req[x]
    BY <1>2, EndsFact
<1>4. /\ session'[u].status = "uploading"
      /\ \A v \in Uploads \ {u} : session'[v] = session[v]
    <2> DEFINE s == Written(u, "uploading")
    <2>1. s[u].status = "uploading" /\ \A v \in Uploads \ {u} : s[v] = session[v]
        BY <1>1, WrittenFact DEF Status
    <2>2. session' = s
        BY <1>2
    <2> HIDE DEF s, u
    <2> QED BY <2>1, <2>2
<1>5. \A v \in Uploads \ {u} : file'[v] = file[v]
    <2>1. file \in [Uploads -> Seq(1 .. Size) \cup {NoFile}]
        BY DEF TypeOK
    <2>2. file' = [file EXCEPT ![u] = << >>]
        BY <1>2
    <2> HIDE DEF u
    <2> QED BY <2>1, <2>2
<1>6. \A r \in Recordings : resource[r] = u => u \in cut
    BY <1>1, NotCharged
<1> HIDE DEF u
<1>7. Alone' /\ Current' /\ Untouched'
    BY <1>1, <1>2, <1>3, <1>4, OrderOfRequest DEF u
<1>8. Established' /\ Charged' /\ Kept' /\ CompletedIsIngested'
    BY <1>1, <1>2, <1>3, <1>4, <1>5, <1>6, RestOfRequest DEF u
<1> QED BY <1>7, <1>8 DEF Rest

LEMMA ChunkAppendStep ==
    ASSUME IInv, NEW t \in Threads, ChunkAppend(t) PROVE Rest'
<1> USE UploadAssumption, RequestFacts DEF IInv, Order
<1> DEFINE u == req[t].of
<1>1. u \in Uploads /\ req[t].pc = "append"
    BY DEF ChunkAppend
<1>2. /\ UNCHANGED <<session, resource, sweep, cut>>
      /\ session[u].status = "uploading"
    BY <1>1 DEF ChunkAppend, Current
<1>3. \A v \in Uploads \ {u} : file'[v] = file[v]
    BY DEF ChunkAppend, TypeOK
<1>4. /\ \/ req'[t].pc = "count" /\ req'[t].of = u
         \/ req'[t].pc = "idle" /\ req'[t].of = NoUpload
      /\ \A x \in Threads \ {t} : req'[x] = req[x]
    <2>1. CASE Goes(t, "count")
        BY <2>1, GoesFact DEF ReqPc
    <2>2. CASE Ends(t)
        BY <2>2, EndsFact
    <2> QED BY <2>1, <2>2 DEF ChunkAppend
<1>5. \A r \in Recordings : resource[r] = u => u \in cut
    BY <1>1, NotCharged
<1> HIDE DEF u
<1>6. Alone' /\ Current' /\ Untouched'
    BY <1>1, <1>2, <1>4, OrderOfRequest DEF u
<1>7. Established' /\ Charged' /\ Kept' /\ CompletedIsIngested'
    BY <1>1, <1>2, <1>3, <1>4, <1>5, RestOfRequest DEF u
<1> QED BY <1>6, <1>7 DEF Rest

LEMMA ChunkCountStep ==
    ASSUME IInv, NEW t \in Threads, ChunkCount(t) PROVE Rest'
<1> USE UploadAssumption, RequestFacts DEF IInv, Order
<1> DEFINE u == req[t].of
<1>1. u \in Uploads /\ req[t].pc = "count" /\ session[u].status = "uploading"
    BY DEF ChunkCount, Current
<1>2. UNCHANGED <<resource, file, sweep, cut>> /\ Ends(t)
    BY DEF ChunkCount
<1>3. /\ req'[t].pc = "idle" /\ req'[t].of = NoUpload
      /\ \A x \in Threads \ {t} : req'[x] = req[x]
    BY <1>2, EndsFact
<1>4. /\ session'[u].status = "uploading"
      /\ \A v \in Uploads \ {u} : session'[v] = session[v]
    BY <1>1, CountFact
<1>5. \A r \in Recordings : resource[r] = u => u \in cut
    BY <1>1, NotCharged
<1> HIDE DEF u
<1>6. Alone' /\ Current' /\ Untouched'
    BY <1>1, <1>2, <1>3, <1>4, OrderOfRequest DEF u
<1>7. Established' /\ Charged' /\ Kept' /\ CompletedIsIngested'
    BY <1>1, <1>2, <1>3, <1>4, <1>5, RestOfRequest DEF u
<1> QED BY <1>6, <1>7 DEF Rest

LEMMA HashIngestStep ==
    ASSUME IInv, NEW t \in Threads, Hash(t) \/ Ingest(t) PROVE Rest'
<1> USE UploadAssumption, RequestFacts DEF IInv, Order
<1> DEFINE u == req[t].of
<1>1. u \in Uploads /\ req[t].pc \in {"hash", "ingest"}
    BY DEF Hash, Ingest
<1>2. /\ UNCHANGED <<session, resource, sweep, cut>>
      /\ session[u].status = "uploading"
    BY <1>1 DEF Hash, Ingest, Current
<1>3. \A v \in Uploads \ {u} : file'[v] = file[v]
    BY DEF Hash, Ingest, TypeOK
<1>4. \A r \in Recordings : resource[r] = u => u \in cut
    BY <1>1, NotCharged
<1>5. \/ Ends(t)
      \/ Goes(t, "ingest") /\ file'[u] = Whole
      \/ Goes(t, "fail")
      \/ Goes(t, "finish") /\ resource[Of[u]] # NoUpload
      \/ Goes(t, "insert") /\ resource[Of[u]] # u /\ file'[u] = Whole
    BY <1>1 DEF Hash, Ingest, Established
<1> HIDE DEF u
<1>6. /\ \A x \in Threads \ {t} : req'[x] = req[x]
      /\ \/ req'[t].pc = "idle" /\ req'[t].of = NoUpload
         \/ /\ req'[t].of = u /\ req'[t].pc \in {"ingest", "insert", "finish", "fail"}
            /\ req'[t].pc = "ingest" => file'[u] = Whole
            /\ req'[t].pc = "insert" => file'[u] = Whole /\ resource[Of[u]] # u
            /\ req'[t].pc = "finish" => resource[Of[u]] # NoUpload
    <2>1. ASSUME NEW pc \in {"ingest", "insert", "finish", "fail"}, Goes(t, pc)
          PROVE  /\ req'[t].pc = pc /\ req'[t].of = u
                 /\ \A x \in Threads \ {t} : req'[x] = req[x]
        BY <2>1, GoesFact DEF ReqPc, u
    <2>2. CASE Ends(t)
        BY <2>2, EndsFact
    <2> QED BY <1>5, <2>1, <2>2
<1>7. Alone' /\ Current' /\ Untouched'
    BY <1>1, <1>2, <1>6, OrderOfRequest DEF u
<1>8. Established' /\ Charged' /\ Kept' /\ CompletedIsIngested'
    BY <1>1, <1>2, <1>3, <1>4, <1>6, RestOfRequest DEF u
<1> QED BY <1>7, <1>8 DEF Rest

LEMMA InsertStep ==
    ASSUME IInv, NEW t \in Threads, Insert(t) PROVE Rest'
<1> USE UploadAssumption, RequestFacts DEF IInv, Order
<1> DEFINE u == req[t].of
<1>1. /\ u \in Uploads /\ req[t].pc = "insert" /\ session[u].status = "uploading"
      /\ file[u] = Whole /\ resource[Of[u]] # u /\ Of[u] \in Recordings
      /\ UNCHANGED <<session, file, sweep, cut>>
    BY DEF Insert, Current, Established
<1>2. \A r \in Recordings : resource[r] = u => u \in cut
    BY <1>1, NotCharged
<1>3. \A x \in Threads \ {t} : req'[x] = req[x]
    BY GoesFact DEF Insert, ReqPc
<1>4. \/ /\ resource[Of[u]] = NoUpload /\ resource' = [resource EXCEPT ![Of[u]] = u]
         /\ req'[t].pc = "finish" /\ req'[t].of = u
      \/ resource' = resource /\ req'[t].pc = "fail" /\ req'[t].of = u
    BY GoesFact DEF Insert, ReqPc
<1>5. \A x \in Threads \ {t} : req[x].of # u
    BY <1>1 DEF Alone
<1> HIDE DEF u
<1>6. Alone' /\ Current' /\ Untouched'
    BY <1>1, <1>3, <1>4, OrderOfRequest DEF u
<1>7. CASE resource' = resource /\ req'[t].pc = "fail" /\ req'[t].of = u
    <2>1. Established' /\ Charged' /\ Kept' /\ CompletedIsIngested'
        BY <1>1, <1>2, <1>3, <1>7, RestOfRequest DEF u
    <2> QED BY <1>6, <2>1 DEF Rest
<1>8. CASE /\ resource[Of[u]] = NoUpload /\ resource' = [resource EXCEPT ![Of[u]] = u]
           /\ req'[t].pc = "finish" /\ req'[t].of = u
    <2>1. /\ resource'[Of[u]] = u
          /\ \A r \in Recordings \ {Of[u]} : resource'[r] = resource[r]
        BY <1>1, <1>8 DEF TypeOK
    <2>2. Established'
        BY <1>1, <1>3, <1>5, <1>8, <2>1 DEF Established
    <2>3. Charged'
        BY <1>1, <1>3, <1>5, <1>8, <2>1 DEF Charged
    <2>4. Kept'
        BY <1>1, <2>1 DEF Kept
    <2>5. CompletedIsIngested'
        BY <1>1, <2>1 DEF CompletedIsIngested
    <2> QED BY <1>6, <2>2, <2>3, <2>4, <2>5 DEF Rest
<1> QED BY <1>4, <1>7, <1>8

LEMMA FailStep ==
    ASSUME IInv, NEW t \in Threads, Fail(t) PROVE Rest'
<1> USE UploadAssumption, RequestFacts DEF IInv, Order
<1> DEFINE u == req[t].of
<1>1. u \in Uploads /\ req[t].pc = "fail"
    BY DEF Fail
<1>2. /\ session' = Written(u, "failed") /\ Ends(t)
      /\ UNCHANGED <<resource, file, sweep, cut>>
    BY DEF Fail
<1>3. /\ req'[t].pc = "idle" /\ req'[t].of = NoUpload
      /\ \A x \in Threads \ {t} : req'[x] = req[x]
    BY <1>2, EndsFact
<1>4. /\ session'[u].status = "failed"
      /\ \A v \in Uploads \ {u} : session'[v] = session[v]
    BY <1>1, <1>2, WrittenFact DEF Status
<1>5. \A r \in Recordings : resource[r] = u => u \in cut
    BY <1>1, NotCharged
<1> HIDE DEF u
<1>6. Alone' /\ Current' /\ Untouched'
    BY <1>1, <1>2, <1>3, <1>4, OrderOfRequest DEF u
<1>7. Established' /\ Charged' /\ Kept' /\ CompletedIsIngested'
    BY <1>1, <1>2, <1>3, <1>4, <1>5, RestOfRequest DEF u
<1> QED BY <1>6, <1>7 DEF Rest

LEMMA FinishStep ==
    ASSUME IInv, NEW t \in Threads, Finish(t) PROVE Rest'
<1> USE UploadAssumption, RequestFacts DEF IInv, Order
<1> DEFINE u == req[t].of
<1>1. u \in Uploads /\ req[t].pc = "finish" /\ resource[Of[u]] # NoUpload
    BY DEF Finish, Established
<1>2. /\ session' = [Written(u, "completed") EXCEPT ![u].resourceOf = Of[u]]
      /\ UNCHANGED <<resource, file, sweep, cut>> /\ Ends(t)
    BY DEF Finish
<1>3. /\ req'[t].pc = "idle" /\ req'[t].of = NoUpload
      /\ \A x \in Threads \ {t} : req'[x] = req[x]
    BY <1>2, EndsFact
<1>4. /\ session'[u].status = "completed" /\ session'[u].resourceOf = Of[u]
      /\ \A v \in Uploads \ {u} : session'[v] = session[v]
    BY <1>1, <1>2, FinishFact
<1> HIDE DEF u
<1>5. Alone' /\ Current' /\ Untouched'
    BY <1>1, <1>2, <1>3, <1>4, OrderOfRequest DEF u
<1>6. Established' /\ Charged' /\ Kept' /\ CompletedIsIngested'
    BY <1>1, <1>2, <1>3, <1>4, RestOfRequest DEF u
<1> QED BY <1>5, <1>6 DEF Rest

LEMMA KillRequestStep ==
    ASSUME IInv, NEW t \in Threads, KillRequest(t) PROVE Rest'
<1> USE UploadAssumption, RequestFacts DEF IInv, Order
<1> DEFINE u == req[t].of
<1>1. u \in Uploads /\ UNCHANGED <<session, resource, file, sweep>> /\ Ends(t)
    BY DEF KillRequest
<1>2. /\ cut \subseteq cut'
      /\ req[t].pc = "finish" => u \in cut'
    BY DEF KillRequest
<1>3. /\ req'[t].pc = "idle" /\ req'[t].of = NoUpload
      /\ \A x \in Threads \ {t} : req'[x] = req[x]
    BY <1>1, EndsFact
<1>4. \A r \in Recordings : resource[r] = u =>
          u \in cut' \/ session'[u].status \in {"completed", "dropped"}
    <2>1. CASE req[t].pc = "finish"
        BY <1>2, <2>1
    <2>2. CASE req[t].pc # "finish"
        BY <1>1, <1>2, <2>2, NotCharged
    <2> QED BY <2>1, <2>2
<1>5. session[u].status # "completed"
    BY <1>1 DEF Current
<1> HIDE DEF u
<1>6. Alone' /\ Current' /\ Untouched'
    BY <1>1, <1>3, OrderOfRequest DEF u
<1>7. Established' /\ Charged' /\ Kept' /\ CompletedIsIngested'
    BY <1>1, <1>2, <1>3, <1>4, <1>5, RestOfRequest DEF u
<1> QED BY <1>6, <1>7 DEF Rest

LEMMA GoesQuietStep ==
    ASSUME IInv, NEW u \in Uploads, GoesQuiet(u) PROVE Rest'
<1> USE UploadAssumption, RequestFacts DEF IInv, Order
<1>1. /\ session'[u].status = session[u].status
      /\ session'[u].resourceOf = session[u].resourceOf
      /\ \A v \in Uploads \ {u} : session'[v] = session[v]
      /\ UNCHANGED <<resource, file, req, sweep, cut>>
    BY QuietFact DEF GoesQuiet
<1>2. u \notin sweep.found /\ \A t \in Threads : req[t].of # u
    BY DEF GoesQuiet, At, Untouched
<1>3. Alone' /\ Established'
    BY <1>1 DEF Alone, Established
<1>4. Current'
    BY <1>1, <1>2 DEF Current
<1>5. Untouched'
    BY <1>1, <1>2 DEF Untouched
<1>6. Charged'
    BY <1>1 DEF Charged
<1>7. Kept' /\ CompletedIsIngested'
    BY <1>1 DEF Kept, CompletedIsIngested
<1> QED BY <1>3, <1>4, <1>5, <1>6, <1>7 DEF Rest

LEMMA SweepSelectStep ==
    ASSUME IInv, SweepSelect PROVE Rest'
<1> USE UploadAssumption, RequestFacts DEF IInv, Order
<1>1. /\ UNCHANGED <<session, resource, file, req, cut>>
      /\ sweep'.todo = Abandoned /\ sweep'.found = Abandoned
    BY DEF SweepSelect
<1>2. Untouched'
    BY <1>1 DEF Untouched, Abandoned, Current
<1>3. Alone' /\ Current' /\ Established'
    BY <1>1 DEF Alone, Current, Established
<1>4. Charged' /\ Kept' /\ CompletedIsIngested'
    BY <1>1 DEF Charged, Kept, CompletedIsIngested
<1> QED BY <1>2, <1>3, <1>4 DEF Rest

LEMMA SweepRemoveStep ==
    ASSUME IInv, SweepRemove PROVE Rest'
<1> USE UploadAssumption, RequestFacts DEF IInv, Order
<1>1. PICK u \in sweep.todo :
          /\ file' = [file EXCEPT ![u] = NoFile]
          /\ sweep' = [sweep EXCEPT !.todo = @ \ {u}]
    BY DEF SweepRemove
<1>2. UNCHANGED <<session, resource, req, cut>>
    BY DEF SweepRemove
<1>3. /\ u \in sweep.found /\ u \in Uploads
      /\ \A v \in Uploads \ {u} : file'[v] = file[v]
      /\ \A t \in Threads : req[t].of # u
    BY <1>1 DEF Untouched, TypeOK
<1>4. sweep'.found = sweep.found /\ sweep'.todo \subseteq sweep.todo
    BY <1>1 DEF TypeOK, Sweep
<1>5. \A r \in Recordings : resource[r] = u => u \in cut
    BY <1>3, NotCharged
<1>6. Alone' /\ Current'
    BY <1>2 DEF Alone, Current
<1>7. Untouched'
    BY <1>2, <1>4 DEF Untouched
<1>8. Established'
    BY <1>2, <1>3 DEF Established
<1>9. Charged' /\ CompletedIsIngested'
    BY <1>2 DEF Charged, CompletedIsIngested
<1>10. Kept'
    BY <1>2, <1>3, <1>5 DEF Kept
<1> QED BY <1>6, <1>7, <1>8, <1>9, <1>10 DEF Rest

LEMMA SweepCommitStep ==
    ASSUME IInv, SweepCommit PROVE Rest'
<1> USE UploadAssumption, RequestFacts DEF IInv, Order
<1>1. UNCHANGED <<resource, file, req, cut>> /\ sweep'.todo = {} /\ sweep'.found = {}
    BY DEF SweepCommit, Resting
<1>2. \A u \in Uploads :
          \/ session'[u] = session[u]
          \/ u \in sweep.found /\ session'[u].status = "failed"
    BY SweptFact DEF SweepCommit
<1>3. \A u \in sweep.found : \A r \in Recordings : resource[r] = u => u \in cut
    BY NotCharged
<1>4. \A t \in Threads : req[t].of # NoUpload => session'[req[t].of] = session[req[t].of]
    BY <1>2 DEF Untouched
<1>5. Alone' /\ Established'
    BY <1>1 DEF Alone, Established
<1>6. Current'
    BY <1>1, <1>4 DEF Current
<1>7. Untouched'
    BY <1>1 DEF Untouched
<1>8. Charged'
    BY <1>1, <1>2, <1>3 DEF Charged
<1>9. Kept' /\ CompletedIsIngested'
    BY <1>1, <1>2 DEF Kept, CompletedIsIngested
<1> QED BY <1>5, <1>6, <1>7, <1>8, <1>9 DEF Rest

LEMMA SweepDropStep ==
    ASSUME IInv, SweepDrop PROVE Rest'
<1> USE UploadAssumption, RequestFacts DEF IInv, Order
<1>1. UNCHANGED <<resource, file, req, cut>> /\ sweep'.todo = {} /\ sweep'.found = {}
    BY DEF SweepDrop, Resting
<1>2. PICK old \in SUBSET {u \in Uploads : Settled(u) /\ session[u].quiet} :
          session' = [u \in Uploads |-> IF u \in old
                          THEN [session[u] EXCEPT !.status = "dropped"] ELSE session[u]]
    BY DEF SweepDrop
<1>3. \A u \in Uploads :
          \/ session'[u] = session[u]
          \/ /\ session[u].quiet /\ Settled(u)
             /\ session'[u].status = "dropped"
    BY <1>2, SweptFact
<1>4. \A t \in Threads : req[t].of # NoUpload => session'[req[t].of] = session[req[t].of]
    BY <1>3 DEF Current
<1>5. Alone' /\ Established'
    BY <1>1 DEF Alone, Established
<1>6. Current'
    BY <1>1, <1>4 DEF Current
<1>7. Untouched'
    BY <1>1 DEF Untouched
<1>8. Charged'
    BY <1>1, <1>3 DEF Charged
<1>9. Kept' /\ CompletedIsIngested'
    BY <1>1, <1>3 DEF Kept, CompletedIsIngested
<1> QED BY <1>5, <1>6, <1>7, <1>8, <1>9 DEF Rest

LEMMA KillSweepStep ==
    ASSUME IInv, KillSweep PROVE Rest'
<1> USE UploadAssumption, RequestFacts DEF IInv, Order
<1>1. /\ UNCHANGED <<session, resource, file, req>> /\ cut \subseteq cut'
      /\ sweep'.todo = {} /\ sweep'.found = {}
    BY DEF KillSweep, Resting
<1>2. Alone' /\ Current' /\ Untouched' /\ Established'
    BY <1>1 DEF Alone, Current, Untouched, Established
<1>3. Charged'
    BY <1>1 DEF Charged
<1>4. Kept' /\ CompletedIsIngested'
    BY <1>1 DEF Kept, CompletedIsIngested
<1> QED BY <1>2, <1>3, <1>4 DEF Rest

LEMMA FileStep ==
    ASSUME IInv, NEW r \in Recordings, File(r) PROVE Rest'
<1> USE UploadAssumption, RequestFacts DEF IInv, Order
<1> DEFINE u == resource[r]
<1>1. /\ u \in Uploads /\ Of[u] = r
      /\ UNCHANGED <<session, req, sweep, cut>>
    BY DEF File, Charged
<1>2. /\ \A v \in Uploads \ {u} : file'[v] = file[v]
      /\ resource'[r] = Filed
      /\ \A q \in Recordings \ {r} : resource'[q] = resource[q]
    BY DEF File, TypeOK
<1> HIDE DEF u
<1>3. Alone' /\ Current' /\ Untouched'
    BY <1>1 DEF Alone, Current, Untouched
<1>4. Established'
    BY <1>1, <1>2 DEF Established, u
<1>5. Charged'
    BY <1>1, <1>2 DEF Charged
<1>6. Kept'
    BY <1>1, <1>2 DEF Kept, Charged, u
<1>7. CompletedIsIngested'
    BY <1>1, <1>2 DEF CompletedIsIngested
<1> QED BY <1>3, <1>4, <1>5, <1>6, <1>7 DEF Rest

-----------------------------------------------------------------------------
LEMMA Start == Init => IInv
<1> SUFFICES ASSUME Init PROVE IInv
    OBVIOUS
<1> USE UploadAssumption
<1>1. session \in [Uploads -> Session]
    BY DEF Init, Session, Status
<1>2. req \in [Threads -> Request] /\ sweep \in Sweep
    BY DEF Init, Done, Resting, Request, Sweep, ReqPc
<1>3. crashes \in 0 .. MaxCrashes /\ cut \subseteq Uploads
    BY DEF Init
<1>4. TypeOK
    BY <1>1, <1>2, <1>3 DEF Init, TypeOK
<1>5. \A t \in Threads : req[t].pc = "idle" /\ req[t].of = NoUpload
    BY DEF Init, Done
<1>6. Order
    BY <1>5 DEF Order, ReqShape, Alone, Current, Untouched, Init, Resting
<1>7. Established
    BY <1>5 DEF Established
<1>8. Charged /\ Kept
    BY DEF Init, Charged, Kept
<1>9. CompletedIsIngested
    BY DEF Init, CompletedIsIngested
<1> QED BY <1>4, <1>6, <1>7, <1>8, <1>9 DEF IInv

LEMMA Inductive ==
    ASSUME Polite, IInv, [Next]_vars
    PROVE  IInv'
<1>1. TypeOK' /\ ReqShape'
    BY TypeStep DEF IInv, Order
<1>2. Rest'
    <2>1. CASE UNCHANGED vars
        BY <2>1 DEF vars, Rest, IInv, Order, Alone, Current, Untouched, Established,
                    Charged, Kept, CompletedIsIngested
    <2>2. CASE Next
        BY <2>2, ArrivesStep, InitiateCreateStep, ChunkAppendStep, ChunkCountStep,
           HashIngestStep, InsertStep, FailStep, FinishStep, KillRequestStep,
           GoesQuietStep, SweepSelectStep, SweepRemoveStep, SweepCommitStep,
           SweepDropStep, KillSweepStep, FileStep DEF Next, RequestStep, SweepStep
    <2> QED BY <2>1, <2>2
<1> QED BY <1>1, <1>2 DEF IInv, Order, Rest

(* A settled row changes only when the sweep deletes it.                   *)
LEMMA SettledStep ==
    ASSUME IInv, [Next]_vars, NEW u \in Uploads, Settled(u)
    PROVE  session'[u].status \in {session[u].status, "dropped"}
<1> USE UploadAssumption, RequestFacts DEF IInv, Order
<1>1. /\ u \notin sweep.found
      /\ \A t \in Threads : req[t].of # u
    BY DEF Untouched, Current, Settled
<1>2. CASE UNCHANGED session
    BY <1>2
<1>3. ASSUME NEW t \in Threads,
             InitiateCreate(t) \/ ChunkCount(t) \/ Fail(t) \/ Finish(t)
      PROVE  session'[u] = session[u]
    <2>1. req[t].of \in Uploads /\ req[t].of # u
        BY <1>1, <1>3 DEF InitiateCreate, ChunkCount, Fail, Finish
    <2>2. CASE ChunkCount(t)
        BY <2>1, <2>2, CountFact
    <2>3. CASE Finish(t)
        BY <2>1, <2>3, FinishFact DEF Finish
    <2>4. ASSUME NEW status \in Status PROVE Written(req[t].of, status)[u] = session[u]
        BY <2>1, WrittenElsewhere
    <2> QED BY <1>3, <2>2, <2>3, <2>4 DEF InitiateCreate, Fail, Status
<1>4. ASSUME NEW v \in Uploads, GoesQuiet(v) PROVE session'[u].status = session[u].status
    BY <1>4, QuietFact DEF GoesQuiet
<1>5. CASE SweepCommit
    BY <1>1, <1>5 DEF SweepCommit
<1>6. CASE SweepDrop
    <2>1. PICK old \in SUBSET {v \in Uploads : Settled(v) /\ session[v].quiet} :
              session' = [v \in Uploads |-> IF v \in old
                              THEN [session[v] EXCEPT !.status = "dropped"] ELSE session[v]]
        BY <1>6 DEF SweepDrop
    <2> QED BY <2>1, SweptFact
<1>7. ASSUME NEW t \in Threads, NEW v \in Uploads,
             InitiateCheck(t, v) \/ ChunkCheck(t, v) \/ CompleteCheck(t, v)
      PROVE  UNCHANGED session
    BY <1>7, ArrivalCases DEF Arrives
<1>8. ASSUME NEW t \in Threads, \/ ChunkAppend(t) \/ Hash(t) \/ Ingest(t)
                                \/ Insert(t) \/ KillRequest(t)
      PROVE  UNCHANGED session
    BY <1>8 DEF ChunkAppend, Hash, Ingest, Insert, KillRequest
<1>9. CASE SweepSelect \/ SweepRemove \/ KillSweep
    BY <1>9 DEF SweepSelect, SweepRemove, KillSweep
<1>10. ASSUME NEW r \in Recordings, File(r) PROVE UNCHANGED session
    BY <1>10 DEF File
<1> QED BY <1>2, <1>3, <1>4, <1>5, <1>6, <1>7, <1>8, <1>9, <1>10
        DEF Next, RequestStep, SweepStep, vars

-----------------------------------------------------------------------------
(* A body written after the n units before it makes n + 1.                 *)
LEMMA BegunFact ==
    ASSUME NEW n \in Nat
    PROVE  Append(Begun(n), n + 1) = Begun(n + 1)
<1>1. /\ Begun(n) \in Seq(1 .. n + 1) /\ Len(Begun(n)) = n
      /\ Begun(n + 1) \in Seq(1 .. n + 1) /\ Len(Begun(n + 1)) = n + 1
    BY DEF Begun
<1>2. /\ Append(Begun(n), n + 1) \in Seq(1 .. n + 1)
      /\ Len(Append(Begun(n), n + 1)) = n + 1
    BY <1>1
<1>3. \A i \in 1 .. n + 1 : Append(Begun(n), n + 1)[i] = Begun(n + 1)[i]
    BY <1>1 DEF Begun
<1> DEFINE s == Append(Begun(n), n + 1)
           t == Begun(n + 1)
<1>4. s \in Seq(1 .. n + 1) /\ t \in Seq(1 .. n + 1) /\ Len(s) = n + 1 /\ Len(t) = n + 1
    BY <1>1, <1>2
<1> HIDE DEF s, t
<1>5. \A i \in 1 .. Len(s) : s[i] = t[i]
    BY <1>3, <1>4 DEF s, t
<1>6. s = t
    BY <1>4, <1>5, SeqEqual
<1> QED BY <1>6 DEF s, t

(* A step that leaves an upload's row, file and requests alone.            *)
LEMMA EvenKept ==
    ASSUME NEW u \in Uploads, Even(u),
           session'[u] = session[u], file'[u] = file[u],
           \A x \in Threads : req'[x] = req[x] \/ (req[x].of # u /\ req'[x].of # u),
           u \in cut => u \in cut',
           u \in sweep.found \ sweep.todo => u \in cut' \cup (sweep'.found \ sweep'.todo)
    PROVE  Even(u)'
<1>1. At(u)' = At(u) /\ \A x \in At(u) : req'[x] = req[x]
    BY DEF At
<1> QED BY <1>1 DEF Even

(* A step of a request, at its own upload: that upload is what has to be   *)
(* looked at.                                                              *)
LEMMA EvenOfRequest ==
    ASSUME Staged, Order, NEW t \in Threads, NEW u \in Uploads,
           req[t].of \in {u, NoUpload}, req'[t].of \in {u, NoUpload},
           \A x \in Threads \ {t} : req'[x] = req[x],
           \A v \in Uploads \ {u} : session'[v] = session[v] /\ file'[v] = file[v],
           sweep' = sweep, cut \subseteq cut',
           Even(u)'
    PROVE  Staged'
<1> USE UploadAssumption
<1>1. ASSUME NEW v \in Uploads, v # u PROVE Even(v)'
    <2>1. Even(v)
        BY DEF Staged
    <2>2. session'[v] = session[v] /\ file'[v] = file[v]
        BY <1>1
    <2>3. \A x \in Threads : req'[x] = req[x] \/ (req[x].of # v /\ req'[x].of # v)
        BY <1>1
    <2>4. sweep'.found \ sweep'.todo = sweep.found \ sweep.todo
        OBVIOUS
    <2> QED BY <2>1, <2>2, <2>3, <2>4, EvenKept
<1> QED BY <1>1 DEF Staged

(* The request at an upload, and that it is the only one.                  *)
LEMMA OwnRequest ==
    ASSUME Order, NEW t \in Threads, NEW u \in Uploads, req[t].of = u,
           \A x \in Threads \ {t} : req'[x] = req[x]
    PROVE  /\ At(u) = {t}
           /\ req'[t].of = u => At(u)' = {t}
           /\ req'[t].of = NoUpload => At(u)' = {}
           /\ u \notin sweep.found
BY UploadAssumption DEF Order, Alone, At, Untouched

LEMMA ArrivesEven ==
    ASSUME IInv, Polite, Staged, NEW t \in Threads, NEW u \in Uploads,
           InitiateCheck(t, u) \/ ChunkCheck(t, u) \/ CompleteCheck(t, u)
    PROVE  Staged'
<1> USE UploadAssumption, RequestFacts DEF IInv, Order
<1>1. PICK pc \in {"create", "append", "hash"}, status \in {"absent", "uploading"} :
          Arrives(t, u, pc, status) /\ (pc = "create" <=> status = "absent")
    BY ArrivalCases
<1>2. /\ req[t].of = NoUpload /\ At(u) = {} /\ session[u].status = status
      /\ UNCHANGED <<session, resource, file, sweep, cut>>
    BY <1>1 DEF Arrives, Polite, Order, ReqShape
<1>3. /\ req'[t].pc = pc /\ req'[t].of = u /\ req'[t].read = session[u].received
      /\ \A x \in Threads \ {t} : req'[x] = req[x]
    BY <1>1 DEF Arrives, TypeOK
<1>4. At(u)' = {t}
    BY <1>2, <1>3 DEF At
<1>5. Even(u)'
    BY <1>1, <1>2, <1>3, <1>4 DEF Even, Staged
<1> QED BY <1>2, <1>3, <1>5, EvenOfRequest

LEMMA InitiateCreateEven ==
    ASSUME IInv, Staged, NEW t \in Threads, InitiateCreate(t) PROVE Staged'
<1> USE UploadAssumption, RequestFacts DEF IInv, Order
<1>0. PICK u \in Uploads : req[t].of = u
    BY DEF InitiateCreate
<1>1. session[u].status = "absent" /\ session[u].received = 0
    BY <1>0 DEF InitiateCreate, Order, Current, Staged, Even
<1>2. /\ session' = Written(u, "uploading") /\ file' = [file EXCEPT ![u] = << >>]
      /\ UNCHANGED <<resource, sweep, cut>> /\ Ends(t)
    BY <1>0, <1>1 DEF InitiateCreate
<1>3. /\ req'[t].of = NoUpload
      /\ \A x \in Threads \ {t} : req'[x] = req[x]
    BY <1>0, <1>2, EndsFact
<1>4. /\ session'[u].status = "uploading" /\ session'[u].received = 0
      /\ \A v \in Uploads \ {u} : session'[v] = session[v]
    <2> DEFINE s == Written(u, "uploading")
    <2>1. /\ s[u].status = "uploading" /\ s[u].received = session[u].received
          /\ \A v \in Uploads \ {u} : s[v] = session[v]
        BY <1>0, <1>1, WrittenFact DEF Status
    <2>2. session' = s
        BY <1>0, <1>2
    <2> HIDE DEF s
    <2> QED BY <1>0, <1>1, <2>1, <2>2
<1>5. file'[u] = << >> /\ \A v \in Uploads \ {u} : file'[v] = file[v]
    BY <1>0, <1>1, <1>2 DEF TypeOK
<1>6. At(u)' = {}
    BY <1>0, <1>1, <1>3, OwnRequest
<1>7. Begun(0) = << >>
    BY DEF Begun
<1>8. Even(u)'
    BY <1>0, <1>4, <1>5, <1>6, <1>7 DEF Even
<1> QED BY <1>0, <1>1, <1>2, <1>3, <1>4, <1>5, <1>8, EvenOfRequest

LEMMA ChunkAppendEven ==
    ASSUME IInv, Staged, NEW t \in Threads, ChunkAppend(t) PROVE Staged'
<1> USE UploadAssumption, RequestFacts DEF IInv, Order
<1>0. PICK u \in Uploads : req[t].of = u
    BY DEF ChunkAppend
<1> DEFINE n == session[u].received
<1>1. /\ u \in Uploads /\ req[t].pc = "append" /\ n \in Nat
      /\ UNCHANGED <<session, resource, sweep, cut>>
    BY <1>0 DEF ChunkAppend, TypeOK, Session
<1>2. \A v \in Uploads \ {u} : file'[v] = file[v]
    BY <1>0 DEF ChunkAppend, TypeOK
<1>3. u \notin cut => file[u] = Begun(n) /\ req[t].read = n
    BY <1>0, <1>1, OwnRequest DEF Staged, Even, Order, Untouched, At
<1>4. CASE Ends(t) /\ UNCHANGED file
    <2>1. req'[t].of = NoUpload /\ \A x \in Threads \ {t} : req'[x] = req[x]
        BY <1>0, <1>4, EndsFact
    <2>2. At(u)' = {}
        BY <1>0, <1>1, <2>1, OwnRequest
    <2>3. Even(u)'
        BY <1>0, <1>1, <1>3, <1>4, <2>2 DEF Even, Staged
    <2> QED BY <1>0, <1>1, <1>2, <2>1, <2>3, EvenOfRequest
<1>5. CASE Goes(t, "count") /\ file' = [file EXCEPT ![u] = Append(@, req[t].read + 1)]
    <2>1. /\ req'[t].pc = "count" /\ req'[t].of = u /\ req'[t].read = req[t].read
          /\ \A x \in Threads \ {t} : req'[x] = req[x]
        BY <1>0, <1>5, GoesFact DEF ReqPc
    <2>2. At(u)' = {t}
        BY <1>0, <1>1, <2>1, OwnRequest
    <2>3. file'[u] = Append(file[u], req[t].read + 1)
        BY <1>0, <1>1, <1>5 DEF TypeOK
    <2>4. u \notin cut => file'[u] = Begun(n + 1) /\ req'[t].read = n
        BY <1>0, <1>1, <1>3, <2>1, <2>3, BegunFact
    <2>5. Even(u)'
        BY <1>0, <1>1, <2>1, <2>2, <2>4 DEF Even, Staged
    <2> QED BY <1>0, <1>1, <1>2, <2>1, <2>5, EvenOfRequest
<1> QED BY <1>0, <1>4, <1>5 DEF ChunkAppend

LEMMA ChunkCountEven ==
    ASSUME IInv, Staged, NEW t \in Threads, ChunkCount(t) PROVE Staged'
<1> USE UploadAssumption, RequestFacts DEF IInv, Order
<1>0. PICK u \in Uploads : req[t].of = u
    BY DEF ChunkCount
<1>1. /\ u \in Uploads /\ req[t].pc = "count"
      /\ UNCHANGED <<resource, file, sweep, cut>> /\ Ends(t)
    BY <1>0 DEF ChunkCount
<1>2. u \notin cut => file[u] = Begun(session[u].received + 1)
                      /\ req[t].read = session[u].received
    BY <1>0, <1>1, OwnRequest DEF Staged, Even, Order, Untouched, At
<1>3. /\ req'[t].of = NoUpload
      /\ \A x \in Threads \ {t} : req'[x] = req[x]
    BY <1>0, <1>1, EndsFact
<1>4. /\ session'[u].status = session[u].status
      /\ session'[u].received = req[t].read + 1
      /\ \A v \in Uploads \ {u} : session'[v] = session[v]
    BY <1>0, <1>1, CountFact DEF Order
<1>5. session[u].status = "uploading"
    BY <1>0, <1>1 DEF Order, Current
<1>6. At(u)' = {}
    BY <1>0, <1>1, <1>3, OwnRequest
<1>7. Even(u)'
    BY <1>0, <1>1, <1>2, <1>4, <1>5, <1>6 DEF Even
<1> QED BY <1>0, <1>1, <1>3, <1>4, <1>7, EvenOfRequest

LEMMA CompleteEven ==
    ASSUME IInv, Staged, NEW t \in Threads, Hash(t) \/ Ingest(t) \/ Insert(t)
    PROVE  Staged'
<1> USE UploadAssumption, RequestFacts DEF IInv, Order
<1>0. PICK u \in Uploads : req[t].of = u
    BY DEF Hash, Ingest, Insert
<1>1. /\ u \in Uploads /\ req[t].pc \in {"hash", "ingest", "insert"}
      /\ UNCHANGED <<session, sweep, cut>>
    BY <1>0 DEF Hash, Ingest, Insert
<1>2. \A v \in Uploads \ {u} : file'[v] = file[v]
    BY <1>0 DEF Hash, Ingest, Insert, TypeOK
<1>3. u \notin cut => file[u] = Begun(session[u].received)
    BY <1>0, <1>1, OwnRequest DEF Staged, Even, Order, Untouched, At
<1>4. session[u].status = "uploading"
    BY <1>0, <1>1 DEF Order, Current
<1>5. \/ Ends(t) /\ UNCHANGED file
      \/ \E pc \in {"ingest", "insert"} : Goes(t, pc) /\ UNCHANGED file
      \/ \E pc \in {"finish", "fail"} : Goes(t, pc)
    BY <1>0 DEF Hash, Ingest, Insert
<1>6. /\ \A x \in Threads \ {t} : req'[x] = req[x]
      /\ \/ req'[t].of = NoUpload /\ UNCHANGED file
         \/ req'[t].of = u /\ req'[t].pc \in {"ingest", "insert"} /\ UNCHANGED file
         \/ req'[t].of = u /\ req'[t].pc \in {"finish", "fail"}
    <2>1. ASSUME NEW pc \in {"ingest", "insert", "finish", "fail"}, Goes(t, pc)
          PROVE  /\ req'[t].pc = pc /\ req'[t].of = u
                 /\ \A x \in Threads \ {t} : req'[x] = req[x]
        BY <1>0, <2>1, GoesFact DEF ReqPc
    <2>2. CASE Ends(t) /\ UNCHANGED file
        BY <1>0, <2>2, EndsFact
    <2> QED BY <1>0, <1>5, <2>1, <2>2
<1>7. /\ req'[t].of = u => At(u)' = {t}
      /\ req'[t].of = NoUpload => At(u)' = {}
    BY <1>0, <1>1, <1>6, OwnRequest
<1>8. Even(u)'
    BY <1>0, <1>1, <1>3, <1>4, <1>6, <1>7 DEF Even
<1> QED BY <1>0, <1>1, <1>2, <1>6, <1>8, EvenOfRequest

LEMMA OutcomeEven ==
    ASSUME IInv, Staged, NEW t \in Threads, Fail(t) \/ Finish(t)
    PROVE  Staged'
<1> USE UploadAssumption, RequestFacts DEF IInv, Order
<1>0. PICK u \in Uploads : req[t].of = u
    BY DEF Fail, Finish
<1>1. u \in Uploads /\ UNCHANGED <<file, sweep, cut>> /\ Ends(t)
    BY <1>0 DEF Fail, Finish
<1>2. /\ session'[u].status \in {"failed", "completed"}
      /\ \A v \in Uploads \ {u} : session'[v] = session[v]
    <2>1. CASE Fail(t)
        <3> DEFINE s == Written(u, "failed")
        <3>1. session' = s
            BY <1>0, <2>1 DEF Fail
        <3>2. s[u].status = "failed" /\ \A v \in Uploads \ {u} : s[v] = session[v]
            BY WrittenFact DEF Status
        <3> HIDE DEF s
        <3> QED BY <3>1, <3>2
    <2>2. CASE Finish(t)
        <3> DEFINE s == [Written(u, "completed") EXCEPT ![u].resourceOf = Of[u]]
        <3>1. session' = s
            BY <1>0, <2>2 DEF Finish
        <3>2. s[u].status = "completed" /\ \A v \in Uploads \ {u} : s[v] = session[v]
            BY FinishFact
        <3> HIDE DEF s
        <3> QED BY <3>1, <3>2
    <2> QED BY <2>1, <2>2
<1>3. /\ req'[t].of = NoUpload
      /\ \A x \in Threads \ {t} : req'[x] = req[x]
    BY <1>0, <1>1, EndsFact
<1>4. At(u)' = {}
    BY <1>0, <1>1, <1>3, OwnRequest
<1>5. Even(u)'
    BY <1>0, <1>2, <1>4 DEF Even
<1> QED BY <1>0, <1>1, <1>2, <1>3, <1>5, EvenOfRequest

LEMMA KillRequestEven ==
    ASSUME IInv, Staged, NEW t \in Threads, KillRequest(t) PROVE Staged'
<1> USE UploadAssumption, RequestFacts DEF IInv, Order
<1>0. PICK u \in Uploads : req[t].of = u
    BY DEF KillRequest
<1>1. /\ u \in Uploads /\ UNCHANGED <<session, file, sweep>> /\ Ends(t)
      /\ cut \subseteq cut'
      /\ req[t].pc \in {"count", "finish", "fail"} => u \in cut'
    BY <1>0 DEF KillRequest
<1>2. \/ req[t].pc \in {"count", "finish", "fail"}
      \/ req[t].pc = "create" /\ session[u].status = "absent"
      \/ req[t].pc \in {"append", "hash", "ingest", "insert"}
    <2>1. req[t].pc \in ReqPc /\ req[t].pc # "idle"
        BY <1>0 DEF KillRequest, TypeOK, Request
    <2> QED BY <1>0, <1>1, <2>1 DEF ReqPc, Order, Current
<1>3. /\ req'[t].of = NoUpload
      /\ \A x \in Threads \ {t} : req'[x] = req[x]
    BY <1>0, <1>1, EndsFact
<1>4. At(u)' = {} /\ At(u) = {t} /\ u \notin sweep.found
    BY <1>0, <1>1, <1>3, OwnRequest
<1>5. Even(u)'
    BY <1>0, <1>1, <1>2, <1>4 DEF Even, Staged
<1> QED BY <1>0, <1>1, <1>3, <1>5, EvenOfRequest

(* The sweep, the passing of days and the filing.                          *)
LEMMA OthersEven ==
    ASSUME IInv, Staged,
           \/ \E u \in Uploads : GoesQuiet(u)
           \/ SweepSelect \/ SweepRemove \/ SweepCommit \/ SweepDrop \/ KillSweep
           \/ \E r \in Recordings : File(r)
    PROVE  Staged'
<1> USE UploadAssumption, RequestFacts DEF IInv, Order
<1>1. ASSUME NEW u \in Uploads, GoesQuiet(u) PROVE Staged'
    <2>1. /\ session'[u].status = session[u].status
          /\ session'[u].received = session[u].received
          /\ \A v \in Uploads \ {u} : session'[v] = session[v]
          /\ UNCHANGED <<file, req, sweep, cut>>
        BY <1>1, QuietFact DEF GoesQuiet
    <2>2. \A v \in Uploads :
              /\ session'[v].status = session[v].status
              /\ session'[v].received = session[v].received
        BY <2>1
    <2> QED BY <2>1, <2>2 DEF Staged, Even, At
<1>2. CASE SweepSelect
    <2>1. /\ UNCHANGED <<session, file, req, cut>>
          /\ sweep'.pc = "remove" /\ sweep'.found = sweep'.todo
          /\ sweep.found = {}
        BY <1>2 DEF SweepSelect, Staged
    <2> QED BY <2>1, EvenKept DEF Staged
<1>3. CASE SweepRemove
    <2>1. PICK u \in sweep.todo :
              /\ file' = [file EXCEPT ![u] = NoFile]
              /\ sweep' = [sweep EXCEPT !.todo = @ \ {u}]
              /\ UNCHANGED <<session, req, cut>>
        BY <1>3 DEF SweepRemove
    <2>2. /\ u \in Uploads /\ u \in sweep.found
          /\ \A v \in Uploads \ {u} : file'[v] = file[v]
          /\ sweep'.pc = sweep.pc /\ sweep'.found = sweep.found
          /\ sweep'.todo = sweep.todo \ {u}
        BY <2>1 DEF Order, Untouched, TypeOK, Sweep
    <2>3. Even(u)'
        BY <2>1, <2>2 DEF Even, Staged
    <2>4. ASSUME NEW v \in Uploads \ {u} PROVE Even(v)'
        BY <2>1, <2>2, EvenKept DEF Staged
    <2> QED BY <2>2, <2>3, <2>4 DEF Staged
<1>4. CASE SweepCommit
    <2>1. /\ UNCHANGED <<file, req, cut>> /\ sweep'.found = {} /\ sweep.todo = {}
          /\ \A u \in Uploads :
                 IF u \in sweep.found THEN session'[u].status = "failed"
                 ELSE session'[u] = session[u]
        BY <1>4, SweptFact DEF SweepCommit, Resting
    <2>2. ASSUME NEW u \in sweep.found PROVE Even(u)'
        <3>1. At(u)' = {} /\ u \in Uploads
            BY <2>1 DEF Order, Untouched, At
        <3> QED BY <2>1, <3>1 DEF Even
    <2>3. ASSUME NEW u \in Uploads \ sweep.found PROVE Even(u)'
        BY <2>1, EvenKept DEF Staged
    <2> QED BY <2>1, <2>2, <2>3 DEF Staged
<1>5. CASE SweepDrop
    <2>1. PICK old \in SUBSET {u \in Uploads : Settled(u) /\ session[u].quiet} :
              session' = [u \in Uploads |-> IF u \in old
                              THEN [session[u] EXCEPT !.status = "dropped"]
                              ELSE session[u]]
        BY <1>5 DEF SweepDrop
    <2>2. UNCHANGED <<file, req, cut>> /\ sweep'.found = {} /\ sweep.found = {}
        BY <1>5 DEF SweepDrop, Resting, Staged
    <2>3. ASSUME NEW u \in old PROVE Even(u)'
        <3>1. session'[u].status = "dropped" /\ u \in Uploads /\ session[u].quiet
            BY <2>1, SweptFact
        <3>2. At(u)' = {}
            BY <2>2, <3>1 DEF Order, Current, At
        <3> QED BY <3>1, <3>2 DEF Even
    <2>4. ASSUME NEW u \in Uploads \ old PROVE Even(u)'
        BY <2>1, <2>2, EvenKept DEF Staged
    <2> QED BY <2>2, <2>3, <2>4 DEF Staged
<1>6. CASE KillSweep
    <2>1. /\ UNCHANGED <<session, file, req>> /\ sweep'.found = {}
          /\ cut' = cut \cup (sweep.found \ sweep.todo)
        BY <1>6 DEF KillSweep, Resting
    <2> QED BY <2>1, EvenKept DEF Staged
<1>7. ASSUME NEW r \in Recordings, File(r) PROVE Staged'
    <2>0. PICK u \in Uploads : resource[r] = u
        BY <1>7 DEF File
    <2>1. /\ UNCHANGED <<session, req, sweep, cut>>
          /\ \A v \in Uploads \ {u} : file'[v] = file[v]
        BY <1>7, <2>0 DEF File, TypeOK
    <2>2. \/ u \in cut
          \/ session[u].status \in {"completed", "dropped"}
          \/ \E t \in Threads : req[t].of = u /\ req[t].pc = "finish"
        BY <2>0 DEF Charged
    <2>3. Even(u)'
        <3>1. CASE u \in cut \/ session[u].status \in {"completed", "dropped"}
            <4>1. u \in cut \/ At(u) = {}
                BY <2>1, <3>1 DEF Order, Current, At
            <4> QED BY <2>1, <3>1, <4>1 DEF Even, Staged, At
        <3>2. ASSUME NEW t \in Threads, req[t].of = u, req[t].pc = "finish"
              PROVE  Even(u)'
            <4>1. At(u) = {t}
                BY <2>1, <3>2 DEF Order, Alone, At
            <4> QED BY <2>1, <3>2, <4>1 DEF Even, Staged, At
        <3> QED BY <2>2, <3>1, <3>2
    <2>4. ASSUME NEW v \in Uploads \ {u} PROVE Even(v)'
        BY <2>1, EvenKept DEF Staged
    <2> QED BY <2>1, <2>3, <2>4 DEF Staged
<1> QED BY <1>1, <1>2, <1>3, <1>4, <1>5, <1>6, <1>7

LEMMA StagedStep ==
    ASSUME Polite, IInv, Staged, [Next]_vars
    PROVE  Staged'
<1>1. CASE UNCHANGED vars
    BY <1>1 DEF vars, Staged, Even, At
<1>2. CASE Next
    BY <1>2, ArrivesEven, InitiateCreateEven, ChunkAppendEven, ChunkCountEven,
       CompleteEven, OutcomeEven, KillRequestEven, OthersEven
       DEF Next, RequestStep, SweepStep
<1> QED BY <1>1, <1>2

-----------------------------------------------------------------------------
(* How far the file of any upload may be ahead of its row: by the body     *)
(* that is written and not counted yet, and by one for each kill.          *)
Lead(u) == Len(file[u]) - session[u].received

Ahead(u) ==
    /\ session[u].status = "uploading" =>
           /\ \A t \in At(u) :
                  req[t].pc \in {"append", "count"} => req[t].read = session[u].received
           /\ file[u] # NoFile =>
                  /\ (\A t \in At(u) : req[t].pc # "count") => Lead(u) \in 0 .. crashes
                  /\ \A t \in At(u) : req[t].pc = "count" => Lead(u) - 1 \in 0 .. crashes
    /\ u \in sweep.found \ sweep.todo => file[u] = NoFile

(* A step that does not write or count a body of u's.                      *)
Calm(u) ==
    /\ session'[u].status = "uploading" =>
           session[u].status = "uploading" /\ session'[u].received = session[u].received
    /\ file'[u] \in {file[u], NoFile}
    /\ \A t \in Threads :
           \/ req'[t] = req[t]
           \/ req[t].of # u \/ req[t].pc # "count"
    /\ \A t \in Threads :
           \/ req'[t] = req[t]
           \/ req'[t].of # u \/ req'[t].pc \notin {"append", "count"}
           \/ req'[t].pc = "append" /\ req'[t].read = session[u].received
    /\ crashes' \in {crashes, crashes + 1}
    /\ u \in sweep'.found \ sweep'.todo => file'[u] = NoFile

LEMMA LeadFact ==
    ASSUME TypeOK, NEW u \in Uploads
    PROVE  /\ session[u].received \in Nat /\ crashes \in Nat
           /\ file[u] # NoFile => file[u] \in Seq(1 .. Size) /\ Len(file[u]) \in Nat
BY UploadAssumption DEF TypeOK, Session

LEMMA CalmKeeps ==
    ASSUME TypeOK, NEW u \in Uploads, Ahead(u), Calm(u)
    PROVE  Ahead(u)'
<1> SUFFICES ASSUME session'[u].status = "uploading"
             PROVE  /\ \A t \in At(u)' : req'[t].pc \in {"append", "count"} =>
                           req'[t].read = session'[u].received
                    /\ file'[u] # NoFile =>
                           /\ (\A t \in At(u)' : req'[t].pc # "count") =>
                                  Lead(u)' \in 0 .. crashes'
                           /\ \A t \in At(u)' : req'[t].pc = "count" =>
                                  Lead(u)' - 1 \in 0 .. crashes'
    BY DEF Ahead, Calm
<1>1. session[u].status = "uploading" /\ session'[u].received = session[u].received
    BY DEF Calm
<1>2. \A t \in At(u)' : req'[t].pc \in {"append", "count"} =>
          req'[t].read = session'[u].received
    BY <1>1 DEF Calm, Ahead, At
<1>3. \A t \in At(u)' : req'[t].pc = "count" => t \in At(u) /\ req[t].pc = "count"
    BY DEF Calm, At
<1>4. (\A t \in At(u)' : req'[t].pc # "count") => \A t \in At(u) : req[t].pc # "count"
    BY DEF Calm, At
<1>5. ASSUME file'[u] # NoFile
      PROVE  file[u] # NoFile /\ Lead(u)' = Lead(u)
    BY <1>1, <1>5 DEF Calm, Lead
<1>6. \A k \in Int : k \in 0 .. crashes => k \in 0 .. crashes'
    BY LeadFact DEF Calm
<1>7. file[u] # NoFile => Lead(u) \in Int
    BY LeadFact DEF Lead
<1> QED BY <1>1, <1>2, <1>3, <1>4, <1>5, <1>6, <1>7 DEF Ahead

(* A request that arrives has read the row as it is.                       *)
LEMMA ArrivesCalm ==
    ASSUME TypeOK, ReqShape, NEW t \in Threads, NEW v \in Uploads,
           InitiateCheck(t, v) \/ ChunkCheck(t, v) \/ CompleteCheck(t, v),
           NEW u \in Uploads, Ahead(u)
    PROVE  Calm(u)
<1>1. PICK pc \in {"create", "append", "hash"}, status \in {"absent", "uploading"} :
          Arrives(t, v, pc, status)
    BY ArrivalCases
<1>2. /\ req[t].pc = "idle" /\ UNCHANGED <<session, file, sweep, crashes>>
      /\ req'[t].pc = pc /\ req'[t].of = v /\ req'[t].read = session[v].received
      /\ \A x \in Threads \ {t} : req'[x] = req[x]
    BY <1>1 DEF Arrives, TypeOK
<1> QED BY <1>1, <1>2 DEF Calm, Ahead

(* A request's step does not concern another upload's file, and what is    *)
(* not a chunk's step does not write or count.                             *)
LEMMA RequestCalm ==
    ASSUME TypeOK, ReqShape, NEW t \in Threads, NEW u \in Uploads, Ahead(u),
           \/ RequestStep(t) /\ req[t].of # u
           \/ Hash(t) \/ Ingest(t) \/ Insert(t) \/ Fail(t) \/ Finish(t)
           \/ KillRequest(t) /\ (req[t].of # u \/ req[t].pc # "count")
    PROVE  Calm(u)
<1> USE UploadAssumption, RequestFacts
<1>0. PICK v \in Uploads : req[t].of = v
    BY DEF RequestStep, InitiateCreate, ChunkAppend, ChunkCount, Hash, Ingest, Insert,
           Fail, Finish, KillRequest
<1>1. \/ v # u /\ (InitiateCreate(t) \/ ChunkAppend(t) \/ ChunkCount(t))
      \/ Hash(t) \/ Ingest(t) \/ Insert(t) \/ Fail(t) \/ Finish(t)
      \/ KillRequest(t) /\ (v # u \/ req[t].pc # "count")
    BY <1>0 DEF RequestStep
<1>2. UNCHANGED sweep /\ crashes' \in {crashes, crashes + 1}
    BY <1>1 DEF InitiateCreate, ChunkAppend, ChunkCount, Hash, Ingest, Insert,
           Fail, Finish, KillRequest, Crashing
<1>3. /\ v # u => file'[u] = file[u] /\ session'[u] = session[u]
      /\ file'[u] \in {file[u], NoFile}
      /\ session'[u].status = "uploading" => session'[u] = session[u]
    <2>1. CASE InitiateCreate(t) /\ v # u
        BY <1>0, <2>1 DEF InitiateCreate, Written, TypeOK
    <2>2. CASE (ChunkAppend(t) \/ ChunkCount(t)) /\ v # u
        BY <1>0, <2>2 DEF ChunkAppend, ChunkCount, TypeOK
    <2>3. CASE Hash(t) \/ Ingest(t) \/ Insert(t) \/ KillRequest(t)
        BY <1>0, <2>3 DEF Hash, Ingest, Insert, KillRequest, TypeOK
    <2>4. CASE Fail(t)
        <3> DEFINE s == Written(v, "failed")
        <3>1. session' = s /\ UNCHANGED file
            BY <1>0, <2>4 DEF Fail
        <3>2. s[v].status = "failed" /\ \A x \in Uploads \ {v} : s[x] = session[x]
            BY WrittenFact DEF Status
        <3> HIDE DEF s
        <3> QED BY <3>1, <3>2
    <2>5. CASE Finish(t)
        <3> DEFINE s == [Written(v, "completed") EXCEPT ![v].resourceOf = Of[v]]
        <3>1. session' = s /\ UNCHANGED file
            BY <1>0, <2>5 DEF Finish
        <3>2. s[v].status = "completed" /\ \A x \in Uploads \ {v} : s[x] = session[x]
            BY FinishFact
        <3> HIDE DEF s
        <3> QED BY <3>1, <3>2
    <2> QED BY <1>1, <2>1, <2>2, <2>3, <2>4, <2>5
<1>4. /\ \A x \in Threads \ {t} : req'[x] = req[x]
      /\ \/ req'[t].of = NoUpload
         \/ req'[t].of = v /\ (v # u \/ req'[t].pc \notin {"append", "count"})
    <2>1. ASSUME NEW pc \in {"count", "ingest", "insert", "finish", "fail"}, Goes(t, pc)
          PROVE  /\ req'[t].pc = pc /\ req'[t].of = v
                 /\ \A x \in Threads \ {t} : req'[x] = req[x]
        BY <1>0, <2>1, GoesFact DEF ReqPc
    <2>2. Ends(t) => req'[t].of = NoUpload /\ \A x \in Threads \ {t} : req'[x] = req[x]
        BY EndsFact
    <2>3. \/ Ends(t)
          \/ v # u /\ Goes(t, "count")
          \/ \E pc \in {"ingest", "insert", "finish", "fail"} : Goes(t, pc)
        BY <1>1 DEF InitiateCreate, ChunkAppend, ChunkCount, Hash, Ingest, Insert,
               Fail, Finish, KillRequest
    <2> QED BY <2>1, <2>2, <2>3
<1>5. v # u \/ req[t].pc # "count"
    BY <1>1 DEF Hash, Ingest, Insert, Fail, Finish
<1> QED BY <1>0, <1>2, <1>3, <1>4, <1>5 DEF Calm, Ahead

(* Nor do the sweep, the passing of days and the filing.                   *)
LEMMA OthersCalm ==
    ASSUME IInv, NEW u \in Uploads, Ahead(u),
           \/ \E v \in Uploads : GoesQuiet(v)
           \/ SweepSelect \/ SweepRemove \/ SweepCommit \/ SweepDrop \/ KillSweep
           \/ \E r \in Recordings : File(r)
    PROVE  Calm(u)
<1> USE DEF IInv
<1>1. UNCHANGED req /\ crashes' \in {crashes, crashes + 1}
    BY DEF GoesQuiet, SweepSelect, SweepRemove, SweepCommit, SweepDrop, KillSweep,
           File, Crashing
<1>2. session'[u].status = "uploading" =>
          session[u].status = "uploading" /\ session'[u].received = session[u].received
    <2>1. ASSUME NEW v \in Uploads, GoesQuiet(v)
          PROVE  /\ session'[u].status = session[u].status
                 /\ session'[u].received = session[u].received
        BY <2>1, QuietFact DEF GoesQuiet
    <2>2. CASE SweepCommit \/ SweepDrop
        BY <2>2, SweptFact DEF SweepCommit, SweepDrop
    <2>3. SweepSelect \/ SweepRemove \/ KillSweep \/ (\E r \in Recordings : File(r)) =>
              UNCHANGED session
        BY DEF SweepSelect, SweepRemove, KillSweep, File
    <2> QED BY <2>1, <2>2, <2>3
<1>3. file'[u] \in {file[u], NoFile}
    BY DEF GoesQuiet, SweepSelect, SweepRemove, SweepCommit, SweepDrop, KillSweep,
           File, TypeOK
<1>4. u \in sweep'.found \ sweep'.todo => file'[u] = NoFile
    <2>1. CASE SweepRemove
        <3>1. PICK v \in sweep.todo : /\ file' = [file EXCEPT ![v] = NoFile]
                                      /\ sweep' = [sweep EXCEPT !.todo = @ \ {v}]
            BY <2>1 DEF SweepRemove
        <3>2. sweep'.found = sweep.found /\ sweep'.todo = sweep.todo \ {v}
            BY <3>1 DEF TypeOK, Sweep
        <3> QED BY <1>3, <3>1, <3>2 DEF Ahead, TypeOK
    <2>2. CASE SweepSelect \/ SweepCommit \/ SweepDrop \/ KillSweep
        <3>1. SweepSelect => sweep'.found = sweep'.todo
            BY DEF SweepSelect
        <3>2. SweepCommit => sweep'.found = {}
            BY DEF SweepCommit, Resting
        <3>3. SweepDrop \/ KillSweep => sweep' = Resting
            BY DEF SweepDrop, KillSweep
        <3>4. Resting.found = {}
            BY DEF Resting
        <3> QED BY <2>2, <3>1, <3>2, <3>3, <3>4
    <2>3. CASE (\E v \in Uploads : GoesQuiet(v)) \/ (\E r \in Recordings : File(r))
        BY <1>3, <2>3 DEF GoesQuiet, File, Ahead
    <2> QED BY <2>1, <2>2, <2>3
<1> QED BY <1>1, <1>2, <1>3, <1>4 DEF Calm

(* A body written, counted, or written and never counted.                  *)
LEMMA ChunkAhead ==
    ASSUME IInv, Staged, NEW t \in Threads, NEW u \in Uploads, Ahead(u), req[t].of = u,
           \/ InitiateCreate(t) \/ ChunkAppend(t) \/ ChunkCount(t)
           \/ KillRequest(t) /\ req[t].pc = "count"
    PROVE  Ahead(u)'
<1> USE UploadAssumption, RequestFacts DEF IInv, Order
<1> DEFINE n == session[u].received
<1>1. u \notin sweep.found /\ At(u) = {t} /\ n \in Nat /\ crashes \in Nat
    BY LeadFact DEF Alone, At, Untouched
<1>2. CASE InitiateCreate(t)
    <2>1. session[u].status = "absent" /\ n = 0
        BY <1>2 DEF InitiateCreate, Current, Staged, Even
    <2>2. /\ session' = Written(u, "uploading") /\ file' = [file EXCEPT ![u] = << >>]
          /\ UNCHANGED <<sweep, crashes>> /\ Ends(t)
        BY <1>2, <2>1 DEF InitiateCreate
    <2>3. At(u)' = {}
        BY <2>2, EndsFact, OwnRequest
    <2>4. session'[u].received = 0
        <3> DEFINE s == Written(u, "uploading")
        <3>1. s[u].received = 0
            BY <2>1, WrittenFact DEF Status
        <3>2. session' = s
            BY <2>2
        <3> HIDE DEF s
        <3> QED BY <3>1, <3>2
    <2>5. file'[u] = << >>
        BY <2>2 DEF TypeOK
    <2>6. Lead(u)' = 0
        BY <2>4, <2>5 DEF Lead
    <2> QED BY <1>1, <2>2, <2>3, <2>6 DEF Ahead
<1>3. CASE ChunkAppend(t)
    <2>1. /\ session[u].status = "uploading" /\ req[t].pc = "append" /\ req[t].read = n
          /\ UNCHANGED <<session, sweep, crashes>>
        BY <1>1, <1>3 DEF ChunkAppend, Current, Ahead
    <2>2. CASE Ends(t) /\ file[u] = NoFile /\ UNCHANGED file
        <3>1. At(u)' = {}
            BY <2>2, EndsFact, OwnRequest
        <3> QED BY <1>1, <2>1, <2>2, <3>1 DEF Ahead
    <2>3. CASE /\ file[u] # NoFile /\ Goes(t, "count")
               /\ file' = [file EXCEPT ![u] = Append(@, req[t].read + 1)]
        <3>1. /\ req'[t].pc = "count" /\ req'[t].of = u /\ req'[t].read = n
              /\ \A x \in Threads \ {t} : req'[x] = req[x]
            BY <2>1, <2>3, GoesFact DEF ReqPc
        <3>2. At(u)' = {t}
            BY <3>1, OwnRequest
        <3>3. Len(file'[u]) = Len(file[u]) + 1 /\ Len(file[u]) \in Nat
            BY <2>3, LeadFact DEF TypeOK
        <3>4. Lead(u) \in 0 .. crashes
            BY <1>1, <2>1, <2>3 DEF Ahead
        <3>5. Lead(u)' - 1 = Lead(u)
            BY <1>1, <2>1, <3>3 DEF Lead
        <3> QED BY <1>1, <2>1, <3>1, <3>2, <3>4, <3>5 DEF Ahead
    <2> QED BY <1>3, <2>2, <2>3 DEF ChunkAppend
<1>4. CASE ChunkCount(t)
    <2>1. /\ session[u].status = "uploading" /\ req[t].pc = "count" /\ req[t].read = n
          /\ UNCHANGED <<file, sweep, crashes>> /\ Ends(t)
        BY <1>1, <1>4 DEF ChunkCount, Current, Ahead
    <2>2. At(u)' = {}
        BY <2>1, EndsFact, OwnRequest
    <2>3. session'[u].received = n + 1
        BY <1>4, <2>1, CountFact
    <2>4. ASSUME file[u] # NoFile PROVE Lead(u)' \in 0 .. crashes
        <3>1. Lead(u) - 1 \in 0 .. crashes /\ Len(file[u]) \in Nat
            BY <1>1, <2>1, <2>4, LeadFact DEF Ahead
        <3>2. Lead(u)' = Lead(u) - 1
            BY <1>1, <2>1, <2>3, <3>1 DEF Lead
        <3> QED BY <3>1, <3>2
    <2> QED BY <1>1, <2>1, <2>2, <2>4 DEF Ahead
<1>5. CASE KillRequest(t) /\ req[t].pc = "count"
    <2>1. /\ session[u].status = "uploading"
          /\ UNCHANGED <<session, file, sweep>> /\ Ends(t) /\ crashes' = crashes + 1
        BY <1>5 DEF KillRequest, Crashing, Current
    <2>2. At(u)' = {}
        BY <2>1, EndsFact, OwnRequest
    <2>3. ASSUME file[u] # NoFile PROVE Lead(u)' \in 0 .. crashes'
        <3>1. Lead(u) - 1 \in 0 .. crashes /\ Len(file[u]) \in Nat
            BY <1>1, <1>5, <2>1, <2>3, LeadFact DEF Ahead
        <3>2. Lead(u)' = Lead(u) /\ Lead(u) \in Int
            BY <1>1, <2>1, <3>1 DEF Lead
        <3> QED BY <1>1, <2>1, <3>1, <3>2
    <2> QED BY <1>1, <2>1, <2>2, <2>3 DEF Ahead
<1> QED BY <1>2, <1>3, <1>4, <1>5

LEMMA AheadStep ==
    ASSUME IInv, Staged, NEW u \in Uploads, Ahead(u), [Next]_vars
    PROVE  Ahead(u)'
<1> USE DEF IInv, Order
<1>1. CASE UNCHANGED vars
    BY <1>1 DEF vars, Ahead, Lead, At
<1>2. ASSUME NEW t \in Threads, NEW v \in Uploads,
             InitiateCheck(t, v) \/ ChunkCheck(t, v) \/ CompleteCheck(t, v)
      PROVE  Ahead(u)'
    BY <1>2, ArrivesCalm, CalmKeeps
<1>3. ASSUME NEW t \in Threads, RequestStep(t) \/ KillRequest(t)
      PROVE  Ahead(u)'
    BY <1>3, RequestCalm, CalmKeeps, ChunkAhead DEF RequestStep
<1>4. CASE \/ \E v \in Uploads : GoesQuiet(v)
           \/ SweepStep \/ KillSweep
           \/ \E r \in Recordings : File(r)
    BY <1>4, OthersCalm, CalmKeeps DEF SweepStep
<1> QED BY <1>1, <1>2, <1>3, <1>4 DEF Next

-----------------------------------------------------------------------------
(* Every variable stays within its type, whatever order requests come in.  *)
THEOREM UploadTypeCorrect == Spec => []TypeOK
<1>1. Init => TypeOK /\ ReqShape
    BY Start DEF IInv, Order
<1>2. TypeOK /\ ReqShape /\ [Next]_vars => TypeOK' /\ ReqShape'
    BY TypeStep
<1> QED BY <1>1, <1>2, PTL DEF Spec

LEMMA Invariance ==
    ASSUME Polite
    PROVE  Spec => []IInv
<1>1. IInv /\ [Next]_vars => IInv'
    BY Inductive
<1> QED BY Start, <1>1, PTL DEF Spec

(* A recording the server has taken charge of is there until it is filed,  *)
(* for an app that sends an upload's requests one after another and leaves *)
(* alone what it has left for days: no matter how many uploads of it are   *)
(* completed at once, and when the sweep and the filing run.               *)
THEOREM AcceptedRecordingsKept ==
    ASSUME Polite
    PROVE  Spec => []Kept
<1>1. IInv => Kept
    BY DEF IInv
<1> QED BY Invariance, <1>1, PTL

(* What complete_upload has answered as completed has a Resource to show.  *)
THEOREM CompletedUploadsIngested ==
    ASSUME Polite
    PROVE  Spec => []CompletedIsIngested
<1>1. IInv => CompletedIsIngested
    BY DEF IInv
<1> QED BY Invariance, <1>1, PTL

(* The outcome of an upload is never reversed by a late commit.            *)
THEOREM OutcomesFinal ==
    ASSUME Polite
    PROVE  Spec => SettlesOnce
<1>1. IInv /\ [Next]_vars =>
          [\A u \in Uploads :
              Settled(u) => session'[u].status \in {session[u].status, "dropped"}]_vars
    BY SettledStep
<1> QED BY Invariance, <1>1, PTL DEF Spec, SettlesOnce

(* Between two requests the staging file is the part of the recording that *)
(* the row reports, so that the app can go on from there.  If requests of  *)
(* the upload were killed between file and row, it may be ahead of the row *)
(* by one body for each, never behind; and it may be gone, if the sweep is *)
(* at it, or a request or a sweep was killed that had removed it.          *)
THEOREM UploadsResumable ==
    ASSUME Polite
    PROVE  Spec => []Resumable
<1> DEFINE AllAhead == \A u \in Uploads : Ahead(u)
<1>1. Init => Staged
    BY DEF Init, Staged, Even, Resting, Done, At
<1>2. IInv /\ Staged /\ [Next]_vars => Staged'
    BY StagedStep
<1>3. Init => AllAhead
    <2> SUFFICES ASSUME Init, NEW u \in Uploads PROVE Ahead(u)
        OBVIOUS
    <2>1. session[u].status = "absent" /\ sweep.found = {}
        BY DEF Init, Resting
    <2> QED BY <2>1 DEF Ahead
<1>4. IInv /\ Staged /\ AllAhead /\ [Next]_vars => AllAhead'
    BY AheadStep
<1>5. Staged /\ AllAhead => Resumable
    <2> SUFFICES ASSUME Staged, AllAhead, NEW u \in Uploads,
                        session[u].status = "uploading", At(u) = {}
                 PROVE  \/ file[u] = Begun(session[u].received)
                        \/ u \in cut /\ file[u] # NoFile /\ Lead(u) \in 0 .. crashes
                        \/ /\ u \in cut \cup (sweep.found \ sweep.todo)
                           /\ file[u] = NoFile
        BY DEF Resumable, Lead
    <2>1. u \notin cut \cup (sweep.found \ sweep.todo) =>
              file[u] = Begun(session[u].received)
        BY DEF Staged, Even
    <2>2. Ahead(u)
        OBVIOUS
    <2>3. /\ file[u] # NoFile => Lead(u) \in 0 .. crashes
          /\ u \in sweep.found \ sweep.todo => file[u] = NoFile
        BY <2>2 DEF Ahead
    <2> QED BY <2>1, <2>3
<1> HIDE DEF AllAhead
<1> QED BY Invariance, <1>1, <1>2, <1>3, <1>4, <1>5, PTL DEF Spec

(* What complete_upload discards as redundant is redundant, for an app     *)
(* that sends one request at a time and where none is killed.  A complete  *)
(* sent again, at once or after a kill, finds its own upload's Resource.   *)
THEOREM RedundantDiscardedOnly ==
    ASSUME Polite, MaxCrashes = 0
    PROVE  Spec => OnlyRedundantDiscarded
<1> DEFINE Uncut == cut = {}
<1>1. Init => Uncut
    BY DEF Init
<1>2. IInv /\ Uncut /\ [Next]_vars => Uncut'
    <2> SUFFICES ASSUME IInv, Uncut, [Next]_vars PROVE cut' = {}
        OBVIOUS
    <2>1. crashes \in 0 .. MaxCrashes
        BY DEF IInv, TypeOK
    <2>2. ~Crashing
        BY <2>1 DEF Crashing
    <2>3. ASSUME NEW t \in Threads, NEW u \in Uploads,
                 InitiateCheck(t, u) \/ ChunkCheck(t, u) \/ CompleteCheck(t, u)
          PROVE  cut' = cut
        BY <2>3 DEF InitiateCheck, ChunkCheck, CompleteCheck, Arrives
    <2>4. ASSUME NEW t \in Threads, RequestStep(t) PROVE cut' = cut
        BY <2>4 DEF RequestStep, InitiateCreate, ChunkAppend, ChunkCount, Hash,
                    Ingest, Insert, Fail, Finish
    <2>5. ASSUME SweepStep PROVE cut' = cut
        BY <2>5 DEF SweepStep, SweepSelect, SweepRemove, SweepCommit, SweepDrop
    <2>6. ASSUME NEW t \in Threads, KillRequest(t) PROVE FALSE
        BY <2>2, <2>6 DEF KillRequest
    <2>7. ASSUME KillSweep PROVE FALSE
        BY <2>2, <2>7 DEF KillSweep
    <2>8. ASSUME NEW u \in Uploads, GoesQuiet(u) PROVE cut' = cut
        BY <2>8 DEF GoesQuiet
    <2>9. ASSUME NEW r \in Recordings, File(r) PROVE cut' = cut
        BY <2>9 DEF File
    <2> QED BY <2>3, <2>4, <2>5, <2>6, <2>7, <2>8, <2>9 DEF Next, vars
<1>3. IInv /\ Uncut /\ [Next]_vars =>
          [\A t \in Threads :
              req[t].pc = "ingest" /\ req'[t].pc = "finish" =>
                  \A r \in Recordings : resource[r] # req[t].of]_vars
    <2> SUFFICES ASSUME IInv, Uncut, NEW t \in Threads, req[t].pc = "ingest",
                        NEW r \in Recordings
                 PROVE  resource[r] # req[t].of
        OBVIOUS
    <2>1. PICK u \in Uploads : req[t].of = u
        BY RequestFacts DEF IInv, Order
    <2>2. resource[r] = u => u \in cut
        BY <2>1, NotCharged DEF IInv
    <2> QED BY <2>1, <2>2
<1> HIDE DEF Uncut
<1> QED BY Invariance, <1>1, <1>2, <1>3, PTL DEF Spec, OnlyRedundantDiscarded

=============================================================================

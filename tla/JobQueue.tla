------------------------------ MODULE JobQueue ------------------------------
(***************************************************************************)
(* The database-backed job queue (jobs/queue.py) and the loop of the       *)
(* worker processes that serve it (jobs/worker.py).                        *)
(*                                                                         *)
(* The table job_queue is one variable; a step is one transaction, so the  *)
(* functions of queue.py that read rows, do something, and then write are  *)
(* split at the read: recovery at worker start, the sweep for stale rows,  *)
(* and enqueue.  The writes go by primary key with no test of the row's    *)
(* present status, as the ORM issues them; the only guard the database     *)
(* adds is the partial unique index on the active rows of a job.           *)
(*                                                                         *)
(* A member of Workers is one worker PROCESS, "<host>:<pid>": a restart is *)
(* another member.  Time is relative: a queued row carries the ticks left  *)
(* until next_attempt_at, a running one its age since started_at.          *)
(***************************************************************************)
EXTENDS Integers

CONSTANTS
    Jobs,           \* job names (JOB_REGISTRY)
    Workers,        \* worker processes, in the order nobody chose
    HostOf,         \* the host each of them runs on
    Callers,        \* threads that call enqueue: requests, timers, jobs
    MaxRows,        \* bound: rows ever inserted
    MaxAttempts,    \* JOB_QUEUE_MAX_ATTEMPTS
    BaseDelay,      \* JOB_QUEUE_RETRY_BASE_DELAY_SECONDS, in ticks
    StaleTimeout,   \* JOB_QUEUE_STALE_RUNNING_TIMEOUT_SECONDS, in ticks
    Nobody,         \* locked_by IS NULL
    NoJob           \* the job of a row not inserted yet

Rows == 1 .. MaxRows        \* in the order of enqueued_at
NoRow == 0
Expired == -1               \* an ORM attribute to be read again when used

(* The delay after the n-th failure: base * 2^(n-1). *)
Backoff(n) == BaseDelay * 2 ^ (n - 1)

ASSUME QueueAssumption ==
    /\ MaxRows \in Nat
    /\ MaxAttempts \in Nat
    /\ StaleTimeout \in Nat
    /\ \A n \in 1 .. MaxAttempts : Backoff(n) \in Nat
    /\ Nobody \notin Workers
    /\ NoJob \notin Jobs

VARIABLES
    queue,      \* the table: a row for each member of Rows
    pc,         \* where each worker process is
    item,       \* the row a worker claimed and is executing
    seen,       \* rows a starting worker read, with the locker it read
    stale,      \* rows a sweep has still to mark, with the attempts it read
    enq,        \* where each caller of enqueue is
    usurped     \* history: rows written by another while a live worker ran them

vars == <<queue, pc, item, seen, stale, enq, usurped>>
workerVars == <<pc, item, seen, stale>>

-----------------------------------------------------------------------------
Status == {"absent", "queued", "running", "success", "failed-permanently"}

Row == [job : Jobs \cup {NoJob}, status : Status, attempts : Nat,
        delay : Nat, age : Nat, lockedBy : Workers \cup {Nobody}]

WorkerPc == {"new", "recover", "loop", "reap", "claim", "run", "dead"}
CallerPc == {"idle", "insert", "requery", "none"}

TypeOK ==
    /\ queue \in [Rows -> Row]
    /\ pc \in [Workers -> WorkerPc]
    /\ item \in [Workers -> Rows \cup {NoRow}]
    /\ seen \in [Workers -> SUBSET (Rows \X Workers)]
    /\ stale \in [Workers -> SUBSET (Rows \X (Nat \cup {Expired}))]
    /\ enq \in [Callers -> [pc : CallerPc, job : Jobs \cup {NoJob}]]
    /\ usurped \subseteq Rows

Absent == [job |-> NoJob, status |-> "absent", attempts |-> 0,
           delay |-> 0, age |-> 0, lockedBy |-> Nobody]

IsActive(row) == row.status \in {"queued", "running"}
IsSettled(row) == row.status \in {"success", "failed-permanently"}
ActiveRows(q, j) == {r \in Rows : IsActive(q[r]) /\ q[r].job = j}

(* The partial unique index uq_job_queue_active_job_name: a commit that    *)
(* would leave two active rows of one job raises IntegrityError.           *)
UniqueIndex(q) ==
    \A r, s \in Rows :
        IsActive(q[r]) /\ IsActive(q[s]) /\ q[r].job = q[s].job => r = s

(* x is recorded in q as the process running the row it executes.          *)
Holds(q, x) == q[item[x]].status = "running" /\ q[item[x]].lockedBy = x

(* Commit q as the table, on behalf of w; the history variable remembers   *)
(* each row some other live worker was executing and no longer holds.      *)
Commit(w, q) ==
    /\ queue' = q
    /\ usurped' = usurped \cup
           {item[x] : x \in {y \in Workers \ {w} : pc[y] = "run" /\ ~Holds(q, y)}}

-----------------------------------------------------------------------------
(* enqueue                                                                 *)

Idle == [pc |-> "idle", job |-> NoJob]

(* The pre-check found no active row.  (When it finds one, enqueue returns *)
(* that row and changes nothing.)                                          *)
EnqueueCheck(c, j) ==
    /\ enq[c].pc = "idle"
    /\ ActiveRows(queue, j) = {}
    /\ enq' = [enq EXCEPT ![c] = [pc |-> "insert", job |-> j]]
    /\ UNCHANGED <<queue, workerVars, usurped>>

NextRow(r) ==
    /\ queue[r].status = "absent"
    /\ \A s \in Rows : s < r => queue[s].status # "absent"

Inserted(r, j) == [queue EXCEPT ![r] = [Absent EXCEPT !.job = j, !.status = "queued"]]

EnqueueInsertUnindexed(c) ==
    \E r \in Rows :
        /\ enq[c].pc = "insert"
        /\ NextRow(r)
        /\ queue' = Inserted(r, enq[c].job)
        /\ enq' = [enq EXCEPT ![c] = Idle]
        /\ UNCHANGED <<workerVars, usurped>>

(* INSERT and commit, or IntegrityError and rollback.                      *)
EnqueueInsert(c) ==
    \E r \in Rows :
        /\ enq[c].pc = "insert"
        /\ NextRow(r)
        /\ \/ /\ UniqueIndex(Inserted(r, enq[c].job))
              /\ queue' = Inserted(r, enq[c].job)
              /\ enq' = [enq EXCEPT ![c] = Idle]
           \/ /\ ~UniqueIndex(Inserted(r, enq[c].job))
              /\ enq' = [enq EXCEPT ![c].pc = "requery"]
              /\ UNCHANGED queue
        /\ UNCHANGED <<workerVars, usurped>>

(* The lost race: look for the winner's row, which may be gone by now.     *)
EnqueueRequery(c) ==
    /\ enq[c].pc = "requery"
    /\ \/ /\ ActiveRows(queue, enq[c].job) # {}
          /\ enq' = [enq EXCEPT ![c] = Idle]
       \/ /\ ActiveRows(queue, enq[c].job) = {}
          /\ enq' = [enq EXCEPT ![c].pc = "none"]
    /\ UNCHANGED <<queue, workerVars, usurped>>

-----------------------------------------------------------------------------
(* requeue_dead_local_jobs, once at worker start                           *)

(* SELECT ... WHERE status = 'running'.                                    *)
RecoverSelect(w) ==
    /\ pc[w] = "new"
    /\ pc' = [pc EXCEPT ![w] = "recover"]
    /\ seen' = [seen EXCEPT ![w] =
           {p \in Rows \X Workers : /\ queue[p[1]].status = "running"
                                    /\ queue[p[1]].lockedBy = p[2]}]
    /\ UNCHANGED <<queue, item, stale, enq, usurped>>

(* The rows whose locker, as read, is a process of w's host that is gone.  *)
DeadLocal(w) ==
    {p[1] : p \in {p \in seen[w] : HostOf[p[2]] = HostOf[w] /\ pc[p[2]] = "dead"}}

Requeued(row) ==
    [row EXCEPT !.status = "queued", !.lockedBy = Nobody, !.age = 0, !.delay = 0]

Recovered(w) ==
    [r \in Rows |-> IF r \in DeadLocal(w) THEN Requeued(queue[r]) ELSE queue[r]]

(* The pid checks and the one commit.  An IntegrityError is outside the    *)
(* loop's try: the process ends, and systemd starts it again.  It has      *)
(* claimed nothing, so the next process may as well be the same member.    *)
RecoverCommit(w) ==
    /\ pc[w] = "recover"
    /\ \/ /\ UniqueIndex(Recovered(w))
          /\ Commit(w, Recovered(w))
          /\ pc' = [pc EXCEPT ![w] = "loop"]
       \/ /\ ~UniqueIndex(Recovered(w))
          /\ pc' = [pc EXCEPT ![w] = "new"]
          /\ UNCHANGED <<queue, usurped>>
    /\ seen' = [seen EXCEPT ![w] = {}]
    /\ UNCHANGED <<item, stale, enq>>

-----------------------------------------------------------------------------
(* mark_success and mark_failure                                           *)

Succeeded(row) == [row EXCEPT !.status = "success", !.age = 0, !.delay = 0]

FailedUncounted(row, n) ==
    [row EXCEPT !.status = "queued", !.age = 0, !.delay = Backoff(1), !.lockedBy = Nobody]

FailedAsError(row, n) ==
    IF n + 1 < MaxAttempts
    THEN [row EXCEPT !.status = "queued", !.attempts = n + 1, !.age = 0,
                     !.delay = Backoff(n + 1), !.lockedBy = Nobody]
    ELSE [row EXCEPT !.status = "error", !.attempts = n + 1]

(* mark_failure on a row whose attempts were read as n.                    *)
Failed(row, n) ==
    IF n + 1 < MaxAttempts
    THEN [row EXCEPT !.status = "queued", !.attempts = n + 1, !.age = 0,
                     !.delay = Backoff(n + 1), !.lockedBy = Nobody]
    ELSE [row EXCEPT !.status = "failed-permanently", !.attempts = n + 1,
                     !.age = 0, !.delay = 0]

-----------------------------------------------------------------------------
(* reap_stale_jobs, at the top of every turn of the loop                   *)

StaleRows ==
    {r \in Rows : queue[r].status = "running" /\ queue[r].age > StaleTimeout}

ReapSelect(w) ==
    /\ pc[w] = "loop"
    /\ pc' = [pc EXCEPT ![w] = IF StaleRows = {} THEN "claim" ELSE "reap"]
    /\ stale' = [stale EXCEPT ![w] = {<<r, queue[r].attempts>> : r \in StaleRows}]
    /\ UNCHANGED <<queue, item, seen, enq, usurped>>

(* mark_failure on one of the rows selected, in a commit of its own.  The  *)
(* row's status is not looked at again.  The first row is written from the *)
(* attempts the SELECT read; that commit expires the others, which are     *)
(* read again when their turn comes.  An IntegrityError ends the sweep.    *)
AttemptsRead(p) == IF p[2] = Expired THEN queue[p[1]].attempts ELSE p[2]

Reaped(p) == [queue EXCEPT ![p[1]] = Failed(queue[p[1]], AttemptsRead(p))]

ReapMark(w) ==
    \E p \in stale[w] :
        /\ pc[w] = "reap"
        /\ \/ /\ UniqueIndex(Reaped(p))
              /\ Commit(w, Reaped(p))
              /\ stale' = [stale EXCEPT ![w] = {<<s[1], Expired>> : s \in @ \ {p}}]
              /\ pc' = [pc EXCEPT ![w] = IF stale[w] = {p} THEN "claim" ELSE "reap"]
           \/ /\ ~UniqueIndex(Reaped(p))
              /\ stale' = [stale EXCEPT ![w] = {}]
              /\ pc' = [pc EXCEPT ![w] = "loop"]
              /\ UNCHANGED <<queue, usurped>>
        /\ UNCHANGED <<item, seen, enq>>

-----------------------------------------------------------------------------
(* claim_next, the job, and its outcome                                    *)

EligibleAnyStatus ==
    {r \in Rows : queue[r].status \notin {"absent", "running"} /\ queue[r].delay = 0}

Eligible == {r \in Rows : queue[r].status = "queued" /\ queue[r].delay = 0}

(* SELECT ... FOR UPDATE SKIP LOCKED and the update, one transaction.      *)
ClaimNext(w) ==
    \E r \in Eligible :
        /\ pc[w] = "claim"
        /\ \A s \in Eligible : r <= s
        /\ Commit(w, [queue EXCEPT ![r].status = "running", ![r].age = 0,
                                   ![r].lockedBy = w])
        /\ pc' = [pc EXCEPT ![w] = "run"]
        /\ item' = [item EXCEPT ![w] = r]
        /\ UNCHANGED <<seen, stale, enq>>

ClaimNothing(w) ==
    /\ pc[w] = "claim"
    /\ Eligible = {}
    /\ pc' = [pc EXCEPT ![w] = "loop"]
    /\ UNCHANGED <<queue, item, seen, stale, enq, usurped>>

NextTurn(w) ==
    /\ pc' = [pc EXCEPT ![w] = "loop"]
    /\ item' = [item EXCEPT ![w] = NoRow]
    /\ UNCHANGED <<seen, stale, enq>>

(* The job returns: mark_success, whatever has become of the row.          *)
JobReturns(w) ==
    /\ pc[w] = "run"
    /\ Commit(w, [queue EXCEPT ![item[w]] = Succeeded(@)])
    /\ NextTurn(w)

(* The job raises (or the commit of mark_success does): rollback and       *)
(* mark_failure, which reads the row afresh.  If that raises in its turn   *)
(* (IntegrityError), the outer handler rolls back and the loop goes on.    *)
AfterFailure(w) == [queue EXCEPT ![item[w]] = Failed(@, @.attempts)]

JobRaises(w) ==
    /\ pc[w] = "run"
    /\ \/ /\ UniqueIndex(AfterFailure(w))
          /\ Commit(w, AfterFailure(w))
       \/ /\ ~UniqueIndex(AfterFailure(w))
          /\ UNCHANGED <<queue, usurped>>
    /\ NextTurn(w)

(* The database refuses the bookkeeping of a job that has ended: the loop  *)
(* goes on, and the row stays 'running', locked by a live process.         *)
BookkeepingLost(w) ==
    /\ pc[w] = "run"
    /\ NextTurn(w)
    /\ UNCHANGED <<queue, usurped>>

-----------------------------------------------------------------------------
(* The processes' ends, and time                                           *)

(* Bound: some process is always left to run (systemd restarts them).      *)
Spared(w) == \E x \in Workers \ {w} : pc[x] # "dead"

Gone(w) ==
    /\ Spared(w)
    /\ pc' = [pc EXCEPT ![w] = "dead"]
    /\ item' = [item EXCEPT ![w] = NoRow]
    /\ seen' = [seen EXCEPT ![w] = {}]
    /\ stale' = [stale EXCEPT ![w] = {}]
    /\ UNCHANGED <<queue, enq, usurped>>

(* Killed: out of memory, a reboot, systemctl kill.                        *)
Crash(w) == pc[w] \in {"recover", "reap", "claim", "run"} /\ Gone(w)

(* SIGTERM is obeyed between two turns of the loop.                        *)
Shutdown(w) == pc[w] = "loop" /\ Gone(w)

Aged(row) ==
    IF row.status = "queued" /\ row.delay > 0
    THEN [row EXCEPT !.delay = @ - 1]
    ELSE IF row.status = "running" /\ row.age <= StaleTimeout
         THEN [row EXCEPT !.age = @ + 1]
         ELSE row

(* A tick of the clock.  Ages stop counting where only "older than the     *)
(* timeout" matters.                                                       *)
Tick ==
    /\ queue' = [r \in Rows |-> Aged(queue[r])]
    /\ UNCHANGED <<workerVars, enq, usurped>>

-----------------------------------------------------------------------------
Init ==
    /\ queue = [r \in Rows |-> Absent]
    /\ pc = [w \in Workers |-> "new"]
    /\ item = [w \in Workers |-> NoRow]
    /\ seen = [w \in Workers |-> {}]
    /\ stale = [w \in Workers |-> {}]
    /\ enq = [c \in Callers |-> Idle]
    /\ usurped = {}

EnqueueStep(c) ==
    \/ \E j \in Jobs : EnqueueCheck(c, j)
    \/ EnqueueInsert(c)
    \/ EnqueueRequery(c)

WorkerStep(w) ==
    \/ RecoverSelect(w) \/ RecoverCommit(w)
    \/ ReapSelect(w) \/ ReapMark(w)
    \/ ClaimNext(w) \/ ClaimNothing(w)
    \/ JobReturns(w) \/ JobRaises(w) \/ BookkeepingLost(w)

Next ==
    \/ \E c \in Callers : EnqueueStep(c)
    \/ \E w \in Workers : WorkerStep(w) \/ Crash(w) \/ Shutdown(w)
    \/ Tick

(* A live process goes on, and a job ends, because every external call it  *)
(* makes has a timeout; time passes.  Nothing obliges anyone to enqueue,   *)
(* or a process to fail.                                                   *)
Fairness == WF_vars(Tick) /\ \A w \in Workers : WF_vars(WorkerStep(w))

Spec == Init /\ [][Next]_vars

FairSpec == Spec /\ Fairness

-----------------------------------------------------------------------------
(* Properties                                                              *)

(* Two live workers execute the same job at once only if some row of that  *)
(* job was taken from a worker that was still executing it: claiming, the  *)
(* recovery of dead workers' rows, their restarts, late results and racing *)
(* enqueues never do it alone (queue.py claim_next, the unique index).     *)
OneExecutor ==
    \A x, y \in Workers :
        /\ x # y
        /\ pc[x] = "run" /\ pc[y] = "run"
        /\ queue[item[x]].job = queue[item[y]].job
        => \E r \in usurped : queue[r].job = queue[item[x]].job

(* A finished row is not brought back to life, to be executed again, except *)
(* by someone who had come by it while it was running: a sweep or recovery *)
(* that had read it then, or a worker it was taken from.                   *)
Remembers(w, r) ==
    \/ \E p \in seen[w] \cup stale[w] : p[1] = r
    \/ pc[w] = "run" /\ item[w] = r

SettledStays ==
    [][\A r \in Rows :
          IsSettled(queue[r]) /\ ~IsSettled(queue'[r])
          => \E w \in Workers : Remembers(w, r)]_vars

(* Whatever crashes, whichever bookkeeping is lost and however the sweeps  *)
(* race, a row that was enqueued ends in success or in permanent failure:  *)
(* retries are bounded and no row stays 'running' for ever (queue.py       *)
(* mark_failure, reap_stale_jobs).                                         *)
EveryRowSettles ==
    \A r \in Rows : IsActive(queue[r]) ~> IsSettled(queue[r])

(* reap_stale_jobs: "each row is only ever touched once, since the first   *)
(* reaper to update a row moves it out of 'running'" (queue.py:186-187).   *)
ReapTouchesOnce ==
    [][\A w \in Workers, r \in Rows :
          /\ pc[w] = "reap" /\ stale'[w] # stale[w] /\ queue'[r] # queue[r]
          => queue[r].status = "running"]_vars

=============================================================================

--------------------------- MODULE JobQueueProofs ---------------------------
(***************************************************************************)
(* Machine-checked proofs about JobQueue, for every set of jobs, workers   *)
(* and callers and every bound: type correctness, and that two live        *)
(* workers execute one job only after a row was taken from its executor.   *)
(***************************************************************************)
EXTENDS JobQueue, TLAPS

(* What is inductive: the index holds of the committed table, and a worker *)
(* executes a row it still holds unless the row was taken from it.         *)
Owns(x) == item[x] \in usurped \/ Holds(queue, x)

Ownership == \A x \in Workers : pc[x] = "run" => item[x] \in Rows /\ Owns(x)

IInv == TypeOK /\ UniqueIndex(queue) /\ Ownership

-----------------------------------------------------------------------------
(* Each transformation of a row yields a row.                              *)

LEMMA AbsentType == Absent \in Row
BY DEF Absent, Row, Status

LEMMA RequeuedType ==
    ASSUME NEW row \in Row
    PROVE  Requeued(row) \in Row
BY DEF Requeued, Row, Status

LEMMA SucceededType ==
    ASSUME NEW row \in Row
    PROVE  Succeeded(row) \in Row
BY DEF Succeeded, Row, Status

LEMMA RetriedType ==
    ASSUME NEW row \in Row, NEW a \in Nat, NEW d \in Nat
    PROVE  [row EXCEPT !.status = "queued", !.attempts = a, !.age = 0,
                       !.delay = d, !.lockedBy = Nobody] \in Row
BY Zenon DEF Row, Status

LEMMA GivenUpType ==
    ASSUME NEW row \in Row, NEW a \in Nat
    PROVE  [row EXCEPT !.status = "failed-permanently", !.attempts = a,
                       !.age = 0, !.delay = 0] \in Row
<1>1. 0 \in Nat
  OBVIOUS
<1>2. QED
  BY <1>1, Zenon DEF Row, Status

LEMMA FailedType ==
    ASSUME NEW row \in Row, NEW n \in Nat
    PROVE  Failed(row, n) \in Row
<1>1. n + 1 \in Nat
  OBVIOUS
<1>2. n + 1 < MaxAttempts => Backoff(n + 1) \in Nat
  BY QueueAssumption
<1>3. QED
  BY <1>1, <1>2, RetriedType, GivenUpType, Zenon DEF Failed

LEMMA ClaimedType ==
    ASSUME NEW row \in Row, NEW w \in Workers
    PROVE  [row EXCEPT !.status = "running", !.age = 0, !.lockedBy = w] \in Row
<1>1. 0 \in Nat
  OBVIOUS
<1>2. QED
  BY <1>1, Zenon DEF Row, Status

LEMMA AgedType ==
    ASSUME NEW row \in Row
    PROVE  Aged(row) \in Row
BY QueueAssumption DEF Aged, Row, Status

LEMMA ReapedType ==
    ASSUME TypeOK, NEW w \in Workers, NEW p \in stale[w]
    PROVE  Reaped(p) \in [Rows -> Row]
<1>1. p[1] \in Rows /\ p[2] \in Nat \cup {Expired}
  BY DEF TypeOK
<1>2. AttemptsRead(p) \in Nat
  BY <1>1 DEF AttemptsRead, TypeOK, Row
<1>3. Failed(queue[p[1]], AttemptsRead(p)) \in Row
  BY <1>1, <1>2, FailedType DEF TypeOK
<1>4. QED
  BY <1>3 DEF Reaped, TypeOK

LEMMA RecoveredType ==
    ASSUME TypeOK, NEW w \in Workers
    PROVE  Recovered(w) \in [Rows -> Row]
BY RequeuedType DEF Recovered, TypeOK

LEMMA AfterFailureType ==
    ASSUME TypeOK, NEW w \in Workers, item[w] \in Rows
    PROVE  AfterFailure(w) \in [Rows -> Row]
<1>1. queue[item[w]] \in Row /\ queue[item[w]].attempts \in Nat
  BY DEF TypeOK, Row
<1>2. Failed(queue[item[w]], queue[item[w]].attempts) \in Row
  BY <1>1, FailedType
<1>3. QED
  BY <1>2 DEF AfterFailure, TypeOK

-----------------------------------------------------------------------------
(* Type correctness.                                                       *)

LEMMA CommitType ==
    ASSUME TypeOK, Ownership, NEW w \in Workers, NEW q \in [Rows -> Row], Commit(w, q)
    PROVE  queue' \in [Rows -> Row] /\ usurped' \subseteq Rows
BY DEF Commit, TypeOK, Ownership

LEMMA TypeStep ==
    ASSUME TypeOK, Ownership, [Next]_vars
    PROVE  TypeOK'
<1> USE DEF TypeOK
<1>1. ASSUME NEW c \in Callers, NEW j \in Jobs, EnqueueCheck(c, j)
      PROVE  TypeOK'
  BY <1>1 DEF EnqueueCheck, CallerPc, workerVars
<1>2. ASSUME NEW c \in Callers, EnqueueInsert(c)
      PROVE  TypeOK'
  <2>1. PICK r \in Rows : EnqueueInsert(c)!(r)
    BY <1>2 DEF EnqueueInsert
  <2>2. [Absent EXCEPT !.job = enq[c].job, !.status = "queued"] \in Row
    BY AbsentType DEF Row, Status
  <2>3. Inserted(r, enq[c].job) \in [Rows -> Row]
    BY <2>2 DEF Inserted
  <2>4. Idle \in [pc : CallerPc, job : Jobs \cup {NoJob}]
    BY DEF Idle, CallerPc
  <2>5. QED
    BY <2>1, <2>3, <2>4 DEF CallerPc, workerVars
<1>3. ASSUME NEW c \in Callers, EnqueueRequery(c)
      PROVE  TypeOK'
  <2>1. Idle \in [pc : CallerPc, job : Jobs \cup {NoJob}]
    BY DEF Idle, CallerPc
  <2>2. QED
    BY <1>3, <2>1 DEF EnqueueRequery, CallerPc, workerVars
<1>4. ASSUME NEW w \in Workers, RecoverSelect(w)
      PROVE  TypeOK'
  BY <1>4 DEF RecoverSelect, WorkerPc
<1>5. ASSUME NEW w \in Workers, RecoverCommit(w)
      PROVE  TypeOK'
  <2>1. queue' \in [Rows -> Row] /\ usurped' \subseteq Rows
    BY <1>5, RecoveredType, CommitType DEF RecoverCommit
  <2>2. QED
    BY <1>5, <2>1 DEF RecoverCommit, WorkerPc
<1>6. ASSUME NEW w \in Workers, ReapSelect(w)
      PROVE  TypeOK'
  BY <1>6 DEF ReapSelect, StaleRows, WorkerPc, Row
<1>7. ASSUME NEW w \in Workers, ReapMark(w)
      PROVE  TypeOK'
  <2>1. PICK p \in stale[w] : ReapMark(w)!(p)
    BY <1>7 DEF ReapMark
  <2>2. queue' \in [Rows -> Row] /\ usurped' \subseteq Rows
    BY <2>1, ReapedType, CommitType
  <2>3. {<<s[1], Expired>> : s \in stale[w] \ {p}} \subseteq Rows \X (Nat \cup {Expired})
    OBVIOUS
  <2>4. QED
    BY <2>1, <2>2, <2>3 DEF WorkerPc
<1>8. ASSUME NEW w \in Workers, ClaimNext(w)
      PROVE  TypeOK'
  <2>1. PICK r \in Eligible : ClaimNext(w)!(r)
    BY <1>8 DEF ClaimNext
  <2>2. r \in Rows
    BY DEF Eligible
  <2>3. [queue[r] EXCEPT !.status = "running", !.age = 0, !.lockedBy = w] \in Row
    BY <2>2, ClaimedType
  <2>4. [queue EXCEPT ![r].status = "running", ![r].age = 0, ![r].lockedBy = w]
          \in [Rows -> Row]
    BY <2>2, <2>3
  <2>5. queue' \in [Rows -> Row] /\ usurped' \subseteq Rows
    BY <2>1, <2>4, CommitType
  <2>6. QED
    BY <2>1, <2>2, <2>5 DEF WorkerPc
<1>9. ASSUME NEW w \in Workers, ClaimNothing(w)
      PROVE  TypeOK'
  BY <1>9 DEF ClaimNothing, WorkerPc
<1>10. ASSUME NEW w \in Workers, JobReturns(w)
       PROVE  TypeOK'
  <2>1. item[w] \in Rows
    BY <1>10 DEF JobReturns, Ownership
  <2>2. [queue EXCEPT ![item[w]] = Succeeded(@)] \in [Rows -> Row]
    BY <2>1, SucceededType
  <2>3. queue' \in [Rows -> Row] /\ usurped' \subseteq Rows
    BY <1>10, <2>2, CommitType DEF JobReturns
  <2>4. QED
    BY <1>10, <2>3 DEF JobReturns, NextTurn, WorkerPc
<1>11. ASSUME NEW w \in Workers, JobRaises(w)
       PROVE  TypeOK'
  <2>1. item[w] \in Rows
    BY <1>11 DEF JobRaises, Ownership
  <2>2. queue' \in [Rows -> Row] /\ usurped' \subseteq Rows
    BY <1>11, <2>1, AfterFailureType, CommitType DEF JobRaises
  <2>3. QED
    BY <1>11, <2>2 DEF JobRaises, NextTurn, WorkerPc
<1>12. ASSUME NEW w \in Workers, BookkeepingLost(w)
       PROVE  TypeOK'
  BY <1>12 DEF BookkeepingLost, NextTurn, WorkerPc
<1>13. ASSUME NEW w \in Workers, Crash(w) \/ Shutdown(w)
       PROVE  TypeOK'
  BY <1>13 DEF Crash, Shutdown, Gone, WorkerPc
<1>14. CASE Tick
  BY <1>14, AgedType DEF Tick, workerVars
<1>15. CASE UNCHANGED vars
  BY <1>15 DEF vars
<1>16. QED
  BY <1>1, <1>2, <1>3, <1>4, <1>5, <1>6, <1>7, <1>8, <1>9, <1>10, <1>11, <1>12,
     <1>13, <1>14, <1>15 DEF Next, EnqueueStep, WorkerStep

-----------------------------------------------------------------------------
(* The unique index holds of every committed table: the writes that make a *)
(* row active are refused when they would break it, and the others leave   *)
(* every row's job, and only the active rows' being active, alone.         *)

LEMMA NoMoreActive ==
    ASSUME UniqueIndex(queue), NEW q \in [Rows -> Row],
           \A r \in Rows : IsActive(q[r]) => IsActive(queue[r]) /\ q[r].job = queue[r].job
    PROVE  UniqueIndex(q)
BY DEF UniqueIndex

LEMMA IndexStep ==
    ASSUME IInv, TypeOK', [Next]_vars
    PROVE  UniqueIndex(queue)'
<1> USE DEF IInv
<1>1. CASE UNCHANGED queue
  BY <1>1 DEF UniqueIndex
<1>2. CASE UniqueIndex(queue')
  BY <1>2 DEF UniqueIndex
<1>3. ASSUME NEW c \in Callers, EnqueueStep(c)
      PROVE  UniqueIndex(queue)'
  BY <1>1, <1>2, <1>3 DEF EnqueueStep, EnqueueCheck, EnqueueInsert, EnqueueRequery
<1>4. ASSUME NEW w \in Workers, ClaimNext(w)
      PROVE  UniqueIndex(queue')
  <2>1. PICK r \in Eligible : ClaimNext(w)!(r)
    BY <1>4 DEF ClaimNext
  <2>2. r \in Rows /\ queue[r] \in Row /\ queue[r].status = "queued"
    BY DEF Eligible, TypeOK
  <2>3. queue' = [queue EXCEPT ![r].status = "running", ![r].age = 0, ![r].lockedBy = w]
    BY <2>1 DEF Commit
  <2>4. queue' \in [Rows -> Row]
    BY DEF TypeOK
  <2>5. \A s \in Rows : IsActive(queue'[s]) =>
           IsActive(queue[s]) /\ queue'[s].job = queue[s].job
    BY <2>2, <2>3 DEF TypeOK, Row, IsActive
  <2>6. QED
    BY <2>4, <2>5, NoMoreActive
<1>5. ASSUME NEW w \in Workers, JobReturns(w)
      PROVE  UniqueIndex(queue')
  <2>1. item[w] \in Rows
    BY <1>5 DEF JobReturns, Ownership
  <2>2. queue' = [queue EXCEPT ![item[w]] = Succeeded(queue[item[w]])]
    BY <1>5 DEF JobReturns, Commit
  <2>3. ~IsActive(Succeeded(queue[item[w]]))
    BY <2>1 DEF TypeOK, Row, Succeeded, IsActive
  <2>4. queue' \in [Rows -> Row]
    BY DEF TypeOK
  <2>5. \A s \in Rows : IsActive(queue'[s]) =>
           IsActive(queue[s]) /\ queue'[s].job = queue[s].job
    BY <2>1, <2>2, <2>3 DEF TypeOK
  <2>6. QED
    BY <2>4, <2>5, NoMoreActive
<1>6. ASSUME NEW w \in Workers, WorkerStep(w)
      PROVE  UniqueIndex(queue)'
  BY <1>1, <1>2, <1>4, <1>5, <1>6
  DEF WorkerStep, RecoverSelect, RecoverCommit, ReapSelect, ReapMark, ClaimNothing,
      JobRaises, BookkeepingLost, Commit
<1>7. ASSUME NEW w \in Workers, Crash(w) \/ Shutdown(w)
      PROVE  UniqueIndex(queue)'
  BY <1>1, <1>7 DEF Crash, Shutdown, Gone
<1>8. CASE Tick
  <2>1. \A r \in Rows : /\ Aged(queue[r]).status = queue[r].status
                       /\ Aged(queue[r]).job = queue[r].job
    BY DEF Aged, TypeOK, Row
  <2>2. \A r \in Rows : IsActive(queue'[r]) =>
           IsActive(queue[r]) /\ queue'[r].job = queue[r].job
    BY <1>8, <2>1 DEF Tick, IsActive
  <2>3. queue' \in [Rows -> Row]
    BY DEF TypeOK
  <2>4. QED
    BY <1>2, <2>2, <2>3, NoMoreActive
<1>9. CASE UNCHANGED vars
  BY <1>1, <1>9 DEF vars
<1>10. QED
  BY <1>3, <1>6, <1>7, <1>8, <1>9 DEF Next

-----------------------------------------------------------------------------
(* Ownership: the history variable accounts for every row a committed      *)
(* table takes from a worker, and w itself is past executing, or has just  *)
(* claimed a queued row, which no one held.                                *)

LEMMA OthersOwn ==
    ASSUME Ownership, NEW w \in Workers, NEW q, Commit(w, q),
           NEW x \in Workers, x # w, pc[x] = "run", item'[x] = item[x]
    PROVE  item'[x] \in Rows /\ Owns(x)'
<1>1. item[x] \in Rows
  BY DEF Ownership
<1>2. CASE Holds(q, x)
  BY <1>1, <1>2 DEF Commit, Owns, Holds
<1>3. CASE ~Holds(q, x)
  BY <1>1, <1>3 DEF Commit, Owns
<1>4. QED
  BY <1>2, <1>3

LEMMA SameOwn ==
    ASSUME Ownership, UNCHANGED <<queue, usurped>>,
           NEW x \in Workers, pc[x] = "run", item'[x] = item[x]
    PROVE  item'[x] \in Rows /\ Owns(x)'
BY DEF Ownership, Owns, Holds

LEMMA OwnershipStep ==
    ASSUME IInv, TypeOK', [Next]_vars
    PROVE  Ownership'
<1> SUFFICES ASSUME NEW x \in Workers, pc'[x] = "run"
             PROVE  item'[x] \in Rows /\ Owns(x)'
  BY DEF Ownership
<1> USE DEF IInv
<1>1. ASSUME NEW c \in Callers, EnqueueStep(c)
      PROVE  item'[x] \in Rows /\ Owns(x)'
  <2>1. pc[x] = "run" /\ item'[x] = item[x] /\ usurped' = usurped
    BY <1>1 DEF EnqueueStep, EnqueueCheck, EnqueueInsert, EnqueueRequery, workerVars
  <2>2. CASE UNCHANGED queue
    BY <2>1, <2>2, SameOwn
  <2>3. CASE EnqueueInsert(c) /\ ~UNCHANGED queue
    <3>1. PICK r \in Rows : NextRow(r) /\ queue' = Inserted(r, enq[c].job)
      BY <2>3 DEF EnqueueInsert
    <3>2. queue[r].status = "absent" /\ \A s \in Rows \ {r} : queue'[s] = queue[s]
      BY <3>1 DEF NextRow, Inserted, TypeOK
    <3>3. item[x] \in Rows /\ Owns(x)
      BY <2>1 DEF Ownership
    <3>4. CASE item[x] \in usurped
      BY <2>1, <3>3, <3>4 DEF Owns
    <3>5. CASE Holds(queue, x)
      BY <2>1, <3>2, <3>3, <3>5 DEF Owns, Holds
    <3>6. QED
      BY <3>3, <3>4, <3>5 DEF Owns
  <2>4. QED
    BY <1>1, <2>2, <2>3 DEF EnqueueStep, EnqueueCheck, EnqueueRequery
<1>2. ASSUME NEW w \in Workers, RecoverCommit(w)
      PROVE  item'[x] \in Rows /\ Owns(x)'
  <2>1. x # w /\ pc[x] = "run" /\ item'[x] = item[x]
    BY <1>2 DEF RecoverCommit, TypeOK
  <2>2. QED
    BY <1>2, <2>1, OthersOwn, SameOwn DEF RecoverCommit
<1>3. ASSUME NEW w \in Workers, ReapMark(w)
      PROVE  item'[x] \in Rows /\ Owns(x)'
  <2>1. x # w /\ pc[x] = "run" /\ item'[x] = item[x]
    BY <1>3 DEF ReapMark, TypeOK
  <2>2. QED
    BY <1>3, <2>1, OthersOwn, SameOwn DEF ReapMark
<1>4. ASSUME NEW w \in Workers, ClaimNext(w)
      PROVE  item'[x] \in Rows /\ Owns(x)'
  <2>1. PICK r \in Eligible : ClaimNext(w)!(r)
    BY <1>4 DEF ClaimNext
  <2>2. CASE x = w
    <3>1. item'[w] = r /\ r \in Rows
      BY <2>1 DEF Eligible, TypeOK
    <3>2. queue'[r].status = "running" /\ queue'[r].lockedBy = w
      BY <2>1, <3>1 DEF Commit, TypeOK, Row
    <3>3. QED
      BY <2>2, <3>1, <3>2 DEF Owns, Holds
  <2>3. CASE x # w
    BY <2>1, <2>3, OthersOwn DEF TypeOK
  <2>4. QED
    BY <2>2, <2>3
<1>5. ASSUME NEW w \in Workers, JobReturns(w) \/ JobRaises(w) \/ BookkeepingLost(w)
      PROVE  item'[x] \in Rows /\ Owns(x)'
  <2>1. x # w /\ pc[x] = "run" /\ item'[x] = item[x]
    BY <1>5 DEF JobReturns, JobRaises, BookkeepingLost, NextTurn, TypeOK
  <2>2. QED
    BY <1>5, <2>1, OthersOwn, SameOwn DEF JobReturns, JobRaises, BookkeepingLost
<1>6. ASSUME NEW w \in Workers,
             RecoverSelect(w) \/ ReapSelect(w) \/ ClaimNothing(w) \/ Crash(w) \/ Shutdown(w)
      PROVE  item'[x] \in Rows /\ Owns(x)'
  <2>1. pc[x] = "run" /\ item'[x] = item[x] /\ UNCHANGED <<queue, usurped>>
    BY <1>6 DEF RecoverSelect, ReapSelect, ClaimNothing, Crash, Shutdown, Gone, TypeOK
  <2>2. QED
    BY <2>1, SameOwn
<1>7. CASE Tick
  <2>1. pc[x] = "run" /\ item'[x] = item[x] /\ usurped' = usurped
    BY <1>7 DEF Tick, workerVars
  <2>2. item[x] \in Rows /\ Owns(x)
    BY <2>1 DEF Ownership
  <2>3. Aged(queue[item[x]]).status = queue[item[x]].status
        /\ Aged(queue[item[x]]).lockedBy = queue[item[x]].lockedBy
    BY <2>2 DEF Aged, TypeOK, Row
  <2>4. QED
    BY <1>7, <2>1, <2>2, <2>3 DEF Tick, Owns, Holds
<1>8. CASE UNCHANGED vars
  BY <1>8, SameOwn DEF vars
<1>9. QED
  BY <1>1, <1>2, <1>3, <1>4, <1>5, <1>6, <1>7, <1>8 DEF Next, WorkerStep

-----------------------------------------------------------------------------
(* A finished row stays finished under every step of someone who does not  *)
(* remember it.                                                            *)
Forgotten ==
    \A r \in Rows :
        IsSettled(queue[r]) /\ ~IsSettled(queue'[r])
        => \E w \in Workers : Remembers(w, r)

LEMMA SettledStep ==
    ASSUME IInv, [Next]_vars
    PROVE  Forgotten
<1> SUFFICES ASSUME NEW r \in Rows, IsSettled(queue[r]), queue'[r] # queue[r]
             PROVE  IsSettled(queue'[r]) \/ \E w \in Workers : Remembers(w, r)
  BY DEF Forgotten
<1> USE DEF IInv
<1>1. ASSUME NEW c \in Callers, EnqueueStep(c)
      PROVE  FALSE
  <2>1. EnqueueInsert(c) /\ queue' # queue
    BY <1>1 DEF EnqueueStep, EnqueueCheck, EnqueueRequery
  <2>2. PICK s \in Rows : NextRow(s) /\ queue' = Inserted(s, enq[c].job)
    BY <2>1 DEF EnqueueInsert
  <2>3. s # r
    BY <2>2 DEF NextRow, IsSettled
  <2>4. QED
    BY <2>2, <2>3 DEF Inserted, TypeOK
<1>2. ASSUME NEW w \in Workers, RecoverCommit(w)
      PROVE  Remembers(w, r)
  <2>1. queue' = Recovered(w) /\ r \in DeadLocal(w)
    BY <1>2 DEF RecoverCommit, Commit, Recovered
  <2>2. QED
    BY <2>1 DEF DeadLocal, Remembers
<1>3. ASSUME NEW w \in Workers, ReapMark(w)
      PROVE  Remembers(w, r)
  <2>1. PICK p \in stale[w] : queue' = Reaped(p)
    BY <1>3 DEF ReapMark, Commit
  <2>2. p[1] = r
    BY <2>1 DEF Reaped, TypeOK
  <2>3. QED
    BY <2>1, <2>2 DEF Remembers
<1>4. ASSUME NEW w \in Workers, ClaimNext(w)
      PROVE  FALSE
  <2>1. PICK s \in Eligible : ClaimNext(w)!(s)
    BY <1>4 DEF ClaimNext
  <2>2. s # r
    BY DEF Eligible, IsSettled
  <2>3. QED
    BY <2>1, <2>2 DEF Commit, TypeOK
<1>5. ASSUME NEW w \in Workers, JobReturns(w) \/ JobRaises(w)
      PROVE  Remembers(w, r)
  <2>1. pc[w] = "run" /\ \E row : queue' = [queue EXCEPT ![item[w]] = row]
    BY <1>5 DEF JobReturns, JobRaises, Commit, AfterFailure
  <2>2. item[w] = r
    BY <2>1 DEF TypeOK
  <2>3. QED
    BY <2>1, <2>2 DEF Remembers
<1>6. CASE Tick
  <2>1. Aged(queue[r]).status = queue[r].status
    BY DEF Aged, TypeOK, Row
  <2>2. QED
    BY <1>6, <2>1 DEF Tick, IsSettled
<1>7. QED
  BY <1>1, <1>2, <1>3, <1>4, <1>5, <1>6
     DEF Next, WorkerStep, RecoverSelect, ReapSelect, ClaimNothing, BookkeepingLost, Crash,
         Shutdown, Gone, vars

-----------------------------------------------------------------------------
LEMMA InitIInv == Init => IInv
<1> SUFFICES ASSUME Init PROVE IInv
  OBVIOUS
<1>1. TypeOK
  BY AbsentType DEF Init, TypeOK, Idle, WorkerPc, CallerPc
<1>2. UniqueIndex(queue)
  BY DEF Init, UniqueIndex, IsActive, Absent
<1>3. Ownership
  BY DEF Init, Ownership
<1>4. QED
  BY <1>1, <1>2, <1>3 DEF IInv

LEMMA Inductive == Spec => []IInv
<1>1. IInv /\ [Next]_vars => IInv'
  BY TypeStep, IndexStep, OwnershipStep DEF IInv
<1>2. QED
  BY InitIInv, <1>1, PTL DEF Spec

(* Type correctness of the queue, its workers and its callers.             *)
THEOREM QueueTypeCorrect == Spec => []TypeOK
<1>1. IInv => TypeOK
  BY DEF IInv
<1>2. QED
  BY Inductive, <1>1, PTL

(* No committed table has two active rows of one job.                      *)
THEOREM OneActiveRow == Spec => []UniqueIndex(queue)
<1>1. IInv => UniqueIndex(queue)
  BY DEF IInv
<1>2. QED
  BY Inductive, <1>1, PTL

(* However many workers there are and however they crash, restart and race, *)
(* two of them execute one job at once only if some row of that job was     *)
(* taken from a live worker that was executing it.                          *)
THEOREM QueueOneExecutor == Spec => []OneExecutor
<1>1. IInv => OneExecutor
  <2> SUFFICES ASSUME IInv, NEW x \in Workers, NEW y \in Workers, x # y,
                      pc[x] = "run", pc[y] = "run",
                      queue[item[x]].job = queue[item[y]].job
               PROVE  \E r \in usurped : queue[r].job = queue[item[x]].job
    BY DEF OneExecutor
  <2>1. item[x] \in Rows /\ Owns(x) /\ item[y] \in Rows /\ Owns(y)
    BY DEF IInv, Ownership
  <2>2. CASE item[x] \in usurped \/ item[y] \in usurped
    BY <2>2
  <2>3. CASE Holds(queue, x) /\ Holds(queue, y)
    <3>1. item[x] = item[y]
      BY <2>1, <2>3 DEF IInv, UniqueIndex, IsActive, Holds
    <3>2. QED
      BY <2>3, <3>1 DEF Holds
  <2>4. QED
    BY <2>1, <2>2, <2>3 DEF Owns
<1>2. QED
  BY Inductive, <1>1, PTL

(* A finished row is brought back only by a sweep or recovery that had     *)
(* read it, or by a worker it was taken from: no claim, enqueue or tick    *)
(* does it, for any number of workers and rows.                            *)
THEOREM FinishedRowsStay == Spec => SettledStays
<1>1. IInv /\ [Next]_vars => [Forgotten]_vars
  BY SettledStep
<1>2. QED
  BY Inductive, <1>1, PTL DEF Spec, SettledStays, Forgotten

=============================================================================

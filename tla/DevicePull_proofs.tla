------------------------- MODULE DevicePull_proofs -------------------------
(***************************************************************************)
(* Proofs about DevicePull, for any number of workers, devices, punches,   *)
(* pulls, attempts and pages.                                              *)
(***************************************************************************)
EXTENDS DevicePull, FiniteSetTheorems, TLAPS

LEMMA InitType == Init => TypeOK
BY BoundsAssumption DEF Init, TypeOK, Cursors, Labels

\* The local state of one worker changes to a job, or to NoJob in "cycle".
LEMMA WorkerType ==
  ASSUME TypeOK, NEW w \in Workers, NEW j \in Job \cup {NoJob}, NEW l \in Labels,
         l # "cycle" => j \in Job /\ IsFiniteSet(j.fresh),
         l = "insert" => j.punch \in Positions,
         pc' = [pc EXCEPT ![w] = l], job' = [job EXCEPT ![w] = j]
  PROVE  /\ pc' \in [Workers -> Labels]
         /\ job' \in [Workers -> Job \cup {NoJob}]
         /\ \A v \in Workers :
              /\ pc'[v] # "cycle" => job'[v] \in Job /\ IsFiniteSet(job'[v].fresh)
              /\ pc'[v] = "insert" => job'[v].punch \in Positions
BY DEF TypeOK

(***************************************************************************)
(* The updates of a job that the actions make leave a job.                 *)
(***************************************************************************)

LEMMA PageJob ==
  ASSUME NEW r \in Job, NEW l \in SUBSET Positions, NEW n \in Cursors
  PROVE  [r EXCEPT !.left = l, !.next = n] \in Job
BY DEF Job

LEMMA RowJob ==
  ASSUME NEW r \in Job, NEW l \in SUBSET Positions, NEW f \in SUBSET PunchRow
  PROVE  [r EXCEPT !.left = l, !.punch = 0, !.fresh = f] \in Job
<1>1. 0 \in Cursors
  BY BoundsAssumption DEF Cursors
<1> QED
  BY <1>1 DEF Job

LEMMA RetryJob ==
  ASSUME NEW r \in Job, NEW a \in 1 .. MaxAttempts
  PROVE  [r EXCEPT !.attempt = a, !.left = {}, !.punch = 0, !.next = NoCursor,
                   !.fresh = {}] \in Job
<1>1. 0 \in Cursors /\ NoCursor \in Cursors
  BY BoundsAssumption DEF Cursors, NoCursor
<1>2. PICK s \in Job : s = [r EXCEPT !.attempt = a, !.left = {}]
  BY DEF Job
<1>3. [s EXCEPT !.punch = 0, !.next = NoCursor, !.fresh = {}] \in Job
  BY <1>1 DEF Job
<1> QED
  BY <1>2, <1>3

LEMMA NextBatchJob ==
  ASSUME NEW r \in Job, NEW c \in Cursors, NEW t \in Nat,
         NEW b \in 1 .. MaxBatches, NEW e \in SUBSET Cursors
  PROVE  [r EXCEPT !.cursor = c, !.attempt = 1, !.next = NoCursor, !.fresh = {},
                   !.total = t, !.batch = b, !.seen = e] \in Job
<1>1. NoCursor \in Cursors /\ 1 \in 1 .. MaxAttempts
  BY BoundsAssumption DEF Cursors, NoCursor
<1>2. PICK u \in Job : u = [r EXCEPT !.cursor = c, !.attempt = 1, !.next = NoCursor]
  BY <1>1 DEF Job
<1>3. PICK v \in Job : v = [u EXCEPT !.fresh = {}, !.total = t]
  BY DEF Job
<1>4. [v EXCEPT !.batch = b, !.seen = e] \in Job
  BY DEF Job
<1> QED
  BY <1>2, <1>3, <1>4

LEMMA CloseSessionType ==
  ASSUME TypeOK, NEW w \in Workers, pc[w] # "cycle", NEW status \in Statuses,
         NEW cursor \in Cursors, NEW ingested \in Nat,
         CloseSession(w, status, cursor, ingested)
  PROVE  /\ pc' \in [Workers -> Labels]
         /\ job' \in [Workers -> Job \cup {NoJob}]
         /\ \A v \in Workers :
              /\ pc'[v] # "cycle" => job'[v] \in Job /\ IsFiniteSet(job'[v].fresh)
              /\ pc'[v] = "insert" => job'[v].punch \in Positions
         /\ txSessions' \in [Workers -> SUBSET PullSession]
<1>1. job[w] \in Job
  BY DEF TypeOK
<1>2. [id |-> job[w].session, device |-> job[w].device, mode |-> job[w].mode,
       status |-> status, cursor |-> cursor, ingested |-> ingested] \in PullSession
  BY <1>1 DEF Job, PullSession
<1>3. txSessions' \in [Workers -> SUBSET PullSession]
  BY <1>2 DEF TypeOK, CloseSession
<1>4. "cycle" \in Labels
  BY DEF Labels
<1> QED
  BY <1>3, <1>4, WorkerType, Zenon DEF CloseSession

LEMMA LatestCursorType ==
  ASSUME NEW sessions \in SUBSET PullSession, NEW d \in Devices
  PROVE  LatestCursor(sessions, d) \in Cursors
<1>1. CASE LatestSucceeded(sessions, d) = {}
  BY <1>1, BoundsAssumption DEF LatestCursor, NoCursor, Cursors
<1>2. CASE LatestSucceeded(sessions, d) # {}
  <2>1. PICK s \in LatestSucceeded(sessions, d) :
          LatestCursor(sessions, d) = s.cursor
    BY <1>2 DEF LatestCursor
  <2> QED
    BY <2>1 DEF LatestSucceeded, Succeeded, PullSession
<1> QED
  BY <1>1, <1>2

LEMMA FailAttemptType ==
  ASSUME TypeOK, NEW w \in Workers, pc[w] # "cycle", NEW failedCall \in BOOLEAN,
         FailAttempt(w, failedCall)
  PROVE  TypeOK'
<1>1. job[w] \in Job
  BY DEF TypeOK
<1>2. /\ recorded' = recorded /\ rawPunches' = rawPunches
      /\ pullSessions' = pullSessions /\ clock' = clock /\ leaked' = leaked
      /\ txRows' \in [Workers -> SUBSET PunchRow]
  BY DEF FailAttempt, SavepointRows, committed, TypeOK
<1>3. Unlock(w) => lockHolder' \in [Devices -> Workers \cup {Nobody}]
  BY <1>1 DEF Unlock, TypeOK, Job
<1>4. CASE job[w].mode = "range" /\ ~failedCall
  <2>1. CloseSession(w, "running", job[w].cursor, 0) /\ Unlock(w)
    BY <1>4 DEF FailAttempt, AttemptsLeft
  <2>2. job[w].cursor \in Cursors /\ "running" \in Statuses /\ 0 \in Nat
    BY <1>1 DEF Job, Statuses
  <2> QED
    BY <2>1, <2>2, <1>2, <1>3, CloseSessionType DEF TypeOK
<1>5. CASE ~(job[w].mode = "range" /\ ~failedCall) /\ job[w].attempt < MaxAttempts
  <2> DEFINE j == [job[w] EXCEPT !.attempt = job[w].attempt + 1, !.left = {},
                                 !.punch = 0, !.next = NoCursor, !.fresh = {}]
  <2>1. /\ job' = [job EXCEPT ![w] = j] /\ pc' = [pc EXCEPT ![w] = "call"]
        /\ lockHolder' = lockHolder /\ txSessions' = txSessions
    BY <1>5 DEF FailAttempt, AttemptsLeft
  <2>2. job[w].attempt + 1 \in 1 .. MaxAttempts
    BY <1>1, <1>5, BoundsAssumption DEF Job
  <2>3. j \in Job
    BY <1>1, <2>2, RetryJob
  <2>5. j.fresh = {}
    BY <1>1 DEF Job
  <2>4. "call" \in Labels
    BY DEF Labels
  <2> HIDE DEF j
  <2> QED
    BY <2>1, <2>3, <2>4, <2>5, <1>2, WorkerType, FS_EmptySet DEF TypeOK
<1>6. CASE ~(job[w].mode = "range" /\ ~failedCall) /\ ~(job[w].attempt < MaxAttempts)
  <2> DEFINE c == IF job[w].mode = "range" THEN job[w].cursor ELSE NoCursor
  <2>1. CloseSession(w, "failed", c, job[w].total) /\ Unlock(w)
    BY <1>6 DEF FailAttempt, AttemptsLeft
  <2>2. c \in Cursors /\ "failed" \in Statuses /\ job[w].total \in Nat
    BY <1>1, BoundsAssumption DEF Job, Statuses, Cursors, NoCursor
  <2> HIDE DEF c
  <2> QED
    BY <2>1, <2>2, <1>2, <1>3, CloseSessionType DEF TypeOK
<1> QED
  BY <1>4, <1>5, <1>6

LEMMA RollBackType ==
  ASSUME TypeOK, NEW w \in Workers, RollBack(w),
         lockHolder' \in [Devices -> Workers \cup {Nobody}],
         leaked' \in [Workers -> SUBSET Devices]
  PROVE  TypeOK'
<1>1. "cycle" \in Labels /\ NoJob \in Job \cup {NoJob}
  BY DEF Labels
<1>2. /\ pc' = [pc EXCEPT ![w] = "cycle"] /\ job' = [job EXCEPT ![w] = NoJob]
      /\ txRows' = [txRows EXCEPT ![w] = {}]
      /\ txSessions' = [txSessions EXCEPT ![w] = {}]
      /\ recorded' = recorded /\ rawPunches' = rawPunches
      /\ pullSessions' = pullSessions /\ clock' = clock
  BY DEF RollBack, committed
<1>3. /\ txRows' \in [Workers -> SUBSET PunchRow]
      /\ txSessions' \in [Workers -> SUBSET PullSession]
  BY <1>2 DEF TypeOK
<1> QED
  BY <1>1, <1>2, <1>3, WorkerType DEF TypeOK

LEMMA BeginPullType ==
  ASSUME TypeOK, NEW w \in Workers, NEW d \in Devices, NEW mode \in Modes,
         BeginPull(w, d, mode)
  PROVE  TypeOK'
<1> DEFINE c == IF mode = "cursor" THEN LatestCursor(SessionsSeen(w), d) ELSE NoCursor
           j == [session |-> clock + 1, device |-> d, mode |-> mode, cursor |-> c,
                 attempt |-> 1, left |-> {}, punch |-> 0, next |-> NoCursor,
                 fresh |-> {}, total |-> 0, batch |-> 1, seen |-> {}]
<1>1. c \in Cursors
  <2>1. SessionsSeen(w) \in SUBSET PullSession
    BY DEF TypeOK, SessionsSeen
  <2> QED
    BY <2>1, LatestCursorType, BoundsAssumption DEF Cursors, NoCursor
<1>2. clock + 1 \in Stamps /\ clock + 1 \in 0 .. MaxSessions
  BY BoundsAssumption DEF BeginPull, TypeOK, Stamps
<1>3. job' = [job EXCEPT ![w] = j]
  BY DEF BeginPull
<1> HIDE DEF c
<1>4. j \in Job /\ j.fresh = {}
  BY <1>1, <1>2, BoundsAssumption DEF Job, Cursors, NoCursor
<1>5. "lock" \in Labels
  BY DEF Labels
<1> HIDE DEF j
<1>6. /\ pc' = [pc EXCEPT ![w] = "lock"] /\ clock' = clock + 1
      /\ UNCHANGED <<recorded, rawPunches, pullSessions, lockHolder, leaked, txRows,
                     txSessions>>
  BY DEF BeginPull
<1> QED
  BY <1>2, <1>3, <1>4, <1>5, <1>6, WorkerType, FS_EmptySet DEF TypeOK

LEMMA ReadPageType ==
  ASSUME TypeOK, NEW w \in Workers, NEW n \in Cursors, NEW next \in Cursors,
         ReadPage(w, n, next)
  PROVE  TypeOK'
<1> DEFINE j == [job[w] EXCEPT !.left = (job[w].cursor + 1) .. n, !.next = next]
<1>1. job[w] \in Job /\ IsFiniteSet(job[w].fresh)
  BY DEF TypeOK, ReadPage
<1>2. (job[w].cursor + 1) .. n \in SUBSET Positions
  BY <1>1, BoundsAssumption DEF Job, Cursors, Positions
<1>3. j \in Job
  BY <1>1, <1>2, PageJob
<1>4. j.fresh = job[w].fresh
  BY <1>1 DEF Job
<1>5. /\ job' = [job EXCEPT ![w] = j] /\ pc' = [pc EXCEPT ![w] = "select"]
      /\ UNCHANGED <<recorded, committed, lockHolder, leaked, txRows, txSessions>>
  BY DEF ReadPage
<1>6. "select" \in Labels
  BY DEF Labels
<1> HIDE DEF j
<1> QED
  BY <1>1, <1>3, <1>4, <1>5, <1>6, WorkerType DEF TypeOK, committed

LEMMA SelectPunchType ==
  ASSUME TypeOK, NEW w \in Workers, NEW p \in Positions, SelectPunch(w, p)
  PROVE  TypeOK'
<1> DEFINE seen == HasPunch(RowsSeen(w), job[w].device, p)
           j == IF seen THEN [job[w] EXCEPT !.left = job[w].left \ {p}]
                        ELSE [job[w] EXCEPT !.punch = p]
           l == IF seen THEN "select" ELSE "insert"
<1>1. job[w] \in Job /\ IsFiniteSet(job[w].fresh) /\ pc[w] = "select"
  BY DEF TypeOK, SelectPunch
<1>2. job' = [job EXCEPT ![w] = j]
  BY DEF SelectPunch
<1>3. pc' = [pc EXCEPT ![w] = l]
  BY <1>1 DEF SelectPunch, TypeOK
<1>4. j \in Job /\ j.fresh = job[w].fresh /\ (l = "insert" => j.punch \in Positions)
  <2>1. [job[w] EXCEPT !.left = job[w].left \ {p}] \in Job
    BY <1>1 DEF Job
  <2>2. [job[w] EXCEPT !.punch = p] \in Job
    BY <1>1 DEF Job, Positions, Cursors
  <2>3. /\ [job[w] EXCEPT !.left = job[w].left \ {p}].fresh = job[w].fresh
        /\ [job[w] EXCEPT !.punch = p].fresh = job[w].fresh
        /\ [job[w] EXCEPT !.punch = p].punch = p
    BY <1>1 DEF Job
  <2> HIDE DEF seen
  <2> QED
    BY <2>1, <2>2, <2>3
<1>5. l \in Labels
  BY DEF Labels
<1>6. UNCHANGED <<recorded, committed, lockHolder, leaked, txRows, txSessions>>
  BY DEF SelectPunch
<1> HIDE DEF j, l, seen
<1> QED
  BY <1>1, <1>2, <1>3, <1>4, <1>5, <1>6, WorkerType DEF TypeOK, committed

LEMMA InsertPunchType ==
  ASSUME TypeOK, NEW w \in Workers, InsertPunch(w)
  PROVE  TypeOK'
<1> DEFINE row == [device |-> job[w].device, pos |-> job[w].punch,
                   session |-> job[w].session]
           j == [job[w] EXCEPT !.left = job[w].left \ {job[w].punch}, !.punch = 0,
                               !.fresh = job[w].fresh \cup {row}]
<1>1. job[w] \in Job /\ IsFiniteSet(job[w].fresh) /\ job[w].punch \in Positions
  BY DEF TypeOK, InsertPunch
<1>2. row \in PunchRow
  BY <1>1 DEF Job, PunchRow
<1>3. j \in Job
  <2>1. job[w].left \ {job[w].punch} \in SUBSET Positions
    BY <1>1 DEF Job
  <2>2. job[w].fresh \cup {row} \in SUBSET PunchRow
    BY <1>1, <1>2 DEF Job
  <2> HIDE DEF row
  <2> QED
    BY <1>1, <2>1, <2>2, RowJob
<1>4. j.fresh = job[w].fresh \cup {row}
  BY <1>1 DEF Job
<1>5. IsFiniteSet(j.fresh)
  <2> HIDE DEF j, row
  <2> QED
    BY <1>1, <1>4, FS_AddElement
<1>6. /\ job' = [job EXCEPT ![w] = j] /\ pc' = [pc EXCEPT ![w] = "select"]
      /\ txRows' = [txRows EXCEPT ![w] = txRows[w] \cup {row}]
      /\ UNCHANGED <<recorded, committed, lockHolder, leaked, txSessions>>
  BY DEF InsertPunch
<1>7. "select" \in Labels
  BY DEF Labels
<1> HIDE DEF j, row
<1>8. txRows' \in [Workers -> SUBSET PunchRow]
  BY <1>2, <1>6 DEF TypeOK
<1> QED
  BY <1>3, <1>5, <1>6, <1>7, <1>8, WorkerType DEF TypeOK, committed

LEMMA FinishBatchType ==
  ASSUME TypeOK, NEW w \in Workers, FinishBatch(w)
  PROVE  TypeOK'
<1> DEFINE total == job[w].total + Cardinality(job[w].fresh)
<1>1. job[w] \in Job /\ IsFiniteSet(job[w].fresh) /\ pc[w] = "select"
  BY DEF TypeOK, FinishBatch
<1>2. total \in Nat
  BY <1>1, FS_CardinalityType DEF Job
<1>3. UNCHANGED <<recorded, committed, leaked, txRows>>
  BY DEF FinishBatch
<1>4. Unlock(w) => lockHolder' \in [Devices -> Workers \cup {Nobody}]
  BY <1>1 DEF Unlock, TypeOK, Job
<1>5. CASE job[w].next = NoCursor
  <2>1. pc' = [pc EXCEPT ![w] = "finish"] /\ Unlock(w) /\ UNCHANGED <<job, txSessions>>
    BY <1>5 DEF FinishBatch
  <2>2. "finish" \in Labels /\ job = [job EXCEPT ![w] = job[w]]
    BY DEF Labels, TypeOK
  <2> QED
    BY <1>1, <1>3, <1>4, <2>1, <2>2, WorkerType DEF TypeOK, committed
<1>6. CASE /\ job[w].next # NoCursor
           /\ job[w].next \in job[w].seen \/ job[w].batch = MaxBatches
  <2>1. CloseSession(w, "failed", job[w].next, total) /\ Unlock(w)
    BY <1>6 DEF FinishBatch
  <2>2. job[w].next \in Cursors /\ "failed" \in Statuses
    BY <1>1 DEF Job, Statuses
  <2> HIDE DEF total
  <2> QED
    BY <1>1, <1>2, <1>3, <1>4, <2>1, <2>2, CloseSessionType DEF TypeOK, committed
<1>7. CASE /\ job[w].next # NoCursor
           /\ ~(job[w].next \in job[w].seen \/ job[w].batch = MaxBatches)
  <2> DEFINE j == [job[w] EXCEPT !.cursor = job[w].next, !.attempt = 1,
                                 !.next = NoCursor, !.fresh = {}, !.total = total,
                                 !.batch = job[w].batch + 1,
                                 !.seen = job[w].seen \cup {job[w].next}]
  <2>1. /\ job' = [job EXCEPT ![w] = j] /\ pc' = [pc EXCEPT ![w] = "call"]
        /\ UNCHANGED <<lockHolder, txSessions>>
    BY <1>7 DEF FinishBatch
  <2>2. job[w].batch + 1 \in 1 .. MaxBatches
    BY <1>1, <1>7, BoundsAssumption DEF Job
  <2>3. job[w].next \in Cursors /\ job[w].seen \cup {job[w].next} \in SUBSET Cursors
    BY <1>1 DEF Job
  <2>4. "call" \in Labels
    BY DEF Labels
  <2>5. j.fresh = {}
    BY <1>1 DEF Job
  <2> HIDE DEF total
  <2>6. j \in Job
    BY <1>1, <1>2, <2>2, <2>3, NextBatchJob
  <2> HIDE DEF j
  <2> QED
    BY <1>3, <2>1, <2>4, <2>5, <2>6, WorkerType, FS_EmptySet DEF TypeOK, committed
<1> QED
  BY <1>5, <1>6, <1>7

LEMMA FinishPullType ==
  ASSUME TypeOK, NEW w \in Workers, FinishPull(w)
  PROVE  TypeOK'
<1> DEFINE total == job[w].total + Cardinality(job[w].fresh)
<1>1. job[w] \in Job /\ IsFiniteSet(job[w].fresh) /\ pc[w] # "cycle"
  BY DEF TypeOK, FinishPull
<1>2. total \in Nat
  BY <1>1, FS_CardinalityType DEF Job
<1>3. CloseSession(w, "succeeded", job[w].next, total)
  BY DEF FinishPull
<1>4. lockHolder' \in [Devices -> Workers \cup {Nobody}]
  BY <1>1 DEF FinishPull, Unlock, TypeOK, Job
<1>5. UNCHANGED <<recorded, committed, leaked, txRows>>
  BY DEF FinishPull
<1>6. job[w].next \in Cursors /\ "succeeded" \in Statuses
  BY <1>1 DEF Job, Statuses
<1> HIDE DEF total
<1> QED
  BY <1>1, <1>2, <1>3, <1>4, <1>5, <1>6, CloseSessionType DEF TypeOK, committed

LEMMA StepType == TypeOK /\ [Next]_vars => TypeOK'
<1> SUFFICES ASSUME TypeOK, [Next]_vars PROVE TypeOK'
  OBVIOUS
<1>1. CASE UNCHANGED vars
  BY <1>1 DEF vars, TypeOK
<1>2. ASSUME NEW d \in Devices, RecordPunch(d) PROVE TypeOK'
  BY <1>2, BoundsAssumption DEF RecordPunch, TypeOK, Cursors, committed
<1>3. ASSUME NEW w \in Workers, Step(w) PROVE TypeOK'
  <2>1. ASSUME NEW d \in Devices, NEW mode \in Modes, BeginPull(w, d, mode)
        PROVE  TypeOK'
    BY <2>1, BeginPullType
  <2>2. CASE TryLock(w)
    <3>1. job[w] \in Job /\ IsFiniteSet(job[w].fresh)
      BY <2>2 DEF TypeOK, TryLock
    <3>2. "call" \in Labels /\ job = [job EXCEPT ![w] = job[w]]
      BY DEF Labels, TypeOK
    <3>3. lockHolder' \in [Devices -> Workers \cup {Nobody}]
      BY <2>2, <3>1 DEF TryLock, TypeOK, Job
    <3> QED
      BY <2>2, <3>1, <3>2, <3>3, WorkerType DEF TryLock, TypeOK, committed
  <2>3. CASE SkipLocked(w)
    <3>1. NoCursor \in Cursors /\ "skipped" \in Statuses /\ 0 \in Nat
      BY BoundsAssumption DEF Cursors, NoCursor, Statuses
    <3> QED
      BY <2>3, <3>1, CloseSessionType DEF SkipLocked, TypeOK, committed
  <2>4. ASSUME NEW n \in Cursors, NEW next \in Cursors, ReadPage(w, n, next)
        PROVE  TypeOK'
    BY <2>4, ReadPageType
  <2>5. CASE CallFails(w) \/ InsertConflicts(w) \/ InsertDeadlocks(w) \/ IngestFails(w)
    BY <2>5, FailAttemptType DEF CallFails, InsertConflicts, InsertDeadlocks, IngestFails
  <2>6. ASSUME NEW p \in Positions, SelectPunch(w, p) PROVE TypeOK'
    BY <2>6, SelectPunchType
  <2>7. CASE InsertPunch(w)
    BY <2>7, InsertPunchType
  <2>8. CASE FinishPage(w)
    <3>1. "finish" \in Labels /\ job = [job EXCEPT ![w] = job[w]]
      BY DEF Labels, TypeOK
    <3> QED
      BY <2>8, <3>1, WorkerType DEF FinishPage, TypeOK, committed
  <2>9. CASE FinishBatch(w)
    BY <2>9, FinishBatchType
  <2>10. CASE FinishPull(w)
    BY <2>10, FinishPullType
  <2>11. CASE FinishDeadlocks(w)
    <3>1. job[w] \in Job
      BY <2>11 DEF FinishDeadlocks, TypeOK
    <3> QED
      BY <2>11, <3>1, RollBackType DEF FinishDeadlocks, TypeOK, Job
  <2>12. CASE CommitCycle(w)
    BY <2>12 DEF CommitCycle, TypeOK
  <2> QED
    BY <1>3, <2>1, <2>2, <2>3, <2>4, <2>5, <2>6, <2>7, <2>8, <2>9, <2>10, <2>11, <2>12
       DEF Step
<1>4. ASSUME NEW w \in Workers, AbortCycle(w) PROVE TypeOK'
  BY <1>4, RollBackType DEF AbortCycle, TypeOK
<1>5. ASSUME NEW w \in Workers, Crash(w) PROVE TypeOK'
  BY <1>5, RollBackType DEF Crash, TypeOK
<1>6. CASE BoundReached
  BY <1>6, <1>1 DEF BoundReached
<1> QED
  BY <1>1, <1>2, <1>3, <1>4, <1>5, <1>6 DEF Next

\* TypeOK holds of every behaviour: in particular an INSERT is only ever issued
\* for a position of the page, and attempts and pages stay within their bounds.
THEOREM TypeCorrect == Spec => []TypeOK
BY InitType, StepType, PTL DEF Spec

-----------------------------------------------------------------------------
(***************************************************************************)
(* The advisory lock.                                                      *)
(***************************************************************************)

\* What one worker may do to the locks of the others.
LEMMA OthersKeepLock ==
  ASSUME TypeOK, LockExclusive, NEW w \in Workers,
         \A v \in Workers \ {w} : pc'[v] = pc[v] /\ job'[v] = job[v],
         \A d \in Devices : lockHolder'[d] # lockHolder[d] => lockHolder[d] \in {Nobody, w},
         Pulling(w)' => lockHolder'[job'[w].device] = w
  PROVE  LockExclusive'
<1> SUFFICES ASSUME NEW v \in Workers, Pulling(v)'
             PROVE  lockHolder'[job'[v].device] = v
  BY DEF LockExclusive
<1>1. CASE v = w
  BY <1>1
<1>2. CASE v # w
  <2>1. Pulling(v) /\ pc'[v] = pc[v] /\ job'[v] = job[v]
    BY <1>2 DEF Pulling
  <2>2. job[v].device \in Devices /\ lockHolder[job[v].device] = v
    BY <2>1 DEF TypeOK, LockExclusive, Pulling, Job
  <2> QED
    BY <1>2, <2>1, <2>2, NobodyAssumption
<1> QED
  BY <1>1, <1>2

\* A worker that is pulling gives the lock back and is no longer pulling.
LEMMA UnlockExclusive ==
  ASSUME TypeOK, LockExclusive, NEW w \in Workers, Pulling(w), Unlock(w),
         \A v \in Workers \ {w} : pc'[v] = pc[v] /\ job'[v] = job[v],
         ~Pulling(w)'
  PROVE  LockExclusive'
<1>1. job[w] \in Job /\ lockHolder[job[w].device] = w
  BY DEF TypeOK, LockExclusive, Pulling
<1>2. \A d \in Devices : lockHolder'[d] # lockHolder[d] => lockHolder[d] \in {Nobody, w}
  BY <1>1 DEF Unlock, TypeOK, Job
<1> QED
  BY <1>2, OthersKeepLock

LEMMA CloseExclusive ==
  ASSUME TypeOK, LockExclusive, NEW w \in Workers, Pulling(w), Unlock(w),
         NEW status, NEW cursor, NEW ingested,
         CloseSession(w, status, cursor, ingested)
  PROVE  LockExclusive'
<1>1. pc'[w] = "cycle" /\ \A v \in Workers \ {w} : pc'[v] = pc[v] /\ job'[v] = job[v]
  BY DEF CloseSession, TypeOK
<1>2. ~Pulling(w)'
  BY <1>1 DEF Pulling
<1> QED
  BY <1>1, <1>2, UnlockExclusive

\* A worker goes on under the same lock.
LEMMA KeepExclusive ==
  ASSUME TypeOK, LockExclusive, NEW w \in Workers, Pulling(w),
         NEW j, j.device = job[w].device, NEW l,
         pc' = [pc EXCEPT ![w] = l], job' = [job EXCEPT ![w] = j],
         UNCHANGED lockHolder
  PROVE  LockExclusive'
<1>1. /\ \A v \in Workers \ {w} : pc'[v] = pc[v] /\ job'[v] = job[v]
      /\ job'[w] = j
  BY DEF TypeOK
<1>2. lockHolder'[job'[w].device] = w
  BY <1>1 DEF LockExclusive
<1> QED
  BY <1>1, <1>2, OthersKeepLock

LEMMA FailAttemptExclusive ==
  ASSUME TypeOK, LockExclusive, NEW w \in Workers,
         pc[w] \in {"call", "select", "insert"}, NEW failedCall,
         FailAttempt(w, failedCall)
  PROVE  LockExclusive'
<1>1. Pulling(w) /\ job[w] \in Job
  BY DEF Pulling, TypeOK
<1>2. CASE job[w].mode = "range" /\ ~failedCall
  BY <1>1, <1>2, CloseExclusive DEF FailAttempt, AttemptsLeft
<1>3. CASE ~(job[w].mode = "range" /\ ~failedCall) /\ job[w].attempt < MaxAttempts
  <2> DEFINE j == [job[w] EXCEPT !.attempt = job[w].attempt + 1, !.left = {},
                                 !.punch = 0, !.next = NoCursor, !.fresh = {}]
  <2>1. /\ job' = [job EXCEPT ![w] = j] /\ pc' = [pc EXCEPT ![w] = "call"]
        /\ UNCHANGED lockHolder
    BY <1>3 DEF FailAttempt, AttemptsLeft
  <2>2. j.device = job[w].device
    BY <1>1 DEF Job
  <2> HIDE DEF j
  <2> QED
    BY <1>1, <2>1, <2>2, KeepExclusive
<1>4. CASE ~(job[w].mode = "range" /\ ~failedCall) /\ ~(job[w].attempt < MaxAttempts)
  BY <1>1, <1>4, CloseExclusive DEF FailAttempt, AttemptsLeft
<1> QED
  BY <1>2, <1>3, <1>4

LEMMA RollBackExclusive ==
  ASSUME TypeOK, LockExclusive, NEW w \in Workers, RollBack(w),
         \A d \in Devices : lockHolder'[d] # lockHolder[d] => lockHolder[d] = w
  PROVE  LockExclusive'
<1>1. pc'[w] = "cycle" /\ \A v \in Workers \ {w} : pc'[v] = pc[v] /\ job'[v] = job[v]
  BY DEF RollBack, TypeOK
<1> QED
  BY <1>1, OthersKeepLock DEF Pulling

LEMMA StepExclusive == TypeOK /\ LockExclusive /\ [Next]_vars => LockExclusive'
<1> SUFFICES ASSUME TypeOK, LockExclusive, [Next]_vars PROVE LockExclusive'
  OBVIOUS
<1>1. CASE UNCHANGED vars
  BY <1>1 DEF vars, LockExclusive, Pulling
<1>2. ASSUME NEW d \in Devices, RecordPunch(d) PROVE LockExclusive'
  BY <1>2 DEF RecordPunch, LockExclusive, Pulling
<1>3. ASSUME NEW w \in Workers, Step(w) PROVE LockExclusive'
  <2>1. ASSUME NEW d \in Devices, NEW mode \in Modes, BeginPull(w, d, mode)
        PROVE  LockExclusive'
    <3>1. /\ pc' = [pc EXCEPT ![w] = "lock"] /\ UNCHANGED lockHolder
          /\ \A v \in Workers \ {w} : job'[v] = job[v]
      BY <2>1 DEF BeginPull, TypeOK
    <3>2. pc'[w] = "lock" /\ \A v \in Workers \ {w} : pc'[v] = pc[v]
      BY <3>1 DEF TypeOK
    <3> QED
      BY <3>1, <3>2, OthersKeepLock DEF Pulling
  <2>2. CASE TryLock(w)
    <3>1. job[w] \in Job
      BY <2>2 DEF TypeOK, TryLock
    <3>2. \A v \in Workers \ {w} : pc'[v] = pc[v] /\ job'[v] = job[v]
      BY <2>2 DEF TryLock, TypeOK
    <3>3. /\ lockHolder'[job'[w].device] = w
          /\ \A d \in Devices : lockHolder'[d] # lockHolder[d] =>
               lockHolder[d] \in {Nobody, w}
      BY <2>2, <3>1 DEF TryLock, TypeOK, Job
    <3> QED
      BY <3>2, <3>3, OthersKeepLock
  <2>3. CASE SkipLocked(w)
    <3>1. /\ pc'[w] = "cycle" /\ UNCHANGED lockHolder
          /\ \A v \in Workers \ {w} : pc'[v] = pc[v] /\ job'[v] = job[v]
      BY <2>3 DEF SkipLocked, CloseSession, TypeOK
    <3> QED
      BY <3>1, OthersKeepLock DEF Pulling
  <2>4. ASSUME NEW n \in Cursors, NEW next \in Cursors, ReadPage(w, n, next)
        PROVE  LockExclusive'
    <3> DEFINE j == [job[w] EXCEPT !.left = (job[w].cursor + 1) .. n, !.next = next]
    <3>1. Pulling(w) /\ job[w] \in Job
      BY <2>4 DEF ReadPage, Pulling, TypeOK
    <3>2. j.device = job[w].device
      BY <3>1 DEF Job
    <3>3. /\ job' = [job EXCEPT ![w] = j] /\ pc' = [pc EXCEPT ![w] = "select"]
          /\ UNCHANGED lockHolder
      BY <2>4 DEF ReadPage
    <3> HIDE DEF j
    <3> QED
      BY <3>1, <3>2, <3>3, KeepExclusive
  <2>5. CASE CallFails(w) \/ InsertConflicts(w) \/ InsertDeadlocks(w) \/ IngestFails(w)
    BY <2>5, FailAttemptExclusive
       DEF CallFails, InsertConflicts, InsertDeadlocks, IngestFails
  <2>6. ASSUME NEW p \in Positions, SelectPunch(w, p) PROVE LockExclusive'
    <3> DEFINE stored == HasPunch(RowsSeen(w), job[w].device, p)
               j == IF stored THEN [job[w] EXCEPT !.left = job[w].left \ {p}]
                              ELSE [job[w] EXCEPT !.punch = p]
               l == IF stored THEN "select" ELSE "insert"
    <3>1. Pulling(w) /\ job[w] \in Job /\ pc[w] = "select"
      BY <2>6 DEF SelectPunch, Pulling, TypeOK
    <3>2. j.device = job[w].device
      BY <3>1 DEF Job
    <3>3. job' = [job EXCEPT ![w] = j] /\ UNCHANGED lockHolder
      BY <2>6 DEF SelectPunch
    <3>4. pc' = [pc EXCEPT ![w] = l]
      BY <2>6, <3>1 DEF SelectPunch, TypeOK
    <3> HIDE DEF j, l
    <3> QED
      BY <3>1, <3>2, <3>3, <3>4, KeepExclusive
  <2>7. CASE InsertPunch(w)
    <3> DEFINE row == [device |-> job[w].device, pos |-> job[w].punch,
                       session |-> job[w].session]
               j == [job[w] EXCEPT !.left = job[w].left \ {job[w].punch}, !.punch = 0,
                                   !.fresh = job[w].fresh \cup {row}]
    <3>1. Pulling(w) /\ job[w] \in Job
      BY <2>7 DEF InsertPunch, Pulling, TypeOK
    <3>2. j.device = job[w].device
      BY <3>1 DEF Job
    <3>3. /\ job' = [job EXCEPT ![w] = j] /\ pc' = [pc EXCEPT ![w] = "select"]
          /\ UNCHANGED lockHolder
      BY <2>7 DEF InsertPunch
    <3> HIDE DEF j
    <3> QED
      BY <3>1, <3>2, <3>3, KeepExclusive
  <2>8. CASE FinishPage(w)
    <3>1. Pulling(w) /\ job = [job EXCEPT ![w] = job[w]]
      BY <2>8 DEF FinishPage, Pulling, TypeOK
    <3> QED
      BY <2>8, <3>1, KeepExclusive DEF FinishPage
  <2>9. CASE FinishBatch(w)
    <3>1. Pulling(w) /\ job[w] \in Job /\ job[w].mode = "range"
      BY <2>9 DEF FinishBatch, Pulling, TypeOK
    <3>2. CASE job[w].next = NoCursor
      <4>1. /\ pc' = [pc EXCEPT ![w] = "finish"] /\ Unlock(w) /\ UNCHANGED job
        BY <2>9, <3>2 DEF FinishBatch
      <4>2. pc'[w] = "finish" /\ \A v \in Workers \ {w} : pc'[v] = pc[v]
        BY <4>1 DEF TypeOK
      <4>3. ~Pulling(w)'
        BY <3>1, <4>1, <4>2 DEF Pulling
      <4> QED
        BY <3>1, <4>1, <4>2, <4>3, UnlockExclusive
    <3>3. CASE /\ job[w].next # NoCursor
               /\ job[w].next \in job[w].seen \/ job[w].batch = MaxBatches
      BY <2>9, <3>1, <3>3, CloseExclusive DEF FinishBatch
    <3>4. CASE /\ job[w].next # NoCursor
               /\ ~(job[w].next \in job[w].seen \/ job[w].batch = MaxBatches)
      <4> DEFINE t == job[w].total + Cardinality(job[w].fresh)
                 j == [job[w] EXCEPT !.cursor = job[w].next, !.attempt = 1,
                                     !.next = NoCursor, !.fresh = {}, !.total = t,
                                     !.batch = job[w].batch + 1,
                                     !.seen = job[w].seen \cup {job[w].next}]
      <4>1. /\ job' = [job EXCEPT ![w] = j] /\ pc' = [pc EXCEPT ![w] = "call"]
            /\ UNCHANGED lockHolder
        BY <2>9, <3>4 DEF FinishBatch
      <4>2. j.device = job[w].device
        BY <3>1 DEF Job
      <4> HIDE DEF j
      <4> QED
        BY <3>1, <4>1, <4>2, KeepExclusive
    <3> QED
      BY <3>2, <3>3, <3>4
  <2>10. CASE FinishPull(w)
    <3> DEFINE t == job[w].total + Cardinality(job[w].fresh)
    <3>1. CloseSession(w, "succeeded", job[w].next, t)
      BY <2>10 DEF FinishPull
    <3>2. CASE job[w].mode = "cursor"
      <4>1. Pulling(w) /\ Unlock(w)
        BY <2>10, <3>2 DEF FinishPull, Pulling
      <4> QED
        BY <3>1, <4>1, CloseExclusive
    <3>3. CASE job[w].mode # "cursor"
      <4>1. UNCHANGED lockHolder
        BY <2>10, <3>3 DEF FinishPull
      <4>2. /\ pc'[w] = "cycle"
            /\ \A v \in Workers \ {w} : pc'[v] = pc[v] /\ job'[v] = job[v]
        BY <3>1 DEF CloseSession, TypeOK
      <4> QED
        BY <4>1, <4>2, OthersKeepLock DEF Pulling
    <3> QED
      BY <3>2, <3>3
  <2>11. CASE FinishDeadlocks(w)
    BY <2>11, RollBackExclusive DEF FinishDeadlocks
  <2>12. CASE CommitCycle(w)
    BY <2>12 DEF CommitCycle, LockExclusive, Pulling
  <2> QED
    BY <1>3, <2>1, <2>2, <2>3, <2>4, <2>5, <2>6, <2>7, <2>8, <2>9, <2>10, <2>11, <2>12
       DEF Step
<1>4. ASSUME NEW w \in Workers, AbortCycle(w) PROVE LockExclusive'
  BY <1>4, RollBackExclusive DEF AbortCycle
<1>5. ASSUME NEW w \in Workers, Crash(w) PROVE LockExclusive'
  BY <1>5, RollBackExclusive DEF Crash
<1>6. CASE BoundReached
  BY <1>1, <1>6 DEF BoundReached
<1> QED
  BY <1>1, <1>2, <1>3, <1>4, <1>5, <1>6 DEF Next

\* However pulls crash, lose their cycle or leak locks, no two workers are
\* ever inside the advisory lock of one device.
THEOREM LockIsExclusive == Spec => []LockExclusive
<1>1. Init => LockExclusive
  BY DEF Init, LockExclusive, Pulling
<1> QED
  BY <1>1, StepExclusive, TypeCorrect, PTL DEF Spec

-----------------------------------------------------------------------------
(***************************************************************************)
(* The evidence.                                                           *)
(***************************************************************************)

LEMMA InitEvidence == Init => EvidenceInv
BY DEF Init, EvidenceInv, OneRowPerPunch, OpenRows, NoEvidenceSkipped, PageInv,
       CoverInv, Kept, Fresh, Succeeded

\* A resume point is NoCursor or the cursor of a succeeded session.
LEMMA LatestCursorCovered ==
  ASSUME NEW sessions \in SUBSET PullSession, NEW d \in Devices, NEW rows,
         \A s \in sessions : s.status = "succeeded" => Covered(rows, s.device, s.cursor)
  PROVE  Covered(rows, d, LatestCursor(sessions, d))
<1>1. CASE LatestSucceeded(sessions, d) = {}
  BY <1>1 DEF LatestCursor, NoCursor, Covered
<1>2. CASE LatestSucceeded(sessions, d) # {}
  <2>1. PICK s \in LatestSucceeded(sessions, d) :
          LatestCursor(sessions, d) = s.cursor
    BY <1>2 DEF LatestCursor
  <2>2. s \in sessions /\ s.status = "succeeded" /\ s.device = d
    BY <2>1 DEF LatestSucceeded, Succeeded
  <2> QED
    BY <2>1, <2>2
<1> QED
  BY <1>1, <1>2

LEMMA CoveredMonotone ==
  ASSUME NEW rows, NEW more, rows \subseteq more, NEW d, NEW c, Covered(rows, d, c)
  PROVE  Covered(more, d, c)
BY DEF Covered, HasPunch

\* What a worker relies on survives the steps of the others: the committed
\* rows and the punches of the device only grow.
LEMMA OthersKeepEvidence ==
  ASSUME TypeOK, TypeOK', NEW v \in Workers, PageInv(v), CoverInv(v),
         pc'[v] = pc[v], job'[v] = job[v], txRows'[v] = txRows[v],
         txSessions'[v] = txSessions[v], rawPunches \subseteq rawPunches',
         \A d \in Devices : recorded[d] <= recorded'[d]
  PROVE  PageInv(v)' /\ CoverInv(v)'
<1>1. Kept(v) \subseteq Kept(v)' /\ RowsSeen(v) \subseteq RowsSeen(v)'
  BY DEF Kept, Fresh, RowsSeen
<1>2. CoverInv(v)'
  BY <1>1, CoveredMonotone DEF CoverInv
<1>3. ASSUME pc[v] \in {"select", "insert", "finish"}
      PROVE  1 .. recorded[job[v].device] \subseteq 1 .. recorded'[job[v].device]
  <2>1. job[v].device \in Devices
    BY <1>3 DEF TypeOK, Job
  <2>2. recorded[job[v].device] \in Nat /\ recorded'[job[v].device] \in Nat
    BY <2>1 DEF TypeOK, Cursors
  <2> QED
    BY <2>1, <2>2
<1>4. PageInv(v)'
  BY <1>1, <1>3 DEF PageInv, HasPunch
<1> QED
  BY <1>2, <1>4

\* The pull of w returns; only a pull that succeeded vouches for its cursor.
LEMMA CloseKeepsEvidence ==
  ASSUME TypeOK, NEW w \in Workers, CoverInv(w), NEW status, NEW cursor, NEW ingested,
         CloseSession(w, status, cursor, ingested), Kept(w) \subseteq RowsSeen(w)',
         status = "succeeded" => Covered(RowsSeen(w)', job[w].device, cursor)
  PROVE  PageInv(w)' /\ CoverInv(w)'
<1> DEFINE s == [id |-> job[w].session, device |-> job[w].device,
                 mode |-> job[w].mode, status |-> status, cursor |-> cursor,
                 ingested |-> ingested]
<1>1. pc'[w] = "cycle" /\ txSessions'[w] = txSessions[w] \cup {s}
  BY DEF CloseSession, TypeOK
<1>2. s.status = status /\ s.device = job[w].device /\ s.cursor = cursor
  OBVIOUS
<1>3. Kept(w)' = RowsSeen(w)'
  BY <1>1 DEF Kept, Fresh, RowsSeen
<1> HIDE DEF s
<1>4. CoverInv(w)'
  BY <1>1, <1>2, <1>3, CoveredMonotone DEF CoverInv
<1> QED
  BY <1>1, <1>4 DEF PageInv

LEMMA RollBackKeepsEvidence ==
  ASSUME TypeOK, NEW w \in Workers, RollBack(w)
  PROVE  PageInv(w)' /\ CoverInv(w)'
<1>1. pc'[w] = "cycle" /\ txSessions'[w] = {}
  BY DEF RollBack, TypeOK
<1> QED
  BY <1>1 DEF PageInv, CoverInv

\* A step that commits nothing and adds no row to any transaction keeps the
\* rows unique, the committed sessions covered and the rows recorded.
LEMMA FewerRows ==
  ASSUME TypeOK, TypeOK', EvidenceInv,
         rawPunches' = rawPunches, pullSessions' = pullSessions,
         OpenRows' \subseteq OpenRows,
         \A d \in Devices : recorded[d] <= recorded'[d]
  PROVE  /\ OneRowPerPunch' /\ NoEvidenceSkipped'
         /\ \A r \in rawPunches' \cup OpenRows' : r.pos <= recorded'[r.device]
<1>1. OneRowPerPunch'
  BY DEF OneRowPerPunch, EvidenceInv
<1>2. NoEvidenceSkipped'
  BY DEF NoEvidenceSkipped, EvidenceInv
<1>3. ASSUME NEW r \in rawPunches' \cup OpenRows'
      PROVE  r.pos <= recorded'[r.device]
  <2>1. r \in rawPunches \cup OpenRows
    OBVIOUS
  <2>2. r \in PunchRow
    BY <2>1 DEF TypeOK, OpenRows
  <2>3. r.device \in Devices /\ r.pos \in Nat
    BY <2>2 DEF PunchRow, Positions
  <2>4. recorded[r.device] \in Nat /\ recorded'[r.device] \in Nat
    BY <2>3 DEF TypeOK, Cursors
  <2> QED
    BY <2>1, <2>3, <2>4 DEF EvidenceInv
<1> QED
  BY <1>1, <1>2, <1>3

\* A step of w that commits nothing and adds no row: what is left to show is
\* what w itself relies on.
LEMMA LocalStep ==
  ASSUME TypeOK, TypeOK', EvidenceInv, NEW w \in Workers,
         UNCHANGED <<recorded, rawPunches, pullSessions>>,
         \A v \in Workers \ {w} : /\ pc'[v] = pc[v] /\ job'[v] = job[v]
                                 /\ txRows'[v] = txRows[v]
                                 /\ txSessions'[v] = txSessions[v],
         txRows'[w] \subseteq txRows[w],
         PageInv(w)' /\ CoverInv(w)'
  PROVE  EvidenceInv'
<1>1. \A d \in Devices : recorded[d] <= recorded'[d]
  BY DEF TypeOK, Cursors
<1>2. OpenRows' \subseteq OpenRows
  <2>1. \A v \in Workers : txRows'[v] \subseteq txRows[v]
    OBVIOUS
  <2> QED
    BY <2>1 DEF OpenRows
<1>3. \A v \in Workers : PageInv(v)' /\ CoverInv(v)'
  BY <1>1, OthersKeepEvidence DEF EvidenceInv
<1> QED
  BY <1>1, <1>2, <1>3, FewerRows DEF EvidenceInv

LEMMA BeginKeepsEvidence ==
  ASSUME TypeOK, TypeOK', EvidenceInv, NEW w \in Workers, NEW d \in Devices,
         NEW mode \in Modes, BeginPull(w, d, mode)
  PROVE  EvidenceInv'
<1> DEFINE c == IF mode = "cursor" THEN LatestCursor(SessionsSeen(w), d) ELSE NoCursor
<1>1. /\ pc[w] = "cycle" /\ pc'[w] = "lock"
      /\ UNCHANGED <<recorded, rawPunches, pullSessions, txRows, txSessions>>
      /\ \A v \in Workers \ {w} : pc'[v] = pc[v] /\ job'[v] = job[v]
  BY DEF BeginPull, TypeOK
<1>2. /\ job'[w].fresh = {} /\ job'[w].device = d /\ job'[w].mode = mode
      /\ job'[w].cursor = c
  BY DEF BeginPull, TypeOK
<1>3. Kept(w) = RowsSeen(w) /\ Kept(w)' = RowsSeen(w)
  BY <1>1, <1>2 DEF Kept, Fresh, RowsSeen
<1>4. mode = "cursor" => Covered(RowsSeen(w), d, c)
  <2>1. \A s \in SessionsSeen(w) :
          s.status = "succeeded" => Covered(RowsSeen(w), s.device, s.cursor)
    <3>1. ASSUME NEW s \in pullSessions, s.status = "succeeded"
          PROVE  Covered(RowsSeen(w), s.device, s.cursor)
      BY <3>1, CoveredMonotone DEF EvidenceInv, NoEvidenceSkipped, RowsSeen
    <3>2. ASSUME NEW s \in txSessions[w], s.status = "succeeded"
          PROVE  Covered(RowsSeen(w), s.device, s.cursor)
      BY <1>3, <3>2 DEF EvidenceInv, CoverInv
    <3> QED
      BY <3>1, <3>2 DEF SessionsSeen
  <2>2. SessionsSeen(w) \in SUBSET PullSession
    BY DEF SessionsSeen, TypeOK
  <2> QED
    BY <2>1, <2>2, LatestCursorCovered
<1> HIDE DEF c
<1>5. CoverInv(w)'
  BY <1>1, <1>2, <1>3, <1>4 DEF CoverInv, EvidenceInv
<1>6. PageInv(w)'
  BY <1>1, <1>2 DEF PageInv
<1> QED
  BY <1>1, <1>5, <1>6, LocalStep

LEMMA ReadKeepsEvidence ==
  ASSUME TypeOK, TypeOK', EvidenceInv, NEW w \in Workers, NEW n \in Cursors,
         NEW next \in Cursors, ReadPage(w, n, next)
  PROVE  EvidenceInv'
<1> DEFINE j == [job[w] EXCEPT !.left = (job[w].cursor + 1) .. n, !.next = next]
<1>1. /\ pc[w] = "call" /\ pc'[w] = "select" /\ job'[w] = j /\ job[w] \in Job
      /\ UNCHANGED <<recorded, rawPunches, pullSessions, txRows, txSessions>>
      /\ \A v \in Workers \ {w} : pc'[v] = pc[v] /\ job'[v] = job[v]
  BY DEF ReadPage, TypeOK, committed
<1>2. /\ j.left = (job[w].cursor + 1) .. n /\ j.next = next /\ j.fresh = job[w].fresh
      /\ j.device = job[w].device /\ j.mode = job[w].mode /\ j.cursor = job[w].cursor
  BY <1>1 DEF Job
<1> HIDE DEF j
<1>3. Kept(w)' = Kept(w) /\ RowsSeen(w)' = RowsSeen(w) /\ Kept(w) \subseteq RowsSeen(w)
  BY <1>1, <1>2 DEF Kept, Fresh, RowsSeen
<1>4. CoverInv(w)'
  BY <1>1, <1>2, <1>3 DEF CoverInv, EvidenceInv
<1>5. /\ job[w].cursor \in Nat /\ n \in Nat /\ next \in Nat
      /\ n <= recorded[job[w].device] /\ recorded[job[w].device] \in Nat
  BY <1>1 DEF ReadPage, TypeOK, Cursors, Job
<1>6. j.left \subseteq 1 .. recorded'[j.device]
  BY <1>1, <1>2, <1>5
<1>7. ASSUME job[w].mode = "cursor", NEW p \in 1 .. next
      PROVE  p \in j.left \/ HasPunch(RowsSeen(w), job[w].device, p)
  <2>1. next \in {n, NoCursor}
    BY <1>7 DEF ReadPage, NextCursors
  <2>2. p \in 1 .. n
    BY <2>1, <1>5 DEF NoCursor
  <2>3. CASE p <= job[w].cursor
    <3>1. Covered(RowsSeen(w), job[w].device, job[w].cursor)
      BY <1>1, <1>3, <1>7, CoveredMonotone DEF EvidenceInv, CoverInv
    <3> QED
      BY <2>2, <2>3, <3>1, <1>5 DEF Covered
  <2>4. CASE ~(p <= job[w].cursor)
    BY <2>2, <2>4, <1>2, <1>5
  <2> QED
    BY <2>3, <2>4
<1>8. PageInv(w)'
  BY <1>1, <1>2, <1>3, <1>6, <1>7 DEF PageInv
<1> QED
  BY <1>1, <1>4, <1>8, LocalStep

LEMMA FailKeepsEvidence ==
  ASSUME TypeOK, TypeOK', EvidenceInv, NEW w \in Workers,
         pc[w] \in {"call", "select", "insert"}, NEW failedCall \in BOOLEAN,
         FailAttempt(w, failedCall)
  PROVE  EvidenceInv'
<1>1. /\ job[w] \in Job
      /\ UNCHANGED <<recorded, rawPunches, pullSessions>>
      /\ txRows' = [txRows EXCEPT ![w] = txRows[w] \ job[w].fresh]
  BY DEF FailAttempt, SavepointRows, committed, TypeOK
<1>2. /\ txRows'[w] = txRows[w] \ job[w].fresh
      /\ \A v \in Workers \ {w} : txRows'[v] = txRows[v]
  BY <1>1 DEF TypeOK
<1>3. Kept(w) = RowsSeen(w)' /\ CoverInv(w)
  BY <1>1, <1>2 DEF Kept, Fresh, RowsSeen, EvidenceInv
<1>4. ASSUME NEW status, NEW cursor, NEW ingested, status # "succeeded",
             CloseSession(w, status, cursor, ingested)
      PROVE  EvidenceInv'
  <2>1. \A v \in Workers \ {w} : /\ pc'[v] = pc[v] /\ job'[v] = job[v]
                                /\ txSessions'[v] = txSessions[v]
    BY <1>4 DEF CloseSession, TypeOK
  <2>2. PageInv(w)' /\ CoverInv(w)'
    BY <1>3, <1>4, CloseKeepsEvidence
  <2> QED
    BY <1>1, <1>2, <2>1, <2>2, LocalStep
<1>5. CASE job[w].mode = "range" /\ ~failedCall
  BY <1>4, <1>5 DEF FailAttempt, AttemptsLeft
<1>6. CASE ~(job[w].mode = "range" /\ ~failedCall) /\ job[w].attempt < MaxAttempts
  <2> DEFINE j == [job[w] EXCEPT !.attempt = job[w].attempt + 1, !.left = {},
                                 !.punch = 0, !.next = NoCursor, !.fresh = {}]
  <2>1. /\ job'[w] = j /\ pc'[w] = "call" /\ txSessions' = txSessions
        /\ \A v \in Workers \ {w} : pc'[v] = pc[v] /\ job'[v] = job[v]
    BY <1>6 DEF FailAttempt, AttemptsLeft, TypeOK
  <2>2. /\ j.fresh = {} /\ j.device = job[w].device /\ j.mode = job[w].mode
        /\ j.cursor = job[w].cursor
    BY <1>1 DEF Job
  <2> HIDE DEF j
  <2>3. Kept(w)' = Kept(w)
    BY <1>1, <1>2, <2>1, <2>2 DEF Kept, Fresh
  <2>4. CoverInv(w)'
    BY <1>3, <2>1, <2>2, <2>3 DEF CoverInv
  <2>5. PageInv(w)'
    BY <2>1, <2>2 DEF PageInv
  <2> QED
    BY <1>1, <1>2, <2>1, <2>4, <2>5, LocalStep
<1>7. CASE ~(job[w].mode = "range" /\ ~failedCall) /\ ~(job[w].attempt < MaxAttempts)
  BY <1>4, <1>7 DEF FailAttempt, AttemptsLeft
<1> QED
  BY <1>5, <1>6, <1>7

LEMMA SelectKeepsEvidence ==
  ASSUME TypeOK, TypeOK', EvidenceInv, NEW w \in Workers, NEW p \in Positions,
         SelectPunch(w, p)
  PROVE  EvidenceInv'
<1> DEFINE d == job[w].device
<1>1. /\ pc[w] = "select" /\ job[w] \in Job /\ p \in job[w].left
      /\ UNCHANGED <<recorded, rawPunches, pullSessions, txRows, txSessions>>
      /\ \A v \in Workers \ {w} : pc'[v] = pc[v] /\ job'[v] = job[v]
      /\ PageInv(w) /\ CoverInv(w)
  BY DEF SelectPunch, TypeOK, committed, EvidenceInv
<1>2. CASE HasPunch(RowsSeen(w), d, p)
  <2> DEFINE j == [job[w] EXCEPT !.left = job[w].left \ {p}]
  <2>1. job'[w] = j /\ pc'[w] = "select"
    BY <1>1, <1>2 DEF SelectPunch, TypeOK
  <2>2. /\ j.left = job[w].left \ {p} /\ j.next = job[w].next
        /\ j.fresh = job[w].fresh /\ j.device = d /\ j.mode = job[w].mode
        /\ j.cursor = job[w].cursor
    BY <1>1 DEF Job
  <2> HIDE DEF j
  <2>3. Kept(w)' = Kept(w) /\ RowsSeen(w)' = RowsSeen(w)
    BY <1>1, <2>1, <2>2 DEF Kept, Fresh, RowsSeen
  <2>4. CoverInv(w)'
    BY <1>1, <2>1, <2>2, <2>3 DEF CoverInv
  <2>5. PageInv(w)'
    BY <1>1, <1>2, <2>1, <2>2, <2>3 DEF PageInv
  <2> QED
    BY <1>1, <2>4, <2>5, LocalStep
<1>3. CASE ~HasPunch(RowsSeen(w), d, p)
  <2> DEFINE j == [job[w] EXCEPT !.punch = p]
  <2>1. job'[w] = j /\ pc'[w] = "insert"
    BY <1>1, <1>3 DEF SelectPunch, TypeOK
  <2>2. /\ j.left = job[w].left /\ j.next = job[w].next /\ j.punch = p
        /\ j.fresh = job[w].fresh /\ j.device = d /\ j.mode = job[w].mode
        /\ j.cursor = job[w].cursor
    BY <1>1 DEF Job
  <2> HIDE DEF j
  <2>3. Kept(w)' = Kept(w) /\ RowsSeen(w)' = RowsSeen(w)
    BY <1>1, <2>1, <2>2 DEF Kept, Fresh, RowsSeen
  <2>4. CoverInv(w)'
    BY <1>1, <2>1, <2>2, <2>3 DEF CoverInv
  <2>5. ~HasPunch(txRows[w], d, p)
    BY <1>3 DEF HasPunch, RowsSeen
  <2>6. PageInv(w)'
    BY <1>1, <2>1, <2>2, <2>3, <2>5 DEF PageInv
  <2> QED
    BY <1>1, <2>4, <2>6, LocalStep
<1> QED
  BY <1>2, <1>3

\* The one step that adds a row: the unique constraint, the waits it causes
\* and the SELECT before it leave no other row with the key.
LEMMA InsertKeepsEvidence ==
  ASSUME TypeOK, TypeOK', EvidenceInv, NEW w \in Workers, InsertPunch(w)
  PROVE  EvidenceInv'
<1> DEFINE d == job[w].device
           p == job[w].punch
           row == [device |-> d, pos |-> p, session |-> job[w].session]
           j == [job[w] EXCEPT !.left = job[w].left \ {p}, !.punch = 0,
                               !.fresh = job[w].fresh \cup {row}]
<1>1. /\ pc[w] = "insert" /\ pc'[w] = "select" /\ job[w] \in Job /\ job'[w] = j
      /\ UNCHANGED <<recorded, rawPunches, pullSessions, txSessions>>
      /\ txRows'[w] = txRows[w] \cup {row}
      /\ \A v \in Workers \ {w} :
           pc'[v] = pc[v] /\ job'[v] = job[v] /\ txRows'[v] = txRows[v]
      /\ PageInv(w) /\ CoverInv(w)
  BY DEF InsertPunch, TypeOK, committed, EvidenceInv
<1>2. /\ j.left = job[w].left \ {p} /\ j.next = job[w].next
      /\ j.fresh = job[w].fresh \cup {row} /\ j.device = d
      /\ j.mode = job[w].mode /\ j.cursor = job[w].cursor
  BY <1>1 DEF Job
<1>3. row.device = d /\ row.pos = p
  OBVIOUS
<1> HIDE DEF row, j
<1>4. /\ ~HasPunch(rawPunches, d, p) /\ ~HasPunch(txRows[w], d, p)
      /\ \A v \in Workers \ {w} : ~HasPunch(txRows[v], d, p)
  BY <1>1 DEF InsertPunch, KeyFree, WaitsFor, PageInv
<1>5. \A r \in rawPunches \cup OpenRows : ~(r.device = d /\ r.pos = p)
  BY <1>4 DEF HasPunch, OpenRows
<1>6. rawPunches' \cup OpenRows' \subseteq (rawPunches \cup OpenRows) \cup {row}
  BY <1>1 DEF OpenRows
<1>7. OneRowPerPunch'
  <2> SUFFICES ASSUME NEW r \in rawPunches' \cup OpenRows',
                      NEW s \in rawPunches' \cup OpenRows',
                      r.device = s.device /\ r.pos = s.pos
               PROVE  r = s
    BY DEF OneRowPerPunch
  <2>1. r \in (rawPunches \cup OpenRows) \cup {row} /\ s \in (rawPunches \cup OpenRows) \cup {row}
    BY <1>6
  <2>2. CASE r = row \/ s = row
    BY <2>1, <2>2, <1>3, <1>5
  <2>3. CASE r # row /\ s # row
    BY <2>1, <2>3 DEF EvidenceInv, OneRowPerPunch
  <2> QED
    BY <2>2, <2>3
<1>8. NoEvidenceSkipped'
  BY <1>1 DEF NoEvidenceSkipped, EvidenceInv
<1>9. \A r \in rawPunches' \cup OpenRows' : r.pos <= recorded'[r.device]
  <2>1. p <= recorded[d]
    <3>1. p \in 1 .. recorded[d] /\ d \in Devices
      BY <1>1 DEF PageInv, Job
    <3> QED
      BY <3>1 DEF TypeOK, Cursors
  <2> QED
    BY <2>1, <1>1, <1>3, <1>6 DEF EvidenceInv
<1>10. Kept(w) \subseteq Kept(w)'
  <2>1. row \notin txRows[w]
    BY <1>3, <1>4 DEF HasPunch
  <2> QED
    BY <2>1, <1>1, <1>2 DEF Kept, Fresh
<1>11. CoverInv(w)'
  BY <1>1, <1>2, <1>10, CoveredMonotone DEF CoverInv
<1>12. PageInv(w)'
  <2>1. HasPunch(RowsSeen(w)', d, p) /\ RowsSeen(w) \subseteq RowsSeen(w)'
    BY <1>1, <1>3 DEF HasPunch, RowsSeen
  <2>2. ASSUME job[w].mode = "cursor", NEW q \in 1 .. job[w].next
        PROVE  q \in j.left \/ HasPunch(RowsSeen(w)', d, q)
    <3>1. q \in job[w].left \/ HasPunch(RowsSeen(w), d, q)
      BY <1>1, <2>2 DEF PageInv
    <3> QED
      BY <3>1, <2>1, <1>2 DEF HasPunch
  <2> QED
    BY <1>1, <1>2, <2>2 DEF PageInv
<1>13. \A v \in Workers \ {w} : PageInv(v)' /\ CoverInv(v)'
  <2>1. \A e \in Devices : recorded[e] <= recorded'[e]
    BY <1>1 DEF TypeOK, Cursors
  <2> QED
    BY <2>1, <1>1, OthersKeepEvidence DEF EvidenceInv
<1> QED
  BY <1>7, <1>8, <1>9, <1>11, <1>12, <1>13 DEF EvidenceInv

LEMMA FinishBatchKeepsEvidence ==
  ASSUME TypeOK, TypeOK', EvidenceInv, NEW w \in Workers, FinishBatch(w)
  PROVE  EvidenceInv'
<1> DEFINE t == job[w].total + Cardinality(job[w].fresh)
<1>1. /\ pc[w] = "select" /\ job[w] \in Job /\ job[w].mode = "range"
      /\ job[w].left = {}
      /\ UNCHANGED <<recorded, rawPunches, pullSessions, txRows>>
      /\ PageInv(w) /\ CoverInv(w)
  BY DEF FinishBatch, PageIngested, TypeOK, committed, EvidenceInv
<1>2. CASE job[w].next = NoCursor
  <2>1. /\ pc'[w] = "finish" /\ UNCHANGED <<job, txSessions>>
        /\ \A v \in Workers \ {w} : pc'[v] = pc[v]
    BY <1>2 DEF FinishBatch, TypeOK
  <2>2. Kept(w)' = Kept(w) /\ RowsSeen(w)' = RowsSeen(w)
    BY <1>1, <2>1 DEF Kept, Fresh, RowsSeen
  <2>3. CoverInv(w)'
    BY <1>1, <2>1, <2>2 DEF CoverInv
  <2>4. PageInv(w)'
    BY <1>1, <1>2, <2>1, <2>2 DEF PageInv
  <2> QED
    BY <1>1, <2>1, <2>3, <2>4, LocalStep
<1>3. CASE /\ job[w].next # NoCursor
           /\ job[w].next \in job[w].seen \/ job[w].batch = MaxBatches
  <2>1. CloseSession(w, "failed", job[w].next, t)
    BY <1>3 DEF FinishBatch
  <2>2. \A v \in Workers \ {w} : /\ pc'[v] = pc[v] /\ job'[v] = job[v]
                                /\ txSessions'[v] = txSessions[v]
    BY <2>1 DEF CloseSession, TypeOK
  <2>3. Kept(w) \subseteq RowsSeen(w)'
    BY <1>1 DEF Kept, RowsSeen
  <2> HIDE DEF t
  <2>4. PageInv(w)' /\ CoverInv(w)'
    BY <1>1, <2>1, <2>3, CloseKeepsEvidence
  <2> QED
    BY <1>1, <2>2, <2>4, LocalStep
<1>4. CASE /\ job[w].next # NoCursor
           /\ ~(job[w].next \in job[w].seen \/ job[w].batch = MaxBatches)
  <2> DEFINE j == [job[w] EXCEPT !.cursor = job[w].next, !.attempt = 1,
                                 !.next = NoCursor, !.fresh = {}, !.total = t,
                                 !.batch = job[w].batch + 1,
                                 !.seen = job[w].seen \cup {job[w].next}]
  <2>1. /\ job'[w] = j /\ pc'[w] = "call" /\ UNCHANGED txSessions
        /\ \A v \in Workers \ {w} : pc'[v] = pc[v] /\ job'[v] = job[v]
    BY <1>4 DEF FinishBatch, TypeOK
  <2>2. j.fresh = {} /\ j.mode = "range"
    BY <1>1 DEF Job
  <2> HIDE DEF j
  <2>3. Kept(w) \subseteq Kept(w)'
    BY <1>1, <2>1, <2>2 DEF Kept, Fresh
  <2>4. CoverInv(w)'
    BY <1>1, <2>1, <2>2, <2>3, CoveredMonotone DEF CoverInv
  <2>5. PageInv(w)'
    BY <2>1, <2>2 DEF PageInv
  <2> QED
    BY <1>1, <2>1, <2>4, <2>5, LocalStep
<1> QED
  BY <1>2, <1>3, <1>4

LEMMA FinishPullKeepsEvidence ==
  ASSUME TypeOK, TypeOK', EvidenceInv, NEW w \in Workers, FinishPull(w)
  PROVE  EvidenceInv'
<1> DEFINE t == job[w].total + Cardinality(job[w].fresh)
<1>1. /\ pc[w] = "finish" /\ job[w] \in Job
      /\ UNCHANGED <<recorded, rawPunches, pullSessions, txRows>>
      /\ PageInv(w) /\ CoverInv(w)
  BY DEF FinishPull, TypeOK, committed, EvidenceInv
<1>2. CloseSession(w, "succeeded", job[w].next, t)
  BY DEF FinishPull
<1>3. \A v \in Workers \ {w} : /\ pc'[v] = pc[v] /\ job'[v] = job[v]
                              /\ txSessions'[v] = txSessions[v]
  BY <1>2 DEF CloseSession, TypeOK
<1>4. Kept(w) \subseteq RowsSeen(w)' /\ RowsSeen(w)' = RowsSeen(w)
  BY <1>1 DEF Kept, RowsSeen
<1>5. Covered(RowsSeen(w)', job[w].device, job[w].next)
  <2>1. CASE job[w].mode = "cursor"
    BY <2>1, <1>1, <1>4 DEF PageInv, Covered
  <2>2. CASE job[w].mode = "range"
    <3>1. job[w].next = NoCursor
      BY <2>2, <1>1 DEF PageInv
    <3> QED
      BY <3>1 DEF Covered, NoCursor
  <2>3. job[w].mode \in {"cursor", "range"}
    BY <1>1, ModesAssumption DEF Job
  <2> QED
    BY <2>1, <2>2, <2>3
<1> HIDE DEF t
<1>6. PageInv(w)' /\ CoverInv(w)'
  BY <1>1, <1>2, <1>4, <1>5, CloseKeepsEvidence
<1> QED
  BY <1>1, <1>3, <1>6, LocalStep

LEMMA CommitKeepsEvidence ==
  ASSUME TypeOK, TypeOK', EvidenceInv, NEW w \in Workers, CommitCycle(w)
  PROVE  EvidenceInv'
<1>1. /\ pc[w] = "cycle" /\ UNCHANGED <<recorded, pc, job>>
      /\ rawPunches' = rawPunches \cup txRows[w]
      /\ pullSessions' = pullSessions \cup txSessions[w]
      /\ txRows'[w] = {} /\ txSessions'[w] = {}
      /\ \A v \in Workers \ {w} : txRows'[v] = txRows[v] /\ txSessions'[v] = txSessions[v]
      /\ CoverInv(w)
  BY DEF CommitCycle, TypeOK, EvidenceInv
<1>2. rawPunches' \cup OpenRows' \subseteq rawPunches \cup OpenRows
  BY <1>1 DEF OpenRows
<1>3. OneRowPerPunch'
  BY <1>2 DEF EvidenceInv, OneRowPerPunch
<1>4. Kept(w) = rawPunches'
  BY <1>1 DEF Kept, Fresh
<1>5. NoEvidenceSkipped'
  <2> SUFFICES ASSUME NEW s \in pullSessions', s.status = "succeeded"
               PROVE  Covered(rawPunches', s.device, s.cursor)
    BY DEF NoEvidenceSkipped
  <2>1. CASE s \in pullSessions
    BY <2>1, <1>1, CoveredMonotone DEF EvidenceInv, NoEvidenceSkipped
  <2>2. CASE s \in txSessions[w]
    BY <2>2, <1>1, <1>4 DEF CoverInv
  <2> QED
    BY <1>1, <2>1, <2>2
<1>6. \A r \in rawPunches' \cup OpenRows' : r.pos <= recorded'[r.device]
  BY <1>1, <1>2 DEF EvidenceInv
<1>7. \A v \in Workers \ {w} : PageInv(v)' /\ CoverInv(v)'
  <2>1. \A d \in Devices : recorded[d] <= recorded'[d]
    BY <1>1 DEF TypeOK, Cursors
  <2> QED
    BY <2>1, <1>1, OthersKeepEvidence DEF EvidenceInv
<1>8. PageInv(w)' /\ CoverInv(w)'
  BY <1>1 DEF PageInv, CoverInv
<1> QED
  BY <1>3, <1>5, <1>6, <1>7, <1>8 DEF EvidenceInv

LEMMA RollBackEvidence ==
  ASSUME TypeOK, TypeOK', EvidenceInv, NEW w \in Workers, RollBack(w)
  PROVE  EvidenceInv'
<1>1. /\ UNCHANGED <<recorded, rawPunches, pullSessions>>
      /\ txRows'[w] = {}
      /\ \A v \in Workers \ {w} : /\ pc'[v] = pc[v] /\ job'[v] = job[v]
                                 /\ txRows'[v] = txRows[v]
                                 /\ txSessions'[v] = txSessions[v]
  BY DEF RollBack, TypeOK, committed
<1> QED
  BY <1>1, RollBackKeepsEvidence, LocalStep

\* The label moves within a pull, nothing else that EvidenceInv reads changes.
LEMMA LabelKeepsEvidence ==
  ASSUME TypeOK, TypeOK', EvidenceInv, NEW w \in Workers, pc[w] # "cycle",
         NEW l \in Labels, l # "cycle", pc' = [pc EXCEPT ![w] = l],
         UNCHANGED <<recorded, committed, job, txRows, txSessions>>,
         PageInv(w)'
  PROVE  EvidenceInv'
<1>1. /\ pc'[w] = l /\ UNCHANGED <<recorded, rawPunches, pullSessions>>
      /\ \A v \in Workers \ {w} : pc'[v] = pc[v]
  BY DEF TypeOK, committed
<1>2. Kept(w)' = Kept(w)
  BY <1>1 DEF Kept, Fresh
<1>3. CoverInv(w)'
  BY <1>1, <1>2 DEF CoverInv, EvidenceInv
<1> QED
  BY <1>1, <1>3, LocalStep

LEMMA StepEvidence == TypeOK /\ TypeOK' /\ EvidenceInv /\ [Next]_vars => EvidenceInv'
<1> SUFFICES ASSUME TypeOK, TypeOK', EvidenceInv, [Next]_vars PROVE EvidenceInv'
  OBVIOUS
<1>1. CASE UNCHANGED vars
  <2>1. UNCHANGED <<recorded, rawPunches, pullSessions, pc, job, txRows, txSessions>>
    BY <1>1 DEF vars
  <2>2. \A d \in Devices : recorded[d] <= recorded'[d]
    BY <2>1 DEF TypeOK, Cursors
  <2>3. OpenRows' = OpenRows
    BY <2>1 DEF OpenRows
  <2>4. \A v \in Workers : PageInv(v)' /\ CoverInv(v)'
    BY <2>1, <2>2, OthersKeepEvidence DEF EvidenceInv
  <2> QED
    BY <2>1, <2>2, <2>3, <2>4, FewerRows DEF EvidenceInv
<1>2. ASSUME NEW d \in Devices, RecordPunch(d) PROVE EvidenceInv'
  <2>1. UNCHANGED <<rawPunches, pullSessions, pc, job, txRows, txSessions>>
    BY <1>2 DEF RecordPunch, committed
  <2>2. \A e \in Devices : recorded[e] <= recorded'[e]
    BY <1>2 DEF RecordPunch, TypeOK, Cursors
  <2>3. OpenRows' = OpenRows
    BY <2>1 DEF OpenRows
  <2>4. \A v \in Workers : PageInv(v)' /\ CoverInv(v)'
    BY <2>1, <2>2, OthersKeepEvidence DEF EvidenceInv
  <2> QED
    BY <2>1, <2>2, <2>3, <2>4, FewerRows DEF EvidenceInv
<1>3. ASSUME NEW w \in Workers, Step(w) PROVE EvidenceInv'
  <2>1. ASSUME NEW d \in Devices, NEW mode \in Modes, BeginPull(w, d, mode)
        PROVE  EvidenceInv'
    BY <2>1, BeginKeepsEvidence
  <2>2. CASE TryLock(w)
    <3>1. PageInv(w)'
      BY <2>2 DEF TryLock, TypeOK, EvidenceInv, PageInv
    <3> QED
      BY <2>2, <3>1, LabelKeepsEvidence DEF TryLock, Labels
  <2>3. CASE SkipLocked(w)
    <3>1. /\ UNCHANGED <<recorded, rawPunches, pullSessions, txRows>>
          /\ CloseSession(w, "skipped", NoCursor, 0)
      BY <2>3 DEF SkipLocked, committed
    <3>2. \A v \in Workers \ {w} : /\ pc'[v] = pc[v] /\ job'[v] = job[v]
                                  /\ txSessions'[v] = txSessions[v]
      BY <3>1 DEF CloseSession, TypeOK
    <3>3. Kept(w) \subseteq RowsSeen(w)' /\ CoverInv(w)
      BY <3>1 DEF Kept, RowsSeen, EvidenceInv
    <3>4. PageInv(w)' /\ CoverInv(w)'
      BY <3>1, <3>3, CloseKeepsEvidence
    <3> QED
      BY <3>1, <3>2, <3>4, LocalStep
  <2>4. ASSUME NEW n \in Cursors, NEW next \in Cursors, ReadPage(w, n, next)
        PROVE  EvidenceInv'
    BY <2>4, ReadKeepsEvidence
  <2>5. CASE CallFails(w) \/ InsertConflicts(w) \/ InsertDeadlocks(w) \/ IngestFails(w)
    BY <2>5, FailKeepsEvidence
       DEF CallFails, InsertConflicts, InsertDeadlocks, IngestFails
  <2>6. ASSUME NEW p \in Positions, SelectPunch(w, p) PROVE EvidenceInv'
    BY <2>6, SelectKeepsEvidence
  <2>7. CASE InsertPunch(w)
    BY <2>7, InsertKeepsEvidence
  <2>8. CASE FinishPage(w)
    <3>1. PageInv(w)'
      BY <2>8 DEF FinishPage, PageIngested, TypeOK, EvidenceInv, PageInv, RowsSeen, committed
    <3> QED
      BY <2>8, <3>1, LabelKeepsEvidence DEF FinishPage, Labels
  <2>9. CASE FinishBatch(w)
    BY <2>9, FinishBatchKeepsEvidence
  <2>10. CASE FinishPull(w)
    BY <2>10, FinishPullKeepsEvidence
  <2>11. CASE FinishDeadlocks(w)
    BY <2>11, RollBackEvidence DEF FinishDeadlocks
  <2>12. CASE CommitCycle(w)
    BY <2>12, CommitKeepsEvidence
  <2> QED
    BY <1>3, <2>1, <2>2, <2>3, <2>4, <2>5, <2>6, <2>7, <2>8, <2>9, <2>10, <2>11, <2>12
       DEF Step
<1>4. ASSUME NEW w \in Workers, AbortCycle(w) PROVE EvidenceInv'
  BY <1>4, RollBackEvidence DEF AbortCycle
<1>5. ASSUME NEW w \in Workers, Crash(w) PROVE EvidenceInv'
  BY <1>5, RollBackEvidence DEF Crash
<1>6. CASE BoundReached
  BY <1>1, <1>6 DEF BoundReached
<1> QED
  BY <1>1, <1>2, <1>3, <1>4, <1>5, <1>6 DEF Next

\* The inductive invariant holds of every behaviour.
THEOREM EvidenceInvariant == Spec => []EvidenceInv
BY InitEvidence, StepEvidence, TypeCorrect, PTL DEF Spec

\* No punch is ever stored twice, by however many concurrent, retried and
\* overlapping pulls.
THEOREM PunchesStoredOnce == Spec => []OneRowPerPunch
<1>1. EvidenceInv => OneRowPerPunch
  BY DEF EvidenceInv
<1> QED
  BY <1>1, EvidenceInvariant, PTL

\* No committed resume point ever skips a punch that was not committed.
THEOREM NothingSkipped == Spec => []NoEvidenceSkipped
<1>1. EvidenceInv => NoEvidenceSkipped
  BY DEF EvidenceInv
<1> QED
  BY <1>1, EvidenceInvariant, PTL

-----------------------------------------------------------------------------
(***************************************************************************)
(* The counts.                                                             *)
(***************************************************************************)

LEMMA InitCount == Init => CountInv
<1> SUFFICES ASSUME Init PROVE CountInv
  OBVIOUS
<1>1. \A w \in Workers : Counting(w)
  BY FS_EmptySet DEF Init, Counting
<1>2. StampedBefore = {} /\ \A w \in Workers : Stamped(w) = {}
  BY DEF Init, StampedBefore, Stamped
<1>3. UNION {Stamped(w) : w \in Workers} = {}
  BY <1>2
<1> QED
  BY <1>1, <1>2, <1>3 DEF Init, CountInv, CountsExact, StampsApart

\* What a worker has counted survives the steps of the others.
LEMMA OthersCount ==
  ASSUME NEW v \in Workers, Counting(v), pc'[v] = pc[v], job'[v] = job[v],
         txRows'[v] = txRows[v], txSessions'[v] = txSessions[v]
  PROVE  Counting(v)' /\ Stamped(v)' = Stamped(v)
<1>1. Stamped(v)' = Stamped(v)
  BY DEF Stamped
<1>2. Counting(v)'
  BY DEF Counting, RowsOf
<1> QED
  BY <1>1, <1>2

\* A step of w that commits nothing and begins no pull: what is left to show
\* is what w itself has counted.
LEMMA CountLocal ==
  ASSUME CountInv, NEW w \in Workers, UNCHANGED <<rawPunches, pullSessions, clock>>,
         \A v \in Workers \ {w} : /\ pc'[v] = pc[v] /\ job'[v] = job[v]
                                 /\ txRows'[v] = txRows[v]
                                 /\ txSessions'[v] = txSessions[v],
         Stamped(w)' \subseteq Stamped(w), Counting(w)'
  PROVE  CountInv'
<1>1. CountsExact'
  BY DEF CountInv, CountsExact
<1>2. \A v \in Workers : Counting(v)' /\ Stamped(v)' \subseteq Stamped(v)
  BY OthersCount DEF CountInv
<1>3. StampedBefore' = StampedBefore
  BY DEF StampedBefore
<1>4. StampsApart'
  BY <1>2, <1>3 DEF CountInv, StampsApart
<1> QED
  BY <1>1, <1>2, <1>4 DEF CountInv

\* A pull goes on with the same rows.
LEMMA KeepCounts ==
  ASSUME TypeOK, CountInv, NEW w \in Workers, pc[w] # "cycle",
         UNCHANGED <<rawPunches, pullSessions, clock, txRows, txSessions>>,
         \A v \in Workers \ {w} : pc'[v] = pc[v] /\ job'[v] = job[v],
         pc'[w] \notin {"cycle", "lock"},
         pc'[w] = "call" => job[w].fresh = {},
         job'[w].session = job[w].session, job'[w].fresh = job[w].fresh,
         job'[w].total = job[w].total, job'[w].mode = job[w].mode
  PROVE  CountInv'
<1>1. Counting(w)'
  BY DEF CountInv, Counting, RowsOf
<1>2. Stamped(w)' \subseteq Stamped(w)
  BY DEF Stamped
<1> QED
  BY <1>1, <1>2, CountLocal

\* The rows of other sessions are not those since the savepoint.
LEMMA SavepointCounts ==
  ASSUME NEW w \in Workers, Counting(w), pc[w] # "cycle"
  PROVE  /\ RowsOf(txRows[w] \ job[w].fresh, job[w].session)
              = RowsOf(txRows[w], job[w].session) \ job[w].fresh
         /\ \A s \in txSessions[w] :
              RowsOf(txRows[w] \ job[w].fresh, s.id) = RowsOf(txRows[w], s.id)
         /\ IsFiniteSet(txRows[w] \ job[w].fresh)
<1>1. job[w].fresh \subseteq RowsOf(txRows[w], job[w].session) /\ IsFiniteSet(txRows[w])
  BY DEF Counting
<1>2. \A s \in txSessions[w] : s.id # job[w].session
  BY DEF Counting
<1>3. IsFiniteSet(txRows[w] \ job[w].fresh)
  BY <1>1, FS_Subset
<1> QED
  BY <1>1, <1>2, <1>3 DEF RowsOf

\* The pull of w returns with its count.
LEMMA CloseCounts ==
  ASSUME TypeOK, CountInv, NEW w \in Workers, pc[w] # "cycle",
         NEW status, NEW cursor, NEW ingested,
         CloseSession(w, status, cursor, ingested),
         UNCHANGED <<rawPunches, pullSessions, clock>>,
         \A v \in Workers \ {w} : txRows'[v] = txRows[v],
         txRows'[w] \in {txRows[w], txRows[w] \ job[w].fresh},
         status # "running" =>
           ingested = Cardinality(RowsOf(txRows'[w], job[w].session))
  PROVE  CountInv'
<1> DEFINE session == [id |-> job[w].session, device |-> job[w].device,
                       mode |-> job[w].mode, status |-> status, cursor |-> cursor,
                       ingested |-> ingested]
<1>1. /\ pc'[w] = "cycle" /\ txSessions'[w] = txSessions[w] \cup {session}
      /\ \A v \in Workers \ {w} : /\ pc'[v] = pc[v] /\ job'[v] = job[v]
                                 /\ txSessions'[v] = txSessions[v]
  BY DEF CloseSession, TypeOK
<1>2. /\ session.id = job[w].session /\ session.status = status
      /\ session.ingested = ingested
  OBVIOUS
<1> HIDE DEF session
<1>3. Counting(w)
  BY DEF CountInv
<1>4. /\ IsFiniteSet(txRows'[w])
      /\ \A s \in txSessions[w] : RowsOf(txRows'[w], s.id) = RowsOf(txRows[w], s.id)
  BY <1>3, SavepointCounts DEF Counting
<1>5. ASSUME NEW s \in txSessions'[w], s.status # "running"
      PROVE  s.ingested = Cardinality(RowsOf(txRows'[w], s.id))
  BY <1>1, <1>2, <1>3, <1>4, <1>5 DEF Counting
<1>6. Counting(w)'
  BY <1>1, <1>4, <1>5 DEF Counting
<1>7. Stamped(w)' \subseteq Stamped(w)
  BY <1>1, <1>2 DEF Stamped
<1> QED
  BY <1>1, <1>6, <1>7, CountLocal

LEMMA BeginCounts ==
  ASSUME TypeOK, CountInv, NEW w \in Workers, NEW d \in Devices, NEW mode \in Modes,
         BeginPull(w, d, mode)
  PROVE  CountInv'
<1>1. /\ pc[w] = "cycle" /\ pc'[w] = "lock" /\ clock' = clock + 1 /\ clock \in Nat
      /\ UNCHANGED <<rawPunches, pullSessions, txRows, txSessions>>
      /\ \A v \in Workers \ {w} : pc'[v] = pc[v] /\ job'[v] = job[v]
  BY BoundsAssumption DEF BeginPull, TypeOK
<1>2. job'[w].session = clock + 1 /\ job'[w].fresh = {} /\ job'[w].total = 0
  BY DEF BeginPull, TypeOK
<1>3. \A v \in Workers : Stamped(v) \subseteq 1 .. clock
  BY DEF CountInv, StampsApart
<1>4. Stamped(w)' = Stamped(w) \cup {clock + 1}
  BY <1>1, <1>2 DEF Stamped
<1>5. \A v \in Workers \ {w} : Counting(v)' /\ Stamped(v)' = Stamped(v)
  BY <1>1, OthersCount DEF CountInv
<1>6. clock + 1 \notin Stamped(w)
  BY <1>1, <1>3
<1>7. /\ \A s \in txSessions[w] : s.id # clock + 1
      /\ RowsOf(txRows[w], clock + 1) = {}
  BY <1>6 DEF Stamped, RowsOf
<1>8. Counting(w)'
  <2>1. Counting(w)
    BY DEF CountInv
  <2>2. \A s \in txSessions'[w] :
          s.status # "running" => s.ingested = Cardinality(RowsOf(txRows'[w], s.id))
    BY <1>1, <2>1 DEF Counting
  <2>3. RowsOf(txRows'[w], job'[w].session) = {}
    BY <1>1, <1>2, <1>7
  <2>4. Cardinality({} \ {}) = 0 /\ IsFiniteSet(txRows'[w])
    BY <1>1, <2>1, FS_EmptySet DEF Counting
  <2> QED
    BY <1>1, <1>2, <1>7, <2>2, <2>3, <2>4 DEF Counting
<1>9. StampsApart'
  <2>1. StampedBefore' = StampedBefore /\ StampedBefore \subseteq 1 .. clock
    BY <1>1 DEF StampedBefore, CountInv, StampsApart
  <2>2. clock + 1 \notin 1 .. clock /\ 1 .. clock \subseteq 1 .. clock'
        /\ clock + 1 \in 1 .. clock'
    BY <1>1
  <2>3. \A v, u \in Workers : v # u => Stamped(v)' \cap Stamped(u)' = {}
    <3> SUFFICES ASSUME NEW v \in Workers, NEW u \in Workers, v # u, NEW id,
                        id \in Stamped(v)', id \in Stamped(u)'
                 PROVE  FALSE
      OBVIOUS
    <3>1. Stamped(v) \cap Stamped(u) = {}
      BY DEF CountInv, StampsApart
    <3> QED
      BY <1>3, <1>4, <1>5, <2>2, <3>1
  <2>4. \A v \in Workers : Stamped(v)' \cap StampedBefore' = {}
    <3> SUFFICES ASSUME NEW v \in Workers, NEW id, id \in Stamped(v)', id \in StampedBefore'
                 PROVE  FALSE
      OBVIOUS
    <3>1. Stamped(v) \cap StampedBefore = {}
      BY DEF CountInv, StampsApart
    <3> QED
      BY <1>4, <1>5, <2>1, <2>2, <3>1
  <2>5. \A v \in Workers : Stamped(v)' \subseteq 1 .. clock'
    BY <1>3, <1>4, <1>5, <2>2
  <2>6. UNION {Stamped(v)' : v \in Workers} \subseteq 1 .. clock'
    BY <2>5
  <2> QED
    BY <2>1, <2>2, <2>3, <2>4, <2>6 DEF StampsApart
<1>10. CountsExact'
  BY <1>1 DEF CountInv, CountsExact
<1> QED
  BY <1>5, <1>8, <1>9, <1>10 DEF CountInv

LEMMA FailCounts ==
  ASSUME TypeOK, CountInv, NEW w \in Workers,
         pc[w] \in {"call", "select", "insert"}, NEW failedCall \in BOOLEAN,
         FailAttempt(w, failedCall)
  PROVE  CountInv'
<1>1. /\ job[w] \in Job /\ pc[w] # "cycle"
      /\ UNCHANGED <<rawPunches, pullSessions, clock>>
      /\ txRows' = [txRows EXCEPT ![w] = txRows[w] \ job[w].fresh]
  BY DEF FailAttempt, SavepointRows, committed, TypeOK
<1>2. /\ txRows'[w] = txRows[w] \ job[w].fresh
      /\ \A v \in Workers \ {w} : txRows'[v] = txRows[v]
  BY <1>1 DEF TypeOK
<1>3. Counting(w)
  BY DEF CountInv
<1>4. /\ RowsOf(txRows'[w], job[w].session) = RowsOf(txRows[w], job[w].session) \ job[w].fresh
      /\ \A s \in txSessions[w] : RowsOf(txRows'[w], s.id) = RowsOf(txRows[w], s.id)
      /\ IsFiniteSet(txRows'[w])
  BY <1>1, <1>2, <1>3, SavepointCounts
<1>5. job[w].total = Cardinality(RowsOf(txRows'[w], job[w].session))
  BY <1>1, <1>3, <1>4 DEF Counting
<1>6. CASE job[w].mode = "range" /\ ~failedCall
  <2>1. CloseSession(w, "running", job[w].cursor, 0)
    BY <1>6 DEF FailAttempt, AttemptsLeft
  <2> QED
    BY <1>1, <1>2, <2>1, CloseCounts
<1>7. CASE ~(job[w].mode = "range" /\ ~failedCall) /\ job[w].attempt < MaxAttempts
  <2> DEFINE j == [job[w] EXCEPT !.attempt = job[w].attempt + 1, !.left = {},
                                 !.punch = 0, !.next = NoCursor, !.fresh = {}]
  <2>1. /\ job'[w] = j /\ pc'[w] = "call" /\ txSessions' = txSessions
        /\ \A v \in Workers \ {w} : pc'[v] = pc[v] /\ job'[v] = job[v]
    BY <1>7 DEF FailAttempt, AttemptsLeft, TypeOK
  <2>2. /\ j.fresh = {} /\ j.session = job[w].session /\ j.total = job[w].total
        /\ j.mode = job[w].mode
    BY <1>1 DEF Job
  <2> HIDE DEF j
  <2>3. Counting(w)'
    <3>1. \A s \in txSessions'[w] :
            s.status # "running" => s.ingested = Cardinality(RowsOf(txRows'[w], s.id))
      BY <1>3, <1>4, <2>1 DEF Counting
    <3>2. RowsOf(txRows'[w], job[w].session) \ {} = RowsOf(txRows'[w], job[w].session)
      OBVIOUS
    <3>3. \A s \in txSessions'[w] : s.id # job'[w].session
      BY <1>1, <1>3, <2>1, <2>2 DEF Counting
    <3>4. job'[w].mode = "cursor" => job'[w].total = 0
      BY <1>1, <1>3, <2>1, <2>2 DEF Counting
    <3> QED
      BY <1>4, <1>5, <2>1, <2>2, <3>1, <3>2, <3>3, <3>4 DEF Counting
  <2>4. Stamped(w)' \subseteq Stamped(w)
    BY <1>1, <1>2, <2>1, <2>2 DEF Stamped
  <2> QED
    BY <1>1, <1>2, <2>1, <2>3, <2>4, CountLocal
<1>8. CASE ~(job[w].mode = "range" /\ ~failedCall) /\ ~(job[w].attempt < MaxAttempts)
  <2>1. PICK cursor : CloseSession(w, "failed", cursor, job[w].total)
    BY <1>8 DEF FailAttempt, AttemptsLeft
  <2> QED
    BY <1>1, <1>2, <1>5, <2>1, CloseCounts
<1> QED
  BY <1>6, <1>7, <1>8

\* What a pull has inserted is what it counted before and since the savepoint.
LEMMA PullSum ==
  ASSUME TypeOK, NEW w \in Workers, Counting(w), pc[w] # "cycle"
  PROVE  job[w].total + Cardinality(job[w].fresh)
           = Cardinality(RowsOf(txRows[w], job[w].session))
<1> DEFINE mine == RowsOf(txRows[w], job[w].session)
<1>1. /\ job[w].fresh \subseteq mine /\ IsFiniteSet(txRows[w])
      /\ job[w].total = Cardinality(mine \ job[w].fresh)
  BY DEF Counting
<1>2. mine \subseteq txRows[w]
  BY DEF RowsOf
<1> HIDE DEF mine
<1>3. IsFiniteSet(mine)
  BY <1>1, <1>2, FS_Subset
<1>4. Cardinality(mine \ job[w].fresh) = Cardinality(mine) - Cardinality(mine \cap job[w].fresh)
  BY <1>3, FS_Difference
<1>5. mine \cap job[w].fresh = job[w].fresh
  BY <1>1
<1>6. IsFiniteSet(job[w].fresh)
  BY <1>1, <1>3, FS_Subset
<1>7. Cardinality(mine) \in Nat /\ Cardinality(job[w].fresh) \in Nat
  BY <1>3, <1>6, FS_CardinalityType
<1>8. \A a, b, c \in Int : a = b - c => a + c = b
  OBVIOUS
<1>9. job[w].total = Cardinality(mine) - Cardinality(job[w].fresh)
  BY <1>1, <1>4, <1>5
<1>10. job[w].total \in Int
  BY <1>7, <1>9
<1>11. job[w].total + Cardinality(job[w].fresh) = Cardinality(mine)
  BY <1>7, <1>8, <1>9, <1>10
<1> QED
  BY <1>11 DEF mine

LEMMA InsertCounts ==
  ASSUME TypeOK, EvidenceInv, CountInv, NEW w \in Workers, InsertPunch(w)
  PROVE  CountInv'
<1> DEFINE row == [device |-> job[w].device, pos |-> job[w].punch,
                   session |-> job[w].session]
           j == [job[w] EXCEPT !.left = job[w].left \ {job[w].punch}, !.punch = 0,
                               !.fresh = job[w].fresh \cup {row}]
<1>1. /\ pc[w] = "insert" /\ pc'[w] = "select" /\ job[w] \in Job /\ job'[w] = j
      /\ UNCHANGED <<rawPunches, pullSessions, clock, txSessions>>
      /\ txRows'[w] = txRows[w] \cup {row}
      /\ \A v \in Workers \ {w} :
           pc'[v] = pc[v] /\ job'[v] = job[v] /\ txRows'[v] = txRows[v]
  BY DEF InsertPunch, TypeOK, committed
<1>2. /\ j.session = job[w].session /\ j.fresh = job[w].fresh \cup {row}
      /\ j.total = job[w].total /\ j.mode = job[w].mode
  BY <1>1 DEF Job
<1>3. /\ row.session = job[w].session /\ row.device = job[w].device
      /\ row.pos = job[w].punch
  OBVIOUS
<1> HIDE DEF row, j
<1>4. row \notin txRows[w]
  BY <1>1, <1>3 DEF EvidenceInv, PageInv, HasPunch
<1>5. Counting(w)
  BY DEF CountInv
<1>6. IsFiniteSet(txRows'[w])
  BY <1>1, <1>5, FS_AddElement DEF Counting
<1>7. /\ RowsOf(txRows'[w], job[w].session)
           = RowsOf(txRows[w], job[w].session) \cup {row}
      /\ \A s \in txSessions[w] : RowsOf(txRows'[w], s.id) = RowsOf(txRows[w], s.id)
  BY <1>1, <1>3, <1>5 DEF Counting, RowsOf
<1>8. RowsOf(txRows'[w], job[w].session) \ j.fresh
        = RowsOf(txRows[w], job[w].session) \ job[w].fresh
  BY <1>2, <1>4, <1>7 DEF RowsOf
<1>9. j.fresh \subseteq RowsOf(txRows'[w], job[w].session)
  BY <1>1, <1>2, <1>5, <1>7 DEF Counting
<1>10. ASSUME NEW s \in txSessions'[w], s.status # "running"
       PROVE  s.ingested = Cardinality(RowsOf(txRows'[w], s.id))
  BY <1>1, <1>5, <1>7, <1>10 DEF Counting
<1>11. /\ \A s \in txSessions'[w] : s.id # j.session
       /\ j.total = Cardinality(RowsOf(txRows'[w], j.session) \ j.fresh)
       /\ j.mode = "cursor" => j.total = 0
  BY <1>1, <1>2, <1>5, <1>8 DEF Counting
<1>12. Counting(w)'
  BY <1>1, <1>2, <1>6, <1>9, <1>10, <1>11 DEF Counting
<1>13. Stamped(w)' \subseteq Stamped(w)
  BY <1>1, <1>2, <1>3 DEF Stamped
<1> QED
  BY <1>1, <1>12, <1>13, CountLocal

LEMMA FinishBatchCounts ==
  ASSUME TypeOK, CountInv, NEW w \in Workers, FinishBatch(w)
  PROVE  CountInv'
<1> DEFINE t == job[w].total + Cardinality(job[w].fresh)
<1>1. /\ pc[w] = "select" /\ pc[w] # "cycle" /\ job[w] \in Job /\ job[w].mode = "range"
      /\ UNCHANGED <<rawPunches, pullSessions, clock, txRows>>
      /\ Counting(w)
  BY DEF FinishBatch, TypeOK, committed, CountInv
<1>2. t = Cardinality(RowsOf(txRows[w], job[w].session))
  BY <1>1, PullSum
<1>3. CASE job[w].next = NoCursor
  <2>1. /\ pc'[w] = "finish" /\ UNCHANGED <<job, txSessions>>
        /\ \A v \in Workers \ {w} : pc'[v] = pc[v]
    BY <1>3 DEF FinishBatch, TypeOK
  <2> QED
    BY <1>1, <2>1, KeepCounts
<1>4. CASE /\ job[w].next # NoCursor
           /\ job[w].next \in job[w].seen \/ job[w].batch = MaxBatches
  <2>1. CloseSession(w, "failed", job[w].next, t)
    BY <1>4 DEF FinishBatch
  <2> HIDE DEF t
  <2> QED
    BY <1>1, <1>2, <2>1, CloseCounts
<1>5. CASE /\ job[w].next # NoCursor
           /\ ~(job[w].next \in job[w].seen \/ job[w].batch = MaxBatches)
  <2> DEFINE j == [job[w] EXCEPT !.cursor = job[w].next, !.attempt = 1,
                                 !.next = NoCursor, !.fresh = {}, !.total = t,
                                 !.batch = job[w].batch + 1,
                                 !.seen = job[w].seen \cup {job[w].next}]
  <2>1. /\ job'[w] = j /\ pc'[w] = "call" /\ UNCHANGED txSessions
        /\ \A v \in Workers \ {w} : pc'[v] = pc[v] /\ job'[v] = job[v]
    BY <1>5 DEF FinishBatch, TypeOK
  <2>2. /\ j.fresh = {} /\ j.mode = "range" /\ j.total = t
        /\ j.session = job[w].session
    BY <1>1 DEF Job
  <2> HIDE DEF j, t
  <2>3. RowsOf(txRows[w], job[w].session) \ {} = RowsOf(txRows[w], job[w].session)
    OBVIOUS
  <2>4. ASSUME NEW s \in txSessions[w]
        PROVE  /\ s.id # job[w].session
               /\ s.status # "running" => s.ingested = Cardinality(RowsOf(txRows[w], s.id))
    BY <1>1 DEF Counting
  <2>5. Counting(w)'
    <3>1. IsFiniteSet(txRows[w])
      BY <1>1 DEF Counting
    <3> QED
      BY <1>1, <1>2, <2>1, <2>2, <2>3, <2>4, <3>1 DEF Counting
  <2>6. Stamped(w)' \subseteq Stamped(w)
    BY <1>1, <2>1, <2>2 DEF Stamped
  <2> QED
    BY <1>1, <2>1, <2>5, <2>6, CountLocal
<1> QED
  BY <1>3, <1>4, <1>5

LEMMA FinishPullCounts ==
  ASSUME TypeOK, CountInv, NEW w \in Workers, FinishPull(w)
  PROVE  CountInv'
<1> DEFINE t == job[w].total + Cardinality(job[w].fresh)
<1>1. /\ pc[w] # "cycle" /\ UNCHANGED <<rawPunches, pullSessions, clock, txRows>>
      /\ CloseSession(w, "succeeded", job[w].next, t)
      /\ Counting(w)
  BY DEF FinishPull, committed, CountInv
<1>2. t = Cardinality(RowsOf(txRows[w], job[w].session))
  BY <1>1, PullSum
<1> HIDE DEF t
<1> QED
  BY <1>1, <1>2, CloseCounts

LEMMA SkipCounts ==
  ASSUME TypeOK, CountInv, NEW w \in Workers, SkipLocked(w)
  PROVE  CountInv'
<1>1. /\ pc[w] = "lock" /\ pc[w] # "cycle"
      /\ UNCHANGED <<rawPunches, pullSessions, clock, txRows>>
      /\ CloseSession(w, "skipped", NoCursor, 0)
      /\ Counting(w)
  BY DEF SkipLocked, committed, CountInv
<1>2. 0 = Cardinality(RowsOf(txRows[w], job[w].session))
  BY <1>1, FS_EmptySet DEF Counting
<1> QED
  BY <1>1, <1>2, CloseCounts

\* What the transaction counted becomes what the committed tables say.
LEMMA CommitCounts ==
  ASSUME TypeOK, CountInv, NEW w \in Workers, CommitCycle(w)
  PROVE  CountInv'
<1>1. /\ pc[w] = "cycle" /\ UNCHANGED <<clock, pc, job>>
      /\ rawPunches' = rawPunches \cup txRows[w]
      /\ pullSessions' = pullSessions \cup txSessions[w]
      /\ txRows'[w] = {} /\ txSessions'[w] = {}
      /\ \A v \in Workers \ {w} : txRows'[v] = txRows[v] /\ txSessions'[v] = txSessions[v]
      /\ Counting(w)
  BY DEF CommitCycle, TypeOK, CountInv
<1>2. Stamped(w) \cap StampedBefore = {}
  BY DEF CountInv, StampsApart
<1>3. CountsExact'
  <2> SUFFICES ASSUME NEW s \in pullSessions', s.status # "running"
               PROVE  s.ingested = Cardinality(RowsOf(rawPunches', s.id))
    BY DEF CountsExact, RowsOf
  <2>1. CASE s \in pullSessions
    <3>1. RowsOf(txRows[w], s.id) = {}
      BY <1>2, <2>1 DEF RowsOf, Stamped, StampedBefore
    <3>2. RowsOf(rawPunches', s.id) = RowsOf(rawPunches, s.id)
      BY <1>1, <3>1 DEF RowsOf
    <3> QED
      BY <2>1, <3>2 DEF CountInv, CountsExact, RowsOf
  <2>2. CASE s \in txSessions[w]
    <3>1. RowsOf(rawPunches, s.id) = {}
      BY <1>2, <2>2 DEF RowsOf, Stamped, StampedBefore
    <3>2. RowsOf(rawPunches', s.id) = RowsOf(txRows[w], s.id)
      BY <1>1, <3>1 DEF RowsOf
    <3> QED
      BY <1>1, <2>2, <3>2 DEF Counting
  <2> QED
    BY <1>1, <2>1, <2>2
<1>4. \A v \in Workers \ {w} : Counting(v)' /\ Stamped(v)' = Stamped(v)
  BY <1>1, OthersCount DEF CountInv
<1>5. Counting(w)' /\ Stamped(w)' = {}
  BY <1>1, FS_EmptySet DEF Counting, Stamped
<1>6. StampedBefore' \subseteq StampedBefore \cup Stamped(w)
  BY <1>1 DEF StampedBefore, Stamped
<1>7. StampsApart'
  <2>1. \A v, u \in Workers : v # u => Stamped(v)' \cap Stamped(u)' = {}
    BY <1>4, <1>5 DEF CountInv, StampsApart
  <2>2. \A v \in Workers : Stamped(v)' \cap StampedBefore' = {}
    BY <1>4, <1>5, <1>6 DEF CountInv, StampsApart
  <2>3. StampedBefore' \cup UNION {Stamped(v)' : v \in Workers} \subseteq 1 .. clock'
    <3>1. StampedBefore' \subseteq 1 .. clock
      BY <1>6 DEF CountInv, StampsApart
    <3>2. \A v \in Workers : Stamped(v)' \subseteq 1 .. clock
      BY <1>4, <1>5 DEF CountInv, StampsApart
    <3> QED
      BY <1>1, <3>1, <3>2
  <2> QED
    BY <2>1, <2>2, <2>3 DEF StampsApart
<1> QED
  BY <1>3, <1>4, <1>5, <1>7 DEF CountInv

LEMMA RollBackCounts ==
  ASSUME TypeOK, CountInv, NEW w \in Workers, RollBack(w)
  PROVE  CountInv'
<1>1. /\ UNCHANGED <<rawPunches, pullSessions, clock>>
      /\ pc'[w] = "cycle" /\ txRows'[w] = {} /\ txSessions'[w] = {}
      /\ \A v \in Workers \ {w} : /\ pc'[v] = pc[v] /\ job'[v] = job[v]
                                 /\ txRows'[v] = txRows[v]
                                 /\ txSessions'[v] = txSessions[v]
  BY DEF RollBack, TypeOK, committed
<1>2. Counting(w)' /\ Stamped(w)' = {}
  BY <1>1, FS_EmptySet DEF Counting, Stamped
<1> QED
  BY <1>1, <1>2, CountLocal

\* Reading and selecting change neither the rows nor the count.
LEMMA ReadCounts ==
  ASSUME TypeOK, CountInv, NEW w \in Workers,
         \/ TryLock(w) \/ FinishPage(w)
         \/ \E n \in Cursors, next \in Cursors : ReadPage(w, n, next)
         \/ \E p \in Positions : SelectPunch(w, p)
  PROVE  CountInv'
<1>1. /\ pc[w] \in {"lock", "call", "select"} /\ pc[w] # "cycle" /\ job[w] \in Job
      /\ pc'[w] \in {"call", "select", "insert", "finish"}
      /\ pc'[w] = "call" => pc[w] = "lock"
      /\ UNCHANGED <<rawPunches, pullSessions, clock, txRows, txSessions>>
      /\ \A v \in Workers \ {w} : pc'[v] = pc[v] /\ job'[v] = job[v]
  BY DEF TryLock, FinishPage, ReadPage, SelectPunch, TypeOK, committed
<1>2. /\ job'[w].session = job[w].session /\ job'[w].fresh = job[w].fresh
      /\ job'[w].total = job[w].total /\ job'[w].mode = job[w].mode
  <2>1. CASE TryLock(w) \/ FinishPage(w)
    BY <2>1 DEF TryLock, FinishPage
  <2>2. ASSUME NEW n \in Cursors, NEW next \in Cursors, ReadPage(w, n, next)
        PROVE  job'[w] = [job[w] EXCEPT !.left = (job[w].cursor + 1) .. n, !.next = next]
    BY <2>2 DEF ReadPage, TypeOK
  <2>3. ASSUME NEW p \in Positions, SelectPunch(w, p)
        PROVE  \/ job'[w] = [job[w] EXCEPT !.left = job[w].left \ {p}]
               \/ job'[w] = [job[w] EXCEPT !.punch = p]
    BY <2>3 DEF SelectPunch, TypeOK
  <2>4. CASE \E n \in Cursors, next \in Cursors : ReadPage(w, n, next)
    BY <1>1, <2>2, <2>4 DEF Job
  <2>5. CASE \E p \in Positions : SelectPunch(w, p)
    BY <1>1, <2>3, <2>5 DEF Job
  <2> QED
    BY <2>1, <2>4, <2>5
<1>3. pc'[w] = "call" => job[w].fresh = {}
  BY <1>1 DEF CountInv, Counting
<1> QED
  BY <1>1, <1>2, <1>3, KeepCounts

LEMMA StepCount ==
  TypeOK /\ EvidenceInv /\ CountInv /\ [Next]_vars => CountInv'
<1> SUFFICES ASSUME TypeOK, EvidenceInv, CountInv, [Next]_vars PROVE CountInv'
  OBVIOUS
<1>1. ASSUME UNCHANGED <<rawPunches, pullSessions, clock, pc, job, txRows, txSessions>>
      PROVE  CountInv'
  <2>1. /\ CountsExact' /\ StampedBefore' = StampedBefore
        /\ \A v \in Workers : Counting(v)' /\ Stamped(v)' = Stamped(v)
    BY <1>1, OthersCount DEF CountInv, CountsExact, StampedBefore
  <2> QED
    BY <1>1, <2>1 DEF CountInv, StampsApart
<1>2. CASE UNCHANGED vars
  BY <1>1, <1>2 DEF vars
<1>3. ASSUME NEW d \in Devices, RecordPunch(d) PROVE CountInv'
  BY <1>1, <1>3 DEF RecordPunch, committed
<1>4. ASSUME NEW w \in Workers, Step(w) PROVE CountInv'
  <2>1. CASE \E d \in Devices, mode \in Modes : BeginPull(w, d, mode)
    BY <2>1, BeginCounts
  <2>2. CASE \/ TryLock(w) \/ FinishPage(w)
             \/ \E n \in Cursors, next \in Cursors : ReadPage(w, n, next)
             \/ \E p \in Positions : SelectPunch(w, p)
    BY <2>2, ReadCounts
  <2>3. CASE SkipLocked(w)
    BY <2>3, SkipCounts
  <2>4. CASE CallFails(w) \/ InsertConflicts(w) \/ InsertDeadlocks(w) \/ IngestFails(w)
    BY <2>4, FailCounts DEF CallFails, InsertConflicts, InsertDeadlocks, IngestFails
  <2>5. CASE InsertPunch(w)
    BY <2>5, InsertCounts
  <2>6. CASE FinishBatch(w)
    BY <2>6, FinishBatchCounts
  <2>7. CASE FinishPull(w)
    BY <2>7, FinishPullCounts
  <2>8. CASE FinishDeadlocks(w)
    BY <2>8, RollBackCounts DEF FinishDeadlocks
  <2>9. CASE CommitCycle(w)
    BY <2>9, CommitCounts
  <2> QED
    BY <1>4, <2>1, <2>2, <2>3, <2>4, <2>5, <2>6, <2>7, <2>8, <2>9 DEF Step
<1>5. ASSUME NEW w \in Workers, AbortCycle(w) PROVE CountInv'
  BY <1>5, RollBackCounts DEF AbortCycle
<1>6. ASSUME NEW w \in Workers, Crash(w) PROVE CountInv'
  BY <1>6, RollBackCounts DEF Crash
<1>7. CASE BoundReached
  BY <1>2, <1>7 DEF BoundReached
<1> QED
  BY <1>2, <1>3, <1>4, <1>5, <1>6, <1>7 DEF Next

\* The count invariant holds of every behaviour.
THEOREM CountInvariant == Spec => []CountInv
BY InitCount, StepCount, TypeCorrect, EvidenceInvariant, PTL DEF Spec

\* The count of every committed pull that ended is the number of the raw
\* punches that point to it, whatever was retried, lost or rolled back.
THEOREM CountsAreExact == Spec => []CountsExact
<1>1. CountInv => CountsExact
  BY DEF CountInv
<1> QED
  BY <1>1, CountInvariant, PTL

-----------------------------------------------------------------------------
(***************************************************************************)
(* DevicePull implements EvidenceLedger.                                   *)
(***************************************************************************)

ledgerOf == [d \in Devices |-> {p \in Positions : HasPunch(rawPunches, d, p)}]
resumeOf == [d \in Devices |-> LatestCursor(pullSessions, d)]

LEMMA InitRefines == Init => Ledger!Init
<1> SUFFICES ASSUME Init PROVE Ledger!Init
  OBVIOUS
<1>1. \A d \in Devices : LatestCursor(pullSessions, d) = 0
  BY DEF Init, LatestCursor, LatestSucceeded, Succeeded, NoCursor
<1>2. \A d \in Devices, p \in Positions : ~HasPunch(rawPunches, d, p)
  BY DEF Init, HasPunch
<1> QED
  BY <1>1, <1>2 DEF Init, Ledger!Init

\* A step that only adds evidence and leaves the devices alone is an Accept.
LEMMA AcceptStep ==
  ASSUME TypeOK, TypeOK', EvidenceInv', rawPunches \subseteq rawPunches',
         recorded' = recorded
  PROVE  Ledger!Accept
<1>1. ledgerOf' \in [Devices -> SUBSET (1 .. MaxPunch)]
  BY DEF ledgerOf, Positions
<1>2. resumeOf' \in [Devices -> 0 .. MaxPunch]
  <2>1. \A d \in Devices : LatestCursor(pullSessions', d) \in Cursors
    BY LatestCursorType DEF TypeOK
  <2> QED
    BY <2>1 DEF resumeOf, Cursors
<1>3. ASSUME NEW d \in Devices
      PROVE  /\ ledgerOf[d] \subseteq ledgerOf'[d]
             /\ ledgerOf'[d] \subseteq 1 .. recorded[d]
             /\ 1 .. resumeOf'[d] \subseteq ledgerOf'[d]
  <2>1. ledgerOf[d] \subseteq ledgerOf'[d]
    BY DEF ledgerOf, HasPunch
  <2>2. ASSUME NEW p \in ledgerOf'[d] PROVE p \in 1 .. recorded[d]
    <3>1. PICK r \in rawPunches' : r.device = d /\ r.pos = p
      BY DEF ledgerOf, HasPunch
    <3>2. p <= recorded[d] /\ p \in Positions
      BY <3>1 DEF EvidenceInv, ledgerOf
    <3>3. recorded[d] \in Nat
      BY DEF TypeOK, Cursors
    <3> QED
      BY <3>2, <3>3, BoundsAssumption DEF Positions
  <2>3. ASSUME NEW p \in 1 .. resumeOf'[d] PROVE p \in ledgerOf'[d]
    <3>1. Covered(rawPunches', d, resumeOf'[d])
      <4>1. \A s \in pullSessions' :
              s.status = "succeeded" => Covered(rawPunches', s.device, s.cursor)
        BY DEF EvidenceInv, NoEvidenceSkipped
      <4>2. pullSessions' \in SUBSET PullSession
        BY DEF TypeOK
      <4> QED
        BY <4>1, <4>2, LatestCursorCovered DEF resumeOf
    <3>2. p \in Positions
      BY <1>2, BoundsAssumption DEF Positions
    <3> QED
      BY <3>1, <3>2 DEF Covered, ledgerOf
  <2> QED
    BY <2>1, <2>2, <2>3
<1> QED
  BY <1>1, <1>2, <1>3 DEF Ledger!Accept, ledgerOf, resumeOf

LEMMA StepRefines ==
  TypeOK /\ TypeOK' /\ EvidenceInv' /\ [Next]_vars => [Ledger!Next]_(Ledger!ledgerVars)
<1> SUFFICES ASSUME TypeOK, TypeOK', EvidenceInv', [Next]_vars
             PROVE  [Ledger!Next]_(Ledger!ledgerVars)
  OBVIOUS
<1>1. ASSUME UNCHANGED <<recorded, committed>> PROVE [Ledger!Next]_(Ledger!ledgerVars)
  BY <1>1 DEF Ledger!ledgerVars, committed
<1>2. ASSUME NEW d \in Devices, RecordPunch(d) PROVE Ledger!Next
  <2>1. Ledger!Record(d)
    BY <1>2 DEF RecordPunch, Ledger!Record, committed
  <2> QED
    BY <2>1 DEF Ledger!Next
<1>3. ASSUME NEW w \in Workers, Step(w) PROVE [Ledger!Next]_(Ledger!ledgerVars)
  <2>1. rawPunches \subseteq rawPunches' /\ recorded' = recorded
    BY <1>3 DEF Step, BeginPull, TryLock, SkipLocked, ReadPage, CallFails, SelectPunch,
                InsertPunch, InsertConflicts, InsertDeadlocks, IngestFails, FinishPage,
                FinishBatch, FinishPull, FinishDeadlocks, CommitCycle, FailAttempt,
                RollBack, committed
  <2> QED
    BY <2>1, AcceptStep DEF Ledger!Next
<1>4. CASE \E w \in Workers : AbortCycle(w) \/ Crash(w)
  BY <1>1, <1>4 DEF AbortCycle, Crash, RollBack
<1>5. CASE BoundReached \/ UNCHANGED vars
  BY <1>1, <1>5 DEF BoundReached, vars, committed
<1> QED
  BY <1>2, <1>3, <1>4, <1>5 DEF Next

\* Whatever workers do to one another, the rest of the system sees an evidence
\* ledger: accepted punches stay, none is invented, and no resume point passes
\* a punch that was not accepted.
THEOREM Implements == Spec => ImplementsLedger
BY InitRefines, StepRefines, TypeCorrect, EvidenceInvariant, PTL
   DEF Spec, ImplementsLedger, Ledger!Spec

=============================================================================

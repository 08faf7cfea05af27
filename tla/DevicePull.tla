----------------------------- MODULE DevicePull -----------------------------
(***************************************************************************)
(* Pulls of attendance devices by concurrent worker processes.             *)
(*                                                                         *)
(* A worker runs cycles.  A cycle is ONE PostgreSQL transaction (READ      *)
(* COMMITTED) in which it pulls any number of devices before it commits.   *)
(* A pull reads the resume cursor, inserts its device_pull_sessions row,   *)
(* tries the session-level advisory lock of the device, asks the gateway   *)
(* for a page and ingests the page inside a savepoint; on an error the     *)
(* savepoint is rolled back and the attempt repeated.  The advisory lock   *)
(* is released when the pull returns, which is BEFORE the cycle commits;   *)
(* rows it inserted and the device row it updated (last_seen_at) stay      *)
(* locked for everybody else until the commit.                             *)
(* A range pull (historical operation) pages through a window instead and  *)
(* has no retry around persistence.                                        *)
(*                                                                         *)
(* A punch of a device is named by its position in the order the device    *)
(* recorded it; a cursor is the position of the last punch of a page, and  *)
(* NoCursor stands for the SQL NULL.  A session is named by its started_at *)
(* stamp.  User inventory rows (sync_device_users) are abstracted to       *)
(* whether writing them fails.                                             *)
(***************************************************************************)
EXTENDS Naturals, FiniteSets

CONSTANTS
  Workers,       \* worker processes
  Devices,       \* active devices with a registered adapter
  Modes,         \* kinds of pull that occur: a subset of {"cursor", "range"}
  MaxPunch,      \* bound: punches one device ever records
  MaxSessions,   \* bound: pulls ever started
  MaxAttempts,   \* settings.device_pull_max_attempts
  MaxBatches,    \* MAX_HISTORICAL_BATCHES
  PageSize,      \* the most punches the gateway puts on one page
  Nobody,        \* holder of a free advisory lock
  NoJob          \* job of a worker that is not pulling

NoCursor == 0

ASSUME ModesAssumption == Modes \subseteq {"cursor", "range"}
ASSUME BoundsAssumption ==
  /\ MaxPunch \in Nat
  /\ MaxSessions \in Nat
  /\ MaxAttempts \in Nat \ {0}
  /\ MaxBatches \in Nat \ {0}
  /\ PageSize \in Nat \ {0}
ASSUME NobodyAssumption == Nobody \notin Workers

Positions == 1 .. MaxPunch
Cursors == 0 .. MaxPunch
Stamps == 1 .. MaxSessions
Statuses == {"running", "succeeded", "failed", "skipped"}

\* A row of raw_punches: UNIQUE (device, source fingerprint).
PunchRow == [device : Devices, pos : Positions, session : Stamps]

\* A row of device_pull_sessions; cursor is cursor_after.
PullSession ==
  [id : Stamps, device : Devices, mode : Modes, status : Statuses,
   cursor : Cursors, ingested : Nat]

\* The local variables of pull_device and _pull_historical.
Job ==
  [session : Stamps, device : Devices, mode : Modes,
   cursor : Cursors,             \* cursor of the page being asked for
   attempt : 1 .. MaxAttempts,
   left : SUBSET Positions,      \* punches of the page not yet ingested
   punch : Cursors,              \* the punch whose INSERT is being issued
   next : Cursors,               \* next_cursor of the page
   fresh : SUBSET PunchRow,      \* rows inserted since the savepoint
   total : Nat,                  \* total_inserted of a range pull
   batch : 1 .. MaxBatches,      \* page number of a range pull
   seen : SUBSET Cursors]        \* seen_cursors of a range pull

ASSUME NoJobAssumption == NoJob \notin Job

VARIABLES
  recorded,      \* external: punches each device has recorded
  rawPunches,    \* committed rows of raw_punches
  pullSessions,  \* committed rows of device_pull_sessions
  clock,         \* started_at stamps handed out
  lockHolder,    \* advisory lock of each device
  pc,            \* where each worker is in its cycle
  job,           \* local state of each worker's pull
  txRows,        \* raw_punches rows of each worker's open transaction
  txSessions,    \* device_pull_sessions rows of each worker's open transaction
  leaked         \* devices whose lock each worker's connection will not give back

\* The committed tables and the clock that stamps pull sessions.
committed == <<rawPunches, pullSessions, clock>>

vars == <<recorded, rawPunches, pullSessions, clock, lockHolder, pc, job,
          txRows, txSessions, leaked>>

Labels == {"cycle", "lock", "call", "select", "insert", "finish"}

\* w is inside "with device_pull_lock".  A range pull has left it when it
\* updates the device row, an ordinary pull has not.
Pulling(w) ==
  \/ pc[w] \in {"call", "select", "insert"}
  \/ pc[w] = "finish" /\ job[w].mode = "cursor"

TypeOK ==
  /\ recorded \in [Devices -> Cursors]
  /\ rawPunches \subseteq PunchRow
  /\ pullSessions \subseteq PullSession
  /\ clock \in 0 .. MaxSessions
  /\ lockHolder \in [Devices -> Workers \cup {Nobody}]
  /\ pc \in [Workers -> Labels]
  /\ job \in [Workers -> Job \cup {NoJob}]
  /\ \A w \in Workers :
       /\ pc[w] # "cycle" => job[w] \in Job /\ IsFiniteSet(job[w].fresh)
       /\ pc[w] = "insert" => job[w].punch \in Positions
  /\ txRows \in [Workers -> SUBSET PunchRow]
  /\ txSessions \in [Workers -> SUBSET PullSession]
  /\ leaked \in [Workers -> SUBSET Devices]

Init ==
  /\ recorded = [d \in Devices |-> 0]
  /\ rawPunches = {}
  /\ pullSessions = {}
  /\ clock = 0
  /\ lockHolder = [d \in Devices |-> Nobody]
  /\ pc = [w \in Workers |-> "cycle"]
  /\ job = [w \in Workers |-> NoJob]
  /\ txRows = [w \in Workers |-> {}]
  /\ txSessions = [w \in Workers |-> {}]
  /\ leaked = [w \in Workers |-> {}]

-----------------------------------------------------------------------------
(***************************************************************************)
(* Reading the database.                                                   *)
(***************************************************************************)

Succeeded(sessions, d) ==
  {s \in sessions : s.device = d /\ s.status = "succeeded"}

\* The succeeded sessions of d that no other succeeded one started after.
LatestSucceeded(sessions, d) ==
  {s \in Succeeded(sessions, d) : \A t \in Succeeded(sessions, d) : t.id <= s.id}

\* cursor_after of the succeeded session with the greatest started_at.
LatestCursor(sessions, d) ==
  IF LatestSucceeded(sessions, d) = {}
  THEN NoCursor
  ELSE (CHOOSE s \in LatestSucceeded(sessions, d) : TRUE).cursor

HasPunch(rows, d, p) == \E r \in rows : r.device = d /\ r.pos = p

\* Mutant: the connection runs at READ UNCOMMITTED.
RowsSeenDirty(w) == rawPunches \cup UNION {txRows[v] : v \in Workers}

\* What a statement of w's transaction sees of each table.
RowsSeen(w) == rawPunches \cup txRows[w]
SessionsSeen(w) == pullSessions \cup txSessions[w]

\* An INSERT waits for any other open transaction that inserted the same key,
\* the UPDATE of a device row for any that updated it.
WaitsFor(w, v) ==
  /\ v # w
  /\ \/ /\ pc[w] = "insert"
        /\ HasPunch(txRows[v], job[w].device, job[w].punch)
     \/ /\ pc[w] = "finish"
        /\ Succeeded(txSessions[v], job[w].device) # {}

\* w is on a cycle of transactions that wait for one another.
Deadlocked(w) ==
  \E S \in SUBSET Workers :
    /\ w \in S
    /\ \A v \in S : \E u \in S : WaitsFor(v, u)
    /\ \A v \in S : \E u \in S : WaitsFor(u, v)

-----------------------------------------------------------------------------
(***************************************************************************)
(* One pull.                                                               *)
(***************************************************************************)

\* External: somebody punches at device d.
RecordPunch(d) ==
  /\ recorded[d] < MaxPunch
  /\ recorded' = [recorded EXCEPT ![d] = recorded[d] + 1]
  /\ UNCHANGED <<committed, lockHolder, leaked, pc, job, txRows, txSessions>>

\* A pull reads its cursor and inserts its session row, before any lock.
BeginPull(w, d, mode) ==
  /\ pc[w] = "cycle"
  /\ clock < MaxSessions
  /\ clock' = clock + 1
  /\ job' = [job EXCEPT ![w] =
       [session |-> clock + 1, device |-> d, mode |-> mode,
        cursor |-> IF mode = "cursor" THEN LatestCursor(SessionsSeen(w), d)
                                      ELSE NoCursor,
        attempt |-> 1, left |-> {}, punch |-> 0, next |-> NoCursor,
        fresh |-> {}, total |-> 0, batch |-> 1, seen |-> {}]]
  /\ pc' = [pc EXCEPT ![w] = "lock"]
  /\ UNCHANGED <<recorded, rawPunches, pullSessions, lockHolder, leaked, txRows,
                 txSessions>>

\* The pull returns: its session row gets its last values.  Until the cycle
\* commits nobody else reads the row, so it is added only here.
CloseSession(w, status, cursor, ingested) ==
  /\ txSessions' = [txSessions EXCEPT ![w] = txSessions[w] \cup
       {[id |-> job[w].session, device |-> job[w].device,
         mode |-> job[w].mode, status |-> status, cursor |-> cursor,
         ingested |-> ingested]}]
  /\ pc' = [pc EXCEPT ![w] = "cycle"]
  /\ job' = [job EXCEPT ![w] = NoJob]

\* pg_advisory_unlock takes one hold back: the lock is free unless the
\* connection still has a hold that was never given back.
Unlock(w) ==
  IF job[w].device \in leaked[w]
  THEN UNCHANGED lockHolder
  ELSE lockHolder' = [lockHolder EXCEPT ![job[w].device] = Nobody]

\* Mutant: the result of pg_try_advisory_lock is ignored.
TryLockIgnored(w) ==
  /\ pc[w] = "lock"
  /\ lockHolder' = IF lockHolder[job[w].device] = Nobody
                   THEN [lockHolder EXCEPT ![job[w].device] = w]
                   ELSE lockHolder
  /\ pc' = [pc EXCEPT ![w] = "call"]
  /\ UNCHANGED <<recorded, committed, leaked, job, txRows, txSessions>>

\* pg_try_advisory_lock is granted again to the connection that has the lock.
TryLock(w) ==
  /\ pc[w] = "lock"
  /\ lockHolder[job[w].device] \in {Nobody, w}
  /\ lockHolder' = [lockHolder EXCEPT ![job[w].device] = w]
  /\ pc' = [pc EXCEPT ![w] = "call"]
  /\ UNCHANGED <<recorded, committed, leaked, job, txRows, txSessions>>

\* Mutant: pg_advisory_lock, which waits, in place of pg_try_advisory_lock.
SkipLockedWaits(w) == FALSE /\ UNCHANGED vars

\* pg_try_advisory_lock returned false: the pull is skipped, not queued.
SkipLocked(w) ==
  /\ pc[w] = "lock"
  /\ lockHolder[job[w].device] \notin {Nobody, w}
  /\ CloseSession(w, "skipped", NoCursor, 0)
  /\ UNCHANGED <<recorded, committed, lockHolder, leaked, txRows>>

\* Cursors a page that ends at position n may carry.  The gateway leaves the
\* cursor out when it has nothing further; while a range is paged it may also
\* hand out the cursor it was asked with once more.
NextCursors(w, n) ==
  {n} \cup (IF n = recorded[job[w].device] THEN {NoCursor} ELSE {})
      \cup (IF job[w].mode = "range" THEN {job[w].cursor} ELSE {})

\* adapter.pull_punches / pull_punches_range returned the page of at most
\* PageSize punches after the cursor; begin_nested opens the savepoint.
ReadPage(w, n, next) ==
  /\ pc[w] = "call"
  /\ n \in job[w].cursor .. recorded[job[w].device]
  /\ n <= job[w].cursor + PageSize
  /\ next \in NextCursors(w, n)
  /\ job' = [job EXCEPT ![w] =
       [job[w] EXCEPT !.left = (job[w].cursor + 1) .. n, !.next = next]]
  /\ pc' = [pc EXCEPT ![w] = "select"]
  /\ UNCHANGED <<recorded, committed, lockHolder, leaked, txRows, txSessions>>

\* Mutant: an attempt is not atomic, its rows stay when it fails.
SavepointRowsKept(w) == txRows[w]

\* What is left of the transaction when the savepoint of an attempt is undone.
SavepointRows(w) == txRows[w] \ job[w].fresh

AttemptsLeft(w) == job[w].attempt < MaxAttempts

\* The attempt raised: the savepoint is undone and the pull tries again, or
\* fails after the last attempt.  Nothing is caught around the persistence of
\* a range pull: its session row keeps the values it was inserted with.
FailAttempt(w, failedCall) ==
  /\ txRows' = [txRows EXCEPT ![w] = SavepointRows(w)]
  /\ IF job[w].mode = "range" /\ ~failedCall
     THEN CloseSession(w, "running", job[w].cursor, 0) /\ Unlock(w)
     ELSE IF AttemptsLeft(w)
     THEN /\ job' = [job EXCEPT ![w] =
               [job[w] EXCEPT !.attempt = job[w].attempt + 1, !.left = {},
                              !.punch = 0, !.next = NoCursor, !.fresh = {}]]
          /\ pc' = [pc EXCEPT ![w] = "call"]
          /\ UNCHANGED <<lockHolder, txSessions>>
     ELSE /\ CloseSession(w, "failed",
                          IF job[w].mode = "range" THEN job[w].cursor ELSE NoCursor,
                          job[w].total)
          /\ Unlock(w)
  /\ UNCHANGED <<recorded, committed, leaked>>

\* The gateway did not answer, or answered something the adapter rejects.
CallFails(w) ==
  /\ pc[w] = "call"
  /\ FailAttempt(w, TRUE)

\* SELECT id FROM raw_punches WHERE device_id = ... AND source_fingerprint = ...
SelectPunch(w, p) ==
  /\ pc[w] = "select"
  /\ p \in job[w].left
  /\ IF HasPunch(RowsSeen(w), job[w].device, p)
     THEN /\ job' = [job EXCEPT ![w] =
               [job[w] EXCEPT !.left = job[w].left \ {p}]]
          /\ UNCHANGED pc
     ELSE /\ job' = [job EXCEPT ![w] = [job[w] EXCEPT !.punch = p]]
          /\ pc' = [pc EXCEPT ![w] = "insert"]
  /\ UNCHANGED <<recorded, committed, lockHolder, leaked, txRows, txSessions>>

\* Mutant: raw_punches has no unique constraint.
KeyFreeUnchecked(w) == TRUE

\* No open transaction and no committed row has the key of the INSERT.
KeyFree(w) ==
  /\ \A v \in Workers : ~WaitsFor(w, v)
  /\ ~HasPunch(rawPunches, job[w].device, job[w].punch)

\* The INSERT goes through.
InsertPunch(w) ==
  LET row == [device |-> job[w].device, pos |-> job[w].punch,
              session |-> job[w].session]
  IN
  /\ pc[w] = "insert"
  /\ KeyFree(w)
  /\ txRows' = [txRows EXCEPT ![w] = txRows[w] \cup {row}]
  /\ job' = [job EXCEPT ![w] =
       [job[w] EXCEPT !.left = job[w].left \ {job[w].punch}, !.punch = 0,
                      !.fresh = job[w].fresh \cup {row}]]
  /\ pc' = [pc EXCEPT ![w] = "select"]
  /\ UNCHANGED <<recorded, committed, lockHolder, leaked, txSessions>>

\* The key was committed by another worker after the SELECT: IntegrityError.
InsertConflicts(w) ==
  /\ pc[w] = "insert"
  /\ HasPunch(rawPunches, job[w].device, job[w].punch)
  /\ FailAttempt(w, FALSE)

\* PostgreSQL cancels the INSERT of a transaction on a waits-for cycle.
InsertDeadlocks(w) ==
  /\ pc[w] = "insert"
  /\ Deadlocked(w)
  /\ FailAttempt(w, FALSE)

\* A punch fails validation, or the user inventory cannot be written.
IngestFails(w) ==
  /\ pc[w] = "select"
  /\ job[w].mode = "cursor" \/ job[w].left # {}
  /\ FailAttempt(w, FALSE)

\* Mutant: a known punch ends the page ("break" in place of "continue").
PageIngestedEarly(w) ==
  job[w].left = {} \/ \E p \in Positions :
    HasPunch(RowsSeen(w), job[w].device, p) /\ p \notin job[w].left

PageIngested(w) == job[w].left = {}

\* The page of an ordinary pull is ingested and its savepoint released.
FinishPage(w) ==
  /\ pc[w] = "select"
  /\ PageIngested(w)
  /\ job[w].mode = "cursor"
  /\ pc' = [pc EXCEPT ![w] = "finish"]
  /\ UNCHANGED <<recorded, committed, lockHolder, leaked, job, txRows, txSessions>>

\* A range pull is done when the page has no cursor, and gives up when a
\* cursor repeats or after MaxBatches pages; otherwise it asks for more.
FinishBatch(w) ==
  LET total == job[w].total + Cardinality(job[w].fresh)
  IN
  /\ pc[w] = "select"
  /\ PageIngested(w)
  /\ job[w].mode = "range"
  /\ IF job[w].next = NoCursor
     THEN /\ pc' = [pc EXCEPT ![w] = "finish"]
          /\ Unlock(w)
          /\ UNCHANGED <<job, txSessions>>
     ELSE IF job[w].next \in job[w].seen \/ job[w].batch = MaxBatches
     THEN CloseSession(w, "failed", job[w].next, total) /\ Unlock(w)
     ELSE /\ job' = [job EXCEPT ![w] =
               [job[w] EXCEPT !.cursor = job[w].next, !.attempt = 1,
                              !.next = NoCursor, !.fresh = {}, !.total = total,
                              !.batch = job[w].batch + 1,
                              !.seen = job[w].seen \cup {job[w].next}]]
          /\ pc' = [pc EXCEPT ![w] = "call"]
          /\ UNCHANGED <<lockHolder, txSessions>>
  /\ UNCHANGED <<recorded, committed, leaked, txRows>>

\* The flush of the succeeded session and of device.last_seen_at.  An
\* ordinary pull does it inside the lock, a range pull after it.
FinishPull(w) ==
  /\ pc[w] = "finish"
  /\ \A v \in Workers : ~WaitsFor(w, v)
  /\ CloseSession(w, "succeeded", job[w].next,
                  job[w].total + Cardinality(job[w].fresh))
  /\ IF job[w].mode = "cursor" THEN Unlock(w) ELSE UNCHANGED lockHolder
  /\ UNCHANGED <<recorded, committed, leaked, txRows>>

-----------------------------------------------------------------------------
(***************************************************************************)
(* The transaction of a cycle.                                             *)
(***************************************************************************)

CommitCycle(w) ==
  /\ pc[w] = "cycle"
  /\ txSessions[w] # {}
  /\ rawPunches' = rawPunches \cup txRows[w]
  /\ pullSessions' = pullSessions \cup txSessions[w]
  /\ txRows' = [txRows EXCEPT ![w] = {}]
  /\ txSessions' = [txSessions EXCEPT ![w] = {}]
  /\ UNCHANGED <<recorded, clock, lockHolder, leaked, pc, job>>

\* The transaction is rolled back and w starts over with its next cycle.
RollBack(w) ==
  /\ txRows' = [txRows EXCEPT ![w] = {}]
  /\ txSessions' = [txSessions EXCEPT ![w] = {}]
  /\ pc' = [pc EXCEPT ![w] = "cycle"]
  /\ job' = [job EXCEPT ![w] = NoJob]
  /\ UNCHANGED <<recorded, committed>>

\* PostgreSQL cancels the UPDATE of the device row.  No savepoint is open, so
\* the flush loses the whole transaction: every further statement raises until
\* the rollback at the end of the cycle, the advisory unlock of the finally
\* clause included, and the pooled connection keeps the lock.
FinishDeadlocks(w) ==
  /\ pc[w] = "finish"
  /\ Deadlocked(w)
  /\ RollBack(w)
  /\ leaked' = IF job[w].mode = "cursor"
               THEN [leaked EXCEPT ![w] = leaked[w] \cup {job[w].device}]
               ELSE leaked
  /\ UNCHANGED lockHolder

\* An exception outside the pulls reaches the rollback at the end of the cycle.
AbortCycle(w) ==
  /\ pc[w] = "cycle"
  /\ txSessions[w] # {}
  /\ RollBack(w)
  /\ UNCHANGED <<lockHolder, leaked>>

\* The process dies, or loses its connection: that frees its advisory locks.
Crash(w) ==
  /\ pc[w] # "cycle" \/ txSessions[w] # {} \/ leaked[w] # {}
  /\ RollBack(w)
  /\ lockHolder' = [d \in Devices |->
       IF lockHolder[d] = w THEN Nobody ELSE lockHolder[d]]
  /\ leaked' = [leaked EXCEPT ![w] = {}]

\* What a worker does on its own, crashes excepted.
Step(w) ==
  \/ \E d \in Devices, mode \in Modes : BeginPull(w, d, mode)
  \/ TryLock(w)
  \/ SkipLocked(w)
  \/ \E n \in Cursors, next \in Cursors : ReadPage(w, n, next)
  \/ CallFails(w)
  \/ \E p \in Positions : SelectPunch(w, p)
  \/ InsertPunch(w)
  \/ InsertConflicts(w)
  \/ InsertDeadlocks(w)
  \/ IngestFails(w)
  \/ FinishPage(w)
  \/ FinishBatch(w)
  \/ FinishPull(w)
  \/ FinishDeadlocks(w)
  \/ CommitCycle(w)

\* Every pull the bound allows has been made and committed: the model ends.
BoundReached ==
  /\ clock = MaxSessions
  /\ recorded = [d \in Devices |-> MaxPunch]
  /\ \A w \in Workers : pc[w] = "cycle" /\ txSessions[w] = {}
  /\ UNCHANGED vars

Next ==
  \/ \E d \in Devices : RecordPunch(d)
  \/ \E w \in Workers : Step(w)
  \/ \E w \in Workers : AbortCycle(w)
  \/ \E w \in Workers : Crash(w)
  \/ BoundReached

Spec == Init /\ [][Next]_vars

FairSpec == Spec /\ \A w \in Workers : WF_vars(Step(w))

-----------------------------------------------------------------------------
(***************************************************************************)
(* Safety.                                                                 *)
(***************************************************************************)

OpenRows == UNION {txRows[w] : w \in Workers}

\* At most one worker at a time is between taking and giving back the
\* advisory lock of a device (device_pull_lock), whatever crashes.
LockExclusive ==
  \A w \in Workers : Pulling(w) => lockHolder[job[w].device] = w

\* A punch is stored once, however many workers pull it, retry it or pull a
\* range that holds it again, and whether its rows are committed or not: the
\* SELECT of ingest_punches misses what others have not committed, so this
\* rests on the unique constraint alone.
OneRowPerPunch ==
  \A r, s \in rawPunches \cup OpenRows :
    r.device = s.device /\ r.pos = s.pos => r = s

\* rows holds every punch of d up to cursor c.
Covered(rows, d, c) == \A p \in 1 .. c : HasPunch(rows, d, p)

\* A committed succeeded session never vouches for a punch that is not
\* committed: the next pull starts after its cursor_after and would never
\* see the punch again.  It has to survive savepoint rollbacks, lost cycles
\* and punches counted as duplicates of a row another worker inserted.
NoEvidenceSkipped ==
  \A s \in pullSessions :
    s.status = "succeeded" => Covered(rawPunches, s.device, s.cursor)

\* ingested_count of a committed session that ended is the number of raw
\* punches that point to it: the counts operators reconcile are exact, also
\* when attempts were rolled back.
CountsExact ==
  \A s \in pullSessions :
    s.status # "running" =>
      s.ingested = Cardinality({r \in rawPunches : r.session = s.id})

-----------------------------------------------------------------------------
(***************************************************************************)
(* What the documents say of pulls and the code does not keep.             *)
(***************************************************************************)

\* PRODUCTION_RUNBOOK.md: "The latest successful cursor is the resume point."
\* Committing sessions of historical pulls only, which have no resume point of their own, leaves the cursor of the
\* next ordinary pull where it was.
HistoricalKeepsResume ==
  [][(\A s \in pullSessions' \ pullSessions : s.mode = "range") =>
       \A d \in Devices :
         LatestCursor(pullSessions', d) = LatestCursor(pullSessions, d)]_vars

-----------------------------------------------------------------------------
(***************************************************************************)
(* The inductive invariant behind OneRowPerPunch, NoEvidenceSkipped and    *)
(* the refinement.  A savepoint rollback takes back the rows in fresh, so  *)
(* what a session or a cursor vouches for must be in the rows kept.        *)
(***************************************************************************)

Fresh(w) == IF pc[w] = "cycle" THEN {} ELSE job[w].fresh
Kept(w) == rawPunches \cup (txRows[w] \ Fresh(w))

\* The page w is ingesting: what is not left to ingest is stored.
PageInv(w) ==
  /\ pc[w] \in {"lock", "call"} => job[w].fresh = {}
  /\ pc[w] \in {"select", "insert", "finish"} =>
       /\ job[w].left \subseteq 1 .. recorded[job[w].device]
       /\ job[w].mode = "cursor" =>
            \A p \in 1 .. job[w].next :
              p \in job[w].left \/ HasPunch(RowsSeen(w), job[w].device, p)
  /\ pc[w] = "finish" => job[w].left = {}
  /\ pc[w] = "finish" /\ job[w].mode = "range" => job[w].next = NoCursor
  /\ pc[w] = "insert" =>
       /\ job[w].punch \in job[w].left
       /\ ~HasPunch(txRows[w], job[w].device, job[w].punch)

CoverInv(w) ==
  /\ \A s \in txSessions[w] :
       s.status = "succeeded" => Covered(Kept(w), s.device, s.cursor)
  /\ pc[w] # "cycle" /\ job[w].mode = "cursor" =>
       Covered(Kept(w), job[w].device, job[w].cursor)

EvidenceInv ==
  /\ OneRowPerPunch
  /\ NoEvidenceSkipped
  /\ \A r \in rawPunches \cup OpenRows : r.pos <= recorded[r.device]
  /\ \A w \in Workers : PageInv(w) /\ CoverInv(w)

-----------------------------------------------------------------------------
(***************************************************************************)
(* The inductive invariant behind CountsExact.  The count of a pull is the *)
(* sum over its pages of the rows inserted since the savepoint, while the  *)
(* rows themselves may be lost to a savepoint, a cycle or a crash.         *)
(***************************************************************************)

RowsOf(rows, id) == {r \in rows : r.session = id}

\* The sessions that the open transaction of w has begun or written rows of.
Stamped(w) ==
  {s.id : s \in txSessions[w]} \cup {r.session : r \in txRows[w]}
    \cup (IF pc[w] = "cycle" THEN {} ELSE {job[w].session})

StampedBefore == {s.id : s \in pullSessions} \cup {r.session : r \in rawPunches}

\* Nobody else has a session of an open transaction.
StampsApart ==
  /\ \A w, v \in Workers : w # v => Stamped(w) \cap Stamped(v) = {}
  /\ \A w \in Workers : Stamped(w) \cap StampedBefore = {}
  /\ StampedBefore \cup UNION {Stamped(w) : w \in Workers} \subseteq 1 .. clock

\* A pull has counted the rows of its session but those since the savepoint.
Counting(w) ==
  /\ IsFiniteSet(txRows[w])
  /\ \A s \in txSessions[w] :
       s.status # "running" => s.ingested = Cardinality(RowsOf(txRows[w], s.id))
  /\ pc[w] # "cycle" =>
       /\ \A s \in txSessions[w] : s.id # job[w].session
       /\ job[w].fresh \subseteq RowsOf(txRows[w], job[w].session)
       /\ job[w].total = Cardinality(RowsOf(txRows[w], job[w].session) \ job[w].fresh)
       /\ pc[w] = "lock" => RowsOf(txRows[w], job[w].session) = {}
       /\ pc[w] \in {"lock", "call"} => job[w].fresh = {}
       /\ job[w].mode = "cursor" => job[w].total = 0

CountInv == CountsExact /\ StampsApart /\ \A w \in Workers : Counting(w)

-----------------------------------------------------------------------------
(***************************************************************************)
(* The promise to the rest of the system, and progress.                    *)
(***************************************************************************)

Ledger == INSTANCE EvidenceLedger WITH
  ledger <- [d \in Devices |-> {p \in Positions : HasPunch(rawPunches, d, p)}],
  resume <- [d \in Devices |-> LatestCursor(pullSessions, d)]

\* Concurrent, crashing and retrying pulls implement the evidence ledger:
\* evidence is never lost or invented and no resume point runs ahead of it.
ImplementsLedger == Ledger!Spec

\* A pull that has begun ends: attempts and pages are bounded, a wait for
\* another transaction ends with it, and waits in a circle are broken.
PullsTerminate ==
  \A w \in Workers : pc[w] # "cycle" ~> pc[w] = "cycle"

=============================================================================

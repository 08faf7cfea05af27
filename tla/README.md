# HajiriFlow: a verification development

HajiriFlow is an attendance and payroll backend: FastAPI, SQLAlchemy and
PostgreSQL under `app/src/hajiriflow/`, with worker processes that talk to
biometric attendance devices through an HTTP gateway. This directory holds
TLA+ models of what its workers and API calls do to the tables they share, the
TLC configurations that check them on small instances, and TLAPS proofs of the
results that matter for any number of workers, calls, devices, people and rows.

Paths below are relative to `app/src/hajiriflow/`.

## 1. Inventory

### Ground rules of the whole system

* All state is in PostgreSQL. Transactions run at READ COMMITTED; the session
  factory sets `autoflush=False, expire_on_commit=False` (`db/session.py`), so
  a pending assignment reaches the database at the next explicit `flush()` or
  at the commit, and an object once read is not read again behind the
  program's back (`session.get` answers from the identity map).
* An API request is one transaction: the router calls one service method and
  the dependency commits after it, or rolls back (`api/dependencies.py`).
* A worker cycle is one transaction too: every operation, identity action and
  scheduled pull of the cycle is committed, or lost, together
  (`worker/__main__.py`, `device_platform/worker_cli.py`).
* Rows are locked explicitly in two queries only: `FOR UPDATE SKIP LOCKED` in
  `operations.pending` and in `identity_lifecycle.pending_actions`. A pull
  takes a session-level advisory lock per device. Everything else is "read,
  check in Python, write": the hazards of section 2 come from there.

### Components

| component | state | operations | what makes it correct |
|---|---|---|---|
| Device pulls and evidence: `device_platform/pull.py`, `operations.py`, `service.py` | `raw_punches`, `device_pull_sessions` (cursor, status, counts), advisory lock, device row | pull from the resume cursor, historical pull, ingest, sync users | a punch is stored once; no cursor runs ahead of stored evidence; counts exact; one puller per device; pulls end |
| Worker cycle and operations: `operations.py`, `worker/`, `worker_cli.py` | `device_operations`, due devices | enqueue, claim, process, schedule, commit, roll back | one worker per operation; an outcome is final; one bad device does not stop the rest; due devices get their turn |
| Identity lifecycle: `identity_lifecycle.py` | `device_identity_actions`, archives, device users; the device itself | preview, approve, cancel, execute (push, migrate, archive, restore) | only reviewed actions run; no write without consent; a reported success is real; results are not lost |
| Biometric privacy: `privacy.py` | consent events, deletion requests, mappings | record consent, request, complete or fail a deletion | the latest decision rules; one pending deletion; a deleted user stays inactive |
| Leave and field duty: `calendar_leave/` | requests, allocations, policies, holidays, weekends | request, decide, cancel, allocate, annual allocation, decide on a day | balances are kept; no day used twice; the annual allocation can be repeated; all services agree on a day |
| Attendance: `attendance/` | daily records, history, corrections, manual events, period locks | recalculate, correct, decide, revoke, lock, reopen | locked days do not change; independent approval; the latest evidence counts |
| Payroll: `payroll/` | fiscal years, periods, compensation, tax policies, attendance reviews, runs, lines, history | create, activate, confirm, review, generate, lock, submit, approve, post, reverse, close | pay rests on what others approved; what is posted stays; one reversal; closed books stay settled; earning more pays |
| Users and sessions: `identity/` | accounts, sessions, grants, attempts | login, logout, change password, status, link and roles | limits hold; sessions end with what they were granted for; an administrator remains |
| Workforce: `workforce/` | employees, nodes, shifts, assignments | create, move, assign | the nodes are a tree; one primary node and one shift at a time |
| Reporting, operations dashboards | none of their own | queries, exports | reads only |
| HTTP API, configuration, migrations, site | request parsing, settings, schema, static pages | | transaction boundary only |

The workers interact with administrators' requests through the tables alone,
and with each other through row locks, unique indexes and advisory locks. The
gateway is outside the repository; what the code assumes of it is marked
external in the modules.

## 2. What is hard

`PROJECT.json` lists the hazards with their lines. In short: cursors and
consents that are read before the thing they guard is done; a lock that ends
before the transaction whose rows it protects; row locks that end after it; one
transaction for a whole cycle of unrelated work; a savepoint here and none
there; a device that keeps what a rolled back transaction wrote to it; status,
balance, overlap and ancestor checks made in Python on rows nobody locked;
versions counted in Python; and the same question (what is this date? what is
this person paid by?) answered by several services from rows that change.

## 3. Modules

| module | models | proofs |
|---|---|---|
| `EvidenceLedger` | abstract: what evidence ingestion promises | |
| `DevicePull` | pulls inside worker transactions, statement by statement | `DevicePull_proofs` |
| `WorkerCycle` | queued operations and scheduled pulls, one cycle per transaction | `WorkerCycle_proofs` |
| `IdentityAction` | reviewed writes of identities to a device | `IdentityAction_proofs` |
| `PayrollRun` | the runs of one payroll period under concurrent calls | `PayrollRun_proofs` |
| `AttendanceRules` | what the engine makes of the evidence of one day | `AttendanceDay_proofs` |
| `AttendanceDay` | manual evidence, imports, period locks and records of one employee | `AttendanceDay_proofs` |
| `LeaveBalance` | calendar, allocations, leave and field duty under concurrent calls | `LeaveBalance_proofs` |
| `People` | accounts, sessions, administrators; nodes, assignments and shifts of the workforce | `People_proofs` |
| `PayrollPreparation` | fiscal years, compensation, tax, reviews, and the lines they make | `PayrollPreparation_proofs` |
| `MC…` | constants and symmetry for TLC | |

### DevicePull

Each worker has a program counter (`cycle`, `lock`, `call`, `select`,
`insert`, `finish`), the local variables of `pull_device` /
`_pull_historical` (`job`) and its uncommitted rows (`txRows`, `txSessions`).
One action stands for one statement that another worker can interleave with:
`BeginPull` (cursor read and session insert), `TryLock` / `SkipLocked`,
`ReadPage` / `CallFails` (the gateway), `SelectPunch`, `InsertPunch`,
`InsertConflicts`, `InsertDeadlocks`, `IngestFails`, `FinishPage`,
`FinishBatch`, `FinishPull`, `FinishDeadlocks`, and `CommitCycle`,
`AbortCycle`, `Crash` for the transaction. A punch is its position in the order
the device recorded it, a cursor a position, `NoCursor` SQL NULL.

Modelled of PostgreSQL: a transaction sees committed rows and its own; an
INSERT waits for an open transaction that inserted the same unique key; the
UPDATE of the device row (`last_seen_at`) waits for one that updated it; a
circle of waits is broken by failing one statement; a savepoint undoes the rows
of an attempt; an error outside a savepoint loses the transaction, and with it
the release of the advisory lock (`leaked`); closing the connection frees it.

Abstracted: user rows (`sync_device_users`) to whether writing them fails, so
the row locks and unique keys of `device_users` do not appear; the insert of a
runtime configuration row to the abort of a cycle; `started_at` stamps to a
counter (clocks of two hosts agree); a page of a range may end early.

`ImplementsLedger` is the refinement: the ledger is the set of committed
punches, the resume point is `LatestCursor` of the committed sessions.

### WorkerCycle

The claim (`Claim`), the processing in `created_at` order (`Process`), the
choice of devices (`SelectDevices`), one step per device (`Pull`,
`RecordUnavailable`, `PassOver`, `ResolverFails`) and the end of the cycle
(`Commit`, or `RollBack` by `Fault` and `ResolverFails`). The constant
`Service` selects the program: `hajiriflow.worker` takes every active due
device and records a skipped session where no adapter resolves; `worker_cli`
takes the first `DeviceLimit` active devices and lets a failing resolution
leave the cycle. `SelectDevices` loads the device rows, and `pull_device` checks
the status it has loaded: the session reads no row twice, so a device that is
disabled meanwhile is still pulled in this cycle. A pull is one step with any of
its outcomes, its inside is DevicePull's. Identity actions of the same cycle are not in this module; in
the program they share the transaction, so a fault of theirs is a `Fault` here.

### IdentityAction

One source and one target device. An identity is its external user id. A
request to approve or cancel is two steps, `ReadRequest` (read and check) and
`CommitRequest` (the UPDATE, which waits for a worker's row lock and writes
whatever the status has become). A worker claims, and per row checks consent
and inventory (`CheckRow`), exports (`ExportRow`), asks for a dry run
(`DryRun`) and writes (`WriteRow`, whose answer may be lost); `FinishAction` is
the inventory refresh, which may stop between two users, and the flush of the
results, `RefreshBreaks` the flush that fails. What the program knows of
templates before it has a bundle (`Biometric`, the count of the device user) and
what the exported bundle holds (`Bundled`) may differ: `MoveAllowed` asks for
consent by the first, `BundleAllowed` by the second. `enrolled` and `writes` are the device: no rollback touches them.
External: the gateway accepts a write only for an identity it does not have.
`inventory` says whether the gateway's user list can be stored; `SpoilInventory`
makes it contain a row the database refuses. `inForce` is history: consents
granted at some time since the worker began the action.

### PayrollRun

One payroll period, its runs (named by their sequence number), their lines and
their adjustments. A call of the API is `Begin`, which reads and checks what
`May` says of its operation, and an action that writes and commits
(`LockPeriod`, `ClosePeriod`, `CreateRun`, `AddLine`, `Adjust`, `SubmitRun`,
`ApproveRun`, `PostRun`, `RequestReversal`, `ApproveReversal`); `TakeNumber` is
the query for the next sequence number in between, and `Abandon` a constraint
or a crash. `generate_run` and `create_run` are `CreateRun` with and without
staff. A call knows the amounts of a line it has read: the UPDATE writes those
columns only that it changed. `overtaken` and `overlaps` are history: which
calls have begun before the last commit of another, and how many such calls
have written. `Created` are the runs that reverse no other. `Serial` (`overlaps = 0`) is the condition under which the
guards of unlocked reads can be trusted at all; what holds without it is what
the code promises under any interleaving.

### AttendanceRules and AttendanceDay

`AttendanceRules` is the arithmetic of `attendance/engine.py` for one employee
and one day, as operators: `Schedule` and `Captured` (the window of a shift
that may end on the next day), `Retained` (the tolerance for duplicates),
`CheckIn`, `CheckOut`, `BaseStatus`, `DayStatus`, `Fingerprint` and `Result`
(the columns of a record). Time is in slots; a day has `DayLength`.

`AttendanceDay` is the life of what the engine reads and writes:
`attendance/manual.py` with its events, workbook imports (`sheets`), period
locks and policy, and `calculate_day`. Calls have the shape of PayrollRun:
`BeginRequest` … `BeginCalculate` read and check, `RequestEvent` …
`CalculateDay` write. `CalculateAgain` is the calculation whose fingerprint is
that of the record: it answers and writes nothing. `Changed` is the UPDATE of
the columns that differ from what the call had read. Punches, shifts, leave
and holidays belong to other components and change at any time
(`InputChanges`); the policy does by `UpdatePolicy`. `answers` is history: what
the last calculation of a day has read. Decisions on evidence read the policy
in their first step; the form of the workbook is abstracted to the rows that
pass `MayRequest` and to `Faulty` workbooks that have others.

### LeaveBalance

The working calendar of an organization (`weekends`, `holidays`), one policy
with its rule, the allocation of each employee and BS year, and the rows of
leave and field duty (`uses`). A date has any number of holidays with different
names. `SetWeekends`, `CreateHoliday`, `UpdateHoliday` and `UpdatePolicyRule`
write a row and are one step; so is `ReadBalances`, which creates the details of
a row it shows. Calls that compare what they write
with other rows are a beginning (`RequestLeave`, `RequestDuty`, `DecideLeave`,
`DecideDuty`, `CancelLeave`, `CancelDuty`, `AllocateLeave`,
`AllocateBreakdown`, `AllocateAnnually`) and a write (`WriteRequest`,
`WriteDecision`, `WriteAllocations`), the shape of PayrollRun. Pure parts are
operators: `CalendarDecision`, `WorkingDays`, `Available` (`leave_balance`),
`Carry` (`_carry_forward`), `Target` and `PlanAction` (the plan of the annual
allocation), `Allocated` and `BrokenDown`.

What a date is, three services decide: `WorkdayDecision`
(`calendar_leave/service.py`), `EngineStatuses` (`attendance/engine.py`, an
instance of AttendanceRules on a day without punches) and `ReportStatuses`
(`reporting/service.py`). `cut` is history: employees and years that a lower
allocation, or what the tables held to begin with, has left short. Amounts are
numbers of half days, and the use of a year is the number of its half days that
rows count for (`HalfDaysUsed`): rows never meet on a date (`OneUsePerDay`), so
that this is the sum the code makes; the conversion of
BS dates is the constant `YearOf`.

### People

Accounts with sessions, failed logins and role assignments on one side; nodes,
primary assignments (`posts`) and shift assignments (`rosters`) on the other.
They meet in the employee link of an account. Calls begin (`Login`,
`ChangePassword`, `SetUserStatus`, `UpdateUser`, `CreateUser`, `AssignRole`,
`RevokeRole`, `CreateEmployee`, `MoveNode`, `AssignNode`, `AssignShift`) and
write. `Written` is the UPDATE of the columns a call has changed, among them
`session_version`, which is incremented in Python: `lost` is history, the
accounts of which one call has overwritten the version of another. Accounts have
names (`Named`), and a rename may give one the name that another had. The login
limit goes by the name that is typed, whoever has it: `failures` counts by name
and client, a rename leaves them behind, and `Counted` is how many failures share
the name or the client of a login (`Attempts` names them one by one). `changes`
counts, as history, the calls that give an account a new version, and a session
keeps how many its login had seen (`since`) and the employee link it had seen
(`link`); `WriteEmployee` changes the link and no version. Of the roles there are the two that hold permissions of identity;
`FullAccess` is the wildcard of system administrators. A failed login is written
(`WriteFailure`) although the request ends with an error. `ForgetFailure` is a
failure that leaves the login window. `Contexts` is what
`resolve_employee_context` may return for a date, one for each row that its
`LIMIT 1` may pick.

### PayrollPreparation

What PayrollRun takes for granted. Calls begin (`CreateFiscalYear`,
`TransitionFiscalYear`, `CreatePeriod`, `LockPeriod`, `ClosePeriod`,
`CreateCompensationProfile`, `ConfirmTaxSlabSet`, `PrepareAttendanceReview`,
`DecideAttendanceReview`, `GenerateRun`) and write; `CreateItem`,
`AddComponent`, `CreateRule`, `CreateTaxSlabSet` insert a row next to rows that
never change and are one step. `LinesFor` is `preview_employee`: the lines that
the rows found by `ProfilesOn`, `RulesOn` and `PoliciesFor` make, each the rows
that `ORDER BY … LIMIT 1` may return. `ProgressiveTax` and `PeriodTax` are the
arithmetic of the tax with its roundings (`Rounded`, half up), the total of the
slabs a recursive function of how many of them are taken, with rates in
millionths (`FullRate`), all that their column keeps; `Amount` is that of a
component, whose percentages are whole in the model. A line carries the rows it was made from, for its snapshots.
Attendance of a day (`Calculate`) and the end of a run (`Settle`) are other
modules' and happen at any time. A period created by payroll's first route has
no fiscal year (`NoYear`) and cannot be generated.

## 4. Runs

Passing runs; the bounds are in the `.cfg` files.

| run | shows |
|---|---|
| `pull` | two workers, one device, ordinary and historical pulls: one puller at a time, unique rows, cursors never ahead of evidence, exact counts, the refinement of `EvidenceLedger` |
| `pull_two_devices` | two devices pulled in either order inside one transaction: a pull that began ends, although the waits form circles |
| `cycle` | the service: claims are exclusive, operations end and due devices are attempted although adapters are broken |
| `cycle_cli` | `worker_cli` with two devices and a limit of one: operations end, and a due device is tried while it is within the limit, unless an adapter within the limit raises (that claims are exclusive is proved for both programs) |
| `identity` | migrations, exports and restores by two workers: reviewed, real, consent rechecked |
| `identity_liveness` | pushes, migrations and exports of two identities: a row that fails takes no other row's result with it and every row has an outcome, and approved actions are decided, unless the inventory cannot be stored |
| `payroll` | two calls at a time on a period with a run, its reversal and another run or a second reversal: nobody alone, one reversal, posted lines stay, a closed period is settled, amounts add up |
| `attendance` | two calls at a time on the evidence, imports, locks and records of one employee: nobody alone, imports once and whole, locks disjoint, locked days stay, records are what the evidence says |
| `leave` | two calls at a time on the leave and duty of one employee over two years: balances, one use per day, the annual allocation repeated, the services' decisions compared |
| `people` | two administrators, a third account, three names, an employee and three nodes: sessions current, failed logins on a name and from an address bounded, an administrator remains, the nodes are a tree, one context per date |
| `preparation` | two users prepare the pay of one employee over two fiscal years: books settled, pay justified, earning more pays |

One run ends in a counterexample, against the sentence of the repository that is
quoted in `findings`:

| run | the program does |
|---|---|
| `payroll_reversal` | a reversal run is reversed in turn, and the pay counts negatively twice |

Six more configurations are kept for reproducing known differences by hand
(`tlc -config X.cfg M`); TLC finds each property violated:

| configuration | property | the program does |
|---|---|---|
| `MCDevicePullHistorical.cfg` | `HistoricalKeepsResume` | a historical pull resets the resume point of ordinary pulls (`docs/PRODUCTION_RUNBOOK.md:129`, beside the package, has "The latest successful cursor is the resume point.") |
| `MCWorkerCycleCliBroken.cfg` | `OperationsFinish` | a device whose adapter raises rolls back every cycle of `worker_cli`: operations of other devices never end (`docs/DEVICE_EVIDENCE_BASELINE.md:26`: "every attempt is isolated so one failing device cannot stop others.") |
| `MCWorkerCycleCliLimit.cfg` | `EveryDueDeviceTried` | with more active devices than `worker_cli`'s limit the last ones, in the order of their ids, never have their turn (`docs/FINAL_BASELINE_OPERATIONS.md:43`: "performs due scheduled pulls") |
| `MCIdentityActionCancelled.cfg` | `CancelledUnstarted` | an action that has run becomes `cancelled` (`identity_lifecycle.py:556`: "only unstarted device identity actions can be cancelled") |
| `MCLeaveBalancePlan.cfg` | `PlanTells` | the annual plan reports `no_change` for a row that applying it would change: `allocate_leave` sets the allocated days and leaves the details, which is all the plan compares |
| `MCPeopleLinks.cfg` | `LinksCurrent` | `create_employee` links the employee to an account without a new version, so sessions from before stay valid with another link (`update_user` ends them) |

The models show more of the same kind, which no configuration states:

* Pulls. A pull that began before another committed resumes from the older
  cursor (harmless: `NoEvidenceSkipped` holds). A historical pull whose
  persistence fails leaves its session `running`. After a deadlock outside a
  savepoint the advisory lock stays with a pooled connection that is not
  pulling (`leaked`).
* Cycles. A pull of a device that is disabled after the request, or after the
  cycle has chosen its devices, succeeds.
* Identities. An inventory that cannot be stored loses the results of rows
  already written. Consent withdrawn between the recheck and the write does
  not stop the write. An approval overwrites a cancellation committed since it
  read the row.
* Payroll and attendance. What `Serial` excludes: two overlapping calls may
  close a period over a new run, add a line to a run that is being posted, post
  two reversals of one run, lose an adjustment, lock overlapping periods, or change a day that is being
  locked.
* Attendance. `apply_import` looks neither at period locks nor at matching
  evidence again, so evidence enters a period that was locked after the
  preview (`docs/ATTENDANCE_ENGINE_V2.md`, beside the package, has "Manual evidence cannot be added,
  approved, or revoked inside a locked period"); `LockedDayFrozen` excepts
  imports. The fingerprint does not contain dropped duplicates, so the two
  counts of a record may be older than its answer (`AnswerIsCurrent` excepts
  them). Two overlapping calculations may leave columns of both in one row. An
  "out" retained earlier hides a later one within the tolerance
  (`EvidenceCounts` allows that much). A lock protects the local date of an
  event, not the workday of an overnight shift it may belong to.
* Leave. On a holiday or a weekly off day with approved leave or duty, and on a
  half day of leave, the three services part: the leave service asks for the
  holiday first, the reports for duty and leave (`docs/IMPLEMENTATION_SEQUENCE.md:34`:
  "the same date produces the same workday decision in leave, attendance, and
  report services."). `DecisionsAgree` says where they do agree. A lower
  allocation may leave a balance negative; it is not refused. The annual
  allocation overwrites the allocated days of a row, openings included.
* People. Two overlapping changes of one account write one version, and a
  session from before the second may live on (`SessionsCurrent` excepts those
  accounts). Of a session that `create_employee` lets live, `SessionsCurrent`
  says that it began with no link, unless calls overlap. An account that is
  renamed is free of the failures on its old name, which count for whoever takes
  that name (`FailuresBounded` is about names). Two overlapping calls may disable or
  revoke the last two administrators, move nodes into a cycle, or assign two
  nodes or shifts for a date.
* Payroll before the run. Two overlapping calls may create overlapping years,
  periods or profiles, activate two years, close a year over a new period, or
  overwrite an approved review whose lines exist. Attendance may be calculated
  again after its review, and the line then keeps what was approved. A policy of
  equal confirmation time, or a rule or profile that starts on the same date, is
  chosen by the database.

### Bounds

Two workers, administrators or calls are the least that contend, and every
rule of the database relates two transactions at a time (a circle of three
adds no new kind of wait). Two punches with pages of one or two let a page be
partly known, three sessions let a pull follow two concurrent ones. Two
attempts reach "retry" and "gave up". One operation claimed per cycle, by two
workers and over two devices, lets a cycle hold a claim while the other one
runs. In `cycle_cli` two devices and a limit of one leave a device outside; a
change of status moves the limit. The operations of `cycle` are immediate pulls,
those of `cycle_cli` diagnostics, whose success counts as having seen the device.
One identity is enough for the order of consent,
export and write of `identity`; in `identity_liveness` two rows can end differently,
and what one does to the other shows. Three runs, two of them at most not
reversals (`MaxCreated`), hold a run, its reversal, and a second reversal of it if
the guards let one through; while calls overlap there are two at most
(`MaxOverlapRuns`), and none begins beside another once both that are not reversals
are there. `payroll_reversal` needs three for the reversal of a reversal.
One employee with one adjustment makes an amount change that another call may
have read. Two days of three slots with a
shift over midnight put an event in either day's window; two events are a
duplicate, a pair, or both rows of a workbook; two locks can overlap; two
revisions are a first calculation and an update. `MaxFaults`, `MaxChanges`,
`MaxConsents`, `MaxSessions`, `MaxPunch`, `MaxRuns`, `MaxCreated`,
`MaxOverlapRuns`, `MaxAdjustments`, `MaxEvents`, `MaxLocks`, `MaxRevision`, `MaxCalls`, `MaxUses`, `MaxSetups` and
`MaxWrites` only bound how often the environment acts, `MaxOverlaps` how many
calls write after they were overtaken (one is enough to break what `Serial`
guards, and when the bound is reached calls run one at a time). The proofs
hold for every value of them.

In `leave` year 1 has three dates, one of them on the weekend, and year 2 has
one: enough for a carry forward. Two rows of leave or duty and one change of
the set-up let a request, a decision and an allocation meet in any order; two
allocations beside each other need two and do not occur, nor do requests that
cross a year, which the code refuses. In `people` three committed changes are a
loss of access in every order (role, status, password), a move that closes a
cycle needs two; the login limit is 2 and one failure is there to begin with
(`Failed`), so that three writes can pass the limit, and one overtaken login
does. Three names let an account leave one and another take it. In
`preparation` four committed changes take a review through preparation and
approval to a run and one call beyond; the first year, a locked period, attendance
and a confirmed policy are there to begin with. Taxes are compared for every
income up to `MaxIncome`, whose projection to `AnnualPeriods` passes both slabs;
amounts are in the smallest unit.

`CHECK_DEADLOCK FALSE` is in the configurations of payroll, attendance, leave,
people and preparation: a closed period with settled runs, or calls and writes
that are used up, are states where nothing more can happen. Symmetry permutes
users, employees or calls, in runs without liveness properties.

### Fairness

`FairSpec` is weak fairness of `Step(w)` for each worker: the process keeps
looping (`while` in `worker/__main__.py`, a systemd timer for `worker_cli`),
every gateway call has a timeout, and the database either grants a lock or
breaks a circle of waits. Faults, administrators, time and the device are never
required to act. Payroll, attendance, leave, people and preparation have no
fairness: nothing there happens unless somebody asks for it.

## 5. Proofs

Checked by TLAPS for all values of the constants that satisfy the assumptions
in the modules.

* `DevicePull_proofs`: `TypeCorrect`; `LockIsExclusive`; `EvidenceInvariant`,
  and from it `PunchesStoredOnce`, `NothingSkipped` and `Implements` (every
  step is a step of `EvidenceLedger` or a stutter). `NoEvidenceSkipped` alone
  is not inductive: a succeeded session is written before its rows commit, and
  a savepoint may still take rows back. `EvidenceInv` adds that a session of an
  open transaction vouches only for rows that are kept (committed, or of its
  own transaction and outside the open savepoint), that the page being
  ingested is covered by what is left of it and what is stored (`PageInv`), and
  that a row names a recorded punch. `CountsAreExact` (`CountsExact`) needs
  `CountInv` besides: what a pull has counted is the rows of its session without
  those since the savepoint, which may be undone (`Counting`), and no two pulls,
  open or committed, share a session (`StampsApart`).
* `WorkerCycle_proofs`: `TypeCorrect`; `OneWorkerPerOperation`
  (`ClaimsExclusive` is inductive with the types); `OutcomesAreFinal`;
  `ServiceKeepsWork` (`Service` implies `WorkKept`: only a fault loses work).
* `IdentityAction_proofs`: `TypeCorrect`; `OnlyReviewedExecuted`
  (`ClaimsReviewed`, which needs that a pending approval has been reviewed too:
  previews never change); `ReportedIsDone` (`SuccessIsReal`, carried through
  the job and the open transaction by `WorkRecorded`); `RecheckStopsWrite`
  (`WithdrawnConsentStops`, from `ConsentsKnown`); and
  `SoundInventoryKeepsResults` (`ResultsKept`: only a fault or an inventory
  that cannot be stored loses results, and a job ends with one outcome of each
  row). That an outcome is not lost is a matter of single steps; that each row
  has one needs `RowsCounted`: the rows left, the row at hand among them, and the
  rows with a result are the rows of the action, none of them twice (`NextRows`
  preserves it).
* `PayrollRun_proofs`: `TypeCorrect`; `NobodyAlone`; and under `Serial`
  `PostedStays`, `ClosedStaysSettled`, `OneReversal`, `AdjustmentsAddUp`.
* `AttendanceDay_proofs`: `TypeCorrect`, for which a finite set of instants is
  shown to have a first and a last and `Result` to fit the columns of a record;
  `IndependentDecisions` and `ImportsOnce`; and under `Serial`
  `LocksStayDisjoint`, `LockedDaysFrozen` and `AnswersAreCurrent`, the last from
  the lemma that equal fingerprints give equal results. `EvidenceIsCounted`
  (`EvidenceCounts`) compares a record with the answer it is current with (every
  record has one, `Answered`) by what the deduplication leaves: each instant has
  a retained one no later, and within the tolerance of it (`RetainedCovers`).
* `LeaveBalance_proofs`: `TypeCorrect`; `UsesApart` (`OneUsePerDay`, by counting:
  a write of a call that is current adds no second row to a date, any other adds
  one and one overlap); `DecisionsAlike` (`DecisionsAgree`, which needs no
  invariant: it compares three operators in any state of the tables);
  `AnnualAllocationIsIdempotent` (the plan of a year looks at the balance of the
  year before only, which the allocation of the year does not change); and, under
  `Serial`, `NobodyOverdrawn` and `ApprovalsAreCovered`. These two follow from
  `BalanceInvariant`: whoever is short has been `cut` short, and a call that asks
  for days, or approves them, and is not overtaken finds them available still
  (`Covered`); an allocation carries the plan it has read (`PlanInv`).
* `People_proofs`: `TypeCorrect`; `SessionsEnd` (`SessionsCurrent`: the version
  of an account that has lost none is the one it was born with plus its changes,
  and so for the sessions, `VersionsCount`; a session whose login saw an employee
  link sees it still, `LinkSeen`); and under `Serial` `NoLockout`, `ForestRemains`
  and `OneContext`. `FailuresAreBounded` (`FailuresBounded`, by name and by
  client) takes `FailureInv`: a login that is about to be refused, and is not overtaken,
  still fits the limit; a login that was overtaken brings one failure more, and
  is one of the overlaps the bound allows for.
* `PayrollPreparation_proofs`: `BooksSettled` (`YearsSettled`, under `Serial`),
  `PayRests` (`PayJustified`: all but the review's later life under any
  interleaving), `EarningMoreIsWorthIt` (`EarningMorePays`) and `TypeCorrect`. The
  slabs of a policy adjoin, with rates of at most the whole (`TablesSound`); an
  income one unit higher fills one slab by one unit more (`OneMore`), the tax of
  which is at most that unit whatever the rounding (`RoundedSteps`), and so for
  the projection of a period to the year and back (`PeriodStep`). `TypeCorrect`
  says that the amounts of a line are numbers not below zero. It needs
  `TypesInv`: components refer to items and profiles there are, and a snapshot,
  over which holiday minutes are summed, has finitely many days.

The last five share an argument, beside what is said of each above. A call relies
on what it has read, and no row is locked. `CallsChecked` (`CallsKnow` in the later modules) says that what
it has checked of columns written once (makers, requesters, the existence of
rows, statuses that are never taken back) is still so: every step preserves it,
and `FourEyes`, `NobodyAlone`, `ImportedOnce`, `SessionsCurrent` and most of
`PayJustified` follow under any interleaving. `CallsCurrent` says that all it
has read is still so unless it is overtaken: whoever commits makes every other
running call overtaken, so the invariant survives the commit, and a write with
`Serial` afterwards is one of a call whose guard still holds.

The rows to begin with are constants of which the modules assume what the
invariants need (`FirstAssumption`, `TreeAssumption`, `AdministratorAssumption`):
the tables may hold anything that the program could have left in them. The slabs
of policies to begin with are such as `create_tax_slab_set` accepts.

Three recursions are met on the way: the choice of the retained instants
(`GreedyExists`), the tax slab by slab (`TotalSteps`) and a sum over a set
(`SumExists`). A recursive function is a choice among the functions that satisfy
its equation, so a proof must show first that there is one. The induction theorems
of the library take an operator and cannot be used here; instead the least number
for which the claim fails is refuted (`LeastNatural`). Where only a count matters,
as for days of leave and failed logins, the models state it as the number of
elements of a set, which needs no induction.

Every safety invariant and action property of a passing run is a listed theorem.
Only model-checked are the liveness properties (`PullsTerminate`,
`OperationsFinish`, `DueDevicesAttempted`, `OperationsFinishUnlessBroken`,
`LimitedDevicesTried` and `ActionsDecided`), which are outside what the proof
system handles, and that `progressive_tax` and the other recursive definitions
compute what a closed formula would: the theorems say how they step.

## 6. Not modelled

The parts that `PROJECT.json` marks `not_modelled`, with their reasons, and
inside the modelled parts:

* everywhere: request parsing, permissions of the routers other than those of
  identity, encryption, hashing, audit rows (written with every change, read by
  no decision), and the text of error messages;
* devices: registration, credentials, manual mapping of device users, and the
  life of a deletion request of biometric data beyond the steps that
  IdentityAction races with;
* attendance: `attendance/service.py` (nothing calls its calculator any more, and
  the API refuses its corrections for every record the engine writes), remarks,
  and the choice of the effective shift, which is an input of AttendanceDay and
  `Contexts` of People;
* leave: several leave policies at once, the creation of policies, and texts;
* people: roles other than the two administrators', scopes of organizations other
  than that they are not global, assignments that are not primary, end dates that are
  open, companies, employee profiles, node types, shift definitions;
* payroll: exports, payslips and the rendering of the annual summary, the codes
  and labels that unique constraints compare, organizations other than one;
* reporting: all but the status of a day without a record.

## 7. Plan

Done: `EvidenceLedger`, `DevicePull`, `WorkerCycle`, `IdentityAction`,
`PayrollRun`, `AttendanceRules`, `AttendanceDay`, `LeaveBalance`, `People`,
`PayrollPreparation`, with proofs for the eight state machines that change
tables.

Next, in this order:

1. `DeletionRequest`: one pending request, a receipt only after removal.
2. A refinement of an abstract day ledger by `AttendanceDay`, and of an abstract
   pay line by `PayrollPreparation` and `PayrollRun` together.

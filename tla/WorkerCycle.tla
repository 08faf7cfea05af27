----------------------------- MODULE WorkerCycle -----------------------------
(***************************************************************************)
(* The cycles of the device workers: queued device operations and          *)
(* scheduled pulls, carried out in one database transaction per cycle.     *)
(*                                                                         *)
(* An API request queues an operation (diagnostics, immediate pull,        *)
(* historical pull) for an active device.  A worker claims pending         *)
(* operations with FOR UPDATE SKIP LOCKED, processes them in the order of  *)
(* created_at, then pulls the devices whose interval has elapsed, and      *)
(* commits everything at once.  The rows it claimed stay locked till then; *)
(* a rollback makes them pending again.                                    *)
(*                                                                         *)
(* The repository has two worker programs: "python -m hajiriflow.worker"   *)
(* (Service = TRUE) and hajiriflow.device_platform.worker_cli (FALSE).     *)
(* They share the queue and differ in how scheduled devices are chosen and *)
(* in what a failing adapter resolution does.                              *)
(*                                                                         *)
(* A pull is one step here, with any of its outcomes: module DevicePull    *)
(* has its inside.  Identity actions, the third kind of work of a cycle,   *)
(* are not part of this module.                                            *)
(***************************************************************************)
EXTENDS Naturals, FiniteSets

CONSTANTS
  Workers,       \* worker processes
  Devices,       \* devices, numbered in the order of their ids
  Operations,    \* operations, numbered in the order of created_at
  Types,         \* the operation types that are requested
  Adapters,      \* conditions the adapters of devices can be in
  Service,       \* which worker program runs
  ClaimLimit,    \* the most operations one cycle claims
  DeviceLimit,   \* MAX_SCHEDULED_DEVICES_PER_CYCLE of worker_cli
  MaxChanges,    \* bound: status and registration changes
  MaxFaults,     \* bound: crashes and database failures
  NoOperation    \* an operation nobody has requested yet

ASSUME NumbersAssumption == Devices \subseteq Nat /\ Operations \subseteq Nat
ASSUME TypesAssumption ==
  Types \subseteq {"diagnostics", "immediate_pull", "historical_pull"}
ASSUME AdaptersAssumption == Adapters \subseteq {"ready", "unknown", "broken"}
ASSUME LimitsAssumption ==
  /\ Service \in BOOLEAN
  /\ ClaimLimit \in Nat \ {0}
  /\ DeviceLimit \in Nat \ {0}
  /\ MaxChanges \in Nat
  /\ MaxFaults \in Nat

Outcomes == {"succeeded", "failed", "skipped"}

\* A row of devices, and what resolve_registered_adapter makes of it: an
\* adapter, None for an adapter key it does not know, or an exception (no key
\* ring, a credential that cannot be decrypted or has unsupported fields).
Device == [status : {"active", "disabled"}, adapter : Adapters]

\* A row of device_operations.  "running" is never committed.
Operation ==
  [device : Devices, type : Types, status : Outcomes \cup {"pending"}]

\* What a transaction has to say of a device: a pull session was written, a
\* pull succeeded, diagnostics reached it.
News == {"tried", "pulled", "reached"}

ASSUME NoOperationAssumption == NoOperation \notin Operation

VARIABLES
  devices,       \* the devices table
  ops,           \* the device_operations table
  due,           \* devices whose pull interval has elapsed, by committed rows
  pulledOnce,    \* devices with a committed last_successful_pull_at
  pc,            \* where each worker is in its cycle
  claimed,       \* operations each worker's transaction has locked
  txOps,         \* the outcomes each worker's transaction has written
  txNews,        \* what each worker's transaction has to say of devices
  todo,          \* devices each worker still has to look at in this cycle
  changes,       \* status and registration changes so far
  faults         \* crashes and database failures so far

tables == <<devices, ops, due, pulledOnce>>
bounds == <<changes, faults>>
tx == <<claimed, txOps, txNews, todo>>
vars == <<tables, pc, tx, bounds>>

TypeOK ==
  /\ devices \in [Devices -> Device]
  /\ ops \in [Operations -> Operation \cup {NoOperation}]
  /\ due \subseteq Devices
  /\ pulledOnce \subseteq Devices
  /\ pc \in [Workers -> {"idle", "operations", "pulls"}]
  /\ claimed \in [Workers -> SUBSET Operations]
  /\ txOps \in [Workers -> SUBSET (Operations \X Outcomes)]
  /\ txNews \in [Workers -> SUBSET (Devices \X News)]
  /\ todo \in [Workers -> SUBSET Devices]
  /\ \A w \in Workers :
       /\ pc[w] = "idle" => claimed[w] = {} /\ txOps[w] = {} /\ txNews[w] = {}
       /\ pc[w] # "pulls" => todo[w] = {}
  /\ changes \in 0 .. MaxChanges
  /\ faults \in 0 .. MaxFaults

Init ==
  /\ devices \in [Devices -> [status : {"active"}, adapter : Adapters]]
  /\ ops = [o \in Operations |-> NoOperation]
  /\ due = Devices
  /\ pulledOnce = {}
  /\ pc = [w \in Workers |-> "idle"]
  /\ claimed = [w \in Workers |-> {}]
  /\ txOps = [w \in Workers |-> {}]
  /\ txNews = [w \in Workers |-> {}]
  /\ todo = [w \in Workers |-> {}]
  /\ changes = 0
  /\ faults = 0

-----------------------------------------------------------------------------
(***************************************************************************)
(* Requests of administrators, each one transaction of the API, and time.  *)
(***************************************************************************)

Enqueue(o, d, type) ==
  /\ ops[o] = NoOperation
  /\ devices[d].status = "active"
  /\ ops' = [ops EXCEPT ![o] = [device |-> d, type |-> type, status |-> "pending"]]
  /\ UNCHANGED <<devices, due, pulledOnce, pc, tx, bounds>>

SetStatus(d, status) ==
  /\ changes < MaxChanges
  /\ devices[d].status # status
  /\ devices' = [devices EXCEPT ![d].status = status]
  /\ changes' = changes + 1
  /\ UNCHANGED <<ops, due, pulledOnce, pc, tx, faults>>

\* Registration update, credential rotation, or a change of the key ring.
Reconfigure(d, adapter) ==
  /\ changes < MaxChanges
  /\ devices[d].adapter # adapter
  /\ devices' = [devices EXCEPT ![d].adapter = adapter]
  /\ changes' = changes + 1
  /\ UNCHANGED <<ops, due, pulledOnce, pc, tx, faults>>

\* pull_interval_seconds pass.
Elapse(d) ==
  /\ d \notin due
  /\ due' = due \cup {d}
  /\ UNCHANGED <<devices, ops, pulledOnce, pc, tx, bounds>>

-----------------------------------------------------------------------------
(***************************************************************************)
(* Queued operations.                                                      *)
(***************************************************************************)

Pending == {o \in Operations : ops[o] # NoOperation /\ ops[o].status = "pending"}

Locked == UNION {claimed[w] : w \in Workers}

\* Mutant: the query does not lock the rows.
ClaimableUnlocked == Pending

\* WHERE status = 'pending' ... FOR UPDATE SKIP LOCKED.
Claimable == Pending \ Locked

\* The first n numbers of S.
First(S, n) == {x \in S : Cardinality({y \in S : y < x}) < n}

\* A cycle begins by claiming the oldest operations nobody has claimed.
Claim(w) ==
  /\ pc[w] = "idle"
  /\ claimed' = [claimed EXCEPT ![w] = First(Claimable, ClaimLimit)]
  /\ pc' = [pc EXCEPT ![w] = "operations"]
  /\ UNCHANGED <<tables, txOps, txNews, todo, bounds>>

Processed(w) == {r[1] : r \in txOps[w]}
Unprocessed(w) == claimed[w] \ Processed(w)

\* What processing an operation of this type can come to.  Only an immediate
\* pull looks at the status of the device.
OperationOutcomes(type, device) ==
  CASE device.adapter = "broken" -> {"failed"}
    [] device.adapter = "unknown" -> {"skipped"}
    [] device.adapter = "ready" /\ type = "diagnostics" -> {"succeeded", "failed"}
    [] device.adapter = "ready" /\ type = "immediate_pull" ->
         IF device.status = "active" THEN Outcomes ELSE {"failed"}
    [] OTHER -> Outcomes

\* The rows processing wrote besides the operation's own.
OperationNews(type, d, outcome) ==
  {<<d, n>> : n \in
     CASE devices[d].adapter # "ready" -> {}
       [] devices[d].adapter = "ready" /\ type = "diagnostics" ->
            IF outcome = "succeeded" THEN {"reached"} ELSE {}
       [] devices[d].adapter = "ready" /\ type = "immediate_pull"
            /\ devices[d].status # "active" -> {}
       [] OTHER -> IF outcome = "succeeded" THEN {"tried", "pulled"} ELSE {"tried"}}

\* DeviceOperationService.process: whatever the adapter raises ends up in the
\* operation's row.
Process(w, o, outcome) ==
  LET d == ops[o].device
  IN
  /\ pc[w] = "operations"
  /\ o \in First(Unprocessed(w), 1)
  /\ outcome \in OperationOutcomes(ops[o].type, devices[d])
  /\ txOps' = [txOps EXCEPT ![w] = txOps[w] \cup {<<o, outcome>>}]
  /\ txNews' = [txNews EXCEPT ![w] =
       txNews[w] \cup OperationNews(ops[o].type, d, outcome)]
  /\ UNCHANGED <<tables, pc, claimed, todo, bounds>>

-----------------------------------------------------------------------------
(***************************************************************************)
(* Scheduled pulls.                                                        *)
(***************************************************************************)

\* Devices that rows of w's transaction make not due: the service counts from
\* the latest attempt, worker_cli from the latest success, or from
\* last_seen_at as long as there is none.
Refreshed(w) ==
  LET about(n) == {d \in Devices : <<d, n>> \in txNews[w]}
  IN  IF Service
      THEN about("tried")
      ELSE about("pulled") \cup (about("reached") \ pulledOnce)

IsDue(w, d) == d \in due \ Refreshed(w)

Active == {d \in Devices : devices[d].status = "active"}

\* Mutant: worker_cli limits the devices before it looks at their status.
ScheduledLimitFirst(w) ==
  IF Service THEN {d \in Active : IsDue(w, d)}
  ELSE First(Devices, DeviceLimit) \cap Active

\* The service selects the active devices that are due, worker_cli the first
\* active devices, due or not.
Scheduled(w) ==
  IF Service THEN {d \in Active : IsDue(w, d)} ELSE First(Active, DeviceLimit)

SelectDevices(w) ==
  /\ pc[w] = "operations"
  /\ Unprocessed(w) = {}
  /\ todo' = [todo EXCEPT ![w] = Scheduled(w)]
  /\ pc' = [pc EXCEPT ![w] = "pulls"]
  /\ UNCHANGED <<tables, claimed, txOps, txNews, bounds>>

\* It is d's turn in w's cycle.
Turn(w, d) == pc[w] = "pulls" /\ d \in First(todo[w], 1)

TurnOver(w, d) == todo' = [todo EXCEPT ![w] = todo[w] \ {d}]

Report(w, d, news) ==
  txNews' = [txNews EXCEPT ![w] = txNews[w] \cup {<<d, n>> : n \in news}]

\* The transaction is rolled back: its locks and all its results are gone.
RollBack(w) ==
  /\ pc' = [pc EXCEPT ![w] = "idle"]
  /\ claimed' = [claimed EXCEPT ![w] = {}]
  /\ txOps' = [txOps EXCEPT ![w] = {}]
  /\ txNews' = [txNews EXCEPT ![w] = {}]
  /\ todo' = [todo EXCEPT ![w] = {}]
  /\ UNCHANGED tables

\* worker_cli passes over a device that is not due or has no known adapter.
PassOver(w, d) ==
  /\ ~Service
  /\ Turn(w, d)
  /\ ~IsDue(w, d) \/ devices[d].adapter = "unknown"
  /\ TurnOver(w, d)
  /\ UNCHANGED <<tables, pc, claimed, txOps, txNews, bounds>>

\* Mutant: run_once does not guard the adapter resolution.
RecordUnavailableUnguarded(w, d) ==
  /\ Service
  /\ Turn(w, d)
  /\ devices[d].adapter # "ready"
  /\ IF devices[d].adapter = "broken"
     THEN RollBack(w)
     ELSE /\ Report(w, d, {"tried"})
          /\ TurnOver(w, d)
          /\ UNCHANGED <<tables, pc, claimed, txOps>>
  /\ UNCHANGED bounds

\* Mutant: a device without adapter leaves no pull session.
RecordUnavailableSilently(w, d) ==
  /\ Service
  /\ Turn(w, d)
  /\ devices[d].adapter # "ready"
  /\ TurnOver(w, d)
  /\ UNCHANGED <<tables, pc, claimed, txOps, txNews, bounds>>

\* The service writes a skipped pull session for a device it has no adapter
\* for, for whatever reason.
RecordUnavailable(w, d) ==
  /\ Service
  /\ Turn(w, d)
  /\ devices[d].adapter # "ready"
  /\ Report(w, d, {"tried"})
  /\ TurnOver(w, d)
  /\ UNCHANGED <<tables, pc, claimed, txOps, bounds>>

\* worker_cli resolves the adapter outside its try block: an exception leaves
\* run_cycle through the rollback.
ResolverFails(w, d) ==
  /\ ~Service
  /\ Turn(w, d)
  /\ IsDue(w, d)
  /\ devices[d].adapter = "broken"
  /\ RollBack(w)
  /\ UNCHANGED bounds

\* Mutant: worker_cli does not catch what pull_device raises.
PullUnguarded(w, d, outcome) ==
  /\ Turn(w, d)
  /\ Service \/ IsDue(w, d)
  /\ devices[d].adapter = "ready"
  /\ outcome \in Outcomes
  /\ IF outcome = "failed"
     THEN RollBack(w)
     ELSE /\ Report(w, d, {"tried", "pulled"})
          /\ TurnOver(w, d)
          /\ UNCHANGED <<tables, pc, claimed, txOps>>
  /\ UNCHANGED bounds

\* pull_device.  The status it checks is the one SelectDevices has loaded: the
\* session does not read the row again, whoever disables the device meanwhile.
\* The scheduled pulls of the service leave last_successful_pull_at alone, which
\* the service does not read either.
Pull(w, d, outcome) ==
  /\ Turn(w, d)
  /\ Service \/ IsDue(w, d)
  /\ devices[d].adapter = "ready"
  /\ outcome \in Outcomes
  /\ Report(w, d, IF outcome = "succeeded" /\ ~Service
                  THEN {"tried", "pulled"} ELSE {"tried"})
  /\ TurnOver(w, d)
  /\ UNCHANGED <<tables, pc, claimed, txOps, bounds>>

-----------------------------------------------------------------------------
(***************************************************************************)
(* The end of a cycle.                                                     *)
(***************************************************************************)

Commit(w) ==
  /\ pc[w] = "pulls"
  /\ todo[w] = {}
  /\ ops' = [o \in Operations |->
       IF o \in Processed(w)
       THEN [ops[o] EXCEPT !.status = CHOOSE s \in Outcomes : <<o, s>> \in txOps[w]]
       ELSE ops[o]]
  /\ due' = due \ Refreshed(w)
  /\ pulledOnce' = pulledOnce \cup {d \in Devices : <<d, "pulled">> \in txNews[w]}
  /\ pc' = [pc EXCEPT ![w] = "idle"]
  /\ claimed' = [claimed EXCEPT ![w] = {}]
  /\ txOps' = [txOps EXCEPT ![w] = {}]
  /\ txNews' = [txNews EXCEPT ![w] = {}]
  /\ UNCHANGED <<devices, todo, bounds>>

\* The process dies, the database fails or cancels the transaction.
Fault(w) ==
  /\ pc[w] # "idle"
  /\ faults < MaxFaults
  /\ faults' = faults + 1
  /\ RollBack(w)
  /\ UNCHANGED changes

\* What a worker does on its own.
Step(w) ==
  \/ Claim(w)
  \/ \E o \in Operations, outcome \in Outcomes : Process(w, o, outcome)
  \/ SelectDevices(w)
  \/ \E d \in Devices : PassOver(w, d)
  \/ \E d \in Devices : RecordUnavailable(w, d)
  \/ \E d \in Devices : ResolverFails(w, d)
  \/ \E d \in Devices, outcome \in Outcomes : Pull(w, d, outcome)
  \/ Commit(w)

Next ==
  \/ \E o \in Operations, d \in Devices, type \in Types : Enqueue(o, d, type)
  \/ \E d \in Devices, status \in {"active", "disabled"} : SetStatus(d, status)
  \/ \E d \in Devices, adapter \in Adapters : Reconfigure(d, adapter)
  \/ \E d \in Devices : Elapse(d)
  \/ \E w \in Workers : Step(w)
  \/ \E w \in Workers : Fault(w)

Spec == Init /\ [][Next]_vars

\* Every worker process keeps looping.
FairSpec == Spec /\ \A w \in Workers : WF_vars(Step(w))

-----------------------------------------------------------------------------
(***************************************************************************)
(* Properties.                                                             *)
(***************************************************************************)

\* An operation is carried out by one worker at a time, and nobody carries
\* out what has already been decided: the device sees a command again only
\* after the transaction that gave it was rolled back.
ClaimsExclusive ==
  \A w \in Workers :
    /\ claimed[w] \subseteq Pending
    /\ Processed(w) \subseteq claimed[w]
    /\ \A r, s \in txOps[w] : r[1] = s[1] => r = s
    /\ \A v \in Workers \ {w} : claimed[v] \cap claimed[w] = {}

\* What an operator has read of a finished operation is never overwritten by
\* a worker that was carrying it out at the same time.
FinishedForGood ==
  [][\A o \in Operations :
       ops[o] # NoOperation /\ o \notin Pending => ops'[o] = ops[o]]_vars

\* "every attempt is isolated so one failing device cannot stop others"
\* (DEVICE_EVIDENCE_BASELINE.md): what a cycle has done reaches the database
\* unless the process or the database fails.
WorkKept ==
  [][\A w \in Workers :
       txOps[w] # {} /\ txOps'[w] = {} /\ UNCHANGED faults =>
         \A r \in txOps[w] : ops'[r[1]].status = r[2]]_vars

\* The same as a promise to the operator who requested the operation: it
\* ends, whatever condition the other devices are in.
OperationsFinish ==
  \A o \in Operations : o \in Pending ~> o \notin Pending

\* A device that is due is looked at: its attempt is recorded, also when no
\* adapter can be resolved, or it is no longer active.
DueDevicesAttempted ==
  \A d \in Devices : d \in due ~> d \notin due \/ d \notin Active

\* The devices the limit of worker_cli leaves.
InLimit == First(Active, DeviceLimit)

\* What worker_cli cannot live with: an adapter raises, of a device that is
\* within the limit of a cycle.
Trouble == \E d \in InLimit : devices[d].adapter = "broken"

\* worker_cli keeps that promise as long as no such adapter raises.
OperationsFinishUnlessBroken ==
  \A o \in Operations : o \in Pending ~> o \notin Pending \/ Trouble

CallsForPull(d) == d \in due /\ d \in Active /\ devices[d].adapter = "ready"

IsTried(d) == \E w \in Workers : <<d, "tried">> \in txNews[w]

\* A device that is due and can be pulled is pulled by worker_cli while it is
\* among the first active devices (_scheduled_devices): neither disabled devices
\* before it nor those that are not due or have no adapter take its place.
LimitedDevicesTried ==
  \A d \in Devices :
    CallsForPull(d) /\ d \in InLimit ~>
      ~(CallsForPull(d) /\ d \in InLimit) \/ IsTried(d) \/ Trouble

-----------------------------------------------------------------------------
(***************************************************************************)
(* What the documents say and the program does not keep.                   *)
(***************************************************************************)

\* FINAL_BASELINE_OPERATIONS.md: each cycle "performs due scheduled pulls".
\* worker_cli chooses by id and not by age, so an active device behind the limit
\* waits as long as those before it stay active.
EveryDueDeviceTried ==
  \A d \in Devices : CallsForPull(d) ~> ~CallsForPull(d) \/ IsTried(d) \/ Trouble

=============================================================================

---------------------------- MODULE IdentityAction ----------------------------
(***************************************************************************)
(* Reviewed writes of identities to a biometric device.                    *)
(*                                                                         *)
(* An administrator previews an action (push users, migrate users, export  *)
(* an archive, restore an archive), another request approves or cancels    *)
(* it, and a worker executes what is approved: row by row it checks the    *)
(* consent and the inventory of the target device, asks the gateway for a  *)
(* dry run and then for the write.  The results of all actions of a cycle  *)
(* reach the database with the commit of the cycle; what was written to    *)
(* the device stays there whatever becomes of the transaction.             *)
(*                                                                         *)
(* Approving and cancelling read the action, check its status in Python    *)
(* and write it later in the same transaction, without a row lock: they    *)
(* are two steps here.  The write waits for a worker that has claimed the  *)
(* row.                                                                    *)
(*                                                                         *)
(* One source and one target device; an identity is its external user id,  *)
(* the same on both.                                                       *)
(***************************************************************************)
EXTENDS Naturals, FiniteSets

CONSTANTS
  Workers,          \* worker processes
  Admins,           \* concurrent API requests
  Actions,          \* action rows
  Identities,       \* external user ids
  Biometric,        \* those whose device user has templates, as far as is known
  Bundled,          \* those whose exported bundle has templates
  Kinds,            \* action types that are requested
  ClaimLimit,       \* the most actions one cycle claims
  MaxConsents,      \* bound: consent decisions and mapping changes
  MaxFaults,        \* bound: crashes and database failures
  NoAction,         \* an action nobody has previewed yet
  NoRequest,        \* an API request that is not running
  NoJob             \* a worker that executes no action

ASSUME IdentitiesAssumption ==
  Biometric \subseteq Identities /\ Bundled \subseteq Identities
ASSUME KindsAssumption ==
  Kinds \subseteq {"push_users", "migrate_users", "archive_export",
                   "archive_restore"}
ASSUME NumbersAssumption ==
  /\ ClaimLimit \in Nat \ {0}
  /\ MaxConsents \in Nat
  /\ MaxFaults \in Nat

Results == Identities \X {"succeeded", "failed"}

\* A row of device_identity_actions.  "running" is never committed.  blocked
\* says that the preview counted blocking rows; archive is the export that
\* made the archive of an archive_restore.
Action ==
  [kind : Kinds, rows : SUBSET Identities, archive : Actions \cup {NoAction},
   blocked : BOOLEAN, results : SUBSET Results,
   status : {"preview", "approved", "succeeded", "partial", "failed", "cancelled"}]

\* The action a worker executes: rows not looked at, the row it is at, results.
Job ==
  [action : Actions, left : SUBSET Identities, row : SUBSET Identities,
   results : SUBSET Results]

ASSUME NoneAssumption == NoAction \notin Action /\ NoAction \notin Actions
                         /\ NoJob \notin Job

VARIABLES
  actions,      \* the device_identity_actions table
  archives,     \* state of the archive made by each export
  deviceUsers,  \* the device_users rows of the target device
  granted,      \* identities whose latest consent decision is "granted"
  mapped,       \* identities with an active mapping, on each device
  requests,     \* what each API request has read and is going to write
  enrolled,     \* external: identities on the target device
  inventory,    \* external: can the user list of the target be flushed?
  writes,       \* history: which action wrote which identity
  inForce,      \* history: consents granted at some time since w began its job
  pc,           \* where each worker is
  claimed,      \* actions each worker's transaction has locked
  job,          \* the action each worker executes
  txActions,    \* the results each worker's transaction has written
  txArchives,   \* the archives each worker's transaction has written
  txUsers,      \* the device_users rows each worker's transaction has written
  consents,     \* consent decisions and mapping changes so far
  faults        \* crashes and database failures so far

tables == <<actions, archives, deviceUsers>>
people == <<granted, mapped, inForce, consents>>
device == <<enrolled, inventory, writes>>
tx == <<claimed, txActions, txArchives, txUsers>>
vars == <<tables, people, requests, device, pc, job, tx, faults>>

Finished(w) == {r[1] : r \in txActions[w]}

TypeOK ==
  /\ actions \in [Actions -> Action \cup {NoAction}]
  /\ archives \in [Actions -> {"none", "ready", "restored"}]
  /\ deviceUsers \subseteq Identities
  /\ granted \subseteq Identities
  /\ mapped \subseteq {"source", "target"} \X Identities
  /\ requests \in [Admins -> ({"approved", "cancelled"} \X Actions) \cup {NoRequest}]
  /\ enrolled \subseteq Identities
  /\ inventory \in {"sound", "broken"}
  /\ writes \subseteq Actions \X Identities
  /\ inForce \in [Workers -> SUBSET Identities]
  /\ pc \in [Workers -> {"idle", "next", "rows", "export", "push", "write", "refresh"}]
  /\ claimed \in [Workers -> SUBSET Actions]
  /\ job \in [Workers -> Job \cup {NoJob}]
  /\ txActions \in [Workers -> SUBSET (Actions \X SUBSET Results)]
  /\ txArchives \in [Workers -> SUBSET (Actions \X {"ready", "restored"})]
  /\ txUsers \in [Workers -> SUBSET Identities]
  /\ \A a \in Actions : actions[a] # NoAction =>
       (actions[a].archive \in Actions <=> actions[a].kind = "archive_restore")
  /\ \A w \in Workers :
       /\ pc[w] = "idle" => claimed[w] = {} /\ txActions[w] = {}
       /\ (pc[w] \in {"idle", "next"}) <=> (job[w] = NoJob)
       /\ job[w] # NoJob => job[w].action \in claimed[w] \ Finished(w)
  /\ consents \in 0 .. MaxConsents
  /\ faults \in 0 .. MaxFaults

Init ==
  /\ actions = [a \in Actions |-> NoAction]
  /\ archives = [a \in Actions |-> "none"]
  /\ deviceUsers = {}
  /\ granted \in SUBSET Identities
  /\ mapped = {"source"} \X Identities
  /\ requests = [m \in Admins |-> NoRequest]
  /\ enrolled = {}
  /\ inventory = "sound"
  /\ writes = {}
  /\ inForce = [w \in Workers |-> {}]
  /\ pc = [w \in Workers |-> "idle"]
  /\ claimed = [w \in Workers |-> {}]
  /\ job = [w \in Workers |-> NoJob]
  /\ txActions = [w \in Workers |-> {}]
  /\ txArchives = [w \in Workers |-> {}]
  /\ txUsers = [w \in Workers |-> {}]
  /\ consents = 0
  /\ faults = 0

-----------------------------------------------------------------------------
(***************************************************************************)
(* People and the device.                                                  *)
(***************************************************************************)

\* BiometricPrivacyService.record_consent; "declined" and "revoked" are alike.
RecordConsent(i, decision) ==
  /\ consents < MaxConsents
  /\ (decision = "granted") # (i \in granted)
  /\ IF decision = "granted"
     THEN /\ granted' = granted \cup {i}
          /\ inForce' = [w \in Workers |-> inForce[w] \cup {i}]
     ELSE /\ granted' = granted \ {i}
          /\ UNCHANGED inForce
  /\ consents' = consents + 1
  /\ UNCHANGED <<tables, mapped, requests, device, pc, job, tx, faults>>

\* request_deletion disables the mapping of a device user.
RequestDeletion(side, i) ==
  /\ consents < MaxConsents
  /\ <<side, i>> \in mapped
  /\ mapped' = mapped \ {<<side, i>>}
  /\ consents' = consents + 1
  /\ UNCHANGED <<tables, granted, inForce, requests, device, pc, job, tx, faults>>

\* map_device_user maps a known device user, again if need be.
MapDeviceUser(side, i) ==
  /\ consents < MaxConsents
  /\ <<side, i>> \notin mapped
  /\ side = "target" => i \in deviceUsers
  /\ mapped' = mapped \cup {<<side, i>>}
  /\ consents' = consents + 1
  /\ UNCHANGED <<tables, granted, inForce, requests, device, pc, job, tx, faults>>

\* External: somebody enrols at the target device itself.
Enrol(i) ==
  /\ i \notin enrolled
  /\ enrolled' = enrolled \cup {i}
  /\ UNCHANGED <<tables, people, requests, inventory, writes, pc, job, tx, faults>>

\* External: the user list gets an entry that device_users cannot hold, such as
\* a name longer than its column.
SpoilInventory ==
  /\ inventory = "sound"
  /\ faults < MaxFaults
  /\ inventory' = "broken"
  /\ faults' = faults + 1
  /\ UNCHANGED <<tables, people, requests, enrolled, writes, pc, job, tx>>

\* A pull of the target synchronises its users (sync_device_users).
PullInventory ==
  /\ inventory = "sound"
  /\ deviceUsers # deviceUsers \cup enrolled
  /\ deviceUsers' = deviceUsers \cup enrolled
  /\ UNCHANGED <<actions, archives, people, requests, device, pc, job, tx, faults>>

-----------------------------------------------------------------------------
(***************************************************************************)
(* Preview, approval and cancellation.                                     *)
(***************************************************************************)

\* Templates of the identity may be moved.  An archive keeps the employee its
\* identity was mapped to.
Consented(kind, i) ==
  i \in granted /\ (kind # "archive_restore" => <<"source", i>> \in mapped)

\* What the program knows of templates before it has a bundle.  The manifest of
\* an archive was written from its bundles.
Templates(kind) ==
  CASE kind = "push_users" -> {}
    [] kind = "archive_restore" -> Bundled
    [] OTHER -> Biometric

\* _biometric_move_allowed, or its counterpart for an archived identity.
MoveAllowed(kind, i) == i \in Templates(kind) => Consented(kind, i)

\* _assert_exported_bundle_consent
BundleAllowed(kind, i) == i \in Bundled => Consented(kind, i)

\* A row that blocks the approval of a preview.
Blocking(kind, i) ==
  \/ ~MoveAllowed(kind, i)
  \/ kind \in {"migrate_users", "archive_restore"} /\ i \in deviceUsers
  \/ kind = "push_users" /\ i \in deviceUsers /\ <<"target", i>> \notin mapped

\* The identities archived by export a.
Archived(a) == {i \in Identities : <<i, "succeeded">> \in actions[a].results}

Preview(a, kind, rows, archive) ==
  /\ actions[a] = NoAction
  /\ rows # {}
  /\ IF kind = "archive_restore"
     THEN archive \in Actions /\ archives[archive] # "none" /\ rows = Archived(archive)
     ELSE archive = NoAction
  /\ actions' = [actions EXCEPT ![a] =
       [kind |-> kind, rows |-> rows, archive |-> archive,
        blocked |-> \E i \in rows : Blocking(kind, i), results |-> {},
        status |-> "preview"]]
  /\ UNCHANGED <<archives, deviceUsers, people, requests, device, pc, job, tx, faults>>

\* Mutant: approve_action does not look at blocking_count.
MayBecomeBlocked(a, status) ==
  IF status = "approved"
  THEN actions[a].status = "preview"
  ELSE actions[a].status \in {"preview", "approved"}

\* What approve_action and cancel_action check.
MayBecome(a, status) ==
  IF status = "approved"
  THEN actions[a].status = "preview" /\ ~actions[a].blocked
  ELSE actions[a].status \in {"preview", "approved"}

ReadRequest(m, status, a) ==
  /\ requests[m] = NoRequest
  /\ actions[a] # NoAction
  /\ MayBecome(a, status)
  /\ requests' = [requests EXCEPT ![m] = <<status, a>>]
  /\ UNCHANGED <<tables, people, device, pc, job, tx, faults>>

Locked == UNION {claimed[w] : w \in Workers}

\* UPDATE ... WHERE id = ...: whatever the status has become meanwhile.
CommitRequest(m) ==
  /\ requests[m] # NoRequest
  /\ requests[m][2] \notin Locked
  /\ actions' = [actions EXCEPT ![requests[m][2]].status = requests[m][1]]
  /\ requests' = [requests EXCEPT ![m] = NoRequest]
  /\ UNCHANGED <<archives, deviceUsers, people, device, pc, job, tx, faults>>

-----------------------------------------------------------------------------
(***************************************************************************)
(* Execution.                                                              *)
(***************************************************************************)

Approved == {a \in Actions : actions[a] # NoAction /\ actions[a].status = "approved"}

\* Mutant: the query does not lock the rows.
ClaimableUnlocked == Approved

\* WHERE status = 'approved' ... FOR UPDATE SKIP LOCKED.
Claimable == Approved \ Locked

\* pending_actions: up to ClaimLimit of them, in a cycle that may find none.
Claim(w) ==
  /\ pc[w] = "idle"
  /\ \E batch \in SUBSET Claimable :
       /\ Cardinality(batch) <= ClaimLimit
       /\ batch = Claimable \/ Cardinality(batch) = ClaimLimit
       /\ claimed' = [claimed EXCEPT ![w] = batch]
  /\ pc' = [pc EXCEPT ![w] = "next"]
  /\ UNCHANGED <<tables, people, requests, device, job, txActions, txArchives,
                 txUsers, faults>>

BeginAction(w, a) ==
  /\ pc[w] = "next"
  /\ a \in claimed[w] \ Finished(w)
  /\ job' = [job EXCEPT ![w] =
       [action |-> a, left |-> actions[a].rows, row |-> {}, results |-> {}]]
  /\ inForce' = [inForce EXCEPT ![w] = granted]
  /\ pc' = [pc EXCEPT ![w] = "rows"]
  /\ UNCHANGED <<tables, granted, mapped, consents, requests, device, tx, faults>>

\* An adapter or the key ring is missing: the action fails without any row.
FailAction(w, a) ==
  /\ pc[w] = "next"
  /\ a \in claimed[w] \ Finished(w)
  /\ txActions' = [txActions EXCEPT ![w] = txActions[w] \cup {<<a, {}>>}]
  /\ UNCHANGED <<tables, people, requests, device, pc, job, claimed, txArchives,
                 txUsers, faults>>

Kind(w) == actions[job[w].action].kind

\* Mutant: the worker relies on the consents the preview has checked.
RecheckedAtPreview(w, i) == TRUE

\* The worker's own look at consent and mapping.
Rechecked(w, i) == MoveAllowed(Kind(w), i)

\* _target_has_conflict, with the eyes of w's transaction.
Conflict(w, i) == Kind(w) # "archive_export" /\ i \in deviceUsers \cup txUsers[w]

\* Mutant: a row that fails ends the loop over the rows.
EndRowAborts(w, i, outcome) ==
  /\ job' = [job EXCEPT ![w] =
       [job[w] EXCEPT !.left = IF outcome = "failed" THEN {} ELSE job[w].left \ {i},
                      !.row = {},
                      !.results = job[w].results \cup {<<i, outcome>>}]]
  /\ pc' = [pc EXCEPT ![w] = "rows"]

\* The row ends with this outcome.
EndRow(w, i, outcome) ==
  /\ job' = [job EXCEPT ![w] =
       [job[w] EXCEPT !.left = job[w].left \ {i}, !.row = {},
                      !.results = job[w].results \cup {<<i, outcome>>}]]
  /\ pc' = [pc EXCEPT ![w] = "rows"]

CheckRow(w, i) ==
  /\ pc[w] = "rows"
  /\ i \in job[w].left
  /\ IF ~Rechecked(w, i) \/ Conflict(w, i)
     THEN EndRow(w, i, "failed")
     ELSE /\ job' = [job EXCEPT ![w] = [job[w] EXCEPT !.row = {i}]]
          /\ pc' = [pc EXCEPT ![w] =
               IF Kind(w) \in {"migrate_users", "archive_export"} THEN "export" ELSE "push"]
  /\ UNCHANGED <<tables, people, requests, device, tx, faults>>

\* export_identity answered; _assert_exported_bundle_consent looks once more.
ExportRow(w, i) ==
  /\ pc[w] = "export"
  /\ i \in job[w].row
  /\ IF ~BundleAllowed(Kind(w), i)
     THEN EndRow(w, i, "failed")
     ELSE IF Kind(w) = "archive_export"
     THEN EndRow(w, i, "succeeded")
     ELSE pc' = [pc EXCEPT ![w] = "push"] /\ UNCHANGED job
  /\ UNCHANGED <<tables, people, requests, device, tx, faults>>

\* Mutant: an accepted dry run counts as the write.
DryRunCounts(w, i) ==
  /\ pc[w] = "push"
  /\ i \in job[w].row
  /\ i \notin enrolled
  /\ EndRow(w, i, "succeeded")
  /\ UNCHANGED <<tables, people, requests, device, tx, faults>>

\* External: the gateway accepts a dry run for an identity it does not have.
DryRun(w, i) ==
  /\ pc[w] = "push"
  /\ i \in job[w].row
  /\ i \notin enrolled
  /\ pc' = [pc EXCEPT ![w] = "write"]
  /\ UNCHANGED <<tables, people, requests, device, job, tx, faults>>

\* push(dry_run=False): the identity is on the device, and the answer says so
\* or never arrives.
WriteRow(w, i, answered) ==
  /\ pc[w] = "write"
  /\ i \in job[w].row
  /\ i \notin enrolled
  /\ enrolled' = enrolled \cup {i}
  /\ writes' = writes \cup {<<job[w].action, i>>}
  /\ EndRow(w, i, IF answered THEN "succeeded" ELSE "failed")
  /\ UNCHANGED <<tables, people, requests, inventory, tx, faults>>

\* The gateway cannot be reached, declines, or answers nonsense.
RowFails(w, i) ==
  /\ pc[w] \in {"export", "push", "write"}
  /\ i \in job[w].row
  /\ EndRow(w, i, "failed")
  /\ UNCHANGED <<tables, people, requests, device, tx, faults>>

\* After the rows an export stores its archive, the others read the user list
\* of the target again.
EndRows(w) ==
  /\ pc[w] = "rows"
  /\ job[w].left = {}
  /\ pc' = [pc EXCEPT ![w] = "refresh"]
  /\ UNCHANGED <<tables, people, requests, device, job, tx, faults>>

Moved(w) == {i \in Identities : <<i, "succeeded">> \in job[w].results}

\* The archive an export adds, and the one a complete restore marks.
ArchiveNews(w) ==
  LET action == actions[job[w].action]
  IN  IF Kind(w) = "archive_export" /\ Moved(w) # {} THEN {<<job[w].action, "ready">>}
      ELSE IF Kind(w) = "archive_restore" /\ Moved(w) = action.rows
      THEN {<<action.archive, "restored">>}
      ELSE {}

\* The transaction is gone, with its locks and everything it wrote.
RollBack(w) ==
  /\ pc' = [pc EXCEPT ![w] = "idle"]
  /\ job' = [job EXCEPT ![w] = NoJob]
  /\ claimed' = [claimed EXCEPT ![w] = {}]
  /\ txActions' = [txActions EXCEPT ![w] = {}]
  /\ txArchives' = [txArchives EXCEPT ![w] = {}]
  /\ txUsers' = [txUsers EXCEPT ![w] = {}]
  /\ UNCHANGED <<tables, people, requests, device>>

\* The action's results are flushed.  users is what _refresh_inventory added:
\* sync_device_users may raise between two users, and those before stay.
FinishAction(w, users) ==
  /\ pc[w] = "refresh"
  /\ Kind(w) = "archive_export" \/ inventory = "sound"
  /\ users \subseteq IF Kind(w) = "archive_export" THEN {} ELSE enrolled
  /\ txUsers' = [txUsers EXCEPT ![w] = txUsers[w] \cup users]
  /\ txArchives' = [txArchives EXCEPT ![w] = txArchives[w] \cup ArchiveNews(w)]
  /\ txActions' = [txActions EXCEPT ![w] =
       txActions[w] \cup {<<job[w].action, job[w].results>>}]
  /\ job' = [job EXCEPT ![w] = NoJob]
  /\ pc' = [pc EXCEPT ![w] = "next"]
  /\ UNCHANGED <<tables, people, requests, device, claimed, faults>>

\* The flush of the user list fails.  _refresh_inventory swallows the
\* exception but no savepoint guards it: the transaction is lost, the flush at
\* the end of execute_action raises and the cycle is rolled back.
RefreshBreaks(w) ==
  /\ pc[w] = "refresh"
  /\ Kind(w) # "archive_export"
  /\ inventory = "broken"
  /\ RollBack(w)
  /\ UNCHANGED faults

\* Mutant: an action with a failed row stays approved, to be tried again.
StatusRetried(results) ==
  IF \E r \in results : r[2] = "failed" THEN "approved" ELSE "succeeded"

\* _status_from_rows
StatusFromRows(results) ==
  LET outcomes == {r[2] : r \in results}
  IN  CASE outcomes = {"succeeded", "failed"} -> "partial"
        [] outcomes = {"succeeded"} -> "succeeded"
        [] OTHER -> "failed"

Commit(w) ==
  /\ pc[w] = "next"
  /\ claimed[w] = Finished(w)
  /\ actions' = [a \in Actions |->
       IF a \in claimed[w]
       THEN LET results == CHOOSE s \in SUBSET Results : <<a, s>> \in txActions[w]
            IN  [actions[a] EXCEPT !.status = StatusFromRows(results), !.results = results]
       ELSE actions[a]]
  /\ archives' = [a \in Actions |->
       IF \E s \in {"ready", "restored"} : <<a, s>> \in txArchives[w]
       THEN IF <<a, "restored">> \in txArchives[w] THEN "restored" ELSE "ready"
       ELSE archives[a]]
  /\ deviceUsers' = deviceUsers \cup txUsers[w]
  /\ pc' = [pc EXCEPT ![w] = "idle"]
  /\ claimed' = [claimed EXCEPT ![w] = {}]
  /\ txActions' = [txActions EXCEPT ![w] = {}]
  /\ txArchives' = [txArchives EXCEPT ![w] = {}]
  /\ txUsers' = [txUsers EXCEPT ![w] = {}]
  /\ UNCHANGED <<people, requests, device, job, faults>>

\* The worker dies, or the database fails or cancels its transaction.
Fault(w) ==
  /\ pc[w] # "idle"
  /\ faults < MaxFaults
  /\ faults' = faults + 1
  /\ RollBack(w)

Step(w) ==
  \/ Claim(w)
  \/ \E a \in Actions : BeginAction(w, a)
  \/ \E a \in Actions : FailAction(w, a)
  \/ \E i \in Identities : CheckRow(w, i)
  \/ \E i \in Identities : ExportRow(w, i)
  \/ \E i \in Identities : DryRun(w, i)
  \/ \E i \in Identities, answered \in BOOLEAN : WriteRow(w, i, answered)
  \/ \E i \in Identities : RowFails(w, i)
  \/ EndRows(w)
  \/ \E users \in SUBSET Identities : FinishAction(w, users)
  \/ RefreshBreaks(w)
  \/ Commit(w)

Next ==
  \/ \E i \in Identities, decision \in {"granted", "revoked"} : RecordConsent(i, decision)
  \/ \E side \in {"source", "target"}, i \in Identities : RequestDeletion(side, i)
  \/ \E side \in {"source", "target"}, i \in Identities : MapDeviceUser(side, i)
  \/ \E i \in Identities : Enrol(i)
  \/ SpoilInventory
  \/ PullInventory
  \/ \E a \in Actions, kind \in Kinds, rows \in SUBSET Identities,
        archive \in Actions \cup {NoAction} : Preview(a, kind, rows, archive)
  \/ \E m \in Admins, status \in {"approved", "cancelled"}, a \in Actions :
        ReadRequest(m, status, a)
  \/ \E m \in Admins : CommitRequest(m)
  \/ \E w \in Workers : Step(w)
  \/ \E w \in Workers : Fault(w)

Spec == Init /\ [][Next]_vars

\* Every worker process keeps looping.
FairSpec == Spec /\ \A w \in Workers : WF_vars(Step(w))

-----------------------------------------------------------------------------
(***************************************************************************)
(* Properties.                                                             *)
(***************************************************************************)

\* An action is executed by one worker at a time, none that is not approved in
\* the table, and none whose preview has blocking rows, whatever requests and
\* crashes come in between (pending_actions, approve_action).
ClaimsReviewed ==
  \A w \in Workers :
    /\ claimed[w] \subseteq {a \in Approved : ~actions[a].blocked}
    /\ \A v \in Workers \ {w} : claimed[v] \cap claimed[w] = {}

\* A row that is reported as succeeded has been done: the action wrote the
\* identity to the device, or it is in the archive that was committed with
\* the row.
SuccessIsReal ==
  \A a \in Actions : actions[a] # NoAction =>
    \A r \in actions[a].results : r[2] = "succeeded" =>
      IF actions[a].kind = "archive_export"
      THEN archives[a] # "none"
      ELSE <<a, r[1]>> \in writes

\* DEVICE_IDENTITY_LIFECYCLE.md: "The worker rechecks ... biometric consent at
\* execution time."  A consent that was withdrawn before the worker began the
\* action, after the preview was approved, stops the write of templates.
WithdrawnConsentStops ==
  [][\A w \in Workers, i \in Bundled :
       /\ job[w] # NoJob
       /\ <<job[w].action, i>> \in writes' \ writes
       /\ Kind(w) # "push_users"
       => i \in inForce[w]]_vars

\* Each of the rows has an outcome, and only one.
AllDecided(rows, results) ==
  /\ rows = {r[1] : r \in results}
  /\ \A r, s \in results : r[1] = s[1] => r = s

\* "Bulk jobs deliberately execute one identity at a time so one failure cannot
\* abort or hide the results of other rows" (DEVICE_IDENTITY_LIFECYCLE.md):
\* whatever becomes of a row, the results there are already stay, and the job ends
\* with its results in the transaction and an outcome of every row of the action,
\* unless the process or the database fails or the user list of the target cannot
\* be flushed.
ResultsKept ==
  [][\A w \in Workers :
       job[w] # NoJob /\ UNCHANGED faults /\ inventory = "sound" =>
         \/ /\ job'[w] # NoJob
            /\ job[w].results \subseteq job'[w].results
         \/ /\ <<job[w].action, job[w].results>> \in txActions'[w]
            /\ AllDecided(actions[job[w].action].rows, job[w].results)]_vars

\* An approved action is decided, or cancelled, in the end, unless the user list
\* of the target cannot be flushed.
ActionsDecided == \A a \in Actions : a \in Approved ~> a \notin Approved \/ inventory = "broken"

\* The parts of the inductive invariant.  What is approved, and what a request is
\* going to approve, had a preview without blocking rows.
RequestsReviewed ==
  /\ \A a \in Approved : ~actions[a].blocked
  /\ \A m \in Admins : requests[m] # NoRequest =>
       /\ actions[requests[m][2]] # NoAction
       /\ requests[m][1] = "approved" => ~actions[requests[m][2]].blocked

\* Past the worker's own checks, a row moves no templates whose consent was not
\* in force since the action began.
ConsentsKnown ==
  \A w \in Workers : job[w] # NoJob =>
    /\ granted \subseteq inForce[w]
    /\ \A i \in job[w].row \cap Bundled :
         pc[w] \in {"push", "write"} /\ Kind(w) # "push_users" => i \in inForce[w]

\* The results of a job and of an open transaction are as real as those of
\* committed actions.
WorkRecorded ==
  \A w \in Workers :
    /\ Finished(w) \subseteq claimed[w]
    /\ job[w] # NoJob =>
         \A i \in Moved(w) :
           Kind(w) # "archive_export" => <<job[w].action, i>> \in writes
    /\ \A t \in txActions[w] : \A r \in t[2] : r[2] = "succeeded" =>
         IF actions[t[1]].kind = "archive_export"
         THEN <<t[1], "ready">> \in txArchives[w]
         ELSE <<t[1], r[1]>> \in writes

\* A job has looked at some of its rows, at each once, and not at the others.
RowsCounted ==
  \A w \in Workers : job[w] # NoJob =>
    /\ actions[job[w].action].rows = job[w].left \cup {r[1] : r \in job[w].results}
    /\ job[w].left \cap {r[1] : r \in job[w].results} = {}
    /\ \A r, s \in job[w].results : r[1] = s[1] => r = s
    /\ job[w].row \subseteq job[w].left /\ \A i, j \in job[w].row : i = j
    /\ pc[w] = "refresh" => job[w].left = {}

\* What the approvals, consent checks and write results of the lifecycle have in
\* common: inductive together with TypeOK.
IdentityInv ==
  /\ ClaimsReviewed
  /\ RequestsReviewed
  /\ ConsentsKnown
  /\ RowsCounted
  /\ WorkRecorded
  /\ SuccessIsReal

-----------------------------------------------------------------------------
(***************************************************************************)
(* What the source says and the program does not keep.                     *)
(***************************************************************************)

\* "only unstarted device identity actions can be cancelled" (cancel_action):
\* a cancelled action has not written anything, and nothing is known of its rows.
CancelledUnstarted ==
  \A a \in Actions : actions[a] # NoAction /\ actions[a].status = "cancelled" =>
    actions[a].results = {} /\ \A i \in Identities : <<a, i>> \notin writes

=============================================================================

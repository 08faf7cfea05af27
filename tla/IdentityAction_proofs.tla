------------------------ MODULE IdentityAction_proofs ------------------------
(***************************************************************************)
(* Proofs about IdentityAction for any number of workers, administrators,  *)
(* actions and identities.                                                 *)
(*                                                                         *)
(* TypeOK and IdentityInv are inductive together.  The argument turns on   *)
(* three facts: an action, once previewed, keeps its kind, rows and        *)
(* blocking count (ActionsKept); a claimed row is written by nobody but    *)
(* the worker that claimed it; and whatever a job reports it has added to  *)
(* the device's history, or to the archives of its transaction, before.    *)
(***************************************************************************)
EXTENDS IdentityAction, TLAPS

\* What no step changes of an action that has been previewed.
ActionsKept ==
  \A a \in Actions : actions[a] # NoAction =>
    /\ actions'[a] # NoAction
    /\ actions'[a].kind = actions[a].kind
    /\ actions'[a].rows = actions[a].rows
    /\ actions'[a].blocked = actions[a].blocked

LEMMA InitType == Init => TypeOK /\ IdentityInv
<1> SUFFICES ASSUME Init PROVE TypeOK /\ IdentityInv
  OBVIOUS
<1> USE DEF Init, Finished, Moved
<1>1. TypeOK
  BY NumbersAssumption, NoneAssumption DEF TypeOK
<1>2. ClaimsReviewed /\ RequestsReviewed /\ ConsentsKnown /\ SuccessIsReal
  BY DEF ClaimsReviewed, RequestsReviewed, ConsentsKnown, SuccessIsReal, Approved
<1>3. RowsCounted /\ WorkRecorded
  BY DEF RowsCounted, WorkRecorded
<1>4. QED
  BY <1>1, <1>2, <1>3 DEF IdentityInv

\* An action that a worker has claimed is a row of the table.
LEMMA ClaimedAction ==
  ASSUME TypeOK, ClaimsReviewed, NEW w \in Workers, NEW a \in claimed[w]
  PROVE  a \in Actions /\ actions[a] \in Action /\ actions[a] # NoAction
         /\ a \in Approved /\ a \in Locked
BY NoneAssumption DEF TypeOK, ClaimsReviewed, Approved, Locked

LEMMA JobAction ==
  ASSUME TypeOK, ClaimsReviewed, NEW w \in Workers, job[w] # NoJob
  PROVE  /\ job[w] \in Job
         /\ job[w].action \in claimed[w]
         /\ job[w].action \in Actions
         /\ actions[job[w].action] \in Action
         /\ actions[job[w].action] # NoAction
<1>1. job[w] \in Job /\ job[w].action \in claimed[w]
  BY DEF TypeOK
<1>2. QED
  BY <1>1, ClaimedAction

\* The result a commit writes into a claimed action.
LEMMA CommittedAction ==
  ASSUME TypeOK, ClaimsReviewed, NEW w \in Workers, NEW a \in claimed[w],
         a \in Finished(w),
         NEW results,
         results = CHOOSE s \in SUBSET Results : <<a, s>> \in txActions[w]
  PROVE  /\ results \in SUBSET Results
         /\ <<a, results>> \in txActions[w]
         /\ [actions[a] EXCEPT !.status = StatusFromRows(results),
                               !.results = results] \in Action
<1>1. \E s \in SUBSET Results : <<a, s>> \in txActions[w]
  <2>1. PICK t \in txActions[w] : a = t[1]
    BY DEF Finished
  <2>2. t = <<t[1], t[2]>> /\ t[2] \in SUBSET Results
    BY DEF TypeOK
  <2>3. QED
    BY <2>1, <2>2
<1>2. results \in SUBSET Results /\ <<a, results>> \in txActions[w]
  BY <1>1
<1>3. StatusFromRows(results) \in {"partial", "succeeded", "failed"}
  BY DEF StatusFromRows
<1>4. actions[a] \in Action
  BY ClaimedAction
<1>5. QED
  BY <1>2, <1>3, <1>4 DEF Action

LEMMA StepKeepsActions == TypeOK /\ ClaimsReviewed /\ [Next]_vars => ActionsKept
<1> SUFFICES ASSUME TypeOK, ClaimsReviewed, [Next]_vars,
                    NEW a \in Actions, actions[a] # NoAction
             PROVE  /\ actions'[a] # NoAction
                    /\ actions'[a].kind = actions[a].kind
                    /\ actions'[a].rows = actions[a].rows
                    /\ actions'[a].blocked = actions[a].blocked
  BY DEF ActionsKept
<1>0. actions[a] \in Action
  BY DEF TypeOK
<1>1. ASSUME NEW b \in Actions, NEW kind \in Kinds, NEW rows \in SUBSET Identities,
             NEW archive \in Actions \cup {NoAction}, Preview(b, kind, rows, archive)
      PROVE  actions'[a] = actions[a]
  BY <1>1 DEF Preview, TypeOK
<1>2. ASSUME NEW m \in Admins, CommitRequest(m)
      PROVE  \/ actions'[a] = actions[a]
             \/ \E status \in {"approved", "cancelled"} :
                  actions'[a] = [actions[a] EXCEPT !.status = status]
  BY <1>2 DEF CommitRequest, TypeOK
<1>3. ASSUME NEW w \in Workers, Commit(w)
      PROVE  \/ actions'[a] = actions[a]
             \/ \E s, r : /\ actions'[a] = [actions[a] EXCEPT !.status = s, !.results = r]
                          /\ actions'[a] \in Action
  <2>1. CASE a \in claimed[w]
    <3> DEFINE r == CHOOSE s \in SUBSET Results : <<a, s>> \in txActions[w]
    <3>1. actions'[a] = [actions[a] EXCEPT !.status = StatusFromRows(r), !.results = r]
      BY <1>3, <2>1 DEF Commit
    <3>2. a \in Finished(w)
      BY <1>3, <2>1 DEF Commit
    <3>3. [actions[a] EXCEPT !.status = StatusFromRows(r), !.results = r] \in Action
      BY <2>1, <3>2, CommittedAction
    <3>4. QED
      BY <3>1, <3>3
  <2>2. CASE a \notin claimed[w]
    BY <1>3, <2>2 DEF Commit
  <2>3. QED
    BY <2>1, <2>2
<1>4. CASE UNCHANGED actions
  BY <1>4
<1>5. ASSUME NEW s \in {"approved", "cancelled"}
      PROVE  [actions[a] EXCEPT !.status = s] \in Action
  BY <1>0 DEF Action
<1>6. NoAction \notin Action
  BY NoneAssumption
<1>7. QED
  BY <1>0, <1>1, <1>2, <1>3, <1>4, <1>5, <1>6
  DEF Next, Step, RecordConsent, RequestDeletion, MapDeviceUser, Enrol,
      PullInventory, SpoilInventory, ReadRequest, Claim, BeginAction, FailAction, CheckRow,
      ExportRow, DryRun, WriteRow, RowFails, EndRows, FinishAction,
      RefreshBreaks, RollBack, Fault, vars, tables, Action

-----------------------------------------------------------------------------
(***************************************************************************)
(* Type correctness.                                                       *)
(***************************************************************************)

\* Kinds and archives of the table stay what they are when no row is added.
LEMMA ArchiveColumn ==
  ASSUME TypeOK, actions' \in [Actions -> Action \cup {NoAction}],
         \A a \in Actions : actions'[a] # NoAction =>
           /\ actions[a] # NoAction
           /\ actions'[a].kind = actions[a].kind
           /\ actions'[a].archive = actions[a].archive
  PROVE  \A a \in Actions : actions'[a] # NoAction =>
           (actions'[a].archive \in Actions <=> actions'[a].kind = "archive_restore")
BY DEF TypeOK

LEMMA RollBackType ==
  ASSUME TypeOK, NEW w \in Workers, RollBack(w),
         UNCHANGED people, faults' \in 0 .. MaxFaults
  PROVE  TypeOK'
<1> USE DEF TypeOK, RollBack, tables, people, device, Finished
<1>1. job'[w] = NoJob /\ pc'[w] = "idle" /\ claimed'[w] = {} /\ txActions'[w] = {}
  OBVIOUS
<1>2. \A v \in Workers \ {w} :
        /\ job'[v] = job[v] /\ pc'[v] = pc[v]
        /\ claimed'[v] = claimed[v] /\ txActions'[v] = txActions[v]
  OBVIOUS
<1>3. QED
  BY <1>1, <1>2

LEMMA EndRowType ==
  ASSUME TypeOK, ClaimsReviewed, NEW w \in Workers, NEW i \in Identities,
         NEW outcome \in {"succeeded", "failed"},
         pc[w] \in {"rows", "export", "push", "write"}, EndRow(w, i, outcome)
  PROVE  /\ job' \in [Workers -> Job \cup {NoJob}]
         /\ pc' \in [Workers -> {"idle", "next", "rows", "export", "push", "write", "refresh"}]
         /\ job'[w] \in Job /\ job'[w] # NoJob
         /\ job'[w].action = job[w].action
         /\ job'[w].row = {}
         /\ job'[w].results = job[w].results \cup {<<i, outcome>>}
         /\ pc'[w] = "rows"
         /\ \A v \in Workers \ {w} : job'[v] = job[v] /\ pc'[v] = pc[v]
<1>1. job[w] \in Job
  BY DEF TypeOK
<1>2. <<i, outcome>> \in Results
  BY DEF Results
<1>3. [job[w] EXCEPT !.left = job[w].left \ {i}, !.row = {},
                     !.results = job[w].results \cup {<<i, outcome>>}] \in Job
  BY <1>1, <1>2 DEF Job
<1>4. QED
  BY <1>1, <1>3, NoneAssumption DEF TypeOK, EndRow, Job

\* What every step of a worker on its job leaves alone.
OthersKept ==
  UNCHANGED <<actions, archives, deviceUsers, requests, granted, mapped, consents,
              claimed, faults, inventory>>

\* A step of w on its job, transaction and state keeps the shape.
LEMMA WorkerType ==
  ASSUME TypeOK, NEW w \in Workers, OthersKept,
         inForce' \in [Workers -> SUBSET Identities],
         enrolled' \subseteq Identities,
         writes' \subseteq Actions \X Identities,
         job' \in [Workers -> Job \cup {NoJob}],
         pc' \in [Workers -> {"idle", "next", "rows", "export", "push", "write", "refresh"}],
         txActions' \in [Workers -> SUBSET (Actions \X SUBSET Results)],
         txArchives' \in [Workers -> SUBSET (Actions \X {"ready", "restored"})],
         txUsers' \in [Workers -> SUBSET Identities],
         \A v \in Workers \ {w} :
           job'[v] = job[v] /\ pc'[v] = pc[v] /\ txActions'[v] = txActions[v],
         pc'[w] # "idle",
         (pc'[w] = "next") <=> (job'[w] = NoJob),
         job'[w] # NoJob =>
           /\ job'[w].action \in claimed[w] \ Finished(w)
           /\ txActions'[w] = txActions[w]
  PROVE  TypeOK'
BY DEF TypeOK, Finished, OthersKept

\* The same for a step that ends the row w is at.
LEMMA RowEndType ==
  ASSUME TypeOK, ClaimsReviewed, NEW w \in Workers, NEW i \in Identities,
         NEW outcome \in {"succeeded", "failed"}, EndRow(w, i, outcome),
         pc[w] \in {"rows", "export", "push", "write"}, OthersKept,
         UNCHANGED <<inForce, txActions, txArchives, txUsers>>,
         enrolled' \subseteq Identities,
         writes' \subseteq Actions \X Identities
  PROVE  TypeOK'
<1>1. job[w] # NoJob /\ job[w].action \in claimed[w] \ Finished(w)
  BY DEF TypeOK
<1>2. /\ inForce' \in [Workers -> SUBSET Identities]
      /\ txActions' \in [Workers -> SUBSET (Actions \X SUBSET Results)]
      /\ txArchives' \in [Workers -> SUBSET (Actions \X {"ready", "restored"})]
      /\ txUsers' \in [Workers -> SUBSET Identities]
  BY DEF TypeOK
<1>3. QED
  BY <1>1, <1>2, EndRowType, WorkerType

LEMMA CommitType ==
  ASSUME TypeOK, ClaimsReviewed, NEW w \in Workers, Commit(w)
  PROVE  TypeOK'
<1>1. \A a \in Actions : a \in claimed[w] => a \in Finished(w)
  BY DEF Commit
<1>2. ASSUME NEW a \in Actions
      PROVE  /\ actions'[a] \in Action \cup {NoAction}
             /\ actions'[a] # NoAction =>
                  /\ actions[a] # NoAction
                  /\ actions'[a].kind = actions[a].kind
                  /\ actions'[a].archive = actions[a].archive
  <2>1. CASE a \in claimed[w]
    <3> DEFINE r == CHOOSE s \in SUBSET Results : <<a, s>> \in txActions[w]
    <3>1. actions'[a] = [actions[a] EXCEPT !.status = StatusFromRows(r), !.results = r]
      BY <2>1 DEF Commit
    <3>2. [actions[a] EXCEPT !.status = StatusFromRows(r), !.results = r] \in Action
      BY <1>1, <2>1, CommittedAction
    <3>3. actions[a] \in Action /\ actions[a] # NoAction
      BY <2>1, ClaimedAction
    <3>4. QED
      BY <3>1, <3>2, <3>3 DEF Action
  <2>2. CASE a \notin claimed[w]
    BY <2>2 DEF Commit, TypeOK
  <2>3. QED
    BY <2>1, <2>2
<1>3. actions' \in [Actions -> Action \cup {NoAction}]
  BY <1>2 DEF Commit
<1>4. \A a \in Actions : actions'[a] # NoAction =>
        (actions'[a].archive \in Actions <=> actions'[a].kind = "archive_restore")
  BY <1>2, <1>3, ArchiveColumn
<1>5. archives' \in [Actions -> {"none", "ready", "restored"}]
  BY DEF Commit, TypeOK
<1>6. deviceUsers' \subseteq Identities
  BY DEF Commit, TypeOK
<1>7. \A v \in Workers :
        /\ pc'[v] = "idle" => claimed'[v] = {} /\ txActions'[v] = {}
        /\ (pc'[v] \in {"idle", "next"}) <=> (job'[v] = NoJob)
        /\ job'[v] # NoJob => job'[v].action \in claimed'[v] \ Finished(v)'
  BY DEF Commit, TypeOK, Finished
<1>8. QED
  BY <1>3, <1>4, <1>5, <1>6, <1>7 DEF Commit, TypeOK, people, device

LEMMA PreviewType ==
  ASSUME TypeOK, NEW a \in Actions, NEW kind \in Kinds, NEW rows \in SUBSET Identities,
         NEW archive \in Actions \cup {NoAction}, Preview(a, kind, rows, archive)
  PROVE  TypeOK'
<1> DEFINE new == [kind |-> kind, rows |-> rows, archive |-> archive,
                   blocked |-> \E i \in rows : Blocking(kind, i), results |-> {},
                   status |-> "preview"]
<1>1. actions' = [actions EXCEPT ![a] = new]
  BY DEF Preview
<1>2. (\E i \in rows : Blocking(kind, i)) \in BOOLEAN
  OBVIOUS
<1>3. new \in Action
  BY <1>2 DEF Action
<1>4. archive \in Actions <=> kind = "archive_restore"
  BY NoneAssumption DEF Preview
<1>5. new.archive = archive /\ new.kind = kind
  OBVIOUS
<1> HIDE DEF new
<1>6. actions' \in [Actions -> Action \cup {NoAction}]
  BY <1>1, <1>3 DEF TypeOK
<1>7. \A b \in Actions : actions'[b] # NoAction =>
        (actions'[b].archive \in Actions <=> actions'[b].kind = "archive_restore")
  BY <1>1, <1>4, <1>5 DEF TypeOK
<1>8. QED
  BY <1>6, <1>7 DEF Preview, TypeOK, people, device, tx, Finished

LEMMA CommitRequestType ==
  ASSUME TypeOK, RequestsReviewed, NEW m \in Admins, CommitRequest(m)
  PROVE  TypeOK'
<1> DEFINE a == requests[m][2]
           s == requests[m][1]
<1>1. a \in Actions /\ s \in {"approved", "cancelled"}
  BY DEF CommitRequest, TypeOK
<1>2. actions[a] # NoAction
  BY DEF CommitRequest, RequestsReviewed
<1>3. actions[a] \in Action
  BY <1>1, <1>2 DEF TypeOK
<1>4. [actions[a] EXCEPT !.status = s] \in Action
  BY <1>1, <1>3 DEF Action
<1>5. actions' = [actions EXCEPT ![a] = [actions[a] EXCEPT !.status = s]]
  BY DEF CommitRequest
<1>6. actions' \in [Actions -> Action \cup {NoAction}]
  BY <1>1, <1>4, <1>5 DEF TypeOK
<1>7. /\ [actions[a] EXCEPT !.status = s].archive = actions[a].archive
      /\ [actions[a] EXCEPT !.status = s].kind = actions[a].kind
  BY <1>3 DEF Action
<1> HIDE DEF a, s
<1>8. \A b \in Actions : actions'[b] # NoAction =>
        /\ actions[b] # NoAction
        /\ actions'[b].kind = actions[b].kind
        /\ actions'[b].archive = actions[b].archive
  BY <1>1, <1>2, <1>5, <1>7 DEF TypeOK
<1>9. \A b \in Actions : actions'[b] # NoAction =>
        (actions'[b].archive \in Actions <=> actions'[b].kind = "archive_restore")
  BY <1>6, <1>8, ArchiveColumn
<1>10. QED
  BY <1>6, <1>9 DEF CommitRequest, TypeOK, people, device, tx, Finished

LEMMA StepType ==
  ASSUME TypeOK, ClaimsReviewed, WorkRecorded, NEW w \in Workers, Step(w)
  PROVE  TypeOK'
<1> USE DEF tables, people, device, tx
<1>1. CASE Claim(w)
  <2>1. PICK batch \in SUBSET Claimable : claimed' = [claimed EXCEPT ![w] = batch]
    BY <1>1 DEF Claim
  <2>2. batch \subseteq Actions /\ pc[w] = "idle" /\ job[w] = NoJob
    BY <1>1 DEF Claim, Claimable, Approved, TypeOK
  <2>3. QED
    BY <1>1, <2>1, <2>2 DEF Claim, TypeOK, Finished
<1>2. ASSUME NEW a \in Actions, BeginAction(w, a)
      PROVE  TypeOK'
  <2> DEFINE new == [action |-> a, left |-> actions[a].rows, row |-> {}, results |-> {}]
  <2>1. a \in claimed[w] /\ a \notin Finished(w)
    BY <1>2 DEF BeginAction
  <2>2. actions[a] \in Action
    BY <2>1, ClaimedAction
  <2>3. new \in Job /\ new # NoJob /\ new.action = a
    BY <2>2, NoneAssumption DEF Job, Action
  <2>4. job' = [job EXCEPT ![w] = new]
    BY <1>2 DEF BeginAction
  <2> HIDE DEF new
  <2>5. job' \in [Workers -> Job \cup {NoJob}] /\ job'[w] = new
        /\ \A v \in Workers \ {w} : job'[v] = job[v]
    BY <2>3, <2>4 DEF TypeOK
  <2>6. inForce' \in [Workers -> SUBSET Identities]
    BY <1>2 DEF BeginAction, TypeOK
  <2>7. /\ pc' \in [Workers -> {"idle", "next", "rows", "export", "push", "write", "refresh"}]
        /\ pc'[w] = "rows"
        /\ \A v \in Workers \ {w} : pc'[v] = pc[v]
    BY <1>2 DEF BeginAction, TypeOK
  <2>8. job'[w] # NoJob /\ job'[w].action \in claimed[w] \ Finished(w)
    BY <2>1, <2>3, <2>5
  <2>9. OthersKept /\ UNCHANGED <<enrolled, writes, txActions, txArchives, txUsers>>
    BY <1>2 DEF BeginAction, OthersKept
  <2>10. QED
    BY <2>5, <2>6, <2>7, <2>8, <2>9, WorkerType DEF TypeOK
<1>3. ASSUME NEW a \in Actions, FailAction(w, a)
      PROVE  TypeOK'
  <2>1. job[w] = NoJob
    BY <1>3 DEF FailAction, TypeOK
  <2>2. txActions' \in [Workers -> SUBSET (Actions \X SUBSET Results)]
        /\ \A v \in Workers \ {w} : txActions'[v] = txActions[v]
    BY <1>3 DEF FailAction, TypeOK
  <2>3. /\ OthersKept /\ pc[w] = "next"
        /\ UNCHANGED <<inForce, enrolled, writes, job, pc, txArchives, txUsers>>
    BY <1>3 DEF FailAction, OthersKept
  <2>4. QED
    BY <2>1, <2>2, <2>3, WorkerType DEF TypeOK
<1>4. ASSUME NEW i \in Identities, CheckRow(w, i)
      PROVE  TypeOK'
  <2>1. job[w] # NoJob /\ job[w].action \in claimed[w] \ Finished(w) /\ job[w] \in Job
    BY <1>4 DEF CheckRow, TypeOK
  <2>5. /\ OthersKept /\ pc[w] = "rows"
        /\ UNCHANGED <<inForce, enrolled, writes, txActions, txArchives, txUsers>>
    BY <1>4 DEF CheckRow, OthersKept
  <2>2. CASE EndRow(w, i, "failed")
    BY <2>2, <2>5, RowEndType DEF TypeOK
  <2>3. CASE /\ job' = [job EXCEPT ![w] = [job[w] EXCEPT !.row = {i}]]
             /\ pc' = [pc EXCEPT ![w] =
                  IF Kind(w) \in {"migrate_users", "archive_export"}
                  THEN "export" ELSE "push"]
    <3>1. [job[w] EXCEPT !.row = {i}] \in Job
          /\ [job[w] EXCEPT !.row = {i}].action = job[w].action
      BY <2>1 DEF Job
    <3>2. /\ job' \in [Workers -> Job \cup {NoJob}]
          /\ job'[w] # NoJob /\ job'[w].action = job[w].action
          /\ pc'[w] \in {"export", "push"}
      BY <2>3, <3>1, NoneAssumption DEF TypeOK
    <3>3. /\ pc' \in [Workers -> {"idle", "next", "rows", "export", "push", "write", "refresh"}]
          /\ \A v \in Workers \ {w} : job'[v] = job[v] /\ pc'[v] = pc[v]
      BY <2>3 DEF TypeOK
    <3>4. QED
      BY <2>1, <2>5, <3>2, <3>3, WorkerType DEF TypeOK
  <2>4. QED
    BY <1>4, <2>2, <2>3 DEF CheckRow
<1>5. ASSUME NEW i \in Identities, ExportRow(w, i)
      PROVE  TypeOK'
  <2>1. job[w] # NoJob /\ job[w].action \in claimed[w] \ Finished(w)
    BY <1>5 DEF ExportRow, TypeOK
  <2>4. /\ OthersKept /\ pc[w] = "export"
        /\ UNCHANGED <<inForce, enrolled, writes, txActions, txArchives, txUsers>>
    BY <1>5 DEF ExportRow, OthersKept
  <2>2. ASSUME NEW outcome \in {"succeeded", "failed"}, EndRow(w, i, outcome)
        PROVE  TypeOK'
    BY <2>2, <2>4, RowEndType DEF TypeOK
  <2>3. CASE pc' = [pc EXCEPT ![w] = "push"] /\ UNCHANGED job
    BY <2>1, <2>3, <2>4, WorkerType DEF TypeOK
  <2>5. QED
    BY <1>5, <2>2, <2>3 DEF ExportRow
<1>6. ASSUME NEW i \in Identities, DryRun(w, i)
      PROVE  TypeOK'
  <2>1. job[w] # NoJob /\ job[w].action \in claimed[w] \ Finished(w)
    BY <1>6 DEF DryRun, TypeOK
  <2>2. /\ OthersKept
        /\ UNCHANGED <<inForce, enrolled, writes, job, txActions, txArchives, txUsers>>
        /\ pc' = [pc EXCEPT ![w] = "write"]
    BY <1>6 DEF DryRun, OthersKept
  <2>3. QED
    BY <2>1, <2>2, WorkerType DEF TypeOK
<1>7. ASSUME NEW i \in Identities, NEW answered \in BOOLEAN, WriteRow(w, i, answered)
      PROVE  TypeOK'
  <2>1. job[w] # NoJob /\ job[w].action \in claimed[w] \ Finished(w)
        /\ job[w].action \in Actions
    BY <1>7 DEF WriteRow, TypeOK
  <2>2. PICK outcome \in {"succeeded", "failed"} : EndRow(w, i, outcome)
    BY <1>7 DEF WriteRow
  <2>3. enrolled' \subseteq Identities /\ writes' \subseteq Actions \X Identities
    BY <1>7, <2>1 DEF WriteRow, TypeOK
  <2>4. OthersKept /\ pc[w] = "write" /\ UNCHANGED <<inForce, txActions, txArchives, txUsers>>
    BY <1>7 DEF WriteRow, OthersKept
  <2>5. QED
    BY <2>2, <2>3, <2>4, RowEndType
<1>8. ASSUME NEW i \in Identities, RowFails(w, i)
      PROVE  TypeOK'
  <2>1. /\ OthersKept /\ EndRow(w, i, "failed")
        /\ pc[w] \in {"export", "push", "write"}
        /\ UNCHANGED <<inForce, enrolled, writes, txActions, txArchives, txUsers>>
    BY <1>8 DEF RowFails, OthersKept
  <2>2. QED
    BY <2>1, RowEndType DEF TypeOK
<1>9. CASE EndRows(w)
  <2>1. job[w] # NoJob /\ job[w].action \in claimed[w] \ Finished(w)
    BY <1>9 DEF EndRows, TypeOK
  <2>2. /\ OthersKept
        /\ UNCHANGED <<inForce, enrolled, writes, job, txActions, txArchives, txUsers>>
        /\ pc' = [pc EXCEPT ![w] = "refresh"]
    BY <1>9 DEF EndRows, OthersKept
  <2>3. QED
    BY <2>1, <2>2, WorkerType DEF TypeOK
<1>10. ASSUME NEW users \in SUBSET Identities, FinishAction(w, users)
       PROVE  TypeOK'
  <2>1. job[w] # NoJob
    BY <1>10 DEF FinishAction, TypeOK
  <2>2. /\ job[w] \in Job /\ job[w].action \in Actions
        /\ actions[job[w].action] # NoAction
    BY <2>1, JobAction
  <2>3. ArchiveNews(w) \subseteq Actions \X {"ready", "restored"}
    <3>1. Kind(w) = "archive_restore" => actions[job[w].action].archive \in Actions
      BY <2>2 DEF Kind, TypeOK
    <3>2. QED
      BY <2>2, <3>1 DEF ArchiveNews
  <2>4. job[w].results \in SUBSET Results
    BY <2>2 DEF Job
  <2>5. /\ txActions' \in [Workers -> SUBSET (Actions \X SUBSET Results)]
        /\ \A v \in Workers \ {w} : txActions'[v] = txActions[v]
    BY <1>10, <2>2, <2>4 DEF FinishAction, TypeOK
  <2>6. txArchives' \in [Workers -> SUBSET (Actions \X {"ready", "restored"})]
    BY <1>10, <2>3 DEF FinishAction, TypeOK
  <2>7. txUsers' \in [Workers -> SUBSET Identities]
    BY <1>10 DEF FinishAction, TypeOK
  <2>8. /\ OthersKept /\ UNCHANGED <<inForce, enrolled, writes>>
        /\ job' = [job EXCEPT ![w] = NoJob] /\ pc' = [pc EXCEPT ![w] = "next"]
    BY <1>10 DEF FinishAction, OthersKept
  <2>9. QED
    BY <2>5, <2>6, <2>7, <2>8, WorkerType DEF TypeOK
<1>11. CASE RefreshBreaks(w)
  BY <1>11, RollBackType DEF RefreshBreaks, RollBack, TypeOK
<1>12. CASE Commit(w)
  BY <1>12, CommitType
<1>13. QED
  BY <1>1, <1>2, <1>3, <1>4, <1>5, <1>6, <1>7, <1>8, <1>9, <1>10, <1>11, <1>12 DEF Step

LEMMA NextType ==
  ASSUME TypeOK, ClaimsReviewed, RequestsReviewed, WorkRecorded, [Next]_vars
  PROVE  TypeOK'
<1> USE NumbersAssumption DEF tables, people, device, tx
<1>1. ASSUME NEW i \in Identities, NEW decision \in {"granted", "revoked"},
             RecordConsent(i, decision)
      PROVE  TypeOK'
  BY <1>1 DEF RecordConsent, TypeOK, Finished
<1>2. ASSUME NEW side \in {"source", "target"}, NEW i \in Identities,
             RequestDeletion(side, i) \/ MapDeviceUser(side, i)
      PROVE  TypeOK'
  BY <1>2 DEF RequestDeletion, MapDeviceUser, TypeOK, Finished
<1>3. ASSUME NEW i \in Identities, Enrol(i)
      PROVE  TypeOK'
  BY <1>3 DEF Enrol, TypeOK, Finished
<1>4. CASE PullInventory \/ SpoilInventory
  BY <1>4, NumbersAssumption DEF PullInventory, SpoilInventory, TypeOK, Finished
<1>5. ASSUME NEW m \in Admins, NEW status \in {"approved", "cancelled"},
             NEW a \in Actions, ReadRequest(m, status, a)
      PROVE  TypeOK'
  BY <1>5 DEF ReadRequest, TypeOK, Finished
<1>6. ASSUME NEW w \in Workers, Fault(w)
      PROVE  TypeOK'
  <2>1. RollBack(w) /\ faults' \in 0 .. MaxFaults
    BY <1>6 DEF Fault, TypeOK
  <2>2. UNCHANGED people
    BY <2>1 DEF RollBack
  <2>3. QED
    BY <2>1, <2>2, RollBackType
<1>7. CASE UNCHANGED vars
  BY <1>7 DEF vars, TypeOK, Finished
<1>8. QED
  BY <1>1, <1>2, <1>3, <1>4, <1>5, <1>6, <1>7, PreviewType, CommitRequestType,
     StepType DEF Next

-----------------------------------------------------------------------------
(***************************************************************************)
(* Reviews and claims.                                                     *)
(***************************************************************************)

\* Everything but previews, requests, claims and the ends of transactions
\* leaves the table, the requests and the claims alone.
LEMMA QuietStep ==
  ASSUME [Next]_vars
  PROVE  \/ UNCHANGED <<actions, requests, claimed>>
         \/ \E a \in Actions, kind \in Kinds, rows \in SUBSET Identities,
               archive \in Actions \cup {NoAction} : Preview(a, kind, rows, archive)
         \/ \E m \in Admins, status \in {"approved", "cancelled"}, a \in Actions :
               ReadRequest(m, status, a)
         \/ \E m \in Admins : CommitRequest(m)
         \/ \E w \in Workers : Claim(w) \/ Commit(w) \/ RollBack(w)
<1> DEFINE Quiet == UNCHANGED <<actions, requests, claimed>>
<1>1. ASSUME NEW w \in Workers, Step(w)
      PROVE  Quiet \/ Claim(w) \/ Commit(w) \/ RollBack(w)
  <2> USE DEF tables, tx
  <2>1. ASSUME NEW a \in Actions, BeginAction(w, a) \/ FailAction(w, a)
        PROVE  Quiet
    BY <2>1 DEF BeginAction, FailAction
  <2>2. ASSUME NEW i \in Identities,
               CheckRow(w, i) \/ ExportRow(w, i) \/ DryRun(w, i) \/ RowFails(w, i)
        PROVE  Quiet
    BY <2>2 DEF CheckRow, ExportRow, DryRun, RowFails
  <2>3. ASSUME NEW i \in Identities, NEW answered \in BOOLEAN, WriteRow(w, i, answered)
        PROVE  Quiet
    BY <2>3 DEF WriteRow
  <2>4. ASSUME NEW users \in SUBSET Identities, FinishAction(w, users)
        PROVE  Quiet
    BY <2>4 DEF FinishAction
  <2>5. CASE EndRows(w)
    BY <2>5 DEF EndRows
  <2> HIDE DEF Quiet
  <2>6. QED
    BY <1>1, <2>1, <2>2, <2>3, <2>4, <2>5 DEF Step, RefreshBreaks
<1>2. ASSUME NEW i \in Identities, NEW decision \in {"granted", "revoked"},
             RecordConsent(i, decision)
      PROVE  Quiet
  BY <1>2 DEF RecordConsent, tables, tx
<1>3. ASSUME NEW side \in {"source", "target"}, NEW i \in Identities,
             RequestDeletion(side, i) \/ MapDeviceUser(side, i) \/ Enrol(i)
      PROVE  Quiet
  BY <1>3 DEF RequestDeletion, MapDeviceUser, Enrol, tables, tx
<1>4. CASE PullInventory \/ SpoilInventory \/ UNCHANGED vars
  BY <1>4 DEF PullInventory, SpoilInventory, vars, tables, tx
<1> HIDE DEF Quiet
<1>5. QED
  BY <1>1, <1>2, <1>3, <1>4 DEF Next, Fault, Quiet

LEMMA NextReviewed ==
  ASSUME TypeOK, ClaimsReviewed, RequestsReviewed, ActionsKept, [Next]_vars
  PROVE  ClaimsReviewed' /\ RequestsReviewed'
<1>1. ASSUME NEW a \in Actions, NEW kind \in Kinds, NEW rows \in SUBSET Identities,
             NEW archive \in Actions \cup {NoAction}, Preview(a, kind, rows, archive)
      PROVE  ClaimsReviewed' /\ RequestsReviewed'
  <2>1. /\ actions[a] = NoAction
        /\ actions'[a].status = "preview"
        /\ \A b \in Actions \ {a} : actions'[b] = actions[b]
        /\ claimed' = claimed /\ requests' = requests
    BY <1>1 DEF Preview, TypeOK, people, tx
  <2>2. Approved' = Approved
    BY <2>1 DEF Approved
  <2>3. a \notin Approved
    BY <2>1 DEF Approved
  <2>4. ClaimsReviewed'
    BY <2>1, <2>2, <2>3 DEF ClaimsReviewed, Approved
  <2>5. ASSUME NEW m \in Admins, requests[m] # NoRequest
        PROVE  requests[m][2] # a /\ requests[m][2] \in Actions
    BY <2>1, <2>5 DEF RequestsReviewed, TypeOK
  <2>6. RequestsReviewed'
    BY <2>1, <2>2, <2>3, <2>5 DEF RequestsReviewed, Approved
  <2>7. QED
    BY <2>4, <2>6
<1>2. ASSUME NEW m \in Admins, NEW status \in {"approved", "cancelled"},
             NEW a \in Actions, ReadRequest(m, status, a)
      PROVE  ClaimsReviewed' /\ RequestsReviewed'
  <2>1. /\ UNCHANGED <<actions, claimed>>
        /\ requests' = [requests EXCEPT ![m] = <<status, a>>]
        /\ actions[a] # NoAction
        /\ status = "approved" => ~actions[a].blocked
    BY <1>2 DEF ReadRequest, MayBecome, tables, tx
  <2>2. QED
    BY <2>1 DEF ClaimsReviewed, RequestsReviewed, Approved, TypeOK
<1>3. ASSUME NEW m \in Admins, CommitRequest(m)
      PROVE  ClaimsReviewed' /\ RequestsReviewed'
  <2> DEFINE a == requests[m][2]
             s == requests[m][1]
  <2>1. /\ a \in Actions
        /\ actions[a] # NoAction
        /\ s = "approved" => ~actions[a].blocked
    BY <1>3 DEF CommitRequest, RequestsReviewed, TypeOK
  <2>2. actions[a] \in Action
    BY <2>1 DEF TypeOK
  <2>3. [actions[a] EXCEPT !.status = s].status = s
    BY <2>2 DEF Action
  <2>4. /\ actions'[a] = [actions[a] EXCEPT !.status = s]
        /\ \A b \in Actions \ {a} : actions'[b] = actions[b]
    BY <1>3, <2>1 DEF CommitRequest, TypeOK
  <2>5. claimed' = claimed /\ a \notin Locked
    BY <1>3 DEF CommitRequest, tx
  <2>6. requests' = [requests EXCEPT ![m] = NoRequest]
    BY <1>3 DEF CommitRequest
  <2>7. actions'[a] # NoAction /\ actions'[a].status = s
    BY <2>1, <2>3, <2>4 DEF ActionsKept
  <2> HIDE DEF a, s
  <2>8. ClaimsReviewed'
    BY <2>1, <2>4, <2>5, ClaimedAction DEF ClaimsReviewed, Approved
  <2>9. \A b \in Approved' : ~actions'[b].blocked
    BY <2>1, <2>4, <2>7 DEF RequestsReviewed, Approved, ActionsKept
  <2>10. \A l \in Admins : requests'[l] # NoRequest =>
           /\ actions'[requests'[l][2]] # NoAction
           /\ requests'[l][1] = "approved" => ~actions'[requests'[l][2]].blocked
    BY <2>6 DEF RequestsReviewed, ActionsKept, TypeOK
  <2>11. QED
    BY <2>8, <2>9, <2>10 DEF RequestsReviewed
<1>4. ASSUME NEW w \in Workers, Claim(w)
      PROVE  ClaimsReviewed' /\ RequestsReviewed'
  <2>1. PICK batch \in SUBSET Claimable : claimed' = [claimed EXCEPT ![w] = batch]
    BY <1>4 DEF Claim
  <2>2. UNCHANGED <<actions, requests>> /\ claimed[w] = {}
    BY <1>4 DEF Claim, tables, TypeOK
  <2>3. batch \subseteq Approved /\ batch \cap Locked = {}
    BY DEF Claimable
  <2>4. QED
    BY <2>1, <2>2, <2>3 DEF ClaimsReviewed, RequestsReviewed, Approved, Locked, TypeOK
<1>5. ASSUME NEW w \in Workers, RollBack(w)
      PROVE  ClaimsReviewed' /\ RequestsReviewed'
  BY <1>5 DEF RollBack, tables, ClaimsReviewed, RequestsReviewed, Approved, TypeOK
<1>6. ASSUME NEW w \in Workers, Commit(w)
      PROVE  ClaimsReviewed' /\ RequestsReviewed'
  <2>1. \A b \in Actions \ claimed[w] : actions'[b] = actions[b]
    BY <1>6 DEF Commit
  <2>2. /\ claimed' = [claimed EXCEPT ![w] = {}]
        /\ requests' = requests
    BY <1>6 DEF Commit
  <2>3. \A v \in Workers : claimed'[v] \subseteq Actions \ claimed[w]
    BY <2>2 DEF ClaimsReviewed, TypeOK
  <2>4. ClaimsReviewed'
    BY <2>1, <2>2, <2>3 DEF ClaimsReviewed, Approved, TypeOK
  <2>5. ASSUME NEW b \in Approved'
        PROVE  b \in Approved
    <3>1. CASE b \in claimed[w]
      BY <3>1, ClaimedAction
    <3>2. CASE b \notin claimed[w]
      BY <2>1, <2>5, <3>2 DEF Approved
    <3>3. QED
      BY <3>1, <3>2
  <2>6. \A b \in Approved' : ~actions'[b].blocked
    BY <2>5 DEF RequestsReviewed, ActionsKept, Approved
  <2>7. \A l \in Admins : requests'[l] # NoRequest =>
           /\ actions'[requests'[l][2]] # NoAction
           /\ requests'[l][1] = "approved" => ~actions'[requests'[l][2]].blocked
    BY <2>2 DEF RequestsReviewed, ActionsKept, TypeOK
  <2>8. QED
    BY <2>4, <2>6, <2>7 DEF RequestsReviewed
<1>7. CASE UNCHANGED <<actions, requests, claimed>>
  BY <1>7 DEF ClaimsReviewed, RequestsReviewed, Approved
<1>8. QED
  BY <1>1, <1>2, <1>3, <1>4, <1>5, <1>6, <1>7, QuietStep

-----------------------------------------------------------------------------
(***************************************************************************)
(* Consent and rows.                                                       *)
(***************************************************************************)

\* What a step may do to the job of worker v, besides ending it.
JobKept(v) ==
  /\ job'[v] = job[v]
  /\ pc'[v] \in {"push", "write"} => pc[v] \in {"push", "write"}
  /\ pc'[v] = "refresh" => pc[v] = "refresh" \/ job[v].left = {}
RowExported(v) ==
  \E i \in Identities :
    /\ job[v] # NoJob
    /\ i \in job[v].row
    /\ BundleAllowed(Kind(v), i)
    /\ job'[v] = job[v]
    /\ pc'[v] = "push"
RowEnded(v) ==
  \E i \in Identities, outcome \in {"succeeded", "failed"} :
    /\ job[v] # NoJob
    /\ i \in job[v].left \cup job[v].row
    /\ pc'[v] = "rows"
    /\ job'[v] = [job[v] EXCEPT !.left = job[v].left \ {i}, !.row = {},
                                !.results = job[v].results \cup {<<i, outcome>>}]
    /\ outcome = "succeeded" =>
         Kind(v) = "archive_export" \/ <<job[v].action, i>> \in writes'
RowBegun(v) ==
  \E i \in Identities :
    /\ job[v] # NoJob
    /\ i \in job[v].left
    /\ Rechecked(v, i)
    /\ \/ pc'[v] = "export"
       \/ pc'[v] = "push" /\ Kind(v) \notin {"migrate_users", "archive_export"}
    /\ job'[v] = [job[v] EXCEPT !.row = {i}]
JobBegun(v) == \E a \in Actions : BeginAction(v, a)

LEMMA EndRowEnds ==
  ASSUME TypeOK, NEW w \in Workers, NEW i \in Identities,
         NEW outcome \in {"succeeded", "failed"}, job[w] # NoJob, EndRow(w, i, outcome),
         i \in job[w].left \cup job[w].row,
         outcome = "succeeded" =>
           Kind(w) = "archive_export" \/ <<job[w].action, i>> \in writes'
  PROVE  RowEnded(w) /\ \A v \in Workers \ {w} : JobKept(v)
BY DEF EndRow, RowEnded, JobKept, TypeOK

LEMMA StepOnJob ==
  ASSUME TypeOK, NEW w \in Workers, Step(w)
  PROVE  /\ JobKept(w) \/ RowExported(w) \/ RowEnded(w) \/ RowBegun(w) \/ JobBegun(w) \/ job'[w] = NoJob
         /\ \A v \in Workers \ {w} : JobKept(v)
<1> DEFINE Outcome ==
      /\ JobKept(w) \/ RowExported(w) \/ RowEnded(w) \/ RowBegun(w) \/ JobBegun(w) \/ job'[w] = NoJob
      /\ \A v \in Workers \ {w} : JobKept(v)
<1>1. ASSUME NEW a \in Actions, BeginAction(w, a)
      PROVE  Outcome
  BY <1>1 DEF BeginAction, JobBegun, JobKept, TypeOK
<1>2. ASSUME (\E a \in Actions : FailAction(w, a)) \/ Claim(w) \/ Commit(w) \/ EndRows(w)
      PROVE  Outcome
  BY <1>2 DEF FailAction, Claim, Commit, EndRows, JobKept, TypeOK
<1>3. ASSUME NEW i \in Identities, CheckRow(w, i)
      PROVE  Outcome
  <2>1. job[w] # NoJob
    BY <1>3 DEF CheckRow, TypeOK
  <2>2. CASE EndRow(w, i, "failed")
    BY <1>3, <2>1, <2>2, EndRowEnds DEF CheckRow
  <2>3. CASE /\ Rechecked(w, i)
             /\ job' = [job EXCEPT ![w] = [job[w] EXCEPT !.row = {i}]]
             /\ pc' = [pc EXCEPT ![w] =
                  IF Kind(w) \in {"migrate_users", "archive_export"} THEN "export" ELSE "push"]
    BY <1>3, <2>1, <2>3 DEF CheckRow, RowBegun, JobKept, TypeOK
  <2>4. QED
    BY <1>3, <2>2, <2>3 DEF CheckRow
<1>4. ASSUME NEW i \in Identities, ExportRow(w, i)
      PROVE  Outcome
  <2>1. job[w] # NoJob
    BY <1>4 DEF ExportRow, TypeOK
  <2>2. CASE \/ EndRow(w, i, "failed")
             \/ EndRow(w, i, "succeeded") /\ Kind(w) = "archive_export"
    BY <1>4, <2>1, <2>2, EndRowEnds DEF ExportRow
  <2>3. CASE BundleAllowed(Kind(w), i) /\ pc' = [pc EXCEPT ![w] = "push"] /\ UNCHANGED job
    BY <1>4, <2>1, <2>3 DEF ExportRow, RowExported, JobKept, TypeOK
  <2>4. QED
    BY <1>4, <2>2, <2>3 DEF ExportRow
<1>5. ASSUME NEW i \in Identities, DryRun(w, i)
      PROVE  Outcome
  BY <1>5 DEF DryRun, JobKept, TypeOK
<1>6. ASSUME NEW i \in Identities, NEW answered \in BOOLEAN, WriteRow(w, i, answered)
      PROVE  Outcome
  <2>1. job[w] # NoJob
    BY <1>6 DEF WriteRow, TypeOK
  <2>2. PICK outcome \in {"succeeded", "failed"} : EndRow(w, i, outcome)
    BY <1>6 DEF WriteRow
  <2>3. i \in job[w].row /\ <<job[w].action, i>> \in writes'
    BY <1>6 DEF WriteRow
  <2>4. QED
    BY <2>1, <2>2, <2>3, EndRowEnds
<1>7. ASSUME NEW i \in Identities, RowFails(w, i)
      PROVE  Outcome
  <2>1. job[w] # NoJob /\ i \in job[w].row /\ EndRow(w, i, "failed")
    BY <1>7 DEF RowFails, TypeOK
  <2>2. QED
    BY <2>1, EndRowEnds
<1>8. ASSUME NEW users \in SUBSET Identities, FinishAction(w, users)
      PROVE  Outcome
  BY <1>8 DEF FinishAction, JobKept, TypeOK
<1>9. ASSUME RefreshBreaks(w)
      PROVE  Outcome
  BY <1>9 DEF RefreshBreaks, RollBack, JobKept, TypeOK
<1> HIDE DEF Outcome
<1>10. Outcome
  BY <1>1, <1>2, <1>3, <1>4, <1>5, <1>6, <1>7, <1>8, <1>9 DEF Step
<1>11. QED
  BY <1>10 DEF Outcome

\* Consents are given and withdrawn by RecordConsent only; a job begins with
\* those that are in force.
LEMMA ConsentFrame ==
  ASSUME [Next]_vars
  PROVE  \/ UNCHANGED <<granted, inForce>>
         \/ \E i \in Identities, decision \in {"granted", "revoked"} :
              RecordConsent(i, decision)
         \/ \E w \in Workers : JobBegun(w)
<1> DEFINE Same == UNCHANGED <<granted, inForce>>
<1>1. ASSUME NEW w \in Workers, Step(w)
      PROVE  Same \/ JobBegun(w)
  <2>1. ASSUME NEW a \in Actions, FailAction(w, a)
        PROVE  Same
    BY <2>1 DEF FailAction, people
  <2>2. ASSUME NEW i \in Identities,
               CheckRow(w, i) \/ ExportRow(w, i) \/ DryRun(w, i) \/ RowFails(w, i)
        PROVE  Same
    BY <2>2 DEF CheckRow, ExportRow, DryRun, RowFails, people
  <2>3. ASSUME NEW i \in Identities, NEW answered \in BOOLEAN, WriteRow(w, i, answered)
        PROVE  Same
    BY <2>3 DEF WriteRow, people
  <2>4. ASSUME NEW users \in SUBSET Identities, FinishAction(w, users)
        PROVE  Same
    BY <2>4 DEF FinishAction, people
  <2>5. CASE EndRows(w) \/ Claim(w) \/ Commit(w) \/ RefreshBreaks(w)
    BY <2>5 DEF EndRows, Claim, Commit, RefreshBreaks, RollBack, people
  <2> HIDE DEF Same
  <2>6. QED
    BY <1>1, <2>1, <2>2, <2>3, <2>4, <2>5 DEF Step, JobBegun
<1>2. ASSUME NEW side \in {"source", "target"}, NEW i \in Identities,
             RequestDeletion(side, i) \/ MapDeviceUser(side, i) \/ Enrol(i)
      PROVE  Same
  BY <1>2 DEF RequestDeletion, MapDeviceUser, Enrol, people
<1>3. ASSUME NEW a \in Actions, NEW kind \in Kinds, NEW rows \in SUBSET Identities,
             NEW archive \in Actions \cup {NoAction}, Preview(a, kind, rows, archive)
      PROVE  Same
  BY <1>3 DEF Preview, people
<1>4. ASSUME NEW m \in Admins, NEW status \in {"approved", "cancelled"}, NEW a \in Actions,
             ReadRequest(m, status, a)
      PROVE  Same
  BY <1>4 DEF ReadRequest, people
<1>5. ASSUME NEW m \in Admins, CommitRequest(m)
      PROVE  Same
  BY <1>5 DEF CommitRequest, people
<1>6. CASE PullInventory \/ SpoilInventory \/ UNCHANGED vars
  BY <1>6 DEF PullInventory, SpoilInventory, vars, people
<1>7. ASSUME NEW w \in Workers, Fault(w)
      PROVE  Same
  BY <1>7 DEF Fault, RollBack, people
<1> HIDE DEF Same
<1>8. QED
  BY <1>1, <1>2, <1>3, <1>4, <1>5, <1>6, <1>7 DEF Next, Same

\* Only a worker's own steps and faults touch its job.
LEMMA NextOnJob ==
  ASSUME TypeOK, [Next]_vars, NEW v \in Workers
  PROVE  JobKept(v) \/ RowExported(v) \/ RowEnded(v) \/ RowBegun(v) \/ JobBegun(v) \/ job'[v] = NoJob
<1>1. ASSUME NEW w \in Workers, Step(w)
      PROVE  JobKept(v) \/ RowExported(v) \/ RowEnded(v) \/ RowBegun(v) \/ JobBegun(v) \/ job'[v] = NoJob
  BY <1>1, StepOnJob
<1>2. ASSUME NEW w \in Workers, Fault(w)
      PROVE  JobKept(v) \/ job'[v] = NoJob
  BY <1>2 DEF Fault, RollBack, JobKept, TypeOK
<1>3. ASSUME job' = job, pc' = pc
      PROVE  JobKept(v)
  BY <1>3 DEF JobKept
<1>4. QED
  BY <1>1, <1>2, <1>3
  DEF Next, RecordConsent, RequestDeletion, MapDeviceUser, Enrol, PullInventory, SpoilInventory,
      Preview, ReadRequest, CommitRequest, vars

LEMMA NextConsents ==
  ASSUME TypeOK, ClaimsReviewed, ConsentsKnown, RowsCounted, ActionsKept, [Next]_vars
  PROVE  ConsentsKnown'
<1> SUFFICES ASSUME NEW v \in Workers, job'[v] # NoJob
             PROVE  /\ granted' \subseteq inForce'[v]
                    /\ \A i \in job'[v].row \cap Bundled :
                         pc'[v] \in {"push", "write"} /\ Kind(v)' # "push_users" =>
                           i \in inForce'[v]
  BY DEF ConsentsKnown
<1>1. CASE JobBegun(v)
  <2>1. PICK a \in Actions : BeginAction(v, a)
    BY <1>1 DEF JobBegun
  <2>2. job'[v].row = {} /\ inForce'[v] = granted /\ granted' = granted
    BY <2>1 DEF BeginAction, TypeOK
  <2>3. QED
    BY <2>2
<1>2. CASE JobKept(v) \/ RowExported(v) \/ RowEnded(v) \/ RowBegun(v)
  <2>1. job[v] # NoJob
    BY <1>2 DEF JobKept, RowExported, RowEnded, RowBegun
  <2>2. /\ job[v] \in Job
        /\ job[v].action \in Actions
        /\ actions[job[v].action] # NoAction
    BY <2>1, JobAction
  <2>3. job'[v].action = job[v].action
    BY <1>2, <2>2 DEF JobKept, RowExported, RowEnded, RowBegun, Job
  <2>4. Kind(v)' = Kind(v)
    BY <2>2, <2>3 DEF Kind, ActionsKept
  <2>5. granted \subseteq inForce[v]
    BY <2>1 DEF ConsentsKnown
  <2>6. \A i \in job'[v].row \cap Bundled :
          pc'[v] \in {"push", "write"} /\ Kind(v) # "push_users" => i \in inForce[v]
    <3>1. CASE JobKept(v)
      BY <2>1, <3>1 DEF JobKept, ConsentsKnown
    <3>2. CASE RowEnded(v)
      BY <2>2, <3>2 DEF RowEnded, Job
    <3>3. CASE RowExported(v)
      BY <2>1, <2>5, <3>3 DEF RowExported, BundleAllowed, Consented, RowsCounted
    <3>4. CASE RowBegun(v)
      <4>1. PICK i \in Identities :
              /\ Rechecked(v, i) /\ job'[v].row = {i}
              /\ \/ pc'[v] = "export"
                 \/ pc'[v] = "push" /\ Kind(v) \notin {"migrate_users", "archive_export"}
        BY <2>2, <3>4 DEF RowBegun, Job
      <4>2. Kind(v) \in {"push_users", "migrate_users", "archive_export", "archive_restore"}
        BY <2>1, JobAction, KindsAssumption DEF Kind, Action
      <4>3. CASE pc'[v] = "push" /\ Kind(v) = "archive_restore"
        BY <2>5, <4>1, <4>3 DEF Rechecked, MoveAllowed, Templates, Consented
      <4>4. QED
        BY <4>1, <4>2, <4>3
    <3>5. QED
      BY <1>2, <3>1, <3>2, <3>3, <3>4
  <2>7. granted' \subseteq inForce'[v] /\ inForce[v] \subseteq inForce'[v]
    <3>1. ASSUME NEW i \in Identities, NEW decision \in {"granted", "revoked"},
                 RecordConsent(i, decision)
          PROVE  granted' \subseteq inForce'[v] /\ inForce[v] \subseteq inForce'[v]
      BY <2>5, <3>1 DEF RecordConsent
    <3>2. ASSUME NEW w \in Workers, JobBegun(w)
          PROVE  granted' \subseteq inForce'[v] /\ inForce[v] \subseteq inForce'[v]
      <4>1. PICK a \in Actions : BeginAction(w, a)
        BY <3>2 DEF JobBegun
      <4>2. w # v
        BY <2>1, <4>1 DEF BeginAction, TypeOK
      <4>3. QED
        BY <2>5, <4>1, <4>2 DEF BeginAction, TypeOK
    <3>3. CASE UNCHANGED <<granted, inForce>>
      BY <2>5, <3>3
    <3>4. QED
      BY <3>1, <3>2, <3>3, ConsentFrame
  <2>8. QED
    BY <2>4, <2>6, <2>7
<1>3. QED
  BY <1>1, <1>2, NextOnJob

\* A row is taken off what is left when its outcome is added, not before.
LEMMA NextRows ==
  ASSUME TypeOK, ClaimsReviewed, RowsCounted, ActionsKept, [Next]_vars
  PROVE  RowsCounted'
<1> DEFINE Counted(rows, j, at) ==
      /\ rows = j.left \cup {r[1] : r \in j.results}
      /\ j.left \cap {r[1] : r \in j.results} = {}
      /\ \A r, s \in j.results : r[1] = s[1] => r = s
      /\ j.row \subseteq j.left /\ \A i, k \in j.row : i = k
      /\ at = "refresh" => j.left = {}
<1> SUFFICES ASSUME NEW v \in Workers, job'[v] # NoJob
             PROVE  Counted(actions'[job'[v].action].rows, job'[v], pc'[v])
  BY DEF RowsCounted
<1>1. CASE JobBegun(v)
  <2>1. PICK a \in Actions : BeginAction(v, a)
    BY <1>1 DEF JobBegun
  <2>2. /\ job'[v] = [action |-> a, left |-> actions[a].rows, row |-> {}, results |-> {}]
        /\ pc'[v] = "rows" /\ actions' = actions
    BY <2>1 DEF BeginAction, tables, TypeOK
  <2>3. QED
    BY <2>2
<1>2. CASE JobKept(v) \/ RowExported(v) \/ RowEnded(v) \/ RowBegun(v)
  <2>1. job[v] # NoJob
    BY <1>2 DEF JobKept, RowExported, RowEnded, RowBegun
  <2>2. /\ job[v] \in Job
        /\ job[v].action \in Actions
        /\ actions[job[v].action] # NoAction
    BY <2>1, JobAction
  <2>3. job'[v].action = job[v].action
    BY <1>2, <2>2 DEF JobKept, RowExported, RowEnded, RowBegun, Job
  <2>4. actions'[job'[v].action].rows = actions[job[v].action].rows
    BY <2>2, <2>3 DEF ActionsKept
  <2>5. Counted(actions[job[v].action].rows, job[v], pc[v])
    BY <2>1 DEF RowsCounted
  <2>6. CASE JobKept(v) \/ RowExported(v)
    BY <2>4, <2>5, <2>6 DEF JobKept, RowExported
  <2>7. CASE RowBegun(v)
    <3>1. PICK i \in job[v].left :
            /\ job'[v] = [job[v] EXCEPT !.row = {i}]
            /\ pc'[v] # "refresh"
      BY <2>7 DEF RowBegun
    <3>2. /\ job'[v].left = job[v].left /\ job'[v].results = job[v].results
          /\ job'[v].row = {i}
      BY <2>2, <3>1 DEF Job
    <3>3. QED
      BY <2>4, <2>5, <3>1, <3>2
  <2>8. CASE RowEnded(v)
    <3>1. PICK i \in Identities, outcome \in {"succeeded", "failed"} :
            /\ i \in job[v].left \cup job[v].row
            /\ job'[v] = [job[v] EXCEPT !.left = job[v].left \ {i}, !.row = {},
                                        !.results = job[v].results \cup {<<i, outcome>>}]
            /\ pc'[v] # "refresh"
      BY <2>8 DEF RowEnded
    <3>2. /\ job'[v].left = job[v].left \ {i} /\ job'[v].row = {}
          /\ job'[v].results = job[v].results \cup {<<i, outcome>>}
      BY <2>2, <3>1 DEF Job
    <3>3. i \in job[v].left
      BY <2>5, <3>1
    <3>4. {r[1] : r \in job'[v].results} = {r[1] : r \in job[v].results} \cup {i}
      <4>1. ASSUME NEW S, NEW u
            PROVE  {r[1] : r \in S \cup {u}} = {r[1] : r \in S} \cup {u[1]}
        OBVIOUS
      <4>2. <<i, outcome>>[1] = i
        OBVIOUS
      <4>3. {r[1] : r \in job[v].results \cup {<<i, outcome>>}}
              = {r[1] : r \in job[v].results} \cup {i}
        BY <4>1, <4>2
      <4>4. QED
        BY <3>2, <4>3
    <3>5. \A r, s \in job'[v].results : r[1] = s[1] => r = s
      BY <2>5, <3>2, <3>3
    <3>6. QED
      BY <2>4, <2>5, <3>1, <3>2, <3>3, <3>4, <3>5
  <2>9. QED
    BY <1>2, <2>6, <2>7, <2>8
<1>3. QED
  BY <1>1, <1>2, NextOnJob

\* With an inventory that can be stored, only its last step or a fault ends a job.
LEMMA JobEnds ==
  ASSUME TypeOK, ClaimsReviewed, [Next]_vars, NEW w \in Workers, job[w] # NoJob,
         job'[w] = NoJob, UNCHANGED faults, inventory = "sound"
  PROVE  \E users \in SUBSET Identities : FinishAction(w, users)
<1>1. job[w] \in Job /\ job'[w] \notin Job
  BY NoneAssumption DEF TypeOK
<1>2. ASSUME UNCHANGED job
      PROVE  FALSE
  BY <1>2
<1>3. ASSUME NEW v \in Workers, Fault(v)
      PROVE  FALSE
  BY <1>3 DEF Fault, TypeOK
<1>4. ASSUME NEW v \in Workers, Step(v), ~\E users \in SUBSET Identities : FinishAction(w, users)
      PROVE  FALSE
  <2>1. v = w
    BY <1>4, StepOnJob DEF JobKept
  <2>2. ASSUME NEW a \in Actions, BeginAction(w, a)
        PROVE  FALSE
    BY <2>2 DEF BeginAction, TypeOK
  <2>3. ASSUME NEW i \in Identities, NEW outcome \in {"succeeded", "failed"},
               EndRow(w, i, outcome), pc[w] \in {"rows", "export", "push", "write"}
        PROVE  FALSE
    BY <2>3, EndRowType
  <2>4. ASSUME NEW i \in Identities, CheckRow(w, i)
        PROVE  FALSE
    <3>1. ASSUME job' = [job EXCEPT ![w] = [job[w] EXCEPT !.row = {i}]]
          PROVE  FALSE
      BY <1>1, <3>1 DEF TypeOK, Job
    <3>2. QED
      BY <2>3, <2>4, <3>1 DEF CheckRow
  <2>5. ASSUME NEW i \in Identities, ExportRow(w, i) \/ RowFails(w, i)
        PROVE  FALSE
    BY <1>2, <2>3, <2>5 DEF ExportRow, RowFails
  <2>6. ASSUME NEW i \in Identities, NEW answered \in BOOLEAN, WriteRow(w, i, answered)
        PROVE  FALSE
    BY <2>3, <2>6 DEF WriteRow
  <2>7. QED
    BY <1>2, <1>4, <2>1, <2>2, <2>4, <2>5, <2>6
    DEF Step, Claim, FailAction, DryRun, EndRows, RefreshBreaks, Commit
<1>5. QED
  BY <1>2, <1>3, <1>4
  DEF Next, RecordConsent, RequestDeletion, MapDeviceUser, Enrol, PullInventory, SpoilInventory,
      Preview, ReadRequest, CommitRequest, vars

-----------------------------------------------------------------------------
(***************************************************************************)
(* Results.                                                                *)
(***************************************************************************)

\* What a step may do to the transaction of worker v.
TransactionKept(v) ==
  /\ claimed'[v] = claimed[v]
  /\ txActions'[v] = txActions[v]
  /\ txArchives'[v] = txArchives[v]
ActionEnded(v) ==
  \/ \E a \in Actions : FailAction(v, a)
  \/ \E users \in SUBSET Identities : FinishAction(v, users)

LEMMA StepOnTransaction ==
  ASSUME TypeOK, NEW w \in Workers, Step(w)
  PROVE  /\ TransactionKept(w) \/ ActionEnded(w) \/ txActions'[w] = {}
         /\ \A v \in Workers \ {w} : TransactionKept(v)
<1> DEFINE Outcome ==
      /\ TransactionKept(w) \/ ActionEnded(w) \/ txActions'[w] = {}
      /\ \A v \in Workers \ {w} : TransactionKept(v)
<1>1. ASSUME \E a \in Actions : BeginAction(w, a)
      PROVE  Outcome
  BY <1>1 DEF BeginAction, tx, TransactionKept
<1>2. ASSUME \E a \in Actions : FailAction(w, a)
      PROVE  Outcome
  BY <1>2 DEF FailAction, ActionEnded, TransactionKept, TypeOK
<1>3. ASSUME \E users \in SUBSET Identities : FinishAction(w, users)
      PROVE  Outcome
  BY <1>3 DEF FinishAction, ActionEnded, TransactionKept, TypeOK
<1>4. ASSUME \E i \in Identities : CheckRow(w, i) \/ ExportRow(w, i)
                                \/ DryRun(w, i) \/ RowFails(w, i)
      PROVE  Outcome
  BY <1>4 DEF CheckRow, ExportRow, DryRun, RowFails, tx, TransactionKept
<1>5. ASSUME \E i \in Identities, answered \in BOOLEAN : WriteRow(w, i, answered)
      PROVE  Outcome
  BY <1>5 DEF WriteRow, tx, TransactionKept
<1>6. ASSUME EndRows(w)
      PROVE  Outcome
  BY <1>6 DEF EndRows, tx, TransactionKept
<1>7. ASSUME Claim(w)
      PROVE  Outcome
  BY <1>7 DEF Claim, TransactionKept, TypeOK
<1>8. ASSUME Commit(w) \/ RefreshBreaks(w)
      PROVE  Outcome
  BY <1>8 DEF Commit, RefreshBreaks, RollBack, TransactionKept, TypeOK
<1> HIDE DEF Outcome
<1>9. Outcome
  BY <1>1, <1>2, <1>3, <1>4, <1>5, <1>6, <1>7, <1>8 DEF Step
<1>10. QED
  BY <1>9 DEF Outcome

LEMMA NextOnTransaction ==
  ASSUME TypeOK, [Next]_vars, NEW v \in Workers
  PROVE  TransactionKept(v) \/ ActionEnded(v) \/ txActions'[v] = {}
<1>1. ASSUME NEW w \in Workers, Fault(w)
      PROVE  TransactionKept(v) \/ txActions'[v] = {}
  BY <1>1 DEF Fault, RollBack, TransactionKept, TypeOK
<1>2. ASSUME UNCHANGED tx
      PROVE  TransactionKept(v)
  BY <1>2 DEF TransactionKept, tx
<1>3. QED
  BY <1>1, <1>2, StepOnTransaction
  DEF Next, RecordConsent, RequestDeletion, MapDeviceUser, Enrol, PullInventory, SpoilInventory,
      Preview, ReadRequest, CommitRequest, vars

\* Nothing is ever unwritten.
LEMMA WritesGrow == ASSUME [Next]_vars PROVE writes \subseteq writes'
<1>1. ASSUME NEW w \in Workers, Step(w)
      PROVE  writes \subseteq writes'
  <2>1. CASE \E i \in Identities, answered \in BOOLEAN : WriteRow(w, i, answered)
    BY <2>1 DEF WriteRow
  <2>2. CASE UNCHANGED writes
    BY <2>2
  <2>3. QED
    BY <1>1, <2>1, <2>2
    DEF Step, Claim, BeginAction, FailAction, CheckRow, ExportRow, DryRun, RowFails,
        EndRows, FinishAction, RefreshBreaks, RollBack, Commit, device
<1>2. CASE UNCHANGED writes
  BY <1>2
<1>3. QED
  BY <1>1, <1>2
  DEF Next, RecordConsent, RequestDeletion, MapDeviceUser, Enrol, PullInventory, SpoilInventory,
      Preview, ReadRequest, CommitRequest, Fault, RollBack, vars, device

LEMMA NextWork ==
  ASSUME TypeOK, ClaimsReviewed, WorkRecorded, ActionsKept, [Next]_vars
  PROVE  WorkRecorded'
<1>0. writes \subseteq writes'
  BY WritesGrow
<1> SUFFICES ASSUME NEW v \in Workers
             PROVE  /\ Finished(v)' \subseteq claimed'[v]
                    /\ job'[v] # NoJob =>
                         \A i \in Moved(v)' :
                           Kind(v)' # "archive_export" => <<job'[v].action, i>> \in writes'
                    /\ \A t \in txActions'[v] : \A r \in t[2] : r[2] = "succeeded" =>
                         IF actions'[t[1]].kind = "archive_export"
                         THEN <<t[1], "ready">> \in txArchives'[v]
                         ELSE <<t[1], r[1]>> \in writes'
  BY DEF WorkRecorded
<1>1. ASSUME job'[v] # NoJob, NEW i \in Moved(v)', Kind(v)' # "archive_export"
      PROVE  <<job'[v].action, i>> \in writes'
  <2>1. CASE JobBegun(v)
    <3>1. PICK a \in Actions : BeginAction(v, a)
      BY <2>1 DEF JobBegun
    <3>2. job'[v].results = {}
      BY <3>1 DEF BeginAction, TypeOK
    <3>3. QED
      BY <1>1, <3>2 DEF Moved
  <2>2. CASE JobKept(v) \/ RowExported(v) \/ RowEnded(v) \/ RowBegun(v)
    <3>1. job[v] # NoJob
      BY <1>1, <2>2 DEF JobKept, RowExported, RowEnded, RowBegun
    <3>2. /\ job[v] \in Job
          /\ job[v].action \in Actions
          /\ actions[job[v].action] # NoAction
      BY <3>1, JobAction
    <3>3. job'[v].action = job[v].action
      BY <2>2, <3>2 DEF JobKept, RowExported, RowEnded, RowBegun, Job
    <3>4. Kind(v)' = Kind(v)
      BY <3>2, <3>3 DEF Kind, ActionsKept
    <3>5. i \in Moved(v) \/ <<job[v].action, i>> \in writes'
      <4>1. CASE JobKept(v) \/ RowExported(v)
        BY <1>1, <4>1 DEF JobKept, RowExported, Moved
      <4>2. CASE RowBegun(v)
        BY <1>1, <3>2, <4>2 DEF RowBegun, Moved, Job
      <4>3. CASE RowEnded(v)
        <5>1. PICK j \in Identities, outcome \in {"succeeded", "failed"} :
                /\ job'[v].results = job[v].results \cup {<<j, outcome>>}
                /\ outcome = "succeeded" =>
                     Kind(v) = "archive_export" \/ <<job[v].action, j>> \in writes'
          BY <3>2, <4>3 DEF RowEnded, Job
        <5>2. QED
          BY <1>1, <3>4, <5>1 DEF Moved
      <4>4. QED
        BY <2>2, <4>1, <4>2, <4>3
    <3>6. QED
      BY <1>0, <1>1, <3>1, <3>3, <3>4, <3>5 DEF WorkRecorded
  <2>3. QED
    BY <1>1, <2>1, <2>2, NextOnJob
<1>2. /\ Finished(v)' \subseteq claimed'[v]
      /\ \A t \in txActions'[v] : \A r \in t[2] : r[2] = "succeeded" =>
           IF actions'[t[1]].kind = "archive_export"
           THEN <<t[1], "ready">> \in txArchives'[v]
           ELSE <<t[1], r[1]>> \in writes'
  <2> DEFINE Real(t) == \A r \in t[2] : r[2] = "succeeded" =>
                          IF actions'[t[1]].kind = "archive_export"
                          THEN <<t[1], "ready">> \in txArchives'[v]
                          ELSE <<t[1], r[1]>> \in writes'
  <2>1. ASSUME txArchives[v] \subseteq txArchives'[v], NEW t \in txActions[v]
        PROVE  Real(t)
    <3>1. t[1] \in Finished(v)
      BY DEF Finished
    <3>2. t[1] \in claimed[v]
      BY <3>1 DEF WorkRecorded
    <3>3. actions'[t[1]].kind = actions[t[1]].kind
      BY <3>2, ClaimedAction DEF ActionsKept
    <3>4. QED
      BY <1>0, <2>1, <3>3 DEF WorkRecorded
  <2>2. CASE TransactionKept(v)
    BY <2>1, <2>2 DEF TransactionKept, WorkRecorded, Finished
  <2>3. CASE txActions'[v] = {}
    BY <2>3 DEF Finished
  <2>4. ASSUME NEW a \in Actions, FailAction(v, a)
        PROVE  Finished(v)' \subseteq claimed'[v] /\ \A t \in txActions'[v] : Real(t)
    <3>1. /\ txActions'[v] = txActions[v] \cup {<<a, {}>>}
          /\ txArchives'[v] = txArchives[v]
          /\ claimed'[v] = claimed[v]
          /\ a \in claimed[v]
      BY <2>4 DEF FailAction, TypeOK
    <3>2. Finished(v)' = Finished(v) \cup {a}
      <4>1. Finished(v)' = {r[1] : r \in txActions[v] \cup {<<a, {}>>}}
        BY <3>1 DEF Finished
      <4>2. ASSUME NEW S, NEW u PROVE {r[1] : r \in S \cup {u}} = {r[1] : r \in S} \cup {u[1]}
        OBVIOUS
      <4>3. <<a, {}>>[1] = a
        OBVIOUS
      <4>4. QED
        BY <4>1, <4>2, <4>3 DEF Finished
    <3>3. Real(<<a, {}>>)
      OBVIOUS
    <3> HIDE DEF Real
    <3>4. QED
      BY <2>1, <3>1, <3>2, <3>3 DEF WorkRecorded
  <2>5. ASSUME NEW users \in SUBSET Identities, FinishAction(v, users)
        PROVE  Finished(v)' \subseteq claimed'[v] /\ \A t \in txActions'[v] : Real(t)
    <3> DEFINE a == job[v].action
               t == <<a, job[v].results>>
    <3>1. /\ txActions'[v] = txActions[v] \cup {t}
          /\ txArchives'[v] = txArchives[v] \cup ArchiveNews(v)
          /\ claimed'[v] = claimed[v]
          /\ actions' = actions /\ writes' = writes
      BY <2>5 DEF FinishAction, TypeOK, tables, device
    <3>2. job[v] # NoJob
      BY <2>5 DEF FinishAction, TypeOK
    <3>3. a \in claimed[v] /\ job[v] \in Job
      BY <3>2, JobAction
    <3>4. Finished(v)' = Finished(v) \cup {a}
      <4>1. Finished(v)' = {r[1] : r \in txActions[v] \cup {t}}
        BY <3>1 DEF Finished
      <4>2. t[1] = a
        OBVIOUS
      <4>3. QED
        BY <4>1, <4>2 DEF Finished
    <3>5. ASSUME NEW r \in job[v].results, r[2] = "succeeded"
          PROVE  IF actions'[a].kind = "archive_export"
                 THEN <<a, "ready">> \in txArchives'[v]
                 ELSE <<a, r[1]>> \in writes'
      <4>1. r[1] \in Moved(v)
        <5>1. r[1] \in Identities /\ r = <<r[1], "succeeded">>
          BY <3>3, <3>5 DEF Job, Results
        <5>2. QED
          BY <5>1 DEF Moved
      <4>2. CASE Kind(v) = "archive_export"
        <5>1. <<a, "ready">> \in ArchiveNews(v)
          BY <4>1, <4>2 DEF ArchiveNews
        <5>2. QED
          BY <3>1, <4>2, <5>1 DEF Kind
      <4>3. CASE Kind(v) # "archive_export"
        BY <3>1, <3>2, <4>1, <4>3 DEF Kind, WorkRecorded
      <4>4. QED
        BY <4>2, <4>3
    <3>6. Real(t)
      BY <3>5
    <3> HIDE DEF Real, t, a
    <3>7. QED
      BY <2>1, <3>1, <3>3, <3>4, <3>6 DEF WorkRecorded
  <2>6. QED
    BY <2>2, <2>3, <2>4, <2>5, NextOnTransaction DEF ActionEnded
<1>3. QED
  BY <1>1, <1>2

\* Archives do not disappear, and results are written by commits only.
LEMMA NextSuccess ==
  ASSUME TypeOK, ClaimsReviewed, RequestsReviewed, WorkRecorded, SuccessIsReal,
         ActionsKept, [Next]_vars
  PROVE  SuccessIsReal'
<1>0. writes \subseteq writes'
  BY WritesGrow
<1> SUFFICES ASSUME NEW a \in Actions, actions'[a] # NoAction,
                    NEW r \in actions'[a].results, r[2] = "succeeded"
             PROVE  IF actions'[a].kind = "archive_export"
                    THEN archives'[a] # "none"
                    ELSE <<a, r[1]>> \in writes'
  BY DEF SuccessIsReal
<1>1. ASSUME actions[a] # NoAction, actions'[a].results = actions[a].results,
             archives[a] # "none" => archives'[a] # "none"
      PROVE  IF actions'[a].kind = "archive_export"
             THEN archives'[a] # "none"
             ELSE <<a, r[1]>> \in writes'
  BY <1>0, <1>1 DEF SuccessIsReal, ActionsKept
<1>2. ASSUME NEW b \in Actions, NEW kind \in Kinds, NEW rows \in SUBSET Identities,
             NEW archive \in Actions \cup {NoAction}, Preview(b, kind, rows, archive)
      PROVE  IF actions'[a].kind = "archive_export"
             THEN archives'[a] # "none"
             ELSE <<a, r[1]>> \in writes'
  <2>1. CASE a = b
    <3>1. actions'[a].results = {}
      BY <1>2, <2>1 DEF Preview, TypeOK
    <3>2. QED
      BY <3>1
  <2>2. CASE a # b
    <3>1. actions'[a] = actions[a] /\ archives' = archives
      BY <1>2, <2>2 DEF Preview, TypeOK
    <3>2. QED
      BY <1>1, <3>1
  <2>3. QED
    BY <2>1, <2>2
<1>3. ASSUME NEW m \in Admins, CommitRequest(m)
      PROVE  IF actions'[a].kind = "archive_export"
             THEN archives'[a] # "none"
             ELSE <<a, r[1]>> \in writes'
  <2>1. \/ actions'[a] = actions[a]
        \/ \E s \in {"approved", "cancelled"} :
             actions'[a] = [actions[a] EXCEPT !.status = s]
    BY <1>3 DEF CommitRequest, TypeOK
  <2>2. actions[a] # NoAction
    <3>1. requests[m][2] \in Actions /\ actions[requests[m][2]] # NoAction
      BY <1>3 DEF CommitRequest, RequestsReviewed, TypeOK
    <3>2. a = requests[m][2] \/ actions'[a] = actions[a]
      BY <1>3 DEF CommitRequest, TypeOK
    <3>3. QED
      BY <3>1, <3>2
  <2>3. actions[a] \in Action
    BY <2>2 DEF TypeOK
  <2>4. actions'[a].results = actions[a].results
    BY <2>1, <2>3 DEF Action
  <2>5. archives' = archives
    BY <1>3 DEF CommitRequest
  <2>6. QED
    BY <1>1, <2>2, <2>4, <2>5
<1>4. ASSUME NEW w \in Workers, Commit(w)
      PROVE  IF actions'[a].kind = "archive_export"
             THEN archives'[a] # "none"
             ELSE <<a, r[1]>> \in writes'
  <2>1. CASE a \in claimed[w]
    <3> DEFINE results == CHOOSE s \in SUBSET Results : <<a, s>> \in txActions[w]
               t == <<a, results>>
    <3>1. actions'[a] = [actions[a] EXCEPT !.status = StatusFromRows(results),
                                           !.results = results]
      BY <1>4, <2>1 DEF Commit
    <3>2. a \in Finished(w)
      BY <1>4, <2>1 DEF Commit
    <3>3. t \in txActions[w]
      BY <2>1, <3>2, CommittedAction
    <3>4. actions[a] \in Action /\ actions[a] # NoAction
      BY <2>1, ClaimedAction
    <3>5. actions'[a].results = results
      BY <3>1, <3>4 DEF Action
    <3>6. actions'[a].kind = actions[a].kind
      BY <3>4 DEF ActionsKept
    <3>7. t[1] = a /\ t[2] = results
      OBVIOUS
    <3> HIDE DEF results, t
    <3>8. IF actions[a].kind = "archive_export"
          THEN <<a, "ready">> \in txArchives[w]
          ELSE <<a, r[1]>> \in writes
      BY <3>3, <3>5, <3>7 DEF WorkRecorded
    <3>9. <<a, "ready">> \in txArchives[w] => archives'[a] # "none"
      BY <1>4 DEF Commit
    <3>10. QED
      BY <1>0, <3>6, <3>8, <3>9
  <2>2. CASE a \notin claimed[w]
    <3>1. actions'[a] = actions[a] /\ (archives[a] # "none" => archives'[a] # "none")
      BY <1>4, <2>2 DEF Commit
    <3>2. QED
      BY <1>1, <3>1
  <2>3. QED
    BY <2>1, <2>2
<1>5. CASE UNCHANGED <<actions, archives>>
  BY <1>1, <1>5
<1>6. ASSUME NEW w \in Workers, Step(w)
      PROVE  Commit(w) \/ UNCHANGED <<actions, archives>>
  <2>1. CASE \E i \in Identities, answered \in BOOLEAN : WriteRow(w, i, answered)
    BY <2>1 DEF WriteRow, tables
  <2>2. CASE \E i \in Identities : CheckRow(w, i) \/ ExportRow(w, i)
                                  \/ DryRun(w, i) \/ RowFails(w, i)
    BY <2>2 DEF CheckRow, ExportRow, DryRun, RowFails, tables
  <2>3. CASE \E b \in Actions : BeginAction(w, b) \/ FailAction(w, b)
    BY <2>3 DEF BeginAction, FailAction, tables
  <2>4. CASE \/ Claim(w) \/ EndRows(w) \/ RefreshBreaks(w)
             \/ \E users \in SUBSET Identities : FinishAction(w, users)
    BY <2>4 DEF Claim, EndRows, RefreshBreaks, RollBack, FinishAction, tables
  <2>5. QED
    BY <1>6, <2>1, <2>2, <2>3, <2>4 DEF Step
<1>7. QED
  BY <1>2, <1>3, <1>4, <1>5, <1>6
  DEF Next, RecordConsent, RequestDeletion, MapDeviceUser, Enrol, PullInventory, SpoilInventory,
      ReadRequest, Fault, RollBack, vars, tables

-----------------------------------------------------------------------------
(***************************************************************************)
(* Theorems.                                                               *)
(***************************************************************************)

LEMMA Invariant == Spec => [](TypeOK /\ IdentityInv)
<1>1. TypeOK /\ IdentityInv /\ [Next]_vars => (TypeOK /\ IdentityInv)'
  <2> SUFFICES ASSUME TypeOK, IdentityInv, [Next]_vars
               PROVE  TypeOK' /\ IdentityInv'
    OBVIOUS
  <2> USE DEF IdentityInv
  <2>1. ActionsKept
    BY StepKeepsActions
  <2>2. TypeOK'
    BY NextType
  <2>3. ClaimsReviewed' /\ RequestsReviewed'
    BY <2>1, NextReviewed
  <2>4. ConsentsKnown' /\ RowsCounted'
    BY <2>1, NextConsents, NextRows
  <2>5. WorkRecorded'
    BY <2>1, NextWork
  <2>6. SuccessIsReal'
    BY <2>1, NextSuccess
  <2>7. QED
    BY <2>2, <2>3, <2>4, <2>5, <2>6
<1>2. QED
  BY <1>1, InitType, PTL DEF Spec

\* Every reachable state has the declared shape; in particular a worker between
\* two cycles has no lock and no unwritten result.
THEOREM TypeCorrect == Spec => []TypeOK
BY Invariant, PTL

\* However requests and workers interleave, and whatever crashes: what a worker
\* executes is approved in the table, had a preview without blocking rows, and
\* is executed by nobody else (approve_action, pending_actions).
THEOREM OnlyReviewedExecuted == Spec => []ClaimsReviewed
<1>1. TypeOK /\ IdentityInv => ClaimsReviewed
  BY DEF IdentityInv
<1>2. QED
  BY <1>1, Invariant, PTL

\* A committed row that says "succeeded" has happened: crashes and rollbacks may
\* lose results, they never invent one (_call_push, _execute_archive_export).
THEOREM ReportedIsDone == Spec => []SuccessIsReal
<1>1. TypeOK /\ IdentityInv => SuccessIsReal
  BY DEF IdentityInv
<1>2. QED
  BY <1>1, Invariant, PTL

\* The worker's recheck stops every biometric write whose consent was withdrawn
\* before the worker began the action (_biometric_move_allowed and its callers).
THEOREM RecheckStopsWrite == Spec => WithdrawnConsentStops
<1> DEFINE Stops ==
      \A w \in Workers, i \in Bundled :
        /\ job[w] # NoJob
        /\ <<job[w].action, i>> \in writes' \ writes
        /\ Kind(w) # "push_users"
        => i \in inForce[w]
<1>1. TypeOK /\ IdentityInv /\ [Next]_vars => [Stops]_vars
  <2> SUFFICES ASSUME TypeOK, IdentityInv, [Next]_vars,
                      NEW w \in Workers, NEW i \in Bundled,
                      job[w] # NoJob, <<job[w].action, i>> \in writes' \ writes,
                      Kind(w) # "push_users"
               PROVE  i \in inForce[w]
    OBVIOUS
  <2>1. ASSUME NEW v \in Workers, NEW j \in Identities, NEW answered \in BOOLEAN,
               WriteRow(v, j, answered)
        PROVE  i \in inForce[w]
    <3>1. <<job[w].action, i>> = <<job[v].action, j>>
      BY <2>1 DEF WriteRow
    <3>2. job[v] # NoJob /\ j \in job[v].row
      BY <2>1 DEF WriteRow, TypeOK
    <3>3. job[w].action \in claimed[w] /\ job[v].action \in claimed[v]
      BY <3>2 DEF TypeOK
    <3>4. v = w
      BY <3>1, <3>3 DEF IdentityInv, ClaimsReviewed
    <3>5. i \in job[w].row /\ pc[w] = "write"
      BY <2>1, <3>1, <3>2, <3>4 DEF WriteRow
    <3>6. QED
      BY <3>5 DEF IdentityInv, ConsentsKnown
  <2>2. ASSUME UNCHANGED writes
        PROVE  FALSE
    BY <2>2
  <2>3. QED
    BY <2>1, <2>2
    DEF Next, Step, RecordConsent, RequestDeletion, MapDeviceUser, Enrol,
        PullInventory, SpoilInventory, Preview, ReadRequest, CommitRequest, Claim, BeginAction,
        FailAction, CheckRow, ExportRow, DryRun, RowFails, EndRows, FinishAction,
        RefreshBreaks, RollBack, Commit, Fault, vars, device
<1>2. Spec => [][Stops]_vars
  BY <1>1, Invariant, PTL DEF Spec
<1>3. QED
  BY <1>2 DEF WithdrawnConsentStops

\* As long as the user list of the target can be stored, no row takes away the
\* result of another, and a job ends with an outcome of each of its rows in its
\* transaction: only a crash or a database failure loses results
\* (_execute_push_users, _execute_migration, execute_action).
THEOREM SoundInventoryKeepsResults == Spec => ResultsKept
<1> DEFINE Kept(w) ==
      \/ /\ job'[w] # NoJob
         /\ job[w].results \subseteq job'[w].results
      \/ /\ <<job[w].action, job[w].results>> \in txActions'[w]
         /\ AllDecided(actions[job[w].action].rows, job[w].results)
<1>1. TypeOK /\ IdentityInv /\ [Next]_vars =>
        [\A w \in Workers :
           job[w] # NoJob /\ UNCHANGED faults /\ inventory = "sound" => Kept(w)]_vars
  <2> SUFFICES ASSUME TypeOK, IdentityInv, [Next]_vars, NEW w \in Workers,
                      job[w] # NoJob, UNCHANGED faults, inventory = "sound"
               PROVE  Kept(w)
    OBVIOUS
  <2>1. job[w] \in Job /\ pc[w] \notin {"idle", "next"}
    BY DEF TypeOK
  <2>2. CASE job'[w] = NoJob
    <3>1. \E users \in SUBSET Identities : FinishAction(w, users)
      BY <2>1, <2>2, JobEnds DEF IdentityInv
    <3>2. <<job[w].action, job[w].results>> \in txActions'[w] /\ pc[w] = "refresh"
      BY <3>1 DEF FinishAction, TypeOK
    <3>3. AllDecided(actions[job[w].action].rows, job[w].results)
      BY <3>2 DEF IdentityInv, RowsCounted, AllDecided
    <3>4. QED
      BY <3>2, <3>3
  <2>3. CASE job'[w] # NoJob
    <3>1. ~JobBegun(w)
      BY <2>1 DEF JobBegun, BeginAction
    <3>2. job[w].results \subseteq job'[w].results
      BY <2>1, <2>3, <3>1, NextOnJob DEF JobKept, RowExported, RowEnded, RowBegun, Job
    <3>3. QED
      BY <2>3, <3>2
  <2>4. QED
    BY <2>2, <2>3
<1>2. Spec => [][\A w \in Workers :
                  job[w] # NoJob /\ UNCHANGED faults /\ inventory = "sound" => Kept(w)]_vars
  BY <1>1, Invariant, PTL DEF Spec
<1>3. QED
  BY <1>2 DEF ResultsKept
===============================================================================

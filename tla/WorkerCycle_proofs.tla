-------------------------- MODULE WorkerCycle_proofs --------------------------
(***************************************************************************)
(* Proofs about WorkerCycle for any number of workers, devices and         *)
(* operations, any limits and both worker programs.                        *)
(*                                                                         *)
(* TypeOK and ClaimsExclusive are inductive together.  Claims stay         *)
(* exclusive because a claim takes only rows no open transaction has       *)
(* locked, and because the operations a commit decides are pending until   *)
(* then: no other transaction can have claimed them.  FinishedForGood and  *)
(* WorkKept are facts about single steps under that invariant.             *)
(***************************************************************************)
EXTENDS WorkerCycle, TLAPS

USE DEF Outcomes, News

LEMMA FirstIsSubset ==
  ASSUME NEW S, NEW n
  PROVE  First(S, n) \subseteq S
BY DEF First

LEMMA InitTypeOK == Init => TypeOK
BY LimitsAssumption DEF Init, TypeOK, Device

\* A rollback keeps the shape of the state.
LEMMA RollBackType ==
  ASSUME TypeOK, NEW w \in Workers, RollBack(w),
         changes' \in 0 .. MaxChanges, faults' \in 0 .. MaxFaults
  PROVE  TypeOK'
BY DEF TypeOK, RollBack, tables

LEMMA ReportType ==
  ASSUME TypeOK, NEW w \in Workers, NEW d \in Devices, NEW news \in SUBSET News,
         Report(w, d, news)
  PROVE  /\ txNews' \in [Workers -> SUBSET (Devices \X News)]
         /\ \A v \in Workers \ {w} : txNews'[v] = txNews[v]
<1>1. {<<d, n>> : n \in news} \subseteq Devices \X News
  OBVIOUS
<1>2. QED
  BY <1>1 DEF TypeOK, Report

LEMMA NextTypeOK == TypeOK /\ ClaimsExclusive /\ [Next]_vars => TypeOK'
<1> SUFFICES ASSUME TypeOK, ClaimsExclusive, [Next]_vars PROVE TypeOK'
  OBVIOUS
<1> USE LimitsAssumption DEF TypeOK, tables, tx, bounds, TurnOver
<1>1. ASSUME NEW o \in Operations, NEW d \in Devices, NEW type \in Types,
             Enqueue(o, d, type)
      PROVE  TypeOK'
  BY <1>1 DEF Enqueue, Operation
<1>2. ASSUME NEW d \in Devices, NEW status \in {"active", "disabled"},
             SetStatus(d, status)
      PROVE  TypeOK'
  BY <1>2 DEF SetStatus, Device
<1>3. ASSUME NEW d \in Devices, NEW adapter \in Adapters, Reconfigure(d, adapter)
      PROVE  TypeOK'
  BY <1>3 DEF Reconfigure, Device
<1>4. ASSUME NEW d \in Devices, Elapse(d)
      PROVE  TypeOK'
  BY <1>4 DEF Elapse
<1>5. ASSUME NEW w \in Workers, Claim(w)
      PROVE  TypeOK'
  <2>1. First(Claimable, ClaimLimit) \subseteq Operations
    BY DEF First, Claimable, Pending
  <2>2. QED
    BY <1>5, <2>1 DEF Claim
<1>6. ASSUME NEW w \in Workers, NEW o \in Operations, NEW outcome \in Outcomes,
             Process(w, o, outcome)
      PROVE  TypeOK'
  <2>1. o \in claimed[w] /\ ops[o].device \in Devices
    <3>1. o \in Unprocessed(w)
      BY <1>6, FirstIsSubset DEF Process
    <3>2. o \in Pending
      BY <3>1 DEF Unprocessed, ClaimsExclusive
    <3>3. QED
      BY <3>1, <3>2 DEF Unprocessed, Pending, Operation
  <2>2. OperationNews(ops[o].type, ops[o].device, outcome) \subseteq Devices \X News
    BY <2>1 DEF OperationNews
  <2>3. QED
    BY <1>6, <2>2 DEF Process
<1>7. ASSUME NEW w \in Workers, SelectDevices(w)
      PROVE  TypeOK'
  <2>1. Scheduled(w) \subseteq Devices
    BY DEF Scheduled, First, Active
  <2>2. QED
    BY <1>7, <2>1 DEF SelectDevices
<1>8. ASSUME NEW w \in Workers, NEW d \in Devices, PassOver(w, d)
      PROVE  TypeOK'
  BY <1>8 DEF PassOver, Turn
<1>9. ASSUME NEW w \in Workers, NEW d \in Devices, RecordUnavailable(w, d)
      PROVE  TypeOK'
  <2>1. /\ txNews' \in [Workers -> SUBSET (Devices \X News)]
        /\ \A v \in Workers \ {w} : txNews'[v] = txNews[v]
    BY <1>9, ReportType DEF RecordUnavailable
  <2>2. QED
    BY <1>9, <2>1 DEF RecordUnavailable, Turn
<1>10. ASSUME NEW w \in Workers, NEW d \in Devices, ResolverFails(w, d)
       PROVE  TypeOK'
  BY <1>10, RollBackType DEF ResolverFails
<1>11. ASSUME NEW w \in Workers, NEW d \in Devices, NEW outcome \in Outcomes,
              Pull(w, d, outcome)
       PROVE  TypeOK'
  <2>1. PICK news \in SUBSET News : Report(w, d, news)
    BY <1>11 DEF Pull
  <2>2. /\ txNews' \in [Workers -> SUBSET (Devices \X News)]
        /\ \A v \in Workers \ {w} : txNews'[v] = txNews[v]
    BY <2>1, ReportType
  <2>3. QED
    BY <1>11, <2>2 DEF Pull, Turn
<1>12. ASSUME NEW w \in Workers, Commit(w)
       PROVE  TypeOK'
  <2>1. ASSUME NEW o \in Processed(w)
        PROVE  [ops[o] EXCEPT !.status = CHOOSE s \in Outcomes : <<o, s>> \in txOps[w]]
                 \in Operation
    <3>1. ops[o] \in Operation
      BY DEF ClaimsExclusive, Pending
    <3>2. \E s \in Outcomes : <<o, s>> \in txOps[w]
      BY DEF Processed
    <3>3. (CHOOSE s \in Outcomes : <<o, s>> \in txOps[w]) \in Outcomes
      BY <3>2
    <3>4. QED
      BY <3>1, <3>3 DEF Operation
  <2>2. ops' \in [Operations -> Operation \cup {NoOperation}]
    BY <1>12, <2>1 DEF Commit
  <2>3. QED
    BY <1>12, <2>2 DEF Commit
<1>13. ASSUME NEW w \in Workers, Fault(w)
       PROVE  TypeOK'
  BY <1>13, RollBackType DEF Fault
<1>14. CASE UNCHANGED vars
  BY <1>14 DEF vars
<1> HIDE DEF TypeOK
<1> QED
  BY <1>1, <1>2, <1>3, <1>4, <1>5, <1>6, <1>7, <1>8, <1>9, <1>10, <1>11, <1>12,
     <1>13, <1>14 DEF Next, Step

\* A rollback leaves every other worker's claims alone and w without any.
LEMMA RollBackClaims ==
  ASSUME TypeOK, ClaimsExclusive, NEW w \in Workers, RollBack(w)
  PROVE  ClaimsExclusive'
<1>1. Pending' = Pending
  BY DEF RollBack, tables, Pending
<1>2. QED
  BY <1>1 DEF TypeOK, ClaimsExclusive, RollBack, Processed

LEMMA NextClaims == TypeOK /\ ClaimsExclusive /\ [Next]_vars => ClaimsExclusive'
<1> SUFFICES ASSUME TypeOK, ClaimsExclusive, [Next]_vars PROVE ClaimsExclusive'
  OBVIOUS
<1> USE DEF tables, tx, bounds
<1>0. ASSUME UNCHANGED <<ops, claimed, txOps>>
      PROVE  ClaimsExclusive'
  BY <1>0 DEF ClaimsExclusive, Pending, Processed
<1>1. ASSUME NEW o \in Operations, NEW d \in Devices, NEW type \in Types,
             Enqueue(o, d, type)
      PROVE  ClaimsExclusive'
  <2>1. Pending \subseteq Pending'
    BY <1>1, NoOperationAssumption DEF Enqueue, Pending, TypeOK, Operation
  <2>2. QED
    BY <1>1, <2>1 DEF Enqueue, ClaimsExclusive, Processed
<1>2. ASSUME NEW w \in Workers, Claim(w)
      PROVE  ClaimsExclusive'
  <2>1. /\ claimed'[w] \subseteq Pending \ Locked
        /\ \A v \in Workers \ {w} : claimed'[v] = claimed[v]
    <3>1. First(Claimable, ClaimLimit) \subseteq Pending \ Locked
      BY FirstIsSubset DEF Claimable
    <3>2. QED
      BY <1>2, <3>1 DEF Claim, TypeOK
  <2>2. txOps[w] = {} /\ txOps' = txOps /\ Pending' = Pending
    BY <1>2 DEF Claim, TypeOK, Pending
  <2>3. QED
    BY <2>1, <2>2 DEF ClaimsExclusive, Locked, Processed
<1>3. ASSUME NEW w \in Workers, NEW o \in Operations, NEW outcome \in Outcomes,
             Process(w, o, outcome)
      PROVE  ClaimsExclusive'
  <2>1. o \in claimed[w] /\ o \notin Processed(w)
    BY <1>3, FirstIsSubset DEF Process, Unprocessed
  <2>2. /\ txOps'[w] = txOps[w] \cup {<<o, outcome>>}
        /\ \A v \in Workers \ {w} : txOps'[v] = txOps[v]
        /\ claimed' = claimed
        /\ Pending' = Pending
    BY <1>3 DEF Process, TypeOK, Pending
  <2>3. \A r, s \in txOps'[w] : r[1] = s[1] => r = s
    BY <2>1, <2>2 DEF ClaimsExclusive, Processed
  <2>4. Processed(w)' = Processed(w) \cup {o}
    <3>1. <<o, outcome>>[1] = o
      OBVIOUS
    <3>2. QED
      BY <2>2, <3>1, Zenon DEF Processed
  <2>5. \A v \in Workers \ {w} : Processed(v)' = Processed(v)
    BY <2>2 DEF Processed
  <2>6. QED
    BY <2>1, <2>2, <2>3, <2>4, <2>5 DEF ClaimsExclusive
<1>4. ASSUME NEW w \in Workers, Commit(w)
      PROVE  ClaimsExclusive'
  <2>1. /\ claimed'[w] = {} /\ txOps'[w] = {}
        /\ \A v \in Workers \ {w} : claimed'[v] = claimed[v] /\ txOps'[v] = txOps[v]
    BY <1>4 DEF Commit, TypeOK
  <2>2. \A o \in Pending : o \notin Processed(w) => o \in Pending'
    BY <1>4 DEF Commit, Pending
  <2>3. \A v \in Workers \ {w} : claimed[v] \subseteq Pending'
    BY <2>2 DEF ClaimsExclusive
  <2>4. QED
    BY <2>1, <2>3 DEF ClaimsExclusive, Processed
<1>5. ASSUME NEW w \in Workers, Fault(w)
      PROVE  ClaimsExclusive'
  BY <1>5, RollBackClaims DEF Fault
<1>6. ASSUME NEW w \in Workers, NEW d \in Devices, ResolverFails(w, d)
      PROVE  ClaimsExclusive'
  BY <1>6, RollBackClaims DEF ResolverFails
<1>7. ASSUME NEW w \in Workers,
             \/ SelectDevices(w)
             \/ \E d \in Devices : PassOver(w, d) \/ RecordUnavailable(w, d)
             \/ \E d \in Devices, outcome \in Outcomes : Pull(w, d, outcome)
      PROVE  ClaimsExclusive'
  BY <1>7, <1>0 DEF SelectDevices, PassOver, RecordUnavailable, Pull
<1>8. ASSUME NEW d \in Devices,
             \/ \E status \in {"active", "disabled"} : SetStatus(d, status)
             \/ \E adapter \in Adapters : Reconfigure(d, adapter)
             \/ Elapse(d)
      PROVE  ClaimsExclusive'
  BY <1>8, <1>0 DEF SetStatus, Reconfigure, Elapse
<1>9. CASE UNCHANGED vars
  BY <1>9, <1>0 DEF vars
<1> QED
  BY <1>1, <1>2, <1>3, <1>4, <1>5, <1>6, <1>7, <1>8, <1>9 DEF Next, Step

LEMMA Invariant == Spec => [](TypeOK /\ ClaimsExclusive)
<1>1. Init => TypeOK /\ ClaimsExclusive
  BY InitTypeOK DEF Init, ClaimsExclusive, Processed
<1>2. QED
  BY <1>1, NextTypeOK, NextClaims, PTL DEF Spec

\* Every reachable state has the declared shape, and a worker between two
\* cycles has no lock and no unwritten result (worker/__main__.py and
\* worker_cli.py end each cycle with a commit or a rollback).
THEOREM TypeCorrect == Spec => []TypeOK
BY Invariant, PTL

\* However many workers run either program, whatever fails and is retried: an
\* operation is in the hands of at most one open transaction, is decided there
\* at most once, and is still pending in the table (DeviceOperationService.pending
\* with FOR UPDATE SKIP LOCKED).
THEOREM OneWorkerPerOperation == Spec => []ClaimsExclusive
BY Invariant, PTL

\* The committed outcome of an operation is final: no worker that raced for it
\* overwrites it.
THEOREM OutcomesAreFinal == Spec => FinishedForGood
<1> DEFINE Final == \A o \in Operations :
                      ops[o] # NoOperation /\ o \notin Pending => ops'[o] = ops[o]
<1>1. TypeOK /\ ClaimsExclusive /\ [Next]_vars => [Final]_vars
  <2> SUFFICES ASSUME TypeOK, ClaimsExclusive, [Next]_vars,
                      NEW o \in Operations, ops[o] # NoOperation, o \notin Pending
               PROVE  ops'[o] = ops[o]
    OBVIOUS
  <2>1. ASSUME NEW w \in Workers, Commit(w)
        PROVE  ops'[o] = ops[o]
    <3>1. o \notin Processed(w)
      BY DEF ClaimsExclusive
    <3>2. QED
      BY <2>1, <3>1 DEF Commit
  <2>2. ASSUME NEW p \in Operations, NEW d \in Devices, NEW type \in Types,
               Enqueue(p, d, type)
        PROVE  ops'[o] = ops[o]
    BY <2>2 DEF Enqueue, TypeOK
  <2>3. CASE UNCHANGED ops
    BY <2>3
  <2>4. QED
    BY <2>1, <2>2, <2>3
    DEF Next, Step, SetStatus, Reconfigure, Elapse, Claim, Process,
        SelectDevices, PassOver, RecordUnavailable, ResolverFails, Pull, Fault,
        RollBack, vars, tables
<1>2. Spec => [][Final]_vars
  BY <1>1, Invariant, PTL DEF Spec
<1>3. QED
  BY <1>2 DEF FinishedForGood

\* With "python -m hajiriflow.worker" no condition of a device costs another
\* device its results: what a cycle has done is committed unless the process or
\* the database fails.
THEOREM ServiceKeepsWork == Service => (Spec => WorkKept)
<1> SUFFICES ASSUME Service PROVE Spec => WorkKept
  OBVIOUS
<1> DEFINE Keeps ==
      \A w \in Workers :
        txOps[w] # {} /\ txOps'[w] = {} /\ UNCHANGED faults =>
          \A r \in txOps[w] : ops'[r[1]].status = r[2]
<1>1. TypeOK /\ ClaimsExclusive /\ [Next]_vars => [Keeps]_vars
  <2> SUFFICES ASSUME TypeOK, ClaimsExclusive, [Next]_vars,
                      NEW w \in Workers, txOps[w] # {}, txOps'[w] = {},
                      UNCHANGED faults, NEW r \in txOps[w]
               PROVE  ops'[r[1]].status = r[2]
    OBVIOUS
  <2>1. CASE Commit(w)
    <3>1. r[1] \in Processed(w) /\ r[1] \in Operations /\ r[2] \in Outcomes
          /\ r = <<r[1], r[2]>>
      BY DEF Processed, TypeOK
    <3>2. r[1] \in Pending /\ ops[r[1]] \in Operation
      BY <3>1 DEF ClaimsExclusive, Pending, TypeOK
    <3>3. (CHOOSE s \in Outcomes : <<r[1], s>> \in txOps[w]) = r[2]
      <4>1. \A s \in Outcomes : <<r[1], s>> \in txOps[w] => s = r[2]
        BY <3>1 DEF ClaimsExclusive
      <4>2. QED
        BY <3>1, <4>1
    <3>4. ops'[r[1]] = [ops[r[1]] EXCEPT !.status = r[2]]
      BY <2>1, <3>1, <3>3 DEF Commit
    <3>5. QED
      BY <3>2, <3>4 DEF Operation
  <2>2. ASSUME NEW v \in Workers \ {w}, Commit(v)
        PROVE  FALSE
    BY <2>2 DEF Commit, TypeOK
  <2>3. ASSUME NEW v \in Workers, NEW o \in Operations, NEW outcome \in Outcomes,
               Process(v, o, outcome)
        PROVE  FALSE
    BY <2>3 DEF Process, TypeOK
  <2>4. ASSUME NEW v \in Workers, Fault(v)
        PROVE  FALSE
    BY <2>4 DEF Fault, TypeOK
  <2>5. ASSUME UNCHANGED txOps
        PROVE  FALSE
    BY <2>5
  <2>6. QED
    BY <2>1, <2>2, <2>3, <2>4, <2>5
    DEF Next, Step, Enqueue, SetStatus, Reconfigure, Elapse, Claim, SelectDevices,
        PassOver, RecordUnavailable, ResolverFails, Pull, tx, vars
<1>2. Spec => [][Keeps]_vars
  BY <1>1, Invariant, PTL DEF Spec
<1>3. QED
  BY <1>2 DEF WorkKept
===============================================================================

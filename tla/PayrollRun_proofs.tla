--------------------------- MODULE PayrollRun_proofs ---------------------------
(***************************************************************************)
(* Proofs about PayrollRun for any number of people, employees, concurrent *)
(* calls, runs, adjustments and overlaps.                                  *)
(*                                                                         *)
(* The argument has two halves.  What a call has checked of columns that   *)
(* are written once stays true until it writes (CallsChecked): that gives  *)
(* FourEyes without any condition.  And what it has checked of any column  *)
(* stays true until another call commits, which is when it becomes         *)
(* overtaken (CallsCurrent): that gives the properties of Serial.          *)
(***************************************************************************)
EXTENDS PayrollRun, TLAPS

\* What no step changes of the rows that exist.
RowsKept ==
  /\ period'.maker = period.maker
  /\ period.locker \in Users \ {period.maker} =>
       period'.locker \in Users \ {period'.maker}
  /\ \A n \in Taken :
       /\ n \in Taken'
       /\ runs'[n].maker = runs[n].maker
       /\ runs'[n].reverses = runs[n].reverses
       /\ ApprovedByOther(n) => ApprovedByOther(n)'
       /\ \A e \in Employees : lines[n][e] # NoLine => lines'[n][e] # NoLine

LEMMA InitInv == Init => TypeOK /\ PayrollInv /\ FourEyes
<1> SUFFICES ASSUME Init PROVE TypeOK /\ PayrollInv /\ FourEyes
  OBVIOUS
<1> USE DEF Init, NoLines, Taken
<1>1. TypeOK
  BY NumbersAssumption DEF TypeOK
<1>2. Taken = {}
  OBVIOUS
<1>3. CallsChecked /\ CallsCurrent
  BY DEF CallsChecked, CallsCurrent, Running
<1>4. RowsFit
  BY <1>2 DEF RowsFit
<1>5. FourEyes
  BY <1>2 DEF FourEyes
<1>6. QED
  BY <1>1, <1>3, <1>4, <1>5 DEF PayrollInv

-----------------------------------------------------------------------------
(***************************************************************************)
(* Type correctness.                                                       *)
(***************************************************************************)

LEMMA RunTaken ==
  ASSUME TypeOK, NEW n \in Taken
  PROVE  n \in Numbers /\ runs[n] \in Run /\ runs[n] # NoRun
BY DEF TypeOK, Taken

LEMMA CallType ==
  ASSUME TypeOK, NEW r \in Requests, requests[r] # NoRequest
  PROVE  requests[r] \in Request
BY DEF TypeOK

\* A call that may write refers to rows that exist.
LEMMA CallRun ==
  ASSUME TypeOK, CallsChecked, NEW r \in Requests, requests[r] # NoRequest
  PROVE  /\ requests[r] \in Request
         /\ requests[r].op \in OnRuns =>
              requests[r].run \in Taken /\ runs[requests[r].run] \in Run
<1>1. requests[r] \in Request
  BY CallType
<1>2. requests[r].op \in OnRuns => requests[r].run \in Taken
  BY DEF CallsChecked, Checked, Running
<1>3. QED
  BY <1>1, <1>2, RunTaken

\* The end of a call keeps the shape of the calls.
LEMMA CommittedType ==
  ASSUME TypeOK, NEW r \in Requests, Committed(r),
         r \in overtaken => overlaps < MaxOverlaps
  PROVE  /\ requests' \in [Requests -> Request \cup {NoRequest}]
         /\ overtaken' \subseteq Requests
         /\ overlaps' \in 0 .. MaxOverlaps
BY NumbersAssumption DEF TypeOK, Committed

\* A line that an adjustment has been added to is a line.
LEMMA AdjustedType ==
  ASSUME NEW now \in Line, NEW seen \in Line, NEW type \in Adjustments,
         Payable(WithAdjustment(seen, seen, type))
  PROVE  WithAdjustment(now, seen, type) \in Line
<1>1. CASE type = "earning"
  <2>1. seen.deductions <= seen.gross + 1
    BY <1>1 DEF Payable, WithAdjustment, Line
  <2>2. (seen.gross + 1) - seen.deductions \in Nat /\ seen.gross + 1 \in Nat
    BY <2>1 DEF Line
  <2>3. QED
    BY <1>1, <2>2 DEF WithAdjustment, Line
<1>2. CASE type = "deduction"
  <2>1. seen.deductions + 1 <= seen.gross
    BY <1>2 DEF Payable, WithAdjustment, Line
  <2>2. seen.gross - (seen.deductions + 1) \in Nat /\ seen.deductions + 1 \in Nat
    BY <2>1 DEF Line
  <2>3. QED
    BY <1>2, <2>2 DEF WithAdjustment, Line
<1>3. QED
  BY <1>1, <1>2 DEF Adjustments

LEMMA NewLineType == NewLine \in Line
BY NumbersAssumption DEF NewLine, Line

LEMMA BeginType ==
  ASSUME TypeOK, NEW r \in Requests, NEW op \in Operations, NEW user \in Users,
         NEW n \in 0 .. MaxRuns, NEW staff \in SUBSET Employees,
         Begin(r, op, user, n, staff)
  PROVE  TypeOK'
<1> DEFINE q == [op |-> op, user |-> IF op \in Signed THEN user ELSE NoUser,
                 run |-> n, staff |-> staff,
                 lines |-> IF op \in Adjustments THEN lines[n] ELSE NoLines,
                 requester |-> IF op = "approve_reversal" THEN runs[n].requester ELSE NoUser,
                 number |-> 0]
<1>1. ASSUME op \in Adjustments
      PROVE  n \in Numbers
  BY <1>1 DEF Begin, May, MayAdjust, In, Taken, Adjustments
<1>2. ASSUME op = "approve_reversal"
      PROVE  runs[n].requester \in Users \cup {NoUser}
  <2>1. n \in Taken
    BY <1>2 DEF Begin, May, MayApproveReversal, In, Adjustments
  <2>2. QED
    BY <2>1, RunTaken DEF Run
<1>3. NoLines \in [Employees -> Line \cup {NoLine}]
  BY DEF NoLines
<1>4. q.lines \in [Employees -> Line \cup {NoLine}]
  BY <1>1, <1>3 DEF TypeOK
<1>5. q.requester \in Users \cup {NoUser}
  BY <1>2
<1>6. q \in Request
  BY <1>4, <1>5, NumbersAssumption DEF Request
<1>7. requests' = [requests EXCEPT ![r] = q]
  BY DEF Begin
<1> HIDE DEF q
<1>8. QED
  BY <1>6, <1>7 DEF Begin, TypeOK, tables

LEMMA TakeNumberType ==
  ASSUME TypeOK, NEW r \in Requests, NEW number \in Numbers, TakeNumber(r, number)
  PROVE  TypeOK'
<1>1. requests[r] \in Request
  BY CallType DEF TakeNumber
<1>2. [requests[r] EXCEPT !.number = number] \in Request
  BY <1>1, NumbersAssumption DEF Request, Numbers
<1>3. QED
  BY <1>2 DEF TakeNumber, TypeOK, tables

LEMMA RunWritten ==
  ASSUME TypeOK, NEW n \in Numbers, NEW row \in Run
  PROVE  [runs EXCEPT ![n] = row] \in [Numbers -> Run \cup {NoRun}]
BY DEF TypeOK

LEMMA WriteType ==
  ASSUME TypeOK, CallsChecked, NEW r \in Requests, Write(r)
  PROVE  TypeOK'
<1> DEFINE q == requests[r]
<1>1. q # NoRequest /\ (r \in overtaken => overlaps < MaxOverlaps) /\ Committed(r)
  BY DEF Write, LockPeriod, ClosePeriod, CreateRun, AddLine, Adjust, SubmitRun, ApproveRun,
         PostRun, RequestReversal, ApproveReversal, Ready
<1>2. /\ requests' \in [Requests -> Request \cup {NoRequest}]
      /\ overtaken' \subseteq Requests
      /\ overlaps' \in 0 .. MaxOverlaps
  BY <1>1, CommittedType
<1>3. /\ q \in Request
      /\ q.op \in OnRuns => q.run \in Taken /\ runs[q.run] \in Run
      /\ q.op \in OnRuns => q.run \in Numbers
      /\ q.op \in Signed => q.user \in Users
  BY <1>1, CallRun, RunTaken DEF CallsChecked, Checked, Running
<1>4. CASE LockPeriod(r)
  BY <1>2, <1>3, <1>4 DEF LockPeriod, Ready, Signed, TypeOK
<1>5. CASE ClosePeriod(r)
  BY <1>2, <1>5 DEF ClosePeriod, TypeOK
<1>6. CASE CreateRun(r)
  <2> DEFINE row == [status |-> "draft", maker |-> q.user, approver |-> NoUser,
                     requester |-> NoUser, reverses |-> 0]
             new == [e \in Employees |-> IF e \in q.staff THEN NewLine ELSE NoLine]
  <2>1. q.user \in Users /\ q.number \in Numbers
    BY <1>3, <1>6 DEF CreateRun, Ready, Signed
  <2>2. row \in Run
    BY <2>1, NumbersAssumption DEF Run
  <2>3. new \in [Employees -> Line \cup {NoLine}]
    BY NewLineType
  <2>4. runs' \in [Numbers -> Run \cup {NoRun}]
    BY <1>6, <2>1, <2>2, RunWritten DEF CreateRun
  <2> HIDE DEF new
  <2>5. lines' = [lines EXCEPT ![q.number] = new]
    BY <1>6 DEF CreateRun, new
  <2>6. QED
    BY <1>2, <1>6, <2>1, <2>3, <2>4, <2>5 DEF CreateRun, TypeOK
<1>7. CASE AddLine(r)
  <2>1. q.run \in Numbers
    BY <1>3, <1>7 DEF AddLine, Ready, OnRuns, Operations
  <2>2. PICK e \in q.staff : lines' = [lines EXCEPT ![q.run][e] = NewLine]
    BY <1>7 DEF AddLine
  <2>3. e \in Employees
    BY <1>3 DEF Request
  <2>4. lines' \in [Numbers -> [Employees -> Line \cup {NoLine}]]
    BY <2>1, <2>2, <2>3, NewLineType DEF TypeOK
  <2>5. QED
    BY <1>2, <1>7, <2>4 DEF AddLine, TypeOK
<1>8. CASE Adjust(r)
  <2>1. q.op \in Adjustments /\ q.run \in Numbers
    BY <1>3, <1>8 DEF Adjust, Ready, Adjustments, OnRuns, Operations
  <2>2. PICK e \in q.staff :
          /\ lines' = [lines EXCEPT ![q.run][e] = WithAdjustment(@, q.lines[e], q.op)]
          /\ adjusted' = [adjusted EXCEPT ![q.run][e][q.op] = @ + 1]
    BY <1>8 DEF Adjust
  <2>3. /\ e \in Employees
        /\ lines[q.run][e] # NoLine
        /\ q.lines[e] \in Line
        /\ Payable(WithAdjustment(q.lines[e], q.lines[e], q.op))
    BY <1>1, <1>3, <2>1 DEF CallsChecked, Checked, Running, Request
  <2>4. lines[q.run][e] \in Line
    BY <2>1, <2>3 DEF TypeOK
  <2>5. WithAdjustment(lines[q.run][e], q.lines[e], q.op) \in Line
    BY <2>1, <2>3, <2>4, AdjustedType
  <2>6. lines' \in [Numbers -> [Employees -> Line \cup {NoLine}]]
    BY <2>1, <2>2, <2>3, <2>5 DEF TypeOK
  <2>7. adjusted' \in [Numbers -> [Employees -> [Adjustments -> Nat]]]
    BY <2>1, <2>2, <2>3 DEF TypeOK
  <2>8. QED
    BY <1>2, <1>8, <2>6, <2>7 DEF Adjust, TypeOK
<1>9. ASSUME SubmitRun(r) \/ ApproveRun(r) \/ PostRun(r) \/ RequestReversal(r)
      PROVE  TypeOK'
  <2>1. q.op \in OnRuns /\ (ApproveRun(r) \/ RequestReversal(r) => q.op \in Signed)
    BY <1>9 DEF SubmitRun, ApproveRun, PostRun, RequestReversal, Ready, OnRuns, Operations,
                Signed
  <2>2. \E row \in Run : runs' = [runs EXCEPT ![q.run] = row]
    <3>1. CASE SubmitRun(r)
      <4>1. [runs[q.run] EXCEPT !.status = "pending_approval"] \in Run
        BY <1>3, <2>1 DEF Run
      <4>2. QED
        BY <3>1, <4>1 DEF SubmitRun
    <3>2. CASE ApproveRun(r)
      <4>1. [runs[q.run] EXCEPT !.status = "approved", !.approver = q.user] \in Run
        BY <1>3, <2>1, <3>2 DEF Run
      <4>2. QED
        BY <3>2, <4>1 DEF ApproveRun
    <3>3. CASE PostRun(r)
      <4>1. [runs[q.run] EXCEPT !.status = "posted"] \in Run
        BY <1>3, <2>1 DEF Run
      <4>2. QED
        BY <3>3, <4>1 DEF PostRun
    <3>4. CASE RequestReversal(r)
      <4>1. [runs[q.run] EXCEPT !.status = "reversal_pending", !.requester = q.user] \in Run
        BY <1>3, <2>1, <3>4 DEF Run
      <4>2. QED
        BY <3>4, <4>1 DEF RequestReversal
    <3>5. QED
      BY <1>9, <3>1, <3>2, <3>3, <3>4
  <2>3. runs' \in [Numbers -> Run \cup {NoRun}]
    BY <1>3, <2>1, <2>2, RunWritten
  <2>4. UNCHANGED <<period, lines, adjusted>>
    BY <1>9 DEF SubmitRun, ApproveRun, PostRun, RequestReversal
  <2>5. QED
    BY <1>2, <2>3, <2>4 DEF TypeOK
<1>10. CASE ApproveReversal(r)
  <2> DEFINE row == [status |-> "posted", maker |-> q.requester, approver |-> q.user,
                     requester |-> NoUser, reverses |-> q.run]
  <2>1. /\ q.op = "approve_reversal" /\ q.op \in OnRuns /\ q.op \in Signed
        /\ q.number \in Numbers
        /\ q.requester \in Users
    BY <1>1, <1>10
    DEF ApproveReversal, Ready, OnRuns, Operations, Signed, CallsChecked, Checked, Running
  <2>2. row \in Run
    BY <1>3, <2>1 DEF Run, Numbers
  <2>3. [runs[q.run] EXCEPT !.status = "reversed"] \in Run
    BY <1>3, <2>1 DEF Run
  <2>4. q.number # q.run
    BY <1>3, <1>10, <2>1 DEF ApproveReversal
  <2> HIDE DEF row
  <2>5. runs' = [runs EXCEPT ![q.number] = row,
                             ![q.run] = [runs[q.run] EXCEPT !.status = "reversed"]]
    BY <1>3, <1>10, <2>1, <2>4 DEF ApproveReversal, TypeOK, row
  <2>6. runs' \in [Numbers -> Run \cup {NoRun}]
    BY <1>3, <2>1, <2>2, <2>3, <2>5 DEF TypeOK
  <2>7. ASSUME NEW e \in Employees, lines[q.run][e] # NoLine
        PROVE  [lines[q.run][e] EXCEPT !.direction = "reversal"] \in Line
    <3>1. lines[q.run][e] \in Line
      BY <1>3, <2>1, <2>7 DEF TypeOK
    <3>2. QED
      BY <3>1 DEF Line
  <2>8. Reversal(q.run) \in [Employees -> Line \cup {NoLine}]
    BY <2>7 DEF Reversal
  <2>9. lines' \in [Numbers -> [Employees -> Line \cup {NoLine}]]
    BY <1>10, <2>1, <2>8 DEF ApproveReversal, TypeOK
  <2>10. QED
    BY <1>2, <1>10, <2>6, <2>9 DEF ApproveReversal, TypeOK
<1>11. QED
  BY <1>4, <1>5, <1>6, <1>7, <1>8, <1>9, <1>10 DEF Write

LEMMA StepType == TypeOK /\ CallsChecked /\ [Next]_vars => TypeOK'
<1> SUFFICES ASSUME TypeOK, CallsChecked, [Next]_vars PROVE TypeOK'
  OBVIOUS
<1>1. CASE UNCHANGED vars
  BY <1>1 DEF TypeOK, vars, tables
<1>2. ASSUME NEW r \in Requests, Abandon(r)
      PROVE  TypeOK'
  BY <1>2 DEF Abandon, TypeOK, tables
<1>3. QED
  BY <1>1, <1>2, BeginType, TakeNumberType, WriteType DEF Next
-----------------------------------------------------------------------------
(***************************************************************************)
(* The invariant.                                                          *)
(***************************************************************************)

\* What a write does to one run: nothing, unless it is the run of the call or
\* a new one; and it never changes who made a run.
LEMMA WriteKeepsRows ==
  ASSUME TypeOK, CallsChecked, NEW r \in Requests, Write(r)
  PROVE  RowsKept
<1> DEFINE q == requests[r]
<1>1. q # NoRequest
  BY DEF Write, LockPeriod, ClosePeriod, CreateRun, AddLine, Adjust, SubmitRun, ApproveRun,
         PostRun, RequestReversal, ApproveReversal, Ready
<1>2. /\ q \in Request
      /\ q.op \in OnRuns => q.run \in Taken /\ runs[q.run] \in Run
  BY <1>1, CallRun
<1>3. /\ period'.maker = period.maker
      /\ period.locker \in Users \ {period.maker} =>
           period'.locker \in Users \ {period'.maker}
  <2>1. CASE LockPeriod(r)
    <3>1. q.user \in Users /\ q.user # period.maker
      BY <1>1, <2>1 DEF LockPeriod, Ready, CallsChecked, Checked, Running, Signed
    <3>2. QED
      BY <2>1, <3>1 DEF LockPeriod, TypeOK
  <2>2. CASE ClosePeriod(r)
    BY <2>2 DEF ClosePeriod, TypeOK
  <2>3. CASE UNCHANGED period
    BY <2>3
  <2>4. QED
    BY <2>1, <2>2, <2>3 DEF Write, CreateRun, AddLine, Adjust, SubmitRun, ApproveRun,
         PostRun, RequestReversal, ApproveReversal
<1>4. ASSUME NEW n \in Taken
      PROVE  /\ n \in Taken'
             /\ runs'[n].maker = runs[n].maker
             /\ runs'[n].reverses = runs[n].reverses
             /\ ApprovedByOther(n) => ApprovedByOther(n)'
  <2>1. n \in Numbers /\ runs[n] \in Run /\ runs[n] # NoRun
    BY RunTaken
  <2>2. CASE UNCHANGED runs
    BY <2>2 DEF Taken, ApprovedByOther
  <2>3. ASSUME runs'[n] = runs[n]
        PROVE  /\ n \in Taken'
               /\ runs'[n].maker = runs[n].maker
               /\ runs'[n].reverses = runs[n].reverses
               /\ ApprovedByOther(n) => ApprovedByOther(n)'
    BY <2>1, <2>3 DEF Taken, ApprovedByOther
  <2>4. ASSUME runs'[n] \in Run,
               runs'[n].maker = runs[n].maker, runs'[n].reverses = runs[n].reverses,
               runs'[n].approver \in {runs[n].approver} \cup (Users \ {runs[n].maker})
        PROVE  /\ n \in Taken'
               /\ runs'[n].maker = runs[n].maker
               /\ runs'[n].reverses = runs[n].reverses
               /\ ApprovedByOther(n) => ApprovedByOther(n)'
    BY <2>1, <2>4, NoneAssumption DEF Taken, ApprovedByOther
  <2>5. CASE CreateRun(r)
    BY <2>1, <2>3, <2>5 DEF CreateRun, Taken, TypeOK
  <2>6. CASE SubmitRun(r)
    BY <1>2, <2>1, <2>3, <2>4, <2>6 DEF SubmitRun, Ready, OnRuns, Operations, TypeOK, Run
  <2>7. CASE ApproveRun(r)
    <3>1. q.user \in Users /\ q.user # runs[q.run].maker
      BY <1>1, <2>7 DEF ApproveRun, Ready, CallsChecked, Checked, Running, Signed
    <3>2. QED
      BY <1>2, <2>1, <2>3, <2>4, <2>7, <3>1
      DEF ApproveRun, Ready, OnRuns, Operations, TypeOK, Run
  <2>8. CASE PostRun(r)
    BY <1>2, <2>1, <2>3, <2>4, <2>8 DEF PostRun, Ready, OnRuns, Operations, TypeOK, Run
  <2>9. CASE RequestReversal(r)
    <3>1. q.user \in Users
      BY <1>1, <2>9 DEF RequestReversal, Ready, CallsChecked, Checked, Running, Signed
    <3>2. QED
      BY <1>2, <2>1, <2>3, <2>4, <2>9, <3>1
      DEF RequestReversal, Ready, OnRuns, Operations, TypeOK, Run
  <2>10. CASE ApproveReversal(r)
    <3>1. n # q.number
      BY <2>10 DEF ApproveReversal
    <3>2. runs'[n] = IF n = q.run THEN [runs[n] EXCEPT !.status = "reversed"] ELSE runs[n]
      BY <2>1, <2>10, <3>1 DEF ApproveReversal, TypeOK
    <3>3. QED
      BY <2>1, <2>3, <2>4, <3>2 DEF Run
  <2>11. QED
    BY <2>2, <2>5, <2>6, <2>7, <2>8, <2>9, <2>10
    DEF Write, LockPeriod, ClosePeriod, AddLine, Adjust
<1>5. ASSUME NEW n \in Taken, NEW e \in Employees, lines[n][e] # NoLine
      PROVE  lines'[n][e] # NoLine
  <2>1. n \in Numbers
    BY RunTaken
  <2>2. CASE CreateRun(r) \/ ApproveReversal(r)
    BY <1>5, <2>1, <2>2 DEF CreateRun, ApproveReversal, TypeOK
  <2>3. CASE AddLine(r)
    <3>1. PICK f \in q.staff : lines' = [lines EXCEPT ![q.run][f] = NewLine]
      BY <2>3 DEF AddLine
    <3>2. QED
      BY <1>5, <2>1, <3>1, NewLineType, NoneAssumption DEF TypeOK
  <2>4. CASE Adjust(r)
    <3>1. PICK f \in q.staff :
            lines' = [lines EXCEPT ![q.run][f] = WithAdjustment(@, q.lines[f], q.op)]
      BY <2>4 DEF Adjust
    <3>2. CASE n = q.run /\ e = f
      <4>1. q.op \in Adjustments
        BY <2>4 DEF Adjust, Ready
      <4>2. q.lines[e] \in Line /\ Payable(WithAdjustment(q.lines[e], q.lines[e], q.op))
        BY <1>1, <3>2, <4>1 DEF CallsChecked, Checked, Running
      <4>3. lines[n][e] \in Line
        BY <1>5, <2>1 DEF TypeOK
      <4>4. WithAdjustment(lines[n][e], q.lines[e], q.op) \in Line
        BY <4>1, <4>2, <4>3, AdjustedType
      <4>5. QED
        BY <2>1, <3>1, <3>2, <4>4, NoneAssumption DEF TypeOK
    <3>3. CASE ~(n = q.run /\ e = f)
      BY <1>5, <2>1, <3>1, <3>3 DEF TypeOK
    <3>4. QED
      BY <3>2, <3>3
  <2>5. QED
    BY <1>5, <2>2, <2>3, <2>4
    DEF Write, LockPeriod, ClosePeriod, SubmitRun, ApproveRun, PostRun, RequestReversal
<1>6. QED
  BY <1>3, <1>4, <1>5 DEF RowsKept

LEMMA StepKeepsRows == TypeOK /\ CallsChecked /\ [Next]_vars => RowsKept
<1> SUFFICES ASSUME TypeOK, CallsChecked, [Next]_vars PROVE RowsKept
  OBVIOUS
<1>1. ASSUME UNCHANGED tables
      PROVE  RowsKept
  BY <1>1 DEF RowsKept, tables, Taken, ApprovedByOther
<1>2. QED
  BY <1>1, WriteKeepsRows DEF Next, vars, tables, Begin, TakeNumber, Abandon
\* No step undoes what a call has checked.
LEMMA CheckedKept ==
  ASSUME RowsKept, NEW q \in Request, Checked(q)
  PROVE  Checked(q)'
<1>1. q.staff \subseteq Employees
  BY DEF Request
<1>2. /\ q.op \in {"approve_run", "post_run", "request_reversal", "approve_reversal"} =>
           q.op \in OnRuns
      /\ q.op \in Adjustments => q.op \in OnRuns
  BY DEF OnRuns, Operations, Adjustments
<1>3. /\ q.op = "lock_period" => q.user # period'.maker
      /\ q.op = "close_period" => period'.locker \in Users \ {period'.maker}
      /\ q.op \in OnRuns => q.run \in Taken'
      /\ q.op = "approve_run" => q.user # runs'[q.run].maker
  BY <1>2 DEF RowsKept, Checked
<1>4. q.op \in {"post_run", "request_reversal", "approve_reversal"} => ApprovedByOther(q.run)'
  BY <1>2 DEF RowsKept, Checked
<1>5. q.op \in Adjustments => \A e \in q.staff :
        /\ lines'[q.run][e] # NoLine
        /\ q.lines[e] \in Line
        /\ Payable(WithAdjustment(q.lines[e], q.lines[e], q.op))
  BY <1>1, <1>2 DEF RowsKept, Checked
<1>6. QED
  BY <1>3, <1>4, <1>5 DEF Checked

\* A call that begins has checked what Checked says.
LEMMA BeginChecks ==
  ASSUME TypeOK, RowsFit, FourEyes, NEW r \in Requests, NEW op \in Operations,
         NEW user \in Users, NEW n \in 0 .. MaxRuns, NEW staff \in SUBSET Employees,
         Begin(r, op, user, n, staff), NEW q, q = requests'[r]
  PROVE  Checked(q) /\ Current(q)
<1>1. /\ q.op = op /\ q.run = n /\ q.staff = staff
      /\ q.user = IF op \in Signed THEN user ELSE NoUser
      /\ q.lines = IF op \in Adjustments THEN lines[n] ELSE NoLines
      /\ q.requester = IF op = "approve_reversal" THEN runs[n].requester ELSE NoUser
  BY DEF Begin, TypeOK
<1>2. May(op, user, n, staff)
  BY DEF Begin
<1>3. op \in Signed => q.user \in Users /\ q.user = user
  BY <1>1
<1>4. op \in OnRuns => n \in Taken
  BY <1>2 DEF May, MayAddLine, MayAdjust, MaySubmit, MayApprove, MayPost,
              MayRequestReversal, MayApproveReversal, In, OnRuns, Adjustments
<1>5. op = "lock_period" => q.user # period.maker
  BY <1>2, <1>3 DEF May, MayLock, Adjustments, Signed
<1>6. op = "close_period" => period.locker \in Users \ {period.maker}
  BY <1>2 DEF May, MayClose, Adjustments, FourEyes
<1>7. op = "approve_run" => q.user # runs[n].maker
  BY <1>2, <1>3 DEF May, MayApprove, Adjustments, Signed
<1>8. op \in {"post_run", "request_reversal", "approve_reversal"} => ApprovedByOther(n)
  BY <1>2 DEF May, MayPost, MayRequestReversal, MayApproveReversal, In, Adjustments,
              FourEyes, ApprovedByOther
<1>9. op = "approve_reversal" => q.requester \in Users \ {q.user}
  BY <1>1, <1>2, <1>3 DEF May, MayApproveReversal, In, Adjustments, Signed, RowsFit
<1>10. ASSUME op \in Adjustments
       PROVE  \A e \in staff :
                /\ lines[n][e] # NoLine
                /\ lines[n][e] \in Line
                /\ Payable(WithAdjustment(lines[n][e], lines[n][e], op))
  <2>1. MayAdjust(n, staff, op)
    BY <1>2, <1>10 DEF May, Adjustments
  <2>2. n \in Numbers
    BY <2>1 DEF MayAdjust, In, Taken
  <2>3. QED
    BY <2>1, <2>2 DEF MayAdjust, TypeOK
<1>11. Checked(q)
  BY <1>1, <1>3, <1>4, <1>5, <1>6, <1>7, <1>8, <1>9, <1>10 DEF Checked
<1>12. May(op, q.user, n, staff)
  BY <1>1, <1>2, <1>3 DEF May, Signed, Adjustments
<1>13. QED
  BY <1>1, <1>11, <1>12 DEF Current

\* Every step begins a call, gives its new run a number, or ends it.
LEMMA StepOnCalls ==
  ASSUME TypeOK, [Next]_vars, NEW r \in Running'
  PROVE  \/ \E op \in Operations, user \in Users, n \in 0 .. MaxRuns,
               staff \in SUBSET Employees : Begin(r, op, user, n, staff)
         \/ /\ r \in Running
            /\ \/ requests'[r] = requests[r]
               \/ \E number : requests'[r] = [requests[r] EXCEPT !.number = number]
<1>1. r \in Requests /\ requests'[r] # NoRequest
  BY DEF Running
<1>2. CASE UNCHANGED requests
  BY <1>1, <1>2 DEF Running
<1>3. ASSUME NEW s \in Requests, NEW op \in Operations, NEW user \in Users,
             NEW n \in 0 .. MaxRuns, NEW staff \in SUBSET Employees,
             Begin(s, op, user, n, staff), s # r
      PROVE  requests'[r] = requests[r]
  BY <1>1, <1>3 DEF Begin, TypeOK
<1>4. ASSUME NEW s \in Requests, NEW number \in Numbers, TakeNumber(s, number)
      PROVE  \/ requests'[r] = requests[r]
             \/ requests'[r] = [requests[r] EXCEPT !.number = number] /\ r \in Running
  BY <1>1, <1>4 DEF TakeNumber, TypeOK, Running
<1>5. ASSUME NEW s \in Requests, Abandon(s) \/ Write(s)
      PROVE  requests'[r] = requests[r]
  <2>1. requests' = [requests EXCEPT ![s] = NoRequest]
    BY <1>5 DEF Abandon, Write, LockPeriod, ClosePeriod, CreateRun, AddLine, Adjust,
        SubmitRun, ApproveRun, PostRun, RequestReversal, ApproveReversal, Committed
  <2>2. QED
    BY <1>1, <2>1 DEF TypeOK
<1>6. CASE requests'[r] = requests[r]
  BY <1>1, <1>6 DEF Running
<1>7. QED
  BY <1>2, <1>3, <1>4, <1>5, <1>6 DEF Next, vars

LEMMA StepChecks ==
  TypeOK /\ CallsChecked /\ RowsFit /\ FourEyes /\ [Next]_vars => CallsChecked'
<1> SUFFICES ASSUME TypeOK, CallsChecked, RowsFit, FourEyes, [Next]_vars,
                    NEW r \in Running'
             PROVE  Checked(requests[r])'
  BY DEF CallsChecked
<1>1. PICK q : q = requests'[r]
  OBVIOUS
<1>2. RowsKept
  BY StepKeepsRows
<1>3. r \in Requests
  BY DEF Running
<1>4. q \in Request /\ Checked(q)
  <2>1. CASE \E op \in Operations, user \in Users, n \in 0 .. MaxRuns,
                staff \in SUBSET Employees : Begin(r, op, user, n, staff)
    <3>1. q \in Request
      BY <1>1, <1>3, StepType DEF TypeOK, Running
    <3>2. QED
      BY <1>1, <1>3, <2>1, <3>1, BeginChecks
  <2>2. CASE /\ r \in Running
             /\ \/ requests'[r] = requests[r]
                \/ \E number : requests'[r] = [requests[r] EXCEPT !.number = number]
    <3>1. Checked(requests[r])
      BY <2>2 DEF CallsChecked
    <3>2. requests[r] \in Request
      BY <1>3, <2>2, CallType DEF Running
    <3>3. q \in Request
      BY <1>1, <1>3, StepType DEF TypeOK, Running
    <3>4. /\ q.op = requests[r].op /\ q.user = requests[r].user /\ q.run = requests[r].run
          /\ q.staff = requests[r].staff /\ q.lines = requests[r].lines
          /\ q.requester = requests[r].requester
      BY <1>1, <2>2, <3>2 DEF Request
    <3>5. QED
      BY <3>1, <3>3, <3>4 DEF Checked
  <2>3. QED
    BY <2>1, <2>2, StepOnCalls
<1>5. Checked(q)'
  BY <1>2, <1>4, CheckedKept
<1>6. QED
  BY <1>1, <1>5 DEF Checked, Taken, ApprovedByOther
LEMMA StepCurrent ==
  TypeOK /\ CallsCurrent /\ RowsFit /\ FourEyes /\ [Next]_vars => CallsCurrent'
<1> SUFFICES ASSUME TypeOK, CallsCurrent, RowsFit, FourEyes, [Next]_vars,
                    NEW r \in Running', r \notin overtaken'
             PROVE  Current(requests[r])'
  BY DEF CallsCurrent
<1>1. r \in Requests /\ requests'[r] # NoRequest
  BY DEF Running
<1>2. PICK q : q = requests'[r]
  OBVIOUS
<1>3. ASSUME NEW s \in Requests, Write(s)
      PROVE  FALSE
  <2>1. Committed(s)
    BY <1>3 DEF Write, LockPeriod, ClosePeriod, CreateRun, AddLine, Adjust,
        SubmitRun, ApproveRun, PostRun, RequestReversal, ApproveReversal
  <2>2. r # s /\ requests'[r] = requests[r]
    BY <1>1, <2>1 DEF Committed, TypeOK
  <2>3. QED
    BY <1>1, <2>1, <2>2 DEF Committed
<1>4. UNCHANGED tables
  BY <1>3 DEF Next, vars, tables, Begin, TakeNumber, Abandon
<1>5. Current(q)
  <2>1. CASE \E op \in Operations, user \in Users, n \in 0 .. MaxRuns,
                staff \in SUBSET Employees : Begin(r, op, user, n, staff)
    BY <1>1, <1>2, <2>1, BeginChecks
  <2>2. CASE /\ r \in Running
             /\ \/ requests'[r] = requests[r]
                \/ \E number : requests'[r] = [requests[r] EXCEPT !.number = number]
             /\ ~ \E op \in Operations, user \in Users, n \in 0 .. MaxRuns,
                     staff \in SUBSET Employees : Begin(r, op, user, n, staff)
    <3>1. ASSUME NEW s \in Requests, Abandon(s)
          PROVE  r # s
      BY <1>1, <3>1 DEF Abandon, TypeOK
    <3>2. r \notin overtaken
      BY <1>3, <2>2, <3>1 DEF Next, vars, Begin, TakeNumber, Abandon
    <3>3. Current(requests[r]) /\ requests[r] \in Request
      BY <1>1, <2>2, <3>2, CallType DEF CallsCurrent, Running
    <3>4. /\ q.op = requests[r].op /\ q.user = requests[r].user /\ q.run = requests[r].run
          /\ q.staff = requests[r].staff /\ q.lines = requests[r].lines
          /\ q.requester = requests[r].requester
      BY <1>2, <2>2, <3>3 DEF Request
    <3>5. QED
      BY <3>3, <3>4 DEF Current
  <2>3. QED
    BY <2>1, <2>2, StepOnCalls
<1>6. \A e \in Employees : AdjustmentsOf(e)' = AdjustmentsOf(e)
  BY <1>4 DEF tables, AdjustmentsOf
<1>7. May(q.op, q.user, q.run, q.staff)'
  BY <1>4, <1>5, <1>6 DEF Current, tables, May, MayLock, MayClose, Unresolved, MayCreate, MayAddLine,
     MayAdjust, MaySubmit, MayApprove, MayPost, MayRequestReversal, MayApproveReversal, In, Taken
<1>8. Current(q)'
  BY <1>4, <1>5, <1>7 DEF Current, tables
<1>9. QED
  BY <1>2, <1>8
  DEF Current, May, MayLock, MayClose, Unresolved, MayCreate, MayAddLine,
     MayAdjust, MaySubmit, MayApprove, MayPost, MayRequestReversal, MayApproveReversal, In, Taken

\* A write of a call that nobody has overtaken, and what it may rely on.
LEMMA SerialWrite ==
  ASSUME TypeOK, CallsCurrent, NEW r \in Requests, Write(r), Serial'
  PROVE  Serial /\ Current(requests[r])
<1>1. Committed(r) /\ requests[r] # NoRequest
  BY DEF Write, LockPeriod, ClosePeriod, CreateRun, AddLine, Adjust, SubmitRun, ApproveRun,
         PostRun, RequestReversal, ApproveReversal, Ready
<1>2. r \notin overtaken /\ Serial
  BY <1>1 DEF Committed, Serial, TypeOK
<1>3. QED
  BY <1>1, <1>2 DEF CallsCurrent, Running

\* The approver of a run is there before the run gets past its approval.
LEMMA StepFourEyes ==
  TypeOK /\ CallsChecked /\ FourEyes /\ [Next]_vars => FourEyes'
<1> SUFFICES ASSUME TypeOK, CallsChecked, FourEyes, [Next]_vars PROVE FourEyes'
  OBVIOUS
<1> DEFINE Decided == {"approved", "posted", "reversal_pending", "reversed"}
<1>1. RowsKept
  BY StepKeepsRows
<1>2. ASSUME UNCHANGED tables
      PROVE  FourEyes'
  BY <1>2 DEF FourEyes, tables, Taken
<1>3. ASSUME NEW r \in Requests, Write(r)
      PROVE  FourEyes'
  <2> DEFINE q == requests[r]
  <2>1. q # NoRequest
    BY <1>3 DEF Write, LockPeriod, ClosePeriod, CreateRun, AddLine, Adjust, SubmitRun,
        ApproveRun, PostRun, RequestReversal, ApproveReversal, Ready
  <2>2. Checked(q) /\ (q.op \in OnRuns => q.run \in Taken /\ runs[q.run] \in Run)
    BY <2>1, CallRun DEF CallsChecked, Running
  <2>3. period'.status # "open" => period'.locker \in Users \ {period'.maker}
    <3>1. CASE LockPeriod(r)
      <4>1. q.user \in Users \ {period.maker}
        BY <2>2, <3>1 DEF Checked, LockPeriod, Ready, Signed
      <4>2. QED
        BY <3>1, <4>1 DEF LockPeriod, TypeOK
    <3>2. CASE ClosePeriod(r)
      <4>1. period.locker \in Users \ {period.maker}
        BY <2>2, <3>2 DEF Checked, ClosePeriod, Ready
      <4>2. QED
        BY <1>1, <4>1 DEF RowsKept
    <3>3. CASE UNCHANGED period
      BY <3>3 DEF FourEyes
    <3>4. QED
      BY <1>3, <3>1, <3>2, <3>3 DEF Write, CreateRun, AddLine, Adjust, SubmitRun, ApproveRun,
         PostRun, RequestReversal, ApproveReversal
  <2>4. ASSUME NEW n \in Taken', runs'[n].status \in Decided
        PROVE  runs'[n].approver \in Users \ {runs'[n].maker}
    <3>1. n \in Numbers
      BY DEF Taken
    <3>2. ASSUME n \in Taken, runs[n].status \in Decided
          PROVE  runs'[n].approver \in Users \ {runs'[n].maker}
      <4>1. ApprovedByOther(n)
        BY <3>2 DEF FourEyes, ApprovedByOther
      <4>2. ApprovedByOther(n)'
        BY <1>1, <3>2, <4>1 DEF RowsKept
      <4>3. QED
        BY <4>2 DEF ApprovedByOther
    <3>3. CASE UNCHANGED runs
      BY <2>4, <3>2, <3>3 DEF Taken
    <3>4. ASSUME runs'[n] = runs[n]
          PROVE  runs'[n].approver \in Users \ {runs'[n].maker}
      BY <2>4, <3>1, <3>2, <3>4 DEF Taken
    <3>5. CASE CreateRun(r)
      BY <2>4, <3>1, <3>4, <3>5 DEF CreateRun, TypeOK
    <3>6. CASE SubmitRun(r)
      <4>1. q.run \in Numbers /\ runs[q.run] \in Run
        BY <2>2, <3>6, RunTaken DEF SubmitRun, Ready, OnRuns, Operations
      <4>2. n # q.run
        BY <2>4, <3>6, <4>1 DEF SubmitRun, TypeOK, Run
      <4>3. QED
        BY <3>1, <3>4, <3>6, <4>1, <4>2 DEF SubmitRun, TypeOK
    <3>7. CASE ApproveRun(r)
      <4>1. q.run \in Numbers /\ runs[q.run] \in Run /\ q.user \in Users \ {runs[q.run].maker}
        BY <2>2, <3>7, RunTaken DEF ApproveRun, Ready, OnRuns, Operations, Checked, Signed
      <4>2. runs' = [runs EXCEPT ![q.run] =
                       [runs[q.run] EXCEPT !.status = "approved", !.approver = q.user]]
        BY <3>7 DEF ApproveRun
      <4>3. QED
        BY <3>1, <3>4, <4>1, <4>2 DEF TypeOK, Run
    <3>8. CASE PostRun(r) \/ RequestReversal(r)
      <4>1. q.run \in Taken /\ ApprovedByOther(q.run)
        BY <2>2, <3>8 DEF PostRun, RequestReversal, Ready, OnRuns, Operations, Checked
      <4>2. n = q.run => ApprovedByOther(n)'
        BY <1>1, <4>1 DEF RowsKept
      <4>3. n # q.run => runs'[n] = runs[n]
        BY <3>1, <3>8 DEF PostRun, RequestReversal, TypeOK
      <4>4. QED
        BY <3>4, <4>2, <4>3 DEF ApprovedByOther
    <3>9. CASE ApproveReversal(r)
      <4>1. /\ q.run \in Taken /\ ApprovedByOther(q.run)
            /\ q.user \in Users /\ q.requester \in Users \ {q.user}
        BY <2>2, <3>9 DEF ApproveReversal, Ready, OnRuns, Operations, Checked, Signed
      <4>2. n = q.run => ApprovedByOther(n)'
        BY <1>1, <4>1 DEF RowsKept
      <4>3. n # q.run /\ n # q.number => runs'[n] = runs[n]
        BY <3>1, <3>9 DEF ApproveReversal, TypeOK
      <4>4. ASSUME n = q.number
            PROVE  runs'[n].approver = q.user /\ runs'[n].maker = q.requester
        <5>1. n # q.run
          BY <3>9, <4>1, <4>4 DEF ApproveReversal
        <5>2. QED
          BY <3>1, <3>9, <4>4, <5>1 DEF ApproveReversal, TypeOK
      <4>5. QED
        BY <3>4, <4>1, <4>2, <4>3, <4>4 DEF ApprovedByOther
    <3>10. QED
      BY <1>3, <3>3, <3>5, <3>6, <3>7, <3>8, <3>9
      DEF Write, LockPeriod, ClosePeriod, AddLine, Adjust
  <2>5. QED
    BY <2>3, <2>4 DEF FourEyes
<1>4. QED
  BY <1>2, <1>3 DEF Next, vars, tables, Begin, TakeNumber, Abandon
\* The run a write leaves behind, by operation.
LEMMA WrittenRun ==
  ASSUME TypeOK, CallsChecked, NEW r \in Requests, Write(r), NEW n \in Taken'
  PROVE  LET q == requests[r]
         IN  \/ n \in Taken /\ runs'[n] = runs[n]
             \/ n \notin Taken /\ n = q.number /\ CreateRun(r)
                /\ runs'[n].status = "draft" /\ runs'[n].reverses = 0
             \/ n \notin Taken /\ n = q.number /\ ApproveReversal(r)
                /\ runs'[n].status = "posted" /\ runs'[n].reverses = q.run
                /\ runs'[n].maker = q.requester /\ q.run \in Taken
             \/ /\ n \in Taken /\ n = q.run /\ q.op \in OnRuns
                /\ runs'[n].reverses = runs[n].reverses
                /\ \/ SubmitRun(r) /\ runs'[n].status = "pending_approval"
                   \/ ApproveRun(r) /\ runs'[n].status = "approved"
                   \/ PostRun(r) /\ runs'[n].status = "posted"
                   \/ /\ RequestReversal(r) /\ runs'[n].status = "reversal_pending"
                      /\ runs'[n].requester = q.user
                   \/ /\ ApproveReversal(r) /\ runs'[n].status = "reversed"
                      /\ runs'[n].requester = runs[n].requester
<1> DEFINE q == requests[r]
<1>1. n \in Numbers /\ runs'[n] # NoRun
  BY DEF Taken
<1>2. ASSUME runs'[n] = runs[n]
      PROVE  n \in Taken /\ runs'[n] = runs[n]
  BY <1>1, <1>2 DEF Taken
<1>3. q # NoRequest
  BY DEF Write, LockPeriod, ClosePeriod, CreateRun, AddLine, Adjust, SubmitRun, ApproveRun,
         PostRun, RequestReversal, ApproveReversal, Ready
<1>4. q.op \in OnRuns => q.run \in Taken /\ runs[q.run] \in Run /\ q.run \in Numbers
  BY <1>3, CallRun, RunTaken
<1>5. CASE CreateRun(r)
  BY <1>1, <1>2, <1>5 DEF CreateRun, TypeOK
<1>6. CASE SubmitRun(r) \/ ApproveRun(r) \/ PostRun(r) \/ RequestReversal(r)
  <2>1. q.op \in OnRuns
    BY <1>6 DEF SubmitRun, ApproveRun, PostRun, RequestReversal, Ready, OnRuns, Operations
  <2>2. n # q.run => runs'[n] = runs[n]
    BY <1>1, <1>6 DEF SubmitRun, ApproveRun, PostRun, RequestReversal, TypeOK
  <2>3. ASSUME n = q.run
        PROVE  /\ n \in Taken /\ q.op \in OnRuns
               /\ runs'[n].reverses = runs[n].reverses
               /\ \/ SubmitRun(r) /\ runs'[n].status = "pending_approval"
                  \/ ApproveRun(r) /\ runs'[n].status = "approved"
                  \/ PostRun(r) /\ runs'[n].status = "posted"
                  \/ /\ RequestReversal(r) /\ runs'[n].status = "reversal_pending"
                     /\ runs'[n].requester = q.user
    <3>1. CASE SubmitRun(r)
      BY <1>4, <2>1, <2>3, <3>1 DEF SubmitRun, TypeOK, Run
    <3>2. CASE ApproveRun(r)
      <4>1. runs' = [runs EXCEPT ![q.run] =
                       [runs[q.run] EXCEPT !.status = "approved", !.approver = q.user]]
        BY <3>2 DEF ApproveRun
      <4>2. QED
        BY <1>4, <2>1, <2>3, <3>2, <4>1 DEF TypeOK, Run
    <3>3. CASE PostRun(r)
      BY <1>4, <2>1, <2>3, <3>3 DEF PostRun, TypeOK, Run
    <3>4. CASE RequestReversal(r)
      <4>1. runs' = [runs EXCEPT ![q.run] =
                [runs[q.run] EXCEPT !.status = "reversal_pending", !.requester = q.user]]
        BY <3>4 DEF RequestReversal
      <4>2. QED
        BY <1>4, <2>1, <2>3, <3>4, <4>1 DEF TypeOK, Run
    <3>5. QED
      BY <1>6, <3>1, <3>2, <3>3, <3>4
  <2>4. QED
    BY <1>2, <2>2, <2>3
<1>7. CASE ApproveReversal(r)
  <2>1. q.op \in OnRuns /\ q.number \in Numbers \ Taken
    BY <1>7 DEF ApproveReversal, Ready, OnRuns, Operations
  <2>2. q.number # q.run
    BY <1>4, <2>1
  <2>3. n # q.run /\ n # q.number => runs'[n] = runs[n]
    BY <1>1, <1>7 DEF ApproveReversal, TypeOK
  <2>4. ASSUME n = q.number
        PROVE  /\ runs'[n].status = "posted" /\ runs'[n].reverses = q.run
               /\ runs'[n].maker = q.requester
    BY <1>7, <2>1, <2>2, <2>4 DEF ApproveReversal, TypeOK
  <2>5. ASSUME n = q.run
        PROVE  /\ runs'[n].status = "reversed" /\ runs'[n].reverses = runs[n].reverses
               /\ runs'[n].requester = runs[n].requester
    BY <1>4, <1>7, <2>1, <2>2, <2>5 DEF ApproveReversal, TypeOK, Run
  <2>6. QED
    BY <1>2, <1>4, <1>7, <2>1, <2>3, <2>4, <2>5
<1>8. CASE UNCHANGED runs
  BY <1>2, <1>8
<1>9. QED
  BY <1>5, <1>6, <1>7, <1>8 DEF Write, LockPeriod, ClosePeriod, AddLine, Adjust

\* A call that inserts a run leaves a run behind.
LEMMA RunInserted ==
  ASSUME TypeOK, CallsChecked, NEW r \in Requests, CreateRun(r) \/ ApproveReversal(r)
  PROVE  requests[r].number \in Taken'
<1> DEFINE q == requests[r]
<1>1. q # NoRequest
  BY DEF CreateRun, ApproveReversal, Ready
<1>2. /\ q \in Request /\ Checked(q)
      /\ q.op \in OnRuns => q.run \in Taken /\ q.run \in Numbers
  BY <1>1, CallRun, RunTaken DEF CallsChecked, Running
<1>3. CASE CreateRun(r)
  <2> DEFINE row == [status |-> "draft", maker |-> q.user, approver |-> NoUser,
                     requester |-> NoUser, reverses |-> 0]
  <2>1. q.user \in Users /\ q.number \in Numbers
    BY <1>2, <1>3 DEF CreateRun, Ready, Checked, Signed
  <2>2. row \in Run
    BY <2>1, NumbersAssumption DEF Run
  <2>3. runs'[q.number] = row
    BY <1>3, <2>1 DEF CreateRun, TypeOK
  <2>4. QED
    BY <2>1, <2>2, <2>3, NoneAssumption DEF Taken
<1>4. CASE ApproveReversal(r)
  <2> DEFINE row == [status |-> "posted", maker |-> q.requester, approver |-> q.user,
                     requester |-> NoUser, reverses |-> q.run]
  <2>1. /\ q.user \in Users /\ q.requester \in Users
        /\ q.number \in Numbers \ Taken /\ q.run \in Numbers /\ q.run \in Taken
    BY <1>2, <1>4 DEF ApproveReversal, Ready, Checked, Signed, OnRuns, Operations
  <2>2. row \in Run
    BY <2>1, NumbersAssumption DEF Run, Numbers
  <2>3. runs'[q.number] = row
    BY <1>4, <2>1 DEF ApproveReversal, TypeOK
  <2>4. QED
    BY <2>1, <2>2, <2>3, NoneAssumption DEF Taken
<1>5. QED
  BY <1>3, <1>4

LEMMA WriteRows ==
  ASSUME TypeOK, CallsChecked, CallsCurrent, RowsFit, NEW r \in Requests, Write(r)
  PROVE  RowsFit'
<1> DEFINE q == requests[r]
<1>1. q # NoRequest
  BY DEF Write, LockPeriod, ClosePeriod, CreateRun, AddLine, Adjust, SubmitRun,
      ApproveRun, PostRun, RequestReversal, ApproveReversal, Ready
<1>2. /\ q \in Request /\ Checked(q)
      /\ q.op \in OnRuns => q.run \in Taken /\ runs[q.run] \in Run /\ q.run \in Numbers
  BY <1>1, CallRun, RunTaken DEF CallsChecked, Running
<1>3. ASSUME NEW n \in Taken', runs'[n].status = "reversal_pending"
      PROVE  runs'[n].requester \in Users
  <2>1. CASE n \in Taken /\ runs'[n] = runs[n]
    BY <1>3, <2>1 DEF RowsFit
  <2>2. CASE RequestReversal(r) /\ runs'[n].requester = q.user
    BY <1>2, <2>2 DEF RequestReversal, Ready, Checked, Signed
  <2>3. QED
    BY <1>3, <2>1, <2>2, WrittenRun
<1>4. ASSUME NEW n \in Taken', runs'[n].reverses # 0
      PROVE  /\ runs'[n].reverses \in Taken'
             /\ Serial' => runs'[n].status \in {"posted", "reversal_pending", "reversed"}
  <2>1. Taken \subseteq Taken'
    BY WriteKeepsRows DEF RowsKept
  <2>2. ASSUME Serial'
        PROVE  Serial /\ Current(q)
    BY <2>2, SerialWrite
  <2>3. CASE n \in Taken /\ runs'[n] = runs[n]
    BY <1>4, <2>1, <2>2, <2>3 DEF RowsFit
  <2>4. CASE n = q.number /\ runs'[n].status = "posted" /\ runs'[n].reverses = q.run
             /\ q.run \in Taken
    BY <2>1, <2>4
  <2>5. CASE n \in Taken /\ n = q.run /\ runs'[n].reverses = runs[n].reverses
             /\ (PostRun(r) \/ RequestReversal(r) \/ ApproveReversal(r))
             /\ runs'[n].status \in {"posted", "reversal_pending", "reversed"}
    BY <1>4, <2>1, <2>5 DEF RowsFit
  <2>6. CASE n \in Taken /\ n = q.run /\ runs'[n].reverses = runs[n].reverses
             /\ (SubmitRun(r) \/ ApproveRun(r))
    <3>1. runs[n].reverses \in Taken
      BY <1>4, <2>6 DEF RowsFit
    <3>2. Serial => runs[n].status \in {"posted", "reversal_pending", "reversed"}
      BY <1>4, <2>6 DEF RowsFit
    <3>3. Current(q) => runs[n].status \in {"draft", "pending_approval"}
      BY <2>6 DEF Current, May, MaySubmit, MayApprove, In, SubmitRun, ApproveRun, Ready,
                  Adjustments
    <3>4. QED
      BY <2>1, <2>2, <2>6, <3>1, <3>2, <3>3
  <2>7. QED
    BY <1>4, <2>3, <2>4, <2>5, <2>6, WrittenRun
<1>5. ASSUME NEW n \in Numbers \ Taken'
      PROVE  lines'[n] = NoLines
  <2>1. n \notin Taken /\ lines[n] = NoLines
    BY <1>5, WriteKeepsRows DEF RowsKept, RowsFit
  <2>2. CASE CreateRun(r) \/ ApproveReversal(r)
    <3>1. q.number \in Taken'
      BY <2>2, RunInserted
    <3>2. QED
      BY <2>1, <2>2, <3>1 DEF CreateRun, ApproveReversal, TypeOK
  <2>3. CASE AddLine(r) \/ Adjust(r)
    <3>1. q.run \in Taken
      BY <1>2, <2>3 DEF AddLine, Adjust, Ready, OnRuns, Operations, Adjustments
    <3>2. n # q.run
      BY <2>1, <3>1
    <3>3. lines'[n] = lines[n]
      BY <2>3, <3>2 DEF AddLine, Adjust, TypeOK
    <3>4. QED
      BY <2>1, <3>3
  <2>4. QED
    BY <2>1, <2>2, <2>3
    DEF Write, LockPeriod, ClosePeriod, SubmitRun, ApproveRun, PostRun, RequestReversal
<1>6. ASSUME NEW n \in Numbers, NEW e \in Employees, lines'[n][e] = NoLine,
             NEW type \in Adjustments
      PROVE  adjusted'[n][e][type] = 0
  <2>1. CASE UNCHANGED <<lines, adjusted>>
    BY <1>6, <2>1 DEF RowsFit
  <2>2. CASE CreateRun(r) \/ ApproveReversal(r)
    <3>1. CASE n = q.number
      <4>1. lines[n] = NoLines
        BY <2>2, <3>1 DEF CreateRun, ApproveReversal, RowsFit
      <4>2. QED
        BY <2>2, <4>1 DEF CreateRun, ApproveReversal, RowsFit, NoLines
    <3>2. CASE n # q.number
      BY <1>6, <2>2, <3>2 DEF CreateRun, ApproveReversal, RowsFit, TypeOK
    <3>3. QED
      BY <3>1, <3>2
  <2>3. CASE AddLine(r)
    <3>1. PICK f \in q.staff :
            lines[q.run][f] = NoLine /\ lines' = [lines EXCEPT ![q.run][f] = NewLine]
      BY <2>3 DEF AddLine
    <3>2. lines[n][e] = NoLine
      BY <1>6, <3>1, NewLineType, NoneAssumption DEF TypeOK
    <3>3. QED
      BY <2>3, <3>2 DEF AddLine, RowsFit
  <2>4. CASE Adjust(r)
    <3>1. PICK f \in q.staff :
            /\ lines' = [lines EXCEPT ![q.run][f] = WithAdjustment(@, q.lines[f], q.op)]
            /\ adjusted' = [adjusted EXCEPT ![q.run][f][q.op] = @ + 1]
      BY <2>4 DEF Adjust
    <3>2. q.op \in Adjustments /\ q.run \in Taken /\ q.run \in Numbers /\ f \in Employees
      BY <1>2, <2>4 DEF Adjust, Ready, OnRuns, Operations, Adjustments, Request
    <3>3. lines[q.run][f] # NoLine
      BY <1>2, <3>2 DEF Checked
    <3>4. lines'[q.run][f] # NoLine
      BY <3>2, <3>3, WriteKeepsRows DEF RowsKept
    <3>5. ~(n = q.run /\ e = f)
      BY <1>6, <3>4
    <3>6. lines'[n][e] = lines[n][e]
      BY <3>1, <3>5 DEF TypeOK
    <3>7. adjusted'[n][e][type] = adjusted[n][e][type]
      BY <3>1, <3>2, <3>5 DEF TypeOK
    <3>8. QED
      BY <1>6, <3>6, <3>7 DEF RowsFit
  <2>5. QED
    BY <2>1, <2>2, <2>3, <2>4
    DEF Write, LockPeriod, ClosePeriod, SubmitRun, ApproveRun, PostRun, RequestReversal
<1>7. QED
  BY <1>3, <1>4, <1>5, <1>6 DEF RowsFit

LEMMA StepInv == TypeOK /\ PayrollInv /\ FourEyes /\ [Next]_vars =>
                   TypeOK' /\ PayrollInv' /\ FourEyes'
<1> SUFFICES ASSUME TypeOK, PayrollInv, FourEyes, [Next]_vars
             PROVE  TypeOK' /\ PayrollInv' /\ FourEyes'
  OBVIOUS
<1> USE DEF PayrollInv
<1>1. TypeOK' /\ CallsChecked' /\ CallsCurrent' /\ FourEyes'
  BY StepType, StepChecks, StepCurrent, StepFourEyes
<1>2. ASSUME UNCHANGED <<tables, overlaps>>
      PROVE  RowsFit'
  BY <1>2 DEF RowsFit, tables, Taken, Serial
<1>3. RowsFit'
  BY <1>2, WriteRows DEF Next, vars, Begin, TakeNumber, Abandon
<1>4. QED
  BY <1>1, <1>3

\* Types, the invariant of the calls and the four eyes, in all reachable states.
LEMMA Invariant == Spec => [](TypeOK /\ PayrollInv /\ FourEyes)
BY InitInv, StepInv, PTL DEF Spec

\* Every reachable state of any number of people, employees, calls and runs has
\* the declared shape: net pay never becomes negative, for one.
THEOREM TypeCorrect == Spec => []TypeOK
BY Invariant, PTL

\* However the calls of the API overlap, nobody locks a period, gets a run past
\* its approval or reverses one alone (lock_period, approve_run,
\* approve_reversal).
THEOREM NobodyAlone == Spec => []FourEyes
BY Invariant, PTL
-----------------------------------------------------------------------------
(***************************************************************************)
(* What holds as long as no call has written after being overtaken.        *)
(***************************************************************************)

\* The lines of a run change only while it is a draft.
LEMMA LinesWritten ==
  ASSUME TypeOK, PayrollInv, NEW r \in Requests, Write(r), Serial',
         NEW n \in Taken, runs[n].status # "draft"
  PROVE  lines'[n] = lines[n]
<1> DEFINE q == requests[r]
<1>1. n \in Numbers
  BY DEF Taken
<1>2. Current(q)
  BY SerialWrite DEF PayrollInv
<1>3. CASE CreateRun(r) \/ ApproveReversal(r)
  BY <1>1, <1>3 DEF CreateRun, ApproveReversal, TypeOK
<1>4. CASE AddLine(r) \/ Adjust(r)
  <2>1. In(q.run, "draft")
    BY <1>2, <1>4 DEF Current, May, MayAddLine, MayAdjust, AddLine, Adjust, Ready, Adjustments
  <2>2. n # q.run
    BY <2>1 DEF In
  <2>3. QED
    BY <1>1, <1>4, <2>2 DEF AddLine, Adjust, TypeOK
<1>5. QED
  BY <1>3, <1>4
  DEF Write, LockPeriod, ClosePeriod, SubmitRun, ApproveRun, PostRun, RequestReversal

\* The lines of a posted run are never changed again by calls that nobody has
\* overtaken (add_line, add_adjustment).
THEOREM PostedStays == Spec => PostedImmutable
<1> DEFINE Kept == Serial' => \A n \in Taken :
                     runs[n].status \in {"posted", "reversal_pending", "reversed"} =>
                       lines'[n] = lines[n]
<1>1. TypeOK /\ PayrollInv /\ [Next]_vars => [Kept]_vars
  <2> SUFFICES ASSUME TypeOK, PayrollInv, [Next]_vars, Serial', NEW n \in Taken,
                      runs[n].status \in {"posted", "reversal_pending", "reversed"}
               PROVE  lines'[n] = lines[n]
    OBVIOUS
  <2>1. ASSUME NEW r \in Requests, Write(r)
        PROVE  lines'[n] = lines[n]
    BY <2>1, LinesWritten
  <2>2. QED
    BY <2>1 DEF Next, vars, tables, Begin, TakeNumber, Abandon
<1>2. QED
  BY <1>1, Invariant, PTL DEF Spec, PostedImmutable

LEMMA StepSettled == TypeOK /\ PayrollInv /\ ClosedSettled /\ [Next]_vars => ClosedSettled'
<1> SUFFICES ASSUME TypeOK, PayrollInv, ClosedSettled, [Next]_vars PROVE ClosedSettled'
  OBVIOUS
<1>1. ASSUME UNCHANGED <<tables, overlaps>>
      PROVE  ClosedSettled'
  BY <1>1 DEF ClosedSettled, tables, Taken, Serial
<1>2. ASSUME NEW r \in Requests, Write(r), Serial', period'.status = "closed",
             NEW n \in Taken'
      PROVE  runs'[n].status \in {"posted", "reversal_pending", "reversed"}
  <2> DEFINE q == requests[r]
  <2>1. Serial /\ Current(q)
    BY <1>2, SerialWrite DEF PayrollInv
  <2>2. CASE ClosePeriod(r)
    <3>1. Unresolved = {} /\ n \in Taken /\ runs'[n] = runs[n]
      BY <2>1, <2>2 DEF ClosePeriod, Ready, Current, May, MayClose, Adjustments, Taken
    <3>2. runs[n] \in Run
      BY <3>1, RunTaken
    <3>3. QED
      BY <3>1, <3>2 DEF Unresolved, Run
  <2>3. CASE period.status = "closed"
    <3>1. \A m \in Taken : runs[m].status \in {"posted", "reversal_pending", "reversed"}
      BY <2>1, <2>3 DEF ClosedSettled
    <3>2. ~CreateRun(r) /\ ~SubmitRun(r) /\ ~ApproveRun(r)
      BY <2>1, <2>3, <3>1 DEF CreateRun, SubmitRun, ApproveRun, Ready, Current, May, MayCreate,
         MaySubmit, MayApprove, In, Adjustments
    <3>3. QED
      BY <1>2, <3>1, <3>2, WrittenRun DEF PayrollInv
  <2>4. QED
    BY <1>2, <2>2, <2>3
    DEF Write, LockPeriod, CreateRun, AddLine, Adjust, SubmitRun, ApproveRun, PostRun,
        RequestReversal, ApproveReversal, TypeOK
<1>3. ASSUME NEW r \in Requests, Write(r)
      PROVE  ClosedSettled'
  BY <1>2, <1>3 DEF ClosedSettled
<1>4. QED
  BY <1>1, <1>3 DEF Next, vars, Begin, TakeNumber, Abandon

\* A period is closed over runs that are posted or reversed, and stays so:
\* create_run and close_period exclude each other by the period's status.
THEOREM ClosedStaysSettled == Spec => []ClosedSettled
<1>1. Init => ClosedSettled
  BY DEF Init, ClosedSettled
<1>2. QED
  BY <1>1, StepSettled, Invariant, PTL DEF Spec

LEMMA StepReversed ==
  TypeOK /\ PayrollInv /\ ReversedOnce /\ [Next]_vars => ReversedOnce'
<1> SUFFICES ASSUME TypeOK, PayrollInv, ReversedOnce, [Next]_vars PROVE ReversedOnce'
  OBVIOUS
<1>1. ASSUME UNCHANGED <<tables, overlaps>>
      PROVE  ReversedOnce'
  BY <1>1 DEF ReversedOnce, Reversals, Reversal, tables, Taken, Serial
<1>2. ASSUME NEW r \in Requests, Write(r), Serial', NEW n \in Taken'
      PROVE  /\ runs'[n].status = "reversed" <=> Reversals(n)' # {}
             /\ \A m \in Reversals(n)' :
                  /\ Reversals(n)' = {m}
                  /\ runs'[m].maker = runs'[n].requester
                  /\ lines'[m] = Reversal(n)'
  <2> DEFINE q == requests[r]
  <2>1. Serial /\ Current(q)
    BY <1>2, SerialWrite DEF PayrollInv
  <2>2. Taken \subseteq Taken' /\ \A m \in Taken : runs'[m].maker = runs[m].maker
                              /\ runs'[m].reverses = runs[m].reverses
    BY <1>2, WriteKeepsRows DEF PayrollInv, RowsKept
  <2>3. Taken \subseteq Numbers /\ 0 \notin Numbers
    BY DEF Taken, Numbers
  <2>4. \A m \in Taken : runs[m].reverses # 0 =>
          /\ runs[m].reverses \in Taken
          /\ runs[m].status \in {"posted", "reversal_pending", "reversed"}
    BY <2>1 DEF PayrollInv, RowsFit
  <2>5. n \in Taken =>
          /\ runs[n].status = "reversed" <=> Reversals(n) # {}
          /\ \A m \in Reversals(n) :
               Reversals(n) = {m} /\ runs[m].maker = runs[n].requester /\ lines[m] = Reversal(n)
    BY <2>1 DEF ReversedOnce
  <2>6. \A m \in Taken : runs[m].status # "draft" => lines'[m] = lines[m]
    BY <1>2, LinesWritten
  <2>7. CASE ApproveReversal(r)
    <3>1. /\ q.run \in Taken /\ runs[q.run].status = "reversal_pending"
          /\ q.requester = runs[q.run].requester
          /\ q.number \in Numbers \ Taken
      BY <2>1, <2>7 DEF ApproveReversal, Ready, Current, May, MayApproveReversal, In, Adjustments
    <3>2. q.number # q.run /\ q.number \in Numbers /\ q.run \in Numbers
      BY <2>3, <3>1
    <3>3. /\ runs'[q.number].reverses = q.run /\ runs'[q.number].maker = q.requester
          /\ runs'[q.number].status = "posted"
          /\ runs'[q.run] = [runs[q.run] EXCEPT !.status = "reversed"]
          /\ lines'[q.number] = Reversal(q.run)
          /\ \A m \in Numbers : m # q.number => lines'[m] = lines[m]
          /\ \A m \in Numbers : m # q.number /\ m # q.run => runs'[m] = runs[m]
      BY <2>7, <3>2 DEF ApproveReversal, TypeOK
    <3>4. runs[q.run] \in Run /\ Reversals(q.run) = {}
      BY <2>1, <3>1, RunTaken DEF ReversedOnce
    <3>5. runs'[q.run].status = "reversed" /\ runs'[q.run].requester = q.requester
      BY <3>1, <3>3, <3>4 DEF Run
    <3>6. Taken' \subseteq Taken \cup {q.number}
      BY <2>3, <3>1, <3>3 DEF Taken
    <3>7. q.number \in Taken'
      BY <1>2, <2>7, RunInserted DEF PayrollInv
    <3>8. ASSUME n = q.run
          PROVE  Reversal(n)' = Reversal(q.run)
      BY <3>2, <3>3, <3>8 DEF Reversal
    <3>9. CASE n = q.run
      <4>1. Reversals(n)' = {q.number}
        BY <2>2, <3>3, <3>4, <3>6, <3>7, <3>9 DEF Reversals
      <4>2. QED
        BY <3>3, <3>5, <3>8, <3>9, <4>1
    <3>10. CASE n = q.number
      <4>1. Reversals(n)' = {}
        BY <2>2, <2>3, <2>4, <3>1, <3>2, <3>3, <3>6, <3>10 DEF Reversals
      <4>2. QED
        BY <3>3, <3>10, <4>1
    <3>11. CASE n # q.run /\ n # q.number
      <4>1. n \in Taken /\ runs'[n] = runs[n] /\ lines'[n] = lines[n] /\ n \in Numbers
        BY <2>3, <3>3, <3>6, <3>11
      <4>2. Reversals(n)' = Reversals(n)
        BY <2>2, <3>3, <3>6, <3>11 DEF Reversals
      <4>3. \A m \in Reversals(n) : m \in Taken /\ lines'[m] = lines[m]
        BY <2>3, <3>1, <3>3 DEF Reversals
      <4>4. Reversal(n)' = Reversal(n)
        BY <4>1 DEF Reversal
      <4>5. QED
        BY <2>2, <2>5, <4>1, <4>2, <4>3, <4>4
    <3>12. QED
      BY <3>9, <3>10, <3>11
  <2>8. CASE ~ApproveReversal(r)
    <3>1. \A m \in Taken' \ Taken : runs'[m].reverses = 0 /\ runs'[m].status = "draft"
      BY <1>2, <2>8, WrittenRun DEF PayrollInv
    <3>2. \A m \in Numbers : m # 0
      BY <2>3
    <3>3. n # 0
      BY DEF Taken, Numbers
    <3>4. Reversals(n)' = Reversals(n)
      BY <2>2, <3>1, <3>3 DEF Reversals
    <3>5. CASE n \notin Taken
      <4>1. Reversals(n) = {}
        BY <2>4, <3>3, <3>5 DEF Reversals
      <4>2. QED
        BY <3>1, <3>4, <3>5, <4>1
    <3>6. CASE n \in Taken
      <4>1. runs'[n].status = "reversed" <=> runs[n].status = "reversed"
        BY <1>2, <2>1, <2>8, <3>6, WrittenRun
        DEF PayrollInv, Current, May, MaySubmit, MayApprove, MayPost, MayRequestReversal, In,
            SubmitRun, ApproveRun, PostRun, RequestReversal, Ready, Adjustments
      <4>2. runs[n].status = "reversed" => runs'[n].requester = runs[n].requester
        BY <1>2, <2>1, <2>8, <3>6, WrittenRun
        DEF PayrollInv, Current, May, MaySubmit, MayApprove, MayPost, MayRequestReversal, In,
            SubmitRun, ApproveRun, PostRun, RequestReversal, Ready, Adjustments
      <4>3. ASSUME NEW m \in Reversals(n)
            PROVE  m \in Taken /\ lines'[m] = lines[m] /\ runs[n].status = "reversed"
                   /\ lines'[n] = lines[n]
        <5>1. m \in Taken /\ runs[m].reverses = n /\ runs[n].status = "reversed"
          BY <2>5, <3>6 DEF Reversals
        <5>2. runs[m].status \in {"posted", "reversal_pending", "reversed"}
          BY <2>4, <3>3, <5>1
        <5>3. QED
          BY <2>6, <3>6, <5>1, <5>2
      <4>4. ASSUME NEW m \in Reversals(n)
            PROVE  Reversal(n)' = Reversal(n)
        BY <4>3 DEF Reversal
      <4>5. QED
        BY <2>2, <2>5, <3>4, <3>6, <4>1, <4>2, <4>3, <4>4
    <3>7. QED
      BY <3>5, <3>6
  <2>9. QED
    BY <2>7, <2>8
<1>3. ASSUME NEW r \in Requests, Write(r)
      PROVE  ReversedOnce'
  BY <1>2, <1>3 DEF ReversedOnce
<1>4. QED
  BY <1>1, <1>3 DEF Next, vars, Begin, TakeNumber, Abandon

\* A run is reversed by exactly one reversal run, which holds its lines and is
\* made by the person who asked for it (approve_reversal).
THEOREM OneReversal == Spec => []ReversedOnce
<1>1. Init => ReversedOnce
  BY DEF Init, ReversedOnce, Taken
<1>2. QED
  BY <1>1, StepReversed, Invariant, PTL DEF Spec
\* What an adjustment of a line that adds up, seen as it is, makes of it.
LEMMA AdjustedAddsUp ==
  ASSUME NEW line \in Line, NEW type \in Adjustments,
         line.net = line.gross - line.deductions
  PROVE  LET new == WithAdjustment(line, line, type)
         IN  /\ new.net = new.gross - new.deductions
             /\ new.direction = line.direction
             /\ new.gross = line.gross + (IF type = "earning" THEN 1 ELSE 0)
             /\ new.deductions = line.deductions + (IF type = "deduction" THEN 1 ELSE 0)
<1>1. /\ line.gross \in Nat /\ line.deductions \in Nat /\ line.net \in Nat
      /\ line = [direction |-> line.direction, gross |-> line.gross,
                 deductions |-> line.deductions, net |-> line.net]
  BY DEF Line
<1>2. CASE type = "earning"
  <2>1. WithAdjustment(line, line, type) =
          [line EXCEPT !.gross = line.gross + 1, !.net = (line.gross + 1) - line.deductions]
    BY <1>2 DEF WithAdjustment
  <2>2. WithAdjustment(line, line, type) =
          [direction |-> line.direction, gross |-> line.gross + 1,
           deductions |-> line.deductions, net |-> (line.gross + 1) - line.deductions]
    BY <1>1, <2>1
  <2>3. QED
    BY <1>1, <1>2, <2>2
<1>3. CASE type = "deduction"
  <2>1. WithAdjustment(line, line, type) =
          [line EXCEPT !.deductions = line.deductions + 1,
                       !.net = line.gross - (line.deductions + 1)]
    BY <1>3 DEF WithAdjustment
  <2>2. WithAdjustment(line, line, type) =
          [direction |-> line.direction, gross |-> line.gross,
           deductions |-> line.deductions + 1, net |-> line.gross - (line.deductions + 1)]
    BY <1>1, <2>1
  <2>3. QED
    BY <1>1, <1>3, <2>2
<1>4. QED
  BY <1>2, <1>3 DEF Adjustments

LEMMA StepAddsUp == TypeOK /\ PayrollInv /\ LinesAddUp /\ [Next]_vars => LinesAddUp'
<1> SUFFICES ASSUME TypeOK, PayrollInv, LinesAddUp, [Next]_vars PROVE LinesAddUp'
  OBVIOUS
<1>1. ASSUME UNCHANGED <<tables, overlaps>>
      PROVE  LinesAddUp'
  BY <1>1 DEF LinesAddUp, tables, Taken, Serial
<1>2. ASSUME NEW r \in Requests, Write(r), Serial', NEW n \in Taken', NEW e \in Employees,
             lines'[n][e] # NoLine
      PROVE  /\ lines'[n][e].net = lines'[n][e].gross - lines'[n][e].deductions
             /\ lines'[n][e].direction = "payroll" =>
                  /\ lines'[n][e].gross = BaseGross + adjusted'[n][e]["earning"]
                  /\ lines'[n][e].deductions = adjusted'[n][e]["deduction"]
  <2> DEFINE q == requests[r]
  <2>1. Serial /\ Current(q)
    BY <1>2, SerialWrite DEF PayrollInv
  <2>2. n \in Numbers
    BY DEF Taken
  <2>3. q # NoRequest
    BY <1>2 DEF Write, LockPeriod, ClosePeriod, CreateRun, AddLine, Adjust, SubmitRun,
        ApproveRun, PostRun, RequestReversal, ApproveReversal, Ready
  <2>4. /\ q \in Request
        /\ q.op \in OnRuns => q.run \in Taken /\ q.run \in Numbers
    BY <2>3, CallRun, RunTaken DEF PayrollInv
  <2>5. n \notin Taken => n = q.number /\ (CreateRun(r) \/ ApproveReversal(r))
    BY <1>2, WrittenRun DEF PayrollInv
  <2>6. ASSUME n \in Taken, lines'[n][e] = lines[n][e], adjusted'[n][e] = adjusted[n][e]
        PROVE  /\ lines'[n][e].net = lines'[n][e].gross - lines'[n][e].deductions
               /\ lines'[n][e].direction = "payroll" =>
                    /\ lines'[n][e].gross = BaseGross + adjusted'[n][e]["earning"]
                    /\ lines'[n][e].deductions = adjusted'[n][e]["deduction"]
    BY <1>2, <2>1, <2>6 DEF LinesAddUp
  <2>7. ASSUME lines'[n][e] = NewLine, lines[n][e] = NoLine, adjusted'[n][e] = adjusted[n][e]
        PROVE  /\ lines'[n][e].net = lines'[n][e].gross - lines'[n][e].deductions
               /\ lines'[n][e].direction = "payroll" =>
                    /\ lines'[n][e].gross = BaseGross + adjusted'[n][e]["earning"]
                    /\ lines'[n][e].deductions = adjusted'[n][e]["deduction"]
    <3>1. adjusted[n][e]["earning"] = 0 /\ adjusted[n][e]["deduction"] = 0
      BY <2>2, <2>7 DEF PayrollInv, RowsFit, Adjustments
    <3>2. QED
      BY <2>7, <3>1, NumbersAssumption DEF NewLine
  <2>8. CASE CreateRun(r)
    <3>1. adjusted' = adjusted /\ q.number \in Numbers \ Taken
      BY <2>8 DEF CreateRun
    <3>2. CASE n = q.number
      <4>1. lines'[n][e] = NewLine
        BY <1>2, <2>8, <3>1, <3>2 DEF CreateRun, TypeOK
      <4>2. lines[n][e] = NoLine
        BY <3>1, <3>2 DEF PayrollInv, RowsFit, NoLines
      <4>3. QED
        BY <2>7, <3>1, <4>1, <4>2
    <3>3. CASE n # q.number
      BY <2>2, <2>5, <2>6, <2>8, <3>1, <3>3 DEF CreateRun, TypeOK
    <3>4. QED
      BY <3>2, <3>3
  <2>9. CASE AddLine(r)
    <3>1. PICK f \in q.staff :
            lines[q.run][f] = NoLine /\ lines' = [lines EXCEPT ![q.run][f] = NewLine]
      BY <2>9 DEF AddLine
    <3>2. adjusted' = adjusted
      BY <2>9 DEF AddLine
    <3>3. n \in Taken
      BY <2>5, <2>9 DEF AddLine, CreateRun, ApproveReversal, Ready
    <3>4. CASE n = q.run /\ e = f
      BY <2>2, <2>7, <3>1, <3>2, <3>4 DEF TypeOK
    <3>5. CASE ~(n = q.run /\ e = f)
      BY <2>2, <2>6, <3>1, <3>2, <3>3, <3>5 DEF TypeOK
    <3>6. QED
      BY <3>4, <3>5
  <2>10. CASE Adjust(r)
    <3>1. PICK f \in q.staff :
            /\ lines' = [lines EXCEPT ![q.run][f] = WithAdjustment(@, q.lines[f], q.op)]
            /\ adjusted' = [adjusted EXCEPT ![q.run][f][q.op] = @ + 1]
      BY <2>10 DEF Adjust
    <3>2. n \in Taken
      BY <2>5, <2>10 DEF Adjust, CreateRun, ApproveReversal, Ready, Adjustments
    <3>3. /\ q.op \in Adjustments /\ q.run \in Taken /\ q.run \in Numbers
          /\ f \in Employees
      BY <2>4, <2>10 DEF Adjust, Ready, OnRuns, Operations, Adjustments, Request
    <3>4. lines[q.run][f] # NoLine /\ q.lines = lines[q.run]
      BY <2>1, <2>3, <3>3 DEF Current, PayrollInv, CallsChecked, Checked, Running
    <3>5. CASE n = q.run /\ e = f
      <4>1. lines[n][e] \in Line
        BY <3>3, <3>4, <3>5 DEF TypeOK
      <4>2. lines[n][e].net = lines[n][e].gross - lines[n][e].deductions
            /\ (lines[n][e].direction = "payroll" =>
                  /\ lines[n][e].gross = BaseGross + adjusted[n][e]["earning"]
                  /\ lines[n][e].deductions = adjusted[n][e]["deduction"])
        BY <2>1, <3>2, <3>4, <3>5 DEF LinesAddUp
      <4>3. lines'[n][e] = WithAdjustment(lines[n][e], lines[n][e], q.op)
        BY <3>1, <3>3, <3>4, <3>5 DEF TypeOK
      <4>4. /\ adjusted'[n][e] = [adjusted[n][e] EXCEPT ![q.op] = adjusted[n][e][q.op] + 1]
            /\ adjusted[n][e] \in [Adjustments -> Nat]
        BY <3>1, <3>3, <3>5 DEF TypeOK
      <4>5. /\ adjusted'[n][e]["earning"] =
                 adjusted[n][e]["earning"] + (IF q.op = "earning" THEN 1 ELSE 0)
            /\ adjusted'[n][e]["deduction"] =
                 adjusted[n][e]["deduction"] + (IF q.op = "deduction" THEN 1 ELSE 0)
            /\ adjusted[n][e]["earning"] \in Nat /\ adjusted[n][e]["deduction"] \in Nat
        BY <3>3, <4>4 DEF Adjustments
      <4> HIDE DEF q
      <4>6. /\ lines'[n][e].net = lines'[n][e].gross - lines'[n][e].deductions
            /\ lines'[n][e].direction = lines[n][e].direction
            /\ lines'[n][e].gross = lines[n][e].gross + (IF q.op = "earning" THEN 1 ELSE 0)
            /\ lines'[n][e].deductions =
                 lines[n][e].deductions + (IF q.op = "deduction" THEN 1 ELSE 0)
        BY <3>3, <4>1, <4>2, <4>3, AdjustedAddsUp
      <4>7. QED
        BY <4>2, <4>5, <4>6, NumbersAssumption
    <3>6. CASE ~(n = q.run /\ e = f)
      BY <2>2, <2>6, <3>1, <3>2, <3>3, <3>6 DEF TypeOK
    <3>7. QED
      BY <3>5, <3>6
  <2>11. CASE ApproveReversal(r)
    <3>1. /\ q.run \in Taken /\ q.run \in Numbers /\ q.number \in Numbers \ Taken
          /\ adjusted' = adjusted
      BY <2>4, <2>11 DEF ApproveReversal, Ready, OnRuns, Operations
    <3>2. CASE n = q.number
      <4>1. lines'[n][e] = IF lines[q.run][e] = NoLine THEN NoLine
                           ELSE [lines[q.run][e] EXCEPT !.direction = "reversal"]
        BY <2>11, <3>1, <3>2 DEF ApproveReversal, TypeOK, Reversal
      <4>2. lines[q.run][e] \in Line
            /\ lines[q.run][e].net = lines[q.run][e].gross - lines[q.run][e].deductions
        BY <1>2, <2>1, <3>1, <4>1 DEF TypeOK, LinesAddUp
      <4>3. QED
        BY <1>2, <4>1, <4>2 DEF Line
    <3>3. CASE n # q.number
      BY <2>2, <2>5, <2>6, <2>11, <3>1, <3>3 DEF ApproveReversal, TypeOK
    <3>4. QED
      BY <3>2, <3>3
  <2>12. CASE UNCHANGED <<lines, adjusted>> /\ ~CreateRun(r) /\ ~ApproveReversal(r)
    BY <2>5, <2>6, <2>12
  <2>13. QED
    BY <1>2, <2>8, <2>9, <2>10, <2>11, <2>12
    DEF Write, LockPeriod, ClosePeriod, SubmitRun, ApproveRun, PostRun, RequestReversal
<1>3. ASSUME NEW r \in Requests, Write(r)
      PROVE  LinesAddUp'
  BY <1>2, <1>3 DEF LinesAddUp
<1>4. QED
  BY <1>1, <1>3 DEF Next, vars, Begin, TakeNumber, Abandon

\* Net pay is gross less deductions, and a line accounts for all its
\* adjustments (add_line, add_adjustment).
THEOREM AdjustmentsAddUp == Spec => []LinesAddUp
<1>1. Init => LinesAddUp
  BY DEF Init, LinesAddUp, Taken
<1>2. QED
  BY <1>1, StepAddsUp, Invariant, PTL DEF Spec
================================================================================

------------------------------ MODULE PayrollRun ------------------------------
(***************************************************************************)
(* The runs of one payroll period: maker and checker, posting, reversal.   *)
(*                                                                         *)
(* Every call of the API is one READ COMMITTED transaction without row     *)
(* locks.  It reads the rows its guards are about, checks them in Python   *)
(* and writes at the end; what it has read may be history by then.  So     *)
(* each call is a Begin, which reads and checks, and an action that writes *)
(* and commits; what needs the number of a new run reads it in between,    *)
(* after the guards.  A unique constraint makes the later of two equal     *)
(* insertions fail.                                                        *)
(*                                                                         *)
(* A run is known by its sequence number in the period.                    *)
(***************************************************************************)
EXTENDS Integers, FiniteSets

CONSTANTS
  Users,            \* people with the permissions of payroll
  Employees,        \* employees who are paid
  Requests,         \* API calls that can be running at the same time
  BaseGross,        \* gross pay of a generated line
  MaxRuns,          \* bound: runs of the period
  MaxCreated,       \* bound: those of them that reverse no other
  MaxAdjustments,   \* bound: adjustments of the lines of one employee
  MaxOverlaps,      \* bound: writes of calls that others have overtaken
  MaxOverlapRuns,   \* bound: runs of the period while calls overlap
  NoUser,           \* nobody has approved or requested yet
  NoRun,            \* a run nobody has created yet
  NoLine,           \* no payroll line
  NoRequest         \* a call that is not running

ASSUME NumbersAssumption ==
  /\ BaseGross \in Nat
  /\ MaxRuns \in Nat
  /\ MaxCreated \in Nat
  /\ MaxAdjustments \in Nat
  /\ MaxOverlaps \in Nat
  /\ MaxOverlapRuns \in Nat

Numbers == 1 .. MaxRuns

\* A row of payroll_runs.  reverses is reversal_of_run_id, 0 for none.
Run ==
  [status : {"draft", "pending_approval", "approved", "posted", "reversal_pending",
             "reversed"},
   maker : Users, approver : Users \cup {NoUser}, requester : Users \cup {NoUser},
   reverses : 0 .. MaxRuns]

\* A row of payroll_lines; the tax is part of its deductions.
Line ==
  [direction : {"payroll", "reversal"}, gross : Nat, deductions : Nat, net : Nat]

Adjustments == {"earning", "deduction"}

Operations ==
  {"lock_period", "close_period", "create_run", "add_line", "submit_run",
   "approve_run", "post_run", "request_reversal", "approve_reversal"} \cup Adjustments

OnRuns == Operations \ {"lock_period", "close_period", "create_run"}

\* The operations whose user is compared with another later.
Signed ==
  {"lock_period", "create_run", "approve_run", "request_reversal", "approve_reversal"}

\* A running call: what it was asked to do, and what it has read and will use
\* again: a line, the requester of a reversal, the number of its new run.
Request ==
  [op : Operations, user : Users \cup {NoUser}, run : 0 .. MaxRuns, staff : SUBSET Employees,
   lines : [Employees -> Line \cup {NoLine}], requester : Users \cup {NoUser},
   number : 0 .. MaxRuns]

ASSUME NoneAssumption ==
  NoUser \notin Users /\ NoRun \notin Run /\ NoLine \notin Line /\ NoRequest \notin Request

VARIABLES
  period,       \* the payroll_periods row: status, maker and locker
  runs,         \* the payroll_runs of the period, by number
  lines,        \* the payroll_lines of each run
  adjusted,     \* how many payroll_adjustments of each type a line has
  requests,     \* the running calls
  overtaken,    \* history: calls that run since before the last commit of another
  overlaps      \* history: how many calls have written after they were overtaken

tables == <<period, runs, lines, adjusted>>
vars == <<tables, requests, overtaken, overlaps>>

TypeOK ==
  /\ period \in [status : {"open", "locked", "closed"}, maker : Users,
                 locker : Users \cup {NoUser}]
  /\ runs \in [Numbers -> Run \cup {NoRun}]
  /\ lines \in [Numbers -> [Employees -> Line \cup {NoLine}]]
  /\ adjusted \in [Numbers -> [Employees -> [Adjustments -> Nat]]]
  /\ requests \in [Requests -> Request \cup {NoRequest}]
  /\ overtaken \subseteq Requests
  /\ overlaps \in 0 .. MaxOverlaps

NoLines == [e \in Employees |-> NoLine]

Init ==
  /\ period \in [status : {"open"}, maker : Users, locker : {NoUser}]
  /\ runs = [n \in Numbers |-> NoRun]
  /\ lines = [n \in Numbers |-> NoLines]
  /\ adjusted = [n \in Numbers |-> [e \in Employees |-> [t \in Adjustments |-> 0]]]
  /\ requests = [r \in Requests |-> NoRequest]
  /\ overtaken = {}
  /\ overlaps = 0

-----------------------------------------------------------------------------
(***************************************************************************)
(* What each call checks.                                                  *)
(***************************************************************************)

Taken == {n \in Numbers : runs[n] # NoRun}
Created == {n \in Taken : runs[n].reverses = 0}
In(n, status) == n \in Taken /\ runs[n].status = status

MayLock(user) == period.status = "open" /\ period.maker # user

\* Mutant: approved runs do not keep a period open.
UnresolvedButApproved ==
  {n \in Taken : runs[n].status \in {"draft", "pending_approval", "reversal_pending"}}

Unresolved ==
  {n \in Taken : runs[n].status \in
     {"draft", "pending_approval", "approved", "reversal_pending"}}

MayClose == period.status = "locked" /\ Unresolved = {}

\* create_run makes a run without lines, generate_run one with the lines of
\* its staff, through the same two steps.
MayCreate == period.status = "locked"

MayAddLine(n, staff) ==
  In(n, "draft") /\ \E e \in Employees : staff = {e} /\ lines[n][e] = NoLine

\* Mutant: net_amount is not computed again.
WithAdjustmentNetKept(now, seen, type) ==
  CASE type = "earning" -> [now EXCEPT !.gross = seen.gross + 1]
    [] type = "deduction" -> [now EXCEPT !.deductions = seen.deductions + 1]

\* deductions + tax <= gross
Payable(line) == line.deductions <= line.gross

\* The UPDATE of an adjustment of 1 sets the columns it changes from the line
\* the call has seen, and leaves the others of the row as they are now.
WithAdjustment(now, seen, type) ==
  CASE type = "earning" ->
         [now EXCEPT !.gross = seen.gross + 1,
                     !.net = (seen.gross + 1) - seen.deductions]
    [] type = "deduction" ->
         [now EXCEPT !.deductions = seen.deductions + 1,
                     !.net = seen.gross - (seen.deductions + 1)]

AdjustmentsOf(e) ==
  {x \in Numbers \X Adjustments \X (1 .. MaxAdjustments) : x[3] <= adjusted[x[1]][e][x[2]]}

\* Mutant: add_adjustment does not look at the status of the run.
MayAdjustAnytime(n, staff, type) ==
  /\ n \in Taken
  /\ \E e \in Employees :
       LET line == lines[n][e]
       IN
       /\ staff = {e}
       /\ line # NoLine
       /\ Cardinality(AdjustmentsOf(e)) < MaxAdjustments
       /\ Payable(WithAdjustment(line, line, type))

\* add_adjustment: deductions and tax must not exceed gross pay afterwards.
MayAdjust(n, staff, type) ==
  /\ In(n, "draft")
  /\ \E e \in Employees :
       LET line == lines[n][e]
       IN
       /\ staff = {e}
       /\ line # NoLine
       /\ Cardinality(AdjustmentsOf(e)) < MaxAdjustments
       /\ Payable(WithAdjustment(line, line, type))

MaySubmit(n) == In(n, "draft") /\ lines[n] # NoLines

\* Mutant: the maker of a run approves it.
MayApproveOwn(user, n) == In(n, "pending_approval")

MayApprove(user, n) == In(n, "pending_approval") /\ runs[n].maker # user

MayPost(n) == In(n, "approved")

MayRequestReversal(n) == In(n, "posted")

\* Mutant: approving a reversal that was approved already is not refused.
MayApproveReversalAgain(user, n) ==
  /\ In(n, "reversal_pending") \/ In(n, "reversed")
  /\ runs[n].requester # user

MayApproveReversal(user, n) == In(n, "reversal_pending") /\ runs[n].requester # user

May(op, user, n, staff) ==
  \/ op = "lock_period" /\ MayLock(user) /\ n = 0 /\ staff = {}
  \/ op = "close_period" /\ MayClose /\ n = 0 /\ staff = {}
  \/ op = "create_run" /\ MayCreate /\ n = 0
  \/ op = "add_line" /\ MayAddLine(n, staff)
  \/ op \in Adjustments /\ MayAdjust(n, staff, op)
  \/ op = "submit_run" /\ MaySubmit(n) /\ staff = {}
  \/ op = "approve_run" /\ MayApprove(user, n) /\ staff = {}
  \/ op = "post_run" /\ MayPost(n) /\ staff = {}
  \/ op = "request_reversal" /\ MayRequestReversal(n) /\ staff = {}
  \/ op = "approve_reversal" /\ MayApproveReversal(user, n) /\ staff = {}

-----------------------------------------------------------------------------
(***************************************************************************)
(* The steps of a call.                                                    *)
(***************************************************************************)

\* When one of the bounds is reached calls run one at a time.
MayOverlap ==
  /\ overlaps < MaxOverlaps
  /\ Cardinality(Created) < MaxCreated /\ Taken \subseteq 1 .. MaxOverlapRuns

\* The call reads its rows and passes its checks.
Begin(r, op, user, n, staff) ==
  /\ requests[r] = NoRequest
  /\ MayOverlap \/ \A q \in Requests : requests[q] = NoRequest
  /\ May(op, user, n, staff)
  /\ requests' = [requests EXCEPT ![r] =
       [op |-> op, user |-> IF op \in Signed THEN user ELSE NoUser, run |-> n, staff |-> staff,
        lines |-> IF op \in Adjustments THEN lines[n] ELSE NoLines,
        requester |-> IF op = "approve_reversal" THEN runs[n].requester ELSE NoUser,
        number |-> 0]]
  /\ overtaken' = overtaken \ {r}
  /\ UNCHANGED <<tables, overlaps>>

\* SELECT max(sequence) + 1 for the run this call is going to insert; the last
\* two conjuncts are bounds.
TakeNumber(r, number) ==
  /\ requests[r] # NoRequest
  /\ requests[r].op \in {"create_run", "approve_reversal"}
  /\ requests[r].number = 0
  /\ \A n \in Taken : n < number
  /\ number = 1 \/ number - 1 \in Taken
  /\ requests[r].op = "create_run" => Cardinality(Created) < MaxCreated
  /\ overlaps = 0 \/ number <= MaxOverlapRuns
  /\ requests' = [requests EXCEPT ![r].number = number]
  /\ UNCHANGED <<tables, overtaken, overlaps>>

\* The call is r's, and it is ready to write.
Ready(r, op) ==
  /\ requests[r] # NoRequest
  /\ requests[r].op = op
  /\ r \in overtaken => overlaps < MaxOverlaps

\* The call ends; everybody else who is running has been overtaken by it.
Committed(r) ==
  /\ requests' = [requests EXCEPT ![r] = NoRequest]
  /\ overtaken' = {q \in Requests \ {r} : requests[q] # NoRequest}
  /\ overlaps' = IF r \in overtaken THEN overlaps + 1 ELSE overlaps

LockPeriod(r) ==
  /\ Ready(r, "lock_period")
  /\ period' = [period EXCEPT !.status = "locked", !.locker = requests[r].user]
  /\ Committed(r)
  /\ UNCHANGED <<runs, lines, adjusted>>

ClosePeriod(r) ==
  /\ Ready(r, "close_period")
  /\ period' = [period EXCEPT !.status = "closed"]
  /\ Committed(r)
  /\ UNCHANGED <<runs, lines, adjusted>>

NewLine ==
  [direction |-> "payroll", gross |-> BaseGross, deductions |-> 0, net |-> BaseGross]

CreateRun(r) ==
  LET q == requests[r]
  IN
  /\ Ready(r, "create_run")
  /\ q.number \in Numbers \ Taken
  /\ runs' = [runs EXCEPT ![q.number] =
       [status |-> "draft", maker |-> q.user, approver |-> NoUser,
        requester |-> NoUser, reverses |-> 0]]
  /\ lines' = [lines EXCEPT ![q.number] =
       [e \in Employees |-> IF e \in q.staff THEN NewLine ELSE NoLine]]
  /\ Committed(r)
  /\ UNCHANGED <<period, adjusted>>

\* uq_payroll_line_run_employee refuses a second line.
AddLine(r) ==
  LET q == requests[r]
  IN
  /\ Ready(r, "add_line")
  /\ \E e \in q.staff :
       /\ lines[q.run][e] = NoLine
       /\ lines' = [lines EXCEPT ![q.run][e] = NewLine]
  /\ Committed(r)
  /\ UNCHANGED <<period, runs, adjusted>>

Adjust(r) ==
  LET q == requests[r]
  IN
  /\ \E type \in Adjustments : Ready(r, type)
  /\ \E e \in q.staff :
       /\ lines' = [lines EXCEPT ![q.run][e] = WithAdjustment(@, q.lines[e], q.op)]
       /\ adjusted' = [adjusted EXCEPT ![q.run][e][q.op] = @ + 1]
  /\ Committed(r)
  /\ UNCHANGED <<period, runs>>

SubmitRun(r) ==
  /\ Ready(r, "submit_run")
  /\ runs' = [runs EXCEPT ![requests[r].run].status = "pending_approval"]
  /\ Committed(r)
  /\ UNCHANGED <<period, lines, adjusted>>

ApproveRun(r) ==
  LET q == requests[r]
  IN
  /\ Ready(r, "approve_run")
  /\ runs' = [runs EXCEPT ![q.run] =
       [@ EXCEPT !.status = "approved", !.approver = q.user]]
  /\ Committed(r)
  /\ UNCHANGED <<period, lines, adjusted>>

PostRun(r) ==
  /\ Ready(r, "post_run")
  /\ runs' = [runs EXCEPT ![requests[r].run].status = "posted"]
  /\ Committed(r)
  /\ UNCHANGED <<period, lines, adjusted>>

RequestReversal(r) ==
  LET q == requests[r]
  IN
  /\ Ready(r, "request_reversal")
  /\ runs' = [runs EXCEPT ![q.run] =
       [@ EXCEPT !.status = "reversal_pending", !.requester = q.user]]
  /\ Committed(r)
  /\ UNCHANGED <<period, lines, adjusted>>

\* The lines of a reversal run, copied after the run was inserted.
Reversal(n) ==
  [e \in Employees |->
     IF lines[n][e] = NoLine THEN NoLine
     ELSE [lines[n][e] EXCEPT !.direction = "reversal"]]

ApproveReversal(r) ==
  LET q == requests[r]
  IN
  /\ Ready(r, "approve_reversal")
  /\ q.number \in Numbers \ Taken
  /\ runs' = [runs EXCEPT
       ![q.number] = [status |-> "posted", maker |-> q.requester, approver |-> q.user,
                      requester |-> NoUser, reverses |-> q.run],
       ![q.run].status = "reversed"]
  /\ lines' = [lines EXCEPT ![q.number] = Reversal(q.run)]
  /\ Committed(r)
  /\ UNCHANGED <<period, adjusted>>

\* A unique constraint, a lost connection or a crash ends the call.
Abandon(r) ==
  /\ requests[r] # NoRequest
  /\ requests' = [requests EXCEPT ![r] = NoRequest]
  /\ overtaken' = overtaken \ {r}
  /\ UNCHANGED <<tables, overlaps>>

Write(r) ==
  \/ LockPeriod(r)
  \/ ClosePeriod(r)
  \/ CreateRun(r)
  \/ AddLine(r)
  \/ Adjust(r)
  \/ SubmitRun(r)
  \/ ApproveRun(r)
  \/ PostRun(r)
  \/ RequestReversal(r)
  \/ ApproveReversal(r)

Next ==
  \E r \in Requests :
    \/ \E op \in Operations, user \in Users, n \in 0 .. MaxRuns,
          staff \in SUBSET Employees : Begin(r, op, user, n, staff)
    \/ \E number \in Numbers : TakeNumber(r, number)
    \/ Write(r)
    \/ Abandon(r)

Spec == Init /\ [][Next]_vars

-----------------------------------------------------------------------------
(***************************************************************************)
(* Properties.                                                             *)
(***************************************************************************)

\* "payroll maker cannot approve their own run", "payroll period locking
\* requires independent approval": however calls overlap, no run gets past its
\* approval, no reversal run is posted and no period is locked by one person
\* alone.
FourEyes ==
  /\ period.status # "open" => period.locker \in Users \ {period.maker}
  /\ \A n \in Taken :
       runs[n].status \in {"approved", "posted", "reversal_pending", "reversed"} =>
         runs[n].approver \in Users \ {runs[n].maker}

\* The guards are complete as long as no call writes after another has
\* overtaken it.  Its reads are then still true when it writes.
Serial == overlaps = 0

Reversals(n) == {m \in Taken : runs[m].reverses = n}

\* A run that was reversed was reversed once, on behalf of the person who had
\* asked for it, and the reversal run holds its lines, no more and no less
\* (approve_reversal).
ReversedOnce ==
  Serial => \A n \in Taken :
    /\ runs[n].status = "reversed" <=> Reversals(n) # {}
    /\ \A m \in Reversals(n) :
         /\ Reversals(n) = {m}
         /\ runs[m].maker = runs[n].requester
         /\ lines[m] = Reversal(n)

\* DATA_MODEL.md: "Posted payroll snapshots are immutable".
PostedImmutable ==
  [][Serial' => \A n \in Taken :
       runs[n].status \in {"posted", "reversal_pending", "reversed"} =>
         lines'[n] = lines[n]]_vars

\* A closed period has no run that could still be posted or discarded: only
\* reversals go on (close_period, create_run).
ClosedSettled ==
  Serial /\ period.status = "closed" => \A n \in Taken :
    runs[n].status \in {"posted", "reversal_pending", "reversed"}

\* "net pay is gross - deductions - tax" (PAYROLL_BASELINE.md), also after
\* adjustments, and the lines of a run account for all its adjustments.
LinesAddUp ==
  Serial => \A n \in Taken, e \in Employees :
    LET line == lines[n][e]
    IN  line # NoLine =>
          /\ line.net = line.gross - line.deductions
          /\ line.direction = "payroll" =>
               /\ line.gross = BaseGross + adjusted[n][e]["earning"]
               /\ line.deductions = adjusted[n][e]["deduction"]

-----------------------------------------------------------------------------
(***************************************************************************)
(* What the properties rest on.                                            *)
(***************************************************************************)

\* Somebody else than its maker has approved the run.
ApprovedByOther(n) == runs[n].approver \in Users \ {runs[n].maker}

\* What a call has checked that no other call can change again: who made and
\* who approved its run, and that its rows exist.
Checked(q) ==
  /\ q.op \in Signed => q.user \in Users
  /\ q.op = "lock_period" => q.user # period.maker
  /\ q.op = "close_period" => period.locker \in Users \ {period.maker}
  /\ q.op \in OnRuns => q.run \in Taken
  /\ q.op = "approve_run" => q.user # runs[q.run].maker
  /\ q.op \in {"post_run", "request_reversal", "approve_reversal"} =>
       ApprovedByOther(q.run)
  /\ q.op = "approve_reversal" => q.requester \in Users \ {q.user}
  /\ q.op \in Adjustments => \A e \in q.staff :
       /\ lines[q.run][e] # NoLine
       /\ q.lines[e] \in Line
       /\ Payable(WithAdjustment(q.lines[e], q.lines[e], q.op))

\* What a call has read and checked is still true.
Current(q) ==
  /\ May(q.op, q.user, q.run, q.staff)
  /\ q.op \in Adjustments => q.lines = lines[q.run]
  /\ q.op = "approve_reversal" => q.requester = runs[q.run].requester

Running == {r \in Requests : requests[r] # NoRequest}

CallsChecked == \A r \in Running : Checked(requests[r])

\* It is, as long as nobody has overtaken the call.
CallsCurrent == \A r \in Running \ overtaken : Current(requests[r])

\* The rows of a run fit together.
RowsFit ==
  /\ \A n \in Taken : runs[n].status = "reversal_pending" => runs[n].requester \in Users
  /\ \A n \in Taken : runs[n].reverses # 0 =>
       /\ runs[n].reverses \in Taken
       /\ Serial => runs[n].status \in {"posted", "reversal_pending", "reversed"}
  /\ \A n \in Numbers \ Taken : lines[n] = NoLines
  /\ \A n \in Numbers, e \in Employees :
       lines[n][e] = NoLine => \A type \in Adjustments : adjusted[n][e][type] = 0

\* The inductive invariant under FourEyes and, with the properties that need
\* it, under the others.
PayrollInv == CallsChecked /\ CallsCurrent /\ RowsFit

-----------------------------------------------------------------------------
(***************************************************************************)
(* What the documents say and the program does not keep.                   *)
(***************************************************************************)

\* annual_summary adds the lines of posted and reversed runs, those of
\* direction "reversal" negatively.
Counted(n, e) ==
  IF lines[n][e] = NoLine THEN 0
  ELSE IF lines[n][e].direction = "reversal" THEN 0 - lines[n][e].net
  ELSE lines[n][e].net

\* DATA_MODEL.md: "reversal creates compensating records".  In the annual
\* summary the lines of a reversal run and those of the run it reverses come to
\* nothing.
ReversalCompensates ==
  \A n \in Taken, e \in Employees :
    \A m \in Reversals(n) : Counted(n, e) + Counted(m, e) = 0

=============================================================================

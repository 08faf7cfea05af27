----------------------------- MODULE LeaveBalance -----------------------------
(***************************************************************************)
(* The working calendar, one leave policy, its yearly allocations, and the *)
(* leave and field duty of the employees of an organization.               *)
(*                                                                         *)
(* A call of the API is one READ COMMITTED transaction: it reads, checks   *)
(* in Python and writes at the end, without a lock.  Calls whose checks    *)
(* look at what they write are a Begin and a Write; what only writes one   *)
(* row (weekends, holidays, policy rules) is one step.  Amounts are        *)
(* numbers of half days.                                                   *)
(***************************************************************************)
EXTENDS Integers, FiniteSetsExt

CONSTANTS
  Employees,       \* employees of the organization
  Users,           \* users who decide
  Calls,           \* API calls that can be running at the same time
  Days,            \* dates, consecutive numbers
  Years,           \* BS years, consecutive numbers
  YearOf,          \* the BS year of a date
  Weekday,         \* the weekday of a date, 0 .. 6
  Self,            \* the employee a user account is linked to
  OnStaff,         \* who is employed in a year, and active
  TypeOf,          \* the employment type of an employee
  Entitlement,     \* annual_entitlement of the policy
  HalfDays,        \* half_day_allowed of the policy
  WeekendChoices,  \* bound: the weekends that may be set
  HolidayDates,    \* bound: the dates that may become holidays
  HolidayChoices,  \* bound: what a holiday may be set to
  Periods,         \* bound: the first and last dates that are asked for
  RuleChoices,     \* bound: the rules that may be set
  Agreed,          \* the policy to begin with
  Announced,       \* the holidays to begin with
  Standing,        \* bound: the allocations to begin with
  AmountChoices,   \* bound: the amounts an administrator allocates
  MaxUses,         \* bound: rows of leave and field duty
  MaxSetups,       \* bound: changes of the calendar, the policy and allocations
  MaxOverlaps,     \* bound: writes of calls that others have overtaken
  NoEmployee, NoAllocation, NoUse, NoCall, NoCap

Full == 2
Half == 1
Slots == 1 .. MaxUses

\* The row of a policy and of its rule.
Policy ==
  [active : BOOLEAN, carry : BOOLEAN, cap : Nat \cup {NoCap}, types : SUBSET Range(TypeOf)]

\* A row of holidays: cancelled ones are not active.
Holiday ==
  [name : STRING, category : {"public", "organization", "optional"}, active : BOOLEAN]

ASSUME CalendarAssumption ==
  /\ Days \subseteq Int /\ Years \subseteq Int
  /\ YearOf \in [Days -> Years] /\ Weekday \in [Days -> 0 .. 6]
  /\ Self \in [Users -> Employees \cup {NoEmployee}]
  /\ OnStaff \in [Years -> SUBSET Employees]
  /\ TypeOf \in [Employees -> Range(TypeOf)]
  /\ WeekendChoices \subseteq SUBSET (0 .. 6) \ {{}}
  /\ HolidayDates \subseteq Days /\ HolidayChoices \subseteq Holiday
  /\ Periods \subseteq Days \X Days
  /\ RuleChoices \subseteq Policy
  /\ AmountChoices \subseteq
       [opening : Nat, earned : Nat, carried : Nat, adjustment : Int]
  /\ Entitlement \in Nat /\ HalfDays \in BOOLEAN
  /\ MaxUses \in Nat /\ MaxSetups \in Nat /\ MaxOverlaps \in Nat

\* leave_allocations with its leave_allocation_details row, if it has one.
Allocation ==
  [allocated : Nat, carried : Nat, adjustment : Int,
   detail : BOOLEAN, opening : Nat, earned : Nat]

Table == [Employees -> [Years -> Allocation \cup {NoAllocation}]]

Decisions == {"approved", "rejected", "cancelled"}

\* A row of leave_requests or field_duty_requests.
Use ==
  [kind : {"leave", "duty"}, employee : Employees, first : Days, last : Days,
   part : {"full", "half"}, days : Nat, status : {"pending"} \cup Decisions]

Call ==
  [op : {"request"}, row : Use]
    \cup [op : {"decide"}, use : Slots, status : Decisions]
    \cup [op : {"allocate", "annual"}, year : Years, seen : Table, plan : Table]

ASSUME StandingAssumption ==
  /\ Agreed \in Policy /\ Announced \in [Days -> SUBSET Holiday]
  /\ Standing \subseteq Table

ASSUME NoneAssumption ==
  /\ NoEmployee \notin Employees /\ NoUse \notin Use
  /\ NoAllocation \notin Allocation /\ NoCall \notin Call /\ NoCap \notin Nat

VARIABLES
  weekends,      \* weekend_weekdays of the organization
  holidays,      \* the holidays of a date, with different names
  policy,        \* the policy and its rule
  allocations,   \* what an employee is entitled to in a year
  uses,          \* leave and field duty, in the order of the requests
  calls,         \* the running calls
  setups,        \* how many changes of the set-up there have been
  cut,           \* history: employees and years an allocation has left short
  overtaken,     \* history: calls that run since before the last commit of another
  overlaps       \* history: how many calls have written after they were overtaken

setup == <<weekends, holidays, policy>>
history == <<setups, cut, overtaken, overlaps>>
vars == <<setup, allocations, uses, calls, history>>

TypeOK ==
  /\ weekends \in SUBSET (0 .. 6)
  /\ holidays \in [Days -> SUBSET Holiday]
  /\ policy \in Policy
  /\ allocations \in Table
  /\ uses \in [Slots -> Use \cup {NoUse}]
  /\ calls \in [Calls -> Call \cup {NoCall}]
  /\ setups \in 0 .. MaxSetups
  /\ cut \in [{"requested", "approved"} -> SUBSET (Employees \X Years)]
  /\ overtaken \subseteq Calls
  /\ overlaps \in 0 .. MaxOverlaps

-----------------------------------------------------------------------------
(***************************************************************************)
(* The calendar.                                                           *)
(***************************************************************************)

ClosedBy(rows) == \E row \in rows : row.active /\ row.category # "optional"

CalendarDecision(d) ==
  IF Weekday[d] \in weekends THEN "weekend"
  ELSE IF ClosedBy(holidays[d]) THEN "holiday"
  ELSE "workday"

\* working_days_between, in half days
WorkingDays(first, last) ==
  Full * Cardinality({d \in first .. last : CalendarDecision(d) = "workday"})

Taken == {n \in Slots : uses[n] # NoUse}

\* The rows of an employee that include a date.
Covering(e, d) ==
  {n \in Taken : uses[n].employee = e /\ uses[n].first <= d /\ d <= uses[n].last}

Approved(e, d, kind) ==
  {n \in Covering(e, d) : uses[n].kind = kind /\ uses[n].status = "approved"}

\* Mutant: leave counts before somebody has approved it.
WorkdayDecisionOnRequest(e, d) ==
  CASE CalendarDecision(d) # "workday"   -> CalendarDecision(d)
    [] OTHER -> IF \E n \in Covering(e, d) : uses[n].kind = "leave" THEN "leave" ELSE "workday"

\* workday_decision of the leave service
WorkdayDecision(e, d) ==
  IF CalendarDecision(d) # "workday" THEN CalendarDecision(d)
  ELSE IF Approved(e, d, "duty") # {} THEN "field_duty"
  ELSE IF Approved(e, d, "leave") # {} THEN "leave"
  ELSE "workday"

\* _fallback_status of the reports, for a day without attendance record; of
\* several leaves of a date it takes the first it meets.
ReportStatuses(e, d) ==
  IF Approved(e, d, "duty") # {} THEN {"field_duty"}
  ELSE IF Approved(e, d, "leave") # {}
  THEN {IF uses[n].part = "full" THEN "leave" ELSE "partial" : n \in Approved(e, d, "leave")}
  ELSE IF ClosedBy(holidays[d]) THEN {"holiday"}
  ELSE IF Weekday[d] \in weekends THEN {"weekly_off"}
  ELSE {"uncalculated"}

Engine == INSTANCE AttendanceRules WITH DayLength <- 1, NoShift <- NoCall, NoTime <- -1

\* What the attendance engine makes of the same rows on a day without punches.
EngineStatuses(e, d) ==
  {Engine!DayStatus("absent",
     [weekend |-> Weekday[d] \in weekends, holiday |-> ClosedBy(holidays[d]),
      duty |-> Approved(e, d, "duty") # {}, leave |-> part]) :
   part \in IF Approved(e, d, "leave") = {} THEN {"none"}
            ELSE {uses[n].part : n \in Approved(e, d, "leave")}}

-----------------------------------------------------------------------------
(***************************************************************************)
(* Balances and the annual allocation.                                     *)
(***************************************************************************)

\* The half days of an employee's leave that starts in a year, each named by
\* its row and its number in the row.
HalfDaysUsed(rows, e, y, statuses) ==
  UNION {{n} \X (1 .. rows[n].days) :
         n \in {m \in Slots : /\ rows[m] # NoUse
                              /\ rows[m].kind = "leave"
                              /\ rows[m].employee = e
                              /\ YearOf[rows[m].first] = y
                              /\ rows[m].status \in statuses}}

\* The sum of requested_days.
UsedDays(rows, e, y, statuses) == Cardinality(HalfDaysUsed(rows, e, y, statuses))

Entitled(allocation) == allocation.allocated + allocation.carried + allocation.adjustment

\* Mutant: what is pending is available still.
AvailableBeforeApproval(table, rows, e, y) ==
  Entitled(table[e][y]) - UsedDays(rows, e, y, {"approved"})

\* leave_balance
Available(table, rows, e, y) ==
  Entitled(table[e][y]) - UsedDays(rows, e, y, {"approved", "pending"})

\* A row with the details that reading it creates: it was all earned.
Detailed(allocation) ==
  IF allocation = NoAllocation \/ allocation.detail THEN allocation
  ELSE [allocation EXCEPT !.detail = TRUE, !.opening = 0, !.earned = allocation.allocated]

Eligible(e, y) == e \in OnStaff[y] /\ (policy.types = {} \/ TypeOf[e] \in policy.types)

\* _carry_forward
Carry(e, y) ==
  IF ~policy.carry \/ y - 1 \notin Years \/ allocations[e][y - 1] = NoAllocation THEN 0
  ELSE LET left == Max({0, Available(allocations, uses, e, y - 1)})
       IN  IF policy.cap = NoCap THEN left ELSE Min({left, policy.cap})

Adjustment(e, y) ==
  IF allocations[e][y] = NoAllocation THEN 0 ELSE allocations[e][y].adjustment

\* Mutant: the opening days of the row are kept.
TargetOpened(e, y) ==
  LET opening == IF allocations[e][y] = NoAllocation THEN 0 ELSE allocations[e][y].opening
  IN  [allocated |-> opening + Entitlement, carried |-> Carry(e, y),
       adjustment |-> Adjustment(e, y),
       detail |-> TRUE, opening |-> opening, earned |-> Entitlement]

\* The row that annual allocation gives an eligible employee.
Target(e, y) ==
  [allocated |-> Entitlement, carried |-> Carry(e, y), adjustment |-> Adjustment(e, y),
   detail |-> TRUE, opening |-> 0, earned |-> Entitlement]

\* The action of annual_allocation_plan; it looks at the details of the row.
PlanAction(e, y) ==
  LET row == Detailed(allocations[e][y])
  IN
  IF ~Eligible(e, y) THEN "skipped"
  ELSE IF row = NoAllocation THEN "create"
  ELSE IF row.opening = 0 /\ row.earned = Entitlement /\ row.carried = Carry(e, y)
  THEN "no_change"
  ELSE "update"

\* The table after apply_annual_allocation: every eligible row is set to its
\* target; the details of the year before are there once they have been read.
AnnualPlan(y) ==
  [e \in Employees |-> [z \in Years |->
     IF ~Eligible(e, y) THEN allocations[e][z]
     ELSE IF z = y THEN Target(e, y)
     ELSE IF z = y - 1 /\ policy.carry THEN Detailed(allocations[e][z])
     ELSE allocations[e][z]]]

\* allocate_leave leaves the details as they are.
Allocated(row, allocated, amounts) ==
  LET old == IF row = NoAllocation THEN [detail |-> FALSE, opening |-> 0, earned |-> 0] ELSE row
  IN  [allocated |-> allocated, carried |-> amounts.carried,
       adjustment |-> amounts.adjustment,
       detail |-> old.detail, opening |-> old.opening, earned |-> old.earned]

\* upsert_allocation_breakdown
BrokenDown(row, amounts) ==
  [Allocated(row, amounts.opening + amounts.earned, amounts) EXCEPT
     !.detail = TRUE, !.opening = amounts.opening, !.earned = amounts.earned]

-----------------------------------------------------------------------------
(***************************************************************************)
(* Set-up changes of one step.                                             *)
(***************************************************************************)

SetUp == setups < MaxSetups /\ setups' = setups + 1

\* A set-up change overtakes every running call.
Changed ==
  /\ overtaken' = {c \in Calls : calls[c] # NoCall}
  /\ UNCHANGED <<allocations, uses, calls, cut, overlaps>>

SetWeekends(chosen) ==
  /\ SetUp
  /\ weekends' = chosen
  /\ Changed
  /\ UNCHANGED <<holidays, policy>>

\* A name is unique among the holidays of a date (uq_holiday_org_date_name).
Nameable(d, rows, holiday) == \A row \in holidays[d] \ rows : row.name # holiday.name

CreateHoliday(d, holiday) ==
  /\ SetUp
  /\ Nameable(d, {}, holiday) /\ holiday.active
  /\ holidays' = [holidays EXCEPT ![d] = @ \cup {holiday}]
  /\ Changed
  /\ UNCHANGED <<weekends, policy>>

UpdateHoliday(d, row, holiday) ==
  /\ SetUp
  /\ row \in holidays[d] /\ Nameable(d, {row}, holiday)
  /\ holidays' = [holidays EXCEPT ![d] = (@ \ {row}) \cup {holiday}]
  /\ Changed
  /\ UNCHANGED <<weekends, policy>>

UpdatePolicyRule(chosen) ==
  /\ SetUp
  /\ policy' = chosen
  /\ Changed
  /\ UNCHANGED <<weekends, holidays>>

\* Balances and previews create the details of the rows they show.
ReadBalances(e, y) ==
  /\ allocations' = [allocations EXCEPT ![e][y] = Detailed(@)]
  /\ UNCHANGED <<setup, uses, calls, history>>

-----------------------------------------------------------------------------
(***************************************************************************)
(* Calls that check and then write.                                        *)
(***************************************************************************)

Open(n) == uses[n].status \in {"pending", "approved"}

\* _date_overlap with what is pending or approved, of a kind
Overlapping(e, first, last, kind) ==
  {n \in Taken : /\ uses[n].employee = e
                 /\ uses[n].kind = kind
                 /\ uses[n].first <= last /\ first <= uses[n].last
                 /\ Open(n)}

RequestedDays(first, last, part) ==
  IF part = "half" THEN Half ELSE WorkingDays(first, last)

\* Mutant: leave is not compared with field duty.
MayRequestLeaveOnDuty(e, first, last, part) ==
  /\ first <= last
  /\ YearOf[first] = YearOf[last]
  /\ policy.active
  /\ part = "half" => first = last /\ HalfDays /\ WorkingDays(first, last) = Full
  /\ Overlapping(e, first, last, "leave") = {}
  /\ RequestedDays(first, last, part) > 0
  /\ allocations[e][YearOf[first]] # NoAllocation
  /\ RequestedDays(first, last, part) <= Available(allocations, uses, e, YearOf[first])

MayRequestLeave(e, first, last, part) ==
  /\ first <= last
  /\ YearOf[first] = YearOf[last]
  /\ policy.active
  /\ part = "half" => first = last /\ HalfDays /\ WorkingDays(first, last) = Full
  /\ Overlapping(e, first, last, "leave") = {}
  /\ Overlapping(e, first, last, "duty") = {}
  /\ RequestedDays(first, last, part) > 0
  /\ allocations[e][YearOf[first]] # NoAllocation
  /\ RequestedDays(first, last, part) <= Available(allocations, uses, e, YearOf[first])

MayRequestDuty(e, first, last) ==
  /\ first <= last
  /\ Overlapping(e, first, last, "leave") = {}
  /\ Overlapping(e, first, last, "duty") = {}

Pending(n, kind) == n \in Taken /\ uses[n].kind = kind /\ uses[n].status = "pending"

\* Mutant: an approval does not look at the balance again.
MayDecideLeaveUncovered(n, status) == Pending(n, "leave")

\* An approval needs the balance without the request itself.
MayDecideLeave(n, status) ==
  /\ Pending(n, "leave")
  /\ status = "approved" =>
       uses[n].days <= Available(allocations, [uses EXCEPT ![n] = NoUse], uses[n].employee,
                                 YearOf[uses[n].first])

MayDecideDuty(n, status) == Pending(n, "duty")

MayCancelLeave(n) == n \in Taken /\ uses[n].kind = "leave" /\ Open(n)

MayCancelDuty(n) == n \in Taken /\ uses[n].kind = "duty" /\ Open(n)

\* When MaxOverlaps is reached calls run one at a time.
Free(c) ==
  /\ calls[c] = NoCall
  /\ overlaps < MaxOverlaps \/ \A other \in Calls : calls[other] = NoCall

Begin(c, call) ==
  /\ calls' = [calls EXCEPT ![c] = call]
  /\ overtaken' = overtaken \ {c}
  /\ UNCHANGED <<setup, allocations, uses, setups, cut, overlaps>>

NewUse(kind, e, first, last, part, days) ==
  [kind |-> kind, employee |-> e, first |-> first, last |-> last, part |-> part,
   days |-> days, status |-> "pending"]

RequestLeave(c, e, first, last, part) ==
  /\ MayRequestLeave(e, first, last, part)
  /\ Begin(c, [op |-> "request",
               row |-> NewUse("leave", e, first, last, part, RequestedDays(first, last, part))])

RequestDuty(c, e, first, last) ==
  /\ MayRequestDuty(e, first, last)
  /\ Begin(c, [op |-> "request", row |-> NewUse("duty", e, first, last, "full", 0)])

Asks(c, n, status) == Begin(c, [op |-> "decide", use |-> n, status |-> status])

\* Nobody decides their own request.
DecideLeave(c, user, n, status) ==
  /\ MayDecideLeave(n, status)
  /\ Self[user] # uses[n].employee
  /\ Asks(c, n, status)

DecideDuty(c, user, n, status) ==
  /\ MayDecideDuty(n, status)
  /\ Self[user] # uses[n].employee
  /\ Asks(c, n, status)

\* The employee cancels, or a manager does.
CancelLeave(c, n) == MayCancelLeave(n) /\ Asks(c, n, "cancelled")

CancelDuty(c, n) == MayCancelDuty(n) /\ Asks(c, n, "cancelled")

Allocates(c, e, y, row) ==
  Begin(c, [op |-> "allocate", year |-> y, seen |-> allocations,
            plan |-> [allocations EXCEPT ![e][y] = row]])

AllocateLeave(c, e, y, amounts) ==
  Allocates(c, e, y, Allocated(allocations[e][y], amounts.opening + amounts.earned, amounts))

AllocateBreakdown(c, e, y, amounts) ==
  Allocates(c, e, y, BrokenDown(allocations[e][y], amounts))

AllocateAnnually(c, y) ==
  /\ policy.active
  /\ Begin(c, [op |-> "annual", year |-> y, seen |-> allocations, plan |-> AnnualPlan(y)])

\* The call is c's, and it is ready to write.
Ready(c, ops) ==
  /\ calls[c] # NoCall
  /\ calls[c].op \in ops
  /\ c \in overtaken => overlaps < MaxOverlaps

\* The call ends; everybody else who is running has been overtaken by it.
Committed(c) ==
  /\ calls' = [calls EXCEPT ![c] = NoCall]
  /\ overtaken' = {other \in Calls \ {c} : calls[other] # NoCall}
  /\ overlaps' = IF c \in overtaken THEN overlaps + 1 ELSE overlaps

WriteRequest(c) ==
  /\ Ready(c, {"request"})
  /\ \E n \in Slots \ Taken :
       /\ n = Cardinality(Taken) + 1
       /\ uses' = [uses EXCEPT ![n] = calls[c].row]
  /\ Committed(c)
  /\ UNCHANGED <<setup, allocations, setups, cut>>

WriteDecision(c) ==
  /\ Ready(c, {"decide"})
  /\ uses' = [uses EXCEPT ![calls[c].use].status = calls[c].status]
  /\ Committed(c)
  /\ UNCHANGED <<setup, allocations, setups, cut>>

\* Columns that the call does not change keep what they hold by now.
Written(now, seen, new) ==
  IF new = seen THEN now
  ELSE IF seen = NoAllocation THEN new
  ELSE [f \in DOMAIN new |-> IF new[f] = seen[f] THEN now[f] ELSE new[f]]

\* A row, or its details, that another call has inserted in the meantime makes
\* the insertion fail.
InsertsTwice(now, seen, new) ==
  /\ new # seen
  /\ \/ seen = NoAllocation /\ now # NoAllocation
     \/ seen # NoAllocation /\ ~seen.detail /\ new.detail /\ now.detail

\* The employees whose leave of some status exceeds their entitlement.
Short(table, y, statuses) ==
  {e \in Employees : /\ table[e][y] # NoAllocation
                     /\ Entitled(table[e][y]) < UsedDays(uses, e, y, statuses)}

Counted(of) == IF of = "approved" THEN {"approved"} ELSE {"pending", "approved"}

WriteAllocations(c) ==
  LET q == calls[c]
      table == [e \in Employees |-> [y \in Years |->
                  Written(allocations[e][y], q.seen[e][y], q.plan[e][y])]]
  IN
  /\ Ready(c, {"allocate", "annual"})
  /\ SetUp
  /\ \A e \in Employees, y \in Years :
       ~InsertsTwice(allocations[e][y], q.seen[e][y], q.plan[e][y])
  /\ allocations' = table
  /\ cut' = [of \in DOMAIN cut |->
       {p \in cut[of] : p[2] # q.year} \cup Short(table, q.year, Counted(of)) \X {q.year}]
  /\ Committed(c)
  /\ UNCHANGED <<setup, uses>>

\* The call fails: a constraint, a blank reason, a lost connection.
Abandon(c) ==
  /\ calls[c] # NoCall
  /\ calls' = [calls EXCEPT ![c] = NoCall]
  /\ overtaken' = overtaken \ {c}
  /\ UNCHANGED <<setup, allocations, uses, setups, cut, overlaps>>

-----------------------------------------------------------------------------
Init ==
  /\ weekends = {5}
  /\ holidays = Announced
  /\ policy = Agreed
  /\ allocations \in Standing
  /\ uses = [n \in Slots |-> NoUse]
  /\ calls = [c \in Calls |-> NoCall]
  /\ setups = 0
  /\ cut = [of \in {"requested", "approved"} |->
       {p \in Employees \X Years : p[1] \in Short(allocations, p[2], Counted(of))}]
  /\ overtaken = {}
  /\ overlaps = 0

Administrate ==
  \/ \E chosen \in WeekendChoices : SetWeekends(chosen)
  \/ \E d \in HolidayDates, holiday \in HolidayChoices :
       \/ CreateHoliday(d, holiday)
       \/ \E row \in holidays[d] : UpdateHoliday(d, row, holiday)
  \/ \E chosen \in RuleChoices : UpdatePolicyRule(chosen)
  \/ \E e \in Employees, y \in Years : ReadBalances(e, y)

Request(c) ==
  \/ \E e \in Employees, period \in Periods, part \in {"full", "half"} :
       \/ RequestLeave(c, e, period[1], period[2], part)
       \/ part = "full" /\ RequestDuty(c, e, period[1], period[2])
  \/ \E n \in Slots :
       \/ \E user \in Users, status \in {"approved", "rejected"} :
            DecideLeave(c, user, n, status) \/ DecideDuty(c, user, n, status)
       \/ CancelLeave(c, n)
       \/ CancelDuty(c, n)
  \/ /\ setups < MaxSetups
     /\ \E y \in Years :
          \/ \E e \in Employees, amounts \in AmountChoices :
               AllocateLeave(c, e, y, amounts) \/ AllocateBreakdown(c, e, y, amounts)
          \/ AllocateAnnually(c, y)

Operate ==
  \E c \in Calls :
    \/ Free(c) /\ Request(c)
    \/ WriteRequest(c)
    \/ WriteDecision(c)
    \/ WriteAllocations(c)
    \/ Abandon(c)

Next == Administrate \/ Operate

Spec == Init /\ [][Next]_vars

-----------------------------------------------------------------------------
(***************************************************************************)
(* Properties.                                                             *)
(***************************************************************************)

\* No write so far was based on rows that another call had changed.
Serial == overlaps = 0

\* request_leave never lets pending and approved leave together exceed the
\* entitlement of a year: a balance is negative only where an administrator's
\* allocation has left it so.
NeverOverdrawn ==
  Serial => \A y \in Years :
    \A e \in Short(allocations, y, {"pending", "approved"}) : <<e, y>> \in cut["requested"]

\* The check of the balance at approval time: although an allocation may be
\* lowered while leave waits, approved leave exceeds the entitlement only where
\* the lowering found it approved.
ApprovalsCovered ==
  Serial => \A y \in Years :
    \A e \in Short(allocations, y, {"approved"}) : <<e, y>> \in cut["approved"]

\* Leave and field duty of one employee do not share a date, so the workday
\* services find one answer; each write of a call that others have overtaken
\* breaks this by one at most.
OneUsePerDay ==
  \A e \in Employees, d \in Days :
    Cardinality({n \in Covering(e, d) : Open(n)}) <= 1 + overlaps

\* Applying the annual allocation gives every eligible employee the entitlement
\* of the policy with what the year before left, keeps the adjustment, and
\* leaves nothing to do for applying it again.
AnnualIdempotent ==
  [][\A c \in Calls \ overtaken :
       (WriteAllocations(c) /\ calls[c].op = "annual") =>
         \A e \in Employees, y \in {calls[c].year} :
           Eligible(e, y) =>
             /\ Entitled(allocations'[e][y]) = Entitlement + Carry(e, y) + Adjustment(e, y)
             /\ PlanAction(e, y)' = "no_change"]_vars

\* The leave service, the attendance engine and the reports answer alike for a
\* working day without half-day leave, and for a day without leave or duty.
DecisionsAgree ==
  \A e \in Employees, d \in Days :
    LET one == WorkdayDecision(e, d)
        used == Approved(e, d, "leave") \cup Approved(e, d, "duty")
        working == CalendarDecision(d) = "workday"
    IN
    /\ working /\ (\A n \in used : uses[n].part = "full") =>
         IF one = "workday"
         THEN EngineStatuses(e, d) = {"absent"} /\ ReportStatuses(e, d) = {"uncalculated"}
         ELSE EngineStatuses(e, d) = {one} /\ ReportStatuses(e, d) = {one}
    /\ ~working /\ used = {} =>
         /\ EngineStatuses(e, d) = ReportStatuses(e, d)
         /\ EngineStatuses(e, d) \subseteq {"holiday", "weekly_off"}

\* The plan of the annual allocation tells whether applying it makes no change.
PlanTells ==
  \A e \in Employees, y \in Years :
    PlanAction(e, y) = "no_change" => Target(e, y) = Detailed(allocations[e][y])
=============================================================================

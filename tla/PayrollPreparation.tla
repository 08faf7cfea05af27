-------------------------- MODULE PayrollPreparation --------------------------
(***************************************************************************)
(* What payroll of one organization rests on, and how its runs come from   *)
(* it: fiscal years and their periods, compensation, tax policies, the     *)
(* review of an employee's attendance of a period, and the calculation of  *)
(* a pay line.  What becomes of a run is PayrollRun, how attendance is     *)
(* calculated is AttendanceDay.                                            *)
(*                                                                         *)
(* A call of the API is one READ COMMITTED transaction that reads, checks  *)
(* in Python and writes at the end: a Begin and a Write.  A call that only *)
(* inserts a row, next to rows that never change, is one step.             *)
(*                                                                         *)
(* Money is counted in its smallest unit, rates of slabs in millionths,    *)
(* which is what their column keeps, and percentages of items are whole.   *)
(***************************************************************************)
EXTENDS Integers, Sequences, FiniteSetsExt

CONSTANTS
  Users,          \* people with the permissions of payroll
  Employees,      \* employees of the organization
  Calls,          \* API calls that can be running at the same time
  Days,           \* dates, consecutive numbers
  Versions,       \* versions of the attendance calculation
  Minutes,        \* minutes of holiday overtime on a day
  YearSpans,      \* bound: first and last dates of fiscal years
  PeriodSpans,    \* bound: first and last dates of payroll periods
  WorkDays,       \* bound: dates that attendance is calculated for
  NewItems,       \* bound: earning heads and deduction types that are entered
  NewProfiles,    \* bound: compensation profiles that are entered
  NewValues,      \* bound: values of compensation components
  NewRules,       \* bound: holiday overtime rules that are entered
  NewPolicies,    \* bound: tax policies that are entered
  First,          \* the tables to begin with
  MaxIncome,      \* bound: taxable income of a period, where taxes are compared
  MaxWrites,      \* bound: changes that are committed
  MaxOverlaps,    \* bound: writes of calls that others have overtaken
  NoUser, NoEmployee, NoRecord, NoReview, NoLine, NoCall

AnnualPeriods == 12
NoYear == 0

\* fiscal_years; opener is activated_by.
Year ==
  [first : Days, last : Days, status : {"upcoming", "active", "closed", "locked"},
   maker : Users, opener : Users \cup {NoUser}]

\* payroll_periods, with the fiscal year of payroll_period_contexts
Period ==
  [first : Days, last : Days, version : Versions, status : {"open", "locked", "closed"},
   maker : Users, year : Nat]

\* earning_heads and deduction_types.  tax says that an earning is taxable or
\* that a deduction is taken before the tax; a cap below 0 is none.
Item == [kind : {"earning", "deduction"}, percentage : BOOLEAN, tax : BOOLEAN, cap : Int]

\* employee_compensation_profiles; standard is standard_monthly_minutes.
Profile ==
  [employee : Employees, first : Days, last : Days, base : Nat, category : STRING,
   overtime : BOOLEAN, standard : Nat \ {0}]

\* employee_compensation_components
Component == [profile : Nat, item : Nat, value : Nat]

\* holiday_overtime_rules, of one employee or of the organization
Rule == [employee : Employees \cup {NoEmployee}, multiplier : Nat, first : Days, last : Days]

\* The whole of an income: rate is a Numeric(8, 6) of at most 1.
FullRate == 1000000

\* tax_slabs; an upper bound below 0 is open.
Slab == [lower : Nat, upper : Int, rate : 0 .. FullRate]

\* What is entered as a tax policy, and a row of tax_slab_sets with its slabs;
\* at is confirmed_at.
Entry == [year : Nat, category : STRING, deduction : Nat, slabs : Seq(Slab)]
Policy ==
  [year : Nat, category : STRING, deduction : Nat, slabs : Seq(Slab), maker : Users,
   status : {"draft", "confirmed"}, confirmer : Users \cup {NoUser}, at : Nat]

\* attendance_records with their details
Record == [version : Versions, holiday : Minutes]
Snapshot == SUBSET (Days \X Record)

\* payroll_attendance_reviews
Review ==
  [period : Nat, employee : Employees, status : {"pending", "approved", "rejected"},
   snapshot : Snapshot, reviewer : Users \cup {NoUser}]

\* payroll_lines; profile and policy stand for their snapshots.
Line ==
  [attendance : Snapshot, profile : Nat, policy : Nat, gross : Nat, deductions : Nat, tax : Nat]

\* payroll_runs with their lines; a settled run is posted or reversed.
Run ==
  [period : Nat, lines : [Employees -> Line \cup {NoLine}], settled : BOOLEAN]

Call ==
  [op : {"year"}, row : Year]
    \cup [op : {"transition"}, year : Nat, status : {"active", "closed", "locked"}, user : Users]
    \cup [op : {"period"}, row : Period]
    \cup [op : {"lock", "close"}, period : Nat]
    \cup [op : {"profile"}, row : Profile]
    \cup [op : {"confirm"}, policy : Nat, user : Users, at : Nat]
    \cup [op : {"review"}, seen : Review \cup {NoReview}, new : Review]
    \cup [op : {"generate"}, row : Run]

Covers(row, d) == row.first <= d /\ d <= row.last
Overlapping(row, span) == row.first <= span[2] /\ span[1] <= row.last
NoneOverlaps(rows, span) == \A n \in DOMAIN rows : ~Overlapping(rows[n], span)

\* One year is active; closed books have nothing left to pay; no two years, and
\* no two periods, share a date.
Settled(fiscal, pay) ==
  /\ \A y, z \in DOMAIN fiscal :
       y # z => /\ ~Overlapping(fiscal[y], <<fiscal[z].first, fiscal[z].last>>)
                /\ fiscal[y].status = "active" => fiscal[z].status # "active"
  /\ \A p, q \in DOMAIN pay :
       p # q => ~Overlapping(pay[p], <<pay[q].first, pay[q].last>>)
  /\ \A p \in DOMAIN pay :
       pay[p].year # NoYear /\ fiscal[pay[p].year].status \in {"closed", "locked"} =>
         pay[p].status = "closed"

\* The slabs that create_tax_slab_set accepts are contiguous from 0, and the
\* last one is open.
ValidSlabs(slabs) ==
  LET last == Len(slabs)
  IN
  /\ last > 0 /\ slabs[1].lower = 0 /\ slabs[last].upper < 0
  /\ \A n \in 1 .. last - 1 :
       /\ slabs[n].upper > slabs[n].lower
       /\ slabs[n + 1].lower = slabs[n].upper

\* What one user has entered another one approves.
ByOther(user, maker) == user \notin {NoUser, maker}

ASSUME PreparationAssumption ==
  /\ Days \subseteq Int /\ Minutes \subseteq Nat
  /\ YearSpans \subseteq Days \X Days /\ PeriodSpans \subseteq Days \X Days
  /\ WorkDays \subseteq Days
  /\ NewItems \subseteq Item /\ NewProfiles \subseteq Profile
  /\ NewValues \subseteq Nat /\ NewRules \subseteq Rule /\ NewPolicies \subseteq Entry
  /\ MaxIncome \in Nat /\ MaxWrites \in Nat /\ MaxOverlaps \in Nat

ASSUME PreparationNoneAssumption ==
  /\ NoUser \notin Users /\ NoEmployee \notin Employees
  /\ NoRecord \notin Record /\ NoReview \notin Review
  /\ NoLine \notin Line /\ NoCall \notin Call

ASSUME FirstTypeAssumption ==
  /\ First.years \in Seq(Year) /\ First.periods \in Seq(Period)
  /\ First.items \in Seq(Item) /\ First.profiles \in Seq(Profile)
  /\ First.rules \in Seq(Rule) /\ First.policies \in Seq(Policy)
  /\ First.attendance \in [Employees -> [Days -> Record \cup {NoRecord}]]

ASSUME FirstAssumption ==
  /\ Settled(First.years, First.periods)
  /\ \A p \in DOMAIN First.periods :
       First.periods[p].year \in DOMAIN First.years \cup {NoYear}
  /\ \A y \in DOMAIN First.years :
       First.years[y].status # "upcoming" => ByOther(First.years[y].opener, First.years[y].maker)
  /\ \A n \in DOMAIN First.policies :
       /\ ValidSlabs(First.policies[n].slabs)
       /\ First.policies[n].status = "confirmed" =>
            ByOther(First.policies[n].confirmer, First.policies[n].maker)

VARIABLES
  years,          \* fiscal_years
  periods,        \* payroll_periods
  items,          \* earning_heads and deduction_types
  profiles,       \* employee_compensation_profiles
  components,     \* employee_compensation_components
  rules,          \* holiday_overtime_rules
  policies,       \* tax_slab_sets
  attendance,     \* attendance_records of the employees
  reviews,        \* payroll_attendance_reviews
  runs,           \* payroll_runs
  calls,          \* the running calls
  writes,         \* how many changes have been committed
  overtaken,      \* history: calls that run since before the last commit of another
  overlaps        \* history: how many calls have written after they were overtaken

catalog == <<items, profiles, components, rules>>
tables == <<years, periods, catalog, policies, attendance, reviews, runs>>
vars == <<tables, calls, writes, overtaken, overlaps>>

TypeOK ==
  /\ years \in Seq(Year) /\ periods \in Seq(Period)
  /\ items \in Seq(Item) /\ profiles \in Seq(Profile)
  /\ components \in Seq(Component) /\ rules \in Seq(Rule)
  /\ policies \in Seq(Policy)
  /\ attendance \in [Employees -> [Days -> Record \cup {NoRecord}]]
  /\ reviews \in Seq(Review) /\ runs \in Seq(Run)
  /\ calls \in [Calls -> Call \cup {NoCall}]
  /\ writes \in 0 .. MaxWrites /\ overlaps \in 0 .. MaxOverlaps
  /\ overtaken \subseteq Calls

Init ==
  /\ years = First.years /\ periods = First.periods
  /\ items = First.items /\ profiles = First.profiles
  /\ components = <<>> /\ rules = First.rules
  /\ policies = First.policies
  /\ attendance = First.attendance
  /\ reviews = <<>> /\ runs = <<>>
  /\ calls = [c \in Calls |-> NoCall]
  /\ writes = 0 /\ overtaken = {} /\ overlaps = 0

-----------------------------------------------------------------------------
(***************************************************************************)
(* Amounts.                                                                *)
(***************************************************************************)

\* A quotient of numbers that are not negative, rounded half up.
Rounded(a, b) == (2 * a + b) \div (2 * b)

NotBelowZero(x) == IF x < 0 THEN 0 ELSE x
Smaller(x, y) == IF x < y THEN x ELSE y

TopOf(slab, taxable) == IF slab.upper < 0 THEN taxable ELSE Smaller(taxable, slab.upper)

\* Mutant: the rate of the slab that an income reaches is applied to all of it.
ProgressiveTaxWhole(policy, income) ==
  LET taxable == NotBelowZero(income - policy.deduction)
      reached == {n \in DOMAIN policy.slabs : taxable > policy.slabs[n].lower}
  IN  IF reached = {} THEN 0 ELSE Rounded(taxable * policy.slabs[Max(reached)].rate, FullRate)

\* progressive_tax: the total grows slab by slab.
ProgressiveTax(policy, income) ==
  LET taxable == NotBelowZero(income - policy.deduction)
      width(slab) == NotBelowZero(TopOf(slab, taxable) - slab.lower)
      total[n \in 0 .. Len(policy.slabs)] ==
        IF n = 0 THEN 0 ELSE total[n - 1] + width(policy.slabs[n]) * policy.slabs[n].rate
  IN  Rounded(total[Len(policy.slabs)], FullRate)

PeriodTax(policy, income) ==
  Rounded(ProgressiveTax(policy, income * AnnualPeriods), AnnualPeriods)

\* _component_amount
Amount(base, component) ==
  LET item == items[component.item]
      amount == IF item.percentage THEN Rounded(base * component.value, 100) ELSE component.value
  IN  IF item.cap < 0 THEN amount ELSE Smaller(amount, item.cap)

-----------------------------------------------------------------------------
(***************************************************************************)
(* What holds on a date, and the pay of an employee.                       *)
(***************************************************************************)

LatestOf(rows, found) == {n \in found : \A m \in found : rows[m].first <= rows[n].first}

\* _compensation: what ORDER BY starts_on DESC LIMIT 1 may find.
ProfilesOn(e, d) ==
  LatestOf(profiles, {n \in DOMAIN profiles : profiles[n].employee = e /\ Covers(profiles[n], d)})

\* _holiday_ot_rule: a rule of the employee before one of the organization.
RulesOn(e, d) ==
  LET current(owner) == {n \in DOMAIN rules : rules[n].employee = owner /\ Covers(rules[n], d)}
  IN  LatestOf(rules, IF current(e) # {} THEN current(e) ELSE current(NoEmployee))

\* _confirmed_tax_set: the one that was confirmed last.
PoliciesFor(year, category) ==
  LET found == {n \in DOMAIN policies :
                  /\ policies[n].year = year /\ policies[n].category = category
                  /\ policies[n].status = "confirmed"}
  IN  {n \in found : \A m \in found : policies[m].at <= policies[n].at}

ReviewsOf(p, e) == {n \in DOMAIN reviews : reviews[n].period = p /\ reviews[n].employee = e}

HolidayMinutes(snapshot) == MapThenSumSet(LAMBDA day : day[2].holiday, snapshot)

\* The components of a profile that are earnings, or deductions.
Parts(profile, kind, taxed) ==
  {n \in DOMAIN components :
     /\ components[n].profile = profile
     /\ items[components[n].item].kind = kind
     /\ items[components[n].item].tax \in taxed}

Total(base, parts) == MapThenSumSet(LAMBDA n : Amount(base, components[n]), parts)

HolidayPay(snapshot, profile, found) ==
  IF profiles[profile].overtime /\ found # {}
  THEN Rounded(profiles[profile].base * HolidayMinutes(snapshot)
                 * rules[CHOOSE n \in found : TRUE].multiplier,
               profiles[profile].standard)
  ELSE 0

Gross(snapshot, profile, found) ==
  LET base == profiles[profile].base
  IN  base + Total(base, Parts(profile, "earning", BOOLEAN)) + HolidayPay(snapshot, profile, found)

Deductions(profile) == Total(profiles[profile].base, Parts(profile, "deduction", BOOLEAN))

Taxable(snapshot, profile, found) ==
  LET base == profiles[profile].base
  IN  NotBelowZero(base + Total(base, Parts(profile, "earning", {TRUE}))
                     + HolidayPay(snapshot, profile, found)
                     - Total(base, Parts(profile, "deduction", {TRUE})))

\* The line that the chosen rows make; nothing when deductions and tax exceed
\* the gross pay.
LineFrom(snapshot, profile, policy, found) ==
  {line \in {[attendance |-> snapshot, profile |-> profile, policy |-> policy,
              gross |-> Gross(snapshot, profile, found), deductions |-> Deductions(profile),
              tax |-> PeriodTax(policies[policy], Taxable(snapshot, profile, found))]} :
     line.deductions + line.tax <= line.gross}

\* preview_employee: the lines it may make, none when something is missing.
LinesFor(p, e) ==
  LET approved == {n \in ReviewsOf(p, e) : reviews[n].status = "approved"}
      chosen == {triple \in approved \X ProfilesOn(e, periods[p].last) \X DOMAIN policies :
                   triple[3] \in PoliciesFor(periods[p].year, profiles[triple[2]].category)}
  IN  UNION {LineFrom(reviews[triple[1]].snapshot, triple[2], triple[3],
                      RulesOn(e, periods[p].last)) : triple \in chosen}

-----------------------------------------------------------------------------
(***************************************************************************)
(* Checks.                                                                 *)
(***************************************************************************)

MayCreateYear(span) == span[1] <= span[2] /\ NoneOverlaps(years, span)

\* Mutant: a locked period does not keep its year open.
MayTransitionOpenOnly(y, status, user) ==
  /\ y \in DOMAIN years
  /\ CASE status = "active" ->
            /\ years[y].status = "upcoming" /\ years[y].maker # user
            /\ \A other \in DOMAIN years : years[other].status # "active"
       [] status = "closed" ->
            /\ years[y].status = "active"
            /\ \A p \in DOMAIN periods : periods[p].year = y => periods[p].status # "open"
       [] status = "locked" -> years[y].status = "closed"

MayTransition(y, status, user) ==
  /\ y \in DOMAIN years
  /\ CASE status = "active" ->
            /\ years[y].status = "upcoming" /\ years[y].maker # user
            /\ \A other \in DOMAIN years : years[other].status # "active"
       [] status = "closed" ->
            /\ years[y].status = "active"
            /\ \A p \in DOMAIN periods : periods[p].year = y => periods[p].status = "closed"
       [] status = "locked" -> years[y].status = "closed"

\* A period that payroll's own route creates has no fiscal year.
MayCreatePeriod(span, y) ==
  /\ span[1] <= span[2] /\ NoneOverlaps(periods, span)
  /\ y # NoYear =>
       /\ years[y].status = "active"
       /\ years[y].first <= span[1] /\ span[2] <= years[y].last

MayLock(p, user) == periods[p].status = "open" /\ periods[p].maker # user

MayClose(p) ==
  /\ periods[p].status = "locked"
  /\ \A r \in DOMAIN runs : runs[r].period = p => runs[r].settled

MayCreateProfile(profile) ==
  /\ profile.first <= profile.last
  /\ \A n \in DOMAIN profiles :
       profiles[n].employee = profile.employee =>
         ~Overlapping(profiles[n], <<profile.first, profile.last>>)

MayConfirm(n, user) == policies[n].status = "draft" /\ policies[n].maker # user

RecordedIn(p, e) ==
  {d \in Days : Covers(periods[p], d) /\ attendance[e][d] # NoRecord}

\* Mutant: an approved review may be prepared again.
MayPrepareAgain(p, e) ==
  /\ RecordedIn(p, e) # {}
  /\ \A d \in RecordedIn(p, e) : attendance[e][d].version = periods[p].version

MayPrepare(p, e) ==
  /\ RecordedIn(p, e) # {}
  /\ \A d \in RecordedIn(p, e) : attendance[e][d].version = periods[p].version
  /\ \A n \in ReviewsOf(p, e) : reviews[n].status # "approved"

-----------------------------------------------------------------------------
(***************************************************************************)
(* Calls that check and then write.                                        *)
(***************************************************************************)

\* Calls run one at a time once MaxOverlaps is reached; no more calls run than
\* MaxWrites lets write.
Free(c) ==
  LET running == {other \in Calls : calls[other] # NoCall}
  IN
  /\ c \notin running
  /\ writes + Cardinality(running) < MaxWrites
  /\ overlaps < MaxOverlaps \/ running = {}

Begin(c, call) ==
  /\ calls' = [calls EXCEPT ![c] = call]
  /\ overtaken' = overtaken \ {c}
  /\ UNCHANGED <<tables, writes, overlaps>>

CreateFiscalYear(c, span, user) ==
  /\ MayCreateYear(span)
  /\ Begin(c, [op |-> "year",
               row |-> [first |-> span[1], last |-> span[2], status |-> "upcoming",
                        maker |-> user, opener |-> NoUser]])

TransitionFiscalYear(c, y, status, user) ==
  /\ MayTransition(y, status, user)
  /\ Begin(c, [op |-> "transition", year |-> y, status |-> status, user |-> user])

CreatePeriod(c, span, y, version, user) ==
  /\ MayCreatePeriod(span, y)
  /\ Begin(c, [op |-> "period",
               row |-> [first |-> span[1], last |-> span[2], version |-> version,
                        status |-> "open", maker |-> user, year |-> y]])

LockPeriod(c, p, user) ==
  /\ MayLock(p, user)
  /\ Begin(c, [op |-> "lock", period |-> p])

ClosePeriod(c, p) ==
  /\ MayClose(p)
  /\ Begin(c, [op |-> "close", period |-> p])

CreateCompensationProfile(c, profile) ==
  /\ MayCreateProfile(profile)
  /\ Begin(c, [op |-> "profile", row |-> profile])

ConfirmTaxSlabSet(c, n, user) ==
  /\ MayConfirm(n, user)
  /\ Begin(c, [op |-> "confirm", policy |-> n, user |-> user,
               at |-> 1 + Cardinality({m \in DOMAIN policies : policies[m].status = "confirmed"})])

PrepareAttendanceReview(c, p, e) ==
  /\ MayPrepare(p, e)
  /\ \E seen \in IF ReviewsOf(p, e) = {} THEN {NoReview} ELSE {reviews[n] : n \in ReviewsOf(p, e)} :
       Begin(c, [op |-> "review", seen |-> seen,
                 new |-> [period |-> p, employee |-> e, status |-> "pending", reviewer |-> NoUser,
                          snapshot |-> {<<d, attendance[e][d]>> : d \in RecordedIn(p, e)}]])

DecideAttendanceReview(c, n, status, user) ==
  /\ reviews[n].status = "pending"
  /\ Begin(c, [op |-> "review", seen |-> reviews[n],
               new |-> [reviews[n] EXCEPT !.status = status, !.reviewer = user]])

\* generate_run, which makes the lines of all its employees or fails.
GenerateRun(c, p, staff) ==
  /\ periods[p].status = "locked"
  /\ periods[p].year # NoYear
  /\ years[periods[p].year].status = "active"
  /\ \E lines \in [Employees -> {NoLine} \cup UNION {LinesFor(p, e) : e \in staff}] :
       /\ \A e \in Employees : lines[e] \in IF e \in staff THEN LinesFor(p, e) ELSE {NoLine}
       /\ Begin(c, [op |-> "generate", row |-> [period |-> p, lines |-> lines, settled |-> FALSE]])

\* The call is c's, and it is ready to write.
Ready(c, op) ==
  /\ calls[c] # NoCall
  /\ calls[c].op = op
  /\ writes < MaxWrites
  /\ c \in overtaken => overlaps < MaxOverlaps

\* The call ends; everybody else who is running has been overtaken by it.
Committed(c) ==
  /\ writes' = writes + 1
  /\ calls' = [calls EXCEPT ![c] = NoCall]
  /\ overtaken' = {other \in Calls \ {c} : calls[other] # NoCall}
  /\ overlaps' = IF c \in overtaken THEN overlaps + 1 ELSE overlaps

WriteYear(c) ==
  /\ Ready(c, "year")
  /\ years' = Append(years, calls[c].row)
  /\ Committed(c)
  /\ UNCHANGED <<periods, catalog, policies, attendance, reviews, runs>>

WriteTransition(c) ==
  LET q == calls[c]
  IN
  /\ Ready(c, "transition")
  /\ years' = [years EXCEPT ![q.year].status = q.status,
                            ![q.year].opener = IF q.status = "active" THEN q.user ELSE @]
  /\ Committed(c)
  /\ UNCHANGED <<periods, catalog, policies, attendance, reviews, runs>>

WritePeriod(c) ==
  /\ Ready(c, "period")
  /\ periods' = Append(periods, calls[c].row)
  /\ Committed(c)
  /\ UNCHANGED <<years, catalog, policies, attendance, reviews, runs>>

WriteLock(c) ==
  /\ Ready(c, "lock")
  /\ periods' = [periods EXCEPT ![calls[c].period].status = "locked"]
  /\ Committed(c)
  /\ UNCHANGED <<years, catalog, policies, attendance, reviews, runs>>

WriteClose(c) ==
  /\ Ready(c, "close")
  /\ periods' = [periods EXCEPT ![calls[c].period].status = "closed"]
  /\ Committed(c)
  /\ UNCHANGED <<years, catalog, policies, attendance, reviews, runs>>

WriteProfile(c) ==
  /\ Ready(c, "profile")
  /\ profiles' = Append(profiles, calls[c].row)
  /\ Committed(c)
  /\ UNCHANGED <<years, periods, items, components, rules, policies, attendance, reviews, runs>>

WriteConfirmation(c) ==
  LET q == calls[c]
  IN
  /\ Ready(c, "confirm")
  /\ policies' = [policies EXCEPT ![q.policy].status = "confirmed",
                                  ![q.policy].confirmer = q.user, ![q.policy].at = q.at]
  /\ Committed(c)
  /\ UNCHANGED <<years, periods, catalog, attendance, reviews, runs>>

\* A new row is refused when there is one by now; columns that the call does
\* not change keep what they hold by now.
WriteReview(c) ==
  LET q == calls[c]
      mine == ReviewsOf(q.new.period, q.new.employee)
      written(now) == [f \in DOMAIN now |-> IF q.new[f] = q.seen[f] THEN now[f] ELSE q.new[f]]
  IN
  /\ Ready(c, "review")
  /\ q.seen = NoReview => mine = {}
  /\ reviews' = IF q.seen = NoReview THEN Append(reviews, q.new)
                ELSE [n \in DOMAIN reviews |->
                        IF n \in mine THEN written(reviews[n]) ELSE reviews[n]]
  /\ Committed(c)
  /\ UNCHANGED <<years, periods, catalog, policies, attendance, runs>>

WriteRun(c) ==
  /\ Ready(c, "generate")
  /\ runs' = Append(runs, calls[c].row)
  /\ Committed(c)
  /\ UNCHANGED <<years, periods, catalog, policies, attendance, reviews>>

\* The call fails: a constraint, a blank field, a lost connection.
Abandon(c) ==
  /\ calls[c] # NoCall
  /\ calls' = [calls EXCEPT ![c] = NoCall]
  /\ overtaken' = overtaken \ {c}
  /\ UNCHANGED <<tables, writes, overlaps>>

-----------------------------------------------------------------------------
(***************************************************************************)
(* Changes of one step.                                                    *)
(***************************************************************************)

Changed ==
  /\ writes < MaxWrites
  /\ writes' = writes + 1
  /\ overtaken' = {c \in Calls : calls[c] # NoCall}
  /\ UNCHANGED <<calls, overlaps>>

\* create_earning_head, create_deduction_type
CreateItem(item) ==
  /\ items' = Append(items, item)
  /\ Changed
  /\ UNCHANGED <<years, periods, profiles, components, rules, policies, attendance, reviews, runs>>

AddComponent(profile, item, value) ==
  /\ components' = Append(components, [profile |-> profile, item |-> item, value |-> value])
  /\ Changed
  /\ UNCHANGED <<years, periods, items, profiles, rules, policies, attendance, reviews, runs>>

\* create_holiday_overtime_rule: rules may overlap.
CreateRule(rule) ==
  /\ rule.multiplier >= 1 /\ rule.first <= rule.last
  /\ rules' = Append(rules, rule)
  /\ Changed
  /\ UNCHANGED <<years, periods, items, profiles, components, policies, attendance, reviews, runs>>

CreateTaxSlabSet(entry, user) ==
  /\ entry.year \in DOMAIN years
  /\ ValidSlabs(entry.slabs)
  /\ policies' = Append(policies,
       [year |-> entry.year, category |-> entry.category, deduction |-> entry.deduction,
        slabs |-> entry.slabs, maker |-> user, status |-> "draft", confirmer |-> NoUser, at |-> 0])
  /\ Changed
  /\ UNCHANGED <<years, periods, catalog, attendance, reviews, runs>>

\* Attendance of a day is calculated, or calculated again.
Calculate(e, d, record) ==
  /\ attendance[e][d] # record
  /\ attendance' = [attendance EXCEPT ![e][d] = record]
  /\ Changed
  /\ UNCHANGED <<years, periods, catalog, policies, reviews, runs>>

\* A run is posted, or reversed.
Settle(r) ==
  /\ ~runs[r].settled
  /\ runs' = [runs EXCEPT ![r].settled = TRUE]
  /\ Changed
  /\ UNCHANGED <<years, periods, catalog, policies, attendance, reviews>>

-----------------------------------------------------------------------------
Prepare(c) ==
  \/ \E user \in Users :
       \/ \E span \in YearSpans : CreateFiscalYear(c, span, user)
       \/ \E y \in DOMAIN years, status \in {"active", "closed", "locked"} :
            TransitionFiscalYear(c, y, status, user)
       \/ \E span \in PeriodSpans, y \in DOMAIN years \cup {NoYear}, version \in Versions :
            CreatePeriod(c, span, y, version, user)
       \/ \E p \in DOMAIN periods : LockPeriod(c, p, user)
       \/ \E n \in DOMAIN policies : ConfirmTaxSlabSet(c, n, user)
       \/ \E n \in DOMAIN reviews, status \in {"approved", "rejected"} :
            DecideAttendanceReview(c, n, status, user)
  \/ \E profile \in NewProfiles : CreateCompensationProfile(c, profile)
  \/ \E p \in DOMAIN periods :
       \/ ClosePeriod(c, p)
       \/ \E e \in Employees : PrepareAttendanceReview(c, p, e)
       \/ \E staff \in SUBSET Employees \ {{}} : GenerateRun(c, p, staff)

Write(c) ==
  \/ WriteYear(c) \/ WriteTransition(c) \/ WritePeriod(c) \/ WriteLock(c) \/ WriteClose(c)
  \/ WriteProfile(c) \/ WriteConfirmation(c) \/ WriteReview(c) \/ WriteRun(c)
  \/ Abandon(c)

Configure ==
  \/ \E item \in NewItems : CreateItem(item)
  \/ \E profile \in DOMAIN profiles, item \in DOMAIN items, value \in NewValues :
       AddComponent(profile, item, value)
  \/ \E rule \in NewRules : CreateRule(rule)
  \/ \E entry \in NewPolicies, user \in Users : CreateTaxSlabSet(entry, user)
  \/ \E e \in Employees, d \in WorkDays, record \in Record : Calculate(e, d, record)
  \/ \E r \in DOMAIN runs : Settle(r)

Next ==
  \/ \E c \in Calls :
       \/ Free(c) /\ Prepare(c)
       \/ Write(c)
  \/ Configure

Spec == Init /\ [][Next]_vars

-----------------------------------------------------------------------------
(***************************************************************************)
(* Properties.                                                             *)
(***************************************************************************)

\* No write so far was based on rows that another call had changed.
Serial == overlaps = 0

\* At most one fiscal year is active, a year that is closed or locked has only
\* closed periods, and no two years, and no two periods, share a date: what a
\* date is paid by is never in doubt, and closed books have nothing left to
\* pay.  Only calls that run beside each other may break this.
YearsSettled == Serial => Settled(years, periods)

\* Nobody is paid for other attendance than what was approved: the review that
\* a line of a run was made from stays approved and says the same, unless a
\* call that another has overtaken writes over it; the attendance is of the
\* calculation that the period asks for, the profile is the employee's on the
\* last day of the period, and the tax policy is of the period's year.  The
\* policy and the year were put in force by somebody else than who entered
\* them; a review and a profile need no second person.
PayJustified ==
  \A r \in DOMAIN runs : \A e \in {x \in Employees : runs[r].lines[x] # NoLine} :
    LET line == runs[r].lines[e]
        period == periods[runs[r].period]
        profile == profiles[line.profile]
        policy == policies[line.policy]
    IN
    /\ Serial => \E n \in ReviewsOf(runs[r].period, e) :
                   reviews[n].status = "approved" /\ reviews[n].snapshot = line.attendance
    /\ \A day \in line.attendance : Covers(period, day[1]) /\ day[2].version = period.version
    /\ profile.employee = e /\ Covers(profile, period.last)
    /\ policy.year = period.year /\ policy.category = profile.category
    /\ ByOther(policy.confirmer, policy.maker)
    /\ ByOther(years[period.year].opener, years[period.year].maker)

\* Who earns more never takes home less, and never pays less tax, under any
\* policy that can be entered: also where slabs meet, and with both roundings
\* of the tax.
EarningMorePays ==
  \A n \in DOMAIN policies : \A income \in 0 .. MaxIncome - 1 :
    LET tax(x) == PeriodTax(policies[n], x)
    IN  tax(income) <= tax(income + 1) /\ tax(income + 1) <= tax(income) + 1
=============================================================================

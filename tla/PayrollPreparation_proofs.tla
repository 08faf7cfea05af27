----------------------- MODULE PayrollPreparation_proofs -----------------------
(***************************************************************************)
(* Proofs about PayrollPreparation for any number of users, employees,     *)
(* dates, concurrent calls and overlaps, and for any tables to begin with  *)
(* that meet the assumptions.                                              *)
(*                                                                         *)
(* What a call knows of columns that never change stays true whatever      *)
(* calls overlap (CallsKnow); what it has checked of others stays true     *)
(* until another call commits, which is when it becomes overtaken          *)
(* (CallsCurrent).                                                         *)
(*                                                                         *)
(* A tax grows slab by slab (TotalSteps), and one unit more of income      *)
(* falls into one slab (OneMore).  The amounts of a line are sums over     *)
(* sets; that they are numbers (TypeCorrect) needs that the sums exist     *)
(* (SumExists) and that a snapshot has finitely many days.                 *)
(***************************************************************************)
EXTENDS PayrollPreparation, FiniteSetTheorems, TLAPS

Running(c) == calls[c] # NoCall

\* Attendance of the period p, of the calculation that p asks for.
SnapshotSound(p, snapshot) ==
  \A day \in snapshot : Covers(periods[p], day[1]) /\ day[2].version = periods[p].version

\* What the line of an employee in a run of the period p rests on.
LineSound(p, e, line) ==
  /\ SnapshotSound(p, line.attendance)
  /\ line.profile \in DOMAIN profiles
  /\ profiles[line.profile].employee = e /\ Covers(profiles[line.profile], periods[p].last)
  /\ line.policy \in DOMAIN policies
  /\ policies[line.policy].year = periods[p].year
  /\ policies[line.policy].category = profiles[line.profile].category
  /\ ByOther(policies[line.policy].confirmer, policies[line.policy].maker)
  /\ periods[p].year \in DOMAIN years
  /\ ByOther(years[periods[p].year].opener, years[periods[p].year].maker)

Approved(p, e, snapshot) ==
  \E n \in ReviewsOf(p, e) : reviews[n].status = "approved" /\ reviews[n].snapshot = snapshot

LinesSound(run) ==
  \A e \in Employees : run.lines[e] # NoLine => LineSound(run.period, e, run.lines[e])
LinesApproved(run) ==
  \A e \in Employees : run.lines[e] # NoLine => Approved(run.period, e, run.lines[e].attendance)

RunShape(run) == run \in [period : {run.period}, lines : {run.lines}, settled : {run.settled}]

\* The types, but for amounts.
TablesShape ==
  /\ years \in Seq(Year) /\ periods \in Seq(Period)
  /\ profiles \in Seq(Profile) /\ policies \in Seq(Policy) /\ reviews \in Seq(Review)
  /\ attendance \in [Employees -> [Days -> Record \cup {NoRecord}]]
  /\ runs \in Seq({runs[r] : r \in DOMAIN runs})
  /\ \A r \in DOMAIN runs : RunShape(runs[r])

CallShape(q) ==
  /\ q.op = "year" => q.row \in Year
  /\ q.op = "transition" => q.status \in {"active", "closed", "locked"} /\ q.user \in Users
  /\ q.op = "period" => q.row \in Period
  /\ q.op = "profile" => q.row \in Profile
  /\ q.op = "confirm" => q.user \in Users /\ q.at \in Nat
  /\ q.op = "review" => q.seen \in Review \cup {NoReview} /\ q.new \in Review
  /\ q.op = "generate" => RunShape(q.row)

\* What a call has checked of columns that never change, and of approvals,
\* which may be given again but not taken back.
Knows(q) ==
  /\ q.op = "year" => q.row.status = "upcoming"
  /\ q.op = "transition" =>
       /\ q.year \in DOMAIN years
       /\ IF q.status = "active" THEN q.user # years[q.year].maker
          ELSE ByOther(years[q.year].opener, years[q.year].maker)
  /\ q.op = "period" => q.row.status = "open" /\ q.row.year \in DOMAIN years \cup {NoYear}
  /\ q.op \in {"lock", "close"} => q.period \in DOMAIN periods
  /\ q.op = "confirm" => q.policy \in DOMAIN policies /\ q.user # policies[q.policy].maker
  /\ q.op = "review" => q.new.period \in DOMAIN periods /\ SnapshotSound(q.new.period, q.new.snapshot)
  /\ q.op = "generate" => q.row.period \in DOMAIN periods /\ LinesSound(q.row)

CallsShape ==
  /\ calls = [c \in Calls |-> calls[c]]
  /\ overlaps \in Nat
  /\ \A c \in Calls : Running(c) => CallShape(calls[c])

CallsKnow == \A c \in Calls : Running(c) => Knows(calls[c])

\* What a call has checked of columns that others may change.
Holds(q) ==
  /\ q.op = "year" => NoneOverlaps(years, <<q.row.first, q.row.last>>)
  /\ q.op = "transition" => MayTransition(q.year, q.status, q.user)
  /\ q.op = "period" => MayCreatePeriod(<<q.row.first, q.row.last>>, q.row.year)
  /\ q.op = "lock" => periods[q.period].status = "open"
  /\ q.op = "review" => \A n \in ReviewsOf(q.new.period, q.new.employee) : reviews[n].status # "approved"
  /\ q.op = "generate" => LinesApproved(q.row)

\* It holds until the call writes, unless the call is overtaken.
CallsCurrent == \A c \in Calls \ overtaken : Running(c) => Holds(calls[c])

\* What no overlap of calls can break.
TablesSound ==
  /\ \A y \in DOMAIN years : years[y].status # "upcoming" => ByOther(years[y].opener, years[y].maker)
  /\ \A p \in DOMAIN periods : periods[p].year \in DOMAIN years \cup {NoYear}
  /\ \A n \in DOMAIN policies :
       /\ ValidSlabs(policies[n].slabs)
       /\ policies[n].status = "confirmed" => ByOther(policies[n].confirmer, policies[n].maker)

ReviewsSound ==
  /\ \A n \in DOMAIN reviews :
       reviews[n].period \in DOMAIN periods /\ SnapshotSound(reviews[n].period, reviews[n].snapshot)
  /\ \A m, n \in DOMAIN reviews :
       reviews[m].period = reviews[n].period /\ reviews[m].employee = reviews[n].employee => m = n

RunsSound == \A r \in DOMAIN runs : runs[r].period \in DOMAIN periods /\ LinesSound(runs[r])
RunsApproved == \A r \in DOMAIN runs : LinesApproved(runs[r])

PreparationInv ==
  /\ TablesShape /\ TablesSound /\ ReviewsSound /\ RunsSound
  /\ CallsShape /\ CallsKnow
  /\ Serial => CallsCurrent /\ Settled(years, periods) /\ RunsApproved

-----------------------------------------------------------------------------
(***************************************************************************)
(* Rows of the tables.                                                     *)
(***************************************************************************)

LEMMA RowTypes ==
  ASSUME TablesShape
  PROVE  /\ \A y \in DOMAIN years : y \in Nat \ {0} /\ years[y] \in Year
         /\ \A p \in DOMAIN periods : p \in Nat \ {0} /\ periods[p] \in Period
         /\ \A n \in DOMAIN profiles : n \in Nat /\ profiles[n] \in Profile
         /\ \A n \in DOMAIN policies : n \in Nat /\ policies[n] \in Policy
         /\ \A n \in DOMAIN reviews : n \in Nat /\ reviews[n] \in Review
<1>1. /\ years \in Seq(Year) /\ periods \in Seq(Period)
      /\ profiles \in Seq(Profile) /\ policies \in Seq(Policy) /\ reviews \in Seq(Review)
  BY DEF TablesShape
<1>2. \A y \in DOMAIN years : y \in Nat \ {0} /\ years[y] \in Year
  BY <1>1
<1>3. \A p \in DOMAIN periods : p \in Nat \ {0} /\ periods[p] \in Period
  BY <1>1
<1>4. \A n \in DOMAIN profiles : n \in Nat /\ profiles[n] \in Profile
  BY <1>1
<1>5. \A n \in DOMAIN policies : n \in Nat /\ policies[n] \in Policy
  BY <1>1
<1>6. \A n \in DOMAIN reviews : n \in Nat /\ reviews[n] \in Review
  BY <1>1
<1>7. QED
  BY <1>2, <1>3, <1>4, <1>5, <1>6

\* A row is added at the end.
LEMMA Appended ==
  ASSUME NEW S, NEW s \in Seq(S), NEW row
  PROVE  /\ DOMAIN Append(s, row) = DOMAIN s \cup {Len(s) + 1}
         /\ Len(s) + 1 \notin DOMAIN s
         /\ Append(s, row)[Len(s) + 1] = row
         /\ \A n \in DOMAIN s : Append(s, row)[n] = s[n]
OBVIOUS

LEMMA AppendedRun ==
  ASSUME NEW s, s \in Seq({s[n] : n \in DOMAIN s}), NEW row, NEW t, t = Append(s, row)
  PROVE  t \in Seq({t[n] : n \in DOMAIN t})
<1> DEFINE S == {t[n] : n \in DOMAIN t}
           old == {s[n] : n \in DOMAIN s}
<1>1. DOMAIN t = DOMAIN s \cup {Len(s) + 1} /\ t[Len(s) + 1] = row /\ \A n \in DOMAIN s : t[n] = s[n]
  BY Appended
<1>2. \A x \in old : x \in S
  BY <1>1
<1>3. \A x \in old \cup {row} : x \in S
  BY <1>1, <1>2
<1>4. s \in Seq(old \cup {row})
  OBVIOUS
<1>5. t \in Seq(old \cup {row})
  BY <1>4
<1> HIDE DEF S, old
<1>6. t \in Seq(S)
  BY <1>3, <1>5
<1>7. QED
  BY <1>6 DEF S

-----------------------------------------------------------------------------
(***************************************************************************)
(* The calls that begin.                                                   *)
(***************************************************************************)

\* A call begins, and what it relies on is so.
Begins(c) ==
  \E call : Begin(c, call) /\ CallShape(call) /\ Knows(call) /\ (Serial => Holds(call))

LEMMA SpanDays ==
  ASSUME NEW span \in YearSpans \cup PeriodSpans
  PROVE  span[1] \in Days /\ span[2] \in Days /\ span = <<span[1], span[2]>>
BY PreparationAssumption

LEMMA YearBegins ==
  ASSUME NEW c, NEW span \in YearSpans, NEW user \in Users, CreateFiscalYear(c, span, user)
  PROVE  Begins(c)
<1> DEFINE row == [first |-> span[1], last |-> span[2], status |-> "upcoming",
                   maker |-> user, opener |-> NoUser]
           call == [op |-> "year", row |-> row]
<1>1. row \in Year
  BY SpanDays DEF Year
<1>2. Knows(call) /\ CallShape(call)
  BY <1>1 DEF Knows, CallShape
<1>3. Holds(call)
  BY SpanDays DEF Holds, CreateFiscalYear, MayCreateYear
<1>4. QED
  BY <1>2, <1>3 DEF Begins, CreateFiscalYear

LEMMA TransitionBegins ==
  ASSUME TablesShape, TablesSound, NEW c, NEW y \in DOMAIN years,
         NEW status \in {"active", "closed", "locked"}, NEW user \in Users,
         TransitionFiscalYear(c, y, status, user)
  PROVE  Begins(c)
<1> DEFINE call == [op |-> "transition", year |-> y, status |-> status, user |-> user]
<1>1. CallShape(call)
  BY DEF CallShape
<1>2. IF status = "active" THEN user # years[y].maker
      ELSE ByOther(years[y].opener, years[y].maker)
  <2>1. CASE status = "active"
    BY <2>1 DEF TransitionFiscalYear, MayTransition
  <2>2. CASE status # "active"
    BY <2>2 DEF TransitionFiscalYear, MayTransition, TablesSound
  <2>3. QED
    BY <2>1, <2>2
<1>3. Knows(call) /\ Holds(call)
  BY <1>2 DEF Knows, Holds, TransitionFiscalYear
<1>4. QED
  BY <1>1, <1>3 DEF Begins, TransitionFiscalYear

LEMMA PeriodBegins ==
  ASSUME TablesShape, NEW c, NEW span \in PeriodSpans, NEW y \in DOMAIN years \cup {NoYear},
         NEW version \in Versions, NEW user \in Users, CreatePeriod(c, span, y, version, user)
  PROVE  Begins(c)
<1> DEFINE row == [first |-> span[1], last |-> span[2], version |-> version,
                   status |-> "open", maker |-> user, year |-> y]
           call == [op |-> "period", row |-> row]
<1>1. row \in Period
  BY SpanDays, RowTypes DEF Period, NoYear
<1>2. Knows(call) /\ CallShape(call)
  BY <1>1 DEF Knows, CallShape
<1>3. Holds(call)
  BY SpanDays DEF Holds, CreatePeriod
<1>4. QED
  BY <1>2, <1>3 DEF Begins, CreatePeriod

LEMMA LockBegins ==
  ASSUME NEW c, NEW p \in DOMAIN periods, NEW user,
         LockPeriod(c, p, user) \/ ClosePeriod(c, p)
  PROVE  Begins(c)
<1>1. CASE LockPeriod(c, p, user)
  <2> DEFINE call == [op |-> "lock", period |-> p]
  <2>1. CallShape(call) /\ Knows(call) /\ Holds(call)
    BY <1>1 DEF CallShape, Knows, Holds, LockPeriod, MayLock
  <2>2. QED
    BY <1>1, <2>1 DEF Begins, LockPeriod
<1>2. CASE ClosePeriod(c, p)
  <2> DEFINE call == [op |-> "close", period |-> p]
  <2>1. CallShape(call) /\ Knows(call) /\ Holds(call)
    BY DEF CallShape, Knows, Holds
  <2>2. QED
    BY <1>2, <2>1 DEF Begins, ClosePeriod
<1>3. QED
  BY <1>1, <1>2

LEMMA ProfileBegins ==
  ASSUME NEW c, NEW profile \in NewProfiles, CreateCompensationProfile(c, profile)
  PROVE  Begins(c)
<1> DEFINE call == [op |-> "profile", row |-> profile]
<1>1. CallShape(call) /\ Knows(call) /\ Holds(call)
  BY PreparationAssumption DEF CallShape, Knows, Holds
<1>2. QED
  BY <1>1 DEF Begins, CreateCompensationProfile

LEMMA ConfirmBegins ==
  ASSUME TablesShape, NEW c, NEW n \in DOMAIN policies, NEW user \in Users,
         ConfirmTaxSlabSet(c, n, user)
  PROVE  Begins(c)
<1> DEFINE confirmed == {m \in DOMAIN policies : policies[m].status = "confirmed"}
           call == [op |-> "confirm", policy |-> n, user |-> user, at |-> 1 + Cardinality(confirmed)]
<1>1. 1 + Cardinality(confirmed) \in Nat
  <2>1. Len(policies) \in Nat /\ DOMAIN policies = 1 .. Len(policies)
    BY DEF TablesShape
  <2>2. IsFiniteSet(DOMAIN policies)
    BY <2>1, FS_Interval
  <2>3. IsFiniteSet(confirmed)
    BY <2>2, FS_Subset
  <2>4. QED
    BY <2>3, FS_CardinalityType
<1> HIDE DEF confirmed
<1>2. CallShape(call) /\ Knows(call) /\ Holds(call)
  BY <1>1 DEF CallShape, Knows, Holds, ConfirmTaxSlabSet, MayConfirm
<1>3. QED
  BY <1>2 DEF Begins, ConfirmTaxSlabSet, confirmed

LEMMA PrepareBegins ==
  ASSUME TablesShape, NEW c, NEW p \in DOMAIN periods, NEW e \in Employees,
         PrepareAttendanceReview(c, p, e)
  PROVE  Begins(c)
<1> DEFINE snapshot == {<<d, attendance[e][d]>> : d \in RecordedIn(p, e)}
           new == [period |-> p, employee |-> e, status |-> "pending", reviewer |-> NoUser,
                   snapshot |-> snapshot]
<1>1. PICK seen \in {NoReview} \cup {reviews[n] : n \in ReviewsOf(p, e)} :
        Begin(c, [op |-> "review", seen |-> seen, new |-> new])
  BY DEF PrepareAttendanceReview
<1> DEFINE call == [op |-> "review", seen |-> seen, new |-> new]
<1>2. \A d \in RecordedIn(p, e) :
        /\ d \in Days /\ Covers(periods[p], d)
        /\ attendance[e][d] \in Record /\ attendance[e][d].version = periods[p].version
  BY DEF PrepareAttendanceReview, MayPrepare, RecordedIn, TablesShape
<1>3. snapshot \in Snapshot
  BY <1>2 DEF Snapshot
<1>4. SnapshotSound(p, snapshot)
  BY <1>2 DEF SnapshotSound
<1> HIDE DEF snapshot
<1>5. seen \in Review \cup {NoReview} /\ new \in Review
  BY <1>3, RowTypes DEF Review, ReviewsOf
<1>6. CallShape(call) /\ Knows(call)
  BY <1>4, <1>5 DEF CallShape, Knows
<1>7. Holds(call)
  BY DEF Holds, PrepareAttendanceReview, MayPrepare
<1>8. QED
  BY <1>1, <1>6, <1>7 DEF Begins

LEMMA DecideBegins ==
  ASSUME TablesShape, ReviewsSound, NEW c, NEW n \in DOMAIN reviews,
         NEW status \in {"approved", "rejected"}, NEW user \in Users,
         DecideAttendanceReview(c, n, status, user)
  PROVE  Begins(c)
<1> DEFINE new == [reviews[n] EXCEPT !.status = status, !.reviewer = user]
           call == [op |-> "review", seen |-> reviews[n], new |-> new]
<1>1. reviews[n] \in Review
  BY RowTypes
<1>2. /\ new \in Review /\ new.period = reviews[n].period /\ new.employee = reviews[n].employee
      /\ new.snapshot = reviews[n].snapshot
  BY <1>1 DEF Review
<1> HIDE DEF new
<1>3. CallShape(call) /\ Knows(call)
  BY <1>1, <1>2 DEF CallShape, Knows, ReviewsSound
<1>4. \A m \in ReviewsOf(new.period, new.employee) : m = n
  BY <1>2 DEF ReviewsOf, ReviewsSound
<1>5. Holds(call)
  BY <1>4 DEF Holds, DecideAttendanceReview
<1>6. QED
  BY <1>3, <1>5 DEF Begins, DecideAttendanceReview, new

\* What a line of preview_employee rests on.
LEMMA LinesForSound ==
  ASSUME TablesShape, TablesSound, ReviewsSound, NEW p \in DOMAIN periods, NEW e \in Employees,
         NEW line \in LinesFor(p, e),
         periods[p].year # NoYear, years[periods[p].year].status = "active"
  PROVE  LineSound(p, e, line) /\ Approved(p, e, line.attendance)
<1>1. PICK n \in ReviewsOf(p, e), profile \in ProfilesOn(e, periods[p].last), policy \in DOMAIN policies :
        /\ reviews[n].status = "approved"
        /\ policy \in PoliciesFor(periods[p].year, profiles[profile].category)
        /\ line \in LineFrom(reviews[n].snapshot, profile, policy, RulesOn(e, periods[p].last))
  BY DEF LinesFor
<1>2. /\ line.attendance = reviews[n].snapshot
      /\ line.profile = profile /\ line.policy = policy
  BY <1>1 DEF LineFrom
<1>3. n \in DOMAIN reviews /\ reviews[n].period = p
  BY DEF ReviewsOf
<1>4. SnapshotSound(p, line.attendance)
  BY <1>2, <1>3 DEF ReviewsSound
<1>5. /\ profile \in DOMAIN profiles /\ profiles[profile].employee = e
      /\ Covers(profiles[profile], periods[p].last)
  BY DEF ProfilesOn, LatestOf
<1>6. /\ policies[policy].year = periods[p].year
      /\ policies[policy].category = profiles[profile].category
      /\ policies[policy].status = "confirmed"
  BY <1>1 DEF PoliciesFor
<1>7. ByOther(policies[policy].confirmer, policies[policy].maker)
  BY <1>6 DEF TablesSound
<1>8. /\ periods[p].year \in DOMAIN years
      /\ ByOther(years[periods[p].year].opener, years[periods[p].year].maker)
  BY DEF TablesSound
<1>9. QED
  BY <1>1, <1>2, <1>4, <1>5, <1>6, <1>7, <1>8 DEF LineSound, Approved

LEMMA GenerateBegins ==
  ASSUME TablesShape, TablesSound, ReviewsSound, NEW c, NEW p \in DOMAIN periods,
         NEW staff \in SUBSET Employees \ {{}}, GenerateRun(c, p, staff)
  PROVE  Begins(c)
<1>1. PICK lines :
        /\ \A e \in Employees : lines[e] \in IF e \in staff THEN LinesFor(p, e) ELSE {NoLine}
        /\ Begin(c, [op |-> "generate", row |-> [period |-> p, lines |-> lines, settled |-> FALSE]])
  BY DEF GenerateRun
<1> DEFINE row == [period |-> p, lines |-> lines, settled |-> FALSE]
           call == [op |-> "generate", row |-> row]
<1>2. ASSUME NEW e \in Employees, lines[e] # NoLine
      PROVE  LineSound(p, e, lines[e]) /\ Approved(p, e, lines[e].attendance)
  <2>1. lines[e] \in LinesFor(p, e)
    BY <1>1, <1>2
  <2>2. QED
    BY <2>1, LinesForSound DEF GenerateRun
<1>3. row.period = p /\ row.lines = lines /\ RunShape(row)
  BY DEF RunShape
<1>4. LinesSound(row) /\ LinesApproved(row)
  BY <1>2, <1>3 DEF LinesSound, LinesApproved
<1> HIDE DEF row
<1>5. CallShape(call) /\ Knows(call) /\ Holds(call)
  BY <1>3, <1>4 DEF CallShape, Knows, Holds
<1>6. QED
  BY <1>1, <1>5 DEF Begins, row

LEMMA CallBegins ==
  ASSUME PreparationInv, NEW c \in Calls, Prepare(c)
  PROVE  Begins(c)
BY YearBegins, TransitionBegins, PeriodBegins, LockBegins, ProfileBegins, ConfirmBegins,
   PrepareBegins, DecideBegins, GenerateBegins DEF PreparationInv, Prepare

LEMMA BeginStep ==
  ASSUME PreparationInv, NEW c \in Calls, Begins(c)
  PROVE  PreparationInv'
<1>1. PICK call : Begin(c, call) /\ CallShape(call) /\ Knows(call) /\ (Serial => Holds(call))
  BY DEF Begins
<1>2. UNCHANGED <<years, periods, profiles, policies, reviews, runs, attendance, overlaps>>
  BY <1>1 DEF Begin, tables, catalog
<1>3. /\ calls' = [calls EXCEPT ![c] = call] /\ overtaken' = overtaken \ {c}
      /\ calls = [d \in Calls |-> calls[d]]
  BY <1>1 DEF Begin, PreparationInv, CallsShape
<1>4. TablesShape' /\ TablesSound' /\ ReviewsSound' /\ RunsSound'
  BY <1>2 DEF PreparationInv, TablesShape, TablesSound, ReviewsSound, RunsSound, LinesSound,
              LineSound, SnapshotSound
<1>5. Serial' = Serial /\ Settled(years, periods)' = Settled(years, periods)
      /\ RunsApproved' = RunsApproved
  BY <1>2 DEF Serial, RunsApproved, LinesApproved, Approved, ReviewsOf
<1>6. \A q : Knows(q)' = Knows(q)
  BY <1>2 DEF Knows, LinesSound, LineSound, SnapshotSound
<1>7. \A q : Holds(q)' = Holds(q)
  BY <1>2 DEF Holds, LinesApproved, Approved, ReviewsOf, MayTransition, MayCreatePeriod
<1>8. \A d \in Calls : calls'[d] = IF d = c THEN call ELSE calls[d]
  BY <1>3
<1>9. CallsShape' /\ CallsKnow'
  <2>1. calls' = [d \in Calls |-> calls'[d]] /\ overlaps' \in Nat
    BY <1>2, <1>3 DEF PreparationInv, CallsShape
  <2>2. \A d \in Calls : Running(d)' => CallShape(calls'[d]) /\ Knows(calls'[d])
    BY <1>1, <1>8 DEF PreparationInv, CallsShape, CallsKnow, Running
  <2>3. CallsShape'
    BY <2>1, <2>2 DEF CallsShape, CallShape
  <2>4. ASSUME NEW d \in Calls, Running(d)'
        PROVE  Knows(calls[d])'
    <3>1. PICK q : q = calls'[d] /\ Knows(q)
      BY <2>2, <2>4
    <3>2. Knows(q)'
      BY <1>6, <3>1
    <3>3. QED
      BY <3>1, <3>2 DEF Knows, LinesSound, LineSound, SnapshotSound
  <2>5. QED
    BY <2>3, <2>4 DEF CallsKnow
<1>10. ASSUME Serial
       PROVE  CallsCurrent'
  <2>1. \A d \in Calls \ overtaken' : Running(d)' => Holds(calls'[d])
    BY <1>1, <1>3, <1>8, <1>10 DEF PreparationInv, CallsCurrent, Running
  <2>2. QED
    BY <1>7, <2>1 DEF CallsCurrent
<1>11. QED
  BY <1>4, <1>5, <1>9, <1>10 DEF PreparationInv

-----------------------------------------------------------------------------
(***************************************************************************)
(* What no step takes back.                                                *)
(***************************************************************************)

RowsKept ==
  /\ \A y \in DOMAIN years :
       /\ y \in DOMAIN years' /\ years'[y].maker = years[y].maker
       /\ ByOther(years[y].opener, years[y].maker) => ByOther(years'[y].opener, years'[y].maker)
  /\ \A p \in DOMAIN periods :
       /\ p \in DOMAIN periods'
       /\ periods'[p].first = periods[p].first /\ periods'[p].last = periods[p].last
       /\ periods'[p].version = periods[p].version /\ periods'[p].year = periods[p].year
  /\ \A n \in DOMAIN profiles : n \in DOMAIN profiles' /\ profiles'[n] = profiles[n]
  /\ \A n \in DOMAIN policies :
       /\ n \in DOMAIN policies' /\ policies'[n].maker = policies[n].maker
       /\ policies'[n].year = policies[n].year /\ policies'[n].category = policies[n].category
       /\ ByOther(policies[n].confirmer, policies[n].maker) =>
            ByOther(policies'[n].confirmer, policies'[n].maker)

LEMMA SnapshotKept ==
  ASSUME RowsKept, NEW p \in DOMAIN periods, NEW snapshot, SnapshotSound(p, snapshot)
  PROVE  SnapshotSound(p, snapshot)'
BY DEF RowsKept, SnapshotSound, Covers

LEMMA LineKept ==
  ASSUME RowsKept, NEW p \in DOMAIN periods, NEW e, NEW line, LineSound(p, e, line)
  PROVE  LineSound(p, e, line)'
<1>1. SnapshotSound(p, line.attendance)'
  BY SnapshotKept DEF LineSound
<1>2. QED
  BY <1>1 DEF RowsKept, LineSound, Covers

LEMMA LinesKept ==
  ASSUME RowsKept, NEW run, run.period \in DOMAIN periods, LinesSound(run)
  PROVE  LinesSound(run)'
BY LineKept DEF LinesSound

LEMMA KnowsKept ==
  ASSUME RowsKept, NEW q, Knows(q)
  PROVE  Knows(q)'
<1>1. q.op = "review" =>
        q.new.period \in DOMAIN periods' /\ SnapshotSound(q.new.period, q.new.snapshot)'
  BY SnapshotKept DEF Knows, RowsKept
<1>2. q.op = "generate" => q.row.period \in DOMAIN periods' /\ LinesSound(q.row)'
  BY LinesKept DEF Knows, RowsKept
<1>3. q.op = "transition" =>
        /\ q.year \in DOMAIN years'
        /\ IF q.status = "active" THEN q.user # years'[q.year].maker
           ELSE ByOther(years'[q.year].opener, years'[q.year].maker)
  BY DEF Knows, RowsKept
<1>4. /\ q.op = "year" => q.row.status = "upcoming"
      /\ q.op = "period" => q.row.status = "open" /\ q.row.year \in DOMAIN years' \cup {NoYear}
      /\ q.op \in {"lock", "close"} => q.period \in DOMAIN periods'
      /\ q.op = "confirm" => q.policy \in DOMAIN policies' /\ q.user # policies'[q.policy].maker
  BY DEF Knows, RowsKept
<1>5. QED
  BY <1>1, <1>2, <1>3, <1>4 DEF Knows

\* What a change of the tables has to show: the rest of the invariant follows.
Changes ==
  /\ RowsKept
  /\ TablesShape' /\ TablesSound' /\ ReviewsSound' /\ RunsSound'
  /\ Serial' => Settled(years, periods)' /\ RunsApproved'

LEMMA ReviewsKept ==
  ASSUME ReviewsSound, RowsKept, UNCHANGED reviews
  PROVE  ReviewsSound'
<1>1. \A n \in DOMAIN reviews :
        reviews[n].period \in DOMAIN periods' /\ SnapshotSound(reviews[n].period, reviews[n].snapshot)'
  BY SnapshotKept DEF ReviewsSound, RowsKept
<1>2. QED
  BY <1>1 DEF ReviewsSound, SnapshotSound

LEMMA RunsKept ==
  ASSUME RunsSound, RowsKept, UNCHANGED runs
  PROVE  RunsSound'
<1>1. ASSUME NEW r \in DOMAIN runs
      PROVE  runs[r].period \in DOMAIN periods' /\ LinesSound(runs[r])'
  BY LineKept DEF RunsSound, RowsKept, LinesSound
<1>2. QED
  BY <1>1 DEF RunsSound

LEMMA ApprovedKept ==
  ASSUME RunsApproved, UNCHANGED <<runs, reviews>>
  PROVE  RunsApproved'
BY DEF RunsApproved, LinesApproved, Approved, ReviewsOf

\* The call that writes, and what it relies on.
LEMMA Writes ==
  ASSUME PreparationInv, NEW c \in Calls, NEW op, Ready(c, op), Committed(c)
  PROVE  /\ calls[c].op = op /\ CallShape(calls[c]) /\ Knows(calls[c])
         /\ Serial' => /\ Serial /\ Holds(calls[c])
                       /\ Settled(years, periods) /\ RunsApproved
<1>1. Running(c) /\ calls[c].op = op
  BY DEF Ready, Running
<1>2. CallShape(calls[c]) /\ Knows(calls[c])
  BY <1>1 DEF PreparationInv, CallsShape, CallsKnow
<1>3. Serial' => Serial /\ c \notin overtaken
  BY DEF PreparationInv, CallsShape, Serial, Committed
<1>4. QED
  BY <1>1, <1>2, <1>3 DEF PreparationInv, CallsCurrent

LEMMA WriteYearChanges ==
  ASSUME PreparationInv, NEW c \in Calls, WriteYear(c)
  PROVE  Changes
<1> DEFINE row == calls[c].row
           new == Len(years) + 1
<1>1. row \in Year /\ row.status = "upcoming"
  BY Writes DEF WriteYear, CallShape, Knows
<1>2. years \in Seq(Year) /\ years' = Append(years, row)
  BY DEF PreparationInv, TablesShape, WriteYear
<1>3. /\ DOMAIN years' = DOMAIN years \cup {new} /\ new \notin DOMAIN years
      /\ years'[new] = row /\ \A y \in DOMAIN years : years'[y] = years[y]
  BY <1>2, Appended
<1>4. UNCHANGED <<periods, profiles, policies, attendance, reviews, runs>>
  BY DEF WriteYear, catalog
<1>5. RowsKept
  BY <1>3, <1>4 DEF RowsKept
<1>6. TablesShape'
  BY <1>1, <1>2, <1>4 DEF PreparationInv, TablesShape
<1>7. TablesSound'
  BY <1>1, <1>3, <1>4 DEF PreparationInv, TablesSound
<1>8. ASSUME Serial'
      PROVE  Settled(years, periods)'
  <2>1. Settled(years, periods) /\ NoneOverlaps(years, <<row.first, row.last>>)
    BY <1>8, Writes DEF WriteYear, Holds
  <2>2. \A y \in DOMAIN years : years[y] \in Year
    BY RowTypes DEF PreparationInv
  <2>3. \A y \in DOMAIN years :
          /\ ~Overlapping(years[y], <<row.first, row.last>>)
          /\ ~Overlapping(row, <<years[y].first, years[y].last>>)
    BY <1>1, <2>1, <2>2, PreparationAssumption DEF NoneOverlaps, Overlapping, Year
  <2>4. \A y, z \in DOMAIN years' :
          y # z => /\ ~Overlapping(years'[y], <<years'[z].first, years'[z].last>>)
                   /\ years'[y].status = "active" => years'[z].status # "active"
    BY <1>1, <1>3, <2>1, <2>3 DEF Settled
  <2>5. \A p \in DOMAIN periods : periods[p].year # NoYear => years'[periods[p].year] = years[periods[p].year]
    BY <1>3 DEF PreparationInv, TablesSound
  <2>6. QED
    BY <1>4, <2>1, <2>4, <2>5 DEF Settled
<1>9. ReviewsSound' /\ RunsSound'
  BY <1>4, <1>5, ReviewsKept, RunsKept DEF PreparationInv
<1>10. Serial' => RunsApproved'
  BY <1>4, Writes, ApprovedKept DEF WriteYear
<1>11. QED
  BY <1>5, <1>6, <1>7, <1>8, <1>9, <1>10 DEF Changes

LEMMA WriteTransitionChanges ==
  ASSUME PreparationInv, NEW c \in Calls, WriteTransition(c)
  PROVE  Changes
<1> DEFINE q == calls[c]
           t == q.year
           row == [years[t] EXCEPT !.status = q.status,
                                   !.opener = IF q.status = "active" THEN q.user ELSE @]
<1>1. /\ q.op = "transition" /\ t \in DOMAIN years
      /\ q.status \in {"active", "closed", "locked"} /\ q.user \in Users
      /\ IF q.status = "active" THEN q.user # years[t].maker
         ELSE ByOther(years[t].opener, years[t].maker)
  BY Writes DEF WriteTransition, CallShape, Knows
<1>2. years[t] \in Year /\ years \in Seq(Year)
  BY <1>1, RowTypes DEF PreparationInv, TablesShape
<1>3. /\ row \in Year /\ row.status = q.status /\ ByOther(row.opener, row.maker)
      /\ row.maker = years[t].maker /\ row.first = years[t].first /\ row.last = years[t].last
  BY <1>1, <1>2, PreparationNoneAssumption DEF Year, ByOther
<1>4. years' = [years EXCEPT ![t] = row]
  BY DEF WriteTransition
<1> HIDE DEF row
<1>5. /\ DOMAIN years' = DOMAIN years
      /\ \A y \in DOMAIN years : years'[y] = IF y = t THEN row ELSE years[y]
  BY <1>2, <1>4
<1>6. UNCHANGED <<periods, profiles, policies, attendance, reviews, runs>>
  BY DEF WriteTransition, catalog
<1>7. RowsKept
  BY <1>3, <1>5, <1>6 DEF RowsKept
<1>8. TablesShape'
  BY <1>1, <1>2, <1>3, <1>4, <1>6 DEF PreparationInv, TablesShape
<1>9. TablesSound'
  BY <1>3, <1>5, <1>6 DEF PreparationInv, TablesSound
<1>10. ASSUME Serial'
       PROVE  Settled(years, periods)'
  <2>1. Settled(years, periods) /\ MayTransition(t, q.status, q.user)
    BY <1>1, <1>10, Writes DEF WriteTransition, Holds
  <2>2. \A y, z \in DOMAIN years :
          y # z => ~Overlapping(years'[y], <<years'[z].first, years'[z].last>>)
    BY <1>3, <1>5, <2>1 DEF Settled, Overlapping
  <2>3. \A y, z \in DOMAIN years :
          y # z => (years'[y].status = "active" => years'[z].status # "active")
    <3>1. CASE q.status = "active"
      BY <1>3, <1>5, <2>1, <3>1 DEF Settled, MayTransition
    <3>2. CASE q.status # "active"
      BY <1>3, <1>5, <2>1, <3>2 DEF Settled
    <3>3. QED
      BY <3>1, <3>2
  <2>4. ASSUME NEW p \in DOMAIN periods, periods[p].year # NoYear,
               years'[periods[p].year].status \in {"closed", "locked"}
        PROVE  periods[p].status = "closed"
    <3>1. periods[p].year \in DOMAIN years
      BY <2>4 DEF PreparationInv, TablesSound
    <3>2. CASE periods[p].year # t
      BY <1>5, <2>1, <2>4, <3>1, <3>2 DEF Settled
    <3>3. CASE periods[p].year = t /\ q.status = "closed"
      BY <2>1, <3>3 DEF MayTransition
    <3>4. CASE periods[p].year = t /\ q.status = "locked"
      BY <2>1, <2>4, <3>4 DEF MayTransition, Settled
    <3>5. QED
      BY <1>1, <1>3, <1>5, <2>4, <3>1, <3>2, <3>3, <3>4
  <2>5. QED
    BY <1>5, <1>6, <2>1, <2>2, <2>3, <2>4 DEF Settled
<1>11. ReviewsSound' /\ RunsSound'
  BY <1>6, <1>7, ReviewsKept, RunsKept DEF PreparationInv
<1>12. Serial' => RunsApproved'
  BY <1>6, Writes, ApprovedKept DEF WriteTransition
<1>13. QED
  BY <1>7, <1>8, <1>9, <1>10, <1>11, <1>12 DEF Changes

LEMMA WritePeriodChanges ==
  ASSUME PreparationInv, NEW c \in Calls, WritePeriod(c)
  PROVE  Changes
<1> DEFINE row == calls[c].row
           new == Len(periods) + 1
<1>1. row \in Period /\ row.status = "open" /\ row.year \in DOMAIN years \cup {NoYear}
  BY Writes DEF WritePeriod, CallShape, Knows
<1>2. periods \in Seq(Period) /\ periods' = Append(periods, row)
  BY DEF PreparationInv, TablesShape, WritePeriod
<1>3. /\ DOMAIN periods' = DOMAIN periods \cup {new} /\ new \notin DOMAIN periods
      /\ periods'[new] = row /\ \A p \in DOMAIN periods : periods'[p] = periods[p]
  BY <1>2, Appended
<1>4. UNCHANGED <<years, profiles, policies, attendance, reviews, runs>>
  BY DEF WritePeriod, catalog
<1>5. RowsKept
  BY <1>3, <1>4 DEF RowsKept
<1>6. TablesShape'
  BY <1>1, <1>2, <1>4 DEF PreparationInv, TablesShape
<1>7. TablesSound'
  BY <1>1, <1>3, <1>4 DEF PreparationInv, TablesSound
<1>8. ASSUME Serial'
      PROVE  Settled(years, periods)'
  <2>1. Settled(years, periods) /\ MayCreatePeriod(<<row.first, row.last>>, row.year)
    BY <1>8, Writes DEF WritePeriod, Holds
  <2>2. \A p \in DOMAIN periods : periods[p] \in Period
    BY RowTypes DEF PreparationInv
  <2>3. \A p \in DOMAIN periods :
          /\ ~Overlapping(periods[p], <<row.first, row.last>>)
          /\ ~Overlapping(row, <<periods[p].first, periods[p].last>>)
    BY <1>1, <2>1, <2>2, PreparationAssumption DEF MayCreatePeriod, NoneOverlaps, Overlapping, Period
  <2>4. \A p, q \in DOMAIN periods' :
          p # q => ~Overlapping(periods'[p], <<periods'[q].first, periods'[q].last>>)
    BY <1>3, <2>1, <2>3 DEF Settled
  <2>5. \A p \in DOMAIN periods' :
          periods'[p].year # NoYear /\ years[periods'[p].year].status \in {"closed", "locked"} =>
            periods'[p].status = "closed"
    BY <1>3, <2>1 DEF Settled, MayCreatePeriod
  <2>6. QED
    BY <1>4, <2>1, <2>4, <2>5 DEF Settled
<1>9. ReviewsSound' /\ RunsSound'
  BY <1>4, <1>5, ReviewsKept, RunsKept DEF PreparationInv
<1>10. Serial' => RunsApproved'
  BY <1>4, Writes, ApprovedKept DEF WritePeriod
<1>11. QED
  BY <1>5, <1>6, <1>7, <1>8, <1>9, <1>10 DEF Changes

LEMMA WriteLockChanges ==
  ASSUME PreparationInv, NEW c \in Calls, WriteLock(c) \/ WriteClose(c)
  PROVE  Changes
<1> DEFINE t == calls[c].period
<1>1. PICK status \in {"locked", "closed"} :
        /\ periods' = [periods EXCEPT ![t].status = status]
        /\ t \in DOMAIN periods
        /\ status = "locked" /\ Serial' => periods[t].status = "open"
        /\ Serial' => Settled(years, periods) /\ RunsApproved
  <2>1. CASE WriteLock(c)
    BY <2>1, Writes DEF WriteLock, Knows, Holds
  <2>2. CASE WriteClose(c)
    BY <2>2, Writes DEF WriteClose, Knows
  <2>3. QED
    BY <2>1, <2>2
<1>2. periods \in Seq(Period) /\ periods[t] \in Period
  BY <1>1, RowTypes DEF PreparationInv, TablesShape
<1> DEFINE row == [periods[t] EXCEPT !.status = status]
<1>3. /\ row \in Period /\ row.status = status /\ row.year = periods[t].year
      /\ row.first = periods[t].first /\ row.last = periods[t].last /\ row.version = periods[t].version
  BY <1>2 DEF Period
<1>4. periods' = [periods EXCEPT ![t] = row]
  BY <1>1
<1> HIDE DEF row
<1>5. /\ DOMAIN periods' = DOMAIN periods
      /\ \A p \in DOMAIN periods : periods'[p] = IF p = t THEN row ELSE periods[p]
  BY <1>4
<1>6. UNCHANGED <<years, profiles, policies, attendance, reviews, runs>>
  BY DEF WriteLock, WriteClose, catalog
<1>7. RowsKept
  BY <1>3, <1>5, <1>6 DEF RowsKept
<1>8. TablesShape'
  BY <1>1, <1>2, <1>3, <1>4, <1>6 DEF PreparationInv, TablesShape
<1>9. TablesSound'
  BY <1>3, <1>5, <1>6 DEF PreparationInv, TablesSound
<1>10. ASSUME Serial'
       PROVE  Settled(years, periods)'
  <2>1. \A p, q \in DOMAIN periods :
          p # q => ~Overlapping(periods'[p], <<periods'[q].first, periods'[q].last>>)
    BY <1>1, <1>3, <1>5, <1>10 DEF Settled, Overlapping
  <2>2. \A p \in DOMAIN periods :
          periods'[p].year # NoYear /\ years[periods'[p].year].status \in {"closed", "locked"} =>
            periods'[p].status = "closed"
    BY <1>1, <1>3, <1>5, <1>10 DEF Settled
  <2>3. QED
    BY <1>1, <1>5, <1>6, <1>10, <2>1, <2>2 DEF Settled
<1>11. ReviewsSound' /\ RunsSound'
  BY <1>6, <1>7, ReviewsKept, RunsKept DEF PreparationInv
<1>12. Serial' => RunsApproved'
  BY <1>1, <1>6, ApprovedKept
<1>13. QED
  BY <1>7, <1>8, <1>9, <1>10, <1>11, <1>12 DEF Changes

LEMMA WriteProfileChanges ==
  ASSUME PreparationInv, NEW c \in Calls, WriteProfile(c)
  PROVE  Changes
<1> DEFINE row == calls[c].row
<1>1. row \in Profile
  BY Writes DEF WriteProfile, CallShape
<1>2. profiles \in Seq(Profile) /\ profiles' = Append(profiles, row)
  BY DEF PreparationInv, TablesShape, WriteProfile
<1>3. UNCHANGED <<years, periods, policies, attendance, reviews, runs>>
  BY DEF WriteProfile
<1>4. RowsKept
  BY <1>2, <1>3, Appended DEF RowsKept
<1>5. TablesShape' /\ TablesSound'
  BY <1>1, <1>2, <1>3 DEF PreparationInv, TablesShape, TablesSound
<1>6. Serial' => Settled(years, periods)'
  BY <1>3, Writes DEF WriteProfile
<1>7. ReviewsSound' /\ RunsSound'
  BY <1>3, <1>4, ReviewsKept, RunsKept DEF PreparationInv
<1>8. Serial' => RunsApproved'
  BY <1>3, Writes, ApprovedKept DEF WriteProfile
<1>9. QED
  BY <1>4, <1>5, <1>6, <1>7, <1>8 DEF Changes

LEMMA WriteConfirmationChanges ==
  ASSUME PreparationInv, NEW c \in Calls, WriteConfirmation(c)
  PROVE  Changes
<1> DEFINE q == calls[c]
           t == q.policy
           row == [policies[t] EXCEPT !.status = "confirmed", !.confirmer = q.user, !.at = q.at]
<1>1. t \in DOMAIN policies /\ q.user \in Users /\ q.at \in Nat /\ q.user # policies[t].maker
  BY Writes DEF WriteConfirmation, CallShape, Knows
<1>2. policies[t] \in Policy /\ policies \in Seq(Policy)
  BY <1>1, RowTypes DEF PreparationInv, TablesShape
<1>3. /\ row \in Policy /\ row.maker = policies[t].maker /\ row.year = policies[t].year
      /\ row.category = policies[t].category /\ row.slabs = policies[t].slabs
      /\ ByOther(row.confirmer, row.maker)
  BY <1>1, <1>2, PreparationNoneAssumption DEF Policy, ByOther
<1>4. policies' = [policies EXCEPT ![t] = row]
  BY DEF WriteConfirmation
<1> HIDE DEF row
<1>5. /\ DOMAIN policies' = DOMAIN policies
      /\ \A n \in DOMAIN policies : policies'[n] = IF n = t THEN row ELSE policies[n]
  BY <1>4
<1>6. UNCHANGED <<years, periods, profiles, attendance, reviews, runs>>
  BY DEF WriteConfirmation, catalog
<1>7. RowsKept
  BY <1>3, <1>5, <1>6 DEF RowsKept
<1>8. TablesShape'
  BY <1>1, <1>2, <1>3, <1>4, <1>6 DEF PreparationInv, TablesShape
<1>9. TablesSound'
  BY <1>3, <1>5, <1>6 DEF PreparationInv, TablesSound
<1>10. Serial' => Settled(years, periods)'
  BY <1>6, Writes DEF WriteConfirmation
<1>11. ReviewsSound' /\ RunsSound'
  BY <1>6, <1>7, ReviewsKept, RunsKept DEF PreparationInv
<1>12. Serial' => RunsApproved'
  BY <1>6, Writes, ApprovedKept DEF WriteConfirmation
<1>13. QED
  BY <1>7, <1>8, <1>9, <1>10, <1>11, <1>12 DEF Changes

LEMMA WriteReviewChanges ==
  ASSUME PreparationInv, NEW c \in Calls, WriteReview(c)
  PROVE  Changes
<1> DEFINE q == calls[c]
           mine == ReviewsOf(q.new.period, q.new.employee)
           written(now) == [f \in DOMAIN now |-> IF q.new[f] = q.seen[f] THEN now[f] ELSE q.new[f]]
           next == Len(reviews) + 1
<1>1. /\ q.new \in Review /\ q.new.period \in DOMAIN periods
      /\ SnapshotSound(q.new.period, q.new.snapshot)
  BY Writes DEF WriteReview, CallShape, Knows
<1>2. reviews \in Seq(Review) /\ \A n \in DOMAIN reviews : reviews[n] \in Review
  BY RowTypes DEF PreparationInv, TablesShape
<1>3. UNCHANGED <<years, periods, profiles, policies, attendance, runs>>
  BY DEF WriteReview, catalog
<1>4. RowsKept
  BY <1>3 DEF RowsKept
<1>5. Serial' => RunsApproved /\ \A n \in mine : reviews[n].status # "approved"
  BY Writes DEF WriteReview, Holds
<1>6. ASSUME NEW n \in mine
      PROVE  /\ written(reviews[n]) \in Review
             /\ written(reviews[n]).period = q.new.period
             /\ written(reviews[n]).employee = q.new.employee
             /\ SnapshotSound(q.new.period, written(reviews[n]).snapshot)
  <2>1. reviews[n] \in Review /\ reviews[n].period = q.new.period /\ reviews[n].employee = q.new.employee
    BY <1>2 DEF ReviewsOf
  <2>2. /\ written(reviews[n]).period = q.new.period /\ written(reviews[n]).employee = q.new.employee
        /\ written(reviews[n]).status \in {reviews[n].status, q.new.status}
        /\ written(reviews[n]).snapshot \in {reviews[n].snapshot, q.new.snapshot}
        /\ written(reviews[n]).reviewer \in {reviews[n].reviewer, q.new.reviewer}
    BY <1>1, <2>1 DEF Review
  <2>3. written(reviews[n]) \in Review
    BY <1>1, <2>1, <2>2 DEF Review
  <2>4. SnapshotSound(q.new.period, reviews[n].snapshot)
    BY <2>1 DEF PreparationInv, ReviewsSound, ReviewsOf
  <2>5. QED
    BY <1>1, <2>2, <2>3, <2>4
<1>7. /\ reviews' \in Seq(Review)
      /\ \A n \in DOMAIN reviews : n \in DOMAIN reviews' /\ (n \notin mine => reviews'[n] = reviews[n])
      /\ \A n \in DOMAIN reviews' \ (DOMAIN reviews \ mine) :
           /\ reviews'[n].period = q.new.period /\ reviews'[n].employee = q.new.employee
           /\ SnapshotSound(q.new.period, reviews'[n].snapshot)
           /\ n \in mine \/ (mine = {} /\ n = next)
  <2>1. CASE q.seen = NoReview
    <3>1. mine = {} /\ reviews' = Append(reviews, q.new)
      BY <2>1 DEF WriteReview
    <3>2. /\ DOMAIN reviews' = DOMAIN reviews \cup {next} /\ reviews'[next] = q.new
          /\ \A n \in DOMAIN reviews : reviews'[n] = reviews[n]
      BY <1>2, <3>1, Appended
    <3>3. reviews' \in Seq(Review)
      BY <1>1, <1>2, <3>1
    <3> HIDE DEF mine
    <3>4. QED
      BY <1>1, <3>1, <3>2, <3>3
  <2>2. CASE q.seen # NoReview
    <3>1. reviews' = [n \in DOMAIN reviews |-> IF n \in mine THEN written(reviews[n]) ELSE reviews[n]]
      BY <2>2 DEF WriteReview
    <3> HIDE DEF written, mine
    <3>2. DOMAIN reviews' = 1 .. Len(reviews) /\ Len(reviews) \in Nat
      BY <1>2, <3>1
    <3>3. reviews' \in [1 .. Len(reviews) -> Review]
      BY <1>2, <1>6, <3>1, <3>2
    <3>4. reviews' \in Seq(Review)
      BY <3>2, <3>3
    <3>5. QED
      BY <1>6, <3>1, <3>4 DEF mine, ReviewsOf
  <2>3. QED
    BY <2>1, <2>2
<1>8. TablesShape' /\ TablesSound'
  BY <1>3, <1>7 DEF PreparationInv, TablesShape, TablesSound
<1>9. ReviewsSound'
  <2>1. \A n \in DOMAIN reviews' : reviews'[n].period \in DOMAIN periods /\ SnapshotSound(reviews'[n].period, reviews'[n].snapshot)
    BY <1>1, <1>7 DEF PreparationInv, ReviewsSound
  <2>2. ASSUME NEW m \in DOMAIN reviews', NEW n \in DOMAIN reviews',
               reviews'[m].period = reviews'[n].period, reviews'[m].employee = reviews'[n].employee
        PROVE  m = n
    <3>1. CASE m \in DOMAIN reviews \ mine /\ n \in DOMAIN reviews \ mine
      BY <1>7, <2>2, <3>1 DEF PreparationInv, ReviewsSound
    <3>2. CASE m \in DOMAIN reviews \ mine /\ n \notin DOMAIN reviews \ mine
      <4>1. reviews[m].period = q.new.period /\ reviews[m].employee = q.new.employee
        BY <1>7, <2>2, <3>2
      <4>2. QED
        BY <3>2, <4>1 DEF ReviewsOf
    <3>3. CASE n \in DOMAIN reviews \ mine /\ m \notin DOMAIN reviews \ mine
      <4>1. reviews[n].period = q.new.period /\ reviews[n].employee = q.new.employee
        BY <1>7, <2>2, <3>3
      <4>2. QED
        BY <3>3, <4>1 DEF ReviewsOf
    <3>4. CASE m \notin DOMAIN reviews \ mine /\ n \notin DOMAIN reviews \ mine
      <4>1. CASE m \in mine /\ n \in mine
        BY <4>1 DEF PreparationInv, ReviewsSound, ReviewsOf
      <4>2. CASE m \notin mine /\ n \notin mine
        BY <1>7, <3>4, <4>2
      <4>3. QED
        BY <1>7, <3>4, <4>1, <4>2
    <3>5. QED
      BY <3>1, <3>2, <3>3, <3>4
  <2>3. QED
    BY <1>3, <1>7, <2>1, <2>2 DEF ReviewsSound, SnapshotSound
<1>10. RunsSound'
  BY <1>3, <1>4, RunsKept DEF PreparationInv
<1>11. ASSUME Serial'
       PROVE  RunsApproved'
  <2>1. ASSUME NEW p, NEW e, NEW snapshot, Approved(p, e, snapshot)
        PROVE  Approved(p, e, snapshot)'
    <3>1. PICK n \in ReviewsOf(p, e) : reviews[n].status = "approved" /\ reviews[n].snapshot = snapshot
      BY <2>1 DEF Approved
    <3>2. n \in DOMAIN reviews' /\ reviews'[n] = reviews[n]
      BY <1>5, <1>7, <1>11, <3>1 DEF ReviewsOf
    <3>3. QED
      BY <1>7, <3>1, <3>2 DEF Approved, ReviewsOf
  <2>2. ASSUME NEW r \in DOMAIN runs, NEW e \in Employees, runs[r].lines[e] # NoLine
        PROVE  Approved(runs[r].period, e, runs[r].lines[e].attendance)'
    <3>1. Approved(runs[r].period, e, runs[r].lines[e].attendance)
      BY <1>5, <1>11, <2>2 DEF RunsApproved, LinesApproved
    <3>2. PICK run : run = runs[r]
      OBVIOUS
    <3>3. Approved(run.period, e, run.lines[e].attendance)'
      BY <2>1, <3>1, <3>2
    <3>4. QED
      BY <1>3, <3>2, <3>3 DEF Approved, ReviewsOf
  <2>3. QED
    BY <1>3, <2>2 DEF RunsApproved, LinesApproved, Approved, ReviewsOf
<1>12. Serial' => Settled(years, periods)'
  BY <1>3, Writes DEF WriteReview
<1>13. QED
  BY <1>4, <1>8, <1>9, <1>10, <1>11, <1>12 DEF Changes

LEMMA WriteRunChanges ==
  ASSUME PreparationInv, NEW c \in Calls, WriteRun(c)
  PROVE  Changes
<1> DEFINE row == calls[c].row
           new == Len(runs) + 1
<1>1. /\ RunShape(row) /\ row.period \in DOMAIN periods /\ LinesSound(row)
      /\ Serial' => Settled(years, periods) /\ RunsApproved /\ LinesApproved(row)
  BY Writes DEF WriteRun, CallShape, Knows, Holds
<1>2. /\ runs \in Seq({runs[r] : r \in DOMAIN runs}) /\ \A r \in DOMAIN runs : RunShape(runs[r])
      /\ runs' = Append(runs, row)
  BY DEF PreparationInv, TablesShape, WriteRun
<1>3. /\ DOMAIN runs' = DOMAIN runs \cup {new}
      /\ runs'[new] = row /\ \A r \in DOMAIN runs : runs'[r] = runs[r]
  BY <1>2, Appended
<1>4. UNCHANGED <<years, periods, profiles, policies, attendance, reviews>>
  BY DEF WriteRun, catalog
<1>5. RowsKept
  BY <1>4 DEF RowsKept
<1>6. TablesShape'
  <2> HIDE DEF row
  <2>1. runs' \in Seq({runs'[r] : r \in DOMAIN runs'})
    BY <1>2, AppendedRun
  <2>2. \A r \in DOMAIN runs' : RunShape(runs'[r])
    BY <1>1, <1>2, <1>3
  <2>3. QED
    BY <1>4, <2>1, <2>2 DEF PreparationInv, TablesShape, RunShape
<1>7. TablesSound' /\ ReviewsSound'
  BY <1>4, <1>5, ReviewsKept DEF PreparationInv, TablesSound
<1>8. RunsSound'
  <2>1. \A r \in DOMAIN runs' : runs'[r].period \in DOMAIN periods /\ LinesSound(runs'[r])
    BY <1>1, <1>3 DEF PreparationInv, RunsSound
  <2>2. QED
    BY <1>4, <2>1 DEF RunsSound, LinesSound, LineSound, SnapshotSound
<1>9. ASSUME Serial'
      PROVE  RunsApproved'
  <2>1. \A r \in DOMAIN runs' : LinesApproved(runs'[r])
    BY <1>1, <1>3, <1>9 DEF RunsApproved
  <2>2. QED
    BY <1>4, <2>1 DEF RunsApproved, LinesApproved, Approved, ReviewsOf
<1>10. Serial' => Settled(years, periods)'
  BY <1>1, <1>4
<1>11. QED
  BY <1>5, <1>6, <1>7, <1>8, <1>9, <1>10 DEF Changes

\* Changes of one step that leave these tables alone.
LEMMA ElsewhereChanges ==
  ASSUME PreparationInv, Serial' => Serial,
         UNCHANGED <<years, periods, profiles, policies, reviews, runs>>,
         attendance' \in [Employees -> [Days -> Record \cup {NoRecord}]]
  PROVE  Changes
<1>1. RowsKept
  BY DEF RowsKept
<1>2. TablesShape' /\ TablesSound'
  BY DEF PreparationInv, TablesShape, TablesSound
<1>3. ReviewsSound' /\ RunsSound'
  BY <1>1, ReviewsKept, RunsKept DEF PreparationInv
<1>4. Serial' => Settled(years, periods)' /\ RunsApproved'
  BY ApprovedKept DEF PreparationInv
<1>5. QED
  BY <1>1, <1>2, <1>3, <1>4 DEF Changes

LEMMA CreateSetChanges ==
  ASSUME PreparationInv, Serial' => Serial, NEW entry \in NewPolicies, NEW user \in Users,
         CreateTaxSlabSet(entry, user)
  PROVE  Changes
<1> DEFINE row == [year |-> entry.year, category |-> entry.category,
                   deduction |-> entry.deduction, slabs |-> entry.slabs, maker |-> user,
                   status |-> "draft", confirmer |-> NoUser, at |-> 0]
<1>1. row \in Policy /\ row.status = "draft" /\ ValidSlabs(row.slabs)
  BY PreparationAssumption DEF Entry, Policy, CreateTaxSlabSet
<1>2. policies \in Seq(Policy) /\ policies' = Append(policies, row)
  BY DEF PreparationInv, TablesShape, CreateTaxSlabSet
<1> HIDE DEF row
<1>3. /\ DOMAIN policies' = DOMAIN policies \cup {Len(policies) + 1}
      /\ policies'[Len(policies) + 1] = row
      /\ \A n \in DOMAIN policies : policies'[n] = policies[n]
  BY <1>2, Appended
<1>4. UNCHANGED <<years, periods, profiles, attendance, reviews, runs>>
  BY DEF CreateTaxSlabSet, catalog
<1>5. RowsKept
  BY <1>3, <1>4 DEF RowsKept
<1>6. TablesShape' /\ TablesSound'
  BY <1>1, <1>2, <1>3, <1>4 DEF PreparationInv, TablesShape, TablesSound
<1>7. ReviewsSound' /\ RunsSound'
  BY <1>4, <1>5, ReviewsKept, RunsKept DEF PreparationInv
<1>8. Serial' => Settled(years, periods)' /\ RunsApproved'
  BY <1>4, ApprovedKept DEF PreparationInv
<1>9. QED
  BY <1>5, <1>6, <1>7, <1>8 DEF Changes

LEMMA SettleChanges ==
  ASSUME PreparationInv, Serial' => Serial, NEW r \in DOMAIN runs, Settle(r)
  PROVE  Changes
<1> DEFINE row == [runs[r] EXCEPT !.settled = TRUE]
           rows == {runs[n] : n \in DOMAIN runs}
<1>1. /\ runs \in Seq(rows) /\ \A n \in DOMAIN runs : RunShape(runs[n])
      /\ runs' = [runs EXCEPT ![r] = row]
  BY DEF PreparationInv, TablesShape, Settle
<1>2. row.period = runs[r].period /\ row.lines = runs[r].lines /\ RunShape(row)
  <2>1. runs[r] \in [period : {runs[r].period}, lines : {runs[r].lines}, settled : {runs[r].settled}]
    BY <1>1 DEF RunShape
  <2>2. row \in [period : {runs[r].period}, lines : {runs[r].lines}, settled : {TRUE}]
    BY <2>1
  <2> HIDE DEF row
  <2>3. QED
    BY <2>2 DEF RunShape
<1> HIDE DEF row
<1>3. /\ DOMAIN runs' = DOMAIN runs
      /\ \A n \in DOMAIN runs : runs'[n] = IF n = r THEN row ELSE runs[n]
  BY <1>1
<1>4. UNCHANGED <<years, periods, profiles, policies, attendance, reviews>>
  BY DEF Settle, catalog
<1>5. RowsKept
  BY <1>4 DEF RowsKept
<1>6. runs' \in Seq({runs'[n] : n \in DOMAIN runs'})
  <2>1. DOMAIN runs = 1 .. Len(runs) /\ Len(runs) \in Nat
    BY <1>1
  <2> DEFINE new == {runs'[n] : n \in DOMAIN runs'}
  <2>2. \A n \in 1 .. Len(runs) : runs'[n] \in new
    BY <1>3, <2>1
  <2> HIDE DEF new
  <2>3. runs' \in [1 .. Len(runs) -> new]
    BY <1>1, <2>1, <2>2
  <2>4. runs' \in Seq(new)
    BY <2>1, <2>3
  <2>5. QED
    BY <2>4 DEF new
<1>7. TablesShape'
  <2>1. \A n \in DOMAIN runs' : RunShape(runs'[n])
    BY <1>1, <1>2, <1>3
  <2>2. QED
    BY <1>4, <1>6, <2>1 DEF PreparationInv, TablesShape, RunShape
<1>8. TablesSound' /\ ReviewsSound'
  BY <1>4, <1>5, ReviewsKept DEF PreparationInv, TablesSound
<1>9. \A n \in DOMAIN runs' : runs'[n].period = runs[n].period /\ runs'[n].lines = runs[n].lines
  BY <1>2, <1>3
<1>10. RunsSound'
  BY <1>3, <1>4, <1>9 DEF PreparationInv, RunsSound, LinesSound, LineSound, SnapshotSound
<1>11. Serial' => RunsApproved'
  BY <1>3, <1>4, <1>9 DEF PreparationInv, RunsApproved, LinesApproved, Approved, ReviewsOf
<1>12. Serial' => Settled(years, periods)'
  BY <1>4 DEF PreparationInv
<1>13. QED
  BY <1>5, <1>7, <1>8, <1>10, <1>11, <1>12 DEF Changes

LEMMA ConfigureChanges ==
  ASSUME PreparationInv, Configure
  PROVE  Changes /\ Changed
<1>1. Changed
  BY DEF Configure, CreateItem, AddComponent, CreateRule, CreateTaxSlabSet, Calculate, Settle
<1>2. Serial' => Serial
  BY <1>1 DEF Changed, Serial
<1>3. CASE \/ \E item \in NewItems : CreateItem(item)
           \/ \E profile \in DOMAIN profiles, item \in DOMAIN items, value \in NewValues :
                AddComponent(profile, item, value)
           \/ \E rule \in NewRules : CreateRule(rule)
  BY <1>2, <1>3, ElsewhereChanges
  DEF CreateItem, AddComponent, CreateRule, PreparationInv, TablesShape
<1>4. ASSUME NEW e \in Employees, NEW d \in WorkDays, NEW record \in Record, Calculate(e, d, record)
      PROVE  Changes
  <2>1. attendance' \in [Employees -> [Days -> Record \cup {NoRecord}]]
    BY <1>4, PreparationAssumption DEF Calculate, PreparationInv, TablesShape
  <2>2. QED
    BY <1>2, <1>4, <2>1, ElsewhereChanges DEF Calculate, catalog
<1>5. QED
  BY <1>1, <1>2, <1>3, <1>4, CreateSetChanges, SettleChanges DEF Configure

LEMMA WriteChanges ==
  ASSUME PreparationInv, NEW c \in Calls, Write(c), ~Abandon(c)
  PROVE  Changes /\ Committed(c)
<1>1. Changes
  BY WriteYearChanges, WriteTransitionChanges, WritePeriodChanges, WriteLockChanges,
     WriteProfileChanges, WriteConfirmationChanges, WriteReviewChanges, WriteRunChanges DEF Write
<1>2. Committed(c)
  BY DEF Write, WriteYear, WriteTransition, WritePeriod, WriteLock, WriteClose, WriteProfile,
         WriteConfirmation, WriteReview, WriteRun
<1>3. QED
  BY <1>1, <1>2

-----------------------------------------------------------------------------
(***************************************************************************)
(* The invariant.                                                          *)
(***************************************************************************)

\* With a step that begins no call, the calls know what they knew.
LEMMA CallsKept ==
  ASSUME PreparationInv, RowsKept, overlaps' \in Nat,
         calls' = [c \in Calls |-> calls'[c]],
         \A c \in Calls : calls'[c] \in {calls[c], NoCall}
  PROVE  CallsShape' /\ CallsKnow'
<1>1. \A c \in Calls : Running(c)' => Running(c) /\ calls'[c] = calls[c]
  BY DEF Running
<1>2. CallsShape'
  BY <1>1 DEF PreparationInv, CallsShape, CallShape
<1>3. ASSUME NEW c \in Calls, Running(c)'
      PROVE  Knows(calls[c])'
  <2>1. PICK q : q = calls'[c] /\ Knows(q)
    BY <1>1, <1>3 DEF PreparationInv, CallsKnow
  <2>2. Knows(q)'
    BY <2>1, KnowsKept
  <2>3. QED
    BY <2>1, <2>2 DEF Knows, LinesSound, LineSound, SnapshotSound
<1>4. QED
  BY <1>2, <1>3 DEF CallsKnow

LEMMA ChangeStep ==
  ASSUME PreparationInv, Changes, overlaps' \in Nat,
         calls' = [c \in Calls |-> calls'[c]],
         \A c \in Calls : calls'[c] \in {calls[c], NoCall},
         \A c \in Calls : Running(c)' => c \in overtaken'
  PROVE  PreparationInv'
<1>1. CallsShape' /\ CallsKnow'
  BY CallsKept DEF Changes
<1>2. CallsCurrent'
  BY DEF CallsCurrent
<1>3. QED
  BY <1>1, <1>2 DEF Changes, PreparationInv

LEMMA AbandonStep ==
  ASSUME PreparationInv, NEW c \in Calls, Abandon(c)
  PROVE  PreparationInv'
<1>1. UNCHANGED <<years, periods, profiles, policies, reviews, runs, attendance, overlaps>>
  BY DEF Abandon, tables, catalog
<1>2. RowsKept
  BY <1>1 DEF RowsKept
<1>3. /\ calls = [d \in Calls |-> calls[d]] /\ calls' = [calls EXCEPT ![c] = NoCall]
      /\ overtaken' = overtaken \ {c} /\ overlaps \in Nat
  BY DEF Abandon, PreparationInv, CallsShape
<1>4. CallsShape' /\ CallsKnow'
  BY <1>1, <1>2, <1>3, CallsKept
<1>5. TablesShape' /\ TablesSound' /\ ReviewsSound' /\ RunsSound'
  BY <1>1 DEF PreparationInv, TablesShape, TablesSound, ReviewsSound, RunsSound, LinesSound,
              LineSound, SnapshotSound
<1>6. Serial' = Serial /\ (Serial => Settled(years, periods)' /\ RunsApproved')
  BY <1>1, ApprovedKept DEF PreparationInv, Serial
<1>7. ASSUME Serial
      PROVE  CallsCurrent'
  <2>1. \A d \in Calls \ overtaken' : Running(d)' => Holds(calls'[d])
    BY <1>3, <1>7 DEF PreparationInv, CallsCurrent, Running
  <2>2. \A q : Holds(q)' = Holds(q)
    BY <1>1 DEF Holds, LinesApproved, Approved, ReviewsOf, MayTransition, MayCreatePeriod
  <2>3. QED
    BY <2>1, <2>2 DEF CallsCurrent
<1>8. QED
  BY <1>4, <1>5, <1>6, <1>7 DEF PreparationInv

LEMMA StepInv == PreparationInv /\ [Next]_vars => PreparationInv'
<1> SUFFICES ASSUME PreparationInv, [Next]_vars PROVE PreparationInv'
  OBVIOUS
<1>0. overlaps \in Nat /\ calls = [c \in Calls |-> calls[c]]
  BY DEF PreparationInv, CallsShape
<1>1. CASE UNCHANGED vars
  <2>1. UNCHANGED <<years, periods, profiles, policies, reviews, runs, attendance, calls,
                    overtaken, overlaps>>
    BY <1>1 DEF vars, tables, catalog
  <2>2. TablesShape' /\ TablesSound' /\ ReviewsSound' /\ RunsSound'
    BY <2>1 DEF PreparationInv, TablesShape, TablesSound, ReviewsSound, RunsSound, LinesSound,
                LineSound, SnapshotSound
  <2>3. RowsKept
    BY <2>1 DEF RowsKept
  <2>4. CallsShape' /\ CallsKnow'
    BY <1>0, <2>1, <2>3, CallsKept
  <2>5. Serial' = Serial /\ (Serial => Settled(years, periods)' /\ RunsApproved')
    BY <2>1, ApprovedKept DEF PreparationInv, Serial
  <2>6. ASSUME Serial
        PROVE  CallsCurrent'
    <3>1. \A d \in Calls \ overtaken' : Running(d)' => Holds(calls'[d])
      BY <2>1, <2>6 DEF PreparationInv, CallsCurrent, Running
    <3>2. \A q : Holds(q)' = Holds(q)
      BY <2>1 DEF Holds, LinesApproved, Approved, ReviewsOf, MayTransition, MayCreatePeriod
    <3>3. QED
      BY <3>1, <3>2 DEF CallsCurrent
  <2>7. QED
    BY <2>2, <2>4, <2>5, <2>6 DEF PreparationInv
<1>2. ASSUME NEW c \in Calls, Prepare(c)
      PROVE  PreparationInv'
  BY <1>2, CallBegins, BeginStep
<1>3. ASSUME NEW c \in Calls, Write(c)
      PROVE  PreparationInv'
  <2>1. CASE ~Abandon(c)
    <3>1. Changes /\ Committed(c)
      BY <1>3, <2>1, WriteChanges
    <3>2. /\ overlaps' \in Nat /\ calls' = [d \in Calls |-> calls'[d]]
          /\ \A d \in Calls : calls'[d] \in {calls[d], NoCall}
          /\ \A d \in Calls : Running(d)' => d \in overtaken'
      BY <1>0, <3>1 DEF Committed, Running
    <3>3. QED
      BY <3>1, <3>2, ChangeStep
  <2>2. QED
    BY <1>3, <2>1, AbandonStep
<1>4. CASE Configure
  <2>1. Changes /\ Changed
    BY <1>4, ConfigureChanges
  <2>2. /\ overlaps' = overlaps /\ calls' = calls
        /\ \A d \in Calls : Running(d)' => d \in overtaken'
    BY <2>1 DEF Changed, Running
  <2>3. QED
    BY <1>0, <2>1, <2>2, ChangeStep
<1>5. QED
  BY <1>1, <1>2, <1>3, <1>4 DEF Next

LEMMA InitInv == Init => PreparationInv
<1> SUFFICES ASSUME Init PROVE PreparationInv
  OBVIOUS
<1>1. reviews = <<>> /\ runs = <<>> /\ DOMAIN runs = {} /\ DOMAIN reviews = {}
  BY DEF Init
<1>2. TablesShape
  BY <1>1, FirstTypeAssumption DEF Init, TablesShape
<1>3. TablesSound /\ Settled(years, periods)
  BY FirstAssumption DEF Init, TablesSound
<1>4. ReviewsSound /\ RunsSound /\ RunsApproved
  BY <1>1 DEF ReviewsSound, RunsSound, RunsApproved
<1>5. CallsShape /\ CallsKnow /\ CallsCurrent
  BY DEF Init, CallsShape, CallsKnow, CallsCurrent, Running
<1>6. QED
  BY <1>2, <1>3, <1>4, <1>5 DEF PreparationInv

LEMMA Invariant == Spec => []PreparationInv
BY InitInv, StepInv, PTL DEF Spec

\* Whatever years and periods there are to begin with, calls that run one at
\* a time keep one year active, closed books without anything left to pay, and
\* years and periods apart.
THEOREM BooksSettled == Spec => []YearsSettled
<1>1. PreparationInv => YearsSettled
  BY DEF PreparationInv, YearsSettled
<1>2. QED
  BY <1>1, Invariant, PTL

\* Every line of a payroll run rests on attendance that somebody approved, on
\* a tax policy and a fiscal year that somebody else than their maker put in
\* force, and on the profile of that employee, whatever calls overlap; and on
\* a review that still says so, when no stale call has written.
THEOREM PayRests == Spec => []PayJustified
<1>1. ASSUME PreparationInv
      PROVE  PayJustified
  <2> SUFFICES ASSUME NEW r \in DOMAIN runs, NEW e \in Employees, runs[r].lines[e] # NoLine
               PROVE  LineSound(runs[r].period, e, runs[r].lines[e])
                      /\ (Serial => Approved(runs[r].period, e, runs[r].lines[e].attendance))
    BY DEF PayJustified, LineSound, SnapshotSound, Approved
  <2>1. QED
    BY <1>1 DEF PreparationInv, RunsSound, LinesSound, RunsApproved, LinesApproved
<1>2. QED
  BY <1>1, Invariant, PTL

-----------------------------------------------------------------------------
(***************************************************************************)
(* Taxes.                                                                  *)
(***************************************************************************)

Width(slab, taxable) == NotBelowZero(TopOf(slab, taxable) - slab.lower)

\* The total of progressive_tax, slab by slab.
TotalOf(slabs, taxable, last) ==
  CHOOSE total : total = [n \in 0 .. last |->
    IF n = 0 THEN 0 ELSE total[n - 1] + Width(slabs[n], taxable) * slabs[n].rate]

\* A nonempty set of numbers has a least one.
LEMMA LeastNatural ==
  ASSUME NEW S \in SUBSET Nat, S # {}
  PROVE  \E least \in S : \A n \in S : least <= n
<1> DEFINE R == OpToRel(<, Nat)
<1>1. R = {ss \in Nat \X Nat : ss[1] < ss[2]}
  BY DEF OpToRel
<1>2. IsWellFoundedOn(R, Nat)
  BY NatLessThanWellFounded
<1>3. \A n, m \in Nat : n < m => <<n, m>> \in R
  BY <1>1
<1> HIDE DEF R
<1>4. PICK least \in S : \A n \in S : ~(<<n, least>> \in R)
  BY <1>2, WFMin
<1>5. ASSUME NEW n \in S
      PROVE  least <= n
  <2>1. n \in Nat /\ least \in Nat /\ ~(n < least)
    BY <1>3, <1>4
  <2>2. QED
    BY <2>1
<1>6. QED
  BY <1>5

\* The full rate is cited as a number like any other: only the leaves about
\* rounding expand it.
LEMMA FullRateNatural == FullRate \in Nat
BY SMT DEF FullRate

LEMMA SlabFields ==
  ASSUME NEW slab \in Slab
  PROVE  slab.lower \in Nat /\ slab.upper \in Int /\ slab.rate \in Nat /\ slab.rate <= FullRate
BY FullRateNatural DEF Slab

LEMMA WidthType ==
  ASSUME NEW slab \in Slab, NEW x \in Nat
  PROVE  Width(slab, x) \in Nat
BY DEF Width, NotBelowZero, TopOf, Smaller, Slab

LEMMA ChargeType ==
  ASSUME NEW slab \in Slab, NEW x \in Nat
  PROVE  Width(slab, x) * slab.rate \in Nat
<1>1. Width(slab, x) \in Nat /\ slab.rate \in Nat
  BY WidthType, FullRateNatural DEF Slab
<1>2. \A a, b \in Nat : a * b \in Nat
  OBVIOUS
<1>3. QED
  BY <1>1, <1>2

\* The running total adds up what the slabs charge.
LEMMA TotalSteps ==
  ASSUME NEW slabs \in Seq(Slab), NEW x \in Nat
  PROVE  LET total == TotalOf(slabs, x, Len(slabs))
         IN  /\ total[0] = 0
             /\ \A n \in 1 .. Len(slabs) :
                  /\ total[n] = total[n - 1] + Width(slabs[n], x) * slabs[n].rate
                  /\ total[n - 1] \in Nat /\ total[n] \in Nat
<1> DEFINE charge(n) == Width(slabs[n], x) * slabs[n].rate
           Adds(f, last) == f = [n \in 0 .. last |-> IF n = 0 THEN 0 ELSE f[n - 1] + charge(n)]
           Done(last) == \E f \in [0 .. last -> Nat] : Adds(f, last)
           bad == {last \in 0 .. Len(slabs) : ~Done(last)}
<1>1. Len(slabs) \in Nat /\ \A n \in 1 .. Len(slabs) : slabs[n] \in Slab
  OBVIOUS
<1>2. \A n \in 1 .. Len(slabs) : charge(n) \in Nat
  BY <1>1, ChargeType
<1> HIDE DEF charge
<1>3. ASSUME bad # {}
      PROVE  FALSE
  <2>0. \E last \in bad : \A m \in bad : last <= m
    <3>1. bad \in SUBSET Nat
      BY <1>1
    <3> HIDE DEF bad
    <3>2. QED
      BY <1>3, <3>1, LeastNatural
  <2>1. PICK last \in bad : \A m \in bad : last <= m
    BY <2>0
  <2>2. /\ last \in 0 .. Len(slabs) /\ ~Done(last)
        /\ \A m \in 0 .. Len(slabs) : ~Done(m) => last <= m
    <3> HIDE DEF Done
    <3>1. QED
      BY <2>1
  <2>3. last # 0
    <3> DEFINE f == [n \in 0 .. 0 |-> 0]
    <3>1. f \in [0 .. 0 -> Nat] /\ Adds(f, 0)
      OBVIOUS
    <3>2. Done(0)
      BY <3>1
    <3> HIDE DEF Done
    <3>3. QED
      BY <2>2, <3>2
  <2> DEFINE m == last - 1
  <2>4. m \in 0 .. Len(slabs) /\ last = m + 1 /\ m < last /\ last \in 1 .. Len(slabs)
    BY <1>1, <2>2, <2>3
  <2>5. Done(m)
    <3> HIDE DEF Done, m
    <3>1. QED
      BY <1>1, <2>2, <2>4
  <2>6. PICK f \in [0 .. m -> Nat] : Adds(f, m)
    BY <2>5
  <2> DEFINE g == [n \in 0 .. last |-> IF n = last THEN f[m] + charge(last) ELSE f[n]]
  <2> HIDE DEF m
  <2>7. charge(last) \in Nat /\ f[m] \in Nat
    BY <1>2, <2>4, <2>6
  <2>8. g \in [0 .. last -> Nat]
    BY <2>4, <2>6, <2>7
  <2>9. ASSUME NEW n \in 0 .. last
        PROVE  g[n] = IF n = 0 THEN 0 ELSE g[n - 1] + charge(n)
    <3>1. CASE n = last
      <4>1. g[n] = f[m] + charge(last) /\ n # 0 /\ n - 1 = m /\ n - 1 \in 0 .. last /\ n - 1 # last
        BY <2>4, <3>1
      <4>2. g[n - 1] = f[m]
        BY <4>1
      <4>3. QED
        BY <3>1, <4>1, <4>2
    <3>2. CASE n # last
      <4>1. n \in 0 .. m
        BY <2>4, <3>2
      <4>2. f[n] = IF n = 0 THEN 0 ELSE f[n - 1] + charge(n)
        BY <2>6, <4>1
      <4>3. n # 0 => n - 1 \in 0 .. last /\ n - 1 # last
        BY <2>4, <4>1
      <4>4. QED
        BY <3>2, <4>2, <4>3
    <3>3. QED
      BY <3>1, <3>2
  <2>10. Adds(g, last)
    BY <2>9
  <2>11. Done(last)
    BY <2>8, <2>10
  <2> HIDE DEF Done
  <2>12. QED
    BY <2>2, <2>11
<1>4. Done(Len(slabs))
  <2> HIDE DEF Done
  <2>1. QED
    BY <1>1, <1>3
<1>5. PICK f \in [0 .. Len(slabs) -> Nat] : Adds(f, Len(slabs))
  BY <1>4
<1> DEFINE total == TotalOf(slabs, x, Len(slabs))
<1>6. Adds(total, Len(slabs))
  BY <1>5 DEF TotalOf, charge
<1> HIDE DEF total
<1>7. total[0] = 0 /\ \A n \in 1 .. Len(slabs) : total[n] = total[n - 1] + charge(n)
  BY <1>1, <1>6
<1>8. \A n \in 0 .. Len(slabs) : total[n] \in Nat
  <2> DEFINE wrong == {n \in 0 .. Len(slabs) : total[n] \notin Nat}
  <2>1. ASSUME wrong # {}
        PROVE  FALSE
    <3>0. \E n \in wrong : \A m \in wrong : n <= m
      <4>1. wrong \in SUBSET Nat
        BY <1>1
      <4> HIDE DEF wrong
      <4>2. QED
        BY <2>1, <4>1, LeastNatural
    <3>1. PICK n \in wrong : \A m \in wrong : n <= m
      BY <3>0
    <3>2. n # 0 /\ n - 1 \in 0 .. Len(slabs) /\ n \in 1 .. Len(slabs) /\ n - 1 < n
      BY <1>1, <1>7, <3>1
    <3>3. total[n - 1] \in Nat
      BY <3>1, <3>2
    <3>4. QED
      BY <1>2, <1>7, <3>1, <3>2, <3>3
  <2>2. QED
    BY <2>1
<1>9. \A n \in 1 .. Len(slabs) : n - 1 \in 0 .. Len(slabs) /\ n \in 0 .. Len(slabs)
  BY <1>1
<1>10. QED
  BY <1>7, <1>8, <1>9 DEF total, charge

\* One unit more falls into one slab.
LEMMA OneMore ==
  ASSUME NEW slabs \in Seq(Slab), ValidSlabs(slabs), NEW x \in Nat
  PROVE  LET from == TotalOf(slabs, x, Len(slabs))
             to == TotalOf(slabs, x + 1, Len(slabs))
             last == Len(slabs)
         IN  /\ from[last] \in Nat /\ to[last] \in Nat
             /\ from[last] <= to[last] /\ to[last] <= from[last] + FullRate
<1> DEFINE last == Len(slabs)
           from == TotalOf(slabs, x, last)
           to == TotalOf(slabs, x + 1, last)
           Step(n) == /\ from[n] \in Nat /\ to[n] \in Nat
                      /\ from[n] <= to[n] /\ to[n] <= from[n] + FullRate
                      /\ n < last /\ x >= slabs[n + 1].lower => to[n] = from[n]
           bad == {n \in 0 .. last : ~Step(n)}
<1>1. last \in Nat \ {0} /\ \A n \in 1 .. last : slabs[n] \in Slab
  BY DEF ValidSlabs
<1>2. /\ from[0] = 0 /\ to[0] = 0
      /\ \A n \in 1 .. last :
           /\ from[n] = from[n - 1] + Width(slabs[n], x) * slabs[n].rate
           /\ to[n] = to[n - 1] + Width(slabs[n], x + 1) * slabs[n].rate
           /\ from[n] \in Nat /\ to[n] \in Nat
  <2>1. x + 1 \in Nat
    OBVIOUS
  <2>2. QED
    BY <2>1, TotalSteps
<1> HIDE DEF from, to
<1>3. Step(0)
  BY <1>2, FullRateNatural
<1>4. ASSUME NEW n \in 1 .. last, Step(n - 1)
      PROVE  Step(n)
  <2> DEFINE slab == slabs[n]
             less == Width(slab, x)
             more == Width(slab, x + 1)
             rate == slab.rate
  <2>1. /\ slab.lower \in Nat /\ slab.upper \in Int /\ rate \in Nat /\ rate <= FullRate
        /\ less \in Nat /\ more \in Nat
    <3>1. slab \in Slab /\ x + 1 \in Nat
      BY <1>1
    <3> HIDE DEF slab
    <3>2. slab.lower \in Nat /\ slab.upper \in Int /\ rate \in Nat /\ rate <= FullRate
      BY <3>1, SlabFields
    <3>3. less \in Nat /\ more \in Nat
      BY <3>1, WidthType
    <3>4. QED
      BY <3>2, <3>3
  <2>2. n < last => /\ slab.upper > slab.lower /\ slabs[n + 1].lower = slab.upper
    BY <1>1 DEF ValidSlabs
  <2>3. /\ from[n] = from[n - 1] + less * rate /\ to[n] = to[n - 1] + more * rate
        /\ from[n] \in Nat /\ to[n] \in Nat
    BY <1>2
  <2>4. /\ from[n - 1] \in Nat /\ to[n - 1] \in Nat
        /\ from[n - 1] <= to[n - 1] /\ to[n - 1] <= from[n - 1] + FullRate
        /\ x >= slab.lower => to[n - 1] = from[n - 1]
    <3>1. n - 1 < last /\ (n - 1) + 1 = n
      BY <1>1
    <3>2. QED
      BY <1>4, <3>1
  <2>5. CASE x < slab.lower
    <3>1. less = 0 /\ more = 0
      BY <2>1, <2>5 DEF Width, NotBelowZero, TopOf, Smaller
    <3>2. less * rate = 0 /\ more * rate = 0
      BY <2>1, <3>1
    <3>3. from[n] = from[n - 1] /\ to[n] = to[n - 1]
      BY <2>3, <2>4, <3>2
    <3>4. n < last => ~(x >= slabs[n + 1].lower)
      BY <2>1, <2>2, <2>5
    <3>5. QED
      BY <2>4, <3>3, <3>4
  <2>6. CASE x >= slab.lower
    <3>1. more \in {less, less + 1}
      BY <2>1, <2>6 DEF Width, NotBelowZero, TopOf, Smaller
    <3>2. n < last /\ x >= slabs[n + 1].lower => more = less
      BY <2>1, <2>2, <2>6 DEF Width, NotBelowZero, TopOf, Smaller
    <3> HIDE DEF less, more, rate, slab
    <3>3. more * rate = IF more = less THEN less * rate ELSE less * rate + rate
      <4>1. \A a, b \in Nat : (a + 1) * b = a * b + b
        OBVIOUS
      <4>2. QED
        BY <2>1, <3>1, <4>1
    <3>4. less * rate \in Nat
      <4>1. \A a, b \in Nat : a * b \in Nat
        OBVIOUS
      <4>2. QED
        BY <2>1, <4>1
    <3>5. to[n - 1] = from[n - 1]
      BY <2>4, <2>6
    <3>6. to[n] = from[n] + (IF more = less THEN 0 ELSE rate)
      <4> DEFINE before == less * rate
                 after == more * rate
      <4>1. /\ from[n] = from[n - 1] + before /\ to[n] = to[n - 1] + after /\ before \in Nat
            /\ after = IF more = less THEN before ELSE before + rate
        BY <2>3, <3>3, <3>4
      <4> HIDE DEF before, after
      <4>2. QED
        BY <2>1, <2>4, <3>5, <4>1
    <3>7. QED
      BY <2>1, <2>3, <3>2, <3>6, FullRateNatural
  <2>7. QED
    BY <2>1, <2>5, <2>6
<1> HIDE DEF Step
<1>5. ASSUME bad # {}
      PROVE  FALSE
  <2>0. \E n \in bad : \A m \in bad : n <= m
    <3>1. bad \in SUBSET Nat
      BY <1>1
    <3> HIDE DEF bad
    <3>2. QED
      BY <1>5, <3>1, LeastNatural
  <2>1. PICK n \in bad : \A m \in bad : n <= m
    BY <2>0
  <2>2. n # 0 /\ n \in 1 .. last /\ n - 1 \in 0 .. last /\ n - 1 < n
    BY <1>1, <1>3, <2>1
  <2>3. Step(n - 1)
    BY <2>1, <2>2
  <2>4. QED
    BY <1>4, <2>1, <2>2, <2>3
<1>6. Step(last)
  BY <1>1, <1>5
<1>7. QED
  BY <1>6 DEF Step, from, to

LEMMA RoundedSteps ==
  /\ \A a, b \in Nat : a <= b => Rounded(a, FullRate) <= Rounded(b, FullRate) /\ Rounded(a, 12) <= Rounded(b, 12)
  /\ \A a \in Nat : Rounded(a + FullRate, FullRate) = Rounded(a, FullRate) + 1
  /\ \A a \in Nat : Rounded(a + 12, 12) = Rounded(a, 12) + 1
  /\ \A a \in Nat : Rounded(a, FullRate) \in Nat /\ Rounded(a, 12) \in Nat
BY SMT DEF Rounded, FullRate

LEMMA ProgressiveTotal ==
  ASSUME NEW policy, NEW income
  PROVE  ProgressiveTax(policy, income) =
           Rounded(TotalOf(policy.slabs, NotBelowZero(income - policy.deduction),
                           Len(policy.slabs))[Len(policy.slabs)], FullRate)
BY Zenon DEF ProgressiveTax, TotalOf, Width

LEMMA ProgressiveStep ==
  ASSUME NEW policy \in Policy, ValidSlabs(policy.slabs), NEW income \in Nat
  PROVE  /\ ProgressiveTax(policy, income) \in Nat
         /\ ProgressiveTax(policy, income) <= ProgressiveTax(policy, income + 1)
         /\ ProgressiveTax(policy, income + 1) <= ProgressiveTax(policy, income) + 1
<1> DEFINE slabs == policy.slabs
           last == Len(slabs)
           x == NotBelowZero(income - policy.deduction)
           next == income + 1
           y == NotBelowZero(next - policy.deduction)
<1>1. slabs \in Seq(Slab) /\ policy.deduction \in Nat
  BY DEF Policy
<1>2. x \in Nat /\ y \in Nat /\ y \in {x, x + 1}
  BY <1>1 DEF NotBelowZero
<1> HIDE DEF next
<1>3. /\ ProgressiveTax(policy, income) = Rounded(TotalOf(slabs, x, last)[last], FullRate)
      /\ ProgressiveTax(policy, next) = Rounded(TotalOf(slabs, y, last)[last], FullRate)
  BY ProgressiveTotal, Zenon
<1> DEFINE a == TotalOf(slabs, x, last)[last]
           b == TotalOf(slabs, y, last)[last]
<1> HIDE DEF x, y
<1>4. a \in Nat /\ b \in Nat /\ a <= b /\ b <= a + FullRate
  <2>1. /\ a \in Nat /\ TotalOf(slabs, x + 1, last)[last] \in Nat
        /\ a <= TotalOf(slabs, x + 1, last)[last] /\ TotalOf(slabs, x + 1, last)[last] <= a + FullRate
    BY <1>1, <1>2, OneMore
  <2>2. QED
    BY <1>2, <2>1, FullRateNatural
<1> HIDE DEF a, b
<1>5. /\ Rounded(a, FullRate) \in Nat /\ Rounded(b, FullRate) \in Nat
      /\ Rounded(a, FullRate) <= Rounded(b, FullRate) /\ Rounded(b, FullRate) <= Rounded(a, FullRate) + 1
  <2>1. /\ Rounded(a, FullRate) \in Nat /\ Rounded(b, FullRate) \in Nat
        /\ Rounded(a, FullRate) <= Rounded(b, FullRate)
        /\ Rounded(b, FullRate) <= Rounded(a + FullRate, FullRate) /\ Rounded(a + FullRate, FullRate) = Rounded(a, FullRate) + 1
    <3>1. a + FullRate \in Nat
      BY <1>4, FullRateNatural
    <3>2. Rounded(a, FullRate) \in Nat /\ Rounded(b, FullRate) \in Nat /\ Rounded(a + FullRate, FullRate) = Rounded(a, FullRate) + 1
      BY <1>4, RoundedSteps
    <3>3. Rounded(a, FullRate) <= Rounded(b, FullRate)
      BY <1>4, RoundedSteps
    <3>4. Rounded(b, FullRate) <= Rounded(a + FullRate, FullRate)
      BY <1>4, <3>1, RoundedSteps
    <3>5. QED
      BY <3>2, <3>3, <3>4
  <2>2. QED
    BY <2>1
<1>6. QED
  BY <1>3, <1>5 DEF a, b, next

\* Of a whole year of twelve periods, one unit more per period.
LEMMA PeriodStep ==
  ASSUME NEW policy \in Policy, ValidSlabs(policy.slabs), NEW income \in Nat
  PROVE  /\ PeriodTax(policy, income) <= PeriodTax(policy, income + 1)
         /\ PeriodTax(policy, income + 1) <= PeriodTax(policy, income) + 1
<1> DEFINE from == income * 12
           tax(k) == ProgressiveTax(policy, from + k)
<1>1. from \in Nat /\ (income + 1) * 12 = from + 12
  OBVIOUS
<1> HIDE DEF from
<1>2. \A k \in 0 .. 11 : tax(k) \in Nat /\ tax(k) <= tax(k + 1) /\ tax(k + 1) <= tax(k) + 1
  <2> SUFFICES ASSUME NEW k \in 0 .. 11
               PROVE  tax(k) \in Nat /\ tax(k) <= tax(k + 1) /\ tax(k + 1) <= tax(k) + 1
    OBVIOUS
  <2>1. from + k \in Nat /\ (from + k) + 1 = from + (k + 1)
    BY <1>1
  <2>2. QED
    BY <2>1, ProgressiveStep
<1>3. tax(12) \in Nat
  <2>1. from + 12 \in Nat
    BY <1>1
  <2>2. QED
    BY <2>1, ProgressiveStep
<1> HIDE DEF tax
<1>4. tax(0) \in Nat /\ tax(0) <= tax(12) /\ tax(12) <= tax(0) + 12
  <2>1. /\ tax(0) \in Nat /\ tax(1) \in Nat /\ tax(2) \in Nat /\ tax(3) \in Nat /\ tax(4) \in Nat
        /\ tax(5) \in Nat /\ tax(6) \in Nat /\ tax(7) \in Nat /\ tax(8) \in Nat /\ tax(9) \in Nat
        /\ tax(10) \in Nat /\ tax(11) \in Nat
        /\ tax(0) <= tax(1) /\ tax(1) <= tax(0) + 1 /\ tax(1) <= tax(2) /\ tax(2) <= tax(1) + 1
        /\ tax(2) <= tax(3) /\ tax(3) <= tax(2) + 1 /\ tax(3) <= tax(4) /\ tax(4) <= tax(3) + 1
        /\ tax(4) <= tax(5) /\ tax(5) <= tax(4) + 1 /\ tax(5) <= tax(6) /\ tax(6) <= tax(5) + 1
        /\ tax(6) <= tax(7) /\ tax(7) <= tax(6) + 1 /\ tax(7) <= tax(8) /\ tax(8) <= tax(7) + 1
        /\ tax(8) <= tax(9) /\ tax(9) <= tax(8) + 1 /\ tax(9) <= tax(10) /\ tax(10) <= tax(9) + 1
        /\ tax(10) <= tax(11) /\ tax(11) <= tax(10) + 1 /\ tax(11) <= tax(12) /\ tax(12) <= tax(11) + 1
    BY <1>2
  <2>2. QED
    BY <1>3, <2>1
<1>5. /\ PeriodTax(policy, income) = Rounded(tax(0), 12)
      /\ PeriodTax(policy, income + 1) = Rounded(tax(12), 12)
  <2>1. from + 0 = from
    BY <1>1
  <2>2. QED
    BY <1>1, <2>1 DEF PeriodTax, AnnualPeriods, tax, from
<1>6. /\ Rounded(tax(0), 12) <= Rounded(tax(12), 12)
      /\ Rounded(tax(12), 12) <= Rounded(tax(0) + 12, 12)
      /\ Rounded(tax(0) + 12, 12) = Rounded(tax(0), 12) + 1
  BY <1>3, <1>4, RoundedSteps
<1>7. QED
  BY <1>5, <1>6

\* Whoever earns one unit more never takes home less and never pays less tax,
\* under any valid slabs, deduction and income (progressive_tax, the division
\* by the periods of a year and both roundings).
THEOREM EarningMoreIsWorthIt == Spec => []EarningMorePays
<1>1. ASSUME PreparationInv
      PROVE  EarningMorePays
  <2> SUFFICES ASSUME NEW n \in DOMAIN policies, NEW income \in 0 .. MaxIncome - 1
               PROVE  /\ PeriodTax(policies[n], income) <= PeriodTax(policies[n], income + 1)
                      /\ PeriodTax(policies[n], income + 1) <= PeriodTax(policies[n], income) + 1
    BY DEF EarningMorePays
  <2>1. policies[n] \in Policy /\ ValidSlabs(policies[n].slabs)
    BY <1>1, RowTypes DEF PreparationInv, TablesSound
  <2>2. income \in Nat
    BY PreparationAssumption
  <2>3. QED
    BY <2>1, <2>2, PeriodStep
<1>2. QED
  BY <1>1, Invariant, PTL

-----------------------------------------------------------------------------
(***************************************************************************)
(* Sums over sets, which the library folds with a recursive function.      *)
(***************************************************************************)

\* The element that a sum over a set takes next.
Taken(s) == CHOOSE x \in s : TRUE

\* f adds up g over each set of sets: over none it is 0.
AddsUp(f, g, sets) ==
  f = [s \in sets |-> IF s = {} THEN 0 ELSE g[Taken(s)] + f[s \ {Taken(s)}]]

LEMMA TakenAway ==
  ASSUME NEW S, IsFiniteSet(S), NEW s \in SUBSET S, s # {}
  PROVE  /\ Taken(s) \in S /\ s \ {Taken(s)} \in SUBSET S
         /\ Cardinality(s) \in Nat \ {0} /\ Cardinality(s \ {Taken(s)}) = Cardinality(s) - 1
<1>1. IsFiniteSet(s)
  BY FS_Subset
<1>2. Taken(s) \in s
  BY DEF Taken
<1>3. Cardinality(s) \in Nat
  BY <1>1, FS_CardinalityType
<1>4. Cardinality(s) # 0
  BY <1>1, FS_EmptySet
<1>5. Cardinality(s \ {Taken(s)}) = Cardinality(s) - 1
  BY <1>1, <1>2, FS_RemoveElement
<1>6. QED
  BY <1>2, <1>3, <1>4, <1>5

\* Sums over the subsets of a finite set exist: those over more elements come
\* from those over fewer.
LEMMA SumExists ==
  ASSUME NEW S, IsFiniteSet(S), NEW g
  PROVE  \E f : AddsUp(f, g, SUBSET S)
<1> DEFINE Upto(n) == {s \in SUBSET S : Cardinality(s) <= n}
           Done(n) == \E f : AddsUp(f, g, Upto(n))
           bad == {n \in Nat : ~Done(n)}
<1>1. ASSUME bad # {}
      PROVE  FALSE
  <2>1. PICK n \in bad : \A m \in bad : n <= m
    <3>1. bad \in SUBSET Nat
      OBVIOUS
    <3> HIDE DEF bad
    <3>2. QED
      BY <1>1, <3>1, LeastNatural
  <2>2. n \in Nat /\ ~Done(n) /\ \A m \in Nat : ~Done(m) => n <= m
    <3> HIDE DEF Done
    <3>1. QED
      BY <2>1
  <2>3. \E f : AddsUp(f, g, Upto(n - 1))
    <3>1. CASE n = 0
      <4>1. ASSUME NEW s \in Upto(n - 1)
            PROVE  FALSE
        <5>1. Cardinality(s) \in Nat
          BY FS_Subset, FS_CardinalityType
        <5>2. Cardinality(s) <= 0 - 1
          BY <3>1
        <5>3. QED
          BY <5>1, <5>2
      <4>2. Upto(n - 1) = {}
        BY <4>1
      <4> HIDE DEF Upto
      <4> DEFINE f == [s \in {} |-> 0]
      <4>3. AddsUp(f, g, {})
        BY DEF AddsUp
      <4>4. QED
        BY <4>2, <4>3
    <3>2. CASE n # 0
      <4>1. n - 1 \in Nat /\ ~(n <= n - 1)
        BY <2>2, <3>2
      <4>2. Done(n - 1)
        <5> HIDE DEF Done
        <5>1. QED
          BY <2>2, <4>1
      <4>3. QED
        BY <4>2
    <3>3. QED
      BY <3>1, <3>2
  <2>4. PICK f : AddsUp(f, g, Upto(n - 1))
    BY <2>3
  <2> DEFINE more == [s \in Upto(n) |-> IF s = {} THEN 0 ELSE g[Taken(s)] + f[s \ {Taken(s)}]]
  <2>5. ASSUME NEW s \in Upto(n)
        PROVE  more[s] = IF s = {} THEN 0 ELSE g[Taken(s)] + more[s \ {Taken(s)}]
    <3>1. CASE s = {}
      BY <3>1
    <3>2. CASE s # {}
      <4> DEFINE rest == s \ {Taken(s)}
      <4>1. /\ rest \in SUBSET S /\ Cardinality(s) \in Nat /\ Cardinality(s) <= n
            /\ Cardinality(rest) = Cardinality(s) - 1
        BY <3>2, TakenAway
      <4>2. rest \in Upto(n - 1) /\ rest \in Upto(n)
        BY <2>2, <4>1
      <4> HIDE DEF rest
      <4>3. more[rest] = IF rest = {} THEN 0 ELSE g[Taken(rest)] + f[rest \ {Taken(rest)}]
        BY <4>2
      <4>4. f[rest] = IF rest = {} THEN 0 ELSE g[Taken(rest)] + f[rest \ {Taken(rest)}]
        <5> HIDE DEF Upto
        <5>1. QED
          BY <2>4, <4>2 DEF AddsUp
      <4>5. more[s] = g[Taken(s)] + f[rest]
        BY <3>2 DEF rest
      <4>6. QED
        BY <3>2, <4>3, <4>4, <4>5 DEF rest
    <3>3. QED
      BY <3>1, <3>2
  <2>6. more = [s \in Upto(n) |-> IF s = {} THEN 0 ELSE g[Taken(s)] + more[s \ {Taken(s)}]]
    <3>1. more = [s \in Upto(n) |-> more[s]]
      OBVIOUS
    <3> HIDE DEF more, Upto
    <3>2. QED
      BY <2>5, <3>1
  <2>7. Done(n)
    <3> HIDE DEF more, Upto
    <3>1. QED
      BY <2>6 DEF AddsUp
  <2> HIDE DEF Done
  <2>8. QED
    BY <2>2, <2>7
<1>2. Cardinality(S) \in Nat
  BY FS_CardinalityType
<1>3. Done(Cardinality(S))
  <2> HIDE DEF Done
  <2>1. QED
    BY <1>1, <1>2
<1>4. Upto(Cardinality(S)) = SUBSET S
  BY FS_Subset
<1> HIDE DEF Upto
<1>5. QED
  BY <1>3, <1>4

\* They are sums of numbers.
LEMMA SumTyped ==
  ASSUME NEW S, IsFiniteSet(S), NEW g, \A x \in S : g[x] \in Nat,
         NEW f, AddsUp(f, g, SUBSET S)
  PROVE  f[S] \in Nat
<1> DEFINE bad == {n \in Nat : \E s \in SUBSET S : Cardinality(s) = n /\ f[s] \notin Nat}
<1>1. ASSUME bad # {}
      PROVE  FALSE
  <2>1. PICK n \in bad : \A m \in bad : n <= m
    <3>1. bad \in SUBSET Nat
      OBVIOUS
    <3> HIDE DEF bad
    <3>2. QED
      BY <1>1, <3>1, LeastNatural
  <2>2. PICK s \in SUBSET S : Cardinality(s) = n /\ f[s] \notin Nat
    BY <2>1
  <2>3. f[s] = IF s = {} THEN 0 ELSE g[Taken(s)] + f[s \ {Taken(s)}]
    BY DEF AddsUp
  <2>4. s # {}
    BY <2>2, <2>3
  <2>5. /\ Taken(s) \in S /\ s \ {Taken(s)} \in SUBSET S /\ n \in Nat \ {0}
        /\ Cardinality(s \ {Taken(s)}) = n - 1
    BY <2>2, <2>4, TakenAway
  <2>6. n - 1 \in Nat /\ ~(n <= n - 1)
    BY <2>5
  <2>7. f[s \ {Taken(s)}] \in Nat
    <3>1. n - 1 \notin bad
      <4> HIDE DEF bad
      <4>1. QED
        BY <2>1, <2>6
    <3>2. QED
      BY <2>5, <2>6, <3>1
  <2>8. g[Taken(s)] \in Nat
    BY <2>5
  <2>9. QED
    BY <2>2, <2>3, <2>4, <2>7, <2>8
<1>2. Cardinality(S) \in Nat
  BY FS_CardinalityType
<1>3. QED
  BY <1>1, <1>2

LEMMA HolidayMinutesType ==
  ASSUME NEW snapshot \in Snapshot, IsFiniteSet(snapshot)
  PROVE  HolidayMinutes(snapshot) \in Nat
<1> DEFINE g == [day \in snapshot |-> day[2].holiday]
           Adds(f) == f = [s \in SUBSET snapshot |->
                             IF s = {} THEN 0
                             ELSE (CHOOSE x \in s : TRUE)[2].holiday + f[s \ {CHOOSE x \in s : TRUE}]]
<1>1. \A day \in snapshot : g[day] \in Nat
  BY PreparationAssumption DEF Snapshot, Record
<1>2. ASSUME NEW f
      PROVE  Adds(f) <=> AddsUp(f, g, SUBSET snapshot)
  <2>1. \A s \in SUBSET snapshot : s # {} => g[CHOOSE x \in s : TRUE] = (CHOOSE x \in s : TRUE)[2].holiday
    OBVIOUS
  <2> HIDE DEF g
  <2>2. QED
    BY <2>1 DEF AddsUp, Taken
<1>3. PICK solution : AddsUp(solution, g, SUBSET snapshot)
  BY SumExists
<1>4. Adds(CHOOSE f : Adds(f))
  <2>1. Adds(solution)
    BY <1>2, <1>3
  <2> HIDE DEF Adds
  <2>2. QED
    BY <2>1
<1>5. HolidayMinutes(snapshot) = (CHOOSE f : Adds(f))[snapshot]
  BY Zenon DEF HolidayMinutes, MapThenSumSet, MapThenFoldSet
<1>6. AddsUp(CHOOSE f : Adds(f), g, SUBSET snapshot)
  BY <1>2, <1>4
<1> HIDE DEF Adds, g
<1>7. QED
  BY <1>1, <1>5, <1>6, SumTyped

\* Components refer to profiles and items that there are.
ComponentsSound ==
  \A n \in DOMAIN components :
    components[n].profile \in DOMAIN profiles /\ components[n].item \in DOMAIN items

LEMMA RoundedType ==
  ASSUME NEW a \in Nat, NEW b \in Nat \ {0}
  PROVE  Rounded(a, b) \in Nat
<1>1. 2 * a + b \in Nat /\ 2 * b \in Nat \ {0}
  OBVIOUS
<1>2. \A x \in Nat, y \in Nat \ {0} : x \div y \in Nat
  OBVIOUS
<1>3. QED
  BY <1>1, <1>2 DEF Rounded

LEMMA Products == \A a, b \in Nat : a * b \in Nat
OBVIOUS

LEMMA AmountType ==
  ASSUME TypeOK, NEW base \in Nat, NEW n \in DOMAIN components,
         components[n].item \in DOMAIN items
  PROVE  Amount(base, components[n]) \in Nat
<1> DEFINE component == components[n]
           item == items[component.item]
           amount == IF item.percentage THEN Rounded(base * component.value, 100) ELSE component.value
<1>1. component \in Component /\ item \in Item
  BY DEF TypeOK
<1>2. component.value \in Nat /\ item.cap \in Int
  BY <1>1 DEF Component, Item
<1>3. Rounded(base * component.value, 100) \in Nat
  BY <1>2, Products, RoundedType
<1>4. amount \in Nat
  BY <1>2, <1>3
<1>5. Amount(base, component) = IF item.cap < 0 THEN amount ELSE Smaller(amount, item.cap)
  BY DEF Amount
<1> HIDE DEF amount, item, component
<1>6. Amount(base, component) \in Nat
  BY <1>2, <1>4, <1>5 DEF Smaller
<1>7. QED
  BY <1>6 DEF component

LEMMA TotalType ==
  ASSUME TypeOK, ComponentsSound, NEW base \in Nat, NEW parts \in SUBSET DOMAIN components
  PROVE  Total(base, parts) \in Nat
<1> DEFINE g == [n \in parts |-> Amount(base, components[n])]
           Adds(f) == f = [s \in SUBSET parts |->
                             IF s = {} THEN 0
                             ELSE Amount(base, components[CHOOSE x \in s : TRUE])
                                    + f[s \ {CHOOSE x \in s : TRUE}]]
<1>0. IsFiniteSet(parts)
  <2>1. components \in Seq(Component)
    BY DEF TypeOK
  <2>2. Len(components) \in Nat /\ DOMAIN components = 1 .. Len(components)
    BY <2>1
  <2>3. IsFiniteSet(1 .. Len(components))
    BY <2>2, FS_Interval
  <2>4. QED
    BY <2>2, <2>3, FS_Subset
<1>1. \A n \in parts : g[n] \in Nat
  BY AmountType DEF ComponentsSound
<1>2. ASSUME NEW f
      PROVE  Adds(f) <=> AddsUp(f, g, SUBSET parts)
  <2>1. \A s \in SUBSET parts : s # {} =>
          g[CHOOSE x \in s : TRUE] = Amount(base, components[CHOOSE x \in s : TRUE])
    OBVIOUS
  <2> HIDE DEF g
  <2>2. QED
    BY <2>1 DEF AddsUp, Taken
<1>3. PICK solution : AddsUp(solution, g, SUBSET parts)
  BY <1>0, SumExists
<1>4. Adds(CHOOSE f : Adds(f))
  <2>1. Adds(solution)
    BY <1>2, <1>3
  <2> HIDE DEF Adds
  <2>2. QED
    BY <2>1
<1>5. Total(base, parts) = (CHOOSE f : Adds(f))[parts]
  BY Zenon DEF Total, MapThenSumSet, MapThenFoldSet
<1>6. AddsUp(CHOOSE f : Adds(f), g, SUBSET parts)
  BY <1>2, <1>4
<1> HIDE DEF Adds, g
<1>7. QED
  BY <1>0, <1>1, <1>5, <1>6, SumTyped

LEMMA HolidayPayType ==
  ASSUME TypeOK, NEW snapshot \in Snapshot, IsFiniteSet(snapshot), NEW n \in DOMAIN profiles,
         NEW found \in SUBSET DOMAIN rules
  PROVE  HolidayPay(snapshot, n, found) \in Nat
<1>1. CASE profiles[n].overtime /\ found # {}
  <2> DEFINE rule == rules[CHOOSE m \in found : TRUE]
  <2>1. rule \in Rule /\ profiles[n] \in Profile
    BY <1>1 DEF TypeOK
  <2>2. /\ rule.multiplier \in Nat /\ profiles[n].base \in Nat
        /\ profiles[n].standard \in Nat \ {0}
    BY <2>1 DEF Rule, Profile
  <2>3. HolidayMinutes(snapshot) \in Nat
    BY HolidayMinutesType
  <2>4. HolidayPay(snapshot, n, found)
          = Rounded(profiles[n].base * HolidayMinutes(snapshot) * rule.multiplier,
                    profiles[n].standard)
    BY <1>1 DEF HolidayPay
  <2> HIDE DEF rule
  <2>5. QED
    BY <2>2, <2>3, <2>4, Products, RoundedType
<1>2. CASE ~(profiles[n].overtime /\ found # {})
  BY <1>2 DEF HolidayPay
<1>3. QED
  BY <1>1, <1>2

LEMMA LineType ==
  ASSUME TypeOK, TablesSound, ComponentsSound, NEW snapshot \in Snapshot, IsFiniteSet(snapshot),
         NEW n \in DOMAIN profiles, NEW policy \in DOMAIN policies,
         NEW found \in SUBSET DOMAIN rules, NEW line \in LineFrom(snapshot, n, policy, found)
  PROVE  line \in Line
<1> DEFINE base == profiles[n].base
<1>1. profiles[n] \in Profile /\ policies[policy] \in Policy /\ ValidSlabs(policies[policy].slabs)
  BY DEF TypeOK, TablesSound
<1>2. base \in Nat
  BY <1>1 DEF Profile
<1>3. n \in Nat /\ policy \in Nat
  BY DEF TypeOK
<1>4. HolidayPay(snapshot, n, found) \in Nat
  BY HolidayPayType
<1>5. \A kind, taxed : Total(base, Parts(n, kind, taxed)) \in Nat
  BY <1>2, TotalType DEF Parts
<1>6. Gross(snapshot, n, found) \in Nat
  BY <1>2, <1>4, <1>5 DEF Gross
<1>7. Deductions(n) \in Nat
  BY <1>5 DEF Deductions
<1>8. Taxable(snapshot, n, found) \in Nat
  BY <1>2, <1>4, <1>5 DEF Taxable, NotBelowZero
<1>9. PeriodTax(policies[policy], Taxable(snapshot, n, found)) \in Nat
  <2>1. Taxable(snapshot, n, found) * AnnualPeriods \in Nat
    BY <1>8 DEF AnnualPeriods
  <2>2. ProgressiveTax(policies[policy], Taxable(snapshot, n, found) * AnnualPeriods) \in Nat
    BY <1>1, <2>1, ProgressiveStep
  <2>3. QED
    BY <2>2, RoundedType DEF PeriodTax, AnnualPeriods
<1>10. line = [attendance |-> snapshot, profile |-> n, policy |-> policy,
               gross |-> Gross(snapshot, n, found), deductions |-> Deductions(n),
               tax |-> PeriodTax(policies[policy], Taxable(snapshot, n, found))]
  BY DEF LineFrom
<1>11. QED
  BY <1>3, <1>6, <1>7, <1>9, <1>10 DEF Line

-----------------------------------------------------------------------------
(***************************************************************************)
(* Types.                                                                  *)
(***************************************************************************)

\* What the types rest on: snapshots are of finitely many days.
SnapshotsFinite ==
  /\ \A n \in DOMAIN reviews : IsFiniteSet(reviews[n].snapshot)
  /\ \A c \in Calls : \A q :
       q = calls[c] /\ Running(c) /\ q.op = "review" => IsFiniteSet(q.new.snapshot)

TypesInv == TypeOK /\ ComponentsSound /\ SnapshotsFinite

LEMMA LinesForType ==
  ASSUME TypesInv, TablesSound, NEW p \in DOMAIN periods, NEW e \in Employees,
         NEW line \in LinesFor(p, e)
  PROVE  line \in Line
<1>1. PICK n \in ReviewsOf(p, e), profile \in ProfilesOn(e, periods[p].last), policy \in DOMAIN policies :
        line \in LineFrom(reviews[n].snapshot, profile, policy, RulesOn(e, periods[p].last))
  BY DEF LinesFor
<1>2. n \in DOMAIN reviews /\ profile \in DOMAIN profiles
  BY DEF ReviewsOf, ProfilesOn, LatestOf
<1>3. reviews[n].snapshot \in Snapshot /\ IsFiniteSet(reviews[n].snapshot)
  <2>1. reviews[n] \in Review
    BY <1>2 DEF TypesInv, TypeOK
  <2>2. QED
    BY <1>2, <2>1 DEF Review, TypesInv, SnapshotsFinite
<1>4. RulesOn(e, periods[p].last) \in SUBSET DOMAIN rules
  BY DEF RulesOn, LatestOf
<1>5. QED
  BY <1>1, <1>2, <1>3, <1>4, LineType DEF TypesInv

\* A period has finitely many days.
LEMMA RecordedFinite ==
  ASSUME TypeOK, NEW p \in DOMAIN periods, NEW e \in Employees
  PROVE  LET snapshot == {<<d, attendance[e][d]>> : d \in RecordedIn(p, e)}
         IN  IsFiniteSet(snapshot) /\ snapshot \in Snapshot
<1> DEFINE days == RecordedIn(p, e)
           snapshot == {<<d, attendance[e][d]>> : d \in days}
           f == [d \in days |-> <<d, attendance[e][d]>>]
<1>1. periods[p] \in Period
  BY DEF TypeOK
<1>2. periods[p].first \in Int /\ periods[p].last \in Int /\ Days \subseteq Int
  BY <1>1, PreparationAssumption DEF Period
<1>3. days \subseteq periods[p].first .. periods[p].last
  <2>1. ASSUME NEW d \in days
        PROVE  d \in periods[p].first .. periods[p].last
    <3>1. d \in Days /\ periods[p].first <= d /\ d <= periods[p].last
      BY DEF RecordedIn, Covers
    <3>2. QED
      BY <1>2, <3>1
  <2>2. QED
    BY <2>1
<1>4. IsFiniteSet(days)
  <2>1. IsFiniteSet(periods[p].first .. periods[p].last)
    BY <1>2, FS_Interval
  <2> HIDE DEF days
  <2>2. QED
    BY <1>3, <2>1, FS_Subset
<1>5. f \in Surjection(days, snapshot)
  BY DEF Surjection
<1>6. IsFiniteSet(snapshot)
  <2> HIDE DEF f, snapshot, days
  <2>1. QED
    BY <1>4, <1>5, FS_Surjection
<1>7. \A d \in days : d \in Days /\ attendance[e][d] \in Record
  BY DEF RecordedIn, TypeOK
<1>8. snapshot \in Snapshot
  BY <1>7 DEF Snapshot
<1>9. QED
  BY <1>6, <1>8

LEMMA CallTyped ==
  ASSUME TypesInv, NEW c \in Calls, Running(c)
  PROVE  /\ calls[c] \in Call
         /\ calls[c].op = "review" => calls[c].new \in Review /\ IsFiniteSet(calls[c].new.snapshot)
         /\ calls[c].op = "generate" => calls[c].row \in Run
<1>1. calls[c] \in Call
  BY DEF TypesInv, TypeOK, Running
<1>2. calls[c].op = "review" => calls[c].new \in Review
  BY <1>1 DEF Call
<1>3. calls[c].op = "generate" => calls[c].row \in Run
  BY <1>1 DEF Call
<1>4. QED
  BY <1>1, <1>2, <1>3 DEF TypesInv, SnapshotsFinite

\* What is left to show of a step, once the tables that hold no amounts are typed.
LEMMA TypesRest ==
  ASSUME PreparationInv', items' \in Seq(Item), components' \in Seq(Component),
         rules' \in Seq(Rule), runs' \in Seq(Run), calls' \in [Calls -> Call \cup {NoCall}],
         writes' \in 0 .. MaxWrites, overlaps' \in 0 .. MaxOverlaps, overtaken' \subseteq Calls,
         ComponentsSound', SnapshotsFinite'
  PROVE  TypesInv'
BY DEF TypesInv, TypeOK, PreparationInv, TablesShape

LEMMA BeginTyped ==
  ASSUME TypesInv, PreparationInv', NEW c \in Calls, NEW call \in Call, Begin(c, call),
         call.op = "review" => IsFiniteSet(call.new.snapshot)
  PROVE  TypesInv'
<1>1. /\ calls' = [calls EXCEPT ![c] = call] /\ overtaken' = overtaken \ {c}
      /\ UNCHANGED <<items, components, profiles, rules, reviews, runs, writes, overlaps>>
  BY DEF Begin, tables, catalog
<1>2. calls' \in [Calls -> Call \cup {NoCall}]
      /\ \A d \in Calls : calls'[d] = IF d = c THEN call ELSE calls[d]
  BY <1>1 DEF TypesInv, TypeOK
<1>3. SnapshotsFinite'
  BY <1>1, <1>2 DEF TypesInv, SnapshotsFinite, Running
<1>4. ComponentsSound'
  BY <1>1 DEF TypesInv, ComponentsSound
<1>5. QED
  BY <1>1, <1>2, <1>3, <1>4, TypesRest DEF TypesInv, TypeOK

\* Calls of which Call says the type.
LEMMA PrepareTyped ==
  ASSUME TypesInv, PreparationInv, PreparationInv', NEW c \in Calls, Prepare(c)
  PROVE  TypesInv'
<1>0. /\ TablesShape /\ TablesSound /\ CallsShape
      /\ \A y \in DOMAIN years : y \in Nat
      /\ \A p \in DOMAIN periods : p \in Nat
      /\ \A n \in DOMAIN policies : n \in Nat
      /\ \A n \in DOMAIN reviews : reviews[n] \in Review
  BY RowTypes DEF PreparationInv
<1>1. ASSUME NEW user \in Users, NEW span \in YearSpans, CreateFiscalYear(c, span, user)
      PROVE  TypesInv'
  <2> DEFINE row == [first |-> span[1], last |-> span[2], status |-> "upcoming",
                     maker |-> user, opener |-> NoUser]
  <2>1. row \in Year
    BY SpanDays DEF Year
  <2>2. [op |-> "year", row |-> row] \in Call
    BY <2>1 DEF Call
  <2>3. QED
    BY <1>1, <2>2, BeginTyped DEF CreateFiscalYear
<1>2. ASSUME NEW user \in Users, NEW y \in DOMAIN years,
             NEW status \in {"active", "closed", "locked"}, TransitionFiscalYear(c, y, status, user)
      PROVE  TypesInv'
  <2>1. [op |-> "transition", year |-> y, status |-> status, user |-> user] \in Call
    BY <1>0 DEF Call
  <2>2. QED
    BY <1>2, <2>1, BeginTyped DEF TransitionFiscalYear
<1>3. ASSUME NEW user \in Users, NEW span \in PeriodSpans, NEW y \in DOMAIN years \cup {NoYear},
             NEW version \in Versions, CreatePeriod(c, span, y, version, user)
      PROVE  TypesInv'
  <2> DEFINE row == [first |-> span[1], last |-> span[2], version |-> version,
                     status |-> "open", maker |-> user, year |-> y]
  <2>1. row \in Period
    BY <1>0, SpanDays DEF Period, NoYear
  <2>2. [op |-> "period", row |-> row] \in Call
    BY <2>1 DEF Call
  <2>3. QED
    BY <1>3, <2>2, BeginTyped DEF CreatePeriod
<1>4. ASSUME NEW user \in Users, NEW p \in DOMAIN periods, LockPeriod(c, p, user)
      PROVE  TypesInv'
  <2>1. [op |-> "lock", period |-> p] \in Call
    BY <1>0 DEF Call
  <2>2. QED
    BY <1>4, <2>1, BeginTyped DEF LockPeriod
<1>5. ASSUME NEW user \in Users, NEW n \in DOMAIN policies, ConfirmTaxSlabSet(c, n, user)
      PROVE  TypesInv'
  <2>1. PICK call : Begin(c, call) /\ call.op = "confirm" /\ call = [op |-> "confirm", policy |-> n, user |-> user, at |-> call.at]
    BY <1>5 DEF ConfirmTaxSlabSet
  <2>2. call.at \in Nat
    <3>1. PICK same : Begin(c, same) /\ CallShape(same)
      BY <1>0, <1>5, ConfirmBegins DEF Begins
    <3>2. calls'[c] = call /\ calls'[c] = same
      BY <1>0, <2>1, <3>1 DEF Begin, CallsShape
    <3>3. QED
      BY <2>1, <3>1, <3>2 DEF CallShape
  <2>3. call \in Call
    BY <1>0, <2>1, <2>2 DEF Call
  <2>4. QED
    BY <2>1, <2>3, BeginTyped
<1>6. ASSUME NEW user \in Users, NEW n \in DOMAIN reviews, NEW status \in {"approved", "rejected"},
             DecideAttendanceReview(c, n, status, user)
      PROVE  TypesInv'
  <2> DEFINE new == [reviews[n] EXCEPT !.status = status, !.reviewer = user]
             call == [op |-> "review", seen |-> reviews[n], new |-> new]
  <2>1. reviews[n] \in Review /\ new \in Review /\ new.snapshot = reviews[n].snapshot
    BY <1>0 DEF Review
  <2>2. IsFiniteSet(new.snapshot)
    BY <2>1 DEF TypesInv, SnapshotsFinite
  <2> HIDE DEF new
  <2>3. call \in Call /\ (call.op = "review" => IsFiniteSet(call.new.snapshot))
    BY <2>1, <2>2 DEF Call
  <2>4. Begin(c, call)
    BY <1>6 DEF DecideAttendanceReview, new
  <2> HIDE DEF call
  <2>5. QED
    BY <2>3, <2>4, BeginTyped
<1>7. ASSUME NEW profile \in NewProfiles, CreateCompensationProfile(c, profile)
      PROVE  TypesInv'
  <2>1. [op |-> "profile", row |-> profile] \in Call
    BY PreparationAssumption DEF Call
  <2>2. QED
    BY <1>7, <2>1, BeginTyped DEF CreateCompensationProfile
<1>8. ASSUME NEW p \in DOMAIN periods, ClosePeriod(c, p)
      PROVE  TypesInv'
  <2>1. [op |-> "close", period |-> p] \in Call
    BY <1>0 DEF Call
  <2>2. QED
    BY <1>8, <2>1, BeginTyped DEF ClosePeriod
<1>9. ASSUME NEW p \in DOMAIN periods, NEW e \in Employees, PrepareAttendanceReview(c, p, e)
      PROVE  TypesInv'
  <2> DEFINE snapshot == {<<d, attendance[e][d]>> : d \in RecordedIn(p, e)}
             new == [period |-> p, employee |-> e, status |-> "pending", reviewer |-> NoUser,
                     snapshot |-> snapshot]
  <2>1. snapshot \in Snapshot /\ IsFiniteSet(snapshot)
    BY RecordedFinite DEF TypesInv
  <2>2. PICK seen \in Review \cup {NoReview} :
          Begin(c, [op |-> "review", seen |-> seen, new |-> new])
    BY <1>0, <1>9 DEF PrepareAttendanceReview, ReviewsOf
  <2> HIDE DEF snapshot
  <2>3. new \in Review /\ new.snapshot = snapshot
    BY <1>0, <2>1 DEF Review
  <2> HIDE DEF new
  <2> DEFINE call == [op |-> "review", seen |-> seen, new |-> new]
  <2>4. call \in Call /\ (call.op = "review" => IsFiniteSet(call.new.snapshot))
    BY <2>1, <2>2, <2>3 DEF Call
  <2>5. QED
    BY <2>2, <2>4, BeginTyped
<1>10. ASSUME NEW p \in DOMAIN periods, NEW staff \in SUBSET Employees \ {{}},
              GenerateRun(c, p, staff)
       PROVE  TypesInv'
  <2>1. PICK lines \in [Employees -> {NoLine} \cup UNION {LinesFor(p, e) : e \in staff}] :
          Begin(c, [op |-> "generate", row |-> [period |-> p, lines |-> lines, settled |-> FALSE]])
    BY <1>10 DEF GenerateRun
  <2>2. \A e \in Employees : lines[e] \in Line \cup {NoLine}
    BY <1>0, <2>1, LinesForType
  <2>3. lines \in [Employees -> Line \cup {NoLine}]
    BY <2>2
  <2> DEFINE row == [period |-> p, lines |-> lines, settled |-> FALSE]
  <2>4. row \in Run
    BY <1>0, <2>3 DEF Run
  <2>5. [op |-> "generate", row |-> row] \in Call
    BY <2>4 DEF Call
  <2>6. QED
    BY <2>1, <2>5, BeginTyped
<1>11. QED
  BY <1>1, <1>2, <1>3, <1>4, <1>5, <1>6, <1>7, <1>8, <1>9, <1>10 DEF Prepare

\* What is left to show of a call that writes.
LEMMA CommitTyped ==
  ASSUME TypesInv, PreparationInv', NEW c \in Calls, NEW op, Ready(c, op), Committed(c),
         UNCHANGED <<items, components, rules>>, DOMAIN profiles \subseteq DOMAIN profiles',
         \A n \in DOMAIN reviews' : IsFiniteSet(reviews'[n].snapshot), runs' \in Seq(Run)
  PROVE  TypesInv'
<1>1. /\ calls' \in [Calls -> Call \cup {NoCall}]
      /\ \A d \in Calls : calls'[d] = IF d = c THEN NoCall ELSE calls[d]
  BY DEF Committed, TypesInv, TypeOK
<1>2. SnapshotsFinite'
  BY <1>1 DEF TypesInv, SnapshotsFinite, Running
<1>3. ComponentsSound'
  BY DEF TypesInv, ComponentsSound
<1>4. writes' \in 0 .. MaxWrites /\ overlaps' \in 0 .. MaxOverlaps /\ overtaken' \subseteq Calls
  BY PreparationAssumption DEF Committed, Ready, TypesInv, TypeOK
<1>5. items' \in Seq(Item) /\ components' \in Seq(Component) /\ rules' \in Seq(Rule)
  BY DEF TypesInv, TypeOK
<1>6. QED
  BY <1>1, <1>2, <1>3, <1>4, <1>5, TypesRest

LEMMA WriteTyped ==
  ASSUME TypesInv, PreparationInv, PreparationInv', NEW c \in Calls, Write(c)
  PROVE  TypesInv'
<1> DEFINE q == calls[c]
<1>0. /\ runs \in Seq(Run) /\ \A n \in DOMAIN reviews : IsFiniteSet(reviews[n].snapshot)
      /\ profiles \in Seq(Profile) /\ reviews \in Seq(Review)
  BY DEF TypesInv, TypeOK, SnapshotsFinite
<1>1. CASE \/ WriteYear(c) \/ WriteTransition(c) \/ WritePeriod(c) \/ WriteLock(c)
           \/ WriteClose(c) \/ WriteConfirmation(c)
  <2>1. /\ Committed(c) /\ UNCHANGED <<items, components, rules, profiles, reviews, runs>>
        /\ \E op : Ready(c, op)
    BY <1>1 DEF WriteYear, WriteTransition, WritePeriod, WriteLock, WriteClose,
                WriteConfirmation, catalog
  <2>2. QED
    BY <1>0, <2>1, CommitTyped
<1>2. CASE WriteProfile(c)
  <2>1. /\ Committed(c) /\ UNCHANGED <<items, components, rules, reviews, runs>>
        /\ Ready(c, "profile") /\ profiles' = Append(profiles, q.row)
    BY <1>2 DEF WriteProfile
  <2>2. DOMAIN profiles \subseteq DOMAIN profiles'
    BY <1>0, <2>1, Appended
  <2>3. QED
    BY <1>0, <2>1, <2>2, CommitTyped
<1>3. CASE WriteReview(c)
  <2> DEFINE mine == ReviewsOf(q.new.period, q.new.employee)
             written(now) == [f \in DOMAIN now |-> IF q.new[f] = q.seen[f] THEN now[f] ELSE q.new[f]]
  <2>1. /\ Committed(c) /\ UNCHANGED <<items, components, rules, profiles, runs>>
        /\ Ready(c, "review")
        /\ reviews' = IF q.seen = NoReview THEN Append(reviews, q.new)
                      ELSE [n \in DOMAIN reviews |->
                              IF n \in mine THEN written(reviews[n]) ELSE reviews[n]]
    BY <1>3 DEF WriteReview, catalog
  <2>2. q.new \in Review /\ IsFiniteSet(q.new.snapshot)
    BY <2>1, CallTyped DEF Ready, Running
  <2>3. \A n \in DOMAIN reviews :
          written(reviews[n]).snapshot \in {reviews[n].snapshot, q.new.snapshot}
    <3>1. ASSUME NEW now \in Review
          PROVE  written(now).snapshot \in {now.snapshot, q.new.snapshot}
      BY DEF Review
    <3>2. \A n \in DOMAIN reviews : reviews[n] \in Review
      BY <1>0
    <3> HIDE DEF written
    <3>3. QED
      BY <3>1, <3>2
  <2> HIDE DEF written
  <2>4. ASSUME NEW n \in DOMAIN reviews'
        PROVE  IsFiniteSet(reviews'[n].snapshot)
    <3>1. CASE q.seen = NoReview
      <4>1. \/ n \in DOMAIN reviews /\ reviews'[n] = reviews[n]
            \/ reviews'[n] = q.new
        BY <1>0, <2>1, <2>4, <3>1, Appended
      <4>2. QED
        BY <1>0, <2>2, <4>1
    <3>2. CASE q.seen # NoReview
      <4>1. n \in DOMAIN reviews /\ reviews'[n] \in {written(reviews[n]), reviews[n]}
        BY <2>1, <2>4, <3>2
      <4>2. reviews'[n].snapshot \in {reviews[n].snapshot, q.new.snapshot}
        BY <2>3, <4>1
      <4>3. QED
        BY <1>0, <2>2, <4>1, <4>2
    <3>3. QED
      BY <3>1, <3>2
  <2>5. QED
    BY <1>0, <2>1, <2>4, CommitTyped
<1>4. CASE WriteRun(c)
  <2>1. /\ Committed(c) /\ UNCHANGED <<items, components, rules, profiles, reviews>>
        /\ Ready(c, "generate") /\ runs' = Append(runs, q.row)
    BY <1>4 DEF WriteRun, catalog
  <2>2. q.row \in Run
    BY <2>1, CallTyped DEF Ready, Running
  <2>3. runs' \in Seq(Run)
    BY <1>0, <2>1, <2>2
  <2>4. QED
    BY <1>0, <2>1, <2>3, CommitTyped
<1>5. CASE Abandon(c)
  <2>1. /\ UNCHANGED <<items, components, profiles, rules, reviews, runs, writes, overlaps>>
        /\ calls' = [calls EXCEPT ![c] = NoCall] /\ overtaken' = overtaken \ {c}
    BY <1>5 DEF Abandon, tables, catalog
  <2>2. /\ calls' \in [Calls -> Call \cup {NoCall}]
        /\ \A d \in Calls : calls'[d] = IF d = c THEN NoCall ELSE calls[d]
    BY <2>1 DEF TypesInv, TypeOK
  <2>3. SnapshotsFinite'
    BY <2>1, <2>2 DEF TypesInv, SnapshotsFinite, Running
  <2>4. ComponentsSound'
    BY <2>1 DEF TypesInv, ComponentsSound
  <2>5. QED
    BY <2>1, <2>2, <2>3, <2>4, TypesRest DEF TypesInv, TypeOK
<1>6. QED
  BY <1>1, <1>2, <1>3, <1>4, <1>5 DEF Write

\* What is left to show of a change of one step.
LEMMA ChangedTyped ==
  ASSUME TypesInv, PreparationInv', Changed, UNCHANGED <<profiles, reviews>>,
         items' \in Seq(Item), components' \in Seq(Component), rules' \in Seq(Rule),
         runs' \in Seq(Run), ComponentsSound'
  PROVE  TypesInv'
<1>1. SnapshotsFinite'
  BY DEF Changed, TypesInv, SnapshotsFinite, Running
<1>2. /\ writes' \in 0 .. MaxWrites /\ overlaps' \in 0 .. MaxOverlaps /\ overtaken' \subseteq Calls
      /\ calls' \in [Calls -> Call \cup {NoCall}]
  BY PreparationAssumption DEF Changed, TypesInv, TypeOK
<1>3. QED
  BY <1>1, <1>2, TypesRest

LEMMA ConfigureTyped ==
  ASSUME TypesInv, PreparationInv, PreparationInv', Configure
  PROVE  TypesInv'
<1>0. /\ items \in Seq(Item) /\ components \in Seq(Component) /\ rules \in Seq(Rule)
      /\ runs \in Seq(Run) /\ profiles \in Seq(Profile) /\ ComponentsSound
  BY DEF TypesInv, TypeOK
<1>1. ASSUME NEW item \in NewItems, CreateItem(item)
      PROVE  TypesInv'
  <2>1. /\ items' = Append(items, item) /\ Changed
        /\ UNCHANGED <<profiles, components, rules, reviews, runs>>
    BY <1>1 DEF CreateItem
  <2>2. items' \in Seq(Item) /\ DOMAIN items \subseteq DOMAIN items'
    BY <1>0, <2>1, Appended, PreparationAssumption
  <2>3. ComponentsSound'
    BY <1>0, <2>1, <2>2 DEF ComponentsSound
  <2>4. QED
    BY <1>0, <2>1, <2>2, <2>3, ChangedTyped
<1>2. ASSUME NEW profile \in DOMAIN profiles, NEW item \in DOMAIN items, NEW value \in NewValues,
             AddComponent(profile, item, value)
      PROVE  TypesInv'
  <2> DEFINE row == [profile |-> profile, item |-> item, value |-> value]
  <2>1. /\ components' = Append(components, row) /\ Changed
        /\ UNCHANGED <<items, profiles, rules, reviews, runs>>
    BY <1>2 DEF AddComponent
  <2>2. row \in Component
    BY <1>0, PreparationAssumption DEF Component
  <2>3. components' \in Seq(Component)
    BY <1>0, <2>1, <2>2
  <2>4. row.profile = profile /\ row.item = item
    OBVIOUS
  <2> HIDE DEF row
  <2>5. ComponentsSound'
    <3>1. ASSUME NEW n \in DOMAIN components'
          PROVE  components'[n] = row \/ (n \in DOMAIN components /\ components'[n] = components[n])
      BY <1>0, <2>1, Appended
    <3>2. QED
      BY <1>0, <2>1, <2>4, <3>1 DEF ComponentsSound
  <2>6. QED
    BY <1>0, <2>1, <2>3, <2>5, ChangedTyped
<1>3. ASSUME NEW rule \in NewRules, CreateRule(rule)
      PROVE  TypesInv'
  <2>1. /\ rules' = Append(rules, rule) /\ Changed
        /\ UNCHANGED <<items, profiles, components, reviews, runs>>
    BY <1>3 DEF CreateRule
  <2>2. rules' \in Seq(Rule)
    BY <1>0, <2>1, PreparationAssumption
  <2>3. ComponentsSound'
    BY <1>0, <2>1 DEF ComponentsSound
  <2>4. QED
    BY <1>0, <2>1, <2>2, <2>3, ChangedTyped
<1>4. CASE \/ \E entry \in NewPolicies, user \in Users : CreateTaxSlabSet(entry, user)
           \/ \E e \in Employees, d \in WorkDays, record \in Record : Calculate(e, d, record)
  <2>1. Changed /\ UNCHANGED <<items, profiles, components, rules, reviews, runs>>
    BY <1>4 DEF CreateTaxSlabSet, Calculate, catalog
  <2>2. ComponentsSound'
    BY <1>0, <2>1 DEF ComponentsSound
  <2>3. QED
    BY <1>0, <2>1, <2>2, ChangedTyped
<1>5. ASSUME NEW r \in DOMAIN runs, Settle(r)
      PROVE  TypesInv'
  <2>1. /\ runs' = [runs EXCEPT ![r].settled = TRUE] /\ Changed
        /\ UNCHANGED <<items, profiles, components, rules, reviews>>
    BY <1>5 DEF Settle, catalog
  <2>2. [runs[r] EXCEPT !.settled = TRUE] \in Run
    <3>1. runs[r] \in Run
      BY <1>0
    <3>2. QED
      BY <3>1 DEF Run
  <2>3. runs' \in Seq(Run)
    BY <1>0, <2>1, <2>2
  <2>4. ComponentsSound'
    BY <1>0, <2>1 DEF ComponentsSound
  <2>5. QED
    BY <1>0, <2>1, <2>3, <2>4, ChangedTyped
<1>6. QED
  BY <1>1, <1>2, <1>3, <1>4, <1>5 DEF Configure

LEMMA InitTyped == Init => TypesInv
<1> SUFFICES ASSUME Init PROVE TypesInv
  OBVIOUS
<1>1. TypeOK
  BY FirstTypeAssumption, PreparationAssumption DEF Init, TypeOK
<1>2. ComponentsSound /\ SnapshotsFinite
  BY DEF Init, ComponentsSound, SnapshotsFinite, Running
<1>3. QED
  BY <1>1, <1>2 DEF TypesInv

\* The tables, the calls and the lines of runs keep their types: the amounts of
\* a line, which sum what the components of a profile and the holidays of a
\* period are worth, are numbers that are not negative, whatever calls overlap.
THEOREM TypeCorrect == Spec => []TypeOK
<1>1. TypesInv /\ PreparationInv /\ PreparationInv' /\ [Next]_vars => TypesInv'
  <2> SUFFICES ASSUME TypesInv, PreparationInv, PreparationInv', [Next]_vars
               PROVE  TypesInv'
    OBVIOUS
  <2>1. CASE UNCHANGED vars
    BY <2>1 DEF vars, tables, catalog, TypesInv, TypeOK, ComponentsSound, SnapshotsFinite, Running
  <2>2. CASE Next
    BY <2>2, PrepareTyped, WriteTyped, ConfigureTyped DEF Next
  <2>3. QED
    BY <2>1, <2>2
<1>2. TypesInv => TypeOK
  BY DEF TypesInv
<1>3. QED
  BY <1>1, <1>2, InitTyped, Invariant, PTL DEF Spec
=============================================================================

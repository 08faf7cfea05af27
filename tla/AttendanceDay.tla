----------------------------- MODULE AttendanceDay -----------------------------
(***************************************************************************)
(* Manual evidence, imports, period locks and calculated days of one       *)
(* employee.                                                               *)
(*                                                                         *)
(* A call of the API is one READ COMMITTED transaction without row locks:  *)
(* a Begin, which reads and checks, and an action that writes and commits. *)
(* Unique and check constraints make a write fail; then only Abandon is    *)
(* left.  Devices, calendar, leave and workforce change what the engine    *)
(* reads at any time.                                                      *)
(***************************************************************************)
EXTENDS AttendanceRules, Functions

CONSTANTS
  Users,          \* people with the permissions of attendance
  Calls,          \* API calls that can be running at the same time
  LastDay,        \* the days are 1 .. LastDay
  Claims,         \* what manual evidence may say: an instant and a type
  Sightings,      \* what a device may report: an instant and a type
  Sheets,         \* workbooks, told apart by the hash of their content
  Rows,           \* the claims in each workbook
  Faulty,         \* workbooks with a row that is invalid for any other reason
  Shifts,         \* shifts that can be assigned
  FirstShift,     \* the shift of every day at first
  Contexts,       \* what calendar, leave and field duty can say of a day
  FirstContext,   \* what they say of every day at first
  Policies,       \* policies the organization can choose
  MaxEvents,      \* bound: manual events
  MaxLocks,       \* bound: period locks
  MaxRevision,    \* bound: revisions of the record of a day
  MaxChanges,     \* bound: changes of the engine's inputs from outside
  MaxCalls,       \* bound: calls that begin
  MaxOverlaps,    \* bound: writes of calls that others have overtaken
  NoOne, NoSheet, NoRow, NoCall

Days == 1 .. LastDay
Claim == [at : Nat, type : {"in", "out"}]

ASSUME InputsAssumption ==
  /\ Claims \subseteq Claim
  /\ Sightings \subseteq Claim
  /\ IsFiniteSet(Sightings)
  /\ Rows \in [Sheets -> SUBSET Claims]
  /\ Faulty \subseteq Sheets
  /\ Shifts \subseteq Shift
  /\ FirstShift \in Shifts \cup {NoShift}
  /\ Contexts \subseteq Context
  /\ FirstContext \in Contexts
  /\ Policies \subseteq Policy

ASSUME BoundsAssumption ==
  /\ LastDay \in Nat
  /\ MaxEvents \in Nat
  /\ MaxLocks \in Nat
  /\ MaxRevision \in Nat
  /\ MaxChanges \in Nat
  /\ MaxCalls \in Nat
  /\ MaxOverlaps \in Nat

EventIds == 1 .. MaxEvents
LockIds == 1 .. MaxLocks

\* A row of manual_attendance_events; sheet and the claim name its import row.
ManualEvent ==
  [claim : Claims, status : {"pending", "approved", "rejected", "revoked"},
   requester : Users, decider : Users \cup {NoOne}, sheet : Sheets \cup {NoSheet}]

\* A row of attendance_import_sessions with its valid rows.
ImportSession ==
  [status : {"preview", "applied"}, requester : Users, strict : BOOLEAN,
   valid : SUBSET Claims, invalid : BOOLEAN]

\* A row of attendance_period_locks.
PeriodLock == [status : {"locked", "reopened"}, from : Days, to : Days]

\* What a calculation reads.
Reading ==
  [events : {S \in SUBSET Event : IsFiniteSet(S)}, shift : Shifts \cup {NoShift},
   policy : Policies, context : Contexts, day : Days]

Columns ==
  {"checkIn", "checkOut", "status", "worked", "late", "dayStatus", "regular", "holiday",
   "count", "duplicates", "fingerprint", "revision"}

\* A row of attendance_records with its attendance_record_details.
Record ==
  [checkIn : Nat \cup {NoTime}, checkOut : Nat \cup {NoTime},
   status : {"present", "partial", "absent"}, worked : Nat, late : Nat,
   dayStatus : {"present", "partial", "absent", "field_duty", "leave", "holiday",
                "weekly_off"},
   regular : Nat, holiday : Nat, count : Nat, duplicates : Nat,
   fingerprint : Days \X (Shifts \cup {NoShift}) \X Nat \X Nat \X Nat \X (SUBSET Event)
                 \X Contexts,
   revision : 1 .. MaxRevision]

\* A running call: what it was asked to do, and what it has read and will use
\* again.
Call ==
  [op : {"request"}, user : Users, claim : Claims, approved : BOOLEAN]
  \cup [op : {"decide"}, user : Users, event : EventIds, approve : BOOLEAN]
  \cup [op : {"revoke"}, event : EventIds]
  \cup [op : {"preview"}, sheet : Sheets, session : ImportSession]
  \cup [op : {"apply"}, user : Users, sheet : Sheets]
  \cup [op : {"lock"}, from : Days, to : Days]
  \cup [op : {"reopen"}, lock : LockIds]
  \cup [op : {"calculate"}, day : Days, read : Reading, record : Record \cup {NoRow}]

ASSUME NoneAssumption ==
  /\ NoOne \notin Users
  /\ NoSheet \notin Sheets
  /\ NoRow \notin ManualEvent \cup ImportSession \cup PeriodLock \cup Record \cup Reading
  /\ NoCall \notin Call
  /\ NoShift \notin Shifts

VARIABLES
  policy,      \* the attendance_policies row
  locks,       \* attendance_period_locks
  events,      \* manual_attendance_events
  sheets,      \* attendance_import_sessions
  records,     \* attendance_records with their details, by day
  punches,     \* raw punches of the employee
  shift,       \* the effective shift of each day
  context,     \* holidays, leave and field duty of each day
  calls,       \* the running calls
  answers,     \* history: what the last calculation of each day has read
  relaxed,     \* history: approval was not required at some time
  changes,     \* history: changes of policy, punches, shifts and contexts
  begun,       \* history: how many calls have begun
  overtaken,   \* history: calls that run since before the last write of another
  overlaps     \* history: how many calls have written after they were overtaken

tables == <<locks, events, sheets, records>>
inputs == <<policy, punches, shift, context, relaxed, changes>>
vars == <<tables, inputs, calls, answers, begun, overtaken, overlaps>>

TypeOK ==
  /\ policy \in Policies
  /\ locks \in [LockIds -> PeriodLock \cup {NoRow}]
  /\ events \in [EventIds -> ManualEvent \cup {NoRow}]
  /\ sheets \in [Sheets -> ImportSession \cup {NoRow}]
  /\ records \in [Days -> Record \cup {NoRow}]
  /\ punches \subseteq Sightings
  /\ shift \in [Days -> Shifts \cup {NoShift}]
  /\ context \in [Days -> Contexts]
  /\ calls \in [Calls -> Call \cup {NoCall}]
  /\ answers \in [Days -> Reading \cup {NoRow}]
  /\ relaxed \in BOOLEAN
  /\ changes \in 0 .. MaxChanges
  /\ begun \in 0 .. MaxCalls
  /\ overtaken \subseteq Calls
  /\ overlaps \in 0 .. MaxOverlaps

Init ==
  /\ policy \in {p \in Policies : p.approval}
  /\ locks = [l \in LockIds |-> NoRow]
  /\ events = [n \in EventIds |-> NoRow]
  /\ sheets = [s \in Sheets |-> NoRow]
  /\ records = [d \in Days |-> NoRow]
  /\ punches = {}
  /\ shift = [d \in Days |-> FirstShift]
  /\ context = [d \in Days |-> FirstContext]
  /\ calls = [c \in Calls |-> NoCall]
  /\ answers = [d \in Days |-> NoRow]
  /\ relaxed = FALSE
  /\ changes = 0
  /\ begun = 0
  /\ overtaken = {}
  /\ overlaps = 0

-----------------------------------------------------------------------------
(***************************************************************************)
(* What the calls read and check.                                          *)
(***************************************************************************)

Active(l) == locks[l] # NoRow /\ locks[l].status = "locked"

\* active_lock, is_locked
Locked(d) == \E l \in LockIds : Active(l) /\ locks[l].from <= d /\ d <= locks[l].to

Exists(n) == events[n] # NoRow
In(n, status) == Exists(n) /\ events[n].status = status

\* Matching evidence that is pending or approved.
Claimed(claim) ==
  \E n \in EventIds : events[n] # NoRow /\ events[n].claim = claim
                        /\ events[n].status \in {"pending", "approved"}

MayRequest(claim) == ~Locked(DayOf(claim.at)) /\ ~Claimed(claim)

\* Mutant: the lock is not looked at.
MayDecideAnytime(user, n, approve) ==
  /\ In(n, "pending")
  /\ policy.approval => events[n].requester # user

\* Mutant: whoever requested the evidence approves it.
MayDecideOwn(user, n, approve) ==
  /\ In(n, "pending")
  /\ approve => ~Locked(DayOf(events[n].claim.at))

MayDecide(user, n, approve) ==
  /\ In(n, "pending")
  /\ policy.approval => events[n].requester # user
  /\ approve => ~Locked(DayOf(events[n].claim.at))

MayRevoke(n) == In(n, "approved") /\ ~Locked(DayOf(events[n].claim.at))

\* apply_import looks neither at the locks nor at matching evidence again.
MayApply(user, s) ==
  /\ sheets[s] # NoRow
  /\ sheets[s].status = "preview"
  /\ sheets[s].strict => ~sheets[s].invalid
  /\ policy.approval => sheets[s].requester # user

\* Mutant: only the first day of the new range is looked up.
MayLockFirstDay(from, to) == from <= to /\ ~Locked(from)

MayLock(from, to) ==
  /\ from <= to
  /\ \A l \in LockIds : Active(l) => locks[l].to < from \/ to < locks[l].from

MayReopen(l) == Active(l)

\* The rows of a workbook that pass the checks of the preview.
ValidRows(s) == {claim \in Rows[s] : MayRequest(claim)}

\* Device punches and approved manual evidence.
Timeline ==
  {[at |-> p.at, type |-> p.type, source |-> "device", id |-> 0] : p \in punches}
  \cup {[at |-> events[n].claim.at, type |-> events[n].claim.type, source |-> "manual",
         id |-> n] : n \in {m \in EventIds : In(m, "approved")}}

Read(d) == Inputs(Timeline, shift[d], policy, context[d], d)

-----------------------------------------------------------------------------
(***************************************************************************)
(* The steps of a call.                                                    *)
(***************************************************************************)

Idle(c) == calls[c] = NoCall

\* A call begins; when MaxOverlaps is reached calls run one at a time.
Begins(c, call) ==
  /\ Idle(c)
  /\ begun < MaxCalls
  /\ begun' = begun + 1
  /\ overlaps < MaxOverlaps \/ \A b \in Calls : Idle(b)
  /\ calls' = [calls EXCEPT ![c] = call]
  /\ overtaken' = overtaken \ {c}
  /\ UNCHANGED <<tables, inputs, overlaps>>

BeginRequest(c, user, claim) ==
  /\ MayRequest(claim)
  /\ Begins(c, [op |-> "request", user |-> user, claim |-> claim, approved |-> ~policy.approval])
  /\ UNCHANGED answers

BeginDecide(c, user, n, approve) ==
  /\ MayDecide(user, n, approve)
  /\ Begins(c, [op |-> "decide", user |-> user, event |-> n, approve |-> approve])
  /\ UNCHANGED answers

BeginRevoke(c, n) ==
  /\ MayRevoke(n)
  /\ Begins(c, [op |-> "revoke", event |-> n])
  /\ UNCHANGED answers

\* Content that was previewed before is answered from its session.
BeginPreview(c, user, s, strict) ==
  /\ sheets[s] = NoRow
  /\ Begins(c, [op |-> "preview", sheet |-> s,
                session |-> [status |-> "preview", requester |-> user, strict |-> strict,
                             valid |-> ValidRows(s),
                             invalid |-> s \in Faulty \/ ValidRows(s) # Rows[s]]])
  /\ UNCHANGED answers

BeginApply(c, user, s) ==
  /\ MayApply(user, s)
  /\ Begins(c, [op |-> "apply", user |-> user, sheet |-> s])
  /\ UNCHANGED answers

BeginLock(c, from, to) ==
  /\ MayLock(from, to)
  /\ Begins(c, [op |-> "lock", from |-> from, to |-> to])
  /\ UNCHANGED answers

BeginReopen(c, l) ==
  /\ MayReopen(l)
  /\ Begins(c, [op |-> "reopen", lock |-> l])
  /\ UNCHANGED answers

\* A calculation whose inputs have a new fingerprint will write.
BeginCalculate(c, d) ==
  /\ ~Locked(d)
  /\ records[d] # NoRow => Fingerprint(Read(d)) # records[d].fingerprint
  /\ Begins(c, [op |-> "calculate", day |-> d, read |-> Read(d), record |-> records[d]])
  /\ UNCHANGED answers

\* One whose inputs have the fingerprint of the record returns the record.
CalculateAgain(d) ==
  /\ ~Locked(d)
  /\ records[d] # NoRow
  /\ Fingerprint(Read(d)) = records[d].fingerprint
  /\ answers' = [answers EXCEPT ![d] = Read(d)]
  /\ UNCHANGED <<tables, inputs, calls, begun, overtaken, overlaps>>

Ready(c, op) ==
  /\ ~Idle(c)
  /\ calls[c].op = op
  /\ c \in overtaken => overlaps < MaxOverlaps

Committed(c) ==
  /\ calls' = [calls EXCEPT ![c] = NoCall]
  /\ overtaken' = {b \in Calls \ {c} : ~Idle(b)}
  /\ overlaps' = IF c \in overtaken THEN overlaps + 1 ELSE overlaps
  /\ UNCHANGED <<inputs, begun>>

\* New rows take the next free ids.
NextEvent(n) == n \in EventIds /\ ~Exists(n) /\ \A m \in EventIds : m < n => Exists(m)

RequestEvent(c) ==
  LET q == calls[c]
  IN
  /\ Ready(c, "request")
  /\ \E n \in EventIds :
       /\ NextEvent(n)
       /\ events' = [events EXCEPT ![n] =
            [claim |-> q.claim, status |-> IF q.approved THEN "approved" ELSE "pending",
             requester |-> q.user, decider |-> IF q.approved THEN q.user ELSE NoOne,
             sheet |-> NoSheet]]
  /\ Committed(c)
  /\ UNCHANGED <<locks, sheets, records, answers>>

DecideEvent(c) ==
  LET q == calls[c]
  IN
  /\ Ready(c, "decide")
  /\ events' = [events EXCEPT ![q.event] =
       [@ EXCEPT !.status = IF q.approve THEN "approved" ELSE "rejected", !.decider = q.user]]
  /\ Committed(c)
  /\ UNCHANGED <<locks, sheets, records, answers>>

RevokeEvent(c) ==
  /\ Ready(c, "revoke")
  /\ events' = [events EXCEPT ![calls[c].event].status = "revoked"]
  /\ Committed(c)
  /\ UNCHANGED <<locks, sheets, records, answers>>

\* uq_attendance_import_content admits one session for a content.
PreviewImport(c) ==
  LET q == calls[c]
  IN
  /\ Ready(c, "preview")
  /\ sheets[q.sheet] = NoRow
  /\ sheets' = [sheets EXCEPT ![q.sheet] = q.session]
  /\ Committed(c)
  /\ UNCHANGED <<locks, events, records, answers>>

\* The events of the import whose rows are rows; uq_manual_event_import_row
\* admits one of each row.
Imported(s, claim) ==
  {n \in EventIds : Exists(n) /\ events[n].sheet = s /\ events[n].claim = claim}

\* The ways to give each of some claims one of the next free ids.
NewRows(claims) ==
  LET new == {n \in EventIds : ~Exists(n) /\
                Cardinality({m \in 1 .. n : ~Exists(m)}) <= Cardinality(claims)}
  IN  Bijection(new, claims)

WithRows(row, s, session, user) ==
  [n \in EventIds |->
     IF n \in DOMAIN row
     THEN [claim |-> row[n], status |-> "approved", requester |-> session.requester,
           decider |-> user, sheet |-> s]
     ELSE events[n]]

\* Mutant: the session keeps its status.
ApplyImportKept(c) ==
  LET q == calls[c]
      session == sheets[q.sheet]
  IN
  /\ Ready(c, "apply")
  /\ \A claim \in session.valid : Imported(q.sheet, claim) = {}
  /\ \E row \in NewRows(session.valid) : events' = WithRows(row, q.sheet, session, q.user)
  /\ Committed(c)
  /\ UNCHANGED <<locks, sheets, records, answers>>

ApplyImport(c) ==
  LET q == calls[c]
      session == sheets[q.sheet]
  IN
  /\ Ready(c, "apply")
  /\ \A claim \in session.valid : Imported(q.sheet, claim) = {}
  /\ \E row \in NewRows(session.valid) : events' = WithRows(row, q.sheet, session, q.user)
  /\ sheets' = [sheets EXCEPT ![q.sheet].status = "applied"]
  /\ Committed(c)
  /\ UNCHANGED <<locks, records, answers>>

LockPeriod(c) ==
  LET q == calls[c]
  IN
  /\ Ready(c, "lock")
  /\ \E l \in LockIds :
       /\ locks[l] = NoRow
       /\ \A k \in LockIds : k < l => locks[k] # NoRow
       /\ locks' = [locks EXCEPT ![l] = [status |-> "locked", from |-> q.from, to |-> q.to]]
  /\ Committed(c)
  /\ UNCHANGED <<events, sheets, records, answers>>

ReopenPeriod(c) ==
  /\ Ready(c, "reopen")
  /\ locks' = [locks EXCEPT ![calls[c].lock].status = "reopened"]
  /\ Committed(c)
  /\ UNCHANGED <<events, sheets, records, answers>>

\* The UPDATE sets the columns whose values differ from those the call has
\* read, and leaves the others of the row as they are now.
Changed(now, seen, new) ==
  [column \in DOMAIN now |-> IF new[column] # seen[column] THEN new[column] ELSE now[column]]

WithRevision(result, revision) ==
  [column \in DOMAIN result \cup {"revision"} |->
     IF column = "revision" THEN revision ELSE result[column]]

\* uq_attendance_record_employee_day refuses a second first calculation, the
\* constraint attendance_record_valid_times a check-out before the check-in.
CalculateDay(c) ==
  LET q == calls[c]
      d == q.day
      row == IF q.record = NoRow THEN WithRevision(Result(q.read), 1)
             ELSE Changed(records[d], q.record,
                          WithRevision(Result(q.read), q.record.revision + 1))
  IN
  /\ Ready(c, "calculate")
  /\ q.record = NoRow => records[d] = NoRow
  /\ row.revision <= MaxRevision
  /\ NoTime \notin {row.checkIn, row.checkOut} => row.checkIn <= row.checkOut
  /\ records' = [records EXCEPT ![d] = row]
  /\ answers' = [answers EXCEPT ![d] = q.read]
  /\ Committed(c)
  /\ UNCHANGED <<locks, events, sheets>>

\* A constraint, a lost connection or a crash ends the call.
Abandon(c) ==
  /\ ~Idle(c)
  /\ calls' = [calls EXCEPT ![c] = NoCall]
  /\ overtaken' = overtaken \ {c}
  /\ UNCHANGED <<tables, inputs, answers, begun, overlaps>>

\* update_policy reads nothing it could be wrong about.
UpdatePolicy(p) ==
  /\ changes < MaxChanges
  /\ p # policy
  /\ policy' = p
  /\ relaxed' = (relaxed \/ ~p.approval)
  /\ changes' = changes + 1
  /\ UNCHANGED <<tables, punches, shift, context, calls, answers, begun, overtaken, overlaps>>

\* External: a pull ingests a punch, workforce assigns another shift, calendar
\* or leave decide something.
InputChanges ==
  /\ changes < MaxChanges
  /\ changes' = changes + 1
  /\ \/ \E p \in Sightings \ punches :
          punches' = punches \cup {p} /\ UNCHANGED <<shift, context>>
     \/ \E d \in Days, s \in Shifts \cup {NoShift} :
          s # shift[d] /\ shift' = [shift EXCEPT ![d] = s] /\ UNCHANGED <<punches, context>>
     \/ \E d \in Days, x \in Contexts :
          x # context[d] /\ context' = [context EXCEPT ![d] = x] /\ UNCHANGED <<punches, shift>>
  /\ UNCHANGED <<tables, policy, relaxed, calls, answers, begun, overtaken, overlaps>>

Begin(c) ==
  \/ \E user \in Users, claim \in Claims : BeginRequest(c, user, claim)
  \/ \E user \in Users, n \in EventIds, approve \in BOOLEAN : BeginDecide(c, user, n, approve)
  \/ \E n \in EventIds : BeginRevoke(c, n)
  \/ \E user \in Users, s \in Sheets, strict \in BOOLEAN : BeginPreview(c, user, s, strict)
  \/ \E user \in Users, s \in Sheets : BeginApply(c, user, s)
  \/ \E from, to \in Days : BeginLock(c, from, to)
  \/ \E l \in LockIds : BeginReopen(c, l)
  \/ \E d \in Days : BeginCalculate(c, d)

Write(c) ==
  \/ RequestEvent(c)
  \/ DecideEvent(c)
  \/ RevokeEvent(c)
  \/ PreviewImport(c)
  \/ ApplyImport(c)
  \/ LockPeriod(c)
  \/ ReopenPeriod(c)
  \/ CalculateDay(c)

Next ==
  \/ \E c \in Calls : Begin(c) \/ Write(c) \/ Abandon(c)
  \/ \E d \in Days : CalculateAgain(d)
  \/ \E p \in Policies : UpdatePolicy(p)
  \/ InputChanges

Spec == Init /\ [][Next]_vars

-----------------------------------------------------------------------------
(***************************************************************************)
(* Properties.                                                             *)
(***************************************************************************)

\* "manual attendance evidence requires independent approval", "attendance
\* import requires independent approval": as long as the policy has always
\* said so, nobody has decided on evidence of their own, in a workbook or not,
\* however calls overlap.
NobodyAlone ==
  ~relaxed => \A n \in EventIds :
    Exists(n) /\ events[n].status # "pending" =>
      events[n].decider \in Users \ {events[n].requester}

\* An import becomes evidence all at once and once only: every valid row of an
\* applied workbook is one event, a workbook in preview has none
\* (apply_import, also when it is applied twice at the same time).
ImportedOnce ==
  /\ \A n \in EventIds : Exists(n) /\ events[n].sheet # NoSheet =>
       LET session == sheets[events[n].sheet]
       IN  session # NoRow /\ events[n].claim \in session.valid
  /\ \A s \in Sheets : sheets[s] # NoRow => \A claim \in sheets[s].valid :
       IF sheets[s].status = "applied"
       THEN \E n \in EventIds : Imported(s, claim) = {n}
       ELSE Imported(s, claim) = {}

\* The guards are complete as long as no call writes after another has
\* overtaken it.
Serial == overlaps = 0

\* "Active lock ranges cannot overlap": one reopening opens a day.
LocksDisjoint ==
  Serial => \A l, k \in LockIds : l # k /\ Active(l) /\ Active(k) =>
    locks[l].to < locks[k].from \/ locks[k].to < locks[l].from

EvidenceOf(d) ==
  {n \in EventIds : In(n, "approved") /\ events[n].sheet = NoSheet
                      /\ DayOf(events[n].claim.at) = d}

\* "Locked attendance cannot change without a recorded reopen": while a day is
\* locked its record stays and so does the evidence people approve one by one.
\* Imports are the exception: apply_import does not look at the locks again.
LockedDayFrozen ==
  [][Serial' => \A d \in Days : Locked(d) =>
       records'[d] = records[d] /\ EvidenceOf(d)' = EvidenceOf(d)]_vars

\* A calculation answers with what its inputs give, whether it writes or finds
\* their fingerprint; only the two counts of the timeline may be older
\* ("the same evidence and policy inputs repeat-safe").
AnswerIsCurrent ==
  Serial => \A d \in Days : records[d] # NoRow =>
    \A column \in Columns \ {"count", "duplicates", "revision"} :
      records[d][column] = Result(answers[d])[column]

\* The check times are what the evidence says, up to the tolerance for
\* duplicates: the first "in" is the check-in, and no "out" that is later than
\* the check-out, or later than the check-in when there is no check-out, is
\* later by more than the tolerance.  Evidence is never reported as absence,
\* and time worked is overtime of one kind at most.
EvidenceCounts ==
  Serial => \A d \in Days : records[d] # NoRow =>
    LET row == records[d]
        seen == answers[d].events
        window == answers[d].policy.window
        ins == {e.at : e \in {f \in seen : f.type = "in"}}
        outs == {e.at : e \in {f \in seen : f.type = "out"}}
    IN
    /\ row.checkIn = IF ins = {} THEN NoTime ELSE Min(ins)
    /\ row.checkOut = NoTime => \A t \in outs : ins # {} /\ t < row.checkIn + window
    /\ row.checkOut # NoTime =>
         /\ row.checkOut \in outs
         /\ \A t \in outs : t - row.checkOut <= window
         /\ ins # {} => row.checkIn <= row.checkOut
    /\ row.status = "absent" <=> seen = {}
    /\ row.regular + row.holiday <= row.worked

-----------------------------------------------------------------------------
(***************************************************************************)
(* What the properties rest on.                                            *)
(***************************************************************************)

Running == {c \in Calls : ~Idle(c)}

\* What a call has checked that no other call can change again: rows are never
\* deleted, who asked for something stays, and a decision is not taken back to
\* pending.
Checked(q) ==
  /\ q.op = "request" => (q.approved => relaxed)
  /\ q.op = "decide" => /\ Exists(q.event)
                        /\ ~relaxed => events[q.event].requester # q.user
  /\ q.op = "revoke" => Exists(q.event) /\ events[q.event].status # "pending"
  /\ q.op = "preview" => q.session.status = "preview"
  /\ q.op = "apply" => /\ sheets[q.sheet] # NoRow
                       /\ ~relaxed => sheets[q.sheet].requester # q.user
  /\ q.op = "lock" => q.from <= q.to
  /\ q.op = "reopen" => locks[q.lock] # NoRow
  /\ q.op = "calculate" => /\ q.read.day = q.day
                           /\ q.record # NoRow => records[q.day] # NoRow

\* What a call has read of locks, events and records is still true.
Current(q) ==
  /\ q.op = "request" => ~Locked(DayOf(q.claim.at))
  /\ q.op = "decide" => /\ In(q.event, "pending")
                        /\ q.approve => ~Locked(DayOf(events[q.event].claim.at))
  /\ q.op = "revoke" => ~Locked(DayOf(events[q.event].claim.at))
  /\ q.op = "lock" => MayLock(q.from, q.to)
  /\ q.op = "calculate" => ~Locked(q.day) /\ q.record = records[q.day]

CallsChecked == \A c \in Running : Checked(calls[c])

\* It is, as long as nobody has overtaken the call.
CallsCurrent == \A c \in Running \ overtaken : Current(calls[c])

\* The policy asks for approval unless it has been relaxed.
PolicyKnown == relaxed \/ policy.approval

\* With the properties, an inductive invariant.
AttendanceInv == CallsChecked /\ CallsCurrent /\ PolicyKnown

=============================================================================

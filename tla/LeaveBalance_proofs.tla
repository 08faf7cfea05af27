-------------------------- MODULE LeaveBalance_proofs --------------------------
(***************************************************************************)
(* Proofs about LeaveBalance for any number of employees, dates, requests, *)
(* concurrent calls and overlaps.                                          *)
(*                                                                         *)
(* What a request or a decision has checked of other rows stays true until *)
(* another call commits, which is when it becomes overtaken                *)
(* (CallsCurrent); so only the write of an overtaken call adds an open row *)
(* to a date that has one.                                                 *)
(*                                                                         *)
(* The half days that count against an entitlement are a finite set, and   *)
(* a row adds at most its own; a balance a call has read covers its row    *)
(* until another call commits (BalanceInv), and reading balances, which    *)
(* creates details, changes nothing that is counted.                       *)
(***************************************************************************)
EXTENDS LeaveBalance, FiniteSetTheorems, TLAPS

Running(c) == calls[c] # NoCall

\* The open rows of an employee that include a date.
OpenOn(e, d) == {n \in Covering(e, d) : Open(n)}

CallShape(q) ==
  /\ q.op = "request" => q.row \in Use
  /\ q.op = "decide" => q.use \in Taken /\ q.status \in Decisions

Shape ==
  /\ uses \in [Slots -> Use \cup {NoUse}]
  /\ calls = [c \in Calls |-> calls[c]]
  /\ overlaps \in Nat
  /\ \A c \in Calls : Running(c) => CallShape(calls[c])

\* What a call has checked of rows that others may change.
Holds(q) ==
  /\ q.op = "request" =>
       \A kind \in {"leave", "duty"} : Overlapping(q.row.employee, q.row.first, q.row.last, kind) = {}
  /\ q.op = "decide" => Open(q.use)

\* It holds until the call writes, unless the call is overtaken.
CallsCurrent == \A c \in Calls \ overtaken : Running(c) => Holds(calls[c])

LeaveInv == Shape /\ CallsCurrent /\ OneUsePerDay

-----------------------------------------------------------------------------
LEMMA SlotsFinite ==
  ASSUME NEW set, set \subseteq Slots
  PROVE  IsFiniteSet(set) /\ Cardinality(set) \in Nat
<1>1. IsFiniteSet(Slots)
  BY CalendarAssumption, FS_Interval DEF Slots
<1>2. QED
  BY <1>1, FS_Subset, FS_CardinalityType

LEMMA OneMore ==
  ASSUME NEW set, NEW other, NEW x, set \subseteq Slots, other \subseteq set \cup {x}, other \subseteq Slots
  PROVE  Cardinality(other) <= Cardinality(set) + 1
<1>1. IsFiniteSet(set) /\ Cardinality(set) \in Nat
  BY SlotsFinite
<1>2. IsFiniteSet(set \cup {x}) /\ Cardinality(set \cup {x}) <= Cardinality(set) + 1
  BY <1>1, FS_AddElement
<1>3. Cardinality(other) <= Cardinality(set \cup {x})
  BY <1>2, FS_Subset
<1>4. Cardinality(set \cup {x}) \in Nat /\ Cardinality(other) \in Nat
  BY <1>2, FS_CardinalityType, SlotsFinite
<1>5. QED
  BY <1>1, <1>2, <1>3, <1>4

LEMMA NoMore ==
  ASSUME NEW set, NEW other, set \subseteq Slots, other \subseteq set
  PROVE  Cardinality(other) <= Cardinality(set)
BY SlotsFinite, FS_Subset

LEMMA UseTypes ==
  ASSUME Shape, NEW n \in Taken
  PROVE  n \in Slots /\ uses[n] \in Use
BY DEF Shape, Taken

-----------------------------------------------------------------------------
(***************************************************************************)
(* The calls that begin.                                                   *)
(***************************************************************************)

\* A call begins, and what it relies on is so.
Begins(c) == \E call : Begin(c, call) /\ CallShape(call) /\ Holds(call)

LEMMA DaysType ==
  ASSUME NEW first \in Days, NEW last \in Days, NEW part \in {"full", "half"}
  PROVE  RequestedDays(first, last, part) \in Nat
<1>1. IsFiniteSet(first .. last)
  BY CalendarAssumption, FS_Interval
<1>2. Cardinality({d \in first .. last : CalendarDecision(d) = "workday"}) \in Nat
  BY <1>1, FS_Subset, FS_CardinalityType
<1>3. QED
  BY <1>2 DEF RequestedDays, WorkingDays, Full, Half

LEMMA RequestBegins ==
  ASSUME Shape, NEW c \in Calls, Request(c)
  PROVE  Begins(c)
<1>1. ASSUME NEW e \in Employees, NEW period \in Periods, NEW part \in {"full", "half"},
             RequestLeave(c, e, period[1], period[2], part)
      PROVE  Begins(c)
  <2> DEFINE days == RequestedDays(period[1], period[2], part)
             row == NewUse("leave", e, period[1], period[2], part, days)
             call == [op |-> "request", row |-> row]
  <2>1. days \in Nat /\ period[1] \in Days /\ period[2] \in Days
    BY DaysType, CalendarAssumption
  <2>2. row \in Use /\ row.employee = e /\ row.first = period[1] /\ row.last = period[2]
    BY <2>1 DEF NewUse, Use
  <2> HIDE DEF row
  <2>3. CallShape(call) /\ Holds(call)
    BY <1>1, <2>2 DEF CallShape, Holds, RequestLeave, MayRequestLeave
  <2>4. QED
    BY <1>1, <2>3 DEF Begins, RequestLeave, row
<1>2. ASSUME NEW e \in Employees, NEW period \in Periods, RequestDuty(c, e, period[1], period[2])
      PROVE  Begins(c)
  <2> DEFINE row == NewUse("duty", e, period[1], period[2], "full", 0)
             call == [op |-> "request", row |-> row]
  <2>1. row \in Use /\ row.employee = e /\ row.first = period[1] /\ row.last = period[2]
    BY CalendarAssumption DEF NewUse, Use
  <2> HIDE DEF row
  <2>2. CallShape(call) /\ Holds(call)
    BY <1>2, <2>1 DEF CallShape, Holds, RequestDuty, MayRequestDuty
  <2>3. QED
    BY <1>2, <2>2 DEF Begins, RequestDuty, row
<1>3. ASSUME NEW n, NEW status \in Decisions, n \in Taken, Open(n), Asks(c, n, status)
      PROVE  Begins(c)
  <2>1. CallShape([op |-> "decide", use |-> n, status |-> status])
    BY <1>3 DEF CallShape
  <2>2. Holds([op |-> "decide", use |-> n, status |-> status])
    BY <1>3 DEF Holds
  <2>3. QED
    BY <1>3, <2>1, <2>2 DEF Begins, Asks
<1>4. ASSUME NEW n \in Slots, NEW user \in Users, NEW status \in {"approved", "rejected"},
             DecideLeave(c, user, n, status) \/ DecideDuty(c, user, n, status)
      PROVE  Begins(c)
  BY <1>3, <1>4 DEF DecideLeave, DecideDuty, MayDecideLeave, MayDecideDuty, Pending, Open, Decisions
<1>5. ASSUME NEW n \in Slots, CancelLeave(c, n) \/ CancelDuty(c, n)
      PROVE  Begins(c)
  BY <1>3, <1>5 DEF CancelLeave, CancelDuty, MayCancelLeave, MayCancelDuty, Decisions
<1>6. ASSUME NEW op \in {"allocate", "annual"}, NEW y, NEW plan,
             Begin(c, [op |-> op, year |-> y, seen |-> allocations, plan |-> plan])
      PROVE  Begins(c)
  <2> DEFINE call == [op |-> op, year |-> y, seen |-> allocations, plan |-> plan]
  <2>1. CallShape(call) /\ Holds(call)
    BY DEF CallShape, Holds
  <2>2. QED
    BY <1>6, <2>1 DEF Begins
<1>7. ASSUME NEW y \in Years,
             \/ \E e \in Employees, amounts \in AmountChoices :
                  AllocateLeave(c, e, y, amounts) \/ AllocateBreakdown(c, e, y, amounts)
             \/ AllocateAnnually(c, y)
      PROVE  Begins(c)
  BY <1>6, <1>7 DEF AllocateLeave, AllocateBreakdown, Allocates, AllocateAnnually
<1>8. QED
  BY <1>1, <1>2, <1>4, <1>5, <1>7 DEF Request

\* With these rows and overlaps unchanged, nothing that was so is lost.
LEMMA Unchanged ==
  ASSUME LeaveInv, UNCHANGED <<uses, overlaps>>
  PROVE  /\ OneUsePerDay'
         /\ \A q : (CallShape(q) => CallShape(q)') /\ (Holds(q) => Holds(q)')
         /\ uses' \in [Slots -> Use \cup {NoUse}] /\ overlaps' \in Nat
BY DEF LeaveInv, OneUsePerDay, Covering, Taken, Open, CallShape, Holds, Overlapping, Shape

\* The calls that remain keep their shape and what they rely on.
LEMMA CallsRemain ==
  ASSUME calls' = [c \in Calls |-> calls'[c]], uses' \in [Slots -> Use \cup {NoUse}],
         overlaps' \in Nat,
         \A c \in Calls : Running(c)' => \E q : q = calls'[c] /\ CallShape(q)',
         \A c \in Calls \ overtaken' : Running(c)' => \E q : q = calls'[c] /\ Holds(q)'
  PROVE  Shape' /\ CallsCurrent'
<1>1. ASSUME NEW c \in Calls, Running(c)'
      PROVE  CallShape(calls[c])'
  <2>1. PICK q : q = calls'[c] /\ CallShape(q)'
    BY <1>1
  <2>2. QED
    BY <2>1 DEF CallShape
<1>2. ASSUME NEW c \in Calls \ overtaken', Running(c)'
      PROVE  Holds(calls[c])'
  <2>1. PICK q : q = calls'[c] /\ Holds(q)'
    BY <1>2
  <2>2. QED
    BY <2>1 DEF Holds, Overlapping, Open, Taken
<1>3. QED
  BY <1>1, <1>2 DEF Shape, CallsCurrent

LEMMA BeginStep ==
  ASSUME LeaveInv, NEW c \in Calls, Begins(c)
  PROVE  LeaveInv'
<1>1. PICK call : Begin(c, call) /\ CallShape(call) /\ Holds(call)
  BY DEF Begins
<1>2. UNCHANGED <<uses, overlaps>> /\ overtaken' = overtaken \ {c}
      /\ calls' = [calls EXCEPT ![c] = call] /\ calls = [d \in Calls |-> calls[d]]
  BY <1>1 DEF Begin, LeaveInv, Shape
<1>3. \A d \in Calls : calls'[d] = IF d = c THEN call ELSE calls[d]
  BY <1>2
<1>4. \A d \in Calls : Running(d)' => CallShape(calls'[d])
  BY <1>1, <1>3 DEF LeaveInv, Shape, Running
<1>5. \A d \in Calls \ overtaken' : Running(d)' => Holds(calls'[d])
  BY <1>1, <1>2, <1>3 DEF LeaveInv, CallsCurrent, Running
<1>6. calls' = [d \in Calls |-> calls'[d]]
  BY <1>2
<1>7. QED
  BY <1>2, <1>4, <1>5, <1>6, Unchanged, CallsRemain DEF LeaveInv

\* A step that leaves the rows alone and begins no call.
LEMMA QuietStep ==
  ASSUME LeaveInv, UNCHANGED uses, overlaps' \in {overlaps, overlaps + 1},
         calls' = [d \in Calls |-> calls'[d]],
         \A d \in Calls : calls'[d] \in {calls[d], NoCall},
         \A d \in Calls : Running(d)' => d \in overtaken' \/ d \notin overtaken
  PROVE  LeaveInv'
<1>1. \A d \in Calls : Running(d)' => Running(d) /\ calls'[d] = calls[d]
  BY DEF Running
<1>2. uses' \in [Slots -> Use \cup {NoUse}] /\ overlaps \in Nat /\ overlaps' \in Nat
  BY DEF LeaveInv, Shape
<1>3. \A q : (CallShape(q) => CallShape(q)') /\ (Holds(q) => Holds(q)')
  BY DEF CallShape, Holds, Overlapping, Taken, Open
<1>4. Shape' /\ CallsCurrent'
  <2>1. \A d \in Calls : Running(d)' => CallShape(calls'[d])
    BY <1>1 DEF LeaveInv, Shape
  <2>2. \A d \in Calls \ overtaken' : Running(d)' => Holds(calls'[d])
    BY <1>1 DEF LeaveInv, CallsCurrent
  <2>3. QED
    BY <1>2, <1>3, <2>1, <2>2, CallsRemain
<1>5. \A e \in Employees, d \in Days : OpenOn(e, d)' = OpenOn(e, d) /\ OpenOn(e, d) \subseteq Slots
  BY DEF OpenOn, Covering, Taken, Open
<1>6. OneUsePerDay'
  BY <1>2, <1>5, SlotsFinite DEF LeaveInv, OneUsePerDay, OpenOn
<1>7. QED
  BY <1>4, <1>6 DEF LeaveInv

-----------------------------------------------------------------------------
(***************************************************************************)
(* The calls that write.                                                   *)
(***************************************************************************)

\* What is left to show of a write: how many open rows a date has.
LEMMA WriteStep ==
  ASSUME LeaveInv, NEW c \in Calls, Committed(c), Running(c),
         uses' \in [Slots -> Use \cup {NoUse}], Taken \subseteq Taken',
         \A e \in Employees, d \in Days :
           \/ OpenOn(e, d)' \subseteq OpenOn(e, d)
           \/ \E n : OpenOn(e, d)' \subseteq OpenOn(e, d) \cup {n} /\ c \in overtaken
           \/ \E n : OpenOn(e, d)' \subseteq {n}
  PROVE  LeaveInv'
<1>1. /\ overlaps \in Nat /\ calls = [d \in Calls |-> calls[d]]
      /\ overlaps' = IF c \in overtaken THEN overlaps + 1 ELSE overlaps
      /\ calls' = [calls EXCEPT ![c] = NoCall]
      /\ \A d \in Calls : Running(d)' => d \in overtaken' /\ calls'[d] = calls[d] /\ Running(d)
  BY DEF LeaveInv, Shape, Committed, Running
<1>2. \A d \in Calls \ overtaken' : ~Running(d)'
  BY <1>1
<1>3. ASSUME NEW d \in Calls, Running(d)'
      PROVE  \E q : q = calls'[d] /\ CallShape(q)'
  <2>1. PICK q : q = calls'[d] /\ CallShape(q)
    BY <1>1, <1>3 DEF LeaveInv, Shape
  <2>2. QED
    BY <2>1 DEF CallShape
<1>4. Shape' /\ CallsCurrent'
  <2>1. calls' = [d \in Calls |-> calls'[d]] /\ overlaps' \in Nat
    BY <1>1
  <2>2. QED
    BY <1>2, <1>3, <2>1, CallsRemain
<1>5. ASSUME NEW e \in Employees, NEW d \in Days
      PROVE  Cardinality(OpenOn(e, d)') <= 1 + overlaps'
  <2>1. OpenOn(e, d) \subseteq Slots /\ OpenOn(e, d)' \subseteq Slots
    BY DEF OpenOn, Covering, Taken
  <2>2. Cardinality(OpenOn(e, d)) \in Nat /\ Cardinality(OpenOn(e, d)') \in Nat
    BY <2>1, SlotsFinite
  <2>3. Cardinality(OpenOn(e, d)) <= 1 + overlaps
    BY DEF LeaveInv, OneUsePerDay, OpenOn
  <2>4. CASE OpenOn(e, d)' \subseteq OpenOn(e, d)
    <3>1. Cardinality(OpenOn(e, d)') <= Cardinality(OpenOn(e, d))
      BY <2>1, <2>4, NoMore
    <3>2. QED
      BY <1>1, <2>2, <2>3, <3>1
  <2>5. CASE c \in overtaken /\ \E n : OpenOn(e, d)' \subseteq OpenOn(e, d) \cup {n}
    <3>1. Cardinality(OpenOn(e, d)') <= Cardinality(OpenOn(e, d)) + 1
      BY <2>1, <2>5, OneMore
    <3>2. QED
      BY <1>1, <2>2, <2>3, <2>5, <3>1
  <2>6. CASE \E n : OpenOn(e, d)' \subseteq {n}
    <3>1. Cardinality(OpenOn(e, d)') <= Cardinality({}) + 1
      BY <2>1, <2>6, OneMore
    <3>2. Cardinality({}) = 0
      BY FS_EmptySet
    <3>3. QED
      BY <1>1, <2>2, <3>1, <3>2
  <2>7. QED
    BY <2>4, <2>5, <2>6
<1>6. OneUsePerDay'
  BY <1>5 DEF OneUsePerDay, OpenOn
<1>7. QED
  BY <1>4, <1>6 DEF LeaveInv

LEMMA WriteInv ==
  ASSUME LeaveInv, NEW c \in Calls, WriteRequest(c) \/ WriteDecision(c) \/ WriteAllocations(c)
  PROVE  LeaveInv'
<1> DEFINE q == calls[c]
<1>1. CASE WriteRequest(c)
  <2>1. /\ q.row \in Use
        /\ c \notin overtaken =>
             \A kind \in {"leave", "duty"} :
               Overlapping(q.row.employee, q.row.first, q.row.last, kind) = {}
    BY <1>1 DEF WriteRequest, Ready, LeaveInv, Shape, CallsCurrent, Running, CallShape, Holds
  <2>2. PICK n \in Slots \ Taken : uses' = [uses EXCEPT ![n] = q.row]
    BY <1>1 DEF WriteRequest
  <2>3. \A m \in Slots : uses'[m] = IF m = n THEN q.row ELSE uses[m]
    BY <2>2 DEF LeaveInv, Shape
  <2>4. uses' \in [Slots -> Use \cup {NoUse}] /\ Taken \subseteq Taken'
    BY <2>1, <2>2, <2>3 DEF LeaveInv, Shape, Taken
  <2>5. ASSUME NEW e \in Employees, NEW d \in Days
        PROVE  /\ OpenOn(e, d)' \subseteq OpenOn(e, d) \cup {n}
               /\ c \notin overtaken => OpenOn(e, d)' \subseteq OpenOn(e, d) \/ OpenOn(e, d)' \subseteq {n}
    <3>1. OpenOn(e, d)' \subseteq OpenOn(e, d) \cup {n}
      BY <2>3 DEF OpenOn, Covering, Taken, Open
    <3>2. ASSUME c \notin overtaken, n \in OpenOn(e, d)'
          PROVE  OpenOn(e, d) = {}
      <4>1. q.row.employee = e /\ q.row.first <= d /\ d <= q.row.last
        BY <2>3, <3>2 DEF OpenOn, Covering
      <4>2. q.row.first \in Int /\ q.row.last \in Int /\ d \in Int
        BY <2>1, CalendarAssumption DEF Use
      <4>3. ASSUME NEW m \in OpenOn(e, d)
            PROVE  FALSE
        <5>1. /\ m \in Taken /\ uses[m].employee = e /\ uses[m].first <= d /\ d <= uses[m].last
              /\ Open(m)
          BY DEF OpenOn, Covering
        <5>2. /\ uses[m].first \in Int /\ uses[m].last \in Int
              /\ uses[m].kind \in {"leave", "duty"}
          BY <5>1, UseTypes, CalendarAssumption DEF LeaveInv, Use
        <5>3. m \in Overlapping(q.row.employee, q.row.first, q.row.last, uses[m].kind)
          BY <4>1, <4>2, <5>1, <5>2 DEF Overlapping
        <5>4. QED
          BY <2>1, <3>2, <5>2, <5>3
      <4>4. QED
        BY <4>3
    <3>3. QED
      BY <3>1, <3>2
  <2>6. Committed(c) /\ Running(c)
    BY <1>1 DEF WriteRequest, Ready, Running
  <2>7. QED
    BY <2>4, <2>5, <2>6, WriteStep
<1>2. CASE WriteDecision(c)
  <2>1. /\ q.use \in Taken /\ q.status \in Decisions
        /\ c \notin overtaken => Open(q.use)
    BY <1>2 DEF WriteDecision, Ready, LeaveInv, Shape, CallsCurrent, Running, CallShape, Holds
  <2>2. uses[q.use] \in Use /\ q.use \in Slots
    BY <2>1, UseTypes DEF LeaveInv
  <2> DEFINE row == [uses[q.use] EXCEPT !.status = q.status]
  <2>3. /\ row \in Use /\ row.employee = uses[q.use].employee
        /\ row.first = uses[q.use].first /\ row.last = uses[q.use].last
    BY <2>1, <2>2 DEF Use
  <2>4. uses' = [uses EXCEPT ![q.use] = row]
    BY <1>2 DEF WriteDecision
  <2> HIDE DEF row
  <2>5. \A m \in Slots : uses'[m] = IF m = q.use THEN row ELSE uses[m]
    BY <2>4 DEF LeaveInv, Shape
  <2>6. uses' \in [Slots -> Use \cup {NoUse}] /\ Taken \subseteq Taken'
    BY <2>2, <2>3, <2>4, <2>5, NoneAssumption DEF LeaveInv, Shape, Taken
  <2>7. ASSUME NEW e \in Employees, NEW d \in Days
        PROVE  /\ OpenOn(e, d)' \subseteq OpenOn(e, d) \cup {q.use}
               /\ c \notin overtaken => OpenOn(e, d)' \subseteq OpenOn(e, d)
    <3>1. \A m \in OpenOn(e, d)' : m # q.use => m \in OpenOn(e, d)
      BY <2>5 DEF OpenOn, Covering, Taken, Open
    <3>2. q.use \in OpenOn(e, d)' /\ Open(q.use) => q.use \in OpenOn(e, d)
      BY <2>1, <2>2, <2>3, <2>5 DEF OpenOn, Covering
    <3>3. QED
      BY <2>1, <3>1, <3>2
  <2>8. Committed(c) /\ Running(c)
    BY <1>2 DEF WriteDecision, Ready, Running
  <2>9. QED
    BY <2>6, <2>7, <2>8, WriteStep
<1>3. CASE WriteAllocations(c)
  <2>1. UNCHANGED uses /\ Committed(c) /\ Running(c)
    BY <1>3 DEF WriteAllocations, Ready, Running
  <2>2. /\ uses' \in [Slots -> Use \cup {NoUse}] /\ Taken \subseteq Taken'
        /\ \A e \in Employees, d \in Days : OpenOn(e, d)' \subseteq OpenOn(e, d)
    BY <2>1 DEF LeaveInv, Shape, OpenOn, Covering, Taken, Open
  <2>3. QED
    BY <2>1, <2>2, WriteStep
<1>4. QED
  BY <1>1, <1>2, <1>3

-----------------------------------------------------------------------------
LEMMA StepInv == LeaveInv /\ [Next]_vars => LeaveInv'
<1> SUFFICES ASSUME LeaveInv, [Next]_vars PROVE LeaveInv'
  OBVIOUS
<1>0. calls = [d \in Calls |-> calls[d]] /\ overlaps \in Nat
  BY DEF LeaveInv, Shape
<1>1. CASE UNCHANGED vars
  <2>1. UNCHANGED <<uses, calls, overtaken, overlaps>>
    BY <1>1 DEF vars, history
  <2>2. QED
    BY <1>0, <2>1, QuietStep
<1>2. CASE Administrate
  <2>1. UNCHANGED <<uses, calls, overlaps>> /\ (overtaken' = overtaken \/ overtaken' = {c \in Calls : Running(c)})
    BY <1>2 DEF Administrate, SetWeekends, CreateHoliday, UpdateHoliday, UpdatePolicyRule,
                ReadBalances, Changed, Running, history
  <2>2. \A d \in Calls : Running(d)' => d \in overtaken' \/ d \notin overtaken
    BY <2>1 DEF Running
  <2>3. QED
    BY <1>0, <2>1, <2>2, QuietStep
<1>3. ASSUME NEW c \in Calls, Request(c)
      PROVE  LeaveInv'
  BY <1>3, RequestBegins, BeginStep DEF LeaveInv
<1>4. ASSUME NEW c \in Calls, Abandon(c)
      PROVE  LeaveInv'
  <2>1. UNCHANGED <<uses, overlaps>> /\ calls' = [calls EXCEPT ![c] = NoCall]
        /\ overtaken' = overtaken \ {c}
    BY <1>4 DEF Abandon
  <2>2. /\ calls' = [d \in Calls |-> calls'[d]]
        /\ \A d \in Calls : calls'[d] \in {calls[d], NoCall}
        /\ \A d \in Calls : Running(d)' => d \in overtaken' \/ d \notin overtaken
    BY <1>0, <2>1 DEF Running
  <2>3. QED
    BY <2>1, <2>2, QuietStep
<1>5. QED
  BY <1>1, <1>2, <1>3, <1>4, WriteInv DEF Next, Operate

LEMMA InitInv == Init => LeaveInv
<1> SUFFICES ASSUME Init PROVE LeaveInv
  OBVIOUS
<1>1. Shape /\ CallsCurrent
  BY DEF Init, Shape, CallsCurrent, Running
<1>2. ASSUME NEW e \in Employees, NEW d \in Days
      PROVE  Cardinality({n \in Covering(e, d) : Open(n)}) <= 1 + overlaps
  <2>1. {n \in Covering(e, d) : Open(n)} = {}
    BY DEF Init, Covering, Taken
  <2>2. Cardinality({}) = 0 /\ overlaps = 0
    BY FS_EmptySet DEF Init
  <2>3. QED
    BY <2>1, <2>2
<1>3. QED
  BY <1>1, <1>2 DEF LeaveInv, OneUsePerDay

\* Rows and calls keep the shape and the promises of LeaveInv.
THEOREM LeaveInvariant == Spec => []LeaveInv
BY InitInv, StepInv, PTL DEF Spec

\* Leave and field duty of an employee never share a date but for the writes
\* of calls that others have overtaken, each of which adds one at most.
THEOREM UsesApart == Spec => []OneUsePerDay
<1>1. LeaveInv => OneUsePerDay
  BY DEF LeaveInv
<1>2. QED
  BY <1>1, LeaveInvariant, PTL

\* In every state that the tables can hold, reachable or not, the leave
\* service, the attendance engine and the reports make the same of a working
\* day without half-day leave, and of a day that nobody has taken.
THEOREM DecisionsAlike == Spec => []DecisionsAgree
<1>1. DecisionsAgree
  <2> SUFFICES ASSUME NEW e \in Employees, NEW d \in Days
               PROVE  LET one == WorkdayDecision(e, d)
                          used == Approved(e, d, "leave") \cup Approved(e, d, "duty")
                          working == CalendarDecision(d) = "workday"
                      IN
                      /\ working /\ (\A n \in used : uses[n].part = "full") =>
                           IF one = "workday"
                           THEN EngineStatuses(e, d) = {"absent"} /\ ReportStatuses(e, d) = {"uncalculated"}
                           ELSE EngineStatuses(e, d) = {one} /\ ReportStatuses(e, d) = {one}
                      /\ ~working /\ used = {} =>
                           /\ EngineStatuses(e, d) = ReportStatuses(e, d)
                           /\ EngineStatuses(e, d) \subseteq {"holiday", "weekly_off"}
    BY DEF DecisionsAgree
  <2> DEFINE leave == Approved(e, d, "leave")
             duty == Approved(e, d, "duty")
             parts == IF leave = {} THEN {"none"} ELSE {uses[n].part : n \in leave}
             weekend == Weekday[d] \in weekends
             holiday == ClosedBy(holidays[d])
             made(part) == Engine!DayStatus("absent",
                             [weekend |-> weekend, holiday |-> holiday, duty |-> duty # {}, leave |-> part])
  <2>1. EngineStatuses(e, d) = {made(part) : part \in parts}
    BY DEF EngineStatuses
  <2>2. CalendarDecision(d) = IF weekend THEN "weekend" ELSE IF holiday THEN "holiday" ELSE "workday"
    BY DEF CalendarDecision
  <2>3. \A part : made(part) = IF duty # {} THEN "field_duty"
                              ELSE IF part = "full" THEN "leave"
                              ELSE IF holiday THEN "holiday"
                              ELSE IF weekend THEN "weekly_off"
                              ELSE IF part = "half" THEN "partial"
                              ELSE "absent"
    BY DEF Engine!DayStatus
  <2>4. WorkdayDecision(e, d) = IF CalendarDecision(d) # "workday" THEN CalendarDecision(d)
                                ELSE IF duty # {} THEN "field_duty"
                                ELSE IF leave # {} THEN "leave" ELSE "workday"
    BY DEF WorkdayDecision
  <2>5. /\ duty # {} => ReportStatuses(e, d) = {"field_duty"}
        /\ duty = {} /\ leave # {} /\ (\A n \in leave : uses[n].part = "full") =>
             ReportStatuses(e, d) = {"leave"}
        /\ duty = {} /\ leave = {} =>
             ReportStatuses(e, d) = IF holiday THEN {"holiday"}
                                    ELSE IF weekend THEN {"weekly_off"} ELSE {"uncalculated"}
    BY DEF ReportStatuses
  <2>6. /\ parts # {}
        /\ leave = {} => parts = {"none"}
        /\ leave # {} /\ (\A n \in leave : uses[n].part = "full") => parts = {"full"}
    OBVIOUS
  <2> HIDE DEF made, weekend, holiday, leave, duty, parts
  <2>7. \A one : (\A part \in parts : made(part) = one) => EngineStatuses(e, d) = {one}
    BY <2>1, <2>6
  <2>8. ASSUME CalendarDecision(d) = "workday",
               \A n \in leave \cup duty : uses[n].part = "full"
        PROVE  LET one == WorkdayDecision(e, d)
               IN  IF one = "workday"
                   THEN EngineStatuses(e, d) = {"absent"} /\ ReportStatuses(e, d) = {"uncalculated"}
                   ELSE EngineStatuses(e, d) = {one} /\ ReportStatuses(e, d) = {one}
    <3>1. ~weekend /\ ~holiday
      BY <2>2, <2>8
    <3>2. CASE duty # {}
      BY <2>3, <2>4, <2>5, <2>7, <2>8, <3>2
    <3>3. CASE duty = {} /\ leave # {}
      BY <2>3, <2>4, <2>5, <2>6, <2>7, <2>8, <3>3
    <3>4. CASE duty = {} /\ leave = {}
      BY <2>3, <2>4, <2>5, <2>6, <2>7, <2>8, <3>1, <3>4
    <3>5. QED
      BY <3>2, <3>3, <3>4
  <2>9. ASSUME CalendarDecision(d) # "workday", leave \cup duty = {}
        PROVE  /\ EngineStatuses(e, d) = ReportStatuses(e, d)
               /\ EngineStatuses(e, d) \subseteq {"holiday", "weekly_off"}
    <3>1. holiday \/ weekend
      BY <2>2, <2>9
    <3>2. leave = {} /\ duty = {}
      BY <2>9
    <3>3. EngineStatuses(e, d) = {IF holiday THEN "holiday" ELSE "weekly_off"}
      BY <2>3, <2>6, <2>7, <3>1, <3>2
    <3>4. QED
      BY <2>5, <3>1, <3>2, <3>3
  <2>10. QED
    BY <2>8, <2>9 DEF leave, duty
<1>2. QED
  BY <1>1, PTL

-----------------------------------------------------------------------------
(***************************************************************************)
(* Rows of allocations.                                                    *)
(***************************************************************************)

LEMMA DetailedKeeps ==
  ASSUME NEW row \in Allocation \cup {NoAllocation}
  PROVE  /\ Detailed(row) \in Allocation \cup {NoAllocation}
         /\ Detailed(row) = NoAllocation <=> row = NoAllocation
         /\ Entitled(Detailed(row)) = Entitled(row)
         /\ row # NoAllocation => Detailed(row).adjustment = row.adjustment /\ Detailed(row).detail = TRUE
         /\ row # NoAllocation => row.detail \in BOOLEAN /\ Entitled(row) \in Int
<1>1. CASE row = NoAllocation
  BY <1>1 DEF Detailed
<1>2. CASE row # NoAllocation
  <2>1. /\ row \in Allocation /\ row.allocated \in Nat /\ row.carried \in Nat
        /\ row.adjustment \in Int /\ row.detail \in BOOLEAN
    BY <1>2 DEF Allocation
  <2> DEFINE full == [row EXCEPT !.detail = TRUE, !.opening = 0, !.earned = row.allocated]
  <2>2. /\ full \in Allocation /\ full.detail = TRUE /\ full.allocated = row.allocated
        /\ full.carried = row.carried /\ full.adjustment = row.adjustment
    BY <2>1 DEF Allocation
  <2>3. Detailed(row) = IF row.detail THEN row ELSE full
    BY <1>2 DEF Detailed
  <2> HIDE DEF full
  <2>4. Detailed(row) \in Allocation
    BY <2>1, <2>2, <2>3
  <2> QED
    BY <1>2, <2>1, <2>2, <2>3, <2>4, NoneAssumption DEF Entitled
<1> QED
  BY <1>1, <1>2

LEMMA DetailedTwice ==
  ASSUME NEW row \in Allocation \cup {NoAllocation}
  PROVE  Detailed(Detailed(row)) = Detailed(row)
<1>1. CASE row = NoAllocation
  BY <1>1 DEF Detailed
<1>2. CASE row # NoAllocation
  <2>1. Detailed(row).detail = TRUE
    BY <1>2, DetailedKeeps
  <2> QED
    BY <2>1 DEF Detailed
<1> QED
  BY <1>1, <1>2

\* Writing a plan over what the row holds by now.
LEMMA WrittenRow ==
  ASSUME NEW now \in Allocation \cup {NoAllocation}, NEW seen \in Allocation \cup {NoAllocation},
         NEW new \in Allocation \cup {NoAllocation},
         now = NoAllocation => seen = NoAllocation, new = NoAllocation => seen = NoAllocation
  PROVE  /\ Written(now, seen, new) \in Allocation \cup {NoAllocation}
         /\ Written(now, seen, new) = NoAllocation => now = NoAllocation
         /\ new \in {seen, Detailed(seen)} =>
              /\ Written(now, seen, new) = NoAllocation <=> now = NoAllocation
              /\ Entitled(Written(now, seen, new)) = Entitled(now)
<1>1. CASE new = seen
  BY <1>1 DEF Written
<1>2. CASE new # seen /\ seen = NoAllocation
  <2>1. Detailed(seen) = seen
    BY <1>2 DEF Detailed
  <2> QED
    BY <1>2, <2>1 DEF Written
<1>3. CASE new # seen /\ seen # NoAllocation
  <2>1. now \in Allocation /\ seen \in Allocation /\ new \in Allocation
    BY <1>3
  <2>2. DOMAIN new = {"allocated", "carried", "adjustment", "detail", "opening", "earned"}
    BY <2>1 DEF Allocation
  <2> DEFINE w == [f \in DOMAIN new |-> IF new[f] = seen[f] THEN now[f] ELSE new[f]]
  <2>3. w \in Allocation
    BY <2>1, <2>2 DEF Allocation
  <2>4. ASSUME new = Detailed(seen)
        PROVE  Entitled(w) = Entitled(now)
    <3>1. /\ new.allocated = seen.allocated /\ new.carried = seen.carried
          /\ new.adjustment = seen.adjustment
      BY <1>3, <2>1, <2>4 DEF Detailed, Allocation
    <3>2. /\ w.allocated = now.allocated /\ w.carried = now.carried
          /\ w.adjustment = now.adjustment
      BY <2>2, <3>1
    <3> QED
      BY <3>2 DEF Entitled
  <2>5. Written(now, seen, new) = w /\ now # NoAllocation /\ w # NoAllocation
    BY <1>3, <2>1, <2>3, NoneAssumption DEF Written
  <2> HIDE DEF w
  <2> QED
    BY <1>3, <2>3, <2>4, <2>5
<1> QED
  BY <1>1, <1>2, <1>3

-----------------------------------------------------------------------------
(***************************************************************************)
(* The half days used.                                                     *)
(***************************************************************************)

RowTable == [Slots -> Use \cup {NoUse}]

CountsFor(row, e, y, statuses) ==
  /\ row # NoUse /\ row.kind = "leave" /\ row.employee = e
  /\ YearOf[row.first] = y /\ row.status \in statuses

HalfDaysOf(n, row) == {n} \X (1 .. row.days)

LEMMA UsedIs ==
  ASSUME NEW rows, NEW e, NEW y, NEW statuses
  PROVE  \A x : x \in HalfDaysUsed(rows, e, y, statuses) <=>
           \E n \in Slots : CountsFor(rows[n], e, y, statuses) /\ x \in HalfDaysOf(n, rows[n])
BY DEF HalfDaysUsed, CountsFor, HalfDaysOf

LEMMA HalfDaysFinite ==
  ASSUME NEW n, NEW row \in Use
  PROVE  IsFiniteSet(HalfDaysOf(n, row)) /\ Cardinality(HalfDaysOf(n, row)) = row.days
<1>1. row.days \in Nat
  BY DEF Use
<1>2. IsFiniteSet(1 .. row.days) /\ Cardinality(1 .. row.days) = row.days
  <2>1. /\ IsFiniteSet(1 .. row.days)
        /\ Cardinality(1 .. row.days) = IF 1 > row.days THEN 0 ELSE row.days - 1 + 1
    BY <1>1, FS_Interval
  <2> QED
    BY <1>1, <2>1
<1>3. IsFiniteSet({n}) /\ Cardinality({n}) = 1
  BY FS_Singleton
<1>4. /\ IsFiniteSet({n} \X (1 .. row.days))
      /\ Cardinality({n} \X (1 .. row.days)) = Cardinality({n}) * Cardinality(1 .. row.days)
  BY <1>2, <1>3, FS_Product
<1> QED
  BY <1>1, <1>2, <1>3, <1>4 DEF HalfDaysOf

LEMMA UsedFinite ==
  ASSUME NEW rows \in RowTable, NEW e, NEW y, NEW statuses
  PROVE  /\ IsFiniteSet(HalfDaysUsed(rows, e, y, statuses))
         /\ UsedDays(rows, e, y, statuses) \in Nat
<1> DEFINE S == {m \in Slots : CountsFor(rows[m], e, y, statuses)}
           f == [n \in S |-> HalfDaysOf(n, rows[n])]
           T == {HalfDaysOf(n, rows[n]) : n \in S}
<1>1. IsFiniteSet(S)
  BY SlotsFinite
<1>2. f \in Surjection(S, T)
  BY DEF Surjection
<1>3. IsFiniteSet(T)
  <2> HIDE DEF f, S, T
  <2> QED
    BY <1>1, <1>2, FS_Surjection
<1>4. \A t \in T : IsFiniteSet(t)
  <2>1. \A n \in S : rows[n] \in Use
    BY DEF CountsFor, RowTable
  <2> QED
    BY <2>1, HalfDaysFinite
<1>5. IsFiniteSet(UNION T)
  <2> HIDE DEF T
  <2> QED
    BY <1>3, <1>4, FS_UNION
<1>6. HalfDaysUsed(rows, e, y, statuses) = UNION T
  BY DEF HalfDaysUsed, HalfDaysOf, CountsFor
<1> QED
  BY <1>5, <1>6, FS_CardinalityType DEF UsedDays

\* More rows are more half days.
LEMMA UsedMore ==
  ASSUME NEW rows \in RowTable, NEW more \in RowTable, NEW e, NEW y, NEW s, NEW t,
         HalfDaysUsed(rows, e, y, s) \subseteq HalfDaysUsed(more, e, y, t)
  PROVE  UsedDays(rows, e, y, s) <= UsedDays(more, e, y, t)
BY UsedFinite, FS_Subset DEF UsedDays

\* What changes when one row is replaced.
LEMMA OneRow ==
  ASSUME NEW rows \in RowTable, NEW n \in Slots, NEW row \in Use, NEW e, NEW y, NEW s,
         NEW new \in RowTable, new[n] = row, NEW rest \in RowTable, rest[n] = NoUse,
         \A m \in Slots \ {n} : new[m] = rows[m] /\ rest[m] = rows[m]
  PROVE  /\ UsedDays(rest, e, y, s) <= UsedDays(rows, e, y, s)
         /\ UsedDays(new, e, y, s) <= UsedDays(rest, e, y, s) + row.days
         /\ ~CountsFor(row, e, y, s) => UsedDays(new, e, y, s) = UsedDays(rest, e, y, s)
<1> DEFINE part == HalfDaysOf(n, row)
<1>1. /\ new[n] = row /\ rest[n] = NoUse
      /\ \A m \in Slots \ {n} : new[m] = rows[m] /\ rest[m] = rows[m]
  OBVIOUS
<1> HIDE DEF part
<1>2. ~CountsFor(rest[n], e, y, s)
  BY <1>1 DEF CountsFor
<1>3. HalfDaysUsed(rest, e, y, s) \subseteq HalfDaysUsed(rows, e, y, s)
  BY <1>1, <1>2, UsedIs
<1>4. HalfDaysUsed(new, e, y, s) \subseteq HalfDaysUsed(rest, e, y, s) \cup part
  BY <1>1, UsedIs DEF part
<1>5. ASSUME ~CountsFor(row, e, y, s)
      PROVE  HalfDaysUsed(new, e, y, s) = HalfDaysUsed(rest, e, y, s)
  <2>1. HalfDaysUsed(rest, e, y, s) \subseteq HalfDaysUsed(new, e, y, s)
    BY <1>1, <1>2, UsedIs
  <2>2. \A m \in Slots : CountsFor(new[m], e, y, s) => m # n
    BY <1>1, <1>5
  <2>3. HalfDaysUsed(new, e, y, s) \subseteq HalfDaysUsed(rest, e, y, s)
    BY <1>1, <2>2, UsedIs
  <2> QED
    BY <2>1, <2>3
<1>6. IsFiniteSet(part) /\ Cardinality(part) = row.days
  BY HalfDaysFinite DEF part
<1>7. UsedDays(new, e, y, s) <= UsedDays(rest, e, y, s) + row.days
  <2> DEFINE A == HalfDaysUsed(rest, e, y, s)
             B == HalfDaysUsed(new, e, y, s)
  <2>1. IsFiniteSet(A) /\ IsFiniteSet(B) /\ Cardinality(A) \in Nat /\ Cardinality(B) \in Nat
    BY <1>1, UsedFinite DEF UsedDays
  <2> HIDE DEF A, B
  <2>2. IsFiniteSet(A \cup part) /\ IsFiniteSet(A \cap part)
        /\ Cardinality(A \cup part) = Cardinality(A) + Cardinality(part) - Cardinality(A \cap part)
    BY <1>6, <2>1, FS_Union, FS_Intersection
  <2>3. Cardinality(A \cap part) \in Nat /\ Cardinality(part) \in Nat
    BY <1>6, <2>2, FS_CardinalityType
  <2>4. Cardinality(B) <= Cardinality(A \cup part)
    BY <1>4, <2>2, FS_Subset DEF A, B
  <2> QED
    BY <1>6, <2>1, <2>2, <2>3, <2>4 DEF UsedDays, A, B
<1>8. UsedDays(rest, e, y, s) <= UsedDays(rows, e, y, s)
  BY <1>1, <1>3, UsedMore
<1>9. ~CountsFor(row, e, y, s) => UsedDays(new, e, y, s) = UsedDays(rest, e, y, s)
  BY <1>5 DEF UsedDays
<1> QED
  BY <1>1, <1>7, <1>8, <1>9

-----------------------------------------------------------------------------
(***************************************************************************)
(* Types, and what every running call has planned.                         *)
(***************************************************************************)

\* Detailing does not show in what leave is counted against.
DetailsOnly(now, then) == now \in {then, Detailed(then)}

\* A running call is a request that waits, or it plans for the rows of its year.
Planned(q) ==
  /\ q.op = "request" => q.row.status = "pending"
  /\ q.op \in {"allocate", "annual"} => \A e \in Employees, y \in Years :
       /\ allocations[e][y] = NoAllocation => q.seen[e][y] = NoAllocation
       /\ q.plan[e][y] = NoAllocation => q.seen[e][y] = NoAllocation
       /\ y # q.year => DetailsOnly(q.plan[e][y], q.seen[e][y])

PlanInv == TypeOK /\ \A c \in Calls : Running(c) => Planned(calls[c])

\* What a call that nobody has overtaken may still rely on.
Covered(q) ==
  /\ q.op = "request" /\ q.row.kind = "leave" =>
       q.row.days <= Available(allocations, uses, q.row.employee, YearOf[q.row.first])
  /\ q.op = "decide" /\ q.status = "approved" /\ uses[q.use].kind = "leave" =>
       uses[q.use].days <= Available(allocations, [uses EXCEPT ![q.use] = NoUse],
                                     uses[q.use].employee, YearOf[uses[q.use].first])
  /\ q.op \in {"allocate", "annual"} => \A e \in Employees, y \in Years :
       DetailsOnly(allocations[e][y], q.seen[e][y])
  /\ q.op = "annual" => \A e \in Employees :
       Eligible(e, q.year) => q.plan[e][q.year] = Target(e, q.year)

LEMMA LargerOfTwo ==
  ASSUME NEW a \in Int, NEW b \in Int
  PROVE  Max({a, b}) \in {a, b} /\ Max({a, b}) >= a /\ Max({a, b}) >= b
<1>1. \E x \in {a, b} : \A z \in {a, b} : x >= z
  OBVIOUS
<1> QED
  BY <1>1 DEF Max

LEMMA SmallerOfTwo ==
  ASSUME NEW a \in Int, NEW b \in Int
  PROVE  Min({a, b}) \in {a, b}
<1>1. \E x \in {a, b} : \A z \in {a, b} : x <= z
  OBVIOUS
<1> QED
  BY <1>1 DEF Min

LEMMA CarryType ==
  ASSUME TypeOK, NEW e \in Employees, NEW y \in Years
  PROVE  Carry(e, y) \in Nat
<1>1. CASE ~policy.carry \/ y - 1 \notin Years \/ allocations[e][y - 1] = NoAllocation
  BY <1>1 DEF Carry
<1>2. CASE ~(~policy.carry \/ y - 1 \notin Years \/ allocations[e][y - 1] = NoAllocation)
  <2> DEFINE left == Max({0, Available(allocations, uses, e, y - 1)})
  <2>1. allocations[e][y - 1] \in Allocation
    BY <1>2 DEF TypeOK, Table
  <2>2. Entitled(allocations[e][y - 1]) \in Int
    BY <2>1, DetailedKeeps, NoneAssumption
  <2>3. UsedDays(uses, e, y - 1, {"approved", "pending"}) \in Nat
    BY UsedFinite DEF TypeOK, RowTable
  <2>4. Available(allocations, uses, e, y - 1) \in Int
    BY <2>2, <2>3 DEF Available
  <2>5. left \in Nat
    BY <2>4, LargerOfTwo
  <2>6. policy.cap \in Nat \cup {NoCap}
    BY DEF TypeOK, Policy
  <2>7. Carry(e, y) = IF policy.cap = NoCap THEN left ELSE Min({left, policy.cap})
    BY <1>2 DEF Carry
  <2> HIDE DEF left
  <2>8. policy.cap \in Nat => Min({left, policy.cap}) \in Nat
    BY <2>5, SmallerOfTwo
  <2> QED
    BY <2>5, <2>6, <2>7, <2>8
<1> QED
  BY <1>1, <1>2

LEMMA TargetType ==
  ASSUME TypeOK, NEW e \in Employees, NEW y \in Years
  PROVE  /\ Target(e, y) \in Allocation /\ Target(e, y).detail = TRUE
         /\ Target(e, y).opening = 0 /\ Target(e, y).earned = Entitlement
         /\ Target(e, y).carried = Carry(e, y)
         /\ Entitled(Target(e, y)) = Entitlement + Carry(e, y) + Adjustment(e, y)
<1>1. Carry(e, y) \in Nat /\ Entitlement \in Nat
  BY CarryType, CalendarAssumption
<1>2. Adjustment(e, y) \in Int
  BY DEF Adjustment, TypeOK, Table, Allocation
<1> QED
  BY <1>1, <1>2 DEF Target, Entitled, Allocation

LEMMA AllocatedType ==
  ASSUME NEW row \in Allocation \cup {NoAllocation}, NEW amounts \in AmountChoices
  PROVE  /\ Allocated(row, amounts.opening + amounts.earned, amounts) \in Allocation
         /\ BrokenDown(row, amounts) \in Allocation
<1>1. /\ amounts.opening \in Nat /\ amounts.earned \in Nat /\ amounts.carried \in Nat
      /\ amounts.adjustment \in Int
  BY CalendarAssumption
<1> DEFINE one == Allocated(row, amounts.opening + amounts.earned, amounts)
<1>2. one \in Allocation
  <2> DEFINE none == [detail |-> FALSE, opening |-> 0, earned |-> 0]
             old == IF row = NoAllocation THEN none ELSE row
  <2>1. old.detail \in BOOLEAN /\ old.opening \in Nat /\ old.earned \in Nat
    BY DEF Allocation
  <2>2. amounts.opening + amounts.earned \in Nat
    BY <1>1
  <2>3. one = [allocated |-> amounts.opening + amounts.earned, carried |-> amounts.carried,
               adjustment |-> amounts.adjustment, detail |-> old.detail,
               opening |-> old.opening, earned |-> old.earned]
    BY DEF Allocated
  <2> HIDE DEF old, one
  <2> QED
    BY <1>1, <2>1, <2>2, <2>3 DEF Allocation
<1>3. BrokenDown(row, amounts) = [one EXCEPT !.detail = TRUE, !.opening = amounts.opening,
                                            !.earned = amounts.earned]
  BY DEF BrokenDown
<1> HIDE DEF one
<1>4. BrokenDown(row, amounts) \in Allocation
  BY <1>1, <1>2, <1>3 DEF Allocation
<1> QED
  BY <1>2, <1>4 DEF one


\* What a request of a call sets up.
LEMMA RequestPlans ==
  ASSUME TypeOK, NEW c \in Calls, Request(c)
  PROVE  \E call \in Call : Begin(c, call) /\ Planned(call) /\ Covered(call)
<1> DEFINE Goal == \E call \in Call : Begin(c, call) /\ Planned(call) /\ Covered(call)
<1>1. ASSUME NEW e \in Employees, NEW period \in Periods, NEW part \in {"full", "half"},
             RequestLeave(c, e, period[1], period[2], part)
      PROVE  Goal
  <2> DEFINE days == RequestedDays(period[1], period[2], part)
             row == NewUse("leave", e, period[1], period[2], part, days)
             call == [op |-> "request", row |-> row]
  <2>1. days \in Nat /\ period[1] \in Days /\ period[2] \in Days
    BY DaysType, CalendarAssumption
  <2>2. /\ row \in Use /\ row.employee = e /\ row.first = period[1] /\ row.days = days
        /\ row.status = "pending" /\ row.kind = "leave"
    BY <2>1 DEF NewUse, Use
  <2>3. days <= Available(allocations, uses, e, YearOf[period[1]])
    BY <1>1 DEF RequestLeave, MayRequestLeave
  <2>4. Begin(c, call)
    BY <1>1 DEF RequestLeave
  <2> HIDE DEF row, days
  <2>5. call \in Call /\ Planned(call) /\ Covered(call)
    BY <2>2, <2>3 DEF Call, Planned, Covered
  <2> QED
    BY <2>4, <2>5
<1>2. ASSUME NEW e \in Employees, NEW period \in Periods, RequestDuty(c, e, period[1], period[2])
      PROVE  Goal
  <2> DEFINE row == NewUse("duty", e, period[1], period[2], "full", 0)
             call == [op |-> "request", row |-> row]
  <2>1. row \in Use /\ row.status = "pending" /\ row.kind = "duty"
    BY CalendarAssumption DEF NewUse, Use
  <2>2. Begin(c, call)
    BY <1>2 DEF RequestDuty
  <2> HIDE DEF row
  <2>3. call \in Call /\ Planned(call) /\ Covered(call)
    BY <2>1 DEF Call, Planned, Covered
  <2> QED
    BY <2>2, <2>3
<1>3. ASSUME NEW n \in Slots, NEW status \in Decisions, Asks(c, n, status),
             status = "approved" /\ uses[n].kind = "leave" => MayDecideLeave(n, status)
      PROVE  Goal
  <2> DEFINE call == [op |-> "decide", use |-> n, status |-> status]
  <2>1. call \in Call /\ Planned(call)
    BY DEF Call, Planned
  <2>2. Covered(call)
    BY <1>3 DEF Covered, MayDecideLeave
  <2> QED
    BY <1>3, <2>1, <2>2 DEF Asks
<1>4. ASSUME NEW n \in Slots, NEW user \in Users, NEW status \in {"approved", "rejected"},
             DecideLeave(c, user, n, status) \/ DecideDuty(c, user, n, status)
      PROVE  Goal
  BY <1>3, <1>4 DEF DecideLeave, DecideDuty, MayDecideDuty, Pending, Decisions
<1>5. ASSUME NEW n \in Slots, CancelLeave(c, n) \/ CancelDuty(c, n)
      PROVE  Goal
  BY <1>3, <1>5 DEF CancelLeave, CancelDuty, Decisions
<1>6. ASSUME NEW op \in {"allocate", "annual"}, NEW y \in Years, NEW plan \in Table,
             Begin(c, [op |-> op, year |-> y, seen |-> allocations, plan |-> plan]),
             \A e \in Employees, z \in Years :
               /\ plan[e][z] = NoAllocation => allocations[e][z] = NoAllocation
               /\ z # y => DetailsOnly(plan[e][z], allocations[e][z]),
             op = "annual" => \A e \in Employees : Eligible(e, y) => plan[e][y] = Target(e, y)
      PROVE  Goal
  <2> DEFINE call == [op |-> op, year |-> y, seen |-> allocations, plan |-> plan]
  <2>1. call \in Call
    BY DEF Call, TypeOK
  <2>2. Planned(call) /\ Covered(call)
    BY <1>6 DEF Planned, Covered, DetailsOnly
  <2> QED
    BY <1>6, <2>1, <2>2
<1>7. ASSUME NEW y \in Years, NEW e \in Employees, NEW amounts \in AmountChoices,
             AllocateLeave(c, e, y, amounts) \/ AllocateBreakdown(c, e, y, amounts)
      PROVE  Goal
  <2>1. PICK row \in Allocation : Allocates(c, e, y, row)
    <3>1. allocations[e][y] \in Allocation \cup {NoAllocation}
      BY DEF TypeOK, Table
    <3> QED
      BY <1>7, <3>1, AllocatedType DEF AllocateLeave, AllocateBreakdown
  <2> DEFINE plan == [allocations EXCEPT ![e][y] = row]
  <2>2. plan \in Table
    BY DEF TypeOK, Table
  <2>3. /\ plan[e][y] = row
        /\ \A f \in Employees, z \in Years : <<f, z>> # <<e, y>> => plan[f][z] = allocations[f][z]
    BY DEF TypeOK, Table
  <2>4. Begin(c, [op |-> "allocate", year |-> y, seen |-> allocations, plan |-> plan])
    BY <2>1 DEF Allocates
  <2> HIDE DEF plan
  <2>5. row # NoAllocation
    BY NoneAssumption
  <2> QED
    BY <1>6, <2>2, <2>3, <2>4, <2>5 DEF DetailsOnly
<1>8. ASSUME NEW y \in Years, AllocateAnnually(c, y)
      PROVE  Goal
  <2> DEFINE plan == AnnualPlan(y)
  <2>1. \A e \in Employees, z \in Years :
          /\ plan[e][z] \in Allocation \cup {NoAllocation}
          /\ plan[e][z] = NoAllocation => allocations[e][z] = NoAllocation
          /\ z # y => DetailsOnly(plan[e][z], allocations[e][z])
          /\ Eligible(e, y) => plan[e][y] = Target(e, y)
    <3> SUFFICES ASSUME NEW e \in Employees, NEW z \in Years
                 PROVE  /\ plan[e][z] \in Allocation \cup {NoAllocation}
                        /\ plan[e][z] = NoAllocation => allocations[e][z] = NoAllocation
                        /\ z # y => DetailsOnly(plan[e][z], allocations[e][z])
                        /\ Eligible(e, y) => plan[e][y] = Target(e, y)
      OBVIOUS
    <3>1. allocations[e][z] \in Allocation \cup {NoAllocation}
      BY DEF TypeOK, Table
    <3>2. /\ Detailed(allocations[e][z]) \in Allocation \cup {NoAllocation}
          /\ Detailed(allocations[e][z]) = NoAllocation => allocations[e][z] = NoAllocation
      BY <3>1, DetailedKeeps
    <3>3. Target(e, y) \in Allocation /\ Target(e, y) # NoAllocation
      BY TargetType, NoneAssumption
    <3>4. plan[e][z] = IF ~Eligible(e, y) THEN allocations[e][z]
                       ELSE IF z = y THEN Target(e, y)
                       ELSE IF z = y - 1 /\ policy.carry THEN Detailed(allocations[e][z])
                       ELSE allocations[e][z]
      BY DEF AnnualPlan
    <3>5. Eligible(e, y) => plan[e][y] = Target(e, y)
      BY DEF AnnualPlan
    <3> HIDE DEF plan
    <3> QED
      BY <3>1, <3>2, <3>3, <3>4, <3>5 DEF DetailsOnly
  <2>2. plan \in Table
    BY <2>1 DEF AnnualPlan, Table
  <2>3. Begin(c, [op |-> "annual", year |-> y, seen |-> allocations, plan |-> plan])
    BY <1>8 DEF AllocateAnnually
  <2> HIDE DEF plan
  <2> QED
    BY <1>6, <2>1, <2>2, <2>3
<1>9. QED
  BY <1>1, <1>2, <1>4, <1>5, <1>7, <1>8 DEF Request

LEMMA InitPlans == Init => PlanInv
<1> SUFFICES ASSUME Init PROVE PlanInv
  OBVIOUS
<1>1. /\ weekends \in SUBSET (0 .. 6)
      /\ holidays \in [Days -> SUBSET Holiday]
      /\ policy \in Policy /\ allocations \in Table
  BY StandingAssumption DEF Init
<1>2. /\ uses \in [Slots -> Use \cup {NoUse}] /\ calls \in [Calls -> Call \cup {NoCall}]
      /\ setups \in 0 .. MaxSetups /\ overtaken \subseteq Calls /\ overlaps \in 0 .. MaxOverlaps
  BY CalendarAssumption DEF Init
<1>3. cut \in [{"requested", "approved"} -> SUBSET (Employees \X Years)]
  BY DEF Init
<1> QED
  BY <1>1, <1>2, <1>3 DEF PlanInv, TypeOK, Init, Running

\* The calls that remain keep what they have planned.
LEMMA PlansRemain ==
  ASSUME TypeOK',
         \A e \in Employees, y \in Years :
           allocations'[e][y] = NoAllocation => allocations[e][y] = NoAllocation,
         \A c \in Calls : Running(c)' => \E q : q = calls'[c] /\ Planned(q)
  PROVE  PlanInv'
<1>1. \A q : Planned(q) => Planned(q)'
  BY DEF Planned
<1>2. ASSUME NEW c \in Calls, Running(c)'
      PROVE  Planned(calls[c])'
  <2>1. PICK q : q = calls'[c] /\ Planned(q)'
    BY <1>1, <1>2
  <2> QED
    BY <2>1 DEF Planned
<1> QED
  BY <1>2 DEF PlanInv

\* Reading creates details only.
LEMMA ReadDetails ==
  ASSUME TypeOK, NEW e \in Employees, NEW y \in Years, ReadBalances(e, y)
  PROVE  /\ allocations' \in Table
         /\ \A f \in Employees, z \in Years : DetailsOnly(allocations'[f][z], allocations[f][z])
<1>1. allocations' = [allocations EXCEPT ![e][y] = Detailed(allocations[e][y])]
  BY DEF ReadBalances
<1>2. allocations[e][y] \in Allocation \cup {NoAllocation}
  BY DEF TypeOK, Table
<1>3. Detailed(allocations[e][y]) \in Allocation \cup {NoAllocation}
  BY <1>2, DetailedKeeps
<1>4. allocations' \in Table
  BY <1>1, <1>3 DEF TypeOK, Table
<1>5. \A f \in Employees, z \in Years :
        allocations'[f][z] = IF f = e /\ z = y THEN Detailed(allocations[e][y]) ELSE allocations[f][z]
  BY <1>1 DEF TypeOK, Table
<1> QED
  BY <1>4, <1>5 DEF DetailsOnly

\* What a write makes of the allocations.
LEMMA WriteTable ==
  ASSUME PlanInv, NEW c \in Calls, WriteAllocations(c)
  PROVE  /\ allocations' \in Table
         /\ \A e \in Employees, y \in Years :
              /\ allocations'[e][y] = Written(allocations[e][y], calls[c].seen[e][y], calls[c].plan[e][y])
              /\ allocations'[e][y] = NoAllocation => allocations[e][y] = NoAllocation
              /\ y # calls[c].year =>
                   /\ allocations'[e][y] = NoAllocation <=> allocations[e][y] = NoAllocation
                   /\ Entitled(allocations'[e][y]) = Entitled(allocations[e][y])
<1> DEFINE q == calls[c]
<1>1. /\ calls[c] # NoCall /\ calls[c].op \in {"allocate", "annual"} /\ calls[c] \in Call
      /\ Planned(calls[c])
  BY DEF WriteAllocations, Ready, PlanInv, TypeOK, Running
<1>2. calls[c].seen \in Table /\ calls[c].plan \in Table /\ calls[c].year \in Years
  BY <1>1 DEF Call
<1>3. allocations' = [e \in Employees |-> [y \in Years |->
                       Written(allocations[e][y], q.seen[e][y], q.plan[e][y])]]
  BY DEF WriteAllocations
<1>4. ASSUME NEW e \in Employees, NEW y \in Years
      PROVE  /\ allocations'[e][y] = Written(allocations[e][y], q.seen[e][y], q.plan[e][y])
             /\ allocations'[e][y] \in Allocation \cup {NoAllocation}
             /\ allocations'[e][y] = NoAllocation => allocations[e][y] = NoAllocation
             /\ y # q.year =>
                  /\ allocations'[e][y] = NoAllocation <=> allocations[e][y] = NoAllocation
                  /\ Entitled(allocations'[e][y]) = Entitled(allocations[e][y])
  <2> DEFINE now == allocations[e][y]
             seen == q.seen[e][y]
             new == q.plan[e][y]
  <2>1. /\ now \in Allocation \cup {NoAllocation} /\ seen \in Allocation \cup {NoAllocation}
        /\ new \in Allocation \cup {NoAllocation}
    BY <1>2 DEF PlanInv, TypeOK, Table
  <2>2. /\ now = NoAllocation => seen = NoAllocation
        /\ new = NoAllocation => seen = NoAllocation
        /\ y # q.year => new \in {seen, Detailed(seen)}
    BY <1>1 DEF Planned, DetailsOnly
  <2>3. allocations'[e][y] = Written(now, seen, new)
    BY <1>3
  <2> HIDE DEF now, seen, new
  <2>4. /\ Written(now, seen, new) \in Allocation \cup {NoAllocation}
        /\ Written(now, seen, new) = NoAllocation => now = NoAllocation
        /\ y # q.year => /\ Written(now, seen, new) = NoAllocation <=> now = NoAllocation
                         /\ Entitled(Written(now, seen, new)) = Entitled(now)
    BY <2>1, <2>2, WrittenRow
  <2> QED
    BY <2>3, <2>4 DEF now, seen, new
<1>5. allocations' \in Table
  BY <1>3, <1>4 DEF Table
<1> QED
  BY <1>4, <1>5

LEMMA CommittedTypes ==
  ASSUME TypeOK, NEW c \in Calls, Committed(c), c \in overtaken => overlaps < MaxOverlaps
  PROVE  /\ calls' \in [Calls -> Call \cup {NoCall}]
         /\ overtaken' \subseteq Calls /\ overlaps' \in 0 .. MaxOverlaps
         /\ \A d \in Calls : Running(d)' => Running(d) /\ calls'[d] = calls[d]
BY CalendarAssumption DEF Committed, TypeOK, Running

LEMMA StepPlans == PlanInv /\ LeaveInv /\ [Next]_vars => PlanInv'
<1> SUFFICES ASSUME PlanInv, LeaveInv, [Next]_vars PROVE PlanInv'
  OBVIOUS
<1>0. TypeOK /\ \A c \in Calls : Running(c) => Planned(calls[c])
  BY DEF PlanInv
<1>1. CASE UNCHANGED vars
  <2>1. UNCHANGED <<weekends, holidays, policy, allocations, uses, calls, setups, cut,
                    overtaken, overlaps>>
    BY <1>1 DEF vars, setup, history
  <2>2. TypeOK'
    BY <1>0, <2>1 DEF TypeOK
  <2> QED
    BY <1>0, <2>1, <2>2, PlansRemain DEF Running
<1>2. ASSUME \/ \E chosen \in WeekendChoices : SetWeekends(chosen)
             \/ \E d \in HolidayDates, holiday \in HolidayChoices :
                  \/ CreateHoliday(d, holiday)
                  \/ \E row \in holidays[d] : UpdateHoliday(d, row, holiday)
             \/ \E chosen \in RuleChoices : UpdatePolicyRule(chosen)
      PROVE  PlanInv'
  <2>1. UNCHANGED <<allocations, uses, calls, cut, overlaps>> /\ SetUp
        /\ overtaken' = {c \in Calls : calls[c] # NoCall}
    BY <1>2 DEF SetWeekends, CreateHoliday, UpdateHoliday, UpdatePolicyRule, Changed
  <2>2. /\ weekends' \in SUBSET (0 .. 6) /\ policy' \in Policy
        /\ holidays' \in [Days -> SUBSET Holiday]
    <3>1. \A chosen \in WeekendChoices : chosen \in SUBSET (0 .. 6)
      BY CalendarAssumption
    <3>2. \A holiday \in HolidayChoices : holiday \in Holiday
      BY CalendarAssumption
    <3>3. \A chosen \in RuleChoices : chosen \in Policy
      BY CalendarAssumption
    <3>4. /\ weekends \in SUBSET (0 .. 6) /\ policy \in Policy
          /\ holidays \in [Days -> SUBSET Holiday]
      BY <1>0 DEF TypeOK
    <3>5. CASE \E chosen \in WeekendChoices : SetWeekends(chosen)
      BY <3>1, <3>4, <3>5 DEF SetWeekends
    <3>6. CASE \E d \in HolidayDates, holiday \in HolidayChoices :
                 \/ CreateHoliday(d, holiday)
                 \/ \E row \in holidays[d] : UpdateHoliday(d, row, holiday)
      <4>1. PICK d \in HolidayDates, holiday \in HolidayChoices :
              \/ CreateHoliday(d, holiday)
              \/ \E row \in holidays[d] : UpdateHoliday(d, row, holiday)
        BY <3>6
      <4>2. /\ \E rows \in SUBSET Holiday : holidays' = [holidays EXCEPT ![d] = rows]
            /\ UNCHANGED <<weekends, policy>>
        <5>1. holidays[d] \subseteq Holiday /\ holiday \in Holiday
          BY <3>2, <3>4, CalendarAssumption
        <5>2. CASE CreateHoliday(d, holiday)
          BY <5>1, <5>2 DEF CreateHoliday
        <5>3. CASE \E row \in holidays[d] : UpdateHoliday(d, row, holiday)
          BY <5>1, <5>3 DEF UpdateHoliday
        <5> QED
          BY <4>1, <5>2, <5>3
      <4> QED
        BY <3>4, <4>2
    <3>7. CASE \E chosen \in RuleChoices : UpdatePolicyRule(chosen)
      BY <3>3, <3>4, <3>7 DEF UpdatePolicyRule
    <3> QED
      BY <1>2, <3>5, <3>6, <3>7
  <2>3. setups' \in 0 .. MaxSetups
    BY <1>0, <2>1, CalendarAssumption DEF SetUp, TypeOK
  <2>4. TypeOK'
    BY <1>0, <2>1, <2>2, <2>3 DEF TypeOK
  <2> QED
    BY <1>0, <2>1, <2>4, PlansRemain DEF Running
<1>3. ASSUME NEW e \in Employees, NEW y \in Years, ReadBalances(e, y)
      PROVE  PlanInv'
  <2>1. /\ UNCHANGED <<weekends, holidays, policy, uses, calls, setups, cut, overtaken, overlaps>>
        /\ allocations' \in Table
        /\ \A f \in Employees, z \in Years : DetailsOnly(allocations'[f][z], allocations[f][z])
    BY <1>0, <1>3, ReadDetails DEF ReadBalances, setup, history
  <2>2. TypeOK'
    BY <1>0, <2>1 DEF TypeOK
  <2>3. \A f \in Employees, z \in Years :
          allocations'[f][z] = NoAllocation => allocations[f][z] = NoAllocation
    <3>1. \A f \in Employees, z \in Years : allocations[f][z] \in Allocation \cup {NoAllocation}
      BY <1>0 DEF TypeOK, Table
    <3> QED
      BY <2>1, <3>1, DetailedKeeps DEF DetailsOnly
  <2> QED
    BY <1>0, <2>1, <2>2, <2>3, PlansRemain DEF Running
<1>4. ASSUME NEW c \in Calls, Request(c)
      PROVE  PlanInv'
  <2>1. PICK call \in Call : Begin(c, call) /\ Planned(call)
    BY <1>0, <1>4, RequestPlans
  <2>2. /\ UNCHANGED <<weekends, holidays, policy, allocations, uses, setups, cut, overlaps>>
        /\ calls' = [calls EXCEPT ![c] = call] /\ overtaken' = overtaken \ {c}
    BY <2>1 DEF Begin, setup
  <2>3. TypeOK' /\ \A d \in Calls : calls'[d] = IF d = c THEN call ELSE calls[d]
    BY <1>0, <2>2 DEF TypeOK
  <2>4. \A d \in Calls : Running(d)' => Planned(calls'[d])
    BY <1>0, <2>1, <2>3 DEF Running
  <2> QED
    BY <2>2, <2>3, <2>4, PlansRemain
<1>5. ASSUME NEW c \in Calls, WriteRequest(c) \/ WriteDecision(c)
      PROVE  PlanInv'
  <2>1. /\ UNCHANGED <<weekends, holidays, policy, allocations, setups, cut>>
        /\ Committed(c) /\ (c \in overtaken => overlaps < MaxOverlaps)
    BY <1>5 DEF WriteRequest, WriteDecision, Ready, setup
  <2>2. uses' \in [Slots -> Use \cup {NoUse}]
    <3>1. CASE WriteRequest(c)
      <4>1. calls[c].row \in Use
        BY <1>0, <3>1 DEF WriteRequest, Ready, TypeOK, Call
      <4> QED
        BY <1>0, <3>1, <4>1 DEF WriteRequest, TypeOK
    <3>2. CASE WriteDecision(c)
      <4>1. calls[c] \in Call /\ calls[c].op = "decide"
        BY <1>0, <3>2 DEF WriteDecision, Ready, TypeOK
      <4>2. calls[c].use \in Slots /\ calls[c].status \in Decisions
        BY <4>1 DEF Call
      <4>3. calls[c].use \in Taken
        BY <3>2, <4>1 DEF LeaveInv, Shape, CallShape, WriteDecision, Ready, Running
      <4> DEFINE row == [uses[calls[c].use] EXCEPT !.status = calls[c].status]
      <4>4. row \in Use
        BY <1>0, <4>2, <4>3 DEF TypeOK, Taken, Use
      <4>5. uses' = [uses EXCEPT ![calls[c].use] = row]
        BY <3>2 DEF WriteDecision
      <4> QED
        BY <1>0, <4>4, <4>5 DEF TypeOK
    <3> QED
      BY <1>5, <3>1, <3>2
  <2>3. TypeOK' /\ \A d \in Calls : Running(d)' => Running(d) /\ calls'[d] = calls[d]
    BY <1>0, <2>1, <2>2, CommittedTypes DEF TypeOK
  <2> QED
    BY <1>0, <2>1, <2>3, PlansRemain
<1>6. ASSUME NEW c \in Calls, WriteAllocations(c)
      PROVE  PlanInv'
  <2>1. /\ UNCHANGED <<weekends, holidays, policy, uses>> /\ SetUp
        /\ Committed(c) /\ (c \in overtaken => overlaps < MaxOverlaps)
        /\ calls[c] # NoCall /\ calls[c].op \in {"allocate", "annual"}
    BY <1>6 DEF WriteAllocations, Ready, setup
  <2>2. calls[c].year \in Years
    BY <1>0, <2>1 DEF TypeOK, Call
  <2>3. cut' \in [{"requested", "approved"} -> SUBSET (Employees \X Years)]
    <3>1. \A of : Short(allocations', calls[c].year, Counted(of)) \X {calls[c].year}
                    \subseteq Employees \X Years
      BY <2>2 DEF Short
    <3> QED
      BY <1>0, <1>6, <3>1 DEF WriteAllocations, TypeOK
  <2>4. setups' \in 0 .. MaxSetups
    BY <1>0, <2>1, CalendarAssumption DEF SetUp, TypeOK
  <2>5. /\ allocations' \in Table
        /\ \A e \in Employees, y \in Years :
             allocations'[e][y] = NoAllocation => allocations[e][y] = NoAllocation
    BY <1>6, WriteTable
  <2>6. TypeOK' /\ \A d \in Calls : Running(d)' => Running(d) /\ calls'[d] = calls[d]
    BY <1>0, <2>1, <2>3, <2>4, <2>5, CommittedTypes DEF TypeOK
  <2> QED
    BY <1>0, <2>5, <2>6, PlansRemain
<1>7. ASSUME NEW c \in Calls, Abandon(c)
      PROVE  PlanInv'
  <2>1. UNCHANGED <<weekends, holidays, policy, allocations, uses, setups, cut, overlaps>>
        /\ calls' = [calls EXCEPT ![c] = NoCall] /\ overtaken' = overtaken \ {c}
    BY <1>7 DEF Abandon, setup
  <2>2. TypeOK' /\ \A d \in Calls : Running(d)' => Running(d) /\ calls'[d] = calls[d]
    BY <1>0, <2>1 DEF TypeOK, Running
  <2> QED
    BY <1>0, <2>1, <2>2, PlansRemain
<1> QED
  BY <1>1, <1>2, <1>3, <1>4, <1>5, <1>6, <1>7 DEF Next, Administrate, Operate

-----------------------------------------------------------------------------
(***************************************************************************)
(* Balances.                                                               *)
(***************************************************************************)

BalanceInv ==
  /\ \A c \in Calls \ overtaken : Running(c) => Covered(calls[c])
  /\ NeverOverdrawn /\ ApprovalsCovered

Both == {"pending", "approved"}

LEMMA EntitledType ==
  ASSUME TypeOK, NEW e \in Employees, NEW y \in Years, allocations[e][y] # NoAllocation
  PROVE  allocations[e][y] \in Allocation /\ Entitled(allocations[e][y]) \in Int
<1>1. allocations[e][y] \in Allocation \cup {NoAllocation}
  BY DEF TypeOK, Table
<1> QED
  BY <1>1, DetailedKeeps, NoneAssumption

\* Where only details are created nothing changes that is counted on.
LEMMA DetailsKeepBalances ==
  ASSUME TypeOK, UNCHANGED <<uses, policy>>,
         \A e \in Employees, y \in Years : DetailsOnly(allocations'[e][y], allocations[e][y])
  PROVE  /\ \A y \in Years : \A s : Short(allocations, y, s)' = Short(allocations, y, s)
         /\ \A q \in Call : CallShape(q) /\ Planned(q) /\ Covered(q) => Covered(q)'
<1>1. ASSUME NEW e \in Employees, NEW y \in Years
      PROVE  /\ allocations'[e][y] = NoAllocation <=> allocations[e][y] = NoAllocation
             /\ Entitled(allocations'[e][y]) = Entitled(allocations[e][y])
             /\ allocations[e][y] # NoAllocation =>
                  allocations'[e][y].adjustment = allocations[e][y].adjustment
             /\ \A seen \in Allocation \cup {NoAllocation} :
                  DetailsOnly(allocations[e][y], seen) => DetailsOnly(allocations'[e][y], seen)
  <2>1. allocations[e][y] \in Allocation \cup {NoAllocation}
    BY DEF TypeOK, Table
  <2>2. \A seen \in Allocation \cup {NoAllocation} :
          DetailsOnly(allocations[e][y], seen) => DetailsOnly(allocations'[e][y], seen)
    BY DetailedTwice DEF DetailsOnly
  <2> QED
    BY <2>1, <2>2, DetailedKeeps DEF DetailsOnly
<1>2. ASSUME NEW y \in Years, NEW s
      PROVE  Short(allocations, y, s)' = Short(allocations, y, s)
  BY <1>1 DEF Short
<1>3. ASSUME NEW e \in Employees, NEW y \in Years, NEW rows
      PROVE  Available(allocations', rows, e, y) = Available(allocations, rows, e, y)
  BY <1>1 DEF Available
<1>4. ASSUME NEW e \in Employees, NEW y \in Years
      PROVE  Target(e, y)' = Target(e, y) /\ (Eligible(e, y)' <=> Eligible(e, y))
  <2>1. Carry(e, y)' = Carry(e, y)
    <3>1. CASE y - 1 \in Years
      <4>1. /\ allocations'[e][y - 1] = NoAllocation <=> allocations[e][y - 1] = NoAllocation
            /\ Available(allocations', uses, e, y - 1) = Available(allocations, uses, e, y - 1)
        BY <1>1, <1>3, <3>1
      <4> QED
        BY <4>1 DEF Carry
    <3>2. CASE y - 1 \notin Years
      BY <3>2 DEF Carry
    <3> QED
      BY <3>1, <3>2
  <2>2. Adjustment(e, y)' = Adjustment(e, y)
    BY <1>1 DEF Adjustment
  <2> QED
    BY <2>1, <2>2 DEF Target, Eligible
<1>5. ASSUME NEW q \in Call, CallShape(q), Covered(q)
      PROVE  Covered(q)'
  <2>1. ASSUME q.op = "request", q.row.kind = "leave"
        PROVE  q.row.days <= Available(allocations', uses', q.row.employee, YearOf[q.row.first])
    <3>1. q.row.employee \in Employees /\ YearOf[q.row.first] \in Years
      BY <1>5, <2>1, CalendarAssumption DEF CallShape, Use
    <3> QED
      BY <1>3, <1>5, <2>1, <3>1 DEF Covered
  <2>2. ASSUME q.op = "decide", q.status = "approved", uses[q.use].kind = "leave"
        PROVE  uses'[q.use].days <= Available(allocations', [uses' EXCEPT ![q.use] = NoUse],
                                       uses'[q.use].employee, YearOf[uses'[q.use].first])
    <3>1. uses[q.use] \in Use
      BY <1>5, <2>2 DEF CallShape, Taken, TypeOK
    <3>2. uses[q.use].employee \in Employees /\ YearOf[uses[q.use].first] \in Years
      BY <3>1, CalendarAssumption DEF Use
    <3> QED
      BY <1>3, <1>5, <2>2, <3>2 DEF Covered
  <2>3. ASSUME q.op \in {"allocate", "annual"}
        PROVE  q.year \in Years /\ q.seen \in Table
    BY <2>3 DEF Call
  <2>4. ASSUME q.op \in {"allocate", "annual"}, NEW e \in Employees, NEW y \in Years
        PROVE  DetailsOnly(allocations'[e][y], q.seen[e][y])
    <3>1. q.seen[e][y] \in Allocation \cup {NoAllocation}
      BY <2>3, <2>4 DEF Table
    <3>2. DetailsOnly(allocations[e][y], q.seen[e][y])
      BY <1>5, <2>4 DEF Covered
    <3> QED
      BY <1>1, <3>1, <3>2
  <2>5. ASSUME q.op = "annual", NEW e \in Employees, Eligible(e, q.year)'
        PROVE  q.plan[e][q.year] = Target(e, q.year)'
    BY <1>4, <1>5, <2>3, <2>5 DEF Covered
  <2> QED
    BY <2>1, <2>2, <2>4, <2>5 DEF Covered
<1> QED
  BY <1>2, <1>5

\* A request or a decision that nobody has overtaken leaves nobody short.
LEMMA WriteKeepsBalances ==
  ASSUME PlanInv, PlanInv', LeaveInv, BalanceInv, NEW c \in Calls, c \notin overtaken,
         WriteRequest(c) \/ WriteDecision(c)
  PROVE  \A y \in Years, s \in {Both, {"approved"}} :
           Short(allocations, y, s)' \subseteq Short(allocations, y, s)
<1> DEFINE q == calls[c]
<1>0. /\ TypeOK /\ uses \in RowTable /\ uses' \in RowTable /\ Both = {"approved", "pending"}
      /\ q \in Call /\ Planned(q) /\ Covered(q) /\ CallShape(q) /\ Holds(q)
      /\ allocations' = allocations
  BY DEF PlanInv, TypeOK, RowTable, BalanceInv, LeaveInv, Shape, CallsCurrent, Running, Both,
         WriteRequest, WriteDecision, Ready
<1> SUFFICES ASSUME NEW y \in Years, NEW s \in {Both, {"approved"}},
                    NEW e \in Short(allocations, y, s)'
             PROVE  e \in Short(allocations, y, s)
  OBVIOUS
<1>1. /\ e \in Employees /\ allocations[e][y] # NoAllocation
      /\ Entitled(allocations[e][y]) < UsedDays(uses', e, y, s)
  BY <1>0 DEF Short
<1>2. Entitled(allocations[e][y]) \in Int
  BY <1>0, <1>1, EntitledType
<1>3. \A rows \in RowTable : \A t : UsedDays(rows, e, y, t) \in Nat
  BY UsedFinite
<1>4. ASSUME UsedDays(uses', e, y, s) <= UsedDays(uses, e, y, s)
      PROVE  e \in Short(allocations, y, s)
  BY <1>0, <1>1, <1>2, <1>3, <1>4 DEF Short
<1>5. CASE WriteRequest(c)
  <2> DEFINE row == q.row
  <2>1. row \in Use /\ row.status = "pending"
    BY <1>0, <1>5 DEF WriteRequest, Ready, CallShape, Planned
  <2>2. PICK n \in Slots \ Taken : uses' = [uses EXCEPT ![n] = row]
    BY <1>5 DEF WriteRequest
  <2>3. /\ n \in Slots /\ uses[n] = NoUse /\ uses'[n] = row
        /\ \A m \in Slots \ {n} : uses'[m] = uses[m] /\ uses[m] = uses[m]
    BY <1>0, <2>2 DEF Taken, RowTable
  <2> HIDE DEF row
  <2>4. /\ UsedDays(uses', e, y, s) <= UsedDays(uses, e, y, s) + row.days
        /\ ~CountsFor(row, e, y, s) => UsedDays(uses', e, y, s) = UsedDays(uses, e, y, s)
    BY <1>0, <2>1, <2>3, OneRow
  <2>5. ASSUME CountsFor(row, e, y, s)
        PROVE  FALSE
    <3>1. s = Both /\ row.kind = "leave" /\ row.employee = e /\ YearOf[row.first] = y
      BY <2>1, <2>5 DEF CountsFor
    <3>2. row.days <= Available(allocations, uses, e, y)
      BY <1>0, <1>5, <3>1 DEF Covered, WriteRequest, Ready, row
    <3>3. row.days \in Nat /\ UsedDays(uses, e, y, s) \in Nat /\ UsedDays(uses', e, y, s) \in Nat
      BY <1>0, <1>3, <2>1 DEF Use
    <3> QED
      BY <1>0, <1>1, <1>2, <2>4, <3>1, <3>2, <3>3 DEF Available
  <2>6. UsedDays(uses', e, y, s) = UsedDays(uses, e, y, s)
    BY <2>4, <2>5
  <2> QED
    BY <1>0, <1>3, <1>4, <2>6
<1>6. CASE WriteDecision(c)
  <2> DEFINE n == q.use
             row == [uses[n] EXCEPT !.status = q.status]
             rest == [uses EXCEPT ![n] = NoUse]
  <2>1. /\ n \in Taken /\ q.status \in Decisions /\ Open(n) /\ q.op = "decide"
    BY <1>0, <1>6 DEF WriteDecision, Ready, CallShape, Holds
  <2>2. n \in Slots /\ uses[n] \in Use
    BY <1>0, <2>1 DEF Taken, RowTable
  <2>3. /\ row \in Use /\ row.status = q.status /\ row.kind = uses[n].kind
        /\ row.employee = uses[n].employee /\ row.first = uses[n].first
        /\ row.days = uses[n].days
    BY <2>1, <2>2 DEF Use
  <2>4. uses' = [uses EXCEPT ![n] = row]
    BY <1>6 DEF WriteDecision
  <2> HIDE DEF row, rest, n
  <2>5. /\ rest \in RowTable
        /\ \A t : /\ UsedDays(rest, e, y, t) <= UsedDays(uses, e, y, t)
                  /\ UsedDays(uses', e, y, t) <= UsedDays(rest, e, y, t) + row.days
                  /\ ~CountsFor(row, e, y, t) => UsedDays(uses', e, y, t) = UsedDays(rest, e, y, t)
    <3>1. /\ rest \in RowTable /\ rest[n] = NoUse /\ uses'[n] = row
          /\ \A m \in Slots \ {n} : uses'[m] = uses[m] /\ rest[m] = uses[m]
      BY <1>0, <2>2, <2>4 DEF rest, RowTable
    <3> QED
      BY <1>0, <2>2, <2>3, <3>1, OneRow
  <2>6. CASE ~CountsFor(row, e, y, s)
    <3>1. UsedDays(uses', e, y, s) <= UsedDays(uses, e, y, s)
      BY <2>5, <2>6
    <3> QED
      BY <1>4, <3>1
  <2>7. CASE CountsFor(row, e, y, s) /\ s = Both
    \* The row was open before.
    <3>1. CountsFor(uses[n], e, y, s)
      BY <2>1, <2>2, <2>3, <2>7, NoneAssumption DEF CountsFor, Open, Both
    <3>2. HalfDaysOf(n, row) = HalfDaysOf(n, uses[n])
      BY <2>3 DEF HalfDaysOf
    <3>3. \A m \in Slots : uses'[m] = IF m = n THEN row ELSE uses[m]
      BY <1>0, <2>4 DEF RowTable
    <3>4. HalfDaysUsed(uses', e, y, s) \subseteq HalfDaysUsed(uses, e, y, s)
      BY <2>2, <3>1, <3>2, <3>3, UsedIs
    <3>5. UsedDays(uses', e, y, s) <= UsedDays(uses, e, y, s)
      BY <1>0, <3>4, UsedMore
    <3> QED
      BY <1>4, <3>5
  <2>8. CASE CountsFor(row, e, y, s) /\ s = {"approved"}
    \* The approval has found the balance to cover it.
    <3>1. q.status = "approved" /\ row.kind = "leave" /\ row.employee = e /\ YearOf[row.first] = y
      BY <2>3, <2>8 DEF CountsFor
    <3>2. row.days <= Available(allocations, rest, e, y)
      BY <1>0, <2>1, <2>3, <3>1 DEF Covered, rest, n
    <3>3. HalfDaysUsed(rest, e, y, s) \subseteq HalfDaysUsed(rest, e, y, {"approved", "pending"})
      BY <2>8 DEF HalfDaysUsed
    <3>4. UsedDays(rest, e, y, s) <= UsedDays(rest, e, y, {"approved", "pending"})
      BY <2>5, <3>3, UsedMore
    <3>5. /\ UsedDays(rest, e, y, s) \in Nat /\ UsedDays(uses', e, y, s) \in Nat
          /\ UsedDays(rest, e, y, {"approved", "pending"}) \in Nat /\ row.days \in Nat
      BY <1>0, <1>3, <2>3, <2>5 DEF Use
    <3>6. UsedDays(uses', e, y, s) <= UsedDays(rest, e, y, s) + row.days
      BY <2>5
    <3> QED
      BY <1>1, <1>2, <3>2, <3>4, <3>5, <3>6 DEF Available
  <2> QED
    BY <2>6, <2>7, <2>8
<1> QED
  BY <1>5, <1>6

\* Where nobody is left short anew, and by no overtaken call.
LEMMA NotShorter ==
  ASSUME PlanInv, BalanceInv, overlaps' \in {overlaps, overlaps + 1}, cut' = cut,
         Serial' => \A y \in Years, s \in {Both, {"approved"}} :
                      Short(allocations, y, s)' \subseteq Short(allocations, y, s)
  PROVE  NeverOverdrawn' /\ ApprovalsCovered'
<1>1. overlaps \in Nat
  BY CalendarAssumption DEF PlanInv, TypeOK
<1>2. Serial' => Serial
  BY <1>1 DEF Serial
<1>3. NeverOverdrawn'
  BY <1>2 DEF BalanceInv, NeverOverdrawn, Both
<1>4. ApprovalsCovered'
  BY <1>2 DEF BalanceInv, ApprovalsCovered, Both
<1> QED
  BY <1>3, <1>4

\* An allocation that is written leaves short whom it cuts, and records it.
LEMMA AllocationRecordsCut ==
  ASSUME PlanInv, BalanceInv, NEW c \in Calls, WriteAllocations(c)
  PROVE  NeverOverdrawn' /\ ApprovalsCovered'
<1> DEFINE year == calls[c].year
<1>1. /\ calls[c] # NoCall /\ calls[c].op \in {"allocate", "annual"} /\ calls[c] \in Call
      /\ UNCHANGED uses /\ TypeOK
      /\ overlaps' \in {overlaps, overlaps + 1} /\ overlaps \in Nat
  BY CalendarAssumption DEF WriteAllocations, Ready, PlanInv, TypeOK, Committed
<1>2. year \in Years
  BY <1>1 DEF Call
<1>3. Serial' => Serial
  BY <1>1 DEF Serial
<1>4. allocations' = [e \in Employees |-> [y \in Years |->
                        Written(allocations[e][y], calls[c].seen[e][y], calls[c].plan[e][y])]]
  BY DEF WriteAllocations
<1>5. cut' = [of \in {"requested", "approved"} |->
                {p \in cut[of] : p[2] # year} \cup Short(allocations', year, Counted(of)) \X {year}]
  BY <1>1, <1>4 DEF WriteAllocations, TypeOK
<1>6. ASSUME NEW y \in Years, y # year, NEW s
      PROVE  Short(allocations, y, s)' = Short(allocations, y, s)
  <2>1. \A e \in Employees : /\ allocations'[e][y] = NoAllocation <=> allocations[e][y] = NoAllocation
                             /\ Entitled(allocations'[e][y]) = Entitled(allocations[e][y])
    BY <1>6, WriteTable
  <2> QED
    BY <1>1, <2>1 DEF Short
<1>7. ASSUME NEW y \in Years, NEW s
      PROVE  Short(allocations, y, s)' = Short(allocations', y, s)
  BY <1>1 DEF Short
<1> HIDE DEF year
<1>8. ASSUME NEW of \in {"requested", "approved"}, NEW y \in Years,
             NEW e \in Short(allocations, y, Counted(of))',
             \A f \in Short(allocations, y, Counted(of)) : <<f, y>> \in cut[of]
      PROVE  <<e, y>> \in cut'[of]
  <2>1. CASE y = year
    <3>1. e \in Short(allocations', year, Counted(of))
      BY <1>7, <1>8, <2>1 DEF Counted
    <3> QED
      BY <1>5, <2>1, <3>1
  <2>2. CASE y # year
    <3>1. <<e, y>> \in cut[of]
      BY <1>6, <1>8, <2>2 DEF Counted
    <3> QED
      BY <1>5, <2>2, <3>1
  <2> QED
    BY <2>1, <2>2
<1>9. NeverOverdrawn'
  <2> SUFFICES ASSUME Serial', NEW y \in Years, NEW e \in Short(allocations, y, Both)'
               PROVE  <<e, y>> \in cut'["requested"]
    BY DEF NeverOverdrawn, Both
  <2>1. Counted("requested") = Both
    BY DEF Counted, Both
  <2>2. \A f \in Short(allocations, y, Both) : <<f, y>> \in cut["requested"]
    BY <1>3 DEF BalanceInv, NeverOverdrawn, Both
  <2> QED
    BY <1>8, <2>1, <2>2 DEF Counted, Both
<1>10. ApprovalsCovered'
  <2> SUFFICES ASSUME Serial', NEW y \in Years, NEW e \in Short(allocations, y, {"approved"})'
               PROVE  <<e, y>> \in cut'["approved"]
    BY DEF ApprovalsCovered
  <2>1. Counted("approved") = {"approved"}
    BY DEF Counted
  <2>2. \A f \in Short(allocations, y, {"approved"}) : <<f, y>> \in cut["approved"]
    BY <1>3 DEF BalanceInv, ApprovalsCovered
  <2> QED
    BY <1>8, <2>1, <2>2 DEF Counted
<1> QED
  BY <1>9, <1>10

\* Steps that commit nothing: what the calls rely on stays, nobody is shorter.
LEMMA QuietBalances ==
  ASSUME PlanInv, BalanceInv, UNCHANGED <<uses, policy, cut, overlaps>>,
         \A e \in Employees, y \in Years : DetailsOnly(allocations'[e][y], allocations[e][y]),
         \A c \in Calls \ overtaken' : Running(c)' =>
           \E q : q = calls'[c] /\ q \in Call /\ CallShape(q) /\ Planned(q) /\ Covered(q)
  PROVE  BalanceInv'
<1>0. TypeOK
  BY DEF PlanInv
<1>1. /\ \A y \in Years : \A s : Short(allocations, y, s)' = Short(allocations, y, s)
      /\ \A q \in Call : CallShape(q) /\ Planned(q) /\ Covered(q) => Covered(q)'
  BY <1>0, DetailsKeepBalances
<1>2. ASSUME NEW c \in Calls \ overtaken', Running(c)'
      PROVE  Covered(calls[c])'
  <2>1. PICK q : q = calls'[c] /\ Covered(q)'
    BY <1>1, <1>2
  <2> QED
    BY <2>1 DEF Covered
<1>3. NeverOverdrawn' /\ ApprovalsCovered'
  BY <1>1, NotShorter
<1> QED
  BY <1>2, <1>3 DEF BalanceInv

LEMMA StepBalances ==
  PlanInv /\ PlanInv' /\ LeaveInv /\ BalanceInv /\ [Next]_vars => BalanceInv'
<1> SUFFICES ASSUME PlanInv, PlanInv', LeaveInv, BalanceInv, [Next]_vars
             PROVE  BalanceInv'
  OBVIOUS
<1>0. /\ TypeOK
      /\ \A c \in Calls \ overtaken : Running(c) =>
           /\ calls[c] \in Call /\ CallShape(calls[c]) /\ Planned(calls[c]) /\ Covered(calls[c])
      /\ \A e \in Employees, y \in Years : DetailsOnly(allocations[e][y], allocations[e][y])
  BY DEF PlanInv, TypeOK, LeaveInv, Shape, BalanceInv, Running, DetailsOnly
<1>1. CASE UNCHANGED vars
  <2>1. UNCHANGED <<policy, allocations, uses, calls, cut, overtaken, overlaps>>
    BY <1>1 DEF vars, setup, history
  <2> QED
    BY <1>0, <2>1, QuietBalances DEF Running
<1>2. ASSUME \/ \E chosen \in WeekendChoices : SetWeekends(chosen)
             \/ \E d \in HolidayDates, holiday \in HolidayChoices :
                  \/ CreateHoliday(d, holiday)
                  \/ \E row \in holidays[d] : UpdateHoliday(d, row, holiday)
             \/ \E chosen \in RuleChoices : UpdatePolicyRule(chosen)
      PROVE  BalanceInv'
  \* Every running call is overtaken.
  <2>1. UNCHANGED <<allocations, uses, calls, cut, overlaps>>
        /\ overtaken' = {c \in Calls : calls[c] # NoCall}
    BY <1>2 DEF SetWeekends, CreateHoliday, UpdateHoliday, UpdatePolicyRule, Changed
  <2>2. \A y \in Years : \A s : Short(allocations, y, s)' = Short(allocations, y, s)
    BY <2>1 DEF Short
  <2>3. NeverOverdrawn' /\ ApprovalsCovered'
    BY <2>1, <2>2, NotShorter
  <2>4. \A c \in Calls \ overtaken' : ~Running(c)'
    BY <2>1 DEF Running
  <2> QED
    BY <2>3, <2>4 DEF BalanceInv
<1>3. ASSUME NEW e \in Employees, NEW y \in Years, ReadBalances(e, y)
      PROVE  BalanceInv'
  <2>1. /\ UNCHANGED <<policy, uses, calls, cut, overtaken, overlaps>>
        /\ \A f \in Employees, z \in Years : DetailsOnly(allocations'[f][z], allocations[f][z])
    BY <1>0, <1>3, ReadDetails DEF ReadBalances, setup, history
  <2> QED
    BY <1>0, <2>1, QuietBalances DEF Running
<1>4. ASSUME NEW c \in Calls, Request(c)
      PROVE  BalanceInv'
  <2>1. PICK call \in Call : Begin(c, call) /\ Planned(call) /\ Covered(call)
    BY <1>0, <1>4, RequestPlans
  <2>2. CallShape(call)
    <3>1. PICK other : Begin(c, other) /\ CallShape(other)
      BY <1>4, RequestBegins DEF Begins, LeaveInv
    <3>2. calls' = [calls EXCEPT ![c] = call] /\ calls' = [calls EXCEPT ![c] = other]
      BY <2>1, <3>1 DEF Begin
    <3>3. call = other
      BY <1>0, <3>2 DEF TypeOK
    <3> QED
      BY <3>1, <3>3
  <2>3. /\ UNCHANGED <<policy, allocations, uses, cut, overlaps>>
        /\ overtaken' = overtaken \ {c}
        /\ \A d \in Calls : calls'[d] = IF d = c THEN call ELSE calls[d]
    BY <1>0, <2>1 DEF Begin, setup, TypeOK
  <2>4. \A d \in Calls \ overtaken' : Running(d)' =>
          \E q : q = calls'[d] /\ q \in Call /\ CallShape(q) /\ Planned(q) /\ Covered(q)
    BY <1>0, <2>1, <2>2, <2>3 DEF Running
  <2> QED
    BY <1>0, <2>3, <2>4, QuietBalances
<1>5. ASSUME NEW c \in Calls, WriteRequest(c) \/ WriteDecision(c) \/ WriteAllocations(c)
      PROVE  BalanceInv'
  <2>1. /\ Committed(c) /\ overlaps \in Nat
        /\ overlaps' = IF c \in overtaken THEN overlaps + 1 ELSE overlaps
    BY <1>0, <1>5, CalendarAssumption
       DEF WriteRequest, WriteDecision, WriteAllocations, Committed, TypeOK
  <2>2. \A d \in Calls \ overtaken' : ~Running(d)'
    BY <1>0, <2>1 DEF Committed, Running, TypeOK
  <2>3. NeverOverdrawn' /\ ApprovalsCovered'
    <3>1. CASE WriteRequest(c) \/ WriteDecision(c)
      <4>1. Serial' => c \notin overtaken
        BY <2>1 DEF Serial
      <4>2. cut' = cut
        BY <3>1 DEF WriteRequest, WriteDecision
      <4> QED
        BY <2>1, <3>1, <4>1, <4>2, WriteKeepsBalances, NotShorter
    <3>2. CASE WriteAllocations(c)
      BY <3>2, AllocationRecordsCut
    <3> QED
      BY <1>5, <3>1, <3>2
  <2> QED
    BY <2>2, <2>3 DEF BalanceInv
<1>6. ASSUME NEW c \in Calls, Abandon(c)
      PROVE  BalanceInv'
  <2>1. /\ UNCHANGED <<policy, allocations, uses, cut, overlaps>>
        /\ overtaken' = overtaken \ {c}
        /\ \A d \in Calls : calls'[d] = IF d = c THEN NoCall ELSE calls[d]
    BY <1>0, <1>6 DEF Abandon, setup, TypeOK
  <2>2. \A d \in Calls \ overtaken' : Running(d)' =>
          \E q : q = calls'[d] /\ q \in Call /\ CallShape(q) /\ Planned(q) /\ Covered(q)
    BY <1>0, <2>1 DEF Running
  <2> QED
    BY <1>0, <2>1, <2>2, QuietBalances
<1> QED
  BY <1>1, <1>2, <1>3, <1>4, <1>5, <1>6 DEF Next, Administrate, Operate

LEMMA InitBalances == Init => BalanceInv
<1> SUFFICES ASSUME Init PROVE BalanceInv
  OBVIOUS
<1>1. \A of \in {"requested", "approved"}, y \in Years :
        \A e \in Short(allocations, y, Counted(of)) : <<e, y>> \in cut[of]
  BY DEF Init, Short
<1>2. Counted("requested") = {"pending", "approved"} /\ Counted("approved") = {"approved"}
  BY DEF Counted
<1>3. NeverOverdrawn /\ ApprovalsCovered
  BY <1>1, <1>2 DEF NeverOverdrawn, ApprovalsCovered
<1>4. \A c \in Calls : ~Running(c)
  BY DEF Init, Running
<1> QED
  BY <1>3, <1>4 DEF BalanceInv

\* Types, and the plans of the running calls.
THEOREM PlansInvariant == Spec => []PlanInv
BY InitPlans, StepPlans, LeaveInvariant, PTL DEF Spec

\* Every state of any calendar, staff and number of calls has its declared shape.
THEOREM TypeCorrect == Spec => []TypeOK
<1>1. PlanInv => TypeOK
  BY DEF PlanInv
<1> QED
  BY <1>1, PlansInvariant, PTL

THEOREM BalanceInvariant == Spec => []BalanceInv
BY InitBalances, StepBalances, PlansInvariant, LeaveInvariant, PTL DEF Spec

\* Unless a call wrote after it was overtaken, pending and approved leave
\* exceeds an entitlement only where an allocation has cut it.
THEOREM NobodyOverdrawn == Spec => []NeverOverdrawn
<1>1. BalanceInv => NeverOverdrawn
  BY DEF BalanceInv
<1> QED
  BY <1>1, BalanceInvariant, PTL

\* The same of approved leave alone, which the second check guards.
THEOREM ApprovalsAreCovered == Spec => []ApprovalsCovered
<1>1. BalanceInv => ApprovalsCovered
  BY DEF BalanceInv
<1> QED
  BY <1>1, BalanceInvariant, PTL

LEMMA AnnualStep ==
  ASSUME PlanInv, LeaveInv, BalanceInv, NEW c \in Calls \ overtaken, WriteAllocations(c),
         calls[c].op = "annual", NEW e \in Employees, Eligible(e, calls[c].year)
  PROVE  \A y \in {calls[c].year} :
           /\ Entitled(allocations'[e][y]) = Entitlement + Carry(e, y) + Adjustment(e, y)
           /\ PlanAction(e, y)' = "no_change"
<1> SUFFICES ASSUME NEW y \in {calls[c].year}
             PROVE  /\ Entitled(allocations'[e][y]) = Entitlement + Carry(e, y) + Adjustment(e, y)
                    /\ PlanAction(e, y)' = "no_change"
  OBVIOUS
<1> DEFINE q == calls[c]
           now == allocations[e][y]
           seen == q.seen[e][y]
           target == Target(e, y)
<1>1. /\ q \in Call /\ q.op \in {"allocate", "annual"} /\ y = q.year /\ y \in Years
      /\ Planned(q) /\ Covered(q) /\ TypeOK /\ UNCHANGED <<uses, policy>>
  BY DEF WriteAllocations, Ready, PlanInv, BalanceInv, TypeOK, Running, setup, Call
<1>2. q.plan[e][y] = target /\ DetailsOnly(now, seen)
  BY <1>1 DEF Covered
<1>3. /\ now \in Allocation \cup {NoAllocation} /\ seen \in Allocation \cup {NoAllocation}
  BY <1>1 DEF TypeOK, Table, Call
<1>4. ~InsertsTwice(now, seen, target)
  BY <1>1, <1>2 DEF WriteAllocations
<1>5. allocations'[e][y] = Written(now, seen, target)
  BY <1>1, <1>2, WriteTable
<1>6. /\ target \in Allocation /\ target.detail = TRUE /\ target # NoAllocation
      /\ target.opening = 0 /\ target.earned = Entitlement /\ target.carried = Carry(e, y)
      /\ Entitled(target) = Entitlement + Carry(e, y) + Adjustment(e, y)
  BY <1>1, TargetType, NoneAssumption
<1> HIDE DEF now, seen, target
<1>7. Written(now, seen, target) = target
  <2>1. CASE seen = target
    <3>1. Detailed(seen) = seen
      BY <1>6, <2>1 DEF Detailed
    <3> QED
      BY <1>2, <2>1, <3>1 DEF Written, DetailsOnly
  <2>2. CASE seen # target /\ seen = NoAllocation
    BY <2>2 DEF Written
  <2>3. CASE seen # target /\ seen # NoAllocation
    <3>1. seen \in Allocation /\ seen.detail \in BOOLEAN
      BY <1>3, <2>3 DEF Allocation
    <3>2. now = seen
      <4>1. CASE seen.detail = TRUE
        BY <1>2, <4>1 DEF DetailsOnly, Detailed
      <4>2. CASE seen.detail = FALSE
        <5>1. now.detail # TRUE
          BY <1>4, <1>6, <2>3, <4>2 DEF InsertsTwice
        <5>2. Detailed(seen).detail = TRUE
          BY <1>3, <2>3, DetailedKeeps
        <5> QED
          BY <1>2, <5>1, <5>2 DEF DetailsOnly
      <4> QED
        BY <3>1, <4>1, <4>2
    <3>3. target = [f \in DOMAIN target |-> target[f]]
      BY <1>6 DEF Allocation
    <3>4. Written(now, seen, target) = [f \in DOMAIN target |->
                                          IF target[f] = seen[f] THEN now[f] ELSE target[f]]
      BY <2>3 DEF Written
    <3> QED
      BY <3>2, <3>3, <3>4
  <2> QED
    BY <2>1, <2>2, <2>3
<1>8. Carry(e, y)' = Carry(e, y)
  <2>1. CASE y - 1 \in Years
    <3>1. y - 1 # q.year
      BY <1>1, CalendarAssumption
    <3>2. /\ allocations'[e][y - 1] = NoAllocation <=> allocations[e][y - 1] = NoAllocation
          /\ Entitled(allocations'[e][y - 1]) = Entitled(allocations[e][y - 1])
      BY <2>1, <3>1, WriteTable
    <3>3. Available(allocations', uses', e, y - 1) = Available(allocations, uses, e, y - 1)
      BY <1>1, <3>2 DEF Available
    <3> QED
      BY <1>1, <3>2, <3>3 DEF Carry
  <2>2. CASE y - 1 \notin Years
    BY <2>2 DEF Carry
  <2> QED
    BY <2>1, <2>2
<1>9. Eligible(e, y)'
  BY <1>1 DEF Eligible
<1>10. Detailed(target) = target
  BY <1>6 DEF Detailed
<1> QED
  BY <1>5, <1>6, <1>7, <1>8, <1>9, <1>10 DEF PlanAction

\* The annual allocation gives what its plan says and leaves itself nothing to
\* do, whoever reads balances while it runs.
THEOREM AnnualAllocationIsIdempotent == Spec => AnnualIdempotent
<1> DEFINE A == \A c \in Calls \ overtaken :
                  (WriteAllocations(c) /\ calls[c].op = "annual") =>
                    \A e \in Employees, y \in {calls[c].year} :
                      Eligible(e, y) =>
                        /\ Entitled(allocations'[e][y]) = Entitlement + Carry(e, y) + Adjustment(e, y)
                        /\ PlanAction(e, y)' = "no_change"
<1>1. PlanInv /\ LeaveInv /\ BalanceInv => A
  BY AnnualStep
<1>2. PlanInv /\ LeaveInv /\ BalanceInv => [A]_vars
  BY <1>1
<1>3. Spec => [][A]_vars
  BY <1>2, PlansInvariant, LeaveInvariant, BalanceInvariant, PTL
<1> QED
  BY <1>3 DEF AnnualIdempotent
=============================================================================

---------------------------- MODULE AttendanceRules ----------------------------
(***************************************************************************)
(* What attendance-v2 makes of the evidence of one employee and one day.   *)
(*                                                                         *)
(* Time runs in slots, DayLength of them to a local day; day d begins at   *)
(* slot (d - 1) * DayLength.  Shifts, grace, breaks and the margins of the *)
(* policy are numbers of slots too.                                        *)
(***************************************************************************)
EXTENDS Integers, FiniteSetsExt

CONSTANTS
  DayLength,   \* slots of a day
  NoShift,     \* no effective shift
  NoTime       \* SQL NULL of check_in_at and check_out_at

ASSUME DayAssumption ==
  /\ DayLength \in Nat \ {0}
  /\ NoTime \notin Nat

\* An event of the timeline.  An id is unique among manual events; a device
\* reports an event of a type once per instant (its id is 0).
Event ==
  [at : Nat, type : {"in", "out"}, source : {"device", "manual"}, id : Nat]

Shift == [starts : 0 .. DayLength - 1, ends : 0 .. DayLength - 1, pause : Nat, grace : Nat]

\* What an organization tells the engine: tolerance for duplicates, and how far
\* the capture window reaches before and after a shift.
Policy == [approval : BOOLEAN, window : Nat, before : Nat, after : Nat]

\* What calendar, leave and field duty say of a day.
Context ==
  [weekend : BOOLEAN, holiday : BOOLEAN, duty : BOOLEAN, leave : {"none", "full", "half"}]

DayStart(d) == (d - 1) * DayLength
DayOf(t) == t \div DayLength + 1

\* _minutes
AtLeastZero(n) == IF n < 0 THEN 0 ELSE n

-----------------------------------------------------------------------------
\* A shift that does not end later than it starts ends on the next day.
Schedule(shift, policy, d) ==
  IF shift = NoShift
  THEN [starts |-> DayStart(d), ends |-> DayStart(d + 1),
        opens |-> DayStart(d), closes |-> DayStart(d + 1), planned |-> 0]
  ELSE LET starts == DayStart(d) + shift.starts
           ends == shift.ends + (IF shift.ends <= shift.starts THEN DayStart(d + 1) ELSE DayStart(d))
       IN  [starts |-> starts, ends |-> ends,
            opens |-> starts - policy.before, closes |-> ends + policy.after,
            planned |-> AtLeastZero(ends - starts - shift.pause)]

\* The capture window contains its beginning and not its end.
Captured(events, shift, policy, d) ==
  LET schedule == Schedule(shift, policy, d)
  IN  {e \in events : schedule.opens <= e.at /\ e.at < schedule.closes}

\* The order of events of one instant.
Precedes(e, f) ==
  \/ e.source = "device" /\ f.source = "manual"
  \/ e.source = f.source /\ e.id < f.id

\* The instants of events of one type that are kept: each is later than the
\* kept one before it by more than the tolerance.
KeptInstants(instants, window) ==
  LET kept[t \in instants] == \A u \in instants : u < t /\ kept[u] => t - u > window
  IN  {t \in instants : kept[t]}

\* _deduplicate; a tolerance of 0 keeps everything.
Retained(events, window) ==
  IF window = 0 THEN events
  ELSE {e \in events :
          LET same == {f \in events : f.type = e.type}
          IN  /\ e.at \in KeptInstants({f.at : f \in same}, window)
              /\ \A f \in same \ {e} : f.at = e.at => Precedes(e, f)}

BaseStatus(checkIn, checkOut) ==
  IF checkIn # NoTime /\ checkOut # NoTime THEN "present"
  ELSE IF checkIn # NoTime \/ checkOut # NoTime THEN "partial"
  ELSE "absent"

DayStatus(base, context) ==
  IF context.duty THEN "field_duty"
  ELSE IF context.leave = "full" THEN "leave"
  ELSE IF context.holiday THEN "holiday"
  ELSE IF context.weekend THEN "weekly_off"
  ELSE IF context.leave = "half" /\ base = "absent" THEN "partial"
  ELSE base

\* Everything a calculation has read: the events of its capture window, the
\* shift, the policy, the context and the day.
Inputs(events, shift, policy, context, d) ==
  [events |-> Captured(events, shift, policy, d), shift |-> shift, policy |-> policy,
   context |-> context, day |-> d]

\* Mutant: the fingerprint leaves out leave, holidays and field duty.
FingerprintWithoutContext(inputs) ==
  <<inputs.day, inputs.shift, inputs.policy.window, inputs.policy.before,
    inputs.policy.after, Retained(inputs.events, inputs.policy.window)>>

\* The fingerprint: events that were not retained are not part of it.
Fingerprint(inputs) ==
  <<inputs.day, inputs.shift, inputs.policy.window, inputs.policy.before,
    inputs.policy.after, Retained(inputs.events, inputs.policy.window), inputs.context>>

\* First in, last out; an out before the first in does not count.
CheckIn(retained) ==
  LET ins == {e.at : e \in {f \in retained : f.type = "in"}}
  IN  IF ins = {} THEN NoTime ELSE Min(ins)

\* Mutant: the first out is taken.
CheckOutFirst(retained) ==
  LET outs == {e.at : e \in {f \in retained : f.type = "out"}}
      checkIn == CheckIn(retained)
  IN  IF outs = {} \/ (checkIn # NoTime /\ Min(outs \cup {checkIn}) < checkIn) THEN NoTime
      ELSE Min(outs)

CheckOut(retained) ==
  LET outs == {e.at : e \in {f \in retained : f.type = "out"}}
      checkIn == CheckIn(retained)
  IN  IF outs = {} \/ (checkIn # NoTime /\ Max(outs \cup {0}) < checkIn) THEN NoTime
      ELSE Max(outs)

\* The columns of attendance_records and attendance_record_details that a
\* calculation sets.
Result(inputs) ==
  LET schedule == Schedule(inputs.shift, inputs.policy, inputs.day)
      retained == Retained(inputs.events, inputs.policy.window)
      checkIn == CheckIn(retained)
      checkOut == CheckOut(retained)
      shifted == inputs.shift # NoShift
      worked == IF checkIn = NoTime \/ checkOut = NoTime THEN 0
                ELSE AtLeastZero(checkOut - checkIn - (IF shifted THEN inputs.shift.pause ELSE 0))
      base == BaseStatus(checkIn, checkOut)
      dayStatus == DayStatus(base, inputs.context)
      nonWorking == inputs.context.holiday \/ inputs.context.weekend
  IN
  [checkIn |-> checkIn,
   checkOut |-> checkOut,
   status |-> base,
   worked |-> worked,
   late |-> IF shifted /\ checkIn # NoTime
            THEN AtLeastZero(checkIn - (schedule.starts + inputs.shift.grace)) ELSE 0,
   dayStatus |-> dayStatus,
   regular |-> IF nonWorking \/ dayStatus \in {"leave", "field_duty"} THEN 0
               ELSE AtLeastZero(worked - schedule.planned),
   holiday |-> IF nonWorking THEN worked ELSE 0,
   count |-> Cardinality(inputs.events),
   duplicates |-> Cardinality(inputs.events \ retained),
   fingerprint |-> Fingerprint(inputs)]

=============================================================================

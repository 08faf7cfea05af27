-------------------------- MODULE AttendanceDay_proofs --------------------------
(***************************************************************************)
(* Proofs about AttendanceDay for any number of people, concurrent calls,  *)
(* workbooks, claims, punches, days, locks and overlaps.                   *)
(*                                                                         *)
(* First the rules: what finitely many events make of a day fits the       *)
(* columns of its record, deduplication keeps an event near every other    *)
(* one (Covers), and equal fingerprints give equal results.                *)
(* Then the calls: what a call has checked of columns that are written     *)
(* once stays true until it writes (CallsChecked), which is enough for     *)
(* NobodyAlone and ImportedOnce; and all it has read stays true until it   *)
(* is overtaken (CallsCurrent), which gives the properties of Serial.      *)
(***************************************************************************)
EXTENDS AttendanceDay, FiniteSetTheorems, TLAPS

-----------------------------------------------------------------------------
(***************************************************************************)
(* The rules.                                                              *)
(***************************************************************************)

\* A nonempty set of instants has a first one.
LEMMA LeastNatural ==
  ASSUME NEW S \in SUBSET Nat, S # {}
  PROVE  \E least \in S : \A n \in S : least <= n
<1> DEFINE R == OpToRel(<, Nat)
<1>1. R = {ss \in Nat \X Nat : ss[1] < ss[2]}
  BY DEF OpToRel
<1>2. IsWellFoundedOn(R, Nat)
  BY NatLessThanWellFounded
<1>3. \A n, m \in Nat : n < m => <<n, m>> \in R
  BY <1>1
<1> HIDE DEF R
<1>4. PICK least \in S : \A n \in S : ~(<<n, least>> \in R)
  BY <1>2, WFMin
<1>5. ASSUME NEW n \in S
      PROVE  least <= n
  <2>1. n \in Nat /\ least \in Nat /\ ~(n < least)
    BY <1>3, <1>4
  <2>2. QED
    BY <2>1
<1>6. QED
  BY <1>5

LEMMA MinOf ==
  ASSUME NEW S \in SUBSET Nat, S # {}
  PROVE  Min(S) \in S /\ \A n \in S : Min(S) <= n
BY LeastNatural DEF Min

LEMMA MaxOf ==
  ASSUME NEW S \in SUBSET Nat, S # {}, NEW bound \in Nat, \A n \in S : n <= bound
  PROVE  Max(S) \in S /\ \A n \in S : n <= Max(S)
<1> DEFINE bounds == {b \in Nat : \A n \in S : n <= b}
<1>1. PICK greatest \in bounds : \A b \in bounds : greatest <= b
  BY LeastNatural
<1>2. greatest \in S
  <2>1. SUFFICES ASSUME greatest \notin S PROVE FALSE
    OBVIOUS
  <2>2. \A n \in S : n < greatest
    BY <1>1, <2>1
  <2>3. greatest - 1 \in bounds
    <3>1. PICK n \in S : TRUE
      OBVIOUS
    <3>2. n \in Nat /\ n < greatest /\ greatest \in Nat
      BY <1>1, <2>2
    <3>3. greatest - 1 \in Nat
      BY <3>2
    <3>4. ASSUME NEW m \in S
          PROVE  m <= greatest - 1
      <4>1. m \in Nat /\ m < greatest
        BY <2>2
      <4>2. QED
        BY <3>2, <4>1
    <3>5. QED
      BY <3>3, <3>4
  <2>4. QED
    BY <1>1, <2>3
<1>3. QED
  BY <1>1, <1>2 DEF Max

\* A finite set of instants has a last one.
LEMMA FiniteBounded ==
  ASSUME NEW S \in SUBSET Nat, IsFiniteSet(S)
  PROVE  \E bound \in Nat : \A n \in S : n <= bound
<1> DEFINE Bounded(T) == \E bound \in Nat : \A n \in T : n <= bound
           F == FiniteSubsetsOf(Nat)
           R == StrictSubsetOrdering(Nat)
           bad == {T \in F : ~Bounded(T)}
<1>1. F = {T \in SUBSET Nat : IsFiniteSet(T)}
  BY DEF FiniteSubsetsOf
<1>2. \A T, U \in SUBSET Nat : T \subseteq U /\ T # U => <<T, U>> \in R
  BY DEF StrictSubsetOrdering
<1>3. IsWellFoundedOn(R, F)
  BY FS_StrictSubsetOrderingWellFounded
<1>4. bad \subseteq F
  OBVIOUS
<1>5. S \in F
  BY <1>1
<1> HIDE DEF R, F
<1>6. ASSUME bad # {}
      PROVE  FALSE
  <2>1. PICK T \in bad : \A U \in bad : ~(<<U, T>> \in R)
    BY <1>3, <1>4, <1>6, WFMin
  <2>2. T \in SUBSET Nat /\ IsFiniteSet(T) /\ ~Bounded(T)
    BY <1>1, <2>1
  <2>3. T # {}
    BY <2>2, 0 \in Nat
  <2>4. PICK x \in T : TRUE
    BY <2>3
  <2>5. T \ {x} \in F
    BY <1>1, <2>2, FS_RemoveElement
  <2>6. T \ {x} \notin bad
    BY <1>2, <2>1, <2>2, <2>4
  <2>7. PICK bound \in Nat : \A n \in T \ {x} : n <= bound
    BY <2>5, <2>6
  <2> DEFINE larger == IF x <= bound THEN bound ELSE x
  <2>8. x \in Nat /\ larger \in Nat
    BY <2>2, <2>4
  <2>9. ASSUME NEW n \in T
        PROVE  n <= larger
    <3>1. n \in Nat
      BY <2>2
    <3>2. CASE n = x
      BY <2>8, <3>1, <3>2
    <3>3. CASE n # x
      BY <2>7, <2>8, <3>1, <3>3
    <3>4. QED
      BY <3>2, <3>3
  <2>10. QED
    BY <2>2, <2>8, <2>9
<1>7. QED
  BY <1>5, <1>6

\* The instants of a finite set of events.
LEMMA FiniteInstants ==
  ASSUME NEW S \in SUBSET Event, IsFiniteSet(S), NEW type
  PROVE  LET instants == {e.at : e \in {f \in S : f.type = type}}
         IN  instants \in SUBSET Nat /\ IsFiniteSet(instants)
<1> DEFINE some == {f \in S : f.type = type}
           instants == {e.at : e \in some}
           at == [e \in some |-> e.at]
<1>1. IsFiniteSet(some)
  BY FS_Subset
<1>2. at \in Surjection(some, instants)
  BY DEF Surjection
<1>3. IsFiniteSet(instants)
  BY <1>1, <1>2, FS_Surjection
<1>4. instants \in SUBSET Nat
  BY DEF Event
<1>5. QED
  BY <1>3, <1>4

LEMMA RetainedSubset ==
  ASSUME NEW S, NEW window
  PROVE  Retained(S, window) \subseteq S
BY DEF Retained

\* Check-in and check-out of finitely many events are instants or missing.
LEMMA CheckType ==
  ASSUME NEW S \in SUBSET Event, IsFiniteSet(S)
  PROVE  CheckIn(S) \in Nat \cup {NoTime} /\ CheckOut(S) \in Nat \cup {NoTime}
<1> DEFINE ins == {e.at : e \in {f \in S : f.type = "in"}}
           outs == {e.at : e \in {f \in S : f.type = "out"}}
<1>1. ins \in SUBSET Nat /\ outs \in SUBSET Nat /\ IsFiniteSet(outs)
  BY FiniteInstants
<1>2. CheckIn(S) = IF ins = {} THEN NoTime ELSE Min(ins)
  BY DEF CheckIn
<1>3. CheckOut(S) = NoTime \/ (outs # {} /\ CheckOut(S) = Max(outs))
  BY DEF CheckOut
<1> HIDE DEF ins, outs
<1>4. ins # {} => Min(ins) \in Nat
  BY <1>1, MinOf
<1>5. outs # {} => Max(outs) \in Nat
  <2>1. PICK bound \in Nat : \A n \in outs : n <= bound
    BY <1>1, FiniteBounded
  <2>2. QED
    BY <1>1, <2>1, MaxOf
<1>6. QED
  BY <1>2, <1>3, <1>4, <1>5

\* The columns of a result; a record has a revision as well.
ResultColumns == Columns \ {"revision"}

LEMMA ResultDomain ==
  ASSUME NEW q
  PROVE  DOMAIN Result(q) = ResultColumns
BY DEF Result, ResultColumns, Columns

\* The schedule of a day that a calculation has read.
LEMMA ScheduleType ==
  ASSUME NEW q \in Reading
  PROVE  LET schedule == Schedule(q.shift, q.policy, q.day)
         IN  schedule.planned \in Nat /\ schedule.starts \in Int
<1> DEFINE shifted == q.shift # NoShift
           planned == Schedule(q.shift, q.policy, q.day).planned
           starts == Schedule(q.shift, q.policy, q.day).starts
<1>1. q.shift \in Shifts \cup {NoShift} /\ q.day \in Days
  BY DEF Reading
<1>2. shifted => q.shift \in Shift
  BY <1>1, InputsAssumption
<1>3. \A n \in Int : AtLeastZero(n) \in Nat
  BY DEF AtLeastZero
<1>4. DayStart(q.day) \in Nat /\ DayStart(q.day + 1) \in Nat
  <2>1. q.day \in Nat /\ q.day - 1 \in Nat /\ (q.day + 1) - 1 \in Nat
    BY <1>1, BoundsAssumption DEF Days
  <2>2. \A n \in Nat : n * DayLength \in Nat
    BY DayAssumption
  <2>3. QED
    BY <2>1, <2>2 DEF DayStart
<1>5. planned \in Nat /\ starts \in Int
  <2>1. CASE ~shifted
    BY <1>4, <2>1 DEF Schedule
  <2>2. CASE shifted
    <3> DEFINE from == DayStart(q.day) + q.shift.starts
               to == q.shift.ends + (IF q.shift.ends <= q.shift.starts THEN DayStart(q.day + 1)
                                     ELSE DayStart(q.day))
    <3>1. q.shift.starts \in Nat /\ q.shift.ends \in Nat /\ q.shift.pause \in Nat
      BY <1>2, <2>2, DayAssumption DEF Shift
    <3>2. from \in Int /\ to \in Int
      BY <1>4, <3>1
    <3>3. planned = AtLeastZero(to - from - q.shift.pause) /\ starts = from
      BY <2>2 DEF Schedule
    <3> HIDE DEF from, to
    <3>4. to - from - q.shift.pause \in Int
      BY <3>1, <3>2
    <3>5. QED
      BY <1>3, <3>2, <3>3, <3>4
  <2>3. QED
    BY <2>1, <2>2
<1>6. QED
  BY <1>5

\* The time worked.
LEMMA WorkedType ==
  ASSUME NEW q \in Reading
  PROVE  Result(q).worked \in Nat
<1> DEFINE retained == Retained(q.events, q.policy.window)
           checkIn == CheckIn(retained)
           checkOut == CheckOut(retained)
           pause == IF q.shift # NoShift THEN q.shift.pause ELSE 0
<1>1. q.events \in SUBSET Event /\ IsFiniteSet(q.events) /\ q.shift \in Shifts \cup {NoShift}
  BY DEF Reading
<1>2. retained \in SUBSET Event /\ IsFiniteSet(retained)
  BY <1>1, RetainedSubset, FS_Subset
<1> HIDE DEF retained
<1>3. checkIn \in Nat \cup {NoTime} /\ checkOut \in Nat \cup {NoTime}
  BY <1>2, CheckType
<1>4. pause \in Nat
  BY <1>1, InputsAssumption DEF Shift
<1>5. Result(q).worked = IF checkIn = NoTime \/ checkOut = NoTime THEN 0
                         ELSE AtLeastZero(checkOut - checkIn - pause)
  BY DEF Result, retained
<1> HIDE DEF checkIn, checkOut, pause
<1>6. QED
  BY <1>3, <1>4, <1>5 DEF AtLeastZero

\* What a calculation makes of what it has read fits the columns.
LEMMA ResultType ==
  ASSUME NEW q \in Reading
  PROVE  \A revision \in 1 .. MaxRevision : WithRevision(Result(q), revision) \in Record
<1> DEFINE retained == Retained(q.events, q.policy.window)
           checkIn == CheckIn(retained)
           checkOut == CheckOut(retained)
           shifted == q.shift # NoShift
           pause == IF shifted THEN q.shift.pause ELSE 0
           planned == Schedule(q.shift, q.policy, q.day).planned
           starts == Schedule(q.shift, q.policy, q.day).starts
           worked == IF checkIn = NoTime \/ checkOut = NoTime THEN 0
                     ELSE AtLeastZero(checkOut - checkIn - pause)
           base == BaseStatus(checkIn, checkOut)
           new == Result(q)
<1>1. /\ q.events \in SUBSET Event /\ IsFiniteSet(q.events)
      /\ q.shift \in Shifts \cup {NoShift}
      /\ q.policy \in Policy
      /\ q.context \in Contexts /\ q.context \in Context
      /\ q.day \in Days
  BY InputsAssumption DEF Reading
<1>2. retained \in SUBSET Event /\ IsFiniteSet(retained) /\ retained \subseteq q.events
  BY <1>1, RetainedSubset, FS_Subset
<1> HIDE DEF retained
<1>3. checkIn \in Nat \cup {NoTime} /\ checkOut \in Nat \cup {NoTime}
  BY <1>2, CheckType
<1>4. shifted => q.shift \in Shift
  BY <1>1, InputsAssumption
<1>5. \A n \in Int : AtLeastZero(n) \in Nat
  BY DEF AtLeastZero
<1>6. pause \in Nat
  BY <1>4 DEF Shift
<1>7. planned \in Nat /\ starts \in Int
  BY ScheduleType
<1> HIDE DEF planned, starts, pause
<1>9. worked \in Nat
  BY <1>3, <1>5, <1>6
<1>10. base \in {"present", "partial", "absent"}
  BY DEF BaseStatus
<1> HIDE DEF checkIn, checkOut, worked, base
<1>11. DayStatus(base, q.context) \in
         {"present", "partial", "absent", "field_duty", "leave", "holiday", "weekly_off"}
  BY <1>10 DEF DayStatus
<1>12. /\ new.checkIn = checkIn /\ new.checkOut = checkOut
       /\ new.status = base /\ new.worked = worked
       /\ new.dayStatus = DayStatus(base, q.context)
  BY DEF Result, retained, checkIn, checkOut, worked, base, pause
<1>13. new.late \in Nat
  <2>1. new.late = IF shifted /\ checkIn # NoTime
                   THEN AtLeastZero(checkIn - (starts + q.shift.grace)) ELSE 0
    BY DEF Result, retained, checkIn, starts
  <2>2. ASSUME shifted, checkIn # NoTime
        PROVE  checkIn - (starts + q.shift.grace) \in Int
    BY <1>3, <1>4, <1>7, <2>2 DEF Shift
  <2>3. QED
    BY <1>5, <2>1, <2>2
<1>14. new.regular \in Nat
  <2>1. new.regular \in {0, AtLeastZero(worked - planned)}
    BY DEF Result, retained, checkIn, checkOut, worked, planned, pause
  <2>2. QED
    BY <1>5, <1>7, <1>9, <2>1
<1>15. new.holiday \in Nat
  <2>1. new.holiday \in {0, worked}
    BY DEF Result, retained, checkIn, checkOut, worked, pause
  <2>2. QED
    BY <1>9, <2>1
<1>16. new.count \in Nat /\ new.duplicates \in Nat
  <2>1. IsFiniteSet(q.events \ retained)
    BY <1>1, FS_Difference
  <2>2. Cardinality(q.events) \in Nat /\ Cardinality(q.events \ retained) \in Nat
    BY <1>1, <2>1, FS_CardinalityType
  <2>3. QED
    BY <2>2 DEF Result, retained
<1>17. new.fingerprint \in Days \X (Shifts \cup {NoShift}) \X Nat \X Nat \X Nat
                           \X (SUBSET Event) \X Contexts
  <2>1. new.fingerprint = <<q.day, q.shift, q.policy.window, q.policy.before, q.policy.after,
                            retained, q.context>>
    BY DEF Result, Fingerprint, retained
  <2>2. q.policy.window \in Nat /\ q.policy.before \in Nat /\ q.policy.after \in Nat
    BY <1>1 DEF Policy
  <2>3. QED
    BY <1>1, <1>2, <2>1, <2>2
<1>18. DOMAIN new = ResultColumns
  BY ResultDomain
<1> HIDE DEF new
<1> SUFFICES ASSUME NEW revision \in 1 .. MaxRevision
             PROVE  WithRevision(new, revision) \in Record
  BY DEF new
<1> DEFINE row == WithRevision(new, revision)
<1>19. row = [column \in ResultColumns \cup {"revision"} |->
                IF column = "revision" THEN revision ELSE new[column]]
  BY <1>18 DEF WithRevision
<1>20. ResultColumns \cup {"revision"} = Columns
  BY DEF ResultColumns, Columns
<1>21. row = [column \in Columns |-> IF column = "revision" THEN revision ELSE new[column]]
  BY <1>19, <1>20
<1>22. row = [checkIn |-> new.checkIn, checkOut |-> new.checkOut, status |-> new.status,
              worked |-> new.worked, late |-> new.late, dayStatus |-> new.dayStatus,
              regular |-> new.regular, holiday |-> new.holiday, count |-> new.count,
              duplicates |-> new.duplicates, fingerprint |-> new.fingerprint,
              revision |-> revision]
  BY <1>21 DEF Columns
<1> HIDE DEF row
<1>23. row \in Record
  BY <1>3, <1>9, <1>10, <1>11, <1>12, <1>13, <1>14, <1>15, <1>16, <1>17, <1>22 DEF Record
<1>24. QED
  BY <1>23 DEF row

\* What is kept of some instants: each is later than every kept one before it
\* by more than the tolerance, and nothing else is left out.
Greedy(kept, instants, window) ==
  \A t \in instants : t \in kept <=> \A u \in kept : u < t => t - u > window

LEMMA GreedyExists ==
  ASSUME NEW instants \in SUBSET Nat, NEW window \in Nat, NEW bound \in Nat,
         \A t \in instants : t <= bound
  PROVE  \E kept \in SUBSET instants : Greedy(kept, instants, window)
<1> DEFINE Below(n) == {t \in instants : t < n}
           Done(n) == \E kept \in SUBSET Below(n) : Greedy(kept, Below(n), window)
           bad == {n \in Nat : ~Done(n)}
<1>1. ASSUME bad # {}
      PROVE  FALSE
  <2>0. PICK n \in bad : \A m \in bad : n <= m
    BY <1>1, LeastNatural
  <2>1. n \in Nat /\ ~Done(n) /\ \A m \in Nat : ~Done(m) => n <= m
    <3> HIDE DEF Done
    <3>1. QED
      BY <2>0
  <2>2. n # 0
    <3>1. Below(0) = {}
      <4>1. \A t \in instants : ~(t < 0)
        OBVIOUS
      <4>2. QED
        BY <4>1
    <3>2. Done(0)
      BY <3>1 DEF Greedy
    <3>3. QED
      BY <2>1, <3>2
  <2> DEFINE m == n - 1
  <2>3. n \in Nat /\ m \in Nat /\ m < n /\ n = m + 1
    BY <2>1, <2>2
  <2>4. Done(m)
    <3> HIDE DEF Done
    <3>1. QED
      BY <2>1, <2>3
  <2>5. PICK kept \in SUBSET Below(m) : Greedy(kept, Below(m), window)
    BY <2>4
  <2>6. Below(n) = IF m \in instants THEN Below(m) \cup {m} ELSE Below(m)
    <3>1. \A t \in instants : t < n <=> t < m \/ t = m
      BY <2>3
    <3>2. QED
      BY <2>3, <3>1
  <2>7. CASE m \notin instants
    BY <2>1, <2>5, <2>6, <2>7
  <2>8. CASE m \in instants
    <3> DEFINE fits == \A u \in kept : m - u > window
               more == IF fits THEN kept \cup {m} ELSE kept
    <3>1. \A u \in kept : u \in Nat /\ u < m
      BY <2>5
    <3>2. \A t \in Below(m) : t \in Nat /\ t < m
      OBVIOUS
    <3> HIDE DEF Below, m
    <3>3. ASSUME NEW t \in Below(n)
          PROVE  t \in more <=> \A u \in more : u < t => t - u > window
      <4>1. CASE t = m
        BY <2>3, <3>1, <4>1
      <4>2. CASE t # m
        <5>1. t \in Below(m) /\ t \in Nat /\ t < m
          BY <2>6, <2>8, <3>2, <3>3, <4>2
        <5>2. t \in kept <=> \A u \in kept : u < t => t - u > window
          BY <2>5, <5>1 DEF Greedy
        <5>3. t \in more <=> t \in kept
          BY <4>2
        <5>4. \A u \in more : u < t => u \in kept
          BY <2>3, <5>1
        <5>5. QED
          BY <5>2, <5>3, <5>4
      <4>3. QED
        BY <4>1, <4>2
    <3>4. more \in SUBSET Below(n)
      BY <2>6, <2>8
    <3>5. QED
      BY <2>1, <3>3, <3>4 DEF Greedy
  <2>9. QED
    BY <2>7, <2>8
<1>2. Done(bound + 1)
  <2> HIDE DEF Done
  <2>1. QED
    BY <1>1
<1>3. Below(bound + 1) = instants
  <2>1. \A t \in instants : t \in Nat /\ t < bound + 1
    OBVIOUS
  <2>2. QED
    BY <2>1
<1>4. QED
  BY <1>2, <1>3

LEMMA KeptIsGreedy ==
  ASSUME NEW instants \in SUBSET Nat, NEW window \in Nat,
         NEW kept \in SUBSET instants, Greedy(kept, instants, window)
  PROVE  Greedy(KeptInstants(instants, window), instants, window)
<1> DEFINE Solves(f) ==
             f = [t \in instants |-> \A u \in instants : u < t /\ f[u] => t - u > window]
           solution == CHOOSE f : Solves(f)
           known == [t \in instants |-> t \in kept]
<1>1. Solves(known)
  <2>1. ASSUME NEW t \in instants
        PROVE  (t \in kept) <=> \A u \in instants : u < t /\ known[u] => t - u > window
    BY <2>1 DEF Greedy
  <2> DEFINE next == [t \in instants |-> \A u \in instants : u < t /\ known[u] => t - u > window]
  <2>2. DOMAIN known = instants /\ DOMAIN next = instants
    OBVIOUS
  <2>3. ASSUME NEW t \in instants
        PROVE  known[t] = next[t]
    <3>1. known[t] = (t \in kept)
      OBVIOUS
    <3>2. next[t] = (\A u \in instants : u < t /\ known[u] => t - u > window)
      OBVIOUS
    <3> DEFINE left == t \in kept
               right == \A u \in instants : u < t /\ known[u] => t - u > window
    <3>3. left <=> right
      BY <2>1
    <3>4. left = right
      <4> HIDE DEF known
      <4>1. left \in BOOLEAN /\ right \in BOOLEAN
        OBVIOUS
      <4> HIDE DEF left, right
      <4>2. QED
        BY <3>3, <4>1
    <3>5. known[t] = left /\ next[t] = right
      BY <3>1, <3>2
    <3> HIDE DEF left, right, known, next
    <3>6. QED
      BY <3>4, <3>5
  <2>4. known = next
    BY <2>2, <2>3
  <2>5. QED
    BY <2>4
<1>2. Solves(solution)
  BY <1>1
<1>3. KeptInstants(instants, window) = {t \in instants : solution[t]}
  BY DEF KeptInstants
<1> HIDE DEF solution
<1>4. ASSUME NEW t \in instants
      PROVE  solution[t] <=> \A u \in instants : u < t /\ solution[u] => t - u > window
  BY <1>2
<1>5. QED
  BY <1>3, <1>4 DEF Greedy

Typed(seen, type) == {e \in seen : e.type = type}
InstantsOf(seen, type) == {e.at : e \in Typed(seen, type)}

\* Of the seen of one type and one instant one precedes the others.
LEMMA OnePrecedes ==
  ASSUME NEW same \in SUBSET Event, same # {},
         \A e, f \in same : e.at = f.at /\ e.type = f.type
  PROVE  \E e \in same : \A f \in same \ {e} : Precedes(e, f)
<1> DEFINE devices == {e \in same : e.source = "device"}
           pool == IF devices = {} THEN same ELSE devices
           ids == {e.id : e \in pool}
<1>1. pool # {} /\ pool \subseteq same
  OBVIOUS
<1>2. ids \in SUBSET Nat /\ ids # {}
  BY <1>1 DEF Event
<1>3. PICK least \in ids : \A n \in ids : least <= n
  <2> HIDE DEF ids
  <2>1. QED
    BY <1>2, LeastNatural
<1>4. PICK e \in pool : e.id = least
  BY <1>3
<1>5. \A f \in pool : f.source = e.source
  <2>1. \A f \in same : f.source \in {"device", "manual"}
    BY DEF Event
  <2>2. QED
    BY <2>1
<1>6. ASSUME NEW f \in same \ {e}
      PROVE  Precedes(e, f)
  <2>1. e \in Event /\ f \in Event
    BY <1>1
  <2>2. f.source = e.source => f.id # e.id
    <3>1. e.at = f.at /\ e.type = f.type
      BY <1>1
    <3>2. /\ e = [at |-> e.at, type |-> e.type, source |-> e.source, id |-> e.id]
          /\ f = [at |-> f.at, type |-> f.type, source |-> f.source, id |-> f.id]
      BY <2>1 DEF Event
    <3>3. QED
      BY <1>6, <3>1, <3>2
  <2>3. CASE f \in pool
    <3>1. e.id <= f.id /\ f.source = e.source
      BY <1>3, <1>4, <1>5, <2>3
    <3>2. e.id \in Nat /\ f.id \in Nat
      BY <2>1 DEF Event
    <3>3. QED
      BY <2>2, <3>1, <3>2 DEF Precedes
  <2>4. CASE f \notin pool
    <3>1. e.source = "device" /\ f.source # "device"
      BY <1>1, <2>4
    <3>2. f.source = "manual"
      BY <2>1, <3>1 DEF Event
    <3>3. QED
      BY <3>1, <3>2 DEF Precedes
  <2>5. QED
    BY <2>3, <2>4
<1>7. QED
  BY <1>1, <1>6

\* One event of every kept instant is retained.
LEMMA RetainedInstants ==
  ASSUME NEW seen \in SUBSET Event, NEW window \in Nat, window # 0, NEW type
  PROVE  InstantsOf(Retained(seen, window), type)
           = KeptInstants(InstantsOf(seen, type), window)
<1> DEFINE instants == InstantsOf(seen, type)
           kept == KeptInstants(instants, window)
           all == Retained(seen, window)
<1>1. all = {e \in seen :
               /\ e.at \in KeptInstants(InstantsOf(seen, e.type), window)
               /\ \A f \in Typed(seen, e.type) \ {e} : f.at = e.at => Precedes(e, f)}
  BY DEF Retained, InstantsOf, Typed
<1>2. kept \subseteq instants
  BY DEF KeptInstants
<1> HIDE DEF all, kept
<1>3. InstantsOf(all, type) \subseteq kept
  BY <1>1 DEF InstantsOf, Typed, kept
<1>4. ASSUME NEW t \in kept
      PROVE  t \in InstantsOf(all, type)
  <2> DEFINE same == {e \in Typed(seen, type) : e.at = t}
  <2>1. same # {} /\ same \in SUBSET Event /\ \A e, f \in same : e.at = f.at /\ e.type = f.type
    BY <1>2, <1>4 DEF InstantsOf, Typed
  <2>2. PICK e \in same : \A f \in same \ {e} : Precedes(e, f)
    <3> HIDE DEF same
    <3>1. QED
      BY <2>1, OnePrecedes
  <2>3. e \in seen /\ e.type = type /\ e.at = t
    BY DEF Typed
  <2>4. \A f \in Typed(seen, e.type) \ {e} : f.at = e.at => Precedes(e, f)
    BY <2>2, <2>3
  <2>5. e.at \in KeptInstants(InstantsOf(seen, e.type), window)
    BY <1>4, <2>3 DEF kept
  <2>6. e \in all
    BY <1>1, <2>3, <2>4, <2>5
  <2>7. QED
    BY <2>3, <2>6 DEF InstantsOf, Typed
<1>5. QED
  BY <1>3, <1>4 DEF kept, all

\* No instant is later than a retained one by more than the tolerance without
\* being retained.
Covers(few, all, window) ==
  few \subseteq all /\ \A t \in all : \E k \in few : k <= t /\ t - k <= window

LEMMA RetainedCovers ==
  ASSUME NEW seen \in SUBSET Event, IsFiniteSet(seen), NEW window \in Nat, NEW type
  PROVE  Covers(InstantsOf(Retained(seen, window), type), InstantsOf(seen, type), window)
<1> DEFINE instants == InstantsOf(seen, type)
           kept == KeptInstants(instants, window)
<1>1. instants \in SUBSET Nat /\ IsFiniteSet(instants)
  BY FiniteInstants DEF InstantsOf, Typed
<1>2. CASE window = 0
  <2>1. Retained(seen, window) = seen
    BY <1>2 DEF Retained
  <2>2. \A t \in instants : t <= t /\ t - t <= window
    BY <1>1
  <2> HIDE DEF instants
  <2>3. Covers(instants, instants, window)
    BY <2>2 DEF Covers
  <2>4. QED
    BY <2>1, <2>3 DEF instants
<1>3. CASE window # 0
  <2>1. PICK bound \in Nat : \A n \in instants : n <= bound
    <3> HIDE DEF instants
    <3>1. QED
      BY <1>1, FiniteBounded
  <2> HIDE DEF instants
  <2>2. PICK solution \in SUBSET instants : Greedy(solution, instants, window)
    BY <1>1, <2>1, GreedyExists
  <2>3. Greedy(kept, instants, window)
    BY <1>1, <2>2, KeptIsGreedy
  <2>4. kept \subseteq instants
    BY DEF KeptInstants
  <2>5. ASSUME NEW t \in instants
        PROVE  \E k \in kept : k <= t /\ t - k <= window
    <3>0. t \in Nat
      BY <1>1
    <3>1. CASE t \in kept
      BY <3>0, <3>1
    <3>2. CASE t \notin kept
      <4>1. PICK u \in kept : u < t /\ ~(t - u > window)
        BY <2>3, <3>2 DEF Greedy
      <4>2. u \in Nat
        BY <1>1, <2>4
      <4>3. QED
        BY <3>0, <4>1, <4>2
    <3>3. QED
      BY <3>1, <3>2
  <2>6. Covers(kept, instants, window)
    BY <2>4, <2>5 DEF Covers
  <2>7. QED
    BY <1>3, <2>6, RetainedInstants DEF instants
<1>4. QED
  BY <1>2, <1>3

\* What EvidenceCounts says of the check times.
TimesMatch(checkIn, checkOut, seen, window) ==
  LET ins == InstantsOf(seen, "in")
      outs == InstantsOf(seen, "out")
  IN
  /\ checkIn = IF ins = {} THEN NoTime ELSE Min(ins)
  /\ checkOut = NoTime => \A t \in outs : ins # {} /\ t < checkIn + window
  /\ checkOut # NoTime =>
       /\ checkOut \in outs
       /\ \A t \in outs : t - checkOut <= window
       /\ ins # {} => checkIn <= checkOut

LEMMA TimesOfEvidence ==
  ASSUME NEW seen \in SUBSET Event, IsFiniteSet(seen), NEW window \in Nat
  PROVE  TimesMatch(CheckIn(Retained(seen, window)), CheckOut(Retained(seen, window)), seen, window)
<1> DEFINE ins == InstantsOf(seen, "in")
           outs == InstantsOf(seen, "out")
           retained == Retained(seen, window)
           few == InstantsOf(retained, "in")
           late == InstantsOf(retained, "out")
           checkIn == CheckIn(retained)
           checkOut == CheckOut(retained)
<1>1. retained \in SUBSET Event /\ IsFiniteSet(retained)
  BY RetainedSubset, FS_Subset
<1>2. /\ ins \in SUBSET Nat /\ outs \in SUBSET Nat
      /\ few \in SUBSET Nat /\ late \in SUBSET Nat /\ IsFiniteSet(late)
  BY <1>1, FiniteInstants DEF InstantsOf, Typed
<1>3. Covers(few, ins, window) /\ Covers(late, outs, window)
  BY RetainedCovers
<1>4. checkIn = IF few = {} THEN NoTime ELSE Min(few)
  BY DEF CheckIn, InstantsOf, Typed
<1>5. checkOut = IF late = {} \/ (checkIn # NoTime /\ Max(late \cup {0}) < checkIn) THEN NoTime
                 ELSE Max(late)
  BY DEF CheckOut, InstantsOf, Typed
<1> HIDE DEF ins, outs, few, late, checkIn, checkOut, retained
<1>6. (few = {}) = (ins = {})
  BY <1>3 DEF Covers
<1>7. ins # {} => Min(few) = Min(ins)
  <2> SUFFICES ASSUME ins # {} PROVE Min(few) = Min(ins)
    OBVIOUS
  <2>1. /\ Min(ins) \in ins /\ \A n \in ins : Min(ins) <= n
        /\ Min(few) \in few /\ \A n \in few : Min(few) <= n
    BY <1>2, <1>6, MinOf
  <2>2. PICK k \in few : k <= Min(ins)
    BY <1>3, <2>1 DEF Covers
  <2>3. Min(few) \in ins
    BY <1>3, <2>1 DEF Covers
  <2>4. Min(few) <= k /\ Min(ins) <= Min(few) /\ Min(few) \in Nat /\ Min(ins) \in Nat /\ k \in Nat
    BY <1>2, <2>1, <2>3
  <2>5. QED
    BY <2>2, <2>4
<1>8. checkIn = IF ins = {} THEN NoTime ELSE Min(ins)
  BY <1>4, <1>6, <1>7
<1>9. checkIn \in Nat \cup {NoTime} /\ (checkIn # NoTime <=> ins # {})
  BY <1>2, <1>8, MinOf, DayAssumption
<1>10. late # {} => Max(late) \in late /\ \A n \in late : n <= Max(late)
  <2>1. PICK bound \in Nat : \A n \in late : n <= bound
    BY <1>2, FiniteBounded
  <2>2. QED
    BY <1>2, <2>1, MaxOf
<1>11. late # {} => Max(late \cup {0}) = Max(late)
  <2> SUFFICES ASSUME late # {} PROVE Max(late \cup {0}) = Max(late)
    OBVIOUS
  <2> DEFINE both == late \cup {0}
  <2>0. Max(late) \in Nat
    BY <1>2, <1>10
  <2>1. both \in SUBSET Nat /\ both # {} /\ Max(late) \in Nat /\ \A n \in both : n <= Max(late)
    <3>1. both \in SUBSET Nat /\ both # {}
      BY <1>2
    <3>2. ASSUME NEW n \in both
          PROVE  n <= Max(late)
      <4>1. CASE n = 0
        BY <2>0, <4>1
      <4>2. CASE n \in late
        BY <1>10, <4>2
      <4>3. QED
        BY <4>1, <4>2
    <3>3. QED
      BY <2>0, <3>1, <3>2
  <2> HIDE DEF both
  <2>2. Max(both) \in both /\ \A n \in both : n <= Max(both)
    BY <2>1, MaxOf
  <2>3. Max(late) \in both
    BY <1>10 DEF both
  <2>4. Max(both) \in Nat /\ Max(both) <= Max(late) /\ Max(late) <= Max(both)
    BY <2>1, <2>2, <2>3
  <2>5. Max(both) = Max(late)
    BY <2>1, <2>4
  <2>6. QED
    BY <2>5 DEF both
<1>12. ASSUME NEW t \in outs
       PROVE  late # {} /\ t \in Nat /\ Max(late) \in Nat /\ t - Max(late) <= window
  <2>1. PICK k \in late : k <= t /\ t - k <= window
    BY <1>3 DEF Covers
  <2>2. t \in Nat /\ k \in Nat /\ Max(late) \in Nat /\ k <= Max(late)
    BY <1>2, <1>10, <2>1
  <2>3. QED
    BY <2>1, <2>2
<1>13. ASSUME checkOut = NoTime, NEW t \in outs
       PROVE  ins # {} /\ t < checkIn + window
  <2>1. late # {} /\ t \in Nat /\ Max(late) \in Nat /\ t - Max(late) <= window
    BY <1>12
  <2>2. checkIn # NoTime /\ Max(late) < checkIn
    BY <1>5, <1>11, <1>13, <2>1, DayAssumption
  <2>3. checkIn \in Nat /\ ins # {}
    BY <1>9, <2>2
  <2>4. QED
    BY <2>1, <2>2, <2>3
<1>14. ASSUME checkOut # NoTime
       PROVE  /\ checkOut \in outs
              /\ \A t \in outs : t - checkOut <= window
              /\ ins # {} => checkIn <= checkOut
  <2>1. late # {} /\ checkOut = Max(late)
    BY <1>5, <1>14
  <2>2. checkOut \in outs
    BY <1>3, <1>10, <2>1 DEF Covers
  <2>3. ins # {} => checkIn <= checkOut
    <3>1. ins # {} => checkIn \in Nat /\ ~(Max(late) < checkIn)
      BY <1>5, <1>9, <1>11, <1>14, <2>1
    <3>2. Max(late) \in Nat
      BY <1>2, <1>10, <2>1
    <3>3. QED
      BY <2>1, <3>1, <3>2
  <2>4. QED
    BY <1>12, <2>1, <2>2, <2>3
<1>15. QED
  BY <1>8, <1>13, <1>14 DEF TimesMatch, ins, outs, checkIn, checkOut, retained

\* What a calculation makes of its evidence is what EvidenceCounts says of a row.
LEMMA ResultMatches ==
  ASSUME NEW q \in Reading
  PROVE  LET new == Result(q)
         IN  /\ TimesMatch(new.checkIn, new.checkOut, q.events, q.policy.window)
             /\ new.status = "absent" <=> q.events = {}
             /\ new.regular + new.holiday <= new.worked
<1> DEFINE new == Result(q)
           ins == InstantsOf(q.events, "in")
           outs == InstantsOf(q.events, "out")
           planned == Schedule(q.shift, q.policy, q.day).planned
           nonWorking == q.context.holiday \/ q.context.weekend
<1>1. q.events \in SUBSET Event /\ IsFiniteSet(q.events) /\ q.policy.window \in Nat
  BY InputsAssumption DEF Reading, Policy
<1>2. /\ new.checkIn = CheckIn(Retained(q.events, q.policy.window))
      /\ new.checkOut = CheckOut(Retained(q.events, q.policy.window))
      /\ new.status = BaseStatus(new.checkIn, new.checkOut)
  BY DEF Result
<1>3. /\ new.regular \in {0, AtLeastZero(new.worked - planned)}
      /\ nonWorking => new.regular = 0
      /\ new.holiday = IF nonWorking THEN new.worked ELSE 0
  BY DEF Result
<1>4. new.worked \in Nat
  BY WorkedType
<1> HIDE DEF new
<1>5. TimesMatch(new.checkIn, new.checkOut, q.events, q.policy.window)
  BY <1>1, <1>2, TimesOfEvidence
<1>6. new.status = "absent" <=> new.checkIn = NoTime /\ new.checkOut = NoTime
  BY <1>2 DEF BaseStatus
<1>7. new.checkIn = NoTime <=> ins = {}
  <2>1. ins \in SUBSET Nat
    BY <1>1, FiniteInstants DEF InstantsOf, Typed
  <2>2. new.checkIn = IF ins = {} THEN NoTime ELSE Min(ins)
    BY <1>5 DEF TimesMatch
  <2> HIDE DEF ins
  <2>3. QED
    BY <2>1, <2>2, MinOf, DayAssumption
<1>8. ins = {} => (new.checkOut = NoTime <=> outs = {})
  BY <1>5 DEF TimesMatch
<1>9. q.events = {} <=> ins = {} /\ outs = {}
  <2>1. \A e \in q.events : e.type \in {"in", "out"}
    BY <1>1 DEF Event
  <2>2. QED
    BY <2>1 DEF InstantsOf, Typed
<1>10. new.status = "absent" <=> q.events = {}
  BY <1>6, <1>7, <1>8, <1>9
<1>11. planned \in Nat
  BY ScheduleType
<1>12. new.regular + new.holiday <= new.worked
  <2>1. AtLeastZero(new.worked - planned) <= new.worked /\ AtLeastZero(new.worked - planned) \in Nat
    BY <1>4, <1>11 DEF AtLeastZero
  <2>2. QED
    BY <1>3, <1>4, <2>1
<1>13. QED
  BY <1>5, <1>10, <1>12 DEF new

\* Inputs with one fingerprint give one result, except for the counts.
LEMMA SameFingerprint ==
  ASSUME NEW p, NEW q, Fingerprint(p) = Fingerprint(q)
  PROVE  \A column \in Columns \ {"count", "duplicates", "revision"} :
           Result(p)[column] = Result(q)[column]
<1>1. /\ p.day = q.day /\ p.shift = q.shift /\ p.policy.window = q.policy.window
      /\ p.policy.before = q.policy.before /\ p.policy.after = q.policy.after
      /\ Retained(p.events, p.policy.window) = Retained(q.events, q.policy.window)
      /\ p.context = q.context
  BY DEF Fingerprint
<1>2. Schedule(p.shift, p.policy, p.day) = Schedule(q.shift, q.policy, q.day)
  BY <1>1 DEF Schedule
<1>3. CheckIn(Retained(p.events, p.policy.window)) = CheckIn(Retained(q.events, q.policy.window))
      /\ CheckOut(Retained(p.events, p.policy.window)) =
           CheckOut(Retained(q.events, q.policy.window))
  BY <1>1
<1>4. Result(p).checkIn = Result(q).checkIn /\ Result(p).checkOut = Result(q).checkOut
  BY <1>3 DEF Result
<1>5. Result(p).status = Result(q).status
  BY <1>3 DEF Result
<1>6. Result(p).worked = Result(q).worked
  BY <1>1, <1>3 DEF Result
<1>7. Result(p).late = Result(q).late
  BY <1>1, <1>2, <1>3 DEF Result
<1>8. Result(p).dayStatus = Result(q).dayStatus
  BY <1>1, <1>3 DEF Result
<1>9. Result(p).regular = Result(q).regular
  BY <1>1, <1>2, <1>3 DEF Result
<1>10. Result(p).holiday = Result(q).holiday
  BY <1>1, <1>3 DEF Result
<1>11. Result(p).fingerprint = Result(q).fingerprint
  BY DEF Result
<1>12. QED
  BY <1>4, <1>5, <1>6, <1>7, <1>8, <1>9, <1>10, <1>11 DEF Columns

-----------------------------------------------------------------------------
(***************************************************************************)
(* Type correctness.                                                       *)
(***************************************************************************)

LEMMA InitType == Init => TypeOK
<1> SUFFICES ASSUME Init PROVE TypeOK
  OBVIOUS
<1>1. policy \in Policies /\ context \in [Days -> Contexts]
  BY InputsAssumption DEF Init
<1>2. 0 \in 0 .. MaxChanges /\ 0 \in 0 .. MaxCalls /\ 0 \in 0 .. MaxOverlaps
  BY BoundsAssumption
<1>3. shift \in [Days -> Shifts \cup {NoShift}]
  BY InputsAssumption DEF Init
<1>4. QED
  BY <1>1, <1>2, <1>3 DEF Init, TypeOK

\* The fields of a call.
LEMMA CallFields ==
  ASSUME NEW q \in Call
  PROVE  /\ q.op = "request" => q.user \in Users /\ q.claim \in Claims /\ q.approved \in BOOLEAN
         /\ q.op = "decide" => q.user \in Users /\ q.event \in EventIds /\ q.approve \in BOOLEAN
         /\ q.op = "revoke" => q.event \in EventIds
         /\ q.op = "preview" => q.sheet \in Sheets /\ q.session \in ImportSession
         /\ q.op = "apply" => q.user \in Users /\ q.sheet \in Sheets
         /\ q.op = "lock" => q.from \in Days /\ q.to \in Days
         /\ q.op = "reopen" => q.lock \in LockIds
         /\ q.op = "calculate" => /\ q.day \in Days /\ q.read \in Reading
                                  /\ q.record \in Record \cup {NoRow}
BY DEF Call

LEMMA CallType ==
  ASSUME TypeOK, NEW c \in Calls, ~Idle(c)
  PROVE  calls[c] \in Call /\ calls[c] # NoCall
BY DEF TypeOK, Idle

LEMMA BeginsType ==
  ASSUME TypeOK, NEW c \in Calls, NEW call \in Call, Begins(c, call), UNCHANGED answers
  PROVE  TypeOK'
BY BoundsAssumption DEF TypeOK, Begins, tables, inputs

LEMMA CommittedType ==
  ASSUME TypeOK, NEW c \in Calls, NEW op, Ready(c, op), Committed(c)
  PROVE  /\ calls' \in [Calls -> Call \cup {NoCall}]
         /\ overtaken' \subseteq Calls
         /\ overlaps' \in 0 .. MaxOverlaps
         /\ UNCHANGED <<inputs, begun>>
BY BoundsAssumption DEF TypeOK, Committed, Ready

\* A calculation reads finitely many events.
LEMMA ReadType ==
  ASSUME TypeOK, NEW d \in Days
  PROVE  Read(d) \in Reading
<1> DEFINE Seen(p) == [at |-> p.at, type |-> p.type, source |-> "device", id |-> 0]
           Told(n) == [at |-> events[n].claim.at, type |-> events[n].claim.type,
                       source |-> "manual", id |-> n]
           approved == {m \in EventIds : In(m, "approved")}
           seen == {Seen(p) : p \in punches}
           told == {Told(n) : n \in approved}
           toSeen == [p \in punches |-> Seen(p)]
           toTold == [n \in approved |-> Told(n)]
           captured == Captured(Timeline, shift[d], policy, d)
<1>1. Timeline = seen \cup told
  BY DEF Timeline
<1>2. seen \subseteq Event
  <2>1. \A p \in punches : p.at \in Nat /\ p.type \in {"in", "out"}
    BY InputsAssumption DEF TypeOK, Claim
  <2>2. QED
    BY <2>1 DEF Event
<1>3. told \subseteq Event
  <2>1. ASSUME NEW n \in approved
        PROVE  events[n].claim.at \in Nat /\ events[n].claim.type \in {"in", "out"} /\ n \in Nat
    <3>1. events[n] \in ManualEvent
      BY DEF TypeOK, In, Exists
    <3>2. events[n].claim \in Claim
      BY <3>1, InputsAssumption DEF ManualEvent
    <3>3. QED
      BY <3>2, BoundsAssumption DEF Claim, EventIds
  <2>2. QED
    BY <2>1 DEF Event
<1>4. IsFiniteSet(seen)
  <2>1. IsFiniteSet(punches)
    BY InputsAssumption, FS_Subset DEF TypeOK
  <2>2. toSeen \in Surjection(punches, seen)
    BY DEF Surjection
  <2>3. QED
    BY <2>1, <2>2, FS_Surjection
<1>5. IsFiniteSet(told)
  <2>1. IsFiniteSet(EventIds)
    BY BoundsAssumption, FS_Interval DEF EventIds
  <2>2. IsFiniteSet(approved)
    BY <2>1, FS_Subset
  <2>3. toTold \in Surjection(approved, told)
    BY DEF Surjection
  <2>4. QED
    BY <2>2, <2>3, FS_Surjection
<1>6. Timeline \in SUBSET Event /\ IsFiniteSet(Timeline)
  BY <1>1, <1>2, <1>3, <1>4, <1>5, FS_Union
<1>7. captured \in SUBSET Timeline
  BY DEF Captured
<1>8. captured \in SUBSET Event /\ IsFiniteSet(captured)
  BY <1>6, <1>7, FS_Subset
<1> HIDE DEF captured
<1>9. shift[d] \in Shifts \cup {NoShift} /\ policy \in Policies /\ context[d] \in Contexts
  BY DEF TypeOK
<1>10. Read(d) = [events |-> captured, shift |-> shift[d], policy |-> policy,
                  context |-> context[d], day |-> d]
  BY DEF Read, Inputs, captured
<1>11. QED
  BY <1>8, <1>9, <1>10 DEF Reading

LEMMA BeginType ==
  ASSUME TypeOK, NEW c \in Calls, Begin(c)
  PROVE  TypeOK'
<1>1. ASSUME NEW user \in Users, NEW claim \in Claims, BeginRequest(c, user, claim)
      PROVE  TypeOK'
  <2> DEFINE q == [op |-> "request", user |-> user, claim |-> claim,
                   approved |-> ~policy.approval]
  <2>1. q \in [op : {"request"}, user : Users, claim : Claims, approved : BOOLEAN]
    OBVIOUS
  <2>2. q \in Call
    BY <2>1 DEF Call
  <2>3. QED
    BY <1>1, <2>2, BeginsType DEF BeginRequest
<1>2. ASSUME NEW user \in Users, NEW n \in EventIds, NEW approve \in BOOLEAN,
             BeginDecide(c, user, n, approve)
      PROVE  TypeOK'
  <2> DEFINE q == [op |-> "decide", user |-> user, event |-> n, approve |-> approve]
  <2>1. q \in Call
    BY DEF Call
  <2>2. QED
    BY <1>2, <2>1, BeginsType DEF BeginDecide
<1>3. ASSUME NEW n \in EventIds, BeginRevoke(c, n)
      PROVE  TypeOK'
  <2>1. [op |-> "revoke", event |-> n] \in Call
    BY DEF Call
  <2>2. QED
    BY <1>3, <2>1, BeginsType DEF BeginRevoke
<1>4. ASSUME NEW user \in Users, NEW s \in Sheets, NEW strict \in BOOLEAN,
             BeginPreview(c, user, s, strict)
      PROVE  TypeOK'
  <2> DEFINE session == [status |-> "preview", requester |-> user, strict |-> strict,
                         valid |-> ValidRows(s),
                         invalid |-> s \in Faulty \/ ValidRows(s) # Rows[s]]
             q == [op |-> "preview", sheet |-> s, session |-> session]
  <2>1. ValidRows(s) \in SUBSET Claims
    BY InputsAssumption DEF ValidRows
  <2>2. session \in ImportSession
    BY <2>1 DEF ImportSession
  <2> HIDE DEF session
  <2>3. q \in Call
    BY <2>2 DEF Call
  <2>4. QED
    BY <1>4, <2>3, BeginsType DEF BeginPreview, session
<1>5. ASSUME NEW user \in Users, NEW s \in Sheets, BeginApply(c, user, s)
      PROVE  TypeOK'
  <2>1. [op |-> "apply", user |-> user, sheet |-> s] \in Call
    BY DEF Call
  <2>2. QED
    BY <1>5, <2>1, BeginsType DEF BeginApply
<1>6. ASSUME NEW from \in Days, NEW to \in Days, BeginLock(c, from, to)
      PROVE  TypeOK'
  <2>1. [op |-> "lock", from |-> from, to |-> to] \in Call
    BY DEF Call
  <2>2. QED
    BY <1>6, <2>1, BeginsType DEF BeginLock
<1>7. ASSUME NEW l \in LockIds, BeginReopen(c, l)
      PROVE  TypeOK'
  <2>1. [op |-> "reopen", lock |-> l] \in Call
    BY DEF Call
  <2>2. QED
    BY <1>7, <2>1, BeginsType DEF BeginReopen
<1>8. ASSUME NEW d \in Days, BeginCalculate(c, d)
      PROVE  TypeOK'
  <2> DEFINE q == [op |-> "calculate", day |-> d, read |-> Read(d), record |-> records[d]]
  <2>1. Read(d) \in Reading /\ records[d] \in Record \cup {NoRow}
    BY ReadType DEF TypeOK
  <2>2. q \in Call
    BY <2>1 DEF Call
  <2>3. QED
    BY <1>8, <2>2, BeginsType DEF BeginCalculate
<1>9. QED
  BY <1>1, <1>2, <1>3, <1>4, <1>5, <1>6, <1>7, <1>8 DEF Begin

\* Ids that an import gives to its claims.
LEMMA NewRowsType ==
  ASSUME NEW claims, NEW row \in NewRows(claims)
  PROVE  /\ row \in [DOMAIN row -> claims]
         /\ DOMAIN row \subseteq {n \in EventIds : ~Exists(n)}
         /\ \A n, m \in DOMAIN row : row[n] = row[m] => n = m
         /\ \A claim \in claims : \E n \in DOMAIN row : row[n] = claim
<1> DEFINE new == {n \in EventIds : ~Exists(n) /\
                     Cardinality({m \in 1 .. n : ~Exists(m)}) <= Cardinality(claims)}
<1>1. new \subseteq {n \in EventIds : ~Exists(n)}
  OBVIOUS
<1>2. row \in Bijection(new, claims)
  BY DEF NewRows
<1> HIDE DEF new
<1>3. row \in [new -> claims] /\ (\A n, m \in new : row[n] = row[m] => n = m)
      /\ (\A claim \in claims : \E n \in new : row[n] = claim)
  BY <1>2 DEF Bijection, Injection, Surjection, IsInjective
<1>4. QED
  BY <1>1, <1>3

\* The row of a calculation is a record: some columns stay as they are.
LEMMA ChangedType ==
  ASSUME NEW now \in Record, NEW seen, NEW new \in Record
  PROVE  Changed(now, seen, new) \in Record
<1> DEFINE row == Changed(now, seen, new)
           Pick(column) == IF new[column] # seen[column] THEN new[column] ELSE now[column]
<1>1. DOMAIN now = Columns
  BY DEF Record, Columns
<1>2. row = [column \in Columns |-> Pick(column)]
  BY <1>1 DEF Changed
<1>3. \A column \in Columns : Pick(column) \in {new[column], now[column]}
  OBVIOUS
<1> HIDE DEF Pick
<1>4. row = [checkIn |-> Pick("checkIn"), checkOut |-> Pick("checkOut"),
             status |-> Pick("status"), worked |-> Pick("worked"), late |-> Pick("late"),
             dayStatus |-> Pick("dayStatus"), regular |-> Pick("regular"),
             holiday |-> Pick("holiday"), count |-> Pick("count"),
             duplicates |-> Pick("duplicates"), fingerprint |-> Pick("fingerprint"),
             revision |-> Pick("revision")]
  BY <1>2 DEF Columns
<1>5. /\ Pick("checkIn") \in Nat \cup {NoTime} /\ Pick("checkOut") \in Nat \cup {NoTime}
      /\ Pick("status") \in {"present", "partial", "absent"}
      /\ Pick("worked") \in Nat /\ Pick("late") \in Nat
      /\ Pick("dayStatus") \in {"present", "partial", "absent", "field_duty", "leave",
                                 "holiday", "weekly_off"}
      /\ Pick("regular") \in Nat /\ Pick("holiday") \in Nat
      /\ Pick("count") \in Nat /\ Pick("duplicates") \in Nat
      /\ Pick("fingerprint") \in Days \X (Shifts \cup {NoShift}) \X Nat \X Nat \X Nat
                                \X (SUBSET Event) \X Contexts
      /\ Pick("revision") \in 1 .. MaxRevision
  BY <1>3 DEF Record, Columns
<1> HIDE DEF row
<1>6. row \in Record
  BY <1>4, <1>5 DEF Record
<1>7. QED
  BY <1>6 DEF row

\* The row that a calculation writes.
CalculatedRow(c) ==
  LET q == calls[c]
  IN  IF q.record = NoRow THEN WithRevision(Result(q.read), 1)
      ELSE Changed(records[q.day], q.record, WithRevision(Result(q.read), q.record.revision + 1))

LEMMA CalculatedType ==
  ASSUME TypeOK, CallsChecked, NEW c \in Calls, CalculateDay(c)
  PROVE  LET q == calls[c]
         IN  /\ q \in Call /\ q.op = "calculate" /\ Checked(q)
             /\ q.day \in Days /\ q.read \in Reading /\ q.record \in Record \cup {NoRow}
             /\ CalculatedRow(c) \in Record
             /\ records' = [records EXCEPT ![q.day] = CalculatedRow(c)]
             /\ answers' = [answers EXCEPT ![q.day] = q.read]
<1> DEFINE q == calls[c]
           first == WithRevision(Result(q.read), 1)
           next == WithRevision(Result(q.read), q.record.revision + 1)
           row == CalculatedRow(c)
<1>1. ~Idle(c) /\ q.op = "calculate"
  BY DEF CalculateDay, Ready
<1>2. q \in Call /\ Checked(q)
  BY <1>1, CallType DEF CallsChecked, Running
<1>3. row = IF q.record = NoRow THEN first ELSE Changed(records[q.day], q.record, next)
  BY DEF CalculatedRow
<1>4. /\ row.revision <= MaxRevision
      /\ records' = [records EXCEPT ![q.day] = row]
      /\ answers' = [answers EXCEPT ![q.day] = q.read]
  BY DEF CalculateDay, CalculatedRow
<1> HIDE DEF q, row
<1>5. q.day \in Days /\ q.read \in Reading /\ q.record \in Record \cup {NoRow}
  BY <1>1, <1>2, CallFields
<1>6. q.record # NoRow => records[q.day] \in Record
  BY <1>1, <1>2, <1>5 DEF Checked, TypeOK
<1>7. ASSUME q.record = NoRow
      PROVE  row \in Record
  <2>1. first.revision = 1
    BY DEF WithRevision
  <2>2. 1 \in 1 .. MaxRevision
    BY <1>3, <1>4, <1>7, <2>1, BoundsAssumption
  <2>3. first \in Record
    BY <1>5, <2>2, ResultType
  <2>4. QED
    BY <1>3, <1>7, <2>3
<1>8. ASSUME q.record # NoRow
      PROVE  row \in Record
  <2>1. q.record \in Record /\ records[q.day] \in Record
    BY <1>5, <1>6, <1>8
  <2>2. q.record.revision \in 1 .. MaxRevision
    BY <2>1 DEF Record
  <2>3. next.revision = q.record.revision + 1
    BY DEF WithRevision
  <2>4. row.revision = q.record.revision + 1
    <3>1. "revision" \in DOMAIN records[q.day]
      BY <2>1 DEF Record
    <3>2. next.revision # q.record.revision
      BY <2>2, <2>3
    <3>3. QED
      BY <1>3, <1>8, <2>3, <3>1, <3>2 DEF Changed
  <2>5. q.record.revision + 1 \in 1 .. MaxRevision
    BY <1>4, <2>2, <2>4, BoundsAssumption
  <2>6. next \in Record
    BY <1>5, <2>5, ResultType
  <2>7. QED
    BY <1>3, <1>8, <2>1, <2>6, ChangedType
<1>9. QED
  BY <1>1, <1>2, <1>4, <1>5, <1>7, <1>8 DEF q, row

LEMMA WriteType ==
  ASSUME TypeOK, CallsChecked, NEW c \in Calls, Write(c)
  PROVE  TypeOK'
<1> DEFINE q == calls[c]
<1>1. /\ ~Idle(c)
      /\ calls' \in [Calls -> Call \cup {NoCall}]
      /\ overtaken' \subseteq Calls
      /\ overlaps' \in 0 .. MaxOverlaps
      /\ UNCHANGED <<inputs, begun>>
  BY CommittedType DEF Write, RequestEvent, DecideEvent, RevokeEvent, PreviewImport, ApplyImport,
                       LockPeriod, ReopenPeriod, CalculateDay, Ready
<1>2. q \in Call /\ Checked(q)
  BY <1>1, CallType DEF CallsChecked, Running
<1> HIDE DEF q
<1>3. CASE RequestEvent(c)
  <2>1. q.user \in Users /\ q.claim \in Claims /\ q.approved \in BOOLEAN
    BY <1>2, <1>3, CallFields DEF RequestEvent, Ready, q
  <2> DEFINE row == [claim |-> q.claim, status |-> IF q.approved THEN "approved" ELSE "pending",
                     requester |-> q.user, decider |-> IF q.approved THEN q.user ELSE NoOne,
                     sheet |-> NoSheet]
  <2>2. row \in ManualEvent
    BY <2>1 DEF ManualEvent
  <2> HIDE DEF row
  <2>3. \E n \in EventIds : events' = [events EXCEPT ![n] = row]
    BY <1>3 DEF RequestEvent, row, q
  <2>4. QED
    BY <1>1, <1>3, <2>2, <2>3 DEF RequestEvent, TypeOK, inputs
<1>4. CASE DecideEvent(c)
  <2>1. q.op = "decide"
    BY <1>4 DEF DecideEvent, Ready, q
  <2>2. q.user \in Users /\ q.event \in EventIds /\ events[q.event] \in ManualEvent
    BY <1>2, <2>1, CallFields DEF Checked, Exists, TypeOK
  <2> DEFINE row == [events[q.event] EXCEPT
                       !.status = IF q.approve THEN "approved" ELSE "rejected",
                       !.decider = q.user]
  <2>3. row \in ManualEvent
    BY <2>2 DEF ManualEvent
  <2> HIDE DEF row
  <2>4. events' = [events EXCEPT ![q.event] = row]
    BY <1>4 DEF DecideEvent, row, q
  <2>5. UNCHANGED <<locks, sheets, records, answers>>
    BY <1>4 DEF DecideEvent
  <2>6. QED
    BY <1>1, <2>2, <2>3, <2>4, <2>5 DEF TypeOK, inputs
<1>5. CASE RevokeEvent(c)
  <2>1. q.op = "revoke"
    BY <1>5 DEF RevokeEvent, Ready, q
  <2>2. q.event \in EventIds /\ events[q.event] \in ManualEvent
    BY <1>2, <2>1, CallFields DEF Checked, Exists, TypeOK
  <2> DEFINE row == [events[q.event] EXCEPT !.status = "revoked"]
  <2>3. row \in ManualEvent
    BY <2>2 DEF ManualEvent
  <2> HIDE DEF row
  <2>4. events' = [events EXCEPT ![q.event] = row]
    BY <1>5 DEF RevokeEvent, row, q
  <2>5. UNCHANGED <<locks, sheets, records, answers>>
    BY <1>5 DEF RevokeEvent
  <2>6. QED
    BY <1>1, <2>2, <2>3, <2>4, <2>5 DEF TypeOK, inputs
<1>6. CASE PreviewImport(c)
  <2>1. q.sheet \in Sheets /\ q.session \in ImportSession
    BY <1>2, <1>6, CallFields DEF PreviewImport, Ready, q
  <2>2. sheets' = [sheets EXCEPT ![q.sheet] = q.session]
    BY <1>6 DEF PreviewImport, q
  <2>3. QED
    BY <1>1, <1>6, <2>1, <2>2 DEF PreviewImport, TypeOK, inputs
<1>7. CASE ApplyImport(c)
  <2> DEFINE session == sheets[q.sheet]
             applied == [session EXCEPT !.status = "applied"]
  <2>1. q.op = "apply"
    BY <1>7 DEF ApplyImport, Ready, q
  <2>2. q.user \in Users /\ q.sheet \in Sheets /\ session \in ImportSession
    BY <1>2, <2>1, CallFields DEF Checked, TypeOK
  <2>3. applied \in ImportSession
    BY <2>2 DEF ImportSession
  <2>4. session.valid \subseteq Claims /\ session.requester \in Users
    BY <2>2 DEF ImportSession
  <2> HIDE DEF session, applied
  <2>5. /\ sheets' = [sheets EXCEPT ![q.sheet] = applied]
        /\ \E row \in NewRows(session.valid) :
             events' = WithRows(row, q.sheet, session, q.user)
    BY <1>7 DEF ApplyImport, session, applied, q
  <2>6. PICK row \in NewRows(session.valid) : events' = WithRows(row, q.sheet, session, q.user)
    BY <2>5
  <2>7. /\ row \in [DOMAIN row -> session.valid]
        /\ DOMAIN row \subseteq EventIds
    BY NewRowsType
  <2>8. ASSUME NEW n \in EventIds
        PROVE  events'[n] \in ManualEvent \cup {NoRow}
    <3>1. CASE n \in DOMAIN row
      <4> DEFINE new == [claim |-> row[n], status |-> "approved",
                         requester |-> session.requester, decider |-> q.user,
                         sheet |-> q.sheet]
      <4>1. events'[n] = new
        BY <2>6, <3>1 DEF WithRows
      <4>2. row[n] \in Claims
        BY <2>4, <2>7, <3>1
      <4>3. new \in ManualEvent
        BY <2>2, <2>4, <4>2 DEF ManualEvent
      <4>4. QED
        BY <4>1, <4>3
    <3>2. CASE n \notin DOMAIN row
      BY <2>6, <3>2 DEF WithRows, TypeOK
    <3>3. QED
      BY <3>1, <3>2
  <2>9. events' \in [EventIds -> ManualEvent \cup {NoRow}]
    <3>1. DOMAIN events' = EventIds /\ events' = [n \in EventIds |-> events'[n]]
      BY <2>6 DEF WithRows
    <3>2. QED
      BY <2>8, <3>1
  <2>10. UNCHANGED <<locks, records, answers>>
    BY <1>7 DEF ApplyImport
  <2>11. QED
    BY <1>1, <2>2, <2>3, <2>5, <2>9, <2>10 DEF TypeOK, inputs
<1>8. CASE LockPeriod(c)
  <2>1. q.from \in Days /\ q.to \in Days
    BY <1>2, <1>8, CallFields DEF LockPeriod, Ready, q
  <2> DEFINE row == [status |-> "locked", from |-> q.from, to |-> q.to]
  <2>2. row \in PeriodLock
    BY <2>1 DEF PeriodLock
  <2> HIDE DEF row
  <2>3. \E l \in LockIds : locks' = [locks EXCEPT ![l] = row]
    BY <1>8 DEF LockPeriod, row, q
  <2>4. QED
    BY <1>1, <1>8, <2>2, <2>3 DEF LockPeriod, TypeOK, inputs
<1>9. CASE ReopenPeriod(c)
  <2>1. q.op = "reopen"
    BY <1>9 DEF ReopenPeriod, Ready, q
  <2>2. q.lock \in LockIds /\ locks[q.lock] \in PeriodLock
    BY <1>2, <2>1, CallFields DEF Checked, TypeOK
  <2> DEFINE row == [locks[q.lock] EXCEPT !.status = "reopened"]
  <2>3. row \in PeriodLock
    BY <2>2 DEF PeriodLock
  <2> HIDE DEF row
  <2>4. locks' = [locks EXCEPT ![q.lock] = row]
    BY <1>9 DEF ReopenPeriod, row, q
  <2>5. UNCHANGED <<events, sheets, records, answers>>
    BY <1>9 DEF ReopenPeriod
  <2>6. QED
    BY <1>1, <2>2, <2>3, <2>4, <2>5 DEF TypeOK, inputs
<1>10. CASE CalculateDay(c)
  <2>1. /\ q.day \in Days /\ q.read \in Reading /\ CalculatedRow(c) \in Record
        /\ records' = [records EXCEPT ![q.day] = CalculatedRow(c)]
        /\ answers' = [answers EXCEPT ![q.day] = q.read]
    BY <1>10, CalculatedType DEF q
  <2>2. UNCHANGED <<locks, events, sheets>>
    BY <1>10 DEF CalculateDay
  <2>3. QED
    BY <1>1, <2>1, <2>2 DEF TypeOK, inputs
<1>11. QED
  BY <1>3, <1>4, <1>5, <1>6, <1>7, <1>8, <1>9, <1>10 DEF Write

LEMMA StepType == TypeOK /\ CallsChecked /\ [Next]_vars => TypeOK'
<1> SUFFICES ASSUME TypeOK, CallsChecked, [Next]_vars PROVE TypeOK'
  OBVIOUS
<1>1. CASE UNCHANGED vars
  BY <1>1 DEF TypeOK, vars, tables, inputs
<1>2. ASSUME NEW c \in Calls, Abandon(c)
      PROVE  TypeOK'
  BY <1>2 DEF Abandon, TypeOK, tables, inputs
<1>3. ASSUME NEW d \in Days, CalculateAgain(d)
      PROVE  TypeOK'
  <2>1. Read(d) \in Reading
    BY ReadType
  <2>2. answers' = [answers EXCEPT ![d] = Read(d)]
    BY <1>3 DEF CalculateAgain
  <2>3. QED
    BY <1>3, <2>1, <2>2 DEF CalculateAgain, TypeOK, tables, inputs
<1>4. ASSUME NEW p \in Policies, UpdatePolicy(p)
      PROVE  TypeOK'
  <2>1. p.approval \in BOOLEAN
    BY InputsAssumption DEF Policy
  <2>2. changes + 1 \in 0 .. MaxChanges
    BY <1>4, BoundsAssumption DEF UpdatePolicy, TypeOK
  <2>3. QED
    BY <1>4, <2>1, <2>2 DEF UpdatePolicy, TypeOK, tables
<1>5. CASE InputChanges
  <2>1. changes' \in 0 .. MaxChanges
    BY <1>5, BoundsAssumption DEF InputChanges, TypeOK
  <2>2. /\ punches' \subseteq Sightings
        /\ shift' \in [Days -> Shifts \cup {NoShift}]
        /\ context' \in [Days -> Contexts]
    BY <1>5 DEF InputChanges, TypeOK
  <2>3. QED
    BY <1>5, <2>1, <2>2 DEF InputChanges, TypeOK, tables
<1>6. QED
  BY <1>1, <1>2, <1>3, <1>4, <1>5, BeginType, WriteType DEF Next

-----------------------------------------------------------------------------
(***************************************************************************)
(* What calls have checked and read.                                       *)
(***************************************************************************)

\* What no step changes of the rows that exist.
RowsKept ==
  /\ \A n \in EventIds : events[n] # NoRow =>
       /\ events'[n] # NoRow
       /\ events'[n].requester = events[n].requester
       /\ events'[n].claim = events[n].claim
       /\ events'[n].sheet = events[n].sheet
       /\ events[n].status # "pending" => events'[n].status # "pending"
  /\ \A s \in Sheets : sheets[s] # NoRow =>
       /\ sheets'[s] # NoRow
       /\ sheets'[s].requester = sheets[s].requester
       /\ sheets'[s].valid = sheets[s].valid
  /\ \A l \in LockIds : locks[l] # NoRow => locks'[l] # NoRow
  /\ \A d \in Days : records[d] # NoRow => records'[d] # NoRow
  /\ relaxed => relaxed'

LEMMA WriteKeepsRows ==
  ASSUME TypeOK, CallsChecked, NEW c \in Calls, Write(c)
  PROVE  RowsKept
<1> DEFINE q == calls[c]
<1>1. ~Idle(c) /\ UNCHANGED inputs
  BY DEF Write, RequestEvent, DecideEvent, RevokeEvent, PreviewImport, ApplyImport,
         LockPeriod, ReopenPeriod, CalculateDay, Ready, Committed
<1>2. q \in Call /\ Checked(q) /\ relaxed' = relaxed
  BY <1>1, CallType DEF CallsChecked, Running, inputs
<1> HIDE DEF q
<1>3. CASE RequestEvent(c)
  <2>1. \E n \in EventIds : \E row : ~Exists(n) /\ events' = [events EXCEPT ![n] = row]
    BY <1>3 DEF RequestEvent, NextEvent
  <2>2. UNCHANGED <<locks, sheets, records>>
    BY <1>3 DEF RequestEvent
  <2>3. QED
    BY <1>2, <2>1, <2>2 DEF RowsKept, Exists, TypeOK
<1>4. CASE DecideEvent(c)
  <2>1. q.op = "decide"
    BY <1>4 DEF DecideEvent, Ready, q
  <2>2. q.event \in EventIds /\ events[q.event] \in ManualEvent
    BY <1>2, <2>1, CallFields DEF Checked, Exists, TypeOK
  <2> DEFINE row == [events[q.event] EXCEPT
                       !.status = IF q.approve THEN "approved" ELSE "rejected",
                       !.decider = q.user]
  <2>3. /\ row.requester = events[q.event].requester /\ row.claim = events[q.event].claim
        /\ row.sheet = events[q.event].sheet /\ row.status # "pending"
        /\ row \in [claim : Claims, status : {"approved", "rejected"}, requester : Users,
                    decider : {q.user}, sheet : Sheets \cup {NoSheet}]
    BY <2>2 DEF ManualEvent
  <2>4. row # NoRow
    <3>1. q.user \in Users
      BY <1>2, <2>1, CallFields
    <3>2. row \in ManualEvent
      BY <2>3, <3>1 DEF ManualEvent
    <3>3. QED
      BY <3>2, NoneAssumption
  <2> HIDE DEF row
  <2>5. events' = [events EXCEPT ![q.event] = row]
    BY <1>4 DEF DecideEvent, row, q
  <2>6. UNCHANGED <<locks, sheets, records>>
    BY <1>4 DEF DecideEvent
  <2>7. QED
    BY <1>2, <2>2, <2>3, <2>4, <2>5, <2>6 DEF RowsKept, TypeOK
<1>5. CASE RevokeEvent(c)
  <2>1. q.op = "revoke"
    BY <1>5 DEF RevokeEvent, Ready, q
  <2>2. q.event \in EventIds /\ events[q.event] \in ManualEvent
    BY <1>2, <2>1, CallFields DEF Checked, Exists, TypeOK
  <2> DEFINE row == [events[q.event] EXCEPT !.status = "revoked"]
  <2>3. /\ row.requester = events[q.event].requester /\ row.claim = events[q.event].claim
        /\ row.sheet = events[q.event].sheet /\ row.status # "pending"
        /\ row \in ManualEvent
    BY <2>2 DEF ManualEvent
  <2> HIDE DEF row
  <2>4. events' = [events EXCEPT ![q.event] = row]
    BY <1>5 DEF RevokeEvent, row, q
  <2>5. UNCHANGED <<locks, sheets, records>>
    BY <1>5 DEF RevokeEvent
  <2>6. QED
    BY <1>2, <2>2, <2>3, <2>4, <2>5, NoneAssumption DEF RowsKept, TypeOK
<1>6. CASE PreviewImport(c)
  <2>1. sheets[q.sheet] = NoRow /\ sheets' = [sheets EXCEPT ![q.sheet] = q.session]
    BY <1>6 DEF PreviewImport, q
  <2>2. UNCHANGED <<locks, events, records>>
    BY <1>6 DEF PreviewImport
  <2>3. QED
    BY <1>2, <2>1, <2>2 DEF RowsKept, TypeOK
<1>7. CASE ApplyImport(c)
  <2>1. q.op = "apply"
    BY <1>7 DEF ApplyImport, Ready, q
  <2>2. q.sheet \in Sheets /\ sheets[q.sheet] \in ImportSession
    BY <1>2, <2>1, CallFields DEF Checked, TypeOK
  <2> DEFINE session == sheets[q.sheet]
             applied == [session EXCEPT !.status = "applied"]
  <2>3. /\ applied \in ImportSession /\ applied.requester = session.requester
        /\ applied.valid = session.valid
    BY <2>2 DEF ImportSession
  <2> HIDE DEF applied
  <2>4. /\ sheets' = [sheets EXCEPT ![q.sheet] = applied]
        /\ \E row \in NewRows(session.valid) :
             events' = WithRows(row, q.sheet, session, q.user)
    BY <1>7 DEF ApplyImport, applied, q
  <2>5. \A n \in EventIds : events[n] # NoRow => events'[n] = events[n]
    BY <2>4, NewRowsType DEF WithRows, Exists
  <2>6. UNCHANGED <<locks, records>>
    BY <1>7 DEF ApplyImport
  <2>7. QED
    BY <1>2, <2>2, <2>3, <2>4, <2>5, <2>6, NoneAssumption DEF RowsKept, TypeOK
<1>8. CASE LockPeriod(c)
  <2>1. \E l \in LockIds : \E row : locks[l] = NoRow /\ locks' = [locks EXCEPT ![l] = row]
    BY <1>8 DEF LockPeriod
  <2>2. UNCHANGED <<events, sheets, records>>
    BY <1>8 DEF LockPeriod
  <2>3. QED
    BY <1>2, <2>1, <2>2 DEF RowsKept, TypeOK
<1>9. CASE ReopenPeriod(c)
  <2>1. q.op = "reopen"
    BY <1>9 DEF ReopenPeriod, Ready, q
  <2>2. q.lock \in LockIds /\ locks[q.lock] \in PeriodLock
    BY <1>2, <2>1, CallFields DEF Checked, TypeOK
  <2> DEFINE row == [locks[q.lock] EXCEPT !.status = "reopened"]
  <2>3. row \in PeriodLock
    BY <2>2 DEF PeriodLock
  <2> HIDE DEF row
  <2>4. locks' = [locks EXCEPT ![q.lock] = row]
    BY <1>9 DEF ReopenPeriod, row, q
  <2>5. UNCHANGED <<events, sheets, records>>
    BY <1>9 DEF ReopenPeriod
  <2>6. QED
    BY <1>2, <2>2, <2>3, <2>4, <2>5, NoneAssumption DEF RowsKept, TypeOK
<1>10. CASE CalculateDay(c)
  <2>1. /\ q.day \in Days /\ CalculatedRow(c) \in Record
        /\ records' = [records EXCEPT ![q.day] = CalculatedRow(c)]
    BY <1>10, CalculatedType DEF q
  <2>2. CalculatedRow(c) # NoRow
    BY <2>1, NoneAssumption
  <2>3. UNCHANGED <<locks, events, sheets>>
    BY <1>10 DEF CalculateDay
  <2>4. QED
    BY <1>2, <2>1, <2>2, <2>3 DEF RowsKept, TypeOK
<1>11. QED
  BY <1>3, <1>4, <1>5, <1>6, <1>7, <1>8, <1>9, <1>10 DEF Write

LEMMA StepKeepsRows == TypeOK /\ CallsChecked /\ [Next]_vars => RowsKept
<1> SUFFICES ASSUME TypeOK, CallsChecked, [Next]_vars PROVE RowsKept
  OBVIOUS
<1>1. ASSUME UNCHANGED tables, relaxed => relaxed'
      PROVE  RowsKept
  BY <1>1 DEF RowsKept, tables
<1>2. ASSUME NEW c \in Calls, Begin(c)
      PROVE  UNCHANGED tables /\ relaxed' = relaxed
  BY <1>2 DEF Begin, BeginRequest, BeginDecide, BeginRevoke, BeginPreview, BeginApply, BeginLock,
              BeginReopen, BeginCalculate, Begins, inputs
<1>3. ASSUME NEW c \in Calls, Abandon(c)
      PROVE  UNCHANGED tables /\ relaxed' = relaxed
  BY <1>3 DEF Abandon, inputs
<1>4. ASSUME NEW d \in Days, CalculateAgain(d)
      PROVE  UNCHANGED tables /\ relaxed' = relaxed
  BY <1>4 DEF CalculateAgain, inputs
<1>5. ASSUME NEW p \in Policies, UpdatePolicy(p)
      PROVE  UNCHANGED tables /\ (relaxed => relaxed')
  BY <1>5 DEF UpdatePolicy
<1>6. CASE InputChanges
  <2>1. UNCHANGED tables /\ relaxed' = relaxed
    BY <1>6 DEF InputChanges
  <2>2. QED
    BY <1>1, <2>1
<1>7. CASE UNCHANGED vars
  <2>1. UNCHANGED tables /\ relaxed' = relaxed
    BY <1>7 DEF vars, inputs
  <2>2. QED
    BY <1>1, <2>1
<1>8. QED
  BY <1>1, <1>2, <1>3, <1>4, <1>5, <1>6, <1>7, WriteKeepsRows DEF Next

LEMMA CheckedKept ==
  ASSUME RowsKept, NEW q \in Call, Checked(q)
  PROVE  Checked(q)'
BY CallFields DEF RowsKept, Checked, Exists

\* Whatever is running after a step was running before, or has just begun.
LEMMA StepOnCalls ==
  ASSUME TypeOK, [Next]_vars, NEW c \in Running'
  PROVE  \/ Begin(c)
         \/ c \in Running /\ calls'[c] = calls[c] /\ ~Begin(c)
<1>1. c \in Calls /\ calls'[c] # NoCall
  BY DEF Running, Idle
<1>2. ASSUME calls'[c] = calls[c]
      PROVE  Begin(c) \/ (c \in Running /\ calls'[c] = calls[c] /\ ~Begin(c))
  BY <1>1, <1>2 DEF Running, Idle
<1>3. ASSUME NEW b \in Calls, Begin(b)
      PROVE  \E call : calls' = [calls EXCEPT ![b] = call]
  BY <1>3 DEF Begin, BeginRequest, BeginDecide, BeginRevoke, BeginPreview, BeginApply, BeginLock,
              BeginReopen, BeginCalculate, Begins
<1>4. ASSUME NEW b \in Calls, Write(b) \/ Abandon(b)
      PROVE  calls' = [calls EXCEPT ![b] = NoCall]
  BY <1>4 DEF Write, RequestEvent, DecideEvent, RevokeEvent, PreviewImport, ApplyImport,
              LockPeriod, ReopenPeriod, CalculateDay, Committed, Abandon
<1>5. ASSUME NEW b \in Calls, Begin(b) \/ Write(b) \/ Abandon(b)
      PROVE  Begin(c) \/ calls'[c] = calls[c]
  <2>1. CASE b = c
    BY <1>1, <1>4, <1>5, <2>1 DEF TypeOK
  <2>2. CASE b # c
    BY <1>1, <1>3, <1>4, <1>5, <2>2 DEF TypeOK
  <2>3. QED
    BY <2>1, <2>2
<1>6. CASE UNCHANGED calls
  BY <1>2, <1>6
<1>7. QED
  BY <1>2, <1>5, <1>6 DEF Next, vars, CalculateAgain, UpdatePolicy, InputChanges

LEMMA BeginKeeps ==
  ASSUME NEW c \in Calls, Begin(c)
  PROVE  UNCHANGED <<tables, inputs, overlaps, answers>> /\ overtaken' = overtaken \ {c}
BY DEF Begin, BeginRequest, BeginDecide, BeginRevoke, BeginPreview, BeginApply, BeginLock,
       BeginReopen, BeginCalculate, Begins

\* A call that begins has checked what it needs, and all of it is so.
LEMMA BeginChecks ==
  ASSUME TypeOK, PolicyKnown, NEW c \in Calls, Begin(c), NEW q, q = calls'[c]
  PROVE  Checked(q)' /\ Current(q)'
<1>1. UNCHANGED <<events, sheets, locks, records, relaxed>>
  BY BeginKeeps DEF tables, inputs
<1>2. ASSUME Checked(q), Current(q)
      PROVE  Checked(q)' /\ Current(q)'
  BY <1>1, <1>2 DEF Checked, Current, Exists, In, Locked, Active, MayLock
<1>3. \A call : Begins(c, call) => q = call
  BY DEF Begins, TypeOK
<1>4. ~relaxed => policy.approval
  BY DEF PolicyKnown
<1>5. ASSUME NEW user \in Users, NEW claim \in Claims, BeginRequest(c, user, claim)
      PROVE  Checked(q) /\ Current(q)
  <2>1. /\ q = [op |-> "request", user |-> user, claim |-> claim, approved |-> ~policy.approval]
        /\ ~Locked(DayOf(claim.at))
    BY <1>3, <1>5 DEF BeginRequest, MayRequest
  <2>2. q.op = "request" /\ q.claim = claim /\ q.approved = ~policy.approval
    BY <2>1
  <2>3. QED
    BY <1>4, <2>1, <2>2 DEF Checked, Current
<1>6. ASSUME NEW user \in Users, NEW n \in EventIds, NEW approve \in BOOLEAN,
             BeginDecide(c, user, n, approve)
      PROVE  Checked(q) /\ Current(q)
  <2>1. /\ q = [op |-> "decide", user |-> user, event |-> n, approve |-> approve]
        /\ MayDecide(user, n, approve)
    BY <1>3, <1>6 DEF BeginDecide
  <2>2. q.op = "decide" /\ q.user = user /\ q.event = n /\ q.approve = approve
    BY <2>1
  <2>3. QED
    BY <1>4, <2>1, <2>2 DEF Checked, Current, MayDecide, In
<1>7. ASSUME NEW n \in EventIds, BeginRevoke(c, n)
      PROVE  Checked(q) /\ Current(q)
  <2>1. q = [op |-> "revoke", event |-> n] /\ MayRevoke(n)
    BY <1>3, <1>7 DEF BeginRevoke
  <2>2. q.op = "revoke" /\ q.event = n
    BY <2>1
  <2>3. QED
    BY <2>1, <2>2 DEF Checked, Current, MayRevoke, In
<1>8. ASSUME NEW user \in Users, NEW s \in Sheets, NEW strict \in BOOLEAN,
             BeginPreview(c, user, s, strict)
      PROVE  Checked(q) /\ Current(q)
  <2>1. q.op = "preview" /\ q.session.status = "preview"
    BY <1>3, <1>8 DEF BeginPreview
  <2>2. QED
    BY <2>1 DEF Checked, Current
<1>9. ASSUME NEW user \in Users, NEW s \in Sheets, BeginApply(c, user, s)
      PROVE  Checked(q) /\ Current(q)
  <2>1. q = [op |-> "apply", user |-> user, sheet |-> s] /\ MayApply(user, s)
    BY <1>3, <1>9 DEF BeginApply
  <2>2. q.op = "apply" /\ q.user = user /\ q.sheet = s
    BY <2>1
  <2>3. QED
    BY <1>4, <2>1, <2>2 DEF Checked, Current, MayApply
<1>10. ASSUME NEW from \in Days, NEW to \in Days, BeginLock(c, from, to)
       PROVE  Checked(q) /\ Current(q)
  <2>1. q = [op |-> "lock", from |-> from, to |-> to] /\ MayLock(from, to)
    BY <1>3, <1>10 DEF BeginLock
  <2>2. q.op = "lock" /\ q.from = from /\ q.to = to
    BY <2>1
  <2>3. QED
    BY <2>1, <2>2 DEF Checked, Current, MayLock
<1>11. ASSUME NEW l \in LockIds, BeginReopen(c, l)
       PROVE  Checked(q) /\ Current(q)
  <2>1. q = [op |-> "reopen", lock |-> l] /\ MayReopen(l)
    BY <1>3, <1>11 DEF BeginReopen
  <2>2. q.op = "reopen" /\ q.lock = l
    BY <2>1
  <2>3. QED
    BY <2>1, <2>2 DEF Checked, Current, MayReopen, Active
<1>12. ASSUME NEW d \in Days, BeginCalculate(c, d)
       PROVE  Checked(q) /\ Current(q)
  <2>1. /\ q = [op |-> "calculate", day |-> d, read |-> Read(d), record |-> records[d]]
        /\ ~Locked(d)
    BY <1>3, <1>12 DEF BeginCalculate
  <2>2. /\ q.op = "calculate" /\ q.day = d /\ q.record = records[d] /\ q.read = Read(d)
    BY <2>1
  <2>3. Read(d).day = d
    BY DEF Read, Inputs
  <2>4. QED
    BY <2>1, <2>2, <2>3 DEF Checked, Current
<1>13. Checked(q) /\ Current(q)
  BY <1>5, <1>6, <1>7, <1>8, <1>9, <1>10, <1>11, <1>12 DEF Begin
<1>14. QED
  BY <1>2, <1>13

LEMMA StepChecks ==
  TypeOK /\ CallsChecked /\ PolicyKnown /\ [Next]_vars => CallsChecked'
<1> SUFFICES ASSUME TypeOK, CallsChecked, PolicyKnown, [Next]_vars, NEW c \in Running'
             PROVE  Checked(calls[c])'
  BY DEF CallsChecked
<1>1. c \in Calls
  BY DEF Running
<1>2. PICK q : q = calls'[c]
  OBVIOUS
<1>3. ASSUME Begin(c)
      PROVE  Checked(q)'
  BY <1>1, <1>2, <1>3, BeginChecks
<1>4. ASSUME c \in Running, calls'[c] = calls[c]
      PROVE  Checked(q)'
  <2>1. q \in Call /\ Checked(q)
    BY <1>1, <1>2, <1>4, CallType DEF CallsChecked, Running
  <2>2. QED
    BY <2>1, StepKeepsRows, CheckedKept
<1>5. Checked(q)'
  BY <1>3, <1>4, StepOnCalls
<1>6. QED
  BY <1>2, <1>5 DEF Checked, Exists

LEMMA StepCurrent ==
  TypeOK /\ CallsCurrent /\ PolicyKnown /\ [Next]_vars => CallsCurrent'
<1> SUFFICES ASSUME TypeOK, CallsCurrent, PolicyKnown, [Next]_vars,
                    NEW c \in Running', c \notin overtaken'
             PROVE  Current(calls[c])'
  BY DEF CallsCurrent
<1>1. c \in Calls
  BY DEF Running
<1>2. PICK q : q = calls'[c]
  OBVIOUS
<1>3. ASSUME Begin(c)
      PROVE  Current(q)'
  BY <1>1, <1>2, <1>3, BeginChecks
<1>4. ASSUME c \in Running, calls'[c] = calls[c], ~Begin(c)
      PROVE  Current(q)'
  <2>1. ASSUME UNCHANGED tables, c \notin overtaken
        PROVE  Current(q)'
    <3>1. Current(q)
      BY <1>2, <1>4, <2>1 DEF CallsCurrent
    <3>2. QED
      BY <2>1, <3>1 DEF tables, Current, Exists, In, Locked, Active, MayLock
  <2>2. ASSUME NEW b \in Calls, Write(b)
        PROVE  FALSE
    <3>1. Committed(b)
      BY <2>2 DEF Write, RequestEvent, DecideEvent, RevokeEvent, PreviewImport, ApplyImport,
                  LockPeriod, ReopenPeriod, CalculateDay
    <3>2. b # c
      BY <1>1, <3>1 DEF Committed, Running, Idle, TypeOK
    <3>3. QED
      BY <1>1, <1>4, <3>1, <3>2 DEF Committed, Running
  <2>3. ASSUME NEW b \in Calls, Begin(b)
        PROVE  Current(q)'
    <3>1. b # c
      BY <1>4, <2>3
    <3>2. QED
      BY <2>1, <2>3, <3>1, BeginKeeps
  <2>4. ASSUME NEW b \in Calls, Abandon(b)
        PROVE  Current(q)'
    <3>1. b # c
      BY <1>1, <2>4 DEF Abandon, Running, Idle, TypeOK
    <3>2. QED
      BY <2>1, <2>4, <3>1 DEF Abandon
  <2>5. ASSUME UNCHANGED tables, overtaken' = overtaken
        PROVE  Current(q)'
    BY <2>1, <2>5
  <2>6. QED
    BY <2>2, <2>3, <2>4, <2>5 DEF Next, vars, CalculateAgain, UpdatePolicy, InputChanges
<1>5. Current(q)'
  BY <1>3, <1>4, StepOnCalls
<1>6. QED
  BY <1>2, <1>5 DEF Current, In, Exists, Locked, Active, MayLock

LEMMA StepPolicy == TypeOK /\ PolicyKnown /\ [Next]_vars => PolicyKnown'
<1> SUFFICES ASSUME TypeOK, PolicyKnown, [Next]_vars PROVE PolicyKnown'
  OBVIOUS
<1>1. ASSUME UNCHANGED <<policy, relaxed>>
      PROVE  PolicyKnown'
  BY <1>1 DEF PolicyKnown
<1>2. ASSUME NEW p \in Policies, UpdatePolicy(p)
      PROVE  PolicyKnown'
  <2>1. policy' = p /\ relaxed' = (relaxed \/ ~p.approval)
    BY <1>2 DEF UpdatePolicy
  <2>2. QED
    BY <2>1 DEF PolicyKnown
<1>3. ASSUME NEW c \in Calls, Write(c)
      PROVE  UNCHANGED <<policy, relaxed>>
  BY <1>3 DEF Write, RequestEvent, DecideEvent, RevokeEvent, PreviewImport, ApplyImport,
              LockPeriod, ReopenPeriod, CalculateDay, Committed, inputs
<1>4. ASSUME NEW c \in Calls, Begin(c) \/ Abandon(c)
      PROVE  UNCHANGED <<policy, relaxed>>
  BY <1>4, BeginKeeps DEF Abandon, inputs
<1>5. QED
  BY <1>1, <1>2, <1>3, <1>4 DEF Next, vars, inputs, CalculateAgain, InputChanges

LEMMA InitInv == Init => TypeOK /\ AttendanceInv
<1> SUFFICES ASSUME Init PROVE TypeOK /\ AttendanceInv
  OBVIOUS
<1>1. Running = {}
  BY DEF Init, Running, Idle
<1>2. policy.approval
  BY DEF Init
<1>3. QED
  BY <1>1, <1>2, InitType DEF AttendanceInv, CallsChecked, CallsCurrent, PolicyKnown

LEMMA StepInv == TypeOK /\ AttendanceInv /\ [Next]_vars => TypeOK' /\ AttendanceInv'
BY StepType, StepChecks, StepCurrent, StepPolicy DEF AttendanceInv

\* What calls have checked of columns that are written once is so until they
\* write, and all they have read is, until another call has overtaken them.
THEOREM ChecksHold == Spec => []AttendanceInv
BY InitInv, StepInv, PTL DEF Spec

\* Every reachable state of any number of people, calls, workbooks, claims and
\* days has the shape the tables allow; times worked are never negative.
THEOREM TypeCorrect == Spec => []TypeOK
BY InitInv, StepInv, PTL DEF Spec

-----------------------------------------------------------------------------
(***************************************************************************)
(* Independent decisions and imports, however calls overlap.               *)
(***************************************************************************)

\* What a write does to one row of manual_attendance_events.
LEMMA EventWritten ==
  ASSUME TypeOK, CallsChecked, NEW c \in Calls, Write(c), NEW n \in EventIds
  PROVE  LET q == calls[c]
             old == events[n]
             new == events'[n]
         IN  \/ new = old
             \/ /\ RequestEvent(c) /\ old = NoRow /\ new \in ManualEvent
                /\ new.sheet = NoSheet /\ new.claim = q.claim
                /\ new.status # "pending" => q.approved
             \/ /\ DecideEvent(c) /\ n = q.event /\ old \in ManualEvent /\ new \in ManualEvent
                /\ new.sheet = old.sheet /\ new.claim = old.claim
                /\ new.requester = old.requester /\ new.decider = q.user
                /\ new.status = IF q.approve THEN "approved" ELSE "rejected"
             \/ /\ RevokeEvent(c) /\ n = q.event /\ old \in ManualEvent /\ new \in ManualEvent
                /\ new.sheet = old.sheet /\ new.claim = old.claim
                /\ new.requester = old.requester /\ new.decider = old.decider
                /\ new.status = "revoked" /\ old.status # "pending"
             \/ /\ ApplyImport(c) /\ old = NoRow /\ new \in ManualEvent
                /\ new.sheet = q.sheet /\ new.claim \in sheets[q.sheet].valid
                /\ new.requester = sheets[q.sheet].requester /\ new.decider = q.user
<1> DEFINE q == calls[c]
<1>1. ~Idle(c)
  BY DEF Write, RequestEvent, DecideEvent, RevokeEvent, PreviewImport, ApplyImport,
         LockPeriod, ReopenPeriod, CalculateDay, Ready
<1>2. q \in Call /\ Checked(q)
  BY <1>1, CallType DEF CallsChecked, Running
<1>3. events'[n] \in ManualEvent \cup {NoRow} /\ NoRow \notin ManualEvent
  BY WriteType, NoneAssumption DEF TypeOK
<1> HIDE DEF q
<1>4. CASE RequestEvent(c)
  <2> DEFINE row == [claim |-> q.claim, status |-> IF q.approved THEN "approved" ELSE "pending",
                     requester |-> q.user, decider |-> IF q.approved THEN q.user ELSE NoOne,
                     sheet |-> NoSheet]
  <2>1. /\ row.sheet = NoSheet /\ row.claim = q.claim /\ (row.status # "pending" => q.approved)
        /\ row \in ManualEvent
    <3>1. q.user \in Users /\ q.claim \in Claims /\ q.approved \in BOOLEAN
      BY <1>2, <1>4, CallFields DEF RequestEvent, Ready, q
    <3>2. QED
      BY <3>1 DEF ManualEvent
  <2> HIDE DEF row
  <2>2. PICK m \in EventIds : ~Exists(m) /\ events' = [events EXCEPT ![m] = row]
    BY <1>4 DEF RequestEvent, NextEvent, row, q
  <2>3. CASE m = n
    BY <1>4, <2>1, <2>2, <2>3 DEF TypeOK, Exists, q
  <2>4. CASE m # n
    BY <2>2, <2>4
  <2>5. QED
    BY <2>3, <2>4
<1>5. CASE DecideEvent(c)
  <2>1. q.op = "decide"
    BY <1>5 DEF DecideEvent, Ready, q
  <2>2. q.user \in Users /\ q.event \in EventIds /\ events[q.event] \in ManualEvent
    BY <1>2, <2>1, CallFields DEF Checked, Exists, TypeOK
  <2> DEFINE row == [events[q.event] EXCEPT
                       !.status = IF q.approve THEN "approved" ELSE "rejected",
                       !.decider = q.user]
  <2>3. /\ row.requester = events[q.event].requester /\ row.claim = events[q.event].claim
        /\ row.sheet = events[q.event].sheet /\ row.decider = q.user
        /\ row.status = IF q.approve THEN "approved" ELSE "rejected"
        /\ row \in ManualEvent
    BY <2>2 DEF ManualEvent
  <2> HIDE DEF row
  <2>4. events' = [events EXCEPT ![q.event] = row]
    BY <1>5 DEF DecideEvent, row, q
  <2>5. CASE n = q.event
    <3>1. events'[n] = row /\ events[n] = events[q.event]
      BY <2>2, <2>4, <2>5 DEF TypeOK
    <3>2. QED
      BY <1>5, <2>2, <2>3, <2>5, <3>1 DEF q
  <2>6. CASE n # q.event
    BY <2>4, <2>6
  <2>7. QED
    BY <2>5, <2>6
<1>6. CASE RevokeEvent(c)
  <2>1. q.op = "revoke"
    BY <1>6 DEF RevokeEvent, Ready, q
  <2>2. /\ q.event \in EventIds /\ events[q.event] \in ManualEvent
        /\ events[q.event].status # "pending"
    BY <1>2, <2>1, CallFields DEF Checked, Exists, TypeOK
  <2> DEFINE row == [events[q.event] EXCEPT !.status = "revoked"]
  <2>3. /\ row.requester = events[q.event].requester /\ row.claim = events[q.event].claim
        /\ row.sheet = events[q.event].sheet /\ row.decider = events[q.event].decider
        /\ row.status = "revoked" /\ row \in ManualEvent
    BY <2>2 DEF ManualEvent
  <2> HIDE DEF row
  <2>4. events' = [events EXCEPT ![q.event] = row]
    BY <1>6 DEF RevokeEvent, row, q
  <2>5. CASE n = q.event
    <3>1. events'[n] = row /\ events[n] = events[q.event]
      BY <2>2, <2>4, <2>5 DEF TypeOK
    <3>2. QED
      BY <1>6, <2>2, <2>3, <2>5, <3>1 DEF q
  <2>6. CASE n # q.event
    BY <2>4, <2>6
  <2>7. QED
    BY <2>5, <2>6
<1>7. CASE ApplyImport(c)
  <2> DEFINE session == sheets[q.sheet]
  <2>1. PICK row \in NewRows(session.valid) : events' = WithRows(row, q.sheet, session, q.user)
    BY <1>7 DEF ApplyImport, q
  <2>2. /\ row \in [DOMAIN row -> session.valid]
        /\ DOMAIN row \subseteq {m \in EventIds : ~Exists(m)}
    BY NewRowsType
  <2>3. CASE n \in DOMAIN row
    <3> DEFINE new == [claim |-> row[n], status |-> "approved",
                       requester |-> session.requester, decider |-> q.user, sheet |-> q.sheet]
    <3>1. events'[n] = new /\ events[n] = NoRow /\ row[n] \in session.valid
      BY <2>1, <2>2, <2>3 DEF WithRows, Exists
    <3>2. events'[n] # NoRow
      <4>1. row[n] \in Claims /\ session.requester \in Users /\ q.user \in Users
            /\ q.sheet \in Sheets
        <5>1. q.op = "apply"
          BY <1>7 DEF ApplyImport, Ready, q
        <5>2. q.user \in Users /\ q.sheet \in Sheets /\ session \in ImportSession
          BY <1>2, <5>1, CallFields DEF Checked, TypeOK
        <5>3. QED
          BY <3>1, <5>2 DEF ImportSession
      <4>2. new \in ManualEvent
        BY <4>1 DEF ManualEvent
      <4>3. QED
        BY <1>3, <3>1, <4>2
    <3>3. events'[n] \in ManualEvent
      BY <1>3, <3>2
    <3>4. /\ events'[n].sheet = q.sheet /\ events'[n].claim = row[n]
          /\ events'[n].requester = session.requester /\ events'[n].decider = q.user
      BY <3>1
    <3>5. QED
      BY <1>7, <3>1, <3>3, <3>4 DEF q
  <2>4. CASE n \notin DOMAIN row
    BY <2>1, <2>4 DEF WithRows
  <2>5. QED
    BY <2>3, <2>4
<1>8. CASE UNCHANGED events
  BY <1>8
<1>9. QED
  BY <1>4, <1>5, <1>6, <1>7, <1>8 DEF Write, PreviewImport, LockPeriod, ReopenPeriod, CalculateDay

\* Steps that are not writes leave the tables alone.
LEMMA OtherSteps ==
  ASSUME [Next]_vars, ~ \E c \in Calls : Write(c)
  PROVE  UNCHANGED <<tables, overlaps>>
<1>1. ASSUME NEW c \in Calls, Begin(c)
      PROVE  UNCHANGED <<tables, overlaps>>
  BY <1>1, BeginKeeps
<1>2. QED
  BY <1>1 DEF Next, vars, Abandon, CalculateAgain, UpdatePolicy, InputChanges

LEMMA StepAlone == TypeOK /\ AttendanceInv /\ NobodyAlone /\ [Next]_vars => NobodyAlone'
<1> SUFFICES ASSUME TypeOK, AttendanceInv, NobodyAlone, [Next]_vars, ~relaxed',
                    NEW n \in EventIds, events'[n] # NoRow, events'[n].status # "pending"
             PROVE  events'[n].decider \in Users \ {events'[n].requester}
  BY DEF NobodyAlone, Exists
<1>1. CallsChecked /\ ~relaxed
  BY StepKeepsRows DEF AttendanceInv, RowsKept
<1>2. CASE events'[n] = events[n]
  BY <1>1, <1>2 DEF NobodyAlone, Exists
<1>3. ASSUME NEW c \in Calls, Write(c), events'[n] # events[n]
      PROVE  events'[n].decider \in Users \ {events'[n].requester}
  <2> DEFINE q == calls[c]
  <2>1. ~Idle(c)
    BY <1>3 DEF Write, RequestEvent, DecideEvent, RevokeEvent, PreviewImport, ApplyImport,
           LockPeriod, ReopenPeriod, CalculateDay, Ready
  <2>2. q \in Call /\ Checked(q)
    BY <1>1, <2>1, CallType DEF CallsChecked, Running
  <2>3. CASE RequestEvent(c)
    <3>1. q.op = "request" /\ q.approved
      BY <1>1, <1>3, <2>3, EventWritten DEF RequestEvent, DecideEvent, RevokeEvent, ApplyImport, Ready
    <3>2. QED
      BY <1>1, <2>2, <3>1 DEF Checked
  <2>4. CASE DecideEvent(c)
    <3>1. /\ q.op = "decide" /\ n = q.event /\ events'[n].requester = events[n].requester
          /\ events'[n].decider = q.user
      BY <1>1, <1>3, <2>4, EventWritten DEF RequestEvent, DecideEvent, RevokeEvent, ApplyImport, Ready
    <3>2. q.user \in Users
      BY <2>2, <3>1, CallFields
    <3>3. QED
      BY <1>1, <2>2, <3>1, <3>2 DEF Checked
  <2>5. CASE RevokeEvent(c)
    <3>1. /\ events[n] \in ManualEvent /\ events[n].status # "pending"
          /\ events'[n].requester = events[n].requester
          /\ events'[n].decider = events[n].decider
      BY <1>1, <1>3, <2>5, EventWritten DEF RequestEvent, DecideEvent, RevokeEvent, ApplyImport, Ready
    <3>2. QED
      BY <1>1, <3>1, NoneAssumption DEF NobodyAlone, Exists
  <2>6. CASE ApplyImport(c)
    <3>1. /\ q.op = "apply" /\ events'[n].requester = sheets[q.sheet].requester
          /\ events'[n].decider = q.user
      BY <1>1, <1>3, <2>6, EventWritten DEF RequestEvent, DecideEvent, RevokeEvent, ApplyImport, Ready
    <3>2. q.user \in Users
      BY <2>2, <3>1, CallFields
    <3>3. QED
      BY <1>1, <2>2, <3>1, <3>2 DEF Checked
  <2>7. QED
    BY <1>1, <1>3, <2>3, <2>4, <2>5, <2>6, EventWritten
<1>4. QED
  BY <1>2, <1>3, OtherSteps DEF tables

\* However the calls of the API overlap, nobody decides on evidence of their
\* own, unless the policy has given up approval (decide_event, apply_import).
THEOREM IndependentDecisions == Spec => []NobodyAlone
<1>1. Init => NobodyAlone
  BY DEF Init, NobodyAlone, Exists
<1>2. QED
  BY <1>1, StepAlone, TypeCorrect, ChecksHold, PTL DEF Spec

LEMMA StepImported == TypeOK /\ AttendanceInv /\ ImportedOnce /\ [Next]_vars => ImportedOnce'
<1> SUFFICES ASSUME TypeOK, AttendanceInv, ImportedOnce, [Next]_vars PROVE ImportedOnce'
  OBVIOUS
<1>1. CallsChecked /\ RowsKept /\ TypeOK'
  BY StepKeepsRows, StepType DEF AttendanceInv
<1>2. NoSheet \notin Sheets /\ NoRow \notin ManualEvent
  BY NoneAssumption
<1>3. ASSUME NEW c \in Calls, Write(c)
      PROVE  calls[c] \in Call /\ Checked(calls[c])
  <2>1. ~Idle(c)
    BY <1>3 DEF Write, RequestEvent, DecideEvent, RevokeEvent, PreviewImport, ApplyImport,
           LockPeriod, ReopenPeriod, CalculateDay, Ready
  <2>2. QED
    BY <1>1, <2>1, CallType DEF CallsChecked, Running
<1>4. ASSUME NEW c \in Calls, ApplyImport(c)
      PROVE  calls[c].op = "apply" /\ calls[c].sheet \in Sheets
             /\ sheets[calls[c].sheet] \in ImportSession
  <2>1. calls[c].op = "apply"
    BY <1>4 DEF ApplyImport, Ready
  <2>2. QED
    BY <1>3, <1>4, <2>1, CallFields DEF Write, Checked, TypeOK
<1>5. ASSUME NEW n \in EventIds, events'[n] # NoRow, events'[n].sheet # NoSheet
      PROVE  /\ sheets'[events'[n].sheet] # NoRow
             /\ events'[n].claim \in sheets'[events'[n].sheet].valid
  <2>1. ASSUME events[n] # NoRow, events'[n].sheet = events[n].sheet,
               events'[n].claim = events[n].claim
        PROVE  /\ sheets'[events'[n].sheet] # NoRow
               /\ events'[n].claim \in sheets'[events'[n].sheet].valid
    <3>1. events[n].sheet \in Sheets
      BY <1>5, <2>1 DEF TypeOK, ManualEvent
    <3>2. sheets[events[n].sheet] # NoRow /\ events[n].claim \in sheets[events[n].sheet].valid
      BY <1>5, <2>1 DEF ImportedOnce, Exists
    <3>3. QED
      BY <1>1, <2>1, <3>1, <3>2 DEF RowsKept
  <2>2. CASE events'[n] = events[n]
    BY <1>5, <2>1, <2>2
  <2>3. ASSUME NEW c \in Calls, Write(c), events'[n] # events[n]
        PROVE  /\ sheets'[events'[n].sheet] # NoRow
               /\ events'[n].claim \in sheets'[events'[n].sheet].valid
    <3>1. CASE ApplyImport(c) /\ events'[n].sheet = calls[c].sheet
               /\ events'[n].claim \in sheets[calls[c].sheet].valid
      <4>1. sheets[calls[c].sheet] # NoRow /\ calls[c].sheet \in Sheets
        BY <1>3, <1>4, <2>3, <3>1 DEF Checked
      <4>2. QED
        BY <1>1, <3>1, <4>1 DEF RowsKept
    <3>2. QED
      BY <1>1, <1>2, <1>5, <2>1, <2>3, <3>1, EventWritten
  <2>4. QED
    BY <2>2, <2>3, OtherSteps DEF tables
<1>6. ASSUME NEW s \in Sheets, sheets'[s] = sheets[s], sheets[s] # NoRow,
             NEW claim \in sheets[s].valid, Imported(s, claim)' = Imported(s, claim)
      PROVE  IF sheets'[s].status = "applied"
             THEN \E n \in EventIds : Imported(s, claim)' = {n}
             ELSE Imported(s, claim)' = {}
  BY <1>6 DEF ImportedOnce
<1>7. ASSUME NEW c \in Calls, Write(c), NEW s \in Sheets, ~(ApplyImport(c) /\ s = calls[c].sheet),
             NEW claim
      PROVE  Imported(s, claim)' = Imported(s, claim)
  <2>1. \A n \in EventIds : (events'[n] # NoRow /\ events'[n].sheet = s /\ events'[n].claim = claim)
                            <=> (events[n] # NoRow /\ events[n].sheet = s /\ events[n].claim = claim)
    BY <1>1, <1>2, <1>7, EventWritten
  <2>2. QED
    BY <2>1 DEF Imported, Exists
<1>8. ASSUME NEW s \in Sheets, sheets'[s] # NoRow, NEW claim \in sheets'[s].valid
      PROVE  IF sheets'[s].status = "applied"
             THEN \E n \in EventIds : Imported(s, claim)' = {n}
             ELSE Imported(s, claim)' = {}
  <2>1. CASE UNCHANGED tables
    BY <1>6, <1>8, <2>1 DEF tables, Imported, Exists
  <2>2. ASSUME NEW c \in Calls, Write(c)
        PROVE  IF sheets'[s].status = "applied"
               THEN \E n \in EventIds : Imported(s, claim)' = {n}
               ELSE Imported(s, claim)' = {}
    <3> DEFINE q == calls[c]
    <3>1. CASE ApplyImport(c) /\ s = q.sheet
      <4> DEFINE session == sheets[s]
      <4>1. session \in ImportSession
        BY <1>4, <3>1
      <4>2. sheets' = [sheets EXCEPT ![s] = [session EXCEPT !.status = "applied"]]
        BY <3>1 DEF ApplyImport
      <4>3. sheets'[s] = [session EXCEPT !.status = "applied"]
        BY <4>2 DEF TypeOK
      <4>4. sheets'[s].status = "applied" /\ sheets'[s].valid = session.valid
        BY <4>1, <4>3 DEF ImportSession
      <4>5. /\ Imported(s, claim) = {}
            /\ \E row \in NewRows(session.valid) : events' = WithRows(row, s, session, q.user)
        BY <1>8, <3>1, <4>4 DEF ApplyImport
      <4>6. PICK row \in NewRows(session.valid) : events' = WithRows(row, s, session, q.user)
        BY <4>5
      <4>7. /\ DOMAIN row \subseteq EventIds
            /\ \A n, m \in DOMAIN row : row[n] = row[m] => n = m
            /\ \E n \in DOMAIN row : row[n] = claim
        BY <1>8, <4>4, NewRowsType
      <4>8. PICK n \in DOMAIN row : row[n] = claim
        BY <4>7
      <4>9. ASSUME NEW m \in EventIds
            PROVE  (events'[m] # NoRow /\ events'[m].sheet = s /\ events'[m].claim = claim) <=> m = n
        <5>1. CASE m \in DOMAIN row
          <6>1. events'[m] = [claim |-> row[m], status |-> "approved",
                              requester |-> session.requester, decider |-> q.user, sheet |-> s]
            BY <4>6, <5>1 DEF WithRows
          <6>2. events'[m].sheet = s /\ events'[m].claim = row[m]
            BY <6>1
          <6>3. events'[m] # NoRow
            <7>1. events'[m] = events[m] => (events'[m] = NoRow \/ events'[m] \in ManualEvent)
              BY DEF TypeOK
            <7>2. row[m] \in session.valid /\ session.valid \subseteq Claims
                  /\ session.requester \in Users
              BY <4>1, <5>1, NewRowsType DEF ImportSession
            <7>3. q.user \in Users
              BY <1>3, <1>4, <2>2, <3>1, CallFields
            <7>4. events'[m] \in ManualEvent
              BY <6>1, <7>2, <7>3 DEF ManualEvent
            <7>5. QED
              BY <1>2, <7>4
          <6>4. QED
            BY <4>7, <4>8, <5>1, <6>2, <6>3
        <5>2. CASE m \notin DOMAIN row
          <6>1. events'[m] = events[m]
            BY <4>6, <5>2 DEF WithRows
          <6>2. ~(events[m] # NoRow /\ events[m].sheet = s /\ events[m].claim = claim)
            BY <4>5 DEF Imported, Exists
          <6>3. QED
            BY <4>8, <5>2, <6>1, <6>2
        <5>3. QED
          BY <5>1, <5>2
      <4>10. n \in EventIds /\ Imported(s, claim)' = {n}
        BY <4>7, <4>8, <4>9 DEF Imported, Exists
      <4>11. QED
        BY <4>4, <4>10
    <3>2. CASE PreviewImport(c) /\ s = q.sheet
      <4>1. sheets[s] = NoRow /\ sheets' = [sheets EXCEPT ![s] = q.session] /\ q.op = "preview"
        BY <3>2 DEF PreviewImport, Ready
      <4>2. sheets'[s] = q.session /\ q.session.status = "preview"
        BY <1>3, <2>2, <4>1 DEF Checked, TypeOK
      <4>3. Imported(s, claim) = {}
        BY <1>2, <4>1 DEF ImportedOnce, Imported
      <4>4. ~ApplyImport(c)
        BY <4>1 DEF ApplyImport, Ready
      <4>5. QED
        BY <1>7, <2>2, <4>2, <4>3, <4>4
    <3>3. CASE ~(ApplyImport(c) /\ s = q.sheet) /\ ~(PreviewImport(c) /\ s = q.sheet)
      <4>1. sheets'[s] = sheets[s]
        BY <2>2, <3>3 DEF Write, RequestEvent, DecideEvent, RevokeEvent, PreviewImport, ApplyImport,
           LockPeriod, ReopenPeriod, CalculateDay, TypeOK
      <4>2. QED
        BY <1>6, <1>7, <1>8, <2>2, <3>3, <4>1
    <3>4. QED
      BY <3>1, <3>2, <3>3
  <2>3. QED
    BY <2>1, <2>2, OtherSteps
<1>9. QED
  BY <1>5, <1>8 DEF ImportedOnce, Exists

\* A workbook becomes evidence all at once and once only, also when its session
\* is applied twice at the same time (apply_import).
THEOREM ImportsOnce == Spec => []ImportedOnce
<1>1. Init => ImportedOnce
  BY DEF Init, ImportedOnce, Exists
<1>2. QED
  BY <1>1, StepImported, TypeCorrect, ChecksHold, PTL DEF Spec

-----------------------------------------------------------------------------
(***************************************************************************)
(* Locks and answers, as long as no overtaken call writes.                 *)
(***************************************************************************)

LEMMA SerialWrite ==
  ASSUME TypeOK, CallsCurrent, NEW c \in Calls, Write(c), Serial'
  PROVE  Serial /\ Current(calls[c])
<1>1. ~Idle(c) /\ overlaps' = IF c \in overtaken THEN overlaps + 1 ELSE overlaps
  BY DEF Write, RequestEvent, DecideEvent, RevokeEvent, PreviewImport, ApplyImport,
         LockPeriod, ReopenPeriod, CalculateDay, Ready, Committed
<1>2. overlaps \in Nat
  BY BoundsAssumption DEF TypeOK
<1>3. c \notin overtaken /\ overlaps = 0
  BY <1>1, <1>2 DEF Serial
<1>4. QED
  BY <1>1, <1>3 DEF Serial, CallsCurrent, Running

LEMMA StepDisjoint == TypeOK /\ AttendanceInv /\ LocksDisjoint /\ [Next]_vars => LocksDisjoint'
<1> SUFFICES ASSUME TypeOK, AttendanceInv, LocksDisjoint, [Next]_vars, Serial',
                    NEW l \in LockIds, NEW k \in LockIds, l # k, Active(l)', Active(k)'
             PROVE  locks'[l].to < locks'[k].from \/ locks'[k].to < locks'[l].from
  BY DEF LocksDisjoint
<1>1. ASSUME Serial, locks'[l] = locks[l], locks'[k] = locks[k]
      PROVE  locks'[l].to < locks'[k].from \/ locks'[k].to < locks'[l].from
  BY <1>1 DEF LocksDisjoint, Active
<1>2. ASSUME UNCHANGED <<tables, overlaps>>
      PROVE  Serial /\ locks'[l] = locks[l] /\ locks'[k] = locks[k]
  BY <1>2 DEF Serial, tables
<1>3. ASSUME NEW c \in Calls, Write(c)
      PROVE  locks'[l].to < locks'[k].from \/ locks'[k].to < locks'[l].from
  <2> DEFINE q == calls[c]
  <2>1. Serial /\ Current(q)
    BY <1>3, SerialWrite DEF AttendanceInv
  <2>2. CASE LockPeriod(c)
    <3> DEFINE row == [status |-> "locked", from |-> q.from, to |-> q.to]
    <3>1. PICK m \in LockIds : locks' = [locks EXCEPT ![m] = row]
      BY <2>2 DEF LockPeriod
    <3>2. MayLock(q.from, q.to)
      BY <2>1, <2>2 DEF LockPeriod, Ready, Current
    <3>3. \A i \in LockIds : i # m => locks'[i] = locks[i]
      BY <3>1 DEF TypeOK
    <3>4. locks'[m].from = q.from /\ locks'[m].to = q.to
      BY <3>1 DEF TypeOK
    <3>5. CASE l = m
      <4>1. locks'[k] = locks[k] /\ Active(k)
        BY <3>3, <3>5 DEF Active
      <4>2. QED
        BY <3>2, <3>4, <3>5, <4>1 DEF MayLock
    <3>6. CASE k = m
      <4>1. locks'[l] = locks[l] /\ Active(l)
        BY <3>3, <3>6 DEF Active
      <4>2. QED
        BY <3>2, <3>4, <3>6, <4>1 DEF MayLock
    <3>7. CASE l # m /\ k # m
      BY <1>1, <2>1, <3>3, <3>7
    <3>8. QED
      BY <3>5, <3>6, <3>7
  <2>3. CASE ReopenPeriod(c)
    <3>1. q.op = "reopen" /\ ~Idle(c)
      BY <2>3 DEF ReopenPeriod, Ready
    <3>2. q \in Call /\ Checked(q)
      BY <3>1, CallType DEF AttendanceInv, CallsChecked, Running
    <3>3. q.lock \in LockIds /\ locks[q.lock] \in PeriodLock
      BY <3>1, <3>2, CallFields DEF Checked, TypeOK
    <3>4. locks' = [locks EXCEPT ![q.lock] = [locks[q.lock] EXCEPT !.status = "reopened"]]
      BY <2>3 DEF ReopenPeriod
    <3>5. locks'[q.lock].status = "reopened"
      BY <3>3, <3>4 DEF TypeOK, PeriodLock
    <3>6. l # q.lock /\ k # q.lock
      BY <3>5 DEF Active
    <3>7. QED
      BY <1>1, <2>1, <3>4, <3>6
  <2>4. CASE UNCHANGED locks
    BY <1>1, <2>1, <2>4
  <2>5. QED
    BY <1>3, <2>2, <2>3, <2>4
    DEF Write, RequestEvent, DecideEvent, RevokeEvent, PreviewImport, ApplyImport, CalculateDay
<1>4. QED
  BY <1>1, <1>2, <1>3, OtherSteps

\* Active locks never share a day, so that one reopening opens it (lock_period).
THEOREM LocksStayDisjoint == Spec => []LocksDisjoint
<1>1. Init => LocksDisjoint
  BY DEF Init, LocksDisjoint, Active
<1>2. QED
  BY <1>1, StepDisjoint, TypeCorrect, ChecksHold, PTL DEF Spec

\* A write that nobody has overtaken keeps the evidence of a locked day.
LEMMA LockedEvidence ==
  ASSUME TypeOK, AttendanceInv, NEW c \in Calls, Write(c), Serial',
         NEW d \in Days, Locked(d)
  PROVE  EvidenceOf(d)' = EvidenceOf(d)
<1> DEFINE q == calls[c]
<1>1. Current(q) /\ CallsChecked
  BY SerialWrite DEF AttendanceInv
<1>2. NoSheet \notin Sheets /\ NoRow \notin ManualEvent
  BY NoneAssumption
<1>3. ASSUME NEW n \in EventIds
      PROVE  (/\ events'[n] # NoRow /\ events'[n].status = "approved"
              /\ events'[n].sheet = NoSheet /\ DayOf(events'[n].claim.at) = d)
             <=> (/\ events[n] # NoRow /\ events[n].status = "approved"
                  /\ events[n].sheet = NoSheet /\ DayOf(events[n].claim.at) = d)
  <2>1. CASE events'[n] = events[n]
    BY <2>1
  <2>2. CASE events'[n] # events[n] /\ RequestEvent(c)
    <3>1. q.op = "request"
      BY <2>2 DEF RequestEvent, Ready
    <3>2. events[n] = NoRow /\ events'[n].claim = q.claim
      BY <1>1, <2>2, <3>1, EventWritten DEF DecideEvent, RevokeEvent, ApplyImport, Ready
    <3>3. ~Locked(DayOf(q.claim.at))
      BY <1>1, <3>1 DEF Current
    <3>4. DayOf(q.claim.at) # d
      BY <3>3
    <3>5. QED
      BY <3>2, <3>4
  <2>3. CASE events'[n] # events[n] /\ DecideEvent(c)
    <3>1. q.op = "decide"
      BY <2>3 DEF DecideEvent, Ready
    <3>2. /\ n = q.event /\ events'[n].claim = events[n].claim
          /\ events'[n].status = IF q.approve THEN "approved" ELSE "rejected"
      BY <1>1, <2>3, <3>1, EventWritten DEF RequestEvent, RevokeEvent, ApplyImport, Ready
    <3>3. /\ events[n].status = "pending"
          /\ q.approve => ~Locked(DayOf(events[n].claim.at))
      BY <1>1, <3>1, <3>2 DEF Current, In
    <3>4. q.approve => DayOf(events[n].claim.at) # d
      BY <3>3
    <3>5. QED
      BY <3>2, <3>3, <3>4
  <2>4. CASE events'[n] # events[n] /\ RevokeEvent(c)
    <3>1. q.op = "revoke"
      BY <2>4 DEF RevokeEvent, Ready
    <3>2. n = q.event /\ events'[n].claim = events[n].claim
      BY <1>1, <2>4, <3>1, EventWritten DEF RequestEvent, DecideEvent, ApplyImport, Ready
    <3>3. ~Locked(DayOf(events[n].claim.at))
      BY <1>1, <3>1, <3>2 DEF Current
    <3>4. DayOf(events[n].claim.at) # d
      BY <3>3
    <3>5. QED
      BY <3>2, <3>4
  <2>5. CASE events'[n] # events[n] /\ ApplyImport(c)
    <3>1. q.op = "apply" /\ ~Idle(c)
      BY <2>5 DEF ApplyImport, Ready
    <3>2. q.sheet \in Sheets
      BY <3>1, CallType, CallFields
    <3>3. events[n] = NoRow /\ events'[n].sheet = q.sheet
      BY <1>1, <2>5, <3>1, EventWritten DEF RequestEvent, DecideEvent, RevokeEvent, Ready
    <3>4. QED
      BY <1>2, <3>2, <3>3
  <2>6. QED
    BY <1>1, <2>1, <2>2, <2>3, <2>4, <2>5, EventWritten
<1>4. QED
  BY <1>3 DEF EvidenceOf, In, Exists

\* A locked day keeps its record, and the evidence that people approve one by
\* one, until its lock is reopened (active_lock, calculate_day).
THEOREM LockedDaysFrozen == Spec => LockedDayFrozen
<1> DEFINE Kept == Serial' => \A d \in Days : Locked(d) =>
                     records'[d] = records[d] /\ EvidenceOf(d)' = EvidenceOf(d)
<1>1. ASSUME TypeOK, AttendanceInv, [Next]_vars, Serial', NEW d \in Days, Locked(d)
      PROVE  records'[d] = records[d] /\ EvidenceOf(d)' = EvidenceOf(d)
  <2>1. CASE UNCHANGED tables
    BY <2>1 DEF tables, EvidenceOf, In, Exists
  <2>2. ASSUME NEW c \in Calls, Write(c)
        PROVE  records'[d] = records[d]
    <3>1. CASE CalculateDay(c)
      <4>1. /\ calls[c].op = "calculate"
            /\ records' = [records EXCEPT ![calls[c].day] = CalculatedRow(c)]
        BY <1>1, <3>1, CalculatedType DEF AttendanceInv
      <4>2. ~Locked(calls[c].day)
        BY <1>1, <2>2, <4>1, SerialWrite DEF AttendanceInv, Current
      <4>3. calls[c].day # d
        BY <1>1, <4>2
      <4>4. QED
        BY <4>1, <4>3
    <3>2. CASE UNCHANGED records
      BY <3>2
    <3>3. QED
      BY <2>2, <3>1, <3>2
      DEF Write, RequestEvent, DecideEvent, RevokeEvent, PreviewImport, ApplyImport, LockPeriod,
          ReopenPeriod
  <2>3. QED
    BY <1>1, <2>1, <2>2, LockedEvidence, OtherSteps
<1>2. TypeOK /\ AttendanceInv /\ [Next]_vars => [Kept]_vars
  BY <1>1
<1>3. QED
  BY <1>2, TypeCorrect, ChecksHold, PTL DEF Spec, LockedDayFrozen

LEMMA StepCurrentAnswer ==
  TypeOK /\ AttendanceInv /\ AnswerIsCurrent /\ [Next]_vars => AnswerIsCurrent'
<1> SUFFICES ASSUME TypeOK, AttendanceInv, AnswerIsCurrent, [Next]_vars, Serial',
                    NEW d \in Days, records'[d] # NoRow,
                    NEW column \in Columns \ {"count", "duplicates", "revision"}
             PROVE  records'[d][column] = Result(answers'[d])[column]
  BY DEF AnswerIsCurrent
<1>1. ASSUME Serial, records'[d] = records[d], answers'[d] = answers[d]
      PROVE  records'[d][column] = Result(answers'[d])[column]
  BY <1>1 DEF AnswerIsCurrent
<1>2. ASSUME UNCHANGED <<tables, answers, overlaps>>
      PROVE  records'[d][column] = Result(answers'[d])[column]
  BY <1>1, <1>2 DEF Serial, tables
<1>3. ASSUME NEW c \in Calls, Write(c)
      PROVE  records'[d][column] = Result(answers'[d])[column]
  <2> DEFINE q == calls[c]
  <2>1. Serial /\ Current(q)
    BY <1>3, SerialWrite DEF AttendanceInv
  <2>2. CASE CalculateDay(c)
    <3>1. /\ q.op = "calculate" /\ q.day \in Days /\ q.record \in Record \cup {NoRow}
          /\ records' = [records EXCEPT ![q.day] = CalculatedRow(c)]
          /\ answers' = [answers EXCEPT ![q.day] = q.read]
      BY <2>2, CalculatedType DEF AttendanceInv
    <3>2. q.record = records[q.day]
      BY <2>1, <3>1 DEF Current
    <3>3. CASE d # q.day
      BY <1>1, <2>1, <3>1, <3>3
    <3>4. CASE d = q.day
      <4>1. records'[d] = CalculatedRow(c) /\ answers'[d] = q.read
        BY <3>1, <3>4 DEF TypeOK
      <4>2. column \in ResultColumns /\ column # "revision"
        BY DEF ResultColumns
      <4>3. \A revision : WithRevision(Result(q.read), revision)[column] = Result(q.read)[column]
        BY <4>2, ResultDomain DEF WithRevision
      <4>4. CASE q.record = NoRow
        BY <4>1, <4>3, <4>4 DEF CalculatedRow
      <4>5. CASE q.record # NoRow
        <5> DEFINE new == WithRevision(Result(q.read), q.record.revision + 1)
        <5>1. CalculatedRow(c) = Changed(records[d], records[d], new)
          BY <3>2, <3>4, <4>5 DEF CalculatedRow
        <5>2. column \in DOMAIN records[d]
          <6>1. records[d] \in Record
            BY <3>1, <3>2, <3>4, <4>5
          <6>2. DOMAIN records[d] = Columns
            BY <6>1 DEF Record, Columns
          <6>3. QED
            BY <6>2
        <5>3. new[column] = Result(q.read)[column]
          BY <4>3
        <5> HIDE DEF new
        <5>4. Changed(records[d], records[d], new)[column] = new[column]
          BY <5>2 DEF Changed
        <5>5. QED
          BY <4>1, <5>1, <5>3, <5>4
      <4>6. QED
        BY <4>4, <4>5
    <3>5. QED
      BY <3>3, <3>4
  <2>3. CASE UNCHANGED <<records, answers>>
    BY <1>1, <2>1, <2>3
  <2>4. QED
    BY <1>3, <2>2, <2>3
    DEF Write, RequestEvent, DecideEvent, RevokeEvent, PreviewImport, ApplyImport, LockPeriod,
        ReopenPeriod
<1>4. ASSUME NEW e \in Days, CalculateAgain(e)
      PROVE  records'[d][column] = Result(answers'[d])[column]
  <2>1. /\ records' = records /\ Serial
        /\ records[e] # NoRow /\ Fingerprint(Read(e)) = records[e].fingerprint
        /\ answers' = [answers EXCEPT ![e] = Read(e)]
    BY <1>4 DEF CalculateAgain, tables, Serial
  <2>2. CASE d # e
    BY <1>1, <2>1, <2>2
  <2>3. CASE d = e
    <3>1. records[d].fingerprint = Result(answers[d]).fingerprint
      BY <2>1, <2>3 DEF AnswerIsCurrent, Columns
    <3>2. Result(answers[d]).fingerprint = Fingerprint(answers[d])
      BY DEF Result
    <3>3. Result(Read(d))[column] = Result(answers[d])[column]
      BY <2>1, <2>3, <3>1, <3>2, SameFingerprint
    <3>4. records[d][column] = Result(answers[d])[column]
      BY <2>1, <2>3 DEF AnswerIsCurrent
    <3>5. answers'[d] = Read(d)
      BY <2>1, <2>3 DEF TypeOK
    <3>6. QED
      BY <2>1, <3>3, <3>4, <3>5
  <2>4. QED
    BY <2>2, <2>3
<1>5. ASSUME NEW c \in Calls, Begin(c) \/ Abandon(c)
      PROVE  UNCHANGED <<tables, answers, overlaps>>
  BY <1>5, BeginKeeps DEF Abandon
<1>6. QED
  BY <1>2, <1>3, <1>4, <1>5 DEF Next, vars, UpdatePolicy, InputChanges

\* A calculation answers with what its inputs give, whether it writes a row or
\* finds that of the same fingerprint; only counts may be older (calculate_day).
THEOREM AnswersAreCurrent == Spec => []AnswerIsCurrent
<1>1. Init => AnswerIsCurrent
  BY DEF Init, AnswerIsCurrent
<1>2. QED
  BY <1>1, StepCurrentAnswer, TypeCorrect, ChecksHold, PTL DEF Spec

-----------------------------------------------------------------------------
(***************************************************************************)
(* What records say of the evidence.                                       *)
(***************************************************************************)

\* Every record comes from a calculation.
Answered == \A d \in Days : records[d] # NoRow => answers[d] # NoRow

LEMMA StepAnswered == TypeOK /\ AttendanceInv /\ Answered /\ [Next]_vars => Answered'
<1> SUFFICES ASSUME TypeOK, AttendanceInv, Answered, [Next]_vars,
                    NEW d \in Days, records'[d] # NoRow
             PROVE  answers'[d] # NoRow
  BY DEF Answered
<1>1. CASE UNCHANGED <<records, answers>>
  BY <1>1 DEF Answered
<1>2. ASSUME NEW c \in Calls, CalculateDay(c)
      PROVE  answers'[d] # NoRow
  <2> DEFINE q == calls[c]
  <2>1. /\ q.op = "calculate" /\ q.day \in Days /\ q.read \in Reading
        /\ records' = [records EXCEPT ![q.day] = CalculatedRow(c)]
        /\ answers' = [answers EXCEPT ![q.day] = q.read]
    BY <1>2, CalculatedType DEF AttendanceInv
  <2>2. CASE d = q.day
    BY <2>1, <2>2, NoneAssumption DEF TypeOK
  <2>3. CASE d # q.day
    BY <2>1, <2>3 DEF TypeOK, Answered
  <2>4. QED
    BY <2>2, <2>3
<1>3. ASSUME NEW e \in Days, CalculateAgain(e)
      PROVE  answers'[d] # NoRow
  <2>1. records' = records /\ answers' = [answers EXCEPT ![e] = Read(e)]
    BY <1>3 DEF CalculateAgain, tables
  <2>2. Read(e) # NoRow
    BY ReadType, NoneAssumption
  <2>3. QED
    BY <2>1, <2>2 DEF TypeOK, Answered
<1>4. ASSUME NEW c \in Calls, Begin(c) \/ Abandon(c)
      PROVE  UNCHANGED <<records, answers>>
  BY <1>4, BeginKeeps DEF Abandon, tables
<1>5. QED
  BY <1>1, <1>2, <1>3, <1>4
  DEF Next, vars, tables, UpdatePolicy, InputChanges, Write, RequestEvent, DecideEvent,
      RevokeEvent, PreviewImport, ApplyImport, LockPeriod, ReopenPeriod

\* The check times of a record are those of its evidence up to the tolerance
\* for duplicates, and only a day without evidence is absent.
THEOREM EvidenceIsCounted == Spec => []EvidenceCounts
<1>1. Init => Answered
  BY DEF Init, Answered
<1>2. TypeOK /\ Answered /\ AnswerIsCurrent => EvidenceCounts
  <2> SUFFICES ASSUME TypeOK, Answered, AnswerIsCurrent, Serial,
                      NEW d \in Days, records[d] # NoRow
               PROVE  LET row == records[d]
                          seen == answers[d].events
                          window == answers[d].policy.window
                      IN  /\ TimesMatch(row.checkIn, row.checkOut, seen, window)
                          /\ row.status = "absent" <=> seen = {}
                          /\ row.regular + row.holiday <= row.worked
    BY DEF EvidenceCounts, TimesMatch, InstantsOf, Typed
  <2> DEFINE row == records[d]
             q == answers[d]
  <2>1. q \in Reading
    BY DEF TypeOK, Answered
  <2>2. \A column \in {"checkIn", "checkOut", "status", "regular", "holiday", "worked"} :
          row[column] = Result(q)[column]
    BY DEF AnswerIsCurrent, Columns
  <2>3. /\ row.checkIn = Result(q).checkIn /\ row.checkOut = Result(q).checkOut
        /\ row.status = Result(q).status /\ row.worked = Result(q).worked
        /\ row.regular = Result(q).regular /\ row.holiday = Result(q).holiday
    BY <2>2
  <2>4. QED
    BY <2>1, <2>3, ResultMatches
<1>3. QED
  BY <1>1, <1>2, StepAnswered, AnswersAreCurrent, TypeCorrect, ChecksHold, PTL DEF Spec
================================================================================

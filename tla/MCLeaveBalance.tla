---------------------------- MODULE MCLeaveBalance ----------------------------
(***************************************************************************)
(* Instances of LeaveBalance for TLC.  Year 1 has three dates, the second  *)
(* of them on the default weekend; year 2 has one date.                    *)
(***************************************************************************)
EXTENDS LeaveBalance, TLC

CONSTANTS e1,       \* employees
          u1, u2,   \* users: the employee and a manager
          c1, c2    \* API calls

OneEmployee == {e1}
BothUsers == {u1, u2}
BothCalls == {c1, c2}

Dates == 1 .. 4
TwoYears == {1, 2}
YearOfDate == <<1, 1, 1, 2>>
WeekdayOfDate == <<4, 5, 6, 0>>
EmployeeOf == [u \in BothUsers |-> IF u = u1 THEN e1 ELSE NoEmployee]
Staff == [y \in TwoYears |-> OneEmployee]
Types == [e \in OneEmployee |-> "permanent"]

Weekends == {{6}}
Holidays == {3, 4}
HolidayStates == {[name |-> "national", category |-> "public", active |-> TRUE]}
OptionalHoliday ==
  <<{}, {}, {}, {[name |-> "local", category |-> "optional", active |-> TRUE]}>>
PeriodSet == {<<1, 2>>, <<3, 3>>}
CarryRule == [active |-> TRUE, carry |-> TRUE, cap |-> 1, types |-> {"permanent"}]
Closing == {[active |-> FALSE, carry |-> FALSE, cap |-> NoCap, types |-> {}]}
AnnualRow == [allocated |-> 2, carried |-> 0, adjustment |-> 0,
              detail |-> TRUE, opening |-> 0, earned |-> 2]
OpenedRow == [AnnualRow EXCEPT !.allocated = 3, !.opening = 1]
FirstYear == {[e \in OneEmployee |-> <<OpenedRow, NoAllocation>>]}
AmountSet == {[opening |-> 1, earned |-> 2, carried |-> 0, adjustment |-> -2]}

Symmetric == Permutations(BothCalls)
=============================================================================

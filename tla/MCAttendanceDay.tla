---------------------------- MODULE MCAttendanceDay ----------------------------
(***************************************************************************)
(* Instances of AttendanceDay for TLC.                                     *)
(***************************************************************************)
EXTENDS AttendanceDay, TLC

CONSTANTS u1, u2,   \* users
          c1, c2,   \* API calls
          s1        \* workbooks

BothUsers == {u1, u2}
BothCalls == {c1, c2}
OneSheet == {s1}

\* Days of three slots; a shift from the second slot to the first slot of the
\* next day.
In2 == [at |-> 2, type |-> "in"]
Out1 == [at |-> 1, type |-> "out"]
Out3 == [at |-> 3, type |-> "out"]
SomeClaims == {In2, Out3}
SomeSightings == {Out1}
SomeRows == [s \in OneSheet |-> {In2, Out3}]
Night == [starts |-> 1, ends |-> 0, pause |-> 0, grace |-> 0]
OneShift == {Night}
Workday == [weekend |-> FALSE, holiday |-> FALSE, duty |-> FALSE, leave |-> "none"]
OnLeave == [Workday EXCEPT !.leave = "full"]
BothContexts == {Workday, OnLeave}
Strict == [approval |-> TRUE, window |-> 1, before |-> 1, after |-> 1]
Loose == [Strict EXCEPT !.approval = FALSE, !.window = 2]
BothPolicies == {Strict, Loose}

Symmetric == Permutations(BothUsers) \cup Permutations(BothCalls)
=============================================================================

------------------------ MODULE MCPayrollPreparation ------------------------
(***************************************************************************)
(* An instance of PayrollPreparation for TLC: one employee and two users   *)
(* in the first, active fiscal year, with a locked period, attendance that *)
(* is calculated and a tax policy that is confirmed.                       *)
(***************************************************************************)
EXTENDS PayrollPreparation, TLC

CONSTANTS u1, u2,  \* users
          e1,      \* an employee
          c1, c2   \* API calls

TwoUsers == {u1, u2}
OneEmployee == {e1}
BothCalls == {c1, c2}

Dates == {1, 2, 3}
OneVersion == {"v2"}
SomeMinutes == {0, 1}
NextYears == {<<2, 3>>, <<3, 3>>}
NextPeriods == {<<2, 2>>}
Worked == {1, 2}

Salary(first, last) ==
  [employee |-> e1, first |-> first, last |-> last, base |-> 4, category |-> "resident",
   overtime |-> TRUE, standard |-> 2]
Fund == [kind |-> "deduction", percentage |-> TRUE, tax |-> TRUE, cap |-> 1]
Allowance == [kind |-> "earning", percentage |-> FALSE, tax |-> FALSE, cap |-> -1]
OfOrganization == [employee |-> NoEmployee, multiplier |-> 2, first |-> 1, last |-> 2]

\* From 1.25 % to a half, and slabs that share incomes.
Half ==
  <<[lower |-> 0, upper |-> 24, rate |-> 12500], [lower |-> 24, upper |-> -1, rate |-> 500000]>>
Shared ==
  <<[lower |-> 0, upper |-> 36, rate |-> 500000], [lower |-> 12, upper |-> -1, rate |-> FullRate]>>
Enter(slabs) == [year |-> 1, category |-> "resident", deduction |-> 12, slabs |-> slabs]

NewFund == {Fund}
NewSalary == {Salary(3, 3)}
Tenth == {10}
OwnRule == {[employee |-> e1, multiplier |-> 3, first |-> 1, last |-> 1]}
HalfOrShared == {Enter(Half), Enter(Shared)}

Confirmed ==
  [year |-> 1, category |-> "resident", deduction |-> 0, slabs |-> Half, maker |-> u1,
   status |-> "confirmed", confirmer |-> u2, at |-> 1]

Tables ==
  [years |-> <<[first |-> 1, last |-> 2, status |-> "active", maker |-> u1, opener |-> u2]>>,
   periods |-> <<[first |-> 1, last |-> 1, version |-> "v2", status |-> "locked",
                  maker |-> u1, year |-> 1]>>,
   items |-> <<Allowance>>, profiles |-> <<Salary(1, 2)>>, rules |-> <<OfOrganization>>,
   policies |-> <<Confirmed>>,
   attendance |-> [e \in OneEmployee |-> [d \in Dates |->
                     IF d = 1 THEN [version |-> "v2", holiday |-> 1] ELSE NoRecord]]]

Symmetric == Permutations(BothCalls)
=============================================================================

-------------------------------- MODULE MCPeople --------------------------------
(***************************************************************************)
(* Instances of People for TLC: a system and an identity administrator who *)
(* are logged in, an account and an employee to be created, two nodes and  *)
(* a third to be created.                                                  *)
(***************************************************************************)
EXTENDS People, TLC

CONSTANTS u1, u2, u3,  \* users
          a, b, x,     \* usernames
          ip,          \* an address
          e1,          \* an employee
          n1, n2, n3,  \* organization nodes
          s1,          \* a shift
          c1, c2       \* API calls

ThreeUsers == {u1, u2, u3}
ThreeNames == {a, b, x}
Addresses == {ip}
OneEmployee == {e1}
ThreeNodes == {n1, n2, n3}
OneShift == {s1}
BothCalls == {c1, c2}

Dates == {1, 2}
TwoPeriods == {<<1, 1>>, <<1, 2>>}
BothScopes == {"global", "organization"}
FirstAccounts ==
  [u \in ThreeUsers |->
     IF u = u3 THEN NoUser
     ELSE [name |-> IF u = u1 THEN a ELSE b, status |-> "active", temporary |-> FALSE,
           version |-> 1, employee |-> NoEmployee]]
OneFailed == [name \in ThreeNames |-> [client \in Addresses |-> IF name = a THEN 1 ELSE 0]]
BothIn == <<u1, u2>>
RoleRow(u, role) == [user |-> u, role |-> role, scope |-> "global", over |-> FALSE]
FirstRoles == <<RoleRow(u1, "system_administrator"), RoleRow(u2, "identity_administrator")>>
FirstTree == [n \in ThreeNodes |-> IF n = n1 THEN NoNode ELSE IF n = n2 THEN n1 ELSE Missing]
FirstStaff == [e \in OneEmployee |-> Missing]

Symmetric == Permutations(BothCalls)
=============================================================================

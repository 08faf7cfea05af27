----------------------------- MODULE MCPayrollRun -----------------------------
(***************************************************************************)
(* Instances of PayrollRun for TLC.                                        *)
(***************************************************************************)
EXTENDS PayrollRun, TLC

CONSTANTS u1, u2,   \* users
          r1, r2,   \* API calls
          e1        \* employees

BothUsers == {u1, u2}
OneRequest == {r1}
BothRequests == {r1, r2}
OneEmployee == {e1}

Symmetric == Permutations(BothUsers) \cup Permutations(BothRequests)
=============================================================================

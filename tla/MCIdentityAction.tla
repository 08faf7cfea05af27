--------------------------- MODULE MCIdentityAction ---------------------------
(***************************************************************************)
(* Instances of IdentityAction for TLC.                                    *)
(***************************************************************************)
EXTENDS IdentityAction, TLC

CONSTANTS w1, w2,    \* worker processes
          m1, m2,    \* API requests
          a1, a2,    \* actions
          i1, i2     \* identities

OneWorker == {w1}
BothWorkers == {w1, w2}
OneAdmin == {m1}
BothAdmins == {m1, m2}
OneAction == {a1}
BothActions == {a1, a2}
OneIdentity == {i1}
BothIdentities == {i1, i2}

Symmetric == Permutations(BothWorkers) \cup Permutations(BothAdmins)
             \cup Permutations(BothActions)
=============================================================================

---------------------------- MODULE MCWorkerCycle ----------------------------
(***************************************************************************)
(* Instances of WorkerCycle for TLC.                                       *)
(***************************************************************************)
EXTENDS WorkerCycle, TLC

CONSTANTS w1, w2   \* worker processes

BothWorkers == {w1, w2}
TwoDevices == 1 .. 2
OneOperation == 1 .. 1
TwoOperations == 1 .. 2

WorkerSymmetry == Permutations(BothWorkers)
=============================================================================

--------------------------- MODULE MCDevicePull ---------------------------
(***************************************************************************)
(* Small instances of DevicePull for TLC.                                  *)
(***************************************************************************)
EXTENDS DevicePull, TLC

CONSTANTS w1, w2, d1, d2

TwoWorkers == {w1, w2}
OneDevice == {d1}
TwoDevices == {d1, d2}

BothModes == {"cursor", "range"}
CursorOnly == {"cursor"}

\* Workers are interchangeable, and so are devices.
WorkerSymmetry == Permutations(Workers)
Symmetry == Permutations(Workers) \cup Permutations(Devices)

===========================================================================

------------------------- MODULE MCCalibrationPublish -------------------------
(***************************************************************************)
(* Small instances of CalibrationPublish: two interchangeable processes,   *)
(* and contents that differ in tracked or in untracked files.              *)
(***************************************************************************)
EXTENDS CalibrationPublish, TLC

CONSTANTS p1, p2

TwoProcesses == {p1, p2}

Symmetry == Permutations(Process)
===============================================================================

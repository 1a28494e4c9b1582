------------------------------ MODULE MCCommands ------------------------------
(***************************************************************************)
(* Small instances of Commands: two processes, interchangeable where only  *)
(* safety is checked.                                                      *)
(***************************************************************************)
EXTENDS Commands, TLC

CONSTANTS p1, p2

TwoProcesses == {p1, p2}

Symmetry == Permutations(Process)
===============================================================================

--------------------------- MODULE MCSchemaMigration ---------------------------
(***************************************************************************)
(* A small instance of SchemaMigration: three processes.                   *)
(***************************************************************************)
EXTENDS SchemaMigration

CONSTANTS p1, p2, p3

ThreeProcesses == {p1, p2, p3}
===============================================================================

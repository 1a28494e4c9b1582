------------------------------ MODULE MCRepoScan ------------------------------
(***************************************************************************)
(* Small instances of RepoScan.                                            *)
(***************************************************************************)
EXTENDS RepoScan, TLC

CONSTANTS f1, f2, v1, v2

OnePath == {f1}

TwoPaths == {f1, f2}

TwoVersions == {v1, v2}

Symmetry == Permutations(Path) \union Permutations(Version)
===============================================================================

---------------------------- MODULE MCM2Evaluation ----------------------------
(***************************************************************************)
(* A small instance of M2Evaluation.                                       *)
(***************************************************************************)
EXTENDS M2Evaluation, TLC

CONSTANTS e1, e2, t1, t2, u1, u2, m1, m2, d1, d2

TwoEvaluations == {e1, e2}

TwoTracked == {t1, t2}

TwoUntracked == {u1, u2}

TwoModels == {m1, m2}

TwoDetails == {d1, d2}

FiveConditions == <<"direct", "placebo", "basic", "ranked", "structural-oracle">>

TwoConditions == <<"direct", "basic">>

\* Three troubles where one evaluation is started, and one where there are two.
FewTroubles == <<3, 1>>

Symmetry ==
  Permutations(Evaluations) \union Permutations(Tracked) \union Permutations(Untracked)
    \union Permutations(Models) \union Permutations(Details)
===============================================================================

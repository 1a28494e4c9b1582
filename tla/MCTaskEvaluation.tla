-------------------------- MODULE MCTaskEvaluation --------------------------
(***************************************************************************)
(* A small instance of TaskEvaluation.                                     *)
(***************************************************************************)
EXTENDS TaskEvaluation, TLC

CONSTANTS q1, q2, c1, c2

TwoPairs == {q1, q2}

TwoContents == {c1, c2}

\* A whole answer; one whose sources were not read; a wrong one; one without
\* counters; a stream that was cut off; one with overlapping turns; an error after the
\* answer; and a program that failed at the end.
FewReplies ==
  {[stream |-> <<"started", "sources", "right", "completed">>, exited |-> TRUE],
   [stream |-> <<"started", "right", "completed">>, exited |-> TRUE],
   [stream |-> <<"started", "sources", "wrong", "completed">>, exited |-> TRUE],
   [stream |-> <<"started", "sources", "right", "uncounted">>, exited |-> TRUE],
   [stream |-> <<"started", "sources", "right">>, exited |-> TRUE],
   [stream |-> <<"started", "started", "sources", "right", "completed">>, exited |-> TRUE],
   [stream |-> <<"started", "sources", "right", "failed", "completed">>, exited |-> TRUE],
   [stream |-> <<"started", "sources", "right", "completed">>, exited |-> FALSE]}

OneOrder == {<<"overview", "task">>}

OneOrTwo == {1, 2}

\* Two troubles where there is one pair, and one where there are two.
FewTroubles == <<2, 1>>

FewFiles == {"overview", "schema", "submitted"}

Symmetry == Permutations(Pairs) \union Permutations(Contents)
=============================================================================

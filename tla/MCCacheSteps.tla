----------------------------- MODULE MCCacheSteps -----------------------------
(***************************************************************************)
(* Small instances of CacheSteps.                                          *)
(***************************************************************************)
EXTENDS CacheSteps, TLC

CONSTANTS p1, p2, t1, t2, u1, u2

OneProcess == {p1}

TwoProcesses == {p1, p2}

OneTracked == {t1}

TwoTracked == {t1, t2}

OneUntracked == {u1}

TwoUntracked == {u1, u2}

FirstTwo == {1, 2}

OnlyStep == {1}

\* Nothing, or a successful answer.
FewReplies == {NoReply} \union {r \in AllReplies : r.answered /\ r.costed}

OnlyNoReply == {NoReply}

\* A record the schema refuses stops the schedule.
FewClocks == {"sound", "unreadable"}

SoundClock == {"sound"}

Symmetry ==
  Permutations(Process) \union Permutations(Tracked) \union Permutations(Untracked)
===============================================================================

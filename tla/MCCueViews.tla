------------------------------ MODULE MCCueViews ------------------------------
(***************************************************************************)
(* A small instance of CueViews.                                           *)
(***************************************************************************)
EXTENDS CueViews, TLC

CONSTANTS v1, v2

FourPaths == {"Makefile", "context.json", "a.go", "b.go"}

TwoVersions == {v1, v2}

\* A required item with one source, an optional one with a source and a check, and one
\* whose only source is the check of the other.
ThreeItems ==
  <<[required |-> FALSE, refs |-> <<"b.go", "a.go">>],
    [required |-> TRUE, refs |-> <<"a.go">>],
    [required |-> FALSE, refs |-> <<"b.go">>]>>

Bytes == [p \in FourPaths |-> IF p = "a.go" THEN 7 ELSE 11]

\* As the declaration has them, and with a source it does not pin as it is.
TwoSnapshots ==
  {[p \in FourPaths |-> v1], [p \in FourPaths |-> IF p = "b.go" THEN v2 ELSE v1]}

\* Envelopes at each residue modulo 4, where the estimate gets a second digit, a third
\* and a sixth.
FewSizes ==
  [rest : 20..23, budget : {8, 9, 12}] \union [rest : {391, 392}, budget : {99, 101}]
    \union [rest : {399995, 399996}, budget : {100000, 100002}]
===============================================================================

---------------------------- MODULE SnapshotHistory ----------------------------
(***************************************************************************)
(* What the store promises the commands that use it: the recorded states   *)
(* of a repository form one append-only log, cut into epochs, and a client *)
(* appends only to the log it last looked at (compare and swap).           *)
(***************************************************************************)
EXTENDS Integers, Sequences

CONSTANTS Client, State

VARIABLES log,            \* the recorded states, oldest first
          basis           \* how long the log was when each client looked at it

vars == <<log, basis>>

Newest == log[Len(log)]

Init ==
  /\ log = <<>>
  /\ basis = [c \in Client |-> 0]

\* The first entry opens epoch 1, and so needs no look at the log before.
OpenEpoch(c, s) ==
  /\ basis[c] = Len(log)
  /\ log' = Append(log, [epoch  |-> IF log = <<>> THEN 1 ELSE Newest.epoch + 1,
                         parent |-> 0, state |-> s])
  /\ UNCHANGED basis

\* Only a different state is worth an entry.
Advance(c, s) ==
  /\ log # <<>>
  /\ basis[c] = Len(log)
  /\ s # Newest.state
  /\ log' = Append(log, [epoch |-> Newest.epoch, parent |-> Len(log), state |-> s])
  /\ UNCHANGED basis

Look(c) ==
  /\ basis' = [basis EXCEPT ![c] = Len(log)]
  /\ UNCHANGED log

Forget(c) ==
  /\ basis' = [basis EXCEPT ![c] = 0]
  /\ UNCHANGED log

Next ==
  \E c \in Client :
    \/ Look(c) \/ Forget(c)
    \/ \E s \in State : OpenEpoch(c, s) \/ Advance(c, s)

Spec == Init /\ [][Next]_vars
===============================================================================

------------------------------ MODULE Timers ------------------------------
(***************************************************************************)
(* What timeout promises: calls are made in the order in which they fall   *)
(* due, those due together in the order in which they were asked for, and  *)
(* none before its time.                                                   *)
(***************************************************************************)
EXTENDS Integers, SequencesExt

CONSTANTS
    Call,     \* the calls that can be asked for
    MaxTime   \* the longest delay

VARIABLES
    pending,  \* calls asked for and not made, in the order they will be made
    left      \* ticks until each call falls due

vars == <<pending, left>>

Init == pending = <<>> /\ left = [c \in Call |-> 0]

\* The calls of s that fall due no later than in t ticks come before.
Placed(s, c, t) ==
    InsertAt(s, 1 + Cardinality({i \in DOMAIN s : left[s[i]] <= t}), c)

Ask(c, t) ==
    /\ pending' = Placed(pending, c, t)
    /\ left' = [left EXCEPT ![c] = t]

Tick ==
    /\ left' = [c \in Call |-> IF left[c] > 0 THEN left[c] - 1 ELSE 0]
    /\ UNCHANGED pending

\* The first call is made, and may ask for another.
Due == pending # <<>> /\ left[Head(pending)] = 0

Make == Due /\ pending' = Tail(pending) /\ UNCHANGED left

MakeAndAsk(c, t) ==
    /\ Due
    /\ pending' = Placed(Tail(pending), c, t)
    /\ left' = [left EXCEPT ![c] = t]

Next ==
    \/ Tick \/ Make
    \/ \E c \in Call, t \in 0..MaxTime : Ask(c, t) \/ MakeAndAsk(c, t)

Spec == Init /\ [][Next]_vars

=============================================================================

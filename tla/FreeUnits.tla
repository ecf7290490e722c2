----------------------------- MODULE FreeUnits -----------------------------
(***************************************************************************)
(* What a resource map promises: from a set of free units it gives out the *)
(* beginning of the first stretch that is long enough, and nothing only if *)
(* there is none.                                                          *)
(***************************************************************************)
EXTENDS Integers

CONSTANT Size   \* units 1 .. Size

VARIABLES
    free,    \* the free units
    given,   \* the runs given out
    answer   \* the address given last, or 0

vars == <<free, given, answer>>

Units == 1..Size
Stretch(a, n) == a .. (a + n - 1)

\* A stretch of at least n free units begins at a, with no free unit below.
Begins(a, n) == Stretch(a, n) \subseteq free /\ a - 1 \notin free

Init == free = Units /\ given = {} /\ answer = 0

Allocate(n) == \E a \in Units :
    /\ Begins(a, n) /\ \A b \in 1..(a - 1) : ~ Begins(b, n)
    /\ free' = free \ Stretch(a, n)
    /\ given' = given \cup {[addr |-> a, size |-> n]}
    /\ answer' = a

Refuse(n) ==
    /\ \A a \in Units : ~ Stretch(a, n) \subseteq free
    /\ answer' = 0
    /\ UNCHANGED <<free, given>>

Release(run) ==
    /\ free' = free \cup Stretch(run.addr, run.size)
    /\ given' = given \ {run}
    /\ UNCHANGED answer

Next ==
    \/ \E n \in Units : Allocate(n) \/ Refuse(n)
    \/ \E run \in given : Release(run)

Spec == Init /\ [][Next]_vars

=============================================================================

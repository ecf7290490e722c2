----------------------------- MODULE FreePool -----------------------------
(***************************************************************************)
(* What alloc and free promise: a block is in one place, a process gets    *)
(* "no space" only when no block is free, and free blocks are lost only    *)
(* when the disk fails to read them back.                                  *)
(***************************************************************************)
CONSTANTS Proc, Data

VARIABLES
    free,     \* blocks that alloc may still return
    held,     \* blocks of files
    hand      \* hand[p]: what p is allocating or freeing, a set

vars == <<free, held, hand>>

Init ==
    /\ free = {} /\ held = Data
    /\ hand = [p \in Proc |-> {}]

Take(p, b) ==
    /\ b \in free /\ hand[p] = {}
    /\ free' = free \ {b} /\ hand' = [hand EXCEPT ![p] = {b}]
    /\ UNCHANGED held

Deliver(p) ==
    /\ hand[p] # {} /\ held' = held \cup hand[p]
    /\ hand' = [hand EXCEPT ![p] = {}] /\ UNCHANGED free

Drop(p, b) ==
    /\ b \in held /\ hand[p] = {} /\ held' = held \ {b}
    /\ hand' = [hand EXCEPT ![p] = {b}] /\ UNCHANGED free

Return(p) ==
    /\ hand[p] # {} /\ free' = free \cup hand[p]
    /\ hand' = [hand EXCEPT ![p] = {}] /\ UNCHANGED held

\* free without a wait
DropAndReturn(b) ==
    /\ b \in held /\ held' = held \ {b} /\ free' = free \cup {b}
    /\ UNCHANGED hand

\* A list that cannot be read back.
Lose(p) ==
    /\ hand[p] # {} /\ free' \in SUBSET free
    /\ hand' = [hand EXCEPT ![p] = {}]
    /\ UNCHANGED held

Next == \E p \in Proc :
    \/ Deliver(p) \/ Return(p) \/ Lose(p)
    \/ \E b \in Data : Take(p, b) \/ Drop(p, b) \/ DropAndReturn(b)

Spec == Init /\ [][Next]_vars

=============================================================================

---------------------------- MODULE BlockStore ----------------------------
(***************************************************************************)
(* What the block cache promises to the file system: blocks that one       *)
(* process at a time may own, each with contents that only its owner       *)
(* changes.  What is on the medium follows the contents at any distance;   *)
(* on a medium that may fail, a block may fall back to it.                 *)
(***************************************************************************)
CONSTANTS
    Block,    \* the blocks
    Proc,     \* who may own one
    Val,      \* contents
    NoProc,   \* the owner of a block nobody owns
    MayFail   \* whether a transfer may fail

VARIABLES
    content,  \* what the next reader of a block finds
    medium,   \* what is on the disk
    owner     \* the owner of each block

vars == <<content, medium, owner>>

Init ==
    /\ content \in [Block -> Val] /\ medium = content
    /\ owner = [k \in Block |-> NoProc]

\* A process gets a block nobody has.
Acquire(k, p) ==
    /\ owner[k] = NoProc
    /\ owner' = [owner EXCEPT ![k] = p]
    /\ UNCHANGED <<content, medium>>

Release(k) ==
    /\ owner' = [owner EXCEPT ![k] = NoProc]
    /\ UNCHANGED <<content, medium>>

\* The owner changes the block, and keeps it or lets it go.
Write(k, v) ==
    /\ owner[k] # NoProc
    /\ content' = [content EXCEPT ![k] = v]
    /\ owner' \in {owner, [owner EXCEPT ![k] = NoProc]}
    /\ UNCHANGED medium

\* The contents reach the medium.
Settle(k) ==
    /\ medium' = [medium EXCEPT ![k] = content[k]]
    /\ UNCHANGED <<content, owner>>

\* A transfer failed and what the medium lacked is lost.
Lose(k) ==
    /\ MayFail
    /\ content' = [content EXCEPT ![k] = medium[k]]
    /\ UNCHANGED <<medium, owner>>

Next == \E k \in Block :
    \/ Release(k) \/ Settle(k) \/ Lose(k)
    \/ \E p \in Proc : Acquire(k, p)
    \/ \E v \in Val : Write(k, v)

Spec == Init /\ [][Next]_vars

=============================================================================

-------------------------- MODULE MCBufferCache --------------------------
(* Instances of BufferCache for TLC.                                       *)
EXTENDS BufferCache, TLC

Symmetric == Permutations(Proc) \cup Permutations(Buf)
             \cup Permutations(Block) \cup Permutations(Val)

=============================================================================

----------------------------- MODULE MCTables -----------------------------
(***************************************************************************)
(* Instances of Callout, ResourceMap, CoreMap, Clist and FileMap for TLC.  *)
(* They share no state and no operation on them is seen half done, so an   *)
(* interleaving of operations on different ones shows nothing that they do *)
(* not show alone: in one behaviour one of them is used, and the others    *)
(* stay as they were at boot.                                              *)
(***************************************************************************)
EXTENDS Callout, ResourceMap, CoreMap, Clist, FileMap

(* A file of two words to a block: one block from the inode, then two, four*)
(* and eight.  Two words are put over the borders of the levels and of     *)
(* blocks, in a whole block, and over the end of what a map reaches.       *)

Pair == {<<0, 1>>}
Borders == {-1, 1, 2, 5, 13, 29}

-----------------------------------------------------------------------------

tablesVars == <<calloutVars, mapVars, coreVars, clistVars, fileVars>>

Init == CalloutInit /\ MapInit /\ CoreInit /\ ClistInit /\ FileInit

Next ==
    \/ /\ MapInit /\ CoreInit /\ ClistInit /\ FileInit /\ CalloutNext
       /\ UNCHANGED <<mapVars, coreVars, clistVars, fileVars>>
    \/ /\ CalloutInit /\ CoreInit /\ ClistInit /\ FileInit /\ MapNext
       /\ UNCHANGED <<calloutVars, coreVars, clistVars, fileVars>>
    \/ /\ CalloutInit /\ MapInit /\ ClistInit /\ FileInit /\ CoreNext
       /\ UNCHANGED <<calloutVars, mapVars, clistVars, fileVars>>
    \/ /\ CalloutInit /\ MapInit /\ CoreInit /\ FileInit /\ ClistNext
       /\ UNCHANGED <<calloutVars, mapVars, coreVars, fileVars>>
    \/ /\ CalloutInit /\ MapInit /\ CoreInit /\ ClistInit /\ FileNext
       /\ UNCHANGED <<calloutVars, mapVars, coreVars, clistVars>>

Spec == Init /\ [][Next]_tablesVars

\* What a call on the character lists answered is looked at in the step that
\* makes it and decides nothing after it, so states are told apart without it.
TablesView == <<calloutVars, mapVars, coreVars, clists, fileVars>>

\* The clock goes on; it changes nothing while no callout is asked for.
LiveSpec == Spec /\ CalloutFairness

=============================================================================

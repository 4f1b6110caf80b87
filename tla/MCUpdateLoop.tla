---------------------------- MODULE MCUpdateLoop ----------------------------
(***************************************************************************)
(* Slots 2 and 3 compete at height 2 and slot 4 builds on 2: a skipped     *)
(* leader's fork lies between a block and its parent.  The storage holds   *)
(* two finalized blocks and there is room for the fees of as many.         *)
(***************************************************************************)
EXTENDS UpdateLoop

MCSlot == 1 .. 4
MCParent == <<0, 1, 1, 2>>
MCHeight == [s \in 0 .. 4 |-> IF s < 3 THEN s ELSE s - 1]
=============================================================================

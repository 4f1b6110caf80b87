---------------------------- MODULE MCGrpc2Redis ----------------------------
(***************************************************************************)
(* Two competing forks, one of which is left behind when the other is      *)
(* finalized.                                                              *)
(***************************************************************************)
EXTENDS Grpc2Redis

MCSlot == 1 .. 2
MCParent == <<0, 0>>
MCHeight == [s \in 0 .. 2 |-> IF s = 0 THEN 0 ELSE 1]
MCTxCount == <<2, 1>>
=============================================================================

-------------------------- MODULE MCSolanaSchedule --------------------------
(***************************************************************************)
(* Two epochs of three slots; the second turns the first one round.        *)
(***************************************************************************)
EXTENDS SolanaSchedule

CONSTANTS l1, l2
MCLeaderOf == [s \in 0 .. 5 |-> IF s \in {0, 4, 5} THEN l1 ELSE l2]
=============================================================================

-------------------------- MODULE MCRedisConsumer --------------------------
(***************************************************************************)
(* Two producers on a chain of four slots with a fork beside it - slots 2  *)
(* and 3 compete for the same parent, the chain goes on from 2 - and on a  *)
(* plain chain of two.  Producers are interchangeable, so permuting them   *)
(* is a symmetry.                                                          *)
(***************************************************************************)
EXTENDS RedisConsumer

CONSTANTS a, b
MCProducer == {a, b}
Symmetry == Permutations(MCProducer)

ForkSlot == 1 .. 5
ForkParent == <<0, 1, 1, 2, 4>>
ForkHeight == [s \in 0 .. 5 |-> IF s < 3 THEN s ELSE s - 1]

PairSlot == 1 .. 2
PairParent == <<0, 1>>
PairHeight == [s \in 0 .. 2 |-> s]
=============================================================================

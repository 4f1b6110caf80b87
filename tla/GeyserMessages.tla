--------------------------- MODULE GeyserMessages ---------------------------
(***************************************************************************)
(* The vocabulary shared by every other module: the block tree of the      *)
(* Solana cluster as the geyser plugin reports it (external to this        *)
(* repository) and the two messages the program passes around,             *)
(* GeyserMessage::Status and GeyserMessage::Slot of grpc_geyser.rs.        *)
(***************************************************************************)
EXTENDS Integers

CONSTANTS
  Slot,    \* the slots that receive a block
  Parent,  \* the slot of a block's parent, 0 for a block without a parent
  Height   \* the block_height of a block

(***************************************************************************)
(* Slot 0 is the genesis block.  It has no transactions, so                *)
(* grpc_geyser::subscribe never publishes it (grpc_geyser.rs:389-394).     *)
(***************************************************************************)
ASSUME ChainAssumption ==
  /\ Slot \subseteq Nat \ {0}
  /\ Parent \in [Slot -> Slot \cup {0}]
  /\ \A s \in Slot : Parent[s] < s
  /\ Height \in [Slot \cup {0} -> Nat]
  /\ \A s \in Slot : Height[s] = Height[Parent[s]] + 1

CommitmentLevel == {"processed", "confirmed", "finalized"}

(***************************************************************************)
(* A message is its slot and what it says about it: "block" stands for     *)
(* GeyserMessage::Slot, a commitment level for GeyserMessage::Status.  The *)
(* rest of a block message is a function of its slot.                      *)
(***************************************************************************)
Kind == {"block"} \cup CommitmentLevel
Message == [slot : Slot, kind : Kind]
Msg(s, k) == [slot |-> s, kind |-> k]

\* The slots of a block and of all its ancestors.
Lineage[s \in Slot \cup {0}] == IF s = 0 THEN {} ELSE {s} \cup Lineage[Parent[s]]

(***************************************************************************)
(* The order in which one node reports: an assumption about the cluster.   *)
(* Nothing is said twice, the levels of a slot go up, and the finalized    *)
(* slots are a growing chain.                                              *)
(***************************************************************************)
Before == [confirmed |-> {"processed"}, finalized |-> {"processed", "confirmed"}]

FinalizedIn(said) == {s \in Slot : Msg(s, "finalized") \in said}

InOrder(said, m) ==
  /\ m \notin said
  /\ \A k \in DOMAIN Before : m.kind \in Before[k] => Msg(m.slot, k) \notin said
  /\ m.kind = "finalized" => FinalizedIn(said) \subseteq Lineage[m.slot]
=============================================================================

----------------------------- MODULE FedStorage -----------------------------
(***************************************************************************)
(* The blockhash storage driven by the feed the Redis consumer hands to    *)
(* the update loop: what getSlot and getLatestBlockhash can rely on when   *)
(* messages are new, never below the finalized tip, and the levels of one  *)
(* slot never go down.  Blocks and statuses still arrive in any order, a   *)
(* status may come before its block, and any message may be missing.       *)
(***************************************************************************)
EXTENDS BlockhashRequests, GeyserFeed

vars == <<storageVars, feedVars>>

Init == StorageInit /\ FeedInit

Receive(m) ==
  /\ LevelsRise(m)
  /\ Deliver(m)
  /\ Apply(m)

Next == \E m \in Message : Receive(m)

Spec == Init /\ [][Next]_vars

-----------------------------------------------------------------------------
\* The shape of every variable.
TypeOK == StorageTypeOK /\ FeedTypeOK

(***************************************************************************)
(* finalized_total counts exactly the finalized entries of the map.  The   *)
(* counter goes up in update_commitment and down in the eviction loop, and *)
(* nothing in push_block or a later status corrects it.                    *)
(***************************************************************************)
FinalizedTotalExact == finalized_total = Cardinality(Finalized(slots))

(***************************************************************************)
(* The eviction loop always ends: the update loop is never lost inside     *)
(* update_commitment.                                                      *)
(***************************************************************************)
NeverSpins == ~spinning

(***************************************************************************)
(* A block that was pushed leaves the storage only once RetainedMax newer  *)
(* blocks are held as finalized (pop_first in update_commitment).          *)
(***************************************************************************)
NeverEvictedEarly ==
  \A s \in Slot : Msg(s, "block") \in delivered /\ s \notin DOMAIN slots =>
    Cardinality({f \in Finalized(slots) : f > s}) >= RetainedMax

(***************************************************************************)
(* The finalized pointer always names an entry that is still stored and    *)
(* still marked finalized, so getLatestBlockhash at the default commitment *)
(* never answers "no slot" after its first success (rpc_solana.rs:655).    *)
(***************************************************************************)
LatestFinalizedStored ==
  slot_finalized # 0 => slot_finalized \in Finalized(slots)

(***************************************************************************)
(* The finalized slot a client is told never goes back.  The storage has   *)
(* no guard of its own (rpc_solana.rs:851-854): this rests on the consumer *)
(* dropping what is below the tip (redis.rs:81).                           *)
(***************************************************************************)
FinalizedNeverGoesBack == [][slot_finalized' >= slot_finalized]_vars

(***************************************************************************)
(* A rollback never runs out of slots while the ancestors it asks for are  *)
(* stored, however many other forks lie between them.                      *)
(***************************************************************************)
StoredLineage(s) == {t \in Lineage[s] : \A u \in Lineage[s] : u >= t => u \in DOMAIN slots}

RollbackReachesStoredAncestors ==
  \A c \in CommitmentLevel, n \in 0 .. MAX_RECENT_BLOCKHASHES :
    n < Cardinality(StoredLineage(CommitmentSlot(c))) =>
      GetLatestBlockhash(c, n, 0).ok

(***************************************************************************)
(* The eviction bound leaves room for the longest rollback the request     *)
(* handler accepts: when the storage is full and its finalized entries     *)
(* form an unbroken chain, every rollback up to MAX_RECENT_BLOCKHASHES     *)
(* from the finalized block is served.                                     *)
(***************************************************************************)
UnbrokenFinalizedChain ==
  \A f \in Finalized(slots) :
    f = Min(Finalized(slots)) \/ Parent[f] \in Finalized(slots)

MaxRollbackServed ==
  finalized_total = RetainedMax /\ UnbrokenFinalizedChain =>
    \A n \in 0 .. MAX_RECENT_BLOCKHASHES : GetLatestBlockhash("finalized", n, 0).ok

(***************************************************************************)
(* README.md:11 describes rollback as sending a "slightly outdated         *)
(* blockhash": a blockhash that was the latest one a while ago.  So a      *)
(* rollback from the finalized block answers with one of its ancestors,    *)
(* at least while all the ancestors down to that one are stored.           *)
(***************************************************************************)
RollbackStaysOnChain ==
  \A n \in 0 .. MAX_RECENT_BLOCKHASHES :
    n < Cardinality(StoredLineage(slot_finalized)) =>
      GetLatestBlockhash("finalized", n, 0).hash \in Lineage[slot_finalized]

-----------------------------------------------------------------------------
(***************************************************************************)
(* The inductive invariant behind the theorems of UpdateLoop_proofs.  What *)
(* it adds: entries and their marks only come from delivered messages, no  *)
(* finalized entry lies above the tip, and a block that is gone lies below *)
(* every finalized entry of a full storage.                                *)
(***************************************************************************)
BoundedFinite ==
  /\ IsFiniteSet(DOMAIN slots)
  /\ finalized_total <= RetainedMax

StoredWereDelivered ==
  /\ \A s \in DOMAIN slots : Msg(s, "block") \in delivered
  /\ \A f \in Finalized(slots) : Msg(f, "finalized") \in delivered /\ f <= tip

EvictedAreBelow ==
  \A s \in Slot : Msg(s, "block") \in delivered /\ s \notin DOMAIN slots =>
    finalized_total = RetainedMax /\ \A f \in Finalized(slots) : f > s

PointerIsHighest ==
  slot_finalized # 0 =>
    /\ slot_finalized \in Finalized(slots)
    /\ \A f \in Finalized(slots) : f <= slot_finalized

IInv ==
  /\ TypeOK
  /\ FinalizedTotalExact
  /\ NeverSpins
  /\ BoundedFinite
  /\ StoredWereDelivered
  /\ EvictedAreBelow
  /\ PointerIsHighest
=============================================================================

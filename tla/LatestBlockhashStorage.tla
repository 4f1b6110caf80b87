----------------------- MODULE LatestBlockhashStorage -----------------------
(***************************************************************************)
(* LatestBlockhashStorage (rpc_solana.rs:822-872): the recent blocks and   *)
(* the three commitment pointers behind getSlot and getLatestBlockhash.    *)
(*                                                                         *)
(* push_block and update_commitment run to completion inside the update    *)
(* loop's task, so each is one action.  The eviction loop at the end of    *)
(* update_commitment has no exit when the map runs empty before the        *)
(* counter comes down: "spinning" records that the task never returns.     *)
(***************************************************************************)
EXTENDS GeyserMessages, FiniteSets

CONSTANTS
  MAX_RECENT_BLOCKHASHES,  \* 300: the longest rollback a client may ask for
  EvictionSlack            \* the 10 in "MAX_RECENT_BLOCKHASHES + 10"

ASSUME StorageAssumption ==
  /\ MAX_RECENT_BLOCKHASHES \in Nat \ {0}
  /\ EvictionSlack \in Nat

VARIABLES
  slots,            \* slot -> [hash, height, commitment], a BTreeMap
  finalized_total,  \* how many entries the code believes are finalized
  slot_processed,
  slot_confirmed,
  slot_finalized,
  spinning          \* the eviction loop was entered and never ends

storageVars == <<slots, finalized_total, slot_processed, slot_confirmed,
                 slot_finalized, spinning>>

RetainedMax == MAX_RECENT_BLOCKHASHES + EvictionSlack

\* One block per slot, so a block's hash is its slot.
Entry == [hash : Slot, height : Nat, commitment : CommitmentLevel]

Finalized(sl) == {s \in DOMAIN sl : sl[s].commitment = "finalized"}

StorageTypeOK ==
  /\ DOMAIN slots \subseteq Slot
  /\ \A s \in DOMAIN slots : slots[s] \in Entry
  /\ finalized_total \in 0 .. IF spinning THEN RetainedMax + 1 ELSE RetainedMax
  /\ {slot_processed, slot_confirmed, slot_finalized} \subseteq Slot \cup {0}
  /\ spinning \in BOOLEAN

StorageInit ==
  /\ slots = [s \in {} |-> s]
  /\ finalized_total = 0
  /\ slot_processed = 0
  /\ slot_confirmed = 0
  /\ slot_finalized = 0
  /\ spinning = FALSE

-----------------------------------------------------------------------------
PushBlock(s) ==
  /\ ~spinning
  /\ slots' = [t \in DOMAIN slots \cup {s} |->
                 IF t = s
                 THEN [hash |-> s, height |-> Height[s], commitment |-> "processed"]
                 ELSE slots[t]]
  /\ UNCHANGED <<finalized_total, slot_processed, slot_confirmed,
                 slot_finalized, spinning>>

\* Mutant: ">=" for ">".
ExcessOneTooMany(total) == total + 1 - RetainedMax

\* How many finalized entries the loop has to get rid of.
Excess(total) == total - RetainedMax

\* Mutant: pop_last for pop_first.
PoppedNewest(sl, last) == {t \in DOMAIN sl : t >= last}

\* What pop_first has removed once it has returned slot "last".
Popped(sl, last) == {t \in DOMAIN sl : t <= last}

(***************************************************************************)
(* while finalized_total > RetainedMax: pop_first, and count down when the *)
(* popped entry is finalized.  With n entries too many the loop stops at   *)
(* the n-th lowest finalized entry; with fewer than n finalized entries it *)
(* empties the map and spins.                                              *)
(***************************************************************************)
Evict(sl, total) ==
  LET fin == Finalized(sl)
  IN  \/ /\ Excess(total) <= 0
         /\ slots' = sl
         /\ finalized_total' = total
         /\ UNCHANGED spinning
      \/ /\ Excess(total) > 0
         /\ \E last \in fin :
              /\ Cardinality(Popped(sl, last) \cap fin) = Excess(total)
              /\ slots' = [s \in DOMAIN sl \ Popped(sl, last) |-> sl[s]]
         /\ finalized_total' = total - Excess(total)
         /\ UNCHANGED spinning
      \/ /\ Excess(total) > Cardinality(fin)
         /\ slots' = [s \in {} |-> s]
         /\ finalized_total' = total - Cardinality(fin)
         /\ spinning' = TRUE

\* Mutant: the increment outside of "if let Some(value)".
CountedUnknown(s, c) == c = "finalized"

\* finalized_total += 1
Counted(s, c) == s \in DOMAIN slots /\ c = "finalized"

UpdateCommitment(s, c) ==
  LET known == s \in DOMAIN slots
  IN  /\ ~spinning
      /\ slot_processed' = IF known /\ c = "processed" /\ s > slot_processed
                           THEN s ELSE slot_processed
      /\ slot_confirmed' = IF known /\ c = "confirmed" THEN s ELSE slot_confirmed
      /\ slot_finalized' = IF known /\ c = "finalized" THEN s ELSE slot_finalized
      /\ Evict(IF known THEN [slots EXCEPT ![s].commitment = c] ELSE slots,
               IF Counted(s, c) THEN finalized_total + 1 ELSE finalized_total)

\* A message reaches the storage (rpc_solana.rs:591-612).
Apply(m) ==
  IF m.kind = "block" THEN PushBlock(m.slot) ELSE UpdateCommitment(m.slot, m.kind)

\* No assumption on the messages at all, not even that they are new.
StorageNext == \E m \in Message : Apply(m)

StorageSpec == StorageInit /\ [][StorageNext]_storageVars

-----------------------------------------------------------------------------
(***************************************************************************)
(* Whatever the messages do - repeat a block, lower a level, finalize a    *)
(* slot twice, in any order - the counter of update_commitment may come to *)
(* exceed the finalized entries but never to miss one, so the storage      *)
(* holds no more than RetainedMax finalized blocks; and the eviction loop  *)
(* ends, because the counter rises only for an entry just marked finalized *)
(* and is thus at most one above RetainedMax, with that entry to pop.      *)
(***************************************************************************)
RetentionBounded ==
  /\ ~spinning
  /\ Cardinality(Finalized(slots)) <= finalized_total
  /\ finalized_total <= RetainedMax
=============================================================================

-------------------------- MODULE BlockhashRequests --------------------------
(***************************************************************************)
(* How the update loop answers getLatestBlockhash and getSlot from the     *)
(* storage (rpc_solana.rs:637-686 and 698-713).  Requests only read.       *)
(* A missing min_context_slot is 0, which no slot is below.                *)
(***************************************************************************)
EXTENDS LatestBlockhashStorage, FiniteSetsExt

Success(slot) ==
  [ok |-> TRUE, slot |-> slot, hash |-> slots[slot].hash,
   last_valid |-> slots[slot].height + MAX_RECENT_BLOCKHASHES]

Failure(error) == [ok |-> FALSE, error |-> error]

CommitmentSlot(c) ==
  [processed |-> slot_processed, confirmed |-> slot_confirmed,
   finalized |-> slot_finalized][c]

(***************************************************************************)
(* One round of the rollback loop: walk down from slot s to the next entry *)
(* whose height is one less.  Neither parent_slot nor parent_hash is kept, *)
(* so the height is all the code can go by.  0 when the walk drops below   *)
(* the first available slot.                                               *)
(***************************************************************************)
Lower(s) == {t \in DOMAIN slots : t < s /\ slots[t].height + 1 = slots[s].height}

\* Mutant: only the next lower entry is looked at.
StepBackOnce(s) ==
  LET below == {t \in DOMAIN slots : t < s}
  IN  IF s = 0 \/ below = {} THEN 0
      ELSE IF Max(below) \in Lower(s) THEN Max(below) ELSE 0

StepBack(s) == IF s = 0 \/ Lower(s) = {} THEN 0 ELSE Max(Lower(s))

Rollback(s, n) ==
  LET back[i \in 0 .. n] == IF i = 0 THEN s ELSE StepBack(back[i - 1])
  IN  back[n]

GetLatestBlockhash(c, rollback, min_context_slot) ==
  LET slot == CommitmentSlot(c)
  IN  IF rollback > MAX_RECENT_BLOCKHASHES THEN Failure("rollback exceeds 300")
      ELSE IF slot < min_context_slot THEN Failure("min context slot not reached")
      ELSE IF slot \notin DOMAIN slots THEN Failure("no slot")
      ELSE IF Rollback(slot, rollback) = 0 THEN Failure("not enough slots")
      ELSE Success(Rollback(slot, rollback))

GetSlot(c, min_context_slot) ==
  IF CommitmentSlot(c) < min_context_slot
  THEN Failure("min context slot not reached")
  ELSE [ok |-> TRUE, slot |-> CommitmentSlot(c)]
=============================================================================

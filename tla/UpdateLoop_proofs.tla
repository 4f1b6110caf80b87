-------------------------- MODULE UpdateLoop_proofs --------------------------
(***************************************************************************)
(* What the update loop and the blockhash storage it feeds keep true, for  *)
(* every block tree and all bounds.  In three parts, each resting on the   *)
(* one before it: the storage under any sequence of messages; the storage  *)
(* under the messages of a feed, with the rollbacks it answers; and        *)
(* slots_info of the loop beside it.                                       *)
(***************************************************************************)
EXTENDS UpdateLoop, GeyserMessages_proofs, FiniteSetTheorems, TLAPS

-----------------------------------------------------------------------------
(***************************************************************************)
(* The storage under any sequence of messages, repeated ones included:     *)
(* what the eviction loop does, and how much it leaves.                    *)
(***************************************************************************)

LEMMA RetainedMaxIsPositive == RetainedMax \in Nat \ {0}
  BY StorageAssumption DEF RetainedMax

LEMMA SlotIsPositive == \A s \in Slot : s \in Nat /\ s > 0
<1>1. Slot \subseteq Nat \ {0}
  BY ChainAssumption
<1>2. QED
  BY <1>1

\* The finalized entries of a finite map are finitely many.
LEMMA FinalizedIsFinite ==
  ASSUME NEW sl, IsFiniteSet(DOMAIN sl)
  PROVE  /\ IsFiniteSet(Finalized(sl))
         /\ Cardinality(Finalized(sl)) \in Nat
<1>1. Finalized(sl) \in SUBSET DOMAIN sl
  BY DEF Finalized
<1>2. IsFiniteSet(Finalized(sl))
  BY <1>1, FS_Subset
<1>3. QED
  BY <1>2, FS_CardinalityType

-----------------------------------------------------------------------------
\* Everything up to the lowest finalized entry of sl leaves the map.
LowestPopped(sl) ==
  \E last \in Finalized(sl) :
    /\ \A f \in Finalized(sl) : last <= f
    /\ slots' = [s \in {t \in DOMAIN sl : t > last} |-> sl[s]]
    /\ Finalized(slots') = Finalized(sl) \ {last}
    /\ Cardinality(Finalized(slots')) = Cardinality(Finalized(sl)) - 1

\* The three ways through the loop when the counter is one too high at most.
Outcome(sl, total) ==
  \/ /\ total <= RetainedMax
     /\ slots' = sl
     /\ finalized_total' = total
     /\ spinning' = spinning
  \/ /\ total = RetainedMax + 1
     /\ LowestPopped(sl)
     /\ finalized_total' = RetainedMax
     /\ spinning' = spinning
  \/ /\ total = RetainedMax + 1
     /\ Cardinality(Finalized(sl)) = 0
     /\ slots' = [s \in {} |-> s]
     /\ finalized_total' = total
     /\ spinning'

LEMMA EvictOutcome ==
  ASSUME NEW sl, IsFiniteSet(DOMAIN sl), DOMAIN sl \subseteq Slot,
         NEW total \in Nat, total <= RetainedMax + 1,
         Evict(sl, total)
  PROVE  Outcome(sl, total)
<1> DEFINE fin == Finalized(sl)
<1>1. /\ IsFiniteSet(fin)
      /\ Cardinality(fin) \in Nat
      /\ fin \subseteq DOMAIN sl
      /\ DOMAIN sl \subseteq Nat
  BY FinalizedIsFinite, SlotIsPositive DEF Finalized
<1>2. RetainedMax \in Nat \ {0} /\ Excess(total) = total - RetainedMax
  BY RetainedMaxIsPositive DEF Excess
<1>3. CASE /\ Excess(total) <= 0
           /\ slots' = sl
           /\ finalized_total' = total
           /\ UNCHANGED spinning
  BY <1>2, <1>3 DEF Outcome
<1>4. CASE /\ Excess(total) > Cardinality(fin)
           /\ slots' = [s \in {} |-> s]
           /\ finalized_total' = total - Cardinality(fin)
           /\ spinning' = TRUE
  <2>1. Excess(total) = 1 /\ total = RetainedMax + 1 /\ Cardinality(fin) = 0
    BY <1>1, <1>2, <1>4
  <2>2. finalized_total' = total /\ spinning'
    BY <1>4, <2>1
  <2>3. QED
    BY <1>4, <2>1, <2>2 DEF Outcome
<1>5. CASE /\ Excess(total) > 0
           /\ \E last \in fin :
                /\ Cardinality(Popped(sl, last) \cap fin) = Excess(total)
                /\ slots' = [s \in DOMAIN sl \ Popped(sl, last) |-> sl[s]]
           /\ finalized_total' = total - Excess(total)
           /\ UNCHANGED spinning
  <2>1. Excess(total) = 1 /\ total = RetainedMax + 1
    BY <1>5, <1>2
  <2>2. PICK last \in fin : /\ Cardinality(Popped(sl, last) \cap fin) = 1
                            /\ slots' = [s \in DOMAIN sl \ Popped(sl, last) |-> sl[s]]
    BY <1>5, <2>1
  <2> DEFINE low == Popped(sl, last) \cap fin
  <2>3. IsFiniteSet(low)
    BY <1>1, FS_Subset
  <2>4. PICK x : low = {x}
    BY <2>2, <2>3, FS_Singleton
  <2>5. last \in low
    BY <1>1, <2>2 DEF Popped
  <2>6. low = {last}
    BY <2>4, <2>5
  <2>7. \A f \in fin : last <= f
    BY <2>6, <1>1 DEF Popped
  <2>8. DOMAIN sl \ Popped(sl, last) = {t \in DOMAIN sl : t > last}
    BY <1>1, <2>2 DEF Popped
  <2>9. Finalized(slots') = fin \ {last}
    BY <2>2, <2>6 DEF Finalized
  <2>10. Cardinality(fin \ {last}) = Cardinality(fin) - 1
    BY <1>1, <2>2, FS_RemoveElement
  <2>11. LowestPopped(sl)
    BY <2>2, <2>7, <2>8, <2>9, <2>10 DEF LowestPopped
  <2>12. finalized_total' = RetainedMax
    BY <1>2, <1>5, <2>1
  <2>13. QED
    BY <1>5, <2>1, <2>11, <2>12 DEF Outcome
<1>6. QED
  BY <1>3, <1>4, <1>5 DEF Evict

-----------------------------------------------------------------------------
(***************************************************************************)
(* The invariant of the storage under any messages.                        *)
(***************************************************************************)
StorageInv ==
  /\ RetentionBounded
  /\ DOMAIN slots \subseteq Slot
  /\ IsFiniteSet(DOMAIN slots)
  /\ finalized_total \in Nat

LEMMA StorageInitEstablishes == StorageInit => StorageInv
<1> SUFFICES ASSUME StorageInit PROVE StorageInv
  OBVIOUS
<1>1. DOMAIN slots = {} /\ Finalized(slots) = {} /\ finalized_total = 0 /\ ~spinning
  BY DEF StorageInit, Finalized
<1>2. QED
  BY <1>1, FS_EmptySet, RetainedMaxIsPositive DEF StorageInv, RetentionBounded

LEMMA PushBlockKeeps ==
  ASSUME StorageInv, NEW s \in Slot, PushBlock(s)
  PROVE  StorageInv'
<1>1. /\ ~spinning
      /\ DOMAIN slots' = DOMAIN slots \cup {s}
      /\ \A t \in DOMAIN slots : t # s => slots'[t] = slots[t]
      /\ slots'[s].commitment = "processed"
      /\ UNCHANGED <<finalized_total, spinning>>
  BY DEF PushBlock
<1>2. /\ Finalized(slots') \in SUBSET Finalized(slots)
  BY <1>1 DEF Finalized
<1>3. IsFiniteSet(Finalized(slots)) /\ Cardinality(Finalized(slots)) \in Nat
  BY <1>1, FinalizedIsFinite DEF StorageInv
<1>4. /\ Cardinality(Finalized(slots')) <= Cardinality(Finalized(slots))
      /\ Cardinality(Finalized(slots')) \in Nat
  BY <1>2, <1>3, FS_Subset, FS_CardinalityType
<1>5. IsFiniteSet(DOMAIN slots')
  BY <1>1, FS_AddElement DEF StorageInv
<1>6. QED
  BY <1>1, <1>3, <1>4, <1>5, RetainedMaxIsPositive
  DEF StorageInv, RetentionBounded, RetainedMax

LEMMA UpdateCommitmentKeeps ==
  ASSUME StorageInv, NEW s \in Slot, NEW c \in CommitmentLevel, UpdateCommitment(s, c)
  PROVE  StorageInv'
<1> DEFINE gained == s \in DOMAIN slots /\ c = "finalized"
           sl == IF s \in DOMAIN slots THEN [slots EXCEPT ![s].commitment = c] ELSE slots
           total == IF gained THEN finalized_total + 1 ELSE finalized_total
<1>1. ~spinning /\ Evict(sl, total)
  BY DEF UpdateCommitment, Counted
<1>2. /\ RetainedMax \in Nat \ {0}
      /\ finalized_total \in Nat
      /\ finalized_total <= RetainedMax
      /\ Cardinality(Finalized(slots)) <= finalized_total
      /\ IsFiniteSet(DOMAIN slots)
      /\ DOMAIN slots \subseteq Slot
  BY <1>1, RetainedMaxIsPositive DEF StorageInv, RetentionBounded
<1>3. /\ DOMAIN sl = DOMAIN slots
      /\ Finalized(sl) \in SUBSET (IF gained THEN Finalized(slots) \cup {s}
                                             ELSE Finalized(slots))
  BY DEF Finalized
<1>4. /\ IsFiniteSet(Finalized(slots))
      /\ Cardinality(Finalized(slots)) \in Nat
      /\ Cardinality(Finalized(sl)) \in Nat
  BY <1>2, <1>3, FinalizedIsFinite
<1>5. /\ IsFiniteSet(Finalized(slots) \cup {s})
      /\ Cardinality(Finalized(slots) \cup {s}) <= Cardinality(Finalized(slots)) + 1
  <2>1. Cardinality(Finalized(slots) \cup {s}) =
          IF s \in Finalized(slots) THEN Cardinality(Finalized(slots))
                                    ELSE Cardinality(Finalized(slots)) + 1
    BY <1>4, FS_AddElement
  <2>2. IsFiniteSet(Finalized(slots) \cup {s})
    BY <1>4, FS_AddElement
  <2>3. QED
    BY <1>4, <2>1, <2>2
<1>6. Cardinality(Finalized(sl)) <= total
  <2>1. CASE gained
    <3>1. Cardinality(Finalized(sl)) <= Cardinality(Finalized(slots) \cup {s})
      BY <1>3, <1>5, <2>1, FS_Subset
    <3>2. QED
      BY <1>2, <1>4, <1>5, <2>1, <3>1, FS_CardinalityType
  <2>2. CASE ~gained
    <3>1. Cardinality(Finalized(sl)) <= Cardinality(Finalized(slots))
      BY <1>3, <1>4, <2>2, FS_Subset
    <3>2. QED
      BY <1>2, <1>4, <2>2, <3>1
  <2>3. QED
    BY <2>1, <2>2
<1>7. Outcome(sl, total)
  BY <1>1, <1>2, <1>3, EvictOutcome
<1>8. CASE /\ total <= RetainedMax
           /\ slots' = sl
           /\ finalized_total' = total
           /\ spinning' = spinning
  BY <1>2, <1>3, <1>6, <1>8 DEF StorageInv, RetentionBounded, RetainedMax
<1>9. CASE /\ total = RetainedMax + 1
           /\ LowestPopped(sl)
           /\ finalized_total' = RetainedMax
           /\ spinning' = spinning
  <2> HIDE DEF sl
  <2>1. /\ DOMAIN slots' \in SUBSET DOMAIN slots
        /\ Cardinality(Finalized(slots')) = Cardinality(Finalized(sl)) - 1
    BY <1>3, <1>9 DEF LowestPopped
  <2>2. IsFiniteSet(DOMAIN slots')
    BY <1>2, <2>1, FS_Subset
  <2>3. QED
    BY <1>2, <1>4, <1>6, <1>9, <2>1, <2>2 DEF StorageInv, RetentionBounded, RetainedMax
<1>10. ~(total = RetainedMax + 1 /\ Cardinality(Finalized(sl)) = 0)
  <2> SUFFICES ASSUME total = RetainedMax + 1, Cardinality(Finalized(sl)) = 0
               PROVE  FALSE
    OBVIOUS
  <2>1. gained
    BY <1>2
  <2>2. s \in Finalized(sl)
    BY <2>1 DEF Finalized
  <2>3. IsFiniteSet(Finalized(sl))
    BY <1>2, <1>3, FinalizedIsFinite
  <2>4. QED
    BY <2>2, <2>3, FS_EmptySet
<1>11. QED
  BY <1>7, <1>8, <1>9, <1>10 DEF Outcome

LEMMA StorageInvariant == StorageSpec => []StorageInv
<1>1. StorageInv /\ [StorageNext]_storageVars => StorageInv'
  <2> SUFFICES ASSUME StorageInv, [StorageNext]_storageVars PROVE StorageInv'
    OBVIOUS
  <2>1. CASE StorageNext
    <3>1. PICK m \in Message : Apply(m)
      BY <2>1 DEF StorageNext
    <3>2. CASE m.kind = "block"
      BY <3>1, <3>2, PushBlockKeeps DEF Apply, Message
    <3>3. CASE m.kind \in CommitmentLevel
      <4>1. m.kind # "block"
        BY <3>3 DEF CommitmentLevel
      <4>2. QED
        BY <3>1, <3>3, <4>1, UpdateCommitmentKeeps DEF Apply, Message
    <3>4. QED
      BY <3>2, <3>3 DEF Message, Kind
  <2>2. CASE UNCHANGED storageVars
    BY <2>2 DEF storageVars, StorageInv, RetentionBounded, Finalized, RetainedMax
  <2>3. QED
    BY <2>1, <2>2
<1>2. QED
  BY <1>1, StorageInitEstablishes, PTL DEF StorageSpec

(***************************************************************************)
(* For every MAX_RECENT_BLOCKHASHES, slack and block tree and under every  *)
(* sequence of messages, repeated or lowering a level as they may be, the  *)
(* storage keeps a bounded number of finalized blocks.                     *)
(***************************************************************************)
THEOREM RetentionIsBounded == StorageSpec => []RetentionBounded
<1>1. StorageInv => RetentionBounded
  BY DEF StorageInv
<1>2. QED
  BY <1>1, StorageInvariant, PTL

(***************************************************************************)
(* The eviction loop of update_commitment ends on every call, under every  *)
(* sequence of messages: it needs nothing of the consumer.                 *)
(***************************************************************************)
THEOREM EvictionEnds == StorageSpec => []NeverSpins
<1>1. StorageInv => NeverSpins
  BY DEF StorageInv, RetentionBounded, NeverSpins
<1>2. QED
  BY <1>1, StorageInvariant, PTL

-----------------------------------------------------------------------------
(***************************************************************************)
(* The storage under the messages of a feed, for every block tree, every   *)
(* MAX_RECENT_BLOCKHASHES and every slack: the counter of finalized entries *)
(* is exact, the eviction loop ends, nothing is evicted early and the      *)
(* finalized pointer names a stored entry.                                 *)
(***************************************************************************)

(***************************************************************************)
(* The eviction loop on a map whose counter is exact: it leaves the map    *)
(* alone, or removes everything up to the lowest finalized entry, and the  *)
(* counter is exact again.                                                 *)
(***************************************************************************)
LEMMA EvictKeepsCountExact ==
  ASSUME NEW sl, IsFiniteSet(DOMAIN sl), DOMAIN sl \subseteq Slot,
         NEW total, total = Cardinality(Finalized(sl)), total <= RetainedMax + 1,
         Evict(sl, total)
  PROVE  /\ spinning' = spinning
         /\ finalized_total' = Cardinality(Finalized(slots'))
         /\ finalized_total' <= RetainedMax
         /\ \/ total <= RetainedMax /\ slots' = sl
            \/ finalized_total' = RetainedMax /\ LowestPopped(sl)
<1>1. total \in Nat /\ RetainedMax \in Nat \ {0}
  BY FinalizedIsFinite, RetainedMaxIsPositive
<1>2. Outcome(sl, total)
  BY <1>1, EvictOutcome
<1>3. CASE total <= RetainedMax
  BY <1>1, <1>2, <1>3 DEF Outcome
<1>4. CASE total = RetainedMax + 1
  <2>1. Cardinality(Finalized(sl)) # 0
    BY <1>1, <1>4
  <2>2. LowestPopped(sl) /\ finalized_total' = RetainedMax /\ spinning' = spinning
    BY <1>1, <1>2, <1>4, <2>1 DEF Outcome
  <2>3. Cardinality(Finalized(slots')) = RetainedMax
    BY <1>1, <1>4, <2>2 DEF LowestPopped
  <2>4. QED
    BY <1>1, <2>2, <2>3
<1>5. QED
  BY <1>1, <1>3, <1>4

-----------------------------------------------------------------------------
LEMMA MessageIsMsg ==
  ASSUME NEW m \in Message
  PROVE  m = Msg(m.slot, m.kind) /\ m.slot \in Slot /\ m.kind \in Kind
  BY DEF Message, Msg

\* What any delivery keeps of the feed's state.
LEMMA DeliverKeepsFeed ==
  ASSUME NEW m \in Message, FeedTypeOK, Deliver(m)
  PROVE  /\ FeedTypeOK'
         /\ tip <= tip'
         /\ delivered' = delivered \cup {m}
         /\ m \notin delivered
<1>1. m.slot \in Slot /\ m.slot >= tip
  BY MessageIsMsg DEF Deliver, News
<1>2. tip \in Nat /\ m.slot \in Nat
  BY <1>1, SlotIsPositive DEF FeedTypeOK
<1>3. QED
  BY <1>1, <1>2 DEF FeedTypeOK, Deliver, News

LEMMA InitEstablishesIInv == Init => IInv
<1> SUFFICES ASSUME Init PROVE IInv
  OBVIOUS
<1> USE DEF Init, StorageInit, FeedInit
<1>1. DOMAIN slots = {} /\ Finalized(slots) = {}
  BY DEF Finalized
<1>2. RetainedMax \in Nat \ {0}
  BY RetainedMaxIsPositive
<1>3. TypeOK
  <2>1. finalized_total \in 0 .. RetainedMax /\ ~spinning
    BY <1>2
  <2>2. StorageTypeOK
    BY <1>1, <2>1 DEF StorageTypeOK
  <2>3. FeedTypeOK
    BY DEF FeedTypeOK
  <2>4. QED
    BY <2>2, <2>3 DEF TypeOK
<1>4. FinalizedTotalExact /\ BoundedFinite
  BY <1>1, <1>2, FS_EmptySet DEF FinalizedTotalExact, BoundedFinite
<1>5. NeverSpins /\ StoredWereDelivered /\ EvictedAreBelow /\ PointerIsHighest
  BY <1>1 DEF NeverSpins, StoredWereDelivered, EvictedAreBelow, PointerIsHighest
<1>6. QED
  BY <1>3, <1>4, <1>5 DEF IInv

(***************************************************************************)
(* A block is new to the feed, hence new to the map: inserting it replaces *)
(* no entry and so costs no finalized mark.                                *)
(***************************************************************************)
LEMMA BlockKeepsIInv ==
  ASSUME IInv, NEW m \in Message, m.kind = "block", Receive(m)
  PROVE  IInv'
<1> DEFINE s == m.slot
<1>1. /\ m = Msg(s, "block")
      /\ s \in Slot
      /\ s \in Nat
  BY MessageIsMsg, SlotIsPositive
<1>2. /\ FeedTypeOK'
      /\ tip <= tip'
      /\ delivered' = delivered \cup {m}
      /\ m \notin delivered
  BY DeliverKeepsFeed DEF Receive, IInv, TypeOK
<1>3. s \notin DOMAIN slots
  BY <1>1, <1>2 DEF IInv, StoredWereDelivered
<1>4. PushBlock(s)
  BY DEF Receive, Apply
<1>5. /\ DOMAIN slots' = DOMAIN slots \cup {s}
      /\ \A t \in DOMAIN slots : slots'[t] = slots[t]
      /\ slots'[s] = [hash |-> s, height |-> Height[s], commitment |-> "processed"]
      /\ UNCHANGED <<finalized_total, slot_processed, slot_confirmed, slot_finalized, spinning>>
  BY <1>3, <1>4 DEF PushBlock
<1>6. Finalized(slots') = Finalized(slots)
  BY <1>3, <1>5 DEF Finalized
<1>7. TypeOK'
  <2>1. Height[s] \in Nat
    BY <1>1, ChainAssumption
  <2>2. slots'[s] \in Entry
    BY <1>1, <1>5, <2>1 DEF Entry, CommitmentLevel
  <2>3. StorageTypeOK'
    BY <1>1, <1>5, <2>2 DEF IInv, TypeOK, StorageTypeOK
  <2>4. QED
    BY <1>2, <2>3 DEF TypeOK
<1>8. FinalizedTotalExact' /\ NeverSpins' /\ BoundedFinite'
  <2>1. IsFiniteSet(DOMAIN slots')
    BY <1>5, FS_AddElement DEF IInv, BoundedFinite
  <2>2. QED
    BY <1>5, <1>6, <2>1
    DEF IInv, FinalizedTotalExact, NeverSpins, BoundedFinite, RetainedMax
<1>9. StoredWereDelivered'
  <2>1. \A f \in Finalized(slots) : f \in Nat
    BY SlotIsPositive DEF Finalized, IInv, TypeOK, StorageTypeOK
  <2>2. tip \in Nat /\ tip' \in Nat
    BY <1>2, SlotIsPositive DEF IInv, TypeOK, FeedTypeOK
  <2>3. QED
    BY <1>1, <1>2, <1>5, <1>6, <2>1, <2>2 DEF IInv, StoredWereDelivered
<1>10. EvictedAreBelow'
  <2> SUFFICES ASSUME NEW t \in Slot, Msg(t, "block") \in delivered', t \notin DOMAIN slots'
               PROVE  finalized_total' = RetainedMax /\ \A f \in Finalized(slots') : f > t
    BY DEF EvictedAreBelow, RetainedMax
  <2>1. t # s /\ t \notin DOMAIN slots
    BY <1>5
  <2>2. Msg(t, "block") \in delivered
    BY <1>1, <1>2, <2>1 DEF Msg
  <2>3. QED
    BY <1>5, <1>6, <2>1, <2>2 DEF IInv, EvictedAreBelow
<1>11. PointerIsHighest'
  BY <1>5, <1>6 DEF IInv, PointerIsHighest
<1>12. QED
  BY <1>7, <1>8, <1>9, <1>10, <1>11 DEF IInv

(***************************************************************************)
(* A status is new and does not lower the level of its slot, so the map    *)
(* before eviction, marked, has gained exactly the entries counted.        *)
(***************************************************************************)
Marked(s, c) == IF s \in DOMAIN slots THEN [slots EXCEPT ![s].commitment = c] ELSE slots

LEMMA MarkCountsExactly ==
  ASSUME IInv, NEW s \in Slot, NEW c \in CommitmentLevel,
         Msg(s, c) \notin delivered, LevelsRise(Msg(s, c))
  PROVE  LET gained == s \in DOMAIN slots /\ c = "finalized"
         IN  /\ DOMAIN Marked(s, c) = DOMAIN slots
             /\ \A t \in DOMAIN slots : Marked(s, c)[t] \in Entry
             /\ Finalized(Marked(s, c)) =
                  IF gained THEN Finalized(slots) \cup {s} ELSE Finalized(slots)
             /\ Cardinality(Finalized(Marked(s, c))) =
                  IF gained THEN finalized_total + 1 ELSE finalized_total
<1> DEFINE gained == s \in DOMAIN slots /\ c = "finalized"
           sl == Marked(s, c)
<1>1. \A t \in DOMAIN slots : slots[t] \in Entry
  BY DEF IInv, TypeOK, StorageTypeOK
<1>2. /\ DOMAIN sl = DOMAIN slots
      /\ \A t \in DOMAIN slots : t # s => sl[t] = slots[t]
  BY DEF Marked
<1>3. s \in DOMAIN slots => sl[s] = [slots[s] EXCEPT !.commitment = c]
  BY DEF Marked
<1>4. s \in DOMAIN slots => sl[s] \in Entry /\ sl[s].commitment = c
  BY <1>1, <1>3 DEF Entry
<1>5. \A t \in DOMAIN slots : sl[t] \in Entry
  BY <1>1, <1>2, <1>4
<1>6. s \notin Finalized(slots)
  <2>1. s \in Finalized(slots) => Msg(s, "finalized") \in delivered
    BY DEF IInv, StoredWereDelivered
  <2>2. CASE c = "finalized"
    BY <2>1, <2>2
  <2>3. CASE c \in {"processed", "confirmed"}
    BY <2>1, <2>3 DEF LevelsRise, Msg
  <2>4. QED
    BY <2>2, <2>3 DEF CommitmentLevel
<1>7. Finalized(sl) = IF gained THEN Finalized(slots) \cup {s} ELSE Finalized(slots)
  BY <1>2, <1>4, <1>6 DEF Finalized
<1>8. /\ IsFiniteSet(Finalized(slots))
      /\ finalized_total = Cardinality(Finalized(slots))
  BY FinalizedIsFinite DEF IInv, BoundedFinite, FinalizedTotalExact
<1>9. Cardinality(Finalized(slots) \cup {s}) = finalized_total + 1
  BY <1>6, <1>8, FS_AddElement
<1>10. QED
  BY <1>2, <1>5, <1>7, <1>8, <1>9

LEMMA StatusKeepsIInv ==
  ASSUME IInv, NEW m \in Message, m.kind \in CommitmentLevel, Receive(m)
  PROVE  IInv'
<1> DEFINE s == m.slot
           c == m.kind
           sl == Marked(s, c)
           gained == s \in DOMAIN slots /\ c = "finalized"
           total == IF gained THEN finalized_total + 1 ELSE finalized_total
<1>1. /\ m = Msg(s, c)
      /\ s \in Slot
      /\ s \in Nat
  BY MessageIsMsg, SlotIsPositive
<1>2. /\ FeedTypeOK'
      /\ tip <= tip'
      /\ delivered' = delivered \cup {m}
      /\ m \notin delivered
  BY DeliverKeepsFeed DEF Receive, IInv, TypeOK
<1>3. /\ DOMAIN sl = DOMAIN slots
      /\ \A t \in DOMAIN slots : sl[t] \in Entry
      /\ Finalized(sl) = IF gained THEN Finalized(slots) \cup {s} ELSE Finalized(slots)
      /\ Cardinality(Finalized(sl)) = total
  BY <1>1, <1>2, MarkCountsExactly DEF Receive
<1>4. c # "block"
  BY DEF CommitmentLevel
<1>5. /\ UpdateCommitment(s, c)
      /\ LevelsRise(m)
  BY <1>4 DEF Receive, Apply
<1>6. /\ Evict(sl, total)
      /\ slot_finalized' = IF gained THEN s ELSE slot_finalized
      /\ slot_processed' \in {s, slot_processed}
      /\ slot_confirmed' \in {s, slot_confirmed}
  BY <1>5 DEF UpdateCommitment, Counted, Marked
<1>7. RetainedMax \in Nat \ {0} /\ finalized_total \in Nat /\ finalized_total <= RetainedMax
  BY RetainedMaxIsPositive, FinalizedIsFinite
  DEF IInv, BoundedFinite, FinalizedTotalExact
<1>8. /\ DOMAIN slots \subseteq Slot
      /\ IsFiniteSet(DOMAIN sl)
      /\ total <= RetainedMax + 1
  BY <1>3, <1>7 DEF IInv, TypeOK, StorageTypeOK, BoundedFinite
<1>9. /\ spinning' = spinning
      /\ finalized_total' = Cardinality(Finalized(slots'))
      /\ finalized_total' <= RetainedMax
      /\ \/ total <= RetainedMax /\ slots' = sl
         \/ finalized_total' = RetainedMax /\ LowestPopped(sl)
  BY <1>3, <1>6, <1>8, EvictKeepsCountExact
\* What both outcomes of the eviction have in common.
<1>10. /\ DOMAIN slots' \subseteq DOMAIN slots
       /\ \A t \in DOMAIN slots' : slots'[t] \in Entry
       /\ Finalized(slots') \subseteq Finalized(sl)
  BY <1>3, <1>9 DEF LowestPopped
<1>11. TypeOK'
  <2>1. finalized_total' \in 0 .. RetainedMax /\ ~spinning'
    <3>1. IsFiniteSet(DOMAIN slots')
      BY <1>3, <1>8, <1>10, FS_Subset
    <3>2. finalized_total' \in Nat
      BY <1>9, <3>1, FinalizedIsFinite
    <3>3. QED
      BY <1>7, <1>9, <3>2 DEF IInv, NeverSpins
  <2>2. {slot_processed, slot_confirmed, slot_finalized}' \subseteq Slot \cup {0}
    BY <1>1, <1>6 DEF IInv, TypeOK, StorageTypeOK
  <2>3. spinning' \in BOOLEAN
    BY <1>9 DEF IInv, TypeOK, StorageTypeOK
  <2>4. StorageTypeOK'
    BY <1>8, <1>10, <2>1, <2>2, <2>3 DEF StorageTypeOK, RetainedMax
  <2>5. QED
    BY <1>2, <2>4 DEF TypeOK
<1>12. FinalizedTotalExact' /\ NeverSpins'
  BY <1>9 DEF FinalizedTotalExact, NeverSpins, IInv
<1>13. BoundedFinite'
  BY <1>3, <1>8, <1>9, <1>10, FS_Subset DEF BoundedFinite, RetainedMax
<1>14. tip \in Nat /\ tip' \in Nat /\ s >= tip /\ (c = "finalized" => tip' = s)
  BY <1>1, <1>2, SlotIsPositive DEF Receive, Deliver, News, IInv, TypeOK, FeedTypeOK
<1>15. \A f \in Finalized(slots) : f \in Nat /\ f <= s
  <2>1. \A f \in Finalized(slots) : f \in Nat /\ f <= tip
    BY <1>8, SlotIsPositive DEF Finalized, IInv, StoredWereDelivered
  <2>2. QED
    BY <1>1, <1>14, <2>1
<1>16. StoredWereDelivered'
  <2>1. \A t \in DOMAIN slots' : Msg(t, "block") \in delivered'
    BY <1>2, <1>10 DEF IInv, StoredWereDelivered
  <2>2. \A f \in Finalized(sl) : Msg(f, "finalized") \in delivered' /\ f <= tip'
    <3>1. \A f \in Finalized(slots) : Msg(f, "finalized") \in delivered' /\ f <= tip'
      BY <1>2, <1>14, <1>15 DEF IInv, StoredWereDelivered
    <3>2. gained => Msg(s, "finalized") \in delivered' /\ s <= tip'
      BY <1>1, <1>2, <1>14
    <3>3. QED
      BY <1>3, <3>1, <3>2
  <2>3. QED
    BY <1>10, <2>1, <2>2 DEF StoredWereDelivered
<1>17. EvictedAreBelow'
  <2> SUFFICES ASSUME NEW t \in Slot, Msg(t, "block") \in delivered', t \notin DOMAIN slots'
               PROVE  finalized_total' = RetainedMax /\ \A f \in Finalized(slots') : f > t
    BY DEF EvictedAreBelow, RetainedMax
  <2>1. Msg(t, "block") \in delivered
    BY <1>1, <1>2, <1>4 DEF Msg
  <2>2. t \in Nat /\ \A u \in DOMAIN slots : u \in Nat
    BY <1>8, SlotIsPositive
  <2>3. CASE t \in DOMAIN slots
    <3>1. PICK last \in Finalized(sl) :
             /\ \A f \in Finalized(sl) : last <= f
             /\ slots' = [u \in {u \in DOMAIN sl : u > last} |-> sl[u]]
             /\ Finalized(slots') = Finalized(sl) \ {last}
             /\ finalized_total' = RetainedMax
      BY <1>3, <1>9, <2>3 DEF LowestPopped
    <3>2. last \in Nat /\ ~(t > last)
      BY <1>3, <2>2, <2>3, <3>1 DEF Finalized
    <3>3. \A f \in Finalized(slots') : f \in Nat /\ f > last
      BY <1>3, <2>2, <3>1 DEF Finalized
    <3>4. QED
      BY <2>2, <3>1, <3>2, <3>3
  <2>4. CASE t \notin DOMAIN slots
    <3>1. finalized_total = RetainedMax /\ \A f \in Finalized(slots) : f > t
      BY <2>1, <2>4 DEF IInv, EvictedAreBelow
    <3>2. PICK g \in Finalized(slots) : TRUE
      <4>1. Cardinality(Finalized(slots)) # 0
        BY <1>7, <3>1 DEF IInv, FinalizedTotalExact
      <4>2. QED
        BY <4>1, FS_EmptySet
    <3>3. s > t
      BY <1>1, <1>15, <2>2, <3>1, <3>2
    <3>4. \A f \in Finalized(sl) : f > t
      BY <1>3, <3>1, <3>3
    <3>5. finalized_total' = RetainedMax
      <4>1. CASE slots' = sl /\ total <= RetainedMax
        BY <1>3, <1>7, <1>9, <3>1, <4>1
      <4>2. QED
        BY <1>9, <4>1
    <3>6. QED
      BY <1>10, <3>4, <3>5
  <2>5. QED
    BY <2>3, <2>4
<1>18. PointerIsHighest'
  <2>1. \A f \in Finalized(sl) : f \in Nat
    BY <1>1, <1>3, <1>15
  <2>2. slot_finalized' # 0 =>
          /\ slot_finalized' \in Finalized(sl)
          /\ \A f \in Finalized(sl) : f <= slot_finalized'
    BY <1>1, <1>3, <1>6, <1>15 DEF IInv, PointerIsHighest
  <2>3. CASE slots' = sl
    BY <2>2, <2>3 DEF PointerIsHighest
  <2>4. CASE finalized_total' = RetainedMax /\ LowestPopped(sl)
    <3>1. PICK last \in Finalized(sl) :
             /\ \A f \in Finalized(sl) : last <= f
             /\ Finalized(slots') = Finalized(sl) \ {last}
             /\ finalized_total' = RetainedMax
      BY <2>4 DEF LowestPopped
    \* Something above "last" is left, and it is not above the pointer.
    <3>2. PICK g \in Finalized(slots') : TRUE
      <4>1. Cardinality(Finalized(slots')) # 0
        BY <1>7, <1>9, <3>1
      <4>2. QED
        BY <4>1, FS_EmptySet
    <3>3. slot_finalized' # 0 => slot_finalized' # last
      BY <2>1, <2>2, <3>1, <3>2
    <3>4. QED
      BY <2>2, <3>1, <3>3 DEF PointerIsHighest
  <2>5. QED
    BY <1>9, <2>3, <2>4
<1>19. QED
  BY <1>11, <1>12, <1>13, <1>16, <1>17, <1>18 DEF IInv

-----------------------------------------------------------------------------
LEMMA StepKeepsIInv == IInv /\ [Next]_vars => IInv'
<1> SUFFICES ASSUME IInv, [Next]_vars PROVE IInv'
  OBVIOUS
<1>1. CASE Next
  <2>1. PICK m \in Message : Receive(m)
    BY <1>1 DEF Next
  <2>2. CASE m.kind = "block"
    BY <2>1, <2>2, BlockKeepsIInv
  <2>3. CASE m.kind \in CommitmentLevel
    BY <2>1, <2>3, StatusKeepsIInv
  <2>4. QED
    BY <2>2, <2>3, MessageIsMsg DEF Kind
<1>2. CASE UNCHANGED vars
  BY <1>2 DEF vars, storageVars, feedVars, IInv, TypeOK, StorageTypeOK, FeedTypeOK,
     FinalizedTotalExact, NeverSpins, BoundedFinite, StoredWereDelivered,
     EvictedAreBelow, PointerIsHighest, Finalized, RetainedMax
<1>3. QED
  BY <1>1, <1>2

\* The strengthened invariant, from which every theorem below follows.
THEOREM InductiveInvariant == Spec => []IInv
  BY InitEstablishesIInv, StepKeepsIInv, PTL DEF Spec

(***************************************************************************)
(* Every variable keeps its shape: in particular the counter never passes  *)
(* one more than the retention bound.                                      *)
(***************************************************************************)
THEOREM StorageTypes == Spec => []TypeOK
<1>1. IInv => TypeOK
  BY DEF IInv
<1>2. QED
  BY <1>1, InductiveInvariant, PTL

(***************************************************************************)
(* finalized_total is the number of finalized entries, whatever the order  *)
(* and the gaps of the feed.                                               *)
(***************************************************************************)
THEOREM CounterIsExact == Spec => []FinalizedTotalExact
<1>1. IInv => FinalizedTotalExact
  BY DEF IInv
<1>2. QED
  BY <1>1, InductiveInvariant, PTL

(***************************************************************************)
(* A pushed block is dropped only below RetainedMax finalized ones.        *)
(***************************************************************************)
THEOREM RetentionHolds == Spec => []NeverEvictedEarly
<1>1. ASSUME IInv PROVE NeverEvictedEarly
  <2> SUFFICES ASSUME NEW s \in Slot, Msg(s, "block") \in delivered, s \notin DOMAIN slots
               PROVE  Cardinality({f \in Finalized(slots) : f > s}) >= RetainedMax
    BY DEF NeverEvictedEarly
  <2>1. {f \in Finalized(slots) : f > s} = Finalized(slots)
    BY <1>1 DEF IInv, EvictedAreBelow
  <2>2. QED
    BY <1>1, <2>1, RetainedMaxIsPositive DEF IInv, EvictedAreBelow, FinalizedTotalExact
<1>2. QED
  BY <1>1, InductiveInvariant, PTL

(***************************************************************************)
(* getLatestBlockhash at finalized never loses the entry it answers from.  *)
(***************************************************************************)
THEOREM FinalizedIsServed == Spec => []LatestFinalizedStored
<1>1. IInv => LatestFinalizedStored
  BY DEF IInv, PointerIsHighest, LatestFinalizedStored
<1>2. QED
  BY <1>1, InductiveInvariant, PTL

(***************************************************************************)
(* The finalized slot served to clients only moves up.                     *)
(***************************************************************************)
THEOREM FinalizedPointerRises == Spec => FinalizedNeverGoesBack
<1>1. ASSUME IInv, [Next]_vars
      PROVE  [slot_finalized' >= slot_finalized]_vars
  <2>1. slot_finalized \in Nat
    BY <1>1, SlotIsPositive DEF IInv, TypeOK, StorageTypeOK
  <2>2. CASE UNCHANGED vars
    BY <2>2
  <2>3. CASE Next
    <3>1. PICK m \in Message : Receive(m)
      BY <2>3 DEF Next
    <3>2. /\ m.slot \in Nat
          /\ m.slot >= tip
          /\ tip \in Nat
          /\ slot_finalized' \in {m.slot, slot_finalized}
      BY <1>1, <3>1, MessageIsMsg, SlotIsPositive
      DEF Receive, Deliver, News, Apply, PushBlock, UpdateCommitment, IInv, TypeOK, FeedTypeOK
    <3>3. slot_finalized <= tip
      BY <1>1, <2>1, <3>2 DEF IInv, PointerIsHighest, StoredWereDelivered
    <3>4. slot_finalized' >= slot_finalized
      BY <2>1, <3>2, <3>3
    <3>5. QED
      BY <3>4
  <2>4. QED
    BY <1>1, <2>2, <2>3
<1>2. QED
  BY <1>1, InductiveInvariant, PTL DEF Spec, FinalizedNeverGoesBack

-----------------------------------------------------------------------------
(***************************************************************************)
(* Rollbacks.  The loop of getLatestBlockhash has only heights to go by,   *)
(* so the proof follows the ancestors beside it: at every height it stops  *)
(* at the ancestor of that height or at something above it, and from there *)
(* the next ancestor down is still a candidate.                            *)
(***************************************************************************)
LEMMA LeastAndGreatest ==
  ASSUME NEW T, T \subseteq Nat, T # {}
  PROVE  /\ Min(T) \in T /\ \A y \in T : Min(T) <= y
         /\ \A b \in Nat : (\A y \in T : y <= b) => Max(T) \in T /\ \A y \in T : Max(T) >= y
<1>1. \E x \in T : \A y \in T : x <= y
  BY LeastNumber
<1>2. ASSUME NEW b \in Nat, \A y \in T : y <= b
      PROVE  \E x \in T : \A y \in T : x >= y
  <2> DEFINE gaps == {b - y : y \in T}
  <2>1. gaps \subseteq Nat /\ gaps # {}
    <3>1. \A y \in T : b - y \in Nat
      BY <1>2
    <3>2. QED
      BY <3>1
  <2>2. PICK d \in gaps : \A e \in gaps : d <= e
    <3> HIDE DEF gaps
    <3>1. QED
      BY <2>1, LeastNumber
  <2>3. PICK x \in T : d = b - x
    BY <2>2
  <2>4. ASSUME NEW y \in T PROVE x >= y
    <3>1. b - x <= b - y /\ x \in Nat /\ y \in Nat
      BY <2>2, <2>3
    <3>2. QED
      BY <3>1
  <2>5. QED
    BY <2>4
<1>3. QED
  BY <1>1, <1>2 DEF Min, Max

\* The rounds of the rollback loop, one after the other.
LEMMA RoundsExist ==
  ASSUME NEW s
  PROVE  \A n \in Nat :
           \E g : g = [i \in 0 .. n |-> IF i = 0 THEN s ELSE StepBack(g[i - 1])]
<1> DEFINE Rounds(g, n) == g = [i \in 0 .. n |-> IF i = 0 THEN s ELSE StepBack(g[i - 1])]
           bad == {n \in Nat : ~\E g : Rounds(g, n)}
<1> SUFFICES ASSUME bad # {} PROVE FALSE
  OBVIOUS
<1>1. PICK n \in bad : \A k \in bad : n <= k
  <2>1. bad \subseteq Nat
    OBVIOUS
  <2> HIDE DEF bad
  <2>2. QED
    BY <2>1, LeastNumber
<1>2. n \in Nat /\ ~\E g : Rounds(g, n)
  BY <1>1
<1>3. CASE n = 0
  <2> DEFINE first == [i \in 0 .. 0 |-> s]
  <2>1. Rounds(first, 0)
    OBVIOUS
  <2>2. QED
    BY <1>2, <1>3, <2>1
<1>4. CASE n # 0
  <2>1. n - 1 \in Nat /\ ~(n <= n - 1)
    BY <1>2, <1>4
  <2>2. PICK g : Rounds(g, n - 1)
    BY <1>1, <2>1
  <2> DEFINE h == [i \in 0 .. n |-> IF i = n THEN StepBack(g[n - 1]) ELSE g[i]]
  <2>3. \A i \in 0 .. n - 1 : g[i] = IF i = 0 THEN s ELSE StepBack(g[i - 1])
    BY <2>2
  <2>4. \A i \in 0 .. n - 1 : i \in 0 .. n /\ i # n
    BY <2>1
  <2>5. \A i \in 0 .. n - 1 : h[i] = g[i]
    BY <2>4
  <2>6. ASSUME NEW i \in 0 .. n
        PROVE  h[i] = IF i = 0 THEN s ELSE StepBack(h[i - 1])
    <3>1. CASE i = 0
      <4>1. 0 \in 0 .. n - 1
        BY <2>1
      <4>2. QED
        BY <2>3, <2>5, <3>1, <4>1
    <3>2. CASE i = n
      <4>1. n - 1 \in 0 .. n - 1 /\ n \in 0 .. n
        BY <2>1, <1>2
      <4>2. h[n] = StepBack(g[n - 1])
        BY <4>1
      <4>3. QED
        BY <1>4, <2>5, <3>2, <4>1, <4>2
    <3>3. CASE i # 0 /\ i # n
      <4>1. i \in 0 .. n - 1 /\ i - 1 \in 0 .. n - 1
        BY <1>2, <3>3
      <4>2. QED
        BY <2>3, <2>5, <3>3, <4>1
    <3>4. QED
      BY <3>1, <3>2, <3>3
  <2>7. h = [i \in 0 .. n |-> h[i]]
    OBVIOUS
  <2> HIDE DEF h
  <2>8. Rounds(h, n)
    BY <2>6, <2>7
  <2>9. QED
    BY <1>2, <2>8
<1>5. QED
  BY <1>3, <1>4

LEMMA RollbackGoesRoundByRound ==
  ASSUME NEW s, NEW n \in Nat
  PROVE  \E back : /\ back[0] = s
                   /\ \A i \in 1 .. n : back[i] = StepBack(back[i - 1])
                   /\ back[n] = Rollback(s, n)
<1> DEFINE Rounds(g) == g = [i \in 0 .. n |-> IF i = 0 THEN s ELSE StepBack(g[i - 1])]
           back == CHOOSE g : Rounds(g)
<1>1. Rounds(back)
  BY RoundsExist
<1>2. Rollback(s, n) = back[n]
  BY DEF Rollback
<1> HIDE DEF back
<1>3. \A i \in 0 .. n : back[i] = IF i = 0 THEN s ELSE StepBack(back[i - 1])
  BY <1>1
<1>4. 0 \in 0 .. n /\ \A i \in 1 .. n : i \in 0 .. n /\ i # 0
  OBVIOUS
<1>5. QED
  BY <1>2, <1>3, <1>4

\* What the storage keeps of a block, and which entries are finalized.
EntriesAreBlocks == \A s \in DOMAIN slots : slots[s].hash = s /\ slots[s].height = Height[s]

FinalizedIsNamed == Finalized(slots) # {} => slot_finalized # 0

FinalizedOnTipChain ==
  \A s \in Slot : Msg(s, "finalized") \in delivered => s \in Lineage[tip]

RollbackInv == IInv /\ EntriesAreBlocks /\ FinalizedIsNamed /\ FinalizedOnTipChain

(***************************************************************************)
(* With a stored entry one height lower below slot r, the round from r     *)
(* ends at that entry or above it.                                         *)
(***************************************************************************)
LEMMA RoundStopsInTime ==
  ASSUME EntriesAreBlocks, DOMAIN slots \subseteq Slot,
         NEW r \in DOMAIN slots, NEW t \in DOMAIN slots, t < r, Height[t] + 1 = Height[r]
  PROVE  /\ StepBack(r) \in DOMAIN slots
         /\ Height[StepBack(r)] + 1 = Height[r]
         /\ t <= StepBack(r)
<1>1. Lower(r) = {u \in DOMAIN slots : u < r /\ Height[u] + 1 = Height[r]}
  BY DEF Lower, EntriesAreBlocks
<1>2. t \in Lower(r)
  BY <1>1
<1>3. Lower(r) \subseteq Nat /\ r \in Nat /\ r # 0 /\ \A u \in Lower(r) : u <= r
  <2>1. \A u \in DOMAIN slots : u \in Nat /\ u # 0
    BY SlotsAreNumbers
  <2>2. QED
    BY <1>1, <2>1
<1>4. Max(Lower(r)) \in Lower(r) /\ Max(Lower(r)) >= t
  BY <1>2, <1>3, LeastAndGreatest
<1>5. StepBack(r) = Max(Lower(r))
  BY <1>2, <1>3 DEF StepBack
<1>6. t \in Nat /\ Max(Lower(r)) \in Nat
  BY <1>2, <1>3, <1>4
<1>7. QED
  BY <1>1, <1>4, <1>5, <1>6

\* The stored part of a lineage is finite, and its heights have no hole.
LEMMA StoredLineageIsFinite ==
  ASSUME NEW s \in Slot
  PROVE  /\ StoredLineage(s) \subseteq Lineage[s] /\ IsFiniteSet(StoredLineage(s))
         /\ Cardinality(StoredLineage(s)) \in Nat
<1>1. StoredLineage(s) \in SUBSET Nat /\ s \in Nat /\ \A t \in StoredLineage(s) : t <= s
  BY SlotsAreNumbers, LineageIsBelow DEF StoredLineage
<1>2. IsFiniteSet(StoredLineage(s))
  BY <1>1, FS_BoundedSetOfNaturals
<1>3. QED
  BY <1>2, FS_CardinalityType DEF StoredLineage

LEMMA StoredAncestorAtHeight ==
  ASSUME NEW s \in Slot, NEW i \in Nat, i < Cardinality(StoredLineage(s))
  PROVE  \E a \in StoredLineage(s) : Height[a] = Height[s] - i
<1> DEFINE L == StoredLineage(s)
           h == Height[s]
           heights == (h - i) + 1 .. h
           at == [t \in L |-> Height[t]]
<1>1. L \subseteq Lineage[s] /\ Lineage[s] \subseteq Slot /\ IsFiniteSet(L) /\ Cardinality(L) \in Nat
  BY StoredLineageIsFinite, LineageIsBelow
<1>2. h \in Nat /\ \A t \in Lineage[s] : Height[t] \in Nat /\ t \in Nat /\ s \in Nat /\ t <= s
  BY <1>1, ChainAssumption, SlotsAreNumbers, LineageIsBelow
<1>3. \A t \in Lineage[s] : Height[t] <= h
  <2>1. s \in Lineage[s]
    BY LineageStep
  <2>2. \A t \in Lineage[s] : t = s \/ t < s
    BY <1>2
  <2>3. QED
    BY <1>2, <2>1, <2>2, HeightsRise
<1> SUFFICES ASSUME \A a \in L : Height[a] # h - i PROVE FALSE
  OBVIOUS
<1>4. ASSUME NEW t \in L PROVE Height[t] \in heights
  <2>1. Height[t] \in Nat /\ Height[t] <= h
    BY <1>1, <1>2, <1>3
  <2>2. CASE Height[t] <= h - i
    <3>1. h - i \in Nat /\ h - i <= h
      BY <1>2, <2>1, <2>2
    <3>2. PICK u \in Lineage[s] : t <= u /\ Height[u] = h - i
      BY <1>1, <2>2, <3>1, NoHeightIsMissing
    <3>3. u \in L
      <4>1. \A v \in Lineage[s] : v >= u => v >= t
        BY <1>1, <1>2, <3>2
      <4>2. QED
        BY <3>2, <4>1 DEF StoredLineage
    <3>4. QED
      BY <3>2, <3>3
  <2>3. QED
    BY <1>2, <2>1, <2>2
<1>5. \A t, u \in L : at[t] = at[u] => t = u
  <2> SUFFICES ASSUME NEW t \in L, NEW u \in L, Height[t] = Height[u], t # u PROVE FALSE
    OBVIOUS
  <2>1. t < u \/ u < t
    BY <1>1, <1>2
  <2>2. Height[t] < Height[u] \/ Height[u] < Height[t]
    BY <1>1, <2>1, HeightsRise
  <2>3. QED
    BY <1>1, <1>2, <2>2
<1>6. IsFiniteSet(heights) /\ Cardinality(heights) = i
  <2>1. (h - i) + 1 \in Int /\ h \in Int /\ h - ((h - i) + 1) + 1 = i /\ ((h - i) + 1 > h <=> i = 0)
    BY <1>2
  <2>2. QED
    BY <2>1, FS_Interval
<1>7. at \in [L -> heights]
  BY <1>4
<1> HIDE DEF at, heights, L
<1>8. \E t, u \in L : t # u /\ at[t] = at[u]
  BY <1>1, <1>6, <1>7, FS_PigeonHole DEF L
<1>9. QED
  BY <1>5, <1>8

LEMMA RollbackIsServed ==
  ASSUME EntriesAreBlocks, DOMAIN slots \subseteq Slot,
         NEW s \in Slot, NEW n \in Nat, n < Cardinality(StoredLineage(s))
  PROVE  Rollback(s, n) \in DOMAIN slots
<1> DEFINE L == StoredLineage(s)
           h == Height[s]
<1>1. PICK back : /\ back[0] = s
                  /\ \A i \in 1 .. n : back[i] = StepBack(back[i - 1])
                  /\ back[n] = Rollback(s, n)
  BY RollbackGoesRoundByRound
<1> DEFINE Reached(i) == /\ back[i] \in DOMAIN slots
                         /\ Height[back[i]] = h - i
                         /\ \E a \in L : Height[a] = h - i /\ a <= back[i]
           bad == {i \in 0 .. n : ~Reached(i)}
<1>2. /\ IsFiniteSet(L) /\ Cardinality(L) \in Nat
      /\ L \subseteq Lineage[s] /\ L \subseteq Slot /\ L \subseteq DOMAIN slots
      /\ \A a \in L : a <= s /\ a \in Nat /\ s \in Nat
      /\ h \in Nat
  <2>1. L \subseteq Lineage[s] /\ L \subseteq Slot /\ \A a \in L : a <= s
    BY StoredLineageIsFinite, LineageIsBelow
  <2>2. L \subseteq DOMAIN slots
    <3>1. \A a \in L : a \in Lineage[s] /\ a \in Nat
      BY <2>1, SlotsAreNumbers
    <3>2. QED
      BY <3>1 DEF StoredLineage
  <2>3. QED
    BY <2>1, <2>2, StoredLineageIsFinite, SlotsAreNumbers, ChainAssumption
<1>3. Reached(0)
  <2>1. PICK a \in L : Height[a] = h - 0
    <3>1. 0 \in Nat /\ 0 < Cardinality(L)
      BY <1>2
    <3>2. QED
      BY <3>1, StoredAncestorAtHeight
  <2>2. s \in Lineage[s] /\ a \in Lineage[s]
    BY <1>2, LineageStep
  <2>3. ~(a < s)
    <3>1. a < s => Height[a] < Height[s]
      BY <2>2, HeightsRise
    <3>2. QED
      BY <1>2, <2>1, <3>1
  <2>4. a = s
    BY <1>2, <2>3
  <2>5. QED
    BY <1>1, <1>2, <2>1, <2>4
<1>4. ASSUME NEW i \in 1 .. n, Reached(i - 1) PROVE Reached(i)
  <2> DEFINE r == back[i - 1]
  <2>1. i \in Nat /\ i < Cardinality(L) /\ h - (i - 1) = (h - i) + 1
    BY <1>2
  <2>2. PICK a \in L : Height[a] = h - (i - 1) /\ a <= r
    BY <1>4
  <2>3. PICK t \in L : Height[t] = h - i
    BY <2>1, StoredAncestorAtHeight
  <2>4. r \in DOMAIN slots /\ Height[r] = h - (i - 1) /\ r \in Nat
    BY <1>4, SlotsAreNumbers
  <2>5. t < r
    <3>1. a \in Lineage[s] /\ t \in Lineage[s] /\ a \in Nat /\ t \in Nat
      BY <1>2
    <3>2. ~(a < t)
      <4>1. a < t => Height[a] < Height[t]
        BY <3>1, HeightsRise
      <4>2. QED
        BY <1>2, <2>1, <2>2, <2>3, <4>1
    <3>3. a # t
      BY <1>2, <2>1, <2>2, <2>3
    <3>4. QED
      BY <2>2, <2>4, <3>1, <3>2, <3>3
  <2>6. t \in DOMAIN slots /\ Height[t] + 1 = Height[r]
    BY <1>2, <2>1, <2>3, <2>4
  <2>7. /\ StepBack(r) \in DOMAIN slots
        /\ Height[StepBack(r)] + 1 = Height[r]
        /\ t <= StepBack(r)
    BY <2>4, <2>5, <2>6, RoundStopsInTime
  <2>8. back[i] = StepBack(r)
    BY <1>1
  <2>9. Height[StepBack(r)] \in Nat
    BY <2>7, ChainAssumption
  <2>10. Height[StepBack(r)] = h - i
    BY <1>2, <2>1, <2>4, <2>7, <2>9
  <2>11. QED
    BY <2>3, <2>7, <2>8, <2>10
<1> HIDE DEF Reached
<1>5. bad = {}
  <2> SUFFICES ASSUME bad # {} PROVE FALSE
    OBVIOUS
  <2>1. PICK i \in bad : \A k \in bad : i <= k
    <3>1. bad \subseteq Nat
      OBVIOUS
    <3> HIDE DEF bad
    <3>2. QED
      BY <3>1, LeastNumber
  <2>2. i \in 0 .. n /\ ~Reached(i)
    BY <2>1
  <2>3. i # 0
    BY <1>3, <2>2
  <2>4. i \in 1 .. n /\ i - 1 \in 0 .. n /\ ~(i <= i - 1)
    BY <2>2, <2>3
  <2>5. Reached(i - 1)
    BY <2>1, <2>4
  <2>6. QED
    BY <1>4, <2>2, <2>4, <2>5
<1>6. Reached(n)
  <2>1. n \in 0 .. n
    OBVIOUS
  <2>2. QED
    BY <1>5, <2>1
<1>7. QED
  BY <1>1, <1>6 DEF Reached

-----------------------------------------------------------------------------
\* The storage only ever names blocks by their slot, whatever a step does.
LEMMA EntriesStayBlocks ==
  ASSUME IInv, EntriesAreBlocks, NEW m \in Message, Receive(m)
  PROVE  EntriesAreBlocks'
<1> DEFINE s == m.slot
           c == m.kind
<1>1. m = Msg(s, c) /\ s \in Slot
  BY MessageIsMsg
<1>2. CASE c = "block"
  <2>1. PushBlock(s)
    BY <1>2 DEF Receive, Apply
  <2>2. QED
    BY <2>1 DEF PushBlock, EntriesAreBlocks
<1>3. CASE c # "block"
  <2> DEFINE sl == Marked(s, c)
             total == IF Counted(s, c) THEN finalized_total + 1 ELSE finalized_total
  <2>1. Evict(sl, total)
    BY <1>3 DEF Receive, Apply, UpdateCommitment, Marked
  <2>2. \A t \in DOMAIN sl : t \in DOMAIN slots /\ sl[t].hash = t /\ sl[t].height = Height[t]
    <3>1. \A t \in DOMAIN slots : slots[t] \in Entry
      BY DEF IInv, TypeOK, StorageTypeOK
    <3>2. QED
      BY <3>1 DEF Marked, EntriesAreBlocks, Entry
  <2>3. DOMAIN slots' \subseteq DOMAIN sl /\ \A t \in DOMAIN slots' : slots'[t] = sl[t]
    BY <2>1 DEF Evict
  <2>4. QED
    BY <2>2, <2>3 DEF EntriesAreBlocks
<1>4. QED
  BY <1>2, <1>3

\* Once something is finalized the pointer names a finalized slot.
LEMMA FinalizedStaysNamed ==
  ASSUME IInv, FinalizedIsNamed, NEW m \in Message, Receive(m)
  PROVE  FinalizedIsNamed'
<1> DEFINE s == m.slot
           c == m.kind
<1>1. m = Msg(s, c) /\ s \in Slot /\ s # 0
  BY MessageIsMsg, SlotsAreNumbers
<1>2. CASE c = "block"
  <2>1. PushBlock(s)
    BY <1>2 DEF Receive, Apply
  <2>2. Finalized(slots') \subseteq Finalized(slots) /\ slot_finalized' = slot_finalized
    BY <2>1 DEF PushBlock, Finalized
  <2>3. QED
    BY <2>2 DEF FinalizedIsNamed
<1>3. CASE c # "block"
  <2> DEFINE sl == Marked(s, c)
             total == IF Counted(s, c) THEN finalized_total + 1 ELSE finalized_total
  <2>1. /\ Evict(sl, total)
        /\ slot_finalized' = IF s \in DOMAIN slots /\ c = "finalized" THEN s ELSE slot_finalized
    BY <1>3 DEF Receive, Apply, UpdateCommitment, Marked
  <2>2. Finalized(slots') \subseteq Finalized(sl)
    BY <2>1 DEF Evict, Finalized
  <2>3. CASE s \in DOMAIN slots /\ c = "finalized"
    BY <1>1, <2>1, <2>3 DEF FinalizedIsNamed
  <2>4. CASE ~(s \in DOMAIN slots /\ c = "finalized")
    <3>1. Finalized(sl) \subseteq Finalized(slots)
      <4>1. \A t \in DOMAIN slots : slots[t] \in Entry
        BY DEF IInv, TypeOK, StorageTypeOK
      <4>2. QED
        BY <2>4, <4>1 DEF Marked, Finalized, Entry
    <3>2. QED
      BY <2>1, <2>2, <2>4, <3>1 DEF FinalizedIsNamed
  <2>5. QED
    BY <2>3, <2>4
<1>4. QED
  BY <1>2, <1>3

\* What was reported finalized is on the chain of the last finalized slot.
LEMMA FinalizedStaysOnTipChain ==
  ASSUME IInv, FinalizedOnTipChain, NEW m \in Message, Receive(m)
  PROVE  FinalizedOnTipChain'
<1>1. /\ m \notin delivered /\ m.slot >= tip /\ OnFinalizedChain(m)
      /\ delivered' = delivered \cup {m}
      /\ tip' = IF m.kind = "finalized" THEN m.slot ELSE tip
  BY DEF Receive, Deliver, News
<1>2. m = Msg(m.slot, m.kind) /\ m.slot \in Slot /\ tip \in Slot \cup {0}
  BY MessageIsMsg DEF IInv, TypeOK, FeedTypeOK
<1>3. CASE m.kind # "finalized"
  <2>1. \A s \in Slot : Msg(s, "finalized") \in delivered' => Msg(s, "finalized") \in delivered
    BY <1>1, <1>3 DEF Msg
  <2>2. QED
    BY <1>1, <1>3, <2>1 DEF FinalizedOnTipChain
<1>4. CASE m.kind = "finalized"
  <2>1. m.slot \in Lineage[m.slot] /\ Lineage[0] = {}
    BY <1>2, LineageStep
  <2>2. Lineage[tip] \subseteq Lineage[m.slot]
    <3>1. CASE tip = 0
      BY <2>1, <3>1
    <3>2. CASE tip \in Lineage[m.slot]
      BY <1>2, <3>2, LineageIsTransitive
    <3>3. CASE m.slot \in Lineage[tip]
      <4>1. m.slot <= tip
        BY <1>2, <3>3, LineageIsBelow
      <4>2. m.slot = tip
        BY <1>1, <1>2, <4>1, SlotsAreNumbers
      <4>3. QED
        BY <4>2
    <3>4. QED
      BY <1>1, <1>4, <3>1, <3>2, <3>3 DEF OnFinalizedChain
  <2>3. ASSUME NEW s \in Slot, Msg(s, "finalized") \in delivered'
        PROVE  s \in Lineage[m.slot]
    <3>1. CASE Msg(s, "finalized") \in delivered
      BY <2>2, <3>1 DEF FinalizedOnTipChain
    <3>2. CASE Msg(s, "finalized") = m
      <4>1. s = m.slot
        BY <3>2 DEF Msg
      <4>2. QED
        BY <2>1, <4>1
    <3>3. QED
      BY <1>1, <2>3, <3>1, <3>2
  <2>4. tip' = m.slot
    BY <1>1, <1>4
  <2>5. QED
    BY <2>3, <2>4 DEF FinalizedOnTipChain
<1>5. QED
  BY <1>3, <1>4

(***************************************************************************)
(* The invariant of the rollbacks: beside IInv, an entry of the map names  *)
(* the slot and the height of its own block, the pointer names a finalized *)
(* slot as soon as there is one, and the finalized slots are one chain.    *)
(***************************************************************************)
THEOREM RollbackInvariant == Spec => []RollbackInv
<1>1. Init => RollbackInv
  <2> SUFFICES ASSUME Init PROVE RollbackInv
    OBVIOUS
  <2>1. DOMAIN slots = {} /\ Finalized(slots) = {} /\ delivered = {}
    BY DEF Init, StorageInit, FeedInit, Finalized
  <2>2. QED
    BY <2>1, InitEstablishesIInv
    DEF RollbackInv, EntriesAreBlocks, FinalizedIsNamed, FinalizedOnTipChain
<1>2. RollbackInv /\ [Next]_vars => RollbackInv'
  <2> SUFFICES ASSUME RollbackInv, [Next]_vars PROVE RollbackInv'
    OBVIOUS
  <2>1. IInv'
    BY StepKeepsIInv DEF RollbackInv
  <2>2. CASE Next
    <3>1. PICK m \in Message : Receive(m)
      BY <2>2 DEF Next
    <3>2. QED
      BY <2>1, <3>1, EntriesStayBlocks, FinalizedStaysNamed, FinalizedStaysOnTipChain
      DEF RollbackInv
  <2>3. CASE UNCHANGED vars
    <3>1. UNCHANGED <<slots, slot_finalized, delivered, tip>>
      BY <2>3 DEF vars, storageVars, feedVars
    <3>2. (EntriesAreBlocks /\ FinalizedIsNamed /\ FinalizedOnTipChain)'
      BY <3>1 DEF RollbackInv, EntriesAreBlocks, FinalizedIsNamed, FinalizedOnTipChain, Finalized
    <3>3. QED
      BY <2>1, <3>2 DEF RollbackInv
  <2>4. QED
    BY <2>2, <2>3
<1>3. QED
  BY <1>1, <1>2, PTL DEF Spec

\* A rollback no longer than the stored lineage is answered.
LEMMA StoredRollbackIsAnswered ==
  ASSUME RollbackInv, NEW c \in CommitmentLevel, NEW n \in 0 .. MAX_RECENT_BLOCKHASHES,
         n < Cardinality(StoredLineage(CommitmentSlot(c)))
  PROVE  GetLatestBlockhash(c, n, 0).ok
<1> DEFINE s == CommitmentSlot(c)
<1>1. s \in Slot \cup {0} /\ DOMAIN slots \subseteq Slot /\ n \in Nat
  <2>1. /\ {slot_processed, slot_confirmed, slot_finalized} \subseteq Slot \cup {0}
        /\ DOMAIN slots \subseteq Slot
    BY DEF RollbackInv, IInv, TypeOK, StorageTypeOK
  <2>2. s \in {slot_processed, slot_confirmed, slot_finalized}
    BY DEF CommitmentSlot, CommitmentLevel
  <2>3. QED
    BY <2>1, <2>2, StorageAssumption
<1>2. s # 0
  <2> SUFFICES ASSUME s = 0 PROVE FALSE
    OBVIOUS
  <2>1. StoredLineage(s) = {}
    BY LineageStep DEF StoredLineage
  <2>2. Cardinality(StoredLineage(s)) = 0
    BY <2>1, FS_EmptySet
  <2>3. QED
    BY <1>1, <2>2
<1> HIDE DEF s
<1>3. s \in Slot /\ n < Cardinality(StoredLineage(s))
  BY <1>1, <1>2 DEF s
<1>4. Rollback(s, n) \in DOMAIN slots /\ Rollback(s, n) # 0
  BY <1>1, <1>3, RollbackIsServed, SlotsAreNumbers DEF RollbackInv
<1>5. s \in DOMAIN slots
  <2>1. Rollback(s, 0) \in DOMAIN slots
    BY <1>1, <1>3, StoredLineageIsFinite, RollbackIsServed DEF RollbackInv
  <2>2. Rollback(s, 0) = s
    BY RollbackGoesRoundByRound
  <2>3. QED
    BY <2>1, <2>2
<1>6. ~(n > MAX_RECENT_BLOCKHASHES) /\ ~(s < 0)
  BY <1>3, SlotsAreNumbers, StorageAssumption
<1>7. GetLatestBlockhash(c, n, 0) = Success(Rollback(s, n))
  BY <1>4, <1>5, <1>6 DEF GetLatestBlockhash, s
<1>8. QED
  BY <1>7 DEF Success

(***************************************************************************)
(* The walk over heights, which cannot see parents, never ends early: from *)
(* any commitment level a rollback is served for as many blocks as the     *)
(* level's own lineage is stored, for every block tree, however its forks  *)
(* lie between them (rpc_solana.rs:660-673).                               *)
(***************************************************************************)
THEOREM RollbackNeverRunsOut == Spec => []RollbackReachesStoredAncestors
<1>1. RollbackInv => RollbackReachesStoredAncestors
  BY StoredRollbackIsAnswered DEF RollbackReachesStoredAncestors
<1>2. QED
  BY <1>1, RollbackInvariant, PTL

-----------------------------------------------------------------------------
\* An unbroken chain of finalized entries is stored lineage of the highest.
LEMMA FinalizedChainIsStored ==
  ASSUME RollbackInv, UnbrokenFinalizedChain, Finalized(slots) # {}
  PROVE  Finalized(slots) \subseteq StoredLineage(slot_finalized)
<1> DEFINE F == Finalized(slots)
           f0 == slot_finalized
           Good(s) == s \in F => \A u \in Lineage[s] : u >= Min(F) => u \in F
           bad == {s \in Slot \cup {0} : ~Good(s)}
<1>1. F \subseteq Slot /\ F \subseteq DOMAIN slots /\ F \subseteq Nat /\ F # {}
  <2>1. F \subseteq Slot /\ F \subseteq DOMAIN slots
    BY DEF Finalized, RollbackInv, IInv, TypeOK, StorageTypeOK
  <2>2. QED
    BY <2>1, SlotsAreNumbers
<1>2. Min(F) \in F /\ \A f \in F : Min(F) <= f
  BY <1>1, LeastAndGreatest
<1>3. f0 \in F /\ \A f \in F : f <= f0
  BY DEF RollbackInv, IInv, FinalizedIsNamed, PointerIsHighest
<1>4. bad = {}
  <2> SUFFICES ASSUME bad # {} PROVE FALSE
    OBVIOUS
  <2>1. bad \subseteq Slot \cup {0} /\ 0 \notin bad
    BY LineageStep
  <2>2. PICK s \in Slot : s \in bad /\ Parent[s] \in (Slot \cup {0}) \ bad
    <3> HIDE DEF bad
    <3>1. QED
      BY <2>1, LeastSlot
  <2>3. s \in F /\ Good(Parent[s])
    BY <2>2
  <2>4. Lineage[s] = {s} \cup Lineage[Parent[s]] /\ s \in Nat /\ Parent[s] < s /\ Parent[s] \in Nat
    BY LineageStep, SlotsAreNumbers
  <2>5. ASSUME NEW u \in Lineage[Parent[s]], u >= Min(F) PROVE u \in F
    <3>1. u <= Parent[s] /\ u \in Nat
      BY <2>2, LineageIsBelow, SlotsAreNumbers
    <3>2. s # Min(F)
      BY <2>4, <2>5, <3>1
    <3>3. Parent[s] \in F
      BY <2>3, <3>2 DEF UnbrokenFinalizedChain
    <3>4. QED
      BY <2>3, <2>5, <3>3
  <2>6. Good(s)
    BY <2>3, <2>4, <2>5
  <2>7. QED
    BY <2>2, <2>6
<1>5. \A u \in Lineage[f0] : u >= Min(F) => u \in F
  BY <1>1, <1>3, <1>4
<1> HIDE DEF F
<1>6. ASSUME NEW f \in F PROVE f \in StoredLineage(f0)
  <2>1. f \in Lineage[tip] /\ f0 \in Lineage[tip] /\ tip \in Slot \cup {0}
    BY <1>1, <1>3, <1>6
    DEF RollbackInv, IInv, TypeOK, FeedTypeOK, StoredWereDelivered, FinalizedOnTipChain, F
  <2>2. f \in Lineage[f0]
    BY <1>3, <2>1, LineageIsLinear
  <2>3. \A u \in Lineage[f0] : u >= f => u \in DOMAIN slots
    <3> SUFFICES ASSUME NEW u \in Lineage[f0], u >= f PROVE u \in DOMAIN slots
      OBVIOUS
    <3>1. u \in Nat /\ f \in Nat /\ Min(F) \in Nat /\ Min(F) <= f
      BY <1>1, <1>2, <1>3, LineageIsBelow, SlotsAreNumbers
    <3>2. u >= Min(F)
      BY <3>1
    <3>3. QED
      BY <1>1, <1>5, <3>2
  <2>4. QED
    BY <2>2, <2>3 DEF StoredLineage
<1>7. QED
  BY <1>6 DEF F

(***************************************************************************)
(* The retention bound is large enough for the longest rollback a client   *)
(* may ask for, as soon as the slack is not zero (it is 10 in the code,    *)
(* rpc_solana.rs:863): a full storage whose finalized blocks have no hole  *)
(* between them serves all of them.                                        *)
(***************************************************************************)
THEOREM LongestRollbackIsServed ==
  ASSUME EvictionSlack # 0
  PROVE  Spec => []MaxRollbackServed
<1>1. ASSUME RollbackInv PROVE MaxRollbackServed
  <2> SUFFICES ASSUME finalized_total = RetainedMax, UnbrokenFinalizedChain,
                      NEW n \in 0 .. MAX_RECENT_BLOCKHASHES
               PROVE  GetLatestBlockhash("finalized", n, 0).ok
    BY DEF MaxRollbackServed
  <2> DEFINE L == StoredLineage(slot_finalized)
  <2>1. Cardinality(Finalized(slots)) = RetainedMax /\ RetainedMax > n /\ n \in Nat /\ RetainedMax \in Nat
    BY <1>1, StorageAssumption DEF RollbackInv, IInv, FinalizedTotalExact, RetainedMax
  <2>2. Finalized(slots) # {}
    BY <2>1, FS_EmptySet
  <2>3. Finalized(slots) \in SUBSET L
    BY <1>1, <2>2, FinalizedChainIsStored
  <2>4. slot_finalized \in Slot
    BY <1>1, <2>2
    DEF RollbackInv, IInv, TypeOK, StorageTypeOK, FinalizedIsNamed
  <2>5. IsFiniteSet(L) /\ Cardinality(L) \in Nat
    BY <2>4, StoredLineageIsFinite
  <2>6. Cardinality(Finalized(slots)) <= Cardinality(L)
    BY <2>3, <2>5, FS_Subset
  <2>7. n < Cardinality(L)
    BY <2>1, <2>5, <2>6
  <2>8. CommitmentSlot("finalized") = slot_finalized /\ "finalized" \in CommitmentLevel
    BY DEF CommitmentSlot, CommitmentLevel
  <2>9. QED
    BY <1>1, <2>7, <2>8, StoredRollbackIsAnswered
<1>2. QED
  BY <1>1, RollbackInvariant, PTL

-----------------------------------------------------------------------------
(***************************************************************************)
(* slots_info, for all bounds with MAX_NUM_RECENT_SLOT_INFO at most        *)
(* RetainedMax: it holds the newest blocks, agrees with the storage on     *)
(* their commitment, and names only slots the storage has.                 *)
(***************************************************************************)

(***************************************************************************)
(* Cutting down a map that has one entry more than before: nothing goes,   *)
(* or everything up to some slot goes and the map is exactly full.         *)
(***************************************************************************)
LEMMA ShrinkOutcome ==
  ASSUME NEW info, IsFiniteSet(DOMAIN info), DOMAIN info \subseteq Slot, Shrink(info)
  PROVE  /\ DOMAIN slots_info' \subseteq DOMAIN info
         /\ \A t \in DOMAIN slots_info' : slots_info'[t] = info[t]
         /\ IsFiniteSet(DOMAIN slots_info')
         /\ Cardinality(DOMAIN slots_info') <= MAX_NUM_RECENT_SLOT_INFO
         /\ \A t \in DOMAIN info \ DOMAIN slots_info' :
              /\ Cardinality(DOMAIN slots_info') = MAX_NUM_RECENT_SLOT_INFO
              /\ \A u \in DOMAIN slots_info' : u > t
<1> DEFINE n == Cardinality(DOMAIN info)
<1>1. n \in Nat /\ MAX_NUM_RECENT_SLOT_INFO \in Nat
  BY FS_CardinalityType, InfoAssumption
<1>2. CASE Surplus(info) <= 0 /\ slots_info' = info
  BY <1>1, <1>2 DEF Surplus
<1>3. CASE Surplus(info) > 0 /\ \E last \in DOMAIN info :
             /\ Cardinality(FirstUpTo(info, last)) = Surplus(info)
             /\ slots_info' = [s \in DOMAIN info \ FirstUpTo(info, last) |-> info[s]]
  <2>1. PICK last \in DOMAIN info :
             /\ Cardinality(FirstUpTo(info, last)) = Surplus(info)
             /\ slots_info' = [s \in DOMAIN info \ FirstUpTo(info, last) |-> info[s]]
    BY <1>3
  <2> DEFINE popped == FirstUpTo(info, last)
  <2>2. popped \in SUBSET DOMAIN info /\ DOMAIN slots_info' = DOMAIN info \ popped
    BY <2>1 DEF FirstUpTo
  <2>3. IsFiniteSet(popped)
    BY <2>2, FS_Subset
  <2>4. /\ IsFiniteSet(DOMAIN slots_info')
        /\ Cardinality(DOMAIN slots_info') = n - Cardinality(DOMAIN info \cap popped)
    BY <2>2, FS_Difference
  <2>5. DOMAIN info \cap popped = popped
    BY <2>2
  <2>6. Cardinality(DOMAIN slots_info') = MAX_NUM_RECENT_SLOT_INFO
    BY <1>1, <2>1, <2>4, <2>5 DEF Surplus
  <2>7. \A t \in popped, u \in DOMAIN slots_info' : u > t
    <3>1. DOMAIN info \subseteq Nat
      BY SlotIsPositive
    <3>2. QED
      BY <2>2, <3>1 DEF FirstUpTo
  <2>8. QED
    BY <1>1, <2>1, <2>2, <2>4, <2>6, <2>7
<1>4. QED
  BY <1>2, <1>3 DEF Shrink

-----------------------------------------------------------------------------
LEMMA InitEstablishesLoopInv == LoopInit => LoopInv
<1> SUFFICES ASSUME LoopInit PROVE LoopInv
  OBVIOUS
<1>1. IInv
  BY InitEstablishesIInv DEF LoopInit
<1>2. DOMAIN slots_info = {} /\ delivered = {}
  BY DEF LoopInit, Init, FeedInit
<1>3. LoopTypeOK
  BY <1>1, <1>2, FS_EmptySet, InfoAssumption DEF IInv, LoopTypeOK
<1>4. NewestInfoKept /\ CommitmentsAgree
  BY <1>2 DEF NewestInfoKept, Pushed, CommitmentsAgree
<1>5. QED
  BY <1>1, <1>3, <1>4 DEF LoopInv

(***************************************************************************)
(* A block enters both maps as processed; the one slots_info may lose to   *)
(* it is older than all that stay, and so is the new one if it is lost.    *)
(***************************************************************************)
LEMMA BlockKeepsLoopInv ==
  ASSUME LoopInv, NEW m \in Message, m.kind = "block", Process(m)
  PROVE  LoopInv'
<1> DEFINE s == m.slot
           info == [t \in DOMAIN slots_info \cup {s} |->
                      IF t = s THEN "processed" ELSE slots_info[t]]
<1>1. /\ m = Msg(s, "block")
      /\ s \in Slot
  BY MessageIsMsg
<1>2. IInv' /\ IInv
  BY BlockKeepsIInv DEF LoopInv, Process
<1>3. delivered' = delivered \cup {m}
  BY <1>2, DeliverKeepsFeed DEF Process, Receive, IInv, TypeOK
<1>4. Shrink(info)
  BY <1>2 DEF Process, Insert, IInv, NeverSpins
<1>5. IsFiniteSet(DOMAIN info) /\ DOMAIN info \subseteq Slot
  BY <1>1, FS_AddElement DEF LoopInv, LoopTypeOK
<1>6. /\ DOMAIN slots_info' \subseteq DOMAIN info
      /\ \A t \in DOMAIN slots_info' : slots_info'[t] = info[t]
      /\ IsFiniteSet(DOMAIN slots_info')
      /\ Cardinality(DOMAIN slots_info') <= MAX_NUM_RECENT_SLOT_INFO
      /\ \A t \in DOMAIN info \ DOMAIN slots_info' :
           /\ Cardinality(DOMAIN slots_info') = MAX_NUM_RECENT_SLOT_INFO
           /\ \A u \in DOMAIN slots_info' : u > t
  BY <1>4, <1>5, ShrinkOutcome
<1>7. LoopTypeOK'
  BY <1>2, <1>5, <1>6 DEF LoopInv, LoopTypeOK, IInv, CommitmentLevel
<1>8. NewestInfoKept'
  <2>1. Pushed' = Pushed \cup {s}
    BY <1>1, <1>3 DEF Pushed, Msg
  <2>2. DOMAIN slots_info' \subseteq Pushed'
    BY <1>6, <2>1 DEF LoopInv, NewestInfoKept
  <2>3. ASSUME NEW t \in Pushed' \ DOMAIN slots_info'
        PROVE  /\ Cardinality(DOMAIN slots_info') = MAX_NUM_RECENT_SLOT_INFO
               /\ \A u \in DOMAIN slots_info' : u > t
    <3>1. CASE t \in DOMAIN info
      BY <1>6, <2>3, <3>1
    <3>2. CASE t \notin DOMAIN info
      <4>1. /\ t \in Pushed \ DOMAIN slots_info
            /\ Cardinality(DOMAIN slots_info) = MAX_NUM_RECENT_SLOT_INFO
            /\ \A u \in DOMAIN slots_info : u > t
        BY <2>1, <2>3, <3>2 DEF LoopInv, NewestInfoKept
      <4>2. s \notin DOMAIN slots_info
        <5>1. s \notin Pushed
          BY <1>1, DeliverKeepsFeed, <1>2 DEF Pushed, Process, Receive, IInv, TypeOK
        <5>2. QED
          BY <5>1 DEF LoopInv, NewestInfoKept
      <4>3. Cardinality(DOMAIN info) = MAX_NUM_RECENT_SLOT_INFO + 1
        BY <4>1, <4>2, FS_AddElement DEF LoopInv, LoopTypeOK
      <4>4. PICK v \in DOMAIN info : v \notin DOMAIN slots_info'
        <5> SUFFICES ASSUME DOMAIN info \subseteq DOMAIN slots_info' PROVE FALSE
          OBVIOUS
        <5>1. DOMAIN slots_info' = DOMAIN info
          BY <1>6
        <5>2. Cardinality(DOMAIN info) <= MAX_NUM_RECENT_SLOT_INFO
          BY <1>6, <5>1
        <5> HIDE DEF info
        <5>3. QED
          BY <4>3, <5>2, InfoAssumption
      <4>5. \A u \in DOMAIN slots_info' : u > v
        BY <1>6, <4>4
      <4>6. Cardinality(DOMAIN slots_info') = MAX_NUM_RECENT_SLOT_INFO
        BY <1>6, <4>4
      <4>7. \A u \in DOMAIN slots_info' : u > t
        <5>1. DOMAIN info \subseteq Nat /\ t \in Nat
          BY <1>5, <4>1, SlotIsPositive DEF Pushed
        <5>2. CASE v # s
          BY <1>6, <4>1, <4>4, <4>5, <5>1, <5>2
        <5>3. CASE v = s
          BY <1>6, <4>1, <4>4, <5>3
        <5>4. QED
          BY <5>2, <5>3
      <4>8. QED
        BY <4>6, <4>7
    <3>3. QED
      BY <3>1, <3>2
  <2>4. QED
    BY <2>2, <2>3 DEF NewestInfoKept
<1>9. CommitmentsAgree'
  <2>1. PushBlock(s)
    BY DEF Process, Receive, Apply
  <2>2. /\ slots'[s].commitment = "processed"
        /\ \A t \in DOMAIN slots' \ {s} : t \in DOMAIN slots /\ slots'[t] = slots[t]
    BY <2>1 DEF PushBlock
  <2>3. QED
    BY <1>6, <2>2 DEF LoopInv, CommitmentsAgree
<1>10. QED
  BY <1>2, <1>7, <1>8, <1>9 DEF LoopInv

\* A status changes one commitment in the storage, whatever is evicted.
LEMMA StatusRestates ==
  ASSUME IInv, NEW s \in Slot, NEW c \in CommitmentLevel, UpdateCommitment(s, c)
  PROVE  \A t \in DOMAIN slots' :
           /\ t \in DOMAIN slots
           /\ slots'[t].commitment = IF t = s THEN c ELSE slots[t].commitment
<1> DEFINE sl == IF s \in DOMAIN slots THEN [slots EXCEPT ![s].commitment = c] ELSE slots
           total == IF Counted(s, c) THEN finalized_total + 1 ELSE finalized_total
<1>1. Evict(sl, total)
  BY DEF UpdateCommitment
<1>2. DOMAIN sl = DOMAIN slots
  OBVIOUS
<1>3. IsFiniteSet(DOMAIN sl) /\ DOMAIN sl \subseteq Slot
  BY <1>2 DEF IInv, BoundedFinite, TypeOK, StorageTypeOK
<1>4. total \in Nat /\ total <= RetainedMax + 1
  BY RetainedMaxIsPositive DEF IInv, TypeOK, StorageTypeOK, NeverSpins
<1>5. Outcome(sl, total)
  <2> HIDE DEF sl, total
  <2>1. QED
    BY <1>1, <1>3, <1>4, EvictOutcome
<1>6. \A t \in DOMAIN slots' : t \in DOMAIN sl /\ slots'[t] = sl[t]
  <2> HIDE DEF sl, total
  <2>1. QED
    BY <1>5 DEF Outcome, LowestPopped
<1>7. \A t \in DOMAIN sl : sl[t].commitment = IF t = s THEN c ELSE slots[t].commitment
  BY DEF IInv, TypeOK, StorageTypeOK, Entry
<1>8. QED
  BY <1>2, <1>6, <1>7

(***************************************************************************)
(* A status neither adds to slots_info nor removes from it.                *)
(***************************************************************************)
LEMMA StatusKeepsLoopInv ==
  ASSUME LoopInv, NEW m \in Message, m.kind # "block", Process(m)
  PROVE  LoopInv'
<1> DEFINE s == m.slot
           c == m.kind
<1>1. s \in Slot /\ c \in CommitmentLevel
  BY MessageIsMsg DEF Kind
<1>2. m = Msg(s, c)
  BY MessageIsMsg
<1>3. IInv' /\ IInv
  BY <1>1, StatusKeepsIInv DEF LoopInv, Process
<1>4. delivered' = delivered \cup {m}
  BY <1>3, DeliverKeepsFeed DEF Process, Receive, IInv, TypeOK
<1>5. slots_info' = Restated(s, c)
  BY <1>3 DEF Process, IInv, NeverSpins
<1>6. DOMAIN slots_info' = DOMAIN slots_info
  BY <1>5 DEF Restated
<1>7. \A t \in DOMAIN slots_info :
        slots_info'[t] = IF t = s THEN c ELSE slots_info[t]
  BY <1>5 DEF Restated
<1>8. LoopTypeOK'
  BY <1>1, <1>3, <1>6, <1>7 DEF LoopInv, LoopTypeOK, IInv
<1>9. NewestInfoKept'
  <2>1. Pushed' = Pushed
    BY <1>2, <1>4 DEF Pushed, Msg
  <2>2. QED
    BY <1>6, <2>1 DEF LoopInv, NewestInfoKept
<1>10. CommitmentsAgree'
  <2>1. UpdateCommitment(s, c)
    BY DEF Process, Receive, Apply
  <2>2. QED
    BY <1>1, <1>3, <1>6, <1>7, <2>1, StatusRestates DEF LoopInv, CommitmentsAgree
<1>11. QED
  BY <1>3, <1>8, <1>9, <1>10 DEF LoopInv

LEMMA LoopStepKeepsLoopInv == LoopInv /\ [LoopNext]_loopVars => LoopInv'
<1> SUFFICES ASSUME LoopInv, [LoopNext]_loopVars PROVE LoopInv'
  OBVIOUS
<1>1. CASE UNCHANGED loopVars
  <2>1. IInv'
    BY <1>1, StepKeepsIInv DEF LoopInv, loopVars
  <2>2. LoopTypeOK'
    BY <1>1, <2>1 DEF LoopInv, LoopTypeOK, IInv, loopVars
  <2>3. NewestInfoKept' /\ CommitmentsAgree'
    BY <1>1 DEF LoopInv, NewestInfoKept, Pushed, CommitmentsAgree, loopVars, vars,
                storageVars, feedVars
  <2>4. QED
    BY <2>1, <2>2, <2>3 DEF LoopInv
<1>2. CASE LoopNext
  <2>1. PICK m \in Message : Process(m)
    BY <1>2 DEF LoopNext
  <2>2. QED
    BY <2>1, BlockKeepsLoopInv, StatusKeepsLoopInv
<1>3. QED
  BY <1>1, <1>2

(***************************************************************************)
(* LoopInv is inductive: it holds in every state of the update loop.       *)
(***************************************************************************)
THEOREM LoopInvariant == LoopSpec => []LoopInv
<1>1. QED
  BY InitEstablishesLoopInv, LoopStepKeepsLoopInv, PTL DEF LoopSpec

(***************************************************************************)
(* slots_info holds the newest of all blocks pushed.                       *)
(***************************************************************************)
THEOREM NewestInfo == LoopSpec => []NewestInfoKept
<1>1. LoopInv => NewestInfoKept
  BY DEF LoopInv
<1>2. QED
  BY <1>1, LoopInvariant, PTL

(***************************************************************************)
(* Both maps tell the same commitment of a slot.                           *)
(***************************************************************************)
THEOREM OneCommitmentPerSlot == LoopSpec => []CommitmentsAgree
<1>1. LoopInv => CommitmentsAgree
  BY DEF LoopInv
<1>2. QED
  BY <1>1, LoopInvariant, PTL

(***************************************************************************)
(* The update loop reports fees only for slots it can name a blockhash of. *)
(* A slot evicted from the storage has RetainedMax finalized blocks above  *)
(* it, all of which slots_info would have to hold as well.                 *)
(***************************************************************************)
THEOREM FeesOfStoredSlots == LoopSpec => []InfoIsStored
<1>1. ASSUME LoopInv PROVE InfoIsStored
  <2> SUFFICES ASSUME NEW s \in DOMAIN slots_info, s \notin DOMAIN slots
               PROVE  FALSE
    BY DEF InfoIsStored
  <2> DEFINE fin == Finalized(slots)
  <2>1. s \in Slot /\ Msg(s, "block") \in delivered
    BY <1>1 DEF LoopInv, NewestInfoKept, Pushed
  <2>2. Cardinality(fin) = RetainedMax /\ \A f \in fin : f > s
    BY <1>1, <2>1 DEF LoopInv, IInv, EvictedAreBelow, FinalizedTotalExact
  <2>3. fin \subseteq Slot /\ \A f \in fin : Msg(f, "block") \in delivered
    BY <1>1 DEF LoopInv, IInv, StoredWereDelivered, Finalized, TypeOK, StorageTypeOK
  <2>4. fin \subseteq DOMAIN slots_info
    <3> SUFFICES ASSUME NEW f \in fin, f \notin DOMAIN slots_info PROVE FALSE
      OBVIOUS
    <3>1. s > f
      BY <1>1, <2>3 DEF LoopInv, NewestInfoKept, Pushed
    <3>2. f > s /\ f \in Nat /\ s \in Nat
      BY <2>1, <2>2, <2>3, SlotIsPositive
    <3>3. QED
      BY <3>1, <3>2
  <2>5. s \notin fin
    BY DEF Finalized
  <2>6. IsFiniteSet(DOMAIN slots_info) /\ Cardinality(DOMAIN slots_info) <= RetainedMax
    BY <1>1, InfoAssumption, RetainedMaxIsPositive, FS_CardinalityType
    DEF LoopInv, LoopTypeOK
  <2>7. /\ Cardinality(fin) <= Cardinality(DOMAIN slots_info)
        /\ Cardinality(DOMAIN slots_info) = Cardinality(fin) => DOMAIN slots_info = fin
    BY <2>4, <2>6, FS_Subset
  <2>8. Cardinality(DOMAIN slots_info) \in Nat /\ RetainedMax \in Nat
    BY <2>6, FS_CardinalityType, RetainedMaxIsPositive
  <2>9. QED
    BY <2>2, <2>5, <2>6, <2>7, <2>8
<1>2. QED
  BY <1>1, LoopInvariant, PTL
=============================================================================

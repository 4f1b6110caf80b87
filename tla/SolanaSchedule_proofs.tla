------------------------ MODULE SolanaSchedule_proofs ------------------------
(***************************************************************************)
(* The leader schedule cache for every number of epochs, validators and    *)
(* slots, and for any number of tasks that fail.                           *)
(***************************************************************************)
EXTENDS SolanaSchedule, TLAPS

\* Whole epochs and what is left of them.
LEMMA Division ==
  ASSUME NEW n \in Nat \ {0}, NEW a \in Nat
  PROVE  /\ a \div n \in Nat
         /\ a % n \in 0 .. n - 1
         /\ ((a \div n) * n) + (a % n) = a
  BY SMTT(30)

LEMMA ProductsCompare ==
  ASSUME NEW a \in Nat, NEW b \in Nat, NEW c \in Nat \ {0}, a * c < b * c
  PROVE  a < b
<1>1. CASE b <= a
  <2>1. a - b \in Nat /\ a = b + (a - b)
    BY <1>1
  <2>2. PICK d \in Nat : a = b + d
    BY <2>1
  <2>3. a * c = b * c + d * c /\ d * c \in Nat
    BY <2>2
  <2>4. QED
    BY <2>3
<1>2. QED
  BY <1>1

\* Every slot has an epoch and an index, and is found again from them.
LEMMA SlotInEpoch ==
  ASSUME NEW slot \in Slot
  PROVE  /\ EpochOf(slot) \in Epoch
         /\ IndexOf(slot) \in Index
         /\ EpochOf(slot) * EpochSlots + IndexOf(slot) = slot
<1>1. PICK e \in Epoch, i \in Index : slot = e * EpochSlots + i
  BY ScheduleAssumption DEF Slot, Index
<1>2. e \in Nat /\ EpochSlots \in Nat \ {0} /\ i \in Nat /\ i < EpochSlots
  <2>1. e \in Nat /\ EpochSlots \in Nat \ {0}
    BY ScheduleAssumption
  <2>2. i \in 0 .. EpochSlots - 1
    BY DEF Index
  <2>3. QED
    BY <2>1, <2>2
<1>3. e * EpochSlots \in Nat /\ slot \in Nat
  BY <1>1, <1>2
<1> DEFINE q == slot \div EpochSlots
           r == slot % EpochSlots
<1>4. /\ q \in Nat /\ r \in Nat /\ r < EpochSlots
      /\ q * EpochSlots + r = slot
  <2>1. /\ q \in Nat
        /\ r \in 0 .. EpochSlots - 1
        /\ (q * EpochSlots) + r = slot
    BY ONLY <1>2, <1>3, Division
  <2> HIDE DEF q, r
  <2>2. QED
    BY <1>2, <2>1
<1> HIDE DEF q, r
<1>5. q = e
  <2>1. q * EpochSlots \in Nat
    BY <1>2, <1>4
  <2>2. /\ (q + 1) * EpochSlots = q * EpochSlots + EpochSlots
        /\ (e + 1) * EpochSlots = e * EpochSlots + EpochSlots
    BY <1>2, <1>4
  <2>3. q * EpochSlots < (e + 1) * EpochSlots /\ e * EpochSlots < (q + 1) * EpochSlots
    BY <1>1, <1>2, <1>3, <1>4, <2>1, <2>2
  <2>4. q < e + 1 /\ e < q + 1
    BY <1>2, <1>4, <2>3, ProductsCompare
  <2>5. QED
    BY <1>2, <1>4, <2>4
<1>6. QED
  BY <1>1, <1>2, <1>4, <1>5 DEF q, r, EpochOf, IndexOf, Index

\* The schedule fetched for an epoch is one, and is that epoch's.
LEMMA SlotOfEpoch ==
  ASSUME NEW e \in Epoch, NEW i \in Index
  PROVE  e * EpochSlots + i \in Slot /\ LeaderOf[e * EpochSlots + i] \in Leader
  BY ScheduleAssumption DEF Slot, Index

-----------------------------------------------------------------------------
LEMMA InitInv == Init => ScheduleInv
  BY ScheduleAssumption
  DEF Init, ScheduleInv, TypeOK, OneFetchPerEpoch, LeaderIsTrue, StoredIsTrue,
      AskedForOwnEpoch, Schedules

\* A question about a slot is answered by its leader or not at all.
LEMMA AnswerIsTyped ==
  ASSUME ScheduleInv, NEW slot \in Slot, NEW leader \in Leader \cup {None},
         leader # None => leader = LeaderOf[slot], Answer(slot, leader)
  PROVE  /\ DOMAIN answers' \subseteq Slot
         /\ \A s \in DOMAIN answers' : answers'[s] \in Leader \cup {None}
         /\ LeaderIsTrue'
<1>1. /\ DOMAIN answers' = DOMAIN answers \cup {slot}
      /\ \A s \in DOMAIN answers' : answers'[s] = IF s = slot THEN leader ELSE answers[s]
  BY DEF Answer
<1>2. /\ DOMAIN answers \subseteq Slot
      /\ \A s \in DOMAIN answers : answers[s] \in Leader \cup {None}
      /\ \A s \in DOMAIN answers : answers[s] # None => answers[s] = LeaderOf[s]
  BY DEF ScheduleInv, TypeOK, LeaderIsTrue
<1>3. \A s \in DOMAIN answers' :
        /\ answers'[s] \in Leader \cup {None}
        /\ answers'[s] # None => answers'[s] = LeaderOf[s]
  BY <1>1, <1>2
<1>4. QED
  BY <1>1, <1>2, <1>3 DEF LeaderIsTrue

\* get_leader changes nothing when the epoch is known or in progress.
LEMMA AnswerInv ==
  ASSUME ScheduleInv, NEW slot \in Slot, NEW leader \in Leader \cup {None},
         leader # None => leader = LeaderOf[slot], Answer(slot, leader),
         UNCHANGED <<leader_schedule_by_epoch, fetches, given_up, failures>>
  PROVE  ScheduleInv'
<1>1. LeaderIsTrue'
  BY AnswerIsTyped
<1>2. TypeOK'
  BY AnswerIsTyped DEF ScheduleInv, TypeOK
<1>3. (OneFetchPerEpoch /\ StoredIsTrue /\ AskedForOwnEpoch)'
  BY DEF ScheduleInv, OneFetchPerEpoch, StoredIsTrue, AskedForOwnEpoch, Requested, EpochOf
<1>4. QED
  BY <1>1, <1>2, <1>3 DEF ScheduleInv

\* The leader read from a schedule is the slot's.
LEMMA StoredLeader ==
  ASSUME ScheduleInv, NEW slot \in Slot, Known(EpochOf(slot))
  PROVE  /\ leader_schedule_by_epoch[EpochOf(slot)][IndexOf(slot)] = LeaderOf[slot]
         /\ LeaderOf[slot] \in Leader
<1>1. leader_schedule_by_epoch[EpochOf(slot)][IndexOf(slot)] = LeaderOf[slot]
  BY SlotInEpoch DEF ScheduleInv, StoredIsTrue, Known
<1>2. LeaderOf[slot] \in Leader
  BY ScheduleAssumption DEF Slot
<1>3. QED
  BY <1>1, <1>2

\* get_leader marks an epoch nobody has asked for and spawns its task.
LEMMA SpawnInv ==
  ASSUME ScheduleInv, NEW slot \in Slot,
         EpochOf(slot) \notin DOMAIN leader_schedule_by_epoch,
         Mark(EpochOf(slot)),
         fetches' = fetches \cup {[epoch |-> EpochOf(slot), slot |-> slot]},
         Answer(slot, None),
         UNCHANGED <<given_up, failures>>
  PROVE  ScheduleInv'
<1> DEFINE e == EpochOf(slot)
           stored == leader_schedule_by_epoch
<1>1. e \in Epoch
  BY SlotInEpoch
<1>2. /\ DOMAIN stored' = DOMAIN stored \cup {e}
      /\ stored'[e] = None
      /\ \A f \in DOMAIN stored : stored'[f] = stored[f]
  BY DEF Mark, Put
<1> HIDE DEF e
<1>3. TypeOK'
  <2>1. /\ DOMAIN answers' \subseteq Slot
        /\ \A s \in DOMAIN answers' : answers'[s] \in Leader \cup {None}
    BY AnswerIsTyped
  <2>2. QED
    BY <1>1, <1>2, <2>1 DEF ScheduleInv, TypeOK, e
<1>4. OneFetchPerEpoch'
  <2>1. \A fetch \in fetches : fetch.epoch # e
    BY DEF ScheduleInv, OneFetchPerEpoch, e
  <2>2. \A fetch \in fetches' :
           /\ fetch.epoch \in DOMAIN stored'
           /\ stored'[fetch.epoch] = None
           /\ \A other \in fetches' : other.epoch = fetch.epoch => other = fetch
    <3>1. \A fetch \in fetches :
             /\ fetch.epoch \in DOMAIN stored
             /\ stored[fetch.epoch] = None
             /\ \A other \in fetches : other.epoch = fetch.epoch => other = fetch
      BY DEF ScheduleInv, OneFetchPerEpoch
    <3>2. fetches' = fetches \cup {[epoch |-> e, slot |-> slot]}
      BY DEF e
    <3>3. QED
      BY <1>2, <2>1, <3>1, <3>2
  <2>3. \A f \in DOMAIN stored' :
           stored'[f] = None => f \in given_up' \/ \E fetch \in fetches' : fetch.epoch = f
    <3>1. [epoch |-> e, slot |-> slot] \in fetches'
      BY DEF e
    <3>2. QED
      BY <1>2, <3>1 DEF ScheduleInv, OneFetchPerEpoch
  <2>4. QED
    BY <2>2, <2>3 DEF OneFetchPerEpoch
<1>5. LeaderIsTrue'
  BY AnswerIsTyped
<1>6. StoredIsTrue'
  BY <1>2 DEF ScheduleInv, StoredIsTrue
<1>7. AskedForOwnEpoch'
  BY DEF ScheduleInv, AskedForOwnEpoch, Requested, e
<1>8. QED
  BY <1>3, <1>4, <1>5, <1>6, <1>7 DEF ScheduleInv

LEMMA SucceedsInv ==
  ASSUME ScheduleInv, NEW fetch, FetchSucceeds(fetch)
  PROVE  ScheduleInv'
<1> DEFINE stored == leader_schedule_by_epoch
           e == fetch.epoch
           fetched == [i \in Index |-> LeaderOf[e * EpochSlots + i]]
<1>1. fetch \in fetches /\ e \in Epoch /\ fetch.slot \in Slot
  BY DEF ScheduleInv, TypeOK, FetchSucceeds
<1>2. Requested(fetch) = e
  BY <1>1 DEF ScheduleInv, AskedForOwnEpoch
<1>3. fetched \in Schedules /\ fetched # None
  <2>1. \A i \in Index : LeaderOf[e * EpochSlots + i] \in Leader
    BY <1>1, SlotOfEpoch
  <2> HIDE DEF e
  <2>2. fetched \in [Index -> Leader]
    BY <2>1
  <2>3. None \notin [Index -> Leader]
    BY ScheduleAssumption DEF Index
  <2>4. QED
    BY <2>2, <2>3 DEF Schedules
<1>4. /\ DOMAIN stored' = DOMAIN stored \cup {e}
      /\ stored'[e] = fetched
      /\ \A f \in DOMAIN stored : f # e => stored'[f] = stored[f]
      /\ fetches' = fetches \ {fetch}
      /\ UNCHANGED <<given_up, failures, answers>>
  BY <1>2 DEF FetchSucceeds, Put
<1>5. \A i \in Index : fetched[i] = LeaderOf[e * EpochSlots + i]
  OBVIOUS
<1> HIDE DEF fetched, e
<1>6. TypeOK'
  BY <1>1, <1>3, <1>4 DEF ScheduleInv, TypeOK
<1>7. OneFetchPerEpoch'
  <2>1. \A other \in fetches' : other.epoch # e
    BY <1>1, <1>4 DEF ScheduleInv, OneFetchPerEpoch, e
  <2>2. QED
    BY <1>1, <1>3, <1>4, <2>1 DEF ScheduleInv, OneFetchPerEpoch, e
<1>8. LeaderIsTrue'
  BY <1>4 DEF ScheduleInv, LeaderIsTrue
<1>9. StoredIsTrue'
  BY <1>4, <1>5 DEF ScheduleInv, StoredIsTrue
<1>10. AskedForOwnEpoch'
  BY <1>4 DEF ScheduleInv, AskedForOwnEpoch, Requested
<1>11. QED
  BY <1>6, <1>7, <1>8, <1>9, <1>10 DEF ScheduleInv

LEMMA FailsInv ==
  ASSUME ScheduleInv, NEW fetch, FetchFails(fetch)
  PROVE  ScheduleInv'
<1> DEFINE stored == leader_schedule_by_epoch
           e == fetch.epoch
<1>1. fetch \in fetches /\ failures' \in 0 .. MaxFailures
  BY ScheduleAssumption DEF ScheduleInv, TypeOK, FetchFails
<1>2. /\ DOMAIN stored' = DOMAIN stored \ {e}
      /\ \A f \in DOMAIN stored \ {e} : stored'[f] = stored[f]
      /\ fetches' = fetches \ {fetch}
      /\ UNCHANGED <<given_up, answers>>
  BY DEF FetchFails, Cleared
<1>3. TypeOK'
  BY <1>1, <1>2 DEF ScheduleInv, TypeOK
<1>4. OneFetchPerEpoch'
  <2>1. \A other \in fetches' : other.epoch # e
    BY <1>1, <1>2 DEF ScheduleInv, OneFetchPerEpoch
  <2> HIDE DEF e
  <2>2. \A f \in DOMAIN stored : f = e \/ f \in DOMAIN stored'
    BY <1>2
  <2>3. QED
    BY <1>1, <1>2, <2>1 DEF ScheduleInv, OneFetchPerEpoch, e
<1>5. LeaderIsTrue' /\ StoredIsTrue' /\ AskedForOwnEpoch'
  BY <1>2 DEF ScheduleInv, LeaderIsTrue, StoredIsTrue, AskedForOwnEpoch, Requested
<1>6. QED
  BY <1>3, <1>4, <1>5 DEF ScheduleInv

LEMMA PanicsInv ==
  ASSUME ScheduleInv, NEW fetch, FetchPanics(fetch)
  PROVE  ScheduleInv'
<1>1. /\ fetch \in fetches /\ fetch.epoch \in Epoch
      /\ failures' \in 0 .. MaxFailures
  BY ScheduleAssumption DEF ScheduleInv, TypeOK, FetchPanics
<1>2. /\ fetches' = fetches \ {fetch}
      /\ given_up' = given_up \cup {fetch.epoch}
      /\ UNCHANGED <<leader_schedule_by_epoch, answers>>
  BY DEF FetchPanics
<1>3. TypeOK'
  BY <1>1, <1>2 DEF ScheduleInv, TypeOK
<1>4. OneFetchPerEpoch'
  BY <1>1, <1>2 DEF ScheduleInv, OneFetchPerEpoch
<1>5. LeaderIsTrue' /\ StoredIsTrue' /\ AskedForOwnEpoch'
  BY <1>2 DEF ScheduleInv, LeaderIsTrue, StoredIsTrue, AskedForOwnEpoch, Requested
<1>6. QED
  BY <1>3, <1>4, <1>5 DEF ScheduleInv

LEMMA NextInv == ScheduleInv /\ [Next]_vars => ScheduleInv'
<1> SUFFICES ASSUME ScheduleInv, [Next]_vars PROVE ScheduleInv'
  OBVIOUS
<1>1. ASSUME NEW slot \in Slot, GetLeader(slot) PROVE ScheduleInv'
  <2> DEFINE e == EpochOf(slot)
  <2>1. CASE /\ Known(e)
             /\ Answer(slot, leader_schedule_by_epoch[e][IndexOf(slot)])
             /\ UNCHANGED <<leader_schedule_by_epoch, fetches, given_up, failures>>
    BY <2>1, StoredLeader, AnswerInv
  <2>2. CASE /\ Answer(slot, None)
             /\ UNCHANGED <<leader_schedule_by_epoch, fetches, given_up, failures>>
    BY <2>2, AnswerInv
  <2>3. CASE /\ e \notin DOMAIN leader_schedule_by_epoch
             /\ Mark(e)
             /\ fetches' = fetches \cup {[epoch |-> e, slot |-> slot]}
             /\ Answer(slot, None)
             /\ UNCHANGED <<given_up, failures>>
    BY <2>3, SpawnInv
  <2>4. QED
    BY <1>1, <2>1, <2>2, <2>3 DEF GetLeader, Known
<1>2. ASSUME NEW fetch \in fetches, FetchSucceeds(fetch) PROVE ScheduleInv'
  BY <1>2, SucceedsInv
<1>3. ASSUME NEW fetch \in fetches, FetchFails(fetch) PROVE ScheduleInv'
  BY <1>3, FailsInv
<1>4. ASSUME NEW fetch \in fetches, FetchPanics(fetch) PROVE ScheduleInv'
  BY <1>4, PanicsInv
<1>5. CASE UNCHANGED vars
  BY <1>5 DEF vars, ScheduleInv, TypeOK, OneFetchPerEpoch, LeaderIsTrue, StoredIsTrue,
              AskedForOwnEpoch
<1>6. QED
  BY <1>1, <1>2, <1>3, <1>4, <1>5 DEF Next, FetchEnds

\* The task of an epoch in progress is the only one that writes its entry.
LEMMA StepKeepsKnown ==
  ASSUME ScheduleInv, [Next]_vars, NEW e \in Epoch, Known(e)
  PROVE  /\ e \in DOMAIN leader_schedule_by_epoch'
         /\ leader_schedule_by_epoch'[e] = leader_schedule_by_epoch[e]
<1> DEFINE stored == leader_schedule_by_epoch
<1>1. e \in DOMAIN stored /\ stored[e] # None
  BY DEF Known
<1>2. \A fetch \in fetches : fetch.epoch # e
  BY <1>1 DEF ScheduleInv, OneFetchPerEpoch
<1>3. ASSUME NEW slot \in Slot, GetLeader(slot) PROVE e \in DOMAIN stored' /\ stored'[e] = stored[e]
  <2>1. stored' = stored \/ (EpochOf(slot) \notin DOMAIN stored /\ Mark(EpochOf(slot)))
    BY <1>3 DEF GetLeader
  <2>2. QED
    BY <1>1, <2>1 DEF Mark, Put
<1>4. ASSUME NEW fetch \in fetches, FetchEnds(fetch)
      PROVE  e \in DOMAIN stored' /\ stored'[e] = stored[e]
  <2>1. CASE FetchSucceeds(fetch)
    BY <1>1, <1>2, <2>1 DEF FetchSucceeds, Put
  <2>2. CASE FetchFails(fetch)
    BY <1>1, <1>2, <2>2 DEF FetchFails, Cleared
  <2>3. CASE FetchPanics(fetch)
    BY <1>1, <2>3 DEF FetchPanics
  <2>4. QED
    BY <1>4, <2>1, <2>2, <2>3 DEF FetchEnds
<1>5. QED
  BY <1>1, <1>3, <1>4 DEF Next, vars

-----------------------------------------------------------------------------
\* The inductive invariant of the cache.
THEOREM ScheduleInvariant == Spec => []ScheduleInv
  BY InitInv, NextInv, PTL DEF Spec

\* One task at a time fetches an epoch, and a known one is never fetched again.
THEOREM FetchedOnce == Spec => []OneFetchPerEpoch
  BY ScheduleInvariant, PTL DEF ScheduleInv

\* get_leader never names a wrong leader (schedule.rs:36-43, 73-82).
THEOREM LeadersAreTrue == Spec => []LeaderIsTrue
  BY ScheduleInvariant, PTL DEF ScheduleInv

\* No task undoes a schedule that is stored (schedule.rs:47-60).
THEOREM KnownStaysKnown == Spec => KnownForGood
<1>1. ScheduleInv /\ [Next]_vars =>
        [\A e \in Epoch : Known(e) =>
           /\ e \in DOMAIN leader_schedule_by_epoch'
           /\ leader_schedule_by_epoch'[e] = leader_schedule_by_epoch[e]]_vars
  BY StepKeepsKnown
<1>2. QED
  BY <1>1, ScheduleInvariant, PTL DEF Spec, KnownForGood
=============================================================================

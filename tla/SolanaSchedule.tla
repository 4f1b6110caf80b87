--------------------------- MODULE SolanaSchedule ---------------------------
(***************************************************************************)
(* The leader schedule cache (schedule.rs).  The subscribe task asks for   *)
(* the leader of a block once, when its meta arrives (grpc_geyser.rs:390); *)
(* a block whose leader is not known then is published without one.  A     *)
(* spawned task fetches the schedule of an epoch the first time one of its *)
(* slots is asked for.                                                     *)
(*                                                                         *)
(* get_leader and a task's two accesses each hold the mutex and are one    *)
(* step; the RPC call lies between them.                                   *)
(***************************************************************************)
EXTENDS Integers, FiniteSets

CONSTANTS
  Leader,         \* the validators
  Epoch,          \* bound: the epochs asked for, from 0
  EpochSlots,     \* 432_000, in the code and in the cluster
  LeaderOf,       \* slot -> its leader, the cluster's own schedule
  None,           \* in progress; no leader
  MaxFailures     \* bound: fetches that fail

ASSUME ScheduleAssumption ==
  /\ None \notin [0 .. EpochSlots - 1 -> Leader]
  /\ Epoch \subseteq Nat
  /\ EpochSlots \in Nat \ {0}
  /\ MaxFailures \in Nat
  /\ LeaderOf \in [{e * EpochSlots + i : e \in Epoch, i \in 0 .. EpochSlots - 1} -> Leader]

Slot == DOMAIN LeaderOf
Index == 0 .. EpochSlots - 1

VARIABLES
  leader_schedule_by_epoch,  \* epoch -> index -> leader, None while in progress
  fetches,                   \* the spawned tasks: [epoch, slot]
  given_up,                  \* epochs whose task panicked
  failures,                  \* fetches that failed so far
  answers                    \* slot asked for -> what get_leader has said

vars == <<leader_schedule_by_epoch, fetches, given_up, failures, answers>>

\* LeadersSchedule: leaders[indices[i]] is the leader of index i.
Schedules == [Index -> Leader]

TypeOK ==
  /\ DOMAIN leader_schedule_by_epoch \subseteq Epoch
  /\ \A e \in DOMAIN leader_schedule_by_epoch :
       leader_schedule_by_epoch[e] \in Schedules \cup {None}
  /\ fetches \subseteq [epoch : Epoch, slot : Slot]
  /\ given_up \subseteq Epoch
  /\ failures \in 0 .. MaxFailures
  /\ DOMAIN answers \subseteq Slot
  /\ \A slot \in DOMAIN answers : answers[slot] \in Leader \cup {None}

Init ==
  /\ leader_schedule_by_epoch = [e \in {} |-> None]
  /\ fetches = {}
  /\ given_up = {}
  /\ failures = 0
  /\ answers = [slot \in {} |-> None]

\* EpochSchedule::custom(432_000, 432_000, false): no warm-up epochs.
EpochOf(slot) == slot \div EpochSlots

IndexOf(slot) == slot % EpochSlots

Put(e, entry) ==
  leader_schedule_by_epoch' =
    [f \in DOMAIN leader_schedule_by_epoch \cup {e} |->
       IF f = e THEN entry ELSE leader_schedule_by_epoch[f]]

\* Mutant: nothing marks the epoch as in progress.
MarkNever(e) == UNCHANGED leader_schedule_by_epoch
Mark(e) == Put(e, None)

Answer(slot, leader) ==
  answers' = [s \in DOMAIN answers \cup {slot} |-> IF s = slot THEN leader ELSE answers[s]]

\* The blocks of an epoch come in any order, or not at all, and each once.
GetLeader(slot) ==
  LET e == EpochOf(slot)
  IN  /\ slot \notin DOMAIN answers
      /\ \/ /\ e \in DOMAIN leader_schedule_by_epoch
            /\ leader_schedule_by_epoch[e] # None
            /\ Answer(slot, leader_schedule_by_epoch[e][IndexOf(slot)])
            /\ UNCHANGED <<leader_schedule_by_epoch, fetches, given_up, failures>>
         \/ /\ e \in DOMAIN leader_schedule_by_epoch
            /\ leader_schedule_by_epoch[e] = None
            /\ Answer(slot, None)
            /\ UNCHANGED <<leader_schedule_by_epoch, fetches, given_up, failures>>
         \/ /\ e \notin DOMAIN leader_schedule_by_epoch
            /\ Mark(e)
            /\ fetches' = fetches \cup {[epoch |-> e, slot |-> slot]}
            /\ Answer(slot, None)
            /\ UNCHANGED <<given_up, failures>>

\* Mutant: getLeaderSchedule without a slot, which is the node's own epoch.
RequestedCurrent(fetch) == CHOOSE e \in Epoch : \A f \in Epoch : f <= e
Requested(fetch) == EpochOf(fetch.slot)

\* The RPC answers with the schedule of the epoch of the slot it was given.
FetchSucceeds(fetch) ==
  /\ fetch \in fetches
  /\ Put(fetch.epoch,
         [i \in Index |-> LeaderOf[Requested(fetch) * EpochSlots + i]])
  /\ fetches' = fetches \ {fetch}
  /\ UNCHANGED <<given_up, failures, answers>>

\* Mutant: the marker stays after a failure.
ClearedNot(e) == leader_schedule_by_epoch
Cleared(e) ==
  [f \in DOMAIN leader_schedule_by_epoch \ {e} |-> leader_schedule_by_epoch[f]]

\* No answer, no schedule in it, or a key that does not parse.
FetchFails(fetch) ==
  /\ fetch \in fetches
  /\ failures < MaxFailures
  /\ failures' = failures + 1
  /\ leader_schedule_by_epoch' = Cleared(fetch.epoch)
  /\ fetches' = fetches \ {fetch}
  /\ UNCHANGED <<given_up, answers>>

\* indices[index] with an index from a longer epoch: the marker stays.
FetchPanics(fetch) ==
  /\ fetch \in fetches
  /\ failures < MaxFailures
  /\ failures' = failures + 1
  /\ given_up' = given_up \cup {fetch.epoch}
  /\ fetches' = fetches \ {fetch}
  /\ UNCHANGED <<leader_schedule_by_epoch, answers>>

FetchEnds(fetch) == FetchSucceeds(fetch) \/ FetchFails(fetch) \/ FetchPanics(fetch)

Next ==
  \/ \E slot \in Slot : GetLeader(slot)
  \/ \E fetch \in fetches : FetchEnds(fetch)

Spec == Init /\ [][Next]_vars

\* Every RPC call ends one way or another; nothing makes a block come.
FairSpec ==
  /\ Spec
  /\ \A e \in Epoch, slot \in Slot : WF_vars(FetchEnds([epoch |-> e, slot |-> slot]))

-----------------------------------------------------------------------------
(***************************************************************************)
(* An epoch is marked "in progress" exactly while one task fetches it: the *)
(* marker stands from the first question to the task's last access         *)
(* (schedule.rs:45-60), through failures and new attempts, and no known    *)
(* epoch is fetched again.  Only a task that panicked leaves its marker.   *)
(***************************************************************************)
OneFetchPerEpoch ==
  /\ \A fetch \in fetches :
       /\ fetch.epoch \in DOMAIN leader_schedule_by_epoch
       /\ leader_schedule_by_epoch[fetch.epoch] = None
       /\ \A other \in fetches : other.epoch = fetch.epoch => other = fetch
  /\ \A e \in DOMAIN leader_schedule_by_epoch :
       leader_schedule_by_epoch[e] = None =>
         e \in given_up \/ \E fetch \in fetches : fetch.epoch = e

(***************************************************************************)
(* A leader that is named is the leader: the schedule stored for an epoch  *)
(* was asked for with a slot of that epoch, and the index is counted from  *)
(* the epoch's start.                                                      *)
(***************************************************************************)
LeaderIsTrue ==
  \A slot \in DOMAIN answers : answers[slot] # None => answers[slot] = LeaderOf[slot]

(***************************************************************************)
(* Once an epoch is known it stays known, so that no later block of it     *)
(* goes without its leader: no task that is still on its way undoes it,    *)
(* although a failed one removes whatever stands there (schedule.rs:58).   *)
(***************************************************************************)
Known(e) ==
  e \in DOMAIN leader_schedule_by_epoch /\ leader_schedule_by_epoch[e] # None

KnownForGood ==
  [][\A e \in Epoch : Known(e) =>
       /\ e \in DOMAIN leader_schedule_by_epoch'
       /\ leader_schedule_by_epoch'[e] = leader_schedule_by_epoch[e]]_vars

(***************************************************************************)
(* An epoch does not stay in progress: it becomes known, or its marker is  *)
(* taken away and the next block of the epoch asks anew (schedule.rs:58),  *)
(* except when its task panicked.                                          *)
(***************************************************************************)
EventuallyDecided ==
  \A e \in Epoch :
    e \in DOMAIN leader_schedule_by_epoch ~>
      Known(e) \/ e \notin DOMAIN leader_schedule_by_epoch \/ e \in given_up

-----------------------------------------------------------------------------
(***************************************************************************)
(* The inductive invariant of SolanaSchedule_proofs: what is stored for an *)
(* epoch is the schedule of that epoch, since every task asks with a slot  *)
(* of the epoch it stores under.                                           *)
(***************************************************************************)
StoredIsTrue ==
  \A e \in DOMAIN leader_schedule_by_epoch :
    leader_schedule_by_epoch[e] # None =>
      \A i \in Index : leader_schedule_by_epoch[e][i] = LeaderOf[e * EpochSlots + i]

AskedForOwnEpoch == \A fetch \in fetches : Requested(fetch) = fetch.epoch

ScheduleInv ==
  /\ TypeOK
  /\ OneFetchPerEpoch
  /\ LeaderIsTrue
  /\ StoredIsTrue
  /\ AskedForOwnEpoch
=============================================================================

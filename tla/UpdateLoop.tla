----------------------------- MODULE UpdateLoop -----------------------------
(***************************************************************************)
(* What the update loop does with a geyser message (rpc_solana.rs:589-623): *)
(* the blockhash storage of FedStorage and, beside it, slots_info, the map *)
(* getRecentPrioritizationFees answers from.  Each has a bound and a rule  *)
(* of eviction of its own.  The broadcast to the websockets is WebSocket's *)
(* Broadcast; how requests come in between is RpcRequests.                 *)
(***************************************************************************)
EXTENDS FedStorage

CONSTANT
  MAX_NUM_RECENT_SLOT_INFO  \* 150

ASSUME InfoAssumption ==
  /\ MAX_NUM_RECENT_SLOT_INFO \in Nat \ {0}
  /\ MAX_NUM_RECENT_SLOT_INFO <= RetainedMax

VARIABLE
  slots_info  \* slot -> commitment, the one part of StreamsSlotInfo that changes

loopVars == <<vars, slots_info>>

LoopTypeOK ==
  /\ TypeOK
  /\ DOMAIN slots_info \subseteq Slot
  /\ \A s \in DOMAIN slots_info : slots_info[s] \in CommitmentLevel
  /\ IsFiniteSet(DOMAIN slots_info)
  /\ Cardinality(DOMAIN slots_info) <= MAX_NUM_RECENT_SLOT_INFO

LoopInit ==
  /\ Init
  /\ slots_info = [s \in {} |-> "processed"]

\* Mutant: the map is cut down before the insertion.
SurplusBefore(info) == Cardinality(DOMAIN info) - 1 - MAX_NUM_RECENT_SLOT_INFO

Surplus(info) == Cardinality(DOMAIN info) - MAX_NUM_RECENT_SLOT_INFO

\* Mutant: pop_last for pop_first.
FirstUpToNewest(info, last) == {s \in DOMAIN info : s >= last}

FirstUpTo(info, last) == {s \in DOMAIN info : s <= last}

\* while slots_info.len() > MAX_NUM_RECENT_SLOT_INFO: pop_first
Shrink(info) ==
  \/ Surplus(info) <= 0 /\ slots_info' = info
  \/ /\ Surplus(info) > 0
     /\ \E last \in DOMAIN info :
          /\ Cardinality(FirstUpTo(info, last)) = Surplus(info)
          /\ slots_info' = [s \in DOMAIN info \ FirstUpTo(info, last) |-> info[s]]

Insert(s) ==
  Shrink([t \in DOMAIN slots_info \cup {s} |->
            IF t = s THEN "processed" ELSE slots_info[t]])

\* Mutant: finalized is ignored unless the slot was confirmed before.
RestatedStepwise(s, c) ==
  IF s \in DOMAIN slots_info /\ ~(slots_info[s] = "processed" /\ c = "finalized")
  THEN [slots_info EXCEPT ![s] = c] ELSE slots_info

Restated(s, c) ==
  IF s \in DOMAIN slots_info THEN [slots_info EXCEPT ![s] = c] ELSE slots_info

\* One message, to the end; a storage that spins never gets to slots_info.
Process(m) ==
  /\ Receive(m)
  /\ \/ spinning' /\ UNCHANGED slots_info
     \/ ~spinning' /\ m.kind = "block" /\ Insert(m.slot)
     \/ ~spinning' /\ m.kind # "block" /\ slots_info' = Restated(m.slot, m.kind)

LoopNext == \E m \in Message : Process(m)

LoopSpec == LoopInit /\ [][LoopNext]_loopVars

-----------------------------------------------------------------------------
(***************************************************************************)
(* A slot the fees are reported for is one the blockhash storage knows,    *)
(* although the two maps evict by different rules: one counts entries, the *)
(* other counts finalized entries (rpc_solana.rs:616-618, 857-863).        *)
(***************************************************************************)
InfoIsStored == DOMAIN slots_info \subseteq DOMAIN slots

(***************************************************************************)
(* Websocket clients and request clients are told the same commitment of a *)
(* slot: both copies follow every status, the storage's whatever was       *)
(* evicted meanwhile.                                                      *)
(***************************************************************************)
CommitmentsAgree ==
  \A s \in DOMAIN slots_info \cap DOMAIN slots :
    slots_info[s] = slots[s].commitment

(***************************************************************************)
(* slots_info holds the newest blocks pushed, as many as it may, in        *)
(* whichever order they came: a late block of an old slot neither takes    *)
(* the place of a newer one nor stays.                                     *)
(***************************************************************************)
Pushed == {s \in Slot : Msg(s, "block") \in delivered}

NewestInfoKept ==
  /\ DOMAIN slots_info \subseteq Pushed
  /\ \A s \in Pushed \ DOMAIN slots_info :
       /\ Cardinality(DOMAIN slots_info) = MAX_NUM_RECENT_SLOT_INFO
       /\ \A t \in DOMAIN slots_info : t > s

-----------------------------------------------------------------------------
\* The inductive invariant of UpdateLoop_proofs.
LoopInv ==
  /\ IInv
  /\ LoopTypeOK
  /\ NewestInfoKept
  /\ CommitmentsAgree
=============================================================================

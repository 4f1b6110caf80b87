----------------------------- MODULE GeyserFeed -----------------------------
(***************************************************************************)
(* What the Redis consumer promises to the update loop, abstractly: a      *)
(* stream in which no message occurs twice and nothing is said any more    *)
(* about a slot below the last finalized one.  RedisConsumer implements    *)
(* it; FedStorage and UpdateLoop are driven by it.                         *)
(***************************************************************************)
EXTENDS GeyserMessages

VARIABLES
  delivered,  \* the messages handed over so far
  repeated,   \* those of them handed over a second time: the feed has none
  tip         \* the slot of the last finalized status handed over

feedVars == <<delivered, repeated, tip>>

FeedTypeOK ==
  /\ delivered \subseteq Message
  /\ repeated \subseteq delivered
  /\ tip \in Slot \cup {0}

FeedInit ==
  /\ delivered = {}
  /\ repeated = {}
  /\ tip = 0

\* Finalized slots form one chain: an assumption about the cluster.
OnFinalizedChain(m) ==
  m.kind = "finalized" /\ tip # 0 =>
    tip \in Lineage[m.slot] \/ m.slot \in Lineage[tip]

\* Mutant: nothing stops a message from below the tip.
NewsAnywhere(m) == m \notin delivered
News(m) == m \notin delivered /\ m.slot >= tip

Deliver(m) ==
  /\ News(m)
  /\ OnFinalizedChain(m)
  /\ delivered' = delivered \cup {m}
  /\ UNCHANGED repeated
  /\ tip' = IF m.kind = "finalized" THEN m.slot ELSE tip

FeedNext == \E m \in Message : Deliver(m)

FeedSpec == FeedInit /\ [][FeedNext]_feedVars

(***************************************************************************)
(* A validator reports the levels of one slot upwards.  The merged stream  *)
(* inherits that order when every producer reports every level; a producer *)
(* that missed a level while it was down breaks it.                        *)
(***************************************************************************)
LevelsRise(m) ==
  m.kind \in {"processed", "confirmed"} =>
    Msg(m.slot, "finalized") \notin delivered

OrderedNext == \E m \in Message : LevelsRise(m) /\ Deliver(m)

OrderedFeedSpec == FeedInit /\ [][OrderedNext]_feedVars
=============================================================================

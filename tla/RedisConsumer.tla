--------------------------- MODULE RedisConsumer ---------------------------
(***************************************************************************)
(* The Redis stream between the solfees-grpc2redis producers and the       *)
(* backend, and the consumer task of redis.rs that merges and deduplicates *)
(* what the producers report.                                              *)
(*                                                                         *)
(* A producer writes a drained batch as one MULTI of XADDs; here its XADDs *)
(* are single steps, which only adds interleavings.                        *)
(***************************************************************************)
EXTENDS GeyserMessages, SequencesExt

CONSTANTS
  Producer,      \* the solfees-grpc2redis processes, each with its own node
  Reported,      \* the kinds of message they report
  EveryLevel,    \* no producer ever misses a status
  Window,        \* how far above its last finalized slot a node works
  StreamMaxLen,  \* stream_maxlen of config-grpc2redis.yml
  LruCapacity,   \* 8192
  BatchSize,     \* 5, the COUNT of XREAD
  MaxUnread      \* bound: producers pause when so many entries are unread

ASSUME ConsumerAssumption ==
  /\ Reported \subseteq Kind
  /\ EveryLevel \in BOOLEAN
  /\ {Window, StreamMaxLen, LruCapacity, BatchSize, MaxUnread} \subseteq Nat \ {0}

VARIABLES
  emitted,             \* what each producer has written so far
  stream,              \* the entries with an id above latest_id
  trimmed,             \* what MAXLEN removed before it was read
  batch,               \* the entries of the last XREAD still to be handled
  lru,                 \* LruCache<Slot, SeenSlot>, most recently used first
  finalized_slot_tip,
  delivered,           \* what was sent to the update loop
  repeated,            \* what was sent to the update loop again
  running              \* the consumer task has not left its loop

producerVars == <<emitted, stream, trimmed>>
dedupVars == <<lru, finalized_slot_tip, delivered, repeated>>
vars == <<producerVars, batch, dedupVars, running>>

SeenSlot == [slot : Slot, seen : SUBSET Kind]

TypeOK ==
  /\ emitted \in [Producer -> SUBSET Message]
  /\ stream \in Seq(Message) /\ Len(stream) <= MaxUnread
  /\ trimmed \subseteq Message
  /\ batch \in Seq(Message) /\ Len(batch) <= BatchSize
  /\ lru \in Seq(SeenSlot) /\ Len(lru) <= LruCapacity
  /\ finalized_slot_tip \in Slot \cup {0}
  /\ repeated \subseteq delivered /\ delivered \subseteq Message
  /\ running \in BOOLEAN

Init ==
  /\ emitted = [p \in Producer |-> {}]
  /\ stream = <<>>
  /\ trimmed = {}
  /\ batch = <<>>
  /\ lru = <<>>
  /\ finalized_slot_tip = 0
  /\ delivered = {}
  /\ repeated = {}
  /\ running = TRUE

-----------------------------------------------------------------------------
\* What a producer may write next; Grpc2Redis keeps to InOrder.
FinalizedBy(p) == FinalizedIn(emitted[p])

Reports(p, m) ==
  /\ m.kind \in Reported
  /\ InOrder(emitted[p], m)
  /\ \E f \in FinalizedBy(p) \cup {0} : m.slot <= f + Window
  /\ m.kind = "finalized" =>
       \A f \in UNION {FinalizedBy(q) : q \in Producer} :
         f \in Lineage[m.slot] \/ m.slot \in Lineage[f]
  /\ EveryLevel =>
       /\ m.kind \in DOMAIN Before =>
            \A k \in Before[m.kind] \cap Reported : Msg(m.slot, k) \in emitted[p]
       /\ m.kind = "finalized" => Lineage[m.slot] \ {m.slot} \subseteq FinalizedBy(p)

\* XADD with MAXLEN ~: the oldest entries may go, never below StreamMaxLen.
Publish(p, m) ==
  /\ Reports(p, m)
  /\ Len(stream) < MaxUnread
  /\ emitted' = [emitted EXCEPT ![p] = @ \cup {m}]
  /\ LET longer == Append(stream, m)
     IN  \E gone \in {0} \cup 1 .. Len(longer) - StreamMaxLen :
           /\ stream' = SubSeq(longer, gone + 1, Len(longer))
           /\ trimmed' = trimmed \cup ToSet(SubSeq(longer, 1, gone))
  /\ UNCHANGED <<batch, dedupVars, running>>

-----------------------------------------------------------------------------
\* XREAD COUNT 5 after latest_id; an empty reply sleeps and asks again.
XRead ==
  /\ running
  /\ batch = <<>>
  /\ stream # <<>>
  /\ LET n == IF Len(stream) < BatchSize THEN Len(stream) ELSE BatchSize
     IN  /\ batch' = SubSeq(stream, 1, n)
         /\ stream' = SubSeq(stream, n + 1, Len(stream))
  /\ UNCHANGED <<emitted, trimmed, dedupVars, running>>

\* Mutant: one flag per slot instead of one per kind of message.
SeenAtAll(s) == IF \E i \in DOMAIN lru : lru[i].slot = s THEN Kind ELSE {}

Seen(s) == UNION {lru[i].seen : i \in {j \in DOMAIN lru : lru[j].slot = s}}

\* Mutant: put(slot, SeenSlot::default()) for get_or_insert_mut.
FlagsForgetful(m) == {m.kind}
Flags(m) == Seen(m.slot) \cup {m.kind}

Truncated(entries) ==
  SubSeq(entries, 1, IF Len(entries) < LruCapacity THEN Len(entries) ELSE LruCapacity)

\* The entries of the other slots; a slot has at most one.
Others(s) ==
  LET at == {i \in DOMAIN lru : lru[i].slot = s}
  IN  IF at = {} THEN lru ELSE RemoveAt(lru, CHOOSE i \in at : TRUE)

\* get_or_insert_mut and the flag: the slot's entry is the most recent one.
Touch(m) == Truncated(<<[slot |-> m.slot, seen |-> Flags(m)]>> \o Others(m.slot))

\* Mutant: the tip check forgotten.
OutdatedNever(m) == FALSE
Outdated(m) == m.slot < finalized_slot_tip

\* Mutant: any status but processed raises the tip.
RaisesTipConfirmed(m) == m.kind \in {"confirmed", "finalized"}
RaisesTip(m) == m.kind = "finalized"

\* Mutant: "break" for "continue" at an outdated slot.
RemainingBreak(m) == IF Outdated(m) THEN <<>> ELSE Tail(batch)
Remaining(m) == Tail(batch)

Handle ==
  /\ running
  /\ batch # <<>>
  /\ LET m == Head(batch)
     IN  /\ batch' = Remaining(m)
         /\ \/ /\ Outdated(m)
               /\ UNCHANGED dedupVars
            \/ /\ ~Outdated(m)
               /\ finalized_slot_tip' = IF RaisesTip(m) THEN m.slot
                                                        ELSE finalized_slot_tip
               /\ lru' = Touch(m)
               /\ IF m.kind \in Seen(m.slot)
                  THEN UNCHANGED <<delivered, repeated>>
                  ELSE /\ delivered' = delivered \cup {m}
                       /\ repeated' = repeated \cup ({m} \cap delivered)
  /\ UNCHANGED <<producerVars, running>>

\* A Redis error, an entry that cannot be read, or the receiver is gone.  The
\* consumer goes on after an entry that does not decode, but hands the error
\* over; main ends with it, so nothing it reads after that is heard.
Stop ==
  /\ running
  /\ running' = FALSE
  /\ batch' = <<>>
  /\ UNCHANGED <<producerVars, dedupVars>>

Next ==
  \/ \E p \in Producer, m \in Message : Publish(p, m)
  \/ XRead
  \/ Handle
  \/ Stop

Spec == Init /\ [][Next]_vars

\* The task polls for ever; nothing makes a producer write.
FairSpec == Spec /\ WF_vars(XRead) /\ WF_vars(Handle)

-----------------------------------------------------------------------------
(***************************************************************************)
(* Two producers report the same things and the update loop hears each of  *)
(* them once (redis.rs:73-99), although the LRU forgets slots: it is as    *)
(* large as the slots that can be touched while one stays above the tip.   *)
(***************************************************************************)
NoDuplicate == repeated = {}

(***************************************************************************)
(* Deduplication never swallows news: what a producer wrote is waiting,    *)
(* was delivered, was trimmed unread, or is about a slot below the         *)
(* finalized tip.                                                          *)
(***************************************************************************)
NothingSwallowed ==
  running => \A p \in Producer : \A m \in emitted[p] :
    \/ m \in ToSet(stream) \cup ToSet(batch) \cup delivered \cup trimmed
    \/ m.slot < finalized_slot_tip

(***************************************************************************)
(* The tip check drops no finalized status that was still to come: once a  *)
(* slot is delivered as finalized, so are all its ancestors.  It needs     *)
(* producers that miss no status and a stream that is read in time.        *)
(***************************************************************************)
NoFinalizedGap ==
  finalized_slot_tip # 0 =>
    \A s \in Lineage[finalized_slot_tip] : Msg(s, "finalized") \in delivered

\* The consumer implements the feed the storage is written against.
Feed == INSTANCE GeyserFeed WITH tip <- finalized_slot_tip
ImplementsFeed == Feed!FeedSpec
ImplementsOrderedFeed == Feed!OrderedFeedSpec

(***************************************************************************)
(* What was written is eventually heard of by the update loop, unless it   *)
(* is outdated, trimmed, or the consumer has stopped.                      *)
(***************************************************************************)
EventuallyDelivered ==
  \A m \in Message :
    m \in ToSet(stream) ~> \/ m \in delivered \cup trimmed
                           \/ m.slot < finalized_slot_tip
                           \/ ~running
=============================================================================

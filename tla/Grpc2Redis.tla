----------------------------- MODULE Grpc2Redis -----------------------------
(***************************************************************************)
(* One solfees-grpc2redis producer over its restarts: the task of          *)
(* grpc_geyser::subscribe that turns a node's gRPC stream into messages    *)
(* (grpc_geyser.rs:342-407), the unbounded channel, and the main loop that *)
(* writes what it drains from the channel to Redis in one transaction      *)
(* (solfees-grpc2redis.rs:54-109).  A process that ends loses all of it;   *)
(* its successor hears the node from its own subscription on.              *)
(*                                                                         *)
(* The stream is one FIFO with one reader, so the node's sending and the   *)
(* task's handling of an update are one step.                              *)
(***************************************************************************)
EXTENDS GeyserMessages, SequencesExt

CONSTANTS
  TxCount,   \* how many transactions the block of a slot has
  Levels,    \* bound: the statuses the node reports
  MaxQueue   \* bound: the node pauses when so many messages are unread

ASSUME ProducerAssumption ==
  /\ TxCount \in [Slot -> Nat]
  /\ Levels \subseteq CommitmentLevel
  /\ MaxQueue \in Nat \ {0}

VARIABLES
  executed,      \* how many transactions of a slot the node has sent
  sent,          \* the block metas and statuses the node has sent
  before,        \* history: what it had sent when the process subscribed
  offset,        \* history: how many transactions of a slot it had sent then
  task,          \* the subscribe task: none, running, ended
  transactions,  \* BTreeMap<Slot, Vec<..>>: slot -> transactions collected
  geyser_rx,     \* the channel from the task to main
  pc,            \* main: connect, select, drain, exited
  messages,      \* the batch main has drained so far
  written        \* what Redis was given

nodeVars == <<executed, sent>>
historyVars == <<before, offset>>
taskVars == <<historyVars, task, transactions>>
mainVars == <<pc, messages, written>>
vars == <<nodeVars, taskVars, geyser_rx, mainVars>>

\* A message and, for a block, how many transactions it carries.
Item(s, k, txs) == [slot |-> s, kind |-> k, txs |-> txs]
Err == Item(0, "error", 0)
MessageOf(item) == Msg(item.slot, item.kind)
MessagesIn(items) == {MessageOf(items[i]) : i \in DOMAIN items}

TypeOK ==
  /\ executed \in [Slot -> Nat] /\ \A s \in Slot : executed[s] <= TxCount[s]
  /\ sent \subseteq Message
  /\ before \subseteq sent
  /\ \A s \in Slot : offset[s] \in 0 .. executed[s]
  /\ task \in {"none", "running", "ended"}
  /\ DOMAIN transactions \subseteq Slot
  /\ \A s \in DOMAIN transactions : transactions[s] \in 1 .. TxCount[s]
  /\ \A i \in DOMAIN geyser_rx : geyser_rx[i] = Err => i = Len(geyser_rx)
  /\ pc \in {"connect", "select", "drain", "exited"}
  /\ pc \in {"connect", "exited"} <=> task = "none"
  /\ messages # <<>> => pc = "drain"
  /\ MessagesIn(messages) \cup MessagesIn(written) \subseteq Message

Init ==
  /\ executed = [s \in Slot |-> 0]
  /\ sent = {}
  /\ before = {}
  /\ offset = [s \in Slot |-> 0]
  /\ task = "none"
  /\ transactions = [s \in {} |-> 0]
  /\ geyser_rx = <<>>
  /\ pc = "connect"
  /\ messages = <<>>
  /\ written = <<>>

-----------------------------------------------------------------------------
\* The node (external): it replays a block on top of a frozen parent, sends
\* the block meta once every transaction was executed, and is done with
\* everything below its root.
Replays(s) ==
  /\ \A f \in FinalizedIn(sent) : f < s
  /\ Parent[s] = 0 \/ Msg(Parent[s], "block") \in sent
  /\ Msg(s, "block") \notin sent
  /\ Len(geyser_rx) < MaxQueue

SendsTransaction(s) ==
  /\ Replays(s)
  /\ executed[s] < TxCount[s]
  /\ executed' = [executed EXCEPT ![s] = @ + 1]
  /\ UNCHANGED sent

SendsBlockMeta(s) ==
  /\ Replays(s)
  /\ executed[s] = TxCount[s]
  /\ sent' = sent \cup {Msg(s, "block")}
  /\ UNCHANGED executed

SendsStatus(s, c) ==
  /\ \A f \in FinalizedIn(sent) : f < s
  /\ InOrder(sent, Msg(s, c))
  /\ c = "finalized" => \A t \in Lineage[s] : Msg(t, "block") \in sent
  /\ Len(geyser_rx) < MaxQueue
  /\ sent' = sent \cup {Msg(s, c)}
  /\ UNCHANGED executed

-----------------------------------------------------------------------------
\* The subscribe task.

\* The subscription is opened at some point of the node's life.  There is no
\* replay: what was sent before is never heard.
Subscribe ==
  /\ pc = "connect"
  /\ pc' = "select"
  /\ task' = "running"
  /\ before' = sent
  /\ offset' = [s \in Slot |->
       IF Msg(s, "block") \in sent THEN offset[s] ELSE executed[s]]
  /\ UNCHANGED <<nodeVars, transactions, geyser_rx, messages, written>>

Unheard ==
  /\ task # "running"
  /\ UNCHANGED <<taskVars, geyser_rx, mainVars>>

Transaction(s) ==
  /\ SendsTransaction(s)
  /\ \/ Unheard
     \/ /\ task = "running"
        /\ transactions' = [t \in DOMAIN transactions \cup {s} |->
             IF t = s THEN (IF s \in DOMAIN transactions THEN transactions[s] ELSE 0) + 1
                      ELSE transactions[t]]
        /\ UNCHANGED <<historyVars, task, geyser_rx, mainVars>>

\* A slot of which no transaction was seen has no message.
BlockMeta(s) ==
  /\ SendsBlockMeta(s)
  /\ \/ Unheard
     \/ /\ task = "running"
        /\ s \notin DOMAIN transactions
        /\ UNCHANGED <<taskVars, geyser_rx, mainVars>>
     \/ /\ task = "running"
        /\ s \in DOMAIN transactions
        /\ geyser_rx' = Append(geyser_rx, Item(s, "block", transactions[s]))
        /\ transactions' = [t \in DOMAIN transactions \ {s} |-> transactions[t]]
        /\ UNCHANGED <<historyVars, task, mainVars>>

\* Mutants: a confirmed status purges as well, and no status purges.
PurgesConfirmed(c) == c # "processed"
PurgesNever(c) == FALSE
Purges(c) == c = "finalized"

Purged(s) == {t \in DOMAIN transactions : t < s}

Status(s, c) ==
  /\ SendsStatus(s, c)
  /\ \/ Unheard
     \/ /\ task = "running"
        /\ geyser_rx' = Append(geyser_rx, Item(s, c, 0))
        /\ transactions' =
             [t \in DOMAIN transactions \ (IF Purges(c) THEN Purged(s) ELSE {}) |->
                transactions[t]]
        /\ UNCHANGED <<historyVars, task, mainVars>>

\* A transport error, the end of the stream, a transaction, a commitment or
\* a block meta that cannot be decoded.
StreamFails ==
  /\ task = "running"
  /\ task' = "ended"
  /\ geyser_rx' = Append(geyser_rx, Err)
  /\ UNCHANGED <<nodeVars, historyVars, transactions, mainVars>>

\* The task panics on a transaction without signatures or accounts.
TaskPanics ==
  /\ task = "running"
  /\ task' = "ended"
  /\ UNCHANGED <<nodeVars, historyVars, transactions, geyser_rx, mainVars>>

-----------------------------------------------------------------------------
\* main

\* main never reads the channel again, and what it and the task hold is
\* gone with the process.
Exit ==
  /\ pc' = "exited"
  /\ task' = "none"
  /\ transactions' = [s \in {} |-> 0]
  /\ geyser_rx' = <<>>
  /\ messages' = <<>>
  /\ before' = {}
  /\ UNCHANGED <<nodeVars, offset>>

\* "?" on an error leaves main and the batch with it.
Take(from, batch) ==
  /\ pc = from
  /\ geyser_rx # <<>>
  /\ UNCHANGED written
  /\ \/ Head(geyser_rx) = Err /\ Exit
     \/ /\ Head(geyser_rx) # Err
        /\ geyser_rx' = Tail(geyser_rx)
        /\ pc' = "drain"
        /\ messages' = Append(batch, Head(geyser_rx))
        /\ UNCHANGED <<nodeVars, taskVars>>

Receive == Take("select", <<>>)

\* Mutant: each try_recv starts the vector again.
CollectedAnew == <<>>
Collected == messages

Drain == Take("drain", Collected)

StreamFinished ==
  /\ pc = "select"
  /\ task = "ended" /\ geyser_rx = <<>>
  /\ Exit
  /\ UNCHANGED written

\* Mutant: the batch is not started afresh in the next round.
NextBatchKept == messages
NextBatch == <<>>

Execute ==
  /\ pc = "drain"
  /\ geyser_rx = <<>>
  /\ written' = written \o messages
  /\ messages' = NextBatch
  /\ pc' = "select"
  /\ UNCHANGED <<nodeVars, taskVars, geyser_rx>>

\* Mutant: a transaction that failed is tried again.
ExecuteFailsRetried ==
  /\ pc = "drain"
  /\ geyser_rx = <<>>
  /\ written' \in {written, written \o messages}
  /\ UNCHANGED <<nodeVars, taskVars, geyser_rx, pc, messages>>

\* Redis may have executed the transaction whose answer was lost.
ExecuteFails ==
  /\ pc = "drain"
  /\ geyser_rx = <<>>
  /\ written' \in {written, written \o messages}
  /\ Exit

\* SIGINT or SIGTERM, or the admin server is gone; before the loop, a
\* connection or the subscription that failed.
Signal ==
  /\ pc \in {"connect", "select"}
  /\ Exit
  /\ UNCHANGED written

\* The operator, or the supervisor, starts the process again (external).
Restart ==
  /\ pc = "exited"
  /\ pc' = "connect"
  /\ UNCHANGED <<nodeVars, taskVars, geyser_rx, messages, written>>

Main == Receive \/ Drain \/ StreamFinished \/ Execute

Next ==
  \/ Subscribe
  \/ \E s \in Slot :
       \/ Transaction(s)
       \/ BlockMeta(s)
       \/ \E c \in Levels : Status(s, c)
  \/ StreamFails \/ TaskPanics
  \/ Main \/ ExecuteFails \/ Signal \/ Restart

Spec == Init /\ [][Next]_vars

\* main is scheduled; nothing makes the node send.
FairSpec == Spec /\ WF_vars(Main)

-----------------------------------------------------------------------------
(***************************************************************************)
(* A block in Redis lacks exactly the transactions the node had sent       *)
(* before the process that wrote it subscribed: restarts, purging at a     *)
(* finalized status and forks replayed in parallel take nothing else.      *)
(***************************************************************************)
BlocksWhole ==
  \A i \in DOMAIN written :
    written[i].kind = "block" =>
      written[i].txs = TxCount[written[i].slot] - offset[written[i].slot]

(***************************************************************************)
(* The transactions collected for forks that never freeze do not pile up:  *)
(* none is kept for a slot below a finalized one the task has heard of.    *)
(***************************************************************************)
NothingBelowRoot ==
  \A f \in FinalizedIn(MessagesIn(written \o messages \o geyser_rx)) :
    \A s \in DOMAIN transactions : s >= f

(***************************************************************************)
(* What a producer writes keeps the order of its node and repeats nothing  *)
(* over all its restarts, which is what RedisConsumer assumes of it,       *)
(* although a transaction whose outcome is unknown may have been executed. *)
(***************************************************************************)
WrittenInOrder ==
  \A i \in DOMAIN written :
    InOrder(MessagesIn(SubSeq(written, 1, i - 1)), MessageOf(written[i]))

(***************************************************************************)
(* A running producer skips nothing its node has sent since it subscribed, *)
(* except a block of which no transaction came since: a restart costs the  *)
(* messages of its gap and what the process held, and nothing after.       *)
(***************************************************************************)
NothingSkipped ==
  task = "running" =>
    \A m \in sent \ before :
      \/ m.kind = "block" /\ offset[m.slot] = TxCount[m.slot]
      \/ m \in MessagesIn(written \o messages \o geyser_rx)

(***************************************************************************)
(* What the task has heard is eventually in Redis, or the process is gone  *)
(* and its successor subscribes anew.                                      *)
(***************************************************************************)
EventuallyWritten ==
  \A m \in Message :
    m \in MessagesIn(geyser_rx) ~> m \in MessagesIn(written) \/ pc = "exited"
=============================================================================

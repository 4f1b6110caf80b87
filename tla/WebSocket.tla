----------------------------- MODULE WebSocket -----------------------------
(***************************************************************************)
(* One websocket connection: SolanaRpc::on_websocket (rpc_solana.rs:       *)
(* 424-547), fed by the update loop through a tokio broadcast channel.     *)
(* Connections share nothing but the channel and the channel knows no      *)
(* back-pressure, so one connection says it all.                           *)
(*                                                                         *)
(* An update is its number in the channel.  A message to the client is     *)
(* what it is plus the id of the SlotsSubscribe call it answers to.        *)
(***************************************************************************)
EXTENDS Integers, SequencesExt

CONSTANTS
  StreamsChannelCapacity,  \* streams_channel_capacity, rounded up to 2^k
  SinkCapacity,            \* messages the websocket takes before feed waits
  MaxUpdates,              \* bound: updates broadcast
  MaxCalls                 \* bound: messages from the client

ASSUME WebSocketAssumption ==
  {StreamsChannelCapacity, SinkCapacity, MaxUpdates, MaxCalls} \subseteq Nat \ {0}

VARIABLES
  sent,                  \* updates broadcast so far
  updates_rx,            \* updates this receiver has taken or skipped
  received,              \* messages taken from the client
  filter,                \* id of the subscription in force, 0 for None
  since,                 \* updates_rx when a filter was first set
  websocket_tx_message,  \* the message to feed next, as a sequence
  sink,                  \* fed, not yet accepted by the socket
  wire,                  \* accepted by the socket, in order
  flush_required,
  pc,                    \* feed, select!, closing, or closed
  close                  \* the Close frame still to be fed

queueVars == <<websocket_tx_message, sink, wire, flush_required>>
vars == <<sent, updates_rx, received, filter, since, queueVars, pc, close>>

Update(id, n) == [type |-> "update", id |-> id, n |-> n]
Reply(type, id) == [type |-> type, id |-> id, n |-> 0]

Ids == 0 .. MaxCalls
Messages == [type : {"update", "subscribed", "error", "pong", "close"},
             id : Ids, n : 0 .. MaxUpdates]

TypeOK ==
  /\ sent \in 0 .. MaxUpdates
  /\ updates_rx \in 0 .. sent /\ since \in 0 .. updates_rx
  /\ received \in Ids /\ filter \in 0 .. received
  /\ {websocket_tx_message, sink, wire, close} \subseteq Seq(Messages)
  /\ Len(websocket_tx_message) <= 1 /\ Len(close) <= 1
  /\ Len(sink) <= SinkCapacity
  /\ flush_required \in BOOLEAN
  /\ pc \in {"feed", "select", "closing", "closed"}

Init ==
  /\ sent = 0 /\ updates_rx = 0 /\ received = 0
  /\ filter = 0 /\ since = 0
  /\ websocket_tx_message = <<>> /\ sink = <<>> /\ wire = <<>>
  /\ flush_required = FALSE
  /\ pc = "feed"
  /\ close = <<>>

-----------------------------------------------------------------------------
\* The update loop broadcasts; it never waits for a receiver.
Broadcast ==
  /\ sent < MaxUpdates
  /\ sent' = sent + 1
  /\ UNCHANGED <<updates_rx, received, filter, since, queueVars, pc, close>>

\* Mutant: the flag is set only when there was nothing to feed.
AfterFeedNoFlush(fed) == flush_required
AfterFeed(fed) == flush_required \/ fed

Room == Len(sink) < SinkCapacity

\* The head of the loop: take the message and feed it, when there is room.
Feed ==
  /\ pc = "feed"
  /\ websocket_tx_message # <<>> => Room
  /\ sink' = sink \o websocket_tx_message
  /\ flush_required' = AfterFeed(websocket_tx_message # <<>>)
  /\ websocket_tx_message' = <<>>
  /\ pc' = "select"
  /\ UNCHANGED <<sent, updates_rx, received, filter, since, wire, close>>

\* Whoever drives the sink (a waiting feed, a flush) lets the socket write.
Driven ==
  \/ pc = "feed" /\ websocket_tx_message # <<>>
  \/ pc = "select" /\ flush_required
  \/ pc = "closing"

SocketWrites ==
  /\ Driven
  /\ sink # <<>>
  /\ wire' = Append(wire, Head(sink))
  /\ sink' = Tail(sink)
  /\ UNCHANGED <<sent, updates_rx, received, filter, since, websocket_tx_message,
                 flush_required, pc, close>>

-----------------------------------------------------------------------------
\* The branches of the select!; each ends in "continue" or in a "break".

\* Left by "break" with the frame to send, none for break None.  A message
\* whose feed failed is gone: take() had emptied the slot.
Break(frame) ==
  /\ pc' = "closing"
  /\ close' = frame
  /\ websocket_tx_message' = <<>>
  /\ UNCHANGED <<sink, wire, flush_required>>

Continue(message) ==
  /\ pc' = "feed"
  /\ websocket_tx_message' = message
  /\ UNCHANGED <<sink, wire, flush_required, close>>

FlushDone ==
  /\ pc = "select" /\ flush_required /\ sink = <<>>
  /\ flush_required' = FALSE
  /\ pc' = "feed"
  /\ UNCHANGED <<sent, updates_rx, received, filter, since, websocket_tx_message,
                 sink, wire, close>>

\* A write or read error, a Close frame, or the end of the stream.
SocketFails ==
  /\ \/ pc = "select"
     \/ pc = "feed" /\ websocket_tx_message # <<>>
  /\ Break(<<>>)
  /\ UNCHANGED <<sent, updates_rx, received, filter, since>>

\* websocket_rx.next()
CallArrives ==
  /\ pc = "select"
  /\ received < MaxCalls
  /\ received' = received + 1

Subscribe ==
  /\ CallArrives
  /\ filter' = received'
  /\ since' = IF filter = 0 THEN updates_rx ELSE since
  /\ Continue(<<Reply("subscribed", received')>>)
  /\ UNCHANGED <<sent, updates_rx>>

\* Mutant: the filter is assigned before it is validated.
SubscribeRefusedSwitches ==
  /\ CallArrives
  /\ filter' = received'
  /\ since' = IF filter = 0 THEN updates_rx ELSE since
  /\ Continue(<<Reply("error", received')>>)
  /\ UNCHANGED <<sent, updates_rx>>

\* SlotsSubscribe with an invalid filter is refused, the old one stays.
SubscribeRefused ==
  /\ CallArrives
  /\ Continue(<<Reply("error", received')>>)
  /\ UNCHANGED <<sent, updates_rx, filter, since>>

\* A Ping is answered, a Pong is not.
PingOrPong ==
  /\ CallArrives
  /\ \/ Continue(<<Reply("pong", received')>>)
     \/ Continue(<<>>)
  /\ UNCHANGED <<sent, updates_rx, filter, since>>

\* Not a call, not text, or an unknown method.
BadMessage ==
  /\ CallArrives
  /\ Break(<<Reply("close", received')>>)
  /\ UNCHANGED <<sent, updates_rx, filter, since>>

\* Mutant: a lagged receiver goes on with the oldest update still there.
LaggedNever == FALSE

Lagged == sent - updates_rx > StreamsChannelCapacity

Oldest == IF sent > StreamsChannelCapacity THEN sent - StreamsChannelCapacity ELSE 0
Taken == IF updates_rx < Oldest THEN Oldest + 1 ELSE updates_rx + 1

ReceiveUpdate ==
  /\ pc = "select"
  /\ updates_rx < sent
  /\ \/ /\ Lagged
        /\ updates_rx' = Oldest
        /\ Break(<<Reply("close", 0)>>)
     \/ /\ ~Lagged
        /\ updates_rx' = Taken
        /\ Continue(IF filter = 0 THEN <<>> ELSE <<Update(filter, Taken)>>)
  /\ UNCHANGED <<sent, received, filter, since>>

-----------------------------------------------------------------------------
\* After the loop: feed the Close frame, if any, and flush.
FeedClose ==
  /\ pc = "closing"
  /\ close # <<>> /\ Room
  /\ sink' = sink \o close
  /\ close' = <<>>
  /\ UNCHANGED <<sent, updates_rx, received, filter, since, websocket_tx_message,
                 wire, flush_required, pc>>

\* The last flush is over, or failed: an unwritten rest is lost.
Finish ==
  /\ pc = "closing" /\ close = <<>>
  /\ pc' = "closed"
  /\ sink' = <<>>
  /\ UNCHANGED <<sent, updates_rx, received, filter, since, websocket_tx_message,
                 wire, flush_required, close>>

Next ==
  \/ Broadcast
  \/ Feed \/ SocketWrites
  \/ FlushDone \/ SocketFails
  \/ Subscribe \/ SubscribeRefused \/ PingOrPong \/ BadMessage
  \/ ReceiveUpdate
  \/ FeedClose \/ Finish

Spec == Init /\ [][Next]_vars

\* The task is scheduled and the client's socket goes on taking bytes.
FairSpec ==
  /\ Spec
  /\ WF_vars(Feed) /\ WF_vars(SocketWrites) /\ WF_vars(FlushDone)
  /\ WF_vars(ReceiveUpdate) /\ WF_vars(FeedClose) /\ WF_vars(Finish)

-----------------------------------------------------------------------------
Queued == wire \o sink \o websocket_tx_message

UpdatesUpTo(i) == {j \in 1 .. i : Queued[j].type = "update"}

(***************************************************************************)
(* A subscriber misses nothing: the updates on their way to it are the     *)
(* ones broadcast since it subscribed, in order and without a gap, up to   *)
(* the last one taken, however feeds, flushes, pings and new filters       *)
(* interleave.  When one is lost the connection is closing.                *)
(***************************************************************************)
NoGap ==
  /\ \A i \in UpdatesUpTo(Len(Queued)) :
       Queued[i].n = since + Cardinality(UpdatesUpTo(i))
  /\ pc \in {"feed", "select"} /\ filter # 0 =>
       Cardinality(UpdatesUpTo(Len(Queued))) = updates_rx - since

(***************************************************************************)
(* Updates carry the id of the last subscription confirmed before them:    *)
(* once "subscribed" is read, nothing filtered the old way follows.        *)
(***************************************************************************)
FilterInForce ==
  \A i \in DOMAIN Queued : Queued[i].type = "update" =>
    \E j \in 1 .. i - 1 :
      /\ Queued[j] = Reply("subscribed", Queued[i].id)
      /\ \A k \in j + 1 .. i - 1 : Queued[k].type # "subscribed"

(***************************************************************************)
(* What was fed is flushed: an update broadcast to a subscriber reaches    *)
(* the socket or the connection is closed.                                 *)
(***************************************************************************)
EventuallyWritten ==
  \A n \in 1 .. MaxUpdates :
    filter # 0 /\ since < n /\ n <= sent ~>
      \/ \E i \in DOMAIN wire : wire[i].type = "update" /\ wire[i].n = n
      \/ pc = "closed"
=============================================================================

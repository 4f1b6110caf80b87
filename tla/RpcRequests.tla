---------------------------- MODULE RpcRequests ----------------------------
(***************************************************************************)
(* A JSON-RPC request on its way through the backend: SolanaRpc::on_request *)
(* (rpc_solana.rs:112-422) in the task of its connection, the bounded      *)
(* queue to the update loop, the update loop (577-740) that answers from   *)
(* its state, and the oneshot channel back.                                *)
(*                                                                         *)
(* What an answer says is BlockhashRequests' business; here an answer is   *)
(* the position of the call it belongs to.                                 *)
(***************************************************************************)
EXTENDS JsonRpcCalls

CONSTANTS
  Client,           \* requests in flight, one per connection task
  Bodies,           \* bound: the bodies they may send, with their endpoint
  RequestCallsMax,  \* request_calls_max of config-be.yml
  RequestQueueMax,  \* request_queue_max of config-be.yml
  MaxUpdates        \* bound: geyser messages pushed in a behaviour

NoBody == [path |-> "solana", calls |-> <<>>]
RpcBodies == {b \in Bodies \cup {NoBody} : Route(b.path, FALSE).type = "Rpc"}

ASSUME RequestsAssumption ==
  /\ \A b \in Bodies : b.calls \in Seq(Calls)
  /\ {RequestCallsMax, RequestQueueMax} \subseteq Nat \ {0}
  /\ MaxUpdates \in Nat

VARIABLES
  geyser_rx,    \* messages in the unbounded queue to the update loop
  pushed,       \* how many were pushed so far
  stop_queued,  \* None is in the queue, behind them
  loop,         \* the select! of the update loop, or "stopped"
  requests_rx,  \* the requests in the bounded queue, by client
  status,       \* how far a client's request is, or how it ended
  body,         \* a client's body: its calls and the path they were sent to
  shutdown,     \* the AtomicBool shared with the queued request
  oneshot,      \* the response channel: [state, outputs]
  response      \* what the client is sent: its outputs, in order

loopVars == <<geyser_rx, pushed, stop_queued, loop>>
clientVars == <<status, body, shutdown, response>>
rpcVars == <<loopVars, requests_rx, clientVars, oneshot>>

Failed == {"not found", "bad body", "too many calls", "queue is full", "loop is closed",
           "request timeout", "connection closed", "request dropped", "bad outputs",
           "cancelled"}

Empty == [state |-> "empty", outputs |-> <<>>]
Dropped == [state |-> "dropped", outputs |-> <<>>]
Sent(outputs) == [state |-> "sent", outputs |-> outputs]

RpcTypeOK ==
  /\ geyser_rx \in 0 .. MaxUpdates /\ pushed \in 0 .. MaxUpdates
  /\ stop_queued \in BOOLEAN
  /\ loop \in {"geyser", "requests", "stopped"}
  /\ requests_rx \in Seq(Client) /\ Len(requests_rx) <= RequestQueueMax
  /\ status \in [Client -> {"idle", "reading", "waiting", "answered"} \cup Failed]
  /\ body \in [Client -> Bodies \cup {NoBody}]
  /\ shutdown \in [Client -> BOOLEAN]
  /\ \A c \in Client : /\ oneshot[c].state \in {"empty", "sent", "dropped"}
                       /\ oneshot[c].outputs \in Seq(Nat)
                       /\ response[c] \in Seq(Nat)

RpcInit ==
  /\ geyser_rx = 0
  /\ pushed = 0
  /\ stop_queued = FALSE
  /\ loop = "geyser"
  /\ requests_rx = <<>>
  /\ status = [c \in Client |-> "idle"]
  /\ body = [c \in Client |-> NoBody]
  /\ shutdown = [c \in Client |-> FALSE]
  /\ oneshot = [c \in Client |-> Empty]
  /\ response = [c \in Client |-> <<>>]

-----------------------------------------------------------------------------
\* on_request, up to the select!.

ModeOf(b) == Route(b.path, FALSE).mode

\* outputs: Some for a call answered at once, None (0) for a queued one.
Outputs == [b \in RpcBodies |->
  [i \in DOMAIN b.calls |-> IF IsQueued(ModeOf(b), b.calls[i]) THEN 0 ELSE i]]

\* The how manyeth of a set of positions i is.
Rank(positions, i) == Cardinality({j \in positions : j <= i})

\* requests: the positions of the queued calls, in order.
Requests == [b \in RpcBodies |->
  LET queued == {i \in DOMAIN b.calls : IsQueued(ModeOf(b), b.calls[i])}
  IN  [k \in 1 .. Cardinality(queued) |-> CHOOSE i \in queued : Rank(queued, i) = k]]

End(c, how) == status' = [status EXCEPT ![c] = how]

\* Mutant: an unbounded channel.
TrySendUnbounded(c) ==
  \/ /\ loop = "stopped"
     /\ End(c, "loop is closed")
     /\ UNCHANGED requests_rx
  \/ /\ loop # "stopped"
     /\ End(c, "waiting")
     /\ requests_rx' = Append(requests_rx, c)

TrySend(c) ==
  \/ /\ loop = "stopped"
     /\ End(c, "loop is closed")
     /\ UNCHANGED requests_rx
  \/ /\ loop # "stopped" /\ Len(requests_rx) = RequestQueueMax
     /\ End(c, "queue is full")
     /\ UNCHANGED requests_rx
  \/ /\ loop # "stopped" /\ Len(requests_rx) < RequestQueueMax
     /\ End(c, "waiting")
     /\ requests_rx' = Append(requests_rx, c)

\* A connection has begun to send a body; there is no limit on how long.
Connect(c) ==
  /\ status[c] = "idle"
  /\ End(c, "reading")
  /\ UNCHANGED <<loopVars, requests_rx, body, shutdown, response, oneshot>>

\* Request and body are there.  The service answers 404 without reading it.
Request(c, b) ==
  /\ status[c] = "reading"
  /\ \/ /\ Route(b.path, FALSE).type = "NotFound"
        /\ End(c, "not found")
        /\ UNCHANGED <<requests_rx, body, response>>
     \/ /\ b \in RpcBodies /\ Len(b.calls) > RequestCallsMax
        /\ End(c, "too many calls")
        /\ UNCHANGED <<requests_rx, body, response>>
     \/ /\ b \in RpcBodies /\ Len(b.calls) <= RequestCallsMax
        /\ body' = [body EXCEPT ![c] = b]
        /\ \/ /\ Requests[b] = <<>>
              /\ End(c, "answered")
              /\ response' = [response EXCEPT ![c] = Outputs[b]]
              /\ UNCHANGED requests_rx
           \/ /\ Requests[b] # <<>>
              /\ TrySend(c)
              /\ UNCHANGED response
  /\ UNCHANGED <<loopVars, shutdown, oneshot>>

\* A body over the limit of the server, cut short, or not JSON-RPC.
BadBody(c) ==
  /\ status[c] = "reading"
  /\ End(c, "bad body")
  /\ UNCHANGED <<loopVars, requests_rx, body, shutdown, response, oneshot>>

-----------------------------------------------------------------------------
\* The select! of on_request: whichever branch is ready may win.

\* Mutant: the k-th output goes to position k.
FillByPosition(outputs, answers) ==
  [i \in DOMAIN outputs |-> IF i \in DOMAIN answers THEN answers[i] ELSE outputs[i]]

\* Each answer goes to the first position that is still None: the k-th answer
\* to the k-th None.
Fill(outputs, answers) ==
  LET None == {i \in DOMAIN outputs : outputs[i] = 0}
  IN  [i \in DOMAIN outputs |->
         IF i \in None /\ Rank(None, i) \in DOMAIN answers THEN answers[Rank(None, i)]
                                                          ELSE outputs[i]]

ReceiveOutputs(c) ==
  /\ status[c] = "waiting"
  /\ oneshot[c].state = "sent"
  /\ IF Len(oneshot[c].outputs) <= Len(Requests[body[c]])
     THEN response' = [response EXCEPT ![c] = Fill(Outputs[body[c]], oneshot[c].outputs)]
     ELSE UNCHANGED response
  /\ End(c, IF Len(oneshot[c].outputs) = Len(Requests[body[c]]) THEN "answered"
                                                                 ELSE "bad outputs")
  /\ UNCHANGED <<loopVars, requests_rx, body, shutdown, oneshot>>

ReceiveDropped(c) ==
  /\ status[c] = "waiting"
  /\ oneshot[c].state = "dropped"
  /\ End(c, "request dropped")
  /\ UNCHANGED <<loopVars, requests_rx, body, shutdown, response, oneshot>>

\* The two branches that give up tell the update loop so.
GiveUp(c, how) ==
  /\ status[c] = "waiting"
  /\ End(c, how)
  /\ shutdown' = [shutdown EXCEPT ![c] = TRUE]
  /\ UNCHANGED <<loopVars, requests_rx, body, response, oneshot>>

Timeout(c) == GiveUp(c, "request timeout")

ConnectionClosed(c) == GiveUp(c, "connection closed")

\* hyper drops the whole future with its HTTP/1 connection: no flag is set.
Cancel(c) ==
  /\ status[c] \in {"reading", "waiting"}
  /\ End(c, "cancelled")
  /\ UNCHANGED <<loopVars, requests_rx, body, shutdown, response, oneshot>>

-----------------------------------------------------------------------------
\* The update loop.  The select! is biased: requests are polled only after
\* geyser_rx was found empty, which it may no longer be by then.

ApplyUpdate ==
  /\ loop = "geyser"
  /\ geyser_rx > 0
  /\ geyser_rx' = geyser_rx - 1
  /\ UNCHANGED <<pushed, stop_queued, loop, requests_rx, clientVars, oneshot>>

GeyserPending ==
  /\ loop = "geyser"
  /\ geyser_rx = 0 /\ ~stop_queued
  /\ loop' = "requests"
  /\ UNCHANGED <<geyser_rx, pushed, stop_queued, requests_rx, clientVars, oneshot>>

\* Mutant: the queued requests outlive the loop.
ReleasedNever == oneshot

\* The receiver is dropped with everything in it.
Released ==
  [c \in Client |-> IF c \in ToSet(requests_rx) THEN Dropped ELSE oneshot[c]]

ExitLoop ==
  /\ loop = "geyser"
  /\ geyser_rx = 0 /\ stop_queued
  /\ loop' = "stopped"
  /\ stop_queued' = FALSE
  /\ requests_rx' = <<>>
  /\ oneshot' = Released
  /\ UNCHANGED <<geyser_rx, pushed, clientVars>>

RequestsPending ==
  /\ loop = "requests"
  /\ requests_rx = <<>>
  /\ loop' = "geyser"
  /\ UNCHANGED <<geyser_rx, pushed, stop_queued, requests_rx, clientVars, oneshot>>

\* Mutant: any request may be taken for abandoned.
AbandonedAnyway(c) == TRUE

Abandoned(c) == shutdown[c]

\* The flag is read Relaxed: an abandoned request may still be answered.
TakeRequest ==
  /\ loop = "requests"
  /\ requests_rx # <<>>
  /\ requests_rx' = Tail(requests_rx)
  /\ LET c == Head(requests_rx)
     IN  \/ /\ Abandoned(c)
            /\ oneshot' = [oneshot EXCEPT ![c] = Dropped]
         \/ oneshot' = [oneshot EXCEPT ![c] = Sent(Requests[body[c]])]
  /\ loop' = "geyser"
  /\ UNCHANGED <<geyser_rx, pushed, stop_queued, clientVars>>

Loop == ApplyUpdate \/ GeyserPending \/ ExitLoop \/ RequestsPending \/ TakeRequest

-----------------------------------------------------------------------------
\* push_geyser_message and shutdown: sends into the unbounded queue.
PushGeyserMessage ==
  /\ loop # "stopped" /\ ~stop_queued
  /\ pushed < MaxUpdates
  /\ geyser_rx' = geyser_rx + 1
  /\ pushed' = pushed + 1
  /\ UNCHANGED <<stop_queued, loop, requests_rx, clientVars, oneshot>>

QueueStop ==
  /\ loop # "stopped" /\ ~stop_queued
  /\ stop_queued' = TRUE
  /\ UNCHANGED <<geyser_rx, pushed, loop, requests_rx, clientVars, oneshot>>

Receive(c) == ReceiveOutputs(c) \/ ReceiveDropped(c)

RpcNext ==
  \/ \E c \in Client :
       \/ Connect(c)
       \/ \E b \in Bodies : Request(c, b)
       \/ BadBody(c)
       \/ Receive(c)
       \/ Timeout(c)
       \/ ConnectionClosed(c)
       \/ Cancel(c)
  \/ Loop
  \/ PushGeyserMessage
  \/ QueueStop

RpcSpec == RpcInit /\ [][RpcNext]_rpcVars

-----------------------------------------------------------------------------
(***************************************************************************)
(* A batch is answered whole: every call of the body has the output that   *)
(* belongs to it at its own position, local and queued calls interleaved   *)
(* as they may be (rpc_solana.rs:387-395).                                 *)
(***************************************************************************)
EveryCallAnswered ==
  \A c \in Client : status[c] = "answered" =>
    response[c] = [i \in DOMAIN body[c].calls |-> i]

(***************************************************************************)
(* "request dropped" and "bad outputs" never reach a client that waits for *)
(* a running update loop: the loop only skips requests whose client has    *)
(* left (rpc_solana.rs:628).                                               *)
(***************************************************************************)
DroppedOnlyByShutdown ==
  \A c \in Client :
    /\ status[c] = "request dropped" => loop = "stopped"
    /\ status[c] # "bad outputs"

(***************************************************************************)
(* A waiting client is never forgotten: its request is queued, or there is *)
(* something for it in the response channel.                               *)
(***************************************************************************)
WaitersAreServed ==
  \A c \in Client : status[c] = "waiting" =>
    c \in ToSet(requests_rx) <=> oneshot[c].state = "empty"
=============================================================================

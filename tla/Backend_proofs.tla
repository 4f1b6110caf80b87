--------------------------- MODULE Backend_proofs ---------------------------
(***************************************************************************)
(* For any number of clients, bodies and updates and any length of queue:  *)
(* a waiting client has a request queued or something to receive, an       *)
(* answer is the whole answer to its own calls, only a loop that has       *)
(* stopped drops requests, and main leaves no client behind.               *)
(***************************************************************************)
EXTENDS Backend, SequenceTheorems, FiniteSetTheorems, TLAPS

-----------------------------------------------------------------------------
LEMMA HeadAndTail ==
  ASSUME NEW S, NEW seq \in Seq(S), seq # <<>>,
         \A i, j \in DOMAIN seq : seq[i] = seq[j] => i = j
  PROVE  /\ Head(seq) \in S /\ Tail(seq) \in Seq(S) /\ Len(Tail(seq)) <= Len(seq)
         /\ ToSet(seq) = {Head(seq)} \cup ToSet(Tail(seq))
         /\ Head(seq) \notin ToSet(Tail(seq))
         /\ \A i, j \in DOMAIN Tail(seq) : Tail(seq)[i] = Tail(seq)[j] => i = j
<1> DEFINE t == Tail(seq)
<1>1. Len(seq) \in Nat \ {0} /\ DOMAIN seq = 1 .. Len(seq) /\ Head(seq) = seq[1]
  BY EmptySeq, LenProperties
<1>2. /\ Head(seq) \in S /\ t \in Seq(S) /\ Len(t) = Len(seq) - 1
      /\ \A i \in 1 .. Len(t) : t[i] = seq[i + 1]
  BY HeadTailProperties
<1>3. DOMAIN t = 1 .. Len(seq) - 1 /\ \A i \in 1 .. Len(seq) - 1 : t[i] = seq[i + 1]
  BY <1>2, LenProperties
<1> HIDE DEF t
<1>4. \A i \in DOMAIN t : i + 1 \in DOMAIN seq /\ i + 1 # 1 /\ t[i] = seq[i + 1]
  BY <1>1, <1>3
<1>5. \A i \in DOMAIN seq : i = 1 \/ (i - 1 \in DOMAIN t /\ t[i - 1] = seq[i])
  <2> SUFFICES ASSUME NEW i \in 1 .. Len(seq), i # 1
               PROVE  i - 1 \in DOMAIN t /\ t[i - 1] = seq[i]
    BY <1>1
  <2>1. i - 1 \in 1 .. Len(seq) - 1 /\ (i - 1) + 1 = i
    BY <1>1
  <2>2. QED
    BY <1>3, <2>1
<1>6. 1 \in DOMAIN seq
  BY <1>1
<1>7. ToSet(seq) = {seq[1]} \cup ToSet(t)
  BY <1>4, <1>5, <1>6 DEF ToSet
<1>8. seq[1] \notin ToSet(t)
  BY <1>4, <1>6 DEF ToSet
<1>9. \A i, j \in DOMAIN t : t[i] = t[j] => i = j
  <2> SUFFICES ASSUME NEW i \in DOMAIN t, NEW j \in DOMAIN t, t[i] = t[j]
               PROVE  i = j
    OBVIOUS
  <2>1. i + 1 = j + 1
    BY <1>4
  <2>2. QED
    BY <1>1, <1>3, <2>1
<1>10. QED
  BY <1>1, <1>2, <1>7, <1>8, <1>9 DEF t

LEMMA AppendNew ==
  ASSUME NEW S, NEW seq \in Seq(S), NEW c \in S, c \notin ToSet(seq),
         \A i, j \in DOMAIN seq : seq[i] = seq[j] => i = j
  PROVE  /\ Append(seq, c) \in Seq(S) /\ Len(Append(seq, c)) = Len(seq) + 1
         /\ ToSet(Append(seq, c)) = ToSet(seq) \cup {c}
         /\ \A i, j \in DOMAIN Append(seq, c) : Append(seq, c)[i] = Append(seq, c)[j] => i = j
<1> DEFINE longer == Append(seq, c)
<1>1. Len(seq) \in Nat /\ DOMAIN seq = 1 .. Len(seq)
  BY LenProperties
<1>2. /\ longer \in Seq(S) /\ Len(longer) = Len(seq) + 1
      /\ \A i \in 1 .. Len(seq) : longer[i] = seq[i]
      /\ longer[Len(seq) + 1] = c
  BY <1>1
<1>3. DOMAIN longer = 1 .. Len(seq) + 1
  BY <1>2, LenProperties
<1> HIDE DEF longer
<1>4. \A i \in DOMAIN longer : i \in DOMAIN seq \/ i = Len(seq) + 1
  BY <1>1, <1>3
<1>5. DOMAIN seq \subseteq DOMAIN longer /\ Len(seq) + 1 \in DOMAIN longer
  BY <1>1, <1>3
<1>6. ToSet(longer) = ToSet(seq) \cup {c}
  BY <1>1, <1>2, <1>4, <1>5 DEF ToSet
<1>7. \A i, j \in DOMAIN longer : longer[i] = longer[j] => i = j
  BY <1>1, <1>2, <1>4 DEF ToSet
<1>8. QED
  BY <1>2, <1>6, <1>7 DEF longer

-----------------------------------------------------------------------------
(***************************************************************************)
(* The inductive invariant of the requests.  A request is queued once and  *)
(* before anything is said to it; what is said is the whole answer to its  *)
(* own body, or that it was dropped; and nobody drops a request but a loop *)
(* that stops or that has seen the flag of a client that gave up.          *)
(***************************************************************************)
StatusTypes ==
  /\ status \in [Client -> {"idle", "reading", "waiting", "answered"} \cup Failed]
  /\ shutdown \in [Client -> BOOLEAN]
  /\ DOMAIN body = Client
  /\ DOMAIN oneshot = Client

QueueOnce ==
  /\ requests_rx \in Seq(Client)
  /\ Len(requests_rx) <= RequestQueueMax
  /\ \A i, j \in DOMAIN requests_rx : requests_rx[i] = requests_rx[j] => i = j

QueuedUnanswered == \A c \in ToSet(requests_rx) : oneshot[c] = Empty

Untouched ==
  \A c \in Client : status[c] \in {"idle", "reading"} =>
    c \notin ToSet(requests_rx) /\ oneshot[c] = Empty /\ ~shutdown[c]

WholeAnswers ==
  \A c \in Client : oneshot[c] \in {Empty, Dropped, Sent(Requests[body[c]])}

FlagOfLeavers == \A c \in Client : shutdown[c] => status[c] # "waiting"

DropsExplained == \A c \in Client : oneshot[c] = Dropped => loop = "stopped" \/ shutdown[c]

RequestsInv ==
  /\ StatusTypes
  /\ QueueOnce
  /\ QueuedUnanswered
  /\ Untouched
  /\ WholeAnswers
  /\ FlagOfLeavers
  /\ DropsExplained
  /\ DroppedOnlyByShutdown
  /\ WaitersAreServed

LEMMA StatesDiffer ==
  /\ Empty.state = "empty" /\ Dropped.state = "dropped"
  /\ \A o : Sent(o).state = "sent" /\ Sent(o).outputs = o /\ Sent(o) # Empty /\ Sent(o) # Dropped
  /\ Empty # Dropped
<1>1. Empty.state = "empty" /\ Dropped.state = "dropped" /\ \A o : Sent(o).state = "sent"
  BY DEF Empty, Dropped, Sent
<1>2. \A o : Sent(o).outputs = o
  BY DEF Sent
<1>3. QED
  BY <1>1, <1>2

LEMMA RequestsInit == RpcInit => RequestsInv
<1> SUFFICES ASSUME RpcInit PROVE RequestsInv
  OBVIOUS
<1>1. StatusTypes
  BY DEF RpcInit, StatusTypes
<1>2. requests_rx = <<>> /\ ToSet(requests_rx) = {} /\ QueueOnce
  BY RequestsAssumption, EmptySeq DEF RpcInit, QueueOnce, ToSet
<1>3. QED
  BY <1>1, <1>2, StatesDiffer
  DEF RpcInit, RequestsInv, QueuedUnanswered, Untouched, WholeAnswers, FlagOfLeavers,
      DropsExplained, DroppedOnlyByShutdown, WaitersAreServed

\* A client's status changes, and neither the queue nor the channel: it ends,
\* or it begins to read.
LEMMA StatusStep ==
  ASSUME RequestsInv, NEW c \in Client,
         NEW how \in {"reading", "answered"} \cup Failed,
         End(c, how),
         how = "reading" => status[c] = "idle",
         how = "request dropped" => loop = "stopped",
         how # "bad outputs",
         UNCHANGED <<loop, requests_rx, body, oneshot>>,
         \/ UNCHANGED shutdown
         \/ shutdown' = [shutdown EXCEPT ![c] = TRUE] /\ how \in Failed
  PROVE  RequestsInv'
<1>1. "reading" \notin Failed /\ "waiting" \notin Failed /\ "idle" \notin Failed
  BY DEF Failed
<1>2. /\ status' \in [Client -> {"idle", "reading", "waiting", "answered"} \cup Failed]
      /\ \A d \in Client : status'[d] = IF d = c THEN how ELSE status[d]
  BY DEF End, RequestsInv, StatusTypes
<1>3. /\ shutdown' \in [Client -> BOOLEAN]
      /\ \A d \in Client : shutdown'[d] = shutdown[d] \/ (d = c /\ shutdown'[c] /\ how \in Failed)
      /\ \A d \in Client : shutdown[d] => shutdown'[d]
  BY DEF RequestsInv, StatusTypes
<1>4. StatusTypes' /\ QueueOnce' /\ QueuedUnanswered' /\ WholeAnswers'
  BY <1>2, <1>3 DEF RequestsInv, StatusTypes, QueueOnce, QueuedUnanswered, WholeAnswers
<1>5. Untouched'
  BY <1>1, <1>2, <1>3 DEF RequestsInv, Untouched
<1>6. FlagOfLeavers'
  BY <1>1, <1>2, <1>3 DEF RequestsInv, FlagOfLeavers
<1>7. DropsExplained'
  BY <1>3 DEF RequestsInv, DropsExplained
<1>8. DroppedOnlyByShutdown'
  BY <1>2 DEF RequestsInv, DroppedOnlyByShutdown
<1>9. WaitersAreServed'
  BY <1>1, <1>2 DEF RequestsInv, WaitersAreServed
<1>10. QED
  BY <1>4, <1>5, <1>6, <1>7, <1>8, <1>9 DEF RequestsInv

LEMMA RequestStep ==
  ASSUME RequestsInv, NEW c \in Client, NEW b \in Bodies, Request(c, b)
  PROVE  RequestsInv'
<1>1. status[c] = "reading" /\ UNCHANGED <<loopVars, shutdown, oneshot>>
  BY DEF Request
<1>2. c \notin ToSet(requests_rx) /\ oneshot[c] = Empty /\ ~shutdown[c]
  BY <1>1 DEF RequestsInv, Untouched
<1>3. loop' = loop
  BY <1>1 DEF loopVars
<1>4. /\ DOMAIN body' = Client
      /\ \A d \in Client : d # c => body'[d] = body[d]
  BY DEF Request, RequestsInv, StatusTypes
<1>5. WholeAnswers'
  BY <1>1, <1>2, <1>4 DEF RequestsInv, WholeAnswers
<1>6. CASE /\ UNCHANGED requests_rx
           /\ \E how \in {"answered"} \cup Failed :
                End(c, how) /\ how # "request dropped" /\ how # "bad outputs"
  <2>1. PICK how \in {"answered"} \cup Failed :
          End(c, how) /\ how # "request dropped" /\ how # "bad outputs"
    BY <1>6
  <2>2. how \notin {"idle", "reading", "waiting"}
    BY DEF Failed
  <2>3. /\ status' \in [Client -> {"idle", "reading", "waiting", "answered"} \cup Failed]
        /\ \A d \in Client : status'[d] = IF d = c THEN how ELSE status[d]
    BY <2>1 DEF End, RequestsInv, StatusTypes
  <2>4. StatusTypes' /\ QueueOnce' /\ QueuedUnanswered'
    BY <1>1, <1>4, <1>6, <2>3 DEF RequestsInv, StatusTypes, QueueOnce, QueuedUnanswered
  <2>5. Untouched' /\ FlagOfLeavers' /\ DropsExplained'
    BY <1>1, <1>2, <1>3, <1>6, <2>2, <2>3 DEF RequestsInv, Untouched, FlagOfLeavers, DropsExplained
  <2>6. DroppedOnlyByShutdown' /\ WaitersAreServed'
    BY <1>1, <1>3, <1>6, <2>1, <2>2, <2>3 DEF RequestsInv, DroppedOnlyByShutdown, WaitersAreServed
  <2>7. QED
    BY <1>5, <2>4, <2>5, <2>6 DEF RequestsInv
<1>7. CASE /\ Len(requests_rx) < RequestQueueMax
           /\ End(c, "waiting")
           /\ requests_rx' = Append(requests_rx, c)
  <2>1. /\ requests_rx' \in Seq(Client) /\ Len(requests_rx') = Len(requests_rx) + 1
        /\ ToSet(requests_rx') = ToSet(requests_rx) \cup {c}
        /\ \A i, j \in DOMAIN requests_rx' : requests_rx'[i] = requests_rx'[j] => i = j
    <3>1. requests_rx \in Seq(Client)
          /\ \A i, j \in DOMAIN requests_rx : requests_rx[i] = requests_rx[j] => i = j
      BY DEF RequestsInv, QueueOnce
    <3>2. QED
      BY <1>2, <1>7, <3>1, AppendNew
  <2>2. QueueOnce'
    <3>1. Len(requests_rx) \in Nat /\ RequestQueueMax \in Nat
      BY RequestsAssumption, LenProperties DEF RequestsInv, QueueOnce
    <3>2. QED
      BY <1>7, <2>1, <3>1 DEF QueueOnce
  <2>3. /\ status' \in [Client -> {"idle", "reading", "waiting", "answered"} \cup Failed]
        /\ \A d \in Client : status'[d] = IF d = c THEN "waiting" ELSE status[d]
    BY <1>7 DEF End, RequestsInv, StatusTypes
  <2>4. StatusTypes' /\ QueuedUnanswered'
    BY <1>1, <1>2, <1>4, <2>1, <2>3 DEF RequestsInv, StatusTypes, QueuedUnanswered
  <2>5. Untouched' /\ FlagOfLeavers' /\ DropsExplained'
    BY <1>1, <1>2, <1>3, <2>1, <2>3 DEF RequestsInv, Untouched, FlagOfLeavers, DropsExplained
  <2>6. DroppedOnlyByShutdown'
    BY <1>3, <2>3 DEF RequestsInv, DroppedOnlyByShutdown
  <2>7. WaitersAreServed'
    BY <1>1, <1>2, <2>1, <2>3, StatesDiffer DEF RequestsInv, WaitersAreServed
  <2>8. QED
    BY <1>5, <2>2, <2>4, <2>5, <2>6, <2>7 DEF RequestsInv
<1>8. QED
  BY <1>6, <1>7 DEF Request, TrySend, Failed

\* What is received is the whole answer, so its length is right.
LEMMA ReceiveStep ==
  ASSUME RequestsInv, NEW c \in Client, Receive(c)
  PROVE  RequestsInv'
<1>1. CASE ReceiveOutputs(c)
  <2>1. oneshot[c].outputs = Requests[body[c]]
    BY <1>1, StatesDiffer DEF ReceiveOutputs, RequestsInv, WholeAnswers
  <2>2. End(c, "answered") /\ UNCHANGED <<loop, requests_rx, body, oneshot, shutdown>>
    BY <1>1, <2>1 DEF ReceiveOutputs, loopVars
  <2>3. QED
    BY <2>2, StatusStep
<1>2. CASE ReceiveDropped(c)
  <2>1. oneshot[c] = Dropped /\ status[c] = "waiting"
    BY <1>2, StatesDiffer DEF ReceiveDropped, RequestsInv, WholeAnswers
  <2>2. loop = "stopped"
    BY <2>1 DEF RequestsInv, DropsExplained, FlagOfLeavers
  <2>3. End(c, "request dropped") /\ UNCHANGED <<loop, requests_rx, body, oneshot, shutdown>>
    BY <1>2 DEF ReceiveDropped, loopVars
  <2>4. QED
    BY <2>2, <2>3, StatusStep DEF Failed
<1>3. QED
  BY <1>1, <1>2 DEF Receive

\* The channels of some clients in the queue are told something at last, the
\* rest of the queue stays.
LEMMA LoopStep ==
  ASSUME RequestsInv, Loop
  PROVE  RequestsInv'
<1>1. UNCHANGED clientVars
  BY DEF Loop, ApplyUpdate, GeyserPending, ExitLoop, RequestsPending, TakeRequest
<1>2. UNCHANGED <<status, body, shutdown>>
  BY <1>1 DEF clientVars
<1>3. CASE UNCHANGED <<requests_rx, oneshot>> /\ loop # "stopped"
  BY <1>2, <1>3 DEF RequestsInv, StatusTypes, QueueOnce, QueuedUnanswered, Untouched, WholeAnswers,
                    FlagOfLeavers, DropsExplained, DroppedOnlyByShutdown, WaitersAreServed
<1>4. CASE ExitLoop
  <2>1. requests_rx' = <<>> /\ ToSet(requests_rx') = {} /\ loop' = "stopped"
    BY <1>4 DEF ExitLoop, ToSet
  <2>2. /\ DOMAIN oneshot' = Client
        /\ \A c \in Client :
             oneshot'[c] = IF c \in ToSet(requests_rx) THEN Dropped ELSE oneshot[c]
    BY <1>4 DEF ExitLoop, Released
  <2>3. StatusTypes' /\ QueueOnce' /\ QueuedUnanswered'
    BY <1>2, <2>1, <2>2, RequestsAssumption, EmptySeq
    DEF RequestsInv, StatusTypes, QueueOnce, QueuedUnanswered
  <2>4. Untouched' /\ WholeAnswers' /\ FlagOfLeavers' /\ DropsExplained'
    BY <1>2, <2>1, <2>2 DEF RequestsInv, Untouched, WholeAnswers, FlagOfLeavers, DropsExplained
  <2>5. DroppedOnlyByShutdown'
    BY <1>2, <2>1 DEF RequestsInv, DroppedOnlyByShutdown
  <2>6. WaitersAreServed'
    BY <1>2, <2>1, <2>2, StatesDiffer DEF RequestsInv, WaitersAreServed
  <2>7. QED
    BY <2>3, <2>4, <2>5, <2>6 DEF RequestsInv
<1>5. CASE TakeRequest
  <2> DEFINE c == Head(requests_rx)
  <2>1. requests_rx' = Tail(requests_rx) /\ requests_rx # <<>> /\ loop' # "stopped" /\ loop # "stopped"
    BY <1>5 DEF TakeRequest
  <2>2. /\ c \in Client /\ requests_rx' \in Seq(Client) /\ Len(requests_rx') <= Len(requests_rx)
        /\ ToSet(requests_rx) = {c} \cup ToSet(requests_rx')
        /\ c \notin ToSet(requests_rx')
        /\ \A i, j \in DOMAIN requests_rx' : requests_rx'[i] = requests_rx'[j] => i = j
    BY <2>1, HeadAndTail DEF RequestsInv, QueueOnce
  <2>3. /\ DOMAIN oneshot' = Client
        /\ \A d \in Client : d # c => oneshot'[d] = oneshot[d]
        /\ \/ oneshot'[c] = Dropped /\ shutdown[c]
           \/ oneshot'[c] = Sent(Requests[body[c]])
    BY <1>5, <2>2 DEF TakeRequest, Abandoned, RequestsInv, StatusTypes
  <2> HIDE DEF c
  <2>4. oneshot[c] = Empty /\ status[c] \notin {"idle", "reading"}
    BY <2>2 DEF RequestsInv, QueuedUnanswered, Untouched
  <2>5. StatusTypes'
    BY <1>2, <2>3 DEF RequestsInv, StatusTypes
  <2>6. QueueOnce'
    <3>1. Len(requests_rx) \in Nat /\ Len(requests_rx') \in Nat /\ RequestQueueMax \in Nat
      BY <2>2, RequestsAssumption, LenProperties DEF RequestsInv, QueueOnce
    <3>2. QED
      BY <2>2, <3>1 DEF RequestsInv, QueueOnce
  <2>7. QueuedUnanswered'
    <3>1. ToSet(requests_rx') \subseteq Client
      BY <2>2, LenProperties, ElementOfSeq DEF ToSet
    <3>2. QED
      BY <2>2, <2>3, <3>1 DEF RequestsInv, QueuedUnanswered
  <2>8. Untouched' /\ WholeAnswers' /\ FlagOfLeavers'
    BY <1>2, <2>2, <2>3, <2>4 DEF RequestsInv, Untouched, WholeAnswers, FlagOfLeavers
  <2>9. DropsExplained'
    BY <1>2, <2>1, <2>3, StatesDiffer DEF RequestsInv, DropsExplained
  <2>10. DroppedOnlyByShutdown'
    BY <1>2, <2>1 DEF RequestsInv, DroppedOnlyByShutdown
  <2>11. WaitersAreServed'
    BY <1>2, <2>2, <2>3, StatesDiffer DEF RequestsInv, WaitersAreServed
  <2>12. QED
    BY <2>5, <2>6, <2>7, <2>8, <2>9, <2>10, <2>11 DEF RequestsInv
<1>6. QED
  BY <1>3, <1>4, <1>5 DEF Loop, ApplyUpdate, GeyserPending, RequestsPending

LEMMA RequestsNext == RequestsInv /\ [RpcNext]_rpcVars => RequestsInv'
<1> SUFFICES ASSUME RequestsInv, [RpcNext]_rpcVars PROVE RequestsInv'
  OBVIOUS
<1>1. ASSUME NEW c \in Client, Connect(c) PROVE RequestsInv'
  <2>1. /\ End(c, "reading") /\ status[c] = "idle"
        /\ UNCHANGED <<loop, requests_rx, body, oneshot, shutdown>>
    BY <1>1 DEF Connect, loopVars
  <2>2. QED
    BY <2>1, StatusStep
<1>2. ASSUME NEW c \in Client, NEW b \in Bodies, Request(c, b) PROVE RequestsInv'
  BY <1>2, RequestStep
<1>3. ASSUME NEW c \in Client, BadBody(c) PROVE RequestsInv'
  <2>1. End(c, "bad body") /\ UNCHANGED <<loop, requests_rx, body, oneshot, shutdown>>
    BY <1>3 DEF BadBody, loopVars
  <2>2. QED
    BY <2>1, StatusStep DEF Failed
<1>4. ASSUME NEW c \in Client, Receive(c) PROVE RequestsInv'
  BY <1>4, ReceiveStep
<1>5. ASSUME NEW c \in Client, NEW how \in {"request timeout", "connection closed"}, GiveUp(c, how)
      PROVE  RequestsInv'
  <2>1. /\ End(c, how) /\ shutdown' = [shutdown EXCEPT ![c] = TRUE] /\ how \in Failed
        /\ UNCHANGED <<loop, requests_rx, body, oneshot>>
    BY <1>5 DEF GiveUp, loopVars, Failed
  <2>2. QED
    BY <2>1, StatusStep
<1>6. ASSUME NEW c \in Client, Cancel(c) PROVE RequestsInv'
  <2>1. End(c, "cancelled") /\ UNCHANGED <<loop, requests_rx, body, oneshot, shutdown>>
    BY <1>6 DEF Cancel, loopVars
  <2>2. QED
    BY <2>1, StatusStep DEF Failed
<1>7. CASE Loop
  BY <1>7, LoopStep
<1>8. CASE PushGeyserMessage \/ QueueStop \/ UNCHANGED rpcVars
  <2>1. UNCHANGED <<loop, requests_rx, status, body, shutdown, oneshot>>
    BY <1>8 DEF PushGeyserMessage, QueueStop, rpcVars, loopVars, clientVars
  <2>2. QED
    BY <2>1 DEF RequestsInv, StatusTypes, QueueOnce, QueuedUnanswered, Untouched, WholeAnswers,
                FlagOfLeavers, DropsExplained, DroppedOnlyByShutdown, WaitersAreServed
<1>9. QED
  BY <1>1, <1>2, <1>3, <1>4, <1>5, <1>6, <1>7, <1>8 DEF RpcNext, Timeout, ConnectionClosed

-----------------------------------------------------------------------------
(***************************************************************************)
(* Under main and the servers a request is still what RpcRequests says:    *)
(* every step of the process is one of RpcRequests or leaves it alone.     *)
(***************************************************************************)
THEOREM BackendRefinesRequests == Spec => RpcSpec
<1>1. Init => RpcInit
  BY DEF Init
<1>2. [Next]_vars => [RpcNext]_rpcVars
  <2> SUFFICES ASSUME [Next]_vars PROVE [RpcNext]_rpcVars
    OBVIOUS
  <2>1. ForwardMessage => RpcNext
    BY DEF ForwardMessage, RpcNext
  <2>2. StopLoop => RpcNext
    BY DEF StopLoop, RpcNext
  <2>3. Break \/ Fail \/ StopAdmin \/ StopSolfees \/ Join \/ SecondSignal => UNCHANGED rpcVars
    BY DEF Break, Fail, StopAdmin, StopSolfees, Join, SecondSignal
  <2>4. (\E s \in Server : Notified(s) \/ GracefulShutdown(s)) => UNCHANGED rpcVars
    BY DEF Notified, GracefulShutdown
  <2>5. Rpc(Loop) => RpcNext
    BY DEF Rpc, RpcNext
  <2>6. ASSUME NEW c \in Client,
               \/ Accept(c) \/ SendBody(c) \/ Rpc(Receive(c)) \/ Rpc(Timeout(c))
               \/ Rpc(ConnectionClosed(c)) \/ Rpc(Cancel(c))
        PROVE  RpcNext
    BY <2>6 DEF Accept, SendBody, Rpc, RpcNext
  <2>7. UNCHANGED vars => UNCHANGED rpcVars
    BY DEF vars
  <2>8. QED
    BY <2>1, <2>2, <2>3, <2>4, <2>5, <2>6, <2>7 DEF Next, MainStep
<1>3. QED
  BY <1>1, <1>2, PTL DEF Spec, RpcSpec

\* The inductive invariant of the requests.
THEOREM RequestsInvariant == RpcSpec => []RequestsInv
  BY RequestsInit, RequestsNext, PTL DEF RpcSpec

(***************************************************************************)
(* A waiting client has a request in the queue or something to receive,    *)
(* never both, so it cannot wait for nothing (rpc_solana.rs:365-388).      *)
(***************************************************************************)
THEOREM NobodyWaitsForNothing == Spec => []WaitersAreServed
<1>1. RequestsInv => WaitersAreServed
  BY DEF RequestsInv
<1>2. QED
  BY <1>1, RequestsInvariant, BackendRefinesRequests, PTL

(***************************************************************************)
(* A request is dropped only by a loop that has stopped or whose client    *)
(* has left, and the outputs received have the right number                *)
(* (rpc_solana.rs:388-417, 628).                                           *)
(***************************************************************************)
THEOREM DropsAreShutdowns == Spec => []DroppedOnlyByShutdown
<1>1. RequestsInv => DroppedOnlyByShutdown
  BY DEF RequestsInv
<1>2. QED
  BY <1>1, RequestsInvariant, BackendRefinesRequests, PTL

-----------------------------------------------------------------------------
\* The ranks in a finite set of numbers tell its members apart.
LEMMA RanksDiffer ==
  ASSUME NEW S \in SUBSET Nat, IsFiniteSet(S), NEW i \in S
  PROVE  /\ Rank(S, i) \in 1 .. Cardinality(S)
         /\ \A j \in S : Rank(S, j) = Rank(S, i) => j = i
<1> DEFINE upto(j) == {k \in S : k <= j}
<1>1. \A j \in S : /\ IsFiniteSet(upto(j)) /\ Cardinality(upto(j)) \in Nat
                    /\ Cardinality(upto(j)) <= Cardinality(S)
  BY FS_Subset, FS_CardinalityType
<1>2. upto(i) # {}
  OBVIOUS
<1>3. Cardinality(upto(i)) # 0
  BY <1>1, <1>2, FS_EmptySet
<1>4. Cardinality(S) \in Nat
  BY FS_CardinalityType
<1>5. Rank(S, i) \in 1 .. Cardinality(S)
  BY <1>1, <1>3, <1>4 DEF Rank
<1>6. ASSUME NEW j \in S, NEW k \in S, j < k PROVE Cardinality(upto(j)) # Cardinality(upto(k))
  <2>1. \A m \in S : m \in Int
    OBVIOUS
  <2>2. \A m \in S : m <= j => m <= k
    BY <1>6, <2>1
  <2>3. upto(j) \in SUBSET upto(k)
    BY <2>2
  <2>4. k \in upto(k) /\ k \notin upto(j)
    BY <1>6, <2>1
  <2>5. QED
    BY <1>1, <2>3, <2>4, FS_Subset
<1>7. ASSUME NEW j \in S, Rank(S, j) = Rank(S, i) PROVE j = i
  BY <1>6, <1>7 DEF Rank
<1>8. QED
  BY <1>5, <1>7

LEMMA RanksCover ==
  ASSUME NEW S \in SUBSET Nat, IsFiniteSet(S)
  PROVE  \A k \in 1 .. Cardinality(S) : \E i \in S : Rank(S, i) = k
<1> DEFINE T == 1 .. Cardinality(S)
           rank == [i \in S |-> Rank(S, i)]
<1>1. Cardinality(S) \in Nat
  BY FS_CardinalityType
<1>2. IsFiniteSet(T) /\ Cardinality(T) = Cardinality(S)
  BY <1>1, FS_Interval
<1>3. rank \in [S -> T] /\ \A i, j \in S : rank[i] = rank[j] => i = j
  BY RanksDiffer
<1> HIDE DEF T, rank
<1>4. rank \in Injection(S, T)
  BY <1>3 DEF Injection, IsInjective
<1>5. rank \in Surjection(S, T)
  BY <1>2, <1>4, FS_Injection
<1>6. \A k \in T : \E i \in S : rank[i] = k
  BY <1>5 DEF Surjection
<1>7. QED
  BY <1>6 DEF T, rank

(***************************************************************************)
(* The answers to the queued calls of a body, put in for what is missing,  *)
(* give every call its own.                                                *)
(***************************************************************************)
InPlace(b) == [i \in DOMAIN b.calls |-> i]

LEMMA FillGivesEachItsOwn ==
  ASSUME NEW b \in RpcBodies
  PROVE  /\ Requests[b] \in Seq(Nat) /\ InPlace(b) \in Seq(Nat)
         /\ Fill(Outputs[b], Requests[b]) = InPlace(b)
         /\ Requests[b] = <<>> => Outputs[b] = InPlace(b)
<1> DEFINE queued == {i \in DOMAIN b.calls : IsQueued(ModeOf(b), b.calls[i])}
           n == Len(b.calls)
<1>1. b.calls \in Seq(Calls)
  <2>1. NoBody.calls = <<>> /\ <<>> \in Seq(Calls)
    BY EmptySeq DEF NoBody
  <2>2. b \in Bodies \/ b = NoBody
    BY DEF RpcBodies
  <2>3. \A r \in Bodies : r.calls \in Seq(Calls)
    BY RequestsAssumption
  <2>4. QED
    BY <2>1, <2>2, <2>3
<1>2. n \in Nat /\ DOMAIN b.calls = 1 .. n
  BY <1>1, LenProperties
<1>3. IsFiniteSet(queued) /\ Cardinality(queued) \in Nat /\ queued \in SUBSET Nat
  <2>1. queued \in SUBSET (1 .. n) /\ queued \in SUBSET Nat
    BY <1>2
  <2>2. IsFiniteSet(1 .. n)
    BY <1>2, FS_Interval
  <2>3. IsFiniteSet(queued)
    BY <2>1, <2>2, FS_Subset
  <2>4. QED
    BY <2>1, <2>3, FS_CardinalityType
<1>4. /\ Outputs[b] = [i \in DOMAIN b.calls |-> IF i \in queued THEN 0 ELSE i]
      /\ Requests[b] = [k \in 1 .. Cardinality(queued) |->
                          CHOOSE i \in queued : Rank(queued, i) = k]
  BY DEF Outputs, Requests
<1>5. InPlace(b) \in [1 .. n -> Nat] /\ InPlace(b) \in Seq(Nat)
  BY <1>2 DEF InPlace
<1> HIDE DEF queued, n
<1>6. \A k \in 1 .. Cardinality(queued) : \E i \in queued : Rank(queued, i) = k
  BY <1>3, RanksCover
<1>7. Requests[b] \in Seq(Nat)
  <2> DEFINE m == Cardinality(queued)
             kth(k) == CHOOSE i \in queued : Rank(queued, i) = k
  <2>1. \A k \in 1 .. m : kth(k) \in Nat
    <3> SUFFICES ASSUME NEW k \in 1 .. m PROVE kth(k) \in Nat
      OBVIOUS
    <3>1. \E i \in queued : Rank(queued, i) = k
      BY <1>6
    <3>2. kth(k) \in queued
      BY <3>1, Zenon
    <3>3. QED
      BY <1>3, <3>2
  <2>2. Requests[b] = [k \in 1 .. m |-> kth(k)]
    BY <1>4
  <2>3. m \in Nat
    BY <1>3
  <2> HIDE DEF m, kth
  <2>4. Requests[b] \in [1 .. m -> Nat]
    BY <2>1, <2>2
  <2>5. QED
    BY <2>3, <2>4
<1>8. ASSUME NEW i \in queued PROVE Rank(queued, i) \in DOMAIN Requests[b] /\ Requests[b][Rank(queued, i)] = i
  BY <1>3, <1>4, <1>8, RanksDiffer
<1>9. {i \in DOMAIN Outputs[b] : Outputs[b][i] = 0} = queued
  BY <1>2, <1>4 DEF queued
<1>10. Fill(Outputs[b], Requests[b]) = InPlace(b)
  BY <1>4, <1>8, <1>9 DEF Fill, InPlace
<1>11. Requests[b] = <<>> => Outputs[b] = InPlace(b)
  <2>1. Requests[b] = <<>> => queued = {}
    BY <1>3, <1>4, FS_EmptySet
  <2>2. QED
    BY <1>4, <2>1 DEF InPlace
<1>12. QED
  BY <1>5, <1>7, <1>10, <1>11

(***************************************************************************)
(* Numbers and answers: the counters of the loop, and what an answered     *)
(* client was sent.                                                        *)
(***************************************************************************)
AnswersInv ==
  /\ pushed \in 0 .. MaxUpdates /\ geyser_rx \in 0 .. pushed
  /\ stop_queued \in BOOLEAN
  /\ loop \in {"geyser", "requests", "stopped"}
  /\ body \in [Client -> RpcBodies]
  /\ DOMAIN response = Client
  /\ \A c \in Client : response[c] \in Seq(Nat)
  /\ EveryCallAnswered

LEMMA AnswersInit == RpcInit => AnswersInv
<1> SUFFICES ASSUME RpcInit PROVE AnswersInv
  OBVIOUS
<1>1. NoBody \in RpcBodies
  BY DEF RpcBodies, NoBody, Route, RpcPath
<1>2. pushed \in 0 .. MaxUpdates /\ geyser_rx \in 0 .. pushed
  BY RequestsAssumption DEF RpcInit
<1>3. stop_queued \in BOOLEAN /\ loop \in {"geyser", "requests", "stopped"}
  BY DEF RpcInit
<1>4. body \in [Client -> RpcBodies]
  BY <1>1 DEF RpcInit
<1>5. DOMAIN response = Client /\ \A c \in Client : response[c] \in Seq(Nat)
  BY EmptySeq DEF RpcInit
<1>6. EveryCallAnswered
  BY DEF RpcInit, EveryCallAnswered
<1>7. QED
  BY <1>2, <1>3, <1>4, <1>5, <1>6 DEF AnswersInv

\* A step that answers nobody, and takes no body from a client answered.
LEMMA NobodyAnswered ==
  ASSUME AnswersInv, NEW c \in Client, NEW how \in {"reading", "waiting"} \cup Failed, End(c, how),
         UNCHANGED loopVars, UNCHANGED response,
         UNCHANGED body \/ \E b \in RpcBodies : body' = [body EXCEPT ![c] = b],
         status \in [Client -> {"idle", "reading", "waiting", "answered"} \cup Failed]
  PROVE  AnswersInv'
<1>1. how # "answered"
  BY DEF Failed
<1>2. \A d \in Client : status'[d] = IF d = c THEN how ELSE status[d]
  BY DEF End
<1>3. body' \in [Client -> RpcBodies] /\ \A d \in Client : d # c => body'[d] = body[d]
  BY DEF AnswersInv
<1>4. EveryCallAnswered'
  BY <1>1, <1>2, <1>3 DEF AnswersInv, EveryCallAnswered
<1>5. QED
  BY <1>3, <1>4 DEF AnswersInv, loopVars

\* A client is sent the outputs of its own body.
LEMMA Answered ==
  ASSUME AnswersInv, NEW c \in Client, NEW b \in RpcBodies, End(c, "answered"),
         UNCHANGED loopVars, body' = [body EXCEPT ![c] = b],
         response' = [response EXCEPT ![c] = InPlace(b)],
         status \in [Client -> {"idle", "reading", "waiting", "answered"} \cup Failed]
  PROVE  AnswersInv'
<1>1. \A d \in Client : d # c => status'[d] = status[d] /\ body'[d] = body[d] /\ response'[d] = response[d]
  BY DEF End, AnswersInv
<1>2. /\ body' \in [Client -> RpcBodies] /\ body'[c] = b
      /\ DOMAIN response' = Client /\ response'[c] = InPlace(b)
  BY DEF AnswersInv
<1>3. EveryCallAnswered'
  BY <1>1, <1>2 DEF AnswersInv, EveryCallAnswered, InPlace
<1>4. \A d \in Client : response'[d] \in Seq(Nat)
  BY <1>1, <1>2, FillGivesEachItsOwn DEF AnswersInv
<1>5. QED
  BY <1>2, <1>3, <1>4 DEF AnswersInv, loopVars

LEMMA AnswersNext == RequestsInv /\ AnswersInv /\ [RpcNext]_rpcVars => AnswersInv'
<1> SUFFICES ASSUME RequestsInv, AnswersInv, [RpcNext]_rpcVars PROVE AnswersInv'
  OBVIOUS
<1>1. status \in [Client -> {"idle", "reading", "waiting", "answered"} \cup Failed]
  BY DEF RequestsInv, StatusTypes
<1>2. ASSUME NEW c \in Client, NEW b \in Bodies, Request(c, b) PROVE AnswersInv'
  <2>1. UNCHANGED loopVars
    BY <1>2 DEF Request
  <2>2. CASE /\ UNCHANGED response
             /\ \E how \in {"waiting"} \cup Failed : End(c, how)
             /\ UNCHANGED body \/ \E r \in RpcBodies : body' = [body EXCEPT ![c] = r]
    BY <1>1, <2>1, <2>2, NobodyAnswered
  <2>3. CASE /\ b \in RpcBodies /\ body' = [body EXCEPT ![c] = b]
             /\ Requests[b] = <<>> /\ End(c, "answered")
             /\ response' = [response EXCEPT ![c] = Outputs[b]]
    BY <1>1, <2>1, <2>3, Answered, FillGivesEachItsOwn
  <2>4. \A d : TrySend(d) => \E how \in {"waiting"} \cup Failed : End(d, how)
    BY DEF TrySend, Failed
  <2>5. {"not found", "too many calls"} \subseteq Failed
    BY DEF Failed
  <2>6. QED
    BY <1>2, <2>2, <2>3, <2>4, <2>5 DEF Request
<1>3. ASSUME NEW c \in Client, Receive(c) PROVE AnswersInv'
  <2>1. CASE ReceiveOutputs(c)
    <3> DEFINE b == body[c]
    <3>1. b \in RpcBodies /\ body' = [body EXCEPT ![c] = b]
      BY <2>1 DEF ReceiveOutputs, AnswersInv
    <3>2. oneshot[c].outputs = Requests[b]
      BY <2>1, StatesDiffer DEF ReceiveOutputs, RequestsInv, WholeAnswers
    <3>3. Len(Requests[b]) <= Len(Requests[b])
      BY <3>1, FillGivesEachItsOwn, LenProperties
    <3>4. /\ End(c, "answered") /\ UNCHANGED loopVars
          /\ response' = [response EXCEPT ![c] = Fill(Outputs[b], Requests[b])]
      BY <2>1, <3>2, <3>3 DEF ReceiveOutputs
    <3> HIDE DEF b
    <3>5. QED
      BY <1>1, <3>1, <3>4, Answered, FillGivesEachItsOwn
  <2>2. CASE ReceiveDropped(c)
    <3>1. End(c, "request dropped") /\ UNCHANGED <<loopVars, response, body>>
      BY <2>2 DEF ReceiveDropped
    <3>2. QED
      BY <1>1, <3>1, NobodyAnswered DEF Failed
  <2>3. QED
    BY <1>3, <2>1, <2>2 DEF Receive
<1>4. ASSUME NEW c \in Client, Connect(c) \/ BadBody(c) \/ Timeout(c) \/ ConnectionClosed(c) \/ Cancel(c)
      PROVE  AnswersInv'
  <2>1. PICK how \in {"reading"} \cup Failed : End(c, how)
    BY <1>4 DEF Connect, BadBody, Timeout, ConnectionClosed, GiveUp, Cancel, Failed
  <2>2. UNCHANGED <<loopVars, response, body>>
    BY <1>4 DEF Connect, BadBody, Timeout, ConnectionClosed, GiveUp, Cancel
  <2>3. QED
    BY <1>1, <2>1, <2>2, NobodyAnswered
<1>5. CASE Loop \/ PushGeyserMessage \/ QueueStop \/ UNCHANGED rpcVars
  <2>1. UNCHANGED <<status, body, response>>
    BY <1>5 DEF Loop, ApplyUpdate, GeyserPending, ExitLoop, RequestsPending, TakeRequest,
                PushGeyserMessage, QueueStop, rpcVars, clientVars
  <2>2. /\ pushed' \in 0 .. MaxUpdates /\ geyser_rx' \in 0 .. pushed'
        /\ stop_queued' \in BOOLEAN /\ loop' \in {"geyser", "requests", "stopped"}
    <3>1. pushed \in Int /\ MaxUpdates \in Int /\ geyser_rx \in Int
      BY RequestsAssumption DEF AnswersInv
    <3>2. CASE ApplyUpdate
      BY <3>1, <3>2 DEF AnswersInv, ApplyUpdate
    <3>3. CASE PushGeyserMessage
      BY <3>1, <3>3 DEF AnswersInv, PushGeyserMessage
    <3>4. CASE GeyserPending \/ ExitLoop \/ RequestsPending \/ TakeRequest \/ QueueStop
                \/ UNCHANGED rpcVars
      BY <3>4 DEF AnswersInv, GeyserPending, ExitLoop, RequestsPending, TakeRequest, QueueStop,
                  rpcVars, loopVars
    <3>5. QED
      BY <1>5, <3>2, <3>3, <3>4 DEF Loop
  <2>3. QED
    BY <2>1, <2>2 DEF AnswersInv, EveryCallAnswered
<1>6. QED
  BY <1>2, <1>3, <1>4, <1>5 DEF RpcNext

(***************************************************************************)
(* Every call of an answered body has its own output at its own position   *)
(* (rpc_solana.rs:387-395).                                                *)
(***************************************************************************)
THEOREM EveryCallHasItsAnswer == Spec => []EveryCallAnswered
<1>1. AnswersInv => EveryCallAnswered
  BY DEF AnswersInv
<1>2. RpcSpec => []AnswersInv
  BY AnswersInit, AnswersNext, RequestsInvariant, PTL DEF RpcSpec
<1>3. QED
  BY <1>1, <1>2, BackendRefinesRequests, PTL

LEMMA TypesFollow == RequestsInv /\ AnswersInv => RpcTypeOK
<1> SUFFICES ASSUME RequestsInv, AnswersInv PROVE RpcTypeOK
  OBVIOUS
<1>1. geyser_rx \in 0 .. MaxUpdates /\ pushed \in 0 .. MaxUpdates
  BY RequestsAssumption DEF AnswersInv
<1>2. body \in [Client -> Bodies \cup {NoBody}]
  BY DEF AnswersInv, RpcBodies
<1>3. ASSUME NEW c \in Client
      PROVE  /\ oneshot[c].state \in {"empty", "sent", "dropped"}
             /\ oneshot[c].outputs \in Seq(Nat)
             /\ response[c] \in Seq(Nat)
  <2>1. Requests[body[c]] \in Seq(Nat)
    BY FillGivesEachItsOwn DEF AnswersInv
  <2>2. <<>> \in Seq(Nat)
    BY EmptySeq
  <2>3. oneshot[c] \in {Empty, Dropped, Sent(Requests[body[c]])}
    BY DEF RequestsInv, WholeAnswers
  <2>4. response[c] \in Seq(Nat)
    BY DEF AnswersInv
  <2>5. Empty.outputs = <<>> /\ Dropped.outputs = <<>>
    BY DEF Empty, Dropped
  <2>6. CASE oneshot[c] = Empty
    BY <2>2, <2>4, <2>5, <2>6, StatesDiffer
  <2>7. CASE oneshot[c] = Dropped
    BY <2>2, <2>4, <2>5, <2>7, StatesDiffer
  <2>8. CASE oneshot[c] = Sent(Requests[body[c]])
    BY <2>1, <2>4, <2>8, StatesDiffer
  <2>9. QED
    BY <2>3, <2>6, <2>7, <2>8
<1>4. QED
  BY <1>1, <1>2, <1>3 DEF RpcTypeOK, AnswersInv, RequestsInv, StatusTypes, QueueOnce

LEMMA MainTypes ==
  Spec => [](/\ main \in {"serving", "joining", "finished", "failed", "killed"} \cup Stopping
             /\ notify \subseteq Server
             /\ server \in [Server -> {"accepting", "draining", "finished"}])
<1> DEFINE I == /\ main \in {"serving", "joining", "finished", "failed", "killed"} \cup Stopping
                /\ notify \subseteq Server
                /\ server \in [Server -> {"accepting", "draining", "finished"}]
<1>1. Init => I
  BY DEF Init
<1>2. I /\ [Next]_vars => I'
  <2> SUFFICES ASSUME I, [Next]_vars PROVE I'
    OBVIOUS
  <2>1. CASE UNCHANGED <<main, notify, server>>
    BY <2>1
  <2>2. CASE Break \/ Fail \/ MainStep \/ SecondSignal
    BY <2>2 DEF Break, Fail, MainStep, StopLoop, StopAdmin, StopSolfees, Join, SecondSignal, Stopping, Server
  <2>3. ASSUME NEW s \in Server, Notified(s) \/ GracefulShutdown(s) PROVE I'
    BY <2>3 DEF Notified, GracefulShutdown
  <2>4. QED
    BY <2>1, <2>2, <2>3 DEF Next, ForwardMessage, Rpc, Accept, SendBody, vars
<1>3. QED
  BY <1>1, <1>2, PTL DEF Spec

\* Types, and a queue that never grows beyond its limit.
THEOREM TypeCorrectness == Spec => []TypeOK
<1>1. RpcSpec => []RpcTypeOK
  BY AnswersInit, AnswersNext, RequestsInvariant, TypesFollow, PTL DEF RpcSpec
<1>2. QED
  BY <1>1, BackendRefinesRequests, MainTypes, PTL DEF TypeOK

-----------------------------------------------------------------------------
\* A server that has finished has no connection left and accepts no other.
ServersInv ==
  /\ server \in [Server -> {"accepting", "draining", "finished"}]
  /\ status \in [Client -> {"idle", "reading", "waiting", "answered"} \cup Failed]
  /\ server["solfees"] = "finished" => Connections("solfees") = {}
  /\ main = "finished" => server["solfees"] = "finished"

NobodyLeftBehind ==
  main = "finished" => \A c \in Client : status[c] \notin {"reading", "waiting"}

LEMMA ConnectionStep ==
  ASSUME ServersInv, NEW c \in Client, NEW how,
         how \in {"answered"} \cup Failed \/ (how = "reading" /\ server["solfees"] = "accepting")
           \/ (how = "waiting" /\ status[c] = "reading"),
         End(c, how), UNCHANGED <<main, server>>
  PROVE  ServersInv'
<1>1. /\ status' \in [Client -> {"idle", "reading", "waiting", "answered"} \cup Failed]
      /\ \A d \in Client : status'[d] = IF d = c THEN how ELSE status[d]
  BY DEF End, ServersInv
<1>2. "reading" \notin Failed /\ "waiting" \notin Failed
  BY DEF Failed
<1>3. server["solfees"] = "finished" => Connections("solfees")' = {}
  <2> SUFFICES ASSUME server["solfees"] = "finished", NEW d \in Client,
                      status'[d] \in {"reading", "waiting"}
               PROVE  FALSE
    BY DEF Connections
  <2>1. \A e \in Client : status[e] \notin {"reading", "waiting"}
    BY DEF ServersInv, Connections
  <2>2. QED
    BY <1>1, <1>2, <2>1
<1>4. QED
  BY <1>1, <1>3 DEF ServersInv

(***************************************************************************)
(* When main has joined its tasks every client that had begun has been     *)
(* answered or told why not (solfees-be.rs:82-97, rpc_server.rs:165-176).  *)
(***************************************************************************)
THEOREM ShutdownLeavesNobody == Spec => []NobodyLeftBehind
<1>1. Init => ServersInv
  BY DEF Init, RpcInit, ServersInv, Connections, Server
<1>2. ServersInv /\ [Next]_vars => ServersInv'
  <2> SUFFICES ASSUME ServersInv, [Next]_vars PROVE ServersInv'
    OBVIOUS
  <2>1. CASE /\ UNCHANGED <<status, server>>
             /\ main' = "finished" => main = "finished" \/ server["solfees"] = "finished"
    BY <2>1 DEF ServersInv, Connections
  <2>2. ASSUME NEW s \in Server, Notified(s) PROVE ServersInv'
    <3>1. UNCHANGED <<status, main>> /\ server' = [server EXCEPT ![s] = "draining"]
          /\ server[s] = "accepting"
      BY <2>2 DEF Notified, rpcVars, clientVars
    <3>2. QED
      BY <3>1 DEF ServersInv, Connections, Server
  <2>3. ASSUME NEW s \in Server, GracefulShutdown(s) PROVE ServersInv'
    <3>1. UNCHANGED <<status, main>> /\ server' = [server EXCEPT ![s] = "finished"]
          /\ Connections(s) = {}
      BY <2>3 DEF GracefulShutdown, Drained, rpcVars, clientVars
    <3>2. QED
      BY <3>1 DEF ServersInv, Connections, Server
  <2>4. ASSUME NEW c \in Client, Accept(c) PROVE ServersInv'
    <3>1. End(c, "reading") /\ server["solfees"] = "accepting" /\ UNCHANGED <<main, server>>
      BY <2>4 DEF Accept, Rpc, Connect
    <3>2. QED
      BY <3>1, ConnectionStep
  <2>5. ASSUME NEW c \in Client, SendBody(c) PROVE ServersInv'
    <3>1. PICK how \in {"waiting", "answered"} \cup Failed : End(c, how)
      BY <2>5 DEF SendBody, Rpc, Request, BadBody, TrySend, Failed
    <3>2. status[c] = "reading" /\ UNCHANGED <<main, server>>
      BY <2>5 DEF SendBody, Rpc, Request, BadBody
    <3>3. QED
      BY <3>1, <3>2, ConnectionStep
  <2>6. ASSUME NEW c \in Client,
               \/ Rpc(Receive(c)) \/ Rpc(Timeout(c)) \/ Rpc(ConnectionClosed(c)) \/ Rpc(Cancel(c))
        PROVE  ServersInv'
    <3>1. PICK how \in {"answered"} \cup Failed : End(c, how)
      BY <2>6 DEF Rpc, Receive, ReceiveOutputs, ReceiveDropped, Timeout, ConnectionClosed, GiveUp,
                  Cancel, Failed
    <3>2. UNCHANGED <<main, server>>
      BY <2>6 DEF Rpc
    <3>3. QED
      BY <3>1, <3>2, ConnectionStep
  <2>7. CASE ForwardMessage \/ StopLoop \/ Rpc(Loop)
    <3>1. UNCHANGED status
      BY <2>7 DEF ForwardMessage, PushGeyserMessage, StopLoop, QueueStop, Rpc, Loop, ApplyUpdate,
                  GeyserPending, ExitLoop, RequestsPending, TakeRequest, clientVars
    <3>2. UNCHANGED server /\ (main' = "finished" => main = "finished")
      BY <2>7 DEF ForwardMessage, StopLoop, Rpc
    <3>3. QED
      BY <2>1, <3>1, <3>2
  <2>8. CASE Break \/ Fail \/ StopAdmin \/ StopSolfees \/ Join \/ SecondSignal \/ UNCHANGED vars
    <3>1. UNCHANGED <<status, server>>
      BY <2>8 DEF Break, Fail, StopAdmin, StopSolfees, Join, SecondSignal, vars, rpcVars, clientVars
    <3>2. main' = "finished" => main = "finished" \/ server["solfees"] = "finished"
      BY <2>8 DEF Break, Fail, StopAdmin, StopSolfees, Join, SecondSignal, vars, Server
    <3>3. QED
      BY <2>1, <3>1, <3>2
  <2>9. QED
    BY <2>2, <2>3, <2>4, <2>5, <2>6, <2>7, <2>8 DEF Next, MainStep
<1>3. ServersInv => NobodyLeftBehind
  BY DEF ServersInv, NobodyLeftBehind, Connections
<1>4. QED
  BY <1>1, <1>2, <1>3, PTL DEF Spec
=============================================================================

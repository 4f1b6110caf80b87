-------------------------- MODULE Grpc2Redis_proofs --------------------------
(***************************************************************************)
(* One producer over any number of restarts, for any block tree and any    *)
(* blocks: what it writes is in its node's order and without repetition,   *)
(* blocks lack only what was sent before the subscription, nothing else is *)
(* skipped, and no transactions are kept below the root.                   *)
(***************************************************************************)
EXTENDS Grpc2Redis, SequenceTheorems, TLAPS

\* Everything between the task and Redis, in order: main moves items along it
\* and the task appends to it.
Flow == written \o messages \o geyser_rx

ItemType == [slot : Slot \cup {0}, kind : Kind \cup {"error"}, txs : Nat]

-----------------------------------------------------------------------------
LEMMA ItemFields ==
  /\ \A s, k, n : /\ Item(s, k, n).slot = s /\ Item(s, k, n).kind = k /\ Item(s, k, n).txs = n
                  /\ MessageOf(Item(s, k, n)) = Msg(s, k)
  /\ \A s \in Slot, k \in Kind, n \in Nat : Item(s, k, n) \in ItemType
  /\ Err \in ItemType /\ Err.kind = "error" /\ Err.slot = 0
  /\ \A s, n : \A k \in Kind : Item(s, k, n) # Err
<1>1. \A s, k, n : Item(s, k, n).slot = s /\ Item(s, k, n).kind = k /\ Item(s, k, n).txs = n
  BY DEF Item
<1>2. \A s, k, n : MessageOf(Item(s, k, n)) = Msg(s, k)
  BY <1>1 DEF MessageOf
<1>3. \A s \in Slot, k \in Kind, n \in Nat : Item(s, k, n) \in ItemType
  BY DEF Item, ItemType
<1>4. Err \in ItemType /\ Err.kind = "error" /\ Err.slot = 0
  BY DEF Err, Item, ItemType
<1>5. "error" \notin Kind
  BY DEF Kind, CommitmentLevel
<1>6. QED
  BY <1>1, <1>2, <1>3, <1>4, <1>5

LEMMA Concatenated ==
  ASSUME NEW S, NEW s \in Seq(S), NEW t \in Seq(S)
  PROVE  /\ s \o t \in Seq(S) /\ Len(s \o t) = Len(s) + Len(t)
         /\ \A i \in 1 .. Len(s) : (s \o t)[i] = s[i]
         /\ \A i \in 1 .. Len(t) : (s \o t)[Len(s) + i] = t[i]
<1>1. /\ s \o t \in Seq(S) /\ Len(s \o t) = Len(s) + Len(t)
      /\ \A i \in 1 .. Len(s) + Len(t) : (s \o t)[i] = IF i <= Len(s) THEN s[i] ELSE t[i - Len(s)]
  BY ConcatProperties
<1>2. Len(s) \in Nat /\ Len(t) \in Nat
  BY LenProperties
<1> DEFINE both == s \o t
<1> HIDE DEF both
<1>3. \A i \in 1 .. Len(s) : both[i] = s[i]
  BY <1>1, <1>2 DEF both
<1>4. \A i \in 1 .. Len(t) : both[Len(s) + i] = t[i]
  <2> SUFFICES ASSUME NEW i \in 1 .. Len(t) PROVE both[Len(s) + i] = t[i]
    OBVIOUS
  <2>1. /\ Len(s) + i \in 1 .. Len(s) + Len(t)
        /\ ~(Len(s) + i <= Len(s)) /\ (Len(s) + i) - Len(s) = i
    BY <1>2
  <2>2. QED
    BY <1>1, <2>1 DEF both
<1>5. QED
  BY <1>1, <1>3, <1>4 DEF both

\* Elements of a concatenation come from one of the two.
LEMMA ConcatenatedMessages ==
  ASSUME NEW S, NEW s \in Seq(S), NEW t \in Seq(S)
  PROVE  MessagesIn(s \o t) = MessagesIn(s) \cup MessagesIn(t)
<1> DEFINE both == s \o t
<1>1. /\ both \in Seq(S) /\ Len(both) = Len(s) + Len(t)
      /\ \A i \in 1 .. Len(s) : both[i] = s[i]
      /\ \A i \in 1 .. Len(t) : both[Len(s) + i] = t[i]
  BY Concatenated
<1> HIDE DEF both
<1>2. /\ Len(s) \in Nat /\ Len(t) \in Nat
      /\ DOMAIN s = 1 .. Len(s) /\ DOMAIN t = 1 .. Len(t) /\ DOMAIN both = 1 .. Len(s) + Len(t)
  BY <1>1, LenProperties
<1>3. \A i \in DOMAIN both : i \in DOMAIN s \/ (i - Len(s) \in DOMAIN t /\ i = Len(s) + (i - Len(s)))
  BY <1>2
<1>4. \A i \in DOMAIN both : MessageOf(both[i]) \in MessagesIn(s) \cup MessagesIn(t)
  BY <1>1, <1>2, <1>3 DEF MessagesIn
<1>5. \A i \in DOMAIN s : i \in DOMAIN both
  BY <1>2
<1>6. \A i \in DOMAIN t : Len(s) + i \in DOMAIN both
  BY <1>2
<1>7. MessagesIn(both) \subseteq MessagesIn(s) \cup MessagesIn(t)
  BY <1>4 DEF MessagesIn
<1>8. MessagesIn(s) \cup MessagesIn(t) \subseteq MessagesIn(both)
  BY <1>1, <1>2, <1>5, <1>6 DEF MessagesIn
<1>9. QED
  BY <1>7, <1>8 DEF both

\* No error in either, none in the concatenation.
LEMMA ConcatenatedErrors ==
  ASSUME NEW S, NEW s \in Seq(S), NEW t \in Seq(S),
         \A i \in DOMAIN s : s[i] # Err, \A i \in DOMAIN t : t[i] # Err
  PROVE  \A i \in DOMAIN (s \o t) : (s \o t)[i] # Err
<1> DEFINE both == s \o t
<1>1. /\ both \in Seq(S) /\ Len(both) = Len(s) + Len(t)
      /\ \A i \in 1 .. Len(s) : both[i] = s[i]
      /\ \A i \in 1 .. Len(t) : both[Len(s) + i] = t[i]
  BY Concatenated
<1> HIDE DEF both
<1>2. /\ Len(s) \in Nat /\ Len(t) \in Nat
      /\ DOMAIN s = 1 .. Len(s) /\ DOMAIN t = 1 .. Len(t) /\ DOMAIN both = 1 .. Len(s) + Len(t)
  BY <1>1, LenProperties
<1>3. \A i \in DOMAIN both : i \in DOMAIN s \/ (i - Len(s) \in DOMAIN t /\ i = Len(s) + (i - Len(s)))
  BY <1>2
<1>4. \A i \in DOMAIN both : both[i] # Err
  BY <1>1, <1>2, <1>3
<1>5. QED
  BY <1>4 DEF both

LEMMA AppendedMessages ==
  ASSUME NEW S, NEW s \in Seq(S), NEW x \in S
  PROVE  MessagesIn(Append(s, x)) = MessagesIn(s) \cup {MessageOf(x)}
<1> DEFINE longer == Append(s, x)
<1>1. /\ longer \in Seq(S) /\ Len(longer) = Len(s) + 1
      /\ \A i \in 1 .. Len(s) : longer[i] = s[i]
      /\ longer[Len(s) + 1] = x
  BY AppendProperties
<1> HIDE DEF longer
<1>2. Len(s) \in Nat /\ DOMAIN s = 1 .. Len(s) /\ DOMAIN longer = 1 .. Len(s) + 1
  BY <1>1, LenProperties
<1>3. \A i \in DOMAIN longer : i \in DOMAIN s \/ i = Len(s) + 1
  BY <1>2
<1>4. DOMAIN s \subseteq DOMAIN longer /\ Len(s) + 1 \in DOMAIN longer
  BY <1>2
<1>5. QED
  BY <1>1, <1>2, <1>3, <1>4 DEF MessagesIn, longer

LEMMA AppendedElements ==
  ASSUME NEW S, NEW s \in Seq(S), NEW x \in S
  PROVE  /\ \A i \in DOMAIN Append(s, x) :
              (i \in DOMAIN s /\ Append(s, x)[i] = s[i]) \/ (i = Len(Append(s, x)) /\ Append(s, x)[i] = x)
         /\ \A i \in DOMAIN s : i # Len(Append(s, x))
<1> DEFINE longer == Append(s, x)
<1>1. /\ longer \in Seq(S) /\ Len(longer) = Len(s) + 1
      /\ \A i \in 1 .. Len(s) : longer[i] = s[i]
      /\ longer[Len(s) + 1] = x
  BY AppendProperties
<1> HIDE DEF longer
<1>2. Len(s) \in Nat /\ DOMAIN s = 1 .. Len(s) /\ DOMAIN longer = 1 .. Len(s) + 1
  BY <1>1, LenProperties
<1>3. \A i \in DOMAIN longer : (i \in DOMAIN s /\ longer[i] = s[i]) \/ (i = Len(longer) /\ longer[i] = x)
  BY <1>1, <1>2
<1>4. \A i \in DOMAIN s : i # Len(longer)
  BY <1>1, <1>2
<1>5. QED
  BY <1>3, <1>4 DEF longer

-----------------------------------------------------------------------------
(***************************************************************************)
(* InOrder is a relation between two messages said one after the other,    *)
(* and weakens with what was said.                                         *)
(***************************************************************************)
LEMMA InOrderPairs ==
  ASSUME NEW said, NEW m
  PROVE  InOrder(said, m) <=> \A x \in said : InOrder({x}, m)
<1>1. \A x : FinalizedIn({x}) = {s \in Slot : Msg(s, "finalized") = x}
  BY DEF FinalizedIn
<1>2. \A s \in FinalizedIn(said) : Msg(s, "finalized") \in said
  BY DEF FinalizedIn
<1>3. ASSUME InOrder(said, m), NEW x \in said PROVE InOrder({x}, m)
  <2>1. x # m
    BY <1>3 DEF InOrder
  <2>2. \A k \in DOMAIN Before : m.kind \in Before[k] => Msg(m.slot, k) \notin {x}
    BY <1>3 DEF InOrder
  <2>3. m.kind = "finalized" => FinalizedIn({x}) \subseteq Lineage[m.slot]
    BY <1>1, <1>3 DEF InOrder, FinalizedIn
  <2>4. QED
    BY <2>1, <2>2, <2>3 DEF InOrder
<1>4. ASSUME \A x \in said : InOrder({x}, m) PROVE InOrder(said, m)
  <2>1. m \notin said
    BY <1>4 DEF InOrder
  <2>2. \A k \in DOMAIN Before : m.kind \in Before[k] => Msg(m.slot, k) \notin said
    BY <1>4 DEF InOrder
  <2>3. m.kind = "finalized" => FinalizedIn(said) \subseteq Lineage[m.slot]
    <3> SUFFICES ASSUME m.kind = "finalized", NEW s \in FinalizedIn(said) PROVE s \in Lineage[m.slot]
      OBVIOUS
    <3>1. Msg(s, "finalized") \in said /\ s \in Slot
      BY DEF FinalizedIn
    <3>2. FinalizedIn({Msg(s, "finalized")}) \subseteq Lineage[m.slot]
      BY <1>4, <3>1 DEF InOrder
    <3>3. QED
      BY <1>1, <3>1, <3>2
  <2>4. QED
    BY <2>1, <2>2, <2>3 DEF InOrder
<1>5. QED
  BY <1>3, <1>4

\* After the error anything is in order.
LEMMA ErrIsInOrder ==
  ASSUME NEW m \in Message
  PROVE  InOrder({MessageOf(Err)}, m)
<1>1. MessageOf(Err).slot = 0 /\ MessageOf(Err).kind = "error"
  BY ItemFields DEF MessageOf, Msg
<1>2. m.slot \in Slot /\ m.slot # 0
  BY ChainAssumption DEF Message
<1>3. \A k : Msg(m.slot, k) # MessageOf(Err)
  BY <1>1, <1>2 DEF Msg
<1>4. FinalizedIn({MessageOf(Err)}) = {}
  BY <1>1 DEF FinalizedIn, Msg
<1>5. QED
  BY <1>1, <1>2, <1>3, <1>4 DEF InOrder

-----------------------------------------------------------------------------
(***************************************************************************)
(* The inductive invariant.  While the task runs it holds, of each slot    *)
(* whose block may still come, what the node has sent since it subscribed; *)
(* and whatever is on its way to Redis is in the order in which the node   *)
(* said it, blocks counted from the subscription that heard them.          *)
(***************************************************************************)
Types ==
  /\ executed \in [Slot -> Nat] /\ \A s \in Slot : executed[s] <= TxCount[s]
  /\ sent \subseteq Message
  /\ before \subseteq sent
  /\ \A s \in Slot : offset[s] \in 0 .. executed[s]
  /\ task \in {"none", "running", "ended"}
  /\ DOMAIN transactions \subseteq Slot
  /\ \A s \in DOMAIN transactions : transactions[s] \in 1 .. TxCount[s]
  /\ pc \in {"connect", "select", "drain", "exited"}
  /\ pc \in {"connect", "exited"} <=> task = "none"
  /\ messages # <<>> => pc = "drain"
  /\ task = "none" => geyser_rx = <<>> /\ DOMAIN transactions = {}
  /\ written \in Seq(ItemType) /\ messages \in Seq(ItemType) /\ geyser_rx \in Seq(ItemType)

ErrorsEnd ==
  /\ \A i \in DOMAIN written : written[i] # Err
  /\ \A i \in DOMAIN messages : messages[i] # Err
  /\ \A i \in DOMAIN geyser_rx : geyser_rx[i] = Err => i = Len(geyser_rx) /\ task # "running"

FlowOK(flow) ==
  /\ \A i \in DOMAIN flow : flow[i] # Err => MessageOf(flow[i]) \in sent
  /\ \A i, j \in DOMAIN flow :
       i < j /\ flow[j] # Err => InOrder({MessageOf(flow[i])}, MessageOf(flow[j]))
  /\ \A i \in DOMAIN flow :
       flow[i].kind = "block" => flow[i].txs = TxCount[flow[i].slot] - offset[flow[i].slot]

Gathered ==
  task = "running" => \A s \in DOMAIN transactions :
    transactions[s] = executed[s] - offset[s] /\ Msg(s, "block") \notin sent

NoneMissing ==
  task = "running" => \A s \in Slot \ DOMAIN transactions :
    Msg(s, "block") \notin sent /\ (\A f \in FinalizedIn(sent) : f < s) => executed[s] = offset[s]

IInv ==
  /\ Types
  /\ ErrorsEnd
  /\ FlowOK(Flow)
  /\ Gathered
  /\ NoneMissing
  /\ NothingBelowRoot
  /\ NothingSkipped

LEMMA FlowIsSeq ==
  ASSUME Types
  PROVE  /\ written \o messages \in Seq(ItemType) /\ Flow \in Seq(ItemType)
         /\ Len(Flow) \in Nat /\ DOMAIN Flow = 1 .. Len(Flow)
<1>1. written \in Seq(ItemType) /\ messages \in Seq(ItemType) /\ geyser_rx \in Seq(ItemType)
  BY DEF Types
<1>2. written \o messages \in Seq(ItemType)
  BY <1>1, Concatenated
<1>3. Flow \in Seq(ItemType)
  BY <1>1, <1>2, Concatenated DEF Flow
<1>4. QED
  BY <1>2, <1>3, LenProperties

LEMMA InitHolds == Init => IInv
<1> SUFFICES ASSUME Init PROVE IInv
  OBVIOUS
<1>1. Types
  BY ProducerAssumption, EmptySeq DEF Init, Types
<1>2. Flow = <<>>
  BY DEF Init, Flow
<1>3. ErrorsEnd /\ FlowOK(Flow) /\ MessagesIn(Flow) = {}
  BY <1>2 DEF Init, ErrorsEnd, FlowOK, MessagesIn
<1>4. Gathered /\ NoneMissing /\ NothingSkipped
  BY DEF Init, Gathered, NoneMissing, NothingSkipped
<1>5. NothingBelowRoot
  BY <1>3 DEF NothingBelowRoot, FinalizedIn, Flow
<1>6. QED
  BY <1>1, <1>3, <1>4, <1>5 DEF IInv

LEMMA FlowAppended ==
  ASSUME Types, NEW x \in ItemType, UNCHANGED <<written, messages>>,
         geyser_rx' = Append(geyser_rx, x)
  PROVE  /\ Flow' = Append(Flow, x)
         /\ geyser_rx' \in Seq(ItemType)
         /\ MessagesIn(Flow)' = MessagesIn(Flow) \cup {MessageOf(x)}
<1> DEFINE front == written \o messages
           one == <<x>>
<1>1. front \in Seq(ItemType) /\ Flow \in Seq(ItemType) /\ geyser_rx \in Seq(ItemType)
  BY FlowIsSeq DEF Types
<1>2. Flow' = front \o Append(geyser_rx, x)
  BY DEF Flow
<1>3. one \in Seq(ItemType)
  OBVIOUS
<1>4. Append(geyser_rx, x) = geyser_rx \o one /\ Append(Flow, x) = Flow \o one
  BY <1>1, AppendIsConcat
<1> HIDE DEF one
<1>5. (front \o geyser_rx) \o one = front \o (geyser_rx \o one)
  <2> HIDE DEF front
  <2>1. \A a, b, c \in Seq(ItemType) : (a \o b) \o c = a \o (b \o c)
    BY ConcatAssociative
  <2>2. front \in Seq(ItemType) /\ geyser_rx \in Seq(ItemType)
    BY <1>1
  <2>3. QED
    BY <1>3, <2>1, <2>2, Zenon
<1>6. Flow' = Append(Flow, x)
  <2>1. Flow = front \o geyser_rx
    BY DEF Flow
  <2> HIDE DEF front
  <2>2. QED
    BY <1>2, <1>4, <1>5, <2>1
<1> HIDE DEF front
<1>7. geyser_rx' \in Seq(ItemType)
  BY <1>1, AppendProperties
<1>8. MessagesIn(Append(Flow, x)) = MessagesIn(Flow) \cup {MessageOf(x)}
  BY <1>1, AppendedMessages
<1>9. MessagesIn(Flow)' = MessagesIn(Flow')
  BY DEF MessagesIn, MessageOf, Msg
<1>10. QED
  BY <1>6, <1>7, <1>8, <1>9

\* The node says something new, and it goes to the end of the flow.
LEMMA AppendKeepsFlow ==
  ASSUME IInv, NEW x \in ItemType, Flow' = Append(Flow, x),
         sent \subseteq sent', UNCHANGED offset,
         \/ x = Err
         \/ /\ MessageOf(x) \in sent' /\ MessageOf(x) \in Message
            /\ InOrder(sent, MessageOf(x)),
         x.kind = "block" => x.txs = TxCount[x.slot] - offset[x.slot]
  PROVE  FlowOK(Flow)'
<1> DEFINE f == Flow
           g == Append(f, x)
           n == Len(f)
<1>1. f \in Seq(ItemType) /\ n \in Nat /\ DOMAIN f = 1 .. n
  BY FlowIsSeq DEF IInv
<1>2. /\ g \in Seq(ItemType) /\ Len(g) = n + 1
      /\ \A i \in 1 .. n : g[i] = f[i]
      /\ g[n + 1] = x
  BY <1>1, AppendProperties
<1>3. DOMAIN g = 1 .. n + 1
  BY <1>2, LenProperties
<1>4. FlowOK(f) /\ Flow' = g
  BY DEF IInv
<1> HIDE DEF f, g, n
<1>5. \A i \in DOMAIN g : (i \in DOMAIN f /\ g[i] = f[i]) \/ (i = n + 1 /\ g[i] = x)
  BY <1>1, <1>2, <1>3
<1>6. \A i \in DOMAIN g : g[i] # Err => MessageOf(g[i]) \in sent'
  BY <1>4, <1>5 DEF FlowOK
<1>7. ASSUME NEW i \in DOMAIN g, NEW j \in DOMAIN g, i < j, g[j] # Err
      PROVE  InOrder({MessageOf(g[i])}, MessageOf(g[j]))
  <2>1. i \in DOMAIN f /\ g[i] = f[i]
    BY <1>1, <1>3, <1>5, <1>7
  <2>2. CASE j \in DOMAIN f /\ g[j] = f[j]
    BY <1>4, <1>7, <2>1, <2>2 DEF FlowOK
  <2>3. CASE g[j] = x
    <3>1. MessageOf(x) \in Message /\ InOrder(sent, MessageOf(x))
      BY <1>7, <2>3
    <3>2. CASE f[i] = Err
      BY <2>1, <2>3, <3>1, <3>2, ErrIsInOrder
    <3>3. CASE f[i] # Err
      <4>1. MessageOf(f[i]) \in sent
        BY <1>4, <2>1, <3>3 DEF FlowOK
      <4>2. QED
        BY <2>1, <2>3, <3>1, <4>1, InOrderPairs
    <3>4. QED
      BY <3>2, <3>3
  <2>4. QED
    BY <1>5, <2>2, <2>3
<1>8. \A i \in DOMAIN g : g[i].kind = "block" => g[i].txs = TxCount[g[i].slot] - offset[g[i].slot]
  BY <1>4, <1>5 DEF FlowOK
<1>9. \A i, j \in DOMAIN Flow' :
        i < j /\ Flow'[j] # Err => InOrder({MessageOf(Flow'[i])}, MessageOf(Flow'[j]))
  BY <1>4, <1>7
<1>10. QED
  BY <1>4, <1>6, <1>8, <1>9 DEF FlowOK, MessageOf, Msg, Err, Item, InOrder, FinalizedIn

\* The flow keeps its beginning, and is cut off or not.
LEMMA PrefixKeepsFlow ==
  ASSUME IInv, Flow' \in Seq(ItemType), Len(Flow') <= Len(Flow),
         \A i \in 1 .. Len(Flow') : Flow'[i] = Flow[i],
         sent \subseteq sent',
         \A s \in Slot : Msg(s, "block") \in sent => offset'[s] = offset[s]
  PROVE  FlowOK(Flow)' /\ MessagesIn(Flow)' \subseteq MessagesIn(Flow)
<1> DEFINE f == Flow
           g == Flow'
<1>1. /\ f \in Seq(ItemType) /\ Len(f) \in Nat /\ DOMAIN f = 1 .. Len(f) /\ FlowOK(f)
      /\ sent \subseteq Message
  BY FlowIsSeq DEF IInv, Types
<1>2. Len(g) \in Nat /\ DOMAIN g = 1 .. Len(g)
  BY LenProperties
<1>3. \A i \in DOMAIN g : i \in DOMAIN f /\ g[i] = f[i]
  BY <1>1, <1>2
<1> HIDE DEF f, g
<1>4. \A i \in DOMAIN g : g[i] # Err => MessageOf(g[i]) \in sent'
  BY <1>1, <1>3 DEF FlowOK
<1>5. \A i, j \in DOMAIN g : i < j /\ g[j] # Err => InOrder({MessageOf(g[i])}, MessageOf(g[j]))
  BY <1>1, <1>3 DEF FlowOK
<1>6. ASSUME NEW i \in DOMAIN g, g[i].kind = "block"
      PROVE  g[i].txs = TxCount[g[i].slot] - offset'[g[i].slot]
  <2>1. i \in DOMAIN f /\ g[i] = f[i] /\ f[i] # Err
    BY <1>3, <1>6, ItemFields
  <2>2. MessageOf(f[i]) = Msg(f[i].slot, "block") /\ MessageOf(f[i]) \in sent
    BY <1>1, <1>6, <2>1 DEF FlowOK, MessageOf
  <2>3. f[i].slot \in Slot
    BY <1>1, <2>2 DEF Message, Msg
  <2>4. QED
    BY <1>1, <1>6, <2>1, <2>2, <2>3 DEF FlowOK
<1>7. FlowOK(Flow)'
  BY <1>4, <1>5, <1>6 DEF FlowOK, MessageOf, Msg, Err, Item, InOrder, FinalizedIn, g
<1>8. MessagesIn(g) \subseteq MessagesIn(f)
  BY <1>3 DEF MessagesIn
<1>9. MessagesIn(Flow)' = MessagesIn(Flow')
  BY DEF MessagesIn, MessageOf, Msg
<1>10. QED
  BY <1>7, <1>8, <1>9 DEF f, g

-----------------------------------------------------------------------------
\* What the two properties say of the flow.
LEMMA OfFlow ==
  /\ NothingBelowRoot <=>
       \A f \in FinalizedIn(MessagesIn(Flow)) : \A s \in DOMAIN transactions : s >= f
  /\ NothingSkipped <=>
       (task = "running" =>
          \A m \in sent \ before :
            (m.kind = "block" /\ offset[m.slot] = TxCount[m.slot]) \/ m \in MessagesIn(Flow))
  BY DEF NothingBelowRoot, NothingSkipped, Flow

LEMMA OfFlowPrimed ==
  /\ NothingBelowRoot' <=>
       \A f \in FinalizedIn(MessagesIn(Flow)') : \A s \in DOMAIN transactions' : s >= f
  /\ NothingSkipped' <=>
       (task' = "running" =>
          \A m \in sent' \ before' :
            (m.kind = "block" /\ offset'[m.slot] = TxCount[m.slot]) \/ m \in MessagesIn(Flow)')
  BY DEF NothingBelowRoot, NothingSkipped, Flow, FinalizedIn, MessagesIn, MessageOf, Msg

\* Main only has of the finalized statuses what the node has sent.
LEMMA FlowFinalized ==
  ASSUME IInv
  PROVE  FinalizedIn(MessagesIn(Flow)) \subseteq FinalizedIn(sent)
<1> SUFFICES ASSUME NEW f \in FinalizedIn(MessagesIn(Flow))
             PROVE  f \in FinalizedIn(sent)
  OBVIOUS
<1>1. f \in Slot /\ Msg(f, "finalized") \in MessagesIn(Flow)
  BY DEF FinalizedIn
<1>2. PICK i \in DOMAIN Flow : MessageOf(Flow[i]) = Msg(f, "finalized")
  BY <1>1 DEF MessagesIn
<1>3. Flow[i] # Err
  BY <1>2, ItemFields DEF MessageOf, Msg
<1>4. Msg(f, "finalized") \in sent
  BY <1>2, <1>3 DEF IInv, FlowOK
<1>5. QED
  BY <1>1, <1>4 DEF FinalizedIn

\* A step that leaves the flow and the transactions alone.
LEMMA FlowStands ==
  ASSUME IInv, UNCHANGED <<written, messages, geyser_rx>>, sent \subseteq sent',
         \A s \in Slot : Msg(s, "block") \in sent => offset'[s] = offset[s]
  PROVE  /\ FlowOK(Flow)' /\ MessagesIn(Flow)' = MessagesIn(Flow)
<1>1. Flow' = Flow /\ Flow \in Seq(ItemType)
  BY FlowIsSeq DEF Flow, IInv
<1>2. Len(Flow') <= Len(Flow) /\ \A i \in 1 .. Len(Flow') : Flow'[i] = Flow[i]
  BY <1>1, FlowIsSeq DEF IInv
<1>3. FlowOK(Flow)'
  BY <1>1, <1>2, PrefixKeepsFlow
<1>4. MessagesIn(Flow)' = MessagesIn(Flow')
  BY DEF MessagesIn, MessageOf, Msg
<1>5. QED
  BY <1>1, <1>3, <1>4

LEMMA NodeFacts ==
  ASSUME IInv, NEW s \in Slot
  PROVE  /\ SendsTransaction(s) =>
              /\ executed' \in [Slot -> Nat] /\ executed'[s] = executed[s] + 1
              /\ \A t \in Slot : t # s => executed'[t] = executed[t]
              /\ \A t \in Slot : executed[t] <= executed'[t] /\ executed'[t] <= TxCount[t]
              /\ sent' = sent
         /\ SendsBlockMeta(s) =>
              /\ executed' = executed /\ executed[s] = TxCount[s]
              /\ sent' = sent \cup {Msg(s, "block")} /\ sent' \subseteq Message
              /\ InOrder(sent, Msg(s, "block"))
              /\ FinalizedIn(sent') = FinalizedIn(sent)
         /\ \A c \in Levels : SendsStatus(s, c) =>
              /\ executed' = executed
              /\ sent' = sent \cup {Msg(s, c)} /\ sent' \subseteq Message
              /\ InOrder(sent, Msg(s, c))
<1>1. executed \in [Slot -> Nat] /\ TxCount \in [Slot -> Nat] /\ \A t \in Slot : executed[t] <= TxCount[t]
  BY ProducerAssumption DEF IInv, Types
<1>2. SendsTransaction(s) =>
        /\ executed' \in [Slot -> Nat] /\ executed'[s] = executed[s] + 1
        /\ \A t \in Slot : t # s => executed'[t] = executed[t]
        /\ \A t \in Slot : executed[t] <= executed'[t] /\ executed'[t] <= TxCount[t]
        /\ sent' = sent
  BY <1>1 DEF SendsTransaction
<1>3. Msg(s, "block") \in Message /\ \A c \in Levels : Msg(s, c) \in Message
  BY ProducerAssumption DEF Msg, Message, Kind
<1>4. SendsBlockMeta(s) => InOrder(sent, Msg(s, "block"))
  BY DEF SendsBlockMeta, Replays, InOrder, Msg, Before
<1>5. SendsBlockMeta(s) => FinalizedIn(sent') = FinalizedIn(sent)
  BY DEF SendsBlockMeta, FinalizedIn, Msg
<1>6. QED
  BY <1>2, <1>3, <1>4, <1>5 DEF SendsBlockMeta, SendsStatus, IInv, Types

\* The node goes on and nobody listens.
LEMMA UnheardStep ==
  ASSUME IInv, NEW s \in Slot, Unheard,
         SendsTransaction(s) \/ SendsBlockMeta(s) \/ \E c \in Levels : SendsStatus(s, c)
  PROVE  IInv'
<1>1. /\ executed' \in [Slot -> Nat]
      /\ \A t \in Slot : executed[t] <= executed'[t] /\ executed'[t] <= TxCount[t]
      /\ sent \subseteq sent' /\ sent' \subseteq Message
  BY NodeFacts DEF IInv, Types
<1>2. /\ task # "running"
      /\ UNCHANGED <<before, offset, task, transactions, geyser_rx, pc, messages, written>>
  BY DEF Unheard, taskVars, historyVars, mainVars
<1>3. Types'
  <2>1. \A t \in Slot : offset[t] \in 0 .. executed'[t]
    BY <1>1 DEF IInv, Types
  <2>2. QED
    BY <1>1, <1>2, <2>1 DEF IInv, Types
<1>4. FlowOK(Flow)' /\ MessagesIn(Flow)' = MessagesIn(Flow)
  BY <1>1, <1>2, FlowStands
<1>5. ErrorsEnd'
  BY <1>2 DEF IInv, ErrorsEnd, Err, Item
<1>6. Gathered' /\ NoneMissing' /\ NothingSkipped'
  BY <1>2 DEF Gathered, NoneMissing, NothingSkipped
<1>7. NothingBelowRoot'
  BY <1>2 DEF IInv, NothingBelowRoot, MessagesIn, MessageOf, Msg, FinalizedIn
<1>8. QED
  BY <1>3, <1>4, <1>5, <1>6, <1>7 DEF IInv

\* The task collects a transaction.
LEMMA HeardTransaction ==
  ASSUME IInv, NEW s \in Slot, Transaction(s), task = "running"
  PROVE  IInv'
<1>1. /\ executed' \in [Slot -> Nat] /\ executed'[s] = executed[s] + 1
      /\ \A t \in Slot : t # s => executed'[t] = executed[t]
      /\ \A t \in Slot : executed[t] <= executed'[t] /\ executed'[t] <= TxCount[t]
      /\ sent' = sent
  BY NodeFacts DEF Transaction
<1>2. /\ transactions' = [t \in DOMAIN transactions \cup {s} |->
            IF t = s THEN (IF s \in DOMAIN transactions THEN transactions[s] ELSE 0) + 1
                     ELSE transactions[t]]
      /\ UNCHANGED <<before, offset, task, geyser_rx, pc, messages, written>>
  BY DEF Transaction, Unheard, historyVars, mainVars
<1>3. Msg(s, "block") \notin sent /\ \A f \in FinalizedIn(sent) : f < s
  BY DEF Transaction, SendsTransaction, Replays
<1>4. executed[s] \in Nat /\ offset[s] \in 0 .. executed[s] /\ executed'[s] <= TxCount[s] /\ TxCount[s] \in Nat
  BY <1>1, ProducerAssumption DEF IInv, Types
<1>5. transactions'[s] = executed'[s] - offset[s]
  <2>1. CASE s \in DOMAIN transactions
    BY <1>1, <1>2, <1>4, <2>1 DEF IInv, Gathered
  <2>2. CASE s \notin DOMAIN transactions
    <3>1. executed[s] = offset[s]
      BY <1>3, <2>2 DEF IInv, NoneMissing
    <3>2. QED
      BY <1>1, <1>2, <1>4, <2>2, <3>1
  <2>3. QED
    BY <2>1, <2>2
<1>6. DOMAIN transactions' = DOMAIN transactions \cup {s}
      /\ \A t \in DOMAIN transactions : t # s => transactions'[t] = transactions[t]
  BY <1>2
<1>7. Types'
  <2>1. transactions'[s] \in 1 .. TxCount[s]
    BY <1>1, <1>4, <1>5
  <2>2. \A t \in DOMAIN transactions' : transactions'[t] \in 1 .. TxCount[t]
    BY <1>6, <2>1 DEF IInv, Types
  <2>3. \A t \in Slot : offset[t] \in 0 .. executed'[t]
    BY <1>1 DEF IInv, Types
  <2>4. QED
    BY <1>1, <1>2, <1>6, <2>2, <2>3 DEF IInv, Types
<1>8. FlowOK(Flow)' /\ MessagesIn(Flow)' = MessagesIn(Flow)
  BY <1>1, <1>2, FlowStands
<1>9. ErrorsEnd'
  BY <1>2 DEF IInv, ErrorsEnd, Err, Item
<1>10. Gathered'
  BY <1>1, <1>2, <1>3, <1>5, <1>6 DEF IInv, Types, Gathered, Msg
<1>11. NoneMissing'
  BY <1>1, <1>2, <1>6 DEF IInv, NoneMissing, Msg, FinalizedIn
<1>12. NothingBelowRoot'
  <2>1. \A f \in FinalizedIn(MessagesIn(Flow)) : s >= f
    <3> SUFFICES ASSUME NEW f \in FinalizedIn(MessagesIn(Flow)) PROVE s >= f
      OBVIOUS
    <3>1. f \in FinalizedIn(sent)
      BY FlowFinalized
    <3>2. f < s
      BY <1>3, <3>1
    <3>3. f \in Slot
      BY <3>1 DEF FinalizedIn
    <3>4. f \in Nat /\ s \in Nat
      BY <3>3, ChainAssumption
    <3>5. QED
      BY <3>2, <3>4
  <2>2. \A f \in FinalizedIn(MessagesIn(Flow)) : \A t \in DOMAIN transactions : t >= f
    BY OfFlow DEF IInv
  <2>3. \A f \in FinalizedIn(MessagesIn(Flow)) : \A t \in DOMAIN transactions' : t >= f
    BY <1>6, <2>1, <2>2
  <2>4. QED
    BY <1>2, <2>3 DEF NothingBelowRoot, Flow, MessagesIn, MessageOf, Msg, FinalizedIn
<1>13. NothingSkipped'
  BY <1>1, <1>2 DEF IInv, NothingSkipped, MessagesIn, MessageOf, Msg
<1>14. QED
  BY <1>7, <1>8, <1>9, <1>10, <1>11, <1>12, <1>13 DEF IInv

\* The node is done with a block of which the task has transactions, or none.
LEMMA HeardBlockMeta ==
  ASSUME IInv, NEW s \in Slot, BlockMeta(s), task = "running"
  PROVE  IInv'
<1>1. /\ executed' = executed /\ executed[s] = TxCount[s]
      /\ sent' = sent \cup {Msg(s, "block")} /\ sent' \subseteq Message
      /\ InOrder(sent, Msg(s, "block"))
      /\ FinalizedIn(sent') = FinalizedIn(sent)
  BY NodeFacts DEF BlockMeta
<1>2. Msg(s, "block") \notin sent /\ \A f \in FinalizedIn(sent) : f < s
  BY DEF BlockMeta, SendsBlockMeta, Replays
<1>3. UNCHANGED <<before, offset, task, pc, messages, written>>
  BY DEF BlockMeta, Unheard, taskVars, historyVars, mainVars
<1>4. /\ sent \subseteq sent'
      /\ \A t \in Slot : t # s /\ Msg(t, "block") \notin sent => Msg(t, "block") \notin sent'
  BY <1>1 DEF Msg
<1>5. \A t \in Slot : executed[t] \in Nat /\ TxCount[t] \in Nat /\ offset[t] \in 0 .. executed[t]
  BY ProducerAssumption DEF IInv, Types
<1>6. CASE s \notin DOMAIN transactions
  <2>1. transactions' = transactions /\ geyser_rx' = geyser_rx
    BY <1>6 DEF BlockMeta, Unheard, taskVars
  <2>2. offset[s] = TxCount[s]
    BY <1>1, <1>2, <1>6 DEF IInv, NoneMissing
  <2>3. FlowOK(Flow)' /\ MessagesIn(Flow)' = MessagesIn(Flow)
    BY <1>3, <1>4, <2>1, FlowStands
  <2>4. Types'
    BY <1>1, <1>3, <1>4, <2>1 DEF IInv, Types
  <2>5. ErrorsEnd'
    BY <1>3, <2>1 DEF IInv, ErrorsEnd, Err, Item
  <2>6. Gathered'
    BY <1>1, <1>3, <1>4, <1>6, <2>1 DEF IInv, Types, Gathered, Msg
  <2>7. NoneMissing'
    BY <1>1, <1>3, <1>4, <2>1 DEF IInv, NoneMissing, Msg
  <2>8. NothingBelowRoot'
    BY <1>3, <2>1 DEF IInv, NothingBelowRoot, MessagesIn, MessageOf, Msg, FinalizedIn
  <2>9. NothingSkipped'
    <3>1. \A m \in sent' \ before : m \in sent \ before \/ m = Msg(s, "block")
      BY <1>1
    <3>2. Msg(s, "block").kind = "block" /\ Msg(s, "block").slot = s
      BY DEF Msg
    <3>3. \A m \in sent \ before :
            (m.kind = "block" /\ offset[m.slot] = TxCount[m.slot]) \/ m \in MessagesIn(Flow)
      BY OfFlow DEF IInv
    <3>4. \A m \in sent' \ before :
            (m.kind = "block" /\ offset[m.slot] = TxCount[m.slot]) \/ m \in MessagesIn(Flow)
      BY <2>2, <3>1, <3>2, <3>3
    <3>5. QED
      BY <1>3, <2>1, <3>4 DEF NothingSkipped, Flow, MessagesIn, MessageOf, Msg
  <2>10. QED
    BY <2>3, <2>4, <2>5, <2>6, <2>7, <2>8, <2>9 DEF IInv
<1>7. CASE s \in DOMAIN transactions
  <2> DEFINE x == Item(s, "block", transactions[s])
  <2>1. /\ geyser_rx' = Append(geyser_rx, x)
        /\ transactions' = [t \in DOMAIN transactions \ {s} |-> transactions[t]]
    BY <1>7 DEF BlockMeta, Unheard
  <2>2. transactions[s] = TxCount[s] - offset[s] /\ transactions[s] \in Nat
    BY <1>1, <1>5, <1>7 DEF IInv, Gathered, Types
  <2>3. /\ x \in ItemType /\ MessageOf(x) = Msg(s, "block")
        /\ x.kind = "block" /\ x.slot = s /\ x.txs = transactions[s] /\ x # Err
    BY <2>2, ItemFields DEF Kind
  <2>4. Msg(s, "block") \in sent' /\ Msg(s, "block") \in Message
    BY <1>1
  <2> HIDE DEF x
  <2>5. /\ Flow' = Append(Flow, x) /\ geyser_rx' \in Seq(ItemType)
        /\ MessagesIn(Flow)' = MessagesIn(Flow) \cup {Msg(s, "block")}
    BY <1>3, <2>1, <2>3, FlowAppended DEF IInv
  <2>6. FlowOK(Flow)'
    BY <1>1, <1>3, <1>4, <2>2, <2>3, <2>4, <2>5, AppendKeepsFlow
  <2>7. Types'
    <3>1. DOMAIN transactions' \subseteq DOMAIN transactions
          /\ \A t \in DOMAIN transactions' : transactions'[t] = transactions[t]
      BY <2>1
    <3>2. /\ DOMAIN transactions' \subseteq Slot
          /\ \A t \in DOMAIN transactions' : transactions'[t] \in 1 .. TxCount[t]
      BY <3>1 DEF IInv, Types
    <3>3. QED
      BY <1>1, <1>3, <1>4, <2>5, <3>2 DEF IInv, Types
  <2>8. ErrorsEnd'
    <3>1. geyser_rx \in Seq(ItemType) /\ \A i \in DOMAIN geyser_rx : geyser_rx[i] # Err
      BY <1>3 DEF IInv, Types, ErrorsEnd
    <3>2. \A i \in DOMAIN geyser_rx' : geyser_rx'[i] # Err
      BY <2>1, <2>3, <3>1, AppendedElements
    <3>3. QED
      BY <1>3, <3>2 DEF IInv, ErrorsEnd, Err, Item
  <2>9. Gathered'
    BY <1>1, <1>3, <1>4, <2>1 DEF IInv, Types, Gathered, Msg
  <2>10. NoneMissing'
    BY <1>1, <1>3, <1>4, <2>1 DEF IInv, NoneMissing, Msg
  <2>11. NothingBelowRoot'
    <3>1. FinalizedIn(MessagesIn(Flow) \cup {Msg(s, "block")}) = FinalizedIn(MessagesIn(Flow))
      BY DEF FinalizedIn, Msg
    <3>2. \A f \in FinalizedIn(MessagesIn(Flow)) : \A t \in DOMAIN transactions : t >= f
      BY OfFlow DEF IInv
    <3>3. DOMAIN transactions' \subseteq DOMAIN transactions
      BY <2>1
    <3>4. FinalizedIn(MessagesIn(Flow))' = FinalizedIn(MessagesIn(Flow)')
      BY DEF FinalizedIn, Msg
    <3>5. QED
      BY <2>5, <3>1, <3>2, <3>3, <3>4, OfFlowPrimed
  <2>12. NothingSkipped'
    <3>1. \A m \in sent' \ before : m \in sent \ before \/ m = Msg(s, "block")
      BY <1>1
    <3>2. \A m \in sent \ before :
            (m.kind = "block" /\ offset[m.slot] = TxCount[m.slot]) \/ m \in MessagesIn(Flow)
      BY <1>3, OfFlow DEF IInv
    <3>3. QED
      BY <1>3, <2>5, <3>1, <3>2, OfFlowPrimed
  <2>13. QED
    BY <2>6, <2>7, <2>8, <2>9, <2>10, <2>11, <2>12 DEF IInv
<1>8. QED
  BY <1>6, <1>7

\* The node reports a commitment level; a finalized one purges below it.
LEMMA HeardStatus ==
  ASSUME IInv, NEW s \in Slot, NEW c \in Levels, Status(s, c), task = "running"
  PROVE  IInv'
<1> DEFINE x == Item(s, c, 0)
           gone == IF Purges(c) THEN Purged(s) ELSE {}
<1>1. /\ executed' = executed
      /\ sent' = sent \cup {Msg(s, c)} /\ sent' \subseteq Message
      /\ InOrder(sent, Msg(s, c))
  BY NodeFacts DEF Status
<1>2. /\ \A f \in FinalizedIn(sent) : f < s
      /\ c \in CommitmentLevel /\ c \in Kind /\ c # "block"
  BY ProducerAssumption DEF Status, SendsStatus, Kind, CommitmentLevel
<1>3. /\ geyser_rx' = Append(geyser_rx, x)
      /\ transactions' = [t \in DOMAIN transactions \ gone |-> transactions[t]]
      /\ UNCHANGED <<before, offset, task, pc, messages, written>>
  BY DEF Status, Unheard, historyVars, mainVars
<1>4. /\ x \in ItemType /\ MessageOf(x) = Msg(s, c) /\ x.kind = c /\ x # Err
  BY <1>2, ItemFields
<1>5. /\ sent \subseteq sent'
      /\ \A t : Msg(t, "block") \in sent' => Msg(t, "block") \in sent
  BY <1>1, <1>2 DEF Msg
<1>6. DOMAIN transactions' = DOMAIN transactions \ gone
      /\ \A t \in DOMAIN transactions' : transactions'[t] = transactions[t]
  BY <1>3
<1>7. /\ c # "finalized" => gone = {}
      /\ c = "finalized" => \A t : t \in gone <=> t \in DOMAIN transactions /\ t < s
  BY DEF Purges, Purged
<1> HIDE DEF x, gone
<1>8. /\ Flow' = Append(Flow, x) /\ geyser_rx' \in Seq(ItemType)
      /\ MessagesIn(Flow)' = MessagesIn(Flow) \cup {Msg(s, c)}
  BY <1>3, <1>4, FlowAppended DEF IInv
<1>9. FlowOK(Flow)'
  <2>1. Msg(s, c) \in sent' /\ Msg(s, c) \in Message
    BY <1>1
  <2>2. QED
    BY <1>1, <1>2, <1>3, <1>4, <1>5, <1>8, <2>1, AppendKeepsFlow
<1>10. Types'
  <2>1. /\ DOMAIN transactions' \subseteq Slot
        /\ \A t \in DOMAIN transactions' : transactions'[t] \in 1 .. TxCount[t]
    BY <1>6 DEF IInv, Types
  <2>2. QED
    BY <1>1, <1>3, <1>5, <1>8, <2>1 DEF IInv, Types
<1>11. ErrorsEnd'
  <2>1. geyser_rx \in Seq(ItemType) /\ \A i \in DOMAIN geyser_rx : geyser_rx[i] # Err
    BY DEF IInv, Types, ErrorsEnd
  <2>2. \A i \in DOMAIN geyser_rx' : geyser_rx'[i] # Err
    BY <1>3, <1>4, <2>1, AppendedElements
  <2>3. QED
    BY <1>3, <2>2 DEF IInv, ErrorsEnd, Err, Item
<1>12. Gathered'
  BY <1>1, <1>3, <1>5, <1>6 DEF IInv, Types, Gathered, Msg
<1>13. FinalizedIn(sent) \subseteq FinalizedIn(sent') /\ (c = "finalized" => s \in FinalizedIn(sent'))
  BY <1>1 DEF FinalizedIn
<1>14. \A f \in FinalizedIn(MessagesIn(Flow)') :
         f \in FinalizedIn(MessagesIn(Flow)) \/ (f = s /\ c = "finalized")
  BY <1>8 DEF FinalizedIn, Msg
<1>15. s \in Nat /\ \A t \in DOMAIN transactions : t \in Nat
  BY ChainAssumption DEF IInv, Types
<1>16. NoneMissing'
  <2> SUFFICES ASSUME NEW t \in Slot \ DOMAIN transactions', Msg(t, "block") \notin sent',
                      \A f \in FinalizedIn(sent') : f < t
               PROVE  executed[t] = offset[t]
    BY <1>1, <1>3 DEF NoneMissing, FinalizedIn, Msg
  <2>1. t \notin DOMAIN transactions
    BY <1>6, <1>7, <1>13, <1>15
  <2>2. QED
    BY <1>5, <1>13, <2>1 DEF IInv, NoneMissing
<1>17. NothingBelowRoot'
  <2>1. \A f \in FinalizedIn(MessagesIn(Flow)) : \A t \in DOMAIN transactions : t >= f
    BY OfFlow DEF IInv
  <2>2. c = "finalized" => \A t \in DOMAIN transactions' : t >= s
    BY <1>6, <1>7, <1>15
  <2>3. FinalizedIn(MessagesIn(Flow))' = FinalizedIn(MessagesIn(Flow)')
    BY DEF FinalizedIn, Msg
  <2>4. QED
    BY <1>6, <1>14, <2>1, <2>2, <2>3, OfFlowPrimed
<1>18. NothingSkipped'
  <2>1. \A m \in sent' \ before : m \in sent \ before \/ m = Msg(s, c)
    BY <1>1
  <2>2. \A m \in sent \ before :
          (m.kind = "block" /\ offset[m.slot] = TxCount[m.slot]) \/ m \in MessagesIn(Flow)
    BY OfFlow DEF IInv
  <2>3. QED
    BY <1>3, <1>8, <2>1, <2>2, OfFlowPrimed
<1>19. QED
  BY <1>9, <1>10, <1>11, <1>12, <1>16, <1>17, <1>18 DEF IInv

\* The stream ends with an error, or the task just dies.
LEMMA TaskEnds ==
  ASSUME IInv, StreamFails \/ TaskPanics
  PROVE  IInv'
<1>1. /\ task = "running" /\ task' = "ended"
      /\ UNCHANGED <<executed, sent, before, offset, transactions, pc, messages, written>>
  BY DEF StreamFails, TaskPanics, nodeVars, historyVars, mainVars
<1>2. Gathered' /\ NoneMissing' /\ NothingSkipped'
  BY <1>1 DEF Gathered, NoneMissing, NothingSkipped
<1>3. CASE TaskPanics
  <2>1. geyser_rx' = geyser_rx
    BY <1>3 DEF TaskPanics
  <2>2. FlowOK(Flow)'
    BY <1>1, <2>1, FlowStands
  <2>3. Types' /\ ErrorsEnd'
    BY <1>1, <2>1 DEF IInv, Types, ErrorsEnd, Err, Item
  <2>4. NothingBelowRoot'
    BY <1>1, <2>1 DEF IInv, NothingBelowRoot, MessagesIn, MessageOf, Msg, FinalizedIn
  <2>5. QED
    BY <1>2, <2>2, <2>3, <2>4 DEF IInv
<1>4. CASE StreamFails
  <2>1. geyser_rx' = Append(geyser_rx, Err)
    BY <1>4 DEF StreamFails
  <2>2. /\ Flow' = Append(Flow, Err) /\ geyser_rx' \in Seq(ItemType)
        /\ MessagesIn(Flow)' = MessagesIn(Flow) \cup {MessageOf(Err)}
    BY <1>1, <2>1, ItemFields, FlowAppended DEF IInv
  <2>3. FlowOK(Flow)'
    BY <1>1, <2>2, ItemFields, AppendKeepsFlow
  <2>4. Types'
    BY <1>1, <2>2 DEF IInv, Types
  <2>5. ErrorsEnd'
    <3>1. geyser_rx \in Seq(ItemType) /\ \A i \in DOMAIN geyser_rx : geyser_rx[i] # Err
      BY <1>1 DEF IInv, Types, ErrorsEnd
    <3>2. \A i \in DOMAIN geyser_rx' : geyser_rx'[i] = Err => i = Len(geyser_rx')
      BY <2>1, <3>1, ItemFields, AppendedElements
    <3>3. QED
      BY <1>1, <3>2 DEF IInv, ErrorsEnd, Err, Item
  <2>6. NothingBelowRoot'
    <3>1. FinalizedIn(MessagesIn(Flow) \cup {MessageOf(Err)}) = FinalizedIn(MessagesIn(Flow))
      BY ItemFields DEF FinalizedIn, Msg, MessageOf
    <3>2. FinalizedIn(MessagesIn(Flow))' = FinalizedIn(MessagesIn(Flow)')
      BY DEF FinalizedIn, Msg
    <3>3. QED
      BY <1>1, <2>2, <3>1, <3>2, OfFlow, OfFlowPrimed DEF IInv
  <2>7. QED
    BY <1>2, <2>3, <2>4, <2>5, <2>6 DEF IInv
<1>5. QED
  BY <1>3, <1>4

\* A subscription is opened in the middle of what the node does.
LEMMA SubscribeStep ==
  ASSUME IInv, Subscribe
  PROVE  IInv'
<1>1. /\ pc = "connect" /\ pc' = "select" /\ task' = "running" /\ before' = sent
      /\ offset' = [s \in Slot |-> IF Msg(s, "block") \in sent THEN offset[s] ELSE executed[s]]
      /\ UNCHANGED <<executed, sent, transactions, geyser_rx, messages, written>>
  BY DEF Subscribe, nodeVars
<1>2. task = "none" /\ DOMAIN transactions = {} /\ geyser_rx = <<>>
  BY <1>1 DEF IInv, Types
<1>3. \A s \in Slot : Msg(s, "block") \in sent => offset'[s] = offset[s]
  BY <1>1
<1>4. FlowOK(Flow)'
  BY <1>1, <1>3, FlowStands
<1>5. Types'
  <2>1. \A s \in Slot : offset'[s] \in 0 .. executed[s]
    BY <1>1 DEF IInv, Types
  <2>2. QED
    BY <1>1, <1>2, <2>1 DEF IInv, Types
<1>6. ErrorsEnd'
  BY <1>1, <1>2 DEF IInv, ErrorsEnd, Err, Item
<1>7. Gathered' /\ NothingBelowRoot'
  BY <1>1, <1>2 DEF Gathered, NothingBelowRoot
<1>8. NoneMissing'
  BY <1>1, <1>2 DEF NoneMissing, Msg
<1>9. NothingSkipped'
  BY <1>1 DEF NothingSkipped
<1>10. QED
  BY <1>4, <1>5, <1>6, <1>7, <1>8, <1>9 DEF IInv

-----------------------------------------------------------------------------
\* main moves an item along, which leaves the flow as it is.
LEMMA FlowMoves ==
  ASSUME IInv, Flow' = Flow, UNCHANGED <<sent, before, offset, executed, task, transactions>>
  PROVE  FlowOK(Flow)' /\ Gathered' /\ NoneMissing' /\ NothingBelowRoot' /\ NothingSkipped'
<1>1. Flow \in Seq(ItemType) /\ Len(Flow) \in Nat
  BY FlowIsSeq DEF IInv
<1>2. FlowOK(Flow)'
  BY <1>1, PrefixKeepsFlow
<1>3. MessagesIn(Flow)' = MessagesIn(Flow)
  BY DEF MessagesIn, MessageOf, Msg
<1>4. Gathered' /\ NoneMissing'
  BY DEF IInv, Gathered, NoneMissing, FinalizedIn, Msg
<1>5. NothingBelowRoot' /\ NothingSkipped'
  <2>1. FinalizedIn(MessagesIn(Flow))' = FinalizedIn(MessagesIn(Flow))
    BY <1>3 DEF FinalizedIn, Msg
  <2>2. QED
    BY <1>3, <2>1, OfFlow, OfFlowPrimed DEF IInv
<1>6. QED
  BY <1>2, <1>4, <1>5

LEMMA Taken ==
  ASSUME IInv, NEW from \in {"select", "drain"}, Take(from, messages), Head(geyser_rx) # Err
  PROVE  IInv'
<1> DEFINE h == Head(geyser_rx)
           one == <<h>>
           rest == Tail(geyser_rx)
<1>1. /\ pc = from /\ geyser_rx # <<>>
      /\ geyser_rx' = rest /\ pc' = "drain" /\ messages' = Append(messages, h)
      /\ UNCHANGED <<executed, sent, before, offset, task, transactions, written>>
  BY DEF Take, nodeVars, taskVars, historyVars, Exit
<1>2. written \in Seq(ItemType) /\ messages \in Seq(ItemType) /\ geyser_rx \in Seq(ItemType)
  BY DEF IInv, Types
<1>3. /\ h \in ItemType /\ rest \in Seq(ItemType)
      /\ Len(rest) = Len(geyser_rx) - 1
      /\ \A i \in 1 .. Len(rest) : rest[i] = geyser_rx[i + 1]
  BY <1>1, <1>2, HeadTailProperties
<1>4. one \in Seq(ItemType) /\ geyser_rx = one \o rest
  BY <1>1, <1>2, <1>3
<1>5. messages' = messages \o one /\ messages' \in Seq(ItemType)
  BY <1>1, <1>2, <1>3, AppendIsConcat, AppendProperties
<1>6. h # Err
  OBVIOUS
<1> HIDE DEF h, one, rest
<1>7. Flow' = Flow
  <2>1. Flow' = (written \o (messages \o one)) \o rest
    BY <1>1, <1>5 DEF Flow
  <2>2. \A a, b, c \in Seq(ItemType) : (a \o b) \o c = a \o (b \o c)
    BY ConcatAssociative
  <2>3. written \o messages \in Seq(ItemType)
    BY <1>2, Concatenated
  <2>4. written \o (messages \o one) = (written \o messages) \o one
    <3>1. written \in Seq(ItemType) /\ messages \in Seq(ItemType) /\ one \in Seq(ItemType)
      BY <1>2, <1>4
    <3>2. QED
      BY <3>1, <2>2, Zenon
  <2>5. ((written \o messages) \o one) \o rest = (written \o messages) \o (one \o rest)
    BY <1>3, <1>4, <2>2, <2>3
  <2>6. QED
    BY <1>4, <2>1, <2>4, <2>5 DEF Flow
<1>8. Types'
  BY <1>1, <1>3, <1>5 DEF IInv, Types
<1>9. ErrorsEnd'
  <2>1. \A i \in DOMAIN messages' : messages'[i] # Err
    BY <1>1, <1>2, <1>3, <1>6, AppendedElements DEF IInv, ErrorsEnd
  <2>2. Len(rest) \in Nat /\ Len(geyser_rx) \in Nat /\ DOMAIN rest = 1 .. Len(rest)
        /\ DOMAIN geyser_rx = 1 .. Len(geyser_rx)
    BY <1>2, <1>3, LenProperties
  <2>3. \A i \in DOMAIN rest : i + 1 \in DOMAIN geyser_rx /\ rest[i] = geyser_rx[i + 1]
    BY <1>3, <2>2
  <2>4. \A i \in DOMAIN rest : rest[i] = Err => i = Len(rest) /\ task # "running"
    BY <1>3, <2>2, <2>3 DEF IInv, ErrorsEnd
  <2>5. QED
    BY <1>1, <2>1, <2>4 DEF IInv, ErrorsEnd, Err, Item
<1>10. QED
  BY <1>1, <1>7, <1>8, <1>9, FlowMoves DEF IInv

\* A process that ends leaves what Redis has of it: the beginning of the flow.
LEMMA Exits ==
  ASSUME IInv, Exit, written' \in {written, written \o messages}
  PROVE  IInv'
<1>1. /\ pc' = "exited" /\ task' = "none" /\ DOMAIN transactions' = {}
      /\ geyser_rx' = <<>> /\ messages' = <<>> /\ before' = {}
      /\ UNCHANGED <<executed, sent, offset>>
  BY DEF Exit, nodeVars
<1>2. /\ written \in Seq(ItemType) /\ messages \in Seq(ItemType) /\ geyser_rx \in Seq(ItemType)
      /\ written \o messages \in Seq(ItemType)
  BY Concatenated DEF IInv, Types
<1>3. written' \in Seq(ItemType)
  BY <1>2
<1>4. Flow' = written'
  BY <1>1, <1>3, ConcatEmptySeq DEF Flow
<1>5. Len(written') <= Len(Flow) /\ \A i \in 1 .. Len(written') : written'[i] = Flow[i]
  <2>1. /\ Len(Flow) = Len(written \o messages) + Len(geyser_rx)
        /\ \A i \in 1 .. Len(written \o messages) : Flow[i] = (written \o messages)[i]
    BY <1>2, Concatenated DEF Flow
  <2>2. /\ Len(written \o messages) = Len(written) + Len(messages)
        /\ \A i \in 1 .. Len(written) : (written \o messages)[i] = written[i]
    BY <1>2, Concatenated
  <2>3. Len(written) \in Nat /\ Len(messages) \in Nat /\ Len(geyser_rx) \in Nat
    BY <1>2, LenProperties
  <2>4. CASE written' = written
    BY <2>1, <2>2, <2>3, <2>4
  <2>5. CASE written' = written \o messages
    BY <2>1, <2>2, <2>3, <2>5
  <2>6. QED
    BY <2>4, <2>5
<1>6. FlowOK(Flow)'
  BY <1>1, <1>3, <1>4, <1>5, PrefixKeepsFlow
<1>7. Types'
  BY <1>1, <1>2, <1>3, EmptySeq DEF IInv, Types
<1>8. ErrorsEnd'
  <2>1. \A i \in DOMAIN written' : written'[i] # Err
    <3>1. CASE written' = written
      BY <3>1 DEF IInv, ErrorsEnd
    <3>2. CASE written' = written \o messages
      BY <1>2, <3>2, ConcatenatedErrors DEF IInv, ErrorsEnd
    <3>3. QED
      BY <3>1, <3>2
  <2>2. QED
    BY <1>1, <2>1 DEF ErrorsEnd, Err, Item
<1>9. Gathered' /\ NoneMissing' /\ NothingSkipped' /\ NothingBelowRoot'
  BY <1>1 DEF Gathered, NoneMissing, NothingSkipped, NothingBelowRoot
<1>10. QED
  BY <1>6, <1>7, <1>8, <1>9 DEF IInv

LEMMA Executed ==
  ASSUME IInv, Execute
  PROVE  IInv'
<1>1. /\ pc = "drain" /\ pc' = "select" /\ geyser_rx = <<>> /\ messages' = <<>>
      /\ written' = written \o messages
      /\ UNCHANGED <<executed, sent, before, offset, task, transactions, geyser_rx>>
  BY DEF Execute, NextBatch, nodeVars, taskVars, historyVars
<1>2. /\ written \in Seq(ItemType) /\ messages \in Seq(ItemType)
      /\ written \o messages \in Seq(ItemType)
  BY Concatenated DEF IInv, Types
<1>3. Flow' = Flow
  <2>1. (written \o messages) \o <<>> = written \o messages
    BY <1>2, ConcatEmptySeq
  <2>2. QED
    BY <1>1, <2>1 DEF Flow
<1>4. Types'
  BY <1>1, <1>2, EmptySeq DEF IInv, Types
<1>5. ErrorsEnd'
  <2>1. \A i \in DOMAIN (written \o messages) : (written \o messages)[i] # Err
    BY <1>2, ConcatenatedErrors DEF IInv, ErrorsEnd
  <2>2. QED
    BY <1>1, <2>1 DEF ErrorsEnd, Err, Item
<1>6. QED
  BY <1>1, <1>3, <1>4, <1>5, FlowMoves DEF IInv

LEMMA Restarts ==
  ASSUME IInv, Restart
  PROVE  IInv'
<1>1. /\ pc = "exited" /\ pc' = "connect"
      /\ UNCHANGED <<executed, sent, before, offset, task, transactions, geyser_rx, messages, written>>
  BY DEF Restart, nodeVars, taskVars, historyVars
<1>2. Types' /\ ErrorsEnd' /\ Flow' = Flow
  BY <1>1 DEF IInv, Types, ErrorsEnd, Flow, Err, Item
<1>3. QED
  BY <1>1, <1>2, FlowMoves DEF IInv

-----------------------------------------------------------------------------
LEMMA NextKeeps == IInv /\ [Next]_vars => IInv'
<1> SUFFICES ASSUME IInv, [Next]_vars PROVE IInv'
  OBVIOUS
<1>1. CASE UNCHANGED vars
  <2>1. UNCHANGED <<executed, sent, before, offset, task, transactions, geyser_rx, pc, messages, written>>
    BY <1>1 DEF vars, nodeVars, taskVars, historyVars, mainVars
  <2>2. Types' /\ ErrorsEnd' /\ Flow' = Flow
    BY <2>1 DEF IInv, Types, ErrorsEnd, Flow, Err, Item
  <2>3. QED
    BY <2>1, <2>2, FlowMoves DEF IInv
<1>2. CASE Subscribe
  BY <1>2, SubscribeStep
<1>3. ASSUME NEW s \in Slot, Transaction(s) PROVE IInv'
  BY <1>3, HeardTransaction, UnheardStep DEF Transaction
<1>4. ASSUME NEW s \in Slot, BlockMeta(s) PROVE IInv'
  BY <1>4, HeardBlockMeta, UnheardStep DEF BlockMeta
<1>5. ASSUME NEW s \in Slot, NEW c \in Levels, Status(s, c) PROVE IInv'
  <2>1. CASE task = "running"
    BY <1>5, <2>1, HeardStatus
  <2>2. CASE task # "running"
    BY <1>5, <2>2, UnheardStep DEF Status
  <2>3. QED
    BY <2>1, <2>2
<1>6. CASE StreamFails \/ TaskPanics
  BY <1>6, TaskEnds
<1>7. CASE Receive \/ Drain
  <2>1. PICK from \in {"select", "drain"} : Take(from, messages)
    <3>1. Receive => messages = <<>>
      BY DEF Receive, Take, IInv, Types
    <3>2. QED
      BY <1>7, <3>1 DEF Receive, Drain, Collected
  <2>2. CASE Head(geyser_rx) = Err
    BY <2>1, <2>2, Exits DEF Take
  <2>3. CASE Head(geyser_rx) # Err
    BY <2>1, <2>3, Taken
  <2>4. QED
    BY <2>2, <2>3
<1>8. CASE StreamFinished \/ Signal
  BY <1>8, Exits DEF StreamFinished, Signal
<1>9. CASE Execute
  BY <1>9, Executed
<1>10. CASE ExecuteFails
  BY <1>10, Exits DEF ExecuteFails
<1>11. CASE Restart
  BY <1>11, Restarts
<1>12. QED
  BY <1>1, <1>2, <1>3, <1>4, <1>5, <1>6, <1>7, <1>8, <1>9, <1>10, <1>11 DEF Next, Main

\* Redis has the beginning of the flow, and main's batch is what follows.
LEMMA PartsOfFlow ==
  ASSUME IInv
  PROVE  /\ Len(written) \in Nat /\ DOMAIN written = 1 .. Len(written)
         /\ \A i \in DOMAIN written : i \in DOMAIN Flow /\ Flow[i] = written[i]
         /\ \A i \in DOMAIN messages :
              Len(written) + i \in DOMAIN Flow /\ Flow[Len(written) + i] = messages[i]
<1>1. /\ written \in Seq(ItemType) /\ messages \in Seq(ItemType) /\ geyser_rx \in Seq(ItemType)
      /\ written \o messages \in Seq(ItemType)
  BY Concatenated DEF IInv, Types
<1>2. /\ Len(written \o messages) = Len(written) + Len(messages)
      /\ \A i \in 1 .. Len(written) : (written \o messages)[i] = written[i]
      /\ \A i \in 1 .. Len(messages) : (written \o messages)[Len(written) + i] = messages[i]
  BY <1>1, Concatenated
<1>3. /\ Len(Flow) = Len(written \o messages) + Len(geyser_rx)
      /\ \A i \in 1 .. Len(written \o messages) : Flow[i] = (written \o messages)[i]
  BY <1>1, Concatenated DEF Flow
<1>4. /\ Len(messages) \in Nat /\ Len(geyser_rx) \in Nat /\ Len(written) \in Nat
      /\ DOMAIN Flow = 1 .. Len(Flow) /\ DOMAIN written = 1 .. Len(written)
      /\ DOMAIN messages = 1 .. Len(messages)
  BY <1>1, FlowIsSeq, LenProperties DEF IInv
<1>5. \A i \in DOMAIN written : i \in DOMAIN Flow /\ Flow[i] = written[i]
  BY <1>2, <1>3, <1>4
<1>6. \A i \in DOMAIN messages : Len(written) + i \in 1 .. Len(written \o messages)
  BY <1>2, <1>4
<1>7. \A i \in DOMAIN messages :
        Len(written) + i \in DOMAIN Flow /\ Flow[Len(written) + i] = messages[i]
  BY <1>2, <1>3, <1>4, <1>6
<1>8. QED
  BY <1>4, <1>5, <1>7

LEMMA TypesAreOK == IInv => TypeOK
<1> SUFFICES ASSUME IInv PROVE TypeOK
  OBVIOUS
<1>1. ASSUME NEW i \in DOMAIN written PROVE MessageOf(written[i]) \in Message
  BY PartsOfFlow DEF IInv, FlowOK, ErrorsEnd, Types
<1>2. ASSUME NEW i \in DOMAIN messages PROVE MessageOf(messages[i]) \in Message
  BY PartsOfFlow DEF IInv, FlowOK, ErrorsEnd, Types
<1>3. MessagesIn(messages) \cup MessagesIn(written) \subseteq Message
  BY <1>1, <1>2 DEF MessagesIn
<1>4. QED
  BY <1>3 DEF IInv, Types, ErrorsEnd, TypeOK

LEMMA WrittenIsInOrder == IInv => WrittenInOrder
<1> SUFFICES ASSUME IInv, NEW i \in DOMAIN written
             PROVE  InOrder(MessagesIn(SubSeq(written, 1, i - 1)), MessageOf(written[i]))
  BY DEF WrittenInOrder
<1>1. written \in Seq(ItemType)
  BY DEF IInv, Types
<1>2. Len(written) \in Nat /\ DOMAIN written = 1 .. Len(written) /\ i \in 1 .. Len(written)
  BY PartsOfFlow
<1>3. \A j \in 1 .. Len(written) : j \in DOMAIN Flow /\ Flow[j] = written[j]
  BY PartsOfFlow
<1>4. written[i] # Err
  BY DEF IInv, ErrorsEnd
<1> DEFINE first == SubSeq(written, 1, i - 1)
<1>5. /\ DOMAIN first = 1 .. i - 1
      /\ \A j \in DOMAIN first : first[j] = written[j]
  <2>1. \A j \in 1 .. i - 1 : written[j] \in ItemType
    BY <1>1, <1>2, ElementOfSeq
  <2>2. /\ first \in Seq(ItemType) /\ Len(first) = i - 1
        /\ \A j \in 1 .. i - 1 : first[j] = written[j]
    BY <1>2, <2>1, SubSeqProperties
  <2> HIDE DEF first
  <2>3. DOMAIN first = 1 .. i - 1
    BY <2>2, LenProperties
  <2>4. QED
    BY <2>2, <2>3
<1> HIDE DEF first
<1>6. ASSUME NEW x \in MessagesIn(first) PROVE InOrder({x}, MessageOf(written[i]))
  <2>1. PICK j \in DOMAIN first : x = MessageOf(first[j])
    BY <1>6 DEF MessagesIn
  <2>2. j \in 1 .. Len(written) /\ j < i /\ x = MessageOf(written[j])
    BY <1>2, <1>5, <2>1
  <2>3. QED
    BY <1>2, <1>3, <1>4, <2>2 DEF IInv, FlowOK
<1>7. InOrder(MessagesIn(first), MessageOf(written[i]))
  BY <1>6, InOrderPairs
<1>8. QED
  BY <1>7 DEF first

LEMMA BlocksAreWhole == IInv => BlocksWhole
<1> SUFFICES ASSUME IInv, NEW i \in DOMAIN written, written[i].kind = "block"
             PROVE  written[i].txs = TxCount[written[i].slot] - offset[written[i].slot]
  BY DEF BlocksWhole
<1>1. i \in DOMAIN Flow /\ Flow[i] = written[i]
  BY PartsOfFlow
<1>2. QED
  BY <1>1 DEF IInv, FlowOK

-----------------------------------------------------------------------------
(***************************************************************************)
(* The producer's invariant, and what follows from it.                     *)
(***************************************************************************)
THEOREM ProducerInvariant == Spec => []IInv
<1>1. Init => IInv
  BY InitHolds
<1>2. IInv /\ [Next]_vars => IInv'
  BY NextKeeps
<1>3. QED
  BY <1>1, <1>2, PTL DEF Spec

\* Types, and who runs when.
THEOREM TypeCorrectness == Spec => []TypeOK
  BY ProducerInvariant, TypesAreOK, PTL

\* A block in Redis lacks exactly what was sent before the subscription.
THEOREM OnlyTheStartIsLost == Spec => []BlocksWhole
  BY ProducerInvariant, BlocksAreWhole, PTL

\* No transactions are kept for a slot below a finalized one.
THEOREM ForksArePurged == Spec => []NothingBelowRoot
<1>1. IInv => NothingBelowRoot
  BY DEF IInv
<1>2. QED
  BY <1>1, ProducerInvariant, PTL

\* A running task has passed on all it has heard.
THEOREM HeardIsPassedOn == Spec => []NothingSkipped
<1>1. IInv => NothingSkipped
  BY DEF IInv
<1>2. QED
  BY <1>1, ProducerInvariant, PTL

\* Redis is given the node's order, over all restarts.
THEOREM OrderIsKept == Spec => []WrittenInOrder
  BY ProducerInvariant, WrittenIsInOrder, PTL
=============================================================================

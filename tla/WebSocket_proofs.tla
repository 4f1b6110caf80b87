-------------------------- MODULE WebSocket_proofs --------------------------
(***************************************************************************)
(* For every capacity of the channel and of the sink and any number of     *)
(* updates and calls: a subscriber misses no update while its connection   *)
(* is open, and every update follows the confirmation of its filter.       *)
(***************************************************************************)
EXTENDS WebSocket, SequenceTheorems, FiniteSetTheorems, TLAPS

-----------------------------------------------------------------------------
\* What a step may do to the messages on their way to the client.
Stays == Queued' = Queued

Shortens ==
  /\ Len(Queued') <= Len(Queued)
  /\ \A i \in 1 .. Len(Queued') : Queued'[i] = Queued[i]

Lengthens(m) ==
  /\ Len(Queued') = Len(Queued) + 1
  /\ \A i \in 1 .. Len(Queued) : Queued'[i] = Queued[i]
  /\ Queued'[Len(Queued) + 1] = m

LEMMA QueueParts ==
  ASSUME NEW a \in Seq(Messages), NEW b \in Seq(Messages), NEW c \in Seq(Messages)
  PROVE  LET q == a \o b \o c
         IN  /\ q \in Seq(Messages) /\ DOMAIN q = 1 .. Len(q)
             /\ Len(a) \in Nat /\ Len(b) \in Nat /\ Len(c) \in Nat
             /\ Len(q) = Len(a) + Len(b) + Len(c)
             /\ \A i \in 1 .. Len(a) + Len(b) : q[i] = (a \o b)[i]
             /\ \A i \in 1 .. Len(a) : q[i] = a[i]
<1> DEFINE q == a \o b \o c
           ab == a \o b
<1>1. Len(a) \in Nat /\ Len(b) \in Nat /\ Len(c) \in Nat
  BY LenProperties
<1>2. /\ ab \in Seq(Messages) /\ Len(ab) = Len(a) + Len(b)
      /\ \A i \in 1 .. Len(a) + Len(b) : ab[i] = IF i <= Len(a) THEN a[i] ELSE b[i - Len(a)]
  BY ConcatProperties
<1> HIDE DEF ab
<1>3. /\ ab \o c \in Seq(Messages) /\ Len(ab \o c) = Len(ab) + Len(c)
      /\ \A i \in 1 .. Len(ab) + Len(c) :
           (ab \o c)[i] = IF i <= Len(ab) THEN ab[i] ELSE c[i - Len(ab)]
  <2>1. ab \in Seq(Messages)
    BY <1>2
  <2>2. QED
    BY <2>1, ConcatProperties
<1>4. q = ab \o c
  BY DEF ab
<1> HIDE DEF q
<1>5. q \in Seq(Messages) /\ Len(q) = Len(a) + Len(b) + Len(c) /\ DOMAIN q = 1 .. Len(q)
  BY <1>2, <1>3, <1>4, LenProperties
<1>6. \A i \in 1 .. Len(a) + Len(b) : q[i] = ab[i]
  <2>1. \A i \in 1 .. Len(a) + Len(b) : i \in 1 .. Len(ab) + Len(c) /\ i <= Len(ab)
    BY <1>1, <1>2
  <2>2. QED
    BY <1>3, <1>4, <2>1
<1>7. \A i \in 1 .. Len(a) : q[i] = a[i]
  <2>1. \A i \in 1 .. Len(a) : i \in 1 .. Len(a) + Len(b) /\ i <= Len(a)
    BY <1>1
  <2>2. QED
    BY <1>2, <1>6, <2>1
<1>8. QED
  BY <1>1, <1>5, <1>6, <1>7 DEF q, ab

LEMMA QueuedIsSeq ==
  ASSUME TypeOK
  PROVE  Queued \in Seq(Messages) /\ Len(Queued) \in Nat /\ DOMAIN Queued = 1 .. Len(Queued)
  BY QueueParts, LenProperties DEF TypeOK, Queued

\* Fed: from the slot into the sink.
LEMMA FedStays ==
  ASSUME NEW a \in Seq(Messages), NEW b \in Seq(Messages), NEW c \in Seq(Messages)
  PROVE  a \o (b \o c) \o <<>> = a \o b \o c
<1>1. b \o c \in Seq(Messages)
  BY ConcatProperties
<1>2. a \o (b \o c) \in Seq(Messages) /\ (a \o b) \o c = a \o (b \o c)
  BY <1>1, ConcatProperties, ConcatAssociative
<1>3. (a \o (b \o c)) \o <<>> = a \o (b \o c)
  BY <1>2, ConcatEmptySeq
<1>4. QED
  BY <1>2, <1>3

\* Written: from the sink to the wire.
LEMMA WrittenStays ==
  ASSUME NEW a \in Seq(Messages), NEW b \in Seq(Messages), b # <<>>
  PROVE  Append(a, Head(b)) \o Tail(b) = a \o b
<1> DEFINE h == <<b[1]>>
<1>1. Len(b) \in Nat \ {0} /\ Tail(b) = SubSeq(b, 2, Len(b)) /\ Tail(b) \in Seq(Messages)
  BY EmptySeq, TailIsSubSeq, HeadTailProperties
<1>2. b[1] \in Messages /\ Head(b) = b[1]
  BY <1>1, ElementOfSeq
<1>3. SubSeq(b, 1, Len(b)) = h \o SubSeq(b, 1 + 1, Len(b)) /\ SubSeq(b, 1, Len(b)) = b
  BY <1>1, SubSeqRecursiveFirst, SubSeqFull
<1>4. b = h \o Tail(b)
  BY <1>1, <1>3
<1>5. h \in Seq(Messages) /\ Append(a, b[1]) = a \o h
  BY <1>2, AppendIsConcat
<1> HIDE DEF h
<1>6. (a \o h) \o Tail(b) = a \o (h \o Tail(b))
  BY <1>1, <1>5, ConcatAssociative
<1>7. QED
  BY <1>2, <1>4, <1>5, <1>6

-----------------------------------------------------------------------------
(***************************************************************************)
(* The inductive invariant: beyond the two properties, the slot is empty   *)
(* outside of the feed, only Close frames come after the loop, nothing is  *)
(* sent before a subscription, and the filter in force is the last one     *)
(* confirmed.                                                              *)
(***************************************************************************)
Open == pc \in {"feed", "select"}

SlotTaken == pc # "feed" => websocket_tx_message = <<>>

CloseFrames == \A i \in 1 .. Len(close) : close[i].type = "close"

NobodySubscribed == filter = 0 => UpdatesUpTo(Len(Queued)) = {}

Confirmed(id, i) ==
  \E j \in 1 .. i - 1 :
    /\ Queued[j] = Reply("subscribed", id)
    /\ \A k \in j + 1 .. i - 1 : Queued[k].type # "subscribed"

LastConfirmed == Open /\ filter # 0 => Confirmed(filter, Len(Queued) + 1)

IInv ==
  /\ TypeOK
  /\ SlotTaken
  /\ CloseFrames
  /\ NobodySubscribed
  /\ NoGap
  /\ FilterInForce
  /\ LastConfirmed

\* How many updates there are up to a message, when the queue moves.
LEMMA UpdatesAreFinite ==
  ASSUME NEW i \in Nat
  PROVE  IsFiniteSet(UpdatesUpTo(i)) /\ Cardinality(UpdatesUpTo(i)) \in Nat
<1>1. IsFiniteSet(1 .. i) /\ UpdatesUpTo(i) \in SUBSET (1 .. i)
  BY FS_Interval DEF UpdatesUpTo
<1>2. QED
  BY <1>1, FS_Subset, FS_CardinalityType

\* A shorter queue keeps both properties.
LEMMA ShorterQueue ==
  ASSUME IInv, Shortens, Queued' \in Seq(Messages), UNCHANGED <<since, filter>>, ~Open'
  PROVE  NoGap' /\ FilterInForce' /\ LastConfirmed' /\ NobodySubscribed'
<1>1. Len(Queued) \in Nat /\ Len(Queued') \in Nat /\ Len(Queued') <= Len(Queued)
      /\ DOMAIN Queued = 1 .. Len(Queued) /\ DOMAIN Queued' = 1 .. Len(Queued')
  BY QueuedIsSeq, LenProperties DEF IInv, Shortens
<1>2. \A i \in 1 .. Len(Queued') : i \in 1 .. Len(Queued) /\ Queued'[i] = Queued[i]
  BY <1>1 DEF Shortens
<1>3. ASSUME NEW i \in 0 .. Len(Queued')
      PROVE  UpdatesUpTo(i)' = UpdatesUpTo(i)
  <2>1. \A j \in 1 .. i : j \in 1 .. Len(Queued')
    BY <1>1
  <2>2. QED
    BY <1>2, <2>1 DEF UpdatesUpTo
<1>4. ASSUME NEW i \in UpdatesUpTo(Len(Queued))'
      PROVE  Queued'[i].n = since + Cardinality(UpdatesUpTo(i)')
  <2>1. i \in 1 .. Len(Queued') /\ Queued'[i].type = "update"
    BY <1>4 DEF UpdatesUpTo
  <2>2. i \in UpdatesUpTo(Len(Queued)) /\ i \in 0 .. Len(Queued')
    BY <1>1, <1>2, <2>1 DEF UpdatesUpTo
  <2>3. QED
    BY <1>2, <1>3, <2>1, <2>2 DEF IInv, NoGap
<1>5. NoGap'
  BY <1>4 DEF NoGap, Open
<1>6. ASSUME NEW i \in 1 .. Len(Queued'), Queued'[i].type = "update"
      PROVE  \E j \in 1 .. i - 1 :
               /\ Queued'[j] = Reply("subscribed", Queued'[i].id)
               /\ \A k \in j + 1 .. i - 1 : Queued'[k].type # "subscribed"
  <2>1. PICK j \in 1 .. i - 1 :
          /\ Queued[j] = Reply("subscribed", Queued[i].id)
          /\ \A k \in j + 1 .. i - 1 : Queued[k].type # "subscribed"
    BY <1>1, <1>2, <1>6 DEF IInv, FilterInForce
  <2>2. j \in 1 .. Len(Queued') /\ \A k \in j + 1 .. i - 1 : k \in 1 .. Len(Queued')
    BY <1>1
  <2>3. QED
    BY <1>2, <2>1, <2>2
<1>7. FilterInForce'
  BY <1>1, <1>6 DEF FilterInForce, Reply
<1>8. NobodySubscribed'
  <2>1. UpdatesUpTo(Len(Queued))' \subseteq UpdatesUpTo(Len(Queued))
    BY <1>1, <1>2 DEF UpdatesUpTo
  <2>2. QED
    BY <2>1 DEF IInv, NobodySubscribed
<1>9. QED
  BY <1>5, <1>7, <1>8 DEF LastConfirmed

\* A message joins at the end; what is before it stands as it did.
LEMMA LongerQueue ==
  ASSUME IInv, NEW m, Lengthens(m), Queued' \in Seq(Messages)
  PROVE  /\ \A i \in 0 .. Len(Queued) : UpdatesUpTo(i)' = UpdatesUpTo(i)
         /\ \A i : i = Len(Queued) + 1 =>
              /\ UpdatesUpTo(i)' = UpdatesUpTo(Len(Queued)) \cup {j \in {i} : m.type = "update"}
              /\ Cardinality(UpdatesUpTo(i)') =
                   Cardinality(UpdatesUpTo(Len(Queued))) + IF m.type = "update" THEN 1 ELSE 0
         /\ (m.type = "update" => Confirmed(m.id, Len(Queued) + 1)) => FilterInForce'
         /\ \A id : \/ m = Reply("subscribed", id)
                    \/ m.type # "subscribed" /\ Confirmed(id, Len(Queued) + 1)
                    => \E j \in 1 .. Len(Queued') :
                         /\ Queued'[j] = Reply("subscribed", id)
                         /\ \A k \in j + 1 .. Len(Queued') : Queued'[k].type # "subscribed"
<1> DEFINE len == Len(Queued)
<1>1. /\ len \in Nat /\ Len(Queued') = len + 1
      /\ DOMAIN Queued = 1 .. len /\ DOMAIN Queued' = 1 .. len + 1
  BY QueuedIsSeq, LenProperties DEF IInv, Lengthens
<1>2. (\A i \in 1 .. len : Queued'[i] = Queued[i]) /\ Queued'[len + 1] = m
  BY DEF Lengthens
<1> HIDE DEF len
<1>3. ASSUME NEW i \in 0 .. len
      PROVE  UpdatesUpTo(i)' = UpdatesUpTo(i)
  <2>1. \A j \in 1 .. i : j \in 1 .. len
    BY <1>1
  <2>2. QED
    BY <1>2, <2>1 DEF UpdatesUpTo
<1>4. ASSUME NEW i, i = len + 1
      PROVE  /\ UpdatesUpTo(i)' = UpdatesUpTo(len) \cup {j \in {i} : m.type = "update"}
             /\ Cardinality(UpdatesUpTo(i)') =
                  Cardinality(UpdatesUpTo(len)) + IF m.type = "update" THEN 1 ELSE 0
  <2>1. \A j : j \in 1 .. i <=> j \in 1 .. len \/ j = i
    BY <1>1, <1>4
  <2>2. UpdatesUpTo(i)' = {j \in 1 .. i : Queued'[j].type = "update"}
    BY DEF UpdatesUpTo
  <2>3. UpdatesUpTo(len) = {j \in 1 .. len : Queued'[j].type = "update"}
    BY <1>2 DEF UpdatesUpTo
  <2>4. UpdatesUpTo(i)' = UpdatesUpTo(len) \cup {j \in {i} : m.type = "update"}
    BY <1>2, <1>4, <2>1, <2>2, <2>3
  <2>5. i \notin UpdatesUpTo(len) /\ IsFiniteSet(UpdatesUpTo(len)) /\ Cardinality(UpdatesUpTo(len)) \in Nat
    BY <1>1, <1>4, UpdatesAreFinite DEF UpdatesUpTo
  <2>6. CASE m.type = "update"
    <3>1. UpdatesUpTo(i)' = UpdatesUpTo(len) \cup {i}
      BY <2>4, <2>6
    <3>2. Cardinality(UpdatesUpTo(len) \cup {i}) = Cardinality(UpdatesUpTo(len)) + 1
      BY <2>5, FS_AddElement
    <3>3. QED
      BY <2>4, <2>6, <3>1, <3>2
  <2>7. CASE m.type # "update"
    <3>1. UpdatesUpTo(i)' = UpdatesUpTo(len)
      BY <2>4, <2>7
    <3>2. Cardinality(UpdatesUpTo(len)) + 0 = Cardinality(UpdatesUpTo(len))
      BY <2>5
    <3>3. QED
      BY <2>4, <2>7, <3>1, <3>2
  <2>8. QED
    BY <2>6, <2>7
<1>5. ASSUME m.type = "update" => Confirmed(m.id, len + 1)
      PROVE  FilterInForce'
  <2> SUFFICES ASSUME NEW i \in 1 .. len + 1, Queued'[i].type = "update"
               PROVE  \E j \in 1 .. i - 1 :
                        /\ Queued'[j] = Reply("subscribed", Queued'[i].id)
                        /\ \A k \in j + 1 .. i - 1 : Queued'[k].type # "subscribed"
    BY <1>1 DEF FilterInForce, Reply
  <2>1. \E j \in 1 .. i - 1 :
          /\ Queued[j] = Reply("subscribed", Queued'[i].id)
          /\ \A k \in j + 1 .. i - 1 : Queued[k].type # "subscribed"
    <3>1. CASE i \in 1 .. len
      BY <1>1, <1>2, <3>1 DEF IInv, FilterInForce
    <3>2. CASE i = len + 1
      BY <1>2, <1>5, <3>2 DEF Confirmed
    <3>3. QED
      BY <1>1, <3>1, <3>2
  <2>2. \A j \in 1 .. i - 1 : j \in 1 .. len
    BY <1>1
  <2>3. \A j \in 1 .. i - 1 : \A k \in j + 1 .. i - 1 : k \in 1 .. len
    BY <1>1
  <2>4. QED
    BY <1>2, <2>1, <2>2, <2>3
<1>6. ASSUME NEW id, \/ m = Reply("subscribed", id)
                     \/ m.type # "subscribed" /\ Confirmed(id, len + 1)
      PROVE  \E j \in 1 .. len + 1 :
               /\ Queued'[j] = Reply("subscribed", id)
               /\ \A k \in j + 1 .. len + 1 : Queued'[k].type # "subscribed"
  <2>1. CASE m = Reply("subscribed", id)
    <3>1. len + 1 \in 1 .. len + 1 /\ (len + 1) + 1 .. len + 1 = {}
      BY <1>1
    <3>2. QED
      BY <1>2, <2>1, <3>1
  <2>2. CASE m.type # "subscribed" /\ Confirmed(id, len + 1)
    <3>1. PICK j \in 1 .. (len + 1) - 1 :
            /\ Queued[j] = Reply("subscribed", id)
            /\ \A k \in j + 1 .. (len + 1) - 1 : Queued[k].type # "subscribed"
      BY <2>2 DEF Confirmed
    <3>2. j \in 1 .. len /\ j \in 1 .. len + 1
      BY <1>1
    <3>3. \A k \in j + 1 .. len + 1 : k = len + 1 \/ (k \in j + 1 .. (len + 1) - 1 /\ k \in 1 .. len)
      BY <1>1, <3>2
    <3>4. QED
      BY <1>2, <2>2, <3>1, <3>2, <3>3
  <2>3. QED
    BY <1>6, <2>1, <2>2
<1>7. QED
  BY <1>1, <1>3, <1>4, <1>5, <1>6 DEF len

-----------------------------------------------------------------------------
\* A step that says something joins it to the end of the queue.
LEMMA Continued ==
  ASSUME TypeOK, websocket_tx_message = <<>>, NEW m \in Messages,
         Queued' = wire \o sink \o <<m>>
  PROVE  Lengthens(m) /\ Queued' \in Seq(Messages)
<1> DEFINE before == wire \o sink
           next == <<m>>
<1>1. before \in Seq(Messages) /\ Len(before) \in Nat
  BY ConcatProperties, LenProperties DEF TypeOK
<1>2. Queued = before \o <<>> /\ Queued' = before \o next
  BY DEF Queued
<1>3. next \in Seq(Messages) /\ Len(next) = 1 /\ next[1] = m
  OBVIOUS
<1> HIDE DEF before, next
<1>4. Queued = before
  BY <1>1, <1>2, ConcatEmptySeq
<1>5. /\ before \o next \in Seq(Messages) /\ Len(before \o next) = Len(before) + 1
      /\ \A i \in 1 .. Len(before) + 1 :
           (before \o next)[i] = IF i <= Len(before) THEN before[i] ELSE next[i - Len(before)]
  <2>1. before \in Seq(Messages) /\ next \in Seq(Messages)
    BY <1>1, <1>3
  <2>2. /\ before \o next \in Seq(Messages) /\ Len(before \o next) = Len(before) + Len(next)
        /\ \A i \in 1 .. Len(before) + Len(next) :
             (before \o next)[i] = IF i <= Len(before) THEN before[i] ELSE next[i - Len(before)]
    BY <2>1, ConcatProperties
  <2>3. QED
    BY <1>3, <2>2
<1>6. \A i \in 1 .. Len(before) : i \in 1 .. Len(before) + 1 /\ i <= Len(before)
  BY <1>1
<1>7. /\ Len(before) + 1 \in 1 .. Len(before) + 1 /\ ~(Len(before) + 1 <= Len(before))
      /\ (Len(before) + 1) - Len(before) = 1
  BY <1>1
<1>8. QED
  BY <1>2, <1>3, <1>4, <1>5, <1>6, <1>7 DEF Lengthens

\* A step that loses the slot or the sink leaves a prefix.
LEMMA Dropped ==
  ASSUME TypeOK, websocket_tx_message' = <<>>,
         \/ UNCHANGED <<wire, sink>>
         \/ sink' = <<>> /\ UNCHANGED wire
  PROVE  Shortens /\ Queued' \in Seq(Messages)
<1>1. /\ wire \in Seq(Messages) /\ sink \in Seq(Messages) /\ websocket_tx_message \in Seq(Messages)
      /\ <<>> \in Seq(Messages)
  BY EmptySeq DEF TypeOK
<1>2. /\ Len(wire) \in Nat /\ Len(sink) \in Nat /\ Len(websocket_tx_message) \in Nat
      /\ Len(Queued) = Len(wire) + Len(sink) + Len(websocket_tx_message)
      /\ \A i \in 1 .. Len(wire) + Len(sink) : Queued[i] = (wire \o sink)[i]
      /\ \A i \in 1 .. Len(wire) : Queued[i] = wire[i]
  BY <1>1, QueueParts DEF Queued
<1>3. CASE UNCHANGED <<wire, sink>>
  <2>1. wire \o sink \in Seq(Messages) /\ Len(wire \o sink) = Len(wire) + Len(sink)
    BY <1>1, ConcatProperties
  <2>2. Queued' = (wire \o sink) \o <<>>
    BY <1>3 DEF Queued
  <2>3. Queued' = wire \o sink
    BY <2>1, <2>2, ConcatEmptySeq
  <2>4. QED
    BY <1>2, <2>1, <2>3 DEF Shortens
<1>4. CASE sink' = <<>> /\ UNCHANGED wire
  <2>1. Queued' = (wire \o <<>>) \o <<>>
    BY <1>4 DEF Queued
  <2>2. Queued' = wire
    BY <1>1, <2>1, ConcatEmptySeq
  <2>3. QED
    BY <1>1, <1>2, <2>2 DEF Shortens
<1>5. QED
  BY <1>3, <1>4

\* The next update a receiver that has not lagged gets is the next one sent.
LEMMA TakenIsNext ==
  ASSUME TypeOK, updates_rx < sent
  PROVE  /\ ~Lagged => Taken = updates_rx + 1 /\ updates_rx + 1 \in 0 .. sent
         /\ Lagged => Oldest \in 0 .. sent /\ Oldest >= updates_rx
  BY WebSocketAssumption DEF TypeOK, Lagged, Taken, Oldest

LEMMA ReplyTypes ==
  /\ \A type \in {"subscribed", "error", "pong", "close"}, id \in Ids :
       /\ Reply(type, id) \in Messages /\ Reply(type, id).type = type
       /\ Reply(type, id).type # "update"
  /\ \A id \in Ids, n \in 0 .. MaxUpdates :
       /\ Update(id, n) \in Messages /\ Update(id, n).type = "update"
       /\ Update(id, n).id = id /\ Update(id, n).n = n
  BY WebSocketAssumption DEF Reply, Update, Messages

-----------------------------------------------------------------------------
\* A step that leaves the queue alone.
LEMMA SameQueue ==
  ASSUME IInv, Stays, UNCHANGED <<since, filter>>, Open' => Open,
         Open' => updates_rx' = updates_rx \/ filter = 0
  PROVE  NoGap' /\ FilterInForce' /\ LastConfirmed' /\ NobodySubscribed'
<1>1. Queued' = Queued /\ Len(Queued') = Len(Queued)
  BY DEF Stays
<1>2. \A i : UpdatesUpTo(i)' = UpdatesUpTo(i)
  BY <1>1 DEF UpdatesUpTo
<1>3. UpdatesUpTo(Len(Queued))' = UpdatesUpTo(Len(Queued))
  BY <1>1 DEF UpdatesUpTo
<1>4. NoGap'
  BY <1>1, <1>2, <1>3 DEF IInv, NoGap, Open
<1>5. FilterInForce'
  BY <1>1 DEF IInv, FilterInForce, Reply
<1>6. LastConfirmed'
  BY <1>1 DEF IInv, LastConfirmed, Confirmed, Reply
<1>7. NobodySubscribed'
  BY <1>3 DEF IInv, NobodySubscribed
<1>8. QED
  BY <1>4, <1>5, <1>6, <1>7

\* The updates are still numbered without a gap when a message joins.
LEMMA LongerIsNumbered ==
  ASSUME IInv, NEW m, Lengthens(m), Queued' \in Seq(Messages), since' \in Nat,
         m.type = "update" => m.n = since' + Cardinality(UpdatesUpTo(Len(Queued))) + 1,
         since' = since \/ UpdatesUpTo(Len(Queued)) = {}
  PROVE  \A i \in UpdatesUpTo(Len(Queued))' : Queued'[i].n = since' + Cardinality(UpdatesUpTo(i)')
<1> DEFINE len == Len(Queued)
<1>1. len \in Nat /\ Len(Queued') = len + 1
  BY QueuedIsSeq DEF IInv, Lengthens
<1>2. /\ \A i \in 0 .. len : UpdatesUpTo(i)' = UpdatesUpTo(i)
      /\ \A i : i = len + 1 =>
           /\ UpdatesUpTo(i)' = UpdatesUpTo(len) \cup {j \in {i} : m.type = "update"}
           /\ Cardinality(UpdatesUpTo(i)') =
                Cardinality(UpdatesUpTo(len)) + IF m.type = "update" THEN 1 ELSE 0
  BY LongerQueue
<1>3. (\A i \in 1 .. len : Queued'[i] = Queued[i]) /\ Queued'[len + 1] = m
  BY DEF Lengthens
<1>4. \A i \in UpdatesUpTo(len) : i \in 1 .. len /\ Queued[i].n = since + Cardinality(UpdatesUpTo(i))
  BY DEF IInv, NoGap, UpdatesUpTo
<1>5. UpdatesUpTo(Len(Queued))' = UpdatesUpTo(len) \cup {j \in {len + 1} : m.type = "update"}
  <2>1. UpdatesUpTo(Len(Queued))' = {j \in 1 .. len + 1 : Queued'[j].type = "update"}
    BY <1>1 DEF UpdatesUpTo
  <2>3. UpdatesUpTo(len) = {j \in 1 .. len : Queued'[j].type = "update"}
    BY <1>3 DEF UpdatesUpTo
  <2> HIDE DEF len
  <2>4. \A j : j \in 1 .. len + 1 <=> j \in 1 .. len \/ j = len + 1
    BY <1>1
  <2>5. QED
    BY <1>3, <2>1, <2>3, <2>4
<1>6. Cardinality(UpdatesUpTo(len)) \in Nat
  BY <1>1, UpdatesAreFinite
<1> HIDE DEF len
<1>7. ASSUME NEW i \in UpdatesUpTo(Len(Queued))'
      PROVE  Queued'[i].n = since' + Cardinality(UpdatesUpTo(i)')
  <2>1. CASE i \in UpdatesUpTo(len)
    <3>1. i \in 1 .. len /\ i \in 0 .. len /\ since' = since
      BY <1>1, <1>4, <2>1 DEF len
    <3>2. QED
      BY <1>2, <1>3, <1>4, <2>1, <3>1
  <2>2. CASE i = len + 1 /\ m.type = "update"
    <3>1. Cardinality(UpdatesUpTo(i)') = Cardinality(UpdatesUpTo(len)) + 1
      BY <1>2, <2>2
    <3>2. m.n = since' + Cardinality(UpdatesUpTo(len)) + 1
      BY <2>2 DEF len
    <3>3. QED
      BY <1>3, <1>6, <2>2, <3>1, <3>2
  <2>3. QED
    BY <1>5, <2>1, <2>2
<1>8. QED
  BY <1>7

-----------------------------------------------------------------------------
LEMMA InitHolds == Init => IInv
<1> SUFFICES ASSUME Init PROVE IInv
  OBVIOUS
<1>1. <<>> \in Seq(Messages) /\ Len(<<>>) = 0
  BY EmptySeq
<1>2. TypeOK
  <2>1. 0 \in 0 .. MaxUpdates /\ 0 \in 0 .. 0 /\ 0 \in Ids /\ 0 <= 1 /\ 0 <= SinkCapacity
    BY WebSocketAssumption DEF Ids
  <2>2. {websocket_tx_message, sink, wire, close} \subseteq Seq(Messages)
    BY <1>1 DEF Init
  <2>3. Len(websocket_tx_message) = 0 /\ Len(close) = 0 /\ Len(sink) = 0
    BY <1>1 DEF Init
  <2>4. QED
    BY <2>1, <2>2, <2>3 DEF Init, TypeOK
<1>3. <<>> \o <<>> = <<>>
  BY <1>1, ConcatEmptySeq
<1>4. Queued = <<>>
  BY <1>3 DEF Init, Queued
<1>5. Len(Queued) = 0 /\ DOMAIN Queued = {}
  BY <1>1, <1>2, <1>4, QueuedIsSeq
<1>6. UpdatesUpTo(Len(Queued)) = {}
  BY <1>5 DEF UpdatesUpTo
<1>7. QED
  BY <1>1, <1>2, <1>5, <1>6
  DEF Init, IInv, SlotTaken, CloseFrames, NobodySubscribed, NoGap, FilterInForce, LastConfirmed

LEMMA BroadcastStep ==
  ASSUME IInv, Broadcast
  PROVE  IInv'
<1>1. TypeOK'
  BY WebSocketAssumption DEF IInv, TypeOK, Broadcast, queueVars
<1>2. Stays /\ UNCHANGED <<since, filter, updates_rx, pc>>
  BY DEF Broadcast, queueVars, Stays, Queued
<1>3. NoGap' /\ FilterInForce' /\ LastConfirmed' /\ NobodySubscribed'
  BY <1>2, SameQueue DEF Open
<1>4. SlotTaken' /\ CloseFrames'
  BY DEF Broadcast, queueVars, IInv, SlotTaken, CloseFrames
<1>5. QED
  BY <1>1, <1>3, <1>4 DEF IInv

LEMMA FeedStep ==
  ASSUME IInv, Feed
  PROVE  IInv'
<1>1. /\ wire \in Seq(Messages) /\ sink \in Seq(Messages) /\ websocket_tx_message \in Seq(Messages)
      /\ Len(websocket_tx_message) \in Nat /\ Len(sink) \in Nat
      /\ Len(websocket_tx_message) <= 1 /\ Len(sink) <= SinkCapacity
  BY LenProperties DEF IInv, TypeOK
<1>2. Stays
  BY <1>1, FedStays DEF Feed, Stays, Queued
<1>3. sink' \in Seq(Messages) /\ Len(sink') = Len(sink) + Len(websocket_tx_message)
  BY <1>1, ConcatProperties DEF Feed
<1>4. Len(sink') <= SinkCapacity
  <2>1. CASE websocket_tx_message = <<>>
    BY <1>1, <2>1, ConcatEmptySeq DEF Feed
  <2>2. CASE websocket_tx_message # <<>>
    BY <1>1, <1>3, <2>2, WebSocketAssumption DEF Feed, Room
  <2>3. QED
    BY <2>1, <2>2
<1>5. websocket_tx_message' = <<>> /\ <<>> \in Seq(Messages) /\ Len(<<>>) = 0
  BY EmptySeq DEF Feed
<1>6. flush_required' \in BOOLEAN
  BY DEF Feed, AfterFeed, IInv, TypeOK
<1>7. TypeOK'
  BY <1>3, <1>4, <1>5, <1>6 DEF IInv, TypeOK, Feed
<1>8. NoGap' /\ FilterInForce' /\ LastConfirmed' /\ NobodySubscribed'
  BY <1>2, SameQueue DEF Feed, Open
<1>9. SlotTaken' /\ CloseFrames'
  BY <1>5 DEF Feed, IInv, SlotTaken, CloseFrames
<1>10. QED
  BY <1>7, <1>8, <1>9 DEF IInv

LEMMA SocketWritesStep ==
  ASSUME IInv, SocketWrites
  PROVE  IInv'
<1>1. /\ wire \in Seq(Messages) /\ sink \in Seq(Messages) /\ sink # <<>>
      /\ wire' = Append(wire, Head(sink)) /\ sink' = Tail(sink)
      /\ UNCHANGED <<sent, updates_rx, received, filter, since, websocket_tx_message,
                     flush_required, pc, close>>
  BY DEF IInv, TypeOK, SocketWrites
<1>2. /\ Head(sink) \in Messages /\ sink' \in Seq(Messages) /\ Len(sink') = Len(sink) - 1
      /\ Len(sink) \in Nat
  BY <1>1, HeadTailProperties, LenProperties
<1>3. wire' \in Seq(Messages)
  BY <1>1, <1>2, AppendProperties
<1>4. wire' \o sink' = wire \o sink
  BY <1>1, WrittenStays
<1>5. Stays
  BY <1>1, <1>4 DEF Stays, Queued
<1>6. Len(sink') <= SinkCapacity
  BY <1>2, WebSocketAssumption DEF IInv, TypeOK
<1>7. TypeOK'
  BY <1>1, <1>2, <1>3, <1>6 DEF IInv, TypeOK
<1>8. NoGap' /\ FilterInForce' /\ LastConfirmed' /\ NobodySubscribed'
  BY <1>1, <1>5, SameQueue DEF Open
<1>9. SlotTaken' /\ CloseFrames'
  BY <1>1 DEF IInv, SlotTaken, CloseFrames
<1>10. QED
  BY <1>7, <1>8, <1>9 DEF IInv

LEMMA FlushDoneStep ==
  ASSUME IInv, FlushDone
  PROVE  IInv'
<1>1. TypeOK'
  BY DEF IInv, TypeOK, FlushDone
<1>2. Stays /\ UNCHANGED <<since, filter, updates_rx>> /\ Open
  BY DEF FlushDone, Stays, Queued, Open
<1>3. NoGap' /\ FilterInForce' /\ LastConfirmed' /\ NobodySubscribed'
  BY <1>2, SameQueue
<1>4. SlotTaken' /\ CloseFrames'
  BY DEF FlushDone, IInv, SlotTaken, CloseFrames
<1>5. QED
  BY <1>1, <1>3, <1>4 DEF IInv

\* Every way to leave the loop.
LEMMA BreakStep ==
  ASSUME IInv, NEW frame \in Seq(Messages), Len(frame) <= 1, Break(frame),
         \A i \in 1 .. Len(frame) : frame[i].type = "close",
         UNCHANGED <<sent, filter, since>>,
         received' \in Ids, received' >= received,
         updates_rx' \in 0 .. sent, updates_rx' >= updates_rx
  PROVE  IInv'
<1>1. /\ pc' = "closing" /\ close' = frame /\ websocket_tx_message' = <<>>
      /\ UNCHANGED <<sink, wire, flush_required>>
  BY DEF Break
<1>2. <<>> \in Seq(Messages) /\ Len(<<>>) = 0
  BY EmptySeq
<1>3. filter' \in 0 .. received' /\ since' \in 0 .. updates_rx'
  BY WebSocketAssumption DEF IInv, TypeOK, Ids
<1>4. TypeOK'
  BY <1>1, <1>2, <1>3 DEF IInv, TypeOK
<1>5. Shortens /\ Queued' \in Seq(Messages) /\ ~Open'
  BY <1>1, Dropped DEF IInv, Open
<1>6. NoGap' /\ FilterInForce' /\ LastConfirmed' /\ NobodySubscribed'
  BY <1>5, ShorterQueue
<1>7. SlotTaken' /\ CloseFrames'
  BY <1>1 DEF SlotTaken, CloseFrames
<1>8. QED
  BY <1>4, <1>6, <1>7 DEF IInv

\* Going on in the loop, with something to say or with nothing.
LEMMA SilentStep ==
  ASSUME IInv, pc = "select", Continue(<<>>), UNCHANGED <<sent, filter, since>>,
         received' \in Ids, received' >= received,
         updates_rx' \in 0 .. sent, updates_rx' >= updates_rx,
         updates_rx' = updates_rx \/ filter = 0
  PROVE  IInv'
<1>1. /\ pc' = "feed" /\ websocket_tx_message' = <<>>
      /\ UNCHANGED <<sink, wire, flush_required, close>>
  BY DEF Continue
<1>2. websocket_tx_message = <<>> /\ Open
  BY DEF IInv, SlotTaken, Open
<1>3. filter' \in 0 .. received' /\ since' \in 0 .. updates_rx'
  BY WebSocketAssumption DEF IInv, TypeOK, Ids
<1>4. TypeOK'
  BY <1>1, <1>2, <1>3 DEF IInv, TypeOK
<1>5. Stays
  BY <1>1, <1>2 DEF Stays, Queued
<1>6. NoGap' /\ FilterInForce' /\ LastConfirmed' /\ NobodySubscribed'
  BY <1>2, <1>5, SameQueue
<1>7. SlotTaken' /\ CloseFrames'
  BY <1>1 DEF IInv, SlotTaken, CloseFrames
<1>8. QED
  BY <1>4, <1>6, <1>7 DEF IInv

LEMMA SpeakingStep ==
  ASSUME IInv, pc = "select", NEW m \in Messages, Continue(<<m>>), UNCHANGED sent,
         received' \in Ids, received' >= received,
         updates_rx' \in 0 .. sent, updates_rx' >= updates_rx,
         filter' \in 0 .. received', since' \in 0 .. updates_rx',
         \* what is confirmed and counted afterwards
         IF m.type = "subscribed"
         THEN /\ filter' # 0 /\ m = Reply("subscribed", filter')
              /\ since' = (IF filter = 0 THEN updates_rx ELSE since) /\ UNCHANGED updates_rx
         ELSE UNCHANGED <<filter, since>>,
         IF m.type = "update"
         THEN /\ filter # 0 /\ m.id = filter /\ m.n = updates_rx + 1
              /\ updates_rx' = updates_rx + 1
         ELSE UNCHANGED updates_rx
  PROVE  IInv'
<1> DEFINE len == Len(Queued)
           got == UpdatesUpTo(len)
<1>1. /\ pc' = "feed" /\ websocket_tx_message' = <<m>>
      /\ UNCHANGED <<sink, wire, flush_required, close>>
  BY DEF Continue
<1>2. websocket_tx_message = <<>> /\ Open /\ TypeOK
  BY DEF IInv, SlotTaken, Open
<1>3. TypeOK'
  <2>1. <<m>> \in Seq(Messages) /\ Len(<<m>>) = 1
    OBVIOUS
  <2>2. QED
    BY <1>1, <1>2, <2>1 DEF TypeOK
<1>4. Lengthens(m) /\ Queued' \in Seq(Messages)
  <2>1. Queued' = wire \o sink \o <<m>>
    BY <1>1 DEF Queued
  <2>2. QED
    BY <1>2, <2>1, Continued
<1>5. /\ updates_rx \in Nat /\ since \in Nat /\ since' \in Nat /\ Cardinality(got) \in Nat /\ len \in Nat
  <2>1. len \in Nat
    BY <1>2, QueuedIsSeq
  <2>2. updates_rx \in Nat /\ since \in Nat /\ since' \in Nat
    BY <1>2 DEF TypeOK
  <2>3. QED
    BY <2>1, <2>2, UpdatesAreFinite
<1>6. filter # 0 => Cardinality(got) = updates_rx - since
  BY <1>2 DEF IInv, NoGap, Open
<1>7. filter = 0 => got = {} /\ Cardinality(got) = 0
  BY FS_EmptySet DEF IInv, NobodySubscribed
<1>8. m.type = "update" => since' = since /\ m.n = since' + Cardinality(got) + 1
  <2>1. CASE m.type = "update"
    <3>1. since' = since /\ m.n = updates_rx + 1 /\ Cardinality(got) = updates_rx - since
      BY <1>6, <2>1
    <3>2. QED
      BY <1>5, <3>1
  <2>2. QED
    BY <2>1
<1>9. since' = since \/ got = {}
  BY <1>7
<1>10. \A i \in UpdatesUpTo(Len(Queued))' : Queued'[i].n = since' + Cardinality(UpdatesUpTo(i)')
  BY <1>4, <1>5, <1>8, <1>9, LongerIsNumbered
<1>11. /\ UpdatesUpTo(Len(Queued))' = got \cup {j \in {len + 1} : m.type = "update"}
       /\ Cardinality(UpdatesUpTo(Len(Queued))') = Cardinality(got) + IF m.type = "update" THEN 1 ELSE 0
  <2>1. \A i : i = len + 1 =>
          /\ UpdatesUpTo(i)' = got \cup {j \in {i} : m.type = "update"}
          /\ Cardinality(UpdatesUpTo(i)') = Cardinality(got) + IF m.type = "update" THEN 1 ELSE 0
    BY <1>4, LongerQueue
  <2>2. \A i : i = Len(Queued)' => UpdatesUpTo(Len(Queued))' = UpdatesUpTo(i)'
    BY DEF UpdatesUpTo
  <2>3. Len(Queued)' = len + 1
    BY <1>4 DEF Lengthens
  <2>4. QED
    BY <2>1, <2>2, <2>3
<1>12. filter' # 0 => Cardinality(UpdatesUpTo(Len(Queued))') = updates_rx' - since'
  <2>1. CASE m.type = "update"
    BY <1>5, <1>6, <1>8, <1>11, <2>1
  <2>2. CASE m.type # "update" /\ filter # 0
    <3>1. since' = since /\ updates_rx' = updates_rx
      BY <2>2
    <3>2. QED
      BY <1>5, <1>6, <1>11, <2>2, <3>1
  <2>3. CASE m.type # "update" /\ filter = 0 /\ filter' # 0
    <3>1. since' = updates_rx /\ updates_rx' = updates_rx
      BY <2>3
    <3>2. QED
      BY <1>5, <1>7, <1>11, <2>3, <3>1
  <2>4. QED
    BY <2>1, <2>2, <2>3
<1>13. NoGap'
  BY <1>10, <1>12 DEF NoGap
<1>14. FilterInForce'
  <2>1. m.type = "update" => Confirmed(m.id, len + 1)
    BY <1>2 DEF IInv, LastConfirmed
  <2>2. QED
    BY <1>4, <2>1, LongerQueue
<1>15. LastConfirmed'
  <2>1. ASSUME NEW id, id = filter', filter' # 0
        PROVE  \/ m = Reply("subscribed", id)
               \/ m.type # "subscribed" /\ Confirmed(id, len + 1)
    BY <1>2, <2>1 DEF IInv, LastConfirmed
  <2>2. ASSUME NEW id, id = filter', filter' # 0
        PROVE  \E j \in 1 .. Len(Queued') :
                 /\ Queued'[j] = Reply("subscribed", id)
                 /\ \A k \in j + 1 .. Len(Queued') : Queued'[k].type # "subscribed"
    BY <1>4, <2>1, <2>2, LongerQueue
  <2>3. (Len(Queued') + 1) - 1 = Len(Queued')
    BY <1>4, <1>5 DEF Lengthens
  <2>4. QED
    BY <2>2, <2>3 DEF LastConfirmed, Confirmed, Reply
<1>16. NobodySubscribed'
  <2>1. filter' = 0 => filter = 0 /\ m.type # "update"
    OBVIOUS
  <2>2. QED
    BY <1>7, <1>11, <2>1 DEF NobodySubscribed
<1>17. SlotTaken' /\ CloseFrames'
  BY <1>1 DEF IInv, SlotTaken, CloseFrames
<1>18. QED
  BY <1>3, <1>13, <1>14, <1>15, <1>16, <1>17 DEF IInv

LEMMA CallStep ==
  ASSUME IInv, Subscribe \/ SubscribeRefused \/ PingOrPong \/ BadMessage
  PROVE  IInv'
<1>1. /\ pc = "select" /\ received < MaxCalls /\ received' = received + 1
      /\ UNCHANGED <<sent, updates_rx>>
  BY DEF Subscribe, SubscribeRefused, PingOrPong, BadMessage, CallArrives
<1>2. /\ received \in Ids /\ filter \in 0 .. received
      /\ updates_rx \in 0 .. sent /\ since \in 0 .. updates_rx
      /\ sent \in 0 .. MaxUpdates
  BY DEF IInv, TypeOK
<1>3. /\ received' \in Ids /\ received' >= received /\ received' # 0
      /\ filter \in 0 .. received' /\ received' \in 0 .. received'
      /\ updates_rx' \in 0 .. sent /\ updates_rx' >= updates_rx
      /\ since \in 0 .. updates_rx' /\ updates_rx \in 0 .. updates_rx'
  BY <1>1, <1>2, WebSocketAssumption DEF Ids
<1>4. \A type \in {"subscribed", "error", "pong", "close"} :
        /\ Reply(type, received') \in Messages /\ Reply(type, received').type = type
  BY <1>3, ReplyTypes
<1>5. CASE Subscribe
  <2> DEFINE m == Reply("subscribed", received')
  <2>1. /\ m \in Messages /\ m.type = "subscribed" /\ Continue(<<m>>)
        /\ filter' = received' /\ since' = IF filter = 0 THEN updates_rx ELSE since
    BY <1>4, <1>5 DEF Subscribe
  <2>2. m = Reply("subscribed", filter')
    BY <2>1
  <2> HIDE DEF m
  <2>3. QED
    BY <1>1, <1>3, <2>1, <2>2, SpeakingStep
<1>6. CASE SubscribeRefused
  <2> DEFINE m == Reply("error", received')
  <2>1. /\ m \in Messages /\ m.type = "error" /\ Continue(<<m>>) /\ UNCHANGED <<filter, since>>
    BY <1>4, <1>6 DEF SubscribeRefused
  <2> HIDE DEF m
  <2>2. QED
    BY <1>1, <1>3, <2>1, SpeakingStep
<1>7. CASE PingOrPong
  <2> DEFINE m == Reply("pong", received')
  <2>1. UNCHANGED <<filter, since>> /\ (Continue(<<m>>) \/ Continue(<<>>))
    BY <1>7 DEF PingOrPong
  <2>2. m \in Messages /\ m.type = "pong"
    BY <1>4
  <2> HIDE DEF m
  <2>3. CASE Continue(<<m>>)
    BY <1>1, <1>3, <2>1, <2>2, <2>3, SpeakingStep
  <2>4. CASE Continue(<<>>)
    BY <1>1, <1>3, <2>1, <2>4, SilentStep
  <2>5. QED
    BY <2>1, <2>3, <2>4
<1>8. CASE BadMessage
  <2> DEFINE frame == <<Reply("close", received')>>
  <2>1. Break(frame) /\ UNCHANGED <<filter, since>>
    BY <1>8 DEF BadMessage
  <2>2. frame \in Seq(Messages) /\ Len(frame) = 1 /\ frame[1].type = "close"
    BY <1>4
  <2> HIDE DEF frame
  <2>3. Len(frame) <= 1 /\ \A i \in 1 .. Len(frame) : frame[i].type = "close"
    BY <2>2
  <2>4. QED
    BY <1>1, <1>3, <2>1, <2>2, <2>3, BreakStep
<1>9. QED
  BY <1>5, <1>6, <1>7, <1>8

LEMMA ReceiveUpdateStep ==
  ASSUME IInv, ReceiveUpdate
  PROVE  IInv'
<1>1. /\ pc = "select" /\ updates_rx < sent
      /\ UNCHANGED <<sent, received, filter, since>>
  BY DEF ReceiveUpdate
<1>2. /\ received \in Ids /\ received >= received /\ filter \in Ids /\ filter \in 0 .. received
      /\ updates_rx \in 0 .. sent /\ since \in 0 .. updates_rx /\ sent \in 0 .. MaxUpdates
  BY WebSocketAssumption DEF IInv, TypeOK, Ids
<1>3. /\ ~Lagged => Taken = updates_rx + 1 /\ updates_rx + 1 \in 0 .. sent
      /\ Lagged => Oldest \in 0 .. sent /\ Oldest >= updates_rx
  BY <1>1, TakenIsNext DEF IInv
<1>4. CASE Lagged /\ updates_rx' = Oldest /\ Break(<<Reply("close", 0)>>)
  <2> DEFINE frame == <<Reply("close", 0)>>
  <2>1. 0 \in Ids
    BY WebSocketAssumption DEF Ids
  <2>2. frame \in Seq(Messages) /\ Len(frame) = 1 /\ frame[1].type = "close"
    BY <2>1, ReplyTypes
  <2>3. Break(frame)
    BY <1>4
  <2> HIDE DEF frame
  <2>4. Len(frame) <= 1 /\ \A i \in 1 .. Len(frame) : frame[i].type = "close"
    BY <2>2
  <2>5. updates_rx' \in 0 .. sent /\ updates_rx' >= updates_rx
    BY <1>3, <1>4
  <2>6. received' \in Ids /\ received' >= received
    BY <1>1, <1>2
  <2>7. QED
    BY <1>1, <2>2, <2>3, <2>4, <2>5, <2>6, BreakStep
<1>5. CASE /\ ~Lagged /\ updates_rx' = Taken
           /\ Continue(IF filter = 0 THEN <<>> ELSE <<Update(filter, Taken)>>)
  <2>1. updates_rx' = updates_rx + 1 /\ updates_rx' \in 0 .. sent /\ updates_rx' >= updates_rx
    BY <1>2, <1>3, <1>5
  <2>2. CASE filter = 0
    BY <1>1, <1>2, <1>5, <2>1, <2>2, SilentStep
  <2>3. CASE filter # 0
    <3> DEFINE m == Update(filter, Taken)
    <3>1. Taken \in 0 .. MaxUpdates
      <4>1. updates_rx + 1 \in 0 .. sent /\ Taken = updates_rx + 1 /\ MaxUpdates \in Nat
        BY <1>3, <1>5, WebSocketAssumption
      <4>2. updates_rx + 1 \in 0 .. MaxUpdates
        BY <1>2, <4>1
      <4>3. QED
        BY <4>1, <4>2
    <3>2. m \in Messages /\ m.type = "update" /\ m.id = filter /\ m.n = updates_rx + 1
      BY <1>2, <1>3, <1>5, <3>1, ReplyTypes
    <3>3. Continue(<<m>>)
      BY <1>5, <2>3
    <3>4. since' \in 0 .. updates_rx' /\ filter' \in 0 .. received'
      BY <1>1, <1>2, <2>1
    <3> HIDE DEF m
    <3>5. QED
      BY <1>1, <1>2, <2>1, <2>3, <3>2, <3>3, <3>4, SpeakingStep
  <2>4. QED
    BY <2>2, <2>3
<1>6. QED
  BY <1>4, <1>5 DEF ReceiveUpdate

LEMMA FeedCloseStep ==
  ASSUME IInv, FeedClose
  PROVE  IInv'
<1> DEFINE m == close[1]
<1>1. /\ wire \in Seq(Messages) /\ sink \in Seq(Messages) /\ close \in Seq(Messages)
      /\ Len(close) \in Nat /\ Len(sink) \in Nat /\ Len(sink) < SinkCapacity
      /\ close # <<>> /\ Len(close) <= 1
  BY LenProperties DEF IInv, TypeOK, FeedClose, Room
<1>2. Len(close) = 1 /\ m \in Messages /\ m.type = "close"
  <2>1. Len(close) # 0
    BY <1>1, EmptySeq
  <2>2. Len(close) = 1
    <3>1. \A n \in Nat : n # 0 /\ n <= 1 => n = 1
      OBVIOUS
    <3>2. Len(close) \in Nat /\ Len(close) # 0 /\ Len(close) <= 1
      BY <1>1, <2>1
    <3>3. QED
      BY <3>1, <3>2, Zenon
  <2>3. QED
    BY <1>1, <2>2, ElementOfSeq DEF IInv, CloseFrames
<1>3. close = <<m>>
  BY <1>1, <1>2, SeqEqual
<1>4. /\ pc = "closing" /\ sink' = sink \o close /\ close' = <<>>
      /\ UNCHANGED <<sent, updates_rx, received, filter, since, websocket_tx_message,
                     wire, flush_required, pc>>
  BY DEF FeedClose
<1>5. websocket_tx_message = <<>>
  BY <1>4 DEF IInv, SlotTaken
<1>6. Queued' = wire \o sink \o <<m>>
  <2>1. Queued' = wire \o (sink \o close) \o <<>>
    BY <1>4, <1>5 DEF Queued
  <2>2. wire \o (sink \o close) \o <<>> = wire \o sink \o close
    BY <1>1, FedStays
  <2>3. QED
    BY <1>3, <2>1, <2>2
<1> HIDE DEF m
<1>7. Lengthens(m) /\ Queued' \in Seq(Messages)
  BY <1>2, <1>5, <1>6, Continued DEF IInv
<1>8. TypeOK'
  <2>1. sink' \in Seq(Messages) /\ Len(sink') = Len(sink) + Len(close)
    BY <1>1, <1>4, ConcatProperties
  <2>2. Len(sink') <= SinkCapacity
    BY <1>1, <1>2, <2>1, WebSocketAssumption
  <2>3. <<>> \in Seq(Messages) /\ Len(<<>>) <= 1
    BY EmptySeq
  <2>4. QED
    BY <1>4, <2>1, <2>2, <2>3 DEF IInv, TypeOK
<1>9. m.type # "update"
  BY <1>2
<1>10. NoGap'
  <2>1. since' \in Nat /\ since' = since
    BY <1>4 DEF IInv, TypeOK
  <2>2. \A i \in UpdatesUpTo(Len(Queued))' : Queued'[i].n = since' + Cardinality(UpdatesUpTo(i)')
    BY <1>7, <1>9, <2>1, LongerIsNumbered
  <2>3. QED
    BY <1>4, <2>2 DEF NoGap
<1>11. FilterInForce'
  BY <1>7, <1>9, LongerQueue
<1>12. NobodySubscribed'
  <2>1. \A i : i = Len(Queued) + 1 =>
          UpdatesUpTo(i)' = UpdatesUpTo(Len(Queued)) \cup {j \in {i} : m.type = "update"}
    BY <1>7, LongerQueue
  <2>2. \A i : i = Len(Queued)' => UpdatesUpTo(Len(Queued))' = UpdatesUpTo(i)'
    BY DEF UpdatesUpTo
  <2>3. Len(Queued)' = Len(Queued) + 1
    BY <1>7 DEF Lengthens
  <2>4. UpdatesUpTo(Len(Queued))' = UpdatesUpTo(Len(Queued))
    BY <1>9, <2>1, <2>2, <2>3
  <2>5. QED
    BY <1>4, <2>4 DEF IInv, NobodySubscribed
<1>13. SlotTaken' /\ CloseFrames' /\ LastConfirmed'
  BY <1>4, <1>5, EmptySeq DEF SlotTaken, CloseFrames, LastConfirmed, Open
<1>14. QED
  BY <1>8, <1>10, <1>11, <1>12, <1>13 DEF IInv

LEMMA FinishStep ==
  ASSUME IInv, Finish
  PROVE  IInv'
<1>1. websocket_tx_message = <<>> /\ websocket_tx_message' = <<>> /\ pc' = "closed"
  BY DEF Finish, IInv, SlotTaken
<1>2. Shortens /\ Queued' \in Seq(Messages)
  BY <1>1, Dropped DEF Finish, IInv
<1>3. NoGap' /\ FilterInForce' /\ LastConfirmed' /\ NobodySubscribed'
  BY <1>1, <1>2, ShorterQueue DEF Finish, Open
<1>4. TypeOK'
  <2>1. <<>> \in Seq(Messages) /\ Len(<<>>) = 0
    BY EmptySeq
  <2>2. QED
    BY <2>1, WebSocketAssumption DEF Finish, IInv, TypeOK
<1>5. SlotTaken' /\ CloseFrames'
  BY <1>1 DEF Finish, IInv, SlotTaken, CloseFrames
<1>6. QED
  BY <1>3, <1>4, <1>5 DEF IInv

LEMMA NextHolds == IInv /\ [Next]_vars => IInv'
<1> SUFFICES ASSUME IInv, [Next]_vars PROVE IInv'
  OBVIOUS
<1>1. CASE SocketFails
  <2>1. <<>> \in Seq(Messages) /\ Len(<<>>) = 0
    BY EmptySeq
  <2> DEFINE frame == <<>>
  <2>2. /\ frame \in Seq(Messages) /\ Len(frame) <= 1
        /\ \A i \in 1 .. Len(frame) : frame[i].type = "close"
    BY <2>1
  <2>3. /\ received' \in Ids /\ received' >= received
        /\ updates_rx' \in 0 .. sent /\ updates_rx' >= updates_rx
    BY <1>1, WebSocketAssumption DEF SocketFails, IInv, TypeOK, Ids
  <2>4. Break(frame) /\ UNCHANGED <<sent, filter, since>>
    BY <1>1 DEF SocketFails
  <2> HIDE DEF frame
  <2>5. QED
    BY <2>2, <2>3, <2>4, BreakStep
<1>2. CASE UNCHANGED vars
  <2>1. TypeOK' /\ SlotTaken' /\ CloseFrames'
    BY <1>2 DEF vars, queueVars, IInv, TypeOK, SlotTaken, CloseFrames
  <2>2. Stays
    BY <1>2 DEF vars, queueVars, Stays, Queued
  <2>3. NoGap' /\ FilterInForce' /\ LastConfirmed' /\ NobodySubscribed'
    BY <1>2, <2>2, SameQueue DEF vars, Open
  <2>4. QED
    BY <2>1, <2>3 DEF IInv
<1>3. QED
  BY <1>1, <1>2, BroadcastStep, FeedStep, SocketWritesStep, FlushDoneStep, CallStep,
     ReceiveUpdateStep, FeedCloseStep, FinishStep DEF Next

\* The inductive invariant of a connection.
THEOREM ConnectionInvariant == Spec => []IInv
  BY InitHolds, NextHolds, PTL DEF Spec

(***************************************************************************)
(* A subscriber misses nothing (rpc_solana.rs:424-547): for channels and   *)
(* sinks of any size, any number of updates and any calls of the client.   *)
(***************************************************************************)
THEOREM SubscriberMissesNothing == Spec => []NoGap
<1>1. IInv => NoGap
  BY DEF IInv
<1>2. QED
  BY <1>1, ConnectionInvariant, PTL

(***************************************************************************)
(* Once a filter is confirmed nothing filtered the old way follows         *)
(* (rpc_solana.rs:466-506).                                                *)
(***************************************************************************)
THEOREM ConfirmedFilterApplies == Spec => []FilterInForce
<1>1. IInv => FilterInForce
  BY DEF IInv
<1>2. QED
  BY <1>1, ConnectionInvariant, PTL
=============================================================================

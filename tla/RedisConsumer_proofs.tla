------------------------ MODULE RedisConsumer_proofs ------------------------
(***************************************************************************)
(* For any number of producers, any block tree, any trimming and any size  *)
(* of batch and LRU: the consumer swallows nothing and implements the      *)
(* feed.  When the stream is read in time it implements the ordered feed   *)
(* the storage is written against, if producers miss no status, and says   *)
(* nothing twice, if the LRU is as large as two windows.                   *)
(***************************************************************************)
EXTENDS RedisConsumer, GeyserMessages_proofs, SequenceTheorems, FiniteSetTheorems, TLAPS

-----------------------------------------------------------------------------
\* A sequence cut in two has the same elements.
LEMMA CutSeq ==
  ASSUME NEW S, NEW seq \in Seq(S), NEW n \in 0 .. Len(seq)
  PROVE  /\ SubSeq(seq, 1, n) \in Seq(S) /\ Len(SubSeq(seq, 1, n)) = n
         /\ SubSeq(seq, n + 1, Len(seq)) \in Seq(S)
         /\ Len(SubSeq(seq, n + 1, Len(seq))) = Len(seq) - n
         /\ ToSet(seq) = ToSet(SubSeq(seq, 1, n)) \cup ToSet(SubSeq(seq, n + 1, Len(seq)))
<1> DEFINE low == SubSeq(seq, 1, n)
           high == SubSeq(seq, n + 1, Len(seq))
<1>1. Len(seq) \in Nat /\ n \in Nat /\ DOMAIN seq = 1 .. Len(seq)
  BY LenProperties
<1>2. \A i \in 1 .. Len(seq) : seq[i] \in S
  BY ElementOfSeq
<1>3. low \in Seq(S) /\ Len(low) = n /\ \A i \in 1 .. n : low[i] = seq[i]
  <2>1. \A i \in 1 .. n : seq[i] \in S
    BY <1>1, <1>2
  <2>2. /\ low \in Seq(S)
        /\ Len(low) = IF 1 <= n THEN n - 1 + 1 ELSE 0
        /\ \A i \in 1 .. n - 1 + 1 : low[i] = seq[1 + i - 1]
    BY <1>1, <2>1, SubSeqProperties
  <2>3. QED
    BY <1>1, <2>2
<1>4. /\ high \in Seq(S) /\ Len(high) = Len(seq) - n
      /\ \A i \in 1 .. Len(seq) - n : high[i] = seq[n + i]
  <2>1. \A i \in n + 1 .. Len(seq) : seq[i] \in S
    BY <1>1, <1>2
  <2>2. /\ high \in Seq(S)
        /\ Len(high) = IF n + 1 <= Len(seq) THEN Len(seq) - (n + 1) + 1 ELSE 0
        /\ \A i \in 1 .. Len(seq) - (n + 1) + 1 : high[i] = seq[n + 1 + i - 1]
    BY <1>1, <2>1, SubSeqProperties
  <2>3. QED
    BY <1>1, <2>2
<1>5. DOMAIN low = 1 .. n /\ DOMAIN high = 1 .. Len(seq) - n
  BY <1>3, <1>4, LenProperties
<1> HIDE DEF low, high
<1>6. ToSet(seq) \subseteq ToSet(low) \cup ToSet(high)
  <2> SUFFICES ASSUME NEW i \in 1 .. Len(seq)
               PROVE  seq[i] \in ToSet(low) \cup ToSet(high)
    BY <1>1 DEF ToSet
  <2>1. CASE i <= n
    BY <1>1, <1>3, <1>5, <2>1 DEF ToSet
  <2>2. CASE i > n
    <3>1. i - n \in 1 .. Len(seq) - n /\ n + (i - n) = i
      BY <1>1, <2>2
    <3>2. high[i - n] = seq[i]
      BY <1>4, <3>1
    <3>3. QED
      BY <1>5, <3>1, <3>2 DEF ToSet
  <2>3. QED
    BY <1>1, <2>1, <2>2
<1>7. ToSet(low) \cup ToSet(high) \subseteq ToSet(seq)
  <2>1. \A i \in 1 .. n : low[i] \in ToSet(seq)
    BY <1>1, <1>3 DEF ToSet
  <2>2. \A i \in 1 .. Len(seq) - n : high[i] \in ToSet(seq)
    <3> SUFFICES ASSUME NEW i \in 1 .. Len(seq) - n PROVE high[i] \in ToSet(seq)
      OBVIOUS
    <3>1. n + i \in 1 .. Len(seq)
      BY <1>1
    <3>2. QED
      BY <1>1, <1>4, <3>1 DEF ToSet
  <2>3. QED
    BY <1>5, <2>1, <2>2 DEF ToSet
<1>8. QED
  BY <1>3, <1>4, <1>6, <1>7 DEF low, high

LEMMA ConcatElements ==
  ASSUME NEW S, NEW s1 \in Seq(S), NEW s2 \in Seq(S)
  PROVE  /\ s1 \o s2 \in Seq(S) /\ Len(s1 \o s2) = Len(s1) + Len(s2)
         /\ ToSet(s1 \o s2) = ToSet(s1) \cup ToSet(s2)
<1>1. /\ s1 \o s2 \in Seq(S) /\ Len(s1 \o s2) = Len(s1) + Len(s2)
      /\ \A i \in 1 .. Len(s1) + Len(s2) :
           (s1 \o s2)[i] = IF i <= Len(s1) THEN s1[i] ELSE s2[i - Len(s1)]
  BY ConcatProperties
<1>2. /\ Len(s1) \in Nat /\ Len(s2) \in Nat
      /\ DOMAIN s1 = 1 .. Len(s1) /\ DOMAIN s2 = 1 .. Len(s2)
      /\ DOMAIN (s1 \o s2) = 1 .. Len(s1) + Len(s2)
  BY <1>1, LenProperties
<1> DEFINE both == s1 \o s2
<1> HIDE DEF both
<1>3. \A i \in 1 .. Len(s1) + Len(s2) : both[i] \in ToSet(s1) \cup ToSet(s2)
  BY <1>1, <1>2 DEF ToSet, both
<1>4. \A i \in 1 .. Len(s1) : s1[i] \in ToSet(both)
  <2> SUFFICES ASSUME NEW i \in 1 .. Len(s1) PROVE s1[i] \in ToSet(both)
    OBVIOUS
  <2>1. i \in 1 .. Len(s1) + Len(s2) /\ both[i] = s1[i]
    BY <1>1, <1>2 DEF both
  <2>2. QED
    BY <1>2, <2>1 DEF ToSet, both
<1>5. \A i \in 1 .. Len(s2) : s2[i] \in ToSet(both)
  <2> SUFFICES ASSUME NEW i \in 1 .. Len(s2) PROVE s2[i] \in ToSet(both)
    OBVIOUS
  <2>1. /\ Len(s1) + i \in 1 .. Len(s1) + Len(s2)
        /\ (Len(s1) + i) - Len(s1) = i /\ ~(Len(s1) + i <= Len(s1))
    BY <1>2
  <2>2. both[Len(s1) + i] = s2[i]
    BY <1>1, <2>1 DEF both
  <2>3. QED
    BY <1>2, <2>1, <2>2 DEF ToSet, both
<1>6. ToSet(both) = ToSet(s1) \cup ToSet(s2)
  BY <1>2, <1>3, <1>4, <1>5 DEF ToSet, both
<1>7. QED
  BY <1>1, <1>6 DEF both

-----------------------------------------------------------------------------
(***************************************************************************)
(* The inductive invariant.  What is on its way or delivered was written   *)
(* by a producer; a flag of the LRU is about something delivered; the tip  *)
(* is the highest finalized slot delivered; and the finalized slots the    *)
(* producers have written are one chain.                                   *)
(***************************************************************************)
Emitted == UNION {emitted[p] : p \in Producer}

OnTheirWay == ToSet(stream) \cup ToSet(batch) \cup delivered \subseteq Emitted

LruHeard == \A e \in ToSet(lru) : \A k \in e.seen : Msg(e.slot, k) \in delivered

TipDelivered == finalized_slot_tip # 0 => Msg(finalized_slot_tip, "finalized") \in delivered

TipHighest == \A s \in Slot : Msg(s, "finalized") \in delivered => s <= finalized_slot_tip

OneChain ==
  \A s, t \in Slot :
    Msg(s, "finalized") \in Emitted /\ Msg(t, "finalized") \in Emitted =>
      s = t \/ s \in Lineage[t] \/ t \in Lineage[s]

IInv ==
  /\ TypeOK
  /\ OnTheirWay
  /\ LruHeard
  /\ TipDelivered
  /\ TipHighest
  /\ OneChain
  /\ NothingSwallowed

LEMMA MessageFields ==
  ASSUME NEW m \in Message
  PROVE  m = Msg(m.slot, m.kind) /\ m.slot \in Slot /\ m.slot \in Nat /\ m.slot # 0 /\ m.kind \in Kind
  BY ChainAssumption DEF Message, Msg

LEMMA EmptyElements == ToSet(<<>>) = {}
  BY DEF ToSet

LEMMA HeadElement ==
  ASSUME NEW S, NEW seq \in Seq(S), seq # <<>>
  PROVE  /\ Head(seq) \in S /\ Tail(seq) \in Seq(S) /\ Len(Tail(seq)) <= Len(seq)
         /\ ToSet(seq) = {Head(seq)} \cup ToSet(Tail(seq))
<1>1. Len(seq) \in Nat \ {0}
  BY EmptySeq
<1> DEFINE one == 1
<1>2. Tail(seq) = SubSeq(seq, one + 1, Len(seq)) /\ one \in 0 .. Len(seq)
  BY <1>1, TailIsSubSeq
<1> HIDE DEF one
<1>3. ToSet(seq) = ToSet(SubSeq(seq, 1, one)) \cup ToSet(Tail(seq))
  <2>1. ToSet(seq) = ToSet(SubSeq(seq, 1, one)) \cup ToSet(SubSeq(seq, one + 1, Len(seq)))
    BY <1>2, CutSeq
  <2>2. QED
    BY <1>2, <2>1
<1>4. ToSet(SubSeq(seq, 1, 1)) = {Head(seq)}
  <2>1. /\ SubSeq(seq, 1, 1) \in Seq(S) /\ Len(SubSeq(seq, 1, 1)) = 1
    BY <1>1, CutSeq
  <2>2. Head(SubSeq(seq, 1, 1)) = seq[1] /\ Head(seq) = seq[1]
    BY <1>1, HeadTailOfSubSeq
  <2>3. DOMAIN SubSeq(seq, 1, 1) = {1} /\ SubSeq(seq, 1, 1)[1] = seq[1]
    BY <2>1, <2>2
  <2>4. QED
    BY <2>2, <2>3 DEF ToSet
<1>5. QED
  BY <1>1, <1>3, <1>4, HeadTailProperties DEF one

LEMMA SeenTypes ==
  ASSUME TypeOK, NEW s \in Slot
  PROVE  /\ Seen(s) \subseteq Kind
         /\ \A k \in Seen(s) : \E e \in ToSet(lru) : e.slot = s /\ k \in e.seen
<1>1. lru \in Seq(SeenSlot) /\ \A i \in DOMAIN lru : lru[i] \in SeenSlot /\ lru[i] \in ToSet(lru)
  BY LenProperties, ElementOfSeq DEF TypeOK, ToSet
<1>2. \A k \in Seen(s) : \E i \in DOMAIN lru : lru[i].slot = s /\ k \in lru[i].seen
  BY DEF Seen
<1>3. QED
  BY <1>1, <1>2 DEF SeenSlot

LEMMA OtherEntries ==
  ASSUME TypeOK, NEW s \in Slot
  PROVE  Others(s) \in Seq(SeenSlot) /\ ToSet(Others(s)) \subseteq ToSet(lru)
<1> DEFINE at == {i \in DOMAIN lru : lru[i].slot = s}
           i == CHOOSE j \in at : TRUE
<1>1. lru \in Seq(SeenSlot) /\ Len(lru) \in Nat /\ DOMAIN lru = 1 .. Len(lru)
  BY LenProperties DEF TypeOK
<1>2. CASE at = {}
  BY <1>1, <1>2 DEF Others
<1>3. CASE at # {}
  <2>1. i \in 1 .. Len(lru)
    BY <1>1, <1>3
  <2>2. Others(s) = SubSeq(lru, 1, i - 1) \o SubSeq(lru, i + 1, Len(lru))
    BY <1>3 DEF Others, RemoveAt
  <2> HIDE DEF at, i
  <2>3. i - 1 \in 0 .. Len(lru) /\ i \in 0 .. Len(lru)
    BY <1>1, <2>1
  <2>4. SubSeq(lru, 1, i - 1) \in Seq(SeenSlot) /\ ToSet(SubSeq(lru, 1, i - 1)) \subseteq ToSet(lru)
    BY <1>1, <2>3, CutSeq
  <2>5. /\ SubSeq(lru, i + 1, Len(lru)) \in Seq(SeenSlot)
        /\ ToSet(SubSeq(lru, i + 1, Len(lru))) \subseteq ToSet(lru)
    BY <1>1, <2>3, CutSeq
  <2> DEFINE low == SubSeq(lru, 1, i - 1)
             high == SubSeq(lru, i + 1, Len(lru))
  <2> HIDE DEF low, high
  <2>6. low \in Seq(SeenSlot) /\ high \in Seq(SeenSlot)
    BY <2>4, <2>5 DEF low, high
  <2>7. low \o high \in Seq(SeenSlot) /\ ToSet(low \o high) = ToSet(low) \cup ToSet(high)
    <3>1. \A a, b \in Seq(SeenSlot) :
            a \o b \in Seq(SeenSlot) /\ ToSet(a \o b) = ToSet(a) \cup ToSet(b)
      BY ConcatElements
    <3>2. QED
      BY <2>6, <3>1
  <2>8. Others(s) = low \o high
    BY <2>2 DEF low, high
  <2>9. ToSet(low) \subseteq ToSet(lru) /\ ToSet(high) \subseteq ToSet(lru)
    BY <2>4, <2>5 DEF low, high
  <2>10. QED
    BY <2>7, <2>8, <2>9
<1>4. QED
  BY <1>2, <1>3

\* What a touched LRU may hold.
LEMMA TouchedEntries ==
  ASSUME TypeOK, NEW m \in Message
  PROVE  /\ Touch(m) \in Seq(SeenSlot) /\ Len(Touch(m)) <= LruCapacity
         /\ ToSet(Touch(m)) \subseteq
              ToSet(lru) \cup {[slot |-> m.slot, seen |-> Seen(m.slot) \cup {m.kind}]}
<1> DEFINE entry == [slot |-> m.slot, seen |-> Flags(m)]
           entries == <<entry>> \o Others(m.slot)
           n == IF Len(entries) < LruCapacity THEN Len(entries) ELSE LruCapacity
<1>1. m.slot \in Slot /\ m.kind \in Kind
  BY MessageFields
<1>2. entry \in SeenSlot /\ Flags(m) = Seen(m.slot) \cup {m.kind}
  BY <1>1, SeenTypes DEF SeenSlot, Flags
<1>3. <<entry>> \in Seq(SeenSlot) /\ ToSet(<<entry>>) = {entry}
  <2> HIDE DEF entry
  <2>1. QED
    BY <1>2 DEF ToSet
<1>4. Others(m.slot) \in Seq(SeenSlot) /\ ToSet(Others(m.slot)) \subseteq ToSet(lru)
  BY <1>1, OtherEntries
<1> HIDE DEF entry
<1>5. entries \in Seq(SeenSlot) /\ ToSet(entries) \subseteq ToSet(lru) \cup {entry}
  <2> DEFINE first == <<entry>>
             others == Others(m.slot)
  <2>1. first \in Seq(SeenSlot) /\ ToSet(first) = {entry}
    BY <1>3
  <2>2. others \in Seq(SeenSlot) /\ ToSet(others) \subseteq ToSet(lru)
    BY <1>4
  <2> HIDE DEF first, others
  <2>3. /\ first \o others \in Seq(SeenSlot)
        /\ ToSet(first \o others) = ToSet(first) \cup ToSet(others)
    BY <2>1, <2>2, ConcatElements
  <2>4. QED
    BY <2>1, <2>2, <2>3 DEF first, others
<1>6. Touch(m) = SubSeq(entries, 1, n)
  BY DEF Touch, Truncated, entry
<1> HIDE DEF entries
<1>7. LruCapacity \in Nat /\ Len(entries) \in Nat /\ n \in 0 .. Len(entries) /\ n <= LruCapacity
  BY <1>5, LenProperties, ConsumerAssumption
<1> HIDE DEF n
<1>8. /\ SubSeq(entries, 1, n) \in Seq(SeenSlot) /\ Len(SubSeq(entries, 1, n)) = n
      /\ ToSet(SubSeq(entries, 1, n)) \subseteq ToSet(entries)
  BY <1>5, <1>7, CutSeq
<1>9. QED
  BY <1>2, <1>5, <1>6, <1>7, <1>8 DEF entry

-----------------------------------------------------------------------------
LEMMA InitHolds == Init => IInv
<1> SUFFICES ASSUME Init PROVE IInv
  OBVIOUS
<1>1. TypeOK
  BY ConsumerAssumption, EmptySeq DEF Init, TypeOK
<1>2. Emitted = {} /\ delivered = {} /\ ToSet(stream) = {} /\ ToSet(batch) = {} /\ ToSet(lru) = {}
  BY EmptyElements DEF Init, Emitted
<1>3. QED
  BY <1>1, <1>2 DEF Init, IInv, OnTheirWay, LruHeard, TipDelivered, TipHighest, OneChain,
                    NothingSwallowed

\* A producer's finalized status extends the chain.
LEMMA PublishKeepsChain ==
  ASSUME IInv, NEW p \in Producer, NEW m \in Message, Publish(p, m)
  PROVE  Emitted' = Emitted \cup {m} /\ OneChain'
<1>1. m = Msg(m.slot, m.kind)
  BY MessageFields
<1>2. emitted \in [Producer -> SUBSET Message] /\ emitted' = [emitted EXCEPT ![p] = @ \cup {m}]
  BY DEF IInv, TypeOK, Publish
<1>3. Emitted' = Emitted \cup {m}
  BY <1>2 DEF Emitted
<1>4. m.kind = "finalized" =>
        \A q \in Producer : \A f \in FinalizedIn(emitted[q]) :
          f \in Lineage[m.slot] \/ m.slot \in Lineage[f]
  BY DEF Publish, Reports, FinalizedBy
<1>5. ASSUME NEW s \in Slot, Msg(s, "finalized") = m, NEW t \in Slot, Msg(t, "finalized") \in Emitted
      PROVE  s \in Lineage[t] \/ t \in Lineage[s]
  <2>1. m.slot = s /\ m.kind = "finalized"
    BY <1>5 DEF Msg
  <2>2. PICK q \in Producer : t \in FinalizedIn(emitted[q])
    BY <1>5 DEF Emitted, FinalizedIn
  <2>3. QED
    BY <1>4, <2>1, <2>2
<1>6. \A s, t \in Slot : Msg(s, "finalized") = m /\ Msg(t, "finalized") = m => s = t
  BY DEF Msg
<1>7. QED
  BY <1>3, <1>5, <1>6 DEF OneChain, IInv

LEMMA PublishStep ==
  ASSUME IInv, NEW p \in Producer, NEW m \in Message, Publish(p, m)
  PROVE  IInv'
<1>1. Emitted' = Emitted \cup {m} /\ OneChain'
  BY PublishKeepsChain
<1>2. UNCHANGED <<batch, lru, finalized_slot_tip, delivered, repeated, running>>
  BY DEF Publish, dedupVars
<1> DEFINE longer == Append(stream, m)
<1>3. /\ longer \in Seq(Message) /\ Len(longer) = Len(stream) + 1 /\ Len(stream) \in Nat
      /\ ToSet(longer) = ToSet(stream) \cup {m}
  <2>1. stream \in Seq(Message) /\ Len(stream) \in Nat /\ DOMAIN stream = 1 .. Len(stream)
    BY LenProperties DEF IInv, TypeOK
  <2>2. /\ longer \in Seq(Message) /\ Len(longer) = Len(stream) + 1
        /\ \A i \in 1 .. Len(stream) : longer[i] = stream[i]
        /\ longer[Len(stream) + 1] = m
    BY <2>1
  <2>3. DOMAIN longer = 1 .. Len(stream) + 1
    BY <2>2, LenProperties
  <2> HIDE DEF longer
  <2>4. \A i \in 1 .. Len(stream) + 1 : i \in 1 .. Len(stream) \/ i = Len(stream) + 1
    BY <2>1
  <2>5. 1 .. Len(stream) \subseteq 1 .. Len(stream) + 1 /\ Len(stream) + 1 \in 1 .. Len(stream) + 1
    BY <2>1
  <2>6. QED
    BY <2>1, <2>2, <2>3, <2>4, <2>5 DEF ToSet
<1>4. PICK gone \in {0} \cup 1 .. Len(longer) - StreamMaxLen :
        /\ stream' = SubSeq(longer, gone + 1, Len(longer))
        /\ trimmed' = trimmed \cup ToSet(SubSeq(longer, 1, gone))
  BY DEF Publish
<1> HIDE DEF longer
<1>5. gone \in 0 .. Len(longer)
  BY <1>3, ConsumerAssumption
<1>6. /\ SubSeq(longer, 1, gone) \in Seq(Message)
      /\ stream' \in Seq(Message) /\ Len(stream') <= Len(longer)
      /\ ToSet(longer) = ToSet(SubSeq(longer, 1, gone)) \cup ToSet(stream')
  BY <1>3, <1>4, <1>5, CutSeq
<1>7. trimmed' \subseteq Message
  <2>1. ToSet(SubSeq(longer, 1, gone)) \subseteq Message
    BY <1>6, LenProperties, ElementOfSeq DEF ToSet
  <2>2. QED
    BY <1>4, <2>1 DEF IInv, TypeOK
<1>8. TypeOK'
  <2>1. Len(stream') <= MaxUnread
    BY <1>3, <1>6, ConsumerAssumption, LenProperties DEF Publish
  <2>2. emitted' \in [Producer -> SUBSET Message]
    BY DEF Publish, IInv, TypeOK
  <2>3. QED
    BY <1>2, <1>6, <1>7, <2>1, <2>2 DEF IInv, TypeOK
<1>9. OnTheirWay'
  BY <1>1, <1>2, <1>3, <1>6 DEF IInv, OnTheirWay
<1>10. LruHeard' /\ TipDelivered' /\ TipHighest'
  BY <1>2 DEF IInv, LruHeard, TipDelivered, TipHighest
<1>11. NothingSwallowed'
  <2> SUFFICES ASSUME running, NEW q \in Producer, NEW x \in emitted'[q]
               PROVE  \/ x \in ToSet(stream') \cup ToSet(batch) \cup delivered \cup trimmed'
                      \/ x.slot < finalized_slot_tip
    BY <1>2 DEF NothingSwallowed
  <2>1. x = m \/ x \in emitted[q]
    BY DEF Publish, IInv, TypeOK
  <2>2. CASE x = m
    BY <1>3, <1>4, <1>6, <2>2
  <2>3. CASE x \in emitted[q]
    <3>1. \/ x \in ToSet(stream) \cup ToSet(batch) \cup delivered \cup trimmed
          \/ x.slot < finalized_slot_tip
      BY <2>3 DEF IInv, NothingSwallowed
    <3>2. QED
      BY <1>3, <1>4, <1>6, <3>1
  <2>4. QED
    BY <2>1, <2>2, <2>3
<1>12. QED
  BY <1>1, <1>8, <1>9, <1>10, <1>11 DEF IInv

LEMMA XReadStep ==
  ASSUME IInv, XRead
  PROVE  IInv'
<1> DEFINE n == IF Len(stream) < BatchSize THEN Len(stream) ELSE BatchSize
<1>1. batch' = SubSeq(stream, 1, n) /\ stream' = SubSeq(stream, n + 1, Len(stream))
  BY DEF XRead
<1>2. stream \in Seq(Message) /\ Len(stream) \in Nat /\ batch = <<>>
  BY LenProperties DEF XRead, IInv, TypeOK
<1>3. n \in 0 .. Len(stream) /\ n <= BatchSize
  BY <1>2, ConsumerAssumption
<1> HIDE DEF n
<1>4. /\ batch' \in Seq(Message) /\ Len(batch') = n
      /\ stream' \in Seq(Message) /\ Len(stream') <= Len(stream)
      /\ ToSet(stream) = ToSet(batch') \cup ToSet(stream')
  BY <1>1, <1>2, <1>3, CutSeq
<1>5. UNCHANGED <<emitted, trimmed, lru, finalized_slot_tip, delivered, repeated, running>>
  BY DEF XRead, dedupVars
<1>6. TypeOK'
  BY <1>2, <1>3, <1>4, <1>5, ConsumerAssumption, LenProperties DEF IInv, TypeOK
<1>7. OnTheirWay' /\ OneChain'
  BY <1>4, <1>5 DEF IInv, OnTheirWay, OneChain, Emitted
<1>8. LruHeard' /\ TipDelivered' /\ TipHighest'
  BY <1>5 DEF IInv, LruHeard, TipDelivered, TipHighest
<1>9. NothingSwallowed'
  BY <1>2, <1>4, <1>5, EmptyElements DEF IInv, NothingSwallowed
<1>10. QED
  BY <1>6, <1>7, <1>8, <1>9 DEF IInv

-----------------------------------------------------------------------------
(***************************************************************************)
(* What handling an entry comes to: it is outdated, or delivered now if    *)
(* not before, because a flag that is set tells of a delivery.             *)
(***************************************************************************)
LEMMA Handled ==
  ASSUME IInv, Handle
  PROVE  LET m == Head(batch)
         IN  /\ m \in Message /\ m \in Emitted
             /\ batch' \in Seq(Message) /\ Len(batch') <= Len(batch)
             /\ ToSet(batch) = {m} \cup ToSet(batch')
             /\ UNCHANGED <<emitted, stream, trimmed, running>>
             /\ \/ m.slot < finalized_slot_tip /\ UNCHANGED dedupVars
                \/ /\ m.slot >= finalized_slot_tip
                   /\ finalized_slot_tip' = IF m.kind = "finalized" THEN m.slot
                                                                    ELSE finalized_slot_tip
                   /\ lru' = Touch(m)
                   /\ delivered' = delivered \cup {m}
                   /\ repeated' \subseteq delivered'
<1> DEFINE m == Head(batch)
<1>1. batch \in Seq(Message) /\ batch # <<>> /\ batch' = Tail(batch)
  BY DEF Handle, Remaining, IInv, TypeOK
<1>2. /\ m \in Message
      /\ batch' \in Seq(Message) /\ Len(batch') <= Len(batch)
      /\ ToSet(batch) = {m} \cup ToSet(batch')
  BY <1>1, HeadElement
<1>3. m \in Emitted
  BY <1>2 DEF IInv, OnTheirWay
<1>4. UNCHANGED <<emitted, stream, trimmed, running>>
  BY DEF Handle, producerVars
<1>5. CASE Outdated(m) /\ UNCHANGED dedupVars
  BY <1>2, <1>3, <1>4, <1>5 DEF Outdated
<1>6. CASE /\ ~Outdated(m)
           /\ finalized_slot_tip' = IF RaisesTip(m) THEN m.slot ELSE finalized_slot_tip
           /\ lru' = Touch(m)
           /\ IF m.kind \in Seen(m.slot)
              THEN UNCHANGED <<delivered, repeated>>
              ELSE /\ delivered' = delivered \cup {m}
                   /\ repeated' = repeated \cup ({m} \cap delivered)
  <2> HIDE DEF m
  <2>1. m.slot \in Nat /\ m.slot \in Slot /\ m = Msg(m.slot, m.kind) /\ finalized_slot_tip \in Nat
    BY <1>2, MessageFields, ChainAssumption DEF IInv, TypeOK
  <2>2. m.slot >= finalized_slot_tip
    BY <1>6, <2>1 DEF Outdated
  <2>3. m.kind \in Seen(m.slot) => m \in delivered
    BY <2>1, SeenTypes DEF IInv, LruHeard
  <2>4. delivered' = delivered \cup {m} /\ repeated' \subseteq delivered'
    BY <1>6, <2>3 DEF IInv, TypeOK
  <2>5. QED
    BY <1>2, <1>3, <1>4, <1>6, <2>2, <2>4 DEF RaisesTip, m
<1>7. QED
  BY <1>5, <1>6 DEF Handle

LEMMA HandleStep ==
  ASSUME IInv, Handle
  PROVE  IInv'
<1> DEFINE m == Head(batch)
<1>1. /\ m \in Message /\ m \in Emitted
      /\ batch' \in Seq(Message) /\ Len(batch') <= Len(batch)
      /\ ToSet(batch) = {m} \cup ToSet(batch')
      /\ UNCHANGED <<emitted, stream, trimmed, running>>
  BY Handled
<1>2. \/ m.slot < finalized_slot_tip /\ UNCHANGED dedupVars
      \/ /\ m.slot >= finalized_slot_tip
         /\ finalized_slot_tip' = IF m.kind = "finalized" THEN m.slot ELSE finalized_slot_tip
         /\ lru' = Touch(m)
         /\ delivered' = delivered \cup {m}
         /\ repeated' \subseteq delivered'
  BY Handled
<1> HIDE DEF m
<1>3. m = Msg(m.slot, m.kind) /\ m.slot \in Slot /\ m.slot \in Nat /\ m.kind \in Kind
  BY <1>1, MessageFields
<1>4. finalized_slot_tip \in Nat /\ Slot \subseteq Nat
  BY ChainAssumption DEF IInv, TypeOK
<1>5. Len(batch') <= BatchSize
  BY <1>1, ConsumerAssumption, LenProperties DEF IInv, TypeOK
<1>6. OneChain'
  BY <1>1 DEF IInv, OneChain, Emitted
<1>7. delivered \subseteq delivered' /\ finalized_slot_tip <= finalized_slot_tip'
  BY <1>2, <1>3, <1>4 DEF dedupVars
<1>8. NothingSwallowed'
  <2> SUFFICES ASSUME running, NEW p \in Producer, NEW x \in emitted[p]
               PROVE  \/ x \in ToSet(stream) \cup ToSet(batch') \cup delivered' \cup trimmed
                      \/ x.slot < finalized_slot_tip'
    BY <1>1 DEF NothingSwallowed
  <2>1. \/ x \in ToSet(stream) \cup ToSet(batch') \cup delivered \cup trimmed
        \/ x = m
        \/ x.slot < finalized_slot_tip
    BY <1>1 DEF IInv, NothingSwallowed
  <2>2. x.slot \in Nat
    BY MessageFields DEF IInv, TypeOK
  <2>3. finalized_slot_tip' \in Nat
    BY <1>2, <1>3, <1>4 DEF dedupVars
  <2>4. x.slot < finalized_slot_tip => x.slot < finalized_slot_tip'
    BY <1>4, <1>7, <2>2, <2>3
  <2>5. x = m => m \in delivered' \/ m.slot < finalized_slot_tip'
    BY <1>2 DEF dedupVars
  <2>6. QED
    BY <1>7, <2>1, <2>4, <2>5
<1>9. CASE UNCHANGED dedupVars
  <2>1. TypeOK'
    BY <1>1, <1>5, <1>9 DEF IInv, TypeOK, dedupVars
  <2>2. OnTheirWay' /\ LruHeard' /\ TipDelivered' /\ TipHighest'
    BY <1>1, <1>9 DEF IInv, OnTheirWay, LruHeard, TipDelivered, TipHighest, Emitted, dedupVars
  <2>3. QED
    BY <1>6, <1>8, <2>1, <2>2 DEF IInv
<1>10. CASE /\ m.slot >= finalized_slot_tip
            /\ finalized_slot_tip' = IF m.kind = "finalized" THEN m.slot ELSE finalized_slot_tip
            /\ lru' = Touch(m)
            /\ delivered' = delivered \cup {m}
            /\ repeated' \subseteq delivered'
  <2>1. /\ lru' \in Seq(SeenSlot) /\ Len(lru') <= LruCapacity
        /\ ToSet(lru') \subseteq
             ToSet(lru) \cup {[slot |-> m.slot, seen |-> Seen(m.slot) \cup {m.kind}]}
    BY <1>1, <1>10, TouchedEntries DEF IInv
  <2>2. TypeOK'
    BY <1>1, <1>3, <1>5, <1>10, <2>1 DEF IInv, TypeOK
  <2>3. OnTheirWay'
    BY <1>1, <1>10 DEF IInv, OnTheirWay, Emitted
  <2>4. LruHeard'
    <3>1. \A k \in Seen(m.slot) : Msg(m.slot, k) \in delivered
      BY <1>3, SeenTypes DEF IInv, LruHeard
    <3>2. QED
      BY <1>3, <1>10, <2>1, <3>1 DEF IInv, LruHeard
  <2>5. TipDelivered'
    BY <1>3, <1>10 DEF IInv, TipDelivered
  <2>6. TipHighest'
    <3> SUFFICES ASSUME NEW s \in Slot, Msg(s, "finalized") \in delivered'
                 PROVE  s <= finalized_slot_tip'
      BY DEF TipHighest
    <3>1. CASE Msg(s, "finalized") \in delivered
      <4>1. s <= finalized_slot_tip /\ s \in Nat
        BY <1>4, <3>1 DEF IInv, TipHighest
      <4>2. QED
        BY <1>3, <1>4, <1>10, <4>1
    <3>2. CASE Msg(s, "finalized") = m
      <4>1. m.slot = s /\ m.kind = "finalized"
        BY <3>2 DEF Msg
      <4>2. QED
        BY <1>3, <1>10, <4>1
    <3>3. QED
      BY <1>10, <3>1, <3>2
  <2>7. QED
    BY <1>6, <1>8, <2>2, <2>3, <2>4, <2>5, <2>6 DEF IInv
<1>11. QED
  BY <1>2, <1>9, <1>10

LEMMA StopStep ==
  ASSUME IInv, Stop
  PROVE  IInv'
<1>1. /\ batch' = <<>> /\ running' = FALSE
      /\ UNCHANGED <<emitted, stream, trimmed, lru, finalized_slot_tip, delivered, repeated>>
  BY DEF Stop, producerVars, dedupVars
<1>2. batch' \in Seq(Message) /\ Len(batch') <= BatchSize
  BY <1>1, ConsumerAssumption, EmptySeq
<1>3. TypeOK'
  BY <1>1, <1>2 DEF IInv, TypeOK
<1>4. QED
  BY <1>1, <1>3, EmptyElements
  DEF IInv, OnTheirWay, LruHeard, TipDelivered, TipHighest, OneChain, Emitted, NothingSwallowed

LEMMA NextHolds == IInv /\ [Next]_vars => IInv'
<1> SUFFICES ASSUME IInv, [Next]_vars PROVE IInv'
  OBVIOUS
<1>1. CASE \E p \in Producer, m \in Message : Publish(p, m)
  BY <1>1, PublishStep
<1>2. CASE XRead
  BY <1>2, XReadStep
<1>3. CASE Handle
  BY <1>3, HandleStep
<1>4. CASE Stop
  BY <1>4, StopStep
<1>5. CASE UNCHANGED vars
  BY <1>5 DEF vars, producerVars, dedupVars, IInv, TypeOK, OnTheirWay, LruHeard, TipDelivered,
              TipHighest, OneChain, Emitted, NothingSwallowed
<1>6. QED
  BY <1>1, <1>2, <1>3, <1>4, <1>5 DEF Next

\* The inductive invariant of the consumer and its producers.
THEOREM ConsumerInvariant == Spec => []IInv
  BY InitHolds, NextHolds, PTL DEF Spec

(***************************************************************************)
(* Deduplication never swallows news (redis.rs:73-99), whatever is trimmed *)
(* or missed and however small the LRU is.                                 *)
(***************************************************************************)
THEOREM NothingIsSwallowed == Spec => []NothingSwallowed
<1>1. IInv => NothingSwallowed
  BY DEF IInv
<1>2. QED
  BY <1>1, ConsumerInvariant, PTL

-----------------------------------------------------------------------------
LEMMA FeedInitHolds == Init => Feed!FeedInit
  BY DEF Init, Feed!FeedInit

\* Nothing is handed over a second time in this step.
LEMMA HandleDelivers ==
  ASSUME IInv, Handle, NoDuplicate, NoDuplicate'
  PROVE  [Feed!FeedNext]_<<delivered, repeated, finalized_slot_tip>>
<1> DEFINE m == Head(batch)
<1>1. m \in Message /\ m \in Emitted
  BY Handled
<1>2. \/ UNCHANGED dedupVars
      \/ /\ m.slot >= finalized_slot_tip
         /\ finalized_slot_tip' = IF m.kind = "finalized" THEN m.slot ELSE finalized_slot_tip
         /\ delivered' = delivered \cup {m}
  BY Handled
<1> HIDE DEF m
<1>3. m = Msg(m.slot, m.kind) /\ m.slot \in Slot /\ m.slot \in Nat /\ finalized_slot_tip \in Nat
  BY <1>1, MessageFields, ChainAssumption DEF IInv, TypeOK
<1> UNCHANGED repeated
  BY DEF NoDuplicate
<1>4. CASE UNCHANGED dedupVars
  BY <1>4 DEF dedupVars
<1>5. CASE /\ m.slot >= finalized_slot_tip
           /\ finalized_slot_tip' = IF m.kind = "finalized" THEN m.slot ELSE finalized_slot_tip
           /\ delivered' = delivered \cup {m}
  <2>1. CASE m \in delivered
    <3>1. m.kind = "finalized" => m.slot <= finalized_slot_tip
      BY <1>3, <2>1 DEF IInv, TipHighest
    <3>2. UNCHANGED <<delivered, repeated, finalized_slot_tip>>
      BY <1>3, <1>5, <2>1, <3>1
    <3>3. QED
      BY <3>2
  <2>2. CASE m \notin delivered
    <3>1. m.kind = "finalized" /\ finalized_slot_tip # 0 =>
            finalized_slot_tip \in Lineage[m.slot] \/ m.slot \in Lineage[finalized_slot_tip]
      <4> SUFFICES ASSUME m.kind = "finalized", finalized_slot_tip # 0
                   PROVE  \/ finalized_slot_tip \in Lineage[m.slot]
                          \/ m.slot \in Lineage[finalized_slot_tip]
        OBVIOUS
      <4>1. /\ finalized_slot_tip \in Slot
            /\ Msg(finalized_slot_tip, "finalized") \in delivered
            /\ Msg(finalized_slot_tip, "finalized") \in Emitted
        BY DEF IInv, TypeOK, TipDelivered, OnTheirWay
      <4>2. finalized_slot_tip # m.slot
        BY <1>3, <2>2, <4>1
      <4>3. QED
        BY <1>1, <1>3, <4>1, <4>2 DEF IInv, OneChain
    <3>2. Feed!OnFinalizedChain(m)
      BY <3>1 DEF Feed!OnFinalizedChain, Feed!Lineage, Lineage
    <3>3. Feed!Deliver(m)
      BY <1>3, <1>5, <2>2, <3>2 DEF Feed!Deliver, Feed!News
    <3>4. m \in Feed!Message
      BY <1>1 DEF Feed!Message, Message, Feed!Kind, Kind, Feed!CommitmentLevel, CommitmentLevel
    <3>5. QED
      BY <3>3, <3>4 DEF Feed!FeedNext
  <2>3. QED
    BY <2>1, <2>2
<1>6. QED
  BY <1>2, <1>4, <1>5

(***************************************************************************)
(* The consumer implements the feed for as long as the LRU remembers what  *)
(* was said, whatever is trimmed and whichever statuses are missed: every  *)
(* step hands over one piece of news, at or above the tip and on the       *)
(* finalized chain, or nothing.                                            *)
(***************************************************************************)
THEOREM FeedWhileRemembered == Spec /\ []NoDuplicate => ImplementsFeed
<1>1. IInv /\ NoDuplicate /\ NoDuplicate' /\ [Next]_vars
        => [Feed!FeedNext]_<<delivered, repeated, finalized_slot_tip>>
  <2> SUFFICES ASSUME IInv, NoDuplicate, NoDuplicate', [Next]_vars
               PROVE  [Feed!FeedNext]_<<delivered, repeated, finalized_slot_tip>>
    OBVIOUS
  <2>1. CASE Handle
    BY <2>1, HandleDelivers
  <2>2. CASE ~Handle
    BY <2>2 DEF Next, Publish, XRead, Stop, vars, dedupVars
  <2>3. QED
    BY <2>1, <2>2
<1>2. QED
  BY <1>1, FeedInitHolds, ConsumerInvariant, PTL
  DEF Spec, ImplementsFeed, Feed!FeedSpec, Feed!feedVars

-----------------------------------------------------------------------------
(***************************************************************************)
(* What is on its way as one queue, in the order in which it is handled.   *)
(* The producers' order is the queue's as long as nothing is trimmed.      *)
(***************************************************************************)
Queue == batch \o stream

Ahead(i) == {Queue[j] : j \in 1 .. i - 1}

LEMMA QueueItems ==
  ASSUME TypeOK
  PROVE  /\ Len(batch) \in Nat /\ Len(stream) \in Nat
         /\ Queue \in Seq(Message) /\ Len(Queue) = Len(batch) + Len(stream)
         /\ Len(Queue) \in Nat /\ DOMAIN Queue = 1 .. Len(Queue)
         /\ \A i \in 1 .. Len(Queue) :
              /\ Queue[i] = IF i <= Len(batch) THEN batch[i] ELSE stream[i - Len(batch)]
              /\ Queue[i] \in Message
         /\ ToSet(Queue) = ToSet(batch) \cup ToSet(stream)
<1>1. batch \in Seq(Message) /\ stream \in Seq(Message)
  BY DEF TypeOK
<1>2. Len(batch) \in Nat /\ Len(stream) \in Nat
  BY <1>1, LenProperties
<1>3. /\ Queue \in Seq(Message) /\ Len(Queue) = Len(batch) + Len(stream)
      /\ ToSet(Queue) = ToSet(batch) \cup ToSet(stream)
  BY <1>1, ConcatElements DEF Queue
<1>4. \A i \in 1 .. Len(batch) + Len(stream) :
        Queue[i] = IF i <= Len(batch) THEN batch[i] ELSE stream[i - Len(batch)]
  BY <1>1, ConcatProperties DEF Queue
<1>5. Len(Queue) \in Nat /\ DOMAIN Queue = 1 .. Len(Queue)
  BY <1>3, LenProperties
<1>6. \A i \in 1 .. Len(Queue) : Queue[i] \in Message
  BY <1>3, ElementOfSeq
<1>7. QED
  BY <1>2, <1>3, <1>4, <1>5, <1>6

\* The item at the end of a queue has all the others ahead of it.
LEMMA AheadOfAll ==
  ASSUME TypeOK
  PROVE  /\ {Queue[j] : j \in 1 .. Len(Queue)} = ToSet(Queue)
         /\ \A i \in 1 .. Len(Queue) : Ahead(i) \subseteq Message
<1>1. Len(Queue) \in Nat /\ DOMAIN Queue = 1 .. Len(Queue)
      /\ \A i \in 1 .. Len(Queue) : Queue[i] \in Message
  BY QueueItems
<1>2. {Queue[j] : j \in 1 .. Len(Queue)} = ToSet(Queue)
  BY <1>1 DEF ToSet
<1>3. \A i \in 1 .. Len(Queue) : \A j \in 1 .. i - 1 : j \in 1 .. Len(Queue)
  BY <1>1
<1>4. QED
  BY <1>1, <1>2, <1>3 DEF Ahead

LEMMA PublishQueues ==
  ASSUME IInv, NEW p \in Producer, NEW m \in Message, Publish(p, m), trimmed' = {}
  PROVE  /\ trimmed = {}
         /\ Len(Queue') = Len(Queue) + 1 /\ Queue'[Len(Queue) + 1] = m
         /\ \A i \in 1 .. Len(Queue) : Queue'[i] = Queue[i]
<1> DEFINE longer == Append(stream, m)
<1>1. TypeOK /\ TypeOK' /\ batch' = batch
  BY PublishStep DEF IInv, Publish
<1>2. stream \in Seq(Message) /\ Len(stream) \in Nat
  BY <1>1, QueueItems DEF TypeOK
<1>3. /\ longer \in Seq(Message) /\ Len(longer) = Len(stream) + 1
      /\ \A i \in 1 .. Len(stream) : longer[i] = stream[i]
      /\ longer[Len(stream) + 1] = m
  BY <1>2
<1>4. PICK gone \in {0} \cup 1 .. Len(longer) - StreamMaxLen :
        /\ stream' = SubSeq(longer, gone + 1, Len(longer))
        /\ trimmed' = trimmed \cup ToSet(SubSeq(longer, 1, gone))
  BY DEF Publish
<1> HIDE DEF longer
<1>5. gone \in 0 .. Len(longer)
  BY <1>2, <1>3, ConsumerAssumption
<1>6. gone = 0
  <2>1. /\ SubSeq(longer, 1, gone) \in Seq(Message) /\ Len(SubSeq(longer, 1, gone)) = gone
    BY <1>3, <1>5, CutSeq
  <2>2. DOMAIN SubSeq(longer, 1, gone) = 1 .. gone
    BY <2>1, LenProperties
  <2>3. gone # 0 => 1 \in 1 .. gone
    BY <1>5
  <2>4. ToSet(SubSeq(longer, 1, gone)) = {}
    BY <1>4
  <2>5. QED
    BY <2>2, <2>3, <2>4 DEF ToSet
<1>7. /\ Len(stream') = Len(stream) + 1
      /\ \A i \in 1 .. Len(stream) : stream'[i] = stream[i]
      /\ stream'[Len(stream) + 1] = m
  <2>1. stream' = SubSeq(longer, 1, Len(longer))
    BY <1>4, <1>6
  <2>2. Len(longer) \in Nat /\ \A i \in 1 .. Len(longer) : longer[i] \in Message
    BY <1>2, <1>3, ElementOfSeq
  <2>3. /\ Len(stream') = Len(longer)
        /\ \A i \in 1 .. Len(longer) : stream'[i] = longer[i]
    <3>1. /\ Len(SubSeq(longer, 1, Len(longer))) = IF 1 <= Len(longer) THEN Len(longer) - 1 + 1 ELSE 0
          /\ \A i \in 1 .. Len(longer) - 1 + 1 : SubSeq(longer, 1, Len(longer))[i] = longer[1 + i - 1]
      BY <2>2, SubSeqProperties
    <3>2. QED
      BY <1>2, <1>3, <2>1, <2>2, <3>1
  <2>4. QED
    BY <1>2, <1>3, <2>3
<1>8. /\ Len(batch) \in Nat /\ Len(Queue) = Len(batch) + Len(stream)
      /\ \A i \in 1 .. Len(Queue) :
           Queue[i] = IF i <= Len(batch) THEN batch[i] ELSE stream[i - Len(batch)]
  BY <1>1, QueueItems
<1>9. /\ Len(Queue') = Len(batch) + Len(stream')
      /\ \A i \in 1 .. Len(Queue') :
           Queue'[i] = IF i <= Len(batch) THEN batch[i] ELSE stream'[i - Len(batch)]
  <2>1. batch' \in Seq(Message) /\ stream' \in Seq(Message)
    BY <1>1 DEF TypeOK
  <2>2. QED
    BY <1>1, <2>1, ConcatProperties DEF Queue
<1>10. Len(Queue') = Len(Queue) + 1
  BY <1>2, <1>7, <1>8, <1>9
<1>11. Queue'[Len(Queue) + 1] = m
  BY <1>2, <1>7, <1>8, <1>9
<1>12. ASSUME NEW i \in 1 .. Len(Queue) PROVE Queue'[i] = Queue[i]
  <2>1. i \in 1 .. Len(Queue') /\ (i <= Len(batch) \/ i - Len(batch) \in 1 .. Len(stream))
    BY <1>2, <1>8, <1>10
  <2>2. QED
    BY <1>7, <1>8, <1>9, <2>1
<1>13. QED
  BY <1>4, <1>10, <1>11, <1>12

LEMMA XReadQueues ==
  ASSUME TypeOK, XRead
  PROVE  Queue' = Queue
<1> DEFINE n == IF Len(stream) < BatchSize THEN Len(stream) ELSE BatchSize
<1>1. /\ batch = <<>> /\ stream \in Seq(Message) /\ Len(stream) \in Nat
      /\ batch' = SubSeq(stream, 1, n) /\ stream' = SubSeq(stream, n + 1, Len(stream))
  BY LenProperties DEF XRead, TypeOK
<1>2. n \in 0 .. Len(stream)
  BY <1>1, ConsumerAssumption
<1> HIDE DEF n
<1>3. SubSeq(stream, 1, n) \o SubSeq(stream, n + 1, Len(stream)) = SubSeq(stream, 1, Len(stream))
  <2>1. /\ 1 \in 1 .. Len(stream) + 1 /\ n \in 1 - 1 .. Len(stream)
        /\ Len(stream) \in n .. Len(stream)
    BY <1>1, <1>2
  <2>2. QED
    BY <1>1, <2>1, ConcatAdjacentSubSeq
<1>4. SubSeq(stream, 1, Len(stream)) = stream
  BY <1>1, SubSeqFull
<1>5. <<>> \o stream = stream
  BY <1>1, ConcatEmptySeq
<1>6. QED
  BY <1>1, <1>3, <1>4, <1>5 DEF Queue

LEMMA HandleQueues ==
  ASSUME TypeOK, Handle
  PROVE  /\ Len(Queue) >= 1 /\ Queue[1] = Head(batch)
         /\ Len(Queue') = Len(Queue) - 1
         /\ \A i \in 1 .. Len(Queue') : Queue'[i] = Queue[i + 1]
<1>1. /\ batch \in Seq(Message) /\ batch # <<>> /\ batch' = Tail(batch)
      /\ stream \in Seq(Message) /\ stream' = stream
  BY DEF Handle, Remaining, producerVars, TypeOK
<1>2. /\ Len(batch) \in Nat \ {0} /\ Len(stream) \in Nat
      /\ Head(batch) = batch[1]
      /\ batch' \in Seq(Message) /\ Len(batch') = Len(batch) - 1
      /\ \A i \in 1 .. Len(batch') : batch'[i] = batch[i + 1]
  BY <1>1, EmptySeq, LenProperties, HeadTailProperties
<1>3. /\ Len(Queue) = Len(batch) + Len(stream)
      /\ \A i \in 1 .. Len(Queue) :
           Queue[i] = IF i <= Len(batch) THEN batch[i] ELSE stream[i - Len(batch)]
  BY QueueItems
<1>4. /\ Len(Queue') = Len(batch') + Len(stream)
      /\ \A i \in 1 .. Len(Queue') :
           Queue'[i] = IF i <= Len(batch') THEN batch'[i] ELSE stream[i - Len(batch')]
  BY <1>1, <1>2, ConcatProperties DEF Queue
<1>5. Len(Queue) >= 1 /\ Queue[1] = Head(batch) /\ Len(Queue') = Len(Queue) - 1
  BY <1>2, <1>3, <1>4
<1>6. ASSUME NEW i \in 1 .. Len(Queue') PROVE Queue'[i] = Queue[i + 1]
  <2>1. i + 1 \in 1 .. Len(Queue) /\ i \in Nat
    BY <1>2, <1>3, <1>5
  <2>2. CASE i <= Len(batch')
    <3>1. i + 1 <= Len(batch) /\ i \in 1 .. Len(batch')
      BY <1>2, <2>1, <2>2
    <3>2. QED
      BY <1>2, <1>3, <1>4, <2>1, <2>2, <3>1
  <2>3. CASE ~(i <= Len(batch'))
    <3>1. ~(i + 1 <= Len(batch)) /\ (i + 1) - Len(batch) = i - Len(batch')
      BY <1>2, <2>1, <2>3
    <3>2. QED
      BY <1>3, <1>4, <2>1, <2>3, <3>1
  <2>4. QED
    BY <2>2, <2>3
<1>7. QED
  BY <1>5, <1>6

(***************************************************************************)
(* A step moves the queue in one of three ways: an item joins behind all   *)
(* the others, the first one leaves, or nothing changes.                   *)
(***************************************************************************)
Joins(m) ==
  /\ Len(Queue') = Len(Queue) + 1 /\ Queue'[Len(Queue) + 1] = m
  /\ \A i \in 1 .. Len(Queue) : Queue'[i] = Queue[i] /\ Ahead(i)' = Ahead(i)
  /\ \A i : i = Len(Queue) + 1 => Ahead(i)' = ToSet(Queue)

Leaves(m) ==
  /\ Len(Queue) >= 1 /\ Queue[1] = m /\ Ahead(1) = {}
  /\ Len(Queue') = Len(Queue) - 1
  /\ \A i \in 1 .. Len(Queue') : Queue'[i] = Queue[i + 1] /\ Ahead(i + 1) = Ahead(i)' \cup {m}

LEMMA PublishJoins ==
  ASSUME IInv, NEW p \in Producer, NEW m \in Message, Publish(p, m), trimmed' = {}
  PROVE  trimmed = {} /\ Joins(m)
<1>1. /\ trimmed = {}
      /\ Len(Queue') = Len(Queue) + 1 /\ Queue'[Len(Queue) + 1] = m
      /\ \A i \in 1 .. Len(Queue) : Queue'[i] = Queue[i]
  BY PublishQueues
<1>2. Len(Queue) \in Nat
  BY QueueItems DEF IInv
<1>3. ASSUME NEW i \in 1 .. Len(Queue) + 1
      PROVE  {Queue'[j] : j \in 1 .. i - 1} = {Queue[j] : j \in 1 .. i - 1}
  <2>1. \A j \in 1 .. i - 1 : j \in 1 .. Len(Queue)
    BY <1>2
  <2>2. QED
    BY <1>1, <2>1
<1>4. \A i \in 1 .. Len(Queue) : i \in 1 .. Len(Queue) + 1
  BY <1>2
<1>5. \A i \in 1 .. Len(Queue) : Ahead(i)' = Ahead(i)
  BY <1>3, <1>4 DEF Ahead
<1>6. ASSUME NEW i, i = Len(Queue) + 1 PROVE Ahead(i)' = ToSet(Queue)
  <2>1. i \in 1 .. Len(Queue) + 1 /\ i - 1 = Len(Queue)
    BY <1>2, <1>6
  <2>2. {Queue[j] : j \in 1 .. Len(Queue)} = ToSet(Queue)
    BY AheadOfAll DEF IInv
  <2>3. {Queue'[j] : j \in 1 .. i - 1} = {Queue[j] : j \in 1 .. i - 1}
    BY <1>3, <2>1
  <2>4. Ahead(i)' = {Queue'[j] : j \in 1 .. i - 1}
    BY DEF Ahead
  <2>5. QED
    BY <2>1, <2>2, <2>3, <2>4
<1>7. QED
  BY <1>1, <1>5, <1>6 DEF Joins

LEMMA HandleLeaves ==
  ASSUME IInv, Handle
  PROVE  Leaves(Head(batch))
<1> DEFINE m == Head(batch)
<1>1. /\ Len(Queue) >= 1 /\ Queue[1] = m
      /\ Len(Queue') = Len(Queue) - 1
      /\ \A i \in 1 .. Len(Queue') : Queue'[i] = Queue[i + 1]
  BY HandleQueues DEF IInv
<1>2. Len(Queue) \in Nat
  BY QueueItems DEF IInv
<1> HIDE DEF m
<1>3. Ahead(1) = {}
  BY DEF Ahead
<1>4. ASSUME NEW i \in 1 .. Len(Queue')
      PROVE  Ahead(i + 1) = Ahead(i)' \cup {m}
  <2>1. /\ Ahead(i + 1) = {Queue[j] : j \in 1 .. (i + 1) - 1}
        /\ Ahead(i)' = {Queue'[j] : j \in 1 .. i - 1}
    BY DEF Ahead
  <2>2. (i + 1) - 1 = i
    BY <1>1, <1>2
  <2>3. \A j \in 1 .. i - 1 : j \in 1 .. Len(Queue') /\ j + 1 \in 1 .. i
    BY <1>1, <1>2
  <2>4. Ahead(i)' \subseteq Ahead(i + 1)
    BY <1>1, <2>1, <2>2, <2>3
  <2>5. 1 \in 1 .. i
    BY <1>1, <1>2
  <2>6. m \in Ahead(i + 1)
    BY <1>1, <2>1, <2>2, <2>5
  <2>7. ASSUME NEW j \in 1 .. i, j # 1 PROVE Queue[j] \in Ahead(i)'
    <3>1. j - 1 \in 1 .. i - 1 /\ (j - 1) + 1 = j
      BY <1>1, <1>2, <2>7
    <3>2. Queue'[j - 1] = Queue[j]
      BY <1>1, <2>3, <3>1
    <3>3. QED
      BY <2>1, <3>1, <3>2
  <2>8. Ahead(i + 1) \subseteq Ahead(i)' \cup {m}
    <3>1. Ahead(i + 1) = {Queue[j] : j \in 1 .. i}
      BY <2>1, <2>2
    <3>2. QED
      BY <1>1, <2>7, <3>1
  <2>9. QED
    BY <2>4, <2>6, <2>8
<1>5. QED
  BY <1>1, <1>3, <1>4 DEF Leaves, m

\* What a producer has written and no trimming took is on its way or was heard.
LEMMA WrittenIsHeard ==
  ASSUME IInv, running, trimmed = {}, NEW p \in Producer, NEW x \in emitted[p]
  PROVE  x \in ToSet(Queue) \cup delivered \/ x.slot < finalized_slot_tip
<1>1. ToSet(Queue) = ToSet(batch) \cup ToSet(stream)
  BY QueueItems DEF IInv
<1>2. QED
  BY <1>1 DEF IInv, NothingSwallowed

-----------------------------------------------------------------------------
(***************************************************************************)
(* With producers that miss no status: the lower levels of a slot and the  *)
(* finalized statuses of its ancestors are handled before its finalized    *)
(* status, so the tip check never drops the first copy of one.             *)
(***************************************************************************)
Levels(s) == {Msg(s, k) : k \in Before["finalized"] \cap Reported}

KindsReported == \A m \in Emitted : m.kind \in Reported

LevelsAhead ==
  \A i \in 1 .. Len(Queue) : Queue[i].kind = "finalized" =>
    \/ Queue[i].slot < finalized_slot_tip
    \/ Levels(Queue[i].slot) \subseteq delivered \cup Ahead(i)

AncestorsAhead ==
  \A i \in 1 .. Len(Queue) : Queue[i].kind = "finalized" =>
    \A s \in Lineage[Queue[i].slot] \ {Queue[i].slot} :
      Msg(s, "finalized") \in delivered \cup Ahead(i)

LevelsDelivered ==
  \A s \in Slot : Msg(s, "finalized") \in delivered => Levels(s) \subseteq delivered

OrderInv ==
  EveryLevel /\ trimmed = {} =>
    /\ running => LevelsAhead /\ AncestorsAhead
    /\ KindsReported
    /\ LevelsDelivered
    /\ NoFinalizedGap

\* A finalized status of a slot below the tip was delivered: one chain, no gap.
LEMMA OldFinalsDelivered ==
  ASSUME IInv, NoFinalizedGap, NEW s \in Slot, Msg(s, "finalized") \in Emitted,
         s < finalized_slot_tip
  PROVE  Msg(s, "finalized") \in delivered
<1>1. finalized_slot_tip \in Slot /\ finalized_slot_tip \in Nat /\ s \in Nat /\ finalized_slot_tip # 0
  <2>1. finalized_slot_tip \in Slot \cup {0}
    BY DEF IInv, TypeOK
  <2>2. s \in Nat
    BY SlotsAreNumbers
  <2>3. finalized_slot_tip # 0
    BY <2>2
  <2>4. QED
    BY <2>1, <2>2, <2>3, SlotsAreNumbers
<1>2. Msg(finalized_slot_tip, "finalized") \in Emitted
  BY <1>1 DEF IInv, TipDelivered, OnTheirWay
<1>3. s = finalized_slot_tip \/ s \in Lineage[finalized_slot_tip] \/ finalized_slot_tip \in Lineage[s]
  BY <1>1, <1>2 DEF IInv, OneChain
<1>4. finalized_slot_tip \notin Lineage[s]
  <2>1. \A t \in Lineage[s] : t <= s
    BY LineageIsBelow
  <2>2. ~(finalized_slot_tip <= s)
    BY <1>1
  <2>3. QED
    BY <2>1, <2>2
<1>5. s # finalized_slot_tip
  BY <1>1
<1>6. QED
  BY <1>1, <1>3, <1>4, <1>5 DEF NoFinalizedGap

LEMMA OrderInit == Init => OrderInv
<1> SUFFICES ASSUME Init PROVE OrderInv
  OBVIOUS
<1>1. Emitted = {} /\ delivered = {} /\ finalized_slot_tip = 0
  BY DEF Init, Emitted
<1>2. TypeOK /\ batch = <<>> /\ stream = <<>>
  BY InitHolds DEF IInv, Init
<1>3. Len(Queue) = 0
  BY <1>2, QueueItems, EmptySeq
<1>4. QED
  BY <1>1, <1>3
  DEF OrderInv, LevelsAhead, AncestorsAhead, KindsReported, LevelsDelivered, NoFinalizedGap

LEMMA PublishOrder ==
  ASSUME IInv, OrderInv, NEW p \in Producer, NEW m \in Message, Publish(p, m)
  PROVE  OrderInv'
<1> SUFFICES ASSUME EveryLevel, trimmed' = {}
             PROVE  /\ running' => LevelsAhead' /\ AncestorsAhead'
                    /\ KindsReported' /\ LevelsDelivered' /\ NoFinalizedGap'
  BY DEF OrderInv
<1>1. /\ trimmed = {} /\ Len(Queue') = Len(Queue) + 1 /\ Len(Queue) \in Nat
      /\ \A i \in 1 .. Len(Queue) : Queue'[i] = Queue[i] /\ Ahead(i)' = Ahead(i)
      /\ \A i : i = Len(Queue) + 1 => Queue'[i] = m /\ Ahead(i)' = ToSet(Queue)
  BY PublishJoins, QueueItems DEF Joins, IInv
<1>2. UNCHANGED <<finalized_slot_tip, delivered, running>>
  BY DEF Publish, dedupVars
<1>3. \A i \in 1 .. Len(Queue') : i \in 1 .. Len(Queue) \/ i = Len(Queue) + 1
  BY <1>1
<1>4. m.kind \in Reported /\ m.slot \in Slot
  BY MessageFields DEF Publish, Reports
<1>5. KindsReported'
  BY <1>1, <1>4, PublishKeepsChain DEF OrderInv, KindsReported
<1>6. LevelsDelivered' /\ NoFinalizedGap'
  BY <1>1, <1>2 DEF OrderInv, LevelsDelivered, NoFinalizedGap
<1>7. ASSUME running, m.kind = "finalized"
      PROVE  \/ m.slot < finalized_slot_tip
             \/ Levels(m.slot) \subseteq delivered \cup ToSet(Queue)
  <2>1. Levels(m.slot) \subseteq emitted[p]
    BY <1>7 DEF Publish, Reports, Levels, Before
  <2>2. \A k : Msg(m.slot, k).slot = m.slot
    BY DEF Msg
  <2>3. \A x \in Levels(m.slot) : x.slot = m.slot
    BY <2>2 DEF Levels
  <2>4. QED
    BY <1>1, <1>7, <2>1, <2>3, WrittenIsHeard
<1>8. ASSUME running, m.kind = "finalized", NEW s \in Lineage[m.slot] \ {m.slot}
      PROVE  Msg(s, "finalized") \in delivered \cup ToSet(Queue)
  <2>1. s \in Slot /\ Msg(s, "finalized") \in emitted[p]
    BY <1>8 DEF Publish, Reports, FinalizedBy, FinalizedIn
  <2>2. Msg(s, "finalized") \in Emitted /\ Msg(s, "finalized").slot = s
    BY <2>1 DEF Emitted, Msg
  <2>3. CASE s < finalized_slot_tip
    BY <1>1, <2>1, <2>2, <2>3, OldFinalsDelivered DEF OrderInv
  <2>4. CASE ~(s < finalized_slot_tip)
    BY <1>1, <1>8, <2>1, <2>2, <2>4, WrittenIsHeard
  <2>5. QED
    BY <2>3, <2>4
<1>9. ASSUME running PROVE LevelsAhead'
  <2> SUFFICES ASSUME NEW i \in 1 .. Len(Queue'), Queue'[i].kind = "finalized"
               PROVE  \/ Queue'[i].slot < finalized_slot_tip
                      \/ Levels(Queue'[i].slot) \subseteq delivered \cup Ahead(i)'
    BY <1>2 DEF LevelsAhead, Levels
  <2>1. CASE i \in 1 .. Len(Queue)
    BY <1>1, <1>9, <2>1 DEF OrderInv, LevelsAhead
  <2>2. CASE i = Len(Queue) + 1
    BY <1>1, <1>7, <1>9, <2>2
  <2>3. QED
    BY <1>3, <2>1, <2>2
<1>10. ASSUME running PROVE AncestorsAhead'
  <2> SUFFICES ASSUME NEW i \in 1 .. Len(Queue'), Queue'[i].kind = "finalized",
                      NEW s \in Lineage[Queue'[i].slot] \ {Queue'[i].slot}
               PROVE  Msg(s, "finalized") \in delivered \cup Ahead(i)'
    BY <1>2 DEF AncestorsAhead
  <2>1. CASE i \in 1 .. Len(Queue)
    BY <1>1, <1>10, <2>1 DEF OrderInv, AncestorsAhead
  <2>2. CASE i = Len(Queue) + 1
    BY <1>1, <1>8, <1>10, <2>2
  <2>3. QED
    BY <1>3, <2>1, <2>2
<1>11. QED
  BY <1>2, <1>5, <1>6, <1>9, <1>10

LEMMA XReadOrder ==
  ASSUME IInv, OrderInv, XRead
  PROVE  OrderInv'
<1>1. Queue' = Queue
  BY XReadQueues DEF IInv
<1>2. Len(Queue') = Len(Queue) /\ \A i : Ahead(i)' = Ahead(i)
  BY <1>1 DEF Ahead
<1>3. UNCHANGED <<emitted, trimmed, finalized_slot_tip, delivered, running>>
  BY DEF XRead, dedupVars
<1>4. QED
  BY <1>1, <1>2, <1>3
  DEF OrderInv, LevelsAhead, AncestorsAhead, KindsReported, LevelsDelivered, NoFinalizedGap,
      Levels, Emitted

LEMMA HandleOrder ==
  ASSUME IInv, OrderInv, Handle
  PROVE  OrderInv'
<1> DEFINE m == Head(batch)
<1>1. /\ m \in Message /\ m \in Emitted
      /\ UNCHANGED <<emitted, trimmed, running>>
  BY Handled
<1>2. \/ m.slot < finalized_slot_tip /\ UNCHANGED dedupVars
      \/ /\ m.slot >= finalized_slot_tip
         /\ finalized_slot_tip' = IF m.kind = "finalized" THEN m.slot ELSE finalized_slot_tip
         /\ delivered' = delivered \cup {m}
  BY Handled
<1>3. Leaves(m) /\ Len(Queue) \in Nat
  BY HandleLeaves, QueueItems DEF IInv
<1>4. running
  BY DEF Handle
<1> HIDE DEF m
<1>5. m = Msg(m.slot, m.kind) /\ m.slot \in Slot /\ m.slot \in Nat
  BY <1>1, MessageFields
<1> SUFFICES ASSUME EveryLevel, trimmed = {}
             PROVE  LevelsAhead' /\ AncestorsAhead' /\ KindsReported' /\ LevelsDelivered' /\ NoFinalizedGap'
  BY <1>1 DEF OrderInv
<1>6. LevelsAhead /\ AncestorsAhead /\ KindsReported /\ LevelsDelivered /\ NoFinalizedGap
  BY <1>4 DEF OrderInv
<1>7. finalized_slot_tip \in Nat /\ finalized_slot_tip <= finalized_slot_tip' /\ finalized_slot_tip' \in Nat
  <2>1. finalized_slot_tip \in Slot \cup {0}
    BY DEF IInv, TypeOK
  <2>2. finalized_slot_tip \in Nat
    BY <2>1, SlotsAreNumbers
  <2>3. QED
    BY <1>2, <1>5, <2>2 DEF dedupVars
<1>8. delivered \subseteq delivered' /\ (m \in delivered' \/ m.slot < finalized_slot_tip)
  BY <1>2 DEF dedupVars
<1>9. 1 \in 1 .. Len(Queue) /\ Queue[1] = m /\ Ahead(1) = {}
  BY <1>3 DEF Leaves
<1>10. \A i \in 1 .. Len(Queue') :
         i + 1 \in 1 .. Len(Queue) /\ Queue'[i] = Queue[i + 1] /\ Ahead(i + 1) = Ahead(i)' \cup {m}
  <2>1. Len(Queue') = Len(Queue) - 1
    BY <1>3 DEF Leaves
  <2>2. \A i \in 1 .. Len(Queue') : i + 1 \in 1 .. Len(Queue)
    BY <1>3, <2>1
  <2>3. QED
    BY <1>3, <2>2 DEF Leaves
<1>11. LevelsAhead'
  <2> SUFFICES ASSUME NEW i \in 1 .. Len(Queue'), Queue'[i].kind = "finalized"
               PROVE  \/ Queue'[i].slot < finalized_slot_tip'
                      \/ Levels(Queue'[i].slot) \subseteq delivered' \cup Ahead(i)'
    BY DEF LevelsAhead, Levels
  <2> DEFINE s == Queue[i + 1].slot
  <2>1. s \in Nat
    BY <1>10, QueueItems, MessageFields DEF IInv
  <2>2. CASE s < finalized_slot_tip
    BY <1>7, <1>10, <2>1, <2>2
  <2>3. CASE Levels(s) \subseteq delivered \cup Ahead(i + 1)
    <3>1. m \in Levels(s) => m.slot = s
      BY DEF Levels, Msg
    <3>2. CASE m \in delivered'
      BY <1>8, <1>10, <2>3, <3>2
    <3>3. CASE m \notin delivered'
      <4>1. m \in Levels(s) => s < finalized_slot_tip
        BY <1>8, <3>1, <3>3
      <4>2. CASE m \in Levels(s)
        BY <1>7, <1>10, <2>1, <4>1, <4>2
      <4>3. CASE m \notin Levels(s)
        BY <1>8, <1>10, <2>3, <4>3
      <4>4. QED
        BY <4>2, <4>3
    <3>4. QED
      BY <3>2, <3>3
  <2>4. QED
    BY <1>6, <1>10, <2>2, <2>3 DEF LevelsAhead
<1>12. AncestorsAhead'
  <2> SUFFICES ASSUME NEW i \in 1 .. Len(Queue'), Queue'[i].kind = "finalized",
                      NEW s \in Lineage[Queue'[i].slot] \ {Queue'[i].slot}
               PROVE  Msg(s, "finalized") \in delivered' \cup Ahead(i)'
    BY DEF AncestorsAhead
  <2>1. Msg(s, "finalized") \in delivered \cup Ahead(i)' \cup {m}
    BY <1>6, <1>10 DEF AncestorsAhead
  <2>2. CASE Msg(s, "finalized") = m
    <3>1. s = m.slot /\ s \in Slot
      BY <1>5, <2>2 DEF Msg
    <3>2. m.slot < finalized_slot_tip => m \in delivered
      BY <1>1, <1>6, <2>2, <3>1, OldFinalsDelivered
    <3>3. QED
      BY <1>8, <2>2, <3>2
  <2>3. QED
    BY <1>8, <2>1, <2>2
<1>13. KindsReported'
  BY <1>1, <1>6 DEF KindsReported, Emitted
<1>14. LevelsDelivered'
  <2> SUFFICES ASSUME NEW s \in Slot, Msg(s, "finalized") \in delivered'
               PROVE  Levels(s) \subseteq delivered'
    BY DEF LevelsDelivered, Levels
  <2>1. CASE Msg(s, "finalized") \in delivered
    BY <1>6, <1>8, <2>1 DEF LevelsDelivered
  <2>2. CASE Msg(s, "finalized") \notin delivered
    <3>1. Msg(s, "finalized") = m /\ m.slot >= finalized_slot_tip
      BY <1>2, <2>2 DEF dedupVars
    <3>2. m.slot = s /\ m.kind = "finalized"
      BY <3>1 DEF Msg
    <3>3. ~(m.slot < finalized_slot_tip)
      BY <1>5, <1>7, <3>1
    <3>4. Levels(m.slot) \subseteq delivered
      BY <1>6, <1>9, <3>2, <3>3 DEF LevelsAhead
    <3>5. QED
      BY <1>8, <3>2, <3>4
  <2>3. QED
    BY <2>1, <2>2
<1>15. NoFinalizedGap'
  <2>1. CASE finalized_slot_tip' = finalized_slot_tip
    BY <1>6, <1>8, <2>1 DEF NoFinalizedGap
  <2>2. CASE finalized_slot_tip' # finalized_slot_tip
    <3>1. m.kind = "finalized" /\ finalized_slot_tip' = m.slot /\ m \in delivered'
      BY <1>2, <2>2 DEF dedupVars
    <3>2. \A s \in Lineage[m.slot] \ {m.slot} : Msg(s, "finalized") \in delivered
      BY <1>6, <1>9, <3>1 DEF AncestorsAhead
    <3>3. QED
      BY <1>5, <1>8, <3>1, <3>2 DEF NoFinalizedGap
  <2>3. QED
    BY <2>1, <2>2
<1>16. QED
  BY <1>11, <1>12, <1>13, <1>14, <1>15

LEMMA OrderNext == IInv /\ OrderInv /\ [Next]_vars => OrderInv'
<1> SUFFICES ASSUME IInv, OrderInv, [Next]_vars PROVE OrderInv'
  OBVIOUS
<1>1. CASE \E p \in Producer, m \in Message : Publish(p, m)
  BY <1>1, PublishOrder
<1>2. CASE XRead
  BY <1>2, XReadOrder
<1>3. CASE Handle
  BY <1>3, HandleOrder
<1>4. CASE Stop
  BY <1>4 DEF Stop, producerVars, dedupVars, OrderInv, KindsReported, Emitted, LevelsDelivered,
              Levels, NoFinalizedGap
<1>5. CASE UNCHANGED vars
  <2>1. Queue' = Queue /\ \A i : Ahead(i)' = Ahead(i)
    BY <1>5 DEF vars, producerVars, Queue, Ahead
  <2>2. Len(Queue') = Len(Queue)
    BY <2>1
  <2>3. QED
    BY <1>5, <2>1, <2>2
    DEF vars, producerVars, dedupVars, OrderInv, LevelsAhead, AncestorsAhead, KindsReported,
        Emitted, LevelsDelivered, Levels, NoFinalizedGap
<1>6. QED
  BY <1>1, <1>2, <1>3, <1>4, <1>5 DEF Next

\* A stream as long as what may be unread is read before MAXLEN cuts it.
LEMMA NothingTrimmed ==
  ASSUME StreamMaxLen >= MaxUnread
  PROVE  Spec => [](trimmed = {})
<1>1. Init => trimmed = {}
  BY DEF Init
<1>2. IInv /\ trimmed = {} /\ [Next]_vars => (trimmed = {})'
  <2> SUFFICES ASSUME IInv, trimmed = {}, [Next]_vars PROVE trimmed' = {}
    OBVIOUS
  <2>1. ASSUME NEW p \in Producer, NEW m \in Message, Publish(p, m) PROVE trimmed' = {}
    <3> DEFINE longer == Append(stream, m)
    <3>1. Len(longer) = Len(stream) + 1 /\ Len(stream) \in Nat /\ longer \in Seq(Message)
      BY LenProperties DEF IInv, TypeOK
    <3>2. PICK gone \in {0} \cup 1 .. Len(longer) - StreamMaxLen :
            trimmed' = trimmed \cup ToSet(SubSeq(longer, 1, gone))
      BY <2>1 DEF Publish
    <3>3. Len(stream) < MaxUnread
      BY <2>1 DEF Publish
    <3> HIDE DEF longer
    <3>4. gone = 0
      BY <3>1, <3>3, ConsumerAssumption
    <3>5. SubSeq(longer, 1, 0) \in Seq(Message) /\ Len(SubSeq(longer, 1, 0)) = 0
      BY <3>1, CutSeq
    <3>6. SubSeq(longer, 1, 0) = <<>>
      BY <3>5, EmptySeq
    <3>7. QED
      BY <3>2, <3>4, <3>6, EmptyElements
  <2>2. QED
    BY <2>1 DEF Next, XRead, Handle, Stop, vars, producerVars
<1>3. QED
  BY <1>1, <1>2, ConsumerInvariant, PTL DEF Spec

LEMMA OrderInvariant == Spec => []OrderInv
  BY OrderInit, OrderNext, ConsumerInvariant, PTL DEF Spec

(***************************************************************************)
(* The tip check drops no finalized status that was still to come          *)
(* (redis.rs:82-99), when producers miss no status and the stream is read  *)
(* in time: any tree, number of producers, batch and size of the LRU.      *)
(***************************************************************************)
THEOREM NoFinalizedGapHolds ==
  ASSUME EveryLevel, StreamMaxLen >= MaxUnread
  PROVE  Spec => []NoFinalizedGap
<1>1. OrderInv /\ trimmed = {} => NoFinalizedGap
  BY DEF OrderInv
<1>2. QED
  BY <1>1, OrderInvariant, NothingTrimmed, PTL

-----------------------------------------------------------------------------
(***************************************************************************)
(* With a stream that is read in time: every item waiting is at most       *)
(* Window above the tip there will be when it is handled, so that the      *)
(* slots touched while one stays at or above the tip differ by less than   *)
(* 2 * Window, and no entry that matters is pushed out of the LRU.         *)
(***************************************************************************)
InWindow ==
  \A i \in 1 .. Len(Queue) : \E f \in Slot \cup {0} :
    /\ Queue[i].slot <= f + Window
    /\ f <= finalized_slot_tip \/ Msg(f, "finalized") \in Ahead(i)

Distinct(entries) ==
  \A i, j \in 1 .. Len(entries) : entries[i].slot = entries[j].slot => i = j

Recent(entries, tip) ==
  /\ Distinct(entries)
  /\ \A i \in 1 .. Len(entries) : entries[i].slot <= tip + Window
  /\ \A i, j \in 1 .. Len(entries) : i < j =>
       /\ entries[j].slot <= entries[i].slot + Window
       /\ entries[j].slot = tip => entries[i].slot >= tip

Remembered == \A m \in delivered : m.slot >= finalized_slot_tip => m.kind \in Seen(m.slot)

MemoryInv ==
  trimmed = {} =>
    /\ running => InWindow
    /\ Recent(lru, finalized_slot_tip)
    /\ Remembered
    /\ NoDuplicate

\* Entries at different slots of one interval are no more than its numbers.
LEMMA FewInInterval ==
  ASSUME NEW entries \in Seq(SeenSlot), Distinct(entries), NEW j \in 1 .. Len(entries),
         NEW low \in Int, NEW high \in Int, low <= high,
         \A i \in 1 .. j : entries[i].slot \in low .. high
  PROVE  j <= high - low + 1
<1> DEFINE at == [i \in 1 .. j |-> entries[i].slot]
<1>1. j \in Nat /\ j <= Len(entries) /\ Len(entries) \in Nat
  BY LenProperties
<1>2. at \in [1 .. j -> low .. high]
  OBVIOUS
<1>3. \A i, k \in 1 .. j : at[i] = at[k] => i = k
  BY <1>1 DEF Distinct
<1> HIDE DEF at
<1>4. /\ IsFiniteSet(1 .. j) /\ Cardinality(1 .. j) = j
      /\ IsFiniteSet(low .. high) /\ Cardinality(low .. high) = high - low + 1
  <2>1. 1 \in Int /\ j \in Int /\ ~(1 > j) /\ j - 1 + 1 = j /\ ~(low > high)
    BY <1>1
  <2>2. IsFiniteSet(1 .. j) /\ Cardinality(1 .. j) = IF 1 > j THEN 0 ELSE j - 1 + 1
    BY <2>1, FS_Interval
  <2>3. /\ IsFiniteSet(low .. high)
        /\ Cardinality(low .. high) = IF low > high THEN 0 ELSE high - low + 1
    BY FS_Interval
  <2>4. QED
    BY <2>1, <2>2, <2>3
<1>5. ~(Cardinality(low .. high) < Cardinality(1 .. j))
  <2> SUFFICES ASSUME Cardinality(low .. high) < Cardinality(1 .. j) PROVE FALSE
    OBVIOUS
  <2>1. \E i, k \in 1 .. j : i # k /\ at[i] = at[k]
    BY <1>2, <1>4, FS_PigeonHole
  <2>2. QED
    BY <1>3, <2>1
<1>6. QED
  BY <1>1, <1>4, <1>5

\* The slots touched since a slot that is not below the tip are few.
LEMMA FewSinceTouched ==
  ASSUME NEW entries \in Seq(SeenSlot), NEW tip \in Nat, Recent(entries, tip),
         NEW j \in 1 .. Len(entries), entries[j].slot >= tip
  PROVE  j <= 2 * Window
<1> DEFINE s == entries[j].slot
<1>1. Window \in Nat /\ Window >= 1
  BY ConsumerAssumption
<1>2. \A i \in 1 .. Len(entries) : entries[i].slot \in Nat
  <2>1. \A i \in 1 .. Len(entries) : entries[i] \in SeenSlot
    BY ElementOfSeq
  <2>2. \A i \in 1 .. Len(entries) : entries[i].slot \in Slot
    BY <2>1 DEF SeenSlot
  <2>3. QED
    BY <2>2, SlotsAreNumbers
<1>3. Len(entries) \in Nat /\ j \in Nat /\ j <= Len(entries)
  BY LenProperties
<1>4. s \in Nat /\ s >= tip
  BY <1>2
<1>5. ASSUME NEW i \in 1 .. j
      PROVE  /\ entries[i].slot \in Nat /\ entries[i].slot <= tip + Window
             /\ entries[i].slot >= s - Window
             /\ s = tip => entries[i].slot >= tip
  <2>1. i \in 1 .. Len(entries) /\ (i < j \/ i = j)
    BY <1>3
  <2>2. entries[i].slot \in Nat /\ entries[i].slot <= tip + Window
    BY <1>2, <2>1 DEF Recent
  <2>3. CASE i = j
    BY <1>1, <1>4, <2>2, <2>3
  <2>4. CASE i < j
    <3>1. s <= entries[i].slot + Window /\ (s = tip => entries[i].slot >= tip)
      BY <2>1, <2>4 DEF Recent
    <3>2. QED
      BY <1>1, <1>4, <2>2, <3>1
  <2>5. QED
    BY <2>1, <2>3, <2>4
<1> HIDE DEF s
<1>6. CASE s = tip
  <2>1. \A i \in 1 .. j : entries[i].slot \in tip .. tip + Window
    BY <1>1, <1>5, <1>6
  <2>2. tip \in Int /\ tip + Window \in Int /\ tip <= tip + Window
    BY <1>1
  <2>3. j <= (tip + Window) - tip + 1
    BY <2>1, <2>2, FewInInterval DEF Recent
  <2>4. QED
    BY <1>1, <1>3, <2>3
<1>7. CASE s > tip
  <2>1. \A i \in 1 .. j : entries[i].slot \in s - Window .. s + Window - 1
    BY <1>1, <1>4, <1>5, <1>7
  <2>2. s - Window \in Int /\ s + Window - 1 \in Int /\ s - Window <= s + Window - 1
    BY <1>1, <1>4
  <2>3. j <= (s + Window - 1) - (s - Window) + 1
    BY <2>1, <2>2, FewInInterval DEF Recent
  <2>4. QED
    BY <1>1, <1>3, <1>4, <2>3
<1>8. QED
  BY <1>4, <1>6, <1>7

\* Taking a slot out keeps the others, in their order.
LEMMA OthersInOrder ==
  ASSUME TypeOK, Distinct(lru), NEW s \in Slot
  PROVE  LET rest == Others(s)
         IN  /\ rest \in Seq(SeenSlot)
             /\ \E h \in [1 .. Len(rest) -> 1 .. Len(lru)] :
                  /\ \A k \in 1 .. Len(rest) : rest[k] = lru[h[k]] /\ rest[k].slot # s
                  /\ \A k, l \in 1 .. Len(rest) : k < l => h[k] < h[l]
                  /\ \A i \in 1 .. Len(lru) : lru[i].slot # s => \E k \in 1 .. Len(rest) : h[k] = i
<1> DEFINE at == {i \in DOMAIN lru : lru[i].slot = s}
           c == CHOOSE j \in at : TRUE
           rest == Others(s)
<1>1. lru \in Seq(SeenSlot) /\ Len(lru) \in Nat /\ DOMAIN lru = 1 .. Len(lru)
  BY LenProperties DEF TypeOK
<1>2. rest \in Seq(SeenSlot)
  BY OtherEntries
<1>3. CASE at = {}
  <2>1. rest = lru
    BY <1>3 DEF Others
  <2>2. \A i \in 1 .. Len(lru) : lru[i].slot # s
    BY <1>1, <1>3
  <2> DEFINE h == [k \in 1 .. Len(rest) |-> k]
  <2> HIDE DEF rest
  <2>3. /\ h \in [1 .. Len(rest) -> 1 .. Len(lru)]
        /\ \A k \in 1 .. Len(rest) : rest[k] = lru[h[k]] /\ rest[k].slot # s
        /\ \A k, l \in 1 .. Len(rest) : k < l => h[k] < h[l]
        /\ \A i \in 1 .. Len(lru) : lru[i].slot # s => \E k \in 1 .. Len(rest) : h[k] = i
    BY <2>1, <2>2
  <2>4. QED
    BY <1>2, <2>3 DEF rest
<1>4. CASE at # {}
  <2>1. c \in 1 .. Len(lru) /\ lru[c].slot = s
    BY <1>1, <1>4
  <2>2. rest = SubSeq(lru, 1, c - 1) \o SubSeq(lru, c + 1, Len(lru))
    BY <1>4 DEF Others, RemoveAt
  <2> HIDE DEF at, c, rest
  <2>3. \A i \in 1 .. Len(lru) : i # c => lru[i].slot # s
    BY <2>1 DEF Distinct
  <2> DEFINE low == SubSeq(lru, 1, c - 1)
             high == SubSeq(lru, c + 1, Len(lru))
  <2>4. /\ low \in Seq(SeenSlot) /\ Len(low) = c - 1
        /\ \A i \in 1 .. c - 1 : low[i] = lru[i]
    <3>1. \A i \in 1 .. c - 1 : lru[i] \in SeenSlot
      BY <1>1, <2>1, ElementOfSeq
    <3>2. /\ low \in Seq(SeenSlot)
          /\ Len(low) = IF 1 <= c - 1 THEN (c - 1) - 1 + 1 ELSE 0
          /\ \A i \in 1 .. (c - 1) - 1 + 1 : low[i] = lru[1 + i - 1]
      BY <1>1, <2>1, <3>1, SubSeqProperties
    <3> HIDE DEF low
    <3>3. QED
      BY <2>1, <3>2
  <2>5. /\ high \in Seq(SeenSlot) /\ Len(high) = Len(lru) - c
        /\ \A i \in 1 .. Len(lru) - c : high[i] = lru[c + i]
    <3>1. \A i \in c + 1 .. Len(lru) : lru[i] \in SeenSlot
      BY <1>1, <2>1, ElementOfSeq
    <3>2. /\ high \in Seq(SeenSlot)
          /\ Len(high) = IF c + 1 <= Len(lru) THEN Len(lru) - (c + 1) + 1 ELSE 0
          /\ \A i \in 1 .. Len(lru) - (c + 1) + 1 : high[i] = lru[c + 1 + i - 1]
      BY <1>1, <2>1, <3>1, SubSeqProperties
    <3> HIDE DEF high
    <3>3. Len(high) = Len(lru) - c /\ Len(lru) - (c + 1) + 1 = Len(lru) - c
      <4> DEFINE length == Len(high)
                 all == Len(lru)
      <4>1. c \in Nat /\ all \in Nat /\ 1 <= c /\ c <= all
        BY <1>1, <2>1
      <4>2. length = IF c + 1 <= all THEN all - (c + 1) + 1 ELSE 0
        BY <3>2
      <4> HIDE DEF length, all
      <4>3. length = all - c /\ all - (c + 1) + 1 = all - c
        BY <4>1, <4>2
      <4>4. QED
        BY <4>3 DEF length, all
    <3>4. \A i \in 1 .. Len(lru) - c : c + 1 + i - 1 = c + i
      BY <1>1, <2>1
    <3>5. QED
      BY <3>2, <3>3, <3>4
  <2> HIDE DEF low, high
  <2>6. /\ Len(rest) = Len(lru) - 1
        /\ \A k \in 1 .. Len(lru) - 1 : rest[k] = IF k <= c - 1 THEN low[k] ELSE high[k - (c - 1)]
    <3>1. /\ Len(low \o high) = Len(low) + Len(high)
          /\ \A k \in 1 .. Len(low) + Len(high) :
               (low \o high)[k] = IF k <= Len(low) THEN low[k] ELSE high[k - Len(low)]
      BY <2>4, <2>5, ConcatProperties
    <3>2. Len(low) + Len(high) = Len(lru) - 1
      BY <1>1, <2>1, <2>4, <2>5
    <3>3. rest = low \o high
      BY <2>2 DEF low, high
    <3>4. QED
      BY <2>4, <3>1, <3>2, <3>3
  <2>7. \A k \in 1 .. Len(lru) - 1 : rest[k] = IF k < c THEN lru[k] ELSE lru[k + 1]
    <3> SUFFICES ASSUME NEW k \in 1 .. Len(lru) - 1
                 PROVE  rest[k] = IF k < c THEN lru[k] ELSE lru[k + 1]
      OBVIOUS
    <3>1. CASE k < c
      <4>1. k <= c - 1 /\ k \in 1 .. c - 1
        BY <1>1, <2>1, <3>1
      <4>2. QED
        BY <2>4, <2>6, <3>1, <4>1
    <3>2. CASE ~(k < c)
      <4>1. ~(k <= c - 1) /\ k - (c - 1) \in 1 .. Len(lru) - c /\ c + (k - (c - 1)) = k + 1
        BY <1>1, <2>1, <3>2
      <4>2. QED
        BY <2>5, <2>6, <3>2, <4>1
    <3>3. QED
      BY <3>1, <3>2
  <2> DEFINE h == [k \in 1 .. Len(rest) |-> IF k < c THEN k ELSE k + 1]
  <2>8. ASSUME NEW k \in 1 .. Len(rest)
        PROVE  h[k] \in 1 .. Len(lru) /\ h[k] # c /\ rest[k] = lru[h[k]]
    BY <1>1, <2>1, <2>6, <2>7
  <2>9. h \in [1 .. Len(rest) -> 1 .. Len(lru)]
    BY <2>8
  <2>10. \A k, l \in 1 .. Len(rest) : k < l => h[k] < h[l]
    BY <1>1, <2>1, <2>6
  <2>11. ASSUME NEW i \in 1 .. Len(lru), lru[i].slot # s PROVE \E k \in 1 .. Len(rest) : h[k] = i
    <3>1. i # c
      BY <2>1, <2>11
    <3>2. CASE i < c
      <4>1. i \in 1 .. Len(rest) /\ h[i] = i
        BY <1>1, <2>1, <2>6, <3>2
      <4>2. QED
        BY <4>1
    <3>3. CASE i > c
      <4>1. i - 1 \in 1 .. Len(rest) /\ ~(i - 1 < c) /\ (i - 1) + 1 = i
        BY <1>1, <2>1, <2>6, <3>3
      <4>2. h[i - 1] = i
        BY <4>1
      <4>3. QED
        BY <4>1, <4>2
    <3>4. QED
      BY <1>1, <2>1, <3>1, <3>2, <3>3
  <2> HIDE DEF h
  <2>12. \A k \in 1 .. Len(rest) : rest[k] = lru[h[k]] /\ rest[k].slot # s
    BY <2>3, <2>8
  <2>13. QED
    BY <1>2, <2>9, <2>10, <2>11, <2>12 DEF rest
<1>5. QED
  BY <1>3, <1>4

\* Touching an entry of the window keeps the list recent, for the next tip too.
LEMMA PutFirst ==
  ASSUME TypeOK, NEW m \in Message, Recent(lru, finalized_slot_tip),
         m.slot >= finalized_slot_tip, m.slot <= finalized_slot_tip + Window,
         NEW tip, tip = finalized_slot_tip \/ tip = m.slot
  PROVE  LET entry == [slot |-> m.slot, seen |-> Flags(m)]
             entries == <<entry>> \o Others(m.slot)
         IN  /\ entries \in Seq(SeenSlot) /\ Len(entries) >= 1 /\ entries[1] = entry
             /\ Recent(entries, tip)
             /\ \A i \in 1 .. Len(lru) : lru[i].slot # m.slot =>
                  \E k \in 1 .. Len(entries) : entries[k] = lru[i]
<1> DEFINE entry == [slot |-> m.slot, seen |-> Flags(m)]
           rest == Others(m.slot)
           first == <<entry>>
           entries == first \o rest
<1>1. m.slot \in Slot /\ m.slot \in Nat
  BY MessageFields
<1>2. /\ finalized_slot_tip \in Nat /\ tip \in Nat /\ finalized_slot_tip <= tip
      /\ Window \in Nat /\ Window >= 1
  <2>1. finalized_slot_tip \in Slot \cup {0}
    BY DEF TypeOK
  <2>2. finalized_slot_tip \in Nat
    BY <2>1, SlotsAreNumbers
  <2>3. QED
    BY <1>1, <2>2, ConsumerAssumption
<1>3. entry \in SeenSlot /\ entry.slot = m.slot
  BY <1>1, SeenTypes, MessageFields DEF SeenSlot, Flags
<1>4. rest \in Seq(SeenSlot) /\ Distinct(lru)
  BY <1>1, OthersInOrder DEF Recent
<1>5. PICK h \in [1 .. Len(rest) -> 1 .. Len(lru)] :
        /\ \A k \in 1 .. Len(rest) : rest[k] = lru[h[k]] /\ rest[k].slot # m.slot
        /\ \A k, l \in 1 .. Len(rest) : k < l => h[k] < h[l]
        /\ \A i \in 1 .. Len(lru) : lru[i].slot # m.slot => \E k \in 1 .. Len(rest) : h[k] = i
  BY <1>1, <1>4, OthersInOrder
<1> HIDE DEF entry, rest
<1>6. /\ first \in Seq(SeenSlot) /\ Len(first) = 1 /\ first[1] = entry
  BY <1>3
<1> HIDE DEF first
<1>7. /\ entries \in Seq(SeenSlot) /\ Len(entries) = 1 + Len(rest) /\ Len(rest) \in Nat
      /\ entries[1] = entry
      /\ \A k \in 1 .. Len(rest) : entries[k + 1] = rest[k]
  <2>1. /\ entries \in Seq(SeenSlot) /\ Len(entries) = Len(first) + Len(rest)
        /\ \A k \in 1 .. Len(first) + Len(rest) :
             entries[k] = IF k <= Len(first) THEN first[k] ELSE rest[k - Len(first)]
    BY <1>4, <1>6, ConcatProperties
  <2>2. Len(rest) \in Nat
    BY <1>4, LenProperties
  <2> HIDE DEF entries
  <2>3. entries[1] = entry
    BY <1>6, <2>1, <2>2
  <2>4. ASSUME NEW k \in 1 .. Len(rest) PROVE entries[k + 1] = rest[k]
    <3>1. k + 1 \in 1 .. Len(first) + Len(rest) /\ ~(k + 1 <= Len(first)) /\ (k + 1) - Len(first) = k
      BY <1>6, <2>2
    <3>2. QED
      BY <2>1, <3>1
  <2>5. QED
    BY <1>6, <2>1, <2>2, <2>3, <2>4
<1> HIDE DEF entries
<1>8. \A i \in 1 .. Len(entries) : i = 1 \/ (i - 1 \in 1 .. Len(rest) /\ (i - 1) + 1 = i)
  BY <1>7
<1>9. ASSUME NEW i \in 1 .. Len(entries), i # 1
      PROVE  /\ i - 1 \in 1 .. Len(rest) /\ h[i - 1] \in 1 .. Len(lru)
             /\ entries[i] = lru[h[i - 1]] /\ entries[i].slot # m.slot
             /\ entries[i].slot \in Nat /\ entries[i].slot <= finalized_slot_tip + Window
  <2>1. i - 1 \in 1 .. Len(rest) /\ entries[i] = rest[i - 1]
    BY <1>7, <1>8, <1>9
  <2>2. h[i - 1] \in 1 .. Len(lru) /\ entries[i] = lru[h[i - 1]] /\ entries[i].slot # m.slot
    BY <1>5, <2>1
  <2>3. lru[h[i - 1]] \in SeenSlot
    BY <2>2, ElementOfSeq DEF TypeOK
  <2>4. entries[i].slot \in Nat
    BY <2>2, <2>3, SlotsAreNumbers DEF SeenSlot
  <2>5. QED
    BY <2>1, <2>2, <2>4 DEF Recent
<1>10. ASSUME NEW i \in 1 .. Len(entries), NEW j \in 1 .. Len(entries), i # 1, i < j
       PROVE  j # 1 /\ h[i - 1] < h[j - 1]
  <2>1. j # 1 /\ i - 1 < j - 1
    BY <1>7, <1>10
  <2>2. i - 1 \in 1 .. Len(rest) /\ j - 1 \in 1 .. Len(rest)
    BY <1>9, <1>10, <2>1
  <2>3. QED
    BY <1>5, <2>1, <2>2
<1>11. Distinct(entries)
  <2>1. ASSUME NEW i \in 1 .. Len(entries), NEW j \in 1 .. Len(entries), i < j
        PROVE  entries[i].slot # entries[j].slot
    <3>1. j # 1
      BY <1>7, <2>1
    <3>2. CASE i = 1
      BY <1>3, <1>7, <1>9, <3>1, <3>2
    <3>3. CASE i # 1
      <4>1. h[i - 1] < h[j - 1] /\ h[i - 1] \in 1 .. Len(lru) /\ h[j - 1] \in 1 .. Len(lru)
        BY <1>9, <1>10, <2>1, <3>1, <3>3
      <4>2. h[i - 1] # h[j - 1]
        BY <4>1
      <4>3. lru[h[i - 1]].slot # lru[h[j - 1]].slot
        BY <1>4, <4>1, <4>2 DEF Distinct
      <4>4. QED
        BY <1>9, <3>1, <3>3, <4>3
    <3>4. QED
      BY <3>2, <3>3
  <2>2. \A i, j \in 1 .. Len(entries) : i = j \/ i < j \/ j < i
    BY <1>7
  <2>3. QED
    BY <2>1, <2>2 DEF Distinct
<1>12. ASSUME NEW i \in 1 .. Len(entries) PROVE entries[i].slot <= tip + Window
  <2>1. CASE i = 1
    BY <1>1, <1>2, <1>3, <1>7, <2>1
  <2>2. CASE i # 1
    <3>1. entries[i].slot \in Nat /\ entries[i].slot <= finalized_slot_tip + Window
      BY <1>9, <2>2
    <3>2. QED
      BY <1>2, <3>1
  <2>3. QED
    BY <2>1, <2>2
<1>13. ASSUME NEW i \in 1 .. Len(entries), NEW j \in 1 .. Len(entries), i < j
       PROVE  /\ entries[j].slot <= entries[i].slot + Window
              /\ entries[j].slot = tip => entries[i].slot >= tip
  <2>1. j # 1
    BY <1>7, <1>13
  <2>2. entries[j].slot \in Nat /\ entries[j].slot <= finalized_slot_tip + Window /\ entries[j].slot # m.slot
    BY <1>9, <2>1
  <2>3. CASE i = 1
    <3>1. entries[i].slot = m.slot
      BY <1>3, <1>7, <2>3
    <3>2. entries[j].slot <= m.slot + Window
      BY <1>1, <1>2, <2>2
    <3>3. entries[j].slot = tip => m.slot >= tip
      BY <2>2
    <3>4. QED
      BY <3>1, <3>2, <3>3
  <2>4. CASE i # 1
    <3>1. h[i - 1] < h[j - 1] /\ h[i - 1] \in 1 .. Len(lru) /\ h[j - 1] \in 1 .. Len(lru)
      BY <1>9, <1>10, <1>13, <2>1, <2>4
    <3>2. entries[i] = lru[h[i - 1]] /\ entries[j] = lru[h[j - 1]]
      BY <1>9, <2>1, <2>4
    <3>3. /\ entries[j].slot <= entries[i].slot + Window
          /\ entries[j].slot = finalized_slot_tip => entries[i].slot >= finalized_slot_tip
      BY <3>1, <3>2 DEF Recent
    <3>4. tip = m.slot => entries[j].slot # tip
      BY <2>2
    <3>5. QED
      BY <3>3, <3>4
  <2>5. QED
    BY <2>3, <2>4
<1>14. Recent(entries, tip)
  BY <1>11, <1>12, <1>13 DEF Recent
<1>15. ASSUME NEW i \in 1 .. Len(lru), lru[i].slot # m.slot
       PROVE  \E k \in 1 .. Len(entries) : entries[k] = lru[i]
  <2>1. PICK k \in 1 .. Len(rest) : h[k] = i
    BY <1>5, <1>15
  <2>2. k + 1 \in 1 .. Len(entries) /\ entries[k + 1] = lru[i]
    BY <1>5, <1>7, <2>1
  <2>3. QED
    BY <2>2
<1>16. Len(entries) >= 1
  BY <1>7
<1>17. QED
  BY <1>7, <1>14, <1>15, <1>16 DEF entries, first, rest, entry

\* What pushes an entry out of the LRU leaves those not below the tip in it.
LEMMA KeptByTouch ==
  ASSUME TypeOK, LruCapacity >= 2 * Window, NEW m \in Message, Recent(lru, finalized_slot_tip),
         m.slot >= finalized_slot_tip, m.slot <= finalized_slot_tip + Window,
         NEW tip, tip = finalized_slot_tip \/ tip = m.slot
  PROVE  LET after == Touch(m)
         IN  /\ Recent(after, tip)
             /\ \E i \in 1 .. Len(after) : after[i] = [slot |-> m.slot, seen |-> Flags(m)]
             /\ \A i \in 1 .. Len(lru) : lru[i].slot # m.slot /\ lru[i].slot >= tip =>
                  \E k \in 1 .. Len(after) : after[k] = lru[i]
<1> DEFINE entry == [slot |-> m.slot, seen |-> Flags(m)]
           entries == <<entry>> \o Others(m.slot)
           n == IF Len(entries) < LruCapacity THEN Len(entries) ELSE LruCapacity
           after == Touch(m)
<1>1. /\ entries \in Seq(SeenSlot) /\ Len(entries) >= 1 /\ entries[1] = entry
      /\ Recent(entries, tip)
      /\ \A i \in 1 .. Len(lru) : lru[i].slot # m.slot =>
           \E k \in 1 .. Len(entries) : entries[k] = lru[i]
  BY PutFirst
<1>2. after = SubSeq(entries, 1, n)
  BY DEF Touch, Truncated
<1> HIDE DEF entry, entries, after
<1>3. /\ Len(entries) \in Nat /\ LruCapacity \in Nat /\ LruCapacity >= 1
      /\ Window \in Nat
  BY <1>1, LenProperties, ConsumerAssumption
<1>4. n \in 1 .. Len(entries) /\ (n = Len(entries) \/ n >= 2 * Window)
  BY <1>1, <1>3
<1> HIDE DEF n
<1>5. Len(after) = n /\ \A i \in 1 .. n : after[i] = entries[i]
  <2>1. \A i \in 1 .. n : entries[i] \in SeenSlot
    BY <1>1, <1>3, <1>4, ElementOfSeq
  <2>2. /\ Len(after) = IF 1 <= n THEN n - 1 + 1 ELSE 0
        /\ \A i \in 1 .. n - 1 + 1 : after[i] = entries[1 + i - 1]
    BY <1>2, <1>3, <1>4, <2>1, SubSeqProperties
  <2>3. QED
    BY <1>3, <1>4, <2>2
<1>6. \A i \in 1 .. Len(after) : i \in 1 .. Len(entries) /\ after[i] = entries[i]
  BY <1>3, <1>4, <1>5
<1>7. Recent(after, tip)
  <2>1. \A i, j \in 1 .. Len(entries) : entries[i].slot = entries[j].slot => i = j
    BY <1>1 DEF Recent, Distinct
  <2>2. Distinct(after)
    BY <1>6, <2>1 DEF Distinct
  <2>3. \A i \in 1 .. Len(after) : after[i].slot <= tip + Window
    BY <1>1, <1>6 DEF Recent
  <2>4. \A i, j \in 1 .. Len(entries) : i < j =>
          /\ entries[j].slot <= entries[i].slot + Window
          /\ entries[j].slot = tip => entries[i].slot >= tip
    BY <1>1 DEF Recent
  <2>5. \A i, j \in 1 .. Len(after) : i < j =>
          /\ after[j].slot <= after[i].slot + Window
          /\ after[j].slot = tip => after[i].slot >= tip
    BY <1>6, <2>4
  <2>6. QED
    BY <2>2, <2>3, <2>5 DEF Recent
<1>8. 1 \in 1 .. Len(after) /\ after[1] = entry
  BY <1>1, <1>4, <1>5
<1>9. tip \in Nat
  <2>1. finalized_slot_tip \in Slot \cup {0} /\ m.slot \in Nat
    BY MessageFields DEF TypeOK
  <2>2. QED
    BY <2>1, SlotsAreNumbers
<1>10. ASSUME NEW i \in 1 .. Len(lru), lru[i].slot # m.slot, lru[i].slot >= tip
       PROVE  \E k \in 1 .. Len(after) : after[k] = lru[i]
  <2>1. PICK k \in 1 .. Len(entries) : entries[k] = lru[i]
    BY <1>1, <1>10
  <2>2. k <= 2 * Window
    BY <1>1, <1>9, <1>10, <2>1, FewSinceTouched
  <2>3. k \in 1 .. n
    BY <1>3, <1>4, <2>2
  <2>4. QED
    BY <1>5, <2>1, <2>3
<1>11. QED
  BY <1>7, <1>8, <1>10 DEF after, entry

-----------------------------------------------------------------------------
LEMMA MemoryInit == Init => MemoryInv
<1> SUFFICES ASSUME Init PROVE MemoryInv
  OBVIOUS
<1>1. TypeOK
  BY InitHolds DEF IInv
<1>2. Len(Queue) = 0
  BY <1>1, QueueItems, EmptySeq DEF Init
<1>3. Len(lru) = 0
  BY EmptySeq DEF Init
<1>4. QED
  BY <1>2, <1>3 DEF Init, MemoryInv, InWindow, Recent, Distinct, Remembered, NoDuplicate

LEMMA PublishMemory ==
  ASSUME IInv, MemoryInv, NEW p \in Producer, NEW m \in Message, Publish(p, m)
  PROVE  MemoryInv'
<1> SUFFICES ASSUME trimmed' = {}
             PROVE  /\ running' => InWindow'
                    /\ Recent(lru, finalized_slot_tip)' /\ Remembered' /\ NoDuplicate'
  BY DEF MemoryInv
<1>1. /\ trimmed = {} /\ Len(Queue') = Len(Queue) + 1 /\ Len(Queue) \in Nat
      /\ \A i \in 1 .. Len(Queue) : Queue'[i] = Queue[i] /\ Ahead(i)' = Ahead(i)
      /\ \A i : i = Len(Queue) + 1 => Queue'[i] = m /\ Ahead(i)' = ToSet(Queue)
  BY PublishJoins, QueueItems DEF Joins, IInv
<1>2. UNCHANGED <<lru, finalized_slot_tip, delivered, repeated, running>>
  BY DEF Publish, dedupVars
<1>3. \A i \in 1 .. Len(Queue') : i \in 1 .. Len(Queue) \/ i = Len(Queue) + 1
  BY <1>1
<1>4. Recent(lru, finalized_slot_tip)' /\ Remembered' /\ NoDuplicate'
  BY <1>1, <1>2 DEF MemoryInv, Recent, Distinct, Remembered, Seen, NoDuplicate
<1>5. ASSUME running
      PROVE  \E f \in Slot \cup {0} :
               /\ m.slot <= f + Window
               /\ f <= finalized_slot_tip \/ Msg(f, "finalized") \in ToSet(Queue)
  <2>1. finalized_slot_tip \in Nat
    <3>1. finalized_slot_tip \in Slot \cup {0}
      BY DEF IInv, TypeOK
    <3>2. QED
      BY <3>1, SlotsAreNumbers
  <2>2. PICK f \in FinalizedBy(p) \cup {0} : m.slot <= f + Window
    BY DEF Publish, Reports
  <2>3. CASE f = 0
    BY <2>1, <2>2, <2>3
  <2>4. CASE f \in FinalizedBy(p)
    <3>1. f \in Slot /\ f \in Nat /\ Msg(f, "finalized") \in emitted[p] /\ Msg(f, "finalized").slot = f
      BY <2>4, SlotsAreNumbers DEF FinalizedBy, FinalizedIn, Msg
    <3>2. Msg(f, "finalized") \in ToSet(Queue) \cup delivered \/ f < finalized_slot_tip
      BY <1>1, <1>5, <3>1, WrittenIsHeard
    <3>3. Msg(f, "finalized") \in delivered => f <= finalized_slot_tip
      BY <3>1 DEF IInv, TipHighest
    <3>4. f <= finalized_slot_tip \/ Msg(f, "finalized") \in ToSet(Queue)
      BY <2>1, <3>1, <3>2, <3>3
    <3>5. QED
      BY <2>2, <3>1, <3>4
  <2>5. QED
    BY <2>2, <2>3, <2>4
<1>6. ASSUME running PROVE InWindow'
  <2> SUFFICES ASSUME NEW i \in 1 .. Len(Queue')
               PROVE  \E f \in Slot \cup {0} :
                        /\ Queue'[i].slot <= f + Window
                        /\ f <= finalized_slot_tip \/ Msg(f, "finalized") \in Ahead(i)'
    BY <1>2 DEF InWindow
  <2>1. CASE i \in 1 .. Len(Queue)
    BY <1>1, <1>6, <2>1 DEF MemoryInv, InWindow
  <2>2. CASE i = Len(Queue) + 1
    BY <1>1, <1>5, <1>6, <2>2
  <2>3. QED
    BY <1>3, <2>1, <2>2
<1>7. QED
  BY <1>2, <1>4, <1>6

LEMMA XReadMemory ==
  ASSUME IInv, MemoryInv, XRead
  PROVE  MemoryInv'
<1>1. Queue' = Queue
  BY XReadQueues DEF IInv
<1>2. Len(Queue') = Len(Queue) /\ \A i : Ahead(i)' = Ahead(i)
  BY <1>1 DEF Ahead
<1>3. UNCHANGED <<trimmed, dedupVars, running>>
  BY DEF XRead
<1>4. QED
  BY <1>1, <1>2, <1>3
  DEF MemoryInv, InWindow, Recent, Distinct, Remembered, Seen, NoDuplicate, dedupVars

LEMMA HandleMemory ==
  ASSUME LruCapacity >= 2 * Window, IInv, MemoryInv, Handle
  PROVE  MemoryInv'
<1> DEFINE m == Head(batch)
<1>1. m \in Message /\ UNCHANGED <<emitted, trimmed, running>>
  BY Handled
<1>2. \/ m.slot < finalized_slot_tip /\ UNCHANGED dedupVars
      \/ /\ m.slot >= finalized_slot_tip
         /\ finalized_slot_tip' = IF m.kind = "finalized" THEN m.slot ELSE finalized_slot_tip
         /\ lru' = Touch(m)
         /\ delivered' = delivered \cup {m}
  BY Handled
<1>3. Leaves(m) /\ Len(Queue) \in Nat
  BY HandleLeaves, QueueItems DEF IInv
<1>4. running
  BY DEF Handle
<1>5. \/ UNCHANGED <<delivered, repeated>>
      \/ m.kind \notin Seen(m.slot) /\ repeated' = repeated \cup ({m} \cap delivered)
  BY DEF Handle, dedupVars
<1> HIDE DEF m
<1>6. m = Msg(m.slot, m.kind) /\ m.slot \in Slot /\ m.slot \in Nat
  BY <1>1, MessageFields
<1> SUFFICES ASSUME trimmed = {}
             PROVE  InWindow' /\ Recent(lru, finalized_slot_tip)' /\ Remembered' /\ NoDuplicate'
  BY <1>1 DEF MemoryInv
<1>7. InWindow /\ Recent(lru, finalized_slot_tip) /\ Remembered /\ NoDuplicate
  BY <1>4 DEF MemoryInv
<1>8. finalized_slot_tip \in Nat /\ finalized_slot_tip <= finalized_slot_tip' /\ finalized_slot_tip' \in Nat
  <2>1. finalized_slot_tip \in Slot \cup {0}
    BY DEF IInv, TypeOK
  <2>2. finalized_slot_tip \in Nat
    BY <2>1, SlotsAreNumbers
  <2>3. QED
    BY <1>2, <1>6, <2>2 DEF dedupVars
<1>9. Window \in Nat
  BY ConsumerAssumption
<1>10. m.slot <= finalized_slot_tip + Window
  <2>1. 1 \in 1 .. Len(Queue) /\ Queue[1] = m /\ Ahead(1) = {}
    BY <1>3 DEF Leaves
  <2>2. PICK f \in Slot \cup {0} : m.slot <= f + Window /\ f <= finalized_slot_tip
    BY <1>7, <2>1 DEF InWindow
  <2>3. f \in Nat
    BY SlotsAreNumbers
  <2>4. QED
    BY <1>6, <1>8, <1>9, <2>2, <2>3
<1>11. InWindow'
  <2> SUFFICES ASSUME NEW i \in 1 .. Len(Queue')
               PROVE  \E f \in Slot \cup {0} :
                        /\ Queue'[i].slot <= f + Window
                        /\ f <= finalized_slot_tip' \/ Msg(f, "finalized") \in Ahead(i)'
    BY DEF InWindow
  <2>1. /\ i + 1 \in 1 .. Len(Queue) /\ Queue'[i] = Queue[i + 1]
        /\ Ahead(i + 1) = Ahead(i)' \cup {m}
    <3>1. Len(Queue') = Len(Queue) - 1
      BY <1>3 DEF Leaves
    <3>2. i + 1 \in 1 .. Len(Queue)
      BY <1>3, <3>1
    <3>3. QED
      BY <1>3, <3>2 DEF Leaves
  <2>2. PICK f \in Slot \cup {0} :
          /\ Queue[i + 1].slot <= f + Window
          /\ f <= finalized_slot_tip \/ Msg(f, "finalized") \in Ahead(i + 1)
    BY <1>7, <2>1 DEF InWindow
  <2>3. f \in Nat
    BY SlotsAreNumbers
  <2>4. ASSUME Msg(f, "finalized") = m PROVE f <= finalized_slot_tip'
    <3>1. m.slot = f /\ m.kind = "finalized"
      BY <2>4 DEF Msg
    <3>2. QED
      BY <1>2, <1>8, <2>3, <3>1 DEF dedupVars
  <2>5. f <= finalized_slot_tip => f <= finalized_slot_tip'
    BY <1>8, <2>3
  <2>6. QED
    BY <2>1, <2>2, <2>4, <2>5
<1>12. ASSUME m \in delivered, m.slot >= finalized_slot_tip PROVE m.kind \in Seen(m.slot)
  BY <1>7, <1>12 DEF Remembered
<1>13. NoDuplicate'
  <2>1. m.kind \notin Seen(m.slot) /\ m \in delivered => ~(m.slot >= finalized_slot_tip)
    BY <1>12
  <2>2. UNCHANGED dedupVars => repeated' = repeated
    BY DEF dedupVars
  <2>3. QED
    BY <1>2, <1>5, <1>7, <2>1, <2>2 DEF NoDuplicate
<1>14. CASE UNCHANGED dedupVars
  BY <1>7, <1>11, <1>13, <1>14 DEF Recent, Distinct, Remembered, Seen, dedupVars
<1>15. CASE /\ m.slot >= finalized_slot_tip
            /\ finalized_slot_tip' = IF m.kind = "finalized" THEN m.slot ELSE finalized_slot_tip
            /\ lru' = Touch(m)
            /\ delivered' = delivered \cup {m}
  <2> DEFINE entry == [slot |-> m.slot, seen |-> Flags(m)]
             after(s) == UNION {lru'[i].seen : i \in {j \in DOMAIN lru' : lru'[j].slot = s}}
  <2>1. finalized_slot_tip' = finalized_slot_tip \/ finalized_slot_tip' = m.slot
    BY <1>15
  <2>2. /\ Recent(lru', finalized_slot_tip')
        /\ \E i \in 1 .. Len(lru') : lru'[i] = entry
        /\ \A i \in 1 .. Len(lru) : lru[i].slot # m.slot /\ lru[i].slot >= finalized_slot_tip' =>
             \E k \in 1 .. Len(lru') : lru'[k] = lru[i]
    BY <1>1, <1>7, <1>10, <1>15, <2>1, KeptByTouch DEF IInv
  <2>3. Recent(lru, finalized_slot_tip)'
    BY <2>2 DEF Recent, Distinct
  <2>4. DOMAIN lru' = 1 .. Len(lru') /\ DOMAIN lru = 1 .. Len(lru)
    BY NextHolds, LenProperties DEF IInv, TypeOK, Next
  <2>5. ASSUME NEW i \in 1 .. Len(lru') PROVE lru'[i].seen \subseteq after(lru'[i].slot)
    BY <2>4
  <2>6. entry.slot = m.slot /\ entry.seen = Seen(m.slot) \cup {m.kind}
    BY DEF Flags
  <2> HIDE DEF entry, after
  <2>7. Seen(m.slot) \cup {m.kind} \subseteq after(m.slot)
    BY <2>2, <2>5, <2>6
  <2>8. ASSUME NEW x \in delivered', x.slot >= finalized_slot_tip'
        PROVE  x.kind \in after(x.slot)
    <3>1. x.slot \in Nat
      <4>1. x \in Message
        BY <1>1, <1>15 DEF IInv, TypeOK
      <4>2. QED
        BY <4>1, MessageFields
    <3>2. CASE x = m
      BY <2>7, <3>2
    <3>3. CASE x # m
      <4>1. x \in delivered /\ x.slot >= finalized_slot_tip
        BY <1>8, <1>15, <2>8, <3>1, <3>3
      <4>2. x.kind \in Seen(x.slot)
        BY <1>7, <4>1 DEF Remembered
      <4>3. CASE x.slot = m.slot
        BY <2>7, <4>2, <4>3
      <4>4. CASE x.slot # m.slot
        <5>1. PICK i \in 1 .. Len(lru) : lru[i].slot = x.slot /\ x.kind \in lru[i].seen
          BY <2>4, <4>2 DEF Seen
        <5>2. PICK k \in 1 .. Len(lru') : lru'[k] = lru[i]
          BY <2>2, <2>8, <4>4, <5>1
        <5>3. QED
          BY <2>5, <5>1, <5>2
      <4>5. QED
        BY <4>3, <4>4
    <3>4. QED
      BY <3>2, <3>3
  <2>9. Remembered'
    BY <2>8 DEF Remembered, Seen, after
  <2>10. QED
    BY <1>11, <1>13, <2>3, <2>9
<1>16. QED
  BY <1>2, <1>14, <1>15

LEMMA MemoryNext ==
  ASSUME LruCapacity >= 2 * Window
  PROVE  IInv /\ MemoryInv /\ [Next]_vars => MemoryInv'
<1> SUFFICES ASSUME IInv, MemoryInv, [Next]_vars PROVE MemoryInv'
  OBVIOUS
<1>1. CASE \E p \in Producer, m \in Message : Publish(p, m)
  BY <1>1, PublishMemory
<1>2. CASE XRead
  BY <1>2, XReadMemory
<1>3. CASE Handle
  BY <1>3, HandleMemory
<1>4. CASE Stop
  BY <1>4 DEF Stop, producerVars, dedupVars, MemoryInv, Recent, Distinct, Remembered, Seen,
              NoDuplicate
<1>5. CASE UNCHANGED vars
  <2>1. Queue' = Queue /\ \A i : Ahead(i)' = Ahead(i)
    BY <1>5 DEF vars, producerVars, Queue, Ahead
  <2>2. Len(Queue') = Len(Queue)
    BY <2>1
  <2>3. QED
    BY <1>5, <2>1, <2>2
    DEF vars, producerVars, dedupVars, MemoryInv, InWindow, Recent, Distinct, Remembered, Seen,
        NoDuplicate
<1>6. QED
  BY <1>1, <1>2, <1>3, <1>4, <1>5 DEF Next

(***************************************************************************)
(* The update loop hears each thing once (redis.rs:73-99), although the    *)
(* LRU forgets slots: an LRU of twice the window the nodes work in, 8192   *)
(* entries for nodes at most 4096 slots ahead of their root, and a stream  *)
(* that is read in time.                                                   *)
(***************************************************************************)
THEOREM NoDuplicateHolds ==
  ASSUME LruCapacity >= 2 * Window, StreamMaxLen >= MaxUnread
  PROVE  Spec => []NoDuplicate
<1>1. MemoryInv /\ trimmed = {} => NoDuplicate
  BY DEF MemoryInv
<1>2. QED
  BY <1>1, MemoryInit, MemoryNext, ConsumerInvariant, NothingTrimmed, PTL DEF Spec

(***************************************************************************)
(* The consumer implements the feed, any number of producers with whatever *)
(* statuses they miss, under the conditions of NoDuplicateHolds: the       *)
(* update loop hears nothing twice and nothing from below the tip.         *)
(***************************************************************************)
THEOREM ConsumerImplementsFeed ==
  ASSUME LruCapacity >= 2 * Window, StreamMaxLen >= MaxUnread
  PROVE  Spec => ImplementsFeed
  BY FeedWhileRemembered, NoDuplicateHolds, PTL

(***************************************************************************)
(* When producers miss no status either, the levels of a slot are handed   *)
(* over upwards: the consumer implements the ordered feed.  A confirmed    *)
(* status whose slot is already finalized was heard before, and is still   *)
(* remembered if it is not outdated.                                       *)
(***************************************************************************)
THEOREM ConsumerImplementsOrderedFeed ==
  ASSUME EveryLevel, LruCapacity >= 2 * Window, StreamMaxLen >= MaxUnread
  PROVE  Spec => ImplementsOrderedFeed
<1>1. IInv /\ OrderInv /\ trimmed = {} /\ NoDuplicate /\ NoDuplicate' /\ [Next]_vars
        => [Feed!OrderedNext]_<<delivered, repeated, finalized_slot_tip>>
  <2> SUFFICES ASSUME IInv, OrderInv, trimmed = {}, NoDuplicate, NoDuplicate', [Next]_vars,
                      <<delivered, repeated, finalized_slot_tip>>' # <<delivered, repeated, finalized_slot_tip>>
               PROVE  Feed!OrderedNext
    OBVIOUS
  <2>1. Handle
    BY DEF Next, Publish, XRead, Stop, vars, dedupVars
  <2>2. PICK m \in Feed!Message : Feed!Deliver(m)
    BY <2>1, HandleDelivers DEF Feed!FeedNext
  <2>3. m = Head(batch)
    <3>1. \/ UNCHANGED dedupVars
          \/ delivered' = delivered \cup {Head(batch)}
      BY <2>1, Handled
    <3>2. m \notin delivered /\ delivered' = delivered \cup {m}
      BY <2>2 DEF Feed!Deliver, Feed!News
    <3>3. QED
      BY <3>1, <3>2 DEF dedupVars
  <2>4. m \in Message /\ m \in Emitted /\ m \notin delivered
    <3>1. m \in Message /\ m \in Emitted
      BY <2>1, <2>3, Handled
    <3>2. QED
      BY <2>2, <3>1 DEF Feed!Deliver, Feed!News
  <2>5. m = Msg(m.slot, m.kind) /\ m.slot \in Slot
    BY <2>4, MessageFields
  <2>6. ASSUME m.kind \in {"processed", "confirmed"}, Msg(m.slot, "finalized") \in delivered
        PROVE  FALSE
    <3>1. m.kind \in Reported
      BY <2>4 DEF OrderInv, KindsReported
    <3>2. m.kind \in Before["finalized"]
      BY <2>6 DEF Before
    <3>3. m \in Levels(m.slot)
      BY <2>5, <3>1, <3>2 DEF Levels
    <3>4. Levels(m.slot) \subseteq delivered
      BY <2>5, <2>6 DEF OrderInv, LevelsDelivered
    <3>5. QED
      BY <2>4, <3>3, <3>4
  <2>7. Feed!LevelsRise(m)
    BY <2>6 DEF Feed!LevelsRise, Feed!Msg, Msg
  <2>8. QED
    BY <2>2, <2>7 DEF Feed!OrderedNext
<1>2. QED
  BY <1>1, FeedInitHolds, ConsumerInvariant, OrderInvariant, NothingTrimmed, NoDuplicateHolds, PTL
  DEF Spec, ImplementsOrderedFeed, Feed!OrderedFeedSpec, Feed!feedVars
=============================================================================

----------------------- MODULE GeyserMessages_proofs -----------------------
(***************************************************************************)
(* What the proofs about the block tree rest on: every set of numbers has  *)
(* a least one, and the lineage of a slot is what its definition says.     *)
(***************************************************************************)
EXTENDS GeyserMessages, WellFoundedInduction, TLAPS

\* A set of numbers that is not empty has a least one: induction over slots.
LEMMA LeastNumber ==
  ASSUME NEW T, T \subseteq Nat, T # {}
  PROVE  \E x \in T : \A y \in T : x <= y
<1> DEFINE below == {p \in Nat \X Nat : p[1] < p[2]}
<1>1. IsWellFoundedOn(below, Nat)
  <2>1. OpToRel(<, Nat) = below
    BY DEF OpToRel
  <2>2. QED
    BY <2>1, NatLessThanWellFounded
<1>2. PICK x \in T : \A y \in T : <<y, x>> \notin below
  BY <1>1, WFMin
<1>3. ASSUME NEW y \in T PROVE x <= y
  <2>1. x \in Nat /\ y \in Nat
    OBVIOUS
  <2>2. ~(y < x)
    BY <1>2, <2>1
  <2>3. QED
    BY <2>1, <2>2
<1>4. QED
  BY <1>3

-----------------------------------------------------------------------------
(***************************************************************************)
(* Lineage is defined by recursion over the parents.  That a function with *)
(* this equation exists is shown by one that has it: the slots no set that *)
(* holds s and is closed under Parent can do without.                      *)
(***************************************************************************)
Closed(C) == \A s \in C : s # 0 => Parent[s] \in C

LEMMA LineageUnfolds ==
  Lineage = [s \in Slot \cup {0} |-> IF s = 0 THEN {} ELSE {s} \cup Lineage[Parent[s]]]
<1> DEFINE D == Slot \cup {0}
           needed(s) == {t \in Slot : \A C \in SUBSET D : s \in C /\ Closed(C) => t \in C}
           f == [s \in D |-> needed(s)]
<1>1. needed(0) = {}
  <2>1. {0} \in SUBSET D /\ 0 \in {0} /\ Closed({0})
    BY DEF Closed
  <2>2. 0 \notin Slot
    BY ChainAssumption
  <2>3. QED
    BY <2>1, <2>2
<1>2. ASSUME NEW s \in Slot PROVE needed(s) = {s} \cup needed(Parent[s])
  <2>1. s # 0 /\ Parent[s] \in D
    BY ChainAssumption
  <2>2. s \in needed(s)
    OBVIOUS
  <2>3. ASSUME NEW t \in needed(Parent[s]) PROVE t \in needed(s)
    <3> SUFFICES ASSUME NEW C \in SUBSET D, s \in C, Closed(C) PROVE t \in C
      BY <2>3
    <3>1. Parent[s] \in C
      BY <2>1 DEF Closed
    <3>2. QED
      BY <2>3, <3>1
  <2>4. ASSUME NEW t \in needed(s), t # s PROVE t \in needed(Parent[s])
    <3> SUFFICES ASSUME NEW C \in SUBSET D, Parent[s] \in C, Closed(C) PROVE t \in C
      BY <2>4
    <3>1. C \cup {s} \in SUBSET D /\ Closed(C \cup {s})
      BY DEF Closed
    <3>2. QED
      BY <2>4, <3>1
  <2>5. QED
    BY <2>2, <2>3, <2>4
<1> HIDE DEF needed
<1>3. f = [s \in D |-> IF s = 0 THEN {} ELSE {s} \cup f[Parent[s]]]
  <2>1. \A s \in Slot : Parent[s] \in D
    BY ChainAssumption
  <2>2. QED
    BY <1>1, <1>2, <2>1
<1> HIDE DEF f
<1>4. \E g : g = [s \in D |-> IF s = 0 THEN {} ELSE {s} \cup g[Parent[s]]]
  BY <1>3
<1>5. QED
  BY <1>4 DEF Lineage

\* A slot's lineage: itself and its parent's.
LEMMA LineageStep ==
  /\ Lineage[0] = {}
  /\ \A s \in Slot : Parent[s] \in Slot \cup {0} /\ Lineage[s] = {s} \cup Lineage[Parent[s]]
<1> DEFINE unfolded == [s \in Slot \cup {0} |-> IF s = 0 THEN {} ELSE {s} \cup Lineage[Parent[s]]]
<1>1. Lineage = unfolded
  BY LineageUnfolds
<1>2. unfolded[0] = {}
  OBVIOUS
<1>3. \A s \in Slot : s # 0 /\ unfolded[s] = {s} \cup Lineage[Parent[s]]
  BY ChainAssumption
<1> HIDE DEF unfolded
<1>4. QED
  BY <1>1, <1>2, <1>3, ChainAssumption

\* Induction over the tree: of the slots that lack something, take the least.
LEMMA SlotsAreNumbers ==
  ASSUME NEW s \in Slot
  PROVE  /\ s \in Nat /\ s # 0
         /\ Parent[s] \in Slot \cup {0} /\ Parent[s] \in Nat /\ Parent[s] < s
<1>1. \A t \in Slot : t \in Nat /\ t # 0
  BY ChainAssumption
<1>2. Parent[s] \in Slot \cup {0} /\ Parent[s] < s
  BY ChainAssumption
<1>3. QED
  BY <1>1, <1>2

LEMMA LeastSlot ==
  ASSUME NEW T, T \subseteq Slot \cup {0}, T # {}
  PROVE  \E s \in T : \/ s = 0
                      \/ s \in Slot /\ Parent[s] \in (Slot \cup {0}) \ T
<1>1. T \subseteq Nat
  BY SlotsAreNumbers
<1>2. PICK s \in T : \A t \in T : s <= t
  BY <1>1, LeastNumber
<1>3. CASE s \in Slot
  <2>1. s \in Nat /\ Parent[s] \in Slot \cup {0} /\ Parent[s] \in Nat /\ Parent[s] < s
    BY <1>3, SlotsAreNumbers
  <2>2. ~(s <= Parent[s])
    BY <2>1
  <2>3. QED
    BY <1>2, <1>3, <2>1, <2>2
<1>4. QED
  BY <1>2, <1>3

\* Ancestors are lower slots.
LEMMA LineageIsBelow ==
  \A s \in Slot \cup {0} : Lineage[s] \subseteq Slot /\ \A t \in Lineage[s] : t <= s
<1> DEFINE Good(s) == Lineage[s] \subseteq Slot /\ \A t \in Lineage[s] : t <= s
           bad == {s \in Slot \cup {0} : ~Good(s)}
<1> SUFFICES ASSUME bad # {} PROVE FALSE
  OBVIOUS
<1>1. bad \subseteq Slot \cup {0} /\ 0 \notin bad
  BY LineageStep
<1>2. PICK s \in Slot : s \in bad /\ Parent[s] \in (Slot \cup {0}) \ bad
  <2> HIDE DEF bad
  <2>1. QED
    BY <1>1, LeastSlot
<1>3. Good(Parent[s])
  BY <1>2
<1>4. s \in Nat /\ Parent[s] \in Nat /\ Parent[s] < s
  BY SlotsAreNumbers
<1>5. ASSUME NEW t \in Lineage[Parent[s]] PROVE t \in Slot /\ t <= s
  <2>1. t \in Slot /\ t <= Parent[s] /\ t \in Nat
    BY <1>3, SlotsAreNumbers
  <2>2. QED
    BY <1>4, <2>1
<1>6. Lineage[s] = {s} \cup Lineage[Parent[s]]
  BY LineageStep
<1>7. Good(s)
  BY <1>4, <1>5, <1>6
<1>8. QED
  BY <1>2, <1>7

\* The ancestors of an ancestor are ancestors.
LEMMA LineageIsTransitive ==
  \A s \in Slot \cup {0} : \A t \in Lineage[s] : Lineage[t] \subseteq Lineage[s]
<1> DEFINE Good(s) == \A t \in Lineage[s] : Lineage[t] \subseteq Lineage[s]
           bad == {s \in Slot \cup {0} : ~Good(s)}
<1> SUFFICES ASSUME bad # {} PROVE FALSE
  OBVIOUS
<1>1. bad \subseteq Slot \cup {0} /\ 0 \notin bad
  BY LineageStep
<1>2. PICK s \in Slot : s \in bad /\ Parent[s] \in (Slot \cup {0}) \ bad
  <2> HIDE DEF bad
  <2>1. QED
    BY <1>1, LeastSlot
<1>3. Good(Parent[s])
  BY <1>2
<1>4. Lineage[s] = {s} \cup Lineage[Parent[s]]
  BY LineageStep
<1>5. Good(s)
  BY <1>3, <1>4
<1>6. QED
  BY <1>2, <1>5

\* Two ancestors of one slot are ancestors of each other.
LEMMA LineageIsLinear ==
  \A s \in Slot \cup {0} : \A u, v \in Lineage[s] : u <= v => u \in Lineage[v]
<1> DEFINE Good(s) == \A u, v \in Lineage[s] : u <= v => u \in Lineage[v]
           bad == {s \in Slot \cup {0} : ~Good(s)}
<1> SUFFICES ASSUME bad # {} PROVE FALSE
  OBVIOUS
<1>1. bad \subseteq Slot \cup {0} /\ 0 \notin bad
  BY LineageStep
<1>2. PICK s \in Slot : s \in bad /\ Parent[s] \in (Slot \cup {0}) \ bad
  <2> HIDE DEF bad
  <2>1. QED
    BY <1>1, LeastSlot
<1>3. Good(Parent[s])
  BY <1>2
<1>4. Lineage[s] = {s} \cup Lineage[Parent[s]]
  BY LineageStep
<1>5. ASSUME NEW v \in Lineage[Parent[s]] PROVE ~(s <= v)
  <2>1. s \in Nat /\ Parent[s] \in Nat /\ Parent[s] < s /\ v <= Parent[s] /\ v \in Nat
    BY <1>2, SlotsAreNumbers, LineageIsBelow
  <2>2. QED
    BY <2>1
<1>6. Good(s)
  BY <1>3, <1>4, <1>5
<1>7. QED
  BY <1>2, <1>6

\* Along a lineage the heights go the way of the slots.
LEMMA HeightsRise ==
  \A s \in Slot \cup {0} : \A u, v \in Lineage[s] : u < v => Height[u] < Height[v]
<1> DEFINE Good(s) == \A u, v \in Lineage[s] : u < v => Height[u] < Height[v]
           bad == {s \in Slot \cup {0} : ~Good(s)}
<1> SUFFICES ASSUME bad # {} PROVE FALSE
  OBVIOUS
<1>1. bad \subseteq Slot \cup {0} /\ 0 \notin bad
  BY LineageStep
<1>2. PICK s \in Slot : s \in bad /\ Parent[s] \in (Slot \cup {0}) \ bad
  <2> HIDE DEF bad
  <2>1. QED
    BY <1>1, LeastSlot
<1> DEFINE p == Parent[s]
<1>3. Good(p)
  BY <1>2
<1>4. /\ Lineage[s] = {s} \cup Lineage[p]
      /\ p = 0 => Lineage[p] = {}
      /\ p # 0 => p \in Lineage[p]
  BY <1>2, LineageStep
<1>5. s \in Nat /\ p \in Nat /\ p < s /\ Height[s] = Height[p] + 1 /\ Height[p] \in Nat
  BY <1>2, SlotsAreNumbers, ChainAssumption
<1>6. ASSUME NEW u \in Lineage[p] PROVE Height[u] < Height[s] /\ ~(s < u)
  <2>1. u \in Slot /\ u \in Nat /\ u <= p /\ Height[u] \in Nat
    BY <1>2, LineageIsBelow, SlotsAreNumbers, ChainAssumption
  <2>2. u = p \/ u < p
    BY <1>5, <2>1
  <2>3. u = p \/ Height[u] < Height[p]
    BY <1>3, <1>4, <2>2
  <2>4. QED
    BY <1>5, <2>1, <2>3
<1>7. ~(s < s)
  BY <1>5
<1> HIDE DEF p
<1>8. Good(s)
  BY <1>3, <1>4, <1>6, <1>7
<1>9. QED
  BY <1>2, <1>8

\* From an ancestor up to the slot itself no height is missing.
LEMMA NoHeightIsMissing ==
  \A s \in Slot \cup {0} : \A t \in Lineage[s], h \in Nat :
    Height[t] <= h /\ h <= Height[s] => \E u \in Lineage[s] : t <= u /\ Height[u] = h
<1> DEFINE Good(s) == \A t \in Lineage[s], h \in Nat :
                        Height[t] <= h /\ h <= Height[s] =>
                          \E u \in Lineage[s] : t <= u /\ Height[u] = h
           bad == {s \in Slot \cup {0} : ~Good(s)}
<1> SUFFICES ASSUME bad # {} PROVE FALSE
  OBVIOUS
<1>1. bad \subseteq Slot \cup {0} /\ 0 \notin bad
  BY LineageStep
<1>2. PICK s \in Slot : s \in bad /\ Parent[s] \in (Slot \cup {0}) \ bad
  <2> HIDE DEF bad
  <2>1. QED
    BY <1>1, LeastSlot
<1> DEFINE p == Parent[s]
<1>3. Good(p)
  BY <1>2
<1>4. Lineage[s] = {s} \cup Lineage[p]
  BY <1>2, LineageStep
<1>5. Height[s] = Height[p] + 1 /\ Height[p] \in Nat /\ Height[s] \in Nat
  BY <1>2, SlotsAreNumbers, ChainAssumption
<1>6. \A t \in Lineage[s] : t <= s /\ s \in Lineage[s]
  BY <1>2, <1>4, LineageIsBelow
<1>7. ASSUME NEW t \in Lineage[s], NEW h \in Nat, Height[t] <= h, h <= Height[s]
      PROVE  \E u \in Lineage[s] : t <= u /\ Height[u] = h
  <2>1. CASE h = Height[s]
    BY <1>6, <2>1
  <2>2. CASE h # Height[s]
    <3>1. h <= Height[p] /\ t # s
      BY <1>5, <1>7, <2>2
    <3>2. t \in Lineage[p]
      BY <1>4, <3>1
    <3>3. QED
      BY <1>3, <1>4, <1>7, <3>1, <3>2
  <2>3. QED
    BY <2>1, <2>2
<1>8. QED
  BY <1>2, <1>7
=============================================================================

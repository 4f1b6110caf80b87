---------------------- MODULE PrioritizationFees_proofs ----------------------
(***************************************************************************)
(* The path of a fee, for every message, every list of instructions, every *)
(* block and every call:                                                   *)
(*   - the account lists of a message partition its keys;                  *)
(*   - the budget found explains the fee the runtime charges;              *)
(*   - get_percentile is a quantile, and the two statistics agree;         *)
(*   - the endpoints agree on the calls they share.                        *)
(* A fold takes its steps in the order of the sequence.  What it computes  *)
(* is shown over the vector of its intermediate results: that vector       *)
(* exists (FoldExists, ScanRuns, RoundsCollect), and the first place where *)
(* it is not as claimed would be a least number (LeastNumber).             *)
(***************************************************************************)
EXTENDS FeeRequests, FiniteSetTheorems, WellFoundedInduction, TLAPS

\* k is a number of whole Basis in a product.
LEMMA Quotient ==
  ASSUME NEW a \in Nat, NEW b \in Nat \ {0}
  PROVE  /\ a \div b \in Nat
         /\ (a \div b) * b <= a
         /\ a < ((a \div b) + 1) * b
  BY SMTT(30)

LEMMA ProductsCompare ==
  ASSUME NEW a \in Nat, NEW b \in Nat, NEW c \in Nat \ {0}, a * c < b * c
  PROVE  a < b
<1>1. CASE b <= a
  <2>1. PICK d \in Nat : a = b + d
    <3>1. a - b \in Nat /\ a = b + (a - b)
      BY <1>1
    <3>2. QED
      BY <3>1
  <2>2. a * c = b * c + d * c /\ d * c \in Nat
    BY <2>1
  <2>3. QED
    BY <2>2
<1>2. QED
  BY <1>1

LEMMA ProductsGrow ==
  ASSUME NEW a \in Nat, NEW b \in Nat, NEW c \in Nat, a <= b
  PROVE  a * c <= b * c
<1>1. PICK d \in Nat : b = a + d
  <2>1. b - a \in Nat /\ b = a + (b - a)
    OBVIOUS
  <2>2. QED
    BY <2>1
<1>2. b * c = a * c + d * c /\ d * c \in Nat
  BY <1>1
<1>3. QED
  BY <1>2

(***************************************************************************)
(* The percentile of a sorted vector that is not empty exists, and splits  *)
(* the vector as the percentile says (rpc_solana.rs:1024-1027).            *)
(***************************************************************************)
THEOREM PercentileSplits ==
  ASSUME NEW fees \in Seq(Nat), fees # <<>>,
         \A i, j \in DOMAIN fees : i <= j => fees[i] <= fees[j],
         NEW percentile \in 0 .. Basis - 1
  PROVE  /\ GetPercentile(fees, percentile) \in Nat
         /\ Splits(fees, percentile, GetPercentile(fees, percentile))
<1> DEFINE n == Len(fees)
           k == Index(fees, percentile)
           fee == fees[k + 1]
           below == {i \in DOMAIN fees : fees[i] < fee}
           upTo == {i \in DOMAIN fees : fees[i] <= fee}
<1>1. /\ n \in Nat \ {0}
      /\ DOMAIN fees = 1 .. n
      /\ Basis \in Nat \ {0}
      /\ percentile \in Nat /\ percentile < Basis
      /\ percentile * n \in Nat
  BY FeesAssumption
<1>2. k = (percentile * n) \div Basis
  BY <1>1 DEF Index
<1>3. /\ k \in Nat
      /\ k * Basis <= percentile * n
      /\ percentile * n < (k + 1) * Basis
  BY <1>1, <1>2, Quotient
<1>4. k < n
  <2>1. percentile * n < n * Basis
    <3>1. PICK d \in Nat : Basis = percentile + 1 + d
      <4>1. Basis - 1 - percentile \in Nat /\ Basis = percentile + 1 + (Basis - 1 - percentile)
        BY <1>1
      <4>2. QED
        BY <4>1
    <3>2. n * Basis = percentile * n + n + n * d /\ n * d \in Nat
      BY <1>1, <3>1
    <3>3. QED
      BY <1>1, <3>2
  <2>2. k * Basis < n * Basis
    <3>1. k * Basis \in Nat /\ n * Basis \in Nat
      BY <1>1, <1>3
    <3> HIDE DEF k, n
    <3>2. QED
      BY <1>1, <1>3, <2>1, <3>1
  <2>3. QED
    BY <1>1, <1>3, <2>2, ProductsCompare
<1>5. GetPercentile(fees, percentile) = fee /\ k + 1 \in DOMAIN fees /\ fee \in Nat
  BY <1>1, <1>3, <1>4 DEF GetPercentile
<1>6. IsFiniteSet(below) /\ Cardinality(below) \in Nat /\ Cardinality(below) <= k
  <2>1. \A i \in below : i \in 1 .. k
    <3> SUFFICES ASSUME NEW i \in DOMAIN fees, fees[i] < fee, i > k PROVE FALSE
      BY <1>1, <1>3
    <3>1. k + 1 <= i
      BY <1>1, <1>3
    <3>2. fee <= fees[i] /\ fees[i] \in Nat
      BY <1>5, <3>1
    <3>3. QED
      BY <1>5, <3>2
  <2>2. IsFiniteSet(1 .. k) /\ Cardinality(1 .. k) = k
    BY <1>3, FS_Interval
  <2>3. below \in SUBSET (1 .. k)
    BY <2>1
  <2>4. QED
    BY <2>2, <2>3, FS_Subset, FS_CardinalityType
<1>7. Cardinality(upTo) \in Nat /\ k + 1 <= Cardinality(upTo)
  <2>1. 1 .. k + 1 \in SUBSET upTo
    BY <1>1, <1>3, <1>4, <1>5
  <2>2. IsFiniteSet(DOMAIN fees)
    BY <1>1, FS_Interval
  <2>3. IsFiniteSet(upTo)
    BY <2>2, FS_Subset
  <2>4. Cardinality(1 .. k + 1) = k + 1
    BY <1>3, FS_Interval
  <2>5. Cardinality(1 .. k + 1) <= Cardinality(upTo)
    BY <2>1, <2>3, FS_Subset
  <2>6. Cardinality(upTo) \in Nat
    BY <2>3, FS_CardinalityType
  <2>7. QED
    BY <2>4, <2>5, <2>6
<1>8. Cardinality(below) * Basis <= percentile * n
  <2>1. Cardinality(below) * Basis <= k * Basis
    BY <1>1, <1>3, <1>6, ProductsGrow
  <2>2. Cardinality(below) * Basis \in Nat /\ k * Basis \in Nat
    BY <1>1, <1>3, <1>6
  <2>3. QED
    BY <1>1, <1>3, <2>1, <2>2
<1>9. percentile * n < Cardinality(upTo) * Basis
  <2>1. (k + 1) * Basis <= Cardinality(upTo) * Basis
    <3>1. k + 1 \in Nat /\ Basis \in Nat
      BY <1>1, <1>3
    <3> HIDE DEF k, upTo
    <3>2. QED
      BY <1>7, <3>1, ProductsGrow
  <2>2. (k + 1) * Basis \in Nat /\ Cardinality(upTo) * Basis \in Nat
    BY <1>1, <1>3, <1>7
  <2>3. QED
    BY <1>1, <1>3, <2>1, <2>2
<1>10. QED
  BY <1>5, <1>8, <1>9 DEF Splits

-----------------------------------------------------------------------------
\* The keys of a slice of a message and their number.
LEMMA SliceKeys ==
  ASSUME NEW m \in Message, NEW from \in 0 .. Len(m.keys), NEW to \in from .. Len(m.keys)
  PROVE  /\ Slice(m, from, to) \subseteq Range(m.keys)
         /\ \A i \in DOMAIN m.keys : m.keys[i] \in Slice(m, from, to) <=> i \in from + 1 .. to
<1>1. PICK n \in 1 .. Cardinality(Pubkey) : m.keys \in [1 .. n -> Pubkey]
  BY DEF Message
<1>2. n \in Nat /\ Len(m.keys) = n /\ DOMAIN m.keys = 1 .. n
  BY <1>1, TransactionAssumption, FS_CardinalityType
<1>3. \A i, j \in 1 .. n : m.keys[i] = m.keys[j] => i = j
  BY <1>2 DEF Message, IsInjective
<1>4. from + 1 .. to \subseteq 1 .. n
  BY <1>2
<1>5. QED
  BY <1>2, <1>3, <1>4 DEF Slice, Range

(***************************************************************************)
(* The account lists of every sanitized message partition its keys         *)
(* (grpc_geyser.rs:103-150).                                               *)
(***************************************************************************)
THEOREM HeaderPartitions ==
  ASSUME NEW m \in Message
  PROVE  Partitioned(m)
<1> DEFINE n == Len(m.keys)
           signed == m.num_required_signatures
           w == WritableSigners(m)
           o == WritableOthers(m)
<1>1. /\ n \in Nat /\ signed \in Nat /\ w \in Nat /\ o \in Nat
      /\ 1 <= w /\ w <= signed /\ signed <= o /\ o <= n
      /\ DOMAIN m.keys = 1 .. n
      /\ o = n - m.num_readonly_unsigned_accounts
  <2>1. PICK k \in 1 .. Cardinality(Pubkey) : m.keys \in [1 .. k -> Pubkey]
    BY DEF Message
  <2>2. Cardinality(Pubkey) \in Nat
    BY TransactionAssumption, FS_CardinalityType
  <2>3. QED
    BY <2>1, <2>2 DEF Message, WritableSigners, WritableOthers
<1>2. /\ Range(m.keys) \cap (m.loaded_writable \cup m.loaded_readonly) = {}
      /\ m.loaded_writable \cap m.loaded_readonly = {}
  BY DEF Message
<1> HIDE DEF n, signed, w, o
<1>ends. /\ 0 \in 0 .. n /\ w \in 0 .. n /\ signed \in w .. n /\ signed \in 0 .. n
       /\ o \in signed .. n /\ o \in 0 .. n /\ n \in o .. n /\ n = Len(m.keys)
  BY <1>1 DEF n
<1>3. /\ Slice(m, 0, w) \subseteq Range(m.keys)
      /\ \A i \in 1 .. n : m.keys[i] \in Slice(m, 0, w) <=> i \in 1 .. w
  BY <1>1, <1>ends, SliceKeys
<1>4. /\ Slice(m, w, signed) \subseteq Range(m.keys)
      /\ \A i \in 1 .. n : m.keys[i] \in Slice(m, w, signed) <=> i \in w + 1 .. signed
  BY <1>1, <1>ends, SliceKeys
<1>5. /\ Slice(m, signed, o) \subseteq Range(m.keys)
      /\ \A i \in 1 .. n : m.keys[i] \in Slice(m, signed, o) <=> i \in signed + 1 .. o
  BY <1>1, <1>ends, SliceKeys
<1>6. /\ Slice(m, o, n) \subseteq Range(m.keys)
      /\ \A i \in 1 .. n : m.keys[i] \in Slice(m, o, n) <=> i \in o + 1 .. n
  BY <1>1, <1>ends, SliceKeys
<1>7. Range(m.keys) = {m.keys[i] : i \in 1 .. n}
  BY <1>1 DEF Range
<1>8. /\ Accounts(m).writable = m.loaded_writable \cup Slice(m, 0, w) \cup Slice(m, signed, o)
      /\ Accounts(m).readable = m.loaded_readonly \cup Slice(m, w, signed) \cup Slice(m, o, n)
      /\ Accounts(m).signers = Slice(m, 0, signed)
      /\ Accounts(m).fee_payer = m.keys[1]
  BY <1>1 DEF Accounts, n, signed, w, o
<1>9. Accounts(m).writable \cup Accounts(m).readable
        = Range(m.keys) \cup m.loaded_writable \cup m.loaded_readonly
  <2>1. \A i \in 1 .. n : i \in 1 .. w \/ i \in w + 1 .. signed
                           \/ i \in signed + 1 .. o \/ i \in o + 1 .. n
    BY <1>1
  <2>2. Range(m.keys) \subseteq Slice(m, 0, w) \cup Slice(m, w, signed)
                                 \cup Slice(m, signed, o) \cup Slice(m, o, n)
    BY <1>3, <1>4, <1>5, <1>6, <1>7, <2>1
  <2>3. QED
    BY <1>3, <1>4, <1>5, <1>6, <1>8, <2>2
<1>10. Accounts(m).writable \cap Accounts(m).readable = {}
  <2>1. \A i \in 1 .. n : ~((i \in 1 .. w \/ i \in signed + 1 .. o)
                             /\ (i \in w + 1 .. signed \/ i \in o + 1 .. n))
    BY <1>1
  <2>2. (Slice(m, 0, w) \cup Slice(m, signed, o)) \cap (Slice(m, w, signed) \cup Slice(m, o, n)) = {}
    BY <1>3, <1>4, <1>5, <1>6, <1>7, <2>1
  <2>3. QED
    BY <1>2, <1>3, <1>4, <1>5, <1>6, <1>8, <2>2
<1>11. Cardinality(Accounts(m).signers) = signed
  <2>1. ExistsBijection(1 .. signed, Slice(m, 0, signed))
    <3> DEFINE f == [i \in 1 .. signed |-> m.keys[i]]
    <3>1. \A i, j \in 1 .. signed : f[i] = f[j] => i = j
      <4>1. \A i, j \in DOMAIN m.keys : m.keys[i] = m.keys[j] => i = j
        BY DEF Message, IsInjective
      <4>2. QED
        BY <1>1, <4>1
    <3>2. Slice(m, 0, signed) = {m.keys[i] : i \in 1 .. signed}
      BY <1>1 DEF Slice
    <3>3. f \in Bijection(1 .. signed, Slice(m, 0, signed))
      BY <3>1, <3>2, Zenon DEF Bijection, Injection, Surjection, IsInjective
    <3>4. QED
      BY <3>3 DEF ExistsBijection
  <2>2. QED
    BY <1>1, <1>8, <2>1, FS_CountingElements
<1>12. Accounts(m).fee_payer \in Accounts(m).signers \cap Accounts(m).writable
  BY <1>1, <1>3, <1>8 DEF Slice
<1>13. QED
  BY <1>9, <1>10, <1>11, <1>12 DEF Partitioned, signed

-----------------------------------------------------------------------------
\* A set of numbers that is not empty has a least one.
LEMMA LeastNumber ==
  ASSUME NEW T, T \subseteq Nat, T # {}
  PROVE  \E x \in T : \A y \in T : x <= y
<1> DEFINE below == {p \in Nat \X Nat : p[1] < p[2]}
<1>1. IsWellFoundedOn(below, Nat)
  <2>1. OpToRel(<, Nat) = below
    BY DEF OpToRel
  <2>2. QED
    BY <2>1, NatLessThanWellFounded
<1>2. PICK x \in T : \A y \in T : <<y, x>> \notin below
  BY <1>1, WFMin
<1>3. ASSUME NEW y \in T PROVE x <= y
  <2>1. x \in Nat /\ y \in Nat
    OBVIOUS
  <2>2. ~(y < x)
    BY <1>2, <2>1
  <2>3. QED
    BY <2>1, <2>2
<1>4. QED
  BY <1>3

(***************************************************************************)
(* The folds of the community modules take the elements of a finite set    *)
(* one by one, in an order given by "pick".  For a step that stays within  *)
(* B such a fold exists, by induction over the size of the set.            *)
(***************************************************************************)
IsFold(iter, S, B, base, pick, op) ==
  /\ iter \in [SUBSET S -> B]
  /\ \A s \in SUBSET S :
       iter[s] = IF s = {} THEN base ELSE op[<<pick[s], iter[s \ {pick[s]}]>>]

Picks(pick, S) == \A s \in SUBSET S : s # {} => pick[s] \in s

LEMMA FoldExists ==
  ASSUME NEW S, IsFiniteSet(S), NEW B, NEW base, base \in B,
         NEW pick, Picks(pick, S), NEW op, op \in [S \X B -> B]
  PROVE  \E iter : IsFold(iter, S, B, base, pick, op)
<1> DEFINE Small(n) == {s \in SUBSET S : Cardinality(s) <= n}
           Solves(g, n) == /\ g \in [Small(n) -> B]
                           /\ \A s \in Small(n) :
                                g[s] = IF s = {} THEN base
                                       ELSE op[<<pick[s], g[s \ {pick[s]}]>>]
           bad == {n \in Nat : ~\E g : Solves(g, n)}
<1>1. \A s \in SUBSET S : /\ IsFiniteSet(s) /\ Cardinality(s) \in Nat
                          /\ Cardinality(s) <= Cardinality(S)
                          /\ Cardinality(s) = 0 <=> s = {}
  BY FS_Subset, FS_CardinalityType, FS_EmptySet
<1>2. \A s \in SUBSET S : s # {} =>
        /\ pick[s] \in S
        /\ s \ {pick[s]} \in SUBSET S
        /\ Cardinality(s \ {pick[s]}) = Cardinality(s) - 1
  BY <1>1, FS_RemoveElement DEF Picks
<1>3. bad = {}
  <2> SUFFICES ASSUME bad # {} PROVE FALSE
    OBVIOUS
  <2>1. PICK n \in bad : \A k \in bad : n <= k
    <3>1. bad \subseteq Nat
      OBVIOUS
    <3> HIDE DEF bad
    <3>2. QED
      BY <3>1, LeastNumber
  <2>2. n \in Nat /\ ~\E g : Solves(g, n)
    BY <2>1
  <2>3. CASE n = 0
    <3> DEFINE g == [s \in Small(0) |-> base]
    <3>1. \A s \in Small(0) : s = {}
      BY <1>1
    <3> HIDE DEF Small
    <3>2. Solves(g, 0)
      BY <3>1
    <3>3. QED
      BY <2>2, <2>3, <3>2
  <2>4. CASE n # 0
    <3>1. n - 1 \in Nat /\ ~(n <= n - 1)
      BY <2>2, <2>4
    <3>2. PICK g : Solves(g, n - 1)
      BY <2>1, <3>1
    <3> DEFINE h == [s \in Small(n) |-> IF s \in Small(n - 1) THEN g[s]
                                        ELSE op[<<pick[s], g[s \ {pick[s]}]>>]]
    <3>3. \A s \in Small(n) : s \in SUBSET S /\ (s # {} => s \ {pick[s]} \in Small(n - 1))
      BY <1>1, <1>2, <2>2
    <3>4. Small(n - 1) \subseteq Small(n) /\ {} \in Small(n - 1)
      BY <1>1, <2>2, <3>1
    <3> HIDE DEF Small
    <3>5. /\ g \in [Small(n - 1) -> B]
          /\ \A s \in Small(n - 1) :
               g[s] = IF s = {} THEN base ELSE op[<<pick[s], g[s \ {pick[s]}]>>]
      BY <3>2
    <3>6. \A s \in Small(n - 1) : h[s] = g[s]
      BY <3>4
    <3>7. ASSUME NEW s \in Small(n)
          PROVE  /\ h[s] \in B
                 /\ h[s] = IF s = {} THEN base ELSE op[<<pick[s], h[s \ {pick[s]}]>>]
      <4>1. CASE s = {}
        BY <3>4, <3>5, <3>6, <4>1
      <4>2. CASE s # {}
        <5>1. s \ {pick[s]} \in Small(n - 1) /\ pick[s] \in S
          BY <1>2, <3>3, <4>2
        <5>2. h[s] = op[<<pick[s], g[s \ {pick[s]}]>>]
          BY <3>5, <4>2
        <5>3. g[s \ {pick[s]}] \in B
          BY <3>5, <5>1
        <5>4. QED
          BY <3>6, <4>2, <5>1, <5>2, <5>3
      <4>3. QED
        BY <4>1, <4>2
    <3>8. h \in [Small(n) -> B]
      <4>1. h = [s \in Small(n) |-> h[s]]
        OBVIOUS
      <4> HIDE DEF h
      <4>2. QED
        BY <3>7, <4>1
    <3> HIDE DEF h
    <3>9. Solves(h, n)
      BY <3>7, <3>8
    <3>10. QED
      BY <2>2, <3>9
  <2>5. QED
    BY <2>3, <2>4
<1>4. Cardinality(S) \in Nat /\ Small(Cardinality(S)) = SUBSET S
  BY <1>1, FS_CardinalityType
<1> HIDE DEF Small
<1>5. PICK g : Solves(g, Cardinality(S))
  BY <1>3, <1>4
<1>6. QED
  BY <1>4, <1>5 DEF IsFold

LEMMA LeastAndGreatest ==
  ASSUME NEW T, T \subseteq Nat, T # {}
  PROVE  /\ Min(T) \in T /\ \A y \in T : Min(T) <= y
         /\ \A b \in Nat : (\A y \in T : y <= b) => Max(T) \in T /\ \A y \in T : Max(T) >= y
<1>1. \E x \in T : \A y \in T : x <= y
  BY LeastNumber
<1>2. ASSUME NEW b \in Nat, \A y \in T : y <= b
      PROVE  \E x \in T : \A y \in T : x >= y
  <2> DEFINE gaps == {b - y : y \in T}
  <2>1. gaps \subseteq Nat /\ gaps # {}
    <3>1. \A y \in T : b - y \in Nat
      BY <1>2
    <3>2. QED
      BY <3>1
  <2>2. PICK d \in gaps : \A e \in gaps : d <= e
    <3> HIDE DEF gaps
    <3>1. QED
      BY <2>1, LeastNumber
  <2>3. PICK x \in T : d = b - x
    BY <2>2
  <2>4. ASSUME NEW y \in T PROVE x >= y
    <3>1. b - x <= b - y /\ x \in Nat /\ y \in Nat
      BY <2>2, <2>3
    <3>2. QED
      BY <3>1
  <2>5. QED
    BY <2>4
<1>3. QED
  BY <1>1, <1>2 DEF Min, Max

\* FoldLeft takes the last position off, and so visits them in order.
LEMMA LastPosition ==
  ASSUME NEW n \in Nat
  PROVE  /\ IsFiniteSet(1 .. n)
         /\ \A s \in SUBSET (1 .. n) : s # {} => Max(s) \in s
         /\ n # 0 => Max(1 .. n) = n /\ (1 .. n) \ {n} = 1 .. n - 1
<1>1. IsFiniteSet(1 .. n)
  BY FS_Interval
<1>2. ASSUME NEW s \in SUBSET (1 .. n), s # {}
      PROVE  Max(s) \in s /\ \A y \in s : Max(s) >= y
  <2>1. s \subseteq Nat /\ \A y \in s : y <= n
    BY <1>2
  <2>2. QED
    BY <1>2, <2>1, LeastAndGreatest
<1>3. ASSUME n # 0 PROVE Max(1 .. n) = n /\ (1 .. n) \ {n} = 1 .. n - 1
  <2>1. n \in 1 .. n
    BY <1>3
  <2>2. Max(1 .. n) \in 1 .. n /\ Max(1 .. n) >= n
    BY <1>2, <2>1
  <2>3. QED
    BY <1>3, <2>2
<1>4. QED
  BY <1>1, <1>2, <1>3

LEMMA LeftFoldExists ==
  ASSUME NEW n \in Nat, NEW B, NEW base, base \in B, NEW op, op \in [(1 .. n) \X B -> B]
  PROVE  \E iter : IsFold(iter, 1 .. n, B, base, [s \in SUBSET (1 .. n) |-> Max(s)], op)
<1> DEFINE S == 1 .. n
           last == [s \in SUBSET S |-> Max(s)]
<1>1. IsFiniteSet(S)
  BY LastPosition
<1>2. Picks(last, S)
  BY LastPosition DEF Picks
<1> HIDE DEF last, S
<1>3. \E iter : IsFold(iter, S, B, base, last, op)
  BY <1>1, <1>2, FoldExists DEF S
<1>4. QED
  BY <1>3 DEF S, last

-----------------------------------------------------------------------------
\* The loop over the instructions, round by round.
Budgets == [unit_limit : Int, unit_price : 0 .. U64_MAX, ixs_count : Int, sigs_count : Int]

LEMMA InstructionsAreTyped ==
  ASSUME NEW ix \in Instruction
  PROVE  /\ ix.value \in Nat
         /\ \/ ix.program = "compute_budget" /\ ix.request \in {"limit", "price", "other"}
            \/ ix.program \in {"ed25519", "secp256k1", "any"}
         /\ ix.program = "compute_budget" /\ ix.request = "price" => ix.value \in UnitPrice
<1>1. UnitLimit \subseteq Nat /\ UnitPrice \subseteq Nat /\ 0 .. MaxSignatures \subseteq Nat /\ 0 \in Nat
  BY TransactionAssumption
<1>2. CASE ix \in [program : {"compute_budget"}, request : {"limit"}, value : UnitLimit]
  BY <1>1, <1>2
<1>3. CASE ix \in [program : {"compute_budget"}, request : {"price"}, value : UnitPrice]
  BY <1>1, <1>3
<1>4. CASE ix \in [program : {"compute_budget"}, request : {"other"}, value : {0}]
  BY <1>1, <1>4
<1>5. CASE ix \in [program : {"ed25519", "secp256k1"}, value : 0 .. MaxSignatures]
  BY <1>1, <1>5
<1>6. CASE ix \in [program : {"any"}, value : {0}]
  BY <1>1, <1>6
<1>7. QED
  BY <1>2, <1>3, <1>4, <1>5, <1>6 DEF Instruction

LEMMA ScanIsTyped ==
  ASSUME NEW budget \in Budgets, NEW ix \in Instruction
  PROVE  Scan(budget, ix) \in Budgets
<1>1. /\ ix.value \in Int /\ MAX_COMPUTE_UNIT_LIMIT \in Int
      /\ ix.program = "compute_budget" /\ ix.request = "price" => ix.value \in 0 .. U64_MAX
  BY InstructionsAreTyped, TransactionAssumption
<1>2. AtMost(ix.value) \in Int /\ Counted(ix) \in Int
  BY <1>1 DEF AtMost, Counted
<1>3. QED
  BY <1>1, <1>2 DEF Scan, Budgets

Scans(run, n, ins, base) ==
  /\ run \in [0 .. n -> Budgets]
  /\ run[0] = base
  /\ \A i \in 1 .. n : run[i] = Scan(run[i - 1], ins[i])
  /\ FoldLeft(Scan, base, ins) = run[n]

LEMMA ScanRuns ==
  ASSUME NEW n \in Nat, NEW ins \in [1 .. n -> Instruction], NEW base \in Budgets
  PROVE  \E run : Scans(run, n, ins, base)
<1> DEFINE Rounds(g) == g = [s \in SUBSET DOMAIN ins |->
                               IF s = {} THEN base ELSE Scan(g[s \ {Max(s)}], ins[Max(s)])]
           iter == CHOOSE g : Rounds(g)
<1>1. FoldLeft(Scan, base, ins) = iter[DOMAIN ins]
  BY DEF FoldLeft, MapThenFoldSet
<1>2. \E g : Rounds(g)
  <2> DEFINE op == [p \in (1 .. n) \X Budgets |-> Scan(p[2], ins[p[1]])]
  <2>1. op \in [(1 .. n) \X Budgets -> Budgets]
    BY ScanIsTyped
  <2>2. \A i \in 1 .. n, b \in Budgets : op[<<i, b>>] = Scan(b, ins[i])
    OBVIOUS
  <2> HIDE DEF op
  <2> DEFINE last == [s \in SUBSET (1 .. n) |-> Max(s)]
  <2>3. PICK g : IsFold(g, 1 .. n, Budgets, base, last, op)
    BY <2>1, LeftFoldExists
  <2>4. ASSUME NEW s \in SUBSET (1 .. n)
        PROVE  g[s] = IF s = {} THEN base ELSE Scan(g[s \ {Max(s)}], ins[Max(s)])
    <3>1. last[s] = Max(s)
      OBVIOUS
    <3> HIDE DEF last
    <3>2. s # {} => Max(s) \in 1 .. n /\ g[s \ {Max(s)}] \in Budgets
      BY <2>3, LastPosition DEF IsFold
    <3>3. g[s] = IF s = {} THEN base ELSE op[<<Max(s), g[s \ {Max(s)}]>>]
      BY <2>3, <3>1 DEF IsFold
    <3>4. QED
      BY <2>2, <3>2, <3>3
  <2>5. Rounds(g)
    BY <2>3, <2>4 DEF IsFold
  <2>6. QED
    BY <2>5
<1>3. Rounds(iter)
  BY <1>2
<1> HIDE DEF iter
<1>4. iter[{}] = base /\ \A i \in 1 .. n : iter[1 .. i] = Scan(iter[1 .. i - 1], ins[i])
  <2>1. \A s \in SUBSET (1 .. n) :
          iter[s] = IF s = {} THEN base ELSE Scan(iter[s \ {Max(s)}], ins[Max(s)])
    BY <1>3
  <2>2. ASSUME NEW i \in 1 .. n
        PROVE  iter[1 .. i] = Scan(iter[1 .. i - 1], ins[i])
    <3>1. i \in Nat /\ i # 0 /\ 1 .. i \in SUBSET (1 .. n) /\ i \in 1 .. i
      OBVIOUS
    <3>2. Max(1 .. i) = i /\ (1 .. i) \ {i} = 1 .. i - 1
      BY <3>1, LastPosition
    <3>3. QED
      BY <2>1, <3>1, <3>2
  <2>3. QED
    BY <2>1, <2>2
<1> DEFINE run == [i \in 0 .. n |-> iter[1 .. i]]
           bad == {i \in 0 .. n : run[i] \notin Budgets}
<1>5. run[0] = base /\ \A i \in 1 .. n : run[i] = Scan(run[i - 1], ins[i])
  <2>1. 1 .. 0 = {} /\ 0 \in 0 .. n /\ \A i \in 1 .. n : i \in 0 .. n /\ i - 1 \in 0 .. n
    OBVIOUS
  <2>2. QED
    BY <1>4, <2>1
<1>6. run[n] = FoldLeft(Scan, base, ins)
  BY <1>1
<1>7. run = [i \in 0 .. n |-> run[i]]
  OBVIOUS
<1> HIDE DEF run
<1>8. bad = {}
  <2> SUFFICES ASSUME bad # {} PROVE FALSE
    OBVIOUS
  <2>1. PICK i \in bad : \A k \in bad : i <= k
    <3>1. bad \subseteq Nat
      OBVIOUS
    <3> HIDE DEF bad
    <3>2. QED
      BY <3>1, LeastNumber
  <2>2. i \in 0 .. n /\ run[i] \notin Budgets
    BY <2>1
  <2>3. i # 0
    BY <1>5, <2>2
  <2>4. i \in 1 .. n /\ i - 1 \in 0 .. n /\ ~(i <= i - 1)
    BY <2>2, <2>3
  <2>5. run[i - 1] \in Budgets
    BY <2>1, <2>4
  <2>6. ins[i] \in Instruction
    BY <2>4
  <2>7. QED
    BY <1>5, <2>2, <2>4, <2>5, <2>6, ScanIsTyped
<1>9. run \in [0 .. n -> Budgets]
  BY <1>7, <1>8
<1>10. Scans(run, n, ins, base)
  BY <1>5, <1>6, <1>9 DEF Scans
<1>11. QED
  BY <1>10

(***************************************************************************)
(* A sum does not depend on the order its terms are taken in, which the    *)
(* definition leaves to a CHOOSE.                                          *)
(***************************************************************************)
Sums(run, n, f) ==
  /\ run \in [0 .. n -> Nat]
  /\ run[0] = 0
  /\ \A i \in 1 .. n : run[i] = run[i - 1] + f[i]
  /\ SumFunction(f) = run[n]

LEMMA SumRuns ==
  ASSUME NEW n \in Nat, NEW f \in [1 .. n -> Nat]
  PROVE  \E run : Sums(run, n, f)
<1> DEFINE S == 1 .. n
           any == [s \in SUBSET S |-> CHOOSE x \in s : TRUE]
           Rounds(g) == g = [s \in SUBSET DOMAIN f |->
                               IF s = {} THEN 0
                               ELSE f[CHOOSE x \in s : TRUE] + g[s \ {CHOOSE x \in s : TRUE}]]
           sum == CHOOSE g : Rounds(g)
<1>1. SumFunction(f) = sum[DOMAIN f]
  BY DEF SumFunction, SumFunctionOnSet, FoldFunctionOnSet, MapThenFoldSet
<1>2. IsFiniteSet(S) /\ Picks(any, S) /\ \A s \in SUBSET S : any[s] = CHOOSE x \in s : TRUE
  BY LastPosition DEF Picks
<1>3. \E g : Rounds(g)
  <2> DEFINE op == [p \in S \X Nat |-> f[p[1]] + p[2]]
  <2>1. op \in [S \X Nat -> Nat] /\ \A i \in S, b \in Nat : op[<<i, b>>] = f[i] + b
    OBVIOUS
  <2> HIDE DEF op, any, S
  <2>2. PICK g : IsFold(g, S, Nat, 0, any, op)
    <3>1. 0 \in Nat
      OBVIOUS
    <3>2. QED
      BY <1>2, <2>1, <3>1, FoldExists
  <2>3. ASSUME NEW s \in SUBSET S
        PROVE  g[s] = IF s = {} THEN 0
                      ELSE f[CHOOSE x \in s : TRUE] + g[s \ {CHOOSE x \in s : TRUE}]
    <3>1. s # {} => any[s] \in S /\ g[s \ {any[s]}] \in Nat
      BY <1>2, <2>2 DEF IsFold, Picks
    <3>2. g[s] = IF s = {} THEN 0 ELSE op[<<any[s], g[s \ {any[s]}]>>]
      BY <2>2 DEF IsFold
    <3>3. any[s] = CHOOSE x \in s : TRUE
      BY <1>2
    <3>4. QED
      BY <2>1, <3>1, <3>2, <3>3
  <2>4. DOMAIN f = S
    BY DEF S
  <2>5. g \in [SUBSET S -> Nat]
    BY <2>2 DEF IsFold
  <2>6. Rounds(g)
    BY <2>3, <2>4, <2>5
  <2>7. QED
    BY <2>6
<1>4. Rounds(sum)
  BY <1>3
<1> HIDE DEF sum, any
<1>5. \A s \in SUBSET S : any[s] = CHOOSE x \in s : TRUE
  BY <1>2
<1>6. sum[{}] = 0 /\ \A s \in SUBSET S : s # {} =>
        any[s] \in s /\ sum[s] = f[any[s]] + sum[s \ {any[s]}]
  <2>1. DOMAIN f = S /\ {} \in SUBSET S
    OBVIOUS
  <2>2. \A s \in SUBSET S : s # {} => any[s] \in s
    BY <1>2 DEF Picks
  <2> HIDE DEF S
  <2>3. QED
    BY <1>4, <1>5, <2>1, <2>2
<1>7. \A s \in SUBSET S : IsFiniteSet(s) /\ Cardinality(s) \in Nat
  BY <1>2, FS_Subset, FS_CardinalityType
<1> HIDE DEF S
<1> DEFINE Free(s) == sum[s] \in Nat /\ \A x \in s : sum[s] = f[x] + sum[s \ {x}]
           sizes == {k \in Nat : \E s \in SUBSET S : Cardinality(s) = k /\ ~Free(s)}
<1>8. sizes = {}
  <2> SUFFICES ASSUME sizes # {} PROVE FALSE
    OBVIOUS
  <2>1. PICK k \in sizes : \A l \in sizes : k <= l
    <3>1. sizes \subseteq Nat
      OBVIOUS
    <3> HIDE DEF sizes
    <3>2. QED
      BY <3>1, LeastNumber
  <2>2. PICK s \in SUBSET S : Cardinality(s) = k /\ ~Free(s)
    BY <2>1
  <2>3. \A t \in SUBSET S : Cardinality(t) = k - 1 => Free(t)
    BY <1>7, <2>1
  <2>4. \A x \in s : s \ {x} \in SUBSET S /\ Cardinality(s \ {x}) = k - 1
    BY <1>7, <2>2, FS_RemoveElement
  <2>5. \A x \in s : Free(s \ {x}) /\ f[x] \in Nat
    BY <2>3, <2>4 DEF S
  <2>6. CASE s = {}
    BY <1>6, <2>2, <2>6
  <2>7. CASE s # {}
    <3> DEFINE y == any[s]
    <3>1. y \in s /\ sum[s] = f[y] + sum[s \ {y}]
      BY <1>6, <2>7
    <3>2. ASSUME NEW x \in s PROVE sum[s] = f[x] + sum[s \ {x}]
      <4>1. CASE x = y
        BY <3>1, <4>1
      <4>2. CASE x # y
        <5>1. x \in s \ {y} /\ y \in s \ {x} /\ (s \ {y}) \ {x} = (s \ {x}) \ {y}
          BY <3>1, <4>2
        <5>2. /\ sum[s \ {y}] = f[x] + sum[(s \ {y}) \ {x}]
              /\ sum[s \ {x}] = f[y] + sum[(s \ {x}) \ {y}]
          BY <2>5, <3>1, <5>1
        <5>3. sum[(s \ {y}) \ {x}] \in Nat
          <6>1. (s \ {y}) \ {x} \in SUBSET S /\ IsFiniteSet(s \ {y}) /\ Cardinality(s \ {y}) = k - 1
            BY <1>7, <2>4, <3>1
          <6>2. Cardinality((s \ {y}) \ {x}) = k - 2 /\ k \in Nat
            <7>1. Cardinality((s \ {y}) \ {x}) = Cardinality(s \ {y}) - 1
              BY <5>1, <6>1, FS_RemoveElement
            <7>2. k \in Nat
              BY <2>1
            <7>3. QED
              BY <6>1, <7>1, <7>2
          <6>3. Cardinality((s \ {y}) \ {x}) \in Nat /\ ~(k <= k - 2)
            BY <1>7, <6>1, <6>2
          <6>4. QED
            BY <2>1, <6>1, <6>2, <6>3
        <5> DEFINE a == sum[(s \ {y}) \ {x}]
        <5>4. f[x] \in Nat /\ f[y] \in Nat /\ a \in Nat
          BY <2>5, <3>1, <5>3
        <5>5. sum[s] = f[y] + (f[x] + a) /\ sum[s \ {x}] = f[y] + a
          BY <3>1, <5>1, <5>2
        <5> HIDE DEF a, y
        <5>6. QED
          BY <5>4, <5>5
      <4>3. QED
        BY <4>1, <4>2
    <3>3. sum[s] \in Nat
      <4>1. f[y] \in Nat /\ sum[s \ {y}] \in Nat
        BY <2>5, <3>1
      <4> HIDE DEF y
      <4>2. QED
        BY <3>1, <4>1
    <3>4. QED
      BY <2>2, <3>2, <3>3
  <2>8. QED
    BY <2>6, <2>7
<1>9. \A s \in SUBSET S : Free(s)
  BY <1>7, <1>8
<1> HIDE DEF sizes
<1> DEFINE run == [i \in 0 .. n |-> sum[1 .. i]]
<1>10. ASSUME NEW i \in 0 .. n
       PROVE  /\ run[i] \in Nat
              /\ i # 0 => run[i] = run[i - 1] + f[i]
  <2>1. 1 .. i \in SUBSET S
    BY DEF S
  <2>2. run[i] = sum[1 .. i] /\ sum[1 .. i] \in Nat
    BY <1>9, <2>1
  <2>3. ASSUME i # 0 PROVE run[i] = run[i - 1] + f[i]
    <3>1. i \in 1 .. i /\ i - 1 \in 0 .. n /\ i \in Nat /\ i \in S /\ i - 1 \in Nat
      BY <2>3 DEF S
    <3>2. (1 .. i) \ {i} = 1 .. i - 1
      BY <3>1, <2>3, LastPosition
    <3>3. sum[1 .. i] = f[i] + sum[1 .. i - 1] /\ 1 .. i - 1 \in SUBSET S
      BY <1>9, <2>1, <3>1, <3>2
    <3>4. sum[1 .. i - 1] \in Nat /\ f[i] \in Nat
      BY <1>9, <3>1, <3>3 DEF S
    <3>5. run[i - 1] = sum[1 .. i - 1]
      BY <3>1
    <3>6. QED
      BY <2>2, <3>3, <3>4, <3>5
  <2>4. QED
    BY <2>2, <2>3
<1>11. run[0] = 0 /\ run[n] = SumFunction(f)
  <2>1. 1 .. 0 = {} /\ 0 \in 0 .. n /\ n \in 0 .. n /\ DOMAIN f = 1 .. n
    OBVIOUS
  <2>2. QED
    BY <1>1, <1>6, <2>1
<1>12. run = [i \in 0 .. n |-> run[i]] /\ \A i \in 1 .. n : i \in 0 .. n /\ i # 0
  OBVIOUS
<1> HIDE DEF run, Free
<1>13. run \in [0 .. n -> Nat] /\ \A i \in 1 .. n : run[i] = run[i - 1] + f[i]
  BY <1>10, <1>12
<1>14. Sums(run, n, f)
  BY <1>11, <1>13 DEF Sums
<1>15. QED
  BY <1>14

LEMMA SmallRemainder ==
  ASSUME NEW a \in Nat, NEW b \in Nat \ {0}, a < b
  PROVE  a % b = a
  BY SMTT(30)

\* a = q * b + r has one solution.
LEMMA QuotientIsUnique ==
  ASSUME NEW a \in Nat, NEW b \in Nat \ {0}, NEW q \in Nat, q * b <= a, a < (q + 1) * b
  PROVE  q = a \div b
<1> DEFINE p == a \div b
<1>1. p \in Nat /\ p * b <= a /\ a < (p + 1) * b
  BY Quotient
<1> HIDE DEF p
<1>2. q * b \in Nat /\ p * b \in Nat /\ (q + 1) * b \in Nat /\ (p + 1) * b \in Nat
  BY <1>1
<1>3. p < q + 1
  <2>1. p * b < (q + 1) * b
    BY <1>1, <1>2
  <2>2. QED
    BY <1>1, <2>1, ProductsCompare
<1>4. q < p + 1
  <2>1. q * b < (p + 1) * b
    BY <1>1, <1>2
  <2>2. QED
    BY <1>1, <2>1, ProductsCompare
<1>5. QED
  BY <1>1, <1>3, <1>4 DEF p

LEMMA Remainder ==
  ASSUME NEW a \in Nat, NEW b \in Nat \ {0}
  PROVE  a % b \in Nat /\ a % b < b /\ a = (a \div b) * b + (a % b)
  BY SMTT(30)

\* Rounding a quotient up, once by its remainder and once before dividing.
LEMMA RoundedUp ==
  ASSUME NEW a \in Nat, NEW b \in Nat \ {0}
  PROVE  a \div b + (IF a % b > 0 THEN 1 ELSE 0) = (a + b - 1) \div b
<1> DEFINE q == a \div b
           r == a % b
<1>1. q \in Nat /\ r \in Nat /\ r < b /\ a = q * b + r
  BY Quotient, Remainder
<1>2. a + b - 1 \in Nat
  OBVIOUS
<1> HIDE DEF q, r
<1>3. q * b \in Nat /\ (q + 1) * b = q * b + b /\ (q + 1 + 1) * b = q * b + b + b
  BY <1>1
<1>4. CASE r = 0
  <2>1. q * b <= a + b - 1 /\ a + b - 1 < (q + 1) * b
    BY <1>1, <1>3, <1>4
  <2>2. q = (a + b - 1) \div b
    BY <1>1, <1>2, <2>1, QuotientIsUnique
  <2>3. QED
    BY <1>1, <1>4, <2>2 DEF q, r
<1>5. CASE r > 0
  <2>1. (q + 1) * b <= a + b - 1 /\ a + b - 1 < (q + 1 + 1) * b /\ q + 1 \in Nat
    BY <1>1, <1>3, <1>5
  <2>2. q + 1 = (a + b - 1) \div b
    BY <1>2, <2>1, QuotientIsUnique
  <2>3. QED
    BY <1>5, <2>2 DEF q, r
<1>6. QED
  BY <1>1, <1>4, <1>5

\* Two requests for the same are not accepted.
LEMMA OnlyOne ==
  ASSUME NEW S, IsFiniteSet(S), Cardinality(S) <= 1, NEW x \in S, NEW y \in S
  PROVE  x = y
<1> SUFFICES ASSUME x # y PROVE FALSE
  OBVIOUS
<1>1. IsFiniteSet({x}) /\ Cardinality({x}) = 1
  BY FS_Singleton
<1>2. Cardinality({x} \cup {y}) = 2
  <2> DEFINE one == {x}
  <2>1. IsFiniteSet(one) /\ y \notin one /\ Cardinality(one) = 1
    BY <1>1
  <2> HIDE DEF one
  <2>2. Cardinality(one \cup {y}) = Cardinality(one) + 1
    BY <2>1, FS_AddElement
  <2>3. QED
    BY <2>1, <2>2 DEF one
<1>3. {x} \cup {y} \in SUBSET S
  OBVIOUS
<1>4. Cardinality({x} \cup {y}) <= Cardinality(S) /\ Cardinality(S) \in Nat
  BY <1>3, FS_Subset, FS_CardinalityType
<1>5. QED
  BY <1>2, <1>4

-----------------------------------------------------------------------------
Verified(ix) == IF ix.program \in {"ed25519", "secp256k1"} THEN ix.value ELSE 0
Ran(ins, i) == {j \in 1 .. i : ins[j].program # "compute_budget"}

LEMMA RequestsAreUnique ==
  ASSUME NEW n \in Nat, NEW ins \in [1 .. n -> Instruction], Accepted(ins),
         NEW request \in {"limit", "price"},
         NEW i \in Asked(ins, request), NEW j \in Asked(ins, request)
  PROVE  i = j
<1>1. IsFiniteSet(1 .. n)
  BY FS_Interval
<1>2. Asked(ins, request) \in SUBSET (1 .. n)
  BY DEF Asked
<1>3. IsFiniteSet(Asked(ins, request))
  BY <1>1, <1>2, FS_Subset
<1>4. Cardinality(Asked(ins, request)) <= 1
  BY DEF Accepted
<1>5. QED
  BY <1>3, <1>4, OnlyOne

LEMMA RanCounts ==
  ASSUME NEW n \in Nat, NEW ins \in [1 .. n -> Instruction], NEW i \in 1 .. n
  PROVE  /\ Cardinality(Ran(ins, i - 1)) \in Nat
         /\ Cardinality(Ran(ins, i)) = Cardinality(Ran(ins, i - 1)) + Counted(ins[i])
<1>1. i \in Nat /\ i - 1 \in Nat /\ IsFiniteSet(1 .. i - 1)
  BY FS_Interval
<1>2. Ran(ins, i - 1) \in SUBSET (1 .. i - 1) /\ i \notin Ran(ins, i - 1)
  BY <1>1 DEF Ran
<1>3. IsFiniteSet(Ran(ins, i - 1)) /\ Cardinality(Ran(ins, i - 1)) \in Nat
  BY <1>1, <1>2, FS_Subset, FS_CardinalityType
<1>4. CASE ins[i].program = "compute_budget"
  <2>1. Ran(ins, i) = Ran(ins, i - 1)
    BY <1>1, <1>4 DEF Ran
  <2>2. QED
    BY <1>3, <1>4, <2>1 DEF Counted
<1>5. CASE ins[i].program # "compute_budget"
  <2>1. Ran(ins, i) = Ran(ins, i - 1) \cup {i}
    BY <1>1, <1>5 DEF Ran
  <2>2. QED
    BY <1>2, <1>3, <1>5, <2>1, FS_AddElement DEF Counted
<1>6. QED
  BY <1>3, <1>4, <1>5

(***************************************************************************)
(* What the loop has found after the first i instructions: all that ran,   *)
(* all that was verified and the one limit and price asked for so far.     *)
(***************************************************************************)
Found(ins, signatures, sums, i, budget) ==
  /\ budget.ixs_count = Cardinality(Ran(ins, i))
  /\ budget.sigs_count = signatures + sums[i]
  /\ \A j \in Asked(ins, "limit") : j <= i => budget.unit_limit = AtMost(ins[j].value)
  /\ (\A j \in Asked(ins, "limit") : i < j) => budget.unit_limit = NoLimit
  /\ \A j \in Asked(ins, "price") : j <= i => budget.unit_price = ins[j].value
  /\ (\A j \in Asked(ins, "price") : i < j) => budget.unit_price = 0

LEMMA FoundInOneRound ==
  ASSUME NEW n \in Nat, NEW ins \in [1 .. n -> Instruction], Accepted(ins),
         NEW signatures \in Nat, NEW sums \in [0 .. n -> Nat], NEW i \in 1 .. n,
         sums[i] = sums[i - 1] + Verified(ins[i]),
         NEW budget \in Budgets, Found(ins, signatures, sums, i - 1, budget)
  PROVE  Found(ins, signatures, sums, i, Scan(budget, ins[i]))
<1> DEFINE next == Scan(budget, ins[i])
<1>1. i \in Nat /\ i - 1 \in 0 .. n /\ ins[i] \in Instruction /\ Asked(ins, "limit") \subseteq Nat
      /\ Asked(ins, "price") \subseteq Nat
  BY DEF Asked
<1>2. /\ budget.ixs_count \in Int /\ budget.sigs_count \in Int
      /\ sums[i] \in Nat /\ sums[i - 1] \in Nat
  BY <1>1 DEF Budgets
<1>3. /\ next.unit_limit = IF i \in Asked(ins, "limit") THEN AtMost(ins[i].value) ELSE budget.unit_limit
      /\ next.unit_price = IF i \in Asked(ins, "price") THEN ins[i].value ELSE budget.unit_price
      /\ next.ixs_count = budget.ixs_count + Counted(ins[i])
      /\ next.sigs_count = budget.sigs_count + Verified(ins[i])
  BY DEF Scan, Asked, Verified
<1> HIDE DEF next
<1>4. next.ixs_count = Cardinality(Ran(ins, i))
  BY <1>3, RanCounts DEF Found
<1>5. next.sigs_count = signatures + sums[i]
  <2>1. budget.sigs_count = signatures + sums[i - 1]
    BY DEF Found
  <2>2. Verified(ins[i]) \in Int
    BY <1>1, InstructionsAreTyped DEF Verified
  <2>3. QED
    BY <1>2, <1>3, <2>1, <2>2
<1>6. /\ \A j \in Asked(ins, "limit") : j <= i => next.unit_limit = AtMost(ins[j].value)
      /\ (\A j \in Asked(ins, "limit") : i < j) => next.unit_limit = NoLimit
  <2>1. CASE i \in Asked(ins, "limit")
    <3>1. \A j \in Asked(ins, "limit") : j = i
      BY <2>1, RequestsAreUnique
    <3>2. QED
      BY <1>1, <1>3, <2>1, <3>1
  <2>2. CASE i \notin Asked(ins, "limit")
    <3>1. \A j \in Asked(ins, "limit") : (j <= i <=> j <= i - 1) /\ (i < j <=> i - 1 < j)
      BY <1>1, <2>2
    <3>2. QED
      BY <1>3, <2>2, <3>1 DEF Found
  <2>3. QED
    BY <2>1, <2>2
<1>7. /\ \A j \in Asked(ins, "price") : j <= i => next.unit_price = ins[j].value
      /\ (\A j \in Asked(ins, "price") : i < j) => next.unit_price = 0
  <2>1. CASE i \in Asked(ins, "price")
    <3>1. \A j \in Asked(ins, "price") : j = i
      BY <2>1, RequestsAreUnique
    <3>2. QED
      BY <1>1, <1>3, <2>1, <3>1
  <2>2. CASE i \notin Asked(ins, "price")
    <3>1. \A j \in Asked(ins, "price") : (j <= i <=> j <= i - 1) /\ (i < j <=> i - 1 < j)
      BY <1>1, <2>2
    <3>2. QED
      BY <1>3, <2>2, <3>1 DEF Found
  <2>3. QED
    BY <2>1, <2>2
<1>8. QED
  BY <1>4, <1>5, <1>6, <1>7 DEF Found, next

LEMMA LoopFindsBudget ==
  ASSUME NEW n \in Nat, NEW ins \in [1 .. n -> Instruction], Accepted(ins),
         NEW signatures \in Nat, NEW sums \in [0 .. n -> Nat], sums[0] = 0,
         \A i \in 1 .. n : sums[i] = sums[i - 1] + Verified(ins[i])
  PROVE  LET scanned == FoldLeft(Scan, [unit_limit |-> NoLimit, unit_price |-> 0,
                                        ixs_count |-> 0, sigs_count |-> signatures], ins)
         IN  scanned \in Budgets /\ Found(ins, signatures, sums, n, scanned)
<1> DEFINE base == [unit_limit |-> NoLimit, unit_price |-> 0,
                    ixs_count |-> 0, sigs_count |-> signatures]
<1>1. base \in Budgets
  BY TransactionAssumption DEF Budgets, NoLimit
<1>2. Found(ins, signatures, sums, 0, base)
  <2>1. Ran(ins, 0) = {} /\ Cardinality({}) = 0
    BY FS_EmptySet DEF Ran
  <2>2. /\ \A j \in Asked(ins, "limit") : ~(j <= 0)
        /\ \A j \in Asked(ins, "price") : ~(j <= 0)
    BY DEF Asked
  <2>3. /\ base.ixs_count = 0 /\ base.sigs_count = signatures
        /\ base.unit_limit = NoLimit /\ base.unit_price = 0
    OBVIOUS
  <2>4. signatures = signatures + sums[0]
    OBVIOUS
  <2> HIDE DEF base
  <2>5. QED
    BY <2>1, <2>2, <2>3, <2>4 DEF Found
<1> HIDE DEF base
<1>3. PICK run \in [0 .. n -> Budgets] :
        /\ run[0] = base
        /\ \A i \in 1 .. n : run[i] = Scan(run[i - 1], ins[i])
        /\ FoldLeft(Scan, base, ins) = run[n]
  <2>1. PICK run : Scans(run, n, ins, base)
    BY <1>1, ScanRuns
  <2>2. QED
    BY <2>1 DEF Scans
<1> DEFINE bad == {i \in 0 .. n : ~Found(ins, signatures, sums, i, run[i])}
<1>4. bad = {}
  <2> SUFFICES ASSUME bad # {} PROVE FALSE
    OBVIOUS
  <2>1. PICK i \in bad : \A k \in bad : i <= k
    <3>1. bad \subseteq Nat
      OBVIOUS
    <3> HIDE DEF bad
    <3>2. QED
      BY <3>1, LeastNumber
  <2>2. i \in 0 .. n /\ ~Found(ins, signatures, sums, i, run[i])
    BY <2>1
  <2>3. i # 0
    BY <1>2, <1>3, <2>2
  <2>4. i \in 1 .. n /\ i - 1 \in 0 .. n /\ ~(i <= i - 1)
    BY <2>2, <2>3
  <2>5. Found(ins, signatures, sums, i - 1, run[i - 1]) /\ run[i - 1] \in Budgets
    BY <2>1, <2>4
  <2>6. QED
    BY <1>3, <2>2, <2>4, <2>5, FoundInOneRound
<1>5. n \in 0 .. n
  OBVIOUS
<1>6. QED
  BY <1>3, <1>4, <1>5 DEF base

(***************************************************************************)
(* txmon's expectation is what the runtime charges, for every list of      *)
(* instructions: the lists are not bounded here.                           *)
(***************************************************************************)
THEOREM BudgetIsExplained ==
  ASSUME NEW n \in Nat, NEW ins \in [1 .. n -> Instruction], NEW signatures \in Nat
  PROVE  Explained(signatures, ins)
<1> SUFFICES ASSUME Accepted(ins), Reserved(ins) * Price(ins) <= U64_MAX
             PROVE  ExpectedFee(Budget(signatures, ins)) = Charged(signatures, ins)
  BY DEF Explained
<1> DEFINE limits == {ins[j].value : j \in Asked(ins, "limit")}
           count == Cardinality(Ran(ins, n))
           budget == FoldLeft(Scan, [unit_limit |-> NoLimit, unit_price |-> 0,
                                     ixs_count |-> 0, sigs_count |-> signatures], ins)
           verified == [i \in DOMAIN ins |-> Verified(ins[i])]
<1>1. /\ MAX_COMPUTE_UNIT_LIMIT \in Nat /\ DEFAULT_INSTRUCTION_COMPUTE_UNIT_LIMIT \in Nat
      /\ MicroLamports \in Nat \ {0} /\ U64_MAX \in Nat /\ LamportsPerSignature \in Nat
  BY TransactionAssumption
<1>2. DOMAIN ins = 1 .. n
  OBVIOUS
<1>3. \A i \in 1 .. n : ins[i].value \in Nat /\ Verified(ins[i]) \in Nat
  BY InstructionsAreTyped DEF Verified
<1>4. count \in Nat
  <2>1. Ran(ins, n) \in SUBSET (1 .. n) /\ IsFiniteSet(1 .. n)
    BY FS_Interval DEF Ran
  <2>2. QED
    BY <2>1, FS_Subset, FS_CardinalityType
<1>5. PICK sums \in [0 .. n -> Nat] :
        /\ sums[0] = 0
        /\ \A i \in 1 .. n : sums[i] = sums[i - 1] + Verified(ins[i])
        /\ SumFunction(verified) = sums[n]
  <2>1. verified \in [1 .. n -> Nat] /\ \A i \in 1 .. n : verified[i] = Verified(ins[i])
    BY <1>2, <1>3
  <2> HIDE DEF verified
  <2>2. PICK sums : Sums(sums, n, verified)
    BY <2>1, SumRuns
  <2>3. QED
    BY <2>1, <2>2 DEF Sums
<1>6. budget \in Budgets /\ Found(ins, signatures, sums, n, budget)
  BY <1>5, LoopFindsBudget
<1> HIDE DEF budget, verified
<1>7. /\ \A j \in Asked(ins, "limit") : j \in 1 .. n /\ j <= n /\ ~(n < j)
      /\ \A j \in Asked(ins, "price") : j \in 1 .. n /\ j <= n /\ ~(n < j)
  BY <1>2 DEF Asked
<1>8. /\ budget.ixs_count = count /\ budget.sigs_count = signatures + sums[n]
      /\ \A j \in Asked(ins, "limit") : budget.unit_limit = AtMost(ins[j].value)
      /\ Asked(ins, "limit") = {} => budget.unit_limit = NoLimit
      /\ \A j \in Asked(ins, "price") : budget.unit_price = ins[j].value
      /\ Asked(ins, "price") = {} => budget.unit_price = 0
  BY <1>6, <1>7 DEF Found
<1> DEFINE converted == Budget(signatures, ins)
<1>9. /\ converted.sigs_count = signatures + sums[n]
      /\ converted.unit_price = budget.unit_price
      /\ converted.unit_limit =
           IF budget.unit_limit # NoLimit THEN budget.unit_limit
           ELSE AtMost(count * DEFAULT_INSTRUCTION_COMPUTE_UNIT_LIMIT)
  BY <1>8 DEF Budget, budget
<1> HIDE DEF converted
<1>10. converted.unit_price = Price(ins) /\ Price(ins) \in Nat
  <2> DEFINE prices == {0} \cup {ins[i].value : i \in Asked(ins, "price")}
  <2>1. Price(ins) = Max(prices)
    BY DEF Price
  <2>2. CASE Asked(ins, "price") = {}
    <3>1. prices = {0}
      BY <2>2
    <3>2. Max({0}) = 0
      BY LeastAndGreatest
    <3> HIDE DEF prices
    <3>3. QED
      BY <1>8, <1>9, <2>1, <2>2, <3>1, <3>2
  <2>3. CASE Asked(ins, "price") # {}
    <3>1. PICK j \in Asked(ins, "price") : TRUE
      BY <2>3
    <3>2. \A k \in Asked(ins, "price") : k = j
      BY <3>1, RequestsAreUnique
    <3>3. prices = {0, ins[j].value} /\ ins[j].value \in Nat
      BY <1>3, <1>7, <3>1, <3>2
    <3>4. Max(prices) \in prices /\ \A y \in prices : Max(prices) >= y
      <4> HIDE DEF prices
      <4>1. prices \subseteq Nat /\ prices # {} /\ \A y \in prices : y <= ins[j].value
        BY <3>3
      <4>2. QED
        BY <3>3, <4>1, LeastAndGreatest
    <3> HIDE DEF prices
    <3>5. Max(prices) = ins[j].value
      BY <3>3, <3>4
    <3>6. QED
      BY <1>8, <1>9, <2>1, <3>1, <3>3, <3>5
  <2>4. QED
    BY <2>2, <2>3
<1>11. converted.unit_limit = Reserved(ins) /\ Reserved(ins) \in Nat
  <2> DEFINE default == count * DEFAULT_INSTRUCTION_COMPUTE_UNIT_LIMIT
  <2>1. Reserved(ins) = Min(limits \cup {MAX_COMPUTE_UNIT_LIMIT} \cup
                             (IF limits = {} THEN {default} ELSE {}))
    BY <1>2 DEF Reserved, Ran
  <2>2. default \in Nat
    BY <1>1, <1>4
  <2>3. ASSUME NEW limit \in Nat
        PROVE  Min({limit, MAX_COMPUTE_UNIT_LIMIT}) = AtMost(limit) /\ AtMost(limit) \in Nat
    <3> DEFINE both == {limit, MAX_COMPUTE_UNIT_LIMIT}
    <3>1. both \subseteq Nat /\ both # {}
      BY <1>1
    <3>2. Min(both) \in both /\ \A y \in both : Min(both) <= y
      <4> HIDE DEF both
      <4>1. QED
        BY <3>1, LeastAndGreatest
    <3>3. QED
      BY <1>1, <3>2 DEF AtMost
  <2> HIDE DEF default
  <2>4. CASE Asked(ins, "limit") = {}
    <3>1. limits = {}
      BY <2>4
    <3>2. limits \cup {MAX_COMPUTE_UNIT_LIMIT} \cup {default} = {default, MAX_COMPUTE_UNIT_LIMIT}
      BY <3>1
    <3>3. Reserved(ins) = AtMost(default) /\ AtMost(default) \in Nat
      BY <2>1, <2>2, <2>3, <3>1, <3>2
    <3>4. QED
      BY <1>8, <1>9, <2>4, <3>3 DEF default
  <2>5. CASE Asked(ins, "limit") # {}
    <3>1. PICK j \in Asked(ins, "limit") : TRUE
      BY <2>5
    <3>2. \A k \in Asked(ins, "limit") : k = j
      BY <3>1, RequestsAreUnique
    <3>3. limits = {ins[j].value} /\ ins[j].value \in Nat
      BY <1>3, <1>7, <3>1, <3>2
    <3>4. limits # {} /\ limits \cup {MAX_COMPUTE_UNIT_LIMIT} \cup {}
                           = {ins[j].value, MAX_COMPUTE_UNIT_LIMIT}
      BY <3>3
    <3>5. Reserved(ins) = AtMost(ins[j].value) /\ AtMost(ins[j].value) \in Nat
      BY <2>1, <2>3, <3>3, <3>4
    <3>6. budget.unit_limit # NoLimit
      BY <1>8, <3>1, <3>5 DEF NoLimit
    <3>7. QED
      BY <1>8, <1>9, <3>1, <3>5, <3>6
  <2>6. QED
    BY <2>4, <2>5
<1> DEFINE units == Reserved(ins) * Price(ins)
<1>12. units \in Nat /\ units <= U64_MAX
  BY <1>10, <1>11
<1>13. (converted.unit_limit * converted.unit_price) % (U64_MAX + 1) = units
  <2>1. U64_MAX + 1 \in Nat \ {0} /\ units < U64_MAX + 1
    BY <1>1, <1>12
  <2> HIDE DEF units
  <2>2. units % (U64_MAX + 1) = units
    BY <1>12, <2>1, SmallRemainder
  <2>3. QED
    BY <1>10, <1>11, <2>2 DEF units
<1>14. ExpectedFee(converted)
         = units \div MicroLamports + (IF units % MicroLamports > 0 THEN 1 ELSE 0)
             + LamportsPerSignature * (signatures + sums[n])
  BY <1>9, <1>13 DEF ExpectedFee
<1>15. Charged(signatures, ins)
         = LamportsPerSignature * (signatures + sums[n])
             + (units + MicroLamports - 1) \div MicroLamports
  BY <1>5 DEF Charged, Verified, verified
<1>16. QED
  <2> DEFINE signed == LamportsPerSignature * (signatures + sums[n])
             rounded == (units + MicroLamports - 1) \div MicroLamports
  <2>1. n \in 0 .. n
    OBVIOUS
  <2>2. signed \in Nat
    BY <1>1, <1>5, <2>1
  <2> HIDE DEF units
  <2>3. units \div MicroLamports + (IF units % MicroLamports > 0 THEN 1 ELSE 0) = rounded
    BY <1>1, <1>12, RoundedUp
  <2>4. rounded \in Nat
    BY <1>1, <1>12, Quotient
  <2>5. ExpectedFee(converted) = rounded + signed /\ Charged(signatures, ins) = signed + rounded
    BY <1>14, <1>15, <2>3
  <2> HIDE DEF rounded, signed
  <2>6. QED
    BY <2>2, <2>4, <2>5 DEF converted

-----------------------------------------------------------------------------
\* The parameters of a call are nothing, a list or an object of parameters.
Shaped(params) ==
  \/ params.form = "none"
  \/ params.form = "object" /\ \A name \in DOMAIN params.items : params.items[name] \in Parameters
  \/ params.form = "array" /\ \E n \in Nat : params.items \in [1 .. n -> Parameters]

LEMMA ParametersAreShaped ==
  ASSUME NEW params \in ParamLists
  PROVE  Shaped(params)
<1> DEFINE keys == {Null} \cup {Keys(list) : list \in Lists(MAX_TX_ACCOUNT_LOCKS)}
<1>1. /\ Null \in Parameters /\ keys \subseteq Parameters
      /\ \A fields \in ContextConfigs : Config(fields) \in Parameters
  BY DEF Parameters
<1>2. CASE params \in {NoParams, Array(<<>>)}
  <2>1. <<>> \in [1 .. 0 -> Parameters]
    OBVIOUS
  <2>2. /\ NoParams.form = "none"
        /\ Array(<<>>).form = "array" /\ Array(<<>>).items = <<>>
    BY DEF NoParams, Array
  <2>3. QED
    BY <1>2, <2>1, <2>2 DEF Shaped
<1>3. CASE params \in {Array(<<p>>) : p \in Parameters}
  <2>1. \A p \in Parameters : <<p>> \in [1 .. 1 -> Parameters]
    OBVIOUS
  <2>2. PICK p \in Parameters : params = Array(<<p>>)
    BY <1>3
  <2>3. params.form = "array" /\ params.items \in [1 .. 1 -> Parameters]
    BY <2>1, <2>2 DEF Array
  <2>4. QED
    BY <2>3 DEF Shaped
<1>4. CASE params \in {Array(<<p, Config(fields)>>) : p \in keys, fields \in ContextConfigs}
  <2>1. \A p, q \in Parameters : <<p, q>> \in [1 .. 2 -> Parameters]
    OBVIOUS
  <2> HIDE DEF keys
  <2>2. PICK p \in Parameters, q \in Parameters : params = Array(<<p, q>>)
    BY <1>1, <1>4
  <2>3. QED
    BY <2>1, <2>2 DEF Shaped, Array
<1>5. CASE params \in {Object([name \in {"config"} |-> p]) : p \in Parameters}
  BY <1>5 DEF Shaped, Object
<1>6. CASE params \in {Object([name \in {"pubkey_strs"} |-> p]) : p \in Parameters}
  BY <1>6 DEF Shaped, Object
<1>7. QED
  BY <1>2, <1>3, <1>4, <1>5, <1>6 DEF ParamLists

LEMMA CallsAreShaped ==
  ASSUME NEW call \in Calls
  PROVE  \/ call.kind \in {"notification", "invalid"}
         \/ call.kind = "method" /\ Shaped(call.params)
<1>1. CASE call \in {Notification, Invalid}
  BY <1>1 DEF Notification, Invalid
<1>2. CASE call \notin {Notification, Invalid}
  <2> DEFINE methods == {"getLatestBlockhash", "getRecentPrioritizationFees", "getSlot",
                         "getVersion", "getBlock"}
  <2>1. call \in {Method(method, params) : method \in methods, params \in ParamLists}
    BY <1>2 DEF Calls
  <2> HIDE DEF methods
  <2>2. PICK method \in methods, params \in ParamLists : call = Method(method, params)
    BY <2>1
  <2>3. QED
    BY <2>2, ParametersAreShaped DEF Method
<1>3. QED
  BY <1>1, <1>2

\* What is missing is Null, and what is null is missing.
LEMMA ArgumentIsShaped ==
  ASSUME NEW params, Shaped(params), params.form # "none", NEW names, NEW name
  PROVE  Argument(params, names, name) \in Parameters
         /\ (Argument(params, names, name).type = "null" => Argument(params, names, name) = Null)
<1>1. Null \in Parameters
  BY DEF Parameters
<1>2. ASSUME NEW p \in Parameters PROVE p.type = "null" => p = Null
  BY DEF Parameters, Null, Other, Keys, Config
<1>3. CASE params.form = "array"
  <2>1. PICK n \in Nat : params.items \in [1 .. n -> Parameters]
    BY <1>3 DEF Shaped
  <2>2. QED
    BY <1>1, <1>2, <1>3, <2>1 DEF Argument
<1>4. CASE params.form = "object"
  BY <1>1, <1>2, <1>4 DEF Argument, Shaped
<1>5. QED
  BY <1>3, <1>4 DEF Shaped

LEMMA SameBlockhash ==
  ASSUME NEW params, Shaped(params),
         ~(/\ params.form # "none" /\ Fits(params, <<"config">>)
           /\ ConfigOf(params).type = "config"
           /\ "rollback" \in DOMAIN FieldsOf(ConfigOf(params)))
  PROVE  GetLatestBlockhash("Triton", params) = GetLatestBlockhash("Solana", params)
<1> DEFINE fields == FieldsOf(ConfigOf(params))
<1>1. CASE HasConfig(params)
  <2>1. "rollback" \notin DOMAIN fields
    <3>1. CASE ConfigOf(params) = Null
      BY <3>1 DEF FieldsOf, NoFields
    <3>2. CASE ConfigOf(params) # Null
      <4>1. params.form # "none"
        BY <1>1 DEF HasConfig, Fits
      <4>2. ConfigOf(params).type = "config"
        BY <1>1, <3>2, <4>1, ArgumentIsShaped DEF HasConfig, ConfigOf
      <4>3. QED
        BY <1>1, <4>1, <4>2 DEF HasConfig
    <3>3. QED
      BY <3>1, <3>2
  <2>2. HasTypes(fields, {"minContextSlot"} \cup {"rollback"})
          <=> HasTypes(fields, {"minContextSlot"} \cup {})
    BY <2>1 DEF HasTypes
  <2>3. ConfigField(params, "rollback", Number(0)) = Number(0)
    BY <2>1 DEF ConfigField, Field
  <2>4. QED
    BY <1>1, <2>2, <2>3 DEF GetLatestBlockhash
<1>2. CASE ~HasConfig(params)
  BY <1>2 DEF GetLatestBlockhash
<1>3. QED
  BY <1>1, <1>2

\* The second parameter of Triton is not there.
LEMMA SameRecentFees ==
  ASSUME NEW params, Shaped(params),
         params.form = "array" => ~(Len(params.items) > 1),
         params.form = "object" => "config" \notin DOMAIN params.items
  PROVE  GetRecentPrioritizationFees("Triton", params)
           = GetRecentPrioritizationFees("Solana", params)
<1> DEFINE solana == <<"pubkey_strs">>
           triton == <<"pubkey_strs", "config">>
<1>1. FeesNames("Solana") = solana /\ FeesNames("Triton") = triton
  BY DEF FeesNames
<1>2. (CHOOSE i \in DOMAIN solana : solana[i] = "pubkey_strs") = 1
      /\ (CHOOSE i \in DOMAIN triton : triton[i] = "pubkey_strs") = 1
      /\ (CHOOSE i \in DOMAIN triton : triton[i] = "config") = 2
  <2>1. /\ \A i \in DOMAIN solana : solana[i] = "pubkey_strs" <=> i = 1
        /\ \A i \in DOMAIN triton : triton[i] = "pubkey_strs" <=> i = 1
        /\ \A i \in DOMAIN triton : triton[i] = "config" <=> i = 2
    OBVIOUS
  <2>2. 1 \in DOMAIN solana /\ 1 \in DOMAIN triton /\ 2 \in DOMAIN triton
    OBVIOUS
  <2> HIDE DEF solana, triton
  <2>3. QED
    BY <2>1, <2>2
<1>3. Len(solana) = 1 /\ Len(triton) = 2
  OBVIOUS
<1> HIDE DEF solana, triton
<1>4. CASE params.form = "none"
  BY <1>1, <1>4 DEF GetRecentPrioritizationFees, Fits
<1>5. CASE params.form # "none"
  <2>1. params.form = "array" =>
          /\ Len(params.items) \in Nat /\ Len(params.items) <= 1
          /\ 2 \notin DOMAIN params.items
    <3> SUFFICES ASSUME params.form = "array"
                 PROVE  /\ Len(params.items) \in Nat /\ Len(params.items) <= 1
                        /\ 2 \notin DOMAIN params.items
      OBVIOUS
    <3>1. PICK n \in Nat : params.items \in [1 .. n -> Parameters]
      BY DEF Shaped
    <3>2. Len(params.items) = n
      BY <3>1
    <3>3. QED
      BY <3>1, <3>2
  <2>2. Fits(params, solana) /\ Fits(params, triton)
    BY <1>3, <1>5, <2>1 DEF Fits, Shaped
  <2>3. Argument(params, triton, "pubkey_strs") = Argument(params, solana, "pubkey_strs")
    <3>1. CASE params.form = "array"
      <4>1. \A names : Argument(params, names, "pubkey_strs") =
              IF (CHOOSE i \in DOMAIN names : names[i] = "pubkey_strs") \in DOMAIN params.items
              THEN params.items[CHOOSE i \in DOMAIN names : names[i] = "pubkey_strs"] ELSE Null
        BY <3>1 DEF Argument
      <4>2. QED
        BY <1>2, <4>1, Zenon
    <3>2. CASE params.form # "array"
      BY <3>2 DEF Argument
    <3>3. QED
      BY <3>1, <3>2
  <2>4. Argument(params, triton, "config") = Null
    BY <1>2, <1>5, <2>1 DEF Argument, Shaped
  <2>5. QED
    BY <1>1, <2>2, <2>3, <2>4 DEF GetRecentPrioritizationFees
<1>6. QED
  BY <1>4, <1>5

(***************************************************************************)
(* The four endpoints on every call: parsed on their own, they agree where *)
(* the API is the same (rpc_solana.rs:136-353).                            *)
(***************************************************************************)
THEOREM EndpointsAgree ==
  ASSUME NEW call \in Calls
  PROVE  Compatible(call)
<1> DEFINE solana == Dispatch("Solana", call)
           triton == Dispatch("Triton", call)
           solfees == Dispatch("Solfees", call)
           frontend == Dispatch("SolfeesFrontend", call)
           fees == call.kind = "method" /\ call.method = "getRecentPrioritizationFees"
<1>1. CASE call.kind # "method"
  <2>1. /\ solana = Failure("invalid request") /\ triton = Failure("invalid request")
        /\ solfees = Failure("invalid request") /\ frontend = Failure("invalid request")
    BY <1>1 DEF Dispatch
  <2> HIDE DEF solana, triton, solfees, frontend
  <2>2. frontend.answer = "failure"
    BY <2>1 DEF Failure
  <2>3. QED
    BY <1>1, <2>1, <2>2 DEF Compatible, solana, triton, solfees, frontend
<1>2. CASE fees
  <2>1. /\ solana = GetRecentPrioritizationFees("Solana", call.params)
        /\ triton = GetRecentPrioritizationFees("Triton", call.params)
        /\ solfees = GetFilteredFees("Solfees", call.params)
        /\ frontend = GetFilteredFees("SolfeesFrontend", call.params)
    BY <1>2 DEF Dispatch
  <2>2. ~UsesExtension(call) => triton = solana
    <3>1. Shaped(call.params)
      BY <1>2, CallsAreShaped
    <3> SUFFICES ASSUME ~UsesExtension(call) PROVE triton = solana
      OBVIOUS
    <3>2. /\ call.params.form = "array" => ~(Len(call.params.items) > 1)
          /\ call.params.form = "object" => "config" \notin DOMAIN call.params.items
      BY <1>2 DEF UsesExtension
    <3>3. QED
      BY <2>1, <3>1, <3>2, SameRecentFees
  <2>3. /\ solfees.answer = frontend.answer
        /\ solfees.answer = "queued" => solfees.request.filter = frontend.request.filter
    <3> HIDE DEF solfees, frontend
    <3> DEFINE fields == IF ConfigOf(call.params) = Null THEN DefaultFilter
                         ELSE FieldsOf(ConfigOf(call.params))
               filter == [f \in FilterFields |-> fields[f]]
    <3>1. CASE HasConfig(call.params) /\ IsFilter(fields) /\ ValidFilter(fields)
      <4>1. /\ solfees = Queued([type |-> "SolfeesSlots", filter |-> filter,
                                  frontend |-> "Solfees" = "SolfeesFrontend"])
            /\ frontend = Queued([type |-> "SolfeesSlots", filter |-> filter,
                                   frontend |-> "SolfeesFrontend" = "SolfeesFrontend"])
        BY <2>1, <3>1 DEF GetFilteredFees
      <4> HIDE DEF filter
      <4>2. /\ solfees.answer = "queued" /\ frontend.answer = "queued"
            /\ solfees.request.filter = filter /\ frontend.request.filter = filter
        BY <4>1 DEF Queued
      <4>3. QED
        BY <4>2
    <3>2. CASE ~(HasConfig(call.params) /\ IsFilter(fields) /\ ValidFilter(fields))
      <4>1. solfees = InvalidParams /\ frontend = InvalidParams
        BY <2>1, <3>2 DEF GetFilteredFees
      <4>2. solfees.answer = "failure" /\ frontend.answer = "failure"
        BY <4>1 DEF InvalidParams, Failure
      <4>3. QED
        BY <4>2
    <3>3. QED
      BY <3>1, <3>2
  <2> HIDE DEF solana, triton, solfees, frontend
  <2>4. QED
    BY <1>2, <2>2, <2>3 DEF Compatible, solana, triton, solfees, frontend
<1>3. CASE call.kind = "method" /\ call.method # "getRecentPrioritizationFees"
  <2>1. ~UsesExtension(call) => triton = solana
    <3> SUFFICES ASSUME ~UsesExtension(call) PROVE triton = solana
      OBVIOUS
    <3>1. CASE call.method = "getLatestBlockhash"
      <4>1. Shaped(call.params)
        BY <1>3, CallsAreShaped
      <4>2. GetLatestBlockhash("Triton", call.params) = GetLatestBlockhash("Solana", call.params)
        BY <1>3, <3>1, <4>1, SameBlockhash DEF UsesExtension
      <4>3. QED
        BY <1>3, <3>1, <4>2 DEF Dispatch
    <3>2. CASE call.method # "getLatestBlockhash"
      BY <1>3, <3>2 DEF Dispatch
    <3>3. QED
      BY <3>1, <3>2
  <2>2. solfees = triton
    <3>1. GetLatestBlockhash("Solfees", call.params) = GetLatestBlockhash("Triton", call.params)
      BY DEF GetLatestBlockhash
    <3>2. QED
      BY <1>3, <3>1 DEF Dispatch
  <2>3. frontend.answer = "failure"
    BY <1>3 DEF Dispatch, Failure
  <2> HIDE DEF solana, triton, solfees, frontend
  <2>4. QED
    BY <1>3, <2>1, <2>2, <2>3 DEF Compatible, solana, triton, solfees, frontend
<1>4. QED
  BY <1>1, <1>2, <1>3

-----------------------------------------------------------------------------
\* Position i comes before position j when the vector is sorted.
Before(fees, i, j) == fees[i] < fees[j] \/ (fees[i] = fees[j] /\ i <= j)

LEMMA RankIsMonotone ==
  ASSUME NEW n \in Nat, NEW fees \in [1 .. n -> Nat], NEW i \in 1 .. n, NEW j \in 1 .. n
  PROVE  /\ Rank(fees, i) \in 1 .. n
         /\ i # j /\ Before(fees, i, j) => Rank(fees, i) < Rank(fees, j)
<1> DEFINE upTo(k) == {l \in 1 .. n : Before(fees, l, k)}
<1>1. \A k \in 1 .. n : Rank(fees, k) = Cardinality(upTo(k))
  BY DEF Rank, Before
<1>2. IsFiniteSet(1 .. n) /\ Cardinality(1 .. n) = n
  BY FS_Interval
<1>3. ASSUME NEW k \in 1 .. n
      PROVE  /\ k \in upTo(k) /\ IsFiniteSet(upTo(k))
             /\ Cardinality(upTo(k)) \in Nat /\ Cardinality(upTo(k)) <= n
  <2>1. k \in upTo(k)
    BY DEF Before
  <2>2. upTo(k) \in SUBSET (1 .. n)
    OBVIOUS
  <2> HIDE DEF upTo
  <2>3. QED
    BY <1>2, <2>1, <2>2, FS_Subset, FS_CardinalityType
<1>4. Cardinality(upTo(i)) # 0
  <2> HIDE DEF upTo
  <2>1. QED
    BY <1>3, FS_EmptySet
<1>5. ASSUME i # j, Before(fees, i, j) PROVE Cardinality(upTo(i)) < Cardinality(upTo(j))
  <2>1. \A l \in 1 .. n : Before(fees, l, i) => Before(fees, l, j)
    BY <1>5 DEF Before
  <2>2. ~Before(fees, j, i)
    BY <1>5 DEF Before
  <2>3. upTo(i) \in SUBSET upTo(j) /\ upTo(i) # upTo(j)
    <3>1. upTo(i) \in SUBSET upTo(j)
      BY <2>1
    <3>2. j \notin upTo(i)
      BY <2>2
    <3>3. QED
      BY <1>3, <3>1, <3>2
  <2> HIDE DEF upTo
  <2>4. /\ IsFiniteSet(upTo(j)) /\ Cardinality(upTo(i)) \in Nat
        /\ Cardinality(upTo(j)) \in Nat
    BY <1>3
  <2>5. /\ Cardinality(upTo(i)) <= Cardinality(upTo(j))
        /\ Cardinality(upTo(i)) # Cardinality(upTo(j))
    BY <2>3, <2>4, FS_Subset
  <2>6. QED
    BY <2>4, <2>5
<1> HIDE DEF upTo
<1>6. QED
  BY <1>1, <1>3, <1>4, <1>5

(***************************************************************************)
(* The ranks are a permutation: no two positions share one, and by         *)
(* counting every rank is some position's.                                 *)
(***************************************************************************)
LEMMA RanksPermute ==
  ASSUME NEW n \in Nat, NEW fees \in [1 .. n -> Nat]
  PROVE  /\ \A i \in 1 .. n : Rank(fees, i) \in 1 .. n
         /\ \A i, j \in 1 .. n : Rank(fees, i) = Rank(fees, j) => i = j
         /\ \A k \in 1 .. n : \E i \in 1 .. n : Rank(fees, i) = k
<1> DEFINE rank == [i \in 1 .. n |-> Rank(fees, i)]
<1>1. rank \in [1 .. n -> 1 .. n] /\ \A i \in 1 .. n : rank[i] = Rank(fees, i)
  BY RankIsMonotone
<1>2. \A i, j \in 1 .. n : i # j => Before(fees, i, j) \/ Before(fees, j, i)
  BY DEF Before
<1>3. ASSUME NEW i \in 1 .. n, NEW j \in 1 .. n, i # j PROVE Rank(fees, i) # Rank(fees, j)
  <2>1. Rank(fees, i) \in 1 .. n /\ Rank(fees, j) \in 1 .. n
    BY RankIsMonotone
  <2>2. Rank(fees, i) < Rank(fees, j) \/ Rank(fees, j) < Rank(fees, i)
    BY <1>2, <1>3, RankIsMonotone
  <2>3. QED
    BY <2>1, <2>2
<1> HIDE DEF rank
<1>4. rank \in Injection(1 .. n, 1 .. n)
  BY <1>1, <1>3 DEF Injection, IsInjective
<1>5. IsFiniteSet(1 .. n)
  BY FS_Interval
<1>6. rank \in Surjection(1 .. n, 1 .. n)
  BY <1>4, <1>5, FS_Injection
<1>7. QED
  BY <1>1, <1>3, <1>6 DEF Surjection

(***************************************************************************)
(* The sorted vector is no longer or shorter, and it does not decrease.    *)
(***************************************************************************)
LEMMA SortedIsSorted ==
  ASSUME NEW B, B \subseteq Nat, NEW fees \in Seq(B)
  PROVE  /\ Sorted(fees) \in Seq(B) /\ Len(Sorted(fees)) = Len(fees)
         /\ \A i, j \in DOMAIN Sorted(fees) : i <= j => Sorted(fees)[i] <= Sorted(fees)[j]
<1> DEFINE n == Len(fees)
           position(k) == CHOOSE i \in DOMAIN fees : Rank(fees, i) = k
<1>1. n \in Nat /\ DOMAIN fees = 1 .. n /\ fees \in [1 .. n -> B] /\ fees \in [1 .. n -> Nat]
  <2>1. n \in Nat /\ DOMAIN fees = 1 .. n /\ fees \in [1 .. n -> B]
    OBVIOUS
  <2> HIDE DEF n
  <2>2. QED
    BY <2>1
<1> HIDE DEF n
<1>2. \A k \in 1 .. n : \E i \in 1 .. n : Rank(fees, i) = k
  BY <1>1, RanksPermute
<1>6. \A k \in 1 .. n : position(k) \in 1 .. n /\ Rank(fees, position(k)) = k
  BY <1>1, <1>2
<1>7. Sorted(fees) = [k \in 1 .. n |-> fees[position(k)]]
  BY <1>1 DEF Sorted
<1> HIDE DEF position
<1>8. Sorted(fees) \in Seq(B) /\ Len(Sorted(fees)) = n /\ DOMAIN Sorted(fees) = 1 .. n
  BY <1>1, <1>6, <1>7
<1>9. ASSUME NEW i \in 1 .. n, NEW j \in 1 .. n, i <= j
      PROVE  Sorted(fees)[i] <= Sorted(fees)[j]
  <2>1. /\ position(i) \in 1 .. n /\ position(j) \in 1 .. n
        /\ Rank(fees, position(i)) = i /\ Rank(fees, position(j)) = j
        /\ Sorted(fees)[i] = fees[position(i)] /\ Sorted(fees)[j] = fees[position(j)]
    BY <1>6, <1>7
  <2>2. fees[position(i)] \in Nat /\ fees[position(j)] \in Nat
    BY <1>1, <2>1
  <2>3. ASSUME fees[position(j)] < fees[position(i)] PROVE FALSE
    <3>1. Before(fees, position(j), position(i)) /\ position(i) # position(j)
      BY <2>2, <2>3 DEF Before
    <3>2. j < i
      BY <1>1, <2>1, <3>1, RankIsMonotone
    <3>3. QED
      BY <1>9, <3>2
  <2>4. QED
    BY <2>1, <2>2, <2>3
<1>10. QED
  BY <1>8, <1>9 DEF n

\* Sorting changes no count.
LEMMA SortedCounts ==
  ASSUME NEW fees \in Seq(Nat), NEW price \in Nat
  PROVE  Cardinality({k \in DOMAIN Sorted(fees) : Sorted(fees)[k] <= price})
           = Cardinality({i \in DOMAIN fees : fees[i] <= price})
<1> DEFINE n == Len(fees)
           position(k) == CHOOSE i \in DOMAIN fees : Rank(fees, i) = k
           from == {i \in 1 .. n : fees[i] <= price}
           to == {k \in 1 .. n : Sorted(fees)[k] <= price}
           rank == [i \in from |-> Rank(fees, i)]
<1>1. n \in Nat /\ DOMAIN fees = 1 .. n /\ fees \in [1 .. n -> Nat]
  OBVIOUS
<1> HIDE DEF n
<1>2. /\ \A i \in 1 .. n : Rank(fees, i) \in 1 .. n
      /\ \A i, j \in 1 .. n : Rank(fees, i) = Rank(fees, j) => i = j
      /\ \A k \in 1 .. n : \E i \in 1 .. n : Rank(fees, i) = k
  BY <1>1, RanksPermute
<1>3. \A k \in 1 .. n : position(k) \in 1 .. n /\ Rank(fees, position(k)) = k
  BY <1>1, <1>2
<1>4. Sorted(fees) = [k \in 1 .. n |-> fees[position(k)]]
  BY <1>1 DEF Sorted
<1> HIDE DEF position
<1>5. \A i \in 1 .. n : Sorted(fees)[Rank(fees, i)] = fees[i]
  <2> TAKE i \in 1 .. n
  <2>1. Rank(fees, i) \in 1 .. n
    BY <1>2
  <2>2. position(Rank(fees, i)) = i
    BY <1>2, <1>3, <2>1
  <2>3. QED
    BY <1>4, <2>1, <2>2
<1>6. rank \in Bijection(from, to)
  <2>1. rank \in [from -> to] /\ \A i \in from : rank[i] = Rank(fees, i)
    BY <1>2, <1>5
  <2> HIDE DEF rank
  <2>2. \A i, j \in from : rank[i] = rank[j] => i = j
    BY <1>2, <2>1
  <2>3. \A k \in to : \E i \in from : rank[i] = k
    <3> SUFFICES ASSUME NEW k \in to PROVE \E i \in from : rank[i] = k
      OBVIOUS
    <3>1. position(k) \in from /\ Rank(fees, position(k)) = k
      BY <1>3, <1>4
    <3>2. QED
      BY <2>1, <3>1
  <2> HIDE DEF from, to
  <2>4. QED
    BY <2>1, <2>2, <2>3 DEF Bijection, Injection, Surjection, IsInjective
<1>7. IsFiniteSet(from)
  <2>1. IsFiniteSet(1 .. n) /\ from \in SUBSET (1 .. n)
    BY <1>1, FS_Interval
  <2>2. QED
    BY <2>1, FS_Subset
<1>8. ExistsBijection(from, to)
  BY <1>6 DEF ExistsBijection
<1>9. Cardinality(from) = Cardinality(to)
  <2> HIDE DEF from, to
  <2>1. QED
    BY <1>7, <1>8, FS_Bijection
<1>10. DOMAIN Sorted(fees) = 1 .. n
  BY <1>4
<1>11. QED
  BY <1>1, <1>9, <1>10

-----------------------------------------------------------------------------
Prices == 0 .. U64_MAX
Converted == [vote : BOOLEAN, unit_price : Prices,
              accounts : [writable : SUBSET Pubkey, readable : SUBSET Pubkey]]

LEMMA PositionsAreTyped ==
  ASSUME transactions \in Seq(Converted), NEW i \in DOMAIN transactions
  PROVE  transactions[i] \in Converted /\ transactions[i].unit_price \in Prices
<1>1. transactions[i] \in Converted
  OBVIOUS
<1>2. QED
  BY <1>1 DEF Converted

\* prices are the unit prices at the positions in passing, in order: run is
\* the vector as the fold builds it.
Collects(passing, run, prices) ==
  /\ run \in [0 .. Len(transactions) -> Seq(Prices)]
  /\ run[0] = <<>>
  /\ \A i \in 1 .. Len(transactions) :
       run[i] = IF i \in passing THEN Append(run[i - 1], transactions[i].unit_price)
                ELSE run[i - 1]
  /\ prices = run[Len(transactions)]

\* Two folds over the same positions are the same.
LEMMA CollectsOnce ==
  ASSUME transactions \in Seq(Converted),
         NEW passing, NEW run1, NEW run2, NEW prices1, NEW prices2,
         Collects(passing, run1, prices1), Collects(passing, run2, prices2)
  PROVE  prices1 = prices2
<1> DEFINE n == Len(transactions)
           bad == {i \in 0 .. n : run1[i] # run2[i]}
<1>1. n \in Nat
  OBVIOUS
<1>2. bad = {}
  <2> SUFFICES ASSUME bad # {} PROVE FALSE
    OBVIOUS
  <2>1. PICK i \in bad : \A k \in bad : i <= k
    <3>1. bad \subseteq Nat
      OBVIOUS
    <3> HIDE DEF bad
    <3>2. QED
      BY <3>1, LeastNumber
  <2>2. i \in 0 .. n /\ run1[i] # run2[i]
    BY <2>1
  <2>3. i # 0
    BY <2>2 DEF Collects
  <2>4. i \in 1 .. n /\ i - 1 \in 0 .. n /\ ~(i <= i - 1)
    BY <1>1, <2>2, <2>3
  <2>5. run1[i - 1] = run2[i - 1]
    BY <2>1, <2>4
  <2>6. QED
    BY <2>2, <2>4, <2>5 DEF Collects
<1>3. n \in 0 .. n
  BY <1>1
<1>4. QED
  BY <1>2, <1>3 DEF Collects

\* The fold of UnitPrices, the test being one on positions.
Rounds(passing, g) ==
  g = [s \in SUBSET DOMAIN transactions |->
         IF s = {} THEN <<>>
         ELSE IF Max(s) \in passing
              THEN Append(g[s \ {Max(s)}], transactions[Max(s)].unit_price)
              ELSE g[s \ {Max(s)}]]

LEMMA RoundsExist ==
  ASSUME transactions \in Seq(Converted), NEW passing
  PROVE  \E g : Rounds(passing, g)
<1> DEFINE n == Len(transactions)
           B == Seq(Prices)
           op == [p \in (1 .. n) \X B |->
                    IF p[1] \in passing THEN Append(p[2], transactions[p[1]].unit_price) ELSE p[2]]
           last == [s \in SUBSET (1 .. n) |-> Max(s)]
<1>1. n \in Nat /\ DOMAIN transactions = 1 .. n /\ <<>> \in B
  OBVIOUS
<1>2. \A i \in 1 .. n : transactions[i].unit_price \in Prices
  BY <1>1, PositionsAreTyped
<1> HIDE DEF n
<1>3. op \in [(1 .. n) \X B -> B]
  <2>1. \A i \in 1 .. n, b \in B : Append(b, transactions[i].unit_price) \in B
    BY <1>2
  <2> HIDE DEF B
  <2>2. QED
    BY <2>1
<1>4. \A i \in 1 .. n, b \in B :
        op[<<i, b>>] = IF i \in passing THEN Append(b, transactions[i].unit_price) ELSE b
  OBVIOUS
<1> HIDE DEF op, B
<1>5. PICK g : IsFold(g, 1 .. n, B, <<>>, last, op)
  BY <1>1, <1>3, LeftFoldExists
<1>6. ASSUME NEW s \in SUBSET (1 .. n)
      PROVE  g[s] = IF s = {} THEN <<>>
                    ELSE IF Max(s) \in passing
                         THEN Append(g[s \ {Max(s)}], transactions[Max(s)].unit_price)
                         ELSE g[s \ {Max(s)}]
  <2>1. last[s] = Max(s)
    OBVIOUS
  <2> HIDE DEF last
  <2>2. s # {} => Max(s) \in 1 .. n /\ g[s \ {Max(s)}] \in B
    BY <1>1, <1>5, LastPosition DEF IsFold
  <2>3. g[s] = IF s = {} THEN <<>> ELSE op[<<Max(s), g[s \ {Max(s)}]>>]
    BY <1>5, <2>1 DEF IsFold
  <2>4. QED
    BY <1>4, <2>2, <2>3
<1>7. Rounds(passing, g)
  BY <1>1, <1>5, <1>6 DEF IsFold, Rounds
<1>8. QED
  BY <1>7

LEMMA RoundsCollect ==
  ASSUME transactions \in Seq(Converted), NEW passing, NEW g, Rounds(passing, g)
  PROVE  \E run : Collects(passing, run, g[DOMAIN transactions])
<1> DEFINE n == Len(transactions)
           run == [i \in 0 .. n |-> g[1 .. i]]
<1>1. n \in Nat /\ DOMAIN transactions = 1 .. n
  OBVIOUS
<1>2. \A i \in 1 .. n : transactions[i].unit_price \in Prices
  BY <1>1, PositionsAreTyped
<1> HIDE DEF n
<1>3. run[0] = <<>>
  <2>1. 1 .. 0 = {} /\ {} \in SUBSET (1 .. n) /\ 0 \in 0 .. n
    BY <1>1
  <2>2. QED
    BY <1>1, <2>1 DEF Rounds
<1>4. ASSUME NEW i \in 1 .. n
      PROVE  run[i] = IF i \in passing THEN Append(run[i - 1], transactions[i].unit_price)
                      ELSE run[i - 1]
  <2>1. /\ i \in Nat /\ i # 0 /\ 1 .. i \in SUBSET (1 .. n) /\ i \in 1 .. i
        /\ i \in 0 .. n /\ i - 1 \in 0 .. n
    BY <1>1
  <2>2. Max(1 .. i) = i /\ (1 .. i) \ {i} = 1 .. i - 1
    BY <2>1, LastPosition
  <2>3. run[i] = g[1 .. i] /\ run[i - 1] = g[1 .. i - 1]
    BY <2>1
  <2> HIDE DEF run
  <2>4. \A s \in SUBSET (1 .. n) : s # {} =>
          g[s] = IF Max(s) \in passing
                 THEN Append(g[s \ {Max(s)}], transactions[Max(s)].unit_price)
                 ELSE g[s \ {Max(s)}]
    BY <1>1 DEF Rounds
  <2>5. 1 .. i # {}
    BY <2>1
  <2>6. g[1 .. i] = IF i \in passing
                    THEN Append(g[1 .. i - 1], transactions[i].unit_price)
                    ELSE g[1 .. i - 1]
    BY <2>1, <2>2, <2>4, <2>5
  <2>7. QED
    BY <2>3, <2>6
<1>5. run = [i \in 0 .. n |-> run[i]] /\ g[DOMAIN transactions] = run[n]
  BY <1>1
<1> HIDE DEF run
<1> DEFINE bad == {i \in 0 .. n : run[i] \notin Seq(Prices)}
<1>6. bad = {}
  <2> SUFFICES ASSUME bad # {} PROVE FALSE
    OBVIOUS
  <2>1. PICK i \in bad : \A k \in bad : i <= k
    <3>1. bad \subseteq Nat
      OBVIOUS
    <3> HIDE DEF bad
    <3>2. QED
      BY <3>1, LeastNumber
  <2>2. i \in 0 .. n /\ run[i] \notin Seq(Prices)
    BY <2>1
  <2>3. i # 0
    <3>1. <<>> \in Seq(Prices)
      OBVIOUS
    <3>2. QED
      BY <1>3, <2>2, <3>1
  <2>4. i \in 1 .. n /\ i - 1 \in 0 .. n /\ ~(i <= i - 1)
    BY <1>1, <2>2, <2>3
  <2>5. run[i - 1] \in Seq(Prices) /\ transactions[i].unit_price \in Prices
    BY <1>2, <2>1, <2>4
  <2>6. Append(run[i - 1], transactions[i].unit_price) \in Seq(Prices)
    BY <2>5
  <2> HIDE DEF bad
  <2>7. QED
    BY <1>4, <2>2, <2>4, <2>5, <2>6
<1>7. Collects(passing, run, g[DOMAIN transactions])
  BY <1>3, <1>4, <1>5, <1>6 DEF Collects, n
<1>8. QED
  BY <1>7

WriterPrices(account) == UnitPrices(LAMBDA tx : ~tx.vote /\ account \in tx.accounts.writable)

LEMMA LastIsPosition ==
  ASSUME transactions \in Seq(Converted)
  PROVE  \A s \in SUBSET DOMAIN transactions : s # {} => Max(s) \in DOMAIN transactions
<1>1. Len(transactions) \in Nat /\ DOMAIN transactions = 1 .. Len(transactions)
  OBVIOUS
<1>2. QED
  BY <1>1, LastPosition

LEMMA AllFeesCollect ==
  ASSUME transactions \in Seq(Converted)
  PROVE  \E run : Collects(NotVotes, run, UnitPrices(LAMBDA tx : ~tx.vote))
<1> DEFINE Fold(g) == g = [s \in SUBSET DOMAIN transactions |->
                             IF s = {} THEN <<>>
                             ELSE IF ~transactions[Max(s)].vote
                                  THEN Append(g[s \ {Max(s)}], transactions[Max(s)].unit_price)
                                  ELSE g[s \ {Max(s)}]]
           iter == CHOOSE g : Fold(g)
<1>1. UnitPrices(LAMBDA tx : ~tx.vote) = iter[DOMAIN transactions]
  BY DEF UnitPrices, FoldLeft, MapThenFoldSet
<1>2. \A g : Rounds(NotVotes, g) <=> Fold(g)
  <2>1. \A s \in SUBSET DOMAIN transactions :
          s # {} => (Max(s) \in NotVotes <=> ~transactions[Max(s)].vote)
    BY LastIsPosition DEF NotVotes
  <2>2. QED
    BY <2>1 DEF Rounds
<1>3. \E g : Fold(g)
  BY <1>2, RoundsExist
<1> HIDE DEF Fold
<1>4. Rounds(NotVotes, iter)
  BY <1>2, <1>3
<1>5. QED
  BY <1>1, <1>4, RoundsCollect

LEMMA WriterFeesCollect ==
  ASSUME transactions \in Seq(Converted), NEW account
  PROVE  \E run : Collects(Writers(account), run, WriterPrices(account))
<1> DEFINE Fold(g) == g = [s \in SUBSET DOMAIN transactions |->
                             IF s = {} THEN <<>>
                             ELSE IF ~transactions[Max(s)].vote
                                     /\ account \in transactions[Max(s)].accounts.writable
                                  THEN Append(g[s \ {Max(s)}], transactions[Max(s)].unit_price)
                                  ELSE g[s \ {Max(s)}]]
           iter == CHOOSE g : Fold(g)
<1>1. WriterPrices(account) = iter[DOMAIN transactions]
  BY DEF WriterPrices, UnitPrices, FoldLeft, MapThenFoldSet
<1>2. \A g : Rounds(Writers(account), g) <=> Fold(g)
  <2>1. \A s \in SUBSET DOMAIN transactions :
          s # {} => (Max(s) \in Writers(account) <=>
                       /\ ~transactions[Max(s)].vote
                       /\ account \in transactions[Max(s)].accounts.writable)
    BY LastIsPosition DEF Writers, NotVotes
  <2>2. QED
    BY <2>1 DEF Rounds
<1>3. \E g : Fold(g)
  BY <1>2, RoundsExist
<1> HIDE DEF Fold
<1>4. Rounds(Writers(account), iter)
  BY <1>2, <1>3
<1>5. QED
  BY <1>1, <1>4, RoundsCollect

LEMMA CollectedFees ==
  ASSUME transactions \in Seq(Converted), NEW passing, NEW prices,
         \E run : Collects(passing, run, prices)
  PROVE  prices \in Seq(Prices)
<1>1. Len(transactions) \in 0 .. Len(transactions)
  OBVIOUS
<1>2. QED
  BY <1>1 DEF Collects

-----------------------------------------------------------------------------
(***************************************************************************)
(* Every percentile of every block is a quantile of its fees, whatever the *)
(* prices and however many (rpc_solana.rs:1018-1029).                      *)
(***************************************************************************)
LEMMA PercentilesAreQuantiles ==
  ASSUME transactions \in Seq(Converted)
  PROVE  PercentileIsQuantile
<1>1. transaction_fees \in Seq(Nat)
      /\ \A i, j \in DOMAIN transaction_fees :
           i <= j => transaction_fees[i] <= transaction_fees[j]
  <2> DEFINE prices == UnitPrices(LAMBDA tx : ~tx.vote)
  <2>1. prices \in Seq(Prices)
    BY AllFeesCollect, CollectedFees
  <2>2. Prices \subseteq Nat
    BY TransactionAssumption DEF Prices
  <2>3. transaction_fees = Sorted(prices)
    BY DEF transaction_fees
  <2> HIDE DEF prices
  <2>4. transaction_fees \in Seq(Prices)
        /\ \A i, j \in DOMAIN transaction_fees :
             i <= j => transaction_fees[i] <= transaction_fees[j]
    BY <2>1, <2>2, <2>3, SortedIsSorted
  <2>5. transaction_fees \in Seq(Nat)
    <3> DEFINE n == Len(transaction_fees)
    <3>1. n \in Nat /\ transaction_fees \in [1 .. n -> Prices]
      BY <2>4
    <3> HIDE DEF n
    <3>2. transaction_fees \in [1 .. n -> Nat]
      BY <2>2, <3>1
    <3>3. QED
      BY <3>1, <3>2
  <2>6. QED
    BY <2>4, <2>5
<1> SUFFICES ASSUME transaction_fees # <<>>
             PROVE  \A percentile \in 0 .. Basis :
                      LET fee == GetPercentile(transaction_fees, percentile)
                      IN  /\ fee # NoFee
                          /\ percentile < Basis => Splits(transaction_fees, percentile, fee)
  BY DEF PercentileIsQuantile
<1> DEFINE fees == transaction_fees
<1>2. ASSUME NEW percentile \in 0 .. Basis - 1
      PROVE  GetPercentile(fees, percentile) # NoFee
             /\ Splits(fees, percentile, GetPercentile(fees, percentile))
  <2> HIDE DEF fees
  <2>1. fees \in Seq(Nat) /\ fees # <<>> /\ \A i, j \in DOMAIN fees : i <= j => fees[i] <= fees[j]
    BY <1>1 DEF fees
  <2>2. GetPercentile(fees, percentile) \in Nat
        /\ Splits(fees, percentile, GetPercentile(fees, percentile))
    BY <2>1, PercentileSplits
  <2>3. QED
    BY <2>2, FeesAssumption
<1>3. Index(fees, Basis) = Index(fees, Basis - 1)
  <2>1. Basis \in Nat /\ ~(Basis < Basis) /\ Basis - 1 < Basis
    BY FeesAssumption
  <2>2. QED
    BY <2>1 DEF Index
<1>4. GetPercentile(fees, Basis) = GetPercentile(fees, Basis - 1)
  BY <1>3 DEF GetPercentile
<1>5. GetPercentile(fees, Basis) # NoFee
  <2>1. Basis - 1 \in 0 .. Basis - 1
    BY FeesAssumption
  <2> HIDE DEF fees
  <2>2. QED
    BY <1>2, <1>4, <2>1
<1>6. ~(Basis < Basis) /\ \A percentile \in 0 .. Basis :
        percentile = Basis \/ percentile \in 0 .. Basis - 1
  BY FeesAssumption
<1> HIDE DEF fees
<1>7. QED
  BY <1>2, <1>5, <1>6 DEF fees

-----------------------------------------------------------------------------
\* How a vector grows, as far as counting goes.
LEMMA AppendCounts ==
  ASSUME NEW s \in Seq(Nat), NEW x \in Nat, NEW price \in Nat
  PROVE  Cardinality({k \in DOMAIN Append(s, x) : Append(s, x)[k] <= price})
           = Cardinality({k \in DOMAIN s : s[k] <= price}) + (IF x <= price THEN 1 ELSE 0)
<1> DEFINE Cheap(v) == {k \in DOMAIN v : v[k] <= price}
           n == Len(s)
<1>1. /\ n \in Nat /\ DOMAIN s = 1 .. n /\ DOMAIN Append(s, x) = 1 .. n + 1
      /\ Append(s, x)[n + 1] = x
      /\ \A k \in 1 .. n : Append(s, x)[k] = s[k]
      /\ \A k \in 1 .. n + 1 : k = n + 1 \/ k \in 1 .. n
      /\ n + 1 \notin 1 .. n
  OBVIOUS
<1> HIDE DEF n
<1>2. IsFiniteSet(Cheap(s)) /\ Cardinality(Cheap(s)) \in Nat
  <2>1. IsFiniteSet(1 .. n) /\ Cheap(s) \in SUBSET (1 .. n)
    BY <1>1, FS_Interval
  <2>2. IsFiniteSet(Cheap(s))
    BY <2>1, FS_Subset
  <2>3. QED
    BY <2>2, FS_CardinalityType
<1>3. CASE x <= price
  <2>1. Cheap(Append(s, x)) = Cheap(s) \cup {n + 1} /\ n + 1 \notin Cheap(s)
    BY <1>1, <1>3
  <2> HIDE DEF Cheap
  <2>2. Cardinality(Cheap(s) \cup {n + 1}) = Cardinality(Cheap(s)) + 1
    BY <1>2, <2>1, FS_AddElement
  <2>3. Cardinality(Cheap(Append(s, x))) = Cardinality(Cheap(s)) + 1
    BY <2>1, <2>2
  <2>4. QED
    BY ONLY <1>3, <2>3 DEF Cheap
<1>4. CASE ~(x <= price)
  <2>1. Cheap(Append(s, x)) = Cheap(s)
    BY <1>1, <1>4
  <2> HIDE DEF Cheap
  <2>2. Cardinality(Cheap(Append(s, x))) = Cardinality(Cheap(s)) + 0
    BY <1>2, <2>1
  <2>3. QED
    BY ONLY <1>4, <2>2 DEF Cheap
<1>5. QED
  BY <1>3, <1>4

(***************************************************************************)
(* Collecting the prices of some transactions loses none and adds none: as *)
(* many of the prices as of the transactions are at most "price".          *)
(***************************************************************************)
LEMMA CollectedCounts ==
  ASSUME transactions \in Seq(Converted), NEW passing \in SUBSET DOMAIN transactions,
         NEW run, NEW prices, Collects(passing, run, prices), NEW price \in Nat
  PROVE  Cardinality({k \in DOMAIN prices : prices[k] <= price})
           = Cardinality({i \in passing : transactions[i].unit_price <= price})
<1> DEFINE n == Len(transactions)
           Cheap(v) == {k \in DOMAIN v : v[k] <= price}
           Upto(i) == {j \in passing : j <= i /\ transactions[j].unit_price <= price}
           bad == {i \in 0 .. n : Cardinality(Cheap(run[i])) # Cardinality(Upto(i))}
<1>1. n \in Nat /\ DOMAIN transactions = 1 .. n /\ passing \subseteq 1 .. n
  OBVIOUS
<1>2. \A i \in 1 .. n : transactions[i].unit_price \in Nat
  BY <1>1, PositionsAreTyped, TransactionAssumption DEF Prices
<1> HIDE DEF n
<1>3. /\ run[0] = <<>> /\ prices = run[n]
      /\ \A i \in 0 .. n : run[i] \in Seq(Nat)
      /\ \A i \in 1 .. n : run[i] = IF i \in passing
                                    THEN Append(run[i - 1], transactions[i].unit_price)
                                    ELSE run[i - 1]
  <2>1. /\ run \in [0 .. n -> Seq(Prices)]
        /\ run[0] = <<>> /\ prices = run[n]
        /\ \A i \in 1 .. n : run[i] = IF i \in passing
                                      THEN Append(run[i - 1], transactions[i].unit_price)
                                      ELSE run[i - 1]
    BY DEF Collects, n
  <2>2. Prices \subseteq Nat
    BY TransactionAssumption DEF Prices
  <2>3. ASSUME NEW i \in 0 .. n PROVE run[i] \in Seq(Nat)
    <3> DEFINE v == run[i]
    <3>1. v \in Seq(Prices)
      BY <2>1
    <3> HIDE DEF v
    <3>2. Len(v) \in Nat /\ v \in [1 .. Len(v) -> Prices]
      BY <3>1
    <3>3. v \in [1 .. Len(v) -> Nat]
      BY <2>2, <3>2
    <3>4. v \in Seq(Nat)
      BY <3>2, <3>3
    <3>5. QED
      BY <3>4 DEF v
  <2>4. QED
    BY <2>1, <2>3
<1>4. bad = {}
  <2> SUFFICES ASSUME bad # {} PROVE FALSE
    OBVIOUS
  <2>1. PICK i \in bad : \A k \in bad : i <= k
    <3>1. bad \subseteq Nat
      OBVIOUS
    <3> HIDE DEF bad
    <3>2. QED
      BY <3>1, LeastNumber
  <2>2. i \in 0 .. n /\ Cardinality(Cheap(run[i])) # Cardinality(Upto(i))
    BY <2>1
  <2>3. i # 0
    <3>1. Cheap(run[0]) = {} /\ Upto(0) = {}
      BY <1>1, <1>3
    <3> HIDE DEF Cheap, Upto
    <3>2. QED
      BY <2>2, <3>1
  <2>4. i \in 1 .. n /\ i - 1 \in 0 .. n /\ ~(i <= i - 1)
    BY <1>1, <2>2, <2>3
  <2>5. Cardinality(Cheap(run[i - 1])) = Cardinality(Upto(i - 1))
    BY <2>1, <2>4
  <2>6. IsFiniteSet(Upto(i - 1)) /\ Cardinality(Upto(i - 1)) \in Nat
    <3>1. IsFiniteSet(1 .. n) /\ Upto(i - 1) \in SUBSET (1 .. n)
      BY <1>1, FS_Interval
    <3> HIDE DEF Upto
    <3>2. QED
      BY <3>1, FS_Subset, FS_CardinalityType
  <2>7. transactions[i].unit_price \in Nat /\ run[i - 1] \in Seq(Nat)
    BY <1>2, <1>3, <2>4
  <2>8. \A j \in 1 .. n : j <= i <=> j <= i - 1 \/ j = i
    BY <1>1, <2>4
  <2> HIDE DEF bad
  <2>9. CASE i \in passing /\ transactions[i].unit_price <= price
    <3>1. Upto(i) = Upto(i - 1) \cup {i} /\ i \notin Upto(i - 1)
      BY <1>1, <2>4, <2>8, <2>9
    <3>2. run[i] = Append(run[i - 1], transactions[i].unit_price)
      BY <1>3, <2>4, <2>9
    <3> HIDE DEF Upto
    <3>3. Cardinality(Upto(i)) = Cardinality(Upto(i - 1)) + 1
      BY <2>6, <3>1, FS_AddElement
    <3>4. Cardinality(Cheap(run[i])) = Cardinality(Cheap(run[i - 1])) + 1
      <4> DEFINE v == run[i - 1]
                 x == transactions[i].unit_price
      <4> HIDE DEF v, x
      <4>1. v \in Seq(Nat) /\ x \in Nat
        BY <2>7 DEF v, x
      <4>2. Cardinality(Cheap(Append(v, x))) = Cardinality(Cheap(v)) + (IF x <= price THEN 1 ELSE 0)
        BY <4>1, AppendCounts
      <4> HIDE DEF Cheap
      <4>3. Cardinality(Cheap(Append(v, x))) = Cardinality(Cheap(v)) + 1
        BY <2>9, <4>2 DEF x
      <4>4. QED
        BY <3>2, <4>3 DEF v, x
    <3>5. QED
      BY <2>2, <2>5, <3>3, <3>4
  <2>10. CASE i \in passing /\ ~(transactions[i].unit_price <= price)
    <3>1. Upto(i) = Upto(i - 1)
      BY <1>1, <2>8, <2>10
    <3>2. run[i] = Append(run[i - 1], transactions[i].unit_price)
      BY <1>3, <2>4, <2>10
    <3> HIDE DEF Upto
    <3>3. Cardinality(Cheap(run[i])) = Cardinality(Cheap(run[i - 1])) + 0
      <4> DEFINE v == run[i - 1]
                 x == transactions[i].unit_price
      <4> HIDE DEF v, x
      <4>1. v \in Seq(Nat) /\ x \in Nat
        BY <2>7 DEF v, x
      <4>2. Cardinality(Cheap(Append(v, x))) = Cardinality(Cheap(v)) + (IF x <= price THEN 1 ELSE 0)
        BY <4>1, AppendCounts
      <4> HIDE DEF Cheap
      <4>3. Cardinality(Cheap(Append(v, x))) = Cardinality(Cheap(v)) + 0
        BY <2>10, <4>2 DEF x
      <4>4. QED
        BY <3>2, <4>3 DEF v, x
    <3>4. QED
      BY <2>2, <2>5, <2>6, <3>1, <3>3
  <2>11. CASE i \notin passing
    <3>1. Upto(i) = Upto(i - 1)
      BY <1>1, <2>8, <2>11
    <3>2. run[i] = run[i - 1]
      BY <1>3, <2>4, <2>11
    <3>3. QED
      BY <2>2, <2>5, <3>1, <3>2
  <2>12. QED
    BY <2>9, <2>10, <2>11
<1>5. n \in 0 .. n
  BY <1>1
<1>6. Cardinality(Cheap(run[n])) = Cardinality(Upto(n))
  BY <1>4, <1>5
<1>7. Upto(n) = {i \in passing : transactions[i].unit_price <= price}
  BY <1>1
<1>8. QED
  BY <1>3, <1>6, <1>7

-----------------------------------------------------------------------------
LEMMA PositionsAreFinite ==
  ASSUME NEW s \in Seq(Converted), NEW positions \in SUBSET DOMAIN s
  PROVE  IsFiniteSet(positions)
<1> DEFINE n == Len(s)
<1>1. n \in Nat /\ positions \in SUBSET (1 .. n)
  OBVIOUS
<1> HIDE DEF n
<1>2. IsFiniteSet(1 .. n)
  BY <1>1, FS_Interval
<1>3. QED
  BY <1>1, <1>2, FS_Subset

\* A higher price outbids whoever a lower one outbids.
LEMMA OutbidsMore ==
  ASSUME transactions \in Seq(Converted), NEW competitors \in SUBSET DOMAIN transactions,
         NEW level \in 0 .. Basis - 1, NEW low \in Nat, NEW high \in Nat, low <= high,
         Outbids(low, competitors, level)
  PROVE  Outbids(high, competitors, level)
<1> DEFINE Cheap(price) == {i \in competitors : transactions[i].unit_price <= price}
<1> SUFFICES ASSUME competitors # {}
             PROVE  level * Cardinality(competitors) < Basis * Cardinality(Cheap(high))
  BY DEF Outbids
<1>2. IsFiniteSet(competitors)
  BY PositionsAreFinite
<1>3. Cheap(low) \in SUBSET Cheap(high)
  <2>1. \A i \in competitors : transactions[i].unit_price \in Nat
    BY PositionsAreTyped, TransactionAssumption DEF Prices
  <2>2. QED
    BY <2>1
<1>4. /\ IsFiniteSet(Cheap(low)) /\ IsFiniteSet(Cheap(high))
      /\ Cardinality(Cheap(low)) \in Nat /\ Cardinality(Cheap(high)) \in Nat
      /\ Cardinality(competitors) \in Nat
  <2>1. Cheap(low) \in SUBSET competitors /\ Cheap(high) \in SUBSET competitors
    OBVIOUS
  <2> HIDE DEF Cheap
  <2>2. QED
    BY <1>2, <2>1, FS_Subset, FS_CardinalityType
<1>5. level * Cardinality(competitors) < Basis * Cardinality(Cheap(low))
  BY DEF Outbids
<1> HIDE DEF Cheap
<1>6. Cardinality(Cheap(low)) <= Cardinality(Cheap(high))
  BY <1>3, <1>4, FS_Subset
<1>7. Basis \in Nat /\ level \in Nat
  BY FeesAssumption
<1>8. /\ Cardinality(Cheap(low)) * Basis <= Cardinality(Cheap(high)) * Basis
      /\ Cardinality(Cheap(low)) * Basis = Basis * Cardinality(Cheap(low))
      /\ Cardinality(Cheap(high)) * Basis = Basis * Cardinality(Cheap(high))
  BY <1>4, <1>6, <1>7, ProductsGrow
<1>9. /\ Basis * Cardinality(Cheap(low)) \in Nat /\ Basis * Cardinality(Cheap(high)) \in Nat
      /\ level * Cardinality(competitors) \in Nat
  BY <1>4, <1>7
<1>10. QED
  BY <1>5, <1>8, <1>9

(***************************************************************************)
(* The percentile of the sorted prices of some transactions is the lowest  *)
(* price that outbids them.                                                *)
(***************************************************************************)
LEMMA PercentileOutbids ==
  ASSUME transactions \in Seq(Converted), NEW competitors \in SUBSET DOMAIN transactions,
         NEW prices, \E run : Collects(competitors, run, prices),
         NEW level \in 0 .. Basis - 1
  PROVE  LET fee == GetPercentile(Sorted(prices), level)
         IN  /\ competitors = {} => fee = NoFee
             /\ competitors # {} =>
                  /\ fee \in Nat /\ fee <= U64_MAX
                  /\ Outbids(fee, competitors, level)
                  /\ \A price \in 0 .. fee - 1 : ~Outbids(price, competitors, level)
<1> DEFINE fees == Sorted(prices)
           fee == GetPercentile(fees, level)
           Cheap(price) == {i \in competitors : transactions[i].unit_price <= price}
<1>1. PICK run : Collects(competitors, run, prices)
  OBVIOUS
<1>2. U64_MAX \in Nat /\ Prices \subseteq Nat /\ Basis \in Nat \ {0} /\ level \in Nat
  BY TransactionAssumption, FeesAssumption DEF Prices
<1>3. prices \in Seq(Prices) /\ prices \in Seq(Nat)
  <2>1. prices \in Seq(Prices)
    BY CollectedFees
  <2>2. Len(prices) \in Nat /\ prices \in [1 .. Len(prices) -> Prices]
    BY <2>1
  <2>3. prices \in [1 .. Len(prices) -> Nat]
    BY <1>2, <2>2
  <2>4. QED
    BY <2>1, <2>2, <2>3
<1>4. /\ fees \in Seq(Prices) /\ Len(fees) = Len(prices)
      /\ \A i, j \in DOMAIN fees : i <= j => fees[i] <= fees[j]
  BY <1>2, <1>3, SortedIsSorted
<1> HIDE DEF fees
<1>5. /\ fees \in Seq(Nat) /\ Len(fees) \in Nat /\ DOMAIN fees = 1 .. Len(fees)
      /\ \A i \in DOMAIN fees : fees[i] \in Nat /\ fees[i] <= U64_MAX
  <2>1. Len(fees) \in Nat /\ fees \in [1 .. Len(fees) -> Prices]
    BY <1>4
  <2>2. fees \in [1 .. Len(fees) -> Nat]
    BY <1>2, <2>1
  <2>3. QED
    BY <1>2, <2>1, <2>2 DEF Prices
<1>6. ASSUME NEW price \in Nat
      PROVE  Cardinality({k \in DOMAIN fees : fees[k] <= price}) = Cardinality(Cheap(price))
  <2>1. Cardinality({k \in DOMAIN fees : fees[k] <= price})
          = Cardinality({k \in DOMAIN prices : prices[k] <= price})
    BY <1>3, SortedCounts DEF fees
  <2>2. Cardinality({k \in DOMAIN prices : prices[k] <= price}) = Cardinality(Cheap(price))
    BY <1>1, CollectedCounts
  <2>3. QED
    BY <2>1, <2>2
<1>7. Len(fees) = Cardinality(competitors)
  <2>1. {k \in DOMAIN fees : fees[k] <= U64_MAX} = 1 .. Len(fees)
    BY <1>5
  <2>2. Cheap(U64_MAX) = competitors
    BY PositionsAreTyped DEF Prices
  <2>3. Cardinality(1 .. Len(fees)) = Len(fees)
    <3> DEFINE n == Len(fees)
    <3>1. n \in Nat
      BY <1>5
    <3> HIDE DEF n
    <3>2. Cardinality(1 .. n) = n
      BY <3>1, FS_Interval
    <3>3. QED
      BY <3>2 DEF n
  <2> HIDE DEF Cheap
  <2>4. QED
    BY <1>2, <1>6, <2>1, <2>2, <2>3
<1>8. IsFiniteSet(competitors)
  BY PositionsAreFinite
<1>9. competitors = {} => fee = NoFee
  <2> SUFFICES ASSUME competitors = {} PROVE fee = NoFee
    OBVIOUS
  <2>1. Len(fees) = 0
    BY <1>7, FS_EmptySet
  <2>2. Index(fees, level) = 0
    <3>1. Index(fees, level) = ((IF level < Basis THEN level ELSE Basis - 1) * 0) \div Basis
      BY <2>1 DEF Index
    <3>2. (IF level < Basis THEN level ELSE Basis - 1) * 0 = 0
      BY <1>2
    <3>3. 0 \div Basis = 0
      BY <1>2
    <3>4. QED
      BY <3>1, <3>2, <3>3
  <2>3. QED
    BY <2>1, <2>2 DEF GetPercentile
<1>10. ASSUME competitors # {}
       PROVE  /\ fee \in Nat /\ fee <= U64_MAX
              /\ Outbids(fee, competitors, level)
              /\ \A price \in 0 .. fee - 1 : ~Outbids(price, competitors, level)
  <2>1. fees # <<>>
    <3>1. Cardinality(competitors) # 0
      BY <1>8, <1>10, FS_EmptySet
    <3>2. QED
      BY <1>5, <1>7, <3>1
  <2>2. fee \in Nat /\ Splits(fees, level, fee)
    BY <1>4, <1>5, <2>1, PercentileSplits
  <2>3. /\ Cardinality({i \in DOMAIN fees : fees[i] < fee}) * Basis
             <= level * Cardinality(competitors)
        /\ level * Cardinality(competitors) < Cardinality(Cheap(fee)) * Basis
    <3> HIDE DEF fee, Cheap
    <3>1. QED
      BY <1>6, <1>7, <2>2 DEF Splits
  <2>4. fee <= U64_MAX
    <3>1. fee # NoFee
      BY <2>2, FeesAssumption
    <3>2. Index(fees, level) < Len(fees) /\ fee = fees[Index(fees, level) + 1]
      BY <3>1 DEF GetPercentile
    <3>3. Index(fees, level) \in Nat
      <4>1. Index(fees, level) = (level * Len(fees)) \div Basis
        <5>1. level < Basis
          BY <1>2
        <5>2. QED
          BY <5>1 DEF Index
      <4>2. level * Len(fees) \in Nat
        BY <1>2, <1>5
      <4>3. QED
        BY <1>2, <4>1, <4>2, Quotient
    <3>4. Index(fees, level) + 1 \in DOMAIN fees
      BY <1>5, <3>2, <3>3
    <3>5. QED
      BY <1>5, <3>2, <3>4
  <2>5. \A price : IsFiniteSet(Cheap(price)) /\ Cardinality(Cheap(price)) \in Nat
    <3> TAKE price
    <3>1. Cheap(price) \in SUBSET competitors
      OBVIOUS
    <3> HIDE DEF Cheap
    <3>2. QED
      BY <1>8, <3>1, FS_Subset, FS_CardinalityType
  <2>6. \A price : Cardinality(Cheap(price)) * Basis = Basis * Cardinality(Cheap(price))
    <3> TAKE price
    <3>1. Cardinality(Cheap(price)) \in Nat
      BY <2>5
    <3> HIDE DEF Cheap
    <3>2. QED
      BY <1>2, <3>1
  <2>7. Outbids(fee, competitors, level)
    <3> HIDE DEF fee
    <3>1. QED
      BY <2>3, <2>6 DEF Outbids
  <2>8. ASSUME NEW price \in 0 .. fee - 1
        PROVE  ~Outbids(price, competitors, level)
    <3> HIDE DEF fee
    <3> DEFINE below == {i \in DOMAIN fees : fees[i] < fee}
               upTo == {k \in DOMAIN fees : fees[k] <= price}
    <3>1. price \in Nat /\ price < fee
      BY <2>2
    <3>2. upTo \in SUBSET below /\ below \in SUBSET (1 .. Len(fees))
      BY <1>5, <2>2, <3>1
    <3>3. IsFiniteSet(below)
      <4> DEFINE n == Len(fees)
      <4>1. n \in Nat /\ below \in SUBSET (1 .. n)
        BY <1>5, <3>2
      <4> HIDE DEF n, below
      <4>2. IsFiniteSet(1 .. n)
        BY <4>1, FS_Interval
      <4>3. QED
        BY <4>1, <4>2, FS_Subset
    <3>4. /\ Cardinality(upTo) <= Cardinality(below)
          /\ Cardinality(upTo) \in Nat /\ Cardinality(below) \in Nat
      <4> HIDE DEF below, upTo
      <4>1. QED
        BY <3>2, <3>3, FS_Subset, FS_CardinalityType
    <3>5. Cardinality(upTo) = Cardinality(Cheap(price))
      BY <1>6, <3>1
    <3>6. Cardinality(below) * Basis <= level * Cardinality(competitors)
      BY <2>3
    <3> HIDE DEF below, upTo
    <3>7. Cardinality(upTo) * Basis <= Cardinality(below) * Basis
      BY <1>2, <3>4, ProductsGrow
    <3>8. /\ Cardinality(upTo) * Basis \in Nat /\ Cardinality(below) * Basis \in Nat
          /\ level * Cardinality(competitors) \in Nat
      BY <1>2, <1>5, <1>7, <3>4
    <3>9. ~(level * Cardinality(competitors) < Cardinality(upTo) * Basis)
      BY <3>6, <3>7, <3>8
    <3>10. ~(level * Cardinality(competitors) < Basis * Cardinality(Cheap(price)))
      <4> HIDE DEF Cheap
      <4>1. QED
        BY <2>6, <3>5, <3>9
    <3>11. QED
      BY <1>10, <3>10 DEF Outbids
  <2>9. QED
    BY <2>2, <2>4, <2>7, <2>8
<1>11. QED
  BY <1>9, <1>10 DEF fees

\* Without a percentile the lowest fee, which is the percentile 0.
LEMMA NoPercentileIsZero ==
  ASSUME NEW fees \in Seq(Nat)
  PROVE  GetWithPercentile(fees, NoFee) = GetWithPercentile(fees, 0)
<1>1. Basis \in Nat \ {0} /\ NoFee # 0 /\ Len(fees) \in Nat
  BY FeesAssumption
<1>2. Index(fees, 0) = 0
  <2>1. Index(fees, 0) = (0 * Len(fees)) \div Basis
    BY <1>1 DEF Index
  <2>2. 0 * Len(fees) = 0
    BY <1>1
  <2>3. 0 \div Basis = 0
    BY <1>1
  <2>4. QED
    BY <2>1, <2>2, <2>3
<1>3. fees # <<>> <=> 0 < Len(fees)
  BY <1>1
<1>4. QED
  BY <1>1, <1>2, <1>3 DEF GetWithPercentile, GetPercentile

(***************************************************************************)
(* get_fee takes the highest of the percentiles of all transactions and of *)
(* the writers of each account, so it outbids them all, and one of them    *)
(* would not be outbid for less (rpc_solana.rs:1002-1015).                 *)
(***************************************************************************)
LEMMA LowestPriceThatOutbids ==
  ASSUME transactions \in Seq(Converted)
  PROVE  FeeOutbids
<1> SUFFICES ASSUME NEW keys \in SUBSET Account
             PROVE  /\ \A level \in 0 .. Basis - 1 :
                         /\ OutbidsAll(GetFee(keys, level), keys, level)
                         /\ \A price \in 0 .. GetFee(keys, level) - 1 :
                              ~OutbidsAll(price, keys, level)
                    /\ GetFee(keys, NoFee) = GetFee(keys, 0)
  BY DEF FeeOutbids
<1>1. /\ NotVotes \in SUBSET DOMAIN transactions
      /\ \A key : Writers(key) \in SUBSET DOMAIN transactions
  BY DEF NotVotes, Writers
<1>2. Prices \subseteq Nat /\ U64_MAX \in Nat /\ NoFee \notin Nat
  BY TransactionAssumption, FeesAssumption DEF Prices
<1>3. ASSUME NEW level \in 0 .. Basis - 1
      PROVE  /\ OutbidsAll(GetFee(keys, level), keys, level)
             /\ \A price \in 0 .. GetFee(keys, level) - 1 : ~OutbidsAll(price, keys, level)
  <2> DEFINE block == GetWithPercentile(transaction_fees, level)
             Of(key) == GetWithPercentile(writable_account_fees(key), level)
             accounts == {Of(key) : key \in keys}
             fees == {IF block = NoFee THEN 0 ELSE block} \cup (accounts \ {NoFee})
  <2>1. level # NoFee
    BY <1>2
  <2>2. /\ NotVotes = {} => block = NoFee
        /\ NotVotes # {} =>
             /\ block \in Nat /\ block <= U64_MAX
             /\ Outbids(block, NotVotes, level)
             /\ \A price \in 0 .. block - 1 : ~Outbids(price, NotVotes, level)
    <3> DEFINE prices == UnitPrices(LAMBDA tx : ~tx.vote)
    <3>1. block = GetPercentile(Sorted(prices), level)
      BY <2>1 DEF GetWithPercentile, transaction_fees
    <3>2. \E run : Collects(NotVotes, run, prices)
      BY AllFeesCollect
    <3> HIDE DEF prices, block
    <3>3. QED
      BY <1>1, <3>1, <3>2, PercentileOutbids
  <2>3. ASSUME NEW key
        PROVE  /\ Writers(key) = {} => Of(key) = NoFee
               /\ Writers(key) # {} =>
                    /\ Of(key) \in Nat /\ Of(key) <= U64_MAX
                    /\ Outbids(Of(key), Writers(key), level)
                    /\ \A price \in 0 .. Of(key) - 1 : ~Outbids(price, Writers(key), level)
    <3> DEFINE prices == WriterPrices(key)
               fee == Of(key)
    <3>1. fee = GetPercentile(Sorted(prices), level)
      BY <2>1 DEF GetWithPercentile, writable_account_fees, WriterPrices
    <3>2. \E run : Collects(Writers(key), run, prices)
      BY WriterFeesCollect
    <3> HIDE DEF prices, fee
    <3>3. /\ Writers(key) = {} => fee = NoFee
          /\ Writers(key) # {} =>
               /\ fee \in Nat /\ fee <= U64_MAX
               /\ Outbids(fee, Writers(key), level)
               /\ \A price \in 0 .. fee - 1 : ~Outbids(price, Writers(key), level)
      BY <1>1, <3>1, <3>2, PercentileOutbids
    <3>4. QED
      BY <3>3 DEF fee
  <2>4. GetFee(keys, level) = Max(fees)
    BY DEF GetFee
  <2> HIDE DEF block, Of
  <2>5. fees \subseteq Nat /\ fees # {} /\ \A fee \in fees : fee <= U64_MAX
    <3>1. \A key : Of(key) = NoFee \/ (Of(key) \in Nat /\ Of(key) <= U64_MAX)
      BY <2>3
    <3>2. block = NoFee \/ (block \in Nat /\ block <= U64_MAX)
      BY <2>2
    <3>3. QED
      BY <1>2, <3>1, <3>2
  <2>6. /\ (IF block = NoFee THEN 0 ELSE block) \in fees
        /\ \A key \in keys : Of(key) # NoFee => Of(key) \in fees
        /\ \A fee \in fees : \/ fee = 0
                             \/ fee = block /\ block # NoFee
                             \/ \E key \in keys : fee = Of(key) /\ Of(key) # NoFee
    OBVIOUS
  <2> DEFINE top == Max(fees)
  <2> HIDE DEF fees
  <2>7. top \in fees /\ top \in Nat /\ \A fee \in fees : top >= fee
    BY <1>2, <2>5, LeastAndGreatest
  <2> HIDE DEF top
  <2>8. OutbidsAll(top, keys, level)
    <3>1. Outbids(top, NotVotes, level)
      <4>1. CASE NotVotes = {}
        BY <4>1 DEF Outbids
      <4>2. CASE NotVotes # {}
        <5>1. block \in Nat /\ Outbids(block, NotVotes, level) /\ block # NoFee
          BY <1>2, <2>2, <4>2
        <5>2. block <= top
          BY <2>6, <2>7, <5>1
        <5>3. QED
          BY <1>1, <2>7, <5>1, <5>2, OutbidsMore
      <4>3. QED
        BY <4>1, <4>2
    <3>2. ASSUME NEW key \in keys PROVE Outbids(top, Writers(key), level)
      <4>1. CASE Writers(key) = {}
        BY <4>1 DEF Outbids
      <4>2. CASE Writers(key) # {}
        <5>1. Of(key) \in Nat /\ Outbids(Of(key), Writers(key), level) /\ Of(key) # NoFee
          BY <1>2, <2>3, <4>2
        <5>2. Of(key) <= top
          BY <2>6, <2>7, <5>1
        <5>3. QED
          BY <1>1, <2>7, <5>1, <5>2, OutbidsMore
      <4>3. QED
        BY <4>1, <4>2
    <3>3. QED
      BY <3>1, <3>2 DEF OutbidsAll
  <2>9. ASSUME NEW price \in 0 .. top - 1 PROVE ~OutbidsAll(price, keys, level)
    <3>1. CASE top = 0
      BY <2>7, <3>1
    <3>2. CASE top = block /\ block # NoFee
      BY <2>2, <3>2 DEF OutbidsAll
    <3>3. CASE \E key \in keys : top = Of(key) /\ Of(key) # NoFee
      <4>1. PICK key \in keys : top = Of(key) /\ Of(key) # NoFee
        BY <3>3
      <4>2. ~Outbids(price, Writers(key), level)
        BY <2>3, <4>1
      <4>3. QED
        BY <4>2 DEF OutbidsAll
    <3>4. QED
      BY <2>6, <2>7, <3>1, <3>2, <3>3
  <2>10. QED
    BY <2>4, <2>8, <2>9 DEF top
<1>4. GetFee(keys, NoFee) = GetFee(keys, 0)
  <2>1. ASSUME NEW prices \in Seq(Prices)
        PROVE  GetWithPercentile(Sorted(prices), NoFee) = GetWithPercentile(Sorted(prices), 0)
    <3> DEFINE fees == Sorted(prices)
    <3>1. fees \in Seq(Prices)
      BY <1>2, SortedIsSorted
    <3> HIDE DEF fees
    <3>2. Len(fees) \in Nat /\ fees \in [1 .. Len(fees) -> Prices]
      BY <3>1
    <3>3. fees \in [1 .. Len(fees) -> Nat]
      BY <1>2, <3>2
    <3>4. fees \in Seq(Nat)
      BY <3>2, <3>3
    <3>5. GetWithPercentile(fees, NoFee) = GetWithPercentile(fees, 0)
      BY <3>4, NoPercentileIsZero
    <3>6. QED
      BY <3>5 DEF fees
  <2>2. GetWithPercentile(transaction_fees, NoFee) = GetWithPercentile(transaction_fees, 0)
    <3> DEFINE prices == UnitPrices(LAMBDA tx : ~tx.vote)
    <3>1. prices \in Seq(Prices)
      BY AllFeesCollect, CollectedFees
    <3>2. transaction_fees = Sorted(prices)
      BY DEF transaction_fees
    <3> HIDE DEF prices
    <3>3. QED
      BY <2>1, <3>1, <3>2
  <2>3. ASSUME NEW key
        PROVE  GetWithPercentile(writable_account_fees(key), NoFee)
                 = GetWithPercentile(writable_account_fees(key), 0)
    <3> DEFINE prices == WriterPrices(key)
    <3>1. prices \in Seq(Prices)
      BY WriterFeesCollect, CollectedFees
    <3>2. writable_account_fees(key) = Sorted(prices)
      BY DEF writable_account_fees, WriterPrices
    <3> HIDE DEF prices
    <3>3. QED
      BY <2>1, <3>1, <3>2
  <2>4. {GetWithPercentile(writable_account_fees(key), NoFee) : key \in keys}
          = {GetWithPercentile(writable_account_fees(key), 0) : key \in keys}
    BY <2>3
  <2>5. QED
    BY <2>2, <2>4 DEF GetFee
<1>5. QED
  BY <1>3, <1>4

-----------------------------------------------------------------------------
LEMMA MessageExists == (CHOOSE m \in Message : TRUE) \in Message
<1>1. PICK p \in Pubkey : TRUE
  BY TransactionAssumption
<1>2. 1 \in 1 .. Cardinality(Pubkey) /\ 0 \in 0 .. Cardinality(Pubkey)
  BY TransactionAssumption, FS_CardinalityType, FS_EmptySet
<1> DEFINE keys == [i \in 1 .. 1 |-> p]
           m == [keys |-> keys, num_required_signatures |-> 1,
                 num_readonly_signed_accounts |-> 0, num_readonly_unsigned_accounts |-> 0,
                 loaded_writable |-> {}, loaded_readonly |-> {}]
<1>3. keys \in [1 .. 1 -> Pubkey] /\ Len(keys) = 1 /\ IsInjective(keys)
  BY DEF IsInjective
<1> HIDE DEF keys
<1>4. keys \in UNION {[1 .. n -> Pubkey] : n \in 1 .. Cardinality(Pubkey)}
  BY <1>2, <1>3
<1>5. /\ m \in [keys : UNION {[1 .. n -> Pubkey] : n \in 1 .. Cardinality(Pubkey)},
               num_required_signatures : 1 .. Cardinality(Pubkey),
               num_readonly_signed_accounts : 0 .. Cardinality(Pubkey),
               num_readonly_unsigned_accounts : 0 .. Cardinality(Pubkey),
               loaded_writable : SUBSET Pubkey,
               loaded_readonly : SUBSET Pubkey]
      /\ m.keys = keys /\ m.num_required_signatures = 1
      /\ m.num_readonly_signed_accounts = 0 /\ m.num_readonly_unsigned_accounts = 0
      /\ m.loaded_writable = {} /\ m.loaded_readonly = {}
  <2> DEFINE KeyLists == UNION {[1 .. n -> Pubkey] : n \in 1 .. Cardinality(Pubkey)}
             Counts == 1 .. Cardinality(Pubkey)
             Counts0 == 0 .. Cardinality(Pubkey)
  <2>1. keys \in KeyLists /\ 1 \in Counts /\ 0 \in Counts0
    BY <1>2, <1>4
  <2> HIDE DEF KeyLists, Counts, Counts0
  <2>2. m \in [keys : KeyLists, num_required_signatures : Counts,
                num_readonly_signed_accounts : Counts0, num_readonly_unsigned_accounts : Counts0,
                loaded_writable : SUBSET Pubkey, loaded_readonly : SUBSET Pubkey]
    BY <2>1
  <2>3. QED
    BY <2>2 DEF KeyLists, Counts, Counts0
<1> HIDE DEF m
<1>6. m \in Message
  BY <1>3, <1>5 DEF Message
<1>7. QED
  BY <1>6

(***************************************************************************)
(* What is received is a sanitized transaction of any length, what is in   *)
(* the block has a price a u64 holds, and what is asked is a call.         *)
(***************************************************************************)
Executed(tx) ==
  /\ tx.message \in Message
  /\ tx.signatures \in Nat
  /\ tx.is_vote \in BOOLEAN
  /\ \E n \in Nat : tx.instructions \in [1 .. n -> Instruction]

FeesInv ==
  /\ transactions \in Seq(Converted)
  /\ received = NoTransaction \/ Executed(received)
  /\ asked = NoCall \/ asked \in Calls

LEMMA TransactionsAreExecuted ==
  ASSUME NEW tx \in Transaction
  PROVE  Executed(tx)
<1>1. <<>> \in [1 .. 0 -> Instruction]
  OBVIOUS
<1>2. \A ins \in Instructions : \E n \in Nat : ins \in [1 .. n -> Instruction]
  BY TransactionAssumption DEF Instructions
<1>3. 1 .. MaxSignatures \subseteq Nat
  BY TransactionAssumption
<1>4. CASE tx \in [message : Message, signatures : {1}, instructions : {<<>>}, is_vote : BOOLEAN]
  <2>1. tx.message \in Message /\ tx.signatures = 1 /\ tx.instructions = <<>>
        /\ tx.is_vote \in BOOLEAN
    BY <1>4
  <2>2. 1 \in Nat /\ 0 \in Nat /\ tx.instructions \in [1 .. 0 -> Instruction]
    BY <1>1, <2>1
  <2>3. QED
    BY <2>1, <2>2 DEF Executed
<1>5. CASE tx \in [message : {CHOOSE m \in Message : TRUE}, signatures : 1 .. MaxSignatures,
                   instructions : Instructions, is_vote : {FALSE}]
  <2>1. tx.message \in Message
    BY <1>5, MessageExists
  <2>2. tx.signatures \in Nat /\ tx.is_vote \in BOOLEAN /\ tx.instructions \in Instructions
    BY <1>3, <1>5
  <2>3. QED
    BY <1>2, <2>1, <2>2 DEF Executed
<1>6. QED
  BY <1>4, <1>5 DEF Transaction

LEMMA FromIsConverted ==
  ASSUME NEW tx, Executed(tx)
  PROVE  From(tx) \in Converted
<1>1. Accounts(tx.message).writable \subseteq Pubkey /\ Accounts(tx.message).readable \subseteq Pubkey
  <2>1. tx.message \in Message
    BY DEF Executed
  <2>2. /\ Range(tx.message.keys) \subseteq Pubkey
        /\ tx.message.loaded_writable \subseteq Pubkey /\ tx.message.loaded_readonly \subseteq Pubkey
    <3>1. PICK k \in 1 .. Cardinality(Pubkey) : tx.message.keys \in [1 .. k -> Pubkey]
      BY <2>1 DEF Message
    <3>2. QED
      BY <2>1, <3>1 DEF Message, Range
  <2>3. Accounts(tx.message).writable \cup Accounts(tx.message).readable
          = Range(tx.message.keys) \cup tx.message.loaded_writable \cup tx.message.loaded_readonly
    BY <2>1, HeaderPartitions DEF Partitioned
  <2>4. QED
    BY <2>2, <2>3
<1>2. Budget(tx.signatures, tx.instructions).unit_price \in Prices
  <2> DEFINE base == [unit_limit |-> NoLimit, unit_price |-> 0,
                      ixs_count |-> 0, sigs_count |-> tx.signatures]
  <2>1. PICK n \in Nat : tx.instructions \in [1 .. n -> Instruction]
    BY DEF Executed
  <2>2. base \in Budgets
    BY TransactionAssumption DEF Budgets, NoLimit, Executed
  <2> HIDE DEF base
  <2> DEFINE ins == tx.instructions
  <2> HIDE DEF ins
  <2>3. PICK run \in [0 .. n -> Budgets] : FoldLeft(Scan, base, ins) = run[n]
    <3>1. ins \in [1 .. n -> Instruction]
      BY <2>1 DEF ins
    <3>2. PICK run : Scans(run, n, ins, base)
      BY <2>2, <3>1, ScanRuns
    <3>3. QED
      BY <3>2 DEF Scans
  <2>4. n \in 0 .. n
    OBVIOUS
  <2>5. FoldLeft(Scan, base, ins).unit_price \in Prices
    BY <2>3, <2>4 DEF Budgets, Prices
  <2>6. QED
    BY <2>5 DEF Budget, base, ins
<1>3. QED
  BY <1>1, <1>2 DEF From, Converted, Executed

THEOREM FeesInvariant == FeeSpec => []FeesInv
<1>1. FeeInit => FeesInv
  BY DEF FeeInit, Init, FeesInv
<1>2. FeesInv /\ [FeeNext]_feeVars => FeesInv'
  <2> SUFFICES ASSUME FeesInv, [FeeNext]_feeVars
               PROVE  FeesInv'
    OBVIOUS
  <2>1. CASE Receive
    BY <2>1, TransactionsAreExecuted DEF Receive, FeesInv
  <2>2. CASE Convert
    <3>1. From(received) \in Converted
      BY <2>2, FromIsConverted DEF Convert, FeesInv
    <3>2. transactions' \in Seq(Converted)
      BY <2>2, <3>1 DEF Convert, FeesInv
    <3>3. QED
      BY <2>2, <3>2 DEF Convert, FeesInv
  <2>3. CASE AddTransaction
    <3>1. PICK tx \in GeyserTransaction : transactions' = Append(transactions, tx)
      BY <2>3 DEF AddTransaction, Next
    <3>2. tx \in Converted
      BY <3>1, FeesAssumption, TransactionAssumption DEF GeyserTransaction, Converted, Prices
    <3>3. transactions' \in Seq(Converted)
      BY <3>1, <3>2 DEF FeesInv
    <3>4. QED
      BY <2>3, <3>3 DEF AddTransaction, FeesInv
  <2>4. CASE Ask
    BY <2>4 DEF Ask, FeesInv
  <2>5. CASE UNCHANGED feeVars
    BY <2>5 DEF feeVars, FeesInv
  <2>6. QED
    BY <2>1, <2>2, <2>3, <2>4, <2>5 DEF FeeNext
<1>3. QED
  BY <1>1, <1>2, PTL DEF FeeSpec

(***************************************************************************)
(* The account lists of every transaction received partition its keys.     *)
(***************************************************************************)
THEOREM ReceivedIsPartitioned == FeeSpec => []AccountsPartitioned
<1>1. FeesInv => AccountsPartitioned
  BY HeaderPartitions DEF FeesInv, Executed, AccountsPartitioned
<1>2. QED
  BY <1>1, FeesInvariant, PTL

(***************************************************************************)
(* txmon finds no fee it cannot explain, whatever the number and order of  *)
(* the instructions (txmon.rs:51-57, grpc_geyser.rs:163-236).              *)
(***************************************************************************)
THEOREM FeeExplainedHolds == FeeSpec => []FeeExplained
<1>1. FeesInv => FeeExplained
  BY BudgetIsExplained DEF FeesInv, Executed, FeeExplained
<1>2. QED
  BY <1>1, FeesInvariant, PTL

(***************************************************************************)
(* The endpoints agree on every call asked.                                *)
(***************************************************************************)
THEOREM EndpointsCompatibleHolds == FeeSpec => []EndpointsCompatible
<1>1. FeesInv => EndpointsCompatible
  BY EndpointsAgree DEF FeesInv, EndpointsCompatible
<1>2. QED
  BY <1>1, FeesInvariant, PTL

(***************************************************************************)
(* Every percentile of every block reached is a quantile of its fees.      *)
(***************************************************************************)
THEOREM PercentileIsQuantileHolds == FeeSpec => []PercentileIsQuantile
<1>1. FeesInv => PercentileIsQuantile
  BY PercentilesAreQuantiles DEF FeesInv
<1>2. QED
  BY <1>1, FeesInvariant, PTL

(***************************************************************************)
(* getRecentPrioritizationFees answers, for every block reached, with the  *)
(* lowest price that outbids enough of the competitors.                    *)
(***************************************************************************)
THEOREM FeeOutbidsHolds == FeeSpec => []FeeOutbids
<1>1. FeesInv => FeeOutbids
  BY LowestPriceThatOutbids DEF FeesInv
<1>2. QED
  BY <1>1, FeesInvariant, PTL
=============================================================================

------------------------- MODULE PrioritizationFees -------------------------
(***************************************************************************)
(* The fee statistics of one block (rpc_solana.rs:889-1121), computed      *)
(* twice over: RecentPrioritizationFeesSlot once per block, for            *)
(* getRecentPrioritizationFees of the Solana and Triton endpoints, and     *)
(* get_filtered once per subscriber, for the Solfees endpoints and the     *)
(* websockets.  The block grows by one transaction a step, so every block  *)
(* up to the bound is looked at.                                           *)
(***************************************************************************)
EXTENDS GeyserTransactions

CONSTANTS
  Account,          \* bound: the accounts the block's transactions are about
  Basis,            \* 10_000, the basis points of a percentile
  NoFee,            \* None
  MaxTransactions   \* bound: transactions in the block

ASSUME FeesAssumption ==
  /\ Account \subseteq Pubkey
  /\ Basis \in Nat \ {0}
  /\ NoFee \notin Nat
  /\ MaxTransactions \in Nat

\* Bound: transactions converted (GeyserTransactions!From) about Account.
GeyserTransaction ==
  {tx \in [vote : BOOLEAN, unit_price : UnitPrice,
           accounts : [writable : SUBSET Account, readable : SUBSET Account]] :
     tx.accounts.writable # {} /\ tx.accounts.writable \cap tx.accounts.readable = {}}

VARIABLE transactions

Init == transactions = <<>>

Next ==
  /\ Len(transactions) < MaxTransactions
  /\ \E tx \in GeyserTransaction : transactions' = Append(transactions, tx)

Spec == Init /\ [][Next]_transactions

-----------------------------------------------------------------------------
\* sort_unstable: how many come no later than the i-th, and which is the k-th.
Rank(fees, i) ==
  Cardinality({j \in DOMAIN fees : fees[j] < fees[i] \/ (fees[j] = fees[i] /\ j <= i)})

Sorted(fees) == [k \in DOMAIN fees |-> fees[CHOOSE i \in DOMAIN fees : Rank(fees, i) = k]]

\* The unit prices of the transactions that pass.
UnitPrices(Test(_)) ==
  FoldLeft(LAMBDA fees, tx : IF Test(tx) THEN Append(fees, tx.unit_price) ELSE fees,
           <<>>, transactions)

transaction_fees == Sorted(UnitPrices(LAMBDA tx : ~tx.vote))

\* Mutant: votes count for their accounts.
AccountFeesWithVotes(account) ==
  Sorted(UnitPrices(LAMBDA tx : account \in tx.accounts.writable))

\* An account nobody writes to has no entry, here no fees.
writable_account_fees(account) ==
  Sorted(UnitPrices(LAMBDA tx : ~tx.vote /\ account \in tx.accounts.writable))

\* Mutant: the index is rounded to the nearest instead of down.
IndexRounded(fees, percentile) == (2 * percentile * Len(fees) + Basis) \div (2 * Basis)

\* Counted from 0.  10_000 itself is accepted and means 9_999.
Index(fees, percentile) ==
  ((IF percentile < Basis THEN percentile ELSE Basis - 1) * Len(fees)) \div Basis

GetPercentile(fees, percentile) ==
  IF Index(fees, percentile) < Len(fees) THEN fees[Index(fees, percentile) + 1] ELSE NoFee

\* percentile: an Option; without one the lowest fee.
GetWithPercentile(fees, percentile) ==
  IF percentile # NoFee THEN GetPercentile(fees, percentile)
  ELSE IF fees # <<>> THEN fees[1] ELSE NoFee

\* The highest of the block's fee, 0 in an empty block, and the accounts'.
GetFee(account_keys, percentile) ==
  LET block == GetWithPercentile(transaction_fees, percentile)
      accounts == {GetWithPercentile(writable_account_fees(key), percentile) :
                     key \in account_keys}
  IN  Max({IF block = NoFee THEN 0 ELSE block} \cup (accounts \ {NoFee}))

-----------------------------------------------------------------------------
\* SlotSubscribeFilter: two sets of pubkeys and the levels, at most 10_000.
Filter == [read_write : SUBSET Account, read_only : SUBSET Account]
Level == 0 .. Basis

FilterPubkeys(required, pubkeys) == required \subseteq pubkeys

FilteredFees(filter) ==
  UnitPrices(LAMBDA tx :
    /\ ~tx.vote
    /\ FilterPubkeys(filter.read_write, tx.accounts.writable)
    /\ FilterPubkeys(filter.read_only, tx.accounts.readable))

\* sum::<u64>() wraps in a release build.
FeeSum(fees) == FoldLeft(LAMBDA sum, fee : (sum + fee) % (U64_MAX + 1), 0, fees)

\* fee_average is fee_sum over total_transactions_filtered.
GetFiltered(filter) ==
  LET fees == FilteredFees(filter)
  IN  [total_transactions |-> Len(transactions),
       total_transactions_vote |-> Cardinality({i \in DOMAIN transactions : transactions[i].vote}),
       total_transactions_filtered |-> Len(fees),
       fee_sum |-> FeeSum(fees),
       fee_levels |-> [level \in Level |-> GetPercentile(Sorted(fees), level)]]

-----------------------------------------------------------------------------
(***************************************************************************)
(* get_percentile returns a quantile, at every boundary: at most           *)
(* percentile/Basis of the fees lie below it and more than that do not lie *)
(* above; 10_000, which is accepted, still names one of the fees.          *)
(***************************************************************************)
Splits(fees, percentile, fee) ==
  /\ Cardinality({i \in DOMAIN fees : fees[i] < fee}) * Basis <= percentile * Len(fees)
  /\ percentile * Len(fees) < Cardinality({i \in DOMAIN fees : fees[i] <= fee}) * Basis

PercentileIsQuantile ==
  transaction_fees # <<>> =>
    \A percentile \in 0 .. Basis :
      LET fee == GetPercentile(transaction_fees, percentile)
      IN  /\ fee # NoFee
          /\ percentile < Basis => Splits(transaction_fees, percentile, fee)

(***************************************************************************)
(* What getRecentPrioritizationFees answers for a block is the lowest      *)
(* price that outbids enough of its transactions - of all, and of those    *)
(* that write to each of the accounts - to land one that locks these       *)
(* accounts; votes and transactions that only read an account do not       *)
(* compete.  No percentile is the percentile 0 (README.md:100).             *)
(***************************************************************************)
NotVotes == {i \in DOMAIN transactions : ~transactions[i].vote}

Writers(key) == {i \in NotVotes : key \in transactions[i].accounts.writable}

Outbids(price, competitors, level) ==
  competitors # {} =>
    level * Cardinality(competitors)
      < Basis * Cardinality({i \in competitors : transactions[i].unit_price <= price})

OutbidsAll(price, keys, level) ==
  /\ Outbids(price, NotVotes, level)
  /\ \A key \in keys : Outbids(price, Writers(key), level)

FeeOutbids ==
  \A keys \in SUBSET Account :
    /\ \A level \in 0 .. Basis - 1 :
         /\ OutbidsAll(GetFee(keys, level), keys, level)
         /\ \A price \in 0 .. GetFee(keys, level) - 1 : ~OutbidsAll(price, keys, level)
    /\ GetFee(keys, NoFee) = GetFee(keys, 0)

(***************************************************************************)
(* README.md:15: the percentile option gives the fee "as percentile [...]  *)
(* from all matched transactions", so with an account given the answer is  *)
(* the percentile of the transactions that match it.                       *)
(***************************************************************************)
PercentileOfMatched ==
  \A key \in Account, level \in 0 .. Basis - 1 :
    Writers(key) # {} =>
      /\ Outbids(GetFee({key}, level), Writers(key), level)
      /\ \A price \in 0 .. GetFee({key}, level) - 1 : ~Outbids(price, Writers(key), level)

(***************************************************************************)
(* README.md:21: the Solfees response includes the "average fee" of the    *)
(* filtered transactions, which lies between the lowest and the highest.   *)
(***************************************************************************)
AverageWithinPrices ==
  \A filter \in Filter :
    LET fees == Sorted(FilteredFees(filter))
    IN  fees # <<>> =>
          /\ fees[1] * Len(fees) <= GetFiltered(filter).fee_sum
          /\ GetFiltered(filter).fee_sum <= fees[Len(fees)] * Len(fees)
=============================================================================

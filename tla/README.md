# TLA+ specifications of solfees

solfees serves Solana fee and blockhash data over JSON-RPC and websockets.
This directory holds TLA+ modules translated from `src/solfees-be/src`, the
TLC configurations that check them on small instances, and TLAPS proofs.

## The system

```
 node --gRPC--> grpc_geyser task --mpsc--> grpc2redis main --XADD--> Redis stream
 (one solfees-grpc2redis process per node; several write the same stream)
                                                                        |
                                                                      XREAD
                                                                        v
 clients <--HTTP-- rpc_server --bounded mpsc--> update loop <--mpsc-- solfees-be main
         <--ws---- on_websocket <--broadcast--'      ^                  ^
                                                      `- the storages    `- redis.rs task
```

| Part | State | Operations | What is hard |
|---|---|---|---|
| `grpc_geyser::subscribe`, `bin/solfees-grpc2redis.rs` | transactions collected by slot, channel, the batch being drained | transaction, block meta, status, drain, MULTI/EXEC, exit | slots interleave; purge at finalized; errors and panics half way; unknown outcome of a write |
| `schedule.rs` | epoch -> schedule or in progress; spawned fetches | `get_leader`, fetch succeeds, fails, panics | check and act around an RPC call |
| `redis.rs` | last id, batch, finalized tip, LRU of seen flags | XREAD, deduplicate, forward | several producers, reordering, trimming, eviction |
| `LatestBlockhashStorage` | slots, finalized count, three pointers | `push_block`, `update_commitment` with eviction | a counter beside a map; a loop that trusts it |
| update loop (`run_update_loop`) | the storage, `slots_info` | apply a message, answer a request, stop | two maps with two rules; biased select |
| fee statistics | sorted prices of a block | percentile, `get_fee`, `get_filtered` | boundaries, overflow, the whole block and the accounts in one fee |
| `on_request` | outputs, the abandoned flag, oneshot | send, wait, time out | timeout against answer; merging outputs |
| `on_websocket` | filter, message to feed, flush flag, sink | subscribe, update, feed, flush, close | cancelled flush, lag, filter switch |
| `solfees-be.rs`, `rpc_server.rs` | main's phase, notifies, connections | forward, stop loop, stop servers, join | shutdown order |
| transaction conversion (`GeyserTransaction::from`) | none | account lists, compute budget, signatures | slices of a header; requests anywhere among the instructions |
| calls (`on_request`'s parsing, routing) | none | four endpoints, five methods, positions, names, defaults | each endpoint parses for itself |
| `txmon` | none | expected fee | agrees with the runtime or reports nonsense |
| config, cli, tracing, version, metrics, `ws-client` | none that matters | | not modelled, see below |

What makes each part correct is stated by the properties below.

## Modules

`GeyserMessages` has the vocabulary: the block tree of the cluster (external),
commitment levels, messages, and `InOrder`, the order in which one node
reports. A message is `[slot, kind]`: whatever else a block carries is a
function of its slot. The other modules, from the producer to the client:

* **`Grpc2Redis`**: one producer over its restarts. The gRPC stream has one
  writer and one reader in FIFO order, so the node's sending and the task's
  handling are one step. The node goes on while nobody listens (`Unheard`);
  `Subscribe` opens the stream at any point of its life. `before` and `offset`
  are history variables: what the node had sent when the process subscribed,
  and how many transactions of each slot. The `TaskPanics` action stands for
  the indexing in `GeyserTransaction::from`, which ends the channel without an
  error. There is no reconnect in the code: any error ends the process
  (`Exit`), what it held is gone, and `Restart` begins anew.
* **`GeyserTransactions`**: what `GeyserTransaction::from` keeps of a
  transaction: the account lists cut out of the header, the compute budget
  and signature count the loop over the instructions finds; and the fee
  `txmon` expects. What the runtime charges (`Charged`) is the reference.
* **`SolanaSchedule`**: `get_leader` and the fetch it spawns. Each mutex
  section is one step. A slot is asked for once, when its block meta arrives
  (grpc_geyser.rs:390), or never.
* **`RedisConsumer`**: the stream, trimming, and the consumer task. A batch a
  producer writes as one MULTI is modelled as single XADDs, which only adds
  interleavings. `Feed` is the refinement mapping to
* **`GeyserFeed`**, the abstract promise: nothing is said twice and nothing
  below the last finalized slot; `OrderedFeedSpec` also keeps the order of a
  slot's levels. Its variable `repeated` stays empty: the consumer keeps there
  what it hands over a second time, so that a copy is no stutter of the feed.
* **`LatestBlockhashStorage`**: `push_block` and `update_commitment`. The
  eviction loop is one step that says where it stops (at the n-th lowest
  finalized entry) or that it never does (`spinning`).
* **`BlockhashRequests`**: how `getLatestBlockhash` with `rollback` and
  `getSlot` are answered.
* **`FedStorage`**: `GeyserFeed` and `LatestBlockhashStorage` in one step per
  message.
* **`UpdateLoop`**: `FedStorage` and `slots_info`. `StreamsSlotInfo` is
  reduced to the commitment, the one field that changes.
* **`PrioritizationFees`** on `GeyserTransactions`: the statistics of a block
  as operators over its transactions; the block grows a transaction a step, so
  that every block up to the bound is looked at. `f64` does not occur: the
  average is represented by the (wrapping) sum it is computed from.
* **`JsonRpcCalls`**: `Route`, the path of a request to its endpoint, and
  `Dispatch`, what one call becomes on it: a request for the update loop with
  its parameters, an answer at once, or an error. A parameter is its type and
  what the checks look at (a length, a number, whether members parse).
* **`FeeRequests`** puts the two ends of a fee together: transactions received
  and converted into the block of `PrioritizationFees`, and calls asked of
  every endpoint.
* **`RpcRequests`** on `JsonRpcCalls`: `on_request` for a body of calls sent to
  one of the paths, the bounded queue, the loop's biased
  `select!` and the oneshot. The `biased` select polls geyser first, but a
  message may arrive between the two polls, so polling is a step of its own.
  The abandoned flag is read `Relaxed`: `TakeRequest` may or may not see it.
  Hyper drops the future of an HTTP/1 connection that closes (`Cancel`, no
  flag is set); `ConnectionClosed` is the branch for a shared connection.
* **`Backend`**: `RpcRequests` under main and the two servers.
* **`WebSocket`**: one connection. The receivers of a broadcast channel do not
  influence each other or the sender, so one connection says it all.
  `RecvError::Closed` (rpc_solana.rs:529) cannot occur while the connection's
  own `SolanaRpc` holds a sender, and has no action.

`MC*` modules give the constants of the runs. Every definition that stands for
code names its lines in `PROJECT.json` under `map`. A definition commented
`Mutant` is not part of the specification: it is the form the definition after
it would have under a plausible bug, and shows that the properties notice.

## Runs

| Run | Module | Instance | Checks |
|---|---|---|---|
| UpdateLoop | MCUpdateLoop | 4 slots, 2 and 3 compete, 4 on 2; room for 2 finalized, 2 slots of fees | the counter is exact, the eviction ends and takes nothing too early, rollbacks are served, `slot_finalized` rises; the two maps stay consistent (`LoopInv` is the inductive invariant of the proofs) |
| RollbackFork | MCUpdateLoop | as UpdateLoop | **violated**: a rollback leaves the chain |
| RedisOrdered | MCRedisConsumer | 2 producers, a chain of 4 slots and a fork, LRU of 4, window of 2, nothing trimmed, no status missed | no finalized slot is lost; nothing is delivered twice; refines `OrderedFeedSpec` |
| RedisTrim | MCRedisConsumer | 2 producers, 2 slots, trimming to 1 | nothing else is lost; refines `FeedSpec`; eventual delivery |
| Producer | MCGrpc2Redis | 2 competing slots, 2 and 1 transactions, 2 levels, channel of 2, any number of restarts | blocks lack only what came before the subscription, forks purged, order and no repetition over all restarts, nothing else skipped; what was heard is written or the process exits |
| SolanaSchedule | MCSolanaSchedule | 2 epochs of 3 slots, 3 failures | one fetch an epoch, no wrong leader, what is known stays known; no epoch stays in progress, unless its task panicked |
| Backend | MCBackend | 2 requests, queue of 1, 6 bodies on five paths | whole answers, refused when full, no waiter forgotten; the shutdown ends and leaves no client waiting |
| WebSocket | MCWebSocket | capacity 2, sink of 1, 4 updates, 3 calls | no gap, filter in force, every message is written or the connection ends |
| Fees | MCFeeRequests | messages of 4 keys; 3 instructions; blocks of 3 transactions over 2 accounts, prices 0, 1, 3, basis 4, u64 of 3 bits; every call with every parameter at its limits | accounts partitioned, fee explained, quantiles, the fee outbids whom it should and no lower one does, endpoints compatible |
| FeesMatched | MCFeeRequests | as Fees | **violated**: the fee is not the percentile of the matched transactions |
| FeesAverage | MCFeeRequests | as Fees | **violated**: the average falls below the lowest price |
| FiltersDefault | MCFeeRequests | as Fees | **violated**: a filter left out of the configuration is an error |

`FedStorage` and `RpcRequests` have no run of their own: `UpdateLoop` contains
every step of the one and `Backend` every step of the other, and their
properties are checked there.

### What the violated runs show

* `RollbackStaysOnChain`: README.md:11 calls the result of `rollback` a
  "slightly outdated blockhash". The walk compares heights only
  (rpc_solana.rs:668; `parent_slot` and `parent_hash` are ignored in 608-609),
  and an abandoned fork between a block and its parent has the right height.
* `PercentileOfMatched`: README.md:15 speaks of a percentile "from all matched
  transactions". `get_fee` starts from the percentile of the whole block
  (rpc_solana.rs:1003) and takes the maximum with those of the accounts, so a
  block that pays more than an account's writers raises the answer.
  `FeeOutbids`, which holds, says what the answer is instead: the lowest price
  that outbids the wanted share of all transactions and of the writers of each
  of the accounts.
* `AverageWithinPrices`: README.md:21 promises an "average fee"; `sum::<u64>`
  (938) wraps in a release build. `U64_MAX` is small, so that three prices, or
  a limit and a price, exceed it.
* `OmittedFiltersDefault`: README.md:127-130 gives `readWrite` and `readOnly`
  the default `[]`. `ReqParamsSlotsSubscribeConfig` (1047-1053) has no
  `#[serde(default)]` on its fields, so leaving one out is "missing field".

Observations that are not runs:

* README.md:34, 62 and 88 name a parameter `min_context_slot`; the structure is
  camelCase and ignores unknown names, so only `minContextSlot` has an effect.
* `rollback` sent to `/api/solana` is ignored rather than refused, for the
  same reason. `EndpointsCompatible` is about calls without extensions.

### Bounds

The constants keep the relations of the code's own numbers and make every
limit reachable: the storage is full after two finalized blocks of four and
evicts (310 in the code; `EvictionSlack` is its "+ 10"); `slots_info` is not
larger than the storage (150 and 310; `InfoAssumption`); the LRU remembers
fewer slots than there are, yet twice the `Window` a node works in, which is what
`NoDuplicate` needs (8192 in the code); the queue to the update loop is
smaller than the number of clients; one body exceeds `request_calls_max`;
lists and numbers of a call lie on both sides of each limit; the
websocket's channel and sink are smaller than the number of updates, so that
it lags and waits. Tokio rounds a broadcast capacity up to a power of two, so
the configured 150 are 256 and `StreamsChannelCapacity` is the rounded number.
Messages have up to four keys, one for each group of the header, any of which
may come from a lookup table instead; three instructions are enough
for a budget request on either side of what it prices, or for a precompile
between the two. Two producer slots that compete, with one and two
transactions, are the smallest block tree with a fork to purge and with a
block that a subscription can find begun, or complete but for its meta.
Bounds that only make the state finite are marked `bound` at their constant.

`RedisOrdered` trims nothing: when the stream is trimmed the producers' windows
as the consumer sees them are no longer aligned and the LRU may be too small,
so that a copy passes as new; and without every status the tip check leaves
gaps. `RedisTrim` shows what is left without either assumption, with an LRU
that remembers both slots. Producers that miss statuses while the stream is
read in time are covered by the proofs alone (`NoDuplicateHolds`).

`CHECK_DEADLOCK FALSE` is set where a run ends by itself: the feed is used up,
the process has exited, the connection is closed, the block is full.

### Fairness

Only what the runtime schedules is fair. The Redis task polls for ever (`WF`
of `XRead`, `Handle`), producers are not; the producer's main loop is
(`Main`), the node is not; a fetch task ends one way or another, but nothing
makes a block come that would ask again (`SolanaSchedule`); the websocket task and a client that
reads (`SocketWrites`) are, broadcasts and the client's calls are not. In
`Backend` every task that can run does and a client that has begun a body ends
it: `collect()` in rpc_server.rs has no time limit, so without this assumption
the graceful shutdown waits for ever, which is why the code lets a second
signal through. Signals, timeouts and closing connections are never relied on.

## Proofs

Checked by TLAPS for every value of the constants under the named assumptions
of the modules. Slots may be any set of positive numbers.

* `GeyserMessages_proofs`: lemmas. `Lineage` is a recursive function over the
  slots; that a slot's ancestors are itself and its parent's, that any two
  of them are in line, that heights rise along them and none is left out is
  proved in set form: among the slots where it failed there would be a least
  one.
* `UpdateLoop_proofs`, in three parts.
  The storage under any messages (`StorageSpec`): `RetentionIsBounded` and
  `EvictionEnds`. The counter is at least the number of finalized entries
  whatever the messages are, and after an eviction it is at most
  `RetainedMax`. It goes up only for an entry that is stored and has just been
  marked finalized, so an eviction has at most one to remove and finds it.
  Lemmas: what the loop removes
  (`LowestPopped`) exists for every count, and what `Evict` leaves (`Outcome`).
  The fed storage: `InductiveInvariant`, and from it `StorageTypes`,
  `CounterIsExact`, `RetentionHolds`, `FinalizedIsServed` and
  `FinalizedPointerRises`. The counter is exact because a finalized entry is
  neither pushed again nor finalized again (each message comes once) nor
  downgraded; that needs `IInv` to relate entries to what was delivered: an
  entry and its mark come from delivered messages, no finalized entry is above
  the tip, an evicted block is below every finalized entry of a full storage.
  `LevelsRise`, the order of a slot's levels, is what excludes the downgrade,
  so `FedStorage` is driven by the ordered feed. When no producer has a level
  of a slot before its finalized status, a late "confirmed" of the tip's own
  slot passes the tip check, takes the finalized mark away and leaves the
  counter one too high. The storage then retains fewer finalized blocks than
  it should; the two theorems above say that such a history costs no more than
  that, neither memory nor the loop.
  Rollbacks: `RollbackInvariant`, `RollbackNeverRunsOut` and
  `LongestRollbackIsServed`. The walk has only heights to go by, so the proof
  follows the ancestors beside it: at every height the walk stops at the
  ancestor of that height or above it, and the next ancestor down is still a
  candidate. The last one assumes `EvictionSlack # 0`: a storage of exactly
  `MAX_RECENT_BLOCKHASHES` finalized blocks is one short of a rollback by as
  many. The code's slack is 10 (rpc_solana.rs:863).
  The loop beside it: `LoopInvariant`, `NewestInfo`, `OneCommitmentPerSlot`,
  `FeesOfStoredSlots`. A slot in `slots_info` has fewer than
  `MAX_NUM_RECENT_SLOT_INFO` pushed slots above it, an evicted one at least
  `RetainedMax` finalized ones, all of them pushed; hence the assumption that
  one bound is not above the other.
* `RedisConsumer_proofs`: `ConsumerInvariant`, `NothingIsSwallowed` and
  `FeedWhileRemembered`, for any producers, trimming, batch and LRU size.
  The invariant says where things come from: what is on its way or delivered
  was written by a producer (`OnTheirWay`), a flag of the LRU is about
  something delivered (`LruHeard`, so what is dropped as a copy is one), the
  tip is the highest finalized slot delivered, and the finalized slots of all
  producers are one chain (`OneChain`), without which a finalized status
  above the tip might leave the chain. A step that says something again,
  which an LRU that has forgotten allows, is no step of the feed:
  `FeedWhileRemembered` assumes `NoDuplicate`, and shows that it is all the
  feed needs.
  Four theorems more need a stream that is read in time. As an assumption
  this is `StreamMaxLen >= MaxUnread`: entries are trimmed only after they were
  read, which the code can only hope for, and which `stream_maxlen` is there
  to make likely. The proofs use no more than that nothing was trimmed
  (`NothingTrimmed`); what is on its way is then one queue, the batch and the
  stream (`Queue`), in which `Ahead(i)` is handled before the i-th item.
  `NoFinalizedGapHolds` and `ConsumerImplementsOrderedFeed` assume
  that no producer misses a status (`EveryLevel`): the lower levels of a slot
  and the finalized statuses of its ancestors are delivered or ahead of its
  finalized status (`OrderInv`), though several producers write at
  their own pace. `NoDuplicateHolds` needs no levels but
  `LruCapacity >= 2 * Window`: slots touched while one stays at or above the
  tip differ by less than two windows (`Recent`), so an LRU of that size
  remembers all that may still be repeated. With 8192 entries (redis.rs) it
  covers nodes that work at most 4096 slots ahead of their last finalized
  slot, however many producers there are. Both refinements,
  `ConsumerImplementsFeed` and `ConsumerImplementsOrderedFeed`, rest on it.
* `Backend_proofs`: `BackendRefinesRequests` shows that every step of main and
  the servers is a step of `RpcRequests` or a stutter, so that
  `RequestsInvariant`, proved of `RpcRequests` alone, holds of the process:
  a request stands in the queue once, only for a client that has sent it, and
  unanswered (`QueueOnce`, `QueuedUnanswered`); an answer is whole before it is
  sent (`WholeAnswers`); the flag is set only by a client that has left
  (`FlagOfLeavers`, why skipping is safe); a channel is dropped for one of the
  two reasons (`DropsExplained`). From it `NobodyWaitsForNothing` and
  `DropsAreShutdowns`. `EveryCallHasItsAnswer`: the update loop answers the
  queued calls in order and `Fill` puts the k-th answer in the k-th gap; both
  sides count with `Rank`, which numbers the gaps from 1 to how many there are
  (`RanksDiffer`, `RanksCover`), so that every gap gets its own answer
  (`FillGivesEachItsOwn`). `TypeCorrectness` includes the limit of the queue.
  `ShutdownLeavesNobody`: main has joined the server, the
  server its connections, so that no client is left waiting at the end.
* `Grpc2Redis_proofs`: `ProducerInvariant`, `TypeCorrectness`,
  `OnlyTheStartIsLost`, `ForksArePurged`, `HeardIsPassedOn`, `OrderIsKept`, for
  any block tree, blocks and number of restarts. The channel, the batch and
  Redis are one sequence, `Flow`: the task appends to it, main moves items
  along it without changing it, and a process that ends cuts it off. Hence
  order and exact blocks are proved once, of `Flow` (`FlowOK`). The rest says
  what the task has collected: of every slot whose block may still come,
  exactly what the node has sent since the subscription (`Gathered`,
  `NoneMissing`), which a purge respects because the node is done below its
  root.
* `WebSocket_proofs`: `ConnectionInvariant`, `SubscriberMissesNothing`,
  `ConfirmedFilterApplies`, for any capacity, sink, number of updates and
  calls. Beside the two properties the invariant says that the slot of the
  pending message is empty outside of the feed (`SlotTaken`, so no message is
  put over another), that only Close frames come after the loop, that nothing
  is on its way before a subscription, and that the filter in force is the
  last one confirmed (`LastConfirmed`). Every step keeps the messages on
  their way (`Queued`: wire, sink, slot), appends one to them or cuts them off
  (`Stays`, `Lengthens`, `Shortens`); both properties are shown once for each
  of these.
* `PrioritizationFees_proofs`, for messages, instruction lists and blocks of
  any length. `HeaderPartitions`: the slices of any message partition its
  keys. `BudgetIsExplained`: after i instructions the loop has counted and
  found exactly what stands in the first i (`Found`), so what it ends with
  explains the charge, wherever the requests stand. `PercentileSplits`: a
  percentile of a sorted list is a quantile of it; `Sorted` is shown to sort:
  ranks differ, so every rank from 1 to the length is taken, and the entry of
  a higher rank is not less. `PercentileIsQuantileHolds` is the same of the
  fees of any block. `FeeOutbidsHolds`: sorting is a bijection of positions
  (`RanksPermute`, `SortedCounts`) and collecting the prices of some
  transactions loses none (`CollectedCounts`), so a percentile, counted among
  the prices, is the lowest price that outbids those transactions
  (`PercentileOutbids`); a higher price outbids no fewer (`OutbidsMore`), so
  the maximum of the percentiles outbids them all.
  `EndpointsAgree` goes through every kind of call and what each endpoint
  parses of it, for all configured limits; it speaks of `Calls`, the shapes of
  parameters that the parsing tells apart. `FeesInvariant` carries these
  to `ReceivedIsPartitioned`, `FeeExplainedHolds` and
  `EndpointsCompatibleHolds`, invariants of `FeeRequests`.
  A fold over a sequence is recursive. What it returns is shown over the
  vector of its intermediate results: the vector exists (`FoldExists`,
  `ScanRuns`, `RoundsCollect`), and the first place where it is not as claimed
  would be a least number (`LeastNumber`). `Sorted` is written by ranks, since
  `SortSeq` says nothing a proof could use.
* `SolanaSchedule_proofs`: `ScheduleInvariant`, `FetchedOnce`,
  `LeadersAreTrue`, `KnownStaysKnown`.
  The invariant says that a stored schedule is the one of its epoch, because
  every task asks with a slot of the epoch it stores under (`SlotInEpoch`: the
  epoch and the index give the slot back). A failed task removes whatever
  stands for its epoch, which is its own marker: a known epoch has no task
  left. An epoch whose task panicked stays
  in progress for good: the code never asks again.

Every safety property of the passing runs is a theorem: invariants, the
action properties and both refinements. Only model-checked are the liveness
properties `EventuallyDelivered`, `EventuallyWritten` (of `Grpc2Redis` and of
`WebSocket`), `EventuallyDecided` and `ShutdownCompletes`, because fairness and
ENABLED are out of the prover's reach, and the four properties that the
violated runs refute. Where a proof needs induction over data (`Lineage`,
`Rollback`, folds), it goes by a least counterexample among numbers, since
the induction theorems of the library, which take an operator, cannot be
instantiated.

## Not modelled

Command line, configuration, tracing and version (`cli.rs`, `config.rs`,
`tracing.rs`, `version.rs`, `build.rs`): they run once before anything else
and leave values that are CONSTANTS here. `metrics.rs`: counters nothing reads
back. `ws-client` and the rest of `txmon` print what they receive. Of
`rpc_server.rs` the admin server's answers and the CORS headers, which have no
state. Of the statistics `total_fee` and the units consumed, sums without a
decision, and the wording of outputs. After an upgrade nobody waits for a
websocket's task: it ends with the process, whatever it still had to write.

## Plan

Done, because everything a client sees depends on it: the storage and its
feed, the consumer that provides the feed, the producer with restarts, the
update loop, requests, shutdown, websockets, the schedule, the conversion and
the statistics of transactions, the calls; and the proofs above. Left:

1. Two connected pieces that are separate now: `Grpc2Redis` as the producer of
   `RedisConsumer` (`OrderIsKept` discharges what it assumes of one producer's
   order), and `UpdateLoop`'s broadcasts as the source of `WebSocket`.
2. `total_fee` and units consumed, with their wrapping sums.

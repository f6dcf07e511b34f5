# TLA+ models of dex-blockchain-expert

A verification project for the Rust node under `src/dex-blockchain-expert/`:
TLA+ modules for the parts of the node that keep state and share it between
tasks, TLC configurations for small instances, and TLAPS proofs for every value
of the constants. Paths below are relative to `src/dex-blockchain-expert/src/`.

## 1. The system: inventory

| Component | State | Operations | What is hard | What makes it correct |
|---|---|---|---|---|
| State database (`state_machine/state.rs`) | three concurrent caches, `dirty_accounts` behind a lock, a key-value backend | get/set of accounts, storage, code; commit; rollback; snapshots | commit unlocks between writing and clearing; reads fill the cache after an await; eviction | what is read is what will be committed; what commit wrote is what was dirty |
| Transaction executor (`state_machine/executor.rs`) and block processor (`main.rs`) | accounts, the block, its groups, one worker per task | group by dependency, validate, execute, apply, commit | workers interleave on accounts; an error in the middle of a group | a block has the effect and the verdict of its transactions in order |
| Batch parallel executor (`state_machine/parallel.rs`) | read/write sets, in-degrees, layers, lock table | sort into layers, lock, execute, release, collect | lock check and insert are two steps; results applied after the layer | conflicting tasks never run together; nothing written is undone; everything runs |
| L1 memory cache (`storage/cache.rs`) | entries, LRU queue, access counts, size, each with its lock | get, put with eviction, remove, evict cold, clear | the eviction loop must end; unsigned size; four locks | size = weight of entries; every entry evictable |
| Layered storage (`storage/layered.rs`) | Bloom filter, prefetch cache, L1, pending write batch, RocksDB | get, get_with_prefetch, put, flush, batch_put, delete, batch_delete, compact | layers updated in separate steps; restarts; refused writes | a read answers the last write; an acknowledged put is not lost |
| DEX order book (`dex/orderbook.rs`, `dex/mod.rs`) | two price maps, id index, statistics, each behind an async lock | add, match, cancel, depth, quote | two maps updated under different locks; lock order | index = books; fills conserve amounts; price-time priority; every call returns |
| Tendermint (`consensus/tendermint.rs`) | height, round, step, votes, valid block | one loop: propose, prevote, precommit, new round; each state change under a timeout | quorum counting of one node's votes, a change half done when its timeout expires | a height is decided with a quorum of precommits only |
| HotStuff (`consensus/hotstuff.rs`) | view, timer, message and vote channels | main loop, message loop, view timer | bounded channels, three tasks | the loops go on; a block needs a certificate |
| Optimistic BFT (`consensus/optimistic_bft.rs`) | network conditions, executed blocks, messages | fast and normal proposals, optimistic execution, network monitor | execution ahead of commit, hearing what one has executed | a block is executed once, in the order of the proposals |
| AMM pool (`dex/amm.rs`) | reserves, LP shares, concentrated positions | swap, add/remove liquidity | rounding, zero reserves, a call that waits for its own locks | constant product never falls; shares are backed |
| MEV protection (`dex/mev_protection/`) | commitments and reveals; private bundles and searchers; the current auction; key shares | commit, reveal, slash, release; submit bundle, hand out, report; collect, seal, execute; encrypt, share, expire | deadlines against late reveals; checks and queueing under different locks; a call that waits for its own lock | what is handed out was submitted, once and in order |
| Flash loans (`defi/flash_loan.rs`) | one pool per token, active loans, history, each behind an async lock | add/remove liquidity, execute_loan (debit, store, callback, repay, settle, record), statistics | locks taken in both orders; a loan cut short between debit and credit; two balances kept apart | the balances account for every loan; the history holds repaid loans once |
| Perpetuals (`defi/perpetual.rs`) | market (open interest, mark price), positions, insurance fund | open, close, liquidate, add collateral | a call that waits for its own lock; check and removal in two locks; integer ratios | open interest = positions; collateral returned once; only positions past their price are seized |
| Options (`defi/options.rs`) | contracts, the clock | create, buy, exercise | any order of calls around the expiry | an option pays once, what it is worth |
| Cross-chain (`cross_chain/`) | locks, mints and the liquidity pool; the relayer's three tables; channels, commitments, receipts; trusted headers | lock, unlock, mint; submit, confirm, relay; open, send, receive, acknowledge, close; update header | equal locks of one second; several locks in different orders; duplicate, late or reordered messages; two updates of one client | the pool backs every open lock; a packet is taken once; the trusted headers are one chain |
| Layer 2 (`layer2/`) | pending transactions, sequencer, batches, challenges; encoded data | submit, batch, challenge, finalize; store, retrieve | a challenge against finalization, calls that wait for their own lock or are dropped half-way; rounding of shard sizes | batches are one chain; only dropped calls lose transactions; what is final stays; what was stored is retrieved |
| Snapshots (`storage/snapshot.rs`) | snapshots, deltas, sync state | create full or delta, apply, clean up, sync | deltas in any order, clean-up | a rebuilt replica is the state of its height |
| Merkle trie (`storage/merkle_trie.rs`) | nodes by hash, path cache, pending batch | insert, delete, lookup, prove, commit | shared nodes, odd paths, a cache filled by an overtaken read | a lookup finds what was committed |
| Network (`network/mod.rs`) | transaction pool, peers and their queues | add, remove, prune; broadcast, add peer, measure latency | limits per account; guards held over waits | the limits hold; peers stay reachable |
| Keys (`security/key_management.rs`) | keys, recovery shares, multi-signature transactions | generate, rotate, batch-rotate, revoke, recover, sign | overlapping rotations, a hardware wallet that fails between two steps | a retired key has a successor; a transaction runs once with enough signers |
| Runtime optimisations (`optimization/`) | batch queue and permits; ring buffer; slabs, arena, object pools | submit, cut, run; read, write; allocate, free, clear | racing averages; wrap-around; clear against allocate | each item in one place; a buffer is a queue; a block has one owner |
| EVM compatibility (`evm_compat/`) | execution cache, prefetch queue | execute_batch by conflict groups | callers race to fill the cache | results are those of the transactions, in a contract's order |
| Smart order routing (`dex/smart_routing/`) | the agenda and labels of a search | find_all_paths | hop limits against cost labels, ties | routes, and no route missed |
| Hyperliquid integration (`hyperliquid/`) | a vault's value, shares and deposits; the open orders | deposit, withdraw; place, modify, cancel, cancel all | a stale copy, withdrawals of less than the deposits; a remote answer between check and removal | the deposits back the shares; one replacement per order |
| Liquidity manager, router, lending, yield farming, privacy, AI trading, monitoring | see the files | stubs, computations and reads | floating point, cryptography | not modelled |

The components meet as follows. Consensus hands blocks to the block processor of
`main.rs`; it has the executor run the block on the state database and then
commits; the state database reads and writes the layered storage, which has the
memory cache in front of RocksDB. The order book is called by the tasks of the
API through `DexEngine`, which hands a transaction to one of the MEV protections.
`DeFiProtocol` (`defi/mod.rs`) owns one flash loan provider, perpetual engine and
option protocol and forwards to them; they and the AMM pools share no state.
`CrossChainManager` locks in the bridge and submits the lock's id to the relayer;
`Layer2Manager` sends a transaction to one of the two rollups. The other parts
of the table are used through their own interface only.

Three of the engines do far less than their names say, and the models show why:
a Tendermint node only hears its own prevote, a HotStuff node refuses its first
certificate, the optimistic engine drops every proposal of epoch 0 that it hears. What lies
behind those gates never runs and is not modelled.

## 2. Modules

Every module of an operation that awaits or locks has one action per stretch of
code between two waits, with the program counter of each task in `pc`. An action
named `X_Y` above the action `X` is a mutated form of `X`, a bug that the
properties must notice; it is part of no specification.

* **OrderBook** - `book` is `buy_orders`/`sell_orders`, `index` is `order_index`,
  `writer`/`readers` are the locks' holders. `AddIndex`, `AddBook` are
  `add_limit_order`; `MatchStart`, `MatchFill`, `MatchIndex`, `MatchEnd`,
  `MatchStats` are `match_order` with its two sides; `CancelIndex`, `CancelBook`
  are `cancel_order`; `DepthBuy`, `DepthSell` are `get_depth`; `MarketBuyCost` is
  `calculate_market_buy`. An order's id is the call that added it: ids are drawn
  at random and nobody can cancel an order before its id is known (`KnownIds`).
* **StateDB** - the caches, the dirty accounts with their lock and the backend.
  `GetMiss`/`GetLoad`/`GetInsert`, `SetAccount`/`SetDirty`, `SetCode`/
  `SetCodeAccount`, `CommitBegin` .. `CommitClear` with `CommitFail`,
  `Rollback`/`RollbackClear`, the snapshots, and `SetDirtyEvict`: the eviction
  that blocks on its own iterator. Storage keys have two forms (`Forms`):
  `get_storage` reads the one that nothing writes, so it never fills the cache
  and is no action.
* **Executor** - `Deps`, `Pass`, `GroupByDependency` compute the groups as the
  code does, dependants of the same pass included; `Take`, `Validate`, `ReadFrom`,
  `ReadTo`, `Apply` are a worker on one transaction; `Deliver`, `NextGroup`,
  `BlockFails`, `BlockExecuted`, `CommitState`, `LogError` are the block
  processor. The state database is the map `accounts` here. `Ref...` operators
  are the reference: transactions one after the other.
* **ParallelExecutor** - `SortLayer` is one round of `topological_sort`;
  `StartBatch`, `Take`, `LockCheck`, `LockInsert`, `Execute`, `Release`, `Collect`
  are `execute_parallel_batch`. Of an account only the last writer is kept.
* **LossyCache** - the abstract cache: entries may vanish, an entry changes only
  to a value that is put, everything fits. **MemoryCache** implements it
  (`KeepsPromise`); **LayeredStorage** is written over it (`L1Put`, `Compact`).
* **MemoryCache** - the four fields of the cache and `put` with its loop
  (`PutStart`, `PutEvict`, `PutInsert`), `Get`, `RemoveEntry`, `EvictColdEntries`, and
  the four steps of `clear`. Sizes are computed modulo `Word`, as a release build
  does modulo 2^64.
* **LayeredStorage** - the layers and each task's operation in progress. The
  Bloom filter is the set of keys it answers true for; adding a key may complete
  others (`BloomAdd`). A restart (`Crash`) keeps only RocksDB.
* **FlashLoan** - `pool` is the token's `LiquidityPool`, `loans` the active loans,
  `records` the history, `lockW`/`lockR` the holders of the three locks, `step`
  the place of each call. `LoanDebit` .. `LoanRecord` are `execute_loan` and
  `complete_repayment`. `LoanGiveUp` drops a call's future at any wait: guards are
  released, writes stay. tokio queues waiters fairly; the model lets any waiter
  that can go first, which only adds behaviours. A standstill needs a circle of
  lock holders, and queueing adds no holder.
* **AmmPool** - reserves, supply, shares and concentrated positions, with every
  division of the code. The calls that change a pool wait for their own locks in
  `update_oracle` (`waiting`) until `GiveUp`.
* **Perpetual** - one market; `at` is the place of each call. `OpenInsert` is the
  last step `open_position` ever takes. Because the funding rate and the mark price
  are never written after `create_market`, profit and funding are always 0.
* **OptionsProtocol** - a contract is at most one record per id; calls are atomic
  under the one lock; `Tick` moves the clock.
* **CommitReveal**, **PrivatePool**, **BatchAuction**, **ThresholdEncryption** -
  the four protections. In CommitReveal and BatchAuction every call keeps its lock
  from first check to last write and is one action; in PrivatePool `SubmitBundle`,
  `AddBundle` and `UpdateSearcherStats` are apart, as the code checks the searcher, queues the
  bundle and writes the profile under different locks. In ThresholdEncryption `shareLock`
  and `promiseReaders` are the guards a call keeps while it waits.
* **Bridge** - `lockedAssets`, the liquidity pool, mappings and mints; a lock is
  named by what its id is hashed from, so two equal locks of a second are one.
* **Relayer** - the queue, the pending and the relayed messages, each with its
  lock's holder in `relayAt`; loops, submissions and statistics take two locks
  in the order of their code.
* **IBC** - two handlers; `wire` and `ackWire` are the network: what was sent stays
  there and may be delivered at any time and any number of times.
* **LightClient** - the check and the store of `update_header` are two actions,
  kept apart by the manager's `clientLock`.
* **Layer2** - both rollups and the erasure coding of `data_availability.rs`. The
  submission that fills a batch, and a challenge, wait for their own lock: `rollupLock`,
  until the caller gives up. `BatchTakes`, `BatchSequences`, `BatchStores`, `BatchRoots` are the
  stretches of `create_batch`; `BatchGivesUp` drops it at a wait between them, and `taken` and
  `sequenced` keep what the dropped call had in hand, for the properties only.
* **Tendermint** - one turn of the loop is one step, as all its waits are for the
  node's own channels; a handler with `expired` = TRUE is one whose state change was cut short
  by its timeout.
* **HotStuff**, **OptimisticBFT** - main loop, message loop and timer or monitor as
  separate actions over bounded channels. In OptimisticBFT `HearsProposal` is the handler of
  both kinds of proposals, with the execution behind `quick_verify` that no proposal reaches.
* **Snapshots** - `worlds` are the caller's states per height; `replica` is what is
  rebuilt from snapshots and deltas.
* **MerkleTrie** - nodes are named by their content, which is what a hash is; the
  nibble encoding is the one of the code, odd paths included.
* **Network** - the pool's three tables, and the peers behind their lock with the
  guards of each call in `netCall`.
* **KeyManagement** - mark, generate and retire of a rotation are three actions; a
  hardware wallet may fail in between. The wallet's transactions are independent.
* **BatchProcessor**, **RingBuffer**, **MemoryPool** - the processing loop and its
  tasks; the two positions and `is_full`; slab, arena and object pool.
* **ParallelEvm** - the groups of `analyze_transactions`, one result at a time.
* **Hyperliquid** - a vault, whose deposits and withdrawals read a copy first and write back
  in steps; and the cache of open orders. `CancelAsks`, `ExchangeAccepts`/`ExchangeRefuses`,
  `CancelRetains` are `cancel_order`, which keeps its read guard while the exchange answers;
  `StartModify` and `StartCancelAll` go through it, and a modification goes on to `PlaceInserts`
  or is lost in `PlaceRefused`. The exchange answers as it likes.
* **PathFinder** - one call of `find_all_paths`: Dijkstra on an agenda that yields any of its
  cheapest nodes, then the breadth-first and depth-first walks, then the sorted result.
  `Routes` and `RouteCost` are the reference.
* **Maps** - functions with a changing domain: `Put`, `Drop` and the like; and the lemmas
  about induction, sums, loops and retained sequences.
* **MC...** modules give TLC its instances. StateDBHistory and MCLayeredStorage add
  history variables (whether operations overlapped, whether a snapshot was
  restored, whether a crash or a refused write happened) on which some of the
  properties depend. MCFinance, MCChains, MCNode and MCServices each run several
  modules, one per behaviour (`focus`): those modules share no state and never
  call each other, so their product would show nothing more. OrderBook, Executor and
  ParallelExecutor are their own instances.
* **...Proofs** modules hold the theorems, one module for each group of components; Maps holds
  the lemmas that several of them use, StateDBHistory its own theorems.

## 3. Runs

| Run | Shows |
|---|---|
| `orderbook` | The index and the two books, written under different locks, differ only by the calls between their two writes, and amounts and statistics are conserved although statistics are applied late (`BookKeepsAccount`); price-time priority, cancels are final, a quote is what a market buy pays (`TradesAreFair`). |
| `orderbook_deadlock` (violation) | `cancel_order` (index, then side) and `match_order` (side, then index) wait for each other. |
| `statedb` | While commit keeps its guard the backend holds what is dirty (`CommitsPersist`); as long as operations do not overlap and no snapshot is restored, what is read is what will be committed, through failing commits, and no code is lost (`ReadsStayTrue`). |
| `executor` | With transactions that touch different accounts the workers' interleavings have the serial effect and verdict, failing transactions included (`SerialWhenFree`); every non-empty block ends (`BlockEnds`). |
| `parallel` | No layer is empty, conflicting tasks never run together, no lock is contended, no collected write is undone (`BatchesRunSafely`); every task is executed (`AllExecuted`). |
| `parallel_order` (violation) | The layers come out in reverse: a task runs before those it depends on. |
| `layered` | The Bloom filter covers every held key (`FilterCovers`); the counter covers the batch, batch writes read back while operations do not overlap, no acknowledged put is lost without a crash or refusal (`WritesKept`). |
| `layered_restart` (violation) | A stored key reads as missing after a restart. |
| `finance` | Flash loans: two lock inversions are the only standstills (`LoansSound`) and both balances account for deposits, withdrawals, fees, profits and the loans cut short (`PoolsAccount`, with the AMM's shares and ranges). AMM: `RoundTripLoses`, `DilutionIsDust`. Perpetuals and options: `DerivativesSound`. MEV: a revealed transaction is handed out once and never slashed, an auction order is executed at most twice - the code puts it into a second batch - (`ExecutedAsOften`), bundles go by bid, then arrival (`BundlesServedInOrder`), every share past a threshold has cost a call that never returned (`ThresholdsCostCalls`). The path search returns routes, the shortest first, and fails only when there is none - for the pools that the router passes or with hops enough (`PathsFound`). The deposits back a vault's shares, and an order is replaced twice only when two calls cancelled it at once (`ExchangeSound`). |
| `chains` | `LiquidityBacksLocks`; `RelaySound`, with the pairs of calls that can block each other; `PacketsAccounted` over a network that loses, repeats and reorders; `TrustedChain`; `RetrieveIsStored`; `RollupSound`: the batches that were numbered are one chain, a stored batch, a root or a transaction is missing only with a call that is under way or was dropped, and what is final stays so but for challenges admitted in time. |
| `node` | `NothingDecided` and `ProposalsRunOut` say where two engines come to rest, `ExecutedOnce` that the third executes no block twice or out of order though it hears its own proposals; `ReplicaIsFaithful`, `LookupsNeverLie`, `PoolKeepsLimits`, `MeasureClosesPeers`, `KeysRetire`. |
| `services` | The L1 cache: `CacheSound`, and `CacheServes`: the refinement of LossyCache, and every put ends. `BatchesAccounted`, `SubmissionsSettle`, `BuffersSound`, `ResultsFollowGroups`. |

A property that joins several named parts is one question of the run; the parts are defined
beside it and commented one by one.

**Bounds.** `orderbook`: three calls are enough for add, match and cancel to meet,
for two makers to compete for a taker and for two matches to reach the statistics
in either order; price 0 and amount 0 reach the rejections, amounts 1 and 2 the
partial fills. `statedb`: two tasks on one address with two account values (with
and without code) and a cache of size 0, so that every write may evict; the races
need one address only. `executor`: blocks of at most two transactions out of all
combinations of senders, recipients, values and gas limits, and one of three for
two workers; one block per behaviour. `parallel`: all blocks of three
transactions out of twelve. `layered`: one key of each kind, two values, a batch of
two puts; a behaviour has either overlap or trouble (crash, refused write), each
alone with everything else.

`finance`: three calls on the loans (a deposit and two loans, or a loan against
the statistics) with an amount whose fee rounds to 0, one that pays a fee, and one
that only the profit of a loan makes available; pools up to `MaxReserve` = 14
tokens, where every division has a remainder and both reserves can be drained
to 1; three calls on the perpetuals, with leverages that are refused, divide by 0,
are usual and are extreme; strikes below, at and above the spot price, expiry before, at
and after the clock; three secrets, two of them with the same gas price, with seconds
before, at and after a deadline; three bundles of one searcher with equal and
different bids, below and above the least one; four orders for batches of two or
three; three calls on two thresholds of two shares; 222 lists of pools between four tokens, with
parallel pools, ties and detours, under one, two and three hops; two callers of a vault at two
times; two calls on three orders, the least for an order to be replaced twice.
`chains`: amounts below, at and above the limits and two locks in the same or another second;
three submissions of two ids against two loops and the statistics; three channels (two
on one chain) with two packets each; six headers with a fork, a late one and one
without a quorum, in a window of two; two batches against two challenges before and after
the deadline, each call possibly dropped at any wait (the calls of one kind, and the transactions of
one kind, are symmetric); lengths up to 14 bytes over four data shards, past every remainder twice.
`node`: three rounds of four validators; channels of two and three slots; five
proposals, fast or normal, against a cap of two and a channel of two; three heights with one snapshot kept; five updates of
three two-nibble keys that share first or second nibbles, a batch of two, and a reader
that a commit may overtake; three transactions of two accounts in a pool of two;
two calls on two peers with one slot each; three keys and two callers.
`services`: one thread, three keys and values of length 1, 2 and 4 in a cache of 3, at most
`MaxQueue` = 5 places in the queue (the code does not bound it); four items, batches of two
and two permits; a ring of four bytes with slices of up to three; two slabs of three
blocks; four chunks, with sizes that fit, need alignment and do not fit; two batches that share transactions, a cache of two. The average of
`BatchProcessor` needs nothing larger: its claim is about one rounding step.

Deadlock is not checked where calls are finite and the system may come to
rest; in `statedb` also because an eviction blocks for ever.

**Fairness.** Weak fairness of the steps of an operation that has started, never
of the start of one: the tokio runtime polls a task that can go on and the
operating system runs a runnable thread. A lock is granted to some waiter: no
property needs a stronger order among waiters. `CacheFairness` is that of `put`'s
loop; `BpFairness` is that of the processing loop and of each task, and of time
passing (`max_wait_time` is over at some point). Consensus, snapshots and the rest are
checked for safety only.

**What the code does that the properties exclude.** The conditions of several
properties are there because the code needs them, and are visible in the models:
two transactions of one sender land in one group and race; a failed block keeps
what was applied; an empty block divides by zero (`BlockExecuted`, phase
`dead`); a payment to oneself leaves the nonce; a read that fills the account
cache, or promotes into L1, may overwrite a newer value; a restored snapshot
leaves the dirty accounts; a put waiting in the batch is invisible once L1
evicts it and lost by a crash; a prefetched value is never refreshed; read locks
of the batch executor are released for task 0 only; `clear` beside `put` splits
the cache's size from its entries, and a later put may spin for ever, so the
cache has one thread in `services`; two payments of one block to one account may lose a
credit, so `SerialWhenFree` is about transactions that touch different accounts; a write between
commit's unlock and its clear is never persisted, so `ReadsStayTrue` is about
operations that do not overlap; a liquidation takes no open interest off, and two
liquidators who both passed the check both pay the insurance fund; the profit of
a flash loan can be withdrawn only by a call that panics half-way; the constants
`1000 * 10^18` and `2000 * 10^18` overflow 64 bits, which a debug build refuses, so
the perpetuals and options are those of a release build; a smaller withdrawal leaves
a vault's deposit whole; a trie key below an even split may not be found at all; a
replica keeps slots that were deleted; a transaction sent twice may come back after its removal;
a label of Dijkstra's hides a short way behind a cheap detour, so `PathsFound` says when a
search may not fail; an order that is modified is gone if its replacement is refused; an
allocation made between the two steps of the arena's `clear` is dropped with the rest, so `given`
forgets it; a
`create_batch` dropped before it has the sequencer loses the transactions it popped, dropped later
it leaves a gap in the stored chain that the next batch builds on, or a batch without a root.

**What no property covers.** `update_oracle` of a pool waits for locks its caller holds
(`dex/amm.rs:287`; the model has it, as `waiting`); a DashMap is removed from while
it is iterated (`state_machine/state.rs:205`, `SetDirtyEvict`); the trie takes a read
lock again while it holds it; the arena's statistics and `allocate`, and a vault's
deposit and withdrawal, take two locks in both orders; the maintenance margin in
percent is added to basis points (`defi/perpetual.rs:407`); optimistic executions beyond the cap
are forgotten without a commit or an undo (`consensus/optimistic_bft.rs:453`; `optimistic_execute` only fills
the queue, and the one undo, `rollback_to_height`, never runs); `create_market` overflows in
a debug build (`:443`); `delete` leaves the pending batch alone (`storage/layered.rs:319`).
Each follows from reading one function; a property would restate it.

## 4. Proofs

All theorems hold for any number of tasks, keys, values, transactions and workers,
under the named assumptions of the modules. Each is an inductive invariant
with a lemma per action or per group of actions, and most are about the property that a run checks.

* **StateDBHistory** - `TypeCorrect`, `CommitPersists` (`CommitPersistsDirty`) and both as
  `CommitsAlwaysPersist`.
  The invariant adds to the types that a task inside an operation has the
  arguments its next step uses, that a task between `CommitBegin` and
  `CommitBlock` is among the readers, that its batch's accounts are the dirty
  accounts, and that no writer is possible while there are readers.
  `ReadsAlwaysTrue` (`ReadsStayTrue`): `AloneInv` adds, while operations follow one another, what the
  one under way holds, and that for every address what a read sees is what a commit would leave
  unless a step of a write or a rollback is outstanding; no step takes a code from the backend.
* **LayeredStorageProofs** - `TypeCorrect`, `BloomNeverMisses` (with the key of
  every operation in the filter as the strengthening), both as `FilterAlwaysCovers`; `AckedPutsSurvive`: no
  acknowledged put is lost when nothing crashes or refuses; `BatchesReadBack`:
  for one task without prefetch, whatever is evicted, fails or crashes; and
  `WritesAlwaysKept` (`WritesKept`). The last three assume that keys written with `put` and with
  `batch_put` are different (`PutKeys \cap BatchKeys = {}`), and the last one that every value fits
  L1 (`Large = {}`): a value that does not, and a key written both ways, are what loses a write.
* **Maps** - `NatSteps` and `FiniteSteps` are induction over numbers and over finite sets in
  first-order form (a set of numbers, or of subsets, that is closed under one more step is
  everything), so no operator has to be passed. From them `SumsExist` and `SumIs`:
  what `SumFunctionOnSet`, which is recursive, returns; then `SumStep`, `SumAdd`, `SumRemove`,
  `SumChange`, `SumSame`, `SumNat` and `SumOneMore`, which the accounting invariants below are made
  of; `StepsExist`: a loop over 1..n has the values its definition says; `RetainedIs`: what
  `Vec::retain` keeps, in which order; `Copies`, with `OrdersAre` and `FlattenSteps`: how often a
  value is in what an append, a sort or a flattening returns; `Extremes`: a finite set has a least
  and a greatest number.

**OrderBookProofs**, for any numbers of calls, prices and amounts:

* `BookAlwaysKeepsAccount` (`BookKeepsAccount`). `IndexBookAgree` is not inductive alone:
  `ShapeInv` adds that an order is at one level only, once, with what its owner added less what
  was traded; that the index holds what owners added; and what a call has in hand between two of
  its writes (a match its side's lock and a maker that is off the book, a cancel the
  index's lock and an order someone added). `StatsAccount` is a sum that a fill and the
  statistics change by the same amount.
* `TradesStayFair` (`TradesAreFair`), about steps. `TimeInv` adds that the orders of a level stand
  in the order they arrived, through every fill and cancel (`RetainedIs`), which with `BestIsBest`
  makes a fill fair; `CancelledGone`, a part of `ShapeInv`, makes a cancel final. For the quote,
  `FirstAsk`: the asks in ascending order begin with the maker of the next fill, and a fill
  leaves the rest as they were; and `TradedLessOwed`: the quote goes down by what a trade pays.

**FinanceProofs**, for any finite sets of calls, providers and transactions:

* Flash loans: `LoansTyped`: `LoanTypeOK` is inductive as it stands, since
  it says for every lock which stretch of code holds it. `OnlyInversionsBlock`
  follows from it: a blocked call waits for a holder, and following holders ends
  in one of the two inversions after at most three steps. `LoansAlwaysSound` is both.
* `PoolsAlwaysAccount` (`PoolsAccount`). For the loans, `LoanInv` adds where a call that reached
  a step has its loan and its record: with it a step moves at most one loan into or out of
  `Out` and `Back`, and each sum changes by that loan (`LoanGoesOut`, `LoanComesBack`,
  `QuietKeepsSums`). For the AMM, `AmmInv` adds the types of the ranges; the first
  liquidity needs that the code's Newton iteration ends in a number no greater than the
  argument (`SqrtIsNat`), every other step a bound on a division.
* `SwapKeepsProduct`, `RoundTripNeverPays` and `StepsDiluteByDust` are about single steps from
  any well-formed state; with `AmmInv` they give `RoundTripsAlwaysLose` (`RoundTripLoses`) and
  `DilutionIsAlwaysDust` (`DilutionIsDust`) of every behaviour.
* `DerivativesAlwaysSound` (`DerivativesSound`). `PerpInv`: who holds the guards, that a
  position's id is the call that opened it, that a call with a position in hand keeps others
  from it, and that a call cut short leaves what it left; then the open interest of a
  side changes with one position or one opening at a time. `OptionInv`: a put's collateral is
  its strike's worth, and what was paid says whether it was exercised.
* `ExecutedAlwaysAsOften` (`ExecutedAsOften`), for any transactions, prices and limits. `RevealInv`: a
  transaction is in the lists that were handed out and in the reveals that wait together exactly
  as often as its commitment says it was revealed, once or never, and a commitment that was slashed
  is gone. `AuctionInv`: the pending queue, the current batch and the executed ones hold an order twice
  together at most, the queue once, and before it was submitted nowhere. What a step moves from
  one of these sequences to another it counts with `Copies`: `RevealsSplit` for the reveals whose time
  has come, `Drained` for what a batch takes from the queue, `FlattenAppend` for a list that is handed out,
  `OrdersAre` for the sort by price, whose order among equals (nonces, the shuffle) may be any.
* `ThresholdsAlwaysCost` (`ThresholdsCostCalls`): a call is stuck exactly while it holds the
  key shares, and the shares past the thresholds are the calls that gave up there and the one
  that is stuck.
* `BundlesAlwaysInOrder` (`BundlesServedInOrder`). `PrivateInv`: an entry of the queue or of a list
  that was handed out is what an admitted bundle asked for; the queue is in the order of bids
  and, between equal ones, of queueing, which `Place` keeps wherever it inserts; a
  bundle is in one place once; and one that was queued is still there, was served, or is past its
  last block (`RetainedIs` says what a call for bundles leaves behind).
* `PathsAlwaysFound` (`PathsFound`), for any tokens, pools and hop limits, and whichever of the
  cheapest nodes the heap yields. `PathInv` is about the three searches in turn. Dijkstra's:
  a label never exceeds the cost of a node that has the token on its path, and every token that a
  route goes on from either has a node with its label's cost on the agenda or all its neighbours are
  reached at the cost of the hop (`IsCovered`). So following a route from its start, either the
  agenda holds something no dearer than it, or its end is reached (`AgendaIsAhead`), and the
  first arrival is a cheapest. Only a node as dear as its label can uncover a token, and
  it has hops left exactly where `LabelsSuffice` (`HopsSuffice`). The breadth first search: every route
  begins on the queue, whose paths differ by one hop at most. The result: `SortedIs` says what a sort
  by key returns, `DeduplicatedIs` that each path comes once and a shortest one first. The costs
  are sums over hops (`CostsRise`), the loop over the edges is a recursive function (`RelaxedSteps`).
* `ExchangeAlwaysSound` (`ExchangeSound`). `VaultInv`: the totals are the sums of the deposits, with
  the amounts of the calls that are between two of their writes; a withdrawal between its two writes
  holds the vaults, so no deposit can be entered there. What it retires is counted only while no
  withdrawal worked on a copy that had changed or on less than its account held (`overtaken`):
  such a one leaves deposits whole that it paid out of. `OrderInv`: an order that was replaced is
  gone from the cache, and every second claim on one comes from a cancellation that was asked while
  another one of the same order was.

**ChainsProofs** (and the executor):

* `BlockIsSerial` (`SerialWhenFree`), for any accounts and workers and blocks of at most two
  transactions of a sender. `ShapeInv`: only transactions of the group at the head are with
  workers. `NonceInv` bounds a nonce by what the blocks delivered so far can have made of it
  (`Highest`), so every contract's address is one that the model has. `PartsInv`, for a block whose
  transactions share no account, which is one group: a transaction finds its own accounts as they
  were at the start until it writes them, and leaves there what its step of the reference gives
  (`Part`). The reference's states are a loop over the block, and an account is changed in it by its own
  transaction only. `ExecutorAssumption` says what a transaction is, that there is a worker, and that
  contracts' addresses are no senders'.
* `LiquidityAlwaysBacks` (`LiquidityBacksLocks`): the amounts of the held locks are a sum that a
  lock or an unlock changes by one amount.
* `RelayAlwaysSound` (`RelaySound`). `RelayCounts`: the times a transfer was relayed, its ready copies in
  the queue and in loops' hands and its wait for confirmations are together no more than the
  submissions of its id that returned. `Copies` counts an element of a sequence, and
  `CopiesOfBoth` and `CopiesOfSome` say what joining and retaining do to it. `RelayHolders`, where each
  lock's holder stands, leaves only the three known pairs of calls that can wait for each other.
* `RetrieveIsAlwaysStored` (`RetrieveIsStored`), for data of any length under the 4 and 2 shards
  that the code sets (`DataAssumption`): in what `encode` survives each shard begins where the one before it
  ends (`ShardsMeet`), so the first four joined are the datum (`SlicesJoin`, `FlattenSteps`);
  which lengths it survives is arithmetic on the length's remainder by four (`PanicsAt`).
* `PacketsAlwaysAccounted` (`PacketsAccounted`): sequence numbers are dense per channel, a packet
  is named by its channel and number, and the tables are what was sent and what was taken.
* `AlwaysTrustedChain` (`TrustedChain`): a header between check and store was checked
  against the headers that are still there, as its call holds the lock; heights ascend and
  neighbours are linked, also after the window moved.
* `RollupAlwaysSound` (`RollupSound`). `CallsHold`: what a call of `create_batch` has in hand where it
  stands, a dropped one included; `NumbersOnce`: no number is given out twice, and what a call stored
  is what it numbered; `LinksFollow`: the numbered batches, stored or not, are a chain that ends in the
  sequencer's root, which storing, dropping and writing roots leave alone; `RootsStored`. A call past
  admission was in time for a batch that is stored, and the one with the challenges is on record. `GrowsApart`,
  `SplitsApart` and `MovesApart` are the lemmas on a family of sequences
  without a repeated element: a submission, a batch popped, a batch moved on.

**NodeProofs**:

* `NeverDecides` (`NothingDecided`), for any number of validators and of
  rounds. The invariant says what the vote table can hold: prevotes of past
  and present rounds of height 1, never a precommit, so the threshold of precommits (at least
  one vote) is never met and the state is never `Commit`.
* `KeysAlwaysRetire` (`KeysRetire`), for any number of keys, callers and
  signers. `KeyInv`: the keys' ids are 1..n; a caller between mark and retire holds an existing
  key that is no longer active, and one with a successor before it retires it; what each status
  says of the successors. `WalletInv`: a waiting transaction has fewer signers than the
  threshold, one that ran did so once, with exactly as many.
* `ProposalsAlwaysRunOut` (`ProposalsRunOut`): the view is the number of ticks, halved, and the
  votes are the proposals but for the one under way.
* `PoolAlwaysKeepsLimits` (`PoolKeepsLimits`): besides the limits, that a
  transaction is never pending and queued at once while nothing was sent twice. `PeersStayClosed`
  (`MeasureClosesPeers`): the caller that asks to write is the reader it waits for.
* `ExecutionsAlwaysOnce` (`ExecutedOnce`), for any cap of at least one and any channel. `BftInv`: the
  executions ascend and none is above the last proposal; a proposal under way is `Settled`, which one
  more execution keeps, as it pushes out the oldest (`ExecutesNext`).
* `ReplicaAlwaysFaithful` (`ReplicaIsFaithful`): every delta that is kept is `DeltaOf` the two
  worlds it names, whatever was cleaned up, and applying one to a faithful replica of
  its start gives a faithful replica of its end. It assumes that no account is both plain and
  a contract (`Codes \cap PlainAccounts = {}`), as the model's accounts are.
* The parallel executor: `TypeCorrect`; `NoEmptyLayer`: `inDegree` is the
  number of remaining dependants, and the largest remaining id has none;
  `ConflictFreeWorkers`: two members of one layer cannot depend on each other,
  so they do not conflict; `LocksAlwaysFree`: a write lock is held only by an
  active task on its own write set; `CollectedWritesSurvive`: what a task read
  back is still the last version when its layer ends.

**ServicesProofs**:

* `CacheAlwaysSound` (`CacheSound`), for any threads, keys, values and lengths. `CacheInv` adds that
  what a put inserts fits and is not in the cache before, and that inside `clear` nothing is left to
  count; then a step changes the sum of the weights by those of the entries it adds or
  evicts (`SumSplit`), and no subtraction wraps. It assumes `ClearsApart`, one thread or no `clear`: a
  `clear` beside a put splits size and entries, as said above.
* `CacheIsLossyCache` (`KeepsPromise`): under the same invariant every step is one of LossyCache or
  leaves its entries alone.
* `BufferIsQueue`: for every capacity and slices of any length the
  two positions with `is_full` stand for the sequence of bytes written and not read, through every wrap.
  The copy loops are described per byte, so a write or read of many bytes is one step of the proof.
* `BuffersAlwaysSound` (`BuffersSound`): that and the allocators. A slab's free list and its
  blocks in use partition its offsets; what the arena gave from a chunk lies below what that
  chunk counts as used, whether it was put aside or not; a pool holds clean objects.
* `BatchesAlwaysAccounted` (`BatchesAccounted`): no item twice in a queue or batch, the batches disjoint, and
  for at most 90 items per batch an average that its own rounding keeps nine below. It assumes the first
  maximum is in 1..1000, the range the code adapts in.
* `ResultsAlwaysFollowGroups` (`ResultsFollowGroups`), for any calls, batches and cache. It is
  a fact about `AnalyzeTransactions` first: what the groups of the first n positions
  hold keeps, contract by contract, the batch's own order (`InOrder`), because a position that leads has
  all its contract behind it and one that does not is in a group already (`GroupIsNew`, `AllTaken`).
  `RetainedSplits`, `RetainedJoins` and `FlattenSteps` carry it from one group to the
  next. The steps then only move the head of what is left to the results. It assumes that the calls are
  finitely many and the cache has room for one.

**Left to TLC.** Liveness (`BlockEnds`, `AllExecuted`, `CacheServes`, `SubmissionsSettle`,
`EveryCallReturns`), which the provers do not do. The trie (`LookupsNeverLie`), whose nodes nest to
any depth: its operators recurse over them, and the prover loses its SMT backend in a module with a
`RECURSIVE` operator. The prover cannot expand `SelectSeq`, `SortSeq` or a `LAMBDA` passed to a fold
either: recursive functions, `Retained`, `OrdersBy` and the sums, for which Maps has the lemmas,
are used wherever a proof needs one.

## 5. Plan

Done: every component of the table but for the last row. What would add most next:

1. `LookupsNeverLie` for keys and tries of any depth, which needs the trie's operators as recursive
   functions over nodes of a bounded height.
2. The bridge and the relayer in one model, when the code gives `complete_transfer` a way to
   succeed.

## 6. Not modelled

* **Lending, yield farming, liquidity manager** (`defi/lending.rs`, `defi/yield_farming.rs`,
  `dex/liquidity.rs`): stubs. `deposit`, `borrow` and `stake` each add to one map entry under one
  lock, nothing is ever taken back, no interest accrues and rewards are the constant 0: there is
  nothing a model could show.
* **The rest of the router** (`dex/router.rs`, `dex/smart_routing/`): `evaluate_path` takes the
  tokens of a path for pool addresses and looks them up as such, so no path becomes a route and no
  route is cached; the aggregator's sources are never filled; splits and gas are floating point.
* **AI trading**: floating-point models and random search.
* **Privacy**: proofs, commitments and nullifiers are placeholders (`unshield_tokens` checks only that
  the public inputs are not empty, and no set of nullifiers is kept); the rest is cryptography.
* **Monitoring**: counters and exporters.
* **Built-in formal verification** (`security/formal_verification.rs`): a stub over strings.
* **Never reached**: HotStuff behind `verify_qc`; the voting, commit, rollback and speculation
  of the optimistic engine; `handle_commit` of Tendermint; `complete_transfer`; the
  resolution of a rollup challenge and the ZK batch; the EVM's prefetch worker and JIT.
* **Layer 2 channels** (`state_channel.rs`): a record without concurrency.

Within the modelled ones: hashing, signatures and serialisation (opaque), logging,
receipts and latency statistics, `iter_prefix` and other pure reads, L3 (it never
answers), option premiums, funding rates (never reached), the price oracle of the
pools (never updated), conditional orders and the hidden part of icebergs (the code drops
them), mmap, sendfile and the asynchronous file and connection helpers (I/O), and of the
exchange's client its API, positions and market data (copied from the remote service) and
`pending_orders` (nothing reads it).

# TLA+ verification of core-geth (Bullions)

The repository is core-geth, a fork of go-ethereum: a node of an Ethereum-like
chain. This directory holds TLA+ models of the node's concurrent and
fault-handling logic, the TLC configurations that check them on small instances,
and TLAPS proofs that hold for every instance. `PROJECT.json` is the index: every
definition with the source lines it models, every run, mutant, finding, hazard
and theorem.

To check a run: `tlc -config <cfg> <MC module>`. To check the proofs: `tlapm` on each
module whose name ends in `Proofs`.

## 1. Inventory

### 1.1 The parts that carry the node's own logic

| Component | State | Operations | Interacts with | What is hard |
|---|---|---|---|---|
| Transaction fetcher, `eth/fetcher/tx_fetcher.go` | announced hashes in three stages (waiting, queued, in flight), requests, two timers | `Notify`, `Enqueue`, `Drop`, wait timer, timeout timer | called by the protocol handler; calls `addTxs` of the pool and `fetchTxs` of a peer | messages of many peers interleave with timers; late, partial and duplicate replies |
| Transaction pool, `core/tx_pool.go`, `tx_list.go`, `tx_noncer.go` | pending and queued lists per account, lookup, price heap, virtual nonces, heartbeats, local accounts | `add`, `removeTx`, `SetGasPrice`, eviction, `promoteExecutables`, `demoteUnexecutables`, `truncatePending`, `truncateQueue`, `reset` | chain state and head events; feeds the miner and the handler | a transaction is in several structures at once; every limit has exemptions; a reset rewrites the nonces |
| Pool scheduler, same file | merged requests, events to send, done channels | `requestReset`, `requestPromoteExecutables`, `queueTxEvent`, `runReorg`, shutdown | callers of `addTxs`, the head loop, subscribers | unbuffered channels and a lock that are held across each other |
| Transaction journal, `core/tx_journal.go` | a file and its successor | `insert`, `rotate`, `load` | pool | crashes between file operations |
| Block fetcher, `eth/fetcher/block_fetcher.go` | announced, fetching, fetched, completing, queued; quotas per peer | `Notify`, `Enqueue`, `FilterHeaders`, `FilterBodies`, timers, import | handler, chain | two-step retrieval, quotas counted in several places |
| Download queue, `eth/downloader/queue.go`, `resultstore.go` | task queues, pending requests, a window of results | reserve, deliver, expire, revoke, take results | downloader loops | late deliveries, throttling, a window that slides under concurrent counters |
| Clique, `consensus/clique` | signers, votes, tally, recent signers | `apply` | header verification, sealer | votes that lapse, are withdrawn or reset |
| Chain, `core/blockchain*.go`, `headerchain.go` | head markers, canonical index, side blocks, states in memory | insert, reorganise, `SetHead`, artificial finality | database, feeds | order of the writes, crashes, fork choice |
| Freezer, `core/rawdb/freezer*.go` | data files and index | append, truncate, repair | database | crashes between data and index |
| Event feed, `event/feed.go` | send cases, inbox, send lock | `Subscribe`, `Send`, `Unsubscribe` | everything above | cancellation during a send |
| Dialer, `p2p/dial.go` | dial slots, static nodes, history | the scheduler's loop | server | slots shared by static and dynamic dials |

The other parts (virtual machine, trie and state, proof of work, light protocol,
discovery, miner, accounts, RPC, commands) are listed in `PROJECT.json` with the
reason why they are not modelled: they are sequential data structures, arithmetic
over 256-bit words, input and output, or protocol stacks that come later.

### 1.2 How the parts interact

Peers announce hashes to the handler, which calls the transaction fetcher's
`Notify`. The fetcher waits for a broadcast, then requests the transactions from
one announcer, and hands what arrives to the pool's `AddRemotes`. The pool puts a
transaction into its queue and asks the scheduler for a run; the run
(`runReorg`) promotes it, keeps the limits, and announces it through `txFeed` to
the handler and the miner. A new head of the chain reaches the pool's loop through
an event and becomes a run with a reset.

### 1.3 What makes each part correct

* Fetcher: a hash is in one stage, is asked of one peer at a time, survives the
  failure of one of its announcers, and never waits without a timer.
* Pool: lookup and lists agree, a nonce is held once, pending transactions are
  executable in turn, limits hold with their exemptions, local transactions stay.
* Scheduler: a caller that waits for its run gets that run; merged resets leave
  out no block; nobody waits for ever, not even during a shutdown.
* Journal, freezer: after a crash what was acknowledged is read back.
* Block fetcher, download queue: nothing is lost or done twice, quotas return to
  zero, the window never hands out a hole.
* Clique: the tally is what the votes say; the signers can always go on.
* Chain: the index is the chain of the head, the head has a state, nothing invalid is
  canonical, the heaviest permitted chain wins.
* Feed: a value reaches every subscriber of its time at most once and in one order,
  and nobody can be blocked by a cancellation.

## 2. Plan

Done, with proofs: `TxFetcher`, `TxPool`, `TxPoolReorg`, `CliqueSnapshot` with
`CliqueVoting`, `DownloadQueue` with `ChainDelivery`, `Feed`, `BlockFetcher`,
`BlockChain` and `Freezer`.

Left, in this order:

1. `TxPriced` (the heap with stale entries refines the pool's view of it) and
   `TxJournal` (crashes), which complete the pool.
2. The header skeleton and the pivot of the downloader; the freezer's part of
   `SetHead`, which joins `BlockChain` and `Freezer`.
3. Compositions: fetcher with handler and pool; `TxPoolReorg` with `TxPool`, whose
   `dirty` its `dirtyAccounts` implement.
4. The dialer (`p2p/dial.go`).

## 3. Modules

### 3.1 `TxFetcher` (transaction fetcher)

State: the maps of `TxFetcher`, with a missing entry as the empty set, and whether
the two timers are armed. Actions: one per case of the loop's `select`:
`HandleNotify`, `HandleWaitTrigger`, `HandleTimeoutTrigger`, `HandleCleanup`,
`HandleDrop`; each includes its trailing `scheduleFetches` and `rescheduleWait`.
`WaitExpires` and `RequestExpires` let time pass for one entry. The iteration order
of Go maps is a choice (`Allocations`, `Cutoffs`). A message may come from any
peer at any time. The panics of the loop set `panicked`.

### 3.2 `TxPool` (transaction pool)

State: `pending`, `queue`, `all`, `nonces` (`pendingNonces`), `beats`, `locals`,
`gasPrice`, the chain state (`nonce`, `balance`), and the accounts with a
requested promotion (`dirty`). The rest is where the operation that holds
`pool.mu` is: its loops are cut into their iterations, so that invariants are
checked inside them as well. `phase` follows `runReorg`:

    idle -> reinject -> promote -> demote -> truncate -> truncPending
         -> truncQueue -> finish -> idle

A run without a reset starts at `promote` and skips `demote`. `drops` is what a
loop of `removeTx` calls has left to remove, and `adding` the transaction for
which a full pool makes room. Operators on a record of the five tracked structures
(`enqueueTx`, `removeTx`, `Promote`, `Demote`) keep the names of the functions
they model. `truncatePending` is `StartTruncate`, then `NextOffender`, `Equalize`
and `Reduce` until `PendingTruncated`.

Abstractions: a transaction is sender, nonce and price, its cost is its price, and
it takes one slot; the heap is the order `Cheaper` on the lookup; a heartbeat is
fresh or old; a head is a new account state with the transactions it undoes, all
of them or, for a deep reorganisation, none. A reset that returns early
(`RunFailedReset`) keeps the old state. `RemoveTx` takes no lock in the code; the model lets
it run only where the lock is free (section 5).

### 3.3 `TxPoolReorg` (scheduler)

State: where each caller of `addTxs` is, the head loop, `scheduleReorgLoop` with
its variables, the run with its arguments, the holder of `pool.mu`, one subscriber.
Every channel is unbuffered, so a send and its receive are one step. A done channel
is named by its role, the current run's or the next one's, which keeps the state
finite without a bound on the number of runs. `unserved` and `unsent` are history:
they say whether the last transaction of a caller was visited by a run and
announced. What the run does to the lists is `TxPool`; the two modules meet in
`dirtyAccounts`, the `dirty` of `TxPool`, and in the two kinds of run. The initial
state is the one after `NewTxPool`: the chain does not move while the node is being
constructed.

### 3.4 `Freezer` (ancient store)

State: of each table its index and data files, with how much of each is durable;
the key-value store (`kv`, one side chain), the head marker, and where the freezer
is. Actions: one per file operation. A batch is `StartBatch`, then per block and
table `AppendData` and `AppendIndex` (or `AppendFails`, which truncates), `EndBatch`,
the syncs, and the wipes of the canonical and of the side blocks. `Crash` loses the
memory; in an environment with power failures `LoseIndex` and `LoseData` then take
back what was not synced; `Open` runs `repair` of each table and of all of them,
`Validate` compares with the key-value store. `MissAncient`, `LookKv` and
`LookAgain` are a reader that looks in three places one after the other.
`Environments` says which faults a behaviour may have and how large a file is, so
that one run covers several; `Tolerated` says which of them the freezer withstands:
the properties of section 4 are about those, and section 5 has the others. Abstractions: items have size one; a block is its
number and a version that changes with a rewind; a truncation and a batch of the
key-value store are durable at once.

### 3.5 `CliqueSnapshot` and `CliqueVoting` (proof of authority)

`CliqueSnapshot` has the snapshot record with votes, cached tally and recent
signers, and a second node that starts from a trusted checkpoint (`light`). `Block`
applies a header as `apply` does: window of recents, epoch reset, withdrawal of the
earlier vote, cast, passing, and what a dropped signer takes with it. `Seals`,
`verifySeal` and `Applies` are the three places that decide who may sign.
`CliqueVoting` is the rule without caches: votes and signers only; the property
`VotingSpec` is that the snapshots implement it. The liveness of signing is
`NoStall`, an invariant: some signer may always sign the next block.

### 3.6 `DownloadQueue` and `ChainDelivery` (downloader)

State: the task pools and queues of bodies and receipts, the requests in flight, the
window of results with its `indexIncomplete` counter, the peers with their idle
flags and lacking sets, the two `fetchParts` loops, the processor and `spawnSync`.
Answers travel in `net` and may be empty, partial, bad, late, or for a request that
has expired. An operation of the queue is one step, except for what the processor
does under the lock of the result store alone, which may come between two headers of
a reservation or a delivery. A loop's update is one step as long as a peer that
leaves in the middle makes no difference; where it does, after `pending() == 0`, the
loop is "flying" and looks for requests in flight in a step of its own (`InFlight`).
`unseen` is history: a peer left with its request while a loop was there.

`ChainDelivery` promises what the synchronisation is for: blocks reach the chain in
order, once, with their own parts, and the synchronisation is complete only with all
of them. The mapping (`Outcome`) takes the outcome from `sync.err`, the value that
`spawnSync` returns, which is that of the last routine it has heard: an error is
"aborted", nil is "complete", but "interrupted" if the synchronisation was cancelled
or a loop has missed a peer that left, which section 5 is about. The main invariant,
`TasksAccounted`, says of each missing part that it is in the task queue or in the
request of exactly one peer. The headers of a request are handled in their order;
`Place` is the position of one.

### 3.7 `Feed`

State: the send lock, the inbox, the case list in its order, each sender's place in
`Send` (`Lock`, `Merge`, the `TrySend` pass, `select`, unlock), each channel's
subscription and buffer. The list is permuted as the code does it: a case that was
served is swapped behind the active prefix, a removed one is deleted from both.
`log` is history: all that was ever sent to a channel.

### 3.8 `BlockFetcher`

State: the maps of the fetcher in one record `f`, whether each timer will fire, the
import goroutines, the local chain. Actions: one per case of the loop's `select`
(announcement, propagated block, headers, bodies, the two timers, a finished import,
a stop), and `LoopTop` for what the loop does before it waits; light and full
fetcher. `forgetHash` and `forgetBlock` are operators on `f`.

### 3.9 `BlockChain`

The tree of all blocks is a constant: `Parent`, `Number`, `Td`, `Time`, `TxsOf` and
which blocks are `Invalid`; `Root` is the state root in the header, which blocks may
share, and claim without having it; `Path` is a block with its ancestors, the least
set that is closed under `Parent`. State: what is on disk (`db`, `canon`, the two
head markers, `lookup`, `saved`), the references to states in memory (`cached`, the
executed blocks), and the operation under way, as `chainmu` serialises them.
`InsertChain` starts an insertion of up to `MaxChain` linked blocks; its steps are
the iterations of the loops of `insertChain` (skipping known blocks, executing,
known blocks in the middle), `insertSideChain` with its refusal of a block that has
the root of the canonical one (`Ghost`) and the recovery of pruned ancestors, and
the batches of `reorg` and `writeHeadBlock`. `SetHead` is cut at its writes; called
with the number of the head it only repairs it. `StopInsert` is `procInterrupt`;
`Stop` saves the states that the code saves, and waits for an insertion but not for
a rewind; `Crash` loses the rest, `NewBlockChain` repairs. Fork choice is by total
difficulty, then by the lower number, then by choice, and artificial finality
(`ecbp1100`, with its integer curve) where the code applies it.

`HasState` asks for a root, as in the code: a state on disk (`saved` is a set of
roots) or one that some executed block still refers to. So a block may be known
without having been executed, if a block with its root was. `InvalidNeverCanonical`
is about all invalid blocks but those that lie, or have a descendant that lies,
about a root that a valid block has (`Unmasked`); honest blocks may share roots at
will, as an empty block does with its parent and two forks with the same
transactions do.

`HeadHasState` says that the head of an idle node has a state, unless blocks
`TriesInMemory` above it, or above a block that shares its state, were executed and
did not replace it (`Outgrown`): garbage collection (`blockchain.go:1518`) goes by
the number of the block that was written, not by the head. `CleanRestart` is about a
node that has the state of its head when it is stopped in order: it restarts with
this head.

## 4. Runs

TLC explores the whole state space of each passing run.

| Run | Instance | What it shows |
|---|---|---|
| `txfetcher` | 2 peers, 2 hashes, 2 per announcement and request | `Inv`: types, no panic, exclusive stages, agreeing trackers, requests, timers; no second request to a peer that timed out; a failure costs a hash one announcer at most; nothing waits or is fetched for ever |
| `txpool_reorg` | 1 account, 3 nonces, 2 prices, capacity 2, any head | lookup and lists agree, the front is executable, nothing executable is left queued, capacity, local transactions |
| `txpool_advance` | 2 accounts, 3 nonces, 1 price, heads that only advance | no gaps and the right virtual nonce, limits reached, guaranteed slots and local accounts spared |
| `txreorg` | 1 synchronous caller, 2 heads besides the first, shutdown | a caller is served and announced before it returns, and returns; merged resets are contiguous; `Stop` ends; no deadlock |
| `freezer` | 2 tables, 5 blocks, threshold 1, batches of 1, 1 rewind, 4 environments (below) | the chain is readable from every table, readers find every block, nothing is lost between the stores or points to nothing, freezing goes on |
| `clique` | 5 addresses, 4 signers at first, epoch 6, 11 blocks | tally, nobody locked out, the three rules agree, a trusted checkpoint gives the same signers, `CliqueVoting` is implemented |
| `download` | fast sync of 3 blocks (full, no receipts, empty), 2 peers, window of 2, 1 fault, 1 header lacking | tasks and slots account for each other, no lost wake-up, `ChainDelivery` is implemented |
| `download_live` | full sync of 2 blocks, requests of 1 header, 2 peers, 2 headers lacking, 1 fault, a cancellation | every goroutine of the synchronisation returns |
| `feed` | 2 channels with buffers of 1, 2 senders, 2 sends, 4 subscriptions | the list and its active prefix are right, all channels see one order, nothing comes after a cancellation, which is never blocked; `Send` returns if everybody reads |
| `blockfetcher` | 3 blocks on 2 branches (1 empty), 2 peers, limits of 1, 2 announcements, light and full | one stage, quotas that return, timers set, no block imported twice at a time |
| `blockchain` | 7 blocks on 3 branches, 3 with one state root, the heaviest ends in an invalid block, insertions of up to 3, 2 states in memory, 2 crashes, stops or rewinds, finality on or off | canonical chain, state of the head, no invalid canonical block, transaction lookups, fork choice, clean restart |
| `blockchain_panic` | the same without events | violated, see section 5 |

The invariants named `...Inv` are conjunctions: the module's type invariant and the
named parts above it in the module. `TypeOK` of `TxPool` and
`ReorgTypeOK` of `TxPoolReorg` are proved (section 6) and not repeated in their runs.

Why the bounds are enough to be interesting.

* Fetcher: two peers are needed for a theft of a delivery and for an alternate; a
  request limit of two makes partial replies possible.
* Pool: three nonces are the least with a transaction before, at and after a removed
  one; two prices are the least for outbidding, repricing and a transaction that is
  refused at reinjection; two accounts with three transactions each make
  `truncatePending` pop, equalise and reduce; the limits are one to three so that
  every one is hit. Heads that go back have one account: no operation of a reset
  relates two accounts except through the limits.
* Scheduler: two heads give a merged request different ends; the caller may add
  again and again, so that its next call meets every state of a run. Two callers
  are covered by the theorems.
* Freezer: five blocks with a threshold and batches of one make two batches and a
  block that stays; the environments are a new file for every item with two kills,
  files of two items with side blocks, readers and a failed write, one file with two
  power failures, and a freezer that is replaced by an older copy of itself.
* Clique: with four signers and a candidate a majority is three, votes pass in both
  directions, the window of recent signers grows and shrinks, and eleven blocks with
  an epoch of six contain a checkpoint with votes before and after it.
* Download: a window smaller than the chain makes it slide while requests are in
  flight; the three blocks have all kinds of results; two peers are the least for a
  retry elsewhere.
* Feed: two channels are the least for a swap in the case list, two sends for an
  order, four subscriptions let each channel subscribe again.
* Block fetcher: limits of one are hit at once; three blocks are the least for two
  competing children and a block whose parent is missing.
* Chain: seven blocks have a tie, a heavier branch that is shorter, a heavier branch
  that is invalid, and a branch deep enough that its parent's state is pruned. A block
  that shares its parent's root is met as known in the middle of an insertion, and one
  that shares that of a block of its own number is refused by `insertSideChain`.

Every property has a mutant, a plausible bug in a definition that models code, with
which TLC finds it violated; every action fires in some passing run.

`MaxNonce`, `MaxBlock`, `MaxRewinds`, `MaxNumber`, `MaxSends`, `MaxSubscribes`,
`MaxNotify`, `MaxChain`, `MaxEvents`, `MaxFaults`, `MaxLacking` and `limit` in
`Environments` are bounds that the program does not have. All other constants are
parameters of the program or sets of its inputs.

Fairness. Goroutines run (weak fairness); a `select` does not ignore a ready case for
ever (Go picks at random) and a mutex does not starve a waiter (Go's hands over after
a millisecond), hence strong fairness for steps that are enabled again and again but
not continuously.

* `TxFetcher`: the clock runs and an armed timer fires; nothing is assumed of peers.
* `TxPoolReorg`: strong fairness for the sends to the scheduler, the run, the callers
  and the subscriber, which reads its events; weak for the launch of a run and the
  last wait of the shutdown.
* `Freezer`: weak fairness of freezing and of opening, that is, the node is started
  again after a crash.
* `DownloadQueue`: weak fairness of the headers, the processor and the two loops;
  strong for the `cancelCh` case of the loops, and for a request to be answered or to
  expire.
* `Feed`: weak fairness of a sender's steps, strong for the send lock and for the
  removal of a channel. Readers are not assumed to read; `SendReturns` says that a
  `Send` returns if they do.

Deadlock is checked where the system never stops; a cfg that turns it off says why.

## 5. Where the code and its comments disagree

The run `blockchain_panic` shows a panic. `reorg` says of a `reorgData` with an error
that it is returned at once (`core/blockchain.go:2278`), but it logs
`data.oldBlock.Number()` first (2286), and `getReorgData` gave no `oldBlock` (2261).
TLC's trace gets there without a crash: a pruned canonical block is inserted again
together with its child, which still has a state. The child, an ancestor of the
head, is a known block in the middle of a segment, which is made the head
unconditionally (1878).

Modelling met the following as well. The models follow the code; the passing
properties are stated so that they hold of it, and each item says where that shows.

* `tx_fetcher.go:373` cuts an announcement that crosses the limit to the excess, not
  to the room that is left, so `maxTxAnnounces` (:36) can be exceeded (`Accepted`).
* `tx_fetcher.go:653`: a peer that left stays among the alternates of a hash that is
  in flight elsewhere, though :616 says that all traces go (`HandleDrop`).
* `tx_pool.go:1434`: a reorganisation with a refused reinjection can leave a gap in
  the middle of a pending list, as demotion looks at its front only. `NoGaps` is
  checked for a chain that advances; `FrontExecutable` in general.
* `tx_pool.go:1231`: a promotion merged with a reset may be left behind for a
  transaction that follows pending ones (`ReadyPromoted` allows for it).
* `tx_pool.go:940`: `RemoveTx` takes no lock, though `enqueueTx`, which it reaches,
  assumes it (:655).
* `headerchain.go:541`: a process killed in a rewind below the frozen blocks, after
  the head header is written and before the freezer is truncated, restarts with
  frozen blocks above its head: `NewBlockChain` calls `SetHead`
  (`blockchain.go:295`), whose loop (`headerchain.go:515`) has nothing to do. To see
  it, give `Environments` the value `MCRewind` in `freezer.cfg`.
* `database.go:542`: that the freezer has the blocks that the key-value store lacks is
  tested at the first block after the frozen ones only. A process killed between the
  sync and the wipe of a batch leaves that batch in both stores; if its ancient
  directory is then replaced by an older copy that ends just below such a block, the
  block hides the gap behind it. A copy put back after the first crash is always
  refused or complete.
* `freezer_table.go:495`: a data file is closed without a sync when the next one is
  begun, though `Sync` (:625) "pushes any pending data from memory out to
  disk" before blocks are wiped. A power failure may then take back blocks that the
  key-value store no longer has, unless all of them are in one file.
* `downloader.go:569`, `:587`: `spawnSync` is said to return "the first error that
  appears", but a cancellation is overwritten by the routine that returns next, so
  that it may return nil for a synchronisation that was cancelled. `Outcome` is what
  it returns, and "interrupted" for nil after a cancellation.
* `downloader.go:1463`: "If there's nothing more to fetch, wait or terminate" (:1462) is
  decided by `pending()` and then `inFlight()`, each under the lock of the queue for
  itself. A peer that disconnects in between, or that the other loop drops, puts its
  request back (`queue.go:606`) where the loop has looked already: it returns nil with
  tasks queued, the results are never complete, and the processor ends when the queue
  is closed, so that `spawnSync` may return nil with blocks missing. With
  `unseen` left out of `Outcome`, the run `download` finds it; `DeliverySpec` says that
  this and a cancellation are the only ways.
* `block_fetcher.go`: a block in `completing` never expires (:341 and :402 look at
  `fetching` only); `forgetHash` counts one announcement down where a peer may have
  several (:830), so `NotShutOut` bounds the count from one side; after `Stop`, the
  import goroutines wait on `done` for ever (:788).
* `blockchain.go:1878`: a known block in the middle of a segment is made the head
  without a look at the total difficulty or at artificial finality, where the comment
  says "just skip the block"; `ForkChoice` excepts it.
* `blockchain.go:811`: `HasState` is asked for a root, so that a block that was stored
  and not executed counts as known if its header has the root of one that was. The
  comments know the case, a block that "is lying about it's stateroot, and passes a
  stateroot from the canonical chain, which has not been verified" (:1728), but a known
  block in the middle is taken for one that "we already validated [...] once fully" (:1853).
  `insertSideChain` refuses such a block only if the canonical block of the same number
  has the root, at the time when the block is stored (`:2037`). `InvalidNeverCanonical`
  is about the other invalid blocks.
* `blockchain.go:2368`: after a reorganisation to a shorter chain by one block,
  entries of the canonical index stay above the head. `CanonicalChain` speaks of the
  entries up to the head.
* A crash between the deletion of lookups and the head of a reorganisation loses
  lookups of transactions that become canonical (`LookupRight` excepts a crash); a
  crash in `SetHead` leaves the head header behind the head block; a lighter side
  chain that is more than `TriesInMemory` blocks longer lets the state of the head be
  collected (`HeadHasState` excepts it).

## 6. Proofs

All theorems are proved from the named assumptions on the constants alone, for any
number of peers, hashes, accounts, callers, heads, signers, headers, channels and
blocks, files and tables and any limits. The assumptions (`...Assumption` in each module) say that the
sets are finite and the limits are numbers, positive where the code has a positive
default. Two say more. `BlockChainAssumption` says that the constants are a tree of
blocks whose numbers, times and difficulties grow (header verification, which is not
modelled, sees to that), and that no transaction is twice on a chain, which the nonces
ensure. `BlockFetcherAssumption` says that `None` is not a peer. Two kinds of theorem
have a hypothesis: `PoolNoGaps` (a chain that only advances) and those of the freezer
(environments that are `Tolerated`; `MCTolerated` says that those of the run are).

In all modules the invariant is first stated, and then used, as a predicate of the data
that the operators work on (a queue record, a pool record, a snapshot, the maps of the
block fetcher), so that each operator has one lemma, whichever actions call it.

### `TxFetcherProofs`

`FetcherConsistent` proves the invariant `Inv` of `TxFetcher`, which the run checks. It contains the type invariant and
`NoPanic`, `StagesExclusive`, `TrackersAgree`, `FetchesMatchRequests` and
`TimersArmed`; the others follow from it. The handlers change the queue and then
call `scheduleFetches`, so the argument is about queue records: `QueueInv` says
when a queue is consistent, each handler is shown to leave a consistent queue
(`NotifyInv`, `UntrackedInv`, `RequeuedInv`, `DropInv`, ...), and one lemma shows
that scheduling keeps it so (`ScheduledInv`, `ScheduledTimer`). The five invariants
need each other: that a theft finds its request, for example, follows from
`FetchesMatchRequests`, which needs the stages to be exclusive.

`FetcherNeverReasks` and `FetcherCostsOnePeer` are the step properties
`TimeoutNeverReasks` and `FailureCostsOnePeer`. Both follow from `Inv` in one step:
scheduling adds no origin to a hash (`ScheduledOrigins`), so what a peer is still asked
for is what the handler left it, and a handler other than the cleanup of a delivery
takes a hash from one peer at most (`OnlyOne`).

### `TxPoolProofs`

All properties of the two pool runs, `PoolNoGaps` for a chain that only advances.

`PoolTypeOK`, `PoolAllTracked`, `PoolNoncesUnique`, `PoolQueueBeats` and
`PoolLocalsKept` are about the tables. The inductive invariant `Inv` says of each
account that its two lists hold its own transactions with distinct nonces, that the
lookup restricted to the account is their union, that a queued account has a
heartbeat, and of the loops that they never hold a local transaction
(`LoopsSpareLocals`). `AllTracked` alone is not inductive: `removeTx` finds a
transaction by its nonce, so it needs `NoncesUnique`; `enqueueTx` replaces by nonce as
well. Each of `enqueueTx`, `removeTx`, `Promote`, `Demote`, `Insert` and `Shorten` has a
lemma that it keeps the invariant of a pool record and what it may do to local
transactions.

The others are about nonces and sizes. With `Inv` every step is reduced to what it does
to the lists of one account: nothing that matters (`Kept`), the removal of a
pending transaction with those that follow (`Cut`), a new queued transaction
(`Queued`), `Promotes` or `Demotes`. `Steady` says which of the first three an
operation may be in which phase; the rest of a run are turns from phase to phase, the
reset and `Finish` (`NextCases`). Each invariant below has one lemma for each kind.

* `PoolFrontExecutable`: `FrontInv` says that an account the run has settled has an
  executable front (`Front`), and that of an account still to be settled the virtual
  nonce is not ahead of the state or the next transaction is pending and payable
  (`Started`), so that demotion finds it. `FrontExecutable` alone is not inductive: an
  empty list whose virtual nonce is ahead would be promoted past the front.
* `PoolReadyPromoted`: `ReadyInv` follows an account through promotion, where
  `Ready` takes all that is consecutive (`ReadyMaximal`) and so leaves the next nonce
  out of the queue (`Strong`), and demotion, which may put it back only when others are
  pending (`Served`). A dirty account is exempt until its run.
* `PoolWithinBound`: `BoundInv` says that while `add` makes room, the pool without
  what is still to be dropped has room for the transaction (`Roomy`), and that it is
  within its bound otherwise (`Within`).
* `PoolNoGaps`: `GapInv` says `Gapless` of an account at rest. During a reset the
  virtual nonce is that of the state, or the end of a payable list (`Resumes`), and until
  `Finish` recomputes it the list has no gap downwards (`Rests`); `ReadyRun` shows
  that what a promotion adds is consecutive. The theorem assumes `~Reorgs`, the
  setting of the run `txpool_advance`: a reorganisation with a refused reinjection leaves
  gaps (section 5).
* `PoolLimitsHold` and `PoolGuaranteedSlots`: `TruncInv` is the loop invariant of
  `truncatePending`: its count is no less than what is pending, the spammers have the
  sizes they were queued with, all offenders but the last have equal sizes that the
  last does not exceed, none is below its guaranteed slots, and whoever has more than
  those is a spammer or an offender. A cut takes exactly one transaction from each list
  (`TopOne`, `ShortenSizes`), as the nonces of a list are distinct. `LimitInv` keeps
  the result through `truncateQueue`.

The scheduler has `ReorgWellTyped`, `ReorgSyncServed` and `ReorgHeadsContiguous`.
`SyncServed` only speaks of callers that have returned; the invariant (`OnItsWay`)
follows the transaction from the caller through the scheduler to the run, and ties the
channel that the caller waits on to the run that has it. `HeadsContiguous` needs that
the waiting request, the one of the run, and the loop's head form a chain (`Chained`).

### `CliqueProofs`

`CliqueSnapshotInv`, `CliqueRulesAgree`, `CliqueCheckpointAgrees` and the refinement
`CliqueVotingRefined`. The invariant has `Counted`, that the tally is the count of the
votes, that all votes on an account ask for the same, and that they are votes of
signers for a change; `Windowed`, that the recent signers are within the limit; no
votes at an epoch; and that the node with the checkpoint `Agrees`. `apply` has a lemma for
each of its steps (`ShiftFields`, `SignedFields`, `RecastFields`, `ChangeFields`). The
test on the cached tally is one on the votes (`PassedMajority`). That some signer can go on
(`SomeoneApplies`) is the counting argument that a window of half the signers has
fewer signers than there are.

### `BlockFetcherProofs`

`FetcherImportedOnce` and `FetcherStages`. `Sound` is the invariant of the maps: a
block is in one stage (`Staged`), the counts of a peer are those of its blocks
(`Counted`) and not above those of its announcements (`Backed`), and the entries of
`queued` are the blocks that wait or are being imported (`Listed`). `forgetHash`,
`forgetBlock` and `enqueue` have a lemma each, and every action is made of them.

### `FeedProofs`

`FeedCasesInv`, `FeedSameOrder`, `FeedSilentAfterwards`. The invariant speaks of
positions in the lists: no channel is listed twice (`Lists`), one sender has the lock
(`Locks`), the cases of the active prefix are the channels whose value is still due
(`Due`), the number sent is that of the others (`Counted`). `SameOrder` needs that a
value that is being sent is the last one of every channel that has it (`Latest`) and
that it is new when `Send` begins (`Fresh`).

### `BlockChainProofs`

`ChainCanonical`, `ChainValid`, `ChainHeadHasState`, `ChainCleanRestart`,
`ChainLookup`, `ChainForkChoice`. The first lemmas are about trees: `Path` is linear
and has one block of each number. The invariant then says that the database has the
ancestors of its blocks (`Linked`), that the head header is on one chain with the
head block (`HeaderInv`), that every state is that of a block which was executed, on
states of which the same holds (`StatesValid`, `Sound`), and of a reorganisation
that what is left to write is the end of the new chain (`ReorgInv`): this is why a
crash between two batches leaves the index of some head. `ChainValid` needs that a
block with a state has no unmasked invalid ancestor, also if it was not executed
itself (`StateSound`): it has the root of one that was, which is the block itself or
would mask those ancestors. `ChainLookup` and `ChainForkChoice` have an invariant of
their own on top of it: the latter follows an insertion through several changes of
the head and shows that artificial finality, applied to each, holds for the whole.

### `DownloadQueueProofs`

`QueueCorrect` and the refinement `DeliveryRefined`. The invariant: the slots are in
the window and have exactly the parts that are not pending (`StoreInv`); a part is
queued, in one request or done, and a requested part has a slot that waits for it
(`Task`); peers and processor are not forgotten (`PeerInv`, `ProcInv`); a loop that
is about to look for requests in flight has nothing queued, unless it has missed a
peer that left (`LoopInv`); as long as there is no error, no cancellation and no
such peer, a routine that has returned has done its work (`SyncInv`); the chain has
the blocks below the window (`ChainInv`). For the refinement every step is an
import, the return of a routine, or leaves the chain and the outcome alone
(`StepKinds`); that a return without an error is the end needs `SyncInv`.

### `FreezerProofs`

`FreezerChainReadable`, `FreezerReaderFinds` and `FreezerConsistent`, for environments
that are `Tolerated`. `ChainReadable` alone is far from inductive: it speaks of a
database that is open, and what it finds there was left by any prefix of the file
operations of an append, a truncation, a sync or a repair. The inductive invariant is in
layers.

* The disk (`DiskInv`): the positions of an index grow by one item, in one file or into
  the next (`Ordered`), and as far as the files reach they have the canonical blocks
  (`Right`). Positions are compared in pairs, so that what an operation does to one
  table follows without induction: `CutTable` and `TrimTable` for truncations,
  `GrowTable` and `LongTable` for the two halves of an append.
* The memory (`MemoryInv`, `LengthInv`, `PhaseInv`): an open table agrees with its files
  but for the operation under way, an item written and not yet indexed (`Ahead`) or an
  index already cut (`AtEnd`); what the phase says of the tables still to be visited.
* The two stores (`SyncedInv`, `BackedInv`): a block that was wiped is in every table,
  and `Durable` where the power may fail, which is why the syncs come before the wipes.
  While a copy that was put back waits for `Validate`, this is weaker: below a
  wiped block everything is wiped, so that the first block after the copy tells.
* Before the first fault (`ExactInv`, `SideInv`) exactly the blocks of complete batches
  are wiped, and the side blocks begin after a block that is not frozen. The reader
  (`ReaderInv`) that missed a block in the key-value store finds it in the freezer.

`ConsistentTable` shows that `repair` of a table ends with one whose files reach the end of its
index. Each hypothesis of `Tolerated` is needed: without it TLC finds a chain that cannot be
read, for a kill in the middle of a rewind, for a power failure with more than one
file, and for a copy after an earlier crash (section 5).

### What is only model-checked

Liveness (`HashesMove`, `SyncReturns`, `StopEnds`, `FreezeEnds`, `SyncEnds`,
`UnsubscribeReturns`, `SendReturns`) is out of the prover's reach. Every invariant and every
step property of every passing run, and both refinements, are theorems. The run with a
violation is a counterexample and has nothing to prove.

## 7. Not modelled

In the modelled files:

* Transaction pool: the messages' formats, signatures and gas accounting of
  `validateTx`, sizes of transactions in slots (each takes one), the stale entries of
  the price heap, the journal, meters and logs, and the queries that only read. A
  batch of transactions is added one by one.
* Freezer: a power failure together with the change to a new file (the old one is
  closed without a sync, `freezer_table.go:495`), torn writes, the ignored errors of
  index writes, the deletion of the tail, an empty ancient directory, a `SetHead`
  that races a batch, and fast sync's own appends. `truncateKVtoFreezer`, which deletes
  block by block and writes the marker last, is one step of `Validate`. Side blocks below
  the frozen ones are not imported (`n >= frozen` in `ImportSide`).
* Clique: difficulty, time, the caches and stored snapshots, the choice of a proposal,
  and the early block of a signer that does not wait for its turn: `verifySeal` lets it
  through by its unsigned subtraction, `apply` refuses it, and the snapshot stays.
* Downloader: the search for the ancestor, the header skeleton, the pivot and the
  state download, throughput estimates, peers that come back under the same id, and a
  downloader without `dropPeer` (`--copydb`), in which a peer whose small request
  expires stays busy.
* Feed: the types of values, several subscriptions of one channel, and
  `subscription.go`.
* Block fetcher: the calls of `dropPeer` and `broadcastBlock`, a message with the same
  body twice, a stop in the middle of a filter, and a chain that grows during one pass
  of `LoopTop`.
* Chain: the freezer's part of `SetHead`, fast sync, future and banned blocks,
  snapshots, events, `maintainTxIndex`, and a change of the finality switch in the
  middle of an insertion, also by the number at which ECBP1100 is activated.
  `insertSideChain` inserts again in segments of 2048 blocks or 64 MB, each with a look at
  `procInterrupt`; `Reimport` is one insertion. Archive mode, in which every state goes
  to disk. The three commits of `Stop` and its look at the head are one step; in a
  rewind it may be taken more than once.

Most of the repository's lines are generated code, tables (`4byte.go` alone is two
fifths of them), bindings, commands, RPC, cryptography, the virtual machine and the
trie. They hold data or sequential computation, and the project leaves them out; the
remaining candidates are in the plan. `PROJECT.json` lists every component with what
is left out of it, and the hazards that no property covers with the reason.
